\* Every decoding of the SPD values of MC_SpdTiming.
CONSTANTS
  TckMtbs <- MC_TckMtbs
  TckFtbs <- MC_TckFtbs
  TaaMtbs <- MC_TaaMtbs
  TaaFtbs <- MC_TaaFtbs
  CasBytes <- MC_CasBytes
  TwrMtbs <- MC_TwrMtbs
  Dimms <- MC_Dimms
SPECIFICATION DdrSpec
INVARIANTS
  TypeOK
  SnapFollowsBins
  CasLatencyIsLeastSupported
  CwlIsGreatestAllowed
  ModeRegistersEncodeLatencies
  FieldsHoldTheirValues
