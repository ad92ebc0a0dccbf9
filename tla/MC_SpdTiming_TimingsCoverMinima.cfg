\* Programmed timings, and the PHY reset low time, against their minima.
CONSTANTS
  TckMtbs <- MC_TckMtbs
  TckFtbs <- MC_TckFtbs
  TaaMtbs <- MC_TaaMtbs
  TaaFtbs <- MC_TaaFtbs
  CasBytes <- MC_CasBytes
  TwrMtbs <- MC_TwrMtbs
  Dimms <- MC_Dimms
SPECIFICATION DdrSpec
INVARIANTS
  TimingsCoverMinima
