\* Every geometry of MC_DdrAddrMap, accepted or not.
CONSTANTS
  OrgBytes <- MC_OrgBytes
  DensityBytes <- MC_DensityBytes
  AddressingBytes <- MC_AddressingBytes
  BusWidthBytes <- MC_BusWidthBytes
  DimmCounts <- MC_DimmCounts
SPECIFICATION Spec
INVARIANTS
  TypeOK
  AddressMapIsBijective
  AddressedRanksActiveAndTrained
  PhyPinsMatchDimm
