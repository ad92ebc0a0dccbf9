\* Every build, both ports, every CRC of the tables, the dual-channel
\* CRCs of DBM20 and a DIMM without an entry (0x0000, the CRC value of
\* the generic rows); every module type, LRDIMM being refused; both rank
\* counts; every bin, and SPD timings with tRP equal to and different from tRCD.
CONSTANTS
  Boards = {"DBM10", "DBM20", "MBM"}
  ModuleTypes = {"RDIMM", "UDIMM", "SO_DIMM", "72B_SO_RDIMM", "72B_SO_UDIMM", "LRDIMM"}
  Crcs = {0, 18056, 45523, 48535, 14749, 64615, 40285, 32714, 45638, 6233, 55537}
  Clocks = {800, 933, 1066, 1200, 1333}
  Timings <- MC_Timings
SPECIFICATION Spec
INVARIANTS
  TypeOK
  StoredSettingsReload
