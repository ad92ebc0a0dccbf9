\* The BL31's readers of the device tree: memory nodes and PSCI entry
\* points, two chips of four slots; PCIe subsystem modes and roles.
CONSTANTS
  PLATFORM_CHIP_COUNT = 2
  BS1000_DIMM_NUM = 4
  ChipSpan = 32
  REGION_DRAM <- MC_REGION_DRAM
  SEC_DRAM <- MC_SEC_DRAM
  SlotValues <- MC_SlotValues
  LaneValues = {0, 4, 8, 16, 32}
SPECIFICATION MC_Spec
INVARIANTS TypeOK RegionsTileCapacity ReportedMemoryAccepted ModeServesController RolesAsDescribed
