----------------------------- MODULE MC_DtMemory ------------------------------
(***************************************************************************)
(* Two chips of four slots over three windows of 2, 4 and 4 units, with    *)
(* secure DRAM the last unit of the first window. A slot is empty (0xff,   *)
(* checksum wrong), a DDR4 module of 1 or 4 units, or a DDR4 module with a *)
(* wrong checksum. Sums 0..16 reach an empty node, a capacity that ends    *)
(* exactly on a window (2, 6, 10), one that ends inside each window, and   *)
(* one beyond all three.                                                   *)
(*                                                                         *)
(* pcie_init() reads the same device tree: every choice of nodes for one   *)
(* subsystem at a time, with num-lanes absent, on each bound of the lane   *)
(* checks (4, 8, 16) and beyond them. The two readers share no state and  *)
(* no property relates them, so an initial state is a DIMM population     *)
(* with no PCIe node or a PCIe tree with the slots empty.                 *)
(***************************************************************************)
EXTENDS DtMemory, Bs1000Pcie

MC_REGION_DRAM == << [base |-> 2, size |-> 2], [base |-> 8, size |-> 4], [base |-> 16, size |-> 4] >>
MC_SEC_DRAM == [base |-> 3, size |-> 1]
MC_SlotValues ==
  { [crc |-> FALSE, ddr4 |-> FALSE, cap |-> 0],
    [crc |-> TRUE,  ddr4 |-> TRUE,  cap |-> 1],
    [crc |-> TRUE,  ddr4 |-> TRUE,  cap |-> 4],
    [crc |-> FALSE, ddr4 |-> TRUE,  cap |-> 4] }

NoTree == [i \in Ctrls |-> [compat |-> "none", lanes |-> 0]]
EmptySlots == [c \in Chips |-> [d \in Slots |-> [crc |-> FALSE, ddr4 |-> FALSE, cap |-> 0]]]

MC_Init ==
  \/ dimms = EmptySlots /\ PcieInit
  \/ Init /\ dt = NoTree

MC_Spec == MC_Init /\ [][UNCHANGED <<dimms, dt>>]_<<dimms, dt>>
=============================================================================
