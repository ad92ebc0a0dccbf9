------------------------------- MODULE DtMemory -------------------------------
(***************************************************************************)
(* The memory the BS1000 BL31 describes to the OS (bs1000_dt.c) and the    *)
(* entry points its PSCI code accepts from it (bs1000_pm.c).               *)
(*                                                                         *)
(* baikal_fdt_memory_update() sums, per chip, the capacity of every DIMM   *)
(* whose SPD checksum is right and lays it out over the three DRAM         *)
(* windows of the chip, filling each before the next; the result becomes   *)
(* the chip's /memory node. bs1000_validate_ns_entrypoint() accepts an    *)
(* address in one of the windows and outside secure DRAM.                 *)
(*                                                                         *)
(* Every state is one population of the DIMM slots; nothing changes. The   *)
(* window addresses and sizes, the secure region and the chip address     *)
(* offset are defined outside src/ and are constants here, as is the      *)
(* capacity spd_get_baseconf_dimm_capacity() decodes. Addresses are in    *)
(* units of the smallest window granule.                                   *)
(***************************************************************************)
EXTENDS Integers, FiniteSets, Sequences, Functions

CONSTANTS
  PLATFORM_CHIP_COUNT,
  BS1000_DIMM_NUM,   \* slots per chip
  REGION_DRAM,       \* the three windows: <<[base, size], ...>>
  SEC_DRAM,          \* [base, size]: secure DRAM
  ChipSpan,          \* PLATFORM_ADDR_OUT_CHIP(c, a) = c * ChipSpan + a
  SlotValues         \* what baikal_dimm_spd_get() can return for a slot:
                     \* [crc: checksum right, ddr4: memory type, cap]

Chips == 0..(PLATFORM_CHIP_COUNT - 1)
Slots == 0..(BS1000_DIMM_NUM - 1)
MAX_NUM_MEM_REGIONS == 3

VARIABLE dimms  \* dimms[c][d]: the SPD buffer read for slot d of chip c

Init == dimms \in [Chips -> [Slots -> SlotValues]]

Next == UNCHANGED dimms

Spec == Init /\ [][Next]_dimms
-----------------------------------------------------------------------------
PLATFORM_ADDR_OUT_CHIP(c, a) == c * ChipSpan + a

\* baikal_detect_sdram_capacity(): the capacities of the slots whose CRC
\* matches; an empty slot reads as 0xff and fails the CRC.
SdramCapacity(c) ==
  SumFunctionOnSet([d \in Slots |-> dimms[c][d].cap], {d \in Slots : dimms[c][d].crc})

\* The windows of chip c as region_descs[][] before the split.
RegionDescs(c) ==
  LET desc(i) == [base |-> PLATFORM_ADDR_OUT_CHIP(c, REGION_DRAM[i].base), size |-> REGION_DRAM[i].size]
  IN  << desc(1), desc(2), desc(3) >>

\* Mutant: the capacity placed in a window is not taken off the remainder.
RECURSIVE SplitNoDecrement(_, _, _)
SplitNoDecrement(descs, remain, k) ==
  IF k > MAX_NUM_MEM_REGIONS THEN descs
  ELSE IF remain <= descs[k].size
         THEN SubSeq([descs EXCEPT ![k].size = remain], 1, k)
         ELSE SplitNoDecrement(descs, remain, k + 1)

\* Mutant: the split moves on when the capacity exactly fills a window.
RECURSIVE SplitStrict(_, _, _)
SplitStrict(descs, remain, k) ==
  IF k > MAX_NUM_MEM_REGIONS THEN descs
  ELSE IF remain < descs[k].size
         THEN SubSeq([descs EXCEPT ![k].size = remain], 1, k)
         ELSE SplitStrict(descs, remain - descs[k].size, k + 1)

\* The loop of baikal_fdt_memory_update(): shrink the first window the
\* remaining capacity fits in and stop after it; a capacity larger than
\* all windows leaves all three whole.
RECURSIVE Split(_, _, _)
Split(descs, remain, k) ==
  IF k > MAX_NUM_MEM_REGIONS THEN descs
  ELSE IF remain <= descs[k].size
         THEN SubSeq([descs EXCEPT ![k].size = remain], 1, k)
         ELSE Split(descs, remain - descs[k].size, k + 1)

\* The regions fdt_memory_node_set() writes into chip c's /memory node;
\* no node when no capacity was found.
MemoryNode(c) ==
  IF SdramCapacity(c) > 0 THEN Split(RegionDescs(c), SdramCapacity(c), 1) ELSE << >>

\* Addresses of a region list.
Addresses(regs) == UNION {r.base..(r.base + r.size - 1) : r \in Range(regs)}

\* Mutant: the first address of a window refused.
ValidateNsEntrypointOpenBase(e) ==
  /\ \E i \in 1..MAX_NUM_MEM_REGIONS :
       e > REGION_DRAM[i].base /\ e < REGION_DRAM[i].base + REGION_DRAM[i].size
  /\ ~(e >= SEC_DRAM.base /\ e < SEC_DRAM.base + SEC_DRAM.size)

\* bs1000_validate_ns_entrypoint(): TRUE for PSCI_E_SUCCESS.
ValidateNsEntrypoint(e) ==
  /\ \E i \in 1..MAX_NUM_MEM_REGIONS :
       e >= REGION_DRAM[i].base /\ e < REGION_DRAM[i].base + REGION_DRAM[i].size
  /\ ~(e >= SEC_DRAM.base /\ e < SEC_DRAM.base + SEC_DRAM.size)

-----------------------------------------------------------------------------
\* The slots hold what an SPD read can return, and each /memory node has
\* at most MAX_NUM_MEM_REGIONS regions, none of them empty: fdt_setprop()
\* is given region_num entries of memregs[] and every one is a range.
TypeOK ==
  /\ dimms \in [Chips -> [Slots -> SlotValues]]
  /\ \A c \in Chips :
       /\ Len(MemoryNode(c)) <= MAX_NUM_MEM_REGIONS
       /\ \A i \in 1..Len(MemoryNode(c)) : MemoryNode(c)[i].size > 0

\* Reference layout: window i holds the part of the capacity between the
\* sizes of the windows before it and the end of its own.
Before(i) == SumFunctionOnSet([j \in 1..MAX_NUM_MEM_REGIONS |-> REGION_DRAM[j].size], 1..(i - 1))

ReferenceLayout(c) ==
  LET cap  == SdramCapacity(c)
      used == {i \in 1..MAX_NUM_MEM_REGIONS : Before(i) < cap}
      fill(i) == IF cap - Before(i) < REGION_DRAM[i].size THEN cap - Before(i) ELSE REGION_DRAM[i].size
  IN  [i \in 1..Cardinality(used) |->
         [base |-> PLATFORM_ADDR_OUT_CHIP(c, REGION_DRAM[i].base), size |-> fill(i)]]

\* Each chip's /memory node lays its DIMM capacity over the windows in
\* order, every window full but the last one used, none of them empty,
\* and capacity beyond the three windows dropped: the split loop of
\* baikal_fdt_memory_update() against the reference layout.
RegionsTileCapacity == \A c \in Chips : MemoryNode(c) = ReferenceLayout(c)

\* Every address of chip 0's memory that the OS is told about and that is
\* not secure DRAM is accepted by bs1000_validate_ns_entrypoint() as a
\* CPU_ON or SYSTEM_SUSPEND entry point.
ReportedMemoryAccepted ==
  \A e \in Addresses(MemoryNode(0)) :
    ~(e >= SEC_DRAM.base /\ e < SEC_DRAM.base + SEC_DRAM.size) => ValidateNsEntrypoint(e)
=============================================================================
