------------------------------ MODULE DdrAddrMap ------------------------------
(***************************************************************************)
(* The DIMM geometry ddr_config_by_spd() (bm1000/drivers/ddr/ddr_master.c) *)
(* reads from the SPD and accepts, and the HIF-to-DRAM address map that    *)
(* baikal_ddrc_set_registers() (ddr_init.c) programs for it into the      *)
(* controller's ADDRMAP0..8 and MSTR registers.                            *)
(*                                                                         *)
(* The state is the SPD of one DIMM and the board's channel mode; it never *)
(* changes, so every reachable state is one geometry checked.              *)
(***************************************************************************)
EXTENDS Integers, FiniteSets, Bitwise

CONSTANTS
  OrgBytes,        \* SPD byte 12, module organization (ranks, device width)
  DensityBytes,    \* SPD byte 4, density and banks (bank groups in bits 7:6)
  AddressingBytes, \* SPD byte 5, addressing (row address bits in bits 5:3)
  BusWidthBytes,   \* SPD byte 13, memory bus width (primary width in bits 2:0)
  DimmCounts       \* DIMMs on the controller: 2 in dual-channel mode

\* The rest of what baikal_ddrphy_set_registers() reads for DCR, as
\* ddr_config_by_spd() and the flash slot give it (BOOLEAN each):
\* data->mirrored_dimm, data->registered_dimm, and a USE_STR slot with
\* flsh_1t2t set.

VARIABLES org, density, addressing, busWidth, dimms,
          mirrored_dimm, registered_dimm, flash_1t2t

vars == <<org, density, addressing, busWidth, dimms, mirrored_dimm,
          registered_dimm, flash_1t2t>>

\* Bits lo .. lo+width-1 of a register holding v, as GENMASK(...) & (v << lo).
Field(v, lo, width) == (v % 2^width) * 2^lo

\* The field of the given width at bit lo of the register value r.
FieldOf(r, lo, width) == (r \div 2^lo) % 2^width

-----------------------------------------------------------------------------
(* ddr_config_by_spd(): the organisation parameters and their checks.     *)

\* Mutant: the rank count taken without its + 1.
ranks_NoOffset == (org \div 8) % 8

ranks == ((org \div 8) % 8) + 1
device_width == 4 * 2^(org % 8)
bank_groups == ((density \div 64) % 4) * 2
row_address == ((addressing \div 8) % 8) + 12
dbus_half == busWidth % 8 = 2
ecc_on == (busWidth \div 8) % 2 = 1

\* ddr_config_by_spd() returns 0 for this SPD, so the port is programmed.
Accepted ==
  /\ ranks <= 2
  /\ device_width <= 16 /\ device_width >= 8
  /\ bank_groups <= 4 /\ bank_groups >= 2
  /\ row_address <= 18 /\ row_address >= 14

-----------------------------------------------------------------------------
(* baikal_ddrc_set_registers(): MSTR and the address map.                 *)

\* Mutant: one rank fewer enabled in MSTR.active_ranks.
MSTR_OneRankShort ==
  (\h40040010 +
    (IF dimms = 1 THEN Field(2^(ranks - 1) - 1, 24, 4) ELSE Field(15, 24, 4)))
  | (IF dimms = 2 \/ flash_1t2t THEN 2^10 ELSE 0) | (IF dbus_half THEN 2^12 ELSE 0)

\* MSTR.active_ranks (bits 27:24): the ranks of one DIMM, or all four CS
\* with two DIMMs; 2T mode (bit 10) for two DIMMs or from the flash slot;
\* the half data bus (bit 12).
MSTR == (\h40040010 +
          (IF dimms = 1 THEN Field(2^ranks - 1, 24, 4) ELSE Field(15, 24, 4)))
        | (IF dimms = 2 \/ flash_1t2t THEN 2^10 ELSE 0)
        | (IF dbus_half THEN 2^12 ELSE 0)

\* The HIF bit positions given out in order by hif_addr: the first free
\* one after the fixed column, bank and BG0 mapping, then BG1, the rows
\* and the chip selects, each taking the next one when present.
Hif ==
  LET h0   == IF dbus_half THEN 12 ELSE 13
      hBg1 == h0
      h1   == IF bank_groups > 2 THEN h0 + 1 ELSE h0
      h14  == h1 + 14
      h15  == IF row_address - 1 >= 14 THEN h14 + 1 ELSE h14
      h16  == IF row_address - 1 >= 15 THEN h15 + 1 ELSE h15
      h17  == IF row_address - 1 >= 16 THEN h16 + 1 ELSE h16
      hCs0 == IF row_address - 1 = 17 THEN h17 + 1 ELSE h17
      hCs1 == IF ranks = 2 THEN hCs0 + 1 ELSE hCs0
  IN  [bg1 |-> hBg1, row0 |-> h1, row14 |-> h14, row15 |-> h15,
       row16 |-> h16, row17 |-> h17, cs0 |-> hCs0, cs1 |-> hCs1]

\* ADDRMAP1..4: the column and bank mapping, fixed per bus width.
ADDRMAP1 == IF dbus_half THEN \h003f0808 ELSE \h003f0909
ADDRMAP2 == IF dbus_half THEN \h7 ELSE \h01010100
ADDRMAP3 == IF dbus_half THEN \h1f000000 ELSE \h01010101
ADDRMAP4 == \h00001f1f

\* ADDRMAP8: BG0 at HIF A3 (A2 with a half bus), BG1 at the next free
\* HIF bit with four bank groups, else unmapped (63).
ADDRMAP8 ==
  (IF dbus_half THEN 0 ELSE 1)
  + IF bank_groups > 2 THEN Field(Hif.bg1 - 3, 8, 6) ELSE Field(63, 8, 6)

\* ADDRMAP5: ROW0, ROW1, ROW2..10 and ROW11 at consecutive HIF bits.
ADDRMAP5 ==
  Field(Hif.row0 - 6, 0, 4) + Field(Hif.row0 + 1 - 7, 8, 4)
  + Field(Hif.row0 + 2 - 8, 16, 4) + Field(Hif.row0 + 11 - 17, 24, 4)

\* Mutant: ROW15 mapped only from 17 row bits on.
ADDRMAP6_LateRow15 ==
  Field(Hif.row0 + 12 - 18, 0, 4) + Field(Hif.row0 + 13 - 19, 8, 4)
  + (IF row_address - 1 >= 14 THEN Field(Hif.row14 - 20, 16, 4) ELSE Field(15, 16, 4))
  + (IF row_address - 1 >= 16 THEN Field(Hif.row15 - 21, 24, 4) ELSE Field(15, 24, 4))

\* ADDRMAP6: ROW12, ROW13, and ROW14/ROW15 when the device has them
\* (15 = unmapped).
ADDRMAP6 ==
  Field(Hif.row0 + 12 - 18, 0, 4) + Field(Hif.row0 + 13 - 19, 8, 4)
  + (IF row_address - 1 >= 14 THEN Field(Hif.row14 - 20, 16, 4) ELSE Field(15, 16, 4))
  + (IF row_address - 1 >= 15 THEN Field(Hif.row15 - 21, 24, 4) ELSE Field(15, 24, 4))

\* ADDRMAP7: ROW16 when present (the field is left 0 otherwise), ROW17
\* when present (15 = unmapped).
ADDRMAP7 ==
  (IF row_address - 1 >= 16 THEN Field(Hif.row16 - 22, 0, 4) ELSE 0)
  + (IF row_address - 1 = 17 THEN Field(Hif.row17 - 23, 8, 4) ELSE Field(15, 8, 4))

\* Mutant: CS0 given the HIF bit after the one hif_addr points at.
ADDRMAP0_SkipOne ==
  (IF ranks = 2 THEN Field(Hif.cs0 + 1 - 6, 0, 5) ELSE Field(31, 0, 5))
  + (IF dimms = 2 THEN Field(Hif.cs1 - 7, 8, 5) ELSE Field(31, 8, 5))

\* ADDRMAP0: CS0 for a two-rank DIMM, CS1 for the second DIMM
\* (31 = unmapped).
ADDRMAP0 ==
  (IF ranks = 2 THEN Field(Hif.cs0 - 6, 0, 5) ELSE Field(31, 0, 5))
  + (IF dimms = 2 THEN Field(Hif.cs1 - 7, 8, 5) ELSE Field(31, 8, 5))

\* DTCR1 (baikal_ddrphy_set_registers()): the ranks data training runs on,
\* RANKEN from bit 16: one bit per rank of the DIMM; with two DIMMs the
\* field is cleared and set to ranks 0 and 2 (single-rank DIMMs) or all
\* four, each slot having two CS signals.
DTCR1 ==
  \h237 + (IF dimms = 2 THEN Field(IF ranks = 1 THEN 5 ELSE 15, 16, 16)
                        ELSE Field(2^ranks - 1, 16, 16))

\* DCR: address mirroring and the RDIMM bit (27, 29), 2T timing for two
\* DIMMs or from the flash slot (28), BG1 unused with fewer than four
\* bank groups (30), ORed into the base value.
DCR ==
  \h28000404 | (IF mirrored_dimm THEN 2^27 + 2^29 ELSE 0)
              | (IF registered_dimm THEN 2^27 ELSE 0)
              | (IF bank_groups < 4 THEN 2^30 ELSE 0)
              | (IF dimms = 2 \/ flash_1t2t THEN 2^28 ELSE 0)

\* Mutant: the ECC byte lane left enabled without ECC.
DX8GCR0_EccAlways == \h40000205

\* DX8GCR0: 0x40000205, with DXEN (bit 0) cleared without ECC.
DX8GCR0 == IF ecc_on THEN \h40000205 ELSE \h40000204

\* DXEN of lanes 4..7: cleared on a half bus in the value read from
\* DX4GCR0 and written to DX4GCR0..DX7GCR0, else left at reset (set).
DxUpperEnabled == ~dbus_half

\* DXEN (bit 0 of DXnGCR0) per byte lane; lanes 0..3 stay at reset.
DXEN == [n \in 0..8 |-> IF n = 8 THEN FieldOf(DX8GCR0, 0, 1) = 1
                         ELSE IF n >= 4 THEN DxUpperEnabled ELSE TRUE]

-----------------------------------------------------------------------------
Init ==
  /\ org \in OrgBytes
  /\ density \in DensityBytes
  /\ addressing \in AddressingBytes
  /\ busWidth \in BusWidthBytes
  /\ dimms \in DimmCounts
  /\ mirrored_dimm \in BOOLEAN
  /\ registered_dimm \in BOOLEAN
  /\ flash_1t2t \in BOOLEAN

\* The configuration is computed once per port and boot.
Next == UNCHANGED vars

Spec == Init /\ [][Next]_vars

TypeOK ==
  /\ ranks \in 1..8
  /\ row_address \in 12..19
  /\ dimms \in {1, 2}
  /\ \A r \in {ADDRMAP0, ADDRMAP1, ADDRMAP2, ADDRMAP3, ADDRMAP4, ADDRMAP5,
               ADDRMAP6, ADDRMAP7, ADDRMAP8, MSTR} : r \in 0..\h7fffffff

-----------------------------------------------------------------------------
(* The controller's reading of the registers (DWC uMCTL2 databook): each  *)
(* field holds the HIF bit of one DRAM address bit less a fixed base, and *)
(* an all-ones field leaves the bit unmapped. With a half bus the column  *)
(* fields address one column bit higher.                                  *)

\* A DRAM address bit: <<kind, index>>.
\* [field register, position, width, base, unmapped value] per bit.
Fields ==
  LET c == IF dbus_half THEN 1 ELSE 0 IN
  { [bit |-> <<"COL", 2 + c>>, reg |-> ADDRMAP2, lo |-> 0,  w |-> 4, base |-> 2, none |-> 15],
    [bit |-> <<"COL", 3 + c>>, reg |-> ADDRMAP2, lo |-> 8,  w |-> 4, base |-> 3, none |-> 15],
    [bit |-> <<"COL", 4 + c>>, reg |-> ADDRMAP2, lo |-> 16, w |-> 4, base |-> 4, none |-> 15],
    [bit |-> <<"COL", 5 + c>>, reg |-> ADDRMAP2, lo |-> 24, w |-> 4, base |-> 5, none |-> 15],
    [bit |-> <<"COL", 6 + c>>, reg |-> ADDRMAP3, lo |-> 0,  w |-> 5, base |-> 6, none |-> 31],
    [bit |-> <<"COL", 7 + c>>, reg |-> ADDRMAP3, lo |-> 8,  w |-> 5, base |-> 7, none |-> 31],
    [bit |-> <<"COL", 8 + c>>, reg |-> ADDRMAP3, lo |-> 16, w |-> 5, base |-> 8, none |-> 31],
    [bit |-> <<"COL", 9 + c>>, reg |-> ADDRMAP3, lo |-> 24, w |-> 5, base |-> 9, none |-> 31],
    [bit |-> <<"COL", 10 + c>>, reg |-> ADDRMAP4, lo |-> 0, w |-> 5, base |-> 10, none |-> 31],
    [bit |-> <<"COL", 11 + c>>, reg |-> ADDRMAP4, lo |-> 8, w |-> 5, base |-> 11, none |-> 31],
    [bit |-> <<"BA", 0>>, reg |-> ADDRMAP1, lo |-> 0,  w |-> 6, base |-> 2, none |-> 63],
    [bit |-> <<"BA", 1>>, reg |-> ADDRMAP1, lo |-> 8,  w |-> 6, base |-> 3, none |-> 63],
    [bit |-> <<"BA", 2>>, reg |-> ADDRMAP1, lo |-> 16, w |-> 6, base |-> 4, none |-> 63],
    [bit |-> <<"BG", 0>>, reg |-> ADDRMAP8, lo |-> 0,  w |-> 6, base |-> 2, none |-> 63],
    [bit |-> <<"BG", 1>>, reg |-> ADDRMAP8, lo |-> 8,  w |-> 6, base |-> 3, none |-> 63],
    [bit |-> <<"ROW", 0>>, reg |-> ADDRMAP5, lo |-> 0, w |-> 4, base |-> 6, none |-> 15],
    [bit |-> <<"ROW", 1>>, reg |-> ADDRMAP5, lo |-> 8, w |-> 4, base |-> 7, none |-> 15],
    [bit |-> <<"ROW", 11>>, reg |-> ADDRMAP5, lo |-> 24, w |-> 4, base |-> 17, none |-> 15],
    [bit |-> <<"ROW", 12>>, reg |-> ADDRMAP6, lo |-> 0, w |-> 4, base |-> 18, none |-> 15],
    [bit |-> <<"ROW", 13>>, reg |-> ADDRMAP6, lo |-> 8, w |-> 4, base |-> 19, none |-> 15],
    [bit |-> <<"ROW", 14>>, reg |-> ADDRMAP6, lo |-> 16, w |-> 4, base |-> 20, none |-> 15],
    [bit |-> <<"ROW", 15>>, reg |-> ADDRMAP6, lo |-> 24, w |-> 4, base |-> 21, none |-> 15],
    [bit |-> <<"ROW", 16>>, reg |-> ADDRMAP7, lo |-> 0, w |-> 4, base |-> 22, none |-> 15],
    [bit |-> <<"ROW", 17>>, reg |-> ADDRMAP7, lo |-> 8, w |-> 4, base |-> 23, none |-> 15],
    [bit |-> <<"CS", 0>>, reg |-> ADDRMAP0, lo |-> 0, w |-> 5, base |-> 6, none |-> 31],
    [bit |-> <<"CS", 1>>, reg |-> ADDRMAP0, lo |-> 8, w |-> 5, base |-> 7, none |-> 31] }
  \cup
  \* ROW2..ROW10 share one field of ADDRMAP5, based at HIF bit 8 for ROW2.
  { [bit |-> <<"ROW", k>>, reg |-> ADDRMAP5, lo |-> 16, w |-> 4, base |-> 6 + k, none |-> 15]
    : k \in 2..10 }

\* The DRAM address bits the controller maps to HIF bits, with those bits.
Mapped == { f \in Fields : FieldOf(f.reg, f.lo, f.w) # f.none }
HifOf(f) == FieldOf(f.reg, f.lo, f.w) + f.base

\* The DRAM address bits this DIMM has above the fixed low column bits
\* (HIF A0, A1): the column bits up to COL9, two bank bits, its bank
\* group bits, its row bits and a chip-select bit per rank and per DIMM.
DramBits ==
  { <<"COL", k>> : k \in (IF dbus_half THEN 3 ELSE 2)..9 }
  \cup { <<"BA", 0>>, <<"BA", 1>>, <<"BG", 0>> }
  \cup (IF bank_groups = 4 THEN { <<"BG", 1>> } ELSE {})
  \cup { <<"ROW", k>> : k \in 0..row_address - 1 }
  \cup (IF ranks = 2 THEN { <<"CS", 0>> } ELSE {})
  \cup (IF dimms = 2 THEN { <<"CS", 1>> } ELSE {})

-----------------------------------------------------------------------------
\* For every geometry ddr_config_by_spd() accepts, the address map the
\* registers hold is a bijection between the DIMM's address bits and a
\* contiguous run of HIF bits from A2: each bit is mapped exactly once,
\* no two share a HIF bit, and no HIF bit below the top is left out, so
\* every HIF address reaches a distinct DRAM location.
AddressMapIsBijective ==
  Accepted =>
    LET used == { f \in Mapped : f.bit \in DramBits } IN
    /\ { f.bit : f \in used } = DramBits
    /\ \A f, g \in used : HifOf(f) = HifOf(g) => f = g
    /\ { HifOf(f) : f \in used } = 2..(Cardinality(DramBits) + 1)

\* Every rank the address map can select (its CS bits) is enabled in
\* MSTR.active_ranks and is one data training runs on (DTCR1.RANKEN), so
\* no address reaches a rank the controller or the training leaves out.
AddressedRanksActiveAndTrained ==
  Accepted =>
    LET cs   == { f.bit[2] : f \in { g \in Mapped : g.bit[1] = "CS" } }
        sels == { (IF 0 \in cs THEN a ELSE 0) + (IF 1 \in cs THEN 2 * b ELSE 0)
                  : a, b \in 0..1 }
    IN  \A r \in sels : FieldOf(MSTR, 24 + r, 1) = 1 /\ FieldOf(DTCR1, 16 + r, 1) = 1

\* The PHY drives the pins of the DIMM the controller addresses: the
\* byte lanes baikal_ddrphy_set_registers() enables (DXnGCR0.DXEN) are
\* the data bytes of the SPD's primary bus width (byte 13, bits 2:0) and
\* the ECC byte when the bus has its extension (bits 4:3), and DCR marks
\* BG1 unused exactly when ADDRMAP8 maps no HIF bit to it. The PHY and
\* the controller, programmed by two functions, agree on the data bus
\* width and on 2T command timing.
PhyPinsMatchDimm ==
  Accepted =>
    /\ { n \in 0..8 : DXEN[n] }
         = 0..(2^(busWidth % 8) - 1) \cup (IF ecc_on THEN {8} ELSE {})
    /\ (FieldOf(DCR, 30, 1) = 1) <=> (FieldOf(ADDRMAP8, 8, 6) = 63)
    /\ (FieldOf(MSTR, 12, 1) = 1) <=> ~DXEN[4]
    /\ FieldOf(MSTR, 10, 1) = FieldOf(DCR, 28, 1)

=============================================================================
