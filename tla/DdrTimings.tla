----------------------------- MODULE DdrTimings -----------------------------
(***************************************************************************)
(* The timing parameters of ddr_config_by_spd() (ddr_master.c, after the  *)
(* CL/CWL selection that SpdTiming models) and the fields of the DDRC     *)
(* timing registers that baikal_ddrc_set_registers() (ddr_init.c) packs   *)
(* them into.                                                              *)
(*                                                                         *)
(* The SPD bytes read here are those of one DIMM, a record of the         *)
(* struct spd fields the code reads; the state never changes.             *)
(***************************************************************************)
EXTENDS SpdTiming, FiniteSets, Functions

CONSTANT
  Dimms   \* records of the remaining SPD timing bytes, device width and type

VARIABLE dimm

timingVars == <<tckMtb, tckFtb, taaMtb, taaFtb, cas, twrMtb, dimm>>

\* MAX() of ddr_master.c.
Mx(a, b) == IF a >= b THEN a ELSE b

\* (b & 0xf) << 8 and (b & 0xf0) << 4: the nibbles of an SPD extension byte
\* as bits 11:8 of a 12-bit medium timebase count.
LoNib(b) == (b % 16) * 256
HiNib(b) == (b \div 16) * 256

\* CLOCK_NS(ns): nanoseconds to cycles, through CLOCK_PS.
CLOCK_NS(ns, tck) == CLOCK_PS(ns * 1000, tck)

-----------------------------------------------------------------------------
(* The SPD minima in picoseconds (lines 271-332).                          *)

TrasPs  == SPD_TO_PS(LoNib(dimm.tras_trc_ext) + dimm.tras_min_lsb, 0)
TrpPs   == SPD_TO_PS(dimm.trp_min, dimm.fine_trp_min)
TrcPs   == SPD_TO_PS(HiNib(dimm.tras_trc_ext) + dimm.trc_min_lsb, dimm.fine_trc_min)
TwtrLPs == SPD_TO_PS(HiNib(dimm.twtr_min_ext) + dimm.twtrl_min_lsb, 0)
TwtrSPs == SPD_TO_PS(LoNib(dimm.twtr_min_ext) + dimm.twtrs_min_lsb, 0)
TrcdPs  == SPD_TO_PS(dimm.trcd_min, dimm.fine_trcd_min)
TrrdLPs == SPD_TO_PS(dimm.trrdl_min, dimm.fine_trrdl_min)
TrrdSPs == SPD_TO_PS(dimm.trrds_min, dimm.fine_trrds_min)
Trfc1Ps == SPD_TO_PS(dimm.trfc1_min_msb * 256 + dimm.trfc1_min_lsb, 0)
Trfc4Ps == SPD_TO_PS(dimm.trfc4_min_msb * 256 + dimm.trfc4_min_lsb, 0)
TfawPs  == SPD_TO_PS(LoNib(dimm.tfaw_msb) + dimm.tfaw_min, 0)
TccdLPs == SPD_TO_PS(dimm.tccdl_min, dimm.fine_tccdl_min)

-----------------------------------------------------------------------------
(* The derived parameters of struct ddr_configuration, in cycles.          *)

\* WCL, lines 233-242: 4, one more above each of 1600, 2666, 3200 MT/s.
WCL == 4 + Cardinality({r \in {1600, 2666, 3200} : rate > r})

\* AL = CL - 1 (line 258), RL and WL (261, 264).
AL == CL - 1
RL == AL + CL + PL
WL == AL + CWL + PL

tRAS   == CLOCK_PS(TrasPs, tCK)
tRP    == CLOCK_PS(TrpPs, tCK)
tRC    == CLOCK_PS(TrcPs, tCK)
tWTR_L == CLOCK_PS(Mx(TwtrLPs, 7500), tCK)
tWTR_S == CLOCK_PS(Mx(TwtrSPs, 2500), tCK)
tRCD   == CLOCK_PS(TrcdPs, tCK)
tRRD_L == Mx(4, CLOCK_PS(TrrdLPs, tCK))
tRRD_S == Mx(4, CLOCK_PS(TrrdSPs, tCK))
tRFC1  == CLOCK_PS(Trfc1Ps, tCK)
tRFC4  == CLOCK_PS(Trfc4Ps, tCK)

\* tFAW, lines 332-343: at least 28, 20 or 16 cycles by device width.
tFAW ==
  Mx(CASE dimm.device_width = 16 -> 28
       [] dimm.device_width = 8  -> 20
       [] OTHER                  -> 16,
     CLOCK_PS(TfawPs, tCK))

tREFI == CLOCK_NS(7800, tCK)

\* tDLLK, lines 356-366 (JESD79-4 table 13).
tDLLK ==
  CASE rate <= 1866 -> 597
    [] rate <= 2400 -> 768
    [] rate <= 2666 -> 854
    [] rate <= 2932 -> 940
    [] OTHER        -> 1024

tXP == Mx(4, CLOCK_NS(6, tCK))

\* The CRC+DM extra of lines 383-387, added to tWR, tWTR_S and tWTR_L.
CrcDmExtra == Mx(IF rate <= 1600 THEN 4 ELSE 5, CLOCK_PS(3750, tCK))
tWR_CRC_DM    == tWR + CrcDmExtra
tWTR_S_CRC_DM == tWTR_S + CrcDmExtra
tWTR_L_CRC_DM == tWTR_L + CrcDmExtra

tMOD     == Mx(24, CLOCK_NS(15, tCK))
tCKSRX   == Mx(5, CLOCK_NS(10, tCK))
tCKE     == Mx(3, CLOCK_NS(5, tCK))
tMRD_PDA == Mx(16, CLOCK_NS(10, tCK))
tCCD_L   == Mx(5, CLOCK_PS(TccdLPs, tCK))

\* The constants and sums of lines 412-437.
tCCD_S    == 4
tMPX_S    == 1
tMPX_LH   == CLOCK_NS(12, tCK)
tCPDED    == 4
tXS       == tRFC1 + CLOCK_NS(10, tCK)
tXS_FAST  == tRFC4 + CLOCK_NS(10, tCK)
tXS_ABORT == tRFC4 + CLOCK_NS(10, tCK)
tXSDLL    == tDLLK
tXMP      == tXS
tXMPDLL   == tXMP + tXSDLL
tCKMPE    == tMOD + tCPDED
tRASmax   == tREFI * 9

-----------------------------------------------------------------------------
(* baikal_ddrc_set_registers(), lines 205-322: each field of a DDRC timing *)
(* register as <<the value the code computes, the width of its GENMASK>>;  *)
(* the code masks the value into the field, so a value that does not fit   *)
(* loses its high bits.                                                    *)

\* DIV_ROUND_UP_2EVAL(n, d).
Du(n, d) == (n + d - 1) \div d

\* !!data->registered_dimm
Rd == IF dimm.registered_dimm # 0 THEN 1 ELSE 0

\* rsl, line 240: the extra read system latency in the read-to-write gap.
Rsl == IF rate <= 1600 THEN 4 ELSE 6

DFITMG0 ==
  [dfi_t_rddata_en |-> <<RL - 4 + Rd, 7>>,
   dfi_tphy_wrlat  |-> <<WL - 2 + Rd, 6>>,
   dfi_t_ctrl_delay |-> <<2 + 2 + Rd, 5>>]

DRAMTMG0 ==
  [wr2pre        |-> <<(WL + 4 + tWR) \div 2, 7>>,
   t_faw         |-> <<Du(tFAW, 2), 6>>,
   t_ras_max     |-> <<(tRASmax \div 1024 - 1) \div 2, 7>>,
   t_ras_min     |-> <<tRAS \div 2, 6>>]

DRAMTMG1 ==
  [t_xp          |-> <<Du(tXP + PL, 2), 5>>,
   rd2pre        |-> <<Mx(AL + tRTP, RL + 4 - tRP) \div 2, 6>>,
   t_rc          |-> <<Du(tRC, 2), 7>>]

DRAMTMG2 ==
  [write_latency |-> <<Du(WL + Rd, 2), 6>>,
   read_latency  |-> <<Du(RL + Rd, 2), 6>>,
   rd2wr         |-> <<Du(RL + 4 + 1 + 1 - WL + Rsl, 2), 6>>,
   wr2rd         |-> <<Du(CWL + PL + 4 + tWTR_L, 2), 6>>]

DRAMTMG3 ==
  [t_mrd         |-> <<Du(tMOD + PL, 2), 6>>,
   t_mod         |-> <<Du(tMOD + PL + Rd, 2), 10>>]

DRAMTMG4 ==
  [t_rcd         |-> <<IF tRCD > AL THEN Du(tRCD - AL, 2) ELSE 1, 5>>,
   t_ccd         |-> <<Du(tCCD_L, 2), 4>>,
   t_rrd         |-> <<Du(tRRD_L, 2), 4>>,
   t_rp          |-> <<tRP \div 2 + 1, 5>>]

DRAMTMG5 ==
  [t_cksrx       |-> <<Du(tCKSRX, 2), 4>>,
   t_cksre       |-> <<Du(CLOCK_NS(10, tCK) + PL, 2), 4>>,
   t_ckesr       |-> <<Du(tCKE + 1 + PL, 2), 6>>,
   t_cke         |-> <<Du(tCKE, 2), 5>>]

\* The x32 fields of DRAMTMG8 and DRAMTMG11: Du(Du(t, 32), 2).
X32(t) == Du(Du(t, 32), 2)

DRAMTMG8 ==
  [t_xs_fast_x32  |-> <<X32(tXS_FAST), 7>>,
   t_xs_abort_x32 |-> <<X32(tXS_ABORT), 7>>,
   t_xs_dll_x32   |-> <<X32(tXSDLL), 7>>,
   t_xs_x32       |-> <<X32(tXS), 7>>]

DRAMTMG9 ==
  [t_ccd_s       |-> <<Du(tCCD_S, 2), 3>>,
   t_rrd_s       |-> <<Du(tRRD_S, 2), 4>>,
   wr2rd_s       |-> <<Du(CWL + PL + 4 + tWTR_S, 2), 6>>]

DRAMTMG11 ==
  [post_mpsm_gap_x32 |-> <<X32(tXMPDLL), 7>>,
   t_mpx_lh      |-> <<Du(tMPX_LH, 2) + 1, 5>>,
   t_mpx_s       |-> <<Du(tMPX_S, 2), 2>>,
   t_ckmpe       |-> <<Du(tCKMPE, 2), 5>>]

DRAMTMG12 == [t_mrd_pda |-> <<Du(tMRD_PDA, 2), 5>>]

\* Mutant: tRFC1 written in DRAM cycles, not halved for the 1:2 clock.
RFSHTMG_NoHalf ==
  [t_rfc_nom_x32 |-> <<(tREFI \div 32) \div 2, 12>>,
   t_rfc_min     |-> <<tRFC1, 10>>]

RFSHTMG ==
  [t_rfc_nom_x32 |-> <<(tREFI \div 32) \div 2, 12>>,
   t_rfc_min     |-> <<Du(tRFC1, 2), 10>>]

\* ODTCFG rd_odt_delay, written only when CL > CWL.
ODTCFG == [rd_odt_delay |-> <<IF CL > CWL THEN CL - CWL ELSE 0, 5>>]

\* Every field of every timing register, by register.
TimingRegisters ==
  <<DFITMG0, DRAMTMG0, DRAMTMG1, DRAMTMG2, DRAMTMG3, DRAMTMG4, DRAMTMG5,
    DRAMTMG8, DRAMTMG9, DRAMTMG11, DRAMTMG12, RFSHTMG, ODTCFG>>

-----------------------------------------------------------------------------
(* baikal_ddrphy_set_registers(), lines 374-558: the timing fields of the  *)
(* PUB registers, as <<value, GENMASK width>>, and the mode-register words *)
(* MR1, MR3 and MR6 (MR0, MR2 and MR5 are SpdTiming's).                    *)

\* PGCR2 tREFPRD: tREFI - tRFC1 - 400 in unsigned arithmetic.
PGCR2 == [tREFPRD |-> <<tREFI - tRFC1 - 400, 18>>]

\* PTR1: PLL reset 9 us + 16 and PLL lock 26 us, in PHY clocks (DRAM / 2).
PTR1 ==
  [tPLLRST  |-> <<CLOCK_NS(9000, tCK) \div 2 + 16, 13>>,
   tPLLLOCK |-> <<CLOCK_NS(26000, tCK) \div 2, 16>>]

\* PTR3: CKE low 500 us; CKE high to the first command tRFC1 + 10 ns,
\* shifted to bit 20 without a mask, so bits 30-31 are all it may spill to.
PTR3 ==
  [tDINIT0 |-> <<CLOCK_NS(500000, tCK), 20>>,
   tDINIT1 |-> <<tRFC1 + CLOCK_NS(10, tCK), 10>>]

\* PTR4: the DRAM reset low time, 200 us, masked to bits 17:0.
PTR4 == [tDINIT2 |-> <<CLOCK_NS(200000, tCK), 18>>]

DTPR0 ==
  [tRTP |-> <<tRTP, 4>>, tRP |-> <<tRP, 7>>, tRAS |-> <<tRAS, 7>>,
   tRRD |-> <<tRRD_L, 6>>]

DTPR1 == [tFAW |-> <<tFAW, 8>>]

DTPR2 == [tXS |-> <<tXS, 10>>, tCKE |-> <<tCKE, 4>>]

\* DTPR3 tDLLK: the DLL lock time less 128.
DTPR3 == [tDLLK |-> <<tDLLK - 128, 10>>]

DTPR4 == [tXP |-> <<tXP, 5>>, tRFC |-> <<tRFC1, 10>>]

DTPR5 == [tWTR |-> <<tWTR_L, 5>>, tRCD |-> <<tRCD, 7>>, tRC |-> <<tRC, 8>>]

PhyTimingRegisters ==
  <<PGCR2, PTR1, PTR3, DTPR0, DTPR1, DTPR2, DTPR3, DTPR4, DTPR5>>

\* MR1: DLL on, DIC and RTT_NOM 0 (as the SPD path leaves them), and
\* CL - AL in A4:A3 when AL is not 0.
MR1 == 1 + (IF AL # 0 THEN (CL - AL) * 2^3 ELSE 0)

\* MR3: the write command latency WCL - 4 in A10:A9.
MR3 == (WCL - 4) * 2^9

\* MR6: tCCD_L - 4 in A12:A10; the VrefDQ value ORed in below bit 10 with
\* two DIMMs or a flash override is left out.
MR6 == (tCCD_L - 4) * 2^10

-----------------------------------------------------------------------------
\* The DIMM whose SPD is decoded.
DdrInit == Init /\ dimm \in Dimms

\* ddr_config_by_spd() and baikal_ddrc_set_registers() run on a fixed SPD.
DdrNext == UNCHANGED timingVars

DdrSpec == DdrInit /\ [][DdrNext]_timingVars

\* The <<value, width>> pairs of the fields of a register.
FieldsOf(r) == {r[f] : f \in DOMAIN r}

\* A field holds its value: the value is not negative (an unsigned
\* wrap-around) and fits the width of its GENMASK.
FieldFits(f) == f[1] \in 0..(2^f[2] - 1)

\* CLOCK_PS of ps at the clock the controller really runs at, the bin
\* `clock` (a cycle of 1000000 / clock ps).
RunCycles(ps) == ((ps * clock) \div 1000 + 974) \div 1000

\* The SPD minima the DRAM must be given, with the cycle counts
\* ddr_config_by_spd() derived for them.
SpdMinima ==
  {<<CL, tAA>>, <<tRCD, TrcdPs>>, <<tRP, TrpPs>>, <<tRAS, TrasPs>>,
   <<tRC, TrcPs>>, <<tRFC1, Trfc1Ps>>, <<tRFC4, Trfc4Ps>>,
   <<tWTR_L, Mx(TwtrLPs, 7500)>>, <<tWTR_S, Mx(TwtrSPs, 2500)>>,
   <<tRRD_L, TrrdLPs>>, <<tRRD_S, TrrdSPs>>, <<tFAW, TfawPs>>,
   <<tCCD_L, TccdLPs>>}

\* JESD79-4 fields of MR1 A4:A3 (additive latency, by CL), MR3 A10:A9
\* (write command latency) and MR6 A12:A10 (tCCD_L).
JedecAl(cl) == [c \in 0..2 |-> <<0, cl - 1, cl - 2>>[c + 1]]
JedecWcl == [c \in 0..2 |-> c + 4]
JedecCcdL == [c \in 0..4 |-> c + 4]

Mr1AlCode(mr) == (mr \div 2^3) % 4
Mr3WclCode(mr) == (mr \div 2^9) % 4
Mr6CcdLCode(mr) == (mr \div 2^10) % 8

\* JESD79-4 defines DDR4 speeds up to DDR4-3200, a tCK of 625 ps.
JedecSpeed == tCK >= 625

-----------------------------------------------------------------------------
\* For every DDR4 CAS latency, no timing that baikal_ddrc_set_registers()
\* packs into DFITMG0, DRAMTMG0-12, RFSHTMG or ODTCFG is cut by its
\* GENMASK or wraps below zero (RL + BL/2 - tRP included), and at DDR4
\* speeds none that baikal_ddrphy_set_registers() packs into PGCR2, PTR1,
\* PTR3 or DTPR0-5 is, so the controller and the PHY run with the timings
\* ddr_config_by_spd() derived.
FieldsHoldTheirValues ==
  CL \in 9..32 =>
    /\ RL + 4 >= tRP
    /\ \A f \in UNION {FieldsOf(r) : r \in Range(TimingRegisters)} : FieldFits(f)
    /\ JedecSpeed =>
         \A f \in UNION {FieldsOf(r) : r \in Range(PhyTimingRegisters)} : FieldFits(f)

\* Every SPD minimum, counted in cycles by ddr_config_by_spd() against the
\* tCK of the SPD, still lasts at least as many cycles of the snapped
\* clock the controller runs at as CLOCK_PS gives for that clock (spec
\* 4.2: under-rounding produces a timing violation).
TimingsHoldAtRunClock ==
  \A m \in SpdMinima : m[1] >= RunCycles(m[2])

\* The DRAM is told the latencies the controller times its commands
\* with (baikal_ddrphy_set_registers()): the CL check of
\* ddr_config_by_spd(), which only logs, stays quiet only for a CL that
\* is a DDR4 latency (9..32), and MR0 carries every such CL; MR2 carries
\* CWL and MR5 carries the parity latency, as set_mr0/set_mr2/set_mr5
\* encode the values ddr_config_by_spd() derived; and, at DDR4 speeds, MR1
\* carries AL, MR3 the write command latency and MR6 tCCD_L.
ModeRegistersEncodeLatencies ==
  /\ ~ClLogged => CL \in 9..32
  /\ CL \in 9..32 => Encodes(JedecCl, Mr0ClCode(MR0), CL)
  /\ Encodes(JedecCwl, Mr2CwlCode(MR2), CWL)
  /\ Encodes(JedecPl, Mr5PlCode(MR5), PL)
  /\ Encodes(JedecAl(CL), Mr1AlCode(MR1), AL)
  /\ JedecSpeed => Encodes(JedecWcl, Mr3WclCode(MR3), WCL)
  /\ JedecSpeed => Encodes(JedecCcdL, Mr6CcdLCode(MR6), tCCD_L)

\* The DRAM reset is held low for the 200 us the comment of PTR4 asks
\* for on power-up: the tDINIT2 field, as masked, counts at least
\* CLOCK_NS(200000) DRAM clocks at every DDR4 speed.
DramResetLowTimeHeld ==
  JedecSpeed => PTR4.tDINIT2[1] % 2^PTR4.tDINIT2[2] >= CLOCK_NS(200000, tCK)

\* At every DDR4 speed, every timing the controller and the PHY are
\* programmed with lasts at least the minimum it is derived from (spec
\* 4.2: under-rounding produces a timing violation): the cycle counts
\* ddr_config_by_spd() computes with the SPD tCK still cover each minimum
\* at the clock the controller runs at, and the reset low time
\* baikal_ddrphy_set_registers() puts in PTR4 lasts the 200 us its
\* comment asks for.
TimingsCoverMinima ==
  JedecSpeed => TimingsHoldAtRunClock /\ DramResetLowTimeHeld

=============================================================================
