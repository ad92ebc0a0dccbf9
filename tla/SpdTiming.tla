------------------------------ MODULE SpdTiming ------------------------------
(***************************************************************************)
(* The clock and latency arithmetic of ddr_config_by_spd()               *)
(* (bm1000/drivers/ddr/ddr_master.c) and of the mode-register encoders    *)
(* in ddr_master.h, as pure operators, with reference definitions from    *)
(* JEDEC DDR4 (JESD79-4) to check them against.                           *)
(*                                                                         *)
(* The state is the SPD of one DIMM as ddr_config_by_spd() reads it; it  *)
(* never changes, so every reachable state is one decoding checked.       *)
(***************************************************************************)
EXTENDS Integers

CONSTANTS
  TckMtbs,    \* SPD byte 18, tCKAVGmin in medium timebase units (125 ps)
  TckFtbs,    \* SPD byte 125, its fine correction in ps (signed)
  TaaMtbs,    \* SPD byte 24, tAAmin in medium timebase units
  TaaFtbs,    \* SPD byte 123, its fine correction in ps (signed)
  CasBytes,   \* SPD bytes 20..23 (CAS latencies supported) as <<b1, b2, b3, b4>>
  TwrMtbs     \* SPD bytes 41..42, tWRmin in medium timebase units

VARIABLES tckMtb, tckFtb, taaMtb, taaFtb, cas, twrMtb

vars == <<tckMtb, tckFtb, taaMtb, taaFtb, cas, twrMtb>>

\* Bit i of the non-negative integer x, as 0 or 1 and as a condition.
BitVal(x, i) == (x \div 2^i) % 2
Bit(x, i) == BitVal(x, i) = 1

\* SPD_TO_PS: a medium/fine timebase pair in picoseconds.
SPD_TO_PS(mtb, ftb) == mtb * 125 + ftb

\* CLOCK_PS: picoseconds to cycles of tCK picoseconds, rounded with a
\* 0.974 cycle guard band, as the macro computes it in 64 bits. The
\* quotient (ps * 1000) / tCK is split so that it stays within the
\* model checker's integers for the 7.8 us of CLOCK_NS(7800).
CLOCK_PS(ps, tCK) ==
  ((ps \div tCK) * 1000 + ((ps % tCK) * 1000) \div tCK + 974) \div 1000

\* Mutant: the last else branch of the snapping chain left out.
SnapNoTop(mhz) ==
  CASE mhz < 900  -> 800
    [] mhz < 1050 -> 933
    [] mhz < 1150 -> 1066
    [] mhz < 1300 -> 1200
    [] OTHER      -> mhz

\* Mutant: the bin boundaries taken as inclusive (<= 900, ...).
SnapInclusive(mhz) ==
  CASE mhz <= 900  -> 800
    [] mhz <= 1050 -> 933
    [] mhz <= 1150 -> 1066
    [] mhz <= 1300 -> 1200
    [] OTHER       -> 1333

\* The controller clock bins and the clock snapping of lines 115-126:
\* 1000000 / tCK in MHz, moved to one of five bins.
Snap(mhz) ==
  CASE mhz < 900  -> 800
    [] mhz < 1050 -> 933
    [] mhz < 1150 -> 1066
    [] mhz < 1300 -> 1200
    [] OTHER      -> 1333

ClockMhz(tCK) == Snap(1000000 \div tCK)

\* lat_mask: the CAS latencies the DIMM supports, one bit per CL from
\* CL 7 (byte 20 bit 0), moved up by 16 when byte 23 bit 7 selects the
\* high CL range.
LatMask(b) ==
  LET base == {7 + i : i \in {j \in 0..7 : Bit(b[1], j)}}
              \cup {15 + i : i \in {j \in 0..7 : Bit(b[2], j)}}
              \cup {23 + i : i \in {j \in 0..7 : Bit(b[3], j)}}
              \cup {31 + i : i \in {j \in 0..5 : Bit(b[4], j)}}
  IN IF Bit(b[4], 7) THEN {c + 16 : c \in base} ELSE base

\* The CL scan: up from CLOCK_PS(tAA) to the first supported CL, giving
\* up at 64.
RECURSIVE ScanUp(_, _)
ScanUp(t, mask) == IF t < 64 /\ t \notin mask THEN ScanUp(t + 1, mask) ELSE t

\* Mutant: the scan starts one above CLOCK_PS(tAA).
CasLatencyFromNext(taa, tCK, mask) == ScanUp(CLOCK_PS(taa, tCK) + 1, mask)

CasLatency(taa, tCK, mask) == ScanUp(CLOCK_PS(taa, tCK), mask)

\* The CWL choices per data rate (clock_mhz * 2), lines 197-220.
CwlMask(rate) ==
  CASE rate = 1600 -> {9, 11}
    [] rate = 1866 -> {10, 12}
    [] rate = 2132 -> {11, 14}
    [] rate = 2400 -> {12, 16}
    [] rate = 2666 -> {14, 18}
    [] rate \in {2932, 3200} -> {16, 20}
    [] OTHER -> {18}

\* The CWL scan: down from CL to the first allowed CWL, stopping at 0.
RECURSIVE ScanDown(_, _)
ScanDown(t, mask) == IF t > 0 /\ t \notin mask THEN ScanDown(t - 1, mask) ELSE t

\* Mutant: the CWL scan starts below CL.
CwlBelowCl(cl, rate) == ScanDown(cl - 1, CwlMask(rate))

Cwl(cl, rate) == ScanDown(cl, CwlMask(rate))

\* C/A parity latency per data rate, lines 245-255.
ParityLatency(rate) ==
  CASE rate < 1600  -> 0
    [] rate <= 2132 -> 4
    [] rate <= 2666 -> 5
    [] rate <= 3200 -> 6
    [] OTHER        -> 8

\* tWR (lines 267-268), with 15 ns taken when the SPD leaves it smaller,
\* and tRTP (line 372), in cycles of the SPD's tCK.
WriteRecovery(twrPs, tCK) ==
  CLOCK_PS(IF twrPs > 15000 THEN twrPs ELSE 15000, tCK)
ReadToPrecharge(tCK) ==
  LET c == CLOCK_PS(7500, tCK) IN IF c > 4 THEN c ELSE 4

\* Mutant: the MR2 CWL code taken one too high below CWL 13.
set_mr2_OffByOne(cwl, rtt_wr) ==
  LET c    == cwl % 256
      code == IF c <= 12 THEN (c - 8) % 2^16 ELSE (c \div 2 - 3) % 2^16
  IN  ((code * 8) + (rtt_wr % 8) * 2^9) % 2^16

\* set_mr0: RTP code in A13,A11:A9 (WR is rounded and then unused), CL
\* code in A12,A6:A4,A2; tmp is a uint16_t, so rtp - 5 and cl - 9 wrap.
set_mr0(cl, wr, rtp) ==
  LET rtpCode == CASE rtp <= 10 -> (rtp - 5) % 2^16
                   [] rtp = 11  -> 7
                   [] rtp = 12  -> 6
                   [] OTHER     -> 8
      clTable == <<13, 8, 14, 9, 15, 10, 12, 11>>
      clCode  == CASE cl <= 16 -> (cl - 9) % 2^16
                   [] cl <= 24 -> clTable[cl - 16]
                   [] cl <= 32 -> (cl - 9) % 2^16
                   [] OTHER    -> 23
  IN  (rtpCode % 8) * 2^9 + ((rtpCode \div 8) % 2) * 2^13
      + (clCode % 2) * 4 + ((clCode \div 2) % 8) * 16 + ((clCode \div 16) % 2) * 2^12

\* set_mr2: CRC off, CWL code of the low byte of cwl in A5:A3, RTT_WR in
\* A11:A9. The code is uint32_t arithmetic stored in a uint16_t; only its
\* low 16 bits matter, so it is taken modulo 2^16.
set_mr2(cwl, rtt_wr) ==
  LET c    == cwl % 256
      code == IF c <= 12 THEN (c - 9) % 2^16 ELSE (c \div 2 - 3) % 2^16
  IN  ((code * 8) + (rtt_wr % 8) * 2^9) % 2^16

\* set_mr5: DM on (A10), PL code pl - 3 in the low bits, RTT_PARK in A8:A6.
set_mr5(pl, rtt_park) ==
  (2^10 + (IF pl # 0 THEN (pl - 3) % 2^16 ELSE 0) + rtt_park * 2^6) % 2^16

-----------------------------------------------------------------------------
\* The DIMM whose SPD is decoded.
Init ==
  /\ tckMtb \in TckMtbs
  /\ tckFtb \in TckFtbs
  /\ taaMtb \in TaaMtbs
  /\ taaFtb \in TaaFtbs
  /\ cas \in CasBytes
  /\ twrMtb \in TwrMtbs

\* ddr_config_by_spd() runs once per port and boot on a fixed SPD.
Next == UNCHANGED vars

Spec == Init /\ [][Next]_vars

\* What ddr_config_by_spd() derives from this SPD.
tCK == SPD_TO_PS(tckMtb, tckFtb)
clock == ClockMhz(tCK)
rate == clock * 2
tAA == SPD_TO_PS(taaMtb, taaFtb)
CL == CasLatency(tAA, tCK, LatMask(cas))
\* Mutant: the range check made against the rounded tAA, not the chosen CL.
ClLoggedOnTaa == CLOCK_PS(tAA, tCK) * tCK > 18000
\* The check after the CL scan: a CL above 18 ns is logged as too large,
\* and the configuration goes on with it.
ClLogged == CL * tCK > 18000
CWL == Cwl(CL, rate)
PL == ParityLatency(rate)
tWR == WriteRecovery(SPD_TO_PS(twrMtb, 0), tCK)
tRTP == ReadToPrecharge(tCK)

\* The mode-register words baikal_ddrphy_set_registers() programs
\* (ddr_init.c lines 510, 519, 537), RTT values left at 0.
MR0 == set_mr0(CL, tWR, tRTP)
MR2 == set_mr2(CWL, 0)
MR5 == set_mr5(PL, 0)

TypeOK ==
  /\ tCK > 0
  /\ clock \in {800, 933, 1066, 1200, 1333}
  /\ CL \in 0..64

-----------------------------------------------------------------------------
(* Reference definitions.                                                  *)

\* Least element of a non-empty set of integers.
Least(S) == CHOOSE x \in S : \A y \in S : x <= y
Greatest(S) == CHOOSE x \in S : \A y \in S : x >= y

\* Spec 4.2: the bins with their half-open intervals [lo, hi) in MHz.
BinOf == [b \in {800, 933, 1066, 1200, 1333} |->
            CASE b = 800 -> [lo |-> 0, hi |-> 900]
              [] b = 933 -> [lo |-> 900, hi |-> 1050]
              [] b = 1066 -> [lo |-> 1050, hi |-> 1150]
              [] b = 1200 -> [lo |-> 1150, hi |-> 1300]
              [] b = 1333 -> [lo |-> 1300, hi |-> 1000000]]

\* JESD79-4 mode-register fields: the value each code stands for.
\* MR0 A12,A6:A4,A2: CAS latency.
JedecCl == [c \in 0..23 |->
  <<9, 10, 11, 12, 13, 14, 15, 16, 18, 20, 22, 24, 23, 17, 19, 21,
    25, 26, 27, 28, 29, 30, 31, 32>>[c + 1]]
\* MR2 A5:A3: CAS write latency (1 tCK write preamble).
JedecCwl == [c \in 0..7 |-> <<9, 10, 11, 12, 14, 16, 18, 20>>[c + 1]]
\* MR5 A2:A0: C/A parity latency (0 when disabled).
JedecPl == [c \in 0..4 |-> <<0, 4, 5, 6, 8>>[c + 1]]

Mr0ClCode(mr) == BitVal(mr, 2) + 2 * ((mr \div 16) % 8) + 16 * BitVal(mr, 12)
Mr2CwlCode(mr) == (mr \div 8) % 8
Mr5PlCode(mr) == mr % 8

\* The mode-register field `code` stands for `value` in the table.
Encodes(table, code, value) == code \in DOMAIN table /\ table[code] = value

-----------------------------------------------------------------------------
\* The raw clock snaps to the bin whose half-open interval contains it
\* (exactly 900 or 1050 go to the higher bin), and snapping a bin value
\* leaves it unchanged (spec 8), for the clock this SPD gives.
SnapFollowsBins ==
  LET mhz == 1000000 \div tCK IN
  /\ BinOf[clock].lo <= mhz /\ mhz < BinOf[clock].hi
  /\ Snap(clock) = clock

\* CL is the least CAS latency the DIMM supports that is at least the
\* cycle count of tAA, or 64 when none below 64 is.
CasLatencyIsLeastSupported ==
  LET ok == {c \in CLOCK_PS(tAA, tCK)..63 : c \in LatMask(cas)} IN
  CL = IF ok = {} THEN 64 ELSE Least(ok)

\* CWL is the greatest CWL allowed at the data rate that does not exceed
\* CL (spec 8: never above CL), or 0 when there is none.
CwlIsGreatestAllowed ==
  LET ok == {c \in CwlMask(rate) : c <= CL} IN
  CWL = IF ok = {} THEN 0 ELSE Greatest(ok)

=============================================================================
