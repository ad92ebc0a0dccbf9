---------------------------- MODULE StoredSettings ----------------------------
(***************************************************************************)
(* The on-die termination and drive strength of a BE-M1000 DDR port, and  *)
(* their round trip through the boot flash.                               *)
(*                                                                         *)
(*  - ddr_odt_configuration() (bm1000/drivers/ddr/ddr_odt_settings.c)    *)
(*    picks a row of the board's tables by the SPD CRC, the module type   *)
(*    and the rank count, or the dual-channel settings of DBM20, and then *)
(*    applies a USE_STR override from flash (ddr_odt_flash_values());     *)
(*  - ddr_config_by_spd() (ddr_master.c) takes the clock from the flash   *)
(*    speed bin under USE_STR, and CL, tRAS, tRP, tRCD and tFAW from the   *)
(*    flash when they are non-zero;                                        *)
(*  - ddr_ctrl_init() and ddr_phy_init() (ddr_init.c) choose 2T command   *)
(*    timing for two DIMMs or from the flash flag flsh_1t2t;              *)
(*  - ddr_flash_conf_store() (ddr_menu.c) encodes the clock, ODT and Vref *)
(*    settings into the flash codes of ddr_menu.h, with the timings and   *)
(*    the 2T flag as they are.                                             *)
(*                                                                         *)
(* Every state is one port configured on two boots: the first finds an    *)
(* uninitialised slot and stores what it derived; the UEFI menu then     *)
(* marks the slot USE_STR unchanged; the second boot, with the same DIMM, *)
(* configures the port from it.                                           *)
(***************************************************************************)
EXTENDS Naturals, SequencesExt

CONSTANTS
  Boards,    \* build: "DBM10", "DBM20" (DBM tables) or "MBM" (MBM tables)
  Crcs,      \* SPD CRC values (bytes 126-127) of the DIMMs tried
  ModuleTypes, \* SPD byte 3, key module type (bits 3:0), by JEDEC name
  Clocks,    \* clock_mhz after the snap to the controller bins
  Timings    \* <<CL, tRCD, tRP, tRAS, tFAW>> in clocks as computed from the SPD

VARIABLES
  board, port, crc,
  module_type, \* spd->module_type & DDR4_SPD_MODULETYPE_MASK
  ranks,       \* data->ranks
  dimms,       \* data->dimms: 2 only in BAIKAL_DUAL_CHANNEL_MODE
  spdClock,    \* clock_mhz as snapped from the SPD tCK
  spdTimings   \* the timings ddr_config_by_spd() computes from the SPD

vars == <<board, port, crc, module_type, ranks, dimms, spdClock, spdTimings>>

\* Signatures and codes of struct ddr_flash_config (ddr_menu.h).
USE_SPD == \hd182
USE_STR == \hf1a3
SPEEDBIN_2400 == \h3f77
SPEEDBIN_2133 == \h3e33
SPEEDBIN_1866 == \h1622
SPEEDBIN_1600 == \h1600
DIC_RZQ_DIV_7 == \h0fff
DIC_RZQ_DIV_5 == \h0f0f
RTTWR_DYN_OFF == \h7fff
RTTWR_RZQ_DIV_4 == \h07ff
RTTWR_RZQ_DIV_2 == \h03ff
RTTWR_HI_Z == \h01ff
RTTWR_RZQ_DIV_3 == \h00ff
\* RTT_NOM and RTT_PARK share their codes, listed in MR1/MR5 order 0..7.
RTT_DIS == \h7fff
RTT_DIV == <<\h07ff, \h03ff, \h01ff, \h00ff, \h007f, \h003f, \h0037>>

(***************************************************************************)
(* The tables of ddr_odt_settings.c.                                       *)
(***************************************************************************)
\* dram_crc_val[] of the module-specific rows 4..11.
dram_crc_val == [s \in 4..11 |->
  <<\h4688, \hb1d3, \hbd97, \h399d, \hfc67, \h9d5d, \h7fca, \hb246>>[s - 3]]

\* The rows as {dic, rtt_wr, rtt_nom, rtt_park}, odt_set 0..11.
DbmSet == <<<<0,1,2,4>>, <<0,1,2,4>>, <<0,1,2,4>>, <<0,1,2,4>>, <<0,1,2,4>>,
            <<0,1,2,4>>, <<0,0,6,0>>, <<2,2,4,2>>, <<0,1,4,2>>, <<0,2,5,2>>,
            <<0,1,2,4>>, <<0,1,2,4>>>>

MbmSet0 == <<<<0,4,0,0>>, <<0,2,0,2>>, <<0,1,2,2>>, <<0,1,4,4>>, <<0,4,0,0>>,
             <<0,1,0,2>>, <<0,0,6,0>>, <<2,2,4,2>>, <<0,1,4,2>>, <<0,2,0,2>>,
             <<0,4,6,7>>, <<0,4,3,6>>>>

MbmSet1 == <<<<0,4,0,0>>, <<0,2,0,2>>, <<0,4,0,0>>, <<0,1,2,4>>, <<0,4,0,0>>,
             <<0,2,0,2>>, <<0,0,6,0>>, <<2,2,4,2>>, <<0,1,4,2>>, <<0,2,0,2>>,
             <<0,4,0,0>>, <<0,4,0,0>>>>

\* dram_odt_set_0/1 of the build.
dram_odt_set(p) ==
  IF board = "MBM" THEN (IF p = 0 THEN MbmSet0 ELSE MbmSet1) ELSE DbmSet

\* The switch on the module type in ddr_config_by_spd(): the types it
\* accepts, and the registered ones among them.
SupportedTypes == {"RDIMM", "72B_SO_RDIMM", "UDIMM", "SO_DIMM", "72B_SO_UDIMM"}

registered_dimm == module_type \in {"RDIMM", "72B_SO_RDIMM"}

\* The order in which the if-chain compares the CRC with the table.
CrcOrder == <<4, 11, 10, 5, 6, 7, 8, 9>>

\* The if-chain of ddr_odt_configuration(): the first row whose CRC
\* matches, else a row by module type and rank count.
odt_set ==
  LET i == SelectInSeq(CrcOrder, LAMBDA s : crc = dram_crc_val[s])
  IN  IF i # 0 THEN CrcOrder[i]
      ELSE IF registered_dimm /\ ranks = 2 THEN 3
      ELSE IF registered_dimm /\ ranks = 1 THEN 2
      ELSE IF ranks = 2 THEN 1
      ELSE 0

\* The dual-channel settings of DBM20 by port and CRC:
\* {rtt_park, rtt_nom, rtt_wr, dic, host vref, dram vref}.
DualSettings ==
  [p \in {0, 1} |->
     IF p = 0 THEN (\h1859 :> <<7,4,3,0,25,30>>) @@ (\h7fca :> <<7,4,3,0,25,30>>)
                   @@ (\hd8f1 :> <<3,2,4,0,26,30>>)
     ELSE \hd8f1 :> <<3,2,4,0,26,30>>]

\* The fields of struct ddr_configuration this module follows, after
\* "struct ddr_configuration data = {0}", the clock and the timings that
\* ddr_config_by_spd() computes from the SPD.
Data(clock) ==
  [clock_mhz |-> clock, DIC |-> 0, RTT_WR |-> 0, RTT_NOM |-> 0, RTT_PARK |-> 0,
   PHY_HOST_VREF |-> 0, PHY_DRAM_VREF |-> 0,
   CL |-> spdTimings[1], tRCD |-> spdTimings[2], tRP |-> spdTimings[3],
   tRAS |-> spdTimings[4], tFAW |-> spdTimings[5]]

(***************************************************************************)
(* Reading the flash slot: ddr_config_by_spd() and ddr_odt_flash_values(). *)
(***************************************************************************)
BinClock == (SPEEDBIN_2400 :> 1200) @@ (SPEEDBIN_2133 :> 1066)
              @@ (SPEEDBIN_1866 :> 933) @@ (SPEEDBIN_1600 :> 800)

\* clock_mhz from the speed bin of a USE_STR slot (an unknown bin is only
\* logged), then the fixed 800 MHz of DBM20 in dual-channel mode.
ConfigClock(st) ==
  LET c == IF st.ddr_sign = USE_STR /\ st.speedbin \in DOMAIN BinClock
           THEN BinClock[st.speedbin] ELSE spdClock
  IN  IF dimms = 2 /\ board = "DBM20" THEN 800 ELSE c

\* One timing override of ddr_config_by_spd(): a non-zero value of a
\* USE_STR slot replaces the one computed from the SPD.
FlashTiming(st, code, v) == IF code # 0 /\ st.ddr_sign = USE_STR THEN code ELSE v

\* The five of them, for CL, tRAS, tRP, tRCD and tFAW.
TimingsFromFlash(d, st) ==
  [d EXCEPT !.CL = FlashTiming(st, st.flsh_cl, @),
            !.tRAS = FlashTiming(st, st.flsh_tras, @),
            !.tRP = FlashTiming(st, st.flsh_trp, @),
            !.tRCD = FlashTiming(st, st.flsh_trcd, @),
            !.tFAW = FlashTiming(st, st.flsh_tfaw, @)]

\* 2T command timing (MSTR bit 10 in ddr_ctrl_init(), DCR bit 28 in
\* ddr_phy_init()): two DIMMs, or the flag of a USE_STR slot.
two_t_mode(st) == dimms = 2 \/ (st.flsh_1t2t # 0 /\ st.ddr_sign = USE_STR)

DicFromFlash == (DIC_RZQ_DIV_7 :> 0) @@ (DIC_RZQ_DIV_5 :> 1)

RttWrFromFlash == (RTTWR_DYN_OFF :> 0) @@ (RTTWR_RZQ_DIV_4 :> 1)
                    @@ (RTTWR_RZQ_DIV_2 :> 2) @@ (RTTWR_HI_Z :> 3)
                    @@ (RTTWR_RZQ_DIV_3 :> 4)

\* The switches on flsh_rtt_nom and flsh_rtt_park.
RttFromFlash == (RTT_DIS :> 0) @@ [c \in Range(RTT_DIV) |->
                                     CHOOSE i \in 1..7 : RTT_DIV[i] = c]

\* One switch: a zero code leaves the value, a listed code sets it, any
\* other code sets err_flag (only logged) and leaves it.
FromFlash(code, tbl, v) == IF code # 0 /\ code \in DOMAIN tbl THEN tbl[code] ELSE v

ddr_odt_flash_values(d, st) ==
  IF st.ddr_sign # USE_STR THEN d
  ELSE [d EXCEPT !.DIC = FromFlash(st.flsh_dic, DicFromFlash, @),
                 !.RTT_WR = FromFlash(st.flsh_rtt_wr, RttWrFromFlash, @),
                 !.RTT_NOM = FromFlash(st.flsh_rtt_nom, RttFromFlash, @),
                 !.RTT_PARK = FromFlash(st.flsh_rtt_park, RttFromFlash, @),
                 !.PHY_HOST_VREF = IF st.flsh_vref_use THEN st.flsh_host_v ELSE @,
                 !.PHY_DRAM_VREF = IF st.flsh_vref_use THEN st.flsh_dram_v ELSE @]

\* Mutant: the struct initialiser read with rtt_wr and rtt_nom swapped.
TableRowSwapped(d) ==
  LET r == dram_odt_set(port)[odt_set + 1]
  IN  [d EXCEPT !.RTT_PARK = r[4], !.RTT_NOM = r[2], !.RTT_WR = r[3], !.DIC = r[1]]

\* The row of dram_odt_set_0 or dram_odt_set_1 copied into data.
TableRow(d) ==
  LET r == dram_odt_set(port)[odt_set + 1]
  IN  [d EXCEPT !.RTT_PARK = r[4], !.RTT_NOM = r[3], !.RTT_WR = r[2], !.DIC = r[1]]

\* The dual-channel branch (DBM20 only; any other build returns -1).
DualRow(d) ==
  LET r == DualSettings[port][crc]
  IN  [d EXCEPT !.RTT_PARK = r[1], !.RTT_NOM = r[2], !.RTT_WR = r[3], !.DIC = r[4],
                !.PHY_HOST_VREF = r[5], !.PHY_DRAM_VREF = r[6]]

\* ddr_odt_configuration(): whether it returned 0, and the data it left.
ddr_odt_configuration(d, st) ==
  IF dimms = 1 THEN [ok |-> TRUE, data |-> ddr_odt_flash_values(TableRow(d), st), two_t |-> FALSE]
  ELSE IF board = "DBM20" /\ crc \in DOMAIN DualSettings[port]
       THEN [ok |-> TRUE, data |-> DualRow(d), two_t |-> FALSE]
       ELSE [ok |-> FALSE, data |-> d, two_t |-> FALSE]

(***************************************************************************)
(* Writing the slot: ddr_flash_conf_store().                              *)
(***************************************************************************)
SpeedbinOf == (1200 :> SPEEDBIN_2400) @@ (1066 :> SPEEDBIN_2133)
                @@ (933 :> SPEEDBIN_1866) @@ (800 :> SPEEDBIN_1600)

DicToFlash == (0 :> DIC_RZQ_DIV_7) @@ (1 :> DIC_RZQ_DIV_5)

RttWrToFlash == (0 :> RTTWR_DYN_OFF) @@ (1 :> RTTWR_RZQ_DIV_4)
                  @@ (2 :> RTTWR_RZQ_DIV_2) @@ (3 :> RTTWR_HI_Z)
                  @@ (4 :> RTTWR_RZQ_DIV_3)

\* The switches on data->RTT_NOM and data->RTT_PARK.
RttToFlash == [v \in 0..7 |-> IF v = 0 THEN RTT_DIS ELSE RTT_DIV[v]]

\* One switch: a listed value sets the code; any other value is an
\* "improbable situation" that leaves the code in ddr_storage as it was.
ToFlash(v, tbl, code) == IF v \in DOMAIN tbl THEN tbl[v] ELSE code

\* Mutant: the Vref of the slot marked as in use.
ddr_flash_conf_store_VrefUse(d, st) ==
  [st EXCEPT !.speedbin = ToFlash(d.clock_mhz, SpeedbinOf, @),
             !.flsh_dic = ToFlash(d.DIC, DicToFlash, @),
             !.flsh_rtt_wr = ToFlash(d.RTT_WR, RttWrToFlash, @),
             !.flsh_rtt_nom = ToFlash(d.RTT_NOM, RttToFlash, @),
             !.flsh_rtt_park = ToFlash(d.RTT_PARK, RttToFlash, @),
             !.flsh_host_v = IF dimms = 2 \/ d.PHY_HOST_VREF # 0
                             THEN d.PHY_HOST_VREF ELSE 9,
             !.flsh_dram_v = d.PHY_DRAM_VREF,
             !.flsh_vref_use = TRUE,
             !.flsh_cl = d.CL, !.flsh_trcd = d.tRCD, !.flsh_trp = d.tRP,
             !.flsh_tras = d.tRAS, !.flsh_tfaw = d.tFAW,
             !.flsh_1t2t = IF dimms = 2 THEN 1 ELSE @,
             !.ddr_sign = USE_SPD]

\* The buffer ddr_storage as written to the slot; the default Vref of
\* DXnGCR5 (9) replaces a zero host Vref, except in dual-channel mode.
ddr_flash_conf_store(d, st) ==
  [st EXCEPT !.speedbin = ToFlash(d.clock_mhz, SpeedbinOf, @),
             !.flsh_dic = ToFlash(d.DIC, DicToFlash, @),
             !.flsh_rtt_wr = ToFlash(d.RTT_WR, RttWrToFlash, @),
             !.flsh_rtt_nom = ToFlash(d.RTT_NOM, RttToFlash, @),
             !.flsh_rtt_park = ToFlash(d.RTT_PARK, RttToFlash, @),
             !.flsh_host_v = IF dimms = 2 \/ d.PHY_HOST_VREF # 0
                             THEN d.PHY_HOST_VREF ELSE 9,
             !.flsh_dram_v = d.PHY_DRAM_VREF,
             !.flsh_vref_use = FALSE,
             !.flsh_cl = d.CL, !.flsh_trcd = d.tRCD, !.flsh_trp = d.tRP,
             !.flsh_tras = d.tRAS, !.flsh_tfaw = d.tFAW,
             !.flsh_1t2t = IF dimms = 2 THEN 1 ELSE @,
             !.ddr_sign = USE_SPD]

(***************************************************************************)
(* Two boots of ddr_port_init() for one port.                             *)
(***************************************************************************)
\* The slot that ddr_flash_conf_load() flags as uninitialised: speed bin
\* and signature zero, and (as the UEFI leaves it) every other field zero.
ZeroSlot ==
  [speedbin |-> 0, ddr_sign |-> 0, flsh_dic |-> 0, flsh_rtt_wr |-> 0,
   flsh_rtt_nom |-> 0, flsh_rtt_park |-> 0, flsh_host_v |-> 0,
   flsh_dram_v |-> 0, flsh_vref_use |-> FALSE, flsh_cl |-> 0, flsh_trcd |-> 0,
   flsh_trp |-> 0, flsh_tras |-> 0, flsh_tfaw |-> 0, flsh_1t2t |-> 0]

\* One configuration of the port from the slot st: ddr_config_by_spd(),
\* which fails on a module type it does not support, then
\* ddr_odt_configuration(), and the command timing the register setup
\* then chooses.
Configure(st) ==
  IF module_type \in SupportedTypes
  THEN [ddr_odt_configuration(TimingsFromFlash(Data(ConfigClock(st)), st), st)
          EXCEPT !.two_t = two_t_mode(st)]
  ELSE [ok |-> FALSE, data |-> Data(spdClock), two_t |-> FALSE]

\* The first boot, which stores what it derived (ddr_flash_init_flag set).
FirstBoot == Configure(ZeroSlot)

\* The slot after that store, marked USE_STR by the UEFI menu with its
\* settings left as they were.
ConfirmedSlot == [ddr_flash_conf_store(FirstBoot.data, ZeroSlot) EXCEPT !.ddr_sign = USE_STR]

\* The second boot, configured from that slot.
SecondBoot == Configure(ConfirmedSlot)

TypeOK ==
  /\ board \in Boards /\ port \in {0, 1} /\ crc \in Crcs
  /\ module_type \in ModuleTypes /\ ranks \in {1, 2} /\ dimms \in {1, 2}
  /\ spdClock \in Clocks /\ spdTimings \in Timings
  /\ FirstBoot.data.RTT_WR \in 0..4
  /\ FirstBoot.data.RTT_NOM \in 0..7 /\ FirstBoot.data.RTT_PARK \in 0..7

Init ==
  /\ board \in Boards /\ port \in {0, 1} /\ crc \in Crcs
  /\ module_type \in ModuleTypes /\ ranks \in {1, 2} /\ dimms \in {1, 2}
  /\ spdClock \in Clocks /\ spdTimings \in Timings

\* Every state is one configuration; nothing changes it.
Next == UNCHANGED vars

Spec == Init /\ [][Next]_vars

-----------------------------------------------------------------------------
\* Settings survive the flash: what ddr_flash_conf_store() (ddr_menu.c)
\* writes for a port, confirmed unchanged in the UEFI menu, configures
\* the port on the next boot, through the speed-bin override of
\* ddr_config_by_spd() and ddr_odt_flash_values(), exactly as the SPD and
\* the ODT tables did: same clock, timings, command timing, drive
\* strength, terminations and Vref.
StoredSettingsReload ==
  FirstBoot.ok => SecondBoot = FirstBoot
====
