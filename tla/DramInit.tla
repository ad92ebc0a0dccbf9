------------------------------ MODULE DramInit ------------------------------
(***************************************************************************)
(* dram_init() and ddr_port_init() in bm1000/drivers/ddr/ddr_main.c with *)
(* the flash-backed override store of ddr_menu.c (the                     *)
(* BAIKAL_DDR_SETTINGS_IN_FLASH build), over several boots.               *)
(*                                                                         *)
(* The two ports are initialised one after the other. The per-port        *)
(* configuration (ddr_config_by_spd + ddr_odt_configuration), the         *)
(* training (ddr_lcru_initport + ddr_init) and the flash driver are       *)
(* environments whose outcome is a nondeterministic choice; DdrTraining   *)
(* and EccScrub show that ddr_init() and ddr_init_ecc_memory() always     *)
(* return, which is all this module assumes of them.                      *)
(*                                                                         *)
(* The flash holds one slot per port. What a slot holds is abstracted to  *)
(* its ddr_sign: "Zero" (never written: speedbin and sign 0), "Erased"    *)
(* (0xff), "Spd" (BAIKAL_FLASH_USE_SPD) or "Str" (BAIKAL_FLASH_USE_STR,  *)
(* an override saved from the setup menu). The global ddr_storage is     *)
(* abstracted to its sign and the port whose slot it was read from.       *)
(***************************************************************************)
EXTENDS Naturals

CONSTANTS
  MaxBoots,    \* boots explored
  FlashOk,     \* results a bootflash_read/erase/write may give (BOOLEAN)
  ConfigOk,    \* results of ddr_config_by_spd and ddr_odt_configuration (BOOLEAN)
  TrainResults, \* outcome of training a port: "Ok", "LcruFail", "InitFail"
  None          \* a model value: no port

ASSUME MaxBoots \in Nat /\ MaxBoots > 0

Ports == {0, 1}

Signs == {"Zero", "Erased", "Spd", "Str"}

VARIABLES
  boot,        \* the boot in progress
  pc,          \* the step of dram_init()/ddr_port_init() about to run
  port,        \* the port ddr_port_init() is working on
  present,     \* conf bit per port: a DDR4 SPD was read for the DIMM
  portState,   \* "Idle", "Ok" (ddr_port_init returned 0) or "Failed"
  lcru,        \* the port's clocks: "Reset", "On" (ddr_lcru_initport) or "Off" (ddr_lcru_disable)
  tzcOpen,     \* tzc_set_transparent() done
  storage,     \* ddr_storage: [sign, from]
  flag,        \* ddr_flash_init_flag != 0
  slot,        \* ddr_sign of each port's flash slot
  usedOverride \* history: the port whose STR slot configured each port this boot

vars == <<boot, pc, port, present, portState, lcru, tzcOpen, storage, flag,
          slot, usedOverride>>

TypeOK ==
  /\ boot \in 1..MaxBoots
  /\ pc \in {"Port", "Load", "Config", "StoreErase", "StoreWrite", "Train",
             "Revert", "Done", "Error"}
  /\ port \in Ports
  /\ present \in [Ports -> BOOLEAN]
  /\ portState \in [Ports -> {"Idle", "Ok", "Failed"}]
  /\ lcru \in [Ports -> {"Reset", "On", "Off"}]
  /\ tzcOpen \in BOOLEAN
  /\ storage \in [sign : Signs, from : Ports \cup {None}]
  /\ flag \in BOOLEAN
  /\ slot \in [Ports -> Signs]
  /\ usedOverride \in [Ports -> Ports \cup {None}]

\* RAM state at the start of dram_init(): ddr_storage and the flag are
\* zero-initialised globals.
BootState ==
  /\ pc = "Port"
  /\ port = 0
  /\ portState = [p \in Ports |-> "Idle"]
  /\ lcru = [p \in Ports |-> "Reset"]
  /\ tzcOpen = FALSE
  /\ storage = [sign |-> "Zero", from |-> None]
  /\ flag = FALSE
  /\ usedOverride = [p \in Ports |-> None]

\* The DIMMs fitted are fixed; the flash starts blank or with overrides.
Init ==
  /\ boot = 1
  /\ present \in [Ports -> BOOLEAN]
  /\ slot \in [Ports -> {"Zero", "Str"}]
  /\ BootState

\* tzc_set_transparent(conf): the TZC-400 of each detected port lets
\* every master through.
tzc_set_transparent == tzcOpen' = TRUE

\* Mutant: the port loop runs one port too far.
NextPortOffByOne ==
  IF port <= 1
    THEN pc' = "Port" /\ port' = port + 1 /\ UNCHANGED tzcOpen
    ELSE pc' = "Done" /\ tzc_set_transparent /\ UNCHANGED port

\* dram_init() moves on from `port`: to port 1, or to tzc_set_transparent().
NextPort ==
  IF port = 0
    THEN pc' = "Port" /\ port' = 1 /\ UNCHANGED tzcOpen
    ELSE pc' = "Done" /\ tzc_set_transparent /\ UNCHANGED port

\* dram_init() for the current port: ddr_port_init() if its DIMM was
\* detected; otherwise port 0 is disabled (port 1 is left as it is).
PortStart ==
  /\ pc = "Port"
  /\ \/ present[port] /\ pc' = "Load" /\ UNCHANGED <<port, tzcOpen, lcru>>
     \/ ~present[port] /\ NextPort
        /\ lcru' = IF port = 0 THEN [lcru EXCEPT ![0] = "Off"] ELSE lcru
  /\ UNCHANGED <<boot, present, portState, storage, flag, slot, usedOverride>>

\* ddr_flash_conf_load(): the port's slot is read into ddr_storage; a
\* read error leaves ddr_storage as it was. A blank slot sets the flag.
Load ==
  /\ pc = "Load"
  /\ \E ok \in FlashOk :
       \/ ok /\ storage' = [sign |-> slot[port], from |-> port]
             /\ flag' = (flag \/ slot[port] = "Zero")
       \/ ~ok /\ UNCHANGED <<storage, flag>>
  /\ pc' = "Config"
  /\ UNCHANGED <<boot, port, present, portState, lcru, tzcOpen, slot, usedOverride>>

\* Mutant: any ddr_storage not marked USE_SPD taken as an override.
ConfigNotSpd ==
  /\ pc = "Config"
  /\ usedOverride' = [usedOverride EXCEPT ![port] =
                        IF storage.sign # "Spd" THEN storage.from ELSE None]
  /\ \E ok \in ConfigOk :
       \/ ok /\ flag /\ pc' = "StoreErase"
       \/ ok /\ ~flag /\ pc' = "Train"
       \/ ~ok /\ pc' = "Revert"
  /\ UNCHANGED <<boot, port, present, portState, lcru, tzcOpen, storage, flag, slot>>

\* ddr_config_by_spd() and ddr_odt_configuration(): they take the STR
\* override from ddr_storage when its sign says so. On success the
\* configuration is stored in flash if the flag is set.
Config ==
  /\ pc = "Config"
  /\ usedOverride' = [usedOverride EXCEPT ![port] =
                        IF storage.sign = "Str" THEN storage.from ELSE None]
  /\ \E ok \in ConfigOk :
       \/ ok /\ flag /\ pc' = "StoreErase"
       \/ ok /\ ~flag /\ pc' = "Train"
       \/ ~ok /\ pc' = "Revert"
  /\ UNCHANGED <<boot, port, present, portState, lcru, tzcOpen, storage, flag, slot>>

\* ddr_flash_conf_store(), erase: on failure it returns -2 at once,
\* leaving the flag set; ddr_port_init() ignores the result.
StoreErase ==
  /\ pc = "StoreErase"
  /\ \E ok \in FlashOk :
       \/ ok /\ slot' = [slot EXCEPT ![port] = "Erased"] /\ pc' = "StoreWrite"
       \/ ~ok /\ pc' = "Train" /\ UNCHANGED slot
  /\ UNCHANGED <<boot, port, present, portState, lcru, tzcOpen, storage, flag, usedOverride>>

\* ddr_flash_conf_store(), write: ddr_storage filled from the port's
\* configuration with sign USE_SPD and written; the flag cleared whether
\* or not the write succeeded.
StoreWrite ==
  /\ pc = "StoreWrite"
  /\ storage' = [sign |-> "Spd", from |-> port]
  /\ \E ok \in FlashOk : slot' = [slot EXCEPT ![port] = IF ok THEN "Spd" ELSE "Erased"]
  /\ flag' = FALSE
  /\ pc' = "Train"
  /\ UNCHANGED <<boot, port, present, portState, lcru, tzcOpen, usedOverride>>

\* Mutant: a failed ddr_init() jumps to label error, leaving the clocks on.
TrainFailNoDisable ==
  /\ pc = "Train"
  /\ \E r \in TrainResults :
       \/ r = "Ok" /\ lcru' = [lcru EXCEPT ![port] = "On"]
          /\ portState' = [portState EXCEPT ![port] = "Ok"]
          /\ NextPort
       \/ r = "InitFail" /\ lcru' = [lcru EXCEPT ![port] = "On"]
          /\ pc' = "Revert" /\ UNCHANGED <<portState, port, tzcOpen>>
       \/ r = "LcruFail" /\ lcru' = [lcru EXCEPT ![port] = "Off"]
          /\ pc' = "Revert" /\ UNCHANGED <<portState, port, tzcOpen>>
  /\ UNCHANGED <<boot, present, storage, flag, slot, usedOverride>>

\* ddr_lcru_initport() and ddr_init(), then ddr_init_ecc_memory() for an
\* ECC module (it always returns 0); on a failure the port's clocks are
\* disabled (label failed) and the error path runs.
Train ==
  /\ pc = "Train"
  /\ \E r \in TrainResults :
       \/ r = "Ok" /\ lcru' = [lcru EXCEPT ![port] = "On"]
          /\ portState' = [portState EXCEPT ![port] = "Ok"]
          /\ NextPort
       \/ r # "Ok" /\ lcru' = [lcru EXCEPT ![port] = "Off"]
          /\ pc' = "Revert" /\ UNCHANGED <<portState, port, tzcOpen>>
  /\ UNCHANGED <<boot, present, storage, flag, slot, usedOverride>>

\* Mutant: dram_init() goes on to the next port after a failure.
RevertContinue ==
  /\ pc = "Revert"
  /\ \/ storage.sign = "Str" /\ storage' = [storage EXCEPT !.sign = "Spd"]
        /\ \E ok \in FlashOk : slot' = [slot EXCEPT ![port] = IF ok THEN "Spd" ELSE @]
     \/ storage.sign # "Str" /\ UNCHANGED <<storage, slot>>
  /\ portState' = [portState EXCEPT ![port] = "Failed"]
  /\ NextPort
  /\ UNCHANGED <<boot, present, lcru, flag, usedOverride>>

\* Label error of ddr_port_init(): an STR override in ddr_storage is
\* marked USE_SPD and written back to the port's slot; ddr_port_init()
\* returns -1 and dram_init() gives up (goto error) without trying the
\* next port.
Revert ==
  /\ pc = "Revert"
  /\ \/ storage.sign = "Str" /\ storage' = [storage EXCEPT !.sign = "Spd"]
        /\ \E ok \in FlashOk : slot' = [slot EXCEPT ![port] = IF ok THEN "Spd" ELSE @]
     \/ storage.sign # "Str" /\ UNCHANGED <<storage, slot>>
  /\ portState' = [portState EXCEPT ![port] = "Failed"]
  /\ pc' = "Error"
  /\ UNCHANGED <<boot, port, present, lcru, tzcOpen, flag, usedOverride>>

\* The board is reset, normally after dram_init() returned or by a power
\* loss at any step; the flash keeps its slots, and the setup menu may
\* have saved an STR override for some ports in between.
Reboot ==
  /\ boot < MaxBoots
  /\ boot' = boot + 1
  /\ \E menu \in SUBSET Ports :
       slot' = [p \in Ports |-> IF p \in menu THEN "Str" ELSE slot[p]]
  /\ pc' = "Port"
  /\ port' = 0
  /\ portState' = [p \in Ports |-> "Idle"]
  /\ lcru' = [p \in Ports |-> "Reset"]
  /\ tzcOpen' = FALSE
  /\ storage' = [sign |-> "Zero", from |-> None]
  /\ flag' = FALSE
  /\ usedOverride' = [p \in Ports |-> None]
  /\ UNCHANGED present

\* After the last boot explored, the system runs on.
Halted == boot = MaxBoots /\ pc \in {"Done", "Error"} /\ UNCHANGED vars

Next ==
  \/ PortStart \/ Load \/ Config \/ StoreErase \/ StoreWrite \/ Train
  \/ Revert \/ Reboot \/ Halted

Spec == Init /\ [][Next]_vars

-----------------------------------------------------------------------------
\* Address space is opened through the TZC-400s only when every detected
\* DIMM has been trained: dram_init() calls tzc_set_transparent() only
\* after both ddr_port_init() calls returned 0.
TzcOnlyAfterAllPortsOk ==
  tzcOpen => \A p \in Ports : present[p] => portState[p] = "Ok"

\* A port whose clocks were started and whose training then failed is left
\* with its clocks disabled (label failed of ddr_port_init).
FailedPortStopped ==
  \A p \in Ports : portState[p] = "Failed" => lcru[p] # "On"

\* A port is configured from an override only when the slot it was read
\* from holds a complete setting saved from the setup menu: a slot that a
\* power loss between the erase and the write of ddr_flash_conf_store()
\* left at 0xff is not BAIKAL_FLASH_USE_STR, so the next boot configures
\* the port from its SPD.
OverrideOnlyFromSavedSettings ==
  [][\A p \in Ports :
       (usedOverride'[p] # None /\ usedOverride'[p] # usedOverride[p])
          => slot[usedOverride'[p]] = "Str"]_vars

\* The ports are independent (spec 5 and 7: a failure on one port must not
\* abort the initialisation of another, and no mutable state is shared
\* across ports). A port is only ever configured from its own slot's
\* override (ddr_flash_conf_load(port), spec 6: load(port)); an override
\* saved from the setup menu is replaced only when it made its own port
\* fail (the error path of ddr_port_init; ddr_flash_conf_store() is meant
\* for blank slots only); and when dram_init() returns, every port with a
\* DIMM has been tried, whatever became of the other.
PortsIndependent ==
  /\ [](\A p \in Ports : usedOverride[p] \in {p, None})
  /\ [][\A p \in Ports : (slot[p] = "Str" /\ slot'[p] # "Str") => portState'[p] = "Failed"]_vars
  /\ [](pc \in {"Done", "Error"} => \A p \in Ports : present[p] => portState[p] # "Idle")

=============================================================================
