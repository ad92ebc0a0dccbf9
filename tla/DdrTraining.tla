----------------------------- MODULE DdrTraining -----------------------------
(***************************************************************************)
(* Training of one BE-M1000 DDR port: ddr_init() and the routines it      *)
(* calls in bm1000/drivers/ddr/ddr_init.c (baikal_ddrphy_dram_init,       *)
(* baikal_ddrphy_pir_training, baikal_ddrphy_vref_training,              *)
(* dcu_load_mode_command, run_dram_vref_tarining).                        *)
(*                                                                         *)
(* The code is one thread; the PHY (PUB), the controller (DDRC) and the   *)
(* DRAM are its environment. Each read of a status or readback register   *)
(* is a nondeterministic choice among the answers that hardware can give. *)
(* The register values themselves are abstracted to the facts the        *)
(* properties need: which temporary changes are in force and what the     *)
(* DRAM mode registers hold.                                              *)
(***************************************************************************)
EXTENDS Naturals, FiniteSets

CONSTANTS
  PollBound,    \* reads of PGSR0 before timeout_elapsed() reports the deadline
  PirAnswers,   \* what one read of PGSR0 may show: "Busy", "Done", "DoneErr"
  TimeoutRegs,  \* PGSR0 at the deadline: "Zero" (no bit set) or "NonZero"
  DcuAnswers,   \* fate of a DCU command: "Done", "LateDone" (after the deadline), "Lost"
  Readbacks,    \* results a readback of RFSHCTL3 or PCTRL may give (BOOLEAN)
  StatAnswers   \* DDRC STAT when polled: "Normal", "Stuck" or "AllOnes" (bus reads 0xffffffff)

ASSUME PollBound \in Nat /\ PollBound > 0

VARIABLES
  pc,           \* the step of ddr_init()/baikal_ddrphy_dram_init() about to run
  phase,        \* the PIR training mode being polled
  elapsed,      \* reads of PGSR0 done in the current poll loop
  pirOk,        \* ret == 0 as returned by the last baikal_ddrphy_pir_training()
  polls,        \* history: how the poll of each phase ended
  altered,      \* PUB registers changed for the duration of a phase: DTCR0, DXCCR
  rttWrSet,     \* mr2_val & GENMASK(11, 9) != 0 (programmed RTT_WR)
  vrefSet,      \* dram_vref_val != 0 (MR6 VrefDQ value programmed)
  dramRttWrOn,  \* RTT_WR field of the DRAM's own MR2 is non-zero
  dramVrefMode, \* DRAM's own MR6 has bit 7 (VrefDQ training mode) set
  rfshDisabled, \* DDRC_RFSHCTL3 == 1: controller auto-refresh off
  puren,        \* DSGCR.PUREN: DFI update request enabled
  axiOn,        \* DDRC_PCTRL(0) == 1: AXI port open to traffic
  result,       \* what ddr_init() returned: "None", "Ok" or "Fail"
  stat          \* how the DDRC STAT poll ended: "NotRun", "Normal" or "Timeout"

vars == <<pc, phase, elapsed, pirOk, polls, altered, rttWrSet, vrefSet,
          dramRttWrOn, dramVrefMode, rfshDisabled, puren, axiOn, result, stat>>

\* The PIR modes in the order ddr_init() and baikal_ddrphy_dram_init() run them.
Phases == {"PhyInit", "DramInit", "WriteLeveling", "DqsGate", "DramStep2", "VrefTrain"}

PollEnds == {"NotRun", "Done", "DoneErr", "Timeout"}

Steps == {"Program", "Poll", "DramPrep", "VrefDqOn", "VrefDqOff", "WlPrep",
          "WlRestore", "DqsRestore", "VrefPrep", "VrefRestore",
          "RefreshOn", "EnableAxi", "StatPoll", "Done", "Failed"}

\* The phases whose caller restores something before it looks at ret.
Restoring == {"WriteLeveling", "DqsGate", "VrefTrain"}

\* Where baikal_ddrphy_pir_training() returns to for each mode.
AfterPoll == [PhyInit |-> "DramPrep", DramInit |-> "VrefDqOn",
              WriteLeveling |-> "WlRestore", DqsGate |-> "DqsRestore",
              DramStep2 |-> "VrefPrep", VrefTrain |-> "VrefRestore"]

\* The DCU command took effect in the DRAM (the code never checks which).
Applied(a) == a \in {"Done", "LateDone"}

TypeOK ==
  /\ pc \in Steps
  /\ phase \in Phases
  /\ elapsed \in 0..PollBound
  /\ pirOk \in BOOLEAN
  /\ polls \in [Phases -> PollEnds]
  /\ altered \subseteq {"DTCR0", "DXCCR"}
  /\ {rttWrSet, vrefSet, dramRttWrOn, dramVrefMode, rfshDisabled, puren, axiOn} \subseteq BOOLEAN
  /\ result \in {"None", "Ok", "Fail"}
  /\ stat \in {"NotRun", "Normal", "Timeout"}

\* The DRAM mode registers hold what the PUB MR2/MR6 registers were
\* programmed with; they are loaded into the DRAM by the DRAM_STEP0 phase
\* and are only read from the write-leveling step on.
Init ==
  /\ pc = "Program"
  /\ phase = "PhyInit"
  /\ elapsed = 0
  /\ pirOk = TRUE
  /\ polls = [p \in Phases |-> "NotRun"]
  /\ altered = {}
  /\ rttWrSet \in BOOLEAN
  /\ vrefSet \in BOOLEAN
  /\ dramRttWrOn = rttWrSet
  /\ dramVrefMode = FALSE
  /\ rfshDisabled = FALSE
  /\ puren = FALSE
  /\ axiOn = FALSE
  /\ result = "None"
  /\ stat = "NotRun"

\* The first half of baikal_ddrphy_pir_training(): PIR is written with the
\* mode bits, then with INIT set, and the poll loop starts.
PirStart(mode) ==
  /\ phase' = mode
  /\ elapsed' = 0
  /\ pc' = "Poll"

\* Mutant: timeout_elapsed() one read late.
TimeoutElapsedLate == elapsed = PollBound + 1

\* timeout_elapsed(): the 10 ms deadline of the poll loop has passed.
TimeoutElapsed == elapsed = PollBound

\* A step that makes ddr_init() return a non-zero value.
Fail ==
  /\ pc' = "Failed"
  /\ result' = "Fail"

\* ddr_init() up to its first training call: clocks held in reset, the
\* controller and PUB registers written, resets released, ODTCR and DX8GCR0
\* written; then the PHY_INIT training is started.
Program ==
  /\ pc = "Program"
  /\ PirStart("PhyInit")
  /\ UNCHANGED <<pirOk, polls, altered, rttWrSet, vrefSet, dramRttWrOn,
                 dramVrefMode, rfshDisabled, puren, axiOn, result>>

\* baikal_ddrphy_pir_training() returns ret; a caller with nothing to
\* restore returns at once on a non-zero ret, the others go on to restore.
PirReturn(ok) ==
  /\ pirOk' = ok
  /\ \/ (ok \/ phase \in Restoring) /\ pc' = AfterPoll[phase] /\ UNCHANGED result
     \/ ~ok /\ phase \notin Restoring /\ Fail

\* One read of PGSR0 in the loop of baikal_ddrphy_pir_training(): IDONE
\* ends the loop, with ret = reg if an error bit of 0x0ff80000 is set;
\* otherwise the loop goes on until the deadline, where ret = reg.
PirPoll ==
  /\ pc = "Poll"
  /\ \E ans \in PirAnswers :
       \/ /\ ans = "Done"
          /\ polls' = [polls EXCEPT ![phase] = "Done"]
          /\ PirReturn(TRUE)
          /\ UNCHANGED elapsed
       \/ /\ ans = "DoneErr"
          /\ polls' = [polls EXCEPT ![phase] = "DoneErr"]
          /\ PirReturn(FALSE)
          /\ UNCHANGED elapsed
       \/ /\ ans = "Busy"
          /\ ~TimeoutElapsed
          /\ elapsed' = elapsed + 1
          /\ UNCHANGED <<pc, pirOk, polls, result>>
       \/ /\ ans = "Busy"
          /\ TimeoutElapsed
          /\ polls' = [polls EXCEPT ![phase] = "Timeout"]
          /\ \E reg \in TimeoutRegs : PirReturn(reg = "Zero")
          /\ UNCHANGED elapsed
  /\ UNCHANGED <<phase, altered, rttWrSet, vrefSet, dramRttWrOn, dramVrefMode,
                 rfshDisabled, puren, axiOn>>

\* Start of baikal_ddrphy_dram_init(): DXCCR written (QS counter on),
\* auto-refresh disabled through RFSHCTL3 and read back (return 1 if the
\* write did not take), then DRAM_STEP0 training started.
DramPrep ==
  /\ pc = "DramPrep"
  /\ \E rb \in Readbacks :
       \/ rb /\ rfshDisabled' = TRUE /\ PirStart("DramInit") /\ UNCHANGED result
       \/ ~rb /\ Fail /\ UNCHANGED <<rfshDisabled, phase, elapsed>>
  /\ UNCHANGED <<pirOk, polls, altered, rttWrSet, vrefSet, dramRttWrOn,
                 dramVrefMode, puren, axiOn>>

\* run_dram_vref_tarining(), first DCU command: MR6 | (1 << 7) puts the
\* DRAM in VrefDQ training mode. Only when MR6 holds a Vref value.
VrefDqOn ==
  /\ pc = "VrefDqOn"
  /\ \/ vrefSet /\ \E a \in DcuAnswers : dramVrefMode' = (dramVrefMode \/ Applied(a))
                /\ pc' = "VrefDqOff"
     \/ ~vrefSet /\ pc' = "WlPrep" /\ UNCHANGED dramVrefMode
  /\ UNCHANGED <<phase, elapsed, pirOk, polls, altered, rttWrSet, vrefSet,
                 dramRttWrOn, rfshDisabled, puren, axiOn, result>>

\* run_dram_vref_tarining(), second DCU command: MR6 written back without
\* bit 7. A timeout is logged by dcu_load_mode_command() and ignored.
VrefDqOff ==
  /\ pc = "VrefDqOff"
  /\ \E a \in DcuAnswers : dramVrefMode' = (dramVrefMode /\ ~Applied(a))
  /\ pc' = "WlPrep"
  /\ UNCHANGED <<phase, elapsed, pirOk, polls, altered, rttWrSet, vrefSet,
                 dramRttWrOn, rfshDisabled, puren, axiOn, result>>

\* RTT_WR of the DRAM's MR2 zeroed by a DCU command if it is programmed,
\* then write-leveling training started whatever the DCU reported.
WlPrep ==
  /\ pc = "WlPrep"
  /\ \/ rttWrSet /\ \E a \in DcuAnswers : dramRttWrOn' = (dramRttWrOn /\ ~Applied(a))
     \/ ~rttWrSet /\ UNCHANGED dramRttWrOn
  /\ PirStart("WriteLeveling")
  /\ UNCHANGED <<pirOk, polls, altered, rttWrSet, vrefSet, dramVrefMode,
                 rfshDisabled, puren, axiOn, result>>

\* Mutant: DQS gate training left out after write-leveling.
WlRestoreSkipDqs ==
  /\ pc = "WlRestore"
  /\ \/ rttWrSet /\ \E a \in DcuAnswers : dramRttWrOn' = (dramRttWrOn \/ Applied(a))
     \/ ~rttWrSet /\ UNCHANGED dramRttWrOn
  /\ \/ pirOk /\ PirStart("DramStep2") /\ UNCHANGED <<altered, result>>
     \/ ~pirOk /\ Fail /\ UNCHANGED <<altered, phase, elapsed>>
  /\ UNCHANGED <<pirOk, polls, rttWrSet, vrefSet, dramVrefMode, rfshDisabled,
                 puren, axiOn>>

\* MR2 written back with its programmed RTT_WR by a DCU command, whatever
\* write-leveling returned; then ret is looked at. On success the QS counter
\* is disabled in DXCCR and DQS gate training started.
WlRestore ==
  /\ pc = "WlRestore"
  /\ \/ rttWrSet /\ \E a \in DcuAnswers : dramRttWrOn' = (dramRttWrOn \/ Applied(a))
     \/ ~rttWrSet /\ UNCHANGED dramRttWrOn
  /\ \/ pirOk /\ altered' = altered \cup {"DXCCR"} /\ PirStart("DqsGate")
              /\ UNCHANGED result
     \/ ~pirOk /\ Fail /\ UNCHANGED <<altered, phase, elapsed>>
  /\ UNCHANGED <<pirOk, polls, rttWrSet, vrefSet, dramVrefMode, rfshDisabled,
                 puren, axiOn>>

\* Mutant: DRAM_STEP2 started without looking at DQS gate training's ret.
DqsRestoreIgnoreRet ==
  /\ pc = "DqsRestore"
  /\ altered' = altered \ {"DXCCR"}
  /\ PirStart("DramStep2") /\ UNCHANGED result
  /\ UNCHANGED <<pirOk, polls, rttWrSet, vrefSet, dramRttWrOn, dramVrefMode,
                 rfshDisabled, puren, axiOn>>

\* DXCCR bit 22 (QS counter) set again whatever DQS gate training returned;
\* then ret is looked at and DRAM_STEP2 training started.
DqsRestore ==
  /\ pc = "DqsRestore"
  /\ altered' = altered \ {"DXCCR"}
  /\ \/ pirOk /\ PirStart("DramStep2") /\ UNCHANGED result
     \/ ~pirOk /\ Fail /\ UNCHANGED <<phase, elapsed>>
  /\ UNCHANGED <<pirOk, polls, rttWrSet, vrefSet, dramRttWrOn, dramVrefMode,
                 rfshDisabled, puren, axiOn>>

\* baikal_ddrphy_vref_training() up to its training call: VTCR0/VTCR1
\* programmed, DTCR0 saved and written with its refresh field cleared,
\* then VREF training started.
VrefPrep ==
  /\ pc = "VrefPrep"
  /\ altered' = altered \cup {"DTCR0"}
  /\ PirStart("VrefTrain")
  /\ UNCHANGED <<pirOk, polls, rttWrSet, vrefSet, dramRttWrOn, dramVrefMode,
                 rfshDisabled, puren, axiOn, result>>

\* Mutant: return on a failed VREF training before DTCR0 is restored.
VrefRestoreOnSuccess ==
  /\ pc = "VrefRestore"
  /\ \/ pirOk /\ altered' = altered \ {"DTCR0"} /\ pc' = "RefreshOn" /\ UNCHANGED result
     \/ ~pirOk /\ Fail /\ UNCHANGED altered
  /\ UNCHANGED <<phase, elapsed, pirOk, polls, rttWrSet, vrefSet, dramRttWrOn,
                 dramVrefMode, rfshDisabled, puren, axiOn>>

\* The saved DTCR0 written back whatever VREF training returned; the
\* caller then looks at ret.
VrefRestore ==
  /\ pc = "VrefRestore"
  /\ altered' = altered \ {"DTCR0"}
  /\ \/ pirOk /\ pc' = "RefreshOn" /\ UNCHANGED result
     \/ ~pirOk /\ Fail
  /\ UNCHANGED <<phase, elapsed, pirOk, polls, rttWrSet, vrefSet, dramRttWrOn,
                 dramVrefMode, rfshDisabled, puren, axiOn>>

\* Mutant: the RFSHCTL3 readback not checked.
RefreshOnNoReadback ==
  /\ pc = "RefreshOn"
  /\ \E rb \in Readbacks : rfshDisabled' = ~rb
  /\ pc' = "EnableAxi"
  /\ UNCHANGED <<phase, elapsed, pirOk, polls, altered, rttWrSet, vrefSet,
                 dramRttWrOn, dramVrefMode, puren, axiOn, result>>

\* Auto-refresh re-enabled through RFSHCTL3 and read back (return 2 if
\* the write did not take).
RefreshOn ==
  /\ pc = "RefreshOn"
  /\ \E rb \in Readbacks :
       \/ rb /\ rfshDisabled' = FALSE /\ pc' = "EnableAxi" /\ UNCHANGED result
       \/ ~rb /\ Fail /\ UNCHANGED rfshDisabled
  /\ UNCHANGED <<phase, elapsed, pirOk, polls, altered, rttWrSet, vrefSet,
                 dramRttWrOn, dramVrefMode, puren, axiOn>>

\* DSGCR.PUREN set, then the AXI port enabled through PCTRL(0) and read
\* back (return 3 if the write did not take).
EnableAxi ==
  /\ pc = "EnableAxi"
  /\ puren' = TRUE
  /\ \E rb \in Readbacks :
       \/ rb /\ axiOn' = TRUE /\ pc' = "StatPoll" /\ UNCHANGED result
       \/ ~rb /\ Fail /\ UNCHANGED axiOn
  /\ UNCHANGED <<phase, elapsed, pirOk, polls, altered, rttWrSet, vrefSet,
                 dramRttWrOn, dramVrefMode, rfshDisabled>>

\* The wait for STAT[1:0] == 1 (normal operating mode). A register that
\* reads all ones never matches (its low bits are 3) and the loop runs to
\* its deadline, where ret = ~reg is zero: ddr_init() returns success.
StatPoll ==
  /\ pc = "StatPoll"
  /\ \E s \in StatAnswers :
       \/ s = "Normal" /\ stat' = "Normal" /\ pc' = "Done" /\ result' = "Ok"
       \/ s = "AllOnes" /\ stat' = "Timeout" /\ pc' = "Done" /\ result' = "Ok"
       \/ s = "Stuck" /\ stat' = "Timeout" /\ Fail
  /\ UNCHANGED <<phase, elapsed, pirOk, polls, altered, rttWrSet, vrefSet,
                 dramRttWrOn, dramVrefMode, rfshDisabled, puren, axiOn>>

\* Only the STAT poll touches stat.
Next ==
  \/ /\ \/ Program \/ PirPoll \/ DramPrep \/ VrefDqOn \/ VrefDqOff \/ WlPrep
        \/ WlRestore \/ DqsRestore \/ VrefPrep \/ VrefRestore \/ RefreshOn
        \/ EnableAxi
     /\ UNCHANGED stat
  \/ StatPoll

\* The code runs on one core without interruption; every poll loop ends
\* at its deadline, so the only fairness needed is that the CPU keeps
\* executing.
Spec == Init /\ [][Next]_vars /\ WF_vars(Next)

-----------------------------------------------------------------------------
(***************************************************************************)
(* Refinement: the training phase each step belongs to.                   *)
(***************************************************************************)
PhaseStage == [PhyInit |-> "PhyInit", DramInit |-> "DramInit",
               WriteLeveling |-> "WriteLeveling", DqsGate |-> "DqsGate",
               DramStep2 |-> "AddressDataTrain", VrefTrain |-> "VrefTrain"]

StepStage == [Program |-> "PhyReset", DramPrep |-> "DramInit",
              VrefDqOn |-> "DramInit", VrefDqOff |-> "DramInit",
              WlPrep |-> "WriteLeveling", WlRestore |-> "WriteLeveling",
              DqsRestore |-> "DqsGate", VrefPrep |-> "VrefTrain",
              VrefRestore |-> "VrefTrain", RefreshOn |-> "Enable",
              EnableAxi |-> "Enable", StatPoll |-> "Enable",
              Done |-> "Done", Failed |-> "Failed"]

stageBar == IF pc = "Poll" THEN PhaseStage[phase] ELSE StepStage[pc]

Abstract == INSTANCE TrainingPhases WITH stage <- stageBar

\* ddr_init() runs the training phases in the documented order, never
\* skips or repeats one, stops for good on a failure, and (every poll loop
\* being bounded by its deadline) always returns.
PhasesInOrder == Abstract!Spec

\* The AXI port is opened (PCTRL(0) in baikal_ddrphy_dram_init) only after
\* every training phase has run, auto-refresh is back on, the DFI update
\* request is enabled and no temporary DTCR0/DXCCR change is in force.
AxiOnlyWhenTrained ==
  axiOn =>
    /\ \A ph \in Phases : polls[ph] # "NotRun"
    /\ ~rfshDisabled
    /\ puren
    /\ altered = {}

\* Whatever ddr_init() returns, the DTCR0 refresh burst and the DXCCR QS
\* counter that training changed for a phase have been restored; the
\* restores in baikal_ddrphy_vref_training and baikal_ddrphy_dram_init run
\* before ret is looked at.
RestoredOnReturn ==
  pc \in {"Done", "Failed"} => altered = {}

\* A PIR training that completes with error bits (IDONE with any of
\* PGSR0[27:19]) fails the port: baikal_ddrphy_pir_training() returns
\* PGSR0, and the callers of write leveling, DQS gate and VREF training,
\* which restore MR2, DXCCR and DTCR0 first, look at that ret afterwards.
\* (The specification, section 4, makes error bits alone non-fatal; the
\* code takes the stricter choice, and this is what it must keep to.)
ErrorBitsFatal == result = "Ok" => \A ph \in Phases : polls[ph] # "DoneErr"

\* No deadline of the training passes silently: a port is reported trained
\* only if every PIR phase saw IDONE and the controller's STAT poll saw
\* normal operating mode (a PHY or controller that never signals done must
\* end in a timeout failure, spec 4.5, 8), and the DRAM mode registers are what
\* the steps around the DCU commands assume: write leveling runs with RTT_WR
\* of MR2 zeroed (the comment before the DCU command in
\* baikal_ddrphy_dram_init), and a trained port has RTT_WR restored and MR6
\* out of VrefDQ training mode (spec 4.5: zeroed and restored afterward).
NoSilentTimeout ==
  /\ result = "Ok" => (\A ph \in Phases : polls[ph] \in {"Done", "DoneErr"}) /\ stat = "Normal"
  /\ (pc = "Poll" /\ phase = "WriteLeveling") => ~dramRttWrOn
  /\ result = "Ok" => (dramRttWrOn = rttWrSet /\ ~dramVrefMode)

=============================================================================
