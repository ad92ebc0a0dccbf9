------------------------------- MODULE DdrPort -------------------------------
(***************************************************************************)
(* Steps 5 and 6 of ddr_port_init() (bm1000/drivers/ddr/ddr_main.c):     *)
(* ddr_init() trains the port, and when it returns 0 on a port with ECC   *)
(* ddr_init_ecc_memory() zeroes its memory through the scrubber.          *)
(*                                                                         *)
(* The two functions are composed over the state they share, the AXI     *)
(* port enable DDRC_PCTRL(0): ddr_init() opens it, the scrub closes it    *)
(* and opens it again. The scrub starts in whatever state training left  *)
(* the controller in, which is the initial state EccScrub assumes.        *)
(***************************************************************************)
EXTENDS Naturals

CONSTANTS PollBound, PirAnswers, TimeoutRegs, DcuAnswers, Readbacks,
          StatAnswers, Blocks, ScrubPollBound

VARIABLES
  pc, phase, elapsed, pirOk, polls, altered, rttWrSet, vrefSet,
  dramRttWrOn, dramVrefMode, rfshDisabled, puren, axiOn, result, stat,
  eccOn,        \* data.ecc_on as ddr_config_by_spd() decoded it
  scrubPc,      \* the step of ddr_init_ecc_memory(); "Idle" before its call
  scrubElapsed, sbrEn, sbrMode, sbrInterval, scrubbed, busy, done, timedOut

T == INSTANCE DdrTraining

S == INSTANCE EccScrub WITH pc <- scrubPc, elapsed <- scrubElapsed,
                            PollBound <- ScrubPollBound

trainVars == <<pc, phase, elapsed, pirOk, polls, altered, rttWrSet, vrefSet,
               dramRttWrOn, dramVrefMode, rfshDisabled, puren, result, stat>>

scrubVars == <<scrubPc, scrubElapsed, sbrEn, sbrMode, sbrInterval, scrubbed,
               busy, done, timedOut>>

vars == <<trainVars, axiOn, eccOn, scrubVars>>

TypeOK ==
  /\ T!TypeOK
  /\ eccOn \in BOOLEAN
  /\ scrubPc = "Idle" \/ S!TypeOK

\* ddr_init() starts with the port closed and the scrubber in its reset
\* configuration: disabled, read mode, nothing scrubbed.
Init ==
  /\ T!Init
  /\ eccOn \in BOOLEAN
  /\ scrubPc = "Idle"
  /\ scrubElapsed = 0
  /\ sbrEn = FALSE
  /\ sbrMode = "Read"
  /\ sbrInterval = "Reset"
  /\ scrubbed = 0
  /\ busy = FALSE
  /\ done = FALSE
  /\ timedOut = FALSE

\* A step of ddr_init().
Train ==
  /\ T!Next
  /\ UNCHANGED <<eccOn, scrubVars>>

\* ddr_init() returned 0 and data.ecc_on is set: ddr_init_ecc_memory()
\* is called.
CallScrub ==
  /\ pc = "Done"
  /\ eccOn
  /\ scrubPc = "Idle"
  /\ scrubPc' = "Start"
  /\ UNCHANGED <<trainVars, axiOn, eccOn, scrubElapsed, sbrEn, sbrMode,
                 sbrInterval, scrubbed, busy, done, timedOut>>

\* A step of ddr_init_ecc_memory().
ScrubCpu ==
  /\ S!Cpu
  /\ UNCHANGED <<trainVars, eccOn>>

\* A step of the scrubber.
ScrubEngine ==
  /\ S!Engine
  /\ UNCHANGED <<trainVars, eccOn>>

\* ddr_port_init() has gone past both calls: ddr_init() failed, or it
\* succeeded and the scrub was not needed or has returned with the
\* scrubber idle.
PortReturned ==
  /\ \/ pc = "Failed"
     \/ pc = "Done" /\ ~eccOn
     \/ scrubPc = "Finished" /\ ~busy
  /\ UNCHANGED vars

Cpu == Train \/ CallScrub \/ ScrubCpu

Next == Cpu \/ ScrubEngine \/ PortReturned

\* One CPU runs both functions without interruption; the scrubber gets no
\* fairness (see EccScrub).
Spec == Init /\ [][Next]_vars /\ WF_vars(Cpu)

-----------------------------------------------------------------------------
\* The properties of ddr_init(), checked with the scrub that follows it.
\* The AXI port is open only after every training phase ran, refresh is
\* back on, the DFI update request is enabled and no temporary PHY change
\* is in force, also while the scrub closes and reopens the port.
AxiOnlyWhenTrained == T!AxiOnlyWhenTrained

\* Whatever ddr_init() returns, DTCR0 and DXCCR have been restored.
RestoredOnReturn == T!RestoredOnReturn

\* A training phase that completed with error bits fails ddr_init().
ErrorBitsFatal == T!ErrorBitsFatal

\* ddr_init() runs the training phases in order and always returns.
PhasesInOrder == T!PhasesInOrder

\* The properties of ddr_init_ecc_memory(), checked from the state that
\* ddr_init() really leaves. The AXI port is never open while the
\* scrubber writes its zero pattern.
NoTrafficDuringWriteScrub == S!NoTrafficDuringWriteScrub

\* When ddr_init_ecc_memory() returns, the whole memory has been zeroed
\* unless one of its waits timed out.
ScrubbedUnlessTimedOut == S!ScrubbedUnlessTimedOut

\* ddr_port_init() always gets past both calls, and a trained ECC port
\* ends with the AXI port open and the scrubber in slow read patrol,
\* whatever the scrubber does.
PortEndsServing ==
  <>[](\/ pc = "Failed"
       \/ pc = "Done" /\ ~eccOn /\ axiOn
       \/ /\ pc = "Done" /\ eccOn /\ scrubPc = "Finished" /\ axiOn
          /\ sbrEn /\ sbrMode = "Read" /\ sbrInterval = "Max")

=============================================================================
