------------------------------ MODULE EccScrub ------------------------------
(***************************************************************************)
(* ddr_init_ecc_memory() in bm1000/drivers/ddr/ddr_init.c: the memory of  *)
(* an ECC port is written with zeros by the controller's scrubber         *)
(* (SBRCTL/SBRSTAT) while the AXI port is closed, then the scrubber is    *)
(* switched to slow read patrol and the AXI port reopened.                *)
(*                                                                         *)
(* The CPU and the scrubber run at the same time: the scrubber works      *)
(* through the memory in Blocks steps while the CPU polls SBRSTAT. The    *)
(* scrubber is hardware that may stall; only the CPU is assumed to make   *)
(* progress.                                                               *)
(***************************************************************************)
EXTENDS Naturals

CONSTANTS
  Blocks,     \* pieces of memory the write scrub goes through
  PollBound   \* reads of SBRSTAT before timeout_elapsed() reports the deadline

ASSUME Blocks \in Nat /\ Blocks > 0 /\ PollBound \in Nat /\ PollBound > 0

VARIABLES
  pc,          \* the step of ddr_init_ecc_memory() about to run
  elapsed,     \* reads of SBRSTAT in the current poll loop
  axiOn,       \* DDRC_PCTRL(0) == 1
  sbrEn,       \* SBRCTL bit 0, scrub_en
  sbrMode,     \* SBRCTL bit 2, scrub_mode: "Write" or "Read"
  sbrInterval, \* SBRCTL[20:8], scrub_interval: "Reset", "Zero" or "Max"
  scrubbed,    \* blocks the write scrub has initialised
  busy,        \* SBRSTAT bit 0, scrub_busy
  done,        \* SBRSTAT bit 1, scrub_done
  timedOut     \* history: a poll loop of ddr_init_ecc_memory() hit its deadline

vars == <<pc, elapsed, axiOn, sbrEn, sbrMode, sbrInterval, scrubbed, busy,
          done, timedOut>>

cpuVars == <<pc, elapsed, axiOn, sbrEn, sbrMode, sbrInterval, timedOut>>

engineVars == <<scrubbed, busy, done>>

TypeOK ==
  /\ pc \in {"Start", "Enable", "WaitDone", "WaitIdle", "Exit", "ExitEnable", "Finished"}
  /\ elapsed \in 0..PollBound
  /\ {axiOn, sbrEn, busy, done, timedOut} \subseteq BOOLEAN
  /\ sbrMode \in {"Write", "Read"}
  /\ sbrInterval \in {"Reset", "Zero", "Max"}
  /\ scrubbed \in 0..Blocks

\* Called after ddr_init() succeeded: the AXI port is open and the scrubber
\* is in its reset configuration (disabled, read mode).
Init ==
  /\ pc = "Start"
  /\ elapsed = 0
  /\ axiOn = TRUE
  /\ sbrEn = FALSE
  /\ sbrMode = "Read"
  /\ sbrInterval = "Reset"
  /\ scrubbed = 0
  /\ busy = FALSE
  /\ done = FALSE
  /\ timedOut = FALSE

\* AXI port closed; SBRCTL written with a zero interval and write mode,
\* scrub_en as it was read; SBRWDATA0/1 set to the zero pattern.
Configure ==
  /\ pc = "Start"
  /\ axiOn' = FALSE
  /\ sbrInterval' = "Zero"
  /\ sbrMode' = "Write"
  /\ pc' = "Enable"
  /\ UNCHANGED <<elapsed, sbrEn, timedOut, engineVars>>

\* scrub_en set in a write of its own.
EnableScrub ==
  /\ pc = "Enable"
  /\ sbrEn' = TRUE
  /\ pc' = "WaitDone"
  /\ elapsed' = 0
  /\ UNCHANGED <<axiOn, sbrMode, sbrInterval, timedOut, engineVars>>

\* Mutant: timeout_elapsed() one read late.
TimeoutElapsedLate == elapsed = PollBound + 1

\* timeout_elapsed(): the deadline of the poll loop has passed.
TimeoutElapsed == elapsed = PollBound

\* Mutant: a poll loop without the timeout branch.
PollNoTimeout(ready, next) ==
  \/ ready /\ pc' = next /\ elapsed' = 0 /\ UNCHANGED timedOut
  \/ ~ready /\ elapsed' = (IF elapsed < PollBound THEN elapsed + 1 ELSE elapsed)
     /\ UNCHANGED <<pc, timedOut>>

\* One read of SBRSTAT in a poll loop: leave the loop to `next` when
\* `ready` holds, else go on polling until the deadline, then goto exit.
Poll(ready, next) ==
  \/ ready /\ pc' = next /\ elapsed' = 0 /\ UNCHANGED timedOut
  \/ ~ready /\ ~TimeoutElapsed /\ elapsed' = elapsed + 1 /\ UNCHANGED <<pc, timedOut>>
  \/ ~ready /\ TimeoutElapsed /\ pc' = "Exit" /\ timedOut' = TRUE /\ UNCHANGED elapsed

\* Mutant: the wait for scrub_done left out.
WaitDoneNoWait ==
  /\ pc = "WaitDone"
  /\ Poll(TRUE, "WaitIdle")
  /\ UNCHANGED <<axiOn, sbrEn, sbrMode, sbrInterval, engineVars>>

\* The 3 s wait for scrub_done.
WaitDone ==
  /\ pc = "WaitDone"
  /\ Poll(done, "WaitIdle")
  /\ UNCHANGED <<axiOn, sbrEn, sbrMode, sbrInterval, engineVars>>

\* The 10 ms wait for scrub_busy to clear.
WaitIdle ==
  /\ pc = "WaitIdle"
  /\ Poll(~busy, "Exit")
  /\ UNCHANGED <<axiOn, sbrEn, sbrMode, sbrInterval, engineVars>>

\* Mutant: only scrub_en cleared at exit (reg &= ~0x1), write mode kept.
ExitReconfigureKeepMode ==
  /\ pc = "Exit"
  /\ sbrInterval' = "Max"
  /\ sbrEn' = FALSE
  /\ pc' = "ExitEnable"
  /\ UNCHANGED <<elapsed, axiOn, sbrMode, timedOut, engineVars>>

\* exit: SBRCTL re-read and written with the maximal interval and bits 0
\* and 2 cleared: scrubber disabled, read mode.
ExitReconfigure ==
  /\ pc = "Exit"
  /\ sbrInterval' = "Max"
  /\ sbrEn' = FALSE
  /\ sbrMode' = "Read"
  /\ pc' = "ExitEnable"
  /\ UNCHANGED <<elapsed, axiOn, timedOut, engineVars>>

\* scrub_en set in a write of its own, then the AXI port reopened.
ExitEnable ==
  /\ pc = "ExitEnable"
  /\ sbrEn' = TRUE
  /\ axiOn' = TRUE
  /\ pc' = "Finished"
  /\ UNCHANGED <<elapsed, sbrMode, sbrInterval, timedOut, engineVars>>

\* The scrubber, enabled in write mode, initialises one more block; the
\* last one sets scrub_done.
EngineWrite ==
  /\ sbrEn /\ sbrMode = "Write"
  /\ scrubbed < Blocks
  /\ scrubbed' = scrubbed + 1
  /\ busy' = TRUE
  /\ done' = (scrubbed + 1 = Blocks)
  /\ UNCHANGED cpuVars

\* The scrubber finishes its outstanding work and clears scrub_busy, once
\* the write scrub is complete or the scrubber is no longer writing.
EngineIdle ==
  /\ busy
  /\ scrubbed = Blocks \/ ~(sbrEn /\ sbrMode = "Write")
  /\ busy' = FALSE
  /\ UNCHANGED <<scrubbed, done, cpuVars>>

Cpu == Configure \/ EnableScrub \/ WaitDone \/ WaitIdle \/ ExitReconfigure \/ ExitEnable

Engine == EngineWrite \/ EngineIdle

\* The run stops when the function has returned and the scrubber is idle.
Returned == pc = "Finished" /\ ~busy /\ UNCHANGED vars

Next == Cpu \/ Engine \/ Returned

\* The CPU runs the function without interruption; the scrubber is given
\* no fairness, since the code allows for one that never finishes.
Spec == Init /\ [][Next]_vars /\ WF_vars(Cpu)

-----------------------------------------------------------------------------
\* While the AXI port is open the scrubber is never writing its zero
\* pattern: ddr_init_ecc_memory closes the port before the write scrub is
\* enabled and switches to read mode before reopening it.
NoTrafficDuringWriteScrub ==
  axiOn => ~(sbrEn /\ sbrMode = "Write")

\* When ddr_init_ecc_memory() returns, the whole memory has been written
\* by the scrub unless one of its waits timed out (the non-fatal
\* ScrubTimeout of spec 4.6).
ScrubbedUnlessTimedOut ==
  pc = "Finished" => (scrubbed = Blocks \/ timedOut)

\* Whatever the scrubber does, the function returns with the AXI port open
\* and the scrubber in slow read patrol, and stays so.
EndsInReadPatrol ==
  <>[](pc = "Finished" /\ axiOn /\ sbrEn /\ sbrMode = "Read" /\ sbrInterval = "Max")

=============================================================================
