---------------------------- MODULE El3Interrupts ----------------------------
(***************************************************************************)
(* The EL3 interrupt path of the Baikal platforms: the table of EL3        *)
(* interrupt handlers (baikal_interrupt_mgmt.c), the DesignWare APB timer  *)
(* driver that registers itself in it (dw_apb_timer.c), the timers' level  *)
(* interrupt lines and the GIC between them and the CPU.                   *)
(*                                                                         *)
(* During BL31 runtime setup (FIQs masked) clients call the registration   *)
(* and start/stop functions; then BL31 leaves for the normal world and     *)
(* Group 0 interrupts are taken as FIQs by baikal_el3_interrupt_handler(), *)
(* which baikal_el3_interrupt_config() installed first. The handler reads  *)
(* the highest pending ID, acknowledges, looks the ID up, runs the         *)
(* handler found and ends the interrupt; each of these is one action, and  *)
(* the timers keep expiring in between.                                    *)
(***************************************************************************)
EXTENDS Integers, FiniteSets

CONSTANTS
  MAX_INTR_EL3,       \* size of type_el3_interrupt_table
  MAX_DW_APB_TIMERS,  \* size of timers[]
  Bases,              \* timer register blocks (model values)
  Wiring,             \* the IRQ line each timer block drives (hardware)
  Irqs,               \* interrupt IDs clients register
  Group0,             \* IDs the GIC is configured to signal as Group 0
  TimerCallbacks,     \* dw_apb_timer_handler_t values clients pass
  ClientHandlers,     \* EL3 handlers of other request_intr_type_el3 callers
  NULL,
  SPURIOUS,           \* INTR_ID_UNAVAILABLE, the ID read when none is pending
  MaxCalls,           \* registration/start/stop calls during setup
  MaxExpiries         \* expiries of each timer explored

ASSUME Wiring \in [Bases -> Irqs] /\ Group0 \subseteq Irqs /\ SPURIOUS \notin Irqs

\* The EL3 handler installed for a timer's interrupt.
DwTimer == "dw_apb_timer_handler"

VARIABLES
  phase,     \* "Setup" (bl31_plat_runtime_setup, FIQs masked) or "Runtime"
  intr,      \* type_el3_interrupt_table
  index,     \* its static fill count
  timers,    \* timers[]
  n_timers,
  hw,        \* per timer block: enabled, raw interrupt status (the line)
  active,    \* IDs the GIC holds active
  cpu,       \* step of baikal_el3_interrupt_handler, or "Idle"
  intr_id,   \* the ID it read
  calls,     \* setup calls made
  expiries,  \* history: expiries of each timer block
  served     \* history: callback runs for each timer block

vars == <<phase, intr, index, timers, n_timers, hw, active, cpu, intr_id,
          calls, expiries, served>>

Slots(n) == 0..(n - 1)
Handlers == {DwTimer} \cup ClientHandlers \cup {NULL}

TypeOK ==
  /\ phase \in {"Setup", "Runtime"}
  /\ intr \in [Slots(MAX_INTR_EL3) -> [id : Irqs \cup {0}, handler : Handlers]]
  /\ index \in 0..MAX_INTR_EL3
  /\ timers \in [Slots(MAX_DW_APB_TIMERS) ->
                   [base : Bases \cup {NULL}, irq : Irqs \cup {0},
                    handler : TimerCallbacks \cup {NULL}]]
  /\ n_timers \in 0..MAX_DW_APB_TIMERS
  /\ hw \in [Bases -> [en : BOOLEAN, status : BOOLEAN]]
  /\ active \subseteq Irqs
  /\ cpu \in {"Idle", "Ack", "Dispatch", "Eoi"}
  /\ intr_id \in Irqs \cup {SPURIOUS, 0}
  /\ calls \in 0..MaxCalls
  /\ expiries \in [Bases -> 0..MaxExpiries]
  /\ served \in [Bases -> Nat]

\* Zero-initialised statics, timers in reset (disabled, no interrupt).
Init ==
  /\ phase = "Setup"
  /\ intr = [i \in Slots(MAX_INTR_EL3) |-> [id |-> 0, handler |-> NULL]]
  /\ index = 0
  /\ timers = [i \in Slots(MAX_DW_APB_TIMERS) |->
                 [base |-> NULL, irq |-> 0, handler |-> NULL]]
  /\ n_timers = 0
  /\ hw = [b \in Bases |-> [en |-> FALSE, status |-> FALSE]]
  /\ active = {}
  /\ cpu = "Idle"
  /\ intr_id = 0
  /\ calls = 0
  /\ expiries = [b \in Bases |-> 0]
  /\ served = [b \in Bases |-> 0]
-----------------------------------------------------------------------------
\* Mutant: no check that the table is full.
RequestIntrNoBound(id, h) ==
  CASE h = NULL -> [rc |-> "EINVAL", intr |-> intr]
    [] \E i \in Slots(index) : intr[i].id = id -> [rc |-> "EALREADY", intr |-> intr]
    [] OTHER -> [rc |-> "OK", intr |-> [intr EXCEPT ![index] = [id |-> id, handler |-> h]]]

\* request_intr_type_el3(id, handler) as an expression: the error code
\* and the table after the call.
RequestIntr(id, h) ==
  CASE h = NULL \/ index >= MAX_INTR_EL3 -> [rc |-> "EINVAL", intr |-> intr]
    [] \E i \in Slots(index) : intr[i].id = id -> [rc |-> "EALREADY", intr |-> intr]
    [] OTHER -> [rc |-> "OK",
                 intr |-> [intr EXCEPT ![index] = [id |-> id, handler |-> h]]]

Setup == phase = "Setup" /\ calls < MaxCalls /\ calls' = calls + 1

\* Another EL3 client calls request_intr_type_el3().
RequestIntrCall ==
  /\ Setup
  /\ \E id \in Irqs, h \in ClientHandlers \cup {NULL} :
       LET r == RequestIntr(id, h) IN
       /\ intr' = r.intr
       /\ index' = IF r.rc = "OK" THEN index + 1 ELSE index
  /\ UNCHANGED <<phase, timers, n_timers, hw, active, cpu, intr_id, expiries, served>>

\* dw_apb_timer_register(base, freq, irq, handler, data): argument and
\* duplicate checks, then the EL3 handler, then the timers[] entry.
\* Clients pass a block with the IRQ it drives (BAIKAL_SYNC_TIMER_BASE and
\* BAIKAL_SYNC_TIMER_IRQ); the driver cannot check this.
TimerRegister ==
  /\ Setup
  /\ \E b \in Bases, h \in TimerCallbacks \cup {NULL} :
       LET irq == Wiring[b] IN
       IF \/ h = NULL \/ n_timers >= MAX_DW_APB_TIMERS
          \/ \E i \in Slots(n_timers) : b = timers[i].base \/ irq = timers[i].irq
         THEN UNCHANGED <<intr, index, timers, n_timers>>
         ELSE LET r == RequestIntr(irq, DwTimer) IN
              IF r.rc # "OK"
                THEN UNCHANGED <<intr, index, timers, n_timers>>
                ELSE /\ intr' = r.intr
                     /\ index' = index + 1
                     /\ timers' = [timers EXCEPT ![n_timers] =
                                     [base |-> b, irq |-> irq, handler |-> h]]
                     /\ n_timers' = n_timers + 1
  /\ UNCHANGED <<phase, hw, active, cpu, intr_id, expiries, served>>

\* dw_apb_timer_start_periodic(id, rate): disable, clear the interrupt by
\* reading EOI, unmask, load freq / rate and enable. (The division is by
\* the fixed BS1000_SYNC_TIMER_RATE; the period is not modelled.)
TimerStart ==
  /\ Setup
  /\ \E id \in Slots(MAX_DW_APB_TIMERS) :
       IF id >= n_timers
         THEN UNCHANGED hw
         ELSE hw' = [hw EXCEPT ![timers[id].base] = [en |-> TRUE, status |-> FALSE]]
  /\ UNCHANGED <<phase, intr, index, timers, n_timers, active, cpu, intr_id, expiries, served>>

\* dw_apb_timer_stop(id): clears the enable bit only; whether a raised
\* interrupt survives the disable is left open.
TimerStop ==
  /\ Setup
  /\ \E id \in Slots(MAX_DW_APB_TIMERS) :
       IF id >= n_timers
         THEN UNCHANGED hw
         ELSE \E keep \in BOOLEAN :
                hw' = [hw EXCEPT ![timers[id].base] =
                         [en |-> FALSE, status |-> keep /\ @.status]]
  /\ UNCHANGED <<phase, intr, index, timers, n_timers, active, cpu, intr_id, expiries, served>>

\* BL31 setup is over and the normal world runs; FIQs are now taken.
Exit ==
  /\ phase = "Setup"
  /\ phase' = "Runtime"
  /\ UNCHANGED <<intr, index, timers, n_timers, hw, active, cpu, intr_id, calls, expiries, served>>
-----------------------------------------------------------------------------
\* An enabled timer counts down to zero and raises its interrupt.
Expire(b) ==
  /\ hw[b].en
  /\ expiries[b] < MaxExpiries
  /\ hw' = [hw EXCEPT ![b].status = TRUE]
  /\ expiries' = [expiries EXCEPT ![b] = @ + 1]
  /\ UNCHANGED <<phase, intr, index, timers, n_timers, active, cpu, intr_id, calls, served>>

\* Level-sensitive Group 0 IDs whose line is high and that are not active.
Pending == {i \in Group0 \ active : \E b \in Bases : Wiring[b] = i /\ hw[b].status}

\* The FIQ is taken when an ID is pending and none is active (all Group 0
\* IDs share GIC_HIGHEST_SEC_PRIORITY); plat_ic_get_pending_interrupt_id().
FiqGetPending ==
  /\ phase = "Runtime" /\ cpu = "Idle"
  /\ Pending # {} /\ active = {}
  /\ \E i \in Pending : intr_id' = i
  /\ cpu' = "Ack"
  /\ UNCHANGED <<phase, intr, index, timers, n_timers, hw, active, calls, expiries, served>>

\* plat_ic_acknowledge_interrupt(): the GIC activates the highest pending
\* ID, which the handler does not look at. A level line is only lowered
\* by the handler, so an ID is still pending here.
FiqAcknowledge ==
  /\ cpu = "Ack"
  /\ \E i \in Pending : active' = active \cup {i}
  /\ cpu' = "Dispatch"
  /\ UNCHANGED <<phase, intr, index, timers, n_timers, hw, intr_id, calls, expiries, served>>

\* The first entry of a table whose field f is v, or -1.
FirstMatch(tab, n, f, v) ==
  IF \E i \in Slots(n) : tab[i][f] = v
    THEN CHOOSE i \in Slots(n) : tab[i][f] = v /\ \A j \in Slots(i) : tab[j][f] # v
    ELSE -1

\* Mutant: the timer search stops one entry short.
TimerOfOffByOne(id) == FirstMatch(timers, n_timers - 1, "irq", id)

\* dw_apb_timer_handler(): the timer whose irq is id.
TimerOf(id) == FirstMatch(timers, n_timers, "irq", id)

\* Mutant: the timer's interrupt is not deasserted before the callback.
DwTimerHandlerNoEoi(t) ==
  /\ UNCHANGED hw
  /\ served' = [served EXCEPT ![timers[t].base] = @ + 1]

\* dw_apb_timer_handler() for timer t: read its EOI register (the line
\* drops) and call its handler.
DwTimerHandler(t) ==
  /\ hw' = [hw EXCEPT ![timers[t].base].status = FALSE]
  /\ served' = [served EXCEPT ![timers[t].base] = @ + 1]

\* baikal_el3_interrupt_handler(): look intr_id up in all MAX_INTR_EL3
\* entries and call the handler of the first match, if not NULL.
FiqDispatch ==
  /\ cpu = "Dispatch"
  /\ LET e == FirstMatch(intr, MAX_INTR_EL3, "id", intr_id)
         h == IF e = -1 THEN NULL ELSE intr[e].handler
         t == TimerOf(intr_id)
     IN  IF h = DwTimer /\ t # -1 THEN DwTimerHandler(t) ELSE UNCHANGED <<hw, served>>
  /\ cpu' = "Eoi"
  /\ UNCHANGED <<phase, intr, index, timers, n_timers, active, intr_id, calls, expiries>>

\* plat_ic_end_of_interrupt(intr_id): the GIC deactivates that ID.
FiqEndOfInterrupt ==
  /\ cpu = "Eoi"
  /\ active' = active \ {intr_id}
  /\ cpu' = "Idle"
  /\ UNCHANGED <<phase, intr, index, timers, n_timers, hw, intr_id, calls, expiries, served>>

Fiq == FiqGetPending \/ FiqAcknowledge \/ FiqDispatch \/ FiqEndOfInterrupt

\* The normal world runs on with no EL3 interrupt to take.
NormalWorld == phase = "Runtime" /\ cpu = "Idle" /\ UNCHANGED vars

Next ==
  \/ RequestIntrCall \/ TimerRegister \/ TimerStart \/ TimerStop \/ Exit
  \/ \E b \in Bases : Expire(b)
  \/ Fiq \/ NormalWorld

\* BL31 setup runs to its end; the GIC and the EL3 handler, with FIQs
\* unmasked in the normal world, take and finish every pending FIQ.
Spec == Init /\ [][Next]_vars /\ WF_vars(Exit) /\ WF_vars(Fiq)
-----------------------------------------------------------------------------
\* A timer's registered handler runs no more often than the timer expired:
\* dw_apb_timer_handler() deasserts the level line before
\* baikal_el3_interrupt_handler() ends the interrupt at the GIC, so an
\* ended interrupt is not taken again for the same expiry.
CallbacksMatchExpiries == \A b \in Bases : served[b] <= expiries[b]

\* A timer registered on the IRQ its block drives, if the GIC signals it
\* as Group 0, has every interrupt it raises at runtime served: the line
\* is eventually dropped by dw_apb_timer_handler().
Registered(b) == \E i \in Slots(n_timers) : timers[i].base = b /\ timers[i].irq = Wiring[b]

TimerInterruptServed ==
  \A b \in Bases :
    (phase = "Runtime" /\ hw[b].status /\ Registered(b) /\ Wiring[b] \in Group0)
      ~> ~hw[b].status
=============================================================================
