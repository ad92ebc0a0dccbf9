\* Registration, start and stop calls in any order, then runtime FIQs.
CONSTANTS
  MAX_INTR_EL3 = 2
  MAX_DW_APB_TIMERS = 2
  Bases <- MC_Bases
  Wiring <- MC_Wiring
  Irqs <- MC_Irqs
  Group0 <- MC_Group0
  TimerCallbacks = {Resync}
  ClientHandlers = {OtherHandler}
  NULL = NULL
  SPURIOUS = 1023
  MaxCalls = 4
  MaxExpiries = 2
SPECIFICATION Spec
INVARIANTS
  TypeOK
  CallbacksMatchExpiries
PROPERTIES
  TimerInterruptServed
