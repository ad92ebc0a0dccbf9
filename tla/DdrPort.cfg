\* Every hardware answer ddr_init() handles, with and without ECC; a
\* scrubber that finishes before, during or after either wait, or never.
CONSTANTS
  PollBound = 2
  PirAnswers = {"Busy", "Done", "DoneErr"}
  TimeoutRegs = {"Zero", "NonZero"}
  DcuAnswers = {"Done", "LateDone", "Lost"}
  Readbacks = {TRUE, FALSE}
  StatAnswers = {"Normal", "Stuck", "AllOnes"}
  Blocks = 4
  ScrubPollBound = 4
SPECIFICATION Spec
INVARIANTS
  TypeOK
  AxiOnlyWhenTrained
  RestoredOnReturn
  ErrorBitsFatal
  NoTrafficDuringWriteScrub
  ScrubbedUnlessTimedOut
PROPERTIES
  PhasesInOrder
  PortEndsServing
