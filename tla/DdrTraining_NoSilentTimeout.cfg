\* Violation run: NoSilentTimeout against every hardware answer the code handles.
CONSTANTS
  PollBound = 2
  PirAnswers = {"Busy", "Done", "DoneErr"}
  TimeoutRegs = {"Zero", "NonZero"}
  DcuAnswers = {"Done", "LateDone", "Lost"}
  Readbacks = {TRUE, FALSE}
  StatAnswers = {"Normal", "Stuck", "AllOnes"}
SPECIFICATION Spec
CHECK_DEADLOCK FALSE
INVARIANT
  NoSilentTimeout
