\* Violation run: PortsIndependent.
CONSTANTS
  MaxBoots = 2
  FlashOk = {TRUE, FALSE}
  ConfigOk = {TRUE, FALSE}
  TrainResults = {"Ok", "LcruFail", "InitFail"}
  None = None
SPECIFICATION Spec
PROPERTY
  PortsIndependent
