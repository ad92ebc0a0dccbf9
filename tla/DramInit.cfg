\* Two boots, every flash, configuration and training outcome.
CONSTANTS
  MaxBoots = 2
  FlashOk = {TRUE, FALSE}
  ConfigOk = {TRUE, FALSE}
  TrainResults = {"Ok", "LcruFail", "InitFail"}
  None = None
SPECIFICATION Spec
INVARIANTS
  TypeOK
  TzcOnlyAfterAllPortsOk
  FailedPortStopped
PROPERTIES
  OverrideOnlyFromSavedSettings
