CONSTANTS
  LoBits = 8
  Latency = 2
  MaxLate = 0
  TimerPeriod = 4
  BS1000_TSGEN_MAX_OFFSET = 1
  BS1000_TSGEN_MAX_SYNC = 3
  MaxResync = 1
  MasterStart <- MC_MasterStart
  SlaveStart <- MC_SlaveStart
SPECIFICATION Spec
PROPERTY CounterMonotonic
