SPECIFICATION Spec
CONSTANTS
  counter = counter
  gauge = gauge
  Ids <- TheCounter
  Gauges <- NoGauge
  Amounts = {1}
  StepTicks = 1
  Multiple = 2
  SubMultiples = {2}
  MaxBusy = 0
  Slack = 0
  MaxStops = 0
  MaxTime = 8
  MaxRecords = 1
CHECK_DEADLOCK FALSE
INVARIANT EverySubBatchIsExact
