SPECIFICATION Spec
CONSTANTS
  counter = counter
  gauge = gauge
  Ids <- TheCounter
  Gauges <- NoGauge
  Amounts = {1}
  StepTicks = 2
  Multiple = 2
  SubMultiples = {}
  MaxBusy = 0
  Slack = 0
  MaxStops = 1
  MaxTime = 15
  MaxRecords = 1
CHECK_DEADLOCK FALSE
INVARIANT StopSendsPartialIncrements
