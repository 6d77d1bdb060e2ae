SPECIFICATION Spec
CONSTANTS
  counter = counter
  gauge = gauge
  Ids <- CounterAndGauge
  Gauges <- TheGauge
  Multiple = 2
  Amounts = {0, 1, 2}
  MaxStep = 8
CHECK_DEADLOCK FALSE
INVARIANTS
  ReportsEndedPeriod
  ErasedIsIdle
