SPECIFICATION FairSpec
CONSTANTS
  counter = counter
  gauge = gauge
  Ids <- TheCounter
  Gauges <- NoGauge
  Amounts = {1}
  StepTicks = 2
  Multiple = 3
  SubMultiples = {1, 2}
  MaxBusy = 1
  Slack = 1
  MaxStops = 1
  MaxTime = 19
  MaxRecords = 1
CHECK_DEADLOCK FALSE
INVARIANTS
  PromptSenderSendsEveryMinute
  BatchesAreExact
  SubBatchesAreExact
  NothingIsInflated
  SentValuesStay
  ResentBatchesAgree
PROPERTY StopReturns
