SPECIFICATION Spec
CONSTANTS
  t1 = t1
  t2 = t2
  t3 = t3
  Threads <- ThreeThreads
  Kind = "max"
  Amounts = {1, 2}
  MaxStep = 2
  MaxCalls = 2
  PromptRolls = TRUE
  ClockMayStepBack = FALSE
PROPERTIES
  AttributedWithinOneStep
  ImplementsBucket
