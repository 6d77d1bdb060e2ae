SPECIFICATION Spec
CONSTANTS
  t1 = t1
  t2 = t2
  t3 = t3
  Threads <- TwoThreads
  Kind = "long"
  Amounts = {1, 2}
  MaxStep = 2
  MaxCalls = 2
  PromptRolls = FALSE
  ClockMayStepBack = TRUE
SYMMETRY ThreadSymmetry
INVARIANTS
  RollsAreDisjoint
  CountedOnce
  ValuesMatch
  NothingDroppedWhenPolled
