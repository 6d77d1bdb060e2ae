SPECIFICATION FairSpec
CONSTANTS
  sender = sender
  application = application
  Pushers <- BothThreads
  BatchSize = 2
  Lists <- SomeLists
  MaxCalls = 2
CHECK_DEADLOCK FALSE
INVARIANTS
  Accounted
  PostedOnce
  CountsAreHonest
PROPERTY PublishReturns
