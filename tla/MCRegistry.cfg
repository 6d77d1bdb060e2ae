SPECIFICATION FairSpec
CONSTANTS
  t1 = t1
  t2 = t2
  i1 = i1
  i2 = i2
  Threads <- TwoThreads
  Ids <- OneId
  MeterTypes = {"counter", "gauge"}
  MaxIdle = 1
  MaxTime = 4
  MaxMeters = 3
CHECK_DEADLOCK FALSE
INVARIANTS
  HeldStaysRegistered
  OneMeterPerId
PROPERTY IdleMetersAreDropped
