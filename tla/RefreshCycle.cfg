SPECIFICATION FairSpec
CONSTANTS
  Rates = {1, 2}
  Minute = 3
  Horizon = 14
  MaxQueued = 2
INVARIANTS
  TypeOK
  RefreshArmed
  TimerOnSchedule
  SkippedIsRequeued
PROPERTIES
  CountdownHonest
  KeepsRefreshing
