SPECIFICATION Spec
CONSTANTS
  Client <- MCClient
  Async <- MCAsync
  Worker = {w1, w2}
  Instance <- MCInstance
  Sharing <- MCSharing
  MayFail <- MCMayFail
  Patient = TRUE
INVARIANT SetUpOnce
INVARIANT StackAlive
INVARIANT InstancesOutliveWork
PROPERTY SleepersWake
PROPERTY DestructorEnds
CHECK_DEADLOCK FALSE
