SPECIFICATION FairSpec
CONSTANTS
  Apps = {"a", "b", "self"}
  Shielded = {"self"}
  Handlers = {"s", "t"}
  All = "all"
  None = None
  MaxVersion = 3
  MaxOperations = 2
  MaxFaults = 1
INVARIANTS WorkIsWatched
PROPERTIES UpdatedIsTrue LockReleased
CHECK_DEADLOCK FALSE
