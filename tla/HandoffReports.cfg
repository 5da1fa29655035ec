SPECIFICATION FairSpec
CONSTANTS
  Kinds = {"release", "host"}
  None = None
  MaxActions = 2
  MaxRestarts = 1
  MaxPosts = 2
  MaxCrossed = 0
INVARIANTS OwnVerdict AcceptedIsCarried RefusedIsDropped HostToldOnce
PROPERTIES AcceptedGetsReport
CHECK_DEADLOCK FALSE
