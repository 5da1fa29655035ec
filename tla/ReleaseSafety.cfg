SPECIFICATION FairSpec
CONSTANTS
  c1 = c1  c2 = c2
  Versions <- TwoVersions
  UserSettings <- TwoSettings
  Installed = c1
  Cleared = Cleared
  Gone = Gone
  None = None
  MaxJobs = 3
  MaxCrashes = 1
  MaxEdits = 1
  MaxEvents = 4
INVARIANTS SuccessIsRunning RetainsReplacedPair RestoredIsOriginal ChangeAnnounced RefusedUntouched
PROPERTIES SavedBeforeOverwritten JobSettles ContractSpec PhasesKept
CHECK_DEADLOCK FALSE
