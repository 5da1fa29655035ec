SPECIFICATION Spec
CONSTANTS
  c1 = c1  c2 = c2
  Versions <- OneVersion
  UserSettings <- OneSetting
  Installed = c1
  Cleared = Cleared
  Gone = Gone
  None = None
  MaxJobs = 2
  MaxCrashes = 0
  MaxEdits = 0
  MaxEvents = 2
INVARIANTS NotStranded
CHECK_DEADLOCK FALSE
