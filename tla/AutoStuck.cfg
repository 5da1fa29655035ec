SPECIFICATION FairSpec
CONSTANTS
  Owner = Owner
  Users <- TheOwner
  EnvGrants <- NoGrants
  EnvChannel = "stable"
  EnvMode = "daily"
  Damaged = Damaged
  NoNotice = NoNotice
  Versions = {1, 2, 3}
  Sort <- ThreeSorts
  Sundays = {2}
  None = None
  Lossy = FALSE
  MaxDays = 2
  MaxJobs = 2
  MaxRestarts = 1
  MaxEdits = 1
PROPERTIES PendingIsSettled
CHECK_DEADLOCK FALSE
