SPECIFICATION FairSpec
CONSTANTS
  Owner = Owner
  Users <- TheOwner
  EnvGrants <- NoGrants
  EnvChannel = "stable"
  EnvMode = "daily"
  Damaged = Damaged
  NoNotice = NoNotice
  Versions = {1, 2, 3}
  Sort <- ThreeSorts
  Sundays = {2}
  None = None
  Lossy = TRUE
  MaxDays = 2
  MaxJobs = 2
  MaxRestarts = 1
  MaxEdits = 1
INVARIANTS QueuedOnce OptOutIsPrompt NoticeIsTrue
PROPERTIES CompletionNoticed
CHECK_DEADLOCK FALSE
