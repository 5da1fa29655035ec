SPECIFICATION Spec
CONSTANTS
  owner = owner
  admin = admin
  app = app
  core = core
  Users <- UserPair
  Owner = owner
  EnvGrants <- Grants
  EnvChannel = "stable"
  EnvMode = "off"
  Damaged = Damaged
  NoNotice = NoNotice
  Panels = {1}
  Targets = {app, core}
  Nobody = Nobody
  Guarded = {core}
  Changers = {v, w}
  Listers = {"l"}
  Actors = {"a"}
  Inodes = {1, 2, 3, 4}
  EnvControlMode = "opt-out"
  Torn = Torn
  None = None
  MaxEdits = 3
  MaxRestarts = 1
SYMMETRY ChangersAlike
INVARIANTS ListsAreDecisions GrantedToEntitled PromiseHolds AnswerShowsChange
PROPERTIES ActionHonoursPolicy
CHECK_DEADLOCK FALSE
