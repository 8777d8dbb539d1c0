SPECIFICATION Spec
CONSTANTS
  general = general
  random = random
  Users = {1, 2}
  Creator = 1
  Channels = {general}
  MaxLogins = 0
  MaxGroups = 2
  MaxFailures = 1
  MaxTasks = 3
INVARIANTS
  RosterHasWelcome
  HolderIsOnRoster
  CalmMeansSameGroup
  ReadyMeansOpen
CHECK_DEADLOCK FALSE
