SPECIFICATION Spec
CONSTANTS
  general = general
  random = random
  Users = {1, 2, 3}
  Creator = 1
  Channels = {general}
  MaxLogins = 1
  MaxGroups = 1
  MaxFailures = 1
  MaxTasks = 1
INVARIANTS
  AttemptedHasWelcome
  FounderKnowsAll
CHECK_DEADLOCK FALSE
