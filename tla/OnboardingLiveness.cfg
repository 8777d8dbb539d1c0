SPECIFICATION FairSpec
CONSTANTS
  general = general
  random = random
  Users = {1, 2}
  Creator = 1
  Channels = {general}
  MaxLogins = 0
  MaxGroups = 2
  MaxFailures = 0
  MaxTasks = 2
PROPERTY PassServes
CHECK_DEADLOCK FALSE
