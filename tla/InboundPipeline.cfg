SPECIFICATION Spec
CONSTANTS
  mine = mine
  text = text
  file = file
  commit = commit
  general = general
  Msgs = {mine, file}
  Own <- MCOwn
  Commits <- MCCommits
  WithFile <- MCWithFile
  AttachmentOnly = {}
  Channels <- MCChannels
  ChannelOf <- MCChannelOf
  Tasks = {1, 2}
  CacheMax = 1
  MaxImports = 1
INVARIANTS
  GateExclusive
  TextShownOnce
  DecryptedIsShown
  OwnEchoShown
PROPERTIES
  NoReplayWhileRemembered
CHECK_DEADLOCK FALSE
