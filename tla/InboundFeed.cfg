SPECIFICATION FairSpec
CONSTANTS
  mine = mine
  text = text
  file = file
  commit = commit
  general = general
  Msgs = {mine, commit}
  Own <- MCOwn
  Commits <- MCCommits
  WithFile <- MCWithFile
  AttachmentOnly = {}
  Channels <- MCChannels
  ChannelOf <- MCChannelOf
  Tasks = {1, 2}
  CacheMax = 1
  MaxImports = 0
PROPERTIES
  FeedSpec
  InflightReleased
CHECK_DEADLOCK FALSE
