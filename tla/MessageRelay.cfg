SPECIFICATION FairSpec
CONSTANTS
  ann = ann
  bob = bob
  Users = {ann, bob}
  Founders = {ann}
  Clients = {bob}
  MaxMsgs = 2
  Cap = 1
  Page = 1
  WireCap = 1
  MaxFailures = 2
INVARIANTS
  NoHoles
  JoinIsHeard
  InOrder
PROPERTIES
  AllArrive
