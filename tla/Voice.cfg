SPECIFICATION Spec
CONSTANTS
  lounge = lounge
  ann = ann
  Channels = {lounge}
  People = {ann}
  Nobody = Nobody
  Lifetime = 1
  Ring = 1
  MaxRooms = 2
  MaxEpoch = 1
  MaxTime = 1
CHECK_DEADLOCK FALSE
INVARIANTS
  TypeOK
  OneSession
  FreshAfterLeaving
  PeopleAreHere
PROPERTY KeyAge
