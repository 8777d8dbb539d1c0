SPECIFICATION Spec
CONSTANTS
  t1 = t1
  t2 = t2
  u1 = u1
  u2 = u2
  f1 = f1
  f2 = f2
  f3 = f3
  general = general
  Tokens = {t1}
  Uploads = {u1, u2}
  Fetches = {f1, f2}
  Channels = {general}
  Nothing = Nothing
  Solo = Solo
  Opener = Opener
  Lifetime = 1
  DayLength = 3
  MaxTime = 2
  MaxDevices = 1
SYMMETRY Symmetry
INVARIANT CompletedInTime
CHECK_DEADLOCK FALSE
