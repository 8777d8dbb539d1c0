SPECIFICATION Spec
CONSTANTS
  ann = ann
  ben = ben
  g1 = g1
  g2 = g2
  Users = {ann, ben}
  Guilds = {g1, g2}
  Devices = {d1, d2}
  Requests = {r1, r2}
  Nothing = Nothing
  Home <- AnnHasOne
  MaxPacks = 2
  MaxMail = 3
  MaxTurns = 8
SYMMETRY Symmetry
INVARIANTS TypeOK AnsweredHasChannel OneHome ListsAreCurrent NewestCounts
CHECK_DEADLOCK FALSE
