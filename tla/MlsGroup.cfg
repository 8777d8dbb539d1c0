SPECIFICATION Spec
CONSTANTS
  alice = alice
  bob = bob
  carol = carol
  Members = {alice, bob}
  Leader = alice
  MaxEpoch = 2
  MaxCommits = 3
  MaxSends = 3
INVARIANTS
  SentIsDurable
  NoRivalCommits
  LeaderCanRestore
  DropsOnlyReplays
CHECK_DEADLOCK FALSE
