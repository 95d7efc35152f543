SPECIFICATION DatabaseSpec
CONSTANTS
  w1 = w1
  w2 = w2
  agent = agent
  human = human
  Nobody = Nobody
  Workers = {w1, w2}
  Actors = {agent, human}
  Humans = {human}
  Roles = {"owner", "bookkeeper"}
  Holds <- MCHolds
  Scenarios <- MCScenarios
  TokenActor = agent
  Window = 1
  Retention = 2
  Skew = 1
  d1 = d1
  k1 = k1
  Commands = {1, 2}
  Owners = {1, 2}
  Documents = {d1}
  Keys = {NoKey, k1}
  NoKey = NoKey
  Keeps = {0, 1, 2}
  Scopes <- ScopesMC
  Starters = {1, 2}
  Scripts <- ScriptsMC
  Tables = {"journal", "accounts"}
  Rows = {1}
  Writes = FALSE
  Fragile = {1}
SYMMETRY Symmetry
INVARIANTS
  OwnerRemains
  RunsOnce
  TrailVerifies
  EnrolledOnce
  CopiesKept
  MigratedWhole
PROPERTY
  RestoredAsTaken
CHECK_DEADLOCK FALSE
