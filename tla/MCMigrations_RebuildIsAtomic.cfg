SPECIFICATION MigrationSpec
CONSTANTS
  Starters = {1}
  Scripts <- ScriptsMC
  Tables = {"journal", "accounts"}
  Rows = {1}
  Writes = FALSE
  Fragile = {1}
INVARIANT RebuildIsAtomic
CHECK_DEADLOCK FALSE
