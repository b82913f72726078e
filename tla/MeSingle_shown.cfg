SPECIFICATION Spec
CONSTANTS
  Calls = {c1}
  Dbs = {0, 1, 2}
  Selectable = {0, 1, 2}
  ConfDb = 0
  UserOps = {"data", "type"}
  CheckSeconds = 1
  StaleSeconds = 2
  MaxRetry = 3
INVARIANT RunsOnShownDb
