SPECIFICATION FairSpec
CONSTANTS
  Calls = {c1}
  Dbs = {0, 1, 2}
  Selectable = {0, 1}
  ConfDb = 1
  UserOps = {"data", "pick", "type"}
  CheckSeconds = 1
  StaleSeconds = 2
  MaxRetry = 3
INVARIANT TypeOK
INVARIANT SessionDbAgrees
INVARIANT RunsOnShownDbWhenClean
PROPERTY EveryCallReturns
PROPERTY KeepsPromise
