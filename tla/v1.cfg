CONSTANTS
  Procs = {"user", "comm"}
  Self = 0
  Files <- AllFiles
  Header = 5
  MaxAgents = 2
  MaxRecs = 2
  Ids = {0, 1}
  Serial = TRUE
  MaxCrashes = 2
  Puts <- BothPut
  Gets <- OneGetter
  MaxPuts = 2
CHECK_DEADLOCK FALSE
SPECIFICATION Spec
INVARIANTS TypeOK  RecordsApart FailureHeals CleanExit ReadIsRecent LifeIsRecent
PROPERTY OthersUndisturbed
