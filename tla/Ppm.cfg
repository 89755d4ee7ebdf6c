CONSTANTS
  Package = {"a", "b", "d"}
  Addable = {"a", "b"}
  Cli = {c1, c2}
  Snap = {"s"}
  Wheels <- MCWheels
  Budgets <- MCBudgets
  Requests <- MCRequests
  Indexes <- MCIndexes
  Metadata <- MCMetadata
  PreReleases = {3}
  Retries = 1
  Thread = {t1, t2}
  Nothing = Nothing
  Pid <- MCPid
  PoolSize = 2
  ChainLength = 2
  MaxWrites = 3
SPECIFICATION LibSpec
SYMMETRY Symmetry
CHECK_DEADLOCK FALSE
INVARIANTS HashesNameLines ChainIsExplained LockIsExplained NothingLeftOut VerifiedIsPublished WritesAccounted NewestWins
