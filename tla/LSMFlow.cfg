SPECIFICATION LSMSpec
CONSTANTS
  Keys = {k0, k1}
  Key0 = k0
  Mems = {m1}
  Disks = {d1}
  Values <- MCItems
  Pairs <- MCPairs
  Entries = {e1}
  Callers = {c1, r}
  Reader = r
  Retrier = retrier
  Expirer = expirer
  Ops = {"set", "get", "swap", "remove"}
  TTLs = {1000}
  ChanCap = 1
  LogCap = 1
  RetryCap = 1
  MaxCopies = 1
  Logged = TRUE
  Refreshes = TRUE
  NoEntry = NoEntry
  NoVal = NoVal
  NoKey = NoKey
INVARIANTS LSMTypeOK NeverHeldUp
PROPERTIES StoreSpec
