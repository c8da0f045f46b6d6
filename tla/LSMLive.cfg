SPECIFICATION FairLSMSpec
CONSTANTS
  Keys = {k0, k1}
  Key0 = k0
  Mems = {m1, m2}
  Disks = {d1}
  Values <- MCItems
  Pairs <- MCPairs
  Entries = {e1, e2}
  Callers = {c1, r}
  Reader = r
  Retrier = retrier
  Expirer = expirer
  Ops = {"set", "get", "swap", "remove"}
  TTLs = {1000}
  ChanCap = 1
  LogCap = 1
  RetryCap = 1
  MaxCopies = 2
  Logged = FALSE
  Refreshes = TRUE
  NoEntry = NoEntry
  NoVal = NoVal
  NoKey = NoKey
INVARIANTS ItemsOwnedOnce
PROPERTIES RequestEnds
