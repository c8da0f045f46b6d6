SPECIFICATION FairSpec
CONSTANTS
  k1 = k1
  k2 = k2
  v1 = v1
  v2 = v2
  Keys = {k1}
  Values = {v1}
  Pairs <- OnePair
  Entries = {e1, e2}
  Callers = {c1, c2}
  Ops = {"set", "get", "remove", "swap"}
  TTLs = {500}
  ChanCap = 1
  NoEntry = NoEntry
  NoVal = NoVal
  NoKey = NoKey
INVARIANTS SweepFindsList TypeOK OwnedOnce MapPointsHome CountMatches
PROPERTIES EntryFreed ListsAreQueues
