SPECIFICATION FairSpec
CONSTANTS
  t1 = t1
  t2 = t2
  host = host
  inner = inner
  basket = basket
  session = session
  private = private
  NoItem = NoItem
  NoRequest = NoRequest
  NoRange = NoRange
  Threads = {t1, t2}
  Files <- MCFiles
  Asks <- MCAsks
  Replies <- MCReplies
  Devices = {0, 1}
  uaDeviceCleaner = {0, 1}
  BufferSize = 2
  LimitForTempFile = 2
  MaxFaults = 1
INVARIANTS ResponsesTypeOK StoredWhole AsAnnounced RangesServed NothingPrivate  TurnsAdvance
PROPERTY Answered
CHECK_DEADLOCK FALSE
