SPECIFICATION FairVLogSpec
CONSTANTS
  Items = {i1, i2}
  NoItem = NoItem
  TTLs = {8, 9}
  Second = 2
  Grace = 0
  MaxWaiting = 7200
  MaxFileSize = 3
  Faults = {"newline", "body"}
  Tries = 2
  MaxFaults = 2
  Times = {0, 9, 10}
INVARIANTS VLogTypeOK UnexpiredReadable RecordsIntact TakenOnce
PROPERTY EveryItemTaken
CHECK_DEADLOCK FALSE
