SPECIFICATION FairOnceSpec
CONSTANTS
  Requests = {r1, r2, r3}
  NoRequest = NoRequest
INVARIANTS OnceTypeOK AnsweredOnce BackendSpared
PROPERTY WaitEnds
CHECK_DEADLOCK FALSE
