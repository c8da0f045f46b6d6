------------------------------- MODULE LSMProofs -------------------------------
(***************************************************************************)
(* The cache keeps its types, and drives the store of KVSM only through    *)
(* its methods and its callback: what KVSMProofs shows of the store holds  *)
(* of the store inside the cache.  Without the value log every item has    *)
(* one owner.                                                              *)
(***************************************************************************)
EXTENDS LSM, KVSMProofs

(* The inductive invariant: the worker evicts a value, never a nil.        *)
LInv == LSMTypeOK /\ (wpc = "evict" => wval # NoVal)

-----------------------------------------------------------------------------
(* What a request, the log's reader and the evictors do to the store.      *)
LEMMA InsideIsStep ==
  ASSUME NEW c \in Callers, CallerInside(c)
  PROVE  Next
BY DEF CallerInside, Next, Step

LEMMA ClientIsNext ==
  ASSUME LInv, NEW c \in Clients, Arrive(c) \/ ClientStep(c) \/ FillFails(c)
  PROVE  [Next]_vars
<1> USE LSMConstantsOK
<1>0. c \in Callers
  BY DEF Clients
<1>1. ASSUME NEW k \in Keys, Call(c, "get", k, NoVal, 0) \/ Call(c, "remove", k, NoVal, 0)
      PROVE  Next
  <2>1. "get" \in Ops \cap {"get", "remove"} /\ "remove" \in Ops \cap {"get", "remove"}
    BY DEF AllOps
  <2> QED BY <1>0, <1>1, <2>1 DEF Next, AnyCall
<1>2. ASSUME NEW k \in Keys, NEW v \in Items, NEW ttl \in TTLs, Call(c, "set", k, v, ttl)
      PROVE  Next
  <2>1. "set" \in Ops \cap {"set", "swap"}
    BY DEF AllOps
  <2>2. <<k, v>> \in Pairs /\ <<k, v>>[1] = k /\ <<k, v>>[2] = v
    OBVIOUS
  <2>3. AnyCall(c)
    BY <1>2, <2>1, <2>2 DEF AnyCall
  <2> QED BY <1>0, <2>3 DEF Next
<1>3. CASE Arrive(c)
  BY <1>1, <1>3 DEF Arrive, Lookup, Refresh
<1>4. CASE FillFails(c)
  BY <1>4 DEF FillFails
<1>5. CASE CallerInside(c)
  BY <1>0, <1>5, InsideIsStep
<1>6. CASE Found(c) \/ \E i \in Mems : NotFound(c, i)
  BY <1>0, <1>6 DEF Found, NotFound, Next, Step
<1>7. CASE Acquire(c) \/ Done(c) \/ Log(c)
  BY <1>7 DEF Acquire, Done, Log
<1>8. ASSUME NEW ttl \in TTLs, Store(c, ttl) PROVE Next
  <2>1. item[c] \in Items /\ ikey[item[c]] \in Keys
    BY <1>8 DEF Store, LInv, LSMTypeOK, Items
  <2> QED BY <1>2, <1>8, <2>1 DEF Store
<1>9. CASE Stored(c) \/ Refreshed(c)
  BY <1>0, <1>9 DEF Stored, Refreshed, Next, Step
<1> QED BY <1>3, <1>4, <1>5, <1>6, <1>7, <1>8, <1>9 DEF ClientStep

LEMMA ReaderIsNext ==
  ASSUME LInv, ReaderStep
  PROVE  [Next]_vars
<1> USE LSMConstantsOK
<1>1. CASE CallerInside(Reader)
  BY <1>1, InsideIsStep
<1>2. ASSUME NEW d \in Disks, NEW ttl \in TTLs, Transform(d, ttl) PROVE Next
  <2>1. Head(logCh) \in Mems
    BY <1>2, HeadTail DEF Transform, LInv, LSMTypeOK
  <2> DEFINE k == ikey[Head(logCh)]
  <2>2. k \in Keys
    BY <2>1 DEF LInv, LSMTypeOK, Items
  <2>3. Call(Reader, "swap", k, d, ttl)
    BY <1>2 DEF Transform
  <2> HIDE DEF k
  <2>4. "swap" \in Ops \cap {"set", "swap"}
    BY DEF AllOps
  <2>5. <<k, d>> \in Pairs /\ <<k, d>>[1] = k /\ <<k, d>>[2] = d
    BY <2>2 DEF Items
  <2>6. AnyCall(Reader)
    BY <2>3, <2>4, <2>5 DEF AnyCall
  <2> QED BY <2>6 DEF Next
<1>3. CASE SwappedNew
  BY <1>3 DEF SwappedNew, Next, Step
<1>4. CASE ReaderEvicts
  BY <1>4 DEF ReaderEvicts, EvictFree, Next, Step
<1> QED BY <1>1, <1>2, <1>3, <1>4 DEF ReaderStep

LEMMA EvictorIsNext ==
  ASSUME ExpirerStep \/ RetryStep
  PROVE  [Next]_vars
<1>1. CASE WorkerInside
  BY <1>1 DEF WorkerInside, Next, Sweep
<1>2. CASE WorkerEvicts
  BY <1>2 DEF WorkerEvicts, EvictFree, Next, Sweep
<1>3. CASE RetryStep
  BY <1>3 DEF RetryStep, RetryTake, RetryEvicts, EvictFree
<1> QED BY <1>1, <1>2, <1>3 DEF ExpirerStep

LEMMA LSMStepIsNext ==
  ASSUME LInv, [LSMNext]_allVars
  PROVE  [Next]_vars
<1>1. CASE UNCHANGED allVars
  BY <1>1 DEF allVars
<1>2. CASE (WorkerRecv \/ StartSweep) \/ \E e \in Entries : Expire(e)
  BY <1>2 DEF Next
<1>3. ASSUME NEW i \in Items, Collect(i) PROVE UNCHANGED vars
  BY <1>3 DEF Collect
<1> QED BY <1>1, <1>2, <1>3, ClientIsNext, ReaderIsNext, EvictorIsNext DEF LSMNext

-----------------------------------------------------------------------------
(* The types of the cache's own variables.                                 *)
OwnTypes ==
  /\ free \in [Items -> 0..MaxCopies]
  /\ ikey \in [Items -> Keys]
  /\ inUse \in [Items -> Int]
  /\ phase \in [Clients -> {"idle", "get", "found", "read", "fill", "set", "log", "delete"}]
  /\ item \in [Clients -> Items \cup {NoVal}]
  /\ logCh \in Seq(Mems)
  /\ retryCh \in Seq(Items) /\ Len(retryCh) <= RetryCap
  /\ retried \in Items \cup {NoVal}
  /\ putting \in [Evictors -> BOOLEAN]
  /\ purged \subseteq Keys
  /\ \A c \in Clients : phase[c] \in {"found", "read"} => item[c] \in Items
  /\ \A c \in Clients : phase[c] \in {"fill", "set", "log"} => item[c] \in Mems

LEMMA TypeParts ==
  LSMTypeOK <=> TypeOK /\ OwnTypes
BY DEF LSMTypeOK, OwnTypes

(* Moving one client on keeps the types of phase and item.                 *)
LEMMA AtTypes ==
  ASSUME OwnTypes, NEW c \in Clients, NEW label, NEW i, At(c, label, i),
         label \in {"idle", "get", "found", "read", "fill", "set", "log", "delete"},
         i \in Items \cup {NoVal},
         label \in {"found", "read"} => i \in Items,
         label \in {"fill", "set", "log"} => i \in Mems
  PROVE  /\ phase' \in [Clients -> {"idle", "get", "found", "read", "fill", "set", "log", "delete"}]
         /\ item' \in [Clients -> Items \cup {NoVal}]
         /\ \A d \in Clients : phase'[d] \in {"found", "read"} => item'[d] \in Items
         /\ \A d \in Clients : phase'[d] \in {"fill", "set", "log"} => item'[d] \in Mems
BY DEF OwnTypes, At

LEMMA ClientTypes ==
  ASSUME LInv, NEW c \in Clients, Arrive(c) \/ ClientStep(c) \/ FillFails(c)
  PROVE  OwnTypes'
<1> USE LSMConstantsOK, TypeParts DEF LInv, objects, eviction
<1>0. c \in Callers /\ OwnTypes /\ TypeOK
  BY DEF Clients
<1>1. CASE Arrive(c)
  BY <1>0, <1>1, AtTypes DEF Arrive, Lookup, Refresh, OwnTypes
<1>2. CASE FillFails(c)
  BY <1>0, <1>2, AtTypes DEF FillFails, OwnTypes
<1>3. CASE CallerInside(c) /\ UNCHANGED lsmVars
  BY <1>0, <1>3 DEF lsmVars, OwnTypes
<1>4. CASE Found(c)
  <2>1. got[c].v \in Items
    BY <1>0, <1>4 DEF Found, TypeOK
  <2> QED BY <1>0, <1>4, <2>1, AtTypes DEF Found, OwnTypes
<1>5. CASE Acquire(c) \/ Done(c)
  <2>1. item[c] \in Items
    BY <1>0, <1>5 DEF Acquire, Done, OwnTypes
  <2>2. inUse' \in [Items -> Int]
    BY <1>0, <1>5, <2>1 DEF Acquire, Done, OwnTypes
  <2> QED BY <1>0, <1>5, <2>1, <2>2, AtTypes DEF Acquire, Done, OwnTypes
<1>6. ASSUME NEW i \in Mems, NotFound(c, i) PROVE OwnTypes'
  <2>1. i \in Items /\ req[c].k \in Keys
    BY <1>0, <1>6 DEF Items, NotFound, GetReturn, TypeOK
  <2>2. free' \in [Items -> 0..MaxCopies] /\ ikey' \in [Items -> Keys]
    BY <1>0, <1>6, <2>1 DEF NotFound, OwnTypes
  <2> QED BY <1>0, <1>6, <2>1, <2>2, AtTypes DEF NotFound, OwnTypes
<1>7. ASSUME NEW ttl \in TTLs, Store(c, ttl) PROVE OwnTypes'
  <2>1. item[c] \in Mems /\ item[c] \in Items
    BY <1>0, <1>7 DEF Store, OwnTypes, Items
  <2> QED BY <1>0, <1>7, <2>1, AtTypes DEF Store, OwnTypes
<1>8. CASE Stored(c) \/ Log(c)
  <2>1. item[c] \in Mems
    BY <1>0, <1>8 DEF Stored, Log, OwnTypes
  <2>2. CASE Stored(c)
    BY <1>0, <2>1, <2>2, AtTypes DEF Stored, OwnTypes, Items
  <2>3. CASE Log(c)
    <3>1. logCh' \in Seq(Mems)
      BY <1>0, <2>1, <2>3, AppendLast DEF Log, OwnTypes
    <3> QED BY <1>0, <2>3, <3>1, AtTypes DEF Log, OwnTypes
  <2> QED BY <1>8, <2>2, <2>3
<1>9. CASE Refreshed(c)
  <2>1. req[c].k \in Keys
    BY <1>0, <1>9 DEF Refreshed, RemoveMiss, RemoveExpire, TypeOK
  <2> QED BY <1>0, <1>9, <2>1, AtTypes DEF Refreshed, OwnTypes
<1> QED BY <1>1, <1>2, <1>3, <1>4, <1>5, <1>6, <1>7, <1>8, <1>9 DEF ClientStep

LEMMA TransformTypes ==
  ASSUME LInv, NEW d \in Disks, NEW ttl \in TTLs, Transform(d, ttl)
  PROVE  OwnTypes'
<1> USE LSMConstantsOK DEF LInv
<1>1. OwnTypes /\ d \in Items
  BY TypeParts DEF Items
<1>2. Head(logCh) \in Mems /\ Tail(logCh) \in Seq(Mems)
  BY <1>1, HeadTail DEF Transform, OwnTypes
<1>3. ikey[Head(logCh)] \in Keys
  BY <1>1, <1>2 DEF OwnTypes, Items
<1>4. free' \in [Items -> 0..MaxCopies] /\ ikey' \in [Items -> Keys]
  BY <1>1, <1>3 DEF Transform, OwnTypes
<1> QED BY <1>1, <1>2, <1>4 DEF Transform, OwnTypes, clients, eviction

(* onEvictInternal keeps the types, whoever calls it with an item.         *)
LEMMA EvictTypes ==
  ASSUME OwnTypes, NEW p \in Evictors, NEW x \in Items,
         EvictFree(p, x) \/ (Evicted(p, x) /\ retried' \in {retried, NoVal})
  PROVE  OwnTypes'
<1> USE LSMConstantsOK
<1>1. CASE EvictFree(p, x)
  <2>1. putting' \in [Evictors -> BOOLEAN]
    BY <1>1 DEF EvictFree, OwnTypes
  <2> QED BY <1>1, <2>1 DEF EvictFree, OwnTypes, objects, clients
<1>2. CASE EvictPut(p, x) /\ retried' \in {retried, NoVal}
  <2>1. putting' \in [Evictors -> BOOLEAN]
    BY <1>2 DEF EvictPut, OwnTypes
  <2>2. free' \in [Items -> 0..MaxCopies] /\ ikey' \in [Items -> Keys] /\ inUse' \in [Items -> Int]
    BY <1>2 DEF EvictPut, OwnTypes
  <2> QED BY <1>2, <2>1, <2>2 DEF EvictPut, OwnTypes, clients
<1>3. CASE EvictBusy(p, x) /\ retried' \in {retried, NoVal}
  <2>1. retryCh' \in Seq(Items) /\ Len(retryCh') <= RetryCap
    BY <1>3 DEF EvictBusy, OwnTypes
  <2> QED BY <1>3, <2>1 DEF EvictBusy, OwnTypes, objects, clients
<1> QED BY <1>1, <1>2, <1>3 DEF Evicted

LEMMA OthersTypes ==
  ASSUME LInv, ReaderStep \/ ExpirerStep \/ RetryStep
  PROVE  OwnTypes'
<1> USE LSMConstantsOK DEF LInv
<1>0. OwnTypes /\ TypeOK
  BY TypeParts
<1>1. CASE UNCHANGED lsmVars
  BY <1>0, <1>1 DEF lsmVars, OwnTypes
<1>2. CASE ReaderEvicts
  <2>1. got[Reader].v \in Items \cup {NoVal} /\ Reader \in Evictors
    BY <1>0 DEF TypeOK, Evictors
  <2>2. CASE UNCHANGED retried /\ got[Reader].v # NoVal /\ Evicted(Reader, got[Reader].v)
    BY <1>0, <2>1, <2>2, EvictTypes
  <2>3. CASE got[Reader].v # NoVal /\ EvictFree(Reader, got[Reader].v)
    BY <1>0, <2>1, <2>3, EvictTypes
  <2> QED BY <1>1, <1>2, <2>2, <2>3 DEF ReaderEvicts
<1>3. CASE WorkerEvicts
  <2>1. wval \in Items /\ Expirer \in Evictors
    BY <1>0, <1>3 DEF WorkerEvicts, WorkerEvict, TypeOK, Evictors
  <2> QED BY <1>0, <1>3, <2>1, EvictTypes DEF WorkerEvicts
<1>4. CASE RetryTake
  <2>1. Head(retryCh) \in Items /\ Tail(retryCh) \in Seq(Items)
        /\ Len(Tail(retryCh)) = Len(retryCh) - 1 /\ Len(retryCh) \in Nat
    BY <1>0, <1>4, HeadTail DEF RetryTake, OwnTypes
  <2> QED BY <1>0, <1>4, <2>1 DEF RetryTake, OwnTypes, objects, clients
<1>5. CASE RetryEvicts
  <2>1. retried \in Items /\ Retrier \in Evictors
    BY <1>0, <1>5 DEF RetryEvicts, OwnTypes, Evictors
  <2> QED BY <1>0, <1>5, <2>1, EvictTypes DEF RetryEvicts
<1> QED BY <1>1, <1>2, <1>3, <1>4, <1>5, TransformTypes
        DEF ReaderStep, ExpirerStep, RetryStep, SwappedNew

LEMMA CollectTypes ==
  ASSUME LInv, NEW i \in Items, Collect(i)
  PROVE  OwnTypes'
<1> USE LSMConstantsOK DEF LInv
<1>1. OwnTypes
  BY TypeParts
<1>2. free' \in [Items -> 0..MaxCopies] /\ ikey' \in [Items -> Keys] /\ inUse' \in [Items -> Int]
  BY <1>1 DEF Collect, OwnTypes
<1> QED BY <1>1, <1>2 DEF Collect, OwnTypes, clients, eviction

(* Only WorkerValue makes the worker evict, and only a value.              *)
LEMMA EvictsValue ==
  ASSUME TypeOK, wpc = "evict" => wval # NoVal, [Next]_vars
  PROVE  (wpc = "evict" => wval # NoVal)'
<1> USE DEF worker, Goto
<1>1. ASSUME NEW c \in Callers, AnyCall(c) PROVE UNCHANGED worker
  BY <1>1 DEF AnyCall, Call
<1>2. ASSUME NEW c \in Callers, Step(c) PROVE UNCHANGED worker
  BY <1>2 DEF Step, SetStore, SetSend, LoadHit, LoadMiss, RemoveMiss, GetRead, GetExpired,
     GetReturn, SwapExchange, SwapEvicted, RemoveUnmap, RemoveReset, RemoveExpire
<1>3. CASE WorkerRecv \/ \E e \in Entries : Expire(e)
  BY <1>3 DEF WorkerRecv, Expire
<1>4. CASE StartSweep \/ Sweep
  BY <1>4 DEF StartSweep, Sweep, SweepSkip, SweepTake, EndSweep, WorkerUnmap, WorkerValue,
     WorkerEvict, PutEntry
<1>5. CASE UNCHANGED vars
  BY <1>5 DEF vars
<1> QED BY <1>1, <1>2, <1>3, <1>4, <1>5 DEF Next

LEMMA LInvInductive ==
  ASSUME LInv, [LSMNext]_allVars
  PROVE  LInv'
<1>1. [Next]_vars
  BY LSMStepIsNext
<1>2. TypeOK' /\ (wpc = "evict" => wval # NoVal)'
  BY <1>1, NextTypes, EvictsValue, TypeParts DEF LInv
<1>3. OwnTypes'
  <2>1. CASE UNCHANGED lsmVars
    BY <2>1, TypeParts DEF LInv, OwnTypes, lsmVars
  <2> QED BY <2>1, ClientTypes, OthersTypes, CollectTypes DEF LSMNext, allVars
<1> QED BY <1>2, <1>3 DEF LInv, LSMTypeOK, OwnTypes

-----------------------------------------------------------------------------
(* Every variable of the cache keeps its type: a request past its lookup   *)
(* has an item, the one it fills is in memory, and no channel exceeds its  *)
(* capacity.                                                               *)
THEOREM LSMTypes == LSMSpec => []LSMTypeOK
<1>1. LSMInit => LInv
  BY InitTypes, LSMConstantsOK DEF LSMInit, Init, LInv, LSMTypeOK
<1>2. LInv => LSMTypeOK
  BY DEF LInv
<1> QED BY <1>1, <1>2, LInvInductive, PTL DEF LSMSpec

(* Requests, the log and the evictors use the store only as KVSM allows:   *)
(* every theorem about the store holds of the store inside the cache.      *)
THEOREM CacheUsesStore == LSMSpec => StoreSpec
<1>1. LSMInit => Init /\ LInv
  BY InitTypes, LSMConstantsOK DEF LSMInit, Init, LInv, LSMTypeOK
<1> QED BY <1>1, LInvInductive, LSMStepIsNext, PTL DEF LSMSpec, StoreSpec, Spec

(* So the cache never loses an entry and never finds a recycled one in the *)
(* map, Len is right, and the lists are used as queues.                    *)
COROLLARY CacheKeepsStore ==
  LSMSpec => [](OwnedOnce /\ MapPointsHome /\ CountMatches) /\ ListsAreQueues
BY CacheUsesStore, EntriesOwnedOnce, MapNamesLiveEntries, LenCountsEntries, StoreFilesInQueues, PTL
   DEF StoreSpec

-----------------------------------------------------------------------------
(* Without the value log its reader does nothing, and what a Set is about  *)
(* to store is the item that the request has filled.                       *)
Unlogged ==
  /\ logCh = <<>> /\ pc[Reader] = "idle"
  /\ \A c \in Clients :
       /\ phase[c] # "log" /\ pc[c] \notin {"swap", "exchange", "evicted"}
       /\ pc[c] = "set" => phase[c] = "set" /\ req[c].v = item[c]

OInv == LInv /\ (~Logged => Unlogged /\ \A i \in Items : InOnePlace(i))

(* What happens to the store and its owners while the item i stays where   *)
(* it is, or leaves a place and comes to no other.                         *)
Quiet(i) ==
  /\ free'[i] \in Nat /\ free'[i] <= free[i]
  /\ \A c \in Clients : Filling(c, i)' => Filling(c, i)
  /\ \A e \in Entries : Storing(e, i)' => Storing(e, i)
  /\ Expiring(i)' => Expiring(i)
  /\ retried' = i => retried = i
  /\ Retrying(i)' => Retrying(i)
  /\ \A j, l \in 1..Len(retryCh') : retryCh'[j] = i /\ retryCh'[l] = i => j = l

LEMMA QuietKeeps ==
  ASSUME LInv, NEW i \in Items, InOnePlace(i), Quiet(i)
  PROVE  InOnePlace(i)'
<1>1. free[i] \in Nat
  BY LSMConstantsOK DEF LInv, LSMTypeOK
<1> HIDE DEF Filling, Storing, Expiring, Retrying
<1> QED BY <1>1 DEF InOnePlace, Quiet

(* The channel of the retries as it is.                                    *)
LEMMA ChannelKept ==
  ASSUME NEW i \in Items, InOnePlace(i), UNCHANGED retryCh
  PROVE  /\ Retrying(i)' <=> Retrying(i)
         /\ \A j, l \in 1..Len(retryCh') : retryCh'[j] = i /\ retryCh'[l] = i => j = l
BY DEF InOnePlace, Retrying

(* A step of the store or of a client that moves no item.                  *)
LEMMA OwnersKept ==
  ASSUME LInv, NEW i \in Items, InOnePlace(i), UNCHANGED <<free, retryCh, retried>>,
         \A c \in Clients : Filling(c, i)' => Filling(c, i),
         \A e \in Entries : Storing(e, i)' => Storing(e, i),
         Expiring(i)' => Expiring(i)
  PROVE  InOnePlace(i)'
<1>1. free[i] \in Nat
  BY LSMConstantsOK DEF LInv, LSMTypeOK
<1>2. Quiet(i)
  BY <1>1, ChannelKept DEF Quiet
<1> QED BY <1>2, QuietKeeps

-----------------------------------------------------------------------------
(* Requests.  A step of one leaves the others where they are.              *)
OnlyMoves(c) ==
  \A d \in Clients \ {c} :
    pc'[d] = pc[d] /\ phase'[d] = phase[d] /\ item'[d] = item[d] /\ req'[d] = req[d]

LEMMA MovesAlone ==
  ASSUME LInv, NEW c \in Clients, Arrive(c) \/ ClientStep(c) \/ FillFails(c)
  PROVE  OnlyMoves(c) /\ pc'[Reader] = pc[Reader] /\ UNCHANGED <<retryCh, retried, worker>>
<1> USE DEF Goto, Leave, At, eviction, Clients
<1>0. TypeOK /\ OwnTypes /\ c \in Callers /\ Reader \in Callers /\ c # Reader
  BY TypeParts, LSMConstantsOK DEF LInv
<1>1. CASE Arrive(c)
  BY <1>0, <1>1 DEF Arrive, Lookup, Refresh, Call, OnlyMoves, TypeOK, OwnTypes
<1>2. CASE FillFails(c)
  BY <1>0, <1>2 DEF FillFails, OnlyMoves, OwnTypes, vars, worker
<1>3. CASE CallerInside(c) /\ UNCHANGED lsmVars
  BY <1>0, <1>3 DEF CallerInside, lsmVars, SetStore, LoadHit, LoadMiss, GetRead, GetExpired,
     SwapExchange, RemoveUnmap, RemoveReset, OnlyMoves, TypeOK
<1>4. CASE Found(c) \/ \E i \in Mems : NotFound(c, i)
  BY <1>0, <1>4 DEF Found, NotFound, GetReturn, OnlyMoves, TypeOK, OwnTypes
<1>5. CASE Acquire(c) \/ Done(c) \/ Log(c)
  BY <1>0, <1>5 DEF Acquire, Done, Log, OnlyMoves, OwnTypes, vars, worker
<1>6. CASE \E ttl \in TTLs : Store(c, ttl)
  BY <1>0, <1>6 DEF Store, Call, OnlyMoves, TypeOK, OwnTypes
<1>7. CASE Stored(c)
  BY <1>0, <1>7 DEF Stored, SetSend, OnlyMoves, TypeOK, OwnTypes
<1>8. CASE Refreshed(c)
  BY <1>0, <1>8 DEF Refreshed, RemoveMiss, RemoveExpire, OnlyMoves, TypeOK, OwnTypes
<1> QED BY <1>1, <1>2, <1>3, <1>4, <1>5, <1>6, <1>7, <1>8 DEF ClientStep

(* Where a request of a cache without a log can be after its step.         *)
LEMMA ClientUnlogged ==
  ASSUME OInv, ~Logged, NEW c \in Clients, Arrive(c) \/ ClientStep(c) \/ FillFails(c)
  PROVE  Unlogged'
<1> USE DEF Goto, Leave, At, eviction
<1>0. TypeOK /\ OwnTypes /\ c \in Callers /\ Unlogged
  BY TypeParts DEF OInv, LInv, Clients
<1> DEFINE Placed == /\ phase'[c] # "log" /\ pc'[c] \notin {"swap", "exchange", "evicted"}
                     /\ pc'[c] = "set" => phase'[c] = "set" /\ req'[c].v = item'[c]
                     /\ logCh' = logCh
<1>1. CASE Arrive(c)
  <2>1. Placed
    BY <1>0, <1>1 DEF Arrive, Lookup, Refresh, Call, TypeOK, OwnTypes
  <2> QED BY <1>0, <1>1, <2>1, MovesAlone DEF OInv, Unlogged, OnlyMoves
<1>2. CASE FillFails(c) \/ Acquire(c) \/ Done(c) \/ Log(c)
  <2>1. Placed
    BY <1>0, <1>2 DEF FillFails, Acquire, Done, Log, vars, Unlogged, OwnTypes
  <2> QED BY <1>0, <2>1, MovesAlone DEF OInv, Unlogged, OnlyMoves
<1>3. CASE CallerInside(c) /\ UNCHANGED lsmVars
  <2>1. /\ phase' = phase /\ item' = item /\ req' = req /\ logCh' = logCh
        /\ pc'[c] \in {"send", "read", "unmap", "ret", "check", "reset", "expire"}
    BY <1>0, <1>3 DEF CallerInside, lsmVars, SetStore, LoadHit, LoadMiss, AfterHit, AfterMiss,
       GetRead, GetExpired, SwapExchange, RemoveUnmap, RemoveReset, TypeOK, Unlogged
  <2> QED BY <1>0, <2>1, MovesAlone DEF OInv, Unlogged, OnlyMoves
<1>4. CASE Found(c) \/ \E i \in Mems : NotFound(c, i)
  <2>1. Placed
    BY <1>0, <1>4 DEF Found, NotFound, GetReturn, TypeOK, OwnTypes
  <2> QED BY <1>0, <2>1, MovesAlone DEF OInv, Unlogged, OnlyMoves
<1>5. CASE (\E ttl \in TTLs : Store(c, ttl)) \/ Stored(c) \/ Refreshed(c)
  <2>1. Placed
    BY <1>0, <1>5 DEF Store, Call, Stored, SetSend, Refreshed, RemoveMiss, RemoveExpire, TypeOK, OwnTypes
  <2> QED BY <1>0, <2>1, MovesAlone DEF OInv, Unlogged, OnlyMoves
<1> QED BY <1>1, <1>2, <1>3, <1>4, <1>5 DEF ClientStep

(* A request that does not touch the fields of entries, nor the pool.      *)
LEMMA RequestLeavesOwners ==
  ASSUME LInv, NEW c \in Clients, NEW i \in Items, InOnePlace(i), OnlyMoves(c),
         UNCHANGED <<free, val, worker, retryCh, retried>>,
         Filling(c, i)' => Filling(c, i)
  PROVE  InOnePlace(i)'
<1>1. \A d \in Clients : Filling(d, i)' => Filling(d, i)
  BY DEF OnlyMoves, Filling
<1>2. \A e \in Entries : Storing(e, i)' => Storing(e, i)
  BY DEF Storing, worker
<1>3. Expiring(i)' => Expiring(i)
  BY DEF Expiring, worker
<1> QED BY <1>1, <1>2, <1>3, OwnersKept

(* A new item comes from the pool, where it was once.                      *)
LEMMA NotFoundOwners ==
  ASSUME LInv, NEW c \in Clients, NEW x \in Mems, NotFound(c, x), OnlyMoves(c),
         NEW i \in Items, InOnePlace(i), UNCHANGED <<worker, retryCh, retried>>
  PROVE  InOnePlace(i)'
<1>0. TypeOK /\ OwnTypes /\ c \in Callers /\ x \in Items
  BY TypeParts DEF LInv, Clients, Items
<1>1. /\ phase'[c] = "fill" /\ item'[c] = x
      /\ \A y \in Items : free'[y] = IF y = x THEN free[x] - 1 ELSE free[y]
      /\ free[x] > 0 /\ val' = val
  BY <1>0 DEF NotFound, GetReturn, At, OwnTypes, fields
<1>2. /\ \A d \in Clients \ {c} : Filling(d, i)' <=> Filling(d, i)
      /\ \A e \in Entries : Storing(e, i)' <=> Storing(e, i)
      /\ Expiring(i)' <=> Expiring(i)
  BY <1>1 DEF OnlyMoves, Filling, Storing, Expiring, worker
<1>3. CASE i # x
  <2>1. ~Filling(c, i)'
    BY <1>1, <1>3 DEF Filling
  <2>2. free'[i] \in Nat /\ free'[i] <= free[i]
    BY <1>0, <1>1, <1>3, LSMConstantsOK DEF OwnTypes
  <2>3. Quiet(i)
    BY <1>2, <2>1, <2>2, ChannelKept DEF Quiet
  <2> QED BY <2>3, QuietKeeps
<1>4. CASE i = x
  <2>1. free'[i] = 0
    BY <1>0, <1>1, <1>4, LSMConstantsOK DEF InOnePlace, OwnTypes
  <2>2. /\ \A d \in Clients : Filling(d, i)' => d = c
        /\ \A e \in Entries : ~Storing(e, i)'
        /\ ~Expiring(i)' /\ retried' # i /\ ~Retrying(i)'
    BY <1>1, <1>2, <1>4, ChannelKept DEF InOnePlace
  <2>3. \A j, l \in 1..Len(retryCh') : retryCh'[j] = i /\ retryCh'[l] = i => j = l
    BY ChannelKept
  <2> QED BY <2>1, <2>2, <2>3 DEF InOnePlace
<1> QED BY <1>3, <1>4

(* Set hands the item over to an entry.                                    *)
LEMMA StoreOwners ==
  ASSUME LInv, Unlogged, NEW c \in Clients, NEW e \in Entries, SetStore(c, e), OnlyMoves(c),
         UNCHANGED lsmVars, NEW i \in Items, InOnePlace(i)
  PROVE  InOnePlace(i)'
<1>0. TypeOK /\ OwnTypes /\ c \in Callers
  BY TypeParts DEF LInv, Clients
<1> DEFINE x == item[c]
<1>1. /\ pc'[c] = "send" /\ pc[c] = "set" /\ phase[c] = "set" /\ phase' = phase /\ item' = item
      /\ \A f \in Entries : val'[f] = IF f = e THEN x ELSE val[f]
      /\ UNCHANGED <<worker, free, retryCh, retried>>
  BY <1>0 DEF SetStore, Goto, TypeOK, Unlogged, lsmVars
<1>2. /\ \A d \in Clients : Filling(d, i)' => Filling(d, i) /\ d # c
      /\ \A f \in Entries \ {e} : Storing(f, i)' => Storing(f, i)
      /\ Expiring(i)' <=> Expiring(i)
  BY <1>1 DEF OnlyMoves, Filling, Storing, Expiring, worker
<1>3. CASE i # x
  <2>1. ~Storing(e, i)'
    BY <1>1, <1>3 DEF Storing
  <2> QED BY <1>1, <1>2, <2>1, OwnersKept
<1>4. CASE i = x
  <2>1. Filling(c, i)
    BY <1>1, <1>4 DEF Filling
  <2>a. free[i] \in Nat /\ (Retrying(i)' <=> Retrying(i))
    BY <1>0, <1>1, ChannelKept, LSMConstantsOK DEF OwnTypes
  <2>b. free[i] = 0 /\ ~Expiring(i) /\ retried # i /\ ~Retrying(i)
        /\ (\A d \in Clients : Filling(d, i) => d = c) /\ (\A f \in Entries : ~Storing(f, i))
    BY <2>a, <2>1 DEF InOnePlace
  <2>2. /\ free'[i] = 0 /\ ~Expiring(i)' /\ retried' # i /\ ~Retrying(i)'
        /\ \A d \in Clients : ~Filling(d, i)'
        /\ \A f \in Entries : Storing(f, i)' => f = e
    BY <1>1, <1>2, <2>a, <2>b
  <2>3. \A j, l \in 1..Len(retryCh') : retryCh'[j] = i /\ retryCh'[l] = i => j = l
    BY <1>1, ChannelKept
  <2> QED BY <2>2, <2>3 DEF InOnePlace
<1> QED BY <1>3, <1>4

LEMMA ClientOwners ==
  ASSUME OInv, ~Logged, NEW c \in Clients, Arrive(c) \/ ClientStep(c) \/ FillFails(c),
         NEW i \in Items
  PROVE  InOnePlace(i)'
<1> USE DEF Goto, Leave, At, objects
<1>0. /\ TypeOK /\ OwnTypes /\ c \in Callers /\ Unlogged /\ LInv /\ InOnePlace(i)
      /\ OnlyMoves(c) /\ UNCHANGED <<worker, retryCh, retried>>
  BY TypeParts, MovesAlone DEF OInv, LInv, Clients
<1> DEFINE Still == UNCHANGED <<free, val>> /\ (Filling(c, i)' => Filling(c, i))
<1>1. CASE Arrive(c)
  <2>1. Still
    BY <1>0, <1>1 DEF Arrive, Lookup, Refresh, Call, Filling, TypeOK, OwnTypes, fields
  <2> QED BY <1>0, <2>1, RequestLeavesOwners
<1>2. CASE FillFails(c) \/ Acquire(c) \/ Done(c) \/ Log(c)
  <2>1. Still
    BY <1>0, <1>2 DEF FillFails, Acquire, Done, Log, Filling, OwnTypes, vars
  <2> QED BY <1>0, <2>1, RequestLeavesOwners
<1>3. CASE CallerInside(c) /\ UNCHANGED lsmVars
  <2>1. CASE \E e \in Entries : SetStore(c, e)
    BY <1>0, <1>3, <2>1, StoreOwners
  <2>2. CASE LoadHit(c) \/ LoadMiss(c) \/ GetRead(c) \/ GetExpired(c) \/ RemoveUnmap(c)
    <3>1. Still
      BY <1>0, <1>3, <2>2 DEF lsmVars, LoadHit, LoadMiss, GetRead, GetExpired, RemoveUnmap, AfterHit,
         AfterMiss, Filling, fields, TypeOK, Unlogged
    <3> QED BY <1>0, <3>1, RequestLeavesOwners
  <2>3. CASE RemoveReset(c)
    <3>1. \A d \in Clients : Filling(d, i)' => Filling(d, i)
      BY <1>0, <1>3, <2>3 DEF RemoveReset, Filling, lsmVars, OnlyMoves, TypeOK
    <3>2. \A e \in Entries : Storing(e, i)' => Storing(e, i)
      BY <1>0, <2>3, LSMConstantsOK, ConstantsOK DEF RemoveReset, Storing, worker, TypeOK
    <3>3. Expiring(i)' => Expiring(i)
      BY <1>0 DEF Expiring, worker
    <3> QED BY <1>0, <1>3, <3>1, <3>2, <3>3, OwnersKept DEF lsmVars
  <2> QED BY <1>0, <1>3, <2>1, <2>2, <2>3 DEF CallerInside, SwapExchange, Unlogged
<1>4. CASE Found(c)
  <2>1. Still
    BY <1>0, <1>4 DEF Found, GetReturn, Filling, fields, OwnTypes
  <2> QED BY <1>0, <2>1, RequestLeavesOwners
<1>5. CASE \E x \in Mems : NotFound(c, x)
  BY <1>0, <1>5, NotFoundOwners
<1>6. CASE \E ttl \in TTLs : Store(c, ttl)
  <2>1. Still
    BY <1>0, <1>6 DEF Store, Call, Filling, fields, OwnTypes, TypeOK
  <2> QED BY <1>0, <2>1, RequestLeavesOwners
<1>7. CASE Stored(c)
  <2>1. Still
    BY <1>0, <1>7 DEF Stored, SetSend, Filling, fields, OwnTypes, TypeOK
  <2> QED BY <1>0, <2>1, RequestLeavesOwners
<1>8. CASE Refreshed(c)
  <2>1. Still
    BY <1>0, <1>8 DEF Refreshed, RemoveMiss, RemoveExpire, Filling, fields, OwnTypes
  <2> QED BY <1>0, <2>1, RequestLeavesOwners
<1> QED BY <1>1, <1>2, <1>3, <1>4, <1>5, <1>6, <1>7, <1>8 DEF ClientStep

-----------------------------------------------------------------------------
(* Evictors.  What onEvictInternal does with an item that its caller has   *)
(* and nobody else.                                                        *)
LEMMA EvictOwners ==
  ASSUME LInv, NEW p \in Evictors, NEW x \in Items, Evicted(p, x), NEW i \in Items, InOnePlace(i),
         \A c \in Clients : Filling(c, i)' => Filling(c, i),
         \A e \in Entries : Storing(e, i)' => Storing(e, i),
         i # x => (Expiring(i)' => Expiring(i)) /\ (retried' = i => retried = i),
         i = x => /\ ~Expiring(i)' /\ retried' # i
                  /\ free[i] = 0 /\ ~Retrying(i)
                  /\ \A c \in Clients : ~Filling(c, i)
                  /\ \A e \in Entries : ~Storing(e, i)
  PROVE  InOnePlace(i)'
<1>0. OwnTypes /\ free[i] \in Nat /\ free[i] <= 1 /\ MaxCopies \in Nat \ {0} /\ Len(retryCh) \in Nat
  BY TypeParts, LSMConstantsOK DEF LInv, OwnTypes, InOnePlace
<1>1. CASE EvictPut(p, x)
  <2>1. /\ free'[i] = IF i = x THEN (IF free[i] < MaxCopies THEN free[i] + 1 ELSE free[i]) ELSE free[i]
        /\ UNCHANGED retryCh
    BY <1>0, <1>1 DEF EvictPut, OwnTypes
  <2>2. CASE i # x
    <3>1. Quiet(i)
      BY <1>0, <2>1, <2>2, ChannelKept DEF Quiet
    <3> QED BY <3>1, QuietKeeps
  <2>3. CASE i = x
    <3>1. free'[i] = 1 /\ ~Retrying(i)'
      BY <1>0, <2>1, <2>3, ChannelKept
    <3>2. \A j, l \in 1..Len(retryCh') : retryCh'[j] = i /\ retryCh'[l] = i => j = l
      BY <2>1, ChannelKept
    <3> QED BY <2>3, <3>1, <3>2 DEF InOnePlace
  <2> QED BY <2>2, <2>3
<1>2. CASE EvictBusy(p, x) /\ Len(retryCh) >= RetryCap
  <2>1. UNCHANGED <<free, retryCh>>
    BY <1>0, <1>2, LSMConstantsOK DEF EvictBusy, objects
  <2>2. (Expiring(i)' => Expiring(i)) /\ (retried' = i => retried = i)
    OBVIOUS
  <2>3. Quiet(i)
    BY <1>0, <2>1, <2>2, ChannelKept DEF Quiet
  <2> QED BY <2>3, QuietKeeps
<1>3. CASE EvictBusy(p, x) /\ Len(retryCh) < RetryCap
  <2>1. /\ UNCHANGED free
        /\ Len(retryCh') = Len(retryCh) + 1
        /\ \A j \in 1..Len(retryCh') : retryCh'[j] = IF j <= Len(retryCh) THEN retryCh[j] ELSE x
    BY <1>0, <1>3 DEF EvictBusy, objects, OwnTypes
  <2>2. CASE i # x
    <3>1. Retrying(i)' => Retrying(i)
      BY <1>0, <2>1, <2>2 DEF Retrying
    <3>2. \A j, l \in 1..Len(retryCh') : retryCh'[j] = i /\ retryCh'[l] = i => j = l
      BY <1>0, <2>1, <2>2 DEF InOnePlace
    <3>3. Quiet(i)
      BY <1>0, <2>1, <2>2, <3>1, <3>2 DEF Quiet
    <3> QED BY <3>3, QuietKeeps
  <2>3. CASE i = x
    <3>1. \A j, l \in 1..Len(retryCh') : retryCh'[j] = i /\ retryCh'[l] = i => j = l
      BY <1>0, <2>1, <2>3 DEF Retrying
    <3> QED BY <2>1, <2>3, <3>1 DEF InOnePlace
  <2> QED BY <2>2, <2>3
<1> QED BY <1>0, <1>1, <1>2, <1>3, LSMConstantsOK DEF Evicted

(* The worker evicts the value of the entry it has taken, which keeps it   *)
(* only in name until putEntry.                                            *)
LEMMA WorkerOwners ==
  ASSUME OInv, ~Logged, ExpirerStep, NEW i \in Items
  PROVE  InOnePlace(i)'
<1>0. TypeOK /\ OwnTypes /\ LInv /\ InOnePlace(i) /\ NoVal \notin Items
  BY TypeParts, LSMConstantsOK, ConstantsOK DEF OInv, LInv
<1>1. CASE WorkerEvicts
  <2>a. wpc = "evict" /\ wval \in Items
    BY <1>0, <1>1, LSMConstantsOK DEF WorkerEvicts, WorkerEvict, LInv, TypeOK
  <2>b. UNCHANGED <<pc, phase, item, val, went, wval, retried>>
    BY <1>1 DEF WorkerEvicts, EvictFree, WorkerEvict, Evicted, EvictPut, EvictBusy, fields, caller,
       vars, clients
  <2>1. UNCHANGED <<pc, phase, item, val, went, wval, retried>> /\ wpc = "evict" /\ wval \in Items
    BY <2>a, <2>b
  <2>2. \A c \in Clients : Filling(c, i)' => Filling(c, i)
    BY <2>1 DEF Filling
  <2>3. CASE EvictFree(Expirer, wval)
    <3>1. (\A e \in Entries : Storing(e, i)' => Storing(e, i)) /\ (Expiring(i)' => Expiring(i))
      BY <2>3 DEF EvictFree, Storing, Expiring, vars
    <3> QED BY <1>0, <2>2, <2>3, <3>1, OwnersKept DEF EvictFree, objects
  <2>4. CASE WorkerEvict /\ Evicted(Expirer, wval)
    <3>1. wpc' = "put" /\ \A e \in Entries : Storing(e, i)' => Storing(e, i)
      BY <2>1, <2>4 DEF WorkerEvict, Storing
    <3>2. free[i] \in Nat /\ Expirer \in Evictors
      BY <1>0, LSMConstantsOK DEF OwnTypes, Evictors
    <3>3. i = wval => Expiring(i)
      BY <2>1 DEF Expiring
    <3>4. i = wval => /\ free[i] = 0 /\ retried' # i /\ ~Retrying(i)
                      /\ \A c \in Clients : ~Filling(c, i)
                      /\ \A e \in Entries : ~Storing(e, i)
      BY <1>0, <2>1, <3>2, <3>3 DEF InOnePlace
    <3>5. ~Expiring(i)'
      BY <3>1 DEF Expiring
    <3> QED BY <1>0, <2>1, <2>2, <2>4, <3>1, <3>2, <3>4, <3>5, EvictOwners
  <2> QED BY <1>1, <2>3, <2>4 DEF WorkerEvicts
<1>2. CASE WorkerInside /\ UNCHANGED lsmVars
  <2>1. UNCHANGED <<pc, free, phase, item, retryCh, retried>> /\ \A c \in Clients : Filling(c, i)' => Filling(c, i)
    BY <1>2 DEF WorkerInside, SweepSkip, SweepTake, EndSweep, WorkerUnmap, WorkerValue, PutEntry,
       lsmVars, caller, Filling
  <2>2. CASE ~WorkerValue
    <3>1. \A e \in Entries : Storing(e, i)' => Storing(e, i)
      BY <1>0, <1>2, <2>2 DEF WorkerInside, SweepSkip, SweepTake, EndSweep, WorkerUnmap, PutEntry,
         Storing, fields, TypeOK
    <3>2. ~Expiring(i)'
      BY <1>2, <2>2 DEF WorkerInside, SweepSkip, SweepTake, EndSweep, WorkerUnmap, PutEntry, Expiring
    <3> QED BY <1>0, <2>1, <3>1, <3>2, OwnersKept
  <2>3. CASE WorkerValue
    <3>1. /\ wpc = "value" /\ went' = went /\ wval' = val[went] /\ val' = val /\ went \in Entries
          /\ wpc' = IF val[went] = NoVal THEN "put" ELSE "evict"
      BY <1>0, <2>3 DEF WorkerValue, fields, TypeOK
    <3>2. \A e \in Entries : Storing(e, i)' => Storing(e, i) /\ e # went
      BY <3>1 DEF Storing
    <3>3. CASE val[went] # i
      <4>1. ~Expiring(i)'
        BY <1>0, <3>1, <3>3 DEF Expiring
      <4> QED BY <1>0, <2>1, <3>2, <4>1, OwnersKept
    <3>4. CASE val[went] = i
      <4>1. Storing(went, i)
        BY <3>1, <3>4 DEF Storing
      <4>2. free[i] \in Nat
        BY <1>0, LSMConstantsOK DEF OwnTypes
      <4>3. /\ free[i] = 0 /\ retried # i /\ ~Retrying(i)
            /\ (\A c \in Clients : ~Filling(c, i)) /\ \A e \in Entries : Storing(e, i) => e = went
        BY <1>0, <3>1, <4>1, <4>2 DEF InOnePlace
      <4>4. /\ free'[i] = 0 /\ retried' # i /\ ~Retrying(i)'
            /\ (\A c \in Clients : ~Filling(c, i)') /\ \A e \in Entries : ~Storing(e, i)'
        BY <1>0, <2>1, <3>2, <4>3, ChannelKept
      <4>5. \A j, l \in 1..Len(retryCh') : retryCh'[j] = i /\ retryCh'[l] = i => j = l
        BY <1>0, <2>1, ChannelKept
      <4> QED BY <4>4, <4>5 DEF InOnePlace
    <3> QED BY <3>3, <3>4
  <2> QED BY <2>2, <2>3
<1> QED BY <1>1, <1>2 DEF ExpirerStep

(* The retry goroutine has in hand what it has taken from the channel.     *)
LEMMA RetryOwners ==
  ASSUME OInv, ~Logged, RetryStep, NEW i \in Items
  PROVE  InOnePlace(i)'
<1>0. OwnTypes /\ LInv /\ InOnePlace(i) /\ free[i] \in Nat /\ NoVal \notin Items
  BY TypeParts, LSMConstantsOK, ConstantsOK DEF OInv, LInv, OwnTypes
<1>1. UNCHANGED <<pc, phase, item, val, went, wpc, wval>>
  BY DEF RetryStep, RetryTake, RetryEvicts, EvictFree, Evicted, EvictPut, EvictBusy, vars, clients
<1>2. /\ \A c \in Clients : Filling(c, i)' <=> Filling(c, i)
      /\ \A e \in Entries : Storing(e, i)' <=> Storing(e, i)
      /\ Expiring(i)' <=> Expiring(i)
  BY <1>1 DEF Filling, Storing, Expiring
<1>3. CASE RetryTake
  <2> DEFINE x == Head(retryCh)
  <2>1. /\ Len(retryCh) \in Nat \ {0} /\ x = retryCh[1] /\ retried' = x /\ retried = NoVal
        /\ Len(retryCh') = Len(retryCh) - 1
        /\ \A j \in 1..Len(retryCh') : retryCh'[j] = retryCh[j + 1]
        /\ UNCHANGED free
    BY <1>0, <1>3 DEF RetryTake, OwnTypes, objects
  <2>2. \A j, l \in 1..Len(retryCh') : retryCh'[j] = i /\ retryCh'[l] = i => j = l
    <3>1. \A j \in 1..Len(retryCh') : j + 1 \in 1..Len(retryCh)
      BY <2>1
    <3>2. \A j, l \in 1..Len(retryCh) : retryCh[j] = i /\ retryCh[l] = i => j = l
      BY <1>0 DEF InOnePlace
    <3> TAKE j, l \in 1..Len(retryCh')
    <3> HAVE retryCh'[j] = i /\ retryCh'[l] = i
    <3>3. j + 1 = l + 1
      BY <2>1, <3>1, <3>2
    <3> QED BY <2>1, <3>3
  <2>3. CASE i # x
    <3>1. Retrying(i)' => Retrying(i)
      BY <2>1 DEF Retrying
    <3>2. Quiet(i)
      BY <1>0, <1>2, <2>1, <2>2, <2>3, <3>1 DEF Quiet
    <3> QED BY <1>0, <3>2, QuietKeeps
  <2>4. CASE i = x
    <3>1. 1 \in 1..Len(retryCh) /\ Retrying(i)
      BY <2>1, <2>4 DEF Retrying
    <3>2. ~Retrying(i)'
      <4> SUFFICES ASSUME NEW j \in 1..Len(retryCh'), retryCh'[j] = i PROVE FALSE
        BY DEF Retrying
      <4>1. j + 1 \in 1..Len(retryCh) /\ retryCh[j + 1] = i /\ retryCh[1] = i
        BY <2>1, <2>4
      <4> QED BY <1>0, <3>1, <4>1 DEF InOnePlace
    <3>3. /\ free[i] = 0 /\ ~Expiring(i)
          /\ \A c \in Clients : ~Filling(c, i)
          /\ \A e \in Entries : ~Storing(e, i)
      BY <1>0, <3>1 DEF InOnePlace
    <3> QED BY <1>2, <2>1, <2>2, <3>2, <3>3 DEF InOnePlace
  <2> QED BY <2>3, <2>4
<1>4. CASE RetryEvicts
  <2>1. retried \in Items /\ Retrier \in Evictors
    BY <1>0, <1>4 DEF RetryEvicts, OwnTypes, Evictors
  <2>2. CASE EvictFree(Retrier, retried)
    BY <1>0, <1>2, <2>2, OwnersKept DEF EvictFree, objects
  <2>3. CASE Evicted(Retrier, retried) /\ retried' = NoVal
    <3>1. i = retried => /\ free[i] = 0 /\ ~Expiring(i) /\ ~Retrying(i)
                         /\ \A c \in Clients : ~Filling(c, i)
                         /\ \A e \in Entries : ~Storing(e, i)
      BY <1>0 DEF InOnePlace
    <3>2. retried' # i
      BY <1>0, <2>3
    <3> QED BY <1>0, <1>2, <2>1, <2>3, <3>1, <3>2, EvictOwners
  <2> QED BY <1>4, <2>2, <2>3 DEF RetryEvicts
<1> QED BY <1>3, <1>4 DEF RetryStep

(* What the garbage collector frees, nobody has.                           *)
LEMMA CollectOwners ==
  ASSUME OInv, ~Logged, NEW x \in Items, Collect(x), NEW i \in Items
  PROVE  InOnePlace(i)'
<1>0. TypeOK /\ OwnTypes /\ LInv /\ InOnePlace(i)
  BY TypeParts DEF OInv, LInv
<1>1. /\ UNCHANGED <<pc, phase, item, val, went, wpc, wval, retried, retryCh>>
      /\ free'[i] = IF i = x THEN 1 ELSE free[i]
  BY <1>0 DEF Collect, vars, clients, eviction, OwnTypes
<1>2. /\ \A c \in Clients : Filling(c, i)' <=> Filling(c, i)
      /\ \A e \in Entries : Storing(e, i)' <=> Storing(e, i)
      /\ Expiring(i)' <=> Expiring(i)
  BY <1>1 DEF Filling, Storing, Expiring
<1>3. Retrying(i)' <=> Retrying(i)
  BY <1>0, <1>1, ChannelKept
<1>4. \A j, l \in 1..Len(retryCh') : retryCh'[j] = i /\ retryCh'[l] = i => j = l
  BY <1>0, <1>1, ChannelKept
<1>5. CASE i = x
  <2>1. /\ ~Expiring(i) /\ retried # i /\ ~Retrying(i)
        /\ \A c \in Clients : ~Filling(c, i)
        /\ \A e \in Entries : ~Storing(e, i)
    BY <1>5 DEF Collect, Named, Expiring, Retrying, Filling, Storing
  <2> QED BY <1>1, <1>2, <1>3, <1>4, <1>5, <2>1 DEF InOnePlace
<1>6. CASE i # x
  <2>1. free[i] \in Nat
    BY <1>0, LSMConstantsOK DEF OwnTypes
  <2>2. Quiet(i)
    BY <1>1, <1>2, <1>3, <1>4, <1>6, <2>1 DEF Quiet
  <2> QED BY <1>0, <2>2, QuietKeeps
<1> QED BY <1>5, <1>6

(* The steps that have no part in the items, and the log's reader, which   *)
(* has nothing to copy.                                                    *)
LEMMA ReaderIdle ==
  ASSUME OInv, ~Logged
  PROVE  ~ReaderStep
BY DEF OInv, Unlogged, ReaderStep, CallerInside, SetStore, LoadHit, LoadMiss, GetRead, GetExpired,
   SwapExchange, RemoveUnmap, RemoveReset, Transform, SwappedNew, SetSend, ReaderEvicts, SwapEvicted

LEMMA IdleOwners ==
  ASSUME LInv, UNCHANGED <<lsmVars, pc, val, went, wpc, wval>> \/
               ((WorkerRecv \/ StartSweep \/ \E e \in Entries : Expire(e)) /\ UNCHANGED lsmVars),
         NEW i \in Items, InOnePlace(i)
  PROVE  InOnePlace(i)'
<1>1. UNCHANGED <<free, phase, item, retryCh, retried, pc, val, went, wval>>
  BY DEF WorkerRecv, StartSweep, Expire, lsmVars, fields, caller, worker
<1>2. UNCHANGED wpc \/ (wpc = "select" /\ wpc' = "sweep")
  BY DEF WorkerRecv, StartSweep, Expire, worker
<1>3. /\ \A c \in Clients : Filling(c, i)' => Filling(c, i)
      /\ \A e \in Entries : Storing(e, i)' => Storing(e, i)
      /\ Expiring(i)' => Expiring(i)
  BY <1>1, <1>2 DEF Filling, Storing, Expiring
<1> QED BY <1>1, <1>3, OwnersKept

(* Nobody but a request or the reader moves one of the callers on.         *)
LEMMA OthersUnlogged ==
  ASSUME Unlogged, UNCHANGED <<pc, req, phase, item, logCh>>
  PROVE  Unlogged'
BY DEF Unlogged

LEMMA OInvInductive ==
  ASSUME OInv, [LSMNext]_allVars
  PROVE  OInv'
<1>0. LInv /\ LInv'
  BY LInvInductive DEF OInv
<1>1. SUFFICES ASSUME ~Logged PROVE Unlogged' /\ \A i \in Items : InOnePlace(i)'
  BY <1>0 DEF OInv
<1>2. Unlogged /\ \A i \in Items : InOnePlace(i)
  BY <1>1 DEF OInv
<1>3. CASE \E c \in Clients : Arrive(c) \/ ClientStep(c) \/ FillFails(c)
  BY <1>1, <1>3, ClientUnlogged, ClientOwners
<1>4. CASE (WorkerRecv \/ StartSweep \/ \E e \in Entries : Expire(e)) /\ UNCHANGED lsmVars
  <2>1. UNCHANGED <<pc, req, phase, item, logCh>>
    BY <1>4 DEF WorkerRecv, StartSweep, Expire, lsmVars, caller
  <2> QED BY <1>0, <1>2, <1>4, <2>1, OthersUnlogged, IdleOwners
<1>5. CASE ExpirerStep
  <2>1. UNCHANGED <<pc, req, phase, item, logCh>>
    BY <1>5 DEF ExpirerStep, WorkerInside, WorkerEvicts, EvictFree, WorkerEvict, Evicted, EvictPut,
       EvictBusy, SweepSkip, SweepTake, EndSweep, WorkerUnmap, WorkerValue, PutEntry, lsmVars, vars,
       caller, clients
  <2> QED BY <1>1, <1>2, <1>5, <2>1, OthersUnlogged, WorkerOwners
<1>6. CASE RetryStep
  <2>1. UNCHANGED <<pc, req, phase, item, logCh>>
    BY <1>6 DEF RetryStep, RetryTake, RetryEvicts, EvictFree, Evicted, EvictPut, EvictBusy, vars, clients
  <2> QED BY <1>1, <1>2, <1>6, <2>1, OthersUnlogged, RetryOwners
<1>7. CASE \E x \in Items : Collect(x)
  <2>1. UNCHANGED <<pc, req, phase, item, logCh>>
    BY <1>7 DEF Collect, vars, clients
  <2> QED BY <1>1, <1>2, <1>7, <2>1, OthersUnlogged, CollectOwners
<1>8. CASE UNCHANGED allVars
  <2>1. UNCHANGED <<lsmVars, pc, req, val, went, wpc, wval>>
    BY <1>8 DEF allVars, vars
  <2>2. UNCHANGED <<phase, item, logCh>>
    BY <2>1 DEF lsmVars
  <2> QED BY <1>0, <1>2, <2>1, <2>2, OthersUnlogged, IdleOwners
<1> QED BY <1>1, <1>3, <1>4, <1>5, <1>6, <1>7, <1>8, ReaderIdle DEF LSMNext

(* Without the value log an item is in one place at a time, and there      *)
(* once: the pool never hands out what a request fills, an entry stores or *)
(* an eviction has in hand or waits to try again.                          *)
THEOREM ItemsOwned == LSMSpec => []ItemsOwnedOnce
<1>1. LSMInit => OInv
  <2> SUFFICES ASSUME LSMInit PROVE OInv
    OBVIOUS
  <2>1. LInv
    BY InitTypes, LSMConstantsOK DEF LSMInit, Init, LInv, LSMTypeOK
  <2>2. Unlogged
    BY LSMConstantsOK DEF LSMInit, Init, Unlogged, Clients
  <2>3. NoVal \notin Items
    BY LSMConstantsOK, ConstantsOK
  <2>4. \A i \in Items : InOnePlace(i)
    BY <2>3 DEF LSMInit, Init, InOnePlace, Filling, Storing, Expiring, Retrying
  <2> QED BY <2>1, <2>2, <2>4 DEF OInv
<1>2. OInv => ItemsOwnedOnce
  BY DEF OInv, ItemsOwnedOnce
<1> QED BY <1>1, <1>2, OInvInductive, PTL DEF LSMSpec
=============================================================================
