--------------------------------- MODULE LSM ---------------------------------
(***************************************************************************)
(* lsm: the cache on top of the store of KVSM.  The values are items: an   *)
(* ItemMem is filled by the request that missed, stored, and queued for    *)
(* the value log; the log's reader goroutine copies it to a file and swaps *)
(* in an ItemDisk.  Values that leave the store go back to a pool, unless  *)
(* the counter inUse says that a request still reads them: then a retry    *)
(* goroutine tries again.                                                  *)
(*                                                                         *)
(* The goroutines of KVSM are kept: requests and the log's reader are its  *)
(* callers, and its worker runs onEvictInternal.  An item's content is     *)
(* abstracted to the key it was made for (Key0, the zero of uint64, once   *)
(* putItem has reset it).                                                  *)
(***************************************************************************)
EXTENDS KVSM

CONSTANTS
  Mems, Disks,    \* the *ItemMem and the *ItemDisk objects
  Reader,         \* the goroutine vlog.reader
  Retrier,        \* the goroutine retryEviction
  Expirer,        \* the goroutine workerExpiration
  Key0,           \* key 0, which no request asks for
  Logged,         \* whether ttl > MinLSMTTL
  Refreshes,      \* whether requests ask for a refresh
  LogCap, RetryCap,   \* capacities of the value log's channel and retryEvictionCh
  MaxCopies       \* bound: the pool keeps no more copies of an item

Items     == Mems \cup Disks
Clients   == Callers \ {Reader}
Evictors  == {Reader, Retrier, Expirer}

ASSUME LSMConstantsOK ==
  /\ Values = Items /\ Pairs = Keys \X Values /\ Ops = AllOps /\ Mems \cap Disks = {}
  /\ Reader \in Callers /\ Retrier \notin Callers /\ Expirer \notin Callers
  /\ Key0 \in Keys
  /\ Logged \in BOOLEAN /\ Refreshes \in BOOLEAN
  /\ LogCap \in Nat \ {0} /\ RetryCap \in Nat \ {0} /\ MaxCopies \in Nat \ {0}

VARIABLES
  free,           \* item -> how often it is in its sync.Pool; 1 if not allocated
  ikey, inUse,    \* fields of the items
  phase, item,    \* per client: where it is and the item it fills or reads
  logCh,          \* the channel of the log's reader
  retryCh,        \* retryEvictionCh
  retried,        \* what the retry goroutine has in hand
  putting,        \* per evictor: inUse was 0 and putItem is next
  purged          \* history: keys deleted and not asked from the backend since

objects  == <<free, ikey, inUse>>
clients  == <<phase, item, purged>>
eviction == <<retryCh, retried, putting>>
lsmVars  == <<free, ikey, inUse, phase, item, logCh, retryCh, retried, putting, purged>>
allVars  == <<vars, lsmVars>>

LSMInit ==
  /\ Init
  /\ free = [i \in Items |-> 1]
  /\ ikey = [i \in Items |-> Key0]
  /\ inUse = [i \in Items |-> 0]
  /\ phase = [c \in Clients |-> "idle"]
  /\ item = [c \in Clients |-> NoVal]
  /\ logCh = <<>>
  /\ retryCh = <<>>
  /\ retried = NoVal
  /\ putting = [p \in Evictors |-> FALSE]
  /\ purged = {}

At(c, label, i) ==
  /\ phase' = [phase EXCEPT ![c] = label]
  /\ item' = [item EXCEPT ![c] = i]

-----------------------------------------------------------------------------
(* A request: respondFromCache, and on a miss reverseProxy, modifyResponse *)
(* and LSM.Set.                                                            *)

Lookup(c, k) ==
  /\ phase[c] = "idle"
  /\ Call(c, "get", k, NoVal, 0)
  /\ At(c, "get", NoVal)
  /\ UNCHANGED <<objects, logCh, eviction, purged>>

FoundAny(c) ==          \* mutant: a reset value counts as an item
  /\ phase[c] = "get"
  /\ GetReturn(c)
  /\ At(c, "found", got[c].v)
  /\ UNCHANGED <<objects, logCh, eviction, purged>>

(* LSM.Get: the value has been read, inUse not yet incremented.            *)
Found(c) ==
  /\ phase[c] = "get"
  /\ GetReturn(c)
  /\ got[c].v # NoVal
  /\ At(c, "found", got[c].v)
  /\ UNCHANGED <<objects, logCh, eviction, purged>>

Acquire(c) ==
  /\ phase[c] = "found"
  /\ inUse' = [inUse EXCEPT ![item[c]] = @ + 1]
  /\ At(c, "read", item[c])
  /\ UNCHANGED <<vars, free, ikey, logCh, eviction, purged>>

(* item.Done(), after the response is written.                             *)
Done(c) ==
  /\ phase[c] = "read"
  /\ inUse' = [inUse EXCEPT ![item[c]] = @ - 1]
  /\ At(c, "idle", NoVal)
  /\ UNCHANGED <<vars, free, ikey, logCh, eviction, purged>>

(* Not found, or found without a value.  The client keeps phase "fill"     *)
(* while the backend's response is copied into the new item.               *)
NotFound(c, i) ==
  /\ phase[c] = "get"
  /\ GetReturn(c)
  /\ got[c].v = NoVal
  /\ free[i] > 0
  /\ free' = [free EXCEPT ![i] = @ - 1]
  /\ ikey' = [ikey EXCEPT ![i] = req[c].k]
  /\ At(c, "fill", i)
  /\ purged' = purged \ {req[c].k}
  /\ UNCHANGED <<inUse, logCh, eviction>>

(* modifyResponse fails: the item is dropped.                              *)
FillFails(c) ==
  /\ phase[c] = "fill"
  /\ At(c, "idle", NoVal)
  /\ UNCHANGED <<vars, objects, logCh, eviction, purged>>

Store(c, ttl) ==
  /\ phase[c] = "fill"
  /\ Call(c, "set", ikey[item[c]], item[c], ttl)
  /\ At(c, "set", item[c])
  /\ UNCHANGED <<objects, logCh, eviction, purged>>

StoredAnyway(c) ==      \* mutant: a full channel does not hold the request up
  /\ phase[c] = "set" /\ pc[c] = "send"
  /\ Leave(c)
  /\ At(c, "idle", NoVal)
  /\ UNCHANGED <<store, pool, fields, addLLCh, worker, objects, logCh, eviction, purged>>

Stored(c) ==
  /\ phase[c] = "set"
  /\ SetSend(c)
  /\ IF Logged THEN At(c, "log", item[c]) ELSE At(c, "idle", NoVal)
  /\ UNCHANGED <<objects, logCh, eviction, purged>>

(* VLog.Set.                                                               *)
Log(c) ==
  /\ phase[c] = "log"
  /\ Len(logCh) < LogCap
  /\ logCh' = Append(logCh, item[c])
  /\ At(c, "idle", NoVal)
  /\ UNCHANGED <<vars, objects, eviction, purged>>

(* A refresh: LSM.Delete; the rest of the request passes the cache by.     *)
Refresh(c, k) ==
  /\ Refreshes
  /\ phase[c] = "idle"
  /\ Call(c, "remove", k, NoVal, 0)
  /\ At(c, "delete", NoVal)
  /\ UNCHANGED <<objects, logCh, eviction, purged>>

Fetching(k) == \E d \in Clients : phase[d] \in {"fill", "set", "log"} /\ ikey[item[d]] = k

Refreshed(c) ==
  /\ phase[c] = "delete"
  /\ RemoveMiss(c) \/ RemoveExpire(c)
  /\ At(c, "idle", NoVal)
  /\ purged' = IF Fetching(req[c].k) THEN purged ELSE purged \cup {req[c].k}
  /\ UNCHANGED <<objects, logCh, eviction>>

-----------------------------------------------------------------------------
(* The log's reader: transform copies the item, afterWrite swaps it in.    *)
(* The queue does not count as a use of the item.                          *)

Transform(d, ttl) ==
  LET i == Head(logCh) IN
  /\ logCh # <<>>
  /\ logCh' = Tail(logCh)
  /\ free[d] > 0
  /\ free' = [free EXCEPT ![d] = @ - 1]
  /\ ikey' = [ikey EXCEPT ![d] = ikey[i]]
  /\ Call(Reader, "swap", ikey[i], d, ttl)
  /\ UNCHANGED <<inUse, clients, eviction>>

SwappedNew ==
  /\ SetSend(Reader)
  /\ UNCHANGED lsmVars

-----------------------------------------------------------------------------
(* onEvictInternal, by whoever evicts: x is the value, finish the rest of  *)
(* the caller's step.                                                      *)

EvictFree(p, x) ==
  /\ ~putting[p] /\ inUse[x] = 0
  /\ putting' = [putting EXCEPT ![p] = TRUE]
  /\ UNCHANGED <<vars, objects, clients, logCh, retryCh, retried>>

EvictPut(p, x) ==
  /\ putting[p]
  /\ putting' = [putting EXCEPT ![p] = FALSE]
  /\ free' = [free EXCEPT ![x] = IF @ < MaxCopies THEN @ + 1 ELSE @]
  /\ ikey' = [ikey EXCEPT ![x] = Key0]
  /\ inUse' = [inUse EXCEPT ![x] = 0]
  /\ UNCHANGED <<clients, logCh, retryCh>>

EvictWaits(p, x) ==     \* mutant: the send to the retry goroutine blocks
  /\ ~putting[p] /\ inUse[x] # 0
  /\ Len(retryCh) < RetryCap
  /\ retryCh' = Append(retryCh, x)
  /\ UNCHANGED <<objects, clients, logCh, putting>>

EvictBusy(p, x) ==
  /\ ~putting[p] /\ inUse[x] # 0
  /\ retryCh' = IF Len(retryCh) < RetryCap THEN Append(retryCh, x) ELSE retryCh
  /\ UNCHANGED <<objects, clients, logCh, putting>>

Evicted(p, x) == EvictPut(p, x) \/ EvictBusy(p, x)

WorkerEvicts ==
  \/ wpc = "evict" /\ EvictFree(Expirer, wval)
  \/ WorkerEvict /\ Evicted(Expirer, wval) /\ UNCHANGED retried

(* SwapValue may have returned the nil of an entry that was reset.         *)
ReaderEvicts ==
  LET x == got[Reader].v IN
  \/ pc[Reader] = "evicted" /\ x # NoVal /\ EvictFree(Reader, x)
  \/ SwapEvicted(Reader) /\ x # NoVal /\ Evicted(Reader, x) /\ UNCHANGED retried
  \/ SwapEvicted(Reader) /\ x = NoVal /\ UNCHANGED lsmVars

RetryTakeKeeps ==         \* mutant: what is tried again stays in the channel
  /\ retried = NoVal /\ retryCh # <<>>
  /\ retried' = Head(retryCh)
  /\ UNCHANGED <<vars, objects, clients, logCh, retryCh, putting>>

RetryTake ==
  /\ retried = NoVal /\ retryCh # <<>>
  /\ retried' = Head(retryCh)
  /\ retryCh' = Tail(retryCh)
  /\ UNCHANGED <<vars, objects, clients, logCh, putting>>

RetryEvicts ==
  /\ retried # NoVal
  /\ \/ EvictFree(Retrier, retried)
     \/ Evicted(Retrier, retried) /\ retried' = NoVal /\ UNCHANGED vars

(* The garbage collector: an item nobody names can be allocated again.     *)
Named(i) ==
  \/ free[i] > 0
  \/ \E e \in Entries : val[e] = i
  \/ \E c \in Clients : item[c] = i
  \/ \E c \in Callers : got[c].v = i \/ req[c].v = i
  \/ wval = i \/ retried = i
  \/ \E j \in 1..Len(logCh) : logCh[j] = i
  \/ \E j \in 1..Len(retryCh) : retryCh[j] = i

Collect(i) ==
  /\ ~Named(i)
  /\ free' = [free EXCEPT ![i] = 1]
  /\ ikey' = [ikey EXCEPT ![i] = Key0]
  /\ inUse' = [inUse EXCEPT ![i] = 0]
  /\ UNCHANGED <<vars, clients, logCh, eviction>>

-----------------------------------------------------------------------------
(* The steps of KVSM that LSM has no part in.                              *)
CallerInside(c) ==
  \/ \E e \in Entries : SetStore(c, e)
  \/ LoadHit(c) \/ LoadMiss(c) \/ GetRead(c) \/ GetExpired(c)
  \/ SwapExchange(c) \/ RemoveUnmap(c) \/ RemoveReset(c)

WorkerInside ==
  \/ \E t \in todo : SweepSkip(t) \/ SweepTake(t)
  \/ EndSweep \/ WorkerUnmap \/ WorkerValue \/ PutEntry

ClientStep(c) ==
  \/ CallerInside(c) /\ UNCHANGED lsmVars
  \/ Found(c) \/ Acquire(c) \/ Done(c)
  \/ \E i \in Mems : NotFound(c, i)
  \/ \E ttl \in TTLs : Store(c, ttl)
  \/ Stored(c) \/ Log(c) \/ Refreshed(c)

ReaderStep ==
  \/ CallerInside(Reader) /\ UNCHANGED lsmVars
  \/ \E d \in Disks, ttl \in TTLs : Transform(d, ttl)
  \/ SwappedNew \/ ReaderEvicts

ExpirerStep == (WorkerInside /\ UNCHANGED lsmVars) \/ WorkerEvicts

RetryStep == RetryTake \/ RetryEvicts

Arrive(c) == \E k \in Keys \ {Key0} : Lookup(c, k) \/ Refresh(c, k)

LSMNext ==
  \/ \E c \in Clients : Arrive(c) \/ ClientStep(c) \/ FillFails(c)
  \/ ReaderStep
  \/ (WorkerRecv \/ StartSweep) /\ UNCHANGED lsmVars
  \/ ExpirerStep
  \/ RetryStep
  \/ \E e \in Entries : Expire(e) /\ UNCHANGED lsmVars
  \/ \E i \in Items : Collect(i)

LSMSpec == LSMInit /\ [][LSMNext]_allVars

(* As in KVSM; the log's channel serves its blocked senders in order too,  *)
(* and a Set does not wait long for an entry (the code allocates one).     *)
LSMFairness ==
  /\ \A c \in Clients : WF_allVars(ClientStep(c)) /\ SF_allVars(Stored(c)) /\ SF_allVars(Log(c))
  /\ \A c \in Callers : SF_allVars((\E e \in Entries : SetStore(c, e)) /\ UNCHANGED lsmVars)
  /\ WF_allVars(ReaderStep) /\ SF_allVars(SwappedNew)
  /\ SF_allVars(WorkerRecv /\ UNCHANGED lsmVars)
  /\ WF_allVars(StartSweep /\ UNCHANGED lsmVars)
  /\ WF_allVars(ExpirerStep)
  /\ WF_allVars(RetryStep)
  /\ \A e \in Entries : WF_allVars(Expire(e) /\ UNCHANGED lsmVars)
  /\ \A i \in Items : WF_allVars(Collect(i))

FairLSMSpec == LSMSpec /\ LSMFairness

-----------------------------------------------------------------------------
(* Types; a request past its lookup has an item, and retryEvictionCh keeps *)
(* to its capacity.                                                        *)
LSMTypeOK ==
  /\ TypeOK
  /\ free \in [Items -> 0..MaxCopies]
  /\ ikey \in [Items -> Keys]
  /\ inUse \in [Items -> Int]
  /\ phase \in [Clients -> {"idle", "get", "found", "read", "fill", "set", "log", "delete"}]
  /\ item \in [Clients -> Items \cup {NoVal}]
  /\ logCh \in Seq(Mems)
  /\ retryCh \in Seq(Items) /\ Len(retryCh) <= RetryCap
  /\ retried \in Items \cup {NoVal}
  /\ putting \in [Evictors -> BOOLEAN]
  /\ purged \subseteq Keys
  /\ \A c \in Clients : phase[c] \in {"found", "read"} => item[c] \in Items
  /\ \A c \in Clients : phase[c] \in {"fill", "set", "log"} => item[c] \in Mems

(* The cache drives the store only through its methods and its callback.   *)
StoreSpec == Spec

(* The callback never holds up the worker, nor a retry the retry           *)
(* goroutine, however full retryEvictionCh is: the one drains the channel  *)
(* on which every Set waits, the other the one it would send to.           *)
NeverHeldUp ==
  /\ wpc # "select" => ENABLED ExpirerStep
  /\ retried # NoVal => ENABLED RetryStep

(* A request that has its item, or only deletes, ends: Set returns although *)
(* the channel is bounded, and the worker that drains it also sweeps and   *)
(* evicts.  (A request that misses waits for one of the model's few items; *)
(* NewItem allocates.)                                                     *)
RequestEnds ==
  \A c \in Clients : phase[c] \notin {"idle", "get"} ~> phase[c] = "idle"

(* Who may write to an item: the pool, the request that fills it, the      *)
(* entry that stores it, who evicts it, or the channel of the retries.     *)
Filling(c, i)  == item[c] = i /\ (phase[c] = "fill" \/ (phase[c] = "set" /\ pc[c] = "set"))
Storing(e, i)  == val[e] = i /\ ~(went = e /\ wpc \in {"evict", "put"})
Expiring(i)    == wpc = "evict" /\ wval = i
Retrying(i)    == \E j \in 1..Len(retryCh) : retryCh[j] = i

InOnePlace(i) ==
  /\ free[i] <= 1
  /\ free[i] > 0 =>
       /\ \A c \in Clients : ~Filling(c, i)
       /\ \A e \in Entries : ~Storing(e, i)
       /\ ~Expiring(i) /\ retried # i /\ ~Retrying(i)
  /\ \A c \in Clients : Filling(c, i) =>
       /\ \A d \in Clients : Filling(d, i) => d = c
       /\ \A e \in Entries : ~Storing(e, i)
       /\ ~Expiring(i) /\ retried # i /\ ~Retrying(i)
  /\ \A e \in Entries : Storing(e, i) =>
       /\ \A f \in Entries : Storing(f, i) => f = e
       /\ ~Expiring(i) /\ retried # i /\ ~Retrying(i)
  /\ Expiring(i) => retried # i /\ ~Retrying(i)
  /\ retried = i => ~Retrying(i)
  /\ \A j, l \in 1..Len(retryCh) : retryCh[j] = i /\ retryCh[l] = i => j = l

(* As long as nothing goes to the value log, an item has one owner and is  *)
(* in one place of it: what is in the pool is nowhere else, two requests   *)
(* never fill the same item, and none is evicted twice or while it is      *)
(* stored, however often an eviction has to be tried again.  With the log  *)
(* it is not so: Swap and the worker may evict the same value.             *)
ItemsOwnedOnce == ~Logged => \A i \in Items : InOnePlace(i)

(* itemMem.go:31-32, itemDisk.go:62-63: an item is not sent back to the    *)
(* pool before the request that reads it has called Done.                  *)
ReadersProtected ==
  \A c \in Clients : phase[c] = "read" => free[item[c]] = 0

(* cacherules/req.go:33: a refresh removes the response from the cache; it *)
(* is not found again until the backend is asked again.                    *)
DeletedStaysDeleted ==
  \A k \in purged : items[k] # NoEntry => val[items[k]] = NoVal
=============================================================================
