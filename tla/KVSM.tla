-------------------------------- MODULE KVSM --------------------------------
(***************************************************************************)
(* lsm/kvsm: the in-memory key-value store with expiration.  Callers run   *)
(* Set, Get, Swap and RemoveByKey concurrently on a sync.Map; one worker   *)
(* goroutine files new entries in one list per TTL and sweeps the heads of *)
(* the lists every second.  Entries come from a sync.Pool and go back to   *)
(* it, while a caller may still hold the pointer it loaded from the map.   *)
(*                                                                         *)
(* One action is the code up to the next access that another goroutine can *)
(* observe, or that does not commute with what others do: the writes of    *)
(* Set and putEntry to one entry are one step, since a caller that holds   *)
(* the entry reads or writes one field at a time.  expireAt is abstracted  *)
(* to whether it has passed.  A list is a sequence: the worker uses the    *)
(* lists as FifoQueues has it (ListsAreQueues below), and LinkedListTTL,   *)
(* so used, implements FifoQueues.                                         *)
(***************************************************************************)
EXTENDS Integers, Sequences, FiniteSets

CONSTANTS
  Keys, Entries, Values,
  Pairs,          \* the pairs of key and value that callers store
  Callers,        \* goroutines that call the exported methods
  Ops,            \* the methods they call
  TTLs,           \* the ttl arguments, in milliseconds
  ChanCap,        \* capacity of addLLCh (actionsBuffer)
  NoEntry, NoVal, NoKey

AllOps == {"set", "get", "swap", "remove"}

ASSUME ConstantsOK ==
  /\ IsFiniteSet(Entries) /\ NoEntry \notin Entries
  /\ NoVal \notin Values /\ NoKey \notin Keys
  /\ Pairs \subseteq Keys \X Values
  /\ Ops \subseteq AllOps
  /\ TTLs \subseteq Nat
  /\ ChanCap \in Nat \ {0}

VARIABLES
  items,          \* sync.Map: key -> entry
  pool,           \* entries in entryPool, or not allocated yet
  key, val, expired,  \* fields of the entries
  n, addLLCh, lists,  \* kv.n, kv.addLLCh, kv.listTTL
  pc, req, ent, got,  \* per caller: control, arguments, entry held, result
  wpc, todo, went, wval   \* the worker: control, TTLs to sweep, entry, value

store   == <<items, n, lists>>
fields  == <<key, val, expired>>
caller  == <<pc, req, ent, got>>
worker  == <<wpc, todo, went, wval>>
vars    == <<items, pool, key, val, expired, n, addLLCh, lists,
             pc, req, ent, got, wpc, todo, went, wval>>

NoReq == [op |-> "none", k |-> NoKey, v |-> NoVal, ttl |-> 0]
Miss  == [ok |-> FALSE, expired |-> TRUE, v |-> NoVal]

(* The list an entry is filed in, and the list a sweep looks for when it   *)
(* finds a key t: time.Duration(t.Seconds()) * time.Second.                *)
NormalNot(t) == t           \* mutant: short TTLs are not lifted to a second
Normal(t)   == IF t < 1000 THEN 1000 ELSE t
Truncate(t) == (t \div 1000) * 1000
ListTTLs    == {Normal(t) : t \in TTLs}

List(t) == IF t \in DOMAIN lists THEN lists[t] ELSE <<>>

Init ==
  /\ items = [k \in Keys |-> NoEntry]
  /\ pool = Entries
  /\ key = [e \in Entries |-> NoKey]
  /\ val = [e \in Entries |-> NoVal]
  /\ expired = [e \in Entries |-> TRUE]
  /\ n = 0
  /\ addLLCh = <<>>
  /\ lists = [t \in {} |-> <<>>]
  /\ pc = [c \in Callers |-> "idle"]
  /\ req = [c \in Callers |-> NoReq]
  /\ ent = [c \in Callers |-> NoEntry]
  /\ got = [c \in Callers |-> Miss]
  /\ wpc = "select"
  /\ todo = {}
  /\ went = NoEntry
  /\ wval = NoVal

Goto(c, label) == pc' = [pc EXCEPT ![c] = label]

-----------------------------------------------------------------------------
(* Callers                                                                 *)

Call(c, op, k, v, ttl) ==
  /\ pc[c] = "idle"
  /\ Goto(c, op)
  /\ req' = [req EXCEPT ![c] = [op |-> op, k |-> k, v |-> v, ttl |-> ttl]]
  /\ UNCHANGED <<store, pool, fields, addLLCh, ent, got, worker>>

Leave(c) ==
  /\ Goto(c, "idle")
  /\ req' = [req EXCEPT ![c] = NoReq]
  /\ ent' = [ent EXCEPT ![c] = NoEntry]
  /\ got' = [got EXCEPT ![c] = Miss]

(* Set, up to the send.                                                    *)
SetStore(c, e) ==
  /\ pc[c] = "set"
  /\ e \in pool
  /\ pool' = pool \ {e}
  /\ key' = [key EXCEPT ![e] = req[c].k]
  /\ val' = [val EXCEPT ![e] = req[c].v]
  /\ expired' = [expired EXCEPT ![e] = FALSE]
  /\ items' = [items EXCEPT ![req[c].k] = e]
  /\ n' = n + 1
  /\ ent' = [ent EXCEPT ![c] = e]
  /\ Goto(c, "send")
  /\ UNCHANGED <<addLLCh, lists, req, got, worker>>

SetSend(c) ==
  /\ pc[c] = "send"
  /\ Len(addLLCh) < ChanCap
  /\ addLLCh' = Append(addLLCh, [ttl |-> req[c].ttl, entry |-> ent[c]])
  /\ Leave(c)
  /\ UNCHANGED <<store, pool, fields, worker>>

(* kv.items.Load of Get, Swap and RemoveByKey, and where each goes on.     *)
AfterHit == [get |-> "read", swap |-> "exchange", remove |-> "unmap"]

LoadAny(c) ==               \* mutant: the ok of Load is ignored
  /\ pc[c] \in {"get", "swap", "remove"}
  /\ ent' = [ent EXCEPT ![c] = items[req[c].k]]
  /\ Goto(c, AfterHit[pc[c]])
  /\ UNCHANGED <<store, pool, fields, addLLCh, req, got, worker>>

LoadHit(c) ==
  /\ pc[c] \in {"get", "swap", "remove"}
  /\ items[req[c].k] # NoEntry
  /\ ent' = [ent EXCEPT ![c] = items[req[c].k]]
  /\ Goto(c, AfterHit[pc[c]])
  /\ UNCHANGED <<store, pool, fields, addLLCh, req, got, worker>>

AfterMiss == [get |-> "ret", swap |-> "set"]

LoadMiss(c) ==
  /\ pc[c] \in {"get", "swap"}
  /\ items[req[c].k] = NoEntry
  /\ Goto(c, AfterMiss[pc[c]])
  /\ UNCHANGED <<store, pool, fields, addLLCh, req, ent, got, worker>>

RemoveMiss(c) ==
  /\ pc[c] = "remove"
  /\ items[req[c].k] = NoEntry
  /\ Leave(c)
  /\ UNCHANGED <<store, pool, fields, addLLCh, worker>>

GetRead(c) ==
  /\ pc[c] = "read"
  /\ got' = [got EXCEPT ![c] = [ok |-> TRUE, expired |-> TRUE, v |-> val[ent[c]]]]
  /\ Goto(c, "check")
  /\ UNCHANGED <<store, pool, fields, addLLCh, req, ent, worker>>

GetExpired(c) ==
  /\ pc[c] = "check"
  /\ got' = [got EXCEPT ![c].expired = expired[ent[c]]]
  /\ Goto(c, "ret")
  /\ UNCHANGED <<store, pool, fields, addLLCh, req, ent, worker>>

GetReturn(c) ==
  /\ pc[c] = "ret"
  /\ Leave(c)
  /\ UNCHANGED <<store, pool, fields, addLLCh, worker>>

(* SwapValue; the old value then goes to onEvicted.                        *)
SwapExchange(c) ==
  /\ pc[c] = "exchange"
  /\ val' = [val EXCEPT ![ent[c]] = req[c].v]
  /\ got' = [got EXCEPT ![c].v = val[ent[c]]]
  /\ Goto(c, "evicted")
  /\ UNCHANGED <<store, pool, key, expired, addLLCh, req, ent, worker>>

SwapEvicted(c) ==
  /\ pc[c] = "evicted"
  /\ Leave(c)
  /\ UNCHANGED <<store, pool, fields, addLLCh, worker>>

RemoveUnmapCounted(c) ==    \* mutant: n follows the map instead of the lists
  /\ pc[c] = "unmap"
  /\ items' = [items EXCEPT ![req[c].k] = NoEntry]
  /\ n' = n - 1
  /\ Goto(c, "reset")
  /\ UNCHANGED <<lists, pool, fields, addLLCh, req, ent, got, worker>>

RemoveUnmap(c) ==
  /\ pc[c] = "unmap"
  /\ items' = [items EXCEPT ![req[c].k] = NoEntry]
  /\ Goto(c, "reset")
  /\ UNCHANGED <<n, lists, pool, fields, addLLCh, req, ent, got, worker>>

RemoveReset(c) ==
  /\ pc[c] = "reset"
  /\ val' = [val EXCEPT ![ent[c]] = NoVal]
  /\ Goto(c, "expire")
  /\ UNCHANGED <<store, pool, key, expired, addLLCh, req, ent, got, worker>>

RemoveRecycle(c) ==         \* mutant: RemoveByKey ends in putEntry
  /\ pc[c] = "expire"
  /\ expired' = [expired EXCEPT ![ent[c]] = TRUE]
  /\ pool' = pool \cup {ent[c]}
  /\ Leave(c)
  /\ UNCHANGED <<store, key, val, addLLCh, worker>>

RemoveExpire(c) ==
  /\ pc[c] = "expire"
  /\ expired' = [expired EXCEPT ![ent[c]] = TRUE]
  /\ Leave(c)
  /\ UNCHANGED <<store, pool, key, val, addLLCh, worker>>

Step(c) ==
  \/ \E e \in Entries : SetStore(c, e)
  \/ SetSend(c)
  \/ LoadHit(c) \/ LoadMiss(c) \/ RemoveMiss(c)
  \/ GetRead(c) \/ GetExpired(c) \/ GetReturn(c)
  \/ SwapExchange(c) \/ SwapEvicted(c)
  \/ RemoveUnmap(c) \/ RemoveReset(c) \/ RemoveExpire(c)

-----------------------------------------------------------------------------
(* workerExpiration                                                        *)

RecvFresh ==                \* mutant: every message starts a new list
  /\ wpc = "select"
  /\ addLLCh # <<>>
  /\ LET t == Normal(Head(addLLCh).ttl) IN
       lists' = [u \in DOMAIN lists \cup {t} |->
                   IF u = t THEN <<Head(addLLCh).entry>> ELSE lists[u]]
  /\ addLLCh' = Tail(addLLCh)
  /\ UNCHANGED <<items, n, pool, fields, caller, worker>>

WorkerRecv ==
  /\ wpc = "select"
  /\ addLLCh # <<>>
  /\ LET t == Normal(Head(addLLCh).ttl) IN
       lists' = [u \in DOMAIN lists \cup {t} |->
                   IF u = t THEN Append(List(t), Head(addLLCh).entry) ELSE lists[u]]
  /\ addLLCh' = Tail(addLLCh)
  /\ UNCHANGED <<items, n, pool, fields, caller, worker>>

StartSweep ==
  /\ wpc = "select"
  /\ wpc' = "sweep"
  /\ todo' = DOMAIN lists
  /\ UNCHANGED <<store, pool, fields, addLLCh, caller, went, wval>>

Smallest(t) == t \in todo /\ \A u \in todo : t <= u

Sweepable(e) == val[e] = NoVal \/ expired[e]
KeepsHead(s) == s # <<>> => ~Sweepable(Head(s))

(* No list for this key, an empty one, or a live head: on to the next.     *)
SweepRetry(t) ==            \* mutant: an empty list is looked at again
  /\ wpc = "sweep" /\ Smallest(t)
  /\ todo' = IF List(Truncate(t)) = <<>> THEN todo ELSE todo \ {t}
  /\ KeepsHead(List(Truncate(t)))
  /\ UNCHANGED <<store, pool, fields, addLLCh, caller, wpc, went, wval>>

SweepSkip(t) ==
  /\ wpc = "sweep" /\ Smallest(t)
  /\ KeepsHead(List(Truncate(t)))
  /\ todo' = todo \ {t}
  /\ UNCHANGED <<store, pool, fields, addLLCh, caller, wpc, went, wval>>

(* The list's Remove of a head that is to go.  What follows the removed    *)
(* entry is nil (LinkedListTTL!Detached): the inner loop ends with it.     *)
SweepTake(t) ==
  LET u == Truncate(t) IN
  /\ wpc = "sweep" /\ Smallest(t)
  /\ List(u) # <<>> /\ Sweepable(Head(List(u)))
  /\ went' = Head(List(u))
  /\ lists' = [lists EXCEPT ![u] = Tail(lists[u])]
  /\ todo' = todo \ {t}
  /\ wpc' = "unmap"
  /\ UNCHANGED <<items, n, pool, fields, addLLCh, caller, wval>>

EndSweep ==
  /\ wpc = "sweep" /\ todo = {}
  /\ wpc' = "select"
  /\ UNCHANGED <<store, pool, fields, addLLCh, caller, todo, went, wval>>

WorkerKeepsMapping ==       \* mutant: kv.Remove does not touch the map
  /\ wpc = "unmap"
  /\ n' = n - 1
  /\ wpc' = "value"
  /\ UNCHANGED <<items, lists, pool, fields, addLLCh, caller, todo, went, wval>>

(* kv.Remove, then the three parts of kv.eviction.                         *)
WorkerUnmap ==
  /\ wpc = "unmap"
  /\ items' = [items EXCEPT ![key[went]] = NoEntry]
  /\ n' = n - 1
  /\ wpc' = "value"
  /\ UNCHANGED <<lists, pool, fields, addLLCh, caller, todo, went, wval>>

WorkerValue ==
  /\ wpc = "value"
  /\ wval' = val[went]
  /\ wpc' = IF val[went] = NoVal THEN "put" ELSE "evict"
  /\ UNCHANGED <<store, pool, fields, addLLCh, caller, todo, went>>

WorkerEvict ==
  /\ wpc = "evict"
  /\ wpc' = "put"
  /\ UNCHANGED <<store, pool, fields, addLLCh, caller, todo, went, wval>>

PutEntry ==
  /\ wpc = "put"
  /\ key' = [key EXCEPT ![went] = NoKey]
  /\ val' = [val EXCEPT ![went] = NoVal]
  /\ expired' = [expired EXCEPT ![went] = TRUE]
  /\ pool' = pool \cup {went}
  /\ wpc' = "sweep" /\ went' = NoEntry /\ wval' = NoVal
  /\ UNCHANGED <<store, addLLCh, caller, todo>>

Sweep ==
  \/ \E t \in todo : SweepSkip(t) \/ SweepTake(t)
  \/ EndSweep
  \/ WorkerUnmap \/ WorkerValue \/ WorkerEvict \/ PutEntry

(* time.Now() passes expireAt.                                             *)
Expire(e) ==
  /\ e \notin pool /\ ~expired[e]
  /\ expired' = [expired EXCEPT ![e] = TRUE]
  /\ UNCHANGED <<store, pool, key, val, addLLCh, caller, worker>>

-----------------------------------------------------------------------------
AnyCall(c) ==
  \/ \E p \in Pairs, ttl \in TTLs, op \in Ops \cap {"set", "swap"} :
       Call(c, op, p[1], p[2], ttl)
  \/ \E k \in Keys, op \in Ops \cap {"get", "remove"} :
       Call(c, op, k, NoVal, 0)

Next ==
  \/ \E c \in Callers : AnyCall(c) \/ Step(c)
  \/ WorkerRecv \/ StartSweep \/ Sweep
  \/ \E e \in Entries : Expire(e)

Spec == Init /\ [][Next]_vars

(* Goroutines that can run do; time passes.  The senders blocked on a full *)
(* channel are served in order, and the code, unlike the model, allocates  *)
(* an entry when the pool is empty.  The select of the worker chooses at       *)
(* random among the ready cases and the timer fires once per second, so a  *)
(* message that waits is received in the end.                              *)
Fairness ==
  /\ \A c \in Callers : SF_vars(Step(c))
  /\ SF_vars(WorkerRecv)
  /\ WF_vars(StartSweep)
  /\ WF_vars(Sweep)
  /\ \A e \in Entries : WF_vars(Expire(e))

FairSpec == Spec /\ Fairness

-----------------------------------------------------------------------------
Labels == {"idle", "send", "read", "check", "exchange", "evicted", "unmap",
           "reset", "expire", "ret"} \cup AllOps

Requests == [op : Ops \cup {"none"}, k : Keys \cup {NoKey},
             v : Values \cup {NoVal}, ttl : TTLs \cup {0}]

Holding == {"send", "read", "check", "exchange", "evicted", "unmap", "reset", "expire"}

(* Types.  A caller past its Load holds an entry, one that stores has a    *)
(* value and the worker holds an entry while it evicts: nothing is         *)
(* dereferenced that may be nil.                                           *)
TypeOK ==
  /\ items \in [Keys -> Entries \cup {NoEntry}]
  /\ pool \subseteq Entries
  /\ key \in [Entries -> Keys \cup {NoKey}]
  /\ val \in [Entries -> Values \cup {NoVal}]
  /\ expired \in [Entries -> BOOLEAN]
  /\ n \in Int
  /\ addLLCh \in Seq([ttl : TTLs, entry : Entries])
  /\ DOMAIN lists \subseteq ListTTLs
  /\ lists \in [DOMAIN lists -> Seq(Entries)]
  /\ pc \in [Callers -> Labels]
  /\ req \in [Callers -> Requests]
  /\ ent \in [Callers -> Entries \cup {NoEntry}]
  /\ got \in [Callers -> [ok : BOOLEAN, expired : BOOLEAN, v : Values \cup {NoVal}]]
  /\ wpc \in {"select", "sweep", "unmap", "value", "evict", "put"}
  /\ todo \subseteq ListTTLs
  /\ went \in Entries \cup {NoEntry}
  /\ wval \in Values \cup {NoVal}
  /\ \A c \in Callers : pc[c] \in Holding => ent[c] \in Entries
  /\ \A c \in Callers : pc[c] # "idle" => req[c].k \in Keys
  /\ \A c \in Callers : pc[c] \in {"set", "send", "swap", "exchange"} =>
       req[c].v \in Values /\ req[c].ttl \in TTLs
  /\ wpc \notin {"select", "sweep"} => went \in Entries

(* Who owns an entry: the pool, a Set on its way to the channel, the       *)
(* channel, a list, or the worker that evicts it.                          *)
Sending(c, e)  == pc[c] = "send" /\ ent[c] = e
Queued(e)      == \E i \in 1..Len(addLLCh) : addLLCh[i].entry = e
Listed(e)      == \E t \in DOMAIN lists : \E i \in 1..Len(lists[t]) : lists[t][i] = e
Evicting(e)    == wpc \notin {"select", "sweep"} /\ went = e

(* No entry is lost, none has two owners, and none is in two places of the *)
(* same owner.  An entry with two owners is freed twice and handed to two  *)
(* Sets; one with none is never freed, and its value (an item in memory, a *)
(* range of a file) with it.                                               *)
NoneLost ==
  \A e \in Entries :
    e \in pool \/ (\E c \in Callers : Sending(c, e)) \/ Queued(e) \/ Listed(e) \/ Evicting(e)

OneOwner ==
  \A e \in Entries :
    /\ e \in pool => ~Queued(e) /\ ~Listed(e) /\ ~Evicting(e)
    /\ \A c \in Callers : Sending(c, e) =>
         e \notin pool /\ ~Queued(e) /\ ~Listed(e) /\ ~Evicting(e)
    /\ Queued(e) => ~Listed(e) /\ ~Evicting(e)
    /\ Listed(e) => ~Evicting(e)

OnePlace ==
  /\ \A c, d \in Callers, e \in Entries : Sending(c, e) /\ Sending(d, e) => c = d
  /\ \A i, j \in 1..Len(addLLCh) : addLLCh[i].entry = addLLCh[j].entry => i = j
  /\ \A t, u \in DOMAIN lists :
       \A i \in 1..Len(lists[t]), j \in 1..Len(lists[u]) :
         lists[t][i] = lists[u][j] => t = u /\ i = j

OwnedOnce == NoneLost /\ OneOwner /\ OnePlace

(* The map names only entries that are in use, and under their own key:    *)
(* an entry is never recycled while a Load can still find it.              *)
MapPointsHome ==
  \A k \in Keys : items[k] # NoEntry =>
    /\ key[items[k]] = k
    /\ items[k] \notin pool
    /\ ~(Evicting(items[k]) /\ wpc # "unmap")

(* Len() counts the entries that have been stored and not yet collected;   *)
(* neither replacing a key nor RemoveByKey changes it.                     *)
Counted == {e \in Entries : e \notin pool /\ ~(Evicting(e) /\ wpc # "unmap")}

CountMatches == n = Cardinality(Counted)

(* Everything stored is collected in the end, whatever the callers do.     *)
EntryFreed == \A e \in Entries : e \notin pool ~> e \in pool

(* lsm_test.go:88-91: what was stored and has not expired is found.        *)
UnexpiredFound ==
  \A e \in Entries : e \notin pool /\ ~expired[e] => items[key[e]] # NoEntry

(* lsm_test.go:98-100: what Get returns was stored under its key.          *)
GetReturnsOwnKey ==
  \A c \in Callers :
    pc[c] = "ret" /\ got[c].v # NoVal => <<req[c].k, got[c].v>> \in Pairs

(* kvsm.go:150: a sweep finds the list of every TTL it looks for, although *)
(* it looks for whole seconds.  It holds of TTLs of whole seconds and of   *)
(* those below one; the list of a TTL of 1.5 seconds is never swept.       *)
SweepFindsList ==
  \A t \in todo : Truncate(t) \in DOMAIN lists

(* The worker appends to a list only an entry that is in none, and takes   *)
(* only the first of one that has any: what list.go is promised when Add   *)
(* overwrites the pointers of the entry it is given.                       *)
Filing == INSTANCE FifoQueues WITH
            Queues <- ListTTLs, Elements <- Entries, none <- NoEntry,
            queue  <- [t \in ListTTLs |-> List(t)],
            front  <- [t \in ListTTLs |-> IF List(t) = <<>> THEN NoEntry ELSE Head(List(t))],
            length <- [t \in ListTTLs |-> Len(List(t))]

ListsAreQueues == Filing!Spec
=============================================================================
