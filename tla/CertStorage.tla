----------------------------- MODULE CertStorage -----------------------------
(***************************************************************************)
(* certs/cache.go: the storage of certificates that the processes share,   *)
(* in etcd.  A goroutine that works on a name calls Lock, Store, Load,     *)
(* Delete and Unlock, as certmagic and tryLock of cache_test.go do.  The   *)
(* mutex s.mu of the process is held from Lock to Unlock, whatever the     *)
(* name; under it a mutex in etcd for the name, which belongs to a session *)
(* with a lease.  The storage keeps the session of a name's first Lock.    *)
(*                                                                         *)
(* etcd's concurrency.Mutex is external: Lock creates a key that lives as  *)
(* long as the lease and waits until the keys created before it are gone.  *)
(* A session is its process and the number of its start.                   *)
(***************************************************************************)
EXTENDS Integers, FiniteSets

CONSTANTS
  Names,          \* what is locked
  Keys, NoKey,    \* what is stored under
  Blobs, NoBlob,  \* what is stored
  Procs, Threads, NoThread,
  MaxFaults       \* bound: crashes, lost leases and failed calls in a behaviour

ASSUME StorageConstantsOK ==
  /\ NoBlob \notin Blobs /\ NoThread \notin Threads /\ NoKey \notin Keys
  /\ MaxFaults \in Nat
  /\ Names # {} /\ Procs # {}

VARIABLES
  mu, mumap,      \* per process: who holds s.mu, names with a mutex
  starts,         \* per process: how often it has been started again
  locks,          \* etcd, per name: sessions with a key under the lock's prefix
  lost,           \* etcd: <<name, session>> whose lease has ended
  value, stamped, \* etcd: what is stored, and the keys with a __Modified key
  home, name,     \* per thread: its process, the name it works on
  pc, key,        \* per thread: control, the key of its call
  ahead,          \* per thread: sessions whose keys were there before its own
  torn,           \* history: keys whose last Store or Delete was cut or overlapped
  faults

etcd        == <<locks, lost>>
stored      == <<value, stamped, torn>>
process     == <<mu, mumap>>
work        == <<home, name>>
storageVars == <<process, starts, etcd, stored, work, pc, key, ahead, faults>>

Sessions   == Procs \X (0..MaxFaults)
Session(t) == <<home[t], starts[home[t]]>>
Lost(t)    == <<name[t], Session(t)>> \in lost
Goto(t, l) == pc' = [pc EXCEPT ![t] = l]
Fault      == faults < MaxFaults /\ faults' = faults + 1

StorageInit ==
  /\ mu = [p \in Procs |-> NoThread]
  /\ mumap = [p \in Procs |-> {}]
  /\ starts = [p \in Procs |-> 0]
  /\ locks = [n \in Names |-> {}]
  /\ lost = {}
  /\ value = [k \in Keys |-> NoBlob]
  /\ stamped = {} /\ torn = {}
  /\ pc = [t \in Threads |-> "idle"]
  /\ home = [t \in Threads |-> CHOOSE p \in Procs : TRUE]
  /\ name = [t \in Threads |-> CHOOSE n \in Names : TRUE]
  /\ key = [t \in Threads |-> NoKey]
  /\ ahead = [t \in Threads |-> {}]
  /\ faults = 0

(* A goroutine is started in process p, for name n.                        *)
Choose(t, p, n) ==
  /\ pc[t] = "idle"
  /\ home' = [home EXCEPT ![t] = p]
  /\ name' = [name EXCEPT ![t] = n]
  /\ UNCHANGED <<process, starts, etcd, stored, pc, key, ahead, faults>>

Begin(t) ==
  /\ pc[t] = "idle"
  /\ Goto(t, "lock")
  /\ UNCHANGED <<process, starts, etcd, stored, work, key, ahead, faults>>

(* s.mu.Lock and getLockerSession.                                         *)
TakeMu(t) ==
  /\ pc[t] = "lock"
  /\ mu[home[t]] = NoThread
  /\ mu' = [mu EXCEPT ![home[t]] = t]
  /\ mumap' = [mumap EXCEPT ![home[t]] = @ \cup {name[t]}]
  /\ Goto(t, "acquire")
  /\ UNCHANGED <<starts, etcd, stored, work, key, ahead, faults>>

FreeMu(t) == mu' = [mu EXCEPT ![home[t]] = NoThread]

AcquireFirst(t) ==      \* mutant: the wait is for nobody
  /\ pc[t] = "acquire" /\ ~Lost(t)
  /\ locks' = [locks EXCEPT ![name[t]] = @ \cup {Session(t)}]
  /\ Goto(t, "wait")
  /\ UNCHANGED <<process, starts, lost, stored, work, key, ahead, faults>>

(* localMu.Lock, up to its wait.  A key left by an Unlock that failed is   *)
(* found again: it is the oldest.                                          *)
Acquire(t) ==
  LET n == name[t]  s == Session(t) IN
  /\ pc[t] = "acquire" /\ ~Lost(t)
  /\ locks' = [locks EXCEPT ![n] = @ \cup {s}]
  /\ ahead' = [ahead EXCEPT ![t] = IF s \in locks[n] THEN {} ELSE locks[n]]
  /\ Goto(t, "wait")
  /\ UNCHANGED <<process, starts, lost, stored, work, key, faults>>

AcquireFailsLocked(t) ==    \* mutant: Lock keeps s.mu when it fails
  /\ pc[t] = "acquire" /\ Lost(t)
  /\ Goto(t, "idle")
  /\ UNCHANGED <<process, starts, etcd, stored, work, key, ahead, faults>>

(* The lease of the session that mumap keeps has ended: etcd refuses the   *)
(* key, now and whenever this process locks the name again.                *)
AcquireFails(t) ==
  /\ pc[t] = "acquire" /\ Lost(t)
  /\ FreeMu(t)
  /\ Goto(t, "idle")
  /\ UNCHANGED <<mumap, starts, etcd, stored, work, key, ahead, faults>>

Granted(t) ==
  /\ pc[t] = "wait" /\ ahead[t] = {}
  /\ Goto(t, "held")
  /\ UNCHANGED <<process, starts, etcd, stored, work, key, ahead, faults>>

(* Store and Delete, two calls each.                                       *)
InCall(t, k) == key[t] = k
Return(t)    == key' = [key EXCEPT ![t] = NoKey] /\ Goto(t, "held")

First(t, k, x, next) ==
  /\ pc[t] = "held"
  /\ key' = [key EXCEPT ![t] = k]
  /\ value' = [value EXCEPT ![k] = x]
  /\ torn' = IF \E u \in Threads : InCall(u, k) THEN torn \cup {k} ELSE torn \ {k}
  /\ Goto(t, next)
  /\ UNCHANGED <<process, starts, etcd, stamped, work, ahead, faults>>

Put(t, k, x) == x # NoBlob /\ First(t, k, x, "stamp")
Remove(t, k) == First(t, k, NoBlob, "unstamp")

SecondSwapped(t) ==         \* mutant: Delete ends as Store does
  /\ key[t] # NoKey
  /\ stamped' = stamped \cup {key[t]}
  /\ Return(t)
  /\ UNCHANGED <<process, starts, etcd, value, torn, work, ahead, faults>>

Second(t) ==
  /\ key[t] # NoKey
  /\ stamped' = IF pc[t] = "stamp" THEN stamped \cup {key[t]} ELSE stamped \ {key[t]}
  /\ Return(t)
  /\ UNCHANGED <<process, starts, etcd, value, torn, work, ahead, faults>>

CallFails(t) ==
  /\ key[t] # NoKey
  /\ Fault
  /\ torn' = torn \cup {key[t]}
  /\ Return(t)
  /\ UNCHANGED <<process, starts, etcd, value, stamped, work, ahead>>

(* What Load and Stat find; Stat wants both keys.                          *)
Loaded(k)    == value[k]
StatFinds(k) == value[k] # NoBlob /\ k \in stamped

(* The key of session s for name n is deleted.                             *)
KeyGone(n, s) ==
  /\ locks' = [locks EXCEPT ![n] = @ \ {s}]
  /\ ahead' = [t \in Threads |-> IF name[t] = n THEN ahead[t] \ {s} ELSE ahead[t]]

Unlock(t) ==
  /\ pc[t] = "held"
  /\ KeyGone(name[t], Session(t))
  /\ FreeMu(t)
  /\ Goto(t, "idle")
  /\ UNCHANGED <<mumap, starts, lost, stored, work, key, faults>>

(* localMu.Unlock fails, s.mu is free all the same.                        *)
UnlockFails(t) ==
  /\ pc[t] = "held"
  /\ Fault
  /\ FreeMu(t)
  /\ Goto(t, "idle")
  /\ UNCHANGED <<mumap, starts, etcd, stored, work, key, ahead>>

-----------------------------------------------------------------------------
(* The process cannot renew a lease.                                       *)
LeaseLost(p, n) ==
  /\ n \in mumap[p]
  /\ <<n, <<p, starts[p]>>>> \notin lost
  /\ Fault
  /\ lost' = lost \cup {<<n, <<p, starts[p]>>>>}
  /\ KeyGone(n, <<p, starts[p]>>)
  /\ UNCHANGED <<process, starts, stored, work, pc, key>>

Local(p) == {t \in Threads : home[t] = p}

Crash(p) ==
  /\ Fault
  /\ starts' = [starts EXCEPT ![p] = @ + 1]
  /\ mu' = [mu EXCEPT ![p] = NoThread]
  /\ mumap' = [mumap EXCEPT ![p] = {}]
  /\ pc' = [t \in Threads |-> IF home[t] = p THEN "idle" ELSE pc[t]]
  /\ ahead' = [t \in Threads |-> IF home[t] = p THEN {} ELSE ahead[t]]
  /\ torn' = torn \cup {k \in Keys : \E t \in Local(p) : InCall(t, k)}
  /\ key' = [t \in Threads |-> IF home[t] = p THEN NoKey ELSE key[t]]
  /\ UNCHANGED <<etcd, value, stamped, work>>

(* The lease of a process that has crashed ends.                           *)
Orphan(s)  == s[2] < starts[s[1]]
Reap(n, s) ==
  /\ s \in locks[n] /\ Orphan(s)
  /\ KeyGone(n, s)
  /\ UNCHANGED <<process, starts, lost, stored, work, pc, key, faults>>

-----------------------------------------------------------------------------
(* What a goroutine does between Lock and Unlock.                          *)
Work(t) ==
  \/ \E k \in Keys : Remove(t, k) \/ \E x \in Blobs : Put(t, k, x)
  \/ Second(t) \/ CallFails(t)

Proceed(t) ==
  Begin(t) \/ TakeMu(t) \/ Acquire(t) \/ AcquireFails(t) \/ Granted(t)
    \/ Unlock(t) \/ UnlockFails(t)

Environment ==
  \/ \E p \in Procs : Crash(p) \/ \E n \in Names : LeaseLost(p, n)
  \/ \E n \in Names, s \in Sessions : Reap(n, s)

StorageNext ==
  \/ \E t \in Threads : (\E p \in Procs, n \in Names : Choose(t, p, n)) \/ Proceed(t) \/ Work(t)
  \/ Environment

StorageSpec == StorageInit /\ [][StorageNext]_storageVars

-----------------------------------------------------------------------------
Queued == {"wait", "held", "stamp", "unstamp"}
Inside == {"acquire"} \cup Queued
Holds(t) == pc[t] \in {"held", "stamp", "unstamp"}

(* Types.  Between Lock and Unlock s.mu is the goroutine's own, and who    *)
(* has the lock waits for nobody.                                          *)
StorageTypeOK ==
  /\ mu \in [Procs -> Threads \cup {NoThread}]
  /\ mumap \in [Procs -> SUBSET Names]
  /\ starts \in [Procs -> Nat]
  /\ locks \in [Names -> SUBSET (Procs \X Nat)]
  /\ lost \subseteq Names \X (Procs \X Nat)
  /\ value \in [Keys -> Blobs \cup {NoBlob}]
  /\ stamped \subseteq Keys /\ torn \subseteq Keys
  /\ pc \in [Threads -> {"idle", "lock"} \cup Inside]
  /\ home \in [Threads -> Procs] /\ name \in [Threads -> Names]
  /\ key \in [Threads -> Keys \cup {NoKey}]
  /\ ahead \in [Threads -> SUBSET (Procs \X Nat)]
  /\ faults \in 0..MaxFaults
  /\ \A t \in Threads : pc[t] \in Inside => mu[home[t]] = t
  /\ \A t \in Threads : pc[t] # "wait" => ahead[t] = {}
  /\ \A t \in Threads : pc[t] \in {"stamp", "unstamp"} <=> key[t] # NoKey

(* cache_test.go:72-75, "Mutex don't work": two goroutines have the lock   *)
(* of a name, in one process or in two, only if etcd has ended the lease   *)
(* of one of them.                                                         *)
Exclusive ==
  \A t, u \in Threads :
    t # u /\ Holds(t) /\ Holds(u) /\ name[t] = name[u] => Lost(t) \/ Lost(u)

(* cache.go:54-59 and 84-88: Stat finds what Load finds, outside a Store   *)
(* or Delete and unless the last one was cut short or ran beside another.  *)
StampFollows ==
  \A k \in Keys :
    \/ k \in torn
    \/ \E t \in Threads : InCall(t, k)
    \/ StatFinds(k) = (Loaded(k) # NoBlob) /\ StatFinds(k) = (k \in stamped)
=============================================================================
