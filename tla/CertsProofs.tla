----------------------------- MODULE CertsProofs -----------------------------
(***************************************************************************)
(* The lock of a name in etcd is exclusive, whatever fails, as long as its *)
(* lease lasts.  The argument: of two processes with a key for the name,   *)
(* one has a goroutine that still waits for the other's key.  Who holds    *)
(* the lock waits for nobody, and s.mu lets one goroutine of a process     *)
(* through, so of two that hold it one has lost its key.  And of the keys  *)
(* a goroutine waits for, one is of a goroutine that waits for none, since *)
(* those before it in the queue are fewer.                                 *)
(***************************************************************************)
EXTENDS Certs, FiniteSetTheorems, TLAPS

Own(p)         == <<p, starts[p]>>
Waits(p, n, s) == \E t \in Threads : home[t] = p /\ name[t] = n /\ pc[t] \in Queued /\ s \in ahead[t]

(* A goroutine past Acquire has its key, unless the lease has ended.       *)
HasKey == \A t \in Threads : pc[t] \in Queued /\ ~Lost(t) => Own(home[t]) \in locks[name[t]]

(* No key is of a session that has yet to start.                           *)
NoneAhead == \A n \in Names : \A s \in locks[n] : s[2] <= starts[s[1]]

InLine ==
  \A n \in Names : \A p, q \in Procs :
    p # q /\ Own(p) \in locks[n] /\ Own(q) \in locks[n] =>
      Waits(p, n, Own(q)) \/ Waits(q, n, Own(p))

LockInv == StorageTypeOK /\ HasKey /\ NoneAhead /\ InLine

(* One goroutine of a process is between Lock and Unlock.                  *)
LEMMA OneInside ==
  ASSUME StorageTypeOK, NEW t \in Threads, NEW u \in Threads,
         pc[t] \in Inside, pc[u] \in Inside, home[t] = home[u]
  PROVE  t = u
  BY DEF StorageTypeOK

LEMMA InitTypes == ASSUME StorageInit PROVE StorageTypeOK
  <1>1. (CHOOSE n \in Names : TRUE) \in Names /\ (CHOOSE p \in Procs : TRUE) \in Procs
    BY StorageConstantsOK
  <1> QED BY <1>1, StorageConstantsOK DEF StorageInit, StorageTypeOK, Inside, Queued

-----------------------------------------------------------------------------
(* The types, action by action.                                            *)
LEMMA StepTypes ==
  ASSUME StorageTypeOK, NEW t \in Threads,
         (\E p \in Procs, n \in Names : Choose(t, p, n)) \/ Proceed(t) \/ Work(t)
  PROVE  StorageTypeOK'
  <1> USE StorageConstantsOK DEF StorageTypeOK, Inside, Queued, process, etcd, stored, work, Goto, Session
  <1>1. ASSUME NEW p \in Procs, NEW n \in Names, Choose(t, p, n) PROVE StorageTypeOK'
    BY <1>1 DEF Choose
  <1>2. CASE Begin(t)        BY <1>2 DEF Begin
  <1>3. CASE TakeMu(t)       BY <1>3 DEF TakeMu
  <1>4. CASE Acquire(t)
    <2>1. Session(t) \in Procs \X Nat  BY DEF Session
    <2>2. locks' \in [Names -> SUBSET (Procs \X Nat)] /\ ahead' \in [Threads -> SUBSET (Procs \X Nat)]
      BY <1>4, <2>1 DEF Acquire
    <2> QED BY <1>4, <2>2 DEF Acquire
  <1>5. CASE AcquireFails(t) BY <1>5 DEF AcquireFails, FreeMu
  <1>6. CASE Granted(t)      BY <1>6 DEF Granted
  <1>7. CASE Unlock(t)       BY <1>7 DEF Unlock, FreeMu, KeyGone
  <1>8. CASE UnlockFails(t)  BY <1>8 DEF UnlockFails, FreeMu, Fault
  <1>9. ASSUME NEW k \in Keys, Remove(t, k) PROVE StorageTypeOK'
    BY <1>9 DEF Remove, First, InCall
  <1>10. ASSUME NEW k \in Keys, NEW x \in Blobs, Put(t, k, x) PROVE StorageTypeOK'
    BY <1>10 DEF Put, First, InCall
  <1>11. CASE Second(t)      BY <1>11 DEF Second, Return
  <1>12. CASE CallFails(t)   BY <1>12 DEF CallFails, Return, Fault
  <1> QED BY <1>1, <1>2, <1>3, <1>4, <1>5, <1>6, <1>7, <1>8, <1>9, <1>10, <1>11, <1>12 DEF Proceed, Work

LEMMA EnvironmentTypes == ASSUME StorageTypeOK, Environment PROVE StorageTypeOK'
  <1> USE StorageConstantsOK DEF StorageTypeOK, Inside, Queued, process, etcd, stored, work, KeyGone, Fault
  <1>1. ASSUME NEW p \in Procs, Crash(p) PROVE StorageTypeOK'
    BY <1>1 DEF Crash, Local
  <1>2. ASSUME NEW p \in Procs, NEW n \in Names, LeaseLost(p, n) PROVE StorageTypeOK'
    BY <1>2 DEF LeaseLost
  <1>3. ASSUME NEW n \in Names, NEW s \in Sessions, Reap(n, s) PROVE StorageTypeOK'
    BY <1>3 DEF Reap
  <1> QED BY <1>1, <1>2, <1>3 DEF Environment

-----------------------------------------------------------------------------
(* Steps that leave keys, waits and who is queued alone.                   *)
LEMMA QuietStep ==
  ASSUME LockInv, StorageTypeOK', UNCHANGED <<locks, lost, starts, ahead>>,
         \A u \in Threads : pc'[u] \in Queued => pc[u] \in Queued,
         \A u \in Threads : pc[u] \in Queued =>
           name'[u] = name[u] /\ home'[u] = home[u] /\ (pc'[u] \in Queued \/ ahead[u] = {})
  PROVE  LockInv'
  <1>1. HasKey'     BY DEF LockInv, HasKey, Own, Lost, Session
  <1>2. NoneAhead'  BY DEF LockInv, NoneAhead
  <1>3. InLine'
    <2> SUFFICES ASSUME NEW n \in Names, NEW p \in Procs, NEW q \in Procs, Waits(p, n, Own(q))
                 PROVE  Waits(p, n, Own(q))'
      BY DEF LockInv, InLine, Own
    <2> QED BY DEF Waits, Own
  <1> QED BY <1>1, <1>2, <1>3 DEF LockInv

LEMMA AcquireKeeps == ASSUME LockInv, StorageTypeOK', NEW t \in Threads, Acquire(t) PROVE LockInv'
  <1> DEFINE n == name[t]  s == Own(home[t])
  <1>0. pc[t] = "acquire" /\ s = Session(t) /\ n \in Names /\ home[t] \in Procs /\ starts[home[t]] \in Nat
    BY DEF Acquire, Session, Own, LockInv, StorageTypeOK
  <1>1. /\ locks' = [locks EXCEPT ![n] = @ \cup {s}]
        /\ ahead' = [ahead EXCEPT ![t] = IF s \in locks[n] THEN {} ELSE locks[n]]
        /\ pc' = [pc EXCEPT ![t] = "wait"]
        /\ UNCHANGED <<starts, lost, home, name>>
    BY <1>0 DEF Acquire, Goto, work
  <1>2. locks \in [Names -> SUBSET (Procs \X Nat)] /\ ahead \in [Threads -> SUBSET (Procs \X Nat)]
        /\ pc \in [Threads -> {"idle", "lock"} \cup Inside]
    BY DEF LockInv, StorageTypeOK
  <1>3. \A u \in Threads : u # t /\ pc[u] \in Queued => home[u] # home[t]
    BY <1>0, OneInside DEF LockInv, Inside
  <1>4. HasKey'     BY <1>0, <1>1, <1>2 DEF LockInv, HasKey, Own, Lost, Session
  <1>5. NoneAhead'
    <2>1. s[2] <= starts[s[1]]  BY <1>0 DEF Own
    <2> QED BY <1>0, <1>1, <1>2, <2>1 DEF LockInv, NoneAhead
  <1>6. ASSUME NEW m \in Names, NEW p \in Procs, NEW q \in Procs, p # q,
               Own(p) \in locks'[m], Own(q) \in locks'[m]
        PROVE  Waits(p, m, Own(q))' \/ Waits(q, m, Own(p))'
    <2>1. ASSUME NEW a \in Procs, NEW b \in Procs, Waits(a, m, Own(b)) PROVE Waits(a, m, Own(b))'
      BY <1>0, <1>1, <1>2, <2>1 DEF Waits, Own, Queued
    <2>2. CASE Own(p) \in locks[m] /\ Own(q) \in locks[m]
      BY <2>1, <2>2, <1>6 DEF LockInv, InLine
    <2>3. ASSUME NEW a \in Procs, NEW b \in Procs, a # b, Own(a) \notin locks[m], Own(a) \in locks'[m],
                 Own(b) \in locks'[m]
          PROVE  Waits(a, m, Own(b))'
      <3>1. m = n /\ Own(a) = s  BY <2>3, <1>1, <1>2
      <3>2. a = home[t] /\ Own(b) # s /\ Own(b) \in locks[n]
        BY <2>3, <3>1, <1>0, <1>1, <1>2 DEF Own
      <3>3. t \in Threads /\ ahead'[t] = locks[n] /\ pc'[t] = "wait"
        BY <3>1, <2>3, <1>1, <1>2
      <3> QED BY <3>1, <3>2, <3>3, <1>1 DEF Waits, Queued, Own
    <2>4. Own(p)' = Own(p) /\ Own(q)' = Own(q)  BY <1>1 DEF Own
    <2> QED BY <2>2, <2>3, <1>6, <2>4
  <1>7. InLine'
    <2>1. \A p \in Procs : Own(p)' = Own(p)  BY <1>1 DEF Own
    <2> QED BY <1>6, <2>1 DEF InLine
  <1> QED BY <1>4, <1>5, <1>7 DEF LockInv

(* The key of session s goes; a goroutine that had it has left, or knows.  *)
LEMMA KeyGoneKeeps ==
  ASSUME LockInv, StorageTypeOK', NEW n \in Names, NEW s, KeyGone(n, s),
         UNCHANGED <<starts, home, name>>, lost \subseteq lost',
         \A u \in Threads : pc'[u] \in Queued => pc[u] \in Queued,
         \A u \in Threads : pc[u] \in Queued => pc'[u] \in Queued \/ ahead[u] = {},
         \A u \in Threads : pc'[u] \in Queued /\ name[u] = n /\ Own(home[u]) = s => Lost(u)'
  PROVE  LockInv'
  <1>1. locks \in [Names -> SUBSET (Procs \X Nat)] /\ ahead \in [Threads -> SUBSET (Procs \X Nat)]
        /\ home \in [Threads -> Procs] /\ name \in [Threads -> Names]
    BY DEF LockInv, StorageTypeOK
  <1>2. HasKey'
    BY <1>1 DEF LockInv, HasKey, Own, Lost, Session, KeyGone
  <1>3. NoneAhead'  BY <1>1 DEF LockInv, NoneAhead, KeyGone
  <1>4. InLine'
    <2> SUFFICES ASSUME NEW m \in Names, NEW p \in Procs, NEW q \in Procs, Waits(p, m, Own(q)),
                        Own(q) \in locks'[m]
                 PROVE  Waits(p, m, Own(q))'
      BY <1>1 DEF LockInv, InLine, Own, KeyGone
    <2>1. PICK t \in Threads : home[t] = p /\ name[t] = m /\ pc[t] \in Queued /\ Own(q) \in ahead[t]
      BY DEF Waits
    <2>2. pc'[t] \in Queued  BY <2>1
    <2>3. Own(q) \in ahead'[t]  BY <1>1, <2>1 DEF KeyGone
    <2> QED BY <2>1, <2>2, <2>3 DEF Waits, Own
  <1> QED BY <1>2, <1>3, <1>4 DEF LockInv

LEMMA CrashKeeps == ASSUME LockInv, StorageTypeOK', NEW p \in Procs, Crash(p) PROVE LockInv'
  <1>1. locks \in [Names -> SUBSET (Procs \X Nat)] /\ ahead \in [Threads -> SUBSET (Procs \X Nat)]
        /\ home \in [Threads -> Procs] /\ name \in [Threads -> Names] /\ starts \in [Procs -> Nat]
        /\ pc \in [Threads -> {"idle", "lock"} \cup Inside]
    BY DEF LockInv, StorageTypeOK
  <1>2. /\ UNCHANGED <<locks, lost, home, name>>
        /\ starts' = [starts EXCEPT ![p] = @ + 1]
        /\ pc' = [t \in Threads |-> IF home[t] = p THEN "idle" ELSE pc[t]]
        /\ ahead' = [t \in Threads |-> IF home[t] = p THEN {} ELSE ahead[t]]
    BY DEF Crash, etcd, work
  <1>3. \A n \in Names : Own(p)' \notin locks'[n]
    <2> SUFFICES ASSUME NEW n \in Names, <<p, starts[p] + 1>> \in locks[n] PROVE FALSE
      BY <1>1, <1>2 DEF Own
    <2>1. <<p, starts[p] + 1>>[2] <= starts[<<p, starts[p] + 1>>[1]]  BY DEF LockInv, NoneAhead
    <2>2. starts[p] + 1 <= starts[p]  BY <2>1
    <2> QED BY <1>1, <2>2
  <1>4. \A q \in Procs \ {p} : Own(q)' = Own(q)  BY <1>1, <1>2 DEF Own
  <1>5. HasKey'
    BY <1>1, <1>2 DEF LockInv, HasKey, Own, Lost, Session, Queued
  <1>6. NoneAhead'
    BY <1>1, <1>2 DEF LockInv, NoneAhead
  <1>7. InLine'
    <2> SUFFICES ASSUME NEW n \in Names, NEW q \in Procs \ {p}, NEW r \in Procs \ {p},
                        Waits(q, n, Own(r))
                 PROVE  Waits(q, n, Own(r))'
      BY <1>2, <1>3, <1>4 DEF LockInv, InLine
    <2> QED BY <1>1, <1>2, <1>4 DEF Waits
  <1> QED BY <1>5, <1>6, <1>7 DEF LockInv

LEMMA LockInvInit == ASSUME StorageInit PROVE LockInv
  BY InitTypes DEF StorageInit, LockInv, HasKey, NoneAhead, InLine, Queued

LEMMA LockInvStep == ASSUME LockInv, StorageNext PROVE LockInv'
  <1> USE DEF process, etcd, stored, work, Goto, Queued
  <1>1. ASSUME NEW t \in Threads, NEW p \in Procs, NEW n \in Names, Choose(t, p, n) PROVE LockInv'
    <2>1. StorageTypeOK'  BY <1>1, StepTypes DEF LockInv
    <2> QED BY <1>1, <2>1, QuietStep DEF Choose, LockInv, StorageTypeOK
  <1>2. ASSUME NEW t \in Threads, Proceed(t) \/ Work(t) PROVE LockInv'
    <2>0. StorageTypeOK'  BY <1>2, StepTypes DEF LockInv
    <2>t. StorageTypeOK   BY DEF LockInv
    <2>1. CASE Begin(t)         BY <2>0, <2>t, <2>1, QuietStep DEF Begin, StorageTypeOK
    <2>2. CASE TakeMu(t)        BY <2>0, <2>t, <2>2, QuietStep DEF TakeMu, StorageTypeOK
    <2>3. CASE Acquire(t)       BY <2>0, <2>3, AcquireKeeps
    <2>4. CASE AcquireFails(t)  BY <2>0, <2>t, <2>4, QuietStep DEF AcquireFails, StorageTypeOK
    <2>5. CASE Granted(t)       BY <2>0, <2>t, <2>5, QuietStep DEF Granted, StorageTypeOK
    <2>6. CASE Unlock(t)
      <3>1. pc[t] = "held" /\ ahead[t] = {} /\ pc' = [pc EXCEPT ![t] = "idle"]
            /\ KeyGone(name[t], Session(t)) /\ UNCHANGED <<starts, home, name, lost>>
        BY <2>6, <2>t DEF Unlock, StorageTypeOK
      <3>2. \A u \in Threads : pc'[u] \in Queued => u # t /\ pc[u] \in Queued
        BY <3>1, <2>t DEF StorageTypeOK
      <3>3. \A u \in Threads : pc'[u] \in Queued => Own(home[u]) # Session(t)
        BY <3>1, <3>2, <2>t, OneInside DEF Own, Session, Inside
      <3>4. \A u \in Threads : pc[u] \in Queued => pc'[u] \in Queued \/ ahead[u] = {}
        BY <3>1, <2>t DEF StorageTypeOK
      <3>5. name[t] \in Names  BY <2>t DEF StorageTypeOK
      <3> QED BY <2>0, <3>1, <3>2, <3>3, <3>4, <3>5, KeyGoneKeeps
    <2>7. CASE UnlockFails(t)   BY <2>0, <2>t, <2>7, QuietStep DEF UnlockFails, StorageTypeOK
    <2>8. ASSUME NEW k \in Keys, NEW x, NEW l \in {"stamp", "unstamp"}, First(t, k, x, l) PROVE LockInv'
      BY <2>0, <2>t, <2>8, QuietStep DEF First, StorageTypeOK
    <2>9. CASE Second(t)        BY <2>0, <2>t, <2>9, QuietStep DEF Second, Return, StorageTypeOK
    <2>10. CASE CallFails(t)    BY <2>0, <2>t, <2>10, QuietStep DEF CallFails, Return, StorageTypeOK
    <2> QED BY <1>2, <2>1, <2>2, <2>3, <2>4, <2>5, <2>6, <2>7, <2>8, <2>9, <2>10 DEF Proceed, Work, Put, Remove
  <1>3. CASE Environment
    <2>0. StorageTypeOK'  BY <1>3, EnvironmentTypes DEF LockInv
    <2>t. StorageTypeOK   BY DEF LockInv
    <2>1. ASSUME NEW p \in Procs, Crash(p) PROVE LockInv'
      BY <2>0, <2>1, CrashKeeps
    <2>2. ASSUME NEW p \in Procs, NEW n \in Names, LeaseLost(p, n) PROVE LockInv'
      BY <2>0, <2>2, KeyGoneKeeps DEF LeaseLost, Own, Lost, Session
    <2>3. ASSUME NEW n \in Names, NEW s \in Sessions, Reap(n, s) PROVE LockInv'
      <3>1. \A p \in Procs : Own(p) # s
        BY <2>3, <2>t DEF Reap, Orphan, Own, StorageTypeOK
      <3> QED BY <2>0, <2>t, <2>3, <3>1, KeyGoneKeeps DEF Reap, StorageTypeOK
    <2> QED BY <1>3, <2>1, <2>2, <2>3 DEF Environment
  <1> QED BY <1>1, <1>2, <1>3 DEF StorageNext

LEMMA LockInvStutter == ASSUME LockInv, UNCHANGED storageVars PROVE LockInv'
  BY DEF LockInv, storageVars, process, etcd, stored, work, StorageTypeOK, HasKey, NoneAhead, InLine,
         Own, Waits, Lost, Session

LEMMA LockInvExcludes == ASSUME LockInv PROVE Exclusive
  <1> SUFFICES ASSUME NEW t \in Threads, NEW u \in Threads, t # u, Holds(t), Holds(u),
                      name[t] = name[u], ~Lost(t), ~Lost(u)
               PROVE  FALSE
    BY DEF Exclusive
  <1>1. pc[t] \in Queued /\ pc[u] \in Queued /\ ahead[t] = {} /\ ahead[u] = {}
    BY DEF Holds, Queued, LockInv, StorageTypeOK
  <1>2. name[t] \in Names /\ home[t] \in Procs /\ home[u] \in Procs  BY DEF LockInv, StorageTypeOK
  <1>3. home[t] # home[u]  BY <1>1, OneInside DEF LockInv, Inside
  <1>4. Waits(home[t], name[t], Own(home[u])) \/ Waits(home[u], name[t], Own(home[t]))
    BY <1>1, <1>2, <1>3 DEF LockInv, HasKey, InLine
  <1>5. \A v \in Threads : pc[v] \in Queued =>
          (home[v] = home[t] => v = t) /\ (home[v] = home[u] => v = u)
    BY <1>1, OneInside DEF LockInv, Inside
  <1> QED BY <1>1, <1>4, <1>5 DEF Waits

(* What goroutines do with the storage keeps its lock exclusive, whatever  *)
(* the number of processes, goroutines, names and faults.                  *)
THEOREM StorageLock == StorageSpec => [](StorageTypeOK /\ Exclusive)
  <1>1. StorageInit => LockInv  BY LockInvInit
  <1>2. LockInv /\ [StorageNext]_storageVars => LockInv'  BY LockInvStep, LockInvStutter
  <1>3. LockInv => StorageTypeOK /\ Exclusive  BY LockInvExcludes DEF LockInv
  <1> QED BY <1>1, <1>2, <1>3, PTL DEF StorageSpec

-----------------------------------------------------------------------------
(* A handshake uses the storage through its operations alone.              *)
LEMMA CertsStep == ASSUME CertsTypeOK, [Next]_vars PROVE [StorageNext]_storageVars
  <1>1. ASSUME NEW t \in Threads, Proceed(t) \/ Work(t) PROVE StorageNext
    BY <1>1 DEF StorageNext
  <1>2. ASSUME NEW t \in Threads, Handshake(t) PROVE [StorageNext]_storageVars
    <2>1. CASE GetName(t) \/ GetWild(t) \/ Drop(t) \/ DropWC(t) \/ Keep(t) \/ KeepWC(t) \/ Recheck(t)
      BY <2>1 DEF GetName, GetWild, Drop, DropUnlocked, DropWC, Keep, KeepWC, Recheck
    <2>2. CASE LoadRemote(t)  BY <1>1, <2>2 DEF LoadRemote, Proceed
    <2>3. CASE LockStep(t)    BY <1>1, <2>3 DEF LockStep, Proceed
    <2>4. CASE Called(t)      BY <1>1, <2>4 DEF Called, Work
    <2>5. CASE Unlocked(t)    BY <1>1, <2>5 DEF Unlocked, Proceed
    <2>6. ASSUME NEW k \in Keys, Remove(t, k) \/ \E x \in Blobs : Put(t, k, x) PROVE StorageNext
      BY <1>1, <2>6 DEF Work
    <2>7. name[t] \in Keys /\ TokenOf[name[t]] \in Keys /\ Token \in Blobs
      BY CertsConstantsOK DEF CertsTypeOK, StorageTypeOK
    <2>8. found[t] \in Certs \cup {NoCert} /\ Blobs = Certs \cup {Token} /\ NoBlob = NoCert
      BY CertsConstantsOK DEF CertsTypeOK
    <2>9. CASE Present(t) \/ Refused(t)  BY <2>6, <2>7, <2>9 DEF Present, Refused
    <2>10. CASE Save(t)                  BY <2>6, <2>7, <2>8, <2>10 DEF Save, Put
    <2>11. ASSUME NEW c \in Certs, Accepted(t, c) PROVE StorageNext
      BY <2>6, <2>7, <2>11 DEF Accepted
    <2> QED BY <1>2, <2>1, <2>2, <2>3, <2>4, <2>5, <2>9, <2>10, <2>11 DEF Handshake
  <1>3. ASSUME NEW t \in Threads, NEW p \in Procs, NEW n \in Names, Hello(t, p, n) PROVE StorageNext
    BY <1>3 DEF Hello, StorageNext
  <1>4. CASE Next
    BY <1>2, <1>3, <1>4 DEF Next, Expire, Restart, Ended, Environment, StorageNext
  <1> QED BY <1>4 DEF vars

(* The types of the maps and of the handshakes.                            *)
LEMMA CertsTypesInit == ASSUME CertsInit PROVE CertsTypeOK
  <1>1. \A d : FromPEM(d) \in Certs \cup {NoCert}  BY CertsConstantsOK DEF FromPEM
  <1> QED BY <1>1, InitTypes, CertsConstantsOK DEF CertsInit, StorageInit, CertsTypeOK, Labels

(* A handshake goes on to label l with certificate c in hand.              *)
LEMMA MoveTypes ==
  ASSUME CertsTypeOK, StorageTypeOK', NEW t \in Threads,
         NEW l \in Labels \ {"dropWC", "keepWC"}, NEW c \in Certs \cup {NoCert}, At(t, l), Have(t, c),
         l \in {"drop", "keep"} => c # NoCert,
         UNCHANGED <<certs, certsWC, issued, expired, home, value>>
  PROVE  CertsTypeOK'
  <1>1. hs' \in [Threads -> Labels] /\ found' \in [Threads -> Certs \cup {NoCert}]
    BY DEF CertsTypeOK, At, Have
  <1>2. \A u \in Threads : u # t => hs'[u] = hs[u] /\ found'[u] = found[u]
    BY DEF CertsTypeOK, At, Have
  <1>3. hs'[t] = l /\ found'[t] = c  BY DEF CertsTypeOK, At, Have
  <1>4. /\ certs' \in [Procs -> [Names -> Certs \cup {NoCert}]]
        /\ certsWC' \in [Procs -> [Wilds -> Certs \cup {NoCert}]]
        /\ issued' \in [Certs -> Names \cup {NoCert}]
        /\ expired' \subseteq Certs
        /\ \A n \in Names : value'[n] \in Certs \cup {NoCert}
    BY DEF CertsTypeOK
  <1>5. \A u \in Threads : hs'[u] \in {"drop", "dropWC", "keep", "keepWC"} => found'[u] # NoCert
    BY <1>2, <1>3 DEF CertsTypeOK
  <1>6. \A p \in Procs, u, v \in Threads :
          home'[u] = p /\ home'[v] = p /\ {hs'[u], hs'[v]} \subseteq {"dropWC", "keepWC"} => u = v
    BY <1>2, <1>3 DEF CertsTypeOK
  <1> QED BY <1>1, <1>4, <1>5, <1>6 DEF CertsTypeOK

LEMMA CertsTypesStep == ASSUME CertsTypeOK, StorageTypeOK', Next PROVE CertsTypeOK'
  <1> USE DEF At, Have, Off, Labels, memory
  <1>c. NoCert \notin Certs /\ NoBlob = NoCert
    BY StorageConstantsOK, CertsConstantsOK
  <1>f. \A d : FromPEM(d) \in Certs \cup {NoCert}  BY CertsConstantsOK DEF FromPEM
  <1>1. ASSUME NEW t \in Threads, Handshake(t) PROVE CertsTypeOK'
    <2>0. /\ home[t] \in Procs /\ name[t] \in Names /\ found[t] \in Certs \cup {NoCert}
          /\ \A l \in Names : value[l] \in Certs \cup {NoCert}
          /\ certs[home[t]] \in [Names -> Certs \cup {NoCert}]
          /\ certsWC[home[t]] \in [Wilds -> Certs \cup {NoCert}]
      BY DEF CertsTypeOK, StorageTypeOK
    <2>m. \A c \in Certs \cup {NoCert} :
            /\ Without(certs[home[t]], c) \in [Names -> Certs \cup {NoCert}]
            /\ Without(certsWC[home[t]], c) \in [Wilds -> Certs \cup {NoCert}]
            /\ With(certs[home[t]], c) \in [Names -> Certs \cup {NoCert}]
            /\ With(certsWC[home[t]], c) \in [Wilds -> Certs \cup {NoCert}]
      BY <2>0 DEF Without, With
    <2>1. CASE GetName(t)
      <3>1. PICK l \in {"wild", "idle", "drop"}, c \in Certs \cup {NoCert} :
              At(t, l) /\ Have(t, c) /\ (l = "drop" => c # NoCert)
        BY <1>c, <2>0, <2>1 DEF GetName, CertsTypeOK
      <3> QED BY <3>1, <2>1, MoveTypes DEF GetName, storageVars, stored, work
    <2>2. CASE GetWild(t)
      <3>1. PICK l \in {"load", "idle", "drop"}, c \in Certs \cup {NoCert} :
              At(t, l) /\ Have(t, c) /\ (l = "drop" => c # NoCert)
        BY <1>c, <2>0, <2>2 DEF GetWild, CertsTypeOK
      <3> QED BY <3>1, <2>2, MoveTypes DEF GetWild, storageVars, stored, work
    <2>3. CASE Drop(t)
      BY <1>c, <2>0, <2>m, <2>3 DEF Drop, DropUnlocked, Locked, CertsTypeOK, storageVars, stored, work
    <2>4. CASE DropWC(t)
      BY <1>c, <2>0, <2>m, <2>4 DEF DropWC, CertsTypeOK, storageVars, stored, work
    <2>5. CASE Keep(t)
      BY <1>c, <2>0, <2>m, <2>5 DEF Keep, Locked, CertsTypeOK, storageVars, stored, work
    <2>6. CASE KeepWC(t)
      BY <1>c, <2>0, <2>m, <2>6 DEF KeepWC, CertsTypeOK, storageVars, stored, work
    <2>7. CASE LoadRemote(t)
      <3>1. UNCHANGED found => Have(t, found[t])  BY DEF CertsTypeOK
      <3>2. PICK l \in {"keep", "obtain"}, c \in Certs \cup {NoCert} :
              At(t, l) /\ Have(t, c) /\ (l = "keep" => c # NoCert)
        BY <1>c, <2>0, <2>7, <3>1 DEF LoadRemote, InStorage, Loaded, Valid
      <3> QED BY <3>2, <2>7, MoveTypes DEF LoadRemote, Begin, storageVars, stored, work
    <2>8. CASE LockStep(t)
      BY <1>c, <2>0, <2>8 DEF LockStep, TakeMu, Acquire, Granted, AcquireFails, CertsTypeOK, stored, work
    <2>9. CASE Recheck(t)
      BY <1>c, <2>0, <2>9 DEF Recheck, InStorage, Loaded, Valid, CertsTypeOK, storageVars, stored, work
    <2>10. CASE Present(t)
      BY CertsConstantsOK, <1>c, <2>0, <2>10 DEF Present, Put, First, CertsTypeOK, StorageTypeOK, work
    <2>11. CASE Refused(t)
      BY CertsConstantsOK, <1>c, <2>0, <2>11 DEF Refused, Remove, First, CertsTypeOK, StorageTypeOK, work
    <2>12. ASSUME NEW c \in Certs, Accepted(t, c) PROVE CertsTypeOK'
      BY CertsConstantsOK, <1>c, <2>0, <2>12 DEF Accepted, Remove, First, CertsTypeOK, StorageTypeOK, work
    <2>13. CASE Save(t)
      BY CertsConstantsOK, <1>c, <2>0, <2>13 DEF Save, Put, First, CertsTypeOK, StorageTypeOK, work
    <2>14. CASE Called(t)
      <3>1. key[t] # NoKey /\ UNCHANGED <<certs, certsWC, issued, expired, home, value>>
        BY <2>14 DEF Called, Second, CallFails, work
      <3>2. CASE UNCHANGED <<hs, found>>  BY <3>1, <3>2 DEF CertsTypeOK
      <3>3. ASSUME ~UNCHANGED <<hs, found>>
            PROVE  \E l \in {"answer", "unlock"}, c \in Certs \cup {NoCert} : At(t, l) /\ Have(t, c)
        <4>1. hs = [hs EXCEPT ![t] = hs[t]] /\ found = [found EXCEPT ![t] = found[t]]
          BY DEF CertsTypeOK
        <4>2. CASE UNCHANGED found /\ At(t, CASE hs[t] = "present" -> "answer"
                                             [] hs[t] = "save" -> "unlock" [] OTHER -> hs[t])
          <5>1. CASE hs[t] = "present"  BY <2>0, <4>1, <4>2, <5>1
          <5>2. CASE hs[t] = "save"     BY <2>0, <4>1, <4>2, <5>2
          <5>3. CASE hs[t] \notin {"present", "save"}  BY <3>3, <4>1, <4>2, <5>3
          <5> QED BY <5>1, <5>2, <5>3
        <4>3. CASE ~UNCHANGED found \/ At(t, "unlock")
          BY <1>c, <2>0, <2>14, <3>3, <4>1, <4>3 DEF Called
        <4> QED BY <2>14, <3>3, <4>2, <4>3 DEF Called
      <3> QED BY <3>1, <3>2, <3>3, MoveTypes
    <2>15. CASE Unlocked(t)
      BY <1>c, <2>0, <2>15 DEF Unlocked, Unlock, UnlockFails, CertsTypeOK, stored, work
    <2> QED BY <1>1, <2>1, <2>2, <2>3, <2>4, <2>5, <2>6, <2>7, <2>8, <2>9, <2>10, <2>11, <2>12, <2>13,
               <2>14, <2>15 DEF Handshake
  <1>2. ASSUME NEW t \in Threads, NEW p \in Procs, NEW n \in Names, Hello(t, p, n) PROVE CertsTypeOK'
    BY <1>2 DEF Hello, Choose, CertsTypeOK, StorageTypeOK, stored
  <1>3. ASSUME NEW c \in Certs, Expire(c) PROVE CertsTypeOK'
    BY <1>3 DEF Expire, CertsTypeOK, storageVars, stored, work
  <1>4. ASSUME NEW p \in Procs, Restart(p) PROVE CertsTypeOK'
    <2>1. certs' \in [Procs -> [Names -> Certs \cup {NoCert}]]
      BY <1>4, <1>f DEF Restart, CertsTypeOK
    <2>2. certsWC' \in [Procs -> [Wilds -> Certs \cup {NoCert}]]
      BY <1>4, <1>f DEF Restart, CertsTypeOK
    <2> QED BY <1>4, <2>1, <2>2 DEF Restart, Crash, CertsTypeOK, work
  <1>5. ASSUME NEW p \in Procs, NEW n \in Names, LeaseLost(p, n),
               UNCHANGED <<memory, hs, found, issued, expired>>
        PROVE  CertsTypeOK'
    BY <1>5 DEF LeaseLost, CertsTypeOK, stored, work
  <1>6. ASSUME NEW n \in Names, NEW s \in Sessions, Ended(n, s) PROVE CertsTypeOK'
    BY <1>6 DEF Ended, Reap, CertsTypeOK, stored, work
  <1> QED BY <1>1, <1>2, <1>3, <1>4, <1>5, <1>6 DEF Next

CertsInv == LockInv /\ CertsTypeOK

LEMMA CertsInvariant == Spec => []CertsInv
  <1>1. CertsInit => CertsInv
    BY LockInvInit, CertsTypesInit DEF CertsInit, CertsInv
  <1>2. ASSUME CertsInv, [Next]_vars PROVE CertsInv'
    <2>1. LockInv'
      BY <1>2, CertsStep, LockInvStep, LockInvStutter DEF CertsInv
    <2>2. CASE Next  BY <2>1, <2>2, <1>2, CertsTypesStep DEF CertsInv, LockInv
    <2>3. CASE UNCHANGED vars
      BY <2>1, <2>3, <1>2 DEF CertsInv, LockInv, CertsTypeOK, vars, memory, storageVars, stored, work
    <2> QED BY <1>2, <2>1, <2>2, <2>3
  <1> QED BY <1>1, <1>2, PTL DEF Spec

(* Maps, handshakes and storage keep their types, the maps are replaced by *)
(* one goroutine at a time, and no token is found under a name.            *)
THEOREM CertsTypes == Spec => []CertsTypeOK
  BY CertsInvariant, PTL DEF CertsInv

(* Handshakes use the storage only through its operations.                 *)
THEOREM HandshakesUseStorage == Spec => StorageSpec
  <1>1. CertsInit => StorageInit  BY DEF CertsInit
  <1>2. CertsInv /\ [Next]_vars => [StorageNext]_storageVars  BY CertsStep DEF CertsInv
  <1> QED BY <1>1, <1>2, CertsInvariant, PTL DEF Spec, StorageSpec

(* Two handshakes hold the lock of a name only if a lease has ended.       *)
THEOREM LockExclusive == Spec => []Exclusive
  BY StorageLock, HandshakesUseStorage, PTL

-----------------------------------------------------------------------------
(* What a handshake takes out of the maps has expired; it orders under the *)
(* lock.                                                                   *)
Ordering == {"order", "present", "answer", "issue"}
DropsExpired == \A t \in Threads : hs[t] \in {"drop", "dropWC"} => found[t] \in expired
OrdersLocked == \A t \in Threads : hs[t] \in Ordering => Holds(t)

HandInv == CertsInv /\ DropsExpired /\ OrdersLocked /\ OrderNeeded

(* Steps that concern one handshake alone.                                 *)
Alone(t) ==
  /\ \A u \in Threads : u # t => hs'[u] = hs[u] /\ found'[u] = found[u] /\ pc'[u] = pc[u]
                                 /\ name'[u] = name[u]
  /\ expired' = expired /\ lost \subseteq lost'

LEMMA AloneKeeps ==
  ASSUME HandInv, NEW t \in Threads, Alone(t),
         hs'[t] \in {"drop", "dropWC"} => found'[t] \in expired,
         hs'[t] \in Ordering => Holds(t)' /\ OrderNeeded!(t)',
         \A u \in Threads : u # t /\ hs[u] \in Ordering /\ value'[name[u]] # value[name[u]] =>
           ~Valid(value'[name[u]]) \/ \E l \in lost : l[1] = name[u]
  PROVE  (DropsExpired /\ OrdersLocked /\ OrderNeeded)'
  <1>1. DropsExpired'  BY DEF HandInv, DropsExpired, Alone
  <1>2. OrdersLocked'  BY DEF HandInv, OrdersLocked, Alone, Holds
  <1>3. OrderNeeded'
    <2> SUFFICES ASSUME NEW u \in Threads, u # t, hs[u] \in Ordering
                 PROVE  (~InStorage(u) \/ \E l \in lost : l[1] = name[u])'
      BY DEF OrderNeeded, Ordering, Alone
    <2>1. ~InStorage(u) \/ \E l \in lost : l[1] = name[u]
      BY DEF HandInv, OrderNeeded, Ordering
    <2> QED BY <2>1 DEF Alone, InStorage, Valid, Loaded
  <1> QED BY <1>1, <1>2, <1>3

LEMMA HandStep == ASSUME HandInv, CertsInv', Next PROVE (DropsExpired /\ OrdersLocked /\ OrderNeeded)'
  <1> USE DEF At, Have, Off, memory, process, etcd, stored, work, Goto
  <1>1. ASSUME NEW t \in Threads, Handshake(t) PROVE (DropsExpired /\ OrdersLocked /\ OrderNeeded)'
    <2>0. /\ hs \in [Threads -> Labels] /\ found \in [Threads -> Certs \cup {NoCert}]
          /\ pc \in [Threads -> {"idle", "lock"} \cup Inside] /\ key \in [Threads -> Keys \cup {NoKey}]
          /\ name \in [Threads -> Names] /\ value \in [Keys -> Blobs \cup {NoBlob}]
          /\ \A u \in Threads : pc[u] \in {"stamp", "unstamp"} <=> key[u] # NoKey
          /\ \A n \in Names : TokenOf[n] \in Keys \ Names
          /\ hs[t] \in Ordering => Holds(t) /\ OrderNeeded!(t)
          /\ hs[t] \in {"drop", "dropWC"} => found[t] \in expired
      BY CertsConstantsOK DEF HandInv, CertsInv, CertsTypeOK, StorageTypeOK, OrdersLocked, OrderNeeded, DropsExpired
    <2>1. CASE GetName(t) \/ GetWild(t)
      <3>1. hs'[t] \in {"drop", "dropWC"} => found'[t] \in expired
        BY <2>0, <2>1 DEF GetName, GetWild
      <3>2. hs'[t] \notin Ordering  BY <2>0, <2>1 DEF GetName, GetWild, Ordering
      <3>3. Alone(t) /\ UNCHANGED value  BY <2>0, <2>1 DEF GetName, GetWild, Alone, storageVars
      <3> QED BY <3>1, <3>2, <3>3, AloneKeeps
    <2>2. CASE Drop(t) \/ DropWC(t) \/ Keep(t) \/ KeepWC(t)
      <3>1. hs'[t] \in {"drop", "dropWC"} => found'[t] \in expired
        BY <2>0, <2>2 DEF Drop, DropUnlocked, DropWC, Keep, KeepWC
      <3>2. hs'[t] \notin Ordering
        BY <2>0, <2>2 DEF Drop, DropUnlocked, DropWC, Keep, KeepWC, Ordering
      <3>3. Alone(t) /\ UNCHANGED value
        BY <2>0, <2>2 DEF Drop, DropUnlocked, DropWC, Keep, KeepWC, Alone, storageVars
      <3> QED BY <3>1, <3>2, <3>3, AloneKeeps
    <2>3. CASE LoadRemote(t)
      <3>1. hs'[t] \notin {"drop", "dropWC"} \cup Ordering
        BY <2>0, <2>3 DEF LoadRemote, Ordering
      <3>2. Alone(t) /\ UNCHANGED value
        BY <2>0, <2>3 DEF LoadRemote, Begin, Alone, storageVars
      <3> QED BY <3>1, <3>2, AloneKeeps
    <2>4. CASE LockStep(t)
      <3>1. hs'[t] \notin {"drop", "dropWC"} \cup Ordering
        BY <2>0, <2>4 DEF LockStep, Ordering
      <3>2. Alone(t) /\ UNCHANGED value
        BY <2>0, <2>4 DEF LockStep, TakeMu, Acquire, Granted, AcquireFails, Alone
      <3> QED BY <3>1, <3>2, AloneKeeps
    <2>5. CASE Recheck(t)
      <3>1. hs'[t] \notin {"drop", "dropWC"}  BY <2>0, <2>5 DEF Recheck
      <3>2. Alone(t) /\ UNCHANGED <<value, pc, name, lost>>
        BY <2>0, <2>5 DEF Recheck, Alone, storageVars
      <3>3. hs'[t] \in Ordering => Holds(t)' /\ ~InStorage(t)'
        BY <2>0, <2>5 DEF Recheck, Ordering, Holds, InStorage, Valid, Loaded, storageVars
      <3> QED BY <3>1, <3>2, <3>3, AloneKeeps
    <2>6. CASE Present(t) \/ Refused(t) \/ \E c \in Certs : Accepted(t, c)
      <3>1. hs'[t] \notin {"drop", "dropWC"}  BY <2>0, <2>6 DEF Present, Refused, Accepted
      <3>2. Alone(t) /\ hs[t] \in Ordering /\ UNCHANGED <<lost, name>>
        BY <2>0, <2>6 DEF Present, Refused, Accepted, Put, Remove, First, Alone, Ordering
      <3>3. \A n \in Names : value'[n] = value[n]
        <4>1. PICK x : value' = [value EXCEPT ![TokenOf[name[t]]] = x]
          BY <2>6 DEF Present, Refused, Accepted, Put, Remove, First
        <4>2. TokenOf[name[t]] \notin Names /\ \A n \in Names : n \in Keys  BY <2>0, CertsConstantsOK
        <4> QED BY <2>0, <4>1, <4>2
      <3>4. hs'[t] \in Ordering => Holds(t)'
        BY <2>0, <2>6 DEF Present, Refused, Accepted, Put, Remove, First, Ordering, Holds
      <3>5. hs'[t] \in Ordering => OrderNeeded!(t)'
        BY <2>0, <3>2, <3>3 DEF InStorage, Valid, Loaded, Alone, Ordering
      <3> QED BY <2>0, <3>1, <3>2, <3>3, <3>4, <3>5, AloneKeeps
    <2>7. CASE Save(t)
      <3>1. hs'[t] = "save" /\ UNCHANGED <<lost, name>> /\ hs[t] = "issue"  BY <2>0, <2>7 DEF Save, Put, First
      <3>2. Alone(t)  BY <2>0, <2>7 DEF Save, Put, First, Alone
      <3>3. ASSUME NEW u \in Threads, u # t, hs[u] \in Ordering, value'[name[u]] # value[name[u]]
            PROVE  \E l \in lost : l[1] = name[u]
        <4>1. name[u] = name[t]
          BY <2>0, <2>7, <3>3 DEF Save, Put, First
        <4>2. Holds(u) /\ Holds(t)  BY <2>0, <3>1, <3>3 DEF HandInv, OrdersLocked, Ordering
        <4>3. Lost(t) \/ Lost(u)
          BY <3>3, <4>1, <4>2, LockInvExcludes DEF HandInv, CertsInv, Exclusive
        <4> QED BY <4>1, <4>3 DEF Lost
      <3> QED BY <3>1, <3>2, <3>3, AloneKeeps DEF Ordering
    <2>8. CASE Called(t)
      <3>1. Alone(t) /\ UNCHANGED <<value, name, lost>>
        BY <2>0, <2>8 DEF Called, Second, CallFails, Return, Alone
      <3>2. Holds(t)'
        BY <2>0, <2>8 DEF Called, Second, CallFails, Return, Holds
      <3>3. hs'[t] \in {"drop", "dropWC"} => found'[t] \in expired
        BY <2>0, <2>8 DEF Called
      <3>4. hs'[t] \in Ordering => hs[t] \in Ordering
        BY <2>0, <2>8 DEF Called, Ordering
      <3>5. hs'[t] \in Ordering => OrderNeeded!(t)'
        BY <2>0, <3>1, <3>4 DEF InStorage, Valid, Loaded, Alone, Ordering
      <3> QED BY <3>1, <3>2, <3>3, <3>5, AloneKeeps
    <2>9. CASE Unlocked(t)
      <3>1. hs'[t] \notin {"drop", "dropWC"} \cup Ordering
        BY <2>0, <2>9 DEF Unlocked, Ordering
      <3>2. Alone(t) /\ UNCHANGED value
        BY <2>0, <2>9 DEF Unlocked, Unlock, UnlockFails, Alone
      <3> QED BY <3>1, <3>2, AloneKeeps
    <2> QED BY <1>1, <2>1, <2>2, <2>3, <2>4, <2>5, <2>6, <2>7, <2>8, <2>9 DEF Handshake
  <1>t. CertsTypeOK /\ StorageTypeOK  BY DEF HandInv, CertsInv, CertsTypeOK
  <1> USE <1>t DEF HandInv, DropsExpired, OrdersLocked, OrderNeeded, InStorage, Loaded, Valid, Holds, Ordering
  <1>2. ASSUME NEW t \in Threads, NEW p \in Procs, NEW n \in Names, Hello(t, p, n)
        PROVE  (DropsExpired /\ OrdersLocked /\ OrderNeeded)'
    BY <1>2 DEF Hello, Choose, CertsTypeOK, StorageTypeOK
  <1>3. ASSUME NEW c \in Certs, Expire(c) PROVE (DropsExpired /\ OrdersLocked /\ OrderNeeded)'
    BY <1>3 DEF Expire, storageVars
  <1>4. ASSUME NEW p \in Procs, Restart(p) PROVE (DropsExpired /\ OrdersLocked /\ OrderNeeded)'
    BY <1>4 DEF Restart, Crash, CertsTypeOK, StorageTypeOK
  <1>5. ASSUME NEW p \in Procs, NEW n \in Names, LeaseLost(p, n),
               UNCHANGED <<memory, hs, found, issued, expired>>
        PROVE  (DropsExpired /\ OrdersLocked /\ OrderNeeded)'
    BY <1>5 DEF LeaseLost
  <1>6. ASSUME NEW n \in Names, NEW s \in Sessions, Ended(n, s)
        PROVE  (DropsExpired /\ OrdersLocked /\ OrderNeeded)'
    BY <1>6 DEF Ended, Reap
  <1> QED BY <1>1, <1>2, <1>3, <1>4, <1>5, <1>6 DEF Next

LEMMA HandInvariant == Spec => []HandInv
  <1>1. CertsInit => DropsExpired /\ OrdersLocked /\ OrderNeeded
    BY DEF CertsInit, DropsExpired, OrdersLocked, OrderNeeded, Ordering
  <1>2. ASSUME HandInv, CertsInv', UNCHANGED vars PROVE (DropsExpired /\ OrdersLocked /\ OrderNeeded)'
    BY <1>2 DEF HandInv, vars, storageVars, memory, stored, work, etcd, DropsExpired, OrdersLocked,
                OrderNeeded, InStorage, Loaded, Valid, Holds
  <1>3. CertsInv /\ CertsInv' /\ DropsExpired /\ OrdersLocked /\ OrderNeeded /\ [Next]_vars
        => (DropsExpired /\ OrdersLocked /\ OrderNeeded)'
    BY <1>2, HandStep DEF HandInv
  <1> QED BY <1>1, <1>3, CertsInvariant, PTL DEF Spec, HandInv

(* No certificate is ordered while the storage has a valid one, unless a   *)
(* lease of the name has ended.                                            *)
THEOREM OrdersNeeded == Spec => []OrderNeeded
  BY HandInvariant, PTL DEF HandInv

(* The removal of an expired certificate takes no valid one with it, and   *)
(* no Store undoes another.                                                *)
THEOREM KeepsValid == Spec => ValidKept
  <1>1. ASSUME HandInv, [Next]_vars, NEW p \in Procs, starts'[p] = starts[p]
        PROVE  /\ \A n \in Names : Valid(certs[p][n]) => certs'[p][n] # NoCert
               /\ \A w \in Wilds : Valid(certsWC[p][w]) => certsWC'[p][w] # NoCert
    <2> DEFINE Kept == /\ \A n \in Names : Valid(certs[p][n]) => certs'[p][n] # NoCert
                       /\ \A w \in Wilds : Valid(certsWC[p][w]) => certsWC'[p][w] # NoCert
    <2> USE DEF Valid, memory
    <2>0. /\ certs \in [Procs -> [Names -> Certs \cup {NoCert}]]
          /\ certsWC \in [Procs -> [Wilds -> Certs \cup {NoCert}]]
          /\ \A t \in Threads : home[t] \in Procs
          /\ \A t \in Threads : hs[t] \in {"drop", "dropWC"} => found[t] \in expired
          /\ \A t \in Threads : hs[t] \in {"keep", "keepWC"} => found[t] # NoCert
      BY <1>1 DEF HandInv, CertsInv, CertsTypeOK, StorageTypeOK, DropsExpired
    <2>m. \A c : /\ \A n \in Names : Without(certs[p], c)[n] = IF certs[p][n] = c THEN NoCert ELSE certs[p][n]
                 /\ \A w \in Wilds : Without(certsWC[p], c)[w] = IF certsWC[p][w] = c THEN NoCert ELSE certsWC[p][w]
                 /\ \A n \in Names : With(certs[p], c)[n] \in {c, certs[p][n]}
                 /\ \A w \in Wilds : With(certsWC[p], c)[w] \in {c, certsWC[p][w]}
      BY <2>0 DEF Without, With
    <2>1. ASSUME NEW t \in Threads, Drop(t) \/ DropWC(t) PROVE Kept
      <3>1. found[t] \in expired  BY <2>0, <2>1 DEF Drop, DropUnlocked, DropWC
      <3>2. certs'[p] \in {certs[p], Without(certs[p], found[t])}
        BY <2>0, <2>1 DEF Drop, DropUnlocked, DropWC
      <3>3. certsWC'[p] \in {certsWC[p], Without(certsWC[p], found[t])}
        BY <2>0, <2>1 DEF Drop, DropUnlocked, DropWC
      <3> QED BY <2>m, <3>1, <3>2, <3>3
    <2>2. ASSUME NEW t \in Threads, Keep(t) \/ KeepWC(t) PROVE Kept
      <3>1. found[t] # NoCert  BY <2>0, <2>2 DEF Keep, KeepWC
      <3>2. certs'[p] \in {certs[p], With(certs[p], found[t])}  BY <2>0, <2>2 DEF Keep, KeepWC
      <3>3. certsWC'[p] \in {certsWC[p], With(certsWC[p], found[t])}  BY <2>0, <2>2 DEF Keep, KeepWC
      <3> QED BY <2>m, <3>1, <3>2, <3>3
    <2>3. CASE UNCHANGED memory  BY <2>3
    <2>4. ASSUME NEW q \in Procs, Restart(q) PROVE Kept
      <3>1. starts \in [Procs -> Nat]  BY <1>1 DEF HandInv, CertsInv, CertsTypeOK, StorageTypeOK
      <3>2. p # q  BY <1>1, <2>4, <3>1 DEF Restart, Crash
      <3> QED BY <2>0, <2>4, <3>2 DEF Restart
    <2>5. CASE \E t \in Threads : Handshake(t)
      <3>1. PICK t \in Threads : Handshake(t)  BY <2>5
      <3> QED
        BY <2>1, <2>2, <2>3, <3>1 DEF Handshake, GetName, GetWild, LoadRemote, LockStep, Recheck, Present,
           Refused, Accepted, Save, Called, Unlocked
    <2>6. CASE Next /\ ~(\E t \in Threads : Handshake(t)) /\ ~(\E q \in Procs : Restart(q))
      BY <2>3, <2>6 DEF Next, Hello, Expire, Ended
    <2>7. CASE UNCHANGED vars  BY <2>3, <2>7 DEF vars
    <2> QED BY <1>1, <2>4, <2>5, <2>6, <2>7
  <1>2. HandInv /\ [Next]_vars =>
          [\A p \in Procs : starts'[p] = starts[p] =>
             /\ \A n \in Names : Valid(certs[p][n]) => certs'[p][n] # NoCert
             /\ \A w \in Wilds : Valid(certsWC[p][w]) => certsWC'[p][w] # NoCert]_vars
    BY <1>1
  <1> QED BY <1>2, HandInvariant, PTL DEF Spec, ValidKept

-----------------------------------------------------------------------------
(* The two keys of what is stored agree between calls.                     *)
OneCall ==
  \A k \in Keys \ torn, t \in Threads : InCall(t, k) =>
    /\ \A u \in Threads : InCall(u, k) => u = t
    /\ pc[t] = "stamp" <=> value[k] # NoBlob

Stamped == \A k \in Keys \ torn :
  (\E t \in Threads : InCall(t, k)) \/ (value[k] # NoBlob <=> k \in stamped)

StampInv == StorageTypeOK /\ OneCall /\ Stamped

LEMMA StampInvStep == ASSUME StampInv, StorageTypeOK', [StorageNext]_storageVars PROVE StampInv'
  <1> USE DEF InCall
  <1>q. ASSUME UNCHANGED <<value, stamped, key>>, torn \subseteq torn',
               \A t \in Threads : key[t] # NoKey => pc'[t] = pc[t]
        PROVE  StampInv'
    BY <1>q, StorageConstantsOK DEF StampInv, OneCall, Stamped
  <1>0. /\ key \in [Threads -> Keys \cup {NoKey}] /\ NoKey \notin Keys
        /\ value \in [Keys -> Blobs \cup {NoBlob}]
        /\ pc \in [Threads -> {"idle", "lock"} \cup Inside]
        /\ \A t \in Threads : pc[t] \in {"stamp", "unstamp"} <=> key[t] # NoKey
    BY StorageConstantsOK DEF StampInv, StorageTypeOK
  <1> USE DEF process, etcd, stored, work, Goto
  <1>1. ASSUME NEW t \in Threads, (\E p \in Procs, n \in Names : Choose(t, p, n)) \/ Proceed(t)
        PROVE  StampInv'
    BY <1>0, <1>1, <1>q DEF Choose, Proceed, Begin, TakeMu, Acquire, AcquireFails, Granted, Unlock, UnlockFails
  <1>2. ASSUME NEW t \in Threads, NEW k \in Keys, NEW x \in Blobs \cup {NoBlob},
               NEW l \in {"stamp", "unstamp"}, l = "stamp" <=> x # NoBlob, First(t, k, x, l)
        PROVE  StampInv'
    <2>1. /\ key' = [key EXCEPT ![t] = k] /\ value' = [value EXCEPT ![k] = x]
          /\ pc' = [pc EXCEPT ![t] = l] /\ stamped' = stamped
          /\ torn' = IF \E u \in Threads : key[u] = k THEN torn \cup {k} ELSE torn \ {k}
      BY <1>2 DEF First
    <2>2. OneCall'
      <3> SUFFICES ASSUME NEW j \in Keys \ torn', NEW u \in Threads, key'[u] = j
                   PROVE  /\ \A v \in Threads : key'[v] = j => v = u
                          /\ pc'[u] = "stamp" <=> value'[j] # NoBlob
        BY DEF OneCall
      <3>1. CASE j = k
        <4>1. \A v \in Threads : key[v] # k  BY <2>1, <3>1
        <4> QED BY <1>0, <1>2, <2>1, <3>1, <4>1
      <3>2. CASE j # k
        <4>1. j \in Keys \ torn /\ u # t  BY <1>0, <2>1, <3>2
        <4> QED BY <1>0, <2>1, <3>2, <4>1 DEF StampInv, OneCall
      <3> QED BY <3>1, <3>2
    <2>3. Stamped'
      <3> SUFFICES ASSUME NEW j \in Keys \ torn'
                   PROVE  (\E u \in Threads : key'[u] = j) \/ (value'[j] # NoBlob <=> j \in stamped')
        BY DEF Stamped
      <3>1. CASE j = k  BY <1>0, <2>1, <3>1
      <3>2. CASE j # k
        <4>1. \A u \in Threads : key[u] = j => u # t
          BY <1>0, <1>2 DEF First
        <4> QED BY <1>0, <2>1, <3>2, <4>1 DEF StampInv, Stamped
      <3> QED BY <3>1, <3>2
    <2> QED BY <2>2, <2>3 DEF StampInv
  <1>3. ASSUME NEW t \in Threads, Second(t) \/ CallFails(t) PROVE StampInv'
    <2>1. /\ key[t] \in Keys /\ key' = [key EXCEPT ![t] = NoKey] /\ value' = value
          /\ pc' = [pc EXCEPT ![t] = "held"]
          /\ \/ torn' = torn \cup {key[t]} /\ stamped' = stamped
             \/ /\ torn' = torn
                /\ stamped' = IF pc[t] = "stamp" THEN stamped \cup {key[t]} ELSE stamped \ {key[t]}
      BY <1>0, <1>3 DEF Second, CallFails, Return
    <2>2. OneCall'  BY <1>0, <2>1 DEF StampInv, OneCall
    <2>3. Stamped'
      <3> SUFFICES ASSUME NEW j \in Keys \ torn'
                   PROVE  (\E u \in Threads : key'[u] = j) \/ (value'[j] # NoBlob <=> j \in stamped')
        BY DEF Stamped
      <3>1. CASE j = key[t]  BY <1>0, <2>1, <3>1 DEF StampInv, OneCall
      <3>2. CASE j # key[t]  BY <1>0, <2>1, <3>2 DEF StampInv, Stamped
      <3> QED BY <3>1, <3>2
    <2> QED BY <2>2, <2>3 DEF StampInv
  <1>4. ASSUME NEW p \in Procs, Crash(p) PROVE StampInv'
    <2>1. /\ key' = [t \in Threads |-> IF home[t] = p THEN NoKey ELSE key[t]]
          /\ pc' = [t \in Threads |-> IF home[t] = p THEN "idle" ELSE pc[t]]
          /\ torn' = torn \cup {k \in Keys : \E t \in Local(p) : key[t] = k}
          /\ UNCHANGED <<value, stamped>>
      BY <1>4 DEF Crash
    <2>2. OneCall'  BY <1>0, <2>1 DEF StampInv, OneCall
    <2>3. Stamped'  BY <1>0, <2>1 DEF StampInv, Stamped, Local
    <2> QED BY <2>2, <2>3 DEF StampInv
  <1>5. CASE \E p \in Procs, n \in Names : LeaseLost(p, n)  BY <1>5, <1>q DEF LeaseLost
  <1>6. CASE \E n \in Names, s \in Sessions : Reap(n, s)    BY <1>6, <1>q DEF Reap
  <1>7. CASE UNCHANGED storageVars  BY <1>7, <1>q DEF storageVars
  <1>8. ASSUME NEW t \in Threads, Work(t) PROVE StampInv'
    BY <1>8, <1>2, <1>3, StorageConstantsOK DEF Work, Put, Remove
  <1> QED BY <1>1, <1>4, <1>5, <1>6, <1>7, <1>8 DEF StorageNext, Environment

LEMMA StorageStamps == StorageSpec => []StampFollows
  <1>1. StorageInit => OneCall /\ Stamped
    BY StorageConstantsOK DEF StorageInit, OneCall, Stamped, InCall
  <1>2. StorageTypeOK /\ StorageTypeOK' /\ OneCall /\ Stamped /\ [StorageNext]_storageVars
        => (OneCall /\ Stamped)'
    BY StampInvStep DEF StampInv
  <1>3. Stamped => StampFollows  BY DEF Stamped, StampFollows, StatFinds, Loaded
  <1> QED BY <1>1, <1>2, <1>3, StorageLock, PTL DEF StorageSpec

(* Stat finds what Load finds, but inside or after a call that was cut.    *)
THEOREM StampsFollow == Spec => []StampFollows
  BY StorageStamps, HandshakesUseStorage, PTL

-----------------------------------------------------------------------------
(* Nobody waits for nothing.  s.mu is held only between Lock and Unlock.   *)
MuOwned == \A p \in Procs : mu[p] # NoThread => home[mu[p]] = p /\ pc[mu[p]] \in Inside

(* The keys that a goroutine waits for are there, none is its own, and who *)
(* is waited for waits for no key but those its waiter waits for too.      *)
KeysThere == \A t \in Threads : ahead[t] \subseteq locks[name[t]]
NotItself == \A t \in Threads : Session(t) \notin ahead[t]
Sorted    ==
  \A t, u \in Threads :
    pc[t] \in Queued /\ pc[u] \in Queued /\ name[t] = name[u] /\ Session(u) \in ahead[t] =>
      ahead[u] \subseteq ahead[t]
KeysFinite == \A n \in Names : IsFiniteSet(locks[n])

QueueInv == StorageTypeOK /\ MuOwned /\ KeysThere /\ NotItself /\ Sorted /\ KeysFinite

LEMMA MuStep == ASSUME StorageTypeOK, MuOwned, [StorageNext]_storageVars PROVE MuOwned'
  <1> USE StorageConstantsOK DEF Inside, Queued, Goto
  <1>0. /\ mu \in [Procs -> Threads \cup {NoThread}] /\ pc \in [Threads -> {"idle", "lock"} \cup Inside]
        /\ home \in [Threads -> Procs]
        /\ \A t \in Threads : pc[t] \in Inside => mu[home[t]] = t
        /\ \A p \in Procs : mu[p] # NoThread => mu[p] \in Threads
        /\ \A t \in Threads : pc[t] \in {"stamp", "unstamp"} <=> key[t] # NoKey
    BY DEF StorageTypeOK
  <1>i. ASSUME UNCHANGED <<mu, home>>, \A t \in Threads : pc[t] \in Inside => pc'[t] \in Inside
        PROVE  MuOwned'
    BY <1>0, <1>i DEF MuOwned
  <1>1. ASSUME NEW t \in Threads, NEW p \in Procs, NEW n \in Names, Choose(t, p, n) PROVE MuOwned'
    <2>1. pc[t] = "idle" /\ UNCHANGED <<mu, pc>> /\ \A u \in Threads \ {t} : home'[u] = home[u]
      BY <1>0, <1>1 DEF Choose, process
    <2> QED BY <1>0, <2>1 DEF MuOwned
  <1>2. ASSUME NEW t \in Threads, TakeMu(t) PROVE MuOwned'
    <2>1. /\ mu' = [mu EXCEPT ![home[t]] = t] /\ home' = home /\ pc' = [pc EXCEPT ![t] = "acquire"]
      BY <1>2 DEF TakeMu, work
    <2>2. \A u \in Threads : pc[u] \in Inside => pc'[u] \in Inside  BY <1>0, <2>1
    <2> QED BY <1>0, <2>1, <2>2 DEF MuOwned
  <1>3. ASSUME NEW t \in Threads, AcquireFails(t) \/ Unlock(t) \/ UnlockFails(t) PROVE MuOwned'
    <2>1. /\ mu' = [mu EXCEPT ![home[t]] = NoThread] /\ home' = home /\ pc' = [pc EXCEPT ![t] = "idle"]
      BY <1>3 DEF AcquireFails, Unlock, UnlockFails, FreeMu, work
    <2>2. \A u \in Threads \ {t} : pc'[u] = pc[u]  BY <1>0, <2>1
    <2> QED BY <1>0, <2>1, <2>2 DEF MuOwned
  <1>4. ASSUME NEW t \in Threads, Begin(t) \/ Acquire(t) \/ Granted(t) \/ Work(t) PROVE MuOwned'
    <2>1. UNCHANGED <<mu, home>>
      BY <1>4 DEF Begin, Acquire, Granted, Work, Put, Remove, First, Second, CallFails, process, work
    <2>2. /\ pc' \in {[pc EXCEPT ![t] = l] : l \in {"lock", "wait", "held", "stamp", "unstamp"}}
          /\ pc'[t] = "lock" => pc[t] = "idle"
      BY <1>0, <1>4 DEF Begin, Acquire, Granted, Work, Put, Remove, First, Second, CallFails, Return
    <2> QED BY <1>0, <1>i, <2>1, <2>2
  <1>5. ASSUME NEW p \in Procs, Crash(p) PROVE MuOwned'
    <2>1. /\ mu' = [mu EXCEPT ![p] = NoThread] /\ home' = home
          /\ pc' = [t \in Threads |-> IF home[t] = p THEN "idle" ELSE pc[t]]
      BY <1>5 DEF Crash, work
    <2> QED BY <1>0, <2>1 DEF MuOwned
  <1>6. CASE (\E p \in Procs, n \in Names : LeaseLost(p, n)) \/ (\E n \in Names, s \in Sessions : Reap(n, s))
    <2>1. UNCHANGED <<mu, home, pc>>
      BY <1>6 DEF LeaseLost, Reap, process, work
    <2> QED BY <1>i, <2>1
  <1>7. CASE UNCHANGED storageVars
    BY <1>7, <1>i DEF storageVars, process, work
  <1> QED BY <1>1, <1>2, <1>3, <1>4, <1>5, <1>6, <1>7 DEF StorageNext, Proceed, Environment

(* The keys stay, and nobody waits who did not: what a goroutine is, it    *)
(* was, or it waits for no key.                                            *)
Line == KeysThere /\ NotItself /\ Sorted /\ KeysFinite

LEMMA LineKept ==
  ASSUME Line, UNCHANGED <<locks, starts, ahead>>,
         \A u \in Threads : pc'[u] \in Queued => pc[u] \in Queued,
         \A u \in Threads : (name'[u] = name[u] /\ home'[u] = home[u])
                              \/ (ahead[u] = {} /\ pc[u] \notin Queued)
  PROVE  Line'
  <1>1. KeysThere'  BY DEF Line, KeysThere
  <1>2. NotItself'  BY DEF Line, NotItself, Session
  <1>3. Sorted'
    BY DEF Line, Sorted, Session
  <1>4. KeysFinite'  BY DEF Line, KeysFinite
  <1> QED BY <1>1, <1>2, <1>3, <1>4 DEF Line

LEMMA LineAcquire == ASSUME StorageTypeOK, Line, NEW t \in Threads, Acquire(t) PROVE Line'
  <1> DEFINE n == name[t]  s == Session(t)
  <1>1. /\ locks' = [locks EXCEPT ![n] = @ \cup {s}]
        /\ ahead' = [ahead EXCEPT ![t] = IF s \in locks[n] THEN {} ELSE locks[n]]
        /\ pc' = [pc EXCEPT ![t] = "wait"] /\ pc[t] = "acquire"
        /\ UNCHANGED <<starts, home, name>>
    BY DEF Acquire, Goto, work
  <1>2. locks \in [Names -> SUBSET (Procs \X Nat)] /\ ahead \in [Threads -> SUBSET (Procs \X Nat)]
        /\ pc \in [Threads -> {"idle", "lock"} \cup Inside] /\ n \in Names /\ name \in [Threads -> Names]
    BY DEF StorageTypeOK
  <1>3. \A u \in Threads : Session(u)' = Session(u)  BY <1>1 DEF Session
  <1>4. \A m \in Names : locks[m] \subseteq locks'[m]  BY <1>1, <1>2
  <1>5. /\ ahead'[t] = IF s \in locks[n] THEN {} ELSE locks[n]
        /\ \A u \in Threads \ {t} : ahead'[u] = ahead[u] /\ pc'[u] = pc[u]
    BY <1>1, <1>2
  <1>6. KeysThere'
    BY <1>1, <1>2, <1>4, <1>5 DEF Line, KeysThere
  <1>7. NotItself'
    BY <1>3, <1>5 DEF Line, NotItself
  <1>8. Sorted'
    <2> SUFFICES ASSUME NEW v \in Threads, NEW u \in Threads, pc'[v] \in Queued, pc'[u] \in Queued,
                        name[v] = name[u], Session(u) \in ahead'[v]
                 PROVE  ahead'[u] \subseteq ahead'[v]
      BY <1>1, <1>3 DEF Sorted
    <2>1. CASE u = t
      <3>1. v # t  BY <1>3, <1>7, <2>1 DEF NotItself
      <3>2. s \in locks[n]  BY <1>5, <2>1, <3>1 DEF Line, KeysThere
      <3> QED BY <1>5, <2>1, <3>2
    <2>2. CASE u # t /\ v = t
      BY <1>5, <2>2 DEF Line, KeysThere
    <2>3. CASE u # t /\ v # t
      BY <1>5, <2>3 DEF Line, Sorted
    <2> QED BY <2>1, <2>2, <2>3
  <1>9. KeysFinite'
    BY <1>1, <1>2, FS_AddElement DEF Line, KeysFinite
  <1> QED BY <1>6, <1>7, <1>8, <1>9 DEF Line

LEMMA LineKeyGone ==
  ASSUME StorageTypeOK, Line, NEW n \in Names, NEW s, KeyGone(n, s), UNCHANGED <<starts, home, name>>,
         \A u \in Threads : pc'[u] \in Queued => pc[u] \in Queued
  PROVE  Line'
  <1>1. locks \in [Names -> SUBSET (Procs \X Nat)] /\ ahead \in [Threads -> SUBSET (Procs \X Nat)]
        /\ name \in [Threads -> Names]
    BY DEF StorageTypeOK
  <1>2. /\ \A m \in Names : locks'[m] = IF m = n THEN locks[m] \ {s} ELSE locks[m]
        /\ \A u \in Threads : ahead'[u] = IF name[u] = n THEN ahead[u] \ {s} ELSE ahead[u]
    BY <1>1 DEF KeyGone
  <1>3. \A u \in Threads : Session(u)' = Session(u)  BY DEF Session
  <1>4. KeysThere'   BY <1>1, <1>2 DEF Line, KeysThere
  <1>5. NotItself'   BY <1>2, <1>3 DEF Line, NotItself
  <1>6. Sorted'
    <2> SUFFICES ASSUME NEW v \in Threads, NEW u \in Threads, pc'[v] \in Queued, pc'[u] \in Queued,
                        name[v] = name[u], Session(u) \in ahead'[v]
                 PROVE  ahead'[u] \subseteq ahead'[v]
      BY <1>3 DEF Sorted
    <2>1. Session(u) \in ahead[v]  BY <1>2
    <2>2. ahead[u] \subseteq ahead[v]  BY <2>1 DEF Line, Sorted
    <2> QED BY <1>2, <2>2
  <1>7. KeysFinite'
    <2> SUFFICES ASSUME NEW m \in Names PROVE IsFiniteSet(locks'[m])
      BY DEF KeysFinite
    <2>1. IsFiniteSet(locks[m])  BY DEF Line, KeysFinite
    <2>2. IsFiniteSet(locks[m] \ {s})  BY <2>1, FS_RemoveElement
    <2> QED BY <1>2, <2>1, <2>2
  <1> QED BY <1>4, <1>5, <1>6, <1>7 DEF Line

LEMMA LineCrash == ASSUME StorageTypeOK, Line, NEW p \in Procs, Crash(p) PROVE Line'
  <1>1. /\ UNCHANGED <<locks, home, name>> /\ starts' = [starts EXCEPT ![p] = @ + 1]
        /\ \A t \in Threads : IF home[t] = p THEN pc'[t] = "idle" /\ ahead'[t] = {}
                                             ELSE pc'[t] = pc[t] /\ ahead'[t] = ahead[t]
    BY DEF Crash, etcd, work
  <1>2. \A t \in Threads : home[t] # p => Session(t)' = Session(t)
    BY <1>1 DEF Session, StorageTypeOK
  <1>3. KeysThere'   BY <1>1 DEF Line, KeysThere
  <1>4. NotItself'   BY <1>1, <1>2 DEF Line, NotItself
  <1>5. Sorted'      BY <1>1, <1>2 DEF Line, Sorted, Queued
  <1>6. KeysFinite'  BY <1>1 DEF Line, KeysFinite
  <1> QED BY <1>3, <1>4, <1>5, <1>6 DEF Line

LEMMA LineStep == ASSUME StorageTypeOK, Line, [StorageNext]_storageVars PROVE Line'
  <1> USE DEF process, etcd, work, Goto, Queued
  <1>0. /\ pc \in [Threads -> {"idle", "lock"} \cup Inside]
        /\ home \in [Threads -> Procs] /\ name \in [Threads -> Names]
        /\ \A t \in Threads : pc[t] # "wait" => ahead[t] = {}
        /\ \A t \in Threads : pc[t] \in {"stamp", "unstamp"} <=> key[t] # NoKey
    BY DEF StorageTypeOK
  <1>1. ASSUME NEW t \in Threads, NEW p \in Procs, NEW n \in Names, Choose(t, p, n) PROVE Line'
    BY <1>0, <1>1, LineKept DEF Choose
  <1>2. ASSUME NEW t \in Threads,
               Begin(t) \/ TakeMu(t) \/ AcquireFails(t) \/ Granted(t) \/ UnlockFails(t) \/ Work(t)
        PROVE  Line'
    <2>1. UNCHANGED <<locks, starts, ahead, home, name>>
      BY <1>2 DEF Begin, TakeMu, AcquireFails, Granted, UnlockFails, Work, Put, Remove, First, Second, CallFails
    <2>2. \A u \in Threads : pc'[u] \in Queued => pc[u] \in Queued
      BY <1>0, <1>2 DEF Begin, TakeMu, AcquireFails, Granted, UnlockFails, Work, Put, Remove, First, Second,
         CallFails, Return
    <2> QED BY <2>1, <2>2, LineKept
  <1>3. ASSUME NEW t \in Threads, Unlock(t) PROVE Line'
    <2>1. name[t] \in Names /\ \A u \in Threads : pc'[u] \in Queued => pc[u] \in Queued
      BY <1>0, <1>3 DEF Unlock
    <2> QED BY <1>3, <2>1, LineKeyGone DEF Unlock
  <1>4. CASE (\E p \in Procs, n \in Names : LeaseLost(p, n)) \/ (\E n \in Names, s \in Sessions : Reap(n, s))
    BY <1>4, LineKeyGone DEF LeaseLost, Reap
  <1>5. CASE UNCHANGED storageVars
    BY <1>5, LineKept DEF storageVars
  <1> QED BY <1>1, <1>2, <1>3, <1>4, <1>5, LineAcquire, LineCrash DEF StorageNext, Proceed, Environment

LEMMA QueueInvariant == StorageSpec => []QueueInv
  <1>1. StorageInit => MuOwned /\ Line
    BY StorageConstantsOK, FS_EmptySet
       DEF StorageInit, MuOwned, Line, KeysThere, NotItself, Sorted, KeysFinite
  <1>2. StorageTypeOK /\ MuOwned /\ Line /\ [StorageNext]_storageVars => (MuOwned /\ Line)'
    BY MuStep, LineStep
  <1>3. StorageTypeOK /\ MuOwned /\ Line => QueueInv  BY DEF QueueInv, Line
  <1> QED BY <1>1, <1>2, <1>3, StorageLock, PTL DEF StorageSpec

(* Of those that wait for each other, one waits for nobody.                *)
LEMMA SomeoneFirst ==
  ASSUME QueueInv, NEW t \in Threads, ahead[t] # {}, pc[t] \in Queued,
         \A s \in ahead[t] : \E u \in Threads :
           Session(u) = s /\ name[u] = name[t] /\ pc[u] \in Queued
  PROVE  \E u \in Threads : /\ Session(u) \in ahead[t] /\ name[u] = name[t]
                            /\ pc[u] \in Queued /\ ahead[u] = {}
  <1> DEFINE S == ahead[t]
             Before == {u \in Threads : Session(u) \in S /\ name[u] = name[t] /\ pc[u] \in Queued}
             T == {ahead[u] : u \in Before}
  <1>1. name[t] \in Names  BY DEF QueueInv, StorageTypeOK
  <1>2. IsFiniteSet(S)
    <2>1. S \in SUBSET locks[name[t]] /\ IsFiniteSet(locks[name[t]])
      BY <1>1 DEF QueueInv, KeysThere, KeysFinite
    <2> QED BY <2>1, FS_Subset
  <1>3. IsWellFoundedOn(StrictSubsetOrdering(S), SUBSET S)
    BY <1>2, FS_StrictSubsetOrderingWellFounded, FS_FiniteSubsetsOfFinite
  <1>4. \A u \in Before : ahead[u] \subseteq S /\ Session(u) \notin ahead[u]
    BY DEF QueueInv, Sorted, NotItself
  <1>5. T \subseteq SUBSET S /\ T # {}
    BY <1>4
  <1>6. PICK x \in T : \A y \in T : <<y, x>> \notin StrictSubsetOrdering(S)
    <2> HIDE DEF S, T
    <2> QED BY <1>3, <1>5, WFMin
  <1>7. PICK u \in Before : x = ahead[u]
    BY <1>6
  <1>8. ahead[u] = {}
    <2> SUFFICES ASSUME ahead[u] # {} PROVE FALSE
      OBVIOUS
    <2>1. PICK s \in ahead[u] : TRUE
      OBVIOUS
    <2>2. PICK v \in Before : Session(v) = s
      BY <1>4, <1>7, <2>1
    <2>3. ahead[v] \subseteq ahead[u]
      BY <1>7, <2>1, <2>2 DEF QueueInv, Sorted
    <2>4. ahead[v] # ahead[u]
      BY <1>4, <2>1, <2>2
    <2>5. <<ahead[v], ahead[u]>> \in StrictSubsetOrdering(S)
      BY <1>4, <1>7, <2>2, <2>3, <2>4 DEF StrictSubsetOrdering
    <2> QED BY <1>6, <1>7, <2>2, <2>5
  <1> QED BY <1>7, <1>8

-----------------------------------------------------------------------------
(* Where in the storage a handshake can be.                                *)
Outside == {"idle", "names", "wild", "drop", "dropWC", "load", "keep", "keepWC"}

Located ==
  \A t \in Threads :
    /\ hs[t] \in Outside => pc[t] = "idle"
    /\ hs[t] = "obtain" => pc[t] \in {"lock", "acquire", "wait", "held"}
    /\ hs[t] \in {"order", "answer"} => pc[t] = "held"
    /\ hs[t] \in {"present", "save"} => pc[t] = "stamp"
    /\ hs[t] \in {"issue", "unlock"} => pc[t] \in {"unstamp", "held"}

LEMMA Distances ==
  /\ Later["names"] = 14 /\ Later["wild"] = 13 /\ Later["drop"] = 12 /\ Later["dropWC"] = 11
  /\ Later["load"] = 10 /\ Later["obtain"] = 9 /\ Later["order"] = 8 /\ Later["present"] = 7
  /\ Later["answer"] = 6 /\ Later["issue"] = 5 /\ Later["save"] = 4 /\ Later["unlock"] = 3
  /\ Later["keep"] = 2 /\ Later["keepWC"] = 1 /\ Later["idle"] = 0
  /\ Inner["lock"] = 5 /\ Inner["acquire"] = 4 /\ Inner["wait"] = 3 /\ Inner["stamp"] = 2
  /\ Inner["unstamp"] = 2 /\ Inner["held"] = 1 /\ Inner["idle"] = 0
  BY DEF Later, Inner

(* Each step of a handshake, by where it leads.                            *)
Leads(t, a, b, c, d) == hs[t] = a /\ pc[t] = b /\ hs'[t] = c /\ pc'[t] = d

Goes(t) ==
  \/ \E c \in {"wild", "idle", "drop"} : Leads(t, "names", "idle", c, "idle")
  \/ \E c \in {"load", "idle", "drop"} : Leads(t, "wild", "idle", c, "idle")
  \/ Leads(t, "drop", "idle", "dropWC", "idle") \/ Leads(t, "dropWC", "idle", "load", "idle")
  \/ Leads(t, "load", "idle", "keep", "idle") \/ Leads(t, "load", "idle", "obtain", "lock")
  \/ Leads(t, "obtain", "lock", "obtain", "acquire") \/ Leads(t, "obtain", "acquire", "obtain", "wait")
  \/ Leads(t, "obtain", "acquire", "idle", "idle") \/ Leads(t, "obtain", "wait", "obtain", "held")
  \/ \E c \in {"order", "unlock"} : Leads(t, "obtain", "held", c, "held")
  \/ Leads(t, "order", "held", "present", "stamp")
  \/ \E c \in {"answer", "unlock"} : Leads(t, "present", "stamp", c, "held")
  \/ \E c \in {"issue", "unlock"} : Leads(t, "answer", "held", c, "unstamp")
  \/ \E c \in {"issue", "unlock"} : Leads(t, c, "unstamp", c, "held")
  \/ Leads(t, "issue", "held", "save", "stamp") \/ Leads(t, "save", "stamp", "unlock", "held")
  \/ \E c \in {"idle", "keep"} : Leads(t, "unlock", "held", c, "idle")
  \/ Leads(t, "keep", "idle", "keepWC", "idle") \/ Leads(t, "keepWC", "idle", "idle", "idle")

LEMMA GoesDown == ASSUME NEW t, Goes(t) PROVE StepsLeft(t)' < StepsLeft(t)
  BY Distances DEF Goes, Leads, StepsLeft

LEMMA HandshakeGoes ==
  ASSUME CertsTypeOK, Located, NEW t \in Threads, Handshake(t)
  PROVE  Goes(t) /\ \A u \in Threads \ {t} : hs'[u] = hs[u] /\ pc'[u] = pc[u]
  <1> USE DEF At, Have, Off, Goto, Outside
  <1>0. /\ hs \in [Threads -> Labels] /\ pc \in [Threads -> {"idle", "lock"} \cup Inside]
        /\ pc[t] \in {"stamp", "unstamp"} <=> key[t] # NoKey
    BY DEF CertsTypeOK, StorageTypeOK
  <1>l. ASSUME NEW l, At(t, l) PROVE hs'[t] = l /\ \A u \in Threads \ {t} : hs'[u] = hs[u]
    BY <1>0, <1>l
  <1>p. ASSUME NEW l, Goto(t, l) PROVE pc'[t] = l /\ \A u \in Threads \ {t} : pc'[u] = pc[u]
    BY <1>0, <1>p
  <1>1. CASE GetName(t)
    <2>1. hs[t] = "names" /\ UNCHANGED pc /\ \E c \in {"wild", "idle", "drop"} : At(t, c)
      BY <1>1 DEF GetName, storageVars
    <2> QED BY <1>l, <2>1 DEF Goes, Leads, Located
  <1>2. CASE GetWild(t)
    <2>1. hs[t] = "wild" /\ UNCHANGED pc /\ \E c \in {"load", "idle", "drop"} : At(t, c)
      BY <1>2 DEF GetWild, storageVars
    <2> QED BY <1>l, <2>1 DEF Goes, Leads, Located
  <1>3. CASE Drop(t) \/ DropWC(t) \/ Keep(t) \/ KeepWC(t)
    <2>1. /\ UNCHANGED pc
          /\ \/ hs[t] = "drop" /\ At(t, "dropWC")
             \/ hs[t] = "dropWC" /\ At(t, "load")
             \/ hs[t] = "keep" /\ At(t, "keepWC")
             \/ hs[t] = "keepWC" /\ At(t, "idle")
      BY <1>3 DEF Drop, DropUnlocked, DropWC, Keep, KeepWC, storageVars
    <2> QED BY <1>l, <2>1 DEF Goes, Leads, Located
  <1>4. CASE LoadRemote(t)
    <2>1. /\ hs[t] = "load" /\ pc[t] = "idle"
          /\ \/ At(t, "keep") /\ UNCHANGED pc
             \/ At(t, "obtain") /\ Goto(t, "lock")
      BY <1>4 DEF LoadRemote, Begin, storageVars, Located
    <2> QED BY <1>l, <1>p, <2>1 DEF Goes, Leads
  <1>5. CASE LockStep(t)
    <2>1. /\ hs[t] = "obtain"
          /\ \/ pc[t] = "lock" /\ Goto(t, "acquire") /\ UNCHANGED hs
             \/ pc[t] = "acquire" /\ Goto(t, "wait") /\ UNCHANGED hs
             \/ pc[t] = "wait" /\ Goto(t, "held") /\ UNCHANGED hs
             \/ pc[t] = "acquire" /\ Goto(t, "idle") /\ At(t, "idle")
      BY <1>5 DEF LockStep, TakeMu, Acquire, Granted, AcquireFails
    <2> QED BY <1>l, <1>p, <2>1 DEF Goes, Leads
  <1>6. CASE Recheck(t)
    <2>1. hs[t] = "obtain" /\ pc[t] = "held" /\ UNCHANGED pc /\ \E c \in {"order", "unlock"} : At(t, c)
      BY <1>6 DEF Recheck, storageVars
    <2> QED BY <1>l, <2>1 DEF Goes, Leads
  <1>7. CASE Present(t) \/ Save(t)
    <2>1. /\ pc[t] = "held" /\ Goto(t, "stamp")
          /\ \/ hs[t] = "order" /\ At(t, "present")
             \/ hs[t] = "issue" /\ At(t, "save")
      BY <1>7 DEF Present, Save, Put, First
    <2> QED BY <1>l, <1>p, <2>1 DEF Goes, Leads
  <1>8. CASE Refused(t) \/ \E c \in Certs : Accepted(t, c)
    <2>1. /\ hs[t] = "answer" /\ pc[t] = "held" /\ Goto(t, "unstamp")
          /\ \E c \in {"issue", "unlock"} : At(t, c)
      BY <1>8 DEF Refused, Accepted, Remove, First
    <2> QED BY <1>l, <1>p, <2>1 DEF Goes, Leads
  <1>9. CASE Called(t)
    <2>1. pc[t] \in {"stamp", "unstamp"} /\ Goto(t, "held")
      BY <1>0, <1>9 DEF Called, Second, CallFails, Return
    <2>2. \/ hs[t] \in {"present", "save"} /\ pc[t] = "stamp"
          \/ hs[t] \in {"issue", "unlock"} /\ pc[t] = "unstamp"
      BY <1>0, <2>1 DEF Located, Labels
    <2>3. /\ hs[t] = "present" => \E c \in {"answer", "unlock"} : At(t, c)
          /\ hs[t] = "save" => At(t, "unlock")
          /\ hs[t] = "issue" => UNCHANGED hs \/ At(t, hs[t])
          /\ hs[t] = "unlock" => At(t, "unlock")
      BY <1>9 DEF Called
    <2>4. /\ hs[t] = "present" => hs'[t] \in {"answer", "unlock"}
          /\ hs[t] = "save" => hs'[t] = "unlock"
          /\ hs[t] \in {"issue", "unlock"} => hs'[t] = hs[t]
          /\ \A u \in Threads \ {t} : hs'[u] = hs[u]
      BY <1>0, <1>l, <2>2, <2>3
    <2> QED BY <1>p, <2>1, <2>2, <2>4 DEF Goes, Leads
  <1>10. CASE Unlocked(t)
    <2>1. /\ hs[t] = "unlock" /\ pc[t] = "held" /\ Goto(t, "idle")
          /\ \E c \in {"idle", "keep"} : At(t, c)
      BY <1>10 DEF Unlocked, Unlock, UnlockFails
    <2> QED BY <1>l, <1>p, <2>1 DEF Goes, Leads
  <1> QED BY <1>1, <1>2, <1>3, <1>4, <1>5, <1>6, <1>7, <1>8, <1>9, <1>10 DEF Handshake

(* What everybody else does to where a handshake is.                       *)
LEMMA OthersGo ==
  ASSUME CertsTypeOK, Located, [Next]_vars, NEW t \in Threads
  PROVE  \/ Goes(t)
         \/ hs'[t] = hs[t] /\ pc'[t] = pc[t]
         \/ hs'[t] = "idle" /\ pc'[t] = "idle"
         \/ hs[t] = "idle" /\ pc[t] = "idle" /\ hs'[t] = "names" /\ pc'[t] = "idle"
  <1>0. hs \in [Threads -> Labels] /\ home \in [Threads -> Procs]
    BY DEF CertsTypeOK, StorageTypeOK
  <1>1. ASSUME NEW u \in Threads, Handshake(u) PROVE Goes(t) \/ (hs'[t] = hs[t] /\ pc'[t] = pc[t])
    BY <1>1, HandshakeGoes
  <1>2. ASSUME NEW u \in Threads, NEW p \in Procs, NEW n \in Names, Hello(u, p, n)
        PROVE  \/ hs'[t] = hs[t] /\ pc'[t] = pc[t]
               \/ hs[t] = "idle" /\ pc[t] = "idle" /\ hs'[t] = "names" /\ pc'[t] = "idle"
    BY <1>0, <1>2 DEF Hello, Choose, At
  <1>3. ASSUME NEW p \in Procs, Restart(p)
        PROVE  (hs'[t] = hs[t] /\ pc'[t] = pc[t]) \/ (hs'[t] = "idle" /\ pc'[t] = "idle")
    BY <1>0, <1>3 DEF Restart, Crash
  <1>4. CASE \/ \E c \in Certs : Expire(c)
             \/ \E p \in Procs, n \in Names : LeaseLost(p, n) /\ UNCHANGED <<memory, hs, found, issued, expired>>
             \/ \E n \in Names, s \in Sessions : Ended(n, s)
             \/ UNCHANGED vars
    BY <1>4 DEF Expire, LeaseLost, Ended, Reap, vars, storageVars
  <1> QED BY <1>1, <1>2, <1>3, <1>4 DEF Next

LEMMA LocatedStep == ASSUME CertsTypeOK, Located, [Next]_vars PROVE Located'
  <1> SUFFICES ASSUME NEW t \in Threads
               PROVE  /\ hs'[t] \in Outside => pc'[t] = "idle"
                      /\ hs'[t] = "obtain" => pc'[t] \in {"lock", "acquire", "wait", "held"}
                      /\ hs'[t] \in {"order", "answer"} => pc'[t] = "held"
                      /\ hs'[t] \in {"present", "save"} => pc'[t] = "stamp"
                      /\ hs'[t] \in {"issue", "unlock"} => pc'[t] \in {"unstamp", "held"}
    BY DEF Located
  <1>1. CASE Goes(t)
    BY <1>1 DEF Goes, Leads, Outside
  <1>2. CASE hs'[t] = hs[t] /\ pc'[t] = pc[t]
    BY <1>2 DEF Located
  <1> QED BY <1>1, <1>2, OthersGo DEF Outside

LEMMA LocatedInvariant == Spec => [](CertsTypeOK /\ Located)
  <1>1. CertsInit => Located
    BY DEF CertsInit, StorageInit, Located
  <1> QED BY <1>1, LocatedStep, CertsTypes, PTL DEF Spec

(* Every step of a handshake leaves it fewer, for any number of handshakes,*)
(* names and processes, and whatever calls fail.                           *)
THEOREM HandshakesAdvance == Spec => HandshakeAdvances
  <1>1. ASSUME CertsTypeOK, Located, [Next]_vars
        PROVE  [\A t \in Threads : hs[t] # "idle" /\ <<hs[t], pc[t]>>' # <<hs[t], pc[t]>> =>
                  StepsLeft(t)' < StepsLeft(t)]_vars
    <2> SUFFICES ASSUME NEW t \in Threads, hs[t] # "idle", <<hs[t], pc[t]>>' # <<hs[t], pc[t]>>
                 PROVE  StepsLeft(t)' < StepsLeft(t)
      OBVIOUS
    <2>1. CASE Goes(t)
      BY <2>1, GoesDown
    <2>2. CASE hs'[t] = "idle" /\ pc'[t] = "idle"
      <3>1. hs[t] \in Labels \ {"idle"} /\ pc[t] \in {"idle", "lock"} \cup Inside
        BY <1>1 DEF CertsTypeOK, StorageTypeOK
      <3>2. Later[hs[t]] \in 1..14 /\ Inner[pc[t]] \in 0..5
        BY <3>1, Distances DEF Labels, Inside, Queued
      <3> QED BY <2>2, <3>2, Distances DEF StepsLeft
    <2> QED BY <1>1, <2>1, <2>2, OthersGo
  <1> QED BY <1>1, LocatedInvariant, PTL DEF Spec, HandshakeAdvances

(* The handshakes never all wait for each other: s.mu is held only where   *)
(* it will be given back, and among those before a waiting one there is    *)
(* one that does not wait, or a key without an owner.                      *)
THEOREM NeverStandstill == Spec => []NoStandstill
  <1>1. QueueInv /\ CertsTypeOK /\ Located => NoStandstill
    <2> SUFFICES ASSUME QueueInv, CertsTypeOK, Located PROVE NoStandstill
      OBVIOUS
    <2>1. ASSUME NEW p \in Procs, mu[p] # NoThread
          PROVE  home[mu[p]] = p /\ pc[mu[p]] \in Inside /\ hs[mu[p]] \in Locking
      <3>1. home[mu[p]] = p /\ pc[mu[p]] \in Inside /\ mu[p] \in Threads
        BY <2>1 DEF QueueInv, MuOwned, StorageTypeOK
      <3>2. hs[mu[p]] \in Labels /\ pc[mu[p]] # "idle"
        BY <3>1 DEF CertsTypeOK, Inside, Queued
      <3>3. hs[mu[p]] \notin Outside
        BY <3>1, <3>2 DEF Located
      <3> QED BY <3>1, <3>2, <3>3 DEF Labels, Outside, Locking
    <2>2. ASSUME NEW t \in Threads, pc[t] = "wait", ahead[t] # {}
          PROVE  \E s \in ahead[t] :
                   \/ Orphan(s) \/ Abandoned(name[t], s)
                   \/ \E u \in Threads : /\ Session(u) = s /\ name[u] = name[t]
                                        /\ pc[u] \in Queued /\ ahead[u] = {}
      <3>1. CASE \E s \in ahead[t] : Orphan(s) \/ Abandoned(name[t], s)
        BY <3>1
      <3>2. CASE \A s \in ahead[t] : ~Orphan(s) /\ ~Abandoned(name[t], s)
        <4>1. \A s \in ahead[t] : \E u \in Threads :
                Session(u) = s /\ name[u] = name[t] /\ pc[u] \in Queued
          BY <3>2 DEF Abandoned
        <4>2. pc[t] \in Queued
          BY <2>2 DEF Queued
        <4>3. \E u \in Threads : /\ Session(u) \in ahead[t] /\ name[u] = name[t]
                                 /\ pc[u] \in Queued /\ ahead[u] = {}
          BY <2>2, <4>1, <4>2, SomeoneFirst
        <4> QED BY <4>3
      <3> QED BY <3>1, <3>2
    <2>3. \A t \in Threads : ahead[t] \subseteq locks[name[t]]
      BY DEF QueueInv, KeysThere
    <2> QED BY <2>1, <2>2, <2>3 DEF NoStandstill
  <1> QED BY <1>1, QueueInvariant, HandshakesUseStorage, LocatedInvariant, PTL
=============================================================================
