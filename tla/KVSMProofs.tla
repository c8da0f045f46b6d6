----------------------------- MODULE KVSMProofs -----------------------------
(***************************************************************************)
(* The store of lsm/kvsm for any number of keys, entries, callers and TTLs *)
(* and any channel capacity: types, who owns an entry, what the map may    *)
(* name and what Len() counts.                                             *)
(***************************************************************************)
EXTENDS KVSM, FiniteSetTheorems, TLAPS

(* What is left of a non-empty sequence, and what an Append gives.         *)
LEMMA HeadTail ==
  ASSUME NEW S, NEW s \in Seq(S), s # <<>>
  PROVE  /\ Head(s) \in S /\ Head(s) = s[1] /\ Len(s) \in Nat \ {0}
         /\ Tail(s) \in Seq(S) /\ Len(Tail(s)) = Len(s) - 1
         /\ \A i \in 1..Len(s) - 1 : Tail(s)[i] = s[i + 1]
  OBVIOUS

LEMMA AppendLast ==
  ASSUME NEW S, NEW s \in Seq(S), NEW x \in S
  PROVE  /\ Append(s, x) \in Seq(S) /\ Len(Append(s, x)) = Len(s) + 1 /\ Len(s) \in Nat
         /\ Append(s, x)[Len(s) + 1] = x
         /\ \A i \in 1..Len(s) : Append(s, x)[i] = s[i]
  OBVIOUS

(* The types of what the worker reads from the channel and from a list.    *)
LEMMA ChannelHead ==
  ASSUME TypeOK, addLLCh # <<>>
  PROVE  /\ Head(addLLCh) \in [ttl : TTLs, entry : Entries]
         /\ Normal(Head(addLLCh).ttl) \in ListTTLs
         /\ Tail(addLLCh) \in Seq([ttl : TTLs, entry : Entries])
<1>1. addLLCh \in Seq([ttl : TTLs, entry : Entries])
  BY DEF TypeOK
<1>2. Head(addLLCh) \in [ttl : TTLs, entry : Entries]
  BY <1>1, HeadTail
<1>3. Head(addLLCh).ttl \in TTLs
  BY <1>2
<1>4. Tail(addLLCh) \in Seq([ttl : TTLs, entry : Entries])
  BY <1>1, HeadTail
<1> QED BY <1>2, <1>3, <1>4 DEF ListTTLs

LEMMA ListType ==
  ASSUME TypeOK, NEW t
  PROVE  /\ List(t) \in Seq(Entries)
         /\ List(t) # <<>> => t \in DOMAIN lists /\ List(t) = lists[t]
  BY DEF TypeOK, List

-----------------------------------------------------------------------------
(* TypeOK is inductive on its own.                                         *)

LEMMA CallTypes ==
  ASSUME TypeOK, NEW c \in Callers, AnyCall(c)
  PROVE  TypeOK'
<1> USE ConstantsOK
<1>1. ASSUME NEW p \in Pairs, NEW ttl \in TTLs, NEW op \in Ops \cap {"set", "swap"},
             Call(c, op, p[1], p[2], ttl)
      PROVE  TypeOK'
  <2>1. /\ p[1] \in Keys /\ p[2] \in Values
        /\ [op |-> op, k |-> p[1], v |-> p[2], ttl |-> ttl] \in Requests
    BY DEF Requests
  <2> QED BY <1>1, <2>1 DEF TypeOK, Call, Goto, store, fields, worker, Labels, AllOps, Holding
<1>2. ASSUME NEW k \in Keys, NEW op \in Ops \cap {"get", "remove"},
             Call(c, op, k, NoVal, 0)
      PROVE  TypeOK'
  <2>1. [op |-> op, k |-> k, v |-> NoVal, ttl |-> 0] \in Requests
    BY DEF Requests
  <2> QED BY <1>2, <2>1 DEF TypeOK, Call, Goto, store, fields, worker, Labels, AllOps, Holding
<1> QED BY <1>1, <1>2 DEF AnyCall

LEMMA ResultExpired ==
  ASSUME NEW r \in [ok : BOOLEAN, expired : BOOLEAN, v : Values \cup {NoVal}],
         NEW b \in BOOLEAN
  PROVE  [r EXCEPT !.expired = b] \in [ok : BOOLEAN, expired : BOOLEAN, v : Values \cup {NoVal}]
OBVIOUS

LEMMA StepTypes ==
  ASSUME TypeOK, NEW c \in Callers, Step(c)
  PROVE  TypeOK'
<1> USE ConstantsOK DEF TypeOK, Goto, store, fields, worker, Labels, AllOps, Holding
<1>0. NoReq \in Requests /\ Miss \in [ok : BOOLEAN, expired : BOOLEAN, v : Values \cup {NoVal}]
  BY DEF NoReq, Miss, Requests
<1>1. ASSUME NEW e \in Entries, SetStore(c, e) PROVE TypeOK'
  BY <1>1 DEF SetStore, Requests
<1>2. CASE SetSend(c)
  <2>1. [ttl |-> req[c].ttl, entry |-> ent[c]] \in [ttl : TTLs, entry : Entries]
    BY <1>2 DEF SetSend
  <2>2. addLLCh' \in Seq([ttl : TTLs, entry : Entries])
    BY <1>2, <2>1 DEF SetSend
  <2> QED BY <1>0, <1>2, <2>2 DEF SetSend, Leave
<1>3. CASE LoadHit(c)
  <2>1. ent'[c] \in Entries /\ ent' \in [Callers -> Entries \cup {NoEntry}]
    BY <1>3 DEF LoadHit
  <2>2. CASE pc[c] = "get"
    BY <1>3, <2>1, <2>2 DEF LoadHit, AfterHit
  <2>3. CASE pc[c] = "swap"
    BY <1>3, <2>1, <2>3 DEF LoadHit, AfterHit
  <2>4. CASE pc[c] = "remove"
    BY <1>3, <2>1, <2>4 DEF LoadHit, AfterHit
  <2> QED BY <1>3, <2>2, <2>3, <2>4 DEF LoadHit
<1>4. CASE LoadMiss(c)
  <2>1. CASE pc[c] = "get"
    BY <1>4, <2>1 DEF LoadMiss, AfterMiss
  <2>2. CASE pc[c] = "swap"
    BY <1>4, <2>2 DEF LoadMiss, AfterMiss
  <2> QED BY <1>4, <2>1, <2>2 DEF LoadMiss
<1>5. CASE RemoveMiss(c)
  BY <1>0, <1>5 DEF RemoveMiss, Leave
<1>6. CASE GetRead(c)
  <2>1. ent[c] \in Entries /\ val[ent[c]] \in Values \cup {NoVal}
    BY <1>6 DEF GetRead
  <2>2. got' \in [Callers -> [ok : BOOLEAN, expired : BOOLEAN, v : Values \cup {NoVal}]]
    BY <1>6, <2>1 DEF GetRead
  <2> QED BY <1>6, <2>2 DEF GetRead
<1>7. CASE GetExpired(c)
  <2>1. ent[c] \in Entries /\ pc[c] = "check"
    BY <1>7 DEF GetExpired
  <2>2. expired[ent[c]] \in BOOLEAN
    BY <2>1, Zenon
  <2>3. got' \in [Callers -> [ok : BOOLEAN, expired : BOOLEAN, v : Values \cup {NoVal}]]
    <3>1. [got[c] EXCEPT !.expired = expired[ent[c]]]
            \in [ok : BOOLEAN, expired : BOOLEAN, v : Values \cup {NoVal}]
      BY <2>2, ResultExpired, Zenon
    <3>2. got' = [got EXCEPT ![c] = [got[c] EXCEPT !.expired = expired[ent[c]]]]
      BY <1>7 DEF GetExpired
    <3> HIDE DEF TypeOK
    <3>3. got \in [Callers -> [ok : BOOLEAN, expired : BOOLEAN, v : Values \cup {NoVal}]]
      BY DEF TypeOK
    <3> QED BY <3>1, <3>2, <3>3
  <2>4. pc' = [pc EXCEPT ![c] = "ret"] /\ "ret" \notin Holding /\ "ret" \in Labels
    BY <1>7 DEF GetExpired
  <2>5. UNCHANGED <<store, pool, fields, addLLCh, req, ent, worker>>
    BY <1>7 DEF GetExpired
  <2>6. pc' \in [Callers -> Labels]
    BY <2>4
  <2> QED BY <2>1, <2>3, <2>4, <2>5, <2>6
<1>8. CASE GetReturn(c)
  BY <1>0, <1>8 DEF GetReturn, Leave
<1>9. CASE SwapExchange(c)
  <2>1. ent[c] \in Entries /\ req[c].v \in Values /\ val[ent[c]] \in Values \cup {NoVal}
    BY <1>9 DEF SwapExchange
  <2>2. got' \in [Callers -> [ok : BOOLEAN, expired : BOOLEAN, v : Values \cup {NoVal}]]
    BY <1>9, <2>1 DEF SwapExchange
  <2>3. val' \in [Entries -> Values \cup {NoVal}]
    BY <1>9, <2>1 DEF SwapExchange
  <2> QED BY <1>9, <2>2, <2>3 DEF SwapExchange
<1>10. CASE SwapEvicted(c)
  BY <1>0, <1>10 DEF SwapEvicted, Leave
<1>11. CASE RemoveUnmap(c)
  BY <1>11 DEF RemoveUnmap
<1>12. CASE RemoveReset(c)
  BY <1>12 DEF RemoveReset
<1>13. CASE RemoveExpire(c)
  BY <1>0, <1>13 DEF RemoveExpire, Leave
<1> QED
  BY <1>1, <1>2, <1>3, <1>4, <1>5, <1>6, <1>7, <1>8, <1>9, <1>10, <1>11, <1>12, <1>13
  DEF Step

LEMMA WorkerTypes ==
  ASSUME TypeOK, WorkerRecv \/ StartSweep \/ Sweep
  PROVE  TypeOK'
<1> USE ConstantsOK DEF TypeOK, store, fields, caller, worker
<1>1. CASE WorkerRecv
  <2> DEFINE t == Normal(Head(addLLCh).ttl)
  <2>1. t \in ListTTLs /\ Head(addLLCh).entry \in Entries
        /\ addLLCh' \in Seq([ttl : TTLs, entry : Entries])
    BY <1>1, ChannelHead DEF WorkerRecv
  <2>2. Append(List(t), Head(addLLCh).entry) \in Seq(Entries)
    BY <2>1, ListType
  <2>3. lists' = [u \in DOMAIN lists \cup {t} |->
                    IF u = t THEN Append(List(t), Head(addLLCh).entry) ELSE lists[u]]
    BY <1>1 DEF WorkerRecv
  <2> HIDE DEF t
  <2>4. DOMAIN lists' \subseteq ListTTLs /\ lists' \in [DOMAIN lists' -> Seq(Entries)]
    BY <2>1, <2>2, <2>3
  <2> QED BY <1>1, <2>1, <2>4 DEF WorkerRecv
<1>2. CASE StartSweep
  BY <1>2 DEF StartSweep
<1>3. ASSUME NEW t \in todo, SweepSkip(t) PROVE TypeOK'
  BY <1>3 DEF SweepSkip
<1>4. ASSUME NEW t \in todo, SweepTake(t) PROVE TypeOK'
  <2> DEFINE u == Truncate(t)
  <2>1. /\ u \in DOMAIN lists /\ lists[u] \in Seq(Entries) /\ lists[u] # <<>>
        /\ went' = Head(lists[u]) /\ lists' = [lists EXCEPT ![u] = Tail(lists[u])]
    BY <1>4, ListType DEF SweepTake
  <2> HIDE DEF u
  <2>2. went' \in Entries /\ Tail(lists[u]) \in Seq(Entries)
    BY <2>1
  <2>3. DOMAIN lists' \subseteq ListTTLs /\ lists' \in [DOMAIN lists' -> Seq(Entries)]
    BY <2>1, <2>2
  <2> QED BY <1>4, <2>2, <2>3 DEF SweepTake
<1>5. CASE EndSweep
  BY <1>5 DEF EndSweep
<1>6. CASE WorkerUnmap
  <2>1. items' \in [Keys -> Entries \cup {NoEntry}]
    BY <1>6 DEF WorkerUnmap
  <2>2. n' \in Int
    BY <1>6 DEF WorkerUnmap
  <2> QED BY <1>6, <2>1, <2>2 DEF WorkerUnmap
<1>7. CASE WorkerValue
  BY <1>7 DEF WorkerValue
<1>8. CASE WorkerEvict
  BY <1>8 DEF WorkerEvict
<1>9. CASE PutEntry
  BY <1>9 DEF PutEntry
<1> QED BY <1>1, <1>2, <1>3, <1>4, <1>5, <1>6, <1>7, <1>8, <1>9 DEF Sweep

LEMMA InitTypes ==
  ASSUME Init
  PROVE  TypeOK
<1>1. NoReq \in Requests /\ Miss \in [ok : BOOLEAN, expired : BOOLEAN, v : Values \cup {NoVal}]
  BY DEF NoReq, Miss, Requests
<1> QED BY <1>1, ConstantsOK DEF Init, TypeOK, Labels, Holding, AllOps

LEMMA NextTypes ==
  ASSUME TypeOK, [Next]_vars
  PROVE  TypeOK'
<1>1. ASSUME NEW c \in Callers, AnyCall(c) PROVE TypeOK'
  BY <1>1, CallTypes
<1>2. ASSUME NEW c \in Callers, Step(c) PROVE TypeOK'
  BY <1>2, StepTypes
<1>3. CASE WorkerRecv \/ StartSweep \/ Sweep
  BY <1>3, WorkerTypes
<1>4. ASSUME NEW e \in Entries, Expire(e) PROVE TypeOK'
  BY <1>4 DEF Expire, TypeOK, store, caller, worker
<1>5. CASE UNCHANGED vars
  BY <1>5 DEF vars, TypeOK
<1> QED BY <1>1, <1>2, <1>3, <1>4, <1>5 DEF Next

(* Every field keeps its type, and nothing that may be nil is used.        *)
THEOREM KVSMTypes == Spec => []TypeOK
BY InitTypes, NextTypes, PTL DEF Spec

-----------------------------------------------------------------------------
(* OwnedOnce is inductive given the types.  Five actions move an entry     *)
(* from one owner to the next; all others leave the owners alone.          *)

LEMMA OwnersFrame ==
  ASSUME OwnedOnce, UNCHANGED <<pool, addLLCh, lists>>,
         \A c \in Callers, e \in Entries : Sending(c, e)' <=> Sending(c, e),
         \A e \in Entries : Evicting(e)' <=> Evicting(e)
  PROVE  OwnedOnce'
<1>1. \A e \in Entries : (Queued(e)' <=> Queued(e)) /\ (Listed(e)' <=> Listed(e))
  BY DEF Queued, Listed
<1>2. NoneLost' /\ OneOwner'
  BY <1>1 DEF OwnedOnce, NoneLost, OneOwner
<1>3. OnePlace'
  BY DEF OwnedOnce, OnePlace
<1> QED BY <1>2, <1>3 DEF OwnedOnce

(* A Set takes an entry from the pool.                                     *)
LEMMA SetStoreOwners ==
  ASSUME TypeOK, OwnedOnce, NEW c \in Callers, NEW x \in Entries, SetStore(c, x)
  PROVE  OwnedOnce'
<1>1. /\ pc[c] = "set" /\ x \in pool /\ pool' = pool \ {x}
      /\ \A d \in Callers : pc'[d] = IF d = c THEN "send" ELSE pc[d]
      /\ \A d \in Callers : ent'[d] = IF d = c THEN x ELSE ent[d]
      /\ UNCHANGED <<addLLCh, lists, wpc, went>>
  BY DEF SetStore, Goto, TypeOK, worker
<1>2. \A d \in Callers, e \in Entries :
        Sending(d, e)' <=> IF d = c THEN e = x ELSE Sending(d, e)
  BY <1>1 DEF Sending
<1>3. \A d \in Callers, e \in Entries : Sending(d, e) => d # c /\ e # x
  BY <1>1 DEF Sending, OwnedOnce, OneOwner
<1>4. \A e \in Entries :
        (Queued(e)' <=> Queued(e)) /\ (Listed(e)' <=> Listed(e)) /\ (Evicting(e)' <=> Evicting(e))
  BY <1>1 DEF Queued, Listed, Evicting
<1>5. NoneLost' /\ OneOwner'
  BY <1>1, <1>2, <1>3, <1>4 DEF OwnedOnce, NoneLost, OneOwner
<1>6. OnePlace'
  BY <1>1, <1>2, <1>3 DEF OwnedOnce, OnePlace
<1> QED BY <1>5, <1>6 DEF OwnedOnce

(* The send hands it to the channel.                                       *)
LEMMA SetSendOwners ==
  ASSUME TypeOK, OwnedOnce, NEW c \in Callers, SetSend(c)
  PROVE  OwnedOnce'
<1> DEFINE x == ent[c]
           m == [ttl |-> req[c].ttl, entry |-> x]
<1>1. /\ pc[c] = "send" /\ x \in Entries /\ Sending(c, x)
      /\ \A d \in Callers : pc'[d] = IF d = c THEN "idle" ELSE pc[d]
      /\ \A d \in Callers \ {c} : ent'[d] = ent[d]
      /\ addLLCh' = Append(addLLCh, m)
      /\ m \in [ttl : TTLs, entry : Entries] /\ m.entry = x
      /\ UNCHANGED <<pool, lists, wpc, went>>
  BY DEF SetSend, Leave, Goto, TypeOK, Holding, Sending, store, worker
<1>2. /\ Len(addLLCh) \in Nat /\ Len(addLLCh') = Len(addLLCh) + 1
      /\ addLLCh'[Len(addLLCh) + 1].entry = x
      /\ \A i \in 1..Len(addLLCh) : addLLCh'[i] = addLLCh[i]
  BY <1>1, AppendLast DEF TypeOK
<1> HIDE DEF x, m
<1>3. \A d \in Callers, e \in Entries : Sending(d, e)' <=> d # c /\ Sending(d, e)
  BY <1>1 DEF Sending
<1>4. \A e \in Entries : Queued(e)' <=> e = x \/ Queued(e)
  <2>1. \A i \in 1..Len(addLLCh') : i \in 1..Len(addLLCh) \/ i = Len(addLLCh) + 1
    BY <1>2
  <2>2. 1..Len(addLLCh) \subseteq 1..Len(addLLCh') /\ Len(addLLCh) + 1 \in 1..Len(addLLCh')
    BY <1>2
  <2> QED BY <1>2, <2>1, <2>2 DEF Queued
<1>5. \A e \in Entries : (Listed(e)' <=> Listed(e)) /\ (Evicting(e)' <=> Evicting(e))
  BY <1>1 DEF Listed, Evicting
<1>6. \A d \in Callers, e \in Entries : Sending(d, e) => (d = c <=> e = x)
  BY <1>1 DEF Sending, OwnedOnce, OnePlace
<1>7. ~Queued(x) /\ ~Listed(x) /\ ~Evicting(x) /\ x \notin pool
  BY <1>1 DEF OwnedOnce, OneOwner
<1>8. NoneLost'
  BY <1>1, <1>3, <1>4, <1>5, <1>6 DEF OwnedOnce, NoneLost
<1>9. OneOwner'
  BY <1>1, <1>3, <1>4, <1>5, <1>6, <1>7 DEF OwnedOnce, OneOwner
<1>10. OnePlace'
  <2>1. \A i \in 1..Len(addLLCh) : addLLCh[i].entry # x
    BY <1>7 DEF Queued
  <2>2. \A i, j \in 1..Len(addLLCh') : addLLCh'[i].entry = addLLCh'[j].entry => i = j
    BY <1>2, <2>1 DEF OwnedOnce, OnePlace
  <2> QED BY <1>1, <1>3, <2>2 DEF OwnedOnce, OnePlace
<1> QED BY <1>8, <1>9, <1>10 DEF OwnedOnce

(* The worker files it in a list.                                          *)
LEMMA WorkerRecvOwners ==
  ASSUME TypeOK, OwnedOnce, WorkerRecv
  PROVE  OwnedOnce'
<1> DEFINE x == Head(addLLCh).entry
           t == Normal(Head(addLLCh).ttl)
<1>1. /\ x \in Entries /\ x = addLLCh[1].entry /\ Len(addLLCh) \in Nat \ {0}
      /\ Len(addLLCh') = Len(addLLCh) - 1
      /\ \A i \in 1..Len(addLLCh') : addLLCh'[i] = addLLCh[i + 1]
  <2>1. addLLCh \in Seq([ttl : TTLs, entry : Entries]) /\ addLLCh # <<>> /\ addLLCh' = Tail(addLLCh)
    BY DEF TypeOK, WorkerRecv
  <2>2. Head(addLLCh) \in [ttl : TTLs, entry : Entries] /\ Head(addLLCh) = addLLCh[1]
    BY <2>1, HeadTail
  <2>3. /\ Len(addLLCh) \in Nat \ {0} /\ Len(Tail(addLLCh)) = Len(addLLCh) - 1
        /\ \A i \in 1..Len(addLLCh) - 1 : Tail(addLLCh)[i] = addLLCh[i + 1]
    BY <2>1, HeadTail
  <2> QED BY <2>1, <2>2, <2>3
<1>2. /\ lists' = [u \in DOMAIN lists \cup {t} |-> IF u = t THEN Append(List(t), x) ELSE lists[u]]
      /\ wpc = "select" /\ UNCHANGED <<pool, pc, ent, wpc, went>>
  BY DEF WorkerRecv, caller, worker
<1>3. /\ List(t) \in Seq(Entries)
      /\ Len(Append(List(t), x)) = Len(List(t)) + 1 /\ Len(List(t)) \in Nat
      /\ Append(List(t), x)[Len(List(t)) + 1] = x
      /\ \A i \in 1..Len(List(t)) : Append(List(t), x)[i] = List(t)[i]
  BY <1>1, ListType, AppendLast
<1> HIDE DEF x, t
<1>4. Queued(x)
  BY <1>1 DEF Queued
<1>5. \A e \in Entries : Queued(e)' <=> Queued(e) /\ e # x
  <2>1. \A i \in 1..Len(addLLCh) : i = 1 \/ (i - 1 \in 1..Len(addLLCh') /\ addLLCh'[i - 1] = addLLCh[i])
    BY <1>1
  <2>2. \A i \in 1..Len(addLLCh') : i + 1 \in 1..Len(addLLCh) /\ addLLCh[i + 1].entry # x
    BY <1>1 DEF OwnedOnce, OnePlace
  <2> QED BY <1>1, <2>1, <2>2 DEF Queued
<1>6. \A u \in DOMAIN lists \ {t} : lists'[u] = lists[u]
  BY <1>2
<1>7. /\ lists'[t] = Append(List(t), x) /\ DOMAIN lists' = DOMAIN lists \cup {t}
  BY <1>2
<1>8. t \in DOMAIN lists => List(t) = lists[t]
  BY DEF List
<1>9. t \notin DOMAIN lists => Len(List(t)) = 0
  BY DEF List
<1>10. \A e \in Entries : Listed(e)' <=> Listed(e) \/ e = x
  <2>1. ASSUME NEW e \in Entries, Listed(e)' PROVE Listed(e) \/ e = x
    <3>1. PICK u \in DOMAIN lists' : \E i \in 1..Len(lists'[u]) : lists'[u][i] = e
      BY <2>1 DEF Listed
    <3>2. CASE u # t
      BY <1>6, <1>7, <3>1, <3>2 DEF Listed
    <3>3. CASE u = t
      <4>1. PICK i \in 1..Len(List(t)) + 1 : Append(List(t), x)[i] = e
        BY <1>3, <1>7, <3>1, <3>3
      <4>2. CASE i = Len(List(t)) + 1
        BY <1>3, <4>1, <4>2
      <4>3. CASE i \in 1..Len(List(t))
        <5>1. List(t)[i] = e /\ t \in DOMAIN lists
          BY <1>3, <1>9, <4>1, <4>3
        <5> QED BY <1>8, <4>3, <5>1 DEF Listed
      <4> QED BY <1>3, <4>1, <4>2, <4>3
    <3> QED BY <3>2, <3>3
  <2>2. ASSUME NEW e \in Entries, Listed(e) PROVE Listed(e)'
    <3>1. PICK u \in DOMAIN lists : \E i \in 1..Len(lists[u]) : lists[u][i] = e
      BY <2>2 DEF Listed
    <3>2. CASE u # t
      BY <1>6, <1>7, <3>1, <3>2 DEF Listed
    <3>3. CASE u = t
      BY <1>3, <1>7, <1>8, <3>1, <3>3 DEF Listed
    <3> QED BY <3>2, <3>3
  <2>3. ASSUME NEW e \in Entries, e = x PROVE Listed(e)'
    BY <1>3, <1>7, <2>3 DEF Listed
  <2> QED BY <2>1, <2>2, <2>3
<1>11. /\ \A d \in Callers, e \in Entries : Sending(d, e)' <=> Sending(d, e)
       /\ \A e \in Entries : Evicting(e)' <=> Evicting(e)
  BY <1>2 DEF Sending, Evicting
<1>12. x \notin pool /\ ~Listed(x) /\ ~Evicting(x) /\ \A d \in Callers : ~Sending(d, x)
  BY <1>1, <1>4 DEF OwnedOnce, OneOwner
<1>13. NoneLost' /\ OneOwner'
  <2>1. NoneLost'
    BY <1>2, <1>5, <1>10, <1>11 DEF OwnedOnce, NoneLost
  <2>2. OneOwner'
    BY <1>2, <1>5, <1>10, <1>11, <1>12 DEF OwnedOnce, OneOwner
  <2> QED BY <2>1, <2>2
<1>14. OnePlace'
  <2>1. \A i, j \in 1..Len(addLLCh') : addLLCh'[i].entry = addLLCh'[j].entry => i = j
    <3> SUFFICES ASSUME NEW i \in 1..Len(addLLCh'), NEW j \in 1..Len(addLLCh'),
                        addLLCh'[i].entry = addLLCh'[j].entry
                 PROVE  i = j
      OBVIOUS
    <3>1. i + 1 \in 1..Len(addLLCh) /\ j + 1 \in 1..Len(addLLCh)
      BY <1>1
    <3>2. addLLCh[i + 1].entry = addLLCh[j + 1].entry
      BY <1>1
    <3>3. i + 1 = j + 1
      BY <3>1, <3>2 DEF OwnedOnce, OnePlace
    <3> QED BY <3>3
  <2>2. ASSUME NEW u \in DOMAIN lists', NEW i \in 1..Len(lists'[u])
        PROVE  \/ u = t /\ i = Len(List(t)) + 1 /\ lists'[u][i] = x
               \/ /\ u \in DOMAIN lists /\ i \in 1..Len(lists[u])
                  /\ lists'[u][i] = lists[u][i] /\ lists[u][i] # x
                  /\ u = t => i <= Len(List(t))
    <3>1. CASE u # t
      BY <1>6, <1>7, <1>12, <2>2, <3>1 DEF Listed
    <3>2. CASE u = t /\ i = Len(List(t)) + 1
      BY <1>3, <1>7, <3>2
    <3>3. CASE u = t /\ i \in 1..Len(List(t))
      BY <1>3, <1>7, <1>8, <1>9, <1>12, <3>3 DEF Listed
    <3> QED BY <1>3, <1>7, <2>2, <3>1, <3>2, <3>3
  <2>3. \A u, v \in DOMAIN lists' : \A i \in 1..Len(lists'[u]), j \in 1..Len(lists'[v]) :
          lists'[u][i] = lists'[v][j] => u = v /\ i = j
    BY <2>2 DEF OwnedOnce, OnePlace
  <2> QED BY <1>11, <2>1, <2>3 DEF OwnedOnce, OnePlace
<1> QED BY <1>13, <1>14 DEF OwnedOnce

(* A sweep takes it off the list.                                          *)
LEMMA SweepTakeOwners ==
  ASSUME TypeOK, OwnedOnce, NEW t, SweepTake(t)
  PROVE  OwnedOnce'
<1> DEFINE u == Truncate(t)
<1>1. /\ u \in DOMAIN lists /\ lists[u] \in Seq(Entries) /\ lists[u] # <<>>
      /\ went' = Head(lists[u]) /\ lists' = [lists EXCEPT ![u] = Tail(lists[u])]
      /\ wpc = "sweep" /\ wpc' = "unmap" /\ UNCHANGED <<pool, addLLCh, pc, ent>>
  BY ListType DEF SweepTake, caller, TypeOK
<1> HIDE DEF u
<1>2. PICK x \in Entries : x = Head(lists[u])
  BY <1>1, HeadTail
<1>3. /\ x = lists[u][1] /\ Len(lists[u]) \in Nat \ {0} /\ went' = x
      /\ Len(lists'[u]) = Len(lists[u]) - 1
      /\ \A i \in 1..Len(lists'[u]) : lists'[u][i] = lists[u][i + 1]
      /\ DOMAIN lists' = DOMAIN lists
      /\ \A v \in DOMAIN lists \ {u} : lists'[v] = lists[v]
  <2>1. lists'[u] = Tail(lists[u])
    BY <1>1
  <2> QED BY <1>1, <1>2, <2>1, HeadTail
<1>4. /\ \A d \in Callers, e \in Entries : Sending(d, e)' <=> Sending(d, e)
      /\ \A e \in Entries : Queued(e)' <=> Queued(e)
      /\ \A e \in Entries : ~Evicting(e) /\ (Evicting(e)' <=> e = x)
  BY <1>1, <1>3 DEF Sending, Queued, Evicting
<1>5. Listed(x)
  BY <1>1, <1>3 DEF Listed
<1>6. ASSUME NEW v \in DOMAIN lists', NEW i \in 1..Len(lists'[v])
      PROVE  /\ v = u => i + 1 \in 1..Len(lists[v]) /\ lists'[v][i] = lists[v][i + 1]
             /\ v # u => i \in 1..Len(lists[v]) /\ lists'[v][i] = lists[v][i]
             /\ lists'[v][i] # x
  <2>1. CASE v = u
    BY <1>1, <1>3, <1>6, <2>1 DEF OwnedOnce, OnePlace
  <2>2. CASE v # u
    BY <1>1, <1>3, <1>6, <2>2 DEF OwnedOnce, OnePlace
  <2> QED BY <2>1, <2>2
<1>7. \A e \in Entries : Listed(e)' <=> Listed(e) /\ e # x
  <2>1. ASSUME NEW e \in Entries, Listed(e)' PROVE Listed(e) /\ e # x
    BY <1>3, <1>6, <2>1 DEF Listed
  <2>2. ASSUME NEW e \in Entries, Listed(e), e # x PROVE Listed(e)'
    <3>1. PICK v \in DOMAIN lists : \E i \in 1..Len(lists[v]) : lists[v][i] = e
      BY <2>2 DEF Listed
    <3>2. CASE v # u
      BY <1>3, <3>1, <3>2 DEF Listed
    <3>3. CASE v = u
      <4>1. PICK i \in 1..Len(lists[u]) : lists[u][i] = e
        BY <3>1, <3>3
      <4>2. i - 1 \in 1..Len(lists'[u]) /\ lists'[u][i - 1] = e
        BY <1>3, <2>2, <4>1
      <4> QED BY <1>1, <1>3, <4>2 DEF Listed
    <3> QED BY <3>2, <3>3
  <2> QED BY <2>1, <2>2
<1>8. x \notin pool /\ ~Queued(x) /\ \A d \in Callers : ~Sending(d, x)
  BY <1>5 DEF OwnedOnce, OneOwner
<1>9. NoneLost'
  BY <1>1, <1>4, <1>7 DEF OwnedOnce, NoneLost
<1>10. OneOwner'
  BY <1>1, <1>4, <1>7, <1>8 DEF OwnedOnce, OneOwner
<1>11. OnePlace'
  <2>1. ASSUME NEW v \in DOMAIN lists', NEW w \in DOMAIN lists',
               NEW i \in 1..Len(lists'[v]), NEW j \in 1..Len(lists'[w]),
               lists'[v][i] = lists'[w][j]
        PROVE  v = w /\ i = j
    <3>1. CASE v = u /\ w = u
      <4>1. i + 1 = j + 1
        BY <1>1, <1>6, <2>1, <3>1 DEF OwnedOnce, OnePlace
      <4> QED BY <3>1, <4>1
    <3>2. CASE v # u /\ w # u
      BY <1>3, <1>6, <2>1, <3>2 DEF OwnedOnce, OnePlace
    <3>3. CASE v = u /\ w # u
      BY <1>3, <1>6, <2>1, <3>3 DEF OwnedOnce, OnePlace
    <3>4. CASE v # u /\ w = u
      BY <1>3, <1>6, <2>1, <3>4 DEF OwnedOnce, OnePlace
    <3> QED BY <3>1, <3>2, <3>3, <3>4
  <2> QED BY <1>1, <1>4, <2>1 DEF OwnedOnce, OnePlace
<1> QED BY <1>9, <1>10, <1>11 DEF OwnedOnce

(* putEntry returns it.                                                    *)
LEMMA PutEntryOwners ==
  ASSUME TypeOK, OwnedOnce, PutEntry
  PROVE  OwnedOnce'
<1>1. PICK x \in Entries : x = went
  BY DEF PutEntry, TypeOK
<1>2. /\ wpc = "put" /\ wpc' = "sweep" /\ pool' = pool \cup {x}
      /\ UNCHANGED <<addLLCh, lists, pc, ent>>
  BY <1>1 DEF PutEntry, store, caller
<1>3. /\ \A d \in Callers, e \in Entries : Sending(d, e)' <=> Sending(d, e)
      /\ \A e \in Entries : (Queued(e)' <=> Queued(e)) /\ (Listed(e)' <=> Listed(e))
      /\ \A e \in Entries : ~Evicting(e)' /\ (Evicting(e) <=> e = x)
  BY <1>1, <1>2 DEF Sending, Queued, Listed, Evicting
<1>4. NoneLost' /\ OneOwner'
  BY <1>2, <1>3 DEF OwnedOnce, NoneLost, OneOwner
<1>5. OnePlace'
  BY <1>2, <1>3 DEF OwnedOnce, OnePlace
<1> QED BY <1>4, <1>5 DEF OwnedOnce

LEMMA NextOwners ==
  ASSUME TypeOK, OwnedOnce, [Next]_vars
  PROVE  OwnedOnce'
<1> USE DEF TypeOK, store, fields, caller, worker, Sending, Evicting, Goto
<1>1. ASSUME NEW c \in Callers, AnyCall(c) PROVE OwnedOnce'
  <2>1. pc[c] = "idle" /\ pc'[c] \in AllOps /\ ent' = ent
    BY <1>1 DEF AnyCall, Call, AllOps
  <2>2. UNCHANGED <<pool, addLLCh, lists, wpc, went>> /\ \A d \in Callers \ {c} : pc'[d] = pc[d]
    BY <1>1 DEF AnyCall, Call
  <2> QED BY <2>1, <2>2, OwnersFrame DEF AllOps
<1>2. ASSUME NEW c \in Callers, Step(c) PROVE OwnedOnce'
  <2>1. ASSUME NEW e \in Entries, SetStore(c, e) PROVE OwnedOnce'
    BY <2>1, SetStoreOwners
  <2>2. CASE SetSend(c)
    BY <2>2, SetSendOwners
  <2>3. ASSUME pc[c] # "send", pc'[c] # "send",
               \A d \in Callers \ {c} : pc'[d] = pc[d] /\ ent'[d] = ent[d],
               UNCHANGED <<pool, addLLCh, lists, wpc, went>>
        PROVE  OwnedOnce'
    BY <2>3, OwnersFrame
  <2>4. CASE LoadHit(c)
    BY <2>3, <2>4 DEF LoadHit, AfterHit
  <2>5. CASE LoadMiss(c)
    BY <2>3, <2>5 DEF LoadMiss, AfterMiss
  <2>6. CASE RemoveMiss(c) \/ GetReturn(c) \/ SwapEvicted(c) \/ RemoveExpire(c)
    BY <2>3, <2>6 DEF RemoveMiss, GetReturn, SwapEvicted, RemoveExpire, Leave
  <2>7. CASE GetRead(c) \/ GetExpired(c) \/ SwapExchange(c) \/ RemoveUnmap(c) \/ RemoveReset(c)
    BY <2>3, <2>7 DEF GetRead, GetExpired, SwapExchange, RemoveUnmap, RemoveReset
  <2> QED BY <1>2, <2>1, <2>2, <2>4, <2>5, <2>6, <2>7 DEF Step
<1>3. CASE WorkerRecv
  BY <1>3, WorkerRecvOwners
<1>4. CASE StartSweep
  BY <1>4, OwnersFrame DEF StartSweep
<1>5. CASE Sweep
  <2>1. ASSUME NEW t \in todo, SweepSkip(t) PROVE OwnedOnce'
    BY <2>1, OwnersFrame DEF SweepSkip
  <2>2. ASSUME NEW t \in todo, SweepTake(t) PROVE OwnedOnce'
    BY <2>2, SweepTakeOwners
  <2>3. CASE EndSweep
    BY <2>3, OwnersFrame DEF EndSweep
  <2>4. CASE WorkerUnmap \/ WorkerValue \/ WorkerEvict
    BY <2>4, OwnersFrame DEF WorkerUnmap, WorkerValue, WorkerEvict
  <2>5. CASE PutEntry
    BY <2>5, PutEntryOwners
  <2> QED BY <1>5, <2>1, <2>2, <2>3, <2>4, <2>5 DEF Sweep
<1>6. ASSUME NEW e \in Entries, Expire(e) PROVE OwnedOnce'
  BY <1>6, OwnersFrame DEF Expire
<1>7. CASE UNCHANGED vars
  BY <1>7, OwnersFrame DEF vars
<1> QED BY <1>1, <1>2, <1>3, <1>4, <1>5, <1>6, <1>7 DEF Next

(* Every entry has exactly one owner at all times.                         *)
THEOREM EntriesOwnedOnce == Spec => []OwnedOnce
<1>1. Init => OwnedOnce
  BY DEF Init, OwnedOnce, NoneLost, OneOwner, OnePlace, Sending, Queued, Listed, Evicting
<1>2. TypeOK /\ OwnedOnce /\ [Next]_vars => OwnedOnce'
  BY NextOwners
<1> QED BY <1>1, <1>2, KVSMTypes, PTL DEF Spec

-----------------------------------------------------------------------------
(* What the map may name, by the types and the ownership of entries.       *)

LEMMA NextMap ==
  ASSUME TypeOK, OwnedOnce, MapPointsHome, [Next]_vars
  PROVE  MapPointsHome'
<1> USE ConstantsOK DEF TypeOK, store, fields, caller, worker, Evicting
(* Most actions only take names out of the map.                            *)
<1>1. ASSUME UNCHANGED <<key, pool>>,
             \A k \in Keys : items'[k] \in {items[k], NoEntry},
             \A e \in Entries : Evicting(e)' /\ wpc' # "unmap" => Evicting(e) /\ wpc # "unmap"
      PROVE  MapPointsHome'
  BY <1>1 DEF MapPointsHome
<1>2. ASSUME NEW c \in Callers, AnyCall(c) PROVE MapPointsHome'
  BY <1>1, <1>2 DEF AnyCall, Call
<1>3. ASSUME NEW c \in Callers, Step(c) PROVE MapPointsHome'
  <2>1. ASSUME NEW e \in Entries, SetStore(c, e) PROVE MapPointsHome'
    <3>1. /\ e \in pool /\ pool' = pool \ {e} /\ UNCHANGED <<wpc, went>>
          /\ req[c].k \in Keys
          /\ key' = [key EXCEPT ![e] = req[c].k] /\ items' = [items EXCEPT ![req[c].k] = e]
      BY <2>1 DEF SetStore
    <3>2. ~Evicting(e)
      BY <3>1 DEF OwnedOnce, OneOwner
    <3>3. \A k \in Keys : items[k] # e
      BY <3>1 DEF MapPointsHome
    <3>4. ASSUME NEW k \in Keys, items'[k] # NoEntry
          PROVE  key'[items'[k]] = k /\ items'[k] \notin pool'
                 /\ ~(Evicting(items[k])' /\ wpc' # "unmap")
      <4>1. CASE k = req[c].k
        BY <3>1, <3>2, <4>1
      <4>2. CASE k # req[c].k
        BY <3>1, <3>3, <3>4, <4>2 DEF MapPointsHome
      <4> QED BY <4>1, <4>2
    <3> QED BY <3>4 DEF MapPointsHome
  <2>2. CASE RemoveUnmap(c)
    BY <1>1, <2>2 DEF RemoveUnmap
  <2>3. CASE SetSend(c) \/ RemoveMiss(c) \/ GetReturn(c) \/ SwapEvicted(c) \/ RemoveExpire(c)
    BY <1>1, <2>3 DEF SetSend, RemoveMiss, GetReturn, SwapEvicted, RemoveExpire
  <2>4. CASE LoadHit(c) \/ LoadMiss(c) \/ GetRead(c) \/ GetExpired(c)
    BY <1>1, <2>4 DEF LoadHit, LoadMiss, GetRead, GetExpired
  <2>5. CASE SwapExchange(c) \/ RemoveReset(c)
    BY <1>1, <2>5 DEF SwapExchange, RemoveReset
  <2> QED BY <1>3, <2>1, <2>2, <2>3, <2>4, <2>5 DEF Step
<1>4. CASE WorkerRecv \/ StartSweep
  BY <1>1, <1>4 DEF WorkerRecv, StartSweep
<1>5. CASE Sweep
  <2>1. ASSUME NEW t \in todo, SweepSkip(t) PROVE MapPointsHome'
    BY <1>1, <2>1 DEF SweepSkip
  <2>2. ASSUME NEW t \in todo, SweepTake(t) PROVE MapPointsHome'
    BY <1>1, <2>2 DEF SweepTake
  <2>3. CASE EndSweep \/ WorkerValue \/ WorkerEvict
    BY <1>1, <2>3 DEF EndSweep, WorkerValue, WorkerEvict
  (* The entry being evicted was named by its own key only.                *)
  <2>4. CASE WorkerUnmap
    <3>1. /\ wpc = "unmap" /\ wpc' = "value" /\ UNCHANGED <<key, pool, went>>
          /\ items' = [items EXCEPT ![key[went]] = NoEntry] /\ went \in Entries
      BY <2>4 DEF WorkerUnmap
    <3>2. ASSUME NEW k \in Keys, items'[k] # NoEntry
          PROVE  items'[k] = items[k] /\ items[k] # went
      BY <3>1, <3>2 DEF MapPointsHome
    <3> QED BY <3>1, <3>2 DEF MapPointsHome
  <2>5. CASE PutEntry
    <3>1. /\ wpc = "put" /\ wpc' = "sweep" /\ pool' = pool \cup {went} /\ items' = items
          /\ key' = [key EXCEPT ![went] = NoKey]
      BY <2>5 DEF PutEntry
    <3>2. \A k \in Keys : items[k] # NoEntry => items[k] # went
      BY <3>1 DEF MapPointsHome
    <3> QED BY <3>1, <3>2 DEF MapPointsHome
  <2> QED BY <1>5, <2>1, <2>2, <2>3, <2>4, <2>5 DEF Sweep
<1>6. ASSUME NEW e \in Entries, Expire(e) PROVE MapPointsHome'
  BY <1>1, <1>6 DEF Expire
<1>7. CASE UNCHANGED vars
  BY <1>1, <1>7 DEF vars
<1> QED BY <1>2, <1>3, <1>4, <1>5, <1>6, <1>7 DEF Next

(* A Load never finds an entry that has been recycled, nor one that is     *)
(* stored under another key.                                               *)
THEOREM MapNamesLiveEntries == Spec => []MapPointsHome
<1>1. Init => MapPointsHome
  BY DEF Init, MapPointsHome
<1>2. TypeOK /\ OwnedOnce /\ MapPointsHome /\ [Next]_vars => MapPointsHome'
  BY NextMap
<1> QED BY <1>1, <1>2, KVSMTypes, EntriesOwnedOnce, PTL DEF Spec

-----------------------------------------------------------------------------
(* What Len() counts.                                                      *)

LEMMA NextCount ==
  ASSUME TypeOK, OwnedOnce, CountMatches, [Next]_vars
  PROVE  CountMatches'
<1> USE ConstantsOK DEF TypeOK, store, fields, caller, worker, Evicting
<1>0. IsFiniteSet(Counted)
  BY FS_Subset DEF Counted
<1>1. ASSUME UNCHANGED <<n, Counted>> PROVE CountMatches'
  BY <1>1 DEF CountMatches
<1>2. ASSUME UNCHANGED <<n, pool>>,
             \A e \in Entries : (Evicting(e) /\ wpc # "unmap")' <=> Evicting(e) /\ wpc # "unmap"
      PROVE  CountMatches'
  BY <1>1, <1>2 DEF Counted
<1>3. ASSUME NEW c \in Callers, AnyCall(c) PROVE CountMatches'
  BY <1>2, <1>3 DEF AnyCall, Call
<1>4. ASSUME NEW c \in Callers, Step(c) PROVE CountMatches'
  <2>1. ASSUME NEW e \in Entries, SetStore(c, e) PROVE CountMatches'
    <3>1. e \in pool /\ pool' = pool \ {e} /\ n' = n + 1 /\ UNCHANGED <<wpc, went>>
      BY <2>1 DEF SetStore
    <3>2. ~Evicting(e) /\ e \notin Counted
      BY <3>1 DEF OwnedOnce, OneOwner, Counted
    <3>3. Counted' = Counted \cup {e}
      BY <3>1, <3>2 DEF Counted
    <3> QED BY <1>0, <3>1, <3>2, <3>3, FS_AddElement DEF CountMatches
  <2>2. CASE SetSend(c) \/ RemoveMiss(c) \/ GetReturn(c) \/ SwapEvicted(c) \/ RemoveExpire(c)
    BY <1>2, <2>2 DEF SetSend, RemoveMiss, GetReturn, SwapEvicted, RemoveExpire
  <2>3. CASE LoadHit(c) \/ LoadMiss(c) \/ GetRead(c) \/ GetExpired(c)
    BY <1>2, <2>3 DEF LoadHit, LoadMiss, GetRead, GetExpired
  <2>4. CASE SwapExchange(c) \/ RemoveUnmap(c) \/ RemoveReset(c)
    BY <1>2, <2>4 DEF SwapExchange, RemoveUnmap, RemoveReset
  <2> QED BY <1>4, <2>1, <2>2, <2>3, <2>4 DEF Step
<1>5. CASE WorkerRecv \/ StartSweep
  BY <1>2, <1>5 DEF WorkerRecv, StartSweep
<1>6. CASE Sweep
  <2>1. ASSUME NEW t \in todo, SweepSkip(t) PROVE CountMatches'
    BY <1>2, <2>1 DEF SweepSkip
  <2>2. ASSUME NEW t \in todo, SweepTake(t) PROVE CountMatches'
    BY <1>2, <2>2 DEF SweepTake
  <2>3. CASE EndSweep \/ WorkerValue \/ WorkerEvict
    BY <1>2, <2>3 DEF EndSweep, WorkerValue, WorkerEvict
  <2>4. CASE WorkerUnmap
    <3>1. wpc = "unmap" /\ wpc' = "value" /\ n' = n - 1 /\ UNCHANGED <<pool, went>> /\ went \in Entries
      BY <2>4 DEF WorkerUnmap
    <3>2. went \notin pool
      BY <3>1 DEF OwnedOnce, OneOwner
    <3>3. went \in Counted /\ Counted' = Counted \ {went}
      BY <3>1, <3>2 DEF Counted
    <3> QED BY <1>0, <3>1, <3>3, FS_RemoveElement DEF CountMatches
  <2>5. CASE PutEntry
    <3>1. wpc = "put" /\ wpc' = "sweep" /\ pool' = pool \cup {went} /\ n' = n
      BY <2>5 DEF PutEntry
    <3>2. Counted' = Counted
      BY <3>1 DEF Counted
    <3> QED BY <1>1, <3>1, <3>2
  <2> QED BY <1>6, <2>1, <2>2, <2>3, <2>4, <2>5 DEF Sweep
<1>7. ASSUME NEW e \in Entries, Expire(e) PROVE CountMatches'
  BY <1>2, <1>7 DEF Expire
<1>8. CASE UNCHANGED vars
  BY <1>2, <1>8 DEF vars
<1> QED BY <1>3, <1>4, <1>5, <1>6, <1>7, <1>8 DEF Next

(* Len() is the number of entries stored and not yet collected.            *)
THEOREM LenCountsEntries == Spec => []CountMatches
<1>1. Init => CountMatches
  <2>1. Init => Counted = {}
    BY DEF Init, Counted
  <2> QED BY <2>1, FS_EmptySet DEF Init, CountMatches
<1>2. TypeOK /\ OwnedOnce /\ CountMatches /\ [Next]_vars => CountMatches'
  BY NextCount
<1> QED BY <1>1, <1>2, KVSMTypes, EntriesOwnedOnce, PTL DEF Spec

-----------------------------------------------------------------------------
(* The lists, as the worker uses them, are the queues of FifoQueues.       *)

(* A list of the model is given new contents, and no other changes.        *)
LEMMA Becomes ==
  ASSUME NEW q \in ListTTLs, NEW s,
         \A t \in ListTTLs : List(t)' = IF t = q THEN s ELSE List(t)
  PROVE  Filing!Become(q, s)
<1> DEFINE queue  == [t \in ListTTLs |-> List(t)]
           front  == [t \in ListTTLs |-> IF List(t) = <<>> THEN NoEntry ELSE Head(List(t))]
           length == [t \in ListTTLs |-> Len(List(t))]
<1>1. queue' = [t \in ListTTLs |-> IF t = q THEN s ELSE List(t)]
  OBVIOUS
<1>2. queue' = [queue EXCEPT ![q] = s]
  BY <1>1
<1>3. front' = [front EXCEPT ![q] = IF s = <<>> THEN NoEntry ELSE Head(s)]
  OBVIOUS
<1>4. length' = [length EXCEPT ![q] = Len(s)]
  OBVIOUS
<1> QED
  BY <1>2, <1>3, <1>4 DEF Filing!Become, Filing!First

LEMMA NothingFiled ==
  ASSUME \A t \in ListTTLs : List(t)' = List(t)
  PROVE  UNCHANGED Filing!vars
BY DEF Filing!vars

(* What the worker receives is in no list: it belonged to the channel.     *)
LEMMA RecvIsPush ==
  ASSUME TypeOK, OwnedOnce, WorkerRecv
  PROVE  Filing!Next
<1> DEFINE x == Head(addLLCh).entry  q == Normal(Head(addLLCh).ttl)
<1>1. addLLCh # <<>> /\ addLLCh \in Seq([ttl : TTLs, entry : Entries])
  BY DEF WorkerRecv, TypeOK
<1>2. x \in Entries /\ q \in ListTTLs /\ x = addLLCh[1].entry /\ 1 \in 1..Len(addLLCh)
  BY <1>1, ChannelHead, HeadTail
<1>3. lists' = [u \in DOMAIN lists \cup {q} |-> IF u = q THEN Append(List(q), x) ELSE lists[u]]
  BY DEF WorkerRecv
<1> HIDE DEF x, q
<1>4. \A t \in ListTTLs : List(t)' = IF t = q THEN Append(List(q), x) ELSE List(t)
  BY <1>2, <1>3 DEF List
<1>5. ~Listed(x)
  BY <1>2 DEF Queued, OwnedOnce, OneOwner
<1>6. \A t \in ListTTLs : x \notin Filing!Elems(List(t))
  BY <1>5 DEF Listed, List, Filing!Elems
<1>7. Filing!Become(q, Append(List(q), x))
  BY <1>2, <1>4, Becomes
<1> QED
  BY <1>2, <1>6, <1>7 DEF Filing!Next, Filing!Push

LEMMA TakeIsPop ==
  ASSUME TypeOK, NEW t, SweepTake(t)
  PROVE  Filing!Next
<1> DEFINE u == Truncate(t)
<1>1. List(u) # <<>> /\ lists' = [lists EXCEPT ![u] = Tail(lists[u])]
  BY DEF SweepTake
<1> HIDE DEF u
<1>2. u \in ListTTLs /\ u \in DOMAIN lists /\ List(u) = lists[u]
  BY <1>1, ListType DEF TypeOK
<1> DEFINE rest == Tail(List(u))
<1>3. \A v \in ListTTLs : List(v)' = IF v = u THEN rest ELSE List(v)
  BY <1>1, <1>2 DEF List, TypeOK
<1> HIDE DEF rest
<1>4. Filing!Become(u, rest)
  BY <1>2, <1>3, Becomes
<1> QED
  BY <1>1, <1>2, <1>4 DEF rest, Filing!Next, Filing!Pop

LEMMA NextFiles ==
  ASSUME TypeOK, OwnedOnce, [Next]_vars
  PROVE  [Filing!Next]_(Filing!vars)
<1>1. CASE WorkerRecv
  BY <1>1, RecvIsPush
<1>2. CASE \E t \in todo : SweepTake(t)
  BY <1>2, TakeIsPop
<1>3. CASE ~WorkerRecv /\ ~\E t \in todo : SweepTake(t)
  <2>1. lists' = lists
    <3> USE DEF store, fields, caller, worker
    <3>1. ASSUME NEW c \in Callers, AnyCall(c) PROVE lists' = lists
      BY <3>1 DEF AnyCall, Call
    <3>2. ASSUME NEW c \in Callers, Step(c) PROVE lists' = lists
      BY <3>2 DEF Step, SetStore, SetSend, LoadHit, LoadMiss, RemoveMiss, GetRead, GetExpired,
                  GetReturn, SwapExchange, SwapEvicted, RemoveUnmap, RemoveReset, RemoveExpire
    <3>3. CASE StartSweep
      BY <3>3 DEF StartSweep
    <3>4. CASE Sweep
      BY <1>3, <3>4 DEF Sweep, SweepSkip, EndSweep, WorkerUnmap, WorkerValue, WorkerEvict, PutEntry
    <3>5. ASSUME NEW e \in Entries, Expire(e) PROVE lists' = lists
      BY <3>5 DEF Expire
    <3>6. CASE UNCHANGED vars
      BY <3>6 DEF vars
    <3> QED
      BY <1>3, <3>1, <3>2, <3>3, <3>4, <3>5, <3>6 DEF Next
  <2>2. \A t \in ListTTLs : List(t)' = List(t)
    BY <2>1 DEF List
  <2> QED
    BY <2>2, NothingFiled
<1> QED
  BY <1>1, <1>2, <1>3

(* The store files its entries in first-in first-out queues, and an entry  *)
(* in one of them at most.                                                 *)
THEOREM StoreFilesInQueues == Spec => ListsAreQueues
<1>1. Init => Filing!Init
  <2> SUFFICES ASSUME Init PROVE Filing!Init
    OBVIOUS
  <2>1. \A t \in ListTTLs : List(t) = <<>>
    BY DEF Init, List
  <2> QED
    BY <2>1 DEF Filing!Init
<1>2. TypeOK /\ OwnedOnce /\ [Next]_vars => [Filing!Next]_(Filing!vars)
  BY NextFiles
<1> QED
  BY <1>1, <1>2, KVSMTypes, EntriesOwnedOnce, PTL DEF Spec, ListsAreQueues, Filing!Spec

-----------------------------------------------------------------------------
(* The TTLs for which the sweep looks where the entries were filed: whole  *)
(* seconds, and those that are lifted to one.                              *)
WholeSeconds == \A t \in TTLs : t < 1000 \/ t % 1000 = 0

LEMMA TruncateNormal ==
  ASSUME WholeSeconds, NEW t \in ListTTLs
  PROVE  Truncate(t) = t
<1>1. PICK u \in TTLs : t = Normal(u)
  BY DEF ListTTLs
<1>2. u \in Nat /\ (u < 1000 \/ u % 1000 = 0)
  BY ConstantsOK DEF WholeSeconds
<1>3. (1000 \div 1000) * 1000 = 1000
  OBVIOUS
<1>4. u % 1000 = 0 => (u \div 1000) * 1000 = u
  BY <1>2
<1> QED
  BY <1>1, <1>2, <1>3, <1>4 DEF Normal, Truncate

(* Of such TTLs every sweep finds the list of each TTL it looks for: no    *)
(* list is passed over for ever.  (Of 1.5 seconds it does not hold: the    *)
(* sweep would look for the list of 1 second.)                             *)
THEOREM SweepsFindTheirLists ==
  ASSUME WholeSeconds
  PROVE  Spec => []SweepFindsList
<1> DEFINE Inv == todo \subseteq DOMAIN lists
<1>1. Init => Inv
  BY DEF Init
<1>2. TypeOK /\ Inv /\ [Next]_vars => Inv'
  <2> SUFFICES ASSUME TypeOK, Inv, [Next]_vars PROVE Inv'
    OBVIOUS
  <2> USE DEF store, fields, caller, worker
  <2>1. ASSUME NEW c \in Callers, AnyCall(c) PROVE Inv'
    BY <2>1 DEF AnyCall, Call
  <2>2. ASSUME NEW c \in Callers, Step(c) PROVE Inv'
    BY <2>2 DEF Step, SetStore, SetSend, LoadHit, LoadMiss, RemoveMiss, GetRead, GetExpired,
                GetReturn, SwapExchange, SwapEvicted, RemoveUnmap, RemoveReset, RemoveExpire
  <2>3. CASE WorkerRecv
    BY <2>3 DEF WorkerRecv
  <2>4. CASE StartSweep
    BY <2>4 DEF StartSweep
  <2>5. ASSUME NEW t \in todo, SweepSkip(t) \/ SweepTake(t) PROVE Inv'
    BY <2>5 DEF SweepSkip, SweepTake
  <2>6. CASE EndSweep \/ WorkerUnmap \/ WorkerValue \/ WorkerEvict \/ PutEntry
    BY <2>6 DEF EndSweep, WorkerUnmap, WorkerValue, WorkerEvict, PutEntry
  <2>7. ASSUME NEW e \in Entries, Expire(e) PROVE Inv'
    BY <2>7 DEF Expire
  <2>8. CASE UNCHANGED vars
    BY <2>8 DEF vars
  <2> QED
    BY <2>1, <2>2, <2>3, <2>4, <2>5, <2>6, <2>7, <2>8 DEF Next, Sweep
<1>3. TypeOK /\ Inv => SweepFindsList
  BY TruncateNormal DEF TypeOK, SweepFindsList
<1> QED
  BY <1>1, <1>2, <1>3, KVSMTypes, PTL DEF Spec
=============================================================================
