--------------------------- MODULE ResponsesProofs ---------------------------
(***************************************************************************)
(* Theorems on Responses: types, and the three promises of the cache, that *)
(* bodies are stored whole, that nothing private is stored or served, and  *)
(* that a refresh clears what was there, for any requests, replies, rules, *)
(* threads and devices.                                                    *)
(***************************************************************************)
EXTENDS Responses, SequenceTheorems, TLAPS

Labels     == {"idle", "lookup", "refresh", "pass", "fetch", "dump", "write", "done"}
Cached     == {"lookup", "fetch", "dump", "write", "done"}
Kinds      == {"mem", "temp", "disk"}
ItemFields == {"kind", "body", "status", "size", "ttl", "reply", "asked"}
ReadFields == {"from", "to", "seek", "left"}

Types ==
  /\ pc \in [Threads -> Labels]
  /\ req \in [Threads -> Requests \cup {NoRequest}]
  /\ DOMAIN range = Threads /\ DOMAIN item = Threads
  /\ DOMAIN read = Threads /\ DOMAIN out = Threads
  /\ \A t \in Threads : DOMAIN read[t] = ReadFields
  /\ DOMAIN cache = Keys
  /\ todo \in [Threads -> SUBSET uaDeviceCleaner]
  /\ before \in [Threads -> SUBSET Keys]
  /\ faults \in 0..MaxFaults
  /\ \A t \in Threads : pc[t] = "idle" <=> req[t] = NoRequest

(* While a refresh is under way, an old copy is gone or still to go.       *)
Cleared ==
  \A t \in Threads :
    /\ pc[t] = "refresh" => \A k \in before[t] :
         cache[k] = NoItem \/ \E d \in todo[t] : k = KeyOf(req[t], d)
    /\ pc[t] = "pass" => \A k \in before[t] : cache[k] = NoItem
    /\ pc[t] \notin {"refresh", "pass"} => before[t] = {}

Storable(i) ==
  /\ DOMAIN i = ItemFields /\ i.kind \in Kinds
  /\ ~Private(i.asked)
  /\ i.status = OK => IsValidRespHeader(rules.global, i.reply)

CacheOK ==
  \A k \in Keys : cache[k] # NoItem =>
    Storable(cache[k]) /\ cache[k].body = Bytes(0, cache[k].size) /\ k = Key(cache[k].asked)

(* An item that is being filled has what has been copied so far.           *)
Filled(i, r) ==
  /\ r.seek \in Nat /\ r.left \in Nat /\ i.size = r.seek + r.left
  /\ i.body = Bytes(0, r.seek)

FillOK ==
  \A t \in Threads :
    /\ pc[t] \in Cached => ~Private(req[t])
    /\ pc[t] = "dump" => Storable(item[t]) /\ item[t].asked = req[t] /\ Filled(item[t], read[t])

Inv == Types /\ Cleared /\ CacheOK /\ FillOK
-------------------------------------------------------------------------------
LEMMA BytesSeq ==
  ASSUME NEW a \in Nat, NEW n \in Nat
  PROVE  /\ Bytes(a, a + n) \in Seq(Nat)
         /\ Len(Bytes(a, a + n)) = n
         /\ \A i \in 1..n : Bytes(a, a + n)[i] = a + i
<1>1. (a + n) - a = n
  OBVIOUS
<1>2. Bytes(a, a + n) = [i \in 1..n |-> a + i]
  BY <1>1, Zenon DEF Bytes
<1>3. [i \in 1..n |-> a + i] \in [1..n -> Nat]
  OBVIOUS
<1> QED
  BY <1>2, <1>3

(* The next chunk goes behind the bytes before it.                         *)
LEMMA BytesJoin ==
  ASSUME NEW s \in Nat, NEW n \in Nat
  PROVE  Bytes(0, s) \o Bytes(s, s + n) = Bytes(0, s + n)
<1> DEFINE x == Bytes(0, s)  y == Bytes(s, s + n)  z == Bytes(0, s + n)
<1>1. /\ x \in Seq(Nat) /\ Len(x) = s /\ \A i \in 1..s : x[i] = i
      /\ z \in Seq(Nat) /\ Len(z) = s + n /\ \A i \in 1..(s + n) : z[i] = i
  <2>1. \A m \in Nat : /\ Bytes(0, m) \in Seq(Nat) /\ Len(Bytes(0, m)) = m
                       /\ \A i \in 1..m : Bytes(0, m)[i] = i
    <3> TAKE m \in Nat
    <3>1. 0 + m = m /\ \A i \in 1..m : 0 + i = i
      OBVIOUS
    <3>2. /\ Bytes(0, 0 + m) \in Seq(Nat) /\ Len(Bytes(0, 0 + m)) = m
          /\ \A i \in 1..m : Bytes(0, 0 + m)[i] = 0 + i
      BY BytesSeq
    <3> QED
      BY <3>1, <3>2, Zenon
  <2> QED
    BY <2>1
<1>2. y \in Seq(Nat) /\ Len(y) = n /\ \A i \in 1..n : y[i] = s + i
  BY BytesSeq
<1> HIDE DEF x, y, z
<1>3. /\ x \o y \in Seq(Nat) /\ Len(x \o y) = s + n
      /\ \A i \in 1..(s + n) : (x \o y)[i] = IF i <= s THEN x[i] ELSE y[i - s]
  BY <1>1, <1>2, ConcatProperties
<1>4. \A i \in 1..(s + n) : (x \o y)[i] = z[i]
  BY <1>1, <1>2, <1>3
<1>5. x \o y = z
  BY <1>1, <1>3, <1>4, SeqEqual
<1> QED
  BY <1>5 DEF x, y, z

(* A write touches the kind and the body, and one that is well appends.    *)
LEMMA WriteAppends ==
  ASSUME NEW i, DOMAIN i = ItemFields, i.kind \in Kinds, NEW b, NEW w \in Written(i, b), w.ok
  PROVE  /\ DOMAIN w.item = ItemFields /\ w.item.kind \in Kinds
         /\ w.item.body = i.body \o b
         /\ w.item.status = i.status /\ w.item.size = i.size
         /\ w.item.reply = i.reply /\ w.item.asked = i.asked
<1> DEFINE g == [i EXCEPT !.body = @ \o b]
           spills == i.kind = "mem" /\ ItemLen(g) > LimitForTempFile
           kind == IF spills THEN "temp" ELSE i.kind
<1>1. /\ DOMAIN g = ItemFields /\ g.kind = i.kind /\ g.body = i.body \o b
      /\ g.status = i.status /\ g.size = i.size /\ g.reply = i.reply /\ g.asked = i.asked
  BY DEF ItemFields
<1>2. \/ w = [item |-> [g EXCEPT !.kind = kind], ok |-> TRUE, fault |-> FALSE]
      \/ w = [item |-> [i EXCEPT !.kind = kind], ok |-> FALSE, fault |-> TRUE]
      \/ w = [item |-> g, ok |-> TRUE, fault |-> TRUE]
  BY Zenon DEF Written
<1>3. kind \in Kinds
  BY DEF Kinds
<1> HIDE DEF g, kind
<1>4. w.item = [g EXCEPT !.kind = kind] \/ w.item = g
  BY <1>2
<1> QED
  BY <1>1, <1>3, <1>4 DEF ItemFields
-------------------------------------------------------------------------------
LEMMA KeyInKeys ==
  ASSUME NEW q \in Requests
  PROVE  Key(q) \in Keys /\ \A d \in uaDeviceCleaner : KeyOf(q, d) \in Keys
BY ResponsesConstantsOK DEF Key, Keys

LEMMA InitInv ==
  ASSUME Init
  PROVE  Inv
<1>1. Types
  BY ResponsesConstantsOK DEF Init, Types, Labels, AtStart, ReadFields
<1>2. Cleared /\ CacheOK /\ FillOK
  BY DEF Init, Cleared, CacheOK, FillOK, Cached
<1> QED
  BY <1>1, <1>2 DEF Inv

(* What the end of a request does to the types.                            *)
LEMMA EndTypes ==
  ASSUME Types, NEW t \in Threads, End(t)
  PROVE  /\ pc' \in [Threads -> Labels]
         /\ req' \in [Threads -> Requests \cup {NoRequest}]
         /\ DOMAIN range' = Threads /\ DOMAIN item' = Threads
         /\ DOMAIN read' = Threads /\ DOMAIN out' = Threads
         /\ \A s \in Threads : DOMAIN read'[s] = ReadFields
         /\ todo' \in [Threads -> SUBSET uaDeviceCleaner]
         /\ \A s \in Threads : pc'[s] = "idle" <=> req'[s] = NoRequest
BY DEF Types, End, Go, Labels, AtStart, ReadFields

LEMMA ArriveTypes ==
  ASSUME Types, NEW t \in Threads, NEW q \in Requests, NEW h, Arrive(t, q, h)
  PROVE  Types'
<1> DEFINE v == Verdict(rules.global, rules.domain, q)
           l == CASE v.ok -> "lookup" [] v.refresh -> "refresh" [] OTHER -> "pass"
<1>1. l \in {"lookup", "refresh", "pass"}
  OBVIOUS
<1>2. pc' = [pc EXCEPT ![t] = l] /\ req' = [req EXCEPT ![t] = q] /\ range' = [range EXCEPT ![t] = h]
  BY Zenon DEF Arrive, Go
<1>3. UNCHANGED <<cache, item, read, out, faults>>
  BY DEF Arrive
<1>4. /\ todo' = [todo EXCEPT ![t] = uaDeviceCleaner] \/ todo' = todo
      /\ before' = [before EXCEPT ![t] = Copies(q)] \/ before' = before
  BY Zenon DEF Arrive
<1>5. Copies(q) \subseteq Keys
  BY DEF Copies
<1> HIDE DEF l, v
<1>6. /\ pc' \in [Threads -> Labels] /\ req' \in [Threads -> Requests \cup {NoRequest}]
      /\ \A s \in Threads : pc'[s] = "idle" <=> req'[s] = NoRequest
  BY <1>1, <1>2, ResponsesConstantsOK DEF Types, Labels
<1>7. todo' \in [Threads -> SUBSET uaDeviceCleaner] /\ before' \in [Threads -> SUBSET Keys]
  BY <1>4, <1>5 DEF Types
<1> QED
  BY <1>2, <1>3, <1>6, <1>7 DEF Types

LEMMA TypesStep ==
  ASSUME Types, Next
  PROVE  Types'
<1>1. ASSUME NEW t \in Threads, NEW a \in Asks[t], Arrive(t, a[1], a[2])
      PROVE  Types'
  <2>1. a[1] \in Requests
    BY <1>1 DEF Requests
  <2> QED
    BY <1>1, <2>1, ArriveTypes
<1>2. ASSUME NEW t \in Threads, Refresh(t)
      PROVE  Types'
  BY <1>2 DEF Types, Refresh, Go, Labels
<1>3. ASSUME NEW t \in Threads, Lookup(t)
      PROVE  Types'
  <2>1. UNCHANGED <<cache, req, range, todo, before>> /\ DOMAIN item' = Threads
    BY <1>3 DEF Lookup, Types
  <2>2. faults' \in 0..MaxFaults
    BY <1>3, ResponsesConstantsOK DEF Lookup, Types, Fault
  <2>3. /\ \E l \in {"fetch", "done", "write"} : pc' = [pc EXCEPT ![t] = l]
        /\ DOMAIN out' = Threads /\ DOMAIN read' = Threads
        /\ \A s \in Threads : DOMAIN read'[s] = ReadFields
    <3>1. CASE Hit(t, cache[Key(req[t])])
      <4>1. \/ Complain(t) \/ Whole(t, cache[Key(req[t])])
            \/ \E r : Part(t, cache[Key(req[t])], r)
        BY <3>1, Zenon DEF Hit
      <4> QED
        BY <4>1 DEF Complain, Whole, Part, Answer, Go, AtStart, Types, ReadFields
    <3>2. CASE Go(t, "fetch") /\ UNCHANGED <<item, read, out>>
      BY <3>2 DEF Go, Types
    <3> QED
      BY <1>3, <3>1, <3>2 DEF Lookup
  <2>4. pc[t] = "lookup"
    BY <1>3 DEF Lookup
  <2> QED
    BY <2>1, <2>2, <2>3, <2>4 DEF Types, Labels
<1>4. ASSUME NEW t \in Threads, Write(t)
      PROVE  Types'
  <2>1. UNCHANGED <<cache, req, range, item, todo, before>> /\ pc[t] = "write"
    BY <1>4 DEF Write
  <2>2. pc' = [pc EXCEPT ![t] = "done"] \/ pc' = pc
    BY <1>4 DEF Write, Go
  <2>3. faults' \in 0..MaxFaults
    <3>1. UNCHANGED faults \/ Fault(1)
      BY <1>4, Zenon DEF Write
    <3> QED
      BY <3>1, ResponsesConstantsOK DEF Types, Fault
  <2>4. /\ DOMAIN out' = Threads /\ DOMAIN read' = Threads
        /\ \A s \in Threads : DOMAIN read'[s] = ReadFields
    BY <1>4 DEF Write, Types
  <2> QED
    BY <2>1, <2>2, <2>3, <2>4 DEF Types, Labels
<1>5. ASSUME NEW t \in Threads, Fails(t) \/ Done(t) \/ \E p \in Replies : PassOn(t, p)
      PROVE  Types'
  <2>1. (End(t) /\ UNCHANGED cache /\ before' = [before EXCEPT ![t] = {}]) \/ Done(t)
    BY <1>5 DEF Fails, PassOn
  <2>2. End(t) /\ UNCHANGED cache /\ (before' = [before EXCEPT ![t] = {}] \/ before' = before)
    BY <2>1 DEF Done
  <2>3. faults' \in 0..MaxFaults
    BY <1>5, ResponsesConstantsOK DEF Fails, Done, PassOn, Fault, Types
  <2> QED
    BY <2>2, <2>3, EndTypes DEF Types
<1>6. ASSUME NEW t \in Threads, NEW p \in Replies, ModifyResponse(t, p)
      PROVE  Types'
  <2>1. UNCHANGED <<cache, req, range, out, todo, before, faults>> /\ pc[t] = "fetch"
    BY <1>6 DEF ModifyResponse
  <2>2. /\ pc' = [pc EXCEPT ![t] = "dump"] /\ DOMAIN item' = Threads
        /\ DOMAIN read' = Threads /\ \A s \in Threads : DOMAIN read'[s] = ReadFields
    BY <1>6 DEF ModifyResponse, Go, Types, AtStart, ReadFields
  <2> QED
    BY <2>1, <2>2 DEF Types, Labels
<1>7. ASSUME NEW t \in Threads, Dump(t)
      PROVE  Types'
  <2>1. UNCHANGED <<cache, before>> /\ faults' \in 0..MaxFaults
    BY <1>7, ResponsesConstantsOK DEF Dump, Fault, Types
  <2>2. CASE End(t)
    BY <2>1, <2>2, EndTypes DEF Types
  <2>3. CASE ~End(t)
    <3>1. /\ UNCHANGED <<pc, req, range, out, todo>> /\ DOMAIN item' = Threads
          /\ DOMAIN read' = Threads /\ \A s \in Threads : DOMAIN read'[s] = ReadFields
      BY <1>7, <2>3 DEF Dump, Types
    <3> QED
      BY <2>1, <3>1 DEF Types
  <2> QED
    BY <2>2, <2>3
<1>8. ASSUME NEW t \in Threads, Set(t)
      PROVE  Types'
  <2>1. End(t) /\ UNCHANGED faults /\ DOMAIN cache' = Keys
    BY <1>8 DEF Set, Types
  <2>2. before' \in [Threads -> SUBSET Keys]
    BY <1>8 DEF Set, Types
  <2> QED
    BY <2>1, <2>2, EndTypes DEF Types
<1>9. ASSUME NEW k \in Keys, Move(k) \/ Evict(k)
      PROVE  Types'
  BY <1>9 DEF Types, Move, Evict, perThread
<1> QED
  BY <1>1, <1>2, <1>3, <1>4, <1>5, <1>6, <1>7, <1>8, <1>9 DEF Next, Step

-------------------------------------------------------------------------------
(* Who clears what: of the requests only t's own part of Cleared is        *)
(* touched, and the cache only loses copies.                               *)
LEMMA ClearedFrame ==
  ASSUME Types, Cleared, NEW t \in Threads,
         \A s \in Threads \ {t} : pc'[s] = pc[s] /\ req'[s] = req[s] /\ todo'[s] = todo[s],
         \A s \in Threads \ {t} : \A k \in before'[s] :
           k \in before[s] /\ (cache[k] = NoItem => cache'[k] = NoItem),
         /\ pc'[t] = "refresh" => \A k \in before'[t] :
              cache'[k] = NoItem \/ \E d \in todo'[t] : k = KeyOf(req'[t], d)
         /\ pc'[t] = "pass" => \A k \in before'[t] : cache'[k] = NoItem
         /\ pc'[t] \notin {"refresh", "pass"} => before'[t] = {}
  PROVE  Cleared'
<1> SUFFICES ASSUME NEW s \in Threads \ {t}
             PROVE  /\ pc'[s] = "refresh" => \A k \in before'[s] :
                         cache'[k] = NoItem \/ \E d \in todo'[s] : k = KeyOf(req'[s], d)
                    /\ pc'[s] = "pass" => \A k \in before'[s] : cache'[k] = NoItem
                    /\ pc'[s] \notin {"refresh", "pass"} => before'[s] = {}
  BY DEF Cleared
<1>1. pc'[s] = pc[s] /\ req'[s] = req[s] /\ todo'[s] = todo[s]
  OBVIOUS
<1>2. \A k \in before'[s] : k \in before[s] /\ (cache[k] = NoItem => cache'[k] = NoItem)
  OBVIOUS
<1>3. before[s] = {} => before'[s] = {}
  BY <1>2
<1> QED
  BY <1>1, <1>2, <1>3 DEF Cleared

LEMMA ClearedStep ==
  ASSUME Types, Cleared, Next
  PROVE  Cleared'
<1>1. ASSUME NEW t \in Threads, NEW a \in Asks[t], Arrive(t, a[1], a[2])
      PROVE  Cleared'
  <2> DEFINE q == a[1]
             v == Verdict(rules.global, rules.domain, q)
             l == CASE v.ok -> "lookup" [] v.refresh -> "refresh" [] OTHER -> "pass"
  <2>1. /\ pc' = [pc EXCEPT ![t] = l] /\ req' = [req EXCEPT ![t] = q] /\ UNCHANGED cache
        /\ pc[t] = "idle"
        /\ \/ /\ todo' = [todo EXCEPT ![t] = uaDeviceCleaner]
              /\ before' = [before EXCEPT ![t] = Copies(q)]
              /\ v.refresh
           \/ UNCHANGED <<todo, before>> /\ ~v.refresh
    BY <1>1, Zenon DEF Arrive, Go
  <2>2. v.refresh => ~v.ok
    BY DEF Verdict, IsReqCachable
  <2>3. v.refresh => l = "refresh"
    BY <2>2
  <2>4. ~v.refresh => l # "refresh"
    OBVIOUS
  <2>5. \A k \in Copies(q) : \E d \in uaDeviceCleaner : k = KeyOf(q, d)
    BY DEF Copies
  <2>6. before[t] = {}
    BY <2>1 DEF Cleared
  <2> HIDE DEF l, v, q
  <2>7. /\ pc'[t] = l /\ req'[t] = q
        /\ \A s \in Threads \ {t} : pc'[s] = pc[s] /\ req'[s] = req[s]
    BY <2>1 DEF Types
  <2>8. CASE v.refresh
    <3>1. todo'[t] = uaDeviceCleaner /\ before'[t] = Copies(q)
      BY <2>1, <2>8 DEF Types
    <3>2. \A s \in Threads \ {t} : todo'[s] = todo[s] /\ before'[s] = before[s]
      BY <2>1, <2>8 DEF Types
    <3> QED
      BY <2>1, <2>3, <2>5, <2>7, <2>8, <3>1, <3>2, ClearedFrame
  <2>9. CASE ~v.refresh
    BY <2>1, <2>4, <2>6, <2>7, <2>9, ClearedFrame
  <2> QED
    BY <2>8, <2>9
<1>2. ASSUME NEW t \in Threads, Refresh(t)
      PROVE  Cleared'
  <2>1. UNCHANGED <<req, before>> /\ pc[t] = "refresh"
    BY <1>2 DEF Refresh
  <2>2. CASE todo[t] = {}
    <3>1. pc' = [pc EXCEPT ![t] = "pass"] /\ UNCHANGED <<cache, todo>>
      BY <1>2, <2>2 DEF Refresh, Go
    <3> QED
      BY <2>1, <2>2, <3>1, ClearedFrame DEF Cleared, Types
  <2>3. CASE todo[t] # {}
    <3>1. PICK d \in todo[t] : /\ cache' = [cache EXCEPT ![KeyOf(req[t], d)] = NoItem]
                               /\ todo' = [todo EXCEPT ![t] = @ \ {d}] /\ UNCHANGED pc
      BY <1>2, <2>3 DEF Refresh
    <3>2. \A k \in Keys : cache'[k] = IF k = KeyOf(req[t], d) THEN NoItem ELSE cache[k]
      BY <3>1 DEF Types
    <3>3. todo'[t] = todo[t] \ {d} /\ \A s \in Threads \ {t} : todo'[s] = todo[s]
      BY <3>1 DEF Types
    <3>4. \A s \in Threads : before[s] \subseteq Keys
      BY DEF Types
    <3>5. \A k \in before[t] : cache'[k] = NoItem \/ \E e \in todo'[t] : k = KeyOf(req[t], e)
      <4> SUFFICES ASSUME NEW k \in before[t], cache'[k] # NoItem
                   PROVE  \E e \in todo'[t] : k = KeyOf(req[t], e)
        OBVIOUS
      <4>1. cache[k] # NoItem /\ k # KeyOf(req[t], d)
        BY <3>2, <3>4
      <4>2. PICK e \in todo[t] : k = KeyOf(req[t], e)
        BY <2>1, <4>1 DEF Cleared
      <4> QED
        BY <3>3, <4>1, <4>2
    <3>6. \A s \in Threads \ {t} : \A k \in before'[s] :
            k \in before[s] /\ (cache[k] = NoItem => cache'[k] = NoItem)
      BY <2>1, <3>2, <3>4
    <3> QED
      BY <2>1, <3>1, <3>3, <3>5, <3>6, ClearedFrame
  <2> QED
    BY <2>2, <2>3
<1>3. ASSUME NEW t \in Threads, Lookup(t) \/ Write(t) \/ \E p \in Replies : ModifyResponse(t, p)
      PROVE  Cleared'
  <2>1. UNCHANGED <<cache, req, todo, before>> /\ pc[t] \in {"lookup", "write", "fetch"}
    BY <1>3 DEF Lookup, Write, ModifyResponse
  <2>2. \E l \in {"fetch", "done", "write", "dump"} : pc' = [pc EXCEPT ![t] = l]
    <3>1. CASE Lookup(t)
      <4>1. Hit(t, cache[Key(req[t])]) \/ Go(t, "fetch")
        BY <3>1, Zenon DEF Lookup
      <4>2. Hit(t, cache[Key(req[t])]) => \/ Complain(t) \/ Whole(t, cache[Key(req[t])])
                                          \/ \E r : Part(t, cache[Key(req[t])], r)
        BY Zenon DEF Hit
      <4> QED
        BY <4>1, <4>2 DEF Complain, Whole, Part, Go
    <3>2. CASE Write(t)
      <4>1. pc' = pc \/ pc' = [pc EXCEPT ![t] = "done"]
        BY <3>2 DEF Write, Go
      <4>2. pc[t] = "write" /\ pc = [pc EXCEPT ![t] = pc[t]]
        BY <3>2 DEF Write, Types
      <4> QED
        BY <4>1, <4>2
    <3> QED
      BY <1>3, <3>1, <3>2 DEF ModifyResponse, Go
  <2>3. before[t] = {}
    BY <2>1 DEF Cleared
  <2>4. pc'[t] \notin {"refresh", "pass"} /\ \A s \in Threads \ {t} : pc'[s] = pc[s]
    BY <2>2 DEF Types
  <2> QED
    BY <2>1, <2>3, <2>4, ClearedFrame
<1>4. ASSUME NEW t \in Threads,
             Fails(t) \/ Done(t) \/ Dump(t) \/ Set(t) \/ \E p \in Replies : PassOn(t, p)
      PROVE  Cleared'
  <2>1. CASE Dump(t) /\ ~End(t)
    <3>1. UNCHANGED <<cache, pc, req, todo, before>>
      BY <2>1 DEF Dump
    <3> QED
      BY <3>1 DEF Cleared
  <2>2. CASE End(t)
    <3>1. /\ pc'[t] = "idle" /\ todo' = todo
          /\ \A s \in Threads \ {t} : pc'[s] = pc[s] /\ req'[s] = req[s]
      BY <2>2 DEF End, Go, Types
    <3>2. CASE Set(t)
      <4>1. before[t] = {}
        BY <3>2 DEF Set, Cleared
      <4>2. before' = [s \in Threads |-> before[s] \ {Key(req[t])}]
        BY <3>2 DEF Set
      <4>3. \A k \in Keys \ {Key(req[t])} : cache'[k] = cache[k]
        BY <3>2 DEF Set, Types
      <4>4. \A s \in Threads : \A k \in before'[s] : k \in before[s] /\ cache'[k] = cache[k]
        BY <4>2, <4>3 DEF Types
      <4> QED
        BY <3>1, <4>1, <4>4, ClearedFrame
    <3>3. CASE ~Set(t)
      <4>1. UNCHANGED cache /\ (before' = [before EXCEPT ![t] = {}] \/ before' = before)
        BY <1>4, <3>3 DEF Fails, Done, Dump, PassOn
      <4>2. before' = before => before[t] = {}
        <5>1. pc[t] \in {"dump", "done"} => before[t] = {}
          BY DEF Cleared
        <5>2. before' = [before EXCEPT ![t] = {}] /\ before' = before => before[t] = {}
          BY DEF Types
        <5> QED
          BY <1>4, <3>3, <5>1, <5>2 DEF Fails, Done, Dump, PassOn
      <4>3. before'[t] = {} /\ \A s \in Threads \ {t} : before'[s] = before[s]
        BY <4>1, <4>2 DEF Types
      <4> QED
        BY <3>1, <4>1, <4>3, ClearedFrame
    <3> QED
      BY <3>2, <3>3
  <2> QED
    BY <1>4, <2>1, <2>2 DEF Fails, Done, Set, PassOn
<1>5. ASSUME NEW k \in Keys, Move(k) \/ Evict(k)
      PROVE  Cleared'
  <2>1. /\ UNCHANGED <<pc, req, todo, before>>
        /\ \A j \in Keys : cache[j] = NoItem => cache'[j] = NoItem
    BY <1>5 DEF Move, Evict, perThread, Types
  <2>2. \A t \in Threads : before[t] \subseteq Keys
    BY DEF Types
  <2> QED
    BY <2>1, <2>2 DEF Cleared
<1> QED
  BY <1>1, <1>2, <1>3, <1>4, <1>5 DEF Next, Step

-------------------------------------------------------------------------------
LEMMA RulesStay == ASSUME Next PROVE rules' = rules
BY Zenon DEF Next, Step, Arrive, Refresh, Lookup, Write, Fails, PassOn, ModifyResponse, Dump, Set,
             Done, End, Move, Evict

LEMMA CacheStep ==
  ASSUME Types, CacheOK, FillOK, Next
  PROVE  CacheOK'
<1> DEFINE Good(k) == cache[k] # NoItem =>
             Storable(cache[k]) /\ cache[k].body = Bytes(0, cache[k].size) /\ k = Key(cache[k].asked)
<1>1. rules' = rules
  BY RulesStay
<1>2. ASSUME NEW k \in Keys, cache'[k] = cache[k] \/ cache'[k] = NoItem
      PROVE  Good(k)'
  BY <1>1, <1>2 DEF CacheOK, Storable, Private
<1>3. CASE \E t \in Threads : Set(t)
  <2> PICK t \in Threads : Set(t)
    BY <1>3
  <2>1. /\ pc[t] = "dump" /\ read[t].left = 0
        /\ cache' = [cache EXCEPT ![Key(req[t])] = item[t]]
    BY DEF Set
  <2>2. Storable(item[t]) /\ item[t].asked = req[t] /\ Filled(item[t], read[t])
    BY <2>1 DEF FillOK
  <2>3. item[t].body = Bytes(0, item[t].size)
    BY <2>1, <2>2 DEF Filled
  <2>4. ASSUME NEW k \in Keys
        PROVE  Good(k)'
    <3>1. cache'[k] = IF k = Key(req[t]) THEN item[t] ELSE cache[k]
      BY <2>1 DEF Types
    <3>2. CASE k = Key(req[t])
      BY <1>1, <2>2, <2>3, <3>1, <3>2 DEF Storable, Private
    <3> QED
      BY <1>2, <3>1, <3>2
  <2> QED
    BY <2>4 DEF CacheOK
<1>4. CASE \E j \in Keys : Move(j)
  <2> PICK j \in Keys : Move(j)
    BY <1>4
  <2>1. cache[j] # NoItem /\ cache' = [cache EXCEPT ![j] = [cache[j] EXCEPT !.kind = "disk"]]
    BY DEF Move
  <2>2. Good(j)
    BY DEF CacheOK
  <2> DEFINE i == [cache[j] EXCEPT !.kind = "disk"]
  <2>3. /\ DOMAIN i = ItemFields /\ i.kind = "disk" /\ i.body = cache[j].body
        /\ i.size = cache[j].size /\ i.asked = cache[j].asked
        /\ i.status = cache[j].status /\ i.reply = cache[j].reply
    BY <2>1, <2>2 DEF Storable, ItemFields
  <2> HIDE DEF i
  <2>4. ASSUME NEW k \in Keys
        PROVE  Good(k)'
    <3>1. cache'[k] = IF k = j THEN i ELSE cache[k]
      BY <2>1 DEF Types, i
    <3>2. CASE k = j
      BY <1>1, <2>1, <2>2, <2>3, <3>1, <3>2 DEF Storable, Private, Kinds
    <3> QED
      BY <1>2, <3>1, <3>2
  <2> QED
    BY <2>4 DEF CacheOK
<1>5. ASSUME NEW t \in Threads, Refresh(t)
      PROVE  CacheOK'
  <2>1. cache' = cache \/ \E d \in todo[t] : cache' = [cache EXCEPT ![KeyOf(req[t], d)] = NoItem]
    BY <1>5 DEF Refresh
  <2>2. \A k \in Keys : cache'[k] = cache[k] \/ cache'[k] = NoItem
    BY <2>1 DEF Types
  <2> QED
    BY <1>2, <2>2 DEF CacheOK
<1>6. CASE \E k \in Keys : Evict(k)
  <2>1. \A k \in Keys : cache'[k] = cache[k] \/ cache'[k] = NoItem
    BY <1>6 DEF Evict, Types
  <2> QED
    BY <1>2, <2>1 DEF CacheOK
<1>7. CASE cache' = cache
  BY <1>2, <1>7 DEF CacheOK
<1> QED
  BY <1>3, <1>4, <1>5, <1>6, <1>7, Zenon
  DEF Next, Step, Arrive, Lookup, Write, Fails, PassOn, ModifyResponse, Dump, Done

(* A request that may be answered from the cache passes the global rules   *)
(* and those of its host; a reply with a TTL has no header of the list.    *)
LEMMA VerdictPublic ==
  ASSUME NEW q, Verdict(rules.global, rules.domain, q).ok
  PROVE  ~Private(q)
BY DEF Verdict, Private, IsReqCachable

LEMMA ReplyPublic ==
  ASSUME NEW ir, NEW p, IsRespCachable(ir, p) # {}, p.status = OK
  PROVE  IsValidRespHeader(ir, p)
BY DEF IsRespCachable

(* What a thread does leaves the others as they are.                       *)
LEMMA FillFrame ==
  ASSUME Types, FillOK, NEW t \in Threads, rules' = rules,
         \A s \in Threads \ {t} :
           pc'[s] = pc[s] /\ req'[s] = req[s] /\ item'[s] = item[s] /\ read'[s] = read[s],
         pc'[t] \in Cached => ~Private(req'[t]),
         pc'[t] = "dump" =>
           Storable(item'[t]) /\ item'[t].asked = req'[t] /\ Filled(item'[t], read'[t])
  PROVE  FillOK'
<1> SUFFICES ASSUME NEW s \in Threads
             PROVE  /\ pc'[s] \in Cached => ~Private(req'[s])
                    /\ pc'[s] = "dump" =>
                         Storable(item'[s]) /\ item'[s].asked = req'[s] /\ Filled(item'[s], read'[s])
  BY DEF FillOK, Private, Storable
<1>1. CASE s = t
  BY <1>1
<1>2. CASE s # t
  BY <1>2 DEF FillOK
<1> QED
  BY <1>1, <1>2


(* A hit goes on to write or is done.                                      *)
LEMMA LookupGoes ==
  ASSUME NEW t \in Threads, Lookup(t)
  PROVE  \E l \in {"fetch", "done", "write"} : pc' = [pc EXCEPT ![t] = l]
<1>1. Hit(t, cache[Key(req[t])]) \/ Go(t, "fetch")
  BY Zenon DEF Lookup
<1>2. Hit(t, cache[Key(req[t])]) => \/ Complain(t) \/ Whole(t, cache[Key(req[t])])
                                    \/ \E r : Part(t, cache[Key(req[t])], r)
  BY Zenon DEF Hit
<1> QED
  BY <1>1, <1>2 DEF Complain, Whole, Part, Go

LEMMA ReplyFills ==
  ASSUME Types, FillOK, NEW t \in Threads, NEW p \in Replies, ModifyResponse(t, p)
  PROVE  FillOK'
<1> DEFINE size == IF req[t].method = "HEAD" THEN 0 ELSE p.size
<1>1. /\ pc[t] = "fetch" /\ pc' = [pc EXCEPT ![t] = "dump"] /\ UNCHANGED <<rules, req>>
      /\ read' = [read EXCEPT ![t] = [AtStart EXCEPT !.left = size]]
  BY DEF ModifyResponse, Go
<1>2. PICK ttl \in IsRespCachable(rules.global, p) :
        item' = [item EXCEPT ![t] = [kind |-> "mem", body |-> <<>>, status |-> p.status,
                   size |-> size, ttl |-> ttl, reply |-> p, asked |-> req[t]]]
  BY Zenon DEF ModifyResponse
<1>3. size \in Nat
  BY ResponsesConstantsOK
<1>4. p.status = OK => IsValidRespHeader(rules.global, p)
  BY <1>2, ReplyPublic
<1>5. ~Private(req[t])
  BY <1>1 DEF FillOK, Cached
<1>6. Bytes(0, 0) = <<>>
  <2>1. Bytes(0, 0 + 0) \in Seq(Nat) /\ Len(Bytes(0, 0 + 0)) = 0
    BY BytesSeq
  <2> QED
    BY <2>1, EmptySeq
<1> HIDE DEF size
<1>7. /\ item'[t].kind = "mem" /\ item'[t].body = <<>> /\ item'[t].status = p.status
      /\ item'[t].size = size /\ item'[t].reply = p /\ item'[t].asked = req[t]
      /\ DOMAIN item'[t] = ItemFields
  BY <1>2 DEF Types, ItemFields
<1>8. read'[t].seek = 0 /\ read'[t].left = size
  BY <1>1 DEF Types, AtStart
<1>9. Storable(item'[t])
  BY <1>4, <1>5, <1>7 DEF Storable, Kinds
<1>11. Filled(item'[t], read'[t])
  BY <1>3, <1>6, <1>7, <1>8 DEF Filled
<1>12. \A s \in Threads \ {t} :
         pc'[s] = pc[s] /\ req'[s] = req[s] /\ item'[s] = item[s] /\ read'[s] = read[s]
  BY <1>1, <1>2 DEF Types
<1>13. ~Private(req'[t])
  BY <1>1, <1>5
<1> QED
  BY <1>1, <1>7, <1>9, <1>11, <1>12, <1>13, FillFrame

LEMMA DumpFills ==
  ASSUME Types, FillOK, NEW t \in Threads, Dump(t), ~End(t)
  PROVE  FillOK'
<1>1. pc[t] = "dump" /\ rules' = rules /\ UNCHANGED <<pc, req>>
  BY DEF Dump
<1>2. PICK n \in 1..read[t].left :
        \E w \in Written(item[t], Bytes(read[t].seek, read[t].seek + n)) :
          /\ w.ok /\ item' = [item EXCEPT ![t] = w.item]
          /\ read' = [read EXCEPT ![t].seek = @ + n, ![t].left = @ - n]
  BY DEF Dump
<1>3. PICK w \in Written(item[t], Bytes(read[t].seek, read[t].seek + n)) :
        /\ w.ok /\ item' = [item EXCEPT ![t] = w.item]
        /\ read' = [read EXCEPT ![t].seek = @ + n, ![t].left = @ - n]
  BY <1>2
<1> DEFINE s == read[t].seek  l == read[t].left
<1>4. /\ Storable(item[t]) /\ item[t].asked = req[t] /\ ~Private(req[t])
      /\ s \in Nat /\ l \in Nat /\ item[t].size = s + l /\ item[t].body = Bytes(0, s)
  BY <1>1 DEF FillOK, Filled, Cached
<1>5. /\ DOMAIN w.item = ItemFields /\ w.item.kind \in Kinds
      /\ w.item.body = item[t].body \o Bytes(s, s + n)
      /\ w.item.status = item[t].status /\ w.item.size = item[t].size
      /\ w.item.reply = item[t].reply /\ w.item.asked = item[t].asked
  BY <1>3, <1>4, WriteAppends DEF Storable
<1>6. n \in Nat /\ n <= l
  BY <1>4
<1>7. w.item.body = Bytes(0, s + n)
  BY <1>4, <1>5, <1>6, BytesJoin
<1>8. item'[t] = w.item
  BY <1>3 DEF Types
<1>9. read'[t].seek = s + n /\ read'[t].left = l - n
  BY <1>3 DEF Types, ReadFields
<1>10. Storable(item'[t]) /\ item'[t].asked = req'[t]
  BY <1>1, <1>4, <1>5, <1>8 DEF Storable
<1>11. Filled(item'[t], read'[t])
  BY <1>4, <1>5, <1>6, <1>7, <1>8, <1>9 DEF Filled
<1>12. \A u \in Threads \ {t} :
         pc'[u] = pc[u] /\ req'[u] = req[u] /\ item'[u] = item[u] /\ read'[u] = read[u]
  BY <1>1, <1>3 DEF Types
<1> QED
  BY <1>1, <1>4, <1>10, <1>11, <1>12, FillFrame

LEMMA FillStep ==
  ASSUME Types, FillOK, Next
  PROVE  FillOK'
<1>1. rules' = rules
  BY RulesStay
<1>2. ASSUME NEW t \in Threads, NEW a \in Asks[t], Arrive(t, a[1], a[2])
      PROVE  FillOK'
  <2> DEFINE v == Verdict(rules.global, rules.domain, a[1])
             l == CASE v.ok -> "lookup" [] v.refresh -> "refresh" [] OTHER -> "pass"
  <2>1. /\ pc' = [pc EXCEPT ![t] = l] /\ req' = [req EXCEPT ![t] = a[1]]
        /\ UNCHANGED <<item, read>>
    BY <1>2, Zenon DEF Arrive, Go
  <2>2. v.ok => ~Private(a[1])
    BY VerdictPublic
  <2>3. l \in {"lookup", "refresh", "pass"} /\ (l \in Cached => v.ok)
    BY DEF Cached
  <2> HIDE DEF l, v
  <2>4. /\ pc'[t] = l /\ req'[t] = a[1]
        /\ \A s \in Threads \ {t} :
             pc'[s] = pc[s] /\ req'[s] = req[s] /\ item'[s] = item[s] /\ read'[s] = read[s]
    BY <2>1 DEF Types
  <2> QED
    BY <1>1, <2>2, <2>3, <2>4, FillFrame
<1>3. ASSUME NEW t \in Threads, Refresh(t)
      PROVE  FillOK'
  <2>1. /\ UNCHANGED <<req, item, read>> /\ pc[t] = "refresh"
        /\ pc' = [pc EXCEPT ![t] = "pass"] \/ pc' = pc
    BY <1>3 DEF Refresh, Go
  <2>2. pc'[t] \in {"refresh", "pass"} /\ \A s \in Threads \ {t} : pc'[s] = pc[s]
    BY <2>1 DEF Types
  <2> QED
    BY <1>1, <2>1, <2>2, FillFrame DEF Cached
<1>4. ASSUME NEW t \in Threads, Lookup(t) \/ Write(t)
      PROVE  FillOK'
  <2>1. req' = req /\ pc[t] \in {"lookup", "write"}
    BY <1>4 DEF Lookup, Write
  <2>2. \E l \in {"fetch", "done", "write"} : pc' = [pc EXCEPT ![t] = l]
    <3>1. CASE Write(t)
      <4>1. pc[t] = "write" /\ (pc' = pc \/ pc' = [pc EXCEPT ![t] = "done"])
        BY <3>1 DEF Write, Go
      <4>2. pc = [pc EXCEPT ![t] = pc[t]]
        BY DEF Types
      <4> QED
        BY <4>1, <4>2
    <3> QED
      BY <1>4, <3>1, LookupGoes
  <2>3. \A s \in Threads \ {t} : item'[s] = item[s] /\ read'[s] = read[s]
    <3>1. CASE Lookup(t)
      <4>1. Hit(t, cache[Key(req[t])]) \/ UNCHANGED read
        BY <3>1, Zenon DEF Lookup
      <4>2. Hit(t, cache[Key(req[t])]) => \/ Complain(t) \/ Whole(t, cache[Key(req[t])])
                                          \/ \E r : Part(t, cache[Key(req[t])], r)
        BY Zenon DEF Hit
      <4>3. \A s \in Threads \ {t} : read'[s] = read[s]
        BY <4>1, <4>2 DEF Complain, Whole, Part, Types
      <4>4. item' = [item EXCEPT ![t] = cache[Key(req[t])]] \/ item' = item
        BY <3>1, Zenon DEF Lookup
      <4> QED
        BY <4>3, <4>4 DEF Types
    <3>2. CASE Write(t)
      BY <3>2 DEF Write, Types
    <3> QED
      BY <1>4, <3>1, <3>2
  <2>4. pc'[t] # "dump" /\ \A s \in Threads \ {t} : pc'[s] = pc[s]
    BY <2>2 DEF Types
  <2>5. ~Private(req'[t])
    BY <2>1 DEF FillOK, Cached
  <2> QED
    BY <1>1, <2>1, <2>3, <2>4, <2>5, FillFrame
<1>5. ASSUME NEW t \in Threads, End(t)
      PROVE  FillOK'
  <2>1. /\ pc'[t] = "idle"
        /\ \A s \in Threads \ {t} :
             pc'[s] = pc[s] /\ req'[s] = req[s] /\ item'[s] = item[s] /\ read'[s] = read[s]
    BY <1>5 DEF End, Go, Types
  <2> QED
    BY <1>1, <2>1, FillFrame DEF Cached
<1>6. ASSUME NEW k \in Keys, Move(k) \/ Evict(k)
      PROVE  FillOK'
  BY <1>1, <1>6 DEF Move, Evict, perThread, FillOK, Private, Storable
<1> QED
  BY <1>2, <1>3, <1>4, <1>5, <1>6, ReplyFills, DumpFills
  DEF Next, Step, Fails, PassOn, Set, Done
-------------------------------------------------------------------------------
LEMMA NextInv ==
  ASSUME Inv, [Next]_vars
  PROVE  Inv'
<1>1. CASE Next
  BY <1>1, TypesStep, ClearedStep, CacheStep, FillStep DEF Inv
<1>2. CASE UNCHANGED vars
  BY <1>2 DEF vars, perThread, Inv, Types, Cleared, CacheOK, FillOK, Storable, Private
<1> QED
  BY <1>1, <1>2

(* The types, the copies and the requests fit together in every state of   *)
(* the handler.                                                            *)
THEOREM ResponsesInv == Spec => []Inv
<1> QED
  BY InitInv, NextInv, PTL DEF Spec

(* Each thread is where it can be, has a request while it serves one, and  *)
(* every stored item lies in memory, in its own file or in the value log   *)
(* (handler.go:148, itemMem.go:43).                                        *)
THEOREM ResponsesTypes == Spec => []ResponsesTypeOK
<1>1. Inv => ResponsesTypeOK
  BY DEF Inv, Types, CacheOK, Storable, ResponsesTypeOK, Labels, Kinds
<1> QED
  BY <1>1, ResponsesInv, PTL

(* Bodies are stored whole and under their request's key, however the copy *)
(* is cut into chunks and whatever spills to a file (handler.go:378,       *)
(* itemMem.go:43).                                                         *)
THEOREM BodiesWhole == Spec => []StoredWhole
<1>1. Inv => StoredWhole
  BY DEF Inv, CacheOK, StoredWhole
<1> QED
  BY <1>1, ResponsesInv, PTL

(* Nothing the rules exclude is stored or answered from the cache          *)
(* (handler.go:159-168, 324).                                              *)
THEOREM PublicOnly == Spec => []NothingPrivate
<1>1. Inv => NothingPrivate
  BY DEF Inv, CacheOK, FillOK, Storable, Cached, NothingPrivate
<1> QED
  BY <1>1, ResponsesInv, PTL

(* A refresh that goes on has cleared what was stored when it began, but   *)
(* for what others have stored since (handler.go:169-173).                 *)
THEOREM RefreshClears == Spec => []Refreshed
<1>1. Inv => Refreshed
  BY DEF Inv, Cleared, Refreshed
<1> QED
  BY <1>1, ResponsesInv, PTL
=============================================================================
