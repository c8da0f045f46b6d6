------------------------------ MODULE Responses ------------------------------
(***************************************************************************)
(* handler/handler.go without the single flight of BackendOnce: what each  *)
(* request reads from the cache, asks of the backend, stores and writes to *)
(* its client.  The requests run concurrently; the cache is a map whose    *)
(* items leave it or move to disk at any time, as LSM and VLog show.  An   *)
(* item that is in use is not touched: that is LSM's business too.         *)
(***************************************************************************)
EXTENDS CacheRules, Items

CONSTANTS
  Threads,           \* goroutines that serve requests
  Files,             \* what the rules' file may hold: [global, domain]
  Asks,              \* thread -> the requests of its client, each with a Range
  Replies,           \* what the backend answers
  Devices,           \* the kinds of device a user agent is taken for
  uaDeviceCleaner,   \* those a refresh clears
  NoItem, NoRequest, NoRange,
  MaxFaults          \* failures of a file system or a backend

Requests == {a[1] : a \in UNION {Asks[t] : t \in Threads}}

ASSUME ResponsesConstantsOK ==
  /\ uaDeviceCleaner \subseteq Devices
  /\ \A q \in Requests : q.device \in Devices
  /\ \A p \in Replies : p.size \in Nat
  /\ \A t \in Threads : \A a \in Asks[t] :
       a[2] # NoRange => a[2].specs \in Seq(Seq(Nat \cup {Blank, NoNumber}))
  /\ NoRequest \notin Requests
  /\ MaxFaults \in Nat

VARIABLES
  rules,   \* the rules as parsed
  cache,   \* key -> item
  pc, req, \* per thread: where it is, its request
  range,   \* its Range header
  item,    \* the item it fills or reads
  read,    \* where it is in the body
  out,     \* what its client has got
  todo,    \* devices a refresh has still to clear
  before,  \* history: the copies that were stored when the refresh began
  faults

perThread == <<pc, req, range, item, read, out, todo, before>>
vars      == <<rules, cache, perThread, faults>>

Keys     == {KeyOf(q, d) : q \in Requests, d \in Devices}
AtStart  == [from |-> 0, to |-> 0, seek |-> 0, left |-> 0]
NoOutput == [code |-> 0, length |-> 0, sent |-> <<>>, cut |-> FALSE]
Go(t, l) == pc' = [pc EXCEPT ![t] = l]
Answer(t, code, length) ==
  out' = [out EXCEPT ![t] = [NoOutput EXCEPT !.code = code, !.length = length]]
Fault(n) == faults' = faults + n /\ faults' <= MaxFaults

Init ==
  /\ \E f \in Files : \E g \in Parse(f.global) : rules = [global |-> g, domain |-> f.domain]
  /\ cache = [k \in Keys |-> NoItem]
  /\ pc = [t \in Threads |-> "idle"]
  /\ req = [t \in Threads |-> NoRequest]
  /\ range = [t \in Threads |-> NoRange]
  /\ item = [t \in Threads |-> NoItem]
  /\ read = [t \in Threads |-> AtStart]
  /\ out = [t \in Threads |-> NoOutput]
  /\ todo = [t \in Threads |-> {}]
  /\ before = [t \in Threads |-> {}]
  /\ faults = 0

(* Mutant: the request is left behind.                                     *)
EndKeepsRequest(t) ==
  /\ Go(t, "idle")
  /\ range' = [range EXCEPT ![t] = NoRange]
  /\ item' = [item EXCEPT ![t] = NoItem]
  /\ read' = [read EXCEPT ![t] = AtStart]
  /\ out' = [out EXCEPT ![t] = NoOutput]
  /\ UNCHANGED <<rules, todo, req>>

(* The handler returns.                                                    *)
End(t) ==
  /\ Go(t, "idle")
  /\ req' = [req EXCEPT ![t] = NoRequest]
  /\ range' = [range EXCEPT ![t] = NoRange]
  /\ item' = [item EXCEPT ![t] = NoItem]
  /\ read' = [read EXCEPT ![t] = AtStart]
  /\ out' = [out EXCEPT ![t] = NoOutput]
  /\ UNCHANGED <<rules, todo>>

(* The copies a refresh of q is to remove.                                 *)
Copies(q) == {k \in Keys : cache[k] # NoItem /\ k \in {KeyOf(q, d) : d \in uaDeviceCleaner}}

Arrive(t, q, h) ==
  LET v == Verdict(rules.global, rules.domain, q)
  IN  /\ pc[t] = "idle"
      /\ Go(t, CASE v.ok -> "lookup" [] v.refresh -> "refresh" [] OTHER -> "pass")
      /\ req' = [req EXCEPT ![t] = q]
      /\ range' = [range EXCEPT ![t] = h]
      /\ IF v.refresh
         THEN /\ todo' = [todo EXCEPT ![t] = uaDeviceCleaner]
              /\ before' = [before EXCEPT ![t] = Copies(q)]
         ELSE UNCHANGED <<todo, before>>
      /\ UNCHANGED <<rules, cache, item, read, out, faults>>

(* Mutant: only the copy of the client's own device is removed.            *)
RefreshOwn(t) ==
  /\ pc[t] = "refresh"
  /\ cache' = [cache EXCEPT ![Key(req[t])] = NoItem]
  /\ todo' = [todo EXCEPT ![t] = {}]
  /\ Go(t, "pass")
  /\ UNCHANGED <<rules, req, range, item, read, out, before, faults>>

Refresh(t) ==
  /\ pc[t] = "refresh"
  /\ IF todo[t] = {} THEN Go(t, "pass") /\ UNCHANGED <<cache, todo>>
     ELSE \E d \in todo[t] :
            /\ cache' = [cache EXCEPT ![KeyOf(req[t], d)] = NoItem]
            /\ todo' = [todo EXCEPT ![t] = @ \ {d}]
            /\ UNCHANGED pc
  /\ UNCHANGED <<rules, req, range, item, read, out, before, faults>>

(* respondFromCache: the whole body, a part of it, or a complaint.         *)
Whole(t, i) ==
  /\ Answer(t, i.status, ItemLen(i))
  /\ read' = [read EXCEPT ![t] = [AtStart EXCEPT !.left = ItemLen(i)]]
  /\ Go(t, "write")

Complain(t) == Answer(t, 416, 0) /\ Go(t, "done") /\ UNCHANGED read

Part(t, i, r) ==
  /\ Answer(t, 206, r.length)
  /\ read' = [read EXCEPT ![t] =
                [from |-> r.from, to |-> r.to, seek |-> r.from, left |-> r.to - r.from]]
  /\ Go(t, IF Refused(i, r.from, r.to) THEN "done" ELSE "write")

Hit(t, i) ==
  LET h == range[t]
      p == IF h = NoRange THEN Ranged("whole", 0, 0) ELSE ParseRange(h, ItemLen(i))
      r == ValidRange(ItemLen(i), p.start, p.length)
  IN  CASE p.verdict = "invalid" -> Complain(t)
        [] p.verdict = "whole" \/ (p.verdict = "part" /\ i.status # OK) -> Whole(t, i)
        [] OTHER -> IF WrongRange(r) THEN Complain(t) ELSE Part(t, i, r)

(* A header on disk that cannot be read makes a miss of a hit.             *)
Lookup(t) ==
  LET i == cache[Key(req[t])]
  IN  /\ pc[t] = "lookup"
      /\ \/ /\ i # NoItem /\ Hit(t, i)
            /\ item' = [item EXCEPT ![t] = i] /\ UNCHANGED faults
         \/ /\ IF i = NoItem THEN UNCHANGED faults ELSE i.kind = "disk" /\ Fault(1)
            /\ Go(t, "fetch") /\ UNCHANGED <<item, read, out>>
      /\ UNCHANGED <<rules, cache, req, range, todo, before>>

(* WriteTo and WriteToRange.  An item in memory, and a temporary file that *)
(* is read whole, go in one write.                                         *)
Turn(i, r) ==
  CASE i.kind = "disk" -> DiskTurn(i, r)
    [] i.kind = "temp" /\ r.to > 0 -> TempTurn(i, r)
    [] OTHER -> [seek |-> r.seek + r.left, left |-> 0, end |-> TRUE,
                 out |-> SubSeq(i.body, r.seek + 1, r.seek + r.left)]

Write(t) ==
  LET turn == Turn(item[t], read[t])
  IN  /\ pc[t] = "write"
      /\ \/ /\ read' = [read EXCEPT ![t].seek = turn.seek, ![t].left = turn.left]
            /\ out' = [out EXCEPT ![t].sent = @ \o turn.out]
            /\ IF turn.end THEN Go(t, "done") ELSE UNCHANGED pc
            /\ UNCHANGED faults
         \/ /\ item[t].kind # "mem" /\ Fault(1)
            /\ out' = [out EXCEPT ![t].cut = TRUE]
            /\ Go(t, "done") /\ UNCHANGED read
      /\ UNCHANGED <<rules, cache, req, range, item, todo, before>>

(* reverseProxy: too many requests, a backend that fails, or its reply,    *)
(* which is sent on as it is.                                              *)
Fails(t) ==
  /\ pc[t] \in {"pass", "fetch"} /\ Fault(1)
  /\ End(t) /\ before' = [before EXCEPT ![t] = {}]
  /\ UNCHANGED cache

PassOn(t, p) ==
  /\ pc[t] = "pass" \/ (pc[t] = "fetch" /\ IsRespCachable(rules.global, p) = {})
  /\ End(t) /\ before' = [before EXCEPT ![t] = {}]
  /\ UNCHANGED <<cache, faults>>

(* ModifyResponse.  The reply to HEAD has no body.                         *)
ModifyResponse(t, p) ==
  LET size == IF req[t].method = "HEAD" THEN 0 ELSE p.size
  IN  /\ pc[t] = "fetch"
      /\ \E ttl \in IsRespCachable(rules.global, p) :
           item' = [item EXCEPT ![t] = [kind |-> "mem", body |-> <<>>, status |-> p.status,
                      size |-> size, ttl |-> ttl, reply |-> p, asked |-> req[t]]]
      /\ read' = [read EXCEPT ![t] = [AtStart EXCEPT !.left = size]]
      /\ Go(t, "dump")
      /\ UNCHANGED <<rules, cache, req, range, out, todo, before, faults>>

(* One write of io.Copy; an error drops the item and answers 502.          *)
Dump(t) ==
  /\ pc[t] = "dump"
  /\ \E n \in 1..read[t].left :
     \E w \in Written(item[t], Bytes(read[t].seek, read[t].seek + n)) :
       /\ Fault(IF w.fault THEN 1 ELSE 0)
       /\ IF w.ok
          THEN /\ item' = [item EXCEPT ![t] = w.item]
               /\ read' = [read EXCEPT ![t].seek = @ + n, ![t].left = @ - n]
               /\ UNCHANGED <<rules, pc, req, range, out, todo>>
          ELSE End(t)
  /\ UNCHANGED <<cache, before>>

(* The body is in the item; the reply goes on to the client.               *)
Set(t) ==
  LET k == Key(req[t])
  IN  /\ pc[t] = "dump" /\ read[t].left = 0
      /\ cache' = [cache EXCEPT ![k] = item[t]]
      /\ before' = [s \in Threads |-> before[s] \ {k}]
      /\ End(t) /\ UNCHANGED faults

Done(t) == pc[t] = "done" /\ End(t) /\ UNCHANGED <<cache, before, faults>>

Step(t) ==
  \/ Refresh(t) \/ Lookup(t) \/ Write(t) \/ Fails(t) \/ Dump(t) \/ Set(t) \/ Done(t)
  \/ \E p \in Replies : PassOn(t, p) \/ ModifyResponse(t, p)

(* The value log: an item moves to a file.  The store: an item expires.    *)
Move(k) ==
  /\ cache[k] # NoItem /\ cache[k].kind # "disk"
  /\ cache' = [cache EXCEPT ![k].kind = "disk"]
  /\ UNCHANGED <<rules, perThread, faults>>

Evict(k) ==
  /\ cache[k] # NoItem
  /\ cache' = [cache EXCEPT ![k] = NoItem]
  /\ UNCHANGED <<rules, perThread, faults>>

Next ==
  \/ \E t \in Threads : Step(t) \/ \E a \in Asks[t] : Arrive(t, a[1], a[2])
  \/ \E k \in Keys : Move(k) \/ Evict(k)

(* A goroutine that can run does; the backend answers or its transport     *)
(* gives up.                                                               *)
Spec     == Init /\ [][Next]_vars
FairSpec == Spec /\ \A t \in Threads : WF_vars(Step(t))
-------------------------------------------------------------------------------
ResponsesTypeOK ==
  /\ pc \in [Threads -> {"idle", "lookup", "refresh", "pass", "fetch", "dump", "write", "done"}]
  /\ \A t \in Threads : todo[t] \subseteq uaDeviceCleaner /\ before[t] \subseteq Keys
  /\ \A t \in Threads : pc[t] = "idle" <=> req[t] = NoRequest
  /\ \A k \in Keys : cache[k] # NoItem => cache[k].kind \in {"mem", "temp", "disk"}
  /\ faults \in 0..MaxFaults

(* What was stored is the reply's body, byte for byte, under the key of    *)
(* the request that asked for it: the chunks of io.Copy, the move to a     *)
(* temporary file and failures in between lose nothing (handler.go:378,    *)
(* itemMem.go:43).                                                         *)
StoredWhole ==
  \A k \in Keys : cache[k] # NoItem =>
    cache[k].body = Bytes(0, cache[k].size) /\ k = Key(cache[k].asked)

Complete(t) == pc[t] = "done" /\ ~out[t].cut

(* A client that is not cut off gets as many bytes as its Content-Length   *)
(* announced, and they are the stored body, or the part of it Content-     *)
(* Range names; no byte of the record behind it on disk.  The announced    *)
(* length of a range that ends before it starts is negative (handler.go:   *)
(* 472): it gets nothing.                                                  *)
AsAnnounced ==
  \A t \in Threads : Complete(t) /\ out[t].code # 416 =>
    LET r == read[t]
        whole == r.to = 0
    IN  IF out[t].length < 0 THEN out[t].sent = <<>>
        ELSE /\ Len(out[t].sent) = out[t].length
             /\ out[t].sent = IF whole THEN Bytes(0, item[t].size) ELSE Bytes(r.from, r.to)

(* A range RFC 7233 calls satisfiable, and of which the first part is      *)
(* given; and its last byte.                                               *)
LastByte(h, size) ==
  LET last == h.specs[1][2] IN IF last = Blank THEN size - 1 ELSE Lesser(last, size - 1)

Satisfiable(h, size) ==
  /\ h.unit = "bytes" /\ Len(h.specs) = 1 /\ Len(h.specs[1]) = 2
  /\ h.specs[1][1] \in Nat /\ h.specs[1][2] \in Nat \cup {Blank}
  /\ h.specs[1][1] < size /\ h.specs[1][1] <= LastByte(h, size)

(* Such a range is answered with exactly its bytes, whatever the body lies *)
(* in (utils.go:96, itemMem.go:94, itemDisk.go:142).                       *)
RangesServed ==
  \A t \in Threads :
    LET h    == range[t]
        size == item[t].size
    IN  Complete(t) /\ item[t].status = OK /\ h # NoRange /\ Satisfiable(h, size)
          => out[t].code = 206 /\ out[t].sent = Bytes(h.specs[1][1], LastByte(h, size) + 1)

(* Nothing is stored of a request the global rules or those of its host    *)
(* exclude, nor a page with a header of the black list; and no such        *)
(* request is answered from the cache (handler.go:159-168, 324).           *)
Private(q) ==
  \/ ~IsReqCachable(rules.global, q).ok
  \/ q.host \in DOMAIN rules.domain /\ ~IsReqCachable(rules.domain[q.host], q).ok

NothingPrivate ==
  /\ \A k \in Keys : cache[k] # NoItem =>
       /\ ~Private(cache[k].asked)
       /\ cache[k].status = OK => IsValidRespHeader(rules.global, cache[k].reply)
  /\ \A t \in Threads : pc[t] \in {"write", "done"} => ~Private(req[t])

(* When a refresh goes on to the backend, each copy that was stored when   *)
(* it began, for a device it clears, is gone or was stored anew            *)
(* (handler.go:169-173, req.go:33).                                        *)
Refreshed ==
  \A t \in Threads : pc[t] = "pass" => \A k \in before[t] : cache[k] = NoItem

(* A turn of a loop that reads a body is the last, or leaves less to read: *)
(* also at the end of a file, where a read comes back short or empty       *)
(* (itemMem.go:148, itemDisk.go:112).                                      *)
TurnsAdvance ==
  \A t \in Threads : pc[t] = "write" =>
    LET turn == Turn(item[t], read[t])
    IN  turn.end \/ (0 < turn.left /\ turn.left < read[t].left)

(* Every request is answered: the loops that read a body end, also at the  *)
(* end of a file (itemMem.go:148, itemDisk.go:112).                        *)
Answered == \A t \in Threads : pc[t] # "idle" ~> pc[t] = "idle"
=============================================================================
