----------------------------- MODULE BackendOnce -----------------------------
(***************************************************************************)
(* httpsrv/handler: cacheable requests for one key with Config.BackendOnce *)
(* set.  A request that misses the cache joins the single flight of the    *)
(* key; the function of the flight runs in a goroutine of its own with the *)
(* request and the ResponseWriter of its leader, by which a flight is      *)
(* named here.  Each request has 60 seconds for the flight; a leader then  *)
(* gives the key free and waits for as long again.                         *)
(*                                                                         *)
(* The cache is abstracted to whether it has the response: it may lose it  *)
(* at any time.  What a request is answered with is abstracted to how      *)
(* often something is.                                                     *)
(***************************************************************************)
EXTENDS Naturals, FiniteSets

CONSTANTS Requests, NoRequest

ASSUME OnceConstantsOK == IsFiniteSet(Requests) /\ NoRequest \notin Requests

VARIABLES
  phase,          \* request -> where its ServeHTTP is
  flight,         \* leader -> where the function of its flight is
  group,          \* handler.infligth: the leader of the key's flight
  joined, result, \* request -> the flight it joined; its channel has a result
  answered,       \* request -> how often something was written to it
  timedOut,       \* the requests whose 60 seconds are over
  late,           \* the leaders that returned before their flight
  cached          \* the response is in the cache

onceVars == <<phase, flight, group, joined, result, answered, timedOut, late, cached>>

OnceInit ==
  /\ phase = [r \in Requests |-> "new"]
  /\ flight = [r \in Requests |-> "none"]
  /\ group = NoRequest
  /\ joined = [r \in Requests |-> NoRequest]
  /\ result = [r \in Requests |-> FALSE]
  /\ answered = [r \in Requests |-> 0]
  /\ timedOut = {} /\ late = {}
  /\ cached = FALSE

At(r, from, to) == phase[r] = from /\ phase' = [phase EXCEPT ![r] = to]
Answer(r) == answered' = [answered EXCEPT ![r] = @ + 1]

(* firstCall, a variable of r that only the function of its flight sets.   *)
FirstCall(r) == flight[r] \notin {"none", "start"}

-----------------------------------------------------------------------------
(* respondFromCache finds the key, or does not and the caller goes on.     *)
RespondFromCache(r, from, miss) ==
  /\ IF cached THEN At(r, from, "done") /\ Answer(r)
               ELSE At(r, from, miss) /\ UNCHANGED answered
  /\ UNCHANGED <<flight, group, joined, result, timedOut, late, cached>>

Arrive(r) == RespondFromCache(r, "new", "missed")

(* DoChan.                                                                 *)
LeadForgets(r) ==           \* mutant: Forget is called at once
  /\ group = NoRequest
  /\ At(r, "missed", "wait")
  /\ flight' = [flight EXCEPT ![r] = "start"]
  /\ joined' = [joined EXCEPT ![r] = r]
  /\ UNCHANGED <<group, result, answered, timedOut, late, cached>>

Lead(r) ==
  /\ group = NoRequest
  /\ At(r, "missed", "wait")
  /\ group' = r
  /\ flight' = [flight EXCEPT ![r] = "start"]
  /\ joined' = [joined EXCEPT ![r] = r]
  /\ UNCHANGED <<result, answered, timedOut, late, cached>>

Follow(r) ==
  /\ group # NoRequest
  /\ At(r, "missed", "wait")
  /\ joined' = [joined EXCEPT ![r] = group]
  /\ UNCHANGED <<flight, group, result, answered, timedOut, late, cached>>

(* case <-result, before the second look into the cache.                   *)
ResultIgnoresFirst(r) ==    \* mutant: firstCall is not asked
  /\ result[r]
  /\ At(r, "wait", "again")
  /\ UNCHANGED <<flight, group, joined, result, answered, timedOut, late, cached>>

Result(r) ==
  /\ result[r]
  /\ At(r, "wait", IF FirstCall(r) THEN "done" ELSE "again")
  /\ UNCHANGED <<flight, group, joined, result, answered, timedOut, late, cached>>

Again(r) == RespondFromCache(r, "again", "direct")

(* case <-timeoutInFligth.C.  The function of a flight has begun long      *)
(* before.  When the result is there too, select may still choose this.    *)
TimeoutFollower(r) ==
  /\ joined[r] # r /\ ~FirstCall(r)
  /\ At(r, "wait", "done")
  /\ Answer(r)
  /\ timedOut' = timedOut \cup {r}
  /\ UNCHANGED <<flight, group, joined, result, late, cached>>

TimeoutForgets(r) ==        \* mutant: firstCall is not asked
  /\ At(r, "wait", "late")
  /\ group' = NoRequest
  /\ timedOut' = timedOut \cup {r}
  /\ UNCHANGED <<flight, joined, result, answered, late, cached>>

(* Forget takes whatever flight the key has by now out of the group.       *)
TimeoutLeader(r) ==
  /\ FirstCall(r)
  /\ At(r, "wait", "late")
  /\ group' = NoRequest
  /\ timedOut' = timedOut \cup {r}
  /\ UNCHANGED <<flight, joined, result, answered, late, cached>>

LateResultOnly(r) ==        \* mutant: no second timeout
  /\ result[r] /\ At(r, "late", "done")
  /\ UNCHANGED <<flight, group, joined, result, answered, timedOut, late, cached>>

Late(r) ==
  /\ At(r, "late", "done")
  /\ late' = IF result[r] THEN late ELSE late \cup {r}
  /\ UNCHANGED <<flight, group, joined, result, answered, timedOut, cached>>

-----------------------------------------------------------------------------
(* reverseProxy on behalf of r: the limiter refuses it, or the backend     *)
(* answers or fails; a response may be stored, and is before it is         *)
(* written.  All of these write to r.                                      *)
Refused(r) == Answer(r) /\ UNCHANGED cached
Replied(r) == Answer(r) /\ cached' \in {cached, TRUE}

Direct(r) ==
  /\ \/ At(r, "direct", "done") /\ Refused(r)
     \/ At(r, "direct", "asking") /\ UNCHANGED <<answered, cached>>
  /\ UNCHANGED <<flight, group, joined, result, timedOut, late>>

DirectReply(r) ==
  /\ At(r, "asking", "done")
  /\ Replied(r)
  /\ UNCHANGED <<flight, group, joined, result, timedOut, late>>

FlightAt(r, from, to) == flight[r] = from /\ flight' = [flight EXCEPT ![r] = to]

Begin(r) ==
  /\ FlightAt(r, "start", "limit")
  /\ UNCHANGED <<phase, group, joined, result, answered, timedOut, late, cached>>

Limit(r) ==
  /\ \/ FlightAt(r, "limit", "over") /\ Refused(r)
     \/ FlightAt(r, "limit", "asking") /\ UNCHANGED <<answered, cached>>
  /\ UNCHANGED <<phase, group, joined, result, timedOut, late>>

Reply(r) ==
  /\ FlightAt(r, "asking", "over")
  /\ Replied(r)
  /\ UNCHANGED <<phase, group, joined, result, timedOut, late>>

(* doCall after the function: the key is given free unless it has been,    *)
(* and all who joined get the result.                                      *)
EndFlight(r) ==
  /\ FlightAt(r, "over", "landed")
  /\ group' = IF group = r THEN NoRequest ELSE group
  /\ result' = [q \in Requests |-> result[q] \/ joined[q] = r]
  /\ UNCHANGED <<phase, joined, answered, timedOut, late, cached>>

(* The response expires or is deleted.                                     *)
Expire ==
  /\ cached /\ cached' = FALSE
  /\ UNCHANGED <<phase, flight, group, joined, result, answered, timedOut, late>>

-----------------------------------------------------------------------------
Timeout(r) == TimeoutFollower(r) \/ TimeoutLeader(r)

Serve(r) ==
  \/ Lead(r) \/ Follow(r) \/ Result(r) \/ Again(r) \/ Direct(r)
  \/ Timeout(r) \/ Late(r)

Fly(r) == Begin(r) \/ Limit(r) \/ EndFlight(r)

OnceNext ==
  \/ \E r \in Requests : Arrive(r) \/ Serve(r) \/ DirectReply(r) \/ Fly(r) \/ Reply(r)
  \/ Expire

OnceSpec == OnceInit /\ [][OnceNext]_onceVars

(* Goroutines run and timers run out; the backend need not answer.         *)
FairOnceSpec == OnceSpec /\ \A r \in Requests : WF_onceVars(Serve(r)) /\ WF_onceVars(Fly(r))

-----------------------------------------------------------------------------
Running == {r \in Requests : flight[r] \in {"start", "limit", "asking"}}

Fields ==
  /\ phase \in [Requests ->
       {"new", "missed", "wait", "again", "direct", "asking", "late", "done"}]
  /\ flight \in [Requests -> {"none", "start", "limit", "asking", "over", "landed"}]
  /\ group \in Requests \cup {NoRequest}
  /\ joined \in [Requests -> Requests \cup {NoRequest}]
  /\ result \in [Requests -> BOOLEAN]
  /\ answered \in [Requests -> Nat]
  /\ timedOut \subseteq Requests /\ late \subseteq Requests
  /\ cached \in BOOLEAN

Landings ==
  /\ group # NoRequest => flight[group] \notin {"none", "landed"}
  /\ \A r \in Requests : phase[r] = "wait" => joined[r] \in Requests
  /\ \A r \in Requests : joined[r] \in Requests =>
       /\ flight[joined[r]] # "none"
       /\ result[r] <=> flight[joined[r]] = "landed"
  /\ \A r \in Requests : phase[r] = "late" => joined[r] = r

(* Types.  The flight of the key is a running one; who waits has joined    *)
(* one, and has its result as soon as it has landed: no wake-up is lost.   *)
(* Only a leader waits late.                                               *)
OnceTypeOK == Fields /\ Landings

(* Every request is answered exactly once, by its own goroutine, by the    *)
(* flight it leads or from the cache, and before its ServeHTTP returns:    *)
(* the two goroutines of a leader never both write.  The exception is a    *)
(* leader that returns after twice 60 seconds: its flight may still write. *)
AnsweredOnce ==
  \A r \in Requests :
    /\ answered[r] <= 1
    /\ phase[r] = "done" /\ r \notin late => answered[r] = 1

(* handler.go:195-197: of the requests in flight one goes to the backend;  *)
(* each further one costs a leader its 60 seconds.                         *)
BackendSpared ==
  Cardinality(Running) <= 1 + Cardinality({r \in timedOut : FirstCall(r)})

(* A request waits for a flight no longer than the timers say, whether the *)
(* backend answers or not, also when its flight has been forgotten.        *)
WaitEnds ==
  \A r \in Requests :
    phase[r] \in {"missed", "wait", "late"} ~> phase[r] \notin {"missed", "wait", "late"}
=============================================================================
