-------------------------- MODULE BackendOnceProofs --------------------------
(***************************************************************************)
(* Theorems about BackendOnce, for any finite set of requests: the flight  *)
(* of the key is a running one and no result is lost, every request is     *)
(* answered once, and flights to the backend are bounded by the leaders    *)
(* whose time ran out.                                                     *)
(***************************************************************************)
EXTENDS BackendOnce, FiniteSetTheorems, TLAPS

(* Only who has joined its own flight has one, and it waits for it; who    *)
(* waits in time has not run out of time.                                  *)
Roles ==
  \A r \in Requests :
    /\ flight[r] # "none" => joined[r] = r /\ phase[r] \in {"wait", "late", "done"}
    /\ joined[r] = r => flight[r] # "none"
    /\ phase[r] \in {"new", "missed"} => joined[r] = NoRequest
    /\ joined[r] = NoRequest => ~result[r]
    /\ phase[r] \in {"new", "missed", "wait"} => r \notin timedOut

(* How often a request has been answered, by where its two goroutines are. *)
Answers ==
  \A r \in Requests :
    answered[r] = IF flight[r] \in {"over", "landed"} THEN 1
                  ELSE IF flight[r] = "none" /\ phase[r] = "done" THEN 1 ELSE 0

(* Who returns before its flight has an answer is late.                    *)
Excused ==
  \A r \in Requests :
    phase[r] = "done" /\ flight[r] \in {"start", "limit", "asking"} => r \in late

OnceInv == OnceTypeOK /\ Roles /\ Answers /\ Excused

-----------------------------------------------------------------------------
(* OnceInv is inductive.                                                   *)
LEMMA OnceStart == OnceInit => OnceInv
<1> SUFFICES ASSUME OnceInit PROVE OnceInv
  OBVIOUS
<1>1. OnceTypeOK
  BY OnceConstantsOK DEF OnceInit, OnceTypeOK, Fields, Landings
<1>2. Roles /\ Answers /\ Excused
  BY OnceConstantsOK DEF OnceInit, Roles, Answers, Excused
<1> QED BY <1>1, <1>2 DEF OnceInv

(* One step per action; those that change the roles have one per conjunct. *)
LEMMA OnceStep == OnceInv /\ OnceNext => OnceInv'
<1> SUFFICES ASSUME OnceInv, OnceNext PROVE OnceInv'
  OBVIOUS
<1> USE OnceConstantsOK
    DEF OnceInv, OnceTypeOK, Fields, Landings, Roles, Answers, Excused, At, FlightAt, FirstCall
<1>1. ASSUME NEW r \in Requests, Arrive(r) PROVE OnceInv'
  BY <1>1 DEF Arrive, RespondFromCache, Answer
<1>2. ASSUME NEW r \in Requests, Lead(r) PROVE OnceInv'
  <2>0. Fields'
    BY <1>2 DEF Lead
  <2>1. Landings'
    BY <1>2 DEF Lead
  <2>2. Roles'
    BY <1>2 DEF Lead
  <2>3. Answers' /\ Excused'
    BY <1>2 DEF Lead
  <2> QED BY <2>0, <2>1, <2>2, <2>3
<1>3. ASSUME NEW r \in Requests, Follow(r) PROVE OnceInv'
  <2>0. Fields'
    BY <1>3 DEF Follow
  <2>1. Landings'
    BY <1>3 DEF Follow
  <2>2. Roles'
    BY <1>3 DEF Follow
  <2>3. Answers' /\ Excused'
    BY <1>3 DEF Follow
  <2> QED BY <2>0, <2>1, <2>2, <2>3
<1>4. ASSUME NEW r \in Requests, Result(r) PROVE OnceInv'
  BY <1>4 DEF Result
<1>5. ASSUME NEW r \in Requests, Again(r) PROVE OnceInv'
  BY <1>5 DEF Again, RespondFromCache, Answer
<1>6. ASSUME NEW r \in Requests, Direct(r) PROVE OnceInv'
  BY <1>6 DEF Direct, Refused, Answer
<1>7. ASSUME NEW r \in Requests, TimeoutFollower(r) PROVE OnceInv'
  BY <1>7 DEF TimeoutFollower, Answer
<1>8. ASSUME NEW r \in Requests, TimeoutLeader(r) PROVE OnceInv'
  BY <1>8 DEF TimeoutLeader
<1>9. ASSUME NEW r \in Requests, Late(r) PROVE OnceInv'
  BY <1>9 DEF Late
<1>10. ASSUME NEW r \in Requests, DirectReply(r) PROVE OnceInv'
  <2>c. cached' \in BOOLEAN
    BY <1>10, Zenon DEF DirectReply, Replied
  <2>0. Fields'
    BY <1>10, <2>c DEF DirectReply, Replied, Answer
  <2>1. Landings'
    BY <1>10 DEF DirectReply, Replied, Answer
  <2>2. Roles'
    BY <1>10 DEF DirectReply, Replied, Answer
  <2>3. Answers' /\ Excused'
    BY <1>10 DEF DirectReply, Replied, Answer
  <2> QED BY <2>0, <2>1, <2>2, <2>3
<1>11. ASSUME NEW r \in Requests, Begin(r) PROVE OnceInv'
  BY <1>11 DEF Begin
<1>12. ASSUME NEW r \in Requests, Limit(r) PROVE OnceInv'
  BY <1>12 DEF Limit, Refused, Answer
<1>13. ASSUME NEW r \in Requests, Reply(r) PROVE OnceInv'
  <2>c. cached' \in BOOLEAN
    BY <1>13, Zenon DEF Reply, Replied
  <2>0. Fields'
    BY <1>13, <2>c DEF Reply, Replied, Answer
  <2>1. Landings'
    BY <1>13 DEF Reply, Replied, Answer
  <2>2. Roles'
    BY <1>13 DEF Reply, Replied, Answer
  <2>3. Answers' /\ Excused'
    BY <1>13 DEF Reply, Replied, Answer
  <2> QED BY <2>0, <2>1, <2>2, <2>3
<1>14. ASSUME NEW r \in Requests, EndFlight(r) PROVE OnceInv'
  <2>0. Fields'
    BY <1>14 DEF EndFlight
  <2>a. group' # NoRequest => flight'[group'] \notin {"none", "landed"}
    BY <1>14 DEF EndFlight
  <2>b. ASSUME NEW q \in Requests, joined[q] \in Requests
        PROVE  flight'[joined[q]] # "none" /\ (result'[q] <=> flight'[joined[q]] = "landed")
    <3>1. CASE joined[q] = r
      <4>1. result'[q]
        BY <1>14, <3>1, Zenon DEF EndFlight
      <4> QED BY <1>14, <3>1, <4>1 DEF EndFlight
    <3>2. CASE joined[q] # r
      <4>1. result'[q] <=> result[q]
        BY <1>14, <3>2, Zenon DEF EndFlight
      <4>2. flight'[joined[q]] = flight[joined[q]]
        BY <1>14, <3>2 DEF EndFlight
      <4> QED BY <2>b, <4>1, <4>2
    <3> QED BY <3>1, <3>2
  <2>1. Landings'
    BY <1>14, <2>a, <2>b DEF EndFlight
  <2>2. Roles'
    BY <1>14 DEF EndFlight
  <2>3. Answers' /\ Excused'
    BY <1>14 DEF EndFlight
  <2> QED BY <2>0, <2>1, <2>2, <2>3
<1>15. CASE Expire
  BY <1>15 DEF Expire
<1> QED
  BY <1>1, <1>2, <1>3, <1>4, <1>5, <1>6, <1>7, <1>8, <1>9, <1>10, <1>11, <1>12, <1>13,
     <1>14, <1>15 DEF OnceNext, Serve, Timeout, Fly

-----------------------------------------------------------------------------
(* Roles, answers and types hold in every state.                           *)
THEOREM OnceInvariant == OnceSpec => []OnceInv
<1>1. OnceInv /\ UNCHANGED onceVars => OnceInv'
  BY DEF OnceInv, OnceTypeOK, Fields, Landings, Roles, Answers, Excused, onceVars
<1> QED BY <1>1, OnceStart, OnceStep, PTL DEF OnceSpec

(* Every variable keeps its type; the key's flight runs, and a landed      *)
(* flight has given its result to all who joined it.                       *)
THEOREM OnceTypes == OnceSpec => []OnceTypeOK
<1>1. OnceInv => OnceTypeOK
  BY DEF OnceInv
<1> QED BY <1>1, OnceInvariant, PTL

(* No request is answered twice, and none but a leader that was late       *)
(* returns without an answer.                                              *)
THEOREM OnceAnswered == OnceSpec => []AnsweredOnce
<1>1. OnceInv => AnsweredOnce
  BY DEF OnceInv, OnceTypeOK, Fields, Answers, Excused, AnsweredOnce
<1> QED BY <1>1, OnceInvariant, PTL

-----------------------------------------------------------------------------
(* Of the running flights all but the key's own are paid for by a leader   *)
(* whose time ran out.                                                     *)
Spent == {r \in timedOut : FirstCall(r)}

Paid == Cardinality(Running \ {group}) <= Cardinality(Spent)

(* The two sets counted are finite.                                        *)
LEMMA Finite ==
  ASSUME OnceTypeOK
  PROVE  /\ IsFiniteSet(Running \ {group}) /\ Cardinality(Running \ {group}) \in Nat
         /\ IsFiniteSet(Spent) /\ Cardinality(Spent) \in Nat
<1>1. Running \ {group} \subseteq Requests /\ Spent \subseteq Requests
  BY DEF OnceTypeOK, Fields, Running, Spent
<1> QED BY <1>1, OnceConstantsOK, FS_Subset, FS_CardinalityType

(* A step that lets no further flight run outside the group.               *)
LEMMA PaidKept ==
  ASSUME OnceTypeOK, OnceTypeOK', Paid,
         (Running \ {group})' \subseteq Running \ {group}, Spent \subseteq Spent'
  PROVE  Paid'
<1>1. Cardinality(Running \ {group}) \in Nat /\ Cardinality(Spent) \in Nat
      /\ IsFiniteSet(Running \ {group})
  BY Finite
<1>2. IsFiniteSet(Spent') /\ Cardinality(Spent') \in Nat
  BY OnceConstantsOK, FS_Subset, FS_CardinalityType DEF OnceTypeOK, Fields, Spent
<1>3. Cardinality(Spent) <= Cardinality(Spent')
  BY <1>2, FS_Subset
<1>4. Cardinality((Running \ {group})') <= Cardinality(Running \ {group})
      /\ Cardinality((Running \ {group})') \in Nat
  BY <1>1, FS_Subset, FS_CardinalityType
<1> QED BY <1>1, <1>2, <1>3, <1>4 DEF Paid

(* Two actions matter: a new flight is the key's own, and Forget lets one  *)
(* flight more run outside the group, at the price of one leader's time.   *)
LEMMA PaidStep ==
  ASSUME OnceInv, OnceInv', Paid, OnceNext
  PROVE  Paid'
<1> USE DEF OnceInv, OnceTypeOK, Fields, At, FlightAt, FirstCall, Running, Spent
<1>t. OnceTypeOK /\ OnceTypeOK'
  BY DEF OnceInv
<1>1. ASSUME NEW r \in Requests, Lead(r) PROVE Paid'
  <2>1. (Running \ {group})' \subseteq Running \ {group}
    BY <1>1, OnceConstantsOK DEF Lead
  <2>2. Spent \subseteq Spent'
    BY <1>1 DEF Lead, Roles
  <2> QED BY <1>t, <2>1, <2>2, PaidKept
<1>2. ASSUME NEW r \in Requests, TimeoutLeader(r) PROVE Paid'
  <2>1. Spent' = Spent \cup {r} /\ r \notin Spent
    BY <1>2 DEF TimeoutLeader, Roles
  <2>2. (Running \ {group})' \subseteq (Running \ {group}) \cup {group}
    BY <1>2, OnceConstantsOK DEF TimeoutLeader
  <2>3. /\ IsFiniteSet(Running \ {group}) /\ Cardinality(Running \ {group}) \in Nat
        /\ IsFiniteSet(Spent) /\ Cardinality(Spent) \in Nat
    BY <1>t, Finite
  <2>4. Cardinality(Spent') = Cardinality(Spent) + 1
    BY <2>1, <2>3, FS_AddElement
  <2> DEFINE C == (Running \ {group}) \cup {group}
  <2>5. IsFiniteSet(C) /\ Cardinality(C) <= Cardinality(Running \ {group}) + 1
    BY <2>3, FS_AddElement
  <2>6. Cardinality((Running \ {group})') <= Cardinality(C)
        /\ Cardinality((Running \ {group})') \in Nat /\ Cardinality(C) \in Nat
    <3> HIDE DEF C
    <3> QED BY <2>2, <2>5, FS_Subset, FS_CardinalityType DEF C
  <2> QED
    <3> HIDE DEF C
    <3> QED BY <2>3, <2>4, <2>5, <2>6 DEF Paid
<1>3. ASSUME NEW r \in Requests, EndFlight(r) PROVE Paid'
  <2>1. (Running \ {group})' \subseteq Running \ {group}
    BY <1>3, OnceConstantsOK DEF EndFlight
  <2>2. Spent \subseteq Spent'
    BY <1>3 DEF EndFlight
  <2> QED BY <1>t, <2>1, <2>2, PaidKept
<1>4. ASSUME NEW r \in Requests, Begin(r) \/ Limit(r) \/ Reply(r) PROVE Paid'
  <2>1. (Running \ {group})' \subseteq Running \ {group}
    BY <1>4 DEF Begin, Limit, Reply
  <2>2. Spent \subseteq Spent'
    BY <1>4 DEF Begin, Limit, Reply
  <2> QED BY <1>t, <2>1, <2>2, PaidKept
<1>5. ASSUME UNCHANGED <<flight, group>>, timedOut \subseteq timedOut' PROVE Paid'
  <2>1. (Running \ {group})' \subseteq Running \ {group} /\ Spent \subseteq Spent'
    BY <1>5
  <2> QED BY <1>t, <2>1, PaidKept
<1>6. ASSUME NEW r \in Requests,
             \/ Arrive(r) \/ Follow(r) \/ Result(r) \/ Again(r) \/ Direct(r)
             \/ TimeoutFollower(r) \/ Late(r) \/ DirectReply(r)
      PROVE  Paid'
  <2>1. UNCHANGED <<flight, group>> /\ timedOut \subseteq timedOut'
    BY <1>6 DEF Arrive, RespondFromCache, Follow, Result, Again, Direct, TimeoutFollower,
                Late, DirectReply
  <2> QED BY <1>5, <2>1
<1>7. CASE Expire
  <2>1. UNCHANGED <<flight, group>> /\ timedOut \subseteq timedOut'
    BY <1>7 DEF Expire
  <2> QED BY <1>5, <2>1
<1> QED BY <1>1, <1>2, <1>3, <1>4, <1>6, <1>7 DEF OnceNext, Serve, Timeout, Fly

(* One flight at a time, and one more for each leader whose time ran out,  *)
(* also if it forgot a flight that was not its own.                        *)
THEOREM OnceSpared == OnceSpec => []BackendSpared
<1>1. OnceInit => Paid
  <2> SUFFICES ASSUME OnceInit PROVE Paid
    OBVIOUS
  <2>1. Running \ {group} = {} /\ Spent = {}
    BY DEF OnceInit, Running, Spent
  <2> QED BY <2>1, FS_EmptySet DEF Paid
<1>2. OnceInv /\ OnceInv' /\ Paid /\ [OnceNext]_onceVars => Paid'
  <2>1. CASE UNCHANGED onceVars
    BY <2>1 DEF onceVars, Paid, Running, Spent, FirstCall
  <2> QED BY <2>1, PaidStep
<1>3. OnceInv /\ Paid => BackendSpared
  <2> SUFFICES ASSUME OnceInv, Paid PROVE BackendSpared
    OBVIOUS
  <2>1. /\ IsFiniteSet(Running \ {group}) /\ Cardinality(Running \ {group}) \in Nat
        /\ Cardinality(Spent) \in Nat
    BY Finite DEF OnceInv
  <2> DEFINE C == (Running \ {group}) \cup {group}
  <2>2. IsFiniteSet(C) /\ Cardinality(C) <= Cardinality(Running \ {group}) + 1
    BY <2>1, FS_AddElement
  <2>3. Running \subseteq C
    OBVIOUS
  <2> HIDE DEF C
  <2>4. Cardinality(Running) <= Cardinality(C) /\ Cardinality(C) \in Nat
        /\ Cardinality(Running) \in Nat
    BY <2>2, <2>3, FS_Subset, FS_CardinalityType
  <2> QED BY <2>1, <2>2, <2>4 DEF Paid, BackendSpared, Spent
<1> QED BY <1>1, <1>2, <1>3, OnceInvariant, PTL DEF OnceSpec
=============================================================================
