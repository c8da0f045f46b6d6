---------------------------- MODULE LinkedListTTL ----------------------------
(***************************************************************************)
(* lsm/kvsm/list.go: the doubly linked lists that hold the entries, one    *)
(* for each TTL, in the order they were added.  The pointers prev and next *)
(* are in the entries, which go from one list to another.  One goroutine   *)
(* (KVSM.workerExpiration) owns the lists, so every operation is one step. *)
(*                                                                         *)
(* History variables, which the operations of the code never read: `order` *)
(* has the entries of each list, oldest first; `strayed` says that an      *)
(* entry was removed or replaced as the worker never does.                 *)
(***************************************************************************)
EXTENDS Naturals, Sequences

CONSTANTS
  Lists,      \* the *linkedListTTL objects
  Entries,    \* the *entry objects
  nil         \* the nil *entry

ASSUME NilAssumption == nil \notin Entries

VARIABLES
  root, last, size,   \* per list
  prev, next,         \* per entry
  order, strayed

vars == <<root, last, size, prev, next, order, strayed>>

Seqs == INSTANCE SequencesExt

Members(l) == {order[l][i] : i \in 1..Len(order[l])}
Filed      == UNION {Members(l) : l \in Lists}

Init ==
  /\ root = [l \in Lists |-> nil]
  /\ last = [l \in Lists |-> nil]
  /\ size = [l \in Lists |-> 0]
  /\ prev = [e \in Entries |-> nil]
  /\ next = [e \in Entries |-> nil]
  /\ order = [l \in Lists |-> <<>>]
  /\ strayed = FALSE

-----------------------------------------------------------------------------
(* The methods of linkedListTTL                                            *)

NextOf(l, e) == IF e = nil THEN root[l] ELSE next[e]

(* What becomes of the ends of a list and of the pointers.                 *)
Ending(l, r, z) ==
  /\ root' = [root EXCEPT ![l] = r]
  /\ last' = [last EXCEPT ![l] = z]

Pointing(n, p) == next' = n /\ prev' = p

AddFirst(l, e) ==
  /\ root[l] = nil
  /\ Ending(l, e, e)
  /\ Pointing([next EXCEPT ![e] = nil], [prev EXCEPT ![e] = nil])

AddBehind(l, e) ==
  /\ root[l] # nil
  /\ Ending(l, root[l], e)
  /\ Pointing([next EXCEPT ![e] = nil, ![last[l]] = e], [prev EXCEPT ![e] = last[l]])

Add(l, e) ==
  /\ size' = [size EXCEPT ![l] = @ + 1]
  /\ AddFirst(l, e) \/ AddBehind(l, e)

(* Remove has one operator per early return.  Clear is what the deferred   *)
(* function does to either pointer of the removed entry.                   *)
Clear(f, e) == [f EXCEPT ![e] = nil]

RemoveOnlyStale(l, e) ==    \* mutant: root still names the removed entry
  /\ size[l] = 1
  /\ Ending(l, root[l], nil)
  /\ Pointing(Clear(next, e), Clear(prev, e))

RemoveOnly(l, e) ==
  /\ size[l] = 1
  /\ Ending(l, nil, nil)
  /\ Pointing(Clear(next, e), Clear(prev, e))

RemoveRoot(l, e) ==
  /\ size[l] > 1 /\ root[l] = e
  /\ Ending(l, next[e], last[l])
  /\ Pointing(Clear(next, e), Clear(prev, e))

RemoveLast(l, e) ==
  /\ size[l] > 1 /\ root[l] # e /\ last[l] = e
  /\ Ending(l, root[l], prev[e])
  /\ Pointing(Clear(next, e), Clear(prev, e))

UnlinkHalf(l, e) ==         \* mutant: r.prev is not moved
  /\ size[l] > 1 /\ root[l] # e /\ last[l] # e
  /\ Pointing([Clear(next, e) EXCEPT ![prev[e]] = next[e]], Clear(prev, e))
  /\ UNCHANGED <<root, last>>

Unlink(l, e) ==
  LET p == prev[e]
      n == next[e]
  IN  /\ size[l] > 1 /\ root[l] # e /\ last[l] # e
      /\ Ending(l, IF p = nil THEN nil ELSE root[l], IF n = nil THEN p ELSE last[l])
      /\ Pointing(IF p = nil THEN Clear(next, e) ELSE [Clear(next, e) EXCEPT ![p] = n],
                  IF n = nil THEN Clear(prev, e) ELSE [Clear(prev, e) EXCEPT ![n] = p])

RemoveTwice(l, e) ==        \* mutant: size is decremented twice
  /\ size' = [size EXCEPT ![l] = @ - 2]
  /\ RemoveOnly(l, e) \/ RemoveRoot(l, e) \/ RemoveLast(l, e) \/ Unlink(l, e)

(* size = 0 is log.Panic: no step.                                         *)
Remove(l, e) ==
  /\ size' = [size EXCEPT ![l] = @ - 1]
  /\ RemoveOnly(l, e) \/ RemoveRoot(l, e) \/ RemoveLast(l, e) \/ Unlink(l, e)

Replace(l, o, e) ==
  LET p     == prev[o]
      n     == next[o]
      prevE == [prev EXCEPT ![e] = p]
      nextE == [next EXCEPT ![e] = n]
  IN  /\ Ending(l, IF p = nil THEN e ELSE root[l], IF n = nil THEN e ELSE last[l])
      /\ Pointing(IF p = nil THEN nextE ELSE [nextE EXCEPT ![p] = e],
                  IF n = nil THEN prevE ELSE [prevE EXCEPT ![n] = e])
      /\ UNCHANGED size

-----------------------------------------------------------------------------
(* How the worker uses the lists: it adds an entry it has just received,   *)
(* which is in none (KVSM!OwnedOnce), and removes the one that NextOf(nil) *)
(* gave it.                                                                *)

AddLast(l, e) ==
  /\ e \notin Filed
  /\ Add(l, e)
  /\ order' = [order EXCEPT ![l] = Append(@, e)]
  /\ UNCHANGED strayed

RemoveFirst(l) ==
  /\ NextOf(l, nil) # nil
  /\ Remove(l, NextOf(l, nil))
  /\ order' = [order EXCEPT ![l] = Tail(@)]
  /\ UNCHANGED strayed

Next == \E l \in Lists : RemoveFirst(l) \/ \E e \in Entries : AddLast(l, e)

Spec == Init /\ [][Next]_vars

(* How list_test.go uses them: entries leave from the back                 *)
(* (TestListAddRemove), or are replaced in place in a list that none has   *)
(* left from an end (TestLinkedListReplace): Replace takes the nil         *)
(* pointers for the ends of the list, and Remove leaves others there.      *)
(* RemoveAny is every use Remove has a branch for.                         *)
RemoveAny(l, k) ==
  /\ Remove(l, order[l][k])
  /\ order' = [order EXCEPT ![l] = Seqs!RemoveAt(@, k)]
  /\ strayed' = TRUE

ReplaceOne(l, k, e) ==
  /\ e \notin Filed
  /\ prev[root[l]] = nil /\ next[last[l]] = nil
  /\ Replace(l, order[l][k], e)
  /\ order' = [order EXCEPT ![l][k] = e]
  /\ strayed' = TRUE

Stray ==
  \E l \in Lists : \E k \in 1..Len(order[l]) :
    RemoveAny(l, k) \/ \E e \in Entries : ReplaceOne(l, k, e)

AnySpec == Init /\ [][Next \/ Stray]_vars

-----------------------------------------------------------------------------
(* The fields have the types of the Go structs; size is never negative.    *)
TypeOK ==
  /\ root \in [Lists -> Entries \cup {nil}]
  /\ last \in [Lists -> Entries \cup {nil}]
  /\ size \in [Lists -> Nat]
  /\ prev \in [Entries -> Entries \cup {nil}]
  /\ next \in [Entries -> Entries \cup {nil}]
  /\ order \in [Lists -> Seq(Entries)]
  /\ strayed \in BOOLEAN

(* No entry is in two lists, or in one of them twice.                      *)
Distinct ==
  \A l, m \in Lists : \A i \in 1..Len(order[l]), j \in 1..Len(order[m]) :
    order[l][i] = order[m][j] => l = m /\ i = j

(* root and last name the oldest and the newest entry, and size counts the *)
(* entries: Remove takes the branch that fits and never panics.            *)
Ends ==
  \A l \in Lists :
    /\ size[l] = Len(order[l])
    /\ root[l] = IF order[l] = <<>> THEN nil ELSE order[l][1]
    /\ last[l] = IF order[l] = <<>> THEN nil ELSE order[l][Len(order[l])]

(* Neighbours point at each other.  prev of the head is not constrained:   *)
(* Remove of the head leaves it in the new head, and the entry it points   *)
(* at may be in another list since.                                        *)
Links ==
  \A l \in Lists : \A i \in 1..Len(order[l]) - 1 :
    /\ next[order[l][i]] = order[l][i + 1]
    /\ prev[order[l][i + 1]] = order[l][i]

(* The walk from root ends after the last entry: the worker's sweep, which *)
(* follows next until nil, terminates and meets members only.              *)
Stops == strayed \/ \A l \in Lists : last[l] = nil \/ next[last[l]] = nil

(* An entry outside the lists points at no entry.  The worker's sweep asks *)
(* Next for the entry it has just removed: it gets nil, and leaves the     *)
(* rest of the list for the next tick.                                     *)
Detached ==
  strayed \/ \A e \in Entries \ Filed : next[e] = nil /\ prev[e] = nil

(* Whatever is added, removed or replaced, the lists keep their shape, and *)
(* as long as entries leave at the front the sweep stays in the list it is *)
(* in, although the lists share the pointers of their entries.             *)
Shape == Ends /\ Links /\ Stops /\ Detached

(* The lists, as the worker uses them, are first-in first-out queues,      *)
(* whatever the pointers left behind in the entries are.                   *)
Fifo == INSTANCE FifoQueues WITH
          Queues <- Lists, Elements <- Entries, none <- nil,
          queue <- order, front <- root, length <- size

FifoSpec  == Fifo!Spec
FifoSteps == [][Next => Fifo!Next]_vars
=============================================================================
