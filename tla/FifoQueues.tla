----------------------------- MODULE FifoQueues -----------------------------
(***************************************************************************)
(* What the expiration worker needs of its lists, one per TTL: queues that *)
(* show their first element and their length.  An element is in one queue  *)
(* at most, and there once: KVSM promises it of what it files, and         *)
(* LinkedListTTL, whose lists share the pointers in the entries, relies on *)
(* it.                                                                     *)
(***************************************************************************)
EXTENDS Naturals, Sequences

CONSTANTS
  Queues,     \* the queues
  Elements,   \* what can be queued
  none        \* shown as the front of an empty queue

VARIABLES
  queue,      \* per queue: the elements, oldest first
  front,      \* what a reader sees as the first element
  length      \* what a reader sees as the length

vars == <<queue, front, length>>

Elems(s) == {s[i] : i \in 1..Len(s)}

First(s) == IF s = <<>> THEN none ELSE Head(s)

Init ==
  /\ queue = [q \in Queues |-> <<>>]
  /\ front = [q \in Queues |-> none]
  /\ length = [q \in Queues |-> 0]

Become(q, s) ==
  /\ queue' = [queue EXCEPT ![q] = s]
  /\ front' = [front EXCEPT ![q] = First(s)]
  /\ length' = [length EXCEPT ![q] = Len(s)]

Push(q, e) ==
  /\ \A p \in Queues : e \notin Elems(queue[p])
  /\ Become(q, Append(queue[q], e))

Pop(q) == queue[q] # <<>> /\ Become(q, Tail(queue[q]))

Next == \E q \in Queues : Pop(q) \/ \E e \in Elements : Push(q, e)

Spec == Init /\ [][Next]_vars
=============================================================================
