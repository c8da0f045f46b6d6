------------------------ MODULE LinkedListTTLProofs ------------------------
(***************************************************************************)
(* The lists of lsm/kvsm/list.go are well formed after every operation,    *)
(* however Remove and Replace are used, for any number of lists that share *)
(* their entries; as the expiration worker uses them, they are first-in    *)
(* first-out queues.                                                       *)
(***************************************************************************)
EXTENDS LinkedListTTL, TLAPS

(* The inductive invariant.  Ends and Links give the shape of the lists    *)
(* and need each other; Distinct keeps the update of one entry's pointers  *)
(* away from the others, and one list's from the others; Stops and         *)
(* Detached are what the worker's Add and Remove leave.                    *)
IInv == TypeOK /\ Distinct /\ Ends /\ Links /\ Stops /\ Detached

EndsOf(l) ==
  /\ size[l] = Len(order[l])
  /\ root[l] = IF order[l] = <<>> THEN nil ELSE order[l][1]
  /\ last[l] = IF order[l] = <<>> THEN nil ELSE order[l][Len(order[l])]

LinksOf(l) ==
  \A i \in 1..Len(order[l]) - 1 :
    next[order[l][i]] = order[l][i + 1] /\ prev[order[l][i + 1]] = order[l][i]

(* Only list l changes.                                                    *)
OnlyList(l) ==
  \A m \in Lists \ {l} : order'[m] = order[m] /\ root'[m] = root[m]
                         /\ last'[m] = last[m] /\ size'[m] = size[m]

(* Only the pointers of the entries in T change.                           *)
OnlyPointers(T) == \A e \in Entries \ T : next'[e] = next[e] /\ prev'[e] = prev[e]

-----------------------------------------------------------------------------
LEMMA MembersOf ==
  ASSUME TypeOK, NEW l \in Lists
  PROVE  /\ order[l] \in Seq(Entries) /\ Len(order[l]) \in Nat
         /\ Members(l) \subseteq Entries /\ Members(l) \subseteq Filed
         /\ \A i \in 1..Len(order[l]) : order[l][i] \in Members(l)
BY DEF TypeOK, Members, Filed

(* A list is empty exactly when its root is nil, and then last is nil too. *)
LEMMA RootNil ==
  ASSUME TypeOK, Ends, NEW l \in Lists
  PROVE  /\ root[l] = nil <=> order[l] = <<>>
         /\ last[l] = nil <=> order[l] = <<>>
         /\ size[l] = 0 <=> order[l] = <<>>
BY NilAssumption DEF TypeOK, Ends

(* Two lists have no entry in common.                                      *)
LEMMA Apart ==
  ASSUME TypeOK, Distinct, NEW l \in Lists, NEW m \in Lists, l # m
  PROVE  Members(l) \cap Members(m) = {}
BY DEF Distinct, Members

(* An operation on one list, that moves the pointers of its members and of *)
(* entries that are in none, keeps the other lists well formed.            *)
LEMMA ShapeFrame ==
  ASSUME TypeOK, Ends, Links, NEW l \in Lists, OnlyList(l), NEW T, OnlyPointers(T),
         \A m \in Lists \ {l} : Members(m) \cap T = {},
         EndsOf(l)', LinksOf(l)'
  PROVE  Ends' /\ Links'
<1>1. ASSUME NEW m \in Lists
      PROVE  EndsOf(m)' /\ LinksOf(m)'
  <2>1. CASE m = l
    BY <2>1
  <2>2. CASE m # l
    <3>1. order'[m] = order[m] /\ root'[m] = root[m] /\ last'[m] = last[m] /\ size'[m] = size[m]
      BY <2>2 DEF OnlyList
    <3>2. EndsOf(m)'
      BY <3>1 DEF Ends, EndsOf
    <3>3. \A i \in 1..Len(order[m]) : order[m][i] \in Entries \ T
      BY <2>2, MembersOf
    <3>4. \A i \in 1..Len(order[m]) - 1 : i \in 1..Len(order[m]) /\ i + 1 \in 1..Len(order[m])
      BY MembersOf
    <3>5. LinksOf(m)'
      <4> SUFFICES ASSUME NEW i \in 1..Len(order[m]) - 1
                   PROVE  next'[order[m][i]] = order[m][i + 1] /\ prev'[order[m][i + 1]] = order[m][i]
        BY <3>1 DEF LinksOf
      <4>1. next[order[m][i]] = order[m][i + 1] /\ prev[order[m][i + 1]] = order[m][i]
        BY DEF Links
      <4>2. order[m][i] \in Entries \ T /\ order[m][i + 1] \in Entries \ T
        BY <3>3, <3>4
      <4>3. next'[order[m][i]] = next[order[m][i]] /\ prev'[order[m][i + 1]] = prev[order[m][i + 1]]
        BY <4>2 DEF OnlyPointers
      <4> QED
        BY <4>1, <4>3
    <3> QED
      BY <3>2, <3>5
  <2> QED
    BY <2>1, <2>2
<1> QED
  BY <1>1 DEF EndsOf, LinksOf, Ends, Links

LEMMA DistinctFrame ==
  ASSUME TypeOK, Distinct, NEW l \in Lists, OnlyList(l),
         \A i \in 1..Len(order'[l]) : order'[l][i] \in Members(l) \/ order'[l][i] \notin Filed,
         \A i, j \in 1..Len(order'[l]) : order'[l][i] = order'[l][j] => i = j
  PROVE  Distinct'
<1> SUFFICES ASSUME NEW p \in Lists, NEW q \in Lists,
                    NEW i \in 1..Len(order'[p]), NEW j \in 1..Len(order'[q]),
                    order'[p][i] = order'[q][j]
             PROVE  p = q /\ i = j
  BY DEF Distinct
<1>1. \A m \in Lists \ {l} : \A k \in 1..Len(order'[m]) :
        /\ order'[m] = order[m] /\ k \in 1..Len(order[m])
        /\ order'[m][k] \in Members(m) /\ order'[m][k] \in Filed /\ order'[m][k] \notin Members(l)
  BY MembersOf, Apart DEF OnlyList
<1>2. CASE p = l /\ q = l
  BY <1>2
<1>3. CASE p = l /\ q # l
  BY <1>1, <1>3
<1>4. CASE p # l /\ q = l
  BY <1>1, <1>4
<1>5. CASE p # l /\ q # l
  <2>1. order[p][i] = order[q][j] /\ i \in 1..Len(order[p]) /\ j \in 1..Len(order[q])
    BY <1>1, <1>5
  <2> QED
    BY <2>1 DEF Distinct
<1> QED
  BY <1>2, <1>3, <1>4, <1>5

-----------------------------------------------------------------------------
(* What Add does to the list that is given.                                *)
LEMMA AddDoes ==
  ASSUME TypeOK, Ends, NEW l \in Lists, NEW e \in Entries, AddLast(l, e)
  PROVE  /\ OnlyList(l) /\ OnlyPointers(Members(l) \cup {e}) /\ UNCHANGED strayed
         /\ order'[l] = Append(order[l], e) /\ size'[l] = size[l] + 1 /\ last'[l] = e
         /\ root'[l] = IF order[l] = <<>> THEN e ELSE root[l]
         /\ next'[e] = nil
         /\ prev'[e] = IF order[l] = <<>> THEN nil ELSE last[l]
         /\ order[l] # <<>> => next'[last[l]] = e
         /\ OnlyPointers(IF order[l] = <<>> THEN {e} ELSE {e, last[l]})
         /\ \A x \in Entries \ {e} : prev'[x] = prev[x]
         /\ next' \in [Entries -> Entries \cup {nil}] /\ prev' \in [Entries -> Entries \cup {nil}]
<1> USE NilAssumption
<1>1. /\ order' = [order EXCEPT ![l] = Append(@, e)] /\ UNCHANGED strayed
      /\ size' = [size EXCEPT ![l] = @ + 1] /\ e \notin Members(l)
      /\ AddFirst(l, e) \/ AddBehind(l, e)
  BY DEF AddLast, Add, Filed
<1>2. OnlyList(l) /\ order'[l] = Append(order[l], e) /\ size'[l] = size[l] + 1
  BY <1>1 DEF TypeOK, OnlyList, AddFirst, AddBehind, Ending
<1>3. root[l] = nil <=> order[l] = <<>>
  BY RootNil
<1>4. CASE order[l] = <<>>
  <2>1. /\ root' = [root EXCEPT ![l] = e] /\ last' = [last EXCEPT ![l] = e]
        /\ next' = [next EXCEPT ![e] = nil] /\ prev' = [prev EXCEPT ![e] = nil]
    BY <1>1, <1>3, <1>4 DEF AddFirst, AddBehind, Ending, Pointing
  <2> QED
    BY <1>1, <1>2, <1>4, <2>1 DEF TypeOK, OnlyPointers
<1>5. CASE order[l] # <<>>
  <2>1. /\ root' = [root EXCEPT ![l] = root[l]] /\ last' = [last EXCEPT ![l] = e]
        /\ next' = [next EXCEPT ![e] = nil, ![last[l]] = e]
        /\ prev' = [prev EXCEPT ![e] = last[l]]
    BY <1>1, <1>3, <1>5 DEF AddFirst, AddBehind, Ending, Pointing
  <2>2. last[l] \in Members(l)
    BY <1>5 DEF Ends, Members, TypeOK
  <2>3. last[l] \in Entries /\ last[l] # e
    BY <1>1, <2>2, MembersOf
  <2>4. /\ next'[e] = nil /\ next'[last[l]] = e
        /\ \A x \in Entries \ {e, last[l]} : next'[x] = next[x]
        /\ next' \in [Entries -> Entries \cup {nil}]
    <3> DEFINE cleared == [next EXCEPT ![e] = nil]
    <3>1. cleared \in [Entries -> Entries \cup {nil}] /\ cleared[e] = nil
          /\ \A x \in Entries \ {e} : cleared[x] = next[x]
      BY DEF TypeOK
    <3>2. next' = [cleared EXCEPT ![last[l]] = e]
      BY <2>1
    <3> HIDE DEF cleared
    <3> QED
      BY <2>3, <3>1, <3>2
  <2>5. /\ prev'[e] = last[l] /\ \A x \in Entries \ {e} : prev'[x] = prev[x]
        /\ prev' \in [Entries -> Entries \cup {nil}]
    BY <2>1, <2>3 DEF TypeOK
  <2>6. root'[l] = root[l] /\ last'[l] = e
    BY <2>1 DEF TypeOK
  <2> QED
    BY <1>1, <1>2, <1>5, <2>2, <2>3, <2>4, <2>5, <2>6 DEF OnlyPointers
<1> QED
  BY <1>4, <1>5

LEMMA AppendIs ==
  ASSUME NEW s \in Seq(Entries), NEW e \in Entries
  PROVE  /\ Append(s, e) \in Seq(Entries) /\ Len(Append(s, e)) = Len(s) + 1
         /\ Append(s, e)[Len(s) + 1] = e /\ \A i \in 1..Len(s) : Append(s, e)[i] = s[i]
OBVIOUS

(* Add of an entry from outside keeps the lists well formed.               *)
LEMMA AddLastKeeps ==
  ASSUME NEW l \in Lists, NEW e \in Entries, IInv, AddLast(l, e)
  PROVE  IInv'
<1> USE NilAssumption
<1>0. TypeOK /\ Distinct /\ Ends /\ Links /\ Stops /\ Detached
  BY DEF IInv
<1> DEFINE s == order[l]  new == order'[l]
<1>1. /\ OnlyList(l) /\ OnlyPointers(Members(l) \cup {e}) /\ UNCHANGED strayed
      /\ new = Append(s, e) /\ size'[l] = size[l] + 1 /\ last'[l] = e
      /\ root'[l] = IF s = <<>> THEN e ELSE root[l]
      /\ next'[e] = nil
      /\ prev'[e] = IF s = <<>> THEN nil ELSE last[l]
      /\ s # <<>> => next'[last[l]] = e
      /\ \A x \in Entries \ {e} : prev'[x] = prev[x]
  BY <1>0, AddDoes
<1>2. OnlyPointers(IF s = <<>> THEN {e} ELSE {e, last[l]})
  BY <1>0, AddDoes
<1>3. /\ s \in Seq(Entries) /\ new \in Seq(Entries) /\ Len(new) = Len(s) + 1 /\ Len(s) \in Nat
      /\ new[Len(s) + 1] = e /\ \A i \in 1..Len(s) : new[i] = s[i]
  <2>1. s \in Seq(Entries)
    BY <1>0 DEF TypeOK
  <2> QED
    BY <1>1, <2>1, AppendIs
<1>4. e \notin Filed /\ \A i \in 1..Len(s) : s[i] # e /\ s[i] \in Entries /\ s[i] \in Members(l)
  BY <1>0 DEF AddLast, Members, Filed, TypeOK
<1>5. /\ size[l] = Len(s) /\ root[l] = (IF s = <<>> THEN nil ELSE s[1])
      /\ last[l] = (IF s = <<>> THEN nil ELSE s[Len(s)])
  BY <1>0 DEF Ends
<1> HIDE DEF s, new
<1>6. s = <<>> <=> Len(s) = 0
  BY <1>3
<1>7. TypeOK'
  <2>1. order' \in [Lists -> Seq(Entries)]
    <3>1. order' = [order EXCEPT ![l] = new]
      BY <1>0, <1>1 DEF AddLast, TypeOK, s
    <3> QED
      BY <1>0, <1>3, <3>1 DEF TypeOK
  <2>2. size' \in [Lists -> Nat]
    BY <1>0 DEF AddLast, Add, TypeOK
  <2>3. root' \in [Lists -> Entries \cup {nil}] /\ last' \in [Lists -> Entries \cup {nil}]
    <3>1. \E r : r \in Entries \cup {nil} /\ root' = [root EXCEPT ![l] = r]
                 /\ last' = [last EXCEPT ![l] = e]
      BY <1>0 DEF AddLast, Add, AddFirst, AddBehind, Ending, TypeOK
    <3> QED
      BY <1>0, <3>1 DEF TypeOK
  <2>4. next' \in [Entries -> Entries \cup {nil}] /\ prev' \in [Entries -> Entries \cup {nil}]
    BY <1>0, AddDoes
  <2> QED
    BY <1>0, <1>1, <2>1, <2>2, <2>3, <2>4 DEF TypeOK
<1>8. EndsOf(l)'
  BY <1>1, <1>3, <1>5, <1>6 DEF EndsOf, new
<1>9. LinksOf(l)'
  <2> SUFFICES ASSUME NEW i \in 1..Len(s)
               PROVE  next'[new[i]] = new[i + 1] /\ prev'[new[i + 1]] = new[i]
    BY <1>3 DEF LinksOf, new
  <2>1. CASE i = Len(s)
    BY <1>1, <1>3, <1>5, <1>6, <2>1
  <2>2. CASE i < Len(s)
    <3>1. i + 1 \in 1..Len(s) /\ i \in 1..Len(s) - 1 /\ s # <<>>
      BY <1>3, <1>6, <2>2
    <3>2. s[i] # last[l]
      <4>1. s[i] = s[Len(s)] => i = Len(s)
        BY <1>0, <1>3, <1>6, <3>1 DEF Distinct, s
      <4> QED
        BY <1>5, <2>2, <3>1, <4>1
    <3>3. next[s[i]] = s[i + 1] /\ prev[s[i + 1]] = s[i]
      BY <1>0, <3>1 DEF Links, s
    <3>4. next'[s[i]] = next[s[i]] /\ prev'[s[i + 1]] = prev[s[i + 1]]
      BY <1>1, <1>2, <1>4, <3>1, <3>2 DEF OnlyPointers
    <3> QED
      BY <1>3, <3>1, <3>3, <3>4
  <2> QED
    BY <1>3, <2>1, <2>2
<1>10. Ends' /\ Links'
  <2>1. \A m \in Lists \ {l} : Members(m) \cap (Members(l) \cup {e}) = {}
    BY <1>0, <1>4, Apart, MembersOf
  <2> QED
    BY <1>0, <1>1, <1>8, <1>9, <2>1, ShapeFrame
<1>11. Distinct'
  <2>1. \A i \in 1..Len(new) : i \in 1..Len(s) \/ i = Len(s) + 1
    BY <1>3
  <2>2. \A i \in 1..Len(new) : new[i] \in Members(l) \/ new[i] \notin Filed
    BY <1>3, <1>4, <2>1
  <2>3. \A i, j \in 1..Len(s) : s[i] = s[j] => i = j
    BY <1>0 DEF Distinct, s
  <2>4. \A i, j \in 1..Len(new) : new[i] = new[j] => i = j
    BY <1>3, <1>4, <2>1, <2>3
  <2> QED
    BY <1>0, <1>1, <2>2, <2>4, DistinctFrame DEF new
<1>12. Stops'
  <2>1. CASE strayed
    BY <1>1, <2>1 DEF Stops
  <2>2. ASSUME ~strayed, NEW m \in Lists \ {l}
        PROVE  last'[m] = nil \/ next'[last'[m]] = nil
    <3>1. last'[m] = last[m] /\ (last[m] = nil \/ next[last[m]] = nil)
      BY <1>0, <1>1, <2>2 DEF OnlyList, Stops
    <3>2. last[m] # nil => last[m] \in Members(m)
      BY <1>0 DEF Ends, Members, TypeOK
    <3>3. last[m] # nil => last[m] \in Entries \ (Members(l) \cup {e})
      BY <1>0, <1>4, <3>2, Apart, MembersOf
    <3> QED
      BY <1>1, <3>1, <3>3 DEF OnlyPointers
  <2> QED
    BY <1>1, <2>1, <2>2 DEF Stops
<1>13. Detached'
  <2>1. CASE strayed
    BY <1>1, <2>1 DEF Detached
  <2>2. CASE ~strayed
    <3>1. Members(l)' = Members(l) \cup {e}
      <4>1. Len(s) + 1 \in 1..Len(new) /\ \A i \in 1..Len(s) : i \in 1..Len(new)
        BY <1>3
      <4>2. \A i \in 1..Len(new) : i \in 1..Len(s) \/ i = Len(s) + 1
        BY <1>3
      <4> QED
        BY <1>3, <4>1, <4>2 DEF Members, s, new
    <3>2. \A m \in Lists \ {l} : Members(m)' = Members(m)
      BY <1>1 DEF OnlyList, Members
    <3>3. Filed' = Filed \cup {e}
      BY <3>1, <3>2 DEF Filed
    <3> QED
      BY <1>0, <1>1, <2>2, <3>3, MembersOf DEF Detached, OnlyPointers
  <2> QED
    BY <2>1, <2>2
<1> QED
  BY <1>7, <1>10, <1>11, <1>12, <1>13 DEF IInv

-----------------------------------------------------------------------------
(* What Remove does to the list and the pointers: the branches come to one *)
(* that is at the front, one at the back, and one between two others.      *)
LEMMA RemoveDoes ==
  ASSUME TypeOK, Distinct, Ends, Links,
         NEW l \in Lists, NEW k \in 1..Len(order[l]), Remove(l, order[l][k])
  PROVE  LET s == order[l]
             inner == 1 < k /\ k < Len(s)
         IN  /\ size'[l] = Len(s) - 1
             /\ root'[l] = IF Len(s) = 1 THEN nil ELSE IF k = 1 THEN s[2] ELSE s[1]
             /\ last'[l] = IF Len(s) = 1 THEN nil ELSE IF k = Len(s) THEN s[k - 1] ELSE s[Len(s)]
             /\ \A m \in Lists \ {l} : root'[m] = root[m] /\ last'[m] = last[m] /\ size'[m] = size[m]
             /\ next'[s[k]] = nil /\ prev'[s[k]] = nil
             /\ inner => next'[s[k - 1]] = s[k + 1] /\ prev'[s[k + 1]] = s[k - 1]
             /\ \A x \in Entries \ {s[k]} : ~(inner /\ x = s[k - 1]) => next'[x] = next[x]
             /\ \A x \in Entries \ {s[k]} : ~(inner /\ x = s[k + 1]) => prev'[x] = prev[x]
             /\ size' \in [Lists -> Nat]
             /\ root' \in [Lists -> Entries \cup {nil}] /\ last' \in [Lists -> Entries \cup {nil}]
             /\ next' \in [Entries -> Entries \cup {nil}] /\ prev' \in [Entries -> Entries \cup {nil}]
<1> USE NilAssumption
<1> DEFINE s == order[l]  e == s[k]  inner == 1 < k /\ k < Len(s)
           cn == Clear(next, e)  cp == Clear(prev, e)
<1>1. /\ s \in Seq(Entries) /\ Len(s) \in Nat /\ k \in 1..Len(s) /\ \A i \in 1..Len(s) : s[i] \in Entries
      /\ \A i, j \in 1..Len(s) : s[i] = s[j] => i = j
  BY DEF TypeOK, Distinct
<1>2. size[l] = Len(s) /\ root[l] = s[1] /\ last[l] = s[Len(s)] /\ s # <<>>
  BY <1>1 DEF Ends
<1>3. \A i \in 1..Len(s) - 1 : next[s[i]] = s[i + 1] /\ prev[s[i + 1]] = s[i]
  BY DEF Links
<1>4. /\ size' = [size EXCEPT ![l] = @ - 1]
      /\ RemoveOnly(l, e) \/ RemoveRoot(l, e) \/ RemoveLast(l, e) \/ Unlink(l, e)
  BY DEF Remove
<1>5. size'[l] = Len(s) - 1 /\ size' \in [Lists -> Nat] /\ \A m \in Lists \ {l} : size'[m] = size[m]
  BY <1>1, <1>2, <1>4 DEF TypeOK
<1>6. /\ cn \in [Entries -> Entries \cup {nil}] /\ cp \in [Entries -> Entries \cup {nil}]
      /\ cn[e] = nil /\ cp[e] = nil
      /\ \A x \in Entries \ {e} : cn[x] = next[x] /\ cp[x] = prev[x]
  BY <1>1 DEF Clear, TypeOK
<1>7. ASSUME NEW r \in Entries \cup {nil}, NEW z \in Entries \cup {nil}, Ending(l, r, z)
      PROVE  /\ root'[l] = r /\ last'[l] = z
             /\ \A m \in Lists \ {l} : root'[m] = root[m] /\ last'[m] = last[m]
             /\ root' \in [Lists -> Entries \cup {nil}] /\ last' \in [Lists -> Entries \cup {nil}]
  BY <1>7 DEF Ending, TypeOK
<1> HIDE DEF s, cn, cp
<1>8. e \in Entries /\ (k # 1 => s[1] # e) /\ (k # Len(s) => s[Len(s)] # e)
  BY <1>1
<1>9. CASE Len(s) = 1
  <2>1. RemoveOnly(l, e)
    BY <1>2, <1>4, <1>9 DEF RemoveRoot, RemoveLast, Unlink
  <2>2. next' = cn /\ prev' = cp /\ Ending(l, nil, nil)
    BY <2>1 DEF RemoveOnly, Pointing, cn, cp
  <2>3. k = 1 /\ ~inner
    BY <1>1, <1>9
  <2> QED
    BY <1>5, <1>6, <1>7, <1>9, <2>2, <2>3 DEF s
<1>10. CASE Len(s) > 1 /\ k = 1
  <2>1. RemoveRoot(l, e)
    BY <1>2, <1>4, <1>10 DEF RemoveOnly, RemoveLast, Unlink
  <2>2. next' = cn /\ prev' = cp /\ Ending(l, next[e], last[l])
    BY <2>1 DEF RemoveRoot, Pointing, cn, cp
  <2>3. next[e] = s[2] /\ s[2] \in Entries /\ last[l] = s[Len(s)] /\ s[Len(s)] \in Entries
    BY <1>1, <1>2, <1>3, <1>10
  <2>4. ~inner /\ k # Len(s) /\ Len(s) # 1
    BY <1>1, <1>10
  <2>5. /\ root'[l] = s[2] /\ last'[l] = s[Len(s)]
        /\ \A m \in Lists \ {l} : root'[m] = root[m] /\ last'[m] = last[m]
        /\ root' \in [Lists -> Entries \cup {nil}] /\ last' \in [Lists -> Entries \cup {nil}]
    BY <1>7, <2>2, <2>3
  <2> QED
    BY <1>5, <1>6, <1>10, <2>2, <2>4, <2>5 DEF s
<1>11. CASE Len(s) > 1 /\ k = Len(s)
  <2>1. RemoveLast(l, e)
    BY <1>2, <1>4, <1>8, <1>11 DEF RemoveOnly, RemoveRoot, Unlink
  <2>2. next' = cn /\ prev' = cp /\ Ending(l, root[l], prev[e])
    BY <2>1 DEF RemoveLast, Pointing, cn, cp
  <2>3. prev[e] = s[k - 1] /\ s[k - 1] \in Entries /\ root[l] = s[1] /\ s[1] \in Entries
    BY <1>1, <1>2, <1>3, <1>11
  <2>4. ~inner /\ k # 1 /\ Len(s) # 1
    BY <1>11
  <2>5. /\ root'[l] = s[1] /\ last'[l] = s[k - 1]
        /\ \A m \in Lists \ {l} : root'[m] = root[m] /\ last'[m] = last[m]
        /\ root' \in [Lists -> Entries \cup {nil}] /\ last' \in [Lists -> Entries \cup {nil}]
    BY <1>7, <2>2, <2>3
  <2> QED
    BY <1>5, <1>6, <1>11, <2>2, <2>4, <2>5 DEF s
<1>12. CASE inner
  <2> DEFINE p == s[k - 1]  n == s[k + 1]
  <2>1. Unlink(l, e)
    BY <1>2, <1>4, <1>8, <1>12 DEF RemoveOnly, RemoveRoot, RemoveLast
  <2>2. /\ k - 1 \in 1..Len(s) - 1 /\ k - 1 \in 1..Len(s) /\ k \in 1..Len(s) - 1
        /\ k + 1 \in 1..Len(s) /\ (k - 1) + 1 = k
    BY <1>1, <1>12
  <2>3. p \in Entries /\ n \in Entries /\ p # e /\ n # e /\ p # nil /\ n # nil
    BY <1>1, <2>2
  <2>4. prev[e] = p /\ next[e] = n
    BY <1>3, <2>2
  <2>5. /\ next' = [cn EXCEPT ![p] = n] /\ prev' = [cp EXCEPT ![n] = p]
        /\ Ending(l, root[l], last[l])
    BY <2>1, <2>3, <2>4 DEF Unlink, Pointing, cn, cp
  <2>6. root[l] = s[1] /\ s[1] \in Entries /\ last[l] = s[Len(s)] /\ s[Len(s)] \in Entries
    BY <1>1, <1>2
  <2>7. /\ root'[l] = s[1] /\ last'[l] = s[Len(s)]
        /\ \A m \in Lists \ {l} : root'[m] = root[m] /\ last'[m] = last[m]
        /\ root' \in [Lists -> Entries \cup {nil}] /\ last' \in [Lists -> Entries \cup {nil}]
    BY <1>7, <2>5, <2>6
  <2> HIDE DEF p, n
  <2>8. /\ next' \in [Entries -> Entries \cup {nil}] /\ next'[e] = nil /\ next'[p] = n
        /\ \A x \in Entries \ {e, p} : next'[x] = next[x]
    BY <1>6, <1>8, <2>3, <2>5
  <2>9. /\ prev' \in [Entries -> Entries \cup {nil}] /\ prev'[e] = nil /\ prev'[n] = p
        /\ \A x \in Entries \ {e, n} : prev'[x] = prev[x]
    BY <1>6, <1>8, <2>3, <2>5
  <2>10. Len(s) # 1 /\ k # 1 /\ k # Len(s)
    BY <1>1, <1>12
  <2> QED
    BY <1>5, <1>12, <2>7, <2>8, <2>9, <2>10 DEF s, p, n
<1>13. Len(s) = 1 \/ (Len(s) > 1 /\ k = 1) \/ (Len(s) > 1 /\ k = Len(s)) \/ inner
  <2> DEFINE n == Len(s)
  <2>1. n \in Nat /\ k \in 1..n
    BY <1>1
  <2> HIDE DEF n
  <2>2. n = 1 \/ (n > 1 /\ k = 1) \/ (n > 1 /\ k = n) \/ (1 < k /\ k < n)
    BY <2>1
  <2> QED
    BY <2>2 DEF n
<1> QED
  BY <1>9, <1>10, <1>11, <1>12, <1>13, Zenon DEF s

(* The order without its k-th entry.                                       *)
IsWithout(new, s, k) ==
  /\ new \in Seq(Entries) /\ Len(new) = Len(s) - 1
  /\ \A i \in 1..Len(new) : new[i] = IF i < k THEN s[i] ELSE s[i + 1]

(* Remove of a member, from wherever it is, keeps the lists' shape.        *)
LEMMA RemoveKeeps ==
  ASSUME TypeOK, Distinct, Ends, Links, strayed' \in BOOLEAN,
         NEW l \in Lists, NEW k \in 1..Len(order[l]), Remove(l, order[l][k]),
         NEW new, IsWithout(new, order[l], k), order' = [order EXCEPT ![l] = new]
  PROVE  /\ TypeOK' /\ Distinct' /\ Ends' /\ Links'
         /\ Filed \ {order[l][k]} = Filed' /\ order[l][k] \notin Filed'
<1> USE NilAssumption
<1> DEFINE s == order[l]  e == s[k]  inner == 1 < k /\ k < Len(s)
<1>1. /\ s \in Seq(Entries) /\ Len(s) \in Nat /\ k \in 1..Len(s)
      /\ \A i \in 1..Len(s) : s[i] \in Entries /\ s[i] \in Members(l)
      /\ \A i, j \in 1..Len(s) : s[i] = s[j] => i = j
  BY DEF TypeOK, Distinct, Members
<1>2. /\ size'[l] = Len(s) - 1
      /\ root'[l] = IF Len(s) = 1 THEN nil ELSE IF k = 1 THEN s[2] ELSE s[1]
      /\ last'[l] = IF Len(s) = 1 THEN nil ELSE IF k = Len(s) THEN s[k - 1] ELSE s[Len(s)]
      /\ \A m \in Lists \ {l} : root'[m] = root[m] /\ last'[m] = last[m] /\ size'[m] = size[m]
      /\ inner => next'[s[k - 1]] = s[k + 1] /\ prev'[s[k + 1]] = s[k - 1]
      /\ \A x \in Entries \ {e} : ~(inner /\ x = s[k - 1]) => next'[x] = next[x]
      /\ \A x \in Entries \ {e} : ~(inner /\ x = s[k + 1]) => prev'[x] = prev[x]
      /\ size' \in [Lists -> Nat]
      /\ root' \in [Lists -> Entries \cup {nil}] /\ last' \in [Lists -> Entries \cup {nil}]
      /\ next' \in [Entries -> Entries \cup {nil}] /\ prev' \in [Entries -> Entries \cup {nil}]
  BY RemoveDoes
<1>3. /\ new \in Seq(Entries) /\ Len(new) = Len(s) - 1
      /\ \A i \in 1..Len(new) : new[i] = IF i < k THEN s[i] ELSE s[i + 1]
  BY DEF IsWithout
<1>4. order'[l] = new /\ (\A m \in Lists \ {l} : order'[m] = order[m]) /\ order' \in [Lists -> Seq(Entries)]
  BY <1>3 DEF TypeOK
<1>5. OnlyList(l)
  BY <1>2, <1>4 DEF OnlyList
<1>6. TypeOK'
  BY <1>2, <1>4 DEF TypeOK
<1>7. \A i \in 1..Len(s) - 1 : next[s[i]] = s[i + 1] /\ prev[s[i + 1]] = s[i]
  BY DEF Links
<1> HIDE DEF s
<1>8. new = <<>> <=> Len(s) = 1
  BY <1>1, <1>3
<1>9. EndsOf(l)'
  <2>1. CASE Len(s) = 1
    BY <1>2, <1>3, <1>4, <1>8, <2>1 DEF EndsOf
  <2>2. CASE Len(s) # 1
    <3>1. 1 \in 1..Len(new) /\ Len(new) \in 1..Len(new) /\ Len(new) = Len(s) - 1
      BY <1>1, <1>3, <2>2
    <3>2. new[1] = IF k = 1 THEN s[2] ELSE s[1]
      BY <1>1, <1>3, <3>1
    <3>3. new[Len(new)] = IF k = Len(s) THEN s[k - 1] ELSE s[Len(s)]
      BY <1>1, <1>3, <3>1
    <3> QED
      BY <1>2, <1>3, <1>4, <1>8, <2>2, <3>2, <3>3 DEF EndsOf
  <2> QED
    BY <2>1, <2>2
<1>10. LinksOf(l)'
  <2> SUFFICES ASSUME NEW i \in 1..Len(new) - 1
               PROVE  next'[new[i]] = new[i + 1] /\ prev'[new[i + 1]] = new[i]
    BY <1>4 DEF LinksOf
  <2>1. /\ i \in 1..Len(s) /\ i + 1 \in 1..Len(s) /\ i + 2 \in 1..Len(s)
        /\ i \in 1..Len(s) - 1 /\ i + 1 \in 1..Len(s) - 1 /\ (i + 1) + 1 = i + 2
        /\ i \in 1..Len(new) /\ i + 1 \in 1..Len(new)
    BY <1>1, <1>3
  <2>2. CASE i + 1 < k
    <3>1. new[i] = s[i] /\ new[i + 1] = s[i + 1]
      BY <1>1, <1>3, <2>1, <2>2
    <3>2. s[i] # e /\ s[i + 1] # e /\ (inner => s[i] # s[k - 1] /\ s[i + 1] # s[k + 1])
      BY <1>1, <2>1, <2>2
    <3>3. next[s[i]] = s[i + 1] /\ prev[s[i + 1]] = s[i]
      BY <1>7, <2>1
    <3> QED
      BY <1>1, <1>2, <2>1, <3>1, <3>2, <3>3
  <2>3. CASE i + 1 = k
    <3>1. inner /\ new[i] = s[k - 1] /\ new[i + 1] = s[k + 1]
      BY <1>1, <1>3, <2>1, <2>3
    <3> QED
      BY <1>2, <3>1
  <2>4. CASE i + 1 > k
    <3>1. new[i] = s[i + 1] /\ new[i + 1] = s[i + 2]
      BY <1>1, <1>3, <2>1, <2>4
    <3>2. s[i + 1] # e /\ s[i + 2] # e /\ (inner => s[i + 1] # s[k - 1] /\ s[i + 2] # s[k + 1])
      BY <1>1, <2>1, <2>4
    <3>3. next[s[i + 1]] = s[i + 2] /\ prev[s[i + 2]] = s[i + 1]
      BY <1>7, <2>1
    <3> QED
      BY <1>1, <1>2, <2>1, <3>1, <3>2, <3>3
  <2> QED
    BY <1>1, <2>1, <2>2, <2>3, <2>4
<1>11. Ends' /\ Links'
  <2>1. OnlyPointers(Members(l))
    <3>1. e \in Members(l) /\ (inner => s[k - 1] \in Members(l) /\ s[k + 1] \in Members(l))
      BY <1>1
    <3> QED
      BY <1>2, <3>1 DEF OnlyPointers
  <2>2. \A m \in Lists \ {l} : Members(m) \cap Members(l) = {}
    BY Apart
  <2> QED
    BY <1>5, <1>9, <1>10, <2>1, <2>2, ShapeFrame
<1>12. \A i \in 1..Len(new) : \E j \in 1..Len(s) \ {k} : j = (IF i < k THEN i ELSE i + 1) /\ new[i] = s[j]
  BY <1>1, <1>3
<1>13. Distinct'
  <2>1. \A i \in 1..Len(new) : new[i] \in Members(l)
    BY <1>1, <1>12
  <2>2. \A i, j \in 1..Len(new) : new[i] = new[j] => i = j
    BY <1>1, <1>12
  <2> QED
    BY <1>4, <1>5, <2>1, <2>2, DistinctFrame
<1>14. Members(l)' = Members(l) \ {e}
  <2>1. Members(l)' \subseteq Members(l) \ {e}
    BY <1>1, <1>4, <1>12 DEF Members
  <2>2. ASSUME NEW j \in 1..Len(s) \ {k}
        PROVE  s[j] \in Members(l)'
    <3>1. CASE j < k
      <4>1. j \in 1..Len(new) /\ new[j] = s[j]
        BY <1>1, <1>3, <3>1
      <4> QED
        BY <1>4, <4>1 DEF Members
    <3>2. CASE j > k
      <4>1. j - 1 \in 1..Len(new) /\ new[j - 1] = s[j]
        BY <1>1, <1>3, <3>2
      <4> QED
        BY <1>4, <4>1 DEF Members
    <3> QED
      BY <1>1, <3>1, <3>2
  <2> QED
    BY <2>1, <2>2 DEF Members, s
<1>15. \A m \in Lists \ {l} : Members(m)' = Members(m) /\ e \notin Members(m)
  <2>1. e \in Members(l)
    BY <1>1
  <2>2. \A m \in Lists \ {l} : Members(m)' = Members(m)
    BY <1>4 DEF Members
  <2> QED
    BY <2>1, <2>2, Apart
<1>16. Filed' = Filed \ {e}
  BY <1>14, <1>15 DEF Filed
<1> QED
  BY <1>6, <1>11, <1>13, <1>16 DEF s

(* The worker removes the head: the entry leaves with its pointers         *)
(* cleared, and the ends of the lists still point at nil.                  *)
LEMMA RemoveFirstKeeps ==
  ASSUME NEW l \in Lists, IInv, RemoveFirst(l)
  PROVE  IInv'
<1> USE NilAssumption
<1>0. TypeOK /\ Distinct /\ Ends /\ Links /\ Stops /\ Detached
  BY DEF IInv
<1> DEFINE s == order[l]  e == s[1]  new == Tail(s)
<1>1. /\ root[l] # nil /\ Remove(l, root[l]) /\ UNCHANGED strayed
      /\ order' = [order EXCEPT ![l] = new]
  BY DEF RemoveFirst, NextOf
<1>2. s \in Seq(Entries) /\ s # <<>>
  BY <1>0, <1>1, RootNil DEF TypeOK
<1>3. 1 \in 1..Len(s) /\ Len(s) \in Nat /\ root[l] = e
  BY <1>0, <1>2 DEF Ends
<1>4. IsWithout(new, s, 1)
  BY <1>2, <1>3 DEF IsWithout
<1>5. strayed' \in BOOLEAN
  BY <1>0, <1>1 DEF TypeOK
<1>6. Remove(l, order[l][1])
  BY <1>1, <1>3
<1> HIDE DEF new
<1>7. /\ TypeOK' /\ Distinct' /\ Ends' /\ Links'
      /\ Filed \ {e} = Filed' /\ e \notin Filed'
  BY <1>0, <1>1, <1>3, <1>4, <1>5, <1>6, RemoveKeeps
<1>8. /\ last'[l] = IF Len(s) = 1 THEN nil ELSE s[Len(s)]
      /\ \A m \in Lists \ {l} : last'[m] = last[m]
      /\ next'[e] = nil /\ prev'[e] = nil
      /\ \A x \in Entries \ {e} : next'[x] = next[x] /\ prev'[x] = prev[x]
  <2>1. ~(1 < 1)
    OBVIOUS
  <2>2. /\ next'[e] = nil /\ prev'[e] = nil
        /\ \A x \in Entries \ {e} : next'[x] = next[x] /\ prev'[x] = prev[x]
        /\ \A m \in Lists \ {l} : last'[m] = last[m]
    <3>1. /\ next'[s[1]] = nil /\ prev'[s[1]] = nil
          /\ \A m \in Lists \ {l} : last'[m] = last[m]
          /\ \A x \in Entries \ {s[1]} :
               /\ ~((1 < 1 /\ 1 < Len(s)) /\ x = s[1 - 1]) => next'[x] = next[x]
               /\ ~((1 < 1 /\ 1 < Len(s)) /\ x = s[1 + 1]) => prev'[x] = prev[x]
      BY <1>0, <1>3, <1>6, RemoveDoes, Zenon
    <3> QED
      BY <2>1, <3>1, Zenon
  <2>3. last'[l] = IF Len(s) = 1 THEN nil ELSE IF 1 = Len(s) THEN s[1 - 1] ELSE s[Len(s)]
    BY <1>0, <1>3, <1>6, RemoveDoes, Zenon
  <2> QED
    BY <2>2, <2>3
<1>9. \A i, j \in 1..Len(s) : s[i] = s[j] => i = j
  BY <1>0 DEF Distinct
<1>10. e \in Members(l) /\ \A m \in Lists \ {l} : last[m] = nil \/ last[m] \in Entries \ {e}
  <2>1. e \in Members(l)
    BY <1>3 DEF Members
  <2>2. \A m \in Lists : last[m] = nil \/ last[m] \in Members(m)
    BY <1>0 DEF Ends, Members, TypeOK
  <2> QED
    BY <1>0, <2>1, <2>2, Apart, MembersOf
<1>11. Stops'
  <2>1. CASE strayed
    BY <1>1, <2>1 DEF Stops
  <2>2. ASSUME ~strayed, NEW m \in Lists
        PROVE  last'[m] = nil \/ next'[last'[m]] = nil
    <3>1. last[m] = nil \/ next[last[m]] = nil
      BY <1>0, <2>2 DEF Stops
    <3>2. CASE m # l
      BY <1>8, <1>10, <3>1, <3>2
    <3>3. CASE m = l /\ Len(s) # 1
      <4>1. last[l] = s[Len(s)] /\ Len(s) \in 1..Len(s)
        BY <1>0, <1>2, <1>3 DEF Ends
      <4>2. s[Len(s)] \in Entries
        BY <1>2, <4>1
      <4>3. s[Len(s)] # e
        BY <1>3, <1>9, <3>3, <4>1
      <4> QED
        BY <1>8, <3>1, <3>3, <4>1, <4>2, <4>3
    <3>4. CASE m = l /\ Len(s) = 1
      BY <1>8, <3>4
    <3> QED
      BY <3>2, <3>3, <3>4
  <2> QED
    BY <1>1, <2>1, <2>2 DEF Stops
<1>12. Detached'
  BY <1>0, <1>1, <1>7, <1>8 DEF Detached
<1> QED
  BY <1>7, <1>11, <1>12 DEF IInv

LEMMA ConcatIs ==
  ASSUME NEW a \in Seq(Entries), NEW b \in Seq(Entries)
  PROVE  /\ a \o b \in Seq(Entries) /\ Len(a \o b) = Len(a) + Len(b)
         /\ \A i \in 1..Len(a) + Len(b) :
              (a \o b)[i] = IF i <= Len(a) THEN a[i] ELSE b[i - Len(a)]
OBVIOUS

(* Remove from anywhere, as the tests use it.                              *)
LEMMA RemoveAnyKeeps ==
  ASSUME NEW l \in Lists, NEW k \in 1..Len(order[l]), IInv, RemoveAny(l, k)
  PROVE  IInv'
<1>0. TypeOK /\ Distinct /\ Ends /\ Links
  BY DEF IInv
<1> DEFINE s == order[l]  new == Seqs!RemoveAt(s, k)
<1>1. /\ Remove(l, order[l][k]) /\ strayed' = TRUE
      /\ order' = [order EXCEPT ![l] = new]
  BY DEF RemoveAny
<1>2. s \in Seq(Entries) /\ k \in 1..Len(s) /\ Len(s) \in Nat
  BY <1>0 DEF TypeOK
<1>3. IsWithout(new, s, k)
  <2> DEFINE a == SubSeq(s, 1, k - 1)  b == SubSeq(s, k + 1, Len(s))
  <2>1. new = a \o b
    BY DEF Seqs!RemoveAt
  <2>2. /\ a \in Seq(Entries) /\ Len(a) = k - 1
        /\ \A i \in 1..k - 1 : a[i] = s[i]
    BY <1>2
  <2>3. /\ b \in Seq(Entries) /\ Len(b) = Len(s) - k
        /\ \A i \in 1..Len(s) - k : b[i] = s[k + i]
    BY <1>2
  <2> HIDE DEF a, b, s, new
  <2>4. /\ a \o b \in Seq(Entries) /\ Len(a \o b) = Len(s) - 1
        /\ \A i \in 1..Len(s) - 1 : (a \o b)[i] = IF i < k THEN a[i] ELSE b[i - (k - 1)]
    <3>1. /\ a \o b \in Seq(Entries) /\ Len(a \o b) = Len(a) + Len(b)
          /\ \A i \in 1..Len(a) + Len(b) :
               (a \o b)[i] = IF i <= Len(a) THEN a[i] ELSE b[i - Len(a)]
      BY <2>2, <2>3, ConcatIs
    <3>2. Len(a) = k - 1 /\ Len(a) + Len(b) = Len(s) - 1
      BY <1>2, <2>2, <2>3
    <3>3. \A i \in 1..Len(s) - 1 : i <= k - 1 <=> i < k
      BY <1>2
    <3>4. /\ a \o b \in Seq(Entries) /\ Len(a \o b) = Len(s) - 1
          /\ \A i \in 1..Len(s) - 1 : (a \o b)[i] = IF i <= k - 1 THEN a[i] ELSE b[i - (k - 1)]
      BY <3>1, <3>2, Zenon
    <3> QED
      BY <3>3, <3>4, Zenon
  <2>5. \A i \in 1..Len(s) - 1 : IF i < k THEN a[i] = s[i] ELSE b[i - (k - 1)] = s[i + 1]
    BY <1>2, <2>2, <2>3
  <2>6. /\ new \in Seq(Entries) /\ Len(new) = Len(s) - 1
        /\ \A i \in 1..Len(s) - 1 : new[i] = IF i < k THEN s[i] ELSE s[i + 1]
    BY <2>1, <2>4, <2>5, Zenon
  <2> QED
    BY <2>6, Zenon DEF IsWithout
<1> HIDE DEF new
<1>4. TypeOK' /\ Distinct' /\ Ends' /\ Links'
  BY <1>0, <1>1, <1>3, RemoveKeeps
<1> QED
  BY <1>1, <1>4 DEF IInv, Stops, Detached

(* Replace in place, in a list whose ends point at nil.                    *)
LEMMA ReplaceOneKeeps ==
  ASSUME NEW l \in Lists, NEW k \in 1..Len(order[l]), NEW e \in Entries, IInv, ReplaceOne(l, k, e)
  PROVE  IInv'
<1> USE NilAssumption
<1>0. TypeOK /\ Distinct /\ Ends /\ Links
  BY DEF IInv
<1> DEFINE s == order[l]  o == s[k]  new == [s EXCEPT ![k] = e]
           p == IF k = 1 THEN nil ELSE s[k - 1]
           n == IF k = Len(s) THEN nil ELSE s[k + 1]
           prevE == [prev EXCEPT ![e] = p]  nextE == [next EXCEPT ![e] = n]
<1>1. /\ s \in Seq(Entries) /\ Len(s) \in Nat /\ k \in 1..Len(s) /\ s # <<>>
      /\ \A i, j \in 1..Len(s) : s[i] = s[j] => i = j
  BY <1>0 DEF TypeOK, Distinct
<1>2. e \notin Filed /\ \A i \in 1..Len(s) : s[i] \in Entries /\ s[i] # e /\ s[i] # nil /\ s[i] \in Members(l)
  BY <1>0 DEF ReplaceOne, TypeOK, Members, Filed
<1>3. root[l] = s[1] /\ last[l] = s[Len(s)] /\ size[l] = Len(s)
  BY <1>0, <1>1 DEF Ends
<1>4. \A i \in 1..Len(s) - 1 : next[s[i]] = s[i + 1] /\ prev[s[i + 1]] = s[i]
  BY <1>0 DEF Links
<1>5. prev[s[1]] = nil /\ next[s[Len(s)]] = nil
  BY <1>3 DEF ReplaceOne
<1>6. /\ new \in Seq(Entries) /\ Len(new) = Len(s) /\ new[k] = e
      /\ \A i \in 1..Len(s) \ {k} : new[i] = s[i]
  BY <1>1
<1>7. order' = [order EXCEPT ![l] = new] /\ strayed' = TRUE /\ Replace(l, o, e)
  BY DEF ReplaceOne
<1>8. order'[l] = new /\ (\A m \in Lists \ {l} : order'[m] = order[m]) /\ order' \in [Lists -> Seq(Entries)]
  BY <1>0, <1>6, <1>7 DEF TypeOK
<1> HIDE DEF s, new
<1>9. prev[o] = p /\ (k # 1 => k - 1 \in 1..Len(s) /\ k - 1 \in 1..Len(s) - 1)
  <2>1. CASE k = 1
    BY <1>5, <2>1
  <2>2. CASE k # 1
    <3>1. k - 1 \in 1..Len(s) /\ k - 1 \in 1..Len(s) - 1 /\ (k - 1) + 1 = k
      BY <1>1, <2>2
    <3> QED
      BY <1>4, <2>2, <3>1
  <2> QED
    BY <2>1, <2>2
<1>10. next[o] = n /\ (k # Len(s) => k + 1 \in 1..Len(s) /\ k \in 1..Len(s) - 1)
  <2>1. CASE k = Len(s)
    BY <1>5, <2>1
  <2>2. CASE k # Len(s)
    <3>1. k + 1 \in 1..Len(s) /\ k \in 1..Len(s) - 1
      BY <1>1, <2>2
    <3> QED
      BY <1>4, <2>2, <3>1
  <2> QED
    BY <2>1, <2>2
<1>11. /\ p \in Entries \cup {nil} /\ (p = nil <=> k = 1) /\ p # e
       /\ n \in Entries \cup {nil} /\ (n = nil <=> k = Len(s)) /\ n # e
       /\ p # nil => p = s[k - 1] /\ p \in Members(l)
       /\ n # nil => n = s[k + 1] /\ n \in Members(l)
       /\ o \in Entries /\ e # nil
  BY <1>1, <1>2, <1>9, <1>10
<1>12. /\ root' = [root EXCEPT ![l] = IF p = nil THEN e ELSE root[l]]
       /\ last' = [last EXCEPT ![l] = IF n = nil THEN e ELSE last[l]]
       /\ next' = IF p = nil THEN nextE ELSE [nextE EXCEPT ![p] = e]
       /\ prev' = IF n = nil THEN prevE ELSE [prevE EXCEPT ![n] = e]
       /\ size' = size
  BY <1>7, <1>9, <1>10 DEF Replace, Ending, Pointing
<1>13. /\ prevE \in [Entries -> Entries \cup {nil}] /\ prevE[e] = p
       /\ nextE \in [Entries -> Entries \cup {nil}] /\ nextE[e] = n
       /\ \A x \in Entries \ {e} : prevE[x] = prev[x] /\ nextE[x] = next[x]
  BY <1>0, <1>11 DEF TypeOK
<1> HIDE DEF p, n, o, prevE, nextE
<1>14. /\ next' \in [Entries -> Entries \cup {nil}] /\ next'[e] = n
       /\ p # nil => next'[p] = e
       /\ \A x \in Entries \ {e, p} : next'[x] = next[x]
  BY <1>11, <1>12, <1>13
<1>15. /\ prev' \in [Entries -> Entries \cup {nil}] /\ prev'[e] = p
       /\ n # nil => prev'[n] = e
       /\ \A x \in Entries \ {e, n} : prev'[x] = prev[x]
  BY <1>11, <1>12, <1>13
<1>16. /\ root'[l] = (IF k = 1 THEN e ELSE s[1]) /\ last'[l] = (IF k = Len(s) THEN e ELSE s[Len(s)])
       /\ size'[l] = Len(s)
       /\ \A m \in Lists \ {l} : root'[m] = root[m] /\ last'[m] = last[m] /\ size'[m] = size[m]
       /\ root' \in [Lists -> Entries \cup {nil}] /\ last' \in [Lists -> Entries \cup {nil}]
       /\ size' \in [Lists -> Nat]
  BY <1>0, <1>3, <1>11, <1>12 DEF TypeOK
<1>17. TypeOK'
  BY <1>7, <1>8, <1>14, <1>15, <1>16 DEF TypeOK
<1>18. OnlyList(l)
  BY <1>8, <1>16 DEF OnlyList
<1>19. EndsOf(l)'
  <2>1. Len(s) > 0 /\ new # <<>> /\ 1 \in 1..Len(s) /\ Len(s) \in 1..Len(s)
    BY <1>1, <1>6
  <2>2. new[1] = (IF k = 1 THEN e ELSE s[1]) /\ new[Len(s)] = (IF k = Len(s) THEN e ELSE s[Len(s)])
    BY <1>6, <2>1
  <2> QED
    BY <1>6, <1>8, <1>16, <2>1, <2>2 DEF EndsOf
<1>20. LinksOf(l)'
  <2> SUFFICES ASSUME NEW i \in 1..Len(s) - 1
               PROVE  next'[new[i]] = new[i + 1] /\ prev'[new[i + 1]] = new[i]
    BY <1>6, <1>8 DEF LinksOf
  <2>1. i \in 1..Len(s) /\ i + 1 \in 1..Len(s) /\ i \in Nat
    BY <1>1
  <2>2. next[s[i]] = s[i + 1] /\ prev[s[i + 1]] = s[i]
    BY <1>4
  <2>3. CASE i = k
    <3>1. new[i] = e /\ new[i + 1] = s[k + 1] /\ n = s[k + 1] /\ n # nil
      BY <1>1, <1>6, <1>10, <1>11, <2>1, <2>3
    <3> QED
      BY <1>14, <1>15, <3>1
  <2>4. CASE i + 1 = k
    <3>1. new[i] = s[k - 1] /\ new[i + 1] = e /\ p = s[k - 1] /\ p # nil
      BY <1>1, <1>6, <1>9, <1>11, <2>1, <2>4
    <3> QED
      BY <1>14, <1>15, <3>1
  <2>5. CASE i # k /\ i + 1 # k
    <3>1. new[i] = s[i] /\ new[i + 1] = s[i + 1]
      BY <1>6, <2>1, <2>5
    <3>2. s[i] \in Entries \ {e} /\ s[i + 1] \in Entries \ {e}
      BY <1>2, <2>1
    <3>3. s[i] # p
      <4>1. k # 1 => s[i] # s[k - 1]
        BY <1>1, <1>9, <2>1, <2>5
      <4> QED
        BY <1>2, <1>11, <2>1, <4>1
    <3>4. s[i + 1] # n
      <4>1. k # Len(s) => s[i + 1] # s[k + 1]
        BY <1>1, <1>10, <2>1, <2>5
      <4> QED
        BY <1>2, <1>11, <2>1, <4>1
    <3> QED
      BY <1>14, <1>15, <2>2, <3>1, <3>2, <3>3, <3>4
  <2> QED
    BY <2>3, <2>4, <2>5
<1>21. Ends' /\ Links'
  <2>1. OnlyPointers(Members(l) \cup {e})
    BY <1>11, <1>14, <1>15, MembersOf, <1>0 DEF OnlyPointers
  <2>2. \A m \in Lists \ {l} : Members(m) \cap (Members(l) \cup {e}) = {}
    BY <1>0, <1>2, Apart, MembersOf
  <2> QED
    BY <1>0, <1>18, <1>19, <1>20, <2>1, <2>2, ShapeFrame
<1>22. Distinct'
  <2>1. \A i \in 1..Len(new) : i \in 1..Len(s) /\ (i = k \/ i \in 1..Len(s) \ {k})
    BY <1>6
  <2>2. \A i \in 1..Len(new) : new[i] \in Members(l) \/ new[i] \notin Filed
    BY <1>2, <1>6, <2>1
  <2>3. \A i, j \in 1..Len(new) : new[i] = new[j] => i = j
    BY <1>1, <1>2, <1>6, <2>1
  <2> QED
    BY <1>0, <1>8, <1>18, <2>2, <2>3, DistinctFrame
<1> QED
  BY <1>7, <1>17, <1>21, <1>22 DEF IInv, Stops, Detached

-----------------------------------------------------------------------------
LEMMA InitHolds == Init => IInv
<1> SUFFICES ASSUME Init PROVE IInv
  OBVIOUS
<1>1. \A l \in Lists : order[l] = <<>> /\ Len(order[l]) = 0
  BY DEF Init
<1>2. TypeOK
  <2>1. <<>> \in Seq(Entries)
    OBVIOUS
  <2>2. root \in [Lists -> Entries \cup {nil}] /\ last \in [Lists -> Entries \cup {nil}]
        /\ size \in [Lists -> Nat] /\ order \in [Lists -> Seq(Entries)]
    BY <2>1 DEF Init
  <2>3. prev \in [Entries -> Entries \cup {nil}] /\ next \in [Entries -> Entries \cup {nil}]
    BY DEF Init
  <2> QED
    BY <2>2, <2>3 DEF Init, TypeOK
<1>3. Distinct /\ Ends /\ Links
  BY <1>1 DEF Init, Distinct, Ends, Links
<1> QED
  BY <1>2, <1>3 DEF IInv, Init, Stops, Detached

LEMMA StepKeeps ==
  ASSUME IInv, [Next \/ Stray]_vars
  PROVE  IInv'
<1>1. CASE Next
  BY <1>1, AddLastKeeps, RemoveFirstKeeps DEF Next
<1>2. CASE Stray
  BY <1>2, RemoveAnyKeeps, ReplaceOneKeeps DEF Stray
<1>3. CASE UNCHANGED vars
  <2>1. IInv' <=> IInv
    BY <1>3 DEF vars, IInv, TypeOK, Distinct, Ends, Links, Stops, Detached, Filed, Members
  <2> QED
    BY <2>1
<1> QED
  BY <1>1, <1>2, <1>3

(* The invariant holds in every state, whichever way the lists are used.   *)
THEOREM ListInvariant == AnySpec => []IInv
<1> QED
  BY InitHolds, StepKeeps, PTL DEF AnySpec

(* The worker's use is one of those, in which nothing strays.              *)
LEMMA WorkerUse == Spec => AnySpec /\ []~strayed
<1>1. Init => ~strayed
  BY DEF Init
<1>2. ~strayed /\ [Next]_vars => ~strayed'
  BY DEF Next, AddLast, RemoveFirst, vars
<1>3. [Next]_vars => [Next \/ Stray]_vars
  OBVIOUS
<1> QED
  BY <1>1, <1>2, <1>3, PTL DEF Spec, AnySpec

(* The fields have their types and size is never negative.                 *)
THEOREM ListTypes == AnySpec => []TypeOK
<1>1. IInv => TypeOK
  BY DEF IInv
<1> QED
  BY <1>1, ListInvariant, PTL

(* root, last and size are those of the entries in each list, and          *)
(* neighbours point at each other: Remove and Replace never break a list.  *)
(* As long as entries leave at the front, the walk from root stops at      *)
(* last, and the entries outside point nowhere.                            *)
THEOREM ListShape == AnySpec => []Shape
<1>1. IInv => Shape
  BY DEF IInv, Shape
<1> QED
  BY <1>1, ListInvariant, PTL

(* In the worker's use the walk always stops at last, and entries outside  *)
(* always point nowhere.                                                   *)
THEOREM ListStops ==
  Spec => [](/\ \A l \in Lists : last[l] = nil \/ next[last[l]] = nil
             /\ \A e \in Entries \ Filed : next[e] = nil /\ prev[e] = nil)
<1>1. IInv => Stops /\ Detached
  BY DEF IInv
<1>2. ~strayed /\ Stops /\ Detached
        => /\ \A l \in Lists : last[l] = nil \/ next[last[l]] = nil
           /\ \A e \in Entries \ Filed : next[e] = nil /\ prev[e] = nil
  BY DEF Stops, Detached
<1> QED
  BY <1>1, <1>2, ListInvariant, WorkerUse, PTL

LEMMA FirstIs ==
  ASSUME NEW s \in Seq(Entries)
  PROVE  Fifo!First(s) = IF s = <<>> THEN nil ELSE s[1]
<1>1. s # <<>> => Head(s) = s[1]
  OBVIOUS
<1> QED
  BY <1>1 DEF Fifo!First

(* The worker's operations are those of the queues: Push of an element     *)
(* that is in none, and Pop of the front of one that is not empty.         *)
LEMMA NextIsFifo ==
  ASSUME IInv, IInv', Next
  PROVE  Fifo!Next
<1>1. ASSUME NEW l \in Lists, NEW t, order' = [order EXCEPT ![l] = t]
      PROVE  Fifo!Become(l, t)
  <2>1. order'[l] = t /\ \A m \in Lists \ {l} : order'[m] = order[m]
    BY <1>1 DEF IInv, TypeOK
  <2>2. \A m \in Lists : root'[m] = Fifo!First(order'[m]) /\ size'[m] = Len(order'[m])
    <3>1. \A m \in Lists : order'[m] \in Seq(Entries) /\ size'[m] = Len(order'[m])
                           /\ root'[m] = IF order'[m] = <<>> THEN nil ELSE order'[m][1]
      BY DEF IInv, TypeOK, Ends
    <3> QED
      BY <3>1, FirstIs
  <2>3. \A m \in Lists : root[m] = Fifo!First(order[m]) /\ size[m] = Len(order[m])
    <3>1. \A m \in Lists : order[m] \in Seq(Entries) /\ size[m] = Len(order[m])
                           /\ root[m] = IF order[m] = <<>> THEN nil ELSE order[m][1]
      BY DEF IInv, TypeOK, Ends
    <3> QED
      BY <3>1, FirstIs
  <2>4. \A m \in Lists \ {l} : root'[m] = root[m] /\ size'[m] = size[m]
    BY <2>1, <2>2, <2>3
  <2>5. root'[l] = Fifo!First(t) /\ size'[l] = Len(t)
    BY <2>1, <2>2
  <2>6. root' = [root EXCEPT ![l] = Fifo!First(t)] /\ size' = [size EXCEPT ![l] = Len(t)]
    BY <2>4, <2>5 DEF IInv, TypeOK
  <2> QED
    BY <1>1, <2>6 DEF Fifo!Become
<1>2. ASSUME NEW l \in Lists, RemoveFirst(l)
      PROVE  Fifo!Pop(l)
  <2>1. order[l] # <<>>
    BY <1>2, RootNil DEF RemoveFirst, NextOf, IInv
  <2>2. order' = [order EXCEPT ![l] = Tail(order[l])]
    BY <1>2 DEF RemoveFirst
  <2> QED
    BY <1>1, <2>1, <2>2 DEF Fifo!Pop
<1>3. ASSUME NEW l \in Lists, NEW e \in Entries, AddLast(l, e)
      PROVE  Fifo!Push(l, e)
  <2>1. order' = [order EXCEPT ![l] = Append(order[l], e)] /\ e \notin Filed
    BY <1>3 DEF AddLast
  <2>2. \A p \in Lists : e \notin Fifo!Elems(order[p])
    BY <2>1 DEF Filed, Members, Fifo!Elems
  <2> QED
    BY <1>1, <2>1, <2>2 DEF Fifo!Push
<1> QED
  BY <1>2, <1>3 DEF Next, Fifo!Next

(* What the worker sees of its lists are first-in first-out queues; its    *)
(* two operations act on them as on such queues even after entries have    *)
(* been removed from the middle or replaced.                               *)
THEOREM ListIsFifo == (Spec => FifoSpec) /\ (AnySpec => FifoSteps)
<1>1. Init => Fifo!Init
  BY DEF Init, Fifo!Init
<1>2. IInv /\ IInv' /\ [Next]_vars => [Fifo!Next]_(Fifo!vars)
  BY NextIsFifo DEF vars, Fifo!vars
<1>3. IInv /\ IInv' => [Next => Fifo!Next]_vars
  BY NextIsFifo
<1> QED
  BY <1>1, <1>2, <1>3, ListInvariant, WorkerUse, PTL DEF Spec, AnySpec, FifoSpec, FifoSteps, Fifo!Spec

=============================================================================
