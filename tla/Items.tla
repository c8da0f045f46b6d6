-------------------------------- MODULE Items --------------------------------
(***************************************************************************)
(* lsm/itemMem.go, lsm/itemDisk.go and parseRange of handler/utils.go: how *)
(* a body is filled, cut to a range and read back.  A body is the sequence *)
(* of its bytes, each named by its place; an item keeps it in memory, in a *)
(* temporary file of its own, or in a file of the value log, where other  *)
(* records follow.                                                         *)
(***************************************************************************)
EXTENDS Integers, Sequences

CONSTANTS
  BufferSize,       \* bytes a buffer of get4K holds
  LimitForTempFile  \* bytes kept in memory at most

ASSUME ItemsConstantsOK == BufferSize \in Nat \ {0} /\ LimitForTempFile \in Nat

Foreign  == 0
Blank    == -1   \* a part of a range that is not there
NoNumber == -2   \* one that is no number
Lesser(a, b) == IF a < b THEN a ELSE b
Bytes(a, b)  == [i \in 1..(b - a) |-> a + i]

ItemLen(i) == Len(i.body)

(* Mutant: what was in memory does not reach the file.                     *)
SpillForgets(i, b) ==
  IF i.kind = "mem" /\ Len(i.body \o b) > LimitForTempFile
  THEN {[item |-> [i EXCEPT !.kind = "temp", !.body = b], ok |-> TRUE, fault |-> FALSE]}
  ELSE {[item |-> [i EXCEPT !.body = @ \o b], ok |-> TRUE, fault |-> FALSE]}

(* ItemMem.Write: what it may come to.  Without a fault it appends, moving *)
(* to a file when the limit is passed.  A failing TempFile leaves the item *)
(* in memory; a failing write of the file is an error.                     *)
Written(i, b) ==
  LET grown  == [i EXCEPT !.body = @ \o b]
      spills == i.kind = "mem" /\ ItemLen(grown) > LimitForTempFile
      kind   == IF spills THEN "temp" ELSE i.kind
      result(item, ok, fault) == [item |-> item, ok |-> ok, fault |-> fault]
  IN  {result([grown EXCEPT !.kind = kind], TRUE, FALSE)}
      \cup (IF kind = "temp" THEN {result([i EXCEPT !.kind = kind], FALSE, TRUE)} ELSE {})
      \cup (IF spills THEN {result(grown, TRUE, TRUE)} ELSE {})

(* os.File.ReadAt of at most n bytes: fewer only at the end of the file.   *)
ReadAt(i, off, n) ==
  LET file == IF i.kind = "disk" THEN i.body \o [j \in 1..BufferSize |-> Foreign] ELSE i.body
  IN  SubSeq(file, off + 1, Lesser(off + n, Len(file)))

(* parseRange.  Of each range the last number is the end, the first part   *)
(* the start; only the first range is used, but each must parse.           *)
Ranged(verdict, start, length) == [verdict |-> verdict, start |-> start, length |-> length]
Served(spec, size) ==
  LET ends == {k \in 2..Len(spec) : spec[k] # Blank}
  IN  Ranged("part",
        IF spec[1] = Blank THEN 0 ELSE spec[1],
        IF ends = {} THEN size ELSE spec[CHOOSE k \in ends : \A j \in ends : j <= k])

ParseRange(header, size) ==
  LET given == {k \in DOMAIN header.specs : header.specs[k] # <<>>}
      bad   == \E k \in given : \E j \in DOMAIN header.specs[k] : header.specs[k][j] = NoNumber
      first == CHOOSE k \in given : \A j \in given : k <= j
  IN  CASE size = 0 -> Ranged("whole", 0, 0)
        [] size > 0 /\ (header.unit # "bytes" \/ bad \/ given = {}) -> Ranged("invalid", 0, 0)
        [] OTHER -> Served(header.specs[first], size)

(* Mutant: the end of a range is taken for exclusive.                      *)
EndNotCounted(size, start, last) ==
  LET end == Lesser(last, size)
  IN  [from |-> start, to |-> end, length |-> end - start]

(* ValidRange, the same of both kinds.  The end becomes exclusive; nothing *)
(* asks whether the start lies before it.                                  *)
ValidRange(size, start, last) ==
  LET end == IF last >= size THEN size ELSE last + 1
  IN  IF start = 0 /\ end = 0 THEN [from |-> 0, to |-> size, length |-> size]
      ELSE [from |-> start, to |-> end, length |-> end - start]

WrongRange(r) == r.length = 0

(* What WriteToRange refuses.                                              *)
Refused(i, from, to) ==
  IF i.kind = "disk" THEN from > to ELSE from >= to \/ from > ItemLen(i)

(* Mutants: the loop waits for left to be 0; the buffer is not cut.        *)
OnlyAtZero(i, r) ==
  LET b == ReadAt(i, r.seek, BufferSize)
  IN  [seek |-> r.seek + Len(b), left |-> r.left - Len(b), end |-> r.left = Len(b), out |-> b]

BufferNotCut(i, r) ==
  LET b == ReadAt(i, r.seek, BufferSize)
  IN  [seek |-> r.seek + Len(b), left |-> r.left - Len(b), end |-> r.left <= Len(b), out |-> b]

(* One turn of the loop that reads a temporary file, and of writeTo.  r is *)
(* where the reader is: from, to, the next byte and how many are left.     *)
TempTurn(i, r) ==
  LET b    == ReadAt(i, r.seek, BufferSize)
      left == r.left - Len(b)
      eof  == Len(b) < BufferSize
  IN  [seek |-> r.seek + Len(b), left |-> left, end |-> eof \/ left <= 0,
       out  |-> IF left < 0 THEN SubSeq(b, 1, Len(b) + left) ELSE b]

DiskTurn(i, r) ==
  LET b      == ReadAt(i, r.seek, Lesser(r.left, BufferSize))
      left   == r.left - Len(b)
      last   == r.seek + Len(b) - r.from
      ranged == r.from > 0 \/ r.to > 0
  IN  [seek |-> r.seek + Len(b), left |-> left, out |-> b,
       end  |-> left = 0 \/ last >= ItemLen(i) \/ (ranged /\ last >= r.to)]
=============================================================================
