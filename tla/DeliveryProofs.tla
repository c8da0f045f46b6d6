--------------------------- MODULE DeliveryProofs ---------------------------
(***************************************************************************)
(* Theorems on what the clients of Responses get: the bytes that were      *)
(* announced, and of a satisfiable range exactly its own, for any sizes of *)
(* bodies and buffers, any Range headers and any number of clients.        *)
(* Serving is the inductive invariant: what has been written is the part   *)
(* of the body before the reader's place, and what is left ends where the  *)
(* answer does.                                                            *)
(***************************************************************************)
EXTENDS ResponsesProofs, WellFoundedInduction

Parts     == Nat \cup {Blank, NoNumber}
OutFields == {"code", "length", "sent", "cut"}

(* Where a body that goes to a client ends, in the item.                   *)
Limit(i, r) == IF r.to = 0 THEN i.size ELSE r.to

(* The whole body is read from its first byte, a range lies in the body    *)
(* and is not empty.                                                       *)
WithinBody(i, r) ==
  /\ r.from \in Nat /\ r.to \in Nat
  /\ IF r.to = 0 THEN r.from = 0 ELSE r.from < r.to /\ r.to <= i.size

(* The client has got what lies before the reader's place.                 *)
Writing(i, r, o) ==
  /\ WithinBody(i, r) /\ o.length = Limit(i, r) - r.from
  /\ r.seek \in Nat /\ r.left \in Nat
  /\ r.from <= r.seek /\ r.seek + r.left = Limit(i, r)
  /\ o.sent = Bytes(r.from, r.seek)

Sent(i, r, o) ==
  \/ o.length \in Int /\ o.length < 0 /\ o.sent = <<>>
  \/ /\ WithinBody(i, r) /\ o.length = Limit(i, r) - r.from
     /\ o.sent = Bytes(r.from, Limit(i, r))

Stored(i) ==
  /\ DOMAIN i = ItemFields /\ i.kind \in Kinds
  /\ i.size \in Nat /\ i.body = Bytes(0, i.size)

SizesOK == \A k \in Keys : cache[k] # NoItem => cache[k].size \in Nat

HeadersOK == \A t \in Threads : range[t] # NoRange => range[t].specs \in Seq(Seq(Parts))

(* A client at l, that reads item i as r says and has got o, and whose     *)
(* Range header is h.  The last part: a satisfiable range is announced as  *)
(* RFC 7233 has it.                                                        *)
Serves(l, i, r, o, h) ==
  /\ l \in {"write", "done"} => Stored(i)
  /\ l = "write" => DOMAIN o = OutFields /\ ~o.cut /\ Writing(i, r, o)
  /\ l = "done" /\ ~o.cut /\ o.code # 416 => Sent(i, r, o)
  /\ l \in {"write", "done"} /\ i.status = OK /\ h # NoRange /\ Satisfiable(h, i.size)
     => /\ o.code = 206 /\ o.length >= 0
        /\ r.from = h.specs[1][1] /\ r.to = LastByte(h, i.size) + 1

ServesOK == \A t \in Threads : Serves(pc[t], item[t], read[t], out[t], range[t])

Serving == SizesOK /\ HeadersOK /\ ServesOK
-------------------------------------------------------------------------------
LEMMA LeastExists ==
  ASSUME NEW S \in SUBSET Nat, S # {}
  PROVE  \E x \in S : \A y \in S : x <= y
<1> DEFINE R == OpToRel(<, Nat)
<1>1. IsWellFoundedOn(R, Nat)
  BY NatLessThanWellFounded, Zenon
<1>2. \A x, y \in Nat : y < x => <<y, x>> \in R
  BY Zenon DEF OpToRel
<1> HIDE DEF R
<1>3. PICK x \in S : \A y \in S : ~ (<<y, x>> \in R)
  BY <1>1, WFMin
<1>4. \A y \in S : ~ (y < x)
  BY <1>2, <1>3
<1> QED
  BY <1>4

LEMMA GreatestExists ==
  ASSUME NEW n \in Nat, NEW S \in SUBSET (0..n), S # {}
  PROVE  \E x \in S : \A y \in S : y <= x
<1> DEFINE T == {n - x : x \in S}
<1>1. T \in SUBSET Nat /\ T # {}
  <2>1. \A x \in S : n - x \in Nat
    OBVIOUS
  <2>2. PICK x \in S : TRUE
    OBVIOUS
  <2>3. n - x \in T
    BY <2>2, Zenon
  <2> QED
    BY <2>1, <2>3, Zenon
<1>2. PICK m \in T : \A y \in T : m <= y
  BY <1>1, LeastExists
<1>3. PICK x \in S : m = n - x
  BY <1>2
<1>4. \A y \in S : n - y \in T
  OBVIOUS
<1>5. \A y \in S : y <= x
  BY <1>2, <1>3, <1>4
<1> QED
  BY <1>5

LEMMA ServedTyped ==
  ASSUME NEW spec \in Seq(Parts), spec # <<>>, NEW size \in Nat,
         \A j \in DOMAIN spec : spec[j] # NoNumber
  PROVE  Served(spec, size).start \in Nat /\ Served(spec, size).length \in Nat
<1> DEFINE ends == {k \in 2..Len(spec) : spec[k] # Blank}
<1>1. /\ 1 \in DOMAIN spec
      /\ \A k \in DOMAIN spec : spec[k] # Blank => spec[k] \in Nat
  BY EmptySeq DEF Parts
<1>2. ends # {} => \E k \in ends : \A j \in ends : j <= k
  <2>1. ends \in SUBSET (0..Len(spec)) /\ Len(spec) \in Nat
    OBVIOUS
  <2> HIDE DEF ends
  <2> QED
    BY <2>1, GreatestExists
<1>3. ends # {} => (CHOOSE k \in ends : \A j \in ends : j <= k) \in ends
  <2> HIDE DEF ends
  <2> QED
    BY <1>2
<1>4. \A k \in ends : spec[k] \in Nat
  BY <1>1
<1> QED
  BY <1>1, <1>3, <1>4, Zenon DEF Served, Ranged
(* What parseRange makes of a header: a range starts and ends at natural   *)
(* numbers, and only a body that is not empty is cut.                      *)
LEMMA ParseRangeTyped ==
  ASSUME NEW h, h.specs \in Seq(Seq(Parts)), NEW size \in Nat,
         ParseRange(h, size).verdict \notin {"whole", "invalid"}
  PROVE  /\ size > 0
         /\ ParseRange(h, size).start \in Nat /\ ParseRange(h, size).length \in Nat
<1> DEFINE given == {k \in DOMAIN h.specs : h.specs[k] # <<>>}
           bad   == \E k \in given : \E j \in DOMAIN h.specs[k] : h.specs[k][j] = NoNumber
           first == CHOOSE k \in given : \A j \in given : k <= j
<1>1. /\ size # 0
      /\ ~(size > 0 /\ (h.unit # "bytes" \/ bad \/ given = {}))
      /\ ParseRange(h, size) = Served(h.specs[first], size)
  <2>1. Ranged("whole", 0, 0).verdict = "whole" /\ Ranged("invalid", 0, 0).verdict = "invalid"
    BY DEF Ranged
  <2> QED
    BY <2>1, Zenon DEF ParseRange
<1>2. size > 0 /\ ~bad /\ given # {}
  BY <1>1
<1>3. given \in SUBSET Nat
  OBVIOUS
<1>4. first \in given
  <2>1. \E k \in given : \A j \in given : k <= j
    BY <1>2, <1>3, LeastExists
  <2> HIDE DEF given
  <2> QED
    BY <2>1
<1>5. h.specs[first] \in Seq(Parts) /\ h.specs[first] # <<>>
  <2>1. first \in DOMAIN h.specs /\ h.specs[first] # <<>>
    BY <1>4
  <2> HIDE DEF first
  <2> QED
    BY <2>1
<1>6. \A j \in DOMAIN h.specs[first] : h.specs[first][j] # NoNumber
  BY <1>2, <1>4
<1> HIDE DEF first, given, bad
<1> QED
  BY <1>1, <1>2, <1>5, <1>6, ServedTyped

LEMMA ValidRangeCuts ==
  ASSUME NEW size \in Nat, size > 0, NEW start \in Nat, NEW last \in Nat
  PROVE  /\ ValidRange(size, start, last).from = start
         /\ ValidRange(size, start, last).to = IF last >= size THEN size ELSE last + 1
         /\ ValidRange(size, start, last).to \in 1..size
         /\ ValidRange(size, start, last).length = ValidRange(size, start, last).to - start
BY DEF ValidRange
-------------------------------------------------------------------------------
LEMMA BytesAre ==
  ASSUME NEW a \in Nat, NEW b \in Nat, a <= b
  PROVE  /\ Bytes(a, b) \in Seq(Nat) /\ Len(Bytes(a, b)) = b - a
         /\ \A i \in 1..(b - a) : Bytes(a, b)[i] = a + i
<1>1. b - a \in Nat /\ b = a + (b - a)
  OBVIOUS
<1>2. PICK n \in Nat : n = b - a /\ b = a + n
  BY <1>1
<1>3. /\ Bytes(a, a + n) \in Seq(Nat) /\ Len(Bytes(a, a + n)) = n
      /\ \A i \in 1..n : Bytes(a, a + n)[i] = a + i
  BY BytesSeq
<1> QED
  BY <1>2, <1>3

LEMMA NoBytes ==
  ASSUME NEW a \in Nat
  PROVE  Bytes(a, a) = <<>>
<1>1. Bytes(a, a) \in Seq(Nat) /\ Len(Bytes(a, a)) = 0
  BY BytesAre
<1> QED
  BY <1>1, EmptySeq

(* A piece of the first n bytes.                                           *)
LEMMA BytesCut ==
  ASSUME NEW n \in Nat, NEW a \in Nat, NEW b \in Nat, a <= b, b <= n
  PROVE  SubSeq(Bytes(0, n), a + 1, b) = Bytes(a, b)
<1> DEFINE x == Bytes(0, n)  y == Bytes(a, b)  z == SubSeq(x, a + 1, b)
<1>1. x \in Seq(Nat) /\ Len(x) = n /\ \A i \in 1..n : x[i] = i
  <2>1. 0 \in Nat /\ 0 <= n /\ n - 0 = n
    OBVIOUS
  <2>2. x \in Seq(Nat) /\ Len(x) = n - 0 /\ \A i \in 1..(n - 0) : x[i] = 0 + i
    BY <2>1, BytesAre
  <2> HIDE DEF x
  <2> QED
    BY <2>1, <2>2
<1>2. y \in Seq(Nat) /\ Len(y) = b - a /\ \A i \in 1..(b - a) : y[i] = a + i
  BY BytesAre
<1> HIDE DEF x, y
<1>3. /\ z \in Seq(Nat) /\ Len(z) = b - a
      /\ \A i \in 1..(b - a) : z[i] = x[a + i]
  BY <1>1
<1>4. \A i \in 1..(b - a) : z[i] = y[i]
  BY <1>1, <1>2, <1>3
<1> HIDE DEF z
<1>5. z = y
  BY <1>2, <1>3, <1>4, SeqEqual
<1> QED
  BY <1>5 DEF x, y, z

LEMMA BytesFollow ==
  ASSUME NEW f \in Nat, NEW s \in Nat, NEW e \in Nat, f <= s, s <= e
  PROVE  Bytes(f, s) \o Bytes(s, e) = Bytes(f, e)
<1> DEFINE x == Bytes(f, s)  y == Bytes(s, e)  z == Bytes(f, e)
<1>1. x \in Seq(Nat) /\ Len(x) = s - f /\ \A i \in 1..(s - f) : x[i] = f + i
  BY BytesAre
<1>2. y \in Seq(Nat) /\ Len(y) = e - s /\ \A i \in 1..(e - s) : y[i] = s + i
  BY BytesAre
<1>3. z \in Seq(Nat) /\ Len(z) = e - f /\ \A i \in 1..(e - f) : z[i] = f + i
  <2>1. f <= e
    OBVIOUS
  <2> QED
    BY <2>1, BytesAre
<1> HIDE DEF x, y, z
<1>4. PICK m \in Nat, n \in Nat : m = s - f /\ n = e - s
  OBVIOUS
<1>5. e - f = m + n
  BY <1>4
<1>6. /\ x \o y \in Seq(Nat) /\ Len(x \o y) = m + n
      /\ \A i \in 1..(m + n) : (x \o y)[i] = IF i <= m THEN x[i] ELSE y[i - m]
  <2>1. x \in Seq(Nat) /\ Len(x) = m /\ y \in Seq(Nat) /\ Len(y) = n /\ m \in Nat /\ n \in Nat
    BY <1>1, <1>2, <1>4
  <2> QED
    BY <2>1, ConcatProperties
<1>7. \A i \in 1..(m + n) : (x \o y)[i] = z[i]
  <2> TAKE i \in 1..(m + n)
  <2>1. z[i] = f + i
    BY <1>3, <1>5
  <2>2. CASE i <= m
    BY <1>1, <1>4, <1>6, <2>1, <2>2
  <2>3. CASE i > m
    <3>1. i - m \in 1..n /\ (x \o y)[i] = y[i - m]
      BY <1>6, <2>3
    <3>2. y[i - m] = s + (i - m)
      BY <1>2, <1>4, <3>1
    <3> QED
      BY <1>4, <2>1, <3>1, <3>2
  <2>4. i <= m \/ i > m
    BY <1>4
  <2> QED
    BY <2>2, <2>3, <2>4, Zenon
<1>8. x \o y = z
  BY <1>3, <1>5, <1>6, <1>7, SeqEqual
<1> QED
  BY <1>8 DEF x, y, z
-------------------------------------------------------------------------------
(* Reading a file of one's own ends where the body ends; in the value log  *)
(* what lies behind the body is not reached by a read that stays within.   *)
LEMMA StoredBody ==
  ASSUME NEW i, Stored(i)
  PROVE  /\ i.body \in Seq(Nat) /\ Len(i.body) = i.size /\ i.size \in Nat
         /\ ItemLen(i) = i.size
<1>1. i.size \in Nat /\ i.body = Bytes(0, i.size)
  BY DEF Stored
<1>2. 0 \in Nat /\ 0 <= i.size /\ i.size - 0 = i.size
  BY <1>1
<1>3. i.body \in Seq(Nat) /\ Len(i.body) = i.size - 0
  BY <1>1, <1>2, BytesAre
<1> QED
  BY <1>1, <1>2, <1>3 DEF ItemLen

LEMMA PieceOfBody ==
  ASSUME NEW i, Stored(i), NEW a \in Nat, NEW b \in Nat, a <= b, b <= i.size
  PROVE  SubSeq(i.body, a + 1, b) = Bytes(a, b)
<1>1. PICK n \in Nat : n = i.size /\ i.body = Bytes(0, n)
  BY DEF Stored
<1>2. SubSeq(Bytes(0, n), a + 1, b) = Bytes(a, b)
  BY <1>1, BytesCut
<1> QED
  BY <1>1, <1>2

LEMMA ReadOwnFile ==
  ASSUME NEW i, Stored(i), i.kind # "disk", NEW off \in Nat, off <= i.size
  PROVE  \E e \in Nat : /\ e = Lesser(off + BufferSize, i.size) /\ off <= e /\ e <= i.size
                        /\ ReadAt(i, off, BufferSize) = Bytes(off, e)
<1> DEFINE e == Lesser(off + BufferSize, i.size)
<1>1. /\ e \in Nat /\ off <= e /\ e <= i.size
  BY StoredBody, ItemsConstantsOK DEF Lesser
<1>2. ReadAt(i, off, BufferSize) = SubSeq(i.body, off + 1, e)
  BY StoredBody, Zenon DEF ReadAt
<1> HIDE DEF e
<1>3. SubSeq(i.body, off + 1, e) = Bytes(off, e)
  BY <1>1, PieceOfBody
<1> QED
  BY <1>1, <1>2, <1>3 DEF e

LEMMA ConcatKeeps ==
  ASSUME NEW x \in Seq(Nat), NEW y \in Seq(Nat)
  PROVE  /\ x \o y \in Seq(Nat) /\ Len(x \o y) = Len(x) + Len(y)
         /\ \A k \in 1..Len(x) : (x \o y)[k] = x[k]
BY ConcatProperties

LEMMA ReadValueLog ==
  ASSUME NEW i, Stored(i), i.kind = "disk", NEW off \in Nat, NEW n \in Nat, off + n <= i.size
  PROVE  ReadAt(i, off, n) = Bytes(off, off + n)
<1> DEFINE rest == [j \in 1..BufferSize |-> Foreign]
           file == i.body \o rest
<1>1. BufferSize \in Nat
  BY ItemsConstantsOK
<1>2. rest \in Seq(Nat) /\ Len(rest) = BufferSize
  BY <1>1 DEF Foreign
<1>3. i.body \in Seq(Nat) /\ Len(i.body) = i.size /\ i.size \in Nat
  BY StoredBody
<1> HIDE DEF rest
<1>4. /\ file \in Seq(Nat) /\ Len(file) = i.size + BufferSize
      /\ \A k \in 1..i.size : file[k] = i.body[k]
  <2>1. /\ file \in Seq(Nat) /\ Len(file) = Len(i.body) + Len(rest)
        /\ \A k \in 1..Len(i.body) : file[k] = i.body[k]
    BY <1>2, <1>3, ConcatKeeps
  <2> HIDE DEF file
  <2> QED
    BY <1>2, <1>3, <2>1
<1> HIDE DEF file
<1>5. ReadAt(i, off, n) = SubSeq(file, off + 1, Lesser(off + n, Len(file)))
  BY Zenon DEF ReadAt, file, rest
<1>6. Lesser(off + n, Len(file)) = off + n
  BY <1>1, <1>3, <1>4 DEF Lesser
<1> DEFINE x == SubSeq(file, off + 1, off + n)
           y == SubSeq(i.body, off + 1, off + n)
<1>7. x \in Seq(Nat) /\ Len(x) = n /\ \A k \in 1..n : x[k] = file[off + k]
  BY <1>1, <1>3, <1>4
<1>8. y \in Seq(Nat) /\ Len(y) = n /\ \A k \in 1..n : y[k] = i.body[off + k]
  BY <1>3
<1>9. \A k \in 1..n : x[k] = y[k]
  <2>1. \A k \in 1..n : off + k \in 1..i.size
    BY <1>3
  <2> HIDE DEF x, y
  <2> QED
    BY <1>4, <1>7, <1>8, <2>1
<1> HIDE DEF x, y
<1>10. x = y
  BY <1>7, <1>8, <1>9, SeqEqual
<1>11. y = Bytes(off, off + n)
  <2>1. off + n \in Nat /\ off <= off + n
    OBVIOUS
  <2> QED
    BY <2>1, PieceOfBody DEF y
<1> QED
  BY <1>5, <1>6, <1>10, <1>11 DEF x
-------------------------------------------------------------------------------
(* One turn of a loop that writes: the client's bytes grow by those that   *)
(* follow, and when the loop ends they reach the limit.                    *)
Carries(i, r, o, turn) ==
  \/ turn.end /\ o.sent \o turn.out = Bytes(r.from, Limit(i, r))
  \/ /\ ~turn.end
     /\ turn.seek \in Nat /\ turn.left \in Nat /\ r.from <= turn.seek
     /\ turn.seek + turn.left = Limit(i, r)
     /\ 0 < turn.left /\ turn.left < r.left
     /\ o.sent \o turn.out = Bytes(r.from, turn.seek)

LEMMA Places ==
  ASSUME NEW i, Stored(i), NEW r, NEW o, Writing(i, r, o)
  PROVE  /\ i.size \in Nat /\ Limit(i, r) \in Nat /\ Limit(i, r) <= i.size
         /\ r.from \in Nat /\ r.to \in Nat /\ r.seek \in Nat /\ r.left \in Nat
         /\ r.from <= r.seek /\ r.seek <= Limit(i, r) /\ r.left = Limit(i, r) - r.seek
         /\ o.sent = Bytes(r.from, r.seek)
         /\ r.to = 0 => r.from = 0 /\ Limit(i, r) = i.size
         /\ r.to # 0 => r.from < r.to /\ Limit(i, r) = r.to
<1>1. i.size \in Nat
  BY DEF Stored
<1>2. /\ r.from \in Nat /\ r.to \in Nat /\ r.seek \in Nat /\ r.left \in Nat
      /\ r.from <= r.seek /\ r.seek + r.left = Limit(i, r) /\ o.sent = Bytes(r.from, r.seek)
      /\ IF r.to = 0 THEN r.from = 0 ELSE r.from < r.to /\ r.to <= i.size
  BY DEF Writing, WithinBody
<1>3. Limit(i, r) = IF r.to = 0 THEN i.size ELSE r.to
  BY DEF Limit
<1> QED
  BY <1>1, <1>2, <1>3

LEMMA DiskTurnCarries ==
  ASSUME NEW i, Stored(i), i.kind = "disk", NEW r, NEW o, Writing(i, r, o)
  PROVE  Carries(i, r, o, DiskTurn(i, r))
<1> DEFINE n == Lesser(r.left, BufferSize)
           m == Limit(i, r)
           b == ReadAt(i, r.seek, n)
           last == r.seek + Len(b) - r.from
           ranged == r.from > 0 \/ r.to > 0
           turn == DiskTurn(i, r)
<1>1. /\ i.size \in Nat /\ m \in Nat /\ m <= i.size
      /\ r.from \in Nat /\ r.to \in Nat /\ r.seek \in Nat /\ r.left \in Nat
      /\ r.from <= r.seek /\ r.seek <= m /\ r.left = m - r.seek
      /\ o.sent = Bytes(r.from, r.seek)
      /\ r.to = 0 => r.from = 0 /\ m = i.size
      /\ r.to # 0 => r.from < r.to /\ m = r.to
  BY Places
<1>2. n \in Nat /\ n <= r.left
  BY <1>1, ItemsConstantsOK DEF Lesser
<1>3. turn.seek = r.seek + Len(b) /\ turn.left = r.left - Len(b) /\ turn.out = b
  BY Zenon DEF DiskTurn
<1>10. turn.end <=> (r.left - Len(b) = 0 \/ last >= ItemLen(i) \/ (ranged /\ last >= r.to))
  BY Zenon DEF DiskTurn
<1> HIDE DEF turn, n, m
<1>4. b = Bytes(r.seek, r.seek + n)
  <2>1. r.seek + n <= i.size
    BY <1>1, <1>2
  <2> QED
    BY <1>1, <1>2, <2>1, ReadValueLog
<1>5. Len(b) = n
  <2>1. Len(Bytes(r.seek, r.seek + n)) = n
    BY <1>1, <1>2, BytesSeq
  <2> QED
    BY <1>4, <2>1, Zenon
<1>6. o.sent \o turn.out = Bytes(r.from, r.seek + n)
  <2>1. r.seek + n \in Nat /\ r.seek <= r.seek + n
    BY <1>1, <1>2
  <2>2. Bytes(r.from, r.seek) \o Bytes(r.seek, r.seek + n) = Bytes(r.from, r.seek + n)
    BY <1>1, <2>1, BytesFollow
  <2> QED
    BY <1>1, <1>3, <1>4, <2>2, Zenon
<1> HIDE DEF b
<1>7. turn.end => r.seek + n = m
  <2>1. ItemLen(i) = i.size
    BY StoredBody
  <2>2. r.seek + n <= m
    BY <1>1, <1>2
  <2>3. \/ r.left - Len(b) = 0 \/ last >= ItemLen(i) \/ (ranged /\ last >= r.to)
        => r.seek + n = m
    BY <1>1, <1>2, <1>5, <2>1, <2>2
  <2> QED
    BY <1>10, <2>3, Zenon
<1>8. CASE turn.end
  BY <1>6, <1>7, <1>8, Zenon DEF Carries, m, turn
<1>9. CASE ~turn.end
  <2>1. turn.seek = r.seek + n /\ turn.left = r.left - n
    BY <1>3, <1>5, Zenon
  <2>2. /\ m \in Nat /\ r.from \in Nat /\ r.seek \in Nat /\ r.left \in Nat
        /\ r.from <= r.seek /\ r.seek <= m /\ r.left = m - r.seek
    BY <1>1, Zenon
  <2>3. turn.seek \in Nat /\ turn.left \in Nat /\ r.from <= turn.seek /\ turn.seek + turn.left = m
    BY <1>2, <2>1, <2>2
  <2>5. 0 < turn.left /\ turn.left < r.left
    <3>1. r.left - n # 0
      BY <1>5, <1>9, <1>10
    <3>2. n = Lesser(r.left, BufferSize) /\ BufferSize \in Nat /\ BufferSize > 0
      BY ItemsConstantsOK DEF n
    <3>3. n > 0
      BY <2>2, <1>2, <3>1, <3>2 DEF Lesser
    <3> QED
      BY <1>2, <2>1, <2>2, <3>1, <3>3
  <2>4. o.sent \o turn.out = Bytes(r.from, turn.seek)
    BY <1>6, <2>1, Zenon
  <2> QED
    BY <1>9, <2>3, <2>4, <2>5, Zenon DEF Carries, m, turn
<1> QED
  BY <1>8, <1>9

LEMMA TempTurnCarries ==
  ASSUME NEW i, Stored(i), i.kind # "disk", NEW r, NEW o, Writing(i, r, o)
  PROVE  Carries(i, r, o, TempTurn(i, r))
<1> DEFINE m == Limit(i, r)
           b == ReadAt(i, r.seek, BufferSize)
           left == r.left - Len(b)
           turn == TempTurn(i, r)
<1>1. /\ i.size \in Nat /\ m \in Nat /\ m <= i.size
      /\ r.from \in Nat /\ r.seek \in Nat /\ r.left \in Nat
      /\ r.from <= r.seek /\ r.seek <= m /\ r.left = m - r.seek
      /\ o.sent = Bytes(r.from, r.seek)
  BY Places
<1>10. turn.end <=> (Len(b) < BufferSize \/ left <= 0)
  BY Zenon DEF TempTurn
<1>2. /\ turn.seek = r.seek + Len(b) /\ turn.left = left
      /\ turn.out = IF left < 0 THEN SubSeq(b, 1, Len(b) + left) ELSE b
  BY Zenon DEF TempTurn
<1> HIDE DEF turn, m
<1>3. PICK e \in Nat : /\ e = Lesser(r.seek + BufferSize, i.size) /\ r.seek <= e /\ e <= i.size
                       /\ b = Bytes(r.seek, e)
  <2>1. r.seek <= i.size
    BY <1>1
  <2> QED
    BY <1>1, <2>1, ReadOwnFile
<1> HIDE DEF b
<1>4. b \in Seq(Nat) /\ Len(b) = e - r.seek /\ \A k \in 1..(e - r.seek) : b[k] = r.seek + k
  BY <1>1, <1>3, BytesAre
<1>5. Len(b) < BufferSize => e = i.size
  BY <1>1, <1>3, <1>4, ItemsConstantsOK DEF Lesser
<1>6. left = m - e
  BY <1>1, <1>3, <1>4
<1> HIDE DEF left
<1>7. turn.end <=> m <= e
  <2>1. Len(b) < BufferSize \/ left <= 0 <=> m <= e
    BY <1>1, <1>3, <1>5, <1>6
  <2> QED
    BY <1>10, <2>1, Zenon
<1>8. CASE m < e
  <2>1. turn.out = SubSeq(b, 1, m - r.seek)
    BY <1>1, <1>2, <1>3, <1>4, <1>6, <1>8
  <2>2. SubSeq(b, 1, m - r.seek) = Bytes(r.seek, m)
    <3> DEFINE x == SubSeq(b, 1, m - r.seek)  y == Bytes(r.seek, m)
    <3>1. y \in Seq(Nat) /\ Len(y) = m - r.seek /\ \A k \in 1..(m - r.seek) : y[k] = r.seek + k
      BY <1>1, BytesAre
    <3>2. m - r.seek \in 0..Len(b)
      BY <1>1, <1>3, <1>4, <1>8
    <3>3. x \in Seq(Nat) /\ Len(x) = m - r.seek /\ \A k \in 1..(m - r.seek) : x[k] = b[k]
      BY <1>4, <3>2
    <3>4. \A k \in 1..(m - r.seek) : x[k] = y[k]
      <4> TAKE k \in 1..(m - r.seek)
      <4>1. k \in 1..(e - r.seek)
        BY <1>1, <1>3, <1>8
      <4>2. b[k] = r.seek + k
        BY <1>4, <4>1
      <4>3. x[k] = b[k] /\ y[k] = r.seek + k
        BY <3>1, <3>3
      <4> QED
        BY <4>2, <4>3
    <3> HIDE DEF x, y
    <3>5. x = y
      BY <3>1, <3>3, <3>4, SeqEqual
    <3> QED
      BY <3>5 DEF x, y
  <2>3. o.sent \o turn.out = Bytes(r.from, m)
    <3>1. Bytes(r.from, r.seek) \o Bytes(r.seek, m) = Bytes(r.from, m)
      BY <1>1, BytesFollow
    <3> QED
      BY <1>1, <2>1, <2>2, <3>1, Zenon
  <2>4. turn.end
    BY <1>1, <1>3, <1>7, <1>8
  <2> QED
    BY <2>3, <2>4, Zenon DEF Carries, m, turn
<1>9. CASE e <= m
  <2>1. turn.out = b
    BY <1>1, <1>2, <1>3, <1>6, <1>9
  <2>2. o.sent \o turn.out = Bytes(r.from, e)
    <3>1. Bytes(r.from, r.seek) \o Bytes(r.seek, e) = Bytes(r.from, e)
      BY <1>1, <1>3, BytesFollow
    <3> QED
      BY <1>1, <1>3, <2>1, <3>1, Zenon
  <2>3. turn.seek = e /\ turn.left = m - e
    BY <1>1, <1>2, <1>3, <1>4, <1>6
  <2>4. CASE e = m
    <3>1. turn.end /\ o.sent \o turn.out = Bytes(r.from, m)
      BY <1>1, <1>7, <2>2, <2>4
    <3> QED
      BY <3>1, Zenon DEF Carries, m, turn
  <2>5. CASE e < m
    <3>1. /\ ~turn.end /\ turn.seek \in Nat /\ turn.left \in Nat /\ r.from <= turn.seek
          /\ turn.seek + turn.left = m
      BY <1>1, <1>3, <1>7, <2>3, <2>5
    <3>2. 0 < turn.left /\ turn.left < r.left
      <4>1. r.seek < e
        BY <1>1, <1>3, <2>5, ItemsConstantsOK DEF Lesser
      <4> QED
        BY <1>1, <1>3, <2>3, <2>5, <4>1
    <3> QED
      BY <2>2, <2>3, <3>1, <3>2, Zenon DEF Carries, m, turn
  <2> QED
    BY <1>1, <1>3, <1>9, <2>4, <2>5
<1> QED
  BY <1>1, <1>3, <1>8, <1>9

LEMMA TurnCarries ==
  ASSUME NEW i, Stored(i), NEW r, NEW o, Writing(i, r, o)
  PROVE  Carries(i, r, o, Turn(i, r))
<1>1. CASE i.kind = "disk"
  <2>1. Turn(i, r) = DiskTurn(i, r)
    BY <1>1, Zenon DEF Turn
  <2> QED
    BY <1>1, <2>1, DiskTurnCarries
<1>2. CASE i.kind = "temp" /\ r.to > 0
  <2>1. i.kind # "disk"
    BY <1>2
  <2>2. Turn(i, r) = TempTurn(i, r)
    BY <1>2, <2>1, Zenon DEF Turn
  <2> QED
    BY <2>1, <2>2, TempTurnCarries
<1>3. CASE i.kind # "disk" /\ ~(i.kind = "temp" /\ r.to > 0)
  <2> DEFINE turn == Turn(i, r)  m == Limit(i, r)
  <2>1. turn.end /\ turn.out = SubSeq(i.body, r.seek + 1, r.seek + r.left)
    BY <1>3, Zenon DEF Turn
  <2> HIDE DEF turn
  <2>2. /\ i.size \in Nat /\ m \in Nat /\ m <= i.size
        /\ r.from \in Nat /\ r.seek \in Nat /\ r.left \in Nat
        /\ r.from <= r.seek /\ r.seek <= m /\ r.left = m - r.seek
        /\ o.sent = Bytes(r.from, r.seek)
    BY Places
  <2> HIDE DEF m
  <2>3. r.seek + r.left = m
    BY <2>2
  <2>4. turn.out = Bytes(r.seek, m)
    BY <2>1, <2>2, <2>3, PieceOfBody
  <2>5. o.sent \o turn.out = Bytes(r.from, m)
    <3>1. Bytes(r.from, r.seek) \o Bytes(r.seek, m) = Bytes(r.from, m)
      BY <2>2, BytesFollow
    <3> QED
      BY <2>2, <2>4, <3>1, Zenon
  <2> QED
    BY <2>1, <2>5 DEF Carries, turn, m
<1> QED
  BY <1>1, <1>2, <1>3
-------------------------------------------------------------------------------
LEMMA SatisfiableServed ==
  ASSUME NEW h, h.specs \in Seq(Seq(Parts)), NEW size \in Nat, Satisfiable(h, size)
  PROVE  LET p == ParseRange(h, size)
             r == ValidRange(size, p.start, p.length)
         IN  /\ p.verdict = "part" /\ r.length > 0
             /\ r.from = h.specs[1][1] /\ r.to = LastByte(h, size) + 1
<1> DEFINE given == {k \in DOMAIN h.specs : h.specs[k] # <<>>}
           bad   == \E k \in given : \E j \in DOMAIN h.specs[k] : h.specs[k][j] = NoNumber
           first == CHOOSE k \in given : \A j \in given : k <= j
           spec  == h.specs[1]
           ends  == {k \in 2..Len(spec) : spec[k] # Blank}
           end   == CHOOSE k \in ends : \A j \in ends : j <= k
           p     == ParseRange(h, size)
<1>1. /\ h.unit = "bytes" /\ Len(h.specs) = 1 /\ Len(spec) = 2
      /\ spec[1] \in Nat /\ spec[2] \in Nat \cup {Blank}
      /\ spec[1] < size /\ spec[1] <= LastByte(h, size)
  BY DEF Satisfiable
<1>2. DOMAIN h.specs = {1} /\ spec \in Seq(Parts) /\ DOMAIN spec = {1, 2}
  BY <1>1
<1>3. LastByte(h, size) = IF spec[2] = Blank THEN size - 1 ELSE Lesser(spec[2], size - 1)
  BY DEF LastByte
<1> HIDE DEF spec
<1>4. given = {1}
  <2>1. Len(spec) = 2 /\ Len(<<>>) = 0 /\ 2 # 0
    <3>1. Len(spec) = 2
      BY <1>1, Zenon
    <3>2. Len(<<>>) = 0 /\ 2 # 0
      OBVIOUS
    <3> QED
      BY <3>1, <3>2, Zenon
  <2>2. spec # <<>>
    BY <2>1, Zenon
  <2> QED
    BY <1>2, <2>2 DEF spec
<1>5. ~bad
  <2>1. spec[1] # NoNumber /\ spec[2] # NoNumber
    BY <1>1 DEF Blank, NoNumber
  <2> QED
    BY <1>2, <1>4, <2>1 DEF spec
<1>6. first = 1
  <2> HIDE DEF given
  <2> QED
    BY <1>4
<1>7. size > 0 /\ size # 0
  BY <1>1
<1>8. p = Served(spec, size)
  <2> HIDE DEF first, bad, given
  <2>1. /\ ~(size > 0 /\ (h.unit # "bytes" \/ bad \/ given = {}))
        /\ h.specs[first] = spec
    BY <1>1, <1>4, <1>5, <1>6 DEF spec
  <2> QED
    BY <1>7, <2>1, Zenon DEF ParseRange, first, bad, given
<1> HIDE DEF p
<1>9. p.verdict = "part" /\ p.start = spec[1]
      /\ p.length = IF ends = {} THEN size ELSE spec[end]
  <2>1. spec[1] # Blank
    BY <1>1 DEF Blank
  <2> QED
    BY <1>8, <2>1, Zenon DEF Served, Ranged
<1>10. p.length = IF spec[2] = Blank THEN size ELSE spec[2]
  <2>1. CASE spec[2] = Blank
    <3>1. ends = {}
      BY <1>1, <2>1
    <3> QED
      BY <1>9, <2>1, <3>1
  <2>2. CASE spec[2] # Blank
    <3>1. ends = {2}
      BY <1>1, <2>2
    <3>2. end = 2
      <4> HIDE DEF ends
      <4> QED
        BY <3>1
    <3> QED
      BY <1>9, <2>2, <3>1, <3>2
  <2> QED
    BY <2>1, <2>2
<1>11. p.length \in Nat
  BY <1>1, <1>10
<1> DEFINE r == ValidRange(size, p.start, p.length)
<1>12. /\ r.from = spec[1] /\ r.to = IF p.length >= size THEN size ELSE p.length + 1
       /\ r.length = r.to - spec[1]
  <2>1. p.start \in Nat /\ p.start = spec[1]
    BY <1>1, <1>9
  <2>2. /\ r.from = p.start /\ r.to = IF p.length >= size THEN size ELSE p.length + 1
        /\ r.length = r.to - p.start
    BY <1>7, <1>11, <2>1, ValidRangeCuts
  <2> HIDE DEF r
  <2> QED
    BY <2>1, <2>2, Zenon
<1> HIDE DEF r
<1>13. r.to = LastByte(h, size) + 1
  <2>1. CASE spec[2] = Blank
    <3>1. r.to = size /\ LastByte(h, size) = size - 1
      BY <1>3, <1>10, <1>12, <2>1
    <3> QED
      BY <3>1
  <2>2. CASE spec[2] # Blank
    <3>1. spec[2] \in Nat /\ p.length = spec[2] /\ LastByte(h, size) = Lesser(spec[2], size - 1)
      BY <1>1, <1>3, <1>10, <2>2
    <3>2. r.to = IF spec[2] >= size THEN size ELSE spec[2] + 1
      BY <1>12, <3>1
    <3> QED
      BY <3>1, <3>2 DEF Lesser
  <2> QED
    BY <2>1, <2>2
<1>14. r.length > 0
  <2>1. LastByte(h, size) \in Int
    BY <1>1, <1>3 DEF Lesser
  <2> QED
    BY <1>1, <1>12, <1>13, <2>1
<1> QED
  BY <1>9, <1>12, <1>13, <1>14 DEF p, r, spec
-------------------------------------------------------------------------------
LEMMA InitServing ==
  ASSUME Init
  PROVE  Serving
BY DEF Init, Serving, SizesOK, HeadersOK, ServesOK, Serves

LEMMA SizesStep ==
  ASSUME Types, CacheOK, FillOK, SizesOK, Next
  PROVE  SizesOK'
<1>1. CASE \E t \in Threads : Set(t)
  <2> PICK t \in Threads : Set(t)
    BY <1>1
  <2>1. /\ pc[t] = "dump" /\ cache' = [cache EXCEPT ![Key(req[t])] = item[t]]
    BY DEF Set
  <2>2. item[t].size \in Nat
    BY <2>1 DEF FillOK, Filled
  <2>3. \A k \in Keys : cache'[k] = item[t] \/ cache'[k] = cache[k]
    BY <2>1 DEF Types
  <2> QED
    BY <2>2, <2>3 DEF SizesOK
<1>2. CASE \E j \in Keys : Move(j)
  <2> PICK j \in Keys : Move(j)
    BY <1>2
  <2>1. cache[j] # NoItem /\ cache' = [cache EXCEPT ![j] = [cache[j] EXCEPT !.kind = "disk"]]
    BY DEF Move
  <2>2. [cache[j] EXCEPT !.kind = "disk"].size = cache[j].size
    BY <2>1 DEF CacheOK, Storable, ItemFields
  <2>3. \A k \in Keys : cache'[k] = cache[k] \/ (k = j /\ cache'[k].size = cache[j].size)
    BY <2>1, <2>2 DEF Types
  <2> QED
    BY <2>1, <2>3 DEF SizesOK
<1>3. CASE \A k \in Keys : cache'[k] = cache[k] \/ cache'[k] = NoItem
  BY <1>3 DEF SizesOK
<1>4. \A t \in Threads : Refresh(t) => \A k \in Keys : cache'[k] = cache[k] \/ cache'[k] = NoItem
  BY DEF Refresh, Types
<1>5. \A j \in Keys : Evict(j) => \A k \in Keys : cache'[k] = cache[k] \/ cache'[k] = NoItem
  BY DEF Evict, Types
<1>6. CASE cache' = cache
  BY <1>3, <1>6
<1> QED
  BY <1>1, <1>2, <1>3, <1>4, <1>5, <1>6, Zenon
  DEF Next, Step, Arrive, Lookup, Write, Fails, PassOn, ModifyResponse, Dump, Done

LEMMA HeadersStep ==
  ASSUME Types, HeadersOK, Next
  PROVE  HeadersOK'
<1>1. ASSUME NEW t \in Threads, NEW a \in Asks[t], Arrive(t, a[1], a[2])
      PROVE  HeadersOK'
  <2>1. range' = [range EXCEPT ![t] = a[2]]
    BY <1>1, Zenon DEF Arrive
  <2>2. a[2] # NoRange => a[2].specs \in Seq(Seq(Parts))
    BY ResponsesConstantsOK, Zenon DEF Parts
  <2>3. \A s \in Threads : range'[s] = a[2] \/ range'[s] = range[s]
    BY <2>1 DEF Types
  <2> QED
    BY <2>2, <2>3 DEF HeadersOK
<1>2. ASSUME NEW t \in Threads, End(t)
      PROVE  HeadersOK'
  <2>1. \A s \in Threads : range'[s] = NoRange \/ range'[s] = range[s]
    BY <1>2 DEF End, Types
  <2> QED
    BY <2>1 DEF HeadersOK
<1>3. CASE range' = range
  BY <1>3 DEF HeadersOK
<1> QED
  BY <1>1, <1>2, <1>3, Zenon
  DEF Next, Step, Refresh, Lookup, Write, Fails, PassOn, ModifyResponse, Dump, Set, Done,
      Move, Evict, perThread
-------------------------------------------------------------------------------
(* What an answer from the cache starts with.                              *)
LEMMA ComplaintServes ==
  ASSUME Types, NEW t \in Threads, Complain(t), NEW i, Stored(i), NEW h,
         ~(i.status = OK /\ h # NoRange /\ Satisfiable(h, i.size))
  PROVE  Serves(pc'[t], i, read'[t], out'[t], h)
<1>1. pc'[t] = "done" /\ out'[t] = [NoOutput EXCEPT !.code = 416, !.length = 0]
  BY DEF Complain, Go, Answer, Types
<1>2. out'[t].code = 416
  BY <1>1 DEF NoOutput
<1> QED
  BY <1>1, <1>2 DEF Serves

LEMMA WholeServes ==
  ASSUME Types, NEW t \in Threads, NEW i, Stored(i), Whole(t, i), NEW h,
         ~(i.status = OK /\ h # NoRange /\ Satisfiable(h, i.size))
  PROVE  Serves(pc'[t], i, read'[t], out'[t], h)
<1>1. /\ pc'[t] = "write" /\ read'[t] = [AtStart EXCEPT !.left = ItemLen(i)]
      /\ out'[t] = [NoOutput EXCEPT !.code = i.status, !.length = ItemLen(i)]
  BY DEF Whole, Go, Answer, Types
<1>2. i.size \in Nat /\ ItemLen(i) = i.size
  BY StoredBody
<1> DEFINE r == read'[t]  o == out'[t]
<1>3. r.from = 0 /\ r.to = 0 /\ r.seek = 0 /\ r.left = i.size
  BY <1>1, <1>2 DEF AtStart
<1>4. o.length = i.size /\ o.sent = <<>> /\ ~o.cut /\ DOMAIN o = OutFields
  BY <1>1, <1>2 DEF NoOutput, OutFields
<1>5. Bytes(0, 0) = <<>>
  BY NoBytes
<1> HIDE DEF r, o
<1>6. Limit(i, r) = i.size
  BY <1>3 DEF Limit
<1>7. Writing(i, r, o)
  BY <1>2, <1>3, <1>4, <1>5, <1>6 DEF Writing, WithinBody
<1> QED
  BY <1>1, <1>4, <1>7 DEF Serves, r, o

LEMMA PartServes ==
  ASSUME Types, NEW t \in Threads, NEW i, Stored(i), NEW p,
         i.size > 0, p.start \in Nat, p.length \in Nat,
         ~WrongRange(ValidRange(i.size, p.start, p.length)),
         Part(t, i, ValidRange(i.size, p.start, p.length)), NEW h,
         i.status = OK /\ h # NoRange /\ Satisfiable(h, i.size) =>
           LET r == ValidRange(i.size, p.start, p.length)
           IN  /\ r.length > 0 /\ r.from = h.specs[1][1] /\ r.to = LastByte(h, i.size) + 1
  PROVE  Serves(pc'[t], i, read'[t], out'[t], h)
<1> DEFINE v == ValidRange(i.size, p.start, p.length)
           r == read'[t]  o == out'[t]
           refused == Refused(i, v.from, v.to)
<1>1. i.size \in Nat /\ ItemLen(i) = i.size
  BY StoredBody
<1>2. v.from \in Nat /\ v.to \in 1..i.size /\ v.length = v.to - v.from
  BY <1>1, ValidRangeCuts
<1>3. v.length # 0
  BY DEF WrongRange
<1>4. i.status = OK /\ h # NoRange /\ Satisfiable(h, i.size) =>
        v.length > 0 /\ v.from = h.specs[1][1] /\ v.to = LastByte(h, i.size) + 1
  OBVIOUS
<1>5. /\ pc'[t] = IF refused THEN "done" ELSE "write"
      /\ r = [from |-> v.from, to |-> v.to, seek |-> v.from, left |-> v.to - v.from]
      /\ o = [NoOutput EXCEPT !.code = 206, !.length = v.length]
  <2> HIDE DEF v, refused
  <2> QED
    BY DEF Part, Go, Answer, Types, v, refused
<1> HIDE DEF v, r, o
<1>6. /\ r.from = v.from /\ r.to = v.to /\ r.seek = v.from /\ r.left = v.to - v.from
  BY <1>5
<1>7. o.code = 206 /\ o.length = v.length /\ o.sent = <<>> /\ ~o.cut /\ DOMAIN o = OutFields
  BY <1>5 DEF NoOutput, OutFields
<1>8. refused => v.length < 0
  BY <1>1, <1>2, <1>3 DEF Refused
<1>9. ~refused => v.from < v.to
  BY <1>1, <1>2, <1>3 DEF Refused
<1> HIDE DEF refused
<1>10. CASE refused
  <2>1. Sent(i, r, o)
    BY <1>2, <1>7, <1>8, <1>10 DEF Sent
  <2> QED
    BY <1>2, <1>4, <1>5, <1>8, <1>10, <2>1 DEF Serves, r, o
<1>11. CASE ~refused
  <2>1. Bytes(v.from, v.from) = <<>>
    BY <1>2, NoBytes
  <2>2. Limit(i, r) = v.to
    BY <1>2, <1>6 DEF Limit
  <2>3. Writing(i, r, o)
    BY <1>1, <1>2, <1>6, <1>7, <1>9, <1>11, <2>1, <2>2 DEF Writing, WithinBody
  <2>4. i.status = OK /\ h # NoRange /\ Satisfiable(h, i.size) =>
          /\ o.code = 206 /\ o.length >= 0
          /\ r.from = h.specs[1][1] /\ r.to = LastByte(h, i.size) + 1
    BY <1>2, <1>4, <1>6, <1>7
  <2> QED
    BY <1>5, <1>7, <1>11, <2>3, <2>4, Zenon DEF Serves, r, o
<1> QED
  BY <1>10, <1>11

LEMMA HitServes ==
  ASSUME Types, NEW t \in Threads, NEW i, Stored(i), Hit(t, i),
         range[t] # NoRange => range[t].specs \in Seq(Seq(Parts))
  PROVE  Serves(pc'[t], i, read'[t], out'[t], range[t])
<1> DEFINE h == range[t]
           p == IF h = NoRange THEN Ranged("whole", 0, 0) ELSE ParseRange(h, ItemLen(i))
           r == ValidRange(ItemLen(i), p.start, p.length)
           asked == i.status = OK /\ h # NoRange /\ Satisfiable(h, i.size)
<1>1. i.size \in Nat /\ ItemLen(i) = i.size
  BY StoredBody
<1>2. asked => /\ p.verdict = "part" /\ r.length > 0
               /\ r.from = h.specs[1][1] /\ r.to = LastByte(h, i.size) + 1
  BY <1>1, SatisfiableServed
<1>3. p.verdict \notin {"whole", "invalid"} =>
        i.size > 0 /\ p.start \in Nat /\ p.length \in Nat
  BY <1>1, ParseRangeTyped DEF Ranged
<1> HIDE DEF p
<1>4. \/ p.verdict = "invalid" /\ Complain(t)
      \/ (p.verdict = "whole" \/ (p.verdict = "part" /\ i.status # OK)) /\ Whole(t, i)
      \/ /\ p.verdict \notin {"whole", "invalid"}
         /\ IF WrongRange(r) THEN Complain(t) ELSE Part(t, i, r)
  BY Zenon DEF Hit, p
<1>5. CASE Complain(t) /\ (p.verdict = "invalid" \/ WrongRange(r))
  <2>1. ~asked
    BY <1>2, <1>5 DEF WrongRange
  <2> QED
    BY <1>5, <2>1, ComplaintServes
<1>6. CASE (p.verdict = "whole" \/ (p.verdict = "part" /\ i.status # OK)) /\ Whole(t, i)
  <2>1. ~asked
    BY <1>2, <1>6
  <2> QED
    BY <1>6, <2>1, WholeServes
<1>7. CASE p.verdict \notin {"whole", "invalid"} /\ ~WrongRange(r) /\ Part(t, i, r)
  BY <1>1, <1>2, <1>3, <1>7, PartServes
<1> QED
  BY <1>4, <1>5, <1>6, <1>7

LEMMA LookupServes ==
  ASSUME Types, CacheOK, SizesOK, HeadersOK, NEW t \in Threads, Lookup(t)
  PROVE  Serves(pc'[t], item'[t], read'[t], out'[t], range'[t])
<1> DEFINE k == Key(req[t])  i == cache[k]
<1>1. pc[t] = "lookup" /\ range' = range
  BY DEF Lookup
<1>2. k \in Keys
  <2>1. req[t] \in Requests
    BY <1>1 DEF Types
  <2> QED
    BY <2>1, KeyInKeys
<1> HIDE DEF k
<1>3. CASE i # NoItem /\ Hit(t, i) /\ item' = [item EXCEPT ![t] = i]
  <2>1. Stored(i)
    BY <1>2, <1>3 DEF CacheOK, SizesOK, Storable, Stored
  <2>2. item'[t] = i
    BY <1>3 DEF Types
  <2> HIDE DEF i
  <2>3. Serves(pc'[t], i, read'[t], out'[t], range[t])
    BY <1>3, <2>1, HitServes DEF HeadersOK
  <2> QED
    BY <1>1, <2>2, <2>3
<1>4. CASE Go(t, "fetch")
  <2>1. pc'[t] = "fetch"
    BY <1>4 DEF Go, Types
  <2> QED
    BY <2>1 DEF Serves
<1> QED
  BY <1>3, <1>4, Zenon DEF Lookup, k

LEMMA WriteServes ==
  ASSUME Types, ServesOK, NEW t \in Threads, Write(t)
  PROVE  Serves(pc'[t], item'[t], read'[t], out'[t], range'[t])
<1> DEFINE i == item[t]  r == read[t]  o == out[t]  turn == Turn(i, r)
<1>1. pc[t] = "write" /\ UNCHANGED <<item, range>>
  BY DEF Write
<1>2. /\ Serves("write", i, r, o, range[t]) /\ DOMAIN r = ReadFields
  BY <1>1 DEF ServesOK, Types
<1>3. Stored(i) /\ DOMAIN o = OutFields /\ ~o.cut /\ Writing(i, r, o)
  BY <1>2 DEF Serves
<1>4. Carries(i, r, o, turn)
  BY <1>3, TurnCarries
<1> HIDE DEF turn
<1>5. WithinBody(i, r) /\ o.length = Limit(i, r) - r.from
  BY <1>3 DEF Writing
<1>6. CASE /\ read' = [read EXCEPT ![t].seek = turn.seek, ![t].left = turn.left]
           /\ out' = [out EXCEPT ![t].sent = @ \o turn.out]
           /\ IF turn.end THEN Go(t, "done") ELSE UNCHANGED pc
  <2> DEFINE s == read'[t]  w == out'[t]
  <2>1. s.from = r.from /\ s.to = r.to /\ s.seek = turn.seek /\ s.left = turn.left
    BY <1>2, <1>6 DEF Types, ReadFields
  <2>2. /\ w.sent = o.sent \o turn.out /\ w.length = o.length /\ w.code = o.code
        /\ w.cut = o.cut /\ DOMAIN w = OutFields
    BY <1>3, <1>6 DEF Types, OutFields
  <2> HIDE DEF s, w
  <2>3. Limit(i, s) = Limit(i, r) /\ WithinBody(i, s) /\ w.length = Limit(i, s) - s.from
    BY <1>5, <2>1, <2>2 DEF Limit, WithinBody
  <2>4. i.status = OK /\ range[t] # NoRange /\ Satisfiable(range[t], i.size) =>
          /\ w.code = 206 /\ w.length >= 0
          /\ s.from = range[t].specs[1][1] /\ s.to = LastByte(range[t], i.size) + 1
    BY <1>2, <2>1, <2>2 DEF Serves
  <2>5. CASE turn.end
    <3>1. pc'[t] = "done"
      BY <1>6, <2>5 DEF Go, Types
    <3>2. o.sent \o turn.out = Bytes(r.from, Limit(i, r))
      BY <1>4, <2>5 DEF Carries
    <3>3. Sent(i, s, w)
      BY <2>1, <2>2, <2>3, <3>2, Zenon DEF Sent
    <3> QED
      BY <1>1, <1>3, <2>4, <3>1, <3>3, Zenon DEF Serves, s, w
  <2>6. CASE ~turn.end
    <3>1. pc'[t] = "write"
      BY <1>1, <1>6, <2>6
    <3>2. /\ turn.seek \in Nat /\ turn.left \in Nat /\ r.from <= turn.seek
          /\ turn.seek + turn.left = Limit(i, r)
          /\ o.sent \o turn.out = Bytes(r.from, turn.seek)
      BY <1>4, <2>6 DEF Carries
    <3>3. Writing(i, s, w)
      BY <2>1, <2>2, <2>3, <3>2, Zenon DEF Writing
    <3> QED
      BY <1>1, <1>3, <2>2, <2>4, <3>1, <3>3, Zenon DEF Serves, s, w
  <2> QED
    BY <2>5, <2>6
<1>7. CASE out' = [out EXCEPT ![t].cut = TRUE] /\ Go(t, "done") /\ UNCHANGED read
  <2>1. pc'[t] = "done"
    BY <1>7 DEF Go, Types
  <2> DEFINE w == out'[t]
  <2>2. w.cut = TRUE /\ w.code = o.code /\ w.length = o.length
    BY <1>3, <1>7 DEF Types, OutFields
  <2> HIDE DEF w
  <2> QED
    BY <1>1, <1>2, <1>3, <1>7, <2>1, <2>2 DEF Serves, w
<1> QED
  BY <1>6, <1>7, Zenon DEF Write, turn

(* What a thread does leaves what the others read and have got.            *)
LEMMA ServesFrame ==
  ASSUME ServesOK, NEW t \in Threads,
         \A s \in Threads \ {t} : /\ pc'[s] = pc[s] /\ item'[s] = item[s] /\ read'[s] = read[s]
                                  /\ out'[s] = out[s] /\ range'[s] = range[s],
         pc'[t] \notin {"write", "done"} \/ Serves(pc'[t], item'[t], read'[t], out'[t], range'[t])
  PROVE  ServesOK'
<1> SUFFICES ASSUME NEW s \in Threads
             PROVE  Serves(pc'[s], item'[s], read'[s], out'[s], range'[s])
  BY DEF ServesOK
<1>1. CASE s = t
  BY <1>1 DEF Serves
<1>2. CASE s # t
  BY <1>2 DEF ServesOK
<1> QED
  BY <1>1, <1>2

LEMMA ServesStep ==
  ASSUME Inv, Serving, Next
  PROVE  ServesOK'
<1> USE DEF Inv, Serving
<1>1. ASSUME NEW t \in Threads, NEW a \in Asks[t], Arrive(t, a[1], a[2])
      PROVE  ServesOK'
  <2> DEFINE v == Verdict(rules.global, rules.domain, a[1])
             l == CASE v.ok -> "lookup" [] v.refresh -> "refresh" [] OTHER -> "pass"
  <2>1. /\ pc' = [pc EXCEPT ![t] = l] /\ range' = [range EXCEPT ![t] = a[2]]
        /\ UNCHANGED <<item, read, out>>
    BY <1>1, Zenon DEF Arrive, Go
  <2>2. l \notin {"write", "done"}
    OBVIOUS
  <2> HIDE DEF l
  <2> QED
    BY <2>1, <2>2, ServesFrame DEF Types
<1>2. ASSUME NEW t \in Threads, Refresh(t)
      PROVE  ServesOK'
  <2>1. /\ UNCHANGED <<range, item, read, out>> /\ pc[t] = "refresh"
        /\ pc' = [pc EXCEPT ![t] = "pass"] \/ pc' = pc
    BY <1>2 DEF Refresh, Go
  <2> QED
    BY <2>1, ServesFrame DEF Types
<1>3. ASSUME NEW t \in Threads, Lookup(t)
      PROVE  ServesOK'
  <2>1. range' = range
    BY <1>3 DEF Lookup
  <2>2. item' = [item EXCEPT ![t] = cache[Key(req[t])]] \/ item' = item
    BY <1>3, Zenon DEF Lookup
  <2>3. \E l \in Labels : pc' = [pc EXCEPT ![t] = l]
    BY <1>3, LookupGoes DEF Labels
  <2>4. \A s \in Threads \ {t} : read'[s] = read[s] /\ out'[s] = out[s]
    <3>1. Hit(t, cache[Key(req[t])]) \/ UNCHANGED <<read, out>>
      BY <1>3, Zenon DEF Lookup
    <3>2. Hit(t, cache[Key(req[t])]) => \/ Complain(t) \/ Whole(t, cache[Key(req[t])])
                                        \/ \E r : Part(t, cache[Key(req[t])], r)
      BY Zenon DEF Hit
    <3> QED
      BY <3>1, <3>2 DEF Complain, Whole, Part, Answer, Types
  <2>5. Serves(pc'[t], item'[t], read'[t], out'[t], range'[t])
    BY <1>3, LookupServes
  <2>6. \A s \in Threads \ {t} : pc'[s] = pc[s] /\ item'[s] = item[s] /\ range'[s] = range[s]
    BY <2>1, <2>2, <2>3 DEF Types
  <2> QED
    BY <2>4, <2>5, <2>6, ServesFrame
<1>4. ASSUME NEW t \in Threads, Write(t)
      PROVE  ServesOK'
  <2>1. UNCHANGED <<item, range>>
    BY <1>4 DEF Write
  <2>2. \A s \in Threads \ {t} : pc'[s] = pc[s] /\ read'[s] = read[s] /\ out'[s] = out[s]
    BY <1>4 DEF Write, Go, Types
  <2>3. Serves(pc'[t], item'[t], read'[t], out'[t], range'[t])
    BY <1>4, WriteServes
  <2> QED
    BY <2>1, <2>2, <2>3, ServesFrame
<1>5. ASSUME NEW t \in Threads, End(t)
      PROVE  ServesOK'
  <2>1. /\ pc'[t] = "idle"
        /\ \A s \in Threads \ {t} : /\ pc'[s] = pc[s] /\ item'[s] = item[s] /\ read'[s] = read[s]
                                    /\ out'[s] = out[s] /\ range'[s] = range[s]
    BY <1>5 DEF End, Go, Types
  <2> QED
    BY <2>1, ServesFrame
<1>6. ASSUME NEW t \in Threads, NEW p \in Replies, ModifyResponse(t, p)
      PROVE  ServesOK'
  <2>1. /\ pc' = [pc EXCEPT ![t] = "dump"] /\ UNCHANGED <<range, out>>
        /\ \E i : item' = [item EXCEPT ![t] = i]
        /\ \E r : read' = [read EXCEPT ![t] = r]
    BY <1>6, Zenon DEF ModifyResponse, Go
  <2>2. pc'[t] = "dump"
    BY <2>1 DEF Types
  <2>3. \A s \in Threads \ {t} : /\ pc'[s] = pc[s] /\ item'[s] = item[s] /\ read'[s] = read[s]
                                 /\ out'[s] = out[s] /\ range'[s] = range[s]
    BY <2>1 DEF Types
  <2> QED
    BY <2>2, <2>3, ServesFrame
<1>7. ASSUME NEW t \in Threads, Dump(t), ~End(t)
      PROVE  ServesOK'
  <2>1. /\ pc[t] = "dump" /\ UNCHANGED <<pc, range, out>>
        /\ \E i : item' = [item EXCEPT ![t] = i]
        /\ \E n : read' = [read EXCEPT ![t].seek = @ + n, ![t].left = @ - n]
    BY <1>7, Zenon DEF Dump
  <2>2. \A s \in Threads \ {t} : /\ pc'[s] = pc[s] /\ item'[s] = item[s] /\ read'[s] = read[s]
                                 /\ out'[s] = out[s] /\ range'[s] = range[s]
    BY <2>1 DEF Types
  <2> QED
    BY <2>1, <2>2, ServesFrame
<1>8. ASSUME NEW k \in Keys, Move(k) \/ Evict(k)
      PROVE  ServesOK'
  BY <1>8 DEF Move, Evict, perThread, ServesOK
<1> QED
  BY <1>1, <1>2, <1>3, <1>4, <1>5, <1>6, <1>7, <1>8, Zenon
  DEF Next, Step, Fails, PassOn, Set, Done

LEMMA ServingNext ==
  ASSUME Inv, Serving, [Next]_vars
  PROVE  Serving'
<1>1. CASE Next
  BY <1>1, SizesStep, HeadersStep, ServesStep DEF Inv, Serving
<1>2. CASE UNCHANGED vars
  BY <1>2 DEF vars, perThread, Serving, SizesOK, HeadersOK, ServesOK
<1> QED
  BY <1>1, <1>2

LEMMA AlwaysServing == Spec => []Serving
<1> QED
  BY InitServing, ServingNext, ResponsesInv, PTL DEF Spec

(* A client that is not cut off gets the bytes its Content-Length          *)
(* announced, of the body it asked for, whether the body lies in memory,   *)
(* in a temporary file or among other records in the value log, and        *)
(* however the loops divide it (handler.go:449, itemMem.go:94,             *)
(* itemDisk.go:85).                                                        *)
THEOREM ServedAsAnnounced == Spec => []AsAnnounced
<1>1. ASSUME Serving, NEW t \in Threads, Complete(t), out[t].code # 416
      PROVE  LET r == read[t]
             IN  IF out[t].length < 0 THEN out[t].sent = <<>>
                 ELSE /\ Len(out[t].sent) = out[t].length
                      /\ out[t].sent = IF r.to = 0 THEN Bytes(0, item[t].size)
                                       ELSE Bytes(r.from, r.to)
  <2> DEFINE i == item[t]  r == read[t]  o == out[t]  m == Limit(i, r)
  <2>1. Sent(i, r, o) /\ Stored(i)
    BY <1>1 DEF Serving, ServesOK, Serves, Complete
  <2>2. CASE o.length < 0 /\ o.sent = <<>>
    BY <2>2
  <2>3. CASE WithinBody(i, r) /\ o.length = m - r.from /\ o.sent = Bytes(r.from, m)
    <3>1. i.size \in Nat
      BY <2>1 DEF Stored
    <3>2. /\ r.from \in Nat /\ r.to \in Nat /\ m \in Nat /\ r.from <= m
          /\ m = IF r.to = 0 THEN i.size ELSE r.to
          /\ r.to = 0 => r.from = 0
      BY <2>3, <3>1 DEF WithinBody, Limit
    <3> HIDE DEF m, i, r, o
    <3>3. Len(Bytes(r.from, m)) = m - r.from
      BY <3>2, BytesAre
    <3>4. Len(o.sent) = o.length /\ ~(o.length < 0)
      BY <2>3, <3>2, <3>3
    <3>5. o.sent = IF r.to = 0 THEN Bytes(0, i.size) ELSE Bytes(r.from, r.to)
      BY <2>3, <3>2
    <3> QED
      BY <3>4, <3>5 DEF i, r, o
  <2> QED
    BY <2>1, <2>2, <2>3 DEF Sent
<1>2. Serving => AsAnnounced
  BY <1>1 DEF AsAnnounced
<1> QED
  BY <1>2, AlwaysServing, PTL

(* A range that RFC 7233 calls satisfiable is answered with its bytes      *)
(* (utils.go:96, itemMem.go:94, itemDisk.go:142).                          *)
THEOREM SatisfiableRangesServed == Spec => []RangesServed
<1>1. ASSUME Serving, NEW t \in Threads, Complete(t), item[t].status = OK, range[t] # NoRange,
             Satisfiable(range[t], item[t].size)
      PROVE  /\ out[t].code = 206
             /\ out[t].sent = Bytes(range[t].specs[1][1], LastByte(range[t], item[t].size) + 1)
  <2> DEFINE i == item[t]  r == read[t]  o == out[t]  h == range[t]
  <2>1. /\ o.code = 206 /\ o.length >= 0
        /\ r.from = h.specs[1][1] /\ r.to = LastByte(h, i.size) + 1
        /\ Stored(i) /\ Sent(i, r, o)
    BY <1>1 DEF Serving, ServesOK, Serves, Complete
  <2>2. WithinBody(i, r) /\ o.length = Limit(i, r) - r.from /\ o.sent = Bytes(r.from, Limit(i, r))
    BY <2>1 DEF Sent
  <2>3. r.to # 0
    <3>1. h.specs[1][1] \in Nat /\ h.specs[1][1] <= LastByte(h, i.size)
      BY <1>1 DEF Satisfiable
    <3>2. r.from \in Nat /\ r.to \in Nat /\ i.size \in Nat
      BY <2>1, <2>2 DEF WithinBody, Stored
    <3>3. LastByte(h, i.size) \in Int
      BY <1>1, <3>2 DEF LastByte, Satisfiable, Lesser
    <3> QED
      BY <2>1, <3>1, <3>2, <3>3
  <2> QED
    BY <2>1, <2>2, <2>3 DEF Limit
<1>2. Serving => RangesServed
  BY <1>1 DEF RangesServed
<1> QED
  BY <1>2, AlwaysServing, PTL

(* The loops that read a body end: every turn that is not the last leaves  *)
(* less to read (itemMem.go:148, itemDisk.go:112).                         *)
THEOREM CopiesAdvance == Spec => []TurnsAdvance
<1>1. ASSUME Serving, NEW t \in Threads, pc[t] = "write"
      PROVE  Carries(item[t], read[t], out[t], Turn(item[t], read[t]))
  BY <1>1, TurnCarries DEF Serving, ServesOK, Serves
<1>2. Serving => TurnsAdvance
  BY <1>1 DEF TurnsAdvance, Carries
<1> QED
  BY <1>2, AlwaysServing, PTL
=============================================================================
