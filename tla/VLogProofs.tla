------------------------------ MODULE VLogProofs ------------------------------
(***************************************************************************)
(* Theorems on VLog: types, that a record which has not expired can be     *)
(* read, that records lie where the index says, and that an item waits in  *)
(* one channel, once, for any items, TTLs, sizes, tries and failures.      *)
(***************************************************************************)
EXTENDS VLog, SequenceTheorems, TLAPS

Running(ch) == rpc[ch] \notin {"none", "start"}
Working(ch) == rpc[ch] \in {"transform", "stored", "full"}
Same(i, ch) == Seconds(ttl[i]) = Seconds(ttl[ch])

(* An item is sent to a channel made for its ttl in seconds, once; an item *)
(* that has not been sent has no reader of its own yet.                    *)
Routes ==
  /\ \A s \in DOMAIN ttlCh : ttlCh[s] # NoItem => Seconds(ttl[ttlCh[s]]) = s
  /\ \A t \in TTLs : inflight[t] # NoItem => ttl[inflight[t]] = t
  /\ \A i \in Items : pc[i] \in {"wait", "send"} => Same(i, to[i])
  /\ \A i \in Items : pc[i] \in {"idle", "do", "fly"} => rpc[i] = "none"
  /\ \A ch \in Items : \A k \in 1..Len(queue[ch]) :
       Same(queue[ch][k], ch) /\ pc[queue[ch][k]] = "sent"
  /\ \A ch \in Items : Working(ch) => Same(job[ch], ch) /\ pc[job[ch]] = "sent"

(* Where a record lies, among the files fs with ignored failures in ig.    *)
LiesIn(r, fs, ig) ==
  /\ r.ch \in Items /\ r.file \in 1..Len(fs[r.ch])
  /\ <<r.ch, r.file>> \notin ig => r.off = r.at /\ r.whole

InFile(r) == LiesIn(r, files, ignored)

Placed ==
  /\ \A ch \in Items : ~Running(ch) => files[ch] = <<>>
  /\ \A x \in ignored : x[2] <= Len(files[x[1]])
  /\ \A ch \in Items : <<ch, Len(files[ch])>> \notin ignored => size[ch] = real[ch]
  /\ \A ch \in Items : rpc[ch] = "stored" =>
       itd[ch].ch = ch /\ itd[ch].file = Len(files[ch]) /\ InFile(itd[ch])
  /\ \A i \in Items : stored[i] # NoRecord => InFile(stored[i]) /\ Same(i, stored[i].ch)
  /\ \A i \in Items : pc[i] = "idle" => stored[i] = NoRecord

FileOf(r) == files[r.ch][r.file]

(* No record outlives its file, whichever file of its reader it is in.     *)
Lives ==
  /\ \A i \in Items : \A t \in TTLs :
       Seconds(t) = Seconds(ttl[i]) => expireAt[i] < now + Linger(t)
  /\ \A i \in Items : stored[i] # NoRecord =>
       /\ FileOf(stored[i]).state = "given" => expireAt[i] < FileOf(stored[i]).closeAt
       /\ FileOf(stored[i]).state = "closed" => expireAt[i] < now

(* A file outlives the longest ttl its reader is sent.                     *)
FilesLinger == \A t, u \in TTLs : Seconds(t) = Seconds(u) => u < Linger(t)
-------------------------------------------------------------------------------
LEMMA Product == \A a, b \in Nat : a * b \in Nat
OBVIOUS

LEMMA SecondsNat == \A t \in TTLs : Seconds(t) \in Nat
BY VLogConstantsOK DEF Seconds

LEMMA LingerNat ==
  ASSUME NEW t \in TTLs
  PROVE  Linger(t) \in Nat /\ t <= Linger(t)
<1>1. Seconds(t) \div 4 \in Nat
  BY SecondsNat
<1>2. (Seconds(t) \div 4) * Second \in Nat
  BY <1>1, VLogConstantsOK, Product
<1> QED
  BY <1>2, VLogConstantsOK DEF Linger

(* Four seconds are enough, whatever lies behind the point.                *)
LEMMA LongTTLsLinger ==
  ASSUME \A t \in TTLs : Seconds(t) >= 4, MaxWaiting >= Second
  PROVE  FilesLinger
<1> SUFFICES ASSUME NEW t \in TTLs, NEW u \in TTLs, Seconds(t) = Seconds(u)
             PROVE  u < Linger(t)
  BY DEF FilesLinger
<1> DEFINE q == Seconds(t) \div 4
<1>1. q \in Nat /\ q >= 1
  BY SecondsNat
<1>2. q * Second >= Second
  BY <1>1, VLogConstantsOK
<1>3. u < t + Second
  BY VLogConstantsOK DEF Seconds
<1> HIDE DEF q
<1>4. q * Second \in Nat
  BY <1>1, VLogConstantsOK, Product
<1> QED
  BY <1>2, <1>3, <1>4, VLogConstantsOK DEF Linger, q

-------------------------------------------------------------------------------
LEMMA Numbers ==
  ASSUME VLogTypeOK
  PROVE  /\ now \in Nat
         /\ \A i \in Items : ttl[i] \in TTLs /\ ttl[i] \in Nat /\ Linger(ttl[i]) \in Nat
<1>1. now \in Nat /\ \A i \in Items : ttl[i] \in TTLs
  BY VLogConstantsOK DEF VLogTypeOK
<1> QED
  BY <1>1, LingerNat, VLogConstantsOK

(* A new file, behind those of fs.                                         *)
LEMMA NewFileIs ==
  ASSUME VLogTypeOK, NEW ch \in Items, NEW fs \in Seq(Files), NewFile(ch, fs)
  PROVE  /\ files' \in [Items -> Seq(Files)]
         /\ size' \in [Items -> Nat] /\ real' \in [Items -> Nat] /\ fresh' \in [Items -> Nat]
         /\ \A c \in Items \ {ch} :
              files'[c] = files[c] /\ size'[c] = size[c] /\ real'[c] = real[c]
         /\ Len(files'[ch]) = Len(fs) + 1 /\ files'[ch] # <<>>
         /\ \A f \in 1..Len(fs) : files'[ch][f] = fs[f]
         /\ files'[ch][Len(fs) + 1].state = "used"
         /\ size'[ch] = 0 /\ real'[ch] = 0
<1> DEFINE new == [state |-> "used", closeAt |-> 0]
<1>1. new \in Files
  BY DEF Files
<1>2. /\ Append(fs, new) \in Seq(Files) /\ Append(fs, new) # <<>>
      /\ Len(Append(fs, new)) = Len(fs) + 1
      /\ \A f \in 1..Len(fs) : Append(fs, new)[f] = fs[f]
      /\ Append(fs, new)[Len(fs) + 1] = new
  BY <1>1, AppendProperties
<1>3. new.state = "used"
  OBVIOUS
<1>4. files' = [files EXCEPT ![ch] = Append(fs, new)]
  BY DEF NewFile
<1> HIDE DEF new
<1>5. now + ttl[ch] + Grace \in Nat
  BY Numbers, VLogConstantsOK
<1>6. /\ files \in [Items -> Seq(Files)] /\ size \in [Items -> Nat]
      /\ real \in [Items -> Nat] /\ fresh \in [Items -> Nat]
  BY DEF VLogTypeOK
<1>7. /\ size' = [size EXCEPT ![ch] = 0] /\ real' = [real EXCEPT ![ch] = 0]
      /\ fresh' = [fresh EXCEPT ![ch] = now + ttl[ch] + Grace]
  BY DEF NewFile
<1>8. files' \in [Items -> Seq(Files)] /\ files'[ch] = Append(fs, new)
      /\ \A c \in Items \ {ch} : files'[c] = files[c]
  BY <1>2, <1>4, <1>6
<1>9. /\ size' \in [Items -> Nat] /\ real' \in [Items -> Nat] /\ fresh' \in [Items -> Nat]
      /\ \A c \in Items \ {ch} : size'[c] = size[c] /\ real'[c] = real[c]
      /\ size'[ch] = 0 /\ real'[ch] = 0
  BY <1>5, <1>6, <1>7
<1> QED
  BY <1>2, <1>3, <1>8, <1>9

(* The files of a reader whose current one is given up.                    *)
LEMMA AutoExpiredIs ==
  ASSUME VLogTypeOK, NEW ch \in Items, Running(ch)
  PROVE  /\ AutoExpired(ch) \in Seq(Files) /\ Len(AutoExpired(ch)) = Len(files[ch])
         /\ \A f \in 1..Len(files[ch]) : AutoExpired(ch)[f] =
              IF f = Len(files[ch]) THEN [state |-> "given", closeAt |-> now + Linger(ttl[ch])]
              ELSE files[ch][f]
<1> DEFINE n == Len(files[ch])
           old == [state |-> "given", closeAt |-> now + Linger(ttl[ch])]
<1>1. files[ch] \in Seq(Files) /\ files[ch] # <<>>
  BY DEF VLogTypeOK, Running
<1>2. n \in 1..Len(files[ch])
  BY <1>1, EmptySeq
<1>3. now + Linger(ttl[ch]) \in Nat
  BY Numbers
<1>4. old \in Files
  BY <1>3 DEF Files
<1> HIDE DEF old
<1> QED
  BY <1>1, <1>2, <1>4, ExceptSeq DEF AutoExpired, old

FilesStep(ch) == Rotate(ch) \/ UNCHANGED fileVars

(* A reader that may have changed files has one in use, behind the others. *)
LEMMA FilesStepIs ==
  ASSUME VLogTypeOK, Placed, NEW ch \in Items, Running(ch), FilesStep(ch), UNCHANGED ignored
  PROVE  /\ files' \in [Items -> Seq(Files)]
         /\ size' \in [Items -> Nat] /\ real' \in [Items -> Nat] /\ fresh' \in [Items -> Nat]
         /\ files'[ch] # <<>> /\ Last(files'[ch]).state = "used"
         /\ \A c \in Items \ {ch} :
              files'[c] = files[c] /\ size'[c] = size[c] /\ real'[c] = real[c]
         /\ \A c \in Items : Len(files[c]) <= Len(files'[c])
         /\ <<ch, Len(files'[ch])>> \notin ignored' => size'[ch] = real'[ch]
         /\ \A f \in 1..Len(files[ch]) :
              \/ files'[ch][f] = files[ch][f]
              \/ files'[ch][f] = [state |-> "given", closeAt |-> now + Linger(ttl[ch])]
<1>1. files \in [Items -> Seq(Files)] /\ files[ch] # <<>> /\ Last(files[ch]).state = "used"
  BY DEF VLogTypeOK, Running
<1>2. \A c \in Items : Len(files[c]) \in Nat
  BY <1>1, LenProperties
<1>3. CASE Rotate(ch)
  <2>1. AutoExpired(ch) \in Seq(Files) /\ Len(AutoExpired(ch)) = Len(files[ch])
    BY AutoExpiredIs
  <2>2. /\ files' \in [Items -> Seq(Files)]
        /\ size' \in [Items -> Nat] /\ real' \in [Items -> Nat] /\ fresh' \in [Items -> Nat]
        /\ \A c \in Items \ {ch} :
             files'[c] = files[c] /\ size'[c] = size[c] /\ real'[c] = real[c]
        /\ Len(files'[ch]) = Len(files[ch]) + 1 /\ files'[ch] # <<>>
        /\ \A f \in 1..Len(files[ch]) : files'[ch][f] = AutoExpired(ch)[f]
        /\ files'[ch][Len(files[ch]) + 1].state = "used"
        /\ size'[ch] = 0 /\ real'[ch] = 0
    BY <1>3, <2>1, NewFileIs DEF Rotate
  <2>3. \A c \in Items : Len(files[c]) <= Len(files'[c])
    <3>1. ASSUME NEW c \in Items \ {ch} PROVE Len(files'[c]) = Len(files[c])
      BY <2>2, Zenon
    <3>2. Len(files[ch]) <= Len(files'[ch])
      BY <1>2, <2>2
    <3> QED
      BY <1>2, <3>1, <3>2
  <2>4. Last(files'[ch]).state = "used"
    BY <2>2 DEF Last
  <2>5. \A f \in 1..Len(files[ch]) :
          \/ files'[ch][f] = files[ch][f]
          \/ files'[ch][f] = [state |-> "given", closeAt |-> now + Linger(ttl[ch])]
    BY <2>2, AutoExpiredIs
  <2> QED
    BY <2>2, <2>3, <2>4, <2>5
<1>4. CASE UNCHANGED fileVars
  <2>1. UNCHANGED <<files, size, real, fresh>>
    BY <1>4 DEF fileVars
  <2>2. size \in [Items -> Nat] /\ real \in [Items -> Nat] /\ fresh \in [Items -> Nat]
    BY DEF VLogTypeOK
  <2> QED
    BY <1>1, <1>2, <2>1, <2>2 DEF Placed
<1> QED
  BY <1>3, <1>4 DEF FilesStep

-------------------------------------------------------------------------------
(* There is a try left but where the last one has just failed.             *)
Trying == \A ch \in Items : rpc[ch] # "full" => try[ch] < Tries

VInv == VLogTypeOK /\ Trying /\ Routes /\ Placed

(* What the types say of the rest, in parts: files are the readers' part.  *)
FileTypes ==
  /\ files \in [Items -> Seq(Files)]
  /\ size \in [Items -> Nat] /\ real \in [Items -> Nat] /\ fresh \in [Items -> Nat]
  /\ faults \in 0..MaxFaults /\ ignored \subseteq Items \X Nat
  /\ \A ch \in Items : Running(ch) => files[ch] # <<>> /\ Last(files[ch]).state = "used"

CallTypes ==
  /\ now \in Times
  /\ ttl \in [Items -> TTLs]
  /\ ttlCh \in [{Seconds(t) : t \in TTLs} -> Items \cup {NoItem}]
  /\ inflight \in [TTLs -> Items \cup {NoItem}]
  /\ pc \in [Items -> {"idle", "do", "fly", "wait", "send", "sent"}]
  /\ to \in [Items -> Items \cup {NoItem}]
  /\ queue \in [Items -> Seq(Items)]
  /\ expireAt \in [Items -> Nat]
  /\ \A i \in Items : pc[i] \in {"wait", "send"} => to[i] \in Items

WorkTypes ==
  /\ rpc \in [Items -> {"none", "start", "receive", "transform", "stored", "full"}]
  /\ job \in [Items -> Items \cup {NoItem}]
  /\ try \in [Items -> 0..Tries]
  /\ itd \in [Items -> Records]
  /\ stored \in [Items -> Records]
  /\ \A ch \in Items : Working(ch) => job[ch] \in Items

LEMMA TypesAreParts == VLogTypeOK <=> FileTypes /\ CallTypes /\ WorkTypes
BY DEF VLogTypeOK, FileTypes, CallTypes, WorkTypes, Running, Working

LEMMA NoRecordType == NoRecord \in Records
BY DEF NoRecord, Records

LEMMA VLogInitInv == VLogInit => VInv
<1> SUFFICES ASSUME VLogInit PROVE VInv
  OBVIOUS
<1>1. FileTypes /\ CallTypes /\ WorkTypes
  BY VLogConstantsOK, NoRecordType, EmptySeq
  DEF VLogInit, FileTypes, CallTypes, WorkTypes, Running, Working
<1>2. Trying /\ Routes
  BY VLogConstantsOK, EmptySeq DEF VLogInit, Trying, Routes, Working
<1>3. Placed
  BY DEF VLogInit, Placed, Running
<1> QED
  BY <1>1, <1>2, <1>3, TypesAreParts DEF VInv

(* Where a Set goes, and to which channel.                                 *)
LEMMA GotoTypes ==
  ASSUME CallTypes, NEW i \in Items, NEW label, NEW ch, SetGoto(i, label, ch),
         label \in {"do", "fly", "wait", "send", "sent"}, ch \in Items \cup {NoItem},
         label \in {"wait", "send"} => ch \in Items
  PROVE  /\ pc' \in [Items -> {"idle", "do", "fly", "wait", "send", "sent"}]
         /\ to' \in [Items -> Items \cup {NoItem}]
         /\ \A j \in Items : pc'[j] \in {"wait", "send"} => to'[j] \in Items
<1>1. pc' = [pc EXCEPT ![i] = label] /\ to' = [to EXCEPT ![i] = ch]
  BY DEF SetGoto
<1>2. /\ pc \in [Items -> {"idle", "do", "fly", "wait", "send", "sent"}]
      /\ to \in [Items -> Items \cup {NoItem}]
      /\ \A j \in Items : pc[j] \in {"wait", "send"} => to[j] \in Items
  BY DEF CallTypes
<1> QED
  BY <1>1, <1>2

(* The caller's part of a Set: no reader's file or work is touched.        *)
LEMMA SetTypes ==
  ASSUME VLogTypeOK, NEW i \in Items, Load(i) \/ SetStep(i)
  PROVE  VLogTypeOK'
<1>0. FileTypes /\ CallTypes /\ WorkTypes
  BY TypesAreParts
<1>1. UNCHANGED <<now, ttl, job, try, itd, files, size, real, fresh, faults, ignored, stored>>
  BY DEF Load, SetStep, Lead, Follow, Fly, Waited, Send, readerVars, fileVars, faultVars, storeVars
<1>2. rpc' = rpc \/ rpc' = [rpc EXCEPT ![i] = "start"]
  BY DEF Load, SetStep, Lead, Follow, Fly, Waited, Send, readerVars
<1>3. FileTypes' /\ WorkTypes'
  BY <1>0, <1>1, <1>2 DEF FileTypes, WorkTypes, Running, Working
<1>4. ttl[i] \in TTLs /\ Seconds(ttl[i]) \in {Seconds(t) : t \in TTLs}
  BY <1>0 DEF CallTypes
<1>5. CASE Load(i)
  <2> DEFINE ch == ttlCh[Seconds(ttl[i])]
  <2>1. expireAt' \in [Items -> Nat]
    <3>1. now + ttl[i] \in Nat
      BY Numbers, VLogConstantsOK
    <3> QED
      BY <1>0, <1>5, <3>1 DEF Load, CallTypes
  <2>2. UNCHANGED <<ttlCh, inflight, queue>>
    BY <1>5 DEF Load
  <2>3. ch \in Items \cup {NoItem}
    BY <1>0, <1>4 DEF CallTypes
  <2>4. IF ch = NoItem THEN SetGoto(i, "do", NoItem) ELSE SetGoto(i, "send", ch)
    BY <1>5 DEF Load
  <2> HIDE DEF ch
  <2>5. /\ pc' \in [Items -> {"idle", "do", "fly", "wait", "send", "sent"}]
        /\ to' \in [Items -> Items \cup {NoItem}]
        /\ \A j \in Items : pc'[j] \in {"wait", "send"} => to'[j] \in Items
    <3>1. CASE ch = NoItem
      <4>1. SetGoto(i, "do", NoItem)
        BY <2>4, <3>1
      <4> QED
        BY <1>0, <4>1, GotoTypes
    <3>2. CASE ch # NoItem
      <4>1. SetGoto(i, "send", ch) /\ ch \in Items
        BY <2>3, <2>4, <3>2
      <4> QED
        BY <1>0, <4>1, GotoTypes
    <3> QED
      BY <3>1, <3>2
  <2>6. CallTypes'
    BY <1>0, <1>1, <2>1, <2>2, <2>5 DEF CallTypes
  <2> QED
    BY <1>3, <2>6 DEF VLogTypeOK, FileTypes, CallTypes, WorkTypes, Running, Working
<1>6. CASE SetStep(i)
  <2>1. expireAt' = expireAt
    BY <1>6 DEF SetStep, Lead, Follow, Fly, Waited, Send, storeVars
  <2>2. /\ pc' \in [Items -> {"idle", "do", "fly", "wait", "send", "sent"}]
        /\ to' \in [Items -> Items \cup {NoItem}]
        /\ \A j \in Items : pc'[j] \in {"wait", "send"} => to'[j] \in Items
    <3>1. CASE Lead(i)
      <4>1. SetGoto(i, "fly", i)
        BY <3>1 DEF Lead
      <4> QED
        BY <1>0, <4>1, GotoTypes
    <3>2. CASE Follow(i)
      <4>1. SetGoto(i, "wait", inflight[ttl[i]]) /\ inflight[ttl[i]] \in Items
        BY <1>0, <1>4, <3>2 DEF Follow, CallTypes
      <4> QED
        BY <1>0, <4>1, GotoTypes
    <3>3. CASE Fly(i)
      <4>1. SetGoto(i, "send", i)
        BY <3>3 DEF Fly
      <4> QED
        BY <1>0, <4>1, GotoTypes
    <3>4. CASE Waited(i)
      <4>1. SetGoto(i, "send", to[i]) /\ to[i] \in Items
        BY <1>0, <3>4 DEF Waited, CallTypes
      <4> QED
        BY <1>0, <4>1, GotoTypes
    <3>5. CASE Send(i)
      <4>1. SetGoto(i, "sent", to[i]) /\ to[i] \in Items
        BY <1>0, <3>5 DEF Send, CallTypes
      <4> QED
        BY <1>0, <4>1, GotoTypes
    <3> QED
      BY <1>6, <3>1, <3>2, <3>3, <3>4, <3>5 DEF SetStep
  <2>3. ttlCh' \in [{Seconds(t) : t \in TTLs} -> Items \cup {NoItem}]
    <3>1. ttlCh' = ttlCh \/ ttlCh' = [ttlCh EXCEPT ![Seconds(ttl[i])] = i]
      BY <1>6 DEF SetStep, Lead, Follow, Fly, Waited, Send
    <3> QED
      BY <1>0, <3>1 DEF CallTypes
  <2>4. inflight' \in [TTLs -> Items \cup {NoItem}]
    <3>1. \/ inflight' = inflight
          \/ inflight' = [inflight EXCEPT ![ttl[i]] = i]
          \/ inflight' = [inflight EXCEPT ![ttl[i]] = NoItem]
      BY <1>6 DEF SetStep, Lead, Follow, Fly, Waited, Send
    <3> QED
      BY <1>0, <3>1 DEF CallTypes
  <2>5. queue' \in [Items -> Seq(Items)]
    <3>1. \/ queue' = queue
          \/ pc[i] = "send" /\ queue' = [queue EXCEPT ![to[i]] = Append(@, i)]
      BY <1>6 DEF SetStep, Lead, Follow, Fly, Waited, Send
    <3>2. pc[i] = "send" => Append(queue[to[i]], i) \in Seq(Items)
      BY <1>0, AppendProperties DEF CallTypes
    <3> QED
      BY <1>0, <3>1, <3>2 DEF CallTypes
  <2>6. CallTypes'
    BY <1>0, <1>1, <2>1, <2>2, <2>3, <2>4, <2>5 DEF CallTypes
  <2> QED
    BY <1>3, <2>6 DEF VLogTypeOK, FileTypes, CallTypes, WorkTypes, Running, Working
<1> QED
  BY <1>5, <1>6

(* Where a reader goes; nothing but the file in use is asked of it there.  *)
LEMMA ReaderCallTypes ==
  ASSUME VLogTypeOK, NEW ch \in Items, ReaderStep(ch)
  PROVE  CallTypes'
<1>0. CallTypes /\ WorkTypes
  BY TypesAreParts
<1>1. UNCHANGED <<now, ttl, ttlCh, inflight, pc, to>>
  BY DEF ReaderStep, Start, Receive, AfterWrite, CheckSize, Transform, TransformFails, setVars
<1>2. queue' \in [Items -> Seq(Items)]
  <2>1. \/ queue' = queue
        \/ queue[ch] # <<>> /\ queue' = [queue EXCEPT ![ch] = Tail(@)]
    BY DEF ReaderStep, Start, Receive, AfterWrite, CheckSize, Transform, TransformFails
  <2>2. queue[ch] # <<>> => Tail(queue[ch]) \in Seq(Items)
    BY <1>0, HeadTailProperties DEF CallTypes
  <2> QED
    BY <1>0, <2>1, <2>2 DEF CallTypes
<1>3. expireAt' \in [Items -> Nat]
  <2>1. \/ expireAt' = expireAt
        \/ rpc[ch] = "stored" /\ expireAt' = [expireAt EXCEPT ![job[ch]] = now + ttl[ch]]
    BY DEF ReaderStep, Start, Receive, AfterWrite, CheckSize, Transform, TransformFails, storeVars
  <2>2. now + ttl[ch] \in Nat
    BY Numbers, VLogConstantsOK
  <2> QED
    BY <1>0, <2>1, <2>2 DEF CallTypes
<1> QED
  BY <1>0, <1>1, <1>2, <1>3 DEF CallTypes

LEMMA ReaderFileTypes ==
  ASSUME VLogTypeOK, Placed, NEW ch \in Items, ReaderStep(ch)
  PROVE  FileTypes'
<1>0. FileTypes /\ WorkTypes
  BY TypesAreParts
<1>1. CASE Start(ch)
  <2>1. NewFile(ch, <<>>) /\ rpc' = [rpc EXCEPT ![ch] = "receive"]
        /\ UNCHANGED <<faults, ignored>>
    BY <1>1 DEF Start, ReaderGoto, faultVars
  <2>2. PICK fs \in Seq(Files) : fs = <<>> /\ Len(fs) = 0
    BY EmptySeq
  <2>3. /\ files' \in [Items -> Seq(Files)]
        /\ size' \in [Items -> Nat] /\ real' \in [Items -> Nat] /\ fresh' \in [Items -> Nat]
        /\ \A c \in Items \ {ch} : files'[c] = files[c]
        /\ Len(files'[ch]) = 1 /\ files'[ch] # <<>> /\ files'[ch][1].state = "used"
    <3>1. NewFile(ch, fs)
      BY <2>1, <2>2
    <3>2. /\ files' \in [Items -> Seq(Files)]
          /\ size' \in [Items -> Nat] /\ real' \in [Items -> Nat] /\ fresh' \in [Items -> Nat]
          /\ \A c \in Items \ {ch} : files'[c] = files[c]
          /\ Len(files'[ch]) = Len(fs) + 1 /\ files'[ch] # <<>>
          /\ files'[ch][Len(fs) + 1].state = "used"
      BY <3>1, NewFileIs, Zenon
    <3>3. Len(fs) + 1 = 1
      BY <2>2
    <3> QED
      BY <3>2, <3>3, Zenon
  <2> QED
    BY <1>0, <2>1, <2>3 DEF FileTypes, WorkTypes, Running, Last
<1>2. CASE Receive(ch) \/ AfterWrite(ch) \/ CheckSize(ch)
           \/ \E fault \in Faults, partial \in {0, 1} : TransformFails(ch, fault, partial)
  <2>1. FilesStep(ch) /\ Running(ch) /\ UNCHANGED ignored
        /\ \A c \in Items \ {ch} : rpc'[c] = rpc[c]
    BY <1>0, <1>2 DEF Receive, AfterWrite, CheckSize, TransformFails, FilesStep, Running,
                      ReaderGoto, faultVars, WorkTypes
  <2>2. faults' \in 0..MaxFaults
    BY <1>0, <1>2, VLogConstantsOK
    DEF Receive, AfterWrite, CheckSize, TransformFails, Fail, faultVars, FileTypes
  <2>3. /\ files' \in [Items -> Seq(Files)]
        /\ size' \in [Items -> Nat] /\ real' \in [Items -> Nat] /\ fresh' \in [Items -> Nat]
        /\ files'[ch] # <<>> /\ Last(files'[ch]).state = "used"
        /\ \A c \in Items \ {ch} : files'[c] = files[c]
    BY <2>1, FilesStepIs
  <2> QED
    BY <1>0, <2>1, <2>2, <2>3 DEF FileTypes, Running
<1>3. CASE \E fault \in {"none"} \cup Faults, partial \in {0, 1} : Transform(ch, fault, partial)
  <2> PICK fault \in {"none"} \cup Faults, partial \in {0, 1} : Transform(ch, fault, partial)
    BY <1>3
  <2>1. faults' \in 0..MaxFaults /\ ignored' \subseteq Items \X Nat
    <3>1. Len(files[ch]) \in Nat
      BY <1>0, LenProperties DEF FileTypes
    <3> QED
      BY <1>0, <3>1, VLogConstantsOK DEF Transform, Fail, faultVars, FileTypes
  <2>2. fault \in {"none", "newline", "mark"}
    BY DEF Transform
  <2>3. Grown[fault] \in Nat
    BY <2>2 DEF Grown
  <2>4. now + ttl[ch] + Grace \in Nat
    BY Numbers, VLogConstantsOK
  <2>5. size' \in [Items -> Nat] /\ real' \in [Items -> Nat] /\ fresh' \in [Items -> Nat]
    BY <1>0, <2>3, <2>4 DEF Transform, Appended, FileTypes
  <2>6. UNCHANGED files /\ rpc' = [rpc EXCEPT ![ch] = "stored"] /\ Running(ch)
    BY DEF Transform, ReaderGoto, Running
  <2> QED
    BY <1>0, <2>1, <2>5, <2>6 DEF FileTypes, WorkTypes, Running
<1> QED
  BY <1>1, <1>2, <1>3 DEF ReaderStep, TransformFails, Fail

LEMMA ReaderWorkTypes ==
  ASSUME VLogTypeOK, Trying, NEW ch \in Items, ReaderStep(ch)
  PROVE  WorkTypes' /\ Trying'
<1>0. FileTypes /\ CallTypes /\ WorkTypes
  BY TypesAreParts
<1>1. CASE Start(ch)
  BY <1>0, <1>1 DEF Start, ReaderGoto, storeVars, WorkTypes, Working, Trying
<1>2. CASE Receive(ch)
  <2>1. Head(queue[ch]) \in Items
    BY <1>0, <1>2, HeadTailProperties DEF Receive, CallTypes
  <2> QED
    BY <1>0, <1>2, <2>1 DEF Receive, ReaderGoto, storeVars, WorkTypes, Working, Trying
<1>3. CASE AfterWrite(ch)
  <2>1. job[ch] \in Items
    BY <1>0, <1>3 DEF AfterWrite, WorkTypes, Working
  <2> QED
    BY <1>0, <1>3, <2>1, NoRecordType DEF AfterWrite, ReaderGoto, WorkTypes, Working, Trying
<1>4. CASE CheckSize(ch)
  BY <1>0, <1>4, VLogConstantsOK
  DEF CheckSize, ReaderGoto, storeVars, WorkTypes, Working, Trying
<1>5. ASSUME NEW fault \in {"none"} \cup Faults, NEW partial \in {0, 1},
             Transform(ch, fault, partial)
      PROVE  WorkTypes' /\ Trying'
  <2> DEFINE new == [ch |-> ch, file |-> Len(files[ch]), off |-> size[ch],
                     at |-> real[ch], whole |-> fault # "newline"]
  <2>1. new \in Records
    <3>1. Len(files[ch]) \in Nat /\ size[ch] \in Nat /\ real[ch] \in Nat
      BY <1>0, LenProperties DEF FileTypes
    <3> QED
      BY <3>1 DEF Records
  <2>2. itd' = [itd EXCEPT ![ch] = new]
    BY <1>5 DEF Transform
  <2>3. rpc' = [rpc EXCEPT ![ch] = "stored"] /\ rpc[ch] = "transform"
        /\ UNCHANGED <<job, try, stored>>
    BY <1>5 DEF Transform, ReaderGoto, storeVars
  <2> HIDE DEF new
  <2>4. itd' \in [Items -> Records]
    BY <1>0, <2>1, <2>2 DEF WorkTypes
  <2> QED
    BY <1>0, <2>3, <2>4 DEF WorkTypes, Working, Trying
<1>6. ASSUME NEW fault \in {"none"} \cup Faults, NEW partial \in {0, 1},
             TransformFails(ch, fault, partial)
      PROVE  WorkTypes' /\ Trying'
  <2>1. try[ch] \in Nat /\ try[ch] < Tries
    BY <1>0, <1>6, VLogConstantsOK DEF TransformFails, WorkTypes, Trying
  <2>2. try[ch] + 1 \in 0..Tries
    BY <2>1, VLogConstantsOK
  <2> QED
    BY <1>0, <1>6, <2>1, <2>2
    DEF TransformFails, ReaderGoto, storeVars, WorkTypes, Working, Trying
<1> QED
  BY <1>1, <1>2, <1>3, <1>4, <1>5, <1>6 DEF ReaderStep

LEMMA CloseTypes ==
  ASSUME VLogTypeOK, NEW ch \in Items, NEW f \in DOMAIN files[ch], Close(ch, f)
  PROVE  /\ VLogTypeOK'
         /\ files' \in [Items -> Seq(Files)]
         /\ \A c \in Items : Len(files'[c]) = Len(files[c])
         /\ \A c \in Items : \A k \in 1..Len(files[c]) :
              IF c = ch /\ k = f THEN files'[c][k].state = "closed"
              ELSE files'[c][k] = files[c][k]
<1>0. FileTypes /\ CallTypes /\ WorkTypes
  BY TypesAreParts
<1> DEFINE old == [state |-> "closed", closeAt |-> 0]
           new == [files[ch] EXCEPT ![f] = old]
<1>1. old \in Files /\ old.state = "closed"
  BY DEF Files
<1>2. files[ch] \in Seq(Files) /\ f \in 1..Len(files[ch])
  BY <1>0 DEF FileTypes
<1>3. files' = [files EXCEPT ![ch] = new]
  BY DEF Close
<1>4. files[ch][f].state = "given"
  BY DEF Close
<1> HIDE DEF old
<1>5. /\ new \in Seq(Files) /\ Len(new) = Len(files[ch])
      /\ \A k \in 1..Len(files[ch]) : new[k] = IF k = f THEN old ELSE files[ch][k]
  BY <1>1, <1>2, ExceptSeq
<1> HIDE DEF new
<1>6. /\ files' \in [Items -> Seq(Files)]
      /\ files'[ch] = new /\ \A c \in Items \ {ch} : files'[c] = files[c]
  BY <1>0, <1>3, <1>5 DEF FileTypes
<1>7. UNCHANGED <<now, ttl, ttlCh, inflight, pc, to, queue, rpc, job, try, itd, size, real,
                  fresh, faults, ignored, stored, expireAt>>
  BY DEF Close, setVars, faultVars, storeVars
<1>8. \A c \in Items : Running(c) => files'[c] # <<>> /\ Last(files'[c]).state = "used"
  <2>1. CASE Running(ch)
    <3>1. files[ch] # <<>> /\ files[ch][Len(files[ch])].state = "used"
      BY <1>0, <2>1 DEF FileTypes, Last
    <3>2. f # Len(files[ch]) /\ Len(files[ch]) \in 1..Len(files[ch])
      BY <1>2, <1>4, <3>1, EmptySeq
    <3>3. new # <<>> /\ new[Len(new)].state = "used"
      BY <1>5, <3>1, <3>2, EmptySeq
    <3> QED
      BY <1>0, <1>6, <3>3 DEF FileTypes, Last
  <2>2. CASE ~Running(ch)
    BY <1>0, <1>6, <2>2 DEF FileTypes
  <2> QED
    BY <2>1, <2>2
<1>9. FileTypes'
  BY <1>0, <1>6, <1>7, <1>8 DEF FileTypes, Running
<1>10. CallTypes' /\ WorkTypes'
  BY <1>0, <1>7 DEF CallTypes, WorkTypes, Working
<1>11. VLogTypeOK'
  BY <1>9, <1>10 DEF VLogTypeOK, FileTypes, CallTypes, WorkTypes, Running, Working
<1> QED
  BY <1>1, <1>5, <1>6, <1>11

LEMMA TickTypes ==
  ASSUME VLogTypeOK, NEW t \in Times, Tick(t)
  PROVE  VLogTypeOK'
<1>0. FileTypes /\ CallTypes /\ WorkTypes
  BY TypesAreParts
<1>1. UNCHANGED <<ttl, ttlCh, inflight, pc, to, queue, rpc, job, try, itd, files, size, real,
                  fresh, faults, ignored, stored, expireAt>> /\ now' \in Times
  BY DEF Tick, setVars, readerVars, fileVars, faultVars, storeVars
<1>2. FileTypes' /\ CallTypes' /\ WorkTypes'
  BY <1>0, <1>1 DEF FileTypes, CallTypes, WorkTypes, Running, Working
<1> QED
  BY <1>2 DEF VLogTypeOK, FileTypes, CallTypes, WorkTypes, Running, Working

-------------------------------------------------------------------------------
(* The steps of callers keep the routes: a channel is chosen by seconds.   *)
LEMMA SetRoutes ==
  ASSUME VLogTypeOK, Routes, NEW i \in Items, Load(i) \/ SetStep(i)
  PROVE  Routes'
<1>0. CallTypes /\ WorkTypes
  BY TypesAreParts
<1>1. UNCHANGED <<ttl, job>>
  BY DEF Load, SetStep, Lead, Follow, Fly, Waited, Send, readerVars
<1>2. ttl[i] \in TTLs /\ Seconds(ttl[i]) \in DOMAIN ttlCh
  BY <1>0 DEF CallTypes
<1>3. PICK label \in {"do", "fly", "wait", "send", "sent"}, ch \in Items \cup {NoItem} :
        /\ pc' = [pc EXCEPT ![i] = label] /\ to' = [to EXCEPT ![i] = ch]
        /\ label \in {"wait", "send", "sent"} => ch \in Items /\ Same(i, ch)
  <2>1. CASE Load(i)
    BY <1>0, <1>2, <2>1 DEF Load, SetGoto, CallTypes, Routes, Same
  <2>2. CASE Lead(i)
    BY <2>2 DEF Lead, SetGoto
  <2>3. CASE Follow(i)
    <3>1. inflight[ttl[i]] \in Items /\ ttl[inflight[ttl[i]]] = ttl[i]
      BY <1>0, <1>2, <2>3 DEF Follow, CallTypes, Routes
    <3> QED
      BY <2>3, <3>1 DEF Follow, SetGoto, Same
  <2>4. CASE Fly(i)
    BY <2>4 DEF Fly, SetGoto, Same
  <2>5. CASE Waited(i)
    BY <1>0, <2>5 DEF Waited, SetGoto, CallTypes, Routes
  <2>6. CASE Send(i)
    BY <1>0, <2>6 DEF Send, SetGoto, CallTypes, Routes
  <2> QED
    BY <2>1, <2>2, <2>3, <2>4, <2>5, <2>6 DEF SetStep
<1>4. pc[i] # "sent" /\ (pc[i] \in {"wait", "send"} => label \in {"send", "sent"})
  <2>1. pc'[i] = label
    BY <1>0, <1>3 DEF CallTypes
  <2> QED
    BY <1>0, <2>1 DEF Load, SetStep, Lead, Follow, Fly, Waited, Send, SetGoto, CallTypes
<1>5. \A j \in Items : pc[j] = "sent" => pc'[j] = "sent"
  BY <1>0, <1>3, <1>4 DEF CallTypes
<1>6. \A s \in DOMAIN ttlCh' : ttlCh'[s] # NoItem => Seconds(ttl[ttlCh'[s]]) = s
  <2>1. ttlCh' = ttlCh \/ ttlCh' = [ttlCh EXCEPT ![Seconds(ttl[i])] = i]
    BY DEF Load, SetStep, Lead, Follow, Fly, Waited, Send
  <2>2. CASE ttlCh' = ttlCh
    BY <2>2 DEF Routes
  <2>3. CASE ttlCh' = [ttlCh EXCEPT ![Seconds(ttl[i])] = i]
    <3>1. DOMAIN ttlCh' = DOMAIN ttlCh /\ ttlCh'[Seconds(ttl[i])] = i
          /\ \A s \in DOMAIN ttlCh : s # Seconds(ttl[i]) => ttlCh'[s] = ttlCh[s]
      BY <1>2, <2>3
    <3> QED
      BY <3>1 DEF Routes
  <2> QED
    BY <2>1, <2>2, <2>3
<1>7. \A t \in TTLs : inflight'[t] # NoItem => ttl[inflight'[t]] = t
  <2>1. \/ inflight' = inflight
        \/ inflight' = [inflight EXCEPT ![ttl[i]] = i]
        \/ inflight' = [inflight EXCEPT ![ttl[i]] = NoItem]
    BY DEF Load, SetStep, Lead, Follow, Fly, Waited, Send
  <2>2. /\ DOMAIN inflight = TTLs
        /\ \A t \in TTLs : inflight[t] # NoItem => ttl[inflight[t]] = t
    BY <1>0 DEF CallTypes, Routes
  <2> QED
    BY <1>2, <2>1, <2>2
<1>8. \A j \in Items : pc'[j] \in {"wait", "send"} => Same(j, to'[j])
  BY <1>0, <1>1, <1>3 DEF CallTypes, Routes, Same
<1>9. /\ \A j \in Items : pc'[j] \in {"idle", "do", "fly"} => rpc'[j] = "none"
      /\ \A c \in Items : rpc'[c] \in {"transform", "stored", "full"} => rpc'[c] = rpc[c]
  <2>1. CASE Fly(i)
    <3>1. pc'[i] = "send" /\ rpc' = [rpc EXCEPT ![i] = "start"]
          /\ \A j \in Items \ {i} : pc'[j] = pc[j]
      BY <1>0, <2>1 DEF Fly, SetGoto, CallTypes
    <3> QED
      BY <1>0, <3>1 DEF WorkTypes, Routes
  <2>2. CASE ~Fly(i)
    <3>1. rpc' = rpc
      BY <2>2 DEF Load, SetStep, Lead, Follow, Waited, Send, readerVars
    <3>2. label \in {"idle", "do", "fly"} => pc[i] \in {"idle", "do"}
      <4>1. pc'[i] = label
        BY <1>0, <1>3 DEF CallTypes
      <4> QED
        BY <1>0, <2>2, <4>1 DEF Load, SetStep, Lead, Follow, Waited, Send, SetGoto, CallTypes
    <3> QED
      BY <1>0, <1>3, <3>1, <3>2 DEF CallTypes, Routes
  <2> QED
    BY <2>1, <2>2
<1>10. \A c \in Items : \A k \in 1..Len(queue'[c]) :
         Same(queue'[c][k], c) /\ pc'[queue'[c][k]] = "sent"
  <2>1. CASE Send(i)
    <3>1. to[i] \in Items /\ Same(i, to[i]) /\ pc'[i] = "sent"
      BY <1>0, <2>1 DEF Send, SetGoto, CallTypes, Routes
    <3>2. queue[to[i]] \in Seq(Items)
          /\ queue' = [queue EXCEPT ![to[i]] = Append(queue[to[i]], i)]
      BY <1>0, <2>1, <3>1 DEF Send, CallTypes
    <3>3. /\ Len(Append(queue[to[i]], i)) = Len(queue[to[i]]) + 1
          /\ \A k \in 1..Len(queue[to[i]]) : Append(queue[to[i]], i)[k] = queue[to[i]][k]
          /\ Append(queue[to[i]], i)[Len(queue[to[i]]) + 1] = i
      BY <3>2, AppendProperties
    <3>4. ASSUME NEW k \in 1..Len(queue[to[i]]) + 1
          PROVE  Same(Append(queue[to[i]], i)[k], to[i])
                 /\ pc'[Append(queue[to[i]], i)[k]] = "sent"
      <4>1. CASE k = Len(queue[to[i]]) + 1
        BY <3>1, <3>3, <4>1
      <4>2. CASE k # Len(queue[to[i]]) + 1
        <5>1. Len(queue[to[i]]) \in Nat
          BY <3>2, LenProperties
        <5>2. k \in 1..Len(queue[to[i]])
          BY <4>2, <5>1
        <5>3. queue[to[i]][k] \in Items
          BY <3>2, <5>2, ElementOfSeq
        <5> QED
          BY <1>5, <3>1, <3>3, <5>2, <5>3 DEF Routes
      <4> QED
        BY <4>1, <4>2
    <3>5. queue'[to[i]] = Append(queue[to[i]], i)
          /\ \A c \in Items \ {to[i]} : queue'[c] = queue[c]
      BY <1>0, <3>1, <3>2 DEF CallTypes
    <3>6. \A c \in Items : \A k \in 1..Len(queue[c]) : queue[c][k] \in Items
      BY <1>0, ElementOfSeq DEF CallTypes
    <3>7. ASSUME NEW c \in Items, NEW k \in 1..Len(queue'[c])
          PROVE  Same(queue'[c][k], c) /\ pc'[queue'[c][k]] = "sent"
      <4>1. CASE c = to[i]
        BY <3>3, <3>4, <3>5, <4>1
      <4>2. CASE c # to[i]
        BY <1>5, <3>5, <3>6, <4>2 DEF Routes
      <4> QED
        BY <4>1, <4>2
    <3> QED
      BY <3>7
  <2>2. CASE ~Send(i)
    <3>1. queue' = queue
      BY <2>2 DEF Load, SetStep, Lead, Follow, Fly, Waited
    <3>2. \A c \in Items : \A k \in 1..Len(queue[c]) : queue[c][k] \in Items
      BY <1>0, ElementOfSeq DEF CallTypes
    <3> QED
      BY <1>5, <3>1, <3>2 DEF Routes
  <2> QED
    BY <2>1, <2>2
<1>11. \A c \in Items : rpc'[c] \in {"transform", "stored", "full"} =>
         Same(job'[c], c) /\ pc'[job'[c]] = "sent"
  BY <1>0, <1>1, <1>5, <1>9 DEF WorkTypes, Routes, Working
<1> QED
  BY <1>1, <1>6, <1>7, <1>8, <1>9, <1>10, <1>11 DEF Routes, Same, Working

LEMMA ReaderRoutes ==
  ASSUME VLogTypeOK, Routes, NEW ch \in Items, ReaderStep(ch)
  PROVE  Routes'
<1>0. CallTypes /\ WorkTypes
  BY TypesAreParts
<1>1. UNCHANGED <<ttl, ttlCh, inflight, pc, to>>
  BY DEF ReaderStep, Start, Receive, AfterWrite, CheckSize, Transform, TransformFails, setVars
<1>2. /\ rpc[ch] # "none"
      /\ \A c \in Items \ {ch} : rpc'[c] = rpc[c] /\ job'[c] = job[c] /\ queue'[c] = queue[c]
  BY <1>0 DEF ReaderStep, Start, Receive, AfterWrite, CheckSize, Transform, TransformFails,
              ReaderGoto, WorkTypes, CallTypes
<1>3. /\ \A k \in 1..Len(queue'[ch]) : Same(queue'[ch][k], ch) /\ pc[queue'[ch][k]] = "sent"
      /\ rpc'[ch] \in {"transform", "stored", "full"} =>
           Same(job'[ch], ch) /\ pc[job'[ch]] = "sent"
  <2>1. CASE Receive(ch)
    <3>1. queue[ch] \in Seq(Items) /\ queue[ch] # <<>>
      BY <1>0, <2>1 DEF Receive, CallTypes
    <3>2. /\ Len(queue[ch]) \in Nat \ {0}
          /\ Len(Tail(queue[ch])) = Len(queue[ch]) - 1
          /\ \A k \in 1..Len(Tail(queue[ch])) : Tail(queue[ch])[k] = queue[ch][k + 1]
          /\ Head(queue[ch]) = queue[ch][1]
      BY <3>1, HeadTailProperties, EmptySeq
    <3>3. queue'[ch] = Tail(queue[ch]) /\ job'[ch] = Head(queue[ch])
      BY <1>0, <2>1 DEF Receive, CallTypes, WorkTypes
    <3> QED
      BY <3>2, <3>3 DEF Routes
  <2>2. CASE ~Receive(ch)
    <3>1. queue' = queue
      BY <2>2 DEF ReaderStep, Start, AfterWrite, CheckSize, Transform, TransformFails
    <3>2. rpc'[ch] \in {"transform", "stored", "full"} =>
            rpc[ch] \in {"transform", "stored", "full"} /\ job' = job
      BY <1>0, <2>2 DEF ReaderStep, Start, AfterWrite, CheckSize, Transform, TransformFails,
                        ReaderGoto, WorkTypes
    <3> QED
      BY <3>1, <3>2 DEF Routes, Working
  <2> QED
    BY <2>1, <2>2
<1>4. pc[ch] \notin {"idle", "do", "fly"}
  BY <1>2 DEF Routes
<1>5. /\ \A i \in Items : pc[i] \in {"idle", "do", "fly"} => rpc'[i] = "none"
      /\ \A c \in Items : \A k \in 1..Len(queue'[c]) :
           Same(queue'[c][k], c) /\ pc[queue'[c][k]] = "sent"
      /\ \A c \in Items : rpc'[c] \in {"transform", "stored", "full"} =>
           Same(job'[c], c) /\ pc[job'[c]] = "sent"
  BY <1>2, <1>3, <1>4 DEF Routes, Working
<1> QED
  BY <1>1, <1>5 DEF Routes, Same, Working

LEMMA OtherRoutes ==
  ASSUME Routes, UNCHANGED <<ttl, ttlCh, inflight, pc, to, queue, rpc, job>>
  PROVE  Routes'
BY DEF Routes, Same, Working

-------------------------------------------------------------------------------
(* Records stay where they are while files are added and faults noted.     *)
LEMMA InFileStays ==
  ASSUME \A c \in Items : Len(files'[c]) >= Len(files[c]),
         \A c \in Items : Len(files[c]) \in Nat /\ Len(files'[c]) \in Nat,
         ignored \subseteq ignored'
  PROVE  \A r : InFile(r) => LiesIn(r, files', ignored')
<1> SUFFICES ASSUME NEW r, InFile(r) PROVE LiesIn(r, files', ignored')
  OBVIOUS
<1>1. r.ch \in Items /\ r.file \in 1..Len(files[r.ch])
  BY DEF InFile, LiesIn
<1>2. Len(files'[r.ch]) >= Len(files[r.ch]) /\ Len(files[r.ch]) \in Nat
      /\ Len(files'[r.ch]) \in Nat
  BY <1>1
<1>3. r.file \in 1..Len(files'[r.ch])
  BY <1>1, <1>2
<1> QED
  BY <1>1, <1>3 DEF InFile, LiesIn

LEMMA SetPlaced ==
  ASSUME VLogTypeOK, Routes, Placed, NEW i \in Items, Load(i) \/ SetStep(i)
  PROVE  Placed'
<1>0. CallTypes /\ WorkTypes
  BY TypesAreParts
<1>1. UNCHANGED <<ttl, itd, files, size, real, ignored, stored>>
  BY DEF Load, SetStep, Lead, Follow, Fly, Waited, Send, readerVars, fileVars, faultVars, storeVars
<1>2. \/ rpc' = rpc
      \/ rpc' = [rpc EXCEPT ![i] = "start"] /\ pc[i] = "fly"
  BY DEF Load, SetStep, Lead, Follow, Fly, Waited, Send, readerVars
<1>3. \A c \in Items : /\ rpc'[c] \in {"none", "start"} => rpc[c] \in {"none", "start"}
                       /\ rpc'[c] = "stored" => rpc[c] = "stored"
  BY <1>0, <1>2 DEF WorkTypes, Routes
<1>4. \A j \in Items : pc'[j] = "idle" => pc[j] = "idle"
  BY <1>0 DEF Load, SetStep, Lead, Follow, Fly, Waited, Send, SetGoto, CallTypes
<1> QED
  BY <1>1, <1>3, <1>4 DEF Placed, InFile, LiesIn, Same, Running

(* The files after a step of a reader: none is lost, and where the current *)
(* one ends is known unless a failure in it was ignored.                   *)
LEMMA ReaderFiles ==
  ASSUME VLogTypeOK, Placed, NEW ch \in Items, ReaderStep(ch)
  PROVE  /\ files'[ch] # <<>> => Running(ch)'
         /\ \A c \in Items \ {ch} : /\ files'[c] = files[c]
                                    /\ size'[c] = size[c] /\ real'[c] = real[c]
         /\ \A c \in Items : Len(files'[c]) >= Len(files[c])
         /\ \A c \in Items : Len(files[c]) \in Nat /\ Len(files'[c]) \in Nat
         /\ ignored \subseteq ignored'
         /\ \A x \in ignored' : x \in ignored \/ x = <<ch, Len(files'[ch])>>
         /\ <<ch, Len(files'[ch])>> \notin ignored' => size'[ch] = real'[ch]
<1>0. FileTypes /\ WorkTypes
  BY TypesAreParts
<1>1. \A c \in Items : Len(files[c]) \in Nat /\ Len(files'[c]) \in Nat
  BY <1>0, ReaderFileTypes, LenProperties DEF FileTypes
<1>2. CASE Start(ch)
  <2>1. /\ NewFile(ch, <<>>) /\ rpc' = [rpc EXCEPT ![ch] = "receive"] /\ UNCHANGED ignored
        /\ rpc[ch] = "start"
    BY <1>2 DEF Start, ReaderGoto, faultVars
  <2>2. PICK fs \in Seq(Files) : fs = <<>>
    BY EmptySeq
  <2>3. NewFile(ch, fs)
    BY <2>1, <2>2
  <2>4. /\ \A c \in Items \ {ch} :
             files'[c] = files[c] /\ size'[c] = size[c] /\ real'[c] = real[c]
        /\ size'[ch] = 0 /\ real'[ch] = 0
    BY <2>3, NewFileIs
  <2>5. Len(files[ch]) = 0
    BY <2>1, EmptySeq DEF Placed, Running
  <2>6. \A c \in Items : Len(files'[c]) >= Len(files[c])
    <3>1. ASSUME NEW c \in Items \ {ch} PROVE Len(files'[c]) = Len(files[c])
      BY <2>4, Zenon
    <3>2. Len(files'[ch]) >= Len(files[ch])
      BY <1>1, <2>5
    <3> QED
      BY <1>1, <3>1, <3>2
  <2>7. rpc'[ch] = "receive"
    BY <1>0, <2>1 DEF WorkTypes
  <2> QED
    BY <1>1, <2>1, <2>4, <2>6, <2>7 DEF Running
<1>3. CASE Receive(ch) \/ AfterWrite(ch) \/ CheckSize(ch)
           \/ \E fault \in Faults, partial \in {0, 1} : TransformFails(ch, fault, partial)
  <2>1. FilesStep(ch) /\ Running(ch) /\ UNCHANGED ignored
    BY <1>0, <1>3 DEF Receive, AfterWrite, CheckSize, TransformFails, FilesStep, Running,
                      faultVars
  <2>2. rpc'[ch] \notin {"none", "start"}
    BY <1>0, <1>3 DEF Receive, AfterWrite, CheckSize, TransformFails, ReaderGoto, WorkTypes
  <2> QED
    BY <1>1, <2>1, <2>2, FilesStepIs DEF Running
<1>4. CASE \E fault \in {"none"} \cup Faults, partial \in {0, 1} : Transform(ch, fault, partial)
  <2> PICK fault \in {"none"} \cup Faults, partial \in {0, 1} : Transform(ch, fault, partial)
    BY <1>4
  <2>1. UNCHANGED files /\ rpc'[ch] = "stored"
    BY <1>0 DEF Transform, ReaderGoto, WorkTypes
  <2>2. /\ size'[ch] = size[ch] + Grown[fault]
        /\ real'[ch] = real[ch] + Grown[fault] + partial
        /\ \A c \in Items \ {ch} : size'[c] = size[c] /\ real'[c] = real[c]
    BY <1>0 DEF Transform, Appended, FileTypes
  <2>3. \/ fault = "none" /\ partial = 0 /\ ignored' = ignored
        \/ ignored' = ignored \cup {<<ch, Len(files[ch])>>}
    BY DEF Transform, faultVars
  <2>4. <<ch, Len(files[ch])>> \notin ignored' => size'[ch] = real'[ch]
    <3>1. size[ch] \in Nat /\ real[ch] \in Nat
      BY <1>0 DEF FileTypes
    <3>2. Grown["none"] \in Nat
      BY DEF Grown
    <3> QED
      BY <2>2, <2>3, <3>1, <3>2 DEF Placed
  <2> QED
    BY <1>1, <2>1, <2>2, <2>3, <2>4 DEF Running
<1> QED
  BY <1>2, <1>3, <1>4 DEF ReaderStep, TransformFails, Fail

LEMMA ReaderPlaced ==
  ASSUME VLogTypeOK, Routes, Placed, NEW ch \in Items, ReaderStep(ch)
  PROVE  Placed'
<1>0. FileTypes /\ WorkTypes /\ CallTypes
  BY TypesAreParts
<1>1. /\ files'[ch] # <<>> => Running(ch)'
      /\ \A c \in Items \ {ch} : /\ files'[c] = files[c]
                                 /\ size'[c] = size[c] /\ real'[c] = real[c]
      /\ \A c \in Items : Len(files'[c]) >= Len(files[c])
      /\ \A c \in Items : Len(files[c]) \in Nat /\ Len(files'[c]) \in Nat
      /\ ignored \subseteq ignored'
      /\ \A x \in ignored' : x \in ignored \/ x = <<ch, Len(files'[ch])>>
      /\ <<ch, Len(files'[ch])>> \notin ignored' => size'[ch] = real'[ch]
  BY ReaderFiles
<1>2. /\ UNCHANGED <<ttl, pc>>
      /\ \A c \in Items \ {ch} : rpc'[c] = rpc[c] /\ itd'[c] = itd[c]
  BY <1>0 DEF ReaderStep, Start, Receive, AfterWrite, CheckSize, Transform, TransformFails,
              ReaderGoto, WorkTypes, setVars
<1>3. \A c \in Items : ~Running(c)' => files'[c] = <<>>
  BY <1>1, <1>2 DEF Placed, Running
<1>4. \A x \in ignored' : x[2] <= Len(files'[x[1]])
  <2> SUFFICES ASSUME NEW x \in ignored' PROVE x[2] <= Len(files'[x[1]])
    OBVIOUS
  <2>1. CASE x \in ignored
    <3>1. x[1] \in Items /\ x[2] \in Nat /\ x[2] <= Len(files[x[1]])
      BY <1>0, <2>1 DEF FileTypes, Placed
    <3> QED
      BY <1>1, <3>1
  <2>2. CASE x = <<ch, Len(files'[ch])>>
    BY <1>1, <2>2
  <2> QED
    BY <1>1, <2>1, <2>2
<1>5. \A c \in Items : <<c, Len(files'[c])>> \notin ignored' => size'[c] = real'[c]
  BY <1>1 DEF Placed
<1>6. \A r : InFile(r) => LiesIn(r, files', ignored')
  BY <1>1, InFileStays
<1>7. ASSUME NEW c \in Items, rpc'[c] = "stored"
      PROVE  itd'[c].ch = c /\ itd'[c].file = Len(files'[c])
             /\ LiesIn(itd'[c], files', ignored')
  <2>1. CASE c = ch
    <3>1. PICK fault \in {"none"} \cup Faults, partial \in {0, 1} : Transform(ch, fault, partial)
      BY <1>0, <1>7, <2>1
      DEF ReaderStep, Start, Receive, AfterWrite, CheckSize, TransformFails, ReaderGoto, WorkTypes
    <3> DEFINE new == [ch |-> ch, file |-> Len(files[ch]), off |-> size[ch],
                       at |-> real[ch], whole |-> fault # "newline"]
    <3>2. itd'[ch] = new /\ UNCHANGED files /\ Running(ch)
      BY <1>0, <3>1 DEF Transform, WorkTypes, Running
    <3>3. new.ch = ch /\ new.file = Len(files[ch]) /\ new.off = size[ch] /\ new.at = real[ch]
          /\ new.whole = (fault # "newline")
      OBVIOUS
    <3> HIDE DEF new
    <3>4. Len(files[ch]) \in 1..Len(files[ch])
      BY <1>0, <3>2, EmptySeq DEF FileTypes
    <3>5. <<ch, Len(files[ch])>> \notin ignored' => size[ch] = real[ch] /\ fault # "newline"
      BY <3>1 DEF Placed, Transform, faultVars
    <3> QED
      BY <2>1, <3>2, <3>3, <3>4, <3>5 DEF LiesIn
  <2>2. CASE c # ch
    BY <1>1, <1>2, <1>6, <1>7, <2>2 DEF Placed
  <2> QED
    BY <2>1, <2>2
<1>8. \A i \in Items : stored'[i] # NoRecord =>
        \/ stored'[i] = stored[i]
        \/ AfterWrite(ch) /\ i = job[ch] /\ stored'[i] = itd[ch]
  BY <1>0 DEF ReaderStep, Start, Receive, AfterWrite, CheckSize, Transform, TransformFails,
              storeVars, WorkTypes
<1>9. AfterWrite(ch) => /\ rpc[ch] = "stored" /\ Same(job[ch], ch) /\ pc[job[ch]] = "sent"
                        /\ itd[ch].ch = ch /\ InFile(itd[ch])
  BY DEF AfterWrite, Routes, Placed, Working
<1>10. \A i \in Items : stored'[i] # NoRecord =>
         LiesIn(stored'[i], files', ignored') /\ Same(i, stored'[i].ch)
  BY <1>6, <1>8, <1>9 DEF Placed
<1>11. \A i \in Items : pc[i] = "idle" => stored'[i] = NoRecord
  BY <1>8, <1>9 DEF Placed
<1> QED
  BY <1>2, <1>3, <1>4, <1>5, <1>7, <1>10, <1>11 DEF Placed, Same, InFile

-------------------------------------------------------------------------------
(* A goroutine that closes a file, and time, move no record.               *)
LEMMA OtherPlaced ==
  ASSUME VLogTypeOK, Placed,
         UNCHANGED <<ttl, pc, rpc, itd, size, real, ignored, stored>>,
         files' \in [Items -> Seq(Files)],
         \A c \in Items : Len(files'[c]) = Len(files[c])
  PROVE  Placed'
<1>0. FileTypes
  BY TypesAreParts
<1>1. \A c \in Items : Len(files[c]) \in Nat /\ Len(files'[c]) \in Nat
  BY <1>0, LenProperties DEF FileTypes
<1>2. \A r : InFile(r) => LiesIn(r, files', ignored')
  BY <1>1, InFileStays
<1>3. \A c \in Items : files[c] = <<>> => files'[c] = <<>>
  BY <1>0, EmptySeq DEF FileTypes
<1>4. \A x \in ignored' : x[2] <= Len(files'[x[1]])
  BY <1>0 DEF FileTypes, Placed
<1>5. \A c \in Items : rpc[c] = "stored" =>
        itd[c].ch = c /\ itd[c].file = Len(files'[c]) /\ LiesIn(itd[c], files', ignored')
  BY <1>2 DEF Placed
<1>6. \A i \in Items : stored[i] # NoRecord =>
        LiesIn(stored[i], files', ignored') /\ Same(i, stored[i].ch)
  BY <1>2 DEF Placed
<1>7. \A c \in Items : <<c, Len(files'[c])>> \notin ignored' => size[c] = real[c]
  BY DEF Placed
<1> QED
  BY <1>3, <1>4, <1>5, <1>6, <1>7 DEF Placed, Running, Same, InFile

LEMMA VLogNextInv ==
  ASSUME VInv, [VLogNext]_vlogVars
  PROVE  VInv'
<1> USE DEF VInv
<1>1. CASE \E i \in Items : Load(i) \/ SetStep(i)
  <2> PICK i \in Items : Load(i) \/ SetStep(i)
    BY <1>1
  <2>1. VLogTypeOK' /\ Routes' /\ Placed'
    BY SetTypes, SetRoutes, SetPlaced
  <2>2. Trying'
    <3>1. try' = try
      BY DEF Load, SetStep, Lead, Follow, Fly, Waited, Send, readerVars
    <3>2. \/ rpc' = rpc
          \/ rpc' = [rpc EXCEPT ![i] = "start"] /\ pc[i] = "fly"
      BY DEF Load, SetStep, Lead, Follow, Fly, Waited, Send, readerVars
    <3>3. rpc \in [Items -> {"none", "start", "receive", "transform", "stored", "full"}]
          /\ (pc[i] = "fly" => rpc[i] = "none")
      BY DEF VLogTypeOK, Routes
    <3> QED
      BY <3>1, <3>2, <3>3 DEF Trying
  <2> QED
    BY <2>1, <2>2
<1>2. CASE \E ch \in Items : ReaderStep(ch)
  <2> PICK ch \in Items : ReaderStep(ch)
    BY <1>2
  <2>1. FileTypes' /\ CallTypes' /\ WorkTypes' /\ Trying'
    BY ReaderCallTypes, ReaderFileTypes, ReaderWorkTypes
  <2>2. VLogTypeOK'
    BY <2>1 DEF VLogTypeOK, FileTypes, CallTypes, WorkTypes, Running, Working
  <2> QED
    BY <2>1, <2>2, ReaderRoutes, ReaderPlaced
<1>3. CASE \E ch \in Items : \E f \in DOMAIN files[ch] : Close(ch, f)
  <2> PICK ch \in Items : \E f \in DOMAIN files[ch] : Close(ch, f)
    BY <1>3
  <2> PICK f \in DOMAIN files[ch] : Close(ch, f)
    OBVIOUS
  <2>1. VLogTypeOK' /\ files' \in [Items -> Seq(Files)]
        /\ \A c \in Items : Len(files'[c]) = Len(files[c])
    BY CloseTypes
  <2>2. UNCHANGED <<ttl, ttlCh, inflight, pc, to, queue, rpc, job, try, itd, size, real,
                    ignored, stored>>
    BY DEF Close, setVars, faultVars, storeVars
  <2>3. Trying'
    BY <2>2 DEF Trying
  <2> QED
    BY <2>1, <2>2, <2>3, OtherRoutes, OtherPlaced
<1>4. CASE \E t \in Times : Tick(t)
  <2> PICK t \in Times : Tick(t)
    BY <1>4
  <2>1. UNCHANGED <<ttl, ttlCh, inflight, pc, to, queue, rpc, job, try, itd, files, size, real,
                    ignored, stored>>
    BY DEF Tick, setVars, readerVars, fileVars, faultVars, storeVars
  <2>2. files' \in [Items -> Seq(Files)] /\ \A c \in Items : Len(files'[c]) = Len(files[c])
    BY <2>1 DEF VLogTypeOK
  <2>3. Trying'
    BY <2>1 DEF Trying
  <2> QED
    BY <2>1, <2>2, <2>3, TickTypes, OtherRoutes, OtherPlaced
<1>5. CASE UNCHANGED vlogVars
  <2>1. UNCHANGED <<now, ttl, ttlCh, inflight, pc, to, queue, rpc, job, try, itd, files, size,
                    real, fresh, faults, ignored, stored, expireAt>>
    BY <1>5 DEF vlogVars, setVars, readerVars, fileVars, faultVars, storeVars
  <2>2. VLogTypeOK'
    BY <2>1 DEF VLogTypeOK
  <2>3. files' \in [Items -> Seq(Files)] /\ \A c \in Items : Len(files'[c]) = Len(files[c])
    BY <2>1 DEF VLogTypeOK
  <2>4. Trying'
    BY <2>1 DEF Trying
  <2> QED
    BY <2>1, <2>2, <2>3, <2>4, OtherRoutes, OtherPlaced
<1> QED
  BY <1>1, <1>2, <1>3, <1>4, <1>5 DEF VLogNext

(* Every state is of the types VLog gives, and the invariant behind the    *)
(* other theorems holds: the reader of a channel always has a file it may  *)
(* write to, also after the failures of all tries, and an item at work     *)
(* (vlog.go, reader).                                                      *)
THEOREM VLogTypes == VLogSpec => []VLogTypeOK
<1>1. VLogInit => VInv
  BY VLogInitInv
<1>2. VInv /\ [VLogNext]_vlogVars => VInv'
  BY VLogNextInv
<1>3. VInv => VLogTypeOK
  BY DEF VInv
<1> QED
  BY <1>1, <1>2, <1>3, PTL DEF VLogSpec

(* A record the store refers to begins where the index says and has its    *)
(* blank line, unless a failed write of its file was ignored (vfile.go,    *)
(* Write; vlog.go, transform): the size the index takes an offset from     *)
(* and the end of the file part only in files that are given up at once.   *)
THEOREM RecordsWhole == VLogSpec => []RecordsIntact
<1>1. VLogInit => VInv
  BY VLogInitInv
<1>2. VInv /\ [VLogNext]_vlogVars => VInv'
  BY VLogNextInv
<1>3. VInv => RecordsIntact
  BY DEF VInv, Placed, InFile, LiesIn, RecordsIntact
<1> QED
  BY <1>1, <1>2, <1>3, PTL DEF VLogSpec

-------------------------------------------------------------------------------
(* Numbers of Lives are numbers.                                           *)
LEMMA LivesNumbers ==
  ASSUME VInv
  PROVE  /\ now \in Nat
         /\ \A i \in Items : expireAt[i] \in Nat /\ ttl[i] \in TTLs
         /\ \A t \in TTLs : t \in Nat /\ Linger(t) \in Nat
         /\ \A i \in Items : stored[i] # NoRecord =>
              /\ stored[i].ch \in Items /\ Seconds(ttl[i]) = Seconds(ttl[stored[i].ch])
              /\ stored[i].file \in 1..Len(files[stored[i].ch])
              /\ FileOf(stored[i]).closeAt \in Nat
<1>1. now \in Nat /\ \A t \in TTLs : t \in Nat /\ Linger(t) \in Nat
  BY LingerNat, Numbers, VLogConstantsOK DEF VInv
<1>2. \A i \in Items : expireAt[i] \in Nat /\ ttl[i] \in TTLs
  BY DEF VInv, VLogTypeOK
<1>3. ASSUME NEW i \in Items, stored[i] # NoRecord
      PROVE  /\ stored[i].ch \in Items /\ Seconds(ttl[i]) = Seconds(ttl[stored[i].ch])
             /\ stored[i].file \in 1..Len(files[stored[i].ch])
             /\ FileOf(stored[i]).closeAt \in Nat
  <2>1. /\ stored[i].ch \in Items /\ Seconds(ttl[i]) = Seconds(ttl[stored[i].ch])
        /\ stored[i].file \in 1..Len(files[stored[i].ch])
    BY <1>3 DEF VInv, Placed, InFile, LiesIn, Same
  <2>2. FileOf(stored[i]) \in Files
    <3>1. files[stored[i].ch] \in Seq(Files)
      BY <2>1 DEF VInv, VLogTypeOK
    <3> QED
      BY <2>1, <3>1, ElementOfSeq DEF FileOf
  <2> QED
    BY <2>1, <2>2 DEF Files
<1> QED
  BY <1>1, <1>2, <1>3

LEMMA LivesInit ==
  ASSUME VLogInit PROVE Lives
<1>1. ASSUME NEW t \in TTLs PROVE 0 < Linger(t)
  BY LingerNat, VLogConstantsOK
<1> QED
  BY <1>1, VLogConstantsOK, LingerNat DEF VLogInit, Lives

(* Files that are as they were, or given up now, or new, later than before. *)
LEMMA LivesKept ==
  ASSUME VInv, Lives, NEW ch \in Items, UNCHANGED <<now, ttl>>,
         \A i \in Items : \A t \in TTLs :
           Seconds(t) = Seconds(ttl[i]) => expireAt'[i] < now + Linger(t),
         \A i \in Items : stored'[i] # NoRecord =>
           \/ stored'[i] = stored[i] /\ expireAt'[i] = expireAt[i]
           \/ /\ stored'[i].ch \in Items
              /\ files'[stored'[i].ch][stored'[i].file].state = "used",
         \A c \in Items \ {ch} : files'[c] = files[c],
         \A f \in 1..Len(files[ch]) :
           \/ files'[ch][f] = files[ch][f]
           \/ files'[ch][f] = [state |-> "given", closeAt |-> now + Linger(ttl[ch])]
  PROVE  Lives'
<1>1. ASSUME NEW i \in Items, stored'[i] # NoRecord
      PROVE  LET file == files'[stored'[i].ch][stored'[i].file] IN
             /\ file.state = "given" => expireAt'[i] < file.closeAt
             /\ file.state = "closed" => expireAt'[i] < now
  <2>1. CASE stored'[i] = stored[i] /\ expireAt'[i] = expireAt[i]
    <3>0. stored[i] # NoRecord
      BY <1>1, <2>1
    <3> DEFINE r == stored[i]
    <3>1. /\ r.ch \in Items /\ r.file \in 1..Len(files[r.ch])
          /\ Seconds(ttl[i]) = Seconds(ttl[r.ch]) /\ ttl[r.ch] \in TTLs
      BY <3>0, LivesNumbers
    <3>2. /\ files[r.ch][r.file].state = "given" => expireAt[i] < files[r.ch][r.file].closeAt
          /\ files[r.ch][r.file].state = "closed" => expireAt[i] < now
      BY <3>0 DEF Lives, FileOf
    <3>3. expireAt[i] < now + Linger(ttl[r.ch])
      BY <3>1 DEF Lives
    <3>4. \/ files'[r.ch][r.file] = files[r.ch][r.file]
          \/ files'[r.ch][r.file] = [state |-> "given", closeAt |-> now + Linger(ttl[r.ch])]
      BY <3>1
    <3> QED
      BY <2>1, <3>2, <3>3, <3>4
  <2>2. CASE files'[stored'[i].ch][stored'[i].file].state = "used"
    BY <2>2
  <2> QED
    BY <1>1, <2>1, <2>2
<1>2. \A t : Seconds(t)' = Seconds(t) /\ Linger(t)' = Linger(t)
  BY DEF Seconds, Linger
<1> QED
  BY <1>1, <1>2 DEF Lives, FileOf

LEMMA LivesNext ==
  ASSUME FilesLinger, VInv, VInv', Lives, [VLogNext]_vlogVars
  PROVE  Lives'
<1>0. FileTypes /\ CallTypes /\ WorkTypes
  BY TypesAreParts DEF VInv
<1>1. ASSUME NEW i \in Items, Load(i) \/ SetStep(i) PROVE Lives'
  <2>1. UNCHANGED <<now, ttl, files, stored>>
    BY <1>1 DEF Load, SetStep, Lead, Follow, Fly, Waited, Send, readerVars, fileVars, storeVars
  <2>2. \/ expireAt' = expireAt
        \/ expireAt' = [expireAt EXCEPT ![i] = now + ttl[i]] /\ stored[i] = NoRecord
    BY <1>1 DEF Load, SetStep, Lead, Follow, Fly, Waited, Send, storeVars, VInv, Placed
  <2>3. \A t \in TTLs : Seconds(t) = Seconds(ttl[i]) => now + ttl[i] < now + Linger(t)
    BY LivesNumbers DEF FilesLinger
  <2>4. \A j \in Items : \A t \in TTLs :
          Seconds(t) = Seconds(ttl[j]) => expireAt'[j] < now + Linger(t)
    BY <1>0, <2>2, <2>3 DEF Lives, CallTypes
  <2>5. \A j \in Items : stored'[j] # NoRecord =>
          stored'[j] = stored[j] /\ expireAt'[j] = expireAt[j]
    BY <1>0, <2>1, <2>2 DEF CallTypes
  <2> QED
    BY <2>1, <2>4, <2>5, LivesKept
<1>2. ASSUME NEW ch \in Items, ReaderStep(ch) PROVE Lives'
  <2>1. UNCHANGED <<now, ttl>>
    BY <1>2 DEF ReaderStep, Start, Receive, AfterWrite, CheckSize, Transform, TransformFails
  <2>2. /\ \A c \in Items \ {ch} : files'[c] = files[c]
        /\ \A f \in 1..Len(files[ch]) :
             \/ files'[ch][f] = files[ch][f]
             \/ files'[ch][f] = [state |-> "given", closeAt |-> now + Linger(ttl[ch])]
    <3>1. CASE FilesStep(ch) /\ Running(ch) /\ UNCHANGED ignored
      BY <3>1, FilesStepIs DEF VInv
    <3>2. CASE files' = files
      BY <3>2
    <3>3. CASE Start(ch)
      <4>1. files[ch] = <<>> /\ Len(files[ch]) = 0
        BY <3>3, EmptySeq DEF Start, VInv, Placed, Running
      <4>2. \A c \in Items \ {ch} : files'[c] = files[c]
        BY <1>2, ReaderFiles DEF VInv
      <4>3. 1..Len(files[ch]) = {}
        BY <4>1
      <4> QED
        BY <4>2, <4>3
    <3> QED
      BY <1>2, <3>1, <3>2, <3>3
      DEF ReaderStep, Receive, AfterWrite, CheckSize, Transform, TransformFails, FilesStep,
          Running, fileVars, faultVars
  <2>3. CASE AfterWrite(ch)
    <3>1. rpc[ch] = "stored" /\ job[ch] \in Items /\ Seconds(ttl[job[ch]]) = Seconds(ttl[ch])
      BY <1>0, <2>3 DEF AfterWrite, WorkTypes, Working, VInv, Routes, Same
    <3>2. itd[ch].ch = ch /\ itd[ch].file = Len(files[ch])
      BY <3>1 DEF VInv, Placed
    <3>3. files' = files /\ files[ch][Len(files[ch])].state = "used"
      BY <1>0, <2>3, <3>1 DEF AfterWrite, fileVars, FileTypes, Running, Last
    <3>4. /\ stored' = [stored EXCEPT ![job[ch]] = itd[ch]]
          /\ expireAt' \in {expireAt, [expireAt EXCEPT ![job[ch]] = now + ttl[ch]]}
      BY <2>3 DEF AfterWrite
    <3>5. \A t \in TTLs : Seconds(t) = Seconds(ttl[job[ch]]) => now + ttl[ch] < now + Linger(t)
      BY <3>1, LivesNumbers DEF FilesLinger
    <3>6. \A i \in Items : \A t \in TTLs :
            Seconds(t) = Seconds(ttl[i]) => expireAt'[i] < now + Linger(t)
      BY <1>0, <3>4, <3>5 DEF Lives, CallTypes
    <3>7. \A i \in Items :
            \/ stored'[i] = stored[i] /\ expireAt'[i] = expireAt[i]
            \/ stored'[i] = itd[ch]
      BY <1>0, <3>1, <3>4 DEF CallTypes, WorkTypes
    <3>8. files'[itd[ch].ch][itd[ch].file].state = "used" /\ itd[ch].ch \in Items
      BY <3>2, <3>3
    <3>9. \A i \in Items : stored'[i] # NoRecord =>
            \/ stored'[i] = stored[i] /\ expireAt'[i] = expireAt[i]
            \/ /\ stored'[i].ch \in Items
               /\ files'[stored'[i].ch][stored'[i].file].state = "used"
      BY <3>7, <3>8
    <3> QED
      BY <2>1, <2>2, <3>6, <3>9, LivesKept
  <2>4. CASE ~AfterWrite(ch)
    <3>1. UNCHANGED <<stored, expireAt>>
      BY <1>2, <2>4
      DEF ReaderStep, Start, Receive, CheckSize, Transform, TransformFails, storeVars
    <3>2. \A i \in Items : \A t \in TTLs :
            Seconds(t) = Seconds(ttl[i]) => expireAt'[i] < now + Linger(t)
      BY <3>1 DEF Lives
    <3> QED
      BY <2>1, <2>2, <3>1, <3>2, LivesKept
  <2> QED
    BY <2>3, <2>4
<1>3. ASSUME NEW ch \in Items, NEW f \in DOMAIN files[ch], Close(ch, f) PROVE Lives'
  <2>1. UNCHANGED <<now, ttl, stored, expireAt>>
        /\ files[ch][f].state = "given" /\ now >= files[ch][f].closeAt
    BY <1>3 DEF Close, storeVars
  <2>2. \A c \in Items : \A k \in 1..Len(files[c]) :
          IF c = ch /\ k = f THEN files'[c][k].state = "closed"
          ELSE files'[c][k] = files[c][k]
    BY <1>3, CloseTypes DEF VInv
  <2>3. ASSUME NEW i \in Items, stored[i] # NoRecord
        PROVE  LET file == files'[stored[i].ch][stored[i].file] IN
               /\ file.state = "given" => expireAt[i] < file.closeAt
               /\ file.state = "closed" => expireAt[i] < now
    <3>1. /\ stored[i].ch \in Items /\ stored[i].file \in 1..Len(files[stored[i].ch])
          /\ FileOf(stored[i]).closeAt \in Nat /\ expireAt[i] \in Nat /\ now \in Nat
      BY <2>3, LivesNumbers
    <3>2. /\ FileOf(stored[i]).state = "given" => expireAt[i] < FileOf(stored[i]).closeAt
          /\ FileOf(stored[i]).state = "closed" => expireAt[i] < now
      BY <2>3 DEF Lives
    <3>3. CASE stored[i].ch = ch /\ stored[i].file = f
      BY <2>1, <2>2, <3>1, <3>2, <3>3 DEF FileOf
    <3>4. CASE ~(stored[i].ch = ch /\ stored[i].file = f)
      BY <2>2, <3>1, <3>2, <3>4 DEF FileOf
    <3> QED
      BY <3>3, <3>4
  <2> QED
    BY <2>1, <2>3 DEF Lives, FileOf, Seconds, Linger
<1>4. ASSUME NEW t \in Times, Tick(t) PROVE Lives'
  <2>1. UNCHANGED <<ttl, files, stored, expireAt>> /\ now' \in Nat /\ now' > now
    BY <1>4, VLogConstantsOK DEF Tick, readerVars, fileVars, storeVars
  <2>2. \A i \in Items : \A u \in TTLs :
          Seconds(u) = Seconds(ttl[i]) => expireAt[i] < now' + Linger(u)
    BY <2>1, LivesNumbers DEF Lives
  <2>3. \A i \in Items : stored[i] # NoRecord =>
          /\ FileOf(stored[i]).state = "given" => expireAt[i] < FileOf(stored[i]).closeAt
          /\ FileOf(stored[i]).state = "closed" => expireAt[i] < now'
    BY <2>1, LivesNumbers DEF Lives
  <2> QED
    BY <2>1, <2>2, <2>3 DEF Lives, FileOf, Seconds, Linger
<1>5. ASSUME UNCHANGED vlogVars PROVE Lives'
  <2>1. UNCHANGED <<now, ttl, files, stored, expireAt>>
    BY <1>5 DEF vlogVars, readerVars, fileVars, storeVars
  <2> QED
    BY <2>1 DEF Lives, FileOf, Seconds, Linger
<1> QED
  BY <1>1, <1>2, <1>3, <1>4, <1>5 DEF VLogNext

(* While a record has not expired the file it lies in can be read, for     *)
(* every reader and whatever else happens, if a file given up outlives the *)
(* longest ttl its reader is sent (vfile.go, AutoExpire).  It does when    *)
(* every ttl is of four seconds or more (LongTTLsLinger): then the quarter *)
(* AutoExpire adds covers what lies behind the point of the seconds by     *)
(* which VLog.Set chooses the reader.                                      *)
THEOREM RecordsReadable ==
  ASSUME FilesLinger
  PROVE  VLogSpec => []UnexpiredReadable
<1>1. VLogInit => VInv /\ Lives
  BY VLogInitInv, LivesInit
<1>2. VInv /\ Lives /\ [VLogNext]_vlogVars => (VInv /\ Lives)'
  BY VLogNextInv, LivesNext
<1>3. VInv /\ Lives => UnexpiredReadable
  <2> SUFFICES ASSUME VInv, Lives, NEW i \in Items, stored[i] # NoRecord, now <= expireAt[i]
               PROVE  FileOf(stored[i]).state # "closed"
    BY DEF UnexpiredReadable, FileOf
  <2>1. now \in Nat /\ expireAt[i] \in Nat
    BY LivesNumbers
  <2> QED
    BY <2>1 DEF Lives
<1> QED
  BY <1>1, <1>2, <1>3, PTL DEF VLogSpec
-------------------------------------------------------------------------------
(* What an item at the end of a queue, or its first, changes of it.        *)
LEMMA AppendContains ==
  ASSUME NEW q \in Seq(Items), NEW x \in Items
  PROVE  /\ \A j : Contains(Append(q, x), j) <=> Contains(q, j) \/ j = x
         /\ IsInjective(q) /\ ~Contains(q, x) => IsInjective(Append(q, x))
<1>1. /\ Len(q) \in Nat /\ Len(Append(q, x)) = Len(q) + 1
      /\ DOMAIN q = 1..Len(q) /\ DOMAIN Append(q, x) = 1..Len(q) + 1
      /\ \A k \in 1..Len(q) : Append(q, x)[k] = q[k]
      /\ Append(q, x)[Len(q) + 1] = x
  BY AppendProperties, LenProperties
<1> DEFINE r == Append(q, x)
<1> HIDE DEF r
<1>2. \A j : Contains(r, j) <=> Contains(q, j) \/ j = x
  <2> SUFFICES ASSUME NEW j PROVE Contains(r, j) <=> Contains(q, j) \/ j = x
    OBVIOUS
  <2>1. ASSUME Contains(r, j) PROVE Contains(q, j) \/ j = x
    <3>1. PICK k \in 1..Len(r) : r[k] = j
      BY <2>1 DEF Contains
    <3> QED
      BY <1>1, <3>1 DEF Contains, r
  <2>2. ASSUME Contains(q, j) PROVE Contains(r, j)
    <3>1. PICK k \in 1..Len(q) : q[k] = j
      BY <2>2 DEF Contains
    <3>2. k \in 1..Len(r) /\ r[k] = j
      BY <1>1, <3>1 DEF r
    <3> QED
      BY <3>2 DEF Contains
  <2>3. Contains(r, x)
    <3>1. Len(q) + 1 \in 1..Len(r) /\ r[Len(q) + 1] = x
      BY <1>1 DEF r
    <3> QED
      BY <3>1 DEF Contains
  <2> QED
    BY <2>1, <2>2, <2>3
<1>3. ASSUME IsInjective(q), ~Contains(q, x) PROVE IsInjective(r)
  <2> SUFFICES ASSUME NEW a \in DOMAIN r, NEW b \in DOMAIN r, r[a] = r[b] PROVE a = b
    BY DEF IsInjective
  <2>1. \A k \in 1..Len(q) : q[k] # x
    BY <1>3 DEF Contains
  <2>2. \A c, d \in 1..Len(q) : q[c] = q[d] => c = d
    BY <1>1, <1>3 DEF IsInjective
  <2>3. /\ a \in 1..Len(q) \/ a = Len(q) + 1
        /\ b \in 1..Len(q) \/ b = Len(q) + 1
    BY <1>1 DEF r
  <2> QED
    BY <1>1, <2>1, <2>2, <2>3 DEF r
<1> QED
  BY <1>2, <1>3 DEF r

LEMMA TailContains ==
  ASSUME NEW q \in Seq(Items), q # <<>>, IsInjective(q)
  PROVE  /\ Contains(q, Head(q)) /\ ~Contains(Tail(q), Head(q))
         /\ \A j : Contains(Tail(q), j) => Contains(q, j)
         /\ IsInjective(Tail(q))
<1>1. /\ Len(q) \in Nat \ {0} /\ Len(Tail(q)) = Len(q) - 1
      /\ DOMAIN q = 1..Len(q) /\ DOMAIN Tail(q) = 1..Len(q) - 1
      /\ \A k \in 1..Len(q) - 1 : Tail(q)[k] = q[k + 1]
      /\ Head(q) = q[1]
  BY HeadTailProperties, EmptySeq, LenProperties
<1>2. \A a, b \in 1..Len(q) : q[a] = q[b] => a = b
  BY <1>1 DEF IsInjective
<1>3. \A k \in 1..Len(q) - 1 : k + 1 \in 1..Len(q) /\ k + 1 # 1
  BY <1>1
<1>4. Contains(q, Head(q)) /\ ~Contains(Tail(q), Head(q))
  BY <1>1, <1>2, <1>3 DEF Contains
<1>5. \A j : Contains(Tail(q), j) => Contains(q, j)
  BY <1>1, <1>3 DEF Contains
<1>6. IsInjective(Tail(q))
  <2> SUFFICES ASSUME NEW a \in 1..Len(q) - 1, NEW b \in 1..Len(q) - 1, Tail(q)[a] = Tail(q)[b]
               PROVE  a = b
    BY <1>1 DEF IsInjective
  <2>1. a + 1 = b + 1
    BY <1>1, <1>2, <1>3
  <2> QED
    BY <1>1, <2>1
<1> QED
  BY <1>4, <1>5, <1>6

-------------------------------------------------------------------------------
(* A channel that a Set finds, waits for or has chosen has a reader, or    *)
(* the leader that will start one.                                         *)
Opened ==
  /\ \A s \in DOMAIN ttlCh : ttlCh[s] # NoItem => rpc[ttlCh[s]] # "none"
  /\ \A t \in TTLs : inflight[t] # NoItem => pc[inflight[t]] = "fly"
  /\ \A i \in Items : pc[i] = "wait" => pc[to[i]] = "fly" \/ rpc[to[i]] # "none"
  /\ \A i \in Items : pc[i] \in {"send", "sent"} => to[i] \in Items /\ rpc[to[i]] # "none"

(* What waits was sent and is not stored yet; a reader that waits has no   *)
(* item, and what it has is not in its queue as well.                      *)
Due ==
  /\ \A i, ch \in Items : Waiting(ch, i) => pc[i] = "sent" /\ to[i] = ch /\ stored[i] = NoRecord
  /\ \A i \in Items : stored[i] # NoRecord => pc[i] = "sent"
  /\ \A ch \in Items : ~Working(ch) => job[ch] = NoItem
  /\ \A ch \in Items : job[ch] \in Items => ~Contains(queue[ch], job[ch])
  /\ \A ch \in Items : IsInjective(queue[ch])

LEMMA SetOpened ==
  ASSUME VLogTypeOK, Routes, Opened, NEW i \in Items, Load(i) \/ SetStep(i)
  PROVE  Opened'
<1>0. CallTypes /\ WorkTypes
  BY TypesAreParts
<1>1. ttl[i] \in TTLs /\ Seconds(ttl[i]) \in DOMAIN ttlCh
  BY <1>0 DEF CallTypes
<1>2. CASE Load(i)
  <2>1. /\ UNCHANGED <<ttlCh, inflight, rpc>> /\ pc[i] = "idle"
        /\ \/ pc' = [pc EXCEPT ![i] = "do"] /\ to' = [to EXCEPT ![i] = NoItem]
           \/ /\ pc' = [pc EXCEPT ![i] = "send"]
              /\ to' = [to EXCEPT ![i] = ttlCh[Seconds(ttl[i])]]
              /\ ttlCh[Seconds(ttl[i])] # NoItem
    BY <1>2 DEF Load, SetGoto, readerVars
  <2> DEFINE found == ttlCh[Seconds(ttl[i])]
  <2>2. found # NoItem => found \in Items /\ rpc[found] # "none"
    BY <1>0, <1>1 DEF Opened, CallTypes
  <2>3. \A j \in Items \ {i} : pc'[j] = pc[j] /\ to'[j] = to[j]
    BY <1>0, <2>1 DEF CallTypes
  <2>4. /\ pc'[i] \in {"do", "send"}
        /\ pc'[i] = "send" => to'[i] = found /\ found # NoItem
    BY <1>0, <2>1 DEF CallTypes
  <2> HIDE DEF found
  <2>5. \A t \in TTLs : inflight[t] # NoItem => inflight[t] \in Items \ {i}
    BY <1>0, <2>1 DEF Opened, CallTypes
  <2>6. \A j \in Items : pc[j] = "wait" => to[j] \in Items
    BY <1>0 DEF CallTypes
  <2>7. \A t \in TTLs : inflight'[t] # NoItem => pc'[inflight'[t]] = "fly"
    BY <2>1, <2>3, <2>5 DEF Opened
  <2>8. \A j \in Items : pc'[j] = "wait" => pc'[to'[j]] = "fly" \/ rpc'[to'[j]] # "none"
    BY <2>1, <2>3, <2>4, <2>6 DEF Opened
  <2>9. \A j \in Items : pc'[j] \in {"send", "sent"} => to'[j] \in Items /\ rpc'[to'[j]] # "none"
    BY <2>1, <2>2, <2>3, <2>4 DEF Opened
  <2> QED
    BY <2>1, <2>7, <2>8, <2>9 DEF Opened
<1>3. CASE Lead(i)
  <2>1. /\ UNCHANGED <<ttlCh, rpc>> /\ pc[i] = "do"
        /\ inflight' = [inflight EXCEPT ![ttl[i]] = i]
        /\ pc' = [pc EXCEPT ![i] = "fly"] /\ to' = [to EXCEPT ![i] = i]
    BY <1>3 DEF Lead, SetGoto, readerVars
  <2> QED
    BY <1>0, <1>1, <2>1 DEF Opened, CallTypes
<1>4. CASE Follow(i)
  <2>1. /\ UNCHANGED <<ttlCh, inflight, rpc>> /\ pc[i] = "do" /\ inflight[ttl[i]] # NoItem
        /\ pc' = [pc EXCEPT ![i] = "wait"] /\ to' = [to EXCEPT ![i] = inflight[ttl[i]]]
    BY <1>4 DEF Follow, SetGoto, readerVars
  <2> QED
    BY <1>0, <1>1, <2>1 DEF Opened, CallTypes
<1>5. CASE Fly(i)
  <2>1. /\ pc[i] = "fly" /\ rpc' = [rpc EXCEPT ![i] = "start"]
        /\ ttlCh' = [ttlCh EXCEPT ![Seconds(ttl[i])] = i]
        /\ inflight' = [inflight EXCEPT ![ttl[i]] = NoItem]
        /\ pc' = [pc EXCEPT ![i] = "send"] /\ to' = [to EXCEPT ![i] = i]
    BY <1>5 DEF Fly, SetGoto
  <2>2. \A c \in Items : rpc[c] # "none" \/ c = i => rpc'[c] # "none"
    BY <1>0, <2>1 DEF WorkTypes
  <2>3. \A t \in TTLs : inflight'[t] # NoItem => inflight'[t] = inflight[t] /\ inflight[t] # i
    BY <1>0, <2>1 DEF CallTypes, Routes
  <2>4. \A s \in DOMAIN ttlCh' : ttlCh'[s] # NoItem => rpc'[ttlCh'[s]] # "none"
    BY <1>0, <2>1, <2>2 DEF CallTypes, Opened
  <2>5. \A t \in TTLs : inflight'[t] # NoItem => pc'[inflight'[t]] = "fly"
    BY <1>0, <2>1, <2>3 DEF CallTypes, Opened
  <2>6. \A j \in Items : pc'[j] = "wait" => pc'[to'[j]] = "fly" \/ rpc'[to'[j]] # "none"
    BY <1>0, <2>1, <2>2 DEF CallTypes, Opened
  <2>7. \A j \in Items : pc'[j] \in {"send", "sent"} => to'[j] \in Items /\ rpc'[to'[j]] # "none"
    BY <1>0, <2>1, <2>2 DEF CallTypes, Opened
  <2> QED
    BY <2>4, <2>5, <2>6, <2>7 DEF Opened
<1>6. CASE Waited(i)
  <2>1. /\ UNCHANGED <<ttlCh, inflight, rpc>> /\ pc[i] = "wait" /\ pc[to[i]] # "fly"
        /\ pc' = [pc EXCEPT ![i] = "send"] /\ to' = [to EXCEPT ![i] = to[i]]
    BY <1>6 DEF Waited, SetGoto, readerVars
  <2> QED
    BY <1>0, <1>1, <2>1 DEF Opened, CallTypes
<1>7. CASE Send(i)
  <2>1. /\ UNCHANGED <<ttlCh, inflight, rpc>> /\ pc[i] = "send"
        /\ pc' = [pc EXCEPT ![i] = "sent"] /\ to' = [to EXCEPT ![i] = to[i]]
    BY <1>7 DEF Send, SetGoto, readerVars
  <2> QED
    BY <1>0, <1>1, <2>1 DEF Opened, CallTypes
<1> QED
  BY <1>2, <1>3, <1>4, <1>5, <1>6, <1>7 DEF SetStep

LEMMA SetDue ==
  ASSUME VLogTypeOK, Routes, Due, NEW i \in Items, Load(i) \/ SetStep(i)
  PROVE  Due'
<1>0. CallTypes /\ WorkTypes /\ NoItem \notin Items
  BY TypesAreParts, VLogConstantsOK
<1>1. UNCHANGED <<job, stored>>
  BY DEF Load, SetStep, Lead, Follow, Fly, Waited, Send, readerVars, storeVars
<1>2. \/ rpc' = rpc
      \/ rpc' = [rpc EXCEPT ![i] = "start"] /\ pc[i] = "fly"
  BY DEF Load, SetStep, Lead, Follow, Fly, Waited, Send, readerVars
<1>3. \A c \in Items : Working(c)' <=> Working(c)
  BY <1>0, <1>2 DEF Working, Routes, WorkTypes
<1>4. \A c \in Items : rpc'[c] \in {"transform", "stored"} <=> rpc[c] \in {"transform", "stored"}
  BY <1>0, <1>2 DEF Routes, WorkTypes
<1>5. pc[i] # "sent" /\ \A j \in Items \ {i} : pc'[j] = pc[j] /\ to'[j] = to[j]
  BY <1>0 DEF Load, SetStep, Lead, Follow, Fly, Waited, Send, SetGoto, CallTypes
<1>6. /\ \A j \in Items : stored'[j] # NoRecord => pc'[j] = "sent"
      /\ \A c \in Items : ~Working(c)' => job'[c] = NoItem
  BY <1>1, <1>3, <1>5 DEF Due
<1>7. \A c \in Items : job[c] # i
  <2> SUFFICES ASSUME NEW c \in Items, job[c] = i PROVE FALSE
    OBVIOUS
  <2>1. Working(c)
    BY <1>0 DEF Due
  <2> QED
    BY <1>5, <2>1 DEF Routes
<1>8. CASE Send(i)
  <2>1. /\ queue' = [queue EXCEPT ![to[i]] = Append(@, i)] /\ to[i] \in Items
        /\ pc'[i] = "sent" /\ to'[i] = to[i]
    BY <1>0, <1>8 DEF Send, SetGoto, CallTypes
  <2>2. queue[to[i]] \in Seq(Items) /\ ~Contains(queue[to[i]], i)
    BY <1>0, <1>5, <2>1 DEF CallTypes, Due, Waiting
  <2>3. /\ \A c \in Items \ {to[i]} : queue'[c] = queue[c]
        /\ \A j : Contains(queue'[to[i]], j) <=> Contains(queue[to[i]], j) \/ j = i
        /\ IsInjective(queue'[to[i]])
    <3>1. queue'[to[i]] = Append(queue[to[i]], i) /\ \A c \in Items \ {to[i]} : queue'[c] = queue[c]
      BY <1>0, <2>1 DEF CallTypes
    <3>2. IsInjective(queue[to[i]])
      BY <2>1 DEF Due
    <3> QED
      BY <2>2, <3>1, <3>2, AppendContains
  <2>4. \A j, c \in Items : Waiting(c, j)' => Waiting(c, j) \/ (j = i /\ c = to[i])
    BY <1>1, <1>4, <2>3 DEF Waiting
  <2>5. \A j, c \in Items : Waiting(c, j)' => pc'[j] = "sent" /\ to'[j] = c /\ stored'[j] = NoRecord
    BY <1>1, <1>5, <2>1, <2>4 DEF Due
  <2>6. \A c \in Items : job'[c] \in Items => ~Contains(queue'[c], job'[c])
    BY <1>1, <1>7, <2>3 DEF Due
  <2>7. \A c \in Items : IsInjective(queue'[c])
    BY <2>3 DEF Due
  <2> QED
    BY <1>6, <2>5, <2>6, <2>7 DEF Due
<1>9. CASE ~Send(i)
  <2>1. queue' = queue
    BY <1>9 DEF Load, SetStep, Lead, Follow, Fly, Waited
  <2>2. \A j, c \in Items : Waiting(c, j)' <=> Waiting(c, j)
    BY <1>1, <1>4, <2>1 DEF Waiting
  <2>3. \A j, c \in Items : Waiting(c, j)' => pc'[j] = "sent" /\ to'[j] = c /\ stored'[j] = NoRecord
    BY <1>1, <1>5, <2>2 DEF Due
  <2> QED
    BY <1>1, <1>6, <2>1, <2>3 DEF Due
<1> QED
  BY <1>8, <1>9

LEMMA ReaderOpened ==
  ASSUME VLogTypeOK, Opened, NEW ch \in Items, ReaderStep(ch)
  PROVE  Opened'
<1>0. CallTypes /\ WorkTypes
  BY TypesAreParts
<1>1. UNCHANGED <<ttlCh, inflight, pc, to>>
  BY DEF ReaderStep, Start, Receive, AfterWrite, CheckSize, Transform, TransformFails, setVars
<1>2. \E l \in {"receive", "transform", "stored", "full"} : rpc' = [rpc EXCEPT ![ch] = l]
  BY DEF ReaderStep, Start, Receive, AfterWrite, CheckSize, Transform, TransformFails, ReaderGoto
<1>3. \A c \in Items : rpc[c] # "none" => rpc'[c] # "none"
  BY <1>0, <1>2 DEF WorkTypes
<1>4. \A s \in DOMAIN ttlCh : ttlCh[s] \in Items \cup {NoItem}
  BY <1>0 DEF CallTypes
<1>5. \A i \in Items : pc[i] = "wait" => to[i] \in Items
  BY <1>0 DEF CallTypes
<1> QED
  BY <1>1, <1>3, <1>4, <1>5 DEF Opened

(* A reader takes the first item of its queue when it has none, keeps it   *)
(* for every try, and stores its record before it takes another.           *)
LEMMA ReaderDue ==
  ASSUME VLogTypeOK, Routes, Due, NEW ch \in Items, ReaderStep(ch)
  PROVE  Due'
<1>0. CallTypes /\ WorkTypes /\ NoItem \notin Items
  BY TypesAreParts, VLogConstantsOK
<1>1. UNCHANGED <<pc, to>>
  BY DEF ReaderStep, Start, Receive, AfterWrite, CheckSize, Transform, TransformFails, setVars
<1>2. \E l \in {"receive", "transform", "stored", "full"} : rpc' = [rpc EXCEPT ![ch] = l]
  BY DEF ReaderStep, Start, Receive, AfterWrite, CheckSize, Transform, TransformFails, ReaderGoto
<1>3. \A c \in Items \ {ch} : rpc'[c] = rpc[c] /\ (Working(c)' <=> Working(c))
  BY <1>0, <1>2 DEF Working, WorkTypes
<1>4. CASE Receive(ch)
  <2> DEFINE x == Head(queue[ch])
  <2>1. /\ rpc[ch] = "receive" /\ queue[ch] # <<>> /\ rpc' = [rpc EXCEPT ![ch] = "transform"]
        /\ job' = [job EXCEPT ![ch] = x] /\ queue' = [queue EXCEPT ![ch] = Tail(@)]
        /\ stored' = stored
    BY <1>4 DEF Receive, ReaderGoto, storeVars
  <2>2. queue[ch] \in Seq(Items) /\ IsInjective(queue[ch])
    BY <1>0 DEF CallTypes, Due
  <2>3. /\ Contains(queue[ch], x) /\ ~Contains(Tail(queue[ch]), x)
        /\ \A j : Contains(Tail(queue[ch]), j) => Contains(queue[ch], j)
        /\ IsInjective(Tail(queue[ch]))
    BY <2>1, <2>2, TailContains
  <2>4. x \in Items
    BY <2>1, <2>2, HeadTailProperties
  <2> HIDE DEF x
  <2>5. /\ queue'[ch] = Tail(queue[ch]) /\ job'[ch] = x /\ rpc'[ch] = "transform"
        /\ \A c \in Items \ {ch} : queue'[c] = queue[c] /\ job'[c] = job[c]
    BY <1>0, <2>1 DEF CallTypes, WorkTypes
  <2>6. \A i, c \in Items : Waiting(c, i)' => Waiting(c, i)
    BY <1>3, <2>3, <2>5 DEF Waiting
  <2>7. \A i, c \in Items : Waiting(c, i)' => pc'[i] = "sent" /\ to'[i] = c /\ stored'[i] = NoRecord
    BY <1>1, <2>1, <2>6 DEF Due
  <2>8. \A c \in Items : ~Working(c)' => job'[c] = NoItem
    BY <1>3, <2>5 DEF Due, Working
  <2>9. \A c \in Items : /\ job'[c] \in Items => ~Contains(queue'[c], job'[c])
                         /\ IsInjective(queue'[c])
    BY <2>3, <2>5 DEF Due
  <2>10. \A i \in Items : stored'[i] # NoRecord => pc'[i] = "sent"
    BY <1>1, <2>1 DEF Due
  <2> QED
    BY <2>7, <2>8, <2>9, <2>10 DEF Due
<1>5. CASE AfterWrite(ch)
  <2>1. /\ rpc[ch] = "stored" /\ rpc' = [rpc EXCEPT ![ch] = "full"]
        /\ stored' = [stored EXCEPT ![job[ch]] = itd[ch]] /\ UNCHANGED <<queue, job>>
    BY <1>5 DEF AfterWrite, ReaderGoto
  <2>2. job[ch] \in Items /\ pc[job[ch]] = "sent" /\ Waiting(ch, job[ch])
    BY <1>0, <2>1 DEF WorkTypes, Working, Routes, Waiting
  <2>3. to[job[ch]] = ch /\ ~Contains(queue[ch], job[ch])
    BY <2>2 DEF Due
  <2>4. rpc'[ch] = "full" /\ \A i \in Items \ {job[ch]} : stored'[i] = stored[i]
    BY <1>0, <2>1 DEF WorkTypes
  <2>5. \A i, c \in Items : Waiting(c, i)' => Waiting(c, i) /\ i # job[ch]
    <3> SUFFICES ASSUME NEW i \in Items, NEW c \in Items, Waiting(c, i)'
                 PROVE  Waiting(c, i) /\ i # job[ch]
      OBVIOUS
    <3>1. Waiting(c, i) /\ (c = ch => Contains(queue[ch], i))
      BY <1>3, <2>1, <2>4 DEF Waiting
    <3>2. to[i] = c
      BY <3>1 DEF Due
    <3> QED
      BY <2>3, <3>1, <3>2
  <2>6. \A i, c \in Items : Waiting(c, i)' => pc'[i] = "sent" /\ to'[i] = c /\ stored'[i] = NoRecord
    BY <1>1, <2>4, <2>5 DEF Due
  <2>7. \A i \in Items : stored'[i] # NoRecord => pc'[i] = "sent"
    BY <1>1, <2>2, <2>4 DEF Due
  <2>8. \A c \in Items : ~Working(c)' => job'[c] = NoItem
    BY <1>3, <2>1, <2>4 DEF Due, Working
  <2> QED
    BY <2>1, <2>6, <2>7, <2>8 DEF Due
<1>6. CASE CheckSize(ch)
  <2>1. /\ rpc' = [rpc EXCEPT ![ch] = "receive"] /\ job' = [job EXCEPT ![ch] = NoItem]
        /\ UNCHANGED <<queue, stored>>
    BY <1>6 DEF CheckSize, ReaderGoto, storeVars
  <2>2. /\ rpc'[ch] = "receive" /\ job'[ch] = NoItem
        /\ \A c \in Items \ {ch} : job'[c] = job[c]
    BY <1>0, <2>1 DEF WorkTypes
  <2>3. \A i, c \in Items : Waiting(c, i)' => Waiting(c, i)
    BY <1>3, <2>1, <2>2 DEF Waiting
  <2>4. \A i, c \in Items : Waiting(c, i)' => pc'[i] = "sent" /\ to'[i] = c /\ stored'[i] = NoRecord
    BY <1>1, <2>1, <2>3 DEF Due
  <2>5. \A c \in Items : ~Working(c)' => job'[c] = NoItem
    BY <1>3, <2>2 DEF Due
  <2>6. \A c \in Items : job'[c] \in Items => ~Contains(queue'[c], job'[c])
    BY <1>0, <2>1, <2>2 DEF Due
  <2> QED
    BY <1>1, <2>1, <2>4, <2>5, <2>6 DEF Due
<1>7. CASE Start(ch) \/ \E fault \in {"none"} \cup Faults, partial \in {0, 1} :
             Transform(ch, fault, partial) \/ TransformFails(ch, fault, partial)
  <2>1. /\ UNCHANGED <<queue, job, stored>>
        /\ \/ rpc[ch] = "start" /\ rpc' = [rpc EXCEPT ![ch] = "receive"]
           \/ /\ rpc[ch] = "transform"
              /\ \E l \in {"transform", "stored", "full"} : rpc' = [rpc EXCEPT ![ch] = l]
    BY <1>7 DEF Start, Transform, TransformFails, ReaderGoto, storeVars
  <2>2. /\ Working(ch)' <=> Working(ch)
        /\ rpc'[ch] \in {"transform", "stored"} => rpc[ch] \in {"transform", "stored"}
    BY <1>0, <2>1 DEF Working, WorkTypes
  <2>3. \A i, c \in Items : Waiting(c, i)' => Waiting(c, i)
    BY <1>3, <2>1, <2>2 DEF Waiting
  <2>4. \A i, c \in Items : Waiting(c, i)' => pc'[i] = "sent" /\ to'[i] = c /\ stored'[i] = NoRecord
    BY <1>1, <2>1, <2>3 DEF Due
  <2>5. \A c \in Items : ~Working(c)' => job'[c] = NoItem
    BY <1>3, <2>1, <2>2 DEF Due
  <2> QED
    BY <1>1, <2>1, <2>4, <2>5 DEF Due
<1> QED
  BY <1>4, <1>5, <1>6, <1>7 DEF ReaderStep

LEMMA OpenedDueNext ==
  ASSUME VInv, Opened, Due, [VLogNext]_vlogVars
  PROVE  Opened' /\ Due'
<1>1. VLogTypeOK /\ Routes
  BY DEF VInv
<1>2. ASSUME NEW i \in Items, Load(i) \/ SetStep(i) PROVE Opened' /\ Due'
  BY <1>1, <1>2, SetOpened, SetDue
<1>3. ASSUME NEW ch \in Items, ReaderStep(ch) PROVE Opened' /\ Due'
  BY <1>1, <1>3, ReaderOpened, ReaderDue
<1>4. ASSUME UNCHANGED <<ttlCh, inflight, pc, to, queue, rpc, job, stored>>
      PROVE  Opened' /\ Due'
  BY <1>4 DEF Opened, Due, Waiting, Working
<1>5. ASSUME NEW ch \in Items, NEW f \in DOMAIN files[ch], Close(ch, f) PROVE Opened' /\ Due'
  BY <1>4, <1>5 DEF Close, setVars, storeVars
<1>6. ASSUME NEW t \in Times, Tick(t) PROVE Opened' /\ Due'
  BY <1>4, <1>6 DEF Tick, setVars, readerVars, storeVars
<1>7. ASSUME UNCHANGED vlogVars PROVE Opened' /\ Due'
  BY <1>4, <1>7 DEF vlogVars, setVars, readerVars, storeVars
<1> QED
  BY <1>2, <1>3, <1>5, <1>6, <1>7 DEF VLogNext

(* An item that was sent waits once, in one channel, which has a reader,   *)
(* or is at work there, until its record is stored: none is stored twice   *)
(* and none is left where nobody reads, although two first calls for one   *)
(* ttl may make two channels and a write is tried again (vlog.go, Set and  *)
(* reader).                                                                *)
THEOREM ItemsTakenOnce == VLogSpec => []TakenOnce
<1>1. VLogInit => VInv /\ Opened /\ Due
  <2> SUFFICES ASSUME VLogInit PROVE Opened /\ Due
    BY VLogInitInv
  <2>1. \A j : ~Contains(<<>>, j)
    BY DEF Contains
  <2>2. IsInjective(<<>>)
    BY DEF IsInjective
  <2>3. Opened
    BY DEF VLogInit, Opened
  <2>4. \A i, ch \in Items : ~Waiting(ch, i)
    BY <2>1 DEF VLogInit, Waiting
  <2> QED
    BY <2>1, <2>2, <2>3, <2>4 DEF VLogInit, Due
<1>2. VInv /\ Opened /\ Due /\ [VLogNext]_vlogVars => (VInv /\ Opened /\ Due)'
  BY VLogNextInv, OpenedDueNext
<1>3. VInv /\ Opened /\ Due => TakenOnce
  <2> SUFFICES ASSUME Opened, Due PROVE TakenOnce
    OBVIOUS
  <2>1. \A i \in Items : pc[i] \in {"send", "sent"} => rpc[to[i]] # "none"
    BY DEF Opened
  <2>2. \A i, ch \in Items : job[ch] = i => ~Contains(queue[ch], i)
    BY DEF Due
  <2> QED
    BY <2>1, <2>2 DEF Due, TakenOnce
<1> QED
  BY <1>1, <1>2, <1>3, PTL DEF VLogSpec
===============================================================================
