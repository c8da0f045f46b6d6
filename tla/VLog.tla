--------------------------------- MODULE VLog ---------------------------------
(***************************************************************************)
(* lsm/vlog.go and lsm/vfile.go: the value log.  VLog.Set looks up the     *)
(* channel of the item's TTL or makes one, with its reader goroutine,      *)
(* under a single flight.  The reader appends each item to its current     *)
(* file and has the record stored (afterWrite); it changes files when one  *)
(* expires, is full or fails.  A file that was given up stays readable     *)
(* until its records have expired.                                         *)
(*                                                                         *)
(* Each item is passed to Set once, under a key of its own, by a goroutine *)
(* of its own; a channel and its reader are named by the item whose Set    *)
(* made them.  Time is counted in units of 1/Second.  A reader's current   *)
(* file is the last of its files; the content of that file is abstracted   *)
(* to where VFile.size says its end is and where it really is; each part   *)
(* of a record is one long.                                                *)
(***************************************************************************)
EXTENDS Integers, Sequences, SequencesExt

CONSTANTS
  Items, NoItem,
  TTLs, Second,   \* the ttl arguments of Set, and one second, in units of time
  Grace,          \* the 5 seconds a file outlives its last write and the ttl
  MaxWaiting,     \* maxWaiting (1 hour)
  MaxFileSize,    \* defaultMaxFileSize
  Faults,         \* the parts of a record whose writes may fail
  Tries,          \* how often a record is tried (3)
  MaxFaults,      \* bound: how many writes fail
  Times           \* bound: the moments looked at, 0 among them

Parts == {"head", "newline", "body", "mark"}

ASSUME VLogConstantsOK ==
  /\ NoItem \notin Items /\ TTLs \subseteq Nat \ {0} /\ Second \in Nat \ {0}
  /\ Grace \in Nat /\ MaxWaiting \in Nat /\ MaxFileSize \in Nat
  /\ Tries \in Nat \ {0} /\ MaxFaults \in Nat /\ Times \subseteq Nat /\ 0 \in Times
  /\ Faults \subseteq Parts

VARIABLES
  now, ttl,       \* the time; the ttl each item is passed with
  ttlCh, inflight,    \* vl.ttlCh: seconds -> channel; vl.inflight: ttl -> leader
  pc, to,         \* per item: where its Set is, the channel it sends to
  queue,          \* per channel: its content
  rpc, job, try, itd, \* per reader: control, item, attempt and record in hand
  files,          \* per reader: the files it has made
  size, real, fresh,  \* per reader: its current file's size, end and expireAt
  faults, ignored,    \* history: how many writes have failed; the files in
                  \* which one failed and was ignored
  stored, expireAt    \* per item: the record in the store, and its expiry

setVars    == <<ttlCh, inflight, pc, to>>
fileVars   == <<files, size, real, fresh>>
faultVars  == <<faults, ignored>>
readerVars == <<rpc, job, try, itd, fileVars, faultVars>>
storeVars  == <<stored, expireAt>>
vlogVars   == <<now, ttl, setVars, queue, readerVars, storeVars>>

Seconds(t) == t \div Second
NoRecord == [ch |-> NoItem, file |-> 0, off |-> 0, at |-> 0, whole |-> FALSE]

VLogInit ==
  /\ now = 0
  /\ ttl \in [Items -> TTLs]
  /\ ttlCh = [s \in {Seconds(t) : t \in TTLs} |-> NoItem]
  /\ inflight = [t \in TTLs |-> NoItem]
  /\ pc = [i \in Items |-> "idle"]
  /\ to = [i \in Items |-> NoItem]
  /\ queue = [i \in Items |-> <<>>]
  /\ rpc = [i \in Items |-> "none"]
  /\ job = [i \in Items |-> NoItem]
  /\ try = [i \in Items |-> 0]
  /\ itd = [i \in Items |-> NoRecord]
  /\ files = [i \in Items |-> <<>>]
  /\ size = [i \in Items |-> 0]
  /\ real = [i \in Items |-> 0]
  /\ fresh = [i \in Items |-> 0]
  /\ faults = 0
  /\ ignored = {}
  /\ stored = [i \in Items |-> NoRecord]
  /\ expireAt = [i \in Items |-> 0]

-----------------------------------------------------------------------------
(* VLog.Set                                                                *)

SetGoto(i, label, ch) ==
  /\ pc' = [pc EXCEPT ![i] = label]
  /\ to' = [to EXCEPT ![i] = ch]

(* LSM.Set has stored the item itself just before.                         *)
Load(i) ==
  LET ch == ttlCh[Seconds(ttl[i])] IN
  /\ pc[i] = "idle"
  /\ IF ch = NoItem THEN SetGoto(i, "do", NoItem) ELSE SetGoto(i, "send", ch)
  /\ expireAt' = [expireAt EXCEPT ![i] = now + ttl[i]]
  /\ UNCHANGED <<now, ttl, ttlCh, inflight, queue, readerVars, stored>>

(* The single flight is keyed by the exact ttl, the table by its seconds.  *)
Lead(i) ==
  /\ pc[i] = "do" /\ inflight[ttl[i]] = NoItem
  /\ inflight' = [inflight EXCEPT ![ttl[i]] = i]
  /\ SetGoto(i, "fly", i)
  /\ UNCHANGED <<now, ttl, ttlCh, queue, readerVars, storeVars>>

Follow(i) ==
  /\ pc[i] = "do" /\ inflight[ttl[i]] # NoItem
  /\ SetGoto(i, "wait", inflight[ttl[i]])
  /\ UNCHANGED <<now, ttl, ttlCh, inflight, queue, readerVars, storeVars>>

(* What the leader's function does, and the end of the flight.             *)
FlyKeepsFirst(i) ==     \* mutant: the reader is started for the first channel only
  LET s == Seconds(ttl[i]) IN
  /\ pc[i] = "fly"
  /\ ttlCh' = [ttlCh EXCEPT ![s] = i]
  /\ rpc' = IF ttlCh[s] = NoItem THEN [rpc EXCEPT ![i] = "start"] ELSE rpc
  /\ inflight' = [inflight EXCEPT ![ttl[i]] = NoItem]
  /\ SetGoto(i, "send", i)
  /\ UNCHANGED <<now, ttl, queue, job, try, itd, fileVars, faultVars, storeVars>>

Fly(i) ==
  /\ pc[i] = "fly"
  /\ ttlCh' = [ttlCh EXCEPT ![Seconds(ttl[i])] = i]
  /\ rpc' = [rpc EXCEPT ![i] = "start"]
  /\ inflight' = [inflight EXCEPT ![ttl[i]] = NoItem]
  /\ SetGoto(i, "send", i)
  /\ UNCHANGED <<now, ttl, queue, job, try, itd, fileVars, faultVars, storeVars>>

Waited(i) ==
  /\ pc[i] = "wait" /\ pc[to[i]] # "fly"
  /\ SetGoto(i, "send", to[i])
  /\ UNCHANGED <<now, ttl, ttlCh, inflight, queue, readerVars, storeVars>>

(* The channel holds 100000: it is never full here.                        *)
Send(i) ==
  /\ pc[i] = "send"
  /\ queue' = [queue EXCEPT ![to[i]] = Append(@, i)]
  /\ SetGoto(i, "sent", to[i])
  /\ UNCHANGED <<now, ttl, ttlCh, inflight, readerVars, storeVars>>

SetStep(i) ==
  Lead(i) \/ Follow(i) \/ Fly(i) \/ Waited(i) \/ Send(i)

-----------------------------------------------------------------------------
(* Files                                                                   *)

(* How long after AutoExpire a file is closed: its ttl and a quarter, in   *)
(* whole seconds.                                                          *)
LingerTTL(t) == t           \* mutant: no quarter

Linger(t) ==
  LET quarter == (Seconds(t) \div 4) * Second IN
  t + (IF quarter > MaxWaiting THEN MaxWaiting ELSE quarter)

(* A file is in use, given up and to be closed later, or closed.           *)
Files == [state : {"used", "given", "closed"}, closeAt : Nat]

(* VFileNew, the files made before being fs.                               *)
NewFile(ch, fs) ==
  /\ files' = [files EXCEPT ![ch] = Append(fs, [state |-> "used", closeAt |-> 0])]
  /\ size' = [size EXCEPT ![ch] = 0]
  /\ real' = [real EXCEPT ![ch] = 0]
  /\ fresh' = [fresh EXCEPT ![ch] = now + ttl[ch] + Grace]

(* AutoExpire closes the writer, which the reader does not use again, and  *)
(* the rest after a time.  It runs at once here: later it would only       *)
(* close later.                                                            *)
AutoExpired(ch) ==
  [files[ch] EXCEPT ![Len(files[ch])] =
     [state |-> "given", closeAt |-> now + Linger(ttl[ch])]]

(* go w.AutoExpire(); w = VFileNew(ttl, vl.cfg)                            *)
Rotate(ch) == NewFile(ch, AutoExpired(ch))

Close(ch, f) ==
  /\ files[ch][f].state = "given" /\ now >= files[ch][f].closeAt
  /\ files' = [files EXCEPT ![ch][f] = [state |-> "closed", closeAt |-> 0]]
  /\ UNCHANGED <<now, ttl, setVars, queue, rpc, job, try, itd, size, real, fresh,
                 faultVars, storeVars>>

FileExpired(ch) == now > fresh[ch]

-----------------------------------------------------------------------------
(* reader                                                                  *)

ReaderGoto(ch, label) == rpc' = [rpc EXCEPT ![ch] = label]

Start(ch) ==
  /\ rpc[ch] = "start"
  /\ NewFile(ch, <<>>)
  /\ ReaderGoto(ch, "receive")
  /\ UNCHANGED <<now, ttl, setVars, queue, job, try, itd, faultVars, storeVars>>

Receive(ch) ==
  /\ rpc[ch] = "receive" /\ queue[ch] # <<>>
  /\ job' = [job EXCEPT ![ch] = Head(queue[ch])]
  /\ queue' = [queue EXCEPT ![ch] = Tail(@)]
  /\ IF FileExpired(ch) THEN Rotate(ch) ELSE UNCHANGED fileVars
  /\ ReaderGoto(ch, "transform")
  /\ UNCHANGED <<now, ttl, setVars, try, itd, faultVars, storeVars>>

(* A write of one part of a record fails, `partial` of its bytes having    *)
(* reached the disk.                                                       *)
Fail(fault, partial) ==
  /\ faults < MaxFaults /\ fault \in Faults /\ partial \in {0, 1}
  /\ faults' = faults + 1

(* By how much VFile.size grows in a transform: by the parts that          *)
(* succeeded; a failed head or body ends it.                               *)
Grown == [none |-> 4, head |-> 0, newline |-> 3, body |-> 2, mark |-> 3]

Appended(ch, fault, partial) ==
  /\ size' = [size EXCEPT ![ch] = @ + Grown[fault]]
  /\ real' = [real EXCEPT ![ch] = @ + Grown[fault] + partial]
  /\ fresh' = [fresh EXCEPT ![ch] = now + ttl[ch] + Grace]

Transform(ch, fault, partial) ==
  /\ rpc[ch] = "transform"
  /\ \/ fault = "none" /\ partial = 0 /\ UNCHANGED faultVars
     \/ /\ fault \in {"newline", "mark"} /\ Fail(fault, partial)
        /\ ignored' = ignored \cup {<<ch, Len(files[ch])>>}
  /\ Appended(ch, fault, partial)
  /\ itd' = [itd EXCEPT ![ch] = [ch |-> ch, file |-> Len(files[ch]), off |-> size[ch],
                                 at |-> real[ch], whole |-> fault # "newline"]]
  /\ ReaderGoto(ch, "stored")
  /\ UNCHANGED <<now, ttl, setVars, queue, job, try, files, storeVars>>

TransformFailsInPlace(ch, fault, partial) ==    \* mutant: the next try uses the same file
  /\ rpc[ch] = "transform"
  /\ fault \in {"head", "body"} /\ Fail(fault, partial)
  /\ Appended(ch, fault, partial)
  /\ try' = [try EXCEPT ![ch] = @ + 1]
  /\ ReaderGoto(ch, IF try[ch] + 1 < Tries THEN "transform" ELSE "full")
  /\ UNCHANGED <<now, ttl, setVars, queue, job, itd, files, ignored, storeVars>>

TransformKeepsFile(ch, fault, partial) ==       \* mutant: no new file after AutoExpire
  /\ rpc[ch] = "transform"
  /\ fault \in {"head", "body"} /\ Fail(fault, partial)
  /\ files' = [files EXCEPT ![ch] = AutoExpired(ch)]
  /\ try' = [try EXCEPT ![ch] = @ + 1]
  /\ ReaderGoto(ch, IF try[ch] + 1 < Tries THEN "transform" ELSE "full")
  /\ UNCHANGED <<now, ttl, setVars, queue, job, itd, size, real, fresh, ignored, storeVars>>

(* The file is given up with what was written: the next try uses another.  *)
TransformFails(ch, fault, partial) ==
  /\ rpc[ch] = "transform"
  /\ fault \in {"head", "body"} /\ Fail(fault, partial)
  /\ Rotate(ch)
  /\ try' = [try EXCEPT ![ch] = @ + 1]
  /\ ReaderGoto(ch, IF try[ch] + 1 < Tries THEN "transform" ELSE "full")
  /\ UNCHANGED <<now, ttl, setVars, queue, job, itd, ignored, storeVars>>

(* afterWrite.  Swap finds the item's entry, and keeps its expiry, or      *)
(* stores the record under the ttl of the reader.                          *)
AfterWrite(ch) ==
  LET i == job[ch] IN
  /\ rpc[ch] = "stored"
  /\ stored' = [stored EXCEPT ![i] = itd[ch]]
  /\ itd' = [itd EXCEPT ![ch] = NoRecord]
  /\ expireAt' \in {expireAt, [expireAt EXCEPT ![i] = now + ttl[ch]]}
  /\ ReaderGoto(ch, "full")
  /\ UNCHANGED <<now, ttl, setVars, queue, job, try, fileVars, faultVars>>

CheckSize(ch) ==
  /\ rpc[ch] = "full"
  /\ IF size[ch] > MaxFileSize THEN Rotate(ch) ELSE UNCHANGED fileVars
  /\ job' = [job EXCEPT ![ch] = NoItem]
  /\ try' = [try EXCEPT ![ch] = 0]
  /\ ReaderGoto(ch, "receive")
  /\ UNCHANGED <<now, ttl, setVars, queue, itd, faultVars, storeVars>>

ReaderStep(ch) ==
  \/ Start(ch) \/ Receive(ch) \/ AfterWrite(ch) \/ CheckSize(ch)
  \/ \E fault \in {"none"} \cup Faults, partial \in {0, 1} :
       Transform(ch, fault, partial) \/ TransformFails(ch, fault, partial)

-----------------------------------------------------------------------------
Tick(t) ==
  /\ t > now
  /\ now' = t
  /\ UNCHANGED <<ttl, setVars, queue, readerVars, storeVars>>

VLogNext ==
  \/ \E i \in Items : Load(i) \/ SetStep(i) \/ ReaderStep(i)
  \/ \E ch \in Items : \E f \in DOMAIN files[ch] : Close(ch, f)
  \/ \E t \in Times : Tick(t)

VLogSpec == VLogInit /\ [][VLogNext]_vlogVars

(* Goroutines that can run do.                                             *)
FairVLogSpec ==
  /\ VLogSpec
  /\ \A i \in Items : WF_vlogVars(SetStep(i)) /\ WF_vlogVars(ReaderStep(i))

-----------------------------------------------------------------------------
Records ==
  [ch : Items \cup {NoItem}, file : Nat, off : Nat, at : Nat, whole : BOOLEAN]

(* Types.  A reader that is running has a file it may write to, one at     *)
(* work an item; at most Tries attempts are made.                          *)
VLogTypeOK ==
  /\ now \in Times
  /\ ttl \in [Items -> TTLs]
  /\ ttlCh \in [{Seconds(t) : t \in TTLs} -> Items \cup {NoItem}]
  /\ inflight \in [TTLs -> Items \cup {NoItem}]
  /\ pc \in [Items -> {"idle", "do", "fly", "wait", "send", "sent"}]
  /\ to \in [Items -> Items \cup {NoItem}]
  /\ queue \in [Items -> Seq(Items)]
  /\ rpc \in [Items -> {"none", "start", "receive", "transform", "stored", "full"}]
  /\ job \in [Items -> Items \cup {NoItem}]
  /\ try \in [Items -> 0..Tries]
  /\ itd \in [Items -> Records]
  /\ files \in [Items -> Seq(Files)]
  /\ {size, real, fresh} \subseteq [Items -> Nat]
  /\ faults \in 0..MaxFaults /\ ignored \subseteq Items \X Nat
  /\ stored \in [Items -> Records]
  /\ expireAt \in [Items -> Nat]
  /\ \A i \in Items : pc[i] \in {"wait", "send"} => to[i] \in Items
  /\ \A ch \in Items : rpc[ch] \notin {"none", "start"} =>
       files[ch] # <<>> /\ Last(files[ch]).state = "used"
  /\ \A ch \in Items : rpc[ch] \in {"transform", "stored", "full"} => job[ch] \in Items

(* While a record has not expired, the file it lies in can be read: the    *)
(* file given up right behind it lives long enough, also when items of a   *)
(* slightly longer ttl share the reader.                                   *)
UnexpiredReadable ==
  \A i \in Items :
    stored[i] # NoRecord /\ now <= expireAt[i] =>
      files[stored[i].ch][stored[i].file].state # "closed"

(* A record in the store begins where the index says and has the blank     *)
(* line that ends its header, although writes fail half-way: what a failed *)
(* header or body leaves behind is in a file nothing is appended to any    *)
(* more.  Not so in a file in which the write of a blank line or an end    *)
(* mark has failed: those results are ignored.                             *)
RecordsIntact ==
  \A i \in Items : LET r == stored[i] IN
    r # NoRecord /\ <<r.ch, r.file>> \notin ignored => r.off = r.at /\ r.whole

(* An item that was sent waits once, in one channel, which has a reader,    *)
(* or one reader has it at work; until its record is stored.  So none is   *)
(* stored twice and none is left where nobody reads, although two first    *)
(* calls for one ttl may make two channels and writes are tried again.     *)
Waiting(ch, i) == Contains(queue[ch], i) \/ (job[ch] = i /\ rpc[ch] \in {"transform", "stored"})

TakenOnce ==
  \A i \in Items :
    /\ pc[i] \in {"send", "sent"} => rpc[to[i]] # "none"
    /\ \A ch \in Items : Waiting(ch, i) =>
         /\ pc[i] = "sent" /\ to[i] = ch /\ stored[i] = NoRecord
         /\ job[ch] = i => ~Contains(queue[ch], i)
    /\ IsInjective(queue[i])

(* Every item passed to Set is taken from its channel and dealt with, also *)
(* when two first calls for one ttl race and make two channels.            *)
EveryItemTaken ==
  \A i \in Items :
    pc[i] # "idle" ~> pc[i] = "sent" /\ \A ch \in Items : job[ch] # i /\ ~Contains(queue[ch], i)
=============================================================================
