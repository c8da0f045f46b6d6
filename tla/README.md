# Verification of elinproxy

elinproxy is an HTTP cache in front of one backend.  These TLA+ modules model
its core: the in-memory store with its expiry, the cache built on it, the log
that moves responses to disk, the path of a request through rules, cache and
backend, and the certificates the processes share.  TLC checks the models on small instances;
TLAPS proves the theorems in the `*Proofs` modules for every value of the
constants.  All paths below are relative to `src/`.

## The system

| component | source | state | operations |
|---|---|---|---|
| TTL list | `lsm/kvsm/list.go` | root, last, size; prev and next of the entries | Add, Remove, Replace, Next |
| KVSM store | `lsm/kvsm/kvsm.go`, `entry.go` | the map `items`, the count `n`, the channel `addLLCh`, one list per TTL, the pool of entries | Set, Get, Swap, RemoveByKey by any goroutine; the worker: receive, sweep, evict |
| LSM cache | `lsm/lsm.go`, `item*.go` | items in memory and on disk with their counter `inUse`, their pools, `retryEvictionCh` | Set, Get, Delete, onEvictInternal, retryEviction, afterWrite |
| Value log | `lsm/vlog.go`, `vfile.go` | a channel and a reader goroutine per TTL; files with sizes and expiries | Set, reader, transform, AutoExpire, Close |
| Item contents, ranges | `lsm/itemMem.go`, `itemDisk.go`, `httpsrv/handler/utils.go` | header, body, temporary file | Write, WriteTo, WriteToRange, ValidRange, GetHeader, parseRange, DumpResponse |
| Request handler | `httpsrv/handler/handler.go` | the single flight of backend requests | ServeHTTP, BackendOnce, respondFromCache, reverseProxy, modifyResponse |
| Cache rules | `httpsrv/cacherules/` | the parsed configuration | Req, Resp, Parse |
| Request log | `httpsrv/httplog/` | a pub/sub feed, counters; the key of a request | GetKeyStr |
| Certificates | `certs/certs.go`, `listcerts.go` | two maps, replaced on write | Get, GetCertificate, Store, Delete, expiry |
| Certificate storage | `certs/cache.go` | keys in etcd, a mutex and the sessions of a process | Lock, Unlock, Store, Load, Delete, Stat |
| Server, start, client | `httpsrv/`, `main.go`, `client/` | sockets, flags | |

How they meet.  A request that may be cached asks `LSM.Get` for its key.  On a
hit it reads the item and calls `Done`; on a miss the handler goes to the
backend under a single flight, fills an `ItemMem` and calls `LSM.Set`.  `Set`
stores the item in KVSM and, if its TTL is long enough, sends it to the value
log.  The log's reader writes a record and calls `afterWrite`, which swaps the
copy on disk into the store.  The KVSM worker collects expired entries and
calls back `onEvictInternal`, which puts the item into its pool, or on
`retryEvictionCh` while a request still reads it.  Whether a request is looked
up, a response stored, and for how long, the rules decide; one with a cookie of
the list is a refresh, which deletes the copies of all kinds of device.  A TLS handshake looks
for its certificate in the maps of the process, then asks certmagic, which
locks the name in etcd, loads or orders a certificate and stores it.

Where it is hard:

- Callers of KVSM hold pointers to entries while the worker recycles them; only
  the `sync.Map` and single words are atomic.
- A `Set` blocks on the worker's channel, the worker runs the eviction callback,
  and the callback sends on a bounded channel itself.
- An item is at the same time in the store, in the log's channel, with requests
  that read it and with goroutines that evict it.
- Files are closed by time while the index still names their records.
- Entries and items are pooled, so a stale pointer shows another key's data.
- A body moves to a temporary file in the middle of a copy, and is read back by
  loops over buffers whose ends are those of the body, of a range or of a file.
- Copies are stored while a refresh deletes them, one device after the other.
- Processes share a storage in which a lock is a lease, and Store and Delete are
  two calls each; one process-wide mutex is held over the wait for another process.

PROJECT.json lists these at their lines, under "hazards".

## What makes each part correct

- List: a queue without duplicates; ends, links and length agree; the sweep,
  which follows `next` out of an entry it has just removed, stays in the list.
- KVSM: an entry has one owner (pool, Set, channel, list or worker); the map
  names only live entries, under their key; `Len` counts what is stored; all
  that is stored is collected; `Set` returns; `Get` finds what has not expired
  and returns values of its own key.
- LSM: no item is pooled while a request reads it; eviction blocks nobody; an
  item has one owner; a deleted response stays deleted; the cache uses the store
  by its interface only.
- Value log: every item is taken, once and by one reader; a record in the index can be read while it has
  not expired, and lies where the index says.
- Handler: a request is answered once and waits no longer than its timers; one
  flight per key goes to the backend.
- Bodies and ranges: what is stored is what the backend sent; a client gets as
  many bytes as announced, the right ones; every request is answered.
- Rules: nothing they exclude is stored or served from the cache; a refresh
  leaves no older copy on a device it clears.
- Certificates: a valid one is never dropped; the lock of a name is exclusive;
  none is ordered while the storage has a valid one; handshakes never all wait
  for each other, and each ends.

## Modules

| module | models | how it corresponds to the code |
|---|---|---|
| `FifoQueues` | what the worker needs of its lists | abstract: one queue per TTL, a sequence with its front and its length; an element is in one queue at most. `KVSM` uses it so (`ListsAreQueues`), `LinkedListTTL` implements it |
| `LinkedListTTL` | `list.go` | several lists that share the pointers in the entries, as functions; one operator per early return of Remove. `order` and `strayed` are history variables: what is in each list, and whether something was removed as the worker never does. `Spec` is the worker's use, `AnySpec` that of `list_test.go` too |
| `LinkedListTTLProofs` | | theorems on `AnySpec` and `Spec` |
| `KVSM` | `kvsm.go`, `entry.go` | one action per access to shared memory; a caller's program counter is the access it makes next. The lists are sequences; `FifoQueues` is what the worker does with them |
| `MCKVSM` | | pairs of keys and values, symmetry |
| `KVSMProofs` | | theorems on KVSM's `Spec` |
| `LSM` | `lsm.go`, the pools of `item.go`, `itemDisk.go`, the request's and the log reader's part | EXTENDS `KVSM` and runs its actions; each conjoins what the request, the reader or the callback does |
| `MCLSM` | | values are items, any key with any item |
| `LSMProofs` | | types of the composition, that it implements `KVSM`'s `Spec`, and the owner of an item |
| `VLog` | `vlog.go`, `vfile.go` | the race for a TTL's channel; readers, files and faults |
| `VLogProofs` | | theorems on `VLog` |
| `BackendOnce` | `ServeHTTP` from the cache miss on, `reverseProxy` in `httpsrv/handler/handler.go` | a request is its handler goroutine (`phase`) and, if it leads, the goroutine of its flight (`flight`); `joined` and `result` are the channel DoChan returned. singleflight is external, modelled as DoChan, doCall and Forget work: a flight forgotten leaves the group alone when it ends |
| `BackendOnceProofs` | | theorems on `BackendOnce` |
| `CacheRules` | `httpsrv/cacherules/`, the key in `httplog.go` | pure: one operator per function; a string is a sequence of parts, so that prefixes, suffixes and parts are those of the code. A table of TTLs that did not parse is any the random order of a Go map can leave |
| `Items` | `lsm/itemMem.go`, `itemDisk.go`, `parseRange` | pure: a body is the sequence of its bytes, each named by its place; a record on disk has foreign bytes behind it. `Written` is what a Write may come to; `TempTurn` and `DiskTurn` are one turn of the loops that read |
| `Responses` | `ServeHTTP`, `respondFromCache`, `reverseProxy`, `modifyResponse`, `DumpResponse` | EXTENDS `CacheRules` and `Items`. A thread is a goroutine that serves a request; one action per access to the cache and per turn of a copy. The cache is a map whose items go (`Evict`) or move to disk (`Move`) at any time, which is what `LSM` and `VLog` are about |
| `MCResponses` | | rules, requests, ranges and replies |
| `ResponsesProofs` | | theorems on `Responses`: types, what is stored, what is private, refreshes |
| `DeliveryProofs` | | theorems on `Responses` and the loops of `Items`: what a client gets |
| `CertStorage` | `certs/cache.go` | goroutines that lock a name, store, load, delete and unlock; `mu` and `mumap` per process, keys of sessions and leases in etcd, which is external |
| `Certs` | `certs/certs.go`, `listcerts.go` | EXTENDS `CertStorage`: a goroutine is a handshake, `hs` where it is. certmagic is external, modelled as it calls the storage |
| `MCCerts` | | names, a wildcard, a certificate of the configuration |
| `CertsProofs` | | theorems on `Certs` and `CertStorage` |

`KVSM` abstracts the time to a flag per entry: `Expire` sets it, at any moment.
A goroutine's private writes to an entry taken from the pool are one step with
the store into the map; the module's comment says why nothing can tell.
Stores in the pool of entries hand out any free entry, which covers every
policy of `sync.Pool`; an entry not allocated yet is in the pool too.
In `LSM` the content of an item is the key it was made for.  `free` counts how
often an item is in its pool, because the code can put it there twice;
`Collect` is the garbage collector.  In `VLog` a record's parts are each one
long and time jumps among the moments in `Times`.  AutoExpire's goroutine runs
at once; if it ran later the file would only be closed later.  `BackendOnce`
follows the requests for one key; a timer may run out at any time after the
function of the flight has begun, which 60 seconds allow it, and `select` may
choose the timer although the result is there.

`Responses` leaves the single flight to `BackendOnce`: the flight only decides
who runs `reverseProxy`, and every goroutine may run it here.  An item that a
client reads does not change under it, as if `inUse` counted what it should;
`lsm_readers` shows where it does not.  `MaxFaults` bounds the failures of
files and backends.  In `Certs` a
session is its process and the number of its start; `torn` is the history of
keys whose last Store or Delete failed half-way or overlapped another.  A
certificate is named by what it was ordered for; `Expire` may happen at any
time.

## Runs

| run | question | bounds |
|---|---|---|
| `list` | do all branches of Remove, and Replace, keep ends and links; are the lists queues as the worker uses them, and stays the sweep inside? | 2 lists that share 4 entries |
| `kvsm` | who owns an entry, what does the map name, what does Len count; does a sweep find the lists it looks for, is all that is stored collected; are the lists used as queues? | 2 callers of every method for a key, 2 entries, TTL of 0.5 s, channel of 1 |
| `kvsm_unexpired` (violated) | is what has not expired found? | 1 key, 2 entries |
| `kvsm_own_key` (violated) | does Get return values of its key? | 2 keys, 2 entries |
| `lsm_flow` | does the cache keep to the store's interface; can eviction block? | 1 request at a time, reader, worker, retry; 1 item of each kind |
| `lsm_live` | without the value log, has an item one owner, and does every request end? | 2 items in memory, 1 on disk, 2 entries, all channels of 1 |
| `lsm_readers` (violated) | is an item kept while it is read? | 2 requests, 1 item |
| `lsm_deleted` (violated) | does a refresh remove the response? | 1 request, reader |
| `vlog_files` | is every item taken, once, can live records be read, do they lie where the index says? | 2 items, 2 TTLs half a second apart, 2 faults, 2 tries |
| `backend_once` | is every request answered once, do waits end, is the backend spared? | 3 requests for one key |
| `certs` | is the lock exclusive; is a certificate ordered only when needed, and never dropped while valid; do handshakes never all wait, does each step bring one closer to its end, and does it end? | 2 processes, 2 handshakes for a name with a wildcard, 1 crash, lost lease or failed call |
| `responses` | are bodies stored and served whole or in the right part, nothing private, nothing old after a refresh; does every turn of a copy leave less to read, is every request answered? | 2 clients on 2 devices, 6 ranges, 3 replies, bodies of up to 3 bytes, buffer and limit of 2, 1 failure |

Why the bounds are enough.  The hazards of the store are between two parties,
a caller with a stale pointer and the worker, or two callers; two entries let a
key be stored again before its first entry is collected, and let an entry be
reused under another key.  Four list entries give every branch of Remove a list
with neighbours on both sides and an entry outside, or one that has gone to the
other list with a pointer to it left behind.  Channels of capacity 1 fill
with one message, so every blocked send is reached.  In `vlog_files` both items
can race for one channel or for two, a file is full after each record, a TTL of
4 s is the shortest whose quarter is a whole second, and the moments 0, 9 and
10 (in half seconds) are before, at and after the expiry of a record of the
longer TTL and the close of a file of the shorter.  The `body` fault stands for
`head`, which ends transform the same way, and `newline` for `mark`.  Tries is
2, not 3: one retry and one giving up.  Three requests are enough for a leader
that forgets the flight of a second while a third starts one more.  In
`responses` a body of 3 is longer than a buffer and than what stays in memory, and its
last chunk is shorter than a buffer; the ranges are inside, open, of two parts
of which the second is no number, at 0, and starting at or behind the end; one
client asks for ranges, for a page the rules of its host exclude, or with HEAD, while the
other stores the same page for its device, or refreshes it for both.  In `certs` two
handshakes are two in one process or one in each; one fault is a lease lost, a
process that starts again, or a call that fails, and the proofs have no bound.

The TTL of `kvsm` is below a second.  With a TTL of 1.5 s
`SweepFindsList` is violated: the sweep looks for the list of 1 s
(`lsm/kvsm/kvsm.go:148`), and the entries of the list stay for good.

The runs with violations check what a test or a comment of the repository says;
"findings" in PROJECT.json quotes it:

- the collection of an old entry unmaps a newer one of the same key
  (`lsm/kvsm/kvsm.go:94`);
- `Get` can return another key's value from a recycled entry (`kvsm.go:77`);
- `LSM.Get` marks an item as in use only after it has read it
  (`lsm/lsm.go:113`);
- the value log stores a deleted response again (`lsm.go:61`).

Deadlock is checked except in `vlog_files`, `backend_once`, `responses` and
`certs`.  In the first two the system rests when all items or requests have
been dealt with.  In the others new requests and handshakes always can come,
but the system may rest without them.

### Fairness

Goroutines that can run do, and time passes (WF on `Expire`).  A caller of the
store has strong fairness, because its next step may be a send on a full
channel: Go serves blocked senders in order.  So does the worker's receive: a
`select` chooses at random among ready cases and the timer fires once a second
only.  In `LSM`, taking an entry or an item from the model's few gets strong
fairness, because the code allocates one when the pool is empty; for the same
reason `RequestEnds` speaks of requests that have their item.  Calls are never
fair: nobody has to use the cache.  In `VLog` the steps of a Set and of a reader are fair;
time is not, and nothing there depends on it.  In `BackendOnce` the two goroutines
of a request are fair, timers with them, but the backend is not: it need not
answer, and a wait for a flight must end all the same.  In `Responses` the steps
of a goroutine are weakly fair, the backend's answer among them: the transport
has timeouts, and a failure is an answer here (`Fails` takes from the bound, `PassOn` does
not).  In `Certs` a handshake has strong fairness, because Go's mutexes starve
nobody, and etcd ends the leases of processes that have crashed.  Nothing else is
fair there: the CA's refusal is as good an end as its certificate.

## Proofs

`LinkedListTTLProofs`.  `IInv` is `TypeOK` with the order's distinctness and the
four parts of `Shape` (`Ends`, `Links`, `Stops`, `Detached`), for any number of lists and every
use that `list_test.go` makes of them: `Ends` is not inductive by itself, for
Remove of the head makes root what `next` says.  Links do not constrain `prev`
of the head, which Remove leaves dangling, at an entry that may be in another list
by now; the proof shows that no branch reads it.  `RemoveDoes` brings the branches of Remove to
one description, `ShapeFrame` and `DistinctFrame` keep the other lists, whose
entries the operation does not touch because no entry is in two lists.  From
`IInv`: `ListTypes`, `ListShape`, `ListStops` (in the worker's use nothing ever
leads out of a list), and `ListIsFifo`, the refinement of
`FifoQueues`: `Spec` implements it, and under `AnySpec` Add behind and Remove of
the head still are Push and Pop, in whatever state other uses have left the lists.

`KVSMProofs`.  `TypeOK` is inductive (`KVSMTypes`): its last conjuncts say
which variables may not be nil where.  `OwnedOnce` is inductive with it
(`EntriesOwnedOnce`): five actions move an entry from one owner to the next, one
lemma each, and `OwnersFrame` covers all the others, which change fields
of entries that need not be theirs any more.  `MapPointsHome` is inductive given both
(`MapNamesLiveEntries`): the worker has always unmapped an entry's key before
it frees the entry.  `CountMatches` likewise (`LenCountsEntries`), by
cardinality of the set of stored entries changing by one.  `StoreFilesInQueues`
is the other half of `ListIsFifo`: what the worker receives belonged to the
channel, so it is in no list, and the lists are used as `FifoQueues` has it; with the
two theorems a list may be a sequence in `KVSM`.  `SweepsFindTheirLists` needs
that every TTL is in whole seconds or below one, and of others it does not hold.

`LSMProofs`.  Every step of the composition is a step of `KVSM` or leaves its
variables alone (`LSMStepIsNext`), so `LSMSpec` implements KVSM's `Spec`
(`CacheUsesStore`), and the store's theorems hold in the cache
(`CacheKeepsStore`).  `LSMTypes` needs that the worker evicts only with a value
in hand, which is its strengthening.  `ItemsOwned`: as long as nothing goes to the
value log, an item is in the pool, with the request that fills it, in an entry,
with the worker, in the retry channel or with its reader, in one of them and
there once.  `OInv` adds that the log's reader rests and that a `Set` in the store
has the item of its request.  Each step moves one item from one place to the
next (`MovesAlone`) or leaves all where they are (`QuietKeeps`); a lemma for each
actor says which.  With the log it is false: `Swap` and the worker may evict the same
value.

`VLogProofs`.  `VInv` is the types with three parts.  `Trying`: there is a try left
where a reader transforms.  `Routes`: an item is sent to a channel of its ttl in
seconds, and has been sent when a reader works on it.  `Placed`: a record lies
in a file its reader has made, and where a file ends is known unless a failure
in it was ignored; `RecordsWhole` follows.  For `RecordsReadable`, `Lives` adds
that an item's expiry lies before the close of any file its reader gives up
from now on, and of the file its record is in if that is given up.  It rests on the
assumption `FilesLinger`: a file outlives the longest ttl of its reader's second.
That holds for TTLs of four seconds and more (`LongTTLsLinger`).  Below, a quarter in whole
seconds is none, and `Set` groups TTLs by the second: a record of 3.9 s that
lies in a file of 3.2 s outlives it.  The configuration's `MinLSMTTL` keeps
such TTLs out of the log only if it is set so.

`ItemsTakenOnce` needs two more parts.  `Opened`: a channel that a Set finds in the
table or has chosen has a reader, and one whose flight it waits for will have one before it
goes on, also when a second flight for the same second replaces the channel.  `Due`: what waits has been
sent, to this channel and not to another, and is not stored yet; a reader has an
item only while it works, and not in its queue as well.

`BackendOnceProofs`.  `OnceInv` adds to the types who may have a flight
(`Roles`), how often a request has been answered by where its two goroutines
are (`Answers`), and that only a late leader returns before its flight has an
answer (`Excused`).  `AnsweredOnce` follows (`OnceAnswered`).  For
`BackendSpared` the inductive fact is `Paid`: the running flights other than
the key's own are no more than the leaders whose time ran out (`OnceSpared`).

`CertsProofs`.  `LockInv` is the types with `HasKey` (a goroutine past Acquire
has its key unless its lease has ended), `NoneAhead` (no key of a session yet to
start) and `InLine`: of two processes with a key for a name, one has a goroutine
that waits for the other's.  Who holds the lock waits for nobody, hence
`StorageLock`; and every step of a handshake is a step of the storage
(`HandshakesUseStorage`), hence `LockExclusive`.  `HandInv` adds that what is
dropped has expired and that orders are made under the lock, from which `OrdersNeeded`
and the action property `KeepsValid` follow.  `StampInv` says that a key which
is not torn is in one call at most, and which half of it is done: `StampsFollow`.
`QueueInv` orders those that wait for a name: who stands in another's way waits for fewer,
and nobody for himself, so of any finite set of keys before a goroutine there is
a first, whose owner waits for none or has gone: `NeverStandstill`.  A failed
Unlock leaves such a key without an owner.  `Located` says where in the storage's
calls a handshake can be; with it each step lowers `StepsLeft`
(`HandshakesAdvance`): a handshake takes at most as many steps as that says, and with
`NeverStandstill` that is what `HandshakeEnds` rests on, with fairness.

`ResponsesProofs`.  `Inv` is the types with three parts.  `Cleared`: while a
refresh runs, each copy stored when it began is gone or still to go, which gives
`RefreshClears`.  `FillOK`: an item that is being filled has the bytes copied so
far (`BytesJoin`: the next chunk goes behind them, also through a spill), and
its request passed the rules.  `CacheOK` takes that over when the item is
stored: `BodiesWhole` and `PublicOnly`.  The rules, requests and replies are any.

`DeliveryProofs`.  `Serving` has, for every client, how far the loops have come:
what has been written is the part of the body before the place of the reader, and that
place and what is left add up to where the answer ends (`Writing`), or the
answer is complete (`Sent`).  Each kind of item has its loop, with its own ends
(of memory, of a file that holds the body alone, of a record with others
behind it), and each turn keeps `Writing` or completes; `ServedAsAnnounced`
follows, an answer that a failure has cut short being no complete one.  For a Range
header that can be satisfied the start and the end that were read from it are
kept too, through parsing, check and header: `SatisfiableRangesServed`.
`CopiesAdvance` is the variant behind `Answered`: a turn of a loop that is not
its last leaves less to read, so the place in `Writing` lies before the end of
what there is to read whenever a turn begins.  No size
of a body, buffer or file, and no number of ranges in a header, is fixed.

Assumptions: the named ASSUMEs of the modules, which TLC evaluates in the
runs, `FilesLinger` for `RecordsReadable`, and `WholeSeconds` for
`SweepsFindTheirLists`.  Proved for any number of callers, entries, lists, keys,
items and TTLs and any channel capacity.

Only model-checked: all liveness (`EntryFreed`, `RequestEnds`,
`EveryItemTaken`, `WaitEnds`, `HandshakeEnds`, `Answered`), which the prover does
not reach, and `NeverHeldUp`, which is stated with ENABLED.  Every other property
of a passing run is a theorem.

## Not modelled

- `LSM.Reload` and `Handler.Reload` (copy a Config), `RemoveContents` (empties
  the directory at start), the size classes of the item pool, the finalizer of
  VFile (runs when no record names the file), failing opens (they end the
  process), buffer pools, sockets, flags, the pub/sub feed and its client.
- The results of the writes of a record's blank line and end mark are ignored by
  the code: a failure leaves that file's later records displaced.
  `RecordsIntact` excepts such files.
- The bytes of a header on disk: in `Responses` a header can be read or cannot.
- Temporary files that nothing names any more: an item dropped after a failed
  copy is not closed, and its file stays.
- Two URLs with the same 64-bit hash, which share an item.
- Which device a user agent is taken for (uasurfer), the URL of the backend,
  timeouts of the transport, the limiter's arithmetic: any of them may fail.
- An item evicted twice, or evicted while it waits in the log's channel: `LSM`
  has these steps, but the code does nothing about them and no document denies
  them, so that no property of a passing run can be about them.
  `ItemsOwnedOnce` shows that they need the value log.
- The order between a response fetched before a refresh and stored after it: the
  code has none.
- certmagic's own cache of certificates and what it does in the background.
  Sessions that `getLockerSession` opens and does not use keep a lease each;
  they change no answer.
- A hit's mark of freshness: the second result of `Get` is whether the item has
  expired, and `respondFromCache` takes it for whether it is fresh.  A follower
  whose flight stored nothing goes to the backend itself, as the comment at
  `handler.go:231` says; `BackendSpared` bounds the flights only.

## What could come next

1. `Responses` over `BackendOnce`: followers that read what their leader's flight stored.
2. The measures behind the liveness properties that have none yet: what grows less
   with each step of a sweep (`TurnsAdvance` has it for copies, `HandshakeAdvances`
   for handshakes).
