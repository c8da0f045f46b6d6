-------------------------------- MODULE Certs --------------------------------
(***************************************************************************)
(* certs/certs.go, listcerts.go: the certificates of a process in memory.  *)
(* A TLS handshake looks its server name up in two maps, by name and by    *)
(* the suffix of a wildcard, without a lock; Store and Delete replace both *)
(* maps, one after the other, under the lock of Certs.  A handshake that   *)
(* finds no valid certificate asks certmagic, which is external: it loads  *)
(* from the storage of CertStorage, or orders a certificate from the CA    *)
(* and stores it, under the storage's lock of the name.                    *)
(*                                                                         *)
(* The goroutines of CertStorage are kept; they are handshakes here.  A    *)
(* pointer to a certificate stands for the certificate: a copy of one that *)
(* has expired may leave the maps one handshake too early.                 *)
(***************************************************************************)
EXTENDS CertStorage

CONSTANTS
  Wilds,          \* wildcards, with the * removed
  Matches,        \* wildcard -> names it is a suffix of
  Certs, NoCert,
  Token, TokenOf, \* what the CA's challenge asks for, and its key for a name
  PEM,            \* certificates of the configuration
  Dns             \* PEM certificate -> its names and wildcards

ASSUME CertsConstantsOK ==
  /\ Wilds \cap Names = {} /\ Names \subseteq Keys
  /\ TokenOf \in [Names -> Keys \ Names]
  /\ Blobs = Certs \cup {Token} /\ NoBlob = NoCert
  /\ Matches \in [Wilds -> SUBSET Names]
  /\ PEM \subseteq Certs /\ Dns \in [PEM -> SUBSET (Names \cup Wilds)]

VARIABLES
  certs, certsWC, \* per process: the two maps
  hs, found,      \* per thread: where its handshake is, the certificate in hand
  issued,         \* certificate -> the name it was ordered for
  expired         \* certificates behind their NotAfter

memory  == <<certs, certsWC>>
vars    == <<storageVars, memory, hs, found, issued, expired>>

DnsOf(c)   == IF c \in PEM THEN Dns[c] ELSE {issued[c]}
Valid(c)   == c # NoCert /\ c \notin expired
At(t, l)   == hs' = [hs EXCEPT ![t] = l]
Have(t, c) == found' = [found EXCEPT ![t] = c]
Off(t)     == At(t, "idle") /\ Have(t, NoCert)

(* The maps after LoadCertsFromConfig.                                     *)
FromPEM(d) == IF \E c \in PEM : d \in Dns[c] THEN CHOOSE c \in PEM : d \in Dns[c] ELSE NoCert

CertsInit ==
  /\ StorageInit
  /\ certs = [p \in Procs |-> [n \in Names |-> FromPEM(n)]]
  /\ certsWC = [p \in Procs |-> [w \in Wilds |-> FromPEM(w)]]
  /\ hs = [t \in Threads |-> "idle"]
  /\ found = [t \in Threads |-> NoCert]
  /\ issued = [c \in Certs |-> NoCert]
  /\ expired = {}

Hello(t, p, n) ==
  /\ hs[t] = "idle"
  /\ Choose(t, p, n)
  /\ At(t, "names")
  /\ UNCHANGED <<memory, found, issued, expired>>

(* Get, the map of names.                                                  *)
GetName(t) ==
  LET c == certs[home[t]][name[t]] IN
  /\ hs[t] = "names"
  /\ \/ c = NoCert /\ At(t, "wild") /\ UNCHANGED found
     \/ Valid(c) /\ Off(t)
     \/ c \in expired /\ At(t, "drop") /\ Have(t, c)
  /\ UNCHANGED <<storageVars, memory, issued, expired>>

(* GetWC: the order of a map's range is random, so any match may be found. *)
Wildcards(t) == {certsWC[home[t]][w] : w \in {x \in Wilds : name[t] \in Matches[x]}} \ {NoCert}

GetWild(t) ==
  /\ hs[t] = "wild"
  /\ \/ Wildcards(t) = {} /\ At(t, "load") /\ UNCHANGED found
     \/ \E c \in Wildcards(t) :
          \/ Valid(c) /\ Off(t)
          \/ c \in expired /\ At(t, "drop") /\ Have(t, c)
  /\ UNCHANGED <<storageVars, memory, issued, expired>>

(* Delete and Store: copySwap and the assignment of each map.              *)
Locked(p) == \E u \in Threads : home[u] = p /\ hs[u] \in {"dropWC", "keepWC"}
Without(m, c) == [d \in DOMAIN m |-> IF m[d] = c THEN NoCert ELSE m[d]]
With(m, c)    == [d \in DOMAIN m |-> IF d \in DnsOf(c) THEN c ELSE m[d]]

DropName(t) ==          \* mutant: Delete removes what the name has by now
  /\ hs[t] = "drop" /\ ~Locked(home[t])
  /\ certs' = [certs EXCEPT ![home[t]][name[t]] = NoCert]
  /\ At(t, "dropWC")
  /\ UNCHANGED <<storageVars, certsWC, found, issued, expired>>

DropUnlocked(t) ==      \* mutant: Delete does not lock
  /\ hs[t] = "drop"
  /\ certs' = [certs EXCEPT ![home[t]] = Without(@, found[t])]
  /\ At(t, "dropWC")
  /\ UNCHANGED <<storageVars, certsWC, found, issued, expired>>

Drop(t) == ~Locked(home[t]) /\ DropUnlocked(t)

DropWC(t) ==
  /\ hs[t] = "dropWC"
  /\ certsWC' = [certsWC EXCEPT ![home[t]] = Without(@, found[t])]
  /\ At(t, "load") /\ Have(t, NoCert)
  /\ UNCHANGED <<storageVars, certs, issued, expired>>

Keep(t) ==
  /\ hs[t] = "keep" /\ ~Locked(home[t])
  /\ certs' = [certs EXCEPT ![home[t]] = With(@, found[t])]
  /\ At(t, "keepWC")
  /\ UNCHANGED <<storageVars, certsWC, found, issued, expired>>

KeepWC(t) ==
  /\ hs[t] = "keepWC"
  /\ certsWC' = [certsWC EXCEPT ![home[t]] = With(@, found[t])]
  /\ Off(t)
  /\ UNCHANGED <<storageVars, certs, issued, expired>>

-----------------------------------------------------------------------------
(* acme.GetCertificate, on demand.                                         *)
InStorage(t) == Valid(Loaded(name[t]))

LoadRemote(t) ==
  /\ hs[t] = "load"
  /\ \/ InStorage(t) /\ At(t, "keep") /\ Have(t, Loaded(name[t])) /\ UNCHANGED storageVars
     \/ ~InStorage(t) /\ Begin(t) /\ At(t, "obtain") /\ UNCHANGED found
  /\ UNCHANGED <<memory, issued, expired>>

OrderAnyway(t) ==       \* mutant: the storage is not asked again under the lock
  /\ hs[t] = "obtain" /\ pc[t] = "held"
  /\ At(t, "order")
  /\ UNCHANGED <<storageVars, memory, found, issued, expired>>

(* With the lock, the storage is asked again.                              *)
Recheck(t) ==
  /\ hs[t] = "obtain" /\ pc[t] = "held"
  /\ IF InStorage(t) THEN At(t, "unlock") /\ Have(t, Loaded(name[t]))
                     ELSE At(t, "order") /\ UNCHANGED found
  /\ UNCHANGED <<storageVars, memory, issued, expired>>

(* The CA asks for a token, which the process that answers finds in the   *)
(* storage; then it is deleted.                                            *)
Present(t) ==
  /\ hs[t] = "order"
  /\ Put(t, TokenOf[name[t]], Token)
  /\ At(t, "present")
  /\ UNCHANGED <<memory, found, issued, expired>>

Refused(t) ==
  /\ hs[t] = "answer"
  /\ Remove(t, TokenOf[name[t]])
  /\ At(t, "unlock")
  /\ UNCHANGED <<memory, found, issued, expired>>

Accepted(t, c) ==
  /\ hs[t] = "answer"
  /\ Loaded(TokenOf[name[t]]) = Token
  /\ Remove(t, TokenOf[name[t]])
  /\ c \in Certs \ PEM /\ issued[c] = NoCert
  /\ issued' = [issued EXCEPT ![c] = name[t]]
  /\ At(t, "issue") /\ Have(t, c)
  /\ UNCHANGED <<memory, expired>>

Save(t) ==
  /\ hs[t] = "issue"
  /\ Put(t, name[t], found[t])
  /\ At(t, "save")
  /\ UNCHANGED <<memory, found, issued, expired>>

CalledAgain(t) ==       \* mutant: a Store that fails is tried again
  /\ \/ /\ Second(t) /\ UNCHANGED found
        /\ At(t, CASE hs[t] = "present" -> "answer" [] hs[t] = "save" -> "unlock" [] OTHER -> hs[t])
     \/ /\ CallFails(t)
        /\ At(t, CASE hs[t] = "present" -> "order" [] hs[t] = "save" -> "issue" [] OTHER -> hs[t])
        /\ UNCHANGED found
  /\ UNCHANGED <<memory, issued, expired>>

(* The second call of a Store or Delete.  An error of Store ends the       *)
(* order, one of the token's Delete does not.                              *)
Called(t) ==
  /\ \/ /\ Second(t) /\ UNCHANGED found
        /\ At(t, CASE hs[t] = "present" -> "answer" [] hs[t] = "save" -> "unlock" [] OTHER -> hs[t])
     \/ /\ CallFails(t)
        /\ IF hs[t] = "issue" THEN UNCHANGED <<hs, found>> ELSE At(t, "unlock") /\ Have(t, NoCert)
  /\ UNCHANGED <<memory, issued, expired>>

Unlocked(t) ==
  /\ hs[t] = "unlock"
  /\ Unlock(t) \/ UnlockFails(t)
  /\ At(t, IF found[t] = NoCert THEN "idle" ELSE "keep")
  /\ UNCHANGED <<memory, found, issued, expired>>

LockStep(t) ==
  /\ hs[t] = "obtain"
  /\ \/ (TakeMu(t) \/ Acquire(t) \/ Granted(t)) /\ UNCHANGED <<hs, found>>
     \/ AcquireFails(t) /\ Off(t)
  /\ UNCHANGED <<memory, issued, expired>>

-----------------------------------------------------------------------------
Handshake(t) ==
  \/ GetName(t) \/ GetWild(t) \/ Drop(t) \/ DropWC(t) \/ Keep(t) \/ KeepWC(t)
  \/ LoadRemote(t) \/ LockStep(t) \/ Recheck(t) \/ Present(t) \/ Refused(t)
  \/ Save(t) \/ Called(t) \/ Unlocked(t)
  \/ \E c \in Certs : Accepted(t, c)

Expire(c) ==
  /\ c \in PEM \/ issued[c] # NoCert
  /\ c \notin expired
  /\ expired' = expired \cup {c}
  /\ UNCHANGED <<storageVars, memory, hs, found, issued>>

(* A process that starts again has the certificates of its configuration.  *)
Restart(p) ==
  /\ Crash(p)
  /\ certs' = [certs EXCEPT ![p] = [n \in Names |-> FromPEM(n)]]
  /\ certsWC' = [certsWC EXCEPT ![p] = [w \in Wilds |-> FromPEM(w)]]
  /\ hs' = [t \in Threads |-> IF home[t] = p THEN "idle" ELSE hs[t]]
  /\ found' = [t \in Threads |-> IF home[t] = p THEN NoCert ELSE found[t]]
  /\ UNCHANGED <<issued, expired>>

Ended(n, s) == Reap(n, s) /\ UNCHANGED <<memory, hs, found, issued, expired>>

Next ==
  \/ \E t \in Threads : (\E p \in Procs, n \in Names : Hello(t, p, n)) \/ Handshake(t)
  \/ \E c \in Certs : Expire(c)
  \/ \E p \in Procs : Restart(p)
  \/ \E p \in Procs, n \in Names :
       LeaseLost(p, n) /\ UNCHANGED <<memory, hs, found, issued, expired>>
  \/ \E n \in Names, s \in Sessions : Ended(n, s)

Spec == CertsInit /\ [][Next]_vars

(* Goroutines run, a Go mutex starves nobody, the leases of a process that *)
(* has crashed end.                                                        *)
Fairness ==
  /\ \A t \in Threads : SF_vars(Handshake(t))
  /\ WF_vars(\E n \in Names, s \in Sessions : Ended(n, s))

FairSpec == Spec /\ Fairness

-----------------------------------------------------------------------------
Labels == {"idle", "names", "wild", "drop", "dropWC", "load", "obtain", "order",
           "present", "answer", "issue", "save", "unlock", "keep", "keepWC"}

(* How far a handshake is from its end, with its place in the lock.        *)
Later == [names |-> 14, wild |-> 13, drop |-> 12, dropWC |-> 11, load |-> 10, obtain |-> 9,
          order |-> 8, present |-> 7, answer |-> 6, issue |-> 5, save |-> 4, unlock |-> 3,
          keep |-> 2, keepWC |-> 1, idle |-> 0]
Inner == [lock |-> 5, acquire |-> 4, wait |-> 3, stamp |-> 2, unstamp |-> 2, held |-> 1, idle |-> 0]
StepsLeft(t) == 6 * Later[hs[t]] + Inner[pc[t]]
Locking == {"obtain", "order", "present", "answer", "issue", "save", "unlock"}

CertsTypeOK ==
  /\ StorageTypeOK
  /\ certs \in [Procs -> [Names -> Certs \cup {NoCert}]]
  /\ certsWC \in [Procs -> [Wilds -> Certs \cup {NoCert}]]
  /\ hs \in [Threads -> Labels]
  /\ found \in [Threads -> Certs \cup {NoCert}]
  /\ issued \in [Certs -> Names \cup {NoCert}]
  /\ expired \subseteq Certs
  /\ \A n \in Names : value[n] \in Certs \cup {NoCert}
  /\ \A t \in Threads : hs[t] \in {"drop", "dropWC", "keep", "keepWC"} => found[t] # NoCert
  /\ \A p \in Procs, t, u \in Threads :
       home[t] = p /\ home[u] = p /\ {hs[t], hs[u]} \subseteq {"dropWC", "keepWC"} => t = u

(* certs.go:223, 155: the removal of an expired certificate, found some    *)
(* time ago, takes no valid one out of the maps, and no Store undoes       *)
(* another.                                                                *)
ValidKept ==
  [][\A p \in Procs : starts'[p] = starts[p] =>
       /\ \A n \in Names : Valid(certs[p][n]) => certs'[p][n] # NoCert
       /\ \A w \in Wilds : Valid(certsWC[p][w]) => certsWC'[p][w] # NoCert]_vars

(* A certificate is ordered only while the storage has no valid one, in    *)
(* all processes together, as long as leases are kept.                     *)
OrderNeeded ==
  \A t \in Threads :
    hs[t] \in {"order", "present", "answer", "issue"} =>
      ~InStorage(t) \/ \E l \in lost : l[1] = name[t]

(* The key of a session that goes on, and that none of its goroutines uses. *)
Abandoned(n, s) ==
  /\ ~Orphan(s)
  /\ ~\E t \in Threads : Session(t) = s /\ name[t] = n /\ pc[t] \in Queued

(* cache.go:168-184: never do all wait for each other, nor anyone for       *)
(* nothing.  s.mu is held by a handshake between Lock and Unlock, and of   *)
(* the keys in etcd that a goroutine waits for, all are still there and    *)
(* one is of a goroutine that waits for none, or has no owner any more.    *)
NoStandstill ==
  /\ \A p \in Procs : mu[p] # NoThread =>
       home[mu[p]] = p /\ pc[mu[p]] \in Inside /\ hs[mu[p]] \in Locking
  /\ \A t \in Threads : pc[t] = "wait" =>
       /\ ahead[t] \subseteq locks[name[t]]
       /\ ahead[t] # {} => \E s \in ahead[t] :
            \/ Orphan(s) \/ Abandoned(name[t], s)
            \/ \E u \in Threads : /\ Session(u) = s /\ name[u] = name[t]
                                 /\ pc[u] \in Queued /\ ahead[u] = {}

(* A handshake takes boundedly many steps, whatever fails: each leaves it  *)
(* fewer, also a call that fails and a certificate that is refused.        *)
HandshakeAdvances ==
  [][\A t \in Threads : hs[t] # "idle" /\ <<hs[t], pc[t]>>' # <<hs[t], pc[t]>> =>
       StepsLeft(t)' < StepsLeft(t)]_vars

(* cache.go:168-184: every handshake ends, with a certificate or without,  *)
(* unless a failed Unlock has left a key in etcd: its process keeps the    *)
(* lease alive, and the others wait.                                       *)
LeftBehind == \E n \in Names : \E s \in locks[n] : Abandoned(n, s)
HandshakeEnds == \A t \in Threads : hs[t] # "idle" ~> (hs[t] = "idle" \/ LeftBehind)
=============================================================================
