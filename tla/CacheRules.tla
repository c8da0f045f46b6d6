----------------------------- MODULE CacheRules -----------------------------
(***************************************************************************)
(* cacherules/req.go, resp.go, parse.go and the key of httplog.go: which   *)
(* requests may be answered from the cache, which responses may be stored, *)
(* for how long and under which key.  A string is a sequence of parts.     *)
(***************************************************************************)
EXTENDS Integers, Sequences, SequencesExt

Bad        == -1              \* a duration in the file that does not parse
OK         == 200
defaultTTL == 3600

HasPart(s, v) == \E i \in 0..Len(s) : IsPrefix(v, SubSeq(s, i + 1, Len(s)))

(* Parse stops at the first duration that does not parse, having stored 0  *)
(* for it; the order of a Go map is random.  Its caller ignores the error. *)
Table(ttls) ==
  LET good == {k \in DOMAIN ttls : ttls[k] # Bad}
      bad  == DOMAIN ttls \ good
  IN  IF bad = {} THEN {ttls}
      ELSE {[k \in S \cup {b} |-> IF k = b THEN 0 ELSE ttls[k]] : S \in SUBSET good, b \in bad}

Parse(file) ==
  LET status == [c \in {k \in DOMAIN file.status : k >= 100} |-> file.status[c]]
      types  == IF Bad \in Range(status) THEN {<<>>} ELSE Table(file.type)
  IN  {[file EXCEPT !.status = s, !.type = t] : s \in Table(status), t \in types}

(* The request: whether it is cacheable, and whether it is a refresh.      *)
PathOK(ir, p) ==
  /\ \A v \in ir.NoReqExt \cup ir.NoReqPathSuffix : ~IsSuffix(v, p)
  /\ \A v \in ir.NoReqPathContains : ~HasPart(p, v)
  /\ \A v \in ir.NoReqPathPrefix : ~IsPrefix(v, p)

CookiesOK(ir, q) == \A v \in ir.NoReqCookieContains, c \in q.cookies : ~HasPart(c, v)

Eligible(ir, q) == q.method \in {"GET", "HEAD"} /\ PathOK(ir, q.path)

IsReqCachable(ir, q) ==
  [ok |-> Eligible(ir, q) /\ CookiesOK(ir, q), refresh |-> Eligible(ir, q) /\ ~CookiesOK(ir, q)]

(* Mutant: the rules of a host replace the global ones.                    *)
HostDecides(global, domain, q) ==
  IsReqCachable(IF q.host \in DOMAIN domain THEN domain[q.host] ELSE global, q)

(* The rules of a host are asked only when the global ones let it pass.    *)
Verdict(global, domain, q) ==
  LET v == IsReqCachable(global, q)
  IN  IF v.ok /\ q.host \in DOMAIN domain THEN IsReqCachable(domain[q.host], q) ELSE v

(* The response: the TTLs it may be stored with, none if it may not.  A    *)
(* status other than 200 is stored without a look at the headers.          *)
IsValidRespHeader(ir, p) == \A v \in ir.RespHeadersBlackList : ~HasPart(p.header, v)

TypeTTLs(ir, p, ttl) ==
  LET types == {k \in DOMAIN ir.type : p.type # <<>> /\ HasPart(p.type, k)}
  IN  IF types = {} THEN {ttl} ELSE {ttl + ir.type[k] : k \in types}

IsRespCachable(ir, p) ==
  LET listed == DOMAIN ir.status
      ttl    == IF listed = {} THEN defaultTTL ELSE ir.status[p.status]
  IN  CASE listed # {} /\ p.status \notin listed -> {}
        [] listed # {} /\ p.status # OK -> {ttl}
        [] OTHER -> IF IsValidRespHeader(ir, p) THEN TypeTTLs(ir, p, ttl) ELSE {}

(* GetKeyStrDevice.  Two keys with the same hash are left out.             *)
KeyOf(q, device) == [device |-> device, method |-> q.method, host |-> q.host, path |-> q.path]
Key(q) == KeyOf(q, q.device)
=============================================================================
