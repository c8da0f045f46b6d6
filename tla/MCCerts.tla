------------------------------- MODULE MCCerts -------------------------------
(* Two processes share the storage; the first runs two handshakes.  The    *)
(* wildcard of the configuration matches one of the names.                 *)
EXTENDS Certs, TLC

CONSTANTS p1, p2, t1, t2, n1, k1, w1, pem

MCTokenOf == n1 :> k1
MCMatches == w1 :> {n1}
MCDns     == pem :> {w1}
MCBlobs   == Certs \cup {Token}
=============================================================================
