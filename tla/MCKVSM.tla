------------------------------- MODULE MCKVSM -------------------------------
(* Values for the constants of KVSM that a cfg cannot write: each value is *)
(* named for its key.                                                      *)
EXTENDS KVSM, TLC

CONSTANTS k1, k2, v1, v2

TwoPairs == {<<k1, v1>>, <<k2, v2>>}

OnePair == {<<k1, v1>>}

(* Callers and entries are interchangeable, and so are the keys with their *)
(* values.                                                                 *)
KeySwap == {(k1 :> k2) @@ (k2 :> k1) @@ (v1 :> v2) @@ (v2 :> v1),
            [x \in {k1, k2, v1, v2} |-> x]}

SymmetricOne == {f @@ g : f \in Permutations(Callers), g \in Permutations(Entries)}

Symmetric == {f @@ g @@ h : f \in Permutations(Callers),
                            g \in Permutations(Entries), h \in KeySwap}
=============================================================================
