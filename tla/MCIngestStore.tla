-------------------------- MODULE MCIngestStore --------------------------
(* A small instance of IngestStore and StoreReads for TLC.                 *)
EXTENDS StoreReads, TLC

CONSTANTS k1, k2, k3, a, b, day, s1, s2, w1, w2

Rec(k, c, d, ok) == [key |-> k, content |-> c, date |-> d, valid |-> ok]

(* A first sighting with a date, one without and a new post after it, the   *)
(* same post twice in one batch, a batch whose second record is invalid,    *)
(* and an empty one.                                                        *)
MCBatches ==
    {<<Rec(k1, a, day, TRUE)>>,
     <<Rec(k1, b, NoDate, TRUE), Rec(k2, a, NoDate, TRUE)>>,
     <<Rec(k3, a, NoDate, TRUE), Rec(k3, b, day, TRUE)>>,
     <<Rec(k1, a, NoDate, TRUE), Rec(k2, b, day, FALSE)>>,
     <<>>}

MCSourceOf == (k1 :> s1) @@ (k2 :> s2) @@ (k3 :> s1)

TwoWriters == {w1, w2}
Symmetry == Permutations(TwoWriters)
============================================================================
