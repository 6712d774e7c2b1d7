--------------------------- MODULE MCSharedRegexp ---------------------------
(* SharedRegexp for TLC: two inputs of one length, so that their buffers   *)
(* may be exchanged, one with matches to continue from and one without.    *)
EXTENDS SharedRegexp, TLC

CONSTANTS x, y

MCHits == x :> {1, 2, 3} @@ y :> {}
MCSize == x :> 3 @@ y :> 3

Symmetry == Permutations(Callers)
=============================================================================
