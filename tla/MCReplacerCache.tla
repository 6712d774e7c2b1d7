--------------------------- MODULE MCReplacerCache ---------------------------
(* ReplacerCache for TLC.                                                  *)
EXTENDS ReplacerCache, TLC

\* The entries of unallocated elements and the keys of idle goroutines are
\* arbitrary: one choice of each suffices.
MCInit ==
    LET k == CHOOSE k \in Keys : TRUE IN
    /\ ll = <<>>
    /\ entry = [e \in Elements |-> [key |-> k, data |-> k]]
    /\ cache = [j \in Keys |-> None]
    /\ call = [c \in Callers |-> [pc |-> "idle", key |-> k, data |-> None]]
    /\ Init
MCSpec == MCInit /\ [][Next]_vars
=============================================================================
