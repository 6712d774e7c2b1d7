---------------------------- MODULE MCFastClock ----------------------------
(* FastClock for TLC: callers, stoppers and updaters are interchangeable.  *)
EXTENDS FastClock, TLC

Symmetry == Permutations(Callers) \cup Permutations(Stoppers) \cup Permutations(Clocks)
=============================================================================
