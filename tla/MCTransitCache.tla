---------------------------- MODULE MCTransitCache ----------------------------
(* Small instances of TransitCache for TLC. *)
EXTENDS TransitCache, TLC

\* Workers are interchangeable.
Symmetry == Permutations(Workers)
=============================================================================
