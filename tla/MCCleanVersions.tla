--------------------------- MODULE MCCleanVersions ---------------------------
(* Small instances of CleanVersions for TLC. *)
EXTENDS CleanVersions, TLC

\* Workers are interchangeable.
Symmetry == Permutations(Workers)
=============================================================================
