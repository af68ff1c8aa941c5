--------------------------- MODULE MCBitbucketFiles ---------------------------
(* Small instances of BitbucketFiles for TLC. *)
EXTENDS BitbucketFiles, TLC

\* Workers, repositories, files and bodies are interchangeable.
Symmetry == Permutations(Workers) \cup Permutations(Repos) \cup Permutations(Files) \cup Permutations(Bodies)
=============================================================================
