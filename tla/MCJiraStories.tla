----------------------------- MODULE MCJiraStories -----------------------------
(* Small instances of JiraStories for TLC. *)
EXTENDS JiraStories, TLC

\* The sizes of the files: small, at the limit, and above it.
Sizes == <<1, 2, 3>>

\* A small file alone, one that is packed alone, and two that do not fit into one archive.
SomeLinks == {{1}, {2}, {2, 3}}

\* And all of them, which are two parts and a large file.
MostLinks == SomeLinks \cup {Files}

\* A request for all files, or with several faults, has Jira for itself.
OneAtATime ==
  requests <= 1 \/ (faults <= 1 /\ \A w \in Workers : wanted[w] \in SomeLinks \cup {{}})

\* Workers are interchangeable, and so are the keys that are not in use yet.
Symmetry == Permutations(Workers) \cup Permutations(Issues \ Old)
=============================================================================
