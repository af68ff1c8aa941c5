------------------------ MODULE MCForeignVersioning ------------------------
(* Small instances of ForeignVersioning for TLC. *)
EXTENDS ForeignVersioning, TLC

\* Workers and bodies are interchangeable.
Symmetry == Permutations(Workers) \cup Permutations(Contents)

\* Once requests have disturbed each other, neither a guard nor a property looks at the
\* histories of what clients may expect.
Looked ==
  IF disturbed THEN <<TRUE, objects, pc, request, offered, wasCurrent, abandoned>>
  ELSE <<FALSE, vars>>

\* From then on the clocks show the first two stamps only, which may be drawn again.
Third == {Temp(3), Version(3)}
TwoStamps ==
  disturbed =>
    /\ \A n \in Third : ~Exists(n)
    /\ \A w \in Workers : stamp[w] # 3 /\ source[w] \notin Third
=============================================================================
