----------------------------- MODULE MCS3Catalog -----------------------------
(* Small instances of S3Catalog for TLC: one project name and one repository
   name are the beginning of another, as in the tests of the repository
   ("MODEL2041-LV" and "MODEL2041-LV_copy"). *)
EXTENDS S3Catalog, TLC

CONSTANTS p, pCopy, r, rCopy

PrefixesOfProjects == {<<p, p>>, <<pCopy, pCopy>>, <<p, pCopy>>} \cap (Projects \X Projects)
PrefixesOfRepos    == {<<r, r>>, <<rCopy, rCopy>>, <<r, rCopy>>} \cap (Repos \X Repos)

\* Workers are interchangeable.
Symmetry == Permutations(Workers)
=============================================================================
