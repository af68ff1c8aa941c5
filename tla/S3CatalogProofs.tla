---------------------------- MODULE S3CatalogProofs ----------------------------
(***************************************************************************)
(* What S3Catalog promises for every set of workers, projects,             *)
(* repositories and files, in every mode but the foreign one, and with     *)
(* every prefix relation of the names.                                     *)
(***************************************************************************)
EXTENDS S3Catalog, TLAPS

\* A removal works on a real directory, never on Nowhere, and a copy fills a repository.
Copying(w) == pc[w] \in {"check_copy", "copy"}
TypeInv ==
  /\ TypeOK
  /\ \A w \in Workers : Removing(w) => place[w] \in Directories
  /\ \A w \in Workers : Copying(w) => place[w] \in RepoDirs

\* The native mode lists names under the prefix of its directory, that of HCP the marker.
ListedInv ==
  \A w \in Workers :
    pc[w] = "remove_listed" =>
      /\ mode \in Listing
      /\ mode = "native" => \A n \in todo[w] : Prefixed(n, place[w])
      /\ mode # "native" => \A n \in todo[w] : n = MarkerOf(place[w])

\* Only HCP asks for the object that it is about to replace.
ReplacingInv == \A w \in Workers : pc[w] \in {"stat", "replace"} => mode = "hcpno"

\* A removal that nothing has disturbed still finds its directory empty, and its
\* listing holds all that is left there.
RemovalInv ==
  \A w \in Workers :
    Removing(w) /\ ~disturbed[w] =>
      /\ IsEmpty(place[w])
      /\ pc[w] = "remove_listed" => In(place[w]) \subseteq todo[w]

CatalogInv == TypeInv /\ ListedInv /\ ReplacingInv /\ RemovalInv /\ RemovedIsGone /\ StoredIsThere

LEMMA InsidePrefixed ==
  ASSUME NEW n \in Objects, NEW d \in Directories, Inside(n, d)
  PROVE  Prefixed(n, d)
<1>1. CASE d[2] = NoRepo
  BY <1>1, PrefixAssumption, NamesAssumption
     DEF Prefixed, Inside, IsProject, Objects, Directories, RepoDirs
<1>2. CASE d[2] # NoRepo
  BY <1>2, PrefixAssumption, NamesAssumption
     DEF Prefixed, Inside, IsProject, Objects, Directories, RepoDirs
<1> QED BY <1>1, <1>2

(***************************************************************************)
(* The shapes that the actions are made of                                 *)
(***************************************************************************)

LEMMA BeginKeeps ==
  ASSUME CatalogInv,
         NEW w \in Workers, NEW op, NEW d \in Directories, NEW ns \in SUBSET Objects, NEW label \in PC,
         Begin(w, op, d, ns, label),
         label \notin {"remove_listed", "copy"},
         label = "remove" => IsEmpty(d), label = "check_copy" => d \in RepoDirs,
         label \in {"stat", "replace"} => mode = "hcpno"
  PROVE  CatalogInv'
<1>1. TypeInv'
  BY DEF CatalogInv, TypeInv, TypeOK, Begin, Removing, Copying
<1>2. ListedInv' /\ ReplacingInv'
  BY DEF CatalogInv, TypeInv, TypeOK, ListedInv, ReplacingInv, Begin, MarkerOf
<1>3. RemovalInv'
  <2>1. \A x \in Workers \ {w} : pc'[x] = pc[x] /\ place'[x] = place[x] /\ todo'[x] = todo[x]
    BY DEF CatalogInv, TypeInv, TypeOK, Begin
  <2>2. pc'[w] = label /\ place'[w] = d
    BY DEF CatalogInv, TypeInv, TypeOK, Begin
  <2>3. current' = current /\ disturbed' = disturbed
    BY DEF Begin
  <2> QED BY <2>1, <2>2, <2>3 DEF CatalogInv, RemovalInv, Removing, IsEmpty, In, Inside, MarkerOf
<1>4. RemovedIsGone'
  BY DEF CatalogInv, RemovedIsGone, In, Inside, Begin
<1>5. StoredIsThere'
  <2>1. \A x \in Workers : pc[x] = "put" => pc'[x] = "put" /\ todo'[x] = todo[x]
    BY DEF CatalogInv, TypeInv, TypeOK, Begin
  <2> QED BY <2>1 DEF CatalogInv, StoredIsThere, Begin
<1> QED BY <1>1, <1>2, <1>3, <1>4, <1>5 DEF CatalogInv

\* Nothing is put, and at most w's request ends.
LEMMA FinishKeeps ==
  ASSUME CatalogInv,
         NEW w \in Workers, Finish(w), current' \subseteq current,
         \A d \in gone' \ gone : d \in Directories /\ In(d)' = {},
         gone \subseteq gone', stored' \subseteq stored,
         \A n \in stored' : n \in current => n \in current',
         pc[w] = "put" => stored' \cap todo[w] \subseteq current
  PROVE  CatalogInv'
<1>1. TypeInv'
  BY DEF CatalogInv, TypeInv, TypeOK, Finish, Removing, Copying, PC
<1>2. \A x \in Workers \ {w} :
        pc'[x] = pc[x] /\ place'[x] = place[x] /\ todo'[x] = todo[x] /\ disturbed'[x] = disturbed[x]
  BY DEF CatalogInv, TypeInv, TypeOK, Finish
<1>3. pc'[w] = "idle"
  BY DEF CatalogInv, TypeInv, TypeOK, Finish
<1>4. ListedInv' /\ ReplacingInv'
  <2>1. mode' = mode
    BY DEF Finish
  <2> QED BY <1>2, <1>3, <2>1 DEF CatalogInv, ListedInv, ReplacingInv, Prefixed, IsProject, MarkerOf
<1>5. RemovalInv'
  BY <1>2, <1>3 DEF CatalogInv, RemovalInv, Removing, IsEmpty, In, Inside, MarkerOf
<1>6. RemovedIsGone'
  BY DEF CatalogInv, RemovedIsGone, In, Inside
<1>7. StoredIsThere'
  <2> SUFFICES ASSUME NEW n \in stored', n \notin current'
               PROVE  mode' = "hcpno" /\ \E x \in Workers : pc'[x] = "put" /\ n \in todo'[x]
    BY DEF StoredIsThere
  <2>1. n \in stored /\ n \notin current
    OBVIOUS
  <2>5. mode' = "hcpno"
    BY <2>1 DEF Finish, CatalogInv, StoredIsThere
  <2>2. PICK x \in Workers : pc[x] = "put" /\ n \in todo[x]
    BY <2>1 DEF CatalogInv, StoredIsThere
  <2>3. x # w
    BY <2>1, <2>2
  <2> QED BY <1>2, <2>5, <2>2, <2>3
<1> QED BY <1>1, <1>4, <1>5, <1>6, <1>7 DEF CatalogInv

LEMMA PutKeeps ==
  ASSUME CatalogInv,
         NEW w \in Workers, NEW n \in Objects, NEW t, PutObject(w, n, t), pc[w] \in {"put", "copy"},
         pc[w] = "put" => t = n
  PROVE  CatalogInv'
<1>1. /\ pc' \in [Workers -> PC]
      /\ place' \in [Workers -> Directories \cup {Nowhere}]
  BY DEF CatalogInv, TypeInv, TypeOK, PutObject, PC
<1>2. /\ mode' \in Modes /\ current' \subseteq Objects /\ gone' \subseteq Directories
      /\ stored' \subseteq Objects
      /\ todo' \in [Workers -> SUBSET Objects]
      /\ disturbed' \in [Workers -> BOOLEAN]
  BY DEF CatalogInv, TypeInv, TypeOK, PutObject, Removing
<1>3. ~Removing(w)'
  BY DEF CatalogInv, TypeInv, TypeOK, PutObject, Removing
<1>4. \A x \in Workers \ {w} :
        /\ pc'[x] = pc[x] /\ place'[x] = place[x]
        /\ todo'[x] = IF pc[x] = "remove_listed" /\ mode = "native" THEN todo[x] \ {n} ELSE todo[x]
        /\ disturbed'[x] = (disturbed[x] \/ (Removing(x) /\ Inside(n, place[x])))
  BY DEF CatalogInv, TypeInv, TypeOK, PutObject
<1>5. current' = current \cup {n}
  BY DEF PutObject
<1>6. TypeInv'
  <2>1. ASSUME NEW x \in Workers PROVE Removing(x)' => place'[x] \in Directories
    BY <1>3, <1>4 DEF CatalogInv, TypeInv, Removing
  <2>2. ASSUME NEW x \in Workers \ {w} PROVE Copying(x)' => place'[x] \in RepoDirs
    BY <1>4 DEF CatalogInv, TypeInv, Copying
  <2>3. Copying(w)' => place'[w] \in RepoDirs
    BY DEF CatalogInv, TypeInv, TypeOK, Copying, PutObject
  <2> QED BY <1>1, <1>2, <2>1, <2>2, <2>3 DEF TypeInv, TypeOK
<1>7. ListedInv' /\ ReplacingInv'
  <2> SUFFICES ASSUME NEW x \in Workers
               PROVE  /\ pc'[x] = "remove_listed" =>
                           /\ mode' \in Listing
                           /\ mode' = "native" => \A m \in todo'[x] : Prefixed(m, place[x])'
                           /\ mode' # "native" => \A m \in todo'[x] : m = MarkerOf(place[x])'
                      /\ pc'[x] \in {"stat", "replace"} => mode' = "hcpno"
    BY DEF ListedInv, ReplacingInv
  <2>1. pc'[w] \notin {"remove_listed", "stat", "replace"}
    BY DEF CatalogInv, TypeInv, TypeOK, PutObject
  <2>2. mode' = mode
    BY DEF PutObject
  <2>3. CASE x # w
    <3>1. pc'[x] = pc[x] /\ todo'[x] \subseteq todo[x] /\ place'[x] = place[x]
      BY <1>4, <2>3
    <3> QED BY <2>2, <3>1 DEF CatalogInv, ListedInv, ReplacingInv, Prefixed, IsProject, MarkerOf
  <2> QED BY <2>1, <2>3
<1>8. RemovalInv'
  <2> SUFFICES ASSUME NEW x \in Workers, Removing(x)', ~disturbed'[x]
               PROVE  /\ IsEmpty(place[x])'
                      /\ pc'[x] = "remove_listed" => In(place[x])' \subseteq todo'[x]
    BY DEF RemovalInv
  <2>1. x # w
    BY <1>3
  <2>2. Removing(x) /\ ~disturbed[x] /\ ~Inside(n, place[x]) /\ place'[x] = place[x]
    BY <1>4, <2>1 DEF Removing
  <2>3. In(place[x])' = In(place[x])
    BY <1>5, <2>2 DEF In, Inside
  <2>4. n \notin In(place[x])
    BY <2>2 DEF In
  <2>5. pc'[x] = pc[x] /\ (todo'[x] = todo[x] \/ todo'[x] = todo[x] \ {n})
    BY <1>4, <2>1
  <2> QED BY <2>2, <2>3, <2>4, <2>5 DEF CatalogInv, RemovalInv, IsEmpty, MarkerOf
<1>9. RemovedIsGone'
  <2> SUFFICES ASSUME NEW d \in gone' PROVE In(d)' = {}
    BY DEF RemovedIsGone
  <2>1. d \in gone /\ ~Inside(n, d)
    BY DEF PutObject
  <2> QED BY <1>5, <2>1 DEF CatalogInv, RemovedIsGone, In, Inside
<1>10. StoredIsThere'
  <2> SUFFICES ASSUME NEW m \in stored', m \notin current'
               PROVE  mode' = "hcpno" /\ \E x \in Workers : pc'[x] = "put" /\ m \in todo'[x]
    BY DEF StoredIsThere
  <2>1. m \in stored /\ m \notin current /\ m # n
    BY <1>5 DEF PutObject
  <2>5. mode' = "hcpno"
    BY <2>1 DEF PutObject, CatalogInv, StoredIsThere
  <2>2. PICK x \in Workers : pc[x] = "put" /\ m \in todo[x]
    BY <2>1 DEF CatalogInv, StoredIsThere
  <2>3. CASE x # w
    <3>1. pc'[x] = "put" /\ todo'[x] = todo[x]
      BY <2>2, <2>3 DEF PutObject, CatalogInv, TypeInv, TypeOK
    <3> QED BY <2>2, <2>5, <3>1
  <2>4. CASE x = w
    <3>1. t = n /\ ~(todo[w] \subseteq {t})
      BY <2>1, <2>2, <2>4
    <3>2. pc' = pc
      BY <3>1 DEF PutObject
    <3>3. todo'[w] = todo[w] \ {t}
      BY DEF CatalogInv, TypeInv, TypeOK, PutObject
    <3> QED BY <2>1, <2>2, <2>4, <2>5, <3>1, <3>2, <3>3
  <2> QED BY <2>5, <2>3, <2>4
<1> QED BY <1>6, <1>7, <1>8, <1>9, <1>10 DEF CatalogInv

LEMMA RemoveKeeps ==
  ASSUME CatalogInv,
         NEW w \in Workers, Removing(w), NEW ns, NEW failed \in BOOLEAN, Remove(w, ns, failed),
         ~disturbed[w] /\ ~failed => In(place[w]) \subseteq ns
  PROVE  CatalogInv'
<1>1. Finish(w) /\ current' = current \ ns /\ stored' = stored \ ns /\ pc[w] # "put"
  BY DEF Remove, Removing
<1>2. place[w] \in Directories
  BY DEF CatalogInv, TypeInv
<1>3. ASSUME NEW d \in gone' \ gone PROVE d \in Directories /\ In(d)' = {}
  <2>1. d = place[w] /\ ~disturbed[w] /\ ~failed
    BY <1>3 DEF Remove
  <2>2. In(d) \subseteq ns
    BY <2>1
  <2> QED BY <1>1, <1>2, <2>1, <2>2 DEF In, Inside
<1>4. gone \subseteq gone'
  BY DEF Remove
<1> QED BY <1>1, <1>3, <1>4, FinishKeeps

\* The request of w goes on, nothing is put, and only HCP removes what w will put again.
LEMMA GotoKeeps ==
  ASSUME CatalogInv,
         NEW w \in Workers, NEW label \in {"replace", "put", "copy"}, Goto(w, label),
         pc[w] \in {"stat", "replace", "check_copy"},
         label = "copy" => pc[w] = "check_copy", label = "replace" => mode = "hcpno",
         UNCHANGED <<todo, gone, stored>>, current' \subseteq current,
         \A n \in current \ current' : mode = "hcpno" /\ label = "put" /\ n \in todo[w]
  PROVE  CatalogInv'
<1>1. \A x \in Workers \ {w} : pc'[x] = pc[x]
  BY DEF Goto, CatalogInv, TypeInv, TypeOK
<1>2. pc'[w] = label /\ UNCHANGED <<mode, place, todo, disturbed, gone, stored>>
  BY DEF Goto, CatalogInv, TypeInv, TypeOK
<1>3. TypeInv'
  BY <1>2 DEF Goto, CatalogInv, TypeInv, TypeOK, Removing, Copying, PC
<1>4. ListedInv' /\ ReplacingInv'
  BY <1>1, <1>2 DEF CatalogInv, ListedInv, ReplacingInv, Prefixed, IsProject, MarkerOf
<1>5. RemovalInv'
  <2>1. \A x \in Workers : Removing(x)' => x # w
    BY <1>2 DEF Removing
  <2> QED BY <1>1, <1>2, <2>1 DEF CatalogInv, RemovalInv, Removing, IsEmpty, In, Inside, MarkerOf
<1>6. RemovedIsGone'
  BY <1>2 DEF CatalogInv, RemovedIsGone, In, Inside
<1>7. StoredIsThere'
  <2> SUFFICES ASSUME NEW n \in stored, n \notin current'
               PROVE  mode = "hcpno" /\ \E x \in Workers : pc'[x] = "put" /\ n \in todo[x]
    BY <1>2 DEF StoredIsThere
  <2>1. CASE n \in current
    BY <1>2, <2>1
  <2>2. CASE n \notin current
    <3>1. mode = "hcpno"
      BY <2>2 DEF CatalogInv, StoredIsThere
    <3>2. PICK x \in Workers : pc[x] = "put" /\ n \in todo[x]
      BY <2>2 DEF CatalogInv, StoredIsThere
    <3> QED BY <1>1, <3>1, <3>2
  <2> QED BY <2>1, <2>2
<1> QED BY <1>3, <1>4, <1>5, <1>6, <1>7 DEF CatalogInv

(***************************************************************************)
(* One step of the system                                                  *)
(***************************************************************************)

LEMMA StepKeeps == CatalogInv /\ [Next]_vars => CatalogInv'
<1> SUFFICES ASSUME CatalogInv, [Next]_vars PROVE CatalogInv'
  OBVIOUS
<1>1. CASE UNCHANGED vars
  BY <1>1 DEF vars, request, CatalogInv, TypeInv, TypeOK, ListedInv, ReplacingInv, RemovalInv,
              RemovedIsGone, StoredIsThere,
              Removing, Copying, Prefixed, IsProject, IsEmpty, In, Inside, MarkerOf
<1>2. ASSUME NEW w \in Workers, NEW d \in Directories, CreateStat(w, d) PROVE CatalogInv'
  <2>1. {MarkerOf(d)} \in SUBSET Objects /\ "put" \in PC
    BY DEF MarkerOf, Objects, PC
  <2> QED BY <1>2, <2>1, BeginKeeps DEF CreateStat
<1>3. ASSUME NEW w \in Workers, NEW d \in Directories, RemoveList(w, d) PROVE CatalogInv'
  <2>1. {} \in SUBSET Objects /\ "remove" \in PC
    BY DEF PC
  <2> QED BY <1>3, <2>1, BeginKeeps DEF RemoveList
<1>4. ASSUME NEW w \in Workers, NEW n \in RepoDirs \X Files, UploadStart(w, n) PROVE CatalogInv'
  <2>1. {n} \in SUBSET Objects /\ {"put", "stat"} \subseteq PC /\ n[1] \in Directories
    BY DEF Objects, PC, RepoDirs, Directories
  <2> QED BY <1>4, <2>1, BeginKeeps DEF UploadStart
<1>5. ASSUME NEW w \in Workers, NEW n \in Objects, Put(w, n) PROVE CatalogInv'
  BY <1>5, PutKeeps DEF Put
<1>6. ASSUME NEW w \in Workers, NEW n \in RepoDirs \X Files, DeleteList(w, n) PROVE CatalogInv'
  <2>1. {n} \in SUBSET Objects /\ "remove_file" \in PC /\ n[1] \in Directories
    BY DEF Objects, PC, RepoDirs, Directories
  <2> QED BY <1>6, <2>1, BeginKeeps DEF DeleteList
<1>7. ASSUME NEW w \in Workers, NEW n \in Objects, CopyObject(w, n) PROVE CatalogInv'
  <2>1. n \in current /\ pc[w] = "copy" /\ PutObject(w, <<place[w], n[2]>>, n)
    BY <1>7 DEF CopyObject
  <2>2. place[w] \in RepoDirs
    BY <2>1 DEF CatalogInv, TypeInv, Copying
  <2>3. <<place[w], n[2]>> \in Objects
    BY <2>2 DEF Objects, RepoDirs, Directories
  <2> QED BY <2>1, <2>3, PutKeeps
<1>8. ASSUME NEW w \in Workers, NEW n \in Objects, CopySkip(w, n) PROVE CatalogInv'
  <2>1. \A x \in Workers : pc[x] = "remove_listed" => todo'[x] = todo[x]
    BY <1>8 DEF CopySkip, CatalogInv, TypeInv, TypeOK
  <2>2. todo' \in [Workers -> SUBSET Objects]
    BY <1>8 DEF CopySkip, CatalogInv, TypeInv, TypeOK
  <2>3. StoredIsThere'
    <3>1. \A x \in Workers : pc[x] = "put" => pc'[x] = "put" /\ todo'[x] = todo[x]
      BY <1>8 DEF CopySkip, CatalogInv, TypeInv, TypeOK
    <3> QED BY <1>8, <3>1 DEF CopySkip, CatalogInv, StoredIsThere
  <2> QED BY <1>8, <2>1, <2>2, <2>3 DEF CopySkip, CatalogInv, TypeInv, TypeOK, ListedInv, ReplacingInv,
              RemovalInv, RemovedIsGone, Removing, Copying, Prefixed, IsProject, IsEmpty, In, Inside, MarkerOf
<1>9. ASSUME NEW w \in Workers, NEW from \in RepoDirs, NEW to \in RepoDirs, CopyList(w, from, to)
      PROVE  CatalogInv'
  <2>1. In(from) \in SUBSET Objects /\ "check_copy" \in PC /\ to \in Directories
    BY DEF In, CatalogInv, TypeInv, TypeOK, PC, RepoDirs, Directories
  <2> QED BY <1>9, <2>1, BeginKeeps DEF CopyList
<1>10. ASSUME NEW w \in Workers, NEW kept \in SUBSET todo[w], RemoveListed(w, kept) PROVE CatalogInv'
  <2>1. Removing(w) /\ Remove(w, todo[w] \ kept, kept # {})
    BY <1>10 DEF RemoveListed, Removing
  <2>2. ~disturbed[w] /\ ~(kept # {}) => In(place[w]) \subseteq todo[w] \ kept
    BY <1>10, <2>1 DEF CatalogInv, RemovalInv, RemoveListed
  <2> QED BY <2>1, <2>2, RemoveKeeps
<1>11. ASSUME NEW w \in Workers, DeleteRemove(w) PROVE CatalogInv'
  BY <1>11, FinishKeeps DEF DeleteRemove
<1>12. ASSUME NEW w \in Workers, RemoveMarker(w) PROVE CatalogInv'
  <2>1. Removing(w) /\ Remove(w, {MarkerOf(place[w])}, FALSE)
    BY <1>12 DEF RemoveMarker, Removing
  <2>2. ~disturbed[w] => In(place[w]) \subseteq {MarkerOf(place[w])}
    BY <2>1 DEF CatalogInv, RemovalInv, IsEmpty
  <2> QED BY <2>1, <2>2, RemoveKeeps
<1>13. ASSUME NEW w \in Workers, RemoveUnseen(w) PROVE CatalogInv'
  <2>1. Removing(w) /\ Remove(w, {}, TRUE)
    BY <1>13 DEF RemoveUnseen, Removing
  <2> QED BY <2>1, RemoveKeeps
<1>14. ASSUME NEW w \in Workers, RemoveListNames(w) PROVE CatalogInv'
  <2>1. /\ pc' = [pc EXCEPT ![w] = "remove_listed"]
        /\ todo' = [todo EXCEPT ![w] = Listed(place[w])]
        /\ pc[w] = "remove" /\ mode \in Listing /\ UNCHANGED <<mode, current, place, disturbed, gone, stored>>
    BY <1>14 DEF RemoveListNames, Goto
  <2>2. TypeInv'
    BY <2>1 DEF CatalogInv, TypeInv, TypeOK, Removing, Copying, Listed, UnderPrefix, PC
  <2>3. \A x \in Workers \ {w} : pc'[x] = pc[x] /\ todo'[x] = todo[x] /\ place'[x] = place[x]
    BY <2>1 DEF CatalogInv, TypeInv, TypeOK
  <2>4. pc'[w] = "remove_listed" /\ todo'[w] = Listed(place[w]) /\ place'[w] = place[w]
    BY <2>1 DEF CatalogInv, TypeInv, TypeOK
  <2>5. ListedInv' /\ ReplacingInv'
    BY <2>1, <2>3, <2>4
       DEF CatalogInv, ListedInv, ReplacingInv, Listed, UnderPrefix, Prefixed, IsProject, MarkerOf
  <2>6. IsEmpty(place[w]) => In(place[w]) \subseteq Listed(place[w])
    BY <2>1, InsidePrefixed DEF CatalogInv, TypeInv, TypeOK, Removing, In, IsEmpty, Listed, UnderPrefix
  <2>7. RemovalInv'
    BY <2>1, <2>3, <2>4, <2>6 DEF CatalogInv, RemovalInv, Removing, IsEmpty, In, Inside, MarkerOf
  <2>8. RemovedIsGone' /\ StoredIsThere'
    BY <2>1, <2>3, <2>4 DEF CatalogInv, RemovedIsGone, StoredIsThere, In, Inside
  <2> QED BY <2>2, <2>5, <2>7, <2>8 DEF CatalogInv
<1>15. ASSUME NEW w \in Workers, CopyCheck(w) PROVE CatalogInv'
  BY <1>15, GotoKeeps DEF CopyCheck, Goto
<1>16. ASSUME NEW w \in Workers, CopyRefused(w) \/ CopyDone(w) PROVE CatalogInv'
  BY <1>16, FinishKeeps DEF CopyRefused, CopyDone
<1>17. ASSUME NEW w \in Workers, Abort(w) PROVE CatalogInv'
  <2>1. pc[w] = "put" => stored' \cap todo[w] \subseteq current
    <3> SUFFICES ASSUME pc[w] = "put", NEW n \in stored', n \in todo[w], n \notin current PROVE FALSE
      OBVIOUS
    <3>1. mode # "hcpno"
      BY <1>17 DEF Abort
    <3> QED BY <1>17, <3>1 DEF Abort, CatalogInv, StoredIsThere
  <2> QED BY <1>17, <2>1, FinishKeeps DEF Abort
<1>18. ASSUME NEW w \in Workers, ReplaceFound(w) \/ ReplaceMissing(w) \/ RemoveReplaced(w) PROVE CatalogInv'
  BY <1>18, GotoKeeps DEF ReplaceFound, ReplaceMissing, RemoveReplaced, Goto, CatalogInv, ReplacingInv
<1> QED
  BY <1>1, <1>2, <1>3, <1>4, <1>5, <1>6, <1>7, <1>8, <1>9, <1>10, <1>11, <1>12, <1>13, <1>14, <1>15, <1>16,
     <1>17, <1>18
     DEF Next

LEMMA CatalogInvariant == Spec => []CatalogInv
<1>1. Init => CatalogInv
  BY DEF Init, CatalogInv, TypeInv, TypeOK, PC, ListedInv, ReplacingInv, RemovalInv, RemovedIsGone,
     StoredIsThere, Removing, Copying
<1> QED BY <1>1, StepKeeps, PTL DEF Spec

(* No step leaves the bucket, a worker's list or the record of the removed directories
   with something that is not an object or a directory. *)
THEOREM TypeCorrect == Spec => []TypeOK
<1>1. CatalogInv => TypeOK
  BY DEF CatalogInv, TypeInv
<1> QED BY <1>1, CatalogInvariant, PTL

(* remove_repo and remove_project: a directory whose removal was answered with 200 is
   gone from the listings until something is put into it, in each of the modes, unless
   something was put into it while it was being removed or S3 has failed. *)
THEOREM RemovedIsGoneAlways == Spec => []RemovedIsGone
<1>1. CatalogInv => RemovedIsGone
  BY DEF CatalogInv
<1> QED BY <1>1, CatalogInvariant, PTL

(* put_or_replace_object: an acknowledged file is in the bucket, or an upload of HCP is
   about to put it again, whichever uploads overtake each other, in each mode but the
   foreign one. *)
THEOREM StoredIsThereAlways == Spec => []StoredIsThere
<1>1. CatalogInv => StoredIsThere
  BY DEF CatalogInv
<1> QED BY <1>1, CatalogInvariant, PTL

(* In each mode but the foreign one a file is lost only to a deletion by its name, to the
   replacement by HCP, to the native removal of a directory with a shorter name, or to a
   removal that was overtaken by its upload. *)
THEOREM FilesKeptAlways == Spec => FilesKept
<1>1. CatalogInv /\ [Next]_vars => [\A n \in current : FileKept(n)]_vars
  <2> SUFFICES ASSUME CatalogInv, Next, NEW n \in current, n[2] # Marker, n \notin current'
               PROVE  ByName(n) \/ ByReplacement(n) \/ ByRemoval(n)
    BY DEF FileKept
  <2>1. PICK w \in Workers :
          DeleteRemove(w) \/ RemoveReplaced(w) \/ RemoveMarker(w) \/ \E kept \in SUBSET todo[w] : RemoveListed(w, kept)
    <3>1. \A x \in Workers :
            /\ \A d \in Directories : ~CreateStat(x, d) /\ ~RemoveList(x, d)
            /\ \A m \in RepoDirs \X Files : ~UploadStart(x, m) /\ ~DeleteList(x, m)
            /\ \A from, to \in RepoDirs : ~CopyList(x, from, to)
      BY DEF CreateStat, RemoveList, UploadStart, DeleteList, CopyList, Begin
    <3>2. \A x \in Workers, m \in Objects : ~Put(x, m) /\ ~CopyObject(x, m) /\ ~CopySkip(x, m)
      BY DEF Put, CopyObject, CopySkip, PutObject
    <3>3. \A x \in Workers : /\ ~RemoveUnseen(x) /\ ~RemoveListNames(x) /\ ~CopyCheck(x)
                              /\ ~CopyRefused(x) /\ ~CopyDone(x) /\ ~Abort(x)
                              /\ ~ReplaceFound(x) /\ ~ReplaceMissing(x)
      BY DEF RemoveUnseen, RemoveListNames, CopyCheck, CopyRefused, CopyDone, Abort, Remove,
            ReplaceFound, ReplaceMissing
    <3> QED BY <3>1, <3>2, <3>3 DEF Next
  <2>2. CASE DeleteRemove(w)
    BY <2>2 DEF DeleteRemove, ByName
  <2>3. CASE RemoveMarker(w)
    BY <2>3 DEF RemoveMarker, Remove, MarkerOf
  <2>4. ASSUME NEW kept \in SUBSET todo[w], RemoveListed(w, kept) PROVE ByRemoval(n)
    <3>1. pc[w] = "remove_listed" /\ n \in todo[w]
      BY <2>4 DEF RemoveListed, Remove
    <3>2. mode = "native"
      BY <3>1 DEF CatalogInv, ListedInv, MarkerOf
    <3>4. n \in UnderPrefix(place[w])
      BY <3>1, <3>2 DEF CatalogInv, ListedInv, UnderPrefix
    <3>3. Inside(n, place[w]) => disturbed[w]
      BY <3>1 DEF CatalogInv, RemovalInv, Removing, IsEmpty, In, MarkerOf
    <3> QED BY <3>1, <3>2, <3>3, <3>4 DEF ByRemoval
  <2>5. CASE RemoveReplaced(w)
    BY <2>5 DEF RemoveReplaced, ByReplacement, CatalogInv, ReplacingInv
  <2> QED BY <2>1, <2>2, <2>3, <2>4, <2>5
<1> QED BY <1>1, CatalogInvariant, PTL DEF Spec, FilesKept

(* Removing a directory touches no file of another one if no name is the beginning of
   another name of its kind, or the bucket has no native versions: the prefix in the
   native listing is the only way out of a directory. *)
THEOREM RemovalStaysInsideApart ==
  ASSUME \/ "native" \notin Modes
         \/ /\ \A p, q \in Projects : <<p, q>> \in ProjectPrefix => p = q
            /\ \A r, s \in Repos : <<r, s>> \in RepoPrefix => r = s
  PROVE  Spec => RemovalStaysInside
<1>. DEFINE Stays == \A w \in Workers : (\E kept \in SUBSET todo[w] : RemoveListed(w, kept)) =>
                       \A n \in current : n[2] # Marker /\ ~Inside(n, place[w]) => n \in current'
<1>1. ASSUME CatalogInv
      PROVE  Stays
  <2>. SUFFICES ASSUME NEW w \in Workers, NEW kept \in SUBSET todo[w], RemoveListed(w, kept),
                       NEW n \in current, n[2] # Marker, ~Inside(n, place[w]), n \notin current'
                PROVE  FALSE
    OBVIOUS
  <2>1. pc[w] = "remove_listed" /\ n \in todo[w]
    BY DEF RemoveListed, Remove
  <2>2. mode = "native"
    BY <1>1, <2>1 DEF CatalogInv, ListedInv, MarkerOf
  <2>3. /\ Prefixed(n, place[w]) /\ mode \in Modes
        /\ n \in Objects /\ place[w] \in Directories
    BY <1>1, <2>1, <2>2 DEF CatalogInv, ListedInv, TypeInv, TypeOK, Removing
  <2>4. PICK p \in Projects, r \in Repos \cup {NoRepo}, q \in Projects, s \in Repos \cup {NoRepo} :
          place[w] = <<p, r>> /\ n[1] = <<q, s>>
    BY <2>3 DEF Objects, Directories, RepoDirs
  <2>5. CASE r = NoRepo
    <3>1. p = q
      BY <2>2, <2>3, <2>4, <2>5 DEF Prefixed, IsProject
    <3>. QED  BY <2>4, <2>5, <3>1 DEF Inside
  <2>6. CASE r # NoRepo
    <3>1. p = q /\ <<r, s>> \in RepoPrefix
      BY <2>3, <2>4, <2>6 DEF Prefixed, IsProject
    <3>2. r = s
      BY <2>2, <2>3, <3>1, PrefixAssumption
    <3>. QED  BY <2>4, <3>1, <3>2 DEF Inside
  <2>. QED  BY <2>5, <2>6
<1>2. CatalogInv /\ [Next]_vars => [Stays]_vars
  BY <1>1
<1>. QED  BY <1>2, CatalogInvariant, PTL DEF Spec, RemovalStaysInside
===============================================================================
