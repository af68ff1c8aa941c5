------------------------------- MODULE S3Catalog -------------------------------
(***************************************************************************)
(* Projects and repositories in the bucket (src/app/minio_client.py and    *)
(* the routes of src/app/s3_minio.py).  S3 has no directories: a project p *)
(* exists while there is an object under "p/", a repository while there is *)
(* one under "p/r/", and creating one puts the marker ".empty".  Creation, *)
(* removal, upload and copy are chains of listings and single S3 calls     *)
(* which the workers interleave.  The modes differ in two of them:         *)
(*   plain      no versioning: the base class (MinioClientNoneVersioning); *)
(*   hcpno      HCP without versioning removes a file before it puts the   *)
(*              new one (MinioClientHCPNoneVersioning);                    *)
(*   native     removes a directory by listing the names that start with   *)
(*              the name of the directory (MinioClientNativeVersioning);   *)
(*   hcp        lists the marker, and the names of directories, which are  *)
(*              no objects (MinioClientNativeHCPVersioning).               *)
(* The foreign mode is none of these: it renames the file at each upload   *)
(* and rollback, which module ForeignVersioning follows.                   *)
(* Contents and versions of the files are not followed here: S3 deletes    *)
(* all the listed versions of a name or none.                              *)
(***************************************************************************)
EXTENDS Naturals

CONSTANTS
  Workers,        \* gunicorn workers of all replicas
  Projects,
  Repos,          \* names of repositories, in any project
  Files,
  Marker,         \* EMPTY_NAME
  NoRepo,         \* stands for the repository in the name of a project
  NoProject,      \* stands for the project of a worker without a request
  ProjectPrefix,  \* <<p, q>>: the name p is a prefix of the name q
  RepoPrefix,     \* <<r, s>>: the name r is a prefix of the name s
  StatMayFail,    \* TRUE: stat_object may fail on an object that exists
  Modes,          \* versioning modes to look at
  Ops             \* the operations that clients call

AllModes == {"plain", "hcpno", "native", "hcp"}
Listing  == {"native", "hcp"}    \* the modes that remove what they list
AllOps   == {"create", "upload", "delete", "remove", "copy"}

ASSUME NamesAssumption == Marker \notin Files /\ NoRepo \notin Repos /\ NoProject \notin Projects
ASSUME PrefixAssumption ==
  /\ ProjectPrefix \subseteq Projects \X Projects /\ \A p \in Projects : <<p, p>> \in ProjectPrefix
  /\ RepoPrefix \subseteq Repos \X Repos /\ \A r \in Repos : <<r, r>> \in RepoPrefix
ASSUME SwitchAssumption == Modes \subseteq AllModes /\ Ops \subseteq AllOps /\ StatMayFail \in BOOLEAN

Directories == Projects \X (Repos \cup {NoRepo})    \* <<p, NoRepo>> is the project itself
RepoDirs    == Projects \X Repos
Nowhere     == <<NoProject, NoRepo>>
Objects     == {<<d, Marker>> : d \in Directories} \cup (RepoDirs \X Files)

VARIABLES
  mode,        \* VERSIONING, the same in every worker
  current,     \* the objects in the bucket (their latest versions)
  pc,          \* the next call of each worker
  place,       \* the directory a worker works on
  todo,        \* objects a worker has still to put, to copy into place[w], or to remove
  disturbed,   \* history: something was put in place[w] since a removal found it empty
  gone,        \* history: directories removed with 200 and not put into since
  stored       \* history: files put, and neither deleted nor lost by an upload that failed since

request == <<pc, place, todo, disturbed>>
vars    == <<mode, current, request, gone, stored>>

PC == {"idle", "stat", "replace", "put", "remove_file", "remove", "remove_listed", "check_copy", "copy"}

\* The directories an object is in: its repository and its project.
Inside(n, d)  == n[1] = d \/ (n[1][1] = d[1] /\ d[2] = NoRepo)
In(d)         == {n \in current : Inside(n, d)}
FilesIn(d)    == {n \in In(d) : n[2] # Marker}
MarkerOf(d)   == <<d, Marker>>
IsProject(d)  == d[2] = NoRepo

\* A removal, once it has found its directory empty.
Removing(w) == pc[w] \in {"remove", "remove_listed"}

\* The name of n starts with the name of the directory, without a slash at its end.
Prefixed(n, d) ==
  IF IsProject(d) THEN <<d[1], n[1][1]>> \in ProjectPrefix
  ELSE n[1][1] = d[1] /\ <<d[2], n[1][2]>> \in RepoPrefix
UnderPrefix(d) == {n \in current : Prefixed(n, d)}

Init ==
  /\ mode \in Modes
  /\ current = {} /\ gone = {} /\ stored = {}
  /\ pc = [w \in Workers |-> "idle"]
  /\ place = [w \in Workers |-> Nowhere]
  /\ todo = [w \in Workers |-> {}]
  /\ disturbed = [w \in Workers |-> FALSE]

\* A request on directory d, with the objects ns to handle, whose next call is label.
Begin(w, op, d, ns, label) ==
  /\ op \in Ops /\ pc[w] = "idle"
  /\ pc' = [pc EXCEPT ![w] = label]
  /\ place' = [place EXCEPT ![w] = d]
  /\ todo' = [todo EXCEPT ![w] = ns]
  /\ UNCHANGED <<mode, current, disturbed, gone, stored>>

\* The next call is label.
Goto(w, label) ==
  /\ pc' = [pc EXCEPT ![w] = label]
  /\ UNCHANGED <<mode, place, disturbed>>

\* The request is over.
Finish(w) ==
  /\ pc' = [pc EXCEPT ![w] = "idle"]
  /\ place' = [place EXCEPT ![w] = Nowhere]
  /\ todo' = [todo EXCEPT ![w] = {}]
  /\ disturbed' = [disturbed EXCEPT ![w] = FALSE]
  /\ UNCHANGED mode

\* n is put, and t is handled, by w.  The put makes a new version: a listing of
\* versions taken before does not hold it.
PutObject(w, n, t) ==
  LET last == pc[w] # "copy" /\ todo[w] \subseteq {t} IN
  /\ current' = current \cup {n}
  /\ gone' = {d \in gone : ~Inside(n, d)}
  /\ stored' = stored \cup ({n} \cap (RepoDirs \X Files))
  /\ pc' = IF last THEN [pc EXCEPT ![w] = "idle"] ELSE pc
  /\ place' = IF last THEN [place EXCEPT ![w] = Nowhere] ELSE place
  /\ todo' = [x \in Workers |->
       CASE x = w -> todo[x] \ {t}
         [] x # w /\ pc[x] = "remove_listed" /\ mode = "native" -> todo[x] \ {n}
         [] OTHER -> todo[x]]
  /\ disturbed' = [x \in Workers |->
       IF x = w THEN FALSE ELSE disturbed[x] \/ (Removing(x) /\ Inside(n, place[x]))]
  /\ UNCHANGED mode

(***************************************************************************)
(* create_project, create_repo: stat the marker, then put it               *)
(***************************************************************************)

\* Any error of the stat counts as "no such object".
CreateStat(w, d) ==
  /\ MarkerOf(d) \notin current \/ StatMayFail
  /\ Begin(w, "create", d, {MarkerOf(d)}, "put")

(***************************************************************************)
(* upload_file, upload_by_url and upload_multiple_files: the repository    *)
(* need not exist.  The latter uploads its files one after the other, and  *)
(* its listing only sorts the answer into new and replaced.                *)
(***************************************************************************)

UploadStart(w, n) ==
  /\ n[2] # Marker
  /\ Begin(w, "upload", n[1], {n}, IF mode = "hcpno" THEN "stat" ELSE "put")

ReplaceFound(w) ==
  /\ pc[w] = "stat" /\ todo[w] \subseteq current
  /\ Goto(w, "replace")
  /\ UNCHANGED <<current, todo, gone, stored>>

ReplaceMissing(w) ==
  /\ pc[w] = "stat" /\ (StatMayFail \/ todo[w] \cap current = {})
  /\ Goto(w, "put")
  /\ UNCHANGED <<current, todo, gone, stored>>

\* Mutant: the upload ends with the removal.
RemoveReplacedLast(w) ==
  /\ pc[w] = "replace"
  /\ current' = current \ todo[w]
  /\ Finish(w)
  /\ UNCHANGED <<gone, stored>>

RemoveReplaced(w) ==
  /\ pc[w] = "replace"
  /\ current' = current \ todo[w]
  /\ Goto(w, "put")
  /\ UNCHANGED <<todo, gone, stored>>

\* Creation ends with this call too.
Put(w, n) == pc[w] = "put" /\ n \in todo[w] /\ PutObject(w, n, n)

(***************************************************************************)
(* delete_object_s3: list, then remove                                     *)
(***************************************************************************)

DeleteList(w, n) ==
  /\ n \in FilesIn(n[1])
  /\ Begin(w, "delete", n[1], {n}, "remove_file")

DeleteRemove(w) ==
  /\ pc[w] = "remove_file"
  /\ current' = current \ todo[w]
  /\ stored' = stored \ todo[w]
  /\ Finish(w)
  /\ UNCHANGED gone

(***************************************************************************)
(* remove_repo, remove_project                                             *)
(***************************************************************************)

\* A repository must hold no file, a project no repository.
IsEmpty(d) == In(d) \subseteq {MarkerOf(d)}

RemoveList(w, d) == IsEmpty(d) /\ Begin(w, "remove", d, {}, "remove")

\* The objects ns are removed, and the answer is 200, "Repo removed"; failed says
\* that S3 did not do all that the code asked for.
Remove(w, ns, failed) ==
  /\ current' = current \ ns
  /\ stored' = stored \ ns
  /\ gone' = IF disturbed[w] \/ failed THEN gone ELSE gone \cup {place[w]}
  /\ Finish(w)

\* Mutant: the removal does nothing.
RemoveNothing(w) == pc[w] = "remove" /\ Remove(w, {}, FALSE)

RemoveMarker(w) ==
  /\ pc[w] = "remove" /\ mode \notin Listing
  /\ Remove(w, {MarkerOf(place[w])}, FALSE)

\* remove_project asks for the marker first, and takes an error for "no such object".
RemoveUnseen(w) ==
  /\ pc[w] = "remove" /\ mode \notin Listing
  /\ IsProject(place[w]) /\ StatMayFail
  /\ Remove(w, {}, TRUE)

\* What the listings of the removal return: native, every version under the prefix.
Listed(d) == IF mode = "native" THEN UnderPrefix(d) ELSE {MarkerOf(d)} \cap current

\* The list is then handed to remove_objects.
RemoveListNames(w) ==
  /\ pc[w] = "remove" /\ mode \in Listing
  /\ todo' = [todo EXCEPT ![w] = Listed(place[w])]
  /\ Goto(w, "remove_listed")
  /\ UNCHANGED <<current, gone, stored>>

\* Errors of single objects are logged, and the answer is 200.
RemoveListed(w, kept) ==
  /\ pc[w] = "remove_listed" /\ kept \subseteq todo[w]
  /\ Remove(w, todo[w] \ kept, kept # {})

(***************************************************************************)
(* create_repo_copy                                                        *)
(***************************************************************************)

\* Mutant: the names that the listing returns are taken for the objects.
CopyListNames(w, from, to) ==
  /\ In(from) # {}
  /\ Begin(w, "copy", to, {n[2] : n \in In(from)}, "check_copy")

CopyList(w, from, to) ==
  /\ In(from) # {}
  /\ Begin(w, "copy", to, In(from), "check_copy")

CopyCheck(w) ==
  /\ pc[w] = "check_copy"
  /\ In(place[w]) = {}
  /\ Goto(w, "copy")
  /\ UNCHANGED <<current, todo, gone, stored>>

\* A destination that is not empty: 400.
CopyRefused(w) ==
  /\ pc[w] = "check_copy"
  /\ In(place[w]) # {}
  /\ Finish(w)
  /\ UNCHANGED <<current, gone, stored>>

CopyObject(w, n) ==
  /\ pc[w] = "copy" /\ n \in todo[w] \cap current
  /\ PutObject(w, <<place[w], n[2]>>, n)

\* The object is gone from the source, or S3 fails: a warning, and on to the next.
CopySkip(w, n) ==
  /\ pc[w] = "copy" /\ n \in todo[w]
  /\ todo' = [todo EXCEPT ![w] = @ \ {n}]
  /\ UNCHANGED <<mode, current, pc, place, disturbed, gone, stored>>

CopyDone(w) ==
  /\ pc[w] = "copy" /\ todo[w] = {}
  /\ Finish(w)
  /\ UNCHANGED <<current, gone, stored>>

\* A worker is killed, or S3 raises outside the copy loop.  HCP has then lost the file
\* that was to be replaced.
Abort(w) ==
  /\ pc[w] # "idle"
  /\ stored' = IF mode = "hcpno" /\ pc[w] = "put" THEN stored \ (todo[w] \ current) ELSE stored
  /\ Finish(w)
  /\ UNCHANGED <<current, gone>>

Next ==
  \E w \in Workers :
    \/ \E d \in Directories : CreateStat(w, d) \/ RemoveList(w, d)
    \/ \E n \in RepoDirs \X Files : UploadStart(w, n) \/ DeleteList(w, n)
    \/ \E n \in Objects : Put(w, n) \/ CopyObject(w, n) \/ CopySkip(w, n)
    \/ \E from, to \in RepoDirs : CopyList(w, from, to)
    \/ \E kept \in SUBSET todo[w] : RemoveListed(w, kept)
    \/ ReplaceFound(w) \/ ReplaceMissing(w) \/ RemoveReplaced(w)
    \/ DeleteRemove(w) \/ RemoveMarker(w) \/ RemoveUnseen(w) \/ RemoveListNames(w)
    \/ CopyCheck(w) \/ CopyRefused(w) \/ CopyDone(w) \/ Abort(w)

Spec == Init /\ [][Next]_vars

(***************************************************************************)
(* Properties                                                              *)
(***************************************************************************)

TypeOK ==
  /\ mode \in Modes
  /\ current \subseteq Objects
  /\ pc \in [Workers -> PC]
  /\ place \in [Workers -> Directories \cup {Nowhere}]
  /\ todo \in [Workers -> SUBSET Objects]
  /\ disturbed \in [Workers -> BOOLEAN]
  /\ gone \subseteq Directories
  /\ stored \subseteq Objects

(* A directory whose removal was answered with 200 is not listed any more, unless
   something was put into it after the removal had found it empty (or S3
   has failed to find or to delete one of its objects): no step of another request brings
   back a repository or a project that is gone. *)
RemovedIsGone == \A d \in gone : In(d) = {}

(* In each mode but the foreign one a file disappears only when a client deletes it by
   its name, when HCP replaces it or, in the native mode, by the removal of a directory whose name is a prefix of its
   directory's name, or into which it was put after the directory was found empty. *)
ByName(n) == \E w \in Workers : DeleteRemove(w) /\ n \in todo[w]
ByReplacement(n) == mode = "hcpno" /\ \E w \in Workers : RemoveReplaced(w) /\ n \in todo[w]
ByRemoval(n) ==
  \E w \in Workers :
    /\ mode = "native" /\ pc[w] = "remove_listed" /\ n \in UnderPrefix(place[w])
    /\ Inside(n, place[w]) => disturbed[w]
FileKept(n) == n[2] # Marker /\ n \notin current' => ByName(n) \/ ByReplacement(n) \/ ByRemoval(n)
FilesKept == [][\A n \in current : FileKept(n)]_vars

(* A file that was put and not deleted since, nor lost by an upload that failed after
   HCP had removed it, is in the bucket, unless an upload of HCP is just about to put
   it again: uploads of one file that overtake each other do not lose it (in each mode
   but the foreign one, whose renames take the file away for a while). *)
StoredIsThere ==
  \A n \in stored :
    n \in current \/ (mode = "hcpno" /\ \E w \in Workers : pc[w] = "put" /\ n \in todo[w])

(* Removing a repository or a project touches no file of another one. *)
RemovalStaysInside ==
  [][\A w \in Workers : (\E kept \in SUBSET todo[w] : RemoveListed(w, kept)) =>
       \A n \in current : n[2] # Marker /\ ~Inside(n, place[w]) => n \in current']_vars
=============================================================================
