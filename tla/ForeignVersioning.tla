--------------------------- MODULE ForeignVersioning ---------------------------
(***************************************************************************)
(* MinioClientForeignVersioning (src/app/minio_client.py): versions of a   *)
(* file kept by the service itself in a bucket without versioning.  A file *)
(* "f" is the object f, its versions are the objects f_sumbkp_<stamp> and  *)
(* an upload in progress is f_temp_<stamp>.  An upload and a rollback are  *)
(* chains of single S3 calls, and S3 has no rename: rename_object is a     *)
(* copy followed by a remove.  The module follows the objects of one file  *)
(* while the service's gunicorn workers run those chains, one S3 call per  *)
(* step; a worker may be killed, or get an error, between any two calls.   *)
(* Stamps are readings of the clocks of many processes: they have no       *)
(* order, and one may be drawn twice.                                      *)
(***************************************************************************)
EXTENDS Integers

CONSTANTS
  Workers,      \* gunicorn workers of all replicas
  Contents,     \* bodies that clients upload, all different
  NoContent,    \* "there is no such object"
  Unknown,      \* "nothing is promised about the current content"
  MaxStamp,     \* bound: the instants that the clocks show
  Period,       \* TEMP_STORE_PERIOD
  Ops,          \* the operations that clients call
  StatMayFail   \* TRUE: stat_object may fail on an object that exists

AllOps == {"upload", "rollback", "delete", "remove_old", "upload_by_url"}

ASSUME ContentsAssumption ==
  /\ NoContent \notin Contents
  /\ Unknown \notin Contents \cup {NoContent}
ASSUME BoundsAssumption == MaxStamp \in Nat /\ Period \in Nat
ASSUME SwitchAssumption == Ops \subseteq AllOps /\ StatMayFail \in BOOLEAN

Stamps     == 1 .. MaxStamp
Orig       == <<"orig", 0>>            \* the file itself
Temp(s)    == <<"temp", s>>            \* get_temp_name
Version(s) == <<"version", s>>         \* get_version_name, concat_version_name
Names      == ({"temp", "version"} \X Stamps) \cup {Orig}

PC == {"idle", "put", "put_temp", "stat_version", "copy_current", "remove_current",
       "copy_new", "remove_new", "remove_target", "remove_old"}

VARIABLES
  objects,      \* the bucket: the content of each object of the file
  pc,           \* the next S3 call of each worker
  content,      \* the body a worker uploads (what a rollback will restore)
  stamp,        \* the version stamp a worker has drawn
  source,       \* the object a worker renames to the original name, or removes
  expired,      \* versions a worker has still to remove
  offered,      \* history: the bodies handed in so far
  acked,        \* history: the bodies an upload or a rollback answered 200 for
  discarded,    \* history: contents whose last copy a client asked to drop
  wasCurrent,   \* history: contents the original name has held
  abandoned,    \* history: stamps of the uploads that stopped half way
  expected,     \* history: what the original name must hold between requests
  disturbed     \* history: a request has come while another was running, or has drawn a name in use

request == <<content, stamp, source, expired>>
history == <<offered, acked, discarded, wasCurrent, abandoned, expected>>
vars    == <<objects, pc, request, history, disturbed>>

Exists(n)  == objects[n] # NoContent
Stored(c)  == \E n \in Names : objects[n] = c
Current(c) == wasCurrent' = wasCurrent \cup {c}
Quiet      == \A w \in Workers : pc[w] = "idle"

Init ==
  /\ objects = [n \in Names |-> NoContent]
  /\ pc = [w \in Workers |-> "idle"]
  /\ content = [w \in Workers |-> NoContent]
  /\ stamp = [w \in Workers |-> 0]
  /\ source = [w \in Workers |-> Orig]
  /\ expired = [w \in Workers |-> {}]
  /\ offered = {} /\ acked = {} /\ discarded = {} /\ wasCurrent = {} /\ abandoned = {}
  /\ expected = NoContent
  /\ disturbed = FALSE

(***************************************************************************)
(* What the handlers share                                                 *)
(***************************************************************************)

\* The object is there, or a worker is about to make it.
InUse(n) == Exists(n) \/ \E v \in Workers : n \in {source[v], Version(stamp[v])}

\* Nobody looks whether a name that was drawn is in use.
Draws(names) == disturbed' = (disturbed \/ \E n \in names : InUse(n))

\* A sync worker takes its next request when it has finished the last one.
Accepts(w, op, names) ==
  /\ op \in Ops
  /\ pc[w] = "idle"
  /\ IF Quiet THEN Draws(names) ELSE disturbed' = TRUE

Goto(w, label) == pc' = [pc EXCEPT ![w] = label]

\* The handler is over: its local variables are gone.
Leave(w) ==
  /\ Goto(w, "idle")
  /\ content' = [content EXCEPT ![w] = NoContent]
  /\ stamp' = [stamp EXCEPT ![w] = 0]
  /\ source' = [source EXCEPT ![w] = Orig]
  /\ expired' = [expired EXCEPT ![w] = {}]

\* Mutant: the stamp of the next instant.
DrawStampAhead(w, s) == stamp' = [stamp EXCEPT ![w] = s + 1]

(* datetime.now(), to the microsecond, of the worker's process.  The clocks of several
   replicas are not one clock, they may be set back, and two readings may fall into one
   microsecond: any stamp may be drawn, a second time too. *)
DrawStamp(w, s) == stamp' = [stamp EXCEPT ![w] = s]

Write(n, c) == objects' = [objects EXCEPT ![n] = c]

\* A client (or the retention period) asks to drop what n holds.
Discard(n) ==
  discarded' = discarded \cup
    {c \in Contents : objects[n] = c /\ \A m \in Names \ {n} : objects[m] # c}

\* The handler ends in the middle: an exception, or the worker was killed.
GiveUp(w) ==
  /\ Leave(w)
  /\ expected' = Unknown
  /\ abandoned' = abandoned \cup {t \in Stamps : source[w] = Temp(t)}
  /\ UNCHANGED <<objects, offered, acked, discarded, wasCurrent, disturbed>>

(***************************************************************************)
(* upload_file_object                                                      *)
(***************************************************************************)

\* stat of the original: an existing file is uploaded under a temporary name, with a
\* stamp t, and kept as a version, with a stamp s.
UploadStatFound(w, c, t, s) ==
  /\ Accepts(w, "upload", {Temp(t), Version(s)}) /\ c \in Contents \ offered
  /\ Exists(Orig)
  /\ DrawStamp(w, s)
  /\ Goto(w, "put_temp")
  /\ content' = [content EXCEPT ![w] = c]
  /\ source' = [source EXCEPT ![w] = Temp(t)]
  /\ offered' = offered \cup {c}
  /\ UNCHANGED <<objects, expired, acked, discarded, wasCurrent, abandoned, expected>>

\* stat_object returns None for any exception, not only for a missing object.
UploadStatMissing(w, c) ==
  /\ Accepts(w, "upload", {}) /\ c \in Contents \ offered
  /\ ~Exists(Orig) \/ StatMayFail
  /\ Goto(w, "put")
  /\ content' = [content EXCEPT ![w] = c]
  /\ source' = [source EXCEPT ![w] = Orig]
  /\ offered' = offered \cup {c}
  /\ UNCHANGED <<objects, stamp, expired, acked, discarded, wasCurrent, abandoned, expected>>

\* A new file is put straight under its name.
Put(w) ==
  /\ pc[w] = "put"
  /\ Write(Orig, content[w])
  /\ Leave(w)
  /\ Current(content[w])
  /\ acked' = acked \cup {content[w]}
  /\ expected' = content[w]
  /\ UNCHANGED <<offered, discarded, abandoned, disturbed>>

PutTemp(w) ==
  /\ pc[w] = "put_temp"
  /\ Write(source[w], content[w])
  /\ Goto(w, "copy_current")
  /\ UNCHANGED <<request, history, disturbed>>

(***************************************************************************)
(* rename_object, twice: the original becomes a version, then the source   *)
(* (the temporary object of an upload, the version of a rollback) becomes  *)
(* the original                                                            *)
(***************************************************************************)

\* Mutant: the existing file is not kept as a version.
CopyCurrentSkipped(w) ==
  /\ pc[w] = "copy_current" /\ Exists(Orig)
  /\ Goto(w, "remove_current")
  /\ UNCHANGED <<objects, request, history, disturbed>>

\* Mutant: the new body is kept as a version.
CopyCurrentOfNew(w) ==
  /\ pc[w] = "copy_current" /\ Exists(Orig)
  /\ Write(Version(stamp[w]), objects[source[w]])
  /\ Goto(w, "remove_current")
  /\ UNCHANGED <<request, history, disturbed>>

CopyCurrent(w) ==
  /\ pc[w] = "copy_current" /\ Exists(Orig)
  /\ Write(Version(stamp[w]), objects[Orig])
  /\ Goto(w, "remove_current")
  /\ UNCHANGED <<request, history, disturbed>>

RemoveCurrent(w) ==
  /\ pc[w] = "remove_current"
  /\ Write(Orig, NoContent)
  /\ Goto(w, "copy_new")
  /\ UNCHANGED <<request, history, disturbed>>

CopyNew(w) ==
  /\ pc[w] = "copy_new" /\ Exists(source[w])
  /\ Write(Orig, objects[source[w]])
  /\ Goto(w, "remove_new")
  /\ Current(objects[source[w]])
  /\ UNCHANGED <<request, offered, acked, discarded, abandoned, expected, disturbed>>

Answer(w) ==
  /\ Leave(w)
  /\ acked' = acked \cup {content[w]}
  /\ expected' = content[w]
  /\ UNCHANGED <<offered, discarded, wasCurrent, abandoned, disturbed>>

\* Mutants: the rename removes the new name, or removes nothing.
RemoveNewTarget(w) == pc[w] = "remove_new" /\ Write(Orig, NoContent) /\ Answer(w)
RemoveNewSkipped(w) == pc[w] = "remove_new" /\ UNCHANGED objects /\ Answer(w)

RemoveNew(w) ==
  /\ pc[w] = "remove_new"
  /\ Write(source[w], NoContent)
  /\ Answer(w)

\* copy_object raises when the object to copy is gone.
CopyFails(w) ==
  /\ \/ pc[w] = "copy_current" /\ ~Exists(Orig)
     \/ pc[w] = "copy_new" /\ ~Exists(source[w])
  /\ GiveUp(w)

(***************************************************************************)
(* rollback: both stats must find their object, else the answer is 404     *)
(***************************************************************************)

RollbackStatOrig(w, s) ==
  /\ Accepts(w, "rollback", {})
  /\ Exists(Orig)
  /\ Goto(w, "stat_version")
  /\ source' = [source EXCEPT ![w] = Version(s)]
  /\ UNCHANGED <<objects, content, stamp, expired, history>>

RollbackStatVersion(w, s) ==
  /\ pc[w] = "stat_version" /\ Exists(source[w])
  /\ Draws({Version(s)})
  /\ DrawStamp(w, s)
  /\ content' = [content EXCEPT ![w] = objects[source[w]]]
  /\ Goto(w, "copy_current")
  /\ UNCHANGED <<objects, source, expired, history>>

RollbackNotFound(w) ==
  /\ pc[w] = "stat_version" /\ ~Exists(source[w])
  /\ Leave(w)
  /\ UNCHANGED <<objects, history, disturbed>>

(***************************************************************************)
(* The operations that drop contents on request                            *)
(***************************************************************************)

\* delete_object_s3 and remove_file: list the repository, then remove.  The
\* listing shows versions and temporary objects too, so any name may be meant.
DeleteList(w, n) ==
  /\ Accepts(w, "delete", {})
  /\ Exists(n)
  /\ Goto(w, "remove_target")
  /\ source' = [source EXCEPT ![w] = n]
  /\ UNCHANGED <<objects, content, stamp, expired, history>>

DeleteRemove(w) ==
  /\ pc[w] = "remove_target"
  /\ Write(source[w], NoContent)
  /\ Discard(source[w])
  /\ Leave(w)
  /\ expected' = IF source[w] = Orig THEN NoContent ELSE expected
  /\ UNCHANGED <<offered, acked, wasCurrent, abandoned, disturbed>>

\* remove_old_versions: the versions stamped before the storage period, now being what
\* the clock of the worker shows.
RemoveOldList(w, now) ==
  /\ Accepts(w, "remove_old", {})
  /\ LET old == {s \in Stamps : Exists(Version(s)) /\ s + Period < now}
     IN  old # {} /\ expired' = [expired EXCEPT ![w] = old]
  /\ Goto(w, "remove_old")
  /\ source' = [source EXCEPT ![w] = Orig]
  /\ UNCHANGED <<objects, content, stamp, history>>

RemoveOldVersion(w, s) ==
  /\ pc[w] = "remove_old"
  /\ s \in expired[w] /\ \A r \in expired[w] : s <= r
  /\ Write(Version(s), NoContent)
  /\ Discard(Version(s))
  /\ IF expired[w] = {s} THEN Leave(w)
     ELSE expired' = [expired EXCEPT ![w] = @ \ {s}] /\ UNCHANGED <<pc, content, stamp, source>>
  /\ UNCHANGED <<offered, acked, wasCurrent, abandoned, expected, disturbed>>

\* upload_by_url puts the object directly: what it replaces gets no version.
UploadByUrl(w, c) ==
  /\ Accepts(w, "upload_by_url", {}) /\ c \in Contents \ offered
  /\ Write(Orig, c)
  /\ Current(c)
  /\ offered' = offered \cup {c} /\ acked' = acked \cup {c}
  /\ Discard(Orig)
  /\ expected' = c
  /\ UNCHANGED <<pc, request, abandoned>>

(***************************************************************************)
(* A worker is killed (gunicorn's timeout) or S3 raises between two calls  *)
(***************************************************************************)

Abort(w) == pc[w] # "idle" /\ GiveUp(w)

Next ==
  \E w \in Workers :
    \/ \E c \in Contents : UploadStatMissing(w, c) \/ UploadByUrl(w, c)
    \/ \E c \in Contents, t, s \in Stamps : UploadStatFound(w, c, t, s)
    \/ Put(w) \/ PutTemp(w)
    \/ CopyCurrent(w) \/ RemoveCurrent(w) \/ CopyNew(w) \/ RemoveNew(w) \/ CopyFails(w)
    \/ \E s \in Stamps : RollbackStatOrig(w, s) \/ RollbackStatVersion(w, s) \/ RemoveOldVersion(w, s)
    \/ RollbackNotFound(w)
    \/ \E n \in Names : DeleteList(w, n)
    \/ DeleteRemove(w)
    \/ \E now \in Stamps : RemoveOldList(w, now)
    \/ Abort(w)

Spec == Init /\ [][Next]_vars

(***************************************************************************)
(* Properties                                                              *)
(***************************************************************************)

TypeOK ==
  /\ objects \in [Names -> Contents \cup {NoContent}]
  /\ pc \in [Workers -> PC]
  /\ content \in [Workers -> Contents \cup {NoContent}]
  /\ stamp \in [Workers -> 0 .. MaxStamp]
  /\ source \in [Workers -> Names]
  /\ expired \in [Workers -> SUBSET Stamps]
  /\ offered \subseteq Contents /\ acked \subseteq Contents
  /\ discarded \subseteq Contents /\ wasCurrent \subseteq Contents
  /\ abandoned \subseteq Stamps
  /\ expected \in Contents \cup {NoContent, Unknown}
  /\ disturbed \in BOOLEAN

(* A body for which an upload or a rollback answered 200 is in the bucket, as the
   file, a version or a temporary object, until a client drops its last copy:
   upload_file_object and rollback copy before they remove, so that neither a
   kill nor an error between two of their calls loses data.  Where requests overlap, or
   draw a name that is in use, the code promises nothing. *)
NoContentLost == ~disturbed => \A c \in acked \ discarded : Stored(c)

(* Between requests the file holds what the last successful request left:
   the body of an upload, the version a rollback asked for, nothing after a
   delete; after a request that stopped half way nothing is promised. *)
QuietMatchesExpected == ~disturbed /\ Quiet /\ expected # Unknown => objects[Orig] = expected

(* What the version list offers was the file's content at some time: bytes of
   an upload that never took effect are never listed as a version. *)
VersionsWereCurrent ==
  \A s \in Stamps : Exists(Version(s)) => objects[Version(s)] \in wasCurrent

(* A temporary object belongs to an upload that is running or that stopped
   half way: a successful upload leaves none behind. *)
Uploading(w, s) ==
  /\ pc[w] \in {"copy_current", "remove_current", "copy_new", "remove_new"}
  /\ source[w] = Temp(s)
TempsAccountedFor ==
  \A s \in Stamps : Exists(Temp(s)) =>
    s \in abandoned \/ \E w \in Workers : Uploading(w, s)

(* Chains of S3 calls on a file, killed anywhere, look to their clients like single
   steps of a file with versions, as long as the chains do not overlap and the
   names they draw are not in use.  An
   upload or a rollback takes effect when the new body is copied onto the name:
   its temporary object, the copy made for the version until then, and the version
   that a rollback has restored and not yet removed, do not count. *)
Restoring(w) == pc[w] = "copy_new"
Uncounted(n) ==
  \E w \in Workers :
    \/ pc[w] \in {"remove_current", "copy_new"} /\ n = Version(stamp[w])
    \/ \E s \in Stamps : Uploading(w, s) /\ n = Temp(s)
    \/ pc[w] = "remove_new" /\ n = source[w]
CurrentBody ==
  IF \E w \in Workers : Restoring(w)
  THEN objects[Version(stamp[CHOOSE w \in Workers : Restoring(w)])]
  ELSE objects[Orig]
Counted    == {n \in Names \ {Orig} : Exists(n) /\ ~Uncounted(n)}
KeptBodies == {objects[n] : n \in Counted}
File == INSTANCE VersionedFile WITH
          current <- CurrentBody, kept <- KeptBodies, dropped <- discarded, alone <- ~disturbed
ImplementsVersionedFile == File!Spec
=============================================================================
