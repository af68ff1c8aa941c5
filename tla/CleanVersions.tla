----------------------------- MODULE CleanVersions -----------------------------
(***************************************************************************)
(* MinioClientNativeVersioning (src/app/minio_client.py) and the route     *)
(* /s3/clean_versions (src/app/s3_minio.py): versions are kept by the      *)
(* bucket, and a cleaning request removes those that are too old or too    *)
(* many, guarded by a "lock" in Redis that is read, then written, by       *)
(* separate commands and that expires by itself.  Files do not affect each *)
(* other, so the module follows the versions of one file, each an integer  *)
(* that grows with its creation time, while workers clean, delete and roll *)
(* back.  Time is counted in units of 30 seconds for the lock and the      *)
(* workers, and by a cut-off that moves for the storage period of months.  *)
(***************************************************************************)
EXTENDS Integers, FiniteSets

CONSTANTS
  Workers,        \* gunicorn workers of all replicas
  MaxVersion,     \* bound: how many versions are ever created
  Keep,           \* VERSION_STORE_COUNT
  Rules,          \* VERSIONING_CLEAN_RULES
  Ttl,            \* 120 s, the time to live of the lock
  Timeout,        \* 90 s, after which gunicorn kills a busy worker
  NoWorker,
  Ops,            \* the operations on the file that clients call
  RedisMayFail    \* TRUE: a Redis command may raise ConnectionError

AllOps == {"upload", "delete", "rollback", "delete_version", "remove_old", "clean"}

ASSUME BoundsAssumption ==
  /\ MaxVersion \in Nat /\ Keep \in Nat /\ Rules \in Int
  /\ Ttl \in Nat /\ Timeout \in Nat \ {0} /\ Ttl > Timeout
ASSUME SwitchAssumption ==
  Ops \subseteq AllOps /\ RedisMayFail \in BOOLEAN /\ NoWorker \notin Workers

Versions == 1 .. MaxVersion

VARIABLES
  alive,       \* the versions (and delete markers) of the file in the bucket
  last,        \* the youngest version ever created
  markers,     \* which versions are delete markers
  cutoff,      \* versions up to this one are older than TEMP_STORE_PERIOD
  data,        \* time left to the key clean_versions:<hash>, 0 when absent
  status,      \* CacheStatus under clean_versions:<hash>:status, "none" when absent
  statusLeft,  \* time left to that key
  pc,          \* where each worker is
  age,         \* how long each worker has been busy with its request
  todoOld,     \* versions a worker has found old and not yet removed
  todoDoubles, \* versions a worker has found to be too many
  owner,       \* history: the worker whose request wrote the status last
  dropped      \* history: versions that a client deleted by their id

bucket == <<alive, last, markers, cutoff, dropped>>
lock   == <<data, status, statusLeft, owner>>
worker == <<pc, age, todoOld, todoDoubles>>
vars   == <<bucket, lock, worker>>

Cleaning == {"clean", "remove_old", "remove_doubles"}
PC == {"idle", "get_status", "block_data", "block_status", "file_old", "ok_data", "ok_status",
       "error_data", "error_status"} \cup Cleaning
Statuses == {"none", "blocked for editing", "ok", "unexpected error"}

Youngest(v, V) == v \in V /\ \A u \in V : u <= v
AnyListed      == alive                                    \* mutant: the latest too
Noncurrent     == {v \in alive : \E u \in alive : u > v}    \* not is_latest
Blocked        == data > 0 /\ status = "blocked for editing"

Init ==
  /\ alive = {} /\ last = 0 /\ markers = {} /\ cutoff = 0
  /\ data = 0 /\ status = "none" /\ statusLeft = 0
  /\ pc = [w \in Workers |-> "idle"]
  /\ age = [w \in Workers |-> 0]
  /\ todoOld = [w \in Workers |-> {}]
  /\ todoDoubles = [w \in Workers |-> {}]
  /\ owner = NoWorker /\ dropped = {}

(***************************************************************************)
(* The file: every operation is one S3 call                                *)
(***************************************************************************)

NewVersion ==
  /\ last < MaxVersion
  /\ last' = last + 1
  /\ alive' = alive \cup {last + 1}

\* upload_file_object: a put creates the next version.
Upload ==
  /\ "upload" \in Ops
  /\ NewVersion
  /\ UNCHANGED <<markers, cutoff, dropped, lock, worker>>

\* delete_object_s3, without a version id: the bucket adds a delete marker.
DeleteFile ==
  /\ "delete" \in Ops
  /\ alive # {}
  /\ NewVersion
  /\ markers' = markers \cup {last + 1}
  /\ UNCHANGED <<cutoff, dropped, lock, worker>>

\* rollback copies a version that has content onto the file (a version that
\* its stat has not found is not there for the copy either).
Rollback(v) ==
  /\ "rollback" \in Ops
  /\ v \in alive \ markers
  /\ NewVersion
  /\ UNCHANGED <<markers, cutoff, dropped, lock, worker>>

\* delete_version removes the version for good, the current one included.
DeleteVersion(v) ==
  /\ "delete_version" \in Ops
  /\ v \in alive
  /\ alive' = alive \ {v}
  /\ dropped' = dropped \cup {v}
  /\ UNCHANGED <<last, markers, cutoff, lock, worker>>

\* Months pass; no request lasts that long.
MonthsPass ==
  /\ cutoff < last
  /\ \A w \in Workers : pc[w] = "idle"
  /\ cutoff' = cutoff + 1
  /\ UNCHANGED <<alive, last, markers, dropped, lock, worker>>

(***************************************************************************)
(* Workers                                                                 *)
(***************************************************************************)

Goto(w, label) == pc' = [pc EXCEPT ![w] = label]

\* The request is answered, or its worker is gone.
Leave(w) ==
  /\ Goto(w, "idle")
  /\ age' = [age EXCEPT ![w] = 0]
  /\ todoOld' = [todoOld EXCEPT ![w] = {}]
  /\ todoDoubles' = [todoDoubles EXCEPT ![w] = {}]

Move(w, label) == Goto(w, label) /\ UNCHANGED <<age, todoOld, todoDoubles>>

Old(V)     == {v \in V : v <= cutoff}
OneTooMany(V) == {v \in V : Cardinality({u \in V : u > v}) >= Keep - 1}   \* mutant
Doubles(V) == {v \in V : Cardinality({u \in V : u > v}) >= Keep}

\* One S3 call of a loop: the youngest of the versions still to remove.
RemoveNext(v, todo) == Youngest(v, todo) /\ alive' = alive \ {v}

(* remove_old_versions of one file: list, keep what is old and not current.  S3 lists by
   a prefix without an end, so that versions of files whose names begin with this one's
   are on the list too.  They are removed under this file's name, which has no such
   versions, and are left out here. *)
FileOldList(w) ==
  /\ "remove_old" \in Ops
  /\ pc[w] = "idle"
  /\ Old(Noncurrent) # {}
  /\ todoOld' = [todoOld EXCEPT ![w] = Old(Noncurrent)]
  /\ Goto(w, "file_old")
  /\ UNCHANGED <<bucket, lock, age, todoDoubles>>

FileOldRemove(w, v) ==
  /\ pc[w] = "file_old"
  /\ RemoveNext(v, todoOld[w])
  /\ IF todoOld[w] = {v} THEN Leave(w)
     ELSE todoOld' = [todoOld EXCEPT ![w] = @ \ {v}] /\ UNCHANGED <<pc, age, todoDoubles>>
  /\ UNCHANGED <<last, markers, cutoff, dropped, lock>>

(***************************************************************************)
(* clean_versions_s3: Cache.get_by_data, then save_cache(Blocked)          *)
(***************************************************************************)

\* GET of the data key; a ConnectionError counts as "no entry".
GetData(w) ==
  /\ "clean" \in Ops
  /\ pc[w] = "idle"
  /\ \/ data > 0 /\ Move(w, "get_status")
     \/ (data = 0 \/ RedisMayFail) /\ Move(w, "block_data")
  /\ owner' = IF owner = w THEN NoWorker ELSE owner
  /\ UNCHANGED <<bucket, data, status, statusLeft>>

\* Mutant: a request that is refused renews the lock.
GetStatusRenewing(w) ==
  /\ pc[w] = "get_status"
  /\ \/ status = "blocked for editing" /\ Leave(w) /\ data' = Ttl /\ statusLeft' = Ttl
     \/ status # "blocked for editing" /\ Move(w, "block_data") /\ UNCHANGED <<data, statusLeft>>
  /\ UNCHANGED <<bucket, status, owner>>

\* GET of the status key: a blocked entry refuses the request with 409.
GetStatus(w) ==
  /\ pc[w] = "get_status"
  /\ \/ status = "blocked for editing" /\ Leave(w)
     \/ (status # "blocked for editing" \/ RedisMayFail) /\ Move(w, "block_data")
  /\ UNCHANGED <<bucket, lock>>

\* save_cache: SET data, then SET status, both with the time to live.
SetData(w, from, next) ==
  /\ pc[w] = from
  /\ data' = Ttl
  /\ Move(w, next)
  /\ UNCHANGED <<bucket, status, statusLeft, owner>>

\* Mutant: a time to live no longer than gunicorn's timeout.
SetStatusForTimeout(w, value) ==
  /\ status' = value /\ statusLeft' = Timeout /\ owner' = w
  /\ UNCHANGED <<bucket, data>>

SetStatus(w, value) ==
  /\ status' = value /\ statusLeft' = Ttl /\ owner' = w
  /\ UNCHANGED <<bucket, data>>

BlockData(w)   == SetData(w, "block_data", "block_status")
BlockStatus(w) == pc[w] = "block_status" /\ SetStatus(w, "blocked for editing") /\ Move(w, "clean")
OkData(w)      == SetData(w, "ok_data", "ok_status")
OkStatus(w)    == pc[w] = "ok_status" /\ SetStatus(w, "ok") /\ Leave(w)
ErrorData(w)   == SetData(w, "error_data", "error_status")
ErrorRaw(w)    == pc[w] = "error_status" /\ SetStatus(w, "error") /\ Leave(w)   \* mutant
ErrorStatus(w) == pc[w] = "error_status" /\ SetStatus(w, "unexpected error") /\ Leave(w)

\* save_cache only logs a ConnectionError: the handler goes on without the lock.
SaveFails(w) ==
  /\ RedisMayFail
  /\ \/ pc[w] \in {"block_data", "block_status"} /\ Move(w, "clean")
     \/ pc[w] \in {"ok_data", "ok_status", "error_data", "error_status"} /\ Leave(w)
  /\ UNCHANGED <<bucket, lock>>

(***************************************************************************)
(* clean_versions.  The rules are tested with "and", not "&": any rule but *)
(* 0 turns both passes on                                                  *)
(***************************************************************************)

RemovesOld     == Rules # 0
RemovesDoubles == Rules # 0

\* prepare_items lists the versions that are not current; remove_doubles counts
\* the ones remove_old has deleted, and skips them.  Rule 0 leaves both passes empty.
PrepareItems(w) ==
  /\ pc[w] = "clean" /\ Rules \in 0 .. 3
  /\ LET old     == IF RemovesOld THEN Old(Noncurrent) ELSE {}
         doubles == IF RemovesDoubles THEN Doubles(Noncurrent) \ old ELSE {}
     IN  /\ todoOld' = [todoOld EXCEPT ![w] = old]
         /\ todoDoubles' = [todoDoubles EXCEPT ![w] = doubles]
  /\ Goto(w, "remove_old")
  /\ UNCHANGED <<bucket, lock, age>>

RemoveOld(w, v) ==
  /\ pc[w] = "remove_old"
  /\ RemoveNext(v, todoOld[w])
  /\ todoOld' = [todoOld EXCEPT ![w] = @ \ {v}]
  /\ UNCHANGED <<last, markers, cutoff, dropped, lock, pc, age, todoDoubles>>

OldDone(w) ==
  /\ pc[w] = "remove_old" /\ todoOld[w] = {}
  /\ Move(w, "remove_doubles")
  /\ UNCHANGED <<bucket, lock>>

RemoveDouble(w, v) ==
  /\ pc[w] = "remove_doubles"
  /\ RemoveNext(v, todoDoubles[w])
  /\ todoDoubles' = [todoDoubles EXCEPT ![w] = @ \ {v}]
  /\ UNCHANGED <<last, markers, cutoff, dropped, lock, pc, age, todoOld>>

DoublesDone(w) ==
  /\ pc[w] = "remove_doubles" /\ todoDoubles[w] = {}
  /\ Move(w, "ok_data")
  /\ UNCHANGED <<bucket, lock>>

\* An S3 call raises, or VersioningCleanRulesError for a rule that is not in 0..3:
\* save_cache(UnexpectedError), and 400 or 409.
CleanFails(w) ==
  /\ pc[w] \in Cleaning
  /\ Move(w, "error_data")
  /\ UNCHANGED <<bucket, lock>>

(***************************************************************************)
(* Time.  A sync worker busy for Timeout is killed wherever it is (an S3   *)
(* error ends remove_old_versions the same way); Redis expires the keys    *)
(***************************************************************************)

Kill(w) ==
  /\ pc[w] # "idle"
  /\ Leave(w)
  /\ UNCHANGED <<bucket, lock>>

Tick ==
  /\ \A w \in Workers : pc[w] # "idle" => age[w] < Timeout
  /\ \/ data > 0 \/ statusLeft > 0 \/ \E w \in Workers : pc[w] # "idle"
  /\ age' = [w \in Workers |-> IF pc[w] = "idle" THEN 0 ELSE age[w] + 1]
  /\ data' = IF data = 0 THEN 0 ELSE data - 1
  /\ statusLeft' = IF statusLeft = 0 THEN 0 ELSE statusLeft - 1
  /\ status' = IF statusLeft <= 1 THEN "none" ELSE status
  /\ UNCHANGED <<bucket, owner, pc, todoOld, todoDoubles>>

RedisSteps(w) ==
  \/ GetData(w) \/ GetStatus(w)
  \/ BlockData(w) \/ BlockStatus(w) \/ OkData(w) \/ OkStatus(w) \/ ErrorData(w) \/ ErrorStatus(w)
  \/ SaveFails(w)

CleanSteps(w) ==
  \/ PrepareItems(w) \/ OldDone(w) \/ DoublesDone(w) \/ CleanFails(w)

\* The steps that remove versions by age or by count.
Removal ==
  \E w \in Workers, v \in Versions : FileOldRemove(w, v) \/ RemoveOld(w, v) \/ RemoveDouble(w, v)

FileSteps == Upload \/ DeleteFile \/ \E v \in Versions : Rollback(v) \/ DeleteVersion(v)

Next ==
  \/ FileSteps \/ MonthsPass \/ Tick
  \/ \E w \in Workers : RedisSteps(w) \/ CleanSteps(w) \/ FileOldList(w) \/ Kill(w)
  \/ Removal

Spec == Init /\ [][Next]_vars

\* The clock does not stop, and gunicorn kills a worker that is out of time.
OutOfTime(w) == age[w] = Timeout /\ Kill(w)
FairSpec == Spec /\ WF_vars(Tick) /\ \A w \in Workers : WF_vars(OutOfTime(w))

(***************************************************************************)
(* Properties                                                              *)
(***************************************************************************)

TypeOK ==
  /\ alive \subseteq Versions /\ markers \subseteq Versions /\ dropped \subseteq Versions
  /\ last \in 0 .. MaxVersion /\ cutoff \in 0 .. MaxVersion
  /\ data \in 0 .. Ttl /\ statusLeft \in 0 .. Ttl /\ status \in Statuses
  /\ pc \in [Workers -> PC]
  /\ age \in [Workers -> 0 .. Timeout]
  /\ todoOld \in [Workers -> SUBSET Versions]
  /\ todoDoubles \in [Workers -> SUBSET Versions]
  /\ owner \in Workers \cup {NoWorker}

(* A version that is gone and that no client deleted by its id was older than
   the storage period or had more than VERSION_STORE_COUNT younger versions:
   clean_versions and remove_old_versions take nothing else, however uploads,
   rollbacks, deletes, kills and other cleanings fall between their calls. *)
RetentionRespected ==
  \A v \in 1 .. last : v \notin alive =>
    v \in dropped \/ v <= cutoff \/ last - v > Keep

(* The current version of the file survives every removal by age or count,
   unless a client has deleted a younger version by its id: a list that is out of
   date never costs the content of the file otherwise. *)
CurrentKept ==
  Removal => \A v \in alive :
    Youngest(v, alive) /\ (\A u \in dropped : u < v) => v \in alive'
CurrentSurvivesCleaning == [][CurrentKept]_vars

(* Rule 1 stands for "only versions older than the storage period". *)
OnlyOldRemoved ==
  Rules = 1 => \A v \in 1 .. last : v \notin alive => v \in dropped \/ v <= cutoff

(* The lock outlives the cleaning it protects: a worker is killed before the
   lock it has written last can expire. *)
LockOutlivesCleaning ==
  \A w \in Workers : pc[w] \in Cleaning /\ owner = w => Blocked

(* While versions are being cleaned a second cleaning is refused. *)
OneCleaning ==
  \A v, w \in Workers : pc[v] \in Cleaning /\ pc[w] \in Cleaning => v = w

(* Whatever worker is killed while it holds the lock, cleaning is possible
   again some time later. *)
LockExpires == []<>~Blocked
=============================================================================
