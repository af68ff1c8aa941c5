# Verification of the SUM integration service

The repository is a Flask service (`src/app`) that stands between the model
registry SUM and its surroundings: an S3 store (MinIO or Hitachi HCP), Bitbucket,
Jira, TeamCity, Kubernetes, Nexus, MLflow, Kafka and Camunda.  It runs as several
gunicorn workers per replica (`src/Dockerfile:23`: five workers, killed after
90 s), keeps no database of its own, and shares state only through S3 objects and
Redis keys.  Almost every route is a chain of remote calls without a transaction;
what can go wrong lies *between* those calls: another worker's request, a kill, an
answer that is lost, a lock or an entry that expires.

This directory holds TLA+ modules of that behaviour, TLC runs over small
instances, and TLAPS proofs for every value of the constants.

## 1. Inventory

| Component | State | Operations | Status |
|---|---|---|---|
| Foreign versioning (`minio_client.py:612-775`, routes of `s3_minio.py`) | objects `f`, `f_temp_<stamp>`, `f_sumbkp_<stamp>` in a bucket without versions | upload, rollback, delete, remove old versions, upload by url | modelled: `ForeignVersioning`, `VersionedFile`, `ForeignRefinement` |
| Native versioning and cleaning (`minio_client.py:397-560`, `s3_minio.py:849-894`, `redis_cache.py`) | versions and delete markers of a file; the Redis keys of the lock | upload, delete, rollback, delete version, remove old versions, clean | modelled: `CleanVersions` |
| Transit of Kafka messages to SUM (`kafka_rest.py:219-331`, `redis_cache.py`) | two Redis keys per message | transit, resend, invalidate one or all | modelled: `TransitCache`, `MessageLog` |
| PIM messages to Kafka (`kafka_rest.py:40-190`) | the same, in another namespace | send, resend, invalidate | modelled: the same |
| Catalogue of projects and repositories (`minio_client.py:93-248, 399-425`, routes of `s3_minio.py`) | names of the objects of all projects | create, upload, delete, remove, copy | partly: `S3Catalog`, in all modes but the foreign one |
| Files without versioning, HCP (`minio_client.py:352-395, 563-610`) | one object per file | replace = stat, remove, put | modelled: modes of `S3Catalog` |
| Bitbucket workflow (`bitbucket.py`) | master branches; a local git directory per request | create repository, upload, old upload form, remove, copy | modelled: `BitbucketFiles` |
| Jira stories and attachments (`jira.py`, `services.py`) | issues in Jira; archives in a shared folder | create story, attach, edit description | modelled: `JiraStories` |
| Build, publish and validation callbacks (`teamcity.py`), Kubernetes job (`k8s.py`) | none here: builds and jobs run elsewhere | start, callback: one request each | not modelled |
| Nexus upload (`nexus.py`, `upload.py`) | a file in the upload folder, for one request | save, post, remove | not modelled |
| Repository tasks, MLflow proxy | none | one forwarded request per route | not modelled |
| Configuration, logging, schemas, helpers | none | pure | not modelled |

**How they interact.** The three storage components are views of one bucket: the
catalogue sees the names of all objects, the two versioning components see the
versions of one file.  Versions of different files never affect each other, so
one file is enough for those two.  Cleaning and both directions of messages share
`redis_cache.Cache`, an entry of which is a *pair* of keys (`<ns>:<hash>` and
`<ns>:<hash>:status`), written, deleted and expiring one after the other.  The
routes for Jira attachments read files through Bitbucket links, which is a
download that works or does not.  Workers interact through S3, Redis, Bitbucket,
Jira and the upload folder alone.

**What is hard.**

* S3 has no rename: `rename_object` is a copy and a remove, and an upload in the
  foreign mode is six S3 calls.  Any of them can be the last one.
* `stat_object` answers "missing" for every error.
* Check-then-act without a lock: the cleaning lock (GET, later SET), the
  duplicate check of a message (GET, POST, SET), creation and removal of
  directories (list, later delete), the search for a story before it is created.
* The lock of the cleaning expires by itself, and gunicorn kills slow workers: the
  two times have to fit.
* A list of versions is taken once and worked off later.
* Camunda, Kafka or Jira may have done what it did not confirm.
* The native removal of a directory works by a name prefix.
* Exit codes of git and the answer of a merge are ignored, so that a request goes
  on after a step that failed; its pull is stale as soon as another request merges.
* Archives for Jira are named after the second, in a folder that all workers share;
  what is too large is split, and what fails is sent again another way.
* A Jira description is read, appended to and written back.

**What makes each component correct.**

* Foreign versioning: no acknowledged body is lost; the file holds what the last
  request left; versions are past contents; a temporary object belongs to an upload that
  runs or failed.
* Cleaning: only what is too old or too many goes; the current version stays; a
  cleaning is protected by its lock for as long as it runs, and the lock goes.
* Messages: a message starts one process; what was sent is in the cache; "ok" in
  the cache is true; an entry is whole or absent.
* Catalogue: what was removed is gone, what was stored is there, and nothing else
  is lost.
* Bitbucket: a request changes only the files it names; what it answers is true.
* Jira: one story per summary; a file is attached or reported, or given up at a known
  place in the code; it goes to an issue that asked for it; no note in a description is lost
  but to an overlapping edit.

`PROJECT.json` lists the hazards one by one, with the line where each bites and the
properties that watch it, or the reason why none does.

## 2. Modules

Each component has one module, with the constants and their assumptions, the state,
one action per remote call, the specification and the properties; an `MC` module
that gives the constants values; a module of proofs.  Definitions named "Mutant"
in a comment are altered copies of an action or a helper: each property is known to
fail when the named definition is replaced by one of them.

In all modules a worker's place in a handler is `pc`, named for its *next* call; its
local variables are cleared by `Leave` when the handler is over; and a variable marked
"history" in its comment is read by no guard: it only serves the properties.

### ForeignVersioning, VersionedFile, ForeignRefinement

`objects` maps the names of one file to contents; the local variables of a worker are
`content`, `stamp`, `source` and `expired`.  An upload is
`UploadStatFound` (or `UploadStatMissing` → `Put`), `PutTemp`, `CopyCurrent`,
`RemoveCurrent`, `CopyNew`, `RemoveNew`; the last four are the two calls of
`rename_object` each (`minio_client.py:250-261`).  A rollback goes through the same
rename steps with a version as the new content.  `CopyFails` and `Abort` end a
handler at any call: an exception, or gunicorn's kill.  Time stamps are what
`datetime.now()` shows in one of many processes (`utils.py:167-168`).  Their clocks are not
one clock, nothing keeps two readings apart, and no call looks whether a name is in use: a step draws
*any* stamp, for a temporary object and for a version each, a used one too, and
`copy_object` then writes over the object of that name.  Hence nothing is claimed of
versions being unique or never rewritten; the code does not ensure it.
The histories record what was offered, acknowledged, given up by a client, what the
file is expected to hold, and whether its requests have `disturbed` each other: a request has come
while another ran, or has drawn a name that is in use.  The code promises nothing of
contents then (two uploads that both find no file put one over the other), and `NoContentLost` and
`QuietMatchesExpected` say so; `VersionsWereCurrent` and `TempsAccountedFor` hold all the
same.

`VersionedFile` is what a client with a file of its own is promised: a file that reads
one body and keeps others, where upload, rollback, deletion and removal of a version
take effect at once, and an interrupted request loses nothing.  `ForeignVersioning`
maps its objects to that (`CurrentBody`, `KeptBodies`), and every S3 call is a
step of `VersionedFile` or leaves it as it is.  While the six calls of an upload are
on their way the abstract file still has its old body; it changes at `CopyNew`
(`Put` for a file that was missing).  `ForeignRefinement` proves it.

### CleanVersions

Versions of one file are the integers in order of creation; `cutoff` separates
those older than `TEMP_STORE_PERIOD`.  `GetData`, `GetStatus`, `BlockData`,
`BlockStatus`, `OkData`, … are the Redis commands of `clean_versions_s3`;
`PrepareItems` lists the versions that are not current, `RemoveOld` and
`RemoveDouble` delete one at a time.  `Tick` passes 30 s for the time to live of both
keys and for the busy workers; a worker busy for `Timeout` is killed (`Kill`)
before time goes on.  `owner` is the worker that wrote the lock last.
`list_object_versions` lists by a prefix without an end (`minio_client.py:453-454`): versions of
files whose names begin with this one's are on the list of `FileOldList` in the code
and not in the model.  The code removes them under *this* file's name, which has no such
versions.

### TransitCache, MessageLog

`data` and `status` are the two keys of each message, `namespace` says whether it
comes from Kafka for SUM or from PIM for Kafka, `starts` counts the processes started
for it, or its flushes to Kafka.  A delivery to SUM is `TransitGetData`, `TransitRefuse` or
`TransitStarted` / `TransitFails`, then `SaveData`, `SaveStatus`.  A PIM message is
`PimSend`, then the two keys (`mark_data`, `mark_status`) *before* it is produced, then
`Produced` or `ProduceFails` (the producer's retries are one step) and a second save.
A lost answer is a failure in which the message has arrived.  A
resend builds a `Cache` without data, whose hash is that of nothing
(`redis_cache.py:41-69`): its save goes to the key of the empty hash in its
namespace.  `Faults` chooses lost answers, kills, Redis errors and expiry.
The histories `overlapped` and `forgotten` are the messages that two requests were about at
once, and those whose entry was deleted, has expired, could not be read or was only half
written.

`MessageLog` is what the service promises about a message: one record of it in the place of
two keys, and two disciplines.  A message that is looked up (Kafka to SUM) goes out once, if
there is no record of it, and its record is written once; a message that is marked (PIM to Kafka)
goes out only while its record says "ServiceUnavailable", so that a kill never leaves it
recorded as delivered.  Of a message that was disturbed (`overlapped` or `forgotten`) only the
truth of "Ok" is promised.  `TransitCache` maps its status keys to that record.

### S3Catalog

`current` is the set of objects in the bucket; an object is a directory (a pair of
project and repository, `NoRepo` for the project itself) and a file or the marker
`.empty`.  `mode` is the versioning mode, which selects the client class
(`plain`, `hcpno`, `native`, `hcp`; `plain` is the mode "no").  The foreign mode is left
out: there an upload or a rollback renames the file away and back
(`minio_client.py:663-699`), so that neither `StoredIsThere` nor `FilesKept` is true of it;
what it does keep is the subject of `ForeignVersioning`.  `ProjectPrefix` and `RepoPrefix` say which names
are the beginning of which others, which is all the native removal depends on.
`CreateStat` → `Put`; `UploadStart` → `Put`, or in `hcpno` `ReplaceFound` /
`ReplaceMissing` → `RemoveReplaced` → `Put`; `DeleteList` → `DeleteRemove`; `RemoveList`
→ `RemoveMarker`, or `RemoveListNames` → `RemoveListed` in the native modes;
`CopyList` → `CopyCheck` → `CopyObject` / `CopySkip`….  `gone` records the
directories whose removal was answered with 200, `stored` the files that were put and
neither deleted nor lost since; `disturbed` marks a removal into
whose directory something was put after it was found empty.  S3 is taken to delete
all listed versions of a name or none.

### BitbucketFiles

The master branch of a repository is the number of its last commit (`head`), the number of the
commit that its history begins with (`root`, which a forced push moves) and the files in
that commit.  A worker's local git directory is the commit it was pulled at (`base`,
`Fresh` before the first pull, `Apart` after a local first commit) and the files pulled
(`local`).  A push is accepted if it builds on `head`; a merge, if its branch has a
common history.  `UploadFiles` → `List` → (`PushBranch` → `PullRequest` → `Merge`
→ `DropBranch` for new files) → `Pull` → `Push` for the others; `RemoveFile` → `Pull` → `Push`;
`CopyRepo` → `ForcePush`; `CreateRepo` → `PushInitial`.  Each command may fail (`ok`
false) and the request goes on, as in the code; `Kill` ends it anywhere.
`troubled` are the requests that were overtaken on their repository or that had a
command fail.

### JiraStories

`story` maps issues to summaries, `attached` and `described` to the files attached and
named in the description; `dirs` and `zips` are the upload folder by the second in the
names.  A story is `Search`, `FindEpic` or `CreateEpic`, `CreateStory` or
`CreateUnanswered`, then its attachments.  Attaching is `Download`, `MakeDir`, `Zip`,
`Read` or `ReadTooLarge`, `Upload`, `Remove`, `EditGet`, `EditPut` (or `EditRefused`) for each batch in
`queue`; a batch is all files, a part of the split, one file too large for an archive of its
own, or the final report of what is missing.  `Split` and `Parts` are
`_split_files`: `Weighing` sums sizes as `sum` does, `NextFile` is one turn of the loop,
`Closed` appends a batch that is full, `Splitting` the loop over the files.  They are
recursive functions and not `RECURSIVE` operators, so that they can be proved about.  The
cases of `Download` exclude each other, as the branches of the code do by their order.  `UploadUnanswered`, `RemoveFails`, `EditFails`, `ZipFails`, … are
the errors, which fall back to `SendSingly` or drop a batch, as the code does; a lost answer
leaves open whether Jira has done what it was asked.  A note that Jira *refuses*
(`EditRefused`) is no error to the code, as nobody looks at what `edit_issue` returns
(`services.py:111-116`, `jira.py:275-279`): the request goes on, and a report of files
that could not be downloaded is gone behind an "ok".  Those files are `dropped`.  The
histories are what the client was `told`, what the code gives up (`dropped`), edits that
were `overtaken`, issues at which two archives of one name `clashed`, what was `asked`,
and the summaries that are `contested`.

## 3. Runs

| Run | Instance | Shows |
|---|---|---|
| `ForeignFile` | 2 workers, 3 bodies, 3 stamps (2 after requests have disturbed each other), all operations, kills anywhere | `TypeOK`, `NoContentLost`, `QuietMatchesExpected`, `VersionsWereCurrent`, `TempsAccountedFor`, and the refinement `ImplementsVersionedFile` |
| `ForeignStatLoss` | 1 worker, uploads, `stat` may fail | **violated** `NoContentLost` |
| `CleanRetention` | 2 workers, 3 versions, keep 1, rules 3, Redis may fail | `TypeOK`, `RetentionRespected`, `CurrentSurvivesCleaning` |
| `CleanLock` | 2 workers, 2 versions, lock 120 s, timeout 90 s, fair | `LockOutlivesCleaning`, `LockExpires` |
| `CleanTwice` | 2 workers | **violated** `OneCleaning` |
| `CleanRuleOne` | 2 workers, rules 1 | **violated** `OnlyOldRemoved` |
| `TransitAll` | 3 workers, 1 message of either namespace, every operation and fault | `TypeOK`, `StartedOnce`, `OkMeansStarted`, `SentIsRecorded`, `EntriesComplete`, and the refinement `ImplementsMessageLog` |
| `TransitResend` | 2 workers, 1 message, no faults | **violated** `ResendRecorded` |
| `CatalogFiles` | 2 workers, projects `p` and `pCopy`, four modes, all operations, `stat` may fail | `TypeOK`, `RemovedIsGone`, `StoredIsThere`, `FilesKept` |
| `CatalogPrefix` | 1 worker, repositories `r` and `rCopy`, native | **violated** `RemovalStaysInside` |
| `Bitbucket` | 2 workers, 1 repository, 2 files, 2 bodies, 4 commits, any command may fail | `TypeOK`, `AnswersAreTrue`, `OnlyAsAsked` |
| `Jira` | 2 workers, 3 issues, files of sizes 1, 2, 3, 2 requests with 1 fault, or 1 request with 3 | `TypeOK`, `StoriesUnique`, `FilesAccounted`, `OwnFilesOnly`, `NotesKept` |

**The five violations are the findings of `PROJECT.json`.**

1. `ForeignStatLoss`: one time-out of `stat_object` makes an upload overwrite the
   file without a version.
2. `CleanTwice`: two cleaning requests both find the lock free.
3. `CleanRuleOne`: `VERSIONING_CLEAN_RULES and 0b10` is true of rule 1 as well
   (`and` in place of `&`), so rule 1 also removes by count.
4. `TransitResend`: a manual resend records its success under another key, and
   the message keeps its old status.
5. `CatalogPrefix`: the native removal of `r` deletes the files of `r_copy`.  The
   tests of the repository use such names (`MODEL2041-LV_copy`).

**What the conditions in the properties say.**  Several properties exclude a situation:
requests that overlapped, a name that was drawn twice, an entry that was forgotten, a request that was troubled, an
archive that clashed.  Each exclusion was needed (TLC has a counterexample without it) and
names a place where the code protects nothing.  Nowhere does it exclude more than the
requests or objects concerned; failures and kills stay in, but for
`AnswersAreTrue`, which a failed git command makes false as its exit code is
ignored.

**Bounds, and why they are enough.**  No handler waits for another, and
each looks at one file, one cache entry, one repository or one issue: two workers make every
interleaving of a pair of requests.  Messages have three, so that two deliveries of a message
meet a resend or an invalidation of the same entry.  Three bodies are needed for a file, its
version and an upload; three stamps give two overlapping uploads a name each and a
rollback after them, or three in a row.  Once requests have disturbed each
other two stamps are enough, since a stamp may be drawn again (`CONSTRAINT TwoStamps`), and
the `VIEW` then leaves out the histories that neither a guard nor a property reads any
more.  `Period = 0` makes every version old
enough to be removed as soon as a clock shows more than its stamp.  Three versions and keep 1 give a
current version, one kept, one too many; `LockOutlivesCleaning` needs the true
ratio of the two times (4 and 3 units of 30 s), while `CleanRetention`, which says
nothing about time, has the smallest (2 and 1).  `MaxPosts = 2` is one start more
than is allowed.  Two projects are enough for a name and its prefix; the marker
and one file make a copy two calls long.  One repository is enough for Bitbucket:
only a copy reads another one, and its source may as well be its target; four commits are one
for the creation and one for each step of an upload while another request moves the branch
once.  The sizes of Jira's files are below, at and above `Limit = Half = 2`, so that all
branches of the splitting occur; two seconds are one with and one without a clash of
names.  Two requests have one fault between them, and one request alone has three
(`CONSTRAINT OneAtATime`) and may name all files, so that a download, a refused archive and a
refused note come together.  The proofs have any number.  `CHECK_DEADLOCK FALSE` stands where
a bound (stamps, bodies, versions, posts, requests) lets the model stop; the catalogue and
Bitbucket are checked for deadlock.

**Fairness.**  Only `CleanLock` has any: weak fairness of `Tick` (Redis and gunicorn have
clocks) and of the kill of a worker that has run out of time
(`gunicorn --timeout 90`).  Nothing is assumed of clients or of progress in a
handler, so the lock goes away because it *expires* or because its worker ends,
even when workers hang.  No other component retries or waits: nothing there must
eventually happen.

## 4. Proofs

| Theorem | Module | Argument |
|---|---|---|
| `TypeCorrect` | `ForeignVersioningProofs` | `TypeInv`: types, and a worker that is writing carries a body |
| `VersionsWereCurrentAlways` | same | `CurrentSeen`: what the file holds is recorded as its content, and only `CopyCurrent` makes a version, of the file; a new body goes to a temporary name (`TempsInv`) |
| `TempsAccountedForAlways` | same | `TempsInv`: whose a temporary object is, by the `pc` of its worker |
| `NoContentLostWhenSerial`, `QuietMatchesExpectedWhenSerial` | same | for each `pc` of the one running request, where the old and the new content are; they assume a reliable `stat` (`~StatMayFail`) |
| `ForeignVersioningImplementsVersionedFile` | `ForeignRefinement` | lemmas for the silent, removing, uploading and interrupting steps name the abstract step of each action; `Before` joins the three invariants above with `AloneInv`, which says what a lone request has left in the bucket; assumes `~StatMayFail` |
| `LockOutlivesCleaningAlways` | `CleanVersionsProofs` | `LockInv`: the time left to the owner's status key is at least `Ttl` less its age, hence positive as `Ttl > Timeout` |
| `RetentionRespectedAlways` | same | `RetentionInv`: whatever is on a worker's list is, and stays, too old or too many |
| `CurrentSurvives` | same | `Superseded`: everything listed for removal has a younger version, in the bucket or deleted by a client |
| `TypeCorrect` | same | inductive as it stands |
| `TypeCorrect`, `OkMeansStartedAlways` | `TransitCacheProofs` | `AboutInv`: a worker about to save "ok" has started the message whose key it holds |
| `SentIsRecordedAlways`, `StartedOnceAlways`, `EntriesCompleteAlways` | same | `SentInv`, `OnceInv`, `CompleteInv`: a message that was started has an entry or a worker that is about to write one, no other worker is about to start it, and the status of an entry never stays without its data; no fault is assumed away |
| `TransitCacheImplementsMessageLog` | same | `LogInv` adds what a worker knows of the entry it is about to write: none yet (`WrittenOnce`), or marked (`MarkedFirst`); `WriterAlone`: nobody else writes to it, for whoever writes serves a request for it.  `PeacefulStep` names the abstract step; no fault and no overlap is assumed away |
| `TypeCorrect`, `RemovedIsGoneAlways`, `StoredIsThereAlways`, `FilesKeptAlways` | `S3CatalogProofs` | `CatalogInv`: a removal that was not disturbed still finds its directory empty and its list holds what is left there; a list holds only names under the prefix; a replaced file is on the list of its worker |
| `RemovalStaysInsideApart` | same | from the lists of `CatalogInv`: if no name begins with another of its kind, or there is no native mode, a removal touches no other directory.  The hypothesis is the very thing that run `CatalogPrefix` lacks |
| `TypeCorrect`, `AnswersAreTrueAlways`, `OnlyAsAskedAlways` | `BitbucketProofs` | `BitbucketInv` = `TypeOK`, `ServerInv` (what a branch without commits looks like), `WorkerShape` (what a request looks like at each `pc`), `Progress` (what an untroubled request has already achieved) |
| `StoriesUniqueAlways`, `NotesKeptAlways` | `JiraProofs` | `JiraInv`: only a contested summary has two creators, a creator that found nothing still finds nothing, and a reading that is not overtaken is up to date |
| `SplitIsPartition` | `JiraArchiveProofs` | the batches of `Split` are not empty, share no file, make up all of the files, and none but a batch of a single file is over the limit: `Split_` is the invariant of the loop |
| `SplittingEnds` | same | no archive is split again and again: a part is as large as the limit only if it is one file of exactly that size, whose split is itself: there the code recurses until Python raises |
| `TypeCorrect`, `OwnFilesOnlyAlways`, `FilesAccountedAlways` | same | `ArchiveInv`: for each `pc`, what the worker still owes its client (the batch in hand, the batches of the queue, the report of what is missing) and what it has attached make up the files of the request; an archive of the folder holds the batch of its worker unless a clash on its name is recorded; `SplitIsPartition` starts it off |

None of the checked properties is inductive, but for the types.  `NoContentLost`, for one,
says nothing of a worker between copy and remove; its invariant says, for each step of the
chain, which object holds the body that is about to be removed elsewhere.
`CurrentSurvivesCleaning` is about a list that may be out of date; it holds because versions
only get younger, which `Superseded` records as a fact about the list and not about the
moment it was taken.  `FilesKept` needs what the stale list of a removal and the bucket
still have in common.  `AnswersAreTrue` needs to know that a pull whose request is
untroubled is still the head of the branch.

The proofs use the `ASSUME`s of the modules (names differ, prefixes are reflexive,
`Ttl > Timeout`); TLC evaluates them in every run.  The bounds (`MaxStamp`,
`MaxVersion`, `MaxPosts`, `MaxCommits`, `MaxSecond`, `MaxRequests`, `MaxFaults`) are
arbitrary naturals in the proofs.

**Induction over data.**  The induction theorems of the library take a predicate as a
parameter, which the provers cannot instantiate.  `JiraArchiveProofs` uses a *set* in its
place: `Induction` proves, from the well-foundedness of strict inclusion on finite sets, that
a set of naturals with 0 and the successor of each of its members holds all of them.  From
it follow what `Weighing` and `Splitting` compute for every set of files.

**Model-checked only:** `LockExpires`, as liveness under fairness and `ENABLED` are beyond
the prover.

## 5. Not modelled, and why

* Bytes of files, HTTP details, schemas, logging: no property is about them.
* TeamCity and Kubernetes: a start and a callback are one request each and the service
  keeps nothing between them; the build and the job run outside the repository.
* MLflow and the repository tasks: one request is passed on.
* Nexus: one file is saved, posted and removed.  Uploads of one file name at the same time
  share a path in the upload folder (`nexus.py:42`); what is in the file then
  depends on how the writes of bytes interleave, which no module here follows.
* `upload.py` saves the body before `BitbucketFiles` begins; a failed save is a result
  that the route takes for success (`bitbucket.py:345`), a matter of one test.
* `remove_doubles_versions` and the foreign `clean_versions`: no route reaches the
  first, and the second raises.
* Listing and download routes read a single answer and change nothing; `get-message`
  moves an offset that Kafka keeps.
* Partial deletion of the *versions of one name* by S3's multi-delete.
* Bitbucket's `project_create` (one POST, and a grant whose failure is ignored), Jira's
  assignee, webhook and status routes.
* The sizes of archives are the sum of the sizes of their files, or less where a
  compressed archive may be small enough: the model lets it be either.

## 6. What could follow

* The pair of Redis keys as a module of its own, used by `CleanVersions` and
  `TransitCache`, which now each have their copy.
* A model of the upload folder with writes of parts of a file, for Nexus and Bitbucket.
* Abstract specifications of the catalogue (directories that appear and go at once) and of a
  Bitbucket repository, in the manner of `VersionedFile` and `MessageLog`.
