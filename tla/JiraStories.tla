------------------------------ MODULE JiraStories ------------------------------
(***************************************************************************)
(* Stories in Jira and the files attached to them (src/app/jira.py,        *)
(* src/app/services.py).  A worker creates a story under the epic of a     *)
(* model, or attaches to an issue the files behind some Bitbucket links:   *)
(* it downloads them, packs them into an archive in the shared upload      *)
(* folder, named after the current second, splits what is too large for    *)
(* Jira into parts, and writes into the description what the archives hold *)
(* and which files are missing.  When the archive fails it sends the files *)
(* one by one.  The model has one project and one epic name; requests for  *)
(* others have nothing in common with these.                               *)
(***************************************************************************)
EXTENDS Integers, Sequences

CONSTANTS
  Workers,      \* gunicorn workers
  Issues, Old,  \* keys of issues, and those that Jira has at first
  Summaries, Mentions,  \* summaries of stories, and those that contain the name of the epic
  NoSummary,    \* the summary of an issue that is no story of this service
  NoIssue,      \* the issue of a worker that has none
  Weights,      \* the sizes of the files: file f is the f-th link, of size Weights[f]
  Links,        \* the sets of files that requests name
  Limit,        \* NINE_AND_HALF_MB
  Half,         \* FIVE_MB
  MaxSecond,    \* bound: seconds in which archives are packed
  MaxRequests,  \* bound: requests
  MaxFaults     \* bound: calls that fail, and workers killed

ASSUME ConstantsAssumption ==
  /\ Old \subseteq Issues /\ Mentions \subseteq Summaries
  /\ NoSummary \notin Summaries /\ NoIssue \notin Issues
  /\ Weights \in Seq(Nat) /\ Links \subseteq (SUBSET (1 .. Len(Weights))) \ {{}}
  /\ Limit \in Nat /\ Half \in Nat
  /\ MaxSecond \in Nat /\ MaxRequests \in Nat /\ MaxFaults \in Nat

Files   == 1 .. Len(Weights)
Seconds == 0 .. MaxSecond

VARIABLES
  epics,      \* how many epics of the name there are
  story,      \* the summaries of the issues, of those that exist
  attached,   \* the files attached to each issue
  described,  \* the files that its description names
  second,     \* the clock
  dirs, zips, \* the directories and archives of the upload folder, by the second they are named after
  pc,         \* what each worker does next
  summary, issue, wanted,  \* its request: the story to create, the issue to attach to, the links
  have, missing,  \* the files downloaded, and those not
  batch, queue,   \* the files that are being packed and sent, and the batches after them
  name, content,  \* the archive's second, and what was read from it
  seen,       \* the description that edit_issue has read
  told,       \* history: the files that the answer or the description tells to be missing
  dropped,    \* history: the files that the code gives up without a word
  overtaken,  \* history: the workers whose reading of a description is out of date
  clashed,    \* history: the issues for which two archives of one name met
  asked,      \* history: the files that requests wanted at each issue
  contested,  \* history: summaries requested twice at a time, or whose creation went unanswered
  requests, faults  \* how many there were

jira    == <<epics, story, attached, described>>
folder  == <<dirs, zips>>
request == <<summary, issue, wanted>>
loaded  == <<have, missing>>
sending == <<batch, queue, name, content>>
history == <<told, dropped, overtaken, clashed, asked, contested>>
vars    == <<jira, folder, second, pc, request, loaded, sending, seen, history, requests, faults>>

Kinds   == {"none", "all", "part", "large", "one", "report"}
Batches == [kind : Kinds, files : SUBSET Files]
NoBatch == [kind |-> "none", files |-> {}]
Keys    == DOMAIN story

Creating == {"search", "create_epic", "find_epic", "create", "create_again"}
PC == Creating \cup {"idle", "download", "mkdir", "zip", "read", "upload", "remove", "get", "put",
                     "singly", "ok", "failed"}

Init ==
  /\ epics = 0 /\ second = 0 /\ requests = 0 /\ faults = 0
  /\ story = [i \in Old |-> NoSummary]
  /\ attached = [i \in Issues |-> {}]
  /\ described = [i \in Issues |-> {}]
  /\ dirs = {} /\ zips = <<>>
  /\ pc = [w \in Workers |-> "idle"]
  /\ summary = [w \in Workers |-> NoSummary]
  /\ issue = [w \in Workers |-> NoIssue]
  /\ wanted = [w \in Workers |-> {}]
  /\ have = [w \in Workers |-> {}] /\ missing = [w \in Workers |-> {}]
  /\ batch = [w \in Workers |-> NoBatch]
  /\ queue = [w \in Workers |-> <<>>]
  /\ name = [w \in Workers |-> 0]
  /\ content = [w \in Workers |-> {}]
  /\ seen = [w \in Workers |-> {}]
  /\ told = [w \in Workers |-> {}] /\ dropped = [w \in Workers |-> {}]
  /\ overtaken = {} /\ clashed = {} /\ contested = {}
  /\ asked = [i \in Issues |-> {}]

\* A call fails, or not.
Fault(fails) ==
  /\ fails => faults < MaxFaults
  /\ faults' = IF fails THEN faults + 1 ELSE faults
  /\ UNCHANGED requests

Goto(w, label) == pc' = [pc EXCEPT ![w] = label]

\* Mutant: the files are counted from 1.
AttachNext(i, fs) == attached' = [attached EXCEPT ![i] = @ \cup {f + 1 : f \in fs}]

Attach(i, fs) == attached' = [attached EXCEPT ![i] = @ \cup fs]
Tell(w, fs)   == told' = [told EXCEPT ![w] = @ \cup fs]
Drop(w, fs)   == dropped' = [dropped EXCEPT ![w] = @ \cup fs]

Single(w) == \E f \in Files : wanted[w] = {f}

(***************************************************************************)
(* create_story                                                            *)
(***************************************************************************)

\* Another request creates a story with this summary.
Rivals(w, s) == {x \in Workers \ {w} : pc[x] \in Creating /\ summary[x] = s}

StoryStart(w, s, ns) ==
  /\ pc[w] = "idle" /\ requests < MaxRequests
  /\ requests' = requests + 1 /\ UNCHANGED faults
  /\ Goto(w, "search")
  /\ summary' = [summary EXCEPT ![w] = s]
  /\ wanted' = [wanted EXCEPT ![w] = ns]
  /\ contested' = IF Rivals(w, s) = {} THEN contested ELSE contested \cup {s}
  /\ UNCHANGED <<jira, folder, second, issue, loaded, sending, seen, told, dropped, overtaken, clashed, asked>>

\* The issues that a search for the name of the epic finds: the epics, and the
\* stories whose summary contains it.
Found == {i \in Keys : story[i] \in Mentions}

Search(w) ==
  /\ pc[w] = "search"
  /\ Goto(w, IF epics = 0 /\ Found = {} THEN "create_epic" ELSE "find_epic")
  /\ UNCHANGED <<jira, folder, second, request, loaded, sending, seen, history, requests, faults>>

\* A status that is not 201, or no answer, which the epic may have had all the same.
CreateEpic(w, arrived, ok) ==
  /\ pc[w] = "create_epic"
  /\ ok => arrived
  /\ epics' = IF arrived THEN epics + 1 ELSE epics
  /\ Goto(w, IF ok THEN "find_epic" ELSE "failed")
  /\ Fault(~ok)
  /\ UNCHANGED <<story, attached, described, folder, second, request, loaded, sending, seen, history>>

\* Mutant: the stories found are not looked at.
FindEpicOnly(w) ==
  /\ pc[w] = "find_epic"
  /\ Goto(w, "create")
  /\ UNCHANGED <<jira, folder, second, request, loaded, sending, seen, history, requests, faults>>

\* A story with the same summary is there, if the search shows it.
FindEpic(w) ==
  /\ pc[w] = "find_epic"
  /\ Goto(w, IF \E i \in Found : story[i] = summary[w] THEN "failed" ELSE "create")
  /\ UNCHANGED <<jira, folder, second, request, loaded, sending, seen, history, requests, faults>>

NewStory(w, i) == story' = [k \in Keys \cup {i} |-> IF k = i THEN summary[w] ELSE story[k]]

\* The story has its key: its links are attached.
Created(w, i) ==
  /\ i \notin Keys
  /\ NewStory(w, i)
  /\ issue' = [issue EXCEPT ![w] = i]
  /\ asked' = [asked EXCEPT ![i] = @ \cup wanted[w]]
  /\ Goto(w, IF wanted[w] = {} THEN "ok" ELSE "download")
  /\ UNCHANGED contested

CreateStory(w, i) ==
  /\ pc[w] \in {"create", "create_again"}
  /\ Created(w, i)
  /\ UNCHANGED <<epics, attached, described, folder, second, summary, wanted, loaded, sending, seen,
                 told, dropped, overtaken, clashed, requests, faults>>

\* The bare except of create_story creates the story once more, also when the first
\* creation has arrived and only its answer was lost.
CreateUnanswered(w, arrived) ==
  /\ pc[w] \in {"create", "create_again"}
  /\ \/ ~arrived /\ UNCHANGED story
     \/ arrived /\ \E i \in Issues \ Keys : NewStory(w, i)
  /\ contested' = contested \cup {summary[w]}
  /\ Goto(w, IF pc[w] = "create" THEN "create_again" ELSE "failed")
  /\ Fault(TRUE)
  /\ UNCHANGED <<epics, attached, described, folder, second, request, loaded, sending, seen,
                 told, dropped, overtaken, clashed, asked>>

\* Jira refuses a search or a creation, or does not answer a search.
Refused(w) ==
  /\ pc[w] \in Creating
  /\ Goto(w, "failed")
  /\ Fault(TRUE)
  /\ UNCHANGED <<jira, folder, second, request, loaded, sending, seen, history>>

(***************************************************************************)
(* attach_file_to_issue: download, then pack or send                       *)
(***************************************************************************)

AttachStart(w, i, ns) ==
  /\ pc[w] = "idle" /\ requests < MaxRequests
  /\ i \in Keys
  /\ requests' = requests + 1 /\ UNCHANGED faults
  /\ Goto(w, "download")
  /\ issue' = [issue EXCEPT ![w] = i]
  /\ wanted' = [wanted EXCEPT ![w] = ns]
  /\ asked' = [asked EXCEPT ![i] = @ \cup ns]
  /\ UNCHANGED <<jira, folder, second, summary, loaded, sending, seen,
                 told, dropped, overtaken, clashed, contested>>

\* A single file that Bitbucket does not have ends in a note, other single files are
\* packed from 5 MB on; several files are always packed.
Download(w, got) ==
  /\ pc[w] = "download"
  /\ got \subseteq wanted[w]
  /\ have' = [have EXCEPT ![w] = got]
  /\ missing' = [missing EXCEPT ![w] = wanted[w] \ got]
  /\ LET Next(k, fs, label) == batch' = [batch EXCEPT ![w] = [kind |-> k, files |-> fs]] /\ Goto(w, label)
     IN CASE ~Single(w)            -> Next("all", got, "mkdir")
          [] Single(w) /\ got = {} -> Next("report", wanted[w], "get")
          [] Single(w) /\ (\E f \in got : Weights[f] >= Half) -> Next("one", got, "mkdir")
          [] OTHER                 -> Next("one", got, "singly")
  /\ Fault(got # wanted[w])
  /\ UNCHANGED <<jira, folder, second, request, queue, name, content, seen, history>>

\* Any other exception while a single file is downloaded: no note.
DownloadFails(w) ==
  /\ pc[w] = "download" /\ Single(w)
  /\ Goto(w, "failed")
  /\ Fault(TRUE)
  /\ UNCHANGED <<jira, folder, second, request, loaded, sending, seen, history>>

\* What comes after a batch: the next one, a note of the files that were not
\* downloaded, or the answer.
Proceed(w, q) ==
  IF q # <<>>
  THEN /\ batch' = [batch EXCEPT ![w] = Head(q)] /\ queue' = [queue EXCEPT ![w] = Tail(q)] /\ Goto(w, "mkdir")
  ELSE /\ queue' = [queue EXCEPT ![w] = <<>>]
       /\ IF missing[w] = {} THEN Goto(w, "ok") /\ UNCHANGED batch
          ELSE batch' = [batch EXCEPT ![w] = [kind |-> "report", files |-> missing[w]]] /\ Goto(w, "get")

(* Where an exception is caught.  The archive of all files, or of a part: the files
   are sent one by one; but what an else clause raises for the archive of all files
   ends the request.  A file too large for a part: given up without a word. *)
Raise(w, inElse) ==
  IF batch[w].kind = "large" /\ ~inElse
  THEN Proceed(w, queue[w]) /\ Drop(w, batch[w].files)
  ELSE /\ Goto(w, IF batch[w].kind = "report" \/ (inElse /\ batch[w].kind \in {"all", "one"})
                  THEN "failed" ELSE "singly")
       /\ UNCHANGED <<batch, queue, dropped>>

(***************************************************************************)
(* create_zip_archive, upload_many_files_to_jira_as_zip_archive,           *)
(* _try_to_send_too_large_file, upload_file_to_jira_as_zip_archive         *)
(***************************************************************************)

Tick ==
  /\ second < MaxSecond
  /\ second' = second + 1
  /\ UNCHANGED <<jira, folder, pc, request, loaded, sending, seen, history, requests, faults>>

\* The workers that are between making the archive n and reading it.
Packing(n) == {x \in Workers : pc[x] \in {"zip", "read"} /\ name[x] = n}

\* The name is taken: mkdir raises, and the finally clause removes the directory.
MakeDir(w) ==
  /\ pc[w] = "mkdir"
  /\ name' = [name EXCEPT ![w] = second]
  /\ clashed' = IF Packing(second) = {} THEN clashed
                ELSE clashed \cup {issue[x] : x \in Packing(second) \cup {w}}
  /\ IF second \in dirs
     THEN dirs' = dirs \ {second} /\ Raise(w, FALSE)
     ELSE dirs' = dirs \cup {second} /\ Goto(w, "zip") /\ UNCHANGED <<batch, queue, dropped>>
  /\ UNCHANGED <<jira, zips, second, request, loaded, content, seen, told, overtaken, asked, contested, requests, faults>>

PutZip(n, fs) == zips' = [k \in DOMAIN zips \cup {n} |-> IF k = n THEN fs ELSE zips[k]]
RemoveZip(n)  == zips' = [k \in DOMAIN zips \ {n} |-> zips[k]]

\* Mutant: the archive is opened to append to it.
ZipAppends(w) ==
  /\ pc[w] = "zip"
  /\ name[w] \in dirs
  /\ PutZip(name[w], batch[w].files \cup IF name[w] \in DOMAIN zips THEN zips[name[w]] ELSE {})
  /\ dirs' = dirs \ {name[w]}
  /\ Goto(w, "read")
  /\ UNCHANGED <<jira, second, request, loaded, sending, seen, history, requests, faults>>

\* The files are written and packed, and the directory is removed.
Zip(w) ==
  /\ pc[w] = "zip"
  /\ name[w] \in dirs
  /\ PutZip(name[w], batch[w].files)
  /\ dirs' = dirs \ {name[w]}
  /\ Goto(w, "read")
  /\ UNCHANGED <<jira, second, request, loaded, sending, seen, history, requests, faults>>

\* Another worker has removed the directory.
ZipFails(w) ==
  /\ pc[w] = "zip"
  /\ name[w] \notin dirs
  /\ Raise(w, FALSE)
  /\ UNCHANGED <<jira, folder, second, request, loaded, name, content, seen,
                 told, overtaken, clashed, asked, contested, requests, faults>>

\* What the files fs up to the n-th weigh together.
Weighing(fs) ==
  LET sum[n \in 0 .. Len(Weights)] ==
        IF n = 0 THEN 0 ELSE sum[n - 1] + IF n \in fs THEN Weights[n] ELSE 0
  IN sum
Weight(fs) == Weighing(fs)[Len(Weights)]

(* _split_files: parts as long as each stays below the limit, then the files that are
   above it themselves.  What the loop has after n files: the parts that are full, the
   large files, the part that is open, and its size. *)
Closed(p) == IF p.open = {} THEN p.parts ELSE Append(p.parts, [kind |-> "part", files |-> p.open])
NextFile(p, n) ==
  CASE p.size + Weights[n] < Limit ->
         [p EXCEPT !.open = @ \cup {n}, !.size = @ + Weights[n]]
    [] p.size + Weights[n] >= Limit /\ Weights[n] <= Limit ->
         [p EXCEPT !.parts = Closed(p), !.open = {n}, !.size = Weights[n]]
    [] OTHER ->
         [p EXCEPT !.parts = Closed(p), !.open = {}, !.size = 0,
                   !.large = Append(@, [kind |-> "large", files |-> {n}])]
Splitting(fs) ==
  LET split[n \in 0 .. Len(Weights)] ==
        IF n = 0 THEN [parts |-> <<>>, large |-> <<>>, open |-> {}, size |-> 0]
        ELSE IF n \in fs THEN NextFile(split[n - 1], n) ELSE split[n - 1]
  IN split
Split(fs) == LET all == Splitting(fs)[Len(Weights)] IN Closed(all) \o all.large

\* The archive is small enough to be sent.
Read(w) ==
  /\ pc[w] = "read"
  /\ name[w] \in DOMAIN zips
  /\ content' = [content EXCEPT ![w] = zips[name[w]]]
  /\ Goto(w, "upload")
  /\ UNCHANGED <<jira, folder, second, request, loaded, batch, queue, name, seen, history, requests, faults>>

\* Mutant: the last part is forgotten.
PartsButLast(w) ==
  LET q == Split(batch[w].files) IN IF q = <<>> THEN q ELSE SubSeq(q, 1, Len(q) - 1)

\* The parts of an archive that is too large.
Parts(w) == Split(batch[w].files)

(* It is not: the archive is removed and its parts are the next batches.  The archive
   of a file at the limit is split into itself, until Python gives up.  A large file
   gets a note.  Packing makes nothing larger. *)
ReadTooLarge(w) ==
  /\ pc[w] = "read"
  /\ name[w] \in DOMAIN zips
  /\ batch[w].kind # "one" /\ Weight(zips[name[w]]) >= Limit
  /\ \/ /\ batch[w].kind # "large" /\ Parts(w) # <<batch[w]>>
        /\ RemoveZip(name[w])
        /\ Proceed(w, Parts(w) \o queue[w])
        /\ UNCHANGED dropped
     \/ /\ batch[w].kind # "large" /\ Parts(w) = <<batch[w]>> /\ Weight(batch[w].files) >= Limit
        /\ RemoveZip(name[w])
        /\ Raise(w, FALSE)
     \/ /\ batch[w].kind = "large"
        /\ Goto(w, "get")
        /\ UNCHANGED <<zips, batch, queue, dropped>>
  /\ UNCHANGED <<jira, dirs, second, request, loaded, name, content, seen,
                 told, overtaken, clashed, asked, contested, requests, faults>>

\* Another worker has removed the archive.
ReadFails(w) ==
  /\ pc[w] = "read"
  /\ name[w] \notin DOMAIN zips
  /\ Raise(w, FALSE)
  /\ UNCHANGED <<jira, folder, second, request, loaded, name, content, seen,
                 told, overtaken, clashed, asked, contested, requests, faults>>

Upload(w) ==
  /\ pc[w] = "upload"
  /\ Attach(issue[w], content[w])
  /\ Goto(w, "remove")
  /\ UNCHANGED <<epics, story, described, folder, second, request, loaded, sending, seen, history, requests, faults>>

\* Jira refuses the archive: nobody looks at the status but for a single file.
UploadRefused(w) ==
  /\ pc[w] = "upload"
  /\ IF batch[w].kind = "one" THEN RemoveZip(name[w]) /\ Goto(w, "failed") /\ UNCHANGED dropped
     ELSE Drop(w, batch[w].files) /\ Goto(w, "remove") /\ UNCHANGED zips
  /\ Fault(TRUE)
  /\ UNCHANGED <<jira, dirs, second, request, loaded, sending, seen,
                 told, overtaken, clashed, asked, contested>>

\* The connection is lost, before or after the archive has arrived.
UploadUnanswered(w, arrived) ==
  /\ pc[w] = "upload"
  /\ IF arrived THEN Attach(issue[w], content[w]) ELSE UNCHANGED attached
  /\ RemoveZip(name[w])
  /\ Raise(w, FALSE)
  /\ Fault(TRUE)
  /\ UNCHANGED <<epics, story, described, dirs, second, request, loaded, name, content, seen,
                 told, overtaken, clashed, asked, contested>>

\* The archive has been sent, or the note of a large file written.
Remove(w) ==
  /\ pc[w] = "remove"
  /\ name[w] \in DOMAIN zips
  /\ RemoveZip(name[w])
  /\ CASE batch[w].kind \in {"all", "part"} -> Goto(w, "get") /\ UNCHANGED <<batch, queue>>
       [] batch[w].kind = "large"           -> Proceed(w, queue[w])
       [] OTHER                             -> Goto(w, "ok") /\ UNCHANGED <<batch, queue>>
  /\ UNCHANGED <<jira, dirs, second, request, loaded, name, content, seen, history, requests, faults>>

RemoveFails(w) ==
  /\ pc[w] = "remove"
  /\ name[w] \notin DOMAIN zips
  /\ Raise(w, TRUE)
  /\ UNCHANGED <<jira, folder, second, request, loaded, name, content, seen,
                 told, overtaken, clashed, asked, contested, requests, faults>>

(***************************************************************************)
(* edit_issue: read the description, append to it, write it back           *)
(***************************************************************************)

EditGet(w) ==
  /\ pc[w] = "get"
  /\ seen' = [seen EXCEPT ![w] = described[issue[w]]]
  /\ overtaken' = overtaken \ {w}
  /\ Goto(w, "put")
  /\ UNCHANGED <<jira, folder, second, request, loaded, sending, told, dropped, clashed, asked, contested, requests, faults>>

Overtaken(w) == {x \in Workers \ {w} : pc[x] = "put" /\ issue[x] = issue[w]}

\* Mutant: the note replaces the description.
NoteReplaces(w) ==
  /\ described' = [described EXCEPT ![issue[w]] = batch[w].files]
  /\ overtaken' = (overtaken \ {w}) \cup Overtaken(w)

\* Whoever has read the description before is overtaken.
WriteNote(w) ==
  /\ described' = [described EXCEPT ![issue[w]] = seen[w] \cup batch[w].files]
  /\ overtaken' = (overtaken \ {w}) \cup Overtaken(w)

EditPut(w) ==
  /\ pc[w] = "put"
  /\ WriteNote(w)
  /\ CASE batch[w].kind \in {"all", "part"} -> Proceed(w, queue[w]) /\ UNCHANGED told
       [] batch[w].kind = "large"           -> Goto(w, "remove") /\ Tell(w, batch[w].files) /\ UNCHANGED <<batch, queue>>
       [] OTHER -> Goto(w, IF Single(w) THEN "failed" ELSE "ok") /\ Tell(w, batch[w].files) /\ UNCHANGED <<batch, queue>>
  /\ UNCHANGED <<epics, story, attached, folder, second, request, loaded, name, content, seen,
                 dropped, clashed, asked, contested, requests, faults>>

\* Jira refuses the note: edit_issue returns the response, at which nobody looks.  A large
\* file is named in the answer all the same, a file that was not downloaded is not.
EditRefused(w) ==
  /\ pc[w] = "put"
  /\ CASE batch[w].kind \in {"all", "part"} -> Proceed(w, queue[w]) /\ UNCHANGED <<told, dropped>>
       [] batch[w].kind = "large" ->
            Goto(w, "remove") /\ Tell(w, batch[w].files) /\ UNCHANGED <<batch, queue, dropped>>
       [] OTHER ->
            Goto(w, IF Single(w) THEN "failed" ELSE "ok") /\ Drop(w, batch[w].files) /\ UNCHANGED <<batch, queue, told>>
  /\ Fault(TRUE)
  /\ UNCHANGED <<jira, folder, second, request, loaded, name, content, seen,
                 overtaken, clashed, asked, contested>>

\* The GET or the PUT has no answer, though the note may be written; or the answer to
\* the upload, read last, is no JSON.  The archive of a large file is removed.
EditFails(w, written) ==
  /\ pc[w] \in {"get", "put"}
  /\ IF written THEN pc[w] = "put" /\ WriteNote(w) ELSE UNCHANGED <<described, overtaken>>
  /\ IF batch[w].kind = "large" THEN RemoveZip(name[w]) ELSE UNCHANGED zips
  /\ Raise(w, batch[w].kind # "large")
  /\ Fault(TRUE)
  /\ UNCHANGED <<epics, story, attached, dirs, second, request, loaded, name, content, seen,
                 told, clashed, asked, contested>>

(***************************************************************************)
(* upload_many_files_to_jira, upload_file_to_jira: one by one              *)
(***************************************************************************)

\* The answer lists the files that failed, but not those that were not downloaded.
SendSingly(w, arrived) ==
  /\ pc[w] = "singly"
  /\ arrived \subseteq have[w]
  /\ Attach(issue[w], arrived)
  /\ Tell(w, have[w] \ arrived)
  /\ Drop(w, missing[w])
  /\ Goto(w, IF Single(w) /\ arrived # have[w] THEN "failed" ELSE "ok")
  /\ Fault(arrived # have[w])
  /\ UNCHANGED <<epics, story, described, folder, second, request, loaded, sending, seen,
                 overtaken, clashed, asked, contested>>

(***************************************************************************)
(* The end of a request                                                    *)
(***************************************************************************)

Leave(w) ==
  /\ Goto(w, "idle")
  /\ summary' = [summary EXCEPT ![w] = NoSummary]
  /\ issue' = [issue EXCEPT ![w] = NoIssue]
  /\ wanted' = [wanted EXCEPT ![w] = {}]
  /\ have' = [have EXCEPT ![w] = {}] /\ missing' = [missing EXCEPT ![w] = {}]
  /\ batch' = [batch EXCEPT ![w] = NoBatch]
  /\ queue' = [queue EXCEPT ![w] = <<>>]
  /\ name' = [name EXCEPT ![w] = 0] /\ content' = [content EXCEPT ![w] = {}]
  /\ seen' = [seen EXCEPT ![w] = {}]
  /\ told' = [told EXCEPT ![w] = {}] /\ dropped' = [dropped EXCEPT ![w] = {}]
  /\ overtaken' = overtaken \ {w}
  /\ UNCHANGED <<jira, folder, second, clashed, asked, contested>>

Answer(w) == pc[w] \in {"ok", "failed"} /\ Leave(w) /\ Fault(FALSE)

\* gunicorn kills a worker: its directory and its archive stay.
Kill(w) == pc[w] \notin {"idle", "ok", "failed"} /\ Leave(w) /\ Fault(TRUE)

Next ==
  \/ Tick
  \/ \E w \in Workers :
       \/ \E s \in Summaries, ns \in Links \cup {{}} : StoryStart(w, s, ns)
       \/ \E i \in Issues, ns \in Links : AttachStart(w, i, ns)
       \/ \E i \in Issues : CreateStory(w, i)
       \/ \E arrived, ok \in BOOLEAN : CreateEpic(w, arrived, ok)
       \/ \E arrived \in BOOLEAN : CreateUnanswered(w, arrived) \/ UploadUnanswered(w, arrived)
       \/ \E fs \in SUBSET Files : Download(w, fs) \/ SendSingly(w, fs)
       \/ Search(w) \/ FindEpic(w) \/ Refused(w) \/ DownloadFails(w)
       \/ MakeDir(w) \/ Zip(w) \/ ZipFails(w) \/ Read(w) \/ ReadTooLarge(w) \/ ReadFails(w)
       \/ Upload(w) \/ UploadRefused(w) \/ Remove(w) \/ RemoveFails(w)
       \/ EditGet(w) \/ EditPut(w) \/ EditRefused(w) \/ Answer(w) \/ Kill(w)
       \/ \E written \in BOOLEAN : EditFails(w, written)

Spec == Init /\ [][Next]_vars

(***************************************************************************)
(* Properties                                                              *)
(***************************************************************************)

TypeOK ==
  /\ epics \in Nat /\ second \in Seconds /\ requests \in 0 .. MaxRequests /\ faults \in 0 .. MaxFaults
  /\ Keys \subseteq Issues /\ \A i \in Keys : story[i] \in Summaries \cup {NoSummary}
  /\ attached \in [Issues -> SUBSET Files] /\ described \in [Issues -> SUBSET Files]
  /\ dirs \subseteq Seconds /\ DOMAIN zips \subseteq Seconds /\ \A n \in DOMAIN zips : zips[n] \subseteq Files
  /\ pc \in [Workers -> PC] /\ summary \in [Workers -> Summaries \cup {NoSummary}]
  /\ issue \in [Workers -> Issues \cup {NoIssue}] /\ wanted \in [Workers -> SUBSET Files]
  /\ have \in [Workers -> SUBSET Files] /\ missing \in [Workers -> SUBSET Files]
  /\ batch \in [Workers -> Batches] /\ queue \in [Workers -> Seq(Batches)]
  /\ name \in [Workers -> Seconds] /\ content \in [Workers -> SUBSET Files]
  /\ seen \in [Workers -> SUBSET Files]
  /\ told \in [Workers -> SUBSET Files] /\ dropped \in [Workers -> SUBSET Files]
  /\ overtaken \subseteq Workers /\ clashed \subseteq Issues
  /\ asked \in [Issues -> SUBSET Files] /\ contested \subseteq Summaries

(* create_story makes no second story of a summary that its search finds, unless two
   requests for it ran at the same time or a creation went unanswered. *)
StoriesUnique ==
  \A s \in Mentions \ contested : \A i, j \in Keys : story[i] = s /\ story[j] = s => i = j

(* When a request to attach files is answered with "ok", each of its files is attached,
   or named in the description or the answer as missing, or among those that the code
   gives up without a word: a refused archive, a failed archive of a large file, a
   failed download before the archive failed, or whose note Jira refused. *)
FilesAccounted ==
  \A w \in Workers :
    pc[w] = "ok" /\ issue[w] \notin clashed \cup {NoIssue} =>
      wanted[w] \subseteq attached[issue[w]] \cup told[w] \cup dropped[w]

(* An issue gets only files that a request wanted there, though all workers pack their
   archives in one folder: archives must have one second's name for files to end at a
   wrong issue. *)
OwnFilesOnly == \A i \in Issues \ clashed : attached[i] \subseteq asked[i]

(* What a description says is lost only if edits overtake each other. *)
NotesKept ==
  [][\A i \in Issues :
       described[i] \subseteq described'[i]
       \/ \E w \in overtaken : pc[w] = "put" /\ issue[w] = i]_vars
=============================================================================
