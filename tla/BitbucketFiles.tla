----------------------------- MODULE BitbucketFiles -----------------------------
(***************************************************************************)
(* The files of repositories in Bitbucket (src/app/bitbucket.py).  A       *)
(* worker changes the master branch of a repository from a local git       *)
(* directory: a new file goes through a temporary branch, a pull request   *)
(* and its merge, a replaced or removed file through a pull, a commit and  *)
(* a push, a copy of a repository through a forced push.  The commands run *)
(* one after the other, their exit codes and the answer of the merge are   *)
(* not looked at, and other workers may move the master branch between any *)
(* two of them.  A history of commits is abstracted to the number of its   *)
(* last one: a push is accepted only if it builds on that commit.  What a  *)
(* request leaves behind, a temporary branch or the deleted directory that *)
(* the worker is in, makes later listings fail at most: ListFails.         *)
(***************************************************************************)
EXTENDS Integers

CONSTANTS
  Workers,      \* gunicorn workers
  Repos, Files,
  Bodies,       \* contents of files
  NoBody,       \* the content of a file that is not there
  NoRepo,       \* the repository of a worker without a request
  MaxCommits,   \* bound: commits on one master branch
  Kinds         \* the requests that clients make

AllKinds == {"create", "upload", "form", "remove", "copy"}
Fresh    == -1   \* a local directory without a commit
Apart    == 0    \* a local history that the master branch does not share

ASSUME ConstantsAssumption ==
  /\ NoBody \notin Bodies /\ NoRepo \notin Repos
  /\ MaxCommits \in Nat \ {0} /\ Kinds \subseteq AllKinds

Contents == [Files -> Bodies \cup {NoBody}]
Nothing  == [f \in Files |-> NoBody]

VARIABLES
  repos,     \* the repositories that exist in Bitbucket
  head,      \* the last commit of each master branch, 0 when there is none
  root,      \* the commit with which its history begins: the last forced push
  files,     \* the files in that commit
  pc,        \* the next command of each worker
  kind, repo, names, want,   \* its request: on which files, and the contents they shall have
  new,       \* the files that the listing has not shown
  base,      \* the commit that its local directory is at
  local,     \* the files pulled with that commit
  troubled   \* history: another request moved the master branch, or a command failed

server  == <<repos, head, root, files>>
request == <<kind, repo, names, want>>
git     == <<new, base, local>>
vars    == <<server, pc, request, git, troubled>>

PC == {"idle", "list", "push_branch", "pull_request", "no_branch", "merge", "drop_branch",
       "pull", "push", "force_push", "push_initial", "answer"}

Init ==
  /\ repos = {} /\ troubled = {}
  /\ head = [r \in Repos |-> 0] /\ root = [r \in Repos |-> 0]
  /\ files = [r \in Repos |-> Nothing]
  /\ pc = [w \in Workers |-> "idle"]
  /\ kind = [w \in Workers |-> "create"]
  /\ repo = [w \in Workers |-> NoRepo]
  /\ names = [w \in Workers |-> {}]
  /\ want = [w \in Workers |-> Nothing]
  /\ new = [w \in Workers |-> {}]
  /\ base = [w \in Workers |-> Fresh]
  /\ local = [w \in Workers |-> Nothing]

Goto(w, label) == pc' = [pc EXCEPT ![w] = label]

\* A request of kind k on repository r, after which the files ns shall be as in v.
Begin(w, k, r, ns, v, label) ==
  /\ k \in Kinds /\ pc[w] = "idle"
  /\ Goto(w, label)
  /\ kind' = [kind EXCEPT ![w] = k]
  /\ repo' = [repo EXCEPT ![w] = r]
  /\ names' = [names EXCEPT ![w] = ns]
  /\ want' = [want EXCEPT ![w] = v]
  /\ UNCHANGED troubled

\* The request is over.
Leave(w) ==
  /\ Goto(w, "idle")
  /\ kind' = [kind EXCEPT ![w] = "create"]
  /\ repo' = [repo EXCEPT ![w] = NoRepo]
  /\ names' = [names EXCEPT ![w] = {}]
  /\ want' = [want EXCEPT ![w] = Nothing]
  /\ new' = [new EXCEPT ![w] = {}]
  /\ base' = [base EXCEPT ![w] = Fresh]
  /\ local' = [local EXCEPT ![w] = Nothing]
  /\ troubled' = troubled \ {w}

\* The command of w at label; when it fails, that goes unnoticed.
Command(w, label, ok) ==
  /\ pc[w] = label
  /\ ok \in BOOLEAN
  /\ UNCHANGED request

Noted(w, ok) == IF ok THEN {} ELSE {w}

\* The requests of others on the repository of w.
Others(w) == {x \in Workers \ {w} : repo[x] = repo[w]}

\* w moves the master branch of its repository to a commit with the files v.
MoveMaster(w, v) ==
  /\ head[repo[w]] < MaxCommits
  /\ head' = [head EXCEPT ![repo[w]] = @ + 1]
  /\ files' = [files EXCEPT ![repo[w]] = v]
  /\ troubled' = troubled \cup Others(w)

\* The files v with those in ns as they shall be.
Changed(w, v, ns) == [f \in Files |-> IF f \in ns THEN want[w][f] ELSE v[f]]

(***************************************************************************)
(* repo_create: a POST, then a first commit; project_create only posts     *)
(***************************************************************************)

\* A repository that exists is a KeyError: 500.
CreateRepo(w, r) ==
  /\ r \notin repos
  /\ Begin(w, "create", r, {}, Nothing, "push_initial")
  /\ repos' = repos \cup {r}
  /\ UNCHANGED <<head, root, files, git>>

PushInitial(w, ok) ==
  /\ Command(w, "push_initial", ok)
  /\ IF ok /\ head[repo[w]] = 0 THEN MoveMaster(w, Nothing)
     ELSE UNCHANGED <<head, files>> /\ troubled' = troubled \cup {w}
  /\ Goto(w, "answer")
  /\ UNCHANGED <<repos, root, git>>

(***************************************************************************)
(* upload_file and upload_multiple_files: list, then upload or replace     *)
(***************************************************************************)

\* upload_file has one file, upload_multiple_files some; v has their contents.
UploadFiles(w, r, v) ==
  /\ v # Nothing
  /\ Begin(w, "upload", r, {f \in Files : v[f] # NoBody}, v, "list")
  /\ UNCHANGED <<server, git>>

\* The old upload form does not list the files.
UploadForm(w, r, f, b) ==
  /\ Begin(w, "form", r, {f}, [Nothing EXCEPT ![f] = b], "push_branch")
  /\ new' = [new EXCEPT ![w] = {f}]
  /\ UNCHANGED <<server, base, local>>

Listed(r) == {f \in Files : files[r][f] # NoBody}

\* Mutant: every file is taken for a new one.
ListNothing(w) ==
  /\ Command(w, "list", TRUE)
  /\ head[repo[w]] > 0
  /\ new' = [new EXCEPT ![w] = names[w]]
  /\ Goto(w, "push_branch")
  /\ UNCHANGED <<server, base, local, troubled>>

\* Mutant: the list of the files is taken for a file.
ListAsOne(w) ==
  /\ Command(w, "list", TRUE)
  /\ new' = [new EXCEPT ![w] = {names[w]}]
  /\ Goto(w, "push_branch")
  /\ UNCHANGED <<server, base, local, troubled>>

\* A repository without a master branch has no list: 400 or 500 (ListFails).
List(w) ==
  /\ Command(w, "list", TRUE)
  /\ head[repo[w]] > 0
  /\ new' = [new EXCEPT ![w] = names[w] \ Listed(repo[w])]
  /\ Goto(w, IF names[w] \subseteq Listed(repo[w]) THEN "pull" ELSE "push_branch")
  /\ UNCHANGED <<server, base, local, troubled>>

\* The listing fails: upload_file has no "files_list" and raises, upload_multiple_files
\* answers 400; or the worker is in a deleted directory, where os.getcwd() raises.
ListFails(w) ==
  /\ pc[w] = "list"
  /\ Leave(w)
  /\ UNCHANGED server

(***************************************************************************)
(* upload_new_file_to_repo, upload_new_multiple_file_to_repo               *)
(***************************************************************************)

\* The local commit is the first of its history.
PushBranch(w, ok) ==
  /\ Command(w, "push_branch", ok)
  /\ ok => repo[w] \in repos
  /\ base' = [base EXCEPT ![w] = Apart]
  /\ Goto(w, IF ok THEN "pull_request" ELSE "no_branch")
  /\ troubled' = troubled \cup Noted(w, ok)
  /\ UNCHANGED <<repos, head, root, files, new, local>>

PullRequest(w) ==
  /\ Command(w, "pull_request", TRUE)
  /\ head[repo[w]] > 0
  /\ Goto(w, "merge")
  /\ UNCHANGED <<server, git, troubled>>

\* The answer has no "id": KeyError, 500.  The branch stays.
PullRequestFails(w) ==
  /\ pc[w] \in {"no_branch", "pull_request"}
  /\ Leave(w)
  /\ UNCHANGED server

\* The histories have nothing in common: a file that is there with another
\* content is a conflict.
Conflict(w) == \E f \in new[w] : files[repo[w]][f] \notin {NoBody, want[w][f]}

Merge(w, ok) ==
  /\ Command(w, "merge", ok)
  /\ IF ok /\ ~Conflict(w)
     THEN /\ MoveMaster(w, Changed(w, files[repo[w]], new[w]))
          /\ base' = [base EXCEPT ![w] = head[repo[w]] + 1]
     ELSE /\ troubled' = troubled \cup Noted(w, ok)
          /\ UNCHANGED <<head, files, base>>
  /\ Goto(w, "drop_branch")
  /\ UNCHANGED <<repos, root, new, local>>

\* upload_multiple_files goes on with the files to replace.
DropBranch(w) ==
  /\ Command(w, "drop_branch", TRUE)
  /\ Goto(w, IF names[w] \subseteq new[w] THEN "answer" ELSE "pull")
  /\ UNCHANGED <<server, git, troubled>>

(***************************************************************************)
(* replace_file_in_repo, replace_multiple_file_in_repo,                    *)
(* remove_file_on_bitbucket: pull, commit, push                            *)
(***************************************************************************)

RemoveFile(w, r, f) ==
  /\ Begin(w, "remove", r, {f}, Nothing, "pull")
  /\ UNCHANGED <<server, git>>

\* git merges what it has pulled only into a directory without commits, or into
\* a history that the master branch goes on from.
Follows(w) == base[w] = Fresh \/ (base[w] > 0 /\ base[w] >= root[repo[w]])

Pull(w, ok) ==
  /\ Command(w, "pull", ok)
  /\ IF ok /\ head[repo[w]] > 0 /\ Follows(w)
     THEN /\ base' = [base EXCEPT ![w] = head[repo[w]]]
          /\ local' = [local EXCEPT ![w] = files[repo[w]]]
     ELSE base' = [base EXCEPT ![w] = Apart] /\ UNCHANGED local
  /\ Goto(w, "push")
  /\ troubled' = troubled \cup Noted(w, ok)
  /\ UNCHANGED <<server, new>>

\* The commit of the files that are not new.
Committed(w) == Changed(w, local[w], names[w] \ new[w])

\* Mutant: the push is forced.
PushForced(w, ok) ==
  /\ Command(w, "push", ok)
  /\ IF ok /\ base[w] > 0 /\ Committed(w) # local[w] THEN MoveMaster(w, Committed(w))
     ELSE troubled' = troubled \cup Noted(w, ok) /\ UNCHANGED <<head, files>>
  /\ Goto(w, "answer")
  /\ UNCHANGED <<repos, root, git>>

\* Without a change there is no commit, and nothing to push.
Push(w, ok) ==
  /\ Command(w, "push", ok)
  /\ IF ok /\ base[w] > 0 /\ base[w] = head[repo[w]] /\ Committed(w) # local[w]
     THEN MoveMaster(w, Committed(w))
     ELSE troubled' = troubled \cup Noted(w, ok) /\ UNCHANGED <<head, files>>
  /\ Goto(w, "answer")
  /\ UNCHANGED <<repos, root, git>>

(***************************************************************************)
(* create_repo_copy: clone, begin a new history, force it on the target    *)
(***************************************************************************)

\* Nothing to clone: os.chdir raises, 500.
CopyRepo(w, from, to) ==
  /\ from \in repos
  /\ Begin(w, "copy", to, Files, files[from], "force_push")
  /\ base' = [base EXCEPT ![w] = head[from]]
  /\ UNCHANGED <<server, new, local>>

ForcePush(w, ok) ==
  /\ Command(w, "force_push", ok)
  /\ IF ok /\ repo[w] \in repos /\ base[w] > 0
     THEN /\ MoveMaster(w, want[w])
          /\ root' = [root EXCEPT ![repo[w]] = head[repo[w]] + 1]
     ELSE UNCHANGED <<head, root, files>> /\ troubled' = troubled \cup {w}
  /\ Goto(w, "answer")
  /\ UNCHANGED <<repos, git>>

(***************************************************************************)
(* The end of a request                                                    *)
(***************************************************************************)

Answer(w) ==
  /\ pc[w] = "answer"
  /\ Leave(w)
  /\ UNCHANGED server

\* gunicorn kills a worker, and starts another one in its place.
Kill(w) ==
  /\ pc[w] # "idle"
  /\ Leave(w)
  /\ UNCHANGED server

Next ==
  \E w \in Workers :
    \/ \E r \in Repos :
         \/ CreateRepo(w, r)
         \/ \E f \in Files : RemoveFile(w, r, f)
         \/ \E f \in Files, b \in Bodies : UploadForm(w, r, f, b)
         \/ \E v \in Contents : UploadFiles(w, r, v)
         \/ \E to \in Repos : CopyRepo(w, r, to)
    \/ \E ok \in BOOLEAN :
         \/ PushInitial(w, ok) \/ PushBranch(w, ok) \/ Merge(w, ok)
         \/ Pull(w, ok) \/ Push(w, ok) \/ ForcePush(w, ok)
    \/ List(w) \/ ListFails(w) \/ PullRequest(w) \/ PullRequestFails(w) \/ DropBranch(w)
    \/ Answer(w) \/ Kill(w)

Spec == Init /\ [][Next]_vars

(***************************************************************************)
(* Properties                                                              *)
(***************************************************************************)

TypeOK ==
  /\ repos \subseteq Repos /\ troubled \subseteq Workers
  /\ head \in [Repos -> 0 .. MaxCommits] /\ root \in [Repos -> 0 .. MaxCommits]
  /\ files \in [Repos -> Contents]
  /\ pc \in [Workers -> PC] /\ kind \in [Workers -> AllKinds]
  /\ repo \in [Workers -> Repos \cup {NoRepo}]
  /\ names \in [Workers -> SUBSET Files] /\ new \in [Workers -> SUBSET Files]
  /\ want \in [Workers -> Contents] /\ local \in [Workers -> Contents]
  /\ base \in [Workers -> Fresh .. MaxCommits]

(* A file of a repository changes only to what a running request wants of it: what
   a worker has pulled some time ago never brings back the old content of a file that
   its request does not name.  (A copy names every file of its target.) *)
OnlyAsAsked ==
  [][\A r \in Repos, f \in Files : files'[r][f] # files[r][f] =>
       \E w \in Workers :
         repo[w] = r /\ f \in names[w] /\ files'[r][f] = want[w][f]]_vars

(* A request that nobody has overtaken and whose commands have not failed is answered
   only when the master branch has what it asked for, though the code looks at no exit
   code.  (Not so the old upload form, whose file may be there already.) *)
AnswersAreTrue ==
  \A w \in Workers \ troubled :
    pc[w] = "answer" /\ kind[w] # "form" =>
      \A f \in names[w] : files[repo[w]][f] = want[w][f]
=============================================================================
