---------------------------- MODULE BitbucketProofs ----------------------------
(***************************************************************************)
(* What BitbucketFiles promises for every number of workers, repositories, *)
(* files, contents and commits.                                            *)
(***************************************************************************)
EXTENDS BitbucketFiles, TLAPS

\* A history begins with a commit of its branch; without commits there are no files.
ServerInv ==
  \A r \in Repos : root[r] <= head[r] /\ (head[r] = 0 => files[r] = Nothing)

\* What a worker knows at each command, undisturbed or not.
WorkerShape(w) ==
  /\ pc[w] # "idle" => repo[w] \in Repos
  /\ pc[w] = "idle" => repo[w] = NoRepo
  /\ pc[w] \in {"idle", "list", "force_push", "push_initial"} => new[w] = {}
  /\ pc[w] \in {"idle", "list"} => base[w] = Fresh
  /\ pc[w] \notin {"push", "answer"} => local[w] = Nothing
  /\ new[w] \subseteq names[w]
  /\ pc[w] = "force_push" => names[w] = Files
  /\ pc[w] = "push_initial" => names[w] = {}
  /\ pc[w] = "push" => base[w] <= head[repo[w]]
  /\ pc[w] = "push" /\ base[w] > 0 /\ base[w] = head[repo[w]] => local[w] = files[repo[w]]

\* The master branch of w has what w wants of the files ns.
Satisfied(w, ns) == \A f \in ns : files[repo[w]][f] = want[w][f]

\* How far an undisturbed worker has come.
Progress(w) ==
  /\ pc[w] \in {"push_branch", "pull_request", "merge"} => new[w] \cap Listed(repo[w]) = {}
  /\ pc[w] \in {"drop_branch", "pull", "push"} => Satisfied(w, new[w])
  /\ pc[w] = "drop_branch" => base[w] = head[repo[w]] /\ base[w] > 0
  /\ pc[w] = "pull" => base[w] = Fresh \/ (base[w] = head[repo[w]] /\ base[w] > 0)
  /\ pc[w] = "push" => base[w] = head[repo[w]] /\ local[w] = files[repo[w]]
  /\ pc[w] \in {"pull", "push"} /\ head[repo[w]] = 0 => want[w] = Nothing
  /\ pc[w] = "answer" => Satisfied(w, names[w])

Undisturbed(w) == w \notin troubled /\ kind[w] # "form"

BitbucketInv ==
  /\ TypeOK /\ ServerInv
  /\ \A w \in Workers : WorkerShape(w)
  /\ \A w \in Workers : Undisturbed(w) => Progress(w)

(***************************************************************************)
(* Types                                                                   *)
(***************************************************************************)

LEMMA InitType == Init => TypeOK
BY ConstantsAssumption DEF Init, TypeOK, Contents, Nothing, PC, AllKinds, Fresh

LEMMA BeginType ==
  ASSUME TypeOK, NEW w \in Workers, NEW k, NEW r \in Repos, NEW ns \in SUBSET Files,
         NEW v \in Contents, NEW label \in PC, Begin(w, k, r, ns, v, label)
  PROVE  /\ pc' \in [Workers -> PC] /\ kind' \in [Workers -> AllKinds]
         /\ repo' \in [Workers -> Repos \cup {NoRepo}] /\ names' \in [Workers -> SUBSET Files]
         /\ want' \in [Workers -> Contents] /\ troubled' \subseteq Workers
BY ConstantsAssumption DEF TypeOK, Begin, Goto

LEMMA LeaveType ==
  ASSUME TypeOK, NEW w \in Workers, Leave(w), UNCHANGED server
  PROVE  TypeOK'
BY ConstantsAssumption DEF TypeOK, Leave, Goto, PC, AllKinds, Contents, Nothing, Fresh, server

LEMMA NothingType == Nothing \in Contents
BY DEF Nothing, Contents

LEMMA MoveType ==
  ASSUME TypeOK, NEW w \in Workers, repo[w] \in Repos, NEW v \in Contents, MoveMaster(w, v)
  PROVE  /\ head' \in [Repos -> 0 .. MaxCommits]
         /\ head[repo[w]] + 1 \in 0 .. MaxCommits
         /\ files' \in [Repos -> Contents] /\ troubled' \subseteq Workers
BY ConstantsAssumption DEF TypeOK, MoveMaster, Others

LEMMA ChangedType ==
  ASSUME TypeOK, NEW w \in Workers, NEW v \in Contents, NEW ns \in SUBSET Files
  PROVE  Changed(w, v, ns) \in Contents
BY DEF TypeOK, Changed, Contents

LEMMA NextType == BitbucketInv /\ [Next]_vars => TypeOK'
<1> SUFFICES ASSUME BitbucketInv, [Next]_vars PROVE TypeOK'
  OBVIOUS
<1> USE ConstantsAssumption DEF BitbucketInv
<1> TypeOK
  OBVIOUS
<1>1. ASSUME NEW w \in Workers, NEW r \in Repos, CreateRepo(w, r)
      PROVE  TypeOK'
  BY <1>1, BeginType, NothingType DEF CreateRepo, TypeOK, PC, git
<1>2. ASSUME NEW w \in Workers, NEW r \in Repos, NEW f \in Files, RemoveFile(w, r, f)
      PROVE  TypeOK'
  BY <1>2, BeginType, NothingType DEF RemoveFile, TypeOK, PC, git, server
<1>3. ASSUME NEW w \in Workers, NEW r \in Repos, NEW f \in Files, NEW b \in Bodies, UploadForm(w, r, f, b)
      PROVE  TypeOK'
  <2>1. [Nothing EXCEPT ![f] = b] \in Contents
    BY DEF Nothing, Contents
  <2> QED BY <1>3, <2>1, BeginType DEF UploadForm, TypeOK, PC, server
<1>4. ASSUME NEW w \in Workers, NEW r \in Repos, NEW v \in Contents, UploadFiles(w, r, v)
      PROVE  TypeOK'
  BY <1>4, BeginType DEF UploadFiles, TypeOK, PC, git, server
<1>5. ASSUME NEW w \in Workers, NEW r \in Repos, NEW to \in Repos, CopyRepo(w, r, to)
      PROVE  TypeOK'
  <2>1. files[r] \in Contents /\ Files \in SUBSET Files /\ head[r] \in 0 .. MaxCommits
    BY DEF TypeOK
  <2>2. base' \in [Workers -> Fresh .. MaxCommits]
    BY <1>5, <2>1 DEF CopyRepo, TypeOK, Fresh
  <2>3. Begin(w, "copy", to, Files, files[r], "force_push") /\ "force_push" \in PC
    BY <1>5 DEF CopyRepo, PC
  <2> HIDE DEF BitbucketInv
  <2> QED BY <1>5, <2>1, <2>2, <2>3, BeginType DEF CopyRepo, TypeOK, server
<1>6. ASSUME NEW w \in Workers, NEW ok \in BOOLEAN, PushInitial(w, ok)
      PROVE  TypeOK'
  <2>1. repo[w] \in Repos
    BY <1>6 DEF PushInitial, Command, WorkerShape
  <2> QED BY <1>6, <2>1, MoveType, NothingType
        DEF PushInitial, Command, Goto, TypeOK, PC, git, request
<1>7. ASSUME NEW w \in Workers, NEW ok \in BOOLEAN, PushBranch(w, ok)
      PROVE  TypeOK'
  BY <1>7 DEF PushBranch, Command, Goto, TypeOK, PC, request, Apart, Fresh, Noted
<1>8. ASSUME NEW w \in Workers, NEW ok \in BOOLEAN, Merge(w, ok)
      PROVE  TypeOK'
  <2>1. repo[w] \in Repos
    BY <1>8 DEF Merge, Command, WorkerShape
  <2>2. Changed(w, files[repo[w]], new[w]) \in Contents
    BY <2>1, ChangedType DEF TypeOK
  <2> QED BY <1>8, <2>1, <2>2, MoveType DEF Merge, Command, Goto, TypeOK, PC, request, Noted, Fresh
<1>9. ASSUME NEW w \in Workers, NEW ok \in BOOLEAN, Pull(w, ok)
      PROVE  TypeOK'
  <2>1. repo[w] \in Repos
    BY <1>9 DEF Pull, Command, WorkerShape
  <2> QED BY <1>9, <2>1 DEF Pull, Command, Goto, TypeOK, PC, request, server, Noted, Fresh, Apart
<1>10. ASSUME NEW w \in Workers, NEW ok \in BOOLEAN, Push(w, ok)
      PROVE  TypeOK'
  <2>1. repo[w] \in Repos
    BY <1>10 DEF Push, Command, WorkerShape
  <2>2. Committed(w) \in Contents
    BY ChangedType DEF Committed, TypeOK
  <2> QED BY <1>10, <2>1, <2>2, MoveType DEF Push, Command, Goto, TypeOK, PC, request, git, Noted
<1>11. ASSUME NEW w \in Workers, NEW ok \in BOOLEAN, ForcePush(w, ok)
      PROVE  TypeOK'
  <2>1. repo[w] \in Repos
    BY <1>11 DEF ForcePush, Command, WorkerShape
  <2> QED BY <1>11, <2>1, MoveType DEF ForcePush, Command, Goto, TypeOK, PC, request, git
<1>12. ASSUME NEW w \in Workers, List(w) \/ PullRequest(w) \/ DropBranch(w)
      PROVE  TypeOK'
  BY <1>12 DEF List, PullRequest, DropBranch, Command, Goto, TypeOK, PC, request, git, server
<1>13. ASSUME NEW w \in Workers, ListFails(w) \/ PullRequestFails(w) \/ Answer(w) \/ Kill(w)
      PROVE  TypeOK'
  BY <1>13, LeaveType DEF ListFails, PullRequestFails, Answer, Kill
<1>14. CASE UNCHANGED vars
  BY <1>14 DEF vars, server, request, git, TypeOK
<1> QED BY <1>1, <1>2, <1>3, <1>4, <1>5, <1>6, <1>7, <1>8, <1>9, <1>10, <1>11, <1>12, <1>13, <1>14
      DEF Next

(***************************************************************************)
(* The invariant                                                           *)
(***************************************************************************)

LEMMA InitInv == Init => BitbucketInv
<1> SUFFICES ASSUME Init PROVE BitbucketInv
  OBVIOUS
<1>1. ServerInv
  BY DEF Init, ServerInv
<1>2. ASSUME NEW w \in Workers PROVE WorkerShape(w) /\ Progress(w)
  BY DEF Init, WorkerShape, Progress
<1> QED BY <1>1, <1>2, InitType DEF BitbucketInv

\* A step of another worker that leaves x alone ...
Untouched(x) ==
  /\ pc'[x] = pc[x] /\ kind'[x] = kind[x] /\ repo'[x] = repo[x] /\ names'[x] = names[x]
  /\ want'[x] = want[x] /\ new'[x] = new[x] /\ base'[x] = base[x] /\ local'[x] = local[x]
  /\ x \in troubled => x \in troubled'

\* ... and moves its master branch at most on, which counts as trouble.
MovedAtMost(x) ==
  repo[x] \in Repos =>
    \/ head'[repo[x]] = head[repo[x]] /\ files'[repo[x]] = files[repo[x]]
    \/ head'[repo[x]] = head[repo[x]] + 1 /\ x \in troubled'

LEMMA OtherKeeps ==
  ASSUME TypeOK, NEW x \in Workers, WorkerShape(x), Undisturbed(x) => Progress(x),
         Untouched(x), MovedAtMost(x)
  PROVE  WorkerShape(x)' /\ (Undisturbed(x)' => Progress(x)')
<1>1. repo[x] \in Repos \/ pc[x] = "idle"
  BY DEF WorkerShape
<1>2. base[x] \in Int /\ (repo[x] \in Repos => head[repo[x]] \in Nat)
  BY DEF TypeOK, Fresh
<1>3. WorkerShape(x)'
  BY <1>1, <1>2 DEF WorkerShape, Untouched, MovedAtMost
<1>4. ASSUME Undisturbed(x)' PROVE Progress(x)'
  <2>1. Progress(x)
    BY <1>4 DEF Undisturbed, Untouched
  <2>2. CASE repo[x] \in Repos
    <3>1. head'[repo[x]] = head[repo[x]] /\ files'[repo[x]] = files[repo[x]]
      BY <1>4, <2>2 DEF Undisturbed, MovedAtMost
    <3> QED BY <2>1, <3>1 DEF Progress, Satisfied, Listed, Untouched
  <2>3. CASE pc[x] = "idle"
    BY <2>3 DEF Progress, Untouched
  <2> QED BY <1>1, <2>2, <2>3
<1> QED BY <1>3, <1>4

\* Enough that w moves the master branch of its own repository, or none.
LEMMA StepKeeps ==
  ASSUME BitbucketInv, TypeOK', NEW w \in Workers,
         \A x \in Workers \ {w} : Untouched(x) /\ MovedAtMost(x),
         ServerInv', WorkerShape(w)', Undisturbed(w)' => Progress(w)'
  PROVE  BitbucketInv'
<1>1. ASSUME NEW x \in Workers PROVE WorkerShape(x)' /\ (Undisturbed(x)' => Progress(x)')
  BY OtherKeeps DEF BitbucketInv
<1> QED BY <1>1 DEF BitbucketInv

\* w begins a request: Begin without its arguments.
Started(w) ==
  /\ pc[w] = "idle"
  /\ pc' = [pc EXCEPT ![w] = pc'[w]] /\ kind' = [kind EXCEPT ![w] = kind'[w]]
  /\ repo' = [repo EXCEPT ![w] = repo'[w]] /\ names' = [names EXCEPT ![w] = names'[w]]
  /\ want' = [want EXCEPT ![w] = want'[w]]
  /\ UNCHANGED <<troubled, head, root, files, local>>
  /\ \A x \in Workers \ {w} : new'[x] = new[x] /\ base'[x] = base[x]

LEMMA BeginKeeps ==
  ASSUME BitbucketInv, NEW w \in Workers, Started(w)
  PROVE  /\ \A x \in Workers \ {w} : Untouched(x) /\ MovedAtMost(x)
         /\ ServerInv'
         /\ new[w] = {} /\ base[w] = Fresh /\ local'[w] = Nothing
<1>1. WorkerShape(w) /\ pc[w] = "idle"
  BY DEF BitbucketInv, Started
<1>2. ServerInv'
  BY DEF BitbucketInv, ServerInv, Started
<1>3. ASSUME NEW x \in Workers \ {w} PROVE Untouched(x) /\ MovedAtMost(x)
  BY DEF BitbucketInv, TypeOK, Started, Untouched, MovedAtMost
<1> QED BY <1>1, <1>2, <1>3 DEF WorkerShape, Started

LEMMA LeaveKeeps ==
  ASSUME BitbucketInv, NEW w \in Workers, Leave(w), UNCHANGED server
  PROVE  BitbucketInv'
<1>1. TypeOK'
  BY LeaveType DEF BitbucketInv
<1>2. ServerInv'
  BY DEF BitbucketInv, ServerInv, server
<1>3. ASSUME NEW x \in Workers \ {w} PROVE Untouched(x) /\ MovedAtMost(x)
  BY DEF BitbucketInv, TypeOK, Leave, Goto, Untouched, MovedAtMost, server
<1>4. WorkerShape(w)' /\ Progress(w)'
  BY DEF BitbucketInv, TypeOK, Leave, Goto, WorkerShape, Progress
<1> QED BY <1>1, <1>2, <1>3, <1>4, StepKeeps

\* A command that changes at most the git directory of w, and what is noted.
LEMMA QuietKeeps ==
  ASSUME BitbucketInv, NEW w \in Workers, NEW label, Goto(w, label),
         UNCHANGED <<server, request>>, troubled \subseteq troubled',
         \A x \in Workers \ {w} : new'[x] = new[x] /\ base'[x] = base[x] /\ local'[x] = local[x]
  PROVE  /\ \A x \in Workers \ {w} : Untouched(x) /\ MovedAtMost(x)
         /\ ServerInv'
         /\ pc'[w] = label
<1>1. ASSUME NEW x \in Workers \ {w} PROVE Untouched(x) /\ MovedAtMost(x)
  BY DEF BitbucketInv, TypeOK, Goto, Untouched, MovedAtMost, server, request
<1>2. ServerInv' /\ pc'[w] = label
  BY DEF BitbucketInv, TypeOK, ServerInv, server, Goto
<1> QED BY <1>1, <1>2

\* A command that moves the master branch.
LEMMA MoveKeeps ==
  ASSUME BitbucketInv, NEW w \in Workers, repo[w] \in Repos, NEW v, MoveMaster(w, v), NEW label, Goto(w, label),
         UNCHANGED <<request, new, local>>,
         \A x \in Workers \ {w} : base'[x] = base[x],
         \A r \in Repos : root'[r] <= head'[r]
  PROVE  /\ \A x \in Workers \ {w} : Untouched(x) /\ MovedAtMost(x)
         /\ ServerInv'
         /\ pc'[w] = label /\ head'[repo[w]] = head[repo[w]] + 1 /\ files'[repo[w]] = v
         /\ head[repo[w]] \in Nat
<1>1. head[repo[w]] \in Nat /\ head'[repo[w]] = head[repo[w]] + 1 /\ files'[repo[w]] = v
  BY DEF BitbucketInv, TypeOK, MoveMaster
<1>2. \A r \in Repos \ {repo[w]} : head'[r] = head[r] /\ files'[r] = files[r]
  BY DEF BitbucketInv, TypeOK, MoveMaster
<1>3. ASSUME NEW x \in Workers \ {w} PROVE Untouched(x) /\ MovedAtMost(x)
  <2>1. repo[x] = repo[w] => x \in troubled'
    BY DEF MoveMaster, Others
  <2>2. MovedAtMost(x)
    BY <1>1, <1>2, <2>1 DEF MovedAtMost
  <2>3. Untouched(x)
    BY DEF BitbucketInv, TypeOK, Goto, Untouched, request, MoveMaster
  <2> QED BY <2>2, <2>3
<1>4. ServerInv'
  BY <1>1, <1>2 DEF BitbucketInv, ServerInv
<1>5. pc'[w] = label
  BY DEF BitbucketInv, TypeOK, Goto
<1> QED BY <1>1, <1>3, <1>4, <1>5

\* Every action keeps the invariant.
LEMMA NextInv == BitbucketInv /\ [Next]_vars => BitbucketInv'
<1> SUFFICES ASSUME BitbucketInv, [Next]_vars PROVE BitbucketInv'
  OBVIOUS
<1>0. TypeOK /\ TypeOK' /\ ServerInv
  BY NextType DEF BitbucketInv
<1>1. ASSUME NEW w \in Workers, NEW r \in Repos, CreateRepo(w, r)
      PROVE  BitbucketInv'
  <2>1. /\ Started(w) /\ pc'[w] = "push_initial" /\ kind'[w] = "create" /\ repo'[w] = r
        /\ names'[w] = {} /\ want'[w] = Nothing
    BY <1>0, <1>1 DEF CreateRepo, Begin, Goto, Started, TypeOK, git, server
  <2>2. new'[w] = new[w] /\ base'[w] = base[w]
    BY <1>1 DEF CreateRepo, git
  <2>3. /\ \A x \in Workers \ {w} : Untouched(x) /\ MovedAtMost(x)
        /\ ServerInv' /\ new[w] = {} /\ base[w] = Fresh /\ local'[w] = Nothing
    BY <2>1, BeginKeeps
  <2>4. WorkerShape(w)'
    BY <2>1, <2>2, <2>3 DEF WorkerShape
  <2>5. Progress(w)'
    BY <2>1, <2>2, <2>3 DEF Progress, Satisfied
  <2> QED BY <1>0, <2>3, <2>4, <2>5, StepKeeps
<1>2. ASSUME NEW w \in Workers, NEW r \in Repos, NEW f \in Files, RemoveFile(w, r, f)
      PROVE  BitbucketInv'
  <2>1. /\ Started(w) /\ pc'[w] = "pull" /\ kind'[w] = "remove" /\ repo'[w] = r
        /\ names'[w] = {f} /\ want'[w] = Nothing
    BY <1>0, <1>2 DEF RemoveFile, Begin, Goto, Started, TypeOK, git, server
  <2>2. new'[w] = new[w] /\ base'[w] = base[w]
    BY <1>2 DEF RemoveFile, git
  <2>3. /\ \A x \in Workers \ {w} : Untouched(x) /\ MovedAtMost(x)
        /\ ServerInv' /\ new[w] = {} /\ base[w] = Fresh /\ local'[w] = Nothing
    BY <2>1, BeginKeeps
  <2>4. WorkerShape(w)'
    BY <2>1, <2>2, <2>3 DEF WorkerShape
  <2>5. Progress(w)'
    BY <2>1, <2>2, <2>3 DEF Progress, Satisfied
  <2> QED BY <1>0, <2>3, <2>4, <2>5, StepKeeps
<1>3. ASSUME NEW w \in Workers, NEW r \in Repos, NEW f \in Files, NEW b \in Bodies, UploadForm(w, r, f, b)
      PROVE  BitbucketInv'
  <2>1. /\ Started(w) /\ pc'[w] = "push_branch" /\ kind'[w] = "form" /\ repo'[w] = r
        /\ names'[w] = {f} /\ want'[w] = [Nothing EXCEPT ![f] = b]
    BY <1>0, <1>3 DEF UploadForm, Begin, Goto, Started, TypeOK, git, server
  <2>2. new'[w] = {f} /\ base'[w] = base[w]
    BY <1>0, <1>3 DEF UploadForm, TypeOK
  <2>3. /\ \A x \in Workers \ {w} : Untouched(x) /\ MovedAtMost(x)
        /\ ServerInv' /\ new[w] = {} /\ base[w] = Fresh /\ local'[w] = Nothing
    BY <2>1, BeginKeeps
  <2>4. WorkerShape(w)'
    BY <2>1, <2>2, <2>3 DEF WorkerShape
  <2>5. ~Undisturbed(w)'
    BY <2>1 DEF Undisturbed
  <2> QED BY <1>0, <2>3, <2>4, <2>5, StepKeeps
<1>4. ASSUME NEW w \in Workers, NEW r \in Repos, NEW v \in Contents, UploadFiles(w, r, v)
      PROVE  BitbucketInv'
  <2>1. /\ Started(w) /\ pc'[w] = "list" /\ kind'[w] = "upload" /\ repo'[w] = r
        /\ names'[w] = {f \in Files : v[f] # NoBody} /\ want'[w] = v
    BY <1>0, <1>4 DEF UploadFiles, Begin, Goto, Started, TypeOK, git, server
  <2>2. new'[w] = new[w] /\ base'[w] = base[w]
    BY <1>4 DEF UploadFiles, git
  <2>3. /\ \A x \in Workers \ {w} : Untouched(x) /\ MovedAtMost(x)
        /\ ServerInv' /\ new[w] = {} /\ base[w] = Fresh /\ local'[w] = Nothing
    BY <2>1, BeginKeeps
  <2>4. WorkerShape(w)'
    BY <2>1, <2>2, <2>3 DEF WorkerShape
  <2>5. Progress(w)'
    BY <2>1, <2>2, <2>3 DEF Progress, Satisfied
  <2> QED BY <1>0, <2>3, <2>4, <2>5, StepKeeps
<1>5. ASSUME NEW w \in Workers, NEW r \in Repos, NEW to \in Repos, CopyRepo(w, r, to)
      PROVE  BitbucketInv'
  <2>1. /\ Started(w) /\ pc'[w] = "force_push" /\ kind'[w] = "copy" /\ repo'[w] = to
        /\ names'[w] = Files /\ want'[w] = files[r]
    BY <1>0, <1>5 DEF CopyRepo, Begin, Goto, Started, TypeOK, git, server
  <2>2. new'[w] = new[w]
    BY <1>5 DEF CopyRepo
  <2>3. /\ \A x \in Workers \ {w} : Untouched(x) /\ MovedAtMost(x)
        /\ ServerInv' /\ new[w] = {} /\ base[w] = Fresh /\ local'[w] = Nothing
    BY <2>1, BeginKeeps
  <2>4. WorkerShape(w)'
    BY <2>1, <2>2, <2>3 DEF WorkerShape
  <2>5. Progress(w)'
    BY <2>1, <2>2, <2>3 DEF Progress, Satisfied
  <2> QED BY <1>0, <2>3, <2>4, <2>5, StepKeeps
<1>6. ASSUME NEW w \in Workers, NEW ok \in BOOLEAN, PushInitial(w, ok)
      PROVE  BitbucketInv'
  <2>1. repo[w] \in Repos /\ names[w] = {} /\ new[w] = {} /\ WorkerShape(w)
    BY <1>6 DEF BitbucketInv, PushInitial, Command, WorkerShape
  <2>2. Goto(w, "answer") /\ UNCHANGED <<request, git, root>> /\ UNCHANGED <<new, base, local, repos>>
    BY <1>6 DEF PushInitial, Command, git
  <2>3. CASE ok /\ head[repo[w]] = 0
    <3>1. MoveMaster(w, Nothing)
      BY <1>6, <2>3 DEF PushInitial
    <3>2. \A r \in Repos : root'[r] <= head'[r]
      BY <1>0, <2>1, <2>2, <3>1 DEF TypeOK, ServerInv, MoveMaster
    <3> QED BY <1>0, <2>1, <2>2, <3>1, <3>2, MoveKeeps, StepKeeps
            DEF WorkerShape, Progress, Satisfied, request
  <2>4. CASE ~(ok /\ head[repo[w]] = 0)
    <3>1. UNCHANGED <<server, request>> /\ troubled \subseteq troubled'
      BY <1>6, <2>2, <2>4 DEF PushInitial, server
    <3> QED BY <1>0, <2>1, <2>2, <3>1, QuietKeeps, StepKeeps
            DEF WorkerShape, Progress, Satisfied, request
  <2> QED BY <2>3, <2>4
<1>7. ASSUME NEW w \in Workers, NEW ok \in BOOLEAN, PushBranch(w, ok)
      PROVE  BitbucketInv'
  <2>1. WorkerShape(w) /\ pc[w] = "push_branch" /\ (Undisturbed(w) => Progress(w))
    BY <1>7 DEF BitbucketInv, PushBranch, Command
  <2>2. UNCHANGED <<server, request>> /\ UNCHANGED <<new, local, files, repo, names, want, kind>>
    BY <1>7 DEF PushBranch, Command, server, request
  <2>3. troubled \subseteq troubled' /\ \A x \in Workers \ {w} : base'[x] = base[x]
    BY <1>0, <1>7 DEF PushBranch, TypeOK
  <2>4. PICK label \in {"pull_request", "no_branch"} : Goto(w, label)
    BY <1>7 DEF PushBranch
  <2>5. pc'[w] = label /\ ServerInv' /\ \A x \in Workers \ {w} : Untouched(x) /\ MovedAtMost(x)
    BY <2>2, <2>3, <2>4, QuietKeeps
  <2>6. WorkerShape(w)'
    BY <2>1, <2>2, <2>4, <2>5 DEF WorkerShape
  <2>7. Undisturbed(w)' => Progress(w)'
    BY <2>1, <2>2, <2>3, <2>4, <2>5 DEF Progress, Undisturbed, Listed
  <2> QED BY <1>0, <2>5, <2>6, <2>7, StepKeeps
<1>8. ASSUME NEW w \in Workers, NEW ok \in BOOLEAN, Merge(w, ok)
      PROVE  BitbucketInv'
  <2>1. WorkerShape(w) /\ pc[w] = "merge" /\ (Undisturbed(w) => Progress(w)) /\ repo[w] \in Repos
    BY <1>8 DEF BitbucketInv, Merge, Command, WorkerShape
  <2>2. UNCHANGED <<repos, root, new, local, request, repo, names, want, kind>> /\ Goto(w, "drop_branch")
    BY <1>8 DEF Merge, Command, request
  <2>3. CASE ok /\ ~Conflict(w)
    <3>1. MoveMaster(w, Changed(w, files[repo[w]], new[w])) /\ base' = [base EXCEPT ![w] = head[repo[w]] + 1]
      BY <1>8, <2>3 DEF Merge
    <3>2. \A r \in Repos : root'[r] <= head'[r]
      BY <1>0, <2>1, <2>2, <3>1 DEF TypeOK, ServerInv, MoveMaster
    <3>3. \A x \in Workers \ {w} : base'[x] = base[x]
      BY <1>0, <3>1 DEF TypeOK
    <3>4. /\ \A x \in Workers \ {w} : Untouched(x) /\ MovedAtMost(x)
          /\ ServerInv' /\ pc'[w] = "drop_branch" /\ head'[repo[w]] = head[repo[w]] + 1
          /\ files'[repo[w]] = Changed(w, files[repo[w]], new[w]) /\ head[repo[w]] \in Nat
      BY <2>1, <2>2, <3>1, <3>2, <3>3, MoveKeeps
    <3>5. base'[w] = head'[repo[w]] /\ base'[w] > 0
      BY <1>0, <3>1, <3>4 DEF TypeOK
    <3>6. WorkerShape(w)'
      BY <2>1, <2>2, <3>4 DEF WorkerShape
    <3>7. Satisfied(w, new[w])'
      BY <1>0, <2>2, <3>4 DEF Satisfied, Changed, TypeOK
    <3>8. Progress(w)'
      BY <2>2, <3>4, <3>5, <3>7 DEF Progress, Satisfied
    <3> QED BY <1>0, <3>4, <3>6, <3>8, StepKeeps
  <2>4. CASE ~(ok /\ ~Conflict(w))
    <3>1. UNCHANGED <<server, request, base, head, files>> /\ troubled' = troubled \cup Noted(w, ok)
      BY <1>8, <2>2, <2>4 DEF Merge, server
    <3>2. pc'[w] = "drop_branch" /\ ServerInv' /\ \A x \in Workers \ {w} : Untouched(x) /\ MovedAtMost(x)
      BY <2>2, <3>1, QuietKeeps
    <3>3. WorkerShape(w)'
      BY <2>1, <2>2, <3>1, <3>2 DEF WorkerShape
    <3>4. ~Undisturbed(w)'
      <4>1. CASE ~ok
        BY <3>1, <4>1 DEF Undisturbed, Noted
      <4>2. CASE Conflict(w)
        <5>1. PICK f \in new[w] : files[repo[w]][f] \notin {NoBody, want[w][f]}
          BY <4>2 DEF Conflict
        <5>2. f \in Listed(repo[w])
          BY <1>0, <2>1, <5>1 DEF Listed, TypeOK
        <5>3. ~Undisturbed(w)
          BY <2>1, <5>1, <5>2 DEF Progress
        <5> QED BY <5>3, <2>2, <3>1 DEF Undisturbed
      <4> QED BY <2>4, <4>1, <4>2
    <3> QED BY <1>0, <3>2, <3>3, <3>4, StepKeeps
  <2> QED BY <2>3, <2>4
<1>9. ASSUME NEW w \in Workers, NEW ok \in BOOLEAN, Pull(w, ok)
      PROVE  BitbucketInv'
  <2>1. WorkerShape(w) /\ pc[w] = "pull" /\ (Undisturbed(w) => Progress(w)) /\ repo[w] \in Repos
    BY <1>9 DEF BitbucketInv, Pull, Command, WorkerShape
  <2>2. UNCHANGED <<server, request>> /\ UNCHANGED <<new, head, files, root, repo, names, want, kind>> /\ Goto(w, "push")
    BY <1>9 DEF Pull, Command, server, request
  <2>3. troubled' = troubled \cup Noted(w, ok)
    BY <1>9 DEF Pull
  <2>4. \A x \in Workers \ {w} : base'[x] = base[x] /\ local'[x] = local[x]
    BY <1>0, <1>9 DEF Pull, TypeOK
  <2>5. pc'[w] = "push" /\ ServerInv' /\ \A x \in Workers \ {w} : Untouched(x) /\ MovedAtMost(x)
    BY <2>2, <2>3, <2>4, QuietKeeps
  <2>6. head[repo[w]] \in Nat /\ base[w] \in Int /\ root[repo[w]] <= head[repo[w]]
    BY <1>0, <2>1 DEF TypeOK, Fresh, ServerInv
  <2>7. CASE ok /\ head[repo[w]] > 0 /\ Follows(w)
    <3>1. base'[w] = head[repo[w]] /\ local'[w] = files[repo[w]]
      BY <1>0, <1>9, <2>7 DEF Pull, TypeOK
    <3>2. WorkerShape(w)'
      BY <2>1, <2>2, <2>5, <2>6, <3>1 DEF WorkerShape
    <3>3. Undisturbed(w)' => Progress(w)'
      BY <2>1, <2>2, <2>3, <2>5, <2>7, <3>1 DEF Progress, Satisfied, Undisturbed
    <3> QED BY <1>0, <2>5, <3>2, <3>3, StepKeeps
  <2>8. CASE ~(ok /\ head[repo[w]] > 0 /\ Follows(w))
    <3>1. base'[w] = 0 /\ local'[w] = Nothing
      BY <1>0, <1>9, <2>1, <2>8 DEF Pull, TypeOK, Apart, WorkerShape
    <3>2. WorkerShape(w)'
      BY <2>1, <2>2, <2>5, <2>6, <3>1 DEF WorkerShape
    <3>3. Undisturbed(w)' => Progress(w)'
      <4> SUFFICES ASSUME Undisturbed(w)' PROVE Progress(w)'
        OBVIOUS
      <4>1. ok /\ Undisturbed(w)
        BY <2>2, <2>3 DEF Undisturbed, Noted
      <4>2. head[repo[w]] = 0 \/ ~Follows(w)
        BY <2>6, <2>8, <4>1
      <4>3. head[repo[w]] = 0
        BY <2>1, <2>6, <4>1, <4>2 DEF Progress, Follows
      <4>4. files[repo[w]] = Nothing
        BY <1>0, <2>1, <4>3 DEF ServerInv
      <4> QED BY <2>1, <2>2, <2>5, <3>1, <4>1, <4>3, <4>4 DEF Progress, Satisfied
    <3> QED BY <1>0, <2>5, <3>2, <3>3, StepKeeps
  <2> QED BY <2>7, <2>8
<1>10. ASSUME NEW w \in Workers, NEW ok \in BOOLEAN, Push(w, ok)
      PROVE  BitbucketInv'
  <2>1. WorkerShape(w) /\ pc[w] = "push" /\ (Undisturbed(w) => Progress(w)) /\ repo[w] \in Repos
    BY <1>10 DEF BitbucketInv, Push, Command, WorkerShape
  <2>2. UNCHANGED <<repos, root, new, local, base, request, repo, names, want, kind>> /\ Goto(w, "answer")
    BY <1>10 DEF Push, Command, request, git
  <2>3. CASE ok /\ base[w] > 0 /\ base[w] = head[repo[w]] /\ Committed(w) # local[w]
    <3>1. MoveMaster(w, Committed(w))
      BY <1>10, <2>3 DEF Push
    <3>2. \A r \in Repos : root'[r] <= head'[r]
      BY <1>0, <2>1, <2>2, <3>1 DEF TypeOK, ServerInv, MoveMaster
    <3>3. /\ \A x \in Workers \ {w} : Untouched(x) /\ MovedAtMost(x)
          /\ ServerInv' /\ pc'[w] = "answer"
          /\ files'[repo[w]] = Committed(w)
      BY <2>1, <2>2, <3>1, <3>2, MoveKeeps
    <3>4. WorkerShape(w)'
      BY <2>1, <2>2, <3>3 DEF WorkerShape
    <3>5. ASSUME Undisturbed(w)' PROVE Progress(w)'
      <4>1. Undisturbed(w) /\ Progress(w)
        BY <2>1, <2>2, <3>1, <3>5 DEF Undisturbed, MoveMaster
      <4>2. \A f \in new[w] : local[w][f] = want[w][f]
        BY <2>1, <4>1 DEF Progress, Satisfied
      <4>3. \A f \in names[w] : Committed(w)[f] = want[w][f]
        BY <1>0, <4>2 DEF Committed, Changed, TypeOK
      <4> QED BY <2>2, <3>3, <4>3 DEF Progress, Satisfied
    <3> QED BY <1>0, <3>3, <3>4, <3>5, StepKeeps
  <2>4. CASE ~(ok /\ base[w] > 0 /\ base[w] = head[repo[w]] /\ Committed(w) # local[w])
    <3>1. UNCHANGED <<server, request>> /\ UNCHANGED <<head, files>> /\ troubled' = troubled \cup Noted(w, ok)
      BY <1>10, <2>2, <2>4 DEF Push, server
    <3>2. pc'[w] = "answer" /\ ServerInv' /\ \A x \in Workers \ {w} : Untouched(x) /\ MovedAtMost(x)
      BY <2>2, <3>1, QuietKeeps
    <3>3. WorkerShape(w)'
      BY <2>1, <2>2, <3>2 DEF WorkerShape
    <3>4. ASSUME Undisturbed(w)' PROVE Progress(w)'
      <4>1. ok /\ Undisturbed(w) /\ Progress(w)
        BY <2>1, <2>2, <3>1, <3>4 DEF Undisturbed, Noted
      <4>2. base[w] = head[repo[w]] /\ local[w] = files[repo[w]] /\ Satisfied(w, new[w]) /\ head[repo[w]] \in Nat
        BY <1>0, <2>1, <4>1 DEF Progress, TypeOK
      <4>3. CASE head[repo[w]] = 0
        <5>1. want[w] = Nothing /\ files[repo[w]] = Nothing
          BY <1>0, <2>1, <4>1, <4>3 DEF Progress, ServerInv
        <5> QED BY <2>2, <3>1, <3>2, <5>1 DEF Progress, Satisfied
      <4>4. CASE head[repo[w]] > 0
        <5>1. Committed(w) = local[w]
          BY <2>4, <4>1, <4>2, <4>4
        <5>2. \A f \in names[w] \ new[w] : Committed(w)[f] = want[w][f]
          BY <1>0 DEF Committed, Changed, TypeOK
        <5>3. Satisfied(w, names[w])
          BY <4>2, <5>1, <5>2 DEF Satisfied
        <5> QED BY <2>2, <3>1, <3>2, <5>3 DEF Progress, Satisfied
      <4> QED BY <4>2, <4>3, <4>4
    <3> QED BY <1>0, <3>2, <3>3, <3>4, StepKeeps
  <2> QED BY <2>3, <2>4
<1>11. ASSUME NEW w \in Workers, NEW ok \in BOOLEAN, ForcePush(w, ok)
      PROVE  BitbucketInv'
  <2>1. WorkerShape(w) /\ pc[w] = "force_push" /\ repo[w] \in Repos
    BY <1>11 DEF BitbucketInv, ForcePush, Command, WorkerShape
  <2>2. UNCHANGED <<repos, new, local, base, request, repo, names, want, kind>> /\ Goto(w, "answer")
    BY <1>11 DEF ForcePush, Command, request, git
  <2>3. CASE ok /\ repo[w] \in repos /\ base[w] > 0
    <3>1. MoveMaster(w, want[w]) /\ root' = [root EXCEPT ![repo[w]] = head[repo[w]] + 1]
      BY <1>11, <2>3 DEF ForcePush
    <3>2. \A r \in Repos : root'[r] <= head'[r]
      BY <1>0, <2>1, <3>1 DEF TypeOK, ServerInv, MoveMaster
    <3>3. /\ \A x \in Workers \ {w} : Untouched(x) /\ MovedAtMost(x)
          /\ ServerInv' /\ pc'[w] = "answer" /\ files'[repo[w]] = want[w]
      BY <2>1, <2>2, <3>1, <3>2, MoveKeeps
    <3>4. WorkerShape(w)' /\ Progress(w)'
      BY <2>1, <2>2, <3>3 DEF WorkerShape, Progress, Satisfied
    <3> QED BY <1>0, <3>3, <3>4, StepKeeps
  <2>4. CASE ~(ok /\ repo[w] \in repos /\ base[w] > 0)
    <3>1. UNCHANGED <<server, request>> /\ troubled' = troubled \cup {w}
      BY <1>11, <2>2, <2>4 DEF ForcePush, server
    <3>2. pc'[w] = "answer" /\ ServerInv' /\ \A x \in Workers \ {w} : Untouched(x) /\ MovedAtMost(x)
      BY <2>2, <3>1, QuietKeeps
    <3>3. WorkerShape(w)' /\ ~Undisturbed(w)'
      BY <2>1, <2>2, <3>1, <3>2 DEF WorkerShape, Undisturbed
    <3> QED BY <1>0, <3>2, <3>3, StepKeeps
  <2> QED BY <2>3, <2>4
<1>12. ASSUME NEW w \in Workers, List(w)
      PROVE  BitbucketInv'
  <2>1. WorkerShape(w) /\ pc[w] = "list" /\ repo[w] \in Repos /\ head[repo[w]] > 0
    BY <1>12 DEF BitbucketInv, List, Command, WorkerShape
  <2>2. UNCHANGED <<server, request>> /\ UNCHANGED <<local, base, head, files, repo, names, want, kind, troubled>>
    BY <1>12 DEF List, Command, request, server
  <2>3. new'[w] = names[w] \ Listed(repo[w]) /\ \A x \in Workers \ {w} : new'[x] = new[x]
    BY <1>0, <1>12 DEF List, TypeOK
  <2>4. (Goto(w, "pull") /\ new'[w] = {}) \/ Goto(w, "push_branch")
    BY <1>12, <2>3 DEF List
  <2>5. CASE Goto(w, "pull") /\ new'[w] = {}
    <3>1. pc'[w] = "pull" /\ ServerInv' /\ \A x \in Workers \ {w} : Untouched(x) /\ MovedAtMost(x)
      BY <2>2, <2>3, <2>5, QuietKeeps
    <3>2. WorkerShape(w)' /\ Progress(w)'
      BY <2>1, <2>2, <2>5, <3>1 DEF WorkerShape, Progress, Satisfied
    <3> QED BY <1>0, <3>1, <3>2, StepKeeps
  <2>6. CASE Goto(w, "push_branch")
    <3>1. pc'[w] = "push_branch" /\ ServerInv' /\ \A x \in Workers \ {w} : Untouched(x) /\ MovedAtMost(x)
      BY <2>2, <2>3, <2>6, QuietKeeps
    <3>2. WorkerShape(w)' /\ Progress(w)'
      BY <2>1, <2>2, <2>3, <3>1 DEF WorkerShape, Progress, Listed
    <3> QED BY <1>0, <3>1, <3>2, StepKeeps
  <2> QED BY <2>4, <2>5, <2>6
<1>13. ASSUME NEW w \in Workers, PullRequest(w)
      PROVE  BitbucketInv'
  <2>1. WorkerShape(w) /\ pc[w] = "pull_request" /\ (Undisturbed(w) => Progress(w))
    BY <1>13 DEF BitbucketInv, PullRequest, Command
  <2>2. /\ UNCHANGED <<server, request>> /\ Goto(w, "merge")
        /\ UNCHANGED <<new, local, base, head, files, repo, names, want, kind, troubled>>
    BY <1>13 DEF PullRequest, Command, request, server, git
  <2>3. pc'[w] = "merge" /\ ServerInv' /\ \A x \in Workers \ {w} : Untouched(x) /\ MovedAtMost(x)
    BY <2>2, QuietKeeps
  <2>4. WorkerShape(w)' /\ (Undisturbed(w)' => Progress(w)')
    BY <2>1, <2>2, <2>3 DEF WorkerShape, Progress, Undisturbed, Listed
  <2> QED BY <1>0, <2>3, <2>4, StepKeeps
<1>14. ASSUME NEW w \in Workers, DropBranch(w)
      PROVE  BitbucketInv'
  <2>1. WorkerShape(w) /\ pc[w] = "drop_branch" /\ (Undisturbed(w) => Progress(w))
    BY <1>14 DEF BitbucketInv, DropBranch, Command
  <2>2. /\ UNCHANGED <<server, request>>
        /\ UNCHANGED <<new, local, base, head, files, repo, names, want, kind, troubled>>
    BY <1>14 DEF DropBranch, Command, request, server, git
  <2>3. Goto(w, "pull") \/ (Goto(w, "answer") /\ names[w] = new[w])
    BY <1>14, <2>1 DEF DropBranch, WorkerShape
  <2>4. CASE Goto(w, "pull")
    <3>1. pc'[w] = "pull" /\ ServerInv' /\ \A x \in Workers \ {w} : Untouched(x) /\ MovedAtMost(x)
      BY <2>2, <2>4, QuietKeeps
    <3>2. WorkerShape(w)' /\ (Undisturbed(w)' => Progress(w)')
      BY <2>1, <2>2, <3>1 DEF WorkerShape, Progress, Undisturbed, Satisfied
    <3> QED BY <1>0, <3>1, <3>2, StepKeeps
  <2>5. CASE Goto(w, "answer") /\ names[w] = new[w]
    <3>1. pc'[w] = "answer" /\ ServerInv' /\ \A x \in Workers \ {w} : Untouched(x) /\ MovedAtMost(x)
      BY <2>2, <2>5, QuietKeeps
    <3>2. WorkerShape(w)' /\ (Undisturbed(w)' => Progress(w)')
      BY <2>1, <2>2, <2>5, <3>1 DEF WorkerShape, Progress, Undisturbed, Satisfied
    <3> QED BY <1>0, <3>1, <3>2, StepKeeps
  <2> QED BY <2>3, <2>4, <2>5
<1>15. ASSUME NEW w \in Workers, ListFails(w) \/ PullRequestFails(w) \/ Answer(w) \/ Kill(w)
      PROVE  BitbucketInv'
  BY <1>15, LeaveKeeps DEF ListFails, PullRequestFails, Answer, Kill
<1>16. CASE UNCHANGED vars
  BY <1>16, <1>0 DEF vars, server, request, git, BitbucketInv, TypeOK, ServerInv, WorkerShape,
     Progress, Undisturbed, Satisfied, Listed
<1> QED BY <1>1, <1>2, <1>3, <1>4, <1>5, <1>6, <1>7, <1>8, <1>9, <1>10, <1>11, <1>12, <1>13, <1>14,
           <1>15, <1>16 DEF Next

LEMMA InvAlways == Spec => []BitbucketInv
BY InitInv, NextInv, PTL DEF Spec

(* Every reachable state has the shape that TypeOK describes. *)
THEOREM TypeCorrect == Spec => []TypeOK
<1>1. BitbucketInv => TypeOK
  BY DEF BitbucketInv
<1> QED BY <1>1, InvAlways, PTL

(* What an undisturbed request answers is true: bitbucket.py's exit codes that nobody
   reads hide nothing as long as the commands succeed and nobody else moves the master
   branch. *)
THEOREM AnswersAreTrueAlways == Spec => []AnswersAreTrue
<1>1. BitbucketInv => AnswersAreTrue
  BY DEF BitbucketInv, AnswersAreTrue, Undisturbed, Progress, Satisfied
<1> QED BY <1>1, InvAlways, PTL

\* The step changes f in r, if at all, as a request asks.
Asked(r, f) ==
  files'[r][f] # files[r][f] =>
    \E w \in Workers : repo[w] = r /\ f \in names[w] /\ files'[r][f] = want[w][f]

LEMMA MoveAsked ==
  ASSUME TypeOK, NEW w \in Workers, repo[w] \in Repos, NEW v, MoveMaster(w, v),
         \A f \in Files : v[f] # files[repo[w]][f] => f \in names[w] /\ v[f] = want[w][f],
         NEW r \in Repos, NEW f \in Files
  PROVE  Asked(r, f)
<1>1. CASE r = repo[w]
  BY <1>1 DEF TypeOK, MoveMaster, Asked
<1>2. CASE r # repo[w]
  BY <1>2 DEF TypeOK, MoveMaster, Asked
<1> QED BY <1>1, <1>2

LEMMA CommandAsked ==
  ASSUME BitbucketInv, NEW w \in Workers, NEW ok \in BOOLEAN, NEW r \in Repos, NEW f \in Files,
         PushInitial(w, ok) \/ Merge(w, ok) \/ Push(w, ok) \/ ForcePush(w, ok)
  PROVE  Asked(r, f)
<1>1. TypeOK /\ ServerInv /\ WorkerShape(w) /\ repo[w] \in Repos
  BY DEF BitbucketInv, WorkerShape, PushInitial, Merge, Push, ForcePush, Command
<1>2. CASE UNCHANGED files
  BY <1>2 DEF Asked
<1>3. CASE MoveMaster(w, Nothing) /\ head[repo[w]] = 0
  <2>1. Nothing = files[repo[w]]
    BY <1>1, <1>3 DEF ServerInv
  <2> QED BY <1>1, <1>3, <2>1, MoveAsked
<1>4. CASE MoveMaster(w, Changed(w, files[repo[w]], new[w]))
  <2>1. \A g \in Files : Changed(w, files[repo[w]], new[w])[g] # files[repo[w]][g] =>
                          g \in names[w] /\ Changed(w, files[repo[w]], new[w])[g] = want[w][g]
    BY <1>1 DEF Changed, WorkerShape
  <2> QED BY <1>1, <1>4, <2>1, MoveAsked
<1>5. CASE pc[w] = "push" /\ MoveMaster(w, Committed(w)) /\ base[w] > 0 /\ base[w] = head[repo[w]]
  <2>1. local[w] = files[repo[w]]
    BY <1>1, <1>5 DEF WorkerShape
  <2>2. \A g \in Files : Committed(w)[g] # local[w][g] => g \in names[w] /\ Committed(w)[g] = want[w][g]
    BY DEF Committed, Changed
  <2> QED BY <1>1, <1>5, <2>1, <2>2, MoveAsked
<1>6. CASE pc[w] = "force_push" /\ MoveMaster(w, want[w])
  BY <1>1, <1>6, MoveAsked DEF WorkerShape
<1> QED BY <1>2, <1>3, <1>4, <1>5, <1>6 DEF PushInitial, Merge, Push, ForcePush, Command

(* A file changes only to what a request that names it wants, however the commands of
   the workers interleave and whichever of them fail: a push is accepted only on the
   commit that was pulled. *)
THEOREM OnlyAsAskedAlways == Spec => OnlyAsAsked
<1>1. BitbucketInv /\ [Next]_vars => [\A r \in Repos, f \in Files : Asked(r, f)]_vars
  <2> SUFFICES ASSUME BitbucketInv, Next, NEW r \in Repos, NEW f \in Files PROVE Asked(r, f)
    OBVIOUS
  <2>1. CASE UNCHANGED files
    BY <2>1 DEF Asked
  <2>2. \/ UNCHANGED files
        \/ \E w \in Workers, ok \in BOOLEAN :
             PushInitial(w, ok) \/ Merge(w, ok) \/ Push(w, ok) \/ ForcePush(w, ok)
    BY DEF Next, CreateRepo, RemoveFile, UploadForm, UploadFiles, CopyRepo, PushBranch, Pull, List, ListFails,
           PullRequest, PullRequestFails, DropBranch, Answer, Kill, server
  <2> QED BY <2>1, <2>2, CommandAsked
<1> QED BY <1>1, InvAlways, PTL DEF Spec, OnlyAsAsked, Asked
=============================================================================
