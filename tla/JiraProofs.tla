------------------------------ MODULE JiraProofs -------------------------------
(***************************************************************************)
(* Proofs about JiraStories, for any workers, issues and files: a story is *)
(* made twice only when requests for it overlap or a creation stays        *)
(* unanswered, and a description loses notes only when edits overtake each *)
(* other.  What the archives hold is proved in JiraArchiveProofs.          *)
(***************************************************************************)
EXTENDS JiraStories, TLAPS

Shape ==
  /\ pc \in [Workers -> PC]
  /\ summary \in [Workers -> Summaries \cup {NoSummary}]
  /\ issue \in [Workers -> Issues \cup {NoIssue}]
  /\ seen = [w \in Workers |-> seen[w]]
  /\ described = [i \in Issues |-> described[i]]

\* Two requests that create the same story at a time are known to contest it.
OneCreates ==
  \A w, x \in Workers :
    w # x /\ pc[w] \in Creating /\ pc[x] \in Creating /\ summary[w] = summary[x] => summary[w] \in contested

\* Who is about to create a story has not seen one, and there still is none.
NotThere ==
  \A w \in Workers :
    /\ pc[w] = "create" /\ summary[w] \in Mentions \ contested => \A i \in Keys : story[i] # summary[w]
    /\ pc[w] = "create_again" => summary[w] \in contested

\* Who is about to write a description, and is not overtaken, has read all of it.
UpToDate ==
  \A w \in Workers :
    pc[w] = "put" /\ issue[w] \in Issues /\ w \notin overtaken => described[issue[w]] \subseteq seen[w]

JiraInv == Shape /\ OneCreates /\ NotThere /\ StoriesUnique /\ UpToDate

\* What the invariant is about, but for the worker's place.
Matter == <<story, summary, contested, described, seen, overtaken>>

LEMMA InitJiraInv == Init => JiraInv
BY ConstantsAssumption DEF Init, JiraInv, Shape, OneCreates, NotThere, StoriesUnique, UpToDate, PC, Creating, Keys

\* A worker goes to a place where it neither creates a story nor writes a description.
LEMMA QuietStep ==
  ASSUME JiraInv, NEW w \in Workers, NEW l \in PC \ (Creating \cup {"put"}),
         Goto(w, l), UNCHANGED Matter, UNCHANGED issue
  PROVE  JiraInv'
<1>1. /\ pc' \in [Workers -> PC] /\ pc'[w] = l
      /\ \A x \in Workers \ {w} : pc'[x] = pc[x]
  BY DEF JiraInv, Shape, Goto
<1>2. Shape'
  BY <1>1 DEF JiraInv, Shape, Matter
<1>3. OneCreates'
  BY <1>1 DEF JiraInv, OneCreates, Matter
<1>4. NotThere'
  BY <1>1 DEF JiraInv, NotThere, Matter, Keys, Creating
<1>5. StoriesUnique'
  BY DEF JiraInv, StoriesUnique, Matter, Keys
<1>6. UpToDate'
  BY <1>1 DEF JiraInv, UpToDate, Matter
<1>. QED  BY <1>2, <1>3, <1>4, <1>5, <1>6 DEF JiraInv

LEMMA LeaveStep ==
  ASSUME JiraInv, NEW w \in Workers, Leave(w)
  PROVE  JiraInv'
<1>1. /\ pc' \in [Workers -> PC] /\ pc'[w] = "idle"
      /\ \A x \in Workers \ {w} : pc'[x] = pc[x] /\ summary'[x] = summary[x]
                                  /\ issue'[x] = issue[x] /\ seen'[x] = seen[x]
  BY DEF JiraInv, Shape, Leave, Goto, PC
<1>2. UNCHANGED <<story, contested, described>> /\ overtaken' = overtaken \ {w}
  BY DEF Leave, jira
<1>3. Shape'
  BY <1>1, <1>2 DEF JiraInv, Shape, Leave
<1>4. OneCreates'
  BY <1>1, <1>2 DEF JiraInv, OneCreates, Creating
<1>5. NotThere'
  BY <1>1, <1>2 DEF JiraInv, NotThere, Keys
<1>6. StoriesUnique'
  BY <1>2 DEF JiraInv, StoriesUnique, Keys
<1>7. UpToDate'
  BY <1>1, <1>2 DEF JiraInv, UpToDate
<1>. QED  BY <1>3, <1>4, <1>5, <1>6, <1>7 DEF JiraInv

\* Where an exception and the end of a batch lead to.
LEMMA RaiseGoes ==
  ASSUME NEW w, NEW inElse, Raise(w, inElse)
  PROVE  \E l \in PC \ (Creating \cup {"put"}) : Goto(w, l)
BY DEF Raise, Proceed, PC, Creating

LEMMA ProceedGoes ==
  ASSUME NEW w, NEW q, Proceed(w, q)
  PROVE  \E l \in PC \ (Creating \cup {"put"}) : Goto(w, l)
BY DEF Proceed, PC, Creating

(***************************************************************************)
(* create_story                                                            *)
(***************************************************************************)

LEMMA StoryStartStep ==
  ASSUME JiraInv, NEW w \in Workers, NEW s \in Summaries, NEW ns, StoryStart(w, s, ns)
  PROVE  JiraInv'
<1>1. /\ pc[w] = "idle" /\ pc' = [pc EXCEPT ![w] = "search"]
      /\ summary' = [summary EXCEPT ![w] = s]
      /\ UNCHANGED <<story, described, seen, overtaken, issue>>
      /\ contested \subseteq contested' /\ (Rivals(w, s) # {} => s \in contested')
  BY DEF StoryStart, Goto, jira
<1>2. Shape'
  BY <1>1 DEF JiraInv, Shape, PC, Creating
<1>3. OneCreates'
  BY <1>1 DEF JiraInv, Shape, OneCreates, Rivals
<1>4. NotThere'
  BY <1>1 DEF JiraInv, Shape, NotThere, Keys
<1>5. StoriesUnique'
  BY <1>1 DEF JiraInv, StoriesUnique, Keys
<1>6. UpToDate'
  BY <1>1 DEF JiraInv, Shape, UpToDate
<1>. QED  BY <1>2, <1>3, <1>4, <1>5, <1>6 DEF JiraInv

\* From one place of create_story to another, when no story is created.
LEMMA CreatingStep ==
  ASSUME JiraInv, NEW w \in Workers, NEW l \in Creating \ {"create_again"}, pc[w] \in Creating,
         Goto(w, l), UNCHANGED Matter, UNCHANGED issue,
         l = "create" => \A i \in Found : story[i] # summary[w]
  PROVE  JiraInv'
<1>1. /\ pc' \in [Workers -> PC] /\ pc'[w] = l
      /\ \A x \in Workers \ {w} : pc'[x] = pc[x]
  BY DEF JiraInv, Shape, Goto, PC
<1>2. Shape'
  BY <1>1 DEF JiraInv, Shape, Matter
<1>3. OneCreates'
  BY <1>1 DEF JiraInv, OneCreates, Matter
<1>4. NotThere'
  BY <1>1 DEF JiraInv, NotThere, Matter, Keys, Found
<1>5. StoriesUnique'
  BY DEF JiraInv, StoriesUnique, Matter, Keys
<1>6. UpToDate'
  BY <1>1 DEF JiraInv, UpToDate, Matter, Creating
<1>. QED  BY <1>2, <1>3, <1>4, <1>5, <1>6 DEF JiraInv

LEMMA SearchStep ==
  ASSUME JiraInv, NEW w \in Workers, Search(w)
  PROVE  JiraInv'
<1>1. PICK l \in {"create_epic", "find_epic"} : Goto(w, l)
  BY DEF Search
<1>. QED  BY <1>1, CreatingStep DEF Search, Matter, Creating, jira, request, history

LEMMA CreateEpicStep ==
  ASSUME JiraInv, NEW w \in Workers, NEW arrived, NEW ok, CreateEpic(w, arrived, ok)
  PROVE  JiraInv'
<1>1. UNCHANGED Matter /\ UNCHANGED issue
  BY DEF CreateEpic, Matter, request, history
<1>2. CASE Goto(w, "find_epic")
  BY <1>1, <1>2, CreatingStep DEF CreateEpic, Creating
<1>3. CASE Goto(w, "failed")
  BY <1>1, <1>3, QuietStep DEF PC, Creating
<1>. QED  BY <1>2, <1>3 DEF CreateEpic

LEMMA FindEpicStep ==
  ASSUME JiraInv, NEW w \in Workers, FindEpic(w)
  PROVE  JiraInv'
<1>1. UNCHANGED Matter /\ UNCHANGED issue
  BY DEF FindEpic, Matter, jira, request, history
<1>2. CASE \E i \in Found : story[i] = summary[w]
  BY <1>1, <1>2, QuietStep DEF FindEpic, PC, Creating
<1>3. CASE \A i \in Found : story[i] # summary[w]
  BY <1>1, <1>3, CreatingStep DEF FindEpic, Creating
<1>. QED  BY <1>2, <1>3

LEMMA CreateStoryStep ==
  ASSUME JiraInv, NEW w \in Workers, NEW i \in Issues, CreateStory(w, i)
  PROVE  JiraInv'
<1>. DEFINE s == summary[w]
<1>1. /\ pc[w] \in {"create", "create_again"} /\ i \notin Keys
      /\ \E l \in {"ok", "download"} : pc' = [pc EXCEPT ![w] = l]
      /\ story' = [k \in Keys \cup {i} |-> IF k = i THEN s ELSE story[k]]
      /\ issue' = [issue EXCEPT ![w] = i]
      /\ UNCHANGED <<summary, contested, described, seen, overtaken>>
  BY DEF CreateStory, Created, NewStory, Goto
<1>2. /\ Keys' = Keys \cup {i} /\ story'[i] = s
      /\ \A k \in Keys : story'[k] = story[k]
  BY <1>1 DEF Keys
<1>3. pc' \in [Workers -> PC] /\ pc'[w] \notin Creating \cup {"put"} /\ \A x \in Workers \ {w} : pc'[x] = pc[x]
  BY <1>1 DEF JiraInv, Shape, PC, Creating
<1>4. Shape'
  BY <1>1, <1>3 DEF JiraInv, Shape
<1>5. OneCreates'
  BY <1>1, <1>3 DEF JiraInv, OneCreates
<1>6. s \in Mentions \ contested => pc[w] = "create" /\ \A k \in Keys : story[k] # s
  BY <1>1 DEF JiraInv, NotThere
<1>7. NotThere'
  <2>. SUFFICES ASSUME NEW x \in Workers, x # w
                PROVE  /\ pc'[x] = "create" /\ summary'[x] \in Mentions \ contested' =>
                            \A k \in Keys' : story'[k] # summary'[x]
                       /\ pc'[x] = "create_again" => summary'[x] \in contested'
    BY <1>3 DEF NotThere, Creating
  <2>1. pc[x] = "create" /\ summary[x] \notin contested => summary[x] # s
    BY <1>1 DEF JiraInv, OneCreates, Creating
  <2>. QED  BY <1>1, <1>2, <1>3, <2>1 DEF JiraInv, NotThere
<1>8. StoriesUnique'
  BY <1>1, <1>2, <1>6 DEF JiraInv, StoriesUnique
<1>9. UpToDate'
  BY <1>1, <1>3 DEF JiraInv, Shape, UpToDate
<1>. QED  BY <1>4, <1>5, <1>7, <1>8, <1>9 DEF JiraInv

LEMMA CreateUnansweredStep ==
  ASSUME JiraInv, NEW w \in Workers, NEW arrived, CreateUnanswered(w, arrived)
  PROVE  JiraInv'
<1>. DEFINE s == summary[w]
<1>1. /\ pc[w] \in {"create", "create_again"}
      /\ \E l \in {"create_again", "failed"} : pc' = [pc EXCEPT ![w] = l]
      /\ contested' = contested \cup {s}
      /\ UNCHANGED <<summary, issue, described, seen, overtaken>>
  BY DEF CreateUnanswered, Goto, request
<1>2. \/ story' = story
      \/ \E i \in Issues \ Keys : /\ Keys' = Keys \cup {i} /\ story'[i] = s
                                  /\ \A k \in Keys : story'[k] = story[k]
  BY DEF CreateUnanswered, NewStory, Keys
<1>3. pc' \in [Workers -> PC] /\ pc'[w] \in {"create_again", "failed"} /\ \A x \in Workers \ {w} : pc'[x] = pc[x]
  BY <1>1 DEF JiraInv, Shape, PC, Creating
<1>4. Shape'
  BY <1>1, <1>3 DEF JiraInv, Shape
<1>5. OneCreates'
  BY <1>1, <1>3 DEF JiraInv, OneCreates, Creating
<1>6. NotThere'
  <2>. SUFFICES ASSUME NEW x \in Workers
                PROVE  /\ pc'[x] = "create" /\ summary'[x] \in Mentions \ contested' =>
                            \A k \in Keys' : story'[k] # summary'[x]
                       /\ pc'[x] = "create_again" => summary'[x] \in contested'
    BY DEF NotThere
  <2>1. CASE x = w
    BY <1>1, <1>3, <2>1
  <2>2. CASE x # w
    <3>1. pc'[x] = pc[x] /\ summary'[x] = summary[x] /\ contested \subseteq contested' /\ s \in contested'
      BY <1>1, <1>3, <2>2
    <3>2. summary[x] # s /\ (\A k \in Keys : story[k] # summary[x]) => \A k \in Keys' : story'[k] # summary[x]
      BY <1>2 DEF Keys
    <3>. QED  BY <3>1, <3>2 DEF JiraInv, NotThere
  <2>. QED  BY <2>1, <2>2
<1>7. StoriesUnique'
  <2>. SUFFICES ASSUME NEW r \in Mentions \ contested', NEW i \in Keys', NEW j \in Keys',
                       story'[i] = r, story'[j] = r
                PROVE  i = j
    BY DEF StoriesUnique
  <2>1. r \in Mentions \ contested /\ r # s
    BY <1>1
  <2>2. i \in Keys /\ j \in Keys /\ story[i] = r /\ story[j] = r
    BY <1>2, <2>1 DEF Keys
  <2>. QED  BY <2>1, <2>2 DEF JiraInv, StoriesUnique
<1>8. UpToDate'
  <2>1. UNCHANGED <<issue, described, seen, overtaken>>
    BY <1>1
  <2>2. \A x \in Workers : pc'[x] = "put" => pc[x] = "put"
    BY <1>3
  <2>. QED  BY <2>1, <2>2 DEF JiraInv, UpToDate
<1>. QED  BY <1>4, <1>5, <1>6, <1>7, <1>8 DEF JiraInv

(***************************************************************************)
(* edit_issue                                                              *)
(***************************************************************************)

LEMMA EditGetStep ==
  ASSUME JiraInv, NEW w \in Workers, EditGet(w)
  PROVE  JiraInv'
<1>1. /\ pc[w] = "get" /\ pc' = [pc EXCEPT ![w] = "put"]
      /\ seen' = [seen EXCEPT ![w] = described[issue[w]]]
      /\ overtaken' = overtaken \ {w}
      /\ UNCHANGED <<story, summary, contested, described, issue>>
  BY DEF EditGet, Goto, jira, request
<1>2. Shape'
  BY <1>1 DEF JiraInv, Shape, PC
<1>3. OneCreates' /\ NotThere'
  BY <1>1 DEF JiraInv, Shape, OneCreates, NotThere, Keys, Creating
<1>4. StoriesUnique'
  BY <1>1 DEF JiraInv, StoriesUnique, Keys
<1>5. UpToDate'
  BY <1>1 DEF JiraInv, Shape, UpToDate
<1>. QED  BY <1>2, <1>3, <1>4, <1>5 DEF JiraInv

\* A step that writes a note: the others at the issue are overtaken.
LEMMA WriteStep ==
  ASSUME JiraInv, NEW w \in Workers, EditPut(w) \/ EditFails(w, TRUE)
  PROVE  JiraInv'
<1>1. PICK l \in PC \ (Creating \cup {"put"}) : Goto(w, l)
  <2>1. CASE EditPut(w)
    BY <2>1, ProceedGoes DEF EditPut, PC, Creating
  <2>2. CASE EditFails(w, TRUE)
    BY <2>2, RaiseGoes DEF EditFails
  <2>. QED  BY <2>1, <2>2
<1>2. /\ described' = [described EXCEPT ![issue[w]] = seen[w] \cup batch[w].files]
      /\ overtaken' = (overtaken \ {w}) \cup Overtaken(w)
      /\ UNCHANGED <<story, summary, contested, seen, issue>>
  BY DEF EditPut, EditFails, WriteNote, request
<1>3. pc' \in [Workers -> PC] /\ pc'[w] = l /\ \A x \in Workers \ {w} : pc'[x] = pc[x]
  BY <1>1 DEF JiraInv, Shape, Goto
<1>4. Shape'
  BY <1>2, <1>3 DEF JiraInv, Shape
<1>5. OneCreates' /\ NotThere'
  BY <1>2, <1>3 DEF JiraInv, OneCreates, NotThere, Keys, Creating
<1>6. StoriesUnique'
  BY <1>2 DEF JiraInv, StoriesUnique, Keys
<1>7. UpToDate'
  <2>. SUFFICES ASSUME NEW x \in Workers, x # w, pc[x] = "put", issue[x] \in Issues,
                       x \notin overtaken', issue'[x] = issue[x]
                PROVE  described'[issue[x]] \subseteq seen'[x]
    BY <1>2, <1>3 DEF UpToDate
  <2>1. issue[x] # issue[w] /\ x \notin overtaken
    BY <1>2 DEF Overtaken
  <2>2. described'[issue[x]] = described[issue[x]]
    BY <1>2, <2>1 DEF JiraInv, Shape
  <2>. QED  BY <1>2, <2>1, <2>2 DEF JiraInv, UpToDate
<1>. QED  BY <1>4, <1>5, <1>6, <1>7 DEF JiraInv

(***************************************************************************)
(* The other steps, and the theorems                                       *)
(***************************************************************************)

LEMMA AttachStartStep ==
  ASSUME JiraInv, NEW w \in Workers, NEW i \in Issues, NEW ns, AttachStart(w, i, ns)
  PROVE  JiraInv'
<1>1. /\ pc[w] = "idle" /\ pc' = [pc EXCEPT ![w] = "download"] /\ issue' = [issue EXCEPT ![w] = i]
      /\ UNCHANGED Matter
  BY DEF AttachStart, Goto, Matter, jira
<1>2. Shape'
  BY <1>1 DEF JiraInv, Shape, PC, Matter
<1>3. OneCreates' /\ NotThere'
  BY <1>1 DEF JiraInv, Shape, OneCreates, NotThere, Keys, Creating, Matter
<1>4. StoriesUnique'
  BY <1>1 DEF JiraInv, StoriesUnique, Keys, Matter
<1>5. UpToDate'
  BY <1>1 DEF JiraInv, Shape, UpToDate, Matter
<1>. QED  BY <1>2, <1>3, <1>4, <1>5 DEF JiraInv

\* Downloading, packing and sending concern neither stories nor descriptions.
LEMMA SendingStep ==
  ASSUME JiraInv, NEW w \in Workers,
         \/ Refused(w) \/ DownloadFails(w) \/ MakeDir(w) \/ Zip(w) \/ ZipFails(w)
         \/ Read(w) \/ ReadTooLarge(w) \/ ReadFails(w) \/ Upload(w) \/ UploadRefused(w)
         \/ Remove(w) \/ RemoveFails(w) \/ EditRefused(w) \/ EditFails(w, FALSE)
         \/ \E arrived \in BOOLEAN : UploadUnanswered(w, arrived)
         \/ \E fs \in SUBSET Files : Download(w, fs) \/ SendSingly(w, fs)
  PROVE  JiraInv'
<1>1. UNCHANGED Matter /\ UNCHANGED issue
  <2>1. CASE Refused(w) \/ DownloadFails(w) \/ \E fs \in SUBSET Files : Download(w, fs) \/ SendSingly(w, fs)
    BY <2>1 DEF Refused, DownloadFails, Download, SendSingly, Matter, jira, request, history
  <2>2. CASE MakeDir(w) \/ Zip(w) \/ ZipFails(w) \/ Read(w) \/ ReadTooLarge(w) \/ ReadFails(w)
    BY <2>2 DEF MakeDir, Zip, ZipFails, Read, ReadTooLarge, ReadFails, Matter, jira, request, history
  <2>3. CASE \/ Upload(w) \/ UploadRefused(w) \/ \E arrived \in BOOLEAN : UploadUnanswered(w, arrived)
             \/ Remove(w) \/ RemoveFails(w) \/ EditRefused(w) \/ EditFails(w, FALSE)
    BY <2>3 DEF Upload, UploadRefused, UploadUnanswered, Remove, RemoveFails,
                EditRefused, EditFails, Matter, jira, request, history
  <2>. QED  BY <2>1, <2>2, <2>3
<1>2. \E l \in PC \ (Creating \cup {"put"}) : Goto(w, l)
  <2>1. CASE Refused(w) \/ DownloadFails(w) \/ Zip(w) \/ Read(w) \/ Upload(w) \/ UploadRefused(w)
             \/ \E fs \in SUBSET Files : SendSingly(w, fs)
    <3>1. \/ Goto(w, "failed") \/ Goto(w, "read") \/ Goto(w, "upload") \/ Goto(w, "remove") \/ Goto(w, "ok")
      BY <2>1, Zenon DEF Refused, DownloadFails, Zip, Read, Upload, UploadRefused, SendSingly
    <3>. QED  BY <3>1 DEF PC, Creating
  <2>2. CASE MakeDir(w) \/ ZipFails(w) \/ ReadFails(w) \/ RemoveFails(w) \/ EditFails(w, FALSE)
             \/ \E arrived \in BOOLEAN : UploadUnanswered(w, arrived)
    <3>1. Goto(w, "zip") \/ Raise(w, FALSE) \/ Raise(w, TRUE) \/ Raise(w, batch[w].kind # "large")
      BY <2>2 DEF MakeDir, ZipFails, ReadFails, RemoveFails, EditFails, UploadUnanswered
    <3>. QED  BY <3>1, RaiseGoes DEF PC, Creating
  <2>3. CASE ReadTooLarge(w) \/ Remove(w) \/ EditRefused(w)
    <3>1. \/ Goto(w, "get") \/ Goto(w, "ok") \/ Goto(w, "remove") \/ Goto(w, "failed") \/ Raise(w, FALSE)
          \/ Proceed(w, queue[w]) \/ Proceed(w, Parts(w) \o queue[w])
      BY <2>3 DEF ReadTooLarge, Remove, EditRefused
    <3>. QED  BY <3>1, RaiseGoes, ProceedGoes DEF PC, Creating
  <2>4. ASSUME NEW fs \in SUBSET Files, Download(w, fs)
        PROVE  \E l \in PC \ (Creating \cup {"put"}) : Goto(w, l)
    <3>1. Goto(w, "mkdir") \/ Goto(w, "get") \/ Goto(w, "singly")
      BY <2>4, Zenon DEF Download
    <3>. QED  BY <3>1 DEF PC, Creating
  <2>. QED  BY <2>1, <2>2, <2>3, <2>4
<1>. QED  BY <1>1, <1>2, QuietStep

LEMMA StutterStep ==
  ASSUME JiraInv, UNCHANGED <<Matter, pc, issue>>
  PROVE  JiraInv'
BY DEF JiraInv, Shape, OneCreates, NotThere, StoriesUnique, UpToDate, Matter, Keys

LEMMA NextStep == JiraInv /\ [Next]_vars => JiraInv'
<1>. SUFFICES ASSUME JiraInv, [Next]_vars
              PROVE  JiraInv'
  OBVIOUS
<1>1. CASE UNCHANGED vars \/ Tick
  BY <1>1, StutterStep DEF Tick, vars, Matter, jira, request, history
<1>2. ASSUME NEW w \in Workers, \/ \E s \in Summaries, ns \in Links \cup {{}} : StoryStart(w, s, ns)
                                \/ \E i \in Issues, ns \in Links : AttachStart(w, i, ns)
      PROVE  JiraInv'
  BY <1>2, StoryStartStep, AttachStartStep
<1>3. ASSUME NEW w \in Workers, \/ \E i \in Issues : CreateStory(w, i)
                                \/ \E arrived, ok \in BOOLEAN : CreateEpic(w, arrived, ok)
                                \/ \E arrived \in BOOLEAN : CreateUnanswered(w, arrived)
                                \/ Search(w) \/ FindEpic(w) \/ EditGet(w)
                                \/ EditPut(w) \/ EditFails(w, TRUE)
      PROVE  JiraInv'
  BY <1>3, CreateStoryStep, CreateEpicStep, CreateUnansweredStep, SearchStep, FindEpicStep,
     EditGetStep, WriteStep
<1>4. ASSUME NEW w \in Workers, Answer(w) \/ Kill(w)
      PROVE  JiraInv'
  BY <1>4, LeaveStep DEF Answer, Kill
<1>5. \A w \in Workers, written \in BOOLEAN : EditFails(w, written) => EditFails(w, TRUE) \/ EditFails(w, FALSE)
  OBVIOUS
<1>. QED  BY <1>1, <1>2, <1>3, <1>4, <1>5, SendingStep DEF Next

LEMMA Invariance == Spec => []JiraInv
<1>. QED  BY InitJiraInv, NextStep, PTL DEF Spec

(* create_story makes no second story of a summary that its search finds, unless two
   requests for it overlap or a creation goes unanswered. *)
THEOREM StoriesUniqueAlways == Spec => []StoriesUnique
<1>1. JiraInv => StoriesUnique
  BY DEF JiraInv
<1>. QED  BY <1>1, Invariance, PTL

LEMMA OnlyEditsWrite ==
  ASSUME [Next]_vars, described' # described
  PROVE  \E w \in Workers : EditPut(w) \/ EditFails(w, TRUE)
<1>1. CASE UNCHANGED vars \/ Tick
  BY <1>1 DEF vars, jira, Tick
<1>2. ASSUME NEW w \in Workers, \/ \E s \in Summaries, ns \in Links \cup {{}} : StoryStart(w, s, ns)
                                \/ \E i \in Issues, ns \in Links : AttachStart(w, i, ns)
                                \/ \E i \in Issues : CreateStory(w, i)
                                \/ \E arrived, ok \in BOOLEAN : CreateEpic(w, arrived, ok)
                                \/ \E arrived \in BOOLEAN : CreateUnanswered(w, arrived)
                                \/ Search(w) \/ FindEpic(w) \/ Refused(w)
      PROVE  FALSE
  BY <1>2 DEF StoryStart, AttachStart, CreateStory, CreateEpic, CreateUnanswered, Search, FindEpic, Refused, jira
<1>3. ASSUME NEW w \in Workers, \/ \E arrived \in BOOLEAN : UploadUnanswered(w, arrived)
                                \/ \E fs \in SUBSET Files : Download(w, fs) \/ SendSingly(w, fs)
                                \/ DownloadFails(w) \/ MakeDir(w) \/ Zip(w) \/ ZipFails(w)
      PROVE  FALSE
  BY <1>3 DEF UploadUnanswered, Download, SendSingly, DownloadFails, MakeDir, Zip, ZipFails, jira
<1>4. ASSUME NEW w \in Workers, \/ Read(w) \/ ReadTooLarge(w) \/ ReadFails(w)
                                \/ Upload(w) \/ UploadRefused(w) \/ Remove(w) \/ RemoveFails(w)
                                \/ EditGet(w) \/ EditRefused(w) \/ EditFails(w, FALSE)
                                \/ Answer(w) \/ Kill(w)
      PROVE  FALSE
  BY <1>4 DEF Read, ReadTooLarge, ReadFails, Upload, UploadRefused, Remove, RemoveFails, EditGet, EditRefused,
              EditFails, Answer, Kill, Leave, jira
<1>5. \A w \in Workers, written \in BOOLEAN : EditFails(w, written) => EditFails(w, TRUE) \/ EditFails(w, FALSE)
  OBVIOUS
<1>. QED  BY <1>1, <1>2, <1>3, <1>4, <1>5 DEF Next

(* What a description says is lost only if edits overtake each other. *)
THEOREM NotesKeptAlways == Spec => NotesKept
<1>1. ASSUME JiraInv, [Next]_vars, NEW i \in Issues, ~(described[i] \subseteq described'[i])
      PROVE  \E w \in overtaken : pc[w] = "put" /\ issue[w] = i
  <2>1. PICK w \in Workers : EditPut(w) \/ EditFails(w, TRUE)
    BY <1>1, OnlyEditsWrite
  <2>2. pc[w] = "put" /\ described' = [described EXCEPT ![issue[w]] = seen[w] \cup batch[w].files]
    BY <2>1 DEF EditPut, EditFails, WriteNote
  <2>3. issue[w] = i /\ described'[i] = seen[w] \cup batch[w].files
    BY <1>1, <2>2 DEF JiraInv, Shape
  <2>4. w \in overtaken
    BY <1>1, <2>2, <2>3 DEF JiraInv, UpToDate
  <2>. QED  BY <2>2, <2>3, <2>4
<1>2. JiraInv /\ [Next]_vars =>
        [\A i \in Issues : described[i] \subseteq described'[i]
                           \/ \E w \in overtaken : pc[w] = "put" /\ issue[w] = i]_vars
  BY <1>1
<1>. QED  BY <1>2, Invariance, PTL DEF Spec, NotesKept
=============================================================================
