--------------------------- MODULE ForeignRefinement ---------------------------
(***************************************************************************)
(* ForeignVersioning implements VersionedFile, for every set of workers    *)
(* and of bodies and every bound: a chain of S3 calls that is killed       *)
(* anywhere is one step of the file, or none, for clients that have it for *)
(* themselves.                                                             *)
(***************************************************************************)
EXTENDS ForeignVersioningProofs

\* Nobody but w is handling a request.
OnlyBusy(w) == \A v \in Workers : pc[v] # "idle" => v = w

\* The objects that do not count because w is handling them.
HiddenBy(w) ==
  {n \in Names :
    \/ pc[w] \in {"remove_current", "copy_new"} /\ n = Version(stamp[w])
    \/ \E s \in Stamps : Uploading(w, s) /\ n = Temp(s)
    \/ pc[w] = "remove_new" /\ n = source[w]}

CurrentOf(w) == IF pc[w] = "copy_new" THEN objects[Version(stamp[w])] ELSE objects[Orig]
CountedOf(w) == {n \in Names \ {Orig} : Exists(n) /\ n \notin HiddenBy(w)}

\* With one busy worker the abstract state depends on that worker alone.
LEMMA AbstractState ==
  ASSUME NEW w \in Workers, OnlyBusy(w)
  PROVE  CurrentBody = CurrentOf(w) /\ Counted = CountedOf(w)
<1>1. CurrentBody = CurrentOf(w)
  <2>1. CASE pc[w] = "copy_new"
    <3>1. \A v \in Workers : Restoring(v) => v = w
      BY DEF OnlyBusy, Restoring
    <3>2. (CHOOSE v \in Workers : Restoring(v)) = w
      BY <2>1, <3>1 DEF Restoring
    <3> QED BY <2>1, <3>2 DEF CurrentBody, CurrentOf, Restoring
  <2>2. CASE pc[w] # "copy_new"
    BY <2>2 DEF CurrentBody, CurrentOf, Restoring, OnlyBusy
  <2> QED BY <2>1, <2>2
<1>2. \A n \in Names : Uncounted(n) <=> n \in HiddenBy(w)
  BY DEF Uncounted, HiddenBy, OnlyBusy, Uploading
<1> QED
  BY <1>1, <1>2 DEF Counted, CountedOf

LEMMA AbstractStateNext ==
  ASSUME NEW w \in Workers, OnlyBusy(w)'
  PROVE  CurrentBody' = CurrentOf(w)' /\ Counted' = CountedOf(w)'
<1>1. CurrentBody' = CurrentOf(w)'
  <2>1. CASE pc'[w] = "copy_new"
    <3>1. \A v \in Workers : Restoring(v)' => v = w
      BY DEF OnlyBusy, Restoring
    <3>2. (CHOOSE v \in Workers : Restoring(v)') = w
      BY <2>1, <3>1 DEF Restoring
    <3> QED BY <2>1, <3>2 DEF CurrentBody, CurrentOf, Restoring
  <2>2. CASE pc'[w] # "copy_new"
    BY <2>2 DEF CurrentBody, CurrentOf, Restoring, OnlyBusy
  <2> QED BY <2>1, <2>2
<1>2. \A n \in Names : Uncounted(n)' <=> n \in HiddenBy(w)'
  BY DEF Uncounted, HiddenBy, OnlyBusy, Uploading
<1> QED
  BY <1>1, <1>2 DEF Counted, CountedOf

\* The bodies that the abstract file keeps, in one state and in the next.
LEMMA KeptOf ==
  ASSUME NEW w \in Workers, OnlyBusy(w), OnlyBusy(w)'
  PROVE  /\ KeptBodies = {objects[n] : n \in CountedOf(w)}
         /\ KeptBodies' = {objects'[n] : n \in CountedOf(w)'}
  BY AbstractState, AbstractStateNext DEF KeptBodies

\* A step of a chain that its clients do not see.
LEMMA Silent ==
  ASSUME NEW w \in Workers, OnlyBusy(w), OnlyBusy(w)',
         CurrentOf(w)' = CurrentOf(w), CountedOf(w)' = CountedOf(w),
         \A n \in CountedOf(w) : objects'[n] = objects[n],
         UNCHANGED <<discarded, disturbed>>
  PROVE  UNCHANGED File!vars
<1>1. CurrentBody' = CurrentBody
  BY AbstractState, AbstractStateNext
<1>2. KeptBodies' = KeptBodies
  BY KeptOf
<1> QED
  BY <1>1, <1>2 DEF File!vars

\* What the steps below may rely on.
Before == TypeInv /\ TempsInv /\ AloneInv /\ ~disturbed
Alone(w) == Before /\ OnlyBusy(w) /\ OnlyBusy(w)' /\ TypeOK' /\ ~disturbed'

LEMMA SilentSteps ==
  ASSUME NEW w \in Workers, Alone(w),
         \/ \E c \in Contents : UploadStatMissing(w, c)
         \/ \E c \in Contents, t, s \in Stamps : UploadStatFound(w, c, t, s)
         \/ PutTemp(w) \/ CopyCurrent(w) \/ RemoveCurrent(w) \/ RemoveNew(w)
         \/ \E s \in Stamps : RollbackStatOrig(w, s) \/ RollbackStatVersion(w, s)
         \/ RollbackNotFound(w)
         \/ \E now \in Stamps : RemoveOldList(w, now)
         \/ \E n \in Names : DeleteList(w, n)
  PROVE  UNCHANGED File!vars
<1> SUFFICES /\ CurrentOf(w)' = CurrentOf(w) /\ CountedOf(w)' = CountedOf(w)
             /\ \A n \in CountedOf(w) : objects'[n] = objects[n]
             /\ UNCHANGED <<discarded, disturbed>>
  BY Silent DEF Alone
<1> USE NamesDiffer DEF Alone, Before, TypeInv, TypeOK, AloneInv, BeforeCall, TempsInv, OwnTemp,
        CurrentOf, CountedOf, HiddenBy, Uploading, Exists, Write, Goto, Leave, request, history,
        Accepts, Renaming
<1>1. ASSUME NEW c \in Contents,
             UploadStatMissing(w, c) \/ \E t, s \in Stamps : UploadStatFound(w, c, t, s)
      PROVE  /\ CurrentOf(w)' = CurrentOf(w) /\ CountedOf(w)' = CountedOf(w)
             /\ \A n \in CountedOf(w) : objects'[n] = objects[n]
             /\ UNCHANGED <<discarded, disturbed>>
  <2>1. UNCHANGED disturbed
    BY Zenon
  <2>2. pc[w] = "idle" /\ pc'[w] \in {"put", "put_temp"} /\ UNCHANGED <<objects, discarded>>
    BY <1>1 DEF UploadStatFound, UploadStatMissing
  <2> QED BY <2>1, <2>2
<1>2. CASE PutTemp(w)
  <2>1. pc[w] = "put_temp" /\ ~Exists(source[w]) /\ \E t \in Stamps : source[w] = Temp(t)
    BY <1>2 DEF PutTemp
  <2>2. pc' = [pc EXCEPT ![w] = "copy_current"] /\ objects' = [objects EXCEPT ![source[w]] = content[w]]
        /\ UNCHANGED <<stamp, source, discarded, disturbed>>
    BY <1>2, <2>1 DEF PutTemp, history
  <2>3. HiddenBy(w) = {}
    BY <2>1
  <2>4. HiddenBy(w)' = {source[w]}
    BY <2>1, <2>2
  <2>5. CountedOf(w)' = CountedOf(w)
    BY <2>1, <2>2, <2>3, <2>4
  <2> QED BY <2>1, <2>2, <2>5
<1>3. CASE CopyCurrent(w)
  BY <1>3 DEF CopyCurrent
<1>4. CASE RemoveCurrent(w)
  BY <1>4 DEF RemoveCurrent
<1>5. CASE RemoveNew(w)
  BY <1>5 DEF RemoveNew, Answer
<1>6. ASSUME NEW s \in Stamps, RollbackStatOrig(w, s) \/ RollbackStatVersion(w, s)
      PROVE  /\ CurrentOf(w)' = CurrentOf(w) /\ CountedOf(w)' = CountedOf(w)
             /\ \A n \in CountedOf(w) : objects'[n] = objects[n]
             /\ UNCHANGED <<discarded, disturbed>>
  BY <1>6 DEF RollbackStatOrig, RollbackStatVersion
<1>7. CASE \/ RollbackNotFound(w) \/ \E now \in Stamps : RemoveOldList(w, now)
           \/ \E n \in Names : DeleteList(w, n)
  BY <1>7 DEF RollbackNotFound, RemoveOldList, DeleteList
<1> QED
  BY <1>1, <1>2, <1>3, <1>4, <1>5, <1>6, <1>7

\* A removal on request: of the file, of the last copy of a kept body, or of one of several.
LEMMA Removed ==
  ASSUME NEW w \in Workers, Alone(w), NEW n \in Names, HiddenBy(w) = {}, HiddenBy(w)' = {},
         pc[w] # "copy_new", pc'[w] # "copy_new", Write(n, NoContent), Discard(n)
  PROVE  File!Request \/ UNCHANGED File!vars
<1> DEFINE K == {objects[m] : m \in CountedOf(w)}
<1>1. /\ KeptBodies = K /\ KeptBodies' = {objects'[m] : m \in CountedOf(w)'}
      /\ CurrentBody = objects[Orig] /\ CurrentBody' = objects'[Orig]
  BY KeptOf, AbstractState, AbstractStateNext DEF Alone, CurrentOf
<1>2. /\ objects' = [objects EXCEPT ![n] = NoContent]
      /\ objects \in [Names -> Contents \cup {NoContent}] /\ ~disturbed /\ ~disturbed'
  BY DEF Write, Alone, Before, TypeInv, TypeOK
<1>3. CountedOf(w) = {m \in Names \ {Orig} : Exists(m)} /\ CountedOf(w)' = CountedOf(w) \ {n}
  BY <1>2, NamesDiffer DEF CountedOf, Exists
<1>4. CASE n = Orig
  <2>1. KeptBodies' = K
    BY <1>1, <1>2, <1>3, <1>4
  <2>2. discarded' = discarded \cup ({objects[Orig]} \ (K \cup {NoContent}))
    BY <1>2, <1>3, <1>4, NamesDiffer, ContentsAssumption DEF Discard, Exists
  <2> QED BY <1>1, <1>2, <1>4, <2>1, <2>2, NamesDiffer DEF File!Request, File!Delete, File!DropCurrent
<1>5. CASE n # Orig /\ Exists(n) /\ \A m \in CountedOf(w) : objects[m] = objects[n] => m = n
  <2>1. objects[n] \in Contents
    BY <1>2, <1>5 DEF Exists
  <2>2. KeptBodies' = K \ {objects[n]}
    BY <1>1, <1>2, <1>3, <1>5
  <2>3. discarded' = discarded \cup ({objects[n]} \ {objects[Orig]})
    BY <1>2, <1>3, <1>5, <2>1, NamesDiffer, ContentsAssumption DEF Discard, Exists
  <2>4. CurrentBody' = CurrentBody
    BY <1>1, <1>2, <1>5, NamesDiffer
  <2> QED BY <1>1, <2>1, <2>2, <2>3, <2>4 DEF File!Request, File!RemoveVersion
<1>6. CASE n # Orig /\ (~Exists(n) \/ \E m \in CountedOf(w) : objects[m] = objects[n] /\ m # n)
  <2>1. KeptBodies' = K
    BY <1>1, <1>2, <1>3, <1>6 DEF Exists
  <2>2. discarded' = discarded
    BY <1>2, <1>3, <1>6, ContentsAssumption DEF Discard, Exists
  <2>3. CurrentBody' = CurrentBody
    BY <1>1, <1>2, <1>6, NamesDiffer
  <2>4. disturbed' = disturbed
    BY <1>2, Zenon DEF Alone, Before, TypeInv, TypeOK
  <2> QED BY <1>1, <2>1, <2>2, <2>3, <2>4 DEF File!vars
<1> QED
  BY <1>4, <1>5, <1>6

LEMMA RemovingSteps ==
  ASSUME NEW w \in Workers, Alone(w), DeleteRemove(w) \/ \E s \in Stamps : RemoveOldVersion(w, s)
  PROVE  File!Request \/ UNCHANGED File!vars
<1> USE NamesDiffer DEF Alone, Before, TypeInv, TypeOK, HiddenBy, Uploading, Goto, Leave
<1>1. CASE DeleteRemove(w)
  BY <1>1, Removed DEF DeleteRemove
<1>2. ASSUME NEW s \in Stamps, RemoveOldVersion(w, s)
      PROVE  File!Request \/ UNCHANGED File!vars
  BY <1>2, Removed DEF RemoveOldVersion
<1> QED
  BY <1>1, <1>2

\* The steps at which an upload or a rollback takes effect.
LEMMA UploadingSteps ==
  ASSUME NEW w \in Workers, Alone(w),
         Put(w) \/ CopyNew(w) \/ \E c \in Contents : UploadByUrl(w, c)
  PROVE  File!Request
<1> DEFINE K == {objects[m] : m \in CountedOf(w)}
<1>0. /\ KeptBodies = K /\ KeptBodies' = {objects'[m] : m \in CountedOf(w)'}
      /\ CurrentBody = CurrentOf(w) /\ CurrentBody' = CurrentOf(w)'
  BY KeptOf, AbstractState, AbstractStateNext DEF Alone
<1> USE NamesDiffer, ContentsAssumption DEF Alone, Before, TypeInv, TypeOK
<1>1. CASE Put(w)
  <2>1. /\ pc[w] = "put" /\ ~Exists(Orig) /\ content[w] \in Contents
        /\ pc' = [pc EXCEPT ![w] = "idle"] /\ objects' = [objects EXCEPT ![Orig] = content[w]]
        /\ UNCHANGED discarded
    BY <1>1 DEF Put, AloneInv, BeforeCall, Carries, Leave, Goto, Write
  <2>2. CurrentOf(w) = NoContent /\ CurrentOf(w)' = content[w]
    BY <2>1 DEF CurrentOf, Exists
  <2>3. HiddenBy(w) = {} /\ HiddenBy(w)' = {}
    BY <2>1 DEF HiddenBy, Uploading
  <2>4. CountedOf(w)' = CountedOf(w)
    BY <2>1, <2>3 DEF CountedOf, Exists
  <2>5. KeptBodies' = KeptBodies
    BY <1>0, <2>1, <2>4 DEF CountedOf
  <2> QED BY <1>0, <2>1, <2>2, <2>5 DEF File!Request, File!Upload, File!WithCurrent
<1>2. ASSUME NEW c \in Contents, UploadByUrl(w, c) PROVE File!Request
  <2>1. /\ pc[w] = "idle" /\ UNCHANGED <<pc, stamp, source>>
        /\ objects' = [objects EXCEPT ![Orig] = c] /\ Discard(Orig)
    BY <1>2 DEF UploadByUrl, Accepts, Write, request
  <2>2. CurrentOf(w) = objects[Orig] /\ CurrentOf(w)' = c
    BY <2>1 DEF CurrentOf
  <2>3. HiddenBy(w) = {} /\ HiddenBy(w)' = {}
    BY <2>1 DEF HiddenBy, Uploading
  <2>4. CountedOf(w) = {m \in Names \ {Orig} : Exists(m)} /\ CountedOf(w)' = CountedOf(w)
    BY <2>1, <2>3 DEF CountedOf, Exists
  <2>5. KeptBodies' = KeptBodies
    BY <1>0, <2>1, <2>4
  <2>6. discarded' = discarded \cup ({objects[Orig]} \ (K \cup {NoContent}))
    BY <2>1, <2>4 DEF Discard, Exists
  <2> QED BY <1>0, <2>2, <2>5, <2>6 DEF File!Request, File!Overwrite, File!DropCurrent
<1>3. CASE CopyNew(w)
  <2> DEFINE old == objects[Version(stamp[w])]
             new == objects[source[w]]
  <2>1. /\ pc[w] = "copy_new" /\ pc' = [pc EXCEPT ![w] = "remove_new"]
        /\ UNCHANGED <<stamp, source, discarded>> /\ objects' = [objects EXCEPT ![Orig] = new]
        /\ ~Exists(Orig) /\ source[w] \in Names \ {Orig} /\ Exists(source[w]) /\ new \in Contents
        /\ stamp[w] \in Stamps /\ source[w] # Version(stamp[w]) /\ Exists(Version(stamp[w]))
    BY <1>3 DEF CopyNew, AloneInv, BeforeCall, Carries, Goto, Write, request, Renaming
  <2>2. CurrentOf(w) = old /\ CurrentOf(w)' = new /\ old # NoContent
    BY <2>1 DEF CurrentOf, Exists
  <2>3. HiddenBy(w)' = {source[w]}
    BY <2>1 DEF HiddenBy, Uploading
  <2>4. CountedOf(w)' = {m \in Names \ {Orig} : Exists(m)} \ {source[w]}
    BY <2>1, <2>3 DEF CountedOf, Exists
  <2>5. CASE \E s \in Stamps : source[w] = Temp(s)
    <3>1. HiddenBy(w) = {Version(stamp[w]), source[w]}
      BY <2>1, <2>5 DEF HiddenBy, Uploading
    <3>2. CountedOf(w)' = CountedOf(w) \cup {Version(stamp[w])}
      BY <2>1, <2>4, <3>1 DEF CountedOf
    <3>3. KeptBodies' = K \cup {old}
      BY <1>0, <2>1, <3>2 DEF CountedOf
    <3> QED BY <1>0, <2>1, <2>2, <3>3 DEF File!Request, File!Upload, File!WithCurrent
  <2>6. CASE ~\E s \in Stamps : source[w] = Temp(s)
    <3>1. HiddenBy(w) = {Version(stamp[w])}
      BY <2>1, <2>6 DEF HiddenBy, Uploading
    <3>2. /\ CountedOf(w)' = (CountedOf(w) \ {source[w]}) \cup {Version(stamp[w])}
          /\ source[w] \in CountedOf(w)
      BY <2>1, <2>4, <3>1 DEF CountedOf
    <3>3. KeptBodies' = {objects[m] : m \in CountedOf(w) \ {source[w]}} \cup {old}
      BY <1>0, <2>1, <3>2 DEF CountedOf
    <3>4. KeptBodies' \in {K \cup {old}, (K \cup {old}) \ {new}}
      <4>1. CASE new = old \/ \E m \in CountedOf(w) \ {source[w]} : objects[m] = new
        <5>1. KeptBodies' = K \cup {old}
          BY <3>2, <3>3, <4>1
        <5> QED BY <5>1
      <4>2. CASE ~(new = old \/ \E m \in CountedOf(w) \ {source[w]} : objects[m] = new)
        <5>1. KeptBodies' = (K \cup {old}) \ {new}
          BY <3>2, <3>3, <4>2
        <5> QED BY <5>1
      <4> QED BY <4>1, <4>2
    <3>5. File!WithCurrent = K \cup {old}
      BY <1>0, <2>2 DEF File!WithCurrent
    <3>6. new \in KeptBodies
      BY <1>0, <3>2
    <3>7. CurrentBody' = new /\ UNCHANGED discarded
      BY <1>0, <2>1, <2>2
    <3>8. File!Rollback(new)
      BY <3>4, <3>5, <3>6, <3>7 DEF File!Rollback
    <3> QED BY <2>1, <3>8 DEF File!Request
  <2> QED BY <2>5, <2>6
<1> QED
  BY <1>1, <1>2, <1>3

\* A request that stops half way leaves bodies behind, and takes none away.
LEMMA InterruptingSteps ==
  ASSUME NEW w \in Workers, Alone(w), CopyFails(w) \/ Abort(w)
  PROVE  File!Request \/ UNCHANGED File!vars
<1> DEFINE K == {objects[m] : m \in CountedOf(w)}
<1>0. /\ KeptBodies = K /\ KeptBodies' = {objects'[m] : m \in CountedOf(w)'}
      /\ CurrentBody = CurrentOf(w) /\ CurrentBody' = CurrentOf(w)'
  BY KeptOf, AbstractState, AbstractStateNext DEF Alone
<1> USE NamesDiffer, ContentsAssumption DEF Alone, Before, TypeInv, TypeOK
<1>1. /\ pc[w] # "idle" /\ pc' = [pc EXCEPT ![w] = "idle"]
      /\ UNCHANGED <<objects, discarded>>
  BY DEF CopyFails, Abort, GiveUp, Leave, Goto
<1>2. UNCHANGED disturbed
  BY Zenon DEF CopyFails, Abort, GiveUp
<1>3. HiddenBy(w)' = {} /\ CurrentOf(w)' = objects[Orig]
  BY <1>1 DEF HiddenBy, Uploading, CurrentOf
<1>4. CountedOf(w)' = CountedOf(w) \cup {n \in HiddenBy(w) \ {Orig} : Exists(n)}
  BY <1>1, <1>3 DEF CountedOf, Exists, HiddenBy
<1>5. KeptBodies' = K \cup {objects[n] : n \in {m \in HiddenBy(w) \ {Orig} : Exists(m)}}
  BY <1>0, <1>1, <1>4
<1>6. CASE pc[w] \notin {"copy_current", "remove_current", "copy_new", "remove_new"}
  <2>1. HiddenBy(w) = {} /\ CurrentOf(w) = objects[Orig]
    BY <1>6 DEF HiddenBy, Uploading, CurrentOf
  <2>2. KeptBodies' = K
    BY <1>5, <2>1
  <2> QED BY <1>0, <1>1, <1>2, <1>3, <2>1, <2>2 DEF File!vars
<1>7. CASE pc[w] \in {"copy_current", "remove_current", "copy_new", "remove_new"}
  <2>1. /\ content[w] \in Contents /\ objects[source[w]] = content[w]
        /\ pc[w] = "copy_new" => ~Exists(Orig) /\ Exists(Version(stamp[w])) /\ stamp[w] \in Stamps
        /\ pc[w] = "remove_current" => objects[Version(stamp[w])] = objects[Orig]
    BY <1>7 DEF AloneInv, BeforeCall, Carries, Renaming
  <2>2. \A n \in HiddenBy(w) : objects[n] \in {content[w], CurrentOf(w)}
    BY <1>7, <2>1 DEF HiddenBy, Uploading, CurrentOf
  <2>3. KeptBodies \subseteq KeptBodies' /\ KeptBodies' \subseteq File!WithCurrent \cup {content[w]}
    BY <1>0, <1>5, <2>2 DEF File!WithCurrent, Exists
  <2>4. CurrentBody' \in {CurrentBody, NoContent}
    BY <1>0, <1>3, <2>1 DEF CurrentOf, Exists
  <2>5. CurrentBody # CurrentBody' => CurrentBody \in KeptBodies'
    <3>1. CASE pc[w] = "copy_new"
      <4>1. Version(stamp[w]) \in {m \in HiddenBy(w) \ {Orig} : Exists(m)}
        BY <2>1, <3>1 DEF HiddenBy
      <4> QED BY <1>0, <1>5, <3>1, <4>1 DEF CurrentOf
    <3>2. CASE pc[w] # "copy_new"
      BY <1>0, <1>3, <3>2 DEF CurrentOf
    <3> QED BY <3>1, <3>2
  <2> QED BY <1>1, <2>1, <2>3, <2>4, <2>5 DEF File!Request, File!Interrupted
<1> QED
  BY <1>6, <1>7

-----------------------------------------------------------------------------
(* Whoever acts while requests do not disturb each other is the only one at work. *)
LEMMA ActsAlone ==
  ASSUME TypeInv, AloneInv, NEW w \in Workers, TypeInv', AloneInv', ~disturbed', ~disturbed,
         \/ \E c \in Contents : UploadStatMissing(w, c) \/ UploadByUrl(w, c)
         \/ \E c \in Contents, t, s \in Stamps : UploadStatFound(w, c, t, s)
         \/ Put(w) \/ PutTemp(w)
         \/ CopyCurrent(w) \/ RemoveCurrent(w) \/ CopyNew(w) \/ RemoveNew(w) \/ CopyFails(w)
         \/ \E s \in Stamps : RollbackStatOrig(w, s) \/ RollbackStatVersion(w, s) \/ RemoveOldVersion(w, s)
         \/ RollbackNotFound(w)
         \/ \E n \in Names : DeleteList(w, n)
         \/ DeleteRemove(w)
         \/ \E now \in Stamps : RemoveOldList(w, now)
         \/ Abort(w)
  PROVE  OnlyBusy(w) /\ OnlyBusy(w)'
<1>1. pc[w] # "idle" \/ Quiet
  BY DEF UploadStatFound, UploadStatMissing, UploadByUrl, Put, PutTemp, CopyCurrent, RemoveCurrent,
         CopyNew, RemoveNew, CopyFails, RollbackStatOrig, RemoveOldVersion, RollbackStatVersion,
         RollbackNotFound, DeleteList, DeleteRemove, RemoveOldList, Abort, Accepts
<1>2. \A v \in Workers \ {w} : pc'[v] = pc[v]
  BY DEF UploadStatFound, UploadStatMissing, UploadByUrl, Put, PutTemp, CopyCurrent, RemoveCurrent,
         CopyNew, RemoveNew, Answer, CopyFails, RollbackStatOrig, RemoveOldVersion, RollbackStatVersion,
         RollbackNotFound, DeleteList, DeleteRemove, RemoveOldList, Abort, GiveUp, Leave, Goto,
         TypeInv, TypeOK, request
<1>3. OnlyBusy(w)
  BY <1>1 DEF OnlyBusy, AloneInv, OneBusy, Quiet
<1> QED
  BY <1>2, <1>3 DEF OnlyBusy

LEMMA RefinementStep ==
  ASSUME TypeInv, TempsInv, SerialInv, TypeInv', SerialInv', [Next]_vars
  PROVE  [File!Next]_(File!vars)
<1>1. CASE disturbed'
  BY <1>1 DEF File!Next
<1>2. CASE ~disturbed' /\ vars' = vars
  <2>1. UNCHANGED <<objects, pc, stamp, source, discarded, disturbed>>
    BY <1>2, Zenon DEF vars, request, history
  <2>2. CurrentBody' = CurrentBody
    BY <2>1, Zenon DEF CurrentBody, Restoring
  <2>3. KeptBodies' = KeptBodies
    BY <2>1, Zenon DEF KeptBodies, Counted, Uncounted, Uploading, Exists
  <2> QED BY <2>1, <2>2, <2>3 DEF File!vars
<1>3. CASE ~disturbed' /\ Next
  <2>1. ~disturbed /\ AloneInv /\ AloneInv'
    BY <1>3, DisturbedStep DEF SerialInv, Noticed, TypeInv, TypeOK
  <2>2. PICK w \in Workers :
          \/ \E c \in Contents : UploadStatMissing(w, c) \/ UploadByUrl(w, c)
          \/ \E c \in Contents, t, s \in Stamps : UploadStatFound(w, c, t, s)
          \/ Put(w) \/ PutTemp(w)
          \/ CopyCurrent(w) \/ RemoveCurrent(w) \/ CopyNew(w) \/ RemoveNew(w) \/ CopyFails(w)
          \/ \E s \in Stamps : RollbackStatOrig(w, s) \/ RollbackStatVersion(w, s) \/ RemoveOldVersion(w, s)
          \/ RollbackNotFound(w)
          \/ \E n \in Names : DeleteList(w, n)
          \/ DeleteRemove(w)
          \/ \E now \in Stamps : RemoveOldList(w, now)
          \/ Abort(w)
    BY <1>3 DEF Next
  <2>3. Alone(w)
    BY <1>3, <2>1, <2>2, ActsAlone DEF Alone, Before, TypeInv
  <2>4. File!Request \/ UNCHANGED File!vars
    BY <2>2, <2>3, SilentSteps, UploadingSteps, RemovingSteps, InterruptingSteps
  <2> QED BY <1>3, <2>1, <2>4 DEF File!Next
<1> QED
  BY <1>1, <1>2, <1>3 DEF vars

(* The chains of S3 calls of upload_file_object, rollback, delete_object_s3,
   remove_old_versions and upload_by_url, killed or failing between any two calls,
   look to their clients like the single steps of a versioned file, as long as
   the requests on that file do not overlap, draw no name in use, and its stat
   calls do not fail. *)
THEOREM ForeignVersioningImplementsVersionedFile ==
  ASSUME ~StatMayFail
  PROVE  Spec => ImplementsVersionedFile
<1>1. Init => File!Init
  <2> SUFFICES ASSUME Init PROVE File!Init
    OBVIOUS
  <2>1. CurrentBody = NoContent
    BY NamesDiffer DEF Init, CurrentBody, Restoring
  <2>2. KeptBodies = {}
    BY NamesDiffer DEF Init, KeptBodies, Counted, Exists
  <2>3. discarded = {} /\ (~disturbed) = TRUE
    BY Zenon DEF Init
  <2> QED BY <2>1, <2>2, <2>3 DEF File!Init
<1> QED
  BY TypeInvInit, TypeInvStep, TempsInvInit, TempsInvStep, SerialInvInit,
     SerialInvStep, RefinementStep, <1>1, PTL DEF Spec, ImplementsVersionedFile, File!Spec
=============================================================================
