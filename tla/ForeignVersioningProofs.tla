------------------------ MODULE ForeignVersioningProofs ------------------------
(***************************************************************************)
(* Theorems about ForeignVersioning, for every set of workers and of       *)
(* bodies, every bound and every combination of operations.                *)
(***************************************************************************)
EXTENDS ForeignVersioning, TLAPS

(* The names of a file's objects never clash: get_temp_name and
   get_version_name append different suffixes, and a stamp to each. *)
LEMMA NamesDiffer ==
  /\ Orig \in Names
  /\ \A s \in Stamps : /\ Temp(s) \in Names /\ Version(s) \in Names
                       /\ Temp(s) # Orig /\ Version(s) # Orig
  /\ \A r, s : /\ Temp(r) # Version(s)
               /\ Temp(r) = Temp(s) => r = s
               /\ Version(r) = Version(s) => r = s
  BY DEF Orig, Names, Temp, Version

-----------------------------------------------------------------------------
(* TypeOK is not inductive by itself: an upload or rollback on its way must
   have a body to write. *)
Carries ==
  \A w \in Workers :
    pc[w] \in {"put", "put_temp", "copy_current", "remove_current", "copy_new", "remove_new"}
      => content[w] \in Contents

TypeInv == TypeOK /\ Carries

(* A handler that ends leaves well typed locals behind, and touches no other
   worker's. *)
LEMMA LeaveTypes ==
  ASSUME TypeOK, NEW w \in Workers, Leave(w)
  PROVE  /\ pc' \in [Workers -> PC] /\ pc' = [pc EXCEPT ![w] = "idle"]
         /\ content' \in [Workers -> Contents \cup {NoContent}]
         /\ stamp' \in [Workers -> 0 .. MaxStamp]
         /\ source' \in [Workers -> Names]
         /\ expired' \in [Workers -> SUBSET Stamps]
         /\ content' = [content EXCEPT ![w] = NoContent]
  BY NamesDiffer, BoundsAssumption DEF Leave, Goto, TypeOK, PC

LEMMA TypeInvInit == Init => TypeInv
<1> SUFFICES ASSUME Init PROVE TypeInv
  OBVIOUS
<1>1. disturbed \in BOOLEAN
  BY Zenon DEF Init
<1> QED
  BY <1>1, NamesDiffer, BoundsAssumption DEF Init, TypeInv, TypeOK, Carries, PC

\* Once requests have disturbed each other, they have.
Noticed == disturbed' \in BOOLEAN /\ (disturbed => disturbed')

LEMMA DisturbedStep ==
  ASSUME disturbed \in BOOLEAN, [Next]_vars
  PROVE  Noticed
<1>1. ASSUME NEW w \in Workers, NEW op, NEW names, Accepts(w, op, names) PROVE Noticed
  BY <1>1, Zenon DEF Accepts, Draws, Noticed
<1>2. ASSUME NEW names, Draws(names) PROVE Noticed
  BY <1>2, Zenon DEF Draws, Noticed
<1>3. CASE \/ \E w \in Workers, c \in Contents : UploadStatMissing(w, c) \/ UploadByUrl(w, c)
           \/ \E w \in Workers, c \in Contents, t, s \in Stamps : UploadStatFound(w, c, t, s)
  BY <1>1, <1>3, Zenon DEF UploadStatMissing, UploadByUrl, UploadStatFound
<1>4. CASE \/ \E w \in Workers, s \in Stamps : RollbackStatOrig(w, s)
           \/ \E w \in Workers, n \in Names : DeleteList(w, n)
           \/ \E w \in Workers, now \in Stamps : RemoveOldList(w, now)
  BY <1>1, <1>4, Zenon DEF RollbackStatOrig, DeleteList, RemoveOldList
<1>5. CASE \E w \in Workers, s \in Stamps : RollbackStatVersion(w, s)
  BY <1>2, <1>5, Zenon DEF RollbackStatVersion
<1>6. CASE UNCHANGED disturbed
  BY <1>6 DEF Noticed
<1>7. ASSUME NEW w \in Workers,
             \/ Put(w) \/ PutTemp(w) \/ CopyCurrent(w) \/ RemoveCurrent(w) \/ CopyNew(w) \/ RemoveNew(w)
             \/ CopyFails(w) \/ RollbackNotFound(w) \/ DeleteRemove(w) \/ Abort(w)
             \/ \E s \in Stamps : RemoveOldVersion(w, s)
      PROVE  UNCHANGED disturbed
  BY <1>7, Zenon DEF Put, PutTemp, CopyCurrent, RemoveCurrent, CopyNew, RemoveNew, Answer, CopyFails, Abort,
     GiveUp, RollbackNotFound, DeleteRemove, RemoveOldVersion
<1>8. UNCHANGED vars => UNCHANGED disturbed
  BY DEF vars
<1>. QED  BY <1>3, <1>4, <1>5, <1>6, <1>7, <1>8, Zenon DEF Next

LEMMA TypeInvStep == TypeInv /\ [Next]_vars => TypeInv'
<1> SUFFICES ASSUME TypeInv, [Next]_vars PROVE TypeInv'
  OBVIOUS
<1> USE DEF TypeInv, Carries, TypeOK, PC, Goto, request, history, Accepts, Write, Exists, Current, Stamps
<1>0. [Next]_vars => disturbed' \in BOOLEAN
  BY DisturbedStep DEF Noticed
<1>1. ASSUME NEW w \in Workers, NEW c \in Contents, NEW t \in Stamps, NEW s \in Stamps,
             UploadStatFound(w, c, t, s)
      PROVE  TypeInv'
  BY <1>0, <1>1, NamesDiffer, BoundsAssumption DEF UploadStatFound, DrawStamp
<1>2. ASSUME NEW w \in Workers, NEW c \in Contents, UploadStatMissing(w, c) PROVE TypeInv'
  BY <1>0, <1>2, NamesDiffer DEF UploadStatMissing
<1>3. ASSUME NEW w \in Workers, NEW c \in Contents, UploadByUrl(w, c) PROVE TypeInv'
  BY <1>0, <1>3, NamesDiffer DEF UploadByUrl, Discard
<1>4. ASSUME NEW w \in Workers, Put(w) PROVE TypeInv'
  BY <1>4, LeaveTypes, NamesDiffer DEF Put
<1>5. ASSUME NEW w \in Workers, PutTemp(w) PROVE TypeInv'
  BY <1>5 DEF PutTemp
<1>6. ASSUME NEW w \in Workers, CopyCurrent(w) PROVE TypeInv'
  BY <1>6, NamesDiffer DEF CopyCurrent
<1>7. ASSUME NEW w \in Workers, RemoveCurrent(w) PROVE TypeInv'
  BY <1>7, NamesDiffer DEF RemoveCurrent
<1>8. ASSUME NEW w \in Workers, CopyNew(w) PROVE TypeInv'
  BY <1>8, NamesDiffer DEF CopyNew
<1>9. ASSUME NEW w \in Workers, RemoveNew(w) PROVE TypeInv'
  BY <1>9, LeaveTypes DEF RemoveNew, Answer
<1>10. ASSUME NEW w \in Workers, CopyFails(w) \/ Abort(w) PROVE TypeInv'
  <2>1. GiveUp(w)
    BY <1>10 DEF CopyFails, Abort
  <2>2. abandoned' \subseteq Stamps /\ UNCHANGED <<objects, offered, acked, discarded, wasCurrent, disturbed>>
    BY <2>1 DEF GiveUp
  <2>3. Leave(w) /\ expected' = Unknown
    BY <2>1 DEF GiveUp
  <2> QED BY <2>2, <2>3, LeaveTypes
<1>11. ASSUME NEW w \in Workers, NEW s \in Stamps, RollbackStatOrig(w, s) PROVE TypeInv'
  BY <1>0, <1>11, NamesDiffer DEF RollbackStatOrig
<1>12. ASSUME NEW w \in Workers, NEW s \in Stamps, RemoveOldVersion(w, s) PROVE TypeInv'
  <2>1. CASE expired[w] = {s}
    BY <1>12, <2>1, LeaveTypes, NamesDiffer DEF RemoveOldVersion, Discard
  <2>2. CASE expired[w] # {s}
    BY <1>12, <2>2, NamesDiffer DEF RemoveOldVersion, Discard
  <2> QED BY <2>1, <2>2
<1>13. ASSUME NEW w \in Workers, NEW s \in Stamps, RollbackStatVersion(w, s) PROVE TypeInv'
  BY <1>0, <1>13, NamesDiffer, BoundsAssumption DEF RollbackStatVersion, DrawStamp
<1>14. ASSUME NEW w \in Workers, RollbackNotFound(w) PROVE TypeInv'
  BY <1>14, LeaveTypes DEF RollbackNotFound
<1>15. ASSUME NEW w \in Workers, NEW n \in Names, DeleteList(w, n) PROVE TypeInv'
  BY <1>0, <1>15 DEF DeleteList
<1>16. ASSUME NEW w \in Workers, DeleteRemove(w) PROVE TypeInv'
  BY <1>16, LeaveTypes DEF DeleteRemove, Discard
<1>17. ASSUME NEW w \in Workers, NEW now \in Stamps, RemoveOldList(w, now) PROVE TypeInv'
  BY <1>0, <1>17, NamesDiffer DEF RemoveOldList
<1>18. CASE UNCHANGED vars
  BY <1>18 DEF vars
<1> QED
  BY <1>1, <1>2, <1>3, <1>4, <1>5, <1>6, <1>7, <1>8, <1>9, <1>10, <1>11, <1>12, <1>13,
     <1>14, <1>15, <1>16, <1>17, <1>18 DEF Next

(* Every value stays in the set the code draws it from; in particular an upload
   or rollback never writes "no object" into the bucket. *)
THEOREM TypeCorrect == Spec => []TypeOK
<1>1. TypeInv => TypeOK
  BY DEF TypeInv
<1> QED
  BY TypeInvInit, TypeInvStep, <1>1, PTL DEF Spec

-----------------------------------------------------------------------------
(* What a worker renames or restores is an object of its kind. *)
OwnTemp ==
  /\ \A w \in Workers : pc[w] = "put_temp" => \E t \in Stamps : source[w] = Temp(t)
  /\ \A w \in Workers : pc[w] = "stat_version" => \E s \in Stamps : source[w] = Version(s)

TempsInv == OwnTemp /\ TempsAccountedFor

LEMMA TempsInvInit == Init => TempsInv
  BY NamesDiffer DEF Init, TempsInv, OwnTemp, TempsAccountedFor, Uploading, Exists

LEMMA TempsInvStep == TypeInv /\ TempsInv /\ [Next]_vars => TempsInv'
<1> SUFFICES ASSUME TypeInv, TempsInv, [Next]_vars PROVE TempsInv'
  OBVIOUS
<1> USE NamesDiffer, ContentsAssumption
    DEF TypeInv, TypeOK, TempsInv, OwnTemp, TempsAccountedFor, Uploading, Exists, Write, Goto, Leave,
        Accepts, request, history
<1>1. ASSUME NEW w \in Workers, NEW c \in Contents, NEW t \in Stamps, NEW s \in Stamps,
             UploadStatFound(w, c, t, s)
      PROVE TempsInv'
  BY <1>1 DEF UploadStatFound, DrawStamp
<1>2. ASSUME NEW w \in Workers, NEW c \in Contents, UploadStatMissing(w, c) \/ UploadByUrl(w, c)
      PROVE TempsInv'
  BY <1>2 DEF UploadStatMissing, UploadByUrl
<1>3. ASSUME NEW w \in Workers, PutTemp(w) PROVE TempsInv'
  BY <1>3 DEF PutTemp
<1>4. ASSUME NEW w \in Workers, CopyCurrent(w) PROVE TempsInv'
  BY <1>4 DEF CopyCurrent
<1>5. ASSUME NEW w \in Workers, RemoveCurrent(w) \/ CopyNew(w) PROVE TempsInv'
  BY <1>5 DEF RemoveCurrent, CopyNew
<1>6. ASSUME NEW w \in Workers, RemoveNew(w) PROVE TempsInv'
  BY <1>6 DEF RemoveNew, Answer
<1>7. ASSUME NEW w \in Workers, CopyFails(w) \/ Abort(w) PROVE TempsInv'
  BY <1>7 DEF CopyFails, Abort, GiveUp
<1>8. ASSUME NEW w \in Workers, Put(w) \/ DeleteRemove(w) \/ RollbackNotFound(w) PROVE TempsInv'
  BY <1>8 DEF Put, DeleteRemove, RollbackNotFound
<1>9. ASSUME NEW w \in Workers, NEW s \in Stamps, RollbackStatVersion(w, s) PROVE TempsInv'
  BY <1>9 DEF RollbackStatVersion, DrawStamp
<1>10. ASSUME NEW w \in Workers, NEW s \in Stamps, RollbackStatOrig(w, s) \/ RemoveOldVersion(w, s)
       PROVE TempsInv'
  BY <1>10 DEF RollbackStatOrig, RemoveOldVersion
<1>11. ASSUME NEW w \in Workers,
              (\E now \in Stamps : RemoveOldList(w, now)) \/ \E n \in Names : DeleteList(w, n)
       PROVE TempsInv'
  BY <1>11 DEF RemoveOldList, DeleteList
<1>12. CASE UNCHANGED vars
  BY <1>12 DEF vars
<1> QED
  BY <1>1, <1>2, <1>3, <1>4, <1>5, <1>6, <1>7, <1>8, <1>9, <1>10, <1>11, <1>12 DEF Next

(* A successful upload leaves no temporary object: one that is in the bucket is
   about to be renamed, or its upload stopped half way. *)
THEOREM TempsAccountedForAlways == Spec => []TempsAccountedFor
<1>1. TempsInv => TempsAccountedFor
  BY DEF TempsInv
<1> QED
  BY TypeInvInit, TypeInvStep, TempsInvInit, TempsInvStep, <1>1, PTL DEF Spec

-----------------------------------------------------------------------------
(* Whatever the workers do at the same time, what the version list offers was
   the file's content at some time: list_object_versions never shows bytes of an
   upload that did not take effect. *)
CurrentSeen == Exists(Orig) => objects[Orig] \in wasCurrent

THEOREM VersionsWereCurrentAlways == Spec => []VersionsWereCurrent
<1> DEFINE Inv == CurrentSeen /\ VersionsWereCurrent
<1>1. Init => Inv
  BY NamesDiffer DEF Init, CurrentSeen, VersionsWereCurrent, Exists
<1>2. TypeInv /\ TempsInv /\ Inv /\ [Next]_vars => Inv'
  <2> SUFFICES ASSUME TypeInv, TempsInv, Inv, [Next]_vars PROVE Inv'
    OBVIOUS
  <2> USE NamesDiffer DEF TypeInv, TypeOK, CurrentSeen, VersionsWereCurrent, Exists, Write,
          Current, request, history
  <2>1. ASSUME NEW w \in Workers, PutTemp(w) PROVE Inv'
    <3>1. \E t \in Stamps : source[w] = Temp(t)
      BY <2>1 DEF PutTemp, TempsInv, OwnTemp
    <3> QED BY <2>1, <3>1 DEF PutTemp
  <2>2. ASSUME NEW w \in Workers, CopyCurrent(w) PROVE Inv'
    BY <2>2 DEF CopyCurrent
  <2>3. ASSUME NEW w \in Workers, Put(w) \/ \E c \in Contents : UploadByUrl(w, c) PROVE Inv'
    BY <2>3 DEF Put, UploadByUrl
  <2>4. ASSUME NEW w \in Workers, RemoveCurrent(w) \/ CopyNew(w) PROVE Inv'
    BY <2>4 DEF RemoveCurrent, CopyNew
  <2>5. ASSUME NEW w \in Workers,
               RemoveNew(w) \/ DeleteRemove(w) \/ \E s \in Stamps : RemoveOldVersion(w, s)
        PROVE Inv'
    BY <2>5 DEF RemoveNew, Answer, DeleteRemove, RemoveOldVersion
  <2>6. ASSUME UNCHANGED <<objects, wasCurrent>> PROVE Inv'
    BY <2>6
  <2> QED
    BY <2>1, <2>2, <2>3, <2>4, <2>5, <2>6
    DEF Next, vars, UploadStatFound, UploadStatMissing, CopyFails, Abort, GiveUp,
        RollbackStatOrig, RollbackStatVersion, RollbackNotFound, DeleteList, RemoveOldList
<1>3. Inv => VersionsWereCurrent
  OBVIOUS
<1> QED
  BY TypeInvInit, TypeInvStep, TempsInvInit, TempsInvStep, <1>1, <1>2, <1>3, PTL DEF Spec

-----------------------------------------------------------------------------
(***************************************************************************)
(* When the requests on a file do not overlap, draw no name in use, and    *)
(* stat_object tells the truth, nothing acknowledged is lost.  The         *)
(* inductive invariant says what the worker that is busy may rely on       *)
(* before each of its S3 calls.                                            *)
(***************************************************************************)

OneBusy == \A v, w \in Workers : pc[v] # "idle" /\ pc[w] # "idle" => v = w

Renaming == {"copy_current", "remove_current", "copy_new", "remove_new"}

\* What holds before the next call of w.
BeforeCall(w) ==
  /\ pc[w] = "put" => ~Exists(Orig)
  /\ pc[w] \in {"put_temp", "stat_version", "copy_current"} => Exists(Orig)
  /\ pc[w] \in Renaming \cup {"put_temp", "stat_version"} => source[w] # Orig
  /\ pc[w] = "put_temp" => ~Exists(source[w])
  /\ pc[w] \in {"put_temp", "copy_current"} => stamp[w] \in Stamps /\ ~Exists(Version(stamp[w]))
  /\ pc[w] \in Renaming => objects[source[w]] = content[w]
  /\ pc[w] \in {"remove_current", "copy_new", "remove_new"} =>
       stamp[w] \in Stamps /\ source[w] # Version(stamp[w]) /\ Exists(Version(stamp[w]))
  /\ pc[w] = "remove_current" => objects[Version(stamp[w])] = objects[Orig]
  /\ pc[w] = "copy_new" => ~Exists(Orig)
  /\ pc[w] = "remove_new" => objects[Orig] = content[w]

\* Until rename_object removes the original it is what the last request left.
OrigKept ==
  expected # Unknown /\ (\A w \in Workers : pc[w] \notin {"copy_new", "remove_new"})
    => objects[Orig] = expected

\* What was acknowledged, and not dropped, is in the bucket.
AckedStored == \A c \in acked \ discarded : Stored(c)

AloneInv ==
  /\ OneBusy
  /\ \A w \in Workers : BeforeCall(w)
  /\ OrigKept
  /\ AckedStored

SerialInv == ~disturbed => AloneInv

LEMMA SerialInvInit == Init => SerialInv
  BY NamesDiffer DEF Init, SerialInv, AloneInv, OneBusy, BeforeCall, OrigKept,
     AckedStored, Exists, Renaming

LEMMA SerialInvStep ==
  ASSUME ~StatMayFail
  PROVE  TypeInv /\ TempsInv /\ SerialInv /\ [Next]_vars => SerialInv'
<1> SUFFICES ASSUME TypeInv, TempsInv, SerialInv, [Next]_vars, ~disturbed' PROVE AloneInv'
  BY DEF SerialInv
<1>0. ~disturbed /\ AloneInv
  BY DisturbedStep DEF SerialInv, Noticed, TypeInv, TypeOK
<1> USE <1>0, NamesDiffer, ContentsAssumption
    DEF TypeInv, TypeOK, Carries, AloneInv, OneBusy, BeforeCall, OrigKept,
        AckedStored, Exists, Stored, Renaming, Goto, Leave, request, history, Accepts, Write, Quiet
<1>1. ASSUME NEW w \in Workers, NEW c \in Contents, NEW t \in Stamps, NEW s \in Stamps,
             UploadStatFound(w, c, t, s)
      PROVE AloneInv'
  <2>1. Quiet /\ ~Exists(Temp(t)) /\ ~Exists(Version(s))
    BY <1>1 DEF UploadStatFound, Draws, InUse
  <2> QED BY <1>1, <2>1 DEF UploadStatFound, DrawStamp
<1>2. ASSUME NEW w \in Workers, NEW c \in Contents, UploadStatMissing(w, c) PROVE AloneInv'
  BY <1>2 DEF UploadStatMissing
<1>3. ASSUME NEW w \in Workers, NEW c \in Contents, UploadByUrl(w, c) PROVE AloneInv'
  <2>1. \A v \in Workers : pc[v] = "idle"
    BY <1>3 DEF UploadByUrl
  <2>2. /\ objects' = [objects EXCEPT ![Orig] = c] /\ expected' = c /\ c \in Contents
        /\ UNCHANGED <<pc, content, stamp, source>>
        /\ acked' = acked \cup {c}
    BY <1>3 DEF UploadByUrl
  <2>3. \A d \in acked' \ discarded' : Stored(d)'
    BY <1>3, <2>2 DEF UploadByUrl, Discard
  <2> QED BY <2>1, <2>2, <2>3
<1>4. ASSUME NEW w \in Workers, Put(w) PROVE AloneInv'
  BY <1>4 DEF Put
<1>5. ASSUME NEW w \in Workers, PutTemp(w) PROVE AloneInv'
  <2>1. \E t \in Stamps : source[w] = Temp(t)
    BY <1>5 DEF PutTemp, TempsInv, OwnTemp
  <2> QED BY <1>5, <2>1 DEF PutTemp
<1>6. ASSUME NEW w \in Workers, CopyCurrent(w) PROVE AloneInv'
  <2>1. stamp[w] \in Stamps /\ ~Exists(Version(stamp[w]))
    BY <1>6 DEF CopyCurrent
  <2>2. source[w] # Version(stamp[w])
    BY <1>6, <2>1 DEF CopyCurrent
  <2> QED BY <1>6, <2>1, <2>2 DEF CopyCurrent
<1>7. ASSUME NEW w \in Workers, RemoveCurrent(w) PROVE AloneInv'
  BY <1>7 DEF RemoveCurrent
<1>8. ASSUME NEW w \in Workers, CopyNew(w) PROVE AloneInv'
  BY <1>8 DEF CopyNew
<1>9. ASSUME NEW w \in Workers, RemoveNew(w) PROVE AloneInv'
  BY <1>9 DEF RemoveNew, Answer
<1>10. ASSUME NEW w \in Workers, CopyFails(w) \/ Abort(w) PROVE AloneInv'
  BY <1>10 DEF CopyFails, Abort, GiveUp
<1>11. ASSUME NEW w \in Workers, NEW s \in Stamps, RollbackStatOrig(w, s) PROVE AloneInv'
  BY <1>11 DEF RollbackStatOrig
<1>12. ASSUME NEW w \in Workers, NEW s \in Stamps, RollbackStatVersion(w, s) PROVE AloneInv'
  <2>1. ~Exists(Version(s))
    BY <1>12 DEF RollbackStatVersion, Draws, InUse
  <2> QED BY <1>12, <2>1 DEF RollbackStatVersion, DrawStamp
<1>13. ASSUME NEW w \in Workers, RollbackNotFound(w) PROVE AloneInv'
  BY <1>13 DEF RollbackNotFound
<1>14. ASSUME NEW w \in Workers, NEW n \in Names, DeleteList(w, n) PROVE AloneInv'
  BY <1>14 DEF DeleteList
<1>15. ASSUME NEW w \in Workers, DeleteRemove(w) PROVE AloneInv'
  BY <1>15 DEF DeleteRemove, Discard
<1>16. ASSUME NEW w \in Workers, NEW now \in Stamps, RemoveOldList(w, now) PROVE AloneInv'
  BY <1>16 DEF RemoveOldList
<1>17. ASSUME NEW w \in Workers, NEW s \in Stamps, RemoveOldVersion(w, s) PROVE AloneInv'
  BY <1>17 DEF RemoveOldVersion, Discard
<1>18. CASE UNCHANGED vars
  BY <1>18 DEF vars
<1> QED
  BY <1>1, <1>2, <1>3, <1>4, <1>5, <1>6, <1>7, <1>8, <1>9, <1>10, <1>11, <1>12, <1>13,
     <1>14, <1>15, <1>16, <1>17, <1>18 DEF Next

LEMMA SerialInvAlways ==
  ASSUME ~StatMayFail
  PROVE  Spec => []SerialInv
BY TypeInvInit, TypeInvStep, TempsInvInit, TempsInvStep, SerialInvInit, SerialInvStep, PTL
DEF Spec

(* As long as requests on a file do not overlap, draw no name in use, and its stat
   calls do not fail, no acknowledged body is lost, wherever upload_file_object or
   rollback is killed or fails: each of them copies before it removes. *)
THEOREM NoContentLostWhenSerial ==
  ASSUME ~StatMayFail
  PROVE  Spec => []NoContentLost
<1>1. SerialInv => NoContentLost
  BY DEF SerialInv, AloneInv, AckedStored, NoContentLost
<1> QED
  BY SerialInvAlways, <1>1, PTL

(* Under the same assumptions the file reads, between requests, what the last
   successful upload, rollback or delete left there. *)
THEOREM QuietMatchesExpectedWhenSerial ==
  ASSUME ~StatMayFail
  PROVE  Spec => []QuietMatchesExpected
<1>1. SerialInv => QuietMatchesExpected
  BY DEF SerialInv, AloneInv, OrigKept, QuietMatchesExpected, Quiet
<1> QED
  BY SerialInvAlways, <1>1, PTL
=============================================================================
