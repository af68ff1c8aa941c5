-------------------------- MODULE CleanVersionsProofs --------------------------
(***************************************************************************)
(* Theorems about CleanVersions, for every number of workers and versions, *)
(* every rule, every time to live longer than the workers' timeout.        *)
(***************************************************************************)
EXTENDS CleanVersions, FiniteSetTheorems, TLAPS

-----------------------------------------------------------------------------
LEMMA InitType == Init => TypeOK
BY BoundsAssumption DEF Init, TypeOK, PC, Statuses, Versions

(* A worker moves on, or its request is over. *)
LEMMA MoveType ==
  ASSUME TypeOK, NEW w \in Workers, NEW label \in PC, Leave(w) \/ Move(w, label)
  PROVE  /\ pc' \in [Workers -> PC] /\ age' \in [Workers -> 0 .. Timeout]
         /\ todoOld' \in [Workers -> SUBSET Versions]
         /\ todoDoubles' \in [Workers -> SUBSET Versions]
BY BoundsAssumption DEF TypeOK, Leave, Move, Goto, PC

LEMMA TypeStep == TypeOK /\ [Next]_vars => TypeOK'
<1> SUFFICES ASSUME TypeOK, [Next]_vars PROVE TypeOK'
  OBVIOUS
<1>1. CASE FileSteps \/ MonthsPass
  <2>1. UNCHANGED <<lock, worker>>
    BY <1>1 DEF FileSteps, MonthsPass, Upload, DeleteFile, Rollback, DeleteVersion
  <2>2. /\ alive' \subseteq Versions /\ markers' \subseteq Versions /\ dropped' \subseteq Versions
        /\ last' \in 0 .. MaxVersion /\ cutoff' \in 0 .. MaxVersion
    <3>1. CASE NewVersion
      <4>1. last' \in Versions /\ alive' = alive \cup {last'} /\ last' = last + 1
        BY <3>1, BoundsAssumption DEF TypeOK, NewVersion, Versions
      <4>2. UNCHANGED <<cutoff, dropped>> /\ markers' \in {markers, markers \cup {last'}}
        BY <1>1, <4>1, BoundsAssumption
        DEF TypeOK, FileSteps, MonthsPass, Upload, DeleteFile, Rollback, DeleteVersion
      <4> QED BY <4>1, <4>2, BoundsAssumption DEF TypeOK, Versions
    <3>2. CASE \E v \in Versions : DeleteVersion(v)
      BY <3>2 DEF TypeOK, DeleteVersion
    <3>3. CASE MonthsPass
      BY <3>3, BoundsAssumption DEF TypeOK, MonthsPass
    <3> QED BY <1>1, <3>1, <3>2, <3>3 DEF FileSteps, Upload, DeleteFile, Rollback
  <2> QED BY <2>1, <2>2 DEF TypeOK, lock, worker
<1>2. CASE Tick
  <2>1. age' \in [Workers -> 0 .. Timeout]
    BY <1>2, BoundsAssumption DEF Tick, TypeOK
  <2>2. data' \in 0 .. Ttl /\ statusLeft' \in 0 .. Ttl /\ status' \in Statuses
    <3>1. data \in 0 .. Ttl /\ statusLeft \in 0 .. Ttl /\ status \in Statuses /\ Ttl \in Nat
      BY BoundsAssumption DEF TypeOK
    <3>2. /\ data' = IF data = 0 THEN 0 ELSE data - 1
          /\ statusLeft' = IF statusLeft = 0 THEN 0 ELSE statusLeft - 1
          /\ status' = status \/ status' = "none"
      BY <1>2 DEF Tick
    <3>3. status' \in Statuses
      BY <3>1, <3>2 DEF Statuses
    <3>4. data' \in 0 .. Ttl /\ statusLeft' \in 0 .. Ttl
      BY <3>1, <3>2
    <3> QED BY <3>3, <3>4
  <2> QED BY <1>2, <2>1, <2>2 DEF Tick, TypeOK, bucket
<1>3. ASSUME NEW w \in Workers, RedisSteps(w) PROVE TypeOK'
  <2>1. UNCHANGED bucket /\ data' \in 0 .. Ttl /\ statusLeft' \in 0 .. Ttl /\ status' \in Statuses
        /\ owner' \in Workers \cup {NoWorker}
    <3>1. CASE \E from, next \in PC : SetData(w, from, next)
      BY <3>1, BoundsAssumption DEF TypeOK, SetData
    <3>2. CASE \E value \in Statuses : SetStatus(w, value)
      BY <3>2, BoundsAssumption DEF TypeOK, SetStatus
    <3>3. CASE GetData(w) \/ GetStatus(w) \/ SaveFails(w)
      BY <3>3 DEF TypeOK, GetData, GetStatus, SaveFails, lock
    <3>4. \E from, next \in PC : SetData(w, from, next) \/ SetStatus(w, "blocked for editing")
            \/ SetStatus(w, "ok") \/ SetStatus(w, "unexpected error")
            \/ GetData(w) \/ GetStatus(w) \/ SaveFails(w)
      BY <1>3 DEF RedisSteps, BlockData, BlockStatus, OkData, OkStatus, ErrorData, ErrorStatus, PC
    <3> QED BY <3>1, <3>2, <3>3, <3>4 DEF Statuses
  <2>2. Leave(w) \/ \E label \in PC : Move(w, label)
    BY <1>3 DEF RedisSteps, GetData, GetStatus, BlockData, BlockStatus, OkData, OkStatus, ErrorData,
                ErrorStatus, SaveFails, SetData, PC, Cleaning
  <2> QED BY <2>1, <2>2, MoveType DEF TypeOK, bucket, PC
<1>4. ASSUME NEW w \in Workers, OldDone(w) \/ DoublesDone(w) \/ CleanFails(w) \/ Kill(w) PROVE TypeOK'
  <2>1. UNCHANGED <<bucket, lock>> /\ (Leave(w) \/ \E label \in PC : Move(w, label))
    BY <1>4 DEF OldDone, DoublesDone, CleanFails, Kill, PC, Cleaning
  <2> QED BY <2>1, MoveType DEF TypeOK, bucket, lock, PC
<1>5. ASSUME NEW w \in Workers, PrepareItems(w) \/ FileOldList(w) PROVE TypeOK'
  <2>1. Noncurrent \subseteq Versions /\ \A V : Old(V) \subseteq V /\ Doubles(V) \subseteq V
    BY DEF TypeOK, Noncurrent, Old, Doubles
  <2>2. todoOld' \in [Workers -> SUBSET Versions] /\ todoDoubles' \in [Workers -> SUBSET Versions]
    BY <1>5, <2>1 DEF TypeOK, PrepareItems, FileOldList
  <2>3. pc' \in [Workers -> PC] /\ UNCHANGED <<bucket, lock, age>>
    BY <1>5 DEF TypeOK, PrepareItems, FileOldList, Goto, PC, Cleaning
  <2> QED BY <2>2, <2>3 DEF TypeOK, bucket, lock
<1>6. ASSUME NEW w \in Workers, NEW v \in Versions,
             FileOldRemove(w, v) \/ RemoveOld(w, v) \/ RemoveDouble(w, v)
      PROVE  TypeOK'
  <2>1. alive' \subseteq Versions /\ UNCHANGED <<last, markers, cutoff, dropped, lock>>
    BY <1>6 DEF TypeOK, FileOldRemove, RemoveOld, RemoveDouble, RemoveNext
  <2>2. \/ Leave(w)
        \/ /\ todoOld' = [todoOld EXCEPT ![w] = @ \ {v}] \/ UNCHANGED todoOld
           /\ todoDoubles' = [todoDoubles EXCEPT ![w] = @ \ {v}] \/ UNCHANGED todoDoubles
           /\ UNCHANGED <<pc, age>>
    BY <1>6 DEF FileOldRemove, RemoveOld, RemoveDouble
  <2>3. /\ pc' \in [Workers -> PC] /\ age' \in [Workers -> 0 .. Timeout]
        /\ todoOld' \in [Workers -> SUBSET Versions] /\ todoDoubles' \in [Workers -> SUBSET Versions]
    <3>1. CASE Leave(w)
      BY <3>1, MoveType DEF PC
    <3>2. CASE ~Leave(w)
      BY <2>2, <3>2 DEF TypeOK
    <3> QED BY <3>1, <3>2
  <2> QED BY <2>1, <2>3 DEF TypeOK, lock
<1>7. CASE UNCHANGED vars
  BY <1>7 DEF TypeOK, vars, bucket, lock, worker
<1> QED BY <1>1, <1>2, <1>3, <1>4, <1>5, <1>6, <1>7 DEF Next, CleanSteps, Removal

(* Every reachable state is well typed, in particular the times left and the ages. *)
THEOREM TypeCorrect == Spec => []TypeOK
<1> QED BY InitType, TypeStep, PTL DEF Spec

-----------------------------------------------------------------------------
(* The lock.  A worker that wrote the lock in this request wrote it at most
   age[w] ago, so what is left of the lock is at least Ttl - age[w]. *)
AgeOK  == age \in [Workers -> 0 .. Timeout] /\ pc \in [Workers -> PC]
LeftOK == data \in 0 .. Ttl /\ statusLeft \in 0 .. Ttl

HeldBy(w) ==
  /\ pc[w] = "block_status" => data >= Ttl - age[w]
  /\ pc[w] \in Cleaning /\ owner = w =>
       /\ data >= Ttl - age[w] /\ statusLeft >= Ttl - age[w]
       /\ status = "blocked for editing"
  /\ pc[w] \in {"get_status", "block_data", "block_status"} => owner # w

LockInv == AgeOK /\ LeftOK /\ \A w \in Workers : HeldBy(w)

(* Answering a request, or moving on in it, keeps ages and labels in range. *)
LEMMA AgeKept ==
  ASSUME AgeOK, NEW w \in Workers, NEW label \in PC, Leave(w) \/ Move(w, label)
  PROVE  AgeOK'
BY BoundsAssumption DEF AgeOK, Leave, Move, Goto, PC

LEMMA LockInvInit == Init => LockInv
  BY BoundsAssumption, SwitchAssumption
  DEF Init, LockInv, AgeOK, LeftOK, HeldBy, Cleaning, PC

LEMMA LockInvStep == LockInv /\ [Next]_vars => LockInv'
<1> SUFFICES ASSUME LockInv, [Next]_vars PROVE LockInv'
  OBVIOUS
<1>1. CASE FileSteps \/ MonthsPass
  <2>0. UNCHANGED <<data, status, statusLeft, owner, pc, age>>
    BY <1>1 DEF FileSteps, MonthsPass, Upload, DeleteFile, Rollback, DeleteVersion, worker, lock
  <2>1. AgeOK' /\ LeftOK'
    BY <2>0 DEF LockInv, AgeOK, LeftOK
  <2>2. ASSUME NEW w \in Workers PROVE HeldBy(w)'
    BY <2>0 DEF LockInv, HeldBy
  <2> QED BY <2>1, <2>2 DEF LockInv
<1>2. CASE Tick
  <2>1. AgeOK'
    BY <1>2, BoundsAssumption DEF Tick, LockInv, AgeOK
  <2>2. LeftOK'
    BY <1>2, BoundsAssumption DEF Tick, LockInv, LeftOK
  <2>3. ASSUME NEW w \in Workers PROVE HeldBy(w)'
    <3>1. CASE pc[w] = "idle"
      BY <1>2, <3>1 DEF Tick, HeldBy, Cleaning
    <3>2. CASE pc[w] # "idle"
      <4>1. age[w] \in Nat /\ age[w] < Timeout /\ age'[w] = age[w] + 1
        BY <1>2, <3>2 DEF Tick, LockInv, AgeOK
      <4>2. data \in Nat /\ statusLeft \in Nat
        BY BoundsAssumption DEF LockInv, LeftOK
      <4>3. data >= Ttl - age[w] => data' >= Ttl - age'[w]
        BY <1>2, <4>1, <4>2, BoundsAssumption DEF Tick
      <4>4. statusLeft >= Ttl - age[w] => statusLeft' >= Ttl - age'[w] /\ status' = status
        BY <1>2, <4>1, <4>2, BoundsAssumption DEF Tick
      <4> QED BY <1>2, <4>3, <4>4 DEF Tick, HeldBy, LockInv
    <3> QED BY <3>1, <3>2
  <2> QED BY <2>1, <2>2, <2>3 DEF LockInv
<1>3. ASSUME NEW w \in Workers, GetData(w) \/ GetStatus(w) PROVE LockInv'
  <2>1. AgeOK'
    BY <1>3, AgeKept DEF LockInv, GetData, GetStatus, PC
  <2>3. LeftOK'
    BY <1>3 DEF LockInv, LeftOK, GetData, GetStatus, lock
  <2>2. ASSUME NEW v \in Workers PROVE HeldBy(v)'
    BY <1>3, SwitchAssumption DEF LockInv, AgeOK, HeldBy, GetData, GetStatus, Move, Leave, Goto, lock, PC, Cleaning
  <2> QED BY <2>1, <2>2, <2>3 DEF LockInv
<1>4. ASSUME NEW w \in Workers, BlockData(w) \/ OkData(w) \/ ErrorData(w) PROVE LockInv'
  <2>1. AgeOK'
    BY <1>4 DEF LockInv, AgeOK, BlockData, OkData, ErrorData, SetData, Move, Goto, PC, Cleaning
  <2>2. LeftOK' /\ data' = Ttl
    BY <1>4, BoundsAssumption DEF LockInv, LeftOK, BlockData, OkData, ErrorData, SetData, Move, Goto
  <2>3. ASSUME NEW v \in Workers PROVE HeldBy(v)'
    <3>1. age'[v] \in Nat
      BY <2>1 DEF AgeOK
    <3>2. data' >= Ttl - age'[v]
      BY <2>2, <3>1, BoundsAssumption
    <3> QED
      BY <1>4, <3>2 DEF LockInv, AgeOK, HeldBy, BlockData, OkData, ErrorData, SetData, Move, Goto, Cleaning
  <2> QED BY <2>1, <2>2, <2>3 DEF LockInv
<1>5. ASSUME NEW w \in Workers, BlockStatus(w) PROVE LockInv'
  <2>1. AgeOK'
    BY <1>5 DEF LockInv, AgeOK, BlockStatus, SetStatus, Move, Goto, PC, Cleaning
  <2>2. LeftOK' /\ statusLeft' = Ttl
    <3>1. statusLeft' = Ttl /\ data' = data
      BY <1>5 DEF BlockStatus, SetStatus
    <3> QED BY <3>1, BoundsAssumption DEF LockInv, LeftOK
  <2>3. ASSUME NEW v \in Workers PROVE HeldBy(v)'
    <3>1. age'[v] \in Nat
      BY <2>1 DEF AgeOK
    <3>2. statusLeft' >= Ttl - age'[v]
      BY <2>2, <3>1, BoundsAssumption
    <3>3. CASE v = w
      BY <1>5, <3>2, <3>3 DEF LockInv, AgeOK, HeldBy, BlockStatus, SetStatus, Move, Goto, Cleaning
    <3>4. CASE v # w
      BY <1>5, <3>4 DEF LockInv, AgeOK, HeldBy, BlockStatus, SetStatus, Move, Goto, Cleaning
    <3> QED BY <3>3, <3>4
  <2> QED BY <2>1, <2>2, <2>3 DEF LockInv
<1>6. ASSUME NEW w \in Workers, OkStatus(w) \/ ErrorStatus(w) PROVE LockInv'
  <2>1. AgeOK'
    BY <1>6, AgeKept DEF LockInv, OkStatus, ErrorStatus, PC
  <2>2. LeftOK'
    <3>1. statusLeft' = Ttl /\ data' = data
      BY <1>6 DEF OkStatus, ErrorStatus, SetStatus
    <3> QED BY <3>1, BoundsAssumption DEF LockInv, LeftOK
  <2>3. ASSUME NEW v \in Workers PROVE HeldBy(v)'
    <3>1. CASE v = w
      BY <1>6, <3>1 DEF LockInv, AgeOK, HeldBy, OkStatus, ErrorStatus, SetStatus, Leave, Goto, Cleaning
    <3>2. CASE v # w
      BY <1>6, <3>2 DEF LockInv, AgeOK, HeldBy, OkStatus, ErrorStatus, SetStatus, Leave, Goto, Cleaning
    <3> QED BY <3>1, <3>2
  <2> QED BY <2>1, <2>2, <2>3 DEF LockInv
<1>7. ASSUME NEW w \in Workers, SaveFails(w) \/ Kill(w) \/ CleanFails(w)
      PROVE LockInv'
  <2>1. AgeOK' /\ LeftOK'
    BY <1>7, BoundsAssumption
    DEF LockInv, AgeOK, LeftOK, SaveFails, Kill, CleanFails, Leave, Move, Goto, lock, PC, Cleaning
  <2>2. ASSUME NEW v \in Workers PROVE HeldBy(v)'
    BY <1>7
    DEF LockInv, AgeOK, HeldBy, SaveFails, Kill, CleanFails, Leave, Move, Goto, lock, Cleaning
  <2> QED BY <2>1, <2>2 DEF LockInv
<1>8. ASSUME NEW w \in Workers,
             PrepareItems(w) \/ OldDone(w) \/ DoublesDone(w) \/ FileOldList(w)
      PROVE LockInv'
  <2>1. AgeOK' /\ LeftOK'
    BY <1>8
    DEF LockInv, AgeOK, LeftOK, PrepareItems, OldDone, DoublesDone, FileOldList, Move, Goto, lock, PC, Cleaning
  <2>2. ASSUME NEW v \in Workers PROVE HeldBy(v)'
    BY <1>8
    DEF LockInv, AgeOK, HeldBy, PrepareItems, OldDone, DoublesDone, FileOldList, Move, Goto, lock, Cleaning
  <2> QED BY <2>1, <2>2 DEF LockInv
<1>9. CASE Removal
  <2>1. AgeOK' /\ LeftOK'
    BY <1>9, BoundsAssumption
    DEF LockInv, AgeOK, LeftOK, Removal, FileOldRemove, RemoveOld, RemoveDouble, Leave, Goto, lock, PC
  <2>2. ASSUME NEW v \in Workers PROVE HeldBy(v)'
    BY <1>9
    DEF LockInv, AgeOK, HeldBy, Removal, FileOldRemove, RemoveOld, RemoveDouble, Leave, Goto, lock, Cleaning
  <2> QED BY <2>1, <2>2 DEF LockInv
<1>10. CASE UNCHANGED vars
  BY <1>10 DEF vars, worker, lock, LockInv, AgeOK, LeftOK, HeldBy
<1> QED
  BY <1>1, <1>2, <1>3, <1>4, <1>5, <1>6, <1>7, <1>8, <1>9, <1>10 DEF Next, RedisSteps, CleanSteps

(* The lock in Redis outlives the cleaning that wrote it last: it is kept for
   120 s and the worker is killed after 90 s, wherever it is. *)
THEOREM LockOutlivesCleaningAlways == Spec => []LockOutlivesCleaning
<1>1. LockInv => LockOutlivesCleaning
  <2> SUFFICES ASSUME LockInv, NEW w \in Workers, pc[w] \in Cleaning, owner = w PROVE Blocked
    BY DEF LockOutlivesCleaning
  <2>1. age[w] \in 0 .. Timeout
    BY DEF LockInv, AgeOK
  <2>2. LeftOK
    BY DEF LockInv
  <2>3. data >= Ttl - age[w]
    BY DEF LockInv, HeldBy
  <2>4. data > 0
    BY <2>1, <2>2, <2>3, BoundsAssumption DEF LeftOK
  <2>5. status = "blocked for editing"
    BY DEF LockInv, HeldBy
  <2> QED BY <2>4, <2>5 DEF Blocked
<1> QED
  BY LockInvInit, LockInvStep, <1>1, PTL DEF Spec

-----------------------------------------------------------------------------
(* Retention.  Whatever a worker has still to remove is old or has more than
   Keep younger versions, and is not the youngest ever created. *)
Listed ==
  \A w \in Workers :
    /\ \A v \in todoOld[w] : v <= cutoff /\ v < last
    /\ \A v \in todoDoubles[w] : last - v > Keep

Bounds ==
  /\ last \in 0 .. MaxVersion /\ cutoff \in Nat /\ alive \subseteq 1 .. last
  /\ todoOld \in [Workers -> SUBSET Versions] /\ todoDoubles \in [Workers -> SUBSET Versions]

RetentionInv == Bounds /\ Listed /\ RetentionRespected

(* remove_doubles keeps VERSION_STORE_COUNT versions besides the current one: a
   version it selects has more than that many younger versions. *)
LEMMA DoublesHaveYounger ==
  ASSUME NEW n \in Nat, NEW V, \A u \in V : u \in 1 .. n - 1, NEW v \in Doubles(V)
  PROVE  n - v > Keep
<1> DEFINE Y == {u \in V : u > v}
<1>1. v \in 1 .. n - 1 /\ Cardinality(Y) >= Keep
  BY DEF Doubles
<1>2. Y \subseteq (v + 1) .. (n - 1)
  BY <1>1
<1>3. /\ IsFiniteSet((v + 1) .. (n - 1))
      /\ Cardinality((v + 1) .. (n - 1)) = n - 1 - v
  <2>1. v + 1 \in Int /\ n - 1 \in Int /\ v <= n - 1 /\ v \in Int
    BY <1>1
  <2>2. IsFiniteSet((v + 1) .. (n - 1)) /\
        Cardinality((v + 1) .. (n - 1)) = IF v + 1 > n - 1 THEN 0 ELSE (n - 1) - (v + 1) + 1
    BY <2>1, FS_Interval
  <2> QED BY <2>1, <2>2
<1>4. IsFiniteSet(Y) /\ Cardinality(Y) <= n - 1 - v
  BY <1>2, <1>3, FS_Subset
<1>5. Cardinality(Y) \in Nat
  BY <1>4, FS_CardinalityType
<1> QED
  BY <1>1, <1>4, <1>5, BoundsAssumption

LEMMA NoncurrentBelowLast ==
  ASSUME Bounds, NEW v \in Noncurrent
  PROVE  v \in 1 .. last - 1
BY BoundsAssumption DEF Bounds, Noncurrent

LEMMA RetentionInvInit == Init => RetentionInv
  BY BoundsAssumption DEF Init, RetentionInv, Bounds, Listed, RetentionRespected

LEMMA RetentionInvStep == RetentionInv /\ [Next]_vars => RetentionInv'
<1> SUFFICES ASSUME RetentionInv, [Next]_vars PROVE RetentionInv'
  OBVIOUS
<1> USE BoundsAssumption DEF RetentionInv, Bounds, Listed, RetentionRespected, Versions
<1>1. CASE FileSteps
  <2>1. CASE Upload \/ DeleteFile \/ \E v \in Versions : Rollback(v)
    <3>1. /\ last' = last + 1 /\ last < MaxVersion /\ alive' = alive \cup {last + 1}
          /\ UNCHANGED <<cutoff, dropped, todoOld, todoDoubles>>
      BY <2>1 DEF Upload, DeleteFile, Rollback, NewVersion, worker
    <3> QED BY <3>1
  <2>2. ASSUME NEW v \in Versions, DeleteVersion(v) PROVE RetentionInv'
    BY <2>2 DEF DeleteVersion, worker
  <2> QED BY <1>1, <2>1, <2>2 DEF FileSteps
<1>2. CASE MonthsPass
  BY <1>2 DEF MonthsPass, worker
<1>3. ASSUME NEW w \in Workers, Leave(w), UNCHANGED bucket PROVE RetentionInv'
  BY <1>3 DEF Leave, bucket
<1>4. ASSUME UNCHANGED <<bucket, todoOld, todoDoubles>> PROVE RetentionInv'
  BY <1>4 DEF bucket
<1>5. ASSUME NEW w \in Workers, FileOldList(w) PROVE RetentionInv'
  <2>1. \A v \in Old(Noncurrent) : v \in Versions /\ v <= cutoff /\ v < last
    BY NoncurrentBelowLast DEF Old
  <2> QED BY <1>5, <2>1 DEF FileOldList, bucket
<1>6. ASSUME NEW w \in Workers, PrepareItems(w) PROVE RetentionInv'
  <2>1. \A v \in Noncurrent : v \in 1 .. last - 1
    BY NoncurrentBelowLast
  <2>2. \A v \in Old(Noncurrent) : v \in Versions /\ v <= cutoff /\ v < last
    BY <2>1 DEF Old
  <2>3. \A v \in Doubles(Noncurrent) : v \in Versions /\ last - v > Keep
    BY <2>1, DoublesHaveYounger DEF Doubles
  <2> QED BY <1>6, <2>2, <2>3 DEF PrepareItems, bucket
<1>7. CASE Removal
  <2>1. PICK w \in Workers, v \in Versions :
          FileOldRemove(w, v) \/ RemoveOld(w, v) \/ RemoveDouble(w, v)
    BY <1>7 DEF Removal
  <2>2. /\ alive' = alive \ {v}
        /\ v <= cutoff \/ last - v > Keep
        /\ UNCHANGED <<last, cutoff, dropped>>
    BY <2>1 DEF FileOldRemove, RemoveOld, RemoveDouble, RemoveNext, Youngest
  <2>3. /\ \A x \in Workers : todoOld'[x] \subseteq todoOld[x] /\ todoDoubles'[x] \subseteq todoDoubles[x]
        /\ todoOld' \in [Workers -> SUBSET Versions] /\ todoDoubles' \in [Workers -> SUBSET Versions]
    BY <2>1 DEF FileOldRemove, RemoveOld, RemoveDouble, Leave
  <2> QED BY <2>2, <2>3
<1> QED
  BY <1>1, <1>2, <1>3, <1>4, <1>5, <1>6, <1>7
  DEF Next, vars, worker, RedisSteps, CleanSteps, GetData, GetStatus, BlockData, BlockStatus,
      OkData, OkStatus, ErrorData, ErrorStatus, SetData, SetStatus, SaveFails, OldDone,
      DoublesDone, CleanFails, Kill, Tick, Move

(* clean_versions and remove_old_versions take away nothing but versions that
   are past the storage period or have VERSION_STORE_COUNT younger versions besides
   the current one, at any interleaving with uploads, deletes, rollbacks, other
   cleanings and kills. *)
THEOREM RetentionRespectedAlways == Spec => []RetentionRespected
<1>1. RetentionInv => RetentionRespected
  BY DEF RetentionInv
<1> QED
  BY RetentionInvInit, RetentionInvStep, <1>1, PTL DEF Spec

-----------------------------------------------------------------------------
(* A version on a worker's list stays superseded: the younger version that made
   it noncurrent is still there, was removed for a younger one, or was deleted by
   its id. *)
Covered(v) == \E u \in alive \cup dropped : u > v

Superseded ==
  /\ dropped \subseteq Nat
  /\ \A w \in Workers : \A v \in todoOld[w] \cup todoDoubles[w] : Covered(v)

LEMMA RemovedWasListed ==
  ASSUME RetentionInv, NEW w \in Workers, NEW v \in Versions,
         FileOldRemove(w, v) \/ RemoveOld(w, v) \/ RemoveDouble(w, v)
  PROVE  /\ v \in todoOld[w] \cup todoDoubles[w]
         /\ alive' = alive \ {v} /\ dropped' = dropped
         /\ \A x \in Workers : todoOld'[x] \subseteq todoOld[x] /\ todoDoubles'[x] \subseteq todoDoubles[x]
BY DEF RetentionInv, Bounds, FileOldRemove, RemoveOld, RemoveDouble, RemoveNext, Youngest, Leave

LEMMA SupersededStep == RetentionInv /\ Superseded /\ [Next]_vars => Superseded'
<1> SUFFICES ASSUME RetentionInv, Superseded, [Next]_vars PROVE Superseded'
  OBVIOUS
<1>1. alive \subseteq Nat /\ todoOld \in [Workers -> SUBSET Versions]
      /\ todoDoubles \in [Workers -> SUBSET Versions] /\ Versions \subseteq Nat
  BY BoundsAssumption DEF RetentionInv, Bounds, Versions
<1>2. CASE FileSteps
  <2>1. alive \cup dropped \subseteq alive' \cup dropped' /\ dropped' \subseteq Nat
        /\ UNCHANGED <<todoOld, todoDoubles>>
    BY <1>1, <1>2
    DEF FileSteps, Upload, DeleteFile, Rollback, DeleteVersion, NewVersion, worker, Superseded
  <2> QED BY <2>1 DEF Superseded, Covered
<1>3. CASE Removal
  <2>1. PICK w \in Workers, v \in Versions :
          FileOldRemove(w, v) \/ RemoveOld(w, v) \/ RemoveDouble(w, v)
    BY <1>3 DEF Removal
  <2>2. PICK u \in alive \cup dropped : u > v
    BY <2>1, RemovedWasListed DEF Superseded, Covered
  <2>3. SUFFICES ASSUME NEW x \in Workers, NEW y \in todoOld[x] \cup todoDoubles[x]
                 PROVE  \E t \in (alive \ {v}) \cup dropped : t > y
    BY <2>1, RemovedWasListed DEF Superseded, Covered
  <2>4. PICK t \in alive \cup dropped : t > y
    BY DEF Superseded, Covered
  <2>5. y \in Nat /\ v \in Nat /\ u \in Nat /\ t \in Nat
    BY <1>1 DEF Superseded
  <2> QED BY <2>2, <2>4, <2>5
<1>4. ASSUME NEW w \in Workers, FileOldList(w) \/ PrepareItems(w) PROVE Superseded'
  <2>1. \A v \in Noncurrent : Covered(v)
    BY DEF Noncurrent, Covered
  <2>2. /\ \A x \in Workers : todoOld'[x] \subseteq todoOld[x] \cup Noncurrent
        /\ \A x \in Workers : todoDoubles'[x] \subseteq todoDoubles[x] \cup Noncurrent
        /\ alive' = alive /\ dropped' = dropped
    BY <1>1, <1>4 DEF FileOldList, PrepareItems, Old, Doubles, bucket
  <2> QED BY <2>1, <2>2 DEF Superseded, Covered
<1>5. ASSUME NEW w \in Workers, Leave(w), UNCHANGED bucket PROVE Superseded'
  BY <1>1, <1>5 DEF Leave, bucket, Superseded, Covered
<1>6. CASE UNCHANGED <<alive, dropped, todoOld, todoDoubles>>
  BY <1>6 DEF Superseded, Covered
<1> QED
  BY <1>2, <1>3, <1>4, <1>5, <1>6
  DEF Next, MonthsPass, vars, bucket, worker, RedisSteps, CleanSteps, GetData, GetStatus, BlockData,
      BlockStatus, OkData, OkStatus, ErrorData, ErrorStatus, SetData, SetStatus, SaveFails, OldDone,
      DoublesDone, CleanFails, Kill, Tick, Move

(* No removal by age or by count takes the current version of a file, however late
   it comes after its listing, unless a client has deleted a younger version. *)
THEOREM CurrentSurvives == Spec => CurrentSurvivesCleaning
<1>1. Init => Superseded
  BY DEF Init, Superseded
<1>2. RetentionInv /\ Superseded /\ [Next]_vars => [CurrentKept]_vars
  <2> SUFFICES ASSUME RetentionInv, Superseded, Removal,
                      NEW c \in alive, Youngest(c, alive), \A u \in dropped : u < c
               PROVE  c \in alive'
    BY DEF CurrentKept
  <2>1. PICK w \in Workers, v \in Versions :
          FileOldRemove(w, v) \/ RemoveOld(w, v) \/ RemoveDouble(w, v)
    BY DEF Removal
  <2>2. alive' = alive \ {v}
    BY <2>1, RemovedWasListed
  <2>3. PICK u \in alive \cup dropped : u > v
    BY <2>1, RemovedWasListed DEF Superseded, Covered
  <2>4. u <= c
    <3>1. CASE u \in alive
      BY <3>1 DEF Youngest
    <3>2. CASE u \in dropped
      <4>1. u \in Nat /\ c \in Nat /\ u < c
        BY <3>2, BoundsAssumption DEF Superseded, RetentionInv, Bounds
      <4> QED BY <4>1
    <3> QED BY <3>1, <3>2
  <2>5. u \in Nat /\ c \in Nat /\ v \in Nat
    BY BoundsAssumption DEF Superseded, RetentionInv, Bounds, Versions
  <2> QED BY <2>2, <2>3, <2>4, <2>5
<1> QED
  BY RetentionInvInit, RetentionInvStep, SupersededStep, <1>1, <1>2, PTL
  DEF Spec, CurrentSurvivesCleaning
=============================================================================
