-------------------------- MODULE TransitCacheProofs --------------------------
(***************************************************************************)
(* Theorems about TransitCache, for every number of workers and messages,  *)
(* every choice of operations and every fault.  What a fault or a deletion *)
(* may have done to an entry is in the history variable forgotten, and the *)
(* properties say what holds of the other messages.  The last part proves  *)
(* that every command does what MessageLog promises of its message.        *)
(***************************************************************************)
EXTENDS TransitCache, TLAPS

LEMMA TypeInit == Init => TypeOK
  BY SwitchAssumption, HashAssumption DEF Init, TypeOK, Keys, Statuses, PC

(* One more start stays within the bound of the model. *)
LEMMA StartTyped ==
  ASSUME TypeOK, NEW w \in Workers, Start(w)
  PROVE  starts' \in [Messages -> 0 .. MaxPosts]
<1> DEFINE g == [x \in Messages |-> IF x = message[w] THEN starts[x] + 1 ELSE starts[x]]
<1>1. ASSUME NEW x \in Messages PROVE g[x] \in 0 .. MaxPosts
  BY SwitchAssumption DEF TypeOK, Start
<1>2. starts' = g
  BY DEF TypeOK, Start
<1> QED BY <1>1, <1>2

(* A worker that goes on, or leaves, stays well typed. *)
LEMMA LeaveTyped ==
  ASSUME TypeOK, NEW w \in Workers, Leave(w) \/ AfterSave(w)
  PROVE  /\ pc' \in [Workers -> PC] /\ key' \in [Workers -> Keys \cup {NoHash}]
         /\ value' \in [Workers -> Statuses] /\ message' \in [Workers -> Messages \cup {NoHash}]
         /\ todo' \in [Workers -> SUBSET Keys]
  BY DEF TypeOK, Leave, AfterSave, Goto, PC, Statuses, request

LEMMA TypeStep == TypeOK /\ [Next]_vars => TypeOK'
<1> SUFFICES ASSUME TypeOK, [Next]_vars PROVE TypeOK'
  OBVIOUS
<1> USE SwitchAssumption DEF TypeOK, Keys, Statuses, PC, Goto, Continues, Forget
<1>0. ASSUME NEW w \in Workers, NEW m \in Messages, NEW op, Accepts(w, m, op)
      PROVE  /\ message' \in [Workers -> Messages \cup {NoHash}]
             /\ overlapped' \subseteq Messages /\ UNCHANGED namespace
  BY <1>0 DEF Accepts
<1>1. ASSUME NEW w \in Workers, NEW m \in Messages, TransitGetData(w, m) PROVE TypeOK'
  <2>1. /\ message' \in [Workers -> Messages \cup {NoHash}]
        /\ overlapped' \subseteq Messages /\ UNCHANGED namespace
    BY <1>0, <1>1, Zenon DEF TransitGetData
  <2>2. forgotten' \subseteq Messages /\ pc' \in [Workers -> PC] /\ key' \in [Workers -> Keys \cup {NoHash}]
    BY <1>1 DEF TransitGetData
  <2>3. UNCHANGED <<redis, starts, value, todo>>
    BY <1>1 DEF TransitGetData
  <2> QED BY <2>1, <2>2, <2>3 DEF redis
<1>2. ASSUME NEW w \in Workers, NEW m \in Messages, PimSend(w, m) \/ ResendGetData(w, m) PROVE TypeOK'
  <2>1. /\ message' \in [Workers -> Messages \cup {NoHash}]
        /\ overlapped' \subseteq Messages /\ UNCHANGED namespace
    BY <1>0, <1>2, Zenon DEF PimSend, ResendGetData
  <2>2. pc' \in [Workers -> PC] /\ key' \in [Workers -> Keys \cup {NoHash}] /\ value' \in [Workers -> Statuses]
    <3>1. CASE PimSend(w, m)
      BY <3>1 DEF PimSend
    <3>2. CASE ResendGetData(w, m)
      BY <3>2 DEF ResendGetData, ResendKey, redis
    <3> QED BY <1>2, <3>1, <3>2
  <2>3. UNCHANGED <<redis, starts, todo, forgotten>>
    BY <1>2 DEF PimSend, ResendGetData
  <2> QED BY <2>1, <2>2, <2>3 DEF redis
<1>3. ASSUME NEW w \in Workers, NEW m \in Messages, DeleteData(w, m) PROVE TypeOK'
  <2>1. /\ message' \in [Workers -> Messages \cup {NoHash}]
        /\ overlapped' \subseteq Messages /\ UNCHANGED namespace
    BY <1>0, <1>3, Zenon DEF DeleteData
  <2>2. /\ pc' \in [Workers -> PC] /\ key' \in [Workers -> Keys \cup {NoHash}]
        /\ data' \in [Keys -> BOOLEAN] /\ forgotten' \subseteq Messages
        /\ UNCHANGED <<status, starts, value, todo>>
    BY <1>3 DEF DeleteData
  <2> QED BY <2>1, <2>2
<1>4. ASSUME NEW w \in Workers,
             TransitRefuse(w) \/ ProduceFails(w) \/ ResendRaises(w) \/ DeleteAllEnds(w) \/ Crash(w)
      PROVE  TypeOK'
  <2>1. Leave(w) /\ UNCHANGED <<namespace, redis, overlapped>> /\ (UNCHANGED starts \/ Start(w))
    BY <1>4 DEF TransitRefuse, ProduceFails, ResendRaises, DeleteAllEnds, Crash
  <2>2. forgotten' \subseteq Messages
    BY <1>4 DEF TransitRefuse, ProduceFails, ResendRaises, DeleteAllEnds, Crash
  <2>3. starts' \in [Messages -> 0 .. MaxPosts]
    BY <2>1, StartTyped
  <2> HIDE DEF Keys, Statuses, PC, Goto, Continues, Forget
  <2> QED BY <2>1, <2>2, <2>3, LeaveTyped DEF redis
<1>5. ASSUME NEW w \in Workers, TransitStarted(w) \/ TransitFails(w) \/ Produced(w) PROVE TypeOK'
  <2>1. starts' \in [Messages -> 0 .. MaxPosts]
    BY <1>5, StartTyped DEF TransitStarted, TransitFails, Produced
  <2>2. Save(w, "Ok") \/ Save(w, "ServiceUnavailable")
    BY <1>5 DEF TransitStarted, TransitFails, Produced
  <2>3. UNCHANGED <<namespace, overlapped>>
    BY <1>5 DEF TransitStarted, TransitFails, Produced
  <2> QED BY <2>1, <2>2, <2>3 DEF Save, redis
<1>6. ASSUME NEW w \in Workers, ResendStarted(w) \/ ResendRejected(w) PROVE TypeOK'
  BY <1>6 DEF ResendStarted, ResendRejected, Save, redis
<1>7. ASSUME NEW w \in Workers, SaveData(w) PROVE TypeOK'
  BY <1>7 DEF SaveData, request
<1>8. ASSUME NEW w \in Workers, SaveStatus(w) \/ SaveFails(w) PROVE TypeOK'
  <2>1. /\ AfterSave(w) /\ UNCHANGED <<namespace, data, starts, overlapped>>
        /\ status' \in [Keys -> Statuses \cup {"none"}] /\ forgotten' \subseteq Messages
    BY <1>8 DEF SaveStatus, SaveFails, redis
  <2> HIDE DEF Keys, Statuses, PC, Goto, Continues, Forget
  <2> QED BY <2>1, LeaveTyped
<1>9. ASSUME NEW w \in Workers, DeleteStatus(w) PROVE TypeOK'
  <2>1. CASE pc[w] = "delete_status"
    BY <1>9, <2>1 DEF DeleteStatus, Leave
  <2>2. CASE pc[w] # "delete_status"
    BY <1>9, <2>2 DEF DeleteStatus, request
  <2> QED BY <2>1, <2>2
<1>10. ASSUME NEW w \in Workers, ListKeys(w) PROVE TypeOK'
  BY <1>10 DEF ListKeys, redis
<1>11. ASSUME NEW w \in Workers, NEW k \in Keys, DeleteNext(w, k) PROVE TypeOK'
  BY <1>11 DEF DeleteNext
<1>12. ASSUME NEW k \in Keys, Expire(k) PROVE TypeOK'
  <2>1. \/ data' = [data EXCEPT ![k] = FALSE] /\ UNCHANGED status
        \/ status' = [status EXCEPT ![k] = "none"] /\ UNCHANGED data
    BY <1>12 DEF Expire
  <2>2. data' \in [Keys -> BOOLEAN] /\ status' \in [Keys -> Statuses \cup {"none"}]
    BY <2>1
  <2> QED BY <1>12, <2>2 DEF Expire, request
<1>13. CASE UNCHANGED vars
  BY <1>13 DEF vars, redis, request, history
<1> QED
  BY <1>1, <1>2, <1>3, <1>4, <1>5, <1>6, <1>7, <1>8, <1>9, <1>10, <1>11, <1>12, <1>13 DEF Next

(* Every reachable state of the cache, the targets and the workers is well typed. *)
THEOREM TypeCorrect == Spec => []TypeOK
  BY TypeInit, TypeStep, PTL DEF Spec

-----------------------------------------------------------------------------
(* What a worker is doing is about its message, a status "Ok" on its way to the
   cache was earned, and whoever deletes a status has deleted the data. *)
About(w) ==
  /\ pc[w] \in {"get_status", "post"} =>
       message[w] \in Messages /\ key[w] = message[w] /\ namespace[message[w]] = "sum"
  /\ pc[w] \in {"mark_data", "mark_status", "produce"} =>
       message[w] \in Messages /\ key[w] = message[w] /\ namespace[message[w]] = "pim"
  /\ pc[w] = "resend_post" => message[w] \in Messages /\ key[w] \in Namespaces
  /\ pc[w] \in {"save_data", "save_status"} =>
       (key[w] = message[w] /\ message[w] \in Messages) \/ key[w] \in Namespaces
  /\ pc[w] \in {"delete_status", "delete_all_status"} => key[w] \in forgotten \cup Namespaces
  /\ pc[w] \in {"idle", "delete_all", "delete_all_status"} => message[w] = NoHash
Earned(w) ==
  /\ pc[w] \in {"mark_data", "mark_status"} => value[w] # "Ok"
  /\ pc[w] \in {"save_data", "save_status"} /\ value[w] = "Ok" =>
       key[w] \in Messages /\ starts[key[w]] > 0

AboutInv == TypeOK /\ \A w \in Workers : About(w) /\ Earned(w)

\* Only a sender counts a start, one at a time.
LEMMA StartsCount ==
  ASSUME TypeOK, [Next]_vars, NEW m \in Messages
  PROVE  \/ starts'[m] = starts[m]
         \/ \E w \in Workers : /\ pc[w] \in {"post", "produce"} /\ message[w] = m /\ pc'[w] # "post"
                               /\ starts'[m] = starts[m] + 1 /\ UNCHANGED redis
<1>1. ASSUME NEW w \in Workers, Start(w),
             TransitStarted(w) \/ TransitFails(w) \/ Produced(w) \/ ProduceFails(w)
      PROVE  \/ starts'[m] = starts[m]
             \/ /\ pc[w] \in {"post", "produce"} /\ message[w] = m /\ pc'[w] # "post"
                /\ starts'[m] = starts[m] + 1 /\ UNCHANGED redis
  BY <1>1 DEF Start, TypeOK, TransitStarted, TransitFails, Produced, ProduceFails, Continues, Save,
              Leave, Goto
<1>2. CASE starts' = starts
  BY <1>2
<1> QED
  BY <1>1, <1>2
  DEF Next, vars, TransitGetData, PimSend, ResendGetData, DeleteData, TransitRefuse, TransitStarted,
      TransitFails, Produced, ProduceFails, ResendStarted, ResendRejected, ResendRaises, SaveData,
      SaveStatus, SaveFails, DeleteStatus, ListKeys, DeleteAllEnds, DeleteNext, Crash, Expire

\* No step takes a start back.
LEMMA StartsGrow ==
  ASSUME TypeOK, [Next]_vars, NEW m \in Messages
  PROVE  starts'[m] >= starts[m]
<1> starts[m] \in Nat
  BY SwitchAssumption DEF TypeOK
<1> QED BY StartsCount

\* What is forgotten stays so.
LEMMA ForgottenGrows == [Next]_vars => forgotten \subseteq forgotten'
  BY DEF Next, vars, history, TransitGetData, PimSend, ResendGetData, DeleteData, TransitRefuse,
      TransitStarted, TransitFails, Produced, ProduceFails, ResendStarted, ResendRejected, ResendRaises,
      SaveData, SaveStatus, SaveFails, DeleteStatus, ListKeys, DeleteAllEnds, DeleteNext, Crash, Expire,
      Forget, Save

\* Nobody changes the direction of a message, and what has overlapped stays so.
LEMMA FixedNamespace == [Next]_vars => namespace' = namespace /\ overlapped \subseteq overlapped'
BY DEF Next, vars, history, TransitGetData, PimSend, ResendGetData, DeleteData, Accepts, TransitRefuse,
       TransitStarted, TransitFails, Produced, ProduceFails, ResendStarted, ResendRejected,
       ResendRaises, SaveData, SaveStatus, SaveFails, DeleteStatus, ListKeys, DeleteAllEnds,
       DeleteNext, Crash, Expire, Continues

LEMMA AboutStep == AboutInv /\ [Next]_vars => AboutInv'
<1> SUFFICES ASSUME AboutInv, [Next]_vars PROVE AboutInv'
  OBVIOUS
<1>0. /\ TypeOK /\ TypeOK' /\ forgotten \subseteq forgotten'
      /\ \A m \in Messages : starts[m] > 0 => starts'[m] > 0
  <2>1. TypeOK /\ TypeOK'
    BY TypeStep DEF AboutInv
  <2>2. ASSUME NEW m \in Messages, starts[m] > 0 PROVE starts'[m] > 0
    <3>1. starts[m] \in Nat /\ starts'[m] \in Nat
      BY <2>1, SwitchAssumption DEF TypeOK
    <3> QED BY <2>1, <2>2, <3>1, StartsGrow
  <2> QED BY <2>1, <2>2, ForgottenGrows
\* A worker that does nothing keeps what it had.
<1>00. ASSUME NEW w \in Workers, NEW v \in Workers \ {w}, namespace' = namespace,
              pc'[v] = pc[v], key'[v] = key[v], value'[v] = value[v], message'[v] = message[v]
       PROVE  About(v)' /\ Earned(v)'
  BY <1>0, <1>00 DEF AboutInv, About, Earned
<1> DEFINE Mine(w) ==
      /\ namespace' = namespace
      /\ \A v \in Workers \ {w} : /\ pc'[v] = pc[v] /\ key'[v] = key[v]
                                  /\ value'[v] = value[v] /\ message'[v] = message[v]
<1>01. ASSUME NEW w \in Workers, Mine(w), About(w)', Earned(w)' PROVE AboutInv'
  BY <1>0, <1>00, <1>01 DEF AboutInv
<1> USE <1>0, HashAssumption DEF TypeOK, AboutInv, About, Earned, Goto, Keys, Namespaces
<1>1. ASSUME NEW w \in Workers, NEW m \in Messages,
             TransitGetData(w, m) \/ PimSend(w, m) \/ ResendGetData(w, m) \/ DeleteData(w, m)
      PROVE  AboutInv'
  <2>1. /\ message' = [message EXCEPT ![w] = m] /\ namespace' = namespace
    BY <1>1, Zenon DEF TransitGetData, PimSend, ResendGetData, DeleteData, Accepts
  <2>2. Mine(w) /\ About(w)' /\ Earned(w)'
    <3>1. CASE TransitGetData(w, m)
      <4>1. pc' = [pc EXCEPT ![w] = "get_status"] \/ pc' = [pc EXCEPT ![w] = "post"]
        BY <3>1 DEF TransitGetData
      <4>2. key' = [key EXCEPT ![w] = m] /\ value' = value /\ namespace[m] = "sum"
        BY <3>1 DEF TransitGetData
      <4> QED BY <2>1, <4>1, <4>2
    <3>2. CASE PimSend(w, m)
      <4>1. /\ pc' = [pc EXCEPT ![w] = "mark_data"] /\ key' = [key EXCEPT ![w] = m]
            /\ value' = [value EXCEPT ![w] = "ServiceUnavailable"] /\ namespace[m] = "pim"
        BY <3>2 DEF PimSend
      <4>2. value'[w] # "Ok" /\ pc'[w] = "mark_data" /\ key'[w] = m /\ message'[w] = m
        BY <2>1, <4>1
      <4>3. Mine(w)
        BY <2>1, <4>1
      <4>4. About(w)' /\ Earned(w)'
        BY <2>1, <4>1, <4>2
      <4> QED BY <4>3, <4>4
    <3>3. CASE ResendGetData(w, m)
      <4>1. /\ pc' = [pc EXCEPT ![w] = "resend_post"] /\ key' = [key EXCEPT ![w] = namespace[m]]
            /\ value' = value
        BY <3>3 DEF ResendGetData, ResendKey
      <4> QED BY <2>1, <4>1
    <3>4. CASE DeleteData(w, m)
      <4>1. /\ pc' = [pc EXCEPT ![w] = "delete_status"] /\ key' = [key EXCEPT ![w] = m]
            /\ value' = value /\ m \in forgotten'
        BY <3>4 DEF DeleteData, Forget
      <4> QED BY <2>1, <4>1
    <3> QED BY <1>1, <3>1, <3>2, <3>3, <3>4
  <2> QED BY <1>01, <2>2
<1>2. ASSUME NEW w \in Workers,
             \/ Leave(w) /\ namespace' = namespace
             \/ AfterSave(w) /\ namespace' = namespace
      PROVE  AboutInv'
  <2>1. Mine(w)
    BY <1>2 DEF AfterSave, Leave, request
  <2>2. About(w)' /\ Earned(w)'
    BY <1>2 DEF AfterSave, Leave, request
  <2> QED BY <1>01, <2>1, <2>2
<1>3. ASSUME NEW w \in Workers, TransitStarted(w) \/ Produced(w) PROVE AboutInv'
  <2>1. message[w] \in Messages /\ key[w] = message[w] /\ starts'[message[w]] > 0
    BY <1>3, SwitchAssumption DEF TransitStarted, Produced, Start, Continues
  <2>2. pc' = [pc EXCEPT ![w] = "save_data"] /\ UNCHANGED <<namespace, key, message>>
        /\ value' = [value EXCEPT ![w] = "Ok"]
    BY <1>3 DEF TransitStarted, Produced, Save, Continues
  <2> QED BY <1>01, <2>1, <2>2
<1>4. ASSUME NEW w \in Workers, TransitFails(w) \/ ResendStarted(w) \/ ResendRejected(w) PROVE AboutInv'
  <2>1. PICK s \in {"ResentManually", "ServiceUnavailable"} : Save(w, s)
    BY <1>4 DEF TransitFails, ResendStarted, ResendRejected
  <2>2. pc[w] \in {"post", "resend_post"} /\ namespace' = namespace
    BY <1>4 DEF TransitFails, ResendStarted, ResendRejected, Continues
  <2>3. /\ pc' = [pc EXCEPT ![w] = "save_data"] /\ UNCHANGED <<key, message>>
        /\ value' = [value EXCEPT ![w] = s] /\ s # "Ok"
    BY <2>1 DEF Save
  <2>4. value'[w] # "Ok" /\ pc'[w] = "save_data"
    BY <2>3
  <2>5. Mine(w)
    BY <2>2, <2>3
  <2>6. About(w)' /\ Earned(w)'
    BY <2>2, <2>3, <2>4
  <2> QED BY <1>01, <2>5, <2>6
<1>5. ASSUME NEW w \in Workers, SaveData(w) PROVE AboutInv'
  <2>1. /\ UNCHANGED <<namespace, key, message, value>>
        /\ \/ pc[w] = "mark_data" /\ pc' = [pc EXCEPT ![w] = "mark_status"]
           \/ pc[w] = "save_data" /\ pc' = [pc EXCEPT ![w] = "save_status"]
    BY <1>5 DEF SaveData, request, Continues
  <2> QED BY <1>01, <2>1
<1>6. ASSUME NEW w \in Workers, ListKeys(w) PROVE AboutInv'
  <2>1. /\ UNCHANGED <<namespace, key, message, value>> /\ pc' = [pc EXCEPT ![w] = "delete_all"]
        /\ message[w] = NoHash
    BY <1>6 DEF ListKeys, Continues
  <2> QED BY <1>01, <2>1
<1>7. ASSUME NEW w \in Workers, NEW k \in Keys, DeleteNext(w, k) PROVE AboutInv'
  <2>1. /\ UNCHANGED <<namespace, message, value>> /\ pc' = [pc EXCEPT ![w] = "delete_all_status"]
        /\ key' = [key EXCEPT ![w] = k] /\ k \in forgotten' \cup Namespaces /\ message[w] = NoHash
    BY <1>7 DEF DeleteNext, Continues, Forget
  <2> QED BY <1>01, <2>1
<1>8. ASSUME NEW w \in Workers, DeleteStatus(w), ~Leave(w) PROVE AboutInv'
  <2>1. /\ UNCHANGED <<namespace, key, message, value>> /\ pc' = [pc EXCEPT ![w] = "delete_all"]
        /\ message[w] = NoHash
    BY <1>8 DEF DeleteStatus, Continues, request
  <2> QED BY <1>01, <2>1
<1>9. CASE UNCHANGED <<namespace, pc, request>>
  BY <1>9 DEF request
<1> HIDE DEF TypeOK, AboutInv, About, Earned, Goto, Keys, Namespaces, Mine
<1> QED
  BY <1>1, <1>2, <1>3, <1>4, <1>5, <1>6, <1>7, <1>8, <1>9
  DEF Next, vars, TransitRefuse, ProduceFails, ResendRaises, DeleteAllEnds, Crash, SaveStatus,
      SaveFails, DeleteStatus, Expire, Continues

LEMMA AboutInit == Init => AboutInv
  BY TypeInit DEF Init, AboutInv, About, Earned

-----------------------------------------------------------------------------
(* What an action does to the two keys of an entry. *)
StatusNext(w, m) == pc[w] \in {"mark_status", "save_status"} /\ key[w] = m

LEMMA CacheSteps ==
  ASSUME AboutInv, [Next]_vars, NEW m \in Messages \ forgotten'
  PROVE  \/ /\ data'[m] = data[m] /\ status'[m] = status[m]
            /\ \A w \in Workers : StatusNext(w, m)' <=> StatusNext(w, m)
         \/ \E w \in Workers : SaveData(w) /\ key[w] = m
         \/ \E w \in Workers : SaveStatus(w) /\ key[w] = m
<1> USE HashAssumption DEF AboutInv, About, TypeOK, Continues, Forget, Goto, Keys, StatusNext
<1> DEFINE Kept == /\ data'[m] = data[m] /\ status'[m] = status[m]
                   /\ \A w \in Workers : StatusNext(w, m)' <=> StatusNext(w, m)
<1>1. ASSUME NEW w \in Workers, NEW n \in Messages,
             TransitGetData(w, n) \/ PimSend(w, n) \/ ResendGetData(w, n) PROVE Kept
  <2>1. /\ ~StatusNext(w, m) /\ ~StatusNext(w, m)' /\ UNCHANGED redis
        /\ \A v \in Workers \ {w} : pc'[v] = pc[v] /\ key'[v] = key[v]
    BY <1>1 DEF TransitGetData, PimSend, ResendGetData, Accepts
  <2> QED BY <2>1 DEF redis
<1>2. ASSUME NEW w \in Workers, NEW n \in Messages, DeleteData(w, n) PROVE Kept
  BY <1>2 DEF DeleteData, Accepts
<1>3. ASSUME NEW w \in Workers,
             \/ TransitRefuse(w) \/ TransitStarted(w) \/ TransitFails(w) \/ Produced(w) \/ ProduceFails(w)
             \/ ResendStarted(w) \/ ResendRejected(w) \/ ResendRaises(w) \/ DeleteAllEnds(w) \/ ListKeys(w)
      PROVE  Kept
  <2>1. /\ ~StatusNext(w, m) /\ ~StatusNext(w, m)' /\ UNCHANGED redis
        /\ \A v \in Workers \ {w} : pc'[v] = pc[v] /\ key'[v] = key[v]
    BY <1>3 DEF TransitRefuse, TransitStarted, TransitFails, Produced, ProduceFails, ResendStarted,
                ResendRejected, ResendRaises, DeleteAllEnds, ListKeys, Leave, Save
  <2> QED BY <2>1 DEF redis
<1>4. ASSUME NEW w \in Workers, SaveFails(w) \/ Crash(w) PROVE Kept
  <2>1. /\ ~StatusNext(w, m) /\ ~StatusNext(w, m)' /\ UNCHANGED redis
        /\ \A v \in Workers \ {w} : pc'[v] = pc[v] /\ key'[v] = key[v]
    BY <1>4 DEF SaveFails, Crash, Leave, AfterSave, request
  <2> QED BY <2>1 DEF redis
<1>5. ASSUME NEW w \in Workers, SaveData(w), key[w] # m PROVE Kept
  BY <1>5 DEF SaveData, request
<1>6. ASSUME NEW w \in Workers, SaveStatus(w), key[w] # m PROVE Kept
  <2>1. /\ data' = data /\ status'[m] = status[m]
        /\ ~StatusNext(w, m) /\ ~StatusNext(w, m)'
        /\ \A v \in Workers \ {w} : pc'[v] = pc[v] /\ key'[v] = key[v]
    BY <1>6 DEF SaveStatus, Leave, AfterSave, request
  <2> QED BY <1>6, <2>1
<1>7. ASSUME NEW w \in Workers, DeleteStatus(w) PROVE Kept
  <2>1. key[w] # m /\ pc[w] \in {"delete_status", "delete_all_status"} /\ UNCHANGED forgotten
    BY <1>7 DEF DeleteStatus, Namespaces
  <2>2. /\ data' = data /\ status'[m] = status[m]
        /\ ~StatusNext(w, m) /\ ~StatusNext(w, m)'
        /\ \A v \in Workers \ {w} : pc'[v] = pc[v] /\ key'[v] = key[v]
    BY <1>7, <2>1 DEF DeleteStatus, Leave, request
  <2> QED BY <2>1, <2>2
<1>8. ASSUME NEW w \in Workers, NEW k \in Keys, DeleteNext(w, k) PROVE Kept
  <2>1. /\ ~StatusNext(w, m) /\ ~StatusNext(w, m)' /\ status' = status /\ data'[m] = data[m]
        /\ \A v \in Workers \ {w} : pc'[v] = pc[v] /\ key'[v] = key[v]
    BY <1>8 DEF DeleteNext
  <2> QED BY <2>1
<1>9. ASSUME NEW k \in Keys, Expire(k) PROVE Kept
  <2>1. k # m /\ UNCHANGED <<pc, request>>
    BY <1>9 DEF Expire
  <2>2. data'[m] = data[m] /\ status'[m] = status[m]
    BY <1>9, <2>1 DEF Expire
  <2> QED BY <2>1, <2>2 DEF request
<1>10. CASE UNCHANGED vars
  BY <1>10 DEF vars, redis, request
<1> HIDE DEF AboutInv, About, TypeOK, Continues, Forget, Goto, Keys, StatusNext
<1> QED
  BY <1>1, <1>2, <1>3, <1>4, <1>5, <1>6, <1>7, <1>8, <1>9, <1>10 DEF Next

\* A status is never there without its data, nor is data without a status that
\* is there or about to be written.
Half(m) ==
  /\ status[m] # "none" => data[m]
  /\ data[m] => \/ status[m] # "none"
                \/ \E w \in Workers : StatusNext(w, m)
  /\ \A w \in Workers : StatusNext(w, m) => data[m]

CompleteInv == AboutInv /\ \A m \in Messages \ forgotten : Half(m)

LEMMA CompleteStep == CompleteInv /\ [Next]_vars => CompleteInv'
<1> SUFFICES ASSUME CompleteInv, [Next]_vars, NEW m \in Messages \ forgotten' PROVE Half(m)'
  BY AboutStep DEF CompleteInv
<1> USE DEF Half, TypeOK, Keys, StatusNext
<1>1. m \in Messages \ forgotten /\ Half(m) /\ AboutInv /\ TypeOK
  BY ForgottenGrows DEF CompleteInv, AboutInv
<1>2. ASSUME NEW w \in Workers, SaveData(w), key[w] = m PROVE Half(m)'
  <2>1. /\ data'[m] = TRUE /\ UNCHANGED <<status, key>>
        /\ pc'[w] \in {"mark_status", "save_status"}
    BY <1>1, <1>2 DEF SaveData, request, Continues, Goto
  <2> QED BY <1>2, <2>1
<1>3. ASSUME NEW w \in Workers, SaveStatus(w), key[w] = m PROVE Half(m)'
  <2>1. data[m] /\ data' = data
    BY <1>1, <1>3 DEF SaveStatus, Continues
  <2>2. status'[m] # "none"
    BY <1>1, <1>3 DEF SaveStatus, Statuses
  <2> QED BY <2>1, <2>2
<1>4. ASSUME data'[m] = data[m], status'[m] = status[m],
             \A w \in Workers : StatusNext(w, m)' <=> StatusNext(w, m)
      PROVE  Half(m)'
  BY <1>1, <1>4
<1> QED
  BY <1>1, <1>2, <1>3, <1>4, CacheSteps

LEMMA CompleteInit == Init => CompleteInv
  BY AboutInit DEF Init, CompleteInv, Half, Keys, StatusNext

(* An entry that is not being worked on, and that no fault or deletion has
   touched, has both keys or none, however many workers write to it at once. *)
THEOREM EntriesCompleteAlways == Spec => []EntriesComplete
<1>1. CompleteInv => EntriesComplete
  <2> SUFFICES ASSUME CompleteInv, NEW m \in Messages \ forgotten, Idle(m)
               PROVE  data[m] <=> status[m] # "none"
    BY DEF EntriesComplete
  <2>1. \A w \in Workers : ~StatusNext(w, m)
    BY DEF Idle, StatusNext
  <2>2. Half(m)
    BY DEF CompleteInv
  <2>3. data[m] \in BOOLEAN
    BY Zenon DEF CompleteInv, AboutInv, TypeOK, Keys
  <2> QED BY <2>1, <2>2, <2>3 DEF Half
<1> QED
  BY CompleteInit, CompleteStep, <1>1, PTL DEF Spec

-----------------------------------------------------------------------------
(* OkMeansStarted is inductive once an "Ok" on its way has been earned. *)
LEMMA OkStep == AboutInv /\ OkMeansStarted /\ [Next]_vars => OkMeansStarted'
<1> SUFFICES ASSUME AboutInv, OkMeansStarted, [Next]_vars, NEW m \in Messages, status'[m] = "Ok"
             PROVE  starts'[m] > 0
  BY DEF OkMeansStarted
<1>1. TypeOK /\ starts[m] \in Nat /\ starts'[m] \in Nat /\ starts'[m] >= starts[m]
  BY TypeStep, StartsGrow, SwitchAssumption DEF AboutInv, TypeOK
<1>2. status[m] = "Ok" \/ \E w \in Workers : SaveStatus(w) /\ key[w] = m /\ value[w] = "Ok"
  <2>1. ASSUME NEW w \in Workers, SaveStatus(w)
        PROVE  status[m] = "Ok" \/ (key[w] = m /\ value[w] = "Ok")
    BY <1>1, <2>1 DEF SaveStatus, TypeOK, Keys
  <2>2. ASSUME NEW w \in Workers, DeleteStatus(w) PROVE status[m] = "Ok"
    BY <1>1, <2>2 DEF DeleteStatus, TypeOK, Keys
  <2>3. ASSUME NEW k \in Keys, Expire(k) PROVE status[m] = "Ok"
    BY <1>1, <2>3 DEF Expire, TypeOK, Keys
  <2>4. CASE status' = status
    BY <2>4
  <2> QED
    BY <2>1, <2>2, <2>3, <2>4
    DEF Next, vars, redis, TransitGetData, PimSend, ResendGetData, DeleteData, TransitRefuse,
        TransitStarted, TransitFails, Produced, ProduceFails, ResendStarted, ResendRejected, ResendRaises,
        SaveData, SaveFails, ListKeys, DeleteAllEnds, DeleteNext, Crash, Save
<1>3. starts[m] > 0
  BY <1>2 DEF AboutInv, Earned, OkMeansStarted, SaveStatus, Continues
<1> QED BY <1>1, <1>3

(* A cached status "Ok" is never wrong, whatever overlaps, fails, expires, is
   invalidated or is killed. *)
THEOREM OkMeansStartedAlways == Spec => []OkMeansStarted
<1>1. Init => OkMeansStarted
  BY DEF Init, OkMeansStarted, Keys
<1> QED
  BY AboutInit, AboutStep, OkStep, <1>1, PTL DEF Spec

-----------------------------------------------------------------------------
(* The data of an entry that is not forgotten stays. *)
LEMMA DataStays ==
  ASSUME CompleteInv, [Next]_vars, NEW m \in Messages \ forgotten', data[m]
  PROVE  data'[m]
<1>1. AboutInv /\ TypeOK
  BY DEF CompleteInv, AboutInv
<1>2. ASSUME NEW w \in Workers, SaveData(w), key[w] = m PROVE data'[m]
  BY <1>1, <1>2 DEF SaveData, TypeOK, Keys
<1>3. ASSUME NEW w \in Workers, SaveStatus(w) PROVE data'[m]
  BY <1>3 DEF SaveStatus
<1>4. CASE data'[m] = data[m]
  BY <1>4
<1> QED
  BY <1>1, <1>2, <1>3, <1>4, CacheSteps

\* Whoever has started a process of m writes its data next.
DataNext(w, m) == pc[w] = "save_data" /\ key[w] = m

LEMMA SaverStays ==
  ASSUME AboutInv, [Next]_vars, NEW m \in Messages \ forgotten', NEW w \in Workers, DataNext(w, m)
  PROVE  data'[m] \/ DataNext(w, m)'
<1> USE DEF DataNext, AboutInv, TypeOK, Keys, Continues, Goto, Forget
<1>1. ASSUME NEW v \in Workers, NEW n \in Messages,
             TransitGetData(v, n) \/ PimSend(v, n) \/ ResendGetData(v, n) \/ DeleteData(v, n)
      PROVE  DataNext(w, m)'
  BY <1>1 DEF TransitGetData, PimSend, ResendGetData, DeleteData, Accepts
<1>2. ASSUME NEW v \in Workers,
             \/ TransitRefuse(v) \/ ProduceFails(v) \/ ResendRaises(v) \/ DeleteAllEnds(v) \/ Crash(v)
      PROVE  DataNext(w, m)'
  BY <1>2 DEF TransitRefuse, ProduceFails, ResendRaises, DeleteAllEnds, Crash, Leave
<1>3. ASSUME NEW v \in Workers,
             TransitStarted(v) \/ TransitFails(v) \/ Produced(v) \/ ResendStarted(v) \/ ResendRejected(v)
      PROVE  DataNext(w, m)'
  BY <1>3 DEF TransitStarted, TransitFails, Produced, ResendStarted, ResendRejected, Save
<1>4. ASSUME NEW v \in Workers, SaveData(v) PROVE data'[m] \/ DataNext(w, m)'
  BY <1>4 DEF SaveData, request
<1>5. ASSUME NEW v \in Workers, SaveStatus(v) \/ SaveFails(v) PROVE DataNext(w, m)'
  BY <1>5 DEF SaveStatus, SaveFails, AfterSave, Leave, request
<1>6. ASSUME NEW v \in Workers, DeleteStatus(v) \/ ListKeys(v) \/ \E k \in Keys : DeleteNext(v, k)
      PROVE  DataNext(w, m)'
  BY <1>6 DEF DeleteStatus, ListKeys, DeleteNext, Leave, request
<1>7. ASSUME NEW k \in Keys, Expire(k) PROVE DataNext(w, m)'
  BY <1>7 DEF Expire, request
<1>8. CASE UNCHANGED vars
  BY <1>8 DEF vars, request
<1> QED
  BY <1>1, <1>2, <1>3, <1>4, <1>5, <1>6, <1>7, <1>8 DEF Next

\* SentIsRecorded is inductive once the entry of a PIM message is known to be there
\* before Kafka has the message.
Recorded(m) == data[m] \/ (namespace[m] = "sum" /\ \E w \in Workers : DataNext(w, m))
Marked(m)   == \A w \in Workers : pc[w] = "produce" /\ message[w] = m => data[m]
SentInv ==
  /\ CompleteInv
  /\ \A m \in Messages \ forgotten : Marked(m) /\ (starts[m] > 0 => Recorded(m))

LEMMA SentStep == SentInv /\ [Next]_vars => SentInv'
<1> SUFFICES ASSUME SentInv, [Next]_vars, NEW m \in Messages \ forgotten'
             PROVE  Marked(m)' /\ (starts'[m] > 0 => Recorded(m)')
  BY CompleteStep DEF SentInv
<1>1. CompleteInv /\ AboutInv /\ TypeOK /\ m \notin forgotten /\ Marked(m) /\ (starts[m] > 0 => Recorded(m))
  BY ForgottenGrows DEF SentInv, CompleteInv, AboutInv
<1>2. CASE data[m]
  BY <1>1, <1>2, DataStays DEF Marked, Recorded
<1>3. CASE ~data[m]
  <2>1. Marked(m)'
    <3> SUFFICES ASSUME NEW w \in Workers, pc'[w] = "produce", message'[w] = m PROVE data'[m]
      BY DEF Marked
    <3>1. ~(pc[w] = "produce" /\ message[w] = m)
      BY <1>1, <1>3 DEF Marked
    <3>2. SaveStatus(w) \/ SaveFails(w)
      <4> USE <1>1, <3>1 DEF TypeOK, Goto, Continues
      <4>1. \A v \in Workers, n \in Messages :
              ~TransitGetData(v, n) /\ ~PimSend(v, n) /\ ~ResendGetData(v, n) /\ ~DeleteData(v, n)
        BY DEF TransitGetData, PimSend, ResendGetData, DeleteData, Accepts
      <4>2. \A v \in Workers : ~TransitRefuse(v) /\ ~ProduceFails(v) /\ ~ResendRaises(v)
                               /\ ~DeleteAllEnds(v) /\ ~Crash(v)
        BY DEF TransitRefuse, ProduceFails, ResendRaises, DeleteAllEnds, Crash, Leave
      <4>3. \A v \in Workers : ~TransitStarted(v) /\ ~TransitFails(v) /\ ~Produced(v)
                               /\ ~ResendStarted(v) /\ ~ResendRejected(v) /\ ~SaveData(v)
        BY DEF TransitStarted, TransitFails, Produced, ResendStarted, ResendRejected, Save, SaveData, request
      <4>4. \A v \in Workers : ~DeleteStatus(v) /\ ~ListKeys(v) /\ \A k \in Keys : ~DeleteNext(v, k)
        BY DEF DeleteStatus, ListKeys, DeleteNext, Leave, request
      <4>5. ~UNCHANGED vars /\ \A k \in Keys : ~Expire(k)
        BY DEF vars, Expire, request
      <4>6. \A v \in Workers \ {w} : ~SaveStatus(v) /\ ~SaveFails(v)
        BY DEF SaveStatus, SaveFails, AfterSave, Leave, request
      <4> QED BY <4>1, <4>2, <4>3, <4>4, <4>5, <4>6 DEF Next
    <3>3. pc[w] \in {"mark_data", "mark_status"} /\ message[w] = m
      BY <1>1, <3>2 DEF SaveStatus, SaveFails, AfterSave, Leave, Goto, TypeOK, Continues, request
    <3>4. key[w] = m
      BY <1>1, <3>3 DEF AboutInv, About
    <3>5. StatusNext(w, m)
      BY <3>2, <3>3, <3>4 DEF SaveStatus, SaveFails, Forget, StatusNext, Continues
    <3> QED BY <1>1, <1>3, <3>5 DEF CompleteInv, Half
  <2>2. ASSUME starts[m] > 0 PROVE Recorded(m)'
    <3> QED BY <1>1, <1>3, <2>2, FixedNamespace, SaverStays DEF Recorded
  <2>3. ASSUME ~(starts[m] > 0), starts'[m] > 0 PROVE Recorded(m)'
    <3>1. PICK w \in Workers : Start(w) /\ (TransitStarted(w) \/ TransitFails(w) \/ Produced(w) \/ ProduceFails(w))
      BY <2>3
      DEF Next, vars, TransitGetData, PimSend, ResendGetData, DeleteData, TransitRefuse, TransitStarted,
          TransitFails, Produced, ProduceFails, ResendStarted, ResendRejected, ResendRaises, SaveData,
          SaveStatus, SaveFails, DeleteStatus, ListKeys, DeleteAllEnds, DeleteNext, Crash, Expire
    <3>2. message[w] = m
      BY <1>1, <2>3, <3>1 DEF Start, TypeOK
    <3>3. pc[w] = "post"
      BY <1>1, <1>3, <3>1, <3>2 DEF Marked, TransitStarted, TransitFails, Produced, ProduceFails, Continues
    <3>4. key[w] = m /\ namespace[m] = "sum"
      BY <1>1, <3>2, <3>3 DEF AboutInv, About
    <3>5. pc'[w] = "save_data" /\ key' = key /\ namespace' = namespace
      BY <1>1, <3>1, <3>3
      DEF TransitStarted, TransitFails, Produced, ProduceFails, Continues, Save, Goto, TypeOK
    <3> QED BY <3>4, <3>5 DEF Recorded, DataNext
  <2> QED BY <2>1, <2>2, <2>3
<1>4. data[m] \in BOOLEAN
  BY <1>1, Zenon DEF TypeOK, Keys
<1> QED
  BY <1>2, <1>3, <1>4

(* What has been sent is in the cache: a PIM message before Kafka has it, also when
   its worker is killed on the way, a start of a process one save later. *)
THEOREM SentIsRecordedAlways == Spec => []SentIsRecorded
<1>1. Init => SentInv
  BY CompleteInit DEF Init, SentInv, Marked
<1>2. SentInv => SentIsRecorded
  BY DEF SentInv, SentIsRecorded, Recorded, DataNext
<1> QED
  BY <1>1, SentStep, <1>2, PTL DEF Spec

-----------------------------------------------------------------------------
(* StartedOnce: a message whose requests do not overlap has one worker at most,
   and who is about to start its process has found it not started. *)
Serves(w, m) == pc[w] # "idle" /\ message[w] = m

OnceAt(m) ==
  /\ \A v, w \in Workers : Serves(v, m) /\ Serves(w, m) => v = w
  /\ \A w \in Workers : pc[w] = "post" /\ message[w] = m => starts[m] = 0
  /\ namespace[m] = "sum" => starts[m] <= 1

OnceInv == SentInv /\ \A m \in Messages \ (overlapped \cup forgotten) : OnceAt(m)

\* Who serves a message after a step has served it before, or has just accepted it
\* and is then the only one.
LEMMA Serving ==
  ASSUME AboutInv, [Next]_vars, NEW m \in Messages \ overlapped', NEW w \in Workers, Serves(w, m)'
  PROVE  \/ Serves(w, m)
         \/ /\ \A v \in Workers : ~Serves(v, m)
            /\ \A v \in Workers \ {w} : ~Serves(v, m)'
<1> USE DEF Serves, AboutInv, TypeOK, About, Continues, Goto
<1>1. ASSUME NEW v \in Workers, NEW n \in Messages,
             TransitGetData(v, n) \/ PimSend(v, n) \/ ResendGetData(v, n) \/ DeleteData(v, n)
      PROVE  \/ Serves(w, m)
             \/ /\ \A u \in Workers : ~Serves(u, m)
                /\ \A u \in Workers \ {w} : ~Serves(u, m)'
  <2>1. /\ pc[v] = "idle" /\ message' = [message EXCEPT ![v] = n]
        /\ n \in overlapped' \/ \A u \in Workers : ~Serves(u, n)
        /\ \A u \in Workers \ {v} : pc'[u] = pc[u]
    BY <1>1 DEF TransitGetData, PimSend, ResendGetData, DeleteData, Accepts
  <2> QED BY <2>1
<1>2. ASSUME NEW v \in Workers,
             \/ TransitRefuse(v) \/ ProduceFails(v) \/ ResendRaises(v) \/ DeleteAllEnds(v) \/ Crash(v)
             \/ SaveStatus(v) \/ SaveFails(v) \/ DeleteStatus(v)
      PROVE  Serves(w, m)
  BY HashAssumption, <1>2
  DEF TransitRefuse, ProduceFails, ResendRaises, DeleteAllEnds, Crash, SaveStatus, SaveFails,
      DeleteStatus, Leave, AfterSave, request
<1>3. ASSUME NEW v \in Workers,
             \/ TransitStarted(v) \/ TransitFails(v) \/ Produced(v) \/ ResendStarted(v) \/ ResendRejected(v)
             \/ SaveData(v) \/ ListKeys(v) \/ \E k \in Keys : DeleteNext(v, k)
      PROVE  Serves(w, m)
  BY HashAssumption, <1>3
  DEF TransitStarted, TransitFails, Produced, ResendStarted, ResendRejected, Save, SaveData, ListKeys,
      DeleteNext, request
<1>4. CASE UNCHANGED <<pc, request>>
  BY <1>4 DEF request
<1> HIDE DEF Serves, AboutInv, TypeOK, About, Continues, Goto
<1> QED
  BY <1>1, <1>2, <1>3, <1>4 DEF Next, vars, Expire

LEMMA OnceStep == OnceInv /\ [Next]_vars => OnceInv'
<1> SUFFICES ASSUME OnceInv, [Next]_vars, NEW m \in Messages \ (overlapped' \cup forgotten')
             PROVE  OnceAt(m)'
  BY SentStep DEF OnceInv
<1>1. overlapped \subseteq overlapped' /\ namespace' = namespace
  BY FixedNamespace
<1>2. SentInv /\ CompleteInv /\ AboutInv /\ TypeOK /\ OnceAt(m) /\ starts[m] \in Nat
  BY <1>1, ForgottenGrows, SwitchAssumption DEF OnceInv, SentInv, CompleteInv, AboutInv, TypeOK
<1>3. ASSUME NEW v \in Workers, NEW w \in Workers, Serves(v, m)', Serves(w, m)' PROVE v = w
  BY <1>2, <1>3, Serving DEF OnceAt
<1>4. \/ starts'[m] = starts[m]
      \/ \E w \in Workers : /\ pc[w] \in {"post", "produce"} /\ message[w] = m /\ pc'[w] # "post"
                            /\ starts'[m] = starts[m] + 1
  BY <1>2, StartsCount
\* Who comes to the start has found no entry, so that there was none.
<1>5. ASSUME NEW w \in Workers, pc'[w] = "post", message'[w] = m PROVE starts'[m] = 0
  <2>1. Serves(w, m)'
    BY <1>5 DEF Serves
  <2>2. CASE pc[w] = "post" /\ message[w] = m
    <3>1. starts[m] = 0
      BY <1>2, <2>2 DEF OnceAt
    <3>2. ASSUME NEW v \in Workers, pc[v] \in {"post", "produce"}, message[v] = m PROVE v = w
      BY <1>2, <2>2, <3>2 DEF OnceAt, Serves
    <3> QED BY <1>4, <1>5, <3>1, <3>2
  <2>3. CASE ~(pc[w] = "post" /\ message[w] = m)
    <3>1. TransitGetData(w, m)
      <4> USE <1>2, <1>5, <2>3 DEF TypeOK, Goto, Continues
      <4>1. \A v \in Workers, n \in Messages : ~PimSend(v, n) /\ ~ResendGetData(v, n) /\ ~DeleteData(v, n)
        BY DEF PimSend, ResendGetData, DeleteData, Accepts
      <4>2. \A v \in Workers : ~TransitRefuse(v) /\ ~ProduceFails(v) /\ ~ResendRaises(v)
                               /\ ~DeleteAllEnds(v) /\ ~Crash(v)
        BY DEF TransitRefuse, ProduceFails, ResendRaises, DeleteAllEnds, Crash, Leave
      <4>3. \A v \in Workers : ~TransitStarted(v) /\ ~TransitFails(v) /\ ~Produced(v)
                               /\ ~ResendStarted(v) /\ ~ResendRejected(v) /\ ~SaveData(v)
        BY DEF TransitStarted, TransitFails, Produced, ResendStarted, ResendRejected, Save, SaveData, request
      <4>4. \A v \in Workers : ~DeleteStatus(v) /\ ~ListKeys(v) /\ \A k \in Keys : ~DeleteNext(v, k)
        BY DEF DeleteStatus, ListKeys, DeleteNext, Leave, request
      <4>5. ~UNCHANGED vars /\ \A k \in Keys : ~Expire(k)
        BY DEF vars, Expire, request
      <4>6. \A v \in Workers : ~SaveStatus(v) /\ ~SaveFails(v)
        BY DEF SaveStatus, SaveFails, AfterSave, Leave, request
      <4>7. \A v \in Workers, n \in Messages : TransitGetData(v, n) => v = w /\ n = m
        BY DEF TransitGetData, Accepts
      <4> QED BY <4>1, <4>2, <4>3, <4>4, <4>5, <4>6, <4>7 DEF Next
    <3>2. ~Serves(w, m) /\ starts' = starts /\ ~data[m] /\ namespace[m] = "sum"
      BY <1>2, <1>5, <3>1 DEF TransitGetData, Accepts, Serves, Goto, Forget, TypeOK
    <3>3. \A v \in Workers : ~Serves(v, m)
      BY <1>2, <2>1, <3>2, Serving
    <3>4. ~\E v \in Workers : DataNext(v, m)
      BY <1>2, <3>3, HashAssumption DEF AboutInv, About, DataNext, Serves
    <3>5. ~(starts[m] > 0)
      BY <1>2, <3>2, <3>4, ForgottenGrows DEF SentInv, Recorded
    <3> QED BY <1>2, <3>2, <3>5
  <2> QED BY <2>2, <2>3
<1>6. ASSUME namespace[m] = "sum" PROVE starts'[m] <= 1
  <2>1. ASSUME NEW w \in Workers, pc[w] \in {"post", "produce"}, message[w] = m PROVE starts[m] = 0
    BY <1>2, <1>6, <2>1 DEF OnceAt, AboutInv, About
  <2> QED BY <1>2, <1>4, <1>6, <2>1 DEF OnceAt
<1> QED
  BY <1>1, <1>3, <1>5, <1>6 DEF OnceAt

(* A process is started at most once per message whose requests do not overlap
   and whose entry the cache has kept, lost answers of Camunda included. *)
THEOREM StartedOnceAlways == Spec => []StartedOnce
<1>1. Init => OnceInv
  <2> SUFFICES ASSUME Init PROVE OnceInv
    OBVIOUS
  <2>1. SentInv
    BY CompleteInit DEF Init, SentInv, Marked
  <2> QED BY <2>1 DEF Init, OnceInv, OnceAt, Serves
<1>2. OnceInv => StartedOnce
  BY DEF OnceInv, OnceAt, StartedOnce
<1> QED
  BY <1>1, OnceStep, <1>2, PTL DEF Spec

-----------------------------------------------------------------------------
(* The refinement.  A message that is looked up first has no entry until its one
   worker writes it, and one that is marked first is marked when it goes out. *)
WrittenOnce(w, m) ==
  namespace[m] = "sum" =>
    /\ pc[w] \in {"post", "save_data"} => ~data[m]
    /\ pc[w] = "save_status" => status[m] = "none"
MarkedFirst(w, m) ==
  /\ pc[w] \in {"mark_data", "mark_status"} => value[w] = "ServiceUnavailable"
  /\ pc[w] = "produce" => status[m] = "ServiceUnavailable"

LogAt(m) == \A w \in Workers : key[w] = m => WrittenOnce(w, m) /\ MarkedFirst(w, m)
LogInv ==
  /\ OnceInv /\ OkMeansStarted
  /\ \A m \in Messages \ (overlapped \cup forgotten) : LogAt(m)

Writing == {"post", "save_data", "save_status", "mark_data", "mark_status", "produce"}

\* Who writes the entry of a message serves its request.
LEMMA WritersServe ==
  ASSUME AboutInv, NEW m \in Messages, NEW w \in Workers, key[w] = m, pc[w] \in Writing
  PROVE  Serves(w, m)
BY HashAssumption DEF AboutInv, About, Serves, Writing

\* The worker that writes an entry is alone with it.
LEMMA WriterAlone ==
  ASSUME LogInv, [Next]_vars, NEW m \in Messages \ (overlapped' \cup forgotten'),
         NEW w \in Workers, key'[w] = m, UNCHANGED <<pc[w], key[w], value[w]>>
  PROVE  WrittenOnce(w, m)' /\ MarkedFirst(w, m)'
<1>1. /\ m \in Messages \ (overlapped \cup forgotten) /\ namespace' = namespace
      /\ AboutInv /\ TypeOK /\ OnceAt(m) /\ WrittenOnce(w, m) /\ MarkedFirst(w, m) /\ key[w] = m
  BY FixedNamespace, ForgottenGrows DEF LogInv, OnceInv, SentInv, CompleteInv, AboutInv, LogAt
<1>2. CASE pc[w] \notin Writing
  BY <1>2 DEF WrittenOnce, MarkedFirst, Writing
<1>3. CASE pc[w] \in Writing
  <2>1. ASSUME NEW v \in Workers, SaveData(v) \/ SaveStatus(v), key[v] = m
        PROVE  FALSE
    <3>1. pc[v] \in Writing /\ pc'[v] # pc[v]
      BY <1>1, <2>1
      DEF SaveData, SaveStatus, AfterSave, Leave, Continues, Goto, Writing, TypeOK
    <3>2. v = w
      BY <1>1, <1>3, <2>1, <3>1, WritersServe DEF OnceAt
    <3> QED BY <3>1, <3>2
  <2>2. data'[m] = data[m] /\ status'[m] = status[m]
    BY <1>1, <2>1, CacheSteps
  <2> QED BY <1>1, <2>2 DEF WrittenOnce, MarkedFirst
<1> QED BY <1>2, <1>3

LEMMA LogInvStep == LogInv /\ [Next]_vars => LogInv'
<1> SUFFICES ASSUME LogInv, [Next]_vars, NEW m \in Messages \ (overlapped' \cup forgotten'),
                     NEW w \in Workers, key'[w] = m
              PROVE  WrittenOnce(w, m)' /\ MarkedFirst(w, m)'
  BY OnceStep, OkStep DEF LogInv, LogAt, OnceInv, SentInv, CompleteInv
<1>1. /\ m \in Messages \ (overlapped \cup forgotten) /\ namespace' = namespace
      /\ AboutInv /\ TypeOK /\ Half(m) /\ m \notin Namespaces
      /\ key[w] = m => WrittenOnce(w, m) /\ MarkedFirst(w, m)
  BY FixedNamespace, ForgottenGrows, HashAssumption
  DEF LogInv, OnceInv, SentInv, CompleteInv, AboutInv, LogAt
<1>2. About(w)
  BY <1>1 DEF AboutInv
\* The worker does something else, or has left.
<1>3. ASSUME pc'[w] \notin Writing
      PROVE  WrittenOnce(w, m)' /\ MarkedFirst(w, m)'
  BY <1>3 DEF WrittenOnce, MarkedFirst, Writing
<1>4. ASSUME UNCHANGED <<pc[w], key[w], value[w]>>
      PROVE  WrittenOnce(w, m)' /\ MarkedFirst(w, m)'
  BY <1>4, WriterAlone
<1> DEFINE Done == WrittenOnce(w, m)' /\ MarkedFirst(w, m)'
<1> USE <1>1 DEF TypeOK, Goto, Continues
<1>5. ASSUME NEW v \in Workers \ {w}, NEW n \in Messages,
             TransitGetData(v, n) \/ PimSend(v, n) \/ ResendGetData(v, n) \/ DeleteData(v, n)
      PROVE  Done
  <2>1. UNCHANGED <<pc[w], key[w], value[w]>>
    BY <1>5 DEF TransitGetData, PimSend, ResendGetData, DeleteData
  <2> QED BY <1>4, <2>1
<1>6. ASSUME NEW n \in Messages,
             TransitGetData(w, n) \/ PimSend(w, n) \/ ResendGetData(w, n) \/ DeleteData(w, n)
      PROVE  Done
  <2>1. CASE TransitGetData(w, n)
    <3>1. n = m /\ pc'[w] \in {"get_status", "post"} /\ UNCHANGED redis /\ (pc'[w] = "post" => ~data[m])
      BY <2>1 DEF TransitGetData, Forget
    <3> QED BY <3>1 DEF WrittenOnce, MarkedFirst, redis
  <2>2. CASE PimSend(w, n)
    <3>1. pc'[w] = "mark_data" /\ value'[w] = "ServiceUnavailable"
      BY <2>2 DEF PimSend
    <3> QED BY <3>1 DEF WrittenOnce, MarkedFirst
  <2>3. CASE ResendGetData(w, n)
    BY <2>3 DEF ResendGetData, ResendKey
  <2>4. CASE DeleteData(w, n)
    <3>1. pc'[w] = "delete_status"
      BY <2>4 DEF DeleteData
    <3> QED BY <1>3, <3>1 DEF Writing
  <2> QED BY <1>6, <2>1, <2>2, <2>3, <2>4
<1>7. ASSUME NEW v \in Workers,
             \/ TransitRefuse(v) \/ ProduceFails(v) \/ ResendRaises(v) \/ DeleteAllEnds(v) \/ Crash(v)
      PROVE  Done
  <2>1. Leave(v)
    BY <1>7 DEF TransitRefuse, ProduceFails, ResendRaises, DeleteAllEnds, Crash
  <2>2. CASE v = w
    BY <1>3, <2>1, <2>2 DEF Leave, Writing
  <2>3. CASE v # w
    BY <1>4, <2>1, <2>3 DEF Leave
  <2> QED BY <2>2, <2>3
<1>8. ASSUME NEW v \in Workers,
             \/ TransitStarted(v) \/ TransitFails(v) \/ Produced(v) \/ ResendStarted(v) \/ ResendRejected(v)
      PROVE  Done
  <2>1. PICK s \in Statuses : Save(v, s)
    BY <1>8 DEF TransitStarted, TransitFails, Produced, ResendStarted, ResendRejected, Statuses
  <2>2. CASE v = w
    <3>1. key[w] = m /\ pc'[w] = "save_data" /\ UNCHANGED redis
      BY <2>1, <2>2 DEF Save
    <3>2. pc[w] = "post" \/ (pc[w] = "produce" /\ namespace[m] = "pim")
      BY <1>2, <1>8, <2>2, <3>1
      DEF TransitStarted, TransitFails, Produced, ResendStarted, ResendRejected, About
    <3> QED BY <3>1, <3>2 DEF WrittenOnce, MarkedFirst, redis
  <2>3. CASE v # w
    BY <1>4, <2>1, <2>3 DEF Save
  <2> QED BY <2>2, <2>3
<1>9. ASSUME NEW v \in Workers, SaveData(v)
      PROVE  Done
  <2>1. CASE v = w
    <3>1. /\ key[w] = m /\ UNCHANGED <<status, value>>
          /\ \/ pc[w] = "mark_data" /\ pc'[w] = "mark_status"
             \/ pc[w] = "save_data" /\ pc'[w] = "save_status"
      BY <1>9, <2>1 DEF SaveData, request
    <3> QED BY <3>1 DEF WrittenOnce, MarkedFirst, Half
  <2>2. CASE v # w
    BY <1>4, <1>9, <2>2 DEF SaveData, request
  <2> QED BY <2>1, <2>2
<1>10. ASSUME NEW v \in Workers, SaveStatus(v)
       PROVE  Done
  <2>1. CASE v = w /\ pc[w] = "mark_status"
    <3>1. key[w] = m /\ pc'[w] = "produce" /\ status'[m] = value[w]
      BY <1>10, <2>1 DEF SaveStatus, AfterSave, request, Keys
    <3> QED BY <2>1, <3>1 DEF WrittenOnce, MarkedFirst
  <2>2. CASE v = w /\ pc[w] # "mark_status"
    <3>1. pc'[w] = "idle"
      BY <1>10, <2>2 DEF SaveStatus, AfterSave, Leave
    <3> QED BY <1>3, <3>1 DEF Writing
  <2>3. CASE v # w
    BY <1>4, <1>10, <2>3 DEF SaveStatus, AfterSave, Leave, request
  <2> QED BY <2>1, <2>2, <2>3
<1>11. ASSUME NEW v \in Workers, SaveFails(v)
       PROVE  Done
  <2>1. CASE v = w /\ key[w] = m
    BY <1>11, <2>1 DEF SaveFails, Forget
  <2>2. CASE v = w /\ key[w] # m
    BY HashAssumption, <1>11, <2>2 DEF SaveFails, AfterSave, Leave, request
  <2>3. CASE v # w
    BY <1>4, <1>11, <2>3 DEF SaveFails, AfterSave, Leave, request
  <2> QED BY <2>1, <2>2, <2>3
<1>12. ASSUME NEW v \in Workers, DeleteStatus(v) \/ ListKeys(v) \/ \E k \in Keys : DeleteNext(v, k)
       PROVE  Done
  <2>1. CASE v = w
    <3>1. pc'[w] \in {"idle", "delete_all", "delete_all_status"}
      BY <1>12, <2>1 DEF DeleteStatus, ListKeys, DeleteNext, Leave
    <3> QED BY <1>3, <3>1 DEF Writing
  <2>2. CASE v # w
    <3>1. UNCHANGED <<pc[w], key[w], value[w]>>
      BY <1>12, <2>2 DEF DeleteStatus, ListKeys, DeleteNext, Leave, request
    <3> QED BY <1>4, <3>1
  <2> QED BY <2>1, <2>2
<1>13. ASSUME UNCHANGED <<pc, request>>
       PROVE  Done
  BY <1>4, <1>13 DEF request
<1> HIDE DEF TypeOK, Goto, Continues
<1> QED
  BY <1>5, <1>6, <1>7, <1>8, <1>9, <1>10, <1>11, <1>12, <1>13 DEF Next, vars, Expire

\* What a step does to a message that was left in peace.
LEMMA PeacefulStep ==
  ASSUME LogInv, [Next]_vars, NEW m \in Messages \ (overlapped' \cup forgotten')
  PROVE  \/ /\ IF namespace[m] = "pim" THEN status[m] = "ServiceUnavailable"
                                       ELSE status[m] = "none" /\ starts[m] = 0
            /\ starts'[m] = starts[m] + 1 /\ status'[m] = status[m]
         \/ /\ namespace[m] = "pim" \/ status[m] = "none"
            /\ status'[m] \in Statuses /\ (status'[m] = "Ok" => starts[m] > 0)
            /\ starts'[m] = starts[m]
         \/ starts'[m] = starts[m] /\ status'[m] = status[m]
<1>1. /\ m \in Messages \ (overlapped \cup forgotten) /\ AboutInv /\ TypeOK /\ Half(m)
      /\ OnceAt(m) /\ LogAt(m) /\ namespace[m] \in Namespaces /\ m \notin Namespaces
  BY FixedNamespace, ForgottenGrows, HashAssumption
  DEF LogInv, OnceInv, SentInv, CompleteInv, AboutInv, TypeOK
<1>2. ASSUME NEW w \in Workers, pc[w] \in {"post", "produce"}, message[w] = m,
             starts'[m] = starts[m] + 1, UNCHANGED redis
      PROVE  /\ IF namespace[m] = "pim" THEN status[m] = "ServiceUnavailable"
                                        ELSE status[m] = "none" /\ starts[m] = 0
             /\ starts'[m] = starts[m] + 1 /\ status'[m] = status[m]
  <2>1. key[w] = m /\ namespace[m] = IF pc[w] = "post" THEN "sum" ELSE "pim"
    BY <1>1, <1>2 DEF AboutInv, About
  <2>2. CASE pc[w] = "post"
    BY <1>1, <1>2, <2>1, <2>2 DEF LogAt, WrittenOnce, Half, OnceAt, redis
  <2>3. CASE pc[w] = "produce"
    BY <1>1, <1>2, <2>1, <2>3 DEF LogAt, MarkedFirst, redis
  <2> QED BY <1>2, <2>2, <2>3
<1>3. ASSUME NEW w \in Workers, SaveStatus(w), key[w] = m
      PROVE  /\ namespace[m] = "pim" \/ status[m] = "none"
             /\ status'[m] \in Statuses /\ (status'[m] = "Ok" => starts[m] > 0)
             /\ starts'[m] = starts[m]
  <2>1. status'[m] = value[w] /\ value[w] \in Statuses /\ starts' = starts
        /\ pc[w] \in {"mark_status", "save_status"}
    BY <1>1, <1>3 DEF SaveStatus, TypeOK, Keys, Continues
  <2>2. value[w] = "Ok" => starts[m] > 0
    BY <1>1, <1>3, <2>1 DEF AboutInv, Earned
  <2>3. namespace[m] = "pim" \/ status[m] = "none"
    BY <1>1, <1>3, <2>1 DEF AboutInv, About, LogAt, WrittenOnce, Namespaces
  <2> QED BY <2>1, <2>2, <2>3
<1>4. ASSUME NEW w \in Workers, SaveData(w)
      PROVE  status'[m] = status[m]
  BY <1>4 DEF SaveData
<1> QED
  BY <1>1, <1>2, <1>3, <1>4, StartsCount, CacheSteps DEF redis

LEMMA LogInit == Init => LogInv /\ Log!Init
<1> SUFFICES ASSUME Init
              PROVE  LogInv /\ Log!Init
  OBVIOUS
<1>1. OnceInv
  <2>1. SentInv
    BY CompleteInit DEF Init, SentInv, Marked
  <2> QED BY <2>1 DEF Init, OnceInv, OnceAt, Serves
<1>2. OkMeansStarted /\ \A m \in Messages : LogAt(m)
  BY DEF Init, OkMeansStarted, LogAt, WrittenOnce, MarkedFirst, Keys
<1>3. Log!Init
  BY DEF Init, Log!Init, Keys
<1> QED BY <1>1, <1>2, <1>3 DEF LogInv

LEMMA LogNext == LogInv /\ [Next]_vars => Log!Next
<1> SUFFICES ASSUME LogInv, [Next]_vars
              PROVE  Log!Next
  OBVIOUS
<1>1. TypeOK /\ TypeOK' /\ OkMeansStarted'
  BY TypeStep, OkStep DEF LogInv, OnceInv, SentInv, CompleteInv, AboutInv
<1>2. namespace' = namespace /\ overlapped \cup forgotten \subseteq overlapped' \cup forgotten'
  BY FixedNamespace, ForgottenGrows
<1>3. ASSUME NEW m \in Messages
      PROVE  Log!Send(m) \/ Log!Record(m) \/ Log!Rest(m) \/ Log!Disturbed(m)
  <2>1. CASE m \in overlapped' \cup forgotten'
    <3>1. starts'[m] \in {starts[m], starts[m] + 1}
      BY <1>1, StartsCount
    <3>2. status'[m] = "Ok" => starts'[m] > 0
      BY <1>1 DEF OkMeansStarted
    <3>3. Log!Disturbed(m)
      BY <2>1, <3>1, <3>2 DEF Log!Disturbed
    <3> QED BY <3>3
  <2>2. CASE m \notin overlapped' \cup forgotten'
    BY <2>2, PeacefulStep DEF Log!Send, Log!Record, Log!Rest
  <2> QED BY <2>1, <2>2
<1> QED BY <1>2, <1>3 DEF Log!Next

(* Every Redis command, POST and delivery of any number of workers does to each
   message what MessageLog promises of it, whatever overlaps, fails or is killed. *)
THEOREM TransitCacheImplementsMessageLog == Spec => ImplementsMessageLog
<1>1. LogInv /\ [Next]_vars => [Log!Next]_(Log!vars)
  BY LogNext
<1> QED
  BY LogInit, LogInvStep, <1>1, PTL DEF Spec, ImplementsMessageLog, Log!Spec
=============================================================================
