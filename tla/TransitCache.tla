----------------------------- MODULE TransitCache -----------------------------
(***************************************************************************)
(* src/app/kafka_rest.py and src/app/redis_cache.py: messages on the way   *)
(* from Kafka to SUM and from PIM to Kafka.  transit-message starts a      *)
(* Camunda process for a message of SUM unless Redis holds an entry for    *)
(* it; the entry is written after the start, as two keys, with a time to   *)
(* live.  send-message writes the entry of a PIM message before it hands   *)
(* the message to Kafka, and its status again afterwards.                  *)
(* cache-resend-message sends an entry again, cache-invalidate deletes one *)
(* or all entries.  Handlers run in several gunicorn workers and every     *)
(* Redis command, POST and delivery is a step of its own.                  *)
(***************************************************************************)
EXTENDS Integers

CONSTANTS
  Workers,    \* gunicorn workers of all replicas
  Messages,   \* hashes of valid messages
  NoHash,     \* "no message"
  MaxPosts,   \* bound: how often one message is sent
  Ops,        \* the routes that are called
  Faults      \* what may go wrong

AllOps    == {"transit", "send", "resend", "invalidate"}
AllFaults == {"no_answer",  \* Camunda or Kafka takes the message but the answer is lost
              "crash",      \* a worker is killed (gunicorn timeout, restart)
              "redis",      \* a Redis command raises ConnectionError
              "expiry"}     \* an entry outlives kafka_message_ttl

\* redis_sum_namespace and redis_pim_namespace; as a key, the one of the empty
\* hash in that namespace.
Namespaces == {"sum", "pim"}

ASSUME HashAssumption == NoHash \notin Messages \cup Namespaces /\ Messages \cap Namespaces = {}
ASSUME SwitchAssumption == MaxPosts \in Nat /\ Ops \subseteq AllOps /\ Faults \subseteq AllFaults

Keys     == Messages \cup Namespaces
Statuses == {"Ok", "ServiceUnavailable", "ResentManually"}
PC       == {"idle", "get_status", "post", "mark_data", "mark_status", "produce", "resend_post",
             "save_data", "save_status", "delete_status", "delete_all", "delete_all_status"}

VARIABLES
  namespace, \* who a message is for
  data,      \* which keys <namespace>:<hash> exist
  status,    \* the value of <namespace>:<hash>:status, "none" when absent
  starts,    \* how often a message has started a process, or gone to Kafka; resends do not count
  pc,        \* the next command of each worker
  key,       \* the key a worker works on
  value,     \* the status a worker is about to save
  message,   \* the message whose request a worker serves
  todo,      \* keys that invalidate_cache has still to delete
  overlapped,\* history: messages that two requests have been about at once
  forgotten  \* history: messages whose entry was deleted, expired, not read or only half written

redis   == <<data, status>>
request == <<key, value, message, todo>>
history == <<overlapped, forgotten>>
vars    == <<namespace, redis, starts, pc, request, history>>

Init ==
  /\ namespace \in [Messages -> Namespaces]
  /\ data = [k \in Keys |-> FALSE]
  /\ status = [k \in Keys |-> "none"]
  /\ starts = [m \in Messages |-> 0]
  /\ pc = [w \in Workers |-> "idle"]
  /\ key = [w \in Workers |-> NoHash]
  /\ value = [w \in Workers |-> "Ok"]
  /\ message = [w \in Workers |-> NoHash]
  /\ todo = [w \in Workers |-> {}]
  /\ overlapped = {} /\ forgotten = {}

Goto(w, label) == pc' = [pc EXCEPT ![w] = label]

\* The request is answered, or its worker is gone.
Leave(w) ==
  /\ Goto(w, "idle")
  /\ key' = [key EXCEPT ![w] = NoHash]
  /\ value' = [value EXCEPT ![w] = "Ok"]
  /\ message' = [message EXCEPT ![w] = NoHash]
  /\ todo' = [todo EXCEPT ![w] = {}]

\* A sync worker takes a request when it is idle.
Accepts(w, m, op) ==
  /\ op \in Ops
  /\ pc[w] = "idle"
  /\ message' = [message EXCEPT ![w] = m]
  /\ overlapped' = overlapped \cup {n \in {m} : \E v \in Workers : pc[v] # "idle" /\ message[v] = n}
  /\ UNCHANGED namespace

\* The next command of a request on its way.
Continues(w, labels) == pc[w] \in labels /\ UNCHANGED <<namespace, overlapped>>

Forget(k) == forgotten' = forgotten \cup ({k} \cap Messages)

Save(w, s) ==
  /\ Goto(w, "save_data")
  /\ value' = [value EXCEPT ![w] = s]
  /\ UNCHANGED <<redis, key, message, todo, forgotten>>

Start(w) == starts[message[w]] < MaxPosts /\ starts' = [starts EXCEPT ![message[w]] = @ + 1]

(***************************************************************************)
(* transit-message.  Messages with another reason than ModelExported, or   *)
(* with the sumIgnore flag, are refused and never stored: Messages leaves  *)
(* them out                                                                *)
(***************************************************************************)

\* Cache.get_by_data: GET of the data; a ConnectionError counts as "no entry".
TransitGetData(w, m) ==
  /\ Accepts(w, m, "transit") /\ namespace[m] = "sum"
  /\ \/ data[m] /\ Goto(w, "get_status") /\ UNCHANGED forgotten
     \/ ~data[m] /\ Goto(w, "post") /\ UNCHANGED forgotten
     \/ data[m] /\ "redis" \in Faults /\ Goto(w, "post") /\ Forget(m)
  /\ key' = [key EXCEPT ![w] = m]
  /\ UNCHANGED <<redis, starts, value, todo>>

\* An entry, whatever its status: 400, "This message was previously sent".
TransitRefuse(w) ==
  /\ Continues(w, {"get_status"})
  /\ Leave(w)
  /\ UNCHANGED <<redis, starts, forgotten>>

TransitStarted(w) ==
  /\ Continues(w, {"post"})
  /\ Start(w)
  /\ Save(w, "Ok")

\* Mutants: nothing is saved for a start that has failed, or "Ok" is.
TransitFailsUnsaved(w) ==
  /\ Continues(w, {"post"})
  /\ UNCHANGED starts \/ ("no_answer" \in Faults /\ Start(w))
  /\ Leave(w)
  /\ UNCHANGED <<redis, forgotten>>

TransitFailsOk(w) == Continues(w, {"post"}) /\ Save(w, "Ok") /\ UNCHANGED starts

\* Another status than 200, or a RequestException: the process has not started,
\* or (no_answer) it has and nobody knows.
TransitFails(w) ==
  /\ Continues(w, {"post"})
  /\ \/ UNCHANGED starts
     \/ "no_answer" \in Faults /\ Start(w)
  /\ Save(w, "ServiceUnavailable")

(***************************************************************************)
(* send-message: the entry is saved as unavailable before the message goes *)
(* to Kafka, and again as ok when the producer has flushed it              *)
(***************************************************************************)

\* Mutant: the message goes out first.
PimSendUnmarked(w, m) ==
  /\ Accepts(w, m, "send") /\ namespace[m] = "pim"
  /\ Goto(w, "produce")
  /\ key' = [key EXCEPT ![w] = m]
  /\ UNCHANGED <<redis, starts, value, todo, forgotten>>

\* Mutant: what has an entry is not marked again.
PimSendMarkedBefore(w, m) ==
  /\ Accepts(w, m, "send") /\ namespace[m] = "pim"
  /\ Goto(w, IF data[m] THEN "produce" ELSE "mark_data")
  /\ key' = [key EXCEPT ![w] = m]
  /\ value' = [value EXCEPT ![w] = "ServiceUnavailable"]
  /\ UNCHANGED <<redis, starts, todo, forgotten>>

PimSend(w, m) ==
  /\ Accepts(w, m, "send") /\ namespace[m] = "pim"
  /\ Goto(w, "mark_data")
  /\ key' = [key EXCEPT ![w] = m]
  /\ value' = [value EXCEPT ![w] = "ServiceUnavailable"]
  /\ UNCHANGED <<redis, starts, todo, forgotten>>

\* flush returned.  Nobody looks at the future of send, so that this says that
\* the producer has had the message, not that a broker has it.
Produced(w) ==
  /\ Continues(w, {"produce"})
  /\ Start(w)
  /\ Save(w, "Ok")

\* No producer after kafka_retries attempts, or send or flush raised: 400.
ProduceFails(w) ==
  /\ Continues(w, {"produce"})
  /\ \/ UNCHANGED starts
     \/ "no_answer" \in Faults /\ Start(w)
  /\ Leave(w)
  /\ UNCHANGED <<redis, forgotten>>

(***************************************************************************)
(* cache-resend-message of either namespace.  Cache(namespace) is built    *)
(* without data and get_by_id does not set its hash: what the handler      *)
(* saves goes to the key of the empty hash                                 *)
(***************************************************************************)

ResendKey(m) == namespace[m]

ResendGetData(w, m) ==
  /\ Accepts(w, m, "resend")
  /\ data[m]
  /\ Goto(w, "resend_post")
  /\ key' = [key EXCEPT ![w] = ResendKey(m)]
  /\ UNCHANGED <<redis, starts, value, todo, forgotten>>

\* Mutant: a status that is not one of CacheStatus.
ResendStartedRaw(w) ==
  Continues(w, {"resend_post"}) /\ Save(w, "Resent") /\ UNCHANGED starts

ResendStarted(w) ==
  /\ Continues(w, {"resend_post"})
  /\ Save(w, "ResentManually")
  /\ UNCHANGED starts

\* Camunda answered another status than 200, or send_message_to_kafka an error.
ResendRejected(w) ==
  /\ Continues(w, {"resend_post"})
  /\ Save(w, "ServiceUnavailable")
  /\ UNCHANGED starts

\* A RequestException of the POST to Camunda is not caught: 500, nothing is saved.
ResendRaises(w) ==
  /\ Continues(w, {"resend_post"}) /\ namespace[message[w]] = "sum"
  /\ Leave(w)
  /\ UNCHANGED <<redis, starts, forgotten>>

(***************************************************************************)
(* Cache.save_cache: two SETs; a ConnectionError is logged and skips the   *)
(* rest                                                                    *)
(***************************************************************************)

\* What follows a save: the answer, or after the first save of a PIM message Kafka.
AfterSave(w) ==
  IF pc[w] \in {"mark_data", "mark_status"}
  THEN Goto(w, "produce") /\ UNCHANGED request
  ELSE Leave(w)

\* Mutant: only the data is saved.
SaveDataOnly(w) ==
  /\ Continues(w, {"mark_data", "save_data"})
  /\ data' = [data EXCEPT ![key[w]] = TRUE]
  /\ AfterSave(w)
  /\ UNCHANGED <<status, starts, forgotten>>

SaveData(w) ==
  /\ Continues(w, {"mark_data", "save_data"})
  /\ data' = [data EXCEPT ![key[w]] = TRUE]
  /\ Goto(w, IF pc[w] = "mark_data" THEN "mark_status" ELSE "save_status")
  /\ UNCHANGED <<status, starts, request, forgotten>>

SaveStatus(w) ==
  /\ Continues(w, {"mark_status", "save_status"})
  /\ status' = [status EXCEPT ![key[w]] = value[w]]
  /\ AfterSave(w)
  /\ UNCHANGED <<data, starts, forgotten>>

SaveFails(w) ==
  /\ "redis" \in Faults
  /\ Continues(w, {"mark_data", "mark_status", "save_data", "save_status"})
  /\ Forget(key[w])
  /\ AfterSave(w)
  /\ UNCHANGED <<redis, starts>>

(***************************************************************************)
(* cache-invalidate: delete_by_id deletes the data, then the status; a key *)
(* without data is a KeyError, which ends delete_all too                   *)
(***************************************************************************)

DeleteData(w, m) ==
  /\ Accepts(w, m, "invalidate")
  /\ data[m]
  /\ data' = [data EXCEPT ![m] = FALSE]
  /\ Forget(m)
  /\ Goto(w, "delete_status")
  /\ key' = [key EXCEPT ![w] = m]
  /\ UNCHANGED <<status, starts, value, todo>>

DeleteStatus(w) ==
  /\ Continues(w, {"delete_status", "delete_all_status"})
  /\ status' = [status EXCEPT ![key[w]] = "none"]
  /\ IF pc[w] = "delete_status" THEN Leave(w) ELSE Goto(w, "delete_all") /\ UNCHANGED request
  /\ UNCHANGED <<data, starts, forgotten>>

\* delete_all: KEYS "*:*" finds a hash by its data or by its status.
ListKeys(w) ==
  /\ "invalidate" \in Ops
  /\ Continues(w, {"idle"})
  /\ todo' = [todo EXCEPT ![w] = {k \in Keys : data[k] \/ status[k] # "none"}]
  /\ Goto(w, "delete_all")
  /\ UNCHANGED <<redis, starts, key, value, message, forgotten>>

DeleteNext(w, k) ==
  /\ Continues(w, {"delete_all"}) /\ k \in todo[w]
  /\ data[k]
  /\ data' = [data EXCEPT ![k] = FALSE]
  /\ Forget(k)
  /\ key' = [key EXCEPT ![w] = k]
  /\ todo' = [todo EXCEPT ![w] = @ \ {k}]
  /\ Goto(w, "delete_all_status")
  /\ UNCHANGED <<status, starts, value, message>>

\* Done, or the first key without data.
DeleteAllEnds(w) ==
  /\ Continues(w, {"delete_all"})
  /\ todo[w] = {} \/ \E k \in todo[w] : ~data[k]
  /\ Leave(w)
  /\ UNCHANGED <<redis, starts, forgotten>>

(***************************************************************************)
(* Faults                                                                  *)
(***************************************************************************)

\* Data is written, and so expires, before its status.
Expire(k) ==
  /\ "expiry" \in Faults
  /\ \/ data[k] /\ data' = [data EXCEPT ![k] = FALSE] /\ UNCHANGED status
     \/ ~data[k] /\ status[k] # "none" /\ status' = [status EXCEPT ![k] = "none"] /\ UNCHANGED data
  /\ Forget(k)
  /\ UNCHANGED <<namespace, starts, pc, request, overlapped>>

\* Killed, or a Redis command outside save_cache and get_by_data failed.  What the
\* worker had still to write, or had half written, is not in the cache.
Crash(w) ==
  /\ {"crash", "redis"} \cap Faults # {}
  /\ Continues(w, PC \ {"idle"})
  /\ IF pc[w] \in {"post", "mark_status", "save_data", "save_status"}
     THEN Forget(key[w]) ELSE UNCHANGED forgotten
  /\ Leave(w)
  /\ UNCHANGED <<redis, starts>>

Next ==
  \/ \E w \in Workers :
       \/ \E m \in Messages :
            TransitGetData(w, m) \/ PimSend(w, m) \/ ResendGetData(w, m) \/ DeleteData(w, m)
       \/ TransitRefuse(w) \/ TransitStarted(w) \/ TransitFails(w)
       \/ Produced(w) \/ ProduceFails(w)
       \/ ResendStarted(w) \/ ResendRejected(w) \/ ResendRaises(w)
       \/ SaveData(w) \/ SaveStatus(w) \/ SaveFails(w)
       \/ DeleteStatus(w) \/ ListKeys(w) \/ DeleteAllEnds(w)
       \/ \E k \in Keys : DeleteNext(w, k)
       \/ Crash(w)
  \/ \E k \in Keys : Expire(k)

Spec == Init /\ [][Next]_vars

(***************************************************************************)
(* Properties                                                              *)
(***************************************************************************)

TypeOK ==
  /\ namespace \in [Messages -> Namespaces]
  /\ data \in [Keys -> BOOLEAN]
  /\ status \in [Keys -> Statuses \cup {"none"}]
  /\ starts \in [Messages -> 0 .. MaxPosts]
  /\ pc \in [Workers -> PC]
  /\ key \in [Workers -> Keys \cup {NoHash}]
  /\ value \in [Workers -> Statuses]
  /\ message \in [Workers -> Messages \cup {NoHash}]
  /\ todo \in [Workers -> SUBSET Keys]
  /\ overlapped \subseteq Messages
  /\ forgotten \subseteq Messages

(* transit-message starts the process of a message at most once, however often
   Kafka delivers it and even when Camunda's answer is lost, as long as its
   requests do not overlap and the cache has kept its entry. *)
StartedOnce ==
  \A m \in Messages \ (overlapped \cup forgotten) : namespace[m] = "sum" => starts[m] <= 1

(* A cached status "Ok" is never wrong: the process was started, the producer
   has flushed the message. *)
OkMeansStarted == \A m \in Messages : status[m] = "Ok" => starts[m] > 0

(* What has been sent can be found in the cache.  A PIM message is there before
   Kafka has it, also when its worker is killed on the way; a start of a process
   gets its entry from the worker that has just made it. *)
SentIsRecorded ==
  \A m \in Messages \ forgotten : starts[m] > 0 =>
    \/ data[m]
    \/ namespace[m] = "sum" /\ \E w \in Workers : pc[w] = "save_data" /\ key[w] = m

(* An entry that no request is working on and that was left in peace has both of
   its keys, or none. *)
Idle(m) == \A w \in Workers : key[w] = m => pc[w] \notin {"mark_data", "mark_status", "save_data", "save_status"}
EntriesComplete ==
  \A m \in Messages \ forgotten : Idle(m) => (data[m] <=> status[m] # "none")

(* A successful manual resend is recorded as the status of its message. *)
ResendRecorded ==
  [][\A w \in Workers : SaveStatus(w) /\ value[w] = "ResentManually"
       => status'[message[w]] = "ResentManually"]_vars

(* The Redis commands of transit-message, send-message, cache-resend-message and
   cache-invalidate do to each message what MessageLog promises: the status key is
   the record, whatever overlaps, fails, expires or is killed. *)
Log == INSTANCE MessageLog WITH
  marked <- {m \in Messages : namespace[m] = "pim"},
  sent <- starts,
  entry <- [m \in Messages |-> status[m]],
  disturbed <- overlapped \cup forgotten
ImplementsMessageLog == Log!Spec
=============================================================================
