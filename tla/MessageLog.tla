------------------------------- MODULE MessageLog -------------------------------
(***************************************************************************)
(* What the service promises about each message it passes on, with one     *)
(* record of it instead of two Redis keys and whole requests instead of    *)
(* single commands.  A message whose requests come one at a time, and      *)
(* whose record is not lost, is sent once if it was asked for first, and   *)
(* while it is recorded as unavailable if it is marked first; what is      *)
(* recorded then stays.  For any message, "Ok" is only recorded of what    *)
(* has been sent.                                                          *)
(***************************************************************************)
EXTENDS Naturals

CONSTANTS
  Messages,   \* the messages
  Statuses    \* what is recorded of a message

VARIABLES
  marked,     \* those that are marked before they are sent; the others are looked up
  sent,       \* how often each was sent
  entry,      \* what is recorded of each, "none" at first
  disturbed   \* those that two requests were about at once, or whose record was lost

vars == <<marked, sent, entry, disturbed>>

Init ==
  /\ marked \in SUBSET Messages
  /\ sent = [m \in Messages |-> 0]
  /\ entry = [m \in Messages |-> "none"]
  /\ disturbed = {}

\* A message that is looked up goes out once, one that is marked as long as the
\* record does not claim that it has arrived.
Send(m) ==
  /\ IF m \in marked THEN entry[m] = "ServiceUnavailable" ELSE entry[m] = "none" /\ sent[m] = 0
  /\ sent'[m] = sent[m] + 1
  /\ entry'[m] = entry[m]

\* The record of a message that is looked up is written once.
Record(m) ==
  /\ m \in marked \/ entry[m] = "none"
  /\ entry'[m] \in Statuses
  /\ entry'[m] = "Ok" => sent[m] > 0
  /\ sent'[m] = sent[m]

Rest(m) == sent'[m] = sent[m] /\ entry'[m] = entry[m]

\* What is still promised of a message that was disturbed.
Disturbed(m) ==
  /\ m \in disturbed'
  /\ sent'[m] \in {sent[m], sent[m] + 1}
  /\ entry'[m] = "Ok" => sent'[m] > 0

Next ==
  /\ marked' = marked /\ disturbed \subseteq disturbed'
  /\ \A m \in Messages : Send(m) \/ Record(m) \/ Rest(m) \/ Disturbed(m)

Spec == Init /\ [][Next]_vars
=============================================================================
