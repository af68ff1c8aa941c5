----------------------------- MODULE VersionedFile -----------------------------
(***************************************************************************)
(* What a versioned file promises to a client that has it for itself: an   *)
(* upload, a rollback or a removal takes effect at once, or is interrupted, *)
(* and no body goes away that a client has not asked to drop.  An          *)
(* interrupted request may leave the file without a current body, but then *)
(* the body has been kept.  Nothing is promised once requests on the file  *)
(* have disturbed each other.                                              *)
(***************************************************************************)
CONSTANTS
  Contents,   \* bodies
  NoContent   \* the file is not there

VARIABLES
  current,    \* what the file reads
  kept,       \* the other bodies in the bucket: versions, and left-overs of interrupted uploads
  dropped,    \* bodies whose last copy a client asked to drop
  alone       \* the requests on the file have left each other alone so far

vars == <<current, kept, dropped, alone>>

Init == current = NoContent /\ kept = {} /\ dropped = {} /\ alone = TRUE

WithCurrent == kept \cup ({current} \ {NoContent})

\* What the file reads goes away, unless it was kept.
DropCurrent == dropped' = dropped \cup ({current} \ (kept \cup {NoContent}))

Upload(c) == current' = c /\ kept' = WithCurrent /\ UNCHANGED dropped

\* The body leaves the versions, unless there is another copy of it.
Rollback(c) ==
  /\ c \in kept
  /\ current' = c /\ kept' \in {WithCurrent, WithCurrent \ {c}}
  /\ UNCHANGED dropped

\* An upload that keeps no version.
Overwrite(c) == current' = c /\ UNCHANGED kept /\ DropCurrent

Delete == current' = NoContent /\ UNCHANGED kept /\ DropCurrent

RemoveVersion(c) ==
  /\ kept' = kept \ {c} /\ UNCHANGED current
  /\ dropped' = dropped \cup ({c} \ {current})

\* The new body may have been stored or not, the old one may have been put aside.
Interrupted(c) ==
  /\ current' \in {current, NoContent}
  /\ kept \subseteq kept' /\ kept' \subseteq WithCurrent \cup {c}
  /\ current # current' => current \in kept'
  /\ UNCHANGED dropped

Request ==
  \/ \E c \in Contents : Upload(c) \/ Rollback(c) \/ Overwrite(c) \/ RemoveVersion(c) \/ Interrupted(c)
  \/ Delete

Next == IF alone' THEN alone /\ Request ELSE TRUE

Spec == Init /\ [][Next]_vars
=============================================================================
