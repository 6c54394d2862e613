--------------------------- MODULE ImportLifecycle ---------------------------
(***************************************************************************)
(* What the import control promises about one download, without threads,   *)
(* tickets, locks, files or crashes: an attempt is opened once per epoch   *)
(* and decided once, and the permission to put a file at its library path  *)
(* is given at most once per attempt and file, is used only while the      *)
(* attempt is undecided, and is never restored after it was revoked.       *)
(*                                                                         *)
(* ImportControl is shown to implement this specification; its variables   *)
(* of the same names are the refinement mapping.                           *)
(***************************************************************************)
EXTENDS Integers

CONSTANTS Sources, MaxEpoch

VARIABLES outcome, epoch, pub

lifecycle == <<outcome, epoch, pub>>

Attempts == 0 .. MaxEpoch

Init ==
    /\ outcome = "absent"
    /\ epoch = 0
    /\ pub = [e \in Attempts |-> [s \in Sources |-> "none"]]

\* Somebody may still be publishing.
Publishing == \E e \in Attempts, s \in Sources : pub[e][s] = "pending"

\* Bytes the operator has not decided about.
UnderReview == \E e \in Attempts, s \in Sources : pub[e][s] = "retained"

\* The download is seen for the first time; one that was imported before
\* attempts were recorded counts as decided.
Open ==
    /\ outcome = "absent"
    /\ outcome' \in {"open", "completed"}
    /\ UNCHANGED <<epoch, pub>>

RequestCancel ==
    /\ outcome = "open"
    /\ outcome' = "pending"
    /\ UNCHANGED <<epoch, pub>>

\* An attempt is decided when nobody is publishing, and cancelled only when
\* that was asked for.
Decide ==
    /\ outcome \in {"open", "pending"}
    /\ ~Publishing
    /\ outcome' \in IF outcome = "pending" THEN {"completed", "cancelled"} ELSE {"completed"}
    /\ UNCHANGED <<epoch, pub>>

Retry ==
    /\ outcome # "pending"
    /\ ~Publishing
    /\ ~UnderReview
    /\ epoch < MaxEpoch
    /\ epoch' = epoch + 1
    /\ outcome' = "open"
    /\ UNCHANGED pub

Authorize(s) ==
    /\ outcome = "open"
    /\ pub[epoch][s] = "none"
    /\ \A e \in Attempts : pub[e][s] # "retained"
    /\ pub' = [pub EXCEPT ![epoch][s] = "pending"]
    /\ UNCHANGED <<outcome, epoch>>

\* A permission given before a cancellation may still be used.
Commit(s) ==
    /\ outcome \in {"open", "pending"}
    /\ pub[epoch][s] = "pending"
    /\ pub' = [pub EXCEPT ![epoch][s] = "committed"]
    /\ UNCHANGED <<outcome, epoch>>

\* The operator cancels over publications nobody can vouch for: all of them
\* are revoked at once.
Revoke ==
    /\ outcome = "pending"
    /\ Publishing
    /\ pub' = [e \in Attempts |-> [s \in Sources |->
                 IF pub[e][s] = "pending" THEN "retained" ELSE pub[e][s]]]
    /\ outcome' = "cancelled"
    /\ UNCHANGED epoch

Review(e, s) ==
    /\ ~Publishing
    /\ pub[e][s] \in {"retained", "adopted"}
    /\ \E d \in {"adopted", "disposed"} : pub' = [pub EXCEPT ![e][s] = d]
    /\ UNCHANGED <<outcome, epoch>>

Next ==
    \/ Open \/ RequestCancel \/ Decide \/ Retry \/ Revoke
    \/ \E s \in Sources : Authorize(s) \/ Commit(s)
    \/ \E e \in Attempts, s \in Sources : Review(e, s)

Spec == Init /\ [][Next]_lifecycle
=============================================================================
