-------------------------- MODULE DeliveryReceipts --------------------------
(***************************************************************************)
(* The durable record of one Runner delivery: its receipt, the ledger row  *)
(* of every manifest file and the operator's reviewed deletion requests    *)
(* (batches).  Every operator below is one database transaction; the       *)
(* threads that issue them are in Delivery.                                *)
(*                                                                         *)
(* Clocks are left out: a row whose next attempt lies in the future is one *)
(* whose worker has not come round yet.  Attempt counters, error texts and *)
(* the audit of running attempts carry no control.                         *)
(***************************************************************************)
EXTENDS Integers, FiniteSets

CONSTANTS
    Files,      \* the paths of the delivery's manifest
    Batches,    \* identities of reviewed deletion requests
    NoConsumer  \* the empty consumer receipt id

VARIABLES
    receipt,    \* runner_delivery_receipts
    ledger,     \* runner_delivery_file_outcomes, by path
    batch,      \* runner_delivery_explicit_delete_batches and _files
    deleted     \* history events of explicit deletions, by batch and path

database == <<receipt, ledger, batch, deleted>>

States == {"absent", "unresolved", "ready", "imported", "conflict"}

\* Dispositions that permit generic cleanup; the others keep the bytes.
Eligible == {"placed", "redundant", "disposable"}

Dispositions == Eligible \cup {"none", "pending", "unselected", "incidental", "unknown"}

CleanupStates == {"protected", "pending", "retry", "removed"}

EmptyRow == [disposition |-> "none", cleanup |-> "protected", noted |-> FALSE, excess |-> FALSE]

NoBatch == [state |-> "none", files |-> {}, seen |-> {}, recorded |-> {}]

DatabaseInit ==
    /\ receipt = [state |-> "absent", ack |-> "not_accepted", consumer |-> NoConsumer,
                  associated |-> FALSE, directory |-> "none"]
    /\ ledger = [f \in Files |-> EmptyRow]
    /\ batch = [b \in Batches |-> NoBatch]
    /\ deleted = [b \in Batches |-> [f \in Files |-> 0]]

(* Receipt *)

\* The manifest was accepted locally: its consumer id is durable.
Prepared(r) == r.ack = "accepted" \/ (r.ack = "pending" /\ r.consumer # NoConsumer)

\* A new delivery is journaled unresolved, or as a conflict when the client
\* now points at another Runner installation; one that is known and differs
\* in an immutable fact becomes a conflict, one that does not is refreshed in
\* columns that carry no control.
SaveDiscoveredDelivery(changed) ==
    /\ receipt' = [receipt EXCEPT !.state =
                     IF changed THEN "conflict"
                     ELSE IF @ = "absent" THEN "unresolved" ELSE @]
    /\ UNCHANGED <<ledger, batch, deleted>>

AssociateDelivery ==
    /\ receipt.state # "conflict"
    /\ receipt' = [receipt EXCEPT !.associated = TRUE]
    /\ UNCHANGED <<ledger, batch, deleted>>

PrepareDeliveryAcceptance(id) ==
    /\ receipt.state # "conflict"
    /\ receipt.ack = "not_accepted"
    /\ receipt' = [receipt EXCEPT !.state = "ready", !.ack = "pending", !.consumer = id]
    /\ UNCHANGED <<ledger, batch, deleted>>

\* The row that SetDeliveryAccepted may stamp.
Acceptable(id) ==
    /\ receipt.state # "conflict"
    /\ receipt.ack = "pending"
    /\ receipt.consumer = id

SetDeliveryAccepted(id) ==
    /\ receipt' = IF Acceptable(id) THEN [receipt EXCEPT !.ack = "accepted"] ELSE receipt
    /\ UNCHANGED <<ledger, batch, deleted>>

SetDeliveryConflict ==
    /\ receipt' = [receipt EXCEPT !.state = "conflict"]
    /\ UNCHANGED <<ledger, batch, deleted>>

\* Importing is independent of the acknowledgement, which may stay pending.
SetDeliveryImported ==
    /\ receipt' = IF receipt.state = "conflict" THEN receipt ELSE [receipt EXCEPT !.state = "imported"]
    /\ UNCHANGED <<ledger, batch, deleted>>

\* Mutant: reopening starts the acceptance over.
ReimportForgetsAcceptance(expected) ==
    /\ receipt.state = expected
    /\ receipt.state # "conflict"
    /\ receipt.state = "imported" => Prepared(receipt)
    /\ receipt' = [receipt EXCEPT !.state = "ready", !.ack = "not_accepted", !.consumer = NoConsumer]
    /\ UNCHANGED <<ledger, batch, deleted>>

\* The receipt part of reopening a delivery for a selected import; the
\* download's part is in Delivery, in the same transaction.
QueueDeliveryReimport(expected) ==
    /\ receipt.state = expected
    /\ receipt.state # "conflict"
    /\ receipt.state = "imported" => Prepared(receipt)
    /\ receipt' = [receipt EXCEPT !.state = "ready"]
    /\ UNCHANGED <<ledger, batch, deleted>>

SetDeliveryDirectoryCleanup(state) ==
    /\ receipt' = IF receipt.state = "conflict" THEN receipt ELSE [receipt EXCEPT !.directory = state]
    /\ UNCHANGED <<ledger, batch, deleted>>

(* Ledger *)

\* Every manifest file gets a row before the import begins; rows that exist
\* are kept.  (A manifest that differs from the stored one is an error; the
\* receipt's is the one accepted, and every import here is an ordinary one.)
EnsureDeliveryFileOutcomes(selected) ==
    ledger' = [f \in Files |->
                 IF ledger[f].disposition # "none" THEN ledger[f]
                 ELSE [EmptyRow EXCEPT !.disposition = IF f \in selected THEN "pending" ELSE "unselected"]]

EnsureExplicitDeliveryFileOutcome(row) ==
    IF row.disposition = "none" THEN [EmptyRow EXCEPT !.disposition = "pending"] ELSE row

\* What is decided about a file's bytes is not undecided again.
MayBecome(old, new) ==
    \/ old \in {"pending", "unknown"}
    \/ old \in {"unselected", "incidental"} /\ new \in Eligible \cup {"incidental"}

UpdateDeliveryFileDisposition(row, new) ==
    IF MayBecome(row.disposition, new) THEN [row EXCEPT !.disposition = new] ELSE row

\* A file whose bytes are accounted for becomes a cleanup candidate, unless
\* an earlier verdict (a lost placement, a cancelled deletion) was noted.  The
\* same outcome may be committed again: a file has one library path.
CommitDeliveryFileOutcome(row, new) ==
    IF MayBecome(row.disposition, new) \/ row.disposition = new
      THEN [row EXCEPT !.disposition = new,
                       !.cleanup = IF new \in Eligible /\ @ = "protected" /\ ~row.noted THEN "pending" ELSE @]
      ELSE row

\* Mutant: the transition is not monotone.
CleanupWithoutOrder(f, state, noted) ==
    LET allowed == ledger[f].disposition \in Eligible IN
    /\ ledger' = IF allowed THEN [ledger EXCEPT ![f].cleanup = state, ![f].noted = noted] ELSE ledger
    /\ receipt' = IF state = "removed" /\ allowed THEN [receipt EXCEPT !.directory = "pending"] ELSE receipt
    /\ UNCHANGED <<batch, deleted>>

\* A monotone transition: a removed file never returns to the queue.
SetDeliveryFileCleanup(f, state, noted) ==
    LET allowed == ledger[f].cleanup # "removed" /\ ledger[f].disposition \in Eligible IN
    /\ ledger' = IF allowed THEN [ledger EXCEPT ![f].cleanup = state, ![f].noted = noted] ELSE ledger
    /\ receipt' = IF state = "removed" /\ (allowed \/ ledger[f].cleanup = "removed")
                    THEN [receipt EXCEPT !.directory = "pending"] ELSE receipt
    /\ UNCHANGED <<batch, deleted>>

\* The bytes of an excess file stay until the replacement's proof returns.
ScheduleProtectedDeliveryFileRetry(row) ==
    IF row.cleanup # "removed" /\ row.disposition \in {"unknown", "incidental", "disposable"}
      THEN [row EXCEPT !.cleanup = "protected", !.noted = TRUE] ELSE row

(* Reviewed deletions *)

Unrecorded(b) == IF batch[b].state = "open" THEN batch[b].files \ batch[b].recorded ELSE {}

\* ExplicitDeliveryDeleteBatchesPending
PendingBatches == {b \in Batches : Unrecorded(b) # {}}

HasPendingExplicitDeliveryDelete(f) == \E b \in Batches : f \in Unrecorded(b)

\* The whole selection is journaled, or none of it.  Another request that
\* still owns one of the files refuses it.
PrepareExplicitDeliveryDeleteBatch(b, files, seen) ==
    /\ batch[b].state = "none"
    /\ \A f \in files : ~HasPendingExplicitDeliveryDelete(f) /\ ledger[f].disposition # "none"
    /\ batch' = [batch EXCEPT ![b] = [state |-> "open", files |-> files, seen |-> seen, recorded |-> {}]]
    /\ ledger' = [f \in Files |->
                    IF f \in files /\ ledger[f].cleanup # "removed"
                      THEN [ledger[f] EXCEPT !.cleanup = "pending", !.noted = TRUE] ELSE ledger[f]]
    /\ UNCHANGED <<receipt, deleted>>

\* Authority for one unlink of a reviewed file.
BeginExplicitDeliveryFileUnlink(b, f) == f \in Unrecorded(b)

\* Mutant: the ledger row instead of the request tells a replay.
CompleteByLedger(b, f) ==
    /\ batch[b].state = "open"
    /\ f \in batch[b].files
    /\ ledger' = [ledger EXCEPT ![f].cleanup = "removed", ![f].noted = TRUE]
    /\ batch' = [batch EXCEPT ![b].recorded = @ \cup {f}]
    /\ deleted' = IF ledger[f].cleanup = "removed" THEN deleted ELSE [deleted EXCEPT ![b][f] = @ + 1]
    /\ UNCHANGED receipt

\* The outcome and its history event are one transaction.
CompleteExplicitDeliveryFileDelete(b, f) ==
    /\ batch[b].state = "open"
    /\ f \in batch[b].files
    /\ ledger' = [ledger EXCEPT ![f].cleanup = "removed", ![f].noted = TRUE]
    /\ batch' = [batch EXCEPT ![b].recorded = @ \cup {f}]
    /\ deleted' = IF f \in batch[b].recorded THEN deleted ELSE [deleted EXCEPT ![b][f] = @ + 1]
    /\ UNCHANGED receipt

ScheduleExplicitDeliveryDeleteRetry(b) ==
    /\ ledger' = [f \in Files |->
                    IF f \in Unrecorded(b)
                      THEN [ledger[f] EXCEPT !.cleanup = IF @ = "removed" THEN @ ELSE "retry", !.noted = TRUE]
                      ELSE ledger[f]]
    /\ UNCHANGED <<receipt, batch, deleted>>

\* Cancels what is left of a request and unlinks nothing.
AbandonExplicitDeliveryDelete(b) ==
    /\ batch[b].state = "open"
    /\ batch' = [batch EXCEPT ![b].state = "abandoned"]
    /\ ledger' = [f \in Files |->
                    IF f \in Unrecorded(b) /\ ledger[f].cleanup # "removed"
                      THEN [ledger[f] EXCEPT !.cleanup = "protected", !.noted = TRUE] ELSE ledger[f]]
    /\ UNCHANGED <<receipt, deleted>>

\* DeliveryFileCleanupReceipts: somebody has to look at this delivery.  An
\* excess file counts once its replacement is complete.
CleanupDue(complete) ==
    /\ receipt.state # "conflict"
    /\ \/ \E f \in Files : ledger[f].cleanup \in {"pending", "retry"} /\ ledger[f].disposition \in Eligible
       \/ receipt.directory \in {"pending", "retry"}
       \/ PendingBatches # {}
       \/ /\ receipt.state = "imported"
          /\ complete
          /\ \E f \in Files : /\ ledger[f].excess
                              /\ ledger[f].cleanup = "protected"
                              /\ ledger[f].disposition \in {"unknown", "incidental", "disposable"}
=============================================================================
