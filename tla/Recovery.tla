------------------------------ MODULE Recovery ------------------------------
(***************************************************************************)
(* A recovery hand-off: files the Runner has staged are previewed against  *)
(* a title, queued, claimed, placed and receipted, or cancelled by either  *)
(* side (src/internal/app/acquisition: recovery.go, recovery_preview.go,   *)
(* placement.go; src/internal/infra/sqlite/placement.go).                  *)
(*                                                                         *)
(* One hand-off is followed.  Its import id is derived from the manifest,  *)
(* so the Runner may publish the same manifest again as a new generation   *)
(* and every local row for it is the same row.  The lease stands for the   *)
(* revisions of the title, its other files among them, and of the shared   *)
(* settings; bytes are "old", "new" (the staged ones), "foreign" or        *)
(* "none".  A placement that has been cleaned up counts as committed; a    *)
(* journal row whose name was given up for another is not followed.        *)
(***************************************************************************)
EXTENDS Integers

CONSTANTS
  StagedFiles,   \* the files of the hand-off
  MaxRepublish,  \* bound: publications of the same manifest
  MaxTroubles    \* bound: edits, lost calls, crashes and acts of the Runner

ASSUME RecoveryAssumption == MaxRepublish \in Nat /\ MaxTroubles \in Nat

VARIABLES
  offer,      \* the preview task: state, snapshot and generation it saw
  rec,        \* the row of recovery_imports
  outbox,     \* the row of recovery_receipt_outbox
  place,      \* import_placements of this import
  onDisk,     \* the bytes at each target
  recorded,   \* the targets that media_files records for the title
  lease,      \* current revision of the title and the shared settings
  titleLock,  \* who holds the title's import target
  sweep,      \* recoverySweep's goroutine
  courier,    \* deliverRecoveryReceipts, one at a time
  queuer,     \* a QueueRecovery request
  remote,     \* the Runner's record of the hand-off
  wire,       \* calls given up on here that the Runner may still receive
  troubles    \* edits, lost calls, crashes and acts of the Runner so far

recoveryVars == <<offer, rec, outbox, place, onDisk, recorded, lease, titleLock, sweep, courier,
                  queuer, remote, wire, troubles>>

LocalStates == {"none", "queued", "importing", "review", "cancel_pending", "receipt_pending",
                "imported", "cancelled"}
RunnerStates == {"published", "claimed", "cancel_pending", "cancelled", "imported"}
BytesAt == {"none", "old", "new", "foreign"}
Seen == BytesAt \cup {"unrecorded"}
Unplaced == [state |-> "none", prev |-> "none", published |-> FALSE]
Calls == {"claim", "receipt", "cancel", "cancel-ack"}

\* Where the sweep holds the title and a context that a cancellation ends.
Placing == {"validate", "claim", "record", "files", "publish", "commit", "verify", "receipt"}
SweepSteps == {"down", "idle", "start", "lock", "settle", "save", "ack", "rollback", "rolling",
               "keep", "cancel", "cancel-ack", "finish"} \cup Placing

Resting == [pc |-> "idle", stop |-> FALSE, err |-> FALSE, failed |-> FALSE, saw |-> FALSE,
            tried |-> {}, file |-> 0]

Nothing == [f \in StagedFiles |-> "unrecorded"]
NoRow == [state |-> "none", accepted |-> 0, snap |-> Nothing, gen |-> 0, claimed |-> FALSE]
NoPreview == [state |-> "none", seen |-> [lease |-> 0, onDisk |-> Nothing], gen |-> 0]
NoRequest == [pc |-> "idle", want |-> NoPreview, read |-> NoRow]

Trouble == troubles < MaxTroubles /\ troubles' = troubles + 1

----------------------------------------------------------------------------
(* What a preview depends on *)

\* A snapshot fingerprints the files that the library records.
Shelf == [f \in StagedFiles |-> IF f \in recorded THEN onDisk[f] ELSE "unrecorded"]

TargetSnapshot == [lease |-> lease, onDisk |-> Shelf]

\* validateRecoveryTarget: the accepted lease is current, and every file is
\* as the snapshot had it or already holds this import's own bytes.
TargetAsReviewed ==
  /\ lease = rec.accepted
  /\ \A f \in StagedFiles : Shelf[f] = rec.snap[f] \/ (place[f].state # "none" /\ onDisk[f] = "new")

StartRecoveryPreview ==
  /\ offer.state # "running"
  /\ offer' = [NoPreview EXCEPT !.state = "running"]
  /\ UNCHANGED <<rec, outbox, place, onDisk, recorded, lease, titleLock, sweep, courier, queuer, remote, wire, troubles>>

\* What an inspection of the staged files against the target concludes.
PreviewRecovery == [state |-> "ready", seen |-> TargetSnapshot, gen |-> remote.gen]

\* The sweep of the previews; one that was running when the process ended is
\* inspected again.  It fails on a payload that is not the manifest's.
RecoveryPreviewSweep ==
  /\ offer.state = "running"
  /\ \/ offer' = PreviewRecovery
     \/ offer' = [NoPreview EXCEPT !.state = "failed"]
  /\ UNCHANGED <<rec, outbox, place, onDisk, recorded, lease, titleLock, sweep, courier, queuer, remote, wire, troubles>>

AcceptedRecoveryPreview == offer.state = "ready"

\* QueueRecovery reads the preview and waits for the title, then compares the
\* target with the preview and inserts the row, or reads the one that is
\* there: a row in review is requeued by the request it was made for.
QueueLock ==
  /\ queuer.pc = "idle" /\ AcceptedRecoveryPreview /\ titleLock = "free"
  /\ titleLock' = "queuer"
  /\ queuer' = [queuer EXCEPT !.pc = "insert", !.want = offer]
  /\ UNCHANGED <<offer, rec, outbox, place, onDisk, recorded, lease, sweep, courier, remote, wire, troubles>>

Accepted(r) == [r EXCEPT !.state = "queued", !.accepted = lease, !.snap = Shelf]

QueueDone == queuer' = NoRequest /\ titleLock' = "free"

Unchanged == queuer.want.seen = TargetSnapshot

QueueInsert ==
  /\ queuer.pc = "insert"
  /\ \/ /\ ~Unchanged \/ rec.state # "none"
        /\ QueueDone /\ UNCHANGED rec
     \/ /\ Unchanged /\ rec.state = "none"
        /\ rec' = [Accepted(rec) EXCEPT !.gen = queuer.want.gen]
        /\ QueueDone
     \/ /\ Unchanged /\ rec.state = "review"
        /\ queuer' = [queuer EXCEPT !.pc = "save", !.read = Accepted(rec)]
        /\ UNCHANGED <<rec, titleLock>>
  /\ UNCHANGED <<offer, outbox, place, onDisk, recorded, lease, sweep, courier, remote, wire, troubles>>

\* saveRecoveryImport names no state: the row that was read is written, with
\* its new acceptance, over whatever it has become.
QueueSave ==
  /\ queuer.pc = "save"
  /\ rec' = queuer.read
  /\ QueueDone
  /\ UNCHANGED <<offer, outbox, place, onDisk, recorded, lease, sweep, courier, remote, wire, troubles>>

\* The state and the context are two things: the update comes first.
CancelRecoveryImport ==
  /\ rec.state \in {"queued", "importing", "review"}
  /\ rec' = [rec EXCEPT !.state = "cancel_pending"]
  /\ sweep' = [sweep EXCEPT !.stop = sweep.pc \in {"start", "lock"} \cup Placing]
  /\ UNCHANGED <<offer, outbox, place, onDisk, recorded, lease, titleLock, courier, queuer, remote, wire, troubles>>

----------------------------------------------------------------------------
(* The Runner, as the calls to it and their answers show it *)

\* What a call does at the Runner when it gets there.
RunnerAfter(call) ==
  CASE call = "claim" /\ remote.state = "published" -> [remote EXCEPT !.state = "claimed", !.owner = "us"]
    [] call = "receipt" /\ remote.owner = "us" /\ remote.state = "claimed" -> [remote EXCEPT !.state = "imported"]
    [] call = "cancel" /\ remote.owner # "other" /\ remote.state = "published" -> [remote EXCEPT !.state = "cancelled"]
    [] call = "cancel" /\ remote.owner # "other" /\ remote.state = "claimed" -> [remote EXCEPT !.state = "cancel_pending"]
    [] call = "cancel-ack" /\ remote.state = "cancel_pending" -> [remote EXCEPT !.state = "cancelled"]
    [] OTHER -> remote

\* The answer to a call that has arrived: an error, or the record after it.
Answered(call) ==
  CASE call = "claim" -> RunnerAfter(call).owner = "us" /\ RunnerAfter(call).state = "claimed"
    [] call = "receipt" -> remote.owner = "us" /\ RunnerAfter(call).state = "imported"
    [] call = "cancel" -> RunnerAfter(call).state \in {"cancel_pending", "cancelled"}
    [] call = "cancel-ack" -> RunnerAfter(call).state = "cancelled"

\* A call that is answered; one the Runner refuses; and one given up on,
\* which may have been received, or be received later, or never.
Call(call, ok) ==
  \/ /\ ok /\ Answered(call) /\ remote' = RunnerAfter(call)
     /\ UNCHANGED <<wire, troubles>>
  \/ /\ ~ok /\ ~Answered(call)
     /\ UNCHANGED <<remote, wire, troubles>>
  \/ /\ ~ok /\ Trouble
     /\ wire' \in {wire, wire \cup {call}}
     /\ remote' \in {remote, RunnerAfter(call)}

\* recoveryIdentityMatches: the same publication, not only the same id.
IdentityMatches == remote.gen = rec.gen
MatchesImport == IdentityMatches /\ remote.owner = "us"

\* recoveryCancellationMatches, with the outbox as it was counted.
CancellationMatches(receipted) ==
  LET ours == remote.owner = "us"
      unclaimed == ~receipted /\ ~rec.claimed /\ remote.owner = "none"
  IN  /\ IdentityMatches
      /\ \/ remote.state = "published" /\ unclaimed
         \/ remote.state = "claimed" /\ ours
         \/ remote.state \in {"cancel_pending", "cancelled"} /\ (ours \/ unclaimed)

LateCall(call) ==
  /\ call \in wire
  /\ wire' = wire \ {call}
  /\ remote' = RunnerAfter(call)
  /\ UNCHANGED <<offer, rec, outbox, place, onDisk, recorded, lease, titleLock, sweep, courier, queuer, troubles>>

\* An operator of the Runner cancels; another consumer claims; the manifest
\* is published again.
RunnerActs ==
  /\ Trouble
  /\ \/ /\ remote.state \in {"published", "claimed"}
        /\ remote' = [remote EXCEPT !.state = IF @ = "claimed" THEN "cancel_pending" ELSE "cancelled"]
     \/ /\ remote.state = "published"
        /\ remote' = [remote EXCEPT !.state = "claimed", !.owner = "other"]
     \/ /\ remote.gen < MaxRepublish /\ remote.state \in {"cancelled", "imported"}
        /\ remote' = [state |-> "published", owner |-> "none", gen |-> remote.gen + 1]
  /\ wire' = IF remote'.gen = remote.gen THEN wire ELSE {}
  /\ UNCHANGED <<offer, rec, outbox, place, onDisk, recorded, lease, titleLock, sweep, courier, queuer>>

----------------------------------------------------------------------------
(* runRecovery, from the sweep *)

Go(pc) == sweep' = [sweep EXCEPT !.pc = pc]
GiveUp == sweep' = [sweep EXCEPT !.pc = "settle", !.err = TRUE]

SweepTake ==
  /\ sweep.pc = "idle" /\ rec.state \in {"queued", "importing", "cancel_pending"}
  /\ sweep' = [Resting EXCEPT !.pc = IF rec.state = "cancel_pending" THEN "ack" ELSE "start"]
  /\ UNCHANGED <<offer, rec, outbox, place, onDisk, recorded, lease, titleLock, courier, queuer, remote, wire, troubles>>

\* The conditional update to importing; a recovery cancelled before it is
\* left alone.
SweepStart ==
  /\ sweep.pc = "start"
  /\ IF rec.state \in {"queued", "importing"}
     THEN rec' = [rec EXCEPT !.state = "importing"] /\ Go("lock")
     ELSE UNCHANGED rec /\ Go("settle")
  /\ UNCHANGED <<offer, outbox, place, onDisk, recorded, lease, titleLock, courier, queuer, remote, wire, troubles>>

\* A busy title is waited for until its import has changed the lease.
LockTitleForRecovery ==
  /\ sweep.pc = "lock"
  /\ \/ titleLock = "free" /\ titleLock' = "sweep" /\ Go("validate")
     \/ titleLock # "free" /\ lease # rec.accepted /\ GiveUp /\ UNCHANGED titleLock
  /\ UNCHANGED <<offer, rec, outbox, place, onDisk, recorded, lease, courier, queuer, remote, wire, troubles>>

ValidateRecoveryTarget ==
  /\ sweep.pc = "validate"
  /\ IF TargetAsReviewed THEN Go("claim") ELSE GiveUp
  /\ UNCHANGED <<offer, rec, outbox, place, onDisk, recorded, lease, titleLock, courier, queuer, remote, wire, troubles>>

ClaimRecovery ==
  /\ sweep.pc = "claim"
  /\ \/ Call("claim", TRUE) /\ Go("record")
     \/ Call("claim", FALSE) /\ GiveUp
  /\ UNCHANGED <<offer, rec, outbox, place, onDisk, recorded, lease, titleLock, courier, queuer>>

\* The claim is recorded only while the import has not been cancelled.
RecordClaim ==
  /\ sweep.pc = "record"
  /\ IF rec.state = "importing"
     THEN rec' = [rec EXCEPT !.claimed = TRUE] /\ Go("files")
     ELSE UNCHANGED rec /\ GiveUp
  /\ UNCHANGED <<offer, outbox, place, onDisk, recorded, lease, titleLock, courier, queuer, remote, wire, troubles>>

\* The context of the run has been cancelled; a call that was under way may
\* still have had its effect.
RunCancelled ==
  /\ sweep.pc \in {"lock"} \cup Placing /\ sweep.stop
  /\ GiveUp
  /\ UNCHANGED <<offer, rec, outbox, place, onDisk, recorded, lease, titleLock, courier, queuer, remote, wire, troubles>>

\* The payload is not mounted where it may be, or not what the manifest says.
PayloadRefused ==
  /\ sweep.pc = "files" /\ sweep.tried = {}
  /\ GiveUp
  /\ UNCHANGED <<offer, rec, outbox, place, onDisk, recorded, lease, titleLock, courier, queuer, remote, wire, troubles>>

\* The Runner refuses a heartbeat and says that it is cancelling.
HeartbeatCancels ==
  /\ sweep.pc \in {"files", "publish", "commit", "verify", "receipt"}
  /\ MatchesImport /\ remote.state = "cancel_pending"
  /\ CancelRecoveryImport

FileDone(f, failed) ==
  sweep' = [sweep EXCEPT !.pc = "files", !.tried = @ \cup {f}, !.failed = @ \/ failed]

\* Where the import may publish.  Bytes nobody recorded are not replaced, and
\* a recorded file that is missing cannot be judged.
Placeable(f) == IF f \in recorded THEN onDisk[f] # "none" ELSE onDisk[f] \in {"none", "new"}

\* The journal row of a file, or the one an earlier run left.  A prepared row
\* goes on if its target is as it was, a committed one if its bytes are there.
Ready(f) ==
  /\ \/ /\ place[f].state = "none" /\ Placeable(f)
        /\ place' = [place EXCEPT ![f] = [state |-> "prepared", prev |-> onDisk[f], published |-> FALSE]]
     \/ /\ place[f].state = "prepared" /\ Placeable(f) /\ onDisk[f] \in {place[f].prev, "new"}
        /\ UNCHANGED place
     \/ /\ place[f].state = "committed" /\ onDisk[f] = "new"
        /\ UNCHANGED place
  /\ UNCHANGED onDisk

\* A file that is no upgrade is placed beside the bytes that hold its name.
\* Its target is the free name from here on.
PlacedBeside(f) ==
  /\ place[f].state # "committed" /\ f \notin recorded /\ onDisk[f] \notin {"none", "new"}
  /\ onDisk' = [onDisk EXCEPT ![f] = "none"]
  /\ place' = [place EXCEPT ![f] = [state |-> "prepared", prev |-> "none", published |-> FALSE]]

\* The import skips a file that the policy refuses or that is cut short; any
\* other error ends it.
PrepareRecoveryFile(f) ==
  /\ sweep.pc = "files" /\ f \notin sweep.tried
  /\ \/ /\ Ready(f) \/ PlacedBeside(f)
        /\ sweep' = [sweep EXCEPT !.pc = "publish", !.file = f]
     \/ (FileDone(f, TRUE) \/ GiveUp) /\ UNCHANGED <<onDisk, place>>
  /\ UNCHANGED <<offer, rec, outbox, recorded, lease, titleLock, courier, queuer, remote, wire, troubles>>

\* The staged bytes are renamed over the reviewed ones, which stay linked.
\* What was published once is not published again.
PublishRecoveryFile ==
  LET f == sweep.file IN
  /\ sweep.pc = "publish"
  /\ IF TargetAsReviewed /\ (onDisk[f] = "new" \/ (onDisk[f] = place[f].prev /\ ~place[f].published))
     THEN /\ onDisk' = [onDisk EXCEPT ![f] = "new"]
          /\ place' = [place EXCEPT ![f].published = TRUE]
          /\ Go("commit")
     ELSE GiveUp /\ UNCHANGED <<onDisk, place>>
  /\ UNCHANGED <<offer, rec, outbox, recorded, lease, titleLock, courier, queuer, remote, wire, troubles>>

\* CommitPlacement compares the lease, records the file and its result, and
\* accepts the revision it has made itself.
CommitStep(f) ==
  /\ place' = [place EXCEPT ![f].state = "committed"]
  /\ recorded' = recorded \cup {f}
  /\ lease' = lease + 1
  /\ rec' = [rec EXCEPT !.accepted = lease + 1]

\* A placement of an earlier run must still have its file in the library.
CommitRecoveryFile ==
  LET f == sweep.file IN
  /\ sweep.pc = "commit"
  /\ \/ /\ place[f].state = "prepared" /\ lease = rec.accepted
        /\ CommitStep(f) /\ FileDone(f, FALSE)
     \/ /\ place[f].state = "committed" /\ f \in recorded
        /\ FileDone(f, FALSE) /\ UNCHANGED <<rec, place, recorded, lease>>
     \/ /\ IF place[f].state = "prepared" THEN lease # rec.accepted ELSE f \notin recorded
        /\ GiveUp /\ UNCHANGED <<rec, place, recorded, lease>>
  /\ UNCHANGED <<offer, outbox, onDisk, titleLock, courier, queuer, remote, wire, troubles>>

FilesTried ==
  /\ sweep.pc = "files" /\ sweep.tried = StagedFiles
  /\ IF sweep.failed THEN GiveUp ELSE Go("verify")
  /\ UNCHANGED <<offer, rec, outbox, place, onDisk, recorded, lease, titleLock, courier, queuer, remote, wire, troubles>>

VerifyRecoveryPublications ==
  /\ sweep.pc = "verify"
  /\ IF \A f \in StagedFiles : place[f].state = "committed" /\ onDisk[f] = "new"
     THEN Go("receipt") ELSE GiveUp
  /\ UNCHANGED <<offer, rec, outbox, place, onDisk, recorded, lease, titleLock, courier, queuer, remote, wire, troubles>>

\* One transaction: not cancelled, a durable result for every file, the
\* outbox and the state.
RecordReceipt ==
  /\ sweep.pc = "receipt"
  /\ IF rec.state # "cancel_pending" /\ \A f \in StagedFiles : place[f].state = "committed"
     THEN /\ rec' = [rec EXCEPT !.state = "receipt_pending"]
          /\ outbox' = IF outbox = "none" THEN "pending" ELSE outbox
          /\ Go("settle")
     ELSE GiveUp /\ UNCHANGED <<rec, outbox>>
  /\ UNCHANGED <<offer, place, onDisk, recorded, lease, titleLock, courier, queuer, remote, wire, troubles>>

\* The title is released and the row read again: a cancellation is
\* acknowledged, an error goes to review.
SweepSettle ==
  /\ sweep.pc = "settle"
  /\ titleLock' = IF titleLock = "sweep" THEN "free" ELSE titleLock
  /\ sweep' = [Resting EXCEPT !.pc = IF rec.state = "cancel_pending" THEN "ack"
                                     ELSE IF sweep.err THEN "save" ELSE "idle"]
  /\ UNCHANGED <<offer, rec, outbox, place, onDisk, recorded, lease, courier, queuer, remote, wire, troubles>>

\* Unconditional, like every saveRecoveryImport.
SaveReview ==
  /\ sweep.pc = "save"
  /\ rec' = [rec EXCEPT !.state = "review"]
  /\ Go("idle")
  /\ UNCHANGED <<offer, outbox, place, onDisk, recorded, lease, titleLock, courier, queuer, remote, wire, troubles>>

----------------------------------------------------------------------------
(* ackRecoveryCancel, from the sweep *)

AckObserve ==
  /\ sweep.pc = "ack"
  /\ \/ CancellationMatches(outbox # "none")
        /\ sweep' = [sweep EXCEPT !.pc = "rollback", !.saw = remote.state = "cancelled"]
        /\ UNCHANGED troubles
     \/ ~CancellationMatches(outbox # "none") /\ Go("idle") /\ UNCHANGED troubles
     \/ Trouble /\ Go("idle")
  /\ UNCHANGED <<offer, rec, outbox, place, onDisk, recorded, lease, titleLock, courier, queuer, remote, wire>>

\* rollbackPlacement puts the previous bytes back; a target that holds
\* neither stays as it is and keeps the cancellation pending.
CanRollBack(f) ==
  \/ onDisk[f] \in {"new", place[f].prev}
  \/ onDisk[f] = "none" /\ place[f].published

RollBack(f) ==
  /\ onDisk' = [onDisk EXCEPT ![f] = place[f].prev]
  /\ place' = [place EXCEPT ![f].state = "rolled_back"]

PreparedFiles == {f \in StagedFiles : place[f].state = "prepared"}

\* A busy title leaves the cancellation to the next sweep.
LockTitleForRollback ==
  /\ sweep.pc = "rollback"
  /\ \/ titleLock # "free" /\ Go("idle") /\ UNCHANGED titleLock
     \/ titleLock = "free" /\ titleLock' = "sweep" /\ Go("rolling")
  /\ UNCHANGED <<offer, rec, outbox, place, onDisk, recorded, lease, courier, queuer, remote, wire, troubles>>

RollbackRecoveryPlacements ==
  /\ sweep.pc = "rolling"
  /\ \/ \E f \in PreparedFiles :
          IF CanRollBack(f) THEN RollBack(f) /\ UNCHANGED <<titleLock, sweep>>
          ELSE titleLock' = "free" /\ Go("keep") /\ UNCHANGED <<place, onDisk>>
     \/ /\ PreparedFiles = {} /\ titleLock' = "free"
        /\ Go(IF sweep.saw THEN "finish" ELSE "cancel") /\ UNCHANGED <<place, onDisk>>
  /\ UNCHANGED <<offer, rec, outbox, recorded, lease, courier, queuer, remote, wire, troubles>>

\* A failed rollback is saved as a cancellation that stays pending, over
\* whatever the row has become.
KeepCancellation ==
  /\ sweep.pc = "keep"
  /\ rec' = [rec EXCEPT !.state = "cancel_pending"]
  /\ Go("idle")
  /\ UNCHANGED <<offer, outbox, place, onDisk, recorded, lease, titleLock, courier, queuer, remote, wire, troubles>>

\* Mutant: a cancellation the Runner did not answer is finished all the same.
CancelUnanswered ==
  /\ sweep.pc = "cancel"
  /\ \E ok \in BOOLEAN : Call("cancel", ok)
  /\ Go("finish")
  /\ UNCHANGED <<offer, rec, outbox, place, onDisk, recorded, lease, titleLock, courier, queuer>>

\* The answer is compared with the local row like the observation was.
CancelAtRunner ==
  /\ sweep.pc = "cancel"
  /\ \/ /\ Call("cancel", TRUE)
        /\ LET after == RunnerAfter("cancel")
               mine == after.owner = "us" \/ (outbox = "none" /\ ~rec.claimed /\ after.owner = "none")
           IN  IF after.gen # rec.gen \/ ~mine THEN Go("idle")
               ELSE IF after.state = "cancelled" THEN Go("finish") ELSE Go("cancel-ack")
     \/ Call("cancel", FALSE) /\ Go("idle")
  /\ UNCHANGED <<offer, rec, outbox, place, onDisk, recorded, lease, titleLock, courier, queuer>>

AcknowledgeAtRunner ==
  /\ sweep.pc = "cancel-ack"
  /\ \/ Call("cancel-ack", TRUE) /\ Go("finish")
     \/ Call("cancel-ack", FALSE) /\ Go("idle")
  /\ UNCHANGED <<offer, rec, outbox, place, onDisk, recorded, lease, titleLock, courier, queuer>>

FinishRecoveryCancellation ==
  /\ sweep.pc = "finish"
  /\ rec' = IF rec.state = "cancel_pending" /\ outbox # "delivered"
            THEN [rec EXCEPT !.state = "cancelled"] ELSE rec
  /\ Go("idle")
  /\ UNCHANGED <<offer, outbox, place, onDisk, recorded, lease, titleLock, courier, queuer, remote, wire, troubles>>

----------------------------------------------------------------------------
(* deliverRecoveryReceipts *)

PostReceipt ==
  /\ courier = "idle" /\ outbox = "pending" /\ rec.state = "receipt_pending"
  /\ \/ Call("receipt", TRUE) /\ courier' = "accepted"
     \/ Call("receipt", FALSE) /\ courier' = "refused"
  /\ UNCHANGED <<offer, rec, outbox, place, onDisk, recorded, lease, titleLock, sweep, queuer>>

AcceptReceipt ==
  /\ courier = "accepted"
  /\ IF rec.state = "receipt_pending" /\ outbox = "pending"
     THEN rec' = [rec EXCEPT !.state = "imported"] /\ outbox' = "delivered"
     ELSE UNCHANGED <<rec, outbox>>
  /\ courier' = "idle"
  /\ UNCHANGED <<offer, place, onDisk, recorded, lease, titleLock, sweep, queuer, remote, wire, troubles>>

\* A receipt that was not accepted is a cancellation when the Runner says so;
\* it may not answer.
ReconcileReceiptCancellation ==
  /\ courier = "refused"
  /\ \/ /\ MatchesImport /\ remote.state \in {"cancel_pending", "cancelled"}
        /\ rec.state = "receipt_pending" /\ outbox = "pending"
        /\ rec' = [rec EXCEPT !.state = "cancel_pending"]
     \/ UNCHANGED rec
  /\ courier' = "idle"
  /\ UNCHANGED <<offer, outbox, place, onDisk, recorded, lease, titleLock, sweep, queuer, remote, wire, troubles>>

----------------------------------------------------------------------------
(* Edits of the title, of the files and of the settings; other imports of   *)
(* the title; the end of the process                                        *)

\* An edit may take files out of the library's records, a scan bring them in.
TitleEdited ==
  /\ Trouble /\ lease' = lease + 1
  /\ recorded' \in SUBSET {f \in StagedFiles : f \in recorded \/ onDisk[f] # "none"}
  /\ UNCHANGED <<offer, rec, outbox, place, onDisk, titleLock, sweep, courier, queuer, remote, wire>>

FileTouched(f) ==
  /\ Trouble /\ \E b \in {"none", "foreign"} : onDisk' = [onDisk EXCEPT ![f] = b]
  /\ UNCHANGED <<offer, rec, outbox, place, recorded, lease, titleLock, sweep, courier, queuer, remote, wire>>

OtherImport ==
  /\ \/ titleLock = "free" /\ Trouble /\ titleLock' = "other" /\ UNCHANGED lease
     \/ titleLock = "other" /\ titleLock' = "free" /\ lease' \in {lease, lease + 1} /\ UNCHANGED troubles
  /\ UNCHANGED <<offer, rec, outbox, place, onDisk, recorded, sweep, courier, queuer, remote, wire>>

ProcessEnds ==
  /\ Trouble
  /\ sweep' = [Resting EXCEPT !.pc = "down"] /\ titleLock' = "sweep"
  /\ courier' = "idle" /\ queuer' = NoRequest
  /\ UNCHANGED <<offer, rec, outbox, place, onDisk, recorded, lease, remote, wire>>

\* reconcilePlacements, at the start and before any worker: what a live
\* import had published is committed, what a cancelled one had is rolled back.
ReconcilePlacement(f) ==
  /\ sweep.pc = "down" /\ f \in PreparedFiles \ sweep.tried
  /\ IF rec.state \in {"cancel_pending", "cancelled"}
     THEN /\ IF CanRollBack(f) THEN RollBack(f) ELSE UNCHANGED <<place, onDisk>>
          /\ UNCHANGED <<lease, rec, recorded>>
     ELSE /\ IF TargetAsReviewed /\ onDisk[f] = "new" THEN CommitStep(f) ELSE UNCHANGED <<place, lease, rec, recorded>>
          /\ UNCHANGED onDisk
  /\ sweep' = [sweep EXCEPT !.tried = @ \cup {f}]
  /\ UNCHANGED <<offer, outbox, titleLock, courier, queuer, remote, wire, troubles>>

WorkersStart ==
  /\ sweep.pc = "down" /\ PreparedFiles \subseteq sweep.tried
  /\ sweep' = Resting /\ titleLock' = "free"
  /\ UNCHANGED <<offer, rec, outbox, place, onDisk, recorded, lease, courier, queuer, remote, wire, troubles>>

----------------------------------------------------------------------------
RecoveryInit ==
  /\ recorded \in SUBSET StagedFiles
  /\ \E kept \in [StagedFiles \ recorded -> {"none", "foreign"}] :
       onDisk = [f \in StagedFiles |-> IF f \in recorded THEN "old" ELSE kept[f]]
  /\ offer = NoPreview
  /\ rec = NoRow
  /\ outbox = "none"
  /\ place = [f \in StagedFiles |-> Unplaced]
  /\ lease = 0 /\ titleLock = "free"
  /\ sweep = Resting /\ courier = "idle"
  /\ queuer = NoRequest
  /\ remote = [state |-> "published", owner |-> "none", gen |-> 1]
  /\ wire = {} /\ troubles = 0

RequestStep == StartRecoveryPreview \/ RecoveryPreviewSweep \/ QueueLock \/ QueueInsert \/ QueueSave \/ CancelRecoveryImport
RunStep ==
  \/ SweepTake \/ SweepStart \/ LockTitleForRecovery \/ ValidateRecoveryTarget \/ ClaimRecovery
  \/ RecordClaim \/ RunCancelled \/ PayloadRefused \/ HeartbeatCancels \/ PublishRecoveryFile \/ CommitRecoveryFile
  \/ FilesTried \/ VerifyRecoveryPublications \/ RecordReceipt \/ SweepSettle \/ SaveReview
  \/ \E f \in StagedFiles : PrepareRecoveryFile(f)
CancellationStep ==
  AckObserve \/ LockTitleForRollback \/ RollbackRecoveryPlacements \/ KeepCancellation \/ CancelAtRunner \/ AcknowledgeAtRunner \/ FinishRecoveryCancellation
DeliverStep == PostReceipt \/ AcceptReceipt \/ ReconcileReceiptCancellation
WorldStep ==
  \/ RunnerActs \/ TitleEdited \/ OtherImport \/ ProcessEnds \/ WorkersStart
  \/ \E c \in Calls : LateCall(c)
  \/ \E f \in StagedFiles : FileTouched(f) \/ ReconcilePlacement(f)

RecoveryNext == RequestStep \/ RunStep \/ CancellationStep \/ DeliverStep \/ WorldStep

RecoverySpec == RecoveryInit /\ [][RecoveryNext]_recoveryVars

----------------------------------------------------------------------------
\* Every table and thread holds what it is declared to hold.
RecoveryTypeOK ==
  LET Previews == [state : {"none", "running", "ready", "failed"},
                   seen : [lease : Nat, onDisk : [StagedFiles -> Seen]], gen : Nat]
      Rows == [state : LocalStates, accepted : Nat, snap : [StagedFiles -> Seen], gen : Nat, claimed : BOOLEAN]
  IN
  /\ offer \in Previews /\ rec \in Rows
  /\ outbox \in {"none", "pending", "delivered"}
  /\ place \in [StagedFiles -> [state : {"none", "prepared", "committed", "rolled_back"},
                                prev : BytesAt, published : BOOLEAN]]
  /\ onDisk \in [StagedFiles -> BytesAt] /\ recorded \subseteq StagedFiles
  /\ lease \in Nat /\ titleLock \in {"free", "sweep", "queuer", "other"}
  /\ sweep \in [pc : SweepSteps, stop : BOOLEAN, err : BOOLEAN, failed : BOOLEAN, saw : BOOLEAN,
                tried : SUBSET StagedFiles, file : StagedFiles \cup {0}]
  /\ courier \in {"idle", "accepted", "refused"}
  /\ queuer \in [pc : {"idle", "insert", "save"}, want : Previews, read : Rows]
  /\ remote \in [state : RunnerStates, owner : {"none", "us", "other"}, gen : Nat]
  /\ wire \subseteq Calls /\ troubles \in 0 .. MaxTroubles

AllCommitted == \A f \in StagedFiles : place[f].state = "committed"

\* The two sides and the library end in the same place.  What the Runner
\* holds as imported for us has a committed file for everything it staged, and
\* the row here says so or is about to (deliverRecoveryReceipts); an imported
\* row is imported there; a cancelled row is cancelled there, its receipt was
\* never delivered, no publication is left between two states, and nothing
\* that was rolled back is on the disk (ackRecoveryCancel).
EndsAgree ==
  /\ remote.owner = "us" /\ remote.state = "imported" =>
       rec.state \in {"receipt_pending", "imported"} /\ AllCommitted
  /\ rec.state = "imported" =>
       outbox = "delivered" /\ AllCommitted /\ (IdentityMatches => remote.state = "imported")
  /\ rec.state = "cancelled" =>
       /\ outbox # "delivered"
       /\ IdentityMatches => remote.state = "cancelled"
       /\ PreparedFiles = {}
  /\ \A f \in StagedFiles : place[f].state = "rolled_back" => onDisk[f] # "new"

\* A publication replaces nothing that the accepted preview did not show:
\* bytes it comes over are recorded for the title and are those of the snapshot
\* (commitPlacement, validateMeasuredPlacement).
OnlyReviewedReplaced ==
  [][\A f \in StagedFiles :
       onDisk[f] \in {"old", "foreign"} /\ onDisk'[f] = "new" =>
          f \in recorded /\ rec.snap[f] = onDisk[f] /\ rec.accepted = lease]_recoveryVars
=============================================================================
