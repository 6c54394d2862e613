------------------------------ MODULE Delivery ------------------------------
(***************************************************************************)
(* A Runner delivery from its discovery to the removal of its payload: the *)
(* receipt sweep, the import worker, the acknowledgement, the cleanup      *)
(* worker, the operator's requests (import a selection, delete reviewed    *)
(* files, cancel a deletion) and a restart between any two of their steps. *)
(*                                                                         *)
(* One receipt with its one download.  The download lock is held by the    *)
(* import worker and by a deletion that verified its files, the completed- *)
(* inventory mutex by a deletion, the target and storage-decision locks by *)
(* a deletion that unlinks; cleanup takes the last two only around its     *)
(* final check and unlink, which is one step here.                         *)
(***************************************************************************)
EXTENDS DeliveryReceipts

CONSTANTS
    Consumers,  \* consumer receipt ids the importer may draw
    Excess,     \* files outside the scope a replacement approved
    MaxEvents   \* operator's requests, crashes, failed writes, outside changes

VARIABLES
    download,   \* state of the download row
    picked,     \* paths of the newest manual selection in its hand-off log
    payload,    \* the files Runner published: "original", "altered", "gone"
    folder,     \* the publication directory exists
    library,    \* files whose bytes (or an equal verified file) the library holds
    operation,  \* the replacement this download serves
    runner,     \* the consumer id Runner recorded
    importer, sweeper, cleaner, remover,
    acking,     \* the acknowledgement in flight; its lock
    retrying,   \* failed deletions whose retry is not scheduled yet
    events

disk == <<payload, folder, library>>
threads == <<importer, sweeper, cleaner, remover, acking, retrying>>
world == <<download, picked, operation, runner, events>>
vars == <<database, disk, threads, world>>

ImporterIdle == [pc |-> "idle", files |-> {}, todo |-> {}, placed |-> {}, ok |-> FALSE]
SweeperIdle == [pc |-> "idle", state |-> "absent", ack |-> "not_accepted", imported |-> FALSE, picked |-> FALSE]
CleanerIdle == [pc |-> "idle", imported |-> FALSE, due |-> {}, explicit |-> {}, promote |-> {}, todo |-> {}, file |-> {}]
RemoverIdle == [pc |-> "idle", by |-> "nobody", batch |-> {}, files |-> {}, seen |-> {}, absent |-> {}, file |-> {}]
NotAcking == [by |-> "nobody", id |-> NoConsumer, reply |-> "none"]

Init ==
    /\ DatabaseInit
    /\ download = "downloading"
    /\ picked = {}
    /\ payload = [f \in Files |-> "original"]
    /\ folder = TRUE
    /\ library = {}
    /\ operation = "running"
    /\ runner = NoConsumer
    /\ importer = ImporterIdle
    /\ sweeper = SweeperIdle
    /\ cleaner = CleanerIdle
    /\ remover = RemoverIdle
    /\ acking = NotAcking
    /\ retrying = {}
    /\ events = 0

ImportRunning == importer.pc # "idle"
DownloadLocked == importer.pc \notin {"idle", "queued"} \/ remover.pc \in {"prepare", "loop", "unlinked"}
TargetLocked == remover.pc \in {"loop", "unlinked"}

\* The replacement's selected files are in the library.
Covered == operation = "complete" /\ Files \ Excess \subseteq library

(* Discovery and the receipt sweep *)

Discover(changed) ==
    /\ changed => events < MaxEvents
    /\ receipt.state = "absent" \/ changed
    /\ SaveDiscoveredDelivery(changed)
    /\ events' = IF changed THEN events + 1 ELSE events
    /\ UNCHANGED <<disk, threads, download, picked, operation, runner>>

\* Cleanup progress is fetched for prepared deliveries; an immutable fact
\* that changed there is a conflict as well.
RefreshSourceCleanup ==
    /\ events < MaxEvents
    /\ Prepared(receipt)
    /\ receipt.state # "conflict"
    /\ SetDeliveryConflict
    /\ events' = events + 1
    /\ UNCHANGED <<disk, threads, download, picked, operation, runner>>

\* The operator asks Runner to try its own cleanup again, and the answer is
\* taken as the refresh takes it, with the download locked.
RetryRunnerSourceCleanup ==
    /\ receipt.associated => ~DownloadLocked
    /\ RefreshSourceCleanup

SweepRead ==
    /\ sweeper.pc = "idle"
    /\ receipt.state \notin {"absent", "conflict"}
    /\ sweeper' = [SweeperIdle EXCEPT !.pc = "read", !.state = receipt.state, !.ack = receipt.ack]
    /\ UNCHANGED <<database, disk, importer, cleaner, remover, acking, retrying, world>>

\* An imported receipt only needs its acknowledgement; any other is bound to
\* the one download that carries its token, whose row is read.
SweepDownload ==
    /\ sweeper.pc = "read"
    /\ IF sweeper.state = "imported"
         THEN /\ sweeper' = IF sweeper.ack = "pending" THEN [SweeperIdle EXCEPT !.pc = "ask"] ELSE SweeperIdle
              /\ UNCHANGED database
         ELSE /\ sweeper' = [sweeper EXCEPT !.pc = "act", !.imported = download = "imported", !.picked = picked # {}]
              /\ IF receipt.associated \/ receipt.state = "conflict" THEN UNCHANGED database ELSE AssociateDelivery
    /\ UNCHANGED <<disk, importer, cleaner, remover, acking, retrying, world>>

\* A job needs a free ticket and an import attempt that is not decided.
EnqueueDeliveryImport ==
    importer' = IF ~ImportRunning /\ download # "imported" THEN [ImporterIdle EXCEPT !.pc = "queued"] ELSE importer

\* What the sweep does rests on the receipt and the row it read.
SweepAct ==
    /\ sweeper.pc = "act"
    /\ IF ~sweeper.imported \/ (sweeper.state = "ready" /\ sweeper.picked) \/ sweeper.ack = "pending"
         THEN EnqueueDeliveryImport /\ UNCHANGED database
         ELSE /\ IF sweeper.ack = "accepted" THEN SetDeliveryImported ELSE UNCHANGED database
              /\ UNCHANGED importer
    /\ sweeper' = SweeperIdle
    /\ UNCHANGED <<disk, cleaner, remover, acking, retrying, world>>

(* Acknowledgement *)

Asking == {"ask", "askagain", "asktail", "askonly"}

\* Where a thread goes with the outcome of its acknowledgement.
Acknowledged(t, outcome) ==
    IF t = "sweeper"
      THEN sweeper' = SweeperIdle /\ UNCHANGED importer
      ELSE /\ importer' =
                IF \/ importer.pc = "askonly"
                   \/ outcome = "refused"
                   \/ importer.pc = "asktail" /\ outcome # "accepted"
                  THEN ImporterIdle
                  ELSE [importer EXCEPT !.pc = IF @ = "ask" THEN "recheck" ELSE "mark"]
           /\ UNCHANGED sweeper

Waiting(t) == IF t = "sweeper" THEN sweeper.pc = "ask" ELSE importer.pc \in Asking

\* The receipt is read under the acknowledgement lock and the request sent.
\* Runner keeps the first consumer id; the answer may get lost on the way.
CompleteDeliveryAcceptance(t) ==
    /\ Waiting(t)
    /\ acking.by = "nobody"
    /\ IF receipt.ack = "pending"
         THEN \/ /\ runner \in {NoConsumer, receipt.consumer}
                 /\ \/ runner' = receipt.consumer /\ acking' = [by |-> t, id |-> receipt.consumer, reply |-> "accepted"]
                    \/ runner' \in {runner, receipt.consumer} /\ acking' = [by |-> t, id |-> receipt.consumer, reply |-> "lost"]
                 /\ UNCHANGED <<importer, sweeper, events>>
              \/ /\ runner \in Consumers \ {receipt.consumer} \/ events < MaxEvents
                 /\ acking' = [by |-> t, id |-> receipt.consumer, reply |-> "refused"]
                 /\ events' = IF runner \in Consumers \ {receipt.consumer} THEN events ELSE events + 1
                 /\ UNCHANGED <<runner, importer, sweeper>>
         ELSE /\ Acknowledged(t, IF receipt.ack = "accepted" THEN "accepted" ELSE "lost")
              /\ UNCHANGED <<runner, acking, events>>
    /\ UNCHANGED <<database, disk, cleaner, remover, retrying, download, picked, operation>>

DeliveryAnswer(t) ==
    /\ acking.by = t
    /\ CASE acking.reply = "accepted" -> SetDeliveryAccepted(acking.id)
         [] acking.reply = "refused" -> SetDeliveryConflict
         [] OTHER -> UNCHANGED database
    /\ Acknowledged(t, IF acking.reply = "accepted" /\ ~Acceptable(acking.id) THEN "lost" ELSE acking.reply)
    /\ acking' = NotAcking
    /\ UNCHANGED <<disk, cleaner, remover, retrying, world>>

(* Import *)

\* The worker takes the download lock and looks at the rows once more.
ImporterStart ==
    /\ importer.pc = "queued"
    /\ ~DownloadLocked
    /\ importer' =
         CASE download = "imported" -> [importer EXCEPT !.pc = "asktail"]
           [] receipt.state = "imported" /\ receipt.ack = "pending" -> [importer EXCEPT !.pc = "askonly"]
           [] receipt.state \in {"unresolved", "ready"} -> [importer EXCEPT !.pc = "verify"]
           [] OTHER -> ImporterIdle
    /\ UNCHANGED <<database, disk, sweeper, cleaner, remover, acking, retrying, world>>

\* Files whose bytes are accounted for are not looked at again.
Unsettled == {f \in Files : ledger[f].cleanup # "removed" /\ ledger[f].disposition \notin Eligible}

VerifyDeliveryManifest ==
    /\ importer.pc = "verify"
    /\ importer' =
         IF folder /\ \A f \in Unsettled : payload[f] = "original"
           THEN [importer EXCEPT !.files = Unsettled,
                                 !.pc = CASE receipt.ack = "accepted" -> "check"
                                          [] receipt.ack = "pending" -> "ask"
                                          [] OTHER -> "prepare"]
           ELSE ImporterIdle
    /\ UNCHANGED <<database, disk, sweeper, cleaner, remover, acking, retrying, world>>

\* The consumer id is durable before Runner hears of it.
ImporterPrepare ==
    /\ importer.pc = "prepare"
    /\ IF receipt.state # "conflict" /\ receipt.ack = "not_accepted"
         THEN \E id \in Consumers : PrepareDeliveryAcceptance(id) /\ importer' = [importer EXCEPT !.pc = "ask"]
         ELSE importer' = ImporterIdle /\ UNCHANGED database
    /\ UNCHANGED <<disk, sweeper, cleaner, remover, acking, retrying, world>>

Selection == IF picked = {} THEN Files ELSE picked

\* A selected file that is not there to be verified must have been imported
\* or found redundant, and the library must still say so.
Reusable(f) == ledger[f].disposition \in {"placed", "redundant"} /\ f \in library

\* The publication opened again: every verified file is still the one that was
\* hashed.
RecheckDeliveryFiles == \A f \in importer.files : payload[f] = "original"

\* The last look before the library is touched: nothing changed during the
\* acknowledgement, no conflict.  The row says importing and the ledger has
\* a line for every file; a missing member that cannot be reused ends the
\* attempt there.
ImporterCheck ==
    /\ importer.pc \in {"check", "recheck"}
    /\ IF \/ receipt.state = "conflict"
          \/ importer.pc = "recheck" /\ ~RecheckDeliveryFiles
         THEN importer' = ImporterIdle /\ UNCHANGED <<ledger, download>>
         ELSE /\ download' = "importing"
              /\ EnsureDeliveryFileOutcomes(Selection \cap importer.files)
              /\ importer' = IF \A f \in Selection \ importer.files : Reusable(f)
                               THEN [importer EXCEPT !.pc = "place", !.todo = Selection \cap importer.files]
                               ELSE ImporterIdle
    /\ UNCHANGED <<receipt, batch, deleted, disk, sweeper, cleaner, remover, acking, retrying,
                   picked, operation, runner, events>>

\* A placement is committed in the library and in the ledger together; the
\* importer may also decide against a file, and never places an excess one.
PlaceFile(f) ==
    /\ importer.pc = "place"
    /\ f \in importer.todo
    /\ \/ /\ f \notin Excess
          /\ payload[f] = "original"
          /\ library' = library \cup {f}
          /\ ledger' = [ledger EXCEPT ![f] = CommitDeliveryFileOutcome(@, "placed")]
          /\ importer' = [importer EXCEPT !.todo = @ \ {f}, !.placed = @ \cup {f}]
       \/ /\ importer' = [importer EXCEPT !.todo = @ \ {f}]
          /\ UNCHANGED <<library, ledger>>
    /\ UNCHANGED <<receipt, batch, deleted, payload, folder, sweeper, cleaner, remover, acking, retrying, world>>

\* A current file of the library makes this one redundant: the same bytes, or a
\* verified file it would not improve on.
RedundantProof(f) == f \in library

\* The disposition of a file the importer looked at and did not place.
NotPlaced(f) ==
    CASE f \in Excess -> IF Covered THEN "disposable" ELSE "unknown"
      [] RedundantProof(f) -> "redundant"
      [] OTHER -> "unknown"

\* Every verified file gets its outcome.  A placement that is gone again is
\* an error, and so is an import that placed nothing, unless nothing was
\* left to place or the library holds everything.
RecordDeliveryImportOutcomes ==
    LET attempted == Selection \cap importer.files
        skipped == attempted \ importer.placed
        outcome == [f \in Files |->
                      CASE f \in skipped -> [CommitDeliveryFileOutcome(ledger[f], NotPlaced(f)) EXCEPT !.excess = f \in Excess]
                        [] f \in importer.files \ attempted /\ ledger[f].disposition = "pending" ->
                              UpdateDeliveryFileDisposition(ledger[f], "unknown")
                        [] OTHER -> ledger[f]]
    IN
    /\ importer.pc = "place"
    /\ importer.todo = {}
    /\ ledger' = outcome
    /\ importer' = [importer EXCEPT !.pc = "finish",
                      !.ok = /\ importer.placed \subseteq library
                             /\ \/ importer.placed # {}
                                \/ attempted = {}
                                \/ \E f \in Selection \ attempted : ledger[f].disposition = "placed"
                                \/ picked = {} /\ \A f \in attempted : outcome[f].disposition = "redundant"]
    /\ UNCHANGED <<receipt, batch, deleted, disk, sweeper, cleaner, remover, acking, retrying, world>>

ImporterFinish ==
    /\ importer.pc = "finish"
    /\ download' = IF importer.ok THEN "imported" ELSE "failed"
    /\ importer' = CASE ~importer.ok -> ImporterIdle
                     [] receipt.ack = "pending" -> [ImporterIdle EXCEPT !.pc = "askagain"]
                     [] OTHER -> [ImporterIdle EXCEPT !.pc = "mark"]
    /\ UNCHANGED <<database, disk, sweeper, cleaner, remover, acking, retrying, picked, operation, runner, events>>

ImporterMark ==
    /\ importer.pc = "mark"
    /\ SetDeliveryImported
    /\ importer' = ImporterIdle
    /\ UNCHANGED <<disk, sweeper, cleaner, remover, acking, retrying, world>>

\* The operator selects files of the manifest; an imported delivery is
\* reopened when one of them is not accounted for.  A full queue leaves the
\* ready receipt to the sweep.
QueueDeliveryImport(files) ==
    /\ events < MaxEvents
    /\ files # {}
    /\ receipt.associated
    /\ ~DownloadLocked
    /\ ~ImportRunning
    /\ receipt.state = "imported" => files \cap Unsettled # {}
    /\ QueueDeliveryReimport(receipt.state)
    /\ download' = "awaiting_import"
    /\ picked' = files
    /\ importer' \in {[ImporterIdle EXCEPT !.pc = "queued"], importer}
    /\ events' = events + 1
    /\ UNCHANGED <<disk, sweeper, cleaner, remover, acking, retrying, operation, runner>>

(* Reviewed deletion *)

\* A review saw these files, some of them altered since they were published.
RequestDelete(b, files) ==
    /\ events < MaxEvents
    /\ remover.pc = "idle"
    /\ batch[b].state = "none"
    /\ files # {} /\ folder /\ \A f \in files : payload[f] # "gone"
    /\ receipt.associated /\ Prepared(receipt) /\ receipt.state # "conflict"
    /\ remover' = [RemoverIdle EXCEPT !.pc = "begin", !.by = "operator", !.batch = {b}, !.files = files,
                                      !.seen = {f \in files : payload[f] = "altered"}]
    /\ events' = events + 1
    /\ UNCHANGED <<database, disk, importer, sweeper, cleaner, acking, retrying, download, picked, operation, runner>>

\* The cleanup worker replays a journaled request with its reviewed files.
ResumeDelete(b) ==
    /\ cleaner.pc = "resume"
    /\ b \in cleaner.due
    /\ remover.pc = "idle"
    /\ remover' = [RemoverIdle EXCEPT !.pc = "begin", !.by = "cleaner", !.batch = {b},
                                      !.files = batch[b].files, !.seen = batch[b].seen]
    /\ cleaner' = [cleaner EXCEPT !.pc = "resuming", !.due = @ \ {b}]
    /\ UNCHANGED <<database, disk, importer, sweeper, acking, retrying, world>>

Reviewed(f) == payload[f] = IF f \in remover.seen THEN "altered" ELSE "original"

Deletable == Prepared(receipt) /\ receipt.state # "conflict" /\ download # "importing"

\* The routine returns: its mutex is free, the cleanup worker goes on after a
\* success and gives up after an error, and a journaled request is retried.
RemoverReturns(failed) ==
    /\ remover' = RemoverIdle
    /\ cleaner' = IF remover.by # "cleaner" THEN cleaner
                  ELSE IF failed THEN CleanerIdle ELSE [cleaner EXCEPT !.pc = "resume"]
    /\ retrying' = IF failed THEN retrying \cup {b \in remover.batch : batch[b].state # "none"} ELSE retrying

\* Under the download lock: every file is the reviewed one, or absent on a
\* replay, and has a ledger row.
RemoverVerify ==
    /\ remover.pc = "begin"
    /\ ~DownloadLocked
    /\ LET known == \E b \in remover.batch : batch[b].state = "open"
           absent == {f \in remover.files : payload[f] = "gone"}
       IN IF /\ Deletable /\ folder
             /\ \A b \in remover.batch : batch[b].state # "abandoned"
             /\ \A f \in remover.files : Reviewed(f) \/ (f \in absent /\ known /\ ledger[f].disposition # "none")
            THEN /\ remover' = [remover EXCEPT !.pc = "prepare", !.absent = absent]
                 /\ ledger' = [f \in Files |-> IF f \in remover.files \ absent
                                                 THEN EnsureExplicitDeliveryFileOutcome(ledger[f]) ELSE ledger[f]]
                 /\ UNCHANGED <<cleaner, retrying>>
            ELSE RemoverReturns(TRUE) /\ UNCHANGED ledger
    /\ UNCHANGED <<receipt, batch, deleted, disk, importer, sweeper, acking, world>>

\* Under the target lock: the request becomes durable before the first unlink.
RemoverPrepare ==
    /\ remover.pc = "prepare"
    /\ \E b \in remover.batch :
         \/ /\ Deletable
            /\ IF batch[b].state = "open" THEN UNCHANGED database
               ELSE PrepareExplicitDeliveryDeleteBatch(b, remover.files, remover.seen)
            /\ remover' = [remover EXCEPT !.pc = "loop"]
            /\ UNCHANGED <<cleaner, retrying>>
         \/ /\ ~Deletable \/ (batch[b].state = "none" /\ \E f \in remover.files : HasPendingExplicitDeliveryDelete(f))
            /\ RemoverReturns(TRUE)
            /\ UNCHANGED database
    /\ UNCHANGED <<disk, importer, sweeper, acking, world>>

\* A file found absent on a replay is confirmed; one that is still the
\* reviewed file is unlinked; anything else, a directory that is gone too,
\* ends the attempt.
RemoverFile(f) ==
    /\ remover.pc = "loop"
    /\ f \in remover.files
    /\ \E b \in remover.batch :
         IF folder /\ f \in remover.absent
           THEN /\ IF f \in batch[b].recorded THEN UNCHANGED database ELSE CompleteExplicitDeliveryFileDelete(b, f)
                /\ remover' = [remover EXCEPT !.files = @ \ {f}]
                /\ UNCHANGED <<payload, cleaner, retrying>>
           ELSE IF folder /\ Reviewed(f) /\ ledger[f].cleanup # "removed" /\ BeginExplicitDeliveryFileUnlink(b, f)
             THEN /\ payload' = [payload EXCEPT ![f] = "gone"]
                  /\ remover' = [remover EXCEPT !.pc = "unlinked", !.file = {f}, !.files = @ \ {f}]
                  /\ UNCHANGED <<database, cleaner, retrying>>
             ELSE RemoverReturns(TRUE) /\ UNCHANGED <<database, payload>>
    /\ UNCHANGED <<folder, library, importer, sweeper, acking, world>>

RemoverComplete ==
    /\ remover.pc = "unlinked"
    /\ \E b \in remover.batch, f \in remover.file : CompleteExplicitDeliveryFileDelete(b, f)
    /\ remover' = [remover EXCEPT !.pc = "loop", !.file = {}]
    /\ UNCHANGED <<disk, importer, sweeper, cleaner, acking, retrying, world>>

RemoverDone ==
    /\ remover.pc = "loop"
    /\ remover.files = {}
    /\ RemoverReturns(FALSE)
    /\ UNCHANGED <<database, disk, importer, sweeper, acking, world>>

\* An unlink, a sync or a write fails.
RemoverError ==
    /\ events < MaxEvents
    /\ remover.pc \in {"loop", "unlinked"}
    /\ RemoverReturns(TRUE)
    /\ events' = events + 1
    /\ UNCHANGED <<database, disk, importer, sweeper, acking, download, picked, operation, runner>>

\* The retry is scheduled after the mutex was released.
RemoverRetry(b) ==
    /\ b \in retrying
    /\ ScheduleExplicitDeliveryDeleteRetry(b)
    /\ retrying' = retrying \ {b}
    /\ UNCHANGED <<disk, importer, sweeper, cleaner, remover, acking, world>>

\* The operator cancels a request while no lock is held and no import runs.
AbandonDelete(b) ==
    /\ remover.pc = "idle"
    /\ ~DownloadLocked
    /\ ~ImportRunning
    /\ AbandonExplicitDeliveryDelete(b)
    /\ UNCHANGED <<disk, threads, world>>

(* Cleanup of what the library holds *)

\* One cleanup job per receipt: it reads the receipt, and remembers every
\* file a request still owns before it resumes the requests.
CleanerStart ==
    /\ cleaner.pc = "idle"
    /\ CleanupDue(operation = "complete")
    /\ cleaner' = [CleanerIdle EXCEPT !.pc = "resume", !.imported = receipt.state = "imported",
                     !.due = PendingBatches, !.explicit = UNION {Unrecorded(b) : b \in PendingBatches}]
    /\ UNCHANGED <<database, disk, importer, sweeper, remover, acking, retrying, world>>

\* Payload is kept until the import is stamped.  The rows are read once.
CleanerRead ==
    /\ cleaner.pc = "resume"
    /\ cleaner.due = {}
    /\ cleaner' =
         IF ~cleaner.imported THEN CleanerIdle
         ELSE [cleaner EXCEPT !.pc = "files", !.imported = FALSE,
                 !.promote = {f \in Files : /\ ledger[f].excess /\ operation = "complete"
                                            /\ ledger[f].cleanup # "removed" /\ ledger[f].disposition # "disposable"},
                 !.todo = {f \in Files \ cleaner.explicit :
                             ledger[f].cleanup \in {"pending", "retry"} /\ ledger[f].disposition \in Eligible}]
    /\ UNCHANGED <<database, disk, importer, sweeper, remover, acking, retrying, world>>

\* An excess file becomes disposable once the replacement is complete and its
\* selected placements are proved; the ledger learns that in two writes.
CleanerPromote(f) ==
    /\ cleaner.pc = "files"
    /\ f \in cleaner.promote
    /\ IF Covered
         THEN /\ ledger' = [ledger EXCEPT ![f] = UpdateDeliveryFileDisposition(@, "disposable")]
              /\ cleaner' = [cleaner EXCEPT !.pc = "promote", !.promote = @ \ {f}, !.file = {f}]
         ELSE /\ ledger' = [ledger EXCEPT ![f] = ScheduleProtectedDeliveryFileRetry(@)]
              /\ cleaner' = [cleaner EXCEPT !.promote = @ \ {f}, !.todo = @ \ {f}]
    /\ UNCHANGED <<receipt, batch, deleted, disk, importer, sweeper, remover, acking, retrying, world>>

CleanerPromoted ==
    /\ cleaner.pc = "promote"
    /\ \E f \in cleaner.file :
         /\ SetDeliveryFileCleanup(f, "pending", FALSE)
         /\ cleaner' = [cleaner EXCEPT !.pc = "files", !.file = {}, !.todo = (@ \cup {f}) \ cleaner.explicit]
    /\ UNCHANGED <<disk, importer, sweeper, remover, acking, retrying, world>>

\* The file of the library a proof rests on is still the title's own.
LibraryEvidenceOwned(f) == f \in library

\* The proof that the bytes may go, by what became of the file.
Proved(f) == IF ledger[f].disposition = "disposable" THEN Covered ELSE LibraryEvidenceOwned(f)

\* The long part of a removal, without locks: an absent file is settled, a
\* changed one is kept, and the rest depends on the proof.  A placement that
\* is gone is final; a library that cannot be read is tried again.
CleanerProve(f) ==
    /\ cleaner.pc = "files"
    /\ cleaner.promote = {}
    /\ f \in cleaner.todo
    /\ \/ /\ payload[f] = "gone"
          /\ folder
          /\ cleaner' = [cleaner EXCEPT !.pc = "stamp", !.todo = @ \ {f}, !.file = {f}]
          /\ UNCHANGED database
       \/ /\ payload[f] = "original"
          /\ Proved(f)
          /\ cleaner' = [cleaner EXCEPT !.pc = "proved", !.todo = @ \ {f}, !.file = {f}]
          /\ UNCHANGED database
       \/ /\ payload[f] = "altered" \/ ~Proved(f)
          /\ cleaner' = [cleaner EXCEPT !.todo = @ \ {f}]
          /\ SetDeliveryFileCleanup(f, IF payload[f] = "original" /\ ledger[f].disposition = "placed"
                                         THEN "protected" ELSE "retry", TRUE)
    /\ UNCHANGED <<disk, importer, sweeper, remover, acking, retrying, world>>

\* Mutant: the proof made before the locks is trusted.
UnlinkOnOldProof(f) == ~HasPendingExplicitDeliveryDelete(f) /\ payload[f] = "original"

\* Under the target and storage-decision locks everything that could have
\* changed meanwhile is looked at again.
CleanerMayUnlink(f) ==
    /\ ~HasPendingExplicitDeliveryDelete(f)
    /\ Proved(f)
    /\ payload[f] = "original"

CleanerUnlink ==
    /\ cleaner.pc = "proved"
    /\ ~TargetLocked
    /\ \E f \in cleaner.file :
         IF CleanerMayUnlink(f)
           THEN /\ payload' = [payload EXCEPT ![f] = "gone"]
                /\ cleaner' = [cleaner EXCEPT !.pc = "stamp"]
                /\ UNCHANGED database
           ELSE /\ SetDeliveryFileCleanup(f, "retry", TRUE)
                /\ cleaner' = [cleaner EXCEPT !.pc = "files", !.file = {}]
                /\ UNCHANGED payload
    /\ UNCHANGED <<folder, library, importer, sweeper, remover, acking, retrying, world>>

CleanerStamp ==
    /\ cleaner.pc = "stamp"
    /\ \E f \in cleaner.file : SetDeliveryFileCleanup(f, "removed", FALSE)
    /\ cleaner' = [cleaner EXCEPT !.pc = "files", !.file = {}]
    /\ UNCHANGED <<disk, importer, sweeper, remover, acking, retrying, world>>

\* A request that was pending keeps the directory for its replay.
CleanerFilesDone ==
    /\ cleaner.pc = "files"
    /\ cleaner.promote = {} /\ cleaner.todo = {}
    /\ IF cleaner.explicit # {} \/ receipt.state = "conflict"
         THEN cleaner' = CleanerIdle /\ UNCHANGED database
         ELSE SetDeliveryDirectoryCleanup("pending") /\ cleaner' = [CleanerIdle EXCEPT !.pc = "directory"]
    /\ UNCHANGED <<disk, importer, sweeper, remover, acking, retrying, world>>

DirectoryFree == PendingBatches = {}

\* The empty publication directory is removed unless a request came in.
CleanerDirectory ==
    /\ cleaner.pc = "directory"
    /\ ~TargetLocked
    /\ folder' = (folder /\ ~(DirectoryFree /\ \A f \in Files : payload[f] = "gone"))
    /\ cleaner' = [cleaner EXCEPT !.pc = IF ~DirectoryFree THEN "blocked" ELSE "emptied"]
    /\ UNCHANGED <<database, payload, library, importer, sweeper, remover, acking, retrying, world>>

CleanerDirectoryDone ==
    /\ cleaner.pc \in {"blocked", "emptied"}
    /\ SetDeliveryDirectoryCleanup(IF cleaner.pc = "blocked" THEN "retry"
                                   ELSE IF folder THEN "protected" ELSE "removed")
    /\ cleaner' = CleanerIdle
    /\ UNCHANGED <<disk, importer, sweeper, remover, acking, retrying, world>>

(* Surroundings *)

\* The replacement this download serves has its selected files.
ReplacementCompletes ==
    /\ operation = "running"
    /\ download = "imported"
    /\ \A f \in Files \ Excess : ledger[f].disposition = "placed"
    /\ operation' = "complete"
    /\ UNCHANGED <<database, disk, threads, download, picked, runner, events>>

\* Somebody else edits a published file, or removes a file of the library.
OutsideChange ==
    /\ events < MaxEvents
    /\ \E f \in Files :
         \/ payload[f] = "original" /\ payload' = [payload EXCEPT ![f] = "altered"] /\ UNCHANGED library
         \/ f \in library /\ library' = library \ {f} /\ UNCHANGED payload
    /\ events' = events + 1
    /\ UNCHANGED <<database, folder, threads, download, picked, operation, runner>>

\* The process stops; queues, locks and snapshots are gone.
Crash ==
    /\ events < MaxEvents
    /\ threads # <<ImporterIdle, SweeperIdle, CleanerIdle, RemoverIdle, NotAcking, {}>>
    /\ importer' = ImporterIdle /\ sweeper' = SweeperIdle /\ cleaner' = CleanerIdle
    /\ remover' = RemoverIdle /\ acking' = NotAcking /\ retrying' = {}
    /\ events' = events + 1
    /\ UNCHANGED <<database, disk, download, picked, operation, runner>>

SweepStep == SweepRead \/ SweepDownload \/ SweepAct

AckStep == \E t \in {"importer", "sweeper"} : CompleteDeliveryAcceptance(t) \/ DeliveryAnswer(t)

ImporterStep ==
    \/ ImporterStart \/ VerifyDeliveryManifest \/ ImporterPrepare \/ ImporterCheck
    \/ \E f \in Files : PlaceFile(f)
    \/ RecordDeliveryImportOutcomes \/ ImporterFinish \/ ImporterMark

RemoverStep ==
    \/ RemoverVerify \/ RemoverPrepare
    \/ \E f \in Files : RemoverFile(f)
    \/ RemoverComplete \/ RemoverDone
    \/ \E b \in Batches : RemoverRetry(b)

CleanerStep ==
    \/ CleanerStart \/ CleanerRead
    \/ \E b \in Batches : ResumeDelete(b)
    \/ \E f \in Files : CleanerPromote(f) \/ CleanerProve(f)
    \/ CleanerPromoted \/ CleanerUnlink \/ CleanerStamp
    \/ CleanerFilesDone \/ CleanerDirectory \/ CleanerDirectoryDone

Next ==
    \/ \E changed \in BOOLEAN : Discover(changed)
    \/ RefreshSourceCleanup \/ RetryRunnerSourceCleanup
    \/ SweepStep \/ AckStep \/ ImporterStep \/ RemoverStep \/ CleanerStep
    \/ \E files \in SUBSET Files : QueueDeliveryImport(files)
    \/ \E b \in Batches, files \in SUBSET Files : RequestDelete(b, files)
    \/ \E b \in Batches : AbandonDelete(b)
    \/ RemoverError \/ ReplacementCompletes \/ OutsideChange \/ Crash

Spec == Init /\ [][Next]_vars

(* Properties *)

TypeOK ==
    /\ receipt \in [state : States, ack : {"not_accepted", "pending", "accepted"}, consumer : Consumers \cup {NoConsumer},
                    associated : BOOLEAN, directory : CleanupStates \cup {"none"}]
    /\ ledger \in [Files -> [disposition : Dispositions, cleanup : CleanupStates, noted : BOOLEAN, excess : BOOLEAN]]
    /\ batch \in [Batches -> [state : {"none", "open", "abandoned"}, files : SUBSET Files,
                              seen : SUBSET Files, recorded : SUBSET Files]]
    /\ deleted \in [Batches -> [Files -> Nat]]
    /\ payload \in [Files -> {"original", "altered", "gone"}]
    /\ library \in SUBSET Files
    /\ download \in {"downloading", "awaiting_import", "importing", "imported", "failed"}
    /\ runner \in Consumers \cup {NoConsumer}

\* A published file disappears only when the library still holds it at that
\* moment, or its replacement is complete and in place, or a reviewed request
\* that nobody cancelled names it: whatever was proved before the locks were
\* taken, whatever was proved before a crash.
RemovalIsCovered ==
    [][\A f \in Files :
          payload[f] # "gone" /\ payload'[f] = "gone" =>
              f \in library \/ (f \in Excess /\ Covered) \/ HasPendingExplicitDeliveryDelete(f)]_vars

\* "A removed file is never put back": a ledger row says removed only of a
\* file that is gone, and a recorded deletion is one of those.
RemovedIsGone ==
    /\ \A f \in Files : ledger[f].cleanup = "removed" => payload[f] = "gone"
    /\ \A b \in Batches : \A f \in batch[b].recorded : ledger[f].cleanup = "removed"

\* One history event for each reviewed file that was removed, however often
\* the request was interrupted and replayed, and none for the others.
OneEventPerReviewedFile ==
    \A b \in Batches, f \in Files : deleted[b][f] = IF f \in batch[b].recorded THEN 1 ELSE 0

\* Runner records the consumer id the receipt holds: no crash between drawing
\* it, storing it and sending it leaves Runner with an id Curator forgot.
RunnerKnowsOurReceipt == runner # NoConsumer => runner = receipt.consumer

=============================================================================
