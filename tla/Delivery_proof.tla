---------------------------- MODULE Delivery_proof ----------------------------
(***************************************************************************)
(* Proofs about Delivery, for any set of files, of receipt ids and of      *)
(* deletion requests and any number of disturbances.                       *)
(*                                                                         *)
(* The argument: a row of the ledger moves one way (Moves): it keeps a     *)
(* disposition once it has one, it says removed for good, and it says so   *)
(* only of a file that is gone.  The threads that are about to write       *)
(* "removed" hold a file they saw gone or unlinked themselves              *)
(* (ThreadsAbsent), and only an excess file is ever disposable (Surplus).  *)
(* The consumer id is drawn once and before Runner hears of it (Told).     *)
(*                                                                         *)
(* And about Payloads, for any set of rows and paths and any number of     *)
(* generations and faults: every reported generation has one receipt, in   *)
(* step with its row while the row names it (ReceiptsFollow), an imported  *)
(* payload that was not removed keeps its row (RemainingIsOwned), and what *)
(* the cleanup holds is a reported download whose row keeps its payload    *)
(* (RefsKnown, TaskHolds).                                                 *)
(***************************************************************************)
EXTENDS Delivery, Payloads, TLAPS

Accepts == {"not_accepted", "pending", "accepted"}

Receipts ==
    [state : States, ack : Accepts, consumer : Consumers \cup {NoConsumer},
     associated : BOOLEAN, directory : CleanupStates \cup {"none"}]

LedgerRows == [disposition : Dispositions, cleanup : CleanupStates, noted : BOOLEAN, excess : BOOLEAN]

BatchRows ==
    [state : {"none", "open", "abandoned"}, files : SUBSET Files, seen : SUBSET Files, recorded : SUBSET Files]

Importers ==
    [pc : {"idle", "queued", "verify", "prepare", "check", "recheck", "place", "finish", "mark"} \cup Asking,
     files : SUBSET Files, todo : SUBSET Files, placed : SUBSET Files, ok : BOOLEAN]

Sweepers == [pc : {"idle", "read", "act", "ask"}, state : States, ack : Accepts, imported : BOOLEAN, picked : BOOLEAN]

Cleaners ==
    [pc : {"idle", "resume", "resuming", "files", "promote", "proved", "stamp", "directory", "blocked", "emptied"},
     imported : BOOLEAN, due : SUBSET Batches, explicit : SUBSET Files, promote : SUBSET Files,
     todo : SUBSET Files, file : SUBSET Files]

Removers ==
    [pc : {"idle", "begin", "prepare", "loop", "unlinked"}, by : {"nobody", "operator", "cleaner"},
     batch : SUBSET Batches, files : SUBSET Files, seen : SUBSET Files, absent : SUBSET Files, file : SUBSET Files]

Acks ==
    [by : {"nobody", "importer", "sweeper"}, id : Consumers \cup {NoConsumer},
     reply : {"none", "accepted", "refused", "lost"}]

TablesTyped ==
    /\ receipt \in Receipts
    /\ ledger \in [Files -> LedgerRows]
    /\ batch \in [Batches -> BatchRows]
    /\ deleted \in [Batches -> [Files -> Nat]]

ThreadsTyped ==
    /\ importer \in Importers /\ sweeper \in Sweepers /\ cleaner \in Cleaners /\ remover \in Removers
    /\ acking \in Acks /\ retrying \in SUBSET Batches

WorldTyped ==
    /\ payload \in [Files -> {"original", "altered", "gone"}]
    /\ folder \in BOOLEAN
    /\ library \in SUBSET Files
    /\ download \in {"downloading", "awaiting_import", "importing", "imported", "failed"}
    /\ picked \in SUBSET Files
    /\ operation \in {"running", "complete"}
    /\ runner \in Consumers \cup {NoConsumer}


Typed == TablesTyped /\ ThreadsTyped /\ WorldTyped

\* Runner heard of an id only after it was drawn, and it is drawn once.
Told == runner # NoConsumer => runner = receipt.consumer /\ receipt.ack # "not_accepted"

\* A recorded deletion has its one event and its row.
Recorded ==
    \A b \in Batches :
        /\ batch[b].state = "none" => batch[b].recorded = {}
        /\ \A f \in Files : deleted[b][f] = IF f \in batch[b].recorded THEN 1 ELSE 0
        /\ \A f \in batch[b].recorded : ledger[f].cleanup = "removed"

RowsAbsent ==
    \A f \in Files : ledger[f].cleanup = "removed" => payload[f] = "gone" /\ ledger[f].disposition # "none"

\* What a thread is about to confirm is gone, and has a row.
ThreadsAbsent ==
    /\ \A f \in remover.absent \cup remover.file : payload[f] = "gone"
    /\ remover.pc # "unlinked" => remover.file = {}
    /\ cleaner.pc = "stamp" => \A f \in cleaner.file : payload[f] = "gone"
    /\ \A f, g \in cleaner.file : f = g
    /\ remover.pc \in {"prepare", "loop", "unlinked"} =>
         \A f \in remover.files \cup remover.file : ledger[f].disposition # "none"

RowsSurplus == \A f \in Files : ledger[f].excess \/ ledger[f].disposition = "disposable" => f \in Excess

Surplus == RowsSurplus /\ cleaner.promote \subseteq Excess

Inv == Typed /\ Told /\ Recorded /\ RowsAbsent /\ ThreadsAbsent /\ Surplus

-----------------------------------------------------------------------------
(* How the ledger moves. *)

Moves(f, old, new) ==
    /\ new \in LedgerRows
    /\ old.disposition # "none" =>
         /\ new.disposition # "none"
         /\ old.cleanup = "removed" => new.cleanup = "removed"
    /\ new.cleanup = "removed" => old.cleanup = "removed" \/ (payload[f] = "gone" /\ new.disposition # "none")
    /\ new.excess \/ new.disposition = "disposable" =>
         old.excess \/ old.disposition = "disposable" \/ f \in Excess

LedgerMoves ==
    /\ ledger' \in [Files -> LedgerRows]
    /\ \A f \in Files : Moves(f, ledger[f], ledger'[f])

LEMMA MovesStays ==
    ASSUME NEW f \in Files, NEW row \in LedgerRows
    PROVE  Moves(f, row, row)
BY DEF Moves

LEMMA OneRowMoves ==
    ASSUME ledger \in [Files -> LedgerRows], NEW g \in Files, NEW new, Moves(g, ledger[g], new),
           ledger' = [ledger EXCEPT ![g] = new]
    PROVE  LedgerMoves
<1>1. new \in LedgerRows
  BY DEF Moves
<1>2. ASSUME NEW f \in Files PROVE Moves(f, ledger[f], ledger'[f])
  <2>1. CASE f = g
    BY <2>1
  <2>2. CASE f # g
    BY <2>2, MovesStays
  <2>. QED BY <2>1, <2>2
<1>. QED BY <1>1, <1>2 DEF LedgerMoves

LEMMA CommitMoves ==
    ASSUME NEW f \in Files, NEW row \in LedgerRows, NEW d \in Dispositions \ {"none"},
           d = "disposable" => f \in Excess
    PROVE  Moves(f, row, CommitDeliveryFileOutcome(row, d))
<1>1. \A c \in {row.cleanup, "pending"} :
        (c = "removed" <=> row.cleanup = "removed")
            => Moves(f, row, [row EXCEPT !.disposition = d, !.cleanup = c])
  BY DEF Moves, LedgerRows, CleanupStates
<1>2. Moves(f, row, row)
  BY MovesStays
<1>. QED
  BY <1>1, <1>2 DEF CommitDeliveryFileOutcome

LEMMA UpdateMoves ==
    ASSUME NEW f \in Files, NEW row \in LedgerRows, NEW d \in Dispositions \ {"none"},
           d = "disposable" => f \in Excess
    PROVE  Moves(f, row, UpdateDeliveryFileDisposition(row, d))
BY DEF Moves, UpdateDeliveryFileDisposition, LedgerRows

LEMMA RetryMoves ==
    ASSUME NEW f \in Files, NEW row \in LedgerRows
    PROVE  Moves(f, row, ScheduleProtectedDeliveryFileRetry(row))
BY DEF Moves, ScheduleProtectedDeliveryFileRetry, LedgerRows, CleanupStates

\* What the rows promise survives every move.
LEMMA RowsKept ==
    ASSUME Inv, LedgerMoves, \A f \in Files : payload[f] = "gone" => payload'[f] = "gone"
    PROVE  /\ RowsAbsent' /\ RowsSurplus'
           /\ \A f \in Files : ledger[f].disposition # "none" => ledger'[f].disposition # "none"
           /\ \A f \in Files : ledger[f].cleanup = "removed" => ledger'[f].cleanup = "removed"
<1>1. ASSUME NEW f \in Files
      PROVE  /\ ledger[f].disposition # "none" => ledger'[f].disposition # "none"
             /\ ledger[f].cleanup = "removed" => ledger'[f].cleanup = "removed"
             /\ ledger'[f].cleanup = "removed" => payload'[f] = "gone" /\ ledger'[f].disposition # "none"
             /\ ledger'[f].excess \/ ledger'[f].disposition = "disposable" => f \in Excess
  BY DEF Inv, RowsAbsent, Surplus, RowsSurplus, LedgerMoves, Moves
<1>. QED BY <1>1 DEF RowsAbsent, RowsSurplus

\* A step that leaves the tables of files, the files and the two threads that
\* remove them alone.
LEMMA Quiet ==
    ASSUME Inv, UNCHANGED <<ledger, batch, deleted, payload, cleaner, remover>>
    PROVE  Recorded' /\ RowsAbsent' /\ ThreadsAbsent' /\ Surplus'
BY DEF Inv, Recorded, RowsAbsent, ThreadsAbsent, Surplus, RowsSurplus

\* A step that moves rows and touches no request.
LEMMA RowsOnly ==
    ASSUME Inv, LedgerMoves, UNCHANGED <<batch, deleted, payload>>
    PROVE  /\ Recorded' /\ RowsAbsent' /\ RowsSurplus'
           /\ UNCHANGED remover => \A f \in remover.absent \cup remover.file : payload'[f] = "gone"
           /\ UNCHANGED <<remover, cleaner>> => ThreadsAbsent' /\ Surplus'
<1>1. /\ RowsAbsent' /\ RowsSurplus'
      /\ \A f \in Files : ledger[f].disposition # "none" => ledger'[f].disposition # "none"
      /\ \A f \in Files : ledger[f].cleanup = "removed" => ledger'[f].cleanup = "removed"
  BY RowsKept
<1>2. Recorded'
  BY <1>1 DEF Inv, Typed, TablesTyped, BatchRows, Recorded
<1>3. ASSUME UNCHANGED <<remover, cleaner>> PROVE ThreadsAbsent'
  BY <1>1, <1>3 DEF Inv, Typed, ThreadsTyped, Removers, ThreadsAbsent
<1>. QED BY <1>1, <1>2, <1>3 DEF Inv, ThreadsAbsent, Surplus

-----------------------------------------------------------------------------
(* How the receipt moves. *)

ReceiptMoves ==
    /\ receipt' \in Receipts
    /\ receipt.ack # "not_accepted" => receipt'.ack # "not_accepted" /\ receipt'.consumer = receipt.consumer

LEMMA ReceiptStays ==
    ASSUME Inv, UNCHANGED receipt
    PROVE  ReceiptMoves
BY DEF Inv, Typed, TablesTyped, ReceiptMoves

LEMMA DiscoveredMoves ==
    ASSUME Inv, NEW changed \in BOOLEAN, SaveDiscoveredDelivery(changed)
    PROVE  ReceiptMoves
BY DEF Inv, Typed, TablesTyped, ReceiptMoves, SaveDiscoveredDelivery, Receipts, States

LEMMA StateMoves ==
    ASSUME Inv, SetDeliveryConflict \/ SetDeliveryImported \/ AssociateDelivery
    PROVE  ReceiptMoves
<1>1. CASE SetDeliveryConflict
  BY <1>1 DEF Inv, Typed, TablesTyped, ReceiptMoves, SetDeliveryConflict, Receipts, States
<1>2. CASE SetDeliveryImported
  BY <1>2 DEF Inv, Typed, TablesTyped, ReceiptMoves, SetDeliveryImported, Receipts, States
<1>3. CASE AssociateDelivery
  BY <1>3 DEF Inv, Typed, TablesTyped, ReceiptMoves, AssociateDelivery, Receipts
<1>. QED BY <1>1, <1>2, <1>3

LEMMA AcceptanceMoves ==
    ASSUME Inv,
           \/ \E id \in Consumers : PrepareDeliveryAcceptance(id)
           \/ \E id \in Consumers \cup {NoConsumer} : SetDeliveryAccepted(id)
    PROVE  ReceiptMoves
<1>1. ASSUME NEW id \in Consumers, PrepareDeliveryAcceptance(id) PROVE ReceiptMoves
  BY <1>1 DEF Inv, Typed, TablesTyped, ReceiptMoves, PrepareDeliveryAcceptance, Receipts, States, Accepts
<1>2. ASSUME NEW id \in Consumers \cup {NoConsumer}, SetDeliveryAccepted(id) PROVE ReceiptMoves
  BY <1>2 DEF Inv, Typed, TablesTyped, ReceiptMoves, SetDeliveryAccepted, Acceptable, Receipts, Accepts
<1>. QED BY <1>1, <1>2

LEMMA ReopenMoves ==
    ASSUME Inv, QueueDeliveryReimport(receipt.state)
    PROVE  ReceiptMoves
BY DEF Inv, Typed, TablesTyped, ReceiptMoves, QueueDeliveryReimport, Receipts, States

LEMMA DirectoryMoves ==
    ASSUME Inv, NEW d \in CleanupStates \cup {"none"}, SetDeliveryDirectoryCleanup(d)
    PROVE  ReceiptMoves
BY DEF Inv, Typed, TablesTyped, ReceiptMoves, SetDeliveryDirectoryCleanup, Receipts

LEMMA ToldKept ==
    ASSUME Inv, ReceiptMoves, UNCHANGED runner
    PROVE  Told'
BY DEF Inv, Told, ReceiptMoves

\* Steps of the receipt, of the import and of the acknowledgement that write
\* no row of the ledger.
LEMMA QuietStep ==
    ASSUME Inv, ReceiptMoves, Told', ThreadsTyped', WorldTyped',
           UNCHANGED <<ledger, batch, deleted, payload, cleaner, remover>>
    PROVE  Inv'
<1>1. TablesTyped'
  BY DEF Inv, Typed, TablesTyped, ReceiptMoves
<1>. QED BY <1>1, Quiet DEF Inv, Typed

-----------------------------------------------------------------------------
(* Discovery and the receipt sweep *)

LEMMA DiscoverKeeps ==
    ASSUME Inv, NEW changed \in BOOLEAN, Discover(changed)
    PROVE  Inv'
<1>1. ReceiptMoves
  BY DiscoveredMoves DEF Discover
<1>2. ThreadsTyped' /\ WorldTyped' /\ UNCHANGED <<runner, ledger, batch, deleted, payload, cleaner, remover>>
  BY DEF Discover, SaveDiscoveredDelivery, disk, threads, Inv, Typed, ThreadsTyped, WorldTyped
<1>. QED BY <1>1, <1>2, ToldKept, QuietStep

LEMMA RefreshKeeps ==
    ASSUME Inv, RefreshSourceCleanup \/ RetryRunnerSourceCleanup
    PROVE  Inv'
<1>1. RefreshSourceCleanup
  BY DEF RetryRunnerSourceCleanup
<1>2. ReceiptMoves
  BY <1>1, StateMoves DEF RefreshSourceCleanup
<1>3. ThreadsTyped' /\ WorldTyped' /\ UNCHANGED <<runner, ledger, batch, deleted, payload, cleaner, remover>>
  BY <1>1 DEF RefreshSourceCleanup, SetDeliveryConflict, disk, threads, Inv, Typed, ThreadsTyped, WorldTyped
<1>. QED BY <1>2, <1>3, ToldKept, QuietStep

LEMMA SweepReadKeeps ==
    ASSUME Inv, SweepRead
    PROVE  Inv'
<1>1. sweeper' \in Sweepers
  BY DEF Inv, Typed, ThreadsTyped, TablesTyped, Sweepers, SweeperIdle, Receipts, SweepRead
<1>2. ThreadsTyped' /\ WorldTyped' /\ ReceiptMoves /\ UNCHANGED <<runner, ledger, batch, deleted, payload, cleaner, remover>>
  BY <1>1, ReceiptStays DEF SweepRead, database, disk, world, Inv, Typed, ThreadsTyped, WorldTyped
<1>. QED BY <1>2, ToldKept, QuietStep

LEMMA SweepDownloadKeeps ==
    ASSUME Inv, SweepDownload
    PROVE  Inv'
<1>1. ReceiptMoves /\ UNCHANGED <<ledger, batch, deleted>>
  BY ReceiptStays, StateMoves DEF SweepDownload, AssociateDelivery, database
<1>2. sweeper' \in Sweepers
  <2>1. (download = "imported") \in BOOLEAN /\ (picked # {}) \in BOOLEAN
    OBVIOUS
  <2>2. SweeperIdle \in Sweepers /\ [SweeperIdle EXCEPT !.pc = "ask"] \in Sweepers
    BY DEF SweeperIdle, Sweepers, States, Accepts
  <2>3. \A i, p \in BOOLEAN : [sweeper EXCEPT !.pc = "act", !.imported = i, !.picked = p] \in Sweepers
    BY DEF Inv, Typed, ThreadsTyped, Sweepers
  <2>. QED BY <2>1, <2>2, <2>3 DEF SweepDownload
<1>3. ThreadsTyped' /\ WorldTyped' /\ UNCHANGED <<runner, payload, cleaner, remover>>
  BY <1>2 DEF SweepDownload, disk, world, Inv, Typed, ThreadsTyped, WorldTyped
<1>. QED BY <1>1, <1>3, ToldKept, QuietStep

LEMMA SweepActKeeps ==
    ASSUME Inv, SweepAct
    PROVE  Inv'
<1>1. ReceiptMoves /\ UNCHANGED <<ledger, batch, deleted>>
  BY ReceiptStays, StateMoves DEF SweepAct, SetDeliveryImported, database
<1>2. sweeper' \in Sweepers
  BY DEF SweepAct, SweeperIdle, Sweepers, States, Accepts
<1>3. importer' \in Importers
  BY DEF SweepAct, EnqueueDeliveryImport, ImporterIdle, Importers, Inv, Typed, ThreadsTyped
<1>4. ThreadsTyped' /\ WorldTyped' /\ UNCHANGED <<runner, payload, cleaner, remover>>
  BY <1>2, <1>3 DEF SweepAct, disk, world, Inv, Typed, ThreadsTyped, WorldTyped
<1>. QED BY <1>1, <1>4, ToldKept, QuietStep

-----------------------------------------------------------------------------
(* Acknowledgement *)

LEMMA AcknowledgedTyped ==
    ASSUME Inv, NEW t \in {"importer", "sweeper"}, NEW outcome, Acknowledged(t, outcome)
    PROVE  importer' \in Importers /\ sweeper' \in Sweepers
<1>1. SweeperIdle \in Sweepers /\ ImporterIdle \in Importers
  BY DEF SweeperIdle, Sweepers, ImporterIdle, Importers, States, Accepts
<1>2. importer \in Importers /\ sweeper \in Sweepers
  BY DEF Inv, Typed, ThreadsTyped
<1>3. \A p \in {"recheck", "mark"} : [importer EXCEPT !.pc = p] \in Importers
  BY <1>2 DEF Importers
<1>. QED BY <1>1, <1>2, <1>3 DEF Acknowledged

LEMMA AskKeeps ==
    ASSUME Inv, NEW t \in {"importer", "sweeper"}, CompleteDeliveryAcceptance(t)
    PROVE  Inv'
<1>1. UNCHANGED <<receipt, ledger, batch, deleted, payload, cleaner, remover>>
  BY DEF CompleteDeliveryAcceptance, database, disk
<1>2. Told' /\ runner' \in Consumers \cup {NoConsumer}
  BY <1>1 DEF CompleteDeliveryAcceptance, Inv, Told, Typed, TablesTyped, WorldTyped, Receipts
<1>3. importer' \in Importers /\ sweeper' \in Sweepers
  BY AcknowledgedTyped DEF CompleteDeliveryAcceptance, Inv, Typed, ThreadsTyped
<1>4. acking' \in Acks
  BY DEF CompleteDeliveryAcceptance, Inv, Typed, TablesTyped, ThreadsTyped, Receipts, Acks
<1>5. ThreadsTyped' /\ WorldTyped'
  BY <1>1, <1>2, <1>3, <1>4 DEF CompleteDeliveryAcceptance, disk, Inv, Typed, ThreadsTyped, WorldTyped
<1>. QED BY <1>1, <1>2, <1>5, ReceiptStays, QuietStep

LEMMA AnswerKeeps ==
    ASSUME Inv, NEW t \in {"importer", "sweeper"}, DeliveryAnswer(t)
    PROVE  Inv'
<1>1. acking.id \in Consumers \cup {NoConsumer}
  BY DEF Inv, Typed, ThreadsTyped, Acks
<1>2. ReceiptMoves /\ UNCHANGED <<ledger, batch, deleted>>
  BY <1>1, ReceiptStays, StateMoves, AcceptanceMoves
     DEF DeliveryAnswer, SetDeliveryAccepted, SetDeliveryConflict, database
<1>3. importer' \in Importers /\ sweeper' \in Sweepers
  BY AcknowledgedTyped DEF DeliveryAnswer
<1>4. acking' \in Acks
  BY DEF DeliveryAnswer, NotAcking, Acks
<1>5. ThreadsTyped' /\ WorldTyped' /\ UNCHANGED <<runner, payload, cleaner, remover>>
  BY <1>3, <1>4 DEF DeliveryAnswer, disk, world, Inv, Typed, ThreadsTyped, WorldTyped
<1>. QED BY <1>2, <1>5, ToldKept, QuietStep

-----------------------------------------------------------------------------
(* Import *)

LEMMA IdleImporterTyped == ImporterIdle \in Importers
BY DEF ImporterIdle, Importers

LEMMA ImporterAt ==
    ASSUME NEW i \in Importers, NEW p \in {"queued", "verify", "prepare", "check", "recheck", "place", "finish", "mark"} \cup Asking
    PROVE  [i EXCEPT !.pc = p] \in Importers
BY DEF Importers

\* Steps of the importer that only decide where it goes.
LEMMA ImporterMoves ==
    ASSUME Inv, ImporterStart \/ VerifyDeliveryManifest \/ ImporterFinish
    PROVE  Inv'
<1>1. importer \in Importers /\ Unsettled \in SUBSET Files
  BY DEF Inv, Typed, ThreadsTyped, Unsettled
<1>2. CASE ImporterStart
  <2>1. importer' \in Importers
    BY <1>1, <1>2, ImporterAt, IdleImporterTyped DEF ImporterStart, Asking
  <2>2. ThreadsTyped' /\ WorldTyped' /\ UNCHANGED <<receipt, runner, ledger, batch, deleted, payload, cleaner, remover>>
    BY <1>2, <2>1 DEF ImporterStart, database, disk, world, Inv, Typed, ThreadsTyped, WorldTyped
  <2>. QED BY <2>2, ReceiptStays, ToldKept, QuietStep
<1>3. CASE VerifyDeliveryManifest
  <2>1. \A p \in {"check", "ask", "prepare"} : [importer EXCEPT !.files = Unsettled, !.pc = p] \in Importers
    BY <1>1 DEF Importers, Asking
  <2>2. importer' \in Importers
    BY <1>3, <2>1, IdleImporterTyped DEF VerifyDeliveryManifest
  <2>3. ThreadsTyped' /\ WorldTyped' /\ UNCHANGED <<receipt, runner, ledger, batch, deleted, payload, cleaner, remover>>
    BY <1>3, <2>2 DEF VerifyDeliveryManifest, database, disk, world, Inv, Typed, ThreadsTyped, WorldTyped
  <2>. QED BY <2>3, ReceiptStays, ToldKept, QuietStep
<1>4. CASE ImporterFinish
  <2>1. importer' \in Importers
    BY <1>4, ImporterAt, IdleImporterTyped DEF ImporterFinish, Asking
  <2>2. ThreadsTyped' /\ WorldTyped' /\ UNCHANGED <<receipt, runner, ledger, batch, deleted, payload, cleaner, remover>>
    BY <1>4, <2>1 DEF ImporterFinish, database, disk, Inv, Typed, ThreadsTyped, WorldTyped
  <2>. QED BY <2>2, ReceiptStays, ToldKept, QuietStep
<1>. QED BY <1>2, <1>3, <1>4

LEMMA PrepareKeeps ==
    ASSUME Inv, ImporterPrepare
    PROVE  Inv'
<1>1. ReceiptMoves /\ UNCHANGED <<ledger, batch, deleted>>
  BY ReceiptStays, AcceptanceMoves DEF ImporterPrepare, PrepareDeliveryAcceptance, database
<1>2. importer' \in Importers
  BY ImporterAt, IdleImporterTyped DEF ImporterPrepare, Asking, Inv, Typed, ThreadsTyped
<1>3. ThreadsTyped' /\ WorldTyped' /\ UNCHANGED <<runner, payload, cleaner, remover>>
  BY <1>2 DEF ImporterPrepare, disk, world, Inv, Typed, ThreadsTyped, WorldTyped
<1>. QED BY <1>1, <1>3, ToldKept, QuietStep

LEMMA MarkKeeps ==
    ASSUME Inv, ImporterMark
    PROVE  Inv'
<1>1. ReceiptMoves /\ UNCHANGED <<ledger, batch, deleted>>
  BY StateMoves DEF ImporterMark, SetDeliveryImported
<1>2. ThreadsTyped' /\ WorldTyped' /\ UNCHANGED <<runner, payload, cleaner, remover>>
  BY IdleImporterTyped DEF ImporterMark, disk, world, Inv, Typed, ThreadsTyped, WorldTyped
<1>. QED BY <1>1, <1>2, ToldKept, QuietStep

LEMMA QueueImportKeeps ==
    ASSUME Inv, NEW files \in SUBSET Files, QueueDeliveryImport(files)
    PROVE  Inv'
<1>1. ReceiptMoves /\ UNCHANGED <<ledger, batch, deleted>>
  BY ReopenMoves DEF QueueDeliveryImport, QueueDeliveryReimport
<1>2. importer' \in Importers
  BY ImporterAt, IdleImporterTyped DEF QueueDeliveryImport, Inv, Typed, ThreadsTyped
<1>3. ThreadsTyped' /\ WorldTyped' /\ UNCHANGED <<runner, payload, cleaner, remover>>
  BY <1>2 DEF QueueDeliveryImport, disk, Inv, Typed, ThreadsTyped, WorldTyped
<1>. QED BY <1>1, <1>3, ToldKept, QuietStep

\* Steps of the importer that write rows.
LEMMA LedgerStep ==
    ASSUME Inv, LedgerMoves, importer' \in Importers, WorldTyped',
           UNCHANGED <<receipt, batch, deleted, payload, sweeper, cleaner, remover, acking, retrying, runner>>
    PROVE  Inv'
<1>1. Recorded' /\ RowsAbsent' /\ RowsSurplus' /\ ThreadsAbsent' /\ Surplus'
  BY RowsOnly
<1>2. Typed'
  BY DEF Inv, Typed, TablesTyped, ThreadsTyped, LedgerMoves
<1>3. Told'
  BY DEF Inv, Told
<1>. QED BY <1>1, <1>2, <1>3 DEF Inv

LEMMA NewRowMoves ==
    ASSUME Inv, NEW f \in Files, NEW d \in {"pending", "unselected"}, ledger[f].disposition = "none"
    PROVE  Moves(f, ledger[f], [EmptyRow EXCEPT !.disposition = d])
<1>1. [EmptyRow EXCEPT !.disposition = d] \in LedgerRows
  BY DEF EmptyRow, LedgerRows, Dispositions, Eligible, CleanupStates
<1>. QED BY <1>1 DEF Moves, EmptyRow

LEMMA CheckKeeps ==
    ASSUME Inv, ImporterCheck
    PROVE  Inv'
<1>1. LedgerMoves
  <2>1. CASE UNCHANGED ledger
    BY <2>1, MovesStays DEF Inv, Typed, TablesTyped, LedgerMoves
  <2>2. CASE EnsureDeliveryFileOutcomes(Selection \cap importer.files)
    <3>1. ASSUME NEW f \in Files PROVE Moves(f, ledger[f], ledger'[f])
      BY <2>2, MovesStays, NewRowMoves DEF EnsureDeliveryFileOutcomes, Inv, Typed, TablesTyped
    <3>2. ledger' \in [Files -> LedgerRows]
      BY <2>2, <3>1 DEF EnsureDeliveryFileOutcomes, Moves
    <3>. QED BY <3>1, <3>2 DEF LedgerMoves
  <2>. QED BY <2>1, <2>2 DEF ImporterCheck
<1>2. importer' \in Importers
  <2>1. [importer EXCEPT !.pc = "place", !.todo = Selection \cap importer.files] \in Importers
    BY DEF Inv, Typed, ThreadsTyped, Importers
  <2>. QED BY <2>1, IdleImporterTyped DEF ImporterCheck
<1>3. WorldTyped' /\ UNCHANGED <<receipt, batch, deleted, payload, sweeper, cleaner, remover, acking, retrying, runner>>
  BY DEF ImporterCheck, disk, Inv, Typed, WorldTyped
<1>. QED BY <1>1, <1>2, <1>3, LedgerStep

LEMMA PlaceKeeps ==
    ASSUME Inv, NEW f \in Files, PlaceFile(f)
    PROVE  Inv'
<1>1. LedgerMoves
  <2>1. CASE UNCHANGED ledger
    BY <2>1, MovesStays DEF Inv, Typed, TablesTyped, LedgerMoves
  <2>2. CASE ledger' = [ledger EXCEPT ![f] = CommitDeliveryFileOutcome(@, "placed")]
    <3>1. Moves(f, ledger[f], CommitDeliveryFileOutcome(ledger[f], "placed"))
      BY CommitMoves DEF Dispositions, Eligible, Inv, Typed, TablesTyped
    <3>. QED BY <2>2, <3>1, OneRowMoves DEF Inv, Typed, TablesTyped
  <2>. QED BY <2>1, <2>2 DEF PlaceFile
<1>2. importer' \in Importers
  <2>1. /\ [importer EXCEPT !.todo = @ \ {f}, !.placed = @ \cup {f}] \in Importers
        /\ [importer EXCEPT !.todo = @ \ {f}] \in Importers
    BY DEF Inv, Typed, ThreadsTyped, Importers
  <2>. QED BY <2>1 DEF PlaceFile
<1>3. WorldTyped' /\ UNCHANGED <<receipt, batch, deleted, payload, sweeper, cleaner, remover, acking, retrying, runner>>
  BY DEF PlaceFile, world, Inv, Typed, WorldTyped
<1>. QED BY <1>1, <1>2, <1>3, LedgerStep

\* Only an excess file is ever called disposable.
LEMMA NotPlacedDisposition ==
    ASSUME NEW f \in Files
    PROVE  /\ NotPlaced(f) \in Dispositions \ {"none"}
           /\ NotPlaced(f) = "disposable" => f \in Excess
BY DEF NotPlaced, Dispositions, Eligible

LEMMA OutcomesKeep ==
    ASSUME Inv, RecordDeliveryImportOutcomes
    PROVE  Inv'
<1> DEFINE skipped == (Selection \cap importer.files) \ importer.placed
<1>1. ASSUME NEW f \in Files PROVE Moves(f, ledger[f], ledger'[f])
  <2>0. ledger[f] \in LedgerRows
    BY DEF Inv, Typed, TablesTyped
  <2>1. CASE f \in skipped
    <3> DEFINE old == CommitDeliveryFileOutcome(ledger[f], NotPlaced(f))
               new == [old EXCEPT !.excess = f \in Excess]
    <3>1. Moves(f, ledger[f], old)
      BY <2>0, CommitMoves, NotPlacedDisposition
    <3>2. ledger'[f] = new
      BY <2>1 DEF RecordDeliveryImportOutcomes
    <3>3. (f \in Excess) \in BOOLEAN /\ old \in LedgerRows
      BY <3>1 DEF Moves
    <3> HIDE DEF old
    <3>4. ASSUME NEW x \in BOOLEAN, x = (f \in Excess) PROVE Moves(f, ledger[f], [old EXCEPT !.excess = x])
      BY <3>1, <3>3, <3>4 DEF Moves, LedgerRows
    <3>. QED BY <3>2, <3>3, <3>4
  <2>2. CASE f \notin skipped
    <3>1. Moves(f, ledger[f], UpdateDeliveryFileDisposition(ledger[f], "unknown"))
      BY <2>0, UpdateMoves DEF Dispositions
    <3>2. ledger'[f] \in {ledger[f], UpdateDeliveryFileDisposition(ledger[f], "unknown")}
      BY <2>2 DEF RecordDeliveryImportOutcomes
    <3>. QED BY <2>0, <3>1, <3>2, MovesStays
  <2>. QED BY <2>1, <2>2
<1>2. LedgerMoves
  <2>1. ledger' \in [Files -> LedgerRows]
    BY <1>1 DEF RecordDeliveryImportOutcomes, Moves
  <2>. QED BY <1>1, <2>1 DEF LedgerMoves
<1>3. importer' \in Importers
  <2>1. \A ok \in BOOLEAN : [importer EXCEPT !.pc = "finish", !.ok = ok] \in Importers
    BY DEF Inv, Typed, ThreadsTyped, Importers
  <2>2. \E ok \in BOOLEAN : importer' = [importer EXCEPT !.pc = "finish", !.ok = ok]
    BY Zenon DEF RecordDeliveryImportOutcomes
  <2>. QED BY <2>1, <2>2
<1>4. WorldTyped' /\ UNCHANGED <<receipt, batch, deleted, payload, sweeper, cleaner, remover, acking, retrying, runner>>
  BY DEF RecordDeliveryImportOutcomes, disk, world, Inv, Typed, WorldTyped
<1>. QED BY <1>2, <1>3, <1>4, LedgerStep

-----------------------------------------------------------------------------
(* Reviewed deletion *)

LEMMA IdleRemoverTyped == RemoverIdle \in Removers /\ CleanerIdle \in Cleaners
BY DEF RemoverIdle, Removers, CleanerIdle, Cleaners

LEMMA ReturnTyped ==
    ASSUME Inv, NEW failed \in BOOLEAN, RemoverReturns(failed)
    PROVE  /\ remover' \in Removers /\ cleaner' \in Cleaners /\ retrying' \in SUBSET Batches
           /\ remover' = RemoverIdle
           /\ cleaner' = cleaner \/ cleaner' = CleanerIdle \/ cleaner' = [cleaner EXCEPT !.pc = "resume"]
<1>1. [cleaner EXCEPT !.pc = "resume"] \in Cleaners /\ cleaner \in Cleaners
  BY DEF Inv, Typed, ThreadsTyped, Cleaners
<1>2. retrying' \in SUBSET Batches
  BY DEF RemoverReturns, Inv, Typed, ThreadsTyped, Removers
<1>. QED BY <1>1, <1>2, IdleRemoverTyped DEF RemoverReturns

\* A remover that returns holds no file, and a cleaner it wakes or ends holds
\* no more than it did.
LEMMA ReturnQuiet ==
    ASSUME Inv, NEW failed \in BOOLEAN, RemoverReturns(failed), RowsSurplus',
           \A f \in Files : payload[f] = "gone" => payload'[f] = "gone"
    PROVE  ThreadsAbsent' /\ Surplus'
<1>1. /\ remover' = RemoverIdle
      /\ cleaner' = cleaner \/ cleaner' = CleanerIdle \/ cleaner' = [cleaner EXCEPT !.pc = "resume"]
  BY ReturnTyped
<1>2. cleaner \in Cleaners
  BY DEF Inv, Typed, ThreadsTyped
<1>3. cleaner'.promote \subseteq Excess
  BY <1>1, <1>2 DEF Inv, Surplus, CleanerIdle, Cleaners
<1>4. cleaner'.pc = "stamp" => \A f \in cleaner'.file : payload'[f] = "gone"
  BY <1>1, <1>2 DEF Inv, ThreadsAbsent, CleanerIdle, Cleaners
<1>5. \A f, g \in cleaner'.file : f = g
  BY <1>1, <1>2 DEF Inv, ThreadsAbsent, CleanerIdle, Cleaners
<1>. QED BY <1>1, <1>3, <1>4, <1>5 DEF ThreadsAbsent, RemoverIdle, Surplus

LEMMA ReturnKeeps ==
    ASSUME Inv, NEW failed \in BOOLEAN, RemoverReturns(failed),
           UNCHANGED <<database, disk, importer, sweeper, acking, download, picked, operation, runner>>
    PROVE  Inv'
<1>1. RowsSurplus' /\ RowsAbsent' /\ Recorded' /\ Told'
  BY DEF database, disk, Inv, Surplus, RowsSurplus, RowsAbsent, Recorded, Told
<1>2. Typed'
  BY ReturnTyped DEF database, disk, Inv, Typed, TablesTyped, ThreadsTyped, WorldTyped
<1>3. ThreadsAbsent' /\ Surplus'
  BY <1>1, ReturnQuiet DEF disk
<1>. QED BY <1>1, <1>2, <1>3 DEF Inv

LEMMA RequestKeeps ==
    ASSUME Inv, NEW b \in Batches, NEW files \in SUBSET Files, RequestDelete(b, files)
    PROVE  Inv'
<1>1. remover' \in Removers
  BY DEF RequestDelete, RemoverIdle, Removers
<1>2. remover'.pc = "begin" /\ remover'.absent = {} /\ remover'.file = {}
  BY DEF RequestDelete, RemoverIdle
<1>3. UNCHANGED <<database, disk, importer, sweeper, cleaner, acking, retrying, download, picked, operation, runner>>
  BY DEF RequestDelete
<1>4. Typed'
  BY <1>1, <1>3 DEF database, disk, Inv, Typed, TablesTyped, ThreadsTyped, WorldTyped
<1>. QED BY <1>2, <1>3, <1>4
         DEF database, disk, Inv, Told, Recorded, RowsAbsent, ThreadsAbsent, RowsSurplus, Surplus

LEMMA ResumeKeeps ==
    ASSUME Inv, NEW b \in Batches, ResumeDelete(b)
    PROVE  Inv'
<1>0. batch[b] \in BatchRows /\ cleaner \in Cleaners
  BY DEF Inv, Typed, TablesTyped, ThreadsTyped
<1>1. remover' \in Removers
  BY <1>0 DEF ResumeDelete, RemoverIdle, Removers, BatchRows
<1>2. cleaner' \in Cleaners
  BY <1>0 DEF ResumeDelete, Cleaners
<1>3. remover'.pc = "begin" /\ remover'.absent = {} /\ remover'.file = {}
  BY DEF ResumeDelete, RemoverIdle
<1>4. cleaner'.pc = "resuming" /\ cleaner'.promote = cleaner.promote /\ cleaner'.file = cleaner.file
  BY <1>0 DEF ResumeDelete, Cleaners
<1>5. UNCHANGED <<database, disk, importer, sweeper, acking, retrying, world>>
  BY DEF ResumeDelete
<1>6. Typed'
  BY <1>1, <1>2, <1>5 DEF database, disk, world, Inv, Typed, TablesTyped, ThreadsTyped, WorldTyped
<1>. QED BY <1>3, <1>4, <1>5, <1>6
         DEF database, disk, world, Inv, Told, Recorded, RowsAbsent, ThreadsAbsent, RowsSurplus, Surplus

LEMMA EnsuredMoves ==
    ASSUME NEW f \in Files, NEW row \in LedgerRows
    PROVE  /\ Moves(f, row, EnsureExplicitDeliveryFileOutcome(row)) \/ row.cleanup = "removed"
           /\ row.disposition # "none" => EnsureExplicitDeliveryFileOutcome(row) = row
           /\ EnsureExplicitDeliveryFileOutcome(row).disposition # "none"
<1>1. [EmptyRow EXCEPT !.disposition = "pending"] \in LedgerRows
  BY DEF EmptyRow, LedgerRows, Dispositions, Eligible, CleanupStates
<1>. QED BY <1>1, MovesStays DEF EnsureExplicitDeliveryFileOutcome, Moves, EmptyRow

LEMMA VerifyKeeps ==
    ASSUME Inv, RemoverVerify
    PROVE  Inv'
<1>0. UNCHANGED <<receipt, batch, deleted, disk, importer, sweeper, acking, world>>
  BY DEF RemoverVerify
<1>1. CASE RemoverReturns(TRUE) /\ UNCHANGED ledger
  BY <1>0, <1>1, ReturnKeeps DEF database, world
<1> DEFINE absent == {f \in remover.files : payload[f] = "gone"}
<1>2. ASSUME remover' = [remover EXCEPT !.pc = "prepare", !.absent = absent],
             ledger' = [f \in Files |-> IF f \in remover.files \ absent
                                          THEN EnsureExplicitDeliveryFileOutcome(ledger[f]) ELSE ledger[f]],
             \A f \in absent : ledger[f].disposition # "none",
             UNCHANGED <<cleaner, retrying>>
      PROVE  Inv'
  <2>1. ASSUME NEW f \in Files
        PROVE  /\ Moves(f, ledger[f], ledger'[f])
               /\ f \in remover.files => ledger'[f].disposition # "none"
    <3>1. ledger[f] \in LedgerRows /\ (ledger[f].cleanup = "removed" => ledger[f].disposition # "none")
      BY DEF Inv, Typed, TablesTyped, RowsAbsent
    <3>. QED BY <1>2, <3>1, EnsuredMoves, MovesStays
  <2>2. LedgerMoves
    BY <1>2, <2>1 DEF LedgerMoves, Moves
  <2>3. Recorded' /\ RowsAbsent' /\ RowsSurplus'
    BY <1>0, <2>2, RowsOnly DEF disk
  <2>4. /\ remover' \in Removers /\ remover'.pc = "prepare" /\ remover'.absent = absent
        /\ remover'.files = remover.files /\ remover'.file = remover.file
        /\ remover.files \in SUBSET Files
    BY <1>2 DEF Inv, Typed, ThreadsTyped, Removers
  <2>5. remover.file = {}
    BY DEF RemoverVerify, Inv, ThreadsAbsent
  <2>6. \A f \in absent : payload[f] = "gone"
    BY <1>2
  <2>7. ThreadsAbsent'
    BY <1>0, <1>2, <2>1, <2>4, <2>5, <2>6 DEF disk, Inv, ThreadsAbsent
  <2>8. Typed'
    BY <1>0, <1>2, <2>2, <2>4 DEF LedgerMoves, disk, world, Inv, Typed, TablesTyped, ThreadsTyped, WorldTyped
  <2>9. Surplus' /\ Told'
    BY <1>0, <1>2, <2>3 DEF world, Inv, Surplus, Told
  <2>. QED BY <2>3, <2>7, <2>8, <2>9 DEF Inv
<1>3. \A f \in absent : ~Reviewed(f)
  BY DEF Reviewed
<1>4. \/ RemoverReturns(TRUE) /\ UNCHANGED ledger
      \/ /\ remover' = [remover EXCEPT !.pc = "prepare", !.absent = absent]
         /\ ledger' = [f \in Files |-> IF f \in remover.files \ absent
                                          THEN EnsureExplicitDeliveryFileOutcome(ledger[f]) ELSE ledger[f]]
         /\ \A f \in remover.files : Reviewed(f) \/ ledger[f].disposition # "none"
         /\ UNCHANGED <<cleaner, retrying>>
  BY Zenon DEF RemoverVerify
<1>. QED BY <1>1, <1>2, <1>3, <1>4

LEMMA PreparedTyped ==
    ASSUME NEW state \in {"none", "open", "abandoned"}, NEW files \in SUBSET Files,
           NEW seen \in SUBSET Files, NEW recorded \in SUBSET Files
    PROVE  [state |-> state, files |-> files, seen |-> seen, recorded |-> recorded] \in BatchRows
BY DEF BatchRows

LEMMA ReviewMoves ==
    ASSUME NEW f \in Files, NEW row \in LedgerRows, NEW c \in CleanupStates \ {"removed"}
    PROVE  row.cleanup # "removed" => Moves(f, row, [row EXCEPT !.cleanup = c, !.noted = TRUE])
BY DEF Moves, LedgerRows

LEMMA PrepareDeleteKeeps ==
    ASSUME Inv, RemoverPrepare
    PROVE  Inv'
<1>0. UNCHANGED <<disk, importer, sweeper, acking, world>>
  BY DEF RemoverPrepare
<1>1. remover \in Removers /\ cleaner \in Cleaners /\ remover.pc = "prepare" /\ remover.file = {}
  BY DEF RemoverPrepare, Inv, Typed, ThreadsTyped, ThreadsAbsent
<1>2. PICK b \in remover.batch :
         \/ /\ IF batch[b].state = "open" THEN UNCHANGED database
               ELSE PrepareExplicitDeliveryDeleteBatch(b, remover.files, remover.seen)
            /\ remover' = [remover EXCEPT !.pc = "loop"]
            /\ UNCHANGED <<cleaner, retrying>>
         \/ RemoverReturns(TRUE) /\ UNCHANGED database
  BY DEF RemoverPrepare
<1>3. b \in Batches
  BY <1>1 DEF Removers
<1>4. CASE RemoverReturns(TRUE) /\ UNCHANGED database
  BY <1>0, <1>4, ReturnKeeps DEF world
<1>5. CASE remover' = [remover EXCEPT !.pc = "loop"] /\ UNCHANGED <<cleaner, retrying>>
  <2>1. /\ remover' \in Removers /\ remover'.pc = "loop" /\ remover'.absent = remover.absent
        /\ remover'.files = remover.files /\ remover'.file = {}
    BY <1>1, <1>5 DEF Removers
  <2>2. CASE UNCHANGED database
    <3>1. Typed'
      BY <1>0, <1>5, <2>1, <2>2 DEF database, disk, world, Inv, Typed, TablesTyped, ThreadsTyped, WorldTyped
    <3>. QED BY <1>0, <1>1, <1>5, <2>1, <2>2, <3>1
             DEF database, disk, world, Inv, Told, Recorded, RowsAbsent, ThreadsAbsent, RowsSurplus, Surplus
  <2>3. CASE PrepareExplicitDeliveryDeleteBatch(b, remover.files, remover.seen)
    <3>1. ASSUME NEW f \in Files PROVE Moves(f, ledger[f], ledger'[f])
      <4>1. ledger[f] \in LedgerRows
        BY DEF Inv, Typed, TablesTyped
      <4>2. ledger[f].cleanup # "removed" => Moves(f, ledger[f], [ledger[f] EXCEPT !.cleanup = "pending", !.noted = TRUE])
        BY <4>1, ReviewMoves DEF CleanupStates
      <4>. QED BY <2>3, <4>1, <4>2, MovesStays DEF PrepareExplicitDeliveryDeleteBatch
    <3>2. LedgerMoves
      BY <2>3, <3>1 DEF PrepareExplicitDeliveryDeleteBatch, LedgerMoves, Moves
    <3>3. /\ RowsAbsent' /\ RowsSurplus'
          /\ \A f \in Files : ledger[f].disposition # "none" => ledger'[f].disposition # "none"
          /\ \A f \in Files : ledger[f].cleanup = "removed" => ledger'[f].cleanup = "removed"
      BY <1>0, <3>2, RowsKept DEF disk
    <3>4. batch' \in [Batches -> BatchRows]
      <4>1. [state |-> "open", files |-> remover.files, seen |-> remover.seen, recorded |-> {}] \in BatchRows
        BY <1>1, PreparedTyped DEF Removers
      <4>. QED BY <2>3, <4>1 DEF PrepareExplicitDeliveryDeleteBatch, Inv, Typed, TablesTyped
    <3>5. Typed'
      <4>1. TablesTyped'
        <5>1. UNCHANGED <<receipt, deleted>>
          BY <2>3 DEF PrepareExplicitDeliveryDeleteBatch
        <5>. QED
          BY <3>2, <3>4, <5>1 DEF LedgerMoves, Inv, Typed, TablesTyped
      <4>2. ThreadsTyped'
        BY <1>0, <1>5, <2>1 DEF Inv, Typed, ThreadsTyped
      <4>3. WorldTyped'
        BY <1>0 DEF disk, world, Inv, Typed, WorldTyped
      <4>. QED
        BY <4>1, <4>2, <4>3 DEF Typed
    <3>6. \A c \in Batches : /\ batch'[c].recorded = batch[c].recorded
                             /\ batch'[c].state = "none" => batch[c].state = "none"
      <4>. DEFINE new == [state |-> "open", files |-> remover.files, seen |-> remover.seen, recorded |-> {}]
      <4>1. batch \in [Batches -> BatchRows]
        BY DEF Inv, Typed, TablesTyped
      <4>2. batch' = [batch EXCEPT ![b] = new] /\ batch[b].state = "none"
        BY <2>3 DEF PrepareExplicitDeliveryDeleteBatch
      <4>3. batch[b].recorded = {}
        BY <1>3, <4>2 DEF Inv, Recorded
      <4>4. new.recorded = {} /\ new.state = "open"
        OBVIOUS
      <4>. HIDE DEF new
      <4>. QED
        BY <1>3, <4>1, <4>2, <4>3, <4>4
    <3>7. Recorded'
      <4>1. deleted' = deleted /\ batch \in [Batches -> BatchRows]
        BY <2>3 DEF PrepareExplicitDeliveryDeleteBatch, Inv, Typed, TablesTyped
      <4>2. \A c \in Batches : batch[c].recorded \subseteq Files
        BY <4>1 DEF BatchRows
      <4>. QED
        BY <3>3, <3>6, <4>1, <4>2 DEF Inv, Recorded
    <3>8. ThreadsAbsent'
      BY <1>0, <1>1, <1>5, <2>1, <3>3 DEF disk, Inv, ThreadsAbsent, Removers
    <3>9. Surplus' /\ Told'
      BY <1>0, <1>5, <2>3, <3>3 DEF PrepareExplicitDeliveryDeleteBatch, world, Inv, Surplus, Told
    <3>. QED BY <3>3, <3>5, <3>7, <3>8, <3>9 DEF Inv
  <2>. QED BY <1>2, <1>4, <2>2, <2>3
<1>. QED BY <1>2, <1>4, <1>5

\* A file that is gone and has a row is confirmed: once, with its event.
LEMMA CompletedDelete ==
    ASSUME Inv, NEW b \in Batches, NEW f \in Files, CompleteExplicitDeliveryFileDelete(b, f),
           payload[f] = "gone", ledger[f].disposition # "none", UNCHANGED payload
    PROVE  /\ TablesTyped' /\ Recorded' /\ RowsAbsent' /\ RowsSurplus' /\ UNCHANGED receipt
           /\ \A g \in Files : ledger[g].disposition # "none" => ledger'[g].disposition # "none"
<1>0. ledger[f] \in LedgerRows /\ batch[b] \in BatchRows /\ deleted[b] \in [Files -> Nat]
  BY DEF Inv, Typed, TablesTyped
<1>1. LedgerMoves
  <2> DEFINE new == [ledger[f] EXCEPT !.cleanup = "removed", !.noted = TRUE]
  <2>1. Moves(f, ledger[f], new)
    BY <1>0 DEF Moves, LedgerRows, CleanupStates
  <2>2. ledger' = [ledger EXCEPT ![f] = new]
    BY DEF CompleteExplicitDeliveryFileDelete
  <2> HIDE DEF new
  <2>. QED BY <2>1, <2>2, OneRowMoves DEF Inv, Typed, TablesTyped
<1>2. /\ RowsAbsent' /\ RowsSurplus'
      /\ \A g \in Files : ledger[g].disposition # "none" => ledger'[g].disposition # "none"
      /\ \A g \in Files : ledger[g].cleanup = "removed" => ledger'[g].cleanup = "removed"
  BY <1>1, RowsKept
<1>3. ledger'[f].cleanup = "removed"
  BY <1>0 DEF CompleteExplicitDeliveryFileDelete, Inv, Typed, TablesTyped, LedgerRows
<1>4. batch' \in [Batches -> BatchRows]
  <2> DEFINE new == [batch[b] EXCEPT !.recorded = @ \cup {f}]
  <2>1. new \in BatchRows
    BY <1>0 DEF BatchRows
  <2>2. batch' = [batch EXCEPT ![b] = new]
    BY DEF CompleteExplicitDeliveryFileDelete
  <2> HIDE DEF new
  <2>. QED BY <2>1, <2>2 DEF Inv, Typed, TablesTyped
<1>5. deleted' \in [Batches -> [Files -> Nat]]
  <2> DEFINE new == [deleted[b] EXCEPT ![f] = @ + 1]
  <2>1. new \in [Files -> Nat]
    BY <1>0
  <2>2. deleted' = [deleted EXCEPT ![b] = new] \/ deleted' = deleted
    BY DEF CompleteExplicitDeliveryFileDelete
  <2> HIDE DEF new
  <2>. QED BY <2>1, <2>2 DEF Inv, Typed, TablesTyped
<1>6. TablesTyped' /\ UNCHANGED receipt
  BY <1>1, <1>4, <1>5 DEF LedgerMoves, CompleteExplicitDeliveryFileDelete, Inv, Typed, TablesTyped
<1>7. ASSUME NEW c \in Batches
      PROVE  /\ batch'[c].state = "none" => batch'[c].recorded = {}
             /\ \A g \in Files : deleted'[c][g] = IF g \in batch'[c].recorded THEN 1 ELSE 0
             /\ \A g \in batch'[c].recorded : ledger'[g].cleanup = "removed"
  <2>0. batch[c].recorded \in SUBSET Files
    BY DEF Inv, Typed, TablesTyped, BatchRows
  <2>1. CASE c # b
    <3>1. batch'[c] = batch[c] /\ deleted'[c] = deleted[c]
      BY <2>1 DEF CompleteExplicitDeliveryFileDelete, Inv, Typed, TablesTyped
    <3>. QED BY <1>2, <2>0, <3>1 DEF Inv, Recorded
  <2>2. CASE c = b
    <3>1. batch'[c].state = "open" /\ batch'[c].recorded = batch[b].recorded \cup {f}
      BY <1>0, <2>2 DEF CompleteExplicitDeliveryFileDelete, Inv, Typed, TablesTyped, BatchRows
    <3>2. ASSUME NEW g \in Files PROVE deleted'[c][g] = IF g \in batch'[c].recorded THEN 1 ELSE 0
      <4>1. CASE f \in batch[b].recorded
        BY <2>2, <3>1, <4>1 DEF CompleteExplicitDeliveryFileDelete, Inv, Recorded
      <4>2. CASE f \notin batch[b].recorded
        <5>1. deleted' = [deleted EXCEPT ![b][f] = @ + 1] /\ deleted[b][f] = 0
          BY <4>2 DEF CompleteExplicitDeliveryFileDelete, Inv, Recorded
        <5>2. deleted'[b][g] = IF g = f THEN 1 ELSE deleted[b][g]
          BY <1>0, <5>1 DEF Inv, Typed, TablesTyped
        <5>3. deleted[b][g] = IF g \in batch[b].recorded THEN 1 ELSE 0
          BY DEF Inv, Recorded
        <5>. QED BY <2>2, <3>1, <5>2, <5>3
      <4>. QED BY <4>1, <4>2
    <3>. QED BY <1>2, <1>3, <2>0, <2>2, <3>1, <3>2 DEF Inv, Recorded
  <2>. QED BY <2>1, <2>2
<1>. QED BY <1>2, <1>6, <1>7 DEF Recorded

LEMMA FileKeeps ==
    ASSUME Inv, NEW f \in Files, RemoverFile(f)
    PROVE  Inv'
<1>0. /\ UNCHANGED <<folder, library, importer, sweeper, acking, world>>
      /\ remover.pc = "loop" /\ f \in remover.files /\ remover \in Removers /\ cleaner \in Cleaners
      /\ remover.file = {} /\ ledger[f].disposition # "none"
  BY DEF RemoverFile, Inv, Typed, ThreadsTyped, ThreadsAbsent
<1>1. PICK b \in remover.batch :
        \/ /\ f \in remover.absent
           /\ UNCHANGED database \/ CompleteExplicitDeliveryFileDelete(b, f)
           /\ remover' = [remover EXCEPT !.files = @ \ {f}]
           /\ UNCHANGED <<payload, cleaner, retrying>>
        \/ /\ payload' = [payload EXCEPT ![f] = "gone"]
           /\ remover' = [remover EXCEPT !.pc = "unlinked", !.file = {f}, !.files = @ \ {f}]
           /\ UNCHANGED <<database, cleaner, retrying>>
        \/ RemoverReturns(TRUE) /\ UNCHANGED <<database, payload>>
  BY DEF RemoverFile
<1>2. b \in Batches
  BY <1>0 DEF Removers
<1>3. CASE RemoverReturns(TRUE) /\ UNCHANGED <<database, payload>>
  BY <1>0, <1>3, ReturnKeeps DEF disk, world
<1>4. CASE /\ payload' = [payload EXCEPT ![f] = "gone"]
           /\ remover' = [remover EXCEPT !.pc = "unlinked", !.file = {f}, !.files = @ \ {f}]
           /\ UNCHANGED <<database, cleaner, retrying>>
  <2>1. /\ remover' \in Removers /\ remover'.pc = "unlinked" /\ remover'.file = {f}
        /\ remover'.files \subseteq remover.files /\ remover'.absent = remover.absent
    BY <1>0, <1>4 DEF Removers
  <2>2. /\ payload' \in [Files -> {"original", "altered", "gone"}]
        /\ payload'[f] = "gone" /\ \A g \in Files : payload[g] = "gone" => payload'[g] = "gone"
    BY <1>4 DEF Inv, Typed, WorldTyped
  <2>3. Typed'
    BY <1>0, <1>4, <2>1, <2>2 DEF database, world, Inv, Typed, TablesTyped, ThreadsTyped, WorldTyped
  <2>4. ThreadsAbsent'
    BY <1>0, <1>4, <2>1, <2>2 DEF database, Inv, ThreadsAbsent, Removers, Cleaners
  <2>. QED BY <1>0, <1>4, <2>2, <2>3, <2>4
           DEF database, world, Inv, Told, Recorded, RowsAbsent, RowsSurplus, Surplus
<1>5. CASE /\ f \in remover.absent
           /\ UNCHANGED database \/ CompleteExplicitDeliveryFileDelete(b, f)
           /\ remover' = [remover EXCEPT !.files = @ \ {f}]
           /\ UNCHANGED <<payload, cleaner, retrying>>
  <2>1. /\ remover' \in Removers /\ remover'.pc = "loop" /\ remover'.file = {}
        /\ remover'.files \subseteq remover.files /\ remover'.absent = remover.absent
    BY <1>0, <1>5 DEF Removers
  <2>2. payload[f] = "gone"
    BY <1>5 DEF Inv, ThreadsAbsent
  <2>3. /\ TablesTyped' /\ Recorded' /\ RowsAbsent' /\ RowsSurplus' /\ UNCHANGED receipt
        /\ \A g \in Files : ledger[g].disposition # "none" => ledger'[g].disposition # "none"
    <3>1. CASE UNCHANGED database
      BY <1>5, <3>1 DEF database, Inv, Typed, TablesTyped, Recorded, RowsAbsent, RowsSurplus, Surplus
    <3>2. CASE CompleteExplicitDeliveryFileDelete(b, f)
      BY <1>0, <1>2, <1>5, <2>2, <3>2, CompletedDelete
    <3>. QED BY <1>5, <3>1, <3>2
  <2>4. Typed'
    BY <1>0, <1>5, <2>1, <2>3 DEF world, Inv, Typed, ThreadsTyped, WorldTyped
  <2>5. ThreadsAbsent'
    BY <1>0, <1>5, <2>1, <2>3 DEF Inv, ThreadsAbsent, Removers
  <2>. QED BY <1>0, <1>5, <2>3, <2>4, <2>5 DEF world, Inv, Told, Surplus
<1>. QED BY <1>1, <1>3, <1>4, <1>5

LEMMA CompleteKeeps ==
    ASSUME Inv, RemoverComplete
    PROVE  Inv'
<1>0. UNCHANGED <<disk, importer, sweeper, cleaner, acking, retrying, world>> /\ remover.pc = "unlinked" /\ remover \in Removers
  BY DEF RemoverComplete, Inv, Typed, ThreadsTyped
<1>1. PICK b \in remover.batch, f \in remover.file : CompleteExplicitDeliveryFileDelete(b, f)
  BY DEF RemoverComplete
<1>2. b \in Batches /\ f \in Files /\ payload[f] = "gone" /\ ledger[f].disposition # "none"
  BY <1>0 DEF Removers, Inv, ThreadsAbsent
<1>3. /\ TablesTyped' /\ Recorded' /\ RowsAbsent' /\ RowsSurplus' /\ UNCHANGED receipt
      /\ \A g \in Files : ledger[g].disposition # "none" => ledger'[g].disposition # "none"
  BY <1>0, <1>1, <1>2, CompletedDelete DEF disk
<1>4. /\ remover' \in Removers /\ remover'.pc = "loop" /\ remover'.file = {}
      /\ remover'.files = remover.files /\ remover'.absent = remover.absent
  BY <1>0 DEF RemoverComplete, Removers
<1>5. Typed'
  BY <1>0, <1>3, <1>4 DEF disk, world, Inv, Typed, ThreadsTyped, WorldTyped
<1>6. ThreadsAbsent'
  BY <1>0, <1>3, <1>4 DEF disk, Inv, ThreadsAbsent, Removers
<1>. QED BY <1>0, <1>3, <1>5, <1>6 DEF world, Inv, Told, Surplus

LEMMA DoneKeeps ==
    ASSUME Inv, RemoverDone \/ RemoverError
    PROVE  Inv'
<1>1. PICK failed \in BOOLEAN : RemoverReturns(failed)
  BY DEF RemoverDone, RemoverError
<1>2. UNCHANGED <<database, disk, importer, sweeper, acking, download, picked, operation, runner>>
  BY DEF RemoverDone, RemoverError, world
<1>. QED BY <1>1, <1>2, ReturnKeeps

\* Requests that are scheduled again or given up write rows, and unlink
\* nothing.
LEMMA RetryDeleteKeeps ==
    ASSUME Inv, NEW b \in Batches, RemoverRetry(b)
    PROVE  Inv'
<1>0. /\ UNCHANGED <<receipt, batch, deleted, disk, importer, sweeper, cleaner, remover, acking, world>>
      /\ retrying' \in SUBSET Batches
  BY DEF RemoverRetry, ScheduleExplicitDeliveryDeleteRetry, Inv, Typed, ThreadsTyped
<1>1. ASSUME NEW f \in Files PROVE Moves(f, ledger[f], ledger'[f])
  <2>1. ledger[f] \in LedgerRows
    BY DEF Inv, Typed, TablesTyped
  <2>2. CASE ledger[f].cleanup # "removed"
    <3>1. Moves(f, ledger[f], [ledger[f] EXCEPT !.cleanup = "retry", !.noted = TRUE])
      BY <2>1, <2>2, ReviewMoves DEF CleanupStates
    <3>. QED BY <2>1, <2>2, <3>1, MovesStays DEF RemoverRetry, ScheduleExplicitDeliveryDeleteRetry
  <2>3. CASE ledger[f].cleanup = "removed"
    <3>1. Moves(f, ledger[f], [ledger[f] EXCEPT !.cleanup = "removed", !.noted = TRUE])
      BY <2>1, <2>3 DEF Moves, LedgerRows
    <3>. QED BY <2>1, <2>3, <3>1, MovesStays DEF RemoverRetry, ScheduleExplicitDeliveryDeleteRetry
  <2>. QED BY <2>2, <2>3
<1>2. LedgerMoves
  BY <1>1 DEF RemoverRetry, ScheduleExplicitDeliveryDeleteRetry, LedgerMoves, Moves
<1>3. Recorded' /\ RowsAbsent' /\ RowsSurplus' /\ ThreadsAbsent' /\ Surplus'
  BY <1>0, <1>2, RowsOnly DEF disk
<1>4. Typed'
  BY <1>0, <1>2 DEF LedgerMoves, disk, world, Inv, Typed, TablesTyped, ThreadsTyped, WorldTyped
<1>. QED BY <1>0, <1>3, <1>4 DEF world, Inv, Told

LEMMA AbandonKeeps ==
    ASSUME Inv, NEW b \in Batches, AbandonDelete(b)
    PROVE  Inv'
<1>0. UNCHANGED <<receipt, deleted, disk, threads, world>> /\ remover.pc = "idle"
  BY DEF AbandonDelete, AbandonExplicitDeliveryDelete
<1>1. ASSUME NEW f \in Files PROVE Moves(f, ledger[f], ledger'[f])
  <2>1. ledger[f] \in LedgerRows
    BY DEF Inv, Typed, TablesTyped
  <2>2. ledger[f].cleanup # "removed" => Moves(f, ledger[f], [ledger[f] EXCEPT !.cleanup = "protected", !.noted = TRUE])
    BY <2>1, ReviewMoves DEF CleanupStates
  <2>. QED BY <2>1, <2>2, MovesStays DEF AbandonDelete, AbandonExplicitDeliveryDelete
<1>2. LedgerMoves
  BY <1>1 DEF AbandonDelete, AbandonExplicitDeliveryDelete, LedgerMoves, Moves
<1>3. /\ RowsAbsent' /\ RowsSurplus'
      /\ \A f \in Files : ledger[f].disposition # "none" => ledger'[f].disposition # "none"
      /\ \A f \in Files : ledger[f].cleanup = "removed" => ledger'[f].cleanup = "removed"
  BY <1>0, <1>2, RowsKept DEF disk
<1>4. /\ batch' \in [Batches -> BatchRows]
      /\ \A c \in Batches : /\ batch'[c].recorded = batch[c].recorded
                            /\ batch'[c].state = "none" => batch[c].state = "none"
  <2>1. /\ batch[b].state = "open"
        /\ batch' = [batch EXCEPT ![b] = [batch[b] EXCEPT !.state = "abandoned"]]
    BY DEF AbandonDelete, AbandonExplicitDeliveryDelete
  <2>2. batch \in [Batches -> BatchRows]
    BY DEF Inv, Typed, TablesTyped
  <2>3. \A row \in BatchRows : /\ [row EXCEPT !.state = "abandoned"] \in BatchRows
                                /\ [row EXCEPT !.state = "abandoned"].recorded = row.recorded
                                /\ [row EXCEPT !.state = "abandoned"].state = "abandoned"
    BY DEF BatchRows
  <2>. QED
    BY <2>1, <2>2, <2>3
<1>5. Recorded'
  BY <1>0, <1>3, <1>4 DEF Inv, Typed, TablesTyped, BatchRows, Recorded
<1>6. Typed'
  BY <1>0, <1>2, <1>4 DEF LedgerMoves, disk, threads, world, Inv, Typed, TablesTyped, ThreadsTyped, WorldTyped
<1>7. ThreadsAbsent' /\ Surplus' /\ Told'
  BY <1>0, <1>3 DEF disk, threads, world, Inv, ThreadsAbsent, Surplus, Told
<1>. QED BY <1>3, <1>5, <1>6, <1>7 DEF Inv

-----------------------------------------------------------------------------
(* Cleanup *)

LEMMA LedgerStays ==
    ASSUME Inv, UNCHANGED ledger
    PROVE  LedgerMoves
BY MovesStays DEF Inv, Typed, TablesTyped, LedgerMoves

\* A transition of a row of the cleanup; only a file that is gone may be
\* called removed.
LEMMA CleanupMoves ==
    ASSUME Inv, NEW f \in Files, NEW state \in CleanupStates, NEW noted \in BOOLEAN,
           state = "removed" => payload[f] = "gone",
           SetDeliveryFileCleanup(f, state, noted)
    PROVE  LedgerMoves /\ ReceiptMoves /\ UNCHANGED <<batch, deleted>>
<1>1. LedgerMoves
  <2>0. ledger[f] \in LedgerRows
    BY DEF Inv, Typed, TablesTyped
  <2>1. CASE UNCHANGED ledger
    BY <2>1, LedgerStays
  <2>2. CASE ledger[f].cleanup # "removed" /\ ledger[f].disposition \in Eligible
    <3> DEFINE new == [ledger[f] EXCEPT !.cleanup = state, !.noted = noted]
    <3>1. Moves(f, ledger[f], new)
      BY <2>0, <2>2 DEF Moves, LedgerRows, Eligible
    <3>2. ledger' = [ledger EXCEPT ![f] = new]
      BY <2>2 DEF SetDeliveryFileCleanup
    <3> HIDE DEF new
    <3>. QED BY <3>1, <3>2, OneRowMoves DEF Inv, Typed, TablesTyped
  <2>. QED BY <2>1, <2>2 DEF SetDeliveryFileCleanup
<1>2. ReceiptMoves
  <2>1. receipt' = receipt \/ receipt' = [receipt EXCEPT !.directory = "pending"]
    BY DEF SetDeliveryFileCleanup
  <2>. QED BY <2>1, ReceiptStays DEF ReceiptMoves, Inv, Typed, TablesTyped, Receipts, CleanupStates
<1>. QED BY <1>1, <1>2 DEF SetDeliveryFileCleanup

\* A step of the cleanup worker, by what it must not do.
LEMMA CleanerKeeps ==
    ASSUME Inv, LedgerMoves, ReceiptMoves,
           UNCHANGED <<batch, deleted, library, importer, sweeper, remover, acking, retrying, world>>,
           payload' \in [Files -> {"original", "altered", "gone"}], folder' \in BOOLEAN,
           \A f \in Files : payload[f] = "gone" => payload'[f] = "gone",
           cleaner' \in Cleaners, cleaner'.promote \subseteq Excess,
           \A f, g \in cleaner'.file : f = g,
           cleaner'.pc = "stamp" => \A f \in cleaner'.file : payload'[f] = "gone"
    PROVE  Inv'
<1>1. /\ RowsAbsent' /\ RowsSurplus'
      /\ \A f \in Files : ledger[f].disposition # "none" => ledger'[f].disposition # "none"
      /\ \A f \in Files : ledger[f].cleanup = "removed" => ledger'[f].cleanup = "removed"
  BY RowsKept
<1>2. Recorded'
  BY <1>1 DEF Inv, Typed, TablesTyped, BatchRows, Recorded
<1>3. ThreadsAbsent' /\ Surplus'
  BY <1>1 DEF Inv, Typed, ThreadsTyped, Removers, ThreadsAbsent, Surplus
<1>4. Told'
  BY ToldKept DEF world
<1>5. Typed'
  BY DEF LedgerMoves, ReceiptMoves, world, Inv, Typed, TablesTyped, ThreadsTyped, WorldTyped
<1>. QED BY <1>1, <1>2, <1>3, <1>4, <1>5 DEF Inv

LEMMA StartKeeps ==
    ASSUME Inv, CleanerStart
    PROVE  Inv'
<1>1. PendingBatches \in SUBSET Batches /\ UNION {Unrecorded(b) : b \in PendingBatches} \in SUBSET Files
  BY DEF PendingBatches, Unrecorded, Inv, Typed, TablesTyped, BatchRows
<1>2. (receipt.state = "imported") \in BOOLEAN
  OBVIOUS
<1>3. \A i \in BOOLEAN, due \in SUBSET Batches, explicit \in SUBSET Files :
        [CleanerIdle EXCEPT !.pc = "resume", !.imported = i, !.due = due, !.explicit = explicit]
          \in {c \in Cleaners : c.promote = {} /\ c.pc = "resume" /\ c.file = {}}
  BY DEF CleanerIdle, Cleaners
<1>4. cleaner' \in {c \in Cleaners : c.promote = {} /\ c.pc = "resume" /\ c.file = {}}
  <2> DEFINE due == PendingBatches
             explicit == UNION {Unrecorded(b) : b \in PendingBatches}
  <2>1. cleaner' = [CleanerIdle EXCEPT !.pc = "resume", !.imported = receipt.state = "imported",
                                       !.due = due, !.explicit = explicit]
    BY DEF CleanerStart
  <2>2. due \in SUBSET Batches /\ explicit \in SUBSET Files
    BY <1>1
  <2> HIDE DEF due, explicit
  <2>. QED BY <1>2, <1>3, <2>1, <2>2
<1>5. LedgerMoves /\ ReceiptMoves
  BY LedgerStays, ReceiptStays DEF CleanerStart, database
<1>. QED BY <1>4, <1>5, CleanerKeeps DEF CleanerStart, database, disk, Inv, Typed, WorldTyped

LEMMA ReadKeeps ==
    ASSUME Inv, CleanerRead
    PROVE  Inv'
<1> DEFINE promote == {f \in Files : /\ ledger[f].excess /\ operation = "complete"
                                     /\ ledger[f].cleanup # "removed" /\ ledger[f].disposition # "disposable"}
           todo == {f \in Files \ cleaner.explicit :
                      ledger[f].cleanup \in {"pending", "retry"} /\ ledger[f].disposition \in Eligible}
<1>1. promote \in SUBSET Files /\ promote \subseteq Excess /\ todo \in SUBSET Files
  BY DEF Inv, Surplus, RowsSurplus
<1>2. \/ cleaner' = CleanerIdle
      \/ cleaner' = [cleaner EXCEPT !.pc = "files", !.imported = FALSE, !.promote = promote, !.todo = todo]
  BY DEF CleanerRead
<1> HIDE DEF promote, todo
<1>3. /\ cleaner' \in Cleaners /\ cleaner'.promote \subseteq Excess /\ cleaner'.pc \in {"idle", "files"}
      /\ \A f, g \in cleaner'.file : f = g
  <2>1. cleaner \in Cleaners /\ \A f, g \in cleaner.file : f = g
    BY DEF Inv, Typed, ThreadsTyped, ThreadsAbsent
  <2>2. CASE cleaner' = CleanerIdle
    BY <2>2, IdleRemoverTyped DEF CleanerIdle
  <2>3. CASE cleaner' = [cleaner EXCEPT !.pc = "files", !.imported = FALSE, !.promote = promote, !.todo = todo]
    BY <1>1, <2>1, <2>3 DEF Cleaners
  <2>. QED BY <1>2, <2>2, <2>3
<1>4. LedgerMoves /\ ReceiptMoves
  BY LedgerStays, ReceiptStays DEF CleanerRead, database
<1>. QED BY <1>3, <1>4, CleanerKeeps DEF CleanerRead, database, disk, Inv, Typed, WorldTyped

LEMMA PromoteKeeps ==
    ASSUME Inv, NEW f \in Files, CleanerPromote(f)
    PROVE  Inv'
<1>0. f \in cleaner.promote /\ f \in Excess /\ cleaner \in Cleaners /\ ledger[f] \in LedgerRows
  BY DEF CleanerPromote, Inv, Typed, TablesTyped, ThreadsTyped, Surplus
<1>1. LedgerMoves
  <2>1. Moves(f, ledger[f], UpdateDeliveryFileDisposition(ledger[f], "disposable"))
    BY <1>0, UpdateMoves DEF Dispositions, Eligible
  <2>2. Moves(f, ledger[f], ScheduleProtectedDeliveryFileRetry(ledger[f]))
    BY <1>0, RetryMoves
  <2>3. \/ ledger' = [ledger EXCEPT ![f] = UpdateDeliveryFileDisposition(@, "disposable")]
        \/ ledger' = [ledger EXCEPT ![f] = ScheduleProtectedDeliveryFileRetry(@)]
    BY DEF CleanerPromote
  <2>4. ledger \in [Files -> LedgerRows]
    BY DEF Inv, Typed, TablesTyped
  <2>5. CASE ledger' = [ledger EXCEPT ![f] = UpdateDeliveryFileDisposition(@, "disposable")]
    BY <2>1, <2>4, <2>5, OneRowMoves
  <2>6. CASE ledger' = [ledger EXCEPT ![f] = ScheduleProtectedDeliveryFileRetry(@)]
    BY <2>2, <2>4, <2>6, OneRowMoves
  <2>. QED BY <2>3, <2>5, <2>6
<1>2. /\ cleaner' \in Cleaners /\ cleaner'.promote \subseteq cleaner.promote /\ cleaner'.pc # "stamp"
      /\ \A g, h \in cleaner'.file : g = h
  <2>0. \A g, h \in cleaner.file : g = h
    BY DEF Inv, ThreadsAbsent
  <2>1. CASE cleaner' = [cleaner EXCEPT !.pc = "promote", !.promote = @ \ {f}, !.file = {f}]
    BY <1>0, <2>0, <2>1 DEF Cleaners
  <2>2. CASE cleaner' = [cleaner EXCEPT !.promote = @ \ {f}, !.todo = @ \ {f}] /\ cleaner.pc = "files"
    BY <1>0, <2>0, <2>2 DEF Cleaners
  <2>. QED BY <2>1, <2>2 DEF CleanerPromote
<1>3. ReceiptMoves
  BY ReceiptStays DEF CleanerPromote
<1>4. cleaner'.promote \subseteq Excess
  BY <1>2 DEF Inv, Surplus
<1>. QED BY <1>1, <1>2, <1>3, <1>4, CleanerKeeps DEF CleanerPromote, disk, Inv, Typed, WorldTyped

LEMMA PromotedKeeps ==
    ASSUME Inv, CleanerPromoted
    PROVE  Inv'
<1>0. cleaner \in Cleaners
  BY DEF Inv, Typed, ThreadsTyped
<1>1. PICK f \in cleaner.file :
        /\ SetDeliveryFileCleanup(f, "pending", FALSE)
        /\ cleaner' = [cleaner EXCEPT !.pc = "files", !.file = {}, !.todo = (@ \cup {f}) \ cleaner.explicit]
  BY DEF CleanerPromoted
<1>2. f \in Files
  BY <1>0 DEF Cleaners
<1>3. LedgerMoves /\ ReceiptMoves /\ UNCHANGED <<batch, deleted>>
  BY <1>1, <1>2, CleanupMoves DEF CleanupStates
<1>4. cleaner' \in Cleaners /\ cleaner'.promote = cleaner.promote /\ cleaner'.pc = "files" /\ cleaner'.file = {}
  BY <1>0, <1>1, <1>2 DEF Cleaners
<1>. QED BY <1>3, <1>4, CleanerKeeps DEF CleanerPromoted, disk, Inv, Typed, WorldTyped, Surplus

LEMMA ProveKeeps ==
    ASSUME Inv, NEW f \in Files, CleanerProve(f)
    PROVE  Inv'
<1>0. cleaner \in Cleaners /\ cleaner.promote \subseteq Excess /\ cleaner.pc = "files"
  BY DEF CleanerProve, Inv, Typed, ThreadsTyped, Surplus
<1>1. LedgerMoves /\ ReceiptMoves /\ UNCHANGED <<batch, deleted>>
  <2>1. CASE UNCHANGED database
    BY <2>1, LedgerStays, ReceiptStays DEF database
  <2>2. ASSUME NEW state \in {"protected", "retry"}, SetDeliveryFileCleanup(f, state, TRUE)
        PROVE  LedgerMoves /\ ReceiptMoves /\ UNCHANGED <<batch, deleted>>
    BY <2>2, CleanupMoves DEF CleanupStates
  <2>. QED BY <2>1, <2>2 DEF CleanerProve
<1>2. /\ cleaner' \in Cleaners /\ cleaner'.promote = cleaner.promote
      /\ cleaner'.pc = "stamp" => payload[f] = "gone" /\ cleaner'.file = {f}
      /\ \A g, h \in cleaner'.file : g = h
  <2>0. \A g, h \in cleaner.file : g = h
    BY DEF Inv, ThreadsAbsent
  <2>1. CASE payload[f] = "gone" /\ cleaner' = [cleaner EXCEPT !.pc = "stamp", !.todo = @ \ {f}, !.file = {f}]
    BY <1>0, <2>1 DEF Cleaners
  <2>2. CASE cleaner' = [cleaner EXCEPT !.pc = "proved", !.todo = @ \ {f}, !.file = {f}]
    BY <1>0, <2>2 DEF Cleaners
  <2>3. CASE cleaner' = [cleaner EXCEPT !.todo = @ \ {f}]
    BY <1>0, <2>0, <2>3 DEF Cleaners
  <2>. QED BY <2>1, <2>2, <2>3 DEF CleanerProve
<1>3. cleaner'.pc = "stamp" => \A g \in cleaner'.file : payload'[g] = "gone"
  BY <1>2 DEF CleanerProve, disk
<1>. QED BY <1>0, <1>1, <1>2, <1>3, CleanerKeeps DEF CleanerProve, disk, Inv, Typed, WorldTyped

LEMMA UnlinkKeeps ==
    ASSUME Inv, CleanerUnlink
    PROVE  Inv'
<1>0. /\ cleaner \in Cleaners /\ cleaner.promote \subseteq Excess /\ \A f, g \in cleaner.file : f = g
      /\ payload \in [Files -> {"original", "altered", "gone"}] /\ folder \in BOOLEAN
  BY DEF Inv, Typed, ThreadsTyped, WorldTyped, Surplus, ThreadsAbsent
<1>1. PICK f \in cleaner.file :
        \/ /\ payload' = [payload EXCEPT ![f] = "gone"]
           /\ cleaner' = [cleaner EXCEPT !.pc = "stamp"]
           /\ UNCHANGED database
        \/ /\ SetDeliveryFileCleanup(f, "retry", TRUE)
           /\ cleaner' = [cleaner EXCEPT !.pc = "files", !.file = {}]
           /\ UNCHANGED payload
  BY DEF CleanerUnlink
<1>2. f \in Files /\ UNCHANGED <<folder, library, importer, sweeper, remover, acking, retrying, world>>
  BY <1>0 DEF Cleaners, CleanerUnlink
<1>3. CASE /\ payload' = [payload EXCEPT ![f] = "gone"]
           /\ cleaner' = [cleaner EXCEPT !.pc = "stamp"]
           /\ UNCHANGED database
  <2>1. LedgerMoves /\ ReceiptMoves /\ UNCHANGED <<batch, deleted>>
    BY <1>3, LedgerStays, ReceiptStays DEF database
  <2>2. /\ payload' \in [Files -> {"original", "altered", "gone"}] /\ payload'[f] = "gone"
        /\ \A g \in Files : payload[g] = "gone" => payload'[g] = "gone"
    BY <1>0, <1>2, <1>3
  <2>3. cleaner' \in Cleaners /\ cleaner'.promote = cleaner.promote /\ cleaner'.file = cleaner.file
    BY <1>0, <1>3 DEF Cleaners
  <2>4. \A g \in cleaner'.file : payload'[g] = "gone"
    BY <1>0, <2>2, <2>3
  <2>5. folder' \in BOOLEAN
    BY <1>0, <1>2
  <2>. QED BY <1>0, <1>2, <2>1, <2>2, <2>3, <2>4, <2>5, CleanerKeeps
<1>4. CASE /\ SetDeliveryFileCleanup(f, "retry", TRUE)
           /\ cleaner' = [cleaner EXCEPT !.pc = "files", !.file = {}]
           /\ UNCHANGED payload
  <2>1. LedgerMoves /\ ReceiptMoves /\ UNCHANGED <<batch, deleted>>
    BY <1>2, <1>4, CleanupMoves DEF CleanupStates
  <2>2. cleaner' \in Cleaners /\ cleaner'.promote = cleaner.promote /\ cleaner'.file = {} /\ cleaner'.pc = "files"
    BY <1>0, <1>4 DEF Cleaners
  <2>. QED BY <1>0, <1>2, <1>4, <2>1, <2>2, CleanerKeeps
<1>. QED BY <1>1, <1>3, <1>4

LEMMA StampKeeps ==
    ASSUME Inv, CleanerStamp
    PROVE  Inv'
<1>0. cleaner \in Cleaners /\ cleaner.promote \subseteq Excess
  BY DEF Inv, Typed, ThreadsTyped, Surplus
<1>1. PICK f \in cleaner.file : SetDeliveryFileCleanup(f, "removed", FALSE)
  BY DEF CleanerStamp
<1>2. f \in Files /\ payload[f] = "gone"
  BY <1>0 DEF Cleaners, CleanerStamp, Inv, ThreadsAbsent
<1>3. LedgerMoves /\ ReceiptMoves /\ UNCHANGED <<batch, deleted>>
  BY <1>1, <1>2, CleanupMoves DEF CleanupStates
<1>4. cleaner' \in Cleaners /\ cleaner'.promote = cleaner.promote /\ cleaner'.pc = "files" /\ cleaner'.file = {}
  BY <1>0 DEF Cleaners, CleanerStamp
<1>. QED BY <1>0, <1>3, <1>4, CleanerKeeps DEF CleanerStamp, disk, Inv, Typed, WorldTyped

\* The directory's own state is all its cleanup writes.
LEMMA DirectoryQuiet ==
    ASSUME Inv, NEW state \in CleanupStates, SetDeliveryDirectoryCleanup(state)
    PROVE  LedgerMoves /\ ReceiptMoves /\ UNCHANGED <<batch, deleted>>
BY DirectoryMoves, LedgerStays DEF SetDeliveryDirectoryCleanup

LEMMA IdleCleaner == CleanerIdle \in Cleaners /\ CleanerIdle.promote = {} /\ CleanerIdle.file = {} /\ CleanerIdle.pc = "idle"
BY DEF CleanerIdle, Cleaners

LEMMA FilesDoneKeeps ==
    ASSUME Inv, CleanerFilesDone
    PROVE  Inv'
<1>1. LedgerMoves /\ ReceiptMoves /\ UNCHANGED <<batch, deleted>>
  <2>1. CASE UNCHANGED database
    BY <2>1, LedgerStays, ReceiptStays DEF database
  <2>2. CASE SetDeliveryDirectoryCleanup("pending")
    <3>1. "pending" \in CleanupStates
      BY DEF CleanupStates
    <3>. QED BY <2>2, <3>1, DirectoryQuiet
  <2>. QED BY <2>1, <2>2 DEF CleanerFilesDone
<1>2. cleaner' = CleanerIdle \/ cleaner' = [CleanerIdle EXCEPT !.pc = "directory"]
  BY DEF CleanerFilesDone
<1>3. cleaner' \in Cleaners /\ cleaner'.promote = {} /\ cleaner'.file = {}
  <2>1. [CleanerIdle EXCEPT !.pc = "directory"] \in {c \in Cleaners : c.promote = {} /\ c.file = {}}
    BY DEF CleanerIdle, Cleaners
  <2>. QED BY <1>2, <2>1, IdleCleaner
<1>. QED BY <1>1, <1>3, CleanerKeeps DEF CleanerFilesDone, disk, Inv, Typed, WorldTyped

LEMMA DirectoryKeeps ==
    ASSUME Inv, CleanerDirectory
    PROVE  Inv'
<1>0. /\ cleaner \in Cleaners /\ cleaner.promote \subseteq Excess /\ \A f, g \in cleaner.file : f = g
      /\ payload \in [Files -> {"original", "altered", "gone"}] /\ folder \in BOOLEAN
  BY DEF Inv, Typed, ThreadsTyped, WorldTyped, Surplus, ThreadsAbsent
<1>1. cleaner' = [cleaner EXCEPT !.pc = "blocked"] \/ cleaner' = [cleaner EXCEPT !.pc = "emptied"]
  BY DEF CleanerDirectory
<1>2. /\ cleaner' \in Cleaners /\ cleaner'.promote = cleaner.promote /\ cleaner'.file = cleaner.file
      /\ cleaner'.pc # "stamp"
  BY <1>0, <1>1 DEF Cleaners
<1>3. folder' \in BOOLEAN /\ payload' = payload
  BY DEF CleanerDirectory
<1>4. LedgerMoves /\ ReceiptMoves /\ UNCHANGED <<batch, deleted>>
  BY LedgerStays, ReceiptStays DEF CleanerDirectory, database
<1>. QED BY <1>0, <1>2, <1>3, <1>4, CleanerKeeps DEF CleanerDirectory

LEMMA DirectoryDoneKeeps ==
    ASSUME Inv, CleanerDirectoryDone
    PROVE  Inv'
<1>1. LedgerMoves /\ ReceiptMoves /\ UNCHANGED <<batch, deleted>>
  <2>1. PICK state \in CleanupStates : SetDeliveryDirectoryCleanup(state)
    <3>1. {"retry", "protected", "removed"} \subseteq CleanupStates
      BY DEF CleanupStates
    <3>. QED BY <3>1 DEF CleanerDirectoryDone
  <2>. QED BY <2>1, DirectoryQuiet
<1>. QED BY <1>1, IdleCleaner, CleanerKeeps DEF CleanerDirectoryDone, disk, Inv, Typed, WorldTyped

-----------------------------------------------------------------------------
(* Surroundings *)

LEMMA CompletesKeeps ==
    ASSUME Inv, ReplacementCompletes
    PROVE  Inv'
<1>1. UNCHANGED <<database, disk, threads, runner>>
  BY DEF ReplacementCompletes
<1>2. Typed'
  BY <1>1 DEF ReplacementCompletes, database, disk, threads, Inv, Typed, TablesTyped, ThreadsTyped, WorldTyped
<1>3. Told' /\ Recorded' /\ RowsAbsent' /\ ThreadsAbsent' /\ Surplus'
  BY <1>1 DEF database, disk, threads, Inv, Told, Recorded, RowsAbsent, ThreadsAbsent, Surplus, RowsSurplus
<1>. QED BY <1>2, <1>3 DEF Inv

LEMMA OutsideKeeps ==
    ASSUME Inv, OutsideChange
    PROVE  Inv'
<1>1. UNCHANGED <<database, folder, threads, download, picked, operation, runner>>
  BY DEF OutsideChange
<1>2. /\ payload' \in [Files -> {"original", "altered", "gone"}] /\ library' \in SUBSET Files
      /\ \A f \in Files : payload[f] = "gone" => payload'[f] = "gone"
  BY DEF OutsideChange, Inv, Typed, WorldTyped
<1>3. Typed'
  BY <1>1, <1>2 DEF database, threads, Inv, Typed, TablesTyped, ThreadsTyped, WorldTyped
<1>4. Told' /\ Recorded' /\ Surplus'
  BY <1>1 DEF database, threads, Inv, Told, Recorded, Surplus, RowsSurplus
<1>5. RowsAbsent'
  BY <1>1, <1>2 DEF database, Inv, RowsAbsent
<1>6. ThreadsAbsent'
  BY <1>1, <1>2 DEF database, threads, Inv, Typed, ThreadsTyped, Cleaners, Removers, ThreadsAbsent
<1>. QED BY <1>3, <1>4, <1>5, <1>6 DEF Inv

LEMMA CrashKeeps ==
    ASSUME Inv, Crash
    PROVE  Inv'
<1>1. UNCHANGED <<database, disk, download, picked, operation, runner>>
  BY DEF Crash
<1>2. importer' \in Importers /\ sweeper' \in Sweepers
  <2>1. ImporterIdle \in Importers
    BY DEF ImporterIdle, Importers
  <2>2. SweeperIdle \in Sweepers
    BY DEF SweeperIdle, Sweepers, States, Accepts
  <2>. QED BY <2>1, <2>2 DEF Crash
<1>3. remover' \in Removers /\ remover'.pc = "idle" /\ remover'.absent = {} /\ remover'.file = {}
  BY DEF Crash, RemoverIdle, Removers
<1>4. cleaner' = CleanerIdle
  BY DEF Crash
<1>5. acking' \in Acks /\ retrying' \in SUBSET Batches
  BY DEF Crash, NotAcking, Acks
<1>6. Typed'
  BY <1>1, <1>2, <1>3, <1>4, <1>5, IdleCleaner
     DEF database, disk, Inv, Typed, TablesTyped, ThreadsTyped, WorldTyped
<1>7. Told' /\ Recorded' /\ RowsAbsent'
  BY <1>1 DEF database, disk, Inv, Told, Recorded, RowsAbsent
<1>8. ThreadsAbsent'
  BY <1>3, <1>4, IdleCleaner DEF ThreadsAbsent
<1>9. Surplus'
  BY <1>1, <1>4, IdleCleaner DEF database, Inv, Surplus, RowsSurplus
<1>. QED BY <1>6, <1>7, <1>8, <1>9 DEF Inv

-----------------------------------------------------------------------------
(* The invariant. *)

LEMMA InitInv ==
    ASSUME Init
    PROVE  Inv
<1>1. TablesTyped
  <2>1. receipt \in Receipts
    BY DEF Init, DatabaseInit, Receipts, States, Accepts
  <2>2. EmptyRow \in LedgerRows /\ NoBatch \in BatchRows
    BY DEF EmptyRow, LedgerRows, Dispositions, CleanupStates, NoBatch, BatchRows
  <2>3. ledger \in [Files -> LedgerRows] /\ batch \in [Batches -> BatchRows]
    BY <2>2 DEF Init, DatabaseInit
  <2>4. deleted \in [Batches -> [Files -> Nat]]
    BY DEF Init, DatabaseInit
  <2>. QED BY <2>1, <2>3, <2>4 DEF TablesTyped
<1>2. ThreadsTyped
  <2>1. sweeper \in Sweepers
    BY DEF Init, SweeperIdle, Sweepers, States, Accepts
  <2>2. acking \in Acks
    BY DEF Init, NotAcking, Acks
  <2>. QED BY <2>1, <2>2, IdleImporterTyped, IdleRemoverTyped DEF Init, ThreadsTyped
<1>3. WorldTyped
  BY DEF Init, WorldTyped
<1>4. \A f \in Files : ledger[f].cleanup = "protected" /\ ledger[f].disposition = "none" /\ ~ledger[f].excess
  BY DEF Init, DatabaseInit, EmptyRow
<1>5. Told /\ RowsAbsent
  BY <1>4 DEF Init, Told, RowsAbsent
<1>6. Recorded
  <2>1. \A b \in Batches : batch[b].recorded = {} /\ \A f \in Files : deleted[b][f] = 0
    BY DEF Init, DatabaseInit, NoBatch
  <2>. QED BY <2>1 DEF Recorded
<1>7. ThreadsAbsent
  BY DEF Init, ThreadsAbsent, RemoverIdle, CleanerIdle
<1>8. Surplus
  BY <1>4 DEF Init, Surplus, RowsSurplus, CleanerIdle
<1>. QED BY <1>1, <1>2, <1>3, <1>5, <1>6, <1>7, <1>8 DEF Inv, Typed

LEMMA NextKeeps ==
    ASSUME Inv, [Next]_vars
    PROVE  Inv'
<1>1. CASE \E changed \in BOOLEAN : Discover(changed)
  BY <1>1, DiscoverKeeps
<1>2. CASE RefreshSourceCleanup \/ RetryRunnerSourceCleanup
  BY <1>2, RefreshKeeps
<1>3. CASE SweepStep
  BY <1>3, SweepReadKeeps, SweepDownloadKeeps, SweepActKeeps DEF SweepStep
<1>4. CASE AckStep
  BY <1>4, AskKeeps, AnswerKeeps DEF AckStep
<1>5. CASE ImporterStep
  BY <1>5, ImporterMoves, PrepareKeeps, CheckKeeps, PlaceKeeps, OutcomesKeep, MarkKeeps DEF ImporterStep
<1>6. CASE RemoverStep
  BY <1>6, VerifyKeeps, PrepareDeleteKeeps, FileKeeps, CompleteKeeps, DoneKeeps, RetryDeleteKeeps DEF RemoverStep
<1>7. CASE CleanerStep
  BY <1>7, StartKeeps, ReadKeeps, ResumeKeeps, PromoteKeeps, ProveKeeps, PromotedKeeps, UnlinkKeeps, StampKeeps,
     FilesDoneKeeps, DirectoryKeeps, DirectoryDoneKeeps DEF CleanerStep
<1>8. CASE \E files \in SUBSET Files : QueueDeliveryImport(files)
  BY <1>8, QueueImportKeeps
<1>9. CASE \E b \in Batches, files \in SUBSET Files : RequestDelete(b, files)
  BY <1>9, RequestKeeps
<1>10. CASE \E b \in Batches : AbandonDelete(b)
  BY <1>10, AbandonKeeps
<1>11. CASE RemoverError
  BY <1>11, DoneKeeps
<1>12. CASE ReplacementCompletes \/ OutsideChange \/ Crash
  BY <1>12, CompletesKeeps, OutsideKeeps, CrashKeeps
<1>13. CASE UNCHANGED vars
  BY <1>13 DEF vars, database, disk, threads, world, Inv, Typed, TablesTyped, ThreadsTyped, WorldTyped,
     Told, Recorded, RowsAbsent, ThreadsAbsent, Surplus, RowsSurplus
<1>. QED BY <1>1, <1>2, <1>3, <1>4, <1>5, <1>6, <1>7, <1>8, <1>9, <1>10, <1>11, <1>12, <1>13 DEF Next

\* The rows of the tables, the threads and the surroundings keep their types
\* through every step of the sweep, the import, the cleanup and a restart.
THEOREM DeliveryTyped == Spec => []TypeOK
<1>1. Inv => TypeOK
  BY DEF Inv, Typed, TablesTyped, WorldTyped, TypeOK, Receipts, LedgerRows, BatchRows, Accepts
<1>. QED BY <1>1, InitInv, NextKeeps, PTL DEF Spec

\* A ledger row says removed only of a file that is gone, and a recorded
\* deletion is one of those: SetDeliveryFileCleanup and the completion of an
\* explicit delete are reached only with a file their thread saw gone or
\* unlinked itself, and no write takes the state back.
THEOREM RemovedStayGone == Spec => []RemovedIsGone
<1>1. Inv => RemovedIsGone
  BY DEF Inv, Recorded, RowsAbsent, RemovedIsGone
<1>. QED BY <1>1, InitInv, NextKeeps, PTL DEF Spec

\* CompleteExplicitDeliveryFileDelete writes the history event and the file's
\* mark in one transaction, so any number of replays leaves one event for each
\* file of a request that was removed, and none for the others.
THEOREM EventsMatchRemovals == Spec => []OneEventPerReviewedFile
<1>1. Inv => OneEventPerReviewedFile
  BY DEF Inv, Recorded, OneEventPerReviewedFile
<1>. QED BY <1>1, InitInv, NextKeeps, PTL DEF Spec

\* The consumer receipt id is drawn once and stored before Runner is told, so
\* the id Runner records is the one the receipt holds, whatever is lost.
THEOREM RunnerToldOurReceipt == Spec => []RunnerKnowsOurReceipt
<1>1. Inv => RunnerKnowsOurReceipt
  BY DEF Inv, Told, RunnerKnowsOurReceipt
<1>. QED BY <1>1, InitInv, NextKeeps, PTL DEF Spec

-----------------------------------------------------------------------------
(* What may remove a file. *)

RemovalCovered(f) ==
    payload[f] # "gone" /\ payload'[f] = "gone" =>
        f \in library \/ (f \in Excess /\ Covered) \/ HasPendingExplicitDeliveryDelete(f)

\* The deletion the operator reviewed unlinks under a request that is open.
LEMMA FileCovered ==
    ASSUME Inv, NEW f \in Files, NEW g \in Files, RemoverFile(g)
    PROVE  RemovalCovered(f)
<1>1. PICK b \in remover.batch :
        payload' = payload \/ (BeginExplicitDeliveryFileUnlink(b, g) /\ payload' = [payload EXCEPT ![g] = "gone"])
  BY DEF RemoverFile
<1>2. b \in Batches /\ payload \in [Files -> {"original", "altered", "gone"}]
  BY DEF Inv, Typed, ThreadsTyped, WorldTyped, Removers
<1>. QED BY <1>1, <1>2 DEF RemovalCovered, BeginExplicitDeliveryFileUnlink, HasPendingExplicitDeliveryDelete

\* Cleanup unlinks on the proof it repeats under the locks; only an excess
\* file's proof is the replacement.
LEMMA UnlinkCovered ==
    ASSUME Inv, NEW f \in Files, CleanerUnlink
    PROVE  RemovalCovered(f)
<1>1. PICK g \in cleaner.file :
        payload' = payload \/ (Proved(g) /\ payload' = [payload EXCEPT ![g] = "gone"])
  BY DEF CleanerUnlink, CleanerMayUnlink
<1>2. g \in Files /\ payload \in [Files -> {"original", "altered", "gone"}]
  BY DEF Inv, Typed, ThreadsTyped, WorldTyped, Cleaners
<1>3. Proved(g) => g \in library \/ (g \in Excess /\ Covered)
  BY <1>2 DEF Proved, LibraryEvidenceOwned, Inv, Surplus, RowsSurplus
<1>. QED BY <1>1, <1>2, <1>3 DEF RemovalCovered

LEMMA StepCovered ==
    ASSUME Inv, NEW f \in Files, Next
    PROVE  RemovalCovered(f)
<1>1. CASE UNCHANGED payload
  BY <1>1 DEF RemovalCovered
<1>2. CASE \E g \in Files : RemoverFile(g)
  BY <1>2, FileCovered
<1>3. CASE CleanerUnlink
  BY <1>3, UnlinkCovered
<1>4. CASE OutsideChange
  BY <1>4 DEF OutsideChange, RemovalCovered, Inv, Typed, WorldTyped
<1>5. SweepStep \/ AckStep => UNCHANGED payload
  BY DEF SweepStep, SweepRead, SweepDownload, SweepAct, AckStep, CompleteDeliveryAcceptance, DeliveryAnswer, disk
<1>6. ImporterStep => UNCHANGED payload
  BY DEF ImporterStep, ImporterStart, VerifyDeliveryManifest, ImporterPrepare, ImporterCheck, PlaceFile,
         RecordDeliveryImportOutcomes, ImporterFinish, ImporterMark, disk
<1>7. RemoverStep => UNCHANGED payload \/ \E g \in Files : RemoverFile(g)
  BY DEF RemoverStep, RemoverVerify, RemoverPrepare, RemoverComplete, RemoverDone, RemoverRetry, disk
<1>8. CleanerStep => UNCHANGED payload \/ CleanerUnlink
  BY DEF CleanerStep, CleanerStart, CleanerRead, ResumeDelete, CleanerPromote, CleanerProve, CleanerPromoted,
         CleanerStamp, CleanerFilesDone, CleanerDirectory, CleanerDirectoryDone, disk
<1>9. ASSUME \/ \E changed \in BOOLEAN : Discover(changed)
             \/ RefreshSourceCleanup \/ RetryRunnerSourceCleanup
             \/ \E files \in SUBSET Files : QueueDeliveryImport(files)
             \/ \E b \in Batches, files \in SUBSET Files : RequestDelete(b, files)
             \/ \E b \in Batches : AbandonDelete(b)
             \/ RemoverError \/ ReplacementCompletes \/ Crash
      PROVE  UNCHANGED payload
  BY <1>9 DEF Discover, RefreshSourceCleanup, RetryRunnerSourceCleanup, QueueDeliveryImport, RequestDelete,
              AbandonDelete, RemoverError, ReplacementCompletes, Crash, disk
<1>. QED BY <1>1, <1>2, <1>3, <1>4, <1>5, <1>6, <1>7, <1>8, <1>9 DEF Next

\* A published file disappears only while the library still holds it, or its
\* replacement is complete and in place, or an open reviewed request names it:
\* CleanerUnlink proves it again under the locks, a reviewed deletion begins
\* each unlink against its own request, and only an excess file is disposable.
THEOREM RemovalsAreCovered == Spec => RemovalIsCovered
<1> DEFINE A == \A f \in Files :
                  payload[f] # "gone" /\ payload'[f] = "gone" =>
                      f \in library \/ (f \in Excess /\ Covered) \/ HasPendingExplicitDeliveryDelete(f)
<1>1. Inv /\ [Next]_vars => [A]_vars
  BY StepCovered DEF RemovalCovered
<1>2. Inv /\ [Next]_vars => Inv'
  BY NextKeeps
<1>3. Init => Inv
  BY InitInv
<1>4. RemovalIsCovered <=> [][A]_vars
  BY Zenon DEF RemovalIsCovered
<1> HIDE DEF A
<1>. QED BY <1>1, <1>2, <1>3, <1>4, PTL DEF Spec

----------------------------------------------------------------------------
(* Payloads: what completed cleanup may remove.                            *)

\* Sets with the empty string have names of their own.
Unplaced == {"", "grabbed"}
RowCustodies == {"", "placement", "attempt"}
Runners == {"", "pending", "settled"}
Observations == Storages \cup {""}

PayloadStates == {"", "grabbed", "downloaded", "failed", "importing", "imported"}

PayloadRow ==
  [gen : 0 .. MaxGens, state : PayloadStates, path : PayloadPaths \cup {0}, removed : BOOLEAN,
   dismissed : BOOLEAN, cleanup : BOOLEAN, custody : RowCustodies,
   runner : Runners]

PayloadReceipt ==
  [id : PayloadRows, gen : 1 .. MaxGens, path : PayloadPaths, state : PayloadStates, removed : BOOLEAN]

PayloadEntry ==
  [path : PayloadPaths, fingerprint : 0 .. MaxGens, legacy : BOOLEAN, delivery : BOOLEAN]

PayloadRef ==
  [id : PayloadRows, gen : 1 .. MaxGens, path : PayloadPaths \cup {0},
   from : {"sweep", "partial", "inline"}]

\* The rows and their receipts have their types.
BooksTyped ==
  /\ rows \in [PayloadRows -> PayloadRow]
  /\ receipts \in SUBSET PayloadReceipt
  /\ payloadCounts \in [gens : 0 .. MaxGens, faults : 0 .. MaxPayloadFaults]

PlacesTyped ==
  /\ storage \in [Storages -> [PayloadPaths -> 0 .. MaxGens]]
  /\ mounted \in Storages \cup {"none"}
  /\ scan \in [known : Storages, observed : Observations, error : BOOLEAN,
               entries : SUBSET PayloadEntry]
  /\ reviewed \in [gens : SUBSET Nat, paths : SUBSET Nat, fences : SUBSET Nat]
  /\ cleanupTask \in [todo : SUBSET PayloadRef, cur : PayloadRef \cup {NoRef},
                      step : {"check", "client", "local"}]

\* A row's columns go together: a path once the client has finished, no
\* custody but of a failure.
RowShape(r) ==
  /\ r.gen = 0 <=> r.state = NoDownload.state
  /\ r.path = 0 <=> r.state \in Unplaced
  /\ r.path = 0 => ~r.removed
  /\ RetainsCustody(r) => r.state = "failed"

\* A generation is one row's.
RowsDiffer ==
  /\ \A i \in PayloadRows : RowShape(rows[i]) /\ rows[i].gen <= payloadCounts.gens
  /\ \A i, j \in PayloadRows : rows[i].gen = rows[j].gen /\ rows[i].gen # 0 => i = j

\* A receipt is in step with the row that still names its generation, and
\* every reported download has one.
ReceiptsFollow ==
  /\ \A c \in receipts : c.gen <= payloadCounts.gens
  /\ \A c \in receipts, i \in PayloadRows : rows[i].gen = c.gen =>
       c.id = i /\ c.path = rows[i].path /\ c.state = rows[i].state /\ (c.removed <=> rows[i].removed)
  /\ \A i \in PayloadRows : rows[i].path # 0 => \E c \in receipts : c.gen = rows[i].gen

\* Nothing takes the row of an imported payload that was not removed.
RemainingIsOwned ==
  \A c \in receipts : c.state = "imported" /\ ~c.removed =>
    \E i \in PayloadRows : rows[i].gen = c.gen /\ ~rows[i].removed

\* Only what a storage change fenced can say removed of bytes that are there.
PayloadsGone ==
  \A c \in receipts : c.removed /\ c.gen \notin reviewed.fences => storage[scan.known][c.path] # c.gen

\* A download that has been reported, and imported where the cleanup says so.
RefIn(ref, kept) ==
  \E c \in kept : /\ c.id = ref.id /\ c.gen = ref.gen /\ c.path = ref.path
                  /\ ref.from \in {"sweep", "inline"} => c.state = "imported"

\* What cleanup holds or was handed by an import has been reported.
RefsKnown ==
  /\ \A ref \in cleanupTask.todo : ref.from = "inline" => RefIn(ref, receipts)
  /\ cleanupTask.cur # NoRef => RefIn(cleanupTask.cur, receipts)

\* Between its checks and its last step the cleanup holds a candidate they were
\* made for; the client is asked only while the expected storage is mounted.
TaskHolds ==
  /\ cleanupTask.step # "check" => cleanupTask.cur.from \in {"sweep", "inline"}
  /\ cleanupTask.cur.from = "sweep" =>
       /\ rows[cleanupTask.cur.id].gen = cleanupTask.cur.gen
       /\ ~rows[cleanupTask.cur.id].removed
  /\ cleanupTask.step = "client" =>
       /\ mounted = scan.known
       /\ cleanupTask.cur.gen \notin reviewed.gens \cup reviewed.fences

Books == BooksTyped /\ RowsDiffer /\ ReceiptsFollow /\ RemainingIsOwned

PayloadInv == Books /\ PlacesTyped /\ PayloadsGone /\ RefsKnown /\ TaskHolds

\* A receipt is never lost, and an imported one stays so.
ReceiptsStay ==
  \A c \in receipts : \E d \in receipts' :
    d.id = c.id /\ d.gen = c.gen /\ d.path = c.path /\ (c.state = "imported" => d.state = "imported")

\* An imported row stays as long as its payload is there.
OwnersStay ==
  \A i \in PayloadRows : rows[i].state = "imported" /\ ~rows[i].removed =>
    rows'[i].gen = rows[i].gen /\ ~rows'[i].removed

LEMMA NoDownloadIsRow == NoDownload \in PayloadRow
BY PayloadsAssumption DEF PayloadsAssumption, NoDownload, PayloadRow, PayloadStates, RowCustodies, Runners

LEMMA NoDownloadIsBlank == NoDownload.gen = 0 /\ NoDownload.path = 0
BY DEF NoDownload

LEMMA StateNames ==
  /\ "grabbed" \in Unplaced /\ NoDownload.state \in Unplaced
  /\ \A x \in {"downloaded", "failed", "importing", "imported"} : x \notin Unplaced
  /\ \A x \in PayloadStates \ {"grabbed"} : x \in Unplaced => x = NoDownload.state
  /\ NoDownload.state \notin {"grabbed", "downloaded", "failed", "importing", "imported"}
  /\ {"grabbed", "downloaded", "failed", "importing", "imported"} \subseteq PayloadStates
  /\ NoDownload.state \in PayloadStates
<1>1. NoDownload.state = ""
  BY DEF NoDownload
<1>2. "" \notin {"grabbed", "downloaded", "failed", "importing", "imported"}
  BY Zenon
<1>. QED
  BY <1>1, <1>2, Zenon DEF Unplaced, PayloadStates

LEMMA NoDownloadShape == RowShape(NoDownload)
<1>1. NoDownload.gen = 0 /\ NoDownload.path = 0 /\ NoDownload.removed = FALSE
  BY DEF NoDownload
<1>2. ~RetainsCustody(NoDownload)
  BY Zenon DEF NoDownload, RetainsCustody
<1>. QED
  BY <1>1, <1>2, StateNames, Zenon DEF RowShape

LEMMA BooksFacts ==
  ASSUME Books
  PROVE  /\ MaxGens \in Nat /\ payloadCounts.gens \in Nat
         /\ \A i \in PayloadRows : rows[i] \in PayloadRow /\ rows[i].gen \in Nat
         /\ \A c \in receipts : c.gen \in Nat \ {0} /\ c.path \in PayloadPaths \ {0}
<1>1. MaxGens \in Nat /\ 0 \notin PayloadPaths /\ 0 .. MaxGens \subseteq Nat /\ 1 .. MaxGens \subseteq Nat \ {0}
  BY PayloadsAssumption DEF PayloadsAssumption
<1>2. payloadCounts.gens \in Nat
  BY <1>1 DEF Books, BooksTyped
<1>3. \A i \in PayloadRows : rows[i] \in PayloadRow
  BY DEF Books, BooksTyped
<1>4. \A r \in PayloadRow : r.gen \in Nat
  BY <1>1 DEF PayloadRow
<1>5. \A c \in PayloadReceipt : c.gen \in Nat \ {0} /\ c.path \in PayloadPaths
  BY <1>1 DEF PayloadReceipt
<1>6. receipts \subseteq PayloadReceipt
  BY DEF Books, BooksTyped
<1>. QED
  BY <1>1, <1>2, <1>3, <1>4, <1>5, <1>6

LEMMA BooksSame ==
  ASSUME Books, UNCHANGED <<rows, receipts>>, payloadCounts' \in [gens : 0 .. MaxGens, faults : 0 .. MaxPayloadFaults],
         payloadCounts.gens <= payloadCounts'.gens
  PROVE  Books' /\ ReceiptsStay /\ OwnersStay
<1>1. BooksTyped'
  BY DEF Books, BooksTyped
<1>2. RowsDiffer'
  <2>1. payloadCounts.gens \in Nat /\ payloadCounts'.gens \in Nat /\ \A i \in PayloadRows : rows[i].gen \in Nat
    BY BooksFacts
  <2>. QED
    BY <2>1 DEF Books, RowsDiffer
<1>3. ReceiptsFollow'
  <2>1. payloadCounts.gens \in Nat /\ payloadCounts'.gens \in Nat /\ \A c \in receipts : c.gen \in Nat
    BY BooksFacts
  <2>. QED
    BY <2>1 DEF Books, ReceiptsFollow
<1>4. RemainingIsOwned'
  BY DEF Books, RemainingIsOwned
<1>5. ReceiptsStay /\ OwnersStay
  BY DEF ReceiptsStay, OwnersStay
<1>. QED
  BY <1>1, <1>2, <1>3, <1>4, <1>5 DEF Books

\* Rows may be hidden or dropped if no payload that remains loses its row.
LEMMA BooksDismiss ==
  ASSUME Books, NEW dropped \in SUBSET PayloadRows, UNCHANGED <<receipts, payloadCounts>>,
         \A i \in dropped : rows[i].state = "imported" => rows[i].removed,
         rows' \in [PayloadRows -> PayloadRow],
         \A i \in dropped : rows'[i] = NoDownload,
         \A i \in PayloadRows \ dropped :
           /\ rows'[i].gen = rows[i].gen /\ rows'[i].path = rows[i].path /\ rows'[i].state = rows[i].state
           /\ rows'[i].removed = rows[i].removed /\ rows'[i].custody = rows[i].custody /\ rows'[i].cleanup = rows[i].cleanup
  PROVE  Books' /\ ReceiptsStay /\ OwnersStay
<1>1. BooksTyped'
  BY DEF Books, BooksTyped
<1>2. RowsDiffer'
  <2>1. ASSUME NEW i \in PayloadRows PROVE RowShape(rows'[i]) /\ rows'[i].gen <= payloadCounts.gens
    <3>1. CASE i \in dropped
      <4>1. rows'[i] = NoDownload
        BY <3>1
      <4>2. RowShape(rows'[i])
        BY <4>1, NoDownloadShape, Zenon
      <4>3. NoDownload.gen <= payloadCounts.gens
        BY NoDownloadIsBlank, BooksFacts
      <4>. QED
        BY <4>1, <4>2, <4>3
    <3>2. CASE i \notin dropped
      <4>1. RetainsCustody(rows'[i]) <=> RetainsCustody(rows[i])
        BY <3>2, Zenon DEF RetainsCustody
      <4>. QED
        BY <3>2, <4>1 DEF Books, RowsDiffer, RowShape
    <3>. QED
      BY <3>1, <3>2
  <2>2. ASSUME NEW i \in PayloadRows, NEW j \in PayloadRows, rows'[i].gen = rows'[j].gen, rows'[i].gen # 0
        PROVE  i = j
    <3>1. i \notin dropped /\ j \notin dropped
      BY <2>2, NoDownloadIsBlank, BooksFacts
    <3>. QED
      BY <2>2, <3>1 DEF Books, RowsDiffer
  <2>. QED
    BY <2>1, <2>2 DEF RowsDiffer
<1>3. \A c \in receipts, i \in PayloadRows : rows'[i].gen = c.gen => i \notin dropped
  BY NoDownloadIsBlank, BooksFacts DEF Books, BooksTyped, PayloadReceipt
<1>4. ReceiptsFollow'
  <2>1. \A i \in PayloadRows : rows'[i].path # 0 => i \notin dropped
    BY NoDownloadIsBlank, BooksFacts
  <2>. QED
    BY <1>3, <2>1 DEF Books, ReceiptsFollow
<1>5. RemainingIsOwned'
  <2>1. ASSUME NEW c \in receipts, c.state = "imported", ~c.removed
        PROVE  \E i \in PayloadRows : rows'[i].gen = c.gen /\ ~rows'[i].removed
    <3>1. PICK i \in PayloadRows : rows[i].gen = c.gen /\ ~rows[i].removed
      BY <2>1 DEF Books, RemainingIsOwned
    <3>2. rows[i].state = "imported"
      BY <2>1, <3>1 DEF Books, ReceiptsFollow
    <3>3. i \notin dropped
      BY <3>1, <3>2
    <3>. QED
      BY <3>1, <3>3
  <2>. QED
    BY <2>1 DEF RemainingIsOwned
<1>6. ReceiptsStay
  BY DEF ReceiptsStay
<1>7. OwnersStay
  BY DEF OwnersStay
<1>. QED
  BY <1>1, <1>2, <1>4, <1>5, <1>6, <1>7 DEF Books

\* A row whose place is known is written with its receipt; it may go with the
\* write that says its payload is gone.
LEMMA BooksWritten ==
  ASSUME Books, NEW i \in PayloadRows, NEW r \in PayloadRow, rows[i].gen # 0,
         r.gen = rows[i].gen, r.path # 0, rows[i].path \in {0, r.path}, RowShape(r),
         rows[i].state = "imported" => r.state = "imported", receipts' = Receipted(i, r),
         payloadCounts' \in [gens : 0 .. MaxGens, faults : 0 .. MaxPayloadFaults],
         payloadCounts'.gens = payloadCounts.gens,
         \/ rows' = [rows EXCEPT ![i] = r]
         \/ rows' = [rows EXCEPT ![i] = NoDownload] /\ (r.state = "imported" => r.removed)
  PROVE  Books' /\ ReceiptsStay
<1>. DEFINE new == [id |-> i, gen |-> r.gen, path |-> r.path, state |-> r.state, removed |-> r.removed]
            old == {c \in receipts : ~(c.gen = r.gen /\ c.path = r.path)}
<1>1. receipts' = old \cup {new}
  BY DEF Receipted
<1>2. /\ rows \in [PayloadRows -> PayloadRow] /\ receipts \in SUBSET PayloadReceipt
      /\ r.gen \in 1 .. MaxGens /\ r.path \in PayloadPaths
  <2>1. r.gen \in 0 .. MaxGens /\ r.path \in PayloadPaths \cup {0}
    BY DEF PayloadRow
  <2>2. r.gen \in 1 .. MaxGens
    BY <2>1, BooksFacts
  <2>. QED
    BY <2>1, <2>2 DEF Books, BooksTyped
<1>3. new \in PayloadReceipt
  BY <1>2 DEF PayloadReceipt, PayloadRow
<1>4. new.id = i /\ new.gen = r.gen /\ new.path = r.path /\ new.state = r.state /\ new.removed = r.removed
  OBVIOUS
<1>. HIDE DEF new
<1>5. rows' \in [PayloadRows -> PayloadRow] /\ \A j \in PayloadRows \ {i} : rows'[j] = rows[j]
  BY <1>2, NoDownloadIsRow
<1>6. rows'[i] = r \/ (rows'[i] = NoDownload /\ (r.state = "imported" => r.removed))
  BY <1>2
<1>7. BooksTyped'
  BY <1>1, <1>2, <1>3, <1>5 DEF BooksTyped
<1>8. \A c \in receipts : c.gen = r.gen => c.path = r.path \/ rows[i].path = 0
  BY DEF Books, ReceiptsFollow
<1>9. \A c \in old : c.gen # r.gen
  <2>1. \A c \in receipts : c.path # 0
    BY <1>2, PayloadsAssumption DEF PayloadReceipt, PayloadsAssumption
  <2>. QED
    BY <2>1 DEF Books, ReceiptsFollow
<1>10. RowsDiffer'
  <2>1. payloadCounts.gens \in Nat /\ r.gen <= payloadCounts.gens
    BY PayloadsAssumption DEF Books, RowsDiffer, BooksTyped, PayloadsAssumption
  <2>2. ASSUME NEW j \in PayloadRows PROVE RowShape(rows'[j]) /\ rows'[j].gen <= payloadCounts.gens
    <3>1. CASE j = i
      <4>1. CASE rows'[i] = r
        BY <2>1, <3>1, <4>1
      <4>2. CASE rows'[i] = NoDownload
        <5>1. RowShape(rows'[i])
          BY <4>2, NoDownloadShape, Zenon
        <5>. QED
          BY <2>1, <3>1, <4>2, <5>1, NoDownloadIsBlank
      <4>. QED
        BY <1>6, <4>1, <4>2
    <3>2. CASE j # i
      BY <1>5, <3>2 DEF Books, RowsDiffer
    <3>. QED
      BY <3>1, <3>2
  <2>3. \A j \in PayloadRows : rows'[j].gen # 0 => rows'[j].gen = rows[j].gen
    BY <1>5, <1>6, NoDownloadIsBlank, BooksFacts
  <2>4. \A j, k \in PayloadRows : rows'[j].gen = rows'[k].gen /\ rows'[j].gen # 0 => j = k
    BY <2>3 DEF Books, RowsDiffer
  <2>. QED
    BY <2>2, <2>4 DEF RowsDiffer
<1>11. ASSUME NEW c \in receipts'
       PROVE  /\ c.gen <= payloadCounts.gens
              /\ \A j \in PayloadRows : rows'[j].gen = c.gen =>
                   c.id = j /\ c.path = rows'[j].path /\ c.state = rows'[j].state /\ (c.removed <=> rows'[j].removed)
  <2>1. CASE c = new
    <3>1. c.gen <= payloadCounts.gens
      BY <1>4, <2>1 DEF Books, RowsDiffer
    <3>2. ASSUME NEW j \in PayloadRows, rows'[j].gen = c.gen PROVE j = i /\ rows'[j] = r
      BY <1>2, <1>4, <1>5, <1>6, <2>1, <3>2, NoDownloadIsBlank, BooksFacts DEF Books, RowsDiffer
    <3>. QED
      BY <1>4, <2>1, <3>1, <3>2
  <2>2. CASE c \in old
    <3>1. ASSUME NEW j \in PayloadRows, rows'[j].gen = c.gen PROVE rows'[j] = rows[j]
      <4>1. j # i
        BY <1>2, <1>6, <1>9, <2>2, <3>1, NoDownloadIsBlank, BooksFacts DEF PayloadReceipt
      <4>. QED
        BY <1>5, <4>1
    <3>. QED
      BY <2>2, <3>1 DEF Books, ReceiptsFollow
  <2>. QED
    BY <1>1, <2>1, <2>2
<1>12. ASSUME NEW j \in PayloadRows, rows'[j].path # 0 PROVE \E c \in receipts' : c.gen = rows'[j].gen
  <2>1. CASE j = i
    BY <1>1, <1>4, <1>6, <1>12, <2>1, NoDownloadIsBlank, BooksFacts
  <2>2. CASE j # i
    <3>1. PICK c \in receipts : c.gen = rows[j].gen
      BY <1>5, <1>12, <2>2 DEF Books, ReceiptsFollow
    <3>2. c.gen # r.gen
      BY <1>2, <2>2, <3>1 DEF Books, RowsDiffer
    <3>. QED
      BY <1>1, <1>5, <2>2, <3>1, <3>2
  <2>. QED
    BY <2>1, <2>2
<1>13. ReceiptsFollow'
  BY <1>11, <1>12 DEF ReceiptsFollow
<1>14. ASSUME NEW c \in receipts', c.state = "imported", ~c.removed
       PROVE  \E j \in PayloadRows : rows'[j].gen = c.gen /\ ~rows'[j].removed
  <2>1. CASE c = new
    BY <1>4, <1>6, <1>14, <2>1
  <2>2. CASE c \in old
    <3>1. PICK j \in PayloadRows : rows[j].gen = c.gen /\ ~rows[j].removed
      BY <1>14, <2>2 DEF Books, RemainingIsOwned
    <3>2. j # i
      BY <1>9, <2>2, <3>1
    <3>. QED
      BY <1>5, <3>1, <3>2
  <2>. QED
    BY <1>1, <2>1, <2>2
<1>15. RemainingIsOwned'
  BY <1>14 DEF RemainingIsOwned
<1>16. ReceiptsStay
  <2>1. ASSUME NEW c \in receipts
        PROVE  \E d \in receipts' : d.id = c.id /\ d.gen = c.gen /\ d.path = c.path
                                    /\ (c.state = "imported" => d.state = "imported")
    <3>1. CASE c \in old
      BY <1>1, <3>1
    <3>2. CASE c \notin old
      <4>1. c.gen = r.gen /\ c.path = r.path
        BY <3>2
      <4>2. c.id = i /\ c.state = rows[i].state
        BY <4>1 DEF Books, ReceiptsFollow
      <4>. QED
        BY <1>1, <1>4, <4>1, <4>2
    <3>. QED
      BY <3>1, <3>2
  <2>. QED
    BY <2>1 DEF ReceiptsStay
<1>. QED
  BY <1>7, <1>10, <1>13, <1>15, <1>16 DEF Books

-----------------------------------------------------------------------------
(* What the parts of the invariant need of a step *)

LEMMA RefStays == ASSUME ReceiptsStay, NEW ref, RefIn(ref, receipts) PROVE RefIn(ref, receipts')
<1>1. PICK c \in receipts : /\ c.id = ref.id /\ c.gen = ref.gen /\ c.path = ref.path
                            /\ ref.from \in {"sweep", "inline"} => c.state = "imported"
  BY DEF RefIn
<1>2. PICK d \in receipts' : d.id = c.id /\ d.gen = c.gen /\ d.path = c.path
                             /\ (c.state = "imported" => d.state = "imported")
  BY DEF ReceiptsStay
<1>. QED
  BY <1>1, <1>2 DEF RefIn

\* The receipt of a reference tells what the row of the same generation is.
LEMMA RefRow ==
  ASSUME Books, NEW ref, RefIn(ref, receipts), NEW i \in PayloadRows, rows[i].gen = ref.gen
  PROVE  i = ref.id /\ rows[i].path = ref.path /\ (ref.from \in {"sweep", "inline"} => rows[i].state = "imported")
<1>1. PICK c \in receipts : /\ c.id = ref.id /\ c.gen = ref.gen /\ c.path = ref.path
                            /\ ref.from \in {"sweep", "inline"} => c.state = "imported"
  BY DEF RefIn
<1>. QED
  BY <1>1 DEF Books, ReceiptsFollow

LEMMA TaskTyped ==
  ASSUME PlacesTyped
  PROVE  /\ cleanupTask.cur \in PayloadRef \cup {NoRef} /\ cleanupTask.todo \subseteq PayloadRef
         /\ cleanupTask.cur # NoRef => cleanupTask.cur \in PayloadRef
         /\ cleanupTask.cur.from \in {"sweep", "partial", "inline"} => cleanupTask.cur \in PayloadRef
         /\ scan.known \in Storages
<1>1. cleanupTask.cur \in PayloadRef \cup {NoRef} /\ cleanupTask.todo \subseteq PayloadRef /\ scan.known \in Storages
  BY DEF PlacesTyped
<1>2. NoRef.from \notin {"sweep", "partial", "inline"}
  BY Zenon DEF NoRef
<1>. QED
  BY <1>1, <1>2

LEMMA RefTyped ==
  ASSUME NEW ref \in PayloadRef
  PROVE  ref.id \in PayloadRows /\ ref.gen \in Nat \ {0} /\ ref.from \in {"sweep", "partial", "inline"} /\ ref # NoRef
<1>1. 1 .. MaxGens \subseteq Nat \ {0}
  BY PayloadsAssumption DEF PayloadsAssumption
<1>2. NoRef.from \notin {"sweep", "partial", "inline"}
  BY Zenon DEF NoRef
<1>3. ref.id \in PayloadRows /\ ref.gen \in 1 .. MaxGens /\ ref.from \in {"sweep", "partial", "inline"}
  BY DEF PayloadRef
<1>. QED
  BY <1>1, <1>2, <1>3

\* A cleanup that is under way goes on.
LEMMA TaskKept ==
  ASSUME PayloadInv, OwnersStay, cleanupTask'.cur = cleanupTask.cur, cleanupTask'.step = cleanupTask.step,
         UNCHANGED <<mounted, reviewed>>, scan'.known = scan.known
  PROVE  TaskHolds'
<1>1. ASSUME cleanupTask.cur.from = "sweep"
      PROVE  /\ rows'[cleanupTask.cur.id].gen = cleanupTask.cur.gen
             /\ ~rows'[cleanupTask.cur.id].removed
  <2>1. cleanupTask.cur \in PayloadRef
    BY <1>1, TaskTyped DEF PayloadInv
  <2>2. cleanupTask.cur # NoRef /\ cleanupTask.cur.id \in PayloadRows
    BY <2>1, RefTyped
  <2>3. RefIn(cleanupTask.cur, receipts)
    BY <2>2 DEF PayloadInv, RefsKnown
  <2>4. rows[cleanupTask.cur.id].gen = cleanupTask.cur.gen /\ ~rows[cleanupTask.cur.id].removed
    BY <1>1 DEF PayloadInv, TaskHolds
  <2>5. rows[cleanupTask.cur.id].state = "imported"
    BY <1>1, <2>2, <2>3, <2>4, RefRow DEF PayloadInv
  <2>. QED
    BY <2>2, <2>4, <2>5 DEF OwnersStay
<1>. QED
  BY <1>1 DEF PayloadInv, TaskHolds

LEMMA RefsKept == ASSUME RefsKnown, ReceiptsStay, cleanupTask' = cleanupTask PROVE RefsKnown'
BY RefStays DEF RefsKnown

\* A cleanup that ends leaves only candidates.
LEMMA TaskReleased ==
  ASSUME PayloadInv, ReceiptsStay, Release
  PROVE  /\ RefsKnown' /\ TaskHolds'
         /\ cleanupTask' \in [todo : SUBSET PayloadRef, cur : PayloadRef \cup {NoRef}, step : {"check", "client", "local"}]
<1>1. cleanupTask \in [todo : SUBSET PayloadRef, cur : PayloadRef \cup {NoRef}, step : {"check", "client", "local"}]
  BY DEF PayloadInv, PlacesTyped
<1>2. cleanupTask' = [cleanupTask EXCEPT !.cur = NoRef, !.step = "check"]
  BY DEF Release
<1>3. cleanupTask' \in [todo : SUBSET PayloadRef, cur : PayloadRef \cup {NoRef}, step : {"check", "client", "local"}]
  BY <1>1, <1>2
<1>4. cleanupTask'.todo = cleanupTask.todo /\ cleanupTask'.cur = NoRef /\ cleanupTask'.step = "check"
  BY <1>1, <1>2
<1>5. RefsKnown'
  BY <1>4, RefStays DEF PayloadInv, RefsKnown
<1>6. TaskHolds'
  <2>1. NoRef.from \notin {"sweep", "inline"}
    BY Zenon DEF NoRef
  <2>. QED
    BY <1>4, <2>1 DEF TaskHolds
<1>. QED
  BY <1>3, <1>5, <1>6

\* Bytes that are gone stay gone on the storage that is expected.
LEMMA GoneKept ==
  ASSUME PayloadInv, Books', scan'.known = scan.known, reviewed.fences \subseteq reviewed'.fences,
         \A p \in PayloadPaths : storage'[scan.known][p] \in {storage[scan.known][p], 0},
         \A d \in receipts' : d.removed /\ d.gen \notin reviewed.fences =>
           \/ storage'[scan.known][d.path] # d.gen
           \/ \E c \in receipts : c.removed /\ c.gen = d.gen /\ c.path = d.path
  PROVE  PayloadsGone'
<1>1. ASSUME NEW d \in receipts', d.removed, d.gen \notin reviewed'.fences
      PROVE  storage'[scan.known][d.path] # d.gen
  <2>1. d.path \in PayloadPaths /\ d.gen # 0
    <3>1. receipts' \subseteq PayloadReceipt
      BY DEF Books, BooksTyped
    <3>2. \A c \in PayloadReceipt : c.path \in PayloadPaths /\ c.gen \in 1 .. MaxGens
      BY DEF PayloadReceipt
    <3>3. 0 \notin 1 .. MaxGens
      BY PayloadsAssumption DEF PayloadsAssumption
    <3>. QED
      BY <3>1, <3>2, <3>3
  <2>2. CASE \E c \in receipts : c.removed /\ c.gen = d.gen /\ c.path = d.path
    <3>1. storage[scan.known][d.path] # d.gen
      BY <1>1, <2>2 DEF PayloadInv, PayloadsGone
    <3>. QED
      BY <2>1, <3>1
  <2>. QED
    BY <1>1, <2>2
<1>. QED
  BY <1>1 DEF PayloadsGone

\* A step that writes rows and nothing else.
LEMMA BookStep ==
  ASSUME PayloadInv, Books', ReceiptsStay, OwnersStay, UNCHANGED <<storage, mounted, scan, reviewed, cleanupTask>>,
         \A d \in receipts' : d.removed => \E c \in receipts : c.removed /\ c.gen = d.gen /\ c.path = d.path
  PROVE  PayloadInv'
<1>1. PlacesTyped'
  BY DEF PayloadInv, PlacesTyped
<1>2. PayloadsGone'
  BY GoneKept
<1>3. RefsKnown'
  BY RefsKept DEF PayloadInv
<1>4. TaskHolds'
  BY TaskKept
<1>. QED
  BY <1>1, <1>2, <1>3, <1>4 DEF PayloadInv

\* A step that writes no row.
LEMMA PlaceStep ==
  ASSUME PayloadInv, UNCHANGED <<rows, receipts>>, payloadCounts'.gens = payloadCounts.gens,
         payloadCounts' \in [gens : 0 .. MaxGens, faults : 0 .. MaxPayloadFaults]
  PROVE  Books' /\ ReceiptsStay /\ OwnersStay
<1>1. payloadCounts.gens <= payloadCounts'.gens
  BY BooksFacts DEF PayloadInv
<1>. QED
  BY <1>1, BooksSame DEF PayloadInv

LEMMA BumpKeeps ==
  ASSUME PayloadInv, Bump("faults", MaxPayloadFaults)
  PROVE  /\ payloadCounts' \in [gens : 0 .. MaxGens, faults : 0 .. MaxPayloadFaults]
         /\ payloadCounts'.gens = payloadCounts.gens
<1>1. payloadCounts \in [gens : 0 .. MaxGens, faults : 0 .. MaxPayloadFaults] /\ MaxPayloadFaults \in Nat
  BY PayloadsAssumption DEF PayloadsAssumption, PayloadInv, Books, BooksTyped
<1>. QED
  BY <1>1 DEF Bump

LEMMA CountsKept ==
  ASSUME PayloadInv, UNCHANGED payloadCounts
  PROVE  /\ payloadCounts' \in [gens : 0 .. MaxGens, faults : 0 .. MaxPayloadFaults]
         /\ payloadCounts'.gens = payloadCounts.gens
BY DEF PayloadInv, Books, BooksTyped

-----------------------------------------------------------------------------
(* Activity and downloads *)

LEMMA DismissKeeps ==
  ASSUME PayloadInv, NEW hidden \in SUBSET PayloadRows, NEW dropped \in SUBSET PayloadRows,
         \A i \in dropped : rows[i].state = "imported" => rows[i].removed,
         dismissTerminalDownloads(hidden, dropped)
  PROVE  PayloadInv'
<1>1. /\ rows' = [i \in PayloadRows |->
           CASE i \in dropped -> NoDownload
             [] i \in hidden \ dropped -> [rows[i] EXCEPT !.dismissed = TRUE]
             [] OTHER -> rows[i]]
      /\ UNCHANGED <<receipts, storage, mounted, scan, reviewed, cleanupTask, payloadCounts>>
  BY DEF dismissTerminalDownloads
<1>2. ASSUME NEW i \in PayloadRows, i \notin dropped
      PROVE  /\ rows'[i] \in PayloadRow
             /\ rows'[i].gen = rows[i].gen /\ rows'[i].path = rows[i].path /\ rows'[i].state = rows[i].state
             /\ rows'[i].removed = rows[i].removed /\ rows'[i].custody = rows[i].custody
             /\ rows'[i].cleanup = rows[i].cleanup
  <2>1. rows[i] \in PayloadRow
    BY BooksFacts DEF PayloadInv
  <2>2. rows'[i] = rows[i] \/ rows'[i] = [rows[i] EXCEPT !.dismissed = TRUE]
    BY <1>1, <1>2
  <2>. QED
    BY <2>1, <2>2 DEF PayloadRow
<1>3. \A i \in dropped : rows'[i] = NoDownload
  BY <1>1
<1>4. rows' \in [PayloadRows -> PayloadRow]
  <2>1. \A i \in PayloadRows : rows'[i] \in PayloadRow
    BY <1>2, <1>3, NoDownloadIsRow
  <2>2. \E f : rows' = [i \in PayloadRows |-> f[i]]
    <3>. DEFINE f == [i \in PayloadRows |-> rows'[i]]
    <3>1. rows' = [i \in PayloadRows |-> f[i]]
      BY <1>1
    <3>. QED
      BY <3>1
  <2>. QED
    BY <2>1, <2>2
<1>5. Books' /\ ReceiptsStay /\ OwnersStay
  BY <1>1, <1>2, <1>3, <1>4, BooksDismiss DEF PayloadInv
<1>. QED
  BY <1>1, <1>5, BookStep

LEMMA ImportedWithoutPayload ==
  ASSUME PayloadInv, NEW i \in PayloadRows, rows[i].state = "imported", ~PayloadKnown(rows[i])
  PROVE  rows[i].removed
<1>1. RowShape(rows[i])
  BY DEF PayloadInv, Books, RowsDiffer
<1>2. rows[i].path # 0
  BY <1>1, StateNames DEF RowShape
<1>. QED
  BY <1>2 DEF PayloadKnown

LEMMA ClearKeeps ==
  ASSUME PayloadInv,
         ClearImportedDownloads \/ ClearFailedDownloads \/ \E old \in SUBSET PayloadRows : PruneActivity(old)
  PROVE  PayloadInv'
<1>1. ASSUME NEW i \in PayloadRows, DeleteTerminalDownloads(rows[i]), rows[i].state = "imported"
      PROVE  rows[i].removed
  BY <1>1, ImportedWithoutPayload DEF DeleteTerminalDownloads, DeleteFailedDownloads, DeleteImportedDownloads
<1>2. CASE ClearImportedDownloads
  <2>. DEFINE h == {i \in PayloadRows : DismissImportedDownload(rows[i])}
              d == {i \in PayloadRows : DeleteImportedDownloads(rows[i])}
  <2>1. dismissTerminalDownloads(h, d)
    BY <1>2 DEF ClearImportedDownloads
  <2>2. \A i \in d : rows[i].state = "imported" => rows[i].removed
    BY <1>1 DEF DeleteTerminalDownloads
  <2>3. h \in SUBSET PayloadRows /\ d \in SUBSET PayloadRows
    OBVIOUS
  <2>. HIDE DEF h, d
  <2>. QED
    BY <2>1, <2>2, <2>3, DismissKeeps
<1>3. CASE ClearFailedDownloads
  <2>. DEFINE h == {i \in PayloadRows : DismissFailedDownloadsWithPendingRunnerReceipt(rows[i])}
              d == {i \in PayloadRows : DeleteFailedDownloads(rows[i])}
  <2>1. dismissTerminalDownloads(h, d)
    BY <1>3 DEF ClearFailedDownloads
  <2>2. \A i \in d : rows[i].state = "imported" => rows[i].removed
    BY <1>1 DEF DeleteTerminalDownloads
  <2>3. h \in SUBSET PayloadRows /\ d \in SUBSET PayloadRows
    OBVIOUS
  <2>. HIDE DEF h, d
  <2>. QED
    BY <2>1, <2>2, <2>3, DismissKeeps
<1>4. ASSUME NEW old \in SUBSET PayloadRows, PruneActivity(old)
      PROVE  PayloadInv'
  <2>. DEFINE h == {i \in old : DismissImportedDownload(rows[i])}
              d == {i \in old : DeleteTerminalDownloads(rows[i])}
  <2>1. dismissTerminalDownloads(h, d)
    BY <1>4 DEF PruneActivity
  <2>2. \A i \in d : rows[i].state = "imported" => rows[i].removed
    BY <1>1
  <2>3. h \in SUBSET PayloadRows /\ d \in SUBSET PayloadRows
    OBVIOUS
  <2>. HIDE DEF h, d
  <2>. QED
    BY <2>1, <2>2, <2>3, DismissKeeps
<1>. QED
  BY <1>2, <1>3, <1>4

LEMMA DeleteActivityRowKeeps ==
  ASSUME PayloadInv, NEW i \in PayloadRows, DeleteActivityRow(i)
  PROVE  PayloadInv'
<1>1. /\ ~RetainsCustody(rows[i])
      /\ UNCHANGED <<receipts, storage, mounted, scan, reviewed, cleanupTask, payloadCounts>>
      /\ \/ DismissImportedDownload(rows[i]) /\ rows' = [rows EXCEPT ![i].dismissed = TRUE]
         \/ /\ ~DismissImportedDownload(rows[i]) /\ rows' = [rows EXCEPT ![i] = NoDownload]
  BY DEF DeleteActivityRow
<1>2. rows \in [PayloadRows -> PayloadRow]
  BY DEF PayloadInv, Books, BooksTyped
<1>3. CASE rows' = [rows EXCEPT ![i].dismissed = TRUE]
  <2>1. rows[i] \in PayloadRow
    BY <1>2
  <2>. DEFINE r == [rows[i] EXCEPT !.dismissed = TRUE]
  <2>2. /\ r \in PayloadRow
        /\ r.gen = rows[i].gen /\ r.path = rows[i].path /\ r.state = rows[i].state
        /\ r.removed = rows[i].removed /\ r.custody = rows[i].custody /\ r.cleanup = rows[i].cleanup
    BY <2>1 DEF PayloadRow
  <2>3. rows' = [rows EXCEPT ![i] = r]
    BY <1>3
  <2>. HIDE DEF r
  <2>4. rows' \in [PayloadRows -> PayloadRow] /\ rows'[i] = r /\ \A j \in PayloadRows \ {i} : rows'[j] = rows[j]
    BY <1>2, <2>2, <2>3
  <2>5. \A j \in PayloadRows :
          /\ rows'[j].gen = rows[j].gen /\ rows'[j].path = rows[j].path /\ rows'[j].state = rows[j].state
          /\ rows'[j].removed = rows[j].removed /\ rows'[j].custody = rows[j].custody
          /\ rows'[j].cleanup = rows[j].cleanup
    BY <2>2, <2>4
  <2>6. {} \in SUBSET PayloadRows
    OBVIOUS
  <2>7. Books' /\ ReceiptsStay /\ OwnersStay
    BY <1>1, <2>4, <2>5, <2>6, BooksDismiss DEF PayloadInv
  <2>. QED
    BY <1>1, <2>7, BookStep
<1>4. CASE ~DismissImportedDownload(rows[i]) /\ rows' = [rows EXCEPT ![i] = NoDownload]
  <2>1. rows[i].state = "imported" => rows[i].removed
    BY <1>1, <1>4, ImportedWithoutPayload DEF DismissImportedDownload
  <2>2. rows' \in [PayloadRows -> PayloadRow] /\ rows'[i] = NoDownload /\ \A j \in PayloadRows \ {i} : rows'[j] = rows[j]
    BY <1>2, <1>4, NoDownloadIsRow
  <2>3. {i} \in SUBSET PayloadRows
    OBVIOUS
  <2>4. Books' /\ ReceiptsStay /\ OwnersStay
    BY <1>1, <2>1, <2>2, <2>3, BooksDismiss DEF PayloadInv
  <2>. QED
    BY <1>1, <2>4, BookStep
<1>. QED
  BY <1>1, <1>3, <1>4

LEMMA InsertDownloadKeeps ==
  ASSUME PayloadInv, NEW i \in PayloadRows, NEW held \in Runners, InsertDownload(i, held)
  PROVE  PayloadInv'
<1>. DEFINE r == [NoDownload EXCEPT !.gen = payloadCounts'.gens, !.state = "grabbed", !.runner = held]
<1>1. /\ rows[i] = NoDownload /\ payloadCounts.gens < MaxGens
      /\ payloadCounts' = [payloadCounts EXCEPT !["gens"] = @ + 1]
      /\ rows' = [rows EXCEPT ![i] = r]
      /\ UNCHANGED <<receipts, storage, mounted, scan, reviewed, cleanupTask>>
  BY DEF InsertDownload, Bump
<1>2. /\ rows \in [PayloadRows -> PayloadRow] /\ receipts \in SUBSET PayloadReceipt
      /\ payloadCounts \in [gens : 0 .. MaxGens, faults : 0 .. MaxPayloadFaults]
  BY DEF PayloadInv, Books, BooksTyped
<1>3. MaxGens \in Nat /\ MaxPayloadFaults \in Nat
  BY PayloadsAssumption DEF PayloadsAssumption
<1>. DEFINE n == payloadCounts.gens
            m == payloadCounts'.gens
<1>4. n \in Nat /\ m \in Nat /\ m = n + 1 /\ m \in 0 .. MaxGens
  <2>1. n \in 0 .. MaxGens /\ m = n + 1
    BY <1>1, <1>2
  <2>. HIDE DEF n, m
  <2>2. n < MaxGens
    BY <1>1 DEF n
  <2>3. MaxGens \in Nat
    BY <1>3
  <2>4. n \in Nat
    BY <2>1, <2>3
  <2>5. m \in Nat /\ m \in 0 .. MaxGens
    BY <2>1, <2>2, <2>3, <2>4
  <2>. QED
    BY <2>1, <2>4, <2>5
<1>5. payloadCounts' \in [gens : 0 .. MaxGens, faults : 0 .. MaxPayloadFaults]
  <2>1. payloadCounts' = [payloadCounts EXCEPT !["gens"] = m]
    BY <1>1, <1>2
  <2>. HIDE DEF n, m
  <2>. QED
    BY <1>2, <1>4, <2>1
<1>6. r.gen = m /\ r.state = "grabbed" /\ r.path = 0 /\ r.removed = FALSE
  BY Zenon DEF NoDownload
<1>7. r \in PayloadRow
  BY <1>4, StateNames, NoDownloadIsRow DEF PayloadRow
<1>8. RowShape(r)
  <2>1. ~RetainsCustody(r)
    BY Zenon DEF NoDownload, RetainsCustody
  <2>. QED
    BY <1>4, <1>6, <2>1, StateNames DEF RowShape
<1>. HIDE DEF r, n, m
<1>9. rows' \in [PayloadRows -> PayloadRow] /\ rows'[i] = r /\ \A j \in PayloadRows \ {i} : rows'[j] = rows[j]
  BY <1>1, <1>2, <1>7
<1>10. BooksTyped'
  BY <1>1, <1>2, <1>5, <1>9 DEF BooksTyped
<1>11. \A j \in PayloadRows : rows[j].gen <= n /\ rows[j].gen \in Nat
  BY BooksFacts DEF n, PayloadInv, Books, RowsDiffer
<1>12. \A c \in receipts : c.gen <= n /\ c.gen \in Nat
  BY BooksFacts DEF n, PayloadInv, Books, ReceiptsFollow
<1>13. RowsDiffer'
  <2>1. ASSUME NEW j \in PayloadRows PROVE RowShape(rows'[j]) /\ rows'[j].gen <= m
    <3>1. CASE j = i
      BY <1>4, <1>6, <1>8, <1>9, <3>1
    <3>2. CASE j # i
      <4>1. RowShape(rows[j])
        BY DEF PayloadInv, Books, RowsDiffer
      <4>. QED
        BY <1>4, <1>9, <1>11, <3>2, <4>1
    <3>. QED
      BY <3>1, <3>2
  <2>2. ASSUME NEW j \in PayloadRows, NEW k \in PayloadRows, rows'[j].gen = rows'[k].gen, rows'[j].gen # 0
        PROVE  j = k
    <3>1. CASE j = i \/ k = i
      BY <1>4, <1>6, <1>9, <1>11, <2>2, <3>1
    <3>2. CASE j # i /\ k # i
      BY <1>9, <2>2, <3>2 DEF PayloadInv, Books, RowsDiffer
    <3>. QED
      BY <3>1, <3>2
  <2>. QED
    BY <2>1, <2>2 DEF RowsDiffer, m
<1>14. \A c \in receipts : c.gen # r.gen
  BY <1>4, <1>6, <1>12
<1>15. ReceiptsFollow'
  <2>1. \A c \in receipts : c.gen <= m
    BY <1>4, <1>12
  <2>2. \A c \in receipts, j \in PayloadRows : rows'[j].gen = c.gen => j # i
    BY <1>9, <1>14
  <2>3. \A j \in PayloadRows : rows'[j].path # 0 => j # i
    BY <1>6, <1>9
  <2>. QED
    BY <1>1, <1>9, <2>1, <2>2, <2>3 DEF PayloadInv, Books, ReceiptsFollow, m
<1>16. RemainingIsOwned'
  <2>1. ASSUME NEW c \in receipts, c.state = "imported", ~c.removed
        PROVE  \E j \in PayloadRows : rows'[j].gen = c.gen /\ ~rows'[j].removed
    <3>1. PICK j \in PayloadRows : rows[j].gen = c.gen /\ ~rows[j].removed
      BY <2>1 DEF PayloadInv, Books, RemainingIsOwned
    <3>2. c.gen # 0
      BY BooksFacts DEF PayloadInv
    <3>3. j # i
      BY <1>1, <3>1, <3>2, NoDownloadIsBlank
    <3>. QED
      BY <1>9, <3>1, <3>3
  <2>. QED
    BY <1>1, <2>1 DEF RemainingIsOwned
<1>17. ReceiptsStay
  BY <1>1 DEF ReceiptsStay
<1>18. OwnersStay
  <2>1. NoDownload.state # "imported"
    BY StateNames
  <2>. QED
    BY <1>1, <1>9, <2>1 DEF OwnersStay
<1>. QED
  BY <1>1, <1>10, <1>13, <1>15, <1>16, <1>17, <1>18, BookStep DEF Books

\* A live row that is written keeps its generation, its place once it has one,
\* and what is known of its removal.
LEMMA WriteStep ==
  ASSUME PayloadInv, NEW i \in PayloadRows, NEW r \in PayloadRow, rows[i].gen # 0, r.gen = rows[i].gen,
         r.path # 0, rows[i].path \in {0, r.path}, RowShape(r), rows[i].state = "imported" => r.state = "imported",
         r.removed = rows[i].removed, WriteRow(i, r), UNCHANGED payloadCounts
  PROVE  /\ Books' /\ ReceiptsStay /\ OwnersStay
         /\ \A d \in receipts' : d.removed => \E c \in receipts : c.removed /\ c.gen = d.gen /\ c.path = d.path
<1>1. rows' = [rows EXCEPT ![i] = r] /\ receipts' = Receipted(i, r)
  BY DEF WriteRow
<1>2. Books' /\ ReceiptsStay
  BY <1>1, CountsKept, BooksWritten DEF PayloadInv
<1>3. OwnersStay
  <2>1. rows \in [PayloadRows -> PayloadRow]
    BY DEF PayloadInv, Books, BooksTyped
  <2>. QED
    BY <1>1, <2>1 DEF OwnersStay
<1>4. ASSUME NEW d \in receipts', d.removed
      PROVE  \E c \in receipts : c.removed /\ c.gen = d.gen /\ c.path = d.path
  <2>. DEFINE new == [id |-> i, gen |-> r.gen, path |-> r.path, state |-> r.state, removed |-> r.removed]
  <2>1. d \in receipts \/ d = new
    BY <1>1 DEF Receipted
  <2>2. CASE d = new
    <3>1. d.gen = r.gen /\ d.path = r.path /\ d.removed = r.removed
      BY <2>2
    <3>2. rows[i].path # 0
      BY <1>4, <3>1 DEF PayloadInv, Books, RowsDiffer, RowShape
    <3>3. PICK c \in receipts : c.gen = rows[i].gen
      BY <3>2 DEF PayloadInv, Books, ReceiptsFollow
    <3>4. c.path = rows[i].path /\ (c.removed <=> rows[i].removed)
      BY <3>3 DEF PayloadInv, Books, ReceiptsFollow
    <3>. QED
      BY <1>4, <3>1, <3>2, <3>3, <3>4
  <2>. QED
    BY <1>4, <2>1, <2>2
<1>. QED
  BY <1>2, <1>3, <1>4

LEMMA RowLives ==
  ASSUME PayloadInv, NEW i \in PayloadRows, rows[i].state \in {"grabbed", "downloaded", "failed", "importing", "imported"}
  PROVE  /\ rows[i] \in PayloadRow /\ rows[i].gen # 0
         /\ rows[i].state # "grabbed" => rows[i].path # 0
         /\ rows[i].state = "grabbed" => rows[i].path = 0 /\ ~rows[i].removed
<1>1. RowShape(rows[i]) /\ rows[i] \in PayloadRow
  BY BooksFacts DEF PayloadInv, Books, RowsDiffer
<1>2. rows[i].gen # 0
  BY <1>1, StateNames DEF RowShape
<1>3. rows[i].state # "grabbed" => rows[i].path # 0
  BY <1>1, StateNames DEF RowShape
<1>4. rows[i].state = "grabbed" => rows[i].path = 0 /\ ~rows[i].removed
  BY <1>1, StateNames DEF RowShape
<1>. QED
  BY <1>1, <1>2, <1>3, <1>4

\* A row that is not imported is written in another state.
LEMMA ShapeOf ==
  ASSUME NEW r \in PayloadRow, r.gen # 0, r.path # 0, r.state \in {"downloaded", "failed", "importing", "imported"},
         RetainsCustody(r) => r.state = "failed"
  PROVE  RowShape(r)
BY StateNames DEF RowShape

LEMMA PollReportsKeeps ==
  ASSUME PayloadInv, NEW i \in PayloadRows, NEW p \in PayloadPaths, PollReports(i, p) \/ observeTorrentStall(i, p)
  PROVE  PayloadInv'
<1>1. p # 0
  BY PayloadsAssumption DEF PayloadsAssumption
<1>2. rows[i].state = "grabbed" /\ UNCHANGED <<storage, mounted, scan, reviewed, cleanupTask, payloadCounts>>
  BY DEF PollReports, observeTorrentStall
<1>3. rows[i] \in PayloadRow /\ rows[i].gen # 0 /\ rows[i].path = 0
  BY <1>2, RowLives
<1>4. PICK r : /\ WriteRow(i, r)
               /\ \/ r = [rows[i] EXCEPT !.state = "downloaded", !.path = p]
                  \/ r = [rows[i] EXCEPT !.state = "failed", !.path = p, !.cleanup = TRUE]
  BY DEF PollReports, observeTorrentStall
<1>5. /\ r \in PayloadRow /\ r.gen = rows[i].gen /\ r.path = p /\ r.removed = rows[i].removed
      /\ r.state \in {"downloaded", "failed"}
  <2>1. {"downloaded", "failed"} \subseteq PayloadStates
    BY StateNames
  <2>. QED
    BY <1>3, <1>4, <2>1 DEF PayloadRow
<1>6. RowShape(r)
  <2>1. RetainsCustody(rows[i]) => rows[i].state = "failed"
    BY DEF PayloadInv, Books, RowsDiffer, RowShape
  <2>2. r.state = "failed" \/ (r.custody = rows[i].custody /\ r.cleanup = rows[i].cleanup)
    BY <1>3, <1>4 DEF PayloadRow
  <2>3. RetainsCustody(r) => r.state = "failed"
    BY <1>2, <2>1, <2>2, Zenon DEF RetainsCustody
  <2>. QED
    BY <1>1, <1>3, <1>5, <2>3, ShapeOf
<1>7. /\ Books' /\ ReceiptsStay /\ OwnersStay
      /\ \A d \in receipts' : d.removed => \E c \in receipts : c.removed /\ c.gen = d.gen /\ c.path = d.path
  BY <1>1, <1>2, <1>3, <1>4, <1>5, <1>6, WriteStep
<1>. QED
  BY <1>2, <1>7, BookStep

\* Writes to a row whose place is known.
LEMMA PlacedRowKeeps ==
  ASSUME PayloadInv, NEW i \in PayloadRows, rows[i].state \in {"downloaded", "failed", "importing"}, NEW r \in PayloadRow,
         r.gen = rows[i].gen, r.path = rows[i].path, r.removed = rows[i].removed,
         r.state \in {"downloaded", "failed", "importing", "imported"},
         RetainsCustody(r) => r.state = "failed", WriteRow(i, r), UNCHANGED payloadCounts
  PROVE  /\ Books' /\ ReceiptsStay /\ OwnersStay
         /\ \A d \in receipts' : d.removed => \E c \in receipts : c.removed /\ c.gen = d.gen /\ c.path = d.path
<1>1. rows[i] \in PayloadRow /\ rows[i].gen # 0 /\ rows[i].path # 0
  BY RowLives
<1>2. RowShape(r)
  BY <1>1, ShapeOf
<1>. QED
  BY <1>1, <1>2, WriteStep

LEMMA PayloadImportStartsKeeps ==
  ASSUME PayloadInv, NEW i \in PayloadRows, PayloadImportStarts(i)
  PROVE  PayloadInv'
<1>. DEFINE r == [rows[i] EXCEPT !.state = "importing"]
<1>1. /\ rows[i].state \in {"downloaded", "failed"} /\ ~RetainsCustody(rows[i]) /\ WriteRow(i, r)
      /\ UNCHANGED <<storage, mounted, scan, reviewed, cleanupTask, payloadCounts>>
  BY DEF PayloadImportStarts
<1>2. rows[i] \in PayloadRow
  BY <1>1, RowLives
<1>3. /\ r.gen = rows[i].gen /\ r.path = rows[i].path /\ r.removed = rows[i].removed /\ r.state = "importing"
      /\ r.custody = rows[i].custody /\ r.cleanup = rows[i].cleanup
  BY <1>2 DEF PayloadRow
<1>4. r \in PayloadRow
  BY <1>2, StateNames DEF PayloadRow
<1>. HIDE DEF r
<1>5. ~RetainsCustody(r)
  BY <1>1, <1>3, Zenon DEF RetainsCustody
<1>6. /\ Books' /\ ReceiptsStay /\ OwnersStay
      /\ \A d \in receipts' : d.removed => \E c \in receipts : c.removed /\ c.gen = d.gen /\ c.path = d.path
  BY <1>1, <1>3, <1>4, <1>5, PlacedRowKeeps
<1>. QED
  BY <1>1, <1>6, BookStep

LEMMA ImportFailsKeeps ==
  ASSUME PayloadInv, NEW i \in PayloadRows, NEW custody \in RowCustodies, ImportFails(i, custody)
  PROVE  PayloadInv'
<1>. DEFINE r == [rows[i] EXCEPT !.state = "failed", !.custody = custody]
<1>1. /\ rows[i].state = "importing" /\ WriteRow(i, r)
      /\ UNCHANGED <<storage, mounted, scan, reviewed, cleanupTask, payloadCounts>>
  BY DEF ImportFails
<1>2. rows[i] \in PayloadRow
  BY <1>1, RowLives
<1>3. r.gen = rows[i].gen /\ r.path = rows[i].path /\ r.removed = rows[i].removed /\ r.state = "failed"
  BY <1>2 DEF PayloadRow
<1>4. r \in PayloadRow
  BY <1>2, StateNames DEF PayloadRow
<1>. HIDE DEF r
<1>5. /\ Books' /\ ReceiptsStay /\ OwnersStay
      /\ \A d \in receipts' : d.removed => \E c \in receipts : c.removed /\ c.gen = d.gen /\ c.path = d.path
  BY <1>1, <1>3, <1>4, PlacedRowKeeps
<1>. QED
  BY <1>1, <1>5, BookStep

\* Only rows that failed have anything to settle.
LEMMA CustodySettlesKeeps ==
  ASSUME PayloadInv, NEW i \in PayloadRows, CustodySettles(i)
  PROVE  PayloadInv'
<1>. DEFINE r == [rows[i] EXCEPT !.custody = ""]
<1>1. RetainsCustody(rows[i]) /\ WriteRow(i, r) /\ UNCHANGED <<storage, mounted, scan, reviewed, cleanupTask, payloadCounts>>
  BY Zenon DEF CustodySettles, RetainsCustody
<1>2. rows[i].state = "failed"
  BY <1>1 DEF PayloadInv, Books, RowsDiffer, RowShape
<1>3. rows[i] \in PayloadRow
  BY <1>2, RowLives
<1>. DEFINE none == ""
<1>4. none \in RowCustodies /\ r = [rows[i] EXCEPT !.custody = none]
  BY Zenon DEF RowCustodies
<1>. HIDE DEF none, r
<1>5. /\ r.gen = rows[i].gen /\ r.path = rows[i].path /\ r.removed = rows[i].removed /\ r.state = rows[i].state
      /\ r \in PayloadRow
  BY <1>3, <1>4 DEF PayloadRow
<1>6. /\ Books' /\ ReceiptsStay /\ OwnersStay
      /\ \A d \in receipts' : d.removed => \E c \in receipts : c.removed /\ c.gen = d.gen /\ c.path = d.path
  BY <1>1, <1>2, <1>5, PlacedRowKeeps
<1>. QED
  BY <1>1, <1>6, BookStep

\* The import's last step hands the payload to the cleanup.
LEMMA ImportCompletesKeeps ==
  ASSUME PayloadInv, NEW i \in PayloadRows, ImportCompletes(i)
  PROVE  PayloadInv'
<1>. DEFINE given == IF rows[i].runner = "pending" THEN "settled" ELSE rows[i].runner
            r == [rows[i] EXCEPT !.state = "imported", !.runner = given]
            ref == RefOf(i, "inline")
<1>1. /\ rows[i].state = "importing" /\ WriteRow(i, r)
      /\ cleanupTask' = [cleanupTask EXCEPT !.todo = @ \cup {ref}]
      /\ UNCHANGED <<storage, mounted, scan, reviewed, payloadCounts>>
  BY Zenon DEF ImportCompletes
<1>2. rows[i] \in PayloadRow /\ rows[i].gen # 0 /\ rows[i].path # 0
  BY <1>1, RowLives
<1>3. given \in Runners
  <2>1. rows[i].runner \in Runners
    BY <1>2 DEF PayloadRow
  <2>2. "settled" \in Runners
    BY Zenon DEF Runners
  <2>. QED
    BY <2>1, <2>2
<1>. HIDE DEF given
<1>4. /\ r \in PayloadRow /\ r.gen = rows[i].gen /\ r.path = rows[i].path /\ r.removed = rows[i].removed
      /\ r.state = "imported" /\ r.custody = rows[i].custody /\ r.cleanup = rows[i].cleanup
  BY <1>2, <1>3, StateNames DEF PayloadRow
<1>5. ref.id = i /\ ref.gen = rows[i].gen /\ ref.path = rows[i].path /\ ref.from = "inline"
  BY DEF RefOf
<1>6. ref \in PayloadRef
  <2>1. rows[i].gen \in 0 .. MaxGens /\ rows[i].path \in PayloadPaths \cup {0}
    BY <1>2 DEF PayloadRow
  <2>2. rows[i].gen \in 1 .. MaxGens
    BY <1>2, <2>1, BooksFacts DEF PayloadInv
  <2>. QED
    BY <2>1, <2>2 DEF RefOf, PayloadRef
<1>. HIDE DEF r, ref
<1>7. ~RetainsCustody(r)
  <2>1. ~RetainsCustody(rows[i])
    BY <1>1 DEF PayloadInv, Books, RowsDiffer, RowShape
  <2>. QED
    BY <1>4, <2>1, Zenon DEF RetainsCustody
<1>8. /\ Books' /\ ReceiptsStay /\ OwnersStay
      /\ \A d \in receipts' : d.removed => \E c \in receipts : c.removed /\ c.gen = d.gen /\ c.path = d.path
  BY <1>1, <1>4, <1>7, PlacedRowKeeps
<1>9. RefIn(ref, receipts')
  <2>1. \E c \in receipts' : c.id = i /\ c.gen = r.gen /\ c.path = r.path /\ c.state = r.state
    <3>. DEFINE new == [id |-> i, gen |-> r.gen, path |-> r.path, state |-> r.state, removed |-> r.removed]
    <3>1. new \in receipts'
      BY <1>1, <1>2, <1>4 DEF WriteRow, Receipted
    <3>2. new.id = i /\ new.gen = r.gen /\ new.path = r.path /\ new.state = r.state
      OBVIOUS
    <3>. QED
      BY <3>1, <3>2
  <2>. QED
    BY <1>4, <1>5, <2>1 DEF RefIn
<1>10. /\ cleanupTask'.todo = cleanupTask.todo \cup {ref} /\ cleanupTask'.cur = cleanupTask.cur
       /\ cleanupTask'.step = cleanupTask.step
       /\ cleanupTask' \in [todo : SUBSET PayloadRef, cur : PayloadRef \cup {NoRef}, step : {"check", "client", "local"}]
  <2>1. cleanupTask \in [todo : SUBSET PayloadRef, cur : PayloadRef \cup {NoRef}, step : {"check", "client", "local"}]
    BY DEF PayloadInv, PlacesTyped
  <2>. QED
    BY <1>1, <1>6, <2>1
<1>11. PlacesTyped'
  BY <1>1, <1>10 DEF PayloadInv, PlacesTyped
<1>12. PayloadsGone'
  BY <1>1, <1>8, GoneKept
<1>13. RefsKnown'
  BY <1>8, <1>9, <1>10, RefStays DEF PayloadInv, RefsKnown
<1>14. TaskHolds'
  BY <1>1, <1>8, <1>10, TaskKept
<1>. QED
  BY <1>8, <1>11, <1>12, <1>13, <1>14 DEF PayloadInv

-----------------------------------------------------------------------------
(* The inventory, and what removes bytes *)

\* Bytes appear only for a download that no receipt names yet.
LEMMA ClientWritesKeeps ==
  ASSUME PayloadInv, NEW i \in PayloadRows, NEW p \in PayloadPaths, ClientWrites(i, p)
  PROVE  PayloadInv'
<1>1. /\ rows[i].state = "grabbed" /\ storage' = [storage EXCEPT ![mounted][p] = rows[i].gen]
      /\ UNCHANGED <<rows, receipts, mounted, scan, reviewed, cleanupTask, payloadCounts>>
  BY DEF ClientWrites
<1>2. Books' /\ ReceiptsStay /\ OwnersStay
  BY <1>1, PlaceStep, CountsKept
<1>3. rows[i].gen \in 0 .. MaxGens /\ rows[i].path = 0
  <2>1. rows[i] \in PayloadRow /\ rows[i].path = 0
    BY <1>1, RowLives
  <2>. QED
    BY <2>1 DEF PayloadRow
<1>4. storage \in [Storages -> [PayloadPaths -> 0 .. MaxGens]]
  BY DEF PayloadInv, PlacesTyped
<1>5. storage' \in [Storages -> [PayloadPaths -> 0 .. MaxGens]]
  BY <1>1, <1>3, <1>4
<1>6. PlacesTyped'
  BY <1>1, <1>5 DEF PayloadInv, PlacesTyped
<1>7. \A c \in receipts : c.gen # rows[i].gen
  BY <1>3, BooksFacts DEF PayloadInv, Books, ReceiptsFollow
<1>8. scan.known \in Storages
  BY TaskTyped DEF PayloadInv
<1>9. \A q \in PayloadPaths : storage'[scan.known][q] \in {storage[scan.known][q], rows[i].gen}
  BY <1>1, <1>4, <1>8
<1>10. PayloadsGone'
  <2>1. \A c \in receipts : c.path \in PayloadPaths
    BY BooksFacts DEF PayloadInv
  <2>. QED
    BY <1>1, <1>7, <1>9, <2>1 DEF PayloadInv, PayloadsGone
<1>11. RefsKnown' /\ TaskHolds'
  BY <1>1, <1>2, RefsKept, TaskKept DEF PayloadInv
<1>. QED
  BY <1>2, <1>6, <1>10, <1>11 DEF PayloadInv

LEMMA BytesTyped == ASSUME PayloadInv, NEW p \in PayloadPaths PROVE Bytes(p) \in 0 .. MaxGens
<1>1. storage \in [Storages -> [PayloadPaths -> 0 .. MaxGens]] /\ mounted \in Storages \cup {"none"}
  BY DEF PayloadInv, PlacesTyped
<1>2. 0 \in 0 .. MaxGens
  BY PayloadsAssumption DEF PayloadsAssumption
<1>. QED
  BY <1>1, <1>2 DEF Bytes

LEMMA EmptiedTyped ==
  ASSUME PayloadInv, NEW p \in PayloadPaths
  PROVE  /\ Emptied(p) \in [Storages -> [PayloadPaths -> 0 .. MaxGens]]
         /\ \A s \in Storages, q \in PayloadPaths : Emptied(p)[s][q] \in {storage[s][q], 0}
         /\ \A s \in Storages, q \in PayloadPaths : Emptied(p)[s][q] # storage[s][q] => s = mounted /\ q = p
         /\ mounted \in Storages => Emptied(p)[mounted][p] = 0
<1>1. storage \in [Storages -> [PayloadPaths -> 0 .. MaxGens]]
  BY DEF PayloadInv, PlacesTyped
<1>2. 0 \in 0 .. MaxGens
  BY PayloadsAssumption DEF PayloadsAssumption
<1>. QED
  BY <1>1, <1>2 DEF Emptied

LEMMA ScanTyped ==
  ASSUME PayloadInv
  PROVE  /\ ScanResult \in [known : Storages, observed : Observations, error : BOOLEAN, entries : SUBSET PayloadEntry]
         /\ ScanResult.known = scan.known
         /\ mounted = "none" => ScanResult.error
<1>1. /\ scan \in [known : Storages, observed : Observations, error : BOOLEAN, entries : SUBSET PayloadEntry]
      /\ mounted \in Storages \cup {"none"}
  BY DEF PayloadInv, PlacesTyped
<1>2. scan.known \in Storages /\ scan.known # "" /\ Storages \subseteq Observations /\ "none" \notin Storages
  <2>1. \A s \in Storages : s # "" /\ s # "none"
    BY Zenon DEF Storages
  <2>2. Storages \subseteq Observations
    BY Zenon DEF Observations
  <2>3. scan.known \in Storages
    BY <1>1
  <2>. QED
    BY <2>1, <2>2, <2>3, Zenon
<1>3. CASE mounted = "none" \/ scan.known # mounted
  <2>. DEFINE seen == IF mounted = "none" THEN "" ELSE mounted
  <2>1. seen \in Observations
    BY <1>1, Zenon DEF Observations
  <2>2. ScanResult = [scan EXCEPT !.error = TRUE, !.observed = seen]
    BY <1>2, <1>3, Zenon DEF ScanResult
  <2>. HIDE DEF seen
  <2>. QED
    BY <1>1, <2>1, <2>2
<1>4. CASE mounted # "none" /\ scan.known = mounted
  <2>1. ScanResult = [known |-> mounted, observed |-> mounted, error |-> FALSE, entries |-> scanCompletedSelection]
    BY <1>4, Zenon DEF ScanResult
  <2>2. scanCompletedSelection \subseteq PayloadEntry
    <3>1. ASSUME NEW p \in PayloadPaths PROVE EntryOf(p) \in PayloadEntry
      <4>1. EntryOf(p) = [path |-> p, fingerprint |-> Bytes(p), legacy |-> EntryOf(p).legacy, delivery |-> EntryOf(p).delivery]
            /\ EntryOf(p).legacy \in BOOLEAN /\ EntryOf(p).delivery \in BOOLEAN
        BY DEF EntryOf
      <4>. QED
        BY <4>1, BytesTyped DEF PayloadEntry
    <3>. QED
      BY <3>1 DEF scanCompletedSelection
  <2>. QED
    BY <1>1, <1>2, <1>4, <2>1, <2>2
<1>. QED
  BY <1>3, <1>4

\* A step that looks at the storage or removes bytes, and writes no row.
LEMMA InventoryStep ==
  ASSUME PayloadInv, UNCHANGED <<rows, receipts, mounted, reviewed, cleanupTask>>,
         payloadCounts'.gens = payloadCounts.gens,
         payloadCounts' \in [gens : 0 .. MaxGens, faults : 0 .. MaxPayloadFaults],
         scan' \in [known : Storages, observed : Observations, error : BOOLEAN, entries : SUBSET PayloadEntry],
         scan'.known = scan.known,
         storage' = storage \/ \E p \in PayloadPaths : storage' = Emptied(p)
  PROVE  PayloadInv'
<1>1. Books' /\ ReceiptsStay /\ OwnersStay
  BY PlaceStep
<1>2. storage \in [Storages -> [PayloadPaths -> 0 .. MaxGens]] /\ scan.known \in Storages
  BY DEF PayloadInv, PlacesTyped
<1>3. /\ storage' \in [Storages -> [PayloadPaths -> 0 .. MaxGens]]
      /\ \A q \in PayloadPaths : storage'[scan.known][q] \in {storage[scan.known][q], 0}
  BY <1>2, EmptiedTyped
<1>4. PlacesTyped'
  BY <1>3 DEF PayloadInv, PlacesTyped
<1>5. PayloadsGone'
  BY <1>1, <1>3, GoneKept
<1>6. RefsKnown' /\ TaskHolds'
  BY <1>1, RefsKept, TaskKept DEF PayloadInv
<1>. QED
  BY <1>1, <1>4, <1>5, <1>6 DEF PayloadInv

LEMMA ScanCompletedKeeps == ASSUME PayloadInv, ScanCompleted PROVE PayloadInv'
BY ScanTyped, CountsKept, InventoryStep DEF ScanCompleted

LEMMA EntriesTyped ==
  ASSUME PayloadInv, NEW e, e \in scan.entries \cup ScanResult.entries
  PROVE  e.path \in PayloadPaths
<1>1. e \in PayloadEntry
  BY ScanTyped DEF PayloadInv, PlacesTyped
<1>. QED
  BY <1>1 DEF PayloadEntry

LEMMA DeleteCompletedEntryKeeps ==
  ASSUME PayloadInv, NEW e, e \in scan.entries \cup ScanResult.entries, DeleteCompletedEntry(e)
  PROVE  PayloadInv'
<1>1. /\ UNCHANGED <<rows, receipts, mounted, reviewed, cleanupTask>>
      /\ \/ storage' = Emptied(e.path) /\ scan' = [scan EXCEPT !.entries = @ \ {e}] /\ UNCHANGED payloadCounts
         \/ Bump("faults", MaxPayloadFaults) /\ scan' = [scan EXCEPT !.error = TRUE] /\ UNCHANGED storage
  BY DEF DeleteCompletedEntry
<1>2. scan \in [known : Storages, observed : Observations, error : BOOLEAN, entries : SUBSET PayloadEntry]
  BY DEF PayloadInv, PlacesTyped
<1>3. /\ scan' \in [known : Storages, observed : Observations, error : BOOLEAN, entries : SUBSET PayloadEntry]
      /\ scan'.known = scan.known
  BY <1>1, <1>2
<1>. QED
  BY <1>1, <1>3, EntriesTyped, CountsKept, BumpKeeps, InventoryStep

LEMMA DeleteSelectedLegacyFilesKeeps ==
  ASSUME PayloadInv, NEW e, e \in scan.entries \cup ScanResult.entries, DeleteSelectedLegacyFiles(e)
  PROVE  PayloadInv'
<1>1. /\ UNCHANGED <<rows, receipts, mounted, reviewed, cleanupTask, payloadCounts>>
      /\ storage' = Emptied(e.path) /\ scan' = ScanResult
  BY DEF DeleteSelectedLegacyFiles
<1>. QED
  BY <1>1, ScanTyped, EntriesTyped, CountsKept, InventoryStep

-----------------------------------------------------------------------------
(* The cleanup *)

\* A row that is marked keeps its receipt, which says so from then on.
LEMMA MarkedKeeps ==
  ASSUME PayloadInv, NEW i \in PayloadRows, rows[i].gen # 0, rows[i].path # 0, MarkPayloadRemoved(i),
         payloadCounts' \in [gens : 0 .. MaxGens, faults : 0 .. MaxPayloadFaults],
         payloadCounts'.gens = payloadCounts.gens
  PROVE  /\ Books' /\ ReceiptsStay
         /\ \A d \in receipts' : d.removed => \/ \E c \in receipts : c.removed /\ c.gen = d.gen /\ c.path = d.path
                                              \/ d.gen = rows[i].gen /\ d.path = rows[i].path
<1>. DEFINE r == [rows[i] EXCEPT !.removed = TRUE]
<1>1. rows[i] # NoDownload
  BY NoDownloadIsBlank
<1>2. /\ rows' = [rows EXCEPT ![i] = IF r.dismissed /\ DeleteImportedDownloads(r) THEN NoDownload ELSE r]
      /\ receipts' = Receipted(i, r)
  BY <1>1 DEF MarkPayloadRemoved
<1>3. rows[i] \in PayloadRow /\ RowShape(rows[i])
  BY BooksFacts DEF PayloadInv, Books, RowsDiffer
<1>4. /\ r \in PayloadRow /\ r.gen = rows[i].gen /\ r.path = rows[i].path /\ r.removed = TRUE
      /\ r.state = rows[i].state /\ r.custody = rows[i].custody /\ r.cleanup = rows[i].cleanup
  BY <1>3 DEF PayloadRow
<1>. HIDE DEF r
<1>5. RowShape(r)
  <2>1. RetainsCustody(r) <=> RetainsCustody(rows[i])
    BY <1>4, Zenon DEF RetainsCustody
  <2>. QED
    BY <1>3, <1>4, <2>1 DEF RowShape
<1>6. \/ rows' = [rows EXCEPT ![i] = r]
      \/ rows' = [rows EXCEPT ![i] = NoDownload] /\ (r.state = "imported" => r.removed)
  BY <1>2, <1>4
<1>7. Books' /\ ReceiptsStay
  BY <1>2, <1>4, <1>5, <1>6, BooksWritten DEF PayloadInv
<1>8. ASSUME NEW d \in receipts', d.removed
      PROVE  \/ \E c \in receipts : c.removed /\ c.gen = d.gen /\ c.path = d.path
             \/ d.gen = rows[i].gen /\ d.path = rows[i].path
  <2>. DEFINE new == [id |-> i, gen |-> r.gen, path |-> r.path, state |-> r.state, removed |-> r.removed]
  <2>1. d \in receipts \/ d = new
    BY <1>2 DEF Receipted
  <2>2. d = new => d.gen = r.gen /\ d.path = r.path
    OBVIOUS
  <2>. QED
    BY <1>4, <1>8, <2>1, <2>2
<1>. QED
  BY <1>7, <1>8

LEMMA MarkOrFailKeeps ==
  ASSUME PayloadInv, NEW i \in PayloadRows, rows[i].gen # 0, rows[i].path # 0, MarkOrFail(i)
  PROVE  /\ Books' /\ ReceiptsStay
         /\ \A d \in receipts' : d.removed => \/ \E c \in receipts : c.removed /\ c.gen = d.gen /\ c.path = d.path
                                              \/ d.gen = rows[i].gen /\ d.path = rows[i].path
<1>1. CASE MarkPayloadRemoved(i) /\ UNCHANGED payloadCounts
  BY <1>1, MarkedKeeps, CountsKept
<1>2. CASE Bump("faults", MaxPayloadFaults) /\ UNCHANGED <<rows, receipts>>
  BY <1>2, BumpKeeps, PlaceStep
<1>. QED
  BY <1>1, <1>2 DEF MarkOrFail

LEMMA PartialSettledKeeps ==
  ASSUME PayloadInv, NEW ref \in PayloadRef, PartialSettled(ref)
  PROVE  /\ Books' /\ ReceiptsStay
         /\ \A d \in receipts' : d.removed =>
              \/ \E c \in receipts : c.removed /\ c.gen = d.gen /\ c.path = d.path
              \/ d.gen = ref.gen /\ d.path = rows[ref.id].path /\ rows[ref.id].gen = ref.gen
<1>. DEFINE i == ref.id
            r == [rows[i] EXCEPT !.cleanup = FALSE, !.removed = TRUE]
<1>1. i \in PayloadRows
  BY RefTyped
<1>2. CASE /\ rows[i].gen = ref.gen /\ rows[i].state = "failed" /\ WriteRow(i, r)
           /\ UNCHANGED payloadCounts
  <2>1. rows[i] \in PayloadRow /\ rows[i].gen # 0 /\ rows[i].path # 0
    BY <1>1, <1>2, RowLives
  <2>2. /\ r \in PayloadRow /\ r.gen = rows[i].gen /\ r.path = rows[i].path /\ r.removed = TRUE
        /\ r.state = rows[i].state
    BY <2>1 DEF PayloadRow
  <2>3. rows' = [rows EXCEPT ![i] = r] /\ receipts' = Receipted(i, r)
    BY <1>2 DEF WriteRow
  <2>4. payloadCounts' \in [gens : 0 .. MaxGens, faults : 0 .. MaxPayloadFaults] /\ payloadCounts'.gens = payloadCounts.gens
    BY <1>2, CountsKept
  <2>. HIDE DEF r, i
  <2>5. RowShape(r)
    BY <1>2, <2>1, <2>2, ShapeOf
  <2>6. Books' /\ ReceiptsStay
    BY <1>1, <1>2, <2>1, <2>2, <2>3, <2>4, <2>5, BooksWritten DEF PayloadInv
  <2>7. ASSUME NEW d \in receipts', d.removed
        PROVE  \/ \E c \in receipts : c.removed /\ c.gen = d.gen /\ c.path = d.path
               \/ d.gen = rows[i].gen /\ d.path = rows[i].path
    <3>. DEFINE new == [id |-> i, gen |-> r.gen, path |-> r.path, state |-> r.state, removed |-> r.removed]
    <3>1. d \in receipts \/ d = new
      BY <2>3 DEF Receipted
    <3>2. d = new => d.gen = r.gen /\ d.path = r.path
      OBVIOUS
    <3>. QED
      BY <2>2, <2>7, <3>1, <3>2
  <2>8. rows[i].gen = ref.gen
    BY <1>2
  <2>. QED
    BY <2>6, <2>7, <2>8 DEF i
<1>3. CASE UNCHANGED <<rows, receipts, payloadCounts>>
  BY <1>3, PlaceStep, CountsKept
<1>4. CASE Bump("faults", MaxPayloadFaults) /\ UNCHANGED <<rows, receipts>>
  BY <1>4, BumpKeeps, PlaceStep
<1>. QED
  BY <1>2, <1>3, <1>4 DEF PartialSettled

\* A cleanup that lets go of its candidate, having marked only what is gone.
LEMMA CleanedStep ==
  ASSUME PayloadInv, Books', ReceiptsStay, Release, UNCHANGED <<mounted, reviewed>>,
         scan' \in [known : Storages, observed : Observations, error : BOOLEAN, entries : SUBSET PayloadEntry],
         scan'.known = scan.known,
         storage' = storage \/ \E p \in PayloadPaths : storage' = Emptied(p),
         \A d \in receipts' : d.removed =>
           \/ storage'[scan.known][d.path] # d.gen
           \/ \E c \in receipts : c.removed /\ c.gen = d.gen /\ c.path = d.path
  PROVE  PayloadInv'
<1>1. storage \in [Storages -> [PayloadPaths -> 0 .. MaxGens]] /\ scan.known \in Storages
  BY DEF PayloadInv, PlacesTyped
<1>2. /\ storage' \in [Storages -> [PayloadPaths -> 0 .. MaxGens]]
      /\ \A q \in PayloadPaths : storage'[scan.known][q] \in {storage[scan.known][q], 0}
  BY <1>1, EmptiedTyped
<1>3. /\ RefsKnown' /\ TaskHolds'
      /\ cleanupTask' \in [todo : SUBSET PayloadRef, cur : PayloadRef \cup {NoRef}, step : {"check", "client", "local"}]
  BY TaskReleased
<1>4. PlacesTyped'
  BY <1>2, <1>3 DEF PayloadInv, PlacesTyped
<1>5. PayloadsGone'
  BY <1>2, GoneKept
<1>. QED
  BY <1>3, <1>4, <1>5 DEF PayloadInv

\* What the guards of a removal establish of its candidate.
LEMMA MayRemoveFacts ==
  ASSUME PayloadInv, NEW ref \in PayloadRef, RefIn(ref, receipts), MayRemove(ref)
  PROVE  /\ rows[ref.id].gen = ref.gen /\ rows[ref.id].path = ref.path /\ ref.path \in PayloadPaths
         /\ mounted = scan.known /\ safePayloadPath(ref) /\ ref.gen \notin reviewed.gens \cup reviewed.fences
<1>1. ref.id \in PayloadRows
  BY RefTyped
<1>2. /\ ~deliveryExpectedDownload(ref) /\ ~legacyCleanupReview(ref) /\ safePayloadPath(ref)
  BY DEF MayRemove
<1>3. rows[ref.id].gen = ref.gen
  BY <1>2, Zenon DEF deliveryExpectedDownload
<1>4. rows[ref.id].path = ref.path
  BY <1>1, <1>3, RefRow DEF PayloadInv
<1>5. ref.path \in PayloadPaths
  BY BooksFacts DEF PayloadInv, RefIn
<1>6. mounted = scan.known /\ ref.path # 0
  BY <1>2, Zenon DEF safePayloadPath, checkStorageIdentity
<1>7. ref.gen \notin reviewed.gens \cup reviewed.fences
  BY <1>2, <1>6 DEF legacyCleanupReview, LegacyCleanupReview, StorageChangeReview
<1>. QED
  BY <1>2, <1>3, <1>4, <1>5, <1>6, <1>7

\* The candidate in hand, when it is one of an imported download.
LEMMA HeldRef ==
  ASSUME PayloadInv, cleanupTask.cur.from \in {"sweep", "inline", "partial"}
  PROVE  /\ cleanupTask.cur \in PayloadRef /\ RefIn(cleanupTask.cur, receipts) /\ cleanupTask.cur.id \in PayloadRows
         /\ cleanupTask.cur.gen \in Nat \ {0} /\ cleanupTask.cur.path \in PayloadPaths
<1>1. cleanupTask.cur \in PayloadRef
  BY TaskTyped DEF PayloadInv
<1>2. cleanupTask.cur # NoRef /\ cleanupTask.cur.id \in PayloadRows /\ cleanupTask.cur.gen \in Nat \ {0}
  BY <1>1, RefTyped
<1>3. RefIn(cleanupTask.cur, receipts)
  BY <1>2 DEF PayloadInv, RefsKnown
<1>4. cleanupTask.cur.path \in PayloadPaths
  BY <1>3, BooksFacts DEF PayloadInv, RefIn
<1>. QED
  BY <1>1, <1>2, <1>3, <1>4

\* While the client is asked to remove what is still there, the row stays.
LEMMA ClientOwns ==
  ASSUME PayloadInv, cleanupTask.step = "client", Bytes(cleanupTask.cur.path) = cleanupTask.cur.gen
  PROVE  rows[cleanupTask.cur.id].gen = cleanupTask.cur.gen
<1>. DEFINE ref == cleanupTask.cur
<1>1. /\ ref.from \in {"sweep", "inline"} /\ mounted = scan.known /\ ref.gen \notin reviewed.fences
  BY DEF PayloadInv, TaskHolds
<1>2. ref \in PayloadRef /\ RefIn(ref, receipts) /\ ref.gen # 0
  BY <1>1, HeldRef
<1>. HIDE DEF ref
<1>3. PICK c \in receipts : c.id = ref.id /\ c.gen = ref.gen /\ c.path = ref.path /\ c.state = "imported"
  BY <1>1, <1>2 DEF RefIn
<1>4. storage[scan.known][c.path] = c.gen
  BY <1>1, <1>2, <1>3 DEF Bytes, ref
<1>5. ~c.removed
  BY <1>1, <1>3, <1>4 DEF PayloadInv, PayloadsGone
<1>6. PICK j \in PayloadRows : rows[j].gen = c.gen
  BY <1>3, <1>5 DEF PayloadInv, Books, RemainingIsOwned
<1>7. j = c.id
  BY <1>6 DEF PayloadInv, Books, ReceiptsFollow
<1>. QED
  BY <1>3, <1>6, <1>7 DEF ref

LEMMA CleanupPayloadsKeeps == ASSUME PayloadInv, CleanupPayloads PROVE PayloadInv'
<1>. DEFINE more == ImportedCleanupCandidates \cup cleanupPartialPayloads
<1>1. /\ cleanupTask' = [cleanupTask EXCEPT !.todo = (@ \cup ImportedCleanupCandidates) \cup cleanupPartialPayloads]
      /\ UNCHANGED <<rows, receipts, storage, mounted, scan, reviewed, payloadCounts>>
  BY DEF CleanupPayloads
<1>2. ASSUME NEW ref \in more PROVE ref \in PayloadRef /\ ref.from # "inline"
  <2>1. PICK i \in PayloadRows, from \in {"sweep", "partial"} :
          ref = RefOf(i, from) /\ rows[i].state \in {"failed", "imported"}
    BY <1>2, Zenon DEF ImportedCleanupCandidates, cleanupPartialPayloads
  <2>2. rows[i] \in PayloadRow /\ rows[i].gen # 0
    BY <2>1, RowLives
  <2>3. rows[i].gen \in 0 .. MaxGens /\ rows[i].path \in PayloadPaths \cup {0}
    BY <2>2 DEF PayloadRow
  <2>4. rows[i].gen \in 1 .. MaxGens
    BY <2>2, <2>3, BooksFacts DEF PayloadInv
  <2>. QED
    BY <2>1, <2>3, <2>4 DEF RefOf, PayloadRef
<1>3. cleanupTask \in [todo : SUBSET PayloadRef, cur : PayloadRef \cup {NoRef}, step : {"check", "client", "local"}]
  BY DEF PayloadInv, PlacesTyped
<1>4. more \subseteq PayloadRef
  BY <1>2
<1>5. /\ cleanupTask'.todo = cleanupTask.todo \cup more /\ cleanupTask'.cur = cleanupTask.cur
      /\ cleanupTask'.step = cleanupTask.step
  BY <1>1, <1>3
<1>. HIDE DEF more
<1>6. cleanupTask' \in [todo : SUBSET PayloadRef, cur : PayloadRef \cup {NoRef}, step : {"check", "client", "local"}]
  <2>1. cleanupTask' = [cleanupTask EXCEPT !.todo = cleanupTask.todo \cup more]
    BY <1>1, <1>3 DEF more
  <2>. QED
    BY <1>3, <1>4, <2>1
<1>7. Books' /\ ReceiptsStay /\ OwnersStay
  BY <1>1, PlaceStep, CountsKept
<1>8. PlacesTyped'
  BY <1>1, <1>6 DEF PayloadInv, PlacesTyped
<1>9. PayloadsGone'
  BY <1>1 DEF PayloadInv, PayloadsGone
<1>10. RefsKnown'
  BY <1>1, <1>2, <1>5, <1>7 DEF PayloadInv, RefsKnown
<1>11. TaskHolds'
  BY <1>1, <1>5, <1>7, TaskKept
<1>. QED
  BY <1>7, <1>8, <1>9, <1>10, <1>11 DEF PayloadInv

LEMMA CleanupTakesKeeps ==
  ASSUME PayloadInv, NEW c \in cleanupTask.todo, CleanupTakes(c)
  PROVE  PayloadInv'
<1>. DEFINE i == c.id
            taken == cleanupTask'.cur
<1>1. c \in PayloadRef /\ i \in PayloadRows /\ c.from \in {"sweep", "partial", "inline"}
  <2>1. c \in PayloadRef
    BY TaskTyped DEF PayloadInv
  <2>. QED
    BY <2>1, RefTyped
<1>2. /\ cleanupTask'.todo = cleanupTask.todo \ {c} /\ cleanupTask'.step = "check"
      /\ cleanupTask' = [todo |-> cleanupTask'.todo, step |-> "check", cur |-> taken]
      /\ UNCHANGED <<rows, receipts, storage, mounted, scan, reviewed, payloadCounts>>
  BY DEF CleanupTakes
<1>3. \/ taken = NoRef
      \/ /\ c.from = "sweep" /\ taken = [c EXCEPT !.path = rows[i].path]
         /\ rows[i].gen = c.gen /\ rows[i].state = "imported" /\ ~rows[i].removed
      \/ /\ c.from = "partial" /\ taken = [c EXCEPT !.path = rows[i].path]
         /\ rows[i].gen = c.gen /\ rows[i].state = "failed"
      \/ c.from = "inline" /\ taken = [c EXCEPT !.path = c.path]
  <2>. DEFINE current == CASE c.from = "sweep" ->
                                rows[i].gen = c.gen /\ rows[i].runner = "" /\ rows[i].state = "imported" /\ ~rows[i].removed
                           [] c.from = "partial" ->
                                rows[i].gen = c.gen /\ rows[i].runner = "" /\ rows[i].state = "failed" /\ rows[i].cleanup
                                /\ rows[i].path # 0
                           [] OTHER -> TRUE
              fresh == [c EXCEPT !.path = IF c.from = "inline" THEN c.path ELSE rows[i].path]
  <2>1. taken = IF current THEN fresh ELSE NoRef
    BY DEF CleanupTakes
  <2>2. current => \/ c.from = "sweep" /\ rows[i].gen = c.gen /\ rows[i].state = "imported" /\ ~rows[i].removed
                   \/ c.from = "partial" /\ rows[i].gen = c.gen /\ rows[i].state = "failed"
                   \/ c.from = "inline"
    BY <1>1, Zenon
  <2>. HIDE DEF current
  <2>. QED
    BY <1>1, <2>1, <2>2
<1>4. /\ taken \in PayloadRef \cup {NoRef}
      /\ taken # NoRef => RefIn(taken, receipts)
      /\ taken.from = "sweep" => rows[taken.id].gen = taken.gen /\ ~rows[taken.id].removed
  <2>1. CASE taken = NoRef
    <3>1. NoRef.from # "sweep"
      BY Zenon DEF NoRef
    <3>. QED
      BY <2>1, <3>1
  <2>2. CASE /\ c.from \in {"sweep", "partial"} /\ taken = [c EXCEPT !.path = rows[i].path] /\ rows[i].gen = c.gen
             /\ c.from = "sweep" => rows[i].state = "imported" /\ ~rows[i].removed
             /\ rows[i].state \in {"failed", "imported"}
    <3>1. rows[i] \in PayloadRow /\ rows[i].path # 0
      BY <1>1, <2>2, RowLives
    <3>2. rows[i].path \in PayloadPaths \cup {0}
      BY <3>1 DEF PayloadRow
    <3>3. /\ taken \in PayloadRef /\ taken.id = i /\ taken.gen = rows[i].gen /\ taken.path = rows[i].path
          /\ taken.from = c.from
      BY <1>1, <2>2, <3>2 DEF PayloadRef
    <3>. HIDE DEF taken, i
    <3>4. PICK d \in receipts : d.gen = rows[i].gen
      BY <1>1, <3>1 DEF PayloadInv, Books, ReceiptsFollow
    <3>5. d.id = i /\ d.path = rows[i].path /\ d.state = rows[i].state
      BY <1>1, <3>4 DEF PayloadInv, Books, ReceiptsFollow
    <3>6. RefIn(taken, receipts)
      BY <2>2, <3>3, <3>4, <3>5 DEF RefIn
    <3>. QED
      BY <2>2, <3>3, <3>6
  <2>3. CASE c.from = "inline" /\ taken = [c EXCEPT !.path = c.path]
    <3>1. taken = c
      BY <1>1, <2>3 DEF PayloadRef
    <3>2. RefIn(c, receipts)
      BY <2>3 DEF PayloadInv, RefsKnown
    <3>. QED
      BY <1>1, <2>3, <3>1, <3>2
  <2>. QED
    BY <1>3, <2>1, <2>2, <2>3
<1>. HIDE DEF taken, i
<1>5. /\ cleanupTask'.cur = taken
      /\ cleanupTask' \in [todo : SUBSET PayloadRef, cur : PayloadRef \cup {NoRef}, step : {"check", "client", "local"}]
  <2>1. cleanupTask.todo \subseteq PayloadRef
    BY TaskTyped DEF PayloadInv
  <2>. QED
    BY <1>2, <1>4, <2>1 DEF taken
<1>6. Books' /\ ReceiptsStay
  BY <1>2, PlaceStep, CountsKept
<1>7. PlacesTyped'
  BY <1>2, <1>5 DEF PayloadInv, PlacesTyped
<1>8. PayloadsGone'
  BY <1>2 DEF PayloadInv, PayloadsGone
<1>9. RefsKnown'
  BY <1>2, <1>4, <1>5 DEF PayloadInv, RefsKnown
<1>10. TaskHolds'
  BY <1>2, <1>4, <1>5 DEF TaskHolds
<1>. QED
  BY <1>6, <1>7, <1>8, <1>9, <1>10 DEF PayloadInv

LEMMA AbsentIsEmpty ==
  ASSUME PayloadInv, NEW p, payloadAbsent(p), mounted = scan.known
  PROVE  storage[scan.known][p] = 0
BY DEF payloadAbsent, Bytes

LEMMA removePayloadKeeps == ASSUME PayloadInv, removePayload PROVE PayloadInv'
<1>. DEFINE ref == cleanupTask.cur
<1>1. /\ ref.from \in {"sweep", "inline"} /\ UNCHANGED <<storage, mounted, scan, reviewed>>
      /\ \/ Release /\ UNCHANGED <<rows, receipts, payloadCounts>>
         \/ /\ ref.from = "sweep" /\ safePayloadPath(ref) /\ payloadAbsent(ref.path)
            /\ Release /\ MarkOrFail(ref.id)
         \/ /\ cleanupTask' = [cleanupTask EXCEPT !.step = IF MayRemove(ref) THEN "client" ELSE "local"]
            /\ UNCHANGED <<rows, receipts, payloadCounts>>
  BY Zenon DEF removePayload
<1>2. /\ ref \in PayloadRef /\ RefIn(ref, receipts) /\ ref.id \in PayloadRows
      /\ ref.gen \in Nat \ {0} /\ ref.path \in PayloadPaths
  BY <1>1, HeldRef
<1>3. /\ scan \in [known : Storages, observed : Observations, error : BOOLEAN, entries : SUBSET PayloadEntry]
      /\ cleanupTask \in [todo : SUBSET PayloadRef, cur : PayloadRef \cup {NoRef}, step : {"check", "client", "local"}]
  BY DEF PayloadInv, PlacesTyped
<1>4. CASE Release /\ UNCHANGED <<rows, receipts, payloadCounts>>
  <2>1. Books' /\ ReceiptsStay
    BY <1>4, PlaceStep, CountsKept
  <2>. QED
    BY <1>1, <1>3, <1>4, <2>1, CleanedStep
<1>5. CASE /\ ref.from = "sweep" /\ safePayloadPath(ref) /\ payloadAbsent(ref.path)
           /\ Release /\ MarkOrFail(ref.id)
  <2>1. rows[ref.id].gen = ref.gen
    BY <1>5 DEF PayloadInv, TaskHolds
  <2>2. rows[ref.id].path = ref.path
    BY <1>2, <2>1, RefRow DEF PayloadInv
  <2>3. mounted = scan.known
    BY <1>5, Zenon DEF safePayloadPath, checkStorageIdentity
  <2>. HIDE DEF ref
  <2>4. storage[scan.known][ref.path] = 0
    BY <1>5, <2>3, AbsentIsEmpty
  <2>5. ref.path # 0
    BY <1>2, PayloadsAssumption DEF PayloadsAssumption
  <2>6. /\ Books' /\ ReceiptsStay
        /\ \A d \in receipts' : d.removed => \/ \E c \in receipts : c.removed /\ c.gen = d.gen /\ c.path = d.path
                                             \/ d.gen = ref.gen /\ d.path = ref.path
    BY <1>2, <1>5, <2>1, <2>2, <2>5, MarkOrFailKeeps
  <2>7. ref.gen # 0
    BY <1>2
  <2>8. \A d \in receipts' : d.removed =>
          \/ storage'[scan.known][d.path] # d.gen
          \/ \E c \in receipts : c.removed /\ c.gen = d.gen /\ c.path = d.path
    BY <1>1, <2>4, <2>6, <2>7
  <2>. QED
    BY <1>1, <1>3, <1>5, <2>6, <2>8, CleanedStep
<1>6. CASE /\ cleanupTask' = [cleanupTask EXCEPT !.step = IF MayRemove(ref) THEN "client" ELSE "local"]
           /\ UNCHANGED <<rows, receipts, payloadCounts>>
  <2>1. /\ cleanupTask'.todo = cleanupTask.todo /\ cleanupTask'.cur = ref
        /\ cleanupTask'.step = "client" => MayRemove(ref)
        /\ cleanupTask' \in [todo : SUBSET PayloadRef, cur : PayloadRef \cup {NoRef}, step : {"check", "client", "local"}]
    BY <1>3, <1>6
  <2>2. Books' /\ ReceiptsStay
    BY <1>6, PlaceStep, CountsKept
  <2>3. PlacesTyped'
    BY <1>1, <2>1 DEF PayloadInv, PlacesTyped
  <2>4. PayloadsGone'
    BY <1>1, <1>6 DEF PayloadInv, PayloadsGone
  <2>5. RefsKnown'
    BY <1>6, <2>1 DEF PayloadInv, RefsKnown
  <2>6. cleanupTask'.step = "client" => mounted = scan.known /\ ref.gen \notin reviewed.gens \cup reviewed.fences
    BY <1>2, <2>1, MayRemoveFacts
  <2>7. TaskHolds'
    BY <1>1, <1>6, <2>1, <2>6 DEF PayloadInv, TaskHolds
  <2>. QED
    BY <2>2, <2>3, <2>4, <2>5, <2>7 DEF PayloadInv
<1>. QED
  BY <1>1, <1>4, <1>5, <1>6

LEMMA ClientAnswersKeeps == ASSUME PayloadInv, ClientAnswers PROVE PayloadInv'
<1>. DEFINE ref == cleanupTask.cur
<1>1. /\ cleanupTask.step = "client" /\ UNCHANGED <<mounted, scan, reviewed>>
      /\ \/ /\ Bytes(ref.path) = ref.gen /\ storage' = Emptied(ref.path) /\ Release /\ MarkOrFail(ref.id)
         \/ /\ cleanupTask' = [cleanupTask EXCEPT !.step = "local"]
            /\ UNCHANGED <<rows, receipts, storage, payloadCounts>>
  BY DEF ClientAnswers
<1>2. ref.from \in {"sweep", "inline"} /\ mounted = scan.known
  BY <1>1 DEF PayloadInv, TaskHolds
<1>3. /\ ref \in PayloadRef /\ RefIn(ref, receipts) /\ ref.id \in PayloadRows
      /\ ref.gen \in Nat \ {0} /\ ref.path \in PayloadPaths
  BY <1>2, HeldRef
<1>4. /\ scan \in [known : Storages, observed : Observations, error : BOOLEAN, entries : SUBSET PayloadEntry]
      /\ cleanupTask \in [todo : SUBSET PayloadRef, cur : PayloadRef \cup {NoRef}, step : {"check", "client", "local"}]
  BY DEF PayloadInv, PlacesTyped
<1>5. CASE Bytes(ref.path) = ref.gen /\ storage' = Emptied(ref.path) /\ Release /\ MarkOrFail(ref.id)
  <2>1. rows[ref.id].gen = ref.gen
    BY <1>1, <1>5, ClientOwns
  <2>2. rows[ref.id].path = ref.path
    BY <1>3, <2>1, RefRow DEF PayloadInv
  <2>. HIDE DEF ref
  <2>3. storage'[scan.known][ref.path] = 0
    <3>1. mounted \in Storages
      BY <1>2, <1>4
    <3>. QED
      BY <1>2, <1>3, <1>5, <3>1, EmptiedTyped
  <2>4. ref.path # 0 /\ ref.gen # 0
    BY <1>3, PayloadsAssumption DEF PayloadsAssumption
  <2>5. /\ Books' /\ ReceiptsStay
        /\ \A d \in receipts' : d.removed => \/ \E c \in receipts : c.removed /\ c.gen = d.gen /\ c.path = d.path
                                             \/ d.gen = ref.gen /\ d.path = ref.path
    BY <1>3, <1>5, <2>1, <2>2, <2>4, MarkOrFailKeeps
  <2>6. \A d \in receipts' : d.removed =>
          \/ storage'[scan.known][d.path] # d.gen
          \/ \E c \in receipts : c.removed /\ c.gen = d.gen /\ c.path = d.path
    BY <2>3, <2>4, <2>5
  <2>. QED
    BY <1>1, <1>3, <1>4, <1>5, <2>5, <2>6, CleanedStep
<1>6. CASE /\ cleanupTask' = [cleanupTask EXCEPT !.step = "local"]
           /\ UNCHANGED <<rows, receipts, storage, payloadCounts>>
  <2>1. /\ cleanupTask'.todo = cleanupTask.todo /\ cleanupTask'.cur = ref /\ cleanupTask'.step = "local"
        /\ cleanupTask' \in [todo : SUBSET PayloadRef, cur : PayloadRef \cup {NoRef}, step : {"check", "client", "local"}]
    BY <1>4, <1>6
  <2>2. Books' /\ ReceiptsStay
    BY <1>6, PlaceStep, CountsKept
  <2>3. PlacesTyped'
    BY <1>1, <1>6, <2>1 DEF PayloadInv, PlacesTyped
  <2>4. PayloadsGone'
    BY <1>1, <1>6 DEF PayloadInv, PayloadsGone
  <2>5. RefsKnown'
    BY <1>6, <2>1 DEF PayloadInv, RefsKnown
  <2>6. TaskHolds'
    BY <1>2, <1>6, <2>1 DEF PayloadInv, TaskHolds
  <2>. QED
    BY <2>2, <2>3, <2>4, <2>5, <2>6 DEF PayloadInv
<1>. QED
  BY <1>1, <1>5, <1>6

LEMMA removeImportedDirKeeps == ASSUME PayloadInv, removeImportedDir PROVE PayloadInv'
<1>. DEFINE ref == cleanupTask.cur
<1>1. /\ cleanupTask.step = "local" /\ UNCHANGED <<mounted, scan, reviewed>> /\ Release
      /\ \/ /\ MayRemove(ref) /\ MarkOrFail(ref.id)
            /\ storage' = IF payloadAbsent(ref.path) THEN storage ELSE Emptied(ref.path)
         \/ UNCHANGED <<rows, receipts, storage, payloadCounts>>
  BY DEF removeImportedDir
<1>2. ref.from \in {"sweep", "inline"}
  BY <1>1 DEF PayloadInv, TaskHolds
<1>3. /\ ref \in PayloadRef /\ RefIn(ref, receipts) /\ ref.id \in PayloadRows
      /\ ref.gen \in Nat \ {0} /\ ref.path \in PayloadPaths
  BY <1>2, HeldRef
<1>4. scan \in [known : Storages, observed : Observations, error : BOOLEAN, entries : SUBSET PayloadEntry]
  BY DEF PayloadInv, PlacesTyped
<1>. HIDE DEF ref
<1>5. CASE /\ MayRemove(ref) /\ MarkOrFail(ref.id)
           /\ storage' = IF payloadAbsent(ref.path) THEN storage ELSE Emptied(ref.path)
  <2>1. rows[ref.id].gen = ref.gen /\ rows[ref.id].path = ref.path /\ mounted = scan.known
    BY <1>3, <1>5, MayRemoveFacts
  <2>2. mounted \in Storages
    BY <1>4, <2>1
  <2>3. storage'[scan.known][ref.path] = 0
    <3>1. CASE payloadAbsent(ref.path)
      BY <1>5, <2>1, <3>1, AbsentIsEmpty
    <3>2. CASE ~payloadAbsent(ref.path)
      BY <1>3, <1>5, <2>1, <2>2, <3>2, EmptiedTyped
    <3>. QED
      BY <3>1, <3>2
  <2>4. ref.path # 0 /\ ref.gen # 0
    BY <1>3, PayloadsAssumption DEF PayloadsAssumption
  <2>5. /\ Books' /\ ReceiptsStay
        /\ \A d \in receipts' : d.removed => \/ \E c \in receipts : c.removed /\ c.gen = d.gen /\ c.path = d.path
                                             \/ d.gen = ref.gen /\ d.path = ref.path
    BY <1>3, <1>5, <2>1, <2>4, MarkOrFailKeeps
  <2>6. \A d \in receipts' : d.removed =>
          \/ storage'[scan.known][d.path] # d.gen
          \/ \E c \in receipts : c.removed /\ c.gen = d.gen /\ c.path = d.path
    BY <2>3, <2>4, <2>5
  <2>. QED
    BY <1>1, <1>3, <1>4, <1>5, <2>5, <2>6, CleanedStep
<1>6. CASE UNCHANGED <<rows, receipts, storage, payloadCounts>>
  <2>1. Books' /\ ReceiptsStay
    BY <1>6, PlaceStep, CountsKept
  <2>. QED
    BY <1>1, <1>4, <1>6, <2>1, CleanedStep
<1>. QED
  BY <1>1, <1>5, <1>6

LEMMA cleanupPartialKeeps == ASSUME PayloadInv, cleanupPartialPayloadCandidate PROVE PayloadInv'
<1>. DEFINE ref == cleanupTask.cur
<1>1. /\ ref.from = "partial" /\ UNCHANGED <<mounted, reviewed>> /\ Release
      /\ \/ /\ payloadAbsent(ref.path) /\ checkStorageIdentity /\ PartialSettled(ref) /\ UNCHANGED <<storage, scan>>
         \/ /\ \E e \in scan.entries : /\ e.path = ref.path /\ MayDeleteEntry(e, ref)
                                       /\ storage' = Emptied(e.path) /\ scan' = [scan EXCEPT !.entries = @ \ {e}]
            /\ PartialSettled(ref)
         \/ UNCHANGED <<rows, receipts, storage, scan, payloadCounts>>
  BY DEF cleanupPartialPayloadCandidate
<1>2. /\ ref \in PayloadRef /\ RefIn(ref, receipts) /\ ref.id \in PayloadRows
      /\ ref.gen \in Nat \ {0} /\ ref.path \in PayloadPaths
  BY <1>1, HeldRef
<1>3. scan \in [known : Storages, observed : Observations, error : BOOLEAN, entries : SUBSET PayloadEntry]
  BY DEF PayloadInv, PlacesTyped
<1>. HIDE DEF ref
<1>4. ASSUME checkStorageIdentity PROVE mounted = scan.known /\ mounted \in Storages
  <2>1. mounted = scan.known
    BY <1>4, Zenon DEF checkStorageIdentity
  <2>. QED
    BY <1>3, <2>1
<1>5. ASSUME PartialSettled(ref), storage'[scan.known][ref.path] = 0,
             scan' \in [known : Storages, observed : Observations, error : BOOLEAN, entries : SUBSET PayloadEntry],
             scan'.known = scan.known, storage' = storage \/ \E p \in PayloadPaths : storage' = Emptied(p)
      PROVE  PayloadInv'
  <2>1. /\ Books' /\ ReceiptsStay
        /\ \A d \in receipts' : d.removed =>
             \/ \E c \in receipts : c.removed /\ c.gen = d.gen /\ c.path = d.path
             \/ d.gen = ref.gen /\ d.path = rows[ref.id].path /\ rows[ref.id].gen = ref.gen
    BY <1>2, <1>5, PartialSettledKeeps
  <2>2. rows[ref.id].gen = ref.gen => rows[ref.id].path = ref.path
    BY <1>2, RefRow DEF PayloadInv
  <2>3. ref.gen # 0
    BY <1>2
  <2>4. \A d \in receipts' : d.removed =>
          \/ storage'[scan.known][d.path] # d.gen
          \/ \E c \in receipts : c.removed /\ c.gen = d.gen /\ c.path = d.path
    BY <1>5, <2>1, <2>2, <2>3
  <2>. QED
    BY <1>1, <1>5, <2>1, <2>4, CleanedStep
<1>6. CASE payloadAbsent(ref.path) /\ checkStorageIdentity /\ PartialSettled(ref) /\ UNCHANGED <<storage, scan>>
  <2>1. storage[scan.known][ref.path] = 0
    BY <1>4, <1>6, AbsentIsEmpty
  <2>. QED
    BY <1>3, <1>5, <1>6, <2>1
<1>7. ASSUME NEW e \in scan.entries, e.path = ref.path, MayDeleteEntry(e, ref), PartialSettled(ref),
             storage' = Emptied(e.path), scan' = [scan EXCEPT !.entries = @ \ {e}]
      PROVE  PayloadInv'
  <2>1. mounted = scan.known /\ mounted \in Storages
    BY <1>4, <1>7 DEF MayDeleteEntry
  <2>2. storage'[scan.known][ref.path] = 0
    BY <1>2, <1>7, <2>1, EmptiedTyped
  <2>3. /\ scan' \in [known : Storages, observed : Observations, error : BOOLEAN, entries : SUBSET PayloadEntry]
        /\ scan'.known = scan.known
    BY <1>3, <1>7
  <2>. QED
    BY <1>2, <1>5, <1>7, <2>2, <2>3
<1>8. CASE UNCHANGED <<rows, receipts, storage, scan, payloadCounts>>
  <2>1. Books' /\ ReceiptsStay
    BY <1>8, PlaceStep, CountsKept
  <2>. QED
    BY <1>1, <1>3, <1>8, <2>1, CleanedStep
<1>. QED
  BY <1>1, <1>6, <1>7, <1>8

-----------------------------------------------------------------------------
(* Replacement storage, restarts *)

\* Everything that has a receipt is under review from then on.
LEMMA AcceptKeeps == ASSUME PayloadInv, AcceptCompletedStorageChange PROVE PayloadInv'
<1>. DEFINE plan == completedStorageChangePlan
            seen == {[path |-> p, fingerprint |-> Bytes(p), delivery |-> FALSE,
                      legacy |-> p \in reviewed'.paths \/ \E c \in receipts : c.path = p]
                     : p \in {q \in PayloadPaths : Bytes(q) # 0}}
<1>1. /\ cleanupTask.cur = NoRef /\ reviewed' = FencedCustody(plan)
      /\ UNCHANGED <<rows, receipts, storage, mounted, cleanupTask>>
      /\ \/ /\ scan' = [known |-> mounted, observed |-> mounted, error |-> FALSE, entries |-> seen]
            /\ UNCHANGED payloadCounts
         \/ /\ Bump("faults", MaxPayloadFaults)
            /\ scan' = [known |-> mounted, observed |-> mounted, error |-> TRUE, entries |-> {}]
  BY DEF AcceptCompletedStorageChange, StorageDecisionFree
<1>2. /\ scan \in [known : Storages, observed : Observations, error : BOOLEAN, entries : SUBSET PayloadEntry]
      /\ reviewed \in [gens : SUBSET Nat, paths : SUBSET Nat, fences : SUBSET Nat]
  BY DEF PayloadInv, PlacesTyped
<1>3. mounted \in Storages /\ mounted \in Observations
  <2>1. scan.observed # "" /\ scan.observed = mounted
    BY Zenon DEF AcceptCompletedStorageChange, StorageChanged
  <2>2. scan.observed \in Observations
    BY <1>2
  <2>. QED
    BY <2>1, <2>2, Zenon DEF Observations
<1>4. plan.generations \subseteq Nat /\ plan.orphans \subseteq Nat /\ \A c \in receipts : c.gen \in plan.generations
  <2>1. plan.orphans = {e.path : e \in scan.entries}
        /\ plan.generations = ({rows[i].gen : i \in PayloadRows} \cup {c.gen : c \in receipts}) \ {0}
    BY DEF completedStorageChangePlan
  <2>2. \A e \in scan.entries : e.path \in Nat
    BY EntriesTyped, PayloadsAssumption DEF PayloadsAssumption
  <2>3. (\A i \in PayloadRows : rows[i].gen \in Nat) /\ \A c \in receipts : c.gen \in Nat \ {0}
    BY BooksFacts DEF PayloadInv
  <2>. QED
    BY <2>1, <2>2, <2>3
<1>. HIDE DEF plan
<1>5. /\ reviewed' \in [gens : SUBSET Nat, paths : SUBSET Nat, fences : SUBSET Nat]
      /\ reviewed'.fences = reviewed.fences \cup plan.generations
  <2>1. reviewed' = [reviewed EXCEPT !.fences = @ \cup plan.generations, !.paths = @ \cup plan.orphans]
    BY <1>1 DEF FencedCustody
  <2>. QED
    BY <1>2, <1>4, <2>1
<1>6. seen \subseteq PayloadEntry
  <2>1. ASSUME NEW p \in PayloadPaths
        PROVE  [path |-> p, fingerprint |-> Bytes(p), delivery |-> FALSE,
                legacy |-> p \in reviewed'.paths \/ \E c \in receipts : c.path = p] \in PayloadEntry
    BY BytesTyped DEF PayloadEntry
  <2>. QED
    BY <2>1
<1>. HIDE DEF seen
<1>7. scan' \in [known : Storages, observed : Observations, error : BOOLEAN, entries : SUBSET PayloadEntry]
  <2>1. ASSUME NEW error \in BOOLEAN, NEW entries \in SUBSET PayloadEntry
        PROVE  [known |-> mounted, observed |-> mounted, error |-> error, entries |-> entries]
                 \in [known : Storages, observed : Observations, error : BOOLEAN, entries : SUBSET PayloadEntry]
    BY <1>3
  <2>. QED
    BY <1>1, <1>6, <2>1
<1>8. Books' /\ ReceiptsStay
  BY <1>1, PlaceStep, CountsKept, BumpKeeps
<1>9. PlacesTyped'
  BY <1>1, <1>5, <1>7 DEF PayloadInv, PlacesTyped
<1>10. PayloadsGone'
  BY <1>1, <1>4, <1>5 DEF PayloadsGone
<1>11. RefsKnown'
  BY <1>1 DEF PayloadInv, RefsKnown
<1>12. TaskHolds'
  <2>1. NoRef.from \notin {"sweep", "inline"}
    BY Zenon DEF NoRef
  <2>2. cleanupTask.step = "check"
    BY <1>1, <2>1 DEF PayloadInv, TaskHolds
  <2>. QED
    BY <1>1, <2>1, <2>2 DEF TaskHolds
<1>. QED
  BY <1>8, <1>9, <1>10, <1>11, <1>12 DEF PayloadInv

LEMMA MountKeeps == ASSUME PayloadInv, NEW s \in Storages \cup {"none"}, Mount(s) PROVE PayloadInv'
<1>1. /\ cleanupTask.step = "check" /\ Bump("faults", MaxPayloadFaults) /\ mounted' = s
      /\ UNCHANGED <<rows, receipts, storage, scan, reviewed, cleanupTask>>
  BY DEF Mount
<1>2. Books' /\ ReceiptsStay
  BY <1>1, BumpKeeps, PlaceStep
<1>3. PlacesTyped'
  BY <1>1 DEF PayloadInv, PlacesTyped
<1>4. PayloadsGone' /\ RefsKnown' /\ TaskHolds'
  BY <1>1 DEF PayloadInv, PayloadsGone, RefsKnown, TaskHolds
<1>. QED
  BY <1>2, <1>3, <1>4 DEF PayloadInv

LEMMA PayloadRestartKeeps == ASSUME PayloadInv, PayloadRestart PROVE PayloadInv'
<1>1. /\ cleanupTask' = [todo |-> {}, cur |-> NoRef, step |-> "check"] /\ Bump("faults", MaxPayloadFaults)
      /\ UNCHANGED <<rows, receipts, storage, mounted, scan, reviewed>>
  BY DEF PayloadRestart
<1>2. Books' /\ ReceiptsStay
  BY <1>1, BumpKeeps, PlaceStep
<1>3. /\ cleanupTask'.todo = {} /\ cleanupTask'.cur = NoRef /\ cleanupTask'.step = "check"
      /\ cleanupTask' \in [todo : SUBSET PayloadRef, cur : PayloadRef \cup {NoRef}, step : {"check", "client", "local"}]
  BY <1>1
<1>4. PlacesTyped'
  BY <1>1, <1>3 DEF PayloadInv, PlacesTyped
<1>5. PayloadsGone' /\ RefsKnown'
  BY <1>1, <1>3 DEF PayloadInv, PayloadsGone, RefsKnown
<1>6. TaskHolds'
  <2>1. NoRef.from \notin {"sweep", "inline"}
    BY Zenon DEF NoRef
  <2>. QED
    BY <1>3, <2>1 DEF TaskHolds
<1>. QED
  BY <1>2, <1>4, <1>5, <1>6 DEF PayloadInv

-----------------------------------------------------------------------------

LEMMA PayloadInitHolds == ASSUME PayloadInit PROVE PayloadInv
<1>1. /\ rows = [i \in PayloadRows |-> NoDownload] /\ receipts = {} /\ scan = FirstScan
      /\ storage = [s \in Storages |-> [p \in PayloadPaths |-> 0]] /\ mounted = "first"
      /\ reviewed \in {[gens |-> {}, paths |-> {}, fences |-> {}], [gens |-> {1}, paths |-> {}, fences |-> {}]}
      /\ cleanupTask = [todo |-> {}, cur |-> NoRef, step |-> "check"]
      /\ payloadCounts = [gens |-> 0, faults |-> 0]
  BY DEF PayloadInit
<1>2. MaxGens \in Nat /\ MaxPayloadFaults \in Nat
  BY PayloadsAssumption DEF PayloadsAssumption
<1>3. BooksTyped
  BY <1>1, <1>2, NoDownloadIsRow DEF BooksTyped
<1>4. RowsDiffer
  <2>1. RowShape(NoDownload) /\ NoDownload.gen = 0 /\ payloadCounts.gens = 0
    BY <1>1, NoDownloadShape, NoDownloadIsBlank
  <2>. QED
    BY <1>1, <2>1 DEF RowsDiffer
<1>5. ReceiptsFollow /\ RemainingIsOwned
  BY <1>1, NoDownloadIsBlank DEF ReceiptsFollow, RemainingIsOwned
<1>6. PlacesTyped
  <2>1. "first" \in Storages /\ "first" \in Observations
    BY Zenon DEF Storages, Observations
  <2>2. scan \in [known : Storages, observed : Observations, error : BOOLEAN, entries : SUBSET PayloadEntry]
    BY <1>1, <2>1 DEF FirstScan
  <2>3. reviewed \in [gens : SUBSET Nat, paths : SUBSET Nat, fences : SUBSET Nat]
    BY <1>1
  <2>4. cleanupTask \in [todo : SUBSET PayloadRef, cur : PayloadRef \cup {NoRef}, step : {"check", "client", "local"}]
    BY <1>1
  <2>5. storage \in [Storages -> [PayloadPaths -> 0 .. MaxGens]]
    BY <1>1, <1>2
  <2>. QED
    BY <1>1, <2>1, <2>2, <2>3, <2>4, <2>5 DEF PlacesTyped
<1>7. PayloadsGone /\ RefsKnown
  BY <1>1 DEF PayloadsGone, RefsKnown
<1>8. TaskHolds
  <2>1. NoRef.from \notin {"sweep", "inline"}
    BY Zenon DEF NoRef
  <2>. QED
    BY <1>1, <2>1 DEF TaskHolds
<1>. QED
  BY <1>3, <1>4, <1>5, <1>6, <1>7, <1>8 DEF PayloadInv, Books

LEMMA PayloadStepKeeps == ASSUME PayloadInv, [PayloadNext]_payloadVars PROVE PayloadInv'
<1>1. CASE UNCHANGED payloadVars
  BY <1>1
  DEF payloadVars, PayloadInv, Books, BooksTyped, PlacesTyped, RowsDiffer, ReceiptsFollow, RemainingIsOwned,
      PayloadsGone, RefsKnown, TaskHolds
<1>2. CASE ClearImportedDownloads \/ ClearFailedDownloads \/ \E old \in SUBSET PayloadRows : PruneActivity(old)
  BY <1>2, ClearKeeps
<1>3. ASSUME NEW i \in PayloadRows, NEW held \in {"", "pending"}, InsertDownload(i, held) PROVE PayloadInv'
  <2>1. held \in Runners
    BY <1>3, Zenon DEF Runners
  <2>. QED
    BY <1>3, <2>1, InsertDownloadKeeps, Zenon
<1>4. ASSUME NEW i \in PayloadRows, NEW custody \in {"", "placement", "attempt"}, ImportFails(i, custody) PROVE PayloadInv'
  <2>1. custody \in RowCustodies
    BY <1>4, Zenon DEF RowCustodies
  <2>. QED
    BY <1>4, <2>1, ImportFailsKeeps, Zenon
<1>5. ASSUME NEW i \in PayloadRows,
             DeleteActivityRow(i) \/ PayloadImportStarts(i) \/ ImportCompletes(i) \/ CustodySettles(i)
      PROVE  PayloadInv'
  BY <1>5, DeleteActivityRowKeeps, PayloadImportStartsKeeps, ImportCompletesKeeps, CustodySettlesKeeps
<1>6. ASSUME NEW i \in PayloadRows, NEW p \in PayloadPaths,
             ClientWrites(i, p) \/ PollReports(i, p) \/ observeTorrentStall(i, p)
      PROVE  PayloadInv'
  BY <1>6, ClientWritesKeeps, PollReportsKeeps
<1>7. ASSUME NEW e \in scan.entries \cup ScanResult.entries, DeleteCompletedEntry(e) \/ DeleteSelectedLegacyFiles(e)
      PROVE  PayloadInv'
  BY <1>7, DeleteCompletedEntryKeeps, DeleteSelectedLegacyFilesKeeps
<1>8. CASE ScanCompleted \/ CleanupPayloads \/ \E c \in cleanupTask.todo : CleanupTakes(c)
  BY <1>8, ScanCompletedKeeps, CleanupPayloadsKeeps, CleanupTakesKeeps
<1>9. CASE removePayload \/ ClientAnswers \/ removeImportedDir \/ cleanupPartialPayloadCandidate
  BY <1>9, removePayloadKeeps, ClientAnswersKeeps, removeImportedDirKeeps, cleanupPartialKeeps
<1>10. CASE PreviewCompletedStorageChange
  <2>1. UNCHANGED <<rows, receipts, storage, mounted, scan, reviewed, cleanupTask, payloadCounts>>
    BY <1>10 DEF PreviewCompletedStorageChange
  <2>. QED
    BY <2>1
    DEF PayloadInv, Books, BooksTyped, PlacesTyped, RowsDiffer, ReceiptsFollow, RemainingIsOwned,
        PayloadsGone, RefsKnown, TaskHolds
<1>11. CASE AcceptCompletedStorageChange \/ PayloadRestart \/ \E s \in Storages \cup {"none"} : Mount(s)
  BY <1>11, AcceptKeeps, PayloadRestartKeeps, MountKeeps
<1>12. \/ UNCHANGED payloadVars
       \/ ClearImportedDownloads \/ ClearFailedDownloads \/ \E old \in SUBSET PayloadRows : PruneActivity(old)
       \/ \E i \in PayloadRows : \E held \in {"", "pending"} : InsertDownload(i, held)
       \/ \E i \in PayloadRows : \E custody \in {"", "placement", "attempt"} : ImportFails(i, custody)
       \/ \E i \in PayloadRows :
            DeleteActivityRow(i) \/ PayloadImportStarts(i) \/ ImportCompletes(i) \/ CustodySettles(i)
       \/ \E i \in PayloadRows : \E p \in PayloadPaths :
            ClientWrites(i, p) \/ PollReports(i, p) \/ observeTorrentStall(i, p)
       \/ \E e \in scan.entries \cup ScanResult.entries : DeleteCompletedEntry(e) \/ DeleteSelectedLegacyFiles(e)
       \/ ScanCompleted \/ CleanupPayloads \/ \E c \in cleanupTask.todo : CleanupTakes(c)
       \/ removePayload \/ ClientAnswers \/ removeImportedDir \/ cleanupPartialPayloadCandidate
       \/ PreviewCompletedStorageChange
       \/ AcceptCompletedStorageChange \/ PayloadRestart \/ \E s \in Storages \cup {"none"} : Mount(s)
  BY Zenon DEF PayloadNext
<1>. QED
  BY <1>1, <1>2, <1>3, <1>4, <1>5, <1>6, <1>7, <1>8, <1>9, <1>10, <1>11, <1>12, Zenon

\* The inductive invariant.
LEMMA PayloadsAreKept == PayloadSpec => []PayloadInv
BY PayloadInitHolds, PayloadStepKeeps, PTL DEF PayloadSpec

\* An imported download whose bytes are still on the expected storage has a row
\* that owns them, for any number of downloads and paths, through any clearing,
\* retention, failed writes, unmounted and replaced storage and restarts
\* (ClearImportedDownloads, MarkPayloadRemoved, checkStorageIdentity).
THEOREM PayloadsAreOwned == PayloadSpec => []PayloadOwned
<1>1. PayloadInv => PayloadOwned
  BY DEF PayloadInv, Books, RemainingIsOwned, PayloadsGone, PayloadOwned
<1>. QED
  BY <1>1, PayloadsAreKept, PTL

\* Receipts name known generations, and the cleanup works on a candidate only
\* while it holds one (CleanupPayloads).
THEOREM PayloadTypesHold == PayloadSpec => []PayloadTypeOK
<1>1. PayloadInv => PayloadTypeOK
  <2>1. NoRef.from \notin {"sweep", "inline"}
    BY DEF NoRef
  <2>2. ASSUME PayloadInv, cleanupTask.cur = NoRef PROVE cleanupTask.step = "check"
    BY <2>1, <2>2 DEF PayloadInv, TaskHolds
  <2>3. ASSUME PayloadInv, NEW c \in receipts PROVE c.gen \in 1 .. MaxGens /\ c.path \in PayloadPaths
    BY <2>3 DEF PayloadInv, Books, BooksTyped, PayloadReceipt
  <2>4. PayloadInv => cleanupTask.step \in {"check", "client", "local"}
    BY DEF PayloadInv, PlacesTyped
  <2>. QED
    BY <2>2, <2>3, <2>4 DEF PayloadTypeOK
<1>. QED
  BY <1>1, PayloadsAreKept, PTL

-----------------------------------------------------------------------------
(* What a cleanup takes *)

\* Bytes that go while a candidate is in hand go by one of three steps.
LEMMA OnlyCleanupTakes ==
  ASSUME PayloadInv, [PayloadNext]_payloadVars, NEW s \in Storages, NEW p \in PayloadPaths, cleanupTask.cur # NoRef,
         storage[s][p] # 0, storage'[s][p] = 0
  PROVE  ClientAnswers \/ removeImportedDir \/ cleanupPartialPayloadCandidate
<1>. SUFFICES ASSUME ~(ClientAnswers \/ removeImportedDir \/ cleanupPartialPayloadCandidate) PROVE FALSE
  OBVIOUS
<1>1. storage' # storage
  OBVIOUS
<1>2. ASSUME NEW i \in PayloadRows, NEW q \in PayloadPaths, ClientWrites(i, q) PROVE FALSE
  <2>1. mounted # "none" /\ Bytes(q) = 0 /\ storage' = [storage EXCEPT ![mounted][q] = rows[i].gen]
    BY <1>2 DEF ClientWrites
  <2>2. storage \in [Storages -> [PayloadPaths -> 0 .. MaxGens]] /\ mounted \in Storages \cup {"none"}
    BY DEF PayloadInv, PlacesTyped
  <2>3. q # 0
    BY PayloadsAssumption DEF PayloadsAssumption
  <2>4. storage[mounted][q] = 0
    BY <2>1, <2>3 DEF Bytes
  <2>. QED
    BY <2>1, <2>2, <2>4
<1>3. ~dismissTerminalDownloads({}, {}) /\ \A h, d : ~dismissTerminalDownloads(h, d)
  BY <1>1, Zenon DEF dismissTerminalDownloads
<1>4. ~(ClearImportedDownloads \/ ClearFailedDownloads \/ \E old \in SUBSET PayloadRows : PruneActivity(old))
  BY <1>3, Zenon DEF ClearImportedDownloads, ClearFailedDownloads, PruneActivity
<1>5. \A i \in PayloadRows : ~(DeleteActivityRow(i) \/ PayloadImportStarts(i) \/ ImportCompletes(i) \/ CustodySettles(i))
  BY <1>1, Zenon DEF DeleteActivityRow, PayloadImportStarts, ImportCompletes, CustodySettles
<1>6. \A i \in PayloadRows :
        /\ \A held \in {"", "pending"} : ~InsertDownload(i, held)
        /\ \A custody \in {"", "placement", "attempt"} : ~ImportFails(i, custody)
        /\ \A q \in PayloadPaths : ~PollReports(i, q) /\ ~observeTorrentStall(i, q)
  BY <1>1, Zenon DEF InsertDownload, ImportFails, PollReports, observeTorrentStall
<1>7. \A e \in scan.entries \cup ScanResult.entries : ~DeleteCompletedEntry(e) /\ ~DeleteSelectedLegacyFiles(e)
  BY Zenon DEF DeleteCompletedEntry, DeleteSelectedLegacyFiles, StorageDecisionFree
<1>8. ~(ScanCompleted \/ CleanupPayloads \/ removePayload \/ \E c \in cleanupTask.todo : CleanupTakes(c))
  BY <1>1, Zenon DEF ScanCompleted, CleanupPayloads, removePayload, CleanupTakes
<1>9. ~(PreviewCompletedStorageChange \/ AcceptCompletedStorageChange \/ PayloadRestart
        \/ \E t \in Storages \cup {"none"} : Mount(t))
  BY <1>1, Zenon DEF PreviewCompletedStorageChange, AcceptCompletedStorageChange, PayloadRestart, Mount
<1>10. ~UNCHANGED payloadVars
  BY <1>1, Zenon DEF payloadVars
<1>. QED
  BY <1>2, <1>4, <1>5, <1>6, <1>7, <1>8, <1>9, <1>10, Zenon DEF PayloadNext

LEMMA CleanupStep ==
  ASSUME PayloadInv, [PayloadNext]_payloadVars, NEW s \in Storages, NEW p \in PayloadPaths, cleanupTask.cur # NoRef,
         storage[s][p] # 0, storage'[s][p] = 0
  PROVE  \/ storage[s][p] = cleanupTask.cur.gen /\ storage[s][p] \notin reviewed.gens \cup reviewed.fences
         \/ \A c \in receipts : c.gen = storage[s][p] => c.path # p
         \/ /\ cleanupTask.cur.from = "partial"
            /\ \A i \in Reservations : rows[i].gen # storage[s][p]
<1>. DEFINE ref == cleanupTask.cur
            g == storage[s][p]
<1>1. storage' # storage
  OBVIOUS
<1>2. ASSUME ref.from \in {"sweep", "inline", "partial"}, storage' = Emptied(ref.path)
      PROVE  s = mounted /\ p = ref.path /\ ref \in PayloadRef /\ RefIn(ref, receipts)
  <2>1. ref.path \in PayloadPaths /\ ref \in PayloadRef /\ RefIn(ref, receipts)
    BY <1>2, HeldRef
  <2>. QED
    BY <1>2, <2>1, EmptiedTyped
<1>3. CASE ClientAnswers
  <2>1. cleanupTask.step = "client" /\ Bytes(ref.path) = ref.gen /\ storage' = Emptied(ref.path)
    BY <1>1, <1>3 DEF ClientAnswers
  <2>2. ref.from \in {"sweep", "inline"} /\ ref.gen \notin reviewed.gens \cup reviewed.fences
    BY <2>1 DEF PayloadInv, TaskHolds
  <2>3. s = mounted /\ p = ref.path
    BY <1>2, <2>1, <2>2
  <2>4. g = ref.gen
    <3>1. mounted # "none"
      BY <2>3 DEF Storages
    <3>2. p # 0
      BY PayloadsAssumption DEF PayloadsAssumption
    <3>3. Bytes(p) = storage[s][p]
      BY <2>3, <3>1, <3>2, Zenon DEF Bytes
    <3>. QED
      BY <2>1, <2>3, <3>3, Zenon
  <2>. QED
    BY <2>2, <2>4
<1>4. CASE removeImportedDir
  <2>1. cleanupTask.step = "local" /\ MayRemove(ref) /\ storage' = Emptied(ref.path)
    BY <1>1, <1>4 DEF removeImportedDir
  <2>2. ref.from \in {"sweep", "inline"}
    BY <2>1 DEF PayloadInv, TaskHolds
  <2>3. p = ref.path /\ ref \in PayloadRef /\ RefIn(ref, receipts)
    BY <1>2, <2>1, <2>2
  <2>4. /\ rows[ref.id].gen = ref.gen /\ safePayloadPath(ref)
        /\ ref.gen \notin reviewed.gens \cup reviewed.fences
    BY <2>1, <2>3, MayRemoveFacts
  <2>. HIDE DEF ref, g
  <2>5. ASSUME NEW c \in receipts, c.gen = g, c.path = p PROVE g = ref.gen
    <3>1. c.id = ref.id /\ Live(c.gen)
      <4>. DEFINE known == [c |-> c, live |-> Live(c.gen),
                            legacy |-> c.gen \in reviewed.gens \/ StorageChangeReview(c.gen, c.path),
                            delivery |-> \E i \in PayloadRows : rows[i].gen = c.gen /\ rows[i].runner # ""]
      <4>1. known \in CompletedReceipts
        BY Zenon DEF CompletedReceipts
      <4>2. known.c = c /\ known.live = Live(c.gen)
        OBVIOUS
      <4>. HIDE DEF known
      <4>. QED
        BY <2>3, <2>4, <2>5, <4>1, <4>2, Zenon DEF safePayloadPath
    <3>2. PICK i \in PayloadRows : rows[i].gen = c.gen
      BY <3>1 DEF Live
    <3>3. c.id = i
      BY <3>2 DEF PayloadInv, Books, ReceiptsFollow
    <3>. QED
      BY <2>4, <2>5, <3>1, <3>2, <3>3
  <2>. QED
    BY <2>4, <2>5 DEF ref, g
<1>5. CASE cleanupPartialPayloadCandidate
  <2>1. ref.from = "partial" /\ \E e \in scan.entries : /\ e.path = ref.path /\ MayDeleteEntry(e, ref)
                                                        /\ storage' = Emptied(e.path)
    BY <1>1, <1>5 DEF cleanupPartialPayloadCandidate
  <2>2. PICK e \in scan.entries : e.path = ref.path /\ MayDeleteEntry(e, ref) /\ storage' = Emptied(e.path)
    BY <2>1
  <2>3. p = ref.path /\ ref \in PayloadRef /\ RefIn(ref, receipts)
    BY <1>2, <2>1, <2>2
  <2>4. /\ \A j \in Reservations : (j = ref.id /\ rows[j].gen = ref.gen) \/ rows[j].path \notin {0, e.path}
        /\ rows[ref.id].path = e.path /\ ~legacyCleanupReview(ref)
    BY <2>2 DEF MayDeleteEntry
  <2>5. p # 0
    BY PayloadsAssumption DEF PayloadsAssumption
  <2>. HIDE DEF ref, g
  <2>6. ASSUME NEW j \in Reservations, rows[j].gen = g, NEW c \in receipts, c.gen = g, c.path = p
        PROVE  g = ref.gen /\ g \notin reviewed.gens \cup reviewed.fences
    <3>1. j \in PayloadRows
      BY DEF Reservations
    <3>2. c.path = rows[j].path
      BY <2>6, <3>1 DEF PayloadInv, Books, ReceiptsFollow
    <3>3. j = ref.id /\ rows[j].gen = ref.gen
      BY <2>2, <2>3, <2>4, <2>6, <3>2
    <3>4. ref.gen \notin reviewed.gens \cup reviewed.fences
      BY <2>2, <2>3, <2>4, <2>5, <3>3 DEF legacyCleanupReview, LegacyCleanupReview, StorageChangeReview
    <3>. QED
      BY <2>6, <3>3, <3>4
  <2>7. (g = ref.gen /\ g \notin reviewed.gens \cup reviewed.fences)
        \/ (\A c \in receipts : c.gen = g => c.path # p)
        \/ (\A j \in Reservations : rows[j].gen # g)
    BY <2>6
  <2>. QED
    BY <2>1, <2>7 DEF ref, g
<1>. QED
  BY <1>3, <1>4, <1>5, OnlyCleanupTakes

\* A cleanup takes no bytes another download reported as its own, and its own
\* only outside a review, for any number of downloads and paths and any number
\* of faults (safePayloadPath, MayRemove, DeleteCompletedEntry).
THEOREM CleanupSparesOthers == PayloadSpec => CleanupTakesItsOwn
<1>1. PayloadInv /\ [PayloadNext]_payloadVars =>
        [\A s \in Storages, p \in PayloadPaths :
           (cleanupTask.cur # NoRef /\ storage[s][p] # 0 /\ storage'[s][p] = 0) =>
             \/ storage[s][p] = cleanupTask.cur.gen /\ storage[s][p] \notin reviewed.gens \cup reviewed.fences
             \/ \A c \in receipts : c.gen = storage[s][p] => c.path # p
             \/ /\ cleanupTask.cur.from = "partial"
                /\ \A i \in Reservations : rows[i].gen # storage[s][p]]_payloadVars
  BY CleanupStep
<1>. QED
  BY <1>1, PayloadsAreKept, PTL DEF PayloadSpec, CleanupTakesItsOwn
=============================================================================
