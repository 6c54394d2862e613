------------------------------ MODULE Payloads ------------------------------
(***************************************************************************)
(* What becomes of the payload a client leaves in the completed folder:    *)
(* the inventory of that folder, the cleanup after an import and its       *)
(* hourly retry, the deletions an operator asks for, the clearing of       *)
(* Activity rows, and the replacement of the storage underneath            *)
(* (src/internal/app/acquisition: cleanup.go, season_cleanup.go,           *)
(* completed.go, completed_delete.go, storage_change.go, retention.go;     *)
(* src/internal/infra/sqlite: completed.go, storage_change.go).            *)
(*                                                                         *)
(* There is one completed root and a payload is one directory in it, so    *)
(* two paths overlap when they are equal.  A generation stands for the     *)
(* immutable generation_key; the bytes of a payload are known by the       *)
(* generation they were downloaded for, and so is their fingerprint.       *)
(* The checks made before a removal and the removal are one step, a call   *)
(* of the client is not.                                                   *)
(***************************************************************************)
EXTENDS Integers, FiniteSets

CONSTANTS
  PayloadRows,      \* ids of download rows
  PayloadPaths,     \* directories of the completed root
  LibraryPaths,     \* those that overlap a library root or file, or recovery
  MaxGens,          \* bound: downloads ever added
  MaxPayloadFaults  \* bound: storage changes, failed writes and restarts

ASSUME PayloadsAssumption ==
  /\ PayloadRows \subseteq Nat \ {0} /\ PayloadPaths \subseteq Nat \ {0}
  /\ LibraryPaths \subseteq PayloadPaths
  /\ MaxGens \in Nat /\ MaxPayloadFaults \in Nat

VARIABLES
  rows,        \* the downloads table
  receipts,    \* completed_receipts, written by triggers on downloads
  storage,     \* what each storage holds at each path
  mounted,     \* the storage that is mounted at the root
  scan,        \* the cached report of the root
  reviewed,    \* legacy_cleanup_review and the storage change fences
  preview,     \* the storage change an operator has been shown
  cleanupTask, \* candidates of the cleanup, the one it holds, and its step
  removeCompleted, \* the client's setting
  payloadCounts    \* generations and faults so far

payloadVars == <<rows, receipts, storage, mounted, scan, reviewed, preview, cleanupTask, removeCompleted, payloadCounts>>

Storages == {"first", "second"}

NoDownload == [gen |-> 0, state |-> "", path |-> 0, removed |-> FALSE, dismissed |-> FALSE,
               cleanup |-> FALSE, custody |-> "", runner |-> ""]
NoRef == [id |-> 0, gen |-> 0, path |-> 0, from |-> ""]
FirstScan == [known |-> "first", observed |-> "first", error |-> FALSE, entries |-> {}]

Bump(what, bound) ==
  /\ payloadCounts[what] < bound
  /\ payloadCounts' = [payloadCounts EXCEPT ![what] = @ + 1]

\* A payload's directory as the mounted storage shows it.
Bytes(p) == IF mounted = "none" \/ p = 0 THEN 0 ELSE storage[mounted][p]

\* The triggers keep one receipt per generation and path.
Receipted(i, r) ==
  IF r.path = 0 THEN receipts
  ELSE {c \in receipts : ~(c.gen = r.gen /\ c.path = r.path)}
       \cup {[id |-> i, gen |-> r.gen, path |-> r.path, state |-> r.state, removed |-> r.removed]}

WriteRow(i, r) == rows' = [rows EXCEPT ![i] = r] /\ receipts' = Receipted(i, r)

----------------------------------------------------------------------------
(* What keeps a row and what keeps a path *)

\* An unfinished submission, a parked row, a held stage, an open or cancelled
\* control, a pending publication ("attempt"), or an unresolved placement.
RetainsCustody(r) == r.custody # "" \/ r.cleanup

\* A delivery receipt that is not imported and acknowledged.
ReceiptPending(r) == r.runner = "pending"

PayloadKnown(r) == ~r.removed /\ r.path # 0

Live(g) == \E i \in PayloadRows : rows[i].gen = g

LegacyCleanupReviewPaths ==
  reviewed.paths \cup {c.path : c \in {r \in receipts : r.gen \in reviewed.fences}}

StorageChangeReview(g, p) == p # 0 /\ g \in reviewed.fences

LegacyCleanupReview(g, p) == g \in reviewed.gens \/ p \in reviewed.paths \/ StorageChangeReview(g, p)

\* The receipts with what the downloads table says of their generation.
CompletedReceipts ==
  {[c |-> c, live |-> Live(c.gen),
    legacy |-> c.gen \in reviewed.gens \/ StorageChangeReview(c.gen, c.path),
    delivery |-> \E i \in PayloadRows : rows[i].gen = c.gen /\ rows[i].runner # ""] : c \in receipts}

Reservations ==
  {i \in PayloadRows : rows[i].state \in {"grabbed", "downloaded", "importing"}
                       \/ rows[i].custody # "" \/ rows[i].cleanup}

\* Imports whose source must stay: unresolved stages, publications, placements.
ImportSourceCustodyPaths == {rows[i].path : i \in {j \in PayloadRows : rows[j].custody # ""}}

assertImportSourceDisposable(p) == ImportSourceCustodyPaths = {} \/ p \notin ImportSourceCustodyPaths \cup {0}

\* The last complete scan saw the storage that is mounted now.
checkStorageIdentity == scan.known # "" /\ ~scan.error /\ mounted = scan.known

\* Missing means something only while the containing directory is there.
payloadAbsent(p) == mounted # "none" /\ p # 0 /\ Bytes(p) = 0

\* Mutant: a path another download has reported is not looked for.
PathOfLibraryOnly(ref) == ref.path # 0 /\ ref.path \notin LibraryPaths /\ checkStorageIdentity

\* payloadPathError: outside the library, on the expected storage, and not
\* the path of any other download, cleared ones included.
safePayloadPath(ref) ==
  /\ ref.path # 0 /\ ref.path \notin LibraryPaths
  /\ checkStorageIdentity
  /\ \A r \in CompletedReceipts : r.c.path = ref.path => r.c.id = ref.id /\ r.live

deliveryExpectedDownload(ref) == rows[ref.id].gen # ref.gen \/ rows[ref.id].runner # ""

legacyCleanupReview(ref) ==
  \/ rows[ref.id].gen # ref.gen
  \/ LegacyCleanupReview(ref.gen, rows[ref.id].path) \/ LegacyCleanupReview(ref.gen, ref.path)
  \/ {rows[ref.id].path, ref.path} \cap LegacyCleanupReviewPaths # {}

----------------------------------------------------------------------------
(* Activity: rows are hidden or deleted, files stay *)

DismissImportedDownload(r) ==
  r.state = "imported" /\ (PayloadKnown(r) \/ ReceiptPending(r)) /\ ~RetainsCustody(r)

DismissFailedDownloadsWithPendingRunnerReceipt(r) ==
  r.state = "failed" /\ ReceiptPending(r) /\ r.custody # "attempt" /\ ~r.cleanup

DeleteFailedDownloads(r) == r.state = "failed" /\ ~RetainsCustody(r) /\ ~ReceiptPending(r)

\* Mutant: an imported row goes although its payload is still there.
DeleteEveryImported(r) == r.state = "imported" /\ ~RetainsCustody(r) /\ ~ReceiptPending(r)

DeleteImportedDownloads(r) ==
  r.state = "imported" /\ ~PayloadKnown(r) /\ ~RetainsCustody(r) /\ ~ReceiptPending(r)

DeleteTerminalDownloads(r) == DeleteFailedDownloads(r) \/ DeleteImportedDownloads(r)

\* One transaction over the rows that qualify: hide, then delete.
dismissTerminalDownloads(hidden, deleted) ==
  /\ \E i \in hidden \cup deleted : i \in deleted \/ ~rows[i].dismissed
  /\ rows' = [i \in PayloadRows |->
       CASE i \in deleted -> NoDownload
         [] i \in hidden \ deleted -> [rows[i] EXCEPT !.dismissed = TRUE]
         [] OTHER -> rows[i]]
  /\ UNCHANGED <<receipts, storage, mounted, scan, reviewed, preview, cleanupTask, removeCompleted, payloadCounts>>

ClearImportedDownloads ==
  dismissTerminalDownloads({i \in PayloadRows : DismissImportedDownload(rows[i])},
                           {i \in PayloadRows : DeleteImportedDownloads(rows[i])})

ClearFailedDownloads ==
  dismissTerminalDownloads({i \in PayloadRows : DismissFailedDownloadsWithPendingRunnerReceipt(rows[i])},
                           {i \in PayloadRows : DeleteFailedDownloads(rows[i])})

\* Retention: whichever terminal rows are older than the window.
PruneActivity(old) ==
  dismissTerminalDownloads({i \in old : DismissImportedDownload(rows[i])}, {i \in old : DeleteTerminalDownloads(rows[i])})

\* An imported row with a payload is only hidden; a trigger refuses to delete
\* one whose delivery receipt is pending.
DeleteActivityRow(i) ==
  /\ rows[i] # NoDownload /\ ~RetainsCustody(rows[i])
  /\ IF DismissImportedDownload(rows[i])
       THEN ~rows[i].dismissed /\ rows' = [rows EXCEPT ![i].dismissed = TRUE]
       ELSE ~ReceiptPending(rows[i]) /\ rows' = [rows EXCEPT ![i] = NoDownload]
  /\ UNCHANGED <<receipts, storage, mounted, scan, reviewed, preview, cleanupTask, removeCompleted, payloadCounts>>

----------------------------------------------------------------------------
(* The inventory *)

\* classifyCompleted: entries with a reviewed or a delivery-managed receipt
\* are fenced from whole-payload deletion.
EntryOf(p) ==
  LET mine == {r \in CompletedReceipts : r.c.path = p}
      legacy == p \in LegacyCleanupReviewPaths \/ \E r \in mine : r.legacy
  IN [path |-> p, fingerprint |-> Bytes(p), legacy |-> legacy,
      delivery |-> ~legacy /\ Cardinality(mine) = 1 /\ \E r \in mine : r.delivery]

scanCompletedSelection == {EntryOf(p) : p \in {q \in PayloadPaths : Bytes(q) # 0}}

\* scanCompletedLocked: a scan that cannot see the expected storage keeps the
\* last complete report, marked stale.
ScanResult ==
  IF mounted = "none" \/ (scan.known # "" /\ scan.known # mounted)
    THEN [scan EXCEPT !.error = TRUE, !.observed = IF mounted = "none" THEN "" ELSE mounted]
    ELSE [known |-> mounted, observed |-> mounted, error |-> FALSE,
          entries |-> scanCompletedSelection]

StorageDecisionFree == cleanupTask.cur = NoRef

\* A whole-library deletion waits until no import is publishing.
ImportTargetsFree == \A i \in PayloadRows : rows[i].state # "importing"

ScanCompleted ==
  /\ scan # ScanResult
  /\ scan' = ScanResult
  /\ UNCHANGED <<rows, receipts, storage, mounted, reviewed, preview, cleanupTask, removeCompleted, payloadCounts>>

\* What must hold for the entry e of the report to be deleted; "owner" is the
\* partial cleanup's own row, or NoRef for an operator.
MayDeleteEntry(e, owner) ==
  /\ ImportTargetsFree
  /\ e \in scan.entries /\ ~scan.error /\ ~e.delivery /\ ~e.legacy
  /\ checkStorageIdentity
  /\ e.path \notin LibraryPaths \cup ImportSourceCustodyPaths
  /\ \A i \in Reservations :
       (i = owner.id /\ rows[i].gen = owner.gen) \/ rows[i].path \notin {0, e.path}
  /\ Bytes(e.path) = e.fingerprint
  /\ e.path \notin LegacyCleanupReviewPaths
  /\ owner # NoRef => rows[owner.id].path = e.path /\ ~legacyCleanupReview(owner)

Emptied(p) == [storage EXCEPT ![mounted][p] = 0]

\* The rooted removal fails half-way: the report says so.
DeleteCompletedEntry(e) ==
  /\ StorageDecisionFree
  /\ MayDeleteEntry(e, NoRef)
  /\ \/ /\ storage' = Emptied(e.path)
        /\ scan' = [scan EXCEPT !.entries = @ \ {e}]
        /\ UNCHANGED payloadCounts
     \/ /\ Bump("faults", MaxPayloadFaults)
        /\ scan' = [scan EXCEPT !.error = TRUE]
        /\ UNCHANGED storage
  /\ UNCHANGED <<rows, receipts, mounted, reviewed, preview, cleanupTask, removeCompleted>>

\* The records at the file's path decide, and an ordinary download's wins.
legacyReviewFileFenced(p) ==
  LET mine == {r \in CompletedReceipts : r.c.path = p} IN
  /\ p \in LegacyCleanupReviewPaths \/ mine # {}
  /\ \A r \in mine : r.legacy

\* The folder is scanned again before the selected files are judged.
LegacySelection(e) ==
  /\ e \in ScanResult.entries /\ e.legacy /\ ~e.delivery /\ ~ScanResult.error
  /\ \A i \in Reservations : rows[i].path = e.path => rows[i].state \in {"failed", "imported"}

DeleteSelectedLegacyFiles(e) ==
  LET fresh == ScanResult IN
  /\ StorageDecisionFree /\ ImportTargetsFree
  /\ LegacySelection(e)
  /\ e.path \notin LibraryPaths \cup ImportSourceCustodyPaths
  /\ legacyReviewFileFenced(e.path)
  /\ storage' = Emptied(e.path) /\ scan' = fresh
  /\ UNCHANGED <<rows, receipts, mounted, reviewed, preview, cleanupTask, removeCompleted, payloadCounts>>

----------------------------------------------------------------------------
(* Cleanup *)

RefOf(i, from) == [id |-> i, gen |-> rows[i].gen, path |-> rows[i].path, from |-> from]

ImportedCleanupCandidates ==
  {RefOf(i, "sweep") : i \in {j \in PayloadRows :
     /\ rows[j].state = "imported" /\ removeCompleted /\ rows[j].runner = "" /\ ~rows[j].removed
     /\ rows[j].gen \notin reviewed.gens /\ rows[j].path \notin reviewed.paths}}

cleanupPartialPayloads ==
  {RefOf(i, "partial") : i \in {j \in PayloadRows :
     /\ rows[j].cleanup /\ rows[j].state = "failed" /\ rows[j].runner = ""
     /\ rows[j].gen \notin reviewed.gens /\ rows[j].path \notin reviewed.paths}}

\* The hourly sweep lists its candidates before it works on any.
CleanupPayloads ==
  /\ \A c \in cleanupTask.todo : c.from = "inline"
  /\ ImportedCleanupCandidates \cup cleanupPartialPayloads # {}
  /\ cleanupTask' = [cleanupTask EXCEPT !.todo = @ \cup ImportedCleanupCandidates \cup cleanupPartialPayloads]
  /\ UNCHANGED <<rows, receipts, storage, mounted, scan, reviewed, preview, removeCompleted, payloadCounts>>

\* One candidate under its locks; the row is read again, except that the
\* cleanup after an import uses what the import knew.
CleanupTakes(c) ==
  /\ cleanupTask.cur = NoRef /\ c \in cleanupTask.todo
  /\ LET r == rows[c.id]
         current == CASE c.from = "sweep" ->
                           r.gen = c.gen /\ r.runner = "" /\ r.state = "imported" /\ ~r.removed
                      [] c.from = "partial" ->
                           r.gen = c.gen /\ r.runner = "" /\ r.state = "failed" /\ r.cleanup /\ r.path # 0
                      [] OTHER -> TRUE
     IN cleanupTask' = [todo |-> cleanupTask.todo \ {c}, step |-> "check",
                    cur |-> IF current THEN [c EXCEPT !.path = IF c.from = "inline" THEN @ ELSE r.path] ELSE NoRef]
  /\ UNCHANGED <<rows, receipts, storage, mounted, scan, reviewed, preview, removeCompleted, payloadCounts>>

Release == cleanupTask' = [cleanupTask EXCEPT !.cur = NoRef, !.step = "check"]

\* One transaction: the flag, and with it the end of a dismissed row.
MarkPayloadRemoved(i) ==
  LET r == [rows[i] EXCEPT !.removed = TRUE] IN
  IF rows[i] = NoDownload THEN UNCHANGED <<rows, receipts>>
  ELSE /\ rows' = [rows EXCEPT ![i] = IF r.dismissed /\ DeleteImportedDownloads(r) THEN NoDownload ELSE r]
       /\ receipts' = Receipted(i, r)

\* The write may fail; the next sweep asks again.
MarkOrFail(i) ==
  \/ MarkPayloadRemoved(i) /\ UNCHANGED payloadCounts
  \/ Bump("faults", MaxPayloadFaults) /\ UNCHANGED <<rows, receipts>>

MayRemove(ref) ==
  /\ ~deliveryExpectedDownload(ref) /\ ~legacyCleanupReview(ref) /\ removeCompleted
  /\ safePayloadPath(ref) /\ assertImportSourceDisposable(ref.path)

\* removePayload up to the call of the client; without the call the local
\* fallback is next.
removePayload ==
  LET ref == cleanupTask.cur IN
  /\ ref.from \in {"sweep", "inline"} /\ cleanupTask.step = "check"
  /\ CASE ref.from = "sweep" /\ ~(safePayloadPath(ref) /\ assertImportSourceDisposable(ref.path)) ->
            Release /\ UNCHANGED <<rows, receipts, payloadCounts>>
       [] /\ ref.from = "sweep" /\ safePayloadPath(ref) /\ assertImportSourceDisposable(ref.path)
          /\ payloadAbsent(ref.path) -> Release /\ MarkOrFail(ref.id)
       [] OTHER -> /\ cleanupTask' = [cleanupTask EXCEPT !.step = IF MayRemove(ref) THEN "client" ELSE "local"]
                   /\ UNCHANGED <<rows, receipts, payloadCounts>>
  /\ UNCHANGED <<storage, mounted, scan, reviewed, preview, removeCompleted>>

\* The client deletes its own job's bytes, or only forgets the job, or fails.
ClientAnswers ==
  LET ref == cleanupTask.cur IN
  /\ cleanupTask.step = "client"
  /\ \/ /\ Bytes(ref.path) = ref.gen /\ storage' = Emptied(ref.path)
        /\ Release /\ MarkOrFail(ref.id)
     \/ cleanupTask' = [cleanupTask EXCEPT !.step = "local"] /\ UNCHANGED <<rows, receipts, storage, payloadCounts>>
  /\ UNCHANGED <<mounted, scan, reviewed, preview, removeCompleted>>

\* The local fallback, behind all the guards again.
removeImportedDir ==
  LET ref == cleanupTask.cur IN
  /\ cleanupTask.step = "local"
  /\ IF MayRemove(ref)
       THEN /\ MarkOrFail(ref.id)
            /\ storage' = IF payloadAbsent(ref.path) THEN storage ELSE Emptied(ref.path)
       ELSE UNCHANGED <<rows, receipts, storage, payloadCounts>>
  /\ Release
  /\ UNCHANGED <<mounted, scan, reviewed, preview, removeCompleted>>

\* recordPartialPayloadRemoved: only the generation that was taken.
PartialSettled(ref) ==
  \/ /\ IF rows[ref.id].gen = ref.gen /\ rows[ref.id].state = "failed" /\ rows[ref.id].cleanup
          THEN WriteRow(ref.id, [rows[ref.id] EXCEPT !.cleanup = FALSE, !.removed = TRUE])
          ELSE UNCHANGED <<rows, receipts>>
     /\ UNCHANGED payloadCounts
  \/ Bump("faults", MaxPayloadFaults) /\ UNCHANGED <<rows, receipts>>

\* A failed part's payload: absent on verified storage, or deleted like an
\* operator's selection.
cleanupPartialPayloadCandidate ==
  LET ref == cleanupTask.cur
      listed == {e \in scan.entries : e.path = ref.path}
  IN
  /\ ref.from = "partial" /\ cleanupTask.step = "check"
  /\ \/ /\ payloadAbsent(ref.path) /\ ~legacyCleanupReview(ref) /\ checkStorageIdentity
        /\ PartialSettled(ref) /\ UNCHANGED <<storage, scan>>
     \/ /\ ~payloadAbsent(ref.path)
        /\ \E e \in listed : /\ MayDeleteEntry(e, ref)
                             /\ storage' = Emptied(e.path) /\ scan' = [scan EXCEPT !.entries = @ \ {e}]
        /\ PartialSettled(ref)
     \/ /\ IF payloadAbsent(ref.path) THEN legacyCleanupReview(ref) \/ ~checkStorageIdentity
           ELSE \A e \in listed : ~MayDeleteEntry(e, ref)
        /\ UNCHANGED <<rows, receipts, storage, scan, payloadCounts>>
  /\ Release
  /\ UNCHANGED <<mounted, reviewed, preview, removeCompleted>>

----------------------------------------------------------------------------
(* Replacement storage *)

\* The custody a change would affect: the operator approves exactly this.
completedStorageChangePlan ==
  [known |-> scan.known, observed |-> scan.observed,
   generations |-> ({rows[i].gen : i \in PayloadRows} \cup {c.gen : c \in receipts}) \ {0},
   orphans |-> {e.path : e \in scan.entries}, prints |-> {e.fingerprint : e \in scan.entries}]

NoPreview == [known |-> "", observed |-> "", generations |-> {}, orphans |-> {}, prints |-> {}]

StorageChanged == scan.error /\ scan.observed # "" /\ scan.known # scan.observed /\ scan.observed = mounted

PreviewCompletedStorageChange ==
  /\ StorageDecisionFree /\ ImportTargetsFree /\ StorageChanged
  /\ preview # completedStorageChangePlan
  /\ preview' = completedStorageChangePlan
  /\ UNCHANGED <<rows, receipts, storage, mounted, scan, reviewed, cleanupTask, removeCompleted, payloadCounts>>

\* The fences of the accepted plan, written with the observation and the audit.
FencedCustody(plan) ==
  [reviewed EXCEPT !.fences = @ \cup plan.generations, !.paths = @ \cup plan.orphans]

\* The token covers the plan; every generation and path that exists stays
\* under review.  The report demands a scan, which follows unless interrupted.
AcceptCompletedStorageChange ==
  /\ StorageDecisionFree /\ ImportTargetsFree /\ StorageChanged
  /\ preview = completedStorageChangePlan
  /\ reviewed' = FencedCustody(preview)
  /\ \/ /\ scan' = [known |-> mounted, observed |-> mounted, error |-> FALSE,
                    entries |-> {[path |-> p, fingerprint |-> Bytes(p), delivery |-> FALSE,
                                  legacy |-> p \in reviewed'.paths \/ \E c \in receipts : c.path = p]
                                 : p \in {q \in PayloadPaths : Bytes(q) # 0}}]
        /\ UNCHANGED payloadCounts
     \/ /\ Bump("faults", MaxPayloadFaults)
        /\ scan' = [known |-> mounted, observed |-> mounted, error |-> TRUE, entries |-> {}]
  /\ preview' = NoPreview
  /\ UNCHANGED <<rows, receipts, storage, mounted, cleanupTask, removeCompleted>>

\* Somebody mounts another storage, or none; no removal is under way.
Mount(s) ==
  /\ s # mounted /\ cleanupTask.step = "check"
  /\ Bump("faults", MaxPayloadFaults)
  /\ mounted' = s
  /\ UNCHANGED <<rows, receipts, storage, scan, reviewed, preview, cleanupTask, removeCompleted>>

----------------------------------------------------------------------------
(* Downloads *)

InsertDownload(i, runner) ==
  /\ rows[i] = NoDownload
  /\ Bump("gens", MaxGens)
  /\ rows' = [rows EXCEPT ![i] = [NoDownload EXCEPT !.gen = payloadCounts'.gens, !.state = "grabbed", !.runner = runner]]
  /\ UNCHANGED <<receipts, storage, mounted, scan, reviewed, preview, cleanupTask, removeCompleted>>

\* The client chooses a directory that does not exist.
ClientWrites(i, p) ==
  /\ rows[i].state = "grabbed" /\ mounted # "none" /\ Bytes(p) = 0
  /\ \A s \in Storages, q \in PayloadPaths : storage[s][q] # rows[i].gen
  /\ storage' = [storage EXCEPT ![mounted][p] = rows[i].gen]
  /\ UNCHANGED <<rows, receipts, mounted, scan, reviewed, preview, cleanupTask, removeCompleted, payloadCounts>>

\* The poll records where a finished download is.
PollReports(i, p) ==
  /\ rows[i].state = "grabbed" /\ Bytes(p) = rows[i].gen
  /\ WriteRow(i, [rows[i] EXCEPT !.state = "downloaded", !.path = p])
  /\ UNCHANGED <<storage, mounted, scan, reviewed, preview, cleanupTask, removeCompleted, payloadCounts>>

\* A torrent without progress is retired; its partial payload waits for the
\* cleanup.
observeTorrentStall(i, p) ==
  /\ rows[i].state = "grabbed" /\ rows[i].runner = "" /\ Bytes(p) = rows[i].gen
  /\ WriteRow(i, [rows[i] EXCEPT !.state = "failed", !.path = p, !.cleanup = TRUE])
  /\ UNCHANGED <<storage, mounted, scan, reviewed, preview, cleanupTask, removeCompleted, payloadCounts>>

PayloadImportStarts(i) ==
  /\ rows[i].state \in {"downloaded", "failed"} /\ rows[i].path # 0 /\ ~RetainsCustody(rows[i])
  /\ WriteRow(i, [rows[i] EXCEPT !.state = "importing"])
  /\ UNCHANGED <<storage, mounted, scan, reviewed, preview, cleanupTask, removeCompleted, payloadCounts>>

\* A placement or a stage may be left to be settled.
ImportFails(i, custody) ==
  /\ rows[i].state = "importing"
  /\ WriteRow(i, [rows[i] EXCEPT !.state = "failed", !.custody = custody])
  /\ UNCHANGED <<storage, mounted, scan, reviewed, preview, cleanupTask, removeCompleted, payloadCounts>>

CustodySettles(i) ==
  /\ rows[i].custody # ""
  /\ WriteRow(i, [rows[i] EXCEPT !.custody = ""])
  /\ UNCHANGED <<storage, mounted, scan, reviewed, preview, cleanupTask, removeCompleted, payloadCounts>>

\* runImport's last steps: the row, then cleanupAfterImport.
ImportCompletes(i) ==
  /\ rows[i].state = "importing"
  /\ WriteRow(i, [rows[i] EXCEPT !.state = "imported", !.runner = IF @ = "pending" THEN "settled" ELSE @])
  /\ cleanupTask' = [cleanupTask EXCEPT !.todo = @ \cup {RefOf(i, "inline")}]
  /\ UNCHANGED <<storage, mounted, scan, reviewed, preview, removeCompleted, payloadCounts>>

PayloadRestart ==
  /\ cleanupTask # [todo |-> {}, cur |-> NoRef, step |-> "check"]
  /\ Bump("faults", MaxPayloadFaults)
  /\ cleanupTask' = [todo |-> {}, cur |-> NoRef, step |-> "check"]
  /\ UNCHANGED <<rows, receipts, storage, mounted, scan, reviewed, preview, removeCompleted>>

\* The empty root has been scanned, which is what makes its storage the
\* expected one.  A first download may date from before the migration.
PayloadInit ==
  /\ rows = [i \in PayloadRows |-> NoDownload]
  /\ receipts = {} /\ preview = NoPreview /\ scan = FirstScan
  /\ storage = [s \in Storages |-> [p \in PayloadPaths |-> 0]]
  /\ mounted = "first"
  /\ reviewed \in {[gens |-> {}, paths |-> {}, fences |-> {}], [gens |-> {1}, paths |-> {}, fences |-> {}]}
  /\ cleanupTask = [todo |-> {}, cur |-> NoRef, step |-> "check"]
  /\ removeCompleted \in BOOLEAN
  /\ payloadCounts = [gens |-> 0, faults |-> 0]

PayloadNext ==
  \/ ClearImportedDownloads \/ ClearFailedDownloads
  \/ \E old \in SUBSET PayloadRows : PruneActivity(old)
  \/ \E i \in PayloadRows :
       \/ DeleteActivityRow(i) \/ PayloadImportStarts(i) \/ ImportCompletes(i) \/ CustodySettles(i)
       \/ \E runner \in {"", "pending"} : InsertDownload(i, runner)
       \/ \E custody \in {"", "placement", "attempt"} : ImportFails(i, custody)
       \/ \E p \in PayloadPaths : ClientWrites(i, p) \/ PollReports(i, p) \/ observeTorrentStall(i, p)
  \/ ScanCompleted
  \/ \E e \in scan.entries \cup ScanResult.entries : DeleteCompletedEntry(e) \/ DeleteSelectedLegacyFiles(e)
  \/ CleanupPayloads \/ \E c \in cleanupTask.todo : CleanupTakes(c)
  \/ removePayload \/ ClientAnswers \/ removeImportedDir \/ cleanupPartialPayloadCandidate
  \/ PreviewCompletedStorageChange \/ AcceptCompletedStorageChange
  \/ \E s \in Storages \cup {"none"} : Mount(s)
  \/ PayloadRestart

----------------------------------------------------------------------------
PayloadSpec == PayloadInit /\ [][PayloadNext]_payloadVars

\* Receipts name known generations, and the cleanupTask works under its locks.
PayloadTypeOK ==
  /\ \A c \in receipts : c.gen \in 1 .. MaxGens /\ c.path \in PayloadPaths
  /\ cleanupTask.step \in {"check", "client", "local"}
  /\ cleanupTask.cur = NoRef => cleanupTask.step = "check"

\* A cleanup, after an import or hourly, deletes no bytes that another
\* download has reported as its own, whatever was cleared, restarted, mounted
\* or reused since the row was listed, and its own only while no review holds
\* the generation (removePayload, removeImportedDir); the cleanup of a partial
\* payload acts on the report's classification of the path and spares every
\* other download that is not finished (DeleteCompletedEntry).
CleanupTakesItsOwn ==
  [][\A s \in Storages, p \in PayloadPaths :
       (cleanupTask.cur # NoRef /\ storage[s][p] # 0 /\ storage'[s][p] = 0) =>
         \/ storage[s][p] = cleanupTask.cur.gen /\ storage[s][p] \notin reviewed.gens \cup reviewed.fences
         \/ \A c \in receipts : c.gen = storage[s][p] => c.path # p
         \/ /\ cleanupTask.cur.from = "partial"
            /\ \A i \in Reservations : rows[i].gen # storage[s][p]]_payloadVars

\* "Imported rows with remaining payloads stay internal until cleanup confirms
\* their removal" (ClearImportedDownloads): as long as the bytes of an
\* imported download are on the expected storage, the one of the last complete
\* report, a row owns them, unless a storage change has put the generation
\* under review.
PayloadOwned ==
  \A c \in receipts :
    (c.state = "imported" /\ c.gen \notin reviewed.fences /\ storage[scan.known][c.path] = c.gen)
      => \E i \in PayloadRows : rows[i].gen = c.gen /\ ~rows[i].removed
=============================================================================
