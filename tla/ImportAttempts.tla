---------------------------- MODULE ImportAttempts ----------------------------
(***************************************************************************)
(* The durable side of importing one download: the tables of migration     *)
(* 0069 (import_attempt_controls, import_attempt_files,                    *)
(* import_publication_authorizations), the placement journal, the row of   *)
(* the downloads table, and the two directory entries a placement owns on  *)
(* disk.  Every operator that primes a variable is one SQLite transaction  *)
(* (or one rename) of infra/sqlite and app/acquisition: SQLite has a       *)
(* single writer, so each of them is atomic.                               *)
(*                                                                         *)
(* The module has one download and one generation key: every table is      *)
(* keyed by both and no transaction here reads across them, except the     *)
(* test that a target is not retained for review, which is modelled.       *)
(***************************************************************************)
EXTENDS Integers

CONSTANTS
    Sources,    \* the media files of the payload; each has its own target
    MaxEpoch    \* bound: explicit retries stop at this attempt epoch

ASSUME MaxEpochAssumption == MaxEpoch \in Nat
ASSUME SourcesAssumption == Sources # {}

Epochs == 0 .. MaxEpoch

\* No bytes at a target, no library row for it.
NoFile == -1

VARIABLES
    outcome,    \* import_attempt_controls.outcome; "open" is the empty string
    epoch,      \* import_attempt_controls.attempt_epoch
    sealed,     \* import_attempt_controls.plan_sealed
    file,       \* import_attempt_files.outcome of the current epoch, by source
    pub,        \* publication authorizations by epoch and source
    plc,        \* import_placements.state by epoch and source
    row,        \* downloads.state; "blocked" is failed with ErrImportBlocked
    stage,      \* is there a staged file of this placement beside the target?
    disk,       \* the epoch whose bytes the target path holds
    lib         \* the epoch of the placement media_files names at the target

control == <<outcome, epoch, sealed, file>>
bytes == <<stage, disk>>
tables == <<outcome, epoch, sealed, file, pub, plc, row, stage, disk, lib>>

Outcomes == {"absent", "open", "pending", "cancelled", "completed"}
FileOutcomes == {"absent", "pending", "skipped", "committed"}
PubOutcomes == {"none", "pending", "committed", "retained", "adopted", "disposed"}
PlcStates == {"none", "prepared", "committed", "retained", "abandoned"}
RowStates == {"downloading", "downloaded", "importing", "imported", "failed", "blocked"}

TablesTypeOK ==
    /\ outcome \in Outcomes
    /\ epoch \in Epochs
    /\ sealed \in BOOLEAN
    /\ file \in [Sources -> FileOutcomes]
    /\ pub \in [Epochs -> [Sources -> PubOutcomes]]
    /\ plc \in [Epochs -> [Sources -> PlcStates]]
    /\ row \in RowStates
    /\ stage \in [Epochs -> [Sources -> BOOLEAN]]
    /\ disk \in [Sources -> Epochs \cup {NoFile}]
    /\ lib \in [Sources -> Epochs \cup {NoFile}]

\* A fresh download, or one imported before the control table existed.
TablesInit ==
    /\ outcome = "absent"
    /\ epoch = 0
    /\ sealed = FALSE
    /\ file = [s \in Sources |-> "absent"]
    /\ pub = [e \in Epochs |-> [s \in Sources |-> "none"]]
    /\ plc = [e \in Epochs |-> [s \in Sources |-> "none"]]
    /\ row \in {"downloading", "imported"}
    /\ stage = [e \in Epochs |-> [s \in Sources |-> FALSE]]
    /\ disk = [s \in Sources |-> NoFile]
    /\ lib = [s \in Sources |-> NoFile]

-----------------------------------------------------------------------------
(* What the transactions read.                                              *)

PendingPublications == \E e \in Epochs, s \in Sources : pub[e][s] = "pending"

RetainedPublications == \E e \in Epochs, s \in Sources : pub[e][s] = "retained"

\* AssertPublicationTargetAvailable: every epoch of a source has one target.
TargetRetained(s) == \E e \in Epochs : pub[e][s] = "retained"

\* guardImportAttempt: the row exists and still has the caller's epoch.
GuardImportAttempt(k) == outcome # "absent" /\ epoch = k

\* A mutant: one committed file is taken for the whole plan.
ImportPlanStarted == sealed /\ \E s \in Sources : file[s] = "committed"

ImportPlanComplete ==
    /\ sealed
    /\ \A s \in Sources : file[s] # "pending"
    /\ \E s \in Sources : file[s] = "committed"

\* The outcome ensureImportAttempt leaves behind when it inserts the row.
EnsuredOutcome ==
    IF outcome # "absent" THEN outcome
    ELSE IF row = "imported" THEN "completed" ELSE "open"

-----------------------------------------------------------------------------
(* Attempt control: import_attempts.go.                                     *)

EnsureImportAttempt ==
    /\ outcome' = EnsuredOutcome
    /\ UNCHANGED <<epoch, sealed, file, pub, plc, row, stage, disk, lib>>

\* A mutant for the model's own tests: a retry that trusts the outcome alone.
BeginImportRetryIgnoringPublications == EnsuredOutcome # "pending" /\ epoch < MaxEpoch

BeginImportRetryAllowed ==
    /\ ~PendingPublications
    /\ ~RetainedPublications
    /\ EnsuredOutcome # "pending"
    /\ epoch < MaxEpoch

BeginImportRetry ==
    /\ BeginImportRetryAllowed
    /\ epoch' = epoch + 1
    /\ outcome' = "open"
    /\ sealed' = FALSE
    /\ file' = [s \in Sources |-> "absent"]
    /\ row' = "downloaded"
    /\ UNCHANGED <<pub, plc, stage, disk, lib>>

\* A plan sealed before must be this one.  (The plan of a delivery, sealed by
\* the delivery itself, may be a larger one; no delivery is modelled here.)
SealImportAttemptAllowed(k, plan) ==
    /\ GuardImportAttempt(k)
    /\ outcome = "open"
    /\ sealed => \A s \in Sources : (file[s] # "absent") <=> (s \in plan)

SealImportAttempt(k, plan) ==
    /\ SealImportAttemptAllowed(k, plan)
    /\ sealed' = TRUE
    /\ file' = IF sealed THEN file
               ELSE [s \in Sources |-> IF s \in plan THEN "pending" ELSE "absent"]
    /\ UNCHANGED <<outcome, epoch, pub, plc, row, stage, disk, lib>>

\* resolveImportFile: pending, or already resolved the same way.
ResolvesTo(s, result) == file[s] \in {"pending", result}

ResolveSkippedAllowed(k, s) ==
    /\ GuardImportAttempt(k)
    /\ outcome \in {"open", "pending"}
    /\ ResolvesTo(s, "skipped")

ResolveSkipped(k, s) ==
    /\ ResolveSkippedAllowed(k, s)
    /\ file' = [file EXCEPT ![s] = "skipped"]
    /\ UNCHANGED <<outcome, epoch, sealed, pub, plc, row, stage, disk, lib>>

\* SatisfyImportFile: placement p of an earlier run is still what the library
\* and the disk hold, so this attempt only records the file as committed.
SatisfyImportFileAllowed(k, s, p) ==
    /\ GuardImportAttempt(k)
    /\ outcome = "open"
    /\ plc[p][s] = "committed"
    /\ lib[s] = p
    /\ ResolvesTo(s, "committed")

SatisfyImportFile(k, s, p) ==
    /\ SatisfyImportFileAllowed(k, s, p)
    /\ file' = [file EXCEPT ![s] = "committed"]
    /\ UNCHANGED <<outcome, epoch, sealed, pub, plc, row, stage, disk, lib>>

\* completeImportAttempt: the shared tail of every path that completes.
CompleteAttempt ==
    /\ outcome' = "completed"
    /\ row' = "imported"

CompleteImportAttemptAllowed(k) ==
    /\ GuardImportAttempt(k)
    /\ sealed
    /\ \A s \in Sources : file[s] # "pending"
    /\ ~PendingPublications
    /\ outcome # "cancelled"

CompleteImportAttempt(k) ==
    /\ CompleteImportAttemptAllowed(k)
    /\ CompleteAttempt
    /\ UNCHANGED <<epoch, sealed, file, pub, plc, stage, disk, lib>>

RequestImportCancellation(k) ==
    /\ GuardImportAttempt(k)
    /\ IF outcome \in {"completed", "cancelled"}
         THEN UNCHANGED <<outcome, row>>
         ELSE IF ~PendingPublications /\ (row = "imported" \/ ImportPlanComplete)
                THEN CompleteAttempt
                ELSE outcome' = "pending" /\ UNCHANGED row
    /\ UNCHANGED <<epoch, sealed, file, pub, plc, stage, disk, lib>>

\* A mutant: finalization that does not wait for authorized publications.
FinalizeIgnoringPublications(k) == GuardImportAttempt(k) /\ outcome = "pending"

FinalizeImportCancellationAllowed(k) ==
    /\ GuardImportAttempt(k)
    /\ outcome = "pending"
    /\ ~PendingPublications

\* FinalizeImportCancellation; a refusal or another outcome changes nothing.
FinalizeImportCancellation(k) ==
    /\ IF FinalizeImportCancellationAllowed(k)
         THEN IF ImportPlanComplete
                THEN CompleteAttempt
                ELSE outcome' = "cancelled" /\ row' = "downloaded"
         ELSE UNCHANGED <<outcome, row>>
    /\ UNCHANGED <<epoch, sealed, file, pub, plc, stage, disk, lib>>

-----------------------------------------------------------------------------
(* Publications and placements: import_publications.go, placement.go.       *)

\* PreparePlacement and the staging of the payload: the journal row first,
\* then the named stage.  An error or a cancellation can stop it after the
\* row (staged = FALSE) or with a partial copy, which stays on disk.
StagePlacement(k, s, staged) ==
    /\ plc' = [plc EXCEPT ![k][s] = "prepared"]
    /\ stage' = [stage EXCEPT ![k][s] = staged]
    /\ UNCHANGED <<outcome, epoch, sealed, file, pub, row, disk, lib>>

\* A mutant: the authorization looks at the epoch but not at the outcome.
AuthorizeIgnoringOutcome(k, s) ==
    /\ plc[k][s] = "prepared"
    /\ GuardImportAttempt(k)
    /\ sealed
    /\ file[s] = "pending"
    /\ ~TargetRetained(s)
    /\ pub[k][s] \in {"none", "pending"}

AuthorizeImportPlacementAllowed(k, s) ==
    /\ plc[k][s] = "prepared"
    /\ GuardImportAttempt(k)
    /\ outcome = "open"
    /\ sealed
    /\ file[s] = "pending"
    /\ ~TargetRetained(s)
    /\ pub[k][s] \in {"none", "pending"}

\* A placement that was prepared in place (the target already holds the
\* payload's digest, so nothing is staged) owns those bytes from here on.
AuthorizeImportPlacement(k, s) ==
    /\ AuthorizeImportPlacementAllowed(k, s)
    /\ pub' = [pub EXCEPT ![k][s] = "pending"]
    /\ disk' = [disk EXCEPT ![s] = IF stage[k][s] THEN @ ELSE k]
    /\ UNCHANGED <<outcome, epoch, sealed, file, plc, row, stage, lib>>

\* publishPlacement's rename of the staged file over the target.
RenameStage(k, s) ==
    /\ stage' = [stage EXCEPT ![k][s] = FALSE]
    /\ disk' = [disk EXCEPT ![s] = k]
    /\ UNCHANGED <<outcome, epoch, sealed, file, pub, plc, row, lib>>

\* A mutant: the commit trusts the journal and not the authorization.
CommitTrustingJournal(k, s) ==
    /\ plc[k][s] \in {"prepared", "committed"}
    /\ GuardImportAttempt(k)
    /\ ResolvesTo(s, "committed")

\* CommitPlacement couples the publication result, the file result, the
\* library row and the journal.  It is not fenced by the outcome: a
\* publication that was authorized before a cancellation still commits.  A
\* placement whose source was cleaned up counts as committed.
CommitPlacementAllowed(k, s) ==
    /\ plc[k][s] \in {"prepared", "committed"}
    /\ GuardImportAttempt(k)
    /\ pub[k][s] \in {"pending", "committed"}
    /\ ResolvesTo(s, "committed")

\* Mutants: a commit that forgets one of the tables it couples.
CommitWithoutLibraryRow(k, s) ==
    /\ CommitPlacementAllowed(k, s)
    /\ pub' = [pub EXCEPT ![k][s] = "committed"]
    /\ file' = [file EXCEPT ![s] = "committed"]
    /\ plc' = [plc EXCEPT ![k][s] = "committed"]
    /\ UNCHANGED <<outcome, epoch, sealed, row, stage, disk, lib>>

CommitWithoutJournal(k, s) ==
    /\ CommitPlacementAllowed(k, s)
    /\ pub' = [pub EXCEPT ![k][s] = "committed"]
    /\ file' = [file EXCEPT ![s] = "committed"]
    /\ lib' = [lib EXCEPT ![s] = k]
    /\ UNCHANGED <<outcome, epoch, sealed, plc, row, stage, disk>>

CommitPlacement(k, s) ==
    /\ CommitPlacementAllowed(k, s)
    /\ pub' = [pub EXCEPT ![k][s] = "committed"]
    /\ file' = [file EXCEPT ![s] = "committed"]
    /\ plc' = [plc EXCEPT ![k][s] = "committed"]
    /\ lib' = IF plc[k][s] = "prepared" THEN [lib EXCEPT ![s] = k] ELSE lib
    /\ UNCHANGED <<outcome, epoch, sealed, row, stage, disk>>

\* RetainUncertainImport revokes every pending authorization at once.
RetainUncertainImport ==
    /\ outcome = "pending"
    /\ PendingPublications
    /\ pub' = [e \in Epochs |-> [s \in Sources |->
                 IF pub[e][s] = "pending" THEN "retained" ELSE pub[e][s]]]
    /\ outcome' = "cancelled"
    /\ row' = "downloaded"
    /\ UNCHANGED <<epoch, sealed, file, plc, stage, disk, lib>>

\* ResolveRetainedImportTargets for one publication identity.
ResolveRetained(e, s, disposition) ==
    /\ outcome \notin {"absent", "pending"}
    /\ ~PendingPublications
    /\ pub[e][s] \in {"retained", "adopted"}
    /\ disposition = "adopted" => lib[s] # NoFile
    /\ pub' = [pub EXCEPT ![e][s] = disposition]
    /\ plc' = [plc EXCEPT ![e][s] =
                 IF plc[e][s] \notin {"prepared", "retained"} THEN plc[e][s]
                 ELSE IF disposition = "disposed" THEN "abandoned" ELSE "retained"]
    /\ UNCHANGED <<outcome, epoch, sealed, file, row, stage, disk, lib>>

\* The "stage:" identities of the same call: a staged file nobody published.
DisposeStage(e, s) ==
    /\ outcome \notin {"absent", "pending"}
    /\ ~PendingPublications
    /\ plc[e][s] \in {"prepared", "retained"}
    /\ pub[e][s] \notin {"pending", "retained", "adopted"}
    /\ plc' = [plc EXCEPT ![e][s] = "abandoned"]
    /\ UNCHANGED <<outcome, epoch, sealed, file, pub, row, stage, disk, lib>>
=============================================================================
