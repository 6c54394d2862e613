---------------------------- MODULE Replacement ----------------------------
(***************************************************************************)
(* Replacing media of one title on request: reviewed observations of its   *)
(* files, the durable operation with a snapshot of every file it concerns, *)
(* and the worker that retires the old bytes, searches, waits for the      *)
(* download and completes.  Bad media go first and are replaced later;     *)
(* media of poor quality stay until the replacement is in the library.     *)
(*                                                                         *)
(* Hashing runs without locks; the steps from a link to the removal of the *)
(* original name and from the last unlink to its record hold the target    *)
(* lock, which an import needs to commit.  A library scan takes neither.   *)
(*                                                                         *)
(* One copy of the title (CopyID) and its episodes; a placement is of one  *)
(* episode.  Retry clocks are left out, and so is the row a scan makes for *)
(* a name without one: it is another file, with a generation of its own.   *)
(***************************************************************************)
EXTENDS Integers, FiniteSets

CONSTANTS
    Ops,            \* identities of operations
    Old,            \* files of the title
    Episodes,
    EpisodesOf,     \* the episodes each of them is linked to at first
    NamedEpisodes,  \* those of the library its file name says; {}: unreadable
    Foreign,        \* those that came with another download
    MaxRepFaults    \* restarts, outside edits, reports, lost volumes, scans

ASSUME ReplacementAssumption ==
    /\ EpisodesOf \in [Old -> SUBSET Episodes]
    /\ NamedEpisodes \in [Old -> SUBSET Episodes]
    /\ Foreign \subseteq Old
    /\ MaxRepFaults \in Nat

VARIABLES
    observation,   \* newest observation of each file
    storagePinned, \* the storage identity of the folder is pinned
    repOperation,     \* replacement_operations
    opFile,        \* replacement_operation_files
    fileEpisodes,  \* media_files with their episodes; {} for a deleted row
    fileRow,       \* the row exists
    oldBytes,      \* what is under the file's name: "original", "altered", "absent"
    quarantine,    \* what is under its quarantine name
    newPlacement,  \* replacement placements: "none", "placed", "flagged", "lost"
    opDownload,    \* the operation's newest download; older ones are settled
    repWorker,
    repScan,       \* the scan of the title's folders
    volumeOk,      \* the volume of the title is the one that was reviewed
    repFaults

repVars == <<observation, storagePinned, repOperation, opFile, fileEpisodes, fileRow, oldBytes,
             quarantine, newPlacement, opDownload, repWorker, repScan, volumeOk, repFaults>>

OpSettled == {"complete", "cancelled", "failed"}
WorkerIdle == [pc |-> "idle", op |-> {}, todo |-> {}, file |-> {}, proof |-> {}]
NoScan == [pc |-> "idle", links |-> {}, new |-> {}, gone |-> {}, goneNew |-> {}]
NoPart == [disposition |-> "none", removal |-> "none", seen |-> "none", episodes |-> {}]

RepInit ==
    /\ observation = [f \in Old |-> [state |-> "none", seen |-> "none", storage |-> FALSE]]
    /\ storagePinned = FALSE
    /\ repOperation = [o \in Ops |-> [state |-> "none", intent |-> "none", scope |-> "none", episodes |-> {}]]
    /\ opFile = [o \in Ops |-> [f \in Old |-> NoPart]]
    /\ fileEpisodes = EpisodesOf
    /\ fileRow = [f \in Old |-> TRUE]
    /\ oldBytes = [f \in Old |-> "original"]
    /\ quarantine = [f \in Old |-> "none"]
    /\ newPlacement = [e \in Episodes |-> "none"]
    /\ opDownload = [o \in Ops |-> "none"]
    /\ repWorker = WorkerIdle
    /\ repScan = NoScan
    /\ volumeOk = TRUE
    /\ repFaults = 0

OpenOperations == {o \in Ops : repOperation[o].state \notin OpSettled \cup {"none"}}

TargetHeld == repWorker.pc \in {"linked", "unlinked"}

(* Review and acceptance *)

\* The request notes the storage that is mounted.  A file has one observation
\* at a time.
StartReplacementFileObservation(f) ==
    /\ fileRow[f]
    /\ observation[f].state # "pending"
    /\ observation' = [observation EXCEPT ![f] = [state |-> "pending", seen |-> "none", storage |-> volumeOk]]
    /\ UNCHANGED <<storagePinned, repOperation, opFile, fileEpisodes, fileRow, oldBytes, quarantine, newPlacement,
                   opDownload, repWorker, volumeOk, repFaults, repScan>>

\* trustedReplacementStorageIdentity: the durable pin, never the identity seen
\* while the file is absent.
TrustedStorage(f) == storagePinned /\ observation[f].storage

\* observeMissingReplacementPath
AbsenceProved(f) == volumeOk /\ oldBytes[f] = "absent"

\* What the worker finds: the storage of the request is still mounted and the
\* file is read whole, or its absence is proved on trusted storage.
ObservationResult(f) ==
    LET sameStorage == fileRow[f] /\ observation[f].storage /\ volumeOk IN
    CASE sameStorage /\ oldBytes[f] # "absent" -> [observation[f] EXCEPT !.state = "ready", !.seen = oldBytes[f]]
      [] sameStorage /\ TrustedStorage(f) /\ AbsenceProved(f) ->
            [observation[f] EXCEPT !.state = "absent", !.seen = "absent"]
      [] OTHER -> [observation[f] EXCEPT !.state = "stale"]

\* A file that is read pins the folder's storage.
ProcessReplacementFileObservation(f) ==
    /\ repWorker.pc = "idle"
    /\ observation[f].state = "pending"
    /\ observation' = [observation EXCEPT ![f] = ObservationResult(f)]
    /\ storagePinned' = (storagePinned \/ ObservationResult(f).state = "ready")
    /\ UNCHANGED <<repOperation, opFile, fileEpisodes, fileRow, oldBytes, quarantine, newPlacement, opDownload,
                   repWorker, volumeOk, repFaults, repScan>>

\* The file is what the review saw, checked again under the locks.
StillReviewed(f, intent) ==
    /\ fileRow[f] /\ volumeOk /\ storagePinned
    /\ observation[f].state = "ready" \/ (observation[f].state = "absent" /\ intent = "replace_bad")
    /\ oldBytes[f] = observation[f].seen

\* A mutant: a file that holds a selected episode goes.
SnapshotOfAnyOverlap(f, intent, episodes) ==
    [disposition |-> IF f \notin Foreign THEN "selected" ELSE "preserved",
     removal |-> IF intent = "replace_bad" THEN "pending" ELSE "protected",
     seen |-> observation[f].seen, episodes |-> fileEpisodes[f]]

\* A file of the source that only holds selected episodes goes; one that also
\* holds a good episode, or came from elsewhere, stays.  A shared file of the
\* source loses its selected episodes.
SnapshotOf(f, intent, episodes) ==
    LET selected == fileEpisodes[f] \subseteq episodes /\ f \notin Foreign
        shared == ~(fileEpisodes[f] \subseteq episodes) /\ f \notin Foreign
    IN [disposition |-> IF selected THEN "selected" ELSE "preserved",
        removal |-> IF (intent = "replace_bad" /\ selected) \/ shared THEN "pending" ELSE "protected",
        seen |-> observation[f].seen, episodes |-> fileEpisodes[f]]

\* A whole download excludes every other operation; selected episodes have one
\* owner.
ScopeFree(scope, episodes) ==
    \A p \in OpenOperations :
        /\ "download" \notin {scope, repOperation[p].scope}
        /\ repOperation[p].episodes \cap episodes = {}

\* The operation and the snapshot of every concerned file, in one transaction.
CreateReplacementOperation(o, intent, scope, episodes, concerned) ==
    /\ ScopeFree(scope, episodes)
    /\ repOperation' = [repOperation EXCEPT ![o] =
                          [state |-> "accepted", intent |-> intent, scope |-> scope, episodes |-> episodes]]
    /\ opFile' = [opFile EXCEPT ![o] =
                    [f \in Old |-> IF f \in concerned THEN SnapshotOf(f, intent, episodes) ELSE NoPart]]

\* The files a review has to name: those that hold a selected episode, or
\* those of the download.
Concerned(scope, episodes) ==
    {f \in Old : fileRow[f] /\ IF scope = "download" THEN f \notin Foreign ELSE fileEpisodes[f] \cap episodes # {}}

\* The review names every file of the scope, and they hold every episode.  A
\* download is replaced for the episodes of its files.
ScopeCovered(scope, episodes, concerned) ==
    LET held == UNION {fileEpisodes[f] : f \in concerned} IN
    /\ episodes # {}
    /\ IF scope = "download" THEN episodes = held ELSE episodes \subseteq held
    /\ \A f \in concerned : observation[f].state # "none"

CreateReplacement(o, intent, scope, episodes) ==
    LET concerned == Concerned(scope, episodes) IN
    /\ repOperation[o].state = "none"
    /\ ~TargetHeld
    /\ \E f \in concerned : f \notin Foreign
    /\ ScopeCovered(scope, episodes, concerned)
    /\ \A f \in concerned : StillReviewed(f, intent)
    /\ CreateReplacementOperation(o, intent, scope, episodes, concerned)
    /\ UNCHANGED <<observation, storagePinned, fileEpisodes, fileRow, oldBytes, quarantine, newPlacement,
                   opDownload, repWorker, repScan, volumeOk, repFaults>>

(* The worker *)

Parts(o) == {f \in Old : opFile[o][f].disposition # "none" /\ opFile[o][f].removal # "removed"}

\* "A delayed failure or progress callback cannot reopen settled work."
TransitionReplacementOperation(o, state) ==
    repOperation' = IF repOperation[o].state \in OpSettled THEN repOperation
                     ELSE [repOperation EXCEPT ![o].state = state]

\* ReplacementHasCommittedCoverage, from the placements of this operation.
CommittedCoverage(o) == \A e \in repOperation[o].episodes : newPlacement[e] \in {"placed", "flagged", "lost"}

\* inspectReplacementCoverage hashes every placement.
CoverageProved(o) == volumeOk /\ \A e \in repOperation[o].episodes : newPlacement[e] = "placed"

\* An open operation: bad files are removed before the search.
ProcessReplacementOperation(o) ==
    LET early == repOperation[o].state \in {"accepted", "removing", "cleanup_blocked"} IN
    /\ repWorker.pc = "idle"
    /\ o \in OpenOperations
    /\ IF early /\ repOperation[o].intent = "replace_bad"
         THEN /\ repWorker' = [WorkerIdle EXCEPT !.pc = "remove", !.op = {o}, !.todo = Parts(o)]
              /\ UNCHANGED repOperation
         ELSE /\ IF early THEN TransitionReplacementOperation(o, "searching") ELSE UNCHANGED repOperation
              /\ repWorker' = [WorkerIdle EXCEPT !.pc = "coverage", !.op = {o}]
    /\ UNCHANGED <<observation, storagePinned, opFile, fileEpisodes, fileRow, oldBytes, quarantine,
                   newPlacement, opDownload, volumeOk, repFaults, repScan>>

RemovalDone(o) ==
    /\ repWorker.pc = "remove"
    /\ o \in repWorker.op
    /\ repWorker.todo = {}
    /\ IF repWorker.proof = {}
         THEN TransitionReplacementOperation(o, "searching") /\ repWorker' = [repWorker EXCEPT !.pc = "coverage"]
         ELSE TransitionReplacementOperation(o, "complete") /\ repWorker' = WorkerIdle
    /\ UNCHANGED <<observation, storagePinned, opFile, fileEpisodes, fileRow, oldBytes, quarantine,
                   newPlacement, opDownload, volumeOk, repFaults, repScan>>

\* Covered: prove it and retire what is left.  Not covered: go on with the
\* downloads of the operation.
InspectReplacementCoverage(o) ==
    /\ repWorker.pc = "coverage"
    /\ o \in repWorker.op
    /\ \/ /\ ~CommittedCoverage(o)
          /\ repWorker' = [repWorker EXCEPT !.pc = "downloads"]
          /\ UNCHANGED repOperation
       \/ /\ CommittedCoverage(o) /\ CoverageProved(o)
          /\ repWorker' = [repWorker EXCEPT !.pc = "remove", !.todo = Parts(o), !.proof = repOperation[o].episodes]
          /\ UNCHANGED repOperation
       \/ /\ CommittedCoverage(o) /\ ~CoverageProved(o)
          /\ TransitionReplacementOperation(o, "cleanup_blocked")
          /\ repWorker' = WorkerIdle
    /\ UNCHANGED <<observation, storagePinned, opFile, fileEpisodes, fileRow, oldBytes, quarantine,
                   newPlacement, opDownload, volumeOk, repFaults, repScan>>

\* DetachReplacementEpisodes of the selected episodes the review saw, refused
\* when the row is gone.
DetachEpisodes(o, f) ==
    /\ fileRow[f]
    /\ fileEpisodes' = [fileEpisodes EXCEPT ![f] = @ \ (opFile[o][f].episodes \cap repOperation[o].episodes)]

SetRemovalState(o, f, state) == opFile' = [opFile EXCEPT ![o][f].removal = state]

\* The files of the operation, one after the other.  A preserved file only
\* loses its selected episodes, if anything.
PreserveFile(o, f) ==
    /\ repWorker.pc = "remove"
    /\ o \in repWorker.op /\ f \in repWorker.todo
    /\ opFile[o][f].disposition = "preserved"
    /\ IF opFile[o][f].removal = "pending"
         THEN DetachEpisodes(o, f)
         ELSE UNCHANGED fileEpisodes
    /\ SetRemovalState(o, f, "removed")
    /\ repWorker' = [repWorker EXCEPT !.todo = @ \ {f}]
    /\ UNCHANGED <<observation, storagePinned, repOperation, fileRow, oldBytes, quarantine, newPlacement,
                   opDownload, volumeOk, repFaults, repScan>>

\* A mutant: the placements are trusted from the hash on.
FinalCheckOfSource(f) == fileRow[f] /\ volumeOk /\ storagePinned

\* finalReplacementPlacementCheck: what was hashed is still there.  (A placement
\* made anew meanwhile has another identity, and the code refuses it too.)
ProofStands == \A e \in repWorker.proof : newPlacement[e] = "placed"

\* replacementFinalCheck, under the locks: the row and the storage are the
\* reviewed ones too.  The row's generation is; its episodes are not read.
FinalCheck(f) ==
    /\ ProofStands
    /\ fileRow[f] /\ volumeOk /\ storagePinned

\* The hash before the locks.  An earlier pass may have left the file in
\* quarantine.
HashSource(o, f) ==
    /\ repWorker.pc = "remove"
    /\ o \in repWorker.op /\ f \in repWorker.todo
    /\ opFile[o][f].disposition = "selected"
    /\ fileRow[f] /\ volumeOk
    /\ \/ /\ quarantine[f] = opFile[o][f].seen
          /\ repWorker' = [repWorker EXCEPT !.pc = "recover", !.file = {f}]
       \/ /\ quarantine[f] = "none" /\ oldBytes[f] = "absent"
          /\ repWorker' = [repWorker EXCEPT !.pc = "missing", !.file = {f}]
       \/ /\ quarantine[f] = "none" /\ oldBytes[f] = opFile[o][f].seen /\ oldBytes[f] # "absent"
          /\ repWorker' = [repWorker EXCEPT !.pc = "hashed", !.file = {f}]
    /\ SetRemovalState(o, f, "pending")
    /\ UNCHANGED <<observation, storagePinned, repOperation, fileEpisodes, fileRow, oldBytes, quarantine,
                   newPlacement, opDownload, volumeOk, repFaults, repScan>>

\* The exclusive link beside the original; both names hold the bytes.
LinkQuarantine(f) ==
    /\ repWorker.pc = "hashed"
    /\ f \in repWorker.file
    /\ FinalCheck(f)
    /\ \A o \in repWorker.op : oldBytes[f] = opFile[o][f].seen
    /\ quarantine' = [quarantine EXCEPT ![f] = oldBytes[f]]
    /\ repWorker' = [repWorker EXCEPT !.pc = "linked"]
    /\ UNCHANGED <<observation, storagePinned, repOperation, opFile, fileEpisodes, fileRow, oldBytes,
                   newPlacement, opDownload, volumeOk, repFaults, repScan>>

\* The original name goes when it still is the reviewed file; a recovery may
\* find it gone already.
UnlinkOriginal(f) ==
    /\ repWorker.pc \in {"linked", "recover"}
    /\ f \in repWorker.file
    /\ repWorker.pc = "recover" => FinalCheck(f)
    /\ oldBytes[f] = quarantine[f] \/ (repWorker.pc = "recover" /\ oldBytes[f] = "absent")
    /\ oldBytes' = [oldBytes EXCEPT ![f] = "absent"]
    /\ repWorker' = [repWorker EXCEPT !.pc = "verify"]
    /\ UNCHANGED <<observation, storagePinned, repOperation, opFile, fileEpisodes, fileRow, quarantine,
                   newPlacement, opDownload, volumeOk, repFaults, repScan>>

\* verifyReplacementQuarantineDigest
QuarantineIsReviewed(f) == \A o \in repWorker.op : quarantine[f] = opFile[o][f].seen

\* finalizeReplacementQuarantine: everything is checked once more and the
\* last name goes.
UnlinkQuarantine(f) ==
    /\ repWorker.pc = "verify"
    /\ f \in repWorker.file
    /\ FinalCheck(f)
    /\ oldBytes[f] = "absent"
    /\ QuarantineIsReviewed(f)
    /\ quarantine' = [quarantine EXCEPT ![f] = "none"]
    /\ repWorker' = [repWorker EXCEPT !.pc = "unlinked"]
    /\ UNCHANGED <<observation, storagePinned, repOperation, opFile, fileEpisodes, fileRow, oldBytes,
                   newPlacement, opDownload, volumeOk, repFaults, repScan>>

\* The library record goes last; a file that is missing, on the storage that
\* was reviewed, only has its record left.
DeleteReplacementFileRecord(o, f) ==
    /\ o \in repWorker.op /\ f \in repWorker.file
    /\ \/ repWorker.pc = "unlinked"
       \/ repWorker.pc = "missing" /\ FinalCheck(f) /\ oldBytes[f] = "absent" /\ quarantine[f] = "none"
    /\ fileRow' = [fileRow EXCEPT ![f] = FALSE]
    /\ fileEpisodes' = [fileEpisodes EXCEPT ![f] = {}]
    /\ SetRemovalState(o, f, "removed")
    /\ repWorker' = [repWorker EXCEPT !.pc = "remove", !.todo = @ \ {f}, !.file = {}]
    /\ UNCHANGED <<observation, storagePinned, repOperation, oldBytes, quarantine, newPlacement, opDownload,
                   volumeOk, repFaults, repScan>>

\* Any check that fails, and any error, blocks the operation until a retry.
RemovalBlocked(o) ==
    /\ o \in repWorker.op
    /\ \/ /\ repWorker.pc = "remove"
          /\ \E f \in repWorker.todo :
               \/ opFile[o][f].disposition = "preserved" /\ opFile[o][f].removal = "pending" /\ ~fileRow[f]
               \/ /\ opFile[o][f].disposition = "selected"
                  /\ \/ ~fileRow[f] \/ ~volumeOk
                     \/ quarantine[f] \notin {"none", opFile[o][f].seen}
                     \/ quarantine[f] = "none" /\ oldBytes[f] \notin {"absent", opFile[o][f].seen}
       \/ \E f \in repWorker.file :
            \/ repWorker.pc \in {"hashed", "missing", "recover", "verify"} /\ ~FinalCheck(f)
            \/ repWorker.pc = "hashed" /\ oldBytes[f] # opFile[o][f].seen
            \/ repWorker.pc = "linked" /\ oldBytes[f] # quarantine[f]
            \/ repWorker.pc = "recover" /\ oldBytes[f] \notin {quarantine[f], "absent"}
            \/ repWorker.pc \in {"missing", "verify"} /\ oldBytes[f] # "absent"
            \/ repWorker.pc = "verify" /\ quarantine[f] # opFile[o][f].seen
    /\ TransitionReplacementOperation(o, "cleanup_blocked")
    /\ repWorker' = WorkerIdle
    /\ UNCHANGED <<observation, storagePinned, opFile, fileEpisodes, fileRow, oldBytes, quarantine,
                   newPlacement, opDownload, volumeOk, repFaults, repScan>>

\* replacementAttemptCleanupBlock
CleanupBlocks(o) == opDownload[o] = "failed_unclean"

\* A download that is under way is waited for; the bytes of a failed one must
\* be settled first.  So only the newest one can be unsettled.
CheckReplacementDownloads(o) ==
    /\ repWorker.pc = "downloads"
    /\ o \in repWorker.op
    /\ \/ /\ opDownload[o] \in {"active", "placing"}
          /\ TransitionReplacementOperation(o, "replacing")
          /\ repWorker' = WorkerIdle
       \/ /\ CleanupBlocks(o)
          /\ TransitionReplacementOperation(o, "cleanup_blocked")
          /\ repWorker' = WorkerIdle
       \/ /\ opDownload[o] \in {"none", "failed", "imported"}
          /\ repWorker' = [repWorker EXCEPT !.pc = "episodes"]
          /\ UNCHANGED repOperation
    /\ UNCHANGED <<observation, storagePinned, opFile, fileEpisodes, fileRow, oldBytes, quarantine,
                   newPlacement, opDownload, volumeOk, repFaults, repScan>>

\* searchAndAdmitReplacement: an acceptable release that is not the failed one
\* is admitted for the operation; otherwise it waits.
AdmitReplacement(o) ==
    \/ /\ opDownload' = [opDownload EXCEPT ![o] = "active"]
       /\ TransitionReplacementOperation(o, "replacing")
    \/ /\ TransitionReplacementOperation(o, "waiting_for_release")
       /\ UNCHANGED opDownload

\* The first selected episode without a placement is searched for.  With every
\* episode covered by now the operation is complete.
SearchAndAdmitReplacement(o) ==
    /\ repWorker.pc = "episodes"
    /\ o \in repWorker.op
    /\ IF CommittedCoverage(o)
         THEN TransitionReplacementOperation(o, "complete") /\ UNCHANGED opDownload
         ELSE AdmitReplacement(o)
    /\ repWorker' = WorkerIdle
    /\ UNCHANGED <<observation, storagePinned, opFile, fileEpisodes, fileRow, oldBytes, quarantine,
                   newPlacement, volumeOk, repFaults, repScan>>

\* A selected episode has left the title.  The refresh that removed it, and
\* its links with it, is not modelled.
ReplacementEpisodeGone(o) ==
    /\ repWorker.pc = "episodes"
    /\ o \in repWorker.op
    /\ repFaults < MaxRepFaults
    /\ TransitionReplacementOperation(o, "failed")
    /\ repWorker' = WorkerIdle
    /\ repFaults' = repFaults + 1
    /\ UNCHANGED <<observation, storagePinned, opFile, fileEpisodes, fileRow, oldBytes, quarantine,
                   newPlacement, opDownload, repScan, volumeOk>>

(* The download and its import *)

\* The commit of a placement checks the snapshot of its operation: in the
\* selected scope, of episodes the sources held, with the bad sources gone.
SnapshotAllows(o, e) ==
    LET relevant == {f \in Old : opFile[o][f].disposition # "none" /\ e \in opFile[o][f].episodes} IN
    /\ e \in repOperation[o].episodes
    /\ relevant # {}
    /\ \A f \in relevant : opFile[o][f].disposition = "selected" =>
         /\ repOperation[o].intent = "replace_bad" => opFile[o][f].removal = "removed"
         /\ opFile[o][f].removal = "removed" => ~fileRow[f]

CommitReplacementPlacement(o, e) ==
    /\ opDownload[o] \in {"active", "placing"}
    /\ ~TargetHeld
    /\ volumeOk
    /\ newPlacement[e] \in {"none", "lost"}
    /\ SnapshotAllows(o, e)
    /\ newPlacement' = [newPlacement EXCEPT ![e] = "placed"]
    /\ opDownload' = [opDownload EXCEPT ![o] = "placing"]
    /\ UNCHANGED <<observation, storagePinned, repOperation, opFile, fileEpisodes, fileRow, oldBytes, quarantine,
                   repWorker, volumeOk, repFaults, repScan>>

\* The download ends: imported, or failed with its payload still to be removed.
DownloadEnds(o) ==
    /\ opDownload[o] \in {"active", "placing"}
    /\ \/ /\ opDownload[o] = "placing"
          /\ opDownload' = [opDownload EXCEPT ![o] = "imported"]
          /\ UNCHANGED repOperation
       \/ /\ opDownload' = [opDownload EXCEPT ![o] = "failed_unclean"]
          /\ TransitionReplacementOperation(o, "replacing")
    /\ UNCHANGED <<observation, storagePinned, opFile, fileEpisodes, fileRow, oldBytes, quarantine,
                   newPlacement, repWorker, volumeOk, repFaults, repScan>>

DownloadCleaned(o) ==
    /\ opDownload[o] = "failed_unclean"
    /\ opDownload' = [opDownload EXCEPT ![o] = "failed"]
    /\ UNCHANGED <<observation, storagePinned, repOperation, opFile, fileEpisodes, fileRow, oldBytes, quarantine,
                   newPlacement, repWorker, volumeOk, repFaults, repScan>>

(* Surroundings *)

\* A viewer reports a new file, and the report is resolved.
ReportLibraryFile(e) ==
    /\ repFaults < MaxRepFaults
    /\ newPlacement[e] = "placed"
    /\ newPlacement' = [newPlacement EXCEPT ![e] = "flagged"]
    /\ repFaults' = repFaults + 1
    /\ UNCHANGED <<observation, storagePinned, repOperation, opFile, fileEpisodes, fileRow, oldBytes, quarantine,
                   opDownload, repWorker, volumeOk, repScan>>

ResolveMediaFileReviewFlag(e) ==
    /\ newPlacement[e] = "flagged"
    /\ newPlacement' = [newPlacement EXCEPT ![e] = "placed"]
    /\ UNCHANGED <<observation, storagePinned, repOperation, opFile, fileEpisodes, fileRow, oldBytes, quarantine,
                   opDownload, repWorker, volumeOk, repFaults, repScan>>

\* scanItem: the folders are walked, the rows listed, the files found are
\* linked by their names and the rows of the others deleted, statement by
\* statement and under no lock.  With another volume mounted the walk finds
\* other files.
ScanWalk ==
    /\ repScan.pc = "idle"
    /\ repFaults < MaxRepFaults
    /\ repScan' = [NoScan EXCEPT !.pc = "walked",
                      !.links = {f \in Old : volumeOk /\ oldBytes[f] # "absent"},
                      !.new = {e \in Episodes : volumeOk /\ newPlacement[e] \in {"placed", "flagged"}}]
    /\ repFaults' = repFaults + 1
    /\ UNCHANGED <<observation, storagePinned, repOperation, opFile, fileEpisodes, fileRow, oldBytes, quarantine,
                   newPlacement, opDownload, repWorker, volumeOk>>

ScanList ==
    /\ repScan.pc = "walked"
    /\ repScan' = [repScan EXCEPT !.pc = "listed", !.new = {},
                      !.links = {f \in @ : fileRow[f] /\ NamedEpisodes[f] # {}},
                      !.gone = {f \in Old : fileRow[f]} \ repScan.links,
                      !.goneNew = {e \in Episodes : newPlacement[e] # "none"} \ repScan.new]
    /\ UNCHANGED <<observation, storagePinned, repOperation, opFile, fileEpisodes, fileRow, oldBytes, quarantine,
                   newPlacement, opDownload, repWorker, volumeOk, repFaults>>

\* Exactly the known episodes of the name; the row keeps its generation.
ReplaceFileEpisodeLinks(f) == fileEpisodes' = [fileEpisodes EXCEPT ![f] = NamedEpisodes[f]]

\* A row that has gone since the listing is made anew, as another file.
ScanLinkFile(f) ==
    /\ repScan.pc = "listed" /\ f \in repScan.links
    /\ IF fileRow[f] /\ NamedEpisodes[f] # {} THEN ReplaceFileEpisodeLinks(f) ELSE UNCHANGED fileEpisodes
    /\ repScan' = [repScan EXCEPT !.links = @ \ {f}]
    /\ UNCHANGED <<observation, storagePinned, repOperation, opFile, fileRow, oldBytes, quarantine,
                   newPlacement, opDownload, repWorker, volumeOk, repFaults>>

ScanPruneFile(f) ==
    /\ repScan.links = {} /\ f \in repScan.gone
    /\ fileRow' = [fileRow EXCEPT ![f] = FALSE]
    /\ fileEpisodes' = [fileEpisodes EXCEPT ![f] = {}]
    /\ repScan' = [repScan EXCEPT !.gone = @ \ {f}]
    /\ UNCHANGED <<observation, storagePinned, repOperation, opFile, oldBytes, quarantine,
                   newPlacement, opDownload, repWorker, volumeOk, repFaults>>

\* The record of a new file goes too; the file itself may still be there.
ScanPrunePlacement(e) ==
    /\ repScan.links = {} /\ e \in repScan.goneNew
    /\ newPlacement' = [newPlacement EXCEPT ![e] = "none"]
    /\ repScan' = [repScan EXCEPT !.goneNew = @ \ {e}]
    /\ UNCHANGED <<observation, storagePinned, repOperation, opFile, fileEpisodes, fileRow, oldBytes, quarantine,
                   opDownload, repWorker, volumeOk, repFaults>>

\* It is through, or its first error ends it.
ScanEnds ==
    /\ repScan.pc # "idle"
    /\ repScan' = NoScan
    /\ UNCHANGED <<observation, storagePinned, repOperation, opFile, fileEpisodes, fileRow, oldBytes, quarantine,
                   newPlacement, opDownload, repWorker, volumeOk, repFaults>>

\* A restart; an outside edit under either name; a new file is lost; the
\* volume goes or comes back.
RepFault ==
    /\ repFaults < MaxRepFaults
    /\ \/ /\ repWorker' = WorkerIdle /\ repScan' = NoScan
          /\ repWorker # WorkerIdle \/ repScan # NoScan
          /\ UNCHANGED <<oldBytes, quarantine, newPlacement, volumeOk>>
       \/ /\ \E f \in Old : \E b \in {"altered", "absent"} \ {oldBytes[f]} : oldBytes' = [oldBytes EXCEPT ![f] = b]
          /\ UNCHANGED <<repWorker, repScan, quarantine, newPlacement, volumeOk>>
       \/ /\ \E f \in Old : quarantine[f] = "original" /\ quarantine' = [quarantine EXCEPT ![f] = "altered"]
          /\ UNCHANGED <<repWorker, repScan, oldBytes, newPlacement, volumeOk>>
       \/ /\ \E e \in Episodes : newPlacement[e] = "placed" /\ newPlacement' = [newPlacement EXCEPT ![e] = "lost"]
          /\ UNCHANGED <<repWorker, repScan, oldBytes, quarantine, volumeOk>>
       \/ volumeOk' = ~volumeOk /\ UNCHANGED <<repWorker, repScan, oldBytes, quarantine, newPlacement>>
    /\ repFaults' = repFaults + 1
    /\ UNCHANGED <<observation, storagePinned, repOperation, opFile, fileEpisodes, fileRow, opDownload>>

WorkerStep ==
    \/ \E f \in Old : \/ ProcessReplacementFileObservation(f) \/ LinkQuarantine(f)
                      \/ UnlinkOriginal(f) \/ UnlinkQuarantine(f)
    \/ \E o \in Ops : \/ ProcessReplacementOperation(o) \/ RemovalDone(o) \/ InspectReplacementCoverage(o)
                      \/ RemovalBlocked(o) \/ CheckReplacementDownloads(o) \/ SearchAndAdmitReplacement(o)
                      \/ ReplacementEpisodeGone(o)
    \/ \E o \in Ops, f \in Old : PreserveFile(o, f) \/ HashSource(o, f) \/ DeleteReplacementFileRecord(o, f)

ScanStep ==
    \/ ScanWalk \/ ScanList \/ ScanEnds
    \/ \E f \in Old : ScanLinkFile(f) \/ ScanPruneFile(f)
    \/ \E e \in Episodes : ScanPrunePlacement(e)

RepNext ==
    \/ \E f \in Old : StartReplacementFileObservation(f)
    \/ \E o \in Ops, intent \in {"replace_bad", "replace_quality"}, episodes \in SUBSET Episodes :
         \E scope \in {"episodes", "download"} : CreateReplacement(o, intent, scope, episodes)
    \/ WorkerStep
    \/ ScanStep
    \/ \E o \in Ops, e \in Episodes : CommitReplacementPlacement(o, e)
    \/ \E o \in Ops : DownloadEnds(o) \/ DownloadCleaned(o)
    \/ \E e \in Episodes : ReportLibraryFile(e) \/ ResolveMediaFileReviewFlag(e)
    \/ RepFault

RepSpec == RepInit /\ [][RepNext]_repVars

(* Properties *)

RepTypeOK ==
    /\ observation \in [Old -> [state : {"none", "pending", "ready", "absent", "stale"},
                                seen : {"none", "original", "altered", "absent"}, storage : BOOLEAN]]
    /\ storagePinned \in BOOLEAN /\ volumeOk \in BOOLEAN
    /\ repOperation \in [Ops -> [state : OpSettled \cup {"none", "accepted", "cleanup_blocked", "searching",
                                                        "waiting_for_release", "replacing"},
                                 intent : {"none", "replace_bad", "replace_quality"},
                                 scope : {"none", "episodes", "download"}, episodes : SUBSET Episodes]]
    /\ opFile \in [Ops -> [Old -> [disposition : {"none", "selected", "preserved"},
                                 removal : {"none", "protected", "pending", "removed"},
                                 seen : {"none", "original", "altered", "absent"}, episodes : SUBSET Episodes]]]
    /\ fileEpisodes \in [Old -> SUBSET Episodes]
    /\ fileRow \in [Old -> BOOLEAN]
    /\ oldBytes \in [Old -> {"original", "altered", "absent"}]
    /\ quarantine \in [Old -> {"none", "original", "altered"}]
    /\ newPlacement \in [Episodes -> {"none", "placed", "flagged", "lost"}]
    /\ opDownload \in [Ops -> {"none", "active", "placing", "failed_unclean", "failed", "imported"}]
    /\ repScan \in [pc : {"idle", "walked", "listed"}, links : SUBSET Old, new : SUBSET Episodes,
                    gone : SUBSET Old, goneNew : SUBSET Episodes]
    /\ repFaults \in 0..MaxRepFaults

\* The bytes of a file are under no name any more.
Destroyed(f) == quarantine[f] # "none" /\ quarantine'[f] = "none"

\* A usable file goes only when, at that moment, a verified placement of the
\* same operation holds every selected episode: whatever was covered when the
\* operation was listed or hashed, before or after a restart.
UsableKeptUntilReplaced ==
    [][\A f \in Old, o \in Ops :
          Destroyed(f) /\ o \in repWorker.op /\ repOperation[o].intent = "replace_quality" =>
             \A e \in repOperation[o].episodes : newPlacement[e] = "placed"]_repVars

\* No operation destroys bytes that nobody reviewed, or a file in which its
\* review saw a good episode, one it was not asked to replace.  What the last
\* check does not see is an episode that a scan has linked since, read from the
\* file's name: such a link does not save the file, and no other kind exists.
OnlyReviewedBytesGo ==
    [][\A f \in Old, o \in Ops : Destroyed(f) /\ o \in repWorker.op =>
          /\ quarantine[f] = opFile[o][f].seen
          /\ opFile[o][f].episodes \subseteq repOperation[o].episodes
          /\ fileEpisodes[f] \subseteq repOperation[o].episodes \cup NamedEpisodes[f]]_repVars

=============================================================================
