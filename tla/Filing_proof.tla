----------------------------- MODULE Filing_proof -----------------------------
(***************************************************************************)
(* Proofs about what an import files into: the replacement of reviewed     *)
(* media, the items of the library with their identity index, and the      *)
(* records of an item's files.                                             *)
(***************************************************************************)
EXTENDS Replacement, Library, LibraryFiles, TLAPS

----------------------------------------------------------------------------
(* Replacement: what the worker may destroy.                               *)

RepPcs == {"idle", "remove", "coverage", "downloads", "episodes", "hashed", "recover", "missing",
           "linked", "verify", "unlinked"}
RemovalPcs == {"remove", "hashed", "recover", "missing", "linked", "verify", "unlinked"}

Seen == {"none", "original", "altered", "absent"}
Observations == [state : {"none", "pending", "ready", "absent", "stale"}, seen : Seen, storage : BOOLEAN]
OpenStates == {"accepted", "cleanup_blocked", "searching", "waiting_for_release", "replacing"}
RepOperations == [state : OpSettled \cup {"none"} \cup OpenStates,
                  intent : {"none", "replace_bad", "replace_quality"}, scope : {"none", "episodes", "download"},
                  episodes : SUBSET Episodes]
RepParts == [disposition : {"none", "selected", "preserved"},
             removal : {"none", "protected", "pending", "removed"}, seen : Seen, episodes : SUBSET Episodes]
RepWorkers == [pc : RepPcs, op : SUBSET Ops, todo : SUBSET Old, file : SUBSET Old, proof : SUBSET Episodes]
Downloads == {"none", "active", "placing", "failed_unclean", "failed", "imported"}
RepScans == [pc : {"idle", "walked", "listed"}, links : SUBSET Old, new : SUBSET Episodes,
             gone : SUBSET Old, goneNew : SUBSET Episodes]

RepTyped ==
    /\ observation \in [Old -> Observations]
    /\ storagePinned \in BOOLEAN /\ volumeOk \in BOOLEAN
    /\ repOperation \in [Ops -> RepOperations]
    /\ opFile \in [Ops -> [Old -> RepParts]]
    /\ fileEpisodes \in [Old -> SUBSET Episodes]
    /\ fileRow \in [Old -> BOOLEAN]
    /\ oldBytes \in [Old -> {"original", "altered", "absent"}]
    /\ quarantine \in [Old -> {"none", "original", "altered"}]
    /\ newPlacement \in [Episodes -> {"none", "placed", "flagged", "lost"}]
    /\ opDownload \in [Ops -> Downloads]
    /\ repFaults \in 0..MaxRepFaults
    /\ repWorker \in RepWorkers
    /\ repScan \in RepScans

\* The worker holds one accepted operation, only handles files its review
\* selected, with bytes under their name when it hashed them, and removes media
\* of poor quality against the proof of its coverage.
WorkerKnows ==
    /\ \A o, p \in repWorker.op : o = p
    /\ \A o \in repWorker.op : repOperation[o].state # "none"
    /\ \A o \in repWorker.op, f \in repWorker.file : opFile[o][f].disposition = "selected"
    /\ repWorker.pc \in RemovalPcs => repWorker.op # {}
    /\ repWorker.pc = "hashed" => \A o \in repWorker.op, f \in repWorker.file : opFile[o][f].seen # "absent"
    /\ \A o \in repWorker.op : repWorker.pc \in RemovalPcs =>
          \/ repOperation[o].intent # "replace_quality"
          \/ repWorker.proof = repOperation[o].episodes

\* A review selects files that hold nothing outside its scope; what a reviewed
\* file is linked to is what the review saw or what the file's name says.
SelectedInScope ==
    \A o \in Ops, f \in Old :
        /\ opFile[o][f].disposition = "selected" => opFile[o][f].episodes \subseteq repOperation[o].episodes
        /\ opFile[o][f].disposition # "none" => fileEpisodes[f] \subseteq opFile[o][f].episodes \cup NamedEpisodes[f]

RepInv == RepTyped /\ WorkerKnows /\ SelectedInScope

LEMMA RepTypedIsTypeOK == RepTyped => RepTypeOK
BY DEF RepTyped, RepTypeOK, Observations, RepOperations, OpenStates, RepParts, Seen, Downloads, RepScans

LEMMA RepInitInv == RepInit => RepInv
<1>. SUFFICES ASSUME RepInit PROVE RepInv
  OBVIOUS
<1>0. /\ storagePinned = FALSE /\ volumeOk = TRUE /\ fileEpisodes = EpisodesOf /\ repFaults = 0
  BY DEF RepInit
<1>10. storagePinned \in BOOLEAN /\ volumeOk \in BOOLEAN
  BY <1>0
<1>5. fileEpisodes \in [Old -> SUBSET Episodes] /\ repFaults \in 0..MaxRepFaults
  BY <1>0, ReplacementAssumption DEF ReplacementAssumption
<1>. USE DEF RepInit
<1>1. observation \in [Old -> Observations]
  BY DEF Observations, Seen
<1>2. repOperation \in [Ops -> RepOperations]
  BY DEF RepOperations, OpenStates
<1>3. opFile \in [Ops -> [Old -> RepParts]]
  BY DEF RepParts, NoPart, Seen
<1>4. repWorker \in RepWorkers
  BY DEF RepWorkers, WorkerIdle, RepPcs
<1>6. /\ fileRow \in [Old -> BOOLEAN]
      /\ oldBytes \in [Old -> {"original", "altered", "absent"}]
      /\ quarantine \in [Old -> {"none", "original", "altered"}]
  OBVIOUS
<1>7. /\ newPlacement \in [Episodes -> {"none", "placed", "flagged", "lost"}]
      /\ opDownload \in [Ops -> Downloads] /\ repScan \in RepScans
  BY DEF Downloads, RepScans, NoScan
<1>8. RepTyped
  BY <1>1, <1>2, <1>3, <1>4, <1>5, <1>6, <1>7, <1>10 DEF RepTyped
<1>9. WorkerKnows /\ SelectedInScope
  BY DEF WorkerKnows, SelectedInScope, WorkerIdle, NoPart, RemovalPcs
<1>. QED
  BY <1>8, <1>9 DEF RepInv

\* A transition moves the state of one operation, never to "none".
LEMMA TransitionKeeps ==
    ASSUME repOperation \in [Ops -> RepOperations], NEW o \in Ops,
           NEW state \in OpenStates \cup {"complete", "failed"},
           TransitionReplacementOperation(o, state) \/ UNCHANGED repOperation
    PROVE  /\ repOperation' \in [Ops -> RepOperations]
           /\ \A p \in Ops : /\ repOperation'[p].intent = repOperation[p].intent
                             /\ repOperation'[p].episodes = repOperation[p].episodes
                             /\ repOperation[p].state # "none" => repOperation'[p].state # "none"
<1>. DEFINE moved == [repOperation[o] EXCEPT !.state = state]
<1>1. moved \in RepOperations /\ moved.intent = repOperation[o].intent /\ moved.episodes = repOperation[o].episodes
      /\ moved.state # "none"
  BY DEF RepOperations, OpenStates, OpSettled
<1>2. repOperation' = repOperation \/ repOperation' = [repOperation EXCEPT ![o] = moved]
  BY DEF TransitionReplacementOperation
<1>. HIDE DEF moved
<1>. QED
  BY <1>1, <1>2

\* What keeps the invariant of the operations: the review stays, files lose
\* episodes or come to hold those of their names, and the worker goes on or
\* stops.
LEMMA RepFrame ==
    ASSUME RepInv, RepTyped', opFile' = opFile,
           \A p \in Ops : /\ repOperation'[p].intent = repOperation[p].intent
                          /\ repOperation'[p].episodes = repOperation[p].episodes
                          /\ repOperation[p].state # "none" => repOperation'[p].state # "none",
           \A f \in Old : fileEpisodes'[f] \subseteq fileEpisodes[f] \cup NamedEpisodes[f],
           \/ repWorker' = repWorker
           \/ repWorker' = WorkerIdle
    PROVE  RepInv'
<1>1. WorkerKnows'
  <2>1. CASE repWorker' = repWorker
    <3>1. WorkerKnows /\ repWorker.op \in SUBSET Ops
      BY DEF RepInv, RepTyped, RepWorkers
    <3>2. \A o \in repWorker.op : /\ repOperation'[o].intent = repOperation[o].intent
                                  /\ repOperation'[o].episodes = repOperation[o].episodes
                                  /\ repOperation[o].state # "none" => repOperation'[o].state # "none"
      BY <3>1
    <3>3. /\ \A o, p \in repWorker.op : o = p
          /\ \A o \in repWorker.op : repOperation'[o].state # "none"
          /\ \A o \in repWorker.op, f \in repWorker.file : opFile[o][f].disposition = "selected"
          /\ repWorker.pc \in RemovalPcs => repWorker.op # {}
          /\ repWorker.pc = "hashed" => \A o \in repWorker.op, f \in repWorker.file : opFile[o][f].seen # "absent"
      BY <3>1, <3>2 DEF WorkerKnows
    <3>4. \A o \in repWorker.op : repWorker.pc \in RemovalPcs =>
            \/ repOperation'[o].intent # "replace_quality"
            \/ repWorker.proof = repOperation'[o].episodes
      BY <3>1, <3>2 DEF WorkerKnows
    <3>. QED
      BY <2>1, <3>3, <3>4 DEF WorkerKnows
  <2>2. CASE repWorker' = WorkerIdle
    BY <2>2 DEF WorkerKnows, WorkerIdle, RemovalPcs
  <2>. QED
    BY <2>1, <2>2
<1>2. SelectedInScope'
  BY DEF RepInv, SelectedInScope, RepTyped
<1>. QED
  BY <1>1, <1>2 DEF RepInv

LEMMA ObservationTyped ==
    ASSUME RepTyped, NEW f \in Old
    PROVE  ObservationResult(f) \in Observations
<1>. DEFINE seen == observation[f]
<1>0. seen \in Observations
  BY DEF RepTyped
<1>1. ASSUME NEW state \in {"ready", "absent", "stale"}, NEW bytes \in Seen
      PROVE  [observation[f] EXCEPT !.state = state, !.seen = bytes] \in Observations
  <2>. HIDE DEF seen
  <2>1. [seen EXCEPT !.state = state] \in Observations
    BY <1>0 DEF Observations
  <2>2. \A half \in Observations : [half EXCEPT !.seen = bytes] \in Observations
    BY DEF Observations
  <2>3. [seen EXCEPT !.state = state, !.seen = bytes] = [[seen EXCEPT !.state = state] EXCEPT !.seen = bytes]
    OBVIOUS
  <2>. QED
    BY <2>1, <2>2, <2>3 DEF seen
<1>2. [observation[f] EXCEPT !.state = "stale"] \in Observations
  BY <1>0 DEF Observations
<1>3. oldBytes[f] \in Seen /\ "absent" \in Seen
  BY DEF RepTyped, Seen
<1>. QED
  BY <1>1, <1>2, <1>3 DEF ObservationResult

\* Requests, placements, downloads and the surroundings.
LEMMA RepOutsideStep ==
    ASSUME RepInv,
           \/ \E f \in Old : StartReplacementFileObservation(f) \/ ProcessReplacementFileObservation(f)
           \/ \E o \in Ops, e \in Episodes : CommitReplacementPlacement(o, e)
           \/ \E o \in Ops : DownloadEnds(o) \/ DownloadCleaned(o) \/ ReplacementEpisodeGone(o)
           \/ \E e \in Episodes : ReportLibraryFile(e) \/ ResolveMediaFileReviewFlag(e)
           \/ RepFault
    PROVE  RepInv'
<1>. USE DEF RepInv
<1>1. ASSUME NEW f \in Old, StartReplacementFileObservation(f) \/ ProcessReplacementFileObservation(f)
      PROVE  RepInv'
  <2>1. observation' \in [Old -> Observations] /\ storagePinned' \in BOOLEAN
    <3>1. [state |-> "pending", seen |-> "none", storage |-> volumeOk] \in Observations
      BY DEF RepTyped, Observations, Seen
    <3>2. (storagePinned \/ ObservationResult(f).state = "ready") \in BOOLEAN
      OBVIOUS
    <3>. QED
      BY <1>1, <3>1, <3>2, ObservationTyped DEF RepTyped, StartReplacementFileObservation, ProcessReplacementFileObservation
  <2>2. UNCHANGED <<repOperation, opFile, fileEpisodes, fileRow, oldBytes, quarantine, newPlacement,
                    opDownload, repWorker, repScan, volumeOk, repFaults>>
    BY <1>1 DEF StartReplacementFileObservation, ProcessReplacementFileObservation
  <2>3. RepTyped'
    BY <2>1, <2>2 DEF RepTyped
  <2>. QED
    BY <2>2, <2>3, RepFrame
<1>2. ASSUME NEW o \in Ops, NEW e \in Episodes, CommitReplacementPlacement(o, e)
      PROVE  RepInv'
  <2>1. RepTyped'
    BY <1>2 DEF RepTyped, CommitReplacementPlacement, Downloads
  <2>. QED
    BY <1>2, <2>1, RepFrame DEF CommitReplacementPlacement
<1>3. ASSUME NEW o \in Ops, DownloadEnds(o) \/ DownloadCleaned(o)
      PROVE  RepInv'
  <2>1. /\ opDownload' \in [Ops -> Downloads]
        /\ UNCHANGED <<observation, storagePinned, opFile, fileEpisodes, fileRow, oldBytes, quarantine,
                       newPlacement, repWorker, repScan, volumeOk, repFaults>>
        /\ TransitionReplacementOperation(o, "replacing") \/ UNCHANGED repOperation
    BY <1>3 DEF RepTyped, DownloadEnds, DownloadCleaned, Downloads
  <2>2. /\ repOperation' \in [Ops -> RepOperations]
        /\ \A p \in Ops : /\ repOperation'[p].intent = repOperation[p].intent
                          /\ repOperation'[p].episodes = repOperation[p].episodes
                          /\ repOperation[p].state # "none" => repOperation'[p].state # "none"
    BY <2>1, TransitionKeeps DEF RepTyped, OpenStates
  <2>3. RepTyped'
    BY <2>1, <2>2 DEF RepTyped
  <2>. QED
    BY <2>1, <2>2, <2>3, RepFrame
<1>4. ASSUME NEW e \in Episodes, ReportLibraryFile(e) \/ ResolveMediaFileReviewFlag(e)
      PROVE  RepInv'
  <2>1. UNCHANGED <<observation, storagePinned, repOperation, opFile, fileEpisodes, fileRow, oldBytes,
                    quarantine, opDownload, repWorker, repScan, volumeOk>>
    BY <1>4 DEF ReportLibraryFile, ResolveMediaFileReviewFlag
  <2>3. newPlacement' \in [Episodes -> {"none", "placed", "flagged", "lost"}]
    BY <1>4 DEF RepTyped, ReportLibraryFile, ResolveMediaFileReviewFlag
  <2>4. repFaults' \in 0..MaxRepFaults
    <3>1. repFaults' = repFaults \/ (repFaults < MaxRepFaults /\ repFaults' = repFaults + 1)
      BY <1>4 DEF ReportLibraryFile, ResolveMediaFileReviewFlag
    <3>. QED
      BY <3>1, ReplacementAssumption DEF ReplacementAssumption, RepTyped
  <2>2. RepTyped'
    BY <2>1, <2>3, <2>4 DEF RepTyped
  <2>. QED
    BY <2>1, <2>2, RepFrame
<1>5. ASSUME RepFault
      PROVE  RepInv'
  <2>1. /\ UNCHANGED <<observation, storagePinned, repOperation, opFile, fileEpisodes, fileRow, opDownload>>
        /\ repFaults' \in 0..MaxRepFaults
        /\ repWorker' = repWorker \/ repWorker' = WorkerIdle
        /\ repScan' = repScan \/ repScan' = NoScan
    BY <1>5, ReplacementAssumption DEF ReplacementAssumption, RepTyped, RepFault
  <2>2. WorkerIdle \in RepWorkers /\ NoScan \in RepScans
    BY DEF RepWorkers, WorkerIdle, RepPcs, RepScans, NoScan
  <2>3. /\ oldBytes' \in [Old -> {"original", "altered", "absent"}]
        /\ quarantine' \in [Old -> {"none", "original", "altered"}]
    BY <1>5 DEF RepTyped, RepFault
  <2>4. newPlacement' \in [Episodes -> {"none", "placed", "flagged", "lost"}]
    BY <1>5 DEF RepTyped, RepFault
  <2>6. volumeOk' \in BOOLEAN
    <3>1. (~volumeOk) \in BOOLEAN
      OBVIOUS
    <3>2. volumeOk' = volumeOk \/ volumeOk' = ~volumeOk
      BY <1>5 DEF RepFault
    <3>. QED
      BY <3>1, <3>2 DEF RepTyped
  <2>5. RepTyped'
    BY <2>1, <2>2, <2>3, <2>4, <2>6 DEF RepTyped
  <2>. QED
    BY <2>1, <2>5, RepFrame
<1>6. ASSUME NEW o \in Ops, ReplacementEpisodeGone(o)
      PROVE  RepInv'
  <2>1. /\ UNCHANGED <<observation, storagePinned, opFile, fileEpisodes, fileRow, oldBytes, quarantine,
                       newPlacement, opDownload, repScan, volumeOk>>
        /\ TransitionReplacementOperation(o, "failed")
        /\ repWorker' = WorkerIdle
    BY <1>6 DEF ReplacementEpisodeGone
  <2>2. repFaults' \in 0..MaxRepFaults
    BY <1>6, ReplacementAssumption DEF ReplacementAssumption, ReplacementEpisodeGone, RepTyped
  <2>3. WorkerIdle \in RepWorkers
    BY DEF RepWorkers, WorkerIdle, RepPcs
  <2>4. /\ repOperation' \in [Ops -> RepOperations]
        /\ \A p \in Ops : /\ repOperation'[p].intent = repOperation[p].intent
                          /\ repOperation'[p].episodes = repOperation[p].episodes
                          /\ repOperation[p].state # "none" => repOperation'[p].state # "none"
    BY <2>1, TransitionKeeps DEF RepTyped
  <2>5. RepTyped'
    BY <2>1, <2>2, <2>3, <2>4 DEF RepTyped
  <2>. QED
    BY <2>1, <2>4, <2>5, RepFrame
<1>. QED
  BY <1>1, <1>2, <1>3, <1>4, <1>5, <1>6

\* A scan leaves the operations and the worker alone; it links a file to the
\* episodes of its name, and deletes rows.
LEMMA RepScanStep == RepInv /\ ScanStep => RepInv'
<1>. SUFFICES ASSUME RepInv, ScanStep PROVE RepInv'
  OBVIOUS
<1>. USE DEF RepInv
<1>1. UNCHANGED <<observation, storagePinned, repOperation, opFile, oldBytes, quarantine, opDownload, repWorker, volumeOk>>
  BY DEF ScanStep, ScanWalk, ScanList, ScanEnds, ScanLinkFile, ScanPruneFile, ScanPrunePlacement
<1>2. repScan' \in RepScans
  <2>1. repScan \in RepScans
    BY DEF RepTyped
  <2>2. ASSUME ScanWalk PROVE repScan' \in RepScans
    <3>. DEFINE found == {f \in Old : volumeOk /\ oldBytes[f] # "absent"}
                placed == {e \in Episodes : volumeOk /\ newPlacement[e] \in {"placed", "flagged"}}
    <3>1. repScan' = [NoScan EXCEPT !.pc = "walked", !.links = found, !.new = placed]
      BY <2>2 DEF ScanWalk
    <3>2. found \in SUBSET Old /\ placed \in SUBSET Episodes
      OBVIOUS
    <3>. HIDE DEF found, placed
    <3>3. repScan' = [pc |-> "walked", links |-> found, new |-> placed, gone |-> {}, goneNew |-> {}]
      BY <3>1 DEF NoScan
    <3>. QED
      BY <3>2, <3>3 DEF RepScans
  <2>3. ASSUME ScanList PROVE repScan' \in RepScans
    <3>. DEFINE links == {f \in repScan.links : fileRow[f] /\ NamedEpisodes[f] # {}}
                gone == {f \in Old : fileRow[f]} \ repScan.links
                goneNew == {e \in Episodes : newPlacement[e] # "none"} \ repScan.new
    <3>1. repScan' = [repScan EXCEPT !.pc = "listed", !.new = {}, !.links = links, !.gone = gone, !.goneNew = goneNew]
      BY <2>3 DEF ScanList
    <3>2. links \in SUBSET Old /\ gone \in SUBSET Old /\ goneNew \in SUBSET Episodes
      BY <2>1 DEF RepScans
    <3>. HIDE DEF links, gone, goneNew
    <3>3. repScan' = [pc |-> "listed", links |-> links, new |-> {}, gone |-> gone, goneNew |-> goneNew]
      BY <2>1, <3>1 DEF RepScans
    <3>. QED
      BY <3>2, <3>3 DEF RepScans
  <2>4. ASSUME NEW f \in Old, ScanLinkFile(f) \/ ScanPruneFile(f) PROVE repScan' \in RepScans
    BY <2>1, <2>4 DEF RepScans, ScanLinkFile, ScanPruneFile
  <2>5. ASSUME NEW e \in Episodes, ScanPrunePlacement(e) PROVE repScan' \in RepScans
    BY <2>1, <2>5 DEF RepScans, ScanPrunePlacement
  <2>6. ASSUME ScanEnds PROVE repScan' \in RepScans
    BY <2>6 DEF RepScans, ScanEnds, NoScan
  <2>. QED
    BY <2>2, <2>3, <2>4, <2>5, <2>6 DEF ScanStep
<1>3. /\ fileEpisodes' \in [Old -> SUBSET Episodes]
      /\ \A f \in Old : fileEpisodes'[f] \subseteq fileEpisodes[f] \cup NamedEpisodes[f]
  <2>1. \/ fileEpisodes' = fileEpisodes
        \/ \E f \in Old : ReplaceFileEpisodeLinks(f) \/ fileEpisodes' = [fileEpisodes EXCEPT ![f] = {}]
    BY DEF ScanStep, ScanWalk, ScanList, ScanEnds, ScanLinkFile, ScanPruneFile, ScanPrunePlacement
  <2>2. NamedEpisodes \in [Old -> SUBSET Episodes]
    BY ReplacementAssumption DEF ReplacementAssumption
  <2>3. fileEpisodes \in [Old -> SUBSET Episodes]
    BY DEF RepTyped
  <2>4. CASE fileEpisodes' = fileEpisodes
    BY <2>3, <2>4
  <2>5. ASSUME NEW f \in Old, NEW links \in SUBSET Episodes, links \subseteq NamedEpisodes[f],
               fileEpisodes' = [fileEpisodes EXCEPT ![f] = links]
        PROVE  /\ fileEpisodes' \in [Old -> SUBSET Episodes]
               /\ \A g \in Old : fileEpisodes'[g] \subseteq fileEpisodes[g] \cup NamedEpisodes[g]
    <3>1. \A g \in Old : fileEpisodes'[g] = IF g = f THEN links ELSE fileEpisodes[g]
      BY <2>3, <2>5
    <3>2. fileEpisodes' \in [Old -> SUBSET Episodes]
      BY <2>3, <2>5
    <3>. QED
      BY <2>5, <3>1, <3>2
  <2>6. ASSUME NEW f \in Old, ReplaceFileEpisodeLinks(f) \/ fileEpisodes' = [fileEpisodes EXCEPT ![f] = {}]
        PROVE  /\ fileEpisodes' \in [Old -> SUBSET Episodes]
               /\ \A g \in Old : fileEpisodes'[g] \subseteq fileEpisodes[g] \cup NamedEpisodes[g]
    <3>1. NamedEpisodes[f] \in SUBSET Episodes /\ {} \in SUBSET Episodes
      BY <2>2
    <3>2. CASE ReplaceFileEpisodeLinks(f)
      BY <2>5, <3>1, <3>2 DEF ReplaceFileEpisodeLinks
    <3>3. CASE fileEpisodes' = [fileEpisodes EXCEPT ![f] = {}]
      BY <2>5, <3>1, <3>3
    <3>. QED
      BY <2>6, <3>2, <3>3
  <2>. QED
    BY <2>1, <2>4, <2>6
<1>4. /\ fileRow' \in [Old -> BOOLEAN]
      /\ newPlacement' \in [Episodes -> {"none", "placed", "flagged", "lost"}]
  BY DEF RepTyped, ScanStep, ScanWalk, ScanList, ScanEnds, ScanLinkFile, ScanPruneFile, ScanPrunePlacement
<1>5. repFaults' \in 0..MaxRepFaults
  <2>1. repFaults' = repFaults \/ (repFaults < MaxRepFaults /\ repFaults' = repFaults + 1)
    BY DEF ScanStep, ScanWalk, ScanList, ScanEnds, ScanLinkFile, ScanPruneFile, ScanPrunePlacement
  <2>. QED
    BY <2>1, ReplacementAssumption DEF ReplacementAssumption, RepTyped
<1>6. RepTyped'
  BY <1>1, <1>2, <1>3, <1>4, <1>5 DEF RepTyped
<1>. QED
  BY <1>1, <1>3, <1>6, RepFrame

\* The worker's steps leave the requests and the surroundings alone.
RepOutside == <<observation, storagePinned, newPlacement, repScan, volumeOk, repFaults>>

\* Choosing what to do with an operation: to remove, to look for coverage,
\* to look at the downloads, or to stop.
LEMMA RepChooseStep ==
    ASSUME RepInv, NEW o \in Ops,
           \/ ProcessReplacementOperation(o) \/ RemovalDone(o) \/ InspectReplacementCoverage(o)
           \/ RemovalBlocked(o) \/ CheckReplacementDownloads(o) \/ SearchAndAdmitReplacement(o)
    PROVE  RepInv'
<1>. USE DEF RepInv
<1>1. /\ UNCHANGED <<opFile, fileEpisodes, fileRow, oldBytes, quarantine>> /\ UNCHANGED RepOutside
      /\ opDownload' \in [Ops -> Downloads]
  BY DEF RepTyped, RepOutside, ProcessReplacementOperation, RemovalDone, InspectReplacementCoverage, RemovalBlocked,
     CheckReplacementDownloads, SearchAndAdmitReplacement, AdmitReplacement, Downloads
<1>2. \E state \in OpenStates \cup {"complete"} :
        TransitionReplacementOperation(o, state) \/ UNCHANGED repOperation
  BY DEF OpenStates, ProcessReplacementOperation, RemovalDone, InspectReplacementCoverage, RemovalBlocked,
     CheckReplacementDownloads, SearchAndAdmitReplacement, AdmitReplacement
<1>3. /\ repOperation' \in [Ops -> RepOperations]
      /\ \A p \in Ops : /\ repOperation'[p].intent = repOperation[p].intent
                        /\ repOperation'[p].episodes = repOperation[p].episodes
                        /\ repOperation[p].state # "none" => repOperation'[p].state # "none"
  BY <1>2, TransitionKeeps DEF RepTyped
<1>4. Parts(o) \in SUBSET Old /\ repOperation[o].episodes \in SUBSET Episodes
  BY DEF Parts, RepTyped, RepOperations
<1>. DEFINE
       Removes == /\ ProcessReplacementOperation(o) /\ repOperation[o].intent = "replace_bad"
                  /\ repWorker' = [WorkerIdle EXCEPT !.pc = "remove", !.op = {o}, !.todo = Parts(o)]
       Looks   == /\ ProcessReplacementOperation(o)
                  /\ repWorker' = [WorkerIdle EXCEPT !.pc = "coverage", !.op = {o}]
       GoesOn  == \E pc \in {"coverage", "downloads", "episodes"} : repWorker' = [repWorker EXCEPT !.pc = pc]
       Proved  == /\ o \in repWorker.op
                  /\ repWorker' = [repWorker EXCEPT !.pc = "remove", !.todo = Parts(o), !.proof = repOperation[o].episodes]
<1>5. Removes \/ Looks \/ GoesOn \/ Proved \/ repWorker' = WorkerIdle
  BY Zenon DEF ProcessReplacementOperation, RemovalDone, InspectReplacementCoverage, RemovalBlocked,
     CheckReplacementDownloads, SearchAndAdmitReplacement
<1>6. repWorker' \in RepWorkers
  <2>1. CASE Removes \/ Looks \/ repWorker' = WorkerIdle
    <3>1. \A pc \in RepPcs, todo \in SUBSET Old :
            [WorkerIdle EXCEPT !.pc = pc, !.op = {o}, !.todo = todo] \in RepWorkers
      BY DEF RepWorkers, WorkerIdle
    <3>2. [WorkerIdle EXCEPT !.pc = "coverage", !.op = {o}] \in RepWorkers /\ WorkerIdle \in RepWorkers
      BY DEF RepWorkers, WorkerIdle, RepPcs
    <3>3. "remove" \in RepPcs
      BY DEF RepPcs
    <3>. QED
      BY <1>4, <2>1, <3>1, <3>2, <3>3
  <2>2. CASE GoesOn
    BY <2>2 DEF RepTyped, RepWorkers, RepPcs
  <2>3. CASE Proved
    <3>1. \A w \in RepWorkers : [w EXCEPT !.pc = "remove"] \in RepWorkers
      BY DEF RepWorkers, RepPcs
    <3>2. \A w \in RepWorkers : [w EXCEPT !.todo = Parts(o)] \in RepWorkers
      BY <1>4 DEF RepWorkers
    <3>3. \A w \in RepWorkers : [w EXCEPT !.proof = repOperation[o].episodes] \in RepWorkers
      BY <1>4 DEF RepWorkers
    <3>4. repWorker \in RepWorkers
      BY DEF RepTyped
    <3>5. [repWorker EXCEPT !.pc = "remove", !.todo = Parts(o)] = [[repWorker EXCEPT !.pc = "remove"] EXCEPT !.todo = Parts(o)]
      OBVIOUS
    <3>6. [repWorker EXCEPT !.pc = "remove", !.todo = Parts(o), !.proof = repOperation[o].episodes]
          = [[repWorker EXCEPT !.pc = "remove", !.todo = Parts(o)] EXCEPT !.proof = repOperation[o].episodes]
      OBVIOUS
    <3>7. [repWorker EXCEPT !.pc = "remove", !.todo = Parts(o)] \in RepWorkers
      BY <3>1, <3>2, <3>4, <3>5
    <3>. QED
      BY <2>3, <3>3, <3>6, <3>7
  <2>. QED
    BY <1>5, <2>1, <2>2, <2>3
<1>7. RepTyped'
  BY <1>1, <1>3, <1>6 DEF RepTyped, RepOutside
<1>8. SelectedInScope'
  BY <1>1, <1>3 DEF SelectedInScope
<1>9. WorkerKnows'
  <2>1. CASE repWorker' = WorkerIdle
    BY <1>7, <2>1, <1>3, <1>1, RepFrame
  <2>2. CASE Removes \/ Looks
    <3>1. repOperation[o].state # "none" /\ repWorker'.op = {o} /\ repWorker'.file = {}
          /\ repWorker'.pc # "hashed" /\ (repWorker'.pc \in RemovalPcs => repOperation[o].intent = "replace_bad")
      BY <2>2 DEF ProcessReplacementOperation, OpenOperations, WorkerIdle, RemovalPcs
    <3>. QED
      BY <3>1, <1>3 DEF WorkerKnows
  <2>3. CASE GoesOn
    <3>1. repWorker'.op = repWorker.op /\ repWorker'.file = repWorker.file /\ repWorker'.pc \notin RemovalPcs
          /\ repWorker'.pc # "hashed"
      BY <2>3 DEF RepTyped, RepWorkers, RemovalPcs
    <3>. QED
      BY <3>1, <1>1, <1>3 DEF WorkerKnows, RepTyped, RepWorkers
  <2>4. CASE Proved
    <3>1. repWorker'.op = repWorker.op /\ repWorker'.file = repWorker.file /\ repWorker'.pc # "hashed"
          /\ repWorker'.proof = repOperation[o].episodes /\ o \in repWorker.op
      BY <2>4 DEF RepTyped, RepWorkers
    <3>. QED
      BY <3>1, <1>1, <1>3 DEF WorkerKnows, RepTyped, RepWorkers
  <2>. QED
    BY <1>5, <2>1, <2>2, <2>3, <2>4
<1>. QED
  BY <1>7, <1>8, <1>9

\* One part of the operation's snapshot is written.
LEMMA PartWritten ==
    ASSUME opFile \in [Ops -> [Old -> RepParts]], NEW o \in Ops, NEW f \in Old,
           NEW state \in {"pending", "removed"}, SetRemovalState(o, f, state)
    PROVE  /\ opFile' \in [Ops -> [Old -> RepParts]]
           /\ \A p \in Ops, g \in Old : /\ opFile'[p][g].disposition = opFile[p][g].disposition
                                       /\ opFile'[p][g].seen = opFile[p][g].seen
                                       /\ opFile'[p][g].episodes = opFile[p][g].episodes
<1>. DEFINE part == [opFile[o][f] EXCEPT !.removal = state]
            parts == [opFile[o] EXCEPT ![f] = part]
<1>0. opFile[o][f] \in RepParts
  OBVIOUS
<1>1. /\ part \in RepParts /\ part.disposition = opFile[o][f].disposition
      /\ part.seen = opFile[o][f].seen /\ part.episodes = opFile[o][f].episodes
  BY <1>0 DEF RepParts
<1>2. opFile' = [opFile EXCEPT ![o] = parts]
  BY DEF SetRemovalState
<1>. HIDE DEF part
<1>3. parts \in [Old -> RepParts] /\ \A g \in Old : parts[g] = IF g = f THEN part ELSE opFile[o][g]
  BY <1>1
<1>. HIDE DEF parts
<1>4. opFile' \in [Ops -> [Old -> RepParts]] /\ \A p \in Ops : opFile'[p] = IF p = o THEN parts ELSE opFile[p]
  BY <1>2, <1>3
<1>. QED
  BY <1>1, <1>3, <1>4

\* Retiring a file: the steps between the review's snapshot and the record.
LEMMA RepRetireStep ==
    ASSUME RepInv, NEW o \in Ops, NEW f \in Old,
           \/ LinkQuarantine(f) \/ UnlinkOriginal(f) \/ UnlinkQuarantine(f)
           \/ PreserveFile(o, f) \/ HashSource(o, f) \/ DeleteReplacementFileRecord(o, f)
    PROVE  RepInv'
<1>. USE DEF RepInv
<1>1. UNCHANGED <<repOperation, opDownload>> /\ UNCHANGED RepOutside
  BY DEF RepOutside, LinkQuarantine, UnlinkOriginal, UnlinkQuarantine, PreserveFile, HashSource, DeleteReplacementFileRecord
<1>2. opFile' = opFile \/ SetRemovalState(o, f, "pending") \/ SetRemovalState(o, f, "removed")
  BY DEF LinkQuarantine, UnlinkOriginal, UnlinkQuarantine, PreserveFile, HashSource, DeleteReplacementFileRecord
<1>3. /\ opFile' \in [Ops -> [Old -> RepParts]]
      /\ \A p \in Ops, g \in Old : /\ opFile'[p][g].disposition = opFile[p][g].disposition
                                  /\ opFile'[p][g].seen = opFile[p][g].seen
                                  /\ opFile'[p][g].episodes = opFile[p][g].episodes
  BY <1>2, PartWritten DEF RepTyped
<1>4. fileEpisodes' \in [Old -> SUBSET Episodes] /\ \A g \in Old : fileEpisodes'[g] \subseteq fileEpisodes[g]
  <2>. DEFINE selected == opFile[o][f].episodes \cap repOperation[o].episodes
  <2>2. \/ fileEpisodes' = fileEpisodes
        \/ fileEpisodes' = [fileEpisodes EXCEPT ![f] = @ \ selected]
        \/ fileEpisodes' = [fileEpisodes EXCEPT ![f] = {}]
    BY DEF LinkQuarantine, UnlinkOriginal, UnlinkQuarantine, PreserveFile, DetachEpisodes, HashSource, DeleteReplacementFileRecord
  <2>. HIDE DEF selected
  <2>. QED
    BY <2>2 DEF RepTyped
<1>5. fileRow' \in [Old -> BOOLEAN]
  BY DEF RepTyped, LinkQuarantine, UnlinkOriginal, UnlinkQuarantine, PreserveFile, HashSource, DeleteReplacementFileRecord
<1>6. oldBytes' \in [Old -> {"original", "altered", "absent"}]
  BY DEF RepTyped, LinkQuarantine, UnlinkOriginal, UnlinkQuarantine, PreserveFile, HashSource, DeleteReplacementFileRecord
<1>7. quarantine' \in [Old -> {"none", "original", "altered"}]
  <2>1. CASE LinkQuarantine(f)
    <3>1. oldBytes[f] # "absent"
      BY <2>1 DEF LinkQuarantine, WorkerKnows, RemovalPcs, RepTyped, RepWorkers
    <3>2. oldBytes[f] \in {"original", "altered"} /\ quarantine' = [quarantine EXCEPT ![f] = oldBytes[f]]
      BY <2>1, <3>1 DEF LinkQuarantine, RepTyped
    <3>. QED
      BY <3>2 DEF RepTyped
  <2>2. CASE ~LinkQuarantine(f)
    BY <2>2 DEF RepTyped, UnlinkOriginal, UnlinkQuarantine, PreserveFile, HashSource, DeleteReplacementFileRecord
  <2>. QED
    BY <2>1, <2>2
<1>. DEFINE
       Hashes == /\ HashSource(o, f)
                 /\ \E pc \in {"recover", "missing", "hashed"} :
                      /\ repWorker' = [repWorker EXCEPT !.pc = pc, !.file = {f}]
                      /\ pc = "hashed" => oldBytes[f] # "absent" /\ oldBytes[f] = opFile[o][f].seen
       Walks  == /\ repWorker.pc \in RemovalPcs
                 /\ \E pc \in {"linked", "verify", "unlinked"} : repWorker' = [repWorker EXCEPT !.pc = pc]
       Ends   == /\ repWorker.pc \in RemovalPcs
                 /\ \/ repWorker' = [repWorker EXCEPT !.todo = @ \ {f}] /\ repWorker.pc = "remove"
                    \/ repWorker' = [repWorker EXCEPT !.pc = "remove", !.todo = @ \ {f}, !.file = {}]
<1>8. Hashes \/ Walks \/ Ends
  BY DEF RemovalPcs, LinkQuarantine, UnlinkOriginal, UnlinkQuarantine, PreserveFile, HashSource, DeleteReplacementFileRecord
<1>9. repWorker' \in RepWorkers
  <2>. DEFINE filed(w, held) == [w EXCEPT !.file = held]
              at(w, pc) == [w EXCEPT !.pc = pc]
              done(w) == [w EXCEPT !.todo = @ \ {f}]
  <2>0. repWorker \in RepWorkers
    BY DEF RepTyped
  <2>1. \A w \in RepWorkers : filed(w, {f}) \in RepWorkers /\ filed(w, {}) \in RepWorkers
    BY DEF RepWorkers
  <2>2. \A w \in RepWorkers, pc \in RepPcs : at(w, pc) \in RepWorkers
    BY DEF RepWorkers
  <2>3. \A w \in RepWorkers : done(w) \in RepWorkers
    BY DEF RepWorkers
  <2>4. {"recover", "missing", "hashed", "linked", "verify", "unlinked", "remove"} \subseteq RepPcs
    BY DEF RepPcs
  <2>5. ASSUME NEW pc
        PROVE  [repWorker EXCEPT !.pc = pc, !.file = {f}] = filed(at(repWorker, pc), {f})
    OBVIOUS
  <2>6. ASSUME NEW pc
        PROVE  [repWorker EXCEPT !.pc = pc, !.todo = @ \ {f}, !.file = {}] = filed(done(at(repWorker, pc)), {})
    <3>. DEFINE todo == repWorker.todo \ {f}
    <3>2. [repWorker EXCEPT !.pc = pc, !.todo = todo] = [[repWorker EXCEPT !.pc = pc] EXCEPT !.todo = todo]
      <4>. HIDE DEF todo
      <4>. QED
        OBVIOUS
    <3>3. [repWorker EXCEPT !.pc = pc, !.todo = todo, !.file = {}]
          = [[repWorker EXCEPT !.pc = pc, !.todo = todo] EXCEPT !.file = {}]
      <4>. HIDE DEF todo
      <4>. QED
        OBVIOUS
    <3>4. done(at(repWorker, pc)) = [at(repWorker, pc) EXCEPT !.todo = todo]
      <4>1. at(repWorker, pc).todo = repWorker.todo
        BY <2>0 DEF RepWorkers
      <4>. HIDE DEF at
      <4>. QED
        BY <4>1
    <3>5. filed(done(at(repWorker, pc)), {}) = [[repWorker EXCEPT !.pc = pc, !.todo = todo] EXCEPT !.file = {}]
      <4>. HIDE DEF done, todo
      <4>. QED
        BY <3>2, <3>4
    <3>6. [repWorker EXCEPT !.pc = pc, !.todo = @ \ {f}, !.file = {}] = [repWorker EXCEPT !.pc = pc, !.todo = todo, !.file = {}]
      OBVIOUS
    <3>. HIDE DEF todo, done, filed, at
    <3>. QED
      BY <3>3, <3>5, <3>6
  <2>. QED
    <3>. HIDE DEF filed, at, done
    <3>1. CASE Hashes
      <4>1. PICK pc \in RepPcs : repWorker' = [repWorker EXCEPT !.pc = pc, !.file = {f}]
        BY <3>1, <2>4
      <4>2. filed(at(repWorker, pc), {f}) \in RepWorkers
        BY <2>0, <2>1, <2>2
      <4>3. repWorker' = filed(at(repWorker, pc), {f})
        BY <4>1, <2>5
      <4>. QED
        BY <4>2, <4>3
    <3>2. CASE Walks
      BY <3>2, <2>0, <2>2, <2>4 DEF at
    <3>3. CASE Ends
      <4>1. done(repWorker) \in RepWorkers /\ filed(done(at(repWorker, "remove")), {}) \in RepWorkers
        BY <2>0, <2>1, <2>2, <2>3, <2>4
      <4>2. CASE repWorker' = [repWorker EXCEPT !.todo = @ \ {f}]
        BY <4>1, <4>2 DEF done
      <4>3. CASE repWorker' = [repWorker EXCEPT !.pc = "remove", !.todo = @ \ {f}, !.file = {}]
        <5>1. repWorker' = filed(done(at(repWorker, "remove")), {})
          BY <4>3, <2>6
        <5>. QED
          BY <4>1, <5>1
      <4>. QED
        BY <3>3, <4>2, <4>3
    <3>. QED
      BY <1>8, <3>1, <3>2, <3>3
<1>10. RepTyped'
  BY <1>1, <1>3, <1>4, <1>5, <1>6, <1>7, <1>9 DEF RepTyped, RepOutside
<1>11. SelectedInScope'
  BY <1>1, <1>3, <1>4 DEF SelectedInScope
<1>12. /\ repWorker'.op = repWorker.op /\ repWorker'.proof = repWorker.proof /\ repWorker.pc \in RemovalPcs
       /\ repWorker.op \subseteq Ops /\ repWorker.file \subseteq Old
  <2>1. /\ repWorker \in RepWorkers
        /\ repWorker.op \subseteq Ops /\ repWorker.file \subseteq Old
    BY DEF RepTyped, RepWorkers
  <2>2. CASE Hashes
    <3>1. repWorker.pc \in RemovalPcs
      BY <2>2 DEF HashSource, RemovalPcs
    <3>2. repWorker'.op = repWorker.op /\ repWorker'.proof = repWorker.proof
      BY <2>1, <2>2 DEF RepWorkers
    <3>. QED
      BY <2>1, <3>1, <3>2
  <2>3. CASE Walks
    BY <2>1, <2>3 DEF RepWorkers
  <2>4. CASE Ends
    BY <2>1, <2>4 DEF RepWorkers
  <2>. QED
    BY <1>8, <2>2, <2>3, <2>4
<1>13. WorkerKnows'
  <2>1. CASE Hashes
    <3>1. /\ o \in repWorker.op /\ opFile[o][f].disposition = "selected" /\ repWorker'.file = {f}
          /\ repWorker'.pc = "hashed" => opFile[o][f].seen # "absent"
      BY <2>1 DEF HashSource, RepTyped, RepWorkers
    <3>. QED
      BY <3>1, <1>1, <1>3, <1>12 DEF WorkerKnows
  <2>2. CASE Walks
    <3>1. repWorker'.file = repWorker.file /\ repWorker'.pc # "hashed"
      BY <2>2 DEF RepTyped, RepWorkers
    <3>. QED
      BY <3>1, <1>1, <1>3, <1>12 DEF WorkerKnows
  <2>3. CASE Ends
    <3>1. repWorker'.file \in {repWorker.file, {}} /\ repWorker'.pc # "hashed"
      BY <2>3 DEF RepTyped, RepWorkers
    <3>. QED
      BY <3>1, <1>1, <1>3, <1>12 DEF WorkerKnows
  <2>. QED
    BY <1>8, <2>1, <2>2, <2>3
<1>. QED
  BY <1>10, <1>11, <1>13

\* Acceptance: a new operation, of an identity the worker does not hold, over
\* files as they are linked at that moment.
LEMMA RepCreateStep ==
    ASSUME RepInv, NEW o \in Ops, NEW intent \in {"replace_bad", "replace_quality"},
           NEW scope \in {"episodes", "download"}, NEW episodes \in SUBSET Episodes,
           CreateReplacement(o, intent, scope, episodes)
    PROVE  RepInv'
<1>. USE DEF RepInv
<1>. DEFINE made == [state |-> "accepted", intent |-> intent, scope |-> scope, episodes |-> episodes]
            concerned == Concerned(scope, episodes)
            parts == [f \in Old |-> IF f \in concerned THEN SnapshotOf(f, intent, episodes) ELSE NoPart]
<1>1. /\ repOperation[o].state = "none"
      /\ repOperation' = [repOperation EXCEPT ![o] = made]
      /\ opFile' = [opFile EXCEPT ![o] = parts]
      /\ UNCHANGED <<fileEpisodes, fileRow, oldBytes, quarantine, opDownload, repWorker>> /\ UNCHANGED RepOutside
  BY DEF CreateReplacement, CreateReplacementOperation, RepOutside
<1>2. made \in RepOperations /\ made.episodes = episodes /\ made.state # "none"
  BY DEF RepOperations, OpenStates
<1>. DEFINE Sound(part, g) == /\ part \in RepParts
                              /\ part.disposition = "selected" => part.episodes \subseteq episodes
                              /\ part.disposition # "none" => part.episodes = fileEpisodes[g]
<1>3. ASSUME NEW g \in Old
      PROVE  Sound(SnapshotOf(g, intent, episodes), g) /\ Sound(NoPart, g)
  <2>1. observation[g].seen \in Seen /\ fileEpisodes[g] \in SUBSET Episodes
    BY DEF RepTyped, Observations
  <2>2. Sound(SnapshotOf(g, intent, episodes), g)
    BY <2>1 DEF SnapshotOf, RepParts
  <2>3. Sound(NoPart, g)
    BY DEF NoPart, RepParts, Seen
  <2>. QED
    BY <2>2, <2>3
<1>. HIDE DEF made, concerned, Sound
<1>5. parts \in [Old -> RepParts] /\ \A g \in Old : Sound(parts[g], g)
  <2>1. \A g \in Old : parts[g] = SnapshotOf(g, intent, episodes) \/ parts[g] = NoPart
    OBVIOUS
  <2>2. parts = [g \in Old |-> parts[g]]
    OBVIOUS
  <2>. HIDE DEF parts
  <2>3. \A g \in Old : Sound(parts[g], g)
    BY <1>3, <2>1
  <2>4. \A g \in Old : parts[g] \in RepParts
    BY <2>3 DEF Sound
  <2>. QED
    BY <2>2, <2>3, <2>4
<1>. HIDE DEF parts
<1>6. repOperation' \in [Ops -> RepOperations] /\ opFile' \in [Ops -> [Old -> RepParts]]
  BY <1>1, <1>2, <1>5 DEF RepTyped
<1>7. RepTyped'
  BY <1>1, <1>6 DEF RepTyped, RepOutside
<1>8. repWorker.op \subseteq Ops /\ o \notin repWorker.op
  BY <1>1 DEF WorkerKnows, RepTyped, RepWorkers
<1>9. WorkerKnows'
  BY <1>1, <1>8 DEF WorkerKnows, RepTyped
<1>10. SelectedInScope'
  <2>. SUFFICES ASSUME NEW p \in Ops, NEW g \in Old
                PROVE  /\ opFile'[p][g].disposition = "selected" => opFile'[p][g].episodes \subseteq repOperation'[p].episodes
                       /\ opFile'[p][g].disposition # "none" =>
                            fileEpisodes'[g] \subseteq opFile'[p][g].episodes \cup NamedEpisodes[g]
    BY DEF SelectedInScope
  <2>1. CASE p = o
    <3>1. opFile'[o] = parts /\ repOperation'[o].episodes = episodes /\ fileEpisodes' = fileEpisodes
      BY <1>1, <1>2 DEF RepTyped
    <3>. QED
      BY <2>1, <3>1, <1>5 DEF Sound
  <2>2. CASE p # o
    BY <2>2, <1>1 DEF SelectedInScope, RepTyped
  <2>. QED
    BY <2>1, <2>2
<1>. QED
  BY <1>7, <1>9, <1>10

LEMMA RepStep == RepInv /\ [RepNext]_repVars => RepInv'
<1>. SUFFICES ASSUME RepInv, [RepNext]_repVars PROVE RepInv'
  OBVIOUS
<1>1. CASE UNCHANGED repVars
  <2>1. RepTyped'
    BY <1>1 DEF repVars, RepInv, RepTyped
  <2>. QED
    BY <1>1, <2>1, RepFrame DEF repVars
<1>2. CASE WorkerStep
  <2>1. ASSUME NEW f \in Old, ProcessReplacementFileObservation(f) PROVE RepInv'
    BY <2>1, RepOutsideStep
  <2>2. ASSUME NEW f \in Old, LinkQuarantine(f) \/ UnlinkOriginal(f) \/ UnlinkQuarantine(f) PROVE RepInv'
    <3>1. repWorker.op # {} /\ repWorker.op \subseteq Ops
      BY <2>2 DEF LinkQuarantine, UnlinkOriginal, UnlinkQuarantine, RemovalPcs, RepInv, WorkerKnows, RepTyped, RepWorkers
    <3>. QED
      BY <2>2, <3>1, RepRetireStep
  <2>3. ASSUME NEW o \in Ops,
               \/ ProcessReplacementOperation(o) \/ RemovalDone(o) \/ InspectReplacementCoverage(o)
               \/ RemovalBlocked(o) \/ CheckReplacementDownloads(o) \/ SearchAndAdmitReplacement(o)
        PROVE  RepInv'
    BY <2>3, RepChooseStep
  <2>4. ASSUME NEW o \in Ops, NEW f \in Old,
               PreserveFile(o, f) \/ HashSource(o, f) \/ DeleteReplacementFileRecord(o, f)
        PROVE  RepInv'
    BY <2>4, RepRetireStep
  <2>5. ASSUME NEW o \in Ops, ReplacementEpisodeGone(o) PROVE RepInv'
    BY <2>5, RepOutsideStep
  <2>. QED
    BY <1>2, <2>1, <2>2, <2>3, <2>4, <2>5 DEF WorkerStep
<1>3. ASSUME NEW o \in Ops, NEW intent \in {"replace_bad", "replace_quality"}, NEW episodes \in SUBSET Episodes,
             NEW scope \in {"episodes", "download"}, CreateReplacement(o, intent, scope, episodes)
      PROVE  RepInv'
  BY <1>3, RepCreateStep
<1>4. CASE \/ \E f \in Old : StartReplacementFileObservation(f)
           \/ \E o \in Ops, e \in Episodes : CommitReplacementPlacement(o, e)
           \/ \E o \in Ops : DownloadEnds(o) \/ DownloadCleaned(o)
           \/ \E e \in Episodes : ReportLibraryFile(e) \/ ResolveMediaFileReviewFlag(e)
           \/ RepFault
  BY <1>4, RepOutsideStep
<1>5. CASE ScanStep
  BY <1>5, RepScanStep
<1>. QED
  BY <1>1, <1>2, <1>3, <1>4, <1>5 DEF RepNext

LEMMA RepAlways == RepSpec => []RepInv
BY RepInitInv, RepStep, PTL DEF RepSpec

\* Whatever else happens, only the last unlink takes bytes from every name.
LEMMA OnlyUnlinkDestroys ==
    ASSUME RepInv, [RepNext]_repVars, NEW f \in Old, Destroyed(f)
    PROVE  UnlinkQuarantine(f)
<1>1. quarantine' # quarantine
  BY DEF Destroyed
<1>2. ASSUME NEW g \in Old, LinkQuarantine(g)
      PROVE  FALSE
  <2>1. oldBytes[g] # "absent"
    <3>1. repWorker.pc = "hashed" /\ g \in repWorker.file
      BY <1>2 DEF LinkQuarantine
    <3>2. repWorker.op # {} /\ repWorker.op \subseteq Ops
      BY <3>1 DEF RepInv, WorkerKnows, RemovalPcs, RepTyped, RepWorkers
    <3>. QED
      BY <1>2, <3>1, <3>2 DEF RepInv, LinkQuarantine, WorkerKnows
  <2>2. oldBytes[g] \in {"original", "altered"} /\ quarantine' = [quarantine EXCEPT ![g] = oldBytes[g]]
    BY <1>2, <2>1 DEF LinkQuarantine, RepInv, RepTyped
  <2>. QED
    BY <2>2 DEF Destroyed, RepInv, RepTyped
<1>3. ASSUME NEW g \in Old, UnlinkQuarantine(g), g # f
      PROVE  FALSE
  BY <1>3 DEF Destroyed, UnlinkQuarantine, RepInv, RepTyped
<1>4. ASSUME RepFault
      PROVE  FALSE
  <2>1. \E g \in Old : quarantine[g] = "original" /\ quarantine' = [quarantine EXCEPT ![g] = "altered"]
    BY <1>1, <1>4 DEF RepFault
  <2>. QED
    BY <2>1 DEF Destroyed, RepInv, RepTyped
<1>5. quarantine' = quarantine \/ RepFault \/ \E g \in Old : LinkQuarantine(g) \/ UnlinkQuarantine(g)
  BY DEF RepNext, WorkerStep, repVars, StartReplacementFileObservation, ProcessReplacementFileObservation,
     CommitReplacementPlacement, DownloadEnds, DownloadCleaned, ReportLibraryFile, ResolveMediaFileReviewFlag,
     UnlinkOriginal, PreserveFile, HashSource, DeleteReplacementFileRecord, ProcessReplacementOperation,
     RemovalDone, InspectReplacementCoverage, RemovalBlocked, CheckReplacementDownloads,
     SearchAndAdmitReplacement, ReplacementEpisodeGone, CreateReplacement, ScanStep, ScanWalk, ScanList, ScanEnds,
     ScanLinkFile, ScanPruneFile, ScanPrunePlacement
<1>. QED
  BY <1>1, <1>2, <1>3, <1>4, <1>5

(* A usable file of an operation that replaces for quality loses its last    *)
(* name only while verified placements of that operation hold every episode  *)
(* it selected: what was hashed, listed or covered earlier is not trusted    *)
(* (finalReplacementPlacementCheck).                                         *)
THEOREM UsableKept == RepSpec => UsableKeptUntilReplaced
<1>. DEFINE Kept == \A f \in Old, o \in Ops :
                       Destroyed(f) /\ o \in repWorker.op /\ repOperation[o].intent = "replace_quality" =>
                          \A e \in repOperation[o].episodes : newPlacement[e] = "placed"
<1>1. RepInv /\ [RepNext]_repVars => [Kept]_repVars
  <2>. SUFFICES ASSUME RepInv, [RepNext]_repVars, NEW f \in Old, NEW o \in Ops, Destroyed(f),
                       o \in repWorker.op, repOperation[o].intent = "replace_quality"
                PROVE  \A e \in repOperation[o].episodes : newPlacement[e] = "placed"
    OBVIOUS
  <2>1. UnlinkQuarantine(f)
    BY OnlyUnlinkDestroys
  <2>2. repWorker.proof = repOperation[o].episodes
    BY <2>1 DEF RepInv, WorkerKnows, UnlinkQuarantine, RemovalPcs
  <2>. QED
    BY <2>1, <2>2 DEF UnlinkQuarantine, FinalCheck, ProofStands
<1>2. UsableKeptUntilReplaced <=> [][Kept]_repVars
  BY Zenon DEF UsableKeptUntilReplaced
<1>. QED
  BY <1>1, <1>2, RepAlways, PTL DEF RepSpec

(* No operation destroys bytes that differ from those its review read        *)
(* (verifyReplacementQuarantineDigest), or a file in which the review saw an *)
(* episode outside its scope.  Any other episode linked to the file when it  *)
(* goes is one its name says, which scanItem has linked since; the last      *)
(* check does not look for those.                                            *)
THEOREM ReviewedBytesGo == RepSpec => OnlyReviewedBytesGo
<1>. DEFINE Reviewed == \A f \in Old, o \in Ops : Destroyed(f) /\ o \in repWorker.op =>
                           /\ quarantine[f] = opFile[o][f].seen
                           /\ opFile[o][f].episodes \subseteq repOperation[o].episodes
                           /\ fileEpisodes[f] \subseteq repOperation[o].episodes \cup NamedEpisodes[f]
<1>1. RepInv /\ [RepNext]_repVars => [Reviewed]_repVars
  <2>. SUFFICES ASSUME RepInv, [RepNext]_repVars, NEW f \in Old, NEW o \in Ops, Destroyed(f), o \in repWorker.op
                PROVE  /\ quarantine[f] = opFile[o][f].seen
                       /\ opFile[o][f].episodes \subseteq repOperation[o].episodes
                       /\ fileEpisodes[f] \subseteq repOperation[o].episodes \cup NamedEpisodes[f]
    OBVIOUS
  <2>1. UnlinkQuarantine(f)
    BY OnlyUnlinkDestroys
  <2>2. opFile[o][f].disposition = "selected"
    BY <2>1 DEF RepInv, WorkerKnows, UnlinkQuarantine
  <2>3. /\ opFile[o][f].episodes \subseteq repOperation[o].episodes
        /\ fileEpisodes[f] \subseteq opFile[o][f].episodes \cup NamedEpisodes[f]
    BY <2>2 DEF RepInv, SelectedInScope
  <2>. QED
    BY <2>1, <2>3 DEF UnlinkQuarantine, QuarantineIsReviewed
<1>2. OnlyReviewedBytesGo <=> [][Reviewed]_repVars
  BY Zenon DEF OnlyReviewedBytesGo
<1>. QED
  BY <1>1, <1>2, RepAlways, PTL DEF RepSpec

----------------------------------------------------------------------------
(* Library: one item per provider identity, and an index that is one state. *)

IsRow(r) ==
    r = [live |-> r.live, ids |-> r.ids, source |-> r.source, title |-> r.title, path |-> r.path,
         aliases |-> r.aliases, fetched |-> r.fetched]

\* A row that is gone leaves nothing behind: its aliases and sources go with it.
Rows ==
    /\ items = [i \in ItemIds |-> items[i]]
    /\ \A i \in ItemIds : IsRow(items[i]) /\ (items[i].live \/ items[i] = NoRow)

\* What may be written at i: a row whose identities no other item carries.
Fits(i, row) ==
    /\ IsRow(row)
    /\ row.live \/ row = NoRow
    /\ row.live => \A j \in LiveItems \ {i}, s \in Spaces : row.ids[s] = 0 \/ row.ids[s] # items[j].ids[s]

LEMMA RowFields ==
    ASSUME NEW r, IsRow(r), NEW x
    PROVE  /\ LET u == UpdateMediaItemPlacement(r, x)
              IN IsRow(u) /\ u.live = r.live /\ u.ids = r.ids /\ IndexIdentity(u) = IndexIdentity(r)
           /\ LET u == UpdateMediaExternalIDs(r, x) IN IsRow(u) /\ u.live = r.live /\ u.ids = x
           /\ LET u == UpdateMediaItemMetadata(r, x) IN IsRow(u) /\ u.live = r.live /\ u.ids = r.ids
           /\ LET u == InsertMediaAlias(r, x) IN IsRow(u) /\ u.live = r.live /\ u.ids = r.ids
           /\ LET u == UpsertIdentitySource(r, x) IN IsRow(u) /\ u.live = r.live /\ u.ids = r.ids
           /\ LET u == DeleteManualAlias(r) IN IsRow(u) /\ u.live = r.live /\ u.ids = r.ids
           /\ LET u == DeleteReplaceableProviderAliases(r) IN IsRow(u) /\ u.live = r.live /\ u.ids = r.ids
<1>1. \A y : LET u == [r EXCEPT !.path = y]
             IN IsRow(u) /\ u.live = r.live /\ u.ids = r.ids /\ IndexIdentity(u) = IndexIdentity(r)
  BY DEF IsRow, IndexIdentity
<1>2. \A y : LET u == [r EXCEPT !.ids = y] IN IsRow(u) /\ u.live = r.live /\ u.ids = y
  BY DEF IsRow
<1>3. \A y : LET u == [r EXCEPT !.title = y] IN IsRow(u) /\ u.live = r.live /\ u.ids = r.ids
  BY DEF IsRow
<1>4. \A y : LET u == [r EXCEPT !.aliases = y] IN IsRow(u) /\ u.live = r.live /\ u.ids = r.ids
  BY DEF IsRow
<1>5. \A y : LET u == [r EXCEPT !.fetched = y] IN IsRow(u) /\ u.live = r.live /\ u.ids = r.ids
  BY DEF IsRow
<1>. QED
  BY <1>1, <1>2, <1>3, <1>4, <1>5
  DEF UpdateMediaItemPlacement, UpdateMediaExternalIDs, UpdateMediaItemMetadata, InsertMediaAlias,
      UpsertIdentitySource, DeleteManualAlias, DeleteReplaceableProviderAliases

LEMMA AliasFields ==
    ASSUME NEW r, IsRow(r), NEW x
    PROVE  LET u == InsertMediaAlias(r, x) IN IsRow(u) /\ u.live = r.live /\ u.ids = r.ids
BY RowFields

LEMMA StockedRow ==
    ASSUME NEW ids, NEW source, NEW title
    PROVE  LET u == [NoRow EXCEPT !.live = TRUE, !.ids = ids, !.source = source, !.title = title]
           IN IsRow(u) /\ u.live /\ u.ids = ids
<1>. DEFINE a == [NoRow EXCEPT !.live = TRUE]
            b == [a EXCEPT !.ids = ids]
            d == [b EXCEPT !.source = source]
            e == [d EXCEPT !.title = title]
            row == [NoRow EXCEPT !.live = TRUE, !.ids = ids, !.source = source, !.title = title]
<1>1. IsRow(a) /\ a.live
  <2>1. IsRow(NoRow)
    BY DEF IsRow, NoRow
  <2>2. ASSUME NEW r, IsRow(r), NEW y
        PROVE  IsRow([r EXCEPT !.live = y]) /\ [r EXCEPT !.live = y].live = y
    BY <2>2 DEF IsRow
  <2>. QED
    BY <2>1, <2>2
<1>2. row = e
  OBVIOUS
<1>. HIDE DEF row, a
<1>3. IsRow(b) /\ b.live /\ b.ids = ids
  BY <1>1 DEF IsRow
<1>. HIDE DEF b
<1>4. IsRow(d) /\ d.live /\ d.ids = ids
  BY <1>3 DEF IsRow
<1>. HIDE DEF d
<1>5. IsRow(e) /\ e.live /\ e.ids = ids
  BY <1>4 DEF IsRow
<1>. HIDE DEF e
<1>6. IsRow(row) /\ row.live /\ row.ids = ids
  BY <1>2, <1>5
<1>. QED
  BY <1>6 DEF row

LEMMA InsertedRow ==
    ASSUME NEW ids, NEW source, NEW title, NEW path
    PROVE  LET u == InsertMediaItem(ids, source, title, path) IN IsRow(u) /\ u.live /\ u.ids = ids
<1>. DEFINE a == [NoRow EXCEPT !.live = TRUE, !.ids = ids, !.source = source, !.title = title]
<1>1. InsertMediaItem(ids, source, title, path) = [a EXCEPT !.path = path]
  BY DEF InsertMediaItem
<1>2. IsRow(a) /\ a.live /\ a.ids = ids
  BY StockedRow
<1>. HIDE DEF a
<1>. QED
  BY <1>1, <1>2 DEF IsRow

LEMMA NoRowFits == \A i : Fits(i, NoRow)
BY DEF Fits, IsRow, NoRow

LEMMA WrittenFits ==
    ASSUME Rows, OneItemPerIdentity, NEW i, NEW row, i \in ItemIds => Fits(i, row), WriteItem(i, row)
    PROVE  Rows' /\ OneItemPerIdentity'
<1>1. items' = [j \in ItemIds |-> IF j = i THEN row ELSE items[j]]
  BY DEF Rows, WriteItem
<1>2. Rows'
  BY <1>1 DEF Rows, Fits
<1>3. ASSUME NEW j \in ItemIds, items'[j].live, j # i
      PROVE  j \in LiveItems /\ items'[j] = items[j]
  BY <1>1, <1>3 DEF LiveItems
<1>4. OneItemPerIdentity'
  BY <1>1, <1>3 DEF OneItemPerIdentity, Fits, LiveItems
<1>. QED
  BY <1>2, <1>4

LEMMA SameIdsFit ==
    ASSUME OneItemPerIdentity, NEW i \in ItemIds, items[i].live, NEW row,
           IsRow(row), row.live = items[i].live, row.ids = items[i].ids
    PROVE  Fits(i, row)
BY DEF Fits, OneItemPerIdentity, LiveItems

\* The index sees every field of a row but its folder.
LEMMA RowsSeen ==
    ASSUME items' = items \/ \A i \in ItemIds : IndexIdentity(items'[i]) = IndexIdentity(items[i])
    PROVE  IdentityNow' = IdentityNow
BY DEF IdentityNow, IndexIdentity

\* Two claims on one identity: none is in the library when the inserting
\* transaction finds it free, and a refresh only takes what nobody else has.
LEMMA FreeFits ==
    ASSUME NEW ids, checkCreateIdentity(ids) = "free", NEW i, NEW row,
           IsRow(row), row.live, row.ids = ids
    PROVE  Fits(i, row)
<1>1. Claimants(ids) = {}
  BY DEF checkCreateIdentity
<1>2. ASSUME NEW j \in LiveItems, NEW s \in Spaces, ids[s] # 0, ids[s] = items[j].ids[s]
      PROVE  FALSE
  <2>1. j \in FindMediaItemsByExternalID(s, ids[s])
    BY <1>2 DEF FindMediaItemsByExternalID, FindMediaItemsByKindTmdb, FindMediaItemsByKindTvdb, Spaces
  <2>. QED
    BY <1>1, <1>2, <2>1 DEF Claimants
<1>. QED
  BY <1>2 DEF Fits

LEMMA MergedFits ==
    ASSUME NEW i, NEW row, Claimants(row.ids) \subseteq {i}, IsRow(row), row.live
    PROVE  Fits(i, row)
<1>1. ASSUME NEW j \in LiveItems, NEW s \in Spaces, row.ids[s] # 0, row.ids[s] = items[j].ids[s]
      PROVE  j = i
  <2>1. j \in FindMediaItemsByExternalID(s, row.ids[s])
    BY <1>1 DEF FindMediaItemsByExternalID, FindMediaItemsByKindTmdb, FindMediaItemsByKindTvdb, Spaces
  <2>. QED
    BY <1>1, <2>1 DEF Claimants
<1>. QED
  BY <1>1 DEF Fits

\* A call writes at most one row, and moves the revision unless it only moves
\* the item's folder.
LEMMA CallKeepsRows ==
    ASSUME Rows, OneItemPerIdentity, NEW c \in Callers, CallStart(c) \/ CallStep(c)
    PROVE  /\ Rows' /\ OneItemPerIdentity'
           /\ identityIndex' = identityIndex
           /\ revision' = revision + 1 \/ (revision' = revision /\ IdentityNow' = IdentityNow)
<1>. DEFINE Goal == /\ Rows' /\ OneItemPerIdentity'
                    /\ identityIndex' = identityIndex
                    /\ revision' = revision + 1 \/ (revision' = revision /\ IdentityNow' = IdentityNow)
<1>. SUFFICES Goal
  OBVIOUS
<1>1. ASSUME items' = items, revision' = revision, identityIndex' = identityIndex
      PROVE  Goal
  BY <1>1, RowsSeen DEF Rows, OneItemPerIdentity, LiveItems
<1>2. ASSUME NEW i, NEW row, i \in ItemIds => Fits(i, row), WriteItem(i, row),
             identityIndex' = identityIndex, revision' = revision + 1
      PROVE  Goal
  BY <1>2, WrittenFits
<1>3. ASSUME CreateMediaItem(c)
      PROVE  Goal
  <2>. DEFINE row == InsertMediaItem(libraryCall[c].ids, libraryCall[c].source, libraryCall[c].title, libraryCall[c].path)
  <2>1. CASE items' = items /\ revision' = revision
    BY <1>1, <1>3, <2>1 DEF CreateMediaItem
  <2>2. CASE checkCreateIdentity(libraryCall[c].ids) = "free" /\ WriteItem(NextItemId, row) /\ BumpIdentityRevision
    <3>1. IsRow(row) /\ row.live /\ row.ids = libraryCall[c].ids
      BY InsertedRow
    <3>2. Fits(NextItemId, row)
      BY <2>2, <3>1, FreeFits
    <3>. QED
      BY <1>2, <1>3, <2>2, <3>2 DEF CreateMediaItem, BumpIdentityRevision
  <2>. QED
    BY <1>3, <2>1, <2>2 DEF CreateMediaItem
<1>4. ASSUME UpdateMediaItemSettings(c)
      PROVE  Goal
  <2>. DEFINE k == libraryCall[c]
              row == UpdateMediaItemPlacement(items[k.id], k.path)
  <2>1. CASE items' = items
    BY <1>1, <1>4, <2>1 DEF UpdateMediaItemSettings
  <2>2. CASE items[k.id].live /\ WriteItem(k.id, row)
    <3>1. CASE k.id \in ItemIds
      <4>1. IsRow(row) /\ row.live = items[k.id].live /\ row.ids = items[k.id].ids
            /\ IndexIdentity(row) = IndexIdentity(items[k.id])
        BY <3>1, RowFields DEF Rows
      <4>2. Fits(k.id, row)
        BY <2>2, <3>1, <4>1, SameIdsFit
      <4>3. \A i \in ItemIds : IndexIdentity(items'[i]) = IndexIdentity(items[i])
        BY <2>2, <4>1 DEF WriteItem, Rows
      <4>. QED
        BY <1>4, <2>2, <4>2, <4>3, WrittenFits, RowsSeen DEF UpdateMediaItemSettings
    <3>2. CASE k.id \notin ItemIds
      <4>1. items' = items
        BY <2>2, <3>2 DEF WriteItem, Rows
      <4>. QED
        BY <2>1, <4>1
    <3>. QED
      BY <3>1, <3>2
  <2>. QED
    BY <1>4, <2>1, <2>2 DEF UpdateMediaItemSettings
<1>5. ASSUME adoptUndo(c) \/ Delete(c)
      PROVE  Goal
  <2>1. /\ identityIndex' = identityIndex
        /\ \E i : WriteItem(i, NoRow) /\ BumpIdentityRevision
    BY <1>5 DEF adoptUndo, Delete, DeleteRow, DeleteMediaItem, WriteItem
  <2>. QED
    BY <1>2, <2>1, NoRowFits DEF BumpIdentityRevision
<1>6. ASSUME RefreshMediaItemMetadata(c)
      PROVE  Goal
  <2>. DEFINE k == libraryCall[c]
  <2>1. CASE items' = items /\ revision' = revision
    BY <1>1, <1>6, <2>1 DEF RefreshMediaItemMetadata
  <2>2. ASSUME NEW fresh, NEW title, items[k.id].live, MergeAllowed(c, fresh), BumpIdentityRevision,
               NEW known \in {items[k.id], InsertMediaAlias(items[k.id], "historical")},
               WriteItem(k.id, UpdateMediaExternalIDs(UpdateMediaItemMetadata(known, title), MergedIds(c, fresh)))
        PROVE  Goal
    <3>. DEFINE row == UpdateMediaExternalIDs(UpdateMediaItemMetadata(known, title), MergedIds(c, fresh))
    <3>1. ASSUME k.id \in ItemIds
          PROVE  Fits(k.id, row)
      <4>1. IsRow(known) /\ known.live
        <5>1. IsRow(items[k.id])
          BY <3>1 DEF Rows
        <5>2. IsRow(InsertMediaAlias(items[k.id], "historical")) /\ InsertMediaAlias(items[k.id], "historical").live
          BY <2>2, <5>1, AliasFields
        <5>. QED
          BY <2>2, <5>1, <5>2
      <4>2. IsRow(UpdateMediaItemMetadata(known, title)) /\ UpdateMediaItemMetadata(known, title).live
        BY <4>1, RowFields
      <4>3. IsRow(row) /\ row.live /\ row.ids = MergedIds(c, fresh)
        BY <4>2, RowFields
      <4>. HIDE DEF row
      <4>. QED
        BY <2>2, <4>3, MergedFits DEF MergeAllowed
    <3>. QED
      BY <1>2, <1>6, <2>2, <3>1 DEF RefreshMediaItemMetadata, BumpIdentityRevision
  <2>3. \/ items' = items /\ revision' = revision
        \/ \E fresh, title : \E known \in {items[k.id], InsertMediaAlias(items[k.id], "historical")} :
             /\ items[k.id].live /\ MergeAllowed(c, fresh) /\ BumpIdentityRevision
             /\ WriteItem(k.id, UpdateMediaExternalIDs(UpdateMediaItemMetadata(known, title), MergedIds(c, fresh)))
    BY <1>6 DEF RefreshMediaItemMetadata
  <2>. QED
    BY <2>1, <2>2, <2>3
<1>7. ASSUME IdentityAnswered(c)
      PROVE  Goal
  <2>. DEFINE i == libraryCall[c].id
              kept == DeleteReplaceableProviderAliases(items[i])
  <2>1. CASE items' = items /\ revision' = revision
    BY <1>1, <1>7, <2>1 DEF IdentityAnswered
  <2>2. ASSUME items[i].live, BumpIdentityRevision, NEW was \in {kept, InsertMediaAlias(kept, "provider"), items[i]},
               NEW how, WriteItem(i, UpsertIdentitySource(was, how))
        PROVE  Goal
    <3>1. ASSUME i \in ItemIds
          PROVE  Fits(i, UpsertIdentitySource(was, how))
      <4>1. IsRow(was) /\ was.live = items[i].live /\ was.ids = items[i].ids
        <5>1. IsRow(items[i]) /\ IsRow(kept) /\ kept.live = items[i].live /\ kept.ids = items[i].ids
          BY <3>1, RowFields DEF Rows
        <5>2. /\ IsRow(InsertMediaAlias(kept, "provider")) /\ InsertMediaAlias(kept, "provider").live = items[i].live
              /\ InsertMediaAlias(kept, "provider").ids = items[i].ids
          BY <5>1, AliasFields
        <5>. QED
          BY <2>2, <5>1, <5>2
      <4>2. IsRow(UpsertIdentitySource(was, how)) /\ UpsertIdentitySource(was, how).live = items[i].live
            /\ UpsertIdentitySource(was, how).ids = items[i].ids
        BY <4>1, RowFields
      <4>. QED
        BY <2>2, <3>1, <4>2, SameIdsFit
    <3>. QED
      BY <1>2, <1>7, <2>2, <3>1 DEF IdentityAnswered, BumpIdentityRevision
  <2>3. \/ items' = items /\ revision' = revision
        \/ \E was \in {kept, InsertMediaAlias(kept, "provider"), items[i]}, how \in {"complete", "failed"} :
             items[i].live /\ BumpIdentityRevision /\ WriteItem(i, UpsertIdentitySource(was, how))
    BY <1>7 DEF IdentityAnswered, ReplaceIdentitySnapshot, RecordIdentityFailure
  <2>. QED
    BY <2>1, <2>2, <2>3
<1>8. ASSUME ManualAlias(c)
      PROVE  Goal
  <2>1. PICK i \in LiveItems : \E row \in {DeleteManualAlias(items[i]), InsertMediaAlias(items[i], "manual")} :
          WriteItem(i, row) /\ BumpIdentityRevision /\ identityIndex' = identityIndex
    BY <1>8 DEF ManualAlias
  <2>2. i \in ItemIds /\ items[i].live /\ IsRow(items[i])
    BY DEF Rows, LiveItems
  <2>3. ASSUME NEW row \in {DeleteManualAlias(items[i]), InsertMediaAlias(items[i], "manual")}
        PROVE  Fits(i, row)
    <3>1. IsRow(row) /\ row.live = items[i].live /\ row.ids = items[i].ids
      <4>1. CASE row = DeleteManualAlias(items[i])
        BY <2>2, <4>1, RowFields
      <4>2. CASE row = InsertMediaAlias(items[i], "manual")
        BY <2>2, <4>2, AliasFields
      <4>. QED
        BY <4>1, <4>2
    <3>. QED
      BY <2>2, <3>1, SameIdsFit
  <2>. QED
    BY <1>2, <2>1, <2>3 DEF BumpIdentityRevision
<1>9. CASE \/ Add(c) \/ AddManual(c) \/ UpdateItem(c) \/ adoptOne(c) \/ AddCopy(c) \/ RefreshItem(c) \/ RefreshIdentity(c)
           \/ DeleteCopy(c)
  <2>1. items' = items /\ revision' = revision /\ identityIndex' = identityIndex
    BY <1>9 DEF Add, AddManual, UpdateItem, adoptOne, AddCopy, RefreshItem, RefreshIdentity, DeleteCopy, StartCall
  <2>. QED
    BY <1>1, <2>1
<1>10. CASE \/ AddCheck(c) \/ hydrateAdd(c) \/ AddPlace(c) \/ UpdateRead(c) \/ UpdateClaims(c) \/ relinkExisting(c)
            \/ AddCopyFolder(c) \/ AddCopyEnsure(c) \/ AddMediaCopy(c) \/ CallCancelled(c)
  <2>1. items' = items /\ revision' = revision /\ identityIndex' = identityIndex
    BY <1>10 DEF AddCheck, hydrateAdd, AddPlace, UpdateRead, UpdateClaims, relinkExisting, AddCopyFolder,
       AddCopyEnsure, AddMediaCopy, CallCancelled
  <2>. QED
    BY <1>1, <2>1
<1>. HIDE DEF Goal
<1>11. CASE CallStart(c)
  BY <1>5, <1>8, <1>9, <1>11 DEF CallStart
<1>12. CASE CallStep(c)
  BY <1>3, <1>4, <1>5, <1>6, <1>7, <1>10, <1>12 DEF CallStep
<1>. QED
  BY <1>11, <1>12

IsIndex(x) ==
    x = [pc |-> x.pc, built |-> x.built, gave |-> x.gave, revision |-> x.revision, at |-> x.at,
         draft |-> x.draft, works |-> x.works]

\* While the revision the builder noted is the library's, what it has read is
\* the library: first the rows, then the whole identity.
IndexInv ==
    /\ revision \in Nat /\ identityIndex.at \in Nat /\ identityIndex.revision \in Nat
    /\ IsIndex(identityIndex)
    /\ identityIndex.at <= revision /\ identityIndex.revision <= revision
    /\ identityIndex.pc \in {"idle", "rows", "aliases", "confirm"}
    /\ identityIndex.pc # "idle" => ~identityIndex.gave
    /\ identityIndex.pc = "aliases" /\ identityIndex.at = revision => identityIndex.draft = MediaItemRows
    /\ identityIndex.pc = "confirm" /\ identityIndex.at = revision => identityIndex.draft = IdentityNow
    /\ identityIndex.built /\ identityIndex.revision = revision => identityIndex.works = IdentityNow

LibraryInv == Rows /\ OneItemPerIdentity /\ IndexInv

LEMMA LibraryInitInv == LibraryInit => LibraryInv
<1>. SUFFICES ASSUME LibraryInit PROVE LibraryInv
  OBVIOUS
<1>. DEFINE stocked(stock, i) ==
       LET source == IF stock[i]["tmdb"] # 0 THEN "tmdb" ELSE "tvdb"
       IN [NoRow EXCEPT !.live = TRUE, !.ids = stock[i], !.source = source, !.title = TitleOf[stock[i][source]]]
<1>0. PICK stock \in Stocked : items = [i \in ItemIds |-> IF i > Len(stock) THEN NoRow ELSE stocked(stock, i)]
  BY DEF LibraryInit
<1>1. /\ stock \in Seq([{"tmdb", "tvdb"} -> Works \cup {0}])
      /\ \A i, j \in 1 .. Len(stock) : i # j =>
           \A t \in {"tmdb", "tvdb"} : stock[i][t] = 0 \/ stock[i][t] # stock[j][t]
  BY <1>0, StockedAssumption DEF StockedAssumption
<1>6. ASSUME NEW i
      PROVE  IsRow(stocked(stock, i)) /\ stocked(stock, i).live /\ stocked(stock, i).ids = stock[i]
  <2>. DEFINE source == IF stock[i]["tmdb"] # 0 THEN "tmdb" ELSE "tvdb"
              title == TitleOf[stock[i][source]]
              ids == stock[i]
  <2>. DEFINE row == [NoRow EXCEPT !.live = TRUE, !.ids = ids, !.source = source, !.title = title]
  <2>1. stocked(stock, i) = row
    OBVIOUS
  <2>. HIDE DEF stocked, source, title, ids
  <2>2. IsRow(row) /\ row.live /\ row.ids = ids
    BY StockedRow
  <2>. HIDE DEF row
  <2>3. ids = stock[i]
    BY DEF ids
  <2>. QED
    BY <2>1, <2>2, <2>3
<1>. HIDE DEF stocked
<1>2. ASSUME NEW i \in ItemIds
      PROVE  \/ items[i] = NoRow
             \/ i \in 1 .. Len(stock) /\ IsRow(items[i]) /\ items[i].live /\ items[i].ids = stock[i]
  <2>1. Len(stock) \in Nat /\ i \in Nat /\ i >= 1
    BY <1>1, LibraryAssumption DEF ItemIds, LibraryAssumption
  <2>. QED
    BY <1>0, <1>6, <2>1
<1>7. IsRow(NoRow) /\ ~NoRow.live
  BY DEF IsRow, NoRow
<1>3. Rows
  <2>1. items = [i \in ItemIds |-> items[i]]
    BY <1>0
  <2>. QED
    BY <1>2, <1>7, <2>1 DEF Rows
<1>4. OneItemPerIdentity
  <2>. SUFFICES ASSUME NEW i \in LiveItems, NEW j \in LiveItems, i # j, NEW t \in Spaces
                PROVE  items[i].ids[t] = 0 \/ items[i].ids[t] # items[j].ids[t]
    BY DEF OneItemPerIdentity
  <2>1. i \in ItemIds /\ items[i].live /\ j \in ItemIds /\ items[j].live
    BY DEF LiveItems
  <2>2. /\ i \in 1 .. Len(stock) /\ items[i].ids = stock[i]
        /\ j \in 1 .. Len(stock) /\ items[j].ids = stock[j]
    BY <1>2, <1>7, <2>1
  <2>. QED
    BY <1>1, <2>2 DEF Spaces
<1>5. IndexInv
  <2>1. /\ identityIndex = [pc |-> "idle", built |-> FALSE, gave |-> FALSE, revision |-> 0, at |-> 0,
                            draft |-> NoIdentity, works |-> NoIdentity]
        /\ revision = 0
    BY DEF LibraryInit
  <2>. QED
    BY <2>1 DEF IndexInv, IsIndex
<1>. QED
  BY <1>3, <1>4, <1>5 DEF LibraryInv

\* A call of the service leaves the builder alone; with the revision, all it
\* has read may be out of date.
LEMMA CallKeepsIndex ==
    ASSUME IndexInv, identityIndex' = identityIndex,
           revision' = revision + 1 \/ (revision' = revision /\ IdentityNow' = IdentityNow)
    PROVE  IndexInv'
<1>1. CASE revision' = revision + 1
  <2>1. revision' \in Nat /\ identityIndex.at # revision' /\ identityIndex.revision # revision'
        /\ identityIndex.at <= revision' /\ identityIndex.revision <= revision'
    BY <1>1 DEF IndexInv
  <2>. QED
    BY <2>1 DEF IndexInv
<1>2. CASE revision' = revision /\ IdentityNow' = IdentityNow
  <2>1. MediaItemRows' = MediaItemRows
    <3>1. \A i \in ItemIds : IndexIdentity(items'[i]) = IndexIdentity(items[i])
      BY <1>2 DEF IdentityNow
    <3>. QED
      BY <3>1 DEF MediaItemRows
  <2>. QED
    BY <1>2, <2>1 DEF IndexInv
<1>. QED
  BY <1>1, <1>2

LEMMA BuilderKeepsIndex ==
    ASSUME Rows, IndexInv, IndexStart \/ ListMediaItems \/ loadAllIdentity \/ allIdentity
    PROVE  Rows' /\ IndexInv' /\ UNCHANGED <<items, revision>>
<1>1. UNCHANGED <<items, revision>> /\ MediaItemRows' = MediaItemRows /\ IdentityNow' = IdentityNow
  BY DEF IndexStart, ListMediaItems, loadAllIdentity, allIdentity, MediaItemRows, IdentityNow
<1>3. CASE IndexStart
  <2>. DEFINE x == [identityIndex EXCEPT !.pc = "rows"]
              y == [x EXCEPT !.at = revision]
  <2>1. identityIndex' = [y EXCEPT !.gave = FALSE]
    BY <1>3 DEF IndexStart
  <2>2. IsIndex(x) /\ x.pc = "rows" /\ x.revision = identityIndex.revision /\ x.built = identityIndex.built
        /\ x.works = identityIndex.works
    BY DEF IndexInv, IsIndex
  <2>. HIDE DEF x
  <2>3. IsIndex(y) /\ y.pc = "rows" /\ y.at = revision /\ y.revision = identityIndex.revision
        /\ y.built = identityIndex.built /\ y.works = identityIndex.works
    BY <2>2 DEF IsIndex
  <2>. HIDE DEF y
  <2>4. /\ IsIndex(identityIndex') /\ ~identityIndex'.gave /\ identityIndex'.pc = "rows" /\ identityIndex'.at = revision
        /\ identityIndex'.revision = identityIndex.revision /\ identityIndex'.built = identityIndex.built
        /\ identityIndex'.works = identityIndex.works
    BY <2>1, <2>3 DEF IsIndex
  <2>. QED
    BY <1>1, <2>4 DEF IndexInv, Rows
<1>4. CASE ListMediaItems
  <2>. DEFINE x == [identityIndex EXCEPT !.pc = "aliases"]
  <2>1. identityIndex.pc = "rows" /\ identityIndex' = [x EXCEPT !.draft = MediaItemRows]
    BY <1>4 DEF ListMediaItems
  <2>2. IsIndex(x) /\ x.pc = "aliases" /\ x.gave = identityIndex.gave /\ x.at = identityIndex.at
        /\ x.revision = identityIndex.revision /\ x.built = identityIndex.built /\ x.works = identityIndex.works
    BY DEF IndexInv, IsIndex
  <2>. HIDE DEF x
  <2>3. /\ IsIndex(identityIndex') /\ identityIndex'.pc = "aliases" /\ identityIndex'.gave = identityIndex.gave
        /\ identityIndex'.at = identityIndex.at /\ identityIndex'.revision = identityIndex.revision
        /\ identityIndex'.built = identityIndex.built /\ identityIndex'.works = identityIndex.works
        /\ identityIndex'.draft = MediaItemRows
    BY <2>1, <2>2 DEF IsIndex
  <2>. QED
    BY <1>1, <2>1, <2>3 DEF IndexInv, Rows
<1>5. CASE loadAllIdentity
  <2>. DEFINE whole == [i \in ItemIds |->
                 IF identityIndex.draft[i].live
                   THEN [identityIndex.draft[i] EXCEPT !.aliases = ListAllMediaAliases[i], !.fetched = ListAllIdentitySources[i]]
                   ELSE identityIndex.draft[i]]
  <2>1. ASSUME identityIndex.at = revision
        PROVE  whole = IdentityNow
    <3>1. identityIndex.draft = MediaItemRows
      BY <1>5, <2>1 DEF loadAllIdentity, IndexInv
    <3>2. ASSUME NEW i \in ItemIds
          PROVE  whole[i] = IndexIdentity(items[i])
      <4>1. MediaItemRows[i] = [live |-> items[i].live, ids |-> items[i].ids, title |-> items[i].title,
                                aliases |-> {}, fetched |-> "none"]
        BY DEF MediaItemRows, IndexIdentity
      <4>2. CASE items[i].live
        <5>. DEFINE r == MediaItemRows[i]
                    halfway == [r EXCEPT !.aliases = items[i].aliases]
        <5>1. r = [live |-> items[i].live, ids |-> items[i].ids, title |-> items[i].title,
                   aliases |-> {}, fetched |-> "none"]
          BY <4>1
        <5>2. whole[i] = [MediaItemRows[i] EXCEPT !.aliases = items[i].aliases, !.fetched = items[i].fetched]
          <6>1. MediaItemRows[i].live
            BY <4>1, <4>2
          <6>. QED
            BY <3>1, <6>1 DEF ListAllMediaAliases, ListAllIdentitySources
        <5>3. whole[i] = [halfway EXCEPT !.fetched = items[i].fetched]
          BY <5>2
        <5>. HIDE DEF r, whole
        <5>4. halfway = [live |-> items[i].live, ids |-> items[i].ids, title |-> items[i].title,
                         aliases |-> items[i].aliases, fetched |-> "none"]
          BY <5>1
        <5>. HIDE DEF halfway
        <5>. QED
          BY <5>3, <5>4 DEF IndexIdentity
      <4>3. CASE ~items[i].live
        <5>1. ~MediaItemRows[i].live
          BY <4>1, <4>3
        <5>2. whole[i] = MediaItemRows[i]
          BY <3>1, <5>1
        <5>3. items[i].aliases = {} /\ items[i].fetched = "none"
          <6>1. items[i] = NoRow
            BY <4>3 DEF Rows
          <6>2. NoRow.aliases = {} /\ NoRow.fetched = "none"
            BY DEF NoRow
          <6>. QED
            BY <6>1, <6>2
        <5>. HIDE DEF whole
        <5>. QED
          BY <4>1, <5>2, <5>3 DEF IndexIdentity
      <4>. QED
        BY <4>2, <4>3
    <3>. QED
      BY <3>2 DEF IdentityNow
  <2>2. identityIndex.pc = "aliases" /\ identityIndex' = [identityIndex EXCEPT !.pc = "confirm", !.draft = whole]
    BY <1>5 DEF loadAllIdentity
  <2>. HIDE DEF whole
  <2>. DEFINE x == [identityIndex EXCEPT !.pc = "confirm"]
  <2>3. identityIndex' = [x EXCEPT !.draft = whole]
    BY <2>2
  <2>4. IsIndex(x) /\ x.pc = "confirm" /\ x.gave = identityIndex.gave /\ x.at = identityIndex.at
        /\ x.revision = identityIndex.revision /\ x.built = identityIndex.built /\ x.works = identityIndex.works
    BY DEF IndexInv, IsIndex
  <2>. HIDE DEF x
  <2>5. /\ IsIndex(identityIndex') /\ identityIndex'.pc = "confirm" /\ identityIndex'.gave = identityIndex.gave
        /\ identityIndex'.at = identityIndex.at /\ identityIndex'.revision = identityIndex.revision
        /\ identityIndex'.built = identityIndex.built /\ identityIndex'.works = identityIndex.works
        /\ identityIndex'.draft = whole
    BY <2>3, <2>4 DEF IsIndex
  <2>. QED
    BY <1>1, <2>1, <2>2, <2>5 DEF IndexInv, Rows
<1>6. CASE allIdentity
  <2>. DEFINE x == [identityIndex EXCEPT !.pc = "idle"]
              yes == TRUE
              y == [x EXCEPT !.built = yes]
              z == [y EXCEPT !.gave = yes]
              w == [z EXCEPT !.revision = identityIndex.at]
  <2>1. /\ identityIndex.pc = "confirm"
        /\ \/ identityIndex' = x
           \/ revision = identityIndex.at /\ identityIndex' = [w EXCEPT !.works = identityIndex.draft]
    BY <1>6 DEF allIdentity, DraftConfirmed
  <2>. HIDE DEF yes
  <2>2. IsIndex(x) /\ x.pc = "idle" /\ x.at = identityIndex.at
        /\ x.revision = identityIndex.revision /\ x.built = identityIndex.built /\ x.works = identityIndex.works
    BY DEF IndexInv, IsIndex
  <2>. HIDE DEF x
  <2>3. IsIndex(y) /\ y.pc = "idle" /\ y.at = identityIndex.at
    BY <2>2 DEF IsIndex
  <2>. HIDE DEF y
  <2>4. IsIndex(z) /\ z.pc = "idle" /\ z.at = identityIndex.at
    BY <2>3 DEF IsIndex
  <2>. HIDE DEF z
  <2>5. IsIndex(w) /\ w.pc = "idle" /\ w.at = identityIndex.at /\ w.revision = identityIndex.at
    BY <2>4 DEF IsIndex
  <2>. HIDE DEF w
  <2>6. CASE identityIndex' = x
    BY <1>1, <2>2, <2>6 DEF IndexInv, Rows
  <2>7. CASE revision = identityIndex.at /\ identityIndex' = [w EXCEPT !.works = identityIndex.draft]
    <3>1. /\ IsIndex(identityIndex') /\ identityIndex'.pc = "idle" /\ identityIndex'.at = identityIndex.at
          /\ identityIndex'.revision = identityIndex.at /\ identityIndex'.works = identityIndex.draft
      BY <2>5, <2>7 DEF IsIndex
    <3>. QED
      BY <1>1, <2>1, <2>7, <3>1 DEF IndexInv, Rows
  <2>. QED
    BY <2>1, <2>6, <2>7
<1>. QED
  BY <1>1, <1>3, <1>4, <1>5, <1>6 DEF Rows

LEMMA LibraryStep == LibraryInv /\ [LibraryNext]_libraryVars => LibraryInv'
<1>. SUFFICES ASSUME LibraryInv, [LibraryNext]_libraryVars PROVE LibraryInv'
  OBVIOUS
<1>1. ASSUME NEW c \in Callers, CallStart(c) \/ CallStep(c)
      PROVE  LibraryInv'
  BY <1>1, CallKeepsRows, CallKeepsIndex DEF LibraryInv
<1>2. CASE IndexStart \/ ListMediaItems \/ loadAllIdentity \/ allIdentity
  BY <1>2, BuilderKeepsIndex DEF LibraryInv, OneItemPerIdentity, LiveItems
<1>3. CASE UNCHANGED libraryVars
  <2>1. UNCHANGED <<items, revision, identityIndex>>
    BY <1>3 DEF libraryVars
  <2>2. Rows' /\ OneItemPerIdentity'
    BY <2>1 DEF LibraryInv, Rows, OneItemPerIdentity, LiveItems
  <2>3. IdentityNow' = IdentityNow
    BY <2>1 DEF IdentityNow
  <2>. QED
    BY <2>1, <2>2, <2>3, CallKeepsIndex DEF LibraryInv
<1>. QED
  BY <1>1, <1>2, <1>3 DEF LibraryNext

(* No two items ever carry one provider identity: the check that the         *)
(* inserting transaction makes, and the refresh's, leave no gap for calls    *)
(* that looked earlier (checkCreateIdentity, RefreshMediaItemMetadata).      *)
THEOREM IdentityIsUnique == LibrarySpec => []OneItemPerIdentity
<1>1. LibraryInv => OneItemPerIdentity
  BY DEF LibraryInv
<1>. QED
  BY <1>1, LibraryInitInv, LibraryStep, PTL DEF LibrarySpec

(* An index the matcher is handed under the current revision is the identity *)
(* of the library at that moment (allIdentity): its parts were read in one   *)
(* state of the library, however many writes fell between the reads.         *)
THEOREM IndexIsCurrent == LibrarySpec => HandedOutIndexIsCurrent
<1>. DEFINE Current ==
       /\ identityIndex'.built /\ identityIndex'.revision = revision' => identityIndex'.works = IdentityNow'
       /\ identityIndex.pc = "confirm" /\ identityIndex'.gave => identityIndex'.works = IdentityNow'
<1>1. LibraryInv /\ LibraryInv' /\ [LibraryNext]_libraryVars => [Current]_libraryVars
  <2>. SUFFICES ASSUME LibraryInv, LibraryInv', LibraryNext PROVE Current
    OBVIOUS
  <2>1. identityIndex'.built /\ identityIndex'.revision = revision' => identityIndex'.works = IdentityNow'
    BY DEF LibraryInv, IndexInv
  <2>2. ASSUME identityIndex.pc = "confirm", identityIndex'.gave
        PROVE  identityIndex'.works = IdentityNow'
    <3>1. identityIndex' # identityIndex
      BY <2>2 DEF LibraryInv, IndexInv
    <3>2. allIdentity
      BY <2>2, <3>1, CallKeepsRows DEF LibraryInv, LibraryNext, IndexStart, ListMediaItems, loadAllIdentity
    <3>3. IdentityNow' = IdentityNow
      BY <3>2 DEF allIdentity, IdentityNow
    <3>. QED
      BY <2>2, <3>2, <3>3 DEF allIdentity, DraftConfirmed, LibraryInv, IndexInv, IsIndex
  <2>. QED
    BY <2>1, <2>2
<1>2. HandedOutIndexIsCurrent <=> [][Current]_libraryVars
  BY Zenon DEF HandedOutIndexIsCurrent
<1>. QED
  BY <1>1, <1>2, LibraryInitInv, LibraryStep, PTL DEF LibrarySpec

----------------------------------------------------------------------------
(* LibraryFiles: the edition a file belongs to.                            *)

Attributed(r) ==
    /\ {"copy", "by"} \subseteq DOMAIN r
    /\ r.by # Nobody => r.copy = r.by

\* A repair moves whole records, so it must find them under a folder of the title.
FilesInv ==
    /\ files = [p \in Paths |-> files[p]]
    /\ \A p \in Paths : Attributed(files[p])
    /\ mediaFolder \in ItemFolders
    /\ scan = [s \in Scanners |-> scan[s]]
    /\ \A s \in Scanners : "folder" \in DOMAIN scan[s] /\ scan[s].folder \in ItemFolders

LEMMA FilesInitInv == FilesInit => FilesInv
<1>. SUFFICES ASSUME FilesInit PROVE FilesInv
  OBVIOUS
<1>1. "folder" \in DOMAIN Idling /\ Idling.folder \in ItemFolders
  BY DEF Idling, ItemFolders
<1>2. Attributed(NoRecord)
  BY DEF Attributed, NoRecord
<1>3. mediaFolder \in ItemFolders
  BY DEF FilesInit, ItemFolders
<1>4. files = [p \in Paths |-> NoRecord] /\ scan = [t \in Scanners |-> Idling]
  BY DEF FilesInit
<1>. QED
  BY <1>1, <1>2, <1>3, <1>4 DEF FilesInv

\* Every write but the commit's leaves the edition and who named it as they
\* were, or starts a row that no import has recorded.
LEMMA WritesKeepAttribution ==
    ASSUME NEW r, Attributed(r), NEW x, NEW y, NEW z
    PROVE  /\ Attributed([r EXCEPT !.size = x])
           /\ Attributed(SetFileQualityWithProvenance(r, x))
           /\ Attributed(WriteMediaInfo(r, x))
           /\ Attributed(NoRecord)
           /\ Attributed([NoRecord EXCEPT !.id = x, !.copy = y, !.size = z])
BY DEF Attributed, SetFileQualityWithProvenance, WriteMediaInfo, NoRecord

\* The commit names the edition whatever the row said before.
LEMMA CommitAttributes ==
    ASSUME NEW r, Attributed(r), NEW copy
    PROVE  Attributed([[r EXCEPT !.copy = copy] EXCEPT !.prov = "measured", !.known = TRUE, !.probed = TRUE, !.by = copy])
BY DEF Attributed

LEMMA UpsertKeeps ==
    ASSUME FilesInv, NEW p, NEW copy, NEW size
    PROVE  LET fs == UpsertMediaFile(files, p, copy, size)
           IN fs = [q \in Paths |-> fs[q]] /\ \A q \in Paths : Attributed(fs[q])
<1>. DEFINE new == [NoRecord EXCEPT !.id = NextFileId, !.copy = copy, !.size = size]
            old == [files[p] EXCEPT !.size = size]
            row == IF files[p].id = 0 THEN new ELSE old
            fs == UpsertMediaFile(files, p, copy, size)
<1>1. fs = [files EXCEPT ![p] = row]
  BY DEF UpsertMediaFile
<1>2. ASSUME p \in Paths PROVE Attributed(row)
  <2>1. Attributed(new) /\ Attributed(old)
    BY <1>2, WritesKeepAttribution DEF FilesInv
  <2>. QED
    BY <2>1
<1>. HIDE DEF row, fs
<1>3. fs = [q \in Paths |-> fs[q]] /\ \A q \in Paths : Attributed(fs[q])
  BY <1>1, <1>2 DEF FilesInv
<1>. QED
  BY <1>3 DEF fs

LEMMA CommitKeeps ==
    ASSUME FilesInv, NEW p, NEW copy
    PROVE  LET fs == CommitFileRecord(p, copy)
           IN fs = [q \in Paths |-> fs[q]] /\ \A q \in Paths : Attributed(fs[q])
<1>. DEFINE fs == UpsertMediaFile(files, p, copy, contents[p])
            row == [[fs[p] EXCEPT !.copy = copy] EXCEPT !.prov = "measured", !.known = TRUE, !.probed = TRUE, !.by = copy]
            done == CommitFileRecord(p, copy)
<1>1. fs = [q \in Paths |-> fs[q]] /\ \A q \in Paths : Attributed(fs[q])
  BY UpsertKeeps
<1>2. p \in Paths => Attributed(row)
  BY <1>1, CommitAttributes
<1>3. done = [q \in Paths |-> IF q = p THEN row ELSE fs[q]]
  <2>. HIDE DEF fs
  <2>. QED
    BY <1>1 DEF CommitFileRecord, UpdateMediaFileCopy, fs
<1>. HIDE DEF row, fs, done
<1>4. done = [q \in Paths |-> done[q]] /\ \A q \in Paths : Attributed(done[q])
  BY <1>1, <1>2, <1>3
<1>. QED
  BY <1>4 DEF done

\* A step of a scan or of the repair after its transaction goes on with the
\* folder it has, or ends.
ScanGoesOn(t, x) == StepScan(t, x) /\ "folder" \in DOMAIN x /\ x.folder \in ItemFolders

LEMMA ScanStepKeeps ==
    ASSUME FilesInv, NEW t \in Scanners, NEW x, ScanGoesOn(t, x),
           files' = [p \in Paths |-> files'[p]], \A p \in Paths : Attributed(files'[p]), mediaFolder' \in ItemFolders
    PROVE  FilesInv'
BY DEF FilesInv, ScanGoesOn, StepScan

LEMMA IdlingGoesOn ==
    ASSUME NEW x, NEW y, NEW z, NEW f \in ItemFolders
    PROVE  /\ "folder" \in DOMAIN Idling /\ Idling.folder \in ItemFolders
           /\ LET u == [Idling EXCEPT !.pc = x, !.folder = f] IN "folder" \in DOMAIN u /\ u.folder \in ItemFolders
           /\ LET u == [Idling EXCEPT !.pc = x, !.folder = f, !.copyAt = y] IN "folder" \in DOMAIN u /\ u.folder \in ItemFolders
           /\ LET u == [Idling EXCEPT !.pc = "commit", !.folder = f, !.copyAt = x, !.listed = y, !.todo = z]
              IN "folder" \in DOMAIN u /\ u.folder \in ItemFolders
BY DEF Idling, ItemFolders

LEMMA ScanKept ==
    ASSUME NEW x, "folder" \in DOMAIN x, x.folder \in ItemFolders, NEW a, NEW b, NEW c, NEW d
    PROVE  /\ LET u == [x EXCEPT !.pc = a] IN "folder" \in DOMAIN u /\ u.folder \in ItemFolders
           /\ LET u == [x EXCEPT !.todo = a] IN "folder" \in DOMAIN u /\ u.folder \in ItemFolders
           /\ LET u == [x EXCEPT !.pc = a, !.found = b] IN "folder" \in DOMAIN u /\ u.folder \in ItemFolders
           /\ LET u == [x EXCEPT !.pc = a, !.listed = b] IN "folder" \in DOMAIN u /\ u.folder \in ItemFolders
           /\ LET u == [x EXCEPT !.pc = a, !.todo = b] IN "folder" \in DOMAIN u /\ u.folder \in ItemFolders
           /\ LET u == [x EXCEPT !.pc = a, !.copyAt = b] IN "folder" \in DOMAIN u /\ u.folder \in ItemFolders
           /\ LET u == [x EXCEPT !.pc = a, !.records = b, !.todo = c] IN "folder" \in DOMAIN u /\ u.folder \in ItemFolders
           /\ LET u == [x EXCEPT !.pc = a, !.path = b, !.id = c, !.todo = d] IN "folder" \in DOMAIN u /\ u.folder \in ItemFolders
OBVIOUS

LEMMA ScanItemKeeps ==
    ASSUME FilesInv, NEW t \in Scanners, ScanItem(t)
    PROVE  FilesInv'
<1>. DEFINE Goes == \E x : ScanGoesOn(t, x)
            Same == UNCHANGED <<files, mediaFolder>>
            Fine == files' = [p \in Paths |-> files'[p]] /\ \A p \in Paths : Attributed(files'[p])
<1>1. "folder" \in DOMAIN scan[t] /\ scan[t].folder \in ItemFolders
  BY DEF FilesInv
<1>2. "folder" \in DOMAIN Idling /\ Idling.folder \in ItemFolders
  BY DEF Idling, ItemFolders
<1>3. CASE WalkItem(t) \/ WalkCopy(t) \/ ListFilesForItem(t) \/ FileQualityRecords(t) \/ ScanPruneStart(t) \/ ScanEnd(t)
  <2>1. Same
    BY <1>3 DEF WalkItem, WalkCopy, ListFilesForItem, FileQualityRecords, ScanPruneStart, ScanEnd, ScanOnly
  <2>2. CASE WalkItem(t) \/ WalkCopy(t)
    <3>1. PICK a, b : StepScan(t, [scan[t] EXCEPT !.pc = a, !.found = b])
      BY <2>2 DEF WalkItem, WalkCopy
    <3>2. ScanGoesOn(t, [scan[t] EXCEPT !.pc = a, !.found = b])
      BY <1>1, <3>1, ScanKept DEF ScanGoesOn
    <3>. QED
      BY <2>1, <3>2, ScanStepKeeps DEF FilesInv
  <2>3. CASE ListFilesForItem(t)
    <3>1. ScanGoesOn(t, [scan[t] EXCEPT !.pc = "records", !.listed = ListMediaFilesForItem])
      BY <1>1, <2>3, ScanKept DEF ScanGoesOn, ListFilesForItem
    <3>. QED
      BY <2>1, <3>1, ScanStepKeeps DEF FilesInv
  <2>4. CASE FileQualityRecords(t)
    <3>1. PICK a, b, c : StepScan(t, [scan[t] EXCEPT !.pc = a, !.records = b, !.todo = c])
      BY <2>4 DEF FileQualityRecords
    <3>2. ScanGoesOn(t, [scan[t] EXCEPT !.pc = a, !.records = b, !.todo = c])
      BY <1>1, <3>1, ScanKept DEF ScanGoesOn
    <3>. QED
      BY <2>1, <3>2, ScanStepKeeps DEF FilesInv
  <2>5. CASE ScanPruneStart(t)
    <3>1. PICK a, b : StepScan(t, [scan[t] EXCEPT !.pc = a, !.todo = b])
      BY <2>5 DEF ScanPruneStart
    <3>2. ScanGoesOn(t, [scan[t] EXCEPT !.pc = a, !.todo = b])
      BY <1>1, <3>1, ScanKept DEF ScanGoesOn
    <3>. QED
      BY <2>1, <3>2, ScanStepKeeps DEF FilesInv
  <2>6. CASE ScanEnd(t)
    <3>1. ScanGoesOn(t, Idling)
      BY <1>2, <2>6 DEF ScanEnd, ScanGoesOn
    <3>. QED
      BY <2>1, <3>1, ScanStepKeeps DEF FilesInv
  <2>. QED
    BY <1>3, <2>2, <2>3, <2>4, <2>5, <2>6
<1>4. CASE ScanUpsert(t)
  <2>1. PICK p \in scan[t].todo : files' = UpsertFile(p, FoundAt(t, p).copy, FoundAt(t, p).size)
    BY <1>4 DEF ScanUpsert
  <2>2. Fine
    BY <2>1, UpsertKeeps DEF UpsertFile
  <2>3. Goes /\ mediaFolder' = mediaFolder
    <3>1. PICK a, b, c, d : StepScan(t, [scan[t] EXCEPT !.pc = a, !.path = b, !.id = c, !.todo = d])
      BY <1>4 DEF ScanUpsert
    <3>2. ScanGoesOn(t, [scan[t] EXCEPT !.pc = a, !.path = b, !.id = c, !.todo = d])
      BY <1>1, <3>1, ScanKept DEF ScanGoesOn
    <3>. QED
      BY <1>4, <3>2 DEF ScanUpsert
  <2>. QED
    BY <2>2, <2>3, ScanStepKeeps DEF FilesInv
<1>5. CASE ScanSeed(t)
  <2>1. Fine
    <3>1. files' = files \/ files' = SetFileQualityFrom(scan[t].id, "filename")
      BY <1>5 DEF ScanSeed
    <3>2. ASSUME NEW p \in Paths PROVE Attributed(SetFileQualityWithProvenance(files[p], "filename"))
      BY WritesKeepAttribution DEF FilesInv
    <3>. QED
      BY <3>1, <3>2 DEF FilesInv, SetFileQualityFrom
  <2>2. Goes /\ mediaFolder' = mediaFolder
    <3>1. ScanGoesOn(t, [scan[t] EXCEPT !.pc = "probe"])
      BY <1>1, <1>5, ScanKept DEF ScanSeed, ScanGoesOn
    <3>. QED
      BY <1>5, <3>1 DEF ScanSeed
  <2>. QED
    BY <2>1, <2>2, ScanStepKeeps DEF FilesInv
<1>6. CASE ScanProbe(t)
  <2>1. Same
    BY <1>6 DEF ScanProbe
  <2>2. Goes
    BY <1>1, <1>2, <1>6 DEF ScanProbe, ScanGoesOn
  <2>. QED
    BY <2>1, <2>2, ScanStepKeeps DEF FilesInv
<1>7. CASE ScanPrune(t)
  <2>1. PICK p \in scan[t].todo : files' = DeleteMediaFile(scan[t].listed[p].id)
    BY <1>7 DEF ScanPrune
  <2>2. Fine
    BY <2>1, WritesKeepAttribution DEF DeleteMediaFile, FilesInv
  <2>3. Goes /\ mediaFolder' = mediaFolder
    BY <1>1, <1>7 DEF ScanPrune, ScanGoesOn
  <2>. QED
    BY <2>2, <2>3, ScanStepKeeps DEF FilesInv
<1>. QED
  BY <1>3, <1>4, <1>5, <1>6, <1>7 DEF ScanItem

LEMMA RepairKeeps ==
    ASSUME FilesInv, RepairCommit
    PROVE  FilesInv'
<1>. DEFINE t == scan["repair"]
<1>1. "repair" \in Scanners /\ "folder" \in DOMAIN t /\ t.folder \in ItemFolders
  BY DEF FilesInv, Scanners
<1>2. "folder" \in DOMAIN Idling /\ Idling.folder \in ItemFolders
  BY DEF Idling, ItemFolders
<1>3. CASE ~RepairItemFolder(t.todo, t.folder, t.listed)
  BY <1>1, <1>2, <1>3, ScanStepKeeps DEF RepairCommit, FilesInv, ScanGoesOn
<1>4. CASE RepairItemFolder(t.todo, t.folder, t.listed)
  <2>1. /\ mediaFolder' = t.folder
        /\ files' = [p \in Paths |->
             IF p \in t.todo THEN NoRecord
             ELSE IF p[1] = t.folder /\ MovedTo(p, mediaFolder) \in t.todo
                    THEN files[MovedTo(p, mediaFolder)] ELSE files[p]]
        /\ StepScan("repair", [Idling EXCEPT !.pc = "walk", !.folder = t.folder, !.copyAt = t.copyAt])
    BY <1>4 DEF RepairCommit
  <2>2. ASSUME NEW p \in Paths PROVE MovedTo(p, mediaFolder) \in Paths
    BY DEF Paths, MovedTo, FilesInv
  <2>3. \A p \in Paths : Attributed(files'[p])
    BY <2>1, <2>2, WritesKeepAttribution DEF FilesInv
  <2>4. ScanGoesOn("repair", [Idling EXCEPT !.pc = "walk", !.folder = t.folder, !.copyAt = t.copyAt])
    BY <1>1, <2>1, IdlingGoesOn DEF ScanGoesOn
  <2>. QED
    BY <1>1, <2>1, <2>3, <2>4, ScanStepKeeps
<1>. QED
  BY <1>3, <1>4

LEMMA FilesStep == FilesInv /\ [FilesNext]_fileVars => FilesInv'
<1>. SUFFICES ASSUME FilesInv, [FilesNext]_fileVars PROVE FilesInv'
  OBVIOUS
<1>1. CASE UNCHANGED <<files, mediaFolder, scan>>
  BY <1>1 DEF FilesInv
<1>2. CASE UNCHANGED <<mediaFolder, scan>> /\ files' = [p \in Paths |-> files'[p]] /\ \A p \in Paths : Attributed(files'[p])
  BY <1>2 DEF FilesInv
<1>3. CASE ScanStart \/ ScanCopies
  <2>1. "sweep" \in Scanners /\ UNCHANGED <<files, mediaFolder>>
    BY <1>3 DEF Scanners, ScanStart, ScanCopies, ScanOnly
  <2>2. \E x : ScanGoesOn("sweep", x)
    <3>1. CASE ScanStart
      <4>1. LET u == [Idling EXCEPT !.pc = "copies", !.folder = mediaFolder] IN "folder" \in DOMAIN u /\ u.folder \in ItemFolders
        BY IdlingGoesOn DEF FilesInv
      <4>. QED
        BY <3>1, <4>1 DEF ScanStart, ScanGoesOn
    <3>2. CASE ScanCopies
      <4>1. ScanGoesOn("sweep", Idling) \/ ScanGoesOn("sweep", [scan["sweep"] EXCEPT !.pc = "walk", !.copyAt = copyAt])
        <5>1. "folder" \in DOMAIN scan["sweep"] /\ scan["sweep"].folder \in ItemFolders
          BY <2>1 DEF FilesInv
        <5>2. "folder" \in DOMAIN Idling /\ Idling.folder \in ItemFolders
          BY DEF Idling, ItemFolders
        <5>3. LET u == [scan["sweep"] EXCEPT !.pc = "walk", !.copyAt = copyAt] IN "folder" \in DOMAIN u /\ u.folder \in ItemFolders
          BY <5>1, ScanKept
        <5>. QED
          BY <3>2, <5>2, <5>3 DEF ScanCopies, ScanGoesOn
      <4>. QED
        BY <4>1
    <3>. QED
      BY <1>3, <3>1, <3>2
  <2>. QED
    BY <2>1, <2>2, ScanStepKeeps DEF FilesInv
<1>4. CASE RepairRead
  <2>1. "repair" \in Scanners /\ UNCHANGED <<files, mediaFolder>>
    BY <1>4 DEF Scanners, RepairRead
  <2>2. \E x : ScanGoesOn("repair", x)
    BY <1>4, IdlingGoesOn DEF RepairRead, ScanGoesOn
  <2>. QED
    BY <2>1, <2>2, ScanStepKeeps DEF FilesInv
<1>5. CASE ProbeInfo \/ ProbeQuality
  <2>1. \E x : files' = SetFileMediaInfo(prober.id, x) \/ files' = SetFileQualityFrom(prober.id, x)
    BY <1>5 DEF ProbeInfo, ProbeQuality
  <2>2. files' = [p \in Paths |-> files'[p]] /\ \A p \in Paths : Attributed(files'[p])
    <3>1. PICK x : files' = SetFileMediaInfo(prober.id, x) \/ files' = SetFileQualityFrom(prober.id, x)
      BY <2>1
    <3>2. \A p \in Paths : Attributed(WriteMediaInfo(files[p], x)) /\ Attributed(SetFileQualityWithProvenance(files[p], x))
      BY WritesKeepAttribution DEF FilesInv
    <3>. QED
      BY <3>1, <3>2 DEF FilesInv, SetFileMediaInfo, SetFileQualityFrom
  <2>. QED
    BY <1>2, <1>5, <2>2 DEF ProbeInfo, ProbeQuality, ProbeOnly
<1>6. CASE ImportCommit
  BY <1>2, <1>6, CommitKeeps DEF ImportCommit, ImportOnly
<1>7. CASE DeleteCopyRecords
  BY <1>2, <1>7, WritesKeepAttribution DEF DeleteCopyRecords, DeleteMediaFilesForCopy, FilesInv
<1>8. CASE GetFileQuality \/ ProbeRead \/ ProbeDone \/ ReprobeItem \/ ImportPlan \/ ImportPlace \/ DiskChanges
  BY <1>1, <1>8 DEF GetFileQuality, ProbeRead, ProbeDone, ReprobeItem, ImportPlan, ImportPlace, DiskChanges, ProbeOnly, ImportOnly
<1>9. CASE UNCHANGED fileVars
  BY <1>1, <1>9 DEF fileVars
<1>. QED
  BY <1>3, <1>4, <1>5, <1>6, <1>7, <1>8, <1>9, ScanItemKeeps, RepairKeeps DEF FilesNext, ProbeFile

(* A file that an import recorded keeps the edition that import was for,     *)
(* whatever scans, probes and repairs ran between (UpsertFile, "rescans must *)
(* not stomp imports").                                                      *)
THEOREM AttributionWins == FilesSpec => []ImportAttributionWins
<1>1. FilesInv => ImportAttributionWins
  BY DEF FilesInv, Attributed, ImportAttributionWins, Recorded
<1>. QED
  BY <1>1, FilesInitInv, FilesStep, PTL DEF FilesSpec
===============================================================================
