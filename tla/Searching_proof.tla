--------------------------- MODULE Searching_proof ---------------------------
(***************************************************************************)
(* Proofs about what is searched for and what is taken: the two judgements *)
(* of Quality, the cancellation of a wanted search, and the evidence and   *)
(* the requests of a season comparison, for any number of runs, targets,   *)
(* restarts, seasons, indexers and library edits.                          *)
(***************************************************************************)
EXTENDS Quality, WantedSearch, SeasonSearch, TLAPS, FiniteSetTheorems

(* A release the decision engine accepts is for something on the wanted list *)
(* (decision.go Decide against wanted.go wants): automation never fetches    *)
(* for a want the library considers settled.                                 *)
THEOREM AcceptedIsWanted ==
    ASSUME NEW q, NEW offered, NEW w, NEW p, Accepted(q, offered, w, p)
    PROVE  wants(p, w)
BY DEF Accepted, Decide, wants, NotAcceptableCode

(* What is accepted over a known file outranks it, or the file lacks every   *)
(* required language (quality.go Upgrade): a chain of accepted releases      *)
(* cannot go round in circles on quality alone.                              *)
THEOREM AcceptedImproves ==
    ASSUME NEW q, NEW offered, NEW w, NEW p, Accepted(q, offered, w, p),
           NEW cur \in w.have
    PROVE  /\ Acceptable(p, q)
           /\ LanguageAcceptable(p, offered)
           /\ Better(q, cur) \/ ~LanguageMet(p, w.audio)
<1>1. Upgrade(p, q, offered, cur, w.verified, w.audio)
  BY DEF Accepted, Decide, NotAcceptableCode
<1>q. QED BY <1>1 DEF Upgrade, Better

----------------------------------------------------------------------------
(* The wanted search.  A cancelled run is reported once a reconciler that    *)
(* read the cancellation also read a job that nobody works on; from then on  *)
(* the cancellation keeps every handler of that run short of its search.     *)

RunStatuses == ActiveStatus \cup {"none", "completed", "cancelled", "interrupted"}
TargetStates == {"pending", "searched", "skipped", "failed"}
TargetLists == UNION {[1 .. n -> TargetStates] : n \in 0 .. MaxTargets}
SearchRows == [status : RunStatuses, cancel : BOOLEAN, targets : TargetLists, cursor : Nat,
               processed : Nat, searched : Nat, skipped : Nat, failed : Nat]
SearchJobs == [state : {"none", "queued", "leased", "done", "failed"}, ordinal : Nat]
ChunkResults == {"none", "searched", "failed", "skipped"}
ChunkSteps == {"idle", "start", "check", "reserved", "search", "grab", "commit", "ended", "error"}
Chunks == {c \in [pc : ChunkSteps, result : ChunkResults] : c.pc = "commit" => c.result # "none"}
RunsRead == [id : SearchRuns, cancel : BOOLEAN, cursor : Nat, selected : Nat]
Reconciling == [pc : {"idle", "listed", "decide"}, run : SUBSET RunsRead,
                job : {"none", "queued", "leased", "done", "failed"}]

WantedTyped ==
    /\ searchRun \in [SearchRuns -> SearchRows]
    /\ searchJob \in [SearchRuns -> SearchJobs]
    /\ chunk \in [SearchRuns -> Chunks]
    /\ wantedReconciler \in [Reconcilers -> Reconciling]
    /\ wantOf \in [1 .. MaxTargets -> {"wanted", "inflight", "satisfied"}]
    /\ searchCrashes \in 0 .. MaxSearchCrashes

\* Steps of a handler that has not begun its target, or is done with it.
Quiet == {"idle", "start", "ended", "error"}

\* Only a claimed job is handled.
HandledIsLeased == \A r \in SearchRuns : chunk[r].pc # "idle" => searchJob[r].state = "leased"

CancelledIsQuiet ==
    \A r \in SearchRuns :
        /\ searchRun[r].cancel => searchRun[r].status # "none"
        /\ searchRun[r].status = "cancelled" => searchRun[r].cancel /\ chunk[r].pc \in Quiet

\* What a reconciler read of a cancellation and of a job still holds.
ReadHolds ==
    \A p \in Reconcilers : \A run \in wantedReconciler[p].run :
        /\ wantedReconciler[p].run = {run}
        /\ run.cancel =>
             /\ searchRun[run.id].cancel
             /\ wantedReconciler[p].pc = "decide" /\ wantedReconciler[p].job # "leased" =>
                    chunk[run.id].pc \in Quiet

WantedInv == WantedTyped /\ HandledIsLeased /\ CancelledIsQuiet /\ ReadHolds

\* What a write to a run's row gives.
LEMMA CancelWrite ==
  ASSUME NEW run \in SearchRows, NEW row, row = [run EXCEPT !.cancel = TRUE]
  PROVE  row \in SearchRows /\ row.cancel /\ row.status = run.status
BY DEF SearchRows

LEMMA StatusWrite ==
  ASSUME NEW run \in SearchRows, NEW status \in RunStatuses, NEW row, row = [run EXCEPT !.status = status]
  PROVE  row \in SearchRows /\ row.cancel = run.cancel /\ row.status = status
BY DEF SearchRows

\* A list of targets is a sequence, and recording a result keeps it one.
LEMMA TargetFacts ==
  ASSUME NEW targets \in TargetLists
  PROVE  /\ Len(targets) \in Nat /\ DOMAIN targets = 1 .. Len(targets)
         /\ Len(targets) <= MaxTargets
<1>1. PICK n \in 0 .. MaxTargets : targets \in [1 .. n -> TargetStates]
  BY DEF TargetLists
<1>2. targets \in Seq(TargetStates) /\ Len(targets) = n
  BY <1>1, WantedAssumption
<1> QED
  BY <1>1, <1>2, WantedAssumption

LEMMA TargetWrite ==
  ASSUME NEW targets \in TargetLists, NEW i, NEW result \in TargetStates
  PROVE  [targets EXCEPT ![i] = result] \in TargetLists
<1>1. PICK n \in 0 .. MaxTargets : targets \in [1 .. n -> TargetStates]
  BY DEF TargetLists
<1>2. [targets EXCEPT ![i] = result] \in [1 .. n -> TargetStates]
  BY <1>1
<1> QED
  BY <1>2 DEF TargetLists

LEMMA PendingFacts ==
  ASSUME NEW run \in SearchRows, NEW left \in {{}, Pending(run)}
  PROVE  Cardinality(left) \in Nat
<1>1. DOMAIN run.targets = 1 .. Len(run.targets) /\ Len(run.targets) \in Nat
  BY TargetFacts DEF SearchRows
<1>2. IsFiniteSet(1 .. Len(run.targets))
  BY <1>1, FS_Interval
<1>3. left \subseteq 1 .. Len(run.targets)
  BY <1>1 DEF Pending
<1> QED
  BY <1>2, <1>3, FS_Subset, FS_CardinalityType

LEMMA FinishedFacts ==
  ASSUME NEW run \in SearchRows, NEW status \in RunStatuses, NEW cancelRemaining \in BOOLEAN
  PROVE  /\ Finished(run, status, cancelRemaining) \in SearchRows
         /\ Finished(run, status, cancelRemaining).cancel = run.cancel
         /\ Finished(run, status, cancelRemaining).status =
                IF run.status \in ActiveStatus THEN status ELSE run.status
<1> DEFINE left == IF cancelRemaining THEN Pending(run) ELSE {}
           n == Cardinality(left)
           targets == [i \in DOMAIN run.targets |-> IF i \in left THEN "skipped" ELSE run.targets[i]]
           cursor == IF cancelRemaining THEN Len(run.targets) ELSE run.cursor
           end == IF run.status \in ActiveStatus THEN status ELSE run.status
           row == Finished(run, status, cancelRemaining)
<1>1. n \in Nat
  BY PendingFacts
<1>2. run.targets \in TargetLists /\ run.status \in RunStatuses /\ run.cursor \in Nat
      /\ run.processed \in Nat /\ run.skipped \in Nat
  BY DEF SearchRows
<1>3. targets \in TargetLists
  <2>1. PICK k \in 0 .. MaxTargets : run.targets \in [1 .. k -> TargetStates]
    BY <1>2 DEF TargetLists
  <2>2. targets \in [1 .. k -> TargetStates]
    BY <2>1 DEF TargetStates
  <2> QED
    BY <2>2 DEF TargetLists
<1>4. cursor \in Nat
  BY <1>2, TargetFacts
<1>5. end \in RunStatuses
  BY <1>2
<1>6. run.processed + n \in Nat /\ run.skipped + n \in Nat
  BY <1>1, <1>2
<1>7. row =
        [run EXCEPT !.targets = targets, !.processed = run.processed + n, !.skipped = run.skipped + n,
                    !.cursor = cursor, !.status = end]
  BY Zenon DEF Finished
<1> HIDE DEF left, n, targets, cursor, end, row
<1>8. row \in SearchRows /\ row.cancel = run.cancel /\ row.status = end
  BY <1>3, <1>4, <1>5, <1>6, <1>7 DEF SearchRows
<1> QED
  BY <1>8 DEF end, row

LEMMA CommittedFacts ==
  ASSUME NEW run \in SearchRows, NEW ordinal \in Nat, NEW result \in TargetStates
  PROVE  /\ Committed(run, ordinal, result) \in SearchRows
         /\ Committed(run, ordinal, result).cancel = run.cancel
         /\ Committed(run, ordinal, result).status = run.status
<1> DEFINE targets == [run.targets EXCEPT ![ordinal + 1] = result]
           processed == run.processed + 1
           searched == run.searched + (IF result = "searched" THEN 1 ELSE 0)
           skipped == run.skipped + (IF result = "skipped" THEN 1 ELSE 0)
           failed == run.failed + (IF result = "failed" THEN 1 ELSE 0)
           cursor == run.cursor + 1
           row == Committed(run, ordinal, result)
<1>1. /\ run.targets \in TargetLists /\ run.processed \in Nat /\ run.searched \in Nat
      /\ run.skipped \in Nat /\ run.failed \in Nat /\ run.cursor \in Nat
  BY DEF SearchRows
<1>2. targets \in TargetLists
  BY <1>1, TargetWrite
<1>3. processed \in Nat /\ searched \in Nat /\ skipped \in Nat /\ failed \in Nat /\ cursor \in Nat
  BY <1>1
<1>4. row =
        [run EXCEPT !.targets = targets, !.processed = processed, !.searched = searched,
                    !.skipped = skipped, !.failed = failed, !.cursor = cursor]
  BY Zenon DEF Committed
<1> HIDE DEF targets, processed, searched, skipped, failed, cursor, row
<1>5. row \in SearchRows /\ row.cancel = run.cancel /\ row.status = run.status
  BY <1>2, <1>3, <1>4 DEF SearchRows
<1> QED
  BY <1>5 DEF row

LEMMA ChunkStep ==
  ASSUME chunk \in [SearchRuns -> Chunks], NEW r \in SearchRuns, NEW pc, NEW result,
         [pc |-> pc, result |-> result] \in Chunks, ChunkTo(r, pc, result)
  PROVE  /\ chunk' \in [SearchRuns -> Chunks]
         /\ chunk'[r].pc = pc
         /\ \A q \in SearchRuns : q # r => chunk'[q] = chunk[q]
BY DEF ChunkTo

\* A step of the handler of r does no harm while it stays short of its search,
\* or is past it, or nobody has cancelled.
LEMMA HandlerStep ==
  ASSUME WantedInv, NEW r \in SearchRuns, NEW pc, NEW result,
         [pc |-> pc, result |-> result] \in Chunks, ChunkTo(r, pc, result), chunk[r].pc # "idle",
         pc \in Quiet \/ chunk[r].pc \notin Quiet \/ ~searchRun[r].cancel,
         \A q \in SearchRuns :
             /\ searchRun'[q].cancel = searchRun[q].cancel
             /\ \/ searchRun'[q].status = searchRun[q].status
                \/ searchRun[q].status \in ActiveStatus /\ searchRun'[q].status = "running",
         UNCHANGED <<searchJob, wantedReconciler>>
  PROVE  chunk' \in [SearchRuns -> Chunks] /\ HandledIsLeased' /\ CancelledIsQuiet' /\ ReadHolds'
<1>1. /\ chunk' \in [SearchRuns -> Chunks]
      /\ chunk'[r].pc = pc
      /\ \A q \in SearchRuns : q # r => chunk'[q] = chunk[q]
  BY ChunkStep DEF WantedInv, WantedTyped
<1>2. \A q \in SearchRuns : chunk'[q].pc # "idle" => chunk[q].pc # "idle"
  BY <1>1
<1>3. \A q \in SearchRuns : searchRun[q].cancel /\ chunk[q].pc \in Quiet => chunk'[q].pc \in Quiet
  BY <1>1
<1>4. HandledIsLeased'
  BY <1>2 DEF WantedInv, HandledIsLeased
<1>5. CancelledIsQuiet'
  BY <1>3 DEF WantedInv, CancelledIsQuiet, ActiveStatus
<1>6. ReadHolds'
  <2>1. ASSUME NEW p \in Reconcilers, NEW run \in wantedReconciler[p].run
        PROVE  run.id \in SearchRuns
    BY <2>1 DEF WantedInv, WantedTyped, Reconciling, RunsRead
  <2> QED
    BY <1>3, <2>1 DEF WantedInv, ReadHolds
<1> QED
  BY <1>1, <1>4, <1>5, <1>6

\* A write to runs that keeps their cancellations and reports none cancelled.
LEMMA RunStep ==
  ASSUME WantedInv, searchRun' \in [SearchRuns -> SearchRows], UNCHANGED chunk,
         \A p \in Reconcilers : wantedReconciler'[p] \in {wantedReconciler[p], NotReconciling},
         \A q \in SearchRuns :
             /\ searchRun[q].cancel => searchRun'[q].cancel
             /\ searchRun'[q].cancel => searchRun'[q].status # "none"
             /\ searchRun'[q].status = "cancelled" =>
                    \/ searchRun[q].status = "cancelled"
                    \/ searchRun[q].cancel /\ chunk[q].pc \in Quiet
  PROVE  CancelledIsQuiet' /\ ReadHolds'
<1>1. CancelledIsQuiet'
  BY DEF WantedInv, CancelledIsQuiet
<1>2. ASSUME NEW p \in Reconcilers, NEW run \in wantedReconciler[p].run
      PROVE  run.id \in SearchRuns
  BY <1>2 DEF WantedInv, WantedTyped, Reconciling, RunsRead
<1>3. NotReconciling.run = {}
  BY DEF NotReconciling
<1>4. ReadHolds'
  BY <1>2, <1>3 DEF WantedInv, ReadHolds
<1> QED
  BY <1>1, <1>4

----------------------------------------------------------------------------
(* Each action *)

\* A requests' actions.
LEMMA NoRunFacts == NoRun \in SearchRows /\ ~NoRun.cancel /\ NoRun.status = "none"
<1>1. <<>> \in TargetLists
  BY WantedAssumption DEF TargetLists
<1> QED
  BY <1>1 DEF NoRun, SearchRows, RunStatuses

LEMMA StartKeeps ==
  ASSUME WantedInv, NEW r \in SearchRuns, NEW n \in 0 .. MaxTargets, StartWantedSearch(r, n)
  PROVE  WantedInv'
<1> DEFINE targets == [i \in 1 .. n |-> "pending"]
           row == [NoRun EXCEPT !.status = "queued", !.targets = targets]
<1>1. targets \in TargetLists
  BY DEF TargetLists, TargetStates
<1> HIDE DEF targets
<1>2. NoRun \in SearchRows /\ ~NoRun.cancel /\ "queued" \in RunStatuses
  BY NoRunFacts DEF RunStatuses, ActiveStatus
<1>3. row \in SearchRows /\ ~row.cancel /\ row.status = "queued"
  BY <1>1, <1>2 DEF SearchRows
<1>4. searchRun' = [searchRun EXCEPT ![r] = row] /\ searchRun[r].status = "none"
  BY DEF StartWantedSearch, CreateWantedSearch, targets
<1> HIDE DEF row
<1>5. searchRun' \in [SearchRuns -> SearchRows]
  BY <1>3, <1>4 DEF WantedInv, WantedTyped
<1>6. ~searchRun[r].cancel
  BY <1>4 DEF WantedInv, CancelledIsQuiet
<1>7. searchRun'[r] = row /\ \A q \in SearchRuns : q # r => searchRun'[q] = searchRun[q]
  BY <1>4 DEF WantedInv, WantedTyped
<1>8. CancelledIsQuiet' /\ ReadHolds'
  <2>1. \A q \in SearchRuns :
             /\ searchRun[q].cancel => searchRun'[q].cancel
             /\ searchRun'[q].cancel => searchRun'[q].status # "none"
             /\ searchRun'[q].status = "cancelled" => searchRun[q].status = "cancelled"
    BY <1>3, <1>6, <1>7 DEF WantedInv, CancelledIsQuiet
  <2>2. UNCHANGED <<chunk, wantedReconciler>>
    BY DEF StartWantedSearch
  <2> QED
    BY <1>5, <2>1, <2>2, RunStep
<1> QED
  BY <1>5, <1>8 DEF StartWantedSearch, WantedInv, WantedTyped, HandledIsLeased

LEMMA FinishStep ==
  ASSUME WantedInv, NEW r \in SearchRuns, NEW status \in RunStatuses \ {"none"}, NEW left \in BOOLEAN,
         FinishWantedSearch(r, status, left), UNCHANGED chunk,
         \A p \in Reconcilers : wantedReconciler'[p] \in {wantedReconciler[p], NotReconciling},
         status = "cancelled" => searchRun[r].cancel /\ chunk[r].pc \in Quiet
  PROVE  searchRun' \in [SearchRuns -> SearchRows] /\ CancelledIsQuiet' /\ ReadHolds'
<1>1. searchRun[r] \in SearchRows /\ searchRun \in [SearchRuns -> SearchRows]
  BY DEF WantedInv, WantedTyped
<1> DEFINE row == Finished(searchRun[r], status, left)
<1>2. /\ row \in SearchRows /\ row.cancel = searchRun[r].cancel
      /\ row.status = IF searchRun[r].status \in ActiveStatus THEN status ELSE searchRun[r].status
  BY <1>1, FinishedFacts
<1>3. searchRun' = [searchRun EXCEPT ![r] = row]
  BY DEF FinishWantedSearch
<1> HIDE DEF row
<1>4. /\ searchRun' \in [SearchRuns -> SearchRows] /\ searchRun'[r] = row
      /\ \A q \in SearchRuns : q # r => searchRun'[q] = searchRun[q]
  BY <1>1, <1>2, <1>3
<1>5. \A q \in SearchRuns :
          /\ searchRun[q].cancel => searchRun'[q].cancel
          /\ searchRun'[q].cancel => searchRun'[q].status # "none"
          /\ searchRun'[q].status = "cancelled" =>
                 \/ searchRun[q].status = "cancelled"
                 \/ searchRun[q].cancel /\ chunk[q].pc \in Quiet
  BY <1>2, <1>4 DEF WantedInv, CancelledIsQuiet
<1> QED
  BY <1>4, <1>5, RunStep

LEMMA FinishEmptyKeeps ==
  ASSUME WantedInv, NEW r \in SearchRuns, FinishEmptySearch(r)
  PROVE  WantedInv'
<1>1. searchRun' \in [SearchRuns -> SearchRows] /\ CancelledIsQuiet' /\ ReadHolds'
  <2>1. FinishWantedSearch(r, "completed", FALSE) /\ UNCHANGED <<chunk, wantedReconciler>>
    BY DEF FinishEmptySearch
  <2>2. "completed" \in RunStatuses \ {"none"}
    BY DEF RunStatuses
  <2> QED
    BY <2>1, <2>2, FinishStep
<1> QED
  BY <1>1 DEF FinishEmptySearch, WantedInv, WantedTyped, HandledIsLeased

LEMMA CancelKeeps ==
  ASSUME WantedInv, NEW r \in SearchRuns, RequestWantedSearchCancel(r)
  PROVE  WantedInv'
<1>1. searchRun[r] \in SearchRows /\ searchRun \in [SearchRuns -> SearchRows]
  BY DEF WantedInv, WantedTyped
<1> DEFINE row == [searchRun[r] EXCEPT !.cancel = TRUE]
<1>2. row \in SearchRows /\ row.cancel /\ row.status = searchRun[r].status
  BY <1>1, CancelWrite
<1>3. searchRun' = [searchRun EXCEPT ![r] = row] /\ searchRun[r].status \in ActiveStatus
  BY DEF RequestWantedSearchCancel
<1> HIDE DEF row
<1>4. /\ searchRun' \in [SearchRuns -> SearchRows] /\ searchRun'[r] = row
      /\ \A q \in SearchRuns : q # r => searchRun'[q] = searchRun[q]
  BY <1>1, <1>2, <1>3
<1>5. \A q \in SearchRuns :
          /\ searchRun[q].cancel => searchRun'[q].cancel
          /\ searchRun'[q].cancel => searchRun'[q].status # "none"
          /\ searchRun'[q].status = "cancelled" => searchRun[q].status = "cancelled"
  BY <1>2, <1>3, <1>4 DEF WantedInv, CancelledIsQuiet, ActiveStatus
<1>6. CancelledIsQuiet' /\ ReadHolds'
  BY <1>4, <1>5, RunStep DEF RequestWantedSearchCancel
<1> QED
  BY <1>4, <1>6 DEF RequestWantedSearchCancel, WantedInv, WantedTyped, HandledIsLeased

\* The reconcilers.
LEMMA ReconcilerWrite ==
  ASSUME WantedInv, NEW p \in Reconcilers, NEW state \in Reconciling,
         wantedReconciler' = [wantedReconciler EXCEPT ![p] = state],
         UNCHANGED <<searchRun, chunk>>,
         \A run \in state.run :
             /\ state.run = {run}
             /\ run.cancel =>
                  /\ searchRun[run.id].cancel
                  /\ state.pc = "decide" /\ state.job # "leased" => chunk[run.id].pc \in Quiet
  PROVE  wantedReconciler' \in [Reconcilers -> Reconciling] /\ ReadHolds'
<1>1. wantedReconciler \in [Reconcilers -> Reconciling]
  BY DEF WantedInv, WantedTyped
<1>2. wantedReconciler' \in [Reconcilers -> Reconciling]
  BY <1>1
<1>3. wantedReconciler'[p] = state /\ \A o \in Reconcilers : o # p => wantedReconciler'[o] = wantedReconciler[o]
  BY <1>1
<1> QED
  BY <1>2, <1>3 DEF WantedInv, ReadHolds

LEMMA ListKeeps ==
  ASSUME WantedInv, NEW p \in Reconcilers, ListActiveWantedSearches(p)
  PROVE  WantedInv'
<1>1. PICK r \in SearchRuns :
          wantedReconciler' = [wantedReconciler EXCEPT ![p] = [NotReconciling EXCEPT !.pc = "listed", !.run = {RunAsRead(r)}]]
  BY DEF ListActiveWantedSearches, ActiveRuns
<1> DEFINE read == RunAsRead(r)
           state == [NotReconciling EXCEPT !.pc = "listed", !.run = {read}]
<1>2. searchRun[r] \in SearchRows
  BY DEF WantedInv, WantedTyped
<1>3. read \in RunsRead /\ read.id = r /\ read.cancel = searchRun[r].cancel
  BY <1>2, TargetFacts DEF RunAsRead, RunsRead, SearchRows
<1>4. NotReconciling \in Reconciling
  BY DEF NotReconciling, Reconciling
<1>5. wantedReconciler' = [wantedReconciler EXCEPT ![p] = state]
  BY <1>1
<1> HIDE DEF read
<1>6. state \in Reconciling /\ state.run = {read} /\ state.pc = "listed"
  BY <1>3, <1>4 DEF Reconciling
<1> HIDE DEF state
<1>7. wantedReconciler' \in [Reconcilers -> Reconciling] /\ ReadHolds'
  <2>1. UNCHANGED <<searchRun, chunk>>
    BY DEF ListActiveWantedSearches
  <2>2. \A run \in state.run : run = read
    BY <1>6
  <2> QED
    BY <1>3, <1>5, <1>6, <2>1, <2>2, ReconcilerWrite
<1> QED
  BY <1>7 DEF ListActiveWantedSearches, WantedInv, WantedTyped, HandledIsLeased, CancelledIsQuiet

LEMMA FindKeeps ==
  ASSUME WantedInv, NEW p \in Reconcilers, FindNewestJobByDedupe(p)
  PROVE  WantedInv'
<1>1. PICK run \in wantedReconciler[p].run :
          wantedReconciler' = [wantedReconciler EXCEPT ![p].pc = "decide", ![p].job = searchJob[run.id].state]
  BY DEF FindNewestJobByDedupe
<1>2. /\ wantedReconciler \in [Reconcilers -> Reconciling] /\ run \in RunsRead /\ run.id \in SearchRuns
      /\ searchJob \in [SearchRuns -> SearchJobs]
  BY DEF WantedInv, WantedTyped, Reconciling, RunsRead
<1> DEFINE job == searchJob[run.id].state
           state == [wantedReconciler[p] EXCEPT !.pc = "decide", !.job = job]
<1>3. job \in {"none", "queued", "leased", "done", "failed"}
  BY <1>2 DEF SearchJobs
<1>4. wantedReconciler' = [wantedReconciler EXCEPT ![p] = state]
  BY <1>1, <1>2
<1>5. chunk[run.id].pc \in Quiet \/ job = "leased"
  BY <1>2 DEF WantedInv, HandledIsLeased, Quiet
<1> HIDE DEF job
<1>6. /\ state \in Reconciling /\ state.run = wantedReconciler[p].run /\ state.pc = "decide" /\ state.job = job
  BY <1>2, <1>3 DEF Reconciling
<1> HIDE DEF state
<1>7. wantedReconciler[p].run = {run} /\ (run.cancel => searchRun[run.id].cancel)
  BY DEF WantedInv, ReadHolds
<1>8. wantedReconciler' \in [Reconcilers -> Reconciling] /\ ReadHolds'
  <2>1. UNCHANGED <<searchRun, chunk>>
    BY DEF FindNewestJobByDedupe
  <2>2. \A other \in state.run : other = run
    BY <1>6, <1>7
  <2> QED
    BY <1>4, <1>5, <1>6, <1>7, <2>1, <2>2, ReconcilerWrite
<1> QED
  BY <1>8 DEF FindNewestJobByDedupe, WantedInv, WantedTyped, HandledIsLeased, CancelledIsQuiet

LEMMA ReconcileKeeps ==
  ASSUME WantedInv, NEW p \in Reconcilers, ReconcileWantedSearches(p)
  PROVE  WantedInv'
<1>1. PICK run \in wantedReconciler[p].run :
         LET verdict == Verdict(run, wantedReconciler[p].job)
         IN  \/ verdict = "wait" /\ UNCHANGED <<searchRun, searchJob>>
             \/ verdict = "cancel" /\ FinishWantedSearch(run.id, "cancelled", TRUE) /\ UNCHANGED searchJob
             \/ verdict = "complete" /\ FinishWantedSearch(run.id, "completed", FALSE) /\ UNCHANGED searchJob
             \/ verdict = "interrupt" /\ FinishWantedSearch(run.id, "interrupted", FALSE) /\ UNCHANGED searchJob
             \/ verdict = "enqueue" /\ EnqueueWantedChunk(run) /\ UNCHANGED searchRun
  BY DEF ReconcileWantedSearches
<1>2. /\ wantedReconciler \in [Reconcilers -> Reconciling] /\ run \in RunsRead /\ run.id \in SearchRuns
      /\ run.cursor \in Nat
      /\ searchJob \in [SearchRuns -> SearchJobs] /\ searchRun \in [SearchRuns -> SearchRows]
      /\ wantedReconciler[p].pc = "decide"
  BY DEF WantedInv, WantedTyped, Reconciling, RunsRead, ReconcileWantedSearches
<1>3. Verdict(run, wantedReconciler[p].job) = "cancel" => searchRun[run.id].cancel /\ chunk[run.id].pc \in Quiet
  BY <1>2 DEF Verdict, WantedInv, ReadHolds
<1>4. {"cancelled", "completed", "interrupted"} \subseteq RunStatuses \ {"none"}
  BY DEF RunStatuses
<1>5. /\ UNCHANGED chunk
      /\ wantedReconciler' \in [Reconcilers -> Reconciling]
      /\ \A o \in Reconcilers : wantedReconciler'[o] \in {wantedReconciler[o], NotReconciling}
  <2>1. NotReconciling \in Reconciling
    BY DEF NotReconciling, Reconciling
  <2> QED
    BY <1>2, <2>1 DEF ReconcileWantedSearches
<1>6. ASSUME UNCHANGED searchRun
      PROVE  searchRun' \in [SearchRuns -> SearchRows] /\ CancelledIsQuiet' /\ ReadHolds'
  <2>1. \A q \in SearchRuns : searchRun[q].cancel => searchRun[q].status # "none"
    BY DEF WantedInv, CancelledIsQuiet
  <2>2. searchRun' \in [SearchRuns -> SearchRows]
    BY <1>2, <1>6
  <2> QED
    BY <1>5, <1>6, <2>1, <2>2, RunStep
<1>7. ASSUME NEW status \in {"cancelled", "completed", "interrupted"}, NEW left \in BOOLEAN,
             FinishWantedSearch(run.id, status, left),
             status = "cancelled" => searchRun[run.id].cancel /\ chunk[run.id].pc \in Quiet
      PROVE  searchRun' \in [SearchRuns -> SearchRows] /\ CancelledIsQuiet' /\ ReadHolds'
  BY <1>2, <1>4, <1>5, <1>7, FinishStep
<1>8. searchRun' \in [SearchRuns -> SearchRows] /\ CancelledIsQuiet' /\ ReadHolds'
  <2>1. CASE FinishWantedSearch(run.id, "cancelled", TRUE) /\ Verdict(run, wantedReconciler[p].job) = "cancel"
    BY <1>3, <1>7, <2>1
  <2>2. CASE FinishWantedSearch(run.id, "completed", FALSE)
    BY <1>7, <2>2
  <2>3. CASE FinishWantedSearch(run.id, "interrupted", FALSE)
    BY <1>7, <2>3
  <2> QED
    BY <1>1, <1>6, <2>1, <2>2, <2>3, Zenon
<1>9. searchJob' \in [SearchRuns -> SearchJobs] /\ HandledIsLeased'
  <2>1. CASE UNCHANGED searchJob
    BY <1>2, <1>5, <2>1 DEF WantedInv, HandledIsLeased
  <2>2. CASE EnqueueWantedChunk(run)
    <3> DEFINE job == [state |-> "queued", ordinal |-> run.cursor]
    <3>1. job \in SearchJobs
      BY <1>2 DEF SearchJobs
    <3>2. \/ searchJob' = searchJob
          \/ searchJob[run.id].state # "leased" /\ searchJob' = [searchJob EXCEPT ![run.id] = job]
      BY <2>2 DEF EnqueueWantedChunk
    <3> HIDE DEF job
    <3> QED
      BY <1>2, <1>5, <3>1, <3>2 DEF WantedInv, HandledIsLeased
  <2> QED
    BY <1>1, <2>1, <2>2
<1> QED
  BY <1>5, <1>8, <1>9 DEF ReconcileWantedSearches, WantedInv, WantedTyped

\* The handler.
LEMMA ClaimKeeps ==
  ASSUME WantedInv, NEW r \in SearchRuns, ClaimChunk(r)
  PROVE  WantedInv'
<1>1. /\ searchJob \in [SearchRuns -> SearchJobs] /\ chunk \in [SearchRuns -> Chunks]
      /\ [pc |-> "start", result |-> "none"] \in Chunks
  BY DEF WantedInv, WantedTyped, Chunks, ChunkSteps, ChunkResults
<1>2. chunk' \in [SearchRuns -> Chunks] /\ chunk'[r].pc = "start"
      /\ \A q \in SearchRuns : q # r => chunk'[q] = chunk[q]
  <2>1. ChunkTo(r, "start", "none")
    BY DEF ClaimChunk, ChunkTo
  <2> QED
    BY <1>1, <2>1, ChunkStep
<1>3. /\ searchJob' \in [SearchRuns -> SearchJobs] /\ searchJob'[r].state = "leased"
      /\ \A q \in SearchRuns : q # r => searchJob'[q] = searchJob[q]
  <2> DEFINE job == [searchJob[r] EXCEPT !.state = "leased"]
  <2>1. job \in SearchJobs /\ job.state = "leased"
    BY <1>1 DEF SearchJobs
  <2>2. searchJob' = [searchJob EXCEPT ![r] = job]
    BY DEF ClaimChunk
  <2> HIDE DEF job
  <2> QED
    BY <1>1, <2>1, <2>2
<1>4. HandledIsLeased'
  BY <1>2, <1>3 DEF WantedInv, HandledIsLeased
<1>5. CancelledIsQuiet'
  BY <1>2 DEF WantedInv, CancelledIsQuiet, Quiet, ClaimChunk
<1>6. ReadHolds'
  <2>1. ASSUME NEW p \in Reconcilers, NEW run \in wantedReconciler[p].run
        PROVE  run.id \in SearchRuns
    BY <2>1 DEF WantedInv, WantedTyped, Reconciling, RunsRead
  <2> QED
    BY <1>2, <2>1 DEF WantedInv, ReadHolds, Quiet, ClaimChunk
<1> QED
  BY <1>2, <1>3, <1>4, <1>5, <1>6 DEF ClaimChunk, WantedInv, WantedTyped

LEMMA HandleKeeps ==
  ASSUME WantedInv, NEW r \in SearchRuns, HandleWantedSearchChunk(r)
  PROVE  WantedInv'
<1>1. chunk[r].pc = "start" /\ UNCHANGED <<searchJob, wantedReconciler, wantOf, searchCrashes>>
  BY DEF HandleWantedSearchChunk
<1>2. searchRun \in [SearchRuns -> SearchRows] /\ searchRun[r] \in SearchRows
  BY DEF WantedInv, WantedTyped
<1>3. CASE ChunkIsCurrent(r)
  <2> DEFINE row == [searchRun[r] EXCEPT !.status = "running"]
  <2>1. row \in SearchRows /\ row.cancel = searchRun[r].cancel /\ row.status = "running"
    BY <1>2, StatusWrite DEF RunStatuses, ActiveStatus
  <2>2. searchRun' = [searchRun EXCEPT ![r] = row] /\ ChunkTo(r, "check", "none")
    BY <1>3 DEF HandleWantedSearchChunk
  <2>3. ~searchRun[r].cancel /\ searchRun[r].status \in ActiveStatus
    BY <1>3 DEF ChunkIsCurrent, OwnsCursor
  <2> HIDE DEF row
  <2>4. /\ searchRun' \in [SearchRuns -> SearchRows]
        /\ \A q \in SearchRuns :
             /\ searchRun'[q].cancel = searchRun[q].cancel
             /\ \/ searchRun'[q].status = searchRun[q].status
                \/ searchRun[q].status \in ActiveStatus /\ searchRun'[q].status = "running"
    BY <1>2, <2>1, <2>2, <2>3
  <2>5. [pc |-> "check", result |-> "none"] \in Chunks
    BY DEF Chunks, ChunkSteps, ChunkResults
  <2>6. chunk' \in [SearchRuns -> Chunks] /\ HandledIsLeased' /\ CancelledIsQuiet' /\ ReadHolds'
    BY <1>1, <2>2, <2>3, <2>4, <2>5, HandlerStep
  <2> QED
    BY <1>1, <2>4, <2>6 DEF WantedInv, WantedTyped
<1>4. CASE ~ChunkIsCurrent(r)
  <2>1. UNCHANGED searchRun /\ ChunkTo(r, "ended", "none")
    BY <1>4 DEF HandleWantedSearchChunk
  <2>2. [pc |-> "ended", result |-> "none"] \in Chunks /\ "ended" \in Quiet
    BY DEF Chunks, ChunkSteps, ChunkResults, Quiet
  <2>3. chunk' \in [SearchRuns -> Chunks] /\ HandledIsLeased' /\ CancelledIsQuiet' /\ ReadHolds'
    BY <1>1, <2>1, <2>2, HandlerStep
  <2> QED
    BY <1>1, <2>1, <2>3 DEF WantedInv, WantedTyped
<1> QED
  BY <1>3, <1>4

\* The steps of the search itself, of its end and of its failures.
LEMMA SearchingKeeps ==
  ASSUME WantedInv, NEW r \in SearchRuns, NEW pc, NEW result,
         [pc |-> pc, result |-> result] \in Chunks, ChunkTo(r, pc, result), chunk[r].pc # "idle",
         pc \in Quiet \/ chunk[r].pc \notin Quiet,
         UNCHANGED <<searchRun, searchJob, wantedReconciler, searchCrashes>>,
         wantOf' \in [1 .. MaxTargets -> {"wanted", "inflight", "satisfied"}]
  PROVE  WantedInv'
<1>1. chunk' \in [SearchRuns -> Chunks] /\ HandledIsLeased' /\ CancelledIsQuiet' /\ ReadHolds'
  BY HandlerStep
<1> QED
  BY <1>1 DEF WantedInv, WantedTyped

LEMMA SearchKeeps ==
  ASSUME WantedInv, NEW r \in SearchRuns,
         ExecuteWantedTarget(r) \/ SearchAndGrabBestScoped(r) \/ SearchAndGrabBestReserved(r) \/ AutoGrab(r)
  PROVE  WantedInv'
<1>1. /\ chunk[r].pc \in {"check", "reserved", "search", "grab"}
      /\ UNCHANGED <<searchRun, searchJob, wantedReconciler, searchCrashes>>
  BY DEF ExecuteWantedTarget, SearchAndGrabBestScoped, SearchAndGrabBestReserved, AutoGrab
<1>2. wantOf' \in [1 .. MaxTargets -> {"wanted", "inflight", "satisfied"}]
  <2>1. wantOf \in [1 .. MaxTargets -> {"wanted", "inflight", "satisfied"}]
    BY DEF WantedInv, WantedTyped
  <2>2. CASE AutoGrab(r)
    BY <2>1, <2>2 DEF AutoGrab
  <2> QED
    BY <2>1, <2>2 DEF ExecuteWantedTarget, SearchAndGrabBestScoped, SearchAndGrabBestReserved
<1>3. PICK pc \in {"commit", "reserved", "search", "grab"}, result \in ChunkResults :
          ChunkTo(r, pc, result) /\ (pc = "commit" => result # "none")
  BY DEF ExecuteWantedTarget, SearchAndGrabBestScoped, SearchAndGrabBestReserved, AutoGrab, ChunkResults,
         SearchResults
<1>4. [pc |-> pc, result |-> result] \in Chunks
  BY <1>3 DEF Chunks, ChunkSteps
<1>5. chunk[r].pc \notin Quiet /\ chunk[r].pc # "idle"
  BY <1>1 DEF Quiet
<1> QED
  BY <1>1, <1>2, <1>3, <1>4, <1>5, SearchingKeeps

LEMMA CommitKeeps ==
  ASSUME WantedInv, NEW r \in SearchRuns, CommitWantedSearchTarget(r)
  PROVE  WantedInv'
<1>1. /\ chunk[r].pc = "commit" /\ UNCHANGED <<searchJob, wantedReconciler, wantOf, searchCrashes>>
      /\ wantOf \in [1 .. MaxTargets -> {"wanted", "inflight", "satisfied"}]
  BY DEF CommitWantedSearchTarget, WantedInv, WantedTyped
<1>2. PICK pc \in {"ended", "error"} : ChunkTo(r, pc, "none")
  BY DEF CommitWantedSearchTarget
<1>3. [pc |-> pc, result |-> "none"] \in Chunks /\ pc \in Quiet
  BY DEF Chunks, ChunkSteps, ChunkResults, Quiet
<1>4. CASE UNCHANGED searchRun
  BY <1>1, <1>2, <1>3, <1>4, SearchingKeeps
<1>5. CASE searchRun' = [searchRun EXCEPT ![r] = Committed(@, searchJob[r].ordinal, chunk[r].result)]
  <2> DEFINE row == Committed(searchRun[r], searchJob[r].ordinal, chunk[r].result)
  <2>1. /\ searchRun \in [SearchRuns -> SearchRows] /\ searchRun[r] \in SearchRows
        /\ searchJob[r].ordinal \in Nat /\ chunk[r].result \in TargetStates
    BY <1>1 DEF WantedInv, WantedTyped, SearchJobs, Chunks, ChunkSteps, ChunkResults, TargetStates
  <2>2. row \in SearchRows /\ row.cancel = searchRun[r].cancel /\ row.status = searchRun[r].status
    BY <2>1, CommittedFacts
  <2>3. searchRun' = [searchRun EXCEPT ![r] = row]
    BY <1>5, <2>1
  <2> HIDE DEF row
  <2>4. /\ searchRun' \in [SearchRuns -> SearchRows]
        /\ \A q \in SearchRuns :
             searchRun'[q].cancel = searchRun[q].cancel /\ searchRun'[q].status = searchRun[q].status
    BY <2>1, <2>2, <2>3
  <2>5. chunk' \in [SearchRuns -> Chunks] /\ HandledIsLeased' /\ CancelledIsQuiet' /\ ReadHolds'
    BY <1>1, <1>2, <1>3, <2>4, HandlerStep
  <2> QED
    BY <1>1, <2>4, <2>5 DEF WantedInv, WantedTyped
<1> QED
  BY <1>4, <1>5 DEF CommitWantedSearchTarget

LEMMA EndKeeps ==
  ASSUME WantedInv, NEW r \in SearchRuns, ChunkEnds(r)
  PROVE  WantedInv'
<1>1. /\ chunk[r].pc # "idle" /\ ChunkTo(r, "idle", "none")
      /\ UNCHANGED <<searchRun, wantedReconciler, wantOf, searchCrashes>>
      /\ [pc |-> "idle", result |-> "none"] \in Chunks
  BY DEF ChunkEnds, Chunks, ChunkSteps, ChunkResults
<1>2. /\ searchJob \in [SearchRuns -> SearchJobs] /\ chunk \in [SearchRuns -> Chunks]
  BY DEF WantedInv, WantedTyped
<1>3. chunk' \in [SearchRuns -> Chunks] /\ chunk'[r].pc = "idle"
      /\ \A q \in SearchRuns : q # r => chunk'[q] = chunk[q]
  BY <1>1, <1>2, ChunkStep
<1>4. PICK state \in {"done", "queued", "failed"} : searchJob' = [searchJob EXCEPT ![r].state = state]
  BY DEF ChunkEnds
<1> DEFINE job == [searchJob[r] EXCEPT !.state = state]
<1>5. job \in SearchJobs
  BY <1>2 DEF SearchJobs
<1>6. searchJob' = [searchJob EXCEPT ![r] = job]
  BY <1>4
<1> HIDE DEF job
<1>7. searchJob' \in [SearchRuns -> SearchJobs] /\ \A q \in SearchRuns : q # r => searchJob'[q] = searchJob[q]
  BY <1>2, <1>5, <1>6
<1>8. HandledIsLeased'
  BY <1>3, <1>7 DEF WantedInv, HandledIsLeased
<1>9. CancelledIsQuiet'
  BY <1>1, <1>3 DEF WantedInv, CancelledIsQuiet, Quiet
<1>10. ReadHolds'
  <2>1. ASSUME NEW p \in Reconcilers, NEW run \in wantedReconciler[p].run
        PROVE  run.id \in SearchRuns
    BY <2>1 DEF WantedInv, WantedTyped, Reconciling, RunsRead
  <2> QED
    BY <1>1, <1>3, <2>1 DEF WantedInv, ReadHolds, Quiet
<1> QED
  BY <1>1, <1>3, <1>7, <1>8, <1>9, <1>10 DEF WantedInv, WantedTyped

LEMMA FailKeeps ==
  ASSUME WantedInv, NEW r \in SearchRuns, ChunkFails(r)
  PROVE  WantedInv'
<1>1. /\ ChunkTo(r, "error", "none") /\ chunk[r].pc # "idle"
      /\ UNCHANGED <<searchRun, searchJob, wantedReconciler, searchCrashes>>
      /\ wantOf' \in [1 .. MaxTargets -> {"wanted", "inflight", "satisfied"}]
  BY DEF ChunkFails, WantedInv, WantedTyped
<1>2. [pc |-> "error", result |-> "none"] \in Chunks /\ "error" \in Quiet
  BY DEF Chunks, ChunkSteps, ChunkResults, Quiet
<1> QED
  BY <1>1, <1>2, SearchingKeeps

\* The surroundings.
LEMMA WantKeeps ==
  ASSUME WantedInv, NEW i \in 1 .. MaxTargets, AnotherGrab(i) \/ DownloadSettles(i)
  PROVE  WantedInv'
<1>1. UNCHANGED <<searchRun, searchJob, chunk, wantedReconciler, searchCrashes>>
  BY DEF AnotherGrab, DownloadSettles
<1>2. wantOf' \in [1 .. MaxTargets -> {"wanted", "inflight", "satisfied"}]
  BY DEF WantedInv, WantedTyped, AnotherGrab, DownloadSettles
<1> QED
  BY <1>1, <1>2 DEF WantedInv, WantedTyped, HandledIsLeased, CancelledIsQuiet, ReadHolds

LEMMA RestartKeeps ==
  ASSUME WantedInv, SearchRestart
  PROVE  WantedInv'
<1>1. NoChunk \in Chunks /\ NoChunk.pc = "idle" /\ NotReconciling \in Reconciling /\ NotReconciling.run = {}
  BY DEF NoChunk, NotReconciling, Chunks, ChunkSteps, ChunkResults, Reconciling
<1>2. /\ chunk' = [r \in SearchRuns |-> NoChunk]
      /\ wantedReconciler' = [p \in Reconcilers |-> NotReconciling]
      /\ UNCHANGED <<searchRun, wantOf>>
      /\ searchCrashes' \in 0 .. MaxSearchCrashes
  BY WantedAssumption DEF SearchRestart, WantedInv, WantedTyped
<1>3. searchJob' \in [SearchRuns -> SearchJobs]
  <2>1. PICK state \in {"queued", "failed"} :
            searchJob' = [r \in SearchRuns |-> IF searchJob[r].state = "leased"
                                               THEN [searchJob[r] EXCEPT !.state = state] ELSE searchJob[r]]
    BY DEF SearchRestart
  <2>2. ASSUME NEW r \in SearchRuns
        PROVE  searchJob[r] \in SearchJobs /\ [searchJob[r] EXCEPT !.state = state] \in SearchJobs
    <3>1. searchJob[r] \in SearchJobs
      BY DEF WantedInv, WantedTyped
    <3> QED
      BY <3>1 DEF SearchJobs
  <2> QED
    BY <2>1, <2>2
<1>4. chunk' \in [SearchRuns -> Chunks] /\ wantedReconciler' \in [Reconcilers -> Reconciling]
      /\ (\A r \in SearchRuns : chunk'[r].pc = "idle")
      /\ (\A p \in Reconcilers : wantedReconciler'[p].run = {})
  BY <1>1, <1>2
<1>5. HandledIsLeased' /\ ReadHolds'
  BY <1>4 DEF HandledIsLeased, ReadHolds
<1>6. CancelledIsQuiet'
  BY <1>2, <1>4 DEF WantedInv, CancelledIsQuiet, Quiet
<1> QED
  BY <1>2, <1>3, <1>4, <1>5, <1>6 DEF WantedInv, WantedTyped

THEOREM WantedInductive == WantedSpec => []WantedInv
<1>1. ASSUME WantedInit PROVE WantedInv
  <2>1. NoRun \in SearchRows /\ ~NoRun.cancel /\ NoRun.status = "none"
    BY NoRunFacts
  <2>2. NoChunk \in Chunks /\ NoChunk.pc = "idle" /\ NotReconciling \in Reconciling /\ NotReconciling.run = {}
        /\ NoSearchJob \in SearchJobs
    BY DEF NoChunk, NotReconciling, NoSearchJob, Chunks, ChunkSteps, ChunkResults, Reconciling, SearchJobs
  <2>3. WantedTyped
    BY <1>1, <2>1, <2>2, WantedAssumption DEF WantedInit, WantedTyped
  <2>4. /\ \A r \in SearchRuns : chunk[r].pc = "idle" /\ ~searchRun[r].cancel /\ searchRun[r].status = "none"
        /\ \A p \in Reconcilers : wantedReconciler[p].run = {}
    BY <1>1, <2>1, <2>2 DEF WantedInit
  <2> QED
    BY <2>3, <2>4 DEF WantedInv, HandledIsLeased, CancelledIsQuiet, ReadHolds, Quiet
<1>2. ASSUME WantedInv, [WantedNext]_wantedVars PROVE WantedInv'
  <2>1. ASSUME NEW r \in SearchRuns, NEW n \in 0 .. MaxTargets, StartWantedSearch(r, n) PROVE WantedInv'
    BY <1>2, <2>1, StartKeeps
  <2>2. ASSUME NEW r \in SearchRuns, FinishEmptySearch(r) PROVE WantedInv'
    BY <1>2, <2>2, FinishEmptyKeeps
  <2>3. ASSUME NEW r \in SearchRuns, RequestWantedSearchCancel(r) PROVE WantedInv'
    BY <1>2, <2>3, CancelKeeps
  <2>4. ASSUME NEW r \in SearchRuns, ClaimChunk(r) PROVE WantedInv'
    BY <1>2, <2>4, ClaimKeeps
  <2>5. ASSUME NEW r \in SearchRuns, HandleWantedSearchChunk(r) PROVE WantedInv'
    BY <1>2, <2>5, HandleKeeps
  <2>6. ASSUME NEW r \in SearchRuns,
               ExecuteWantedTarget(r) \/ SearchAndGrabBestScoped(r) \/ SearchAndGrabBestReserved(r) \/ AutoGrab(r)
        PROVE  WantedInv'
    BY <1>2, <2>6, SearchKeeps
  <2>7. ASSUME NEW r \in SearchRuns, CommitWantedSearchTarget(r) PROVE WantedInv'
    BY <1>2, <2>7, CommitKeeps
  <2>8. ASSUME NEW r \in SearchRuns, ChunkFails(r) PROVE WantedInv'
    BY <1>2, <2>8, FailKeeps
  <2>9. ASSUME NEW r \in SearchRuns, ChunkEnds(r) PROVE WantedInv'
    BY <1>2, <2>9, EndKeeps
  <2>10. ASSUME NEW p \in Reconcilers, ListActiveWantedSearches(p) PROVE WantedInv'
    BY <1>2, <2>10, ListKeeps
  <2>11. ASSUME NEW p \in Reconcilers, FindNewestJobByDedupe(p) PROVE WantedInv'
    BY <1>2, <2>11, FindKeeps
  <2>12. ASSUME NEW p \in Reconcilers, ReconcileWantedSearches(p) PROVE WantedInv'
    BY <1>2, <2>12, ReconcileKeeps
  <2>13. ASSUME NEW i \in 1 .. MaxTargets, AnotherGrab(i) \/ DownloadSettles(i) PROVE WantedInv'
    BY <1>2, <2>13, WantKeeps
  <2>14. CASE SearchRestart
    BY <1>2, <2>14, RestartKeeps
  <2>15. CASE UNCHANGED wantedVars
    BY <1>2, <2>15 DEF WantedInv, WantedTyped, HandledIsLeased, CancelledIsQuiet, ReadHolds, wantedVars
  <2> QED
    BY <1>2, <2>1, <2>2, <2>3, <2>4, <2>5, <2>6, <2>7, <2>8, <2>9, <2>10, <2>11, <2>12, <2>13, <2>14, <2>15
    DEF WantedNext
<1> QED
  BY <1>1, <1>2, PTL DEF WantedSpec

(* The rows of a search stay well-formed: a run's status and its targets'    *)
(* results, a job's state and the steps of its handler.                      *)
THEOREM WantedTypeCorrect == WantedSpec => []WantedTypeOK
<1>1. WantedInv => WantedTypeOK
  BY DEF WantedInv, WantedTyped, WantedTypeOK, SearchRows, SearchJobs, Chunks, ChunkSteps, RunStatuses,
         TargetLists, TargetStates
<1> QED
  BY <1>1, WantedInductive, PTL

(* Once a run is reported cancelled nothing is grabbed for it, however many  *)
(* reconcilers act on what they read of the run and of its job a while ago   *)
(* (ReconcileWantedSearches, CancelWantedSearch): whoever reports it had     *)
(* read the request before the job, and the job asks about the request       *)
(* before it begins and again before its grab.                               *)
THEOREM NoneGrabbed == WantedSpec => NoGrabAfterCancelled
<1>1. WantedInv =>
        \A r \in SearchRuns :
            chunk[r].pc = "grab" /\ wantOf' # wantOf /\ chunk' # chunk => searchRun[r].status # "cancelled"
  BY DEF WantedInv, CancelledIsQuiet, Quiet
<1> QED
  BY <1>1, WantedInductive, PTL DEF NoGrabAfterCancelled

----------------------------------------------------------------------------
(* The season comparison.  The worker's copy carries the generations it was  *)
(* claimed with, the payload those and the newer ones, so that neither the   *)
(* write-back nor the deferral passes a request over.  A release found under *)
(* a revision never outlives it in a checkpoint that may admit a plan.       *)

ScopeStates == [fails : Nat, end : {"todo", "complete", "reasons", "degraded"}]
ScopeMaps == UNION {[D -> ScopeStates] : D \in SUBSET Scope}
Stages == {"", "season", "episodes"}
Evidence == SUBSET Nat
Checkpoints == [manual : BOOLEAN, mgen : Nat, rgen : Nat, started : BOOLEAN, rev : Nat,
                partial : BOOLEAN, stage : Stages, scopes : ScopeMaps, found : Evidence, cool : BOOLEAN]
Claims == [manual : BOOLEAN, mgen : Nat, rgen : Nat]
JobStates == {"none", "queued", "leased", "done", "failed"}
Waits == {"now", "backoff", "later"}
SeasonJobs == [state : JobStates, after : Waits, pay : Checkpoints]
RunSteps == {"idle", "open", "scopes", "admit", "over", "check", "rerun", "retire"}
Returns == {"", "done", "now", "later", "error"}
SeasonRuns == [pc : RunSteps, claimed : Claims, p : Checkpoints, res : Returns]

SeasonTyped ==
    /\ sjob \in [Seasons -> SeasonJobs]
    /\ srun \in [Seasons -> SeasonRuns]
    /\ compared \in [Seasons -> {"none", "week", "minutes"}]
    /\ planLive \in [Seasons -> BOOLEAN]
    /\ asking \in [Seasons -> {"", "press", "replan"}]
    /\ owed \in [Seasons -> SUBSET {"press", "replan"}]
    /\ catalog \in 1 .. (MaxEdits + 1)

\* What a checkpoint holds was found under the revision it names, if that is
\* the library's still.
Dated(p) ==
    /\ p.rev <= catalog
    /\ p.rev = catalog => p.found \subseteq {catalog, Feed}
    /\ p.rev = 0 => p.found \subseteq {Feed} /\ ~p.started

\* Steps that work on the claimed copy, and those after the comparison opened.
Working == {"open", "scopes", "admit", "over"}
Opened == {"scopes", "admit", "over"}

\* A newer generation of presses comes with the manual mark.
Marked(p, claimed) == p.mgen > claimed.mgen => p.manual

\* What was asked since the claim shows in the payload's generations.
Shows(pay, claimed, asked) ==
    /\ claimed.mgen <= pay.mgen /\ claimed.rgen <= pay.rgen
    /\ Marked(pay, claimed)
    /\ "press" \in asked => pay.mgen > claimed.mgen
    /\ "replan" \in asked => pay.rgen > claimed.rgen

Copied(run) ==
    /\ run.pc \in Working => run.p.mgen = run.claimed.mgen /\ run.p.rgen = run.claimed.rgen
    /\ run.pc \in Opened => run.p.started

SeasonOK(s) ==
    /\ Dated(sjob[s].pay) /\ Dated(srun[s].p)
    /\ sjob[s].state = "leased" =>
         /\ Shows(sjob[s].pay, srun[s].claimed, owed[s])
         /\ srun[s].p.mgen <= sjob[s].pay.mgen /\ srun[s].p.rgen <= sjob[s].pay.rgen
         /\ Marked(srun[s].p, srun[s].claimed)
         /\ Copied(srun[s])
    /\ sjob[s].state = "queued" /\ sjob[s].after = "later" => owed[s] = {}

SeasonInv == SeasonTyped /\ \A s \in Seasons : SeasonOK(s)

\* What the writes to a checkpoint give.
LEMMA EmptyMapFacts == <<>> \in ScopeMaps
BY DEF ScopeMaps

LEMMA EmptyFacts ==
  /\ EmptyCheckpoint \in Checkpoints
  /\ ~EmptyCheckpoint.manual /\ EmptyCheckpoint.mgen = 0 /\ EmptyCheckpoint.rgen = 0
  /\ ~EmptyCheckpoint.started /\ EmptyCheckpoint.rev = 0 /\ EmptyCheckpoint.found = {}
BY EmptyMapFacts DEF EmptyCheckpoint, Checkpoints, Stages, Evidence

LEMMA UpdateFacts ==
  ASSUME NEW stored \in Checkpoints, NEW p \in Checkpoints
  PROVE  LET q == UpdateJobCheckpoint(stored, p)
         IN  /\ q \in Checkpoints
             /\ q.manual = (p.manual \/ stored.mgen > p.mgen)
             /\ q.mgen = IF stored.mgen > p.mgen THEN stored.mgen ELSE p.mgen
             /\ q.rgen = IF stored.rgen > p.rgen THEN stored.rgen ELSE p.rgen
             /\ q.started = p.started /\ q.rev = p.rev /\ q.found = p.found
<1> DEFINE q == UpdateJobCheckpoint(stored, p)
           manual == p.manual \/ stored.mgen > p.mgen
           mgen == IF stored.mgen > p.mgen THEN stored.mgen ELSE p.mgen
           rgen == IF stored.rgen > p.rgen THEN stored.rgen ELSE p.rgen
<1>1. manual \in BOOLEAN /\ mgen \in Nat /\ rgen \in Nat
  BY DEF Checkpoints
<1>2. q = [p EXCEPT !.manual = manual, !.mgen = mgen, !.rgen = rgen]
  BY Zenon DEF UpdateJobCheckpoint
<1> HIDE DEF q, manual, mgen, rgen
<1>3. /\ q \in Checkpoints /\ q.manual = manual /\ q.mgen = mgen /\ q.rgen = rgen
      /\ q.started = p.started /\ q.rev = p.rev /\ q.found = p.found
  BY <1>1, <1>2 DEF Checkpoints
<1> QED
  BY <1>3 DEF q, manual, mgen, rgen

\* An evidence clock that is stopped: the requests stay, the evidence goes.
Stopped(q, p) ==
    /\ q \in Checkpoints /\ q.mgen = p.mgen /\ q.rgen = p.rgen
    /\ ~q.started /\ q.found = {}

LEMMA DropFacts ==
  ASSUME NEW p \in Checkpoints
  PROVE  Stopped(DropEvidence(p), p) /\ DropEvidence(p).rev = p.rev /\ DropEvidence(p).manual = p.manual
<1> DEFINE q == DropEvidence(p)
           stopped == FALSE
           none == <<>>
           nothing == {}
           stage == ""
<1>1. stopped \in BOOLEAN /\ none \in ScopeMaps /\ nothing \in Evidence /\ stage \in Stages
  BY EmptyMapFacts DEF Evidence, Stages
<1>2. q = [p EXCEPT !.started = stopped, !.scopes = none, !.found = nothing, !.stage = stage]
  BY DEF DropEvidence
<1>3. ~stopped /\ nothing = {}
  OBVIOUS
<1> HIDE DEF q, stopped, none, nothing, stage
<1>4. q \in Checkpoints /\ q.mgen = p.mgen /\ q.rgen = p.rgen /\ q.started = stopped /\ q.found = nothing
      /\ q.rev = p.rev /\ q.manual = p.manual
  BY <1>1, <1>2 DEF Checkpoints
<1> QED
  BY <1>3, <1>4 DEF q, Stopped

LEMMA RevWrite ==
  ASSUME NEW p \in Checkpoints, NEW rev \in Nat
  PROVE  LET q == [p EXCEPT !.rev = rev]
         IN  /\ q \in Checkpoints /\ q.rev = rev /\ q.manual = p.manual /\ q.mgen = p.mgen /\ q.rgen = p.rgen
             /\ q.started = p.started /\ q.found = p.found
BY DEF Checkpoints

LEMMA EpochWrite ==
  ASSUME NEW p \in Checkpoints
  PROVE  LET q == EndManualEpoch(p)
         IN  /\ q \in Checkpoints /\ q.rev = p.rev /\ ~q.manual /\ q.mgen = p.mgen /\ q.rgen = p.rgen
             /\ q.started = p.started /\ q.found = p.found
BY DEF Checkpoints, EndManualEpoch

LEMMA RefreshFacts ==
  ASSUME NEW p \in Checkpoints
  PROVE  Stopped(RefreshEvidence(p), p) /\ RefreshEvidence(p).rev = p.rev /\ ~RefreshEvidence(p).manual
<1>1. DropEvidence(p) \in Checkpoints
  BY DropFacts DEF Stopped
<1> QED
  BY <1>1, DropFacts, EpochWrite DEF RefreshEvidence, Stopped

LEMMA NextEpochFacts ==
  ASSUME NEW p \in Checkpoints
  PROVE  Stopped(NextEpoch(p), p) /\ NextEpoch(p).rev = 0 /\ ~NextEpoch(p).manual
<1> DEFINE d == DropEvidence(p)
           q == [d EXCEPT !.rev = 0]
<1>1. d \in Checkpoints /\ d.mgen = p.mgen /\ d.rgen = p.rgen /\ ~d.started /\ d.found = {}
  BY DropFacts DEF Stopped
<1> HIDE DEF d
<1>2. q \in Checkpoints /\ q.rev = 0 /\ q.mgen = p.mgen /\ q.rgen = p.rgen /\ ~q.started /\ q.found = {}
  BY <1>1, RevWrite
<1> HIDE DEF q
<1>3. NextEpoch(p) = EndManualEpoch(q)
  BY DEF NextEpoch, q, d
<1> QED
  BY <1>2, <1>3, EpochWrite DEF Stopped

\* What a write to a job and to a worker gives.
LEMMA SaveFacts ==
  ASSUME SeasonTyped, NEW s \in Seasons, NEW p \in Checkpoints, SaveSeasonCheckpoint(s, p)
  PROVE  /\ sjob' \in [Seasons -> SeasonJobs]
         /\ sjob'[s].pay = UpdateJobCheckpoint(sjob[s].pay, p)
         /\ sjob'[s].state = sjob[s].state /\ sjob'[s].after = sjob[s].after
         /\ \A o \in Seasons : o # s => sjob'[o] = sjob[o]
<1> DEFINE pay == UpdateJobCheckpoint(sjob[s].pay, p)
           job == [sjob[s] EXCEPT !.pay = pay]
<1>1. sjob \in [Seasons -> SeasonJobs] /\ sjob[s] \in SeasonJobs /\ sjob[s].pay \in Checkpoints
  BY DEF SeasonTyped, SeasonJobs
<1>2. pay \in Checkpoints
  BY <1>1, UpdateFacts
<1>3. sjob' = [sjob EXCEPT ![s] = job]
  BY <1>1 DEF SaveSeasonCheckpoint
<1> HIDE DEF pay
<1>4. job \in SeasonJobs /\ job.pay = pay /\ job.state = sjob[s].state /\ job.after = sjob[s].after
  BY <1>1, <1>2 DEF SeasonJobs
<1> HIDE DEF job
<1>5. sjob' \in [Seasons -> SeasonJobs] /\ sjob'[s] = job /\ \A o \in Seasons : o # s => sjob'[o] = sjob[o]
  BY <1>1, <1>3, <1>4
<1> QED
  BY <1>4, <1>5 DEF pay

LEMMA RunReplaced ==
  ASSUME srun \in [Seasons -> SeasonRuns], NEW s \in Seasons, NEW run \in SeasonRuns, srun' = [srun EXCEPT ![s] = run]
  PROVE  /\ srun' \in [Seasons -> SeasonRuns]
         /\ srun'[s] = run
         /\ \A o \in Seasons : o # s => srun'[o] = srun[o]
OBVIOUS

LEMMA RunFacts ==
  ASSUME SeasonTyped, NEW s \in Seasons, NEW pc \in RunSteps, NEW res \in Returns, NEW p \in Checkpoints,
         srun' = [srun EXCEPT ![s].pc = pc, ![s].res = res, ![s].p = p]
  PROVE  /\ srun' \in [Seasons -> SeasonRuns]
         /\ srun'[s].pc = pc /\ srun'[s].p = p /\ srun'[s].claimed = srun[s].claimed
         /\ \A o \in Seasons : o # s => srun'[o] = srun[o]
<1> DEFINE run == [srun[s] EXCEPT !.pc = pc, !.res = res, !.p = p]
<1>1. srun \in [Seasons -> SeasonRuns] /\ srun[s] \in SeasonRuns
  BY DEF SeasonTyped
<1>2. srun' = [srun EXCEPT ![s] = run]
  BY <1>1
<1>3. run \in SeasonRuns /\ run.pc = pc /\ run.p = p /\ run.claimed = srun[s].claimed
  BY <1>1 DEF SeasonRuns
<1> HIDE DEF run
<1>4. /\ srun' \in [Seasons -> SeasonRuns]
      /\ srun'[s] = run
      /\ \A o \in Seasons : o # s => srun'[o] = srun[o]
  BY <1>1, <1>2, <1>3, RunReplaced
<1>5. srun'[s].pc = pc /\ srun'[s].p = p /\ srun'[s].claimed = srun[s].claimed
  BY <1>3, <1>4
<1> QED
  BY <1>4, <1>5

LEMMA GoFacts ==
  ASSUME SeasonTyped, NEW s \in Seasons, NEW pc \in RunSteps, NEW p \in Checkpoints, GoStep(s, pc, p)
  PROVE  /\ srun' \in [Seasons -> SeasonRuns]
         /\ srun'[s].pc = pc /\ srun'[s].p = p /\ srun'[s].claimed = srun[s].claimed
         /\ \A o \in Seasons : o # s => srun'[o] = srun[o]
<1> DEFINE run == [srun[s] EXCEPT !.pc = pc, !.p = p]
<1>1. srun \in [Seasons -> SeasonRuns] /\ srun[s] \in SeasonRuns
  BY DEF SeasonTyped
<1>2. srun' = [srun EXCEPT ![s] = run]
  BY <1>1 DEF GoStep
<1>3. run \in SeasonRuns /\ run.pc = pc /\ run.p = p /\ run.claimed = srun[s].claimed
  BY <1>1 DEF SeasonRuns
<1> HIDE DEF run
<1> QED
  BY <1>1, <1>2, <1>3

LEMMA ReturnFacts ==
  ASSUME SeasonTyped, NEW s \in Seasons, NEW res \in Returns, Return(s, res)
  PROVE  /\ srun' \in [Seasons -> SeasonRuns]
         /\ srun'[s].pc = "check" /\ srun'[s].p = EmptyCheckpoint /\ srun'[s].claimed = srun[s].claimed
         /\ \A o \in Seasons : o # s => srun'[o] = srun[o]
<1>1. "check" \in RunSteps /\ EmptyCheckpoint \in Checkpoints
  BY EmptyFacts DEF RunSteps
<1>2. srun' = [srun EXCEPT ![s].pc = "check", ![s].res = res, ![s].p = EmptyCheckpoint]
  BY DEF Return
<1> QED
  BY <1>1, <1>2, RunFacts

\* An action of one season leaves the others alone.
LEMMA OthersKeep ==
  ASSUME SeasonInv, NEW s \in Seasons, catalog' = catalog,
         \A o \in Seasons : o # s => sjob'[o] = sjob[o] /\ srun'[o] = srun[o] /\ owed'[o] = owed[o],
         SeasonOK(s)'
  PROVE  \A o \in Seasons : SeasonOK(o)'
<1>1. ASSUME NEW o \in Seasons, o # s PROVE SeasonOK(o)'
  BY <1>1 DEF SeasonInv, SeasonOK, Dated
<1> QED
  BY <1>1

\* The empty copy, and a stopped one.
LEMMA EmptyDated == catalog \in 1 .. (MaxEdits + 1) => Dated(EmptyCheckpoint)
BY EmptyFacts, SeasonAssumption DEF Dated

LEMMA StoppedDated ==
  ASSUME SeasonTyped, NEW p \in Checkpoints, Dated(p), NEW q, Stopped(q, p), q.rev \in {p.rev, 0}
  PROVE  Dated(q)
<1>1. MaxEdits \in Nat
  BY SeasonAssumption
<1>2. catalog \in 1 .. (MaxEdits + 1)
  BY DEF SeasonTyped
<1>3. catalog \in Nat /\ 0 <= catalog
  BY <1>1, <1>2
<1>4. q.rev <= catalog
  BY <1>3 DEF Dated
<1>5. q.found = {} /\ ~q.started
  BY DEF Stopped
<1> QED
  BY <1>4, <1>5 DEF Dated

\* A copy written back loses no request stored meanwhile.
LEMMA WriteBack ==
  ASSUME SeasonInv, NEW s \in Seasons, sjob[s].state = "leased", NEW p \in Checkpoints,
         p.mgen <= sjob[s].pay.mgen, p.rgen <= sjob[s].pay.rgen, Marked(p, srun[s].claimed), Dated(p),
         NEW pay, pay = UpdateJobCheckpoint(sjob[s].pay, p)
  PROVE  /\ Dated(pay) /\ Shows(pay, srun[s].claimed, owed[s])
         /\ pay.mgen = sjob[s].pay.mgen /\ pay.rgen = sjob[s].pay.rgen
<1>1. /\ sjob[s].pay \in Checkpoints /\ sjob[s].pay.mgen \in Nat /\ sjob[s].pay.rgen \in Nat
      /\ p.mgen \in Nat /\ p.rgen \in Nat
      /\ srun[s].claimed.mgen \in Nat /\ srun[s].claimed.rgen \in Nat
  BY DEF SeasonInv, SeasonTyped, SeasonJobs, SeasonRuns, Claims, Checkpoints
<1>2. /\ pay.manual = (p.manual \/ sjob[s].pay.mgen > p.mgen)
      /\ pay.mgen = IF sjob[s].pay.mgen > p.mgen THEN sjob[s].pay.mgen ELSE p.mgen
      /\ pay.rgen = IF sjob[s].pay.rgen > p.rgen THEN sjob[s].pay.rgen ELSE p.rgen
      /\ pay.started = p.started /\ pay.rev = p.rev /\ pay.found = p.found
  BY <1>1, UpdateFacts
<1>3. pay.mgen = sjob[s].pay.mgen /\ pay.rgen = sjob[s].pay.rgen
  BY <1>1, <1>2
<1>4. Dated(pay)
  BY <1>2 DEF Dated
<1>5. Shows(sjob[s].pay, srun[s].claimed, owed[s])
  BY DEF SeasonInv, SeasonOK
<1>6. Marked(pay, srun[s].claimed)
  BY <1>1, <1>2, <1>3 DEF Marked
<1> QED
  BY <1>3, <1>4, <1>5, <1>6 DEF Shows

\* The four ways a step of the comparison ends.
LEMMA WorkingFacts ==
  ASSUME SeasonInv, NEW s \in Seasons, sjob[s].state = "leased", srun[s].pc \in Working
  PROVE  /\ srun[s].p \in Checkpoints /\ Dated(srun[s].p)
         /\ srun[s].p.mgen = srun[s].claimed.mgen /\ srun[s].p.rgen = srun[s].claimed.rgen
         /\ srun[s].p.mgen \in Nat /\ srun[s].p.rgen \in Nat
         /\ srun[s].p.mgen <= sjob[s].pay.mgen /\ srun[s].p.rgen <= sjob[s].pay.rgen
         /\ sjob[s].pay \in Checkpoints /\ Dated(sjob[s].pay)
         /\ Shows(sjob[s].pay, srun[s].claimed, owed[s])
         /\ srun[s].pc \in Opened => srun[s].p.started
BY DEF SeasonInv, SeasonTyped, SeasonOK, SeasonRuns, SeasonJobs, Checkpoints, Copied

LEMMA SameMarked ==
  ASSUME NEW q, NEW claimed, q.mgen = claimed.mgen, claimed.mgen \in Nat
  PROVE  Marked(q, claimed)
BY DEF Marked

LEMMA SaveAndGoKeeps ==
  ASSUME SeasonInv, NEW s \in Seasons, sjob[s].state = "leased", srun[s].pc \in Working,
         NEW q \in Checkpoints, NEW pc \in Opened, SaveAndGo(s, q, pc),
         q.mgen = srun[s].p.mgen, q.rgen = srun[s].p.rgen, q.started, Dated(q), UNCHANGED <<owed, catalog>>
  PROVE  /\ sjob' \in [Seasons -> SeasonJobs] /\ srun' \in [Seasons -> SeasonRuns]
         /\ \A o \in Seasons : SeasonOK(o)'
<1>1. SaveSeasonCheckpoint(s, q) /\ GoStep(s, pc, q) /\ pc \in RunSteps
  BY DEF SaveAndGo, Opened, RunSteps
<1>2. /\ sjob' \in [Seasons -> SeasonJobs]
      /\ sjob'[s].pay = UpdateJobCheckpoint(sjob[s].pay, q)
      /\ sjob'[s].state = sjob[s].state /\ sjob'[s].after = sjob[s].after
      /\ \A o \in Seasons : o # s => sjob'[o] = sjob[o]
  BY <1>1, SaveFacts DEF SeasonInv
<1>3. /\ srun' \in [Seasons -> SeasonRuns]
      /\ srun'[s].pc = pc /\ srun'[s].p = q /\ srun'[s].claimed = srun[s].claimed
      /\ \A o \in Seasons : o # s => srun'[o] = srun[o]
  BY <1>1, GoFacts DEF SeasonInv
<1>4. Marked(q, srun[s].claimed)
  BY WorkingFacts, SameMarked
<1>5. /\ Dated(sjob'[s].pay) /\ Shows(sjob'[s].pay, srun[s].claimed, owed[s])
      /\ sjob'[s].pay.mgen = sjob[s].pay.mgen /\ sjob'[s].pay.rgen = sjob[s].pay.rgen
  BY <1>2, <1>4, WorkingFacts, WriteBack
<1>6. SeasonOK(s)'
  BY <1>2, <1>3, <1>4, <1>5, WorkingFacts DEF SeasonOK, Copied, Dated
<1> QED
  BY <1>2, <1>3, <1>6, OthersKeep

LEMMA ReturnedOK ==
  ASSUME SeasonInv, NEW s \in Seasons, sjob[s].state = "leased", UNCHANGED <<owed, catalog>>,
         srun'[s].pc = "check", srun'[s].p = EmptyCheckpoint, srun'[s].claimed = srun[s].claimed,
         sjob'[s].state = sjob[s].state, sjob'[s].pay.mgen = sjob[s].pay.mgen,
         sjob'[s].pay.rgen = sjob[s].pay.rgen,
         Dated(sjob'[s].pay), Shows(sjob'[s].pay, srun[s].claimed, owed[s])
  PROVE  SeasonOK(s)'
<1>1. Dated(EmptyCheckpoint)
  BY EmptyDated DEF SeasonInv, SeasonTyped
<1>2. Dated(sjob[s].pay)' /\ Dated(srun[s].p)'
  BY <1>1 DEF Dated
<1>3. sjob[s].pay.mgen \in Nat /\ sjob[s].pay.rgen \in Nat /\ srun[s].claimed.mgen \in Nat
  BY DEF SeasonInv, SeasonTyped, SeasonJobs, SeasonRuns, Claims, Checkpoints
<1>4. Copied(srun[s])' /\ Marked(srun[s].p, srun[s].claimed)'
  BY <1>3, EmptyFacts DEF Copied, Marked, Working, Opened
<1> QED
  BY <1>2, <1>3, <1>4, EmptyFacts DEF SeasonOK

LEMMA SaveAndReturnKeeps ==
  ASSUME SeasonInv, NEW s \in Seasons, sjob[s].state = "leased", srun[s].pc \in Working,
         NEW q \in Checkpoints, NEW res \in Returns, SaveAndReturn(s, q, res),
         q.mgen = srun[s].p.mgen, q.rgen = srun[s].p.rgen, Dated(q), UNCHANGED <<owed, catalog>>
  PROVE  /\ sjob' \in [Seasons -> SeasonJobs] /\ srun' \in [Seasons -> SeasonRuns]
         /\ \A o \in Seasons : SeasonOK(o)'
<1>1. SaveSeasonCheckpoint(s, q) /\ Return(s, res)
  BY DEF SaveAndReturn
<1>2. /\ sjob' \in [Seasons -> SeasonJobs]
      /\ sjob'[s].pay = UpdateJobCheckpoint(sjob[s].pay, q)
      /\ sjob'[s].state = sjob[s].state /\ sjob'[s].after = sjob[s].after
      /\ \A o \in Seasons : o # s => sjob'[o] = sjob[o]
  BY <1>1, SaveFacts DEF SeasonInv
<1>3. /\ srun' \in [Seasons -> SeasonRuns]
      /\ srun'[s].pc = "check" /\ srun'[s].p = EmptyCheckpoint /\ srun'[s].claimed = srun[s].claimed
      /\ \A o \in Seasons : o # s => srun'[o] = srun[o]
  BY <1>1, ReturnFacts DEF SeasonInv
<1>4. Marked(q, srun[s].claimed)
  BY WorkingFacts, SameMarked
<1>5. /\ Dated(sjob'[s].pay) /\ Shows(sjob'[s].pay, srun[s].claimed, owed[s])
      /\ sjob'[s].pay.mgen = sjob[s].pay.mgen /\ sjob'[s].pay.rgen = sjob[s].pay.rgen
  BY <1>2, <1>4, WorkingFacts, WriteBack
<1>6. SeasonOK(s)'
  BY <1>2, <1>3, <1>5, ReturnedOK
<1> QED
  BY <1>2, <1>3, <1>6, OthersKeep

LEMMA ReturnKeeps ==
  ASSUME SeasonInv, NEW s \in Seasons, sjob[s].state = "leased", NEW res \in Returns, Return(s, res),
         UNCHANGED <<sjob, owed, catalog>>
  PROVE  srun' \in [Seasons -> SeasonRuns] /\ \A o \in Seasons : SeasonOK(o)'
<1>1. /\ srun' \in [Seasons -> SeasonRuns]
      /\ srun'[s].pc = "check" /\ srun'[s].p = EmptyCheckpoint /\ srun'[s].claimed = srun[s].claimed
      /\ \A o \in Seasons : o # s => srun'[o] = srun[o]
  BY ReturnFacts DEF SeasonInv
<1>2. Dated(sjob[s].pay) /\ Shows(sjob[s].pay, srun[s].claimed, owed[s])
  BY DEF SeasonInv, SeasonOK
<1>3. SeasonOK(s)'
  BY <1>1, <1>2, ReturnedOK
<1> QED
  BY <1>1, <1>3, OthersKeep

LEMMA GoKeeps ==
  ASSUME SeasonInv, NEW s \in Seasons, sjob[s].state = "leased", srun[s].pc \in Working,
         NEW q \in Checkpoints, NEW pc \in Opened, GoStep(s, pc, q),
         q.mgen = srun[s].p.mgen, q.rgen = srun[s].p.rgen, q.started, Dated(q), UNCHANGED <<sjob, owed, catalog>>
  PROVE  srun' \in [Seasons -> SeasonRuns] /\ \A o \in Seasons : SeasonOK(o)'
<1>1. /\ srun' \in [Seasons -> SeasonRuns]
      /\ srun'[s].pc = pc /\ srun'[s].p = q /\ srun'[s].claimed = srun[s].claimed
      /\ \A o \in Seasons : o # s => srun'[o] = srun[o]
  <2>1. pc \in RunSteps
    BY DEF Opened, RunSteps
  <2> QED
    BY <2>1, GoFacts DEF SeasonInv
<1>2. Marked(q, srun[s].claimed)
  BY WorkingFacts, SameMarked
<1>3. SeasonOK(s)'
  BY <1>1, <1>2, WorkingFacts DEF SeasonOK, Copied, Dated
<1> QED
  BY <1>1, <1>3, OthersKeep

\* The comparison's steps write nothing else that the invariant mentions.
LEMMA RestTyped ==
  ASSUME SeasonInv, sjob' \in [Seasons -> SeasonJobs], srun' \in [Seasons -> SeasonRuns],
         \A o \in Seasons : SeasonOK(o)',
         compared' \in [Seasons -> {"none", "week", "minutes"}], planLive' \in [Seasons -> BOOLEAN],
         asking' \in [Seasons -> {"", "press", "replan"}],
         owed' \in [Seasons -> SUBSET {"press", "replan"}], catalog' \in 1 .. (MaxEdits + 1)
  PROVE  SeasonInv'
BY DEF SeasonInv, SeasonTyped

LEMMA RestUnchanged ==
  ASSUME SeasonInv, UNCHANGED <<compared, planLive, asking, owed, catalog>>,
         sjob' \in [Seasons -> SeasonJobs], srun' \in [Seasons -> SeasonRuns], \A o \in Seasons : SeasonOK(o)'
  PROVE  SeasonInv'
BY RestTyped DEF SeasonInv, SeasonTyped

----------------------------------------------------------------------------
(* Each action of the comparison *)

LEMMA EndsKeeps ==
  ASSUME SeasonInv, NEW s \in Seasons, SeasonSnapshotEnds(s) \/ WaitForPlan(s)
  PROVE  SeasonInv'
<1>1. PICK res \in Returns : Return(s, res)
  BY DEF SeasonSnapshotEnds, WaitForPlan, Returns
<1>2. sjob[s].state = "leased" /\ UNCHANGED <<sjob, compared, planLive, asking, owed, catalog>>
  BY DEF SeasonSnapshotEnds, WaitForPlan, AtStep
<1>3. srun' \in [Seasons -> SeasonRuns] /\ \A o \in Seasons : SeasonOK(o)'
  BY <1>1, <1>2, ReturnKeeps
<1>4. sjob' \in [Seasons -> SeasonJobs]
  BY <1>2 DEF SeasonInv, SeasonTyped
<1> QED
  BY <1>2, <1>3, <1>4, RestUnchanged

\* The copy that a comparison is opened or resumed with.
LEMMA CurrentFacts ==
  ASSUME SeasonInv, NEW s \in Seasons, sjob[s].state = "leased", srun[s].pc = "open",
         NEW p, p = CurrentEvidence(srun[s].p)
  PROVE  /\ p \in Checkpoints /\ Dated(p)
         /\ p.mgen = srun[s].p.mgen /\ p.rgen = srun[s].p.rgen
         /\ p.rev \in {0, catalog} \/ ~p.started
         /\ p.found \subseteq {catalog, Feed}
<1>1. srun[s].p \in Checkpoints /\ Dated(srun[s].p)
  BY WorkingFacts DEF Working
<1>2. CASE srun[s].p.rev # 0 /\ srun[s].p.rev # catalog
  <2>1. p = DropEvidence(srun[s].p)
    BY <1>2 DEF CurrentEvidence
  <2>2. Stopped(p, srun[s].p) /\ p.rev = srun[s].p.rev
    BY <1>1, <2>1, DropFacts
  <2>3. Dated(p)
    BY <1>1, <2>2, StoppedDated DEF SeasonInv
  <2> QED
    BY <2>2, <2>3 DEF Stopped
<1>3. CASE ~(srun[s].p.rev # 0 /\ srun[s].p.rev # catalog)
  <2>1. p = srun[s].p
    BY <1>3 DEF CurrentEvidence
  <2> QED
    BY <1>1, <1>3, <2>1 DEF Dated
<1> QED
  BY <1>2, <1>3

OpenedUnder(p, rev, partial) ==
    [p EXCEPT !.started = TRUE, !.rev = rev, !.stage = "season", !.partial = @ \/ partial]

LEMMA OpenWrites ==
  ASSUME NEW p \in Checkpoints, NEW rev \in Nat, NEW partial \in BOOLEAN, NEW q, q = OpenedUnder(p, rev, partial)
  PROVE  q \in Checkpoints /\ q.started /\ q.rev = rev /\ q.found = p.found /\ q.mgen = p.mgen /\ q.rgen = p.rgen
<1> DEFINE some == p.partial \/ partial
           yes == TRUE
           stage == "season"
<1>1. some \in BOOLEAN /\ yes \in BOOLEAN /\ yes /\ stage \in Stages
  BY DEF Checkpoints, Stages
<1>2. q = [p EXCEPT !.started = yes, !.rev = rev, !.stage = stage, !.partial = some]
  BY Zenon DEF OpenedUnder
<1> HIDE DEF some, yes, stage
<1>3. q \in Checkpoints /\ q.started = yes /\ q.rev = rev /\ q.found = p.found /\ q.mgen = p.mgen /\ q.rgen = p.rgen
  BY <1>1, <1>2 DEF Checkpoints
<1> QED
  BY <1>1, <1>3

LEMMA CatalogFacts == SeasonTyped => catalog \in Nat /\ 1 <= catalog
<1>1. MaxEdits \in Nat
  BY SeasonAssumption
<1>2. SeasonTyped => catalog \in 1 .. (MaxEdits + 1)
  BY DEF SeasonTyped
<1> QED
  BY <1>1, <1>2

LEMMA OpenKeeps ==
  ASSUME SeasonInv, NEW s \in Seasons, OpenComparison(s)
  PROVE  SeasonInv'
<1> DEFINE p == CurrentEvidence(srun[s].p)
<1>1. /\ sjob[s].state = "leased" /\ srun[s].pc = "open" /\ srun[s].pc \in Working
      /\ UNCHANGED <<compared, planLive, asking, owed, catalog>>
  BY DEF OpenComparison, AtStep, Working
<1>2. /\ p \in Checkpoints /\ p.mgen = srun[s].p.mgen /\ p.rgen = srun[s].p.rgen
      /\ p.found \subseteq {catalog, Feed}
  BY <1>1, CurrentFacts
<1>3. \/ Return(s, "later") /\ UNCHANGED sjob
      \/ \E partial \in BOOLEAN : SaveAndGo(s, OpenedUnder(p, catalog, partial), "scopes")
  BY Zenon DEF OpenComparison, OpenedUnder
<1> HIDE DEF p
<1>4. CASE Return(s, "later") /\ UNCHANGED sjob
  <2>1. "later" \in Returns
    BY DEF Returns
  <2>2. srun' \in [Seasons -> SeasonRuns] /\ \A o \in Seasons : SeasonOK(o)'
    BY <1>1, <1>4, <2>1, ReturnKeeps
  <2>3. sjob' \in [Seasons -> SeasonJobs]
    BY <1>4 DEF SeasonInv, SeasonTyped
  <2> QED
    BY <1>1, <2>2, <2>3, RestUnchanged
<1>5. ASSUME NEW partial \in BOOLEAN, NEW q, q = OpenedUnder(p, catalog, partial), SaveAndGo(s, q, "scopes")
      PROVE  SeasonInv'
  <2>1. catalog \in Nat /\ 1 <= catalog
    BY CatalogFacts DEF SeasonInv
  <2>2. q \in Checkpoints /\ q.started /\ q.rev = catalog /\ q.found = p.found /\ q.mgen = p.mgen /\ q.rgen = p.rgen
    BY <1>2, <1>5, <2>1, OpenWrites
  <2>3. Dated(q)
    BY <1>2, <2>1, <2>2 DEF Dated
  <2>4. "scopes" \in Opened
    BY DEF Opened
  <2>5. /\ sjob' \in [Seasons -> SeasonJobs] /\ srun' \in [Seasons -> SeasonRuns]
        /\ \A o \in Seasons : SeasonOK(o)'
    BY <1>1, <1>2, <1>5, <2>2, <2>3, <2>4, SaveAndGoKeeps
  <2> QED
    BY <1>1, <2>5, RestUnchanged
<1> QED
  BY <1>3, <1>4, <1>5, Zenon

LEMMA ResumeKeeps ==
  ASSUME SeasonInv, NEW s \in Seasons, ResumeComparison(s)
  PROVE  SeasonInv'
<1> DEFINE p == CurrentEvidence(srun[s].p)
<1>1. /\ sjob[s].state = "leased" /\ srun[s].pc = "open" /\ srun[s].pc \in Working
      /\ UNCHANGED <<compared, planLive, asking, owed, catalog>>
  BY DEF ResumeComparison, AtStep, Working
<1>2. p \in Checkpoints /\ Dated(p) /\ p.mgen = srun[s].p.mgen /\ p.rgen = srun[s].p.rgen
  BY <1>1, CurrentFacts
<1>3. /\ p.started
      /\ \/ GoStep(s, "scopes", p) /\ UNCHANGED sjob
         \/ SaveAndReturn(s, RefreshEvidence(p), "later")
  BY DEF ResumeComparison
<1> HIDE DEF p
<1>4. CASE GoStep(s, "scopes", p) /\ UNCHANGED sjob
  <2>1. "scopes" \in Opened
    BY DEF Opened
  <2>2. srun' \in [Seasons -> SeasonRuns] /\ \A o \in Seasons : SeasonOK(o)'
    BY <1>1, <1>2, <1>3, <1>4, <2>1, GoKeeps
  <2>3. sjob' \in [Seasons -> SeasonJobs]
    BY <1>4 DEF SeasonInv, SeasonTyped
  <2> QED
    BY <1>1, <2>2, <2>3, RestUnchanged
<1>5. CASE SaveAndReturn(s, RefreshEvidence(p), "later")
  <2> DEFINE q == RefreshEvidence(p)
  <2>1. Stopped(q, p) /\ q.rev = p.rev
    BY <1>2, RefreshFacts
  <2>2. Dated(q)
    BY <1>2, <2>1, StoppedDated DEF SeasonInv
  <2>3. "later" \in Returns /\ SaveAndReturn(s, q, "later")
    BY <1>5 DEF Returns
  <2> HIDE DEF q
  <2>4. q \in Checkpoints /\ q.mgen = srun[s].p.mgen /\ q.rgen = srun[s].p.rgen
    BY <1>2, <2>1 DEF Stopped
  <2>5. /\ sjob' \in [Seasons -> SeasonJobs] /\ srun' \in [Seasons -> SeasonRuns]
        /\ \A o \in Seasons : SeasonOK(o)'
    BY <1>1, <2>2, <2>3, <2>4, SaveAndReturnKeeps
  <2> QED
    BY <1>1, <2>5, RestUnchanged
<1> QED
  BY <1>3, <1>4, <1>5

LEMMA WorkGoes ==
  ASSUME SeasonInv, NEW s \in Seasons, sjob[s].state = "leased", srun[s].pc \in Working,
         NEW q \in Checkpoints, NEW pc \in Opened,
         SaveAndGo(s, q, pc) \/ (GoStep(s, pc, q) /\ UNCHANGED sjob),
         q.mgen = srun[s].p.mgen, q.rgen = srun[s].p.rgen, q.started, Dated(q),
         UNCHANGED <<compared, planLive, asking, owed, catalog>>
  PROVE  SeasonInv'
<1>1. CASE SaveAndGo(s, q, pc)
  BY <1>1, SaveAndGoKeeps, RestUnchanged
<1>2. CASE GoStep(s, pc, q) /\ UNCHANGED sjob
  <2>1. sjob' \in [Seasons -> SeasonJobs]
    BY <1>2 DEF SeasonInv, SeasonTyped
  <2> QED
    BY <1>2, <2>1, GoKeeps, RestUnchanged
<1> QED
  BY <1>1, <1>2

LEMMA WorkReturns ==
  ASSUME SeasonInv, NEW s \in Seasons, sjob[s].state = "leased", srun[s].pc \in Working,
         NEW q \in Checkpoints, NEW res \in Returns, SaveAndReturn(s, q, res),
         q.mgen = srun[s].p.mgen, q.rgen = srun[s].p.rgen, Dated(q),
         UNCHANGED <<compared, planLive, asking, owed, catalog>>
  PROVE  SeasonInv'
BY SaveAndReturnKeeps, RestUnchanged

\* Writes to the scopes and to what was found.
LEMMA ScopesWrite ==
  ASSUME NEW p \in Checkpoints, NEW scopes \in ScopeMaps, NEW q, q = [p EXCEPT !.scopes = scopes]
  PROVE  /\ q \in Checkpoints /\ q.mgen = p.mgen /\ q.rgen = p.rgen
         /\ q.started = p.started /\ q.rev = p.rev /\ q.found = p.found
BY DEF Checkpoints

LEMMA FoundWrite ==
  ASSUME NEW p \in Checkpoints, NEW found \in Evidence, NEW q, q = [p EXCEPT !.found = found]
  PROVE  /\ q \in Checkpoints /\ q.mgen = p.mgen /\ q.rgen = p.rgen
         /\ q.started = p.started /\ q.rev = p.rev /\ q.found = found /\ q.manual = p.manual
BY DEF Checkpoints

LEMMA ScopeWrite ==
  ASSUME NEW scopes \in ScopeMaps, NEW sc \in DOMAIN scopes, NEW fails \in Nat,
         NEW e \in {"todo", "complete", "reasons", "degraded"}
  PROVE  /\ [scopes EXCEPT ![sc].fails = @ + 1] \in ScopeMaps
         /\ [scopes EXCEPT ![sc].end = e] \in ScopeMaps
<1>1. PICK D \in SUBSET Scope : scopes \in [D -> ScopeStates]
  BY DEF ScopeMaps
<1> DEFINE more == [scopes[sc] EXCEPT !.fails = @ + 1]
           end == [scopes[sc] EXCEPT !.end = e]
<1>2. more \in ScopeStates /\ end \in ScopeStates
  BY <1>1 DEF ScopeStates
<1>3. /\ [scopes EXCEPT ![sc].fails = @ + 1] = [scopes EXCEPT ![sc] = more]
      /\ [scopes EXCEPT ![sc].end = e] = [scopes EXCEPT ![sc] = end]
  OBVIOUS
<1> HIDE DEF more, end
<1>4. [scopes EXCEPT ![sc] = more] \in [D -> ScopeStates] /\ [scopes EXCEPT ![sc] = end] \in [D -> ScopeStates]
  BY <1>1, <1>2
<1> QED
  BY <1>3, <1>4 DEF ScopeMaps

\* A copy with the same requests and the same evidence.
Alike(q, p) ==
    /\ q \in Checkpoints /\ q.mgen = p.mgen /\ q.rgen = p.rgen
    /\ q.started = p.started /\ q.rev = p.rev /\ q.found = p.found

LEMMA ScopeAlike ==
  ASSUME NEW p \in Checkpoints, NEW sc \in DOMAIN p.scopes,
         NEW e \in {"todo", "complete", "reasons", "degraded"}
  PROVE  /\ Alike([p EXCEPT !.scopes[sc].fails = @ + 1], p)
         /\ Alike([p EXCEPT !.scopes[sc].end = e], p)
<1> DEFINE more == [p.scopes EXCEPT ![sc].fails = @ + 1]
           end == [p.scopes EXCEPT ![sc].end = e]
           q == [p EXCEPT !.scopes[sc].fails = @ + 1]
           r == [p EXCEPT !.scopes[sc].end = e]
<1>1. p.scopes \in ScopeMaps
  BY DEF Checkpoints
<1>2. more \in ScopeMaps /\ end \in ScopeMaps
  BY <1>1, ScopeWrite
<1>3. q = [p EXCEPT !.scopes = more] /\ r = [p EXCEPT !.scopes = end]
  BY Zenon
<1> HIDE DEF more, end, q, r
<1>4. Alike(q, p) /\ Alike(r, p)
  BY <1>2, <1>3, ScopesWrite DEF Alike
<1> QED
  BY <1>4 DEF q, r

LEMMA CreateKeeps ==
  ASSUME SeasonInv, NEW s \in Seasons, CreateScopes(s)
  PROVE  SeasonInv'
<1> DEFINE scopes == [sc \in Indexers \X {WholeSeason} |-> NewScope]
           q == [srun[s].p EXCEPT !.scopes = scopes]
<1>1. /\ sjob[s].state = "leased" /\ srun[s].pc = "scopes" /\ srun[s].pc \in Working /\ srun[s].pc \in Opened
      /\ UNCHANGED <<compared, planLive, asking, owed, catalog>>
      /\ SaveAndGo(s, q, "scopes") /\ "scopes" \in Opened
  BY DEF CreateScopes, AtStep, Working, Opened
<1>2. srun[s].p \in Checkpoints /\ Dated(srun[s].p) /\ srun[s].p.started
  BY <1>1, WorkingFacts
<1>3. scopes \in ScopeMaps
  <2>1. Indexers \X {WholeSeason} \subseteq Scope /\ NewScope \in ScopeStates
    BY DEF Scope, NewScope, ScopeStates
  <2>2. scopes \in [Indexers \X {WholeSeason} -> ScopeStates]
    BY <2>1
  <2> HIDE DEF scopes
  <2> QED
    BY <2>1, <2>2 DEF ScopeMaps
<1> HIDE DEF scopes
<1>4. Alike(q, srun[s].p)
  <2> DEFINE p == srun[s].p
  <2>1. p \in Checkpoints /\ q = [p EXCEPT !.scopes = scopes]
    BY <1>2
  <2> HIDE DEF p, q
  <2>2. Alike(q, p)
    BY <1>3, <2>1, ScopesWrite DEF Alike
  <2> QED
    BY <2>2 DEF p
<1> HIDE DEF q
<1>5. Dated(q)
  BY <1>2, <1>4 DEF Dated, Alike
<1> QED
  BY <1>1, <1>2, <1>4, <1>5, WorkGoes DEF Alike

LEMMA SearchScopeKeeps ==
  ASSUME SeasonInv, NEW s \in Seasons, SearchScope(s)
  PROVE  SeasonInv'
<1> DEFINE p == srun[s].p
           failed(sc) == [p EXCEPT !.scopes[sc].fails = @ + 1]
           ended(sc, e) == [p EXCEPT !.scopes[sc].end = e]
<1>1. /\ sjob[s].state = "leased" /\ srun[s].pc \in Working /\ srun[s].pc \in Opened
      /\ UNCHANGED <<compared, planLive, asking, owed, catalog>>
      /\ {"scopes", "admit"} \subseteq Opened /\ "later" \in Returns
  BY DEF SearchScope, AtStep, Working, Opened, Returns
<1>2. p \in Checkpoints /\ Dated(p) /\ p.started
  BY <1>1, WorkingFacts
<1>3. PICK sc \in DOMAIN p.scopes :
         \/ \E e \in {"complete", "reasons"} :
               SaveAndGo(s, [ended(sc, e) EXCEPT !.found = @ \cup {catalog}], "scopes")
         \/ SaveAndReturn(s, failed(sc), "later")
         \/ SaveAndGo(s, ended(sc, "degraded"), "scopes")
         \/ SaveAndGo(s, p, "admit")
         \/ SaveAndReturn(s, p, "later")
  BY Zenon DEF SearchScope, Todo
<1>4. Alike(failed(sc), p) /\ \A e \in {"complete", "reasons", "degraded"} : Alike(ended(sc, e), p)
  BY <1>2, ScopeAlike
<1> HIDE DEF failed, ended
<1>5. ASSUME NEW q, Alike(q, p)
      PROVE  q \in Checkpoints /\ Dated(q) /\ q.mgen = srun[s].p.mgen /\ q.rgen = srun[s].p.rgen /\ q.started
  BY <1>2, <1>5 DEF Dated, Alike
<1>6. ASSUME NEW e \in {"complete", "reasons"},
             SaveAndGo(s, [ended(sc, e) EXCEPT !.found = @ \cup {catalog}], "scopes")
      PROVE  SeasonInv'
  <2> DEFINE found == p.found \cup {catalog}
             q == [ended(sc, e) EXCEPT !.found = @ \cup {catalog}]
  <2>1. catalog \in Nat /\ 1 <= catalog
    BY CatalogFacts DEF SeasonInv
  <2>2. ended(sc, e) \in Checkpoints /\ Alike(ended(sc, e), p) /\ ended(sc, e).found = p.found
    BY <1>4 DEF Alike
  <2>3. found \in Evidence
    BY <1>2, <2>1 DEF Checkpoints, Evidence
  <2>4. q = [ended(sc, e) EXCEPT !.found = found]
    BY <2>2
  <2>5. SaveAndGo(s, q, "scopes")
    BY <1>6
  <2> HIDE DEF q
  <2>6. q.found = p.found \cup {catalog} /\ q \in Checkpoints /\ q.mgen = p.mgen /\ q.rgen = p.rgen
        /\ q.started /\ q.rev = p.rev
    <3> HIDE DEF found
    <3>1. /\ q \in Checkpoints /\ q.mgen = ended(sc, e).mgen /\ q.rgen = ended(sc, e).rgen
          /\ q.started = ended(sc, e).started /\ q.rev = ended(sc, e).rev /\ q.found = found
      BY <2>2, <2>3, <2>4, FoundWrite
    <3> QED
      BY <1>2, <2>2, <3>1 DEF Alike, found
  <2>7. Dated(q)
    BY <1>2, <2>6 DEF Dated
  <2> QED
    BY <1>1, <2>5, <2>6, <2>7, WorkGoes
<1>7. CASE SaveAndReturn(s, failed(sc), "later")
  BY <1>1, <1>4, <1>5, <1>7, WorkReturns
<1>8. CASE SaveAndGo(s, ended(sc, "degraded"), "scopes")
  BY <1>1, <1>4, <1>5, <1>8, WorkGoes
<1>9. CASE SaveAndGo(s, p, "admit")
  BY <1>1, <1>2, <1>9, WorkGoes
<1>10. CASE SaveAndReturn(s, p, "later")
  BY <1>1, <1>2, <1>10, WorkReturns
<1> QED
  BY <1>3, <1>6, <1>7, <1>8, <1>9, <1>10

LEMMA EpisodeKeeps ==
  ASSUME SeasonInv, NEW s \in Seasons, EpisodeStage(s)
  PROVE  SeasonInv'
<1> DEFINE p == srun[s].p
           scopes(more) == [sc \in DOMAIN p.scopes \cup more |->
                              IF sc \in DOMAIN p.scopes THEN p.scopes[sc] ELSE NewScope]
<1>1. /\ sjob[s].state = "leased" /\ srun[s].pc \in Working /\ srun[s].pc \in Opened
      /\ UNCHANGED <<compared, planLive, asking, owed, catalog>> /\ "scopes" \in Opened
  BY DEF EpisodeStage, AtStep, Working, Opened
<1>2. p \in Checkpoints /\ Dated(p) /\ p.started
  BY <1>1, WorkingFacts
<1>3. PICK eps \in SUBSET SeasonEps :
         SaveAndGo(s, [p EXCEPT !.stage = "episodes",
                         !.scopes = scopes((Indexers \ DegradedIndexers(p)) \X eps)], "scopes")
  BY Zenon DEF EpisodeStage
<1> DEFINE more == (Indexers \ DegradedIndexers(p)) \X eps
           map == scopes(more)
           stage == "episodes"
<1>4. map \in ScopeMaps
  <2>1. PICK D \in SUBSET Scope : p.scopes \in [D -> ScopeStates]
    BY <1>2 DEF Checkpoints, ScopeMaps
  <2>2. more \subseteq Scope
    BY DEF Scope
  <2>3. NewScope \in ScopeStates
    BY DEF NewScope, ScopeStates
  <2> HIDE DEF more
  <2>4. map \in [D \cup more -> ScopeStates]
    BY <2>1, <2>3
  <2> HIDE DEF map
  <2> QED
    BY <2>1, <2>2, <2>4 DEF ScopeMaps
<1> DEFINE q == [p EXCEPT !.stage = stage, !.scopes = map]
<1>5. SaveAndGo(s, q, "scopes") /\ stage \in Stages
  BY <1>3, Zenon DEF Stages
<1>6. Alike(q, p)
  <2> HIDE DEF p, scopes, map, stage
  <2> QED
    BY <1>2, <1>4, <1>5 DEF Alike, Checkpoints
<1> HIDE DEF q
<1>7. Dated(q)
  BY <1>2, <1>6 DEF Dated, Alike
<1> QED
  BY <1>1, <1>2, <1>5, <1>6, <1>7, WorkGoes DEF Alike

LEMMA OverKeeps ==
  ASSUME SeasonInv, NEW s \in Seasons, ComparisonOver(s)
  PROVE  SeasonInv'
<1>1. /\ sjob[s].state = "leased" /\ srun[s].pc \in Working /\ srun[s].pc \in Opened
      /\ UNCHANGED <<sjob, compared, planLive, asking, owed, catalog>>
      /\ GoStep(s, "admit", srun[s].p) /\ "admit" \in Opened
  BY DEF ComparisonOver, AtStep, Working, Opened
<1> QED
  BY <1>1, WorkingFacts, WorkGoes

LEMMA AdmitKeeps ==
  ASSUME SeasonInv, NEW s \in Seasons, AdmitSeasonCandidates(s)
  PROVE  SeasonInv'
<1>1. /\ sjob[s].state = "leased" /\ srun[s].pc \in Working /\ srun[s].pc \in Opened
      /\ UNCHANGED <<sjob, compared, asking, owed, catalog>>
      /\ "over" \in Opened /\ {"error", "later"} \subseteq Returns
      /\ planLive' \in [Seasons -> BOOLEAN]
  BY DEF AdmitSeasonCandidates, AtStep, Working, Opened, Returns, SeasonInv, SeasonTyped
<1>2. \/ \E res \in {"error", "later"} : Return(s, res)
      \/ GoStep(s, "over", srun[s].p)
  BY DEF AdmitSeasonCandidates
<1>3. srun' \in [Seasons -> SeasonRuns] /\ \A o \in Seasons : SeasonOK(o)'
  <2>1. CASE \E res \in {"error", "later"} : Return(s, res)
    BY <1>1, <2>1, ReturnKeeps
  <2>2. CASE GoStep(s, "over", srun[s].p)
    BY <1>1, <2>2, WorkingFacts, GoKeeps
  <2> QED
    BY <1>2, <2>1, <2>2
<1>4. /\ sjob' \in [Seasons -> SeasonJobs] /\ compared' \in [Seasons -> {"none", "week", "minutes"}]
      /\ asking' \in [Seasons -> {"", "press", "replan"}]
      /\ owed' \in [Seasons -> SUBSET {"press", "replan"}] /\ catalog' \in 1 .. (MaxEdits + 1)
  BY <1>1 DEF SeasonInv, SeasonTyped
<1> QED
  BY <1>1, <1>3, <1>4, RestTyped

LEMMA SettleKeeps ==
  ASSUME SeasonInv, NEW s \in Seasons, SettleComparison(s)
  PROVE  SeasonInv'
<1> DEFINE p == srun[s].p
           q == NextEpoch(p)
           cooled == [p EXCEPT !.cool = TRUE]
<1>1. /\ sjob[s].state = "leased" /\ srun[s].pc \in Working /\ srun[s].pc \in Opened
      /\ UNCHANGED <<compared, planLive, asking, owed, catalog>> /\ {"done", "later"} \subseteq Returns
  BY DEF SettleComparison, AtStep, Working, Opened, Returns
<1>2. p \in Checkpoints /\ Dated(p)
  BY <1>1, WorkingFacts
<1>3. SaveAndReturn(s, q, "later") \/ SaveAndReturn(s, cooled, "done")
  BY DEF SettleComparison
<1>4. Stopped(q, p) /\ q.rev = 0
  BY <1>2, NextEpochFacts
<1>5. Alike(cooled, p)
  <2> HIDE DEF p
  <2> QED
    BY <1>2 DEF Alike, Checkpoints
<1> HIDE DEF q, cooled
<1>6. Dated(q)
  BY <1>2, <1>4, StoppedDated DEF SeasonInv
<1>7. Dated(cooled)
  BY <1>2, <1>5 DEF Dated, Alike
<1>8. CASE SaveAndReturn(s, q, "later")
  BY <1>1, <1>4, <1>6, <1>8, WorkReturns DEF Stopped
<1>9. CASE SaveAndReturn(s, cooled, "done")
  BY <1>1, <1>5, <1>7, <1>9, WorkReturns DEF Alike
<1> QED
  BY <1>3, <1>8, <1>9

\* The handler's last look and what follows from it.
LEMMA LookKeeps ==
  ASSUME SeasonInv, NEW s \in Seasons, HandleSeasonSearch(s)
  PROVE  SeasonInv'
<1> DEFINE d == DropEvidence(sjob[s].pay)
           q == [d EXCEPT !.rev = 0]
<1>1. /\ sjob[s].state = "leased" /\ UNCHANGED <<sjob, compared, planLive, asking, owed, catalog>>
      /\ srun[s].pc = "check"
  BY DEF HandleSeasonSearch, AtStep
<1>2. /\ srun \in [Seasons -> SeasonRuns] /\ srun[s] \in SeasonRuns /\ sjob[s].pay \in Checkpoints
      /\ srun[s].res \in Returns /\ srun[s].p \in Checkpoints /\ SeasonOK(s)
      /\ sjob[s].pay.mgen \in Nat /\ sjob[s].pay.rgen \in Nat /\ sjob' \in [Seasons -> SeasonJobs]
  BY <1>1 DEF SeasonInv, SeasonTyped, SeasonRuns, SeasonJobs, Checkpoints
<1>3. /\ q \in Checkpoints /\ q.mgen = sjob[s].pay.mgen /\ q.rgen = sjob[s].pay.rgen
      /\ q.manual = sjob[s].pay.manual /\ q.rev = 0 /\ ~q.started /\ q.found = {}
  <2>1. /\ d \in Checkpoints /\ d.mgen = sjob[s].pay.mgen /\ d.rgen = sjob[s].pay.rgen
        /\ d.manual = sjob[s].pay.manual /\ ~d.started /\ d.found = {}
    BY <1>2, DropFacts DEF Stopped
  <2> HIDE DEF d
  <2> QED
    BY <2>1, RevWrite
<1>4. \/ srun' = [srun EXCEPT ![s].pc = "retire", ![s].res = "now"]
      \/ srun' = [srun EXCEPT ![s].pc = "rerun", ![s].p = q]
      \/ srun' = [srun EXCEPT ![s].pc = "retire"]
  BY Zenon DEF HandleSeasonSearch
<1> HIDE DEF q
<1>5. ASSUME NEW run \in SeasonRuns, srun' = [srun EXCEPT ![s] = run], run.pc \notin Working,
             run.claimed = srun[s].claimed, run.p \in {srun[s].p, q}
      PROVE  SeasonInv'
  <2>1. /\ srun' \in [Seasons -> SeasonRuns] /\ srun'[s] = run
        /\ \A o \in Seasons : o # s => srun'[o] = srun[o]
    BY <1>2, <1>5
  <2>2. Dated(q)
    <3>1. 0 <= catalog /\ catalog # 0
      BY CatalogFacts DEF SeasonInv
    <3> QED
      BY <1>3, <3>1 DEF Dated
  <2>3. Dated(run.p)
    BY <1>2, <1>5, <2>2 DEF SeasonOK
  <2>4. Dated(sjob[s].pay)' /\ Dated(srun[s].p)'
    BY <1>1, <1>2, <2>1, <2>3 DEF Dated, SeasonOK
  <2>5. run.pc \notin Opened
    BY <1>5 DEF Working, Opened
  <2>6. Shows(sjob[s].pay, srun[s].claimed, owed[s]) /\ Marked(sjob[s].pay, srun[s].claimed)
    BY <1>1, <1>2 DEF SeasonOK, Shows
  <2>7. /\ run.p.mgen <= sjob[s].pay.mgen /\ run.p.rgen <= sjob[s].pay.rgen
        /\ Marked(run.p, run.claimed)
    BY <1>1, <1>2, <1>3, <1>5, <2>6 DEF SeasonOK, Marked
  <2>8. SeasonOK(s)'
    BY <1>1, <1>5, <2>1, <2>4, <2>5, <2>6, <2>7 DEF SeasonOK, Copied
  <2>9. \A o \in Seasons : SeasonOK(o)'
    BY <1>1, <2>1, <2>8, OthersKeep
  <2> QED
    BY <1>1, <1>2, <2>1, <2>9, RestUnchanged
<1> DEFINE now == [srun[s] EXCEPT !.pc = "retire", !.res = "now"]
           again == [srun[s] EXCEPT !.pc = "rerun", !.p = q]
           retire == [srun[s] EXCEPT !.pc = "retire"]
<1>6. /\ now \in SeasonRuns /\ now.pc = "retire" /\ now.claimed = srun[s].claimed /\ now.p = srun[s].p
      /\ again \in SeasonRuns /\ again.pc = "rerun" /\ again.claimed = srun[s].claimed /\ again.p = q
      /\ retire \in SeasonRuns /\ retire.pc = "retire" /\ retire.claimed = srun[s].claimed /\ retire.p = srun[s].p
  BY <1>2, <1>3 DEF SeasonRuns, RunSteps, Returns
<1>7. \/ srun' = [srun EXCEPT ![s] = now]
      \/ srun' = [srun EXCEPT ![s] = again]
      \/ srun' = [srun EXCEPT ![s] = retire]
  BY <1>2, <1>4
<1>8. "retire" \notin Working /\ "rerun" \notin Working
  BY DEF Working
<1> HIDE DEF now, again, retire
<1> QED
  BY <1>5, <1>6, <1>7, <1>8

Rerun(s) ==
    /\ sjob[s].state = "leased" /\ srun[s].pc = "rerun"
    /\ UNCHANGED <<compared, planLive, asking, owed, catalog>>
RerunSaved(s) ==
    /\ Rerun(s)
    /\ SaveSeasonCheckpoint(s, srun[s].p)
    /\ srun' = [srun EXCEPT ![s].pc = "retire", ![s].res = "now", ![s].p = EmptyCheckpoint]
RerunFailed(s) ==
    /\ Rerun(s)
    /\ srun' = [srun EXCEPT ![s].pc = "retire", ![s].res = "error", ![s].p = EmptyCheckpoint]
    /\ UNCHANGED sjob

LEMMA RerunSaves ==
  ASSUME SeasonInv, NEW s \in Seasons, RerunSaved(s)
  PROVE  SeasonInv'
<1>1. /\ sjob[s].state = "leased" /\ srun[s].pc = "rerun"
      /\ SaveSeasonCheckpoint(s, srun[s].p)
      /\ srun' = [srun EXCEPT ![s].pc = "retire", ![s].res = "now", ![s].p = EmptyCheckpoint]
      /\ UNCHANGED <<compared, planLive, asking, owed, catalog>>
  BY DEF RerunSaved, Rerun
<1>2. /\ srun[s].p \in Checkpoints /\ Dated(srun[s].p) /\ Marked(srun[s].p, srun[s].claimed)
      /\ srun[s].p.mgen <= sjob[s].pay.mgen /\ srun[s].p.rgen <= sjob[s].pay.rgen
      /\ srun[s].claimed.mgen \in Nat /\ sjob[s].pay.mgen \in Nat /\ sjob[s].pay.rgen \in Nat
  BY <1>1 DEF SeasonInv, SeasonTyped, SeasonOK, SeasonRuns, SeasonJobs, Claims, Checkpoints
<1>3. /\ sjob' \in [Seasons -> SeasonJobs]
      /\ sjob'[s].pay = UpdateJobCheckpoint(sjob[s].pay, srun[s].p)
      /\ sjob'[s].state = sjob[s].state /\ sjob'[s].after = sjob[s].after
      /\ \A o \in Seasons : o # s => sjob'[o] = sjob[o]
  BY <1>1, <1>2, SaveFacts DEF SeasonInv
<1>4. /\ srun' \in [Seasons -> SeasonRuns]
      /\ srun'[s].pc = "retire" /\ srun'[s].p = EmptyCheckpoint /\ srun'[s].claimed = srun[s].claimed
      /\ \A o \in Seasons : o # s => srun'[o] = srun[o]
  <2>1. "retire" \in RunSteps /\ "now" \in Returns /\ EmptyCheckpoint \in Checkpoints
    BY EmptyFacts DEF RunSteps, Returns
  <2> QED
    BY <1>1, <2>1, RunFacts DEF SeasonInv
<1>5. /\ Dated(sjob'[s].pay) /\ Shows(sjob'[s].pay, srun[s].claimed, owed[s])
      /\ sjob'[s].pay.mgen = sjob[s].pay.mgen /\ sjob'[s].pay.rgen = sjob[s].pay.rgen
  BY <1>1, <1>2, <1>3, WriteBack
<1>6. Dated(EmptyCheckpoint)
  BY EmptyDated DEF SeasonInv, SeasonTyped
<1>7. Dated(sjob[s].pay)' /\ Dated(srun[s].p)'
  BY <1>1, <1>4, <1>5, <1>6 DEF Dated
<1>8. Copied(srun[s])' /\ Marked(srun[s].p, srun[s].claimed)'
  BY <1>2, <1>4, EmptyFacts DEF Copied, Marked, Working, Opened
<1>9. SeasonOK(s)'
  BY <1>1, <1>2, <1>3, <1>4, <1>5, <1>7, <1>8, EmptyFacts DEF SeasonOK
<1>10. \A o \in Seasons : SeasonOK(o)'
  BY <1>1, <1>3, <1>4, <1>9, OthersKeep
<1> QED
  BY <1>1, <1>3, <1>4, <1>10, RestUnchanged

LEMMA RerunFails ==
  ASSUME SeasonInv, NEW s \in Seasons, RerunFailed(s)
  PROVE  SeasonInv'
<1>0. /\ sjob[s].state = "leased" /\ srun[s].pc = "rerun"
      /\ srun' = [srun EXCEPT ![s].pc = "retire", ![s].res = "error", ![s].p = EmptyCheckpoint]
      /\ UNCHANGED <<sjob, compared, planLive, asking, owed, catalog>>
  BY DEF RerunFailed, Rerun
<1>1. /\ sjob' \in [Seasons -> SeasonJobs] /\ sjob[s].pay.mgen \in Nat /\ sjob[s].pay.rgen \in Nat
  BY <1>0 DEF SeasonInv, SeasonTyped, SeasonJobs, Checkpoints
<1>2. /\ srun' \in [Seasons -> SeasonRuns]
      /\ srun'[s].pc = "retire" /\ srun'[s].p = EmptyCheckpoint /\ srun'[s].claimed = srun[s].claimed
      /\ \A o \in Seasons : o # s => srun'[o] = srun[o]
  <2>1. "retire" \in RunSteps /\ "error" \in Returns /\ EmptyCheckpoint \in Checkpoints
    BY EmptyFacts DEF RunSteps, Returns
  <2> QED
    BY <1>0, <2>1, RunFacts DEF SeasonInv
<1>3. Dated(EmptyCheckpoint)
  BY EmptyDated DEF SeasonInv, SeasonTyped
<1>4. Dated(sjob[s].pay)' /\ Dated(srun[s].p)'
  BY <1>0, <1>2, <1>3 DEF Dated, SeasonInv, SeasonOK
<1>5. Shows(sjob[s].pay, srun[s].claimed, owed[s]) /\ srun[s].claimed.mgen \in Nat
  BY <1>0 DEF SeasonInv, SeasonOK, SeasonTyped, SeasonRuns, Claims
<1>6. Shows(sjob[s].pay, srun[s].claimed, owed[s])'
  BY <1>0, <1>2, <1>5 DEF Shows, Marked
<1>7. Copied(srun[s])' /\ Marked(srun[s].p, srun[s].claimed)'
  BY <1>0, <1>2, <1>5, EmptyFacts DEF Copied, Marked, Working, Opened
<1>8. SeasonOK(s)'
  BY <1>0, <1>1, <1>2, <1>4, <1>6, <1>7, EmptyFacts DEF SeasonOK
<1>9. \A o \in Seasons : SeasonOK(o)'
  BY <1>0, <1>2, <1>8, OthersKeep
<1> QED
  BY <1>0, <1>1, <1>2, <1>9, RestUnchanged

LEMMA RerunKeeps ==
  ASSUME SeasonInv, NEW s \in Seasons, RerunForReplan(s)
  PROVE  SeasonInv'
<1>1. RerunSaved(s) \/ RerunFailed(s)
  BY Zenon DEF RerunForReplan, AtStep, RerunSaved, RerunFailed, Rerun
<1> QED
  BY <1>1, RerunSaves, RerunFails

\* The queue's finish, and a crash.
LEMMA IdleFacts ==
  /\ IdleSeason \in SeasonRuns /\ IdleSeason.p = EmptyCheckpoint
  /\ NoSeasonJob \in SeasonJobs /\ NoSeasonJob.state = "none" /\ NoSeasonJob.pay = EmptyCheckpoint
<1>1. SeasonRequests(EmptyCheckpoint) \in Claims
  BY EmptyFacts DEF SeasonRequests, Claims, Checkpoints
<1> QED
  BY <1>1, EmptyFacts DEF IdleSeason, NoSeasonJob, SeasonRuns, SeasonJobs, RunSteps, Returns, JobStates, Waits

\* A job that is not leased: its worker's copy is idle or of no matter.
LEMMA JobWrites ==
  ASSUME SeasonInv, NEW s \in Seasons, NEW job \in SeasonJobs, sjob' = [sjob EXCEPT ![s] = job],
         NEW run \in SeasonRuns, srun' = [srun EXCEPT ![s] = run],
         job.state # "leased", Dated(job.pay), Dated(run.p), catalog' = catalog,
         \A o \in Seasons : o # s => owed'[o] = owed[o],
         job.state = "queued" /\ job.after = "later" => owed'[s] = {}
  PROVE  /\ sjob' \in [Seasons -> SeasonJobs] /\ srun' \in [Seasons -> SeasonRuns]
         /\ \A o \in Seasons : SeasonOK(o)'
<1>1. sjob \in [Seasons -> SeasonJobs] /\ srun \in [Seasons -> SeasonRuns]
  BY DEF SeasonInv, SeasonTyped
<1>2. /\ sjob' \in [Seasons -> SeasonJobs] /\ sjob'[s] = job /\ \A o \in Seasons : o # s => sjob'[o] = sjob[o]
      /\ srun' \in [Seasons -> SeasonRuns] /\ srun'[s] = run /\ \A o \in Seasons : o # s => srun'[o] = srun[o]
  BY <1>1
<1>3. Dated(sjob[s].pay)' /\ Dated(srun[s].p)'
  BY <1>2 DEF Dated
<1>4. SeasonOK(s)'
  BY <1>2, <1>3 DEF SeasonOK
<1> QED
  BY <1>2, <1>4, OthersKeep

\* A job queued again by the end of its worker, or by time.
LEMMA RequeueKeeps ==
  ASSUME SeasonInv, NEW s \in Seasons, NEW after \in Waits, NEW run \in {IdleSeason, srun[s]},
         sjob' = [sjob EXCEPT ![s].state = "queued", ![s].after = after],
         srun' = [srun EXCEPT ![s] = run], UNCHANGED <<owed, catalog>>,
         after = "later" => owed[s] = {}
  PROVE  /\ sjob' \in [Seasons -> SeasonJobs] /\ srun' \in [Seasons -> SeasonRuns]
         /\ \A o \in Seasons : SeasonOK(o)'
<1> DEFINE state == "queued"
           job == [sjob[s] EXCEPT !.state = state, !.after = after]
<1>1. sjob \in [Seasons -> SeasonJobs] /\ sjob[s] \in SeasonJobs /\ srun[s] \in SeasonRuns /\ SeasonOK(s)
  BY DEF SeasonInv, SeasonTyped
<1>2. sjob' = [sjob EXCEPT ![s] = job]
  BY <1>1
<1>3. state \in JobStates /\ state # "leased"
  BY DEF JobStates
<1> HIDE DEF state
<1>4. job \in SeasonJobs /\ job.state = state /\ job.after = after /\ job.pay = sjob[s].pay
  BY <1>1, <1>3 DEF SeasonJobs
<1> HIDE DEF job
<1>5. run \in SeasonRuns /\ Dated(run.p)
  BY <1>1, IdleFacts, EmptyDated DEF SeasonOK, SeasonInv, SeasonTyped
<1>6. Dated(job.pay)
  BY <1>1, <1>4 DEF SeasonOK
<1>7. catalog' = catalog /\ owed' = owed
  OBVIOUS
<1> QED
  BY <1>2, <1>3, <1>4, <1>5, <1>6, <1>7, JobWrites

LEMMA FinishKeeps ==
  ASSUME SeasonInv, NEW s \in Seasons, FinishSeasonJob(s)
  PROVE  SeasonInv'
<1>1. /\ sjob[s].state = "leased" /\ srun' = [srun EXCEPT ![s] = IdleSeason]
      /\ UNCHANGED <<planLive, asking, owed, catalog>>
  BY DEF FinishSeasonJob, AtStep
<1>2. compared' \in [Seasons -> {"none", "week", "minutes"}]
  BY DEF FinishSeasonJob, SeasonInv, SeasonTyped
<1>3. \/ \E state \in {"done", "failed"} : sjob' = [sjob EXCEPT ![s] = [NoSeasonJob EXCEPT !.state = state]]
      \/ sjob' = [sjob EXCEPT ![s].state = "queued", ![s].after = "backoff"]
      \/ /\ srun[s].res \in {"now", "later"}
         /\ sjob' = [sjob EXCEPT ![s].state = "queued", ![s].after = DeferClaimedJob(s, srun[s].res)]
  BY Zenon DEF FinishSeasonJob
<1>4. SeasonOK(s) /\ owed[s] \subseteq {"press", "replan"} /\ srun[s].res \in Returns
  BY DEF SeasonInv, SeasonTyped, SeasonRuns
<1>5. ASSUME NEW state \in {"done", "failed"},
             sjob' = [sjob EXCEPT ![s] = [NoSeasonJob EXCEPT !.state = state]]
      PROVE  /\ sjob' \in [Seasons -> SeasonJobs] /\ srun' \in [Seasons -> SeasonRuns]
             /\ \A o \in Seasons : SeasonOK(o)'
  <2> DEFINE job == [NoSeasonJob EXCEPT !.state = state]
  <2>1. job \in SeasonJobs /\ job.state = state /\ job.pay = EmptyCheckpoint
    BY IdleFacts DEF SeasonJobs, JobStates
  <2>2. sjob' = [sjob EXCEPT ![s] = job]
    BY <1>5
  <2> HIDE DEF job
  <2>3. Dated(job.pay) /\ Dated(IdleSeason.p) /\ IdleSeason \in SeasonRuns
    BY <2>1, IdleFacts, EmptyDated DEF SeasonInv, SeasonTyped
  <2> QED
    BY <1>1, <2>1, <2>2, <2>3, JobWrites
<1>6. CASE sjob' = [sjob EXCEPT ![s].state = "queued", ![s].after = "backoff"]
  <2>1. "backoff" \in Waits /\ "backoff" # "later"
    BY DEF Waits
  <2>2. /\ sjob' \in [Seasons -> SeasonJobs] /\ srun' \in [Seasons -> SeasonRuns]
        /\ \A o \in Seasons : SeasonOK(o)'
    BY <1>1, <1>6, <2>1, RequeueKeeps
  <2> QED
    BY <1>1, <1>2, <2>2, RestTyped DEF SeasonInv, SeasonTyped
<1>7. ASSUME srun[s].res \in {"now", "later"}, NEW after, after = DeferClaimedJob(s, srun[s].res),
             sjob' = [sjob EXCEPT ![s].state = "queued", ![s].after = after]
      PROVE  SeasonInv'
  <2>1. after \in Waits
    BY <1>7 DEF DeferClaimedJob, Waits
  <2>2. after = "later" => owed[s] = {}
    <3>1. Shows(sjob[s].pay, srun[s].claimed, owed[s])
      BY <1>1, <1>4 DEF SeasonOK
    <3>2. ASSUME after = "later"
          PROVE  ~(sjob[s].pay.mgen > srun[s].claimed.mgen /\ sjob[s].pay.manual)
                 /\ ~(sjob[s].pay.rgen > srun[s].claimed.rgen)
      BY <1>7, <3>2 DEF DeferClaimedJob
    <3> QED
      BY <1>4, <3>1, <3>2 DEF Shows, Marked
  <2>3. /\ sjob' \in [Seasons -> SeasonJobs] /\ srun' \in [Seasons -> SeasonRuns]
        /\ \A o \in Seasons : SeasonOK(o)'
    BY <1>1, <1>7, <2>1, <2>2, RequeueKeeps
  <2> QED
    BY <1>1, <1>2, <2>3, RestTyped DEF SeasonInv, SeasonTyped
<1>8. ASSUME /\ sjob' \in [Seasons -> SeasonJobs] /\ srun' \in [Seasons -> SeasonRuns]
             /\ \A o \in Seasons : SeasonOK(o)'
      PROVE  SeasonInv'
  BY <1>1, <1>2, <1>8, RestTyped DEF SeasonInv, SeasonTyped
<1> QED
  BY <1>3, <1>5, <1>6, <1>7, <1>8

LEMMA CrashKeeps ==
  ASSUME SeasonInv, NEW s \in Seasons, SeasonCrash(s)
  PROVE  SeasonInv'
<1>1. /\ sjob' = [sjob EXCEPT ![s].state = "queued", ![s].after = "now"]
      /\ srun' = [srun EXCEPT ![s] = IdleSeason]
      /\ UNCHANGED <<compared, planLive, asking, owed, catalog>> /\ "now" \in Waits /\ "now" # "later"
  BY DEF SeasonCrash, Waits
<1>2. /\ sjob' \in [Seasons -> SeasonJobs] /\ srun' \in [Seasons -> SeasonRuns]
      /\ \A o \in Seasons : SeasonOK(o)'
  BY <1>1, RequeueKeeps
<1> QED
  BY <1>1, <1>2, RestUnchanged

LEMMA PassKeeps ==
  ASSUME SeasonInv, NEW s \in Seasons, RunAfterPasses(s)
  PROVE  SeasonInv'
<1>1. /\ sjob[s].state = "queued" /\ sjob' = [sjob EXCEPT ![s].after = "now"]
      /\ UNCHANGED <<srun, compared, planLive, asking, owed, catalog>> /\ "now" \in Waits /\ "now" # "later"
  BY DEF RunAfterPasses, Waits
<1>2. /\ sjob \in [Seasons -> SeasonJobs] /\ srun \in [Seasons -> SeasonRuns]
      /\ sjob[s] \in SeasonJobs /\ srun[s] \in SeasonRuns /\ SeasonOK(s)
  BY DEF SeasonInv, SeasonTyped
<1> DEFINE job == [sjob[s] EXCEPT !.after = "now"]
<1>3. job \in SeasonJobs /\ job.state = "queued" /\ job.after = "now" /\ job.pay = sjob[s].pay
  BY <1>1, <1>2 DEF SeasonJobs, Waits
<1>4. sjob' = [sjob EXCEPT ![s] = job] /\ srun' = [srun EXCEPT ![s] = srun[s]]
  BY <1>1, <1>2
<1> HIDE DEF job
<1>5. Dated(job.pay) /\ Dated(srun[s].p)
  BY <1>2, <1>3 DEF SeasonOK
<1>6. /\ sjob' \in [Seasons -> SeasonJobs] /\ srun' \in [Seasons -> SeasonRuns]
      /\ \A o \in Seasons : SeasonOK(o)'
  BY <1>1, <1>2, <1>3, <1>4, <1>5, JobWrites
<1> QED
  BY <1>1, <1>6, RestUnchanged

LEMMA ClaimSeasonKeeps ==
  ASSUME SeasonInv, NEW s \in Seasons, ClaimSeason(s)
  PROVE  SeasonInv'
<1> DEFINE claimed == SeasonRequests(sjob[s].pay)
           run == [IdleSeason EXCEPT !.pc = "open", !.claimed = claimed, !.p = sjob[s].pay]
           job == [sjob[s] EXCEPT !.state = "leased"]
           pay == sjob[s].pay
<1>1. /\ srun' = [srun EXCEPT ![s] = run] /\ sjob' = [sjob EXCEPT ![s] = job]
      /\ owed' = [owed EXCEPT ![s] = {}] /\ UNCHANGED <<compared, planLive, asking, catalog>>
  BY DEF ClaimSeason
<1>2. /\ sjob \in [Seasons -> SeasonJobs] /\ srun \in [Seasons -> SeasonRuns]
      /\ owed \in [Seasons -> SUBSET {"press", "replan"}]
      /\ sjob[s] \in SeasonJobs /\ SeasonOK(s) /\ pay \in Checkpoints
      /\ pay.mgen \in Nat /\ pay.rgen \in Nat /\ IdleSeason \in SeasonRuns
  BY IdleFacts DEF SeasonInv, SeasonTyped, SeasonJobs, Checkpoints
<1>3. /\ claimed \in Claims /\ claimed.mgen = pay.mgen /\ claimed.rgen = pay.rgen
      /\ "open" \in RunSteps /\ "leased" \in JobStates
  BY <1>2 DEF SeasonRequests, Claims, Checkpoints, RunSteps, JobStates
<1>4. job \in SeasonJobs /\ job.state = "leased" /\ job.pay = pay
  BY <1>2, <1>3 DEF SeasonJobs
<1> HIDE DEF claimed
<1>5. run \in SeasonRuns /\ run.pc = "open" /\ run.claimed = claimed /\ run.p = pay
  BY <1>2, <1>3 DEF SeasonRuns
<1> HIDE DEF run, job, pay
<1>6. /\ sjob' \in [Seasons -> SeasonJobs] /\ sjob'[s] = job /\ \A o \in Seasons : o # s => sjob'[o] = sjob[o]
      /\ srun' \in [Seasons -> SeasonRuns] /\ srun'[s] = run /\ \A o \in Seasons : o # s => srun'[o] = srun[o]
      /\ owed' \in [Seasons -> SUBSET {"press", "replan"}] /\ owed'[s] = {}
      /\ \A o \in Seasons : o # s => owed'[o] = owed[o]
  BY <1>1, <1>2, <1>4, <1>5
<1>7. Dated(pay)
  BY <1>2 DEF SeasonOK, pay
<1>8. Dated(sjob[s].pay)' /\ Dated(srun[s].p)'
  BY <1>1, <1>4, <1>5, <1>6, <1>7 DEF Dated
<1>9. Shows(sjob[s].pay, srun[s].claimed, owed[s])' /\ Marked(srun[s].p, srun[s].claimed)' /\ Copied(srun[s])'
  BY <1>2, <1>3, <1>4, <1>5, <1>6 DEF Shows, Marked, Copied, Opened
<1>10. SeasonOK(s)'
  BY <1>2, <1>4, <1>5, <1>6, <1>8, <1>9 DEF SeasonOK
<1>11. \A o \in Seasons : SeasonOK(o)'
  BY <1>1, <1>6, <1>10, OthersKeep
<1> QED
  BY <1>1, <1>6, <1>11, RestTyped DEF SeasonInv, SeasonTyped

----------------------------------------------------------------------------
(* Requests and the surroundings *)

LEMMA RequestFacts ==
  ASSUME NEW s, NEW manual \in BOOLEAN
  PROVE  /\ Request(s, manual) \in SeasonJobs /\ Request(s, manual).state = "queued"
         /\ Request(s, manual).after = "now"
         /\ Request(s, manual).pay \in Checkpoints
         /\ Request(s, manual).pay.rev = 0 /\ Request(s, manual).pay.found = {}
         /\ ~Request(s, manual).pay.started
<1> DEFINE mgen == IF manual THEN 1 ELSE 0
           pay == [EmptyCheckpoint EXCEPT !.manual = manual, !.mgen = mgen]
<1>1. mgen \in Nat
  OBVIOUS
<1> HIDE DEF mgen
<1>2. pay \in Checkpoints /\ pay.rev = 0 /\ pay.found = {} /\ ~pay.started
  BY <1>1, EmptyFacts DEF Checkpoints
<1> HIDE DEF pay
<1>3. Request(s, manual) = [state |-> "queued", after |-> "now", pay |-> pay]
  BY DEF Request, pay, mgen
<1> QED
  BY <1>2, <1>3 DEF SeasonJobs, JobStates, Waits

LEMMA FreshDated ==
  ASSUME SeasonTyped, NEW p, p.rev = 0, p.found \subseteq {Feed}, ~p.started
  PROVE  Dated(p)
<1>1. 0 <= catalog /\ catalog # 0
  BY CatalogFacts
<1> QED
  BY <1>1 DEF Dated

\* A new job for a season without one.
LEMMA QueueKeeps ==
  ASSUME SeasonInv, NEW s \in Seasons, NEW manual \in BOOLEAN, sjob' = [sjob EXCEPT ![s] = Request(s, manual)],
         UNCHANGED <<srun, catalog>>, \A o \in Seasons : o # s => owed'[o] = owed[o]
  PROVE  /\ sjob' \in [Seasons -> SeasonJobs] /\ srun' \in [Seasons -> SeasonRuns]
         /\ \A o \in Seasons : SeasonOK(o)'
<1> DEFINE job == Request(s, manual)
<1>1. /\ job \in SeasonJobs /\ job.state = "queued" /\ job.after = "now"
      /\ job.pay.rev = 0 /\ job.pay.found = {} /\ ~job.pay.started
  BY RequestFacts
<1>2. sjob' = [sjob EXCEPT ![s] = job]
  OBVIOUS
<1> HIDE DEF job
<1>3. srun \in [Seasons -> SeasonRuns] /\ srun[s] \in SeasonRuns /\ SeasonOK(s)
  BY DEF SeasonInv, SeasonTyped
<1>4. Dated(job.pay) /\ Dated(srun[s].p)
  BY <1>1, <1>3, FreshDated DEF SeasonOK, SeasonInv
<1>5. srun' = [srun EXCEPT ![s] = srun[s]]
  BY <1>3
<1> QED
  BY <1>1, <1>2, <1>3, <1>4, <1>5, JobWrites

LEMMA AnsweredTyped ==
  ASSUME SeasonInv, NEW s \in Seasons, NEW who \in {"press", "replan"}, Answered(s, who)
  PROVE  /\ owed' \in [Seasons -> SUBSET {"press", "replan"}]
         /\ owed'[s] = owed[s] \cup {who} /\ \A o \in Seasons : o # s => owed'[o] = owed[o]
BY DEF Answered, SeasonInv, SeasonTyped

\* Nothing that the invariant of a season mentions has changed.
LEMMA SameKeeps ==
  ASSUME SeasonInv, UNCHANGED <<sjob, srun, owed, catalog>>
  PROVE  /\ sjob' \in [Seasons -> SeasonJobs] /\ srun' \in [Seasons -> SeasonRuns]
         /\ \A o \in Seasons : SeasonOK(o)'
BY DEF SeasonInv, SeasonTyped, SeasonOK, Dated

LEMMA EnqueueKeeps ==
  ASSUME SeasonInv, NEW s \in Seasons, NEW manual \in BOOLEAN, NEW trigger, EnqueueSeason(s, manual, trigger)
  PROVE  SeasonInv'
<1> DEFINE who == IF manual THEN "press" ELSE "replan"
<1>1. /\ UNCHANGED <<srun, compared, planLive, catalog>>
      /\ \/ asking' = [asking EXCEPT ![s] = who] /\ UNCHANGED <<sjob, owed>>
         \/ sjob' = [sjob EXCEPT ![s] = Request(s, manual)] /\ Answered(s, who) /\ UNCHANGED asking
      /\ who \in {"press", "replan"}
  BY DEF EnqueueSeason
<1> HIDE DEF who
<1>2. CASE asking' = [asking EXCEPT ![s] = who] /\ UNCHANGED <<sjob, owed>>
  <2>1. asking' \in [Seasons -> {"", "press", "replan"}]
    BY <1>1, <1>2 DEF SeasonInv, SeasonTyped
  <2>2. /\ sjob' \in [Seasons -> SeasonJobs] /\ srun' \in [Seasons -> SeasonRuns]
        /\ \A o \in Seasons : SeasonOK(o)'
    BY <1>1, <1>2, SameKeeps
  <2> QED
    BY <1>1, <1>2, <2>1, <2>2, RestTyped DEF SeasonInv, SeasonTyped
<1>3. CASE sjob' = [sjob EXCEPT ![s] = Request(s, manual)] /\ Answered(s, who) /\ UNCHANGED asking
  <2>1. owed' \in [Seasons -> SUBSET {"press", "replan"}] /\ \A o \in Seasons : o # s => owed'[o] = owed[o]
    BY <1>1, <1>3, AnsweredTyped
  <2>2. /\ sjob' \in [Seasons -> SeasonJobs] /\ srun' \in [Seasons -> SeasonRuns]
        /\ \A o \in Seasons : SeasonOK(o)'
    BY <1>1, <1>3, <2>1, QueueKeeps
  <2> QED
    BY <1>1, <1>3, <2>1, <2>2, RestTyped DEF SeasonInv, SeasonTyped
<1> QED
  BY <1>1, <1>2, <1>3

\* A release of the feed joins a queued checkpoint.
LEMMA FeedKeeps ==
  ASSUME SeasonInv, NEW s \in Seasons, EnqueueRSSSeason(s)
  PROVE  SeasonInv'
<1>1. PICK merged \in BOOLEAN :
         LET job == IF LiveJob(s) THEN sjob[s] ELSE Request(s, FALSE)
         IN sjob' = [sjob EXCEPT ![s] = IF merged /\ job.state = "queued"
                                        THEN [job EXCEPT !.pay.found = @ \cup {Feed}] ELSE job]
  BY Zenon DEF EnqueueRSSSeason
<1>2. UNCHANGED <<srun, compared, planLive, asking, owed, catalog>>
  BY DEF EnqueueRSSSeason
<1>3. /\ sjob \in [Seasons -> SeasonJobs] /\ srun \in [Seasons -> SeasonRuns] /\ srun[s] \in SeasonRuns
      /\ SeasonOK(s) /\ sjob[s] \in SeasonJobs
  BY DEF SeasonInv, SeasonTyped
<1> DEFINE job == IF LiveJob(s) THEN sjob[s] ELSE Request(s, FALSE)
           fed == [job EXCEPT !.pay.found = @ \cup {Feed}]
<1>4. job \in SeasonJobs /\ Dated(job.pay) /\ (job = sjob[s] \/ (job.state = "queued" /\ job.after = "now"))
  <2>1. CASE LiveJob(s)
    <3>1. job = sjob[s]
      BY <2>1
    <3>2. Dated(sjob[s].pay)
      BY <1>3 DEF SeasonOK
    <3> HIDE DEF job
    <3> QED
      BY <1>3, <3>1, <3>2
  <2>2. CASE ~LiveJob(s)
    <3>1. job = Request(s, FALSE)
      BY <2>2
    <3>2. /\ job \in SeasonJobs /\ job.state = "queued" /\ job.after = "now"
          /\ job.pay.rev = 0 /\ job.pay.found = {} /\ ~job.pay.started
      BY <3>1, RequestFacts
    <3> HIDE DEF job
    <3> QED
      BY <3>2, FreshDated DEF SeasonInv
  <2> QED
    BY <2>1, <2>2
<1>5. \/ sjob' = [sjob EXCEPT ![s] = fed] /\ job.state = "queued"
      \/ sjob' = [sjob EXCEPT ![s] = job]
  BY <1>1
<1> HIDE DEF job
<1>6. fed \in SeasonJobs /\ fed.state = job.state /\ fed.after = job.after /\ Dated(fed.pay)
  <2> DEFINE found == job.pay.found \cup {Feed}
             pay == [job.pay EXCEPT !.found = found]
  <2>1. job.pay \in Checkpoints /\ found \in Evidence
    BY <1>4 DEF SeasonJobs, Checkpoints, Evidence, Feed
  <2>2. fed = [job EXCEPT !.pay = pay]
    BY <1>4, <2>1
  <2> HIDE DEF fed, found
  <2>3. pay \in Checkpoints /\ pay.rev = job.pay.rev /\ pay.found = found /\ pay.started = job.pay.started
    BY <2>1, FoundWrite
  <2> HIDE DEF pay
  <2>4. fed \in SeasonJobs /\ fed.state = job.state /\ fed.after = job.after /\ fed.pay = pay
    BY <1>4, <2>2, <2>3 DEF SeasonJobs
  <2>5. pay.found = job.pay.found \cup {Feed}
    BY <2>3 DEF found
  <2>6. Dated(pay)
    BY <1>4, <2>3, <2>5 DEF Dated
  <2> QED
    BY <2>4, <2>6
<1> HIDE DEF fed
<1>7. srun' = [srun EXCEPT ![s] = srun[s]] /\ Dated(srun[s].p)
  BY <1>2, <1>3 DEF SeasonOK
<1>8. ASSUME NEW new \in {fed, job}, sjob' = [sjob EXCEPT ![s] = new], new.state # "leased"
      PROVE  SeasonInv'
  <2>1. new.state = "queued" /\ new.after = "later" => owed'[s] = {}
    BY <1>2, <1>3, <1>4, <1>6, <1>8 DEF SeasonOK
  <2>2. /\ sjob' \in [Seasons -> SeasonJobs] /\ srun' \in [Seasons -> SeasonRuns]
        /\ \A o \in Seasons : SeasonOK(o)'
    BY <1>2, <1>3, <1>4, <1>6, <1>7, <1>8, <2>1, JobWrites
  <2> QED
    BY <1>2, <2>2, RestUnchanged
<1>9. CASE job.state = "leased" /\ sjob' = [sjob EXCEPT ![s] = job]
  <2>1. sjob' = sjob
    BY <1>3, <1>4, <1>9
  <2>2. /\ sjob' \in [Seasons -> SeasonJobs] /\ srun' \in [Seasons -> SeasonRuns]
        /\ \A o \in Seasons : SeasonOK(o)'
    BY <1>2, <2>1, SameKeeps
  <2> QED
    BY <1>2, <2>2, RestUnchanged
<1> QED
  BY <1>5, <1>6, <1>8, <1>9

\* What a press or a failed grab does to the payload of a live job.
Told(pay, old, who) ==
    \/ who = "press" /\ pay.mgen = old.mgen + 1 /\ pay.manual /\ pay.rgen = old.rgen
    \/ /\ who = "replan" /\ pay.rgen = old.rgen + 1
       /\ pay.mgen = old.mgen /\ pay.manual = old.manual

LEMMA ToldGrows ==
  ASSUME NEW pay, NEW old, NEW who, Told(pay, old, who), old.mgen \in Nat, old.rgen \in Nat,
         NEW mgen \in Nat, NEW rgen \in Nat, mgen <= old.mgen, rgen <= old.rgen
  PROVE  mgen <= pay.mgen /\ rgen <= pay.rgen
BY DEF Told

LEMMA ToldShows ==
  ASSUME NEW pay, NEW old, NEW who \in {"press", "replan"}, Told(pay, old, who),
         old.mgen \in Nat, old.rgen \in Nat,
         NEW claimed, claimed.mgen \in Nat, claimed.rgen \in Nat, NEW asked, Shows(old, claimed, asked)
  PROVE  Shows(pay, claimed, asked \cup {who})
<1>1. /\ claimed.mgen <= old.mgen /\ claimed.rgen <= old.rgen
      /\ old.mgen > claimed.mgen => old.manual
      /\ "press" \in asked => old.mgen > claimed.mgen
      /\ "replan" \in asked => old.rgen > claimed.rgen
  BY DEF Shows, Marked
<1>2. CASE who = "press"
  <2>1. pay.mgen = old.mgen + 1 /\ pay.manual /\ pay.rgen = old.rgen
    BY <1>2 DEF Told
  <2> QED
    BY <1>1, <1>2, <2>1 DEF Shows, Marked
<1>3. CASE who = "replan"
  <2>1. pay.rgen = old.rgen + 1 /\ pay.mgen = old.mgen /\ pay.manual = old.manual
    BY <1>3 DEF Told
  <2> QED
    BY <1>1, <1>3, <2>1 DEF Shows, Marked
<1> QED
  BY <1>2, <1>3

\* A request told to a live job: the generation it is told under is new.
Tells(s, pay) ==
    sjob' = [sjob EXCEPT ![s].pay = pay, ![s].after = "now"] /\ asking' = [asking EXCEPT ![s] = ""]

LEMMA TellKeeps ==
  ASSUME SeasonInv, NEW s \in Seasons, NEW pay \in Checkpoints, NEW who \in {"press", "replan"},
         Tells(s, pay), Answered(s, who), UNCHANGED <<srun, compared, planLive, catalog>>,
         pay.rev = sjob[s].pay.rev, pay.found = sjob[s].pay.found, pay.started = sjob[s].pay.started,
         Told(pay, sjob[s].pay, who)
  PROVE  SeasonInv'
<1> DEFINE job == [sjob[s] EXCEPT !.pay = pay, !.after = "now"]
<1>1. /\ sjob \in [Seasons -> SeasonJobs] /\ srun \in [Seasons -> SeasonRuns] /\ SeasonOK(s)
      /\ sjob[s] \in SeasonJobs
      /\ sjob[s].pay.mgen \in Nat /\ sjob[s].pay.rgen \in Nat
      /\ srun[s].claimed.mgen \in Nat /\ srun[s].claimed.rgen \in Nat
      /\ srun[s].p.mgen \in Nat /\ srun[s].p.rgen \in Nat
  BY DEF SeasonInv, SeasonTyped, SeasonJobs, SeasonRuns, Claims, Checkpoints
<1>2. job \in SeasonJobs /\ job.state = sjob[s].state /\ job.after = "now" /\ job.pay = pay
  BY <1>1 DEF SeasonJobs, Waits
<1>3. sjob' = [sjob EXCEPT ![s] = job]
  BY <1>1 DEF Tells
<1> HIDE DEF job
<1>4. /\ sjob' \in [Seasons -> SeasonJobs] /\ sjob'[s] = job
      /\ \A o \in Seasons : o # s => sjob'[o] = sjob[o]
  BY <1>1, <1>2, <1>3
<1>5. /\ owed' \in [Seasons -> SUBSET {"press", "replan"}]
      /\ owed'[s] = owed[s] \cup {who} /\ \A o \in Seasons : o # s => owed'[o] = owed[o]
  BY AnsweredTyped
<1>6. Dated(sjob[s].pay)' /\ Dated(srun[s].p)'
  BY <1>1, <1>2, <1>4 DEF SeasonOK, Dated
<1>7. ASSUME sjob[s].state = "leased"
      PROVE  /\ Shows(pay, srun[s].claimed, owed'[s])
             /\ srun[s].p.mgen <= pay.mgen /\ srun[s].p.rgen <= pay.rgen
             /\ Marked(srun[s].p, srun[s].claimed) /\ Copied(srun[s])
  <2>1. /\ Shows(sjob[s].pay, srun[s].claimed, owed[s])
        /\ srun[s].p.mgen <= sjob[s].pay.mgen /\ srun[s].p.rgen <= sjob[s].pay.rgen
        /\ Marked(srun[s].p, srun[s].claimed) /\ Copied(srun[s])
    BY <1>1, <1>7 DEF SeasonOK
  <2>2. Told(pay, sjob[s].pay, who)
    OBVIOUS
  <2>3. Shows(pay, srun[s].claimed, owed'[s])
    BY <1>1, <1>5, <2>1, <2>2, ToldShows
  <2>4. srun[s].p.mgen <= pay.mgen /\ srun[s].p.rgen <= pay.rgen
    BY <1>1, <2>1, <2>2, ToldGrows
  <2> QED
    BY <2>1, <2>3, <2>4
<1>8. srun' = srun /\ catalog' = catalog
  OBVIOUS
<1>9. SeasonOK(s)'
  BY <1>2, <1>4, <1>6, <1>7, <1>8 DEF SeasonOK, Copied
<1>10. \A o \in Seasons : SeasonOK(o)'
  BY <1>4, <1>5, <1>8, <1>9, OthersKeep
<1>11. asking' \in [Seasons -> {"", "press", "replan"}] /\ srun' \in [Seasons -> SeasonRuns]
  BY <1>1 DEF SeasonInv, SeasonTyped, Tells
<1> QED
  BY <1>4, <1>5, <1>10, <1>11, RestTyped DEF SeasonInv, SeasonTyped

LEMMA PromoteKeeps ==
  ASSUME SeasonInv, NEW s \in Seasons, PromoteManual(s)
  PROVE  SeasonInv'
<1>1. /\ asking' = [asking EXCEPT ![s] = ""] /\ Answered(s, "press")
      /\ UNCHANGED <<srun, compared, planLive, catalog>>
      /\ \/ sjob' = [sjob EXCEPT ![s].pay.manual = TRUE, ![s].pay.mgen = @ + 1, ![s].after = "now"]
         \/ UNCHANGED sjob /\ ~LiveJob(s)
  BY Zenon DEF PromoteManual
<1>2. /\ sjob \in [Seasons -> SeasonJobs] /\ sjob[s] \in SeasonJobs /\ sjob[s].pay \in Checkpoints
      /\ srun \in [Seasons -> SeasonRuns] /\ srun[s] \in SeasonRuns /\ SeasonOK(s)
      /\ sjob[s].pay.mgen \in Nat
  BY DEF SeasonInv, SeasonTyped, SeasonJobs, Checkpoints
<1>3. CASE sjob' = [sjob EXCEPT ![s].pay.manual = TRUE, ![s].pay.mgen = @ + 1, ![s].after = "now"]
  <2> DEFINE yes == TRUE
             mgen == sjob[s].pay.mgen + 1
             pay == [sjob[s].pay EXCEPT !.manual = yes, !.mgen = mgen]
  <2>1. mgen \in Nat /\ yes \in BOOLEAN /\ yes
    BY <1>2
  <2>2. Tells(s, pay)
    <3> DEFINE old == sjob[s]
               job == [old EXCEPT !.pay.manual = TRUE, !.pay.mgen = @ + 1, !.after = "now"]
               new == [old EXCEPT !.pay = pay, !.after = "now"]
    <3>1. sjob' = [sjob EXCEPT ![s] = job]
      BY <1>2, <1>3
    <3>2. [old EXCEPT !.pay.manual = TRUE].pay.mgen = old.pay.mgen
      BY <1>2 DEF SeasonJobs, Checkpoints
    <3>3. job = new
      BY <1>2, <3>2, Zenon
    <3>4. [sjob EXCEPT ![s] = new] = [sjob EXCEPT ![s].pay = pay, ![s].after = "now"]
      BY <1>2
    <3> QED
      BY <1>1, <3>1, <3>3, <3>4, Zenon DEF Tells
  <2> HIDE DEF yes, mgen
  <2>3. /\ pay \in Checkpoints /\ pay.manual = yes /\ pay.mgen = mgen /\ pay.rgen = sjob[s].pay.rgen
        /\ pay.rev = sjob[s].pay.rev /\ pay.found = sjob[s].pay.found /\ pay.started = sjob[s].pay.started
    BY <1>2, <2>1 DEF Checkpoints
  <2> HIDE DEF pay
  <2>4. Told(pay, sjob[s].pay, "press")
    BY <2>1, <2>3 DEF Told, mgen
  <2> QED
    BY <1>1, <2>2, <2>3, <2>4, TellKeeps
<1>4. CASE UNCHANGED sjob /\ ~LiveJob(s)
  <2>1. /\ owed' \in [Seasons -> SUBSET {"press", "replan"}] /\ \A o \in Seasons : o # s => owed'[o] = owed[o]
    BY <1>1, AnsweredTyped
  <2>2. sjob[s].state \notin {"queued", "leased"}
    BY <1>4 DEF LiveJob
  <2>3. sjob' = [sjob EXCEPT ![s] = sjob[s]] /\ srun' = [srun EXCEPT ![s] = srun[s]]
    BY <1>1, <1>2, <1>4
  <2>4. Dated(sjob[s].pay) /\ Dated(srun[s].p)
    BY <1>2 DEF SeasonOK
  <2>5. /\ sjob' \in [Seasons -> SeasonJobs] /\ srun' \in [Seasons -> SeasonRuns]
        /\ \A o \in Seasons : SeasonOK(o)'
    BY <1>1, <1>2, <2>1, <2>2, <2>3, <2>4, JobWrites
  <2>6. asking' \in [Seasons -> {"", "press", "replan"}]
    BY <1>1 DEF SeasonInv, SeasonTyped
  <2> QED
    BY <1>1, <2>1, <2>5, <2>6, RestTyped DEF SeasonInv, SeasonTyped
<1> QED
  BY <1>1, <1>3, <1>4

LEMMA AskKeeps ==
  ASSUME SeasonInv, NEW s \in Seasons, AskReplan(s)
  PROVE  SeasonInv'
<1>1. /\ asking' = [asking EXCEPT ![s] = ""] /\ Answered(s, "replan")
      /\ UNCHANGED <<srun, compared, planLive, catalog>>
      /\ \/ sjob' = [sjob EXCEPT ![s].pay.rgen = @ + 1, ![s].after = "now"]
         \/ sjob' = [sjob EXCEPT ![s] = Request(s, FALSE)]
  BY Zenon DEF AskReplan
<1>2. /\ sjob \in [Seasons -> SeasonJobs] /\ sjob[s] \in SeasonJobs /\ sjob[s].pay \in Checkpoints
      /\ sjob[s].pay.rgen \in Nat
  BY DEF SeasonInv, SeasonTyped, SeasonJobs, Checkpoints
<1>3. CASE sjob' = [sjob EXCEPT ![s].pay.rgen = @ + 1, ![s].after = "now"]
  <2> DEFINE rgen == sjob[s].pay.rgen + 1
             pay == [sjob[s].pay EXCEPT !.rgen = rgen]
  <2>1. rgen \in Nat
    BY <1>2
  <2>2. Tells(s, pay)
    BY <1>1, <1>2, <1>3 DEF Tells
  <2> HIDE DEF rgen
  <2>3. /\ pay \in Checkpoints /\ pay.manual = sjob[s].pay.manual /\ pay.mgen = sjob[s].pay.mgen /\ pay.rgen = rgen
        /\ pay.rev = sjob[s].pay.rev /\ pay.found = sjob[s].pay.found /\ pay.started = sjob[s].pay.started
    BY <1>2, <2>1 DEF Checkpoints
  <2> HIDE DEF pay
  <2>4. Told(pay, sjob[s].pay, "replan")
    BY <2>3 DEF Told, rgen
  <2> QED
    BY <1>1, <2>2, <2>3, <2>4, TellKeeps
<1>4. CASE sjob' = [sjob EXCEPT ![s] = Request(s, FALSE)]
  <2>1. /\ owed' \in [Seasons -> SUBSET {"press", "replan"}] /\ \A o \in Seasons : o # s => owed'[o] = owed[o]
    BY <1>1, AnsweredTyped
  <2>2. /\ sjob' \in [Seasons -> SeasonJobs] /\ srun' \in [Seasons -> SeasonRuns]
        /\ \A o \in Seasons : SeasonOK(o)'
    BY <1>1, <1>4, <2>1, QueueKeeps
  <2>3. asking' \in [Seasons -> {"", "press", "replan"}]
    BY <1>1 DEF SeasonInv, SeasonTyped
  <2> QED
    BY <1>1, <2>1, <2>2, <2>3, RestTyped DEF SeasonInv, SeasonTyped
<1> QED
  BY <1>1, <1>3, <1>4

LEMMA EditKeeps ==
  ASSUME SeasonInv, LibraryEdit
  PROVE  SeasonInv'
<1>1. /\ catalog <= MaxEdits /\ catalog' = catalog + 1
      /\ UNCHANGED <<sjob, srun, compared, planLive, asking, owed>>
  BY DEF LibraryEdit
<1>2. catalog \in Nat /\ 1 <= catalog /\ MaxEdits \in Nat
  BY CatalogFacts, SeasonAssumption DEF SeasonInv
<1>3. catalog' \in 1 .. (MaxEdits + 1)
  BY <1>1, <1>2
<1>4. ASSUME NEW p \in Checkpoints, Dated(p) PROVE Dated(p)'
  <2>1. p.rev \in Nat
    BY DEF Checkpoints
  <2>2. p.rev <= catalog' /\ p.rev # catalog'
    BY <1>1, <1>2, <1>4, <2>1 DEF Dated
  <2> QED
    BY <1>4, <2>2 DEF Dated
<1>5. ASSUME NEW s \in Seasons PROVE SeasonOK(s)'
  <2>1. sjob[s].pay \in Checkpoints /\ srun[s].p \in Checkpoints /\ SeasonOK(s)
    BY DEF SeasonInv, SeasonTyped, SeasonJobs, SeasonRuns
  <2>2. Dated(sjob[s].pay) /\ Dated(srun[s].p)
    BY <2>1 DEF SeasonOK
  <2>3. Dated(sjob[s].pay)' /\ Dated(srun[s].p)'
    BY <1>1, <1>4, <2>1, <2>2 DEF Dated
  <2> QED
    BY <1>1, <2>1, <2>3 DEF SeasonOK
<1> QED
  BY <1>1, <1>3, <1>5, RestTyped DEF SeasonInv, SeasonTyped

LEMMA CooldownKeeps ==
  ASSUME SeasonInv, NEW s \in Seasons, CooldownPasses(s)
  PROVE  SeasonInv'
<1>1. /\ UNCHANGED <<sjob, srun, planLive, asking, owed, catalog>>
      /\ compared' \in [Seasons -> {"none", "week", "minutes"}]
  BY DEF CooldownPasses, SeasonInv, SeasonTyped
<1>2. /\ sjob' \in [Seasons -> SeasonJobs] /\ srun' \in [Seasons -> SeasonRuns]
      /\ \A o \in Seasons : SeasonOK(o)'
  BY <1>1, SameKeeps
<1> QED
  BY <1>1, <1>2, RestTyped DEF SeasonInv, SeasonTyped

LEMMA ScopeSettledKeeps ==
  ASSUME SeasonInv, NEW s \in Seasons, ScopeSettled(s)
  PROVE  SeasonInv'
<1>1. /\ UNCHANGED <<srun, compared, asking, owed, catalog>> /\ planLive' \in [Seasons -> BOOLEAN]
      /\ sjob' = sjob \/ sjob' = [sjob EXCEPT ![s] = Request(s, FALSE)]
  BY DEF ScopeSettled, SeasonInv, SeasonTyped
<1>2. /\ sjob' \in [Seasons -> SeasonJobs] /\ srun' \in [Seasons -> SeasonRuns]
      /\ \A o \in Seasons : SeasonOK(o)'
  <2>1. CASE sjob' = sjob
    BY <1>1, <2>1, SameKeeps
  <2>2. CASE sjob' = [sjob EXCEPT ![s] = Request(s, FALSE)]
    BY <1>1, <2>2, QueueKeeps
  <2> QED
    BY <1>1, <2>1, <2>2
<1> QED
  BY <1>1, <1>2, RestTyped DEF SeasonInv, SeasonTyped

THEOREM SeasonInductive == SeasonSpec => []SeasonInv
<1>1. ASSUME SeasonInit PROVE SeasonInv
  <2>1. SeasonTyped
    <3>1. 1 \in 1 .. (MaxEdits + 1)
      BY SeasonAssumption
    <3>2. NoSeasonJob \in SeasonJobs /\ IdleSeason \in SeasonRuns
      BY IdleFacts
    <3> QED
      BY <1>1, <3>1, <3>2 DEF SeasonInit, SeasonTyped
  <2>2. ASSUME NEW s \in Seasons PROVE SeasonOK(s)
    <3>1. sjob[s] = NoSeasonJob /\ srun[s] = IdleSeason
      BY <1>1 DEF SeasonInit
    <3>2. Dated(sjob[s].pay) /\ Dated(srun[s].p)
      BY <2>1, <3>1, IdleFacts, EmptyDated DEF SeasonTyped
    <3>3. sjob[s].state = "none"
      BY <3>1, IdleFacts
    <3> QED
      BY <3>2, <3>3 DEF SeasonOK
  <2> QED
    BY <2>1, <2>2 DEF SeasonInv
<1>2. ASSUME SeasonInv, [SeasonNext]_seasonVars PROVE SeasonInv'
  <2>1. CASE LibraryEdit
    BY <1>2, <2>1, EditKeeps
  <2>2. ASSUME NEW s \in Seasons, Press(s) \/ FailedGrab(s) \/ UnattendedPass(s) PROVE SeasonInv'
    BY <1>2, <2>2, EnqueueKeeps DEF Press, FailedGrab, UnattendedPass
  <2>3. ASSUME NEW s \in Seasons, EnqueueRSSSeason(s) PROVE SeasonInv'
    BY <1>2, <2>3, FeedKeeps
  <2>4. ASSUME NEW s \in Seasons, PromoteManual(s) PROVE SeasonInv'
    BY <1>2, <2>4, PromoteKeeps
  <2>5. ASSUME NEW s \in Seasons, AskReplan(s) PROVE SeasonInv'
    BY <1>2, <2>5, AskKeeps
  <2>6. ASSUME NEW s \in Seasons, ClaimSeason(s) PROVE SeasonInv'
    BY <1>2, <2>6, ClaimSeasonKeeps
  <2>7. ASSUME NEW s \in Seasons, SeasonSnapshotEnds(s) \/ WaitForPlan(s) PROVE SeasonInv'
    BY <1>2, <2>7, EndsKeeps
  <2>8. ASSUME NEW s \in Seasons, OpenComparison(s) PROVE SeasonInv'
    BY <1>2, <2>8, OpenKeeps
  <2>9. ASSUME NEW s \in Seasons, ResumeComparison(s) PROVE SeasonInv'
    BY <1>2, <2>9, ResumeKeeps
  <2>10. ASSUME NEW s \in Seasons, CreateScopes(s) PROVE SeasonInv'
    BY <1>2, <2>10, CreateKeeps
  <2>11. ASSUME NEW s \in Seasons, SearchScope(s) PROVE SeasonInv'
    BY <1>2, <2>11, SearchScopeKeeps
  <2>12. ASSUME NEW s \in Seasons, EpisodeStage(s) PROVE SeasonInv'
    BY <1>2, <2>12, EpisodeKeeps
  <2>13. ASSUME NEW s \in Seasons, ComparisonOver(s) PROVE SeasonInv'
    BY <1>2, <2>13, OverKeeps
  <2>14. ASSUME NEW s \in Seasons, AdmitSeasonCandidates(s) PROVE SeasonInv'
    BY <1>2, <2>14, AdmitKeeps
  <2>15. ASSUME NEW s \in Seasons, SettleComparison(s) PROVE SeasonInv'
    BY <1>2, <2>15, SettleKeeps
  <2>16. ASSUME NEW s \in Seasons, HandleSeasonSearch(s) PROVE SeasonInv'
    BY <1>2, <2>16, LookKeeps
  <2>17. ASSUME NEW s \in Seasons, RerunForReplan(s) PROVE SeasonInv'
    BY <1>2, <2>17, RerunKeeps
  <2>18. ASSUME NEW s \in Seasons, FinishSeasonJob(s) PROVE SeasonInv'
    BY <1>2, <2>18, FinishKeeps
  <2>19. ASSUME NEW s \in Seasons, SeasonCrash(s) PROVE SeasonInv'
    BY <1>2, <2>19, CrashKeeps
  <2>20. ASSUME NEW s \in Seasons, RunAfterPasses(s) PROVE SeasonInv'
    BY <1>2, <2>20, PassKeeps
  <2>21. ASSUME NEW s \in Seasons, CooldownPasses(s) PROVE SeasonInv'
    BY <1>2, <2>21, CooldownKeeps
  <2>22. ASSUME NEW s \in Seasons, ScopeSettled(s) PROVE SeasonInv'
    BY <1>2, <2>22, ScopeSettledKeeps
  <2>23. CASE UNCHANGED seasonVars
    <3>1. /\ UNCHANGED <<sjob, srun, owed, catalog>> /\ UNCHANGED <<compared, planLive, asking, owed, catalog>>
      BY <2>23 DEF seasonVars
    <3> QED
      BY <1>2, <3>1, SameKeeps, RestUnchanged
  <2> QED
    BY <1>2, <2>1, <2>2, <2>3, <2>4, <2>5, <2>6, <2>7, <2>8, <2>9, <2>10, <2>11, <2>12, <2>13, <2>14, <2>15,
       <2>16, <2>17, <2>18, <2>19, <2>20, <2>21, <2>22, <2>23
    DEF SeasonNext
<1> QED
  BY <1>1, <1>2, PTL DEF SeasonSpec

(* A comparison's job, its worker and the library revision have their types, *)
(* however long presses, replans, edits and crashes go on.                   *)
THEOREM SeasonTypeCorrect == SeasonSpec => []SeasonTypeOK
<1>1. SeasonInv => SeasonTypeOK
  BY DEF SeasonInv, SeasonTyped, SeasonTypeOK, SeasonJobs, SeasonRuns, JobStates, Waits, Returns
<1> QED
  BY <1>1, SeasonInductive, PTL

(* No press and no failed grab answered since a comparison was claimed waits *)
(* behind that claim's deferral (jobs.go DeferClaimedJob, UpdateJobCheckpoint*)
(* and season_discovery.go handleSeasonSearch), whatever older copies of the *)
(* payload are written back meanwhile: the generations of the payload never  *)
(* fall below those claimed, and grow with each request.                     *)
THEOREM NoneParked == SeasonSpec => []NotParkedWhileOwed
<1>1. SeasonInv => NotParkedWhileOwed
  BY DEF SeasonInv, SeasonOK, NotParkedWhileOwed
<1> QED
  BY <1>1, SeasonInductive, PTL

(* A plan is admitted only from what was found under the revision it is      *)
(* admitted under (season_discovery.go runSeasonSearch and                   *)
(* admitSeasonCandidates): a checkpoint names the revision of its evidence,  *)
(* also across reruns, refreshes and crashes, and loses the evidence before  *)
(* it takes another revision's name.                                         *)
THEOREM PlansAreCurrent == SeasonSpec => PlanFromCurrentEvidence
<1>1. SeasonInv /\ [SeasonNext]_seasonVars =>
        [\A s \in Seasons : ~planLive[s] /\ planLive'[s] => srun[s].p.found \subseteq {catalog, Feed}]_seasonVars
  <2> SUFFICES ASSUME SeasonInv, SeasonNext, NEW s \in Seasons, ~planLive[s], planLive'[s]
               PROVE  srun[s].p.found \subseteq {catalog, Feed}
    OBVIOUS
  <2>1. planLive \in [Seasons -> BOOLEAN]
    BY DEF SeasonInv, SeasonTyped
  <2> DEFINE Settles == \E t \in Seasons : planLive' = [planLive EXCEPT ![t] = FALSE]
             Admits == \E t \in Seasons : AdmitSeasonCandidates(t)
  <2>a. LibraryEdit => planLive' = planLive
    BY DEF LibraryEdit
  <2>b. ASSUME NEW t \in Seasons,
               Press(t) \/ FailedGrab(t) \/ UnattendedPass(t) \/ EnqueueRSSSeason(t) \/ PromoteManual(t) \/ AskReplan(t)
        PROVE  planLive' = planLive
    BY <2>b DEF Press, FailedGrab, UnattendedPass, EnqueueSeason, EnqueueRSSSeason, PromoteManual, AskReplan
  <2>c. ASSUME NEW t \in Seasons,
               ClaimSeason(t) \/ SeasonSnapshotEnds(t) \/ WaitForPlan(t) \/ OpenComparison(t) \/ ResumeComparison(t)
               \/ CreateScopes(t) \/ EpisodeStage(t) \/ ComparisonOver(t)
        PROVE  planLive' = planLive
    BY <2>c DEF ClaimSeason, SeasonSnapshotEnds, WaitForPlan, OpenComparison, ResumeComparison, CreateScopes,
       EpisodeStage, ComparisonOver
  <2>d. ASSUME NEW t \in Seasons, SearchScope(t)
        PROVE  planLive' = planLive
    BY <2>d DEF SearchScope
  <2>e. ASSUME NEW t \in Seasons,
               SettleComparison(t) \/ HandleSeasonSearch(t) \/ RerunForReplan(t) \/ FinishSeasonJob(t) \/ SeasonCrash(t)
        PROVE  planLive' = planLive
    BY <2>e DEF SettleComparison, HandleSeasonSearch, RerunForReplan, FinishSeasonJob, SeasonCrash
  <2>f. ASSUME NEW t \in Seasons, RunAfterPasses(t) \/ CooldownPasses(t) \/ ScopeSettled(t)
        PROVE  planLive' = planLive \/ Settles
    BY <2>f DEF RunAfterPasses, CooldownPasses, ScopeSettled
  <2>g. planLive' = planLive \/ Settles \/ Admits
    BY <2>a, <2>b, <2>c, <2>d, <2>e, <2>f DEF SeasonNext
  <2>2. PICK t \in Seasons : AdmitSeasonCandidates(t)
    BY <2>1, <2>g
  <2>3. t = s /\ srun[s].p.rev = catalog
    BY <2>1, <2>2 DEF AdmitSeasonCandidates
  <2> QED
    BY <2>3 DEF SeasonInv, SeasonOK, Dated
<1> QED
  BY <1>1, SeasonInductive, PTL DEF SeasonSpec, PlanFromCurrentEvidence
=============================================================================
