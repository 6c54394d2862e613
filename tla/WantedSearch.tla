---------------------------- MODULE WantedSearch ----------------------------
(***************************************************************************)
(* A search over a snapshot of the wanted list: a durable run with a       *)
(* cursor, one job at a time that handles the target under the cursor, and *)
(* a reconciler, called by a timer, by the end of a job and by requests,   *)
(* that starts the next job or ends the run.                               *)
(*                                                                         *)
(* A run, its newest job and the wants are read and written in separate    *)
(* transactions.  The queue keeps one live job per run (its dedupe key);   *)
(* RSS and people grab the same targets.  Delays, labels, tallies of       *)
(* releases and the wording of refusals are left out.                      *)
(***************************************************************************)
EXTENDS Integers, Sequences, FiniteSets

CONSTANTS
    SearchRuns,          \* identities of runs
    MaxTargets,          \* bound: targets of a run
    MaxSearchCrashes     \* bound: restarts

ASSUME WantedAssumption == MaxTargets \in Nat \ {0} /\ MaxSearchCrashes \in Nat

VARIABLES
    searchRun,     \* wanted_search_runs with its targets
    searchJob,     \* the newest job of each run
    chunk,         \* the handler of each run's job
    wantedReconciler,    \* ReconcileWantedSearches in the coordinator and in a request
    wantOf,        \* each target: "wanted", "inflight" or "satisfied"
    searchCrashes

wantedVars == <<searchRun, searchJob, chunk, wantedReconciler, wantOf, searchCrashes>>

Reconcilers == {"coordinator", "request"}
ActiveStatus == {"queued", "running"}
NoRun == [status |-> "none", cancel |-> FALSE, targets |-> <<>>, cursor |-> 0, processed |-> 0,
          searched |-> 0, skipped |-> 0, failed |-> 0]
NoSearchJob == [state |-> "none", ordinal |-> 0]
NoChunk == [pc |-> "idle", result |-> "none"]
NotReconciling == [pc |-> "idle", run |-> {}, job |-> "none"]

Pending(run) == {i \in DOMAIN run.targets : run.targets[i] = "pending"}
\* The columns of a run that reconciliation uses.
RunAsRead(r) == [id |-> r, cancel |-> searchRun[r].cancel, cursor |-> searchRun[r].cursor,
                 selected |-> Len(searchRun[r].targets)]
ActiveRuns == {r \in SearchRuns : searchRun[r].status \in ActiveStatus}

(* The store *)

\* The partial unique index allows one active run.
CreateWantedSearch(r, n) ==
    /\ searchRun[r].status = "none"
    /\ ActiveRuns = {}
    /\ searchRun' = [searchRun EXCEPT ![r] =
                        [NoRun EXCEPT !.status = "queued", !.targets = [i \in 1 .. n |-> "pending"]]]

\* FinishWantedSearch: the remaining targets are counted whatever the status
\* is, the status changes only while the run is active.
Finished(run, status, cancelRemaining) ==
    LET left == IF cancelRemaining THEN Pending(run) ELSE {}
        n == Cardinality(left)
    IN  [run EXCEPT !.targets = [i \in DOMAIN run.targets |-> IF i \in left THEN "skipped" ELSE run.targets[i]],
                    !.processed = @ + n,
                    !.skipped = @ + n,
                    !.cursor = IF cancelRemaining THEN Len(run.targets) ELSE @,
                    !.status = IF @ \in ActiveStatus THEN status ELSE @]

FinishWantedSearch(r, status, cancelRemaining) ==
    searchRun' = [searchRun EXCEPT ![r] = Finished(@, status, cancelRemaining)]

OwnsCursor(run, ordinal) == run.cursor = ordinal /\ run.status \in ActiveStatus

\* CommitWantedSearchTarget: the target and the counters in one transaction.
Committed(run, ordinal, result) ==
    [run EXCEPT !.targets[ordinal + 1] = result,
                !.processed = @ + 1,
                !.searched = @ + (IF result = "searched" THEN 1 ELSE 0),
                !.skipped = @ + (IF result = "skipped" THEN 1 ELSE 0),
                !.failed = @ + (IF result = "failed" THEN 1 ELSE 0),
                !.cursor = @ + 1]

(* Requests *)

\* StartWantedSearch snapshots the targets; an empty scope is complete at once.
\* The reconciliation it ends with is ReconcileLists("request").
StartWantedSearch(r, n) ==
    /\ CreateWantedSearch(r, n)
    /\ UNCHANGED <<searchJob, chunk, wantedReconciler, wantOf, searchCrashes>>

FinishEmptySearch(r) ==
    /\ searchRun[r].status = "queued"
    /\ searchRun[r].targets = <<>>
    /\ FinishWantedSearch(r, "completed", FALSE)
    /\ UNCHANGED <<searchJob, chunk, wantedReconciler, wantOf, searchCrashes>>

RequestWantedSearchCancel(r) ==
    /\ searchRun[r].status \in ActiveStatus
    /\ ~searchRun[r].cancel
    /\ searchRun' = [searchRun EXCEPT ![r].cancel = TRUE]
    /\ UNCHANGED <<searchJob, chunk, wantedReconciler, wantOf, searchCrashes>>

(* Reconciliation *)

ListActiveWantedSearches(p) ==
    /\ wantedReconciler[p].pc = "idle"
    /\ \E r \in ActiveRuns :
         wantedReconciler' = [wantedReconciler EXCEPT ![p] = [NotReconciling EXCEPT !.pc = "listed", !.run = {RunAsRead(r)}]]
    /\ UNCHANGED <<searchRun, searchJob, chunk, wantOf, searchCrashes>>

FindNewestJobByDedupe(p) ==
    /\ wantedReconciler[p].pc = "listed"
    /\ \E run \in wantedReconciler[p].run :
         wantedReconciler' = [wantedReconciler EXCEPT ![p].pc = "decide", ![p].job = searchJob[run.id].state]
    /\ UNCHANGED <<searchRun, searchJob, chunk, wantOf, searchCrashes>>

\* Mutant: a cancelled run is closed while its job still runs.
VerdictIgnoringLease(run, job) ==
    IF run.cancel THEN "cancel"
    ELSE IF job \in {"queued", "leased"} THEN "wait"
    ELSE IF run.cursor >= run.selected THEN "complete"
    ELSE IF job = "failed" THEN "interrupt"
    ELSE "enqueue"

\* ReconcileWantedSearches for a run and the newest job as they were read.
\* Adopting a live job only writes its id to the run.
Verdict(run, job) ==
    IF run.cancel THEN IF job = "leased" THEN "wait" ELSE "cancel"
    ELSE IF job \in {"queued", "leased"} THEN "wait"
    ELSE IF run.cursor >= run.selected THEN "complete"
    ELSE IF job = "failed" THEN "interrupt"
    ELSE "enqueue"

\* Enqueue keeps a live job of the run and otherwise adds one for the cursor
\* as it was read; the link that follows changes nothing the run depends on.
EnqueueWantedChunk(run) ==
    searchJob' = IF searchJob[run.id].state \in {"queued", "leased"} THEN searchJob
                 ELSE [searchJob EXCEPT ![run.id] = [state |-> "queued", ordinal |-> run.cursor]]

ReconcileWantedSearches(p) ==
    /\ wantedReconciler[p].pc = "decide"
    /\ wantedReconciler' = [wantedReconciler EXCEPT ![p] = NotReconciling]
    /\ \E run \in wantedReconciler[p].run :
         LET verdict == Verdict(run, wantedReconciler[p].job)
         IN  \/ verdict = "wait" /\ UNCHANGED <<searchRun, searchJob>>
             \/ verdict = "cancel" /\ FinishWantedSearch(run.id, "cancelled", TRUE) /\ UNCHANGED searchJob
             \/ verdict = "complete" /\ FinishWantedSearch(run.id, "completed", FALSE) /\ UNCHANGED searchJob
             \/ verdict = "interrupt" /\ FinishWantedSearch(run.id, "interrupted", FALSE) /\ UNCHANGED searchJob
             \/ verdict = "enqueue" /\ EnqueueWantedChunk(run) /\ UNCHANGED searchRun
    /\ UNCHANGED <<chunk, wantOf, searchCrashes>>

(* The job of one target *)

ClaimChunk(r) ==
    /\ searchJob[r].state = "queued"
    /\ chunk[r].pc = "idle"
    /\ searchJob' = [searchJob EXCEPT ![r].state = "leased"]
    /\ chunk' = [chunk EXCEPT ![r] = [pc |-> "start", result |-> "none"]]
    /\ UNCHANGED <<searchRun, wantedReconciler, wantOf, searchCrashes>>

ChunkTo(r, pc, result) == chunk' = [chunk EXCEPT ![r] = [pc |-> pc, result |-> result]]
ChunkWant(r) == wantOf[searchJob[r].ordinal + 1]

\* handleWantedSearchChunk: a job whose run or cursor moved on, or whose run is
\* being cancelled, has nothing to do.
ChunkIsCurrent(r) == OwnsCursor(searchRun[r], searchJob[r].ordinal) /\ ~searchRun[r].cancel

HandleWantedSearchChunk(r) ==
    /\ chunk[r].pc = "start"
    /\ IF ChunkIsCurrent(r)
         THEN /\ searchRun' = [searchRun EXCEPT ![r].status = "running"]
              /\ ChunkTo(r, "check", "none")
         ELSE /\ ChunkTo(r, "ended", "none")
              /\ UNCHANGED searchRun
    /\ UNCHANGED <<searchJob, wantedReconciler, wantOf, searchCrashes>>

\* The conditions that skip a target, before the search.
ExecuteWantedTarget(r) ==
    /\ chunk[r].pc = "check"
    /\ IF searchRun[r].cancel \/ ChunkWant(r) # "wanted"
         THEN ChunkTo(r, "commit", "skipped")
         ELSE ChunkTo(r, "reserved", "none")
    /\ UNCHANGED <<searchRun, searchJob, wantedReconciler, wantOf, searchCrashes>>

\* beforeGrab: the same conditions, read again.
BeforeGrab(r) == ~searchRun[r].cancel /\ ChunkWant(r) = "wanted"

\* searchAndGrabBestScoped: with the reservation of the target held, the
\* conditions again, then the search.  It finds nothing, fails, is interrupted
\* by a cancellation, or finds a release and asks once more.
SearchAndGrabBestScoped(r) ==
    /\ chunk[r].pc = "reserved"
    /\ IF BeforeGrab(r) THEN ChunkTo(r, "search", "none") ELSE ChunkTo(r, "commit", "skipped")
    /\ UNCHANGED <<searchRun, searchJob, wantedReconciler, wantOf, searchCrashes>>

\* How a target that no grab answered is recorded: searched without a release
\* worth taking, failed, or left for a reason of its own, such as indexers that
\* could not be asked.
SearchResults == {"searched", "failed", "skipped"}

SearchAndGrabBestReserved(r) ==
    /\ chunk[r].pc = "search"
    /\ \/ \E result \in SearchResults : ChunkTo(r, "commit", result)
       \/ BeforeGrab(r) /\ ChunkTo(r, "grab", "none")
       \/ ~BeforeGrab(r) /\ ChunkTo(r, "commit", "skipped")
    /\ UNCHANGED <<searchRun, searchJob, wantedReconciler, wantOf, searchCrashes>>

\* The grab takes a row that is already in flight for an answer, and may fail.
AutoGrab(r) ==
    /\ chunk[r].pc = "grab"
    /\ \/ /\ wantOf' = [wantOf EXCEPT ![searchJob[r].ordinal + 1] = IF @ = "wanted" THEN "inflight" ELSE @]
          /\ ChunkTo(r, "commit", "searched")
       \/ ChunkTo(r, "commit", "failed") /\ UNCHANGED wantOf
    /\ UNCHANGED <<searchRun, searchJob, wantedReconciler, searchCrashes>>

\* A target that is no longer pending is left alone; a lost cursor undoes the
\* whole transaction and fails the job.
CommitWantedSearchTarget(r) ==
    /\ chunk[r].pc = "commit"
    /\ LET ordinal == searchJob[r].ordinal
       IN  IF searchRun[r].targets[ordinal + 1] # "pending"
             THEN ChunkTo(r, "ended", "none") /\ UNCHANGED searchRun
           ELSE IF OwnsCursor(searchRun[r], ordinal)
             THEN /\ searchRun' = [searchRun EXCEPT ![r] = Committed(@, ordinal, chunk[r].result)]
                  /\ ChunkTo(r, "ended", "none")
           ELSE ChunkTo(r, "error", "none") /\ UNCHANGED searchRun
    /\ UNCHANGED <<searchJob, wantedReconciler, wantOf, searchCrashes>>

\* A read or write of the store fails: the handler returns the error.
ChunkFails(r) ==
    /\ chunk[r].pc \in {"start", "check", "commit"}
    /\ ChunkTo(r, "error", "none")
    /\ UNCHANGED <<searchRun, searchJob, wantedReconciler, wantOf, searchCrashes>>

\* The queue records the end; a failed attempt is tried again or given up.
ChunkEnds(r) ==
    /\ \/ chunk[r].pc = "ended" /\ searchJob' = [searchJob EXCEPT ![r].state = "done"]
       \/ chunk[r].pc = "error" /\ \E s \in {"queued", "failed"} : searchJob' = [searchJob EXCEPT ![r].state = s]
    /\ ChunkTo(r, "idle", "none")
    /\ UNCHANGED <<searchRun, wantedReconciler, wantOf, searchCrashes>>

(* The surroundings *)

\* RSS, the backlog or a person grabs a target; automation waits for the
\* reservation, a person does not.
AnotherGrab(i) ==
    /\ wantOf[i] = "wanted"
    /\ wantOf' = [wantOf EXCEPT ![i] = "inflight"]
    /\ UNCHANGED <<searchRun, searchJob, chunk, wantedReconciler, searchCrashes>>

\* Its download is imported, or fails and the target is wanted again.
DownloadSettles(i) ==
    /\ wantOf[i] = "inflight"
    /\ \E s \in {"wanted", "satisfied"} : wantOf' = [wantOf EXCEPT ![i] = s]
    /\ UNCHANGED <<searchRun, searchJob, chunk, wantedReconciler, searchCrashes>>

\* The process restarts: handlers and reconcilers are gone, a leased job goes
\* back to the queue or has used its attempts.  A lease that expires under a
\* handler that goes on belongs to JobQueue: here a job has one handler.
SearchRestart ==
    /\ searchCrashes < MaxSearchCrashes
    /\ searchCrashes' = searchCrashes + 1
    /\ chunk' = [r \in SearchRuns |-> NoChunk]
    /\ wantedReconciler' = [p \in Reconcilers |-> NotReconciling]
    /\ \E s \in {"queued", "failed"} :
         searchJob' = [r \in SearchRuns |-> IF searchJob[r].state = "leased"
                                            THEN [searchJob[r] EXCEPT !.state = s] ELSE searchJob[r]]
    /\ UNCHANGED <<searchRun, wantOf>>

-----------------------------------------------------------------------------

WantedInit ==
    /\ searchRun = [r \in SearchRuns |-> NoRun]
    /\ searchJob = [r \in SearchRuns |-> NoSearchJob]
    /\ chunk = [r \in SearchRuns |-> NoChunk]
    /\ wantedReconciler = [p \in Reconcilers |-> NotReconciling]
    /\ wantOf = [i \in 1 .. MaxTargets |-> "wanted"]
    /\ searchCrashes = 0

WantedNext ==
    \/ \E r \in SearchRuns :
         \/ \E n \in 0 .. MaxTargets : StartWantedSearch(r, n)
         \/ FinishEmptySearch(r) \/ RequestWantedSearchCancel(r)
         \/ ClaimChunk(r) \/ HandleWantedSearchChunk(r) \/ ExecuteWantedTarget(r)
         \/ SearchAndGrabBestScoped(r) \/ SearchAndGrabBestReserved(r) \/ AutoGrab(r)
         \/ CommitWantedSearchTarget(r) \/ ChunkFails(r) \/ ChunkEnds(r)
    \/ \E p \in Reconcilers : ListActiveWantedSearches(p) \/ FindNewestJobByDedupe(p) \/ ReconcileWantedSearches(p)
    \/ \E i \in 1 .. MaxTargets : AnotherGrab(i) \/ DownloadSettles(i)
    \/ SearchRestart

WantedSpec == WantedInit /\ [][WantedNext]_wantedVars

-----------------------------------------------------------------------------

WantedTypeOK ==
    /\ \A r \in SearchRuns :
         /\ searchRun[r].status \in ActiveStatus \cup {"none", "completed", "cancelled", "interrupted"}
         /\ searchRun[r].targets \in UNION {[1 .. n -> {"pending", "searched", "skipped", "failed"}] : n \in 0 .. MaxTargets}
         /\ searchJob[r].state \in {"none", "queued", "leased", "done", "failed"}
         /\ chunk[r].pc \in {"idle", "start", "check", "reserved", "search", "grab", "commit", "ended", "error"}
    /\ wantOf \in [1 .. MaxTargets -> {"wanted", "inflight", "satisfied"}]
    /\ searchCrashes \in 0 .. MaxSearchCrashes

\* Once a run is reported cancelled no release is grabbed for it, although the
\* request does not wait for the job and the job looks for the cancellation
\* only before its grab (ReconcileWantedSearches, CancelWantedSearch).
NoGrabAfterCancelled ==
    [][\A r \in SearchRuns :
         chunk[r].pc = "grab" /\ wantOf' # wantOf /\ chunk' # chunk =>
             searchRun[r].status # "cancelled"]_wantedVars

=============================================================================
