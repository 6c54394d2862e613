---------------------------- MODULE ImportControl ----------------------------
(***************************************************************************)
(* The processes that import, cancel, retry, review and recover one        *)
(* download, over the transactions of ImportAttempts:                      *)
(*                                                                         *)
(*   - import workers (importers.go, handoff.go, import.go, placement.go), *)
(*     fed by a bounded channel of tickets;                                *)
(*   - the retry sweep of importretry.go, which runs the same import code  *)
(*     on the scheduler's goroutine;                                       *)
(*   - two dispatchers that hand a ticket to the workers: the observation  *)
(*     of a completed transfer (reconcileDownload) and ImportNow;          *)
(*   - the operator's cancellation request (CancelImportAttempt) and       *)
(*     review (ReviewImportCancellation);                                  *)
(*   - the two-second ticker that finalizes pending cancellations and the  *)
(*     reconciliation of the placement journal at start;                   *)
(*   - a crash, which loses everything but the tables and the disk.        *)
(*                                                                         *)
(* A worker owns the download mutex for the whole import; the sweep does   *)
(* not.  Both own the title's import-target lock while they place files.   *)
(***************************************************************************)
EXTENDS ImportAttempts, Sequences, FiniteSets

CONSTANTS
    Workers,        \* goroutines of StartImporters
    Sweeps,         \* goroutines of RetryBlockedImports: {} or one
    Tickets,        \* bound: identities of import tickets alive at once
    MaxCrashes      \* bound: how often the process may crash

Importers == Workers \cup Sweeps
Dispatchers == {"poll", "now"}
NoTicket == "none"

ASSUME ImportersAssumption ==
    /\ Workers \cap Sweeps = {}
    /\ Importers \cap {"free", "poll", "now", "cancel", "recon"} = {}
ASSUME TicketsAssumption == NoTicket \notin Tickets
ASSUME MaxCrashesAssumption == MaxCrashes \in Nat

VARIABLES
    pc,         \* where each importer is in runImportOwned / runImport
    tk,         \* the importer's ticket; NoTicket for the sweep
    ep,         \* the attempt epoch its context is bound to
    todo,       \* files of the payload it has not looked at yet
    src,        \* the file it is placing
    any,        \* has this run imported a file?
    lock,       \* who holds the download mutex
    target,     \* who holds the import-target lock of the title
    storage,    \* who holds the process-wide storage-decision lock
    ticket,     \* importTicket by identity: its epoch and its context
    cur,        \* Service.importJobs: the registered ticket
    chan,       \* importCh
    dpc, dkey,  \* the dispatchers: where they are, the key they observed
    cpc, ckey, quiescent,   \* the cancellation request
    recon, rtodo,           \* reconcilePlacements at start
    crashes

locks == <<lock, target, storage>>
importers == <<pc, tk, ep, todo, src, any>>
dispatch == <<dpc, dkey>>
cancel == <<cpc, ckey, quiescent>>
reconciler == <<recon, rtodo>>
vars == <<tables, importers, locks, ticket, cur, chan, dispatch, cancel, reconciler, crashes>>

PCs == {"idle", "dead", "lock", "start", "read", "run", "mark", "enter", "target",
        "seal", "file", "authorize", "publish", "commit", "complete",
        "fail", "block", "finish", "release"}

ProcessTypeOK ==
    /\ pc \in [Importers -> PCs]
    /\ tk \in [Importers -> Tickets \cup {NoTicket}]
    /\ ep \in [Importers -> Epochs]
    /\ todo \in [Importers -> SUBSET Sources]
    /\ src \in [Importers -> Sources]
    /\ any \in [Importers -> BOOLEAN]
    /\ lock \in Importers \cup {"free", "poll", "now", "cancel"}
    /\ target \in Importers \cup {"free", "recon"}
    /\ storage \in Importers \cup {"free", "poll"}
    /\ ticket \in [Tickets -> [epoch : Epochs, cancelled : BOOLEAN]]
    /\ cur \in Tickets \cup {NoTicket}
    /\ chan \in Seq(Tickets)
    /\ dpc \in [Dispatchers -> {"idle", "observed", "finalize", "retry", "ensure", "register"}]
    /\ dkey \in [Dispatchers -> Epochs]
    /\ cpc \in {"idle", "lock", "request", "signal", "finalize", "drop"}
    /\ ckey \in Epochs
    /\ quiescent \in BOOLEAN
    /\ recon \in {"off", "due", "scan"}
    /\ rtodo \in SUBSET (Epochs \X Sources)
    /\ crashes \in 0 .. MaxCrashes

TypeOK == TablesTypeOK /\ ProcessTypeOK

\* A ticket identity nobody uses.
NoContext == [epoch |-> 0, cancelled |-> FALSE]

\* The volatile state of a process that has just started.
Fresh(s0) ==
    /\ pc' = [w \in Importers |-> "idle"]
    /\ tk' = [w \in Importers |-> NoTicket]
    /\ ep' = [w \in Importers |-> 0]
    /\ todo' = [w \in Importers |-> {}]
    /\ src' = [w \in Importers |-> s0]
    /\ any' = [w \in Importers |-> FALSE]
    /\ lock' = "free"
    /\ target' = "free"
    /\ storage' = "free"
    /\ ticket' = [t \in Tickets |-> NoContext]
    /\ cur' = NoTicket
    /\ chan' = <<>>
    /\ dpc' = [d \in Dispatchers |-> "idle"]
    /\ dkey' = [d \in Dispatchers |-> 0]
    /\ cpc' = "idle"
    /\ ckey' = 0
    /\ quiescent' = FALSE
    /\ recon' = "due"
    /\ rtodo' = {}

AnySource == CHOOSE s \in Sources : TRUE

Init ==
    /\ TablesInit
    /\ pc = [w \in Importers |-> "idle"]
    /\ tk = [w \in Importers |-> NoTicket]
    /\ ep = [w \in Importers |-> 0]
    /\ todo = [w \in Importers |-> {}]
    /\ src = [w \in Importers |-> AnySource]
    /\ any = [w \in Importers |-> FALSE]
    /\ lock = "free"
    /\ target = "free"
    /\ storage = "free"
    /\ ticket = [t \in Tickets |-> NoContext]
    /\ cur = NoTicket
    /\ chan = <<>>
    /\ dpc = [d \in Dispatchers |-> "idle"]
    /\ dkey = [d \in Dispatchers |-> 0]
    /\ cpc = "idle"
    /\ ckey = 0
    /\ quiescent = FALSE
    /\ recon = "due"
    /\ rtodo = {}
    /\ crashes = 0

-----------------------------------------------------------------------------
(* Dispatchers: reconcileDownload and ImportNow hold the download mutex     *)
(* from their first step to the registration of the ticket.                 *)

InUse(t) ==
    \/ cur = t
    \/ \E i \in 1 .. Len(chan) : chan[i] = t
    \/ \E w \in Importers : tk[w] = t

\* A completed transfer is observed by the poll or by the event stream.  The
\* durable states downloaded, failed and imported end the observation; an
\* importing row without a ticket is one a crash has left behind.
ObserveCompleted ==
    /\ dpc["poll"] = "idle"
    /\ lock = "free"
    /\ storage = "free"
    /\ cur = NoTicket
    /\ row \in {"downloading", "importing"}
    /\ lock' = "poll"
    /\ storage' = "poll"
    /\ dpc' = [dpc EXCEPT !["poll"] = "observed"]
    /\ UNCHANGED <<tables, importers, target, ticket, cur, chan, dkey, cancel, reconciler, crashes>>

\* advance(downloaded), on the row as it was read.
RecordDownloaded ==
    /\ dpc["poll"] = "observed"
    /\ row' = "downloaded"
    /\ storage' = "free"
    /\ dpc' = [dpc EXCEPT !["poll"] = "ensure"]
    /\ UNCHANGED <<outcome, epoch, sealed, file, pub, plc, stage, disk, lib, importers,
                   lock, target, ticket, cur, chan, dkey, cancel, reconciler, crashes>>

DispatchReturns(d) ==
    /\ dpc' = [dpc EXCEPT ![d] = "idle"]
    /\ dkey' = [dkey EXCEPT ![d] = 0]
    /\ lock' = "free"

\* ImportNow: refusals first, then the two transactions it makes.
ImportNow ==
    /\ dpc["now"] = "idle"
    /\ lock = "free"
    /\ row \notin {"downloading", "imported"}
    /\ cur = NoTicket
    /\ lock' = "now"
    /\ dpc' = [dpc EXCEPT !["now"] = IF outcome = "pending" THEN "finalize" ELSE "retry"]
    /\ dkey' = [dkey EXCEPT !["now"] = epoch]
    /\ UNCHANGED <<tables, importers, target, storage, ticket, cur, chan, cancel, reconciler, crashes>>

ImportNowFinalize ==
    /\ dpc["now"] = "finalize"
    /\ FinalizeImportCancellation(dkey["now"])
    /\ dpc' = [dpc EXCEPT !["now"] = "retry"]
    /\ UNCHANGED <<importers, locks, ticket, cur, chan, dkey, cancel, reconciler, crashes>>

ImportNowRetry ==
    /\ dpc["now"] = "retry"
    /\ \/ /\ BeginImportRetry
          /\ dpc' = [dpc EXCEPT !["now"] = "ensure"]
          /\ UNCHANGED <<dkey, lock>>
       \/ /\ ~BeginImportRetryAllowed
          /\ DispatchReturns("now")
          /\ UNCHANGED tables
    /\ UNCHANGED <<importers, target, storage, ticket, cur, chan, cancel, reconciler, crashes>>

\* enqueueImportJob, first half: the attempt exists and is open.
EnqueueEnsure(d) ==
    /\ dpc[d] = "ensure"
    /\ EnsureImportAttempt
    /\ IF EnsuredOutcome = "open"
         THEN /\ dpc' = [dpc EXCEPT ![d] = "register"]
              /\ dkey' = [dkey EXCEPT ![d] = epoch]
              /\ UNCHANGED lock
         ELSE DispatchReturns(d)
    /\ UNCHANGED <<importers, target, storage, ticket, cur, chan, cancel, reconciler, crashes>>

\* Second half, under importMu: recheck, register, send.
EnqueueAccepted(d) == epoch = dkey[d] /\ outcome = "open" /\ cur = NoTicket

\* The second disjunct is a refusal, or a channel full of other downloads'
\* jobs: the registration is undone and nothing durable changes.
EnqueueRegister(d) ==
    /\ dpc[d] = "register"
    /\ \/ /\ EnqueueAccepted(d)
          /\ \E t \in Tickets :
                /\ ~InUse(t)
                /\ ticket' = [ticket EXCEPT ![t] = [epoch |-> dkey[d], cancelled |-> FALSE]]
                /\ cur' = t
                /\ chan' = Append(chan, t)
       \/ UNCHANGED <<ticket, cur, chan>>
    /\ DispatchReturns(d)
    /\ UNCHANGED <<tables, importers, target, storage, cancel, reconciler, crashes>>

-----------------------------------------------------------------------------
(* Importers.                                                               *)

CtxLive(w) == IF w \in Sweeps THEN TRUE ELSE ~ticket[tk[w]].cancelled

\* Where an importer goes when runImport has returned.
Returned(w) == IF w \in Workers THEN "finish" ELSE "idle"

Goto(w, l) == pc' = [pc EXCEPT ![w] = l]

notImporters == <<dispatch, cancel, reconciler, crashes>>

\* A worker takes a job off the channel and looks at its context.
Dequeue(w) ==
    /\ w \in Workers
    /\ pc[w] = "idle"
    /\ chan # <<>>
    /\ tk' = [tk EXCEPT ![w] = Head(chan)]
    /\ ep' = [ep EXCEPT ![w] = ticket[Head(chan)].epoch]
    /\ chan' = Tail(chan)
    /\ Goto(w, IF ticket[Head(chan)].cancelled THEN "dead" ELSE "lock")
    /\ UNCHANGED <<tables, todo, src, any, locks, ticket, cur, notImporters>>

\* A job cancelled while it was queued only finalizes, when it can TryLock.
DropCancelledJob(w) ==
    /\ pc[w] = "dead"
    /\ IF lock = "free" THEN FinalizeImportCancellation(ep[w]) ELSE UNCHANGED tables
    /\ Goto(w, "release")
    /\ UNCHANGED <<tk, ep, todo, src, any, locks, ticket, cur, chan, notImporters>>

LockDownload(w) ==
    /\ pc[w] = "lock"
    /\ lock = "free"
    /\ lock' = w
    /\ Goto(w, "start")
    /\ UNCHANGED <<tables, tk, ep, todo, src, any, target, storage, ticket, cur, chan, notImporters>>

\* runImportOwned after the lock: an imported row ends the job, and so does one
\* its client holds; ensureImportContext wants the bound epoch and an open
\* attempt.
StartJob(w) ==
    /\ pc[w] = "start"
    /\ EnsureImportAttempt
    /\ \/ Goto(w, "finish")
       \/ /\ CtxLive(w) /\ row # "imported" /\ epoch = ep[w] /\ EnsuredOutcome = "open"
          /\ Goto(w, "run")
    /\ UNCHANGED <<tk, ep, todo, src, any, locks, ticket, cur, chan, notImporters>>

\* RetryBlockedImports: the row is read under the storage lock ...
SweepRead(w) ==
    /\ w \in Sweeps
    /\ pc[w] = "idle"
    /\ row = "blocked"
    /\ storage = "free"
    /\ storage' = w
    /\ Goto(w, "read")
    /\ UNCHANGED <<tables, tk, ep, todo, src, any, lock, target, ticket, cur, chan, notImporters>>

\* ... and written back as importing.  Neither the download mutex nor a
\* ticket is taken, and the storage lock does not exclude the workers.
SweepMark(w) ==
    /\ w \in Sweeps
    /\ pc[w] = "read"
    /\ row' = "importing"
    /\ storage' = "free"
    /\ Goto(w, "run")
    /\ UNCHANGED <<outcome, epoch, sealed, file, pub, plc, stage, disk, lib, tk, ep, todo, src,
                   any, lock, target, ticket, cur, chan, notImporters>>

\* runImport's own ensureImportContext binds an unbound context (the sweep's).
\* A payload held for legacy review fails before the row is marked.
RunImport(w) ==
    /\ pc[w] = "run"
    /\ EnsureImportAttempt
    /\ ep' = [ep EXCEPT ![w] = IF w \in Sweeps THEN epoch ELSE @]
    /\ IF CtxLive(w) /\ (w \in Sweeps \/ epoch = ep[w]) /\ EnsuredOutcome = "open"
         THEN Goto(w, "mark") \/ Goto(w, "fail")
         ELSE Goto(w, Returned(w))
    /\ UNCHANGED <<tk, todo, src, any, locks, ticket, cur, chan, notImporters>>

\* advance(importing): not fenced by epoch or outcome, but a cancelled
\* context makes the write fail.
MarkImporting(w) ==
    /\ pc[w] = "mark"
    /\ storage = "free"
    /\ row' = IF CtxLive(w) THEN "importing" ELSE row
    /\ Goto(w, "enter")
    /\ UNCHANGED <<outcome, epoch, sealed, file, pub, plc, stage, disk, lib, tk, ep, todo, src,
                   any, locks, ticket, cur, chan, notImporters>>

\* importDownloadFiles begins with a third ensureImportContext.  Its error is
\* a cancellation, which leaves the row alone, or a failed import.
EnterImport(w) ==
    /\ pc[w] = "enter"
    /\ EnsureImportAttempt
    /\ Goto(w, IF ~CtxLive(w) \/ (epoch = ep[w] /\ EnsuredOutcome \in {"pending", "cancelled"})
                 THEN Returned(w)
                 ELSE IF epoch = ep[w] /\ EnsuredOutcome = "open" THEN "target" ELSE "fail")
    /\ UNCHANGED <<tk, ep, todo, src, any, locks, ticket, cur, chan, notImporters>>

LockImportTarget(w) ==
    /\ pc[w] = "target"
    /\ target = "free"
    /\ target' = w
    /\ Goto(w, "seal")
    /\ UNCHANGED <<tables, tk, ep, todo, src, any, lock, storage, ticket, cur, chan, notImporters>>

\* A mutant: a return that keeps the title's lock.
LeaveImportHoldingTarget(w, l) ==
    /\ target' = target
    /\ todo' = [todo EXCEPT ![w] = {}]
    /\ src' = [src EXCEPT ![w] = AnySource]
    /\ any' = [any EXCEPT ![w] = FALSE]
    /\ Goto(w, l)

\* Returning from importDownloadFiles releases the title, then runImport
\* records a failure, or nothing for a cancellation.
LeaveImport(w, l) ==
    /\ target' = "free"
    /\ todo' = [todo EXCEPT ![w] = {}]
    /\ src' = [src EXCEPT ![w] = AnySource]
    /\ any' = [any EXCEPT ![w] = FALSE]
    /\ Goto(w, l)

\* A refused transaction answers ErrImportCancelled, which reads as a
\* cancelled context: runImport returns and leaves the row alone.  Any other
\* error, the environment's included, is a failed import.
Stops(w, errors) ==
    errors \cup (IF ~CtxLive(w) \/ epoch # ep[w] \/ outcome # "open" THEN {Returned(w)} ELSE {})

\* The payload is listed and sealed as the plan of the attempt; a payload
\* that is gone or unreadable, or that changed since it was sealed, fails.
SealPlan(w) ==
    /\ pc[w] = "seal"
    /\ \/ /\ CtxLive(w)
          /\ \E plan \in SUBSET Sources \ {{}} :
                /\ SealImportAttempt(ep[w], plan)
                /\ todo' = [todo EXCEPT ![w] = plan]
          /\ any' = [any EXCEPT ![w] = FALSE]
          /\ Goto(w, "file")
          /\ UNCHANGED <<src, target>>
       \/ /\ \E l \in Stops(w, {"fail"}) : LeaveImport(w, l)
          /\ UNCHANGED tables
    /\ UNCHANGED <<tk, ep, lock, storage, ticket, cur, chan, notImporters>>

-----------------------------------------------------------------------------
(* The file loop of importDownloadFiles, under the title's target lock.     *)

NextFile(w, s) ==
    /\ pc[w] = "file"
    /\ s \in todo[w]
    /\ CtxLive(w)

\* reuseCommittedImport's candidates: this download placed the file before.
Reusable(s) == {e \in Epochs : plc[e][s] = "committed"}

\* A file whose committed placement is still what disk and library hold is
\* only recorded again; SatisfyImportFile runs under the storage lock.
ReuseFile(w, s) ==
    /\ NextFile(w, s)
    /\ storage = "free"
    /\ \E p \in Reusable(s) :
          /\ disk[s] = p
          /\ SatisfyImportFile(ep[w], s, p)
    /\ any' = [any EXCEPT ![w] = TRUE]
    /\ todo' = [todo EXCEPT ![w] = @ \ {s}]
    /\ UNCHANGED <<pc, tk, ep, src, locks, ticket, cur, chan, notImporters>>

\* A truncated file, or one the profile refuses, is recorded as skipped.
SkipFile(w, s) ==
    /\ NextFile(w, s)
    /\ Reusable(s) = {}
    /\ ResolveSkipped(ep[w], s)
    /\ todo' = [todo EXCEPT ![w] = @ \ {s}]
    /\ UNCHANGED <<pc, tk, ep, src, any, locks, ticket, cur, chan, notImporters>>

\* preparePlacementPublication's own look at the attempt.
PrepareAllowed(w) == epoch = ep[w] /\ outcome # "cancelled"

\* commitPlacement up to the storage lock: a staged copy, or a target that
\* already has the payload's digest.  A stage left by an earlier run is
\* never reused, and an abandoned or retained row is never revived.
PrepareFile(w, s) ==
    /\ NextFile(w, s)
    /\ Reusable(s) = {}
    /\ PrepareAllowed(w)
    /\ plc[ep[w]][s] \in {"none", "prepared"}
    /\ ~stage[ep[w]][s]
    /\ \/ disk[s] # ep[w] /\ StagePlacement(ep[w], s, TRUE)
       \/ disk[s] # NoFile /\ StagePlacement(ep[w], s, FALSE)
    /\ src' = [src EXCEPT ![w] = s]
    /\ Goto(w, "authorize")
    /\ UNCHANGED <<tk, ep, todo, any, locks, ticket, cur, chan, notImporters>>

\* The same stretch of code when it stops: an I/O error, a full disk
\* (ErrImportBlocked), a refusal, or a cancellation seen by the copy loop.
StopFile(w, s) ==
    /\ pc[w] = "file"
    /\ s \in todo[w]
    /\ \/ UNCHANGED tables
       \/ /\ Reusable(s) = {}
          /\ PrepareAllowed(w)
          /\ plc[ep[w]][s] \in {"none", "prepared"}
          /\ ~stage[ep[w]][s]
          /\ disk[s] # ep[w]
          /\ \E staged \in BOOLEAN : StagePlacement(ep[w], s, staged)
    /\ \E l \in Stops(w, {"fail", "block"}) : LeaveImport(w, l)
    /\ UNCHANGED <<tk, ep, lock, storage, ticket, cur, chan, notImporters>>

\* The loop is done: some file is in the library, or ErrNoFilesImported.
FilesDone(w) ==
    /\ pc[w] = "file"
    /\ todo[w] = {}
    /\ LeaveImport(w, IF any[w] THEN "complete" ELSE "fail")
    /\ UNCHANGED <<tables, tk, ep, lock, storage, ticket, cur, chan, notImporters>>

\* The storage lock, then the authorization.  From here the context is
\* WithoutCancel: an authorized publication runs to its commit or fails.
AuthorizeFile(w) ==
    /\ pc[w] = "authorize"
    /\ storage = "free"
    /\ \/ /\ CtxLive(w)
          /\ AuthorizeImportPlacement(ep[w], src[w])
          /\ storage' = w
          /\ Goto(w, "publish")
          /\ UNCHANGED <<target, todo, src, any>>
       \/ /\ ~CtxLive(w) \/ ~AuthorizeImportPlacementAllowed(ep[w], src[w])
          /\ \E l \in Stops(w, {"fail"}) : LeaveImport(w, l)
          /\ UNCHANGED <<tables, storage>>
    /\ UNCHANGED <<tk, ep, lock, ticket, cur, chan, notImporters>>

\* publishPlacement: the rename, or nothing for bytes already in place.
PublishFile(w) ==
    /\ pc[w] = "publish"
    /\ IF stage[ep[w]][src[w]] THEN RenameStage(ep[w], src[w]) ELSE UNCHANGED tables
    /\ Goto(w, "commit")
    /\ UNCHANGED <<tk, ep, todo, src, any, locks, ticket, cur, chan, notImporters>>

CommitFile(w) ==
    /\ pc[w] = "commit"
    /\ CommitPlacement(ep[w], src[w])
    /\ storage' = "free"
    /\ any' = [any EXCEPT ![w] = TRUE]
    /\ todo' = [todo EXCEPT ![w] = @ \ {src[w]}]
    /\ Goto(w, "file")
    /\ UNCHANGED <<tk, ep, src, lock, target, ticket, cur, chan, notImporters>>

\* An error between the authorization and the commit, before or after the
\* rename: the authorization stays pending and the disk as it is.
PublicationFails(w) ==
    /\ pc[w] \in {"publish", "commit"}
    /\ storage' = "free"
    /\ \E l \in IF pc[w] = "publish" THEN {"fail", "block"} ELSE {"fail"} : LeaveImport(w, l)
    /\ UNCHANGED <<tables, tk, ep, lock, ticket, cur, chan, notImporters>>

\* completeBoundImport, also WithoutCancel; a refusal changes nothing.
CompleteBoundImport(w) ==
    /\ pc[w] = "complete"
    /\ \/ CompleteImportAttempt(ep[w])
       \/ ~CompleteImportAttemptAllowed(ep[w]) /\ UNCHANGED tables
    /\ Goto(w, Returned(w))
    /\ UNCHANGED <<tk, ep, todo, src, any, locks, ticket, cur, chan, notImporters>>

\* failImport writes the whole row: only a cancelled context stops it.
FailImport(w) ==
    /\ pc[w] \in {"fail", "block"}
    /\ row' = IF ~CtxLive(w) THEN row ELSE IF pc[w] = "fail" THEN "failed" ELSE "blocked"
    /\ Goto(w, Returned(w))
    /\ UNCHANGED <<outcome, epoch, sealed, file, pub, plc, stage, disk, lib, tk, ep, todo, src,
                   any, locks, ticket, cur, chan, notImporters>>

\* The worker's deferred calls, in the order Go runs them: finish a
\* cancellation, release the download mutex, then drop the ticket.
FinishJob(w) ==
    /\ pc[w] = "finish"
    /\ FinalizeImportCancellation(ep[w])
    /\ lock' = "free"
    /\ Goto(w, "release")
    /\ UNCHANGED <<tk, ep, todo, src, any, target, storage, ticket, cur, chan, notImporters>>

\* Only the job's own registration is deleted.
Unregistered(w) == IF cur = tk[w] THEN NoTicket ELSE cur

ReleaseTicket(w) ==
    /\ pc[w] = "release"
    /\ cur' = Unregistered(w)
    /\ tk' = [tk EXCEPT ![w] = NoTicket]
    /\ ticket' = [ticket EXCEPT ![tk[w]] = NoContext]
    /\ ep' = [ep EXCEPT ![w] = 0]
    /\ Goto(w, "idle")
    /\ UNCHANGED <<tables, todo, src, any, locks, chan, notImporters>>

-----------------------------------------------------------------------------
(* CancelImportAttempt.                                                     *)

notCancel == <<importers, target, storage, chan, dispatch, reconciler, crashes>>

CancelRead ==
    /\ cpc = "idle"
    /\ EnsureImportAttempt
    /\ IF /\ EnsuredOutcome \notin {"completed", "cancelled"}
          /\ cur # NoTicket \/ row \in {"importing", "downloaded", "failed", "blocked"}
         THEN cpc' = "lock" /\ ckey' = epoch
         ELSE UNCHANGED <<cpc, ckey>>
    /\ UNCHANGED <<notCancel, lock, ticket, cur, quiescent>>

\* tryLockDownload: without the lock the worker itself must finish.
CancelTryLock ==
    /\ cpc = "lock"
    /\ quiescent' = (lock = "free")
    /\ lock' = IF lock = "free" THEN "cancel" ELSE lock
    /\ cpc' = "request"
    /\ UNCHANGED <<tables, notCancel, ticket, cur, ckey>>

CancelReturns ==
    /\ cpc' = "idle"
    /\ ckey' = 0
    /\ quiescent' = FALSE
    /\ lock' = IF quiescent THEN "free" ELSE lock

CancelRequest ==
    /\ cpc = "request"
    /\ \/ RequestImportCancellation(ckey)
       \/ ~GuardImportAttempt(ckey) /\ UNCHANGED tables
    /\ IF GuardImportAttempt(ckey) /\ outcome' # "completed"
         THEN cpc' = "signal" /\ UNCHANGED <<lock, ckey, quiescent>>
         ELSE CancelReturns
    /\ UNCHANGED <<notCancel, ticket, cur>>

\* current.cancel(): the registered job of the same attempt, if any.
CancelledTickets(k) ==
    [t \in Tickets |-> IF t = cur /\ ticket[t].epoch = k
                          THEN [ticket[t] EXCEPT !.cancelled = TRUE] ELSE ticket[t]]

CancelSignal ==
    /\ cpc = "signal"
    /\ ticket' = CancelledTickets(ckey)
    /\ IF quiescent
         THEN cpc' = "finalize" /\ UNCHANGED <<lock, ckey, quiescent>>
         ELSE CancelReturns
    /\ UNCHANGED <<tables, notCancel, cur>>

CancelFinalize ==
    /\ cpc = "finalize"
    /\ FinalizeImportCancellation(ckey)
    /\ IF GuardImportAttempt(ckey) /\ outcome' = "cancelled"
         THEN cpc' = "drop" /\ UNCHANGED <<lock, ckey, quiescent>>
         ELSE CancelReturns
    /\ UNCHANGED <<notCancel, ticket, cur>>

\* A queued job of the cancelled attempt loses its registration at once; it
\* stays in the channel with a cancelled context.
CancelDrop ==
    /\ cpc = "drop"
    /\ ticket' = CancelledTickets(ckey)
    /\ cur' = IF cur # NoTicket /\ ticket[cur].epoch = ckey THEN NoTicket ELSE cur
    /\ CancelReturns
    /\ UNCHANGED <<tables, notCancel>>

-----------------------------------------------------------------------------
(* Review, the cancellation ticker, reconciliation at start, crash.         *)

volatile == <<importers, locks, ticket, cur, chan, dispatch, cancel, reconciler, crashes>>

\* ReviewImportCancellation holds both mutexes and no ticket may be live.
ReviewImportCancellation ==
    /\ lock = "free"
    /\ target = "free"
    /\ cur = NoTicket
    /\ \/ RetainUncertainImport
       \/ \E e \in Epochs, s \in Sources :
             \/ \E d \in {"adopted", "disposed"} : ResolveRetained(e, s, d)
             \/ DisposeStage(e, s)
    /\ UNCHANGED volatile

\* The library review that an adoption wants to see: a scan has recorded the
\* retained bytes under the title.
LibraryAdopts(s) ==
    /\ target = "free"
    /\ TargetRetained(s)
    /\ disk[s] # NoFile
    /\ lib' = [lib EXCEPT ![s] = disk[s]]
    /\ UNCHANGED <<outcome, epoch, sealed, file, pub, plc, row, stage, disk, volatile>>

\* A mutant: a ticker that only serves downloads with a registered job.
ReconcileRegisteredCancellations ==
    /\ outcome = "pending"
    /\ cur # NoTicket
    /\ lock = "free"
    /\ FinalizeImportCancellation(epoch)
    /\ UNCHANGED volatile

\* The two-second ticker: TryLock, then finalize.
ReconcileImportCancellations ==
    /\ outcome = "pending"
    /\ lock = "free"
    /\ FinalizeImportCancellation(epoch)
    /\ UNCHANGED volatile

ReconBegin ==
    /\ recon = "due"
    /\ target = "free"
    /\ target' = "recon"
    /\ recon' = "scan"
    /\ rtodo' = {x \in Epochs \X Sources : plc[x[1]][x[2]] = "prepared"}
    /\ UNCHANGED <<tables, importers, lock, storage, ticket, cur, chan, dispatch, cancel, crashes>>

\* Only bytes that were already published are committed.  A row may be
\* passed over: the target cannot be read, or the commit is refused.
ReconRow(x) ==
    /\ recon = "scan"
    /\ x \in rtodo
    /\ \/ /\ storage = "free"
          /\ disk[x[2]] = x[1]
          /\ plc[x[1]][x[2]] = "prepared"
          /\ CommitPlacement(x[1], x[2])
       \/ UNCHANGED tables
    /\ rtodo' = rtodo \ {x}
    /\ UNCHANGED <<importers, locks, ticket, cur, chan, dispatch, cancel, recon, crashes>>

ReconEnd ==
    /\ recon = "scan"
    /\ rtodo = {}
    /\ recon' = "off"
    /\ target' = "free"
    /\ UNCHANGED <<tables, importers, lock, storage, ticket, cur, chan, dispatch, cancel, rtodo, crashes>>

Crash ==
    /\ crashes < MaxCrashes
    /\ crashes' = crashes + 1
    /\ Fresh(AnySource)
    /\ UNCHANGED tables

-----------------------------------------------------------------------------
\* One step of an importer inside a job; it is never waiting for the operator.
ImporterStep(w) ==
    \/ Dequeue(w) \/ DropCancelledJob(w) \/ LockDownload(w) \/ StartJob(w)
    \/ SweepMark(w) \/ RunImport(w) \/ MarkImporting(w) \/ EnterImport(w)
    \/ LockImportTarget(w) \/ SealPlan(w)
    \/ \E s \in Sources : ReuseFile(w, s) \/ SkipFile(w, s) \/ PrepareFile(w, s) \/ StopFile(w, s)
    \/ FilesDone(w) \/ AuthorizeFile(w) \/ PublishFile(w) \/ CommitFile(w) \/ PublicationFails(w)
    \/ CompleteBoundImport(w) \/ FailImport(w) \/ FinishJob(w) \/ ReleaseTicket(w)

DispatchStep(d) == EnqueueEnsure(d) \/ EnqueueRegister(d)

CancelStep == CancelTryLock \/ CancelRequest \/ CancelSignal \/ CancelFinalize \/ CancelDrop

ReconStep == ReconBegin \/ (\E x \in Epochs \X Sources : ReconRow(x)) \/ ReconEnd

Next ==
    \/ ObserveCompleted \/ RecordDownloaded
    \/ ImportNow \/ ImportNowFinalize \/ ImportNowRetry
    \/ \E d \in Dispatchers : DispatchStep(d)
    \/ \E w \in Importers : ImporterStep(w) \/ SweepRead(w)
    \/ CancelRead \/ CancelStep
    \/ ReviewImportCancellation
    \/ \E s \in Sources : LibraryAdopts(s)
    \/ ReconcileImportCancellations
    \/ ReconStep
    \/ Crash

Spec == Init /\ [][Next]_vars

\* Goroutines that have work run: workers, the poll, the ticker, and a
\* request that has begun.  The operator and the crash owe nothing.  The
\* mutexes are granted in the end (sync.Mutex and TryLock loops).
Fairness ==
    /\ \A w \in Importers : SF_vars(ImporterStep(w)) /\ SF_vars(SweepRead(w))
    /\ SF_vars(ObserveCompleted)
    /\ WF_vars(RecordDownloaded \/ ImportNowFinalize \/ ImportNowRetry)
    /\ \A d \in Dispatchers : WF_vars(DispatchStep(d))
    /\ WF_vars(CancelStep)
    /\ SF_vars(ReconcileImportCancellations)
    /\ SF_vars(ReconStep)

FairSpec == Spec /\ Fairness

-----------------------------------------------------------------------------
(* Properties.                                                              *)

\* An authorization is pending only for the attempt the download is at, and
\* only while that attempt can still be completed or cancelled: neither
\* BeginImportRetry nor a finalization leaves one behind.
PendingBelongsToLiveAttempt ==
    \A e \in Epochs, s \in Sources :
        pub[e][s] = "pending" => e = epoch /\ outcome \in {"open", "pending"}

\* Bytes at a library path were authorized, and once their publication is
\* committed the library names exactly these bytes, across crashes between
\* the rename and CommitPlacement.
LibraryMatchesDisk ==
    \A s \in Sources : disk[s] # NoFile =>
        /\ pub[disk[s]][s] # "none"
        /\ pub[disk[s]][s] = "committed" => lib[s] = disk[s]

\* A plan entry that reads committed (by CommitPlacement, by reconciliation
\* at start or by SatisfyImportFile) has its file on disk, in the library and
\* in the journal.
CommittedFileInLibrary ==
    \A s \in Sources : file[s] = "committed" =>
        /\ lib[s] # NoFile
        /\ lib[s] = disk[s]
        /\ plc[lib[s]][s] = "committed"

\* An attempt that sealed a plan completes only with every entry resolved
\* and a file placed, whoever completes it: the worker, the cancellation
\* request, or the finalization of a cancellation that came too late.
CompletedImportIsWhole ==
    outcome = "completed" /\ sealed =>
        /\ \A s \in Sources : file[s] # "pending"
        /\ \E s \in Sources : file[s] = "committed"

\* No bytes appear at a library path for an attempt that is already
\* completed, cancelled or superseded, or without a pending authorization.
NoPublicationAfterFinal ==
    [][\A s \in Sources : disk'[s] # disk[s] =>
          /\ disk'[s] = epoch
          /\ outcome \in {"open", "pending"}
          /\ pub'[epoch][s] = "pending"]_vars

\* A final outcome is final for its epoch; only a retry with no pending and
\* no retained publication opens the next one.
FinalOutcomeSticks ==
    [][/\ epoch' = epoch /\ outcome \in {"completed", "cancelled"} => outcome' = outcome
       /\ epoch' # epoch => epoch' = epoch + 1 /\ ~PendingPublications /\ ~RetainedPublications]_vars

\* ResolveRetainedImportTargets "never reactivates a revoked authorization",
\* and neither does reconciliation at start, for which the journal row of a
\* retained publication still reads prepared.
RevokedNeverReactivated ==
    [][\A e \in Epochs, s \in Sources :
          pub[e][s] \in {"retained", "adopted", "disposed"} =>
              pub'[e][s] \notin {"none", "pending", "committed"}]_vars

\* The abstract specification: an attempt is decided once, by whichever of
\* worker, sweep, ticker, request, review or restart comes first.
Lifecycle == INSTANCE ImportLifecycle WITH outcome <- outcome, epoch <- epoch, pub <- pub

\* Every step of every process is one step of the attempt's lifecycle or
\* leaves it alone.
ImplementsLifecycle == Lifecycle!Spec

\* A requested cancellation is decided, unless an authorized publication
\* never committed and waits for the operator's review.
CancelSettles == outcome = "pending" ~> (outcome # "pending" \/ PendingPublications)

\* Every registered job ends and gives its ticket back: the download mutex,
\* the title's lock and the storage lock never wait for one another.
JobsEnd == \A t \in Tickets : (cur = t) ~> (cur # t)

\* "An intentional cancel already returns the durable row to downloaded.  Do
\* not race that with a misleading failed/context-canceled state"
\* (handoff.go): once an attempt is cancelled only a retry moves its row.
CancelledRowStays ==
    [][outcome = "cancelled" /\ epoch' = epoch => row' = row]_vars

=============================================================================
