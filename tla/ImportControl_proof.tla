-------------------------- MODULE ImportControl_proof --------------------------
(***************************************************************************)
(* Proofs about ImportControl, for every set of files, workers, sweeps and *)
(* tickets and for every bound on retries and crashes.                     *)
(***************************************************************************)
EXTENDS ImportControl, TLAPS

LEMMA EnsureType ==
    ASSUME TablesTypeOK, EnsureImportAttempt
    PROVE  TablesTypeOK'
BY DEF TablesTypeOK, EnsureImportAttempt, EnsuredOutcome, Outcomes

LEMMA RetryType ==
    ASSUME TablesTypeOK, BeginImportRetry
    PROVE  TablesTypeOK'
<1>1. epoch' \in Epochs
  BY MaxEpochAssumption DEF TablesTypeOK, BeginImportRetry, BeginImportRetryAllowed, Epochs
<1>2. QED
  BY <1>1 DEF TablesTypeOK, BeginImportRetry, Outcomes, FileOutcomes, RowStates

LEMMA SealType ==
    ASSUME TablesTypeOK, NEW k \in Epochs, NEW plan \in SUBSET Sources, SealImportAttempt(k, plan)
    PROVE  TablesTypeOK'
BY DEF TablesTypeOK, SealImportAttempt, FileOutcomes

LEMMA SkipType ==
    ASSUME TablesTypeOK, NEW k \in Epochs, NEW s \in Sources, ResolveSkipped(k, s)
    PROVE  TablesTypeOK'
BY DEF TablesTypeOK, ResolveSkipped, FileOutcomes

LEMMA SatisfyType ==
    ASSUME TablesTypeOK, NEW k \in Epochs, NEW s \in Sources, NEW p \in Epochs, SatisfyImportFile(k, s, p)
    PROVE  TablesTypeOK'
BY DEF TablesTypeOK, SatisfyImportFile, FileOutcomes

LEMMA CompleteType ==
    ASSUME TablesTypeOK, NEW k \in Epochs, CompleteImportAttempt(k)
    PROVE  TablesTypeOK'
BY DEF TablesTypeOK, CompleteImportAttempt, CompleteAttempt, Outcomes, RowStates

LEMMA RequestType ==
    ASSUME TablesTypeOK, NEW k \in Epochs, RequestImportCancellation(k)
    PROVE  TablesTypeOK'
<1>1. outcome' \in Outcomes /\ row' \in RowStates
  BY DEF TablesTypeOK, RequestImportCancellation, CompleteAttempt, Outcomes, RowStates
<1>2. QED
  BY <1>1 DEF TablesTypeOK, RequestImportCancellation

LEMMA FinalizeType ==
    ASSUME TablesTypeOK, NEW k \in Epochs, FinalizeImportCancellation(k)
    PROVE  TablesTypeOK'
<1>1. outcome' \in Outcomes /\ row' \in RowStates
  BY DEF TablesTypeOK, FinalizeImportCancellation, CompleteAttempt, Outcomes, RowStates
<1>2. QED
  BY <1>1 DEF TablesTypeOK, FinalizeImportCancellation

LEMMA StageType ==
    ASSUME TablesTypeOK, NEW k \in Epochs, NEW s \in Sources, NEW b \in BOOLEAN, StagePlacement(k, s, b)
    PROVE  TablesTypeOK'
BY DEF TablesTypeOK, StagePlacement, PlcStates

LEMMA AuthorizeType ==
    ASSUME TablesTypeOK, NEW k \in Epochs, NEW s \in Sources, AuthorizeImportPlacement(k, s)
    PROVE  TablesTypeOK'
BY DEF TablesTypeOK, AuthorizeImportPlacement, PubOutcomes

LEMMA RenameType ==
    ASSUME TablesTypeOK, NEW k \in Epochs, NEW s \in Sources, RenameStage(k, s)
    PROVE  TablesTypeOK'
BY DEF TablesTypeOK, RenameStage

LEMMA CommitType ==
    ASSUME TablesTypeOK, NEW k \in Epochs, NEW s \in Sources, CommitPlacement(k, s)
    PROVE  TablesTypeOK'
BY DEF TablesTypeOK, CommitPlacement, PubOutcomes, PlcStates, FileOutcomes

LEMMA RetainType ==
    ASSUME TablesTypeOK, RetainUncertainImport
    PROVE  TablesTypeOK'
BY DEF TablesTypeOK, RetainUncertainImport, PubOutcomes, Outcomes, RowStates

LEMMA ResolveType ==
    ASSUME TablesTypeOK, NEW e \in Epochs, NEW s \in Sources, NEW d \in {"adopted", "disposed"},
           ResolveRetained(e, s, d)
    PROVE  TablesTypeOK'
BY DEF TablesTypeOK, ResolveRetained, PubOutcomes, PlcStates

LEMMA DisposeType ==
    ASSUME TablesTypeOK, NEW e \in Epochs, NEW s \in Sources, DisposeStage(e, s)
    PROVE  TablesTypeOK'
BY DEF TablesTypeOK, DisposeStage, PlcStates

-----------------------------------------------------------------------------
(* SQLite has one writer, so whatever the processes do, the tables and the  *)
(* disk only ever see the transactions of ImportAttempts, a write of the    *)
(* row's state, or a library scan.                                          *)

RowWrite ==
    /\ row' \in (RowStates \ {"imported"}) \cup {row}
    /\ UNCHANGED <<outcome, epoch, sealed, file, pub, plc, stage, disk, lib>>

LibraryWrite ==
    /\ \E s \in Sources : lib' = [lib EXCEPT ![s] = disk[s]]
    /\ UNCHANGED <<outcome, epoch, sealed, file, pub, plc, row, stage, disk>>

AttemptTransaction ==
    \/ EnsureImportAttempt
    \/ BeginImportRetry
    \/ RetainUncertainImport
    \/ \E k \in Epochs : \/ /\ \E w \in Importers : pc[w] = "complete" /\ ep[w] = k
                            /\ CompleteImportAttempt(k)
                         \/ RequestImportCancellation(k)
                         \/ FinalizeImportCancellation(k)

FileTransaction ==
    \/ \E k \in Epochs, plan \in SUBSET Sources : SealImportAttempt(k, plan)
    \/ \E k \in Epochs, s \in Sources :
          \/ ResolveSkipped(k, s)
          \/ \E p \in Epochs : SatisfyImportFile(k, s, p)
          \/ \E b \in BOOLEAN : StagePlacement(k, s, b)
          \/ AuthorizeImportPlacement(k, s)
          \/ RenameStage(k, s)
          \/ CommitPlacement(k, s)
          \/ \E d \in {"adopted", "disposed"} : ResolveRetained(k, s, d)
          \/ DisposeStage(k, s)

Transaction == RowWrite \/ LibraryWrite \/ AttemptTransaction \/ FileTransaction

LEMMA TransactionType ==
    ASSUME TablesTypeOK, Transaction
    PROVE  TablesTypeOK'
<1>1. CASE RowWrite
  BY <1>1 DEF RowWrite, TablesTypeOK
<1>2. CASE LibraryWrite
  BY <1>2 DEF LibraryWrite, TablesTypeOK
<1>3. CASE AttemptTransaction
  BY <1>3, EnsureType, RetryType, RetainType, CompleteType, RequestType, FinalizeType
  DEF AttemptTransaction
<1>4. CASE FileTransaction
  BY <1>4, SealType, SkipType, SatisfyType, StageType, AuthorizeType, RenameType, CommitType,
     ResolveType, DisposeType
  DEF FileTransaction
<1>5. QED
  BY <1>1, <1>2, <1>3, <1>4 DEF Transaction

\* Dispatchers and the cancellation request.
LEMMA RequestStepIsTransaction ==
    ASSUME TypeOK,
           \/ ObserveCompleted \/ RecordDownloaded
           \/ ImportNow \/ ImportNowFinalize \/ ImportNowRetry
           \/ \E d \in Dispatchers : DispatchStep(d)
           \/ CancelRead \/ CancelStep
    PROVE  RowWrite \/ AttemptTransaction \/ UNCHANGED tables
<1>. USE DEF TypeOK, ProcessTypeOK, AttemptTransaction
<1>1. CASE ObserveCompleted
  BY <1>1 DEF ObserveCompleted
<1>2. CASE RecordDownloaded
  BY <1>2 DEF RecordDownloaded, RowWrite, RowStates
<1>3. CASE ImportNow
  BY <1>3 DEF ImportNow
<1>4. CASE ImportNowFinalize
  BY <1>4 DEF ImportNowFinalize, Dispatchers
<1>5. CASE ImportNowRetry
  BY <1>5 DEF ImportNowRetry
<1>6. CASE \E d \in Dispatchers : DispatchStep(d)
  BY <1>6 DEF DispatchStep, EnqueueEnsure, EnqueueRegister
<1>7. CASE CancelRead
  BY <1>7 DEF CancelRead
<1>8. CASE CancelStep
  BY <1>8 DEF CancelStep, CancelTryLock, CancelRequest, CancelSignal, CancelFinalize, CancelDrop
<1>9. QED
  BY <1>1, <1>2, <1>3, <1>4, <1>5, <1>6, <1>7, <1>8

\* Review, ticker, reconciliation at start, crash.
LEMMA ServiceStepIsTransaction ==
    ASSUME TypeOK,
           \/ ReviewImportCancellation
           \/ \E s \in Sources : LibraryAdopts(s)
           \/ ReconcileImportCancellations
           \/ ReconStep
           \/ Crash
    PROVE  Transaction \/ UNCHANGED tables
<1>. USE DEF TypeOK, Transaction
<1>1. CASE ReviewImportCancellation
  BY <1>1 DEF ReviewImportCancellation, AttemptTransaction, FileTransaction
<1>2. CASE \E s \in Sources : LibraryAdopts(s)
  BY <1>2 DEF LibraryAdopts, LibraryWrite
<1>3. CASE ReconcileImportCancellations
  BY <1>3 DEF ReconcileImportCancellations, AttemptTransaction, TablesTypeOK
<1>4. CASE ReconStep
  <2>1. CASE ReconBegin \/ ReconEnd
    BY <2>1 DEF ReconBegin, ReconEnd
  <2>2. ASSUME NEW x \in Epochs \X Sources, ReconRow(x)
        PROVE  Transaction \/ UNCHANGED tables
    BY <2>2 DEF ReconRow, FileTransaction
  <2>3. QED
    BY <1>4, <2>1, <2>2 DEF ReconStep
<1>5. CASE Crash
  BY <1>5 DEF Crash
<1>6. QED
  BY <1>1, <1>2, <1>3, <1>4, <1>5

\* Importers: the job around the import ...
LEMMA JobStepIsTransaction ==
    ASSUME TypeOK, NEW w \in Importers,
           \/ Dequeue(w) \/ DropCancelledJob(w) \/ LockDownload(w) \/ StartJob(w)
           \/ SweepRead(w) \/ SweepMark(w) \/ RunImport(w) \/ MarkImporting(w)
           \/ EnterImport(w) \/ LockImportTarget(w) \/ FilesDone(w)
           \/ CompleteBoundImport(w) \/ FailImport(w) \/ FinishJob(w) \/ ReleaseTicket(w)
    PROVE  RowWrite \/ AttemptTransaction \/ UNCHANGED tables
<1>. ep[w] \in Epochs /\ row \in RowStates
  BY DEF TypeOK, ProcessTypeOK, TablesTypeOK
<1>1. CASE Dequeue(w) \/ LockDownload(w) \/ SweepRead(w) \/ LockImportTarget(w) \/ FilesDone(w)
           \/ ReleaseTicket(w)
  BY <1>1 DEF Dequeue, LockDownload, SweepRead, LockImportTarget, FilesDone, ReleaseTicket
<1>2. CASE StartJob(w) \/ RunImport(w) \/ EnterImport(w)
  BY <1>2 DEF StartJob, RunImport, EnterImport, AttemptTransaction
<1>3. CASE DropCancelledJob(w) \/ CompleteBoundImport(w) \/ FinishJob(w)
  BY <1>3 DEF DropCancelledJob, CompleteBoundImport, FinishJob, AttemptTransaction
<1>4. CASE SweepMark(w) \/ MarkImporting(w) \/ FailImport(w)
  BY <1>4 DEF SweepMark, MarkImporting, FailImport, RowWrite, RowStates
<1>5. QED
  BY <1>1, <1>2, <1>3, <1>4

\* ... and the file loop.
LEMMA FileStepIsTransaction ==
    ASSUME TypeOK, NEW w \in Importers,
           \/ SealPlan(w)
           \/ \E s \in Sources : ReuseFile(w, s) \/ SkipFile(w, s) \/ PrepareFile(w, s) \/ StopFile(w, s)
           \/ AuthorizeFile(w) \/ PublishFile(w) \/ CommitFile(w) \/ PublicationFails(w)
    PROVE  Transaction \/ UNCHANGED tables
<1>. USE DEF Transaction, FileTransaction
<1>. ep[w] \in Epochs /\ src[w] \in Sources
  BY DEF TypeOK, ProcessTypeOK
<1>1. CASE SealPlan(w)
  BY <1>1 DEF SealPlan
<1>2. ASSUME NEW s \in Sources, ReuseFile(w, s) \/ SkipFile(w, s)
      PROVE  Transaction \/ UNCHANGED tables
  BY <1>2 DEF ReuseFile, Reusable, SkipFile
<1>3. ASSUME NEW s \in Sources, PrepareFile(w, s)
      PROVE  Transaction \/ UNCHANGED tables
  BY <1>3 DEF PrepareFile
<1>4. ASSUME NEW s \in Sources, StopFile(w, s)
      PROVE  Transaction \/ UNCHANGED tables
  BY <1>4 DEF StopFile
<1>5. CASE AuthorizeFile(w) \/ PublicationFails(w)
  BY <1>5 DEF AuthorizeFile, PublicationFails
<1>6. CASE PublishFile(w) \/ CommitFile(w)
  BY <1>6 DEF PublishFile, CommitFile
<1>7. QED
  BY <1>1, <1>2, <1>3, <1>4, <1>5, <1>6

LEMMA NextIsTransaction ==
    ASSUME TypeOK, [Next]_vars
    PROVE  Transaction \/ UNCHANGED tables
<1>1. CASE \E w \in Importers : ImporterStep(w) \/ SweepRead(w)
  BY <1>1, JobStepIsTransaction, FileStepIsTransaction DEF ImporterStep, Transaction
<1>2. CASE UNCHANGED vars
  BY <1>2 DEF vars
<1>3. QED
  BY <1>1, <1>2, RequestStepIsTransaction, ServiceStepIsTransaction DEF Next, Transaction

-----------------------------------------------------------------------------
(* Type correctness of the volatile state.                                  *)

LEMMA AnySourceType == AnySource \in Sources
BY SourcesAssumption DEF AnySource

LEMMA StopsType ==
    ASSUME NEW w \in Importers, NEW l, l \in Stops(w, {"fail"}) \/ l \in Stops(w, {"fail", "block"})
    PROVE  l \in PCs
BY DEF Stops, Returned, PCs

LEMMA DispatchType ==
    ASSUME TypeOK,
           \/ ObserveCompleted \/ RecordDownloaded
           \/ ImportNow \/ ImportNowFinalize \/ ImportNowRetry
           \/ \E d \in Dispatchers : DispatchStep(d)
    PROVE  ProcessTypeOK'
<1>. USE DEF TypeOK, ProcessTypeOK, Dispatchers, cancel, reconciler, importers, locks
<1>1. CASE ObserveCompleted
  BY <1>1 DEF ObserveCompleted
<1>2. CASE RecordDownloaded
  BY <1>2 DEF RecordDownloaded
<1>3. CASE ImportNow
  BY <1>3 DEF ImportNow, TablesTypeOK
<1>4. CASE ImportNowFinalize
  BY <1>4 DEF ImportNowFinalize
<1>5. CASE ImportNowRetry
  <2>. 0 \in Epochs
    BY MaxEpochAssumption DEF Epochs
  <2>. QED
    BY <1>5 DEF ImportNowRetry, DispatchReturns
<1>6. ASSUME NEW d \in Dispatchers, EnqueueEnsure(d)
      PROVE  ProcessTypeOK'
  <2>. 0 \in Epochs
    BY MaxEpochAssumption DEF Epochs
  <2>. QED
    BY <1>6 DEF EnqueueEnsure, DispatchReturns, TablesTypeOK
<1>7. ASSUME NEW d \in Dispatchers, EnqueueRegister(d)
      PROVE  ProcessTypeOK'
  <2>. 0 \in Epochs
    BY MaxEpochAssumption DEF Epochs
  <2>1. ticket' \in [Tickets -> [epoch : Epochs, cancelled : BOOLEAN]]
    <3>1. [epoch |-> dkey[d], cancelled |-> FALSE] \in [epoch : Epochs, cancelled : BOOLEAN]
      OBVIOUS
    <3>2. CASE ticket' = ticket
      BY <3>2
    <3>3. ASSUME NEW t \in Tickets,
                 ticket' = [ticket EXCEPT ![t] = [epoch |-> dkey[d], cancelled |-> FALSE]]
          PROVE  ticket' \in [Tickets -> [epoch : Epochs, cancelled : BOOLEAN]]
      BY <3>1, <3>3
    <3>. QED
      BY <1>7, <3>2, <3>3 DEF EnqueueRegister
  <2>2. cur' \in Tickets \cup {NoTicket}
    BY <1>7 DEF EnqueueRegister
  <2>3. chan' \in Seq(Tickets)
    <3>1. \A t \in Tickets : Append(chan, t) \in Seq(Tickets)
      OBVIOUS
    <3>. QED
      BY <1>7, <3>1 DEF EnqueueRegister
  <2>. QED
    BY <1>7, <2>1, <2>2, <2>3 DEF EnqueueRegister, DispatchReturns
<1>8. QED
  BY <1>1, <1>2, <1>3, <1>4, <1>5, <1>6, <1>7 DEF DispatchStep

LEMMA CancelType ==
    ASSUME TypeOK, CancelRead \/ CancelStep
    PROVE  ProcessTypeOK'
<1>. USE DEF TypeOK, ProcessTypeOK, notCancel, importers, dispatch, reconciler
<1>. 0 \in Epochs
  BY MaxEpochAssumption DEF Epochs
<1>1. CASE CancelRead
  BY <1>1 DEF CancelRead, TablesTypeOK
<1>2. CASE CancelTryLock
  BY <1>2 DEF CancelTryLock
<1>3. CASE CancelRequest
  BY <1>3 DEF CancelRequest, CancelReturns
<1>4. CancelledTickets(ckey) \in [Tickets -> [epoch : Epochs, cancelled : BOOLEAN]]
  BY DEF CancelledTickets
<1>5. CASE CancelSignal
  BY <1>4, <1>5 DEF CancelSignal, CancelReturns
<1>6. CASE CancelFinalize
  BY <1>6 DEF CancelFinalize, CancelReturns
<1>7. CASE CancelDrop
  BY <1>4, <1>7 DEF CancelDrop, CancelReturns
<1>8. QED
  BY <1>1, <1>2, <1>3, <1>5, <1>6, <1>7 DEF CancelStep

LEMMA ServiceType ==
    ASSUME TypeOK,
           \/ ReviewImportCancellation
           \/ \E s \in Sources : LibraryAdopts(s)
           \/ ReconcileImportCancellations
           \/ ReconStep
           \/ Crash
    PROVE  ProcessTypeOK'
<1>. USE DEF TypeOK, ProcessTypeOK, importers, locks, dispatch, cancel, reconciler
<1>1. CASE \/ ReviewImportCancellation
           \/ \E s \in Sources : LibraryAdopts(s)
           \/ ReconcileImportCancellations
  BY <1>1 DEF ReviewImportCancellation, LibraryAdopts, ReconcileImportCancellations, volatile
<1>2. CASE ReconBegin
  BY <1>2 DEF ReconBegin
<1>3. ASSUME NEW x \in Epochs \X Sources, ReconRow(x)
      PROVE  ProcessTypeOK'
  BY <1>3 DEF ReconRow
<1>4. CASE ReconEnd
  BY <1>4 DEF ReconEnd
<1>5. CASE Crash
  <2>. 0 \in Epochs
    BY MaxEpochAssumption DEF Epochs
  <2>1. crashes' \in 0 .. MaxCrashes
    BY <1>5, MaxCrashesAssumption DEF Crash
  <2>2. ticket' \in [Tickets -> [epoch : Epochs, cancelled : BOOLEAN]]
    BY <1>5 DEF Crash, Fresh, NoContext
  <2>3. chan' \in Seq(Tickets)
    BY <1>5 DEF Crash, Fresh
  <2>4. /\ pc' \in [Importers -> PCs]
        /\ tk' \in [Importers -> Tickets \cup {NoTicket}]
        /\ ep' \in [Importers -> Epochs]
        /\ todo' \in [Importers -> SUBSET Sources]
        /\ src' \in [Importers -> Sources]
        /\ any' \in [Importers -> BOOLEAN]
    BY <1>5, AnySourceType DEF Crash, Fresh, PCs
  <2>. QED
    BY <1>5, <2>1, <2>2, <2>3, <2>4 DEF Crash, Fresh
<1>6. QED
  BY <1>1, <1>2, <1>3, <1>4, <1>5 DEF ReconStep

LEMMA JobType ==
    ASSUME TypeOK, NEW w \in Importers,
           \/ Dequeue(w) \/ DropCancelledJob(w) \/ LockDownload(w) \/ StartJob(w)
           \/ SweepRead(w) \/ SweepMark(w) \/ RunImport(w) \/ MarkImporting(w)
           \/ EnterImport(w) \/ LockImportTarget(w) \/ FilesDone(w)
           \/ CompleteBoundImport(w) \/ FailImport(w) \/ FinishJob(w) \/ ReleaseTicket(w)
    PROVE  ProcessTypeOK'
<1>. USE DEF TypeOK, ProcessTypeOK, notImporters, locks, dispatch, cancel, reconciler, Goto
<1>. 0 \in Epochs
  BY MaxEpochAssumption DEF Epochs
<1>1. CASE Dequeue(w)
  <2>. Head(chan) \in Tickets /\ Tail(chan) \in Seq(Tickets)
    BY <1>1 DEF Dequeue
  <2>. QED
    BY <1>1 DEF Dequeue, PCs
<1>2. CASE DropCancelledJob(w) \/ LockDownload(w) \/ StartJob(w)
  BY <1>2 DEF DropCancelledJob, LockDownload, StartJob, PCs
<1>3. CASE SweepRead(w) \/ SweepMark(w) \/ MarkImporting(w)
  BY <1>3 DEF SweepRead, SweepMark, MarkImporting, PCs
<1>4. CASE RunImport(w)
  <2>1. pc' \in [Importers -> PCs]
    BY <1>4 DEF RunImport, Returned, PCs
  <2>2. ep' \in [Importers -> Epochs]
    BY <1>4 DEF RunImport, TablesTypeOK
  <2>. QED
    BY <1>4, <2>1, <2>2 DEF RunImport
<1>9. CASE EnterImport(w)
  <2>1. pc' \in [Importers -> PCs]
    BY <1>9 DEF EnterImport, Returned, PCs
  <2>. QED
    BY <1>9, <2>1 DEF EnterImport
<1>10. CASE LockImportTarget(w)
  BY <1>10 DEF LockImportTarget, PCs
<1>5. CASE FilesDone(w)
  <2>1. pc' \in [Importers -> PCs] /\ src' \in [Importers -> Sources]
    BY <1>5, AnySourceType DEF FilesDone, LeaveImport, PCs
  <2>. QED
    BY <1>5, <2>1 DEF FilesDone, LeaveImport
<1>6. CASE CompleteBoundImport(w)
  BY <1>6 DEF CompleteBoundImport, Returned, PCs
<1>11. CASE FailImport(w)
  BY <1>11 DEF FailImport, Returned, PCs
<1>12. CASE FinishJob(w)
  BY <1>12 DEF FinishJob, Returned, PCs
<1>7. CASE ReleaseTicket(w)
  <2>1. pc' \in [Importers -> PCs]
    BY <1>7 DEF ReleaseTicket, PCs
  <2>2. ticket' \in [Tickets -> [epoch : Epochs, cancelled : BOOLEAN]]
    BY <1>7 DEF ReleaseTicket, NoContext
  <2>3. cur' \in Tickets \cup {NoTicket} /\ tk' \in [Importers -> Tickets \cup {NoTicket}] /\ ep' \in [Importers -> Epochs]
    BY <1>7 DEF ReleaseTicket, Unregistered
  <2>. QED
    BY <1>7, <2>1, <2>2, <2>3 DEF ReleaseTicket
<1>8. QED
  BY <1>1, <1>2, <1>3, <1>4, <1>5, <1>6, <1>7, <1>9, <1>10, <1>11, <1>12

LEMMA LeaveType ==
    ASSUME ProcessTypeOK, NEW w \in Importers, NEW l \in PCs, LeaveImport(w, l)
    PROVE  /\ pc' \in [Importers -> PCs]
           /\ todo' \in [Importers -> SUBSET Sources]
           /\ src' \in [Importers -> Sources]
           /\ any' \in [Importers -> BOOLEAN]
           /\ target' \in Importers \cup {"free", "recon"}
BY AnySourceType DEF ProcessTypeOK, LeaveImport, Goto

LEMMA FileType ==
    ASSUME TypeOK, NEW w \in Importers,
           \/ SealPlan(w)
           \/ \E s \in Sources : ReuseFile(w, s) \/ SkipFile(w, s) \/ PrepareFile(w, s) \/ StopFile(w, s)
           \/ AuthorizeFile(w) \/ PublishFile(w) \/ CommitFile(w) \/ PublicationFails(w)
    PROVE  ProcessTypeOK'
<1>. USE DEF TypeOK, ProcessTypeOK, notImporters, locks, dispatch, cancel, reconciler, Goto
<1>. DEFINE ImporterTypes == /\ pc' \in [Importers -> PCs]
                            /\ todo' \in [Importers -> SUBSET Sources]
                            /\ src' \in [Importers -> Sources]
                            /\ any' \in [Importers -> BOOLEAN]
                            /\ target' \in Importers \cup {"free", "recon"}
<1>1. CASE SealPlan(w)
  <2>1. ImporterTypes
    <3>1. CASE \E l \in Stops(w, {"fail"}) : LeaveImport(w, l)
      BY <3>1, StopsType, LeaveType
    <3>2. CASE /\ \E plan \in SUBSET Sources \ {{}} : todo' = [todo EXCEPT ![w] = plan]
               /\ any' = [any EXCEPT ![w] = FALSE]
               /\ Goto(w, "file")
               /\ UNCHANGED <<src, target>>
      BY <3>2 DEF PCs
    <3>. QED
      BY <1>1, <3>1, <3>2 DEF SealPlan
  <2>. QED
    BY <1>1, <2>1 DEF SealPlan
<1>2. ASSUME NEW s \in Sources, ReuseFile(w, s) \/ SkipFile(w, s)
      PROVE  ProcessTypeOK'
  <2>1. todo' \in [Importers -> SUBSET Sources] /\ any' \in [Importers -> BOOLEAN]
    BY <1>2 DEF ReuseFile, SkipFile
  <2>. QED
    BY <1>2, <2>1 DEF ReuseFile, SkipFile
<1>3. ASSUME NEW s \in Sources, PrepareFile(w, s)
      PROVE  ProcessTypeOK'
  BY <1>3 DEF PrepareFile, PCs
<1>4. ASSUME NEW s \in Sources, StopFile(w, s)
      PROVE  ProcessTypeOK'
  <2>1. ImporterTypes
    BY <1>4, StopsType, LeaveType DEF StopFile
  <2>. QED
    BY <1>4, <2>1 DEF StopFile
<1>5. CASE AuthorizeFile(w)
  <2>1. ImporterTypes
    <3>1. CASE \E l \in Stops(w, {"fail"}) : LeaveImport(w, l)
      BY <3>1, StopsType, LeaveType
    <3>2. CASE Goto(w, "publish") /\ UNCHANGED <<target, todo, src, any>>
      BY <3>2 DEF PCs
    <3>. QED
      BY <1>5, <3>1, <3>2 DEF AuthorizeFile
  <2>2. storage' \in Importers \cup {"free", "poll"}
    BY <1>5 DEF AuthorizeFile
  <2>. QED
    BY <1>5, <2>1, <2>2 DEF AuthorizeFile
<1>6. CASE PublishFile(w)
  BY <1>6 DEF PublishFile, PCs
<1>7. CASE CommitFile(w)
  BY <1>7 DEF CommitFile, PCs
<1>8. CASE PublicationFails(w)
  <2>1. ImporterTypes
    <3>. {"fail", "block"} \subseteq PCs
      BY DEF PCs
    <3>. QED
      BY <1>8, LeaveType DEF PublicationFails
  <2>. QED
    BY <1>8, <2>1 DEF PublicationFails
<1>9. QED
  BY <1>1, <1>2, <1>3, <1>4, <1>5, <1>6, <1>7, <1>8

\* Every variable keeps its type: the outcome columns, the plan, the
\* publications and the journal, and the state of every goroutine.
THEOREM TypeCorrect == Spec => []TypeOK
<1>1. Init => TypeOK
  <2>. SUFFICES ASSUME Init PROVE TypeOK
    OBVIOUS
  <2>. 0 \in Epochs
    BY MaxEpochAssumption DEF Epochs
  <2>1. TablesTypeOK
    BY DEF Init, TablesInit, TablesTypeOK, Outcomes, FileOutcomes, PubOutcomes, PlcStates, RowStates
  <2>2. ticket \in [Tickets -> [epoch : Epochs, cancelled : BOOLEAN]]
    BY DEF Init, NoContext
  <2>3. chan \in Seq(Tickets)
    BY DEF Init
  <2>4. /\ pc \in [Importers -> PCs]
        /\ tk \in [Importers -> Tickets \cup {NoTicket}]
        /\ ep \in [Importers -> Epochs]
        /\ todo \in [Importers -> SUBSET Sources]
        /\ src \in [Importers -> Sources]
        /\ any \in [Importers -> BOOLEAN]
    BY AnySourceType DEF Init, PCs
  <2>5. ProcessTypeOK
    <3>1. crashes \in 0 .. MaxCrashes
      BY MaxCrashesAssumption DEF Init
    <3>2. rtodo \in SUBSET (Epochs \X Sources)
      BY DEF Init
    <3>. QED
      BY <2>2, <2>3, <2>4, <3>1, <3>2 DEF Init, ProcessTypeOK
  <2>. QED
    BY <2>1, <2>5 DEF TypeOK
<1>2. TypeOK /\ [Next]_vars => TypeOK'
  <2>. SUFFICES ASSUME TypeOK, [Next]_vars PROVE TypeOK'
    OBVIOUS
  <2>1. TablesTypeOK'
    <3>1. CASE Transaction
      BY <3>1, TransactionType DEF TypeOK
    <3>2. CASE UNCHANGED tables
      BY <3>2 DEF TypeOK, TablesTypeOK, tables
    <3>. QED
      BY <3>1, <3>2, NextIsTransaction
  <2>2. ProcessTypeOK'
    <3>1. CASE \E w \in Importers : ImporterStep(w) \/ SweepRead(w)
      BY <3>1, JobType, FileType DEF ImporterStep
    <3>2. CASE UNCHANGED vars
      BY <3>2 DEF vars, TypeOK, ProcessTypeOK, importers, locks, dispatch, cancel, reconciler
    <3>. QED
      BY <3>1, <3>2, DispatchType, CancelType, ServiceType DEF Next
  <2>. QED
    BY <2>1, <2>2 DEF TypeOK
<1>3. QED
  BY <1>1, <1>2, PTL DEF Spec

-----------------------------------------------------------------------------
(* The attempt and its publications.                                        *)

LEMMA AttemptKeepsPending ==
    ASSUME TablesTypeOK, PendingBelongsToLiveAttempt, AttemptTransaction
    PROVE  PendingBelongsToLiveAttempt'
<1>. USE DEF TablesTypeOK, PendingBelongsToLiveAttempt
<1>1. CASE EnsureImportAttempt
  BY <1>1 DEF EnsureImportAttempt, EnsuredOutcome
<1>2. CASE BeginImportRetry
  BY <1>2 DEF BeginImportRetry, BeginImportRetryAllowed, PendingPublications
<1>3. CASE RetainUncertainImport
  BY <1>3 DEF RetainUncertainImport
<1>4. ASSUME NEW k \in Epochs, CompleteImportAttempt(k)
      PROVE  PendingBelongsToLiveAttempt'
  BY <1>4 DEF CompleteImportAttempt, CompleteImportAttemptAllowed, PendingPublications
<1>5. ASSUME NEW k \in Epochs, RequestImportCancellation(k)
      PROVE  PendingBelongsToLiveAttempt'
  BY <1>5 DEF RequestImportCancellation, CompleteAttempt, PendingPublications
<1>6. ASSUME NEW k \in Epochs, FinalizeImportCancellation(k)
      PROVE  PendingBelongsToLiveAttempt'
  BY <1>6 DEF FinalizeImportCancellation, FinalizeImportCancellationAllowed, CompleteAttempt,
              PendingPublications
<1>7. QED
  BY <1>1, <1>2, <1>3, <1>4, <1>5, <1>6 DEF AttemptTransaction

LEMMA FileKeepsPending ==
    ASSUME TablesTypeOK, PendingBelongsToLiveAttempt, FileTransaction
    PROVE  PendingBelongsToLiveAttempt'
<1>. USE DEF TablesTypeOK, PendingBelongsToLiveAttempt
<1>1. CASE UNCHANGED <<outcome, epoch, pub>>
  BY <1>1
<1>2. ASSUME NEW k \in Epochs, NEW s \in Sources, AuthorizeImportPlacement(k, s)
      PROVE  PendingBelongsToLiveAttempt'
  BY <1>2 DEF AuthorizeImportPlacement, AuthorizeImportPlacementAllowed, GuardImportAttempt
<1>3. ASSUME NEW k \in Epochs, NEW s \in Sources, CommitPlacement(k, s)
      PROVE  PendingBelongsToLiveAttempt'
  BY <1>3 DEF CommitPlacement
<1>4. ASSUME NEW k \in Epochs, NEW s \in Sources, NEW d \in {"adopted", "disposed"},
             ResolveRetained(k, s, d)
      PROVE  PendingBelongsToLiveAttempt'
  BY <1>4 DEF ResolveRetained
<1>5. QED
  BY <1>1, <1>2, <1>3, <1>4
  DEF FileTransaction, SealImportAttempt, ResolveSkipped, SatisfyImportFile, StagePlacement,
      RenameStage, DisposeStage

\* Neither a retry nor a completed or cancelled attempt leaves a permission
\* to publish behind: what BeginImportRetry, CompleteImportAttempt and
\* FinalizeImportCancellation check is enough for every interleaving.
THEOREM PendingIsLive == Spec => []PendingBelongsToLiveAttempt
<1>1. Init => PendingBelongsToLiveAttempt
  BY DEF Init, TablesInit, PendingBelongsToLiveAttempt
<1>2. TypeOK /\ PendingBelongsToLiveAttempt /\ [Next]_vars => PendingBelongsToLiveAttempt'
  <2>. SUFFICES ASSUME TypeOK, PendingBelongsToLiveAttempt, [Next]_vars
                PROVE  PendingBelongsToLiveAttempt'
    OBVIOUS
  <2>1. CASE UNCHANGED tables \/ RowWrite \/ LibraryWrite
    BY <2>1 DEF tables, RowWrite, LibraryWrite, PendingBelongsToLiveAttempt
  <2>2. QED
    BY <2>1, NextIsTransaction, AttemptKeepsPending, FileKeepsPending DEF Transaction, TypeOK
<1>3. QED
  BY <1>1, <1>2, TypeCorrect, PTL DEF Spec

-----------------------------------------------------------------------------
(* The refinement of ImportLifecycle.                                       *)

LEMMA AttemptIsLifecycle ==
    ASSUME TablesTypeOK, AttemptTransaction
    PROVE  Lifecycle!Next \/ UNCHANGED <<outcome, epoch, pub>>
<1>. USE DEF TablesTypeOK, Lifecycle!Next, Lifecycle!Publishing, PendingPublications,
             Lifecycle!Attempts, Epochs
<1>1. CASE EnsureImportAttempt
  BY <1>1 DEF EnsureImportAttempt, EnsuredOutcome, Lifecycle!Open
<1>2. CASE BeginImportRetry
  BY <1>2 DEF BeginImportRetry, BeginImportRetryAllowed, EnsuredOutcome, RetainedPublications,
              Lifecycle!Retry, Lifecycle!UnderReview
<1>3. CASE RetainUncertainImport
  BY <1>3 DEF RetainUncertainImport, Lifecycle!Revoke
<1>4. ASSUME NEW k \in Epochs, CompleteImportAttempt(k)
      PROVE  Lifecycle!Decide \/ UNCHANGED <<outcome, epoch, pub>>
  BY <1>4 DEF CompleteImportAttempt, CompleteImportAttemptAllowed, CompleteAttempt,
              GuardImportAttempt, Outcomes, Lifecycle!Decide
<1>5. ASSUME NEW k \in Epochs, RequestImportCancellation(k)
      PROVE  Lifecycle!Decide \/ Lifecycle!RequestCancel \/ UNCHANGED <<outcome, epoch, pub>>
  BY <1>5 DEF RequestImportCancellation, CompleteAttempt, GuardImportAttempt, Outcomes,
              Lifecycle!Decide, Lifecycle!RequestCancel
<1>6. ASSUME NEW k \in Epochs, FinalizeImportCancellation(k)
      PROVE  Lifecycle!Decide \/ UNCHANGED <<outcome, epoch, pub>>
  BY <1>6 DEF FinalizeImportCancellation, FinalizeImportCancellationAllowed, CompleteAttempt,
              Lifecycle!Decide
<1>7. QED
  BY <1>1, <1>2, <1>3, <1>4, <1>5, <1>6 DEF AttemptTransaction

LEMMA FileIsLifecycle ==
    ASSUME TablesTypeOK, PendingBelongsToLiveAttempt, FileTransaction
    PROVE  Lifecycle!Next \/ UNCHANGED <<outcome, epoch, pub>>
<1>. USE DEF TablesTypeOK, Lifecycle!Attempts, Epochs
<1>1. ASSUME NEW k \in Epochs, NEW s \in Sources, AuthorizeImportPlacement(k, s)
      PROVE  Lifecycle!Authorize(s) \/ UNCHANGED <<outcome, epoch, pub>>
  BY <1>1 DEF AuthorizeImportPlacement, AuthorizeImportPlacementAllowed, GuardImportAttempt,
              TargetRetained, Lifecycle!Authorize
<1>2. ASSUME NEW k \in Epochs, NEW s \in Sources, CommitPlacement(k, s)
      PROVE  Lifecycle!Commit(s) \/ UNCHANGED <<outcome, epoch, pub>>
  BY <1>2 DEF CommitPlacement, CommitPlacementAllowed, GuardImportAttempt,
              PendingBelongsToLiveAttempt, Lifecycle!Commit
<1>3. ASSUME NEW k \in Epochs, NEW s \in Sources, NEW d \in {"adopted", "disposed"},
             ResolveRetained(k, s, d)
      PROVE  Lifecycle!Review(k, s)
  BY <1>3 DEF ResolveRetained, PendingPublications, Lifecycle!Review, Lifecycle!Publishing
<1>4. QED
  BY <1>1, <1>2, <1>3
  DEF FileTransaction, SealImportAttempt, ResolveSkipped, SatisfyImportFile, StagePlacement,
      RenameStage, DisposeStage, Lifecycle!Next

LEMMA NextIsLifecycle ==
    ASSUME TypeOK, PendingBelongsToLiveAttempt, [Next]_vars
    PROVE  [Lifecycle!Next]_Lifecycle!lifecycle
<1>1. CASE UNCHANGED tables \/ RowWrite \/ LibraryWrite
  BY <1>1 DEF tables, RowWrite, LibraryWrite, Lifecycle!lifecycle
<1>2. QED
  BY <1>1, NextIsTransaction, AttemptIsLifecycle, FileIsLifecycle
  DEF Transaction, TypeOK, Lifecycle!lifecycle

\* Workers, sweep, dispatchers, operator, ticker, reconciliation and crashes
\* together implement the attempt's lifecycle: every step is a legal step of
\* it or does not concern it.
THEOREM Refinement == Spec => ImplementsLifecycle
<1>1. Init => Lifecycle!Init
  BY DEF Init, TablesInit, Lifecycle!Init, Lifecycle!Attempts, Epochs
<1>2. QED
  BY <1>1, NextIsLifecycle, TypeCorrect, PendingIsLive, PTL
  DEF Spec, ImplementsLifecycle, Lifecycle!Spec

\* A completed or cancelled attempt stays decided until a retry that finds
\* no pending and no retained publication opens the next epoch.
THEOREM FinalIsFinal == Spec => FinalOutcomeSticks
<1>. DEFINE Sticks ==
       /\ epoch' = epoch /\ outcome \in {"completed", "cancelled"} => outcome' = outcome
       /\ epoch' # epoch => epoch' = epoch + 1 /\ ~PendingPublications /\ ~RetainedPublications
<1>1. ASSUME TypeOK, PendingBelongsToLiveAttempt, [Next]_vars
      PROVE  [Sticks]_vars
  <2>1. CASE UNCHANGED <<outcome, epoch, pub>>
    BY <2>1
  <2>2. CASE Lifecycle!Next
    BY <2>2, <1>1 DEF Lifecycle!Next, Lifecycle!Open, Lifecycle!RequestCancel, Lifecycle!Decide,
       Lifecycle!Retry, Lifecycle!Revoke, Lifecycle!Authorize, Lifecycle!Commit, Lifecycle!Review,
       Lifecycle!Publishing, Lifecycle!UnderReview, Lifecycle!Attempts, Epochs,
       PendingPublications, RetainedPublications, TypeOK, TablesTypeOK
  <2>3. QED
    BY <1>1, <2>1, <2>2, NextIsLifecycle DEF Lifecycle!lifecycle
<1>2. QED
  BY <1>1, TypeCorrect, PendingIsLive, PTL DEF Spec, FinalOutcomeSticks

\* Once the operator's review has revoked a permission to publish, no later
\* review, retry, restart or late worker brings it back.
THEOREM RevocationIsFinal == Spec => RevokedNeverReactivated
<1>. DEFINE Revoked ==
       \A e \in Epochs, s \in Sources :
          pub[e][s] \in {"retained", "adopted", "disposed"} =>
              pub'[e][s] \notin {"none", "pending", "committed"}
<1>1. ASSUME TypeOK, PendingBelongsToLiveAttempt, [Next]_vars
      PROVE  [Revoked]_vars
  <2>. USE DEF TypeOK, TablesTypeOK, Lifecycle!Attempts, Epochs
  <2>1. CASE UNCHANGED pub
    BY <2>1
  <2>2. CASE Lifecycle!Revoke
    BY <2>2 DEF Lifecycle!Revoke
  <2>3. ASSUME NEW s \in Sources, Lifecycle!Authorize(s) \/ Lifecycle!Commit(s)
        PROVE  Revoked
    <3>1. PICK p : /\ pub[epoch][s] \in {"none", "pending"}
                   /\ pub' = [pub EXCEPT ![epoch][s] = p]
      BY <2>3 DEF Lifecycle!Authorize, Lifecycle!Commit
    <3>2. ASSUME NEW e \in Epochs, NEW x \in Sources, e # epoch \/ x # s
          PROVE  pub'[e][x] = pub[e][x]
      BY <1>1, <3>1, <3>2
    <3>. QED
      BY <3>1, <3>2
  <2>4. ASSUME NEW e \in Epochs, NEW s \in Sources, Lifecycle!Review(e, s)
        PROVE  Revoked
    BY <1>1, <2>4 DEF Lifecycle!Review
  <2>5. CASE Lifecycle!Open \/ Lifecycle!RequestCancel \/ Lifecycle!Decide \/ Lifecycle!Retry
    BY <2>1, <2>5 DEF Lifecycle!Open, Lifecycle!RequestCancel, Lifecycle!Decide, Lifecycle!Retry
  <2>6. QED
    BY <1>1, <2>1, <2>2, <2>3, <2>4, <2>5, NextIsLifecycle DEF Lifecycle!Next, Lifecycle!lifecycle
<1>2. QED
  BY <1>1, TypeCorrect, PendingIsLive, PTL DEF Spec, RevokedNeverReactivated

(***************************************************************************)
(* What reaches the disk and the library.                                  *)
(*                                                                         *)
(* The argument: the title's lock admits one process to the file loop      *)
(* (TargetHeld), so that between the authorization and the commit nothing  *)
(* but the importer itself touches the journal row, the plan entry and the *)
(* path it is publishing (Custody).  With that, every transaction on the   *)
(* tables is one of Guarded, and the properties follow transaction by      *)
(* transaction without another look at the processes.                      *)
(***************************************************************************)

\* Between LockImportTarget and LeaveImport an importer holds the title.
TargetPCs == {"seal", "file", "authorize", "publish", "commit"}

TargetHeld ==
    /\ \A w \in Importers : pc[w] \in TargetPCs => target = w
    /\ recon = "scan" => target = "recon"

\* An importer between its authorization and its commit.
Custody ==
    \A w \in Importers : pc[w] \in {"publish", "commit"} =>
        /\ epoch = ep[w]
        /\ pub[ep[w]][src[w]] = "pending"
        /\ plc[ep[w]][src[w]] = "prepared"
        /\ file[src[w]] = "pending"
        /\ pc[w] = "commit" \/ ~stage[ep[w]][src[w]] => disk[src[w]] = ep[w]

-----------------------------------------------------------------------------
(* The title's lock.                                                        *)

LEMMA RequestKeepsTarget ==
    ASSUME TypeOK, TargetHeld,
           \/ ObserveCompleted \/ RecordDownloaded
           \/ ImportNow \/ ImportNowFinalize \/ ImportNowRetry
           \/ \E d \in Dispatchers : DispatchStep(d)
           \/ CancelRead \/ CancelStep
    PROVE  UNCHANGED <<importers, target, reconciler>>
<1>1. CASE ObserveCompleted \/ RecordDownloaded
  BY <1>1 DEF ObserveCompleted, RecordDownloaded
<1>2. CASE ImportNow \/ ImportNowFinalize \/ ImportNowRetry
  BY <1>2 DEF ImportNow, ImportNowFinalize, ImportNowRetry, locks
<1>3. CASE \E d \in Dispatchers : DispatchStep(d)
  BY <1>3 DEF DispatchStep, EnqueueEnsure, EnqueueRegister
<1>4. CASE CancelRead
  BY <1>4 DEF CancelRead, notCancel
<1>5. CASE CancelStep
  BY <1>5 DEF CancelStep, CancelTryLock, CancelRequest, CancelSignal, CancelFinalize, CancelDrop,
              notCancel
<1>6. QED
  BY <1>1, <1>2, <1>3, <1>4, <1>5

\* An importer's steps outside the file loop, except the lock itself.
LEMMA JobKeepsTarget ==
    ASSUME TypeOK, NEW w \in Importers,
           \/ Dequeue(w) \/ DropCancelledJob(w) \/ LockDownload(w) \/ StartJob(w)
           \/ SweepRead(w) \/ SweepMark(w) \/ RunImport(w) \/ MarkImporting(w)
           \/ EnterImport(w) \/ CompleteBoundImport(w) \/ FailImport(w) \/ FinishJob(w)
           \/ ReleaseTicket(w)
    PROVE  /\ target' = target /\ recon' = recon
           /\ pc'[w] \notin TargetPCs
           /\ \A v \in Importers \ {w} : pc'[v] = pc[v]
           /\ pc[w] \notin TargetPCs
<1>. USE DEF TypeOK, ProcessTypeOK, notImporters, locks, reconciler, Goto, TargetPCs
<1>1. CASE Dequeue(w) \/ DropCancelledJob(w) \/ LockDownload(w)
  BY <1>1 DEF Dequeue, DropCancelledJob, LockDownload
<1>2. CASE StartJob(w) \/ SweepRead(w) \/ SweepMark(w)
  BY <1>2 DEF StartJob, SweepRead, SweepMark
<1>3. CASE RunImport(w) \/ MarkImporting(w)
  BY <1>3 DEF RunImport, MarkImporting, Returned
<1>4. CASE EnterImport(w) \/ CompleteBoundImport(w)
  BY <1>4 DEF EnterImport, CompleteBoundImport, Returned
<1>5. CASE FailImport(w) \/ FinishJob(w) \/ ReleaseTicket(w)
  BY <1>5 DEF FailImport, FinishJob, ReleaseTicket, Returned
<1>6. QED
  BY <1>1, <1>2, <1>3, <1>4, <1>5

\* A step of the file loop: the importer stays inside and keeps the title,
\* or it leaves and gives the title back.
LEMMA FileKeepsTarget ==
    ASSUME TypeOK, NEW w \in Importers,
           \/ SealPlan(w)
           \/ \E s \in Sources : ReuseFile(w, s) \/ SkipFile(w, s) \/ PrepareFile(w, s) \/ StopFile(w, s)
           \/ FilesDone(w) \/ AuthorizeFile(w) \/ PublishFile(w) \/ CommitFile(w) \/ PublicationFails(w)
    PROVE  /\ recon' = recon
           /\ \A v \in Importers \ {w} : pc'[v] = pc[v]
           /\ pc[w] \in TargetPCs
           /\ \/ pc'[w] \in TargetPCs /\ target' = target
              \/ pc'[w] \notin TargetPCs /\ target' = "free"
<1>. USE DEF TypeOK, ProcessTypeOK, notImporters, locks, reconciler, Goto, TargetPCs
<1>1. \A l \in Stops(w, {"fail"}) \cup Stops(w, {"fail", "block"}) \cup {"complete", "fail", "block"} :
        LeaveImport(w, l) => /\ \A v \in Importers \ {w} : pc'[v] = pc[v]
                             /\ pc'[w] \notin TargetPCs
                             /\ target' = "free"
  BY DEF Stops, Returned, LeaveImport
<1>2. CASE SealPlan(w)
  BY <1>1, <1>2 DEF SealPlan
<1>3. ASSUME NEW s \in Sources, ReuseFile(w, s) \/ SkipFile(w, s) \/ PrepareFile(w, s) \/ StopFile(w, s)
      PROVE  /\ recon' = recon
             /\ \A v \in Importers \ {w} : pc'[v] = pc[v]
             /\ pc[w] \in TargetPCs
             /\ \/ pc'[w] \in TargetPCs /\ target' = target
                \/ pc'[w] \notin TargetPCs /\ target' = "free"
  BY <1>1, <1>3 DEF ReuseFile, SkipFile, PrepareFile, StopFile, NextFile
<1>4. CASE FilesDone(w)
  BY <1>1, <1>4 DEF FilesDone
<1>5. CASE AuthorizeFile(w)
  BY <1>1, <1>5 DEF AuthorizeFile
<1>6. CASE PublishFile(w) \/ CommitFile(w)
  BY <1>6 DEF PublishFile, CommitFile
<1>7. CASE PublicationFails(w)
  BY <1>1, <1>7 DEF PublicationFails
<1>8. QED
  BY <1>2, <1>3, <1>4, <1>5, <1>6, <1>7

LEMMA TargetInductive ==
    ASSUME TypeOK, TargetHeld, [Next]_vars
    PROVE  TargetHeld'
<1>. USE DEF TargetHeld
<1>1. CASE UNCHANGED <<importers, target, reconciler>>
  BY <1>1 DEF importers, reconciler
<1>2. ASSUME NEW w \in Importers, LockImportTarget(w)
      PROVE  TargetHeld'
  BY <1>2, ImportersAssumption DEF LockImportTarget, Goto, TypeOK, ProcessTypeOK, notImporters, reconciler
<1>3. ASSUME NEW w \in Importers,
             \/ Dequeue(w) \/ DropCancelledJob(w) \/ LockDownload(w) \/ StartJob(w)
             \/ SweepRead(w) \/ SweepMark(w) \/ RunImport(w) \/ MarkImporting(w)
             \/ EnterImport(w) \/ CompleteBoundImport(w) \/ FailImport(w) \/ FinishJob(w)
             \/ ReleaseTicket(w)
      PROVE  TargetHeld'
  BY <1>3, JobKeepsTarget
<1>4. ASSUME NEW w \in Importers,
             \/ SealPlan(w)
             \/ \E s \in Sources : ReuseFile(w, s) \/ SkipFile(w, s) \/ PrepareFile(w, s) \/ StopFile(w, s)
             \/ FilesDone(w) \/ AuthorizeFile(w) \/ PublishFile(w) \/ CommitFile(w) \/ PublicationFails(w)
      PROVE  TargetHeld'
  BY <1>4, FileKeepsTarget, ImportersAssumption
<1>5. CASE \/ ReviewImportCancellation
           \/ \E s \in Sources : LibraryAdopts(s)
           \/ ReconcileImportCancellations
  BY <1>1, <1>5 DEF ReviewImportCancellation, LibraryAdopts, ReconcileImportCancellations, volatile,
                    locks
<1>6. CASE ReconStep
  BY <1>6, ImportersAssumption
  DEF ReconStep, ReconBegin, ReconRow, ReconEnd, importers, locks, TypeOK, ProcessTypeOK
<1>7. CASE Crash
  BY <1>7 DEF Crash, Fresh, TargetPCs
<1>8. CASE UNCHANGED vars
  BY <1>1, <1>8 DEF vars, locks
<1>9. QED
  BY <1>1, <1>2, <1>3, <1>4, <1>5, <1>6, <1>7, <1>8, RequestKeepsTarget DEF Next, ImporterStep

-----------------------------------------------------------------------------
(* Custody of a publication.                                                *)

\* What every step outside the file loop, the review and the reconciliation
\* at start does to the placement tables: nothing, and while a publication
\* is pending it leaves the plan alone too.
Outside ==
    /\ UNCHANGED <<pub, plc, stage, disk, lib>>
    /\ PendingPublications => UNCHANGED <<epoch, file>>

LEMMA RequestOutside ==
    ASSUME TypeOK,
           \/ ObserveCompleted \/ RecordDownloaded
           \/ ImportNow \/ ImportNowFinalize \/ ImportNowRetry
           \/ \E d \in Dispatchers : DispatchStep(d)
           \/ CancelRead \/ CancelStep
    PROVE  Outside
<1>. USE DEF Outside, tables, EnsureImportAttempt, FinalizeImportCancellation
<1>1. CASE ObserveCompleted \/ RecordDownloaded \/ ImportNow \/ ImportNowFinalize
  BY <1>1 DEF ObserveCompleted, RecordDownloaded, ImportNow, ImportNowFinalize
<1>2. CASE ImportNowRetry
  BY <1>2 DEF ImportNowRetry, BeginImportRetry, BeginImportRetryAllowed
<1>3. CASE \E d \in Dispatchers : DispatchStep(d)
  BY <1>3 DEF DispatchStep, EnqueueEnsure, EnqueueRegister
<1>4. CASE CancelRead
  BY <1>4 DEF CancelRead
<1>5. CASE CancelStep
  BY <1>5 DEF CancelStep, CancelTryLock, CancelRequest, CancelSignal, CancelFinalize, CancelDrop,
              RequestImportCancellation
<1>6. QED
  BY <1>1, <1>2, <1>3, <1>4, <1>5

LEMMA JobOutside ==
    ASSUME TypeOK, NEW w \in Importers,
           \/ Dequeue(w) \/ DropCancelledJob(w) \/ LockDownload(w) \/ StartJob(w)
           \/ SweepRead(w) \/ SweepMark(w) \/ RunImport(w) \/ MarkImporting(w)
           \/ EnterImport(w) \/ LockImportTarget(w) \/ FilesDone(w)
           \/ CompleteBoundImport(w) \/ FailImport(w) \/ FinishJob(w) \/ ReleaseTicket(w)
    PROVE  /\ Outside
           /\ \A v \in Importers \ {w} : UNCHANGED <<pc[v], ep[v], src[v]>>
           /\ pc'[w] \notin {"publish", "commit"}
<1>. USE DEF Outside, tables, EnsureImportAttempt, FinalizeImportCancellation, Goto, TypeOK,
             ProcessTypeOK
<1>1. CASE Dequeue(w) \/ DropCancelledJob(w) \/ LockDownload(w)
  BY <1>1 DEF Dequeue, DropCancelledJob, LockDownload
<1>2. CASE StartJob(w) \/ SweepRead(w) \/ SweepMark(w)
  BY <1>2 DEF StartJob, SweepRead, SweepMark
<1>3. CASE RunImport(w) \/ MarkImporting(w)
  BY <1>3 DEF RunImport, MarkImporting, Returned
<1>4. CASE EnterImport(w) \/ LockImportTarget(w)
  BY <1>4 DEF EnterImport, LockImportTarget, Returned
<1>5. CASE FilesDone(w)
  BY <1>5 DEF FilesDone, LeaveImport
<1>6. CASE CompleteBoundImport(w)
  BY <1>6 DEF CompleteBoundImport, CompleteImportAttempt, Returned
<1>7. CASE FailImport(w) \/ FinishJob(w)
  BY <1>7 DEF FailImport, FinishJob, Returned
<1>8. CASE ReleaseTicket(w)
  BY <1>8 DEF ReleaseTicket
<1>9. QED
  BY <1>1, <1>2, <1>3, <1>4, <1>5, <1>6, <1>7, <1>8

\* A step that leaves the tables of a publication alone keeps its custody.
LEMMA CustodyFrame ==
    ASSUME TypeOK, Custody, Outside, NEW w \in Importers,
           UNCHANGED <<pc[w], ep[w], src[w]>>, pc[w] \in {"publish", "commit"}
    PROVE  /\ epoch' = ep'[w]
           /\ pub'[ep'[w]][src'[w]] = "pending"
           /\ plc'[ep'[w]][src'[w]] = "prepared"
           /\ file'[src'[w]] = "pending"
           /\ pc'[w] = "commit" \/ ~stage'[ep'[w]][src'[w]] => disk'[src'[w]] = ep'[w]
<1>1. PendingPublications
  BY DEF PendingPublications, Custody, TypeOK, ProcessTypeOK
<1>2. QED
  BY <1>1 DEF Custody, Outside

LEMMA OutsideKeepsCustody ==
    ASSUME TypeOK, Custody, Outside, UNCHANGED <<pc, ep, src>>
    PROVE  Custody'
<1>. SUFFICES ASSUME NEW w \in Importers, pc'[w] \in {"publish", "commit"}
              PROVE  /\ epoch' = ep'[w]
                     /\ pub'[ep'[w]][src'[w]] = "pending"
                     /\ plc'[ep'[w]][src'[w]] = "prepared"
                     /\ file'[src'[w]] = "pending"
                     /\ pc'[w] = "commit" \/ ~stage'[ep'[w]][src'[w]] => disk'[src'[w]] = ep'[w]
  BY DEF Custody
<1>. QED
  BY CustodyFrame

\* Inside the title's lock only the holder can be publishing.
LEMMA HolderAlone ==
    ASSUME TypeOK, TargetHeld, NEW w \in Importers, pc[w] \in TargetPCs
    PROVE  /\ \A v \in Importers \ {w} : pc[v] \notin TargetPCs
           /\ recon # "scan"
BY ImportersAssumption DEF TargetHeld

\* The file loop, step by step.
LEMMA FileKeepsCustody ==
    ASSUME TypeOK, TargetHeld, Custody, NEW w \in Importers,
           \/ SealPlan(w)
           \/ \E s \in Sources : ReuseFile(w, s) \/ SkipFile(w, s) \/ PrepareFile(w, s) \/ StopFile(w, s)
           \/ AuthorizeFile(w) \/ PublishFile(w) \/ CommitFile(w) \/ PublicationFails(w)
    PROVE  Custody'
<1>1. /\ \A v \in Importers \ {w} : pc'[v] \notin {"publish", "commit"}
      /\ pc[w] \in TargetPCs
  BY FileKeepsTarget, HolderAlone DEF TargetPCs
<1>2. CASE pc'[w] \notin {"publish", "commit"}
  BY <1>1, <1>2 DEF Custody
<1>3. CASE pc'[w] = "publish"
  <2>1. AuthorizeFile(w) /\ pc[w] = "authorize"
    BY <1>3 DEF SealPlan, ReuseFile, SkipFile, PrepareFile, StopFile, AuthorizeFile, PublishFile,
       CommitFile, PublicationFails, NextFile, LeaveImport, Stops, Returned, Goto, TypeOK, ProcessTypeOK
  <2>2. /\ AuthorizeImportPlacement(ep[w], src[w])
        /\ UNCHANGED <<ep, src>>
    BY <1>3, <2>1 DEF AuthorizeFile, LeaveImport, Stops, Returned, Goto, TypeOK, ProcessTypeOK
  <2>3. /\ epoch' = ep'[w]
        /\ pub'[ep'[w]][src'[w]] = "pending"
        /\ plc'[ep'[w]][src'[w]] = "prepared"
        /\ file'[src'[w]] = "pending"
        /\ ~stage'[ep'[w]][src'[w]] => disk'[src'[w]] = ep'[w]
    BY <2>2 DEF AuthorizeImportPlacement, AuthorizeImportPlacementAllowed, GuardImportAttempt, TypeOK,
       TablesTypeOK, ProcessTypeOK
  <2>. QED
    BY <1>1, <1>3, <2>3 DEF Custody
<1>4. CASE pc'[w] = "commit"
  <2>1. PublishFile(w)
    BY <1>4 DEF SealPlan, ReuseFile, SkipFile, PrepareFile, StopFile, AuthorizeFile, PublishFile,
       CommitFile, PublicationFails, NextFile, LeaveImport, Stops, Returned, Goto, TypeOK, ProcessTypeOK
  <2>2. /\ epoch' = ep'[w]
        /\ pub'[ep'[w]][src'[w]] = "pending"
        /\ plc'[ep'[w]][src'[w]] = "prepared"
        /\ file'[src'[w]] = "pending"
        /\ disk'[src'[w]] = ep'[w]
    BY <2>1 DEF PublishFile, RenameStage, Custody, TypeOK, TablesTypeOK, ProcessTypeOK, tables
  <2>. QED
    BY <1>1, <1>4, <2>2 DEF Custody
<1>5. QED
  BY <1>2, <1>3, <1>4

LEMMA CustodyInductive ==
    ASSUME TypeOK, TargetHeld, Custody, [Next]_vars
    PROVE  Custody'
<1>1. CASE \/ ObserveCompleted \/ RecordDownloaded
           \/ ImportNow \/ ImportNowFinalize \/ ImportNowRetry
           \/ \E d \in Dispatchers : DispatchStep(d)
           \/ CancelRead \/ CancelStep
  BY <1>1, RequestOutside, RequestKeepsTarget, OutsideKeepsCustody DEF importers
<1>2. ASSUME NEW w \in Importers,
           \/ Dequeue(w) \/ DropCancelledJob(w) \/ LockDownload(w) \/ StartJob(w)
           \/ SweepRead(w) \/ SweepMark(w) \/ RunImport(w) \/ MarkImporting(w)
           \/ EnterImport(w) \/ LockImportTarget(w) \/ FilesDone(w)
           \/ CompleteBoundImport(w) \/ FailImport(w) \/ FinishJob(w) \/ ReleaseTicket(w)
      PROVE  Custody'
  <2>1. /\ Outside
        /\ \A v \in Importers \ {w} : UNCHANGED <<pc[v], ep[v], src[v]>>
        /\ pc'[w] \notin {"publish", "commit"}
    BY <1>2, JobOutside
  <2>. SUFFICES ASSUME NEW v \in Importers, pc'[v] \in {"publish", "commit"}
                PROVE  /\ epoch' = ep'[v]
                       /\ pub'[ep'[v]][src'[v]] = "pending"
                       /\ plc'[ep'[v]][src'[v]] = "prepared"
                       /\ file'[src'[v]] = "pending"
                       /\ pc'[v] = "commit" \/ ~stage'[ep'[v]][src'[v]] => disk'[src'[v]] = ep'[v]
    BY DEF Custody
  <2>. QED
    BY <2>1, CustodyFrame
<1>3. ASSUME NEW w \in Importers,
           \/ SealPlan(w)
           \/ \E s \in Sources : ReuseFile(w, s) \/ SkipFile(w, s) \/ PrepareFile(w, s) \/ StopFile(w, s)
           \/ AuthorizeFile(w) \/ PublishFile(w) \/ CommitFile(w) \/ PublicationFails(w)
      PROVE  Custody'
  BY <1>3, FileKeepsCustody
<1>4. CASE ReviewImportCancellation \/ \E s \in Sources : LibraryAdopts(s)
  <2>1. target = "free" /\ UNCHANGED volatile
    BY <1>4 DEF ReviewImportCancellation, LibraryAdopts
  <2>2. \A w \in Importers : pc'[w] \notin {"publish", "commit"}
    BY <2>1, ImportersAssumption DEF TargetHeld, TargetPCs, volatile, importers
  <2>. QED
    BY <2>2 DEF Custody
<1>5. CASE ReconcileImportCancellations
  BY <1>5, OutsideKeepsCustody
  DEF ReconcileImportCancellations, FinalizeImportCancellation, Outside, volatile, importers
<1>6. CASE ReconStep
  <2>1. CASE ReconBegin \/ ReconEnd
    BY <2>1, OutsideKeepsCustody DEF ReconBegin, ReconEnd, Outside, tables, importers
  <2>2. ASSUME NEW x \in Epochs \X Sources, ReconRow(x)
        PROVE  Custody'
    BY <2>2, ImportersAssumption DEF ReconRow, Custody, TargetHeld, TargetPCs, importers
  <2>. QED
    BY <1>6, <2>1, <2>2 DEF ReconStep
<1>7. CASE Crash
  BY <1>7 DEF Crash, Fresh, Custody
<1>8. CASE UNCHANGED vars
  BY <1>8, OutsideKeepsCustody DEF vars, Outside, tables, importers
<1>9. QED
  BY <1>1, <1>2, <1>3, <1>4, <1>5, <1>6, <1>7, <1>8 DEF Next, ImporterStep

LEMMA CustodyInvariant == Spec => [](TypeOK /\ TargetHeld /\ Custody)
<1>1. Init => TargetHeld /\ Custody
  BY DEF Init, TargetHeld, Custody, TargetPCs
<1>2. QED
  BY <1>1, TargetInductive, CustodyInductive, TypeCorrect, PTL DEF Spec

-----------------------------------------------------------------------------
(* The transactions again, with what custody adds to their guards.          *)

GuardedPlacement ==
    \E k \in Epochs, s \in Sources :
        \/ \E p \in Epochs : disk[s] = p /\ SatisfyImportFile(k, s, p)
        \/ plc[k][s] \in {"none", "prepared"} /\ \E b \in BOOLEAN : StagePlacement(k, s, b)
        \/ AuthorizeImportPlacement(k, s)
        \/ epoch = k /\ pub[k][s] = "pending" /\ file[s] = "pending" /\ RenameStage(k, s)
        \/ plc[k][s] = "prepared" /\ disk[s] = k /\ CommitPlacement(k, s)

\* The rest leaves disk, journal commits and publications' bytes alone.
PlanTransaction ==
    \/ \E k \in Epochs, plan \in SUBSET Sources : SealImportAttempt(k, plan)
    \/ \E k \in Epochs, s \in Sources :
          \/ ResolveSkipped(k, s)
          \/ \E d \in {"adopted", "disposed"} : ResolveRetained(k, s, d)
          \/ DisposeStage(k, s)

Guarded == RowWrite \/ LibraryWrite \/ AttemptTransaction \/ PlanTransaction \/ GuardedPlacement

LEMMA NextIsGuarded ==
    ASSUME TypeOK, TargetHeld, Custody, [Next]_vars
    PROVE  Guarded \/ UNCHANGED tables
<1>. USE DEF Guarded
<1>1. CASE \/ ObserveCompleted \/ RecordDownloaded
           \/ ImportNow \/ ImportNowFinalize \/ ImportNowRetry
           \/ \E d \in Dispatchers : DispatchStep(d)
           \/ CancelRead \/ CancelStep
  BY <1>1, RequestStepIsTransaction
<1>2. ASSUME NEW w \in Importers,
           \/ Dequeue(w) \/ DropCancelledJob(w) \/ LockDownload(w) \/ StartJob(w)
           \/ SweepRead(w) \/ SweepMark(w) \/ RunImport(w) \/ MarkImporting(w)
           \/ EnterImport(w) \/ LockImportTarget(w) \/ FilesDone(w)
           \/ CompleteBoundImport(w) \/ FailImport(w) \/ FinishJob(w) \/ ReleaseTicket(w)
      PROVE  Guarded \/ UNCHANGED tables
  BY <1>2, JobStepIsTransaction
<1>3. ASSUME NEW w \in Importers,
           \/ SealPlan(w)
           \/ \E s \in Sources : ReuseFile(w, s) \/ SkipFile(w, s) \/ PrepareFile(w, s) \/ StopFile(w, s)
           \/ AuthorizeFile(w) \/ PublishFile(w) \/ CommitFile(w) \/ PublicationFails(w)
      PROVE  Guarded \/ UNCHANGED tables
  <2>. ep[w] \in Epochs /\ src[w] \in Sources
    BY DEF TypeOK, ProcessTypeOK
  <2>1. CASE SealPlan(w)
    BY <2>1 DEF SealPlan, PlanTransaction
  <2>2. ASSUME NEW s \in Sources, ReuseFile(w, s)
        PROVE  Guarded \/ UNCHANGED tables
    BY <2>2 DEF ReuseFile, Reusable, GuardedPlacement
  <2>3. ASSUME NEW s \in Sources, SkipFile(w, s)
        PROVE  Guarded \/ UNCHANGED tables
    BY <2>3 DEF SkipFile, PlanTransaction
  <2>4. ASSUME NEW s \in Sources, PrepareFile(w, s)
        PROVE  Guarded \/ UNCHANGED tables
    BY <2>4 DEF PrepareFile, GuardedPlacement
  <2>5. ASSUME NEW s \in Sources, StopFile(w, s)
        PROVE  Guarded \/ UNCHANGED tables
    BY <2>5 DEF StopFile, GuardedPlacement
  <2>6. CASE AuthorizeFile(w) \/ PublicationFails(w)
    BY <2>6 DEF AuthorizeFile, PublicationFails, GuardedPlacement
  <2>7. CASE PublishFile(w)
    BY <2>7 DEF PublishFile, Custody, GuardedPlacement
  <2>8. CASE CommitFile(w)
    BY <2>8 DEF CommitFile, Custody, GuardedPlacement
  <2>. QED
    BY <1>3, <2>1, <2>2, <2>3, <2>4, <2>5, <2>6, <2>7, <2>8
<1>4. CASE ReviewImportCancellation
  BY <1>4 DEF ReviewImportCancellation, AttemptTransaction, PlanTransaction
<1>5. CASE \E s \in Sources : LibraryAdopts(s)
  BY <1>5 DEF LibraryAdopts, LibraryWrite
<1>6. CASE ReconcileImportCancellations
  BY <1>6 DEF ReconcileImportCancellations, AttemptTransaction, TypeOK, TablesTypeOK
<1>7. CASE ReconStep
  <2>1. ASSUME NEW x \in Epochs \X Sources, ReconRow(x)
        PROVE  Guarded \/ UNCHANGED tables
    BY <2>1 DEF ReconRow, GuardedPlacement
  <2>. QED
    BY <1>7, <2>1 DEF ReconStep, ReconBegin, ReconEnd
<1>8. CASE Crash \/ UNCHANGED vars
  BY <1>8 DEF Crash, vars
<1>9. QED
  BY <1>1, <1>2, <1>3, <1>4, <1>5, <1>6, <1>7, <1>8 DEF Next, ImporterStep

-----------------------------------------------------------------------------
(* Disk and library.                                                        *)

LEMMA AttemptKeepsDisk ==
    ASSUME TablesTypeOK, AttemptTransaction
    PROVE  /\ UNCHANGED <<plc, disk, lib>>
           /\ \A s \in Sources : file'[s] = "committed" => file[s] = "committed"
           /\ \A e \in Epochs, s \in Sources :
                 \/ pub'[e][s] = pub[e][s]
                 \/ pub'[e][s] = "retained"
<1>. USE DEF TablesTypeOK
<1>1. CASE RetainUncertainImport
  BY <1>1 DEF RetainUncertainImport
<1>2. CASE BeginImportRetry
  BY <1>2 DEF BeginImportRetry
<1>3. CASE EnsureImportAttempt
  BY <1>3 DEF EnsureImportAttempt
<1>4. ASSUME NEW k \in Epochs,
             CompleteImportAttempt(k) \/ RequestImportCancellation(k) \/ FinalizeImportCancellation(k)
      PROVE  UNCHANGED <<plc, disk, lib, file, pub>>
  BY <1>4 DEF CompleteImportAttempt, RequestImportCancellation, FinalizeImportCancellation
<1>5. QED
  BY <1>1, <1>2, <1>3, <1>4 DEF AttemptTransaction

LEMMA PlanKeepsDisk ==
    ASSUME TablesTypeOK, PlanTransaction
    PROVE  /\ UNCHANGED <<disk, lib>>
           /\ \A s \in Sources : file'[s] = "committed" => file[s] = "committed"
           /\ \A e \in Epochs, s \in Sources :
                 /\ plc[e][s] = "committed" => plc'[e][s] = "committed"
                 /\ pub'[e][s] = pub[e][s] \/ pub'[e][s] \in {"adopted", "disposed"}
<1>. USE DEF TablesTypeOK
<1>1. ASSUME NEW k \in Epochs, NEW plan \in SUBSET Sources, SealImportAttempt(k, plan)
      PROVE  /\ UNCHANGED <<disk, lib, plc, pub>>
             /\ \A s \in Sources : file'[s] = "committed" => file[s] = "committed"
  BY <1>1 DEF SealImportAttempt
<1>2. ASSUME NEW k \in Epochs, NEW s \in Sources, ResolveSkipped(k, s)
      PROVE  /\ UNCHANGED <<disk, lib, plc, pub>>
             /\ \A x \in Sources : file'[x] = "committed" => file[x] = "committed"
  BY <1>2 DEF ResolveSkipped
<1>3. ASSUME NEW k \in Epochs, NEW s \in Sources, NEW d \in {"adopted", "disposed"},
             ResolveRetained(k, s, d)
      PROVE  /\ UNCHANGED <<disk, lib, file>>
             /\ \A e \in Epochs, x \in Sources :
                  /\ plc[e][x] = "committed" => plc'[e][x] = "committed"
                  /\ pub'[e][x] = pub[e][x] \/ pub'[e][x] \in {"adopted", "disposed"}
  BY <1>3 DEF ResolveRetained
<1>4. ASSUME NEW k \in Epochs, NEW s \in Sources, DisposeStage(k, s)
      PROVE  /\ UNCHANGED <<disk, lib, file, pub>>
             /\ \A e \in Epochs, x \in Sources : plc[e][x] = "committed" => plc'[e][x] = "committed"
  BY <1>4 DEF DisposeStage
<1>5. QED
  BY <1>1, <1>2, <1>3, <1>4 DEF PlanTransaction

\* The bytes at a library path and the row that names them agree.
LEMMA MatchInductive ==
    ASSUME TypeOK, TargetHeld, Custody, LibraryMatchesDisk, [Next]_vars
    PROVE  LibraryMatchesDisk'
<1>. USE DEF LibraryMatchesDisk, TypeOK, TablesTypeOK, NoFile, Epochs
<1>1. CASE UNCHANGED tables \/ RowWrite
  BY <1>1 DEF tables, RowWrite
<1>2. CASE LibraryWrite
  BY <1>2 DEF LibraryWrite
<1>3. CASE AttemptTransaction
  BY <1>3, AttemptKeepsDisk
<1>4. CASE PlanTransaction
  <2>. SUFFICES ASSUME NEW s \in Sources, disk'[s] # NoFile
                PROVE  /\ pub'[disk'[s]][s] # "none"
                       /\ pub'[disk'[s]][s] = "committed" => lib'[s] = disk'[s]
    OBVIOUS
  <2>1. disk' = disk /\ lib' = lib /\ disk[s] \in Epochs
    BY <1>4, PlanKeepsDisk
  <2>2. \/ pub'[disk[s]][s] = pub[disk[s]][s]
        \/ pub'[disk[s]][s] \in {"adopted", "disposed"}
    BY <1>4, <2>1, PlanKeepsDisk
  <2>. QED
    BY <2>1, <2>2
<1>5. CASE GuardedPlacement
  <2>. PICK k \in Epochs, s \in Sources :
        \/ \E p \in Epochs : disk[s] = p /\ SatisfyImportFile(k, s, p)
        \/ plc[k][s] \in {"none", "prepared"} /\ \E b \in BOOLEAN : StagePlacement(k, s, b)
        \/ AuthorizeImportPlacement(k, s)
        \/ epoch = k /\ pub[k][s] = "pending" /\ file[s] = "pending" /\ RenameStage(k, s)
        \/ plc[k][s] = "prepared" /\ disk[s] = k /\ CommitPlacement(k, s)
    BY <1>5 DEF GuardedPlacement
  <2>1. CASE \E p \in Epochs : disk[s] = p /\ SatisfyImportFile(k, s, p)
    BY <2>1 DEF SatisfyImportFile
  <2>2. CASE \E b \in BOOLEAN : StagePlacement(k, s, b)
    BY <2>2 DEF StagePlacement
  <2>3. CASE AuthorizeImportPlacement(k, s)
    BY <2>3 DEF AuthorizeImportPlacement
  <2>4. CASE pub[k][s] = "pending" /\ RenameStage(k, s)
    BY <2>4 DEF RenameStage
  <2>5. CASE plc[k][s] = "prepared" /\ disk[s] = k /\ CommitPlacement(k, s)
    BY <2>5 DEF CommitPlacement
  <2>. QED
    BY <2>1, <2>2, <2>3, <2>4, <2>5
<1>6. QED
  BY <1>1, <1>2, <1>3, <1>4, <1>5, NextIsGuarded DEF Guarded

\* However crashes, cancellations, retries and the restart's reconciliation
\* fall between the rename and CommitPlacement, bytes whose publication is
\* committed are the bytes the library names, and no bytes appear without an
\* authorization.
THEOREM LibraryAndDiskAgree == Spec => []LibraryMatchesDisk
<1>1. Init => LibraryMatchesDisk
  BY DEF Init, TablesInit, LibraryMatchesDisk
<1>2. QED
  BY <1>1, MatchInductive, CustodyInvariant, PTL DEF Spec

LEMMA CommittedInductive ==
    ASSUME TypeOK, TargetHeld, Custody, CommittedFileInLibrary, [Next]_vars
    PROVE  CommittedFileInLibrary'
<1>. USE DEF CommittedFileInLibrary, TypeOK, TablesTypeOK, NoFile, Epochs
<1>1. CASE UNCHANGED tables \/ RowWrite
  BY <1>1 DEF tables, RowWrite
<1>2. CASE LibraryWrite
  BY <1>2 DEF LibraryWrite
<1>3. CASE AttemptTransaction
  BY <1>3, AttemptKeepsDisk
<1>4. CASE PlanTransaction
  <2>. SUFFICES ASSUME NEW s \in Sources, file'[s] = "committed"
                PROVE  lib'[s] # NoFile /\ lib'[s] = disk'[s] /\ plc'[lib'[s]][s] = "committed"
    OBVIOUS
  <2>1. /\ file[s] = "committed" /\ disk' = disk /\ lib' = lib
        /\ \A e \in Epochs : plc[e][s] = "committed" => plc'[e][s] = "committed"
    BY <1>4, PlanKeepsDisk
  <2>. QED
    BY <2>1
<1>5. CASE GuardedPlacement
  <2>. PICK k \in Epochs, s \in Sources :
        \/ \E p \in Epochs : disk[s] = p /\ SatisfyImportFile(k, s, p)
        \/ plc[k][s] \in {"none", "prepared"} /\ \E b \in BOOLEAN : StagePlacement(k, s, b)
        \/ AuthorizeImportPlacement(k, s)
        \/ epoch = k /\ pub[k][s] = "pending" /\ file[s] = "pending" /\ RenameStage(k, s)
        \/ plc[k][s] = "prepared" /\ disk[s] = k /\ CommitPlacement(k, s)
    BY <1>5 DEF GuardedPlacement
  <2>1. CASE \E p \in Epochs : disk[s] = p /\ SatisfyImportFile(k, s, p)
    BY <2>1 DEF SatisfyImportFile, SatisfyImportFileAllowed
  <2>2. CASE plc[k][s] \in {"none", "prepared"} /\ \E b \in BOOLEAN : StagePlacement(k, s, b)
    BY <2>2 DEF StagePlacement
  <2>3. CASE AuthorizeImportPlacement(k, s)
    BY <2>3 DEF AuthorizeImportPlacement, AuthorizeImportPlacementAllowed
  <2>4. CASE file[s] = "pending" /\ RenameStage(k, s)
    BY <2>4 DEF RenameStage
  <2>5. CASE plc[k][s] = "prepared" /\ disk[s] = k /\ CommitPlacement(k, s)
    BY <2>5 DEF CommitPlacement
  <2>. QED
    BY <2>1, <2>2, <2>3, <2>4, <2>5
<1>6. QED
  BY <1>1, <1>2, <1>3, <1>4, <1>5, NextIsGuarded DEF Guarded

\* A plan entry that reads committed has its file: on disk, in the library
\* and in the journal, whoever recorded it and whatever was interrupted.
THEOREM CommittedIsThere == Spec => []CommittedFileInLibrary
<1>1. Init => CommittedFileInLibrary
  BY DEF Init, TablesInit, CommittedFileInLibrary
<1>2. QED
  BY <1>1, CommittedInductive, CustodyInvariant, PTL DEF Spec

\* No worker publishes for an attempt that is already decided or superseded:
\* what the authorization saw still holds when the rename happens.
THEOREM PublicationsAreLive == Spec => NoPublicationAfterFinal
<1>. DEFINE Live ==
       \A s \in Sources : disk'[s] # disk[s] =>
          /\ disk'[s] = epoch
          /\ outcome \in {"open", "pending"}
          /\ pub'[epoch][s] = "pending"
<1>1. ASSUME TypeOK, TargetHeld, Custody, PendingBelongsToLiveAttempt, [Next]_vars
      PROVE  [Live]_vars
  <2>. USE DEF TypeOK, TablesTypeOK
  <2>1. CASE UNCHANGED disk
    BY <2>1
  <2>2. ASSUME NEW k \in Epochs, NEW s \in Sources, AuthorizeImportPlacement(k, s)
        PROVE  Live
    BY <1>1, <2>2 DEF AuthorizeImportPlacement, AuthorizeImportPlacementAllowed, GuardImportAttempt
  <2>3. ASSUME NEW k \in Epochs, NEW s \in Sources,
               epoch = k, pub[k][s] = "pending", RenameStage(k, s)
        PROVE  Live
    BY <1>1, <2>3 DEF RenameStage, PendingBelongsToLiveAttempt
  <2>4. CASE GuardedPlacement
    BY <2>1, <2>2, <2>3, <2>4
    DEF GuardedPlacement, SatisfyImportFile, StagePlacement, CommitPlacement
  <2>5. QED
    BY <1>1, <2>1, <2>4, NextIsGuarded, AttemptKeepsDisk, PlanKeepsDisk
    DEF Guarded, RowWrite, LibraryWrite, tables
<1>2. QED
  BY <1>1, CustodyInvariant, PendingIsLive, PTL DEF Spec, NoPublicationAfterFinal

-----------------------------------------------------------------------------
(* A completed import is whole.                                             *)

\* What the transactions keep true of the control row, the plan and the
\* download row.
PlanShape ==
    /\ outcome = "absent" => ~sealed
    /\ \A s \in Sources : file[s] # "absent" => sealed
    /\ row = "imported" => outcome \in {"absent", "completed"}

\* No process is bound to an epoch that has not begun.
EpochsBegun ==
    /\ \A w \in Importers : ep[w] <= epoch
    /\ \A t \in Tickets : ticket[t].epoch <= epoch
    /\ \A d \in Dispatchers : dkey[d] <= epoch

\* The flag `any` of the file loop speaks for the plan of its own epoch.
AnyMeansCommitted ==
    \A w \in Importers :
        /\ any[w] => pc[w] \in {"file", "authorize", "publish", "commit"}
        /\ (any[w] \/ pc[w] = "complete") /\ epoch = ep[w] =>
              \E s \in Sources : file[s] = "committed"

Whole == PlanShape /\ EpochsBegun /\ AnyMeansCommitted /\ CompletedImportIsWhole

LEMMA ShapeInductive ==
    ASSUME TypeOK, PlanShape, [Next]_vars
    PROVE  PlanShape'
<1>. USE DEF TypeOK, TablesTypeOK, PlanShape
<1>1. CASE UNCHANGED tables \/ RowWrite \/ LibraryWrite
  BY <1>1 DEF tables, RowWrite, LibraryWrite
<1>2. CASE AttemptTransaction
  BY <1>2 DEF AttemptTransaction, EnsureImportAttempt, EnsuredOutcome, BeginImportRetry,
     RetainUncertainImport, CompleteImportAttempt, CompleteImportAttemptAllowed, CompleteAttempt,
     RequestImportCancellation, FinalizeImportCancellation, FinalizeImportCancellationAllowed,
     GuardImportAttempt
<1>3. CASE FileTransaction
  <2>1. ASSUME NEW k \in Epochs, NEW plan \in SUBSET Sources, SealImportAttempt(k, plan)
        PROVE  PlanShape'
    BY <2>1 DEF SealImportAttempt, SealImportAttemptAllowed, GuardImportAttempt
  <2>2. ASSUME NEW k \in Epochs, NEW s \in Sources, NEW p \in Epochs,
               ResolveSkipped(k, s) \/ SatisfyImportFile(k, s, p) \/ CommitPlacement(k, s)
        PROVE  PlanShape'
    BY <2>2 DEF ResolveSkipped, ResolveSkippedAllowed, SatisfyImportFile, SatisfyImportFileAllowed,
       CommitPlacement, CommitPlacementAllowed, ResolvesTo
  <2>3. CASE UNCHANGED <<outcome, sealed, file, row>>
    BY <2>3
  <2>. QED
    BY <1>3, <2>1, <2>2, <2>3, MaxEpochAssumption
    DEF FileTransaction, StagePlacement, AuthorizeImportPlacement, RenameStage, ResolveRetained,
        DisposeStage
<1>4. QED
  BY <1>1, <1>2, <1>3, NextIsTransaction DEF Transaction

\* Once a file of an attempt is committed it stays so until the next epoch.
LEMMA CommittedStays ==
    ASSUME TypeOK, PlanShape, [Next]_vars, epoch' = epoch,
           NEW s \in Sources, file[s] = "committed"
    PROVE  file'[s] = "committed"
<1>. USE DEF TypeOK, TablesTypeOK, PlanShape
<1>1. CASE UNCHANGED tables \/ RowWrite \/ LibraryWrite
  BY <1>1 DEF tables, RowWrite, LibraryWrite
<1>2. CASE AttemptTransaction
  BY <1>2 DEF AttemptTransaction, EnsureImportAttempt, BeginImportRetry, Epochs,
     RetainUncertainImport, CompleteImportAttempt, RequestImportCancellation,
     FinalizeImportCancellation
<1>3. CASE FileTransaction
  BY <1>3
  DEF FileTransaction, SealImportAttempt, ResolveSkipped, ResolveSkippedAllowed, SatisfyImportFile,
      ResolvesTo, CommitPlacement, StagePlacement, AuthorizeImportPlacement, RenameStage,
      ResolveRetained, DisposeStage
<1>4. QED
  BY <1>1, <1>2, <1>3, NextIsTransaction DEF Transaction

LEMMA EpochGrows ==
    ASSUME TypeOK, [Next]_vars
    PROVE  epoch' = epoch \/ epoch' = epoch + 1
<1>1. CASE UNCHANGED tables \/ RowWrite \/ LibraryWrite
  BY <1>1 DEF tables, RowWrite, LibraryWrite
<1>2. CASE AttemptTransaction
  BY <1>2 DEF AttemptTransaction, EnsureImportAttempt, BeginImportRetry, RetainUncertainImport,
     CompleteImportAttempt, RequestImportCancellation, FinalizeImportCancellation
<1>3. CASE FileTransaction
  BY <1>3
  DEF FileTransaction, SealImportAttempt, ResolveSkipped, SatisfyImportFile, CommitPlacement,
      StagePlacement, AuthorizeImportPlacement, RenameStage, ResolveRetained, DisposeStage
<1>4. QED
  BY <1>1, <1>2, <1>3, NextIsTransaction DEF Transaction

LEMMA BegunInductive ==
    ASSUME TypeOK, EpochsBegun, [Next]_vars
    PROVE  EpochsBegun'
<1>. epoch \in Nat /\ epoch <= epoch'
  BY EpochGrows, MaxEpochAssumption DEF TypeOK, TablesTypeOK, Epochs
<1>. ep \in [Importers -> Nat] /\ dkey \in [Dispatchers -> Nat] /\ \A t \in Tickets : ticket[t].epoch \in Nat
  BY DEF TypeOK, ProcessTypeOK, Epochs
<1>. epoch' \in Nat
  BY EpochGrows
<1>. USE DEF EpochsBegun
<1>1. CASE UNCHANGED <<ep, ticket, dkey>>
  BY <1>1
<1>2. CASE ImportNow
  BY <1>2 DEF ImportNow, importers, TypeOK, ProcessTypeOK
<1>3. ASSUME NEW d \in Dispatchers, DispatchReturns(d) \/ dkey' = dkey
      PROVE  \A x \in Dispatchers : dkey'[x] <= epoch'
  BY <1>3 DEF DispatchReturns
<1>12. CASE ImportNowRetry
  BY <1>3, <1>12 DEF ImportNowRetry, importers, Dispatchers
<1>4. ASSUME NEW d \in Dispatchers, EnqueueEnsure(d)
      PROVE  EpochsBegun'
  <2>1. \A x \in Dispatchers : dkey'[x] <= epoch'
    BY <1>3, <1>4 DEF EnqueueEnsure
  <2>. QED
    BY <1>4, <2>1 DEF EnqueueEnsure, importers
<1>5. ASSUME NEW d \in Dispatchers, EnqueueRegister(d)
      PROVE  EpochsBegun'
  <2>1. \A t \in Tickets : ticket'[t].epoch <= epoch
    <3>1. CASE ticket' = ticket
      BY <3>1
    <3>2. ASSUME NEW u \in Tickets,
                 ticket' = [ticket EXCEPT ![u] = [epoch |-> dkey[d], cancelled |-> FALSE]],
                 NEW t \in Tickets
          PROVE  ticket'[t].epoch <= epoch
      <4>1. ticket'[t] = IF t = u THEN [epoch |-> dkey[d], cancelled |-> FALSE] ELSE ticket[t]
        BY <3>2 DEF TypeOK, ProcessTypeOK
      <4>2. [epoch |-> dkey[d], cancelled |-> FALSE].epoch = dkey[d]
        OBVIOUS
      <4>. QED
        BY <4>1, <4>2
    <3>. QED
      BY <1>5, <3>1, <3>2 DEF EnqueueRegister
  <2>2. \A x \in Dispatchers : dkey'[x] <= epoch
    BY <1>5 DEF EnqueueRegister, DispatchReturns, TypeOK, ProcessTypeOK
  <2>. QED
    BY <1>5, <2>1, <2>2 DEF EnqueueRegister, tables, importers
<1>6. CASE CancelSignal \/ CancelDrop
  <2>1. \A t \in Tickets : CancelledTickets(ckey)[t].epoch = ticket[t].epoch
    BY DEF CancelledTickets, TypeOK, ProcessTypeOK
  <2>. QED
    BY <1>6, <2>1 DEF CancelSignal, CancelDrop, notCancel, importers, dispatch, tables
<1>7. ASSUME NEW w \in Importers, Dequeue(w)
      PROVE  EpochsBegun'
  <2>1. Head(chan) \in Tickets
    BY <1>7 DEF Dequeue, TypeOK, ProcessTypeOK
  <2>. QED
    BY <1>7, <2>1 DEF Dequeue, TypeOK, ProcessTypeOK, tables, notImporters, dispatch
<1>8. ASSUME NEW w \in Importers, RunImport(w)
      PROVE  EpochsBegun'
  BY <1>8 DEF RunImport, EnsureImportAttempt, TypeOK, ProcessTypeOK, notImporters, dispatch
<1>9. ASSUME NEW w \in Importers, ReleaseTicket(w)
      PROVE  EpochsBegun'
  BY <1>9 DEF ReleaseTicket, NoContext, TypeOK, ProcessTypeOK, tables, notImporters, dispatch
<1>10. CASE Crash
  BY <1>10 DEF Crash, Fresh, NoContext
<1>11. CASE \/ ObserveCompleted \/ RecordDownloaded \/ ImportNowFinalize
            \/ CancelRead \/ CancelTryLock \/ CancelRequest \/ CancelFinalize
            \/ ReviewImportCancellation \/ ReconcileImportCancellations \/ ReconStep
            \/ \E s \in Sources : LibraryAdopts(s)
  BY <1>1, <1>11
  DEF ObserveCompleted, RecordDownloaded, ImportNowFinalize, CancelRead, CancelTryLock, CancelRequest,
      CancelFinalize, ReviewImportCancellation, ReconcileImportCancellations, ReconStep, ReconBegin,
      ReconRow, ReconEnd, LibraryAdopts, volatile, notCancel, importers, dispatch
<1>13. ASSUME NEW w \in Importers, ImporterStep(w) \/ SweepRead(w),
              ~Dequeue(w), ~RunImport(w), ~ReleaseTicket(w)
       PROVE  EpochsBegun'
  BY <1>1, <1>13
  DEF ImporterStep, SweepRead, DropCancelledJob, LockDownload, StartJob, SweepMark, MarkImporting,
      EnterImport, LockImportTarget, SealPlan, ReuseFile, SkipFile, PrepareFile, StopFile, FilesDone,
      AuthorizeFile, PublishFile, CommitFile, PublicationFails, CompleteBoundImport, FailImport,
      FinishJob, notImporters, dispatch
<1>14. CASE UNCHANGED vars
  BY <1>1, <1>14 DEF vars, importers, dispatch
<1>15. QED
  BY <1>2, <1>12, <1>4, <1>5, <1>6, <1>7, <1>8, <1>9, <1>10, <1>11, <1>13, <1>14
  DEF Next, DispatchStep, CancelStep

\* An importer that claims no more than it did keeps its claim.
LEMMA ClaimFrame ==
    ASSUME TypeOK, PlanShape, EpochsBegun, AnyMeansCommitted, [Next]_vars, NEW w \in Importers,
           ep'[w] = ep[w], any[w] \/ pc[w] = "complete", epoch' = ep'[w]
    PROVE  \E s \in Sources : file'[s] = "committed"
<1>1. epoch' = epoch
  <2>1. epoch \in Int /\ ep[w] <= epoch
    BY MaxEpochAssumption DEF EpochsBegun, TypeOK, TablesTypeOK, Epochs
  <2>2. epoch' = epoch \/ epoch' = epoch + 1
    BY EpochGrows
  <2>3. ep[w] \in Int
    BY MaxEpochAssumption DEF TypeOK, ProcessTypeOK, Epochs
  <2>. QED
    BY <2>1, <2>2, <2>3
<1>2. PICK s \in Sources : file[s] = "committed"
  BY <1>1 DEF AnyMeansCommitted
<1>3. QED
  BY <1>1, <1>2, CommittedStays

LEMMA ClaimInductive ==
    ASSUME TypeOK, PlanShape, EpochsBegun, AnyMeansCommitted, [Next]_vars
    PROVE  AnyMeansCommitted'
<1>. DEFINE Claim(w) == any[w] \/ pc[w] = "complete"
            Inside(w) == pc[w] \in {"file", "authorize", "publish", "commit"}
            Kept(w) == /\ any'[w] => Inside(w)'
                       /\ Claim(w)' /\ epoch' = ep'[w] => \E s \in Sources : file'[s] = "committed"
<1>. SUFFICES ASSUME NEW v \in Importers PROVE Kept(v)
  BY DEF AnyMeansCommitted
<1>1. ASSUME any'[v] => Inside(v)', Claim(v)' => Claim(v) /\ ep'[v] = ep[v]
      PROVE  Kept(v)
  BY <1>1, ClaimFrame
<1>2. CASE UNCHANGED <<pc[v], any[v], ep[v]>>
  BY <1>1, <1>2 DEF AnyMeansCommitted
<1>3. CASE UNCHANGED <<pc, any, ep>>
  BY <1>2, <1>3
<1>4. ASSUME NEW w \in Importers, ImporterStep(w) \/ SweepRead(w), v # w
      PROVE  UNCHANGED <<pc[v], any[v], ep[v]>>
  <2>. USE DEF TypeOK, ProcessTypeOK, Goto
  <2>1. CASE \/ Dequeue(w) \/ DropCancelledJob(w) \/ LockDownload(w) \/ StartJob(w) \/ SweepRead(w)
             \/ SweepMark(w) \/ RunImport(w) \/ MarkImporting(w) \/ EnterImport(w)
             \/ LockImportTarget(w)
    BY <1>4, <2>1 DEF Dequeue, DropCancelledJob, LockDownload, StartJob, SweepRead, SweepMark,
       RunImport, MarkImporting, EnterImport, LockImportTarget
  <2>2. CASE SealPlan(w) \/ FilesDone(w) \/ AuthorizeFile(w)
    BY <1>4, <2>2 DEF SealPlan, FilesDone, AuthorizeFile, LeaveImport
  <2>3. ASSUME NEW s \in Sources, ReuseFile(w, s) \/ SkipFile(w, s) \/ PrepareFile(w, s) \/ StopFile(w, s)
        PROVE  UNCHANGED <<pc[v], any[v], ep[v]>>
    BY <1>4, <2>3 DEF ReuseFile, SkipFile, PrepareFile, StopFile, LeaveImport
  <2>4. CASE PublishFile(w) \/ CommitFile(w) \/ PublicationFails(w)
    BY <1>4, <2>4 DEF PublishFile, CommitFile, PublicationFails, LeaveImport
  <2>5. CASE CompleteBoundImport(w) \/ FailImport(w) \/ FinishJob(w) \/ ReleaseTicket(w)
    BY <1>4, <2>5 DEF CompleteBoundImport, FailImport, FinishJob, ReleaseTicket
  <2>. QED
    BY <1>4, <2>1, <2>2, <2>3, <2>4, <2>5 DEF ImporterStep
<1>5. CASE ImporterStep(v) \/ SweepRead(v)
  <2>. USE DEF TypeOK, ProcessTypeOK, Goto
  <2>1. CASE \/ Dequeue(v) \/ DropCancelledJob(v) \/ LockDownload(v) \/ StartJob(v) \/ SweepRead(v)
             \/ SweepMark(v) \/ RunImport(v) \/ MarkImporting(v) \/ EnterImport(v)
             \/ LockImportTarget(v)
    <3>1. ~any[v] /\ any' = any /\ pc'[v] # "complete"
      BY <2>1 DEF Dequeue, DropCancelledJob, LockDownload, StartJob, SweepRead, SweepMark,
         RunImport, MarkImporting, EnterImport, LockImportTarget, Returned, AnyMeansCommitted
    <3>. QED
      BY <3>1
  <2>2. CASE CompleteBoundImport(v) \/ FailImport(v) \/ FinishJob(v) \/ ReleaseTicket(v)
    <3>1. ~any[v] /\ any' = any /\ pc'[v] # "complete"
      BY <2>2 DEF CompleteBoundImport, FailImport, FinishJob, ReleaseTicket, Returned, AnyMeansCommitted
    <3>. QED
      BY <3>1
  <2>3. ASSUME NEW l, l # "complete", LeaveImport(v, l)
        PROVE  Kept(v)
    BY <2>3 DEF LeaveImport
  <2>4. \A l \in Stops(v, {"fail"}) \cup Stops(v, {"fail", "block"}) \cup {"fail", "block"} : l # "complete"
    BY DEF Stops, Returned
  <2>5. CASE SealPlan(v)
    <3>1. CASE any' = [any EXCEPT ![v] = FALSE] /\ Goto(v, "file")
      BY <3>1
    <3>. QED
      BY <2>3, <2>4, <2>5, <3>1 DEF SealPlan
  <2>6. ASSUME NEW s \in Sources, ReuseFile(v, s)
        PROVE  Kept(v)
    BY <2>6 DEF ReuseFile, NextFile, SatisfyImportFile, TablesTypeOK
  <2>7. ASSUME NEW s \in Sources, SkipFile(v, s) \/ PrepareFile(v, s)
        PROVE  Kept(v)
    BY <1>1, <2>7 DEF SkipFile, PrepareFile, NextFile
  <2>8. ASSUME NEW s \in Sources, StopFile(v, s)
        PROVE  Kept(v)
    BY <2>3, <2>4, <2>8 DEF StopFile
  <2>9. CASE FilesDone(v)
    <3>1. any[v] => pc'[v] = "complete" /\ ~any'[v]
      BY <2>9 DEF FilesDone, LeaveImport
    <3>2. ~any[v] => pc'[v] = "fail" /\ ~any'[v]
      BY <2>9 DEF FilesDone, LeaveImport
    <3>3. ep' = ep
      BY <2>9 DEF FilesDone
    <3>. QED
      BY <1>1, <3>1, <3>2, <3>3
  <2>10. CASE AuthorizeFile(v)
    <3>1. CASE Goto(v, "publish") /\ UNCHANGED <<ep, any>>
      BY <1>1, <3>1
    <3>. QED
      BY <2>3, <2>4, <2>10, <3>1 DEF AuthorizeFile
  <2>11. CASE PublishFile(v)
    BY <1>1, <2>11 DEF PublishFile
  <2>12. CASE CommitFile(v)
    BY <2>12 DEF CommitFile, CommitPlacement, TablesTypeOK
  <2>13. CASE PublicationFails(v)
    BY <2>3, <2>13 DEF PublicationFails
  <2>. QED
    BY <1>5, <2>1, <2>2, <2>5, <2>6, <2>7, <2>8, <2>9, <2>10, <2>11, <2>12, <2>13 DEF ImporterStep
<1>6. CASE \/ ObserveCompleted \/ RecordDownloaded
           \/ ImportNow \/ ImportNowFinalize \/ ImportNowRetry
           \/ \E d \in Dispatchers : DispatchStep(d)
           \/ CancelRead \/ CancelStep
  <2>1. UNCHANGED importers
    BY <1>6
    DEF ObserveCompleted, RecordDownloaded, ImportNow, ImportNowFinalize, ImportNowRetry,
        DispatchStep, EnqueueEnsure, EnqueueRegister, CancelRead, CancelStep, CancelTryLock,
        CancelRequest, CancelSignal, CancelFinalize, CancelDrop, notCancel
  <2>. QED
    BY <1>3, <2>1 DEF importers
<1>7. CASE \/ ReviewImportCancellation \/ ReconcileImportCancellations \/ ReconStep
           \/ \E s \in Sources : LibraryAdopts(s)
  BY <1>3, <1>7
  DEF ReviewImportCancellation, ReconcileImportCancellations, ReconStep, ReconBegin, ReconRow,
      ReconEnd, LibraryAdopts, volatile, importers
<1>8. CASE Crash
  BY <1>8 DEF Crash, Fresh
<1>9. CASE UNCHANGED vars
  BY <1>3, <1>9 DEF vars, importers
<1>10. QED
  BY <1>2, <1>4, <1>5, <1>6, <1>7, <1>8, <1>9 DEF Next

LEMMA CompletedInductive ==
    ASSUME TypeOK, Whole, [Next]_vars
    PROVE  CompletedImportIsWhole'
<1>. USE DEF TypeOK, TablesTypeOK, Whole, PlanShape, CompletedImportIsWhole
<1>1. CASE UNCHANGED tables \/ RowWrite \/ LibraryWrite
  BY <1>1 DEF tables, RowWrite, LibraryWrite
<1>2. CASE AttemptTransaction
  <2>1. CASE EnsureImportAttempt
    BY <2>1 DEF EnsureImportAttempt, EnsuredOutcome
  <2>2. CASE BeginImportRetry \/ RetainUncertainImport
    BY <2>2 DEF BeginImportRetry, RetainUncertainImport
  <2>3. ASSUME NEW w \in Importers, pc[w] = "complete", CompleteImportAttempt(ep[w])
        PROVE  CompletedImportIsWhole'
    BY <2>3 DEF CompleteImportAttempt, CompleteImportAttemptAllowed, GuardImportAttempt,
                AnyMeansCommitted
  <2>4. ASSUME NEW k \in Epochs, RequestImportCancellation(k) \/ FinalizeImportCancellation(k)
        PROVE  CompletedImportIsWhole'
    BY <2>4 DEF RequestImportCancellation, FinalizeImportCancellation,
                FinalizeImportCancellationAllowed, GuardImportAttempt, ImportPlanComplete
  <2>. QED
    BY <1>2, <2>1, <2>2, <2>3, <2>4 DEF AttemptTransaction
<1>3. CASE FileTransaction
  <2>1. ASSUME NEW k \in Epochs, NEW s \in Sources, CommitPlacement(k, s)
        PROVE  CompletedImportIsWhole'
    BY <2>1 DEF CommitPlacement
  <2>2. outcome' = outcome /\ outcome # "completed" => CompletedImportIsWhole'
    OBVIOUS
  <2>4. ASSUME NEW k \in Epochs, NEW plan \in SUBSET Sources, SealImportAttempt(k, plan)
        PROVE  CompletedImportIsWhole'
    BY <2>2, <2>4 DEF SealImportAttempt, SealImportAttemptAllowed
  <2>5. ASSUME NEW k \in Epochs, NEW s \in Sources, ResolveSkipped(k, s)
        PROVE  CompletedImportIsWhole'
    BY <2>2, <2>5 DEF ResolveSkipped, ResolveSkippedAllowed
  <2>6. ASSUME NEW k \in Epochs, NEW s \in Sources, NEW p \in Epochs, SatisfyImportFile(k, s, p)
        PROVE  CompletedImportIsWhole'
    BY <2>2, <2>6 DEF SatisfyImportFile, SatisfyImportFileAllowed
  <2>7. CASE UNCHANGED <<outcome, sealed, file>>
    BY <2>7
  <2>. HIDE DEF CompletedImportIsWhole
  <2>. QED
    BY <1>3, <2>1, <2>4, <2>5, <2>6, <2>7
    DEF FileTransaction, StagePlacement, AuthorizeImportPlacement, RenameStage, ResolveRetained, DisposeStage
<1>4. QED
  BY <1>1, <1>2, <1>3, NextIsTransaction DEF Transaction

\* Whoever completes a planned attempt, the worker, a cancellation request
\* that came too late or its finalization, every file of the plan is
\* resolved and at least one was placed.
THEOREM CompletedIsWhole == Spec => []CompletedImportIsWhole
<1>1. Init => Whole
  BY MaxEpochAssumption
  DEF Init, TablesInit, Whole, PlanShape, EpochsBegun, AnyMeansCommitted, CompletedImportIsWhole,
      NoContext
<1>2. TypeOK /\ Whole /\ [Next]_vars => Whole'
  BY ShapeInductive, BegunInductive, ClaimInductive, CompletedInductive DEF Whole
<1>3. Whole => CompletedImportIsWhole
  BY DEF Whole
<1>4. QED
  BY <1>1, <1>2, <1>3, TypeCorrect, PTL DEF Spec
================================================================================
