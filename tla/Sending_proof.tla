----------------------------- MODULE Sending_proof -----------------------------
(***************************************************************************)
(* Proofs about Submission, for any number of downloads, releases and      *)
(* client jobs and any number of lost answers and restarts, and about      *)
(* SeasonPlan.                                                             *)
(*                                                                         *)
(* The argument for one job per request: with durable tokens the client    *)
(* itself keeps it (AcceptedJobs creates a job only for a token it does    *)
(* not know).  Without them the row does: a request leaves the state in    *)
(* which it may be sent (Unsent) in the step that sends it, no later write *)
(* brings it back, and what was sent is either still on its way with no    *)
(* job (InFlight), or has arrived, or never will.                          *)
(*                                                                         *)
(* One download per want and an outcome of the row's own job need to       *)
(* know how far every request has come.  FateInv says it row by row: a     *)
(* row that was never sent has no job and nothing on its way (Unasked), a  *)
(* row that failed or was imported has nothing that still runs or that     *)
(* Runner owns (Settled), a recorded outcome is that of an ended job of    *)
(* the row's own (OwnEnded), and so is what an observer holds (Seen).      *)
(* With it no late answer revives a row whose want was grabbed again.      *)
(***************************************************************************)
EXTENDS Submission, SeasonPlan, FiniteSetTheorems, TLAPS

Phases == {"", "pending", "submitting", "uncertain", "submitted", "rejected"}
RowStates == {"none", "failed", "imported"} \cup ActiveGrab
AnyHandle == 0 .. MaxHandles

Rows ==
    [kind : {"none", "deleted", "auto", "manual"}, title : Titles \cup {"none"}, phase : Phases, state : RowStates,
     handle : AnyHandle, parked : {"no", "held", "cancelled"}, superseded : BOOLEAN, instance : 0 .. 2,
     revision : Nat, held : BOOLEAN, retained : BOOLEAN]

Lives == {"running", "held", "failed", "succeeded"}

Statuses ==
    [handle : AnyHandle, token : Int, state : {"", "none", "running", "completed", "failed", "removed"}, control : BOOLEAN,
     revision : Nat, life : Lives]

ClientJobs ==
    [token : Int, title : Titles \cup {"none"}, state : {"none", "running", "completed", "failed", "removed"},
     revision : Nat, life : Lives, shown : BOOLEAN, instance : 0 .. 2,
     custody : {"none", "runner_owned", "settled", "unknown", "deleted_by_runner"}]

Calls ==
    [pc : {"none", "send", "answer"}, by : {"none", "grab", "retry", "manual"},
     answer : {"none", "accepted", "error", "refused"}, handle : AnyHandle]

Grabbers == [pc : {"idle", "checked", "inserted"}, title : Titles \cup {"none"}, seen : SUBSET Grabs]

Watches ==
    [pc : {"idle", "seen", "bind"}, source : {"none", "poll", "admission", "push", "flush"}, of : Grabs \cup {0},
     st : SUBSET Statuses]

SubmissionTypeOK ==
    /\ capability \in {"idempotent", "exact", "legacy"}
    /\ download \in [Grabs -> Rows]
    /\ grabber \in [Grabs -> Grabbers]
    /\ call \in [Grabs -> Calls]
    /\ observer \in [Observers -> Watches]
    /\ \A p \in Observers : observer[p].pc # "idle" => observer[p].of \in Grabs
    /\ blocklist \subseteq Titles \cup {"none"}
    /\ pinned \in 0 .. 2 /\ instance \in 1 .. 2
    /\ job \in [Handles -> ClientJobs]
    /\ wire \subseteq Grabs
    /\ subFaults \in 0 .. MaxSubFaults

\* Not sent yet: no row, a row whose grab has not taken the lock, a manual
\* intent that was not dispatched.
Unsent(d) ==
    \/ download[d].kind = "none" \/ grabber[d].pc = "inserted"
    \/ download[d].kind = "manual" /\ download[d].phase = "pending"

InFlight(d) == call[d].pc = "send" \/ d \in wire

\* A client without durable tokens is asked once.
AskedOnce ==
    ~Idempotent => \A d \in Grabs :
        /\ Unsent(d) => ~InFlight(d)
        /\ Unsent(d) \/ InFlight(d) => JobsOf(d) = {}
        /\ call[d].pc = "send" => d \notin wire

\* The grab that holds no lock yet is the only one that knows its row.
GrabberKnows ==
    \A d \in Grabs :
        /\ grabber[d].pc = "checked" => download[d].kind = "none"
        /\ grabber[d].pc = "inserted" => download[d].kind \in {"auto", "deleted"}

\* The second installation starts with no jobs.
JobsOfKnownInstallations == \A h \in Handles : job[h].instance <= instance

UniqueJobs == \A d \in Grabs : \A h, k \in JobsOf(d) : h = k

\* Only a row that was inserted is called for, observed and written.
RowsExist ==
    /\ \A d \in Grabs : download[d].kind = "none" => download[d].state = "none" /\ download[d].phase = ""
    /\ \A d \in Grabs : call[d].pc # "none" => download[d].kind # "none"
    /\ \A p \in Observers : observer[p].pc # "idle" => download[observer[p].of].kind # "none"

BasicInv == SubmissionTypeOK /\ RowsExist /\ GrabberKnows
JobInv == AskedOnce /\ JobsOfKnownInstallations /\ UniqueJobs

-----------------------------------------------------------------------------
(* The writes of a row: none changes its kind, none makes it an intent that *)
(* was not dispatched.                                                      *)

SameRequest(r, s) == s \in Rows /\ s.kind = r.kind /\ (s.phase = "pending" => r.phase = "pending")

LEMMA SimpleWrites ==
    ASSUME NEW r \in Rows, NEW h \in AnyHandle
    PROVE  /\ SameRequest(r, r)
           /\ \A x \in RecordDownloadSubmission(r, h) : SameRequest(r, x)
           /\ \A x \in RecordHandlelessSubmission(r) : SameRequest(r, x)
           /\ SameRequest(r, RejectDownloadSubmission(r))
           /\ \A why \in {"held", "cancelled"} : SameRequest(r, ParkDownload(r, why))
           /\ \A p \in {"submitting", "uncertain", "submitted"} : SameRequest(r, SetSubmissionPhase(r, p))
           /\ SameRequest(r, CommitManualSubmission(r, h))
           /\ SameRequest(r, SetDownloadHandle(r, h))
<1>. USE DEF SameRequest, Rows, Phases, RowStates
<1>1. SameRequest(r, r)
  OBVIOUS
<1>2. ASSUME NEW x \in RecordDownloadSubmission(r, h)
      PROVE  SameRequest(r, x)
  <2>. DEFINE submitted == "submitted"
  <2>1. x = [r EXCEPT !.handle = h, !.phase = submitted] /\ submitted \in Phases /\ submitted # "pending"
    BY DEF RecordDownloadSubmission
  <2>. HIDE DEF submitted, SameRequest
  <2>2. x \in Rows /\ x.kind = r.kind /\ x.phase = submitted
    BY <2>1
  <2>. QED
    BY <2>1, <2>2 DEF SameRequest
<1>3. \A x \in RecordHandlelessSubmission(r) : SameRequest(r, x)
  BY DEF RecordHandlelessSubmission
<1>4. SameRequest(r, RejectDownloadSubmission(r))
  <2>. DEFINE x == [r EXCEPT !.state = "failed", !.phase = "rejected"]
  <2>1. x \in Rows
    OBVIOUS
  <2>2. x.kind = r.kind /\ x.phase = "rejected"
    OBVIOUS
  <2>3. SameRequest(r, x)
    BY <2>1, <2>2
  <2>. HIDE DEF SameRequest, Rows
  <2>. QED
    BY <1>1, <2>3 DEF RejectDownloadSubmission
<1>5. ASSUME NEW why \in {"held", "cancelled"}
      PROVE  SameRequest(r, ParkDownload(r, why))
  <2>1. \A parked \in {"no", "held", "cancelled"} : SameRequest(r, [r EXCEPT !.parked = parked])
    OBVIOUS
  <2>2. (IF r.parked = "cancelled" THEN r.parked ELSE why) \in {"no", "held", "cancelled"}
    OBVIOUS
  <2>. HIDE DEF SameRequest, Rows
  <2>3. CASE r.superseded
    BY <1>1, <2>3 DEF ParkDownload
  <2>4. CASE ~r.superseded
    BY <2>1, <2>2, <2>4 DEF ParkDownload
  <2>. QED
    BY <2>3, <2>4
<1>6. ASSUME NEW p \in {"submitting", "uncertain", "submitted"}
      PROVE  SameRequest(r, SetSubmissionPhase(r, p))
  BY DEF SetSubmissionPhase
<1>7. SameRequest(r, CommitManualSubmission(r, h)) /\ SameRequest(r, SetDownloadHandle(r, h))
  BY DEF CommitManualSubmission, SetDownloadHandle
<1>. HIDE DEF SameRequest, Rows
<1>. QED
  BY <1>1, <1>2, <1>3, <1>4, <1>5, <1>6, <1>7

LEMMA StateWrites ==
    ASSUME NEW r \in Rows, NEW state \in RowStates
    PROVE  SameRequest(r, UpdateDownloadState(r, state))
<1>1. [r EXCEPT !.state = state] \in Rows
  BY DEF Rows
<1>2. [r EXCEPT !.state = state].kind = r.kind /\ [r EXCEPT !.state = state].phase = r.phase
  BY DEF Rows
<1>3. \A x \in Rows : SameRequest(x, TerminalCustody(x))
  BY DEF SameRequest, Rows, TerminalCustody
<1>. QED
  BY <1>1, <1>2, <1>3 DEF SameRequest, UpdateDownloadState

LEMMA SameRequestChains ==
    ASSUME NEW r, NEW x, NEW y, SameRequest(r, x), SameRequest(x, y)
    PROVE  SameRequest(r, y)
BY DEF SameRequest

LEMMA AcceptedWrites ==
    ASSUME NEW r \in Rows, NEW h \in AnyHandle
    PROVE  SameRequest(r, Accepted(r, h))
<1>. DEFINE saved == IF h = 0 THEN RecordHandlelessSubmission(r)
                     ELSE IF r.kind = "manual" THEN {CommitManualSubmission(r, h)} ELSE RecordDownloadSubmission(r, h)
<1>1. \A x \in saved : SameRequest(r, x)
  BY SimpleWrites
<1>2. SameRequest(r, SetSubmissionPhase(r, "uncertain"))
  BY SimpleWrites
<1>3. saved # {} => SameRequest(r, CHOOSE x \in saved : TRUE)
  BY <1>1
<1>4. Accepted(r, h) = IF saved # {} THEN CHOOSE x \in saved : TRUE ELSE SetSubmissionPhase(r, "uncertain")
  BY DEF Accepted
<1>. HIDE DEF saved
<1>. QED
  BY <1>2, <1>3, <1>4

LEMMA ReceiptWrites ==
    ASSUME SubmissionTypeOK, NEW d \in Grabs, NEW r \in Rows, NEW st \in Statuses,
           NEW o \in AuthoritativeRunnerObservation(d, r, st)
    PROVE  SameRequest(r, o.row) /\ o.st \in Statuses
<1>1. SameRequest(r, r)
  BY SimpleWrites, SubmissionAssumption DEF AnyHandle
<1>2. CASE o = NoReceipt(r, st)
  BY <1>1, <1>2 DEF NoReceipt, Held, GoOn
<1>3. ASSUME NEW h \in JobsOf(d), o = WithReceipt(r, st, h)
      PROVE  SameRequest(r, o.row) /\ o.st \in Statuses
  <2>. DEFINE receipt == job[h]
              bound == [r EXCEPT !.instance = receipt.instance]
              mine == IF r.handle = 0 THEN RecordDownloadSubmission(bound, h) ELSE {bound}
              own == CHOOSE x \in mine : TRUE
  <2>1. h \in AnyHandle /\ receipt \in ClientJobs
    BY SubmissionAssumption DEF JobsOf, Handles, AnyHandle, SubmissionTypeOK
  <2>2. bound \in Rows /\ bound.kind = r.kind /\ bound.phase = r.phase
    BY <2>1 DEF Rows, ClientJobs
  <2>3. SameRequest(r, bound)
    BY <2>2 DEF SameRequest
  <2>. HIDE DEF bound
  <2>4. \A x \in mine : SameRequest(bound, x)
    BY <2>1, <2>2, SimpleWrites
  <2>. HIDE DEF mine
  <2>5. mine # {} => SameRequest(r, own)
    BY <2>3, <2>4, SameRequestChains
  <2>. HIDE DEF own
  <2>6. /\ SameRequest(r, ParkDownload(r, "held")) /\ SameRequest(r, ParkDownload(bound, "held"))
        /\ mine # {} => SameRequest(r, ParkDownload(own, "held"))
    <3>1. \A x \in Rows : SameRequest(x, ParkDownload(x, "held"))
      BY SimpleWrites, SubmissionAssumption DEF AnyHandle
    <3>. QED
      BY <3>1, <2>2, <2>3, <2>5, SameRequestChains DEF SameRequest
  <2>7. mine # {} => SameRequest(r, UpdateDownloadState(own, "awaiting_import"))
    <3>1. \A x \in Rows : SameRequest(x, UpdateDownloadState(x, "awaiting_import"))
      BY StateWrites DEF RowStates, ActiveGrab
    <3>. QED
      BY <3>1, <2>5, SameRequestChains DEF SameRequest
  <2>8. receipt.state \in {"failed", "removed"} => [st EXCEPT !.state = receipt.state] \in Statuses
    BY DEF Statuses
  <2>9. o = IF ~BindsAdmission(r, receipt) THEN Held(ParkDownload(r, "held"), st)
            ELSE IF r.handle \notin {0, h} \/ mine = {} THEN Held(ParkDownload(bound, "held"), st)
            ELSE IF receipt.state = "failed" /\ r.kind # "manual" /\ RunnerFailureNeedsCleanup(receipt)
                 THEN Held(UpdateDownloadState(own, "awaiting_import"), st)
            ELSE IF receipt.state = "removed" /\ receipt.custody = "unknown" THEN Held(ParkDownload(own, "held"), st)
            ELSE IF receipt.state \in {"failed", "removed"} THEN GoOn(own, [st EXCEPT !.state = receipt.state])
            ELSE IF receipt.state = "completed" \/ st.state \in {"failed", "removed"} THEN Held(own, st)
            ELSE GoOn(own, st)
    BY <1>3 DEF WithReceipt, own, mine, bound
  <2>. HIDE DEF receipt
  <2>. QED
    BY <2>3, <2>5, <2>6, <2>7, <2>8, <2>9 DEF Held, GoOn
<1>. QED
  BY <1>2, <1>3 DEF AuthoritativeRunnerObservation

LEMMA BindWrites ==
    ASSUME NEW d \in Grabs, NEW r \in Rows, NEW st \in Statuses, NEW x \in BindHandle(d, r, st)
    PROVE  SameRequest(r, x)
<1>1. st.handle \in AnyHandle
  BY DEF Statuses
<1>. QED
  BY <1>1, SimpleWrites DEF BindHandle

LEMMA ControlWrites ==
    ASSUME NEW r \in Rows, NEW st \in Statuses, NEW c \in AcceptDownloadControl(r, st)
    PROVE  SameRequest(r, c.row) /\ c.st \in Statuses
<1>1. SameRequest(r, r)
  BY SimpleWrites, SubmissionAssumption DEF AnyHandle
<1>2. \A held \in BOOLEAN : LET taken == [r EXCEPT !.revision = st.revision, !.held = held, !.state = IF held THEN "downloading" ELSE @]
                            IN  SameRequest(r, taken)
  <2>. SUFFICES ASSUME NEW held \in BOOLEAN
                PROVE  SameRequest(r, [r EXCEPT !.revision = st.revision, !.held = held,
                                                 !.state = IF held THEN "downloading" ELSE @])
    OBVIOUS
  <2>1. (IF held THEN "downloading" ELSE r.state) \in RowStates
    BY DEF Rows, RowStates, ActiveGrab
  <2>2. \A s \in RowStates : [r EXCEPT !.revision = st.revision, !.held = held, !.state = s] \in Rows
    BY DEF Rows, Statuses
  <2>. QED
    BY <2>1, <2>2 DEF SameRequest, Rows
<1>3. [st EXCEPT !.state = "running"] \in Statuses
  BY DEF Statuses
<1>4. CASE c \in AcceptControlFacts(r, st)
  <2>. DEFINE heldNow == st.life = "held"
              taken == [r EXCEPT !.revision = st.revision, !.held = heldNow, !.state = IF heldNow THEN "downloading" ELSE @]
  <2>1. SameRequest(r, taken)
    BY <1>2
  <2>2. c = [row |-> taken, st |-> IF heldNow THEN [st EXCEPT !.state = "running"] ELSE st]
    BY <1>4 DEF AcceptControlFacts
  <2>. HIDE DEF taken
  <2>. QED
    BY <1>3, <2>1, <2>2
<1>. QED
  BY <1>1, <1>4 DEF AcceptDownloadControl

LEMMA AppliedWrites ==
    ASSUME NEW r \in Rows, NEW st \in Statuses, NEW x \in Applied(r, st)
    PROVE  SameRequest(r, x.row)
<1>1. SameRequest(r, r)
  BY SimpleWrites, SubmissionAssumption DEF AnyHandle
<1>2. \A s \in {"downloading", "downloaded", "failed"} : SameRequest(r, UpdateDownloadState(r, s))
  BY StateWrites DEF RowStates, ActiveGrab
<1>3. x \in {[row |-> r, blame |-> FALSE]} \cup HandleFailure(r) \cup HandleRemoved(r)
            \cup {[row |-> UpdateDownloadState(r, s), blame |-> FALSE] : s \in {"downloading", "downloaded"}}
  BY DEF Applied
<1>4. \/ x.row = r
      \/ \E s \in {"downloading", "downloaded", "failed"} : x.row = UpdateDownloadState(r, s)
  BY <1>3 DEF HandleFailure, HandleRemoved
<1>. QED
  BY <1>1, <1>2, <1>4

-----------------------------------------------------------------------------
(* What each step does to the rows. *)

\* The step writes no row but d's, and that one as the same request.
Writes(d) ==
    \E r \in Rows : /\ SameRequest(download[d], r)
                    /\ download[d].kind # "none"
                    /\ download' = [download EXCEPT ![d] = r]

LEMMA RowTypes ==
    ASSUME SubmissionTypeOK, NEW d \in Grabs
    PROVE  download[d] \in Rows /\ call[d] \in Calls /\ grabber[d] \in Grabbers
BY DEF SubmissionTypeOK

LEMMA NoGrabTypes ==
    /\ NoGrab \in Rows /\ DeletedRow \in Rows /\ NoGrab.kind = "none" /\ DeletedRow.kind = "deleted"
    /\ NoGrab.state = "none" /\ NoGrab.phase = "" /\ DeletedRow.phase = ""
    /\ NoGrabber \in Grabbers /\ NoGrabber.pc = "idle"
    /\ NoSubmission \in Calls /\ NoSubmission.pc = "none"
    /\ NotObserving \in Watches /\ NotObserving.pc = "idle"
    /\ NoClientJob \in ClientJobs /\ NoClientJob.token = 0
<1>. USE SubmissionAssumption DEF AnyHandle
<1>1. NoGrab \in Rows /\ NoGrab.kind = "none" /\ NoGrab.state = "none" /\ NoGrab.phase = ""
  BY DEF NoGrab, Rows, Phases, RowStates
<1>2. [NoGrab EXCEPT !.kind = "deleted"] \in Rows
  BY <1>1 DEF Rows
<1>3. DeletedRow \in Rows /\ DeletedRow.kind = "deleted" /\ DeletedRow.phase = ""
  BY <1>1, <1>2 DEF Rows, DeletedRow, NoGrab
<1>4. NoGrabber \in Grabbers /\ NoGrabber.pc = "idle" /\ NoSubmission \in Calls /\ NoSubmission.pc = "none"
  BY DEF NoGrabber, Grabbers, NoSubmission, Calls
<1>5. NotObserving \in Watches /\ NotObserving.pc = "idle"
  BY DEF NotObserving, Watches
<1>6. NoClientJob \in ClientJobs /\ NoClientJob.token = 0
  BY DEF NoClientJob, ClientJobs, Lives
<1>. QED
  BY <1>1, <1>3, <1>4, <1>5, <1>6

LEMMA WriteKeepsRows ==
    ASSUME SubmissionTypeOK, NEW d \in Grabs, Writes(d)
    PROVE  /\ download' \in [Grabs -> Rows]
           /\ \A k \in Grabs : SameRequest(download[k], download'[k])
           /\ \A k \in Grabs : download[k].kind = "none" => download'[k] = download[k]
<1>1. PICK r \in Rows : /\ SameRequest(download[d], r)
                        /\ download[d].kind # "none"
                        /\ download' = [download EXCEPT ![d] = r]
  BY DEF Writes
<1>2. download' \in [Grabs -> Rows]
  BY <1>1 DEF SubmissionTypeOK
<1>3. ASSUME NEW k \in Grabs
      PROVE  SameRequest(download[k], download'[k])
  <2>1. CASE k = d
    BY <1>1, <2>1 DEF SubmissionTypeOK
  <2>2. CASE k # d
    BY <1>1, <2>2 DEF SubmissionTypeOK, SameRequest
  <2>. QED
    BY <2>1, <2>2
<1>4. \A k \in Grabs : download[k].kind = "none" => download'[k] = download[k]
  BY <1>1 DEF SubmissionTypeOK
<1>. QED
  BY <1>2, <1>3, <1>4

LEMMA AddReturnsWrites ==
    ASSUME SubmissionTypeOK, RowsExist, NEW d \in Grabs, AddReturns(d)
    PROVE  Writes(d)
<1>. DEFINE r == download[d]
            s == CASE call[d].answer = "accepted" -> Accepted(r, call[d].handle)
                   [] call[d].answer = "refused" -> RejectDownloadSubmission(r)
                   [] OTHER -> IF call[d].by = "retry" THEN r
                               ELSE UpdateDownloadState(SetSubmissionPhase(r, "uncertain"), "grabbed")
<1>1. r \in Rows /\ call[d].handle \in AnyHandle /\ r.kind # "none"
  BY RowTypes DEF Calls, AddReturns, RowsExist
<1>2. SameRequest(r, r) /\ SameRequest(r, RejectDownloadSubmission(r)) /\ SameRequest(r, SetSubmissionPhase(r, "uncertain"))
  BY <1>1, SimpleWrites
<1>3. SameRequest(r, Accepted(r, call[d].handle))
  BY <1>1, AcceptedWrites
<1>4. SameRequest(r, UpdateDownloadState(SetSubmissionPhase(r, "uncertain"), "grabbed"))
  BY <1>2, StateWrites, SameRequestChains DEF SameRequest, RowStates, ActiveGrab
<1>5. SameRequest(r, s)
  BY <1>2, <1>3, <1>4
<1>6. download' = [download EXCEPT ![d] = s]
  BY DEF AddReturns
<1>. QED
  BY <1>1, <1>5, <1>6 DEF Writes, SameRequest

LEMMA RetryWrites ==
    ASSUME SubmissionTypeOK, RowsExist, NEW d \in Grabs, ProcessRunnerSubmissionRetries(d)
    PROVE  Writes(d) \/ UNCHANGED download
<1>1. download[d] \in Rows /\ download[d].kind # "none"
  BY RowTypes DEF ProcessRunnerSubmissionRetries, AutomaticSubmissionRetryable, AutomaticSubmissionPending
<1>2. SameRequest(download[d], RejectDownloadSubmission(download[d]))
  BY <1>1, SimpleWrites, SubmissionAssumption DEF AnyHandle
<1>. QED
  BY <1>1, <1>2 DEF ProcessRunnerSubmissionRetries, RetryAutomaticSubmission, Writes, SameRequest

LEMMA MatchedStatuses ==
    ASSUME SubmissionTypeOK
    PROVE  /\ \A h \in Handles : StatusOf(h) \in Statuses
           /\ Inventory \subseteq Statuses
           /\ \A d \in Grabs : MatchStatus(d, download[d], Inventory) \subseteq Statuses
<1>1. ASSUME NEW h \in Handles
      PROVE  StatusOf(h) \in Statuses
  <2>1. job[h] \in ClientJobs /\ h \in AnyHandle
    BY SubmissionAssumption DEF SubmissionTypeOK, Handles, AnyHandle
  <2>2. (IF Exact THEN job[h].token ELSE 0) \in Int /\ Idempotent \in BOOLEAN
    BY <2>1 DEF ClientJobs, Idempotent
  <2>. QED
    BY <2>1, <2>2 DEF StatusOf, ClientJobs, Statuses
<1>2. Inventory \subseteq Statuses
  BY <1>1 DEF Inventory
<1>3. ASSUME NEW d \in Grabs
      PROVE  MatchStatus(d, download[d], Inventory) \subseteq Inventory
  BY DEF MatchStatus
<1>. QED
  BY <1>1, <1>2, <1>3

LEMMA ResumeWrites ==
    ASSUME SubmissionTypeOK, RowsExist, NEW d \in Grabs, ResumeManualRequest(d)
    PROVE  Writes(d)
<1>. DEFINE r == download[d]
<1>1. r \in Rows /\ r.kind # "none"
  BY RowTypes DEF ResumeManualRequest
<1>2. \A st \in MatchStatus(d, r, Inventory) : SameRequest(r, CommitManualSubmission(r, st.handle))
  BY <1>1, MatchedStatuses, SimpleWrites DEF Statuses
<1>3. SameRequest(r, RejectDownloadSubmission(r)) /\ SameRequest(r, SetSubmissionPhase(r, "submitting"))
  BY <1>1, SimpleWrites, SubmissionAssumption DEF AnyHandle
<1>4. \/ \E st \in MatchStatus(d, r, Inventory) : download' = [download EXCEPT ![d] = CommitManualSubmission(@, st.handle)]
      \/ download' = [download EXCEPT ![d] = RejectDownloadSubmission(@)]
      \/ download' = [download EXCEPT ![d] = SetSubmissionPhase(@, "submitting")]
  BY DEF ResumeManualRequest, DispatchManualRequest
<1>. QED
  BY <1>1, <1>2, <1>3, <1>4 DEF Writes, SameRequest

LEMMA ReconcileDownloadWrites ==
    ASSUME SubmissionTypeOK, RowsExist, NEW p \in Observers, ReconcileDownload(p)
    PROVE  /\ observer[p].of \in Grabs /\ observer[p].pc = "seen"
           /\ Writes(observer[p].of)
           /\ pinned' \in 0 .. 2
           /\ \/ observer' = [observer EXCEPT ![p] = NotObserving]
              \/ \E st \in Statuses : observer' = [observer EXCEPT ![p].pc = "bind", ![p].st = {st}]
<1>. DEFINE d == observer[p].of
            Observed(st) == IF NeedsReceipt(observer[p].source, st)
                            THEN AuthoritativeRunnerObservation(d, download[d], st) ELSE {GoOn(download[d], st)}
            Stop(o) == \/ o.hold \/ o.st.state = ""
                       \/ o.row.parked = "cancelled" \/ o.row.superseded
<1>1. d \in Grabs /\ observer[p].pc = "seen" /\ download[d].kind # "none" /\ download[d] \in Rows
  <2>1. observer[p].pc = "seen"
    BY DEF ReconcileDownload
  <2>2. d \in Grabs
    BY <2>1 DEF SubmissionTypeOK
  <2>. QED
    BY <2>1, <2>2, RowTypes DEF RowsExist
<1>1a. PICK st \in observer[p].st : \E o \in Observed(st) :
        IF download[d] = DeletedRow THEN Ends(p) /\ UNCHANGED <<download, pinned>>
        ELSE /\ download' = [download EXCEPT ![d] =
                  IF ~Stop(o) /\ o.row.phase \in {"uncertain", "submitting"}
                  THEN SetSubmissionPhase(o.row, "submitted") ELSE o.row]
             /\ pinned' = IF o.row.instance # 0 THEN o.row.instance ELSE pinned
             /\ IF Stop(o) THEN Ends(p)
                ELSE observer' = [observer EXCEPT ![p].pc = "bind", ![p].st = {o.st}]
  BY DEF ReconcileDownload
<1>2. PICK o \in Observed(st) :
        IF download[d] = DeletedRow THEN Ends(p) /\ UNCHANGED <<download, pinned>>
        ELSE /\ download' = [download EXCEPT ![d] =
                  IF ~Stop(o) /\ o.row.phase \in {"uncertain", "submitting"}
                  THEN SetSubmissionPhase(o.row, "submitted") ELSE o.row]
             /\ pinned' = IF o.row.instance # 0 THEN o.row.instance ELSE pinned
             /\ IF Stop(o) THEN Ends(p)
                ELSE observer' = [observer EXCEPT ![p].pc = "bind", ![p].st = {o.st}]
  BY <1>1a
<1>3. st \in Statuses
  BY DEF SubmissionTypeOK, Watches
<1>4. SameRequest(download[d], o.row) /\ o.st \in Statuses
  <2>1. SameRequest(download[d], download[d])
    BY <1>1, SimpleWrites, SubmissionAssumption DEF AnyHandle
  <2>2. o \in AuthoritativeRunnerObservation(d, download[d], st) \/ o = GoOn(download[d], st)
    BY <1>2
  <2>3. CASE o \in AuthoritativeRunnerObservation(d, download[d], st)
    BY <1>1, <1>3, <2>3, ReceiptWrites
  <2>. QED
    BY <1>3, <2>1, <2>2, <2>3 DEF GoOn
<1>5. \A x \in {"uncertain", "submitting", "submitted"} : SameRequest(o.row, SetSubmissionPhase(o.row, x))
  BY <1>4, SimpleWrites, SubmissionAssumption DEF SameRequest, AnyHandle
<1>6. SameRequest(download[d], SetSubmissionPhase(o.row, "submitted"))
  BY <1>4, <1>5, SameRequestChains
<1>6a. SameRequest(download[d], download[d])
  BY <1>1, SimpleWrites, SubmissionAssumption DEF AnyHandle
<1>6b. UNCHANGED download => Writes(d)
  <2>1. [download EXCEPT ![d] = download[d]] = download
    BY DEF SubmissionTypeOK
  <2>. QED
    BY <1>1, <1>6a, <2>1 DEF Writes
<1>7. Writes(d)
  BY <1>1, <1>2, <1>4, <1>6, <1>6b DEF Writes, SameRequest
<1>8. pinned' \in 0 .. 2
  BY <1>2, <1>4 DEF SameRequest, Rows, SubmissionTypeOK
<1>. QED
  BY <1>1, <1>2, <1>4, <1>7, <1>8 DEF Ends

LEMMA ReconcileAppliesWrites ==
    ASSUME SubmissionTypeOK, RowsExist, NEW p \in Observers, ReconcileApplies(p)
    PROVE  /\ observer[p].of \in Grabs /\ observer[p].pc = "bind"
           /\ Writes(observer[p].of)
           /\ blocklist' \subseteq Titles \cup {"none"}
<1>. DEFINE d == observer[p].of
            Controlled(st) == UNION {AcceptDownloadControl(r, st) : r \in BindHandle(d, download[d], st)}
            Results(st) == UNION {Applied(c.row, c.st) : c \in Controlled(st)}
<1>1. d \in Grabs /\ observer[p].pc = "bind" /\ download[d].kind # "none" /\ download[d] \in Rows
  <2>1. observer[p].pc = "bind"
    BY DEF ReconcileApplies
  <2>2. d \in Grabs
    BY <2>1 DEF SubmissionTypeOK
  <2>. QED
    BY <2>1, <2>2, RowTypes DEF RowsExist
<1>2. PICK st \in observer[p].st :
        \/ /\ Results(st) = {} \/ download[d] = DeletedRow
           /\ download' = [download EXCEPT ![d] = IF BindHandle(d, download[d], st) = {} \/ @ = DeletedRow THEN @
                                                  ELSE CHOOSE r \in BindHandle(d, download[d], st) : TRUE]
           /\ UNCHANGED blocklist
        \/ \E x \in Results(st) :
             /\ download' = [download EXCEPT ![d] = x.row]
             /\ blocklist' = IF x.blame THEN blocklist \cup {download[d].title} ELSE blocklist
  BY DEF ReconcileApplies
<1>3. st \in Statuses
  BY DEF SubmissionTypeOK, Watches
<1>4. \A r \in BindHandle(d, download[d], st) : SameRequest(download[d], r)
  BY <1>1, <1>3, BindWrites
<1>5. \A c \in Controlled(st) : SameRequest(download[d], c.row) /\ c.st \in Statuses
  <2>. SUFFICES ASSUME NEW r \in BindHandle(d, download[d], st), NEW c \in AcceptDownloadControl(r, st)
                PROVE  SameRequest(download[d], c.row) /\ c.st \in Statuses
    OBVIOUS
  <2>. QED
    BY <1>3, <1>4, ControlWrites, SameRequestChains DEF SameRequest
<1>6. \A x \in Results(st) : SameRequest(download[d], x.row)
  <2>. SUFFICES ASSUME NEW c \in Controlled(st), NEW x \in Applied(c.row, c.st)
                PROVE  SameRequest(download[d], x.row)
    OBVIOUS
  <2>. HIDE DEF Controlled
  <2>. QED
    BY <1>5, AppliedWrites, SameRequestChains DEF SameRequest
<1>7. SameRequest(download[d], download[d])
  BY <1>1, SimpleWrites, SubmissionAssumption DEF AnyHandle
<1>. HIDE DEF Results, Controlled
<1>8. Writes(d)
  <2>1. \E r : download' = [download EXCEPT ![d] = r] /\ SameRequest(download[d], r)
    BY <1>2, <1>4, <1>6, <1>7
  <2>. QED
    BY <1>1, <2>1 DEF Writes, SameRequest
<1>9. blocklist' \subseteq Titles \cup {"none"}
  BY <1>1, <1>2 DEF SubmissionTypeOK, Rows
<1>. QED
  BY <1>1, <1>8, <1>9

LEMMA RemoveDownloadWrites ==
    ASSUME SubmissionTypeOK, RowsExist, NEW d \in Grabs, RemoveDownload(d)
    PROVE  /\ Writes(d)
           /\ job' \in [Handles -> ClientJobs]
           /\ \A h \in Handles : job'[h].token = job[h].token /\ job'[h].instance = job[h].instance
<1>. DEFINE r == download[d]
            closed == [r EXCEPT !.state = "failed", !.phase = "rejected", !.superseded = TRUE]
            gone == [job EXCEPT ![r.handle].state = "removed", ![r.handle].custody = "unknown"]
<1>1. r \in Rows /\ r.kind # "none"
  BY RowTypes DEF RemoveDownload, RowsExist
<1>2. closed \in Rows /\ closed.kind = r.kind /\ closed.phase = "rejected"
  BY <1>1 DEF Rows, Phases, RowStates
<1>3. SameRequest(r, closed) /\ SameRequest(r, ParkDownload(r, "cancelled"))
  BY <1>1, <1>2, SimpleWrites, SubmissionAssumption DEF SameRequest, AnyHandle
<1>4. r.handle # 0 => r.handle \in Handles
  BY <1>1, SubmissionAssumption DEF Rows, AnyHandle, Handles
<1>5. /\ \/ download' = [download EXCEPT ![d] = closed]
         \/ download' = [download EXCEPT ![d] = ParkDownload(r, "cancelled")]
      /\ job' = job \/ (r.handle # 0 /\ job' = gone)
  <2>1. CASE r.phase = "pending"
    BY <2>1, Zenon DEF RemoveDownload
  <2>2. CASE r.phase # "pending"
    <3>1. /\ download' = [download EXCEPT ![d] = ParkDownload(r, "cancelled")]
          /\ job' \in IF r.handle = 0 THEN {job} ELSE {job, gone}
      BY <2>2, Zenon DEF RemoveDownload
    <3>. HIDE DEF gone, closed
    <3>. QED
      BY <3>1
  <2>. QED
    BY <2>1, <2>2
<1>6. Writes(d)
  BY <1>1, <1>3, <1>5 DEF Writes, SameRequest
<1>7. ASSUME r.handle # 0
      PROVE  /\ gone \in [Handles -> ClientJobs]
             /\ \A h \in Handles : gone[h].token = job[h].token /\ gone[h].instance = job[h].instance
  BY <1>4, <1>7 DEF SubmissionTypeOK, ClientJobs
<1>. QED
  BY <1>5, <1>6, <1>7 DEF SubmissionTypeOK

LEMMA ImportSettlesWrites ==
    ASSUME SubmissionTypeOK, RowsExist, NEW d \in Grabs, ImportSettles(d)
    PROVE  Writes(d)
<1>1. download[d] \in Rows /\ download[d].kind # "none"
  BY RowTypes DEF ImportSettles, RowsExist
<1>2. PICK ok \in BOOLEAN :
        download' = [download EXCEPT ![d] = [UpdateDownloadState(@, IF ok THEN "imported" ELSE "failed") EXCEPT !.retained = ~ok]]
  BY DEF ImportSettles
<1>. DEFINE u == UpdateDownloadState(download[d], IF ok THEN "imported" ELSE "failed")
<1>3. SameRequest(download[d], u)
  BY <1>1, StateWrites DEF RowStates
<1>. HIDE DEF u
<1>4. SameRequest(download[d], [u EXCEPT !.retained = TRUE]) /\ SameRequest(download[d], [u EXCEPT !.retained = FALSE])
  BY <1>3 DEF SameRequest, Rows
<1>5. \/ download' = [download EXCEPT ![d] = [u EXCEPT !.retained = TRUE]]
      \/ download' = [download EXCEPT ![d] = [u EXCEPT !.retained = FALSE]]
  <2>1. CASE ok
    BY <1>2, <2>1, ~ok = FALSE DEF u
  <2>2. CASE ~ok
    BY <1>2, <2>2, ~ok = TRUE DEF u
  <2>. QED
    BY <2>1, <2>2
<1>. QED
  BY <1>1, <1>4, <1>5 DEF Writes, SameRequest

-----------------------------------------------------------------------------
(* What the client makes of a request it takes. *)

Creates(d, jobs) ==
    /\ Idempotent => JobsOf(d) = {}
    /\ \E h \in Handles : \E j \in ClientJobs :
         /\ job[h].token = 0
         /\ j.token = d /\ j.instance = instance
         /\ jobs = [job EXCEPT ![h] = j]

LEMMA AcceptedJobsAre ==
    ASSUME SubmissionTypeOK, NEW d \in Grabs, NEW a \in AcceptedJobs(d)
    PROVE  /\ a.handle \in Handles
           /\ a.jobs = job \/ Creates(d, a.jobs)
           /\ ~Idempotent => Creates(d, a.jobs)
<1>. DEFINE shown == capability # "exact"
            title == download[d].title
            new == [NoClientJob EXCEPT !.token = d, !.title = title, !.state = "running",
                                       !.instance = instance, !.shown = shown]
<1>1. NoClientJob \in ClientJobs
  BY NoGrabTypes
<1>2. /\ d \in Int /\ instance \in 0 .. 2
      /\ title \in Titles \cup {"none"} /\ shown \in BOOLEAN
  BY RowTypes, SubmissionAssumption DEF SubmissionTypeOK, Rows
<1>3. new \in ClientJobs /\ new.token = d /\ new.instance = instance
  <2>. HIDE DEF shown, title
  <2>. QED
    BY <1>1, <1>2 DEF ClientJobs
<1>4. CASE Idempotent /\ JobsOf(d) # {}
  BY <1>4 DEF AcceptedJobs, JobsOf
<1>5. CASE ~(Idempotent /\ JobsOf(d) # {})
  <2>1. PICK h \in FreeHandles : a = [jobs |-> [job EXCEPT ![h] = new], handle |-> h]
    BY <1>5 DEF AcceptedJobs
  <2>. QED
    BY <1>3, <1>5, <2>1, NoGrabTypes DEF FreeHandles, Creates
<1>. QED
  BY <1>4, <1>5

LEMMA CreatedJobs ==
    ASSUME SubmissionTypeOK, NEW d \in Grabs, NEW jobs, Creates(d, jobs), job' = jobs, instance' = instance
    PROVE  /\ job' \in [Handles -> ClientJobs]
           /\ \E h \in Handles : JobsOf(d)' = JobsOf(d) \cup {h}
           /\ \A k \in Grabs \ {d} : JobsOf(k)' = JobsOf(k)
           /\ JobsOfKnownInstallations => JobsOfKnownInstallations'
<1>1. PICK h \in Handles, j \in ClientJobs :
         job[h].token = 0 /\ j.token = d /\ j.instance = instance /\ job' = [job EXCEPT ![h] = j]
  BY DEF Creates
<1>2. job' \in [Handles -> ClientJobs]
  BY <1>1 DEF SubmissionTypeOK
<1>3. \A x \in Handles : job'[x] = IF x = h THEN j ELSE job[x]
  BY <1>1 DEF SubmissionTypeOK
<1>4. JobsOf(d)' = JobsOf(d) \cup {h}
  BY <1>1, <1>3 DEF JobsOf
<1>5. ASSUME NEW k \in Grabs \ {d}
      PROVE  JobsOf(k)' = JobsOf(k)
  BY <1>1, <1>3, SubmissionAssumption DEF JobsOf
<1>6. JobsOfKnownInstallations => JobsOfKnownInstallations'
  BY <1>1, <1>3 DEF JobsOfKnownInstallations, SubmissionTypeOK
<1>. QED
  BY <1>2, <1>4, <1>5, <1>6

-----------------------------------------------------------------------------
(* Types, and rows that exist, group by group. *)

RowsKept ==
    \A k \in Grabs : /\ SameRequest(download[k], download'[k])
                     /\ download[k].kind = "none" => download'[k] = download[k]

LEMMA UnchangedRows ==
    ASSUME SubmissionTypeOK, UNCHANGED download
    PROVE  RowsKept /\ download' \in [Grabs -> Rows]
BY DEF SubmissionTypeOK, RowsKept, SameRequest

LEMMA WrittenRows ==
    ASSUME SubmissionTypeOK, NEW d \in Grabs, Writes(d)
    PROVE  RowsKept /\ download' \in [Grabs -> Rows]
BY WriteKeepsRows DEF RowsKept

LEMMA RowsExistKept ==
    ASSUME SubmissionTypeOK, RowsExist, RowsKept,
           \A k \in Grabs : call'[k].pc # "none" => download[k].kind # "none",
           \A p \in Observers : observer'[p].pc # "idle" =>
               observer'[p].of \in Grabs /\ download[observer'[p].of].kind # "none"
    PROVE  RowsExist'
<1>1. \A k \in Grabs : download'[k].kind = download[k].kind
  BY DEF RowsKept, SameRequest
<1>2. \A d \in Grabs : download'[d].kind = "none" => download'[d].state = "none" /\ download'[d].phase = ""
  <2>. TAKE d \in Grabs
  <2>. HAVE download'[d].kind = "none"
  <2>1. download[d].kind = "none" /\ download'[d] = download[d]
    BY <1>1 DEF RowsKept
  <2>. QED
    BY <2>1 DEF RowsExist
<1>3. \A p \in Observers : observer'[p].pc # "idle" => download'[observer'[p].of].kind # "none"
  BY <1>1
<1>4. \A d \in Grabs : call'[d].pc # "none" => download'[d].kind # "none"
  BY <1>1
<1>. QED
  BY <1>2, <1>3, <1>4 DEF RowsExist

LEMMA GrabbersKept ==
    ASSUME GrabberKnows, RowsKept, UNCHANGED grabber
    PROVE  GrabberKnows'
BY DEF GrabberKnows, RowsKept, SameRequest

LEMMA GrabStep ==
    ASSUME BasicInv, NEW d \in Grabs,
           \/ \E t \in Titles : GrabChecks(d, t)
           \/ Submit(d)
    PROVE  BasicInv' /\ RowsKept
<1>. USE RowTypes, NoGrabTypes DEF BasicInv
<1>1. RowsKept
  BY UnchangedRows DEF GrabChecks, Submit
<1>2. SubmissionTypeOK'
  <2>1. ASSUME NEW t \in Titles, GrabChecks(d, t)
        PROVE  SubmissionTypeOK'
    <3>1. [pc |-> "checked", title |-> t, seen |-> ListDownloadReservations] \in Grabbers
      BY DEF Grabbers, ListDownloadReservations
    <3>. QED
      BY <2>1, <3>1 DEF GrabChecks, clientVars, SubmissionTypeOK
  <2>2. CASE Submit(d)
    <3>1. [NoSubmission EXCEPT !.pc = "send", !.by = "grab"] \in Calls
      BY DEF Calls
    <3>. QED
      BY <2>2, <3>1 DEF Submit, Send, clientVars, SubmissionTypeOK
  <2>. QED
    BY <2>1, <2>2
<1>3. RowsExist'
  <2>1. \A k \in Grabs : call'[k].pc # "none" => download[k].kind # "none"
    BY DEF GrabChecks, Submit, Send, AutomaticSubmissionPending, RowsExist, SubmissionTypeOK
  <2>2. UNCHANGED observer
    BY DEF GrabChecks, Submit
  <2>. QED
    BY <1>1, <2>1, <2>2, RowsExistKept DEF RowsExist, SubmissionTypeOK
<1>4. GrabberKnows'
  <2>1. ASSUME NEW t \in Titles, GrabChecks(d, t)
        PROVE  GrabberKnows'
    BY <2>1 DEF GrabChecks, GrabberKnows, SubmissionTypeOK
  <2>2. CASE Submit(d)
    BY <2>2 DEF Submit, GrabberKnows, SubmissionTypeOK
  <2>. QED
    BY <2>1, <2>2
<1>. QED
  BY <1>1, <1>2, <1>3, <1>4

LEMMA InsertStep ==
    ASSUME BasicInv, NEW d \in Grabs,
           \/ Allocate(d)
           \/ \E t \in Titles : InsertManualAdditionalDownload(d, t)
           \/ DeleteDownload(d)
    PROVE  BasicInv' /\ UNCHANGED <<capability, call, observer, job, instance, wire>>
<1>. USE RowTypes, NoGrabTypes DEF BasicInv
<1>1. UNCHANGED <<capability, call, observer, job, instance, wire, pinned, blocklist, subFaults>>
  BY DEF Allocate, InsertManualAdditionalDownload, DeleteDownload, clientVars
<1>. DEFINE row(kind, t, phase) == [NoGrab EXCEPT !.kind = kind, !.title = t, !.phase = phase, !.state = "grabbed"]
<1>2. \A kind \in {"auto", "manual"}, t \in Titles \cup {"none"}, phase \in {"submitting", "pending"} :
        row(kind, t, phase) \in Rows /\ row(kind, t, phase).kind = kind
  <2>. SUFFICES ASSUME NEW kind \in {"auto", "manual"}, NEW t \in Titles \cup {"none"}, NEW phase \in {"submitting", "pending"}
                PROVE  row(kind, t, phase) \in Rows /\ row(kind, t, phase).kind = kind
    OBVIOUS
  <2>. "grabbed" \in RowStates /\ phase \in Phases
    BY DEF Phases, RowStates, ActiveGrab
  <2>. QED
    BY DEF Rows
<1>. HIDE DEF row
<1>3. CASE Allocate(d)
  <2>1. CASE grabber' = [grabber EXCEPT ![d] = NoGrabber] /\ UNCHANGED download
    BY <1>1, <2>1 DEF SubmissionTypeOK, RowsExist, GrabberKnows
  <2>2. CASE /\ download' = [download EXCEPT ![d] = row("auto", grabber[d].title, "submitting")]
             /\ grabber' = [grabber EXCEPT ![d].pc = "inserted"]
    <3>1. grabber[d].title \in Titles \cup {"none"}
      BY DEF Grabbers
    <3>2. download' \in [Grabs -> Rows] /\ download'[d].kind = "auto"
      BY <1>2, <2>2, <3>1 DEF SubmissionTypeOK
    <3>3. grabber' \in [Grabs -> Grabbers] /\ \A k \in Grabs \ {d} : grabber'[k] = grabber[k] /\ download'[k] = download[k]
      <4>1. grabber \in [Grabs -> Grabbers] /\ download \in [Grabs -> Rows]
        BY DEF SubmissionTypeOK
      <4>. DEFINE new == [grabber[d] EXCEPT !.pc = "inserted"]
      <4>2. new \in Grabbers
        BY <4>1 DEF Grabbers
      <4>3. grabber' = [grabber EXCEPT ![d] = new]
        BY <2>2
      <4>. HIDE DEF new
      <4>. QED
        BY <2>2, <4>1, <4>2, <4>3
    <3>4. SubmissionTypeOK'
      BY <1>1, <3>2, <3>3 DEF SubmissionTypeOK
    <3>5. grabber'[d].pc = "inserted"
      BY <2>2 DEF SubmissionTypeOK, Grabbers
    <3>6. RowsExist'
      <4>1. \A k \in Grabs : download'[k].kind = "none" => k # d /\ download[k].kind = "none" /\ download'[k] = download[k]
        BY <3>2, <3>3
      <4>2. \A k \in Grabs : download'[k].kind = "none" => download'[k].state = "none" /\ download'[k].phase = ""
        BY <4>1 DEF RowsExist
      <4>3. \A k \in Grabs : call'[k].pc # "none" => download'[k].kind # "none"
        BY <1>1, <4>1 DEF RowsExist
      <4>4. \A p \in Observers : observer'[p].pc # "idle" => download'[observer'[p].of].kind # "none"
        <5>. TAKE p \in Observers
        <5>. HAVE observer'[p].pc # "idle"
        <5>1. observer[p].of \in Grabs /\ observer' = observer /\ download[observer[p].of].kind # "none"
          BY <1>1 DEF SubmissionTypeOK, RowsExist
        <5>. QED
          BY <4>1, <5>1
      <4>. QED
        BY <4>2, <4>3, <4>4 DEF RowsExist
    <3>7. GrabberKnows'
      <4>1. \A k \in Grabs : k # d => grabber'[k] = grabber[k] /\ download'[k] = download[k]
        BY <3>3
      <4>. QED
        BY <3>2, <3>5, <4>1 DEF GrabberKnows
    <3>. QED
      BY <1>1, <3>4, <3>6, <3>7
  <2>. QED
    BY <1>3, <2>1, <2>2 DEF Allocate, row
<1>4. ASSUME NEW t \in Titles, InsertManualAdditionalDownload(d, t)
      PROVE  BasicInv'
  <2>1. /\ grabber[d].pc = "idle"
        /\ download' = [download EXCEPT ![d] = row("manual", t, "pending")]
        /\ UNCHANGED grabber
    BY <1>4 DEF InsertManualAdditionalDownload, row
  <2>. QED
    BY <1>1, <1>2, <2>1 DEF SubmissionTypeOK, RowsExist, GrabberKnows
<1>5. CASE DeleteDownload(d)
  BY <1>1, <1>5 DEF DeleteDownload, SubmissionTypeOK, RowsExist, GrabberKnows
<1>. QED
  BY <1>1, <1>3, <1>4, <1>5

LEMMA AnswerStep ==
    ASSUME BasicInv, NEW d \in Grabs, AddAnswered(d)
    PROVE  /\ BasicInv' /\ RowsKept
           /\ \/ job' = job
              \/ UNCHANGED wire /\ Creates(d, job')
           /\ \A k \in Grabs : call'[k].pc = "send" => k # d /\ call[k].pc = "send"
           /\ wire' \in {wire, wire \cup {d}}
           /\ UNCHANGED <<capability, grabber, instance, download>>
<1>. USE DEF BasicInv
<1>1. call[d] \in Calls /\ call[d].pc = "send"
  BY RowTypes DEF AddAnswered
<1>2. UNCHANGED <<capability, download, grabber, observer, blocklist, pinned, instance>>
  BY DEF AddAnswered
<1>3. RowsKept
  BY <1>2, UnchangedRows
<1>4. /\ \/ job' = job
         \/ UNCHANGED wire /\ \E a \in AcceptedJobs(d) : job' = a.jobs
      /\ wire' \in {wire, wire \cup {d}}
      /\ subFaults' \in 0 .. MaxSubFaults
  BY SubmissionAssumption DEF AddAnswered, SubmissionTypeOK
<1>5. PICK answer \in {"accepted", "error", "refused"}, h \in AnyHandle :
        call' = [call EXCEPT ![d] = [@ EXCEPT !.pc = "answer", !.answer = answer, !.handle = h]]
  <2>1. ASSUME NEW a \in AcceptedJobs(d),
               call' = [call EXCEPT ![d].pc = "answer", ![d].answer = "accepted",
                                    ![d].handle = IF capability = "exact" THEN 0 ELSE a.handle]
        PROVE  \E h \in AnyHandle : call' = [call EXCEPT ![d] = [@ EXCEPT !.pc = "answer", !.answer = "accepted", !.handle = h]]
    <3>. DEFINE h == IF capability = "exact" THEN 0 ELSE a.handle
    <3>1. h \in AnyHandle
      BY AcceptedJobsAre, SubmissionAssumption DEF AnyHandle, Handles
    <3>2. call' = [call EXCEPT ![d].pc = "answer", ![d].answer = "accepted", ![d].handle = h]
      BY <2>1
    <3>. HIDE DEF h
    <3>3. call' = [call EXCEPT ![d] = [@ EXCEPT !.pc = "answer", !.answer = "accepted", !.handle = h]]
      BY <3>2 DEF SubmissionTypeOK
    <3>. QED
      BY <3>1, <3>3
  <2>2. ASSUME NEW answer \in {"error", "refused"},
               call' = [call EXCEPT ![d].pc = "answer", ![d].answer = answer]
        PROVE  call' = [call EXCEPT ![d] = [@ EXCEPT !.pc = "answer", !.answer = answer, !.handle = call[d].handle]]
    BY <2>2 DEF SubmissionTypeOK, Calls
  <2>3. call[d].handle \in AnyHandle
    BY <1>1 DEF Calls
  <2>. QED
    BY <2>1, <2>2, <2>3 DEF AddAnswered
<1>6. call' \in [Grabs -> Calls] /\ call'[d].pc = "answer" /\ \A k \in Grabs \ {d} : call'[k] = call[k]
  BY <1>1, <1>5 DEF SubmissionTypeOK, Calls
<1>7. job' \in [Handles -> ClientJobs] /\ (job' = job \/ (UNCHANGED wire /\ Creates(d, job')))
  BY <1>2, <1>4, AcceptedJobsAre, CreatedJobs DEF SubmissionTypeOK
<1>8. SubmissionTypeOK'
  BY <1>2, <1>4, <1>6, <1>7 DEF SubmissionTypeOK
<1>9. RowsExist' /\ GrabberKnows'
  BY <1>1, <1>2, <1>6 DEF RowsExist, GrabberKnows
<1>. QED
  BY <1>2, <1>3, <1>4, <1>6, <1>7, <1>8, <1>9

LEMMA LateStep ==
    ASSUME BasicInv, NEW d \in Grabs, AddArrivesLate(d)
    PROVE  /\ BasicInv' /\ RowsKept
           /\ job' = job \/ Creates(d, job')
           /\ d \in wire /\ wire' = wire \ {d}
           /\ UNCHANGED <<capability, grabber, instance, call, download>>
<1>. USE DEF BasicInv
<1>1. UNCHANGED <<capability, download, grabber, call, observer, blocklist, pinned, instance, subFaults>>
  BY DEF AddArrivesLate
<1>2. job' = job \/ Creates(d, job')
  BY AcceptedJobsAre DEF AddArrivesLate
<1>3. job' \in [Handles -> ClientJobs]
  BY <1>1, <1>2, CreatedJobs DEF SubmissionTypeOK
<1>4. d \in wire /\ wire' = wire \ {d}
  BY DEF AddArrivesLate
<1>. QED
  BY <1>1, <1>2, <1>3, <1>4, UnchangedRows DEF SubmissionTypeOK, RowsExist, GrabberKnows

LEMMA ReturnStep ==
    ASSUME BasicInv, NEW d \in Grabs, AddReturns(d)
    PROVE  /\ BasicInv' /\ RowsKept
           /\ \A k \in Grabs : call'[k].pc = "send" => call[k].pc = "send"
           /\ UNCHANGED <<capability, grabber, job, instance, wire>>
<1>. USE DEF BasicInv
<1>1. /\ call' = [call EXCEPT ![d] = NoSubmission]
      /\ UNCHANGED <<capability, grabber, observer, blocklist, pinned, job, instance, wire, subFaults>>
  BY DEF AddReturns, clientVars
<1>2. RowsKept /\ download' \in [Grabs -> Rows]
  BY AddReturnsWrites, WrittenRows
<1>3. \A k \in Grabs : call'[k] = call[k] \/ call'[k].pc = "none"
  BY <1>1, NoGrabTypes DEF SubmissionTypeOK
<1>4. SubmissionTypeOK'
  BY <1>1, <1>2, NoGrabTypes DEF SubmissionTypeOK
<1>5. RowsExist'
  <2>1. \A k \in Grabs : call'[k].pc # "none" => download[k].kind # "none"
    BY <1>3 DEF RowsExist
  <2>2. \A p \in Observers : observer'[p].pc # "idle" => observer'[p].of \in Grabs /\ download[observer'[p].of].kind # "none"
    BY <1>1 DEF RowsExist, SubmissionTypeOK
  <2>. QED
    BY <1>2, <2>1, <2>2, RowsExistKept
<1>6. GrabberKnows'
  BY <1>1, <1>2, GrabbersKept
<1>. QED
  BY <1>1, <1>2, <1>3, <1>4, <1>5, <1>6

LEMMA SendType ==
    ASSUME SubmissionTypeOK, NEW d \in Grabs, NEW who \in {"grab", "retry", "manual"}, Send(d, who)
    PROVE  /\ call' \in [Grabs -> Calls] /\ call'[d].pc = "send"
           /\ \A k \in Grabs \ {d} : call'[k] = call[k]
<1>1. [NoSubmission EXCEPT !.pc = "send", !.by = who] \in Calls /\ [NoSubmission EXCEPT !.pc = "send", !.by = who].pc = "send"
  BY NoGrabTypes DEF Calls
<1>. QED
  BY <1>1 DEF Send, SubmissionTypeOK

LEMMA SendStep ==
    ASSUME BasicInv, NEW d \in Grabs,
           ProcessRunnerSubmissionRetries(d) \/ ResumeManualRequest(d)
    PROVE  /\ BasicInv' /\ RowsKept
           /\ \A k \in Grabs \ {d} : call'[k] = call[k]
           /\ UNCHANGED <<capability, grabber, job, instance, wire>>
<1>. USE DEF BasicInv
<1>1. UNCHANGED <<capability, grabber, observer, blocklist, pinned, job, instance, wire, subFaults>>
  BY DEF ProcessRunnerSubmissionRetries, ResumeManualRequest, clientVars
<1>2. RowsKept /\ download' \in [Grabs -> Rows]
  BY RetryWrites, ResumeWrites, WrittenRows, UnchangedRows
<1>3. \/ UNCHANGED call
      \/ Send(d, "retry") \/ Send(d, "manual")
  BY DEF ProcessRunnerSubmissionRetries, ResumeManualRequest, RetryAutomaticSubmission, DispatchManualRequest
<1>4. call' \in [Grabs -> Calls] /\ \A k \in Grabs \ {d} : call'[k] = call[k]
  BY <1>3, SendType DEF SubmissionTypeOK
<1>5. download[d].kind # "none"
  BY DEF ProcessRunnerSubmissionRetries, ResumeManualRequest, AutomaticSubmissionRetryable, AutomaticSubmissionPending
<1>6. SubmissionTypeOK'
  BY <1>1, <1>2, <1>4 DEF SubmissionTypeOK
<1>7. RowsExist'
  <2>1. \A k \in Grabs : call'[k].pc # "none" => download[k].kind # "none"
    BY <1>4, <1>5 DEF RowsExist
  <2>2. \A p \in Observers : observer'[p].pc # "idle" => observer'[p].of \in Grabs /\ download[observer'[p].of].kind # "none"
    BY <1>1 DEF RowsExist, SubmissionTypeOK
  <2>. QED
    BY <1>2, <2>1, <2>2, RowsExistKept
<1>8. GrabberKnows'
  BY <1>1, <1>2, GrabbersKept
<1>. QED
  BY <1>1, <1>2, <1>4, <1>6, <1>7, <1>8

LEMMA WatchStep ==
    ASSUME BasicInv, NEW d \in Grabs,
           PollSees(d) \/ FlushPendingProgress(d) \/ \E h \in Handles : HandleEvent(d, h)
    PROVE  BasicInv' /\ RowsKept /\ UNCHANGED <<capability, grabber, call, job, instance, wire>>
<1>. USE DEF BasicInv
<1>1. UNCHANGED <<capability, download, grabber, call, blocklist, pinned, job, instance, wire, subFaults>>
  BY DEF PollSees, FlushPendingProgress, HandleEvent, clientVars
<1>2. d \in ListActiveDownloads \/ download[d].state = "downloading"
  BY DEF PollSees, FlushPendingProgress, HandleEvent
<1>3. download[d].kind # "none"
  BY <1>2 DEF ListActiveDownloads, ActiveGrab, RowsExist
<1>4. NoStatus \in Statuses /\ [NoStatus EXCEPT !.handle = download[d].handle, !.state = "running"] \in Statuses
  <2>1. download[d].handle \in AnyHandle /\ 0 \in AnyHandle
    BY RowTypes, SubmissionAssumption DEF Rows, AnyHandle
  <2>2. NoStatus \in Statuses
    BY <2>1 DEF NoStatus, Statuses, Lives
  <2>. QED
    BY <2>1, <2>2 DEF Statuses
<1>5. \E p \in Observers, source \in {"poll", "admission", "push", "flush"}, st \in Statuses : Watch(p, source, d, st)
  <2>1. ASSUME PollSees(d)
        PROVE  \E source \in {"poll", "admission"}, st \in Statuses : Watch("poll", source, d, st)
    BY <1>4, <2>1, MatchedStatuses DEF PollSees
  <2>2. ASSUME FlushPendingProgress(d)
        PROVE  \E st \in Statuses : Watch("push", "flush", d, st)
    BY <1>4, <2>2 DEF FlushPendingProgress
  <2>3. ASSUME NEW h \in Handles, HandleEvent(d, h)
        PROVE  \E st \in Statuses : Watch("push", "push", d, st)
    BY <2>3, MatchedStatuses DEF HandleEvent
  <2>. QED
    BY <2>1, <2>2, <2>3 DEF Observers
<1>6. PICK p \in Observers, source \in {"poll", "admission", "push", "flush"}, st \in Statuses :
        observer' = [observer EXCEPT ![p] = [pc |-> "seen", source |-> source, of |-> d, st |-> {st}]]
  BY <1>5 DEF Watch
<1>7. [pc |-> "seen", source |-> source, of |-> d, st |-> {st}] \in Watches
  BY DEF Watches
<1>8. SubmissionTypeOK'
  BY <1>1, <1>6, <1>7 DEF SubmissionTypeOK
<1>9. RowsExist' /\ GrabberKnows'
  BY <1>1, <1>3, <1>6, <1>7 DEF RowsExist, GrabberKnows, SubmissionTypeOK
<1>. QED
  BY <1>1, <1>8, <1>9, UnchangedRows

LEMMA ObserveStep ==
    ASSUME BasicInv, NEW p \in Observers, ReconcileDownload(p) \/ ReconcileApplies(p)
    PROVE  BasicInv' /\ RowsKept /\ UNCHANGED <<capability, grabber, call, job, instance, wire>>
<1>. USE DEF BasicInv
<1>1. UNCHANGED <<capability, grabber, call, job, instance, wire, subFaults>>
  BY DEF ReconcileDownload, ReconcileApplies, clientVars
<1>2. observer[p].of \in Grabs /\ observer[p].pc # "idle" /\ Writes(observer[p].of)
  BY ReconcileDownloadWrites, ReconcileAppliesWrites
<1>3. RowsKept /\ download' \in [Grabs -> Rows]
  BY <1>2, WrittenRows
<1>4. blocklist' \subseteq Titles \cup {"none"} /\ pinned' \in 0 .. 2
  <2>1. CASE ReconcileDownload(p)
    BY <2>1, ReconcileDownloadWrites DEF ReconcileDownload, SubmissionTypeOK
  <2>2. CASE ReconcileApplies(p)
    BY <2>2, ReconcileAppliesWrites DEF ReconcileApplies, SubmissionTypeOK
  <2>. QED
    BY <2>1, <2>2
<1>5. \/ observer' = [observer EXCEPT ![p] = NotObserving]
      \/ \E st \in Statuses : observer' = [observer EXCEPT ![p].pc = "bind", ![p].st = {st}]
  BY ReconcileDownloadWrites DEF ReconcileApplies, Ends
<1>6. /\ observer' \in [Observers -> Watches]
      /\ \A q \in Observers : observer'[q].pc # "idle" => observer[q].pc # "idle" /\ observer'[q].of = observer[q].of
  <2>1. CASE observer' = [observer EXCEPT ![p] = NotObserving]
    BY <2>1, NoGrabTypes DEF SubmissionTypeOK
  <2>2. ASSUME NEW st \in Statuses, observer' = [observer EXCEPT ![p].pc = "bind", ![p].st = {st}]
        PROVE  /\ observer' \in [Observers -> Watches]
               /\ \A q \in Observers : observer'[q].pc # "idle" => observer[q].pc # "idle" /\ observer'[q].of = observer[q].of
    <3>1. observer \in [Observers -> Watches]
      BY DEF SubmissionTypeOK
    <3>. DEFINE new == [observer[p] EXCEPT !.pc = "bind", !.st = {st}]
    <3>2. new \in Watches /\ new.of = observer[p].of
      BY <3>1 DEF Watches
    <3>3. observer' = [observer EXCEPT ![p] = new]
      BY <2>2
    <3>. HIDE DEF new
    <3>. QED
      BY <1>2, <3>1, <3>2, <3>3
  <2>. QED
    BY <1>5, <2>1, <2>2
<1>7. SubmissionTypeOK'
  BY <1>1, <1>3, <1>4, <1>6 DEF SubmissionTypeOK
<1>8. RowsExist'
  <2>1. \A q \in Observers : observer'[q].pc # "idle" => observer'[q].of \in Grabs /\ download[observer'[q].of].kind # "none"
    BY <1>6 DEF RowsExist, SubmissionTypeOK
  <2>2. \A k \in Grabs : call'[k].pc # "none" => download[k].kind # "none"
    BY <1>1 DEF RowsExist
  <2>. QED
    BY <1>3, <2>1, <2>2, RowsExistKept
<1>9. GrabberKnows'
  BY <1>1, <1>3, GrabbersKept
<1>. QED
  BY <1>1, <1>3, <1>7, <1>8, <1>9

LEMMA SettleStep ==
    ASSUME BasicInv, NEW d \in Grabs, RemoveDownload(d) \/ ImportSettles(d)
    PROVE  /\ BasicInv' /\ RowsKept
           /\ \A h \in Handles : job'[h].token = job[h].token /\ job'[h].instance = job[h].instance
           /\ UNCHANGED <<capability, grabber, call, instance, wire>>
<1>. USE DEF BasicInv
<1>1. UNCHANGED <<capability, grabber, call, observer, blocklist, pinned, instance, wire, subFaults>>
  BY DEF RemoveDownload, ImportSettles, clientVars
<1>2. RowsKept /\ download' \in [Grabs -> Rows]
  BY RemoveDownloadWrites, ImportSettlesWrites, WrittenRows
<1>3. /\ job' \in [Handles -> ClientJobs]
      /\ \A h \in Handles : job'[h].token = job[h].token /\ job'[h].instance = job[h].instance
  BY RemoveDownloadWrites DEF ImportSettles, clientVars, SubmissionTypeOK
<1>4. SubmissionTypeOK'
  BY <1>1, <1>2, <1>3 DEF SubmissionTypeOK
<1>5. RowsExist'
  <2>1. \A q \in Observers : observer'[q].pc # "idle" => observer'[q].of \in Grabs /\ download[observer'[q].of].kind # "none"
    BY <1>1 DEF RowsExist, SubmissionTypeOK
  <2>2. \A k \in Grabs : call'[k].pc # "none" => download[k].kind # "none"
    BY <1>1 DEF RowsExist
  <2>. QED
    BY <1>2, <2>1, <2>2, RowsExistKept
<1>6. GrabberKnows'
  BY <1>1, <1>2, GrabbersKept
<1>. QED
  BY <1>1, <1>2, <1>3, <1>4, <1>5, <1>6

\* A job whose fields change to values of their sets, but for the token and
\* the instance, stays a job.
LEMMA JobKept ==
    ASSUME job \in [Handles -> ClientJobs], NEW h \in Handles, NEW new \in ClientJobs,
           new.token = job[h].token, new.instance = job[h].instance,
           job' = [job EXCEPT ![h] = new]
    PROVE  /\ job' \in [Handles -> ClientJobs]
           /\ \A k \in Handles : job'[k].token = job[k].token /\ job'[k].instance = job[k].instance
OBVIOUS

\* One field of a job at a time.
LEMMA JobFields ==
    ASSUME NEW r \in ClientJobs
    PROVE  /\ \A state \in {"completed", "failed", "removed"} :
                [r EXCEPT !.state = state] \in ClientJobs
           /\ \A c \in {"runner_owned", "settled", "none", "deleted_by_runner"} :
                [r EXCEPT !.custody = c] \in ClientJobs
           /\ \A life \in Lives : [r EXCEPT !.life = life] \in ClientJobs
           /\ [r EXCEPT !.revision = @ + 1] \in ClientJobs
           /\ [r EXCEPT !.shown = TRUE] \in ClientJobs
<1>1. \A state \in {"completed", "failed", "removed"} : [r EXCEPT !.state = state] \in ClientJobs
  BY DEF ClientJobs
<1>2. \A c \in {"runner_owned", "settled", "none", "deleted_by_runner"} : [r EXCEPT !.custody = c] \in ClientJobs
  BY DEF ClientJobs
<1>3. \A life \in Lives : [r EXCEPT !.life = life] \in ClientJobs
  BY DEF ClientJobs
<1>4. [r EXCEPT !.revision = @ + 1] \in ClientJobs
  BY DEF ClientJobs
<1>5. [r EXCEPT !.shown = TRUE] \in ClientJobs
  BY DEF ClientJobs
<1>. QED
  BY <1>1, <1>2, <1>3, <1>4, <1>5

LEMMA ClientStep ==
    ASSUME BasicInv,
           \/ \E h \in Handles : JobEnds(h) \/ JobCleaned(h) \/ JobControl(h) \/ JobShown(h)
           \/ ClientFault
    PROVE  /\ BasicInv' /\ RowsKept
           /\ \A h \in Handles : job'[h].token = job[h].token /\ job'[h].instance = job[h].instance
           /\ UNCHANGED <<capability, grabber, call, download>> /\ wire' \subseteq wire
           /\ \/ UNCHANGED instance
              \/ Idempotent /\ instance = 1 /\ instance' = 2
<1>. USE DEF BasicInv
<1>1. UNCHANGED <<capability, download, grabber, call, observer, blocklist, pinned>> /\ wire' \subseteq wire
  BY DEF JobEnds, JobCleaned, JobControl, JobShown, ClientFault
<1>2. UNCHANGED instance \/ (Idempotent /\ instance = 1 /\ instance' = 2)
  BY DEF JobEnds, JobCleaned, JobControl, JobShown, ClientFault
<1>3. subFaults' \in 0 .. MaxSubFaults
  <2>1. subFaults' = subFaults \/ (subFaults < MaxSubFaults /\ subFaults' = subFaults + 1)
    BY DEF JobEnds, JobCleaned, JobControl, JobShown, ClientFault
  <2>. QED
    BY <2>1, SubmissionAssumption DEF SubmissionTypeOK
<1>. DEFINE Kept == /\ job' \in [Handles -> ClientJobs]
                    /\ \A h \in Handles : job'[h].token = job[h].token /\ job'[h].instance = job[h].instance
<1>4. Kept
  <2>. job \in [Handles -> ClientJobs]
    BY DEF SubmissionTypeOK
  <2>. SUFFICES ASSUME job' # job
                PROVE  Kept
    OBVIOUS
  <2>1. ASSUME NEW h \in Handles, JobEnds(h)
        PROVE  Kept
    <3>1. PICK state \in {"completed", "failed"}, c \in {"runner_owned", "settled", "none"}, life \in {"failed", "succeeded"} :
            job' = [job EXCEPT ![h].state = state, ![h].custody = c, ![h].life = life, ![h].revision = @ + 1]
      BY <2>1 DEF JobEnds
    <3>. DEFINE new == [job[h] EXCEPT !.state = state, !.custody = c, !.life = life, !.revision = @ + 1]
    <3>2. new \in ClientJobs
      <4>. DEFINE ended == [job[h] EXCEPT !.state = state]
                  settled == [ended EXCEPT !.custody = c]
                  lived == [settled EXCEPT !.life = life]
      <4>1. ended \in ClientJobs
        BY JobFields
      <4>2. settled \in ClientJobs
        BY <4>1, JobFields
      <4>3. lived \in ClientJobs
        BY <4>2, JobFields DEF Lives
      <4>. QED
        BY <4>3, JobFields
    <3>a. new.token = job[h].token /\ new.instance = job[h].instance
      BY DEF ClientJobs
    <3>3. job' = [job EXCEPT ![h] = new]
      BY <3>1
    <3>. HIDE DEF new
    <3>. QED
      BY <3>2, <3>a, <3>3, JobKept
  <2>2. ASSUME NEW h \in Handles, JobCleaned(h)
        PROVE  Kept
    <3>. DEFINE new == [job[h] EXCEPT !.custody = "settled"]
    <3>1. new \in ClientJobs /\ new.token = job[h].token /\ new.instance = job[h].instance
      BY DEF ClientJobs
    <3>2. job' = [job EXCEPT ![h] = new]
      BY <2>2 DEF JobCleaned
    <3>. HIDE DEF new
    <3>. QED
      BY <3>1, <3>2, JobKept
  <2>3. ASSUME NEW h \in Handles, JobControl(h)
        PROVE  Kept
    <3>1. PICK life \in {"running", "held"} :
            job' = [job EXCEPT ![h].revision = @ + 1, ![h].life = life]
      BY <2>3 DEF JobControl
    <3>. DEFINE new == [job[h] EXCEPT !.revision = @ + 1, !.life = life]
    <3>2. new \in ClientJobs
      <4>. DEFINE later == [job[h] EXCEPT !.revision = @ + 1]
      <4>1. later \in ClientJobs
        BY JobFields
      <4>. QED
        BY <4>1, JobFields DEF Lives
    <3>a. new.token = job[h].token /\ new.instance = job[h].instance
      BY DEF ClientJobs
    <3>3. job' = [job EXCEPT ![h] = new]
      BY <3>1
    <3>. HIDE DEF new
    <3>. QED
      BY <3>2, <3>a, <3>3, JobKept
  <2>4. ASSUME NEW h \in Handles, JobShown(h)
        PROVE  Kept
    <3>. DEFINE new == [job[h] EXCEPT !.shown = TRUE]
    <3>1. new \in ClientJobs /\ new.token = job[h].token /\ new.instance = job[h].instance
      BY DEF ClientJobs
    <3>2. job' = [job EXCEPT ![h] = new]
      BY <2>4 DEF JobShown
    <3>. HIDE DEF new
    <3>. QED
      BY <3>1, <3>2, JobKept
  <2>5. CASE ClientFault
    <3>1. PICK h \in Handles : job' = [job EXCEPT ![h].state = "removed", ![h].custody = "deleted_by_runner"]
      BY <2>5 DEF ClientFault
    <3>. DEFINE new == [job[h] EXCEPT !.state = "removed", !.custody = "deleted_by_runner"]
    <3>2. new \in ClientJobs
      <4>. DEFINE ended == [job[h] EXCEPT !.state = "removed"]
      <4>1. ended \in ClientJobs
        BY JobFields
      <4>. QED
        BY <4>1, JobFields
    <3>a. new.token = job[h].token /\ new.instance = job[h].instance
      BY DEF ClientJobs
    <3>3. job' = [job EXCEPT ![h] = new]
      BY <3>1
    <3>. HIDE DEF new
    <3>. QED
      BY <3>2, <3>a, <3>3, JobKept
  <2>. HIDE DEF Kept
  <2>. QED
    BY <2>1, <2>2, <2>3, <2>4, <2>5
<1>5. SubmissionTypeOK'
  BY <1>1, <1>2, <1>3, <1>4 DEF SubmissionTypeOK
<1>. QED
  BY <1>1, <1>2, <1>4, <1>5, UnchangedRows DEF RowsExist, GrabberKnows

LEMMA CrashStep ==
    ASSUME BasicInv, SubmissionCrash
    PROVE  /\ BasicInv' /\ RowsKept
           /\ \A d \in Grabs : call'[d].pc = "none" /\ grabber'[d].pc = "idle"
           /\ wire' \in {wire, wire \cup {d \in Grabs : call[d].pc = "send"}}
           /\ UNCHANGED <<capability, download, job, instance>>
<1>. USE DEF BasicInv
<1>1. /\ UNCHANGED <<capability, download, blocklist, pinned, job, instance>>
      /\ grabber' = [d \in Grabs |-> NoGrabber]
      /\ call' = [d \in Grabs |-> NoSubmission]
      /\ observer' = [p \in Observers |-> NotObserving]
      /\ wire' \in {wire, wire \cup {d \in Grabs : call[d].pc = "send"}}
      /\ subFaults < MaxSubFaults /\ subFaults' = subFaults + 1
  BY DEF SubmissionCrash
<1>2. wire' \subseteq Grabs /\ subFaults' \in 0 .. MaxSubFaults
  BY <1>1, SubmissionAssumption DEF SubmissionTypeOK
<1>3. /\ \A d \in Grabs : call'[d].pc = "none" /\ grabber'[d].pc = "idle"
      /\ \A p \in Observers : observer'[p].pc = "idle"
  BY <1>1, NoGrabTypes
<1>4. SubmissionTypeOK'
  BY <1>1, <1>2, <1>3, NoGrabTypes DEF SubmissionTypeOK
<1>. QED
  BY <1>1, <1>3, <1>4, UnchangedRows DEF RowsExist, GrabberKnows

-----------------------------------------------------------------------------
(* One job per request. *)

\* A step that keeps the tokens of the jobs, sends nothing and puts no row
\* back keeps the argument.
LEMMA QuietStep ==
    ASSUME BasicInv, JobInv, RowsKept,
           \A h \in Handles : job'[h].token = job[h].token /\ job'[h].instance = job[h].instance,
           UNCHANGED <<capability, instance>>, wire' \subseteq wire \cup {d \in Grabs : call[d].pc = "send" /\ call'[d].pc # "send"},
           \A d \in Grabs : grabber'[d].pc = "inserted" => grabber[d].pc = "inserted",
           \A d \in Grabs : call'[d].pc = "send" => call[d].pc = "send"
    PROVE  JobInv'
<1>1. \A d \in Grabs : JobsOf(d)' = JobsOf(d)
  BY DEF JobsOf
<1>2. \A d \in Grabs : Unsent(d)' => Unsent(d)
  BY DEF Unsent, RowsKept, SameRequest
<1>3. \A d \in Grabs : InFlight(d)' => InFlight(d)
  BY DEF InFlight
<1>4. \A d \in Grabs : call'[d].pc = "send" /\ d \in wire' => call[d].pc = "send" /\ d \in wire
  OBVIOUS
<1>5. AskedOnce'
  BY <1>1, <1>2, <1>3, <1>4 DEF JobInv, AskedOnce, Idempotent
<1>. QED
  BY <1>1, <1>5 DEF JobInv, JobsOfKnownInstallations, UniqueJobs

\* A request that is sent is no longer one that may be sent.
LEMMA SendingStep ==
    ASSUME BasicInv, JobInv, RowsKept, NEW d \in Grabs,
           ~Idempotent => Unsent(d) /\ ~Unsent(d)',
           \A k \in Grabs \ {d} : call'[k] = call[k] /\ grabber'[k] = grabber[k],
           UNCHANGED <<capability, job, instance, wire>>
    PROVE  JobInv'
<1>1. \A k \in Grabs : JobsOf(k)' = JobsOf(k)
  BY DEF JobsOf
<1>2. \A k \in Grabs \ {d} : Unsent(k)' => Unsent(k)
  BY DEF Unsent, RowsKept, SameRequest
<1>3. \A k \in Grabs \ {d} : InFlight(k)' <=> InFlight(k)
  BY DEF InFlight
<1>4. AskedOnce'
  <2>. SUFFICES ASSUME ~Idempotent', NEW k \in Grabs
                PROVE  /\ Unsent(k)' => ~InFlight(k)'
                       /\ Unsent(k)' \/ InFlight(k)' => JobsOf(k)' = {}
                       /\ call'[k].pc = "send" => k \notin wire'
    BY DEF AskedOnce
  <2>1. ~Idempotent
    BY DEF Idempotent
  <2>2. CASE k = d
    <3>1. ~InFlight(d) /\ JobsOf(d) = {} /\ d \notin wire /\ ~Unsent(d)'
      BY <2>1 DEF JobInv, AskedOnce, InFlight
    <3>. QED
      BY <1>1, <2>2, <3>1
  <2>3. CASE k # d
    BY <1>1, <1>2, <1>3, <2>1, <2>3 DEF JobInv, AskedOnce
  <2>. QED
    BY <2>2, <2>3
<1>. QED
  BY <1>1, <1>4 DEF JobInv, JobsOfKnownInstallations, UniqueJobs

\* The client creates the job of a request that was in flight.
LEMMA CreatingStep ==
    ASSUME BasicInv, JobInv, NEW d \in Grabs, Creates(d, job'), InFlight(d),
           ~Idempotent => ~InFlight(d)' /\ wire' \subseteq wire,
           \A k \in Grabs \ {d} : (call'[k].pc = "send" => call[k].pc = "send") /\ (k \in wire' => k \in wire),
           UNCHANGED <<capability, grabber, instance, download>>
    PROVE  JobInv'
<1>1. /\ \E h \in Handles : JobsOf(d)' = JobsOf(d) \cup {h}
      /\ \A k \in Grabs \ {d} : JobsOf(k)' = JobsOf(k)
      /\ JobsOfKnownInstallations'
  BY CreatedJobs DEF BasicInv, JobInv
<1>2. JobsOf(d) = {}
  BY DEF Creates, JobInv, AskedOnce
<1>3. UniqueJobs'
  BY <1>1, <1>2 DEF JobInv, UniqueJobs
<1>4. AskedOnce'
  <2>. SUFFICES ASSUME ~Idempotent', NEW k \in Grabs
                PROVE  /\ Unsent(k)' => ~InFlight(k)'
                       /\ Unsent(k)' \/ InFlight(k)' => JobsOf(k)' = {}
                       /\ call'[k].pc = "send" => k \notin wire'
    BY DEF AskedOnce
  <2>1. ~Idempotent /\ (Unsent(k)' <=> Unsent(k))
    BY DEF Idempotent, Unsent
  <2>2. CASE k = d
    BY <2>1, <2>2 DEF JobInv, AskedOnce, InFlight
  <2>3. CASE k # d
    BY <1>1, <2>1, <2>3 DEF JobInv, AskedOnce, InFlight
  <2>. QED
    BY <2>2, <2>3
<1>. QED
  BY <1>1, <1>3, <1>4 DEF JobInv

LEMMA OneJobStep ==
    ASSUME BasicInv, JobInv, [SubNext]_subVars
    PROVE  BasicInv' /\ JobInv'
<1>1. ASSUME NEW d \in Grabs, NEW t \in Titles, GrabChecks(d, t)
      PROVE  BasicInv' /\ JobInv'
  <2>1. BasicInv' /\ RowsKept
    BY <1>1, GrabStep
  <2>2. /\ UNCHANGED <<capability, call, job, instance, wire>>
        /\ \A k \in Grabs : grabber'[k].pc = "inserted" => grabber[k].pc = "inserted"
    BY <1>1 DEF GrabChecks, clientVars, BasicInv, SubmissionTypeOK
  <2>. QED
    BY <2>1, <2>2, QuietStep
<1>2. ASSUME NEW d \in Grabs, NEW t \in Titles, InsertManualAdditionalDownload(d, t)
      PROVE  BasicInv' /\ JobInv'
  <2>1. BasicInv' /\ UNCHANGED <<capability, call, job, instance, wire>>
    BY <1>2, InsertStep
  <2>2. /\ download[d].kind = "none" /\ UNCHANGED grabber
        /\ \A k \in Grabs \ {d} : download'[k] = download[k]
    BY <1>2, NoGrabTypes DEF InsertManualAdditionalDownload, BasicInv, SubmissionTypeOK
  <2>3. \A k \in Grabs : (Unsent(k)' => Unsent(k)) /\ (InFlight(k)' <=> InFlight(k)) /\ JobsOf(k)' = JobsOf(k)
    BY <2>1, <2>2 DEF Unsent, InFlight, JobsOf
  <2>. QED
    BY <2>1, <2>3 DEF JobInv, AskedOnce, JobsOfKnownInstallations, UniqueJobs, Idempotent
<1>3. ASSUME NEW d \in Grabs, Allocate(d) \/ DeleteDownload(d)
      PROVE  BasicInv' /\ JobInv'
  <2>1. BasicInv' /\ UNCHANGED <<capability, call, job, instance, wire>>
    BY <1>3, InsertStep
  <2>2. \A k \in Grabs : (Unsent(k)' => Unsent(k)) /\ (InFlight(k)' <=> InFlight(k)) /\ JobsOf(k)' = JobsOf(k)
    <3>1. CASE Allocate(d)
      <4>1. Unsent(d)
        BY <3>1 DEF Allocate, Unsent, BasicInv, GrabberKnows
      <4>2. \A k \in Grabs \ {d} : download'[k] = download[k] /\ grabber'[k] = grabber[k]
        BY <3>1 DEF Allocate, BasicInv, SubmissionTypeOK
      <4>. QED
        BY <2>1, <4>1, <4>2 DEF Unsent, InFlight, JobsOf
    <3>2. CASE DeleteDownload(d)
      <4>1. /\ UNCHANGED grabber /\ download'[d].kind = "deleted"
            /\ \A k \in Grabs \ {d} : download'[k] = download[k]
        BY <3>2, NoGrabTypes DEF DeleteDownload, BasicInv, SubmissionTypeOK
      <4>. QED
        BY <2>1, <4>1 DEF Unsent, InFlight, JobsOf
    <3>. QED
      BY <1>3, <3>1, <3>2
  <2>. QED
    BY <2>1, <2>2 DEF JobInv, AskedOnce, JobsOfKnownInstallations, UniqueJobs, Idempotent
<1>4. ASSUME NEW d \in Grabs, Submit(d)
      PROVE  BasicInv' /\ JobInv'
  <2>1. BasicInv' /\ RowsKept
    BY <1>4, GrabStep
  <2>2. /\ grabber[d].pc = "inserted" /\ grabber'[d].pc = "idle"
        /\ UNCHANGED <<capability, download, job, instance, wire>>
        /\ \A k \in Grabs \ {d} : grabber'[k] = grabber[k]
    BY <1>4, NoGrabTypes DEF Submit, clientVars, BasicInv, SubmissionTypeOK
  <2>3. \A k \in Grabs \ {d} : call'[k] = call[k]
    BY <1>4, SendType DEF Submit, BasicInv
  <2>4. Unsent(d)
    BY <2>2 DEF Unsent
  <2>5. ~Unsent(d)'
    BY <2>2 DEF Unsent, BasicInv, GrabberKnows
  <2>. QED
    BY <2>1, <2>2, <2>3, <2>4, <2>5, SendingStep
<1>5. ASSUME NEW d \in Grabs, AddAnswered(d)
      PROVE  BasicInv' /\ JobInv'
  <2>1. /\ BasicInv' /\ RowsKept
        /\ job' = job \/ (UNCHANGED wire /\ Creates(d, job'))
        /\ \A k \in Grabs : call'[k].pc = "send" => k # d /\ call[k].pc = "send"
        /\ wire' \in {wire, wire \cup {d}}
        /\ UNCHANGED <<capability, grabber, instance, download>>
    BY <1>5, AnswerStep
  <2>2. call[d].pc = "send"
    BY <1>5 DEF AddAnswered
  <2>3. CASE job' = job
    BY <2>1, <2>2, <2>3, QuietStep
  <2>4. CASE UNCHANGED wire /\ Creates(d, job')
    <3>1. ~Idempotent => ~InFlight(d)'
      BY <2>1, <2>2, <2>4 DEF InFlight, JobInv, AskedOnce
    <3>. QED
      BY <2>1, <2>2, <2>4, <3>1, CreatingStep DEF InFlight
  <2>. QED
    BY <2>1, <2>3, <2>4
<1>6. ASSUME NEW d \in Grabs, AddArrivesLate(d)
      PROVE  BasicInv' /\ JobInv'
  <2>1. /\ BasicInv' /\ RowsKept
        /\ job' = job \/ Creates(d, job')
        /\ d \in wire /\ wire' = wire \ {d}
        /\ UNCHANGED <<capability, grabber, instance, call, download>>
    BY <1>6, LateStep
  <2>2. CASE job' = job
    BY <2>1, <2>2, QuietStep
  <2>3. CASE Creates(d, job')
    <3>1. ~Idempotent => ~InFlight(d)'
      BY <2>1 DEF InFlight, JobInv, AskedOnce
    <3>. QED
      BY <2>1, <2>3, <3>1, CreatingStep DEF InFlight
  <2>. QED
    BY <2>1, <2>2, <2>3
<1>7. ASSUME NEW d \in Grabs, AddReturns(d)
      PROVE  BasicInv' /\ JobInv'
  BY <1>7, ReturnStep, QuietStep
<1>8. ASSUME NEW d \in Grabs, ProcessRunnerSubmissionRetries(d)
      PROVE  BasicInv' /\ JobInv'
  <2>1. Idempotent
    BY <1>8 DEF ProcessRunnerSubmissionRetries, AutomaticSubmissionRetryable
  <2>. QED
    BY <1>8, <2>1, SendStep, SendingStep
<1>9. ASSUME NEW d \in Grabs, ResumeManualRequest(d)
      PROVE  BasicInv' /\ JobInv'
  <2>1. /\ BasicInv' /\ RowsKept
        /\ \A k \in Grabs \ {d} : call'[k] = call[k]
        /\ UNCHANGED <<capability, grabber, job, instance, wire>>
    BY <1>9, SendStep
  <2>2. CASE UNCHANGED call
    BY <2>1, <2>2, QuietStep
  <2>3. CASE ~UNCHANGED call /\ ~Idempotent
    <3>1. download[d].kind = "manual" /\ download[d].phase = "pending"
      BY <1>9, <2>3 DEF ResumeManualRequest
    <3>2. download' = [download EXCEPT ![d] = SetSubmissionPhase(@, "submitting")]
      BY <1>9, <2>3 DEF ResumeManualRequest, DispatchManualRequest
    <3>3. download'[d].kind = "manual" /\ download'[d].phase = "submitting"
      BY <3>1, <3>2, RowTypes DEF BasicInv, SubmissionTypeOK, Rows, SetSubmissionPhase
    <3>4. Unsent(d)
      BY <3>1 DEF Unsent
    <3>5. ~Unsent(d)'
      BY <2>1, <3>1, <3>3 DEF Unsent, BasicInv, GrabberKnows
    <3>. QED
      BY <2>1, <2>3, <3>4, <3>5, SendingStep
  <2>4. CASE Idempotent
    BY <2>1, <2>4, SendingStep
  <2>. QED
    BY <2>1, <2>2, <2>3, <2>4
<1>10. ASSUME NEW d \in Grabs,
              PollSees(d) \/ FlushPendingProgress(d) \/ \E h \in Handles : HandleEvent(d, h)
       PROVE  BasicInv' /\ JobInv'
  BY <1>10, WatchStep, QuietStep
<1>11. ASSUME NEW p \in Observers, ReconcileDownload(p) \/ ReconcileApplies(p)
       PROVE  BasicInv' /\ JobInv'
  BY <1>11, ObserveStep, QuietStep
<1>12. ASSUME NEW d \in Grabs, RemoveDownload(d) \/ ImportSettles(d)
       PROVE  BasicInv' /\ JobInv'
  BY <1>12, SettleStep, QuietStep
<1>13. CASE \/ \E h \in Handles : JobEnds(h) \/ JobCleaned(h) \/ JobControl(h) \/ JobShown(h)
            \/ ClientFault
  <2>1. /\ BasicInv' /\ RowsKept
        /\ \A h \in Handles : job'[h].token = job[h].token /\ job'[h].instance = job[h].instance
        /\ UNCHANGED <<capability, grabber, call, download>> /\ wire' \subseteq wire
        /\ UNCHANGED instance \/ (Idempotent /\ instance = 1 /\ instance' = 2)
    BY <1>13, ClientStep
  <2>2. CASE UNCHANGED instance
    BY <2>1, <2>2, QuietStep
  <2>3. CASE Idempotent /\ instance = 1 /\ instance' = 2
    <3>1. \A h \in Handles : job'[h].instance # 2 /\ job'[h].instance <= 2
      BY <2>1, <2>3 DEF JobInv, JobsOfKnownInstallations, BasicInv, SubmissionTypeOK, ClientJobs
    <3>2. \A d \in Grabs : JobsOf(d)' = {}
      BY <2>3, <3>1 DEF JobsOf
    <3>3. Idempotent'
      BY <2>1, <2>3 DEF Idempotent
    <3>. QED
      BY <2>1, <2>3, <3>1, <3>2, <3>3 DEF JobInv, AskedOnce, UniqueJobs, JobsOfKnownInstallations
  <2>. QED
    BY <2>1, <2>2, <2>3
<1>14. CASE SubmissionCrash
  BY <1>14, CrashStep, QuietStep
<1>15. CASE UNCHANGED subVars
  <2>1. BasicInv'
    BY <1>15 DEF subVars, BasicInv, SubmissionTypeOK, RowsExist, GrabberKnows
  <2>2. UNCHANGED <<capability, download, grabber, call, job, instance, wire>>
    BY <1>15 DEF subVars
  <2>. QED
    BY <2>1, <2>2, UnchangedRows, QuietStep DEF BasicInv
<1>. QED
  BY <1>1, <1>2, <1>3, <1>4, <1>5, <1>6, <1>7, <1>8, <1>9, <1>10, <1>11, <1>12, <1>13, <1>14, <1>15 DEF SubNext

LEMMA ForeignJobType ==
    ASSUME NEW t \in Titles
    PROVE  ForeignJob(t) \in ClientJobs /\ ForeignJob(t).token = 0 /\ ForeignJob(t).instance = 1
<1>. DEFINE shown == TRUE
            first == 1
            started == [NoClientJob EXCEPT !.title = t, !.state = "running"]
            placed == [started EXCEPT !.instance = first, !.shown = shown]
<1>1. started \in ClientJobs /\ started.token = 0
  BY NoGrabTypes DEF ClientJobs
<1>2. shown \in BOOLEAN /\ first \in 0 .. 2
  OBVIOUS
<1>3. placed = ForeignJob(t)
  BY DEF ForeignJob
<1>. HIDE DEF started, shown, first
<1>4. placed \in ClientJobs /\ placed.token = 0 /\ placed.instance = first
  BY <1>1, <1>2 DEF ClientJobs
<1>. QED
  BY <1>3, <1>4 DEF first

LEMMA OneJobInit == SubInit => BasicInv /\ JobInv
<1>. SUFFICES ASSUME SubInit
              PROVE  BasicInv /\ JobInv
  OBVIOUS
<1>1. \A h \in Handles : job[h] = NoClientJob \/ \E t \in Titles : job[h] = ForeignJob(t)
  BY DEF SubInit
<1>2. /\ job \in [Handles -> ClientJobs]
      /\ \A h \in Handles : job[h].token = 0 /\ job[h].instance <= 1
  <2>1. DOMAIN job = Handles /\ job = [h \in Handles |-> job[h]]
    BY DEF SubInit
  <2>2. NoClientJob \in ClientJobs /\ NoClientJob.token = 0 /\ NoClientJob.instance = 0
    BY NoGrabTypes DEF NoClientJob
  <2>. QED
    BY <1>1, <2>1, <2>2, ForeignJobType
<1>3. pinned \in 0 .. 2 /\ instance \in 1 .. 2
  <2>1. pinned = 0 /\ instance = 1
    BY DEF SubInit
  <2>. QED
    BY <2>1
<1>. USE NoGrabTypes
<1>4. SubmissionTypeOK
  <2>1. download \in [Grabs -> Rows]
    BY DEF SubInit
  <2>2. grabber \in [Grabs -> Grabbers] /\ call \in [Grabs -> Calls]
    BY DEF SubInit
  <2>4. observer \in [Observers -> Watches] /\ \A p \in Observers : observer[p].pc = "idle"
    BY DEF SubInit
  <2>3. /\ capability \in {"idempotent", "exact", "legacy"} /\ blocklist = {} /\ pinned = 0 /\ instance = 1
        /\ wire = {} /\ subFaults \in 0 .. MaxSubFaults
    BY DEF SubInit
  <2>. QED
    <3>1. \A p \in Observers : observer[p].pc # "idle" => observer[p].of \in Grabs
      BY <2>4
    <3>2. blocklist \subseteq Titles \cup {"none"} /\ wire \subseteq Grabs
      BY <2>3
    <3>. QED
      BY <1>2, <1>3, <2>1, <2>2, <2>3, <2>4, <3>1, <3>2, Zenon DEF SubmissionTypeOK
<1>5. RowsExist /\ GrabberKnows
  <2>1. \A d \in Grabs : download[d] = NoGrab \/ download[d] = DeletedRow
    BY DEF SubInit
  <2>2. /\ \A d \in Grabs : grabber[d].pc = "idle" /\ call[d].pc = "none"
        /\ \A p \in Observers : observer[p].pc = "idle"
    BY DEF SubInit
  <2>. QED
    BY <2>1, <2>2 DEF RowsExist, GrabberKnows
<1>6. \A d \in Grabs : JobsOf(d) = {}
  BY <1>2, SubmissionAssumption DEF JobsOf
<1>7. \A d \in Grabs : ~InFlight(d)
  BY DEF SubInit, InFlight
<1>8. AskedOnce
  BY <1>6, <1>7 DEF AskedOnce, InFlight
<1>9. JobsOfKnownInstallations
  BY <1>2 DEF SubInit, JobsOfKnownInstallations
<1>. QED
  BY <1>4, <1>5, <1>6, <1>8, <1>9 DEF BasicInv, JobInv, UniqueJobs

LEMMA Invariance == SubSpec => [](BasicInv /\ JobInv)
<1>1. BasicInv /\ JobInv /\ [SubNext]_subVars => (BasicInv /\ JobInv)'
  BY OneJobStep
<1>. QED
  BY <1>1, OneJobInit, PTL DEF SubSpec

\* Every row, call, observation and job stays what the code's types say, a call
\* and an observation belong to a row that was inserted (grab, reconcileDownload).
THEOREM TypeCorrect == SubSpec => []BasicInv
BY Invariance, PTL

\* The client never holds two jobs of one request in one installation, whatever
\* answers are lost and however often the process stops between the insertion,
\* the request and the recording of its answer
\* (retryAutomaticSubmission, resumeManualRequest).
THEOREM OneJob == SubSpec => []OneJobPerRequest
<1>1. ASSUME UniqueJobs
      PROVE  OneJobPerRequest
  <2>. SUFFICES ASSUME NEW d \in Grabs
                PROVE  Cardinality(JobsOf(d)) <= 1
    BY DEF OneJobPerRequest
  <2>1. CASE JobsOf(d) = {}
    BY <2>1, FS_EmptySet
  <2>2. CASE JobsOf(d) # {}
    <3>1. PICK h : JobsOf(d) = {h}
      BY <1>1, <2>2 DEF UniqueJobs
    <3>. QED
      BY <3>1, FS_Singleton
  <2>. QED
    BY <2>1, <2>2
<1>2. BasicInv /\ JobInv => OneJobPerRequest
  BY <1>1 DEF JobInv
<1>. QED
  BY <1>2, Invariance, PTL

\* A client without durable tokens is not asked again: what may still be sent
\* has neither been sent nor made a job (automaticSubmissionRetryable).
THEOREM AskedOnceOnly == SubSpec => []AskedOnce
<1>1. BasicInv /\ JobInv => AskedOnce
  BY DEF JobInv
<1>. QED
  BY <1>1, Invariance, PTL

-----------------------------------------------------------------------------
(***************************************************************************)
(* How a request ends.  A row that has ended, other than by a rejection,   *)
(* has nothing with the client that runs or that Runner still owns         *)
(* (Settled), so no late observation puts it back; with exact correlation  *)
(* what an observer holds is of the row's own job (Seen).                  *)
(***************************************************************************)

HasEnded(r) == r.state \in {"failed", "imported"}
OwnEnded(d) == \E h \in Handles : job[h].token = d /\ job[h].state # "running"
NoJob(d) == \A h \in Handles : job[h].token # d

\* What the client has of the request has ended, Runner does not own its bytes,
\* and a late Add finds the job it made.
Settled(d) ==
    /\ \A h \in JobsOf(d) : job[h].state # "running" /\ job[h].custody # "runner_owned"
    /\ d \in wire => JobsOf(d) # {}

\* Rows that were never sent: not inserted, or an intent of a person.
Unasked(r) == r.kind = "none" \/ (r.kind = "manual" /\ r.phase = "pending")

\* Automatic rows are inserted as submissions, are bound as they are marked
\* submitted, and are never parked as duplicates.
AutoShape(r) ==
    r.kind = "auto" =>
        /\ ~r.superseded
        /\ r.phase \in {"submitting", "uncertain", "submitted", "rejected"}
        /\ r.state \in ActiveGrab \/ HasEnded(r)
        /\ r.phase = "rejected" => r.state = "failed"
        /\ Idempotent /\ r.phase # "submitted" => r.handle = 0
        /\ Idempotent => r.state # "downloaded"

\* An outcome that must be the job's own.
Outcome(r) == r.state \in {"failed", "downloaded"} /\ r.phase # "rejected" /\ ~r.retained

\* A row and what the client has of it.
FateOf(d, r) ==
    /\ AutoShape(r)
    /\ r.kind = "deleted" => r = DeletedRow
    /\ Unasked(r) => NoJob(d) /\ d \notin wire
    /\ r.kind = "manual" /\ r.title \in Refused => NoJob(d)
    /\ r.kind = "manual" /\ r.phase = "rejected" => NoJob(d) /\ (d \notin wire \/ r.title \in Refused)
    /\ Idempotent /\ r.kind = "auto" /\ HasEnded(r) /\ r.phase # "rejected" => Settled(d)
    /\ Exact /\ r.handle # 0 => job[r.handle].token = d
    /\ Exact /\ Outcome(r) => OwnEnded(d)

Fates == \A d \in Grabs : FateOf(d, download[d])

\* The row under a call is the submission the call was made for.
CallFits(d) ==
    call[d].pc # "none" =>
        /\ download[d].kind \in {"auto", "manual"}
        /\ download[d].kind = "auto" => AutomaticSubmissionPending(download[d])
        /\ download[d].kind = "manual" => download[d].phase = "submitting"
        /\ call[d].pc = "answer" /\ call[d].answer = "refused" => download[d].title \in Refused
        /\ Exact /\ call[d].pc = "answer" /\ call[d].answer = "accepted" /\ call[d].handle # 0
             => job[call[d].handle].token = d

CallsFit == \A d \in Grabs : CallFits(d)

\* What a status says is of the row's own job.
Seen(d, st) ==
    /\ st.handle # 0 => job[st.handle].token = d
    /\ st.token \in {0, d}
    /\ st.handle # 0 /\ st.token = 0 => download[d].handle # 0 \/ download[d].kind = "deleted"
    /\ st.state \in {"failed", "removed", "completed"} => OwnEnded(d)

Observed(p) ==
    observer[p].pc # "idle" => \A st \in observer[p].st :
        /\ Exact => Seen(observer[p].of, st)
        /\ /\ Idempotent /\ observer[p].pc = "bind" /\ st.state \in {"failed", "removed"}
           /\ download[observer[p].of].kind = "auto"
           => Settled(observer[p].of)

ObservedOwn == \A p \in Observers : Observed(p)

\* A row's lock is held once.
LockedOnce ==
    \A p \in Observers : observer[p].pc = "bind" =>
        /\ call[observer[p].of].pc = "none"
        /\ \A q \in Observers \ {p} : observer[q].pc = "bind" => observer[q].of # observer[p].of

CustodyOfFailed == \A h \in Handles : job[h].custody = "runner_owned" => job[h].state = "failed"

FateInv == Fates /\ CallsFit /\ ObservedOwn /\ LockedOnce /\ CustodyOfFailed /\ OneDownloadPerWant

-----------------------------------------------------------------------------
(* What each write does to a row's columns. *)

\* The columns that no write but an insertion, a removal and an import sets.
Alike(r, x) == x.kind = r.kind /\ x.title = r.title /\ x.superseded = r.superseded /\ x.retained = r.retained

LEMMA RecordColumns ==
    ASSUME NEW r \in Rows, NEW h \in AnyHandle, NEW x \in RecordDownloadSubmission(r, h)
    PROVE  /\ Alike(r, x) /\ x.state = r.state /\ x.parked = r.parked /\ x.phase = "submitted" /\ x.handle = h
           /\ r.phase \in {"submitting", "uncertain", "submitted"} /\ r.handle \in {0, h}
BY DEF RecordDownloadSubmission, Rows, Alike

LEMMA RecordHandlelessColumns ==
    ASSUME NEW r \in Rows, NEW x \in RecordHandlelessSubmission(r)
    PROVE  /\ Alike(r, x) /\ x.state = r.state /\ x.parked = r.parked /\ x.phase = "submitted" /\ x.handle = r.handle
           /\ r.phase \in {"submitting", "uncertain", "submitted"} /\ Exact
BY DEF RecordHandlelessSubmission, Rows, Alike

LEMMA RejectColumns ==
    ASSUME NEW r \in Rows, NEW x, x = RejectDownloadSubmission(r)
    PROVE  \/ x = r
           \/ /\ Alike(r, x) /\ x.state = "failed" /\ x.phase = "rejected" /\ x.handle = r.handle
              /\ ~HasEnded(r) /\ r.parked = "no"
BY DEF RejectDownloadSubmission, Rows, Alike, HasEnded

LEMMA ParkColumns ==
    ASSUME NEW r \in Rows, NEW why, NEW x, x = ParkDownload(r, why)
    PROVE  Alike(r, x) /\ x.state = r.state /\ x.phase = r.phase /\ x.handle = r.handle
BY DEF ParkDownload, Rows, Alike

LEMMA PhaseColumns ==
    ASSUME NEW r \in Rows, NEW phase, NEW x, x = SetSubmissionPhase(r, phase)
    PROVE  Alike(r, x) /\ x.state = r.state /\ x.parked = r.parked /\ x.phase = phase /\ x.handle = r.handle
BY DEF SetSubmissionPhase, Rows, Alike

LEMMA CommitColumns ==
    ASSUME NEW r \in Rows, NEW h, NEW x, x = CommitManualSubmission(r, h)
    PROVE  Alike(r, x) /\ x.state = r.state /\ x.phase = "submitted" /\ x.handle = h
BY DEF CommitManualSubmission, Rows, Alike

LEMMA HandleColumns ==
    ASSUME NEW r \in Rows, NEW h, NEW x, x = SetDownloadHandle(r, h)
    PROVE  Alike(r, x) /\ x.state = r.state /\ x.phase = r.phase /\ x.handle = h
BY DEF SetDownloadHandle, Rows, Alike

LEMMA StateColumns ==
    ASSUME NEW r \in Rows, NEW state, NEW x, x = UpdateDownloadState(r, state)
    PROVE  Alike(r, x) /\ x.state = state /\ x.phase = r.phase /\ x.handle = r.handle
<1>. DEFINE y == [r EXCEPT !.state = state]
<1>1. Alike(r, y) /\ y.state = state /\ y.phase = r.phase /\ y.handle = r.handle
  BY DEF Rows, Alike
<1>2. x = y \/ x = [y EXCEPT !.parked = "no"]
  BY DEF UpdateDownloadState, TerminalCustody
<1>3. [y EXCEPT !.parked = "no"] = [r EXCEPT !.state = state, !.parked = "no"]
  BY DEF Rows
<1>4. LET z == [r EXCEPT !.state = state, !.parked = "no"]
      IN  Alike(r, z) /\ z.state = state /\ z.phase = r.phase /\ z.handle = r.handle
  BY DEF Rows, Alike
<1>. HIDE DEF y
<1>. QED
  BY <1>1, <1>2, <1>3, <1>4
-----------------------------------------------------------------------------
(* What the steps of the client and of others leave of a fate. *)

\* What the client has of d is not forgotten, and what has ended stays so.
Remembered(d) ==
    \A h \in Handles : job[h].token = d =>
        job'[h].token = d /\ (job[h].state # "running" => job'[h].state # "running")

\* Nothing of d reaches the client.
NoNewJob(d) == \A h \in Handles : job'[h].token = d => job[h].token = d
Untouched(d) == NoNewJob(d) /\ (d \in wire' => d \in wire)

\* A step of one job: it does not run again, and Runner takes custody of the
\* bytes of a job only as the job fails.
JobMoved(h) ==
    /\ job'[h].token = job[h].token /\ job'[h].instance = job[h].instance
    /\ job[h].state # "running" =>
         job'[h].state # "running" /\ (job'[h].custody = "runner_owned" => job[h].custody = "runner_owned")
    /\ job'[h].custody = "runner_owned" => job'[h].state = "failed" \/ (job[h].custody = "runner_owned" /\ job'[h].state = job[h].state)

LEMMA SameClient ==
    ASSUME capability' = capability
    PROVE  (Idempotent' <=> Idempotent) /\ (Exact' <=> Exact) /\ (DeliveryExpected' <=> DeliveryExpected)
BY DEF Idempotent, Exact, DeliveryExpected

LEMMA AutoShapeKept ==
    ASSUME capability' = capability, NEW r, AutoShape(r)
    PROVE  AutoShape(r)'
BY SameClient DEF AutoShape, HasEnded

LEMMA HandleOfRow ==
    ASSUME NEW r \in Rows, r.handle # 0
    PROVE  r.handle \in Handles
BY SubmissionAssumption DEF Rows, AnyHandle, Handles

LEMMA HandleOfStatus ==
    ASSUME NEW st \in Statuses, st.handle # 0
    PROVE  st.handle \in Handles
<1>1. st.handle \in AnyHandle
  BY DEF Statuses
<1>. QED
  BY <1>1, SubmissionAssumption DEF AnyHandle, Handles

LEMMA FateKept ==
    ASSUME NEW d \in Grabs, NEW r \in Rows, FateOf(d, r), capability' = capability, Remembered(d),
           Unasked(r) => Untouched(d),
           r.kind = "manual" /\ r.title \in Refused => NoNewJob(d),
           r.kind = "manual" /\ r.phase = "rejected" => Untouched(d),
           Idempotent /\ r.kind = "auto" /\ HasEnded(r) /\ r.phase # "rejected" => Settled(d)'
    PROVE  FateOf(d, r)'
<1>1. (Idempotent' <=> Idempotent) /\ (Exact' <=> Exact) /\ AutoShape(r)'
  BY SameClient, AutoShapeKept DEF FateOf
<1>2. NoJob(d) /\ NoNewJob(d) => NoJob(d)'
  BY DEF NoJob, NoNewJob
<1>3. OwnEnded(d) => OwnEnded(d)'
  BY DEF OwnEnded, Remembered
<1>4. Exact /\ r.handle # 0 => job'[r.handle].token = d
  BY HandleOfRow DEF FateOf, Remembered
<1>5. /\ Unasked(r)' <=> Unasked(r)
      /\ HasEnded(r)' <=> HasEnded(r)
      /\ Outcome(r)' <=> Outcome(r)
  BY DEF Unasked, HasEnded, Outcome
<1>6. /\ r.kind = "deleted" => r = DeletedRow
      /\ Unasked(r) => NoJob(d)' /\ d \notin wire'
      /\ r.kind = "manual" /\ r.title \in Refused => NoJob(d)'
      /\ r.kind = "manual" /\ r.phase = "rejected" => NoJob(d)' /\ (d \notin wire' \/ r.title \in Refused)
      /\ Exact /\ Outcome(r) => OwnEnded(d)'
  BY <1>2, <1>3 DEF FateOf, Untouched
<1>. QED
  BY <1>1, <1>4, <1>5, <1>6 DEF FateOf

LEMMA CallKept ==
    ASSUME SubmissionTypeOK, NEW d \in Grabs, CallFits(d), capability' = capability, Remembered(d),
           download'[d] = download[d], call'[d] = call[d] \/ call'[d].pc = "none"
    PROVE  CallFits(d)'
<1>1. Exact' <=> Exact
  BY SameClient
<1>2. call[d].handle # 0 => call[d].handle \in Handles
  BY RowTypes, SubmissionAssumption DEF Calls, AnyHandle, Handles
<1>3. CASE call'[d].pc = "none"
  BY <1>3 DEF CallFits
<1>4. CASE call'[d] = call[d]
  <2>1. AutomaticSubmissionPending(download[d]) => AutomaticSubmissionPending(download[d])'
    BY DEF AutomaticSubmissionPending
  <2>. QED
    BY <1>1, <1>2, <1>4, <2>1 DEF CallFits, Remembered
<1>. QED
  BY <1>3, <1>4

LEMMA ObservedKept ==
    ASSUME BasicInv, NEW p \in Observers, Observed(p), capability' = capability,
           observer'[p] = observer[p] \/ observer'[p].pc = "idle",
           NEW d \in Grabs, observer[p].pc # "idle" => d = observer[p].of,
           observer[p].pc # "idle" =>
               /\ Remembered(d)
               /\ download[d].handle # 0 \/ download[d].kind = "deleted" => download'[d].handle # 0 \/ download'[d].kind = "deleted"
               /\ download'[d].kind = "auto" => download[d].kind = "auto",
           Idempotent /\ observer[p].pc = "bind" /\ Settled(d) => Settled(d)'
    PROVE  Observed(p)'
<1>1. CASE observer'[p].pc = "idle"
  BY <1>1 DEF Observed
<1>2. CASE observer'[p] = observer[p] /\ observer[p].pc # "idle"
  <2>1. (Idempotent' <=> Idempotent) /\ (Exact' <=> Exact)
    BY SameClient
  <2>2. observer[p].st \subseteq Statuses
    BY DEF BasicInv, SubmissionTypeOK, Watches
  <2>3. ASSUME NEW st \in observer[p].st, Seen(d, st)
        PROVE  Seen(d, st)'
    <3>1. st.handle # 0 => job'[st.handle].token = d
      BY <1>2, <2>2, <2>3, HandleOfStatus DEF Seen, Remembered
    <3>2. OwnEnded(d) => OwnEnded(d)'
      BY <1>2 DEF OwnEnded, Remembered
    <3>. QED
      BY <1>2, <2>3, <3>1, <3>2 DEF Seen
  <2>. QED
    BY <1>2, <2>1, <2>3 DEF Observed
<1>. QED
  BY <1>1, <1>2

LEMMA JobMoves ==
    ASSUME \A h \in Handles : JobMoved(h), UNCHANGED instance, wire' \subseteq wire
    PROVE  /\ \A k \in Grabs : Remembered(k) /\ Untouched(k) /\ (Settled(k) => Settled(k)')
           /\ CustodyOfFailed => CustodyOfFailed'
<1>1. \A k \in Grabs : Remembered(k) /\ Untouched(k)
  BY DEF JobMoved, Remembered, Untouched, NoNewJob
<1>2. \A k \in Grabs : JobsOf(k)' = JobsOf(k)
  BY DEF JobMoved, JobsOf
<1>3. \A k \in Grabs : Settled(k) => Settled(k)'
  <2>. TAKE k \in Grabs
  <2>. HAVE Settled(k)
  <2>1. \A h \in JobsOf(k) : job'[h].state # "running" /\ job'[h].custody # "runner_owned"
    BY DEF JobMoved, Settled, JobsOf
  <2>. QED
    BY <1>2, <2>1 DEF Settled
<1>4. CustodyOfFailed => CustodyOfFailed'
  BY DEF CustodyOfFailed, JobMoved
<1>. QED
  BY <1>1, <1>3, <1>4

\* A request that may reach the client is of a row that was sent.
Reached(d) ==
    LET r == download[d]
    IN  ~Unasked(r) /\ (r.kind = "manual" => r.phase # "rejected" /\ (r.title \in Refused => NoNewJob(d)))

\* A step that writes no row.
LEMMA WorldStep ==
    ASSUME BasicInv, FateInv, UNCHANGED <<capability, download>>,
           \A k \in Grabs : Remembered(k),
           \A k \in Grabs : Untouched(k) \/ Reached(k),
           \A k \in Grabs : (Idempotent /\ Settled(k) => Settled(k)') \/ call[k].pc # "none",
           \A k \in Grabs : call'[k] = call[k] \/ call'[k].pc = "none" \/ (call[k].pc # "none" /\ CallFits(k)'),
           \A p \in Observers : observer'[p] = observer[p] \/ observer'[p].pc = "idle" \/ (observer'[p].pc # "bind" /\ Observed(p)'),
           CustodyOfFailed'
    PROVE  FateInv'
<1>1. ASSUME NEW k \in Grabs
      PROVE  FateOf(k, download[k])'
  <2>1. FateOf(k, download[k]) /\ download[k] \in Rows /\ Remembered(k) /\ capability' = capability
    BY RowTypes DEF FateInv, Fates, BasicInv
  <2>2. /\ Unasked(download[k]) => Untouched(k)
        /\ download[k].kind = "manual" /\ download[k].title \in Refused => NoNewJob(k)
        /\ download[k].kind = "manual" /\ download[k].phase = "rejected" => Untouched(k)
    BY DEF Reached, Untouched
  <2>3. ASSUME Idempotent, download[k].kind = "auto", HasEnded(download[k]), download[k].phase # "rejected"
        PROVE  Settled(k)'
    <3>1. Settled(k)
      BY <2>1, <2>3 DEF FateOf
    <3>2. call[k].pc = "none"
      BY <2>3 DEF FateInv, CallsFit, CallFits, AutomaticSubmissionPending, HasEnded
    <3>. QED
      BY <2>3, <3>1, <3>2
  <2>4. \A r \in Rows : r = download[k] => FateOf(k, r)'
    BY <2>1, <2>2, <2>3, FateKept
  <2>. QED
    BY <2>1, <2>4
<1>2. ASSUME NEW k \in Grabs
      PROVE  CallFits(k)'
  BY CallKept DEF FateInv, CallsFit, BasicInv
<1>3. ASSUME NEW p \in Observers
      PROVE  Observed(p)'
  <2>1. CASE observer'[p].pc = "idle"
    BY <2>1 DEF Observed
  <2>2. CASE observer'[p] = observer[p] /\ observer[p].pc # "idle"
    <3>1. observer[p].of \in Grabs
      BY <2>2 DEF BasicInv, SubmissionTypeOK
    <3>2. observer[p].pc = "bind" => call[observer[p].of].pc = "none"
      BY DEF FateInv, LockedOnce
    <3>. QED
      BY <2>2, <3>1, <3>2, ObservedKept DEF FateInv, ObservedOwn
  <2>. QED
    BY <2>1, <2>2 DEF Observed
<1>4. LockedOnce'
  <2>1. \A p \in Observers : observer'[p].pc = "bind" => observer'[p] = observer[p] /\ observer[p].of \in Grabs
    BY DEF BasicInv, SubmissionTypeOK
  <2>2. \A k \in Grabs : call[k].pc = "none" => call'[k].pc = "none"
    OBVIOUS
  <2>. QED
    BY <2>1, <2>2 DEF FateInv, LockedOnce
<1>5. OneDownloadPerWant'
  BY DEF FateInv, OneDownloadPerWant, ListActiveDownloads
<1>. QED
  BY <1>1, <1>2, <1>3, <1>4, <1>5 DEF FateInv, Fates, CallsFit, ObservedOwn

\* What the client makes of a request that it takes.
LEMMA AcceptedFate ==
    ASSUME BasicInv, CustodyOfFailed, NEW d \in Grabs, NEW a \in AcceptedJobs(d), job' = a.jobs, UNCHANGED instance
    PROVE  /\ download[d].title \notin Refused
           /\ a.handle \in Handles /\ job'[a.handle].token = d
           /\ \A k \in Grabs : Remembered(k)
           /\ \A k \in Grabs \ {d} : NoNewJob(k)
           /\ \A h \in Handles : job[h].token # 0 => job'[h] = job[h]
           /\ Idempotent /\ JobsOf(d) # {} => job' = job
           /\ CustodyOfFailed'
<1>1. job \in [Handles -> ClientJobs]
  BY DEF BasicInv, SubmissionTypeOK
<1>2. CASE Idempotent /\ JobsOf(d) # {}
  <2>1. job' = job /\ a.handle \in JobsOf(d) /\ download[d].title \notin Refused
    BY <1>2 DEF AcceptedJobs
  <2>. QED
    BY <2>1 DEF JobsOf, Remembered, NoNewJob, CustodyOfFailed
<1>3. CASE ~(Idempotent /\ JobsOf(d) # {})
  <2>. DEFINE shown == capability # "exact"
              title == download[d].title
              new == [NoClientJob EXCEPT !.token = d, !.title = title, !.state = "running",
                                         !.instance = instance, !.shown = shown]
  <2>1. PICK h \in FreeHandles : a = [jobs |-> [job EXCEPT ![h] = new], handle |-> h]
    BY <1>3 DEF AcceptedJobs
  <2>2. new.token = d /\ new.custody = "none"
    BY DEF NoClientJob
  <2>3. h \in Handles /\ job[h].token = 0 /\ 0 \notin Grabs /\ title \notin Refused
    BY <1>3, <2>1, NoGrabTypes, SubmissionAssumption DEF FreeHandles, AcceptedJobs
  <2>. HIDE DEF new
  <2>4. \A x \in Handles : job'[x] = IF x = h THEN new ELSE job[x]
    BY <1>1, <2>1
  <2>. QED
    BY <1>3, <2>1, <2>2, <2>3, <2>4 DEF Remembered, NoNewJob, CustodyOfFailed
<1>. QED
  BY <1>2, <1>3

-----------------------------------------------------------------------------
(* The client, lost requests and restarts. *)

LEMMA OneJobMoves ==
    ASSUME job \in [Handles -> ClientJobs], NEW h \in Handles, NEW new,
           job' = [job EXCEPT ![h] = new],
           new.token = job[h].token, new.instance = job[h].instance,
           job[h].state # "running" =>
               new.state # "running" /\ (new.custody = "runner_owned" => job[h].custody = "runner_owned"),
           new.custody = "runner_owned" => new.state = "failed" \/ (job[h].custody = "runner_owned" /\ new.state = job[h].state)
    PROVE  \A k \in Handles : JobMoved(k)
<1>. TAKE k \in Handles
<1>1. job'[k] = IF k = h THEN new ELSE job[k]
  OBVIOUS
<1>. QED
  BY <1>1 DEF JobMoved

LEMMA ClientMoves ==
    ASSUME SubmissionTypeOK,
           \/ \E h \in Handles : JobEnds(h) \/ JobCleaned(h) \/ JobControl(h) \/ JobShown(h)
           \/ ClientFault /\ UNCHANGED instance
    PROVE  \A k \in Handles : JobMoved(k)
<1>0. job \in [Handles -> ClientJobs]
  BY DEF SubmissionTypeOK
<1>. DEFINE Moves(h, new) ==
              /\ new.token = job[h].token /\ new.instance = job[h].instance
              /\ job[h].state # "running" =>
                   new.state # "running" /\ (new.custody = "runner_owned" => job[h].custody = "runner_owned")
              /\ new.custody = "runner_owned" => new.state = "failed" \/ (job[h].custody = "runner_owned" /\ new.state = job[h].state)
<1>1. ASSUME NEW h \in Handles, JobEnds(h)
      PROVE  \E new : job' = [job EXCEPT ![h] = new] /\ Moves(h, new)
  <2>0. job[h].state = "running"
    BY <1>1 DEF JobEnds
  <2>1. PICK state \in {"completed", "failed"}, c \in {"runner_owned", "settled", "none"}, life \in {"failed", "succeeded"} :
          /\ job' = [job EXCEPT ![h].state = state, ![h].custody = c, ![h].life = life, ![h].revision = @ + 1]
          /\ c = "runner_owned" => state = "failed"
    BY <1>1 DEF JobEnds
  <2>. DEFINE new == [job[h] EXCEPT !.state = state, !.custody = c, !.life = life, !.revision = @ + 1]
  <2>2. new.token = job[h].token /\ new.instance = job[h].instance /\ new.state = state /\ new.custody = c
    BY <1>0 DEF ClientJobs
  <2>3. job' = [job EXCEPT ![h] = new]
    BY <2>1
  <2>. HIDE DEF new
  <2>. QED
    BY <2>0, <2>1, <2>2, <2>3
<1>2. ASSUME NEW h \in Handles, JobCleaned(h)
      PROVE  \E new : job' = [job EXCEPT ![h] = new] /\ Moves(h, new)
  <2>. DEFINE new == [job[h] EXCEPT !.custody = "settled"]
  <2>1. new.token = job[h].token /\ new.instance = job[h].instance /\ new.state = job[h].state /\ new.custody = "settled"
    BY <1>0 DEF ClientJobs
  <2>2. job' = [job EXCEPT ![h] = new]
    BY <1>2 DEF JobCleaned
  <2>. HIDE DEF new
  <2>. QED
    BY <2>1, <2>2
<1>3. ASSUME NEW h \in Handles, JobControl(h)
      PROVE  \E new : job' = [job EXCEPT ![h] = new] /\ Moves(h, new)
  <2>1. PICK life \in {"running", "held"} : job' = [job EXCEPT ![h].revision = @ + 1, ![h].life = life]
    BY <1>3 DEF JobControl
  <2>. DEFINE new == [job[h] EXCEPT !.revision = @ + 1, !.life = life]
  <2>2. new.token = job[h].token /\ new.instance = job[h].instance /\ new.state = job[h].state /\ new.custody = job[h].custody
    BY <1>0 DEF ClientJobs
  <2>3. job' = [job EXCEPT ![h] = new]
    BY <2>1
  <2>. HIDE DEF new
  <2>. QED
    BY <2>2, <2>3
<1>4. ASSUME NEW h \in Handles, JobShown(h)
      PROVE  \E new : job' = [job EXCEPT ![h] = new] /\ Moves(h, new)
  <2>. DEFINE new == [job[h] EXCEPT !.shown = TRUE]
  <2>1. new.token = job[h].token /\ new.instance = job[h].instance /\ new.state = job[h].state /\ new.custody = job[h].custody
    BY <1>0 DEF ClientJobs
  <2>2. job' = [job EXCEPT ![h] = new]
    BY <1>4 DEF JobShown
  <2>. HIDE DEF new
  <2>. QED
    BY <2>1, <2>2
<1>5. ASSUME ClientFault, UNCHANGED instance
      PROVE  \E h \in Handles : \E new : job' = [job EXCEPT ![h] = new] /\ Moves(h, new)
  <2>1. PICK h \in Handles : job' = [job EXCEPT ![h].state = "removed", ![h].custody = "deleted_by_runner"]
    BY <1>5 DEF ClientFault
  <2>. DEFINE new == [job[h] EXCEPT !.state = "removed", !.custody = "deleted_by_runner"]
  <2>2. new.token = job[h].token /\ new.instance = job[h].instance /\ new.state = "removed" /\ new.custody = "deleted_by_runner"
    BY <1>0 DEF ClientJobs
  <2>3. job' = [job EXCEPT ![h] = new]
    BY <2>1
  <2>. HIDE DEF new
  <2>. QED
    BY <2>2, <2>3
<1>6. PICK h \in Handles : \E new : job' = [job EXCEPT ![h] = new] /\ Moves(h, new)
  <2>. HIDE DEF Moves
  <2>. QED
    BY <1>1, <1>2, <1>3, <1>4, <1>5
<1>. QED
  BY <1>0, <1>6, OneJobMoves

LEMMA ClientFate ==
    ASSUME BasicInv, JobInv, FateInv,
           \/ \E h \in Handles : JobEnds(h) \/ JobCleaned(h) \/ JobControl(h) \/ JobShown(h)
           \/ ClientFault
    PROVE  FateInv'
<1>1. /\ UNCHANGED <<capability, download, call, observer>> /\ wire' \subseteq wire
      /\ UNCHANGED instance \/ (ClientFault /\ instance = 1 /\ instance' = 2 /\ wire' = {} /\ UNCHANGED job)
  BY DEF JobEnds, JobCleaned, JobControl, JobShown, ClientFault
<1>2. CASE UNCHANGED instance
  <2>1. \A k \in Handles : JobMoved(k)
    BY <1>2, ClientMoves DEF BasicInv
  <2>2. /\ \A k \in Grabs : Remembered(k) /\ Untouched(k) /\ (Settled(k) => Settled(k)')
        /\ CustodyOfFailed'
    BY <1>1, <1>2, <2>1, JobMoves DEF FateInv
  <2>. QED
    BY <1>1, <2>2, WorldStep
<1>3. CASE instance = 1 /\ instance' = 2 /\ wire' = {} /\ UNCHANGED job
  <2>1. \A k \in Grabs : Remembered(k) /\ Untouched(k)
    BY <1>3 DEF Remembered, Untouched, NoNewJob
  <2>2. \A k \in Grabs : Settled(k)'
    BY <1>3 DEF Settled, JobsOf, JobInv, JobsOfKnownInstallations
  <2>3. CustodyOfFailed'
    BY <1>3 DEF FateInv, CustodyOfFailed
  <2>. QED
    BY <1>1, <2>1, <2>2, <2>3, WorldStep
<1>. QED
  BY <1>1, <1>2, <1>3

LEMMA LateFate ==
    ASSUME BasicInv, FateInv, NEW d \in Grabs, AddArrivesLate(d)
    PROVE  FateInv'
<1>1. UNCHANGED <<capability, download, call, observer, instance>> /\ d \in wire /\ wire' = wire \ {d}
  BY DEF AddArrivesLate
<1>2. PICK a \in AcceptedJobs(d) : job' = a.jobs
  BY DEF AddArrivesLate
<1>3. /\ download[d].title \notin Refused
      /\ \A k \in Grabs : Remembered(k)
      /\ \A k \in Grabs \ {d} : NoNewJob(k)
      /\ \A h \in Handles : job[h].token # 0 => job'[h] = job[h]
      /\ Idempotent /\ JobsOf(d) # {} => job' = job
      /\ CustodyOfFailed'
  BY <1>1, <1>2, AcceptedFate DEF FateInv
<1>4. \A k \in Grabs : Untouched(k) \/ Reached(k)
  <2>1. Reached(d)
    BY <1>1, <1>3 DEF Reached, FateInv, Fates, FateOf
  <2>2. \A k \in Grabs \ {d} : Untouched(k)
    BY <1>1, <1>3 DEF Untouched
  <2>. QED
    BY <2>1, <2>2
<1>5. \A k \in Grabs : Idempotent /\ Settled(k) => Settled(k)'
  <2>. TAKE k \in Grabs
  <2>. HAVE Idempotent /\ Settled(k)
  <2>1. CASE k = d
    BY <1>1, <1>3, <2>1 DEF Settled, JobsOf
  <2>2. CASE k # d
    <3>1. \A h \in Handles : job[h].token = k \/ job'[h].token = k => job'[h] = job[h]
      BY <1>3, <2>2, SubmissionAssumption DEF NoNewJob
    <3>2. JobsOf(k)' = JobsOf(k) /\ \A h \in JobsOf(k) : job'[h] = job[h]
      BY <1>1, <3>1 DEF JobsOf
    <3>. QED
      BY <1>1, <2>2, <3>2 DEF Settled
  <2>. QED
    BY <2>1, <2>2
<1>. QED
  BY <1>1, <1>3, <1>4, <1>5, WorldStep

LEMMA AnswerFate ==
    ASSUME BasicInv, FateInv, NEW d \in Grabs, AddAnswered(d)
    PROVE  FateInv'
<1>1. UNCHANGED <<capability, download, observer, instance>> /\ call[d].pc = "send"
  BY DEF AddAnswered
<1>2. call[d] \in Calls /\ call \in [Grabs -> Calls]
  BY DEF BasicInv, SubmissionTypeOK
<1>3. /\ download[d].kind \in {"auto", "manual"}
      /\ download[d].kind = "auto" => AutomaticSubmissionPending(download[d])
      /\ download[d].kind = "manual" => download[d].phase = "submitting"
  BY <1>1 DEF FateInv, CallsFit, CallFits
<1>4. ASSUME NEW c, call' = [call EXCEPT ![d] = c], c.pc = "answer",
             c.answer = "refused" => download[d].title \in Refused,
             Exact /\ c.answer = "accepted" /\ c.handle # 0 => job'[c.handle].token = d
      PROVE  \A k \in Grabs : call'[k] = call[k] \/ call'[k].pc = "none" \/ (call[k].pc # "none" /\ CallFits(k)')
  <2>1. \A k \in Grabs : call'[k] = IF k = d THEN c ELSE call[k]
    BY <1>2, <1>4
  <2>2. AutomaticSubmissionPending(download[d]) => AutomaticSubmissionPending(download[d])'
    BY <1>1 DEF AutomaticSubmissionPending
  <2>3. CallFits(d)'
    BY <1>1, <1>3, <1>4, <2>1, <2>2, SameClient DEF CallFits
  <2>. QED
    BY <1>1, <2>1, <2>3
<1>5. CASE \E a \in AcceptedJobs(d) : job' = a.jobs
             /\ \/ call' = [call EXCEPT ![d].pc = "answer", ![d].answer = "accepted",
                                        ![d].handle = IF capability = "exact" THEN 0 ELSE a.handle]
                \/ call' = [call EXCEPT ![d].pc = "answer", ![d].answer = "error"]
             /\ UNCHANGED wire
  <2>1. PICK a \in AcceptedJobs(d) : job' = a.jobs
             /\ \/ call' = [call EXCEPT ![d].pc = "answer", ![d].answer = "accepted",
                                        ![d].handle = IF capability = "exact" THEN 0 ELSE a.handle]
                \/ call' = [call EXCEPT ![d].pc = "answer", ![d].answer = "error"]
             /\ UNCHANGED wire
    BY <1>5
  <2>2. /\ download[d].title \notin Refused
        /\ a.handle \in Handles /\ job'[a.handle].token = d
        /\ \A k \in Grabs : Remembered(k)
        /\ \A k \in Grabs \ {d} : NoNewJob(k)
        /\ \A h \in Handles : job[h].token # 0 => job'[h] = job[h]
        /\ CustodyOfFailed'
    BY <1>1, <2>1, AcceptedFate DEF FateInv
  <2>3. \A k \in Grabs : Untouched(k) \/ Reached(k)
    <3>1. Reached(d)
      BY <1>3, <2>2 DEF Reached, Unasked
    <3>2. \A k \in Grabs \ {d} : Untouched(k)
      BY <2>1, <2>2 DEF Untouched
    <3>. QED
      BY <3>1, <3>2
  <2>4. \A k \in Grabs : (Idempotent /\ Settled(k) => Settled(k)') \/ call[k].pc # "none"
    <3>. SUFFICES ASSUME NEW k \in Grabs \ {d}, Settled(k)
                  PROVE  Settled(k)'
      BY <1>1
    <3>1. \A h \in Handles : job[h].token = k \/ job'[h].token = k => job'[h] = job[h]
      BY <2>2, SubmissionAssumption DEF NoNewJob
    <3>2. JobsOf(k)' = JobsOf(k) /\ \A h \in JobsOf(k) : job'[h] = job[h]
      BY <1>1, <3>1 DEF JobsOf
    <3>. QED
      BY <2>1, <3>2 DEF Settled
  <2>5. \A k \in Grabs : call'[k] = call[k] \/ call'[k].pc = "none" \/ (call[k].pc # "none" /\ CallFits(k)')
    <3>1. CASE call' = [call EXCEPT ![d].pc = "answer", ![d].answer = "accepted",
                                    ![d].handle = IF capability = "exact" THEN 0 ELSE a.handle]
      <4>. DEFINE h == IF capability = "exact" THEN 0 ELSE a.handle
                  c == [call[d] EXCEPT !.pc = "answer", !.answer = "accepted", !.handle = h]
      <4>1. call' = [call EXCEPT ![d] = c]
        BY <3>1
      <4>2. c.pc = "answer" /\ c.answer = "accepted" /\ c.handle = h
        BY <1>2 DEF Calls
      <4>3. h # 0 => job'[h].token = d
        BY <2>2
      <4>. HIDE DEF c, h
      <4>. QED
        BY <1>4, <4>1, <4>2, <4>3
    <3>2. CASE call' = [call EXCEPT ![d].pc = "answer", ![d].answer = "error"]
      <4>. DEFINE c == [call[d] EXCEPT !.pc = "answer", !.answer = "error"]
      <4>1. call' = [call EXCEPT ![d] = c]
        BY <3>2
      <4>2. c.pc = "answer" /\ c.answer = "error"
        BY <1>2 DEF Calls
      <4>. HIDE DEF c
      <4>. QED
        BY <1>4, <4>1, <4>2
    <3>. QED
      BY <2>1, <3>1, <3>2
  <2>. QED
    BY <1>1, <2>2, <2>3, <2>4, <2>5, WorldStep
<1>6. CASE /\ \/ call' = [call EXCEPT ![d].pc = "answer", ![d].answer = "refused"] /\ download[d].title \in Refused
              \/ call' = [call EXCEPT ![d].pc = "answer", ![d].answer = "error"]
           /\ UNCHANGED job /\ wire' \in {wire, wire \cup {d}}
  <2>1. \A k \in Grabs : Remembered(k) /\ NoNewJob(k)
    BY <1>6 DEF Remembered, NoNewJob
  <2>2. \A k \in Grabs : Untouched(k) \/ Reached(k)
    BY <1>3, <1>6, <2>1 DEF Untouched, Reached, Unasked
  <2>3. \A k \in Grabs : (Idempotent /\ Settled(k) => Settled(k)') \/ call[k].pc # "none"
    BY <1>1, <1>6 DEF Settled, JobsOf
  <2>4. CustodyOfFailed'
    BY <1>6 DEF FateInv, CustodyOfFailed
  <2>5. \A k \in Grabs : call'[k] = call[k] \/ call'[k].pc = "none" \/ (call[k].pc # "none" /\ CallFits(k)')
    <3>1. PICK answer \in {"refused", "error"} :
            /\ call' = [call EXCEPT ![d].pc = "answer", ![d].answer = answer]
            /\ answer = "refused" => download[d].title \in Refused
      BY <1>6
    <3>. DEFINE c == [call[d] EXCEPT !.pc = "answer", !.answer = answer]
    <3>2. call' = [call EXCEPT ![d] = c]
      BY <3>1
    <3>3. c.pc = "answer" /\ c.answer = answer
      BY <1>2 DEF Calls
    <3>. HIDE DEF c
    <3>. QED
      BY <1>4, <3>1, <3>2, <3>3
  <2>. QED
    BY <1>1, <2>1, <2>2, <2>3, <2>4, <2>5, WorldStep
<1>7. \/ \E a \in AcceptedJobs(d) : job' = a.jobs
             /\ \/ call' = [call EXCEPT ![d].pc = "answer", ![d].answer = "accepted",
                                        ![d].handle = IF capability = "exact" THEN 0 ELSE a.handle]
                \/ call' = [call EXCEPT ![d].pc = "answer", ![d].answer = "error"]
             /\ UNCHANGED wire
      \/ /\ \/ call' = [call EXCEPT ![d].pc = "answer", ![d].answer = "refused"] /\ download[d].title \in Refused
            \/ call' = [call EXCEPT ![d].pc = "answer", ![d].answer = "error"]
         /\ UNCHANGED job /\ wire' \in {wire, wire \cup {d}}
  BY DEF AddAnswered
<1>. QED
  BY <1>5, <1>6, <1>7

LEMMA CrashFate ==
    ASSUME BasicInv, FateInv, SubmissionCrash
    PROVE  FateInv'
<1>1. /\ UNCHANGED <<capability, download, job, instance>>
      /\ \A k \in Grabs : call'[k].pc = "none"
      /\ \A p \in Observers : observer'[p].pc = "idle"
      /\ wire' \subseteq wire \cup {k \in Grabs : call[k].pc = "send"}
  BY NoGrabTypes DEF SubmissionCrash
<1>2. \A k \in Grabs : Remembered(k) /\ NoNewJob(k)
  BY <1>1 DEF Remembered, NoNewJob
<1>3. \A k \in Grabs : Untouched(k) \/ Reached(k)
  <2>. TAKE k \in Grabs
  <2>1. CASE call[k].pc = "send"
    BY <1>2, <2>1 DEF Reached, Unasked, FateInv, CallsFit, CallFits
  <2>2. CASE call[k].pc # "send"
    BY <1>1, <1>2, <2>2 DEF Untouched
  <2>. QED
    BY <2>1, <2>2
<1>4. \A k \in Grabs : (Idempotent /\ Settled(k) => Settled(k)') \/ call[k].pc # "none"
  BY <1>1 DEF Settled, JobsOf
<1>5. CustodyOfFailed'
  BY <1>1 DEF FateInv, CustodyOfFailed
<1>. QED
  BY <1>1, <1>2, <1>3, <1>4, <1>5, WorldStep

-----------------------------------------------------------------------------
(* What the observers see. *)

LEMMA OwnStatus ==
    ASSUME BasicInv, NEW d \in Grabs, NEW h \in Handles, Exact, job[h].token = d
    PROVE  Seen(d, StatusOf(h))
<1>1. StatusOf(h).handle = h /\ StatusOf(h).token = d /\ StatusOf(h).state = job[h].state
  BY DEF StatusOf
<1>2. d # 0
  BY SubmissionAssumption
<1>. QED
  BY <1>1, <1>2 DEF Seen, OwnEnded

LEMMA MatchedOwn ==
    ASSUME BasicInv, NEW d \in Grabs, Exact, NEW st \in MatchStatus(d, download[d], Inventory)
    PROVE  Seen(d, st) /\ st.handle \in Handles /\ job[st.handle].token = d
<1>1. st \in Inventory /\ st.token = d
  BY DEF MatchStatus
<1>2. PICK h \in Handles : st = StatusOf(h)
  BY <1>1 DEF Inventory
<1>3. job[h].token = d /\ st.handle = h
  BY <1>1, <1>2 DEF StatusOf
<1>. QED
  BY <1>2, <1>3, OwnStatus

LEMMA WatchFate ==
    ASSUME BasicInv, FateInv, NEW d \in Grabs,
           PollSees(d) \/ FlushPendingProgress(d) \/ \E h \in Handles : HandleEvent(d, h)
    PROVE  FateInv'
<1>1. UNCHANGED <<capability, download, call, job, instance, wire>>
  BY DEF PollSees, FlushPendingProgress, HandleEvent, clientVars
<1>2. NoStatus.handle = 0 /\ NoStatus.token = 0 /\ NoStatus.state \notin {"failed", "removed", "completed"}
  BY DEF NoStatus
<1>3. PICK p \in Observers, source \in {"poll", "admission", "push", "flush"}, st \in Statuses :
        Watch(p, source, d, st) /\ (Exact => Seen(d, st))
  <2>1. download[d].handle \in AnyHandle /\ NoStatus \in Statuses
        /\ [NoStatus EXCEPT !.handle = download[d].handle, !.state = "running"] \in Statuses
    <3>1. download[d].handle \in AnyHandle /\ 0 \in AnyHandle
      BY RowTypes, SubmissionAssumption DEF BasicInv, Rows, AnyHandle
    <3>2. NoStatus \in Statuses
      BY <3>1 DEF NoStatus, Statuses, Lives
    <3>. QED
      BY <3>1, <3>2 DEF Statuses
  <2>2. Exact /\ download[d].handle # 0 => job[download[d].handle].token = d
    BY DEF FateInv, Fates, FateOf
  <2>3. ASSUME PollSees(d)
        PROVE  \E source \in {"poll", "admission"}, st \in Statuses : Watch("poll", source, d, st) /\ (Exact => Seen(d, st))
    <3>1. Seen(d, NoStatus)
      BY <1>2 DEF Seen
    <3>2. MatchStatus(d, download[d], Inventory) \subseteq Statuses
      BY MatchedStatuses DEF BasicInv
    <3>3. \/ \E st \in MatchStatus(d, download[d], Inventory) : Watch("poll", "poll", d, st)
          \/ Watch("poll", "admission", d, NoStatus)
      BY <2>3 DEF PollSees
    <3>. QED
      BY <2>1, <3>1, <3>2, <3>3, MatchedOwn
  <2>4. ASSUME FlushPendingProgress(d)
        PROVE  \E st \in Statuses : Watch("push", "flush", d, st) /\ (Exact => Seen(d, st))
    <3>. DEFINE st == [NoStatus EXCEPT !.handle = download[d].handle, !.state = "running"]
    <3>1. st.handle = download[d].handle /\ st.token = 0 /\ st.state = "running"
      BY <1>2 DEF NoStatus
    <3>2. Watch("push", "flush", d, st) /\ st \in Statuses
      BY <2>1, <2>4 DEF FlushPendingProgress
    <3>. HIDE DEF st
    <3>3. Exact => Seen(d, st)
      BY <2>2, <3>1 DEF Seen
    <3>. QED
      BY <3>2, <3>3
  <2>5. ASSUME NEW h \in Handles, HandleEvent(d, h)
        PROVE  \E st \in Statuses : Watch("push", "push", d, st) /\ (Exact => Seen(d, st))
    <3>1. Watch("push", "push", d, StatusOf(h)) /\ download[d].handle = h
      BY <2>5 DEF HandleEvent
    <3>2. h # 0
      BY SubmissionAssumption DEF Handles
    <3>. QED
      BY <2>2, <3>1, <3>2, OwnStatus, MatchedStatuses DEF BasicInv
  <2>. QED
    BY <2>3, <2>4, <2>5 DEF Observers
<1>4. /\ observer' = [observer EXCEPT ![p] = [pc |-> "seen", source |-> source, of |-> d, st |-> {st}]]
      /\ observer \in [Observers -> Watches]
  BY <1>3 DEF Watch, BasicInv, SubmissionTypeOK
<1>5. Observed(p)'
  <2>1. Seen(d, st)' <=> Seen(d, st)
    BY <1>1 DEF Seen, OwnEnded
  <2>2. observer'[p].pc = "seen" /\ observer'[p].of = d /\ observer'[p].st = {st}
    BY <1>4
  <2>. QED
    BY <1>1, <1>3, <2>1, <2>2, SameClient DEF Observed
<1>6. \A q \in Observers : observer'[q] = observer[q] \/ observer'[q].pc = "idle" \/ (observer'[q].pc # "bind" /\ Observed(q)')
  <2>1. observer'[p].pc = "seen" /\ \A q \in Observers \ {p} : observer'[q] = observer[q]
    BY <1>4
  <2>. QED
    BY <1>5, <2>1
<1>7. \A k \in Grabs : Remembered(k) /\ Untouched(k) /\ (Settled(k) => Settled(k)')
  BY <1>1 DEF Remembered, Untouched, NoNewJob, Settled, JobsOf
<1>8. CustodyOfFailed'
  BY <1>1 DEF FateInv, CustodyOfFailed
<1>. QED
  BY <1>1, <1>6, <1>7, <1>8, WorldStep

-----------------------------------------------------------------------------
(* Steps that write one row. *)

AutoActive(r) == r.kind = "auto" /\ r.state \in ActiveGrab

LEMMA RowStep ==
    ASSUME BasicInv, FateInv, NEW d \in Grabs, NEW x \in Rows, FateOf(d, x),
           download' = [download EXCEPT ![d] = x], capability' = capability,
           \A k \in Grabs : Remembered(k) /\ Untouched(k) /\ (Settled(k) => Settled(k)'),
           CustodyOfFailed',
           AutoActive(x) => AutoActive(download[d]) \/ \A k \in Grabs : ~AutoActive(download[k]),
           download[d].kind # "none" =>
               /\ x.kind = "auto" => download[d].kind = "auto"
               /\ download[d].handle # 0 \/ download[d].kind = "deleted" => x.handle # 0 \/ x.kind = "deleted",
           \A k \in Grabs \ {d} : call'[k] = call[k],
           CallFits(d)',
           \A p \in Observers : observer'[p] = observer[p] \/ observer'[p].pc = "idle" \/ Observed(p)',
           LockedOnce'
    PROVE  FateInv'
<1>1. download'[d] = x /\ \A k \in Grabs \ {d} : download'[k] = download[k]
  BY DEF BasicInv, SubmissionTypeOK
<1>2. ASSUME NEW k \in Grabs
      PROVE  FateOf(k, download[k])'
  <2>1. FateOf(k, download'[k]) /\ download'[k] \in Rows
    BY <1>1, RowTypes DEF FateInv, Fates, BasicInv
  <2>2. \A r \in Rows : FateOf(k, r) => FateOf(k, r)'
    <3>. TAKE r \in Rows
    <3>. HAVE FateOf(k, r)
    <3>1. Untouched(k) => NoNewJob(k)
      BY DEF Untouched
    <3>2. Idempotent /\ r.kind = "auto" /\ HasEnded(r) /\ r.phase # "rejected" => Settled(k)'
      BY DEF FateOf
    <3>. QED
      BY <3>1, <3>2, FateKept
  <2>. QED
    BY <2>1, <2>2
<1>3. ASSUME NEW k \in Grabs
      PROVE  CallFits(k)'
  <2>1. CASE k = d
    BY <2>1
  <2>2. CASE k # d
    BY <1>1, <2>2, CallKept DEF FateInv, CallsFit, BasicInv
  <2>. QED
    BY <2>1, <2>2
<1>4. ASSUME NEW p \in Observers
      PROVE  Observed(p)'
  <2>1. CASE observer'[p].pc = "idle"
    BY <2>1 DEF Observed
  <2>2. CASE observer'[p] = observer[p] /\ observer[p].pc # "idle"
    <3>. DEFINE k == observer[p].of
    <3>1. k \in Grabs /\ download[k].kind # "none"
      BY <2>2 DEF BasicInv, SubmissionTypeOK, RowsExist
    <3>2. /\ download[k].handle # 0 \/ download[k].kind = "deleted" => download'[k].handle # 0 \/ download'[k].kind = "deleted"
          /\ download'[k].kind = "auto" => download[k].kind = "auto"
      <4>1. CASE k = d
        BY <1>1, <3>1, <4>1
      <4>2. CASE k # d
        BY <1>1, <3>1, <4>2
      <4>. QED
        BY <4>1, <4>2
    <3>. QED
      BY <2>2, <3>1, <3>2, ObservedKept DEF FateInv, ObservedOwn
  <2>. QED
    BY <2>1, <2>2
<1>5. OneDownloadPerWant'
  <2>1. \A j, k \in Grabs : AutoActive(download[j]) /\ AutoActive(download[k]) => j = k
    BY DEF FateInv, OneDownloadPerWant, ListActiveDownloads, AutoActive
  <2>2. \A j, k \in Grabs : AutoActive(download'[j]) /\ AutoActive(download'[k]) => j = k
    BY <1>1, <2>1
  <2>. QED
    BY <2>2 DEF OneDownloadPerWant, ListActiveDownloads, AutoActive
<1>. QED
  BY <1>2, <1>3, <1>4, <1>5 DEF FateInv, Fates, CallsFit, ObservedOwn

\* Where the client does not move.
LEMMA StillClient ==
    ASSUME UNCHANGED <<job, instance, wire>>, FateInv
    PROVE  /\ \A k \in Grabs : Remembered(k) /\ Untouched(k) /\ (Settled(k) => Settled(k)')
           /\ CustodyOfFailed'
<1>1. \A k \in Grabs : Remembered(k) /\ Untouched(k) /\ (Settled(k) => Settled(k)')
  BY DEF Remembered, Untouched, NoNewJob, Settled, JobsOf
<1>2. CustodyOfFailed'
  BY DEF FateInv, CustodyOfFailed
<1>. QED
  BY <1>1, <1>2

LEMMA LocksKept ==
    ASSUME BasicInv, FateInv, UNCHANGED observer, \A k \in Grabs : call'[k] = call[k] \/ call'[k].pc = "none"
    PROVE  LockedOnce'
<1>1. \A p \in Observers : observer[p].pc = "bind" => observer[p].of \in Grabs
  BY DEF BasicInv, SubmissionTypeOK
<1>. QED
  BY <1>1 DEF FateInv, LockedOnce

LEMMA UncalledFits ==
    ASSUME NEW d \in Grabs, call'[d].pc = "none"
    PROVE  CallFits(d)'
BY DEF CallFits

\* What a write may make of a row.
LEMMA FateOfWrite ==
    ASSUME NEW d \in Grabs, NEW r \in Rows, NEW x \in Rows, FateOf(d, r), r.kind \in {"auto", "manual"},
           x.kind = r.kind, x.title = r.title, AutoShape(x),
           x.phase = "pending" => r.phase = "pending",
           x.kind = "manual" /\ x.phase = "rejected" =>
               r.phase = "rejected" \/ (NoJob(d) /\ (d \notin wire \/ x.title \in Refused)),
           Idempotent /\ x.kind = "auto" /\ HasEnded(x) /\ x.phase # "rejected" =>
               (HasEnded(r) /\ r.phase # "rejected") \/ Settled(d),
           Exact /\ x.handle # 0 => x.handle = r.handle \/ job[x.handle].token = d,
           Exact /\ Outcome(x) => Outcome(r) \/ OwnEnded(d)
    PROVE  FateOf(d, x)
<1>1. Unasked(x) => Unasked(r)
  BY DEF Unasked
<1>. QED
  BY <1>1 DEF FateOf

LEMMA InsertFate ==
    ASSUME BasicInv, FateInv, NEW d \in Grabs, Allocate(d)
    PROVE  FateInv'
<1>1. UNCHANGED <<capability, call, observer, job, instance, wire>>
  BY DEF Allocate, clientVars
<1>2. download[d].kind = "none" /\ call[d].pc = "none"
  BY DEF Allocate, BasicInv, GrabberKnows, RowsExist
<1>3. CASE Overlap(d) # {}
  BY <1>1, <1>3, StillClient, WorldStep DEF Allocate
<1>4. CASE Overlap(d) = {}
  <2>. DEFINE x == [NoGrab EXCEPT !.kind = "auto", !.title = grabber[d].title, !.phase = "submitting", !.state = "grabbed"]
  <2>1. download' = [download EXCEPT ![d] = x]
    BY <1>4 DEF Allocate
  <2>2. /\ x.kind = "auto" /\ x.phase = "submitting" /\ x.state = "grabbed" /\ x.handle = 0 /\ ~x.superseded
    BY DEF NoGrab
  <2>3. x \in Rows
    <3>1. grabber[d].title \in Titles \cup {"none"}
      BY RowTypes DEF BasicInv, Grabbers
    <3>2. "submitting" \in Phases /\ "grabbed" \in RowStates
      BY DEF Phases, RowStates, ActiveGrab
    <3>. QED
      BY <3>1, <3>2, NoGrabTypes DEF Rows
  <2>. HIDE DEF x
  <2>4. FateOf(d, x)
    BY <2>2 DEF FateOf, AutoShape, Unasked, HasEnded, Outcome, ActiveGrab
  <2>5. \A k \in Grabs : ~AutoActive(download[k])
    <3>. SUFFICES ASSUME NEW k \in Grabs, AutoActive(download[k])
                  PROVE  k \in Overlap(d)
      BY <1>4
    <3>1. ~download[k].superseded
      BY DEF FateInv, Fates, FateOf, AutoShape, AutoActive
    <3>. QED
      BY <3>1 DEF Overlap, ListDownloadReservations, Reserves, AutoActive
  <2>. QED
    BY <1>1, <1>2, <2>1, <2>3, <2>4, <2>5, StillClient, LocksKept, UncalledFits, RowStep
<1>. QED
  BY <1>3, <1>4

LEMMA ManualFate ==
    ASSUME BasicInv, FateInv, NEW d \in Grabs, NEW t \in Titles, InsertManualAdditionalDownload(d, t)
    PROVE  FateInv'
<1>1. UNCHANGED <<capability, call, observer, job, instance, wire>> /\ download[d] = NoGrab
  BY DEF InsertManualAdditionalDownload, clientVars
<1>2. download[d].kind = "none" /\ call[d].pc = "none"
  BY <1>1, NoGrabTypes DEF BasicInv, RowsExist
<1>. DEFINE x == [NoGrab EXCEPT !.kind = "manual", !.title = t, !.phase = "pending", !.state = "grabbed"]
<1>3. download' = [download EXCEPT ![d] = x]
  BY DEF InsertManualAdditionalDownload
<1>4. /\ x.kind = "manual" /\ x.phase = "pending" /\ x.state = "grabbed" /\ x.handle = 0
  BY DEF NoGrab
<1>5. x \in Rows
  <2>1. "pending" \in Phases /\ "grabbed" \in RowStates
    BY DEF Phases, RowStates, ActiveGrab
  <2>. QED
    BY <2>1, NoGrabTypes DEF Rows
<1>. HIDE DEF x
<1>6. NoJob(d) /\ d \notin wire
  BY <1>2 DEF FateInv, Fates, FateOf, Unasked
<1>7. FateOf(d, x)
  BY <1>4, <1>6 DEF FateOf, AutoShape, Unasked, HasEnded, Outcome
<1>8. ~AutoActive(x)
  BY <1>4 DEF AutoActive
<1>. QED
  BY <1>1, <1>2, <1>3, <1>5, <1>7, <1>8, StillClient, LocksKept, UncalledFits, RowStep

LEMMA DeleteFate ==
    ASSUME BasicInv, FateInv, NEW d \in Grabs, DeleteDownload(d)
    PROVE  FateInv'
<1>1. /\ UNCHANGED <<capability, call, observer, job, instance, wire>>
      /\ download' = [download EXCEPT ![d] = DeletedRow] /\ download[d].phase = "rejected"
  BY DEF DeleteDownload, clientVars
<1>2. call[d].pc = "none"
  BY <1>1 DEF FateInv, CallsFit, CallFits, AutomaticSubmissionPending
<1>3. DeletedRow \in Rows /\ DeletedRow.kind = "deleted" /\ DeletedRow.handle = 0 /\ DeletedRow.state = "none"
  BY NoGrabTypes DEF DeletedRow, NoGrab
<1>4. FateOf(d, DeletedRow)
  BY <1>3 DEF FateOf, AutoShape, Unasked, HasEnded, Outcome
<1>5. ~AutoActive(DeletedRow)
  BY <1>3 DEF AutoActive
<1>. QED
  BY <1>1, <1>2, <1>3, <1>4, <1>5, StillClient, LocksKept, UncalledFits, RowStep

LEMMA RejectFate ==
    ASSUME NEW d \in Grabs, NEW r \in Rows, FateOf(d, r), r.kind \in {"auto", "manual"},
           r.kind = "auto" /\ Idempotent => r.handle = 0,
           r.kind = "manual" => NoJob(d) /\ (d \notin wire \/ r.title \in Refused)
    PROVE  LET x == RejectDownloadSubmission(r)
           IN  /\ x \in Rows /\ FateOf(d, x) /\ x.kind = r.kind /\ x.handle = r.handle
               /\ AutoActive(x) => AutoActive(r)
<1>. DEFINE x == RejectDownloadSubmission(r)
<1>1. x \in Rows /\ x.kind = r.kind
  BY SimpleWrites, SubmissionAssumption DEF SameRequest, AnyHandle
<1>2. \/ x = r
      \/ /\ Alike(r, x) /\ x.state = "failed" /\ x.phase = "rejected" /\ x.handle = r.handle
         /\ ~HasEnded(r) /\ r.parked = "no"
  BY RejectColumns
<1>. HIDE DEF x
<1>3. CASE x = r
  BY <1>1, <1>3 DEF x
<1>4. CASE /\ Alike(r, x) /\ x.state = "failed" /\ x.phase = "rejected" /\ x.handle = r.handle
           /\ ~HasEnded(r) /\ r.parked = "no"
  <2>1. AutoShape(x)
    BY <1>4 DEF Alike, AutoShape, FateOf, HasEnded
  <2>2. FateOf(d, x)
    BY <1>1, <1>4, <2>1, FateOfWrite DEF Alike, Outcome
  <2>3. ~AutoActive(x)
    BY <1>4 DEF AutoActive, ActiveGrab
  <2>. QED
    BY <1>1, <1>4, <2>2, <2>3 DEF x
<1>. QED
  BY <1>2, <1>3, <1>4

\* The row's lock is free, so no call and no observation holds the row.
LEMMA SendFits ==
    ASSUME BasicInv, FateInv, NEW d \in Grabs, ~Locked(d), NEW who \in {"grab", "retry", "manual"}, Send(d, who),
           UNCHANGED observer,
           \/ download'[d].kind = "auto" /\ AutomaticSubmissionPending(download'[d])
           \/ download'[d].kind = "manual" /\ download'[d].phase = "submitting"
    PROVE  /\ CallFits(d)' /\ LockedOnce'
           /\ \A k \in Grabs \ {d} : call'[k] = call[k]
<1>1. /\ call' \in [Grabs -> Calls] /\ call'[d].pc = "send"
      /\ \A k \in Grabs \ {d} : call'[k] = call[k]
  BY SendType DEF BasicInv
<1>2. CallFits(d)'
  BY <1>1 DEF CallFits, AutomaticSubmissionPending
<1>3. LockedOnce'
  <2>1. \A p \in Observers : observer[p].pc = "bind" => observer[p].of \in Grabs \ {d}
    BY DEF Locked, BasicInv, SubmissionTypeOK
  <2>. QED
    BY <1>1, <2>1 DEF FateInv, LockedOnce
<1>. QED
  BY <1>1, <1>2, <1>3

LEMMA SubmitFate ==
    ASSUME BasicInv, FateInv, NEW d \in Grabs, Submit(d)
    PROVE  FateInv'
<1>1. UNCHANGED <<capability, download, observer, job, instance, wire>> /\ ~Locked(d)
  BY DEF Submit, clientVars
<1>2. CASE ~AutomaticSubmissionPending(download[d])
  <2>1. UNCHANGED call
    BY <1>2 DEF Submit
  <2>. QED
    BY <1>1, <2>1, StillClient, WorldStep
<1>3. CASE AutomaticSubmissionPending(download[d])
  <2>1. Send(d, "grab")
    BY <1>3 DEF Submit
  <2>2. download'[d].kind = "auto" /\ AutomaticSubmissionPending(download'[d])
    BY <1>1, <1>3 DEF AutomaticSubmissionPending
  <2>3. /\ CallFits(d)' /\ LockedOnce'
        /\ \A k \in Grabs \ {d} : call'[k] = call[k]
    BY <1>1, <2>1, <2>2, SendFits
  <2>4. download[d] \in Rows /\ FateOf(d, download[d]) /\ download' = [download EXCEPT ![d] = download[d]]
    BY <1>1 DEF FateInv, Fates, BasicInv, SubmissionTypeOK
  <2>. QED
    BY <1>1, <2>3, <2>4, StillClient, RowStep
<1>. QED
  BY <1>2, <1>3

LEMMA RetryFate ==
    ASSUME BasicInv, FateInv, NEW d \in Grabs, ProcessRunnerSubmissionRetries(d)
    PROVE  FateInv'
<1>1. /\ UNCHANGED <<capability, observer, job, instance, wire>> /\ ~Locked(d)
      /\ Idempotent /\ AutomaticSubmissionPending(download[d])
  BY DEF ProcessRunnerSubmissionRetries, AutomaticSubmissionRetryable, clientVars
<1>2. /\ download[d] \in Rows /\ FateOf(d, download[d]) /\ call[d].pc = "none"
      /\ download[d].kind = "auto" /\ download[d].handle = 0
  BY <1>1, RowTypes DEF Locked, BasicInv, FateInv, Fates, FateOf, AutoShape, AutomaticSubmissionPending
<1>3. CASE download' = [download EXCEPT ![d] = RejectDownloadSubmission(@)] /\ UNCHANGED call
  <2>. DEFINE x == RejectDownloadSubmission(download[d])
  <2>1. /\ x \in Rows /\ FateOf(d, x) /\ x.kind = download[d].kind /\ x.handle = download[d].handle
        /\ AutoActive(x) => AutoActive(download[d])
    BY <1>2, RejectFate
  <2>2. download' = [download EXCEPT ![d] = x]
    BY <1>3
  <2>. HIDE DEF x
  <2>. QED
    BY <1>1, <1>2, <1>3, <2>1, <2>2, StillClient, LocksKept, UncalledFits, RowStep
<1>4. CASE Send(d, "retry") /\ UNCHANGED download
  <2>1. AutomaticSubmissionPending(download'[d])
    BY <1>1, <1>4 DEF AutomaticSubmissionPending
  <2>2. /\ CallFits(d)' /\ LockedOnce'
        /\ \A k \in Grabs \ {d} : call'[k] = call[k]
    BY <1>1, <1>2, <1>4, <2>1, SendFits
  <2>3. download' = [download EXCEPT ![d] = download[d]]
    BY <1>4 DEF BasicInv, SubmissionTypeOK
  <2>. QED
    BY <1>1, <1>2, <2>2, <2>3, StillClient, RowStep
<1>. QED
  BY <1>3, <1>4 DEF ProcessRunnerSubmissionRetries, RetryAutomaticSubmission

LEMMA MatchedHandle ==
    ASSUME BasicInv, NEW d \in Grabs, NEW st \in MatchStatus(d, download[d], Inventory)
    PROVE  st.handle \in Handles /\ st.handle \in AnyHandle /\ st.handle # 0
<1>1. st \in Inventory
  BY DEF MatchStatus
<1>2. PICK h \in Handles : st = StatusOf(h)
  BY <1>1 DEF Inventory
<1>. QED
  BY <1>2, SubmissionAssumption DEF StatusOf, Handles, AnyHandle

LEMMA ResumeFate ==
    ASSUME BasicInv, FateInv, NEW d \in Grabs, ResumeManualRequest(d)
    PROVE  FateInv'
<1>. DEFINE r == download[d]
<1>1. /\ UNCHANGED <<capability, observer, job, instance, wire>> /\ ~Locked(d)
      /\ r.kind = "manual" /\ r.phase # "rejected" /\ r.state = "grabbed"
  BY DEF ResumeManualRequest, clientVars
<1>2. r \in Rows /\ FateOf(d, r) /\ call[d].pc = "none"
  BY <1>1, RowTypes DEF Locked, BasicInv, FateInv, Fates
<1>3. ASSUME NEW st \in MatchStatus(d, r, Inventory), UNCHANGED call,
             download' = [download EXCEPT ![d] = CommitManualSubmission(@, st.handle)]
      PROVE  FateInv'
  <2>. DEFINE x == CommitManualSubmission(r, st.handle)
  <2>1. st.handle \in AnyHandle /\ st.handle # 0 /\ (Exact => job[st.handle].token = d)
    BY MatchedHandle, MatchedOwn
  <2>2. x \in Rows /\ Alike(r, x) /\ x.state = r.state /\ x.phase = "submitted" /\ x.handle = st.handle
    <3>1. SameRequest(r, x)
      BY <1>2, <2>1, SimpleWrites
    <3>2. Alike(r, x) /\ x.state = r.state /\ x.phase = "submitted" /\ x.handle = st.handle
      BY <1>2, CommitColumns
    <3>. QED
      BY <3>1, <3>2 DEF SameRequest
  <2>3. download' = [download EXCEPT ![d] = x]
    BY <1>3
  <2>. HIDE DEF x
  <2>4. x.kind = "manual" /\ x.title = r.title
    BY <1>1, <2>2 DEF Alike
  <2>5. FateOf(d, x)
    BY <1>1, <1>2, <2>1, <2>2, <2>4, FateOfWrite DEF AutoShape, Outcome
  <2>6. ~AutoActive(x)
    BY <2>4 DEF AutoActive
  <2>. QED
    BY <1>1, <1>2, <1>3, <2>1, <2>2, <2>3, <2>4, <2>5, <2>6, StillClient, LocksKept, UncalledFits, RowStep
<1>4. CASE /\ r.phase = "pending" /\ UNCHANGED call
           /\ download' = [download EXCEPT ![d] = RejectDownloadSubmission(@)]
  <2>. DEFINE x == RejectDownloadSubmission(r)
  <2>1. NoJob(d) /\ d \notin wire
    BY <1>1, <1>2, <1>4 DEF FateOf, Unasked
  <2>2. /\ x \in Rows /\ FateOf(d, x) /\ x.kind = r.kind /\ x.handle = r.handle
        /\ AutoActive(x) => AutoActive(r)
    BY <1>1, <1>2, <2>1, RejectFate
  <2>3. download' = [download EXCEPT ![d] = x]
    BY <1>4
  <2>. HIDE DEF x
  <2>. QED
    BY <1>1, <1>2, <1>4, <2>2, <2>3, StillClient, LocksKept, UncalledFits, RowStep
<1>5. CASE DispatchManualRequest(d)
  <2>. DEFINE x == SetSubmissionPhase(r, "submitting")
  <2>1. /\ x \in Rows /\ Alike(r, x) /\ x.state = r.state /\ x.phase = "submitting" /\ x.handle = r.handle
    BY <1>2, SimpleWrites, PhaseColumns, SubmissionAssumption DEF SameRequest, AnyHandle
  <2>2. download' = [download EXCEPT ![d] = x] /\ Send(d, "manual")
    BY <1>5 DEF DispatchManualRequest
  <2>. HIDE DEF x
  <2>3. x.kind = "manual" /\ x.title = r.title
    BY <1>1, <2>1 DEF Alike
  <2>4. FateOf(d, x)
    BY <1>1, <1>2, <2>1, <2>3, FateOfWrite DEF AutoShape, Outcome
  <2>5. download'[d] = x /\ ~AutoActive(x)
    BY <2>2, <2>3 DEF BasicInv, SubmissionTypeOK, AutoActive
  <2>6. /\ CallFits(d)' /\ LockedOnce'
        /\ \A k \in Grabs \ {d} : call'[k] = call[k]
    BY <1>1, <2>1, <2>2, <2>3, <2>5, SendFits
  <2>. QED
    BY <1>1, <1>2, <2>1, <2>2, <2>3, <2>4, <2>5, <2>6, StillClient, RowStep
<1>. QED
  BY <1>3, <1>4, <1>5 DEF ResumeManualRequest

\* The receipt of an accepted request, of a row that was submitting.
LEMMA AcceptedColumns ==
    ASSUME NEW r \in Rows, NEW h \in AnyHandle, NEW x, x = Accepted(r, h)
    PROVE  /\ Alike(r, x) /\ x.state = r.state /\ x.phase \in {"submitted", "uncertain"}
           /\ x.handle = r.handle \/ (h # 0 /\ x.handle = h)
           /\ x.phase # "submitted" => x.handle = r.handle
<1>. DEFINE saved == IF h = 0 THEN RecordHandlelessSubmission(r)
                     ELSE IF r.kind = "manual" THEN {CommitManualSubmission(r, h)} ELSE RecordDownloadSubmission(r, h)
            Fit(y) == /\ Alike(r, y) /\ y.state = r.state /\ y.phase \in {"submitted", "uncertain"}
                      /\ y.handle = r.handle \/ (h # 0 /\ y.handle = h)
                      /\ y.phase # "submitted" => y.handle = r.handle
<1>1. ASSUME NEW y \in saved
      PROVE  Fit(y)
  <2>1. CASE h = 0
    BY <1>1, <2>1, RecordHandlelessColumns
  <2>2. CASE h # 0 /\ r.kind = "manual"
    BY <1>1, <2>2, CommitColumns
  <2>3. CASE h # 0 /\ r.kind # "manual"
    BY <1>1, <2>3, RecordColumns
  <2>. QED
    BY <2>1, <2>2, <2>3
<1>2. Fit(SetSubmissionPhase(r, "uncertain"))
  BY PhaseColumns
<1>3. x = IF saved # {} THEN CHOOSE y \in saved : TRUE ELSE SetSubmissionPhase(r, "uncertain")
  BY DEF Accepted
<1>. HIDE DEF saved, Fit
<1>4. Fit(x)
  BY <1>1, <1>2, <1>3
<1>. QED
  BY <1>4 DEF Fit

LEMMA ReturnFate ==
    ASSUME BasicInv, FateInv, NEW d \in Grabs, AddReturns(d)
    PROVE  FateInv'
<1>. DEFINE r == download[d]
            h == call[d].handle
<1>1. /\ UNCHANGED <<capability, observer, job, instance, wire>> /\ call[d].pc = "answer"
      /\ call' = [call EXCEPT ![d] = NoSubmission]
  BY DEF AddReturns, clientVars
<1>2. r \in Rows /\ FateOf(d, r) /\ h \in AnyHandle
  BY RowTypes DEF BasicInv, FateInv, Fates, Calls
<1>3. /\ r.kind \in {"auto", "manual"}
      /\ r.kind = "auto" => AutomaticSubmissionPending(r)
      /\ r.kind = "manual" => r.phase = "submitting"
      /\ call[d].answer = "refused" => r.title \in Refused
      /\ Exact /\ call[d].answer = "accepted" /\ h # 0 => job[h].token = d
  BY <1>1 DEF FateInv, CallsFit, CallFits
<1>4. /\ call'[d].pc = "none" /\ \A k \in Grabs \ {d} : call'[k] = call[k]
      /\ \A k \in Grabs : call'[k] = call[k] \/ call'[k].pc = "none"
  BY <1>1, NoGrabTypes DEF BasicInv, SubmissionTypeOK
<1>5. /\ r.phase \notin {"rejected", "submitted", "pending"}
      /\ r.kind = "auto" => /\ ~HasEnded(r) /\ AutoActive(r) /\ ~r.superseded
                            /\ Idempotent => r.handle = 0 /\ r.state # "downloaded"
  BY <1>2, <1>3 DEF FateOf, AutoShape, AutomaticSubmissionPending, HasEnded, AutoActive
<1>6. ASSUME NEW x \in Rows, download' = [download EXCEPT ![d] = x], FateOf(d, x), x.kind = r.kind,
             r.handle # 0 => x.handle # 0
      PROVE  FateInv'
  <2>1. AutoActive(x) => AutoActive(r)
    BY <1>5, <1>6 DEF AutoActive
  <2>. QED
    BY <1>1, <1>3, <1>4, <1>6, <2>1, StillClient, LocksKept, UncalledFits, RowStep
<1>7. CASE call[d].answer = "accepted"
  <2>. DEFINE x == Accepted(r, h)
  <2>1. download' = [download EXCEPT ![d] = x]
    BY <1>7 DEF AddReturns
  <2>2. x \in Rows
    BY <1>2, AcceptedWrites DEF SameRequest
  <2>3. /\ Alike(r, x) /\ x.state = r.state /\ x.phase \in {"submitted", "uncertain"}
        /\ x.handle = r.handle \/ (h # 0 /\ x.handle = h)
        /\ x.phase # "submitted" => x.handle = r.handle
    BY <1>2, AcceptedColumns
  <2>. HIDE DEF x, h
  <2>4. AutoShape(x)
    BY <1>5, <2>3 DEF Alike, AutoShape, AutoActive, HasEnded
  <2>5. FateOf(d, x)
    <3>1. /\ x.kind = r.kind /\ x.title = r.title
          /\ Idempotent /\ x.kind = "auto" /\ HasEnded(x) => HasEnded(r) /\ r.phase # "rejected"
          /\ Exact /\ x.handle # 0 => x.handle = r.handle \/ job[x.handle].token = d
          /\ Outcome(x) => Outcome(r)
      BY <1>3, <1>5, <1>7, <2>3 DEF Alike, HasEnded, Outcome
    <3>2. x.phase \notin {"pending", "rejected"}
      BY <2>3
    <3>. HIDE DEF r
    <3>. QED
      BY <1>2, <1>3, <2>2, <2>4, <3>1, <3>2, FateOfWrite
  <2>. QED
    BY <1>6, <2>1, <2>2, <2>3, <2>5 DEF Alike
<1>8. CASE call[d].answer = "refused"
  <2>. DEFINE x == RejectDownloadSubmission(r)
  <2>1. download' = [download EXCEPT ![d] = x]
    BY <1>8 DEF AddReturns
  <2>2. r.kind = "manual" => NoJob(d) /\ r.title \in Refused
    BY <1>2, <1>3, <1>8 DEF FateOf
  <2>3. x \in Rows /\ FateOf(d, x) /\ x.kind = r.kind /\ x.handle = r.handle
    BY <1>2, <1>3, <1>5, <2>2, RejectFate
  <2>. HIDE DEF x
  <2>. QED
    BY <1>6, <2>1, <2>3
<1>9. CASE call[d].answer \notin {"accepted", "refused"} /\ call[d].by = "retry"
  <2>1. download' = [download EXCEPT ![d] = r]
    BY <1>9 DEF AddReturns
  <2>. QED
    BY <1>2, <1>6, <2>1
<1>10. CASE call[d].answer \notin {"accepted", "refused"} /\ call[d].by # "retry"
  <2>. DEFINE y == SetSubmissionPhase(r, "uncertain")
              x == UpdateDownloadState(y, "grabbed")
  <2>1. download' = [download EXCEPT ![d] = x]
    BY <1>10 DEF AddReturns
  <2>2. y \in Rows
    BY <1>2, SimpleWrites DEF SameRequest
  <2>3. Alike(r, y) /\ y.state = r.state /\ y.phase = "uncertain" /\ y.handle = r.handle
    BY <1>2, PhaseColumns
  <2>. HIDE DEF y
  <2>4. x \in Rows
    BY <2>2, StateWrites DEF SameRequest, RowStates, ActiveGrab
  <2>5. Alike(y, x) /\ x.state = "grabbed" /\ x.phase = y.phase /\ x.handle = y.handle
    BY <2>2, StateColumns
  <2>. HIDE DEF x
  <2>6. x.kind = r.kind /\ x.title = r.title /\ x.superseded = r.superseded /\ x.phase = "uncertain" /\ x.handle = r.handle
    BY <2>3, <2>5 DEF Alike
  <2>7. AutoShape(x) /\ ~HasEnded(x) /\ ~Outcome(x)
    BY <1>5, <2>5, <2>6 DEF AutoShape, ActiveGrab, HasEnded, Outcome
  <2>. HIDE DEF r
  <2>8. FateOf(d, x)
    BY <1>2, <1>3, <2>4, <2>6, <2>7, FateOfWrite
  <2>. QED
    BY <1>6, <2>1, <2>4, <2>6, <2>8
<1>. QED
  BY <1>7, <1>8, <1>9, <1>10

LEMMA ImportFate ==
    ASSUME BasicInv, JobInv, FateInv, NEW d \in Grabs, ImportSettles(d)
    PROVE  FateInv'
<1>. DEFINE r == download[d]
<1>1. UNCHANGED <<capability, call, observer, job, instance, wire>> /\ ~Locked(d) /\ r.state \in {"grabbed", "downloading", "downloaded"}
  BY DEF ImportSettles, clientVars
<1>2. r \in Rows /\ FateOf(d, r) /\ call[d].pc = "none"
  BY <1>1, RowTypes DEF Locked, BasicInv, FateInv, Fates
<1>3. r.kind \in {"auto", "manual"}
  <2>1. r.kind # "none"
    BY <1>1 DEF BasicInv, RowsExist
  <2>2. r.kind # "deleted"
    BY <1>1, <1>2 DEF FateOf, DeletedRow, NoGrab
  <2>. QED
    BY <1>2, <2>1, <2>2 DEF Rows
<1>4. PICK ok \in BOOLEAN :
        download' = [download EXCEPT ![d] = [UpdateDownloadState(@, IF ok THEN "imported" ELSE "failed") EXCEPT !.retained = ~ok]]
  BY DEF ImportSettles
<1>. DEFINE state == IF ok THEN "imported" ELSE "failed"
            u == UpdateDownloadState(r, state)
            lost == ~ok
            x == [u EXCEPT !.retained = lost]
<1>5. u \in Rows /\ Alike(r, u) /\ u.state = state /\ u.phase = r.phase /\ u.handle = r.handle
  <2>1. SameRequest(r, u)
    BY <1>2, StateWrites DEF RowStates
  <2>2. Alike(r, u) /\ u.state = state /\ u.phase = r.phase /\ u.handle = r.handle
    BY <1>2, StateColumns
  <2>. QED
    BY <2>1, <2>2 DEF SameRequest
<1>6. download' = [download EXCEPT ![d] = x]
  BY <1>4
<1>7. lost \in BOOLEAN /\ state \in {"imported", "failed"} /\ (state = "failed" => lost)
  OBVIOUS
<1>. HIDE DEF u, lost, state
<1>8. /\ x \in Rows /\ x.kind = r.kind /\ x.title = r.title /\ x.superseded = r.superseded /\ x.phase = r.phase
      /\ x.handle = r.handle /\ x.state = state /\ (x.retained <=> lost)
  BY <1>5, <1>7 DEF Rows, Alike
<1>. HIDE DEF x
<1>9. AutoShape(x)
  BY <1>1, <1>2, <1>7, <1>8 DEF FateOf, AutoShape, HasEnded
<1>10. ~Outcome(x) /\ ~AutoActive(x)
  BY <1>7, <1>8 DEF Outcome, AutoActive, ActiveGrab
<1>11. ASSUME Idempotent, x.kind = "auto"
       PROVE  Settled(d)
  <2>1. r.state # "downloaded"
    BY <1>2, <1>8, <1>11 DEF FateOf, AutoShape
  <2>2. PICK h \in JobsOf(d) : job[h].state = "completed"
    BY <2>1 DEF ImportSettles
  <2>3. \A k \in JobsOf(d) : k = h
    BY DEF JobInv, UniqueJobs
  <2>4. job[h].custody # "runner_owned"
    BY <2>2 DEF FateInv, CustodyOfFailed, JobsOf
  <2>. QED
    BY <2>2, <2>3, <2>4 DEF Settled
<1>12. x.kind = "manual" /\ x.phase = "rejected" => r.phase = "rejected"
  BY <1>8
<1>. HIDE DEF r
<1>13. FateOf(d, x)
  BY <1>2, <1>3, <1>8, <1>9, <1>10, <1>11, FateOfWrite
<1>. QED
  BY <1>1, <1>2, <1>3, <1>6, <1>8, <1>10, <1>13, StillClient, LocksKept, UncalledFits, RowStep DEF r

LEMMA RemoveFate ==
    ASSUME BasicInv, FateInv, NEW d \in Grabs, RemoveDownload(d)
    PROVE  FateInv'
<1>. DEFINE r == download[d]
<1>1. /\ UNCHANGED <<capability, call, observer, instance, wire>> /\ ~Locked(d)
      /\ r.phase \in {"pending", "submitting", "uncertain", "submitted"}
  BY DEF RemoveDownload
<1>2. r \in Rows /\ FateOf(d, r) /\ call[d].pc = "none"
  BY <1>1, RowTypes DEF Locked, BasicInv, FateInv, Fates
<1>3. r.kind \in {"auto", "manual"}
  <2>1. r.kind # "none"
    <3>1. r.kind = "none" => r.phase = NoGrab.phase
      BY NoGrabTypes, Zenon DEF BasicInv, RowsExist
    <3>2. NoGrab.phase \notin {"pending", "submitting", "uncertain", "submitted"}
      BY DEF NoGrab
    <3>. QED
      BY <1>1, <3>1, <3>2
  <2>2. r.kind # "deleted"
    <3>1. DeletedRow.phase \notin {"pending", "submitting", "uncertain", "submitted"}
      BY DEF DeletedRow, NoGrab
    <3>. QED
      BY <1>1, <1>2, <3>1 DEF FateOf
  <2>. QED
    BY <1>2, <2>1, <2>2 DEF Rows
<1>4. CASE r.phase = "pending"
  <2>. DEFINE x == [r EXCEPT !.state = "failed", !.phase = "rejected", !.superseded = TRUE]
  <2>1. download' = [download EXCEPT ![d] = x] /\ UNCHANGED job
    BY <1>4, Zenon DEF RemoveDownload
  <2>2. /\ x \in Rows /\ x.kind = r.kind /\ x.title = r.title /\ x.phase = "rejected" /\ x.state = "failed"
        /\ x.handle = r.handle
    BY <1>2 DEF Rows, Phases, RowStates
  <2>. HIDE DEF x
  <2>3. r.kind = "manual" /\ NoJob(d) /\ d \notin wire
    BY <1>2, <1>3, <1>4 DEF FateOf, AutoShape, Unasked
  <2>4. AutoShape(x) /\ ~Outcome(x) /\ ~AutoActive(x)
    BY <2>2, <2>3 DEF AutoShape, Outcome, AutoActive
  <2>. HIDE DEF r
  <2>5. FateOf(d, x)
    BY <1>2, <2>2, <2>3, <2>4, FateOfWrite
  <2>. QED
    BY <1>1, <1>2, <2>1, <2>2, <2>3, <2>4, <2>5, StillClient, LocksKept, UncalledFits, RowStep DEF r
<1>5. CASE r.phase # "pending"
  <2>. DEFINE x == ParkDownload(r, "cancelled")
              gone == [job EXCEPT ![r.handle].state = "removed", ![r.handle].custody = "unknown"]
  <2>1. /\ download' = [download EXCEPT ![d] = x]
        /\ job' = job \/ (r.handle # 0 /\ job' = gone)
    <3>1. /\ download' = [download EXCEPT ![d] = ParkDownload(r, "cancelled")]
          /\ job' \in IF r.handle = 0 THEN {job} ELSE {job, gone}
      BY <1>5, Zenon DEF RemoveDownload
    <3>. HIDE DEF gone
    <3>. QED
      BY <3>1
  <2>2. x \in Rows /\ Alike(r, x) /\ x.state = r.state /\ x.phase = r.phase /\ x.handle = r.handle
    <3>1. SameRequest(r, x)
      BY <1>2, SimpleWrites, SubmissionAssumption DEF AnyHandle
    <3>2. Alike(r, x) /\ x.state = r.state /\ x.phase = r.phase /\ x.handle = r.handle
      BY <1>2, ParkColumns
    <3>. QED
      BY <3>1, <3>2 DEF SameRequest
  <2>. HIDE DEF x
  <2>3. \A h \in Handles : JobMoved(h)
    <3>1. CASE job' = job
      BY <3>1 DEF JobMoved
    <3>2. CASE r.handle # 0 /\ job' = gone
      <4>. DEFINE new == [job[r.handle] EXCEPT !.state = "removed", !.custody = "unknown"]
      <4>1. r.handle \in Handles /\ job \in [Handles -> ClientJobs]
        BY <1>2, <3>2, HandleOfRow DEF BasicInv, SubmissionTypeOK
      <4>2. /\ new.token = job[r.handle].token /\ new.instance = job[r.handle].instance
            /\ new.state = "removed" /\ new.custody = "unknown"
        BY <4>1 DEF ClientJobs
      <4>3. job' = [job EXCEPT ![r.handle] = new]
        BY <3>2
      <4>. HIDE DEF new, gone, r
      <4>. QED
        BY <4>1, <4>2, <4>3, OneJobMoves
    <3>. QED
      BY <2>1, <3>1, <3>2
  <2>4. /\ \A k \in Grabs : Remembered(k) /\ Untouched(k) /\ (Settled(k) => Settled(k)')
        /\ CustodyOfFailed'
    BY <1>1, <2>3, JobMoves DEF FateInv
  <2>5. x.kind = r.kind /\ x.title = r.title /\ x.superseded = r.superseded /\ x.retained = r.retained
    BY <2>2 DEF Alike
  <2>6. /\ AutoShape(x) /\ (Outcome(x) => Outcome(r)) /\ (HasEnded(x) <=> HasEnded(r))
        /\ AutoActive(x) => AutoActive(r)
    BY <1>2, <2>2, <2>5 DEF FateOf, AutoShape, Outcome, HasEnded, AutoActive
  <2>. HIDE DEF r, gone
  <2>7. FateOf(d, x)
    BY <1>2, <1>3, <2>2, <2>5, <2>6, FateOfWrite
  <2>. QED
    BY <1>1, <1>2, <1>3, <2>1, <2>2, <2>4, <2>5, <2>6, <2>7, LocksKept, UncalledFits, RowStep DEF r
<1>. QED
  BY <1>4, <1>5

-----------------------------------------------------------------------------
(* What the receipt makes of an observation. *)

LEMMA StatusColumns ==
    ASSUME NEW st \in Statuses, NEW state
    PROVE  LET s == [st EXCEPT !.state = state]
           IN  s.handle = st.handle /\ s.token = st.token /\ s.state = state
BY DEF Statuses

\* An observation of r that goes on, or is held, as one of the row's own job.
Follows(d, r, st, o) ==
    /\ Alike(r, o.row)
    /\ o.row.phase = r.phase \/ (o.row.phase = "submitted" /\ r.phase \in {"submitting", "uncertain", "submitted"})
    /\ o.row.handle = r.handle \/ (o.row.phase = "submitted" /\ o.row.handle # 0 /\ job[o.row.handle].token = d)
    /\ o.row.state = r.state \/ (r.kind = "auto" /\ o.row.state = "awaiting_import" /\ ~HasEnded(r))
    /\ ~o.hold =>
         /\ o.st.handle = st.handle /\ o.st.token = st.token
         /\ o.st.state = st.state \/ OwnEnded(d)
         /\ Idempotent /\ r.kind = "auto" /\ o.st.state \in {"failed", "removed"} => Settled(d)

LEMMA ReceiptFollows ==
    ASSUME BasicInv, JobInv, FateInv, NEW d \in Grabs, NEW r \in Rows, FateOf(d, r), r.kind \in {"auto", "manual"},
           NEW st \in Statuses, Idempotent, NEW o \in AuthoritativeRunnerObservation(d, r, st)
    PROVE  Follows(d, r, st, o)
<1>1. CASE o = NoReceipt(r, st)
  <2>1. o.row = r /\ o.st = st /\ (~o.hold => st.state \notin {"failed", "removed"})
    BY <1>1 DEF NoReceipt, Held, GoOn
  <2>. QED
    BY <2>1 DEF Follows, Alike
<1>2. ASSUME NEW h \in JobsOf(d), o = WithReceipt(r, st, h)
      PROVE  Follows(d, r, st, o)
  <2>. DEFINE receipt == job[h]
              bound == [r EXCEPT !.instance = receipt.instance]
              mine == IF r.handle = 0 THEN RecordDownloadSubmission(bound, h) ELSE {bound}
              own == CHOOSE x \in mine : TRUE
  <2>1. h \in AnyHandle /\ h # 0 /\ h \in Handles /\ job[h].token = d /\ job[h] \in ClientJobs
    BY SubmissionAssumption DEF JobsOf, Handles, AnyHandle, BasicInv, SubmissionTypeOK
  <2>2. /\ bound \in Rows /\ Alike(r, bound) /\ bound.phase = r.phase /\ bound.handle = r.handle
        /\ bound.state = r.state /\ bound.parked = r.parked
    BY <2>1 DEF Rows, ClientJobs, Alike
  <2>. HIDE DEF bound
  <2>. DEFINE Own(x) == /\ x \in Rows /\ Alike(r, x) /\ x.state = r.state
                        /\ x.phase = r.phase \/ (x.phase = "submitted" /\ r.phase \in {"submitting", "uncertain", "submitted"})
                        /\ x.handle = r.handle \/ (x.phase = "submitted" /\ x.handle # 0 /\ job[x.handle].token = d)
                        /\ r.handle = 0 => r.phase # "rejected"
  <2>3. \A x \in mine : Own(x)
    <3>1. CASE r.handle # 0
      BY <2>2, <3>1
    <3>2. CASE r.handle = 0
      <4>. SUFFICES ASSUME NEW x \in RecordDownloadSubmission(bound, h)
                    PROVE  Own(x)
        BY <3>2
      <4>1. SameRequest(bound, x)
        BY <2>1, <2>2, SimpleWrites
      <4>2. /\ Alike(bound, x) /\ x.state = bound.state /\ x.phase = "submitted" /\ x.handle = h
            /\ bound.phase \in {"submitting", "uncertain", "submitted"}
        BY <2>1, <2>2, RecordColumns
      <4>. QED
        BY <2>1, <2>2, <4>1, <4>2 DEF SameRequest, Alike
    <3>. QED
      BY <3>1, <3>2
  <2>. HIDE DEF mine, Own
  <2>4. mine # {} => Own(own)
    BY <2>3
  <2>. HIDE DEF own
  <2>5. o = IF ~BindsAdmission(r, receipt) THEN Held(ParkDownload(r, "held"), st)
            ELSE IF r.handle \notin {0, h} \/ mine = {} THEN Held(ParkDownload(bound, "held"), st)
            ELSE IF receipt.state = "failed" /\ r.kind # "manual" /\ RunnerFailureNeedsCleanup(receipt)
                 THEN Held(UpdateDownloadState(own, "awaiting_import"), st)
            ELSE IF receipt.state = "removed" /\ receipt.custody = "unknown" THEN Held(ParkDownload(own, "held"), st)
            ELSE IF receipt.state \in {"failed", "removed"} THEN GoOn(own, [st EXCEPT !.state = receipt.state])
            ELSE IF receipt.state = "completed" \/ st.state \in {"failed", "removed"} THEN Held(own, st)
            ELSE GoOn(own, st)
    BY <1>2 DEF WithReceipt, own, mine, bound
  <2>. HIDE DEF receipt
  <2>6. \/ o = Held(ParkDownload(r, "held"), st)
        \/ o = Held(ParkDownload(bound, "held"), st)
        \/ mine # {} /\ \/ o = Held(ParkDownload(own, "held"), st)
                        \/ o = Held(own, st)
                        \/ o = GoOn(own, st) /\ st.state \notin {"failed", "removed"}
        \/ mine # {} /\ r.kind # "manual" /\ RunnerFailureNeedsCleanup(receipt) /\ o = Held(UpdateDownloadState(own, "awaiting_import"), st)
        \/ /\ mine # {} /\ receipt.state \in {"failed", "removed"} /\ o = GoOn(own, [st EXCEPT !.state = receipt.state])
           /\ ~(receipt.state = "failed" /\ r.kind # "manual" /\ RunnerFailureNeedsCleanup(receipt))
    BY <2>5
  <2>7. ASSUME NEW y \in Rows, Alike(r, y), y.state = r.state,
               y.phase = r.phase \/ (y.phase = "submitted" /\ r.phase \in {"submitting", "uncertain", "submitted"}),
               y.handle = r.handle \/ (y.phase = "submitted" /\ y.handle # 0 /\ job[y.handle].token = d)
        PROVE  Follows(d, r, st, Held(ParkDownload(y, "held"), st))
    <3>. DEFINE z == ParkDownload(y, "held")
    <3>1. Alike(y, z) /\ z.state = y.state /\ z.phase = y.phase /\ z.handle = y.handle
      BY ParkColumns
    <3>. HIDE DEF z
    <3>2. LET q == Held(z, st) IN q.row = z /\ q.hold
      BY DEF Held
    <3>3. Alike(r, z)
      BY <2>7, <3>1 DEF Alike
    <3>. QED
      BY <2>7, <3>1, <3>2, <3>3 DEF Follows, z
  <2>8. CASE o = Held(ParkDownload(r, "held"), st) \/ o = Held(ParkDownload(bound, "held"), st)
    BY <2>2, <2>7, <2>8 DEF Alike
  <2>9. CASE mine # {} /\ o = Held(ParkDownload(own, "held"), st)
    BY <2>4, <2>7, <2>9 DEF Own
  <2>10. CASE mine # {} /\ (o = Held(own, st) \/ (o = GoOn(own, st) /\ st.state \notin {"failed", "removed"}))
    BY <2>4, <2>10 DEF Own, Follows, Held, GoOn
  <2>11. CASE mine # {} /\ r.kind # "manual" /\ RunnerFailureNeedsCleanup(receipt) /\ o = Held(UpdateDownloadState(own, "awaiting_import"), st)
    <3>. DEFINE z == UpdateDownloadState(own, "awaiting_import")
    <3>1. Own(own) /\ own \in Rows
      BY <2>4, <2>11 DEF Own
    <3>2. Alike(own, z) /\ z.state = "awaiting_import" /\ z.phase = own.phase /\ z.handle = own.handle
      BY <3>1, StateColumns
    <3>. HIDE DEF z
    <3>3. o.row = z /\ o.hold
      BY <2>11 DEF Held, z
    <3>4. Alike(r, z)
      BY <3>1, <3>2 DEF Own, Alike
    <3>5. ~HasEnded(r)
      <4>. SUFFICES ASSUME HasEnded(r)
                    PROVE  FALSE
        OBVIOUS
      <4>1. CASE r.phase # "rejected"
        BY <2>11, <4>1 DEF FateOf, Settled, RunnerFailureNeedsCleanup, receipt
      <4>2. CASE r.phase = "rejected"
        BY <2>11, <3>1, <4>2 DEF FateOf, AutoShape, Own
      <4>. QED
        BY <4>1, <4>2
    <3>. QED
      BY <2>11, <3>1, <3>2, <3>3, <3>4, <3>5 DEF Follows, Own
  <2>12. CASE /\ mine # {} /\ receipt.state \in {"failed", "removed"} /\ o = GoOn(own, [st EXCEPT !.state = receipt.state])
              /\ ~(receipt.state = "failed" /\ r.kind # "manual" /\ RunnerFailureNeedsCleanup(receipt))
    <3>. DEFINE s == [st EXCEPT !.state = receipt.state]
    <3>1. s.handle = st.handle /\ s.token = st.token
      BY StatusColumns
    <3>. HIDE DEF s
    <3>2. o.row = own /\ o.st = s
      BY <2>12 DEF GoOn, s
    <3>3. OwnEnded(d)
      BY <2>1, <2>12 DEF OwnEnded, receipt
    <3>4. r.kind = "auto" => Settled(d)
      <4>. SUFFICES ASSUME r.kind = "auto"
                    PROVE  Settled(d)
        OBVIOUS
      <4>1. \A k \in JobsOf(d) : k = h
        BY DEF JobInv, UniqueJobs
      <4>2. job[h].state # "running" /\ job[h].custody # "runner_owned"
        BY <2>1, <2>12 DEF RunnerFailureNeedsCleanup, receipt, FateInv, CustodyOfFailed
      <4>. QED
        BY <4>1, <4>2 DEF Settled
    <3>. QED
      BY <2>4, <2>12, <3>1, <3>2, <3>3, <3>4 DEF Follows, Own
  <2>. QED
    BY <2>6, <2>8, <2>9, <2>10, <2>11, <2>12
<1>. QED
  BY <1>1, <1>2 DEF AuthoritativeRunnerObservation

LEMMA ReconcileFate ==
    ASSUME BasicInv, JobInv, FateInv, NEW p \in Observers, ReconcileDownload(p),
           NEW d \in Grabs, observer[p].of = d
    PROVE  FateInv'
<1>. DEFINE r == download[d]
            Outcomes(st) == IF NeedsReceipt(observer[p].source, st)
                            THEN AuthoritativeRunnerObservation(d, download[d], st) ELSE {GoOn(download[d], st)}
            Stop(o) == \/ o.hold \/ o.st.state = NoStatus.state
                       \/ o.row.parked = "cancelled" \/ o.row.superseded
            Final(o) == IF ~Stop(o) /\ o.row.phase \in {"uncertain", "submitting"}
                        THEN SetSubmissionPhase(o.row, "submitted") ELSE o.row
<1>1. /\ UNCHANGED <<capability, call, job, instance, wire>> /\ ~Locked(d) /\ observer[p].pc = "seen"
  BY DEF ReconcileDownload, clientVars
<1>2. /\ r \in Rows /\ FateOf(d, r) /\ call[d].pc = "none" /\ r.kind # "none"
      /\ observer \in [Observers -> Watches]
  <2>1. observer \in [Observers -> Watches] /\ r.kind # "none"
    BY <1>1 DEF BasicInv, SubmissionTypeOK, RowsExist
  <2>. QED
    BY <1>1, <2>1, RowTypes DEF BasicInv, FateInv, Fates, Locked
<1>3. \E st \in observer[p].st : \E o \in Outcomes(st) :
         IF r = DeletedRow THEN Ends(p) /\ UNCHANGED <<download, pinned>>
         ELSE /\ download' = [download EXCEPT ![d] = Final(o)]
              /\ IF Stop(o) THEN Ends(p)
                 ELSE observer' = [observer EXCEPT ![p].pc = "bind", ![p].st = {o.st}]
  <2>1. NoStatus.state = ""
    BY DEF NoStatus
  <2>. QED
    BY <2>1, ZenonT(60) DEF ReconcileDownload
<1>4. PICK st \in observer[p].st : \E o \in Outcomes(st) :
         IF r = DeletedRow THEN Ends(p) /\ UNCHANGED <<download, pinned>>
         ELSE /\ download' = [download EXCEPT ![d] = Final(o)]
              /\ IF Stop(o) THEN Ends(p)
                 ELSE observer' = [observer EXCEPT ![p].pc = "bind", ![p].st = {o.st}]
  BY <1>3
<1>5. PICK o \in Outcomes(st) :
         IF r = DeletedRow THEN Ends(p) /\ UNCHANGED <<download, pinned>>
         ELSE /\ download' = [download EXCEPT ![d] = Final(o)]
              /\ IF Stop(o) THEN Ends(p)
                 ELSE observer' = [observer EXCEPT ![p].pc = "bind", ![p].st = {o.st}]
  BY <1>4
<1>6. st \in Statuses /\ (Exact => Seen(d, st))
  BY <1>1, <1>2 DEF Watches, FateInv, ObservedOwn, Observed
<1>7. CASE r = DeletedRow
  <2>1. Ends(p) /\ UNCHANGED download
    BY <1>5, <1>7
  <2>2. \A q \in Observers : observer'[q] = observer[q] \/ observer'[q].pc = "idle"
    BY <1>2, <2>1, NoGrabTypes DEF Ends
  <2>. QED
    BY <1>1, <2>1, <2>2, StillClient, WorldStep
<1>8. CASE r # DeletedRow
  <2>1. r.kind \in {"auto", "manual"}
    BY <1>2, <1>8 DEF FateOf, Rows
  <2>2. Follows(d, r, st, o) /\ o.row \in Rows
    <3>1. CASE o \in AuthoritativeRunnerObservation(d, r, st) /\ NeedsReceipt(observer[p].source, st)
      <4>1. Idempotent
        BY <3>1 DEF NeedsReceipt
      <4>2. SameRequest(r, o.row)
        BY <1>2, <1>6, <3>1, ReceiptWrites DEF BasicInv
      <4>. QED
        BY <1>2, <1>6, <2>1, <3>1, <4>1, <4>2, ReceiptFollows DEF SameRequest
    <3>2. CASE o = GoOn(r, st) /\ ~NeedsReceipt(observer[p].source, st)
      <4>1. o.row = r /\ o.st = st /\ ~o.hold
        BY <3>2 DEF GoOn
      <4>2. Idempotent => st.state \notin {"failed", "removed"}
        BY <3>2 DEF NeedsReceipt
      <4>. QED
        BY <1>2, <4>1, <4>2 DEF Follows, Alike
    <3>. QED
      BY <1>5, <3>1, <3>2
  <2>. DEFINE x == Final(o)
  <2>3. /\ download' = [download EXCEPT ![d] = x]
        /\ IF Stop(o) THEN Ends(p) ELSE observer' = [observer EXCEPT ![p].pc = "bind", ![p].st = {o.st}]
    BY <1>5, <1>8
  <2>4. /\ x \in Rows /\ Alike(o.row, x) /\ x.state = o.row.state /\ x.handle = o.row.handle
        /\ x.phase = o.row.phase \/ (x.phase = "submitted" /\ o.row.phase \in {"uncertain", "submitting"})
    <3>. DEFINE z == SetSubmissionPhase(o.row, "submitted")
    <3>1. z \in Rows
      BY <2>2, SimpleWrites, SubmissionAssumption DEF SameRequest, AnyHandle
    <3>2. Alike(o.row, z) /\ z.state = o.row.state /\ z.phase = "submitted" /\ z.handle = o.row.handle
      BY <2>2, PhaseColumns
    <3>3. x = o.row \/ (x = z /\ o.row.phase \in {"uncertain", "submitting"})
      OBVIOUS
    <3>. HIDE DEF z, x
    <3>. QED
      BY <2>2, <3>1, <3>2, <3>3 DEF Alike
  <2>5. ~o.hold => /\ o.st.handle = st.handle /\ o.st.token = st.token
                   /\ o.st.state = st.state \/ OwnEnded(d)
                   /\ Idempotent /\ r.kind = "auto" /\ o.st.state \in {"failed", "removed"} => Settled(d)
    BY <2>2 DEF Follows
  <2>6. ~Stop(o) => ~o.hold
    OBVIOUS
  <2>. HIDE DEF x, Final, Stop
  <2>7. /\ x.kind = r.kind /\ x.title = r.title /\ x.superseded = r.superseded /\ x.retained = r.retained
        /\ x.phase = r.phase \/ (x.phase = "submitted" /\ r.phase \in {"submitting", "uncertain", "submitted"})
        /\ x.handle = r.handle \/ (x.phase = "submitted" /\ x.handle # 0 /\ job[x.handle].token = d)
        /\ x.state = r.state \/ (r.kind = "auto" /\ x.state = "awaiting_import" /\ ~HasEnded(r))
    BY <2>2, <2>4 DEF Follows, Alike
  <2>. HIDE DEF r
  <2>8. AutoShape(x)
    BY <1>2, <2>7 DEF FateOf, AutoShape, HasEnded, ActiveGrab
  <2>9. /\ x.phase = "pending" => r.phase = "pending"
        /\ x.phase = "rejected" => r.phase = "rejected"
        /\ HasEnded(x) /\ x.phase # "rejected" => HasEnded(r) /\ r.phase # "rejected"
        /\ Outcome(x) => Outcome(r)
    BY <2>7 DEF HasEnded, Outcome
  <2>10. FateOf(d, x)
    BY <1>2, <2>1, <2>4, <2>7, <2>8, <2>9, FateOfWrite
  <2>11. AutoActive(x) => AutoActive(r)
    BY <1>2, <2>7 DEF AutoActive, FateOf, AutoShape
  <2>12. download'[d] = x
    BY <1>2, <2>3 DEF BasicInv, SubmissionTypeOK
  <2>13. /\ \A q \in Observers \ {p} : observer'[q] = observer[q]
         /\ \/ observer'[p].pc = "idle"
            \/ ~Stop(o) /\ observer'[p].pc = "bind" /\ observer'[p].of = d /\ observer'[p].st = {o.st}
    <3>1. CASE Ends(p)
      BY <1>2, <3>1, NoGrabTypes DEF Ends
    <3>2. CASE ~Stop(o) /\ observer' = [observer EXCEPT ![p].pc = "bind", ![p].st = {o.st}]
      <4>. DEFINE new == [observer[p] EXCEPT !.pc = "bind", !.st = {o.st}]
      <4>1. new.pc = "bind" /\ new.of = d /\ new.st = {o.st}
        BY <1>2 DEF Watches
      <4>2. observer' = [observer EXCEPT ![p] = new]
        BY <3>2
      <4>. HIDE DEF new
      <4>. QED
        BY <1>2, <3>2, <4>1, <4>2
    <3>. QED
      BY <2>3, <3>1, <3>2
  <2>14. ASSUME ~Stop(o), observer'[p].pc = "bind", observer'[p].of = d, observer'[p].st = {o.st}
         PROVE  Observed(p)'
    <3>1. (Idempotent' <=> Idempotent) /\ (Exact' <=> Exact)
      BY <1>1, SameClient
    <3>2. ASSUME Exact
          PROVE  Seen(d, o.st)'
      <4>1. o.st.handle = st.handle /\ o.st.token = st.token /\ (o.st.state = st.state \/ OwnEnded(d))
        BY <2>5, <2>6, <2>14
      <4>2. Seen(d, st)
        BY <1>6, <3>2
      <4>3. OwnEnded(d) => OwnEnded(d)'
        BY <1>1 DEF OwnEnded
      <4>4. st.handle # 0 /\ st.token = 0 => x.handle # 0
        BY <1>8, <2>1, <2>7, <4>2 DEF Seen, r
      <4>. QED
        BY <1>1, <2>12, <4>1, <4>2, <4>3, <4>4 DEF Seen
    <3>3. Idempotent /\ r.kind = "auto" /\ o.st.state \in {"failed", "removed"} => Settled(d)
      BY <2>5, <2>6, <2>14
    <3>4. Settled(d) => Settled(d)'
      BY <1>1 DEF Settled, JobsOf
    <3>. QED
      BY <2>7, <2>12, <2>14, <3>1, <3>2, <3>3, <3>4 DEF Observed
  <2>15. \A q \in Observers : observer'[q] = observer[q] \/ observer'[q].pc = "idle" \/ Observed(q)'
    BY <2>13, <2>14
  <2>16. LockedOnce'
    <3>1. \A q \in Observers \ {p} : observer'[q].pc = "bind" => observer'[q].of # d
      BY <1>1, <2>13 DEF Locked
    <3>. QED
      BY <1>1, <1>2, <2>13, <3>1 DEF FateInv, LockedOnce
  <2>17. /\ CallFits(d)' /\ \A k \in Grabs \ {d} : call'[k] = call[k]
    BY <1>1, <1>2, UncalledFits
  <2>18. /\ x.kind = "auto" => r.kind = "auto"
         /\ r.handle # 0 \/ r.kind = "deleted" => x.handle # 0 \/ x.kind = "deleted"
    BY <2>1, <2>7
  <2>. QED
    BY <1>1, <1>2, <2>3, <2>4, <2>10, <2>11, <2>15, <2>16, <2>17, <2>18, StillClient, RowStep DEF r
<1>. QED
  BY <1>7, <1>8

-----------------------------------------------------------------------------
(* What an observation under the row's lock writes. *)

\* The handle an observation may bind.
BindsOwn(d, r, x) ==
    /\ Alike(r, x)
    /\ x.phase = r.phase \/ (x.phase = "submitted" /\ (Exact => r.phase # "rejected"))
    /\ x.handle = r.handle \/ (x.handle # 0 /\ (Exact => job[x.handle].token = d /\ x.phase = "submitted"))

LEMMA BindFollows ==
    ASSUME BasicInv, NEW d \in Grabs, NEW r \in Rows, r = download[d], FateOf(d, r), r.kind \in {"auto", "manual"},
           NEW st \in Statuses, Exact => Seen(d, st), NEW x \in BindHandle(d, r, st)
    PROVE  BindsOwn(d, r, x) /\ x.state = r.state
<1>1. st.handle \in AnyHandle
  BY DEF Statuses
<1>2. Exact => /\ st.handle # 0 => job[st.handle].token = d
               /\ st.token \in {0, d}
               /\ st.handle # 0 /\ st.token = 0 => r.handle # 0
  BY DEF Seen
<1>3. CASE x = r
  BY <1>3 DEF BindsOwn, Alike
<1>4. CASE r.handle = 0 /\ st.handle # 0 /\ st.token # d /\ x = SetDownloadHandle(r, st.handle)
  <2>1. Alike(r, x) /\ x.state = r.state /\ x.phase = r.phase /\ x.handle = st.handle
    BY <1>4, HandleColumns
  <2>2. ~Exact
    BY <1>2, <1>4
  <2>. QED
    BY <1>4, <2>1, <2>2 DEF BindsOwn
<1>5. CASE st.handle # 0 /\ r.kind = "manual" /\ x = CommitManualSubmission(r, st.handle)
  <2>1. Alike(r, x) /\ x.state = r.state /\ x.phase = "submitted" /\ x.handle = st.handle
    BY <1>5, CommitColumns
  <2>2. Exact => r.phase # "rejected"
    <3>. SUFFICES ASSUME Exact, r.phase = "rejected"
                  PROVE  FALSE
      OBVIOUS
    <3>1. NoJob(d)
      BY <1>5 DEF FateOf
    <3>2. st.handle \in Handles /\ job[st.handle].token = d
      BY <1>2, <1>5, HandleOfStatus
    <3>. QED
      BY <3>1, <3>2 DEF NoJob
  <2>. QED
    BY <1>2, <1>5, <2>1, <2>2 DEF BindsOwn
<1>6. CASE st.handle # 0 /\ x \in RecordDownloadSubmission(r, st.handle)
  <2>1. /\ Alike(r, x) /\ x.state = r.state /\ x.phase = "submitted" /\ x.handle = st.handle
        /\ r.phase \in {"submitting", "uncertain", "submitted"}
    BY <1>1, <1>6, RecordColumns
  <2>. QED
    BY <1>2, <1>6, <2>1 DEF BindsOwn
<1>. QED
  BY <1>3, <1>4, <1>5, <1>6 DEF BindHandle

LEMMA ControlFollows ==
    ASSUME NEW r \in Rows, NEW st \in Statuses, NEW c \in AcceptDownloadControl(r, st)
    PROVE  /\ Alike(r, c.row) /\ c.row.phase = r.phase /\ c.row.handle = r.handle
           /\ c.row.state = r.state \/ (c.row.state = "downloading" /\ ~HasEnded(r))
           /\ c.st.state = st.state \/ c.st.state = "running"
<1>1. CASE c = [row |-> r, st |-> st]
  BY <1>1 DEF Alike
<1>2. CASE c \in AcceptControlFacts(r, st)
  <2>. DEFINE heldNow == st.life = "held"
              revision == st.revision
              state == IF heldNow THEN "downloading" ELSE r.state
              taken == [r EXCEPT !.revision = revision, !.held = heldNow, !.state = state]
              s == IF heldNow THEN [st EXCEPT !.state = "running"] ELSE st
  <2>1. c = [row |-> taken, st |-> s] /\ ~HasEnded(r)
    BY <1>2 DEF AcceptControlFacts, HasEnded
  <2>2. s.state = st.state \/ s.state = "running"
    BY StatusColumns
  <2>. HIDE DEF s
  <2>3. state = r.state \/ state = "downloading"
    OBVIOUS
  <2>. HIDE DEF state, heldNow, revision
  <2>4. Alike(r, taken) /\ taken.phase = r.phase /\ taken.handle = r.handle /\ taken.state = state
    BY DEF Alike, Rows
  <2>. HIDE DEF taken
  <2>. QED
    BY <2>1, <2>2, <2>3, <2>4
<1>. QED
  BY <1>1, <1>2 DEF AcceptDownloadControl

LEMMA AppliedFollows ==
    ASSUME NEW r \in Rows, NEW st, NEW x \in Applied(r, st)
    PROVE  /\ Alike(r, x.row) /\ x.row.phase = r.phase /\ x.row.handle = r.handle
           /\ \/ x.row.state = r.state
              \/ /\ ~HasEnded(r)
                 /\ \/ x.row.state = "downloading"
                    \/ x.row.state = "failed" /\ st.state \in {"failed", "removed"}
                    \/ x.row.state = "downloaded" /\ st.state = "completed" /\ ~Idempotent
<1>1. \/ x.row = r
      \/ x.row = UpdateDownloadState(r, "downloading") /\ ~HasEnded(r)
      \/ x.row = UpdateDownloadState(r, "failed") /\ ~HasEnded(r) /\ st.state \in {"failed", "removed"}
      \/ x.row = UpdateDownloadState(r, "downloaded") /\ ~HasEnded(r) /\ st.state = "completed" /\ ~Idempotent
  BY DEF Applied, HandleFailure, HandleRemoved, HasEnded, DeliveryExpected
<1>2. \A state \in {"downloading", "failed", "downloaded"} :
        LET u == UpdateDownloadState(r, state)
        IN  Alike(r, u) /\ u.state = state /\ u.phase = r.phase /\ u.handle = r.handle
  BY StateColumns
<1>. QED
  BY <1>1, <1>2 DEF Alike

\* What a row may become under an observation of its own job.
Applies(d, r, st, x) ==
    /\ BindsOwn(d, r, x)
    /\ \/ x.state = r.state
       \/ /\ ~HasEnded(r)
          /\ \/ x.state = "downloading"
             \/ x.state = "failed" /\ st.state \in {"failed", "removed"}
             \/ x.state = "downloaded" /\ st.state = "completed" /\ ~Idempotent

LEMMA AppliesFollow ==
    ASSUME BasicInv, NEW d \in Grabs, NEW r \in Rows, r = download[d], FateOf(d, r), r.kind \in {"auto", "manual"},
           NEW st \in Statuses, Exact => Seen(d, st), NEW b \in BindHandle(d, r, st),
           NEW c \in AcceptDownloadControl(b, st), NEW x \in Applied(c.row, c.st)
    PROVE  Applies(d, r, st, x.row) /\ Applies(d, r, st, b) /\ x.row \in Rows /\ b \in Rows
<1>1. BindsOwn(d, r, b) /\ b.state = r.state /\ b \in Rows
  BY BindFollows, BindWrites DEF SameRequest
<1>2. /\ Alike(b, c.row) /\ c.row.phase = b.phase /\ c.row.handle = b.handle
      /\ c.row.state = b.state \/ (c.row.state = "downloading" /\ ~HasEnded(b))
      /\ c.st.state = st.state \/ c.st.state = "running"
  BY <1>1, ControlFollows
<1>3. c.row \in Rows
  BY <1>1, ControlWrites DEF SameRequest
<1>4. c.st \in Statuses
  BY <1>1, ControlWrites
<1>5. x.row \in Rows
  BY <1>3, <1>4, AppliedWrites DEF SameRequest
<1>6. /\ Alike(c.row, x.row) /\ x.row.phase = c.row.phase /\ x.row.handle = c.row.handle
      /\ \/ x.row.state = c.row.state
         \/ /\ ~HasEnded(c.row)
            /\ \/ x.row.state = "downloading"
               \/ x.row.state = "failed" /\ c.st.state \in {"failed", "removed"}
               \/ x.row.state = "downloaded" /\ c.st.state = "completed" /\ ~Idempotent
  BY <1>3, AppliedFollows
<1>7. BindsOwn(d, r, x.row)
  BY <1>1, <1>2, <1>6 DEF BindsOwn, Alike
<1>. QED
  BY <1>1, <1>2, <1>5, <1>6, <1>7 DEF Applies, HasEnded

LEMMA AppliesFate ==
    ASSUME NEW d \in Grabs, NEW r \in Rows, NEW x \in Rows, NEW st, FateOf(d, r), r.kind \in {"auto", "manual"},
           Exact => Seen(d, st), Idempotent /\ st.state \in {"failed", "removed"} /\ r.kind = "auto" => Settled(d),
           Applies(d, r, st, x)
    PROVE  /\ FateOf(d, x) /\ (AutoActive(x) => AutoActive(r))
           /\ x.kind = r.kind /\ (r.handle # 0 => x.handle # 0)
<1>0. Idempotent => Exact
  BY DEF Idempotent, Exact
<1>1. /\ x.kind = r.kind /\ x.title = r.title /\ x.superseded = r.superseded /\ x.retained = r.retained
      /\ x.phase = r.phase \/ (x.phase = "submitted" /\ (Exact => r.phase # "rejected"))
      /\ x.handle = r.handle \/ (x.handle # 0 /\ (Exact => job[x.handle].token = d /\ x.phase = "submitted"))
      /\ \/ x.state = r.state
         \/ /\ ~HasEnded(r)
            /\ \/ x.state = "downloading"
               \/ x.state = "failed" /\ st.state \in {"failed", "removed"}
               \/ x.state = "downloaded" /\ st.state = "completed" /\ ~Idempotent
  BY DEF Applies, BindsOwn, Alike
<1>2. AutoShape(x)
  BY <1>0, <1>1 DEF FateOf, AutoShape, HasEnded, ActiveGrab
<1>3. AutoActive(x) => AutoActive(r)
  BY <1>1 DEF AutoActive, FateOf, AutoShape
<1>4. Idempotent /\ x.kind = "auto" /\ HasEnded(x) /\ x.phase # "rejected" =>
         (HasEnded(r) /\ r.phase # "rejected") \/ Settled(d)
  BY <1>0, <1>1 DEF HasEnded
<1>5. Exact /\ Outcome(x) => Outcome(r) \/ OwnEnded(d)
  BY <1>1 DEF Outcome, Seen
<1>6. FateOf(d, x)
  BY <1>1, <1>2, <1>4, <1>5, FateOfWrite
<1>. QED
  BY <1>1, <1>3, <1>6

LEMMA ApplyFate ==
    ASSUME BasicInv, FateInv, NEW p \in Observers, ReconcileApplies(p), NEW d \in Grabs, observer[p].of = d
    PROVE  FateInv'
<1>. DEFINE r == download[d]
            Bound(st) == BindHandle(d, r, st)
            Controlled(st) == UNION {AcceptDownloadControl(b, st) : b \in Bound(st)}
            Results(st) == UNION {Applied(c.row, c.st) : c \in Controlled(st)}
<1>1. /\ UNCHANGED <<capability, call, job, instance, wire>> /\ Ends(p) /\ observer[p].pc = "bind"
  BY DEF ReconcileApplies, clientVars
<1>2. /\ r \in Rows /\ FateOf(d, r) /\ call[d].pc = "none" /\ r.kind # "none"
      /\ observer \in [Observers -> Watches]
  <2>1. observer \in [Observers -> Watches] /\ r.kind # "none"
    BY <1>1 DEF BasicInv, SubmissionTypeOK, RowsExist
  <2>2. call[d].pc = "none"
    BY <1>1 DEF FateInv, LockedOnce
  <2>. QED
    BY <2>1, <2>2, RowTypes DEF BasicInv, FateInv, Fates
<1>3. PICK st \in observer[p].st :
        \/ /\ Results(st) = {} \/ r = DeletedRow
           /\ download' = [download EXCEPT ![d] = IF Bound(st) = {} \/ @ = DeletedRow THEN @
                                                  ELSE CHOOSE b \in Bound(st) : TRUE]
        \/ \E x \in Results(st) : r # DeletedRow /\ download' = [download EXCEPT ![d] = x.row]
  BY DEF ReconcileApplies
<1>4. /\ st \in Statuses /\ (Exact => Seen(d, st))
      /\ Idempotent /\ st.state \in {"failed", "removed"} /\ r.kind = "auto" => Settled(d)
  <2>1. st \in Statuses
    BY <1>2 DEF Watches
  <2>2. Observed(p)
    BY DEF FateInv, ObservedOwn
  <2>. QED
    BY <1>1, <2>1, <2>2 DEF Observed
<1>5. /\ \A q \in Observers : observer'[q] = observer[q] \/ observer'[q].pc = "idle"
      /\ LockedOnce' /\ CallFits(d)' /\ \A k \in Grabs \ {d} : call'[k] = call[k]
  <2>1. \A q \in Observers : observer'[q] = observer[q] \/ observer'[q].pc = "idle"
    BY <1>1, <1>2, NoGrabTypes DEF Ends
  <2>2. LockedOnce'
    <3>1. \A q \in Observers : observer'[q].pc = "bind" => observer'[q] = observer[q] /\ observer[q].of \in Grabs
      BY <2>1 DEF BasicInv, SubmissionTypeOK
    <3>. QED
      BY <1>1, <3>1 DEF FateInv, LockedOnce
  <2>. QED
    BY <1>1, <1>2, <2>1, <2>2, UncalledFits
<1>6. CASE download' = [download EXCEPT ![d] = r]
  <2>1. UNCHANGED download
    BY <1>6 DEF BasicInv, SubmissionTypeOK
  <2>. QED
    BY <1>1, <1>5, <2>1, StillClient, WorldStep
<1>7. ASSUME NEW x \in Rows, Applies(d, r, st, x), r.kind \in {"auto", "manual"}, download' = [download EXCEPT ![d] = x]
      PROVE  FateInv'
  <2>1. /\ FateOf(d, x) /\ (AutoActive(x) => AutoActive(r))
        /\ x.kind = r.kind /\ (r.handle # 0 => x.handle # 0)
    BY <1>2, <1>4, <1>7, AppliesFate
  <2>. QED
    BY <1>1, <1>5, <1>7, <2>1, StillClient, RowStep
<1>8. r # DeletedRow => r.kind \in {"auto", "manual"}
  BY <1>2 DEF FateOf, Rows
<1>9. ASSUME r # DeletedRow, NEW x \in Results(st), download' = [download EXCEPT ![d] = x.row]
      PROVE  FateInv'
  <2>1. PICK c \in Controlled(st) : x \in Applied(c.row, c.st)
    BY <1>9
  <2>2. PICK b \in Bound(st) : c \in AcceptDownloadControl(b, st)
    BY <2>1
  <2>3. Applies(d, r, st, x.row) /\ x.row \in Rows
    BY <1>2, <1>4, <1>8, <1>9, <2>1, <2>2, AppliesFollow
  <2>. QED
    BY <1>7, <1>8, <1>9, <2>3
<1>10. ASSUME r # DeletedRow, NEW b \in Bound(st), download' = [download EXCEPT ![d] = b]
       PROVE  FateInv'
  <2>1. BindsOwn(d, r, b) /\ b.state = r.state
    BY <1>2, <1>4, <1>8, <1>10, BindFollows
  <2>2. b \in Rows
    BY <1>2, <1>4, <1>10, BindWrites DEF SameRequest
  <2>3. Applies(d, r, st, b)
    BY <2>1 DEF Applies
  <2>. QED
    BY <1>7, <1>8, <1>10, <2>2, <2>3
<1>. HIDE DEF Results, Bound
<1>. QED
  BY <1>3, <1>6, <1>9, <1>10

-----------------------------------------------------------------------------
(* One download per want, and outcomes of a row's own job. *)

LEMMA FateStep ==
    ASSUME BasicInv, JobInv, FateInv, [SubNext]_subVars
    PROVE  FateInv'
<1>1. ASSUME NEW d \in Grabs, NEW t \in Titles, GrabChecks(d, t)
      PROVE  FateInv'
  <2>1. UNCHANGED <<capability, download, call, observer, job, instance, wire>>
    BY <1>1 DEF GrabChecks, clientVars
  <2>. QED
    BY <2>1, StillClient, WorldStep
<1>2. ASSUME NEW d \in Grabs, NEW t \in Titles, InsertManualAdditionalDownload(d, t)
      PROVE  FateInv'
  BY <1>2, ManualFate
<1>3. ASSUME NEW d \in Grabs, Allocate(d)
      PROVE  FateInv'
  BY <1>3, InsertFate
<1>4. ASSUME NEW d \in Grabs, DeleteDownload(d)
      PROVE  FateInv'
  BY <1>4, DeleteFate
<1>5. ASSUME NEW d \in Grabs, Submit(d)
      PROVE  FateInv'
  BY <1>5, SubmitFate
<1>6. ASSUME NEW d \in Grabs, AddAnswered(d)
      PROVE  FateInv'
  BY <1>6, AnswerFate
<1>7. ASSUME NEW d \in Grabs, AddArrivesLate(d)
      PROVE  FateInv'
  BY <1>7, LateFate
<1>8. ASSUME NEW d \in Grabs, AddReturns(d)
      PROVE  FateInv'
  BY <1>8, ReturnFate
<1>9. ASSUME NEW d \in Grabs, ProcessRunnerSubmissionRetries(d)
      PROVE  FateInv'
  BY <1>9, RetryFate
<1>10. ASSUME NEW d \in Grabs, ResumeManualRequest(d)
       PROVE  FateInv'
  BY <1>10, ResumeFate
<1>11. ASSUME NEW d \in Grabs,
              PollSees(d) \/ FlushPendingProgress(d) \/ \E h \in Handles : HandleEvent(d, h)
       PROVE  FateInv'
  BY <1>11, WatchFate
<1>12. ASSUME NEW p \in Observers, ReconcileDownload(p)
       PROVE  FateInv'
  <2>1. observer[p].of \in Grabs
    BY <1>12 DEF ReconcileDownload, BasicInv, SubmissionTypeOK
  <2>. QED
    BY <1>12, <2>1, ReconcileFate
<1>13. ASSUME NEW p \in Observers, ReconcileApplies(p)
       PROVE  FateInv'
  <2>1. observer[p].of \in Grabs
    BY <1>13 DEF ReconcileApplies, BasicInv, SubmissionTypeOK
  <2>. QED
    BY <1>13, <2>1, ApplyFate
<1>14. ASSUME NEW d \in Grabs, RemoveDownload(d)
       PROVE  FateInv'
  BY <1>14, RemoveFate
<1>15. ASSUME NEW d \in Grabs, ImportSettles(d)
       PROVE  FateInv'
  BY <1>15, ImportFate
<1>16. CASE \/ \E h \in Handles : JobEnds(h) \/ JobCleaned(h) \/ JobControl(h) \/ JobShown(h)
            \/ ClientFault
  BY <1>16, ClientFate
<1>17. CASE SubmissionCrash
  BY <1>17, CrashFate
<1>18. CASE UNCHANGED subVars
  <2>1. UNCHANGED <<capability, download, call, observer, job, instance, wire>>
    BY <1>18 DEF subVars
  <2>. QED
    BY <2>1, StillClient, WorldStep
<1>. QED
  BY <1>1, <1>2, <1>3, <1>4, <1>5, <1>6, <1>7, <1>8, <1>9, <1>10, <1>11, <1>12, <1>13, <1>14, <1>15, <1>16, <1>17, <1>18 DEF SubNext

LEMMA FateInit == SubInit => FateInv
<1>. SUFFICES ASSUME SubInit
              PROVE  FateInv
  OBVIOUS
<1>1. /\ \A h \in Handles : job[h].token = 0 /\ job[h].custody = "none"
      /\ wire = {}
  <2>1. \A h \in Handles : job[h] = NoClientJob \/ \E t \in Titles : job[h] = ForeignJob(t)
    BY DEF SubInit
  <2>2. NoClientJob.token = 0 /\ NoClientJob.custody = "none"
    BY DEF NoClientJob
  <2>3. \A t \in Titles : ForeignJob(t).token = 0 /\ ForeignJob(t).custody = "none"
    BY DEF ForeignJob, NoClientJob
  <2>. QED
    BY <2>1, <2>2, <2>3 DEF SubInit
<1>2. \A d \in Grabs : download[d] = NoGrab \/ download[d] = DeletedRow
  BY DEF SubInit
<1>3. /\ \A d \in Grabs : call[d].pc = "none"
      /\ \A p \in Observers : observer[p].pc = "idle"
  BY NoGrabTypes DEF SubInit
<1>4. /\ NoGrab.kind = "none" /\ DeletedRow.kind = "deleted"
      /\ NoGrab.state = "none" /\ DeletedRow.state = "none" /\ NoGrab.handle = 0 /\ DeletedRow.handle = 0
  BY NoGrabTypes DEF NoGrab, DeletedRow
<1>5. \A d \in Grabs : FateOf(d, NoGrab) /\ FateOf(d, DeletedRow)
  <2>. TAKE d \in Grabs
  <2>1. NoJob(d) /\ d \notin wire
    BY <1>1, SubmissionAssumption DEF NoJob
  <2>. QED
    BY <1>4, <2>1 DEF FateOf, AutoShape, Unasked, HasEnded, Outcome
<1>6. Fates
  BY <1>2, <1>5 DEF Fates
<1>7. CallsFit /\ ObservedOwn /\ LockedOnce
  BY <1>3 DEF CallsFit, CallFits, ObservedOwn, Observed, LockedOnce
<1>8. CustodyOfFailed
  BY <1>1 DEF CustodyOfFailed
<1>9. OneDownloadPerWant
  BY <1>2, <1>4 DEF OneDownloadPerWant, ListActiveDownloads, ActiveGrab
<1>. QED
  BY <1>6, <1>7, <1>8, <1>9 DEF FateInv

LEMMA FateInvariance == SubSpec => []FateInv
<1>1. SubSpec => SubInit /\ [][SubNext]_subVars
  BY DEF SubSpec
<1>2. (BasicInv /\ JobInv) /\ FateInv /\ [SubNext]_subVars => FateInv'
  BY FateStep
<1>. QED
  BY <1>1, <1>2, FateInit, Invariance, PTL

\* Two searches that want the same thing never both download it: no late
\* receipt, observation or answer makes a row that has ended active again next
\* to the row that took its place (grab, reconcileDownload, retryAutomaticSubmission).
THEOREM OneDownload == SubSpec => []OneDownloadPerWant
<1>1. FateInv => OneDownloadPerWant
  BY DEF FateInv
<1>. QED
  BY <1>1, FateInvariance, PTL

\* With exact correlation a row that failed or was downloaded did so because a
\* job made for its own token has ended, in whichever order receipts, events,
\* polls, restarts and reinstallations of the client come (matchStatus,
\* authoritativeRunnerObservation, bindRunnerAdmission).
THEOREM OutcomesAreOwn == SubSpec => []OutcomeIsItsOwn
<1>1. FateInv => OutcomeIsItsOwn
  <2>. SUFFICES ASSUME FateInv, Exact, NEW d \in Grabs, Outcome(download[d])
                PROVE  \E h \in Handles : job[h].token = d /\ job[h].state # "running"
    BY DEF OutcomeIsItsOwn, Outcome
  <2>. QED
    BY DEF FateInv, Fates, FateOf, OwnEnded
<1>. QED
  BY <1>1, FateInvariance, PTL

(***************************************************************************)
(* Season plans, for any season and any number of rows, plans and bounded   *)
(* events.  What may be sent has not been (NotSentYet), so an intent that   *)
(* is closed loses no custody.  Every action but four only takes from rows  *)
(* (Calm).  Admission and grabs give episodes to new rows, which no other   *)
(* row has reserved; an import widens its row to what nobody else may       *)
(* deliver, which stays so while it holds the title (ImportInCustody).      *)
(***************************************************************************)

PlanPhases == {"", "pending", "submitting", "uncertain", "submitted", "rejected"}
Intents ==
    [st : Moving \cup {"none", "imported", "failed"}, ph : PlanPhases, plan : PlanIds \cup {0}, pack : BOOLEAN,
     allow : SUBSET PlanEps, res : SUBSET PlanEps, sup : BOOLEAN, park : {"", "settled", "uncertain", "operator"}]
Dispatches ==
    [pc : {"idle", "next", "claim", "recheck", "send", "record"}, by : {"", "worker", "coordinator"}, plan : PlanIds \cup {0},
     rows : SUBSET PlanRows, row : PlanRows \cup {0}, out : {"", "accepted", "handleless", "refused", "error"}]
Readings ==
    [pc : {"idle", "dispatch", "settle"}, plan : PlanIds \cup {0}, terminal : BOOLEAN, parked : BOOLEAN, cancel : BOOLEAN]
PlanImports == [row : PlanRows \cup {0}, allowed : SUBSET PlanEps, pc : {"idle", "reserve", "publish"}]
PlanStates == OpenPlan \cup {"none", "completed", "settled_with_reservations", "cancelled", "needs_replan"}

PlanTyped ==
    /\ plans \in [PlanIds -> PlanStates]
    /\ prow \in [PlanRows -> Intents]
    /\ atClient \subseteq PlanRows /\ listed \subseteq atClient /\ waived \subseteq PlanRows
    /\ disp \in Dispatches
    /\ coord \in Readings
    /\ imp \in PlanImports
    /\ onDisk \subseteq PlanEps /\ planSearch \in BOOLEAN

\* Nothing was sent for a row that does not exist, nor for a pending intent.
NotSentYet ==
    \A r \in PlanRows :
        /\ prow[r].st = "none" => prow[r].ph = "" /\ r \notin atClient
        /\ prow[r].ph = "pending" => r \notin atClient

\* A row that may deliver holds what it was allowed.
ReservesAllowed == \A r \in PlanRows : MayDeliver(r) => prow[r].allow \subseteq prow[r].res

\* The row that dispatch has claimed is a submission in custody: nobody else
\* moves it while its lock is held.
ClaimedInCustody ==
    /\ disp.pc = "claim" => disp.row # 0
    /\ disp.pc \in {"recheck", "send", "record"} =>
         /\ disp.row # 0
         /\ prow[disp.row].ph = "submitting" /\ prow[disp.row].st = "grabbed" /\ ~prow[disp.row].sup

\* What an import is about to reserve, no other row may deliver.
ImportInCustody ==
    /\ imp.pc # "idle" => imp.row # 0
    /\ imp.row # 0 =>
         /\ prow[imp.row].st = "importing" /\ prow[imp.row].ph = "submitted" /\ ~prow[imp.row].sup
         /\ prow[imp.row].allow \subseteq imp.allowed
    /\ imp.pc = "reserve" => \A q \in PlanRows \ {imp.row} : MayDeliver(q) => prow[q].res \cap imp.allowed = {}

PlanSafe ==
    /\ NotSentYet /\ ReservesAllowed /\ ClaimedInCustody /\ ImportInCustody
    /\ OneProviderPerEpisode /\ SentKeepsCustody
PlanInv == PlanTyped /\ PlanSafe

-----------------------------------------------------------------------------
(* The writes of a row that gain it nothing: it does not move again, comes   *)
(* to no episode, and loses its custody only as an intent that was not sent  *)
(* or with the risk accepted.                                                *)

Gains(x, y, accepted) ==
    \/ y.st = "none" /\ y # x
    \/ y.allow # x.allow
    \/ y.st \in Moving /\ x.st \notin Moving
    \/ y.ph = "pending" /\ x.ph # "pending"
    \/ ~y.sup /\ (x.sup \/ y.res # x.res)
    \/ y.sup /\ ~x.sup /\ x.ph # "pending" /\ ~accepted

Calm(x, y, accepted) == y \in Intents /\ ~Gains(x, y, accepted)

Same(x, y) == y.st = x.st /\ y.ph = x.ph /\ y.sup = x.sup /\ y.allow = x.allow

-----------------------------------------------------------------------------
(* Rows that gain nothing keep every part of the invariant.                  *)

CalmStep == \A r \in PlanRows : Calm(prow[r], prow'[r], r \in waived')

LEMMA CalmRows ==
    ASSUME PlanInv, CalmStep, atClient' = atClient, waived \subseteq waived'
    PROVE  /\ NotSentYet' /\ ReservesAllowed' /\ OneProviderPerEpisode' /\ SentKeepsCustody'
           /\ \A r \in PlanRows : MayDeliver(r)' => MayDeliver(r) /\ prow'[r].res = prow[r].res
<1>. USE DEF PlanInv, PlanSafe, CalmStep, Calm, Gains
<1>1. \A r \in PlanRows : MayDeliver(r)' => MayDeliver(r) /\ prow'[r].res = prow[r].res
  BY DEF MayDeliver
<1>2. NotSentYet'
  BY DEF NotSentYet
<1>3. ReservesAllowed'
  BY <1>1 DEF ReservesAllowed
<1>4. OneProviderPerEpisode'
  BY <1>1 DEF OneProviderPerEpisode
<1>5. SentKeepsCustody'
  BY DEF SentKeepsCustody, NotSentYet, PlanTyped
<1>. QED
  BY <1>1, <1>2, <1>3, <1>4, <1>5

LEMMA CalmKeeps ==
    ASSUME PlanInv, CalmStep, atClient' = atClient, waived \subseteq waived',
           \/ disp'.pc \in {"idle", "next"}
           \/ /\ disp' = disp
              /\ disp.pc \in {"recheck", "send", "record"} => Same(prow[disp.row], prow'[disp.row]),
           \/ imp' = NoPlanImport
           \/ /\ imp' = imp
              /\ imp.row \in PlanRows => Same(prow[imp.row], prow'[imp.row])
    PROVE  PlanSafe'
<1>1. /\ NotSentYet' /\ ReservesAllowed' /\ OneProviderPerEpisode' /\ SentKeepsCustody'
      /\ \A r \in PlanRows : MayDeliver(r)' => MayDeliver(r) /\ prow'[r].res = prow[r].res
  BY CalmRows
<1>2. ClaimedInCustody /\ ImportInCustody /\ disp \in Dispatches /\ imp \in PlanImports
  BY DEF PlanInv, PlanSafe, PlanTyped
<1>3. disp.row # 0 => disp.row \in PlanRows
  BY <1>2 DEF Dispatches
<1>4. imp.row # 0 => imp.row \in PlanRows
  BY <1>2 DEF PlanImports
<1>5. ClaimedInCustody'
  BY <1>2, <1>3 DEF ClaimedInCustody, Same
<1>6. ImportInCustody'
  <2>1. CASE imp' = NoPlanImport
    BY <2>1 DEF ImportInCustody, NoPlanImport
  <2>2. CASE imp' = imp /\ (imp.row \in PlanRows => Same(prow[imp.row], prow'[imp.row]))
    BY <1>1, <1>2, <1>4, <2>2 DEF ImportInCustody, Same
  <2>. QED
    BY <2>1, <2>2
<1>. QED
  BY <1>1, <1>5, <1>6 DEF PlanSafe

-----------------------------------------------------------------------------
(* What the actions share.                                                   *)

LEMMA CalmSame == ASSUME NEW x \in Intents, NEW accepted PROVE Calm(x, x, accepted) /\ Same(x, x)
BY DEF Calm, Gains, Same

LEMMA RowsRest ==
    ASSUME PlanInv, prow' = prow
    PROVE  prow' \in [PlanRows -> Intents] /\ CalmStep /\ \A r \in PlanRows : Same(prow[r], prow'[r])
BY CalmSame DEF PlanInv, PlanTyped, CalmStep

LEMMA OneRow ==
    ASSUME PlanInv, NEW r \in PlanRows, NEW y, prow' = [prow EXCEPT ![r] = y], Calm(prow[r], y, r \in waived')
    PROVE  /\ prow' \in [PlanRows -> Intents] /\ CalmStep
           /\ prow'[r] = y /\ \A q \in PlanRows \ {r} : Same(prow[q], prow'[q])
<1>1. prow \in [PlanRows -> Intents] /\ y \in Intents
  BY DEF PlanInv, PlanTyped, Calm
<1>2. prow' \in [PlanRows -> Intents] /\ prow'[r] = y /\ \A q \in PlanRows \ {r} : prow'[q] = prow[q]
  BY <1>1
<1>3. \A q \in PlanRows \ {r} : Calm(prow[q], prow'[q], q \in waived') /\ Same(prow[q], prow'[q])
  BY <1>1, <1>2, CalmSame
<1>. QED
  BY <1>2, <1>3 DEF CalmStep

LEMMA ManyRows ==
    ASSUME PlanInv, NEW F(_), prow' = [r \in PlanRows |-> F(r)],
           \A r \in PlanRows : Calm(prow[r], F(r), r \in waived')
    PROVE  prow' \in [PlanRows -> Intents] /\ CalmStep
BY DEF Calm, CalmStep

LEMMA SkipTyped ==
    ASSUME disp \in Dispatches, NEW r
    PROVE  SkipRow(r) \in Dispatches /\ SkipRow(r).pc = "next"
<1>. DEFINE next == "next"
            rest == disp.rows \ {r}
<1>1. next \in {"idle", "next", "claim", "recheck", "send", "record"} /\ rest \in SUBSET PlanRows
  BY DEF Dispatches
<1>. HIDE DEF next, rest
<1>2. [disp EXCEPT !.pc = next, !.row = 0, !.rows = rest] \in Dispatches
  BY <1>1 DEF Dispatches
<1>3. [disp EXCEPT !.pc = next, !.row = 0, !.rows = rest].pc = next
  BY DEF Dispatches
<1>. QED
  BY <1>2, <1>3 DEF SkipRow, next, rest

LEMMA DispatchMoves ==
    ASSUME NEW d \in Dispatches, NEW pc \in {"idle", "next", "claim", "recheck", "send", "record"}
    PROVE  [d EXCEPT !.pc = pc] \in Dispatches /\ [d EXCEPT !.pc = pc].pc = pc /\ [d EXCEPT !.pc = pc].row = d.row
BY DEF Dispatches

LEMMA PlanRest ==
    /\ NoDispatch \in Dispatches /\ NoDispatch.pc = "idle"
    /\ NoCoord \in Readings /\ NoPlanImport \in PlanImports
    /\ NoPlanRow \in Intents
BY DEF NoDispatch, Dispatches, NoCoord, Readings, NoPlanImport, PlanImports, NoPlanRow, Intents, PlanPhases

LEMMA PlanMoves ==
    ASSUME plans \in [PlanIds -> PlanStates], NEW p, NEW state \in PlanStates
    PROVE  [plans EXCEPT ![p] = state] \in [PlanIds -> PlanStates]
OBVIOUS

LEMMA PlanCancelled ==
    ASSUME plans \in [PlanIds -> PlanStates], NEW r, CancelPlanOf(r)
    PROVE  plans' \in [PlanIds -> PlanStates]
BY DEF CancelPlanOf, PlanStates, OpenPlan

LEMMA ParkCalm ==
    ASSUME NEW x \in Intents, x.st # "none", NEW accepted, NEW park \in {"", "settled", "uncertain", "operator"}
    PROVE  Calm(x, [x EXCEPT !.park = park], accepted) /\ Same(x, [x EXCEPT !.park = park])
<1>. DEFINE y == [x EXCEPT !.park = park]
<1>1. y \in Intents
  BY DEF Intents
<1>2. y.st = x.st /\ y.ph = x.ph /\ y.sup = x.sup /\ y.allow = x.allow /\ y.res = x.res
  BY DEF Intents
<1>. HIDE DEF y
<1>3. Calm(x, y, accepted) /\ Same(x, y)
  BY <1>1, <1>2 DEF Calm, Gains, Same, Moving, PlanPhases
<1>. QED
  BY <1>3 DEF y

LEMMA PhaseCalm ==
    ASSUME NEW x \in Intents, x.st # "none", NEW accepted, NEW ph \in PlanPhases \ {"pending"}
    PROVE  Calm(x, [x EXCEPT !.ph = ph], accepted)
<1>. DEFINE y == [x EXCEPT !.ph = ph]
<1>1. y \in Intents
  BY DEF Intents
<1>2. y.st = x.st /\ y.ph = ph /\ y.sup = x.sup /\ y.allow = x.allow /\ y.res = x.res
  BY DEF Intents
<1>. HIDE DEF y
<1>3. Calm(x, y, accepted)
  BY <1>1, <1>2 DEF Calm, Gains, Same, Moving, PlanPhases
<1>. QED
  BY <1>3 DEF y

LEMMA StateCalm ==
    ASSUME NEW x \in Intents, x.st # "none", NEW accepted, NEW st \in Moving \cup {"imported", "failed"}, st \in Moving => x.st \in Moving
    PROVE  Calm(x, [x EXCEPT !.st = st], accepted)
<1>. DEFINE y == [x EXCEPT !.st = st]
<1>1. y \in Intents
  BY DEF Intents
<1>2. y.st = st /\ y.ph = x.ph /\ y.sup = x.sup /\ y.allow = x.allow /\ y.res = x.res
  BY DEF Intents
<1>. HIDE DEF y
<1>3. Calm(x, y, accepted)
  BY <1>1, <1>2 DEF Calm, Gains, Same, Moving, PlanPhases
<1>. QED
  BY <1>3 DEF y

LEMMA EndCalm ==
    ASSUME NEW x \in Intents, x.st # "none", NEW accepted, NEW st \in {"imported", "failed"}, NEW park \in {"", "settled", "uncertain", "operator"}
    PROVE  Calm(x, [x EXCEPT !.st = st, !.park = park], accepted)
<1>. DEFINE y == [x EXCEPT !.st = st, !.park = park]
<1>1. y \in Intents
  BY DEF Intents
<1>2. y.st = st /\ y.ph = x.ph /\ y.sup = x.sup /\ y.allow = x.allow /\ y.res = x.res
  BY DEF Intents
<1>. HIDE DEF y
<1>3. Calm(x, y, accepted)
  BY <1>1, <1>2 DEF Calm, Gains, Same, Moving, PlanPhases
<1>. QED
  BY <1>3 DEF y

LEMMA StatePhaseCalm ==
    ASSUME NEW x \in Intents, x.st # "none", NEW accepted, NEW st \in Moving \cup {"imported", "failed"}, st \in Moving => x.st \in Moving,
           NEW ph \in PlanPhases \ {"pending"}
    PROVE  Calm(x, [x EXCEPT !.st = st, !.ph = ph], accepted)
<1>. DEFINE y == [x EXCEPT !.st = st, !.ph = ph]
<1>1. y \in Intents
  BY DEF Intents
<1>2. y.st = st /\ y.ph = ph /\ y.sup = x.sup /\ y.allow = x.allow /\ y.res = x.res
  BY DEF Intents
<1>. HIDE DEF y
<1>3. Calm(x, y, accepted)
  BY <1>1, <1>2 DEF Calm, Gains, Same, Moving, PlanPhases
<1>. QED
  BY <1>3 DEF y

LEMMA ReleaseCalm ==
    ASSUME NEW x \in Intents, x.st # "none", NEW accepted, NEW sup \in BOOLEAN, sup, accepted,
           NEW park \in {"", "settled", "uncertain", "operator"}, NEW res \in SUBSET PlanEps
    PROVE  Calm(x, [x EXCEPT !.sup = sup, !.park = park, !.res = res], accepted)
<1>. DEFINE y == [x EXCEPT !.sup = sup, !.park = park, !.res = res]
<1>1. y \in Intents
  BY DEF Intents
<1>2. y.st = x.st /\ y.ph = x.ph /\ (y.sup <=> sup) /\ y.allow = x.allow /\ y.res = res
  BY DEF Intents
<1>. HIDE DEF y
<1>3. Calm(x, y, accepted)
  BY <1>1, <1>2 DEF Calm, Gains, Same, Moving, PlanPhases
<1>. QED
  BY <1>3 DEF y

LEMMA CloseCalm ==
    ASSUME NEW x \in Intents, x.st # "none", NEW accepted, NEW st \in {"imported", "failed"}, NEW ph \in PlanPhases \ {"pending"}, x.ph = "pending",
           NEW sup \in BOOLEAN, sup, NEW res \in SUBSET PlanEps
    PROVE  Calm(x, [x EXCEPT !.st = st, !.ph = ph, !.sup = sup, !.res = res], accepted)
<1>. DEFINE y == [x EXCEPT !.st = st, !.ph = ph, !.sup = sup, !.res = res]
<1>1. y \in Intents
  BY DEF Intents
<1>2. y.st = st /\ y.ph = ph /\ (y.sup <=> sup) /\ y.allow = x.allow /\ y.res = res
  BY DEF Intents
<1>. HIDE DEF y
<1>3. Calm(x, y, accepted)
  BY <1>1, <1>2 DEF Calm, Gains, Same, Moving, PlanPhases
<1>. QED
  BY <1>3 DEF y

LEMMA ClosedCalm == ASSUME NEW x \in Intents, x.ph = "pending", x.st # "none", NEW accepted PROVE Calm(x, Closed(x), accepted)
BY CloseCalm DEF Closed, PlanPhases

LEMMA ParkedCalm ==
    ASSUME NEW x \in Intents, x.st # "none", NEW accepted, NEW why \in {"settled", "uncertain"}
    PROVE  Calm(x, Parked(x, why), accepted) /\ Same(x, Parked(x, why))
<1>. DEFINE park == IF x.park = "" THEN why ELSE x.park
<1>1. park \in {"", "settled", "uncertain", "operator"}
  BY DEF Intents
<1>2. Parked(x, why) = [x EXCEPT !.park = park]
  BY DEF Parked
<1>. HIDE DEF park
<1>. QED
  BY <1>1, <1>2, ParkCalm

LEMMA EndedCalm ==
    ASSUME NEW x \in Intents, x.st # "none", NEW accepted, NEW st \in {"imported", "failed"}
    PROVE  Calm(x, Ended(x, st), accepted)
<1>. DEFINE park == IF x.park # "operator" /\ x.ph \notin {"submitting", "uncertain"} THEN "" ELSE x.park
<1>1. park \in {"", "settled", "uncertain", "operator"}
  BY DEF Intents
<1>2. Ended(x, st) = [x EXCEPT !.st = st, !.park = park]
  BY DEF Ended
<1>. HIDE DEF park
<1>3. Calm(x, [x EXCEPT !.st = st, !.park = park], accepted)
  BY <1>1, EndCalm
<1>. QED
  BY <1>2, <1>3

\* A settlement, of any plan.
LEMMA SettlementCalm ==
    ASSUME PlanInv, NEW p, NEW state \in PlanStates, SettleSeasonPlan(p, state), UNCHANGED waived
    PROVE  /\ prow' \in [PlanRows -> Intents] /\ CalmStep
           /\ \A r \in PlanRows : prow[r].ph # "pending" => Same(prow[r], prow'[r])
           /\ plans' \in [PlanIds -> PlanStates] /\ planSearch' \in BOOLEAN
<1>1. prow \in [PlanRows -> Intents] /\ plans \in [PlanIds -> PlanStates] /\ planSearch \in BOOLEAN
  BY DEF PlanInv, PlanTyped
<1>2. ASSUME NEW r \in PlanRows
      PROVE  /\ prow'[r] \in {prow[r], SettledRow(r)}
             /\ prow'[r] # prow[r] => prow[r].st # "none"
  BY <1>2 DEF SettleSeasonPlan, PlanDownloads, UnusedRow
<1>3. ASSUME NEW r \in PlanRows, prow[r].st # "none"
      PROVE  /\ Calm(prow[r], SettledRow(r), r \in waived')
             /\ prow[r].ph # "pending" => Same(prow[r], SettledRow(r))
  <2>1. prow[r] \in Intents
    BY <1>1
  <2>2. CASE prow[r].ph = "pending"
    BY <1>3, <2>1, <2>2, ClosedCalm DEF SettledRow
  <2>3. CASE prow[r].ph # "pending" /\ prow[r].st \notin {"imported", "failed"} /\ ~prow[r].sup
    BY <1>3, <2>1, <2>3, ParkedCalm DEF SettledRow
  <2>4. CASE prow[r].ph # "pending" /\ ~(prow[r].st \notin {"imported", "failed"} /\ ~prow[r].sup)
    BY <2>1, <2>4, CalmSame DEF SettledRow
  <2>. QED
    BY <2>2, <2>3, <2>4
<1>4. CalmStep /\ \A r \in PlanRows : prow[r].ph # "pending" => Same(prow[r], prow'[r])
  BY <1>1, <1>2, <1>3, CalmSame DEF CalmStep
<1>5. prow' \in [PlanRows -> Intents]
  BY <1>4 DEF SettleSeasonPlan, CalmStep, Calm
<1>6. plans' \in [PlanIds -> PlanStates] /\ planSearch' \in BOOLEAN
  BY <1>1 DEF SettleSeasonPlan
<1>. QED
  BY <1>4, <1>5, <1>6

\* A step in which no row gains anything, nothing is sent and the library
\* stays: what is left to show is that the lock holders' rows are theirs.
LEMMA CalmAction ==
    ASSUME PlanInv, CalmStep, prow' \in [PlanRows -> Intents],
           plans' \in [PlanIds -> PlanStates], planSearch' \in BOOLEAN, UNCHANGED <<atClient, onDisk>>,
           listed' \subseteq listed, waived \subseteq waived', waived' \subseteq PlanRows,
           coord' \in Readings,
           \/ disp' \in Dispatches /\ disp'.pc \in {"idle", "next"}
           \/ /\ disp' = disp
              /\ disp.pc \in {"recheck", "send", "record"} => Same(prow[disp.row], prow'[disp.row]),
           \/ imp' = NoPlanImport
           \/ /\ imp' = imp
              /\ imp.row \in PlanRows => Same(prow[imp.row], prow'[imp.row])
    PROVE  PlanInv'
<1>1. PlanSafe'
  BY CalmKeeps
<1>2. PlanTyped'
  BY PlanRest DEF PlanInv, PlanTyped
<1>. QED
  BY <1>1, <1>2 DEF PlanInv

\* Dispatch: taking the lock, refusing the plan, giving up, the end.
LEMMA DispatchAdmittedKeeps ==
    ASSUME PlanInv, UNCHANGED <<prow, atClient, listed, imp, onDisk, planSearch, waived>>,
           NEW p \in PlanIds \cup {0}, NEW by \in {"worker", "coordinator"},
           DispatchPlan(p, by), coord' \in Readings
    PROVE  PlanInv'
<1>1. plans \in [PlanIds -> PlanStates] /\ planSearch \in BOOLEAN /\ listed \subseteq PlanRows /\ waived \subseteq PlanRows
  BY DEF PlanInv, PlanTyped
<1>2. plans' \in [PlanIds -> PlanStates]
  BY <1>1 DEF DispatchPlan, PlanStates, OpenPlan, LivePlan
<1>. DEFINE next == "next"
            intents == {r \in PlanDownloads(p) : prow[r].ph = "pending" /\ prow[r].st = "planned"}
<1>3. next = "next" /\ intents \in SUBSET PlanRows /\ disp' = [NoDispatch EXCEPT !.pc = next, !.by = by, !.plan = p, !.rows = intents]
  BY DEF DispatchPlan, PlanDownloads
<1>. HIDE DEF next, intents
<1>4. disp' \in Dispatches /\ disp'.pc = "next"
  BY <1>3, PlanRest DEF Dispatches
<1>. QED
  BY <1>1, <1>2, <1>4, RowsRest, CalmAction

LEMMA DispatchRefusedKeeps == ASSUME PlanInv, DispatchRefused PROVE PlanInv'
<1>1. /\ planSearch' \in BOOLEAN /\ CalmStep /\ prow' \in [PlanRows -> Intents] /\ plans' \in [PlanIds -> PlanStates]
      /\ \A r \in PlanRows : prow[r].ph # "pending" => Same(prow[r], prow'[r])
  BY SettlementCalm DEF DispatchRefused, PlanStates
<1>2. listed \subseteq PlanRows /\ waived \subseteq PlanRows /\ coord \in Readings
  BY DEF PlanInv, PlanTyped
<1>3. imp.row \in PlanRows => Same(prow[imp.row], prow'[imp.row])
  BY <1>1, SeasonPlanAssumption DEF PlanInv, PlanSafe, ImportInCustody, SeasonPlanAssumption
<1>. QED
  BY <1>1, <1>2, <1>3, PlanRest, CalmAction DEF DispatchRefused, DispatchDone

LEMMA DispatchErrorKeeps == ASSUME PlanInv, DispatchError PROVE PlanInv'
BY RowsRest, PlanRest, CalmAction DEF DispatchError, DispatchDone, PlanInv, PlanTyped

LEMMA DispatchEndsKeeps == ASSUME PlanInv, DispatchEnds PROVE PlanInv'
<1>1. plans \in [PlanIds -> PlanStates]
  BY DEF PlanInv, PlanTyped
<1>2. plans' \in [PlanIds -> PlanStates]
  BY <1>1 DEF DispatchEnds, PlanStates, OpenPlan, LivePlan
<1>. QED
  BY <1>2, RowsRest, PlanRest, CalmAction DEF DispatchEnds, DispatchDone, PlanInv, PlanTyped

\* One row of the plan: it is read again under its lock, and refused or skipped.
LEMMA CheckPlannedRowKeeps == ASSUME PlanInv, NEW r \in PlanRows, CheckPlannedRow(r) PROVE PlanInv'
<1>1. disp \in Dispatches /\ prow[r] \in Intents /\ imp.row \notin PlanRows
  BY SeasonPlanAssumption DEF PlanInv, PlanTyped, CheckPlannedRow, TargetFree, SeasonPlanAssumption
<1>2. UNCHANGED <<plans, atClient, listed, coord, imp, onDisk, planSearch, waived>>
  BY DEF CheckPlannedRow
<1>3. CASE disp' = [disp EXCEPT !.pc = "claim", !.row = r] /\ UNCHANGED prow
  <2>. DEFINE claim == "claim"
  <2>1. claim \in {"idle", "next", "claim", "recheck", "send", "record"} /\ disp' = [disp EXCEPT !.pc = claim, !.row = r]
    BY <1>3
  <2>. HIDE DEF claim
  <2>2. disp' \in Dispatches /\ disp'.pc = claim /\ disp'.row = r
    BY <1>1, <2>1 DEF Dispatches
  <2>3. PlanTyped'
    BY <1>2, <1>3, <2>2 DEF PlanInv, PlanTyped
  <2>4. ClaimedInCustody'
    BY <2>2, SeasonPlanAssumption DEF claim, ClaimedInCustody, SeasonPlanAssumption
  <2>5. /\ NotSentYet' /\ ReservesAllowed' /\ OneProviderPerEpisode' /\ SentKeepsCustody' /\ ImportInCustody'
    BY <1>2, <1>3
    DEF PlanInv, PlanSafe, NotSentYet, ReservesAllowed, OneProviderPerEpisode, SentKeepsCustody, ImportInCustody, MayDeliver
  <2>. QED
    BY <2>3, <2>4, <2>5 DEF PlanInv, PlanSafe
<1>4. CASE Dispatchable(r) /\ prow' = [prow EXCEPT ![r].st = "failed", ![r].ph = "rejected"] /\ DispatchDone
  <2>1. Calm(prow[r], [prow[r] EXCEPT !.st = "failed", !.ph = "rejected"], r \in waived')
    BY <1>1, <1>4, StatePhaseCalm DEF Dispatchable, Moving, PlanPhases
  <2>2. prow' = [prow EXCEPT ![r] = [prow[r] EXCEPT !.st = "failed", !.ph = "rejected"]]
    BY <1>4 DEF PlanInv, PlanTyped
  <2>3. prow' \in [PlanRows -> Intents] /\ CalmStep
    BY <2>1, <2>2, OneRow
  <2>. QED
    BY <1>1, <1>2, <1>4, <2>3, PlanRest, CalmAction DEF DispatchDone, PlanInv, PlanTyped
<1>5. CASE disp' = SkipRow(r) /\ UNCHANGED prow
  BY <1>1, <1>2, <1>5, SkipTyped, RowsRest, CalmAction DEF PlanInv, PlanTyped
<1>. QED
  BY <1>3, <1>4, <1>5 DEF CheckPlannedRow

\* The claim is taken only of a row that is still pending.
LEMMA ClaimPlannedSubmissionKeeps == ASSUME PlanInv, ClaimPlannedSubmission PROVE PlanInv'
<1>. DEFINE r == disp.row
<1>1. disp \in Dispatches /\ disp.pc = "claim" /\ r \in PlanRows /\ prow \in [PlanRows -> Intents] /\ prow[r] \in Intents
  BY DEF PlanInv, PlanTyped, PlanSafe, ClaimPlannedSubmission, ClaimedInCustody, Dispatches
<1>2. UNCHANGED <<plans, atClient, listed, coord, imp, onDisk, planSearch, waived>>
  BY DEF ClaimPlannedSubmission
<1>3. CASE /\ Dispatchable(r)
           /\ prow' = [prow EXCEPT ![r].st = "grabbed", ![r].ph = "submitting"]
           /\ disp' = [disp EXCEPT !.pc = "recheck"]
  <2>. DEFINE y == [prow[r] EXCEPT !.st = "grabbed", !.ph = "submitting"]
              recheck == "recheck"
  <2>1. prow[r].st = "planned" /\ prow[r].ph = "pending" /\ ~prow[r].sup
    BY <1>3 DEF Dispatchable
  <2>2. Calm(prow[r], y, r \in waived') /\ y.st = "grabbed" /\ y.ph = "submitting" /\ y.sup = prow[r].sup
    <3>1. Calm(prow[r], y, r \in waived')
      BY <1>1, <2>1, StatePhaseCalm DEF Moving, PlanPhases
    <3>2. y.st = "grabbed" /\ y.ph = "submitting" /\ y.sup = prow[r].sup
      BY <1>1 DEF Intents
    <3>. QED
      BY <3>1, <3>2
  <2>3. prow' = [prow EXCEPT ![r] = y]
    BY <1>1, <1>3
  <2>. HIDE DEF y
  <2>4. prow' \in [PlanRows -> Intents] /\ CalmStep /\ prow'[r] = y /\ \A q \in PlanRows \ {r} : Same(prow[q], prow'[q])
    BY <1>1, <2>2, <2>3, OneRow
  <2>5. recheck \in {"idle", "next", "claim", "recheck", "send", "record"} /\ disp' = [disp EXCEPT !.pc = recheck]
    BY <1>3
  <2>. HIDE DEF recheck
  <2>6. disp' \in Dispatches /\ disp'.pc = recheck /\ disp'.row = r
    BY <1>1, <2>5, DispatchMoves
  <2>7. PlanTyped'
    BY <1>2, <2>4, <2>6 DEF PlanInv, PlanTyped
  <2>8. /\ NotSentYet' /\ ReservesAllowed' /\ OneProviderPerEpisode' /\ SentKeepsCustody'
        /\ \A q \in PlanRows : MayDeliver(q)' => MayDeliver(q) /\ prow'[q].res = prow[q].res
    BY <1>2, <2>4, CalmRows
  <2>9. ClaimedInCustody'
    BY <1>1, <2>1, <2>2, <2>4, <2>6, SeasonPlanAssumption DEF recheck, ClaimedInCustody, SeasonPlanAssumption
  <2>10. imp.row # r /\ (imp.row # 0 => imp.row \in PlanRows)
    BY <1>1, <2>1, SeasonPlanAssumption DEF PlanInv, PlanSafe, PlanTyped, PlanImports, ImportInCustody, SeasonPlanAssumption
  <2>11. ImportInCustody'
    BY <1>2, <2>4, <2>8, <2>10 DEF PlanInv, PlanSafe, ImportInCustody, Same
  <2>. QED
    BY <2>7, <2>8, <2>9, <2>11 DEF PlanInv, PlanSafe
<1>4. CASE prow' = prow /\ disp' = SkipRow(r)
  BY <1>1, <1>2, <1>4, SkipTyped, RowsRest, CalmAction DEF PlanInv, PlanTyped
<1>. QED
  BY <1>3, <1>4 DEF ClaimPlannedSubmission

\* Steps of dispatch that write no row.
LEMMA ClaimGoesOn ==
    ASSUME PlanInv, UNCHANGED <<plans, prow, coord, imp, onDisk, planSearch, waived>>,
           disp.pc \in {"recheck", "send"}, disp' \in Dispatches, disp'.row = disp.row,
           disp'.pc \in {"send", "record"},
           atClient \subseteq atClient', atClient' \subseteq atClient \cup {disp.row},
           listed' \subseteq listed \cup {disp.row}, listed' \subseteq atClient'
    PROVE  PlanInv'
<1>1. /\ disp.row \in PlanRows /\ prow[disp.row].ph = "submitting" /\ prow[disp.row].st = "grabbed" /\ ~prow[disp.row].sup
  BY DEF PlanInv, PlanTyped, PlanSafe, ClaimedInCustody, Dispatches
<1>2. PlanTyped'
  BY <1>1 DEF PlanInv, PlanTyped
<1>3. NotSentYet' /\ SentKeepsCustody'
  BY <1>1 DEF PlanInv, PlanSafe, NotSentYet, SentKeepsCustody
<1>4. ClaimedInCustody'
  BY <1>1 DEF PlanInv, PlanSafe, ClaimedInCustody
<1>5. ReservesAllowed' /\ OneProviderPerEpisode' /\ ImportInCustody'
  BY DEF PlanInv, PlanSafe, ReservesAllowed, OneProviderPerEpisode, ImportInCustody, MayDeliver
<1>. QED
  BY <1>2, <1>3, <1>4, <1>5 DEF PlanInv, PlanSafe

LEMMA RecheckClaimKeeps == ASSUME PlanInv, RecheckClaim PROVE PlanInv'
<1>1. disp \in Dispatches /\ disp.pc = "recheck" /\ listed \subseteq atClient
  BY DEF PlanInv, PlanTyped, RecheckClaim
<1>2. UNCHANGED <<plans, prow, atClient, listed, coord, imp, onDisk, planSearch, waived>>
  BY DEF RecheckClaim
<1>3. CASE disp' = [disp EXCEPT !.pc = "send"]
  <2>. DEFINE send == "send"
  <2>1. send \in {"idle", "next", "claim", "recheck", "send", "record"} /\ disp' = [disp EXCEPT !.pc = send]
    BY <1>3
  <2>. HIDE DEF send
  <2>2. disp' \in Dispatches /\ disp'.pc = send /\ disp'.row = disp.row
    BY <1>1, <2>1, DispatchMoves
  <2>. QED
    BY <1>1, <1>2, <2>2, ClaimGoesOn DEF send
<1>4. CASE disp' = SkipRow(disp.row)
  BY <1>1, <1>2, <1>4, SkipTyped, RowsRest, CalmAction DEF PlanInv, PlanTyped
<1>. QED
  BY <1>3, <1>4 DEF RecheckClaim

LEMMA AddPlannedToClientKeeps == ASSUME PlanInv, AddPlannedToClient PROVE PlanInv'
<1>1. disp \in Dispatches /\ disp.pc = "send" /\ listed \subseteq atClient
  BY DEF PlanInv, PlanTyped, AddPlannedToClient
<1>2. UNCHANGED <<plans, prow, coord, imp, onDisk, planSearch, waived>>
  BY DEF AddPlannedToClient
<1>3. PICK out \in {"accepted", "handleless", "refused", "error"} :
        /\ disp' = [disp EXCEPT !.pc = "record", !.out = out]
        /\ \/ atClient' = atClient \cup {disp.row} /\ listed' = listed \cup {disp.row}
           \/ UNCHANGED <<atClient, listed>>
  BY DEF AddPlannedToClient
<1>. DEFINE record == "record"
<1>4. record \in {"idle", "next", "claim", "recheck", "send", "record"} /\ disp' = [disp EXCEPT !.pc = record, !.out = out]
  BY <1>3
<1>. HIDE DEF record
<1>5. disp' \in Dispatches /\ disp'.pc = record /\ disp'.row = disp.row
  BY <1>1, <1>4 DEF Dispatches
<1>. QED
  BY <1>1, <1>2, <1>3, <1>5, ClaimGoesOn DEF record

\* Whatever the answer, the row is not unsent and keeps its custody.
LEMMA RecordPlannedAnswerKeeps == ASSUME PlanInv, RecordPlannedAnswer PROVE PlanInv'
<1>. DEFINE r == disp.row
<1>1. /\ disp \in Dispatches /\ r \in PlanRows /\ prow \in [PlanRows -> Intents] /\ prow[r] \in Intents
      /\ prow[r].ph = "submitting" /\ prow[r].st = "grabbed"
  BY DEF PlanInv, PlanTyped, PlanSafe, RecordPlannedAnswer, ClaimedInCustody, Dispatches
<1>2. UNCHANGED <<plans, atClient, listed, coord, imp, onDisk, planSearch, waived>>
  BY DEF RecordPlannedAnswer
<1>3. PICK y \in {prow[r], [prow[r] EXCEPT !.st = "failed", !.ph = "rejected"],
                  [prow[r] EXCEPT !.st = "grabbed", !.ph = "uncertain"], [prow[r] EXCEPT !.ph = "submitted"]} :
        prow' = [prow EXCEPT ![r] = y]
  <2>1. [prow[r] EXCEPT !.ph = "uncertain", !.st = "grabbed"] = [prow[r] EXCEPT !.st = "grabbed", !.ph = "uncertain"]
    BY <1>1 DEF Intents
  <2>. QED
    BY <2>1 DEF RecordPlannedAnswer
<1>4. Calm(prow[r], y, r \in waived')
  <2>1. Calm(prow[r], prow[r], r \in waived')
    BY <1>1, CalmSame
  <2>2. Calm(prow[r], [prow[r] EXCEPT !.st = "failed", !.ph = "rejected"], r \in waived')
    BY <1>1, StatePhaseCalm DEF Moving, PlanPhases
  <2>3. Calm(prow[r], [prow[r] EXCEPT !.st = "grabbed", !.ph = "uncertain"], r \in waived')
    BY <1>1, StatePhaseCalm DEF Moving, PlanPhases
  <2>4. Calm(prow[r], [prow[r] EXCEPT !.ph = "submitted"], r \in waived')
    BY <1>1, PhaseCalm DEF PlanPhases
  <2>. QED
    BY <1>3, <2>1, <2>2, <2>3, <2>4
<1>5. prow' \in [PlanRows -> Intents] /\ CalmStep /\ \A q \in PlanRows \ {r} : Same(prow[q], prow'[q])
  BY <1>1, <1>3, <1>4, OneRow
<1>6. imp.row # r
  BY <1>1, SeasonPlanAssumption DEF PlanInv, PlanSafe, ImportInCustody, SeasonPlanAssumption
<1>7. disp' \in Dispatches /\ disp'.pc \in {"idle", "next"}
  BY <1>1, SkipTyped, PlanRest DEF RecordPlannedAnswer
<1>. QED
  BY <1>2, <1>5, <1>6, <1>7, CalmAction DEF PlanInv, PlanTyped

-----------------------------------------------------------------------------
(* The coordinator.                                                          *)

\* Who holds a row's lock, or a title's.
LEMMA Holders ==
    ASSUME PlanInv
    PROVE  /\ disp.pc \in {"recheck", "send", "record"} =>
                disp.row \in PlanRows /\ prow[disp.row].ph = "submitting" /\ prow[disp.row].st = "grabbed"
           /\ imp.row \in PlanRows =>
                prow[imp.row].ph = "submitted" /\ prow[imp.row].st = "importing" /\ ~prow[imp.row].sup
           /\ imp.pc # "idle" => imp.row \in PlanRows
BY SeasonPlanAssumption
DEF PlanInv, PlanSafe, PlanTyped, ClaimedInCustody, ImportInCustody, Dispatches, PlanImports, SeasonPlanAssumption

LEMMA ReconcileReadsKeeps == ASSUME PlanInv, NEW p \in PlanIds, ReconcileReads(p) PROVE PlanInv'
<1>1. coord' \in Readings
  BY DEF ReconcileReads, Readings
<1>2. UNCHANGED <<plans, prow, atClient, listed, disp, imp, onDisk, planSearch, waived>>
  BY DEF ReconcileReads
<1>. QED
  BY <1>1, <1>2, RowsRest, CalmAction, Holders DEF PlanInv, PlanTyped

LEMMA ReconcileDispatchesKeeps == ASSUME PlanInv, ReconcileDispatches PROVE PlanInv'
<1>1. coord \in Readings /\ coord' = [coord EXCEPT !.pc = "settle"] /\ coord.plan \in PlanIds \cup {0}
  BY DEF ReconcileDispatches, PlanInv, PlanTyped, Readings
<1>2. coord' \in Readings
  BY <1>1 DEF Readings
<1>3. UNCHANGED <<prow, atClient, listed, imp, onDisk, planSearch, waived>>
  BY DEF ReconcileDispatches
<1>4. CASE DispatchPlan(coord.plan, "coordinator")
  BY <1>1, <1>2, <1>3, <1>4, DispatchAdmittedKeeps
<1>5. CASE UNCHANGED <<plans, disp>>
  BY <1>2, <1>3, <1>5, RowsRest, CalmAction, Holders DEF PlanInv, PlanTyped
<1>. QED
  BY <1>4, <1>5 DEF ReconcileDispatches

\* It settles with no row lock held: what dispatch claimed is only parked.
LEMMA ReconcileSettlesKeeps == ASSUME PlanInv, ReconcileSettles PROVE PlanInv'
<1>1. UNCHANGED <<atClient, listed, disp, imp, onDisk, waived>> /\ coord' = NoCoord /\ waived \subseteq PlanRows
  BY DEF ReconcileSettles, PlanInv, PlanTyped
<1>2. CASE UNCHANGED <<plans, prow, planSearch>>
  BY <1>1, <1>2, RowsRest, PlanRest, CalmAction, Holders DEF PlanInv, PlanTyped
<1>3. ASSUME NEW state \in {"cancelled", "completed", "settled_with_reservations"}, SettleSeasonPlan(coord.plan, state)
      PROVE  PlanInv'
  <2>1. /\ planSearch' \in BOOLEAN /\ CalmStep /\ prow' \in [PlanRows -> Intents] /\ plans' \in [PlanIds -> PlanStates]
        /\ \A r \in PlanRows : prow[r].ph # "pending" => Same(prow[r], prow'[r])
    BY <1>1, <1>3, SettlementCalm DEF PlanStates
  <2>. QED
    BY <1>1, <2>1, PlanRest, CalmAction, Holders
<1>. QED
  BY <1>2, <1>3 DEF ReconcileSettles

-----------------------------------------------------------------------------
(* The client, the operator: one row, under its lock.                        *)

LEMMA OneRowAction ==
    ASSUME PlanInv, NEW r \in PlanRows, NEW y, prow' = [prow EXCEPT ![r] = y], Calm(prow[r], y, r \in waived'),
           plans' \in [PlanIds -> PlanStates], planSearch' \in BOOLEAN, UNCHANGED <<atClient, onDisk, disp, coord, imp>>,
           RowFree(r), imp.row # r \/ Same(prow[r], y),
           listed' \subseteq listed, waived \subseteq waived', waived' \subseteq PlanRows
    PROVE  PlanInv'
<1>1. /\ prow' \in [PlanRows -> Intents] /\ CalmStep
      /\ prow'[r] = y /\ \A q \in PlanRows \ {r} : Same(prow[q], prow'[q])
  BY OneRow
<1>2. disp.pc \in {"recheck", "send", "record"} => Same(prow[disp.row], prow'[disp.row])
  BY <1>1, Holders DEF RowFree
<1>3. imp.row \in PlanRows => Same(prow[imp.row], prow'[imp.row])
  BY <1>1
<1>. QED
  BY <1>1, <1>2, <1>3, CalmAction DEF PlanInv, PlanTyped

LEMMA RowExists ==
    ASSUME PlanInv, NEW r \in PlanRows
    PROVE  prow[r] \in Intents /\ (prow[r].ph # "" => prow[r].st # "none")
BY DEF PlanInv, PlanTyped, PlanSafe, NotSentYet

LEMMA AcceptObservedKeeps == ASSUME PlanInv, NEW r \in PlanRows, AcceptObserved(r) PROVE PlanInv'
<1>1. prow[r] \in Intents /\ prow[r].st # "none" /\ prow[r].ph \in {"submitting", "uncertain"} /\ imp.row # r
  BY RowExists, Holders DEF AcceptObserved
<1>. DEFINE y == [prow[r] EXCEPT !.ph = "submitted"]
<1>2. Calm(prow[r], y, r \in waived')
  BY <1>1, PhaseCalm DEF PlanPhases
<1>3. prow' = [prow EXCEPT ![r] = y]
  BY DEF AcceptObserved
<1>. HIDE DEF y
<1>. QED
  BY <1>1, <1>2, <1>3, OneRowAction DEF AcceptObserved, PlanInv, PlanTyped

LEMMA PlanHandleFailureKeeps == ASSUME PlanInv, NEW r \in PlanRows, PlanHandleFailure(r) PROVE PlanInv'
<1>1. prow[r] \in Intents /\ prow[r].st = "grabbed" /\ imp.row # r
  BY RowExists, Holders DEF PlanHandleFailure
<1>2. Calm(prow[r], Ended(prow[r], "failed"), r \in waived')
  BY <1>1, EndedCalm
<1>3. prow' = [prow EXCEPT ![r] = Ended(prow[r], "failed")]
  BY DEF PlanHandleFailure
<1>. QED
  BY <1>1, <1>2, <1>3, OneRowAction DEF PlanHandleFailure, PlanInv, PlanTyped

LEMMA CalmTwice ==
    ASSUME NEW x, NEW y, NEW z, NEW accepted, Calm(x, y, accepted), Calm(y, z, accepted)
    PROVE  Calm(x, z, accepted)
BY DEF Calm, Gains

LEMMA PlanHandleRemovedKeeps == ASSUME PlanInv, NEW r \in PlanRows, PlanHandleRemoved(r) PROVE PlanInv'
<1>1. prow[r] \in Intents /\ prow[r].st = "grabbed" /\ imp.row # r
  BY RowExists, Holders DEF PlanHandleRemoved
<1>. DEFINE y == IF prow[r].plan = 0 THEN prow[r] ELSE [prow[r] EXCEPT !.park = "operator"]
<1>2. Calm(prow[r], y, r \in waived') /\ y \in Intents /\ y.st # "none"
  <2>1. Calm(prow[r], y, r \in waived')
    BY <1>1, CalmSame, ParkCalm
  <2>. QED
    BY <1>1, <2>1 DEF Calm, Gains
<1>3. prow' = [prow EXCEPT ![r] = Ended(y, "failed")]
  BY DEF PlanHandleRemoved
<1>. HIDE DEF y
<1>4. Calm(prow[r], Ended(y, "failed"), r \in waived')
  BY <1>2, EndedCalm, CalmTwice
<1>5. plans' \in [PlanIds -> PlanStates]
  BY PlanCancelled DEF PlanHandleRemoved, CancelPlanOf, PlanInv, PlanTyped
<1>. QED
  BY <1>1, <1>3, <1>4, <1>5, OneRowAction DEF PlanHandleRemoved, PlanInv, PlanTyped

LEMMA ClientForgetsKeeps == ASSUME PlanInv, NEW r \in PlanRows, ClientForgets(r) PROVE PlanInv'
BY RowsRest, CalmAction, Holders DEF ClientForgets, PlanInv, PlanTyped

LEMMA ObserveUncertainParksKeeps == ASSUME PlanInv, NEW r \in PlanRows, ObserveUncertainParks(r) PROVE PlanInv'
<1>1. prow[r] \in Intents /\ prow[r].st # "none" /\ imp.row # r
  BY RowExists, Holders DEF ObserveUncertainParks, Absent
<1>2. Calm(prow[r], Parked(prow[r], "uncertain"), r \in waived')
  BY <1>1, ParkedCalm
<1>3. prow' = [prow EXCEPT ![r] = Parked(prow[r], "uncertain")]
  BY DEF ObserveUncertainParks
<1>. QED
  BY <1>1, <1>2, <1>3, OneRowAction DEF ObserveUncertainParks, Absent, PlanInv, PlanTyped

\* The two ways of accepting the risk of a duplicate.
LEMMA Releases ==
    ASSUME PlanInv, NEW r \in PlanRows, prow[r].st # "none", imp.row # r, RowFree(r),
           prow' = [prow EXCEPT ![r].sup = TRUE, ![r].park = "", ![r].res = {}],
           waived' = waived \cup {r}, planSearch' \in BOOLEAN,
           UNCHANGED <<plans, atClient, listed, disp, coord, imp, onDisk>>
    PROVE  PlanInv'
<1>1. prow[r] \in Intents /\ prow \in [PlanRows -> Intents] /\ waived \subseteq PlanRows
  BY DEF PlanInv, PlanTyped
<1>. DEFINE y == [prow[r] EXCEPT !.sup = TRUE, !.park = "", !.res = {}]
<1>2. Calm(prow[r], y, r \in waived')
  BY <1>1, ReleaseCalm
<1>3. prow' = [prow EXCEPT ![r] = y]
  BY <1>1
<1>. HIDE DEF y
<1>. QED
  BY <1>1, <1>2, <1>3, OneRowAction DEF PlanInv, PlanTyped

LEMMA ReleaseUncertainRiskKeeps == ASSUME PlanInv, NEW r \in PlanRows, ReleaseUncertainRisk(r) PROVE PlanInv'
<1>1. prow[r].st # "none" /\ imp.row # r
  BY RowExists, Holders DEF ReleaseUncertainRisk, Absent
<1>. QED
  BY <1>1, Releases DEF ReleaseUncertainRisk, Absent

LEMMA ResolveReservationKeeps == ASSUME PlanInv, NEW r \in PlanRows, ResolveReservation(r) PROVE PlanInv'
<1>1. prow[r].st # "none" /\ imp.row # r
  BY SeasonPlanAssumption DEF ResolveReservation, UnusedRow, TargetFree, SeasonPlanAssumption
<1>. QED
  BY <1>1, Releases DEF ResolveReservation, PlanInv, PlanTyped

LEMMA RemovePlannedKeeps == ASSUME PlanInv, NEW r \in PlanRows, RemovePlanned(r) PROVE PlanInv'
<1>1. prow[r] \in Intents /\ prow[r].st # "none"
  BY RowExists DEF RemovePlanned, UnusedRow
<1>. DEFINE y == IF prow[r].ph = "pending" THEN Closed(prow[r])
                 ELSE IF prow[r].sup THEN prow[r] ELSE [prow[r] EXCEPT !.park = "operator"]
<1>2. Calm(prow[r], y, r \in waived') /\ (prow[r].ph # "pending" => Same(prow[r], y))
  <2>1. CASE prow[r].ph = "pending"
    BY <1>1, <2>1, ClosedCalm
  <2>2. CASE prow[r].ph # "pending"
    BY <1>1, <2>2, CalmSame, ParkCalm
  <2>. QED
    BY <2>1, <2>2
<1>3. prow' = [prow EXCEPT ![r] = y]
  BY DEF RemovePlanned
<1>. HIDE DEF y
<1>4. imp.row # r \/ Same(prow[r], y)
  BY <1>2, Holders
<1>5. plans' \in [PlanIds -> PlanStates]
  BY PlanCancelled DEF RemovePlanned, PlanInv, PlanTyped
<1>. QED
  BY <1>2, <1>3, <1>4, <1>5, OneRowAction DEF RemovePlanned, PlanInv, PlanTyped

LEMMA PlanAgesKeeps == ASSUME PlanInv, NEW p \in PlanIds, PlanAges(p) PROVE PlanInv'
BY RowsRest, CalmAction, Holders DEF PlanAges, PlanInv, PlanTyped

\* A restart: a claimed send becomes uncertain, an import starts again.
LEMMA RecoverSeasonSubmissionsKeeps == ASSUME PlanInv, RecoverSeasonSubmissions PROVE PlanInv'
<1>. DEFINE Unproved(r) == IF prow[r].ph = "submitting" THEN [prow[r] EXCEPT !.ph = "uncertain"] ELSE prow[r]
            Row(r) == IF Unproved(r).st = "importing" THEN [Unproved(r) EXCEPT !.st = "grabbed"] ELSE Unproved(r)
<1>1. ASSUME NEW r \in PlanRows
      PROVE  Calm(prow[r], Row(r), r \in waived')
  <2>1. prow[r] \in Intents /\ (prow[r].ph # "" => prow[r].st # "none")
    BY RowExists
  <2>2. Calm(prow[r], Unproved(r), r \in waived') /\ Unproved(r) \in Intents
    <3>1. Calm(prow[r], Unproved(r), r \in waived')
      BY <2>1, CalmSame, PhaseCalm DEF PlanPhases
    <3>. QED
      BY <3>1 DEF Calm
  <2>. DEFINE x == Unproved(r)
  <2>. HIDE DEF Unproved
  <2>3. CASE x.st = "importing"
    <3>1. Calm(x, [x EXCEPT !.st = "grabbed"], r \in waived')
      BY <2>2, <2>3, StateCalm DEF Moving
    <3>. QED
      BY <2>2, <2>3, <3>1, CalmTwice
  <2>4. CASE x.st # "importing"
    BY <2>2, <2>4
  <2>. QED
    BY <2>3, <2>4
<1>2. prow' = [r \in PlanRows |-> Row(r)]
  BY DEF RecoverSeasonSubmissions
<1>. HIDE DEF Row
<1>3. prow' \in [PlanRows -> Intents] /\ CalmStep
  BY <1>1, <1>2 DEF Calm, CalmStep
<1>. QED
  BY <1>3, PlanRest, CalmAction DEF RecoverSeasonSubmissions, PlanInv, PlanTyped

-----------------------------------------------------------------------------
(* Imports.                                                                  *)

\* What a pack may import beyond its own plan, no other row may deliver.
LEMMA AllowedIsFree ==
    ASSUME PlanInv, NEW r \in PlanRows, MayDeliver(r), NEW q \in PlanRows \ {r}, MayDeliver(q)
    PROVE  prow[q].res \cap EffectiveImportAllowlist(r) = {}
<1>. SUFFICES ASSUME NEW e \in prow[q].res, e \in EffectiveImportAllowlist(r)
              PROVE  FALSE
  OBVIOUS
<1>1. prow \in [PlanRows -> Intents] /\ e \in PlanEps
  BY DEF PlanInv, PlanTyped, Intents
<1>2. e \notin prow[r].allow
  BY <1>1 DEF PlanInv, PlanSafe, ReservesAllowed, OneProviderPerEpisode
<1>3. PICK f \in PlanRows : prow[f].st = "failed" /\ ReservedEpisodes(e) \subseteq {r, f}
  BY <1>1, <1>2 DEF EffectiveImportAllowlist, PlanDownloads
<1>4. q \in ReservedEpisodes(e)
  BY DEF ReservedEpisodes, Reservation, MayDeliver
<1>. QED
  BY <1>3, <1>4 DEF MayDeliver, Moving

LEMMA ImportStartsKeeps == ASSUME PlanInv, NEW r \in PlanRows, ImportStarts(r) PROVE PlanInv'
<1>. DEFINE allowed == EffectiveImportAllowlist(r)
            y == [prow[r] EXCEPT !.st = "importing"]
<1>1. prow \in [PlanRows -> Intents] /\ prow[r] \in Intents /\ prow[r].st = "grabbed" /\ prow[r].ph = "submitted" /\ ~prow[r].sup
  BY DEF PlanInv, PlanTyped, ImportStarts
<1>2. allowed \in SUBSET PlanEps /\ prow[r].allow \subseteq allowed
  BY <1>1 DEF EffectiveImportAllowlist, Intents
<1>3. Calm(prow[r], y, r \in waived') /\ y.st = "importing" /\ y.ph = "submitted" /\ y.sup = prow[r].sup /\ y.allow = prow[r].allow
  <2>1. Calm(prow[r], y, r \in waived')
    BY <1>1, StateCalm DEF Moving
  <2>. QED
    BY <1>1, <2>1 DEF Intents
<1>4. prow' = [prow EXCEPT ![r] = y]
  BY <1>1 DEF ImportStarts
<1>5. imp' = [row |-> r, allowed |-> allowed, pc |-> "reserve"] /\ UNCHANGED <<plans, atClient, listed, disp, coord, onDisk, planSearch, waived>>
  BY DEF ImportStarts
<1>6. \A q \in PlanRows \ {r} : MayDeliver(q) => prow[q].res \cap allowed = {}
  BY <1>1, AllowedIsFree DEF MayDeliver, Moving
<1>. HIDE DEF allowed, y
<1>7. prow' \in [PlanRows -> Intents] /\ CalmStep /\ prow'[r] = y /\ \A q \in PlanRows \ {r} : Same(prow[q], prow'[q])
  BY <1>3, <1>4, OneRow
<1>8. /\ NotSentYet' /\ ReservesAllowed' /\ OneProviderPerEpisode' /\ SentKeepsCustody'
      /\ \A q \in PlanRows : MayDeliver(q)' => MayDeliver(q) /\ prow'[q].res = prow[q].res
  BY <1>5, <1>7, CalmRows
<1>9. ClaimedInCustody'
  <2>1. RowFree(r)
    BY DEF ImportStarts
  <2>. QED
    BY <1>5, <1>7, <2>1, Holders DEF PlanInv, PlanSafe, ClaimedInCustody, Same, RowFree
<1>10. ImportInCustody'
  BY <1>1, <1>2, <1>3, <1>5, <1>6, <1>7, <1>8, SeasonPlanAssumption DEF ImportInCustody, SeasonPlanAssumption
<1>11. PlanTyped'
  BY <1>2, <1>5, <1>7 DEF PlanInv, PlanTyped, PlanImports
<1>. QED
  BY <1>8, <1>9, <1>10, <1>11 DEF PlanInv, PlanSafe

LEMMA ImportReservesKeeps == ASSUME PlanInv, ImportReserves PROVE PlanInv'
<1>. DEFINE r == imp.row
            y == [prow[r] EXCEPT !.res = imp.allowed]
<1>1. /\ imp \in PlanImports /\ imp.pc = "reserve" /\ r \in PlanRows /\ prow \in [PlanRows -> Intents] /\ prow[r] \in Intents
      /\ prow[r].ph = "submitted" /\ prow[r].st = "importing" /\ ~prow[r].sup /\ imp.allowed \in SUBSET PlanEps
  BY Holders DEF PlanInv, PlanTyped, PlanImports, ImportReserves
<1>2. prow[r].allow \subseteq imp.allowed /\ \A q \in PlanRows \ {r} : MayDeliver(q) => prow[q].res \cap imp.allowed = {}
  BY <1>1, SeasonPlanAssumption DEF PlanInv, PlanSafe, ImportInCustody, SeasonPlanAssumption
<1>3. prow' = [prow EXCEPT ![r] = y] /\ imp' = [imp EXCEPT !.pc = "publish"]
  BY <1>1 DEF ImportReserves
<1>4. UNCHANGED <<plans, atClient, listed, disp, coord, onDisk, planSearch, waived>>
  BY DEF ImportReserves
<1>5. /\ y \in Intents /\ y.st = prow[r].st /\ y.ph = prow[r].ph /\ (y.sup <=> prow[r].sup)
      /\ y.allow = prow[r].allow /\ y.res = imp.allowed
  BY <1>1 DEF Intents
<1>. HIDE DEF y
<1>6. prow' \in [PlanRows -> Intents] /\ prow'[r] = y /\ \A q \in PlanRows \ {r} : prow'[q] = prow[q]
  BY <1>1, <1>3, <1>5
<1>7. imp' \in PlanImports /\ imp'.row = r /\ imp'.allowed = imp.allowed /\ imp'.pc = "publish"
  BY <1>1, <1>3 DEF PlanImports
<1>8. \A q \in PlanRows : MayDeliver(q)' <=> MayDeliver(q)
  BY <1>5, <1>6 DEF MayDeliver
<1>9. PlanTyped'
  BY <1>4, <1>6, <1>7 DEF PlanInv, PlanTyped
<1>10. NotSentYet' /\ SentKeepsCustody' /\ ReservesAllowed'
  <2>0. NotSentYet /\ \A q \in PlanRows : prow'[q].st = prow[q].st /\ prow'[q].ph = prow[q].ph
    BY <1>5, <1>6 DEF PlanInv, PlanSafe
  <2>1. NotSentYet'
    BY <1>4, <2>0 DEF NotSentYet
  <2>2. \A q \in PlanRows : prow'[q].sup <=> prow[q].sup
    BY <1>5, <1>6
  <2>3. SentKeepsCustody'
    BY <1>4, <2>2 DEF PlanInv, PlanSafe, PlanTyped, SentKeepsCustody
  <2>4. ReservesAllowed'
    BY <1>2, <1>5, <1>6, <1>8 DEF PlanInv, PlanSafe, ReservesAllowed
  <2>. QED
    BY <2>1, <2>3, <2>4
<1>11. OneProviderPerEpisode'
  BY <1>2, <1>5, <1>6, <1>8 DEF PlanInv, PlanSafe, OneProviderPerEpisode
<1>12. ClaimedInCustody'
  BY <1>1, <1>4, <1>6, Holders DEF PlanInv, PlanSafe, ClaimedInCustody
<1>13. ImportInCustody'
  <2>1. prow'[r].st = "importing" /\ prow'[r].ph = "submitted" /\ ~prow'[r].sup /\ prow'[r].allow \subseteq imp.allowed
    BY <1>1, <1>2, <1>5, <1>6
  <2>. QED
    BY <1>1, <1>7, <2>1, SeasonPlanAssumption DEF ImportInCustody, SeasonPlanAssumption
<1>. QED
  BY <1>9, <1>10, <1>11, <1>12, <1>13 DEF PlanInv, PlanSafe

LEMMA ImportPublishesKeeps == ASSUME PlanInv, ImportPublishes PROVE PlanInv'
<1>. DEFINE r == imp.row
            y == Ended(prow[r], "imported")
<1>1. /\ r \in PlanRows /\ prow[r] \in Intents /\ prow[r].ph = "submitted" /\ prow[r].st = "importing" /\ imp.allowed \subseteq PlanEps
  BY Holders DEF PlanInv, PlanTyped, PlanImports, ImportPublishes
<1>2. prow' = [prow EXCEPT ![r] = y]
  BY DEF ImportPublishes
<1>3. imp' = NoPlanImport /\ onDisk' = onDisk \cup imp.allowed /\ UNCHANGED <<plans, atClient, listed, disp, coord, planSearch, waived>>
  BY DEF ImportPublishes
<1>4. Calm(prow[r], y, r \in waived')
  BY <1>1, EndedCalm
<1>. HIDE DEF y
<1>5. prow' \in [PlanRows -> Intents] /\ CalmStep /\ \A q \in PlanRows \ {r} : Same(prow[q], prow'[q])
  BY <1>1, <1>2, <1>4, OneRow
<1>6. disp.pc \in {"recheck", "send", "record"} => Same(prow[disp.row], prow'[disp.row])
  BY <1>1, <1>5, Holders
<1>7. PlanSafe'
  BY <1>3, <1>5, <1>6, CalmKeeps
<1>8. PlanTyped'
  BY <1>1, <1>3, <1>5, PlanRest DEF PlanInv, PlanTyped
<1>. QED
  BY <1>7, <1>8 DEF PlanInv

-----------------------------------------------------------------------------
(* New rows: a grab, the parts of a plan.                                    *)

\* New rows come to nothing that another row may deliver; other rows gain
\* nothing.
LEMMA NewRows ==
    ASSUME PlanInv, TargetFree, UNCHANGED <<disp, imp, waived>>,
           NEW fresh \in SUBSET PlanRows, \A r \in fresh : prow[r].st = "none",
           \A q \in PlanRows \ fresh : Calm(prow[q], prow'[q], FALSE) /\ (prow[q].ph # "pending" => Same(prow[q], prow'[q])),
           \A r \in fresh : /\ prow'[r].st \in Moving /\ ~prow'[r].sup /\ prow'[r].allow = prow'[r].res
                            /\ prow'[r].ph = "pending" => r \notin atClient',
           \A r \in fresh : \A q \in PlanRows \ {r} : MayDeliver(q)' => prow'[r].res \cap prow'[q].res = {},
           atClient \subseteq atClient', atClient' \subseteq atClient \cup fresh
    PROVE  PlanSafe'
<1>1. \A q \in PlanRows \ fresh : MayDeliver(q)' => MayDeliver(q) /\ prow'[q].res = prow[q].res
  BY DEF MayDeliver, Calm, Gains
<1>2. NotSentYet'
  <2>1. NotSentYet
    BY DEF PlanInv, PlanSafe
  <2>2. ASSUME NEW q \in fresh
        PROVE  prow'[q].st # "none" /\ (prow'[q].ph = "pending" => q \notin atClient')
    BY DEF Moving
  <2>3. ASSUME NEW q \in PlanRows \ fresh
        PROVE  /\ prow'[q].st = "none" => prow[q].st = "none" /\ prow'[q].ph = prow[q].ph
               /\ prow'[q].ph = "pending" => prow[q].ph = "pending"
               /\ q \in atClient' => q \in atClient
    BY DEF Calm, Gains
  <2>. QED
    BY <2>1, <2>2, <2>3 DEF NotSentYet
<1>3. ReservesAllowed'
  <2>1. ASSUME NEW q \in PlanRows, MayDeliver(q)'
        PROVE  prow'[q].allow \subseteq prow'[q].res
    <3>1. CASE q \in fresh
      BY <3>1
    <3>2. CASE q \notin fresh
      BY <1>1, <2>1, <3>2 DEF PlanInv, PlanSafe, ReservesAllowed, Calm, Gains
    <3>. QED
      BY <3>1, <3>2
  <2>. QED
    BY <2>1 DEF ReservesAllowed
<1>4. OneProviderPerEpisode'
  BY <1>1 DEF PlanInv, PlanSafe, OneProviderPerEpisode
<1>5. SentKeepsCustody'
  BY DEF PlanInv, PlanTyped, PlanSafe, NotSentYet, SentKeepsCustody, Calm, Gains
<1>6. ClaimedInCustody'
  <2>1. disp.pc \in {"recheck", "send", "record"} => disp.row \in PlanRows \ fresh /\ prow[disp.row].ph # "pending"
    BY Holders
  <2>. QED
    BY <2>1 DEF PlanInv, PlanSafe, ClaimedInCustody, Same
<1>7. ImportInCustody'
  BY Holders, SeasonPlanAssumption DEF PlanInv, PlanSafe, ImportInCustody, TargetFree, SeasonPlanAssumption
<1>. QED
  BY <1>2, <1>3, <1>4, <1>5, <1>6, <1>7 DEF PlanSafe

LEMMA GrabEpisodeKeeps == ASSUME PlanInv, NEW r \in PlanRows, NEW e \in PlanEps, GrabEpisode(r, e) PROVE PlanInv'
<1>. DEFINE After(q) == IF q \in ReservedEpisodes(e) /\ prow[q].plan # 0 THEN ClosePendingForManual(prow[q]) ELSE prow[q]
            after == [q \in PlanRows |-> After(q)]
            grab == [NoPlanRow EXCEPT !.st = "grabbed", !.ph = "submitted", !.allow = {e}, !.res = {e}]
<1>1. /\ TargetFree /\ prow[r].st = "none" /\ \A q \in ReservedEpisodes(e) : after[q].sup
      /\ prow' = [after EXCEPT ![r] = grab] /\ atClient' = atClient \cup {r} /\ listed' = listed \cup {r}
      /\ UNCHANGED <<plans, disp, coord, imp, onDisk, planSearch, waived>>
  BY DEF GrabEpisode, UnusedRow
<1>2. ASSUME NEW q \in PlanRows
      PROVE  Calm(prow[q], After(q), FALSE) /\ (prow[q].ph # "pending" => Same(prow[q], After(q)))
  <2>1. prow[q] \in Intents
    BY DEF PlanInv, PlanTyped
  <2>2. CASE After(q) = Closed(prow[q]) /\ prow[q].ph = "pending" /\ prow[q].st = "planned"
    BY <2>1, <2>2, ClosedCalm
  <2>3. CASE After(q) = prow[q]
    BY <2>1, <2>3, CalmSame
  <2>. QED
    BY <2>2, <2>3 DEF ClosePendingForManual
<1>3. /\ grab \in Intents /\ grab.st = "grabbed" /\ grab.ph = "submitted" /\ ~grab.sup
      /\ grab.allow = {e} /\ grab.res = {e}
  BY DEF NoPlanRow, Intents, PlanPhases, Moving
<1>. HIDE DEF grab, After
<1>4. prow' \in [PlanRows -> Intents] /\ prow'[r] = grab /\ \A q \in PlanRows \ {r} : prow'[q] = After(q)
  BY <1>1, <1>2, <1>3 DEF Calm
<1>5. ASSUME NEW q \in PlanRows \ {r}, MayDeliver(q)'
      PROVE  e \notin prow'[q].res
  <2>1. MayDeliver(q) /\ prow'[q].res = prow[q].res /\ ~After(q).sup
    BY <1>2, <1>4, <1>5 DEF MayDeliver, Calm, Gains
  <2>2. q \notin ReservedEpisodes(e)
    BY <1>1, <2>1
  <2>. QED
    BY <2>1, <2>2 DEF ReservedEpisodes, Reservation, MayDeliver
<1>. DEFINE fresh == {r}
<1>6. fresh \in SUBSET PlanRows /\ (\A q \in fresh : prow[q].st = "none") /\ atClient' = atClient \cup fresh
  BY <1>1
<1>7. \A q \in PlanRows \ fresh : Calm(prow[q], prow'[q], FALSE) /\ (prow[q].ph # "pending" => Same(prow[q], prow'[q]))
  BY <1>2, <1>4
<1>8. \A a \in fresh : /\ prow'[a].st \in Moving /\ ~prow'[a].sup /\ prow'[a].allow = prow'[a].res
                       /\ prow'[a].ph = "pending" => a \notin atClient'
  BY <1>3, <1>4 DEF Moving
<1>9. \A a \in fresh : \A q \in PlanRows \ {a} : MayDeliver(q)' => prow'[a].res \cap prow'[q].res = {}
  BY <1>3, <1>4, <1>5
<1>. HIDE DEF fresh
<1>10. PlanSafe'
  BY <1>1, <1>6, <1>7, <1>8, <1>9, NewRows
<1>11. PlanTyped'
  BY <1>1, <1>4 DEF PlanInv, PlanTyped
<1>. QED
  BY <1>10, <1>11 DEF PlanInv

\* The parts of a plan: one pack at most and singles, of different episodes.
LEMMA PartsDiffer ==
    ASSUME NEW eps \in SUBSET PlanEps, NEW parts \in Build(eps)
    PROVE  /\ parts \subseteq BOOLEAN \X SUBSET eps
           /\ \A x, y \in parts : x # y => x[2] \cap y[2] = {}
<1>1. PICK packed \in SUBSET eps :
        parts \in {{<<TRUE, x>> : x \in {packed} \ {{}}} \cup {<<FALSE, {e}>> : e \in single} : single \in SUBSET (eps \ packed)}
  BY DEF Build
<1>a. PICK single \in SUBSET (eps \ packed) : parts = {<<TRUE, x>> : x \in {packed} \ {{}}} \cup {<<FALSE, {e}>> : e \in single}
  BY <1>1
<1>2. \A x \in parts : x = <<TRUE, packed>> \/ \E e \in single : x = <<FALSE, {e}>>
  BY <1>a
<1>3. ASSUME NEW x \in parts
      PROVE  x \in BOOLEAN \X SUBSET eps
  <2>1. CASE x = <<TRUE, packed>>
    BY <2>1
  <2>2. ASSUME NEW e \in single, x = <<FALSE, {e}>>
        PROVE  x \in BOOLEAN \X SUBSET eps
    <3>1. {e} \in SUBSET eps
      OBVIOUS
    <3>. QED
      BY <2>2, <3>1
  <2>. QED
    BY <1>2, <2>1, <2>2
<1>4. ASSUME NEW x \in parts, NEW y \in parts, x # y
      PROVE  x[2] \cap y[2] = {}
  <2>1. CASE x = <<TRUE, packed>> /\ y = <<TRUE, packed>>
    BY <1>4, <2>1
  <2>2. ASSUME NEW e \in single, x = <<FALSE, {e}>>, y = <<TRUE, packed>>
        PROVE  x[2] \cap y[2] = {}
    BY <2>2
  <2>3. ASSUME NEW e \in single, y = <<FALSE, {e}>>, x = <<TRUE, packed>>
        PROVE  x[2] \cap y[2] = {}
    BY <2>3
  <2>4. ASSUME NEW e \in single, x = <<FALSE, {e}>>, NEW g \in single, y = <<FALSE, {g}>>
        PROVE  x[2] \cap y[2] = {}
    BY <1>4, <2>4
  <2>. QED
    BY <1>2, <2>1, <2>2, <2>3, <2>4
<1>. QED
  BY <1>3, <1>4

\* As many rows as parts: each row is given a part of its own.
LEMMA PartsFit ==
    ASSUME NEW fresh \in SUBSET PlanRows, NEW eps \in SUBSET PlanEps, NEW parts \in SUBSET (BOOLEAN \X SUBSET eps),
           Cardinality(fresh) = Cardinality(parts)
    PROVE  \E f \in [fresh -> parts] : \A a, b \in fresh : a # b => f[a] # f[b]
<1>1. IsFiniteSet(fresh)
  BY FS_Subset, SeasonPlanAssumption DEF SeasonPlanAssumption
<1>2. IsFiniteSet(SUBSET eps)
  BY FS_Subset, FS_SUBSET, SeasonPlanAssumption DEF SeasonPlanAssumption
<1>3. IsFiniteSet(BOOLEAN)
  <2>1. IsFiniteSet({TRUE} \cup {FALSE})
    BY FS_Singleton, FS_AddElement
  <2>2. BOOLEAN = {TRUE} \cup {FALSE}
    OBVIOUS
  <2>. QED
    BY <2>1, <2>2
<1>4. IsFiniteSet(BOOLEAN \X SUBSET eps)
  BY <1>2, <1>3, FS_Product
<1>5. IsFiniteSet(parts)
  BY <1>4, FS_Subset
<1>6. ExistsBijection(fresh, parts)
  BY <1>1, <1>5, FS_SameCardinalityBij
<1>. QED
  BY <1>6 DEF ExistsBijection, Bijection, Injection, IsInjective

LEMMA AdmitAcquisitionPlanKeeps == ASSUME PlanInv, NEW p \in PlanIds, AdmitAcquisitionPlan(p) PROVE PlanInv'
<1>. DEFINE eps == {e \in PlanEps \ onDisk : ReservedEpisodes(e) = {}}
            Fresh(n) == {r \in PlanRows : UnusedRow(r) /\ Cardinality({q \in PlanRows : UnusedRow(q) /\ q < r}) < n}
<1>1. PICK parts \in Build(eps) :
        LET new == Fresh(Cardinality(parts))
            g == CHOOSE g \in [new -> parts] : \A a, b \in new : a # b => g[a] # g[b]
        IN /\ Cardinality(new) = Cardinality(parts)
           /\ prow' = [r \in PlanRows |-> IF r \in new THEN Intent(p, g[r][1], g[r][2]) ELSE prow[r]]
  BY DEF AdmitAcquisitionPlan
<1>. DEFINE fresh == Fresh(Cardinality(parts))
            f == CHOOSE f \in [fresh -> parts] : \A a, b \in fresh : a # b => f[a] # f[b]
<1>2. /\ TargetFree /\ plans' = [plans EXCEPT ![p] = "admitted"] /\ planSearch' = FALSE
      /\ UNCHANGED <<atClient, listed, disp, coord, imp, onDisk, waived>>
  BY DEF AdmitAcquisitionPlan
<1>3. fresh \in SUBSET PlanRows /\ (\A r \in fresh : prow[r].st = "none") /\ eps \in SUBSET PlanEps
  BY DEF UnusedRow
<1>4. parts \subseteq BOOLEAN \X SUBSET eps /\ \A x, y \in parts : x # y => x[2] \cap y[2] = {}
  BY <1>3, PartsDiffer
<1>5. Cardinality(fresh) = Cardinality(parts)
      /\ prow' = [r \in PlanRows |-> IF r \in fresh THEN Intent(p, f[r][1], f[r][2]) ELSE prow[r]]
  BY <1>1
<1>. HIDE DEF fresh
<1>6. f \in [fresh -> parts] /\ \A a, b \in fresh : a # b => f[a] # f[b]
  <2>1. \E g \in [fresh -> parts] : \A a, b \in fresh : a # b => g[a] # g[b]
    BY <1>3, <1>4, <1>5, PartsFit
  <2>. QED
    BY <2>1, Zenon
<1>. HIDE DEF f
<1>7. \A e \in eps, q \in PlanRows : MayDeliver(q) => e \notin prow[q].res
  BY DEF ReservedEpisodes, Reservation, MayDeliver
<1>. HIDE DEF eps
<1>8. ASSUME NEW pack \in BOOLEAN, NEW set \in SUBSET eps
      PROVE  LET y == Intent(p, pack, set)
             IN /\ y \in Intents /\ y.st = "planned" /\ y.ph = "pending" /\ ~y.sup /\ y.allow = set /\ y.res = set
  BY <1>3 DEF Intent, NoPlanRow, Intents, PlanPhases, Moving
<1>9. \A r \in fresh : f[r][1] \in BOOLEAN /\ f[r][2] \in SUBSET eps
  BY <1>4, <1>6
<1>10. \A r \in fresh : LET y == prow'[r]
                        IN /\ y \in Intents /\ y.st = "planned" /\ y.ph = "pending" /\ ~y.sup
                           /\ y.allow = f[r][2] /\ y.res = f[r][2]
  BY <1>3, <1>5, <1>8, <1>9
<1>11. \A q \in PlanRows \ fresh : prow'[q] = prow[q]
  BY <1>5
<1>12. prow \in [PlanRows -> Intents]
  BY DEF PlanInv, PlanTyped
<1>13. \A q \in PlanRows \ fresh : Calm(prow[q], prow'[q], FALSE) /\ (prow[q].ph # "pending" => Same(prow[q], prow'[q]))
  BY <1>11, <1>12, CalmSame
<1>14. \A r \in fresh : /\ prow'[r].st \in Moving /\ ~prow'[r].sup /\ prow'[r].allow = prow'[r].res
                        /\ prow'[r].ph = "pending" => r \notin atClient'
  BY <1>2, <1>3, <1>10 DEF Moving, PlanInv, PlanSafe, NotSentYet
<1>15. ASSUME NEW r \in fresh, NEW q \in PlanRows \ {r}, MayDeliver(q)'
       PROVE  prow'[r].res \cap prow'[q].res = {}
  <2>1. CASE q \in fresh
    BY <1>4, <1>6, <1>10, <2>1
  <2>2. CASE q \notin fresh
    BY <1>7, <1>9, <1>10, <1>11, <1>15, <2>2 DEF MayDeliver
  <2>. QED
    BY <2>1, <2>2
<1>16. PlanSafe'
  BY <1>2, <1>3, <1>13, <1>14, <1>15, NewRows
<1>17. prow' \in [PlanRows -> Intents]
  BY <1>5, <1>10, <1>11, <1>12
<1>18. PlanTyped'
  BY <1>2, <1>17 DEF PlanInv, PlanTyped, PlanStates, OpenPlan, LivePlan
<1>. QED
  BY <1>16, <1>18 DEF PlanInv

-----------------------------------------------------------------------------

LEMMA PlanInitHolds == ASSUME PlanInit PROVE PlanInv
<1>1. PlanTyped
  BY PlanRest DEF PlanInit, PlanTyped, PlanStates
<1>2. PlanSafe
  BY DEF PlanInit, PlanSafe, NotSentYet, ReservesAllowed, ClaimedInCustody, ImportInCustody, OneProviderPerEpisode,
         SentKeepsCustody, MayDeliver, NoPlanRow, NoDispatch, NoPlanImport, Moving
<1>. QED
  BY <1>1, <1>2 DEF PlanInv

LEMMA PlanStepKeeps == ASSUME PlanInv, [PlanNext]_planVars PROVE PlanInv'
<1>1. CASE UNCHANGED planVars
  BY <1>1
  DEF planVars, PlanInv, PlanTyped, PlanSafe, NotSentYet, ReservesAllowed, ClaimedInCustody, ImportInCustody,
      OneProviderPerEpisode, SentKeepsCustody, MayDeliver
<1>2. ASSUME NEW p \in PlanIds, AdmitAcquisitionPlan(p) \/ DispatchAdmitted(p) \/ ReconcileReads(p) \/ PlanAges(p)
      PROVE  PlanInv'
  <2>1. DispatchAdmitted(p) => PlanInv'
    <3>1. ASSUME DispatchAdmitted(p)
          PROVE  UNCHANGED <<prow, atClient, listed, imp, onDisk, planSearch, waived>> /\ DispatchPlan(p, "worker") /\ coord' \in Readings
      BY <3>1 DEF DispatchAdmitted, PlanInv, PlanTyped
    <3>. QED
      BY <3>1, DispatchAdmittedKeeps
  <2>. QED
    BY <1>2, <2>1, AdmitAcquisitionPlanKeeps, ReconcileReadsKeeps, PlanAgesKeeps
<1>3. CASE DispatchRefused \/ DispatchError \/ ClaimPlannedSubmission \/ RecheckClaim \/ AddPlannedToClient
           \/ RecordPlannedAnswer \/ DispatchEnds
  BY <1>3, DispatchRefusedKeeps, DispatchErrorKeeps, ClaimPlannedSubmissionKeeps, RecheckClaimKeeps,
     AddPlannedToClientKeeps, RecordPlannedAnswerKeeps, DispatchEndsKeeps
<1>4. CASE ReconcileDispatches \/ ReconcileSettles \/ ImportReserves \/ ImportPublishes \/ RecoverSeasonSubmissions
  BY <1>4, ReconcileDispatchesKeeps, ReconcileSettlesKeeps, ImportReservesKeeps, ImportPublishesKeeps,
     RecoverSeasonSubmissionsKeeps
<1>5. ASSUME NEW r \in PlanRows,
             \/ CheckPlannedRow(r) \/ AcceptObserved(r) \/ PlanHandleFailure(r) \/ PlanHandleRemoved(r)
             \/ ClientForgets(r) \/ ObserveUncertainParks(r) \/ ReleaseUncertainRisk(r)
             \/ RemovePlanned(r) \/ ResolveReservation(r) \/ ImportStarts(r)
      PROVE  PlanInv'
  BY <1>5, CheckPlannedRowKeeps, AcceptObservedKeeps, PlanHandleFailureKeeps, PlanHandleRemovedKeeps, ClientForgetsKeeps,
     ObserveUncertainParksKeeps, ReleaseUncertainRiskKeeps, RemovePlannedKeeps, ResolveReservationKeeps, ImportStartsKeeps
<1>6. ASSUME NEW r \in PlanRows, NEW e \in PlanEps, GrabEpisode(r, e)
      PROVE  PlanInv'
  BY <1>6, GrabEpisodeKeeps
<1>. QED
  BY <1>1, <1>2, <1>3, <1>4, <1>5, <1>6 DEF PlanNext

\* The inductive invariant.
LEMMA PlanIsSafe == PlanSpec => []PlanInv
BY PlanInitHolds, PlanStepKeeps, PTL DEF PlanSpec

\* No two rows that may still deliver an episode hold it, however settlements,
\* the fallback of a pack, manual grabs and successor plans interleave, for any
\* season, any number of rows and plans, and any number of losses and restarts
\* (AdmitAcquisitionPlan, effectiveImportAllowlist, settleSeasonPlan).
THEOREM OneProvider == PlanSpec => []OneProviderPerEpisode
<1>1. PlanInv => OneProviderPerEpisode
  BY DEF PlanInv, PlanSafe
<1>. QED
  BY <1>1, PlanIsSafe, PTL

\* A submission the client received keeps its row's custody until somebody
\* accepts the risk of a duplicate (settleSeasonPlan, closePendingForManual,
\* RecoverSeasonSubmissions).
THEOREM CustodyIsKept == PlanSpec => []SentKeepsCustody
<1>1. PlanInv => SentKeepsCustody
  BY DEF PlanInv, PlanSafe
<1>. QED
  BY <1>1, PlanIsSafe, PTL

\* Plans, rows and what the client has keep their types.
THEOREM PlanTypesHold == PlanSpec => []PlanTypeOK
<1>1. PlanInv => PlanTypeOK
  BY DEF PlanInv, PlanTyped, PlanTypeOK, PlanStates, Intents
<1>. QED
  BY <1>1, PlanIsSafe, PTL
=============================================================================
