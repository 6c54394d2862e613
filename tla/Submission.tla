----------------------------- MODULE Submission -----------------------------
(***************************************************************************)
(* From a chosen release to a job in a download client, and from what the  *)
(* client says of that job back to the download's row.                     *)
(*                                                                         *)
(* A grab commits a row with its transfer token before it asks the client, *)
(* so an answer that is lost leaves an uncertain row.  The retry worker    *)
(* replays it when the client promises one job per token; the observers    *)
(* (the poll and the event stream) match what the client shows to the row. *)
(* Everything that follows the row's insertion runs under the row's lock;  *)
(* lists of rows and of statuses are read before it is taken.              *)
(*                                                                         *)
(* One client is modelled.  A row's token is its identity.  Names, paths,  *)
(* progress, back-off times, history and events are left out, and so are   *)
(* the branches for a payload that Curator took over, a legacy review, a   *)
(* stalled torrent and an import that is taken up again.                   *)
(***************************************************************************)
EXTENDS Integers, FiniteSets

CONSTANTS
    Grabs,           \* identities of downloads, also their transfer tokens
    Titles,          \* releases
    Refused,         \* the releases the client refuses for good
    MaxHandles,      \* bound: jobs the client creates
    MaxRevision,     \* bound: control revisions of a job
    MaxSubFaults     \* bound: lost answers, crashes, deletions in the client, reinstallations

ASSUME SubmissionAssumption ==
    /\ Grabs \subseteq Nat \ {0} /\ Refused \subseteq Titles
    /\ MaxHandles \in Nat /\ MaxRevision \in Nat /\ MaxSubFaults \in Nat

VARIABLES
    capability,    \* what the client negotiated: "idempotent", "exact" or "legacy"
    download,           \* the downloads table
    grabber,       \* an automatic grab before it holds the row's lock
    call,          \* the Add in progress under a row's lock
    observer,      \* the poll and the event stream
    blocklist,     \* blocklisted releases
    pinned,        \* runner_client_instances: the installation receipts come from
    job,           \* the client's jobs, by handle
    instance,      \* the client's installation
    wire,          \* tokens of Add requests that may still reach the client
    subFaults

subVars == <<capability, download, grabber, call, observer, blocklist, pinned, job, instance, wire, subFaults>>
clientVars == <<job, instance, wire>>

Observers == {"poll", "push"}
Handles == 1 .. MaxHandles
NoGrab == [kind |-> "none", title |-> "none", phase |-> "", state |-> "none", handle |-> 0, parked |-> "no",
          superseded |-> FALSE, instance |-> 0, revision |-> 0, held |-> FALSE, retained |-> FALSE]
\* Deleted from Activity; its identity is not used again.
DeletedRow == [NoGrab EXCEPT !.kind = "deleted"]
NoGrabber == [pc |-> "idle", title |-> "none", seen |-> {}]
NoSubmission == [pc |-> "none", by |-> "none", answer |-> "none", handle |-> 0]
NotObserving == [pc |-> "idle", source |-> "none", of |-> 0, st |-> {}]
NoClientJob == [token |-> 0, title |-> "none", state |-> "none", revision |-> 0, life |-> "running", shown |-> FALSE,
          instance |-> 0, custody |-> "none"]

ActiveGrab == {"grabbed", "downloading", "downloaded", "awaiting_import", "importing"}
Idempotent == capability = "idempotent"
\* Both the idempotent and the exactly correlating clients show the token.
Exact == capability \in {"idempotent", "exact"}
\* negotiateRunnerDelivery: only a client with durable deliveries is asked for
\* idempotent tokens, so the two go together.
DeliveryExpected == Idempotent

Locked(d) == call[d].pc # "none" \/ \E p \in Observers : observer[p].pc = "bind" /\ observer[p].of = d

(* Queries and writes *)

ListActiveDownloads == {d \in Grabs : download[d].state \in ActiveGrab}

Reserves(r) ==
    ~r.superseded /\ (r.state \in ActiveGrab \/ r.phase \in {"submitting", "uncertain"} \/ r.parked # "no")
ListDownloadReservations == {d \in Grabs : Reserves(download[d])}

\* Failed, neither parked nor superseded, and an import of its bytes was tried.
ListRetainedFailedDownloads(t) ==
    {d \in Grabs : download[d].title = t /\ download[d].state = "failed" /\ download[d].retained /\ download[d].parked = "no" /\ ~download[d].superseded}

RecordDownloadSubmission(r, h) ==
    IF r.phase \in {"submitting", "uncertain", "submitted"} /\ r.handle \in {0, h}
    THEN {[r EXCEPT !.handle = h, !.phase = "submitted"]} ELSE {}

RecordHandlelessSubmission(r) ==
    IF Exact /\ r.phase \in {"submitting", "uncertain", "submitted"} /\ r.handle = 0
    THEN {[r EXCEPT !.phase = "submitted"]} ELSE {}

RejectDownloadSubmission(r) ==
    IF /\ r.phase \in {"pending", "submitting", "uncertain", "submitted"}
       /\ r.state \notin {"failed", "imported"} /\ ~r.superseded /\ r.parked = "no"
    THEN [r EXCEPT !.state = "failed", !.phase = "rejected"] ELSE r

ParkDownload(r, why) ==
    IF r.superseded THEN r ELSE [r EXCEPT !.parked = IF @ = "cancelled" THEN @ ELSE why]

SetSubmissionPhase(r, phase) == [r EXCEPT !.phase = phase]
CommitManualSubmission(r, h) == [r EXCEPT !.handle = h, !.phase = "submitted"]
SetDownloadHandle(r, h) == [r EXCEPT !.handle = h]

\* The trigger on a terminal state releases parking that nobody asked for.
TerminalCustody(r) ==
    IF /\ r.state \in {"imported", "failed"}
       /\ r.phase \notin {"submitting", "uncertain"} /\ r.parked # "cancelled"
    THEN [r EXCEPT !.parked = "no"] ELSE r
UpdateDownloadState(r, state) == TerminalCustody([r EXCEPT !.state = state])

(* The client *)

JobsOf(d) == {h \in Handles : job[h].token = d /\ job[h].instance = instance}
FreeHandles == {h \in Handles : job[h] = NoClientJob}

\* A client with durable tokens returns the job it already has.
AcceptedJobs(d) ==
    IF download[d].title \in Refused THEN {}
    ELSE IF Idempotent /\ JobsOf(d) # {}
    THEN {[jobs |-> job, handle |-> h] : h \in JobsOf(d)}
    ELSE {[jobs |-> [job EXCEPT ![h] = [NoClientJob EXCEPT !.token = d, !.title = download[d].title, !.state = "running",
                                                     !.instance = instance, !.shown = capability # "exact"]],
           handle |-> h] : h \in {k \in FreeHandles : \A j \in FreeHandles : k <= j}}

\* What the client shows of a job: a legacy client shows no token, only a
\* client with idempotent tokens shows control facts.
StatusOf(h) ==
    [handle |-> h, token |-> IF Exact THEN job[h].token ELSE 0,
     state |-> job[h].state, control |-> Idempotent, revision |-> job[h].revision, life |-> job[h].life]

\* A job deleted in the client leaves its inventory.
Inventory == {StatusOf(h) : h \in {k \in Handles : /\ job[k].state \notin {"none", "removed"}
                                                   /\ job[k].shown /\ job[k].instance = instance}}

NoStatus == [handle |-> 0, token |-> 0, state |-> "", control |-> FALSE, revision |-> 0, life |-> "running"]

\* Mutant: a row with exact correlation falls back to the release's name.
MatchStatusByName(d, r, statuses) ==
    LET byHandle == {st \in statuses : r.handle # 0 /\ st.handle = r.handle}
        byName == {st \in statuses : job[st.handle].title = r.title}
    IN  IF byHandle # {} THEN byHandle ELSE IF Cardinality(byName) = 1 THEN byName ELSE {}

\* matchStatus: exact rows by their token alone, manual rows by token or
\* handle, other rows by handle and then by a unique name.
MatchStatus(d, r, statuses) ==
    LET byToken == {st \in statuses : st.token = d}
        byHandle == {st \in statuses : r.handle # 0 /\ st.handle = r.handle}
        byName == {st \in statuses : job[st.handle].title = r.title}
        manual == byToken \cup {st \in byHandle : st.token = 0}
        Unique(s) == IF Cardinality(s) = 1 THEN s ELSE {}
        conflict == \E st \in byToken : r.handle # 0 /\ st.handle # r.handle
    IN  IF Exact \/ r.kind = "manual"
        THEN IF conflict THEN {} ELSE Unique(IF Exact THEN byToken ELSE manual)
        ELSE IF byHandle # {} THEN byHandle ELSE Unique(byName)

(* An automatic grab *)

AlreadyInFlight(t) == \E d \in ListDownloadReservations : download[d].title = t
DeliveredAwaitingImport(t) == ListRetainedFailedDownloads(t) # {}

\* The checks before the locks; the rows are read again by Allocate.
GrabChecks(d, t) ==
    /\ download[d] = NoGrab /\ grabber[d].pc = "idle"
    /\ t \notin blocklist
    /\ ~AlreadyInFlight(t) /\ ~DeliveredAwaitingImport(t)
    /\ grabber' = [grabber EXCEPT ![d] = [pc |-> "checked", title |-> t, seen |-> ListDownloadReservations]]
    /\ UNCHANGED <<capability, download, call, observer, blocklist, pinned, clientVars, subFaults>>

\* Mutant: the reservations read before the locks decide.
OverlapAsSeen(d) == {k \in grabber[d].seen : download[k].kind = "auto"}

\* Every automatic grab here wants the same thing; a manual copy has a want of
\* its own and overlaps only by its release.
Overlap(d) ==
    {k \in ListDownloadReservations : download[k].kind = "auto" \/ download[k].title = grabber[d].title}

\* Under the target and storage locks: an overlapping row is returned, or the
\* row is inserted with its token, payload and phase in one statement.
Allocate(d) ==
    /\ grabber[d].pc = "checked"
    /\ \/ /\ Overlap(d) # {}
          /\ grabber' = [grabber EXCEPT ![d] = NoGrabber]
          /\ UNCHANGED download
       \/ /\ Overlap(d) = {}
          /\ download' = [download EXCEPT ![d] = [NoGrab EXCEPT !.kind = "auto", !.title = grabber[d].title,
                                                     !.phase = "submitting", !.state = "grabbed"]]
          /\ grabber' = [grabber EXCEPT ![d].pc = "inserted"]
    /\ UNCHANGED <<capability, call, observer, blocklist, pinned, clientVars, subFaults>>

AutomaticSubmissionPending(r) ==
    /\ r.kind = "auto" /\ r.phase \in {"submitting", "uncertain"}
    /\ r.parked = "no" /\ ~r.superseded /\ r.state \notin {"failed", "imported"}

Send(d, who) == call' = [call EXCEPT ![d] = [NoSubmission EXCEPT !.pc = "send", !.by = who]]

\* The lock is taken and the row read again.
Submit(d) ==
    /\ grabber[d].pc = "inserted" /\ ~Locked(d)
    /\ IF AutomaticSubmissionPending(download[d]) THEN Send(d, "grab") ELSE UNCHANGED call
    /\ grabber' = [grabber EXCEPT ![d] = NoGrabber]
    /\ UNCHANGED <<capability, download, observer, blocklist, pinned, clientVars, subFaults>>

(* The client's answer to Add *)

\* The client takes the request, refuses it for good, or the answer is lost:
\* before the request arrived, after it was taken, or with the request still
\* on its way.
AddAnswered(d) ==
    /\ call[d].pc = "send"
    /\ \/ \E a \in AcceptedJobs(d) :
            /\ job' = a.jobs
            /\ \/ /\ call' = [call EXCEPT ![d].pc = "answer", ![d].answer = "accepted",
                                          ![d].handle = IF capability = "exact" THEN 0 ELSE a.handle]
                  /\ UNCHANGED subFaults
               \/ /\ subFaults < MaxSubFaults
                  /\ subFaults' = subFaults + 1
                  /\ call' = [call EXCEPT ![d].pc = "answer", ![d].answer = "error"]
            /\ UNCHANGED wire
       \/ /\ download[d].title \in Refused
          /\ call' = [call EXCEPT ![d].pc = "answer", ![d].answer = "refused"]
          /\ UNCHANGED <<job, wire, subFaults>>
       \/ /\ subFaults < MaxSubFaults
          /\ subFaults' = subFaults + 1
          /\ call' = [call EXCEPT ![d].pc = "answer", ![d].answer = "error"]
          /\ wire' \in {wire, wire \cup {d}}
          /\ UNCHANGED job
    /\ UNCHANGED <<capability, download, grabber, observer, blocklist, pinned, instance>>

\* A request that outlived its caller arrives.
AddArrivesLate(d) ==
    /\ d \in wire
    /\ \E a \in AcceptedJobs(d) : job' = a.jobs
    /\ wire' = wire \ {d}
    /\ UNCHANGED <<capability, download, grabber, call, observer, blocklist, pinned, instance, subFaults>>

\* The receipt of an accepted Add; the acknowledgement that cannot be saved
\* leaves the row uncertain.
Accepted(r, h) ==
    LET saved == IF h = 0 THEN RecordHandlelessSubmission(r)
                 ELSE IF r.kind = "manual" THEN {CommitManualSubmission(r, h)} ELSE RecordDownloadSubmission(r, h)
    IN  IF saved # {} THEN CHOOSE s \in saved : TRUE ELSE SetSubmissionPhase(r, "uncertain")

\* The end of grab, of retryAutomaticSubmission and of dispatchManualRequest.
\* The retry leaves the phase of a row it could not submit.
AddReturns(d) ==
    /\ call[d].pc = "answer"
    /\ download' = [download EXCEPT ![d] =
         CASE call[d].answer = "accepted" -> Accepted(@, call[d].handle)
           [] call[d].answer = "refused" -> RejectDownloadSubmission(@)
           [] OTHER -> IF call[d].by = "retry" THEN @
                       ELSE UpdateDownloadState(SetSubmissionPhase(@, "uncertain"), "grabbed")]
    /\ call' = [call EXCEPT ![d] = NoSubmission]
    /\ UNCHANGED <<capability, grabber, observer, blocklist, pinned, clientVars, subFaults>>

(* Retries *)

\* Mutant: a request without an idempotent token is replayed.
RetryableAnyToken(r) == AutomaticSubmissionPending(r)

AutomaticSubmissionRetryable(r) == Idempotent /\ AutomaticSubmissionPending(r)

RetryAutomaticSubmission(d) ==
    \/ /\ download[d].title \in blocklist
       /\ download' = [download EXCEPT ![d] = RejectDownloadSubmission(@)]
       /\ UNCHANGED call
    \/ /\ download[d].title \notin blocklist
       /\ Send(d, "retry")
       /\ UNCHANGED download

\* The row is read again under the lock, which may be long after it was listed.
ProcessRunnerSubmissionRetries(d) ==
    /\ AutomaticSubmissionRetryable(download[d]) /\ ~Locked(d)
    /\ RetryAutomaticSubmission(d)
    /\ UNCHANGED <<capability, grabber, observer, blocklist, pinned, clientVars, subFaults>>

(* Manual copies *)

\* GrabManual: the copy, the row and the request record in one transaction.
\* A person may override the blocklist.
InsertManualAdditionalDownload(d, t) ==
    /\ download[d] = NoGrab /\ grabber[d].pc = "idle"
    /\ t \notin blocklist
    /\ download' = [download EXCEPT ![d] = [NoGrab EXCEPT !.kind = "manual", !.title = t, !.phase = "pending", !.state = "grabbed"]]
    /\ UNCHANGED <<capability, grabber, call, observer, blocklist, pinned, clientVars, subFaults>>

DispatchManualRequest(d) ==
    /\ download' = [download EXCEPT ![d] = SetSubmissionPhase(@, "submitting")]
    /\ Send(d, "manual")

\* resumeManualRequest, called by the request, by its repetition and by the
\* manual admission worker.
ResumeManualRequest(d) ==
    LET r == download[d]
        matched == MatchStatus(d, r, Inventory)
        Adopt == \E st \in matched : download' = [download EXCEPT ![d] = CommitManualSubmission(@, st.handle)]
    IN  /\ r.kind = "manual" /\ ~Locked(d)
        /\ r.phase # "rejected" /\ r.state = "grabbed"
        /\ r.parked = "no" /\ ~r.superseded
        /\ ~(r.phase = "submitted" /\ r.handle # 0)
        /\ \/ r.phase = "submitted" /\ Exact /\ Adopt /\ UNCHANGED call
           \/ /\ r.phase \in {"submitting", "uncertain"} /\ ~Idempotent
              /\ Adopt /\ UNCHANGED call
           \/ /\ r.phase = "pending" /\ r.title \in blocklist
              /\ download' = [download EXCEPT ![d] = RejectDownloadSubmission(@)]
              /\ UNCHANGED call
           \/ /\ \/ r.phase = "pending" /\ r.title \notin blocklist
                 \/ r.phase \in {"submitting", "uncertain"} /\ Idempotent
              /\ DispatchManualRequest(d)
        /\ UNCHANGED <<capability, grabber, observer, blocklist, pinned, clientVars, subFaults>>

(* Observation *)

Watch(p, source, d, st) ==
    observer' = [observer EXCEPT ![p] = [pc |-> "seen", source |-> source, of |-> d, st |-> {st}]]

\* RefreshQueue for one of its rows: the rows, then the inventory, are read
\* before the row's lock is taken.
PollSees(d) ==
    /\ observer["poll"].pc = "idle"
    /\ d \in ListActiveDownloads
    /\ \/ \E st \in MatchStatus(d, download[d], Inventory) : Watch("poll", "poll", d, st)
       \/ /\ Idempotent /\ MatchStatus(d, download[d], Inventory) = {}
          /\ Watch("poll", "admission", d, NoStatus)
    /\ UNCHANGED <<capability, download, grabber, call, blocklist, pinned, clientVars, subFaults>>

\* handleEvent: the row is found by its handle; a deletion is pushed too.
HandleEvent(d, h) ==
    /\ observer["push"].pc = "idle"
    /\ d \in ListActiveDownloads
    /\ download[d].handle = h /\ job[h].state # "none"
    /\ Watch("push", "push", d, StatusOf(h))
    /\ UNCHANGED <<capability, download, grabber, call, blocklist, pinned, clientVars, subFaults>>

\* flushPendingProgress: an observation without control facts.
FlushPendingProgress(d) ==
    /\ observer["push"].pc = "idle"
    /\ download[d].state = "downloading"
    /\ Watch("push", "flush", d, [NoStatus EXCEPT !.handle = download[d].handle, !.state = "running"])
    /\ UNCHANGED <<capability, download, grabber, call, blocklist, pinned, clientVars, subFaults>>

\* RunnerFailureNeedsCleanup: the client still owns unresolved bytes.
RunnerFailureNeedsCleanup(receipt) == receipt.custody = "runner_owned"

\* What the receipt, or its absence, makes of an observation: the row, the
\* status to go on with, and whether the observation is held.
Held(r, st) == [row |-> r, st |-> st, hold |-> TRUE]
GoOn(r, st) == [row |-> r, st |-> st, hold |-> FALSE]

NoReceipt(r, st) ==
    IF \/ r.kind # "manual" /\ r.phase \in {"submitting", "uncertain"}
       \/ r.kind = "manual" \/ st.state \in {"failed", "removed"}
    THEN Held(r, st) ELSE GoOn(r, st)

\* BindRunnerAdmission: the installation is pinned by the first receipt.
BindsAdmission(r, receipt) == pinned \in {0, receipt.instance} /\ r.instance \in {0, receipt.instance}

WithReceipt(r, st, h) ==
    LET receipt == job[h]
        bound == [r EXCEPT !.instance = receipt.instance]
        mine == IF r.handle = 0 THEN RecordDownloadSubmission(bound, h) ELSE {bound}
        own == CHOOSE x \in mine : TRUE
    IN  IF ~BindsAdmission(r, receipt) THEN Held(ParkDownload(r, "held"), st)
        ELSE IF r.handle \notin {0, h} \/ mine = {} THEN Held(ParkDownload(bound, "held"), st)
        ELSE IF receipt.state = "failed" /\ r.kind # "manual" /\ RunnerFailureNeedsCleanup(receipt)
             THEN Held(UpdateDownloadState(own, "awaiting_import"), st)
        ELSE IF receipt.state = "removed" /\ receipt.custody = "unknown" THEN Held(ParkDownload(own, "held"), st)
        ELSE IF receipt.state \in {"failed", "removed"} THEN GoOn(own, [st EXCEPT !.state = receipt.state])
        ELSE IF receipt.state = "completed" \/ st.state \in {"failed", "removed"} THEN Held(own, st)
        ELSE GoOn(own, st)

\* authoritativeRunnerObservation: only the exact token settles an outcome.
\* A lookup that fails, or is not due, counts as no receipt.
AuthoritativeRunnerObservation(d, r, st) ==
    {NoReceipt(r, st)} \cup {WithReceipt(r, st, h) : h \in JobsOf(d)}

NeedsReceipt(source, st) == Idempotent /\ (source = "admission" \/ st.state \in {"failed", "removed", "completed"})

Ends(p) == observer' = [observer EXCEPT ![p] = NotObserving]

\* reconcileDownload takes the lock, settles the outcome and marks the row
\* submitted; an admission poll without a settled outcome ends here, and so
\* does every observation of a row that is gone.
ReconcileDownload(p) ==
    LET d == observer[p].of
    IN  /\ observer[p].pc = "seen" /\ ~Locked(d)
        /\ \E st \in observer[p].st :
           \E o \in IF NeedsReceipt(observer[p].source, st)
                    THEN AuthoritativeRunnerObservation(d, download[d], st) ELSE {GoOn(download[d], st)} :
             LET stop == \/ o.hold \/ o.st.state = ""
                         \/ o.row.parked = "cancelled" \/ o.row.superseded
             IN  IF download[d] = DeletedRow THEN Ends(p) /\ UNCHANGED <<download, pinned>>
                 ELSE /\ download' = [download EXCEPT ![d] =
                            IF ~stop /\ o.row.phase \in {"uncertain", "submitting"}
                            THEN SetSubmissionPhase(o.row, "submitted") ELSE o.row]
                      /\ pinned' = IF o.row.instance # 0 THEN o.row.instance ELSE pinned
                      /\ IF stop THEN Ends(p)
                         ELSE observer' = [observer EXCEPT ![p].pc = "bind", ![p].st = {o.st}]
        /\ UNCHANGED <<capability, grabber, call, blocklist, clientVars, subFaults>>

\* The handle of the first status that carries the row's token.
BindHandle(d, r, st) ==
    IF r.handle # 0 \/ st.handle = 0 THEN {r}
    ELSE IF st.token # d THEN {SetDownloadHandle(r, st.handle)}
    ELSE IF r.kind = "manual" THEN {CommitManualSubmission(r, st.handle)} ELSE RecordDownloadSubmission(r, st.handle)

AcceptControlFacts(r, st) ==
    LET heldNow == st.life = "held"
        stale == r.revision # 0 /\ (st.revision < r.revision \/ (st.revision = r.revision /\ r.held))
        taken == [r EXCEPT !.revision = st.revision, !.held = heldNow, !.state = IF heldNow THEN "downloading" ELSE @]
    IN  IF r.state \in {"failed", "imported"} \/ st.revision = 0 \/ stale THEN {}
        ELSE IF r.held /\ ~heldNow /\ st.life # "running" THEN {}
        ELSE {[row |-> taken, st |-> IF heldNow THEN [st EXCEPT !.state = "running"] ELSE st]}

\* acceptDownloadControl: only a newer running snapshot lifts a hold, a held
\* job is shown as still downloading, and absent facts release nothing.
AcceptDownloadControl(r, st) ==
    IF st.control THEN AcceptControlFacts(r, st)
    ELSE IF r.held THEN {} ELSE {[row |-> r, st |-> st]}

\* A failure blocklists the release unless it is not to blame; the new search
\* it starts is a GrabChecks of another row.
HandleFailure(r) == {[row |-> UpdateDownloadState(r, "failed"), blame |-> b] : b \in BOOLEAN}

\* A deletion in the client is an instruction: no blocklist, no new search.
HandleRemoved(r) == {[row |-> UpdateDownloadState(r, "failed"), blame |-> FALSE]}

\* Progress moves no row backward, an ended row stays.
Applied(r, st) ==
    LET same == {[row |-> r, blame |-> FALSE]}
        ended == r.state \in {"imported", "failed"}
        early == r.state \in {"grabbed", "downloading"}
    IN  IF st.state = "running" /\ early THEN {[row |-> UpdateDownloadState(r, "downloading"), blame |-> FALSE]}
        ELSE IF st.state = "failed" /\ ~ended THEN HandleFailure(r)
        ELSE IF st.state = "removed" /\ ~ended THEN HandleRemoved(r)
        ELSE IF st.state = "completed" /\ ~DeliveryExpected /\ early
             THEN {[row |-> UpdateDownloadState(r, "downloaded"), blame |-> FALSE]}
        ELSE same

\* The rest of reconcileDownload: the handle, the control facts, the state.
\* A row deleted meanwhile is not written.
ReconcileApplies(p) ==
    LET d == observer[p].of
    IN  /\ observer[p].pc = "bind"
        /\ \E st \in observer[p].st :
             LET bound == BindHandle(d, download[d], st)
                 controlled == UNION {AcceptDownloadControl(r, st) : r \in bound}
                 results == UNION {Applied(c.row, c.st) : c \in controlled}
             IN  \/ /\ results = {} \/ download[d] = DeletedRow
                    /\ download' = [download EXCEPT ![d] = IF bound = {} \/ @ = DeletedRow THEN @ ELSE CHOOSE r \in bound : TRUE]
                    /\ UNCHANGED blocklist
                 \/ \E x \in results :
                      /\ download[d] # DeletedRow
                      /\ download' = [download EXCEPT ![d] = x.row]
                      /\ blocklist' = IF x.blame THEN blocklist \cup {download[d].title} ELSE blocklist
        /\ Ends(p)
        /\ UNCHANGED <<capability, grabber, call, pinned, clientVars, subFaults>>

(* Removal from Activity *)

\* An intent that was not submitted is closed; other rows are parked, their
\* job removed from the client first when that was asked and confirmed.
RemoveDownload(d) ==
    /\ download[d].phase \in {"pending", "submitting", "uncertain", "submitted"} /\ ~Locked(d)
    /\ IF download[d].phase = "pending"
       THEN /\ download' = [download EXCEPT ![d] = [@ EXCEPT !.state = "failed", !.phase = "rejected", !.superseded = TRUE]]
            /\ UNCHANGED job
       ELSE /\ download' = [download EXCEPT ![d] = ParkDownload(@, "cancelled")]
            /\ job' \in IF download[d].handle = 0 THEN {job}
                        ELSE {job, [job EXCEPT ![download[d].handle].state = "removed", ![download[d].handle].custody = "unknown"]}
    /\ UNCHANGED <<capability, grabber, call, observer, blocklist, pinned, instance, wire, subFaults>>

\* A row in no such phase and not parked is deleted without the lock.
DeleteDownload(d) ==
    /\ download[d].phase = "rejected" /\ download[d].parked = "no"
    /\ download' = [download EXCEPT ![d] = DeletedRow]
    /\ UNCHANGED <<capability, grabber, call, observer, blocklist, pinned, clientVars, subFaults>>

(* The client, the importer and restarts *)

\* A job ends; the bytes of a failed one may still be with the client.
JobEnds(h) ==
    /\ job[h].state = "running" /\ job[h].life = "running" /\ job[h].instance = instance
    /\ \E s \in {"completed", "failed"} : \E c \in IF Idempotent /\ s = "failed" THEN {"runner_owned", "settled"} ELSE {"none"} :
         job' = [job EXCEPT ![h].state = s, ![h].custody = c,
                            ![h].life = IF s = "failed" THEN "failed" ELSE "succeeded", ![h].revision = @ + 1]
    /\ UNCHANGED <<capability, download, grabber, call, observer, blocklist, pinned, instance, wire, subFaults>>

JobCleaned(h) ==
    /\ job[h].custody = "runner_owned"
    /\ job' = [job EXCEPT ![h].custody = "settled"]
    /\ UNCHANGED <<capability, download, grabber, call, observer, blocklist, pinned, instance, wire, subFaults>>

\* A capacity hold, and its release: revisions order control facts.
JobControl(h) ==
    /\ Idempotent /\ job[h].state = "running" /\ job[h].revision < MaxRevision
    /\ job' = [job EXCEPT ![h].revision = @ + 1, ![h].life = IF @ = "held" THEN "running" ELSE "held"]
    /\ UNCHANGED <<capability, download, grabber, call, observer, blocklist, pinned, instance, wire, subFaults>>

JobShown(h) ==
    /\ job[h].state # "none" /\ ~job[h].shown
    /\ job' = [job EXCEPT ![h].shown = TRUE]
    /\ UNCHANGED <<capability, download, grabber, call, observer, blocklist, pinned, instance, wire, subFaults>>

\* Someone deletes a job in the client, or the client is installed anew and
\* forgets its jobs, its tokens and the requests it was still working on.
ClientFault ==
    /\ subFaults < MaxSubFaults
    /\ subFaults' = subFaults + 1
    /\ \/ /\ \E h \in Handles : /\ job[h].state = "running" /\ job[h].instance = instance
                                /\ job' = [job EXCEPT ![h].state = "removed", ![h].custody = "deleted_by_runner"]
          /\ UNCHANGED <<instance, wire>>
       \/ /\ instance = 1 /\ Idempotent
          /\ instance' = 2 /\ wire' = {}
          /\ UNCHANGED job
    /\ UNCHANGED <<capability, download, grabber, call, observer, blocklist, pinned>>

\* A job of the same name that was not grabbed here.
ForeignJob(t) == [NoClientJob EXCEPT !.title = t, !.state = "running", !.instance = 1, !.shown = TRUE]

\* The import of a completed download, in the import and delivery modules.
ImportSettles(d) ==
    /\ ~Locked(d) /\ ~download[d].held
    /\ \/ download[d].state = "downloaded"
       \/ Idempotent /\ download[d].state \in {"grabbed", "downloading"} /\ \E h \in JobsOf(d) : job[h].state = "completed"
    /\ \E ok \in BOOLEAN :
         download' = [download EXCEPT ![d] = [UpdateDownloadState(@, IF ok THEN "imported" ELSE "failed") EXCEPT !.retained = ~ok]]
    /\ UNCHANGED <<capability, grabber, call, observer, blocklist, pinned, clientVars, subFaults>>

\* A restart: locks, calls and observations are gone, a request may still be
\* on its way.
SubmissionCrash ==
    /\ subFaults < MaxSubFaults
    /\ subFaults' = subFaults + 1
    /\ grabber' = [d \in Grabs |-> NoGrabber]
    /\ call' = [d \in Grabs |-> NoSubmission]
    /\ observer' = [p \in Observers |-> NotObserving]
    /\ wire' \in {wire, wire \cup {d \in Grabs : call[d].pc = "send"}}
    /\ UNCHANGED <<capability, download, blocklist, pinned, job, instance>>

SubInit ==
    /\ capability \in {"idempotent", "exact", "legacy"}
    /\ download \in [Grabs -> {NoGrab, DeletedRow}]
    /\ grabber = [d \in Grabs |-> NoGrabber]
    /\ call = [d \in Grabs |-> NoSubmission]
    /\ observer = [p \in Observers |-> NotObserving]
    /\ blocklist = {}
    /\ pinned = 0 /\ instance = 1
    /\ \E others \in SUBSET {MaxHandles} : \E t \in Titles \ Refused :
         job = [h \in Handles |-> IF h \in others THEN ForeignJob(t) ELSE NoClientJob]
    /\ wire = {} /\ subFaults \in 0 .. MaxSubFaults

SubNext ==
    \/ \E d \in Grabs :
         \/ \E t \in Titles : GrabChecks(d, t) \/ InsertManualAdditionalDownload(d, t)
         \/ Allocate(d) \/ Submit(d) \/ AddAnswered(d) \/ AddArrivesLate(d) \/ AddReturns(d)
         \/ ProcessRunnerSubmissionRetries(d) \/ ResumeManualRequest(d)
         \/ PollSees(d) \/ FlushPendingProgress(d) \/ \E h \in Handles : HandleEvent(d, h)
         \/ RemoveDownload(d) \/ DeleteDownload(d) \/ ImportSettles(d)
    \/ \E p \in Observers : ReconcileDownload(p) \/ ReconcileApplies(p)
    \/ \E h \in Handles : JobEnds(h) \/ JobCleaned(h) \/ JobControl(h) \/ JobShown(h)
    \/ ClientFault \/ SubmissionCrash

SubSpec == SubInit /\ [][SubNext]_subVars

(* Properties *)

\* One request, one job: no answer that was lost, no restart and no retry makes
\* an installation of the client run the same transfer twice
\* (retryAutomaticSubmission, resumeManualRequest).
OneJobPerRequest == \A d \in Grabs : Cardinality(JobsOf(d)) <= 1

\* Two passes that want the same thing do not both download it.
OneDownloadPerWant ==
    \A d, k \in ListActiveDownloads : download[d].kind = "auto" /\ download[k].kind = "auto" => d = k

\* With exact correlation a row ends only once a job of its own token runs no
\* more: a job of the same name or one of an earlier installation settles
\* nothing.  Which of the ends it was is not compared.
OutcomeIsItsOwn ==
    Exact => \A d \in Grabs :
      (download[d].state \in {"failed", "downloaded"} /\ download[d].phase # "rejected" /\ ~download[d].retained) =>
        \E h \in Handles : job[h].token = d /\ job[h].state # "running"

=============================================================================
