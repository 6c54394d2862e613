----------------------------- MODULE SeasonPlan -----------------------------
(***************************************************************************)
(* Acquisition plans: which downloads provide the episodes of one season,   *)
(* how their intents are sent, and who may still deliver an episode         *)
(* (internal/app/acquisition/season_execution.go, season_discovery.go and   *)
(* internal/infra/sqlite/acquisition_plans.go).                             *)
(*                                                                          *)
(* A plan reserves every episode it provides for for one row, a pack or a   *)
(* single.  Dispatch (a job worker or the coordinator, under                *)
(* planDispatchMu) sends the pending rows; the coordinator settles plans in *)
(* transactions that take NO row lock; the operator, the client poll and    *)
(* imports change rows meanwhile.  What is compared and chosen is           *)
(* SeasonSearch and acquisitionplan; here an admission is any allocation.   *)
(***************************************************************************)
EXTENDS Naturals, FiniteSets

CONSTANTS PlanEps,     \* episodes of the season
          PlanRows,    \* ids of downloads rows
          PlanIds,     \* ids of acquisition plans
          LegacyClient,\* the client has no exact transfer correlation
          MaxPlanEvents    \* bound: grabs, removals, resolutions, refusals, losses, events

\* A season has finitely many episodes; 0 is no row.
ASSUME SeasonPlanAssumption == IsFiniteSet(PlanEps) /\ IsFiniteSet(PlanRows) /\ PlanRows \subseteq Nat \ {0}

VARIABLES
  plans,     \* plan -> state of its acquisition_plans row
  aged,      \* plans admitted forty-eight hours ago or more
  prow,      \* row -> its downloads row
  atClient,  \* rows whose submission the client received
  listed,    \* rows the client still reports
  disp,      \* the holder of planDispatchMu and where it is
  coord,     \* the coordinator: the plan it reads and what it read
  imp,       \* the import holding the title's target lock
  onDisk,    \* episodes in the library
  planSearch,    \* a season comparison is queued
  waived,    \* rows whose duplicate risk was accepted
  planEvents     \* how many of the bounded events happened

planVars == <<plans, aged, prow, atClient, listed, disp, coord, imp, onDisk, planSearch, waived, planEvents>>

LivePlan == {"admitted", "dispatching", "active"}
OpenPlan == LivePlan \cup {"cancel_requested"}
Moving == {"planned", "grabbed", "downloading", "downloaded", "awaiting_import", "importing"}

NoPlanRow == [st |-> "none", ph |-> "", plan |-> 0, pack |-> FALSE, allow |-> {}, res |-> {},
              sup |-> FALSE, park |-> ""]
NoDispatch == [pc |-> "idle", by |-> "", plan |-> 0, rows |-> {}, row |-> 0, out |-> ""]
NoCoord == [pc |-> "idle", plan |-> 0, terminal |-> FALSE, parked |-> FALSE, cancel |-> FALSE]
NoPlanImport == [row |-> 0, allowed |-> {}, pc |-> "idle"]

UnusedRow(r) == prow[r].st = "none"
PlanDownloads(p) == {r \in PlanRows : prow[r].plan = p /\ ~UnusedRow(r)}

\* Mutant: an intent that is not sent yet reserves nothing.
ReservationOfSent(r) ==
  /\ ~prow[r].sup
  /\ prow[r].st \in Moving \ {"planned"} \/ prow[r].ph \in {"submitting", "uncertain"} \/ prow[r].park # ""

\* ListDownloadReservations, and the custody test of AdmitAcquisitionPlan.
Reservation(r) ==
  /\ ~prow[r].sup
  /\ prow[r].st \in Moving \/ prow[r].ph \in {"submitting", "uncertain"} \/ prow[r].park # ""
ReservedEpisodes(e) == {r \in PlanRows : Reservation(r) /\ e \in prow[r].res}

\* The per-download lock is held by the dispatch of that row, the target lock
\* by an import.
RowFree(r) == disp.row # r
TargetFree == imp.row = 0

Event == planEvents < MaxPlanEvents /\ planEvents' = planEvents + 1

PlanTypeOK ==
  /\ plans \in [PlanIds -> OpenPlan \cup {"none", "completed", "settled_with_reservations", "cancelled", "needs_replan"}]
  /\ \A r \in PlanRows : prow[r].st \in Moving \cup {"none", "imported", "failed"} /\ prow[r].res \subseteq PlanEps
  /\ atClient \subseteq PlanRows /\ listed \subseteq atClient /\ waived \subseteq PlanRows
  /\ onDisk \subseteq PlanEps /\ planSearch \in BOOLEAN

---------------------------------------------------------------------------
(* Admission.                                                              *)

Closed(row) == [row EXCEPT !.st = "failed", !.ph = "rejected", !.sup = TRUE, !.res = {}]
Parked(row, why) == [row EXCEPT !.park = IF @ = "" THEN why ELSE @]

\* A row becomes imported or failed; the trigger on the table releases its
\* parking, unless an operator cancelled it or its submission is unproved.
Ended(row, st) ==
  [row EXCEPT !.st = st,
              !.park = IF @ # "operator" /\ row.ph \notin {"submitting", "uncertain"} THEN "" ELSE @]

Intent(p, pack, eps) ==
  [NoPlanRow EXCEPT !.st = "planned", !.ph = "pending", !.plan = p, !.pack = pack,
                    !.allow = eps, !.res = eps]

\* What acquisitionplan.Build may choose for these episodes: at most one pack,
\* which provides some of them, and a single for each of some others.
Build(eps) ==
  (UNION {{{<<TRUE, x>> : x \in {packed} \ {{}}} \cup {<<FALSE, {e}>> : e \in single} :
             single \in SUBSET (eps \ packed)} : packed \in SUBSET eps}) \ {{}}

\* AdmitAcquisitionPlan, in one transaction under the title's target lock:
\* no open plan holds the scope and no reservation the episodes.
AdmitAcquisitionPlan(p) ==
  /\ planSearch /\ TargetFree
  /\ plans[p] = "none"
  /\ \A q \in PlanIds : plans[q] \notin OpenPlan
  /\ \E parts \in Build({e \in PlanEps \ onDisk : ReservedEpisodes(e) = {}}) :
       LET rows == {r \in PlanRows : UnusedRow(r) /\ Cardinality({q \in PlanRows : UnusedRow(q) /\ q < r}) < Cardinality(parts)}
       IN /\ Cardinality(rows) = Cardinality(parts)
          /\ LET f == CHOOSE f \in [rows -> parts] : \A a, b \in rows : a # b => f[a] # f[b]
             IN prow' = [r \in PlanRows |-> IF r \in rows THEN Intent(p, f[r][1], f[r][2]) ELSE prow[r]]
  /\ plans' = [plans EXCEPT ![p] = "admitted"]
  /\ planSearch' = FALSE
  /\ UNCHANGED <<aged, atClient, listed, disp, coord, imp, onDisk, waived, planEvents>>

---------------------------------------------------------------------------
(* Settlement: one transaction that reads each row again.                   *)

\* Mutant: the phase as dispatch last saw it, the row it is working on is pending.
SettledRowAsRead(r) ==
  IF prow[r].ph = "pending" \/ disp.row = r THEN Closed(prow[r])
  ELSE IF prow[r].st \notin {"imported", "failed"} /\ ~prow[r].sup THEN Parked(prow[r], "settled")
  ELSE prow[r]

\* Unsent intents are closed; what may have been sent keeps its custody.
SettledRow(r) ==
  IF prow[r].ph = "pending" THEN Closed(prow[r])
  ELSE IF prow[r].st \notin {"imported", "failed"} /\ ~prow[r].sup THEN Parked(prow[r], "settled")
  ELSE prow[r]

SettleSeasonPlan(p, state) ==
  /\ prow' = [r \in PlanRows |-> IF r \in PlanDownloads(p) THEN SettledRow(r) ELSE prow[r]]
  /\ plans' = [plans EXCEPT ![p] = IF @ \in OpenPlan THEN state ELSE @]
  /\ planSearch' = (planSearch \/ state # "cancelled")

---------------------------------------------------------------------------
(* dispatchPlan and dispatchPlannedDownload.                                *)

DispatchDone == disp' = NoDispatch

\* Either caller takes planDispatchMu, and reads a live plan's pending rows.
DispatchPlan(p, by) ==
  /\ disp.pc = "idle" /\ plans[p] \in LivePlan
  /\ plans' = [plans EXCEPT ![p] = "dispatching"]
  /\ disp' = [NoDispatch EXCEPT !.pc = "next", !.by = by, !.plan = p,
                !.rows = {r \in PlanDownloads(p) : prow[r].ph = "pending" /\ prow[r].st = "planned"}]

\* The job worker dispatches the plan it admitted.
DispatchAdmitted(p) ==
  /\ plans[p] = "admitted" /\ DispatchPlan(p, "worker")
  /\ UNCHANGED <<aged, prow, atClient, listed, coord, imp, onDisk, planSearch, waived, planEvents>>

\* The client was disabled or reconfigured, the release is no longer wanted or
\* is blocklisted: the whole plan needs replanning.
DispatchRefused ==
  /\ Event
  /\ disp.pc = "next" /\ disp.rows # {}
  /\ SettleSeasonPlan(disp.plan, "needs_replan")
  /\ DispatchDone
  /\ UNCHANGED <<aged, atClient, listed, coord, imp, onDisk, waived>>

\* An error (the client does not answer) leaves the rest for the coordinator.
DispatchError ==
  /\ Event
  /\ disp.pc = "next" /\ disp.rows # {}
  /\ DispatchDone
  /\ UNCHANGED <<plans, aged, prow, atClient, listed, coord, imp, onDisk, planSearch, waived>>

Dispatchable(r) ==
  /\ prow[r].plan = disp.plan /\ prow[r].st = "planned" /\ prow[r].ph = "pending"
  /\ ~prow[r].sup /\ prow[r].park = ""

SkipRow(r) == [disp EXCEPT !.pc = "next", !.row = 0, !.rows = @ \ {r}]

\* Under the row's lock and then the title's target lock: the row and its plan
\* read again, and refused when an open replacement excludes its source.
CheckPlannedRow(r) ==
  /\ disp.pc = "next" /\ r \in disp.rows /\ TargetFree
  /\ IF Dispatchable(r) /\ plans[disp.plan] \in LivePlan
     THEN \/ disp' = [disp EXCEPT !.pc = "claim", !.row = r] /\ UNCHANGED <<prow, planEvents>>
          \/ /\ Event
             /\ prow' = [prow EXCEPT ![r].st = "failed", ![r].ph = "rejected"]
             /\ DispatchDone
     ELSE disp' = SkipRow(r) /\ UNCHANGED <<prow, planEvents>>
  /\ UNCHANGED <<plans, aged, atClient, listed, coord, imp, onDisk, planSearch, waived>>

\* The capabilities are pinned and the intent is claimed, each only while the
\* row is still pending and its plan live.
ClaimPlannedSubmission ==
  LET r == disp.row
      claimed == Dispatchable(r) /\ plans[disp.plan] \in LivePlan
  IN /\ disp.pc = "claim"
     /\ prow' = IF claimed THEN [prow EXCEPT ![r].st = "grabbed", ![r].ph = "submitting"] ELSE prow
     /\ disp' = IF claimed THEN [disp EXCEPT !.pc = "recheck"] ELSE SkipRow(r)
     /\ UNCHANGED <<plans, aged, atClient, listed, coord, imp, onDisk, planSearch, waived, planEvents>>

\* A plan cancelled or a row parked since the claim is not sent.
RecheckClaim ==
  LET r == disp.row IN
  /\ disp.pc = "recheck"
  /\ disp' = IF /\ prow[r].ph = "submitting" /\ ~prow[r].sup /\ prow[r].park = ""
                /\ plans[disp.plan] \in LivePlan
             THEN [disp EXCEPT !.pc = "send"] ELSE SkipRow(r)
  /\ UNCHANGED <<plans, aged, prow, atClient, listed, coord, imp, onDisk, planSearch, waived, planEvents>>

\* The client's answer; an error may or may not mean that it has the job.
AddPlannedToClient ==
  /\ disp.pc = "send"
  /\ \E got \in BOOLEAN, out \in {"accepted", "handleless", "refused", "error"} :
       /\ out \in {"accepted", "handleless"} => got
       /\ out = "refused" => ~got
       /\ IF out = "accepted" THEN UNCHANGED planEvents ELSE Event
       /\ atClient' = IF got THEN atClient \cup {disp.row} ELSE atClient
       /\ listed' = IF got THEN listed \cup {disp.row} ELSE listed
       /\ disp' = [disp EXCEPT !.pc = "record", !.out = out]
  /\ UNCHANGED <<plans, aged, prow, coord, imp, onDisk, planSearch, waived>>

\* A refusal retires the row unless it was parked meanwhile.
RecordPlannedAnswer ==
  LET r == disp.row
      conflict == disp.out = "refused" /\ prow[r].park # ""
      unproved == disp.out = "error" \/ (disp.out = "handleless" /\ LegacyClient)
  IN /\ disp.pc = "record"
     /\ prow' = [prow EXCEPT ![r] =
          IF conflict THEN @
          ELSE IF disp.out = "refused" THEN [@ EXCEPT !.st = "failed", !.ph = "rejected"]
          ELSE IF unproved THEN [@ EXCEPT !.ph = "uncertain", !.st = "grabbed"]
          ELSE [@ EXCEPT !.ph = "submitted"]]
     /\ disp' = IF conflict THEN NoDispatch ELSE SkipRow(r)
     /\ UNCHANGED <<plans, aged, atClient, listed, coord, imp, onDisk, planSearch, waived, planEvents>>

DispatchEnds ==
  /\ disp.pc = "next" /\ disp.rows = {}
  /\ plans' = [plans EXCEPT ![disp.plan] = IF @ \in LivePlan THEN "active" ELSE @]
  /\ DispatchDone
  /\ UNCHANGED <<aged, prow, atClient, listed, coord, imp, onDisk, planSearch, waived, planEvents>>

---------------------------------------------------------------------------
(* The coordinator.                                                         *)

\* It reads the plan and its rows once, then dispatches, then settles on what
\* it read before the dispatch.  A look that leads to neither changes nothing.
ReconcileReads(p) ==
  LET rows == PlanDownloads(p)
      pending == \E r \in rows : prow[r].ph = "pending"
      active == \E r \in rows : prow[r].st \notin {"imported", "failed"} /\ ~prow[r].sup
      parked == \E r \in rows : prow[r].park # ""
      cancel == plans[p] = "cancel_requested"
      dispatch == pending /\ ~cancel /\ p \notin aged
      settle == (~pending /\ ~active) \/ parked \/ cancel \/ p \in aged
  IN /\ coord.pc = "idle" /\ plans[p] \in OpenPlan
     /\ dispatch \/ settle
     /\ coord' = [pc |-> IF dispatch THEN "dispatch" ELSE "settle", plan |-> p,
                  terminal |-> ~pending /\ ~active, parked |-> parked, cancel |-> cancel]
     /\ UNCHANGED <<plans, aged, prow, atClient, listed, disp, imp, onDisk, planSearch, waived, planEvents>>

ReconcileDispatches ==
  /\ coord.pc = "dispatch" /\ disp.pc = "idle"
  /\ coord' = [coord EXCEPT !.pc = "settle"]
  /\ IF plans[coord.plan] \in LivePlan
     THEN DispatchPlan(coord.plan, "coordinator")
     ELSE UNCHANGED <<plans, disp>>
  /\ UNCHANGED <<aged, prow, atClient, listed, imp, onDisk, planSearch, waived, planEvents>>

ReconcileSettles ==
  /\ coord.pc = "settle" /\ disp.by # "coordinator"
  /\ IF coord.terminal \/ coord.parked \/ coord.cancel \/ coord.plan \in aged
     THEN SettleSeasonPlan(coord.plan, IF coord.cancel THEN "cancelled"
                                       ELSE IF coord.terminal THEN "completed"
                                       ELSE "settled_with_reservations")
     ELSE UNCHANGED <<plans, prow, planSearch>>
  /\ coord' = NoCoord
  /\ UNCHANGED <<aged, atClient, listed, disp, imp, onDisk, waived, planEvents>>

---------------------------------------------------------------------------
(* The client, as the poll and the reconciliation of transfers see it       *)
(* (Submission), under the row's lock.                                      *)

AcceptObserved(r) ==
  /\ RowFree(r) /\ r \in listed /\ prow[r].ph \in {"submitting", "uncertain"} /\ ~prow[r].sup
  /\ prow' = [prow EXCEPT ![r].ph = "submitted"]
  /\ UNCHANGED <<plans, aged, atClient, listed, disp, coord, imp, onDisk, planSearch, waived, planEvents>>

\* handleFailure asks for a fresh comparison.
PlanHandleFailure(r) ==
  /\ RowFree(r) /\ r \in listed /\ prow[r].ph = "submitted" /\ prow[r].st = "grabbed" /\ ~prow[r].sup
  /\ prow' = [prow EXCEPT ![r] = Ended(@, "failed")]
  /\ listed' = listed \ {r}
  /\ planSearch' = TRUE
  /\ UNCHANGED <<plans, aged, atClient, disp, coord, imp, onDisk, waived, planEvents>>

\* A job removed in the client: an operator's cancellation, not a failure.
PlanHandleRemoved(r) ==
  /\ Event
  /\ RowFree(r) /\ r \in listed /\ prow[r].ph = "submitted" /\ prow[r].st = "grabbed" /\ ~prow[r].sup
  /\ prow' = [prow EXCEPT ![r] = Ended(IF @.plan = 0 THEN @ ELSE [@ EXCEPT !.park = "operator"], "failed")]
  /\ plans' = [p \in PlanIds |-> IF p = prow[r].plan /\ plans[p] \in LivePlan THEN "cancel_requested" ELSE plans[p]]
  /\ listed' = listed \ {r}
  /\ UNCHANGED <<aged, atClient, disp, coord, imp, onDisk, planSearch, waived>>

\* The client loses a job it accepted, before it was ever reported.
ClientForgets(r) ==
  /\ Event
  /\ r \in listed /\ prow[r].ph # "submitted"
  /\ listed' = listed \ {r}
  /\ UNCHANGED <<plans, aged, prow, atClient, disp, coord, imp, onDisk, planSearch, waived>>

\* observeUncertain on a client without exact correlation: three complete
\* inventories over half an hour without the release park the row; seven days
\* of them release its episodes, as an accepted duplicate risk.
Absent(r) ==
  /\ LegacyClient /\ RowFree(r) /\ r \notin listed /\ ~prow[r].sup
  /\ prow[r].ph \in {"submitting", "uncertain"}

ObserveUncertainParks(r) ==
  /\ Event
  /\ Absent(r) /\ prow[r].park = ""
  /\ prow' = [prow EXCEPT ![r] = Parked(@, "uncertain")]
  /\ UNCHANGED <<plans, aged, atClient, listed, disp, coord, imp, onDisk, planSearch, waived>>

ReleaseUncertainRisk(r) ==
  /\ Event
  /\ Absent(r) /\ prow[r].park # "operator" /\ prow[r].plan # 0
  /\ prow' = [prow EXCEPT ![r].sup = TRUE, ![r].park = "", ![r].res = {}]
  /\ waived' = waived \cup {r}
  /\ planSearch' = TRUE
  /\ UNCHANGED <<plans, aged, atClient, listed, disp, coord, imp, onDisk>>

---------------------------------------------------------------------------
(* The operator.                                                            *)

CancelPlanOf(r) ==
  plans' = [p \in PlanIds |-> IF p = prow[r].plan /\ plans[p] \in LivePlan THEN "cancel_requested" ELSE plans[p]]

RemovePlanned(r) ==
  /\ Event
  /\ RowFree(r) /\ ~UnusedRow(r) /\ prow[r].plan # 0
  /\ prow' = [prow EXCEPT ![r] = IF @.ph = "pending" THEN Closed(@)
                                 ELSE IF @.sup THEN @ ELSE [@ EXCEPT !.park = "operator"]]
  /\ CancelPlanOf(r)
  /\ UNCHANGED <<aged, atClient, listed, disp, coord, imp, onDisk, planSearch, waived>>

ResolveReservation(r) ==
  /\ Event
  /\ RowFree(r) /\ TargetFree /\ ~UnusedRow(r) /\ ~prow[r].sup
  /\ prow[r].st \notin {"imported", "importing"}
  /\ prow[r].ph = "uncertain" \/ prow[r].park # ""
  /\ prow' = [prow EXCEPT ![r].sup = TRUE, ![r].park = "", ![r].res = {}]
  /\ waived' = waived \cup {r}
  /\ UNCHANGED <<plans, aged, atClient, listed, disp, coord, imp, onDisk, planSearch>>

\* Mutant: an intent that is being sent yields too.
ClosePendingBlind(row) == IF row.ph \in {"pending", "submitting"} THEN Closed(row) ELSE row

\* closePendingForManual: an unsent intent yields to an explicit choice.
ClosePendingForManual(row) == IF row.ph = "pending" /\ row.st = "planned" THEN Closed(row) ELSE row

\* A grab of one episode, under the target lock: pending intents yield, any
\* other reservation wins over the grab.
GrabEpisode(r, e) ==
  LET after == [q \in PlanRows |-> IF q \in ReservedEpisodes(e) /\ prow[q].plan # 0 THEN ClosePendingForManual(prow[q]) ELSE prow[q]]
  IN /\ Event /\ TargetFree /\ UnusedRow(r)
     /\ \A q \in PlanRows : UnusedRow(q) => r <= q
     /\ \A q \in ReservedEpisodes(e) : after[q].sup
     /\ prow' = [after EXCEPT ![r] = [NoPlanRow EXCEPT !.st = "grabbed", !.ph = "submitted", !.allow = {e}, !.res = {e}]]
     /\ atClient' = atClient \cup {r} /\ listed' = listed \cup {r}
     /\ UNCHANGED <<plans, aged, disp, coord, imp, onDisk, planSearch, waived>>

---------------------------------------------------------------------------
(* Imports, which hold the target lock throughout.                          *)

\* effectiveImportAllowlist: a pack may also import an episode whose planned
\* provider failed and that nobody else has reserved since.
EffectiveImportAllowlist(r) ==
  LET row == prow[r]
      failed(q) == /\ prow[q].st = "failed" /\ prow[q].ph \notin {"uncertain", "submitting"}
                   /\ ~prow[q].sup /\ prow[q].park # "operator"
      lost(e) == {q \in PlanDownloads(row.plan) : q # r /\ e \in prow[q].allow /\ failed(q)}
      occupied(e, f) == ReservedEpisodes(e) \ {r, f} # {}
  IN IF row.plan = 0 \/ ~row.pack THEN row.allow
     ELSE row.allow \cup {e \in PlanEps : \E f \in lost(e) : ~occupied(e, f)}

\* The client reports the row complete and its import starts.
ImportStarts(r) ==
  /\ TargetFree /\ RowFree(r) /\ r \in listed
  /\ prow[r].st = "grabbed" /\ prow[r].ph = "submitted" /\ prow[r].park # "operator" /\ ~prow[r].sup
  /\ prow[r].plan # 0 => plans[prow[r].plan] \notin {"cancel_requested", "cancelled"}
  /\ prow' = [prow EXCEPT ![r].st = "importing"]
  /\ imp' = [row |-> r, allowed |-> EffectiveImportAllowlist(r), pc |-> "reserve"]
  /\ UNCHANGED <<plans, aged, atClient, listed, disp, coord, onDisk, planSearch, waived, planEvents>>

\* The pack's reservation is widened to what it will publish.
ImportReserves ==
  /\ imp.pc = "reserve"
  /\ prow' = [prow EXCEPT ![imp.row].res = IF prow[imp.row].sup THEN @ ELSE imp.allowed]
  /\ imp' = [imp EXCEPT !.pc = "publish"]
  /\ UNCHANGED <<plans, aged, atClient, listed, disp, coord, onDisk, planSearch, waived, planEvents>>

ImportPublishes ==
  /\ imp.pc = "publish"
  /\ onDisk' = onDisk \cup imp.allowed
  /\ prow' = [prow EXCEPT ![imp.row] = Ended(@, "imported")]
  /\ imp' = NoPlanImport
  /\ UNCHANGED <<plans, aged, atClient, listed, disp, coord, planSearch, waived, planEvents>>

---------------------------------------------------------------------------

PlanAges(p) ==
  /\ plans[p] \in OpenPlan /\ p \notin aged
  /\ aged' = aged \cup {p}
  /\ UNCHANGED <<plans, prow, atClient, listed, disp, coord, imp, onDisk, planSearch, waived, planEvents>>

\* A restart; RecoverSeasonSubmissions makes every claimed send uncertain and
\* an import that was published or not starts again.
RecoverSeasonSubmissions ==
  /\ Event
  /\ prow' = [r \in PlanRows |->
       LET x == IF prow[r].ph = "submitting" THEN [prow[r] EXCEPT !.ph = "uncertain"] ELSE prow[r]
       IN IF x.st = "importing" THEN [x EXCEPT !.st = "grabbed"] ELSE x]
  /\ disp' = NoDispatch /\ coord' = NoCoord /\ imp' = NoPlanImport
  /\ UNCHANGED <<plans, aged, atClient, listed, onDisk, planSearch, waived>>

PlanInit ==
  /\ plans = [p \in PlanIds |-> "none"]
  /\ aged = {} /\ atClient = {} /\ listed = {} /\ onDisk = {} /\ waived = {}
  /\ prow = [r \in PlanRows |-> NoPlanRow]
  /\ disp = NoDispatch /\ coord = NoCoord /\ imp = NoPlanImport
  /\ planSearch = TRUE
  /\ planEvents = 0

PlanNext ==
  \/ \E p \in PlanIds : AdmitAcquisitionPlan(p) \/ DispatchAdmitted(p) \/ ReconcileReads(p) \/ PlanAges(p)
  \/ DispatchRefused \/ DispatchError \/ ClaimPlannedSubmission
  \/ RecheckClaim \/ AddPlannedToClient \/ RecordPlannedAnswer \/ DispatchEnds
  \/ ReconcileDispatches \/ ReconcileSettles
  \/ ImportReserves \/ ImportPublishes \/ RecoverSeasonSubmissions
  \/ \E r \in PlanRows :
       \/ CheckPlannedRow(r) \/ AcceptObserved(r) \/ PlanHandleFailure(r) \/ PlanHandleRemoved(r)
       \/ ClientForgets(r) \/ ObserveUncertainParks(r) \/ ReleaseUncertainRisk(r)
       \/ RemovePlanned(r) \/ ResolveReservation(r) \/ ImportStarts(r)
       \/ \E e \in PlanEps : GrabEpisode(r, e)

PlanSpec == PlanInit /\ [][PlanNext]_planVars

---------------------------------------------------------------------------
(* Properties.                                                             *)

\* A row that may still deliver an episode.
MayDeliver(r) == prow[r].st \in Moving /\ ~prow[r].sup

\* No episode is promised by two rows that may both still deliver it, however
\* settlement, fallback of a pack, manual grabs and successor plans interleave.
OneProviderPerEpisode ==
  \A e \in PlanEps : \A a, b \in PlanRows :
    MayDeliver(a) /\ MayDeliver(b) /\ e \in prow[a].res \cap prow[b].res => a = b

\* A submission the client received keeps its row's custody until somebody
\* accepts the risk of a duplicate: no settlement, cancellation, grab or
\* restart treats it as an intent that was never sent.
SentKeepsCustody ==
  \A r \in atClient \ waived : ~prow[r].sup
=============================================================================
