---------------------------- MODULE SeasonSearch ----------------------------
(***************************************************************************)
(* Season comparisons: the job a season search runs as, the checkpoint it   *)
(* keeps in the job's payload (internal/app/acquisition/season_discovery.go,*)
(* internal/infra/sqlite/acquisition_plans.go) and the way the queue defers *)
(* it (internal/infra/sqlite/jobs.go).                                      *)
(*                                                                          *)
(* A comparison is one job per season.  A worker claims it, works on a COPY *)
(* of the payload and writes that copy back at every step, while a person   *)
(* who presses Search and a grab that fails change the same payload.  A     *)
(* release found is represented by the library revision it was found under. *)
(* Attempts, leases and claim order belong to JobQueue; what is admitted    *)
(* from the releases, and the plan's life, to SeasonPlan.                   *)
(***************************************************************************)
EXTENDS Naturals, FiniteSets

CONSTANTS Seasons,      \* seasons searched, each with one dedupe key
          Indexers,     \* enabled indexers
          SeasonEps,    \* wanted episodes of a season
          MaxPresses,   \* bound: Search presses per season
          MaxReplans,   \* bound: failed grabs asking for a comparison
          ScopeFailures,\* failures that degrade a scope (3 in the code)
          MaxEdits      \* bound: library edits (revision bumps)

ASSUME SeasonAssumption == MaxPresses \in Nat /\ MaxReplans \in Nat /\ MaxEdits \in Nat

VARIABLES
  sjob,       \* season -> its jobs row: state, run_after, payload
  srun,       \* season -> the worker running it: pc, claimed payload, copy
  compared,   \* season -> the cooldown left by the last finished comparison
  planLive,   \* season -> an acquisition plan holds the scope
  asking,     \* season -> a request whose insert met a duplicate key
  owed,       \* season -> requests answered "queued" since the last claim
  catalog     \* lifecycle_library_revision

seasonVars == <<sjob, srun, compared, planLive, asking, owed, catalog>>

\* Scopes of the season stage and of the episode stage.
WholeSeason == "season"
Scope == Indexers \X (SeasonEps \cup {WholeSeason})

\* What a release came with: the library revision of the query that found it,
\* or no revision, from the feed.
Feed == 0

\* discoveryScope: the failures met, and how it ended.
NewScope == [fails |-> 0, end |-> "todo"]

\* seasonCheckpoint: scopes maps the scopes created so far.
EmptyCheckpoint ==
  [manual |-> FALSE, mgen |-> 0, rgen |-> 0, started |-> FALSE, rev |-> 0,
   partial |-> FALSE, stage |-> "", scopes |-> <<>>, found |-> {}, cool |-> FALSE]

NoSeasonJob == [state |-> "none", after |-> "now", pay |-> EmptyCheckpoint]
SeasonRequests(p) == [manual |-> p.manual, mgen |-> p.mgen, rgen |-> p.rgen]
IdleSeason == [pc |-> "idle", claimed |-> SeasonRequests(EmptyCheckpoint), p |-> EmptyCheckpoint, res |-> ""]

LiveJob(s) == sjob[s].state \in {"queued", "leased"}

SeasonTypeOK ==
  /\ \A s \in Seasons :
       /\ sjob[s].state \in {"none", "queued", "leased", "done", "failed"}
       /\ sjob[s].after \in {"now", "backoff", "later"}
       /\ srun[s].res \in {"", "done", "now", "later", "error"}
  /\ compared \in [Seasons -> {"none", "week", "minutes"}]
  /\ planLive \in [Seasons -> BOOLEAN]
  /\ asking \in [Seasons -> {"", "press", "replan"}]
  /\ owed \in [Seasons -> SUBSET {"press", "replan"}]
  /\ catalog \in 1..(MaxEdits + 1)

---------------------------------------------------------------------------
(* Requests.                                                               *)

Request(s, manual) ==
  [state |-> "queued", after |-> "now",
   pay |-> [EmptyCheckpoint EXCEPT !.manual = manual, !.mgen = IF manual THEN 1 ELSE 0]]

Answered(s, who) == owed' = [owed EXCEPT ![s] = @ \cup {who}]

\* EnqueueJob under the season's dedupe key: one queued or leased job.
\* An unattended pass is refused for a week after a comparison, a person's
\* own repeat for ten minutes, a failed grab never.
EnqueueSeason(s, manual, trigger) ==
  /\ \/ trigger = "failed_acquisition"
     \/ compared[s] = "none"
     \/ manual /\ compared[s] # "minutes"
  /\ asking[s] = ""
  /\ UNCHANGED <<srun, compared, planLive, catalog>>
  /\ IF LiveJob(s)
     THEN /\ manual \/ trigger = "failed_acquisition"
          /\ asking' = [asking EXCEPT ![s] = IF manual THEN "press" ELSE "replan"]
          /\ UNCHANGED <<sjob, owed>>
     ELSE /\ sjob' = [sjob EXCEPT ![s] = Request(s, manual)]
          /\ Answered(s, IF manual THEN "press" ELSE "replan")
          /\ UNCHANGED asking

Press(s) ==
  /\ LiveJob(s) => sjob[s].pay.mgen < MaxPresses
  /\ EnqueueSeason(s, TRUE, "search")

FailedGrab(s) ==
  /\ LiveJob(s) => sjob[s].pay.rgen < MaxReplans
  /\ EnqueueSeason(s, FALSE, "failed_acquisition")

UnattendedPass(s) ==
  /\ ~LiveJob(s)
  /\ EnqueueSeason(s, FALSE, "scheduled")

\* A release of the feed better than what the newest checkpoint knows: no
\* cooldown holds it back, and it joins a checkpoint no worker holds, unless
\* that is full or changes under the write.
EnqueueRSSSeason(s) ==
  /\ \E merged \in BOOLEAN :
       LET job == IF LiveJob(s) THEN sjob[s] ELSE Request(s, FALSE)
       IN sjob' = [sjob EXCEPT ![s] = IF merged /\ job.state = "queued"
                                      THEN [job EXCEPT !.pay.found = @ \cup {Feed}] ELSE job]
  /\ UNCHANGED <<srun, compared, planLive, asking, owed, catalog>>

\* The duplicate met by a press: mark the queued or leased job manual, under
\* a new generation, and make it due.  It finds no row when the job has
\* finished since, and answers "queued" all the same.
PromoteManual(s) ==
  /\ asking[s] = "press"
  /\ asking' = [asking EXCEPT ![s] = ""]
  /\ IF LiveJob(s)
     THEN sjob' = [sjob EXCEPT ![s].pay.manual = TRUE, ![s].pay.mgen = @ + 1, ![s].after = "now"]
     ELSE UNCHANGED sjob
  /\ Answered(s, "press")
  /\ UNCHANGED <<srun, compared, planLive, catalog>>

\* The duplicate met by a failed grab: ask the job to compare again; when it
\* has finished since, queue the request itself.
AskReplan(s) ==
  /\ asking[s] = "replan"
  /\ asking' = [asking EXCEPT ![s] = ""]
  /\ IF LiveJob(s)
     THEN sjob' = [sjob EXCEPT ![s].pay.rgen = @ + 1, ![s].after = "now"]
     ELSE sjob' = [sjob EXCEPT ![s] = Request(s, FALSE)]
  /\ Answered(s, "replan")
  /\ UNCHANGED <<srun, compared, planLive, catalog>>

---------------------------------------------------------------------------
(* The checkpoint.                                                         *)

\* UpdateJobCheckpoint: the copy replaces the payload, except for a manual
\* request or a replan request stored since the copy was taken.
UpdateJobCheckpointBlind(stored, p) == p
UpdateJobCheckpoint(stored, p) ==
  [p EXCEPT !.manual = @ \/ stored.mgen > p.mgen,
            !.mgen = IF stored.mgen > @ THEN stored.mgen ELSE @,
            !.rgen = IF stored.rgen > @ THEN stored.rgen ELSE @]

SaveSeasonCheckpoint(s, p) == sjob' = [sjob EXCEPT ![s].pay = UpdateJobCheckpoint(@, p)]

\* endManualEpoch: the reruns a job schedules for itself are unattended.
EndManualEpoch(p) == [p EXCEPT !.manual = FALSE]

\* The evidence clock stopped, with everything gathered under it.
DropEvidence(p) == [p EXCEPT !.started = FALSE, !.scopes = <<>>, !.found = {}, !.stage = ""]

\* Evidence whose deadline is near is refreshed, never used.
RefreshEvidence(p) == EndManualEpoch(DropEvidence(p))

AtStep(s, pc) == sjob[s].state = "leased" /\ srun[s].pc = pc
GoStep(s, pc, p) == srun' = [srun EXCEPT ![s].pc = pc, ![s].p = p]
Return(s, res) == srun' = [srun EXCEPT ![s].pc = "check", ![s].res = res, ![s].p = EmptyCheckpoint]
SaveAndGo(s, p, pc) == SaveSeasonCheckpoint(s, p) /\ GoStep(s, pc, p)
SaveAndReturn(s, p, res) == SaveSeasonCheckpoint(s, p) /\ Return(s, res)

---------------------------------------------------------------------------
(* runSeasonSearch.                                                        *)

ClaimSeason(s) ==
  /\ sjob[s].state = "queued" /\ sjob[s].after = "now"
  /\ sjob' = [sjob EXCEPT ![s].state = "leased"]
  /\ srun' = [srun EXCEPT ![s] = [IdleSeason EXCEPT !.pc = "open", !.claimed = SeasonRequests(sjob[s].pay), !.p = sjob[s].pay]]
  /\ owed' = [owed EXCEPT ![s] = {}]
  /\ UNCHANGED <<compared, planLive, asking, catalog>>

\* seasonSnapshot fails, or finds nothing wanted and not in flight.
SeasonSnapshotEnds(s) ==
  /\ AtStep(s, "open")
  /\ \E res \in {"done", "error"} : Return(s, res)
  /\ UNCHANGED <<sjob, compared, planLive, asking, owed, catalog>>

WaitForPlan(s) ==
  /\ AtStep(s, "open") /\ planLive[s]
  /\ Return(s, "later")
  /\ UNCHANGED <<sjob, compared, planLive, asking, owed, catalog>>

\* Evidence of another library revision is dropped.
CurrentEvidence(p) == IF p.rev # 0 /\ p.rev # catalog THEN DropEvidence(p) ELSE p

\* Another comparison is open in the allowance this one would draw on.
OpenElsewhere(s, p) ==
  \E o \in Seasons \ {s} : LiveJob(o) /\ sjob[o].pay.started /\ (p.manual => sjob[o].pay.manual)

\* Admission of an unopened comparison: it waits for the open one or for
\* capacity to finish within the day; a comparison no capacity can finish is
\* intrinsically partial.
OpenComparison(s) ==
  LET p == CurrentEvidence(srun[s].p) IN
  /\ AtStep(s, "open") /\ ~planLive[s] /\ ~p.started
  /\ \/ Return(s, "later") /\ UNCHANGED sjob
     \/ /\ ~OpenElsewhere(s, p)
        /\ \E partial \in BOOLEAN :
             SaveAndGo(s, [p EXCEPT !.started = TRUE, !.rev = catalog, !.stage = "season",
                                    !.partial = @ \/ partial], "scopes")
  /\ UNCHANGED <<compared, planLive, asking, owed, catalog>>

\* A comparison resumed: within its deadline it goes on, after it is refreshed.
ResumeComparison(s) ==
  LET p == CurrentEvidence(srun[s].p) IN
  /\ AtStep(s, "open") /\ ~planLive[s] /\ p.started
  /\ \/ GoStep(s, "scopes", p) /\ UNCHANGED sjob
     \/ SaveAndReturn(s, RefreshEvidence(p), "later")
  /\ UNCHANGED <<compared, planLive, asking, owed, catalog>>

Todo(p) == {sc \in DOMAIN p.scopes : p.scopes[sc].end = "todo"}
DegradedIndexers(p) == {sc[1] : sc \in {x \in DOMAIN p.scopes : p.scopes[x].end = "degraded"}}

CreateScopes(s) ==
  LET p == srun[s].p IN
  /\ AtStep(s, "scopes") /\ p.scopes = <<>>
  /\ SaveAndGo(s, [p EXCEPT !.scopes = [sc \in Indexers \X {WholeSeason} |-> NewScope]], "scopes")
  /\ UNCHANGED <<compared, planLive, asking, owed, catalog>>

\* The queries of one scope: their releases are kept with the checkpoint and
\* the scope is complete, with reasons when pages or evidence were left out.
\* A failure is retried until the third or a terminal one degrades the scope;
\* a spent allowance defers, after a partial comparison admitted its singles; a
\* time the provider names defers at once.
SearchScope(s) ==
  LET p == srun[s].p IN
  /\ AtStep(s, "scopes")
  /\ \E sc \in Todo(p) :
       LET failed == [p EXCEPT !.scopes[sc].fails = @ + 1]
           ended(e) == [p EXCEPT !.scopes[sc].end = e]
       IN \/ \E e \in {"complete", "reasons"} :
               SaveAndGo(s, [ended(e) EXCEPT !.found = @ \cup {catalog}], "scopes")
          \/ /\ failed.scopes[sc].fails < ScopeFailures
             /\ SaveAndReturn(s, failed, "later")
          \/ SaveAndGo(s, ended("degraded"), "scopes")
          \/ /\ p.partial /\ p.stage = "episodes"
             /\ SaveAndGo(s, p, "admit")
          \/ SaveAndReturn(s, p, "later")
  /\ UNCHANGED <<compared, planLive, asking, owed, catalog>>

\* The season stage is over: episodes without a target single are searched
\* for on their own, by the indexers that did not fail.
EpisodeStage(s) ==
  LET p == srun[s].p IN
  /\ AtStep(s, "scopes") /\ p.scopes # <<>> /\ Todo(p) = {} /\ p.stage = "season"
  /\ \E eps \in SUBSET SeasonEps :
       LET more == (Indexers \ DegradedIndexers(p)) \X eps
       IN SaveAndGo(s, [p EXCEPT !.stage = "episodes",
                          !.scopes = [sc \in DOMAIN p.scopes \cup more |->
                                        IF sc \in DOMAIN p.scopes THEN p.scopes[sc] ELSE NewScope]], "scopes")
  /\ UNCHANGED <<compared, planLive, asking, owed, catalog>>

ComparisonOver(s) ==
  /\ AtStep(s, "scopes") /\ srun[s].p.scopes # <<>> /\ Todo(srun[s].p) = {} /\ srun[s].p.stage # "season"
  /\ GoStep(s, "admit", srun[s].p)
  /\ UNCHANGED <<sjob, compared, planLive, asking, owed, catalog>>

\* admitSeasonCandidates: the plan is admitted only under the revision the
\* comparison was opened under and while no plan holds the scope.  Nothing
\* found, or nothing eligible, admits nothing.
AdmitSeasonCandidates(s) ==
  LET p == srun[s].p IN
  /\ AtStep(s, "admit")
  /\ \/ /\ p.found # {} /\ p.rev = catalog /\ ~planLive[s]
        /\ planLive' = [planLive EXCEPT ![s] = TRUE]
     \/ UNCHANGED planLive
  /\ \/ Return(s, "error")
     \/ Todo(p) # {} /\ Return(s, "later")
     \/ Todo(p) = {} /\ GoStep(s, "over", p)
  /\ UNCHANGED <<sjob, compared, asking, owed, catalog>>

\* A comparison that left something out opens a new epoch in a day, unattended.
NextEpochKeepingReleases(p) == EndManualEpoch([p EXCEPT !.started = FALSE, !.scopes = <<>>, !.stage = "", !.rev = 0])
NextEpoch(p) == EndManualEpoch([DropEvidence(p) EXCEPT !.rev = 0])

Incomplete(p) == p.partial \/ \E sc \in DOMAIN p.scopes : p.scopes[sc].end \in {"reasons", "degraded"}

SettleComparison(s) ==
  LET p == srun[s].p IN
  /\ AtStep(s, "over")
  /\ IF Incomplete(p)
     THEN SaveAndReturn(s, NextEpoch(p), "later")
     ELSE SaveAndReturn(s, [p EXCEPT !.cool = TRUE], "done")
  /\ UNCHANGED <<compared, planLive, asking, owed, catalog>>

---------------------------------------------------------------------------
(* handleSeasonSearch and the queue's finish.                              *)

SeasonJobPromoted(s) ==
  LET q == sjob[s].pay  c == srun[s].claimed
  IN q.manual /\ (~c.manual \/ q.mgen > c.mgen)

SeasonReplanRequested(s) == sjob[s].pay.rgen > srun[s].claimed.rgen

\* The handler's last look at the payload before it returns.
HandleSeasonSearch(s) ==
  /\ AtStep(s, "check")
  /\ IF srun[s].res = "later" /\ SeasonJobPromoted(s)
     THEN srun' = [srun EXCEPT ![s].pc = "retire", ![s].res = "now"]
     ELSE IF srun[s].res \in {"done", "later"} /\ SeasonReplanRequested(s)
     THEN srun' = [srun EXCEPT ![s].pc = "rerun", ![s].p = [DropEvidence(sjob[s].pay) EXCEPT !.rev = 0]]
     ELSE srun' = [srun EXCEPT ![s].pc = "retire"]
  /\ UNCHANGED <<sjob, compared, planLive, asking, owed, catalog>>

\* The save may fail, and with it the run.
RerunForReplan(s) ==
  /\ AtStep(s, "rerun")
  /\ \/ /\ SaveSeasonCheckpoint(s, srun[s].p)
        /\ srun' = [srun EXCEPT ![s].pc = "retire", ![s].res = "now", ![s].p = EmptyCheckpoint]
     \/ /\ srun' = [srun EXCEPT ![s].pc = "retire", ![s].res = "error", ![s].p = EmptyCheckpoint]
        /\ UNCHANGED sjob
  /\ UNCHANGED <<compared, planLive, asking, owed, catalog>>

\* DeferClaimedJob compares the generations again in the write that parks.
DeferClaimedJobBlind(s, at) == at
DeferClaimedJob(s, at) ==
  LET q == sjob[s].pay  c == srun[s].claimed
  IN IF q.mgen > c.mgen /\ q.manual THEN "now"
     ELSE IF q.rgen > c.rgen THEN "now" ELSE at

\* CompleteJob, FailJob and RetryJob write by id alone.
FinishSeasonJob(s) ==
  /\ AtStep(s, "retire")
  /\ srun' = [srun EXCEPT ![s] = IdleSeason]
  /\ LET end(state) == sjob' = [sjob EXCEPT ![s] = [NoSeasonJob EXCEPT !.state = state]]
         requeue(after) == sjob' = [sjob EXCEPT ![s].state = "queued", ![s].after = after]
     IN \/ srun[s].res = "done" /\ end("done")
        \/ srun[s].res = "error" /\ (end("failed") \/ requeue("backoff"))
        \/ srun[s].res \in {"now", "later"} /\ requeue(DeferClaimedJob(s, srun[s].res))
  /\ compared' = IF srun[s].res # "done" THEN compared
                 ELSE [compared EXCEPT ![s] = IF ~sjob[s].pay.cool THEN "none"
                                              ELSE IF sjob[s].pay.manual THEN "minutes" ELSE "week"]
  /\ UNCHANGED <<planLive, asking, owed, catalog>>

\* A crash loses the worker's copy; the reclaimed lease queues the job again.
SeasonCrash(s) ==
  /\ sjob[s].state = "leased"
  /\ srun' = [srun EXCEPT ![s] = IdleSeason]
  /\ sjob' = [sjob EXCEPT ![s].state = "queued", ![s].after = "now"]
  /\ UNCHANGED <<compared, planLive, asking, owed, catalog>>

---------------------------------------------------------------------------
(* The surroundings: time, library edits and the plan's settlement, which   *)
(* queues the successor comparison unless one is queued already.            *)

RunAfterPasses(s) ==
  /\ sjob[s].state = "queued" /\ sjob[s].after # "now"
  /\ sjob' = [sjob EXCEPT ![s].after = "now"]
  /\ UNCHANGED <<srun, compared, planLive, asking, owed, catalog>>

CooldownPasses(s) ==
  /\ compared[s] # "none"
  /\ compared' = [compared EXCEPT ![s] = IF @ = "minutes" THEN "week" ELSE "none"]
  /\ UNCHANGED <<sjob, srun, planLive, asking, owed, catalog>>

LibraryEdit ==
  /\ catalog <= MaxEdits
  /\ catalog' = catalog + 1
  /\ UNCHANGED <<sjob, srun, compared, planLive, asking, owed>>

ScopeSettled(s) ==
  /\ planLive[s]
  /\ planLive' = [planLive EXCEPT ![s] = FALSE]
  /\ \/ UNCHANGED sjob    \* a cancelled plan has no successor
     \/ sjob' = IF LiveJob(s) THEN sjob ELSE [sjob EXCEPT ![s] = Request(s, FALSE)]
  /\ UNCHANGED <<srun, compared, asking, owed, catalog>>

SeasonInit ==
  /\ sjob = [s \in Seasons |-> NoSeasonJob]
  /\ srun = [s \in Seasons |-> IdleSeason]
  /\ compared = [s \in Seasons |-> "none"]
  /\ planLive = [s \in Seasons |-> FALSE]
  /\ asking = [s \in Seasons |-> ""]
  /\ owed = [s \in Seasons |-> {}]
  /\ catalog = 1

SeasonNext ==
  \/ LibraryEdit
  \/ \E s \in Seasons :
       \/ Press(s) \/ FailedGrab(s) \/ UnattendedPass(s) \/ EnqueueRSSSeason(s) \/ PromoteManual(s) \/ AskReplan(s)
       \/ ClaimSeason(s) \/ SeasonSnapshotEnds(s) \/ WaitForPlan(s)
       \/ OpenComparison(s) \/ ResumeComparison(s)
       \/ CreateScopes(s) \/ SearchScope(s) \/ EpisodeStage(s) \/ ComparisonOver(s)
       \/ AdmitSeasonCandidates(s) \/ SettleComparison(s) \/ HandleSeasonSearch(s) \/ RerunForReplan(s)
       \/ FinishSeasonJob(s) \/ SeasonCrash(s)
       \/ RunAfterPasses(s) \/ CooldownPasses(s) \/ ScopeSettled(s)

SeasonSpec == SeasonInit /\ [][SeasonNext]_seasonVars

---------------------------------------------------------------------------
(* Properties.                                                             *)

\* A press or a failed grab that was answered since the job was last claimed
\* never waits behind a deferral of that claim (up to a day): neither a
\* checkpoint written from an older copy nor the deferral itself loses it.
NotParkedWhileOwed ==
  \A s \in Seasons : sjob[s].state = "queued" /\ sjob[s].after = "later" => owed[s] = {}

\* A plan is admitted only from releases its queries found under the library
\* revision it is admitted under, through every refresh, rerun, crash and
\* resumption; what the feed added is supply, whenever it came
\* (runSeasonSearch, admitSeasonCandidates, enqueueRSSSeason).
PlanFromCurrentEvidence ==
  [][\A s \in Seasons : ~planLive[s] /\ planLive'[s] => srun[s].p.found \subseteq {catalog, Feed}]_seasonVars

=============================================================================
