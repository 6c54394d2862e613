----------------------------- MODULE Maintenance -----------------------------
(***************************************************************************)
(* Deployment drain: the admission coordinator (app/maintenance) and the   *)
(* participants that ask it before they work: the scheduler's task loops   *)
(* and triggers (infra/scheduler), HTTP mutations and the background       *)
(* searches they start (api/maintenance.go, api/lifecycle.go), and worker  *)
(* loops that wait in Enter (infra/jobs, acquisition).                     *)
(*                                                                         *)
(* Coordinator.active is a map from a fresh number to a description; here  *)
(* a token is named by who holds it.  Each participant has at most one     *)
(* token of each kind at a time, so the names do not collide.              *)
(***************************************************************************)
EXTENDS Integers, FiniteSets

CONSTANTS
    Tasks,      \* scheduler tasks
    Requests,   \* HTTP mutations in flight at once
    Loops,      \* worker loops that call Enter
    Owners,     \* deployers, by owner token
    MaxDrains   \* bound: drains started

ASSUME MaxDrainsAssumption == MaxDrains \in Nat

NoToken == <<"none", "none">>
NoOwner == "none"

Tokens ==
    ({"queued", "taken", "run"} \X Tasks) \cup ({"request", "search"} \X Requests)
        \cup ({"work", "nested"} \X Loops)

ASSUME OwnersAssumption == NoOwner \notin Owners

VARIABLES
    paused, terminal,   \* Coordinator.paused, .terminal
    generation,         \* Coordinator.generation; 0 before the first drain
    owner,              \* Coordinator.owner
    active,             \* Coordinator.active
    cancelled,          \* cancelRun was called: the scheduler's and workers' ctx
    closing,            \* Server.closing
    trigger,            \* taskRuntime.trigger holds a request
    task,               \* where runLoop is
    request, search,    \* is the handler, the background search running?
    loop,               \* where a worker loop is
    told,               \* per deployer, the generation a reply told it; 0: none
    aborts              \* abort requests sent, which may arrive late and twice

coordinator == <<paused, terminal, generation, owner, active>>
scheduler == <<trigger, task>>
http == <<request, search>>
deployers == <<told, aborts>>
vars == <<coordinator, cancelled, closing, scheduler, http, loop, deployers>>

TypeOK ==
    /\ paused \in BOOLEAN
    /\ terminal \in BOOLEAN
    /\ generation \in 0 .. MaxDrains
    /\ owner \in Owners \cup {NoOwner}
    /\ active \in SUBSET Tokens
    /\ cancelled \in BOOLEAN
    /\ closing \in BOOLEAN
    /\ trigger \in [Tasks -> BOOLEAN]
    /\ task \in [Tasks -> {"waiting", "taken", "scheduled", "triggered", "ran", "exited"}]
    /\ request \in [Requests -> BOOLEAN]
    /\ search \in [Requests -> BOOLEAN]
    /\ loop \in [Loops -> {"idle", "asleep", "work", "dozing", "nested", "exited"}]
    /\ told \in [Owners -> 0 .. MaxDrains]
    /\ aborts \in SUBSET (Owners \X (1 .. MaxDrains))

Init ==
    /\ paused = FALSE
    /\ terminal = FALSE
    /\ generation = 0
    /\ owner = NoOwner
    /\ active = {}
    /\ cancelled = FALSE
    /\ closing = FALSE
    /\ trigger = [t \in Tasks |-> FALSE]
    /\ task = [t \in Tasks |-> "waiting"]
    /\ request = [r \in Requests |-> FALSE]
    /\ search = [r \in Requests |-> FALSE]
    /\ loop = [l \in Loops |-> "idle"]
    /\ told = [o \in Owners |-> 0]
    /\ aborts = {}

-----------------------------------------------------------------------------
(* The coordinator.                                                         *)

\* A mutant: admission that does not let the children of admitted work in.
AdmittedRootsOnly(parent) == ~paused /\ ~terminal

\* enterLocked: new work only while neither draining nor stopping; a child of
\* admitted work always.
Admitted(parent) == (~paused /\ ~terminal) \/ parent \in active

\* signalLocked: everyone who waits in Enter looks again.
Awake(f) ==
    [l \in Loops |-> IF f[l] = "asleep" THEN "idle" ELSE IF f[l] = "dozing" THEN "work" ELSE f[l]]

Signal == loop' = Awake(loop)

Acquire(token) == active' = active \cup {token}

Release(tokens) == active' = active \ tokens

notCoordinator == <<cancelled, closing, scheduler, http>>

\* Start: idempotent for the owner, refused to another one.  The reply may be
\* lost; the deployer then knows nothing and asks again.
StartDrain(o) ==
    /\ ~terminal
    /\ IF paused
         THEN owner = o /\ UNCHANGED <<paused, generation, owner, loop>>
         ELSE /\ generation < MaxDrains
              /\ paused' = TRUE
              /\ generation' = generation + 1
              /\ owner' = o
              /\ Signal
    /\ told' \in {told, [told EXCEPT ![o] = generation']}
    /\ UNCHANGED <<terminal, active, notCoordinator, aborts>>

\* A deployer gives up its drain; the request is on its way from here on.
SendAbort(o) ==
    /\ told[o] # 0
    /\ aborts' = aborts \cup {<<o, told[o]>>}
    /\ told' = [told EXCEPT ![o] = 0]
    /\ UNCHANGED <<coordinator, notCoordinator, loop>>

\* A mutant: any abort of the owner ends whatever drain is in force.
AbortMatchesOwner(o, g) == paused /\ ~terminal /\ owner = o

AbortMatches(o, g) == paused /\ ~terminal /\ owner = o /\ generation = g

\* A mutant: a resume that wakes nobody.
AbortDrainSilently(o, g) ==
    /\ <<o, g>> \in aborts
    /\ AbortMatches(o, g)
    /\ paused' = FALSE
    /\ UNCHANGED <<terminal, generation, owner, active, notCoordinator, loop, deployers>>

\* Abort, when a request arrives; it stays in the network.
AbortDrain(o, g) ==
    /\ <<o, g>> \in aborts
    /\ AbortMatches(o, g)
    /\ paused' = FALSE
    /\ Signal
    /\ UNCHANGED <<terminal, generation, owner, active, notCoordinator, deployers>>

-----------------------------------------------------------------------------
(* Scheduler.                                                               *)

notScheduler == <<paused, terminal, generation, owner, cancelled, closing, http, deployers>>

\* TriggerContext: admitted at once, as a child of the request if one asks;
\* a second trigger coalesces with the first and gives its admission back.
TriggerContext(t, parent) ==
    /\ ~cancelled
    /\ Admitted(parent)
    /\ IF trigger[t]
         THEN UNCHANGED <<active, trigger>>
         ELSE Acquire(<<"queued", t>>) /\ trigger' = [trigger EXCEPT ![t] = TRUE]
    /\ Signal
    /\ UNCHANGED <<notScheduler, task>>

\* The timer: runOnce asks for admission without a parent.  A refusal only
\* moves NextRunAt.
RunScheduled(t) ==
    /\ task[t] = "waiting"
    /\ ~cancelled
    /\ Admitted(NoToken)
    /\ Acquire(<<"run", t>>)
    /\ task' = [task EXCEPT ![t] = "scheduled"]
    /\ Signal
    /\ UNCHANGED <<notScheduler, trigger>>

\* A mutant: the trigger's admission is given back when it is received.
TakeTriggerReleasing(t) ==
    /\ task[t] = "waiting"
    /\ trigger[t]
    /\ trigger' = [trigger EXCEPT ![t] = FALSE]
    /\ active' = active \ {<<"queued", t>>}
    /\ task' = [task EXCEPT ![t] = "taken"]
    /\ UNCHANGED <<notScheduler, loop>>

\* The loop receives the trigger, with its admission.
TakeTrigger(t) ==
    /\ task[t] = "waiting"
    /\ trigger[t]
    /\ trigger' = [trigger EXCEPT ![t] = FALSE]
    /\ active' = (active \ {<<"queued", t>>}) \cup {<<"taken", t>>}
    /\ task' = [task EXCEPT ![t] = "taken"]
    /\ UNCHANGED <<notScheduler, loop>>

\* runOnce as a child of the trigger; refused only if the shutdown has
\* cancelled the trigger's context.
RunTriggered(t) ==
    /\ task[t] = "taken"
    /\ \/ /\ Admitted(<<"taken", t>>)
          /\ Acquire(<<"run", t>>)
          /\ task' = [task EXCEPT ![t] = "triggered"]
          /\ Signal
       \/ /\ cancelled \/ ~Admitted(<<"taken", t>>)
          /\ task' = [task EXCEPT ![t] = "ran"]
          /\ UNCHANGED <<active, loop>>
    /\ UNCHANGED <<notScheduler, trigger>>

\* runOnce returns: its own admission first ...
TaskReturns(t) ==
    /\ task[t] \in {"scheduled", "triggered"}
    /\ Release({<<"run", t>>})
    /\ task' = [task EXCEPT ![t] = IF task[t] = "scheduled" THEN "waiting" ELSE "ran"]
    /\ Signal
    /\ UNCHANGED <<notScheduler, trigger>>

\* ... then the trigger's.
ReleaseTrigger(t) ==
    /\ task[t] = "ran"
    /\ Release({<<"taken", t>>})
    /\ task' = [task EXCEPT ![t] = "waiting"]
    /\ Signal
    /\ UNCHANGED <<notScheduler, trigger>>

\* The loop ends and releases what is left in its channel.
TaskExits(t) ==
    /\ task[t] = "waiting"
    /\ cancelled
    /\ Release({<<"queued", t>>})
    /\ trigger' = [trigger EXCEPT ![t] = FALSE]
    /\ task' = [task EXCEPT ![t] = "exited"]
    /\ Signal
    /\ UNCHANGED notScheduler

-----------------------------------------------------------------------------
(* HTTP mutations and background searches.                                  *)

notHttp == <<paused, terminal, generation, owner, cancelled, closing, scheduler, deployers>>

\* trackRequests and admitMutation.
RequestBegins(r) ==
    /\ ~request[r]
    /\ ~closing
    /\ Admitted(NoToken)
    /\ Acquire(<<"request", r>>)
    /\ request' = [request EXCEPT ![r] = TRUE]
    /\ Signal
    /\ UNCHANGED <<notHttp, search>>

RequestTriggers(r, t) == request[r] /\ TriggerContext(t, <<"request", r>>)

\* startBackgroundFrom: registered as a child before the handler returns.
StartBackground(r) ==
    /\ request[r]
    /\ ~search[r]
    /\ ~closing
    /\ Admitted(<<"request", r>>)
    /\ Acquire(<<"search", r>>)
    /\ search' = [search EXCEPT ![r] = TRUE]
    /\ Signal
    /\ UNCHANGED <<notHttp, request>>

RequestReturns(r) ==
    /\ request[r]
    /\ Release({<<"request", r>>})
    /\ request' = [request EXCEPT ![r] = FALSE]
    /\ Signal
    /\ UNCHANGED <<notHttp, search>>

SearchReturns(r) ==
    /\ search[r]
    /\ Release({<<"search", r>>})
    /\ search' = [search EXCEPT ![r] = FALSE]
    /\ Signal
    /\ UNCHANGED <<notHttp, request>>

-----------------------------------------------------------------------------
(* Worker loops: Enter waits, also for a call nested in admitted work.      *)

notLoops == <<paused, terminal, generation, owner, notCoordinator, deployers>>

\* One round of Enter: in, out (cancelled or stopping), or asleep on the
\* channel that was current under the lock.
EnterLoop(l) ==
    /\ loop[l] = "idle"
    /\ IF ~cancelled /\ Admitted(NoToken)
         THEN Acquire(<<"work", l>>) /\ loop' = [Awake(loop) EXCEPT ![l] = "work"]
         ELSE /\ loop' = [loop EXCEPT ![l] = IF cancelled \/ terminal THEN "exited" ELSE "asleep"]
              /\ UNCHANGED active
    /\ UNCHANGED notLoops

\* Admitted work calls something that enters again (a job's handler that runs
\* SyncRSS).  If it had to wait it would doze holding its own admission.
EnterNested(l) ==
    /\ loop[l] = "work"
    /\ ~cancelled
    /\ IF Admitted(<<"work", l>>)
         THEN Acquire(<<"nested", l>>) /\ loop' = [Awake(loop) EXCEPT ![l] = "nested"]
         ELSE loop' = [loop EXCEPT ![l] = "dozing"] /\ UNCHANGED active
    /\ UNCHANGED notLoops

NestedReturns(l) ==
    /\ loop[l] = "nested"
    /\ Release({<<"nested", l>>})
    /\ loop' = [Awake(loop) EXCEPT ![l] = "work"]
    /\ UNCHANGED notLoops

WorkReturns(l) ==
    /\ loop[l] = "work"
    /\ Release({<<"work", l>>})
    /\ loop' = [Awake(loop) EXCEPT ![l] = "idle"]
    /\ UNCHANGED notLoops

\* ctx.Done() in the select of Enter.
SleeperLeaves(l) ==
    /\ loop[l] \in {"asleep", "dozing"}
    /\ cancelled
    /\ loop' = [loop EXCEPT ![l] = IF loop[l] = "asleep" THEN "exited" ELSE "work"]
    /\ UNCHANGED <<notLoops, active>>

-----------------------------------------------------------------------------
(* Shutdown: cancelRun, admission.Close, BeginShutdown, in this order.      *)

CancelRun ==
    /\ ~cancelled
    /\ cancelled' = TRUE
    /\ UNCHANGED <<coordinator, closing, scheduler, http, loop, deployers>>

\* Close
CloseAdmission ==
    /\ cancelled
    /\ ~terminal
    /\ terminal' = TRUE
    /\ Signal
    /\ UNCHANGED <<paused, generation, owner, active, notCoordinator, deployers>>

BeginShutdown ==
    /\ terminal
    /\ ~closing
    /\ closing' = TRUE
    /\ UNCHANGED <<coordinator, cancelled, scheduler, http, loop, deployers>>

-----------------------------------------------------------------------------
TaskStep(t) == TakeTrigger(t) \/ RunTriggered(t) \/ TaskReturns(t) \/ ReleaseTrigger(t) \/ TaskExits(t)

Next ==
    \/ \E o \in Owners : StartDrain(o) \/ SendAbort(o) \/ \E g \in 1 .. MaxDrains : AbortDrain(o, g)
    \/ \E t \in Tasks :
          \/ TriggerContext(t, NoToken) \/ RunScheduled(t) \/ TaskStep(t)
          \/ \E r \in Requests : RequestTriggers(r, t)
    \/ \E r \in Requests : RequestBegins(r) \/ StartBackground(r) \/ RequestReturns(r) \/ SearchReturns(r)
    \/ \E l \in Loops : EnterLoop(l) \/ EnterNested(l) \/ NestedReturns(l) \/ WorkReturns(l) \/ SleeperLeaves(l)
    \/ CancelRun \/ CloseAdmission \/ BeginShutdown

Spec == Init /\ [][Next]_vars

\* Handlers, tasks and searches return, loops run, and a shutdown that has
\* begun goes on; nobody has to start, abort or trigger anything.
Fairness ==
    /\ \A t \in Tasks : SF_vars(TakeTrigger(t)) /\ WF_vars(TaskStep(t))
    /\ \A r \in Requests : WF_vars(RequestReturns(r)) /\ WF_vars(SearchReturns(r))
    /\ \A l \in Loops : /\ WF_vars(EnterLoop(l) \/ SleeperLeaves(l))
                        /\ WF_vars(NestedReturns(l)) /\ SF_vars(WorkReturns(l))
    /\ WF_vars(CloseAdmission) /\ WF_vars(BeginShutdown)

FairSpec == Spec /\ Fairness

-----------------------------------------------------------------------------
(* Properties.                                                              *)

\* Coordinator.active is exactly the work in flight: what Status reports has
\* somebody behind it, and nobody works or waits in a channel unregistered.
TokensAccounted ==
    /\ \A t \in Tasks :
          /\ <<"queued", t>> \in active <=> trigger[t]
          /\ <<"taken", t>> \in active <=> task[t] \in {"taken", "triggered", "ran"}
          /\ <<"run", t>> \in active <=> task[t] \in {"scheduled", "triggered"}
    /\ \A r \in Requests :
          /\ <<"request", r>> \in active <=> request[r]
          /\ <<"search", r>> \in active <=> search[r]
    /\ \A l \in Loops :
          /\ <<"work", l>> \in active <=> loop[l] \in {"work", "dozing", "nested"}
          /\ <<"nested", l>> \in active <=> loop[l] = "nested"

\* "drained" is a promise: once a drain has reached zero, no trigger, task,
\* request, search or loop begins work until the drain is aborted.
DrainedStays == [][paused /\ active = {} => ~paused' \/ active' = {}]_vars

\* A deployer that was told its drain is in force, and has not itself given
\* it up, can rely on it: no delayed or repeated abort, of an earlier drain or
\* of another deployer, reopens admission ("The opaque generation prevents a
\* delayed abort from reopening a new drain").
DrainHolds ==
    \A o \in Owners :
        told[o] # 0 /\ <<o, told[o]>> \notin aborts => paused /\ generation = told[o] /\ owner = o

\* Nobody sleeps in Enter while admission is open, or after it has closed for
\* good: no wake-up is lost.
SleepersHaveReason == \A l \in Loops : loop[l] \in {"asleep", "dozing"} => paused /\ ~terminal

\* Every drain that is not aborted reaches zero: work that waits for its own
\* nested admission, a coalesced trigger or a trigger in a channel never keeps
\* it from doing so.
DrainCompletes == paused ~> (active = {} \/ ~paused)

\* An accepted trigger runs, also when a drain begins before the task's loop
\* gets to it; only a shutdown may drop it.
TriggerRuns ==
    \A t \in Tasks : trigger[t] ~> (task[t] = "triggered" \/ cancelled)

=============================================================================
