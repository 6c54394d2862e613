--------------------------- MODULE Maintenance_proof ---------------------------
(***************************************************************************)
(* Proofs about Maintenance, for any number of tasks, requests, loops and  *)
(* deployers.                                                              *)
(***************************************************************************)
EXTENDS Maintenance, TLAPS

LEMMA AwakeType ==
    ASSUME TypeOK
    PROVE  Awake(loop) \in [Loops -> {"idle", "work", "nested", "exited"}]
BY DEF TypeOK, Awake

LEMMA DeployerType ==
    ASSUME TypeOK, NEW o \in Owners,
           StartDrain(o) \/ SendAbort(o) \/ \E g \in 1 .. MaxDrains : AbortDrain(o, g)
    PROVE  TypeOK'
<1>. USE DEF TypeOK, notCoordinator, scheduler, http, Signal
<1>1. CASE StartDrain(o)
  <2>1. generation' \in 0 .. MaxDrains
    BY <1>1, MaxDrainsAssumption DEF StartDrain
  <2>2. told' \in [Owners -> 0 .. MaxDrains]
    BY <1>1, <2>1 DEF StartDrain
  <2>3. loop' \in [Loops -> {"idle", "work", "nested", "exited"}] \/ loop' = loop
    BY <1>1, AwakeType DEF StartDrain
  <2>4. paused' \in BOOLEAN /\ owner' \in Owners \cup {NoOwner}
    BY <1>1 DEF StartDrain
  <2>5. UNCHANGED <<terminal, active, notCoordinator, aborts>>
    BY <1>1 DEF StartDrain
  <2>. QED
    BY <2>1, <2>2, <2>3, <2>4, <2>5
<1>2. CASE SendAbort(o)
  <2>1. told' \in [Owners -> 0 .. MaxDrains] /\ aborts' \in SUBSET (Owners \X (1 .. MaxDrains))
    BY <1>2, MaxDrainsAssumption DEF SendAbort
  <2>. QED
    BY <1>2, <2>1 DEF SendAbort, coordinator
<1>3. ASSUME NEW g \in 1 .. MaxDrains, AbortDrain(o, g)
      PROVE  TypeOK'
  BY <1>3, AwakeType DEF AbortDrain, deployers
<1>. QED
  BY <1>1, <1>2, <1>3

LEMMA SchedulerType ==
    ASSUME TypeOK, NEW t \in Tasks,
           \/ \E parent : TriggerContext(t, parent)
           \/ RunScheduled(t) \/ TaskStep(t)
    PROVE  TypeOK'
<1>. USE AwakeType DEF TypeOK, notScheduler, http, deployers, Signal, Acquire, Release
<1>. {<<"queued", t>>, <<"taken", t>>, <<"run", t>>} \subseteq Tokens
  BY DEF Tokens
<1>1. ASSUME NEW parent, TriggerContext(t, parent)
      PROVE  TypeOK'
  BY <1>1 DEF TriggerContext
<1>2. CASE RunScheduled(t)
  BY <1>2 DEF RunScheduled
<1>3. CASE TakeTrigger(t)
  BY <1>3 DEF TakeTrigger
<1>4. CASE RunTriggered(t)
  BY <1>4 DEF RunTriggered
<1>5. CASE TaskReturns(t)
  BY <1>5 DEF TaskReturns
<1>6. CASE ReleaseTrigger(t)
  BY <1>6 DEF ReleaseTrigger
<1>7. CASE TaskExits(t)
  BY <1>7 DEF TaskExits
<1>. QED
  BY <1>1, <1>2, <1>3, <1>4, <1>5, <1>6, <1>7 DEF TaskStep

LEMMA HttpType ==
    ASSUME TypeOK, NEW r \in Requests,
           RequestBegins(r) \/ StartBackground(r) \/ RequestReturns(r) \/ SearchReturns(r)
    PROVE  TypeOK'
<1>. USE AwakeType DEF TypeOK, notHttp, scheduler, deployers, Signal, Acquire, Release
<1>. {<<"request", r>>, <<"search", r>>} \subseteq Tokens
  BY DEF Tokens
<1>1. CASE RequestBegins(r)
  BY <1>1 DEF RequestBegins
<1>2. CASE RequestReturns(r)
  BY <1>2 DEF RequestReturns
<1>3. CASE StartBackground(r)
  BY <1>3 DEF StartBackground
<1>4. CASE SearchReturns(r)
  BY <1>4 DEF SearchReturns
<1>. QED
  BY <1>1, <1>2, <1>3, <1>4

LEMMA LoopType ==
    ASSUME TypeOK, NEW l \in Loops,
           EnterLoop(l) \/ EnterNested(l) \/ NestedReturns(l) \/ WorkReturns(l) \/ SleeperLeaves(l)
    PROVE  TypeOK'
<1>. USE AwakeType DEF TypeOK, notLoops, notCoordinator, scheduler, http, deployers, Acquire, Release
<1>. {<<"work", l>>, <<"nested", l>>} \subseteq Tokens
  BY DEF Tokens
<1>1. CASE EnterLoop(l)
  BY <1>1 DEF EnterLoop
<1>2. CASE EnterNested(l)
  BY <1>2 DEF EnterNested
<1>3. CASE NestedReturns(l) \/ WorkReturns(l)
  BY <1>3 DEF NestedReturns, WorkReturns
<1>4. CASE SleeperLeaves(l)
  BY <1>4 DEF SleeperLeaves
<1>. QED
  BY <1>1, <1>2, <1>3, <1>4

LEMMA ShutdownType ==
    ASSUME TypeOK, CancelRun \/ CloseAdmission \/ BeginShutdown
    PROVE  TypeOK'
<1>. USE DEF TypeOK, scheduler, http, deployers
<1>1. CASE CancelRun
  BY <1>1 DEF CancelRun, coordinator
<1>2. CASE CloseAdmission
  BY <1>2, AwakeType DEF CloseAdmission, Signal, notCoordinator
<1>3. CASE BeginShutdown
  BY <1>3 DEF BeginShutdown, coordinator
<1>. QED
  BY <1>1, <1>2, <1>3

\* The coordinator and all its participants keep their types.
THEOREM TypeCorrect == Spec => []TypeOK
<1>1. Init => TypeOK
  <2>. SUFFICES ASSUME Init PROVE TypeOK
    OBVIOUS
  <2>1. 0 \in 0 .. MaxDrains
    BY MaxDrainsAssumption
  <2>2. active \in SUBSET Tokens /\ aborts \in SUBSET (Owners \X (1 .. MaxDrains))
    BY DEF Init
  <2>. QED
    BY <2>1, <2>2 DEF Init, TypeOK
<1>2. TypeOK /\ [Next]_vars => TypeOK'
  <2>. SUFFICES ASSUME TypeOK, [Next]_vars PROVE TypeOK'
    OBVIOUS
  <2>1. CASE UNCHANGED vars
    BY <2>1 DEF vars, TypeOK, coordinator, scheduler, http, deployers
  <2>. QED
    BY <2>1, DeployerType, SchedulerType, HttpType, LoopType, ShutdownType DEF Next, RequestTriggers
<1>3. QED
  BY <1>1, <1>2, PTL DEF Spec

-----------------------------------------------------------------------------
(* The registrations are the work in flight.                                *)

LEMMA AwakeKeeps ==
    ASSUME TypeOK, NEW l \in Loops
    PROVE  /\ Awake(loop)[l] \in {"work", "dozing", "nested"} <=> loop[l] \in {"work", "dozing", "nested"}
           /\ Awake(loop)[l] = "nested" <=> loop[l] = "nested"
BY DEF TypeOK, Awake

LEMMA SchedulerAccounts ==
    ASSUME TypeOK, TokensAccounted, NEW t \in Tasks,
           \/ \E parent : TriggerContext(t, parent)
           \/ RunScheduled(t) \/ TaskStep(t)
    PROVE  TokensAccounted'
<1>. USE AwakeKeeps DEF TypeOK, TokensAccounted, notScheduler, http, Signal, Acquire, Release
<1>1. ASSUME NEW parent, TriggerContext(t, parent)
      PROVE  TokensAccounted'
  BY <1>1 DEF TriggerContext
<1>2. CASE RunScheduled(t)
  BY <1>2 DEF RunScheduled
<1>3. CASE TakeTrigger(t)
  BY <1>3 DEF TakeTrigger
<1>4. CASE RunTriggered(t)
  BY <1>4 DEF RunTriggered
<1>5. CASE TaskReturns(t)
  BY <1>5 DEF TaskReturns
<1>6. CASE ReleaseTrigger(t)
  BY <1>6 DEF ReleaseTrigger
<1>7. CASE TaskExits(t)
  BY <1>7 DEF TaskExits
<1>. QED
  BY <1>1, <1>2, <1>3, <1>4, <1>5, <1>6, <1>7 DEF TaskStep

LEMMA HttpAccounts ==
    ASSUME TypeOK, TokensAccounted, NEW r \in Requests,
           RequestBegins(r) \/ StartBackground(r) \/ RequestReturns(r) \/ SearchReturns(r)
    PROVE  TokensAccounted'
<1>. USE AwakeKeeps DEF TypeOK, TokensAccounted, notHttp, scheduler, Signal, Acquire, Release
<1>1. CASE RequestBegins(r)
  BY <1>1 DEF RequestBegins
<1>2. CASE StartBackground(r)
  BY <1>2 DEF StartBackground
<1>3. CASE RequestReturns(r)
  BY <1>3 DEF RequestReturns
<1>4. CASE SearchReturns(r)
  BY <1>4 DEF SearchReturns
<1>. QED
  BY <1>1, <1>2, <1>3, <1>4

LEMMA LoopAccounts ==
    ASSUME TypeOK, TokensAccounted, NEW l \in Loops,
           EnterLoop(l) \/ EnterNested(l) \/ NestedReturns(l) \/ WorkReturns(l) \/ SleeperLeaves(l)
    PROVE  TokensAccounted'
<1>. USE AwakeKeeps, AwakeType
     DEF TypeOK, TokensAccounted, notLoops, notCoordinator, scheduler, http, Acquire, Release
<1>1. CASE EnterLoop(l)
  BY <1>1 DEF EnterLoop
<1>2. CASE EnterNested(l)
  BY <1>2 DEF EnterNested
<1>3. CASE NestedReturns(l)
  BY <1>3 DEF NestedReturns
<1>4. CASE WorkReturns(l)
  BY <1>4 DEF WorkReturns
<1>5. CASE SleeperLeaves(l)
  BY <1>5 DEF SleeperLeaves
<1>. QED
  BY <1>1, <1>2, <1>3, <1>4, <1>5

LEMMA OthersAccount ==
    ASSUME TypeOK, TokensAccounted,
           \/ \E o \in Owners : StartDrain(o) \/ SendAbort(o) \/ \E g \in 1 .. MaxDrains : AbortDrain(o, g)
           \/ CancelRun \/ CloseAdmission \/ BeginShutdown
           \/ UNCHANGED vars
    PROVE  TokensAccounted'
<1>1. /\ UNCHANGED <<active, trigger, task, request, search>>
      /\ loop' = loop \/ loop' = Awake(loop)
  BY DEF StartDrain, SendAbort, AbortDrain, CancelRun, CloseAdmission, BeginShutdown, Signal,
         coordinator, notCoordinator, scheduler, http, vars
<1>. QED
  BY <1>1, AwakeKeeps DEF TokensAccounted, TypeOK

\* What the drain status counts is exactly what is running or waiting in a
\* trigger channel: admissions are neither leaked nor forgotten, whatever
\* interleaves with the drain and the shutdown.
THEOREM Accounting == Spec => []TokensAccounted
<1>1. Init => TokensAccounted
  BY DEF Init, TokensAccounted
<1>2. TypeOK /\ TokensAccounted /\ [Next]_vars => TokensAccounted'
  BY SchedulerAccounts, HttpAccounts, LoopAccounts, OthersAccount DEF Next, RequestTriggers
<1>3. QED
  BY <1>1, <1>2, TypeCorrect, PTL DEF Spec

-----------------------------------------------------------------------------
(* What a deployer may rely on.                                             *)

\* After "drained" nothing begins until the drain is aborted: every way to
\* work passes the coordinator, and a child needs a parent that is registered.
THEOREM DrainedIsQuiet == Spec => DrainedStays
<1>. DEFINE Stays == paused /\ active = {} => ~paused' \/ active' = {}
<1>1. ASSUME TypeOK, TokensAccounted, [Next]_vars
      PROVE  [Stays]_vars
  <2>. SUFFICES ASSUME paused, active = {}, Next
                PROVE  active' = {}
    BY <1>1
  <2>1. \A parent : ~Admitted(parent)
    BY DEF Admitted
  <2>2. ASSUME NEW t \in Tasks,
               (\E parent : TriggerContext(t, parent)) \/ RunScheduled(t) \/ TaskStep(t)
        PROVE  active' = {}
    BY <1>1, <2>1, <2>2
    DEF TriggerContext, RunScheduled, TaskStep, TakeTrigger, RunTriggered, TaskReturns,
        ReleaseTrigger, TaskExits, Release, TokensAccounted
  <2>3. ASSUME NEW r \in Requests,
               RequestBegins(r) \/ StartBackground(r) \/ RequestReturns(r) \/ SearchReturns(r)
        PROVE  active' = {}
    BY <2>1, <2>3 DEF RequestBegins, StartBackground, RequestReturns, SearchReturns, Release
  <2>4. ASSUME NEW l \in Loops,
               EnterLoop(l) \/ EnterNested(l) \/ NestedReturns(l) \/ WorkReturns(l) \/ SleeperLeaves(l)
        PROVE  active' = {}
    BY <2>1, <2>4 DEF EnterLoop, EnterNested, NestedReturns, WorkReturns, SleeperLeaves, Release
  <2>5. CASE \/ \E o \in Owners : StartDrain(o) \/ SendAbort(o) \/ \E g \in 1 .. MaxDrains : AbortDrain(o, g)
             \/ CancelRun \/ CloseAdmission \/ BeginShutdown
    BY <2>5 DEF StartDrain, SendAbort, AbortDrain, CancelRun, CloseAdmission, BeginShutdown, coordinator
  <2>. QED
    BY <2>2, <2>3, <2>4, <2>5 DEF Next, RequestTriggers
<1>2. QED
  BY <1>1, TypeCorrect, Accounting, PTL DEF Spec, DrainedStays

\* A drain a deployer was told about ends only by that deployer's own abort
\* of that very drain, however long other aborts were delayed or repeated.
THEOREM DrainIsOwned == Spec => []DrainHolds
<1>1. Init => DrainHolds
  BY DEF Init, DrainHolds
<1>2. TypeOK /\ DrainHolds /\ [Next]_vars => DrainHolds'
  <2>. SUFFICES ASSUME TypeOK, DrainHolds, [Next]_vars PROVE DrainHolds'
    OBVIOUS
  <2>1. ASSUME NEW o \in Owners, StartDrain(o)
        PROVE  DrainHolds'
    BY <2>1 DEF StartDrain, DrainHolds, TypeOK
  <2>2. ASSUME NEW o \in Owners, SendAbort(o)
        PROVE  DrainHolds'
    BY <2>2 DEF SendAbort, coordinator, DrainHolds, TypeOK
  <2>3. ASSUME NEW o \in Owners, NEW g \in 1 .. MaxDrains, AbortDrain(o, g)
        PROVE  DrainHolds'
    BY <2>3 DEF AbortDrain, AbortMatches, deployers, DrainHolds, TypeOK
  <2>4. CASE UNCHANGED <<paused, generation, owner, told, aborts>>
    BY <2>4 DEF DrainHolds
  <2>. QED
    BY <2>1, <2>2, <2>3, <2>4
    DEF Next, vars, coordinator, deployers, RequestTriggers, TriggerContext, RunScheduled, TaskStep,
        TakeTrigger, RunTriggered, TaskReturns, ReleaseTrigger, TaskExits, RequestBegins,
        StartBackground, RequestReturns, SearchReturns, EnterLoop, EnterNested, NestedReturns,
        WorkReturns, SleeperLeaves, CancelRun, CloseAdmission, BeginShutdown, notScheduler,
        notHttp, notLoops
<1>3. QED
  BY <1>1, <1>2, TypeCorrect, PTL DEF Spec

-----------------------------------------------------------------------------
(* No lost wake-up.                                                         *)

\* What matters to a sleeper: either admission is as it was, and nobody fell
\* asleep, or everyone was woken.
LEMMA Sleeping ==
    ASSUME TypeOK, SleepersHaveReason,
           \/ loop' = Awake(loop)
           \/ UNCHANGED <<loop, paused, terminal>>
    PROVE  SleepersHaveReason'
<1>1. CASE loop' = Awake(loop)
  <2>1. loop' \in [Loops -> {"idle", "work", "nested", "exited"}]
    BY <1>1, AwakeType
  <2>. QED
    BY <2>1 DEF SleepersHaveReason
<1>2. CASE UNCHANGED <<loop, paused, terminal>>
  BY <1>2 DEF SleepersHaveReason
<1>3. QED
  BY <1>1, <1>2

LEMMA LoopSleeps ==
    ASSUME TypeOK, TokensAccounted, SleepersHaveReason, NEW l \in Loops,
           EnterLoop(l) \/ EnterNested(l) \/ NestedReturns(l) \/ WorkReturns(l) \/ SleeperLeaves(l)
    PROVE  SleepersHaveReason'
<1>. USE DEF SleepersHaveReason, notLoops
<1>1. ASSUME NEW x \in {"work", "nested", "idle"}, loop' = [Awake(loop) EXCEPT ![l] = x]
      PROVE  SleepersHaveReason'
  BY <1>1, AwakeType
<1>2. CASE EnterLoop(l)
  <2>1. CASE ~cancelled /\ Admitted(NoToken)
    BY <1>1, <1>2, <2>1 DEF EnterLoop
  <2>2. CASE ~(~cancelled /\ Admitted(NoToken)) /\ (cancelled \/ terminal)
    BY <1>2, <2>2 DEF EnterLoop, TypeOK
  <2>3. CASE ~(~cancelled /\ Admitted(NoToken)) /\ ~(cancelled \/ terminal)
    BY <1>2, <2>3 DEF EnterLoop, Admitted, TypeOK
  <2>. QED
    BY <2>1, <2>2, <2>3
<1>3. CASE EnterNested(l)
  <2>1. Admitted(<<"work", l>>)
    BY <1>3 DEF EnterNested, Admitted, TokensAccounted
  <2>. QED
    BY <1>1, <1>3, <2>1 DEF EnterNested
<1>4. CASE NestedReturns(l) \/ WorkReturns(l)
  BY <1>1, <1>4 DEF NestedReturns, WorkReturns
<1>5. CASE SleeperLeaves(l)
  BY <1>5 DEF SleeperLeaves, TypeOK
<1>6. QED
  BY <1>2, <1>3, <1>4, <1>5

\* Whoever waits in Enter waits for a drain that is in force: an abort, a
\* shutdown and every release wake all sleepers, and work that enters again
\* from inside its own admission is never made to wait, so a drain cannot
\* wait for a loop that waits for the drain.
THEOREM NoLostWakeup == Spec => []SleepersHaveReason
<1>1. Init => SleepersHaveReason
  BY DEF Init, SleepersHaveReason
<1>2. TypeOK /\ TokensAccounted /\ SleepersHaveReason /\ [Next]_vars => SleepersHaveReason'
  <2>. SUFFICES ASSUME TypeOK, TokensAccounted, SleepersHaveReason, [Next]_vars
                PROVE  SleepersHaveReason'
    OBVIOUS
  <2>1. CASE \E o \in Owners : StartDrain(o) \/ SendAbort(o) \/ \E g \in 1 .. MaxDrains : AbortDrain(o, g)
    BY <2>1, Sleeping DEF StartDrain, SendAbort, AbortDrain, Signal, coordinator
  <2>2. ASSUME NEW t \in Tasks,
               (\E parent : TriggerContext(t, parent)) \/ RunScheduled(t) \/ TaskStep(t)
        PROVE  SleepersHaveReason'
    BY <2>2, Sleeping
    DEF TriggerContext, RunScheduled, TaskStep, TakeTrigger, RunTriggered, TaskReturns,
        ReleaseTrigger, TaskExits, Signal, notScheduler
  <2>3. ASSUME NEW r \in Requests,
               RequestBegins(r) \/ StartBackground(r) \/ RequestReturns(r) \/ SearchReturns(r)
        PROVE  SleepersHaveReason'
    BY <2>3, Sleeping DEF RequestBegins, StartBackground, RequestReturns, SearchReturns, Signal
  <2>4. CASE CancelRun \/ CloseAdmission \/ BeginShutdown \/ UNCHANGED vars
    BY <2>4, Sleeping DEF CancelRun, CloseAdmission, BeginShutdown, Signal, coordinator, vars
  <2>. QED
    BY <2>1, <2>2, <2>3, <2>4, LoopSleeps DEF Next, RequestTriggers
<1>3. QED
  BY <1>1, <1>2, TypeCorrect, Accounting, PTL DEF Spec
================================================================================
