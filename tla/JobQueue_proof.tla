----------------------------- MODULE JobQueue_proof -----------------------------
(***************************************************************************)
(* Proofs about JobQueue, for every number of jobs, keys, workers and      *)
(* nodes and every bound on attempts, deferrals, stalls and crashes.       *)
(***************************************************************************)
EXTENDS JobQueue, TLAPS

LEMMA RowType ==
    ASSUME TypeOK,
           \/ \E k \in Keys, p \in Priorities :
                 \/ EnqueueDuplicate(k, p)
                 \/ \E j \in Ids : Enqueue(j, k, p)
           \/ \E j \in Ids : BackoffElapses(j) \/ PruneFinishedJobs(j)
    PROVE  TypeOK'
<1>. USE DEF TypeOK, workers, bounds, States
<1>1. ASSUME NEW k \in Keys, NEW p \in Priorities, EnqueueDuplicate(k, p)
      PROVE  TypeOK'
  BY <1>1 DEF EnqueueDuplicate
<1>2. ASSUME NEW k \in Keys, NEW p \in Priorities, NEW j \in Ids, Enqueue(j, k, p)
      PROVE  TypeOK'
  BY <1>2 DEF Enqueue
<1>3. ASSUME NEW j \in Ids, BackoffElapses(j) \/ PruneFinishedJobs(j)
      PROVE  TypeOK'
  BY <1>3 DEF BackoffElapses, PruneFinishedJobs
<1>4. QED
  BY <1>1, <1>2, <1>3

LEMMA RetireType ==
    ASSUME TypeOK, NEW j \in Ids, NEW s \in States, Retire(j, s)
    PROVE  /\ state' \in [Ids -> States]
           /\ owner' \in [Ids -> Nodes \cup {NoNode}]
           /\ expired' \in [Ids -> BOOLEAN]
BY DEF TypeOK, Retire

LEMMA IdleType ==
    ASSUME TypeOK, NEW w \in All, Idle(w)
    PROVE  /\ running' \in [All -> Ids \cup {NoJob}]
           /\ claimed' \in [All -> Nat]
           /\ lost' \in [All -> BOOLEAN]
BY DEF TypeOK, Idle

LEMMA WorkerType ==
    ASSUME TypeOK, NEW w \in All,
           \/ \E j \in Ids : Claim(w, j)
           \/ Heartbeat(w) \/ Finish(w) \/ FinishLost(w)
    PROVE  TypeOK'
<1>. LeaseOwner(w) \in Nodes
  BY DEF LeaseOwner, Nodes
<1>. running[w] # NoJob => running[w] \in Ids
  BY DEF TypeOK
<1>1. ASSUME NEW j \in Ids, Claim(w, j)
      PROVE  TypeOK'
  <2>1. attempts' \in [Ids -> Nat] /\ claimed' \in [All -> Nat]
    BY <1>1 DEF TypeOK, Claim
  <2>2. QED
    BY <1>1, <2>1 DEF TypeOK, Claim, bounds, States
<1>2. CASE Heartbeat(w)
  BY <1>2 DEF Heartbeat, TypeOK, bounds
<1>3. CASE CompleteJob(w) \/ FailJob(w)
  BY <1>3, RetireType, IdleType DEF CompleteJob, FailJob, TypeOK, bounds, States
<1>4. CASE RetryJob(w)
  BY <1>4, RetireType, IdleType DEF RetryJob, TypeOK, bounds, States
<1>5. CASE DeferJob(w)
  <2>1. attempts' \in [Ids -> Nat] /\ defers' \in [Ids -> 0 .. MaxDefers]
    BY <1>5, BoundsAssumption DEF DeferJob, TypeOK
  <2>2. QED
    BY <1>5, <2>1, RetireType, IdleType DEF DeferJob, TypeOK, States
<1>6. CASE FinishLost(w)
  <2>1. crashes' \in 0 .. MaxCrashes
    BY <1>6, BoundsAssumption DEF FinishLost, TypeOK
  <2>2. QED
    BY <1>6, <2>1, IdleType DEF FinishLost, TypeOK, rows
<1>7. QED
  BY <1>1, <1>2, <1>3, <1>4, <1>5, <1>6 DEF Finish

LEMMA LeaseType ==
    ASSUME TypeOK,
           \/ \E j \in Ids : LeaseExpires(j)
           \/ ReclaimExpiredLeases
           \/ \E n \in Nodes : Crash(n)
    PROVE  TypeOK'
<1>1. ASSUME NEW j \in Ids, LeaseExpires(j)
      PROVE  TypeOK'
  <2>1. stalls' \in 0 .. MaxStalls
    BY <1>1, BoundsAssumption DEF LeaseExpires, TypeOK
  <2>2. QED
    BY <1>1, <2>1 DEF LeaseExpires, TypeOK, workers
<1>2. CASE ReclaimExpiredLeases
  BY <1>2 DEF ReclaimExpiredLeases, ReclaimedState, TypeOK, workers, bounds, States
<1>3. ASSUME NEW n \in Nodes, Crash(n)
      PROVE  TypeOK'
  <2>1. crashes' \in 0 .. MaxCrashes
    BY <1>3, BoundsAssumption DEF Crash, TypeOK
  <2>2. QED
    BY <1>3, <2>1 DEF Crash, TypeOK, rows
<1>4. QED
  BY <1>1, <1>2, <1>3

\* Every column of the jobs table and every worker keeps its type.
THEOREM TypeCorrect == Spec => []TypeOK
<1>1. Init => TypeOK
  BY BoundsAssumption, KeysAssumption DEF Init, TypeOK, States, Priorities
<1>2. TypeOK /\ [Next]_vars => TypeOK'
  <2>. SUFFICES ASSUME TypeOK, [Next]_vars PROVE TypeOK'
    OBVIOUS
  <2>1. CASE UNCHANGED vars
    BY <2>1 DEF vars, rows, workers, bounds, TypeOK
  <2>2. QED
    BY <2>1, RowType, WorkerType, LeaseType DEF Next
<1>3. QED
  BY <1>1, <1>2, PTL DEF Spec

-----------------------------------------------------------------------------
(* The dedupe key.                                                          *)

\* A step that sets no other row active than those that were, and leaves
\* their keys alone, keeps the keys of active rows apart.
LEMMA NoNewActiveRow ==
    ASSUME TypeOK, OneActivePerKey, UNCHANGED key,
           \A i \in Ids : state'[i] \in {"queued", "leased"} => state[i] \in {"queued", "leased"}
    PROVE  OneActivePerKey'
BY DEF OneActivePerKey

LEMMA WorkerKeepsKeys ==
    ASSUME TypeOK, OneActivePerKey, NEW w \in All,
           \/ \E j \in Ids : Claim(w, j)
           \/ Heartbeat(w) \/ Finish(w) \/ FinishLost(w)
    PROVE  OneActivePerKey'
<1>1. ASSUME NEW j \in Ids, Claim(w, j)
      PROVE  OneActivePerKey'
  BY <1>1, NoNewActiveRow DEF TypeOK, Claim, Claimable
<1>2. CASE Heartbeat(w) \/ FinishLost(w)
  BY <1>2, NoNewActiveRow DEF Heartbeat, FinishLost, rows
<1>3. CASE CompleteJob(w) \/ FailJob(w)
  BY <1>3, NoNewActiveRow DEF TypeOK, CompleteJob, FailJob, Retire
<1>4. CASE RetryJob(w)
  <2>. DEFINE j == running[w]
  <2>1. j \in Ids /\ UNCHANGED key
    BY <1>4 DEF RetryJob, TypeOK
  <2>2. CASE UNCHANGED state
    BY <2>1, <2>2, NoNewActiveRow
  <2>3. CASE ~Collides(j, key[j]) /\ Retire(j, "queued")
    BY <2>1, <2>3 DEF OneActivePerKey, Collides, Active, Retire, TypeOK
  <2>4. QED
    BY <1>4, <2>2, <2>3 DEF RetryJob
<1>5. CASE DeferJob(w)
  BY <1>5, NoNewActiveRow DEF TypeOK, DeferJob, Retire
<1>6. QED
  BY <1>1, <1>2, <1>3, <1>4, <1>5 DEF Finish

\* The partial unique index holds the dedupe promise under every interleaving
\* of enqueue, retry, deferral, reclaim, prune and crash: the late retry of a
\* job that was retired and enqueued again is the case that could break it.
THEOREM KeysAreDistinct == Spec => []OneActivePerKey
<1>1. Init => OneActivePerKey
  BY DEF Init, OneActivePerKey
<1>2. TypeOK /\ OneActivePerKey /\ [Next]_vars => OneActivePerKey'
  <2>. SUFFICES ASSUME TypeOK, OneActivePerKey, [Next]_vars PROVE OneActivePerKey'
    OBVIOUS
  <2>1. ASSUME NEW k \in Keys, NEW p \in Priorities, NEW j \in Ids, Enqueue(j, k, p)
        PROVE  OneActivePerKey'
    BY <2>1 DEF Enqueue, Collides, Active, OneActivePerKey, TypeOK
  <2>2. ASSUME NEW k \in Keys, NEW p \in Priorities, EnqueueDuplicate(k, p)
        PROVE  OneActivePerKey'
    BY <2>2, NoNewActiveRow DEF EnqueueDuplicate
  <2>3. ASSUME NEW j \in Ids, BackoffElapses(j) \/ LeaseExpires(j) \/ PruneFinishedJobs(j)
        PROVE  OneActivePerKey'
    BY <2>3, NoNewActiveRow DEF BackoffElapses, LeaseExpires, PruneFinishedJobs, TypeOK
  <2>4. CASE ReclaimExpiredLeases
    BY <2>4, NoNewActiveRow DEF ReclaimExpiredLeases
  <2>5. ASSUME NEW n \in Nodes, Crash(n)
        PROVE  OneActivePerKey'
    BY <2>5, NoNewActiveRow DEF Crash, rows
  <2>6. CASE UNCHANGED vars
    BY <2>6, NoNewActiveRow DEF vars, rows
  <2>7. QED
    BY <2>1, <2>2, <2>3, <2>4, <2>5, <2>6, WorkerKeepsKeys DEF Next
<1>3. QED
  BY <1>1, <1>2, TypeCorrect, PTL DEF Spec

-----------------------------------------------------------------------------
(* Leases, while heartbeats are on time.                                    *)

LEMMA StallsGrow ==
    ASSUME TypeOK, [Next]_vars, stalls' = 0
    PROVE  stalls = 0
<1>1. ASSUME NEW j \in Ids, LeaseExpires(j)
      PROVE  stalls = 0
  BY <1>1 DEF LeaseExpires, TypeOK
<1>2. QED
  BY <1>1 DEF Next, vars, bounds, EnqueueDuplicate, Enqueue, BackoffElapses, PruneFinishedJobs,
     Claim, Heartbeat, Finish, CompleteJob, FailJob, RetryJob, DeferJob, FinishLost,
     ReclaimExpiredLeases, Crash

LEMMA ClaimKeepsDiscipline ==
    ASSUME TypeOK, LeaseDiscipline, NEW w \in All, NEW j \in Ids, Claim(w, j)
    PROVE  LeaseDiscipline'
<1>1. \A v \in All : running[v] # j
  BY IdsAssumption DEF LeaseDiscipline, Claim, Claimable
<1>2. QED
  BY <1>1, BoundsAssumption DEF LeaseDiscipline, Claim, Claimable, TypeOK

LEMMA FinishKeepsDiscipline ==
    ASSUME TypeOK, LeaseDiscipline, NEW w \in All, Finish(w) \/ FinishLost(w)
    PROVE  LeaseDiscipline'
<1>. DEFINE j == running[w]
<1>1. /\ j \in Ids
      /\ state[j] = "leased"
      /\ claimed[w] = attempts[j]
      /\ \A v \in All \ {w} : running[v] # j
      /\ Idle(w)
  BY DEF Finish, CompleteJob, FailJob, RetryJob, DeferJob, FinishLost, LeaseDiscipline, TypeOK
<1>2. CASE CompleteJob(w) \/ FailJob(w)
  BY <1>1, <1>2 DEF CompleteJob, FailJob, Retire, Idle, LeaseDiscipline, TypeOK
<1>3. CASE RetryJob(w)
  <2>1. attempts[j] < MaxAttempts
    BY <1>1, <1>3, BoundsAssumption DEF RetryJob, OutOfAttempts, TypeOK
  <2>2. QED
    BY <1>1, <1>3, <2>1 DEF RetryJob, Retire, Idle, LeaseDiscipline, TypeOK
<1>4. CASE DeferJob(w)
  <2>1. CASE UNCHANGED <<state, owner, expired, attempts, ready, defers>>
    BY <1>1, <2>1 DEF Idle, LeaseDiscipline, TypeOK
  <2>2. CASE /\ Retire(j, "queued")
             /\ attempts' = [attempts EXCEPT ![j] = IF @ > 0 THEN @ - 1 ELSE 0]
    <3>1. attempts'[j] < MaxAttempts
      BY <1>1, <2>2, BoundsAssumption DEF LeaseDiscipline, TypeOK
    <3>2. QED
      BY <1>1, <2>2, <3>1, BoundsAssumption DEF Retire, Idle, LeaseDiscipline, TypeOK
  <2>3. QED
    BY <1>4, <2>1, <2>2 DEF DeferJob
<1>5. CASE FinishLost(w)
  BY <1>1, <1>5 DEF FinishLost, rows, Idle, LeaseDiscipline, TypeOK
<1>6. QED
  BY <1>2, <1>3, <1>4, <1>5 DEF Finish

LEMMA OtherStepKeepsDiscipline ==
    ASSUME TypeOK, LeaseDiscipline, stalls' = 0, stalls = 0,
           \/ \E k \in Keys, p \in Priorities :
                 \/ EnqueueDuplicate(k, p)
                 \/ \E j \in Ids : Enqueue(j, k, p)
           \/ \E j \in Ids : BackoffElapses(j) \/ LeaseExpires(j) \/ PruneFinishedJobs(j)
           \/ \E w \in All : Heartbeat(w)
           \/ ReclaimExpiredLeases
           \/ \E n \in Nodes : Crash(n)
    PROVE  LeaseDiscipline'
<1>1. ASSUME NEW k \in Keys, NEW p \in Priorities, EnqueueDuplicate(k, p)
      PROVE  LeaseDiscipline'
  BY <1>1 DEF EnqueueDuplicate, LeaseDiscipline, workers
<1>2. ASSUME NEW k \in Keys, NEW p \in Priorities, NEW j \in Ids, Enqueue(j, k, p)
      PROVE  LeaseDiscipline'
  BY <1>2 DEF Enqueue, LeaseDiscipline, workers, TypeOK
<1>3. ASSUME NEW j \in Ids, BackoffElapses(j) \/ PruneFinishedJobs(j)
      PROVE  LeaseDiscipline'
  BY <1>3 DEF BackoffElapses, PruneFinishedJobs, LeaseDiscipline, workers, TypeOK
<1>4. ASSUME NEW j \in Ids, LeaseExpires(j)
      PROVE  LeaseDiscipline'
  <2>1. \A w \in All : running[w] # j
    BY <1>4 DEF LeaseExpires
  <2>2. QED
    BY <1>4, <2>1 DEF LeaseExpires, LeaseDiscipline, workers, TypeOK
<1>5. ASSUME NEW w \in All, Heartbeat(w)
      PROVE  LeaseDiscipline'
  BY <1>5 DEF Heartbeat, LeaseDiscipline, TypeOK
<1>6. CASE ReclaimExpiredLeases
  <2>1. \A w \in All : running[w] # NoJob =>
           state'[running[w]] = state[running[w]] /\ expired'[running[w]] = expired[running[w]]
    BY <1>6 DEF ReclaimExpiredLeases, LeaseDiscipline, TypeOK
  <2>2. \A i \in Ids : state'[i] \in {"absent", "queued"} => attempts[i] < MaxAttempts
    BY <1>6, BoundsAssumption DEF ReclaimExpiredLeases, ReclaimedState, LeaseDiscipline, TypeOK
  <2>3. QED
    BY <1>6, <2>1, <2>2 DEF ReclaimExpiredLeases, LeaseDiscipline, workers
<1>7. ASSUME NEW n \in Nodes, Crash(n)
      PROVE  LeaseDiscipline'
  BY <1>7 DEF Crash, rows, LeaseDiscipline, TypeOK
<1>8. QED
  BY <1>1, <1>2, <1>3, <1>4, <1>5, <1>6, <1>7

\* The inductive invariant of the lease protocol: while heartbeats are on
\* time, a running handler holds an unexpired lease that counts its attempt.
THEOREM LeasesAreKept == Spec => []OnTime
<1>1. Init => OnTime
  BY BoundsAssumption DEF Init, OnTime, LeaseDiscipline
<1>2. TypeOK /\ OnTime /\ [Next]_vars => OnTime'
  <2>. SUFFICES ASSUME TypeOK, OnTime, [Next]_vars, stalls' = 0
                PROVE  LeaseDiscipline'
    BY DEF OnTime
  <2>1. stalls = 0 /\ LeaseDiscipline
    BY StallsGrow DEF OnTime
  <2>2. CASE UNCHANGED vars
    BY <2>1, <2>2 DEF vars, rows, workers, LeaseDiscipline
  <2>3. QED
    BY <2>1, <2>2, ClaimKeepsDiscipline, FinishKeepsDiscipline, OtherStepKeepsDiscipline DEF Next
<1>3. QED
  BY <1>1, <1>2, TypeCorrect, PTL DEF Spec

\* A lease whose heartbeats are on time has one runner, through crashes and
\* reclaims: "cancel the work rather than let two nodes write the same
\* result" is only ever needed after a stall.
THEOREM OneRunner == Spec => []OneRunnerPerJob
<1>1. OnTime => OneRunnerPerJob
  BY DEF OnTime, LeaseDiscipline, OneRunnerPerJob
<1>2. QED
  BY <1>1, LeasesAreKept, PTL

\* The attempt budget of a job holds while heartbeats are on time.
THEOREM AttemptsHold == Spec => []AttemptsBounded
<1>1. OnTime => AttemptsBounded
  BY DEF OnTime, LeaseDiscipline, AttemptsBounded
<1>2. QED
  BY <1>1, LeasesAreKept, PTL

\* CompleteJob, RetryJob and FailJob name only the row's id; while heartbeats
\* are on time that is enough, and no late result revives a finished job.
THEOREM FinishedIsFinal == Spec => FinishedStays
<1>. DEFINE Stays == stalls = 0 => \A j \in Ids :
          /\ state[j] = "done" => state'[j] \in {"done", "pruned"}
          /\ state[j] = "failed" => state'[j] \in {"failed", "pruned"}
<1>1. ASSUME TypeOK, OnTime, [Next]_vars
      PROVE  [Stays]_vars
  <2>. SUFFICES ASSUME stalls = 0, NEW j \in Ids, state[j] \in {"done", "failed"}
                PROVE  state'[j] \in {state[j], "pruned"}
    OBVIOUS
  <2>1. \A w \in All : running[w] # j
    BY <1>1, IdsAssumption DEF OnTime, LeaseDiscipline
  <2>2. ASSUME NEW w \in All, Finish(w)
        PROVE  state'[j] = state[j]
    BY <1>1, <2>1, <2>2
    DEF Finish, CompleteJob, FailJob, RetryJob, DeferJob, Retire, TypeOK
  <2>3. CASE ReclaimExpiredLeases
    BY <2>3 DEF ReclaimExpiredLeases
  <2>4. ASSUME NEW i \in Ids, PruneFinishedJobs(i)
        PROVE  state'[j] \in {state[j], "pruned"}
    BY <1>1, <2>4 DEF PruneFinishedJobs, TypeOK
  <2>5. ASSUME NEW i \in Ids, NEW k \in Keys, NEW p \in Priorities, Enqueue(i, k, p)
        PROVE  state'[j] = state[j]
    BY <1>1, <2>5 DEF Enqueue, TypeOK
  <2>6. ASSUME NEW w \in All, NEW i \in Ids, Claim(w, i)
        PROVE  state'[j] = state[j]
    BY <1>1, <2>6 DEF Claim, Claimable, TypeOK
  <2>7. CASE UNCHANGED state
    BY <2>7
  <2>8. QED
    BY <1>1, <2>2, <2>3, <2>4, <2>5, <2>6, <2>7
    DEF Next, vars, rows, EnqueueDuplicate, BackoffElapses, LeaseExpires, Heartbeat, FinishLost, Crash
<1>2. QED
  BY <1>1, TypeCorrect, LeasesAreKept, PTL DEF Spec, FinishedStays
=================================================================================
