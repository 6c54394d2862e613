------------------------------ MODULE JobQueue ------------------------------
(***************************************************************************)
(* The leased job queue (infra/jobs and infra/sqlite/jobs.go): one SQLite  *)
(* table of jobs, workers that claim, run, heartbeat and retire them, and  *)
(* a reaper that takes back leases whose time has run out.                 *)
(*                                                                         *)
(* Time is abstracted to two flags of a row: ready (run_after has passed)  *)
(* and expired (lease_expires_at has passed).  A row identity is used      *)
(* once.  Capability and affinity routing only restrict who may claim and  *)
(* are left out; the handler is an unknown program with an outcome.        *)
(***************************************************************************)
EXTENDS Integers, FiniteSets

CONSTANTS
    Ids,            \* bound: rows ever inserted
    Keys,           \* dedupe keys
    Workers,        \* general workers, of every node
    Reserved,       \* the worker each node reserves for interactive jobs
    NodeOf,         \* the node name a worker leases under
    MaxAttempts,    \* max_attempts of every job
    MaxDefers,      \* bound: deferrals of one row
    MaxStalls,      \* bound: leases that expire under a living worker
    MaxCrashes      \* bound: node crashes

All == Workers \cup Reserved
Nodes == {NodeOf[w] : w \in All}
NoNode == "-"
NoJob == "-"
Priorities == {"interactive", "background"}
States == {"absent", "queued", "leased", "done", "failed", "pruned"}

ASSUME WorkersAssumption == NodeOf \in [All -> Nodes] /\ NoNode \notin Nodes
ASSUME IdsAssumption == NoJob \notin Ids
ASSUME KeysAssumption == Keys # {}
ASSUME BoundsAssumption ==
    /\ MaxAttempts \in Nat \ {0}
    /\ MaxDefers \in Nat /\ MaxStalls \in Nat /\ MaxCrashes \in Nat

VARIABLES
    state,      \* jobs.state
    key,        \* jobs.dedupe_key
    priority,   \* jobs.priority
    attempts,   \* jobs.attempts
    owner,      \* jobs.lease_owner
    ready,      \* run_after <= now
    expired,    \* lease_expires_at < now
    running,    \* the job a worker's handler is running
    claimed,    \* the attempts that worker's copy of the row says
    lost,       \* has the heartbeat cancelled the worker's context?
    defers, stalls, crashes

rows == <<state, key, priority, attempts, owner, ready, expired>>
workers == <<running, claimed, lost>>
bounds == <<defers, stalls, crashes>>
vars == <<rows, workers, bounds>>

TypeOK ==
    /\ state \in [Ids -> States]
    /\ key \in [Ids -> Keys]
    /\ priority \in [Ids -> Priorities]
    /\ attempts \in [Ids -> Nat]
    /\ owner \in [Ids -> Nodes \cup {NoNode}]
    /\ ready \in [Ids -> BOOLEAN]
    /\ expired \in [Ids -> BOOLEAN]
    /\ running \in [All -> Ids \cup {NoJob}]
    /\ claimed \in [All -> Nat]
    /\ lost \in [All -> BOOLEAN]
    /\ defers \in [Ids -> 0 .. MaxDefers]
    /\ stalls \in 0 .. MaxStalls
    /\ crashes \in 0 .. MaxCrashes

Init ==
    /\ state = [j \in Ids |-> "absent"]
    /\ key = [j \in Ids |-> CHOOSE k \in Keys : TRUE]
    /\ priority = [j \in Ids |-> "background"]
    /\ attempts = [j \in Ids |-> 0]
    /\ owner = [j \in Ids |-> NoNode]
    /\ ready = [j \in Ids |-> FALSE]
    /\ expired = [j \in Ids |-> FALSE]
    /\ running = [w \in All |-> NoJob]
    /\ claimed = [w \in All |-> 0]
    /\ lost = [w \in All |-> FALSE]
    /\ defers = [j \in Ids |-> 0]
    /\ stalls = 0
    /\ crashes = 0

-----------------------------------------------------------------------------
(* Enqueueing.                                                              *)

\* A mutant: an index that only covers the queued rows.
QueuedRow(j) == state[j] = "queued"

\* idx_jobs_dedupe: the rows a key must be unique among.
Active(j) == state[j] \in {"queued", "leased"}

\* The unique index as a statement sees it: setting row j active is refused
\* while another active row has its key.
Collides(j, k) == \E i \in Ids \ {j} : Active(i) /\ key[i] = k

Enqueue(j, k, p) ==
    /\ state[j] = "absent"
    /\ ~Collides(j, k)
    /\ state' = [state EXCEPT ![j] = "queued"]
    /\ key' = [key EXCEPT ![j] = k]
    /\ priority' = [priority EXCEPT ![j] = p]
    /\ ready' = [ready EXCEPT ![j] = TRUE]
    /\ UNCHANGED <<attempts, owner, expired, workers, bounds>>

\* ErrDuplicateJob, after a more urgent request has promoted a queued row.
EnqueueDuplicate(k, p) ==
    /\ p = "interactive"
    /\ \E i \in Ids :
          /\ state[i] = "queued"
          /\ key[i] = k
          /\ priority' = [priority EXCEPT ![i] = p]
    /\ UNCHANGED <<state, key, attempts, owner, ready, expired, workers, bounds>>

\* The clock passes a row's run_after.
BackoffElapses(j) ==
    /\ state[j] = "queued"
    /\ ~ready[j]
    /\ ready' = [ready EXCEPT ![j] = TRUE]
    /\ UNCHANGED <<state, key, priority, attempts, owner, expired, workers, bounds>>

-----------------------------------------------------------------------------
(* Workers.                                                                 *)

\* A mutant: the reserved worker claims like any other.
ClaimableByAll(w, j) == state[j] = "queued" /\ ready[j]

Claimable(w, j) ==
    /\ state[j] = "queued"
    /\ ready[j]
    /\ w \in Reserved => priority[j] = "interactive"

\* Pool.nodeName: the workers of a node share one lease owner.
LeaseOwner(w) == NodeOf[w]

\* ORDER BY priority: a background row only when no interactive one is there.
Claim(w, j) ==
    /\ running[w] = NoJob
    /\ Claimable(w, j)
    /\ priority[j] = "background" =>
          ~\E i \in Ids : Claimable(w, i) /\ priority[i] = "interactive"
    /\ state' = [state EXCEPT ![j] = "leased"]
    /\ owner' = [owner EXCEPT ![j] = LeaseOwner(w)]
    /\ expired' = [expired EXCEPT ![j] = FALSE]
    /\ attempts' = [attempts EXCEPT ![j] = @ + 1]
    /\ running' = [running EXCEPT ![w] = j]
    /\ claimed' = [claimed EXCEPT ![w] = attempts[j] + 1]
    /\ lost' = [lost EXCEPT ![w] = FALSE]
    /\ UNCHANGED <<key, priority, ready, bounds>>

\* HeartbeatJob: id, owner (the NODE's name) and state leased.  A lease that
\* is gone cancels the handler's context, and only that.
Heartbeat(w) ==
    /\ running[w] # NoJob
    /\ ~lost[w]
    /\ LET j == running[w] IN
         IF state[j] = "leased" /\ owner[j] = LeaseOwner(w)
           THEN expired' = [expired EXCEPT ![j] = FALSE] /\ UNCHANGED lost
           ELSE lost' = [lost EXCEPT ![w] = TRUE] /\ UNCHANGED expired
    /\ UNCHANGED <<state, key, priority, attempts, owner, ready, running, claimed, bounds>>

\* The statements of finish: UPDATE ... WHERE id = ?.  A pruned row is not
\* there any more and matches nothing.
Exists(j) == state[j] \notin {"absent", "pruned"}

Retire(j, s) ==
    /\ state' = [state EXCEPT ![j] = IF Exists(j) THEN s ELSE @]
    /\ owner' = [owner EXCEPT ![j] = NoNode]
    /\ expired' = [expired EXCEPT ![j] = FALSE]

Idle(w) ==
    /\ running' = [running EXCEPT ![w] = NoJob]
    /\ claimed' = [claimed EXCEPT ![w] = 0]
    /\ lost' = [lost EXCEPT ![w] = FALSE]

CompleteJob(w) ==
    /\ running[w] # NoJob
    /\ Retire(running[w], "done")
    /\ Idle(w)
    /\ UNCHANGED <<key, priority, attempts, ready, bounds>>

\* job.Attempts >= job.MaxAttempts, on the worker's own copy of the row.
OutOfAttempts(w) == claimed[w] >= MaxAttempts

\* ErrPermanent (which an unknown kind also is), or the last attempt.
FailJob(w) ==
    /\ running[w] # NoJob
    /\ Retire(running[w], "failed")
    /\ Idle(w)
    /\ UNCHANGED <<key, priority, attempts, ready, bounds>>

\* An error with attempts left.  The unique index may refuse the statement:
\* the row was retired meanwhile and its key enqueued again.
RetryJob(w) ==
    /\ running[w] # NoJob
    /\ ~OutOfAttempts(w)
    /\ LET j == running[w] IN
         IF Exists(j) /\ ~Collides(j, key[j])
           THEN Retire(j, "queued") /\ ready' = [ready EXCEPT ![j] = FALSE]
           ELSE UNCHANGED <<state, owner, expired, ready>>
    /\ Idle(w)
    /\ UNCHANGED <<key, priority, attempts, bounds>>

\* DeferClaimedJob refunds the attempt, and is the one statement of finish
\* that looks at the lease.
DeferJob(w) ==
    /\ running[w] # NoJob
    /\ LET j == running[w] IN
         /\ defers[j] < MaxDefers
         /\ IF state[j] = "leased" /\ owner[j] = LeaseOwner(w) /\ ~expired[j]
              THEN /\ Retire(j, "queued")
                   /\ attempts' = [attempts EXCEPT ![j] = IF @ > 0 THEN @ - 1 ELSE 0]
                   /\ ready' = [ready EXCEPT ![j] = FALSE]
                   /\ defers' = [defers EXCEPT ![j] = @ + 1]
              ELSE UNCHANGED <<state, owner, expired, attempts, ready, defers>>
    /\ Idle(w)
    /\ UNCHANGED <<key, priority, stalls, crashes>>

\* The statement itself failed (a full disk, the ten-second timeout).
FinishLost(w) ==
    /\ running[w] # NoJob
    /\ crashes < MaxCrashes
    /\ crashes' = crashes + 1
    /\ Idle(w)
    /\ UNCHANGED <<rows, defers, stalls>>

Finish(w) == CompleteJob(w) \/ FailJob(w) \/ RetryJob(w) \/ DeferJob(w)

-----------------------------------------------------------------------------
(* Leases and retention.                                                    *)

\* A mutant: expiry that does not wait for the worker's own renewals.
LeaseExpiresEarly(j) ==
    /\ state[j] = "leased"
    /\ ~expired[j]
    /\ expired' = [expired EXCEPT ![j] = TRUE]
    /\ UNCHANGED <<state, key, priority, attempts, owner, ready, workers, bounds>>

\* A lease nobody renews runs out; one that a living worker renews runs out
\* only when its heartbeats stall for two thirds of the lease.
LeaseExpires(j) ==
    /\ state[j] = "leased"
    /\ ~expired[j]
    /\ \/ ~(\E w \in All : running[w] = j) /\ UNCHANGED stalls
       \/ stalls < MaxStalls /\ stalls' = stalls + 1
    /\ expired' = [expired EXCEPT ![j] = TRUE]
    /\ UNCHANGED <<state, key, priority, attempts, owner, ready, workers, defers, crashes>>

ReclaimedState(j) == IF attempts[j] >= MaxAttempts THEN "failed" ELSE "queued"

\* A mutant: a reaper that leaves jobs without attempts to their workers.
ReclaimRetryable ==
    LET gone == {j \in Ids : state[j] = "leased" /\ expired[j] /\ attempts[j] < MaxAttempts} IN
      /\ gone # {}
      /\ state' = [j \in Ids |-> IF j \in gone THEN "queued" ELSE state[j]]
      /\ owner' = [j \in Ids |-> IF j \in gone THEN NoNode ELSE owner[j]]
      /\ expired' = [j \in Ids |-> IF j \in gone THEN FALSE ELSE expired[j]]
      /\ UNCHANGED <<key, priority, attempts, ready, workers, bounds>>

ReclaimExpiredLeases ==
    LET gone == {j \in Ids : state[j] = "leased" /\ expired[j]} IN
      /\ gone # {}
      /\ state' = [j \in Ids |-> IF j \in gone THEN ReclaimedState(j) ELSE state[j]]
      /\ owner' = [j \in Ids |-> IF j \in gone THEN NoNode ELSE owner[j]]
      /\ expired' = [j \in Ids |-> IF j \in gone THEN FALSE ELSE expired[j]]
      /\ UNCHANGED <<key, priority, attempts, ready, workers, bounds>>

PruneFinishedJobs(j) ==
    /\ state[j] \in {"done", "failed"}
    /\ state' = [state EXCEPT ![j] = "pruned"]
    /\ UNCHANGED <<key, priority, attempts, owner, ready, expired, workers, bounds>>

\* A node dies and comes back under the same name with idle workers.
Crash(n) ==
    /\ crashes < MaxCrashes
    /\ crashes' = crashes + 1
    /\ running' = [w \in All |-> IF NodeOf[w] = n THEN NoJob ELSE running[w]]
    /\ claimed' = [w \in All |-> IF NodeOf[w] = n THEN 0 ELSE claimed[w]]
    /\ lost' = [w \in All |-> IF NodeOf[w] = n THEN FALSE ELSE lost[w]]
    /\ UNCHANGED <<rows, defers, stalls>>

-----------------------------------------------------------------------------
Next ==
    \/ \E k \in Keys, p \in Priorities :
          \/ EnqueueDuplicate(k, p)
          \/ \E j \in Ids : Enqueue(j, k, p)
    \/ \E j \in Ids : BackoffElapses(j) \/ LeaseExpires(j) \/ PruneFinishedJobs(j)
    \/ \E w \in All :
          \/ \E j \in Ids : Claim(w, j)
          \/ Heartbeat(w) \/ Finish(w) \/ FinishLost(w)
    \/ ReclaimExpiredLeases
    \/ \E n \in Nodes : Crash(n)

Spec == Init /\ [][Next]_vars

FinishInteractive(w) ==
    /\ running[w] # NoJob
    /\ priority[running[w]] = "interactive"
    /\ Finish(w)

UnrenewedLeaseExpires(j) == ~(\E w \in All : running[w] = j) /\ LeaseExpires(j)

\* Pollers poll, the clock advances, the reaper ticks; no heartbeat has to
\* stall.  The handlers of general workers may run for ever; an interactive
\* job's handler returns.
Fairness ==
    /\ \A j \in Ids : WF_vars(BackoffElapses(j)) /\ WF_vars(UnrenewedLeaseExpires(j))
    /\ WF_vars(ReclaimExpiredLeases)
    /\ \A w \in All : SF_vars(\E j \in Ids : Claim(w, j))
    /\ \A w \in All : WF_vars(FinishInteractive(w))

FairSpec == Spec /\ Fairness

-----------------------------------------------------------------------------
(* Properties.                                                              *)

\* The dedupe key: never two queued or running jobs with one key, whatever a
\* late retry, a reclaim or a duplicate request does.
OneActivePerKey ==
    \A i, j \in Ids :
        {state[i], state[j]} \subseteq {"queued", "leased"} /\ key[i] = key[j] => i = j

\* While heartbeats are on time a lease has one runner: two workers never
\* run the same job, not even across the crash of a node and a reclaim.
OneRunnerPerJob ==
    stalls = 0 =>
        \A v, w \in All : running[v] # NoJob /\ running[v] = running[w] => v = w

\* While heartbeats are on time the attempt budget holds across crashes,
\* reclaims, lost results and refunds.
AttemptsBounded == stalls = 0 => \A j \in Ids : attempts[j] <= MaxAttempts

\* The lease discipline behind the three properties above and below, strong
\* enough to be inductive: a worker's job is leased, unexpired and counts the
\* attempt the worker believes in, and a job outside a lease has attempts left.
LeaseDiscipline ==
    /\ \A w \in All : running[w] # NoJob =>
          /\ state[running[w]] = "leased"
          /\ ~expired[running[w]]
          /\ claimed[w] = attempts[running[w]]
    /\ \A v, w \in All : running[v] # NoJob /\ running[v] = running[w] => v = w
    /\ \A j \in Ids : attempts[j] <= MaxAttempts
    /\ \A j \in Ids : state[j] \in {"absent", "queued"} => attempts[j] < MaxAttempts

OnTime == stalls = 0 => LeaseDiscipline

\* While heartbeats are on time a finished job stays finished: no late result
\* of a worker brings it back.
FinishedStays ==
    [][stalls = 0 => \A j \in Ids :
          /\ state[j] = "done" => state'[j] \in {"done", "pruned"}
          /\ state[j] = "failed" => state'[j] \in {"failed", "pruned"}]_vars

\* "the worker should stop rather than write a result someone else owns"
\* (HeartbeatJob): only the worker of the current claim changes a row it has
\* run.
ResultOnlyFromHolder ==
    [][\A w \in All : running[w] # NoJob /\ running'[w] = NoJob =>
          LET j == running[w] IN
            state'[j] # state[j] => state[j] = "leased" /\ attempts[j] = claimed[w]]_vars

\* "A node that dies mid-job strands nothing" (ReclaimExpiredLeases): as long
\* as handlers return, every job is finished in the end, through crashes,
\* lost results, stalled leases and backoff.
NothingStranded ==
    (\A w \in All : []<>(running[w] = NoJob)) =>
        \A j \in Ids : state[j] \in {"queued", "leased"} ~> state[j] \in {"done", "failed", "pruned"}

\* The reserved worker: an interactive job that is ready is taken up even if
\* every general worker is busy for ever.
InteractiveServed ==
    \A j \in Ids : (state[j] = "queued" /\ priority[j] = "interactive" /\ ready[j])
        ~> state[j] # "queued"
=============================================================================
