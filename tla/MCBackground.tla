---------------------------- MODULE MCBackground ----------------------------
(* The loops that run behind everything else: the job queue's pollers, and   *)
(* the dispatcher and delivery worker of the notifications.  "focus" says    *)
(* which of the two moves in a behaviour; the other stays in its initial     *)
(* state, where no action that fairness is claimed for is enabled.           *)
EXTENDS JobQueue, Notifications, TLC

CONSTANTS w1, w2, j1, j2, j3, k1, k2, k3

VARIABLE focus

OneNode == (w1 :> "n1") @@ (w2 :> "n1")

\* Rows and keys are interchangeable: rows are inserted in one order, each with
\* its own key or that of an earlier row.
InsertOrder == <<j1, j2, j3>>
KeyOrder == <<k1, k2, k3>>
Canonical ==
    \A m \in 1..3 : state[InsertOrder[m]] # "absent" =>
        /\ m > 1 => state[InsertOrder[m - 1]] # "absent"
        /\ \E h \in 1..m : key[InsertOrder[m]] = KeyOrder[h]

\* Two jobs with every fault, or as many jobs as keep both workers busy while
\* one more waits.
JobsOfFocus ==
    /\ focus = "faults" => state[j3] = "absent"
    /\ focus = "busy" => crashes = 0 /\ stalls = 0 /\ \A j \in Ids : defers[j] = 0

BackgroundInit ==
    /\ focus \in {"faults", "busy", "notify"}
    /\ Init /\ NotifyInit
    /\ focus # "notify" => notifiers[1].type = "plurx"

BackgroundNext ==
    /\ UNCHANGED focus
    /\ \/ focus # "notify" /\ Next /\ (Canonical /\ JobsOfFocus)' /\ UNCHANGED notifyVars
       \/ focus = "notify" /\ NotifyNext /\ UNCHANGED vars

BackgroundSpec ==
    /\ BackgroundInit /\ [][BackgroundNext]_<<focus, vars, notifyVars>>
    /\ Fairness /\ NotifyFairness
=============================================================================
