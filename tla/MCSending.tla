------------------------------ MODULE MCSending ------------------------------
(* What is sent to the download client and what it leaves behind: single     *)
(* submissions, the parts of a season plan, and the payloads in the          *)
(* completed folder.  "focus" says which of them moves in a behaviour; the   *)
(* others stay in one initial state.                                         *)
EXTENDS Submission, SeasonPlan, Payloads

VARIABLE focus

\* One download with every fault, or two downloads of a client without tokens
\* and without faults.
OneOrTwoGrabs ==
    /\ download[1] = NoGrab
    /\ \/ download[2] = DeletedRow /\ subFaults = 0
       \/ /\ download[2] = NoGrab /\ subFaults = MaxSubFaults /\ capability = "legacy"
          /\ \A h \in Handles : job[h] = NoClientJob

NoGrabs ==
    /\ capability = "legacy" /\ subFaults = 0
    /\ \A d \in Grabs : download[d] = NoGrab
    /\ \A h \in Handles : job[h] = NoClientJob

\* A client whose payloads stay is looked at without a review cohort.
CleanupAllowed == ~removeCompleted => reviewed.gens = {}

SendingInit ==
    /\ focus \in {"submission", "plan", "payloads"}
    /\ SubInit /\ PlanInit /\ PayloadInit
    /\ IF focus = "submission" THEN OneOrTwoGrabs ELSE NoGrabs
    /\ IF focus = "payloads" THEN CleanupAllowed ELSE ~removeCompleted /\ reviewed.gens = {}

SendingNext ==
    /\ UNCHANGED focus
    /\ \/ focus = "submission" /\ SubNext /\ UNCHANGED <<planVars, payloadVars>>
       \/ focus = "plan" /\ PlanNext /\ UNCHANGED <<subVars, payloadVars>>
       \/ focus = "payloads" /\ PayloadNext /\ UNCHANGED <<subVars, planVars>>

SendingSpec == SendingInit /\ [][SendingNext]_<<focus, subVars, planVars, payloadVars>>
==============================================================================
