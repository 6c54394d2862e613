----------------------------- MODULE MCDelivery -----------------------------
(* What a Runner hands over: a delivery of a selected and an excess file,    *)
(* with two consumer receipt ids and two deletion requests, which are only   *)
(* ever compared; and a recovery hand-off of one file.  "focus" says which   *)
(* of the two moves in a behaviour; the other stays in one initial state.    *)
EXTENDS Delivery, Recovery, TLC

CONSTANTS m, x, c1, c2, b1, b2

VARIABLE focus

Ids == Permutations(Consumers) \cup Permutations(Batches)

HandoverInit ==
    /\ focus \in {"delivery", "recovery"}
    /\ Init /\ RecoveryInit
    /\ focus # "recovery" => recorded = {} /\ \A f \in StagedFiles : onDisk[f] = "none"

HandoverNext ==
    /\ UNCHANGED focus
    /\ \/ focus = "delivery" /\ Next /\ UNCHANGED recoveryVars
       \/ focus = "recovery" /\ RecoveryNext /\ UNCHANGED vars

HandoverSpec == HandoverInit /\ [][HandoverNext]_<<focus, vars, recoveryVars>>
=============================================================================
