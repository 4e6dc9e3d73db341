------------------------------ MODULE MCBuilds ------------------------------
(***************************************************************************)
(* A build of several nodes, and what is told of the outcomes of builds,   *)
(* for TLC.  The two are joined by one transaction only, the terminal one, *)
(* which Notifications takes as given: a behaviour runs one of them and    *)
(* leaves the other where it starts, so the run covers the sum of their    *)
(* states, not the product.                                                *)
(***************************************************************************)
EXTENDS MCDagBuild, Notifications

VARIABLE part

(* Two builds with a status of one commit, or one build with a webhook; the  *)
(* first build is retried once, and ends otherwise.  Either it is retried or *)
(* a crash, a lost answer or a late write happens, not both.                 *)
TwoStatuses == <<"github_status", "github_status">>
TwoTargets == {TwoStatuses, <<"webhook", "none">>}
FirstRetried == << <<"failed", "succeeded">>, <<"failed">> >>

BuildsInit ==
    /\ part \in {"graph", "delivery"}
    /\ Init /\ DeliveryInit
    /\ part = "graph" => kind = TwoStatuses
    /\ part = "delivery" => contract = Fork

BuildsNext ==
    \/ part = "graph" /\ Next /\ UNCHANGED <<part, deliveryVars>>
    \/ /\ part = "delivery" /\ DeliveryNext
       /\ faults' = 0 \/ row'[1].generation <= 1
       /\ UNCHANGED <<part, vars>>

BuildsSpec == BuildsInit /\ [][BuildsNext]_<<part, vars, deliveryVars>>

(* Every row of both holds values its columns admit. *)
BuildsTypeOK == TypeOK /\ DeliveryTypeOK

(* No action singles out a task. *)
Symmetry == Permutations(Tasks)
=============================================================================
