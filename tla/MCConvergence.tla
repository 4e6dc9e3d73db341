---------------------------- MODULE MCConvergence ----------------------------
(***************************************************************************)
(* What must come to rest, for TLC: a cancelled build of ControllerTruth,  *)
(* and the notification of a terminal one.  The two share no state, so a   *)
(* behaviour runs one of them and leaves the other where it starts, where  *)
(* none of its fair actions is enabled.                                    *)
(***************************************************************************)
EXTENDS ControllerTruth

VARIABLES part, kind, row, task, shown, late, accepted, faults, lates

deliveryVars == <<kind, row, task, shown, late, accepted, faults, lates>>

(* One task delivers the outcome of two builds; the first is retried. *)
Delivery == INSTANCE Notifications WITH
    Builds <- {1, 2}, Tasks <- {"t1"}, MaxDeliveryAttempts <- 2, MaxReconciliations <- 1,
    Deadline <- 1, Quiet <- 2, ClaimLease <- 3, MaxBackoff <- 1, MaxFaults <- 1,
    Targets <- {<<"github_status", "github_status">>},
    Terminals <- << <<"failed", "succeeded">>, <<"failed">> >>

ConvergenceInit == part \in {"attempt", "delivery"} /\ Init /\ Delivery!DeliveryInit

AttemptStep == part = "attempt" /\ Next /\ UNCHANGED <<part, deliveryVars>>
DeliveryStep == part = "delivery" /\ Delivery!DeliveryNext /\ UNCHANGED <<part, vars>>

ConvergenceSpec ==
    /\ ConvergenceInit
    /\ [][AttemptStep \/ DeliveryStep]_<<part, vars, deliveryVars>>
    /\ Fairness /\ Delivery!DeliveryFairness

(* No delivery stays pending for ever: the claims of due rows, the scan that *)
(* abandons spent ones and the settlements see to it, whoever crashed.       *)
DeliveriesRest == Delivery!DeliveriesRest
=============================================================================
