---------------------------- MODULE EffectLedger ----------------------------
(***************************************************************************)
(* The rules of the attempt_effects table of crates/controller-store: the  *)
(* statuses of a checkpointed external effect, the transitions a           *)
(* checkpoint may ask for, the order in which the evidence receipts may be *)
(* joined, and when the ledger counts as complete for a terminal outcome.  *)
(*                                                                         *)
(* The module is stateless; ControllerTruth keeps the rows.                *)
(***************************************************************************)
EXTENDS Naturals

(* "none" stands for a row that does not exist. *)
EffectStatuses ==
    {"prepared", "applied", "confirmed", "uncertain", "release_pending", "abandoned"}

(* What valid_effect_transition accepts besides repeating a status. *)
ValidEffectTransition(current, requested) ==
    <<current, requested>> \in
        { <<"prepared", "applied">>,
          <<"prepared", "uncertain">>,
          <<"prepared", "release_pending">>,
          <<"prepared", "abandoned">>,
          <<"applied", "confirmed">>,
          <<"applied", "uncertain">>,
          <<"confirmed", "uncertain">>,
          <<"uncertain", "confirmed">>,
          <<"release_pending", "abandoned">> }

(* The four receipt columns of a row; an outcome receipt also says whether *)
(* the destination's answer was ambiguous.                                 *)
ReceiptKinds == {"outcome", "reconciliation", "observation", "shadow_replay"}

(* The join order append_effect_evidence enforces. *)
EvidenceInOrder(kind, status, receipts) ==
    \/ kind = "outcome" /\ status # "abandoned"
    \/ kind = "reconciliation" /\ {"outcome", "observation"} \subseteq receipts
                               /\ status = "uncertain"
    \/ kind = "observation" /\ "outcome" \in receipts
                            /\ status \in {"applied", "uncertain", "confirmed"}
    \/ kind = "shadow_replay" /\ "observation" \in receipts
                              /\ status = "confirmed"

(* Statuses that stop a terminal publication and ask for reconciliation. *)
OpenStatuses == {"uncertain", "release_pending"}

(* The expiry pass treats a row in one of these statuses as work that may   *)
(* already have touched the destination.                                    *)
PossiblyAppliedStatuses ==
    {"prepared", "applied", "confirmed", "uncertain", "release_pending"}

(* A runtime effect is complete for an outcome when it was abandoned and the *)
(* outcome is not a success, or when it is confirmed with every receipt its  *)
(* outcome calls for.                                                        *)
RuntimeEffectComplete(status, receipts, ambiguous, outcome) ==
    \/ status = "abandoned" /\ outcome # "succeeded"
    \/ /\ status = "confirmed"
       /\ {"outcome", "observation", "shadow_replay"} \subseteq receipts
       /\ ambiguous => "reconciliation" \in receipts
=============================================================================
