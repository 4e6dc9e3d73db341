------------------------------ MODULE MCEffects ------------------------------
(***************************************************************************)
(* The two halves of an external effect, for TLC: the worker that drives a *)
(* claim through the controller, the observer and a connector of which it  *)
(* knows only the promise, and the connector that must keep that promise.  *)
(* They share no state, so a behaviour runs one of them and leaves the     *)
(* other where it starts: the run covers the sum of their state spaces,    *)
(* not the product.                                                        *)
(***************************************************************************)
EXTENDS EffectSpine, Connector, TLC

CONSTANTS r1, r2, r3

VARIABLE part

(* Two of the three requests are for one physical scope; the third may be    *)
(* repeated.  A later generation has room for one receipt more.              *)
Scopes == [r \in Requests |-> IF r = r2 THEN "other" ELSE "shared"]
Limits == [g \in Generations |-> g + 2]

EffectsInit == part \in {"worker", "connector"} /\ SpineInit /\ ConnectorInit

EffectsNext ==
    \/ part = "worker" /\ SpineNext /\ UNCHANGED <<part, connectorVars>>
    \/ part = "connector" /\ ConnectorNext /\ UNCHANGED <<part, allVars>>

EffectsSpec == EffectsInit /\ [][EffectsNext]_<<part, allVars, connectorVars>>

(* Every row, record and counter holds values it can have. *)
EffectsTypeOK == TypeOK /\ SpineTypeOK /\ ConnectorTypeOK

(* No action singles out a process, or one of the requests of a scope. *)
Symmetry ==
    {f @@ g : f \in Permutations(Procs), g \in Permutations({r1, r3})}
=============================================================================
