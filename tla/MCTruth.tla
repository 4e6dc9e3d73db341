------------------------------- MODULE MCTruth -------------------------------
(***************************************************************************)
(* The controller's truth, for TLC.  A behaviour runs one of four parts.   *)
(* In the first two any agent presents any offer it ever held at any time, *)
(* whatever an agent's program does: two agents that checkpoint no effect, *)
(* or one agent that checkpoints effects in an enabled pipeline, with a    *)
(* retry or a restore.  In the third the calls for the first attempt are   *)
(* those of the agent's program, with its journal, its workload and its    *)
(* clock, and with one crash, lost reply or disabled pipeline.  The fourth *)
(* is the truth about artifacts, which shares no state with the others:    *)
(* the run covers the sum of the parts, not the product.                   *)
(***************************************************************************)
EXTENDS Agent, Artifacts

CONSTANTS m1, m2, m3, x1, x2

VARIABLE part

(* A set of two members, a set of one, and two plain artifacts.  The last    *)
(* three have the same content, in two organizations, and it may be deleted. *)
Makers ==
    [x \in Objects |->
        IF x \in {m1, m2} THEN "pair" ELSE IF x = m3 THEN "single" ELSE IF x = x1 THEN "first" ELSE "second"]
Owners == [x \in Objects |-> IF x = x1 THEN "org2" ELSE "org1"]
Contents == [x \in Objects |-> IF x = m1 THEN "d1" ELSE IF x = m2 THEN "d2" ELSE "d3"]
OneUpload == [x \in Objects |-> 1]
Shared == {<<"org1", "d3">>, <<"org2", "d3">>}
HeldByOne == {<<"org1", "d3">>}
Uploaded == {{m1, m2}, {m3}, {x1, x2}, {}}

TruthInit ==
    /\ part \in {"agents", "effects", "program", "artifacts"}
    /\ AgentInit /\ ArtifactsInit
    /\ (part = "artifacts") <=> (uploads # MaxUploads)

TruthNext ==
    \/ /\ part = "agents" /\ Next
       /\ effect' = effect
       /\ UNCHANGED <<part, host, row, work, left, summary, crashes, losses, artifactVars>>
    \/ /\ part = "effects" /\ Next
       /\ enabled' = enabled
       /\ epoch' = 0 \/ status'[2] = "absent"
       /\ \A o \in Ordinals : owner'[o] \in Hosts \cup {NoAgent}
       /\ UNCHANGED <<part, host, row, work, left, summary, crashes, losses, artifactVars>>
    \/ /\ part = "program" /\ AgentNext
       /\ crashes' + losses' <= (IF enabled' THEN 1 ELSE 0)
       /\ \A o \in Ordinals : o > 1 => status'[o] = "absent"
       /\ UNCHANGED <<part, artifactVars>>
    \/ part = "artifacts" /\ ArtifactsNext /\ UNCHANGED <<part, agentVars>>

TruthSpec == TruthInit /\ [][TruthNext]_<<part, agentVars, artifactVars>>

(* Every row, record and counter holds values it can have. *)
TruthTypeOK == TypeOK /\ AgentTypeOK /\ ArtifactsTypeOK
=============================================================================
