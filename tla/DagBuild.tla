------------------------------- MODULE DagBuild -------------------------------
(***************************************************************************)
(* A build of several nodes with typed dependencies: how the controller    *)
(* advances the graph when an attempt ends, and how retries, fail-fast,    *)
(* cancellation, pipeline fencing, reconciliation, dead letters and        *)
(* restores act on it (crates/controller-store/src/dag.rs and the DAG      *)
(* branches of lib.rs and scheduler.rs).                                   *)
(*                                                                         *)
(* Who may make a call about an attempt is the subject of ControllerTruth; *)
(* here every agent call is made by the current holder, an expiry may come *)
(* at any moment, and of the effect ledger only the question the graph     *)
(* asks is kept: does the attempt have a non-idempotent effect, and is it  *)
(* settled?  Such an effect is not released (abandoned) again.  Only the   *)
(* latest attempt of a node can change, so only that one is kept.  Builds  *)
(* with a workspace namespace or workspace affinity are left out.          *)
(***************************************************************************)
EXTENDS Naturals, FiniteSets

CONSTANTS
    Nodes,         \* the node keys of a build
    Contracts,     \* the graphs a build may be admitted with
    EffectNodes,   \* nodes whose step checkpoints a non-idempotent effect
    MaxOrdinal,    \* bound: attempts of one node
    MaxDeadLetters,\* bound: dead letters of the build
    MaxRestores    \* bound: activated restores

Conditions == {"succeeded", "completed"}

(* What a contract fixes: the edges, the nodes of kind "post", the nodes     *)
(* with fail_fast, each node's max_attempts, and whether the contract has a  *)
(* sequential_layout.                                                        *)
ContractType ==
    [dependencies : SUBSET [parent : Nodes, child : Nodes, condition : Conditions],
     post : SUBSET Nodes, failFast : SUBSET Nodes,
     budget : [Nodes -> 1 .. MaxOrdinal], sequential : BOOLEAN]

(* Nodes are released once all their parents are; a cycle never is. *)
Acyclic(dependencies) ==
    LET released[i \in 0 .. Cardinality(Nodes)] ==
            IF i = 0 THEN {}
            ELSE {n \in Nodes : \A d \in dependencies : d.child = n => d.parent \in released[i - 1]}
    IN released[Cardinality(Nodes)] = Nodes

(* What validate_dag_contract asks of the graph; and a sequential layout is  *)
(* a chain of one-attempt nodes, each after the success of the one before.   *)
ValidContract(c) ==
    /\ \A d, e \in c.dependencies : d.parent = e.parent /\ d.child = e.child => d = e
    /\ \A p \in c.post : \E d \in c.dependencies : d.child = p
    /\ \A d \in c.dependencies : d.child \in c.post => d.condition = "completed"
    /\ Acyclic(c.dependencies)
    /\ c.sequential =>
          /\ c.post = {} /\ c.failFast = {}
          /\ \A n \in Nodes : c.budget[n] = 1
          /\ \A d, e \in c.dependencies :
                d.condition = "succeeded" /\ (d.parent = e.parent <=> d.child = e.child)

ASSUME BoundsAssumption ==
    MaxOrdinal \in Nat \ {0} /\ MaxDeadLetters \in Nat /\ MaxRestores \in Nat
ASSUME ContractsAssumption ==
    /\ IsFiniteSet(Nodes) /\ Nodes # {} /\ EffectNodes \subseteq Nodes
    /\ \A c \in Contracts : c \in ContractType /\ ValidContract(c)

Terminal == {"succeeded", "failed", "aborted"}
Settled == Terminal \cup {"skipped"}
Active == {"offered", "accepted", "running", "finalizing", "cancelling"}
Executing == Active \ {"offered"}
NodeStatuses == {"blocked", "queued", "offered", "running", "reconciliation_required"} \cup Settled
AttemptStatuses == {"queued", "reconciliation_required"} \cup Active \cup Terminal

VARIABLES
    contract,     \* builds.dag_contract, with the node and edge rows it admitted
    build,        \* builds.status
    cancelled,    \* builds.cancellation_requested_at is set
    enabled,      \* the admitted pipeline generation is current and enabled
    work,         \* node row and latest attempt row of every node
    reconciled,   \* <<node, ordinal>> with an attempt.reconciliation_terminal event
    deadLetters,  \* <<node, ordinal>> with a dead_letters row
    restores      \* restores activated so far

vars == <<contract, build, cancelled, enabled, work, reconciled, deadLetters, restores>>

(* status, outcome (logical_outcome) and stamped (cancellation_requested_at) *)
(* belong to the node; the rest to its latest attempt.                       *)
Rows == [status : NodeStatuses, outcome : Settled \cup {"none"}, stamped : BOOLEAN,
         budget : 1 .. MaxOrdinal,
         attempt : AttemptStatuses, ordinal : 1 .. MaxOrdinal,
         failFastSkipped : BOOLEAN, ran : BOOLEAN,
         effects : {"none", "settled", "open"}]

-----------------------------------------------------------------------------
(* Graph operators; w is the rows of all nodes. *)

Into(n) == {d \in contract.dependencies : d.child = n}

(* A dependency condition holds of its parent's current status. *)
Satisfied(w, d) ==
    \/ d.condition = "succeeded" /\ w[d.parent].status = "succeeded"
    \/ d.condition = "completed" /\ w[d.parent].status \in Settled

Ready(w, n) == \A d \in Into(n) : Satisfied(w, d)

(* The status of a node that returns to the queue: a trigger on nodes.status *)
(* blocks it when a parent was re-opened meanwhile, whatever the statement   *)
(* asked for.                                                                *)
QueuedOrBlocked(w, n) == IF Ready(w, n) THEN "queued" ELSE "blocked"

(* Some parent can no longer succeed. *)
Impossible(w, n) ==
    \E d \in Into(n) : d.condition = "succeeded" /\ w[d.parent].status \in Settled \ {"succeeded"}

(* The first attempt of a new chain link of node row r. *)
NewAttempt(r) ==
    [r EXCEPT !.attempt = "queued", !.ordinal = @ + 1, !.failFastSkipped = FALSE,
              !.ran = FALSE, !.effects = "none"]

(* Mutant of SkipUnstarted: the attempts of skipped nodes stay queued. *)
SkipUnstartedNodesOnly(w) ==
    [n \in Nodes |->
        IF w[n].status \in {"blocked", "queued"} /\ n \notin contract.post
        THEN [w[n] EXCEPT !.status = "skipped", !.outcome = "skipped"]
        ELSE w[n]]

(* mark_unstarted_skipped with exclude_post. *)
SkipUnstarted(w) ==
    [n \in Nodes |->
        IF w[n].status \in {"blocked", "queued"} /\ n \notin contract.post
        THEN [w[n] EXCEPT !.status = IF w[n].outcome = "none" THEN "skipped" ELSE @,
                          !.outcome = IF @ = "none" THEN "skipped" ELSE @,
                          !.failFastSkipped = @ \/ w[n].attempt = "queued",
                          !.attempt = IF @ = "queued" THEN "aborted" ELSE @]
        ELSE w[n]]

(* One round of advance_blocked_nodes: skip what became impossible, queue    *)
(* what became ready.                                                        *)
AdvanceRound(w) ==
    LET skipped == [n \in Nodes |->
            IF w[n].status = "blocked" /\ n \notin contract.post /\ Impossible(w, n)
            THEN [w[n] EXCEPT !.status = "skipped", !.outcome = "skipped",
                              !.attempt = IF @ = "queued" THEN "aborted" ELSE @]
            ELSE w[n]]
    IN [n \in Nodes |->
            IF skipped[n].status = "blocked" /\ Ready(skipped, n)
            THEN [skipped[n] EXCEPT !.status = "queued"]
            ELSE skipped[n]]

(* Mutant of AdvanceBlocked: a single round. *)
AdvanceBlockedOnce(w) == AdvanceRound(w)

(* advance_blocked_nodes repeats the round until nothing changes; a round    *)
(* that changes something settles or queues a blocked node for good.         *)
AdvanceBlocked(w) ==
    LET after[i \in 0 .. Cardinality(Nodes)] ==
            IF i = 0 THEN w ELSE AdvanceRound(after[i - 1])
    IN after[Cardinality(Nodes)]

(* Mutant of DerivedBuild: aborted nodes count only after an owner's         *)
(* cancellation.                                                             *)
DerivedBuildIgnoringAborts(w, ownerCancelled) ==
    IF \A n \in Nodes : w[n].status \in Settled
    THEN IF \E n \in Nodes : w[n].outcome = "failed" THEN "failed"
         ELSE IF ownerCancelled THEN "aborted" ELSE "succeeded"
    ELSE IF \E n \in Nodes : w[n].status = "reconciliation_required"
         THEN "reconciliation_required"
         ELSE IF \E n \in Nodes : w[n].status \in {"offered", "running"} \/ w[n].stamped
              THEN "running" ELSE "queued"

(* derive_build_outcome. *)
DerivedBuild(w, ownerCancelled) ==
    LET some(P(_)) == \E n \in Nodes : P(w[n])
        failed(r) == r.outcome = "failed"
        aborted(r) == r.outcome = "aborted"
        parked(r) == r.status = "reconciliation_required"
        active(r) == r.status \in {"offered", "running"} \/ r.stamped
    IN  IF \A n \in Nodes : w[n].status \in Settled
        THEN IF some(failed) THEN "failed"
             ELSE IF ownerCancelled \/ some(aborted) THEN "aborted" ELSE "succeeded"
        ELSE IF some(parked) THEN "reconciliation_required"
             ELSE IF some(active) THEN "running" ELSE "queued"

(* The peers of node f that run are stamped and their attempts told to       *)
(* cancel.                                                                   *)
CancelActive(w, except, statuses) ==
    [n \in Nodes |->
        IF n # except /\ w[n].status \in statuses
        THEN [w[n] EXCEPT !.stamped = TRUE,
                          !.attempt = IF @ \in Active THEN "cancelling" ELSE @]
        ELSE w[n]]

(* fence_unstarted_dag_work: after the pipeline moved on, what has not       *)
(* started is aborted and what runs is cancelled.                            *)
FenceUnstarted(w, except) ==
    LET aborted == [n \in Nodes |->
            IF n # except
            THEN [w[n] EXCEPT
                    !.attempt = IF @ \in {"queued", "offered"} THEN "aborted" ELSE @,
                    !.status = IF @ \in {"blocked", "queued", "offered"} /\ w[n].outcome = "none"
                               THEN "aborted" ELSE @,
                    !.outcome = IF @ = "none" /\ w[n].status \in {"blocked", "queued", "offered"}
                                THEN "aborted" ELSE @]
            ELSE w[n]]
    IN CancelActive(aborted, except, {"running"})

(* Mutant of Retryable: one attempt too many. *)
RetryableOnceMore(w, n, outcome) ==
    /\ enabled /\ outcome = "failed" /\ w[n].ordinal <= w[n].budget
    /\ ~cancelled /\ ~w[n].stamped
    /\ w[n].effects = "none"

(* A failed attempt that advance_dag_after_attempt retries by itself. *)
Retryable(w, n, outcome) ==
    /\ enabled /\ outcome = "failed" /\ w[n].ordinal < w[n].budget
    /\ ~cancelled /\ ~w[n].stamped
    /\ w[n].effects = "none"

(* advance_dag_after_attempt, for node n whose attempt just ended with       *)
(* outcome; the new rows.                                                    *)
Advanced(w, n, outcome) ==
    LET settled == [w EXCEPT ![n].status = outcome, ![n].outcome = outcome, ![n].stamped = FALSE]
        failedFast == IF outcome = "failed" /\ n \in contract.failFast
                      THEN SkipUnstarted(CancelActive(settled, n, {"offered", "running"}))
                      ELSE settled
        retried == [NewAttempt(w[n]) EXCEPT
                       !.status = QueuedOrBlocked(w, n),
                       !.stamped = FALSE]
    IN  IF Retryable(w, n, outcome)
        THEN [w EXCEPT ![n] = IF w[n].outcome = "none" THEN retried ELSE NewAttempt(@)]
        ELSE IF w[n].outcome # "none" THEN w
        ELSE IF ~enabled THEN FenceUnstarted(settled, n)
        ELSE AdvanceBlocked(failedFast)

(* ... and the new build status: a node that already has its outcome ends    *)
(* the handler before the build is derived again.                            *)
AdvancedBuild(w, n, outcome) ==
    IF Retryable(w, n, outcome) \/ w[n].outcome = "none"
    THEN DerivedBuild(Advanced(w, n, outcome), cancelled)
    ELSE build

(* Nodes reachable from n along dependencies. *)
Descendants(n) ==
    LET below[i \in 0 .. Cardinality(Nodes)] ==
            IF i = 0 THEN {n}
            ELSE below[i - 1] \cup {d.child : d \in {e \in contract.dependencies : e.parent \in below[i - 1]}}
    IN below[Cardinality(Nodes)] \ {n}

-----------------------------------------------------------------------------
(* Admission: nodes without dependencies are queued, the others blocked. *)
Init ==
    /\ contract \in Contracts
    /\ build = "queued"
    /\ cancelled = FALSE
    /\ enabled = TRUE
    /\ work = [n \in Nodes |->
                 [status |-> IF Into(n) = {} THEN "queued" ELSE "blocked",
                  outcome |-> "none", stamped |-> FALSE, budget |-> contract.budget[n],
                  attempt |-> "queued", ordinal |-> 1,
                  failFastSkipped |-> FALSE, ran |-> FALSE, effects |-> "none"]]
    /\ reconciled = {}
    /\ deadLetters = {}
    /\ restores = 0

-----------------------------------------------------------------------------
(* An attempt of node n ends with outcome, and the graph moves on. *)
Conclude(n, outcome) ==
    LET ended == [work EXCEPT ![n].attempt = outcome] IN
    /\ work' = Advanced(ended, n, outcome)
    /\ build' = AdvancedBuild(ended, n, outcome)

(* Attempt, node and build are parked, whatever they were. *)
Park(n, effects) ==
    /\ work' = [work EXCEPT ![n].attempt = "reconciliation_required",
                            ![n].status = "reconciliation_required",
                            ![n].effects = effects]
    /\ build' = "reconciliation_required"

(* claim_next, DAG branch. *)
Claimable(n) ==
    /\ work[n].status = "queued" /\ work[n].attempt = "queued"
    /\ build \in {"queued", "running"}
    /\ ~cancelled /\ ~work[n].stamped /\ enabled
    /\ Ready(work, n)

ClaimNext(n) ==
    /\ Claimable(n)
    /\ work' = [work EXCEPT ![n].attempt = "offered", ![n].status = "offered"]
    /\ build' = "running"
    /\ UNCHANGED <<contract, cancelled, enabled, reconciled, deadLetters, restores>>

(* accept_offer and mark_attempt_running; the attempt.running event is only  *)
(* ever read back for a sequential contract.                                 *)
AcceptOffer(n) ==
    /\ work[n].attempt = "offered" /\ enabled
    /\ work' = [work EXCEPT ![n].attempt = "accepted", ![n].status = "running"]
    /\ UNCHANGED <<contract, build, cancelled, enabled, reconciled, deadLetters, restores>>

MarkRunning(n) ==
    /\ work[n].attempt = "accepted" /\ enabled
    /\ work' = [work EXCEPT ![n].attempt = "running", ![n].ran = contract.sequential,
                            ![n].status = IF @ = "offered" THEN "running" ELSE @]
    /\ UNCHANGED <<contract, build, cancelled, enabled, reconciled, deadLetters, restores>>

(* recover_agent_finalization. *)
RecoverFinalization(n, phase) ==
    /\ work[n].attempt \in {"running", "finalizing", "cancelling"}
    /\ work' = [work EXCEPT ![n].attempt = phase]
    /\ UNCHANGED <<contract, build, cancelled, enabled, reconciled, deadLetters, restores>>

(* checkpoint_effect for a non-idempotent effect. *)
CheckpointEffect(n) ==
    /\ n \in EffectNodes
    /\ work[n].attempt \in Executing /\ enabled
    /\ work' = [work EXCEPT ![n].effects = IF @ = "settled" THEN "open" ELSE "settled"]
    /\ UNCHANGED <<contract, build, cancelled, enabled, reconciled, deadLetters, restores>>

(* finalize_attempt and finalize_attempt_cancellation_aware. *)
FinalizeAttempt(n, outcome, aware) ==
    LET published == IF aware /\ (work[n].attempt = "cancelling" \/ work[n].stamped)
                     THEN "aborted" ELSE outcome
    IN
    /\ work[n].attempt \in Executing
    /\ \/ work[n].effects = "open" /\ Park(n, "open")
       \/ work[n].effects # "open" /\ Conclude(n, published)
    /\ UNCHANGED <<contract, cancelled, enabled, reconciled, deadLetters, restores>>

(* complete_agent_cancellation. *)
CompleteCancellation(n, verified) ==
    /\ work[n].attempt \in {"accepted", "running", "cancelling"}
    /\ \/ ~(verified /\ work[n].effects # "open") /\ Park(n, work[n].effects)
       \/ verified /\ work[n].effects # "open" /\ Conclude(n, "aborted")
    /\ UNCHANGED <<contract, cancelled, enabled, reconciled, deadLetters, restores>>

(* requeue_one_expired. *)
RequeueExpired(n) ==
    LET uncertain == work[n].effects # "none" \/ work[n].ran
        stopped == cancelled \/ work[n].stamped \/ ~enabled
    IN
    /\ work[n].attempt \in Active
    /\ \/ ~uncertain /\ stopped /\ Conclude(n, "aborted")
       \/ /\ uncertain
          /\ \E effects \in IF work[n].effects = "none" THEN {"none"} ELSE {work[n].effects, "open"} :
                Park(n, effects)
       \/ /\ ~uncertain /\ ~stopped
          /\ work' = [work EXCEPT ![n].attempt = "queued", ![n].ran = FALSE,
                                  ![n].status = QueuedOrBlocked(work, n)]
          /\ build' = IF build = "running" THEN "queued" ELSE build
    /\ UNCHANGED <<contract, cancelled, enabled, reconciled, deadLetters, restores>>

(* cancel_dag_build, from request_cancellation_decision_as. *)
RequestCancellation ==
    LET unstarted == [n \in Nodes |->
            IF work[n].status \in {"blocked", "queued"}
            THEN [work[n] EXCEPT
                    !.attempt = IF @ = "queued" THEN "aborted" ELSE @,
                    !.status = IF work[n].outcome = "none" THEN "aborted" ELSE @,
                    !.outcome = IF @ = "none" THEN "aborted" ELSE @]
            ELSE [work[n] EXCEPT
                    !.stamped = @ \/ work[n].status \in {"offered", "running"},
                    !.attempt = IF work[n].status \in {"offered", "running"} /\ @ \in Active
                                THEN "cancelling" ELSE @]]
    IN
    /\ build \in {"queued", "running"} /\ ~cancelled
    /\ cancelled' = TRUE
    /\ work' = unstarted
    /\ build' = DerivedBuild(unstarted, TRUE)
    /\ UNCHANGED <<contract, enabled, reconciled, deadLetters, restores>>

(* transition_pipeline_operational_state. *)
FencePipeline ==
    /\ enabled
    /\ enabled' = FALSE
    /\ UNCHANGED <<contract, build, cancelled, work, reconciled, deadLetters, restores>>

(* confirm_uncertain_effect, for the last open effect of a parked attempt. *)
SettleEffects(n) ==
    /\ work[n].attempt = "reconciliation_required" /\ work[n].effects = "open"
    /\ work' = [work EXCEPT ![n].effects = "settled"]
    /\ UNCHANGED <<contract, build, cancelled, enabled, reconciled, deadLetters, restores>>

(* finalize_reconciled_attempt. *)
FinalizeReconciled(n, outcome) ==
    /\ work[n].attempt = "reconciliation_required"
    /\ <<n, work[n].ordinal>> \notin deadLetters
    /\ work[n].effects # "open"
    /\ Conclude(n, outcome)
    /\ reconciled' = reconciled \cup {<<n, work[n].ordinal>>}
    /\ UNCHANGED <<contract, cancelled, enabled, deadLetters, restores>>

(* What schedule_retry_as checks before it decides. *)
RetryEligible(n) ==
    /\ work[n].attempt \in {"failed", "reconciliation_required"}
    /\ ~cancelled /\ enabled
    /\ <<n, work[n].ordinal>> \notin reconciled
    /\ work[n].effects = "none"

(* The skipped nodes an operator's retry of n brings back. *)
Revived(n) ==
    {m \in Nodes \ {n} :
        /\ work[m].status = "skipped" /\ work[m].outcome = "skipped"
        /\ m \in Descendants(n) \/ (work[m].attempt = "aborted" /\ work[m].failFastSkipped)}

(* schedule_retry_as, DAG branch. *)
ScheduleRetry(n, maxAttempts) ==
    /\ RetryEligible(n)
    /\ <<n, work[n].ordinal>> \notin deadLetters
    /\ work[n].ordinal < maxAttempts
    /\ \A m \in Revived(n) : work[m].ordinal < MaxOrdinal
    /\ work' = [m \in Nodes |->
          IF m = n
          THEN [NewAttempt(work[n]) EXCEPT
                  !.status = QueuedOrBlocked(work, n),
                  !.outcome = "none", !.stamped = FALSE,
                  !.budget = IF @ > maxAttempts THEN @ ELSE maxAttempts]
          ELSE IF m \in Revived(n)
          THEN [NewAttempt(work[m]) EXCEPT
                  !.status = IF Into(m) # {} THEN "blocked" ELSE "queued",
                  !.outcome = "none", !.stamped = FALSE]
          ELSE work[m]]
    /\ build' = "queued"
    /\ cancelled' = FALSE
    /\ UNCHANGED <<contract, enabled, reconciled, deadLetters, restores>>

(* schedule_retry_as at the limit, with terminalize_dead_lettered_           *)
(* reconciliation: the graph is not advanced and the node gets no outcome.   *)
DeadLetter(n, maxAttempts) ==
    /\ RetryEligible(n)
    /\ <<n, work[n].ordinal>> \in deadLetters \/ work[n].ordinal >= maxAttempts
    /\ Cardinality(deadLetters) < MaxDeadLetters
    /\ deadLetters' = deadLetters \cup {<<n, work[n].ordinal>>}
    /\ \/ /\ work[n].attempt = "reconciliation_required"
          /\ work' = [work EXCEPT ![n].attempt = "failed", ![n].status = "failed"]
          /\ build' = IF build \in Terminal THEN build ELSE "failed"
       \/ work[n].attempt # "reconciliation_required" /\ UNCHANGED <<work, build>>
    /\ UNCHANGED <<contract, cancelled, enabled, reconciled, restores>>

(* activate_restore_epoch. *)
ActivateRestoreEpoch ==
    LET affected == {n \in Nodes : work[n].attempt \in Active} IN
    /\ restores < MaxRestores
    /\ restores' = restores + 1
    /\ \E open \in SUBSET {n \in affected : work[n].effects = "settled"} :
          work' = [n \in Nodes |->
             IF n \in affected
             THEN [work[n] EXCEPT !.attempt = "reconciliation_required",
                                  !.status = "reconciliation_required",
                                  !.effects = IF n \in open THEN "open" ELSE @]
             ELSE work[n]]
    /\ build' = IF affected # {} THEN "reconciliation_required" ELSE build
    /\ UNCHANGED <<contract, cancelled, enabled, reconciled, deadLetters>>

-----------------------------------------------------------------------------
AgentCall(n) ==
    \/ ClaimNext(n)
    \/ AcceptOffer(n)
    \/ MarkRunning(n)
    \/ \E phase \in {"finalizing", "cancelling"} : RecoverFinalization(n, phase)
    \/ CheckpointEffect(n)
    \/ \E outcome \in Terminal, aware \in BOOLEAN : FinalizeAttempt(n, outcome, aware)
    \/ \E verified \in BOOLEAN : CompleteCancellation(n, verified)

OperatorCall(n) ==
    \/ SettleEffects(n)
    \/ \E outcome \in Terminal : FinalizeReconciled(n, outcome)
    \/ \E maxAttempts \in 1 .. MaxOrdinal : ScheduleRetry(n, maxAttempts) \/ DeadLetter(n, maxAttempts)

Next ==
    \/ \E n \in Nodes : AgentCall(n) \/ RequeueExpired(n) \/ OperatorCall(n)
    \/ RequestCancellation
    \/ FencePipeline
    \/ ActivateRestoreEpoch

Spec == Init /\ [][Next]_vars

-----------------------------------------------------------------------------
(* Properties. *)

(* Every row holds values its columns admit. *)
TypeOK ==
    /\ contract \in Contracts
    /\ build \in {"queued", "running", "reconciliation_required"} \cup Terminal
    /\ cancelled \in BOOLEAN /\ enabled \in BOOLEAN
    /\ work \in [Nodes -> Rows]
    /\ reconciled \subseteq Nodes \X (1 .. MaxOrdinal)
    /\ deadLetters \subseteq Nodes \X (1 .. MaxOrdinal)
    /\ restores \in 0 .. MaxRestores

(* While the pipeline is enabled, a node row, its logical outcome and its    *)
(* latest attempt tell the same story: no attempt runs for a settled node,   *)
(* no parked node lacks an attempt to reconcile, and no settled node lacks   *)
(* its outcome, unless its latest attempt was dead-lettered.                 *)
RowsAgree ==
    enabled => \A n \in Nodes :
        LET s == work[n].status
            a == work[n].attempt
        IN  /\ \/ work[n].outcome = IF s \in Settled THEN s ELSE "none"
               \/ <<n, work[n].ordinal>> \in deadLetters
            /\ \/ s \in {"blocked", "queued"} /\ a = "queued"
               \/ s = "offered" /\ a \in {"offered", "finalizing", "cancelling"}
               \/ s = "running" /\ a \in Executing
               \/ s \in Terminal \cup {"reconciliation_required"} /\ a = s
               \/ s = "skipped" /\ a = "aborted"

(* Without dead letters, the build is terminal exactly when every node is    *)
(* settled, it succeeded only if no node failed or was aborted, and it asks  *)
(* for reconciliation only if some node does (derive_build_outcome against   *)
(* the handlers that write the build's status themselves).                   *)
BuildReportsNodes ==
    deadLetters = {} =>
        /\ build \in Terminal <=> \A n \in Nodes : work[n].status \in Settled
        /\ build = "succeeded" => \A n \in Nodes : work[n].status \in {"succeeded", "skipped"}
        /\ build = "reconciliation_required" =>
              \E n \in Nodes : work[n].status = "reconciliation_required"

(* The graph never stalls: while a build under an enabled pipeline has work  *)
(* left, some node runs, waits for an operator or can be claimed.            *)
NeverStalls ==
    build \notin Terminal /\ enabled =>
        \E n \in Nodes :
            \/ work[n].status \in {"offered", "running", "reconciliation_required"}
            \/ Claimable(n)

(* Terminal monotonicity: a node that has its logical outcome keeps it, and  *)
(* the status that goes with it, until a new attempt of the node is made.    *)
OutcomeIsFinal ==
    [][\A n \in Nodes :
          work[n].outcome # "none" /\ work'[n].ordinal = work[n].ordinal =>
              work'[n].status = work[n].status /\ work'[n].outcome = work[n].outcome]_vars

(* A build does not succeed while the latest attempt of one of its nodes is  *)
(* a dead letter (schedule_retry_as fails the whole hierarchy when it dead-  *)
(* letters parked work).                                                     *)
DeadLetterFailsBuild ==
    build = "succeeded" => \A n \in Nodes : <<n, work[n].ordinal>> \notin deadLetters

(* Closing a parked attempt (finalize_reconciled_attempt) and giving it a    *)
(* retry child exclude each other.                                           *)
CloseXorRetry ==
    \A r \in reconciled : work[r[1]].ordinal = r[2]
=============================================================================
