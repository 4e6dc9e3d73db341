--------------------------- MODULE ControllerTruth ---------------------------
(***************************************************************************)
(* The controller's durable truth about one admitted single-node build:    *)
(* its build, node and attempt rows, the lease and fence of every attempt, *)
(* the restore epoch, the effect ledger, retries and dead letters.         *)
(*                                                                         *)
(* Every handler of crates/controller-store that writes this truth runs in *)
(* one transaction behind the organisation's scheduler lock and the        *)
(* restore fence; the three that settle an effect row after authority was  *)
(* lost are one statement behind the fence; fencing a pipeline writes its  *)
(* row alone, under the row lock.  So each is one atomic action here.      *)
(* Concurrent is everything around the store: agents slow, partitioned or  *)
(* restarted, calls that are repeated or arrive late, the clock, operators *)
(* who cancel, retry or reconcile, and a restore that starts a new epoch.  *)
(* The variable `grants' remembers every offer ever made; an agent may     *)
(* present any of its old offers at any later time.                        *)
(*                                                                         *)
(* Not kept: the contents of payloads and summaries (a repeated call with  *)
(* the same contents changes nothing, one with others is refused), agent   *)
(* sessions, which only refuse calls, and builds with a workspace          *)
(* namespace or workspace affinity.                                        *)
(***************************************************************************)
EXTENDS EffectLedger, Integers, FiniteSets

CONSTANTS
    Agents,          \* agents that poll for work
    NoAgent,         \* lease_owner IS NULL
    MaxOrdinal,      \* attempts of the node are numbered 1 .. MaxOrdinal
    MaxFence,        \* bound: offers made of one attempt
    MaxEpoch,        \* bound: restore epochs
    LeaseTicks,      \* length of a lease, in ticks of the clock
    Backups,         \* sealed backups that a restore may activate
    EffectKeys,      \* effect keys a step may checkpoint
    NonIdempotent,   \* the keys of effect class non_idempotent
    Runtime,         \* the keys whose payload is controller-effect-prepared/v1
    MaxEffects,      \* bound: effect rows
    PlainOutcomes    \* outcomes published without cancellation awareness

Ordinals == 1 .. MaxOrdinal
Fences == 1 .. MaxFence
EffectIds == Ordinals \X Fences \X EffectKeys

ASSUME BoundsAssumption ==
    /\ MaxOrdinal \in Nat \ {0}
    /\ MaxFence \in Nat
    /\ MaxEpoch \in Nat
    /\ LeaseTicks \in Nat \ {0}
    /\ MaxEffects \in Nat
ASSUME AgentsAssumption == NoAgent \notin Agents
ASSUME EffectsAssumption == NonIdempotent \subseteq EffectKeys /\ Runtime \subseteq EffectKeys

Terminal == {"succeeded", "failed", "aborted"}
Active == {"offered", "accepted", "running", "finalizing", "cancelling"}
Executing == {"accepted", "running", "finalizing", "cancelling"}
AttemptStatuses == {"absent", "queued", "reconciliation_required"} \cup Active \cup Terminal
NodeStatuses == {"queued", "offered", "running", "reconciliation_required"} \cup Terminal
BuildStatuses == {"queued", "running", "reconciliation_required"} \cup Terminal

ASSUME PlainOutcomesAssumption == PlainOutcomes \subseteq Terminal

(* lease_expires_at: NULL, already past, or some ticks in the future. *)
NoLease == -1

(* What the controller tells an agent with an offer, and what the agent     *)
(* presents with every later call about the attempt.                        *)
Grants == [attempt : Ordinals, fence : Fences, epoch : 0 .. MaxEpoch, agent : Agents]

VARIABLES
    epoch,        \* controller_metadata.restore_epoch
    points,       \* recovery_points: backup |-> epoch it was sealed in, -1 if none
    activated,    \* backups whose restore was activated
    enabled,      \* the build's admitted pipeline generation is current and enabled
    build,        \* builds.status
    cancelled,    \* builds.cancellation_requested_at is set
    node,         \* nodes.status
    status,       \* attempts.status by ordinal, "absent" before its insertion
    fence,        \* attempts.fence
    owner,        \* attempts.lease_owner
    lease,        \* attempts.lease_expires_at
    repoch,       \* attempts.restore_epoch
    grants,       \* every offer ever made
    deadLetters,  \* attempts with a dead_letters row
    reconciled,   \* attempts with an attempt.reconciliation_terminal event
    effect,       \* attempt_effects.status by <<ordinal, fence, key>>, or "none"
    dispatched,   \* rows whose dispatch_committed_at is set
    receipts,     \* evidence receipts joined to a row
    ambiguous     \* rows whose outcome receipt says "ambiguous"

restoreVars == <<epoch, points, activated>>
attemptVars == <<status, fence, owner, lease, repoch>>
effectVars == <<effect, dispatched, receipts, ambiguous>>
retryVars == <<deadLetters, reconciled>>
vars == <<restoreVars, enabled, build, cancelled, node, attemptVars, grants,
          retryVars, effectVars>>

-----------------------------------------------------------------------------
(* Admission: one queued node with its first attempt, no effect. *)
Init ==
    /\ epoch = 0
    /\ points = [b \in Backups |-> -1]
    /\ activated = {}
    /\ enabled = TRUE
    /\ build = "queued"
    /\ cancelled = FALSE
    /\ node = "queued"
    /\ status = [o \in Ordinals |-> IF o = 1 THEN "queued" ELSE "absent"]
    /\ fence = [o \in Ordinals |-> 0]
    /\ owner = [o \in Ordinals |-> NoAgent]
    /\ lease = [o \in Ordinals |-> NoLease]
    /\ repoch = [o \in Ordinals |-> 0]
    /\ grants = {}
    /\ deadLetters = {}
    /\ reconciled = {}
    /\ effect = [e \in EffectIds |-> "none"]
    /\ dispatched = {}
    /\ receipts = [e \in EffectIds |-> {}]
    /\ ambiguous = {}

-----------------------------------------------------------------------------
(* Authority. *)

(* Mutant of ExactAuthority: an older fence passes too. *)
ExactAuthorityOlderFence(g) ==
    /\ fence[g.attempt] >= g.fence
    /\ repoch[g.attempt] = g.epoch
    /\ epoch = g.epoch
    /\ owner[g.attempt] = g.agent

(* The attempt's row still carries exactly what was granted: fence, owner   *)
(* and restore epoch, and that epoch is the controller's.                   *)
ExactAuthority(g) ==
    /\ fence[g.attempt] = g.fence
    /\ repoch[g.attempt] = g.epoch
    /\ epoch = g.epoch
    /\ owner[g.attempt] = g.agent

LiveAuthority(g) == ExactAuthority(g) /\ lease[g.attempt] > 0

HasRetry(o) == o + 1 \in Ordinals /\ status[o + 1] # "absent"

IsLatest(o) == status[o] # "absent" /\ \A p \in Ordinals : p > o => status[p] = "absent"

(* Rows of attempt o under fence f, of attempt o under any fence. *)
RowsAt(o, f) == {e \in EffectIds : e[1] = o /\ e[2] = f /\ effect[e] # "none"}
RowsOf(o) == {e \in EffectIds : e[1] = o /\ effect[e] # "none"}

Protected(e) == e[3] \in NonIdempotent \cup Runtime

(* Mutant of Complete: a confirmed effect counts whatever its receipts. *)
CompleteWithoutReceipts(rows, outcome) ==
    \A e \in rows : e[3] \in Runtime =>
        effect[e] = "confirmed" \/ (effect[e] = "abandoned" /\ outcome # "succeeded")

Complete(rows, outcome) ==
    \A e \in rows : e[3] \in Runtime =>
        RuntimeEffectComplete(effect[e], receipts[e], e \in ambiguous, outcome)

(* A non-DAG attempt reaches a terminal outcome together with its node and  *)
(* its build; the owner is kept for the record.                             *)
Terminate(o, outcome) ==
    /\ status' = [status EXCEPT ![o] = outcome]
    /\ lease' = [lease EXCEPT ![o] = NoLease]
    /\ node' = outcome
    /\ build' = outcome
    /\ UNCHANGED <<fence, owner, repoch>>

(* Mutant of Park: the expiry is not cleared. *)
ParkKeepingLease(o, nextOwner) ==
    /\ status' = [status EXCEPT ![o] = "reconciliation_required"]
    /\ owner' = [owner EXCEPT ![o] = nextOwner]
    /\ node' = "reconciliation_required"
    /\ build' = "reconciliation_required"
    /\ UNCHANGED <<lease, fence, repoch>>

(* The attempt is parked for an operator, with its node and its build. *)
Park(o, nextOwner) ==
    /\ status' = [status EXCEPT ![o] = "reconciliation_required"]
    /\ lease' = [lease EXCEPT ![o] = NoLease]
    /\ owner' = [owner EXCEPT ![o] = nextOwner]
    /\ node' = "reconciliation_required"
    /\ build' = "reconciliation_required"
    /\ UNCHANGED <<fence, repoch>>

-----------------------------------------------------------------------------
(* Leasing. *)

(* claim_next: the queued attempt is offered under a fresh fence and the    *)
(* current restore epoch.                                                   *)
ClaimNext(a, o) ==
    /\ status[o] = "queued" /\ node = "queued" /\ build = "queued"
    /\ ~cancelled /\ enabled
    /\ fence[o] < MaxFence
    /\ status' = [status EXCEPT ![o] = "offered"]
    /\ fence' = [fence EXCEPT ![o] = @ + 1]
    /\ owner' = [owner EXCEPT ![o] = a]
    /\ lease' = [lease EXCEPT ![o] = LeaseTicks]
    /\ repoch' = [repoch EXCEPT ![o] = epoch]
    /\ grants' = grants \cup
           {[attempt |-> o, fence |-> fence[o] + 1, epoch |-> epoch, agent |-> a]}
    /\ node' = "offered"
    /\ build' = "running"
    /\ UNCHANGED <<restoreVars, enabled, cancelled, retryVars, effectVars>>

(* accept_offer; accepting what is already accepted, running or cancelling   *)
(* changes nothing.                                                          *)
AcceptOffer(g) ==
    /\ LiveAuthority(g) /\ enabled
    /\ status[g.attempt] = "offered"
    /\ status' = [status EXCEPT ![g.attempt] = "accepted"]
    /\ node' = "running"
    /\ UNCHANGED <<restoreVars, enabled, build, cancelled, fence, owner, lease, repoch,
                   grants, retryVars, effectVars>>

(* mark_attempt_running. *)
MarkRunning(g) ==
    /\ LiveAuthority(g) /\ enabled
    /\ status[g.attempt] = "accepted"
    /\ status' = [status EXCEPT ![g.attempt] = "running"]
    /\ node' = IF node \in {"offered", "running"} THEN "running" ELSE node
    /\ UNCHANGED <<restoreVars, enabled, build, cancelled, fence, owner, lease, repoch,
                   grants, retryVars, effectVars>>

(* Mutant of RenewLease: the extension is added to the old expiry. *)
RenewLeaseAdding(g) ==
    /\ LiveAuthority(g) /\ enabled
    /\ status[g.attempt] \in Executing
    /\ lease' = [lease EXCEPT ![g.attempt] = @ + LeaseTicks]
    /\ UNCHANGED <<restoreVars, enabled, build, cancelled, node, status, fence, owner,
                   repoch, grants, retryVars, effectVars>>

(* renew_attempt_lease: only a lease that is still live is extended, and a   *)
(* fenced pipeline extends none.                                             *)
RenewLease(g) ==
    /\ LiveAuthority(g) /\ enabled
    /\ status[g.attempt] \in Executing
    /\ lease' = [lease EXCEPT ![g.attempt] = LeaseTicks]
    /\ UNCHANGED <<restoreVars, enabled, build, cancelled, node, status, fence, owner,
                   repoch, grants, retryVars, effectVars>>

(* The clock moves towards the expiry of a lease. *)
Tick(o) ==
    /\ lease[o] > 0
    /\ lease' = [lease EXCEPT ![o] = @ - 1]
    /\ UNCHANGED <<restoreVars, enabled, build, cancelled, node, status, fence, owner,
                   repoch, grants, retryVars, effectVars>>

(* recover_agent_finalization: a reconnecting agent with exact authority     *)
(* imposes its local phase and revives the lease, expired or not.            *)
RecoverFinalization(g, phase) ==
    /\ ExactAuthority(g)
    /\ status[g.attempt] \in {"running", "finalizing", "cancelling"}
    /\ status' = [status EXCEPT ![g.attempt] = phase]
    /\ lease' = [lease EXCEPT ![g.attempt] = LeaseTicks]
    /\ UNCHANGED <<restoreVars, enabled, build, cancelled, node, fence, owner, repoch,
                   grants, retryVars, effectVars>>

(* The attempt returns to the queue and the build, if it ran, with it. *)
Requeue(o) ==
    /\ status' = [status EXCEPT ![o] = "queued"]
    /\ owner' = [owner EXCEPT ![o] = NoAgent]
    /\ lease' = [lease EXCEPT ![o] = NoLease]
    /\ node' = "queued"
    /\ build' = IF build = "running" THEN "queued" ELSE build
    /\ UNCHANGED <<fence, repoch>>

(* Mutant of InFlight: only effects already known to be open count. *)
InFlightIfOpen(o) ==
    {e \in RowsAt(o, fence[o]) : Protected(e) /\ effect[e] \in OpenStatuses}

(* Effects of attempt o's current fence that may have reached their          *)
(* destination.                                                              *)
InFlight(o) ==
    {e \in RowsAt(o, fence[o]) : Protected(e) /\ effect[e] \in PossiblyAppliedStatuses}

(* Mutants of RequeueExpired: the cancellation is not looked at; a           *)
(* cancelling attempt is left to its agent.                                  *)
RequeueExpiredIgnoringCancellation(o) ==
    /\ status[o] \in Active /\ lease[o] = 0 /\ InFlight(o) = {} /\ enabled
    /\ Requeue(o)
    /\ UNCHANGED <<restoreVars, enabled, cancelled, grants, retryVars, effectVars>>

RequeueExpiredUnlessCancelling(o) ==
    /\ status[o] \in Active \ {"cancelling"} /\ lease[o] = 0 /\ InFlight(o) = {}
    /\ IF cancelled \/ ~enabled THEN Terminate(o, "aborted") ELSE Requeue(o)
    /\ UNCHANGED <<restoreVars, enabled, cancelled, grants, retryVars, effectVars>>

(* requeue_one_expired: an expired lease ends in an abort, in the queue or   *)
(* parked, depending on the cancellation, the pipeline and the effects in    *)
(* flight under this fence.                                                  *)
RequeueExpired(o) ==
    /\ status[o] \in Active /\ lease[o] = 0
    /\ effect' = [e \in EffectIds |->
                     IF e \in InFlight(o) /\ effect[e] \in {"prepared", "applied"}
                     THEN "uncertain" ELSE effect[e]]
    /\ \/ InFlight(o) = {} /\ (cancelled \/ ~enabled) /\ Terminate(o, "aborted")
       \/ InFlight(o) # {} /\ Park(o, NoAgent)
       \/ InFlight(o) = {} /\ ~cancelled /\ enabled /\ Requeue(o)
    /\ UNCHANGED <<restoreVars, enabled, cancelled, grants, retryVars,
                   dispatched, receipts, ambiguous>>

-----------------------------------------------------------------------------
(* Cancellation, pipeline fencing and publication. *)

(* request_cancellation_decision_as, first request for a build that is still *)
(* queued or running; the node carries no stamp of its own.                  *)
RequestCancellation ==
    /\ build \in {"queued", "running"} /\ ~cancelled
    /\ cancelled' = TRUE
    /\ \E o \in Ordinals :
          /\ IsLatest(o)
          /\ \/ /\ build = "queued"
                /\ status' = [status EXCEPT ![o] = IF @ = "queued" THEN "aborted" ELSE @]
                /\ node' = IF node = "queued" THEN "aborted" ELSE node
                /\ build' = "aborted"
             \/ /\ build = "running"
                /\ status' = [status EXCEPT ![o] = IF @ \in Active THEN "cancelling" ELSE @]
                /\ UNCHANGED <<node, build>>
    /\ UNCHANGED <<restoreVars, enabled, fence, owner, lease, repoch, grants, retryVars,
                   effectVars>>

(* transition_pipeline_operational_state: disabling moves the pipeline's     *)
(* generation on, and no later transition makes the admitted one current.    *)
FencePipeline ==
    /\ enabled
    /\ enabled' = FALSE
    /\ UNCHANGED <<restoreVars, build, cancelled, node, attemptVars, grants, retryVars,
                   effectVars>>

(* complete_agent_cancellation while the attempt is accepted, running or     *)
(* cancelling; an expired lease does not matter.  Any verified end of the    *)
(* process aborts, an unverifiable one or an open effect parks.              *)
CompleteCancellation(g, verified) ==
    LET o == g.attempt
        open == \E e \in RowsAt(o, g.fence) : effect[e] \in OpenStatuses
    IN
    /\ ExactAuthority(g)
    /\ status[o] \in {"accepted", "running", "cancelling"}
    /\ \/ ~(verified /\ ~open) /\ Park(o, owner[o])
       \/ verified /\ ~open /\ Terminate(o, "aborted")
    /\ UNCHANGED <<restoreVars, enabled, cancelled, grants, retryVars, effectVars>>

(* The outcome a cancellation-aware publication puts in place of the agent's. *)
Published(g, outcome, aware) ==
    IF aware /\ status[g.attempt] = "cancelling" THEN "aborted" ELSE outcome

(* finalize_attempt and finalize_attempt_cancellation_aware. *)
FinalizeAttempt(g, outcome, aware) ==
    LET o == g.attempt
        rows == RowsAt(o, g.fence)
        open == \E e \in rows : effect[e] \in OpenStatuses
    IN
    /\ LiveAuthority(g)
    /\ status[o] \in Executing
    /\ aware \/ outcome \in PlainOutcomes
    /\ \/ open /\ Park(o, NoAgent)
       \/ /\ ~open /\ Complete(rows, Published(g, outcome, aware))
          /\ Terminate(o, Published(g, outcome, aware))
    /\ UNCHANGED <<restoreVars, enabled, cancelled, grants, retryVars, effectVars>>

-----------------------------------------------------------------------------
(* The effect ledger. *)

truthButEffects == <<restoreVars, enabled, build, cancelled, node, attemptVars, grants,
                     retryVars>>

EffectCount == Cardinality({e \in EffectIds : effect[e] # "none"})

(* checkpoint_effect; repeating a status changes nothing. *)
CheckpointEffect(g, k, requested) ==
    LET e == <<g.attempt, g.fence, k>> IN
    /\ LiveAuthority(g) /\ status[g.attempt] \in Executing /\ enabled
    /\ \/ effect[e] = "none" /\ requested = "prepared" /\ EffectCount < MaxEffects
       \/ /\ ValidEffectTransition(effect[e], requested)
          /\ ~(requested = "abandoned" /\ receipts[e] # {})
          /\ ~(e \in dispatched /\ requested \in {"abandoned", "release_pending"})
    /\ effect' = [effect EXCEPT ![e] = requested]
    /\ UNCHANGED <<truthButEffects, dispatched, receipts, ambiguous>>

(* commit_effect_dispatch, the last durable step before the destination is   *)
(* called; replaying a committed dispatch changes nothing.                   *)
CommitDispatch(g, k) ==
    LET e == <<g.attempt, g.fence, k>> IN
    /\ LiveAuthority(g) /\ enabled
    /\ status[g.attempt] \in {"accepted", "running", "finalizing"} /\ ~cancelled
    /\ effect[e] = "prepared" /\ receipts[e] = {}
    /\ e \notin dispatched
    /\ dispatched' = dispatched \cup {e}
    /\ UNCHANGED <<truthButEffects, effect, receipts, ambiguous>>

(* The columns append_effect_evidence writes; a receipt is written once. *)
JoinReceipt(e, kind, isAmbiguous) ==
    /\ effect[e] # "none"
    /\ EvidenceInOrder(kind, effect[e], receipts[e])
    /\ kind \notin receipts[e]
    /\ receipts' = [receipts EXCEPT ![e] = @ \cup {kind}]
    /\ ambiguous' = IF kind = "outcome" /\ isAmbiguous THEN ambiguous \cup {e} ELSE ambiguous
    /\ UNCHANGED <<truthButEffects, effect, dispatched>>

(* append_effect_evidence by the live holder of the attempt, or by a         *)
(* reconciler of a parked attempt, which needs no lease and may complete any *)
(* fence of it.                                                              *)
AppendEvidence(g, k, kind, isAmbiguous) ==
    /\ LiveAuthority(g) /\ status[g.attempt] \in Executing /\ enabled
    /\ JoinReceipt(<<g.attempt, g.fence, k>>, kind, isAmbiguous)

AppendEvidenceReconciling(e, kind, isAmbiguous) ==
    /\ status[e[1]] = "reconciliation_required" /\ lease[e[1]] = NoLease
    /\ repoch[e[1]] <= epoch /\ e[2] <= fence[e[1]]
    /\ JoinReceipt(e, kind, isAmbiguous)

(* The rows of a parked attempt an operator may settle: those of the current *)
(* fence, or of every fence once a restore has ended the attempt's epoch.    *)
Reconcilable(e) ==
    /\ status[e[1]] = "reconciliation_required" /\ lease[e[1]] = NoLease
    /\ \/ repoch[e[1]] = epoch /\ e[2] = fence[e[1]]
       \/ repoch[e[1]] < epoch /\ e[2] <= fence[e[1]]

(* confirm_uncertain_effect. *)
ConfirmUncertainEffect(e) ==
    /\ Reconcilable(e)
    /\ effect[e] = "uncertain"
    /\ effect' = [effect EXCEPT ![e] = "confirmed"]
    /\ UNCHANGED <<truthButEffects, dispatched, receipts, ambiguous>>

(* A runtime effect that provably never left the controller. *)
Undispatched(e) == e[3] \in Runtime /\ receipts[e] = {} /\ e \notin dispatched

(* record_undispatched_release_after_authority_loss: refused while the       *)
(* caller's authority is still live.                                         *)
RecordUndispatchedRelease(g, k, target) ==
    LET e == <<g.attempt, g.fence, k>> IN
    /\ Undispatched(e)
    /\ effect[e] \in {"prepared", "uncertain", "release_pending"}
    /\ ~(LiveAuthority(g) /\ status[g.attempt] \in Active /\ enabled)
    /\ effect' = [effect EXCEPT ![e] = target]
    /\ UNCHANGED <<truthButEffects, dispatched, receipts, ambiguous>>

(* abandon_expired_release_pending_effect; when the observer's reservation   *)
(* runs out is up to the clock.                                              *)
AbandonExpiredReleasePending(e) ==
    /\ Reconcilable(e) /\ Undispatched(e)
    /\ effect[e] = "release_pending"
    /\ effect' = [effect EXCEPT ![e] = "abandoned"]
    /\ UNCHANGED <<truthButEffects, dispatched, receipts, ambiguous>>

-----------------------------------------------------------------------------
(* Reconciliation, retries and restore. *)

(* Mutant of FinalizeReconciled: a failed attempt may be closed again. *)
FinalizeReconciledOrFailed(o, outcome) ==
    /\ status[o] \in {"reconciliation_required", "failed"} /\ lease[o] = NoLease
    /\ ~HasRetry(o) /\ o \notin deadLetters
    /\ Terminate(o, outcome)
    /\ reconciled' = reconciled \cup {o}
    /\ UNCHANGED <<restoreVars, enabled, cancelled, grants, deadLetters, effectVars>>

(* finalize_reconciled_attempt: an operator closes a parked attempt. *)
FinalizeReconciled(o, outcome) ==
    /\ status[o] = "reconciliation_required" /\ lease[o] = NoLease
    /\ ~HasRetry(o) /\ o \notin deadLetters
    /\ \A e \in RowsOf(o) : effect[e] \notin OpenStatuses
    /\ Complete(RowsOf(o), outcome)
    /\ Terminate(o, outcome)
    /\ reconciled' = reconciled \cup {o}
    /\ UNCHANGED <<restoreVars, enabled, cancelled, grants, deadLetters, effectVars>>

(* Mutant of RetryEligible: a closed reconciliation is not looked up. *)
RetryEligibleIfReconciled(o) ==
    /\ status[o] \in {"failed", "reconciliation_required"}
    /\ ~cancelled /\ ~HasRetry(o) /\ enabled
    /\ \A e \in RowsOf(o) : e[3] \notin NonIdempotent

(* What schedule_retry_as checks before it decides. *)
RetryEligible(o) ==
    /\ status[o] \in {"failed", "reconciliation_required"}
    /\ ~cancelled /\ o \notin reconciled /\ ~HasRetry(o) /\ enabled
    /\ \A e \in RowsOf(o) : e[3] \notin NonIdempotent

(* schedule_retry_as below the caller's limit: one child attempt, and the    *)
(* node and the build return to the queue; the parent keeps its status.      *)
ScheduleRetry(o, maxAttempts) ==
    /\ RetryEligible(o) /\ o \notin deadLetters
    /\ o < maxAttempts
    /\ status' = [status EXCEPT ![o + 1] = "queued"]
    /\ repoch' = [repoch EXCEPT ![o + 1] = epoch]
    /\ node' = "queued"
    /\ build' = "queued"
    /\ UNCHANGED <<restoreVars, enabled, cancelled, fence, owner, lease, grants, retryVars,
                   effectVars>>

(* Mutant of DeadLetter: the node and the build stay parked. *)
DeadLetterStranding(o, maxAttempts) ==
    /\ RetryEligible(o)
    /\ o \in deadLetters \/ o >= maxAttempts
    /\ deadLetters' = deadLetters \cup {o}
    /\ status' = [status EXCEPT ![o] = "failed"]
    /\ UNCHANGED <<restoreVars, enabled, build, cancelled, node, fence, owner, lease, repoch,
                   grants, reconciled, effectVars>>

(* schedule_retry_as at the limit: the attempt is dead-lettered, and parked  *)
(* work fails in the same transaction.                                       *)
DeadLetter(o, maxAttempts) ==
    /\ RetryEligible(o)
    /\ o \in deadLetters \/ o >= maxAttempts
    /\ deadLetters' = deadLetters \cup {o}
    /\ \/ /\ status[o] = "reconciliation_required"
          /\ status' = [status EXCEPT ![o] = "failed"]
          /\ node' = "failed"
          /\ build' = IF build \in Terminal THEN build ELSE "failed"
       \/ /\ status[o] # "reconciliation_required"
          /\ UNCHANGED <<status, node, build>>
    /\ UNCHANGED <<restoreVars, enabled, cancelled, fence, owner, lease, repoch, grants,
                   reconciled, effectVars>>

(* seal_recovery_point. *)
SealRecoveryPoint(b) ==
    /\ points[b] = -1
    /\ points' = [points EXCEPT ![b] = epoch]
    /\ UNCHANGED <<epoch, activated, enabled, build, cancelled, node, attemptVars, grants,
                   retryVars, effectVars>>

(* activate_restore_epoch, once per backup and only for one sealed in the    *)
(* current epoch: every leased attempt is parked and its effects in flight   *)
(* become uncertain.                                                         *)
ActivateRestoreEpoch(b) ==
    LET affected == {o \in Ordinals : status[o] \in Active} IN
    /\ b \notin activated /\ points[b] = epoch
    /\ epoch < MaxEpoch
    /\ epoch' = epoch + 1
    /\ activated' = activated \cup {b}
    /\ status' = [o \in Ordinals |->
                     IF o \in affected THEN "reconciliation_required" ELSE status[o]]
    /\ owner' = [o \in Ordinals |-> IF o \in affected THEN NoAgent ELSE owner[o]]
    /\ lease' = [o \in Ordinals |-> IF o \in affected THEN NoLease ELSE lease[o]]
    /\ node' = IF affected # {} THEN "reconciliation_required" ELSE node
    /\ build' = IF affected # {} THEN "reconciliation_required" ELSE build
    /\ effect' = [e \in EffectIds |->
                     IF e[1] \in affected /\ effect[e] \in {"prepared", "applied"}
                     THEN "uncertain" ELSE effect[e]]
    /\ UNCHANGED <<points, enabled, cancelled, fence, repoch, grants, retryVars,
                   dispatched, receipts, ambiguous>>

-----------------------------------------------------------------------------
AgentCall(g) ==
    \/ AcceptOffer(g)
    \/ MarkRunning(g)
    \/ RenewLease(g)
    \/ \E phase \in {"finalizing", "cancelling"} : RecoverFinalization(g, phase)
    \/ \E verified \in BOOLEAN : CompleteCancellation(g, verified)
    \/ \E outcome \in Terminal, aware \in BOOLEAN : FinalizeAttempt(g, outcome, aware)
    \/ \E k \in EffectKeys :
          \/ \E requested \in EffectStatuses : CheckpointEffect(g, k, requested)
          \/ CommitDispatch(g, k)
          \/ \E kind \in ReceiptKinds, isAmbiguous \in BOOLEAN :
                AppendEvidence(g, k, kind, isAmbiguous)
          \/ \E target \in {"abandoned", "release_pending"} :
                RecordUndispatchedRelease(g, k, target)

OperatorCall ==
    \/ RequestCancellation
    \/ FencePipeline
    \/ \E o \in Ordinals, outcome \in Terminal : FinalizeReconciled(o, outcome)
    \/ \E o, maxAttempts \in Ordinals : ScheduleRetry(o, maxAttempts) \/ DeadLetter(o, maxAttempts)
    \/ \E b \in Backups : SealRecoveryPoint(b) \/ ActivateRestoreEpoch(b)
    \/ \E e \in EffectIds :
          \/ ConfirmUncertainEffect(e)
          \/ AbandonExpiredReleasePending(e)
          \/ \E kind \in ReceiptKinds, isAmbiguous \in BOOLEAN :
                AppendEvidenceReconciling(e, kind, isAmbiguous)

SchedulerStep ==
    \/ \E a \in Agents, o \in Ordinals : ClaimNext(a, o)
    \/ \E o \in Ordinals : Tick(o) \/ RequeueExpired(o)

Next == SchedulerStep \/ OperatorCall \/ \E g \in grants : AgentCall(g)

Spec == Init /\ [][Next]_vars

(* An agent that still holds its lease acts on it: it reports the end of the *)
(* cancelled process or publishes an outcome.                                *)
AgentAnswers(o) ==
    \E g \in grants :
        /\ g.attempt = o /\ LiveAuthority(g)
        /\ \/ CompleteCancellation(g, TRUE)
           \/ \E outcome \in Terminal : FinalizeAttempt(g, outcome, TRUE)

(* The clock advances; every work poll first runs the expiry pass; an agent  *)
(* that is alive enough to renew learns of a cancellation in the reply.      *)
Fairness ==
    \A o \in Ordinals :
        /\ WF_vars(Tick(o))
        /\ SF_vars(RequeueExpired(o))
        /\ SF_vars(AgentAnswers(o))

FairSpec == Spec /\ Fairness

-----------------------------------------------------------------------------
(* Properties. *)

(* Every row holds values its columns admit. *)
TypeOK ==
    /\ epoch \in 0 .. MaxEpoch
    /\ points \in [Backups -> -1 .. MaxEpoch]
    /\ activated \subseteq Backups
    /\ enabled \in BOOLEAN
    /\ build \in BuildStatuses
    /\ cancelled \in BOOLEAN
    /\ node \in NodeStatuses
    /\ status \in [Ordinals -> AttemptStatuses]
    /\ fence \in [Ordinals -> 0 .. MaxFence]
    /\ owner \in [Ordinals -> Agents \cup {NoAgent}]
    /\ lease \in [Ordinals -> NoLease .. LeaseTicks]
    /\ repoch \in [Ordinals -> 0 .. MaxEpoch]
    /\ grants \subseteq Grants
    /\ deadLetters \subseteq Ordinals
    /\ reconciled \subseteq Ordinals
    /\ effect \in [EffectIds -> EffectStatuses \cup {"none"}]
    /\ dispatched \subseteq EffectIds
    /\ receipts \in [EffectIds -> SUBSET ReceiptKinds]
    /\ ambiguous \subseteq EffectIds

(* What the node and the build of a non-DAG build say of their attempt. *)
Mirrors(s) ==
    \/ s = "queued" /\ node = "queued" /\ build = "queued"
    \/ s \in {"offered", "finalizing", "cancelling"} /\ node = "offered" /\ build = "running"
    \/ s \in Executing /\ node = "running" /\ build = "running"
    \/ s \in Terminal \cup {"reconciliation_required"} /\ node = s /\ build = s

(* The three tables never disagree: whatever mixture of leases, retries,     *)
(* cancellations, restores and reconciliations was applied, the node and the *)
(* build say what the latest attempt says, and every earlier attempt failed  *)
(* or is parked and was retried.                                             *)
HierarchyAgrees ==
    \A o \in Ordinals :
        /\ IsLatest(o) => Mirrors(status[o])
        /\ HasRetry(o) => status[o] \in {"failed", "reconciliation_required"}

(* At any moment at most one offer ever made, of any attempt, is accepted as *)
(* authority to run or publish: fences, owners and epochs never let two      *)
(* agents, or one agent with two offers, act on the node at once.            *)
OneAuthority ==
    \A g, h \in grants :
        /\ ExactAuthority(g) /\ status[g.attempt] \in Active
        /\ ExactAuthority(h) /\ status[h.attempt] \in Active
        => g = h

(* A leased attempt belongs to the current restore epoch and to an agent     *)
(* that was offered it; an attempt that is not leased has no expiry, so no   *)
(* expiry pass and no live-lease check can find it.                          *)
LeaseMatchesStatus ==
    \A o \in Ordinals :
        IF status[o] \in Active
        THEN /\ lease[o] # NoLease
             /\ repoch[o] = epoch
             /\ [attempt |-> o, fence |-> fence[o], epoch |-> epoch, agent |-> owner[o]] \in grants
        ELSE lease[o] = NoLease

(* Cancellation is not lost to a lease race: from the moment it commits, no  *)
(* attempt of the build is queued or offered again, whichever of expiry,     *)
(* reconnection, retry and restore comes next.                               *)
CancelledNeverOffered ==
    cancelled => \A o \in Ordinals : status[o] \notin {"queued", "offered"}

(* Scheduling a retry and closing the parent are exclusive decisions: an     *)
(* attempt with a child was neither closed by reconciliation nor dead-       *)
(* lettered, and no attempt was both.                                        *)
RetryXorClose ==
    /\ \A o \in Ordinals : HasRetry(o) => o \notin reconciled /\ o \notin deadLetters
    /\ reconciled \cap deadLetters = {}

(* An effect that may have reached its destination pins its attempt: the     *)
(* attempt is never offered again under a later fence, nor queued for one.   *)
ProtectedEffectPinsFence ==
    \A e \in EffectIds :
        Protected(e) /\ effect[e] \in PossiblyAppliedStatuses =>
            e[2] = fence[e[1]] /\ status[e[1]] \notin {"queued", "offered"}

(* A non-idempotent effect is dispatched at most once over all fences and    *)
(* attempts of the node.                                                     *)
DispatchedAtMostOnce ==
    \A d, e \in dispatched : d[3] = e[3] /\ d[3] \in NonIdempotent => d = e

(* What was abandoned never left: no dispatch was committed for it and no    *)
(* destination evidence exists or will be joined.                            *)
AbandonedNeverLeft ==
    \A e \in EffectIds : effect[e] = "abandoned" => e \notin dispatched /\ receipts[e] = {}

(* A success means that every runtime effect of the published fence is       *)
(* confirmed with its receipts and that none of its effects is open, also    *)
(* after every later call.                                                   *)
SuccessIsComplete ==
    \A o \in Ordinals : status[o] = "succeeded" =>
        \A e \in RowsAt(o, fence[o]) :
            /\ effect[e] \notin OpenStatuses
            /\ e[3] \in Runtime => RuntimeEffectComplete(effect[e], receipts[e],
                                                         e \in ambiguous, "succeeded")

(* Retries never rewrite an attempt: a terminal attempt keeps its status,    *)
(* its fence and its owner for ever.                                         *)
KeepsTerminal ==
    \A o \in Ordinals : status[o] \in Terminal =>
        status'[o] = status[o] /\ fence'[o] = fence[o] /\ owner'[o] = owner[o]

(* Retries never rewrite an attempt: no step of the store changes one that   *)
(* is terminal.                                                              *)
TerminalIsFinal == [][KeepsTerminal]_vars

(* A fence moves by one, and only when its attempt is offered from the queue. *)
MovesFenceByOffer ==
    \A o \in Ordinals :
        \/ fence'[o] = fence[o]
        \/ fence'[o] = fence[o] + 1 /\ status[o] = "queued" /\ status'[o] = "offered"

(* A fence only grows, one at a time, and only when the attempt is offered   *)
(* from the queue; a lease is revived only for the fence that held it.       *)
FenceGrowsByOffer == [][MovesFenceByOffer]_vars

(* A committed cancellation converges: the build ends or is parked for an    *)
(* operator.                                                                 *)
CancellationConverges ==
    cancelled ~> build \in Terminal \cup {"reconciliation_required"}

(* finalize_attempt_cancellation_aware promises that "a committed            *)
(* cancellation always wins" over a failure the agent reports.               *)
CancellationOutranksFailure ==
    [][\A o \in Ordinals :
          cancelled /\ status[o] \in Active => status'[o] # "failed"]_vars

-----------------------------------------------------------------------------
(* What the safety properties rest on.                                      *)

(* Only the latest attempt can still change: every earlier one failed or is  *)
(* parked.                                                                   *)
Lineage ==
    \A o, p \in Ordinals :
        o < p /\ status[p] # "absent" => status[o] \in {"failed", "reconciliation_required"}

(* No offer is ahead of its attempt's fence, and a fence was offered once. *)
GrantsFollowFences ==
    \A g \in grants :
        /\ g.fence <= fence[g.attempt]
        /\ \A h \in grants : h.attempt = g.attempt /\ h.fence = g.fence => h = g

(* An attempt that does not exist yet was never offered. *)
AbsentIsFresh == \A o \in Ordinals : status[o] = "absent" => fence[o] = 0

(* An attempt with a non-idempotent effect has no retry. *)
NonIdempotentIsLast ==
    \A e \in EffectIds, p \in Ordinals :
        e[3] \in NonIdempotent /\ effect[e] # "none" /\ e[1] < p => status[p] = "absent"

(* A dispatched row exists and is never taken back. *)
DispatchedIsKept == \A e \in dispatched : effect[e] \notin {"none", "abandoned"}
=============================================================================
