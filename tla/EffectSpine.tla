----------------------------- MODULE EffectSpine -----------------------------
(***************************************************************************)
(* The worker of crates/execution-spine that carries out one certified     *)
(* external effect: it drives the controller's truth, the destination      *)
(* observer and the external connector through one claim, from the offer   *)
(* to the published outcome.                                               *)
(*                                                                         *)
(* The controller is ControllerTruth, with the worker in the place of its  *)
(* arbitrary agent: every store call is one of its actions and a step of   *)
(* its own, so cancellations, expiries, restores and operators come in     *)
(* between.  The connector is what EffectChannel promises.  Of the observer *)
(* only the reservation is kept that a verified request holds and that a   *)
(* release gives back.                                                     *)
(*                                                                         *)
(* A claim is worked on once.  A worker that stops - it dies, loses its     *)
(* authority or cannot reach the store - leaves everything as it is; the    *)
(* connector process it started may go on without it.                      *)
(***************************************************************************)
EXTENDS ControllerTruth

CONSTANTS
    MaxSends,       \* bound: deliveries of one retry-safe request
    MaxOffers       \* bound: offers over all attempts

ASSUME SpineBoundsAssumption == MaxSends \in Nat /\ MaxOffers \in Nat

VARIABLES
    plan,           \* the effect key of the admitted plan
    worker,         \* where the worker of each grant is, and what it will publish
    reservation,    \* the observer's reservation for each effect
    lapsed,         \* effects whose observation request has expired
    called,         \* effects whose connector process was started
    verdict, sends, applied     \* the channel

spineVars == <<plan, worker, reservation, lapsed, called>>
channelVars == <<verdict, sends, applied>>

Channel == INSTANCE EffectChannel WITH
    Requests <- EffectIds,
    Scope <- [e \in EffectIds |-> e],
    NonIdempotent <- {e \in EffectIds : e[3] \in NonIdempotent}

allVars == <<vars, spineVars, channelVars>>

(* The places of run_effect_claim_under_lease between two store or service  *)
(* calls.                                                                   *)
Places ==
    {"start", "accepted", "leased", "starting", "running", "prepared", "preflight",
     "abandoning", "verified", "gated", "committing", "refused", "releasing",
     "lost_free", "lost_held", "exiting", "exit_free", "exit_held", "publishing", "committed",
     "executing", "answered", "joined", "recorded", "observed", "confirming",
     "reconciling", "reconciled", "reconfirming", "confirmed", "replayed", "final",
     "routing", "routed", "violated", "stopped"}

At(g, place) == worker[g].at = place
Place(place, outcome) == [at |-> place, outcome |-> outcome]
EffectOf(g) == <<g.attempt, g.fence, plan>>

SpineInit ==
    /\ Init
    /\ plan \in Runtime
    /\ worker = [g \in Grants |-> Place("start", "none")]
    /\ reservation = [e \in EffectIds |-> "none"]
    /\ lapsed = {}
    /\ called = {}
    /\ Channel!Init

(* The worker moves on and nothing else of the spine changes; the step of   *)
(* the store, if any, is conjoined.                                         *)
Goes(g, place, outcome) ==
    /\ worker' = [worker EXCEPT ![g] = Place(place, outcome)]
    /\ UNCHANGED <<plan, reservation, lapsed, called, channelVars>>

Keeps(g, place) == Goes(g, place, worker[g].outcome)

(* attempt_execution: the worker's claim is live and its pipeline enabled. *)
Executable(g) == LiveAuthority(g) /\ status[g.attempt] \in Active /\ enabled

----------------------------------------------------------------------------
(* Before the effect *)

(* accept_offer, then the first renewal. *)
Accept(g) == At(g, "start") /\ AcceptOffer(g) /\ Keeps(g, "accepted")
FirstRenewal(g) == At(g, "accepted") /\ RenewLease(g) /\ Keeps(g, "leased")

(* The plan is bound to another claim, the build is cancelled, or it starts. *)
ReadAccepted(g) ==
    /\ At(g, "leased") /\ Executable(g)
    /\ \/ Goes(g, "publishing", "failed")
       \/ cancelled /\ Goes(g, "publishing", "aborted")
       \/ ~cancelled /\ Keeps(g, "starting")
    /\ UNCHANGED vars

Start(g) == At(g, "starting") /\ MarkRunning(g) /\ Keeps(g, "running")

(* The authority windows do not cover the effect. *)
NoWindow(g) == At(g, "running") /\ Goes(g, "publishing", "failed") /\ UNCHANGED vars

prepare_effect(g) ==
    At(g, "running") /\ CheckpointEffect(g, plan, "prepared") /\ Keeps(g, "prepared")

ReadPrepared(g) ==
    /\ At(g, "prepared") /\ Executable(g)
    /\ \/ cancelled /\ Goes(g, "abandoning", "aborted")
       \/ ~cancelled /\ Keeps(g, "preflight")
    /\ UNCHANGED vars

abandon_prepared_effect(g) ==
    At(g, "abandoning") /\ CheckpointEffect(g, plan, "abandoned") /\ Keeps(g, "publishing")

(* finalize_effect_attempt: not aware of a cancellation. *)
finalize_effect_attempt(g) ==
    /\ At(g, "publishing")
    /\ FinalizeAttempt(g, worker[g].outcome, FALSE)
    /\ Keeps(g, "stopped")

(* The observation request or a service does not validate, or the observer  *)
(* definitively refuses: there is no reservation.                           *)
RefuseObservation(g) == At(g, "preflight") /\ Goes(g, "abandoning", "failed") /\ UNCHANGED vars

Reserved(g, held) ==
    [reservation EXCEPT ![EffectOf(g)] = IF held THEN "held" ELSE @]

(* Mutant of LoseVerify: any error counts as a refusal. *)
LoseVerifyAsRefusal(g) ==
    /\ At(g, "preflight")
    /\ worker' = [worker EXCEPT ![g] = Place("abandoning", "failed")]
    /\ \E held \in BOOLEAN : reservation' = Reserved(g, held)
    /\ UNCHANGED <<vars, plan, lapsed, called, channelVars>>

(* The observer reserves and says so, or the answer does not arrive. *)
verify_observer_request(g) ==
    /\ At(g, "preflight") /\ EffectOf(g) \notin lapsed
    /\ worker' = [worker EXCEPT ![g] = Place("verified", "none")]
    /\ reservation' = Reserved(g, TRUE)
    /\ UNCHANGED <<vars, plan, lapsed, called, channelVars>>

LoseVerify(g) ==
    /\ At(g, "preflight")
    /\ worker' = [worker EXCEPT ![g] = Place("exiting", "failed")]
    /\ \E held \in BOOLEAN : reservation' = Reserved(g, held)
    /\ UNCHANGED <<vars, plan, lapsed, called, channelVars>>

----------------------------------------------------------------------------
(* The dispatch decision, with the renewal gate held *)

DispatchRenewal(g) == At(g, "verified") /\ RenewLease(g) /\ Keeps(g, "gated")

(* The last look: cancelled, a window too short, or go. *)
ReadGated(g) ==
    /\ At(g, "gated") /\ Executable(g)
    /\ \/ cancelled /\ Goes(g, "exiting", "aborted")
       \/ ~cancelled /\ Goes(g, "exiting", "failed")
       \/ ~cancelled /\ EffectOf(g) \notin lapsed /\ Keeps(g, "committing")
    /\ UNCHANGED vars

(* The renewal or the look fails, or the renewal task failed before. *)
LoseAuthority(g) ==
    /\ worker[g].at \in {"verified", "gated", "committing"}
    /\ Keeps(g, "releasing") /\ UNCHANGED vars

commit_effect_dispatch(g) ==
    At(g, "committing") /\ CommitDispatch(g, plan) /\ Keeps(g, "committed")

(* The commit happened, but the store's answer is lost. *)
LoseCommit(g) == At(g, "committing") /\ CommitDispatch(g, plan) /\ Keeps(g, "releasing")

(* The store refuses the commit: authority is lost or the build cancelled. *)
RefuseCommit(g) ==
    /\ At(g, "committing") /\ ~(Executable(g) /\ ~cancelled)
    /\ Keeps(g, "refused") /\ UNCHANGED vars

ReadRefused(g) ==
    /\ At(g, "refused")
    /\ \/ Executable(g) /\ cancelled /\ Goes(g, "exiting", "aborted")
       \/ ~(Executable(g) /\ cancelled) /\ Keeps(g, "releasing")
    /\ UNCHANGED vars

(* release_observer_request, once or up to three times: it succeeds, or     *)
(* fails with the reservation given back or not.                            *)
Release(g, from, done, failed) ==
    LET e == EffectOf(g)
        freed == [reservation EXCEPT ![e] = IF @ = "held" THEN "released" ELSE @] IN
    /\ At(g, from)
    /\ \/ reservation' = freed /\ worker' = [worker EXCEPT ![g].at = done]
       \/ reservation' \in {reservation, freed} /\ worker' = [worker EXCEPT ![g].at = failed]
    /\ UNCHANGED <<vars, plan, lapsed, called, channelVars>>

ReleaseOnce(g) == Release(g, "releasing", "lost_free", "lost_held")
ReleaseRetrying(g) == Release(g, "exiting", "exit_free", "exit_held")

(* persist_undispatched_release_disposition: with the lease, or without it  *)
(* once the authority is gone.                                              *)
Persist(g, target) ==
    \/ CheckpointEffect(g, plan, target)
    \/ RecordUndispatchedRelease(g, plan, target)

PersistLost(g) ==
    \/ At(g, "lost_free") /\ Persist(g, "abandoned") /\ Keeps(g, "stopped")
    \/ At(g, "lost_held") /\ Persist(g, "release_pending") /\ Keeps(g, "stopped")

(* finalize_reserved_pre_dispatch_exit: the outcome is published only when   *)
(* the reservation is back, else the attempt is routed to reconciliation.    *)
PersistExit(g) ==
    \/ At(g, "exit_free") /\ Persist(g, "abandoned") /\ Keeps(g, "publishing")
    \/ At(g, "exit_held") /\ Persist(g, "release_pending") /\ Keeps(g, "routed")

----------------------------------------------------------------------------
(* The effect and its evidence *)

(* The connector process is started, and works on by itself. *)
invoke_connector(g) ==
    /\ At(g, "committed")
    /\ worker' = [worker EXCEPT ![g].at = "executing"]
    /\ called' = called \cup {EffectOf(g)}
    /\ UNCHANGED <<vars, plan, reservation, lapsed, channelVars>>

Deliver(e) ==
    /\ e \in called /\ sends[e] < MaxSends
    /\ Channel!Deliver(e)
    /\ UNCHANGED <<vars, spineVars>>

(* The worker reads neither the dispatch time of a verdict nor which of the  *)
(* two failures it is.                                                       *)
Settle(e, outcome) ==
    /\ e \in called
    /\ Channel!Settle(e, [outcome |-> outcome, dispatched |-> sends[e] > 0])
    /\ UNCHANGED <<vars, spineVars>>

Answer(g) ==
    /\ At(g, "executing") /\ verdict[EffectOf(g)] # Channel!NoVerdict
    /\ Keeps(g, "answered") /\ UNCHANGED vars

IsAmbiguous(g) == verdict[EffectOf(g)].outcome = "ambiguous"

(* record_effect_outcome: the receipt, then the status. *)
JoinOutcome(g) ==
    /\ At(g, "answered")
    /\ AppendEvidence(g, plan, "outcome", IsAmbiguous(g))
    /\ Keeps(g, "joined")

RecordOutcome(g) ==
    /\ At(g, "joined")
    /\ CheckpointEffect(g, plan, IF IsAmbiguous(g) THEN "uncertain" ELSE "applied")
    /\ Keeps(g, "recorded")

(* The observer uses up its reservation. *)
invoke_observer(g) ==
    /\ At(g, "recorded") /\ EffectOf(g) \notin lapsed
    /\ worker' = [worker EXCEPT ![g].at = "observed"]
    /\ reservation' = [reservation EXCEPT ![EffectOf(g)] = "used"]
    /\ UNCHANGED <<vars, plan, lapsed, called, channelVars>>

(* confirm_effect_observation: an ambiguous effect stays uncertain. *)
JoinObservation(g) ==
    /\ At(g, "observed")
    /\ AppendEvidence(g, plan, "observation", FALSE)
    /\ Keeps(g, IF IsAmbiguous(g) THEN "reconciling" ELSE "confirming")

ConfirmObservation(g) ==
    At(g, "confirming") /\ CheckpointEffect(g, plan, "confirmed") /\ Keeps(g, "confirmed")

(* The connector resolves its ambiguous verdict. *)
ReconcileAmbiguous(g) ==
    /\ At(g, "reconciling")
    /\ Channel!Resolve(EffectOf(g))
    /\ worker' = [worker EXCEPT ![g].at = "reconciled"]
    /\ UNCHANGED <<vars, plan, reservation, lapsed, called>>

(* record_reconciled_effect_outcome. *)
JoinReconciliation(g) ==
    /\ At(g, "reconciled")
    /\ AppendEvidence(g, plan, "reconciliation", FALSE)
    /\ Keeps(g, "reconfirming")

ConfirmReconciled(g) ==
    At(g, "reconfirming") /\ CheckpointEffect(g, plan, "confirmed") /\ Keeps(g, "confirmed")

(* Mutant of TerminalOf: a confirmed effect that left counts as a success. *)
TerminalOfSent(g) == IF sends[EffectOf(g)] > 0 THEN "succeeded" ELSE "failed"

(* What the joined verdict publishes. *)
TerminalOf(g) == IF verdict[EffectOf(g)].outcome = "succeeded" THEN "succeeded" ELSE "failed"

(* The shadow has replayed the outcome; the cancellation is read. *)
invoke_shadow(g) ==
    /\ At(g, "confirmed") /\ Executable(g)
    /\ Goes(g, "replayed", IF cancelled THEN "aborted" ELSE TerminalOf(g))
    /\ UNCHANGED vars

(* finalize_effect_shadow_join_as. *)
JoinShadow(g) ==
    At(g, "replayed") /\ AppendEvidence(g, plan, "shadow_replay", FALSE) /\ Keeps(g, "final")

PublishJoined(g) ==
    At(g, "final") /\ FinalizeAttempt(g, worker[g].outcome, TRUE) /\ Keeps(g, "stopped")

(* Any call after the commit fails, before or after it took effect. *)
Fail(g) ==
    /\ worker[g].at \in {"executing", "answered", "joined", "recorded", "observed", "confirming",
                        "reconciling", "reconciled", "reconfirming", "confirmed", "replayed",
                        "final"}
    /\ Keeps(g, "routing") /\ UNCHANGED vars

(* Mutant of Route: the effect is left as it is. *)
RouteUnmarked(g) == At(g, "routing") /\ Keeps(g, "routed") /\ UNCHANGED vars

(* route_effect_reconciliation: the effect is marked uncertain, once ... *)
Route(g) ==
    /\ At(g, "routing")
    /\ \/ CheckpointEffect(g, plan, "uncertain")
       \/ effect[EffectOf(g)] = "uncertain" /\ Executable(g) /\ UNCHANGED vars
    /\ Keeps(g, "routed")

(* ... and the attempt offered for publication, which the store must refuse. *)
PublishRouted(g) ==
    /\ At(g, "routed")
    /\ FinalizeAttempt(g, "failed", FALSE)
    /\ Keeps(g, IF status'[g.attempt] \in Terminal THEN "violated" ELSE "stopped")

----------------------------------------------------------------------------
(* The surroundings *)

(* maintain_effect_lease, outside the gate. *)
Gate == {"gated", "committing", "refused", "releasing", "lost_free", "lost_held",
         "exiting", "exit_free", "exit_held"}
MaintainLease(g) ==
    /\ worker[g].at \notin Gate \cup {"start", "accepted", "stopped", "violated"}
    /\ RenewLease(g)
    /\ UNCHANGED <<spineVars, channelVars>>

Stop(g) ==
    /\ worker[g].at \notin {"stopped", "violated"}
    /\ Keeps(g, "stopped") /\ UNCHANGED vars

(* The observation request expires, and with it the reservation. *)
Lapse(e) ==
    /\ reservation[e] = "held" /\ e \notin lapsed
    /\ lapsed' = lapsed \cup {e}
    /\ UNCHANGED <<vars, plan, worker, reservation, called, channelVars>>

(* An operator abandons a pending release only after that time. *)
AbandonLapsed(e) ==
    /\ reservation[e] = "held" => e \in lapsed
    /\ AbandonExpiredReleasePending(e)
    /\ UNCHANGED <<spineVars, channelVars>>

Operators ==
    /\ \/ RequestCancellation \/ FencePipeline
       \/ \E o \in Ordinals, outcome \in Terminal : FinalizeReconciled(o, outcome)
       \/ \E o, maxAttempts \in Ordinals :
             ScheduleRetry(o, maxAttempts) \/ DeadLetter(o, maxAttempts)
       \/ \E b \in Backups : SealRecoveryPoint(b) \/ ActivateRestoreEpoch(b)
       \/ \E e \in EffectIds : ConfirmUncertainEffect(e)
       \/ \E e \in EffectIds, kind \in ReceiptKinds :
             AppendEvidenceReconciling(e, kind, kind = "outcome" /\ verdict[e].outcome = "ambiguous")
    /\ UNCHANGED <<spineVars, channelVars>>

Scheduler ==
    /\ \/ /\ Cardinality(grants) < MaxOffers
          /\ \E a \in Agents, o \in Ordinals : ClaimNext(a, o)
       \/ \E o \in Ordinals : Tick(o) \/ RequeueExpired(o)
    /\ UNCHANGED <<spineVars, channelVars>>

BeforeEffect(g) ==
    \/ Accept(g) \/ FirstRenewal(g) \/ ReadAccepted(g) \/ Start(g) \/ NoWindow(g)
    \/ prepare_effect(g) \/ ReadPrepared(g) \/ abandon_prepared_effect(g)
    \/ finalize_effect_attempt(g) \/ RefuseObservation(g)
    \/ verify_observer_request(g) \/ LoseVerify(g)

DispatchDecision(g) ==
    \/ DispatchRenewal(g) \/ ReadGated(g) \/ LoseAuthority(g) \/ commit_effect_dispatch(g)
    \/ LoseCommit(g) \/ RefuseCommit(g) \/ ReadRefused(g)
    \/ ReleaseOnce(g) \/ ReleaseRetrying(g) \/ PersistLost(g) \/ PersistExit(g)

AfterDispatch(g) ==
    \/ invoke_connector(g) \/ Answer(g) \/ JoinOutcome(g) \/ RecordOutcome(g)
    \/ invoke_observer(g) \/ JoinObservation(g) \/ ConfirmObservation(g)
    \/ ReconcileAmbiguous(g) \/ JoinReconciliation(g) \/ ConfirmReconciled(g)
    \/ invoke_shadow(g) \/ JoinShadow(g) \/ PublishJoined(g)
    \/ Fail(g) \/ Route(g) \/ PublishRouted(g)

SpineNext ==
    \/ Scheduler \/ Operators
    \/ \E g \in grants :
          BeforeEffect(g) \/ DispatchDecision(g) \/ AfterDispatch(g) \/ MaintainLease(g) \/ Stop(g)
    \/ \E e \in EffectIds :
          \/ Deliver(e) \/ Lapse(e) \/ AbandonLapsed(e)
          \/ \E outcome \in {"succeeded", "failed", "ambiguous"} : Settle(e, outcome)

SpineSpec == SpineInit /\ [][SpineNext]_allVars

----------------------------------------------------------------------------
(* Properties *)

(* The worker, the reservations and the channel hold values they can have.   *)
SpineTypeOK ==
    /\ plan \in Runtime
    /\ worker \in [Grants -> [at : Places, outcome : Terminal \cup {"none"}]]
    /\ reservation \in [EffectIds -> {"none", "held", "released", "used"}]
    /\ lapsed \subseteq EffectIds /\ called \subseteq EffectIds
    /\ verdict \in [EffectIds -> Channel!Verdicts \cup {Channel!NoVerdict}]
    /\ sends \in [EffectIds -> Nat]
    /\ applied \subseteq EffectIds

(* End to end, a non-idempotent effect leaves at most once: the connector    *)
(* keeps this for one attempt and fence, the controller over all of them,    *)
(* through worker deaths, lost answers, expiries, retries and restores.      *)
LeavesAtMostOnce ==
    \A d, e \in EffectIds :
        d[3] \in NonIdempotent /\ d[3] = e[3] /\ sends[d] > 0 /\ sends[e] > 0 =>
            d = e /\ sends[d] = 1

(* An abandoned effect is over: the connector was never started for it, and  *)
(* the observer holds no live reservation for it that would refuse the next  *)
(* observation of the destination.                                           *)
AbandonedIsOver ==
    \A e \in EffectIds : effect[e] = "abandoned" =>
        /\ e \notin called /\ sends[e] = 0
        /\ reservation[e] = "held" => e \in lapsed

(* The worker publishes a success only of an effect that the destination     *)
(* has applied.                                                              *)
SuccessWasApplied ==
    \A o \in Ordinals :
        status[o] = "succeeded" /\ o \notin reconciled => <<o, fence[o], plan>> \in applied

(* EffectInvariantViolated is unreachable: the store never publishes an      *)
(* outcome of an attempt whose effect was just marked uncertain or pending.  *)
NeverViolated == \A g \in grants : worker[g].at # "violated"
=============================================================================
