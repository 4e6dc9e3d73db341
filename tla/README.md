# McLoving: TLA+ models and proofs

McLoving is a CI controller. Its PostgreSQL store (`crates/controller-store`) is
the only authority on what was admitted, who runs it, what it did to the outside
world and how it ended. Around it are agents that run the work, a worker that
carries out external effects through a connector, an object store that keeps
artifacts, and tasks that tell the outside world of outcomes. Each of these may
crash, lose a reply or come too late, and the store must stay right.

This project models these parts as state machines translated from the Rust code
and its SQL, model-checks them with TLC and proves safety properties with TLAPS
for every number of agents, attempts, offers, effects, processes and objects, every
graph of nodes and every number of builds and delivery tasks.

## The system's parts

| part | code | here |
|---|---|---|
| attempt lifecycle: claim, lease, fence, publication, cancellation, reconciliation, retry, dead letter, restore epoch | `controller-store/src/lib.rs`, `scheduler.rs` | `ControllerTruth` |
| effect ledger: checkpoints, dispatch, receipts, release | `controller-store/src/lib.rs` | `EffectLedger`, `ControllerTruth` |
| pipeline DAG: contract, readiness, fail-fast, retry, derived build status | `controller-store/src/dag.rs`, migrations 0009 and 0018 | `DagBuild` |
| pipeline operational state (enable, disable, generations) | `controller-store/src/product.rs` | the fencing transition only |
| agent: session loop, journal, execution, lease renewal, recovery | `bins/agent`, `agent-runtime`, RPCs of `bins/controller` | `Agent`, over `ControllerTruth` |
| worker of an external effect | `execution-spine` | `EffectSpine`, over `ControllerTruth` and `EffectChannel` |
| external connector and its store | `external-connector` | `Connector`, which implements `EffectChannel` |
| destination observer | `destination-observer` | its reservation and its answers, in `EffectSpine` |
| notification of outcomes | `controller-store/src/lib.rs`, `dag.rs`, `controller-api/src/notifications.rs` | `Notifications` |
| artifacts: staging, publication, reaping, retention, holds, deletion | `object-store`, `artifact_sets.rs`, `artifact_rpc.rs`, `controller-api`, `controller-store/src/lib.rs` | `Artifacts` |
| trigger ingress, discovery, schedules | `trigger_ingress.rs`, `discovery.rs`, `schedule_calendar.rs` | not modelled, candidates |
| provisioner, secret broker, cache | crates of those names | not modelled, candidates |
| identity, roles, API, CLI, UI | `identity.rs`, `project_roles.rs`, `controller-api`, `bins/cli`, `ui` | not modelled: access decisions and rendering |
| source acquisition, dependency resolution, pipeline IR | crates of those names | not modelled: file, network and format handling |
| Jenkins migration, differential, qualification, provenance tools | crates of those names, `compat` | not modelled: offline tools |

`PROJECT.json` lists every part with its status and reason, the lines each
definition translates, and the hazards of the code at the lines where they bite.

## Modules

* `EffectLedger` has no state. It holds the rules of an `attempt_effects` row:
  its statuses, the transitions a checkpoint may ask for
  (`valid_effect_transition`), the order in which receipts join, and when a
  ledger is complete for an outcome.
* `ControllerTruth` is one single-node build: the rows of `builds`, `nodes` and
  `attempts` (status, fence, owner, expiry, restore epoch), the restore epoch and
  its recovery points, dead letters, closed reconciliations and the effect rows.
  Each handler of the store is one action. That is what the code guarantees: a
  handler is one transaction, and all that write the hierarchy hold the
  organisation's scheduler lock and the restore fence. The interleaving is in
  everything around the store. `grants` remembers every offer ever made, and an
  agent may present any of its offers at any later time and as often as it likes;
  so lost, late, repeated and reordered calls need no message queue of their own.
  `Tick` lets leases run out. A lost call is an action that is not taken.
* `Agent` puts the agent's program in the place of that arbitrary agent. A host
  is one process: `at` is its place in `run_session` or `run_assignment`, `row`
  the durable journal row of an offer, `work` the process group it spawned. Every
  RPC is one action of `ControllerTruth`; its reply may be lost, which ends the
  session. `Crash` takes the agent down between any two steps and leaves the
  workload running. Here a lease has `Window` ticks; the agent counts its own
  deadline (`held`) from the moment it asked for a renewal, as
  `lease_cancellation_deadline` does, and ends the workload `Margin + Grace` ticks
  before the lease can be over.
* `EffectChannel` is abstract: what a connector promises to whoever asks it to
  carry out an effect. A request ends in at most one verdict, one that is not
  idempotent leaves at most once, two requests never share a physical scope, and
  a verdict says no more than what is known.
* `EffectSpine` is `run_effect_claim`: the worker's way from the offer through
  preparation, the observer's verification, the dispatch commit, the connector,
  the observation, the shadow join and the publication, with every early exit.
  Each store or service call is a step of its own, so expiries, cancellations and
  operators come in between; each reply may be lost and the worker may stop
  anywhere. Of the connector it knows `EffectChannel` only.
* `Connector` is the connector with its SQLite store: the lineage lock, the
  configuration generations, the receipt capacity, claims, dispatch marks, sends,
  retries, receipts, reconciliation, and the death of a process anywhere.
* `Notifications` is the delivery of outcomes: the row written by the terminal
  transaction, the tasks that claim, mark, post and settle it, supersession by a
  later build of the same commit, requeueing after a stale write, and the later
  observation of a delivered status. A post may be applied and its answer lost,
  the target may apply a body after its deadline, a task may vanish.
* `Artifacts` is the staging directory, the content store and the rows about
  them: plain artifacts, artifact sets, the reaper, retentions, legal holds and
  deletion claims. A transaction or a file operation is one action; a commit of a
  set, a pass of the reaper and a deletion are several, with anything in between.
* `DagBuild` is one build with a graph of nodes. It keeps, per node, the node row
  (status, logical outcome, cancellation stamp) and its latest attempt; leases
  and fences are those of `ControllerTruth` and are not repeated. The settling of
  a node and everything that follows in the same transaction (retry, skipping,
  fail-fast, repeated advancing, deriving the build) is one action, as in
  `advance_dag_after_attempt`. `QueuedOrBlocked` is the trigger of migration
  0018 that turns a queued node into a blocked one when its parents were re-opened.
* The `MC` modules give the constants values for TLC. `MCTruth`, `MCEffects`,
  `MCBuilds` and `MCConvergence` hold several parts that share no state: `part`
  says which of them a behaviour runs, so a run covers the sum of their state
  spaces and not the product. The graphs of `MCDagBuild` are contracts
  `validate_dag_contract` admits; `Builds` has three of them.
* `ControllerTruthProofs`, `EffectSpineProofs`, `ConnectorProofs`, `ArtifactsProofs`,
  `AgentSessionProofs`, `AgentProofs`, `DagBuildProofs` and `NotificationsProofs` hold
  the theorems. The proof about the agent has two modules because of its size: the
  first has the invariant and the steps of the session loop and of an assignment,
  the second the renewals, time, the surroundings and the theorems.

Names follow the code: `ClaimNext` is `claim_next_with_session`, `RequeueExpired`
is `requeue_one_expired`, and so on; the `map` of `PROJECT.json` gives the lines.
Definitions whose comment starts with "Mutant of" are variants of the next
definition with a plausible bug. They show that the property they go with would
notice that bug; the models do not use them.

## Runs

All runs set `CHECK_DEADLOCK FALSE`: a finished build, a settled request and a
delivered notification really stop.

| run | question | bounds | result |
|---|---|---|---|
| `Truth` | do the controller's rows agree under any agent; does the agent's program keep its lease and its journal; is what is listed there? | 2 agents, 2 attempts, 2 offers each, 1 restore, 1 effect key; 1 agent program with 1 crash or lost reply, lease of 4 ticks; 2 sets and 2 plain artifacts, 1 caller, 2 deletion workers | holds, 402,206 states |
| `Effects` | does an effect leave once, and is what is published of it true? | 2 attempts, 2 offers, 1 effect key, 1 delivery; 3 requests in 2 scopes, 2 processes, 2 generations, 1 death | holds, 543,542 states |
| `Builds` | do node, attempt and build rows agree, does the graph never stall; which status stands in the end? | 3 nodes, 3 contracts, 1 dead letter, 1 restore; 2 builds, 2 tasks, 2 delivery attempts, 1 fault | holds, 524,020 states |
| `Convergence` | does a cancellation converge, does every notification come to rest? | 2 agents, 1 attempt, 2 offers, leases of 2 ticks, 1 restore; 2 builds, 1 task, 1 fault | holds, 96,291 states |
| `CancellationOverridden`, `DagDeadLetter`, `DagReconciledRetry`, `DagFencedOutcome`, `DagStalledCleanup`, `NotificationOrder`, `AgentOffline`, `AgentReplay` | one statement of the documentation each | small | violated, see Findings |

The properties, by run:

* `Truth`. `HierarchyAgrees`: node and build say what the latest attempt says, and
  earlier attempts are failed or parked. `OneAuthority`: at most one offer ever
  made is accepted as authority. `LeaseMatchesStatus`: exactly the leased attempts
  have an expiry, and they belong to the current epoch and to an agent that was
  offered them. `CancelledNeverOffered`, `RetryXorClose`, `TerminalIsFinal`:
  decisions that no later call takes back. `ProtectedEffectPinsFence`: an attempt
  whose effect may have been applied keeps its fence. `SuccessIsComplete`: a
  published success has every receipt, and late calls take none back.
  `RunsUnderLease`: an agent that is up never watches work its lease does not
  cover. `RetiredMeansGone`: a journal row is retired with a result only when its
  process is gone. `JournalAgrees`: the journal records what was published.
  `ListedIsReadable`: what is listed has its bytes, a set all at once.
  `ReservedBytesSurvive`: no reaper, abort or deletion takes the bytes of a member
  whose set may still be committed. `OnlyUnprotectedDeleted`: content leaves the
  store only while nobody retains, holds or publishes it.
* `Effects`. `LeavesAtMostOnce`, `AbandonedIsOver`, `SuccessWasApplied` and
  `NeverViolated` of the worker; `RoomToSettle`, `OneRuntime` and `KeepsPromise` of
  the connector, the last of which is the refinement of `EffectChannel`.
* `Builds`. `RowsAgree` and `NeverStalls` are stated for an enabled pipeline,
  `BuildReportsNodes` for builds without dead letters; the exceptions are findings
  or documented behaviour. `LastWriteStands`: when everything has come to rest the
  target shows the latest build. `ObservedStatusStands`: the observation that
  closes a delivery saw the row's own status. `DeliveredWasAccepted`: a delivered
  row was accepted by the target.
* `Convergence`. `CancellationConverges` and `DeliveriesRest`, the liveness
  properties.

Why the bounds are enough to be interesting: two offers of an attempt are what a
stale agent needs, two attempts what a retry needs. One restore makes two epochs.
Two agents differ in nothing but their names. A lease of four ticks leaves the
agent two to work with, so a renewal can be asked for, be late and be lost within
it. One crash or one lost reply at any of the agent's places is what its recovery
is written for. Three nodes give a parent, a child and a bystander, and each
contract was chosen for one rule (fail-fast, clean-up, join, sequential). Three
objects of one content in two organizations are what the global deletion rule is
about; two deletion workers race for one claim. Two requests for one physical
scope and a third for another, two processes and one death are what the
connector's claims are about, and the second generation has one receipt more than
the first. The bounds are constants and appear only in guards.

The parts of a run are restricted in the MC module where a product would add
nothing: in `MCTruth` the part `agents` checkpoints no effect, the part `effects`
has one agent in an enabled pipeline and either a retry or a restore, and the part
`program` has one crash, one lost reply or a fenced pipeline and no retry; in
`MCBuilds` either the first build is retried or a fault happens. The proofs have
none of these restrictions.

### Fairness

`ControllerTruth.Fairness` has, for each attempt: weak fairness of the clock;
strong fairness of `RequeueExpired`, because every work poll runs the expiry pass
first (`reconcile_expired_and_claim_next`) and the controller sleeps at most until
the next expiry (`next_lease_expiry_delay`), so an expiry that keeps recurring is
found at some time; strong fairness of `AgentAnswers`, because an agent that keeps
its lease alive learns of the cancellation in the reply to its renewal and then
reports the end of its process or publishes. The last one is an assumption about
agents. An agent that is gone is covered by the first two; one that reconnects
for ever and never answers is excluded.

`Notifications.DeliveryFairness` has weak fairness of the clock, of the scan for
spent rows and of every task that holds a row (the dispatcher's loop runs again
after every pass, whatever the last one did), and strong fairness of claiming a
due row, because other rows may be claimed before it.

`Agent.OfflineSpec` has weak fairness of the clock and of the steps an agent
takes by itself; `OnlineSpec` adds its session, its calls and its renewals. They
are used by `AgentOffline` and `AgentReplay` only, whose counterexamples are
behaviours in which everybody does what they can.

## Proofs

All theorems hold for every value of the constants that satisfies the named
assumptions of the modules. The assumptions say that bounds are naturals, that
`NoAgent` is no agent, that effect classes are sets of keys, that `ProducerOf`,
`MaxUploads` and `MaxReceipts` are functions on their sets, that no object is both
a member of a set and plain, and that the connector's requests are finitely many.
For the agent: the margin is positive (`lease_rpc_budget` subtracts a whole second),
and a lease leaves a positive budget after margin and grace. For graphs: the nodes
are finitely many and at least one, and every contract is one that
`validate_dag_contract` admits. For notifications: builds are finitely many, numbered
in the order of their admission, and an attempt's deadline is shorter than the quiet
time before an observation, which is shorter than the lease of a claim, as the three
constants in the code are.

| module | theorems |
|---|---|
| `ControllerTruthProofs` | `Spec` implies `TypeOK`, `HierarchyAgrees`, `LeaseMatchesStatus`, `OneAuthority`, `CancelledNeverOffered`, `RetryXorClose`, `TerminalIsFinal`, `FenceGrowsByOffer` |
| `EffectSpineProofs` | `Spec` implies `ProtectedEffectPinsFence`, `AbandonedNeverLeft`, `DispatchedAtMostOnce`, `SuccessIsComplete`; `SpineSpec` implies `Spec`, `SpineTypeOK`, `LeavesAtMostOnce`, `AbandonedIsOver`, `SuccessWasApplied`, `NeverViolated` |
| `ConnectorProofs` | `ConnectorSpec` implies `EffectChannel`'s specification, `ConnectorTypeOK`, `OneRuntime`, `RoomToSettle` |
| `ArtifactsProofs` | `ArtifactsSpec` implies `ArtifactsTypeOK`, `OnlyUnprotectedDeleted`, `ListedIsReadable`, `ReservedBytesSurvive` |
| `AgentSessionProofs`, `AgentProofs` | `AgentSpec` implies `Spec`, `AgentTypeOK`, `RunsUnderLease`, `RetiredMeansGone`, `JournalAgrees` |
| `DagBuildProofs` | the advancing of nodes reaches a fixpoint; `DagBuild`'s `Spec` implies `TypeOK`, `RowsAgree`, `BuildReportsNodes`, and that logical outcomes are final while the pipeline is enabled |
| `NotificationsProofs` | `DeliverySpec` implies `DeliveryTypeOK`, `DeliveredWasAccepted`, `LastWriteStands`, `ObservedStatusStands` |

The arguments:

* **Rows.** `RowInv` is inductive: types, `HierarchyAgrees`, `LeaseMatchesStatus`
  and three strengthenings. `Lineage` (every attempt before another is failed or
  parked) is needed because a handler writes the node and the build without asking
  whether its attempt is the latest: only the latest can be in a state the handler
  accepts. `GrantsFollowFences` (no offer is ahead of its fence, and a fence was
  offered once) and `AbsentIsFresh` give `OneAuthority`: leased attempts are the
  latest, and the latest has one offer at its fence.
* **Decisions.** `DecisionInv` is inductive relative to `RowInv`:
  `CancelledNeverOffered` and `RetryXorClose`. The same case split proves the two
  action properties.
* **Effects.** `EffectInv` is inductive relative to `RowInv`.
  `NonIdempotentIsLast` (an attempt with a non-idempotent row has no retry) carries
  `DispatchedAtMostOnce` across attempts and `ProtectedEffectPinsFence` carries it
  across fences. `SuccessIsComplete` is inductive relative to `RowInv` alone: after
  the success its attempt is neither live nor parked, and no handler writes its
  rows.
* **The worker.** Every step of `EffectSpine` is a step of `ControllerTruth` or
  leaves it alone (`TruthStep`), so the worker is one of the agents that module
  allows for (`WorkerIsAnAgent`), and what is proved there holds here. On top of
  that `SpineKept` is inductive. `Knows(g)` says what the worker of a claim may
  rely on at each place: before it asks the observer nothing is reserved, at
  `committed` the dispatch is in the ledger, with a success in hand the effect is
  applied, at `routed` the effect is open. It survives the steps of others because
  two claims are about two effects (`ClaimsDiffer`) and because the controller and
  its operators may park, expire or confirm an effect but not prepare, release or
  dispatch it (`SurroundingsStep`). `Ahead` (nothing exists under a fence that was
  not offered) gives a new claim its clean start. `ChannelKept` (the connector is
  started only for what the ledger says was dispatched, and delivers only what it
  was started for) then reduces `LeavesAtMostOnce` over attempts and fences to
  `DispatchedAtMostOnce`, and for one attempt and fence to the connector's
  promise, which `ConnectorProofs` proves of the connector.
* **The connector.** `LineageInv` (one process works at a time, on a pending
  request, for the generation it opened the directory with) gives `OneRuntime`.
  `RoomInv` counts: a pending request holds two slots, an ambiguous receipt one,
  and the sum of receipts and slots moves with every claim and every settlement
  (`SlotsMove`). `PromiseInv` (what is not marked as dispatched has not left; a
  request that left owns its scope; what a process is about to write is true) makes
  every step a step of `EffectChannel` under the mapping `verdict`, `bodies`,
  `effected`, or a stutter.
* **Artifacts.** `DeletionInv`: a claimed digest stays eligible, because the
  trigger refuses whatever would make it protected, and a worker is past its mark
  only where deletion has begun. `BytesKept` and `SetsAgree`: bytes last until
  their deletion has begun, which is never undone; so do those that a call has
  linked and is about to list. For `ReservedBytesSurvive`: a token is used once,
  the file of a call in hand is claimed and young, and the reaper releases a claim
  only after the check that no open set needs it (`ReaperCareful`), which stays true
  because a set that was given up stays given up.

* **The agent.** Every call of the agent's program is a step of `ControllerTruth`
  (`AgentImplementsTruth`), so what is proved for arbitrary agents holds of it.
  `AgentInv` is inductive relative to `RowInv` and `DecisionInv`. `OneInHand`: an
  agent works on one attempt and its journal has no other that is open. `Standing`
  says, place by place, what of that attempt is durable and what runs; it is what a
  crash must find. `RowKept` is about the rows that are left behind and gives
  `RetiredMeansGone` and `JournalAgrees`. `Clocked` and `Covered` compare the two
  clocks: an unanswered renewal is not older than the term held allows, and where
  a process may run the controller's lease lasts `Grace + Margin` longer than what
  the agent counts on, or `Margin` longer than the rest of a cancellation. That
  gives `RunsUnderLease`. The steps of others keep it because two offers with
  authority over a leased attempt are the same offer (`SameAuthority`) and because
  every other step of the store leaves a live lease its ticks (`Calm`).
* **The graph.** `advance_blocked_nodes` repeats its round until nothing changes,
  here as many rounds as there are nodes. That this many are enough
  (`AdvanceReachesFixpoint`) holds because a round that changes something leaves one
  node fewer blocked. `DagInv` has the agreement of each node's rows while the
  pipeline is enabled; that a dead letter is about an attempt that failed and stays
  so (`Lettered`); that without one a failed node has its outcome, also after a
  fence (`Named`); and what the build's status says of the nodes (`Reports`). The
  rounds and the skipping of fail-fast keep these for any graph, because they touch
  only blocked and queued nodes, whose queued attempt they settle with them.
* **Notifications.** `ClaimsStand` is the order of the deadlines: a delivery claim on
  the current outcome stays with its task until it is settled, since its lease
  outlasts the task; so no two tasks post the same outcome. `Corrected` is the
  chain of corrections, without faults: for the newest row that is delivered or
  whose post is out, either the status shows it, or the row will be posted again,
  or some task that wrote an older outcome still owes it a post (`Owes`).
  `Observed` is the later observation, with faults: while a post of an older
  outcome may still be applied (`IsStale`, `MayWrite`), the newest row has not been
  observed and is not due before that post's deadline has passed; from then on
  whatever task has seen or written the newest outcome finds it shown. The three
  theorems hold of all of `DeliverySpec`, with retries of builds and faults
  together, which the run `Builds` separates.

All inductive invariants were checked with TLC on small instances before they were
proved.

Where a proof needs an induction over data, it is a minimal counterexample: the
least number of rounds that is not enough, the smallest set of builds without a
largest one. `WFMin` of the library gives these, since it has no operator parameter.

Only model-checked, and why:

* `CancellationConverges` and `DeliveriesRest`: liveness under fairness is beyond
  the prover.
* `NeverStalls` of `DagBuild` is not true of every contract: the finding
  `DagStalledCleanup` is a contract for which it fails. The run checks it for
  contracts without that shape. `AdvanceReachesFixpoint` is the part of it that holds
  of every graph.
* `TruthTypeOK`, `EffectsTypeOK` and `BuildsTypeOK` put the type invariants of the
  parts of a run together. The type invariants of the parts are proved.

## Findings

* `CancellationOverridden`: the agent's program accepts an offer, makes a failure
  durable in its journal and crashes before it publishes it; the build is cancelled
  and the attempt becomes `cancelling`. After the restart the agent reports the phase
  `finalizing`, which erases `cancelling`; the replayed, cancellation-aware
  publication then fails the cancelled build, although the handler's comment says
  that a committed cancellation always wins. In TLC's trace the failure is one of the
  preparation, before any process; a workload that ran and failed leads to the same.
* `DagDeadLetter`: a dead-lettered DAG node gets no logical outcome, so the build
  may still become `succeeded`.
* `DagReconciledRetry`: closing a parked DAG attempt as failed creates its retry
  child in the same transaction; the documentation calls the two exclusive. For
  single-node builds they are, which is proved.
* `DagFencedOutcome`: a node that the pipeline fence settled is parked again by a
  late, unverifiable cancellation.
* `DagStalledCleanup`: an operator's retry of a clean-up node after fail-fast
  revives a skipped node that nothing advances; the build waits for ever.
* `NotificationOrder`: a build that ends again while its own post is out clears
  its in-flight mark, and the first post of a later build overtakes that attempt.
* `AgentOffline`: an agent that restarts while the controller cannot be reached
  leaves the recovered workload running.
* `AgentReplay`: the replay of a single-step failure with a named reason carries
  another summary than the publication whose reply was lost, is refused, and is
  replayed for ever.

Met while reading, without a run:

* The comment of `acquire_org_scheduler_lock` names effect checkpoints as outside
  the lock, while `checkpoint_effect` takes it.
* `renew` for a fenced pipeline answers with a cancellation and does not extend the
  lease (`scheduler.rs:705`).
* `requeue_after_stale_settlement` clears the in-flight mark of a delivered row
  whose reconciliation may be running.
* An agent that crashes between two transitions of its journal
  (`journal_published_terminal`, `commit_replayed_phase`) finds a phase that
  conflicts with its durable result, and one that crashes between marking an
  execution as cancelling and persisting its result cannot replay it
  (`worker.rs:649`). A process identifier is journaled after the process was
  started; `RetiredMeansGone` speaks of recorded processes and does not cover one
  that a crash left unrecorded.
* `requeue_one_expired` aborts a cancelled attempt and keeps its owner; the owner's
  later publication carries another summary and is refused.
* A connector request that ends as ambiguous and was never applied blocks the
  rotation of the connector, by design.
* The abort of a refused duplicate `commit_artifact` may remove the claimed file
  that an exact retry has just reserved, while
  `docs/architecture/OPERATIONAL_DATA.md:34` says that exact retries resume it. The
  pending row of a lost attempt keeps its digest from being deleted for ever.

## What the models leave out

Contents of payloads, digests, signatures, summaries beyond their kind, events and
the outbox; workspace namespaces and affinity; capability matching, trust pools and
priorities of the claim query (any queued attempt may be claimed by any agent);
released and abandoned effects at the level of graphs. A restore is the activation
of a new epoch on the rows as they are; the rewind to the backup is not modelled.
In `Agent`: session epochs, logs, credentials, containers, checkouts, the renewals
during a replay, and restores. In `Artifacts`: sizes, quotas and the byte stream;
files in the hands of a call do not age, which is what the object store asks of
operators ("an age greater than the longest permitted stage-to-commit interval"), so a member
that is registered from a file already old, between the reaper's check and its
release, is assumed away (`InHand`); and the gap statuses that a verified download
records on a row (`set_object_status`, controller-store `lib.rs:6750`).
In `Connector`: payload validation, keys and TLS. In `Notifications`: addresses,
signatures and templates.

`PROJECT.json` names the parts of the repository that have no model and the reason
for each. Next candidates are trigger ingress, then provisioner, secret broker and
cache.
