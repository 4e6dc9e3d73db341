---------------------------- MODULE Notifications ----------------------------
(***************************************************************************)
(* Delivery of build outcomes.  The transaction that makes a build terminal *)
(* records one row of notification_deliveries per target; tasks of the      *)
(* controllers claim due rows, post them and settle them, and observe       *)
(* delivered commit statuses again.                                         *)
(*                                                                          *)
(* A build here names one target at most: the one commit status all the     *)
(* status rows share, or a webhook.  A store call is one transaction and    *)
(* one action.  What is not atomic is the work of a task between its calls, *)
(* and what the target does with a body it received.                        *)
(*                                                                          *)
(* Times are countdowns in ticks: a row's "wait" is the time left until its *)
(* next_attempt_at (0: due; kept for pending rows only), and so on.  A      *)
(* reconciliation token is fresh for each claim and a claim charges an      *)
(* attempt, so the pair (generation, charged attempts) stands for the       *)
(* token; the token is set exactly while the lease is                       *)
(* (notification_reconciliation_claim_pair).                                *)
(***************************************************************************)
EXTENDS Integers, Sequences, FiniteSets, FiniteSetsExt

CONSTANTS
    Builds,             \* naturals: a build with a larger one was created later
    Tasks,              \* delivery tasks of all controllers
    MaxDeliveryAttempts, \* MAX_DELIVERY_ATTEMPTS
    MaxReconciliations, \* MAX_RECONCILIATION_ATTEMPTS
    Deadline,           \* DELIVERY_DEADLINE_SECONDS
    Quiet,              \* STALE_WRITE_QUIET_SECONDS
    ClaimLease,         \* CLAIM_LEASE_SECONDS
    MaxBackoff,         \* bound on the wait after a failed attempt
    Targets,            \* the assignments of targets to builds to consider
    Terminals,          \* each build's terminal statuses: more than one if retried
    MaxFaults           \* bound on crashes, lost answers and late writes

BuildOutcomes == {"succeeded", "failed", "aborted"}

(* The order of the deadlines is asserted in domain/src/notifications.rs, or *)
(* true of the constants there.                                              *)
ASSUME DeliveryAssumption ==
    /\ Builds \subseteq Nat /\ IsFiniteSet(Builds)
    /\ Targets \subseteq [Builds -> {"github_status", "webhook", "none"}]
    /\ Terminals \in [Builds -> Seq(BuildOutcomes)]
    /\ {MaxDeliveryAttempts, MaxReconciliations} \subseteq Nat \ {0}
    /\ {MaxBackoff, MaxFaults, Deadline, Quiet, ClaimLease} \subseteq Nat
    /\ 0 < Deadline /\ Deadline < Quiet /\ Quiet < ClaimLease

VARIABLES
    kind,       \* each build's target: "github_status", "webhook" or "none"
    row,        \* each build's delivery row
    task,       \* what each task is doing
    shown,      \* the last write the commit status shows
    late,       \* bodies the target received but has not applied
    accepted,   \* <<build, generation>> of every post a target answered
    faults,     \* crashes, lost answers and late writes so far
    lates       \* late writes among them

deliveryVars == <<kind, row, task, shown, late, accepted, faults, lates>>

Nil == -1

RowStates == {"none", "pending", "delivered", "abandoned"}
TaskPhases == {"idle", "claimed", "observing", "sending", "applied", "posted", "matched",
           "failed", "superseded", "requeue", "follow", "requeueLater"}
StatusWrites == [build : Builds, outcome : BuildOutcomes]
NoWrite == [build |-> Nil, outcome |-> "none"]

DeliveryRows == [generation : Nat, outcome : BuildOutcomes \cup {"none"},
         state : RowStates, attempts : Nat, wait : Nat,
         inFlight : BOOLEAN, repost : BOOLEAN,
         recAttempts : Nat, recDue : Nat \cup {Nil},
         recLease : Nat \cup {Nil}, recError : BOOLEAN]
NoRow == [generation |-> 0, outcome |-> "none", state |-> "none", attempts |-> 0,
          wait |-> 0, inFlight |-> FALSE, repost |-> FALSE, recAttempts |-> 0,
          recDue |-> Nil, recLease |-> Nil, recError |-> FALSE]

TaskWork == [phase : TaskPhases, job : {"deliver", "reconcile"}, build : Builds \cup {Nil},
          generation : Nat, outcome : BuildOutcomes \cup {"none"},
          attempts : Nat, left : Nat, age : Nat, holder : Builds \cup {Nil}]
IdleTask == [phase |-> "idle", job |-> "deliver", build |-> Nil, generation |-> 0,
         outcome |-> "none", attempts |-> 0, left |-> 0, age |-> 0, holder |-> Nil]

DeliveryTypeOK ==
    /\ kind \in Targets
    /\ row \in [Builds -> DeliveryRows]
    /\ task \in [Tasks -> TaskWork]
    /\ shown \in StatusWrites \cup {NoWrite}
    /\ late \subseteq StatusWrites
    /\ accepted \subseteq Builds \X Nat
    /\ faults \in 0..MaxFaults /\ lates \in 0..faults

DeliveryInit ==
    /\ kind \in Targets
    /\ row = [b \in Builds |-> NoRow]
    /\ task = [t \in Tasks |-> IdleTask]
    /\ shown = NoWrite
    /\ late = {}
    /\ accepted = {}
    /\ faults = 0
    /\ lates = 0

----------------------------------------------------------------------------
(* Rows of one commit status *)

IsStatus(b) == kind[b] = "github_status"
StatusRows == {b \in Builds : IsStatus(b) /\ row[b].state # "none"}

(* The latest of the later builds whose row names the same status. *)
LaterRows(b) == {c \in StatusRows : c > b}
later_github_status_holder(b) == IF LaterRows(b) = {} THEN Nil ELSE Max(LaterRows(b))

(* Under the status key's lock: an earlier build may write at this moment. *)
HeldInFlight(b) ==
    IsStatus(b) /\ \E o \in StatusRows : o < b /\ row[o].inFlight

----------------------------------------------------------------------------
(* The terminal transaction *)

(* A build becomes terminal, perhaps again after a retry re-opened it. *)
RecordTerminal(b) == LET generation == row[b].generation + 1 IN
    /\ kind[b] # "none" /\ generation \in DOMAIN Terminals[b]
    /\ row' = [row EXCEPT ![b] =
                 [NoRow EXCEPT !.generation = generation,
                               !.outcome = Terminals[b][generation], !.state = "pending",
                               !.wait = IF row[b].inFlight \/ HeldInFlight(b)
                                        THEN Quiet ELSE 0]]
    /\ UNCHANGED <<kind, task, shown, late, accepted, faults, lates>>

----------------------------------------------------------------------------
(* Claims *)

(* Rows whose last attempt was claimed by a task that never settled it. *)
Spent(b) == /\ row[b].state = "pending"
            /\ row[b].attempts >= MaxDeliveryAttempts
            /\ row[b].wait = 0

(* Mutant of AbandonSpent: spent rows are left as they are. *)
AbandonSpentNever == row

AbandonSpent == [b \in Builds |->
    IF Spent(b) THEN [row[b] EXCEPT !.state = "abandoned", !.inFlight = FALSE]
                ELSE row[b]]

Due(b) == /\ row[b].state = "pending"
          /\ row[b].attempts < MaxDeliveryAttempts
          /\ row[b].wait = 0

(* A scan that finds no due row still abandons the spent ones. *)
ScanSpent ==
    /\ \E b \in Builds : Spent(b)
    /\ row' = AbandonSpent
    /\ UNCHANGED <<kind, task, shown, late, accepted, faults, lates>>

(* The scan claims every due row up to a limit, each for a task of its own; *)
(* it is taken here one row at a time.                                      *)
ClaimNotification(t, b) ==
    /\ task[t].phase = "idle" /\ Due(b)
    /\ row' = [AbandonSpent EXCEPT ![b].attempts = @ + 1, ![b].wait = ClaimLease]
    /\ task' = [task EXCEPT ![t] =
                  [IdleTask EXCEPT !.phase = "claimed", !.build = b,
                               !.generation = row[b].generation,
                               !.outcome = row[b].outcome,
                               !.attempts = row[b].attempts + 1]]
    /\ UNCHANGED <<kind, shown, late, accepted, faults, lates>>

(* A reconciliation claim whose task died after charging the last attempt. *)
RetireSpentReconciliations == [b \in Builds |->
    IF /\ IsStatus(b) /\ row[b].state = "delivered"
       /\ row[b].recAttempts >= MaxReconciliations /\ row[b].recLease = 0
    THEN [row[b] EXCEPT !.recDue = Nil, !.recLease = Nil, !.inFlight = FALSE,
                        !.recError = TRUE]
    ELSE row[b]]

ReconciliationDue(b) ==
    /\ IsStatus(b) /\ row[b].state = "delivered"
    /\ row[b].recAttempts < MaxReconciliations
    /\ row[b].recDue = 0 /\ row[b].recLease \in {Nil, 0}

ScanSpentReconciliations ==
    /\ RetireSpentReconciliations # row
    /\ row' = RetireSpentReconciliations
    /\ UNCHANGED <<kind, task, shown, late, accepted, faults, lates>>

ClaimReconciliation(t, b) ==
    /\ task[t].phase = "idle" /\ ReconciliationDue(b)
    /\ row' = [RetireSpentReconciliations EXCEPT ![b].recAttempts = @ + 1,
                                                 ![b].recLease = ClaimLease]
    /\ task' = [task EXCEPT ![t] =
                  [IdleTask EXCEPT !.phase = "claimed", !.job = "reconcile", !.build = b,
                               !.generation = row[b].generation,
                               !.outcome = row[b].outcome,
                               !.attempts = row[b].recAttempts + 1]]
    /\ UNCHANGED <<kind, shown, late, accepted, faults, lates>>

----------------------------------------------------------------------------
(* Marking the attempt in flight *)

(* The row still carries this task's delivery claim... *)
HoldsDelivery(t) == LET r == row[task[t].build] IN
    /\ r.state = "pending"
    /\ r.generation = task[t].generation
    /\ r.attempts = task[t].attempts
(* ... or its reconciliation claim, with the lease not run out. *)
HoldsReconciliation(t) == LET r == row[task[t].build] IN
    /\ r.state = "delivered"
    /\ r.generation = task[t].generation
    /\ r.recAttempts = task[t].attempts
    /\ r.recLease > 0
Holds(t) == IF task[t].job = "deliver" THEN HoldsDelivery(t) ELSE HoldsReconciliation(t)

(* Only a running request has a deadline. *)
Requesting == {"observing", "sending", "applied"}
TaskGoes(t, phase) ==
    task' = [task EXCEPT ![t].phase = phase,
                         ![t].left = IF phase \in Requesting THEN @ ELSE 0]

MarkInFlight(t) == LET b == task[t].build IN
    /\ task[t].phase = "claimed"
    /\ Holds(t)
    /\ IsStatus(b) => LaterRows(b) = {}
    /\ row' = [row EXCEPT ![b].inFlight = TRUE]
    /\ task' = [task EXCEPT ![t].left = Deadline,
                            ![t].phase = IF task[t].job = "deliver" THEN "sending"
                                                                    ELSE "observing"]
    /\ UNCHANGED <<kind, shown, late, accepted, faults, lates>>

MarkOvertaken(t) ==
    /\ task[t].phase = "claimed"
    /\ ~Holds(t)
    /\ TaskGoes(t, "failed")
    /\ UNCHANGED <<kind, row, shown, late, accepted, faults, lates>>

MarkSuperseded(t) == LET b == task[t].build IN
    /\ task[t].phase = "claimed"
    /\ Holds(t)
    /\ IsStatus(b) /\ LaterRows(b) # {}
    /\ TaskGoes(t, "superseded")
    /\ UNCHANGED <<kind, row, shown, late, accepted, faults, lates>>

----------------------------------------------------------------------------
(* The request.  The target and the network are external. *)

Content(t) == [build |-> task[t].build, outcome |-> task[t].outcome]

(* Mutant of Observe: any status at the target will do. *)
ObserveAny(t) ==
    /\ task[t].phase = "observing"
    /\ TaskGoes(t, IF shown # NoWrite THEN "matched" ELSE "sending")
    /\ UNCHANGED <<kind, row, shown, late, accepted, faults, lates>>

(* reconcile: the status is read, and posted again only if it differs. *)
Observe(t) ==
    /\ task[t].phase = "observing"
    /\ TaskGoes(t, IF shown = Content(t) THEN "matched" ELSE "sending")
    /\ UNCHANGED <<kind, row, shown, late, accepted, faults, lates>>

(* The target applies the body of a running attempt. *)
Apply(t) ==
    /\ task[t].phase = "sending"
    /\ shown' = IF IsStatus(task[t].build) THEN Content(t) ELSE shown
    /\ TaskGoes(t, "applied")
    /\ UNCHANGED <<kind, row, late, accepted, faults, lates>>

Answer(t) ==
    /\ task[t].phase = "applied"
    /\ TaskGoes(t, "posted")
    /\ accepted' = accepted \cup {<<task[t].build, task[t].generation>>}
    /\ UNCHANGED <<kind, row, shown, late, faults, lates>>

(* Nothing was written: a refused address, a failed connection, an error    *)
(* answer, or the deadline before the body was sent.                        *)
FailUnsent(t) ==
    /\ task[t].phase \in {"claimed", "observing", "sending"}
    /\ TaskGoes(t, "failed")
    /\ UNCHANGED <<kind, row, shown, late, accepted, faults, lates>>

(* Written, but the answer was lost or came after the deadline. *)
LoseAnswer(t) ==
    /\ task[t].phase = "applied" /\ faults < MaxFaults
    /\ TaskGoes(t, "failed")
    /\ faults' = faults + 1
    /\ UNCHANGED <<kind, row, shown, late, accepted, lates>>

(* The attempt ended but the target holds its body, to apply it later. *)
LeaveBody(t) ==
    /\ task[t].phase = "sending" /\ IsStatus(task[t].build) /\ faults < MaxFaults
    /\ late' = late \cup {Content(t)}
    /\ TaskGoes(t, "failed")
    /\ faults' = faults + 1 /\ lates' = lates + 1
    /\ UNCHANGED <<kind, row, shown, accepted>>

ApplyLate(w) ==
    /\ w \in late
    /\ shown' = w
    /\ late' = late \ {w}
    /\ UNCHANGED <<kind, row, task, accepted, faults, lates>>

(* The controller dies; what the task did so far stays. *)
LoseTask(t) ==
    /\ task[t].phase # "idle" /\ faults < MaxFaults
    /\ task' = [task EXCEPT ![t] = IdleTask]
    /\ faults' = faults + 1
    /\ UNCHANGED <<kind, row, shown, late, accepted, lates>>

----------------------------------------------------------------------------
(* Settlement *)

TaskEnds(t) == task' = [task EXCEPT ![t] = IdleTask]

(* Rows whose claim another step took over are left alone. *)
Supersede(t) == LET b == task[t].build IN
    /\ task[t].phase = "superseded" /\ task[t].job = "deliver"
    /\ row' = IF HoldsDelivery(t)
              THEN [row EXCEPT ![b].state = "abandoned", ![b].wait = 0,
                               ![b].repost = FALSE, ![b].inFlight = FALSE]
              ELSE row
    /\ TaskEnds(t)
    /\ UNCHANGED <<kind, shown, late, accepted, faults, lates>>

Delivered(r) ==
    IF r.repost
    THEN [r EXCEPT !.attempts = 0, !.wait = 0, !.recDue = Nil, !.recLease = Nil,
                   !.repost = FALSE, !.inFlight = FALSE]
    ELSE [r EXCEPT !.state = "delivered", !.wait = 0, !.recLease = Nil,
                   !.inFlight = FALSE]

(* Mutant of SettlePosted: the generation is not compared. *)
SettlePostedAnyGeneration(t) == LET b == task[t].build IN
    /\ task[t].phase = "posted" /\ task[t].job = "deliver"
    /\ IF row[b].state = "pending" /\ row[b].attempts = task[t].attempts
       THEN /\ row' = [row EXCEPT ![b] = Delivered(row[b])]
            /\ TaskGoes(t, "follow")
       ELSE row' = row /\ TaskGoes(t, "requeue")
    /\ UNCHANGED <<kind, shown, late, accepted, faults, lates>>

(* settle_notification for a post that was answered. *)
SettlePosted(t) == LET b == task[t].build IN
    /\ task[t].phase = "posted" /\ task[t].job = "deliver"
    /\ IF HoldsDelivery(t)
       THEN LET r == Delivered(row[b])
                observed == IsStatus(b) /\ r.state = "delivered"
                                        /\ r.recAttempts < MaxReconciliations IN
            /\ row' = [row EXCEPT ![b] = [r EXCEPT !.recDue = IF observed THEN Quiet
                                                                          ELSE Nil]]
            /\ TaskGoes(t, "follow")
       ELSE row' = row /\ TaskGoes(t, "requeue")
    /\ UNCHANGED <<kind, shown, late, accepted, faults, lates>>

(* settle_notification for a failure: the mark stands unless the attempts   *)
(* are spent.  The wait, 2^attempts seconds up to an hour, is at first      *)
(* shorter and later longer than a deadline: any wait up to the bound.      *)
SettleFailed(t) == LET b == task[t].build
                       spent == row[b].attempts >= MaxDeliveryAttempts IN
    /\ task[t].phase = "failed" /\ task[t].job = "deliver"
    /\ \E backoff \in 0..MaxBackoff :
         row' = IF ~HoldsDelivery(t) THEN row
                ELSE [row EXCEPT ![b].state = IF spent THEN "abandoned" ELSE "pending",
                                 ![b].wait = IF spent THEN 0 ELSE backoff,
                                 ![b].recDue = Nil, ![b].recLease = Nil,
                                 ![b].repost = FALSE,
                                 ![b].inFlight = @ /\ ~spent]
    /\ TaskEnds(t)
    /\ UNCHANGED <<kind, shown, late, accepted, faults, lates>>

(* settle_notification_reconciliation: what was delivered stays delivered.  *)
SettleReconciliation(t) == LET b == task[t].build
                               spent == row[b].recAttempts >= MaxReconciliations
                               error == task[t].phase = "failed"
                               superseded == task[t].phase = "superseded" IN
    /\ task[t].phase \in {"matched", "posted", "failed", "superseded"}
    /\ task[t].job = "reconcile"
    /\ \E backoff \in 0..MaxBackoff :
         row' = IF ~HoldsReconciliation(t) THEN row
                ELSE [row EXCEPT ![b].recDue = IF superseded \/ spent THEN Nil
                                               ELSE IF error THEN backoff ELSE Quiet,
                                 ![b].recLease = Nil,
                                 ![b].recError = error,
                                 ![b].inFlight = @ /\ error /\ ~spent]
    /\ IF task[t].phase = "posted"
       THEN TaskGoes(t, IF HoldsReconciliation(t) THEN "follow" ELSE "requeue")
       ELSE TaskEnds(t)
    /\ UNCHANGED <<kind, shown, late, accepted, faults, lates>>

(* Mutant of Requeued: only a row at rest is posted once more. *)
RequeuedIfDelivered(r, stale) ==
    IF r.generation > stale /\ r.state = "delivered"
    THEN [r EXCEPT !.attempts = 0, !.wait = 0, !.inFlight = FALSE, !.state = "pending",
                   !.recDue = Nil, !.recLease = Nil]
    ELSE r

(* requeue_after_stale_settlement: a row that may have been overwritten is  *)
(* posted once more.  A delivered row at once, a claimed or waiting one     *)
(* after its next success; a due row will be posted anyway.                 *)
Requeued(r, stale) ==
    IF r.generation > stale /\ (r.state = "delivered" \/ (r.state = "pending" /\ r.wait > 0))
    THEN [r EXCEPT !.attempts = IF r.state = "delivered" THEN 0 ELSE @,
                   !.wait = IF r.state = "delivered" THEN 0 ELSE @,
                   !.repost = r.state # "delivered",
                   !.inFlight = @ /\ r.state # "delivered",
                   !.recDue = Nil, !.recLease = Nil,
                   !.state = "pending"]
    ELSE r

(* A stale post was answered: the row's newer generation goes again. *)
RequeueOwn(t) == LET b == task[t].build IN
    /\ task[t].phase = "requeue"
    /\ row' = [row EXCEPT ![b] = Requeued(row[b], task[t].generation)]
    /\ TaskGoes(t, "follow")
    /\ UNCHANGED <<kind, shown, late, accepted, faults, lates>>

FollowLater(t) == LET b == task[t].build
                      later == later_github_status_holder(b) IN
    /\ task[t].phase = "follow"
    /\ IF ~IsStatus(b) \/ later = Nil
       THEN TaskEnds(t)
       ELSE task' = [task EXCEPT ![t].phase = "requeueLater", ![t].holder = later]
    /\ UNCHANGED <<kind, row, shown, late, accepted, faults, lates>>

(* A later build became terminal while this write was in flight. *)
RequeueLater(t) == LET h == task[t].holder IN
    /\ task[t].phase = "requeueLater"
    /\ row' = [row EXCEPT ![h] = Requeued(row[h], 0)]
    /\ TaskEnds(t)
    /\ UNCHANGED <<kind, shown, late, accepted, faults, lates>>

----------------------------------------------------------------------------
(* Time.  A request is dropped at its deadline, and a task is done with all *)
(* its calls before its claim's lease runs out: the bound on one delivery   *)
(* and the lease of three such bounds are there for that.                   *)

Less(n) == IF n > 0 THEN n - 1 ELSE n

DeliveryTick ==
    /\ \A t \in Tasks : /\ task[t].phase \in Requesting => task[t].left > 0
                        /\ task[t].phase # "idle" => task[t].age + 1 < ClaimLease
    /\ row' = [b \in Builds |-> [row[b] EXCEPT !.wait = Less(@), !.recDue = Less(@),
                                              !.recLease = Less(@)]]
    /\ task' = [t \in Tasks |-> [task[t] EXCEPT
                  !.left = Less(@),
                  !.age = IF task[t].phase = "idle" THEN 0 ELSE @ + 1]]
    /\ <<row', task'>> # <<row, task>>
    /\ UNCHANGED <<kind, shown, late, accepted, faults, lates>>

----------------------------------------------------------------------------

TaskSettles(t) == \/ Supersede(t) \/ SettlePosted(t) \/ SettleFailed(t)
              \/ SettleReconciliation(t) \/ RequeueOwn(t) \/ FollowLater(t)
              \/ RequeueLater(t)
TaskMarks(t) == MarkInFlight(t) \/ MarkOvertaken(t) \/ MarkSuperseded(t)
TaskPosts(t) == Observe(t) \/ Apply(t) \/ Answer(t) \/ FailUnsent(t)
TaskWorks(t) == TaskMarks(t) \/ TaskPosts(t) \/ TaskSettles(t)

DeliveryNext ==
    \/ \E b \in Builds : RecordTerminal(b)
    \/ ScanSpent
    \/ ScanSpentReconciliations
    \/ \E t \in Tasks, b \in Builds : ClaimNotification(t, b)
    \/ \E t \in Tasks, b \in Builds : ClaimReconciliation(t, b)
    \/ \E t \in Tasks : \/ MarkInFlight(t) \/ MarkOvertaken(t) \/ MarkSuperseded(t)
                        \/ Observe(t) \/ Apply(t) \/ Answer(t) \/ FailUnsent(t)
                        \/ LoseAnswer(t) \/ LeaveBody(t) \/ LoseTask(t)
                        \/ Supersede(t) \/ SettlePosted(t) \/ SettleFailed(t)
                        \/ SettleReconciliation(t)
                        \/ RequeueOwn(t) \/ FollowLater(t) \/ RequeueLater(t)
    \/ \E w \in StatusWrites : ApplyLate(w)
    \/ DeliveryTick

DeliverySpec == DeliveryInit /\ [][DeliveryNext]_deliveryVars

(* A scan runs periodically and claims what is due, a task ends by its      *)
(* deadline, time passes.                                                   *)
DeliveryFairness ==
    /\ WF_deliveryVars(DeliveryTick)
    /\ WF_deliveryVars(ScanSpent)
    /\ \A t \in Tasks : WF_deliveryVars(TaskWorks(t))
    /\ \A b \in Builds : SF_deliveryVars(\E t \in Tasks : ClaimNotification(t, b))

DeliveryFairSpec == DeliverySpec /\ DeliveryFairness

----------------------------------------------------------------------------
(* Properties *)

(* The row whose outcome should stand at the commit status, when one does. *)
Newest == Max(StatusRows)
Shows(b) == shown = [build |-> b, outcome |-> row[b].outcome]
AllIdle == \A t \in Tasks : task[t].phase = "idle"

(* Posts of older outcomes may overtake the newest one's, but whoever made      *)
(* one has it posted again: with no crash and every answer received, once   *)
(* the newest outcome is delivered and no task is at work, the status shows *)
(* it.                                                                      *)
LastWriteStands ==
    (faults = 0 /\ StatusRows # {} /\ AllIdle /\ row[Newest].state = "delivered")
    => Shows(Newest)

(* Crashes and lost answers break that chain of corrections; the later      *)
(* observation of delivered rows repairs it.  Once a reconciliation of the  *)
(* newest outcome ended without error, the status shows it and stays so,   *)
(* unless the target applied a body after its attempt was over.             *)
ObservedStatusStands ==
    LET r == row[Newest] IN
    (/\ StatusRows # {} /\ lates = 0
     /\ r.state = "delivered" /\ r.recAttempts > 0 /\ r.recLease = Nil /\ ~r.recError)
    => Shows(Newest)

(* A row is delivered only if a target answered a post of this very         *)
(* terminal outcome: an answer to an earlier one never settles it.          *)
DeliveredWasAccepted ==
    \A b \in Builds : row[b].state = "delivered" => <<b, row[b].generation>> \in accepted

(* No delivery stays pending for ever: it is delivered, superseded or       *)
(* abandoned, whoever crashed with it.                                      *)
DeliveriesRest ==
    \A b \in Builds : row[b].state = "pending" ~> row[b].state # "pending"

(* "under the status key's lock taken above, this build's first post is    *)
(* delayed past that attempt's deadline so the earlier local attempt        *)
(* finishes first": no attempt for a newer outcome of a commit status sends *)
(* while an older delivery attempt still does.                              *)
Sends(t) == task[t].job = "deliver" /\ task[t].phase \in {"sending", "applied"}
Older(s, t) == \/ task[s].build < task[t].build
               \/ /\ task[s].build = task[t].build
                  /\ task[s].generation < task[t].generation
EarlierAttemptFinishesFirst ==
    \A s, t \in Tasks :
        (/\ Sends(s) /\ Sends(t) /\ IsStatus(task[s].build) /\ IsStatus(task[t].build))
        => ~Older(s, t)
=============================================================================
