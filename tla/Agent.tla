-------------------------------- MODULE Agent --------------------------------
(***************************************************************************)
(* The agents and the controller together: what bins/agent does with an    *)
(* offer, the journal of crates/agent-runtime it keeps while doing it, and *)
(* what it does with that journal after a crash, over the controller truth *)
(* of ControllerTruth.                                                     *)
(*                                                                         *)
(* An agent is one process with one session loop: open a session, quiesce  *)
(* what the journal says was interrupted, report the journal, settle what  *)
(* the controller disowns, replay what was finalizing, then poll, run one  *)
(* assignment at a time, and publish its result.  Each call is one         *)
(* transaction of the controller; the reply may be lost, and then the      *)
(* session ends and the loop starts over.  A crash takes the agent down    *)
(* between any two steps and leaves the workload running.                  *)
(*                                                                         *)
(* Time matters here: the agent stops a workload early enough for it to be *)
(* gone before the controller may offer the attempt again.  The ledger's   *)
(* own clock is coarse (LeaseTicks = 1: live or expired); `left' refines   *)
(* it to Window ticks per lease.                                           *)
(*                                                                         *)
(* Not kept: session epochs (an agent holds a lock against a second        *)
(* process of itself), logs, credentials, containers and source            *)
(* checkouts, a requested stop of the agent, the renewals during a replay, *)
(* and restores, which ControllerTruth has.                                *)
(***************************************************************************)
EXTENDS ControllerTruth

CONSTANTS
    Hosts,       \* the agents modelled here; the others only take offers and publish
    Window,      \* ticks of a lease
    Margin,      \* the safety margin of lease_rpc_budget
    Grace,       \* termination_grace
    Steps,       \* steps of the assignment
    MaxGrants,   \* bound: offers made
    MaxCrashes,  \* bound: agent crashes
    MaxLosses    \* bound: replies lost, renewals given up

(* execution_lease_budget. *)
Budget == Window - Margin - Grace

ASSUME AgentAssumption ==
    /\ LeaseTicks = 1
    /\ Hosts \subseteq Agents
    /\ {Window, Grace, MaxGrants, MaxCrashes, MaxLosses} \subseteq Nat
    /\ {Margin, Steps} \subseteq Nat \ {0}
    /\ Budget \in Nat \ {0}

(* The offers whose holder is modelled. *)
HostGrants == {g \in Grants : g.agent \in Hosts}

(* The places of the session loop and of run_assignment. *)
Recovering == {"quiesce", "kill", "persist", "report", "settle", "replay"}
Leased == {"start", "spawn", "spawned", "running", "ending", "cut", "exited", "publish"}
Places == {"down", "up", "idle", "offered", "accept", "lease", "commit"}
              \cup Recovering \cup Leased

(* AttemptPhase of a journal row; "none" before the row exists. *)
Phases == {"none", "accepted", "running", "finalizing", "cancelling",
           "reconciliation_required"} \cup Terminal

(* The durable result: a success, a plain failure, a failure with a named    *)
(* reason after the process ran ("refused") or without one ("processless"),  *)
(* an abort, and the containment proof of a recovered execution.             *)
Results == {"succeeded", "failed", "refused", "processless", "aborted", "recovered"}

OutcomeOf(result) ==
    IF result = "succeeded" THEN "succeeded"
    ELSE IF result \in {"aborted", "recovered"} THEN "aborted" ELSE "failed"

VARIABLES
    host,      \* per host: where it is, its attempt and the state of its lease
    row,       \* the journal row of a grant: phase, recorded process and result
    work,      \* the workload of a grant: last step spawned and its process
    left,      \* ticks left of the lease of an attempt
    summary,   \* terminal_summary of an attempt as its agent published it
    crashes, losses

agentVars == <<vars, host, row, work, left, summary, crashes, losses>>

(* A session that is not open, and one that has nothing in hand. *)
Offline == [at |-> "up", job |-> {}, mode |-> "run", held |-> 0, ask |-> "none", age |-> 0,
            dying |-> 0, told |-> "none"]
Idle == [Offline EXCEPT !.at = "idle"]

AgentInit ==
    /\ Init
    /\ host = [a \in Hosts |-> Offline]
    /\ row = [g \in HostGrants |-> [phase |-> "none", pid |-> 0, result |-> "none"]]
    /\ work = [g \in HostGrants |-> [step |-> 0, is |-> "gone"]]
    /\ left = [o \in Ordinals |-> 0]
    /\ summary = [o \in Ordinals |-> "none"]
    /\ crashes = 0 /\ losses = 0

-----------------------------------------------------------------------------
At(a, places) == host[a].at \in places
Jobs(a, places) == IF host[a].at \in places THEN host[a].job ELSE {}

Go(a, place) == host' = [host EXCEPT ![a].at = place] /\ UNCHANGED losses
End(a) == host' = [host EXCEPT ![a] = Offline] /\ UNCHANGED losses
Rest(a) == host' = [host EXCEPT ![a] = Idle] /\ UNCHANGED losses
Journal(g, phase) == row' = [row EXCEPT ![g].phase = phase]

(* The session ends because the reply to a call did not arrive. *)
Lost(a) ==
    /\ losses < MaxLosses
    /\ losses' = losses + 1
    /\ host' = [host EXCEPT ![a] = Offline]

(* The lease of o starts a full term; a lease that ended has no ticks left. *)
Stamp(o) == left' = [left EXCEPT ![o] = Window]
Kept == left' = [o \in Ordinals |-> IF lease'[o] > 0 THEN left[o] ELSE 0]

truthVars == <<vars, left, summary>>
localVars == <<row, work, crashes>>

(* begin_finalization: the result and the phase become durable together, and *)
(* the agent, whose state is h, goes on to publish them.                     *)
BeginFinalization(a, g, result, h) ==
    /\ row' = [row EXCEPT ![g].phase =
                             IF OutcomeOf(result) = "aborted" THEN "cancelling" ELSE "finalizing",
                          ![g].result = result]
    /\ host' = [host EXCEPT ![a] = [h EXCEPT !.at = "publish"]]
    /\ UNCHANGED losses

-----------------------------------------------------------------------------
(* The session loop. *)

(* The process starts, or restarts after a crash. *)
StartAgent(a) ==
    /\ At(a, {"down"})
    /\ End(a)
    /\ UNCHANGED <<truthVars, localVars>>

(* The rows Journal::reconcile reports: those that are not terminal. *)
OpenRows(a) ==
    {g \in grants : g.agent = a /\ row[g].phase \notin Terminal \cup {"none"}}

(* open_session, which needs the controller. *)
OpenSession(a) ==
    /\ At(a, {"up"})
    /\ host' = [host EXCEPT ![a] = [Offline EXCEPT !.at = "quiesce", !.job = OpenRows(a),
                                                   !.mode = "quiesce"]]
    /\ UNCHANGED <<truthVars, localVars, losses>>

(* Where a recovered execution goes when its process has been looked at. *)
Afterwards(a) == IF host[a].mode = "quiesce" THEN "report" ELSE "settle"

(* quiesce_recovered_executions: an interrupted execution is marked           *)
(* cancelling before its process is looked for; other rows are left alone.    *)
Quiesce(a) ==
    /\ At(a, {"quiesce"})
    /\ LET interrupted == {g \in host[a].job : row[g].phase \in {"accepted", "running"}} IN
       \/ interrupted = {} /\ Go(a, "report") /\ UNCHANGED row
       \/ \E g \in interrupted : Journal(g, "cancelling") /\ Go(a, "kill")
    /\ UNCHANGED <<truthVars, work, crashes>>

LeaderLives(g) == work[g].step = row[g].pid /\ work[g].is = "running"

(* Mutant of GroupGone: a leader that is gone is taken for its whole group. *)
LeaderGone(g) == ~LeaderLives(g)

GroupGone(g) == work[g].step # row[g].pid \/ work[g].is = "gone"

(* terminate_recovered_process: no recorded process counts as exited; a       *)
(* recorded leader that lives is killed with its group, or outlives SIGKILL;  *)
(* a leader that is gone proves nothing of its group, unless its identifier   *)
(* was given to another process, which the kernel does only when the group    *)
(* is empty.                                                                  *)
TerminateRecovered(a) ==
    /\ \E g \in Jobs(a, {"kill"}) :
       \/ row[g].pid = 0 /\ Go(a, "persist") /\ UNCHANGED <<row, work>>
       \/ /\ row[g].pid # 0 /\ LeaderLives(g)
          /\ work' = [work EXCEPT ![g].is = "gone"]
          /\ Go(a, "persist")
          /\ UNCHANGED row
       \/ /\ row[g].pid # 0
          /\ Journal(g, "reconciliation_required")
          /\ Go(a, Afterwards(a))
          /\ UNCHANGED work
       \/ row[g].pid # 0 /\ GroupGone(g) /\ Go(a, "persist") /\ UNCHANGED <<row, work>>
    /\ UNCHANGED <<truthVars, crashes>>

(* persist_recovered_cancellation, unless a result is already durable. *)
PersistRecovered(a) ==
    /\ \E g \in Jobs(a, {"persist"}) :
          row' = [row EXCEPT ![g].result = IF @ = "none" THEN "recovered" ELSE @]
    /\ Go(a, Afterwards(a))
    /\ UNCHANGED <<truthVars, work, crashes>>

(* agent_reconciliation_disposition. *)
Retained(g) ==
    /\ ExactAuthority(g)
    /\ \/ status[g.attempt] = "reconciliation_required"
       \/ status[g.attempt] \in Active \ {"cancelling"} /\ ~cancelled

(* recovered_attempt_has_durable_containment_proof. *)
Contained(g) == row[g].phase \in {"finalizing", "cancelling"} /\ row[g].result # "none"

(* What send_reconciliation does with the directive for one row: retained     *)
(* finalizations are replayed; a disowned or a parked row is settled, once    *)
(* its process is known to be gone or parked.                                 *)
Directed(a, g, retained) ==
    LET finalizes == row[g].phase \in {"finalizing", "cancelling"} IN
    \/ retained /\ finalizes /\ Go(a, "replay") /\ UNCHANGED row
    \/ /\ ~(retained /\ finalizes) /\ Contained(g)
       /\ Journal(g, "cancelling")
       /\ Go(a, "settle")
    \/ /\ ~(retained /\ finalizes) /\ ~Contained(g)
       /\ \/ row[g].phase = "reconciliation_required" /\ Go(a, "settle") /\ UNCHANGED row
          \/ /\ row[g].phase # "reconciliation_required"
             /\ Journal(g, "cancelling")
             /\ host' = [host EXCEPT ![a].at = "kill", ![a].mode = "directed"]
             /\ UNCHANGED losses

(* send_reconciliation's report and the controller's reconcile: exact         *)
(* authority over a finalization revives its lease, or finds it terminal.     *)
Reconcile(a) ==
    /\ \/ At(a, {"report"}) /\ host[a].job = {} /\ Go(a, "replay") /\ UNCHANGED <<truthVars, row>>
       \/ \E g \in Jobs(a, {"report"}) :
          LET o == g.attempt
              finalizes == row[g].phase \in {"finalizing", "cancelling"} /\ ExactAuthority(g)
              revives == finalizes /\ status[o] \in {"running", "finalizing", "cancelling"}
          IN
          \/ /\ revives
             /\ RecoverFinalization(g, row[g].phase)
             /\ Stamp(o)
             /\ Directed(a, g, TRUE) \/ (Lost(a) /\ UNCHANGED row)
             /\ UNCHANGED summary
          \/ /\ ~revives
             /\ Directed(a, g, (finalizes /\ status[o] \in Terminal) \/ Retained(g))
             /\ UNCHANGED truthVars
    /\ UNCHANGED <<work, crashes>>

(* The phase a cancellation report leaves in the journal: the controller      *)
(* completes or parks what the fence still owns, discharges or retires the    *)
(* rest; a parked row with authority stays parked unless a retry replaced it. *)
CancellationReport(g, verified, phase) ==
    LET o == g.attempt
        live == ExactAuthority(g) /\ status[o] \in {"accepted", "running", "cancelling"}
        parked == ExactAuthority(g) /\ status[o] = "reconciliation_required"
                      /\ (verified \/ ~HasRetry(o))
    IN
    \/ /\ live
       /\ CompleteCancellation(g, verified)
       /\ phase = IF status'[o] = "aborted" THEN "aborted" ELSE "reconciliation_required"
       /\ Kept
    \/ ~live /\ parked /\ phase = "reconciliation_required" /\ UNCHANGED <<vars, left>>
    \/ ~live /\ ~parked /\ phase = "aborted" /\ UNCHANGED <<vars, left>>

(* The rest of send_reconciliation: complete_cancellation for one row.  A row *)
(* that stays parked ends the session.                                        *)
Settle(a) ==
    /\ \E g \in Jobs(a, {"settle"}), phase \in {"aborted", "reconciliation_required"} :
          /\ CancellationReport(g, row[g].phase # "reconciliation_required", phase)
          /\ \/ /\ Journal(g, phase)
                /\ IF phase = "aborted"
                   THEN host' = [host EXCEPT ![a].at = "replay", ![a].job = {}]
                   ELSE host' = [host EXCEPT ![a] = Offline]
                /\ UNCHANGED losses
             \/ Lost(a) /\ UNCHANGED row
    /\ UNCHANGED <<summary, work, crashes>>

(* A renewal of g as the controller answers it: extended, told to stop        *)
(* because of a cancellation or of a fenced pipeline (which extends nothing), *)
(* nothing to renew because the attempt is terminal, or refused.              *)
Renewal(g, answer) ==
    LET o == g.attempt
        owned == fence[o] = g.fence /\ repoch[o] = g.epoch /\ owner[o] = g.agent
                     /\ status[o] \in Executing
        ends == ExactAuthority(g) /\ status[o] \in Terminal
    IN
    \/ RenewLease(g) /\ Stamp(o) /\ answer = IF cancelled THEN "stop" ELSE "kept"
    \/ owned /\ ~enabled /\ answer = "stop" /\ UNCHANGED <<vars, left>>
    \/ ends /\ answer = "kept" /\ UNCHANGED <<vars, left>>
    \/ /\ ~ends /\ ~(owned /\ (~enabled \/ LiveAuthority(g)))
       /\ answer = "no"
       /\ UNCHANGED <<vars, left>>

(* recover_finalizations: nothing to replay, or the renewal that opens the    *)
(* replay of a finalization.                                                  *)
Replay(a) ==
    /\ \/ At(a, {"replay"}) /\ host[a].job = {} /\ Rest(a) /\ UNCHANGED <<vars, left>>
       \/ \E g \in Jobs(a, {"replay"}), answer \in {"kept", "stop", "no"} :
             /\ Renewal(g, answer)
             /\ \/ answer # "no" /\ Go(a, "publish")
                \/ answer = "no" /\ End(a)
                \/ answer # "no" /\ Lost(a)
    /\ UNCHANGED <<summary, localVars>>

-----------------------------------------------------------------------------
(* Publication. *)

(* work_completion_summary: on a replay, a single-step result that names a    *)
(* reason is summed up by the reason instead of by the exit.                  *)
Summary(result, replay) ==
    IF replay /\ Steps = 1 /\ result = "refused" THEN "reason" ELSE result

(* complete_work: the publication, or the repetition of the one that made     *)
(* the attempt terminal.                                                      *)
CompleteWork(g, result, replay, told) ==
    LET o == g.attempt
        outcome == OutcomeOf(result)
        aware == outcome # "succeeded"
        ended == ExactAuthority(g) /\ status[o] \in Terminal
        identical == /\ summary[o] = Summary(result, replay)
                     /\ status[o] = outcome \/ (aware /\ status[o] = "aborted")
    IN
    \/ /\ FinalizeAttempt(g, outcome, aware)
       /\ told = Published(g, outcome, aware)
       /\ summary' = [summary EXCEPT ![o] = Summary(result, replay)]
       /\ Kept
    \/ ended /\ identical /\ told = status[o] /\ UNCHANGED truthVars
    \/ /\ ~(ended /\ identical)
       /\ ~(LiveAuthority(g) /\ status[o] \in Executing)
       /\ told = "refused"
       /\ UNCHANGED truthVars

(* What replay_finalization refuses to publish. *)
Unreplayable(g) ==
    \/ row[g].result = "none"
    \/ row[g].phase = "finalizing" /\ OutcomeOf(row[g].result) = "aborted"
    \/ row[g].phase = "cancelling" /\ OutcomeOf(row[g].result) # "aborted"

(* The terminal call of run_assignment, finalize_without_process and          *)
(* replay_finalization; authority_rpc makes none once authority is lost.      *)
Publish(a) ==
    /\ \E g \in Jobs(a, {"publish"}) :
       LET replay == host[a].mode # "run"
           stuck == host[a].told = "lost" \/ (replay /\ Unreplayable(g))
       IN
       \/ stuck /\ End(a) /\ UNCHANGED truthVars
       \/ \E told \in Terminal \cup {"reconciliation_required", "refused"} :
             /\ ~stuck
             /\ IF row[g].result = "recovered"
                THEN CancellationReport(g, TRUE, told) /\ UNCHANGED summary
                ELSE CompleteWork(g, row[g].result, replay, told)
             /\ \/ /\ told # "refused"
                   /\ host' = [host EXCEPT ![a] = [Offline EXCEPT !.at = "commit", !.job = {g},
                                                                 !.told = told]]
                   /\ UNCHANGED losses
                \/ told = "refused" /\ End(a)
                \/ told # "refused" /\ Lost(a)
    /\ UNCHANGED localVars

(* Mutant of Commit: what was asked for is journaled, not what was published. *)
CommitRequested(a) ==
    /\ \E g \in Jobs(a, {"commit"}) : Journal(g, OutcomeOf(row[g].result))
    /\ Rest(a)
    /\ UNCHANGED <<truthVars, work, crashes>>

(* journal_published_terminal and commit_replayed_phase: an abort is reached  *)
(* through cancelling, in a step of its own.                                  *)
Commit(a) ==
    /\ \E g \in Jobs(a, {"commit"}) :
       LET told == host[a].told IN
       IF told = "aborted" /\ row[g].phase # "cancelling"
       THEN Journal(g, "cancelling") /\ UNCHANGED <<host, losses>>
       ELSE Journal(g, told) /\ Rest(a)
    /\ UNCHANGED <<truthVars, work, crashes>>

-----------------------------------------------------------------------------
(* poll_and_run_one and run_assignment. *)

(* poll_work: the offer arrives, or is lost with the reply and lapses. *)
Poll(a) ==
    /\ At(a, {"idle"})
    /\ Cardinality(grants) < MaxGrants
    /\ \E o \in Ordinals : ClaimNext(a, o) /\ Stamp(o)
    /\ \/ host' = [host EXCEPT ![a].at = "offered", ![a].job = grants' \ grants]
          /\ UNCHANGED losses
       \/ Lost(a)
    /\ UNCHANGED <<localVars, summary>>

(* An assignment for another runtime is left to lapse. *)
Decline(a) ==
    /\ At(a, {"offered"})
    /\ Rest(a)
    /\ UNCHANGED <<truthVars, localVars>>

(* Journal::accept, durable before the controller hears of it. *)
Accept(a) ==
    /\ \E g \in Jobs(a, {"offered"}) : Journal(g, "accepted")
    /\ Go(a, "accept")
    /\ UNCHANGED <<truthVars, work, crashes>>

(* accept_work. *)
AcceptWork(a) ==
    /\ \E g \in Jobs(a, {"accept"}) :
       LET again == LiveAuthority(g) /\ enabled
                        /\ status[g.attempt] \in {"accepted", "running", "cancelling"}
           first == LiveAuthority(g) /\ enabled /\ status[g.attempt] = "offered"
       IN
       \/ AcceptOffer(g) /\ (Go(a, "lease") \/ Lost(a))
       \/ again /\ Go(a, "lease") /\ UNCHANGED vars
       \/ ~first /\ ~again /\ End(a) /\ UNCHANGED vars
    /\ UNCHANGED <<localVars, left, summary>>

(* A helper or checkout that cannot be prepared fails without a process. *)
FailPreparation(a) ==
    /\ \E g \in Jobs(a, {"start"}) : BeginFinalization(a, g, "processless", host[a])
    /\ UNCHANGED <<truthVars, work, crashes>>

(* start_work_with_retry; a lost reply is asked for again. *)
StartWork(a) ==
    /\ \E g \in Jobs(a, {"start"}) :
       LET again == LiveAuthority(g) /\ enabled /\ status[g.attempt] = "running"
           first == LiveAuthority(g) /\ enabled /\ status[g.attempt] = "accepted"
       IN
       \/ MarkRunning(g) /\ (Go(a, "spawn") \/ Go(a, "start"))
       \/ again /\ Go(a, "spawn") /\ UNCHANGED vars
       \/ ~first /\ ~again /\ End(a) /\ UNCHANGED vars
    /\ UNCHANGED <<localVars, left, summary>>

(* The executor starts the next step, or cannot. *)
Spawn(a) ==
    /\ \E g \in Jobs(a, {"spawn"}) :
       \/ /\ work' = [work EXCEPT ![g].step = @ + 1, ![g].is = "running"]
          /\ Go(a, "spawned")
          /\ UNCHANGED row
       \/ /\ BeginFinalization(a, g, IF work[g].step = 0 THEN "processless" ELSE "refused",
                               host[a])
          /\ UNCHANGED work
    /\ UNCHANGED <<truthVars, crashes>>

(* on_spawn journals the process that was just started. *)
JournalSpawn(a) ==
    /\ \E g \in Jobs(a, {"spawned"}) :
          row' = [row EXCEPT ![g].phase = "running", ![g].pid = work[g].step]
    /\ Go(a, "running")
    /\ UNCHANGED <<truthVars, work, crashes>>

(* The step's process ends by itself, or is gone once it was terminated. *)
ProcessEnds(a) ==
    /\ \E g \in Jobs(a, {"running", "ending"}) : work' = [work EXCEPT ![g].is = "gone"]
    /\ Go(a, IF At(a, {"running"}) THEN "exited" ELSE "cut")
    /\ UNCHANGED <<truthVars, row, crashes>>

(* The executor cannot prove the step's process group empty. *)
ContainmentUnverified(a) ==
    /\ \E g \in Jobs(a, {"running", "ending"}) : Journal(g, "reconciliation_required")
    /\ End(a)
    /\ UNCHANGED <<truthVars, work, crashes>>

(* What follows a step: the next one, unless a cancellation came meanwhile,   *)
(* or the result of the assignment.                                           *)
FinishStep(a) ==
    /\ \E g \in Jobs(a, {"exited", "cut"}) :
       LET last == work[g].step = Steps
           cancels == host[a].told # "none"
       IN
       \/ At(a, {"cut"}) /\ BeginFinalization(a, g, "aborted", host[a])
       \/ At(a, {"exited"}) /\ ~last /\ ~cancels /\ Go(a, "spawn") /\ UNCHANGED row
       \/ /\ At(a, {"exited"}) /\ ~last /\ cancels
          /\ BeginFinalization(a, g, "aborted", host[a])
       \/ \E result \in {"failed", "refused"} \cup (IF last THEN {"succeeded"} ELSE {}) :
             At(a, {"exited"}) /\ BeginFinalization(a, g, result, host[a])
    /\ UNCHANGED <<truthVars, work, crashes>>

-----------------------------------------------------------------------------
(* renew_lease and the clock. *)

Renewing(a) == At(a, Leased \ {"spawned"}) /\ host[a].mode = "run" /\ host[a].told # "lost"

(* A renewal is sent; the first one, right after acceptance, is also what     *)
(* the workload may be started under.                                         *)
AskRenewal(a) ==
    /\ host[a].ask = "none"
    /\ \/ Renewing(a) /\ host[a].held > 0
          /\ host' = [host EXCEPT ![a].ask = "sent", ![a].age = 0]
       \/ At(a, {"lease"}) /\ host[a].held = 0
          /\ host' = [host EXCEPT ![a].ask = "sent", ![a].age = 0, ![a].held = Budget]
    /\ UNCHANGED <<truthVars, localVars, losses>>

(* The controller answers; the answer travels. *)
AnswerRenewal(a) ==
    /\ host[a].ask = "sent"
    /\ \E g \in host[a].job, answer \in {"kept", "stop", "no"} :
          Renewal(g, answer) /\ host' = [host EXCEPT ![a].ask = answer]
    /\ UNCHANGED <<summary, localVars, losses>>

(* Mutant of Held: the term is measured from the answer. *)
HeldFromAnswer(a) == [host[a] EXCEPT !.held = Budget, !.ask = "none", !.age = 0]

(* The term a renewal opens is measured from the moment its request left. *)
Held(a) == [host[a] EXCEPT !.held = Budget - host[a].age, !.ask = "none", !.age = 0]

(* The execution is cancelled while the agent is in state h. *)
CancelExecution(a, g, h, why) ==
    \/ h.at \in {"lease", "start", "spawn"} /\ BeginFinalization(a, g, "aborted", [h EXCEPT !.told = why])
    \/ /\ h.at = "running"
       /\ host' = [host EXCEPT ![a] = [h EXCEPT !.at = "ending", !.dying = Grace, !.told = why]]
       /\ UNCHANGED <<row, losses>>
    \/ /\ h.at \in {"ending", "cut", "exited", "publish"}
       /\ host' = [host EXCEPT ![a] = [h EXCEPT !.told = IF h.at = "publish" /\ why = "stop"
                                                         THEN @ ELSE why]]
       /\ UNCHANGED <<row, losses>>

(* Authority is lost: the first renewal fails the assignment, a later one     *)
(* cancels the execution and stops every further call.                        *)
LoseAuthority(a, g) ==
    IF At(a, {"lease"}) THEN End(a) /\ UNCHANGED row
    ELSE CancelExecution(a, g, [host[a] EXCEPT !.ask = "none", !.age = 0], "lost")

(* The answer arrives within the held term. *)
HearRenewal(a) ==
    /\ At(a, {"lease"}) \/ Renewing(a)
    /\ host[a].held > 0 /\ host[a].age < Budget
    /\ \E g \in host[a].job :
       \/ /\ host[a].ask = "kept"
          /\ host' = [host EXCEPT ![a] = [Held(a) EXCEPT !.at = IF @ = "lease" THEN "start" ELSE @]]
          /\ UNCHANGED <<row, losses>>
       \/ host[a].ask = "stop" /\ CancelExecution(a, g, Held(a), "stop")
       \/ host[a].ask = "no" /\ LoseAuthority(a, g)
    /\ UNCHANGED <<truthVars, work, crashes>>

(* An unanswered renewal is given up and asked again. *)
GiveUpRenewal(a) ==
    /\ Renewing(a) /\ host[a].ask # "none"
    /\ losses < MaxLosses
    /\ losses' = losses + 1
    /\ host' = [host EXCEPT ![a].ask = "none", ![a].age = 0]
    /\ UNCHANGED <<truthVars, localVars>>

(* lease_cancellation_deadline passed without a renewal. *)
Lapse(a) ==
    /\ (At(a, {"lease"}) /\ host[a].ask # "none") \/ Renewing(a)
    /\ host[a].held = 0
    /\ \E g \in host[a].job : LoseAuthority(a, g)
    /\ UNCHANGED <<truthVars, work, crashes>>

(* The agent acts on its deadlines: it cancels when the term it holds ends,   *)
(* and its process is gone, or given up as unverified, within the grace.      *)
Urgent(a) ==
    \/ Renewing(a) /\ host[a].held = 0
    \/ At(a, {"spawned"}) /\ host[a].held = 0
    \/ At(a, {"lease"}) /\ host[a].ask # "none" /\ host[a].held = 0
    \/ At(a, {"ending"}) /\ host[a].dying = 0

Less(n) == IF n = 0 THEN 0 ELSE n - 1

(* One tick passes for the controller and for every agent. *)
Pass ==
    /\ \A a \in Hosts : ~Urgent(a)
    /\ \/ \E o \in Ordinals : left[o] > 0
       \/ \E a \in Hosts : host[a].held > 0 \/ host[a].dying > 0
    /\ left' = [o \in Ordinals |-> Less(left[o])]
    /\ host' = [a \in Hosts |->
                   [host[a] EXCEPT !.held = Less(@), !.dying = Less(@),
                                   !.age = IF host[a].ask = "none" THEN 0 ELSE @ + 1]]
    /\ IF \E o \in Ordinals : left[o] = 1
       THEN \E o \in Ordinals : left[o] = 1 /\ Tick(o)
       ELSE UNCHANGED vars
    /\ UNCHANGED <<summary, localVars, losses>>

-----------------------------------------------------------------------------
(* Crashes, and workloads nobody watches. *)

Supervised(g) == g \in Jobs(g.agent, {"spawned", "running", "ending"})

Crash(a) ==
    /\ ~At(a, {"down"})
    /\ crashes < MaxCrashes
    /\ crashes' = crashes + 1
    /\ host' = [host EXCEPT ![a] = [Offline EXCEPT !.at = "down"]]
    /\ UNCHANGED <<truthVars, row, work, losses>>

(* A workload that lost its agent ends in its own time: its leader first,     *)
(* perhaps leaving members of its group behind.                               *)
OrphanEnds(g) ==
    /\ work[g].is # "gone" /\ ~Supervised(g)
    /\ \E next \in {"stragglers", "gone"} \ {work[g].is} :
          work' = [work EXCEPT ![g].is = next]
    /\ UNCHANGED <<truthVars, host, row, crashes, losses>>

(* An agent that is not modelled takes the attempt and publishes a result. *)
Elsewhere ==
    \/ \E b \in Agents \ Hosts, o \in Ordinals :
          Cardinality(grants) < MaxGrants /\ ClaimNext(b, o) /\ Stamp(o)
    \/ /\ \E g \in grants :
             /\ g \notin HostGrants
             /\ AcceptOffer(g) \/ \E outcome \in Terminal : FinalizeAttempt(g, outcome, TRUE)
       /\ Kept

(* The controller's own steps and its operators. *)
ControllerStep ==
    /\ \/ \E o \in Ordinals : RequeueExpired(o)
       \/ RequestCancellation
       \/ FencePipeline
       \/ \E o \in Ordinals, outcome \in Terminal : FinalizeReconciled(o, outcome)
       \/ \E o \in Ordinals : ScheduleRetry(o, MaxOrdinal)
    /\ Kept

SessionStep(a) ==
    \/ OpenSession(a) \/ Quiesce(a) \/ TerminateRecovered(a) \/ PersistRecovered(a)
    \/ Reconcile(a) \/ Settle(a) \/ Replay(a) \/ Publish(a) \/ Commit(a)

AssignmentStep(a) ==
    \/ Poll(a) \/ Decline(a) \/ Accept(a) \/ AcceptWork(a) \/ FailPreparation(a)
    \/ StartWork(a) \/ Spawn(a) \/ JournalSpawn(a) \/ ProcessEnds(a)
    \/ ContainmentUnverified(a) \/ FinishStep(a)

RenewalStep(a) ==
    \/ AskRenewal(a) \/ AnswerRenewal(a) \/ HearRenewal(a) \/ GiveUpRenewal(a) \/ Lapse(a)

AgentNext ==
    \/ \E a \in Hosts : SessionStep(a) \/ AssignmentStep(a) \/ RenewalStep(a)
    \/ \E a \in Hosts : StartAgent(a) \/ Crash(a)
    \/ \E g \in grants \cap HostGrants : OrphanEnds(g)
    \/ Pass
    \/ /\ ControllerStep \/ Elsewhere
       /\ UNCHANGED <<host, row, work, summary, crashes, losses>>

AgentSpec == AgentInit /\ [][AgentNext]_agentVars

(* What an agent gets done by itself: its program starts and takes every      *)
(* step that needs no controller.                                             *)
OwnStep(a) ==
    \/ StartAgent(a) \/ Quiesce(a) \/ TerminateRecovered(a) \/ PersistRecovered(a)
    \/ Commit(a) \/ Accept(a) \/ Spawn(a) \/ JournalSpawn(a) \/ ProcessEnds(a)
    \/ FinishStep(a) \/ Lapse(a)

(* The controller may stay out of reach. *)
OfflineSpec == AgentSpec /\ WF_agentVars(Pass) /\ \A a \in Hosts : WF_agentVars(OwnStep(a))

(* The controller answers: the session loop and the clock go on. *)
OnlineSpec ==
    /\ OfflineSpec
    /\ \A a \in Hosts : WF_agentVars(SessionStep(a)) /\ WF_agentVars(AcceptWork(a))
                          /\ WF_agentVars(StartWork(a)) /\ WF_agentVars(AnswerRenewal(a))
                          /\ WF_agentVars(HearRenewal(a)) /\ WF_agentVars(AskRenewal(a))

-----------------------------------------------------------------------------
(* Properties. *)

HostStates ==
    [at : Places, job : SUBSET HostGrants, mode : {"run", "quiesce", "directed"},
     held : 0 .. Budget, ask : {"none", "sent", "kept", "stop", "no"}, age : 0 .. Window,
     dying : 0 .. Grace, told : Terminal \cup {"none", "stop", "lost", "reconciliation_required"}]
RowStates == [phase : Phases, pid : 0 .. Steps, result : Results \cup {"none"}]
WorkStates == [step : 0 .. Steps, is : {"running", "stragglers", "gone"}]

AgentTypeOK ==
    /\ host \in [Hosts -> HostStates]
    /\ row \in [HostGrants -> RowStates]
    /\ work \in [HostGrants -> WorkStates]
    /\ left \in [Ordinals -> 0 .. Window]
    /\ summary \in [Ordinals -> Results \cup {"none", "reason"}]

(* An agent that is up never runs work its lease does not cover: while it     *)
(* watches a process, the controller cannot have offered the attempt to       *)
(* anyone else, however late or lost the replies to its renewals were.        *)
RunsUnderLease ==
    \A g \in grants \cap HostGrants :
        Supervised(g) /\ work[g].is = "running" => LiveAuthority(g)

(* A row is retired with a durable result only when the process it recorded   *)
(* is gone, whatever crash interrupted the run, the termination or the        *)
(* report.                                                                    *)
RetiredMeansGone ==
    \A g \in grants \cap HostGrants :
        row[g].phase \in Terminal /\ row[g].result # "none" /\ row[g].pid = work[g].step =>
            work[g].is = "gone"

(* What the journal says an attempt ended in is what the controller           *)
(* published for that fence, also when a cancellation overrode the result or  *)
(* the publication was replayed.                                              *)
JournalAgrees ==
    \A g \in grants \cap HostGrants :
        row[g].phase \in {"succeeded", "failed"} =>
            /\ fence[g.attempt] = g.fence
            /\ status[g.attempt] = row[g].phase

(* What docs/architecture/AGENT_RUNTIME.md promises of a restart: a recovered *)
(* execution is ended or parked whether or not the controller can be reached. *)
RecoveredEnds ==
    \A g \in HostGrants :
        host[g.agent].at = "up" /\ row[g].phase = "running" /\ work[g].is = "running" ~>
            \/ work[g].is = "gone" \/ row[g].phase = "reconciliation_required"
            \/ host[g.agent].at = "down"

(* What recover_agent_finalization promises of a lost reply: an agent whose   *)
(* result the controller has published commits it to its journal when it      *)
(* replays it.                                                                *)
ReplayConverges ==
    \A g \in HostGrants :
        /\ host[g.agent].at = "up"
        /\ row[g].phase = "finalizing" /\ ExactAuthority(g)
        /\ status[g.attempt] = OutcomeOf(row[g].result)
        ~> row[g].phase \in Terminal \/ host[g.agent].at = "down"
=============================================================================
