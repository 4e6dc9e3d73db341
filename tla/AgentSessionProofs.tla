------------------------- MODULE AgentSessionProofs -------------------------
(***************************************************************************)
(* The inductive invariant of the agent's program, and that the steps of   *)
(* its session loop keep it: sessions, the journal, recovery after a       *)
(* restart, reconciliation, publication, and the start of an assignment.   *)
(***************************************************************************)
EXTENDS Agent, ControllerTruthProofs

(* What holds of the row and the process of every offer: nothing exists of   *)
(* an offer that was not made; a process has a number; an execution that is  *)
(* not over has no result; a result means that the recorded process is gone; *)
(* only an agent that could not verify its process parks an attempt and      *)
(* keeps its authority over it; the journal agrees with the controller.      *)
RowKept(g) ==
    LET o == g.attempt IN
    /\ g \notin grants => /\ row[g].phase = "none" /\ row[g].pid = 0 /\ row[g].result = "none"
                          /\ work[g].step = 0
    /\ work[g].step = 0 => work[g].is = "gone"
    /\ row[g].phase \in {"accepted", "running"} => row[g].result = "none"
    /\ row[g].result # "none" /\ row[g].pid = work[g].step => work[g].is = "gone"
    /\ g \in grants /\ ExactAuthority(g) /\ status[o] = "reconciliation_required" =>
          row[g].phase \in {"reconciliation_required", "aborted"}
    /\ g \in grants /\ row[g].phase \in {"succeeded", "failed"} =>
          fence[o] = g.fence /\ status[o] = row[g].phase

(* No agent here checkpoints an effect. *)
NoEffects == \A e \in EffectIds : effect[e] = "none"

(* An agent has one attempt in hand, and its journal no other that is open. *)
OneInHand(a) ==
    /\ \A g \in host[a].job : g \in grants /\ g.agent = a
    /\ \A g, h \in host[a].job \cup OpenRows(a) : g = h
    /\ At(a, {"down", "up", "idle"}) => host[a].job = {}
    /\ ~At(a, {"down", "up"}) => OpenRows(a) \subseteq host[a].job

(* What is durable of the attempt in hand, and what runs of it, at each      *)
(* place of the program.                                                     *)
Standing(a, g) ==
    LET r == row[g]
        w == work[g]
    IN
    /\ At(a, {"offered"}) => r.phase = "none"
    /\ At(a, {"offered", "accept", "lease", "start"}) => r.pid = 0 /\ w.step = 0
    /\ At(a, {"accept", "lease", "start", "spawn", "spawned", "running", "ending", "cut", "exited"}) =>
          r.phase \in {"accepted", "running"}
    /\ At(a, {"offered", "accept", "lease", "start", "spawn", "spawned", "running", "ending", "cut",
              "exited", "kill", "persist"}) => r.result = "none"
    /\ At(a, {"spawn"}) => w.step < Steps
    /\ At(a, {"spawn", "cut", "exited"}) => w.is = "gone"
    /\ At(a, {"persist"}) /\ r.pid = w.step => w.is = "gone"
    /\ At(a, {"kill", "persist"}) => r.phase = "cancelling"
    /\ At(a, {"quiesce", "report", "settle"}) => r.phase \notin Terminal \cup {"none"}
    /\ At(a, {"replay", "publish", "commit"}) => r.phase \in {"finalizing", "cancelling"}
    /\ At(a, {"publish"}) /\ host[a].mode = "run" => r.result # "none"
    /\ At(a, {"commit"}) => host[a].told \in Terminal
    /\ At(a, {"commit"}) /\ host[a].told # "aborted" =>
          fence[g.attempt] = g.fence /\ status[g.attempt] = host[a].told

(* The clocks of an agent: an unanswered renewal was sent within the term    *)
(* held, and only a watched or published execution renews.                   *)
Clocked(a) ==
    /\ At(a, Recovering) => host[a].mode # "run"
    /\ ~At(a, Recovering \cup {"publish"}) => host[a].mode = "run"
    /\ ~At(a, {"ending", "cut", "exited", "publish", "commit"}) => host[a].told = "none"
    /\ host[a].ask # "none" =>
          /\ host[a].age + host[a].held <= Budget
          /\ At(a, {"lease"}) \/ (At(a, Leased) /\ host[a].mode = "run" /\ host[a].told # "lost")

(* The attempt of g ended under g, or its lease lasts n more ticks. *)
Ended(g) == ExactAuthority(g) /\ status[g.attempt] \in Terminal
Lasts(g, n) == LiveAuthority(g) /\ left[g.attempt] >= n

(* The controller's lease outlasts what the agent counts on, at each place   *)
(* where a process may be running, by the grace and the margin.              *)
Covered(a, g) ==
    LET term == host[a].held + Grace + Margin IN
    /\ host[a].ask = "kept" => Ended(g) \/ Lasts(g, Window - host[a].age)
    /\ At(a, {"start"}) => Ended(g) \/ Lasts(g, term)
    /\ At(a, {"spawn", "spawned", "running"}) => Lasts(g, term)
    /\ At(a, {"exited"}) /\ host[a].told = "none" => Lasts(g, term)
    /\ At(a, {"ending"}) => Lasts(g, host[a].dying + Margin)

HostInv(a) ==
    /\ OneInHand(a) /\ Clocked(a)
    /\ \A g \in host[a].job : Standing(a, g) /\ Covered(a, g)

AgentInv ==
    /\ AgentTypeOK /\ NoEffects
    /\ \A g \in HostGrants : RowKept(g)
    /\ \A a \in Hosts : HostInv(a)

(* What a step of others leaves of the authority of an offer: a live lease   *)
(* stays live and loses no tick, a published end stays published, and nobody *)
(* else parks the attempt in the offer's name.                               *)
Undisturbed(h) ==
    LET o == h.attempt IN
    /\ LiveAuthority(h) => LiveAuthority(h)' /\ left'[o] >= left[o]
    /\ Ended(h) => Ended(h)'
    /\ fence[o] = h.fence /\ status[o] \in Terminal => fence'[o] = h.fence /\ status'[o] = status[o]
    /\ ExactAuthority(h)' /\ status'[o] = "reconciliation_required" =>
          ExactAuthority(h) /\ status[o] = "reconciliation_required"

(* A step of the store that leaves every offer undisturbed but those of S. *)
Calm(S) ==
    /\ [Next]_vars
    /\ grants \subseteq grants'
    /\ \A h \in grants' \ grants : status'[h.attempt] = "offered"
    /\ \A h \in grants \ S : Undisturbed(h)
    /\ left' \in [Ordinals -> 0 .. Window]
    /\ NoEffects' /\ KeepsTerminal

(* The steps of the store that leave the authority of h alone: those of h    *)
(* itself that keep its lease, and all steps of others.                      *)
Leaves(h) ==
    \/ \E b \in Agents, o \in Ordinals : ClaimNext(b, o)
    \/ \E g \in grants : \/ AcceptOffer(g) \/ MarkRunning(g) \/ RenewLease(g)
                         \/ \E phase \in {"finalizing", "cancelling"} : RecoverFinalization(g, phase)
    \/ \E g \in grants \ {h} :
          \/ \E verified \in BOOLEAN : CompleteCancellation(g, verified)
          \/ \E outcome \in Terminal, aware \in BOOLEAN : FinalizeAttempt(g, outcome, aware)
    \/ \E o \in Ordinals : RequeueExpired(o)
    \/ RequestCancellation \/ FencePipeline
    \/ \E o \in Ordinals, outcome \in Terminal : FinalizeReconciled(o, outcome)
    \/ \E o \in Ordinals : ScheduleRetry(o, MaxOrdinal)
    \/ UNCHANGED vars

(* Two offers that are authority over a leased attempt are the same offer. *)
LEMMA SameAuthority ==
    ASSUME RowInv, NEW g \in grants, NEW h \in grants, LiveAuthority(h),
           ExactAuthority(g), status[g.attempt] \in Active
    PROVE  g = h
<1>1. h.attempt \in Ordinals /\ g.attempt \in Ordinals /\ g \in Grants /\ h \in Grants
  BY Zenon DEF RowInv, TypeOK, Grants
<1>2. status[h.attempt] \in Active
  <2>1. lease[h.attempt] # NoLease
    BY <1>1 DEF LiveAuthority, NoLease, RowInv, TypeOK
  <2> QED
    BY Zenon, <1>1, <2>1 DEF RowInv, LeaseMatchesStatus
<1>3. IsLatest(g.attempt) /\ IsLatest(h.attempt)
  BY Zenon, <1>1, <1>2, OpenIsLatest DEF RowInv
<1>4. g.attempt = h.attempt
  BY <1>1, <1>3, BoundsAssumption DEF IsLatest, Ordinals
<1> QED
  BY Zenon, <1>1, <1>4 DEF ExactAuthority, LiveAuthority, RowInv, GrantsFollowFences

(* A live lease is that of an active attempt. *)
LEMMA LiveIsActive ==
    ASSUME RowInv, NEW h \in grants, LiveAuthority(h)
    PROVE  h.attempt \in Ordinals /\ h \in Grants /\ status[h.attempt] \in Active
<1>1. h.attempt \in Ordinals /\ h \in Grants
  BY Zenon DEF RowInv, TypeOK, Grants
<1>2. lease[h.attempt] # NoLease
  BY <1>1 DEF LiveAuthority, NoLease, RowInv, TypeOK
<1> QED
  BY Zenon, <1>1, <1>2 DEF RowInv, LeaseMatchesStatus

(* A live lease survives every step that leaves it alone. *)
LEMMA LiveStays ==
    ASSUME RowInv, NEW h \in grants, LiveAuthority(h), Leaves(h)
    PROVE  LiveAuthority(h)'
<1>h. /\ h.attempt \in Ordinals /\ h \in Grants /\ status[h.attempt] \in Active
      /\ lease[h.attempt] > 0 /\ lease[h.attempt] # 0 /\ lease[h.attempt] # NoLease
  BY LiveIsActive DEF LiveAuthority, NoLease, RowInv, TypeOK
<1>t. /\ status \in [Ordinals -> AttemptStatuses] /\ fence \in [Ordinals -> 0 .. MaxFence]
      /\ owner \in [Ordinals -> Agents \cup {NoAgent}] /\ lease \in [Ordinals -> NoLease .. LeaseTicks]
      /\ repoch \in [Ordinals -> 0 .. MaxEpoch]
  BY Zenon DEF RowInv, TypeOK
<1>g. \A g \in grants : g.attempt \in Ordinals
  BY Zenon DEF RowInv, TypeOK, Grants
<1> USE DEF LiveAuthority, ExactAuthority, restoreVars, attemptVars
<1>1. ASSUME NEW b \in Agents, NEW o \in Ordinals, ClaimNext(b, o) PROVE LiveAuthority(h)'
  <2>1. o # h.attempt
    BY Zenon, <1>1, <1>h DEF ClaimNext, Active
  <2> QED
    BY Zenon, <1>1, <2>1, <1>h, <1>t DEF ClaimNext
<1>2. ASSUME NEW g \in grants,
             \/ AcceptOffer(g) \/ MarkRunning(g) \/ RenewLease(g)
             \/ \E phase \in {"finalizing", "cancelling"} : RecoverFinalization(g, phase)
      PROVE  LiveAuthority(h)'
  <2>1. lease' = lease \/ lease' = [lease EXCEPT ![g.attempt] = LeaseTicks]
    BY Zenon, <1>2 DEF AcceptOffer, MarkRunning, RenewLease, RecoverFinalization
  <2>2. LeaseTicks > 0
    BY BoundsAssumption
  <2>3. lease'[h.attempt] > 0
    BY Zenon, <2>1, <2>2, <1>h, <1>t
  <2>4. UNCHANGED <<fence, owner, repoch, epoch>>
    BY Zenon, <1>2 DEF AcceptOffer, MarkRunning, RenewLease, RecoverFinalization
  <2> QED
    BY Zenon, <2>3, <2>4
<1>3. ASSUME NEW g \in grants \ {h},
             \/ \E verified \in BOOLEAN : CompleteCancellation(g, verified)
             \/ \E outcome \in Terminal, aware \in BOOLEAN : FinalizeAttempt(g, outcome, aware)
      PROVE  LiveAuthority(h)'
  <2>1. ExactAuthority(g) /\ status[g.attempt] \in Active
    BY Zenon, <1>3 DEF CompleteCancellation, FinalizeAttempt, Executing, Active
  <2> QED
    BY Zenon, <2>1, SameAuthority
<1>4. ASSUME NEW o \in Ordinals, RequeueExpired(o) PROVE LiveAuthority(h)'
  <2>1. o # h.attempt
    BY Zenon, <1>4, <1>h DEF RequeueExpired
  <2> QED
    BY Zenon, <1>4, <2>1, <1>h, <1>t DEF RequeueExpired, Terminate, Park, Requeue
<1>5. ASSUME RequestCancellation \/ FencePipeline PROVE LiveAuthority(h)'
  BY Zenon, <1>5 DEF RequestCancellation, FencePipeline
<1>6. ASSUME NEW o \in Ordinals, NEW outcome \in Terminal, FinalizeReconciled(o, outcome)
      PROVE  LiveAuthority(h)'
  <2>1. o # h.attempt
    BY Zenon, <1>6, <1>h DEF FinalizeReconciled
  <2> QED
    BY Zenon, <1>6, <2>1, <1>h, <1>t DEF FinalizeReconciled, Terminate
<1>7. ASSUME NEW o \in Ordinals, ScheduleRetry(o, MaxOrdinal) PROVE LiveAuthority(h)'
  <2>1. o + 1 \in Ordinals
    BY <1>7, BoundsAssumption DEF ScheduleRetry, Ordinals
  <2>2. status[o + 1] = "absent"
    BY Zenon, <1>7, <2>1 DEF ScheduleRetry, RetryEligible, HasRetry
  <2>3. o + 1 # h.attempt
    BY Zenon, <2>2, <1>h DEF Active
  <2> QED
    BY Zenon, <1>7, <2>3, <1>h, <1>t DEF ScheduleRetry
<1>8. ASSUME UNCHANGED vars PROVE LiveAuthority(h)'
  BY Zenon, <1>8 DEF vars
<1> QED
  BY Zenon, <1>1, <1>2, <1>3, <1>4, <1>5, <1>6, <1>7, <1>8 DEF Leaves

(* Every step that leaves h alone is a step of the store. *)
LEMMA LeavesIsNext == ASSUME NEW h, Leaves(h) PROVE [Next]_vars
<1>1. MaxOrdinal \in Ordinals
  BY BoundsAssumption DEF Ordinals
<1> QED
  BY Zenon, <1>1 DEF Leaves, Next, SchedulerStep, OperatorCall, AgentCall

(* What was published for h stays published. *)
LEMMA EndStays ==
    ASSUME RowInv, DecisionInv, NEW h \in grants, Leaves(h), status[h.attempt] \in Terminal
    PROVE  /\ status'[h.attempt] = status[h.attempt] /\ fence'[h.attempt] = fence[h.attempt]
           /\ Ended(h) => Ended(h)'
<1>h. h.attempt \in Ordinals
  BY Zenon DEF RowInv, TypeOK, Grants
<1>1. KeepsTerminal
  BY Zenon, DecisionStep, LeavesIsNext DEF Irrevocable, KeepsTerminal
<1>2. /\ status'[h.attempt] = status[h.attempt] /\ fence'[h.attempt] = fence[h.attempt]
      /\ owner'[h.attempt] = owner[h.attempt]
  BY Zenon, <1>h, <1>1 DEF KeepsTerminal
<1>3. epoch' = epoch
  BY Zenon DEF Leaves, ClaimNext, AcceptOffer, MarkRunning, RenewLease, RecoverFinalization,
     CompleteCancellation, FinalizeAttempt, RequeueExpired, RequestCancellation, FencePipeline,
     FinalizeReconciled, ScheduleRetry, vars, restoreVars
<1>4. repoch'[h.attempt] = repoch[h.attempt]
  <2>t. repoch \in [Ordinals -> 0 .. MaxEpoch]
    BY Zenon DEF RowInv, TypeOK
  <2>1. ASSUME NEW b \in Agents, NEW o \in Ordinals, ClaimNext(b, o)
        PROVE  repoch'[h.attempt] = repoch[h.attempt]
    <3>1. o # h.attempt
      BY Zenon, <2>1 DEF ClaimNext, Terminal
    <3> QED
      BY Zenon, <2>1, <2>t, <3>1, <1>h DEF ClaimNext
  <2>2. ASSUME NEW o \in Ordinals, ScheduleRetry(o, MaxOrdinal)
        PROVE  repoch'[h.attempt] = repoch[h.attempt]
    <3>1. o + 1 \in Ordinals
      BY <2>2, BoundsAssumption DEF ScheduleRetry, Ordinals
    <3>2. status[o + 1] = "absent"
      BY Zenon, <2>2, <3>1 DEF ScheduleRetry, RetryEligible, HasRetry
    <3>3. o + 1 # h.attempt
      BY Zenon, <3>2 DEF Terminal
    <3> QED
      BY Zenon, <2>2, <2>t, <3>3, <1>h DEF ScheduleRetry
  <2>3. ASSUME ~\E b \in Agents, o \in Ordinals : ClaimNext(b, o),
               ~\E o \in Ordinals : ScheduleRetry(o, MaxOrdinal)
        PROVE  repoch' = repoch
    BY Zenon, <2>3 DEF Leaves, AcceptOffer, MarkRunning, RenewLease, RecoverFinalization,
       CompleteCancellation, FinalizeAttempt, RequeueExpired, RequestCancellation, FencePipeline,
       FinalizeReconciled, vars, attemptVars, Terminate, Park, Requeue
  <2> QED
    BY Zenon, <2>1, <2>2, <2>3
<1> QED
  BY Zenon, <1>2, <1>3, <1>4 DEF Ended, ExactAuthority

(* Nobody but h parks an attempt and leaves it to h. *)
LEMMA OthersParkNothing ==
    ASSUME RowInv, NEW h \in grants, Leaves(h),
           ExactAuthority(h)', status'[h.attempt] = "reconciliation_required"
    PROVE  ExactAuthority(h) /\ status[h.attempt] = "reconciliation_required"
<1>h. h.attempt \in Ordinals /\ h \in Grants /\ h.agent # NoAgent
  BY Zenon, AgentsAssumption DEF RowInv, TypeOK, Grants
<1>t. /\ status \in [Ordinals -> AttemptStatuses] /\ fence \in [Ordinals -> 0 .. MaxFence]
      /\ owner \in [Ordinals -> Agents \cup {NoAgent}] /\ repoch \in [Ordinals -> 0 .. MaxEpoch]
  BY Zenon DEF RowInv, TypeOK
<1>g. \A g \in grants : g.attempt \in Ordinals /\ g \in Grants
  BY Zenon DEF RowInv, TypeOK, Grants
<1> USE DEF ExactAuthority
<1> DEFINE Goal == ExactAuthority(h) /\ status[h.attempt] = "reconciliation_required"
<1>1. ASSUME NEW b \in Agents, NEW o \in Ordinals, ClaimNext(b, o) PROVE Goal
  <2>1. o # h.attempt
    BY Zenon, <1>1, <1>h, <1>t DEF ClaimNext
  <2> QED
    BY Zenon, <1>1, <2>1, <1>h, <1>t DEF ClaimNext, restoreVars
<1>2. ASSUME NEW g \in grants,
             \/ AcceptOffer(g) \/ MarkRunning(g) \/ RenewLease(g)
             \/ \E phase \in {"finalizing", "cancelling"} : RecoverFinalization(g, phase)
      PROVE  Goal
  <2>1. UNCHANGED <<fence, owner, repoch, epoch>>
    BY Zenon, <1>2 DEF AcceptOffer, MarkRunning, RenewLease, RecoverFinalization, restoreVars
  <2>2. \/ status' = status
        \/ \E s \in {"accepted", "running", "finalizing", "cancelling"} :
              status' = [status EXCEPT ![g.attempt] = s]
    BY Zenon, <1>2 DEF AcceptOffer, MarkRunning, RenewLease, RecoverFinalization
  <2>3. status[h.attempt] = "reconciliation_required"
    BY Zenon, <2>2, <1>h, <1>t, <1>g
  <2> QED
    BY Zenon, <2>1, <2>3
<1>3. ASSUME NEW g \in grants \ {h},
             \/ \E verified \in BOOLEAN : CompleteCancellation(g, verified)
             \/ \E outcome \in Terminal, aware \in BOOLEAN : FinalizeAttempt(g, outcome, aware)
      PROVE  Goal
  <2>1. ExactAuthority(g) /\ UNCHANGED <<fence, repoch, epoch>>
    BY Zenon, <1>3 DEF CompleteCancellation, FinalizeAttempt, LiveAuthority, Terminate, Park, restoreVars
  <2>2. \/ owner' = owner \/ owner' = [owner EXCEPT ![g.attempt] = owner[g.attempt]]
        \/ owner' = [owner EXCEPT ![g.attempt] = NoAgent]
    BY Zenon, <1>3 DEF CompleteCancellation, FinalizeAttempt, Terminate, Park
  <2>3. \E s : status' = [status EXCEPT ![g.attempt] = s]
    BY Zenon, <1>3 DEF CompleteCancellation, FinalizeAttempt, Terminate, Park
  <2>4. g.attempt # h.attempt
    <3>1. ASSUME g.attempt = h.attempt PROVE g = h
      <4>1. owner[h.attempt] = h.agent
        BY Zenon, <2>2, <3>1, <1>h, <1>t
      <4>2. g.fence = h.fence
        BY Zenon, <2>1, <3>1
      <4> QED
        BY Zenon, <3>1, <4>2 DEF RowInv, GrantsFollowFences
    <3> QED
      BY Zenon, <3>1
  <2> QED
    BY Zenon, <2>1, <2>2, <2>3, <2>4, <1>h, <1>t, <1>g
<1>4. ASSUME NEW o \in Ordinals, RequeueExpired(o) PROVE Goal
  <2>1. o # h.attempt
    <3>1. ASSUME o = h.attempt, Park(o, NoAgent) PROVE FALSE
      BY Zenon, <3>1, <1>h, <1>t DEF Park
    <3>2. ASSUME o = h.attempt, Terminate(o, "aborted") \/ Requeue(o) PROVE FALSE
      BY Zenon, <3>2, <1>h, <1>t DEF Terminate, Requeue
    <3> QED
      BY Zenon, <3>1, <3>2, <1>4 DEF RequeueExpired
  <2> QED
    BY Zenon, <1>4, <2>1, <1>h, <1>t DEF RequeueExpired, Terminate, Park, Requeue, restoreVars
<1>5. ASSUME RequestCancellation \/ FencePipeline PROVE Goal
  <2>1. UNCHANGED <<fence, owner, repoch, epoch>>
    BY Zenon, <1>5 DEF RequestCancellation, FencePipeline, restoreVars, attemptVars
  <2>2. status[h.attempt] = "reconciliation_required"
    <3>1. ASSUME NEW o \in Ordinals, NEW s \in {"aborted", "cancelling"},
                 status' = [status EXCEPT ![o] = IF @ = "queued" THEN s ELSE @]
          PROVE  status[h.attempt] = "reconciliation_required"
      BY <3>1, <1>h, <1>t
    <3>2. ASSUME NEW o \in Ordinals,
                 status' = [status EXCEPT ![o] = IF @ \in Active THEN "cancelling" ELSE @]
          PROVE  status[h.attempt] = "reconciliation_required"
      BY <3>2, <1>h, <1>t
    <3> QED
      BY Zenon, <1>5, <3>1, <3>2 DEF RequestCancellation, FencePipeline, attemptVars
  <2> QED
    BY Zenon, <2>1, <2>2
<1>6. ASSUME NEW o \in Ordinals, NEW outcome \in Terminal, FinalizeReconciled(o, outcome) PROVE Goal
  <2>1. o # h.attempt
    BY Zenon, <1>6, <1>h, <1>t DEF FinalizeReconciled, Terminate, Terminal
  <2> QED
    BY Zenon, <1>6, <2>1, <1>h, <1>t DEF FinalizeReconciled, Terminate, restoreVars
<1>7. ASSUME NEW o \in Ordinals, ScheduleRetry(o, MaxOrdinal) PROVE Goal
  <2>1. o + 1 \in Ordinals
    BY <1>7, BoundsAssumption DEF ScheduleRetry, Ordinals
  <2>2. o + 1 # h.attempt
    BY Zenon, <1>7, <2>1, <1>h, <1>t DEF ScheduleRetry
  <2> QED
    BY Zenon, <1>7, <2>1, <2>2, <1>h, <1>t DEF ScheduleRetry, restoreVars
<1>8. ASSUME UNCHANGED vars PROVE Goal
  BY Zenon, <1>8 DEF vars, restoreVars, attemptVars
<1> QED
  BY Zenon, <1>1, <1>2, <1>3, <1>4, <1>5, <1>6, <1>7, <1>8 DEF Leaves

(* The ticks left of a live lease only grow, but for the clock. *)
LEMMA TicksStay ==
    ASSUME AgentTypeOK, (\E o \in Ordinals : Stamp(o)) \/ Kept \/ UNCHANGED left
    PROVE  /\ left' \in [Ordinals -> 0 .. Window]
           /\ \A p \in Ordinals : lease'[p] > 0 => left'[p] >= left[p]
<1>t. left \in [Ordinals -> 0 .. Window] /\ Window \in Nat
  BY Zenon, AgentAssumption DEF AgentTypeOK
<1>1. ASSUME NEW o \in Ordinals, Stamp(o)
      PROVE  /\ left' \in [Ordinals -> 0 .. Window]
             /\ \A p \in Ordinals : lease'[p] > 0 => left'[p] >= left[p]
  BY <1>1, <1>t DEF Stamp
<1>2. ASSUME Kept
      PROVE  /\ left' \in [Ordinals -> 0 .. Window]
             /\ \A p \in Ordinals : lease'[p] > 0 => left'[p] >= left[p]
  BY <1>2, <1>t DEF Kept
<1>3. ASSUME UNCHANGED left
      PROVE  /\ left' \in [Ordinals -> 0 .. Window]
             /\ \A p \in Ordinals : lease'[p] > 0 => left'[p] >= left[p]
  BY <1>3, <1>t
<1> QED
  BY Zenon, <1>1, <1>2, <1>3

(* An offer that a step leaves alone is undisturbed. *)
LEMMA LeftAlone ==
    ASSUME RowInv, DecisionInv, NEW h \in grants, Leaves(h),
           \A p \in Ordinals : lease'[p] > 0 => left'[p] >= left[p]
    PROVE  Undisturbed(h)
<1>h. h.attempt \in Ordinals
  BY Zenon DEF RowInv, TypeOK, Grants
<1>1. LiveAuthority(h) => LiveAuthority(h)' /\ left'[h.attempt] >= left[h.attempt]
  BY Zenon, <1>h, LiveStays DEF LiveAuthority
<1>2. Ended(h) => Ended(h)'
  BY Zenon, EndStays DEF Ended
<1>3. fence[h.attempt] = h.fence /\ status[h.attempt] \in Terminal =>
          fence'[h.attempt] = h.fence /\ status'[h.attempt] = status[h.attempt]
  BY Zenon, EndStays
<1>4. ExactAuthority(h)' /\ status'[h.attempt] = "reconciliation_required" =>
          ExactAuthority(h) /\ status[h.attempt] = "reconciliation_required"
  BY Zenon, OthersParkNothing
<1> QED
  BY Zenon, <1>1, <1>2, <1>3, <1>4 DEF Undisturbed

(* What makes a step of the store calm. *)
LEMMA CalmOf ==
    ASSUME RowInv, DecisionInv, AgentInv, NEW S, [Next]_vars,
           \A h \in grants \ S : Leaves(h),
           (\E o \in Ordinals : Stamp(o)) \/ Kept \/ UNCHANGED left,
           grants' = grants \/ \E b \in Agents, o \in Ordinals : ClaimNext(b, o),
           effect' = effect \/ \E o \in Ordinals : RequeueExpired(o)
    PROVE  Calm(S)
<1>1. /\ left' \in [Ordinals -> 0 .. Window]
      /\ \A p \in Ordinals : lease'[p] > 0 => left'[p] >= left[p]
  BY Zenon, TicksStay DEF AgentInv
<1>2. \A h \in grants \ S : Undisturbed(h)
  BY Zenon, <1>1, LeftAlone
<1>3. grants \subseteq grants' /\ \A h \in grants' \ grants : status'[h.attempt] = "offered"
  <2>1. ASSUME NEW b \in Agents, NEW o \in Ordinals, ClaimNext(b, o)
        PROVE  grants \subseteq grants' /\ \A h \in grants' \ grants : status'[h.attempt] = "offered"
    <3>1. status'[o] = "offered"
      BY Zenon, <2>1 DEF ClaimNext, RowInv, TypeOK
    <3> QED
      BY <2>1, <3>1 DEF ClaimNext
  <2> QED
    BY Zenon, <2>1
<1>4. NoEffects'
  <2>1. ASSUME NEW o \in Ordinals, RequeueExpired(o) PROVE NoEffects'
    BY <2>1 DEF RequeueExpired, NoEffects, AgentInv
  <2>2. ASSUME effect' = effect PROVE NoEffects'
    BY Zenon, <2>2 DEF NoEffects, AgentInv
  <2> QED
    BY Zenon, <2>1, <2>2
<1>5. KeepsTerminal
  BY Zenon, DecisionStep DEF Irrevocable, KeepsTerminal
<1> QED
  BY Zenon, <1>1, <1>2, <1>3, <1>4, <1>5 DEF Calm

(* An offer is made. *)
LEMMA ClaimCalm ==
    ASSUME RowInv, DecisionInv, AgentInv, NEW b \in Agents, NEW o \in Ordinals,
           ClaimNext(b, o), Stamp(o)
    PROVE  Calm({})
<1>1. \A h : Leaves(h)
  BY Zenon DEF Leaves
<1>2. [Next]_vars
  BY Zenon DEF Next, SchedulerStep
<1>3. effect' = effect
  BY Zenon DEF ClaimNext, effectVars
<1> QED
  BY Zenon, <1>1, <1>2, <1>3, CalmOf

(* An agent's call that keeps or extends its lease. *)
LEMMA HoldCalm ==
    ASSUME RowInv, DecisionInv, AgentInv, NEW g \in grants,
           \/ AcceptOffer(g) \/ MarkRunning(g) \/ RenewLease(g)
           \/ \E phase \in {"finalizing", "cancelling"} : RecoverFinalization(g, phase),
           Stamp(g.attempt) \/ Kept \/ UNCHANGED left
    PROVE  Calm({})
<1>1. \A h : Leaves(h)
  BY Zenon DEF Leaves
<1>2. [Next]_vars
  BY Zenon DEF Next, AgentCall
<1>3. effect' = effect /\ grants' = grants
  BY Zenon DEF AcceptOffer, MarkRunning, RenewLease, RecoverFinalization, effectVars
<1>4. g.attempt \in Ordinals
  BY Zenon DEF RowInv, TypeOK, Grants
<1> QED
  BY Zenon, <1>1, <1>2, <1>3, <1>4, CalmOf

(* An agent's call that ends its attempt disturbs no other offer. *)
LEMMA EndCalm ==
    ASSUME RowInv, DecisionInv, AgentInv, NEW g \in grants, Kept,
           \/ \E verified \in BOOLEAN : CompleteCancellation(g, verified)
           \/ \E outcome \in Terminal, aware \in BOOLEAN : FinalizeAttempt(g, outcome, aware)
    PROVE  Calm({g}) /\ grants' = grants
<1>1. \A h \in grants \ {g} : Leaves(h)
  BY Zenon DEF Leaves
<1>2. [Next]_vars
  BY Zenon DEF Next, AgentCall
<1>3. effect' = effect /\ grants' = grants
  BY Zenon DEF CompleteCancellation, FinalizeAttempt, effectVars
<1> QED
  BY Zenon, <1>1, <1>2, <1>3, CalmOf

(* The controller's own steps and its operators disturb no offer. *)
LEMMA ControllerCalm ==
    ASSUME RowInv, DecisionInv, AgentInv, ControllerStep
    PROVE  Calm({}) /\ grants' = grants
<1>1. \A h : Leaves(h)
  BY Zenon DEF ControllerStep, Leaves
<1>2. [Next]_vars
  BY Zenon, <1>1, LeavesIsNext
<1>3. grants' = grants
  BY Zenon DEF ControllerStep, RequeueExpired, RequestCancellation, FencePipeline,
     FinalizeReconciled, ScheduleRetry
<1>4. effect' = effect \/ \E o \in Ordinals : RequeueExpired(o)
  BY Zenon DEF ControllerStep, RequestCancellation, FencePipeline, FinalizeReconciled,
     ScheduleRetry, effectVars
<1> QED
  BY Zenon, <1>1, <1>2, <1>3, <1>4, CalmOf DEF ControllerStep

(* So does a step that is not one of the controller. *)
LEMMA QuietCalm ==
    ASSUME RowInv, DecisionInv, AgentInv, UNCHANGED <<vars, left>>
    PROVE  Calm({}) /\ grants' = grants
<1>1. \A h : Leaves(h)
  BY Zenon DEF Leaves
<1>2. [Next]_vars
  BY Zenon
<1>3. effect' = effect /\ grants' = grants
  BY Zenon DEF vars, effectVars
<1> QED
  BY Zenon, <1>1, <1>2, <1>3, CalmOf

(* A renewal disturbs nobody, and one that is granted finds the attempt      *)
(* ended or gives it a full term.                                            *)
LEMMA RenewalCalm ==
    ASSUME RowInv, DecisionInv, AgentInv, NEW g \in grants, NEW answer, Renewal(g, answer)
    PROVE  /\ Calm({}) /\ grants' = grants
           /\ answer = "kept" => Ended(g)' \/ Lasts(g, Window)'
<1>g. g.attempt \in Ordinals
  BY Zenon DEF RowInv, TypeOK, Grants
<1>1. CASE RenewLease(g) /\ Stamp(g.attempt)
  <2>1. Calm({}) /\ grants' = grants
    BY Zenon, <1>1, HoldCalm DEF RenewLease
  <2>2. LiveAuthority(g)'
    BY Zenon, <1>1, <2>1 DEF RenewLease, Calm, Undisturbed
  <2>3. left'[g.attempt] = Window
    BY Zenon, <1>1, <1>g DEF Stamp, AgentInv, AgentTypeOK
  <2>4. Window >= Window
    BY AgentAssumption
  <2> QED
    BY Zenon, <2>1, <2>2, <2>3, <2>4 DEF Lasts
<1>2. CASE UNCHANGED <<vars, left>>
  <2>1. Calm({}) /\ grants' = grants
    BY Zenon, <1>2, QuietCalm
  <2>2. answer = "kept" => Ended(g) \/ (RenewLease(g) /\ Stamp(g.attempt))
    BY Zenon DEF Renewal, Ended
  <2> QED
    BY Zenon, <1>1, <2>1, <2>2 DEF Calm, Undisturbed
<1> QED
  BY Zenon, <1>1, <1>2 DEF Renewal

(* The report of a cancellation disturbs no other offer.  One that verified  *)
(* the end of its process parks nothing, and ends the attempt unless it was  *)
(* parked before.                                                            *)
LEMMA ReportCalm ==
    ASSUME RowInv, DecisionInv, AgentInv, NEW g \in grants, NEW verified \in BOOLEAN, NEW phase,
           CancellationReport(g, verified, phase)
    PROVE  /\ Calm({g}) /\ grants' = grants
           /\ phase \in {"aborted", "reconciliation_required"}
           /\ verified => \/ phase = "aborted"
                          \/ ExactAuthority(g) /\ status[g.attempt] = "reconciliation_required"
           /\ verified /\ ExactAuthority(g)' /\ status'[g.attempt] = "reconciliation_required" =>
                 ExactAuthority(g) /\ status[g.attempt] = "reconciliation_required"
<1>g. g.attempt \in Ordinals
  BY Zenon DEF RowInv, TypeOK, Grants
<1>1. CASE CompleteCancellation(g, verified) /\ Kept /\
           phase = IF status'[g.attempt] = "aborted" THEN "aborted" ELSE "reconciliation_required"
  <2>1. Calm({g}) /\ grants' = grants
    BY Zenon, <1>1, EndCalm
  <2>2. ~\E e \in RowsAt(g.attempt, g.fence) : effect[e] \in OpenStatuses
    BY Zenon DEF RowsAt, AgentInv, NoEffects
  <2>3. verified => status' = [status EXCEPT ![g.attempt] = "aborted"]
    BY Zenon, <1>1, <2>2 DEF CompleteCancellation, Terminate
  <2>4. verified => status'[g.attempt] = "aborted"
    BY Zenon, <2>3, <1>g DEF RowInv, TypeOK
  <2>5. phase \in {"aborted", "reconciliation_required"} /\ (verified => phase = "aborted")
    BY Zenon, <1>1, <2>4
  <2> QED
    BY Zenon, <2>1, <2>4, <2>5
<1>2. CASE UNCHANGED <<vars, left>> /\ phase \in {"aborted", "reconciliation_required"} /\
           (phase = "aborted" \/ (ExactAuthority(g) /\ status[g.attempt] = "reconciliation_required"))
  <2>1. Calm({}) /\ grants' = grants
    BY Zenon, <1>2, QuietCalm
  <2>2. Calm({g})
    BY Zenon, <2>1 DEF Calm
  <2>3. ExactAuthority(g)' /\ status'[g.attempt] = "reconciliation_required" =>
                 ExactAuthority(g) /\ status[g.attempt] = "reconciliation_required"
    BY Zenon, <2>1 DEF Calm, Undisturbed
  <2> QED
    BY Zenon, <1>2, <2>1, <2>2, <2>3
<1> QED
  BY Zenon, <1>1, <1>2 DEF CancellationReport

(* A publication disturbs no other offer, parks nothing, and what it answers *)
(* is what the attempt ended in.                                             *)
LEMMA PublicationCalm ==
    ASSUME RowInv, DecisionInv, AgentInv, NEW g \in grants, NEW result \in Results,
           NEW replay \in BOOLEAN, NEW told, CompleteWork(g, result, replay, told)
    PROVE  /\ Calm({g}) /\ grants' = grants
           /\ summary' \in [Ordinals -> Results \cup {"none", "reason"}]
           /\ told # "refused" => /\ told \in Terminal
                                  /\ fence'[g.attempt] = g.fence /\ status'[g.attempt] = told
           /\ ExactAuthority(g)' /\ status'[g.attempt] = "reconciliation_required" =>
                 ExactAuthority(g) /\ status[g.attempt] = "reconciliation_required"
<1>g. g.attempt \in Ordinals
  BY Zenon DEF RowInv, TypeOK, Grants
<1>s. summary \in [Ordinals -> Results \cup {"none", "reason"}]
  BY Zenon DEF AgentInv, AgentTypeOK
<1> DEFINE outcome == OutcomeOf(result)
           aware == outcome # "succeeded"
<1>o. outcome \in Terminal /\ aware \in BOOLEAN /\ Published(g, outcome, aware) \in Terminal
  BY Zenon DEF OutcomeOf, Published, Terminal
<1>1. CASE /\ FinalizeAttempt(g, outcome, aware) /\ told = Published(g, outcome, aware)
           /\ summary' = [summary EXCEPT ![g.attempt] = Summary(result, replay)]
           /\ Kept
  <2>1. Calm({g}) /\ grants' = grants
    BY Zenon, <1>1, <1>o, EndCalm
  <2>2. ~\E e \in RowsAt(g.attempt, g.fence) : effect[e] \in OpenStatuses
    BY Zenon DEF RowsAt, AgentInv, NoEffects
  <2>3. Terminate(g.attempt, told) /\ ExactAuthority(g)
    BY Zenon, <1>1, <2>2 DEF FinalizeAttempt, LiveAuthority
  <2>4. status'[g.attempt] = told /\ fence'[g.attempt] = g.fence
    BY Zenon, <2>3, <1>g DEF Terminate, ExactAuthority, RowInv, TypeOK
  <2>5. told # "reconciliation_required"
    BY Zenon, <1>1, <1>o DEF Terminal
  <2>6. Summary(result, replay) \in Results \cup {"none", "reason"}
    BY Zenon DEF Summary
  <2>7. summary' \in [Ordinals -> Results \cup {"none", "reason"}]
    BY Zenon, <1>1, <1>s, <2>6
  <2> QED
    BY Zenon, <1>1, <1>o, <2>1, <2>4, <2>5, <2>7
<1>2. CASE UNCHANGED truthVars /\ (told = "refused" \/ (Ended(g) /\ told = status[g.attempt]))
  <2>1. Calm({}) /\ grants' = grants
    BY Zenon, <1>2, QuietCalm DEF truthVars
  <2>2. Calm({g})
    BY Zenon, <2>1 DEF Calm
  <2>3. /\ ExactAuthority(g)' /\ status'[g.attempt] = "reconciliation_required" =>
                 ExactAuthority(g) /\ status[g.attempt] = "reconciliation_required"
        /\ Ended(g) => fence'[g.attempt] = g.fence /\ status'[g.attempt] = status[g.attempt]
    BY Zenon, <2>1 DEF Calm, Undisturbed, Ended, ExactAuthority
  <2>4. summary' = summary
    BY Zenon, <1>2 DEF truthVars
  <2> QED
    BY Zenon, <1>2, <1>s, <2>1, <2>2, <2>3, <2>4 DEF Ended
<1> QED
  BY Zenon, <1>1, <1>2 DEF CompleteWork, Ended

(* What a host has in hand is one of the modelled offers, and was made. *)
LEMMA InHand ==
    ASSUME AgentInv, NEW a \in Hosts, NEW g \in host[a].job
    PROVE  /\ g \in grants /\ g \in HostGrants /\ g.agent = a
           /\ Standing(a, g) /\ Covered(a, g) /\ RowKept(g)
           /\ \A h \in host[a].job : h = g
           /\ host[a].job = {g}
           /\ ~At(a, {"down", "up"}) => \A h \in OpenRows(a) : h = g
<1>1. HostInv(a)
  BY Zenon DEF AgentInv
<1>2. host[a].job \subseteq HostGrants
  BY Zenon DEF AgentInv, AgentTypeOK, HostStates
<1>3. RowKept(g)
  BY Zenon, <1>2 DEF AgentInv
<1> QED
  BY Zenon, <1>1, <1>2, <1>3 DEF HostInv, OneInHand

(* An open row belongs to an offer that was made before the step, if rows of *)
(* other offers are as they were.                                            *)
LEMMA OpenRowsStay ==
    ASSUME RowInv, AgentInv, NEW S, Calm(S), NEW a \in Hosts, NEW h \in OpenRows(a)', row'[h] = row[h]
    PROVE  h \in OpenRows(a)
<1>1. TypeOK'
  BY Zenon, TypeStep DEF Calm, RowInv
<1>2. h \in HostGrants /\ h.agent = a /\ h \in grants'
  BY Zenon, <1>1 DEF OpenRows, TypeOK, HostGrants
<1>3. RowKept(h) /\ row[h].phase \notin Terminal \cup {"none"}
  BY Zenon, <1>2 DEF AgentInv, OpenRows
<1>4. h \in grants
  BY Zenon, <1>3 DEF RowKept
<1> QED
  BY Zenon, <1>2, <1>3, <1>4 DEF OpenRows

(* A host that takes no step keeps what it relies on. *)
LEMMA Bystander ==
    ASSUME RowInv, AgentInv, NEW S, Calm(S), NEW b \in Hosts, host'[b] = host[b],
           \A h \in S : h.agent # b,
           \A h \in HostGrants : h.agent = b =>
               /\ row'[h] = row[h] /\ work'[h].step = work[h].step
               /\ work[h].is = "gone" => work'[h].is = "gone"
    PROVE  HostInv(b)'
<1>1. HostInv(b)
  BY Zenon DEF AgentInv
<1>2. \A places : At(b, places)' <=> At(b, places)
  BY Zenon DEF At
<1>3. ASSUME NEW h \in OpenRows(b)' PROVE h \in OpenRows(b)
  <2>1. TypeOK'
    BY Zenon, TypeStep DEF Calm, RowInv
  <2>2. h \in HostGrants /\ h.agent = b
    BY Zenon, <2>1 DEF OpenRows, TypeOK, HostGrants
  <2> QED
    BY Zenon, <2>2, OpenRowsStay
<1>4. OneInHand(b)'
  BY Zenon, <1>1, <1>2, <1>3 DEF HostInv, OneInHand, Calm
<1>5. Clocked(b)'
  <2>1. Clocked(b)
    BY Zenon, <1>1 DEF HostInv
  <2> QED
    BY Zenon, <2>1 DEF Clocked, At
<1>6. ASSUME NEW g \in host[b].job PROVE Standing(b, g)' /\ Covered(b, g)'
  <2>1. /\ g \in grants /\ g \in HostGrants /\ g.agent = b /\ Standing(b, g) /\ Covered(b, g)
        /\ Undisturbed(g)
    BY Zenon, InHand DEF Calm
  <2>2. /\ row'[g] = row[g] /\ work'[g].step = work[g].step
        /\ work[g].is = "gone" => work'[g].is = "gone"
    BY Zenon, <2>1
  <2>3. At(b, {"commit"}) /\ host[b].told # "aborted" =>
          fence'[g.attempt] = g.fence /\ status'[g.attempt] = host[b].told
    BY Zenon, <2>1 DEF Standing, Undisturbed
  <2>4. Standing(b, g)'
    BY ZenonT(60), <1>2, <2>1, <2>2, <2>3 DEF Standing
  <2>5. /\ Ended(g) => Ended(g)'
        /\ \A n \in Int : Lasts(g, n) => Lasts(g, n)'
    <3>1. left[g.attempt] \in Int /\ left'[g.attempt] \in Int
      BY <2>1, AgentAssumption DEF AgentInv, AgentTypeOK, Calm, HostGrants, Grants
    <3> QED
      BY <2>1, <3>1 DEF Undisturbed, Lasts
  <2>6. /\ Window - host[b].age \in Int /\ host[b].held + Grace + Margin \in Int
        /\ host[b].dying + Margin \in Int
    BY AgentAssumption DEF AgentInv, AgentTypeOK, HostStates
  <2>7. Covered(b, g)'
    BY Zenon, <1>2, <2>1, <2>5, <2>6 DEF Covered
  <2> QED
    BY Zenon, <2>4, <2>7
<1> QED
  BY Zenon, <1>4, <1>5, <1>6 DEF HostInv

(* A row that is not written stays in order. *)
LEMMA RowStaysKept ==
    ASSUME RowInv, AgentInv, NEW S, Calm(S), NEW h \in HostGrants, h \notin S,
           row'[h] = row[h], work'[h].step = work[h].step,
           work[h].is = "gone" => work'[h].is = "gone"
    PROVE  RowKept(h)'
<1>1. RowKept(h)
  BY Zenon DEF AgentInv
<1>2. CASE h \in grants
  <2>1. Undisturbed(h) /\ grants \subseteq grants'
    BY Zenon, <1>2 DEF Calm
  <2>2. row[h].phase \in {"succeeded", "failed"} => row[h].phase \in Terminal
    BY Zenon DEF Terminal
  <2> QED
    BY Zenon, <1>1, <1>2, <2>1, <2>2 DEF RowKept, Undisturbed
<1>3. CASE h \notin grants
  <2>1. h \in grants' => status'[h.attempt] = "offered"
    BY Zenon, <1>3 DEF Calm
  <2> QED
    BY Zenon, <1>1, <1>3, <2>1 DEF RowKept
<1> QED
  BY Zenon, <1>2, <1>3

(* A step of one host: what it must show of itself and of the row it writes. *)
LEMMA HostStep ==
    ASSUME RowInv, AgentInv, NEW S, Calm(S), NEW a \in Hosts,
           \A b \in Hosts \ {a} : host'[b] = host[b],
           \A h \in S : h.agent = a /\ (h \in HostGrants => RowKept(h)'),
           \A h \in HostGrants \ S : row'[h] = row[h] /\ work'[h] = work[h],
           AgentTypeOK', HostInv(a)'
    PROVE  AgentInv'
<1>1. NoEffects'
  BY Zenon DEF Calm
<1>2. ASSUME NEW h \in HostGrants PROVE RowKept(h)'
  BY Zenon, RowStaysKept
<1>3. ASSUME NEW b \in Hosts, b # a PROVE HostInv(b)'
  <2>1. \A h \in S : h.agent # b
    BY Zenon, <1>3
  <2>2. \A h \in HostGrants : h.agent = b => row'[h] = row[h] /\ work'[h] = work[h]
    BY Zenon, <2>1
  <2> QED
    BY Zenon, <1>3, <2>1, <2>2, Bystander
<1> QED
  BY Zenon, <1>1, <1>2, <1>3 DEF AgentInv

(* A host that moves to another place and changes nothing else of its state. *)
LEMMA Goes ==
    ASSUME AgentTypeOK, NEW a \in Hosts, NEW place \in Places,
           host' = [host EXCEPT ![a].at = place]
    PROVE  /\ host' \in [Hosts -> HostStates]
           /\ \A b \in Hosts \ {a} : host'[b] = host[b]
           /\ host'[a].at = place /\ host'[a].job = host[a].job /\ host'[a].mode = host[a].mode
           /\ host'[a].held = host[a].held /\ host'[a].ask = host[a].ask
           /\ host'[a].age = host[a].age /\ host'[a].dying = host[a].dying
           /\ host'[a].told = host[a].told
<1>1. host[a] \in HostStates /\ host \in [Hosts -> HostStates]
  BY Zenon DEF AgentTypeOK
<1>2. host'[a] = [host[a] EXCEPT !.at = place] /\ \A b \in Hosts \ {a} : host'[b] = host[b]
  BY Zenon, <1>1
<1>3. host'[a] \in HostStates
  BY <1>1, <1>2 DEF HostStates
<1>4. host' \in [Hosts -> HostStates]
  BY Zenon, <1>1, <1>2, <1>3
<1> QED
  BY <1>1, <1>2, <1>4 DEF HostStates

(* The states of a host without an attempt. *)
Homes == {Offline, Idle, [Offline EXCEPT !.at = "down"]}

(* A host that takes the state h. *)
LEMMA Becomes ==
    ASSUME AgentTypeOK, NEW a \in Hosts, NEW h \in HostStates, host' = [host EXCEPT ![a] = h]
    PROVE  /\ host' \in [Hosts -> HostStates] /\ host'[a] = h
           /\ \A b \in Hosts \ {a} : host'[b] = host[b]
BY Zenon DEF AgentTypeOK

(* Such a state has nothing in hand, asks for nothing and was told nothing. *)
LEMMA HomeStates ==
    ASSUME NEW h \in Homes
    PROVE  /\ h \in HostStates /\ h.job = {} /\ h.mode = "run" /\ h.ask = "none" /\ h.told = "none"
           /\ h.at \in {"down", "up", "idle"} /\ (h.at = "idle" => h = Idle)
           /\ h.held = 0 /\ h.age = 0 /\ h.dying = 0
<1>1. /\ "down" \in Places /\ "up" \in Places /\ "idle" \in Places
      /\ 0 \in 0 .. Budget /\ 0 \in 0 .. Window /\ 0 \in 0 .. Grace
  BY AgentAssumption DEF Places
<1> QED
  BY <1>1 DEF Homes, Offline, Idle, HostStates

(* A host puts down what it has in hand: it may do so when no other row of   *)
(* its journal is open, and when it stays in its session, when none is.      *)
LEMMA EmptyStep ==
    ASSUME RowInv, AgentInv, NEW S, Calm(S), NEW a \in Hosts,
           host' \in [Hosts -> HostStates], \A b \in Hosts \ {a} : host'[b] = host[b],
           host'[a].job = {}, Clocked(a)', S \subseteq host[a].job,
           ~At(a, {"down", "up"})' =>
               /\ ~At(a, {"down", "up"})
               /\ \A g \in host[a].job : row'[g].phase \in Terminal \cup {"none"},
           \A g \in S : RowKept(g)',
           \A g \in HostGrants \ S : row'[g] = row[g] /\ work'[g] = work[g],
           row' \in [HostGrants -> RowStates], work' \in [HostGrants -> WorkStates],
           summary' \in [Ordinals -> Results \cup {"none", "reason"}]
    PROVE  AgentInv'
<1>2. AgentTypeOK'
  BY Zenon DEF AgentTypeOK, Calm
<1>3. \A g \in host[a].job : g \in grants /\ g \in HostGrants /\ g.agent = a
  BY Zenon, InHand
<1>4. \A g \in OpenRows(a)' : g \in OpenRows(a) \cup host[a].job
  <2>1. TypeOK'
    BY Zenon, TypeStep DEF Calm, RowInv
  <2>2. \A g \in OpenRows(a)' : g \in HostGrants
    BY Zenon, <2>1 DEF OpenRows, TypeOK, HostGrants
  <2> QED
    BY Zenon, <2>2, OpenRowsStay
<1>5. HostInv(a)
  BY Zenon DEF AgentInv
<1>6. OneInHand(a)'
  <2>1. \A g, k \in OpenRows(a)' : g = k
    BY Zenon, <1>4, <1>5 DEF HostInv, OneInHand
  <2>2. ASSUME ~At(a, {"down", "up"})', NEW g \in OpenRows(a)' PROVE FALSE
    <3>1. g \in host[a].job
      BY Zenon, <2>2, <1>4, <1>5 DEF HostInv, OneInHand
    <3> QED
      BY Zenon, <2>2, <3>1 DEF OpenRows
  <2> QED
    BY Zenon, <2>1, <2>2 DEF OneInHand
<1>8. HostInv(a)'
  BY Zenon, <1>6 DEF HostInv
<1> QED
  BY Zenon, <1>2, <1>3, <1>8, HostStep

(* A host goes home. *)
LEMMA HomeStep ==
    ASSUME RowInv, AgentInv, NEW S, Calm(S), NEW a \in Hosts, NEW h \in Homes,
           host' = [host EXCEPT ![a] = h], S \subseteq host[a].job,
           h = Idle => \A g \in host[a].job : row'[g].phase \in Terminal \cup {"none"},
           h = Idle => ~At(a, {"down", "up"}),
           \A g \in S : RowKept(g)',
           \A g \in HostGrants \ S : row'[g] = row[g] /\ work'[g] = work[g],
           row' \in [HostGrants -> RowStates], work' \in [HostGrants -> WorkStates],
           summary' \in [Ordinals -> Results \cup {"none", "reason"}]
    PROVE  AgentInv'
<1>1. /\ host' \in [Hosts -> HostStates] /\ host'[a] = h
      /\ \A b \in Hosts \ {a} : host'[b] = host[b]
  BY Zenon, Becomes, HomeStates DEF AgentInv
<1>2. h.job = {} /\ (h.at \notin {"down", "up"} => h = Idle)
  BY Zenon, HomeStates
<1>3. ~At(a, {"down", "up"})' => h = Idle
  BY Zenon, <1>1, <1>2 DEF At
<1>4. Clocked(a)'
  BY Zenon, <1>1, HomeStates DEF Clocked, At, Recovering
<1> QED
  BY Zenon, <1>1, <1>2, <1>3, <1>4, EmptyStep

(* A host goes home from an attempt. *)
LEMMA LeaveStep ==
    ASSUME RowInv, AgentInv, NEW a \in Hosts, NEW g \in host[a].job, Calm({g}), NEW h \in Homes,
           host' = [host EXCEPT ![a] = h],
           h = Idle => row'[g].phase \in Terminal \cup {"none"} /\ ~At(a, {"down", "up"}),
           RowKept(g)', \A k \in HostGrants \ {g} : row'[k] = row[k] /\ work'[k] = work[k],
           row' \in [HostGrants -> RowStates], work' \in [HostGrants -> WorkStates],
           summary' \in [Ordinals -> Results \cup {"none", "reason"}]
    PROVE  AgentInv'
<1>1. PICK S : S = {g}
  OBVIOUS
<1>2. /\ Calm(S) /\ S \subseteq host[a].job /\ \A k \in S : RowKept(k)'
      /\ \A k \in HostGrants \ S : row'[k] = row[k] /\ work'[k] = work[k]
  BY Zenon, <1>1
<1>3. \A k \in host[a].job : k = g
  BY Zenon, InHand
<1>4. h = Idle => ~At(a, {"down", "up"}) /\ \A k \in host[a].job : row'[k].phase \in Terminal \cup {"none"}
  BY Zenon, <1>3
<1> QED
  BY Zenon, <1>2, <1>4, HomeStep

(* A host that goes on with the attempt it has in hand. *)
LEMMA WorkStep ==
    ASSUME RowInv, AgentInv, NEW S, Calm(S), NEW a \in Hosts, NEW g \in host[a].job,
           ~At(a, {"down", "up"}), S \subseteq {g},
           host' \in [Hosts -> HostStates], \A b \in Hosts \ {a} : host'[b] = host[b],
           host'[a].job = {g}, ~At(a, {"down", "up", "idle"})',
           \A h \in HostGrants \ {g} : row'[h] = row[h] /\ work'[h] = work[h],
           row' \in [HostGrants -> RowStates], work' \in [HostGrants -> WorkStates],
           summary' \in [Ordinals -> Results \cup {"none", "reason"}],
           RowKept(g)', Clocked(a)', Standing(a, g)', Covered(a, g)'
    PROVE  AgentInv'
<1>1. AgentTypeOK'
  BY Zenon DEF AgentTypeOK, Calm
<1>2. g \in grants /\ g \in HostGrants /\ g.agent = a /\ g \in grants'
  BY Zenon, InHand DEF Calm
<1>3. \A h \in OpenRows(a)' : h = g
  <2>1. TypeOK'
    BY Zenon, TypeStep DEF Calm, RowInv
  <2>2. \A h \in OpenRows(a)' : h \in HostGrants
    BY Zenon, <2>1 DEF OpenRows, TypeOK, HostGrants
  <2>3. \A h \in OpenRows(a) : h = g
    BY Zenon, InHand
  <2>4. ASSUME NEW h \in OpenRows(a)', h # g PROVE h \in OpenRows(a)
    BY Zenon, <2>2, <2>4, OpenRowsStay
  <2> QED
    BY Zenon, <2>3, <2>4
<1>4. HostInv(a)'
  BY Zenon, <1>2, <1>3 DEF HostInv, OneInHand
<1>5. Calm({g})
  BY Zenon DEF Calm
<1> QED
  BY Zenon, <1>1, <1>2, <1>4, <1>5, HostStep

(* The same when nothing is written and no offer is disturbed. *)
LEMMA QuietHostStep ==
    ASSUME RowInv, AgentInv, Calm({}), NEW a \in Hosts,
           \A b \in Hosts \ {a} : host'[b] = host[b], UNCHANGED <<row, work>>,
           AgentTypeOK', HostInv(a)'
    PROVE  AgentInv'
<1>1. PICK S : S = {}
  OBVIOUS
<1>2. Calm(S)
  BY Zenon, <1>1
<1>3. \A h \in HostGrants \ S : row'[h] = row[h] /\ work'[h] = work[h]
  BY Zenon
<1>4. \A h \in S : h.agent = a /\ (h \in HostGrants => RowKept(h)')
  BY Zenon, <1>1
<1> QED
  BY Zenon, <1>2, <1>3, <1>4, HostStep

LEMMA QuietHomeStep ==
    ASSUME RowInv, AgentInv, Calm({}), NEW a \in Hosts, NEW h \in Homes,
           host' = [host EXCEPT ![a] = h],
           h = Idle => \A g \in host[a].job : row[g].phase \in Terminal \cup {"none"},
           h = Idle => ~At(a, {"down", "up"}),
           UNCHANGED <<row, work>>, summary' \in [Ordinals -> Results \cup {"none", "reason"}]
    PROVE  AgentInv' /\ [Next]_vars
<1>1. PICK S : S = {}
  OBVIOUS
<1>2. Calm(S)
  BY Zenon, <1>1
<1>3. \A g \in HostGrants \ S : row'[g] = row[g] /\ work'[g] = work[g]
  BY Zenon
<1>4. S \subseteq host[a].job /\ \A g \in S : RowKept(g)'
  BY Zenon, <1>1
<1>5. row' \in [HostGrants -> RowStates] /\ work' \in [HostGrants -> WorkStates]
  BY Zenon DEF AgentInv, AgentTypeOK
<1>6. h = Idle => \A g \in host[a].job : row'[g].phase \in Terminal \cup {"none"}
  BY Zenon
<1>7. AgentInv'
  BY Zenon, <1>2, <1>3, <1>4, <1>5, <1>6, HomeStep
<1> QED
  BY Zenon, <1>7 DEF Calm

(* A host that writes no row and goes on with what it has in hand, if        *)
(* anything.                                                                 *)
LEMMA GoStep ==
    ASSUME RowInv, AgentInv, Calm({}), NEW a \in Hosts, ~At(a, {"down", "up"}),
           host' \in [Hosts -> HostStates], \A b \in Hosts \ {a} : host'[b] = host[b],
           host'[a].job = host[a].job, ~At(a, {"down", "up", "idle"})', UNCHANGED <<row, work>>,
           summary' \in [Ordinals -> Results \cup {"none", "reason"}],
           Clocked(a)', \A g \in host[a].job : Standing(a, g)' /\ Covered(a, g)'
    PROVE  AgentInv'
<1>1. AgentTypeOK'
  BY Zenon DEF AgentTypeOK, AgentInv, Calm
<1>2. \A h \in OpenRows(a)' : h \in OpenRows(a)
  BY Zenon, OpenRowsStay
<1>3. HostInv(a)
  BY Zenon DEF AgentInv
<1>4. OneInHand(a)'
  BY Zenon, <1>2, <1>3 DEF HostInv, OneInHand, Calm
<1>5. HostInv(a)'
  BY Zenon, <1>4 DEF HostInv
<1> QED
  BY Zenon, <1>1, <1>5, QuietHostStep

(* Rows, workloads and summaries that are not written keep their types. *)
LEMMA LocalTypes ==
    ASSUME AgentInv
    PROVE  /\ host \in [Hosts -> HostStates]
           /\ row \in [HostGrants -> RowStates] /\ work \in [HostGrants -> WorkStates]
           /\ summary \in [Ordinals -> Results \cup {"none", "reason"}]
BY Zenon DEF AgentInv, AgentTypeOK

(* A host that goes home and writes nothing. *)
LEMMA HomeQuietly ==
    ASSUME RowInv, AgentInv, Calm({}), NEW a \in Hosts,
           NEW h \in {Offline, [Offline EXCEPT !.at = "down"]},
           host' = [host EXCEPT ![a] = h], UNCHANGED <<row, work, summary>>
    PROVE  AgentInv' /\ [Next]_vars
<1>1. h \in Homes /\ h # Idle
  <2>1. h \in Homes /\ Offline.at # "idle" /\ [Offline EXCEPT !.at = "down"].at # "idle"
           /\ Idle.at = "idle"
    BY DEF Homes, Offline, Idle
  <2> QED
    BY Zenon, <2>1
<1>2. summary' \in [Ordinals -> Results \cup {"none", "reason"}]
  BY Zenon, LocalTypes
<1> QED
  BY Zenon, <1>1, <1>2, QuietHomeStep

(* One step of the lifecycle of the process: start and crash. *)
LEMMA LifeStep ==
    ASSUME RowInv, DecisionInv, AgentInv, NEW a \in Hosts, StartAgent(a) \/ Crash(a)
    PROVE  AgentInv' /\ [Next]_vars
<1>1. UNCHANGED <<vars, left, summary, row, work>>
  BY Zenon DEF StartAgent, Crash, truthVars, localVars
<1>2. Calm({})
  BY Zenon, <1>1, QuietCalm
<1>3. \E h \in {Offline, [Offline EXCEPT !.at = "down"]} : host' = [host EXCEPT ![a] = h]
  BY Zenon DEF StartAgent, Crash, End
<1> QED
  BY Zenon, <1>1, <1>2, <1>3, HomeQuietly

(* open_session takes up what the journal left open, at most one execution. *)
LEMMA OpenSessionStep ==
    ASSUME RowInv, DecisionInv, AgentInv, NEW a \in Hosts, OpenSession(a)
    PROVE  AgentInv' /\ [Next]_vars
<1>1. UNCHANGED <<vars, left, summary, row, work>>
  BY Zenon DEF OpenSession, truthVars, localVars
<1>2. Calm({}) /\ grants' = grants
  BY Zenon, <1>1, QuietCalm
<1> DEFINE h == [Offline EXCEPT !.at = "quiesce", !.job = OpenRows(a), !.mode = "quiesce"]
<1>3. OpenRows(a) \subseteq HostGrants
  BY Zenon DEF OpenRows, HostGrants, RowInv, TypeOK
<1>4. /\ h \in HostStates /\ h.at = "quiesce" /\ h.job = OpenRows(a) /\ h.mode = "quiesce"
      /\ h.ask = "none" /\ h.told = "none"
  <2>1. /\ "quiesce" \in Places /\ 0 \in 0 .. Budget /\ 0 \in 0 .. Window /\ 0 \in 0 .. Grace
    BY AgentAssumption DEF Places, Recovering
  <2> QED
    BY Zenon, <1>3, <2>1 DEF Offline, HostStates
<1>5. host' = [host EXCEPT ![a] = h]
  BY Zenon DEF OpenSession
<1> HIDE DEF h
<1>6. /\ host' \in [Hosts -> HostStates] /\ host'[a] = h
      /\ \A b \in Hosts \ {a} : host'[b] = host[b]
  BY Zenon, <1>4, <1>5, Becomes DEF AgentInv
<1>7. AgentTypeOK'
  BY Zenon, <1>1, <1>2, <1>6 DEF AgentTypeOK, AgentInv, Calm
<1>8. OpenRows(a)' = OpenRows(a)
  BY Zenon, <1>1, <1>2 DEF OpenRows
<1>9. HostInv(a)
  BY Zenon DEF AgentInv
<1>10. OneInHand(a)'
  <2>1. \A g, k \in OpenRows(a) : g = k
    BY Zenon, <1>9 DEF HostInv, OneInHand
  <2>2. \A g \in OpenRows(a) : g \in grants' /\ g.agent = a
    BY Zenon, <1>2 DEF OpenRows
  <2> QED
    BY Zenon, <1>4, <1>6, <1>8, <2>1, <2>2 DEF OneInHand, At
<1>11. Clocked(a)'
  BY <1>4, <1>6 DEF Clocked, At, Recovering
<1>12. ASSUME NEW g \in host'[a].job PROVE Standing(a, g)' /\ Covered(a, g)'
  <2>1. row'[g].phase \notin Terminal \cup {"none"}
    BY Zenon, <1>1, <1>4, <1>6 DEF OpenRows
  <2>2. Standing(a, g)'
    BY <1>4, <1>6, <2>1 DEF Standing, At
  <2>3. Covered(a, g)'
    BY <1>4, <1>6 DEF Covered, At
  <2> QED
    BY Zenon, <2>2, <2>3
<1>13. HostInv(a)'
  BY Zenon, <1>10, <1>11, <1>12 DEF HostInv
<1>14. UNCHANGED <<row, work>>
  BY Zenon, <1>1
<1>15. AgentInv'
  BY Zenon, <1>2, <1>6, <1>7, <1>13, <1>14, QuietHostStep
<1> QED
  BY Zenon, <1>2, <1>15 DEF Calm

-----------------------------------------------------------------------------
(* The journal. *)

(* What writing the phase of a row does to the journal. *)
LEMMA Journaled ==
    ASSUME AgentInv, NEW g \in HostGrants, NEW phase \in Phases, Journal(g, phase)
    PROVE  /\ row' \in [HostGrants -> RowStates]
           /\ row'[g].phase = phase /\ row'[g].pid = row[g].pid /\ row'[g].result = row[g].result
           /\ \A h \in HostGrants \ {g} : row'[h] = row[h]
<1>1. row \in [HostGrants -> RowStates] /\ row[g] \in RowStates
  BY Zenon, LocalTypes
<1>2. row'[g] = [row[g] EXCEPT !.phase = phase] /\ \A h \in HostGrants \ {g} : row'[h] = row[h]
  BY Zenon, <1>1 DEF Journal
<1>3. [row[g] EXCEPT !.phase = phase] \in RowStates
  BY <1>1 DEF RowStates
<1>4. row' \in [HostGrants -> RowStates]
  BY Zenon, <1>1, <1>3 DEF Journal
<1> QED
  BY <1>1, <1>2, <1>4 DEF RowStates

(* A row stays in order when its phase is written, if a running phase is     *)
(* written over no result, a published end only as the controller has it,    *)
(* and a parked row is left parked or retired.                               *)
LEMMA Rejournaled ==
    ASSUME RowInv, AgentInv, Calm({}), NEW g \in grants, g \in HostGrants, NEW phase \in Phases,
           Journal(g, phase), work'[g] = work[g],
           phase \in {"accepted", "running"} => row[g].result = "none",
           phase \in {"succeeded", "failed"} =>
               fence[g.attempt] = g.fence /\ status[g.attempt] = phase,
           row[g].phase \in {"reconciliation_required", "aborted"} =>
               phase \in {"reconciliation_required", "aborted"}
    PROVE  RowKept(g)'
<1>1. RowKept(g)
  BY Zenon DEF AgentInv
<1>2. row'[g].phase = phase /\ row'[g].pid = row[g].pid /\ row'[g].result = row[g].result
  BY Zenon, Journaled
<1>3. g \in grants' /\ Undisturbed(g)
  BY Zenon DEF Calm
<1>4. phase \in {"succeeded", "failed"} => phase \in Terminal
  BY Zenon DEF Terminal
<1>5. phase \in {"succeeded", "failed"} => fence'[g.attempt] = g.fence /\ status'[g.attempt] = phase
  BY Zenon, <1>3, <1>4 DEF Undisturbed
<1>6. ExactAuthority(g)' /\ status'[g.attempt] = "reconciliation_required" =>
          phase \in {"reconciliation_required", "aborted"}
  BY Zenon, <1>1, <1>3 DEF Undisturbed, RowKept
<1> QED
  BY Zenon, <1>1, <1>2, <1>3, <1>5, <1>6 DEF RowKept

(* What the end of a process does to the workloads. *)
LEMMA ProcessGone ==
    ASSUME AgentInv, NEW g \in HostGrants, work' = [work EXCEPT ![g].is = "gone"]
    PROVE  /\ work' \in [HostGrants -> WorkStates]
           /\ work'[g].step = work[g].step /\ work'[g].is = "gone"
           /\ \A h \in HostGrants \ {g} : work'[h] = work[h]
<1>1. work \in [HostGrants -> WorkStates] /\ work[g] \in WorkStates
  BY Zenon, LocalTypes
<1>2. work'[g] = [work[g] EXCEPT !.is = "gone"] /\ \A h \in HostGrants \ {g} : work'[h] = work[h]
  BY Zenon, <1>1
<1>3. [work[g] EXCEPT !.is = "gone"] \in WorkStates
  BY <1>1 DEF WorkStates
<1>4. work' \in [HostGrants -> WorkStates]
  BY Zenon, <1>1, <1>3
<1> QED
  BY <1>1, <1>2, <1>4 DEF WorkStates

(* The row of a process that is gone stays in order. *)
LEMMA GoneRowKept ==
    ASSUME RowInv, AgentInv, Calm({}), NEW g \in HostGrants,
           work' = [work EXCEPT ![g].is = "gone"], row'[g] = row[g]
    PROVE  RowKept(g)'
<1>1. PICK S : S = {}
  OBVIOUS
<1>2. Calm(S) /\ g \notin S
  BY Zenon, <1>1
<1>3. work'[g].step = work[g].step /\ work'[g].is = "gone"
  BY Zenon, ProcessGone
<1> QED
  BY Zenon, <1>2, <1>3, RowStaysKept

(* A recovering host moves on, or begins to publish. *)
LEMMA RecoveryMove ==
    ASSUME AgentInv, NEW a \in Hosts, At(a, Recovering), host' \in [Hosts -> HostStates],
           host'[a].at \in Recovering \cup {"publish"}, host'[a].mode # "run",
           host'[a].ask = host[a].ask, host'[a].told = host[a].told
    PROVE  Clocked(a)' /\ \A g : Covered(a, g)'
<1>1. Clocked(a)
  BY Zenon DEF AgentInv, HostInv
<1>2. host[a].ask = "none" /\ host[a].told = "none" /\ host[a].mode # "run"
  BY Zenon, <1>1 DEF Clocked, At, Recovering, Leased
<1>3. host'[a].at \in Recovering \cup {"publish"}
  OBVIOUS
<1>4. Clocked(a)'
  BY Zenon, <1>2, <1>3 DEF Clocked, At
<1>5. ASSUME NEW g PROVE Covered(a, g)'
  BY Zenon, <1>2, <1>3 DEF Covered, At, Recovering
<1> QED
  BY Zenon, <1>4, <1>5

LEMMA RecoveryStep ==
    ASSUME RowInv, AgentInv, Calm({}), NEW a \in Hosts, At(a, Recovering), NEW g \in host[a].job,
           host' \in [Hosts -> HostStates], \A b \in Hosts \ {a} : host'[b] = host[b],
           host'[a].job = host[a].job, host'[a].mode # "run",
           host'[a].at \in Recovering \cup {"publish"},
           host'[a].ask = host[a].ask, host'[a].told = host[a].told,
           \A h \in HostGrants \ {g} : row'[h] = row[h] /\ work'[h] = work[h],
           row' \in [HostGrants -> RowStates], work' \in [HostGrants -> WorkStates],
           summary' \in [Ordinals -> Results \cup {"none", "reason"}],
           RowKept(g)', Standing(a, g)'
    PROVE  AgentInv' /\ [Next]_vars
<1>1. Clocked(a)' /\ Covered(a, g)'
  BY Zenon, RecoveryMove
<1>2. host'[a].job = {g}
  BY Zenon, InHand
<1>3. ~At(a, {"down", "up"}) /\ ~At(a, {"down", "up", "idle"})'
  BY Zenon DEF At, Recovering
<1>4. PICK S : S = {}
  BY Zenon
<1>5. Calm(S) /\ S \subseteq {g}
  BY Zenon, <1>4
<1>6. AgentInv'
  BY Zenon, <1>1, <1>2, <1>3, <1>5, WorkStep
<1> QED
  BY Zenon, <1>6 DEF Calm

(* A recovering host that only moves. *)
LEMMA MoveStep ==
    ASSUME RowInv, AgentInv, Calm({}), NEW a \in Hosts, At(a, Recovering),
           host' \in [Hosts -> HostStates], \A b \in Hosts \ {a} : host'[b] = host[b],
           host'[a].job = host[a].job, host'[a].mode # "run",
           host'[a].at \in Recovering \cup {"publish"},
           host'[a].ask = host[a].ask, host'[a].told = host[a].told, UNCHANGED <<row, work>>,
           summary' \in [Ordinals -> Results \cup {"none", "reason"}],
           \A g \in host[a].job : Standing(a, g)'
    PROVE  AgentInv' /\ [Next]_vars
<1>1. Clocked(a)' /\ \A g \in host[a].job : Covered(a, g)'
  BY Zenon, RecoveryMove
<1>2. ~At(a, {"down", "up"}) /\ ~At(a, {"down", "up", "idle"})'
  BY Zenon DEF At, Recovering
<1>3. AgentInv'
  BY Zenon, <1>1, <1>2, GoStep
<1> QED
  BY Zenon, <1>3 DEF Calm

-----------------------------------------------------------------------------
(* The session loop. *)

LEMMA QuiesceStep ==
    ASSUME RowInv, DecisionInv, AgentInv, NEW a \in Hosts, Quiesce(a)
    PROVE  AgentInv' /\ [Next]_vars
<1>1. UNCHANGED <<vars, left>> /\ UNCHANGED <<summary, work>> /\ At(a, {"quiesce"})
  BY Zenon DEF Quiesce, truthVars
<1>2. Calm({})
  BY Zenon, <1>1, QuietCalm
<1>3. At(a, Recovering) /\ host[a].mode # "run" /\ host[a].at = "quiesce"
  BY Zenon, <1>1 DEF At, Recovering, AgentInv, HostInv, Clocked
<1>4. work' \in [HostGrants -> WorkStates] /\ summary' \in [Ordinals -> Results \cup {"none", "reason"}]
  BY Zenon, <1>1, LocalTypes
<1>5. "report" \in Places /\ "kill" \in Places /\ "report" \in Recovering /\ "kill" \in Recovering
  BY Zenon DEF Places, Recovering
<1>6. CASE Go(a, "report") /\ UNCHANGED row
  <2>1. /\ host' \in [Hosts -> HostStates] /\ \A b \in Hosts \ {a} : host'[b] = host[b]
        /\ host'[a].job = host[a].job /\ host'[a].mode = host[a].mode /\ host'[a].at = "report"
        /\ host'[a].ask = host[a].ask /\ host'[a].told = host[a].told
    BY Zenon, <1>5, <1>6, Goes DEF Go, AgentInv
  <2>2. ASSUME NEW g \in host[a].job PROVE Standing(a, g)'
    <3>1. row[g].phase \notin Terminal \cup {"none"}
      BY Zenon, <1>1, InHand DEF Standing, At
    <3> QED
      BY <1>6, <2>1, <3>1 DEF Standing, At
  <2> QED
    BY Zenon, <1>1, <1>2, <1>3, <1>4, <1>5, <1>6, <2>1, <2>2, MoveStep
<1>7. ASSUME NEW g \in host[a].job, row[g].phase \in {"accepted", "running"},
             Journal(g, "cancelling"), Go(a, "kill")
      PROVE  AgentInv' /\ [Next]_vars
  <2>1. /\ host' \in [Hosts -> HostStates] /\ \A b \in Hosts \ {a} : host'[b] = host[b]
        /\ host'[a].job = host[a].job /\ host'[a].mode = host[a].mode /\ host'[a].at = "kill"
        /\ host'[a].ask = host[a].ask /\ host'[a].told = host[a].told
    BY Zenon, <1>5, <1>7, Goes DEF Go, AgentInv
  <2>2. g \in grants /\ g \in HostGrants /\ "cancelling" \in Phases /\ RowKept(g)
    BY Zenon, InHand DEF Phases
  <2>3. /\ row' \in [HostGrants -> RowStates] /\ row'[g].phase = "cancelling"
        /\ row'[g].result = row[g].result /\ \A h \in HostGrants \ {g} : row'[h] = row[h]
    BY Zenon, <1>7, <2>2, Journaled
  <2>4. RowKept(g)'
    BY Zenon, <1>1, <1>2, <1>7, <2>2, Rejournaled
  <2>5. row[g].result = "none"
    BY Zenon, <1>7, <2>2 DEF RowKept
  <2>6. Standing(a, g)'
    BY <2>1, <2>3, <2>5 DEF Standing, At
  <2>7. \A h \in HostGrants \ {g} : row'[h] = row[h] /\ work'[h] = work[h]
    BY Zenon, <1>1, <2>3
  <2> QED
    BY Zenon, <1>2, <1>3, <1>4, <1>5, <2>1, <2>3, <2>4, <2>6, <2>7, RecoveryStep
<1> QED
  BY Zenon, <1>6, <1>7 DEF Quiesce

(* A recovering host that journals a phase and moves on. *)
LEMMA JournalStep ==
    ASSUME RowInv, AgentInv, Calm({}), NEW a \in Hosts, At(a, Recovering), NEW g \in host[a].job,
           host' \in [Hosts -> HostStates], \A b \in Hosts \ {a} : host'[b] = host[b],
           host'[a].job = host[a].job, host'[a].mode # "run",
           host'[a].at \in Recovering \cup {"publish"},
           host'[a].ask = host[a].ask, host'[a].told = host[a].told,
           NEW phase \in Phases \ {"accepted", "running", "succeeded", "failed"},
           Journal(g, phase), UNCHANGED <<work, summary>>,
           row[g].phase \in {"reconciliation_required", "aborted"} =>
               phase \in {"reconciliation_required", "aborted"},
           Standing(a, g)'
    PROVE  AgentInv' /\ [Next]_vars
<1>1. g \in grants /\ g \in HostGrants /\ phase \in Phases
  BY Zenon, InHand
<1>2. row' \in [HostGrants -> RowStates] /\ \A h \in HostGrants \ {g} : row'[h] = row[h]
  BY Zenon, <1>1, Journaled
<1>3. RowKept(g)'
  <2>1. work'[g] = work[g] /\ phase \notin {"accepted", "running"} /\ phase \notin {"succeeded", "failed"}
    BY Zenon
  <2> QED
    BY Zenon, <1>1, <2>1, Rejournaled
<1>4. \A h \in HostGrants \ {g} : row'[h] = row[h] /\ work'[h] = work[h]
  BY Zenon, <1>2
<1>5. work' \in [HostGrants -> WorkStates] /\ summary' \in [Ordinals -> Results \cup {"none", "reason"}]
  BY Zenon, LocalTypes
<1> QED
  BY Zenon, <1>2, <1>3, <1>4, <1>5, RecoveryStep

(* Termination of a recovered process: it is gone, or its row is parked. *)
LEMMA TerminateRecoveredStep ==
    ASSUME RowInv, DecisionInv, AgentInv, NEW a \in Hosts, TerminateRecovered(a)
    PROVE  AgentInv' /\ [Next]_vars
<1>1. UNCHANGED <<vars, left>> /\ UNCHANGED summary /\ At(a, {"kill"})
  BY Zenon DEF TerminateRecovered, truthVars, Jobs, At
<1>2. Calm({})
  BY Zenon, <1>1, QuietCalm
<1>3. At(a, Recovering) /\ host[a].mode # "run" /\ host[a].at = "kill"
  BY Zenon, <1>1 DEF At, Recovering, AgentInv, HostInv, Clocked
<1>4. summary' \in [Ordinals -> Results \cup {"none", "reason"}]
  BY Zenon, <1>1, LocalTypes
<1>5. /\ "persist" \in Places /\ "persist" \in Recovering
      /\ Afterwards(a) \in {"report", "settle"} /\ Afterwards(a) \in Places
      /\ Afterwards(a) \in Recovering
  BY Zenon DEF Places, Recovering, Afterwards
<1>6. PICK g \in host[a].job :
         \/ row[g].pid = 0 /\ Go(a, "persist") /\ UNCHANGED <<row, work>>
         \/ /\ work' = [work EXCEPT ![g].is = "gone"]
            /\ Go(a, "persist")
            /\ UNCHANGED row
         \/ /\ Journal(g, "reconciliation_required")
            /\ Go(a, Afterwards(a))
            /\ UNCHANGED work
         \/ GroupGone(g) /\ Go(a, "persist") /\ UNCHANGED <<row, work>>
  BY Zenon, <1>3 DEF TerminateRecovered, Jobs
<1>7. /\ g \in grants /\ g \in HostGrants /\ RowKept(g)
      /\ row[g].phase = "cancelling" /\ row[g].result = "none"
  <2>1. g \in grants /\ g \in HostGrants /\ RowKept(g) /\ Standing(a, g)
    BY Zenon, InHand
  <2> QED
    BY <1>3, <2>1 DEF Standing, At
<1>8. CASE Go(a, "persist") /\ UNCHANGED <<row, work>> /\ (row[g].pid = 0 \/ GroupGone(g))
  <2>1. /\ host' \in [Hosts -> HostStates] /\ \A b \in Hosts \ {a} : host'[b] = host[b]
        /\ host'[a].job = host[a].job /\ host'[a].mode = host[a].mode /\ host'[a].at = "persist"
        /\ host'[a].ask = host[a].ask /\ host'[a].told = host[a].told
    BY Zenon, <1>5, <1>8, Goes DEF Go, AgentInv
  <2>2. row[g].pid = work[g].step => work[g].is = "gone"
    BY Zenon, <1>7, <1>8 DEF RowKept, GroupGone
  <2>3. Standing(a, g)'
    BY <1>7, <1>8, <2>1, <2>2 DEF Standing, At
  <2>4. \A h \in host[a].job : Standing(a, h)'
    BY Zenon, <2>3, InHand
  <2> QED
    BY Zenon, <1>2, <1>3, <1>4, <1>5, <1>8, <2>1, <2>4, MoveStep
<1>9. CASE work' = [work EXCEPT ![g].is = "gone"] /\ Go(a, "persist") /\ UNCHANGED row
  <2>1. /\ host' \in [Hosts -> HostStates] /\ \A b \in Hosts \ {a} : host'[b] = host[b]
        /\ host'[a].job = host[a].job /\ host'[a].mode = host[a].mode /\ host'[a].at = "persist"
        /\ host'[a].ask = host[a].ask /\ host'[a].told = host[a].told
    BY Zenon, <1>5, <1>9, Goes DEF Go, AgentInv
  <2>2. /\ work' \in [HostGrants -> WorkStates] /\ work'[g].is = "gone"
        /\ \A h \in HostGrants \ {g} : work'[h] = work[h]
    BY Zenon, <1>7, <1>9, ProcessGone
  <2>3. row' \in [HostGrants -> RowStates] /\ row'[g] = row[g]
    BY Zenon, <1>9, LocalTypes
  <2>4. Standing(a, g)'
    BY <1>7, <2>1, <2>2, <2>3 DEF Standing, At
  <2>5. RowKept(g)'
    BY Zenon, <1>2, <1>7, <1>9, GoneRowKept
  <2>6. \A h \in HostGrants \ {g} : row'[h] = row[h] /\ work'[h] = work[h]
    BY Zenon, <1>9, <2>2
  <2> QED
    BY Zenon, <1>2, <1>3, <1>4, <1>5, <2>1, <2>2, <2>3, <2>4, <2>5, <2>6, RecoveryStep
<1>10. CASE Journal(g, "reconciliation_required") /\ Go(a, Afterwards(a)) /\ UNCHANGED work
  <2>1. /\ host' \in [Hosts -> HostStates] /\ \A b \in Hosts \ {a} : host'[b] = host[b]
        /\ host'[a].job = host[a].job /\ host'[a].mode = host[a].mode /\ host'[a].at = Afterwards(a)
        /\ host'[a].ask = host[a].ask /\ host'[a].told = host[a].told
    BY Zenon, <1>5, <1>10, Goes DEF Go, AgentInv
  <2>2. "reconciliation_required" \in Phases \ {"accepted", "running", "succeeded", "failed"}
    BY Zenon DEF Phases
  <2>3. row'[g].phase = "reconciliation_required"
    BY Zenon, <1>7, <1>10, <2>2, Journaled
  <2>4. Standing(a, g)'
    BY <1>5, <2>1, <2>3 DEF Standing, At, Terminal
  <2>5. row[g].phase \notin {"reconciliation_required", "aborted"}
    BY Zenon, <1>7
  <2> QED
    BY Zenon, <1>1, <1>2, <1>3, <1>5, <1>10, <2>1, <2>2, <2>4, <2>5, JournalStep
<1> QED
  BY Zenon, <1>6, <1>8, <1>9, <1>10

LEMMA PersistRecoveredStep ==
    ASSUME RowInv, DecisionInv, AgentInv, NEW a \in Hosts, PersistRecovered(a)
    PROVE  AgentInv' /\ [Next]_vars
<1>1. UNCHANGED <<vars, left>> /\ UNCHANGED <<summary, work>> /\ At(a, {"persist"})
  BY Zenon DEF PersistRecovered, truthVars, Jobs, At
<1>2. Calm({})
  BY Zenon, <1>1, QuietCalm
<1>3. At(a, Recovering) /\ host[a].mode # "run" /\ host[a].at = "persist"
  BY Zenon, <1>1 DEF At, Recovering, AgentInv, HostInv, Clocked
<1>4. /\ work' \in [HostGrants -> WorkStates] /\ summary' \in [Ordinals -> Results \cup {"none", "reason"}]
      /\ row \in [HostGrants -> RowStates]
  BY Zenon, <1>1, LocalTypes
<1>5. /\ Afterwards(a) \in {"report", "settle"} /\ Afterwards(a) \in Places
      /\ Afterwards(a) \in Recovering
  BY Zenon DEF Places, Recovering, Afterwards
<1>6. PICK g \in host[a].job :
         row' = [row EXCEPT ![g].result = IF @ = "none" THEN "recovered" ELSE @]
  BY Zenon, <1>3 DEF PersistRecovered, Jobs
<1>7. /\ g \in grants /\ g \in HostGrants /\ RowKept(g)
      /\ row[g].phase = "cancelling" /\ row[g].result = "none"
      /\ row[g].pid = work[g].step => work[g].is = "gone"
  <2>1. g \in grants /\ g \in HostGrants /\ RowKept(g) /\ Standing(a, g)
    BY Zenon, InHand
  <2> QED
    BY <1>3, <2>1 DEF Standing, At
<1>8. row[g] \in RowStates /\ "recovered" \in Results \cup {"none"}
  BY Zenon, <1>4, <1>7 DEF Results
<1>9. /\ row'[g] = [row[g] EXCEPT !.result = "recovered"]
      /\ \A h \in HostGrants \ {g} : row'[h] = row[h]
  BY <1>4, <1>6, <1>7, <1>8
<1>10. row'[g] \in RowStates /\ row'[g].phase = "cancelling" /\ row'[g].pid = row[g].pid
  BY <1>7, <1>8, <1>9 DEF RowStates
<1>11. row' \in [HostGrants -> RowStates]
  BY Zenon, <1>4, <1>6, <1>7, <1>9, <1>10
<1>12. RowKept(g)'
  <2>1. g \in grants' /\ Undisturbed(g) /\ work'[g] = work[g]
    BY Zenon, <1>1, <1>2, <1>7 DEF Calm
  <2>2. ~(ExactAuthority(g)' /\ status'[g.attempt] = "reconciliation_required")
    BY Zenon, <1>7, <2>1 DEF Undisturbed, RowKept
  <2> QED
    BY Zenon, <1>7, <1>10, <2>1, <2>2 DEF RowKept
<1>13. /\ host' \in [Hosts -> HostStates] /\ \A b \in Hosts \ {a} : host'[b] = host[b]
       /\ host'[a].job = host[a].job /\ host'[a].mode = host[a].mode /\ host'[a].at = Afterwards(a)
       /\ host'[a].ask = host[a].ask /\ host'[a].told = host[a].told
  BY Zenon, <1>5, Goes DEF PersistRecovered, Go, AgentInv
<1>14. Standing(a, g)'
  BY <1>5, <1>10, <1>13 DEF Standing, At, Terminal
<1>15. \A h \in HostGrants \ {g} : row'[h] = row[h] /\ work'[h] = work[h]
  BY Zenon, <1>1, <1>9
<1> QED
  BY Zenon, <1>2, <1>3, <1>4, <1>5, <1>11, <1>12, <1>13, <1>14, <1>15, RecoveryStep

(* What a directive makes of a reported row. *)
LEMMA DirectedStep ==
    ASSUME RowInv, AgentInv, Calm({}), NEW a \in Hosts, NEW g \in host[a].job, At(a, {"report"}),
           NEW retained \in BOOLEAN, Directed(a, g, retained), UNCHANGED <<work, summary>>
    PROVE  AgentInv' /\ [Next]_vars
<1>1. At(a, Recovering) /\ host[a].mode # "run"
  BY Zenon DEF At, Recovering, AgentInv, HostInv, Clocked
<1>2. /\ g \in grants /\ g \in HostGrants /\ RowKept(g) /\ \A h \in host[a].job : h = g
      /\ row[g].phase \notin Terminal \cup {"none"}
  <2>1. /\ g \in grants /\ g \in HostGrants /\ RowKept(g) /\ \A h \in host[a].job : h = g
        /\ Standing(a, g)
    BY Zenon, InHand
  <2> QED
    BY Zenon, <2>1 DEF Standing, At
<1>3. /\ {"replay", "settle", "kill"} \subseteq Places /\ {"replay", "settle", "kill"} \subseteq Recovering
      /\ "cancelling" \in Phases \ {"accepted", "running", "succeeded", "failed"}
      /\ "cancelling" \notin Terminal \cup {"none"} /\ "aborted" \in Terminal
  BY Zenon DEF Places, Recovering, Phases, Terminal
<1>4. row[g].phase \in Phases /\ summary' \in [Ordinals -> Results \cup {"none", "reason"}]
  <2>1. row[g] \in RowStates
    BY Zenon, <1>2, LocalTypes
  <2> QED
    BY <2>1, LocalTypes DEF RowStates
<1>5. CASE row[g].phase \in {"finalizing", "cancelling"} /\ Go(a, "replay") /\ UNCHANGED row
  <2>1. /\ host' \in [Hosts -> HostStates] /\ \A b \in Hosts \ {a} : host'[b] = host[b]
        /\ host'[a].job = host[a].job /\ host'[a].mode = host[a].mode /\ host'[a].at = "replay"
        /\ host'[a].ask = host[a].ask /\ host'[a].told = host[a].told
    BY Zenon, <1>3, <1>5, Goes DEF Go, AgentInv
  <2>2. Standing(a, g)'
    BY <1>5, <2>1 DEF Standing, At
  <2> QED
    BY Zenon, <1>1, <1>2, <1>3, <1>4, <1>5, <2>1, <2>2, MoveStep
<1>6. CASE Contained(g) /\ Journal(g, "cancelling") /\ Go(a, "settle")
  <2>1. /\ host' \in [Hosts -> HostStates] /\ \A b \in Hosts \ {a} : host'[b] = host[b]
        /\ host'[a].job = host[a].job /\ host'[a].mode = host[a].mode /\ host'[a].at = "settle"
        /\ host'[a].ask = host[a].ask /\ host'[a].told = host[a].told
    BY Zenon, <1>3, <1>6, Goes DEF Go, AgentInv
  <2>2. row'[g].phase = "cancelling"
    BY Zenon, <1>2, <1>3, <1>6, Journaled
  <2>3. Standing(a, g)'
    BY <1>3, <2>1, <2>2 DEF Standing, At
  <2>4. row[g].phase \notin {"reconciliation_required", "aborted"}
    BY Zenon, <1>6 DEF Contained
  <2> QED
    BY Zenon, <1>1, <1>3, <1>6, <2>1, <2>3, <2>4, JournalStep
<1>7. CASE row[g].phase = "reconciliation_required" /\ Go(a, "settle") /\ UNCHANGED row
  <2>1. /\ host' \in [Hosts -> HostStates] /\ \A b \in Hosts \ {a} : host'[b] = host[b]
        /\ host'[a].job = host[a].job /\ host'[a].mode = host[a].mode /\ host'[a].at = "settle"
        /\ host'[a].ask = host[a].ask /\ host'[a].told = host[a].told
    BY Zenon, <1>3, <1>7, Goes DEF Go, AgentInv
  <2>2. Standing(a, g)'
    BY <1>2, <1>7, <2>1 DEF Standing, At
  <2> QED
    BY Zenon, <1>1, <1>2, <1>3, <1>4, <1>7, <2>1, <2>2, MoveStep
<1>8. CASE /\ ~Contained(g) /\ row[g].phase # "reconciliation_required" /\ Journal(g, "cancelling")
           /\ host' = [host EXCEPT ![a].at = "kill", ![a].mode = "directed"]
  <2>1. /\ host' \in [Hosts -> HostStates] /\ \A b \in Hosts \ {a} : host'[b] = host[b]
        /\ host'[a].job = host[a].job /\ host'[a].mode = "directed" /\ host'[a].at = "kill"
        /\ host'[a].ask = host[a].ask /\ host'[a].told = host[a].told
    <3>1. host[a] \in HostStates /\ host \in [Hosts -> HostStates]
      BY Zenon, LocalTypes
    <3>2. /\ host'[a] = [host[a] EXCEPT !.at = "kill", !.mode = "directed"]
          /\ \A b \in Hosts \ {a} : host'[b] = host[b]
      BY <3>1, <1>8
    <3>3. [host[a] EXCEPT !.at = "kill", !.mode = "directed"] \in HostStates
      BY Zenon, <3>1, <1>3 DEF HostStates
    <3>4. host' = [host EXCEPT ![a] = [host[a] EXCEPT !.at = "kill", !.mode = "directed"]]
      BY Zenon, <3>1, <1>8
    <3>5. host' \in [Hosts -> HostStates]
      BY Zenon, <3>1, <3>3, <3>4
    <3> QED
      BY <3>1, <3>2, <3>5 DEF HostStates
  <2>2. row'[g].phase = "cancelling" /\ row'[g].result = row[g].result
    BY Zenon, <1>2, <1>3, <1>8, Journaled
  <2>3. row[g].result = "none"
    BY Zenon, <1>2, <1>4, <1>8 DEF Contained, RowKept, Phases
  <2>4. Standing(a, g)'
    BY <2>1, <2>2, <2>3 DEF Standing, At
  <2>5. row[g].phase \notin {"reconciliation_required", "aborted"} /\ host'[a].mode # "run"
    BY Zenon, <1>2, <1>3, <1>8, <2>1
  <2> QED
    BY Zenon, <1>1, <1>3, <1>8, <2>1, <2>4, <2>5, JournalStep
<1> QED
  BY Zenon, <1>5, <1>6, <1>7, <1>8 DEF Directed

(* A session that ends, or starts over, leaves what is durable as it is. *)
LEMMA EndStep ==
    ASSUME RowInv, AgentInv, Calm({}), NEW a \in Hosts, End(a) \/ Lost(a), UNCHANGED <<row, work>>,
           summary' \in [Ordinals -> Results \cup {"none", "reason"}]
    PROVE  AgentInv' /\ [Next]_vars
<1>1. host' = [host EXCEPT ![a] = Offline]
  BY Zenon DEF End, Lost
<1>2. Offline \in Homes /\ Offline # Idle
  <2>1. Offline \in Homes /\ Offline.at # "idle" /\ Idle.at = "idle"
    BY DEF Homes, Offline, Idle
  <2> QED
    BY Zenon, <2>1
<1> QED
  BY Zenon, <1>1, <1>2, QuietHomeStep

LEMMA ReconcileStep ==
    ASSUME RowInv, DecisionInv, AgentInv, NEW a \in Hosts, Reconcile(a)
    PROVE  AgentInv' /\ [Next]_vars
<1>1. At(a, {"report"}) /\ UNCHANGED <<work, summary>>
  BY Zenon DEF Reconcile, truthVars, Jobs, At
<1>2. summary' \in [Ordinals -> Results \cup {"none", "reason"}]
  BY Zenon, <1>1, LocalTypes
<1>3. CASE host[a].job = {} /\ Go(a, "replay") /\ UNCHANGED <<truthVars, row>>
  <2>1. Calm({})
    BY Zenon, <1>3, QuietCalm DEF truthVars
  <2>2. At(a, Recovering) /\ host[a].mode # "run" /\ "replay" \in Places /\ "replay" \in Recovering
    BY Zenon, <1>1 DEF At, Recovering, Places, AgentInv, HostInv, Clocked
  <2>3. /\ host' \in [Hosts -> HostStates] /\ \A b \in Hosts \ {a} : host'[b] = host[b]
        /\ host'[a].job = host[a].job /\ host'[a].mode = host[a].mode /\ host'[a].at = "replay"
        /\ host'[a].ask = host[a].ask /\ host'[a].told = host[a].told
    BY Zenon, <1>3, <2>2, Goes DEF Go, AgentInv
  <2>4. \A g \in host[a].job : Standing(a, g)'
    BY Zenon, <1>3
  <2> QED
    BY Zenon, <1>1, <1>2, <1>3, <2>1, <2>2, <2>3, <2>4, MoveStep
<1>4. ASSUME NEW g \in host[a].job, row[g].phase \in {"finalizing", "cancelling"},
             RecoverFinalization(g, row[g].phase), Stamp(g.attempt),
             Directed(a, g, TRUE) \/ (Lost(a) /\ UNCHANGED row)
      PROVE  AgentInv' /\ [Next]_vars
  <2>1. g \in grants
    BY Zenon, InHand
  <2>2. Calm({})
    BY Zenon, <1>4, <2>1, HoldCalm
  <2>3. CASE Directed(a, g, TRUE)
    BY Zenon, <1>1, <2>2, <2>3, DirectedStep
  <2>4. CASE Lost(a) /\ UNCHANGED row
    BY Zenon, <1>1, <1>2, <2>2, <2>4, EndStep
  <2> QED
    BY Zenon, <1>4, <2>3, <2>4
<1>5. ASSUME NEW g \in host[a].job, UNCHANGED truthVars, NEW retained \in BOOLEAN,
             Directed(a, g, retained)
      PROVE  AgentInv' /\ [Next]_vars
  <2>1. Calm({})
    BY Zenon, <1>5, QuietCalm DEF truthVars
  <2> QED
    BY Zenon, <1>1, <1>5, <2>1, DirectedStep
<1>6. \/ host[a].job = {} /\ Go(a, "replay") /\ UNCHANGED <<truthVars, row>>
      \/ \E g \in host[a].job :
            \/ /\ row[g].phase \in {"finalizing", "cancelling"}
               /\ RecoverFinalization(g, row[g].phase) /\ Stamp(g.attempt)
               /\ Directed(a, g, TRUE) \/ (Lost(a) /\ UNCHANGED row)
            \/ /\ Directed(a, g, (/\ row[g].phase \in {"finalizing", "cancelling"} /\ ExactAuthority(g)
                                  /\ status[g.attempt] \in Terminal) \/ Retained(g))
               /\ UNCHANGED truthVars
  BY Zenon, <1>1 DEF Reconcile, Jobs, At
<1>7. ASSUME NEW g \in host[a].job
      PROVE  ((/\ row[g].phase \in {"finalizing", "cancelling"} /\ ExactAuthority(g)
               /\ status[g.attempt] \in Terminal) \/ Retained(g)) \in BOOLEAN
  OBVIOUS
<1> QED
  BY Zenon, <1>3, <1>4, <1>5, <1>6, <1>7

LEMMA SettleStep ==
    ASSUME RowInv, DecisionInv, AgentInv, NEW a \in Hosts, Settle(a)
    PROVE  AgentInv' /\ [Next]_vars
<1>1. At(a, {"settle"}) /\ UNCHANGED <<work, summary>>
  BY Zenon DEF Settle, Jobs, At
<1>2. PICK g \in host[a].job, phase \in {"aborted", "reconciliation_required"} :
         /\ CancellationReport(g, row[g].phase # "reconciliation_required", phase)
         /\ \/ /\ Journal(g, phase)
               /\ IF phase = "aborted"
                  THEN host' = [host EXCEPT ![a].at = "replay", ![a].job = {}]
                  ELSE host' = [host EXCEPT ![a] = Offline]
            \/ host' = [host EXCEPT ![a] = Offline] /\ UNCHANGED row
  BY Zenon, <1>1 DEF Settle, Jobs, At, Lost
<1>3. /\ g \in grants /\ g \in HostGrants /\ RowKept(g) /\ \A h \in host[a].job : h = g
      /\ row[g].phase \notin Terminal \cup {"none"}
  <2>1. /\ g \in grants /\ g \in HostGrants /\ RowKept(g) /\ \A h \in host[a].job : h = g
        /\ Standing(a, g)
    BY Zenon, InHand
  <2> QED
    BY Zenon, <1>1, <2>1 DEF Standing, At
<1>4. /\ Calm({g}) /\ grants' = grants
      /\ row[g].phase # "reconciliation_required" =>
            (ExactAuthority(g)' /\ status'[g.attempt] = "reconciliation_required" =>
                ExactAuthority(g) /\ status[g.attempt] = "reconciliation_required")
  <2>1. (row[g].phase # "reconciliation_required") \in BOOLEAN
    OBVIOUS
  <2> QED
    BY Zenon, <1>2, <1>3, <2>1, ReportCalm
<1>5. /\ work' \in [HostGrants -> WorkStates] /\ summary' \in [Ordinals -> Results \cup {"none", "reason"}]
      /\ row \in [HostGrants -> RowStates]
  BY Zenon, <1>1, LocalTypes
<1>6. phase \in Phases /\ phase \notin {"accepted", "running", "succeeded", "failed"} /\ "aborted" \in Terminal
  BY Zenon DEF Phases, Terminal
<1>7. ASSUME Journal(g, phase)
      PROVE  /\ RowKept(g)' /\ row'[g].phase = phase /\ row' \in [HostGrants -> RowStates]
             /\ \A h \in HostGrants \ {g} : row'[h] = row[h] /\ work'[h] = work[h]
  <2>1. /\ row' \in [HostGrants -> RowStates]
        /\ row'[g].phase = phase /\ row'[g].pid = row[g].pid /\ row'[g].result = row[g].result
        /\ \A h \in HostGrants \ {g} : row'[h] = row[h]
    BY Zenon, <1>3, <1>6, <1>7, Journaled
  <2>2. RowKept(g)'
    BY Zenon, <1>1, <1>3, <1>4, <1>6, <2>1 DEF RowKept
  <2> QED
    BY Zenon, <1>1, <2>1, <2>2
<1>8. Offline \in Homes /\ Offline # Idle
  <2>1. Offline \in Homes /\ Offline.at # "idle" /\ Idle.at = "idle"
    BY DEF Homes, Offline, Idle
  <2> QED
    BY Zenon, <2>1
<1>9. CASE Journal(g, phase) /\ host' = [host EXCEPT ![a] = Offline]
  <2>1. AgentInv'
    BY Zenon, <1>3, <1>4, <1>5, <1>7, <1>8, <1>9, LeaveStep
  <2> QED
    BY Zenon, <1>4, <2>1 DEF Calm
<1>10. CASE UNCHANGED row /\ host' = [host EXCEPT ![a] = Offline]
  <2>1. RowKept(g)'
    <3>1. row[g].phase \notin {"succeeded", "failed"}
      BY Zenon, <1>3 DEF Terminal
    <3>2. ExactAuthority(g)' /\ status'[g.attempt] = "reconciliation_required" =>
             row[g].phase \in {"reconciliation_required", "aborted"}
      BY Zenon, <1>3, <1>4 DEF RowKept
    <3>3. row'[g] = row[g] /\ work'[g] = work[g]
      BY Zenon, <1>1, <1>10
    <3> QED
      BY Zenon, <1>3, <1>4, <3>1, <3>2, <3>3 DEF RowKept
  <2>2. /\ row' \in [HostGrants -> RowStates]
        /\ \A h \in HostGrants \ {g} : row'[h] = row[h] /\ work'[h] = work[h]
    BY Zenon, <1>1, <1>5, <1>10
  <2>3. AgentInv'
    BY Zenon, <1>3, <1>4, <1>5, <1>8, <1>10, <2>1, <2>2, LeaveStep
  <2> QED
    BY Zenon, <1>4, <2>3 DEF Calm
<1>11. CASE /\ Journal(g, phase) /\ phase = "aborted"
            /\ host' = [host EXCEPT ![a].at = "replay", ![a].job = {}]
  <2>1. /\ host' \in [Hosts -> HostStates] /\ \A b \in Hosts \ {a} : host'[b] = host[b]
        /\ host'[a].job = {} /\ host'[a].mode = host[a].mode /\ host'[a].at = "replay"
        /\ host'[a].ask = host[a].ask /\ host'[a].told = host[a].told
    <3>1. host[a] \in HostStates /\ host \in [Hosts -> HostStates] /\ "replay" \in Places
      BY Zenon, LocalTypes DEF Places, Recovering
    <3>2. host' = [host EXCEPT ![a] = [host[a] EXCEPT !.at = "replay", !.job = {}]]
      BY Zenon, <3>1, <1>11
    <3>3. [host[a] EXCEPT !.at = "replay", !.job = {}] \in HostStates
      BY Zenon, <3>1 DEF HostStates
    <3>4. /\ host' \in [Hosts -> HostStates] /\ \A b \in Hosts \ {a} : host'[b] = host[b]
          /\ host'[a] = [host[a] EXCEPT !.at = "replay", !.job = {}]
      BY Zenon, <3>1, <3>2, <3>3
    <3> QED
      BY <3>1, <3>4 DEF HostStates
  <2>2. At(a, Recovering) /\ host[a].mode # "run" /\ "replay" \in Recovering /\ ~At(a, {"down", "up"})
    BY Zenon, <1>1 DEF At, Recovering, AgentInv, HostInv, Clocked
  <2>3. Clocked(a)'
    BY Zenon, <2>1, <2>2, RecoveryMove
  <2>4. \A h \in host[a].job : row'[h].phase \in Terminal \cup {"none"}
    BY Zenon, <1>3, <1>6, <1>7, <1>11
  <2>5. PICK S : S = {g}
    BY Zenon
  <2>6. /\ Calm(S) /\ S \subseteq host[a].job /\ \A h \in S : RowKept(h)'
        /\ \A h \in HostGrants \ S : row'[h] = row[h] /\ work'[h] = work[h]
    BY Zenon, <1>4, <1>7, <1>11, <2>5
  <2>7. row' \in [HostGrants -> RowStates]
    BY Zenon, <1>7, <1>11
  <2>8. AgentInv'
    BY Zenon, <1>5, <2>1, <2>2, <2>3, <2>4, <2>6, <2>7, EmptyStep
  <2> QED
    BY Zenon, <1>4, <2>8 DEF Calm
<1> QED
  BY Zenon, <1>2, <1>9, <1>10, <1>11

LEMMA ReplayStep ==
    ASSUME RowInv, DecisionInv, AgentInv, NEW a \in Hosts, Replay(a)
    PROVE  AgentInv' /\ [Next]_vars
<1>1. At(a, {"replay"}) /\ UNCHANGED <<row, work, summary>>
  BY Zenon DEF Replay, localVars, Jobs, At
<1>2. summary' \in [Ordinals -> Results \cup {"none", "reason"}]
  BY Zenon, <1>1, LocalTypes
<1>3. CASE host[a].job = {} /\ Rest(a) /\ UNCHANGED <<vars, left>>
  <2>1. Calm({})
    BY Zenon, <1>3, QuietCalm
  <2>2. Idle \in Homes /\ ~At(a, {"down", "up"})
    BY Zenon, <1>1 DEF Homes, At
  <2>3. \A g \in host[a].job : row[g].phase \in Terminal \cup {"none"}
    BY Zenon, <1>3
  <2>4. host' = [host EXCEPT ![a] = Idle]
    BY Zenon, <1>3 DEF Rest
  <2> QED
    BY Zenon, <1>1, <1>2, <2>1, <2>2, <2>3, <2>4, QuietHomeStep
<1>4. ASSUME NEW g \in host[a].job, NEW answer, Renewal(g, answer),
             Go(a, "publish") \/ End(a) \/ Lost(a)
      PROVE  AgentInv' /\ [Next]_vars
  <2>1. Calm({})
    BY Zenon, <1>4, InHand, RenewalCalm
  <2>2. CASE Go(a, "publish")
    <3>1. At(a, Recovering) /\ host[a].mode # "run" /\ "publish" \in Places
      BY Zenon, <1>1 DEF At, Recovering, Places, Leased, AgentInv, HostInv, Clocked
    <3>2. /\ host' \in [Hosts -> HostStates] /\ \A b \in Hosts \ {a} : host'[b] = host[b]
          /\ host'[a].job = host[a].job /\ host'[a].mode = host[a].mode /\ host'[a].at = "publish"
          /\ host'[a].ask = host[a].ask /\ host'[a].told = host[a].told
      BY Zenon, <2>2, <3>1, Goes DEF Go, AgentInv
    <3>3. ASSUME NEW h \in host[a].job PROVE Standing(a, h)'
      <4>1. row'[h].phase \in {"finalizing", "cancelling"}
        <5>1. Standing(a, h)
          BY Zenon, InHand
        <5> QED
          BY Zenon, <1>1, <5>1 DEF Standing, At
      <4> QED
        BY <3>1, <3>2, <4>1 DEF Standing, At
    <3> QED
      BY Zenon, <1>1, <1>2, <2>1, <3>1, <3>2, <3>3, MoveStep
  <2> QED
    BY Zenon, <1>1, <1>2, <1>4, <2>1, <2>2, EndStep
<1> QED
  BY Zenon, <1>1, <1>3, <1>4 DEF Replay, Jobs, At

(* The terminal call: what the agent is told is what was published for it. *)
LEMMA PublishStep ==
    ASSUME RowInv, DecisionInv, AgentInv, NEW a \in Hosts, Publish(a)
    PROVE  AgentInv' /\ [Next]_vars
<1>1. At(a, {"publish"}) /\ UNCHANGED <<row, work>> /\ ~At(a, {"down", "up"})
  BY Zenon DEF Publish, localVars, Jobs, At
<1>2. CASE End(a) /\ UNCHANGED truthVars
  <2>1. Calm({})
    BY Zenon, <1>2, QuietCalm DEF truthVars
  <2>2. summary' \in [Ordinals -> Results \cup {"none", "reason"}]
    BY Zenon, <1>2, LocalTypes DEF truthVars
  <2> QED
    BY Zenon, <1>1, <1>2, <2>1, <2>2, EndStep
<1>3. ASSUME NEW g \in host[a].job, NEW told, told \in Terminal \cup {"reconciliation_required", "refused"},
             ~(host[a].mode # "run" /\ Unreplayable(g)),
             IF row[g].result = "recovered"
             THEN CancellationReport(g, TRUE, told) /\ UNCHANGED summary
             ELSE CompleteWork(g, row[g].result, host[a].mode # "run", told),
             \/ /\ told # "refused"
                /\ host' = [host EXCEPT ![a] = [Offline EXCEPT !.at = "commit", !.job = {g}, !.told = told]]
             \/ host' = [host EXCEPT ![a] = Offline]
      PROVE  AgentInv' /\ [Next]_vars
  <2>1. /\ g \in grants /\ g \in HostGrants /\ RowKept(g)
        /\ row[g].phase \in {"finalizing", "cancelling"}
        /\ host[a].mode = "run" => row[g].result # "none"
    <3>1. g \in grants /\ g \in HostGrants /\ RowKept(g) /\ Standing(a, g)
      BY Zenon, InHand
    <3> QED
      BY Zenon, <1>1, <3>1 DEF Standing, At
  <2>2. row[g].result \in Results
    <3>1. row[g] \in RowStates /\ row[g].result # "none"
      BY Zenon, <1>3, <2>1, LocalTypes DEF Unreplayable
    <3> QED
      BY <3>1 DEF RowStates
  <2>3. ~(ExactAuthority(g) /\ status[g.attempt] = "reconciliation_required")
    BY Zenon, <2>1 DEF RowKept
  <2>4. /\ Calm({g}) /\ grants' = grants
        /\ summary' \in [Ordinals -> Results \cup {"none", "reason"}]
        /\ told # "refused" => told \in Terminal
        /\ told # "refused" /\ told # "aborted" => fence'[g.attempt] = g.fence /\ status'[g.attempt] = told
        /\ ~(ExactAuthority(g)' /\ status'[g.attempt] = "reconciliation_required")
    <3>1. CASE CancellationReport(g, TRUE, told) /\ UNCHANGED summary
      <4>1. TRUE \in BOOLEAN /\ "aborted" \in Terminal
        BY Zenon DEF Terminal
      <4> QED
        BY Zenon, <2>1, <2>3, <3>1, <4>1, ReportCalm, LocalTypes
    <3>2. CASE CompleteWork(g, row[g].result, host[a].mode # "run", told)
      <4>1. (host[a].mode # "run") \in BOOLEAN
        OBVIOUS
      <4> QED
        BY Zenon, <2>1, <2>2, <2>3, <3>2, <4>1, PublicationCalm
    <3> QED
      BY Zenon, <1>3, <3>1, <3>2
  <2>5. RowKept(g)'
    <3>1. row'[g] = row[g] /\ work'[g] = work[g] /\ row[g].phase \notin {"succeeded", "failed"}
      BY Zenon, <1>1, <2>1
    <3> QED
      BY Zenon, <2>1, <2>4, <3>1 DEF RowKept
  <2>6. /\ row' \in [HostGrants -> RowStates] /\ work' \in [HostGrants -> WorkStates]
        /\ \A h \in HostGrants \ {g} : row'[h] = row[h] /\ work'[h] = work[h]
    BY Zenon, <1>1, LocalTypes
  <2>7. CASE host' = [host EXCEPT ![a] = Offline]
    <3>1. Offline \in Homes /\ Offline.at # "idle" /\ Idle.at = "idle"
      BY DEF Homes, Offline, Idle
    <3>2. Offline # Idle
      BY Zenon, <3>1
    <3>3. AgentInv'
      BY Zenon, <2>1, <2>4, <2>5, <2>6, <2>7, <3>1, <3>2, LeaveStep
    <3> QED
      BY Zenon, <2>4, <3>3 DEF Calm
  <2>8. CASE /\ told # "refused"
             /\ host' = [host EXCEPT ![a] = [Offline EXCEPT !.at = "commit", !.job = {g}, !.told = told]]
    <3> DEFINE h == [Offline EXCEPT !.at = "commit", !.job = {g}, !.told = told]
    <3>1. /\ h \in HostStates /\ h.at = "commit" /\ h.job = {g} /\ h.told = told
          /\ h.ask = "none" /\ h.mode = "run"
      <4>1. /\ "commit" \in Places /\ 0 \in 0 .. Budget /\ 0 \in 0 .. Window /\ 0 \in 0 .. Grace
        BY AgentAssumption DEF Places
      <4> QED
        BY Zenon, <2>1, <2>4, <2>8, <4>1 DEF Offline, HostStates
    <3> HIDE DEF h
    <3>2. host' = [host EXCEPT ![a] = h]
      BY Zenon, <2>8 DEF h
    <3>3. /\ host' \in [Hosts -> HostStates] /\ host'[a] = h
          /\ \A b \in Hosts \ {a} : host'[b] = host[b]
      BY Zenon, <3>1, <3>2, Becomes DEF AgentInv
    <3>4. Clocked(a)'
      BY <3>1, <3>3 DEF Clocked, At, Recovering
    <3>5. Covered(a, g)'
      BY <3>1, <3>3 DEF Covered, At
    <3>6. row'[g].phase \in {"finalizing", "cancelling"}
      BY Zenon, <1>1, <2>1
    <3>7. Standing(a, g)'
      BY <2>4, <2>8, <3>1, <3>3, <3>6 DEF Standing, At
    <3>8. host'[a].job = {g} /\ ~At(a, {"down", "up", "idle"})' /\ {g} \subseteq {g}
      BY Zenon, <3>1, <3>3 DEF At
    <3>9. AgentInv'
      BY Zenon, <1>1, <2>4, <2>5, <2>6, <3>3, <3>4, <3>5, <3>7, <3>8, WorkStep
    <3> QED
      BY Zenon, <2>4, <3>9 DEF Calm
  <2> QED
    BY Zenon, <1>3, <2>7, <2>8
<1> QED
  <2>1. \E g \in host[a].job :
          \/ End(a) /\ UNCHANGED truthVars
          \/ \E told \in Terminal \cup {"reconciliation_required", "refused"} :
                /\ ~(host[a].mode # "run" /\ Unreplayable(g))
                /\ IF row[g].result = "recovered"
                   THEN CancellationReport(g, TRUE, told) /\ UNCHANGED summary
                   ELSE CompleteWork(g, row[g].result, host[a].mode # "run", told)
                /\ \/ /\ told # "refused"
                      /\ host' = [host EXCEPT ![a] = [Offline EXCEPT !.at = "commit", !.job = {g},
                                                                    !.told = told]]
                   \/ host' = [host EXCEPT ![a] = Offline]
    BY Zenon, <1>1 DEF Publish, Jobs, At, End, Lost
  <2> QED
    BY Zenon, <1>2, <1>3, <2>1

(* The journal takes the end the controller published. *)
LEMMA CommitStep ==
    ASSUME RowInv, DecisionInv, AgentInv, NEW a \in Hosts, Commit(a)
    PROVE  AgentInv' /\ [Next]_vars
<1>1. At(a, {"commit"}) /\ UNCHANGED <<vars, left>> /\ UNCHANGED <<summary, work>> /\ ~At(a, {"down", "up"})
  BY Zenon DEF Commit, truthVars, Jobs, At
<1>2. Calm({}) /\ grants' = grants
  BY Zenon, <1>1, QuietCalm
<1>3. PICK g \in host[a].job :
         \/ host[a].told = "aborted" /\ Journal(g, "cancelling") /\ UNCHANGED host
         \/ Journal(g, host[a].told) /\ host' = [host EXCEPT ![a] = Idle]
  BY Zenon, <1>1 DEF Commit, Jobs, At, Rest
<1>4. /\ g \in grants /\ g \in HostGrants /\ RowKept(g) /\ Standing(a, g) /\ Covered(a, g)
      /\ \A h \in host[a].job : h = g
      /\ row[g].phase \in {"finalizing", "cancelling"} /\ host[a].told \in Terminal
      /\ host[a].told # "aborted" => fence[g.attempt] = g.fence /\ status[g.attempt] = host[a].told
  <2>1. /\ g \in grants /\ g \in HostGrants /\ RowKept(g) /\ Standing(a, g) /\ Covered(a, g)
        /\ \A h \in host[a].job : h = g
    BY Zenon, InHand
  <2> QED
    BY Zenon, <1>1, <2>1 DEF Standing, At
<1>5. PICK told : told = host[a].told
  OBVIOUS
<1>6. /\ told \in Phases /\ told \in Terminal /\ "cancelling" \in Phases
      /\ told \in {"succeeded", "failed"} => told # "aborted"
      /\ told \notin {"accepted", "running"}
      /\ row[g].phase \notin {"reconciliation_required", "aborted"}
  BY Zenon, <1>4, <1>5 DEF Phases, Terminal
<1>7. /\ work' \in [HostGrants -> WorkStates] /\ summary' \in [Ordinals -> Results \cup {"none", "reason"}]
      /\ work'[g] = work[g] /\ host \in [Hosts -> HostStates]
  BY Zenon, <1>1, LocalTypes
<1>8. PICK S : S = {g}
  BY Zenon
<1>9. Calm(S) /\ S \subseteq {g} /\ S \subseteq host[a].job /\ \A h \in S : h = g
  BY Zenon, <1>2, <1>8 DEF Calm
<1>10. CASE host[a].told = "aborted" /\ Journal(g, "cancelling") /\ UNCHANGED host
  <2>1. /\ row' \in [HostGrants -> RowStates] /\ row'[g].phase = "cancelling"
        /\ \A h \in HostGrants \ {g} : row'[h] = row[h] /\ work'[h] = work[h]
    BY Zenon, <1>1, <1>4, <1>6, <1>10, Journaled
  <2>2. RowKept(g)'
    BY Zenon, <1>2, <1>4, <1>6, <1>7, <1>10, Rejournaled
  <2>3. host'[a] = host[a] /\ \A b \in Hosts \ {a} : host'[b] = host[b]
    BY Zenon, <1>10
  <2>4. host'[a].job = {g} /\ ~At(a, {"down", "up", "idle"})' /\ host' \in [Hosts -> HostStates]
    BY Zenon, <1>1, <1>4, <1>7, <1>10 DEF At
  <2>5. Clocked(a)'
    <3>1. Clocked(a)
      BY Zenon DEF AgentInv, HostInv
    <3> QED
      BY Zenon, <2>3, <3>1 DEF Clocked, At
  <2>6. host'[a].at = "commit" /\ host'[a].told = "aborted" /\ host'[a].ask = "none"
    <3>1. Clocked(a)
      BY Zenon DEF AgentInv, HostInv
    <3> QED
      BY Zenon, <1>1, <1>10, <2>3, <3>1 DEF Clocked, At, Leased
  <2>7. Standing(a, g)' /\ Covered(a, g)'
    BY <2>1, <2>6 DEF Standing, Covered, At, Terminal
  <2>8. AgentInv'
    BY Zenon, <1>1, <1>7, <1>9, <2>1, <2>2, <2>3, <2>4, <2>5, <2>7, WorkStep
  <2> QED
    BY Zenon, <1>2, <2>8 DEF Calm
<1>11. CASE Journal(g, host[a].told) /\ host' = [host EXCEPT ![a] = Idle]
  <2>1. Journal(g, told)
    BY Zenon, <1>5, <1>11
  <2>2. /\ row' \in [HostGrants -> RowStates] /\ row'[g].phase = told
        /\ \A h \in HostGrants \ {g} : row'[h] = row[h] /\ work'[h] = work[h]
    BY Zenon, <1>1, <1>4, <1>6, <2>1, Journaled
  <2>3. RowKept(g)'
    BY Zenon, <1>2, <1>4, <1>5, <1>6, <1>7, <2>1, Rejournaled
  <2>4. Idle \in Homes /\ \A h \in host[a].job : row'[h].phase \in Terminal \cup {"none"}
    BY Zenon, <1>4, <1>6, <2>2 DEF Homes
  <2>5. \A h \in HostGrants \ S : row'[h] = row[h] /\ work'[h] = work[h]
    BY Zenon, <1>8, <2>2
  <2>6. AgentInv'
    BY Zenon, <1>1, <1>7, <1>9, <1>11, <2>2, <2>3, <2>4, <2>5, HomeStep
  <2> QED
    BY Zenon, <1>2, <2>6 DEF Calm
<1> QED
  BY Zenon, <1>3, <1>10, <1>11

-----------------------------------------------------------------------------
(* The assignment. *)

(* The offer a poll brings is new to the journal. *)
LEMMA PollStep ==
    ASSUME RowInv, DecisionInv, AgentInv, NEW a \in Hosts, Poll(a)
    PROVE  AgentInv' /\ [Next]_vars
<1>1. UNCHANGED <<row, work>> /\ UNCHANGED summary /\ At(a, {"idle"}) /\ ~At(a, {"down", "up"})
  BY Zenon DEF Poll, localVars, At
<1>2. PICK o \in Ordinals : ClaimNext(a, o) /\ Stamp(o)
  BY Zenon DEF Poll
<1>3. a \in Agents /\ summary' \in [Ordinals -> Results \cup {"none", "reason"}]
  BY Zenon, <1>1, AgentAssumption, LocalTypes
<1>4. Calm({})
  BY Zenon, <1>2, <1>3, ClaimCalm
<1>5. CASE Lost(a)
  BY Zenon, <1>1, <1>3, <1>4, <1>5, EndStep
<1>6. CASE host' = [host EXCEPT ![a].at = "offered", ![a].job = grants' \ grants]
  <2>1. PICK g : g = [attempt |-> o, fence |-> fence[o] + 1, epoch |-> epoch, agent |-> a]
    BY Zenon
  <2>2. g.attempt = o /\ g.fence = fence[o] + 1 /\ g.agent = a
    BY <2>1
  <2>3. g \notin grants
    BY <1>2, <2>2 DEF RowInv, GrantsFollowFences, TypeOK
  <2>4. grants' \ grants = {g} /\ g \in grants'
    BY Zenon, <1>2, <2>1, <2>3 DEF ClaimNext
  <2>5. g \in HostGrants
    <3>1. TypeOK'
      BY Zenon, <1>4, TypeStep DEF Calm, RowInv
    <3> QED
      BY Zenon, <2>2, <2>4, <3>1 DEF TypeOK, HostGrants
  <2>6. row[g].phase = "none" /\ row[g].pid = 0 /\ row[g].result = "none" /\ work[g].step = 0
    BY Zenon, <2>3, <2>5 DEF AgentInv, RowKept
  <2>7. /\ host' \in [Hosts -> HostStates] /\ \A b \in Hosts \ {a} : host'[b] = host[b]
        /\ host'[a].job = {g} /\ host'[a].mode = host[a].mode /\ host'[a].at = "offered"
        /\ host'[a].ask = host[a].ask /\ host'[a].told = host[a].told
    <3>1. host[a] \in HostStates /\ host \in [Hosts -> HostStates] /\ "offered" \in Places
      BY Zenon, LocalTypes DEF Places
    <3>2. host' = [host EXCEPT ![a] = [host[a] EXCEPT !.at = "offered", !.job = {g}]]
      BY Zenon, <3>1, <1>6, <2>4
    <3>3. [host[a] EXCEPT !.at = "offered", !.job = {g}] \in HostStates
      BY Zenon, <2>5, <3>1 DEF HostStates
    <3>4. /\ host' \in [Hosts -> HostStates] /\ \A b \in Hosts \ {a} : host'[b] = host[b]
          /\ host'[a] = [host[a] EXCEPT !.at = "offered", !.job = {g}]
      BY Zenon, <3>1, <3>2, <3>3
    <3> QED
      BY <3>1, <3>4 DEF HostStates
  <2>8. OneInHand(a) /\ Clocked(a)
    BY Zenon DEF AgentInv, HostInv
  <2>9. host[a].ask = "none" /\ host[a].told = "none" /\ host[a].mode = "run" /\ host[a].job = {}
    BY Zenon, <1>1, <2>8 DEF Clocked, OneInHand, At, Recovering, Leased
  <2>10. OneInHand(a)'
    <3>1. \A h \in OpenRows(a)' : h \in OpenRows(a)
      BY Zenon, <1>1, <1>4, OpenRowsStay
    <3>2. OpenRows(a)' = {}
      BY Zenon, <1>1, <2>8, <2>9, <3>1 DEF OneInHand
    <3> QED
      BY Zenon, <2>2, <2>4, <2>7, <3>2 DEF OneInHand, At
  <2>11. Clocked(a)'
    BY <2>7, <2>9 DEF Clocked, At, Recovering
  <2>12. Standing(a, g)'
    BY <1>1, <2>6, <2>7 DEF Standing, At
  <2>13. Covered(a, g)'
    BY <2>7, <2>9 DEF Covered, At
  <2>14. HostInv(a)'
    BY Zenon, <2>7, <2>10, <2>11, <2>12, <2>13 DEF HostInv
  <2>15. AgentTypeOK'
    BY Zenon, <1>1, <1>3, <1>4, <2>7 DEF AgentTypeOK, AgentInv, Calm
  <2>16. AgentInv'
    BY Zenon, <1>1, <1>4, <2>7, <2>14, <2>15, QuietHostStep
  <2> QED
    BY Zenon, <1>4, <2>16 DEF Calm
<1> QED
  BY Zenon, <1>5, <1>6 DEF Poll

LEMMA DeclineStep ==
    ASSUME RowInv, DecisionInv, AgentInv, NEW a \in Hosts, Decline(a)
    PROVE  AgentInv' /\ [Next]_vars
<1>1. /\ UNCHANGED <<vars, left>> /\ UNCHANGED <<row, work>> /\ UNCHANGED summary
      /\ At(a, {"offered"}) /\ ~At(a, {"down", "up"})
  BY Zenon DEF Decline, truthVars, localVars, At
<1>2. Calm({}) /\ summary' \in [Ordinals -> Results \cup {"none", "reason"}]
  BY Zenon, <1>1, QuietCalm, LocalTypes
<1>3. \A g \in host[a].job : row[g].phase \in Terminal \cup {"none"}
  BY Zenon, <1>1, InHand DEF Standing
<1>4. Idle \in Homes /\ host' = [host EXCEPT ![a] = Idle]
  BY Zenon DEF Homes, Decline, Rest
<1> QED
  BY Zenon, <1>1, <1>2, <1>3, <1>4, QuietHomeStep

(* What the controller's lease is worth after a step that leaves it alone. *)
LEMMA CoverStays ==
    ASSUME AgentInv, NEW S, Calm(S), NEW g \in grants, g \in HostGrants, g \notin S
    PROVE  /\ Ended(g) => Ended(g)'
           /\ \A n \in Int : Lasts(g, n) => Lasts(g, n)'
<1>1. left[g.attempt] \in Int /\ left'[g.attempt] \in Int
  BY AgentAssumption DEF AgentInv, AgentTypeOK, Calm, HostGrants, Grants
<1>2. Undisturbed(g)
  BY Zenon DEF Calm
<1> QED
  BY <1>1, <1>2 DEF Undisturbed, Lasts

(* The numbers an agent counts with. *)
LEMMA Terms ==
    ASSUME AgentInv, NEW a \in Hosts
    PROVE  /\ host[a].held \in 0 .. Budget /\ host[a].age \in 0 .. Window /\ host[a].dying \in 0 .. Grace
           /\ Window - host[a].age \in Int /\ host[a].held + Grace + Margin \in Int
           /\ host[a].dying + Margin \in Int
           /\ host[a].at \in Places /\ host[a].job \in SUBSET HostGrants
           /\ host[a].mode \in {"run", "quiesce", "directed"}
           /\ host[a].ask \in {"none", "sent", "kept", "stop", "no"}
BY AgentAssumption DEF AgentInv, AgentTypeOK, HostStates

(* Where a host with an assignment may go next: a place that renews, if a    *)
(* renewal is out, and one whose term the lease of the controller covers.    *)
MayGo(a, g, place) ==
    LET term == host[a].held + Grace + Margin IN
    /\ ~At(a, Recovering \cup {"down", "up", "publish"})
    /\ place \in Leased \cup {"accept", "lease"} /\ place \notin {"ending", "publish"}
    /\ place = "accept" => host[a].ask = "none"
    /\ host[a].told # "none" => place \in {"cut", "exited"}
    /\ place = "start" => Ended(g) \/ Lasts(g, term)
    /\ place \in {"spawn", "spawned", "running"} => Lasts(g, term)
    /\ place = "exited" /\ host[a].told = "none" => Lasts(g, term)

(* A host with an assignment moves on and keeps its clocks. *)
LEMMA GoOn ==
    ASSUME RowInv, AgentInv, Calm({}), NEW a \in Hosts, NEW g \in host[a].job,
           NEW place, MayGo(a, g, place), host' = [host EXCEPT ![a].at = place],
           \A h \in HostGrants \ {g} : row'[h] = row[h] /\ work'[h] = work[h],
           row' \in [HostGrants -> RowStates], work' \in [HostGrants -> WorkStates], UNCHANGED summary,
           RowKept(g)', Standing(a, g)'
    PROVE  AgentInv' /\ [Next]_vars
<1> USE DEF MayGo
<1>1. place \in Places /\ place \notin Recovering /\ ~At(a, {"down", "up"})
  BY Zenon DEF Places, Recovering, Leased, At
<1>2. /\ host' \in [Hosts -> HostStates] /\ \A b \in Hosts \ {a} : host'[b] = host[b]
      /\ host'[a].at = place /\ host'[a].job = host[a].job /\ host'[a].mode = host[a].mode
      /\ host'[a].held = host[a].held /\ host'[a].ask = host[a].ask
      /\ host'[a].age = host[a].age /\ host'[a].dying = host[a].dying
      /\ host'[a].told = host[a].told
  BY Zenon, <1>1, Goes DEF AgentInv
<1>3. g \in grants /\ g \in HostGrants /\ Covered(a, g) /\ host[a].job = {g} /\ Clocked(a)
  <2>1. Clocked(a)
    BY Zenon DEF AgentInv, HostInv
  <2> QED
    BY Zenon, <2>1, InHand
<1>4. host[a].mode = "run"
  BY Zenon, <1>3 DEF Clocked, At
<1>5. host[a].ask # "none" => host[a].age + host[a].held <= Budget /\ host[a].told # "lost"
  BY Zenon, <1>3 DEF Clocked, At
<1>6. Clocked(a)'
  <2>1. place \in Leased \cup {"accept", "lease"} /\ (place # "accept" => place = "lease" \/ place \in Leased)
    BY Zenon
  <2> QED
    BY Zenon, <1>1, <1>2, <1>4, <1>5, <2>1 DEF Clocked, At
<1>7. PICK S : S = {}
  OBVIOUS
<1>8. Calm(S) /\ g \notin S /\ S \subseteq {g}
  BY Zenon, <1>7
<1>9. /\ Ended(g) => Ended(g)'
      /\ \A n \in Int : Lasts(g, n) => Lasts(g, n)'
  BY Zenon, <1>3, <1>8, CoverStays
<1>10. /\ Lasts(g, Window - host[a].age) => Lasts(g, Window - host[a].age)'
       /\ Lasts(g, host[a].held + Grace + Margin) => Lasts(g, host[a].held + Grace + Margin)'
  <2>1. Window - host[a].age \in Int /\ host[a].held + Grace + Margin \in Int
    BY Zenon, Terms
  <2>2. PICK m, n : m = Window - host[a].age /\ n = host[a].held + Grace + Margin
    OBVIOUS
  <2>3. (Lasts(g, m) => Lasts(g, m)') /\ (Lasts(g, n) => Lasts(g, n)')
    BY Zenon, <1>9, <2>1, <2>2
  <2> QED
    BY Zenon, <1>2, <2>2, <2>3 DEF Lasts
<1>11. Covered(a, g)'
  <2>1. host[a].ask = "kept" => Ended(g)' \/ (Lasts(g, Window - host[a].age)')
    BY Zenon, <1>3, <1>9, <1>10 DEF Covered
  <2>2. /\ place = "start" => Ended(g)' \/ Lasts(g, host[a].held + Grace + Margin)'
        /\ place \in {"spawn", "spawned", "running"} => Lasts(g, host[a].held + Grace + Margin)'
        /\ place = "exited" /\ host[a].told = "none" => Lasts(g, host[a].held + Grace + Margin)'
    BY Zenon, <1>9, <1>10
  <2> QED
    BY Zenon, <1>2, <2>1, <2>2 DEF Covered, At
<1>12. ~At(a, {"down", "up", "idle"})' /\ host'[a].job = {g}
  BY Zenon, <1>2, <1>3 DEF At, Leased
<1>13. summary' \in [Ordinals -> Results \cup {"none", "reason"}]
  BY Zenon, LocalTypes
<1>14. AgentInv'
  BY Zenon, <1>1, <1>2, <1>6, <1>8, <1>11, <1>12, <1>13, WorkStep
<1> QED
  BY Zenon, <1>14 DEF Calm

LEMMA AcceptStep ==
    ASSUME RowInv, DecisionInv, AgentInv, NEW a \in Hosts, Accept(a)
    PROVE  AgentInv' /\ [Next]_vars
<1>1. UNCHANGED <<vars, left>> /\ UNCHANGED <<summary, work>> /\ At(a, {"offered"})
  BY Zenon DEF Accept, truthVars, Jobs, At
<1>2. Calm({})
  BY Zenon, <1>1, QuietCalm
<1>3. PICK g \in host[a].job : Journal(g, "accepted")
  BY Zenon, <1>1 DEF Accept, Jobs, At
<1>4. /\ g \in grants /\ g \in HostGrants /\ RowKept(g)
      /\ row[g].phase = "none" /\ row[g].pid = 0 /\ work[g].step = 0 /\ row[g].result = "none"
  <2>1. g \in grants /\ g \in HostGrants /\ RowKept(g) /\ Standing(a, g)
    BY Zenon, InHand
  <2> QED
    BY Zenon, <1>1, <2>1 DEF Standing, At
<1>5. "accepted" \in Phases /\ work'[g] = work[g] /\ work' \in [HostGrants -> WorkStates]
  BY Zenon, <1>1, LocalTypes DEF Phases
<1>6. /\ row' \in [HostGrants -> RowStates]
      /\ row'[g].phase = "accepted" /\ row'[g].pid = 0 /\ row'[g].result = "none"
      /\ \A h \in HostGrants \ {g} : row'[h] = row[h] /\ work'[h] = work[h]
  BY Zenon, <1>1, <1>3, <1>4, <1>5, Journaled
<1>7. RowKept(g)'
  BY Zenon, <1>2, <1>3, <1>4, <1>5, Rejournaled
<1>8. host' = [host EXCEPT ![a].at = "accept"] /\ "accept" \in Places
  BY Zenon DEF Accept, Go, Places
<1>9. host'[a].at = "accept"
  BY Zenon, <1>8, Goes DEF AgentInv
<1>10. Standing(a, g)'
  BY <1>4, <1>5, <1>6, <1>9 DEF Standing, At
<1>11. MayGo(a, g, "accept")
  <2>1. Clocked(a)
    BY Zenon DEF AgentInv, HostInv
  <2>2. host[a].ask = "none" /\ host[a].told = "none"
    BY Zenon, <1>1, <2>1 DEF Clocked, At, Leased
  <2> QED
    BY <1>1, <2>2 DEF MayGo, At, Recovering
<1> QED
  BY Zenon, <1>1, <1>2, <1>5, <1>6, <1>7, <1>8, <1>10, <1>11, GoOn

(* A host that moves on while the journal and its process stay as they are. *)
LEMMA CallStep ==
    ASSUME RowInv, AgentInv, Calm({}), NEW a \in Hosts, NEW g \in host[a].job,
           UNCHANGED <<row, work>>
    PROVE  /\ RowKept(g)' /\ row' \in [HostGrants -> RowStates] /\ work' \in [HostGrants -> WorkStates]
           /\ row'[g] = row[g] /\ work'[g] = work[g]
           /\ \A h \in HostGrants \ {g} : row'[h] = row[h] /\ work'[h] = work[h]
<1>1. PICK S : S = {}
  OBVIOUS
<1>2. Calm(S) /\ g \notin S /\ g \in HostGrants
  BY Zenon, <1>1, InHand
<1>3. row'[g] = row[g] /\ work'[g] = work[g]
  BY Zenon
<1>4. RowKept(g)'
  BY Zenon, <1>2, <1>3, RowStaysKept
<1> QED
  BY Zenon, <1>4, LocalTypes

LEMMA AcceptWorkStep ==
    ASSUME RowInv, DecisionInv, AgentInv, NEW a \in Hosts, AcceptWork(a)
    PROVE  AgentInv' /\ [Next]_vars
<1>1. UNCHANGED left /\ UNCHANGED <<row, work>> /\ UNCHANGED summary /\ At(a, {"accept"})
  BY Zenon DEF AcceptWork, localVars, Jobs, At
<1>2. PICK g \in host[a].job :
         /\ AcceptOffer(g) \/ UNCHANGED vars
         /\ Go(a, "lease") \/ Lost(a) \/ End(a)
  BY Zenon, <1>1 DEF AcceptWork, Jobs, At
<1>3. g \in grants /\ Standing(a, g) /\ summary' \in [Ordinals -> Results \cup {"none", "reason"}]
  BY Zenon, <1>1, InHand, LocalTypes
<1>4. Calm({})
  BY Zenon, <1>1, <1>2, <1>3, HoldCalm, QuietCalm
<1>5. CASE Lost(a) \/ End(a)
  BY Zenon, <1>1, <1>3, <1>4, <1>5, EndStep
<1>6. CASE Go(a, "lease")
  <2>1. host' = [host EXCEPT ![a].at = "lease"] /\ "lease" \in Places
    BY Zenon, <1>6 DEF Go, Places
  <2>2. host'[a].at = "lease"
    BY Zenon, <2>1, Goes DEF AgentInv
  <2>3. /\ RowKept(g)' /\ row' \in [HostGrants -> RowStates] /\ work' \in [HostGrants -> WorkStates]
        /\ row'[g] = row[g] /\ work'[g] = work[g]
        /\ \A h \in HostGrants \ {g} : row'[h] = row[h] /\ work'[h] = work[h]
    BY Zenon, <1>1, <1>4, CallStep
  <2>4. /\ row[g].pid = 0 /\ work[g].step = 0 /\ row[g].phase \in {"accepted", "running"}
        /\ row[g].result = "none"
    BY Zenon, <1>1, <1>3 DEF Standing, At
  <2>5. Standing(a, g)'
    BY <2>2, <2>3, <2>4 DEF Standing, At
  <2>6. MayGo(a, g, "lease")
    <3>1. Clocked(a)
      BY Zenon DEF AgentInv, HostInv
    <3>2. host[a].told = "none"
      BY Zenon, <1>1, <3>1 DEF Clocked, At
    <3> QED
      BY <1>1, <3>2 DEF MayGo, At, Recovering
  <2> QED
    BY Zenon, <1>1, <1>4, <2>1, <2>3, <2>5, <2>6, GoOn
<1> QED
  BY Zenon, <1>2, <1>5, <1>6

LEMMA StartWorkStep ==
    ASSUME RowInv, DecisionInv, AgentInv, NEW a \in Hosts, StartWork(a)
    PROVE  AgentInv' /\ [Next]_vars
<1>1. UNCHANGED left /\ UNCHANGED <<row, work>> /\ UNCHANGED summary /\ At(a, {"start"})
  BY Zenon DEF StartWork, localVars, Jobs, At
<1>2. PICK g \in host[a].job :
         /\ MarkRunning(g) \/ UNCHANGED vars
         /\ \/ Go(a, "spawn") /\ LiveAuthority(g) /\ status[g.attempt] \in {"accepted", "running"}
            \/ Go(a, "start") \/ End(a)
  BY Zenon, <1>1 DEF StartWork, MarkRunning, Jobs, At
<1>3. /\ g \in grants /\ RowKept(g) /\ Standing(a, g) /\ Covered(a, g)
      /\ summary' \in [Ordinals -> Results \cup {"none", "reason"}]
  BY Zenon, <1>1, InHand, LocalTypes
<1>4. Calm({})
  BY Zenon, <1>1, <1>2, <1>3, HoldCalm, QuietCalm
<1>5. CASE End(a)
  BY Zenon, <1>1, <1>3, <1>4, <1>5, EndStep
<1>6. /\ RowKept(g)' /\ row' \in [HostGrants -> RowStates] /\ work' \in [HostGrants -> WorkStates]
      /\ row'[g] = row[g] /\ work'[g] = work[g]
      /\ \A h \in HostGrants \ {g} : row'[h] = row[h] /\ work'[h] = work[h]
  BY Zenon, <1>1, <1>4, CallStep
<1>7. /\ row[g].pid = 0 /\ work[g].step = 0 /\ row[g].phase \in {"accepted", "running"}
      /\ row[g].result = "none"
      /\ Ended(g) \/ Lasts(g, host[a].held + Grace + Margin)
  BY Zenon, <1>1, <1>3 DEF Standing, Covered, At
<1>8. host[a].told = "none"
  <2>1. Clocked(a)
    BY Zenon DEF AgentInv, HostInv
  <2> QED
    BY Zenon, <1>1, <2>1 DEF Clocked, At
<1>9. CASE Go(a, "start")
  <2>1. host' = [host EXCEPT ![a].at = "start"] /\ "start" \in Leased /\ "start" \in Places
    BY Zenon, <1>9 DEF Go, Leased, Places
  <2>2. host'[a].at = "start"
    BY Zenon, <2>1, Goes DEF AgentInv
  <2>3. Standing(a, g)'
    BY <1>6, <1>7, <2>2 DEF Standing, At
  <2>4. MayGo(a, g, "start")
    BY <1>1, <1>7, <1>8, <2>1 DEF MayGo, At, Recovering
  <2> QED
    BY Zenon, <1>1, <1>4, <1>6, <2>1, <2>3, <2>4, GoOn
<1>10. CASE Go(a, "spawn") /\ LiveAuthority(g) /\ status[g.attempt] \in {"accepted", "running"}
  <2>1. host' = [host EXCEPT ![a].at = "spawn"] /\ "spawn" \in Leased /\ "spawn" \in Places
    BY Zenon, <1>10 DEF Go, Leased, Places
  <2>2. host'[a].at = "spawn"
    BY Zenon, <2>1, Goes DEF AgentInv
  <2>3. work[g].is = "gone" /\ 0 < Steps
    <3>1. work[g].is = "gone"
      BY Zenon, <1>3, <1>7 DEF RowKept
    <3>2. 0 < Steps
      BY AgentAssumption
    <3> QED
      BY Zenon, <3>1, <3>2
  <2>4. Standing(a, g)'
    BY <1>6, <1>7, <2>2, <2>3 DEF Standing, At
  <2>5. Lasts(g, host[a].held + Grace + Margin)
    BY Zenon, <1>7, <1>10 DEF Ended, Terminal
  <2>6. MayGo(a, g, "spawn")
    BY <1>1, <1>8, <2>1, <2>5 DEF MayGo, At, Recovering
  <2> QED
    BY Zenon, <1>1, <1>4, <1>6, <2>1, <2>4, <2>6, GoOn
<1> QED
  BY Zenon, <1>2, <1>5, <1>9, <1>10

=============================================================================
