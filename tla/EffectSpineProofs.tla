--------------------------- MODULE EffectSpineProofs ---------------------------
(***************************************************************************)
(* External effects, for any number of agents, attempts, fences, effect    *)
(* keys and deliveries.  In the ledger of ControllerTruth a non-idempotent *)
(* effect is dispatched at most once, what was abandoned never left, and a *)
(* success is complete; with the worker of EffectSpine what leaves leaves  *)
(* once, what is abandoned is over, what is published was applied.         *)
(***************************************************************************)
EXTENDS EffectSpine, ControllerTruthProofs

-----------------------------------------------------------------------------
(* The effect ledger *)

EffectInv ==
    /\ ProtectedEffectPinsFence
    /\ NonIdempotentIsLast
    /\ DispatchedIsKept
    /\ AbandonedNeverLeft

(* The rows the ledger may hold are triples. *)
LEMMA EffectIdParts ==
    ASSUME NEW e \in EffectIds
    PROVE  /\ e[1] \in Ordinals /\ e[2] \in Fences /\ e[3] \in EffectKeys
           /\ e = <<e[1], e[2], e[3]>>
BY DEF EffectIds

(* A step that writes no effect and no fence, creates no attempt and returns *)
(* none to the queue.                                                        *)
LEMMA LedgerUntouched ==
    ASSUME RowInv, EffectInv, UNCHANGED <<fence, effectVars>>,
           \A p \in Ordinals : status[p] = "absent" => status'[p] = "absent",
           \A p \in Ordinals : status'[p] \in {"queued", "offered"} =>
                                  status[p] \in {"queued", "offered"}
    PROVE  EffectInv'
<1> USE EffectIdParts DEF effectVars, EffectInv
<1>1. ProtectedEffectPinsFence'
  BY Zenon DEF ProtectedEffectPinsFence, Protected
<1>2. NonIdempotentIsLast'
  BY Zenon DEF NonIdempotentIsLast
<1>3. DispatchedIsKept' /\ AbandonedNeverLeft'
  BY Zenon DEF DispatchedIsKept, AbandonedNeverLeft
<1> QED
  BY Zenon, <1>1, <1>2, <1>3

(* A step of attempt o alone that neither creates it nor returns it to the   *)
(* queue.                                                                    *)
LEMMA AttemptMoves ==
    ASSUME RowInv, EffectInv, UNCHANGED <<fence, effectVars>>, NEW o \in Ordinals,
           NEW s, status' = [status EXCEPT ![o] = s],
           status[o] # "absent", s \notin {"queued", "offered"}
    PROVE  EffectInv'
BY Zenon, LedgerUntouched DEF RowInv, TypeOK

(* What a step of the expiry pass or of a restore does to the rows of parked *)
(* attempts: effects in flight become uncertain, and stay possibly applied.  *)
LEMMA BecomeUncertain ==
    ASSUME RowInv, EffectInv, NEW S,
           effect' = [e \in EffectIds |-> IF e \in S /\ effect[e] \in {"prepared", "applied"}
                                          THEN "uncertain" ELSE effect[e]],
           UNCHANGED <<fence, dispatched, receipts, ambiguous>>,
           \A p \in Ordinals : status[p] = "absent" => status'[p] = "absent",
           \A p \in Ordinals : status'[p] \in {"queued", "offered"} =>
                                  status[p] \in {"queued", "offered"}
    PROVE  EffectInv'
<1> USE EffectIdParts DEF EffectInv, RowInv, TypeOK
<1>1. \A e \in EffectIds : /\ effect'[e] \in PossiblyAppliedStatuses =>
                                effect[e] \in PossiblyAppliedStatuses
                           /\ effect'[e] = "none" <=> effect[e] = "none"
                           /\ effect'[e] = "abandoned" <=> effect[e] = "abandoned"
  BY Zenon DEF PossiblyAppliedStatuses
<1>2. ProtectedEffectPinsFence'
  BY Zenon, <1>1 DEF ProtectedEffectPinsFence, Protected
<1>3. NonIdempotentIsLast'
  BY Zenon, <1>1 DEF NonIdempotentIsLast
<1>4. DispatchedIsKept' /\ AbandonedNeverLeft'
  BY Zenon, <1>1 DEF DispatchedIsKept, AbandonedNeverLeft
<1> QED
  BY Zenon, <1>2, <1>3, <1>4

(* Writing the status of one row: a row that may have been applied already,  *)
(* or a new one of an executing attempt's current fence; only what never     *)
(* left is abandoned.                                                        *)
LEMMA RowWritten ==
    ASSUME RowInv, EffectInv, NEW e \in EffectIds, NEW s \in EffectStatuses,
           effect' = [effect EXCEPT ![e] = s],
           UNCHANGED <<status, fence, dispatched, receipts>>,
           \/ effect[e] \in PossiblyAppliedStatuses
           \/ effect[e] = "none" /\ e[2] = fence[e[1]] /\ status[e[1]] \in Executing,
           s = "abandoned" => e \notin dispatched /\ receipts[e] = {}
    PROVE  EffectInv'
<1> USE EffectIdParts DEF EffectInv
<1>1. \A d \in EffectIds : effect'[d] = IF d = e THEN s ELSE effect[d]
  BY Zenon DEF RowInv, TypeOK
<1>2. ProtectedEffectPinsFence'
  BY Zenon, <1>1 DEF ProtectedEffectPinsFence, Protected, Executing
<1>3. ASSUME NEW p \in Ordinals, e[1] < p, e[3] \in NonIdempotent PROVE status[p] = "absent"
  <2>1. CASE effect[e] # "none"
    BY Zenon, <1>3, <2>1 DEF NonIdempotentIsLast
  <2>2. CASE status[e[1]] \in Executing
    <3>1. IsLatest(e[1])
      BY Zenon, <2>2, OpenIsLatest DEF RowInv, Executing, Active
    <3> QED
      BY Zenon, <1>3, <3>1 DEF IsLatest, Ordinals
  <2> QED
    BY Zenon, <2>1, <2>2 DEF PossiblyAppliedStatuses
<1>4. NonIdempotentIsLast'
  BY Zenon, <1>1, <1>3 DEF NonIdempotentIsLast
<1>5. DispatchedIsKept'
  BY Zenon, <1>1 DEF DispatchedIsKept, RowInv, TypeOK, EffectStatuses
<1>6. AbandonedNeverLeft'
  BY <1>1 DEF AbandonedNeverLeft
<1> QED
  BY Zenon, <1>2, <1>4, <1>5, <1>6

(* Every call that writes the ledger keeps it in order. *)
LEMMA LedgerStep ==
    ASSUME RowInv, EffectInv, LedgerCall
    PROVE  EffectInv'
<1>kept. UNCHANGED <<status, fence>>
  BY Zenon, LedgerKeepsTruth DEF truthButEffects, attemptVars
<1>typed. TypeOK
  BY Zenon DEF RowInv
<1>1. ASSUME NEW g \in grants, NEW k \in EffectKeys PROVE <<g.attempt, g.fence, k>> \in EffectIds
  BY Zenon, <1>typed DEF TypeOK, Grants, EffectIds
<1>2. ASSUME NEW g \in grants, NEW k \in EffectKeys, NEW requested \in EffectStatuses,
             CheckpointEffect(g, k, requested)
      PROVE  EffectInv'
  <2> DEFINE e == <<g.attempt, g.fence, k>>
  <2>1. e \in EffectIds /\ e[1] = g.attempt /\ e[2] = g.fence
    BY Zenon, <1>1
  <2>2. /\ \/ effect[e] = "none" /\ e[2] = fence[e[1]] /\ status[e[1]] \in Executing
           \/ effect[e] \in PossiblyAppliedStatuses
        /\ effect[e] = "none" => requested = "prepared"
        /\ effect' = [effect EXCEPT ![e] = requested]
        /\ UNCHANGED <<dispatched, receipts>>
    BY Zenon, <1>2 DEF CheckpointEffect, LiveAuthority, ExactAuthority, ValidEffectTransition,
       PossiblyAppliedStatuses
  <2>3. requested = "abandoned" => e \notin dispatched /\ receipts[e] = {}
    BY Zenon, <1>2, <2>2 DEF CheckpointEffect
  <2> HIDE DEF e
  <2> QED
    BY Zenon, <1>kept, <2>1, <2>2, <2>3, RowWritten
<1>3. ASSUME NEW g \in grants, NEW k \in EffectKeys, CommitDispatch(g, k) PROVE EffectInv'
  <2> DEFINE e == <<g.attempt, g.fence, k>>
  <2>1. /\ e \in EffectIds /\ effect[e] = "prepared" /\ dispatched' = dispatched \cup {e}
        /\ UNCHANGED <<effect, receipts>>
    BY Zenon, <1>1, <1>3 DEF CommitDispatch
  <2> HIDE DEF e
  <2>2. ProtectedEffectPinsFence' /\ NonIdempotentIsLast'
    BY Zenon, <1>kept, <2>1 DEF EffectInv, ProtectedEffectPinsFence, Protected, NonIdempotentIsLast
  <2>3. DispatchedIsKept' /\ AbandonedNeverLeft'
    BY Zenon, <2>1 DEF EffectInv, DispatchedIsKept, AbandonedNeverLeft
  <2> QED
    BY Zenon, <2>2, <2>3 DEF EffectInv
<1>4. ASSUME NEW e \in EffectIds, NEW kind \in ReceiptKinds, NEW isAmbiguous \in BOOLEAN,
             JoinReceipt(e, kind, isAmbiguous)
      PROVE  EffectInv'
  <2>1. /\ effect[e] # "abandoned" /\ receipts' = [receipts EXCEPT ![e] = @ \cup {kind}]
        /\ UNCHANGED <<effect, dispatched>>
    BY Zenon, <1>4 DEF JoinReceipt, EvidenceInOrder
  <2>2. ProtectedEffectPinsFence' /\ NonIdempotentIsLast'
    BY Zenon, <1>kept, <2>1 DEF EffectInv, ProtectedEffectPinsFence, Protected, NonIdempotentIsLast
  <2>3. DispatchedIsKept' /\ AbandonedNeverLeft'
    BY Zenon, <1>typed, <2>1 DEF EffectInv, DispatchedIsKept, AbandonedNeverLeft, TypeOK
  <2> QED
    BY Zenon, <2>2, <2>3 DEF EffectInv
<1>5. ASSUME NEW g \in grants, NEW k \in EffectKeys,
             NEW target \in {"abandoned", "release_pending"},
             RecordUndispatchedRelease(g, k, target)
      PROVE  EffectInv'
  <2> DEFINE e == <<g.attempt, g.fence, k>>
  <2>1. /\ e \in EffectIds /\ effect[e] \in PossiblyAppliedStatuses
        /\ e \notin dispatched /\ receipts[e] = {} /\ target \in EffectStatuses
        /\ effect' = [effect EXCEPT ![e] = target]
        /\ UNCHANGED <<dispatched, receipts>>
    BY Zenon, <1>1, <1>5 DEF RecordUndispatchedRelease, Undispatched, PossiblyAppliedStatuses, EffectStatuses
  <2> HIDE DEF e
  <2> QED
    BY Zenon, <1>kept, <2>1, RowWritten
<1>6. ASSUME NEW e \in EffectIds, ConfirmUncertainEffect(e) PROVE EffectInv'
  BY Zenon, <1>kept, <1>6, RowWritten
     DEF ConfirmUncertainEffect, PossiblyAppliedStatuses, EffectStatuses
<1>7. ASSUME NEW e \in EffectIds, AbandonExpiredReleasePending(e) PROVE EffectInv'
  BY Zenon, <1>kept, <1>7, RowWritten
     DEF AbandonExpiredReleasePending, Undispatched, PossiblyAppliedStatuses, EffectStatuses
<1> QED
  BY Zenon, <1>1, <1>2, <1>3, <1>4, <1>5, <1>6, <1>7
     DEF LedgerCall, AppendEvidence, AppendEvidenceReconciling

(* No call lets a possibly applied effect fall behind its attempt's fence,   *)
(* gives a child to an attempt with a non-idempotent effect, or takes back a *)
(* dispatch: one step per handler of the store.                              *)
LEMMA EffectStep == RowInv /\ EffectInv /\ [Next]_vars => EffectInv'
<1> SUFFICES ASSUME RowInv, EffectInv, [Next]_vars PROVE EffectInv'
  BY Zenon
<1>typed. TypeOK
  BY Zenon DEF RowInv
<1>granted. \A g \in grants : g.attempt \in Ordinals
  BY Zenon, <1>typed DEF TypeOK, Grants
<1> USE DEF attemptVars
<1>1. ASSUME NEW a \in Agents, NEW o \in Ordinals, ClaimNext(a, o) PROVE EffectInv'
  <2>1. /\ \A p \in Ordinals \ {o} : status'[p] = status[p] /\ fence'[p] = fence[p]
        /\ status[o] = "queued" /\ status'[o] = "offered"
        /\ UNCHANGED effectVars
    BY Zenon, <1>1, <1>typed DEF ClaimNext, TypeOK
  <2>2. ProtectedEffectPinsFence'
    BY Zenon, <2>1, EffectIdParts DEF EffectInv, ProtectedEffectPinsFence, Protected, effectVars
  <2>3. NonIdempotentIsLast'
    BY Zenon, <2>1, EffectIdParts DEF EffectInv, NonIdempotentIsLast, effectVars
  <2>4. DispatchedIsKept' /\ AbandonedNeverLeft'
    BY Zenon, <2>1 DEF EffectInv, DispatchedIsKept, AbandonedNeverLeft, effectVars
  <2> QED
    BY Zenon, <2>2, <2>3, <2>4 DEF EffectInv
<1>2. ASSUME NEW g \in grants,
             \/ AcceptOffer(g)
             \/ MarkRunning(g)
             \/ \E phase \in {"finalizing", "cancelling"} : RecoverFinalization(g, phase)
      PROVE EffectInv'
  <2>1. CASE AcceptOffer(g)
    <3>1. /\ g.attempt \in Ordinals /\ status[g.attempt] # "absent"
          /\ status' = [status EXCEPT ![g.attempt] = "accepted"]
          /\ UNCHANGED <<fence, effectVars>>
      BY Zenon, <2>1, <1>granted DEF AcceptOffer
    <3>2. /\ \A p \in Ordinals : status[p] = "absent" => status'[p] = "absent"
          /\ \A p \in Ordinals : status'[p] \in {"queued", "offered"} =>
                                    status[p] \in {"queued", "offered"}
      BY Zenon, <1>typed, <3>1 DEF TypeOK
    <3> QED
      BY Zenon, <3>1, <3>2, LedgerUntouched
  <2>2. CASE MarkRunning(g)
    <3>1. /\ g.attempt \in Ordinals /\ status[g.attempt] # "absent"
          /\ status' = [status EXCEPT ![g.attempt] = "running"]
          /\ UNCHANGED <<fence, effectVars>>
      BY Zenon, <2>2, <1>granted DEF MarkRunning
    <3>2. /\ \A p \in Ordinals : status[p] = "absent" => status'[p] = "absent"
          /\ \A p \in Ordinals : status'[p] \in {"queued", "offered"} =>
                                    status[p] \in {"queued", "offered"}
      BY Zenon, <1>typed, <3>1 DEF TypeOK
    <3> QED
      BY Zenon, <3>1, <3>2, LedgerUntouched
  <2>3. ASSUME NEW phase \in {"finalizing", "cancelling"}, RecoverFinalization(g, phase)
        PROVE  EffectInv'
    BY Zenon, <2>3, <1>granted, AttemptMoves DEF RecoverFinalization
  <2> QED
    BY Zenon, <1>2, <2>1, <2>2, <2>3
<1>3. ASSUME NEW g \in grants, RenewLease(g) PROVE EffectInv'
  BY Zenon, <1>3, LedgerUntouched DEF RenewLease
<1>4. ASSUME NEW o \in Ordinals, Tick(o) PROVE EffectInv'
  BY Zenon, <1>4, LedgerUntouched DEF Tick
<1>5. ASSUME NEW o \in Ordinals, RequeueExpired(o) PROVE EffectInv'
  <2>1. status[o] # "absent"
    BY Zenon, <1>5 DEF RequeueExpired, Active
  <2>2. CASE Terminate(o, "aborted") \/ Park(o, NoAgent)
    <3>1. /\ \A p \in Ordinals : status[p] = "absent" => status'[p] = "absent"
          /\ \A p \in Ordinals : status'[p] \in {"queued", "offered"} =>
                                    status[p] \in {"queued", "offered"}
          /\ UNCHANGED fence
      BY Zenon, <1>typed, <2>1, <2>2 DEF Terminate, Park, TypeOK
    <3> QED
      BY Zenon, <1>5, <3>1, BecomeUncertain DEF RequeueExpired
  <2>3. CASE InFlight(o) = {} /\ Requeue(o)
    <3>1. /\ \A p \in Ordinals \ {o} : status'[p] = status[p]
          /\ status'[o] = "queued"
          /\ UNCHANGED <<fence, effectVars>>
      BY Zenon, <1>5, <1>typed, <2>3 DEF RequeueExpired, Requeue, TypeOK, effectVars
    <3>2. \A e \in EffectIds : Protected(e) /\ effect[e] \in PossiblyAppliedStatuses => e[1] # o
      BY Zenon, <2>3 DEF EffectInv, ProtectedEffectPinsFence, InFlight, RowsAt, PossiblyAppliedStatuses
    <3>3. ProtectedEffectPinsFence'
      BY Zenon, <3>1, <3>2, EffectIdParts DEF EffectInv, ProtectedEffectPinsFence, Protected, effectVars
    <3>4. NonIdempotentIsLast'
      BY Zenon, <2>1, <3>1, EffectIdParts DEF EffectInv, NonIdempotentIsLast, effectVars
    <3>5. DispatchedIsKept' /\ AbandonedNeverLeft'
      BY Zenon, <3>1 DEF EffectInv, DispatchedIsKept, AbandonedNeverLeft, effectVars
    <3> QED
      BY Zenon, <3>3, <3>4, <3>5 DEF EffectInv
  <2> QED
    BY Zenon, <1>5, <2>2, <2>3 DEF RequeueExpired
<1>6. ASSUME RequestCancellation PROVE EffectInv'
  <2>1. PICK o \in Ordinals :
          /\ IsLatest(o)
          /\ \/ status' = [status EXCEPT ![o] = IF @ = "queued" THEN "aborted" ELSE @]
             \/ status' = [status EXCEPT ![o] = IF @ \in Active THEN "cancelling" ELSE @]
    BY Zenon, <1>6 DEF RequestCancellation
  <2>2. /\ \A p \in Ordinals : status[p] = "absent" => status'[p] = "absent"
        /\ \A p \in Ordinals : status'[p] \in {"queued", "offered"} =>
                                  status[p] \in {"queued", "offered"}
    BY <1>typed, <2>1 DEF IsLatest, TypeOK
  <2> QED
    BY Zenon, <1>6, <2>2, LedgerUntouched DEF RequestCancellation
<1>7. ASSUME NEW g \in grants, NEW verified \in BOOLEAN, CompleteCancellation(g, verified)
      PROVE EffectInv'
  BY Zenon, <1>7, <1>granted, AttemptMoves DEF CompleteCancellation, Park, Terminate
<1>8. ASSUME NEW g \in grants, NEW outcome \in Terminal, NEW aware \in BOOLEAN,
             FinalizeAttempt(g, outcome, aware)
      PROVE EffectInv'
  BY Zenon, <1>8, <1>granted, AttemptMoves
     DEF FinalizeAttempt, Park, Terminate, Published, Terminal, Executing
<1>9. ASSUME NEW o \in Ordinals, NEW outcome \in Terminal, FinalizeReconciled(o, outcome)
      PROVE EffectInv'
  BY Zenon, <1>9, AttemptMoves DEF FinalizeReconciled, Terminate, Terminal
<1>10. ASSUME NEW o \in Ordinals, NEW maxAttempts \in Ordinals, ScheduleRetry(o, maxAttempts)
       PROVE EffectInv'
  <2>next. o + 1 \in Ordinals
    BY <1>10, BoundsAssumption DEF ScheduleRetry, Ordinals
  <2>1. /\ o + 1 \in Ordinals /\ status[o + 1] = "absent" /\ status[o] # "absent"
        /\ \A p \in Ordinals \ {o + 1} : status'[p] = status[p]
        /\ UNCHANGED <<fence, effectVars>>
        /\ \A e \in RowsOf(o) : e[3] \notin NonIdempotent
    BY Zenon, <1>10, <1>typed, <2>next DEF ScheduleRetry, RetryEligible, HasRetry, TypeOK
  <2>2. fence[o + 1] = 0
    BY Zenon, <2>1 DEF RowInv, AbsentIsFresh
  <2>3. ProtectedEffectPinsFence'
    BY <2>1, <2>2, EffectIdParts
       DEF EffectInv, ProtectedEffectPinsFence, Protected, effectVars, Fences
  <2>4. ASSUME NEW e \in EffectIds, e[3] \in NonIdempotent, effect[e] # "none"
        PROVE  ~(e[1] < o + 1)
    <3>1. e[1] # o
      BY Zenon, <2>1, <2>4 DEF RowsOf
    <3>2. ~(e[1] < o)
      BY Zenon, <2>1, <2>4 DEF EffectInv, NonIdempotentIsLast
    <3> QED
      BY <3>1, <3>2, EffectIdParts DEF Ordinals
  <2>5. NonIdempotentIsLast'
    BY Zenon, <2>1, <2>4, EffectIdParts DEF EffectInv, NonIdempotentIsLast, effectVars
  <2>6. DispatchedIsKept' /\ AbandonedNeverLeft'
    BY Zenon, <2>1 DEF EffectInv, DispatchedIsKept, AbandonedNeverLeft, effectVars
  <2> QED
    BY Zenon, <2>3, <2>5, <2>6 DEF EffectInv
<1>11. ASSUME NEW o \in Ordinals, NEW maxAttempts \in Ordinals, DeadLetter(o, maxAttempts)
       PROVE EffectInv'
  BY Zenon, <1>11, <1>typed, AttemptMoves, LedgerUntouched DEF DeadLetter, RetryEligible
<1>12. ASSUME NEW b \in Backups, ActivateRestoreEpoch(b) PROVE EffectInv'
  <2> DEFINE affected == {o \in Ordinals : status[o] \in Active}
             S == {e \in EffectIds : e[1] \in affected}
  <2>1. effect' = [e \in EffectIds |-> IF e \in S /\ effect[e] \in {"prepared", "applied"}
                                       THEN "uncertain" ELSE effect[e]]
    BY Zenon, <1>12 DEF ActivateRestoreEpoch
  <2>2. /\ \A p \in Ordinals : status[p] = "absent" => status'[p] = "absent"
        /\ \A p \in Ordinals : status'[p] \in {"queued", "offered"} =>
                                  status[p] \in {"queued", "offered"}
    BY Zenon, <1>12 DEF ActivateRestoreEpoch, Active
  <2> HIDE DEF S
  <2> QED
    BY Zenon, <1>12, <2>1, <2>2, BecomeUncertain DEF ActivateRestoreEpoch
<1>13. ASSUME FencePipeline \/ \E b \in Backups : SealRecoveryPoint(b) PROVE EffectInv'
  BY Zenon, <1>13, LedgerUntouched DEF FencePipeline, SealRecoveryPoint
<1>14. CASE LedgerCall
  BY Zenon, <1>14, LedgerStep
<1>15. CASE UNCHANGED vars
  BY Zenon, <1>15, LedgerUntouched DEF vars
<1> QED
  BY Zenon, <1>1, <1>2, <1>3, <1>4, <1>5, <1>6, <1>7, <1>8, <1>9, <1>10, <1>11, <1>12, <1>13, <1>14, <1>15
     DEF Next, SchedulerStep, OperatorCall, AgentCall, LedgerCall

(* Admission writes no effect.                                               *)
LEMMA EffectInit == Init => EffectInv
BY Zenon DEF Init, EffectInv, ProtectedEffectPinsFence, NonIdempotentIsLast, DispatchedIsKept,
       AbandonedNeverLeft, PossiblyAppliedStatuses

(* The ledger stays in order with the attempts, by induction on RowInv and   *)
(* EffectInv together.                                                       *)
LEMMA EffectInvariant == Spec => [](RowInv /\ EffectInv)
<1>1. RowInv /\ EffectInv /\ [Next]_vars => EffectInv'
  BY Zenon, EffectStep
<1>2. RowInv /\ [Next]_vars => RowInv'
  BY Zenon, RowStep
<1> QED
  BY <1>1, <1>2, RowInit, EffectInit, PTL DEF Spec

(* A protected effect that may have been applied pins its attempt to the     *)
(* fence it was checkpointed under (requeue_one_expired parks instead of     *)
(* queueing).                                                                *)
THEOREM ProtectedEffectPins == Spec => []ProtectedEffectPinsFence
<1>1. EffectInv => ProtectedEffectPinsFence
  BY Zenon DEF EffectInv
<1> QED
  BY <1>1, EffectInvariant, PTL

(* What was abandoned was never dispatched and has no receipt. *)
THEOREM AbandonedStayed == Spec => []AbandonedNeverLeft
<1>1. EffectInv => AbandonedNeverLeft
  BY Zenon DEF EffectInv
<1> QED
  BY <1>1, EffectInvariant, PTL

(* A non-idempotent effect is dispatched at most once, over every fence and  *)
(* every attempt of the node: within an attempt the pinned fence makes the   *)
(* row unique, and an attempt with such a row never gets a child.            *)
THEOREM DispatchAtMostOnce == Spec => []DispatchedAtMostOnce
<1>1. RowInv /\ EffectInv => DispatchedAtMostOnce
  <2> SUFFICES ASSUME RowInv, EffectInv, NEW d \in dispatched, NEW e \in dispatched,
                      d[3] = e[3], d[3] \in NonIdempotent
               PROVE  d = e
    BY Zenon DEF DispatchedAtMostOnce
  <2>1. d \in EffectIds /\ e \in EffectIds
    BY Zenon DEF RowInv, TypeOK
  <2>2. /\ effect[d] \in PossiblyAppliedStatuses /\ effect[d] # "none"
        /\ effect[e] \in PossiblyAppliedStatuses /\ effect[e] # "none"
    BY Zenon, <2>1 DEF EffectInv, DispatchedIsKept, RowInv, TypeOK, PossiblyAppliedStatuses, EffectStatuses
  <2>3. d[2] = fence[d[1]] /\ e[2] = fence[e[1]]
    BY Zenon, <2>1, <2>2 DEF EffectInv, ProtectedEffectPinsFence, Protected
  <2>4. ASSUME NEW x \in EffectIds, effect[x] # "none", x[3] \in NonIdempotent,
               NEW y \in EffectIds, y[2] = fence[y[1]], x[1] < y[1]
        PROVE  FALSE
    <3>1. y[1] \in Ordinals /\ y[2] \in Fences
      BY Zenon, EffectIdParts
    <3>2. status[y[1]] = "absent"
      BY Zenon, <2>4, <3>1 DEF EffectInv, NonIdempotentIsLast
    <3>3. fence[y[1]] = 0
      BY Zenon, <3>1, <3>2 DEF RowInv, AbsentIsFresh
    <3> QED
      BY <2>4, <3>1, <3>3 DEF Fences
  <2>5. d[1] = e[1]
    BY <2>1, <2>2, <2>3, <2>4, EffectIdParts DEF Ordinals
  <2> QED
    BY <2>1, <2>3, <2>5, EffectIdParts
<1> QED
  BY <1>1, EffectInvariant, PTL

-----------------------------------------------------------------------------
(* Success. *)

(* A step after which every succeeded attempt was succeeded before, with its *)
(* fence, and kept the rows of that fence.                                   *)
LEMMA SuccessKept ==
    ASSUME TypeOK, SuccessIsComplete,
           \A o \in Ordinals : status'[o] = "succeeded" =>
               /\ status[o] = "succeeded" /\ fence'[o] = fence[o]
               /\ \A e \in EffectIds : e[1] = o /\ e[2] = fence[o] =>
                     /\ effect'[e] = effect[e] /\ receipts'[e] = receipts[e]
                     /\ e \in ambiguous' <=> e \in ambiguous
    PROVE  SuccessIsComplete'
BY DEF SuccessIsComplete, RowsAt, RuntimeEffectComplete

(* A step of attempt o that writes no row and publishes s only over a        *)
(* complete ledger.                                                          *)
LEMMA Publication ==
    ASSUME TypeOK, SuccessIsComplete, NEW o \in Ordinals, NEW s,
           status' = [status EXCEPT ![o] = s], UNCHANGED <<fence, effectVars>>,
           s = "succeeded" =>
               \A e \in RowsAt(o, fence[o]) :
                   /\ effect[e] \notin OpenStatuses
                   /\ e[3] \in Runtime => RuntimeEffectComplete(effect[e], receipts[e],
                                                                e \in ambiguous, "succeeded")
    PROVE  SuccessIsComplete'
BY Zenon DEF SuccessIsComplete, RowsAt, TypeOK, effectVars

(* No call opens, or takes a receipt from, an effect of a published success: *)
(* the calls about effects need an executing or parked attempt, and a        *)
(* release of undispatched effects finds none left to release.               *)
LEMMA SuccessStep == RowInv /\ SuccessIsComplete /\ [Next]_vars => SuccessIsComplete'
<1> SUFFICES ASSUME RowInv, SuccessIsComplete, [Next]_vars PROVE SuccessIsComplete'
  BY Zenon
<1>typed. TypeOK
  BY Zenon DEF RowInv
<1>granted. \A g \in grants : g.attempt \in Ordinals
  BY Zenon, <1>typed DEF TypeOK, Grants
<1> USE DEF attemptVars, effectVars
<1>1. ASSUME NEW a \in Agents, NEW o \in Ordinals, ClaimNext(a, o) PROVE SuccessIsComplete'
  BY Zenon, <1>1, <1>typed, SuccessKept DEF ClaimNext, TypeOK
<1>2. ASSUME NEW g \in grants,
             \/ AcceptOffer(g) \/ MarkRunning(g) \/ RenewLease(g)
             \/ \E phase \in {"finalizing", "cancelling"} : RecoverFinalization(g, phase)
             \/ \E verified \in BOOLEAN : CompleteCancellation(g, verified)
      PROVE SuccessIsComplete'
  <2>1. /\ UNCHANGED <<fence, effectVars>>
        /\ \A o \in Ordinals : status'[o] = "succeeded" => status[o] = "succeeded"
    BY <1>2, <1>granted, <1>typed
       DEF AcceptOffer, MarkRunning, RenewLease, RecoverFinalization, CompleteCancellation, Park,
           Terminate, TypeOK
  <2> QED
    BY Zenon, <1>typed, <2>1, SuccessKept
<1>3. ASSUME NEW g \in grants, NEW outcome \in Terminal, NEW aware \in BOOLEAN,
             FinalizeAttempt(g, outcome, aware)
      PROVE SuccessIsComplete'
  <2>1. CASE Park(g.attempt, NoAgent)
    BY Zenon, <1>3, <1>typed, <1>granted, <2>1, SuccessKept DEF FinalizeAttempt, Park, TypeOK
  <2>2. CASE /\ ~\E e \in RowsAt(g.attempt, g.fence) : effect[e] \in OpenStatuses
             /\ Complete(RowsAt(g.attempt, g.fence), Published(g, outcome, aware))
             /\ Terminate(g.attempt, Published(g, outcome, aware))
    <3> DEFINE s == Published(g, outcome, aware)
    <3>1. g.fence = fence[g.attempt] /\ g.attempt \in Ordinals
      BY Zenon, <1>3, <1>granted DEF FinalizeAttempt, LiveAuthority, ExactAuthority
    <3>2. s = "succeeded" =>
               \A e \in RowsAt(g.attempt, fence[g.attempt]) :
                   /\ effect[e] \notin OpenStatuses
                   /\ e[3] \in Runtime => RuntimeEffectComplete(effect[e], receipts[e],
                                                                e \in ambiguous, "succeeded")
      BY Zenon, <2>2, <3>1 DEF Complete
    <3>3. status' = [status EXCEPT ![g.attempt] = s] /\ UNCHANGED <<fence, effectVars>>
      BY Zenon, <1>3, <2>2 DEF FinalizeAttempt, Terminate
    <3> HIDE DEF s
    <3> QED
      BY Zenon, <1>typed, <3>1, <3>2, <3>3, Publication
  <2> QED
    BY Zenon, <1>3, <2>1, <2>2 DEF FinalizeAttempt
<1>4. ASSUME NEW o \in Ordinals, Tick(o) PROVE SuccessIsComplete'
  BY Zenon, <1>4, <1>typed, SuccessKept DEF Tick
<1>5. ASSUME NEW o \in Ordinals, RequeueExpired(o) PROVE SuccessIsComplete'
  <2>1. /\ status[o] # "succeeded" /\ status'[o] # "succeeded"
        /\ \A p \in Ordinals \ {o} : status'[p] = status[p]
        /\ UNCHANGED fence
    BY Zenon, <1>5, <1>typed DEF RequeueExpired, Terminate, Park, Requeue, Active, TypeOK
  <2>2. \A e \in EffectIds : e[1] # o => effect'[e] = effect[e]
    BY Zenon, <1>5 DEF RequeueExpired, InFlight, RowsAt
  <2> QED
    BY Zenon, <1>5, <1>typed, <2>1, <2>2, SuccessKept DEF RequeueExpired
<1>6. ASSUME RequestCancellation PROVE SuccessIsComplete'
  <2>1. \A o \in Ordinals : status'[o] = "succeeded" => status[o] = "succeeded"
    BY <1>6, <1>typed DEF RequestCancellation, TypeOK
  <2> QED
    BY Zenon, <1>6, <1>typed, <2>1, SuccessKept DEF RequestCancellation
<1>7. ASSUME NEW o \in Ordinals, NEW outcome \in Terminal, FinalizeReconciled(o, outcome)
      PROVE SuccessIsComplete'
  <2>1. outcome = "succeeded" =>
            \A e \in RowsAt(o, fence[o]) :
                /\ effect[e] \notin OpenStatuses
                /\ e[3] \in Runtime => RuntimeEffectComplete(effect[e], receipts[e],
                                                             e \in ambiguous, "succeeded")
    BY Zenon, <1>7 DEF FinalizeReconciled, Complete, RowsAt, RowsOf
  <2> QED
    BY Zenon, <1>7, <1>typed, <2>1, Publication DEF FinalizeReconciled, Terminate
<1>8. ASSUME NEW o \in Ordinals, NEW maxAttempts \in Ordinals,
             ScheduleRetry(o, maxAttempts) \/ DeadLetter(o, maxAttempts)
      PROVE SuccessIsComplete'
  <2>1. \A p \in Ordinals : status'[p] = "succeeded" => status[p] = "succeeded"
    BY Zenon, <1>8, <1>typed DEF ScheduleRetry, DeadLetter, TypeOK
  <2>2. UNCHANGED <<fence, effectVars>>
    BY Zenon, <1>8 DEF ScheduleRetry, DeadLetter
  <2> QED
    BY Zenon, <1>typed, <2>1, <2>2, SuccessKept
<1>9. ASSUME NEW b \in Backups, ActivateRestoreEpoch(b) PROVE SuccessIsComplete'
  <2>1. \A o \in Ordinals : status'[o] = "succeeded" => status[o] = "succeeded"
    BY Zenon, <1>9 DEF ActivateRestoreEpoch
  <2>2. \A e \in EffectIds : status[e[1]] = "succeeded" => effect'[e] = effect[e]
    BY Zenon, <1>9 DEF ActivateRestoreEpoch, Active
  <2> QED
    BY Zenon, <1>9, <1>typed, <2>1, <2>2, SuccessKept DEF ActivateRestoreEpoch
<1>10. ASSUME FencePipeline \/ \E b \in Backups : SealRecoveryPoint(b) PROVE SuccessIsComplete'
  <2>1. UNCHANGED <<status, fence, effectVars>>
    BY Zenon, <1>10 DEF FencePipeline, SealRecoveryPoint
  <2> QED
    BY Zenon, <1>typed, <2>1, SuccessKept
<1>11. ASSUME NEW e \in EffectIds, UNCHANGED truthButEffects,
              \A d \in EffectIds \ {e} : /\ effect'[d] = effect[d] /\ receipts'[d] = receipts[d]
                                         /\ d \in ambiguous' <=> d \in ambiguous,
              ~(status[e[1]] = "succeeded" /\ e[2] = fence[e[1]])
       PROVE SuccessIsComplete'
  BY Zenon, <1>11, <1>typed, SuccessKept DEF truthButEffects
<1>12. ASSUME NEW g \in grants, NEW k \in EffectKeys PROVE <<g.attempt, g.fence, k>> \in EffectIds
  BY Zenon, <1>typed DEF TypeOK, Grants, EffectIds
<1>13. ASSUME NEW g \in grants, NEW k \in EffectKeys, NEW requested \in EffectStatuses,
              CheckpointEffect(g, k, requested)
       PROVE SuccessIsComplete'
  <2>1. PICK e \in EffectIds : e = <<g.attempt, g.fence, k>>
    BY Zenon, <1>12
  <2>2. e[1] = g.attempt
    BY <2>1
  <2>3. status[e[1]] # "succeeded"
    BY Zenon, <1>13, <2>2 DEF CheckpointEffect, Executing
  <2>4. effect' = [effect EXCEPT ![e] = requested] /\ UNCHANGED <<truthButEffects, receipts, ambiguous>>
    BY Zenon, <1>13, <2>1 DEF CheckpointEffect
  <2>5. \A d \in EffectIds \ {e} : effect'[d] = effect[d]
    BY Zenon, <1>typed, <2>4 DEF TypeOK
  <2> QED
    BY Zenon, <1>11, <2>3, <2>4, <2>5
<1>14. ASSUME NEW g \in grants, NEW k \in EffectKeys, CommitDispatch(g, k)
       PROVE SuccessIsComplete'
  <2>1. UNCHANGED <<status, fence, effect, receipts, ambiguous>>
    BY Zenon, <1>14 DEF CommitDispatch, truthButEffects
  <2> QED
    BY Zenon, <1>typed, <2>1, SuccessKept
<1>15. ASSUME NEW e \in EffectIds, NEW kind \in ReceiptKinds, NEW isAmbiguous \in BOOLEAN,
              JoinReceipt(e, kind, isAmbiguous), status[e[1]] # "succeeded"
       PROVE SuccessIsComplete'
  BY Zenon, <1>11, <1>15, <1>typed DEF JoinReceipt, TypeOK
<1>16. ASSUME NEW g \in grants, NEW k \in EffectKeys,
              NEW target \in {"abandoned", "release_pending"},
              RecordUndispatchedRelease(g, k, target)
       PROVE SuccessIsComplete'
  <2> DEFINE e == <<g.attempt, g.fence, k>>
  <2>1. /\ e \in EffectIds /\ e[3] \in Runtime
        /\ effect[e] \in {"prepared", "uncertain", "release_pending"}
        /\ UNCHANGED <<truthButEffects, receipts, ambiguous>>
        /\ \A d \in EffectIds \ {e} : effect'[d] = effect[d]
    BY Zenon, <1>12, <1>16, <1>typed DEF RecordUndispatchedRelease, Undispatched, TypeOK
  <2> HIDE DEF e
  <2>2. ~(status[e[1]] = "succeeded" /\ e[2] = fence[e[1]])
    BY Zenon, <2>1, EffectIdParts DEF SuccessIsComplete, RowsAt, RuntimeEffectComplete
  <2> QED
    BY Zenon, <1>11, <2>1, <2>2
<1>17. ASSUME NEW e \in EffectIds, ConfirmUncertainEffect(e) \/ AbandonExpiredReleasePending(e)
       PROVE SuccessIsComplete'
  BY Zenon, <1>11, <1>17, <1>typed
     DEF ConfirmUncertainEffect, AbandonExpiredReleasePending, Reconcilable, TypeOK
<1>18. ASSUME NEW g \in grants, NEW k \in EffectKeys, NEW kind \in ReceiptKinds,
              NEW isAmbiguous \in BOOLEAN, AppendEvidence(g, k, kind, isAmbiguous)
       PROVE SuccessIsComplete'
  BY Zenon, <1>12, <1>15, <1>18 DEF AppendEvidence, Executing
<1>19. ASSUME NEW e \in EffectIds, NEW kind \in ReceiptKinds, NEW isAmbiguous \in BOOLEAN,
              AppendEvidenceReconciling(e, kind, isAmbiguous)
       PROVE SuccessIsComplete'
  BY Zenon, <1>15, <1>19 DEF AppendEvidenceReconciling
<1>20. CASE UNCHANGED vars
  BY Zenon, <1>typed, <1>20, SuccessKept DEF vars
<1> QED
  BY <1>1, <1>2, <1>3, <1>4, <1>5, <1>6, <1>7, <1>8, <1>9, <1>10, <1>13, <1>14, <1>16, <1>17,
     <1>18, <1>19, <1>20
     DEF Next, SchedulerStep, OperatorCall, AgentCall

(* A success is complete, and stays complete: every runtime effect of the    *)
(* published fence is confirmed with its receipts and no effect is open      *)
(* (finalize_attempt and finalize_reconciled_attempt check it once, no later *)
(* call undoes it).                                                          *)
THEOREM SuccessStaysComplete == Spec => []SuccessIsComplete
<1>1. Init => SuccessIsComplete
  BY Zenon DEF Init, SuccessIsComplete
<1>2. RowInv /\ SuccessIsComplete /\ [Next]_vars => SuccessIsComplete'
  BY Zenon, SuccessStep
<1>3. RowInv /\ [Next]_vars => RowInv'
  BY Zenon, RowStep
<1> QED
  BY <1>1, <1>2, <1>3, RowInit, PTL DEF Spec

-----------------------------------------------------------------------------
(* The worker *)

(* The effect a grant is about is one of the ledger's. *)
LEMMA EffectOfType ==
    ASSUME TypeOK, SpineTypeOK, NEW g \in grants
    PROVE  /\ g \in Grants /\ g.attempt \in Ordinals /\ g.fence \in Fences
           /\ plan \in EffectKeys
           /\ EffectOf(g) \in EffectIds
           /\ EffectOf(g)[1] = g.attempt /\ EffectOf(g)[2] = g.fence /\ EffectOf(g)[3] = plan
BY Zenon, EffectsAssumption DEF TypeOK, SpineTypeOK, Grants, EffectOf, EffectIds

(* The calls a worker makes to the store: all about the effect of its claim. *)
WorkerCall(g) ==
    \/ UNCHANGED vars
    \/ AcceptOffer(g) \/ MarkRunning(g) \/ RenewLease(g) \/ CommitDispatch(g, plan)
    \/ \E requested \in EffectStatuses : CheckpointEffect(g, plan, requested)
    \/ \E target \in {"abandoned", "release_pending"} : RecordUndispatchedRelease(g, plan, target)
    \/ \E kind \in ReceiptKinds, isAmbiguous \in BOOLEAN :
          AppendEvidence(g, plan, kind, isAmbiguous)
    \/ \E outcome \in Terminal, aware \in BOOLEAN :
          outcome \in {worker[g].outcome, "failed"} /\ FinalizeAttempt(g, outcome, aware)

WorkerStep(g) ==
    BeforeEffect(g) \/ DispatchDecision(g) \/ AfterDispatch(g) \/ MaintainLease(g) \/ Stop(g)

(* Every step of a worker makes one of these calls, or none. *)
LEMMA WorkerCalls ==
    ASSUME TypeOK, SpineTypeOK, NEW g \in grants, WorkerStep(g),
           At(g, "final") => worker[g].outcome # "none"
    PROVE  WorkerCall(g)
<1>s. EffectStatuses =
        {"prepared", "applied", "confirmed", "uncertain", "release_pending", "abandoned"}
  BY Zenon DEF EffectStatuses
<1>1. CASE BeforeEffect(g)
  <2>1. CASE finalize_effect_attempt(g)
    <3>1. worker[g].outcome \in Terminal
      BY Zenon, <2>1, PlainOutcomesAssumption DEF finalize_effect_attempt, FinalizeAttempt
    <3> QED
      BY Zenon, <2>1, <3>1 DEF finalize_effect_attempt, WorkerCall
  <2> QED
    BY Zenon, <1>1, <1>s, <2>1
       DEF BeforeEffect, Accept, FirstRenewal, ReadAccepted, Start, NoWindow, prepare_effect,
           ReadPrepared, abandon_prepared_effect, RefuseObservation, verify_observer_request,
           LoseVerify, WorkerCall
<1>2. CASE DispatchDecision(g)
  BY Zenon, <1>2, <1>s
     DEF DispatchDecision, DispatchRenewal, ReadGated, LoseAuthority, commit_effect_dispatch,
         LoseCommit, RefuseCommit, ReadRefused, ReleaseOnce, ReleaseRetrying, Release,
         PersistLost, PersistExit, Persist, WorkerCall
<1>3. CASE AfterDispatch(g)
  <2>1. /\ {"outcome", "observation", "reconciliation", "shadow_replay"} \subseteq ReceiptKinds
        /\ IsAmbiguous(g) \in BOOLEAN
    BY Zenon DEF ReceiptKinds, IsAmbiguous
  <2>2. CASE JoinOutcome(g) \/ JoinObservation(g) \/ JoinReconciliation(g) \/ JoinShadow(g)
    BY Zenon, <2>1, <2>2 DEF JoinOutcome, JoinObservation, JoinReconciliation, JoinShadow, WorkerCall
  <2>3. CASE RecordOutcome(g) \/ ConfirmObservation(g) \/ ConfirmReconciled(g) \/ Route(g)
    BY Zenon, <1>s, <2>3 DEF RecordOutcome, ConfirmObservation, ConfirmReconciled, Route, WorkerCall
  <2>4. CASE PublishJoined(g)
    <3>1. worker[g].outcome \in Terminal
      BY Zenon, <2>4, EffectOfType DEF PublishJoined, SpineTypeOK
    <3> QED
      BY Zenon, <2>4, <3>1 DEF PublishJoined, WorkerCall
  <2>5. CASE PublishRouted(g)
    BY Zenon, <2>5 DEF PublishRouted, Terminal, WorkerCall
  <2> QED
    BY Zenon, <1>3, <2>2, <2>3, <2>4, <2>5
       DEF AfterDispatch, invoke_connector, Answer, invoke_observer, ReconcileAmbiguous,
           invoke_shadow, Fail, WorkerCall
<1>4. CASE MaintainLease(g) \/ Stop(g)
  BY Zenon, <1>4 DEF MaintainLease, Stop, WorkerCall
<1> QED
  BY Zenon, <1>1, <1>2, <1>3, <1>4 DEF WorkerStep

(* The controller's own steps, and the operators'. *)
Surroundings == Scheduler \/ Operators \/ \E e \in EffectIds : AbandonLapsed(e)

(* The connector and the clock. *)
ChannelStep(e) ==
    \/ Deliver(e) \/ Lapse(e)
    \/ \E outcome \in {"succeeded", "failed", "ambiguous"} : Settle(e, outcome)

(* A step is one of the surroundings, of one worker or of the connector. *)
LEMMA SpineSteps ==
    ASSUME [SpineNext]_allVars
    PROVE  \/ Surroundings \/ \E g \in grants : WorkerStep(g)
           \/ \E e \in EffectIds : ChannelStep(e)
           \/ UNCHANGED allVars
BY Zenon DEF SpineNext, Surroundings, WorkerStep, ChannelStep

(* Of the controller, every step of the spine is a step of ControllerTruth   *)
(* or leaves it alone, so its invariants hold with this worker as its agent. *)
LEMMA TruthStep ==
    ASSUME TypeOK, SpineTypeOK, [SpineNext]_allVars,
           \A g \in grants : At(g, "final") => worker[g].outcome # "none"
    PROVE  [Next]_vars
<1>1. ASSUME NEW g \in grants, WorkerStep(g) PROVE [Next]_vars
  <2>1. plan \in EffectKeys
    BY Zenon, EffectsAssumption DEF SpineTypeOK
  <2>2. AgentCall(g) \/ UNCHANGED vars
    BY Zenon, <1>1, <2>1, WorkerCalls DEF WorkerCall, AgentCall
  <2> QED
    BY Zenon, <2>2 DEF Next
<1>2. ASSUME Surroundings PROVE Next
  <2>1. CASE Scheduler
    BY Zenon, <2>1 DEF Scheduler, Next, SchedulerStep
  <2>2. CASE Operators
    BY Zenon, <2>2 DEF Operators, Next, OperatorCall
  <2>3. CASE \E e \in EffectIds : AbandonLapsed(e)
    BY Zenon, <2>3 DEF AbandonLapsed, Next, OperatorCall
  <2> QED
    BY Zenon, <1>2, <2>1, <2>2, <2>3 DEF Surroundings
<1>3. ASSUME NEW e \in EffectIds, ChannelStep(e) PROVE UNCHANGED vars
  BY Zenon, <1>3 DEF ChannelStep, Deliver, Lapse, Settle
<1>4. CASE UNCHANGED allVars
  BY Zenon, <1>4 DEF allVars
<1> QED
  BY Zenon, <1>1, <1>2, <1>3, <1>4, SpineSteps

-----------------------------------------------------------------------------
(* Types. *)

(* A worker's own step writes its place and nothing outside the types.       *)
LEMMA PlaceType ==
    ASSUME SpineTypeOK, NEW g \in Grants, NEW place \in Places,
           NEW outcome \in Terminal \cup {"none"},
           worker' = [worker EXCEPT ![g] = Place(place, outcome)] \/
              worker' = [worker EXCEPT ![g].at = place]
    PROVE  worker' \in [Grants -> [at : Places, outcome : Terminal \cup {"none"}]]
BY DEF SpineTypeOK, Place

(* Moving on keeps the types ... *)
LEMMA GoesType ==
    ASSUME SpineTypeOK, NEW g \in Grants, NEW place \in Places,
           NEW outcome \in Terminal \cup {"none"}, Goes(g, place, outcome)
    PROVE  SpineTypeOK'
<1>1. worker' \in [Grants -> [at : Places, outcome : Terminal \cup {"none"}]]
  BY Zenon, PlaceType DEF Goes
<1> QED
  BY Zenon, <1>1 DEF SpineTypeOK, Goes, channelVars

(* ... also where the outcome stays what it was. *)
LEMMA KeepsType ==
    ASSUME SpineTypeOK, NEW g \in Grants, NEW place \in Places, Keeps(g, place)
    PROVE  SpineTypeOK'
<1>1. worker[g].outcome \in Terminal \cup {"none"}
  BY Zenon DEF SpineTypeOK
<1> QED
  BY Zenon, <1>1, GoesType DEF Keeps

(* Every step keeps the types. *)
LEMMA SpineTypeStep ==
    ASSUME TypeOK, SpineTypeOK, [SpineNext]_allVars PROVE SpineTypeOK'
<1>1. ASSUME UNCHANGED <<spineVars, channelVars>> PROVE SpineTypeOK'
  BY Zenon, <1>1 DEF SpineTypeOK, spineVars, channelVars
<1>p. {"accepted", "leased", "starting", "running", "prepared", "preflight",
       "abandoning", "verified", "gated", "committing", "refused", "releasing",
       "lost_free", "lost_held", "exiting", "exit_free", "exit_held", "publishing", "committed",
       "executing", "answered", "joined", "recorded", "observed", "confirming",
       "reconciling", "reconciled", "reconfirming", "confirmed", "replayed", "final",
       "routing", "routed", "violated", "stopped"} \subseteq Places
  BY DEF Places
<1>o. {"failed", "aborted", "succeeded", "none"} \subseteq Terminal \cup {"none"}
  BY Zenon DEF Terminal
<1>2. ASSUME NEW g \in grants, BeforeEffect(g) PROVE SpineTypeOK'
  <2> USE EffectOfType, <1>p, <1>o
  <2>1. ASSUME NEW place \in Places, NEW outcome \in Terminal \cup {"none"}, NEW held \in BOOLEAN,
               worker' = [worker EXCEPT ![g] = Place(place, outcome)],
               reservation' = Reserved(g, held), UNCHANGED <<vars, plan, lapsed, called, channelVars>>
        PROVE  SpineTypeOK'
    <3>1. worker' \in [Grants -> [at : Places, outcome : Terminal \cup {"none"}]]
      BY Zenon, <2>1, PlaceType
    <3>2. reservation' \in [EffectIds -> {"none", "held", "released", "used"}]
      BY Zenon, <2>1 DEF Reserved, SpineTypeOK
    <3> QED
      BY Zenon, <2>1, <3>1, <3>2 DEF SpineTypeOK, channelVars
  <2>2. CASE verify_observer_request(g)
    BY Zenon, <2>1, <2>2 DEF verify_observer_request
  <2>3. CASE LoseVerify(g)
    BY Zenon, <2>1, <2>3 DEF LoseVerify
  <2> QED
    BY Zenon, <1>2, <2>2, <2>3, GoesType, KeepsType
       DEF BeforeEffect, Accept, FirstRenewal, ReadAccepted, Start, NoWindow, prepare_effect,
           ReadPrepared, abandon_prepared_effect, finalize_effect_attempt, RefuseObservation
<1>3. ASSUME NEW g \in grants, DispatchDecision(g) PROVE SpineTypeOK'
  <2> USE EffectOfType, <1>p, <1>o
  <2>1. ASSUME NEW from, NEW done \in Places, NEW failed \in Places, Release(g, from, done, failed)
        PROVE  SpineTypeOK'
    <3>1. worker' \in [Grants -> [at : Places, outcome : Terminal \cup {"none"}]]
      BY <2>1, PlaceType DEF Release
    <3>2. reservation' \in [EffectIds -> {"none", "held", "released", "used"}]
      BY <2>1 DEF Release, SpineTypeOK
    <3> QED
      BY Zenon, <2>1, <3>1, <3>2 DEF Release, SpineTypeOK, channelVars
  <2> QED
    BY <1>3, <2>1, GoesType, KeepsType
       DEF DispatchDecision, DispatchRenewal, ReadGated, LoseAuthority, commit_effect_dispatch,
           LoseCommit, RefuseCommit, ReadRefused, ReleaseOnce, ReleaseRetrying,
           PersistLost, PersistExit
<1>4. ASSUME NEW g \in grants, AfterDispatch(g) PROVE SpineTypeOK'
  <2> USE EffectOfType, <1>p, <1>o
  <2>1. CASE invoke_connector(g)
    <3>1. worker' \in [Grants -> [at : Places, outcome : Terminal \cup {"none"}]]
      BY Zenon, <2>1, PlaceType DEF invoke_connector
    <3> QED
      BY Zenon, <2>1, <3>1 DEF invoke_connector, SpineTypeOK, channelVars
  <2>2. CASE invoke_observer(g)
    <3>1. worker' \in [Grants -> [at : Places, outcome : Terminal \cup {"none"}]]
      BY Zenon, <2>2, PlaceType DEF invoke_observer
    <3> QED
      BY Zenon, <2>2, <3>1 DEF invoke_observer, SpineTypeOK, channelVars
  <2>3. CASE ReconcileAmbiguous(g)
    <3>1. worker' \in [Grants -> [at : Places, outcome : Terminal \cup {"none"}]]
      BY Zenon, <2>3, PlaceType DEF ReconcileAmbiguous
    <3>2. verdict' = [verdict EXCEPT ![EffectOf(g)].outcome = "succeeded"] /\ UNCHANGED <<sends, applied>>
      BY Zenon, <2>3 DEF ReconcileAmbiguous, Channel!Resolve
    <3>3. verdict[EffectOf(g)] \in Channel!Verdicts
      BY <2>3 DEF ReconcileAmbiguous, Channel!Resolve, SpineTypeOK, Channel!NoVerdict
    <3>4. verdict' \in [EffectIds -> Channel!Verdicts \cup {Channel!NoVerdict}]
      BY Zenon, <3>2, <3>3 DEF SpineTypeOK, Channel!Verdicts, Channel!Outcomes
    <3> QED
      BY Zenon, <2>3, <3>1, <3>2, <3>4 DEF ReconcileAmbiguous, SpineTypeOK
  <2>4. CASE invoke_shadow(g)
    <3>1. (IF cancelled THEN "aborted" ELSE TerminalOf(g)) \in Terminal \cup {"none"}
      BY Zenon DEF TerminalOf
    <3> QED
      BY Zenon, <2>4, <3>1, GoesType DEF invoke_shadow
  <2>5. CASE JoinObservation(g) \/ PublishRouted(g)
    BY Zenon, <2>5, KeepsType DEF JoinObservation, PublishRouted
  <2> QED
    BY Zenon, <1>4, <2>1, <2>2, <2>3, <2>4, <2>5, KeepsType
       DEF AfterDispatch, Answer, JoinOutcome, RecordOutcome, ConfirmObservation,
           JoinReconciliation, ConfirmReconciled, JoinShadow, PublishJoined, Fail, Route
<1>5. ASSUME Scheduler \/ Operators PROVE SpineTypeOK'
  BY Zenon, <1>1, <1>5 DEF Scheduler, Operators
<1>6. ASSUME NEW g \in grants, MaintainLease(g) \/ Stop(g) PROVE SpineTypeOK'
  BY Zenon, <1>1, <1>6, <1>p, EffectOfType, KeepsType DEF MaintainLease, Stop
<1>7. ASSUME NEW e \in EffectIds, Deliver(e) PROVE SpineTypeOK'
  BY <1>7 DEF Deliver, Channel!Deliver, SpineTypeOK, spineVars
<1>8. ASSUME NEW e \in EffectIds, NEW outcome \in {"succeeded", "failed", "ambiguous"}, Settle(e, outcome)
      PROVE SpineTypeOK'
  <2>1. [outcome |-> outcome, dispatched |-> sends[e] > 0] \in Channel!Verdicts
    BY DEF Channel!Verdicts, Channel!Outcomes
  <2> QED
    BY Zenon, <1>8, <2>1 DEF Settle, Channel!Settle, SpineTypeOK, spineVars
<1>9. ASSUME NEW e \in EffectIds, Lapse(e) \/ AbandonLapsed(e) PROVE SpineTypeOK'
  BY Zenon, <1>1, <1>9 DEF Lapse, AbandonLapsed, SpineTypeOK, channelVars
<1> QED
  BY <1>1, <1>2, <1>3, <1>4, <1>5, <1>6, <1>7, <1>8, <1>9 DEF SpineNext, allVars

-----------------------------------------------------------------------------
(* What a worker knows at its places *)

Ended == Terminal \cup {"reconciliation_required"}

(* The places before the observer is asked. *)
Early == {"start", "accepted", "leased", "starting", "running", "prepared", "preflight"}

Knows(g) ==
    /\ worker[g].at \in Early \cup {"abandoning"} => reservation[EffectOf(g)] = "none"
    /\ worker[g].at \in Early => effect[EffectOf(g)] \notin {"release_pending", "abandoned"}
    /\ worker[g].at \in {"lost_free", "exit_free"} => reservation[EffectOf(g)] # "held"
    /\ worker[g].at = "committed" => EffectOf(g) \in dispatched
    /\ worker[g].at \in {"replayed", "final"} => worker[g].outcome # "none"
    /\ worker[g].outcome = "succeeded" => EffectOf(g) \in applied
    /\ worker[g].at = "routed" => effect[EffectOf(g)] \in OpenStatuses \/ status[g.attempt] \in Ended
    /\ worker[g].at # "violated"

(* Nothing exists under a fence that was not offered yet. *)
Ahead == \A e \in EffectIds : e[2] > fence[e[1]] => effect[e] = "none" /\ reservation[e] = "none"

Fresh == \A g \in Grants \ grants : worker[g] = Place("start", "none")

(* The connector is started after the commit, delivers what it was started   *)
(* for, and reports no success that did not happen.                          *)
ChannelKept ==
    /\ called \subseteq dispatched
    /\ \A e \in EffectIds :
          /\ sends[e] > 0 => e \in called
          /\ e[3] \in NonIdempotent => sends[e] <= 1
          /\ verdict[e].outcome = "succeeded" => e \in applied
          /\ effect[e] = "abandoned" /\ reservation[e] = "held" => e \in lapsed

(* What the invariant says beyond the controller's rows and the types. *)
SpineKept ==
    /\ \A g \in grants : Knows(g)
    /\ Ahead /\ Fresh /\ ChannelKept /\ SuccessWasApplied

(* What the controller and its operators leave to a worker. *)
SurroundingsKeep ==
    /\ UNCHANGED <<spineVars, channelVars, dispatched>>
    /\ grants \subseteq grants' /\ \A g \in grants' \ grants : g.fence > fence[g.attempt]
    /\ \A o \in Ordinals :
          /\ fence[o] <= fence'[o]
          /\ status[o] \in Ended => status'[o] \in Ended
          /\ status'[o] = "succeeded" /\ o \notin reconciled' =>
                status[o] = "succeeded" /\ o \notin reconciled /\ fence'[o] = fence[o]
    /\ \A e \in EffectIds :
          \/ effect'[e] = effect[e]
          \/ effect[e] \in {"prepared", "applied"} /\ effect'[e] = "uncertain"
          \/ effect[e] = "uncertain" /\ effect'[e] = "confirmed" /\ status'[e[1]] \in Ended
          \/ /\ effect[e] = "release_pending" /\ effect'[e] = "abandoned" /\ status'[e[1]] \in Ended
             /\ reservation[e] = "held" => e \in lapsed

(* Every step of the controller and of its operators keeps this. *)
LEMMA SurroundingsStep ==
    ASSUME RowInv, Surroundings PROVE SurroundingsKeep
<1>t. TypeOK
  BY Zenon DEF RowInv
<1>u. UNCHANGED <<spineVars, channelVars>>
  BY Zenon DEF Surroundings, Scheduler, Operators, AbandonLapsed
<1>f. \A o \in Ordinals : fence[o] <= fence[o]
  BY <1>t DEF TypeOK
<1> USE DEF attemptVars, effectVars, retryVars
(* A step that changes neither fences nor grants nor effects, and writes the *)
(* status of one attempt.                                                    *)
<1>1. ASSUME UNCHANGED <<grants, fence, effectVars, reconciled>>, NEW o \in Ordinals, NEW s,
             status' = [status EXCEPT ![o] = s],
             status[o] \in Ended => s \in Ended,
             s = "succeeded" => status[o] = "succeeded"
      PROVE  SurroundingsKeep
  BY Zenon, <1>1, <1>t, <1>u, <1>f DEF SurroundingsKeep, TypeOK
<1>2. ASSUME UNCHANGED <<grants, fence, effectVars, reconciled, status>> PROVE SurroundingsKeep
  BY Zenon, <1>2, <1>u, <1>f DEF SurroundingsKeep
<1>3. ASSUME NEW a \in Agents, NEW o \in Ordinals, ClaimNext(a, o) PROVE SurroundingsKeep
  <2>1. /\ fence \in [Ordinals -> Nat] /\ fence' = [fence EXCEPT ![o] = fence[o] + 1]
        /\ status \in [Ordinals -> AttemptStatuses] /\ status' = [status EXCEPT ![o] = "offered"]
        /\ status[o] = "queued"
        /\ grants' = grants \cup {[attempt |-> o, fence |-> fence[o] + 1, epoch |-> epoch, agent |-> a]}
        /\ UNCHANGED <<effect, dispatched, reconciled>>
    BY <1>3, <1>t, BoundsAssumption DEF ClaimNext, TypeOK
  <2>2. \A p \in Ordinals : fence[p] <= fence'[p] /\ (p # o => fence'[p] = fence[p])
    BY <2>1
  <2>3. \A g \in grants' \ grants : g.fence > fence[g.attempt]
    BY <2>1
  <2>4. \A p \in Ordinals : /\ status[p] \in Ended => status'[p] \in Ended
                            /\ status'[p] = "succeeded" => status[p] = "succeeded" /\ p # o
    BY Zenon, <2>1 DEF Ended, Terminal
  <2> QED
    BY Zenon, <2>1, <2>2, <2>3, <2>4, <1>u DEF SurroundingsKeep
<1>4. ASSUME NEW o \in Ordinals, Tick(o) PROVE SurroundingsKeep
  BY Zenon, <1>2, <1>4 DEF Tick
<1>5. ASSUME NEW o \in Ordinals, RequeueExpired(o) PROVE SurroundingsKeep
  <2>1. /\ UNCHANGED <<grants, dispatched, reconciled, fence>>
        /\ \E s \in {"queued", "aborted", "reconciliation_required"} : status' = [status EXCEPT ![o] = s]
        /\ status[o] \in Active
    BY Zenon, <1>5 DEF RequeueExpired, Terminate, Park, Requeue
  <2>2. \A p \in Ordinals : /\ status[p] \in Ended => status'[p] \in Ended
                            /\ status'[p] = "succeeded" => status[p] = "succeeded"
    BY Zenon, <2>1, <1>t DEF Ended, Terminal, Active, TypeOK
  <2>3. \A e \in EffectIds : effect'[e] = effect[e] \/
           (effect[e] \in {"prepared", "applied"} /\ effect'[e] = "uncertain")
    BY Zenon, <1>5 DEF RequeueExpired
  <2> QED
    BY Zenon, <2>1, <2>2, <2>3, <1>u, <1>f DEF SurroundingsKeep
<1>6. ASSUME RequestCancellation PROVE SurroundingsKeep
  <2>1. PICK o \in Ordinals : status' = [status EXCEPT ![o] = IF @ = "queued" THEN "aborted" ELSE @]
                              \/ status' = [status EXCEPT ![o] = IF @ \in Active THEN "cancelling" ELSE @]
    BY Zenon, <1>6 DEF RequestCancellation
  <2>2. \A p \in Ordinals : /\ status[p] \in Ended => status'[p] \in Ended
                            /\ status'[p] = "succeeded" => status[p] = "succeeded"
    BY Zenon, <2>1, <1>t DEF Ended, Terminal, Active, TypeOK
  <2>3. UNCHANGED <<grants, fence, effectVars, reconciled>>
    BY Zenon, <1>6 DEF RequestCancellation
  <2> QED
    BY Zenon, <2>2, <2>3, <1>u, <1>f DEF SurroundingsKeep
<1>7. ASSUME FencePipeline PROVE SurroundingsKeep
  BY Zenon, <1>2, <1>7 DEF FencePipeline
<1>8. ASSUME NEW o \in Ordinals, NEW outcome \in Terminal, FinalizeReconciled(o, outcome)
      PROVE  SurroundingsKeep
  <2>1. /\ UNCHANGED <<grants, fence, effectVars>> /\ reconciled' = reconciled \cup {o}
        /\ status' = [status EXCEPT ![o] = outcome]
    BY Zenon, <1>8 DEF FinalizeReconciled, Terminate
  <2>2. \A p \in Ordinals : /\ status[p] \in Ended => status'[p] \in Ended
                            /\ status'[p] = "succeeded" /\ p \notin reconciled' => status[p] = "succeeded"
    BY Zenon, <2>1, <1>t DEF Ended, TypeOK
  <2> QED
    BY Zenon, <2>1, <2>2, <1>u, <1>f DEF SurroundingsKeep
<1>9. ASSUME NEW o \in Ordinals, NEW maxAttempts \in Ordinals, ScheduleRetry(o, maxAttempts)
      PROVE  SurroundingsKeep
  <2>1. o + 1 \in Ordinals
    BY <1>9, BoundsAssumption DEF ScheduleRetry, Ordinals
  <2>2. status[o + 1] = "absent" /\ status' = [status EXCEPT ![o + 1] = "queued"]
        /\ UNCHANGED <<grants, fence, effectVars, reconciled>>
    BY Zenon, <1>9, <2>1 DEF ScheduleRetry, RetryEligible, HasRetry
  <2> QED
    BY Zenon, <1>1, <2>1, <2>2 DEF Ended, Terminal
<1>10. ASSUME NEW o \in Ordinals, NEW maxAttempts \in Ordinals, DeadLetter(o, maxAttempts)
       PROVE  SurroundingsKeep
  <2>1. UNCHANGED <<grants, fence, effectVars, reconciled>>
    BY Zenon, <1>10 DEF DeadLetter
  <2>2. UNCHANGED status \/ status' = [status EXCEPT ![o] = "failed"]
    BY Zenon, <1>10 DEF DeadLetter
  <2> QED
    BY Zenon, <1>1, <1>2, <2>1, <2>2 DEF Ended, Terminal
<1>11. ASSUME NEW b \in Backups, SealRecoveryPoint(b) PROVE SurroundingsKeep
  BY Zenon, <1>2, <1>11 DEF SealRecoveryPoint
<1>12. ASSUME NEW b \in Backups, ActivateRestoreEpoch(b) PROVE SurroundingsKeep
  <2>1. UNCHANGED <<grants, fence, dispatched, reconciled>>
    BY Zenon, <1>12 DEF ActivateRestoreEpoch
  <2>2. \A p \in Ordinals : /\ status[p] \in Ended => status'[p] \in Ended
                            /\ status'[p] = "succeeded" => status[p] = "succeeded"
    BY Zenon, <1>12 DEF ActivateRestoreEpoch, Ended
  <2>3. \A e \in EffectIds : effect'[e] = effect[e] \/
           (effect[e] \in {"prepared", "applied"} /\ effect'[e] = "uncertain")
    BY Zenon, <1>12 DEF ActivateRestoreEpoch
  <2> QED
    BY Zenon, <2>1, <2>2, <2>3, <1>u, <1>f DEF SurroundingsKeep
<1>13. ASSUME NEW e \in EffectIds, ConfirmUncertainEffect(e) PROVE SurroundingsKeep
  <2>1. /\ UNCHANGED <<grants, fence, dispatched, reconciled, status>>
        /\ effect' = [effect EXCEPT ![e] = "confirmed"] /\ effect[e] = "uncertain"
        /\ status'[e[1]] \in Ended
    BY Zenon, <1>13 DEF ConfirmUncertainEffect, truthButEffects, Reconcilable, Ended
  <2>2. \A d \in EffectIds : d # e => effect'[d] = effect[d]
    BY Zenon, <2>1, <1>t DEF TypeOK
  <2>3. effect'[e] = "confirmed"
    BY Zenon, <2>1, <1>t DEF TypeOK
  <2> QED
    BY Zenon, <2>1, <2>2, <2>3, <1>u, <1>f DEF SurroundingsKeep
<1>14. ASSUME NEW e \in EffectIds, AbandonLapsed(e) PROVE SurroundingsKeep
  <2>1. /\ UNCHANGED <<grants, fence, dispatched, reconciled, status>>
        /\ effect' = [effect EXCEPT ![e] = "abandoned"] /\ effect[e] = "release_pending"
        /\ status'[e[1]] \in Ended /\ (reservation[e] = "held" => e \in lapsed)
    BY Zenon, <1>14 DEF AbandonLapsed, AbandonExpiredReleasePending, truthButEffects, Reconcilable, Ended
  <2>2. \A d \in EffectIds : d # e => effect'[d] = effect[d]
    BY Zenon, <2>1, <1>t DEF TypeOK
  <2>3. effect'[e] = "abandoned"
    BY Zenon, <2>1, <1>t DEF TypeOK
  <2> QED
    BY Zenon, <2>1, <2>2, <2>3, <1>u, <1>f DEF SurroundingsKeep
<1>15. ASSUME NEW e \in EffectIds, NEW kind \in ReceiptKinds, NEW isAmbiguous,
              AppendEvidenceReconciling(e, kind, isAmbiguous)
       PROVE  SurroundingsKeep
  <2>1. UNCHANGED <<grants, fence, effect, dispatched, reconciled, status>>
    BY Zenon, <1>15 DEF AppendEvidenceReconciling, JoinReceipt, truthButEffects
  <2> QED
    BY Zenon, <2>1, <1>u, <1>f DEF SurroundingsKeep
<1>16. CASE Scheduler
  BY Zenon, <1>16, <1>3, <1>4, <1>5 DEF Scheduler
<1>17. CASE Operators
  BY Zenon, <1>17, <1>6, <1>7, <1>8, <1>9, <1>10, <1>11, <1>12, <1>13, <1>15 DEF Operators
<1> QED
  BY Zenon, <1>14, <1>16, <1>17 DEF Surroundings

(* What a worker's step leaves to the others: of the controller's rows it    *)
(* writes those of its own claim, and it publishes a success only of the     *)
(* claim that stands.                                                        *)
OthersKeep(g) ==
    /\ UNCHANGED <<grants, fence, reconciled, plan, lapsed, sends, applied>>
    /\ dispatched \subseteq dispatched' /\ called' \subseteq called \cup {EffectOf(g)}
    /\ \A h \in Grants : h # g => worker'[h] = worker[h]
    /\ \A e \in EffectIds : e # EffectOf(g) =>
          effect'[e] = effect[e] /\ reservation'[e] = reservation[e] /\ verdict'[e] = verdict[e]
    /\ \A o \in Ordinals :
          /\ status[o] \in Ended => status'[o] = status[o]
          /\ status'[o] = "succeeded" /\ status[o] # "succeeded" =>
                o = g.attempt /\ fence[o] = g.fence /\ worker[g].outcome = "succeeded"

(* The part of it that is about the controller follows from the calls. *)
LEMMA CallKeeps ==
    ASSUME RowInv, SpineTypeOK, NEW g \in grants, WorkerCall(g)
    PROVE  /\ UNCHANGED <<grants, fence, reconciled>> /\ dispatched \subseteq dispatched'
           /\ \A e \in EffectIds : e # EffectOf(g) => effect'[e] = effect[e]
           /\ \A o \in Ordinals :
                 /\ status[o] \in Ended => status'[o] = status[o]
                 /\ status'[o] = "succeeded" /\ status[o] # "succeeded" =>
                       o = g.attempt /\ fence[o] = g.fence /\ worker[g].outcome = "succeeded"
<1> DEFINE Kept ==
           /\ UNCHANGED <<grants, fence, reconciled>> /\ dispatched \subseteq dispatched'
           /\ \A e \in EffectIds : e # EffectOf(g) => effect'[e] = effect[e]
           /\ \A o \in Ordinals :
                 /\ status[o] \in Ended => status'[o] = status[o]
                 /\ status'[o] = "succeeded" /\ status[o] # "succeeded" =>
                       o = g.attempt /\ fence[o] = g.fence /\ worker[g].outcome = "succeeded"
<1>t. TypeOK
  BY Zenon DEF RowInv
<1>o. g.attempt \in Ordinals
  BY Zenon, <1>t DEF TypeOK, Grants
<1>e. \A s : effect' = [effect EXCEPT ![EffectOf(g)] = s] =>
         \A e \in EffectIds : e # EffectOf(g) => effect'[e] = effect[e]
  BY Zenon, <1>t DEF TypeOK
<1> USE DEF attemptVars, effectVars, retryVars
<1>1. CASE UNCHANGED <<grants, fence, reconciled, dispatched, effect, status>>
  BY Zenon, <1>1
<1>2. CASE AcceptOffer(g) \/ MarkRunning(g)
  <2>1. /\ UNCHANGED <<grants, fence, reconciled, dispatched, effect>>
        /\ status[g.attempt] \in Active
        /\ status' = [status EXCEPT ![g.attempt] = "accepted"] \/ status' = [status EXCEPT ![g.attempt] = "running"]
    BY Zenon, <1>2 DEF AcceptOffer, MarkRunning, Active
  <2>2. \A o \in Ordinals : /\ status[o] \in Ended => status'[o] = status[o]
                            /\ status'[o] = "succeeded" => status[o] = "succeeded"
    BY Zenon, <2>1, <1>t, <1>o DEF TypeOK, Active, Ended, Terminal
  <2> QED
    BY Zenon, <2>1, <2>2
<1>3. CASE RenewLease(g)
  BY Zenon, <1>1, <1>3 DEF RenewLease
<1>4. CASE CommitDispatch(g, plan)
  <2>1. UNCHANGED <<grants, fence, reconciled, effect, status>> /\ dispatched \subseteq dispatched'
    BY Zenon, <1>4 DEF CommitDispatch, truthButEffects
  <2> QED
    BY Zenon, <2>1
<1>5. ASSUME NEW requested \in EffectStatuses, CheckpointEffect(g, plan, requested) PROVE Kept
  <2>1. /\ UNCHANGED <<grants, fence, reconciled, dispatched, status>>
        /\ effect' = [effect EXCEPT ![EffectOf(g)] = requested]
    BY Zenon, <1>5 DEF CheckpointEffect, truthButEffects, EffectOf
  <2> QED
    BY Zenon, <2>1, <1>e
<1>6. ASSUME NEW target \in {"abandoned", "release_pending"}, RecordUndispatchedRelease(g, plan, target)
      PROVE Kept
  <2>1. /\ UNCHANGED <<grants, fence, reconciled, dispatched, status>>
        /\ effect' = [effect EXCEPT ![EffectOf(g)] = target]
    BY Zenon, <1>6 DEF RecordUndispatchedRelease, truthButEffects, EffectOf
  <2> QED
    BY Zenon, <2>1, <1>e
<1>7. ASSUME NEW kind \in ReceiptKinds, NEW isAmbiguous \in BOOLEAN,
             AppendEvidence(g, plan, kind, isAmbiguous)
      PROVE Kept
  <2>1. UNCHANGED <<grants, fence, reconciled, dispatched, effect, status>>
    BY Zenon, <1>7 DEF AppendEvidence, JoinReceipt, truthButEffects
  <2> QED
    BY Zenon, <1>1, <2>1
<1>8. ASSUME NEW outcome \in Terminal, NEW aware \in BOOLEAN,
             outcome \in {worker[g].outcome, "failed"}, FinalizeAttempt(g, outcome, aware)
      PROVE Kept
  <2>1. /\ UNCHANGED <<grants, fence, reconciled, dispatched, effect>>
        /\ status[g.attempt] \in Executing /\ fence[g.attempt] = g.fence
        /\ \/ status' = [status EXCEPT ![g.attempt] = "reconciliation_required"]
           \/ status' = [status EXCEPT ![g.attempt] = Published(g, outcome, aware)]
    BY Zenon, <1>8 DEF FinalizeAttempt, LiveAuthority, ExactAuthority, Park, Terminate
  <2>2. Published(g, outcome, aware) = "succeeded" => worker[g].outcome = "succeeded"
    BY Zenon, <1>8 DEF Published
  <2>3. \A o \in Ordinals : /\ status[o] \in Ended => status'[o] = status[o]
                            /\ o # g.attempt => status'[o] = status[o]
                            /\ status'[g.attempt] = "succeeded" => worker[g].outcome = "succeeded"
    BY Zenon, <2>1, <2>2, <1>t, <1>o DEF TypeOK, Executing, Ended, Terminal
  <2> QED
    BY Zenon, <2>1, <2>3
<1>9. CASE UNCHANGED vars
  BY Zenon, <1>1, <1>9 DEF vars
<1> QED
  BY Zenon, <1>2, <1>3, <1>4, <1>5, <1>6, <1>7, <1>8, <1>9 DEF WorkerCall

(* The part that is about the spine: a worker moves itself, and touches no   *)
(* reservation and no verdict but those of its claim.                        *)
LEMMA MoveKeeps ==
    ASSUME TypeOK, SpineTypeOK, NEW g \in grants, WorkerStep(g)
    PROVE  /\ UNCHANGED <<plan, lapsed, sends, applied>> /\ called' \subseteq called \cup {EffectOf(g)}
           /\ \A h \in Grants : h # g => worker'[h] = worker[h]
           /\ \A e \in EffectIds : e # EffectOf(g) =>
                 reservation'[e] = reservation[e] /\ verdict'[e] = verdict[e]
<1> DEFINE Kept ==
           /\ UNCHANGED <<plan, lapsed, sends, applied>> /\ called' \subseteq called \cup {EffectOf(g)}
           /\ \A h \in Grants : h # g => worker'[h] = worker[h]
           /\ \A e \in EffectIds : e # EffectOf(g) =>
                 reservation'[e] = reservation[e] /\ verdict'[e] = verdict[e]
<1> USE DEF channelVars
<1>w. /\ \A p : worker' = [worker EXCEPT ![g] = p] => \A h \in Grants : h # g => worker'[h] = worker[h]
      /\ \A p : worker' = [worker EXCEPT ![g].at = p] => \A h \in Grants : h # g => worker'[h] = worker[h]
      /\ worker' = worker => \A h \in Grants : h # g => worker'[h] = worker[h]
  BY Zenon DEF SpineTypeOK
<1>r. \A p : reservation' = [reservation EXCEPT ![EffectOf(g)] = p] =>
         \A e \in EffectIds : e # EffectOf(g) => reservation'[e] = reservation[e]
  BY Zenon DEF SpineTypeOK
<1>1. ASSUME NEW p, NEW o, Goes(g, p, o) PROVE Kept
  BY Zenon, <1>1, <1>w DEF Goes
<1>2. ASSUME NEW p, Keeps(g, p) PROVE Kept
  BY Zenon, <1>1, <1>2 DEF Keeps
<1>3. ASSUME verify_observer_request(g) \/ LoseVerify(g) PROVE Kept
  <2>1. \E held \in BOOLEAN : reservation' = Reserved(g, held)
    BY Zenon, <1>3 DEF verify_observer_request, LoseVerify
  <2>2. \A e \in EffectIds : e # EffectOf(g) => reservation'[e] = reservation[e]
    BY Zenon, <2>1, <1>r DEF Reserved
  <2> QED
    BY Zenon, <1>3, <1>w, <2>2 DEF verify_observer_request, LoseVerify
<1>4. ASSUME NEW from, NEW done, NEW failed, Release(g, from, done, failed) PROVE Kept
  <2>1. \A e \in EffectIds : e # EffectOf(g) => reservation'[e] = reservation[e]
    BY Zenon, <1>4, <1>r DEF Release
  <2> QED
    BY Zenon, <1>4, <1>w, <2>1 DEF Release
<1>5. CASE invoke_connector(g)
  BY Zenon, <1>5, <1>w DEF invoke_connector
<1>6. CASE invoke_observer(g)
  BY Zenon, <1>6, <1>w, <1>r DEF invoke_observer
<1>7. CASE ReconcileAmbiguous(g)
  <2>1. verdict' = [verdict EXCEPT ![EffectOf(g)].outcome = "succeeded"] /\ UNCHANGED <<sends, applied>>
    BY <1>7 DEF ReconcileAmbiguous, Channel!Resolve
  <2>2. \A e \in EffectIds : e # EffectOf(g) => verdict'[e] = verdict[e]
    BY Zenon, <2>1 DEF SpineTypeOK
  <2> QED
    BY Zenon, <1>7, <1>w, <2>1, <2>2 DEF ReconcileAmbiguous
<1>8. CASE MaintainLease(g)
  BY Zenon, <1>8, <1>w DEF MaintainLease, spineVars
<1>9. CASE BeforeEffect(g)
  BY Zenon, <1>1, <1>2, <1>3, <1>9
     DEF BeforeEffect, Accept, FirstRenewal, ReadAccepted, Start, NoWindow, prepare_effect, ReadPrepared,
         abandon_prepared_effect, finalize_effect_attempt, RefuseObservation
<1>10. CASE DispatchDecision(g)
  BY Zenon, <1>1, <1>2, <1>4, <1>10
     DEF DispatchDecision, DispatchRenewal, ReadGated, LoseAuthority, commit_effect_dispatch, LoseCommit,
         RefuseCommit, ReadRefused, ReleaseOnce, ReleaseRetrying, PersistLost, PersistExit
<1>11. CASE AfterDispatch(g)
  BY Zenon, <1>1, <1>2, <1>5, <1>6, <1>7, <1>11
     DEF AfterDispatch, Answer, JoinOutcome, RecordOutcome, JoinObservation, ConfirmObservation,
         JoinReconciliation, ConfirmReconciled, invoke_shadow, JoinShadow, PublishJoined, Fail, Route,
         PublishRouted
<1>12. CASE Stop(g)
  BY Zenon, <1>2, <1>12 DEF Stop
<1> QED
  BY Zenon, <1>8, <1>9, <1>10, <1>11, <1>12 DEF WorkerStep

(* Both parts together. *)
LEMMA WorkerKeeps ==
    ASSUME RowInv, SpineTypeOK, NEW g \in grants, WorkerStep(g), Knows(g)
    PROVE  OthersKeep(g)
<1>t. TypeOK
  BY Zenon DEF RowInv
<1>1. WorkerCall(g)
  BY Zenon, <1>t, WorkerCalls DEF Knows, At
<1> HIDE DEF WorkerCall, WorkerStep
<1> QED
  BY Zenon, <1>t, <1>1, CallKeeps, MoveKeeps DEF OthersKeep

(* Two claims are about two effects. *)
LEMMA ClaimsDiffer ==
    ASSUME RowInv, SpineTypeOK, NEW g \in grants, NEW h \in grants, h # g
    PROVE  EffectOf(h) # EffectOf(g)
<1>1. h.attempt # g.attempt \/ h.fence # g.fence
  BY Zenon DEF RowInv, GrantsFollowFences
<1> QED
  BY <1>1 DEF EffectOf

(* What a worker knows, others do not change: not another worker ... *)
LEMMA OthersKnow ==
    ASSUME RowInv, SpineTypeOK, NEW g \in grants, OthersKeep(g), NEW h \in grants, h # g, Knows(h)
    PROVE  Knows(h)'
<1>1. EffectOf(h) # EffectOf(g)
  BY Zenon, ClaimsDiffer
<1>2. EffectOf(h) \in EffectIds /\ h \in Grants /\ h.attempt \in Ordinals
  BY Zenon, EffectOfType DEF RowInv
<1>3. EffectOf(h)' = EffectOf(h)
  BY Zenon DEF OthersKeep, EffectOf
<1>4. /\ worker'[h] = worker[h] /\ reservation'[EffectOf(h)] = reservation[EffectOf(h)]
      /\ effect'[EffectOf(h)] = effect[EffectOf(h)] /\ applied' = applied
      /\ EffectOf(h) \in dispatched => EffectOf(h) \in dispatched'
      /\ status[h.attempt] \in Ended => status'[h.attempt] \in Ended
  BY Zenon, <1>1, <1>2 DEF OthersKeep
<1> QED
  BY Zenon, <1>3, <1>4 DEF Knows

(* ... and not the controller or an operator. *)
LEMMA SurroundingsKnow ==
    ASSUME RowInv, SpineTypeOK, SurroundingsKeep, NEW h \in grants, Knows(h)
    PROVE  Knows(h)'
<1>2. EffectOf(h) \in EffectIds /\ h \in Grants /\ h.attempt \in Ordinals /\ EffectOf(h)[1] = h.attempt
  BY Zenon, EffectOfType DEF RowInv
<1>3. EffectOf(h)' = EffectOf(h)
  BY Zenon DEF SurroundingsKeep, EffectOf, spineVars
<1>4. UNCHANGED <<worker, reservation, applied, dispatched>>
  BY Zenon DEF SurroundingsKeep, spineVars, channelVars
<1>5. /\ effect[EffectOf(h)] \notin {"release_pending", "abandoned"} =>
            effect'[EffectOf(h)] \notin {"release_pending", "abandoned"}
      /\ effect[EffectOf(h)] \in OpenStatuses =>
            effect'[EffectOf(h)] \in OpenStatuses \/ status'[h.attempt] \in Ended
      /\ status[h.attempt] \in Ended => status'[h.attempt] \in Ended
  BY <1>2 DEF SurroundingsKeep, OpenStatuses
<1> QED
  BY Zenon, <1>3, <1>4, <1>5 DEF Knows

-----------------------------------------------------------------------------
(* What a worker knows after a step of its own. *)

(* The places nothing has to be known for. *)
Plain == Places \ (Early \cup {"abandoning", "lost_free", "exit_free", "committed", "replayed", "final",
                               "routed", "violated"})

(* At a plain place only a success to be published is a claim. *)
LEMMA PlainKnows ==
    ASSUME NEW g \in grants, worker'[g].at \in Plain,
           worker'[g].outcome = "succeeded" => EffectOf(g)' \in applied'
    PROVE  Knows(g)'
BY Zenon DEF Knows, Plain

(* Where a worker moves on, it knows of its outcome what it knew before, or  *)
(* takes one that is no success.                                             *)
LEMMA GoesOutcome ==
    ASSUME SpineTypeOK, NEW g \in grants, g \in Grants, Knows(g), NEW p, NEW o, Goes(g, p, o),
           o \in {worker[g].outcome, "failed", "aborted"}
    PROVE  /\ worker'[g].at = p /\ worker'[g].outcome = o
           /\ worker'[g].outcome = "succeeded" => EffectOf(g)' \in applied'
           /\ EffectOf(g)' = EffectOf(g) /\ UNCHANGED <<reservation, applied>>
<1>1. UNCHANGED <<plan, reservation, applied>>
  BY Zenon DEF Goes, channelVars
<1>2. worker'[g] = Place(p, o)
  BY Zenon DEF Goes, SpineTypeOK
<1>3. worker'[g].at = p /\ worker'[g].outcome = o
  BY <1>2 DEF Place
<1>4. EffectOf(g)' = EffectOf(g)
  BY Zenon, <1>1 DEF EffectOf
<1> QED
  BY Zenon, <1>1, <1>3, <1>4 DEF Knows

(* Before the observer is asked nothing is reserved and nothing given up. *)
LEMMA EarlyKnows ==
    ASSUME SpineTypeOK, NEW g \in grants, g \in Grants, Knows(g), worker[g].at \in Early,
           NEW p \in Early, Goes(g, p, worker[g].outcome),
           effect'[EffectOf(g)] \in {effect[EffectOf(g)], "prepared"}
    PROVE  Knows(g)'
<1>1. /\ worker'[g].at = p
      /\ worker'[g].outcome = "succeeded" => EffectOf(g)' \in applied'
      /\ EffectOf(g)' = EffectOf(g) /\ UNCHANGED reservation
  BY Zenon, GoesOutcome
<1> QED
  BY Zenon, <1>1 DEF Knows, Early

(* So it is when the worker turns back there. *)
LEMMA AbandoningKnows ==
    ASSUME SpineTypeOK, NEW g \in grants, g \in Grants, Knows(g), worker[g].at \in Early,
           NEW o \in {"failed", "aborted"}, Goes(g, "abandoning", o)
    PROVE  Knows(g)'
<1>1. /\ worker'[g].at = "abandoning"
      /\ worker'[g].outcome = "succeeded" => EffectOf(g)' \in applied'
      /\ EffectOf(g)' = EffectOf(g) /\ UNCHANGED reservation
  BY Zenon, GoesOutcome
<1> QED
  BY Zenon, <1>1 DEF Knows, Early

(* BeforeEffect keeps what the worker knows. *)
LEMMA BeforeEffectKnows ==
    ASSUME TypeOK, SpineTypeOK, NEW g \in grants, Knows(g), BeforeEffect(g)
    PROVE  Knows(g)'
<1>g. g \in Grants /\ EffectOf(g) \in EffectIds
  BY Zenon, EffectOfType
<1> USE DEF attemptVars, effectVars
<1>p. ASSUME NEW p \in Plain, NEW o \in {worker[g].outcome, "failed", "aborted"}, Goes(g, p, o)
      PROVE  Knows(g)'
  BY Zenon, <1>p, <1>g, GoesOutcome, PlainKnows
<1>e. ASSUME NEW p \in Early, Keeps(g, p), worker[g].at \in Early,
             effect'[EffectOf(g)] \in {effect[EffectOf(g)], "prepared"}
      PROVE  Knows(g)'
  BY Zenon, <1>e, <1>g, EarlyKnows DEF Keeps
<1>pl. {"publishing", "stopped", "exiting", "verified"} \subseteq Plain
  BY DEF Plain, Places, Early
<1>1. CASE Accept(g) \/ FirstRenewal(g) \/ Start(g)
  <2>1. effect' = effect
    BY Zenon, <1>1 DEF Accept, FirstRenewal, Start, AcceptOffer, RenewLease, MarkRunning
  <2>2. \E p \in Early : Keeps(g, p) /\ worker[g].at \in Early
    BY Zenon, <1>1 DEF Accept, FirstRenewal, Start, Early, At
  <2> QED
    BY Zenon, <2>1, <2>2, <1>e
<1>2. CASE ReadAccepted(g)
  <2>1. worker[g].at \in Early /\ effect' = effect
    BY Zenon, <1>2 DEF ReadAccepted, vars, At, Early
  <2>2. CASE Keeps(g, "starting")
    BY Zenon, <2>1, <2>2, <1>e DEF Early
  <2> QED
    BY Zenon, <1>2, <2>2, <1>p, <1>pl DEF ReadAccepted
<1>3. CASE NoWindow(g)
  BY Zenon, <1>3, <1>p, <1>pl DEF NoWindow
<1>4. CASE prepare_effect(g)
  <2>1. effect' = [effect EXCEPT ![EffectOf(g)] = "prepared"]
    BY Zenon, <1>4 DEF prepare_effect, CheckpointEffect, EffectOf
  <2>2. effect'[EffectOf(g)] = "prepared"
    BY Zenon, <2>1, <1>g DEF TypeOK
  <2> QED
    BY Zenon, <1>4, <2>2, <1>e DEF prepare_effect, Early, At
<1>5. CASE ReadPrepared(g)
  <2>1. worker[g].at \in Early /\ effect' = effect
    BY Zenon, <1>5 DEF ReadPrepared, vars, At, Early
  <2>2. CASE Keeps(g, "preflight")
    BY Zenon, <2>1, <2>2, <1>e DEF Early
  <2> QED
    BY Zenon, <1>5, <2>1, <2>2, <1>g, AbandoningKnows DEF ReadPrepared
<1>6. CASE abandon_prepared_effect(g)
  BY Zenon, <1>6, <1>p, <1>pl DEF abandon_prepared_effect, Keeps
<1>7. CASE finalize_effect_attempt(g)
  BY Zenon, <1>7, <1>p, <1>pl DEF finalize_effect_attempt, Keeps
<1>8. CASE RefuseObservation(g)
  BY Zenon, <1>8, <1>g, AbandoningKnows DEF RefuseObservation, At, Early
<1>9. CASE verify_observer_request(g) \/ LoseVerify(g)
  <2>1. worker' = [worker EXCEPT ![g] = Place("verified", "none")]
        \/ worker' = [worker EXCEPT ![g] = Place("exiting", "failed")]
    BY Zenon, <1>9 DEF verify_observer_request, LoseVerify
  <2>2. worker'[g] = Place("verified", "none") \/ worker'[g] = Place("exiting", "failed")
    BY Zenon, <2>1, <1>g DEF SpineTypeOK
  <2>3. worker'[g].at \in {"verified", "exiting"} /\ worker'[g].outcome # "succeeded"
    BY <2>2 DEF Place
  <2> QED
    BY Zenon, <2>3, <1>pl, PlainKnows
<1> QED
  BY Zenon, <1>1, <1>2, <1>3, <1>4, <1>5, <1>6, <1>7, <1>8, <1>9 DEF BeforeEffect

(* DispatchDecision keeps it: a release that succeeded left nothing held. *)
LEMMA DispatchDecisionKnows ==
    ASSUME TypeOK, SpineTypeOK, NEW g \in grants, Knows(g), DispatchDecision(g)
    PROVE  Knows(g)'
<1>g. g \in Grants /\ EffectOf(g) \in EffectIds
  BY Zenon, EffectOfType
<1>p. ASSUME NEW p \in Plain, NEW o \in {worker[g].outcome, "failed", "aborted"}, Goes(g, p, o)
      PROVE  Knows(g)'
  BY Zenon, <1>p, <1>g, GoesOutcome, PlainKnows
<1>pl. {"gated", "exiting", "committing", "releasing", "refused", "lost_held", "exit_held", "stopped",
        "publishing"} \subseteq Plain
  BY DEF Plain, Places, Early
<1>1. CASE DispatchRenewal(g) \/ ReadGated(g) \/ LoseAuthority(g) \/ LoseCommit(g) \/ RefuseCommit(g)
           \/ ReadRefused(g)
  <2>1. \E p \in {"gated", "exiting", "committing", "releasing", "refused"},
           o \in {worker[g].outcome, "failed", "aborted"} : Goes(g, p, o)
    BY Zenon, <1>1
       DEF DispatchRenewal, ReadGated, LoseAuthority, LoseCommit, RefuseCommit, ReadRefused, Keeps
  <2> QED
    BY Zenon, <2>1, <1>p, <1>pl
<1>2. CASE commit_effect_dispatch(g)
  <2>1. EffectOf(g) \in dispatched'
    BY Zenon, <1>2 DEF commit_effect_dispatch, CommitDispatch, EffectOf
  <2>2. /\ worker'[g].at = "committed" /\ EffectOf(g)' = EffectOf(g)
        /\ worker'[g].outcome = "succeeded" => EffectOf(g)' \in applied'
    BY Zenon, <1>2, <1>g, GoesOutcome DEF commit_effect_dispatch, Keeps
  <2> QED
    BY Zenon, <2>1, <2>2 DEF Knows, Early
<1>3. ASSUME NEW from, NEW done \in {"lost_free", "exit_free"}, NEW failed \in {"lost_held", "exit_held"},
             Release(g, from, done, failed)
      PROVE  Knows(g)'
  <2>f. ASSUME reservation' = [reservation EXCEPT ![EffectOf(g)] = IF @ = "held" THEN "released" ELSE @]
        PROVE  reservation'[EffectOf(g)] # "held"
    BY <2>f, <1>g DEF SpineTypeOK
  <2>1. UNCHANGED <<plan, applied>>
    BY Zenon, <1>3 DEF Release, channelVars
  <2>2. EffectOf(g)' = EffectOf(g)
    BY Zenon, <2>1 DEF EffectOf
  <2>3. ASSUME NEW p, worker' = [worker EXCEPT ![g].at = p]
        PROVE  worker'[g].at = p /\ worker'[g].outcome = worker[g].outcome
    BY <2>3, <1>g DEF SpineTypeOK
  <2>4. \/ worker'[g].at = failed /\ worker'[g].outcome = worker[g].outcome
        \/ /\ worker'[g].at = done /\ worker'[g].outcome = worker[g].outcome
           /\ reservation'[EffectOf(g)] # "held"
    BY Zenon, <1>3, <2>3, <2>f DEF Release
  <2>5. worker'[g].outcome = "succeeded" => EffectOf(g)' \in applied'
    BY Zenon, <2>1, <2>2, <2>4 DEF Knows
  <2>6. CASE worker'[g].at = failed
    BY Zenon, <2>5, <2>6, <1>pl, PlainKnows
  <2>7. CASE worker'[g].at = done /\ reservation'[EffectOf(g)] # "held"
    BY Zenon, <2>2, <2>5, <2>7 DEF Knows, Early
  <2> QED
    BY Zenon, <2>4, <2>6, <2>7
<1>4. CASE ReleaseOnce(g) \/ ReleaseRetrying(g)
  BY Zenon, <1>3, <1>4 DEF ReleaseOnce, ReleaseRetrying
<1>5. CASE PersistExit(g) /\ At(g, "exit_held")
  <2>1. Persist(g, "release_pending") /\ Goes(g, "routed", worker[g].outcome)
    BY <1>5 DEF PersistExit, At, Keeps
  <2>2. effect' = [effect EXCEPT ![EffectOf(g)] = "release_pending"]
    BY Zenon, <2>1 DEF Persist, CheckpointEffect, RecordUndispatchedRelease, EffectOf
  <2>3. effect'[EffectOf(g)] \in OpenStatuses
    BY Zenon, <2>2, <1>g DEF TypeOK, OpenStatuses
  <2>4. /\ worker'[g].at = "routed" /\ EffectOf(g)' = EffectOf(g)
        /\ worker'[g].outcome = "succeeded" => EffectOf(g)' \in applied'
    BY Zenon, <2>1, <1>g, GoesOutcome
  <2> QED
    BY Zenon, <2>3, <2>4 DEF Knows, Early
<1>6. CASE PersistLost(g) \/ (PersistExit(g) /\ At(g, "exit_free"))
  <2>1. \E p \in {"stopped", "publishing"} : Goes(g, p, worker[g].outcome)
    BY <1>6 DEF PersistLost, PersistExit, At, Keeps
  <2> QED
    BY Zenon, <2>1, <1>p, <1>pl
<1> QED
  <2>1. PersistExit(g) => At(g, "exit_free") \/ At(g, "exit_held")
    BY Zenon DEF PersistExit
  <2> QED
    BY Zenon, <2>1, <1>1, <1>2, <1>4, <1>5, <1>6 DEF DispatchDecision

(* AfterDispatch keeps it: a success is what the connector has reported, a   *)
(* routed effect is open, and the store parks the attempt of an open effect. *)
LEMMA AfterDispatchKnows ==
    ASSUME TypeOK, SpineTypeOK, ChannelKept, NEW g \in grants, Knows(g), AfterDispatch(g)
    PROVE  Knows(g)'
<1>g. g \in Grants /\ EffectOf(g) \in EffectIds /\ g.attempt \in Ordinals
      /\ EffectOf(g)[1] = g.attempt /\ EffectOf(g)[2] = g.fence
  BY Zenon, EffectOfType
<1>p. ASSUME NEW p \in Plain, NEW o \in {worker[g].outcome, "failed", "aborted"}, Goes(g, p, o)
      PROVE  Knows(g)'
  BY Zenon, <1>p, <1>g, GoesOutcome, PlainKnows
<1>pl. {"executing", "answered", "joined", "recorded", "observed", "confirming", "reconciling",
        "reconciled", "reconfirming", "confirmed", "routing", "stopped"} \subseteq Plain
  BY DEF Plain, Places, Early
<1>1. CASE Answer(g) \/ JoinOutcome(g) \/ RecordOutcome(g) \/ JoinObservation(g) \/ ConfirmObservation(g)
           \/ JoinReconciliation(g) \/ ConfirmReconciled(g) \/ PublishJoined(g) \/ Fail(g)
  <2>1. \E p \in {"answered", "joined", "recorded", "confirming", "reconciling", "reconfirming",
                  "confirmed", "routing", "stopped"} : Goes(g, p, worker[g].outcome)
    BY Zenon, <1>1
       DEF Answer, JoinOutcome, RecordOutcome, JoinObservation, ConfirmObservation, JoinReconciliation,
           ConfirmReconciled, PublishJoined, Fail, Keeps
  <2> QED
    BY Zenon, <2>1, <1>p, <1>pl
<1>2. CASE invoke_connector(g) \/ invoke_observer(g) \/ ReconcileAmbiguous(g)
  <2>1. /\ \E p \in {"executing", "observed", "reconciled"} : worker' = [worker EXCEPT ![g].at = p]
        /\ UNCHANGED <<plan, applied>>
    BY Zenon, <1>2
       DEF invoke_connector, invoke_observer, ReconcileAmbiguous, Channel!Resolve, channelVars
  <2>2. PICK p \in {"executing", "observed", "reconciled"} : worker' = [worker EXCEPT ![g].at = p]
    BY Zenon, <2>1
  <2>3. worker'[g].at = p /\ worker'[g].outcome = worker[g].outcome
    BY <2>2, <1>g DEF SpineTypeOK
  <2>4. worker'[g].outcome = "succeeded" => EffectOf(g)' \in applied'
    BY Zenon, <2>1, <2>3 DEF Knows, EffectOf
  <2> QED
    BY Zenon, <2>3, <2>4, <1>pl, PlainKnows
<1>3. CASE invoke_shadow(g)
  <2>1. PICK o \in {"aborted", "succeeded", "failed"} :
           Goes(g, "replayed", o) /\ (o = "succeeded" => verdict[EffectOf(g)].outcome = "succeeded")
    BY Zenon, <1>3 DEF invoke_shadow, TerminalOf
  <2>2. o = "succeeded" => EffectOf(g) \in applied
    BY Zenon, <2>1, <1>g DEF ChannelKept
  <2>3. UNCHANGED <<plan, applied>> /\ worker'[g] = Place("replayed", o)
    BY Zenon, <2>1, <1>g DEF Goes, channelVars, SpineTypeOK
  <2>4. worker'[g].at = "replayed" /\ worker'[g].outcome = o
    BY <2>3 DEF Place
  <2>5. EffectOf(g)' = EffectOf(g)
    BY Zenon, <2>3 DEF EffectOf
  <2>6. worker'[g].outcome = "succeeded" => EffectOf(g)' \in applied'
    BY Zenon, <2>2, <2>3, <2>4, <2>5
  <2>7. worker'[g].outcome # "none"
    BY Zenon, <2>4
  <2> QED
    BY Zenon, <2>4, <2>6, <2>7 DEF Knows, Early
<1>4. CASE JoinShadow(g)
  <2>0. Goes(g, "final", worker[g].outcome)
    BY Zenon, <1>4 DEF JoinShadow, Keeps
  <2>1. /\ worker'[g].at = "final" /\ worker'[g].outcome = worker[g].outcome
        /\ worker'[g].outcome = "succeeded" => EffectOf(g)' \in applied'
    BY ZenonT(60), <2>0, <1>g, GoesOutcome
  <2>2. worker[g].outcome # "none"
    BY Zenon, <1>4 DEF JoinShadow, At, Knows
  <2> QED
    BY Zenon, <2>1, <2>2 DEF Knows, Early
<1>5. CASE Route(g)
  <2>1. \/ effect' = [effect EXCEPT ![EffectOf(g)] = "uncertain"]
        \/ effect[EffectOf(g)] = "uncertain" /\ effect' = effect
    BY Zenon, <1>5 DEF Route, CheckpointEffect, EffectOf, vars, effectVars
  <2>2. effect'[EffectOf(g)] \in OpenStatuses
    BY Zenon, <2>1, <1>g DEF TypeOK, OpenStatuses
  <2>3. /\ worker'[g].at = "routed" /\ EffectOf(g)' = EffectOf(g)
        /\ worker'[g].outcome = "succeeded" => EffectOf(g)' \in applied'
    BY Zenon, <1>5, <1>g, GoesOutcome DEF Route, Keeps
  <2> QED
    BY Zenon, <2>2, <2>3 DEF Knows, Early
<1>6. CASE PublishRouted(g)
  <2>1. At(g, "routed") /\ FinalizeAttempt(g, "failed", FALSE)
    BY Zenon, <1>6 DEF PublishRouted
  <2>2. status[g.attempt] \in Executing
    BY Zenon, <2>1 DEF FinalizeAttempt
  <2>3. effect[EffectOf(g)] \in OpenStatuses
    BY Zenon, <2>1, <2>2 DEF Knows, At, Executing, Ended, Terminal
  <2>4. \E e \in RowsAt(g.attempt, g.fence) : effect[e] \in OpenStatuses
    BY Zenon, <2>3, <1>g DEF RowsAt, OpenStatuses
  <2>5. status' = [status EXCEPT ![g.attempt] = "reconciliation_required"]
    BY Zenon, <2>1, <2>4 DEF FinalizeAttempt, Park
  <2>6. status'[g.attempt] \notin Terminal
    BY Zenon, <2>5, <1>g DEF TypeOK, Terminal
  <2>7. Goes(g, "stopped", worker[g].outcome)
    BY Zenon, <1>6, <2>6 DEF PublishRouted, Keeps
  <2> QED
    BY Zenon, <2>7, <1>p, <1>pl
<1> QED
  BY Zenon, <1>1, <1>2, <1>3, <1>4, <1>5, <1>6 DEF AfterDispatch

(* Every step of a worker keeps what it knows. *)
LEMMA WorkerKnows ==
    ASSUME TypeOK, SpineTypeOK, ChannelKept, NEW g \in grants, Knows(g), WorkerStep(g)
    PROVE  Knows(g)'
<1>1. CASE MaintainLease(g)
  <2>1. UNCHANGED <<worker, plan, reservation, applied, effect, dispatched, status>>
    BY Zenon, <1>1 DEF MaintainLease, RenewLease, spineVars, channelVars, effectVars
  <2>2. EffectOf(g)' = EffectOf(g)
    BY Zenon, <2>1 DEF EffectOf
  <2> QED
    BY Zenon, <2>1, <2>2 DEF Knows
<1>2. CASE Stop(g)
  <2>1. Goes(g, "stopped", worker[g].outcome) /\ g \in Grants
    BY Zenon, <1>2, EffectOfType DEF Stop, Keeps
  <2>2. "stopped" \in Plain
    BY DEF Plain, Places, Early
  <2> QED
    BY Zenon, <2>1, <2>2, GoesOutcome, PlainKnows
<1> QED
  BY Zenon, <1>1, <1>2, BeforeEffectKnows, DispatchDecisionKnows, AfterDispatchKnows DEF WorkerStep

-----------------------------------------------------------------------------
(* The connector, the observer and the published outcomes. *)

(* What a worker's step does to the connector and to its own effect: it      *)
(* starts the connector only for a committed dispatch, resolves a verdict    *)
(* only when the effect is there, and abandons no effect that is reserved.   *)
LEMMA WorkerChannel ==
    ASSUME TypeOK, SpineTypeOK, ChannelKept, NEW g \in grants, Knows(g), WorkerStep(g)
    PROVE  /\ called \subseteq called'
           /\ EffectOf(g) \in called' => EffectOf(g) \in called \/ EffectOf(g) \in dispatched
           /\ verdict'[EffectOf(g)].outcome = "succeeded" => EffectOf(g) \in applied
           /\ effect'[EffectOf(g)] = "abandoned" /\ reservation'[EffectOf(g)] = "held" =>
                 EffectOf(g) \in lapsed
<1> DEFINE E == EffectOf(g)
<1> DEFINE Quiet == called' = called /\ verdict' = verdict
<1> DEFINE Over == effect'[E] = "abandoned" /\ reservation'[E] = "held" => E \in lapsed
<1> DEFINE Kept == /\ called \subseteq called'
                   /\ E \in called' => E \in called \/ E \in dispatched
                   /\ verdict'[E].outcome = "succeeded" => E \in applied
<1>g. g \in Grants /\ E \in EffectIds
  BY Zenon, EffectOfType
<1>q. Quiet => Kept
  BY Zenon, <1>g DEF ChannelKept
<1>o. UNCHANGED <<effect, reservation>> => Over
  BY Zenon, <1>g DEF ChannelKept
<1>c. ASSUME NEW requested, CheckpointEffect(g, plan, requested) PROVE effect'[E] = requested
  <2>1. effect' = [effect EXCEPT ![E] = requested]
    BY Zenon, <1>c DEF CheckpointEffect, EffectOf
  <2> QED
    BY Zenon, <2>1, <1>g DEF TypeOK
<1>d. ASSUME NEW requested, Persist(g, requested) PROVE effect'[E] = requested
  <2>1. CASE RecordUndispatchedRelease(g, plan, requested)
    <3>1. effect' = [effect EXCEPT ![E] = requested]
      BY Zenon, <2>1 DEF RecordUndispatchedRelease, EffectOf
    <3> QED
      BY Zenon, <3>1, <1>g DEF TypeOK
  <2> QED
    BY Zenon, <1>d, <1>c, <2>1 DEF Persist
<1>k. ASSUME NEW p, NEW o, Goes(g, p, o) PROVE Quiet /\ UNCHANGED reservation
  BY Zenon, <1>k DEF Goes, channelVars
<1>v. ASSUME UNCHANGED vars PROVE UNCHANGED effect
  BY Zenon, <1>v DEF vars, effectVars
<1> HIDE DEF E, Quiet
<1>1. CASE BeforeEffect(g)
  <2>1. CASE verify_observer_request(g) \/ LoseVerify(g)
    <3>1. Quiet /\ effect' = effect /\ At(g, "preflight")
      BY Zenon, <2>1, <1>v DEF verify_observer_request, LoseVerify, channelVars, Quiet
    <3>2. effect'[E] # "abandoned"
      BY Zenon, <3>1 DEF Knows, Early, At, E
    <3> QED
      BY Zenon, <1>q, <3>1, <3>2 DEF E
  <2>2. CASE abandon_prepared_effect(g)
    <3>1. Quiet /\ UNCHANGED reservation
      BY Zenon, <2>2, <1>k DEF abandon_prepared_effect, Keeps
    <3>2. reservation[E] = "none"
      BY Zenon, <2>2 DEF abandon_prepared_effect, Knows, At, E
    <3> QED
      BY Zenon, <1>q, <3>1, <3>2 DEF E
  <2>3. CASE prepare_effect(g)
    <3>1. Quiet /\ effect'[E] = "prepared"
      BY Zenon, <2>3, <1>k, <1>c DEF prepare_effect, Keeps
    <3> QED
      BY Zenon, <1>q, <3>1 DEF E
  <2>4. CASE \/ Accept(g) \/ FirstRenewal(g) \/ ReadAccepted(g) \/ Start(g) \/ NoWindow(g)
             \/ ReadPrepared(g) \/ finalize_effect_attempt(g) \/ RefuseObservation(g)
    <3>1. Quiet /\ UNCHANGED reservation
      BY Zenon, <2>4, <1>k
         DEF Accept, FirstRenewal, ReadAccepted, Start, NoWindow, ReadPrepared,
             finalize_effect_attempt, RefuseObservation, Keeps
    <3>2. UNCHANGED effect
      BY Zenon, <2>4, <1>v
         DEF Accept, FirstRenewal, ReadAccepted, Start, NoWindow, ReadPrepared,
             finalize_effect_attempt, RefuseObservation, AcceptOffer, RenewLease, MarkRunning,
             FinalizeAttempt, effectVars
    <3> QED
      BY Zenon, <1>q, <1>o, <3>1, <3>2 DEF E
  <2> QED
    BY Zenon, <1>1, <2>1, <2>2, <2>3, <2>4 DEF BeforeEffect
<1>2. CASE DispatchDecision(g)
  <2>1. CASE \/ DispatchRenewal(g) \/ ReadGated(g) \/ LoseAuthority(g) \/ commit_effect_dispatch(g)
             \/ LoseCommit(g) \/ RefuseCommit(g) \/ ReadRefused(g)
    <3>1. Quiet /\ UNCHANGED reservation
      BY Zenon, <2>1, <1>k
         DEF DispatchRenewal, ReadGated, LoseAuthority, commit_effect_dispatch, LoseCommit, RefuseCommit,
             ReadRefused, Keeps
    <3>2. UNCHANGED effect
      BY Zenon, <2>1, <1>v
         DEF DispatchRenewal, ReadGated, LoseAuthority, commit_effect_dispatch, LoseCommit, RefuseCommit,
             ReadRefused, RenewLease, CommitDispatch, effectVars
    <3> QED
      BY Zenon, <1>q, <1>o, <3>1, <3>2 DEF E
  <2>2. ASSUME NEW from, NEW done, NEW failed, Release(g, from, done, failed) PROVE Kept /\ Over
    <3>1. /\ Quiet /\ effect' = effect
          /\ \/ reservation' = reservation
             \/ reservation' = [reservation EXCEPT ![E] = IF @ = "held" THEN "released" ELSE @]
      BY Zenon, <2>2, <1>v DEF Release, channelVars, Quiet, E
    <3>2. reservation'[E] = "held" => reservation[E] = "held"
      BY <3>1, <1>g DEF SpineTypeOK
    <3> QED
      BY Zenon, <1>q, <1>g, <3>1, <3>2 DEF ChannelKept
  <2>3. CASE PersistLost(g) \/ PersistExit(g)
    <3>1. Quiet /\ UNCHANGED reservation
      BY Zenon, <2>3, <1>k DEF PersistLost, PersistExit, Keeps
    <3>2. effect'[E] = "release_pending" \/ reservation[E] # "held"
      BY Zenon, <2>3, <1>d DEF PersistLost, PersistExit, Knows, At, E
    <3> QED
      BY Zenon, <1>q, <3>1, <3>2 DEF E
  <2> QED
    BY Zenon, <1>2, <2>1, <2>2, <2>3 DEF DispatchDecision, ReleaseOnce, ReleaseRetrying, E
<1>3. CASE AfterDispatch(g)
  <2>1. CASE \/ Answer(g) \/ JoinOutcome(g) \/ JoinObservation(g) \/ JoinReconciliation(g)
             \/ invoke_shadow(g) \/ JoinShadow(g) \/ PublishJoined(g) \/ Fail(g) \/ PublishRouted(g)
    <3>1. Quiet /\ UNCHANGED reservation
      BY Zenon, <2>1, <1>k
         DEF Answer, JoinOutcome, JoinObservation, JoinReconciliation, invoke_shadow, JoinShadow,
             PublishJoined, Fail, PublishRouted, Keeps
    <3>2. UNCHANGED effect
      BY Zenon, <2>1, <1>v
         DEF Answer, JoinOutcome, JoinObservation, JoinReconciliation, invoke_shadow, JoinShadow,
             PublishJoined, Fail, PublishRouted, AppendEvidence, JoinReceipt, FinalizeAttempt, effectVars
    <3> QED
      BY Zenon, <1>q, <1>o, <3>1, <3>2 DEF E
  <2>2. CASE RecordOutcome(g) \/ ConfirmObservation(g) \/ ConfirmReconciled(g)
    <3>1. Quiet /\ effect'[E] \in {"uncertain", "applied", "confirmed"}
      BY Zenon, <2>2, <1>k, <1>c DEF RecordOutcome, ConfirmObservation, ConfirmReconciled, Keeps
    <3> QED
      BY Zenon, <1>q, <3>1 DEF E
  <2>3. CASE Route(g)
    <3>1. Quiet /\ UNCHANGED reservation
      BY Zenon, <2>3, <1>k DEF Route, Keeps
    <3>2. effect'[E] = "uncertain" \/ UNCHANGED effect
      BY Zenon, <2>3, <1>c, <1>v DEF Route
    <3> QED
      BY Zenon, <1>q, <1>o, <3>1, <3>2 DEF E
  <2>4. CASE invoke_connector(g)
    <3>1. /\ called' = called \cup {E} /\ verdict' = verdict /\ UNCHANGED reservation /\ effect' = effect
          /\ At(g, "committed")
      BY Zenon, <2>4, <1>v DEF invoke_connector, channelVars, E
    <3>2. E \in dispatched
      BY Zenon, <3>1 DEF Knows, At, E
    <3> QED
      BY Zenon, <1>o, <1>g, <3>1, <3>2 DEF ChannelKept, E
  <2>5. CASE invoke_observer(g)
    <3>1. Quiet /\ reservation' = [reservation EXCEPT ![E] = "used"]
      BY Zenon, <2>5 DEF invoke_observer, channelVars, Quiet, E
    <3>2. reservation'[E] = "used"
      BY Zenon, <3>1, <1>g DEF SpineTypeOK
    <3> QED
      BY Zenon, <1>q, <3>1, <3>2 DEF E
  <2>6. CASE ReconcileAmbiguous(g)
    <3>1. E \in applied /\ called' = called /\ effect' = effect /\ UNCHANGED reservation
      BY Zenon, <2>6, <1>v DEF ReconcileAmbiguous, Channel!Resolve, E
    <3> QED
      BY Zenon, <1>o, <3>1 DEF E
  <2> QED
    BY Zenon, <1>3, <2>1, <2>2, <2>3, <2>4, <2>5, <2>6 DEF AfterDispatch
<1>4. CASE MaintainLease(g) \/ Stop(g)
  <2>1. Quiet /\ UNCHANGED <<effect, reservation>>
    BY Zenon, <1>4, <1>v, <1>k
       DEF MaintainLease, Stop, Keeps, RenewLease, effectVars, spineVars, channelVars, Quiet
  <2> QED
    BY Zenon, <1>q, <1>o, <2>1 DEF E
<1> QED
  BY Zenon, <1>1, <1>2, <1>3, <1>4 DEF WorkerStep

-----------------------------------------------------------------------------
(* The induction. *)

SpineInv == RowInv /\ EffectInv /\ SpineTypeOK /\ SpineKept

(* A worker's step keeps it. *)
LEMMA WorkerInduction ==
    ASSUME RowInv, SpineTypeOK, SpineKept, NEW g \in grants, WorkerStep(g)
    PROVE  SpineKept'
<1>t. TypeOK /\ Knows(g) /\ ChannelKept
  BY Zenon DEF RowInv, SpineKept
<1>o. OthersKeep(g)
  BY Zenon, <1>t, WorkerKeeps
<1>c. /\ called \subseteq called'
      /\ EffectOf(g) \in called' => EffectOf(g) \in called \/ EffectOf(g) \in dispatched
      /\ verdict'[EffectOf(g)].outcome = "succeeded" => EffectOf(g) \in applied
      /\ effect'[EffectOf(g)] = "abandoned" /\ reservation'[EffectOf(g)] = "held" =>
            EffectOf(g) \in lapsed
  BY Zenon, <1>t, WorkerChannel
<1>k. Knows(g)'
  BY Zenon, <1>t, WorkerKnows
<1>g. /\ g \in Grants /\ g.attempt \in Ordinals
      /\ EffectOf(g)[1] = g.attempt /\ EffectOf(g)[2] = g.fence
  BY Zenon, <1>t, EffectOfType
<1> HIDE DEF WorkerStep
<1>1. \A h \in grants' : Knows(h)'
  BY Zenon, <1>o, <1>k, OthersKnow DEF OthersKeep, SpineKept
<1>2. Ahead'
  <2>1. g.fence <= fence[g.attempt] /\ g.fence \in Nat /\ fence[g.attempt] \in Nat
    BY <1>t, <1>g DEF RowInv, GrantsFollowFences, TypeOK, Grants, Fences
  <2>2. ~(EffectOf(g)[2] > fence[EffectOf(g)[1]])
    BY <2>1, <1>g
  <2> QED
    BY Zenon, <2>2, <1>o DEF Ahead, OthersKeep, SpineKept
<1>3. Fresh'
  BY Zenon, <1>o DEF Fresh, OthersKeep, SpineKept
<1>4. ChannelKept'
  <2>1. called' \subseteq dispatched'
    BY Zenon, <1>o, <1>c, <1>t DEF ChannelKept, OthersKeep
  <2>2. ASSUME NEW e \in EffectIds
        PROVE  /\ sends'[e] > 0 => e \in called'
               /\ e[3] \in NonIdempotent => sends'[e] <= 1
               /\ verdict'[e].outcome = "succeeded" => e \in applied'
               /\ effect'[e] = "abandoned" /\ reservation'[e] = "held" => e \in lapsed'
    <3>1. sends' = sends /\ applied' = applied /\ lapsed' = lapsed
      BY Zenon, <1>o DEF OthersKeep
    <3>2. e # EffectOf(g) => /\ verdict'[e] = verdict[e] /\ effect'[e] = effect[e]
                             /\ reservation'[e] = reservation[e]
      BY Zenon, <1>o DEF OthersKeep
    <3> QED
      BY Zenon, <1>c, <1>t, <3>1, <3>2 DEF ChannelKept
  <2> QED
    BY Zenon, <2>1, <2>2 DEF ChannelKept
<1>5. SuccessWasApplied'
  <2> SUFFICES ASSUME NEW o \in Ordinals, status'[o] = "succeeded", o \notin reconciled'
               PROVE  <<o, fence'[o], plan'>> \in applied'
    BY Zenon DEF SuccessWasApplied
  <2>1. UNCHANGED <<fence, plan, applied, reconciled>>
    BY Zenon, <1>o DEF OthersKeep
  <2>2. CASE status[o] = "succeeded"
    BY Zenon, <2>1, <2>2 DEF SuccessWasApplied, SpineKept
  <2>3. CASE status[o] # "succeeded"
    <3>1. o = g.attempt /\ fence[o] = g.fence /\ worker[g].outcome = "succeeded"
      BY Zenon, <1>o, <2>3 DEF OthersKeep
    <3> QED
      BY Zenon, <3>1, <2>1, <1>t DEF Knows, EffectOf
  <2> QED
    BY Zenon, <2>2, <2>3
<1> QED
  BY Zenon, <1>1, <1>2, <1>3, <1>4, <1>5 DEF SpineKept

(* So does a step of the controller or of an operator; the worker of a new   *)
(* claim starts with nothing under its fence.                                *)
LEMMA SurroundingsInduction ==
    ASSUME RowInv, RowInv', SpineTypeOK, SpineKept, Surroundings
    PROVE  SpineKept'
<1>t. TypeOK /\ TypeOK'
  BY Zenon DEF RowInv
<1>s. SurroundingsKeep
  BY Zenon, SurroundingsStep
<1>u. UNCHANGED <<plan, worker, reservation, lapsed, called, verdict, sends, applied, dispatched>>
  BY Zenon, <1>s DEF SurroundingsKeep, spineVars, channelVars
<1> HIDE DEF Surroundings
<1>1. ASSUME NEW h \in grants' PROVE Knows(h)'
  <2>1. CASE h \in grants
    BY Zenon, <1>s, <2>1, SurroundingsKnow DEF SpineKept
  <2>2. CASE h \notin grants
    <3>1. h \in Grants /\ h.attempt \in Ordinals /\ h.fence \in Fences /\ plan \in EffectKeys
      BY Zenon, <1>t, EffectsAssumption DEF TypeOK, Grants, SpineTypeOK
    <3>2. EffectOf(h) \in EffectIds /\ EffectOf(h)[1] = h.attempt /\ EffectOf(h)[2] = h.fence
      BY Zenon, <3>1 DEF EffectOf, EffectIds
    <3>3. h.fence > fence[h.attempt]
      BY Zenon, <1>s, <2>2 DEF SurroundingsKeep
    <3>4. effect[EffectOf(h)] = "none" /\ reservation[EffectOf(h)] = "none"
      BY Zenon, <3>2, <3>3 DEF Ahead, SpineKept
    <3>5. effect'[EffectOf(h)] = "none"
      BY Zenon, <1>s, <3>2, <3>4 DEF SurroundingsKeep
    <3>6. worker'[h] = Place("start", "none")
      BY Zenon, <1>u, <2>2, <3>1 DEF Fresh, SpineKept
    <3>7. worker'[h].at = "start" /\ worker'[h].outcome = "none"
      BY <3>6 DEF Place
    <3>8. EffectOf(h)' = EffectOf(h)
      BY Zenon, <1>u DEF EffectOf
    <3> QED
      BY Zenon, <1>u, <3>4, <3>5, <3>7, <3>8 DEF Knows, Early
  <2> QED
    BY Zenon, <2>1, <2>2
<1>2. Ahead'
  <2> SUFFICES ASSUME NEW e \in EffectIds, e[2] > fence'[e[1]]
               PROVE  effect'[e] = "none" /\ reservation'[e] = "none"
    BY Zenon DEF Ahead
  <2>1. e[1] \in Ordinals /\ e[2] \in Fences
    BY Zenon, EffectIdParts
  <2>2. fence[e[1]] <= fence'[e[1]]
    BY Zenon, <1>s, <2>1 DEF SurroundingsKeep
  <2>3. fence[e[1]] \in Nat /\ fence'[e[1]] \in Nat /\ e[2] \in Nat
    BY <1>t, <2>1 DEF TypeOK, Fences
  <2>4. e[2] > fence[e[1]]
    BY <2>2, <2>3
  <2>5. effect[e] = "none" /\ reservation[e] = "none"
    BY Zenon, <2>4 DEF Ahead, SpineKept
  <2> QED
    BY Zenon, <1>s, <1>u, <2>5 DEF SurroundingsKeep
<1>3. Fresh'
  BY Zenon, <1>s, <1>u DEF Fresh, SurroundingsKeep, SpineKept
<1>4. ChannelKept'
  <2>1. \A e \in EffectIds : effect'[e] = "abandoned" /\ reservation[e] = "held" =>
           e \in lapsed
    BY Zenon, <1>s DEF SurroundingsKeep, ChannelKept, SpineKept
  <2> QED
    BY Zenon, <1>u, <2>1 DEF ChannelKept, SpineKept
<1>5. SuccessWasApplied'
  BY Zenon, <1>s, <1>u DEF SurroundingsKeep, SuccessWasApplied, SpineKept
<1> QED
  BY Zenon, <1>1, <1>2, <1>3, <1>4, <1>5 DEF SpineKept

(* And so does the connector, which delivers what it was started for and     *)
(* makes up no success.                                                      *)
LEMMA ChannelInduction ==
    ASSUME RowInv, SpineTypeOK, SpineKept, NEW e \in EffectIds, ChannelStep(e)
    PROVE  SpineKept'
<1>v. UNCHANGED <<vars, plan, worker, reservation, called>>
  BY Zenon DEF ChannelStep, Deliver, Lapse, Settle, spineVars
<1>u. UNCHANGED <<grants, fence, status, reconciled, effect, dispatched>>
  BY Zenon, <1>v DEF vars, attemptVars, retryVars, effectVars
<1>a. applied \subseteq applied'
  BY Zenon DEF ChannelStep, Deliver, Lapse, Settle, Channel!Deliver, Channel!Settle, channelVars
<1>l. lapsed \subseteq lapsed'
  BY Zenon DEF ChannelStep, Deliver, Lapse, Settle, spineVars
<1>1. ASSUME NEW g \in grants' PROVE Knows(g)'
  <2>1. EffectOf(g)' = EffectOf(g) /\ Knows(g)
    BY Zenon, <1>v, <1>u DEF EffectOf, SpineKept
  <2> QED
    BY Zenon, <2>1, <1>v, <1>u, <1>a DEF Knows
<1>2. Ahead' /\ Fresh'
  BY Zenon, <1>v, <1>u DEF Ahead, Fresh, SpineKept
<1>3. ASSUME NEW d \in EffectIds
      PROVE  /\ sends'[d] > 0 => d \in called'
             /\ d[3] \in NonIdempotent => sends'[d] <= 1
             /\ verdict'[d].outcome = "succeeded" => d \in applied'
             /\ effect'[d] = "abandoned" /\ reservation'[d] = "held" => d \in lapsed'
  <2>1. effect'[d] = "abandoned" /\ reservation'[d] = "held" => d \in lapsed'
    BY Zenon, <1>v, <1>u, <1>l DEF ChannelKept, SpineKept
  <2>2. CASE Deliver(e)
    <3>1. /\ e \in called /\ verdict' = verdict /\ sends' = [sends EXCEPT ![e] = @ + 1]
          /\ e \in {x \in EffectIds : x[3] \in NonIdempotent} => sends[e] = 0
      BY Zenon, <2>2 DEF Deliver, Channel!Deliver
    <3>2. sends'[d] = IF d = e THEN sends[d] + 1 ELSE sends[d]
      BY <3>1 DEF SpineTypeOK
    <3>3. d[3] \in NonIdempotent => sends'[d] <= 1
      <4>1. d[3] \in NonIdempotent => sends[d] <= 1
        BY Zenon DEF ChannelKept, SpineKept
      <4>2. d = e /\ d[3] \in NonIdempotent => sends[d] = 0
        BY Zenon, <3>1
      <4> QED
        BY <3>2, <4>1, <4>2
    <3>4. sends'[d] > 0 => d \in called'
      BY Zenon, <3>1, <3>2, <1>v DEF ChannelKept, SpineKept
    <3> QED
      BY Zenon, <2>1, <3>1, <3>3, <3>4, <1>a DEF ChannelKept, SpineKept
  <2>3. CASE Lapse(e)
    <3>1. UNCHANGED <<verdict, sends, applied>>
      BY Zenon, <2>3 DEF Lapse, channelVars
    <3> QED
      BY Zenon, <2>1, <3>1, <1>v DEF ChannelKept, SpineKept
  <2>4. ASSUME NEW outcome \in {"succeeded", "failed", "ambiguous"}, Settle(e, outcome)
        PROVE  /\ sends'[d] > 0 => d \in called'
               /\ d[3] \in NonIdempotent => sends'[d] <= 1
               /\ verdict'[d].outcome = "succeeded" => d \in applied'
    <3> DEFINE v == [outcome |-> outcome, dispatched |-> sends[e] > 0]
    <3>1. Channel!Settle(e, v)
      BY Zenon, <2>4 DEF Settle
    <3>2. v.outcome = outcome
      BY Zenon
    <3> HIDE DEF v
    <3>3. /\ UNCHANGED <<sends, applied>> /\ verdict' = [verdict EXCEPT ![e] = v]
          /\ outcome = "succeeded" => e \in applied
      BY Zenon, <3>1, <3>2 DEF Channel!Settle
    <3>4. verdict'[d] = IF d = e THEN v ELSE verdict[d]
      BY Zenon, <3>3 DEF SpineTypeOK
    <3> QED
      BY Zenon, <3>2, <3>3, <3>4, <1>v DEF ChannelKept, SpineKept
  <2> QED
    BY Zenon, <2>1, <2>2, <2>3, <2>4 DEF ChannelStep
<1>4. ChannelKept'
  BY Zenon, <1>3, <1>v, <1>u DEF ChannelKept, SpineKept
<1>5. SuccessWasApplied'
  BY Zenon, <1>v, <1>u, <1>a DEF SuccessWasApplied, SpineKept
<1> QED
  BY Zenon, <1>1, <1>2, <1>4, <1>5 DEF SpineKept

(* The invariant holds initially ... *)
LEMMA SpineBegins == SpineInit => SpineInv
<1> SUFFICES ASSUME SpineInit PROVE SpineInv
  BY Zenon
<1>1. Init /\ plan \in Runtime
  BY Zenon DEF SpineInit
<1>2. RowInv /\ EffectInv
  BY Zenon, <1>1, RowInit, EffectInit
<1>3. /\ verdict = [e \in EffectIds |-> Channel!NoVerdict] /\ sends = [e \in EffectIds |-> 0]
      /\ applied = {} /\ called = {} /\ lapsed = {} /\ dispatched = {} /\ grants = {}
      /\ worker = [g \in Grants |-> Place("start", "none")]
      /\ reservation = [e \in EffectIds |-> "none"] /\ effect = [e \in EffectIds |-> "none"]
      /\ status = [o \in Ordinals |-> IF o = 1 THEN "queued" ELSE "absent"]
  BY Zenon DEF SpineInit, Init, Channel!Init
<1>4. SpineTypeOK
  <2>1. Place("start", "none") \in [at : Places, outcome : Terminal \cup {"none"}]
    BY DEF Place, Places
  <2>2. 0 \in Nat
    BY SMT
  <2> QED
    BY Zenon, <1>1, <1>3, <2>1, <2>2 DEF SpineTypeOK
<1>5. ChannelKept
  <2>1. \A e \in EffectIds : sends[e] = 0 /\ verdict[e].outcome # "succeeded"
    BY <1>3 DEF Channel!NoVerdict
  <2>2. \A e \in EffectIds : ~(sends[e] > 0) /\ sends[e] <= 1
    BY <2>1
  <2> QED
    BY Zenon, <1>3, <2>1, <2>2 DEF ChannelKept
<1>6. SuccessWasApplied
  BY Zenon, <1>3 DEF SuccessWasApplied
<1>7. Ahead /\ Fresh /\ \A g \in grants : Knows(g)
  BY Zenon, <1>3 DEF Ahead, Fresh
<1> QED
  BY Zenon, <1>2, <1>4, <1>5, <1>6, <1>7 DEF SpineInv, SpineKept

(* ... and is kept by every step, which is one of the controller's. *)
LEMMA SpineStep == SpineInv /\ [SpineNext]_allVars => SpineInv' /\ [Next]_vars
<1> SUFFICES ASSUME SpineInv, [SpineNext]_allVars PROVE SpineInv' /\ [Next]_vars
  BY Zenon
<1>t. TypeOK /\ RowInv /\ EffectInv /\ SpineTypeOK /\ SpineKept
  BY Zenon DEF SpineInv, RowInv
<1>1. [Next]_vars
  <2>1. \A g \in grants : At(g, "final") => worker[g].outcome # "none"
    BY Zenon, <1>t DEF SpineKept, Knows, At
  <2> QED
    BY Zenon, <1>t, <2>1, TruthStep
<1>2. RowInv' /\ EffectInv'
  BY Zenon, <1>t, <1>1, RowStep, EffectStep
<1>3. SpineTypeOK'
  BY Zenon, <1>t, SpineTypeStep
<1>4. SpineKept'
  <2>1. CASE UNCHANGED allVars
    BY Zenon, <2>1, <1>t
       DEF allVars, vars, attemptVars, retryVars, effectVars, spineVars, channelVars, SpineKept, Knows,
           Ahead, Fresh, ChannelKept, SuccessWasApplied, EffectOf
  <2> QED
    BY Zenon, <1>t, <1>2, <2>1, SpineSteps, WorkerInduction, SurroundingsInduction, ChannelInduction
<1> QED
  BY Zenon, <1>1, <1>2, <1>3, <1>4 DEF SpineInv

(* So it always holds. *)
LEMMA SpineInvariant == SpineSpec => []SpineInv
<1>1. SpineInv /\ [SpineNext]_allVars => SpineInv'
  BY Zenon, SpineStep
<1> QED
  BY <1>1, SpineBegins, PTL DEF SpineSpec

-----------------------------------------------------------------------------
(* The theorems. *)

(* The worker of execution-spine is one of the agents ControllerTruth allows *)
(* for: with it, the controller behaves as its own specification says, and   *)
(* everything proved of that specification holds here too.                   *)
THEOREM WorkerIsAnAgent == SpineSpec => Spec
<1>1. SpineInit => Init
  BY Zenon DEF SpineInit
<1>2. SpineInv /\ [SpineNext]_allVars => [Next]_vars
  BY Zenon, SpineStep
<1> QED
  BY <1>1, <1>2, SpineInvariant, PTL DEF SpineSpec, Spec

(* The worker, its reservations and the channel keep to their types. *)
THEOREM SpineTyped == SpineSpec => []SpineTypeOK
<1>1. SpineInv => SpineTypeOK
  BY Zenon DEF SpineInv
<1> QED
  BY <1>1, SpineInvariant, PTL

(* A non-idempotent effect leaves at most once, whatever attempts, fences,   *)
(* lost answers and restores there are.  The connector keeps this for one    *)
(* attempt and fence (ChannelKept); that no second attempt or fence gets to  *)
(* commit a dispatch is the controller's (DispatchAtMostOnce), and nothing   *)
(* leaves that was not committed.                                            *)
THEOREM EffectLeavesOnce == SpineSpec => []LeavesAtMostOnce
<1>1. SpineInv /\ DispatchedAtMostOnce => LeavesAtMostOnce
  <2> SUFFICES ASSUME SpineInv, DispatchedAtMostOnce, NEW d \in EffectIds, NEW e \in EffectIds,
                      d[3] \in NonIdempotent, d[3] = e[3], sends[d] > 0, sends[e] > 0
               PROVE  d = e /\ sends[d] = 1
    BY Zenon DEF LeavesAtMostOnce
  <2>1. d \in dispatched /\ e \in dispatched /\ sends[d] <= 1
    BY Zenon DEF SpineInv, SpineKept, ChannelKept
  <2>2. d = e
    BY Zenon, <2>1 DEF DispatchedAtMostOnce
  <2>3. sends[d] \in Nat
    BY Zenon DEF SpineInv, SpineTypeOK
  <2>4. sends[d] = 1
    BY <2>1, <2>3
  <2> QED
    BY <2>2, <2>4
<1> QED
  BY <1>1, SpineInvariant, WorkerIsAnAgent, DispatchAtMostOnce, PTL

(* An abandoned effect is over: the connector was not started for it and     *)
(* will not be, and the observer holds no reservation for it that is live.   *)
THEOREM AbandonedStaysOver == SpineSpec => []AbandonedIsOver
<1>1. SpineInv => AbandonedIsOver
  <2> SUFFICES ASSUME SpineInv, NEW e \in EffectIds, effect[e] = "abandoned"
               PROVE  /\ e \notin called /\ sends[e] = 0
                      /\ reservation[e] = "held" => e \in lapsed
    BY Zenon DEF AbandonedIsOver
  <2>1. e \notin dispatched
    BY Zenon DEF SpineInv, EffectInv, AbandonedNeverLeft
  <2>2. e \notin called /\ ~(sends[e] > 0) /\ (reservation[e] = "held" => e \in lapsed)
    BY Zenon, <2>1 DEF SpineInv, SpineKept, ChannelKept
  <2>3. sends[e] \in Nat
    BY Zenon DEF SpineInv, SpineTypeOK
  <2>4. sends[e] = 0
    BY <2>2, <2>3
  <2> QED
    BY Zenon, <2>2, <2>4
<1> QED
  BY <1>1, SpineInvariant, PTL

(* A success that the worker published was applied at the destination. *)
THEOREM PublishedWasApplied == SpineSpec => []SuccessWasApplied
<1>1. SpineInv => SuccessWasApplied
  BY Zenon DEF SpineInv, SpineKept
<1> QED
  BY <1>1, SpineInvariant, PTL

(* EffectInvariantViolated is unreachable: the store parks every attempt     *)
(* whose effect the worker has routed to reconciliation.                     *)
THEOREM ViolationUnreachable == SpineSpec => []NeverViolated
<1>1. SpineInv => NeverViolated
  BY Zenon DEF SpineInv, SpineKept, Knows, NeverViolated
<1> QED
  BY <1>1, SpineInvariant, PTL

=============================================================================
