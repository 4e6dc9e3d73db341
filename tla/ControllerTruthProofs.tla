------------------------- MODULE ControllerTruthProofs -------------------------
(***************************************************************************)
(* Safety of ControllerTruth for any number of agents, attempts, fences,   *)
(* epochs, backups and effect keys.                                        *)
(***************************************************************************)
EXTENDS ControllerTruth, TLAPS

(* Every call writes values its columns admit (the whole store interface).   *)
LEMMA TypeStep == TypeOK /\ [Next]_vars => TypeOK'
<1> SUFFICES ASSUME TypeOK, [Next]_vars PROVE TypeOK'
  BY Zenon
<1> USE BoundsAssumption, AgentsAssumption
<1> USE DEF TypeOK, NoLease, restoreVars, attemptVars, effectVars, retryVars, truthButEffects
<1>1. ASSUME NEW a \in Agents, NEW o \in Ordinals, ClaimNext(a, o) PROVE TypeOK'
  <2>1. /\ fence' \in [Ordinals -> 0 .. MaxFence]
        /\ lease' \in [Ordinals -> NoLease .. LeaseTicks]
        /\ status' \in [Ordinals -> AttemptStatuses]
    BY <1>1 DEF ClaimNext, AttemptStatuses, Active
  <2>2. [attempt |-> o, fence |-> fence[o] + 1, epoch |-> epoch, agent |-> a] \in Grants
    BY <1>1 DEF ClaimNext, Grants, Fences
  <2> QED
    BY Zenon, <1>1, <2>1, <2>2 DEF ClaimNext, NodeStatuses, BuildStatuses
<1>2. ASSUME NEW g \in grants, AcceptOffer(g) PROVE TypeOK'
  BY Zenon, <1>2 DEF AcceptOffer, Grants, AttemptStatuses, Active, NodeStatuses
<1>3. ASSUME NEW g \in grants, MarkRunning(g) PROVE TypeOK'
  BY Zenon, <1>3 DEF MarkRunning, Grants, AttemptStatuses, Active, NodeStatuses
<1>4. ASSUME NEW g \in grants, RenewLease(g) PROVE TypeOK'
  BY <1>4 DEF RenewLease, Grants
<1>5. ASSUME NEW o \in Ordinals, Tick(o) PROVE TypeOK'
  BY <1>5 DEF Tick
<1>6. ASSUME NEW g \in grants, NEW phase \in {"finalizing", "cancelling"},
             RecoverFinalization(g, phase)
      PROVE TypeOK'
  BY <1>6 DEF RecoverFinalization, Grants, AttemptStatuses, Active
<1>7. ASSUME NEW o \in Ordinals, RequeueExpired(o) PROVE TypeOK'
  BY <1>7 DEF RequeueExpired, Terminate, Park, Requeue, AttemptStatuses, Active, Terminal,
              NodeStatuses, BuildStatuses, EffectStatuses
<1>8. ASSUME RequestCancellation PROVE TypeOK'
  BY <1>8 DEF RequestCancellation, AttemptStatuses, Active, Terminal, NodeStatuses, BuildStatuses
<1>9. ASSUME FencePipeline PROVE TypeOK'
  BY Zenon, <1>9 DEF FencePipeline
<1>10. ASSUME NEW g \in grants, NEW verified \in BOOLEAN, CompleteCancellation(g, verified)
       PROVE TypeOK'
  BY <1>10 DEF CompleteCancellation, Terminate, Park, Grants, AttemptStatuses, Terminal,
               NodeStatuses, BuildStatuses
<1>11. ASSUME NEW g \in grants, NEW outcome \in Terminal, NEW aware \in BOOLEAN,
              FinalizeAttempt(g, outcome, aware)
       PROVE TypeOK'
  BY <1>11 DEF FinalizeAttempt, Published, Terminate, Park, Grants, AttemptStatuses, Terminal,
               NodeStatuses, BuildStatuses
<1>12. ASSUME NEW g \in grants, NEW k \in EffectKeys, NEW requested \in EffectStatuses,
              CheckpointEffect(g, k, requested)
       PROVE TypeOK'
  BY Zenon, <1>12 DEF CheckpointEffect, Grants
<1>13. ASSUME NEW g \in grants, NEW k \in EffectKeys, CommitDispatch(g, k) PROVE TypeOK'
  BY <1>13 DEF CommitDispatch, Grants, EffectIds
<1>14. ASSUME NEW g \in grants, NEW k \in EffectKeys, NEW kind \in ReceiptKinds,
              NEW isAmbiguous \in BOOLEAN, AppendEvidence(g, k, kind, isAmbiguous)
       PROVE TypeOK'
  BY <1>14 DEF AppendEvidence, JoinReceipt, Grants, EffectIds
<1>15. ASSUME NEW e \in EffectIds, NEW kind \in ReceiptKinds,
              NEW isAmbiguous \in BOOLEAN, AppendEvidenceReconciling(e, kind, isAmbiguous)
       PROVE TypeOK'
  BY <1>15 DEF AppendEvidenceReconciling, JoinReceipt
<1>16. ASSUME NEW e \in EffectIds, ConfirmUncertainEffect(e) PROVE TypeOK'
  BY Zenon, <1>16 DEF ConfirmUncertainEffect, EffectStatuses
<1>17. ASSUME NEW g \in grants, NEW k \in EffectKeys,
              NEW target \in {"abandoned", "release_pending"},
              RecordUndispatchedRelease(g, k, target)
       PROVE TypeOK'
  BY Zenon, <1>17 DEF RecordUndispatchedRelease, EffectStatuses, Grants
<1>18. ASSUME NEW e \in EffectIds, AbandonExpiredReleasePending(e) PROVE TypeOK'
  BY Zenon, <1>18 DEF AbandonExpiredReleasePending, EffectStatuses
<1>19. ASSUME NEW o \in Ordinals, NEW outcome \in Terminal, FinalizeReconciled(o, outcome)
       PROVE TypeOK'
  BY Zenon, <1>19 DEF FinalizeReconciled, Terminate, AttemptStatuses, Terminal, NodeStatuses,
               BuildStatuses
<1>20. ASSUME NEW o \in Ordinals, NEW maxAttempts \in Ordinals, ScheduleRetry(o, maxAttempts)
       PROVE TypeOK'
  BY Zenon, <1>20 DEF ScheduleRetry, AttemptStatuses, NodeStatuses, BuildStatuses
<1>21. ASSUME NEW o \in Ordinals, NEW maxAttempts \in Ordinals, DeadLetter(o, maxAttempts)
       PROVE TypeOK'
  BY <1>21 DEF DeadLetter, AttemptStatuses, Terminal, NodeStatuses, BuildStatuses
<1>22. ASSUME NEW b \in Backups, SealRecoveryPoint(b) PROVE TypeOK'
  BY <1>22 DEF SealRecoveryPoint
<1>23. ASSUME NEW b \in Backups, ActivateRestoreEpoch(b) PROVE TypeOK'
  BY <1>23 DEF ActivateRestoreEpoch, AttemptStatuses, NodeStatuses, BuildStatuses, EffectStatuses
<1>24. CASE UNCHANGED vars
  BY Zenon, <1>24 DEF vars
<1> HIDE DEF TypeOK
<1> QED
  BY <1>1, <1>2, <1>3, <1>4, <1>5, <1>6, <1>7, <1>8, <1>9, <1>10, <1>11, <1>12, <1>13, <1>14,
     <1>15, <1>16, <1>17, <1>18, <1>19, <1>20, <1>21, <1>22, <1>23, <1>24
     DEF Next, SchedulerStep, OperatorCall, AgentCall

-----------------------------------------------------------------------------
(* The rows of build, node and attempts, the leases and the fences. *)

RowInv ==
    /\ TypeOK
    /\ Lineage
    /\ HierarchyAgrees
    /\ LeaseMatchesStatus
    /\ GrantsFollowFences
    /\ AbsentIsFresh

rowVars == <<epoch, build, node, attemptVars, grants>>

(* An attempt that is queued or leased is the latest: schedule_retry_as only *)
(* gives children to failed or parked attempts.                              *)
LEMMA OpenIsLatest ==
    ASSUME TypeOK, Lineage, NEW o \in Ordinals, status[o] \in Active \cup {"queued"}
    PROVE  IsLatest(o)
BY Zenon, BoundsAssumption DEF TypeOK, Lineage, IsLatest, Ordinals, Active

(* So is an attempt without a child. *)
LEMMA ChildlessIsLatest ==
    ASSUME TypeOK, Lineage, NEW o \in Ordinals, status[o] # "absent", ~HasRetry(o)
    PROVE  IsLatest(o)
<1> SUFFICES ASSUME NEW p \in Ordinals, p > o, status[p] # "absent" PROVE FALSE
  BY Zenon DEF IsLatest
<1>1. o + 1 \in Ordinals
  BY BoundsAssumption DEF Ordinals
<1>2. status[o + 1] # "absent"
  <2>1. CASE p = o + 1
    BY Zenon, <2>1
  <2>2. CASE p # o + 1
    <3>1. o + 1 < p
      BY <2>2, BoundsAssumption DEF Ordinals
    <3> QED
      BY Zenon, <1>1, <3>1 DEF Lineage
  <2> QED
    BY Zenon, <2>1, <2>2
<1> QED
  BY Zenon, <1>1, <1>2 DEF HasRetry

(* When the latest attempt moves and node and build move with it, the three  *)
(* tables keep agreeing.                                                     *)
LEMMA LatestMoves ==
    ASSUME TypeOK, Lineage, NEW o \in Ordinals, IsLatest(o),
           NEW s, s # "absent", status' = [status EXCEPT ![o] = s], Mirrors(s)'
    PROVE  Lineage' /\ HierarchyAgrees'
<1> USE BoundsAssumption DEF TypeOK
<1>1. Lineage'
  BY Zenon DEF Lineage, IsLatest, Ordinals
<1>2. ASSUME NEW p \in Ordinals, IsLatest(p)' PROVE p = o
  BY <1>2 DEF IsLatest, Ordinals
<1>3. status'[o] = s
  BY Zenon
<1>4. ASSUME NEW p \in Ordinals, IsLatest(p)' PROVE Mirrors(status[p])'
  BY Zenon, <1>2, <1>3, <1>4 DEF Mirrors
<1>5. ASSUME NEW p \in Ordinals, HasRetry(p)'
      PROVE  status'[p] \in {"failed", "reconciliation_required"}
  <2>1. p < p + 1 /\ p + 1 \in Ordinals
    BY <1>5 DEF HasRetry, Ordinals
  <2> QED
    BY Zenon, <1>1, <1>5, <2>1 DEF HasRetry, Lineage
<1> QED
  BY Zenon, <1>1, <1>4, <1>5 DEF HierarchyAgrees

(* A step that leaves the rows alone keeps what is said of them. *)
LEMMA RowsUntouched ==
    ASSUME RowInv, UNCHANGED rowVars, TypeOK'
    PROVE  RowInv'
BY DEF RowInv, rowVars, attemptVars, Lineage, HierarchyAgrees, LeaseMatchesStatus,
       GrantsFollowFences, AbsentIsFresh, IsLatest, HasRetry, Mirrors

(* A step of the latest attempt that makes no offer: it stays leased under   *)
(* the same authority or gives its lease up.                                 *)
LEMMA LatestStep ==
    ASSUME RowInv, TypeOK', NEW o \in Ordinals, IsLatest(o),
           NEW s, s # "absent", status' = [status EXCEPT ![o] = s], Mirrors(s)',
           UNCHANGED <<epoch, fence, repoch, grants>>,
           \A p \in Ordinals \ {o} : lease'[p] = lease[p] /\ owner'[p] = owner[p],
           \/ s \notin Active /\ lease'[o] = NoLease
           \/ /\ s \in Active /\ status[o] \in Active
              /\ lease'[o] # NoLease /\ owner'[o] = owner[o]
    PROVE  RowInv'
<1> USE DEF RowInv
<1>1. Lineage' /\ HierarchyAgrees'
  BY Zenon, LatestMoves
<1>2. LeaseMatchesStatus'
  BY DEF LeaseMatchesStatus, TypeOK
<1>3. GrantsFollowFences'
  BY Zenon DEF GrantsFollowFences
<1>4. AbsentIsFresh'
  BY Zenon DEF AbsentIsFresh, TypeOK
<1> QED
  BY Zenon, <1>1, <1>2, <1>3, <1>4

(* The calls that write only the effect ledger. *)
LedgerCall ==
    \/ \E g \in grants, k \in EffectKeys :
          \/ \E requested \in EffectStatuses : CheckpointEffect(g, k, requested)
          \/ CommitDispatch(g, k)
          \/ \E kind \in ReceiptKinds, isAmbiguous \in BOOLEAN :
                AppendEvidence(g, k, kind, isAmbiguous)
          \/ \E target \in {"abandoned", "release_pending"} :
                RecordUndispatchedRelease(g, k, target)
    \/ \E e \in EffectIds :
          \/ ConfirmUncertainEffect(e)
          \/ AbandonExpiredReleasePending(e)
          \/ \E kind \in ReceiptKinds, isAmbiguous \in BOOLEAN :
                AppendEvidenceReconciling(e, kind, isAmbiguous)

(* The calls about effects write attempt_effects and no other table.         *)
LEMMA LedgerKeepsTruth == LedgerCall => UNCHANGED truthButEffects
<1>1. ASSUME NEW g \in grants, NEW k \in EffectKeys,
             \/ \E requested \in EffectStatuses : CheckpointEffect(g, k, requested)
             \/ CommitDispatch(g, k)
             \/ \E kind \in ReceiptKinds, isAmbiguous \in BOOLEAN :
                   AppendEvidence(g, k, kind, isAmbiguous)
             \/ \E target \in {"abandoned", "release_pending"} :
                   RecordUndispatchedRelease(g, k, target)
      PROVE  UNCHANGED truthButEffects
  BY Zenon, <1>1 DEF CheckpointEffect, CommitDispatch, AppendEvidence, JoinReceipt,
              RecordUndispatchedRelease
<1>2. ASSUME NEW e \in EffectIds,
             \/ ConfirmUncertainEffect(e)
             \/ AbandonExpiredReleasePending(e)
             \/ \E kind \in ReceiptKinds, isAmbiguous \in BOOLEAN :
                   AppendEvidenceReconciling(e, kind, isAmbiguous)
      PROVE  UNCHANGED truthButEffects
  BY Zenon, <1>2 DEF ConfirmUncertainEffect, AbandonExpiredReleasePending,
              AppendEvidenceReconciling, JoinReceipt
<1> QED
  BY Zenon, <1>1, <1>2 DEF LedgerCall

(* No call breaks the agreement of rows, leases and offers: one step per     *)
(* handler of the store.                                                     *)
LEMMA RowStep == RowInv /\ [Next]_vars => RowInv'
<1> SUFFICES ASSUME RowInv, [Next]_vars PROVE RowInv'
  BY Zenon
<1>type. TypeOK /\ TypeOK'
  BY Zenon, TypeStep DEF RowInv
<1>granted. \A g \in grants : g.attempt \in Ordinals
  BY Zenon, <1>type DEF TypeOK, Grants
<1>leased. \A o \in Ordinals : status[o] \in Active =>
              IsLatest(o) /\ Mirrors(status[o]) /\ lease[o] # NoLease
  BY Zenon, OpenIsLatest DEF RowInv, HierarchyAgrees, LeaseMatchesStatus
<1>1. ASSUME NEW a \in Agents, NEW o \in Ordinals, ClaimNext(a, o) PROVE RowInv'
  <2>1. IsLatest(o)
    BY Zenon, <1>1, OpenIsLatest DEF ClaimNext, RowInv
  <2>2. Lineage' /\ HierarchyAgrees'
    <3>1. Mirrors("offered")'
      BY Zenon, <1>1 DEF ClaimNext, Mirrors
    <3> QED
      BY Zenon, <1>1, <2>1, <3>1, LatestMoves DEF ClaimNext, RowInv
  <2>3. LeaseMatchesStatus'
    BY <1>1, BoundsAssumption DEF ClaimNext, RowInv, TypeOK, LeaseMatchesStatus, Active, NoLease,
       restoreVars
  <2>4. GrantsFollowFences'
    BY <1>1 DEF ClaimNext, RowInv, TypeOK, GrantsFollowFences, Grants, Fences
  <2>5. AbsentIsFresh'
    BY Zenon, <1>1 DEF ClaimNext, RowInv, TypeOK, AbsentIsFresh
  <2> QED
    BY Zenon, <1>type, <2>2, <2>3, <2>4, <2>5 DEF RowInv
<1>2. ASSUME NEW g \in grants, AcceptOffer(g) PROVE RowInv'
  <2>1. Mirrors("accepted")'
    BY Zenon, <1>2, <1>granted, <1>leased DEF AcceptOffer, Mirrors, Executing, Active, Terminal
  <2> QED
    BY Zenon, <1>2, <1>type, <1>granted, <1>leased, <2>1, LatestStep
       DEF AcceptOffer, Active, restoreVars
<1>3. ASSUME NEW g \in grants, MarkRunning(g) PROVE RowInv'
  <2>1. Mirrors("running")'
    BY Zenon, <1>3, <1>granted, <1>leased DEF MarkRunning, Mirrors, Executing, Active, Terminal
  <2> QED
    BY Zenon, <1>3, <1>type, <1>granted, <1>leased, <2>1, LatestStep
       DEF MarkRunning, Active, restoreVars
<1>4. ASSUME NEW g \in grants, RenewLease(g) PROVE RowInv'
  <2>1. Lineage' /\ HierarchyAgrees' /\ GrantsFollowFences' /\ AbsentIsFresh'
    BY <1>4 DEF RenewLease, RowInv, Lineage, HierarchyAgrees, GrantsFollowFences, AbsentIsFresh,
       IsLatest, HasRetry, Mirrors, restoreVars
  <2>2. LeaseMatchesStatus'
    BY <1>4, <1>granted, BoundsAssumption DEF RenewLease, RowInv, TypeOK, LeaseMatchesStatus,
       Executing, Active, NoLease, restoreVars
  <2> QED
    BY Zenon, <1>type, <2>1, <2>2 DEF RowInv
<1>5. ASSUME NEW o \in Ordinals, Tick(o) PROVE RowInv'
  <2>1. Lineage' /\ HierarchyAgrees' /\ GrantsFollowFences' /\ AbsentIsFresh'
    BY <1>5 DEF Tick, RowInv, Lineage, HierarchyAgrees, GrantsFollowFences, AbsentIsFresh,
       IsLatest, HasRetry, Mirrors, restoreVars
  <2>2. LeaseMatchesStatus'
    BY <1>5 DEF Tick, RowInv, TypeOK, LeaseMatchesStatus, NoLease, restoreVars
  <2> QED
    BY Zenon, <1>type, <2>1, <2>2 DEF RowInv
<1>6. ASSUME NEW g \in grants, NEW phase \in {"finalizing", "cancelling"},
             RecoverFinalization(g, phase)
      PROVE RowInv'
  <2>1. Mirrors(phase)'
    BY Zenon, <1>6, <1>granted, <1>leased DEF RecoverFinalization, Mirrors, Executing, Active, Terminal
  <2>2. lease'[g.attempt] # NoLease /\ \A p \in Ordinals \ {g.attempt} : lease'[p] = lease[p]
    BY <1>6, <1>type, <1>granted, BoundsAssumption DEF RecoverFinalization, TypeOK, NoLease
  <2> QED
    BY Zenon, <1>6, <1>type, <1>granted, <1>leased, <2>1, <2>2, LatestStep
       DEF RecoverFinalization, Active, restoreVars
<1>7. ASSUME NEW o \in Ordinals, RequeueExpired(o) PROVE RowInv'
  <2>1. IsLatest(o) /\ Mirrors(status[o])
    BY Zenon, <1>7, <1>leased DEF RequeueExpired
  <2>2. CASE Terminate(o, "aborted")
    BY Zenon, <1>7, <1>type, <2>1, <2>2, LatestStep
       DEF RequeueExpired, Terminate, Mirrors, Active, Terminal, restoreVars, TypeOK
  <2>3. CASE Park(o, NoAgent)
    BY Zenon, <1>7, <1>type, <2>1, <2>3, LatestStep
       DEF RequeueExpired, Park, Mirrors, Active, Terminal, restoreVars, TypeOK
  <2>4. CASE Requeue(o)
    <3>1. Mirrors("queued")'
      BY Zenon, <1>7, <2>1, <2>4 DEF RequeueExpired, Requeue, Mirrors, Active, Terminal
    <3>2. lease'[o] = NoLease /\ \A p \in Ordinals \ {o} : lease'[p] = lease[p] /\ owner'[p] = owner[p]
      BY Zenon, <1>type, <2>4 DEF Requeue, TypeOK
    <3> QED
      BY Zenon, <1>7, <1>type, <2>1, <2>4, <3>1, <3>2, LatestStep
         DEF RequeueExpired, Requeue, Active, restoreVars
  <2> QED
    BY Zenon, <1>7, <2>2, <2>3, <2>4 DEF RequeueExpired
<1>8. ASSUME RequestCancellation PROVE RowInv'
  <2>1. PICK o \in Ordinals :
          /\ IsLatest(o)
          /\ \/ /\ build = "queued"
                /\ status' = [status EXCEPT ![o] = IF @ = "queued" THEN "aborted" ELSE @]
                /\ node' = IF node = "queued" THEN "aborted" ELSE node
                /\ build' = "aborted"
             \/ /\ build = "running"
                /\ status' = [status EXCEPT ![o] = IF @ \in Active THEN "cancelling" ELSE @]
                /\ UNCHANGED <<node, build>>
    BY Zenon, <1>8 DEF RequestCancellation
  <2>2. Mirrors(status[o])
    BY Zenon, <2>1 DEF RowInv, HierarchyAgrees
  <2>3. CASE build = "queued"
    <3>1. status[o] = "queued" /\ node = "queued"
      BY Zenon, <2>2, <2>3 DEF Mirrors, Terminal
    <3>2. status' = [status EXCEPT ![o] = "aborted"] /\ Mirrors("aborted")'
      BY Zenon, <2>1, <2>3, <3>1 DEF Mirrors, Terminal
    <3>3. lease[o] = NoLease
      BY Zenon, <3>1 DEF RowInv, LeaseMatchesStatus, Active
    <3> QED
      BY Zenon, <1>8, <1>type, <2>1, <3>2, <3>3, LatestStep
         DEF RequestCancellation, Active, restoreVars
  <2>4. CASE build = "running"
    <3>1. status[o] \in Active /\ node \in {"offered", "running"}
      BY Zenon, <2>2, <2>4 DEF Mirrors, Terminal, Executing, Active
    <3>2. status' = [status EXCEPT ![o] = "cancelling"] /\ Mirrors("cancelling")'
      BY Zenon, <2>1, <2>4, <3>1 DEF Mirrors, Executing
    <3> QED
      BY Zenon, <1>8, <1>type, <1>leased, <2>1, <3>1, <3>2, LatestStep
         DEF RequestCancellation, Active, restoreVars
  <2> QED
    BY Zenon, <2>1, <2>3, <2>4
<1>9. ASSUME NEW g \in grants, NEW verified \in BOOLEAN, CompleteCancellation(g, verified)
      PROVE RowInv'
  <2>1. IsLatest(g.attempt)
    BY Zenon, <1>9, <1>granted, <1>leased DEF CompleteCancellation, Active
  <2>2. CASE Park(g.attempt, owner[g.attempt])
    <3>1. Mirrors("reconciliation_required")'
      BY Zenon, <2>2 DEF Park, Mirrors
    <3>2. /\ lease'[g.attempt] = NoLease
          /\ \A p \in Ordinals \ {g.attempt} : lease'[p] = lease[p] /\ owner'[p] = owner[p]
      BY Zenon, <1>type, <1>granted, <2>2 DEF Park, TypeOK
    <3> QED
      BY Zenon, <1>9, <1>type, <1>granted, <2>1, <2>2, <3>1, <3>2, LatestStep
         DEF CompleteCancellation, Park, Active, restoreVars
  <2>3. CASE Terminate(g.attempt, "aborted")
    <3>1. Mirrors("aborted")'
      BY Zenon, <2>3 DEF Terminate, Mirrors, Terminal
    <3>2. /\ lease'[g.attempt] = NoLease
          /\ \A p \in Ordinals \ {g.attempt} : lease'[p] = lease[p] /\ owner'[p] = owner[p]
      BY Zenon, <1>type, <1>granted, <2>3 DEF Terminate, TypeOK
    <3> QED
      BY Zenon, <1>9, <1>type, <1>granted, <2>1, <2>3, <3>1, <3>2, LatestStep
         DEF CompleteCancellation, Terminate, Active, restoreVars
  <2> QED
    BY Zenon, <1>9, <2>2, <2>3 DEF CompleteCancellation
<1>10. ASSUME NEW g \in grants, NEW outcome \in Terminal, NEW aware \in BOOLEAN,
              FinalizeAttempt(g, outcome, aware)
       PROVE RowInv'
  <2>1. IsLatest(g.attempt)
    BY Zenon, <1>10, <1>granted, <1>leased DEF FinalizeAttempt, Active, Executing
  <2>2. CASE Park(g.attempt, NoAgent)
    <3>1. Mirrors("reconciliation_required")'
      BY Zenon, <2>2 DEF Park, Mirrors
    <3>2. /\ lease'[g.attempt] = NoLease
          /\ \A p \in Ordinals \ {g.attempt} : lease'[p] = lease[p] /\ owner'[p] = owner[p]
      BY Zenon, <1>type, <1>granted, <2>2 DEF Park, TypeOK
    <3> QED
      BY Zenon, <1>10, <1>type, <1>granted, <2>1, <2>2, <3>1, <3>2, LatestStep
         DEF FinalizeAttempt, Park, Active, restoreVars
  <2>3. CASE Terminate(g.attempt, Published(g, outcome, aware))
    <3>1. Published(g, outcome, aware) \in Terminal
      BY Zenon DEF Published, Terminal
    <3>2. PICK s \in Terminal : Terminate(g.attempt, s)
      BY Zenon, <2>3, <3>1
    <3>3. Mirrors(s)' /\ s \notin Active /\ s # "absent"
      BY Zenon, <3>2 DEF Terminate, Mirrors, Terminal, Active
    <3>4. /\ lease'[g.attempt] = NoLease
          /\ \A p \in Ordinals \ {g.attempt} : lease'[p] = lease[p] /\ owner'[p] = owner[p]
      BY Zenon, <1>type, <1>granted, <3>2 DEF Terminate, TypeOK
    <3> QED
      BY Zenon, <1>10, <1>type, <1>granted, <2>1, <3>2, <3>3, <3>4, LatestStep
         DEF FinalizeAttempt, Terminate, restoreVars
  <2> QED
    BY Zenon, <1>10, <2>2, <2>3 DEF FinalizeAttempt
<1>11. ASSUME NEW o \in Ordinals, NEW outcome \in Terminal, FinalizeReconciled(o, outcome)
       PROVE RowInv'
  <2>1. IsLatest(o)
    BY Zenon, <1>11, ChildlessIsLatest DEF FinalizeReconciled, RowInv
  <2> QED
    BY Zenon, <1>11, <1>type, <2>1, LatestStep
       DEF FinalizeReconciled, Terminate, Mirrors, Active, Terminal, restoreVars, TypeOK
<1>12. ASSUME NEW o \in Ordinals, NEW maxAttempts \in Ordinals, ScheduleRetry(o, maxAttempts)
       PROVE RowInv'
  <2>1. IsLatest(o) /\ status[o] \in {"failed", "reconciliation_required"}
    BY Zenon, <1>12, ChildlessIsLatest DEF ScheduleRetry, RetryEligible, RowInv
  <2>2. o + 1 \in Ordinals
    BY <1>12, BoundsAssumption DEF ScheduleRetry, Ordinals
  <2>3. status[o + 1] = "absent"
    BY <2>1, <2>2 DEF IsLatest, Ordinals
  <2>row. Lineage /\ status \in [Ordinals -> AttemptStatuses] /\ status' = [status EXCEPT ![o + 1] = "queued"]
    BY Zenon, <1>12, <1>type DEF ScheduleRetry, RowInv, TypeOK
  <2>4. Lineage'
    BY <2>row, <2>1, <2>2 DEF Lineage, IsLatest, Ordinals
  <2>5. \A p \in Ordinals : IsLatest(p)' => p = o + 1
    BY <2>row, <2>1, <2>2 DEF IsLatest, Ordinals
  <2>6. \A p \in Ordinals : IsLatest(p)' => Mirrors(status[p])'
    BY Zenon, <1>12, <1>type, <2>2, <2>5 DEF ScheduleRetry, TypeOK, Mirrors
  <2>7. \A p \in Ordinals : HasRetry(p)' => status'[p] \in {"failed", "reconciliation_required"}
    BY <2>4, BoundsAssumption DEF HasRetry, Lineage, Ordinals
  <2>8. LeaseMatchesStatus'
    BY Zenon, <1>12, <1>type, <2>2, <2>3
       DEF ScheduleRetry, RowInv, TypeOK, LeaseMatchesStatus, Active, restoreVars
  <2>9. GrantsFollowFences' /\ AbsentIsFresh'
    BY Zenon, <1>12, <1>type, <2>2 DEF ScheduleRetry, RowInv, TypeOK, GrantsFollowFences, AbsentIsFresh
  <2> QED
    BY Zenon, <1>type, <2>4, <2>6, <2>7, <2>8, <2>9 DEF RowInv, HierarchyAgrees
<1>13. ASSUME NEW o \in Ordinals, NEW maxAttempts \in Ordinals, DeadLetter(o, maxAttempts)
       PROVE RowInv'
  <2>1. IsLatest(o)
    BY Zenon, <1>13, ChildlessIsLatest DEF DeadLetter, RetryEligible, RowInv
  <2>2. CASE status[o] = "reconciliation_required"
    <3>1. build = "reconciliation_required" /\ lease[o] = NoLease
      BY Zenon, <2>1, <2>2 DEF RowInv, HierarchyAgrees, LeaseMatchesStatus, Mirrors, Active, Executing,
         Terminal
    <3>2. Mirrors("failed")'
      BY Zenon, <1>13, <2>2, <3>1 DEF DeadLetter, Mirrors, Terminal
    <3> QED
      BY Zenon, <1>13, <1>type, <2>1, <2>2, <3>1, <3>2, LatestStep
         DEF DeadLetter, Active, restoreVars
  <2>3. CASE status[o] # "reconciliation_required"
    BY Zenon, <1>13, <1>type, <2>3, RowsUntouched DEF DeadLetter, rowVars, attemptVars, restoreVars
  <2> QED
    BY Zenon, <2>2, <2>3
<1>14. ASSUME NEW b \in Backups, ActivateRestoreEpoch(b) PROVE RowInv'
  <2> DEFINE affected == {o \in Ordinals : status[o] \in Active}
  <2>1. \A o \in Ordinals : status'[o] = IF o \in affected THEN "reconciliation_required"
                                                            ELSE status[o]
    BY Zenon, <1>14 DEF ActivateRestoreEpoch
  <2>2. Lineage'
    BY Zenon, <2>1 DEF RowInv, Lineage, Active
  <2>3. \A p \in Ordinals : IsLatest(p)' <=> IsLatest(p)
    BY Zenon, <2>1 DEF IsLatest, Active
  <2>4. ASSUME NEW p \in Ordinals, IsLatest(p) PROVE Mirrors(status[p])'
    <3>1. CASE affected # {}
      <4>1. PICK o \in affected : TRUE
        BY Zenon, <3>1
      <4>2. IsLatest(o) /\ o \in Ordinals
        BY Zenon, <1>leased, <4>1
      <4>3. o = p
        BY <2>4, <4>2 DEF IsLatest, Ordinals
      <4>4. status'[p] = "reconciliation_required"
        BY Zenon, <2>1, <4>1, <4>3
      <4> QED
        BY Zenon, <1>14, <3>1, <4>4 DEF ActivateRestoreEpoch, Mirrors
    <3>2. CASE affected = {}
      BY Zenon, <1>14, <2>1, <2>4, <3>2 DEF ActivateRestoreEpoch, Mirrors, RowInv, HierarchyAgrees
    <3> QED
      BY Zenon, <3>1, <3>2
  <2>5. \A p \in Ordinals : HasRetry(p)' => status'[p] \in {"failed", "reconciliation_required"}
    BY <2>2, BoundsAssumption DEF HasRetry, Lineage, Ordinals
  <2>6. LeaseMatchesStatus'
    BY Zenon, <1>14, <2>1 DEF ActivateRestoreEpoch, RowInv, LeaseMatchesStatus, Active
  <2>7. GrantsFollowFences' /\ AbsentIsFresh'
    BY Zenon, <1>14, <2>1 DEF ActivateRestoreEpoch, RowInv, GrantsFollowFences, AbsentIsFresh
  <2> QED
    BY Zenon, <1>type, <2>2, <2>3, <2>4, <2>5, <2>6, <2>7 DEF RowInv, HierarchyAgrees
<1>15. ASSUME FencePipeline \/ \E b \in Backups : SealRecoveryPoint(b) PROVE RowInv'
  BY Zenon, <1>15, <1>type, RowsUntouched
     DEF FencePipeline, SealRecoveryPoint, rowVars, attemptVars, restoreVars
<1>16. CASE LedgerCall
  BY Zenon, <1>type, <1>16, LedgerKeepsTruth, RowsUntouched
     DEF truthButEffects, rowVars, attemptVars, restoreVars
<1>17. CASE UNCHANGED vars
  BY Zenon, <1>type, <1>17, RowsUntouched DEF vars, rowVars, attemptVars, restoreVars
<1> QED
  BY <1>1, <1>2, <1>3, <1>4, <1>5, <1>6, <1>7, <1>8, <1>9, <1>10, <1>11, <1>12, <1>13, <1>14,
     <1>15, <1>16, <1>17
     DEF Next, SchedulerStep, OperatorCall, AgentCall, LedgerCall

(* Admission writes rows that agree.                                         *)
LEMMA RowInit == Init => RowInv
<1> SUFFICES ASSUME Init PROVE RowInv
  BY Zenon
<1> USE BoundsAssumption DEF Init
<1>1. TypeOK
  <2>1. points \in [Backups -> -1 .. MaxEpoch] /\ lease \in [Ordinals -> NoLease .. LeaseTicks]
    BY DEF NoLease
  <2>2. /\ status \in [Ordinals -> AttemptStatuses]
        /\ fence \in [Ordinals -> 0 .. MaxFence] /\ repoch \in [Ordinals -> 0 .. MaxEpoch]
        /\ owner \in [Ordinals -> Agents \cup {NoAgent}]
    BY DEF AttemptStatuses
  <2>3. effect \in [EffectIds -> EffectStatuses \cup {"none"}]
    BY Zenon
  <2>4. receipts \in [EffectIds -> SUBSET ReceiptKinds]
    BY Zenon
  <2>5. epoch \in 0 .. MaxEpoch /\ build \in BuildStatuses /\ node \in NodeStatuses
    BY DEF BuildStatuses, NodeStatuses
  <2>6. enabled \in BOOLEAN /\ cancelled \in BOOLEAN
    BY Zenon
  <2>7. /\ activated \subseteq Backups /\ grants \subseteq Grants
        /\ deadLetters \subseteq Ordinals /\ reconciled \subseteq Ordinals
        /\ dispatched \subseteq EffectIds /\ ambiguous \subseteq EffectIds
    BY Zenon
  <2> HIDE DEF Init
  <2> QED
    BY Zenon, <2>1, <2>2, <2>3, <2>4, <2>5, <2>6, <2>7 DEF TypeOK
<1>2. \A o \in Ordinals : status[o] # "absent" => o = 1
  BY Zenon
<1>3. Lineage
  BY <1>2 DEF Lineage, Ordinals
<1>4. HierarchyAgrees
  BY <1>2 DEF HierarchyAgrees, IsLatest, HasRetry, Mirrors, Ordinals
<1>5. LeaseMatchesStatus /\ GrantsFollowFences /\ AbsentIsFresh
  BY Zenon DEF LeaseMatchesStatus, GrantsFollowFences, AbsentIsFresh, Active
<1> QED
  BY Zenon, <1>1, <1>3, <1>4, <1>5 DEF RowInv

(* Type correctness and the agreement of the rows, by induction on RowInv. *)
LEMMA RowInvariant == Spec => []RowInv
<1>1. RowInv /\ [Next]_vars => RowInv'
  BY Zenon, RowStep
<1> QED
  BY <1>1, RowInit, PTL DEF Spec

(* Every row always holds values its columns admit, however agents,          *)
(* operators and restores interleave.                                        *)
THEOREM TypeCorrect == Spec => []TypeOK
<1>1. RowInv => TypeOK
  BY Zenon DEF RowInv
<1> QED
  BY <1>1, RowInvariant, PTL

(* Build, node and latest attempt never disagree ("Attempt, node, build,     *)
(* event, and outbox mutations commit together").                            *)
THEOREM HierarchyAlwaysAgrees == Spec => []HierarchyAgrees
<1>1. RowInv => HierarchyAgrees
  BY Zenon DEF RowInv
<1> QED
  BY <1>1, RowInvariant, PTL

(* A leased attempt is leased in the current restore epoch to the agent it   *)
(* was offered to, and nothing else carries an expiry.                       *)
THEOREM LeaseAlwaysMatches == Spec => []LeaseMatchesStatus
<1>1. RowInv => LeaseMatchesStatus
  BY Zenon DEF RowInv
<1> QED
  BY <1>1, RowInvariant, PTL

(* At most one of all the offers ever made is authority over the node: two   *)
(* leased attempts cannot coexist, and one fence was offered once.           *)
THEOREM AuthorityIsUnique == Spec => []OneAuthority
<1>1. RowInv => OneAuthority
  <2> SUFFICES ASSUME RowInv, NEW g \in grants, NEW h \in grants,
                      ExactAuthority(g), status[g.attempt] \in Active,
                      ExactAuthority(h), status[h.attempt] \in Active
               PROVE  g = h
    BY Zenon DEF OneAuthority
  <2>1. g.attempt \in Ordinals /\ h.attempt \in Ordinals
    BY Zenon DEF RowInv, TypeOK, Grants
  <2>2. IsLatest(g.attempt) /\ IsLatest(h.attempt)
    BY Zenon, <2>1, OpenIsLatest DEF RowInv
  <2>3. g.attempt = h.attempt
    BY <2>1, <2>2 DEF IsLatest, Ordinals
  <2> QED
    BY Zenon, <2>3 DEF ExactAuthority, RowInv, GrantsFollowFences
<1> QED
  BY <1>1, RowInvariant, PTL

-----------------------------------------------------------------------------
(* Decisions that are not taken back: cancellations, retries, closures,      *)
(* terminal outcomes and fences.                                             *)

DecisionInv == CancelledNeverOffered /\ RetryXorClose

Irrevocable == DecisionInv' /\ KeepsTerminal /\ MovesFenceByOffer

(* A step of one attempt that is neither terminal nor made queued nor        *)
(* offered, and that decides nothing else.                                   *)
LEMMA QuietStep ==
    ASSUME RowInv, DecisionInv, NEW o \in Ordinals, status[o] \notin Terminal \cup {"absent"},
           NEW s, s \notin {"absent", "queued", "offered"},
           status' = [status EXCEPT ![o] = s],
           UNCHANGED <<fence, cancelled, deadLetters, reconciled>>,
           \A p \in Ordinals \ {o} : owner'[p] = owner[p]
    PROVE  Irrevocable
<1> USE DEF RowInv, TypeOK, DecisionInv
<1>1. CancelledNeverOffered'
  BY Zenon DEF CancelledNeverOffered
<1>2. \A p \in Ordinals : HasRetry(p)' => HasRetry(p)
  BY Zenon DEF HasRetry
<1>3. RetryXorClose'
  BY Zenon, <1>2 DEF RetryXorClose
<1> QED
  BY Zenon, <1>1, <1>3 DEF Irrevocable, KeepsTerminal, MovesFenceByOffer

(* A step that leaves the attempts and the decisions alone. *)
LEMMA NoDecision ==
    ASSUME RowInv, DecisionInv,
           UNCHANGED <<status, fence, owner, cancelled, deadLetters, reconciled>>
    PROVE  Irrevocable
BY Zenon DEF DecisionInv, Irrevocable, CancelledNeverOffered, RetryXorClose, HasRetry, KeepsTerminal,
       MovesFenceByOffer

(* No call queues or offers a cancelled build's attempt, decides twice about *)
(* one attempt, changes a terminal attempt or moves a fence without an       *)
(* offer.                                                                    *)
LEMMA DecisionStep == RowInv /\ DecisionInv /\ [Next]_vars => Irrevocable
<1> SUFFICES ASSUME RowInv, DecisionInv, [Next]_vars PROVE Irrevocable
  BY Zenon
<1>granted. \A g \in grants : g.attempt \in Ordinals
  BY Zenon DEF RowInv, TypeOK, Grants
<1> USE DEF restoreVars, attemptVars, retryVars
<1>1. ASSUME NEW a \in Agents, NEW o \in Ordinals, ClaimNext(a, o) PROVE Irrevocable
  <2>1. CancelledNeverOffered' /\ KeepsTerminal /\ MovesFenceByOffer
    BY Zenon, <1>1 DEF ClaimNext, CancelledNeverOffered, KeepsTerminal, MovesFenceByOffer, RowInv,
       TypeOK, Terminal
  <2>2. \A p \in Ordinals : HasRetry(p)' => HasRetry(p)
    BY Zenon, <1>1 DEF ClaimNext, HasRetry, RowInv, TypeOK
  <2> QED
    BY Zenon, <1>1, <2>1, <2>2 DEF ClaimNext, Irrevocable, DecisionInv, RetryXorClose
<1>2. ASSUME NEW g \in grants, AcceptOffer(g) PROVE Irrevocable
  <2>1. /\ g.attempt \in Ordinals /\ status[g.attempt] \notin Terminal \cup {"absent"}
        /\ status' = [status EXCEPT ![g.attempt] = "accepted"]
        /\ UNCHANGED <<owner, fence, cancelled, deadLetters, reconciled>>
    BY Zenon, <1>2, <1>granted DEF AcceptOffer, Terminal
  <2> QED
    BY Zenon, <2>1, QuietStep
<1>3. ASSUME NEW g \in grants, MarkRunning(g) PROVE Irrevocable
  <2>1. /\ g.attempt \in Ordinals /\ status[g.attempt] \notin Terminal \cup {"absent"}
        /\ status' = [status EXCEPT ![g.attempt] = "running"]
        /\ UNCHANGED <<owner, fence, cancelled, deadLetters, reconciled>>
    BY Zenon, <1>3, <1>granted DEF MarkRunning, Terminal
  <2> QED
    BY Zenon, <2>1, QuietStep
<1>4. ASSUME NEW g \in grants, RenewLease(g) PROVE Irrevocable
  BY Zenon, <1>4, NoDecision DEF RenewLease
<1>5. ASSUME NEW o \in Ordinals, Tick(o) PROVE Irrevocable
  BY Zenon, <1>5, NoDecision DEF Tick
<1>6. ASSUME NEW g \in grants, NEW phase \in {"finalizing", "cancelling"},
             RecoverFinalization(g, phase)
      PROVE Irrevocable
  BY Zenon, <1>6, <1>granted, QuietStep DEF RecoverFinalization, Terminal
<1>7. ASSUME NEW o \in Ordinals, RequeueExpired(o) PROVE Irrevocable
  <2>1. CASE Terminate(o, "aborted")
    BY Zenon, <1>7, <2>1, QuietStep DEF RequeueExpired, Terminate, Terminal, Active
  <2>2. CASE Park(o, NoAgent)
    BY Zenon, <1>7, <2>2, QuietStep DEF RequeueExpired, Park, Terminal, Active, RowInv, TypeOK
  <2>3. CASE Requeue(o) /\ ~cancelled
    <3>1. CancelledNeverOffered' /\ KeepsTerminal /\ MovesFenceByOffer
      BY Zenon, <1>7, <2>3 DEF RequeueExpired, Requeue, CancelledNeverOffered, KeepsTerminal,
         MovesFenceByOffer, RowInv, TypeOK, Terminal, Active
    <3>2. \A p \in Ordinals : HasRetry(p)' => HasRetry(p)
      BY Zenon, <1>7, <2>3 DEF RequeueExpired, Requeue, HasRetry, RowInv, TypeOK, Active
    <3> QED
      BY Zenon, <1>7, <3>1, <3>2 DEF RequeueExpired, Irrevocable, DecisionInv, RetryXorClose
  <2> QED
    BY Zenon, <1>7, <2>1, <2>2, <2>3 DEF RequeueExpired
<1>8. ASSUME RequestCancellation PROVE Irrevocable
  <2>1. PICK o \in Ordinals :
          /\ IsLatest(o)
          /\ \/ /\ build = "queued"
                /\ status' = [status EXCEPT ![o] = IF @ = "queued" THEN "aborted" ELSE @]
             \/ /\ build = "running"
                /\ status' = [status EXCEPT ![o] = IF @ \in Active THEN "cancelling" ELSE @]
    BY Zenon, <1>8 DEF RequestCancellation
  <2>2. Mirrors(status[o])
    BY Zenon, <2>1 DEF RowInv, HierarchyAgrees
  <2>3. \/ status[o] = "queued" /\ status' = [status EXCEPT ![o] = "aborted"]
        \/ status[o] \in Active /\ status' = [status EXCEPT ![o] = "cancelling"]
    BY Zenon, <2>1, <2>2 DEF Mirrors, Terminal, Executing, Active
  <2>4. \A p \in Ordinals \ {o} :
            status'[p] = status[p] /\ status[p] \in {"absent", "failed", "reconciliation_required"}
    <3> TAKE p \in Ordinals \ {o}
    <3>1. status'[p] = status[p]
      BY Zenon, <2>3 DEF RowInv, TypeOK
    <3>2. p < o \/ p > o
      BY DEF Ordinals
    <3> QED
      BY Zenon, <2>1, <3>1, <3>2 DEF RowInv, Lineage, IsLatest
  <2>5. CancelledNeverOffered'
    BY Zenon, <2>3, <2>4 DEF CancelledNeverOffered, RowInv, TypeOK
  <2>6. \A p \in Ordinals : HasRetry(p)' => HasRetry(p)
    BY Zenon, <2>3, <2>4 DEF HasRetry, Active
  <2>7. KeepsTerminal /\ MovesFenceByOffer
    BY Zenon, <1>8, <2>3, <2>4 DEF RequestCancellation, KeepsTerminal, MovesFenceByOffer, Terminal, Active
  <2> QED
    BY Zenon, <1>8, <2>5, <2>6, <2>7 DEF RequestCancellation, Irrevocable, DecisionInv, RetryXorClose
<1>9. ASSUME NEW g \in grants, NEW verified \in BOOLEAN, CompleteCancellation(g, verified)
      PROVE Irrevocable
  <2>1. CASE Park(g.attempt, owner[g.attempt])
    <3>1. /\ g.attempt \in Ordinals /\ status[g.attempt] \notin Terminal \cup {"absent"}
          /\ status' = [status EXCEPT ![g.attempt] = "reconciliation_required"]
          /\ owner' = [owner EXCEPT ![g.attempt] = owner[g.attempt]]
          /\ UNCHANGED <<fence, cancelled, deadLetters, reconciled>>
      BY Zenon, <1>9, <1>granted, <2>1 DEF CompleteCancellation, Park, Terminal
    <3>2. \A p \in Ordinals \ {g.attempt} : owner'[p] = owner[p]
      BY Zenon, <3>1 DEF RowInv, TypeOK
    <3> QED
      BY Zenon, <3>1, <3>2, QuietStep
  <2>2. CASE Terminate(g.attempt, "aborted")
    BY Zenon, <1>9, <1>granted, <2>2, QuietStep DEF CompleteCancellation, Terminate, Terminal
  <2> QED
    BY Zenon, <1>9, <2>1, <2>2 DEF CompleteCancellation
<1>10. ASSUME NEW g \in grants, NEW outcome \in Terminal, NEW aware \in BOOLEAN,
              FinalizeAttempt(g, outcome, aware)
       PROVE Irrevocable
  <2>1. CASE Park(g.attempt, NoAgent)
    BY Zenon, <1>10, <1>granted, <2>1, QuietStep
       DEF FinalizeAttempt, Park, Terminal, Executing, RowInv, TypeOK
  <2>2. CASE Terminate(g.attempt, Published(g, outcome, aware))
    <3> DEFINE s == Published(g, outcome, aware)
    <3>1. s \notin {"absent", "queued", "offered"}
      BY Zenon DEF Published, Terminal
    <3>2. /\ g.attempt \in Ordinals /\ status[g.attempt] \notin Terminal \cup {"absent"}
          /\ status' = [status EXCEPT ![g.attempt] = s]
          /\ UNCHANGED <<owner, fence, cancelled, deadLetters, reconciled>>
      BY Zenon, <1>10, <1>granted, <2>2 DEF FinalizeAttempt, Terminate, Terminal, Executing
    <3> HIDE DEF s
    <3> QED
      BY Zenon, <3>1, <3>2, QuietStep
  <2> QED
    BY Zenon, <1>10, <2>1, <2>2 DEF FinalizeAttempt
<1>11. ASSUME NEW o \in Ordinals, NEW outcome \in Terminal, FinalizeReconciled(o, outcome)
       PROVE Irrevocable
  <2>1. CancelledNeverOffered' /\ KeepsTerminal /\ MovesFenceByOffer
    BY Zenon, <1>11 DEF FinalizeReconciled, Terminate, CancelledNeverOffered, KeepsTerminal,
       MovesFenceByOffer, RowInv, DecisionInv, TypeOK, Terminal
  <2>2. \A p \in Ordinals : HasRetry(p)' => HasRetry(p)
    BY Zenon, <1>11 DEF FinalizeReconciled, Terminate, HasRetry, RowInv, TypeOK
  <2> QED
    BY Zenon, <1>11, <2>1, <2>2 DEF FinalizeReconciled, Irrevocable, DecisionInv, RetryXorClose
<1>12. ASSUME NEW o \in Ordinals, NEW maxAttempts \in Ordinals, ScheduleRetry(o, maxAttempts)
       PROVE Irrevocable
  <2>1. o + 1 \in Ordinals /\ status[o + 1] = "absent"
    BY <1>12, BoundsAssumption DEF ScheduleRetry, RetryEligible, HasRetry, Ordinals
  <2>2. CancelledNeverOffered' /\ KeepsTerminal /\ MovesFenceByOffer
    BY Zenon, <1>12, <2>1 DEF ScheduleRetry, RetryEligible, CancelledNeverOffered, KeepsTerminal,
       MovesFenceByOffer, RowInv, TypeOK, Terminal
  <2>3. \A p \in Ordinals : HasRetry(p)' => HasRetry(p) \/ p = o
    BY <1>12, <2>1 DEF ScheduleRetry, HasRetry, RowInv, TypeOK, Ordinals
  <2> QED
    BY Zenon, <1>12, <2>2, <2>3 DEF ScheduleRetry, RetryEligible, Irrevocable, DecisionInv, RetryXorClose
<1>13. ASSUME NEW o \in Ordinals, NEW maxAttempts \in Ordinals, DeadLetter(o, maxAttempts)
       PROVE Irrevocable
  <2>1. CancelledNeverOffered' /\ KeepsTerminal /\ MovesFenceByOffer
    BY Zenon, <1>13 DEF DeadLetter, CancelledNeverOffered, KeepsTerminal, MovesFenceByOffer,
       RowInv, DecisionInv, TypeOK, Terminal
  <2>2. \A p \in Ordinals : HasRetry(p)' => HasRetry(p)
    BY Zenon, <1>13 DEF DeadLetter, HasRetry, RowInv, TypeOK
  <2> QED
    BY Zenon, <1>13, <2>1, <2>2 DEF DeadLetter, RetryEligible, Irrevocable, DecisionInv, RetryXorClose
<1>14. ASSUME NEW b \in Backups, ActivateRestoreEpoch(b) PROVE Irrevocable
  <2>1. CancelledNeverOffered' /\ KeepsTerminal /\ MovesFenceByOffer
    BY Zenon, <1>14 DEF ActivateRestoreEpoch, CancelledNeverOffered, KeepsTerminal, MovesFenceByOffer,
       DecisionInv, Terminal, Active
  <2>2. \A p \in Ordinals : HasRetry(p)' => HasRetry(p)
    BY Zenon, <1>14 DEF ActivateRestoreEpoch, HasRetry, Active
  <2> QED
    BY Zenon, <1>14, <2>1, <2>2 DEF ActivateRestoreEpoch, Irrevocable, DecisionInv, RetryXorClose
<1>15. ASSUME FencePipeline \/ \E b \in Backups : SealRecoveryPoint(b) PROVE Irrevocable
  BY Zenon, <1>15, NoDecision DEF FencePipeline, SealRecoveryPoint
<1>16. CASE LedgerCall
  BY Zenon, <1>16, LedgerKeepsTruth, NoDecision DEF truthButEffects
<1>17. CASE UNCHANGED vars
  BY Zenon, <1>17, NoDecision DEF vars
<1> QED
  BY Zenon, <1>1, <1>2, <1>3, <1>4, <1>5, <1>6, <1>7, <1>8, <1>9, <1>10, <1>11, <1>12, <1>13, <1>14,
     <1>15, <1>16, <1>17
     DEF Next, SchedulerStep, OperatorCall, AgentCall, LedgerCall

(* Committed decisions (cancellation, retry, closure, dead letter) are kept, *)
(* by induction on RowInv and DecisionInv together.                          *)
LEMMA DecisionInvariant == Spec => [](RowInv /\ DecisionInv)
<1>1. Init => DecisionInv
  BY Zenon, BoundsAssumption DEF Init, DecisionInv, CancelledNeverOffered, RetryXorClose, HasRetry, Ordinals
<1>2. RowInv /\ DecisionInv /\ [Next]_vars => DecisionInv'
  BY Zenon, DecisionStep DEF Irrevocable
<1>3. RowInv /\ [Next]_vars => RowInv'
  BY Zenon, RowStep
<1> QED
  BY <1>1, <1>2, <1>3, RowInit, PTL DEF Spec

(* Once a cancellation committed, no attempt of the build is queued or       *)
(* offered again.                                                            *)
THEOREM CancellationIsKept == Spec => []CancelledNeverOffered
<1>1. DecisionInv => CancelledNeverOffered
  BY Zenon DEF DecisionInv
<1> QED
  BY <1>1, DecisionInvariant, PTL

(* Giving an attempt a child, closing it and dead-lettering it exclude each  *)
(* other.                                                                    *)
THEOREM RetryExcludesClosure == Spec => []RetryXorClose
<1>1. DecisionInv => RetryXorClose
  BY Zenon DEF DecisionInv
<1> QED
  BY <1>1, DecisionInvariant, PTL

(* No step of the store changes the status, fence or owner of a terminal     *)
(* attempt.                                                                  *)
THEOREM TerminalStays == Spec => TerminalIsFinal
<1>1. RowInv /\ DecisionInv /\ [Next]_vars => [KeepsTerminal]_vars
  BY Zenon, DecisionStep DEF Irrevocable
<1> QED
  BY <1>1, DecisionInvariant, PTL DEF Spec, TerminalIsFinal

(* A fence moves only by one and only with an offer from the queue. *)
THEOREM FenceMovesWithOffer == Spec => FenceGrowsByOffer
<1>1. RowInv /\ DecisionInv /\ [Next]_vars => [MovesFenceByOffer]_vars
  BY Zenon, DecisionStep DEF Irrevocable
<1> QED
  BY <1>1, DecisionInvariant, PTL DEF Spec, FenceGrowsByOffer
=============================================================================
