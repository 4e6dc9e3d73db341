---------------------------- MODULE DagBuildProofs ----------------------------
(***************************************************************************)
(* Proofs about DagBuild: for every set of nodes, every admissible graph   *)
(* and all bounds, the rows of a node agree with one another while the     *)
(* pipeline is enabled, the build's status reports its nodes, and          *)
(* advance_blocked_nodes ends at a fixpoint.                               *)
(***************************************************************************)
EXTENDS DagBuild, WellFoundedInduction, FiniteSetTheorems, TLAPS

(* The status of node row r goes with its latest attempt. *)
Agrees(r) ==
    \/ r.status \in {"blocked", "queued"} /\ r.attempt = "queued"
    \/ r.status = "offered" /\ r.attempt \in {"offered", "finalizing", "cancelling"}
    \/ r.status = "running" /\ r.attempt \in Executing
    \/ r.status \in Terminal \cup {"reconciliation_required"} /\ r.attempt = r.status
    \/ r.status = "skipped" /\ r.attempt = "aborted"

(* ... and its logical outcome with its status. *)
HasOutcome(r) == r.outcome = IF r.status \in Settled THEN r.status ELSE "none"

(* What an enabled pipeline keeps of row r of node n; D is the dead letters. *)
Fits(D, n, r) == Agrees(r) /\ (HasOutcome(r) \/ <<n, r.ordinal>> \in D)

(* A dead letter is about an attempt that failed and that no later step      *)
(* changes.                                                                  *)
Lettered(D, w) ==
    \A l \in D : /\ l[2] <= w[l[1]].ordinal
                 /\ l[2] = w[l[1]].ordinal => w[l[1]].attempt = "failed"

(* Without dead letters, a node that failed or was aborted has that outcome. *)
Named(D, w) ==
    D = {} => \A n \in Nodes : w[n].status \in {"failed", "aborted"} => w[n].outcome = w[n].status

Sound(D, w) ==
    /\ w \in [Nodes -> Rows]
    /\ \A n \in Nodes : Fits(D, n, w[n])
    /\ Lettered(D, w)

(* What BuildReportsNodes says of rows w and build status b. *)
Reports(D, w, b) ==
    D = {} =>
        /\ b \in Terminal <=> \A n \in Nodes : w[n].status \in Settled
        /\ b = "succeeded" => \A n \in Nodes : w[n].status \in {"succeeded", "skipped"}
        /\ b = "reconciliation_required" => \E n \in Nodes : w[n].status = "reconciliation_required"

(* The inductive invariant. *)
DagInv ==
    /\ TypeOK
    /\ enabled => \A n \in Nodes : Fits(deadLetters, n, work[n])
    /\ Lettered(deadLetters, work)
    /\ Named(deadLetters, work)
    /\ Reports(deadLetters, work, build)

-----------------------------------------------------------------------------
(* The rounds of advance_blocked_nodes. *)

(* Every nonempty set of naturals has a least element. *)
LEMMA LeastNatural ==
  ASSUME NEW S, S \subseteq Nat, S # {}
  PROVE  \E i \in S : \A j \in S : i <= j
<1>1. PICK i \in S : \A j \in S : ~ (<<j, i>> \in OpToRel(<, Nat))
  BY Zenon, NatLessThanWellFounded, WFMin
<1>2. \A j \in S : j \in Nat /\ i \in Nat /\ ~(j < i)
  BY Zenon, <1>1 DEF OpToRel
<1> QED
  BY <1>2

(* The number of nodes is a natural number (a contract's nodes are finite). *)
LEMMA NodeCount ==
  Cardinality(Nodes) \in Nat
BY ContractsAssumption, FS_CardinalityType

(* The recursive definition in AdvanceBlocked has a solution: the rounds     *)
(* exist up to any number, by the least number that has none.                *)
LEMMA RoundsExist ==
  ASSUME NEW w, NEW N \in Nat
  PROVE  \E f : f = [i \in 0 .. N |-> IF i = 0 THEN w ELSE AdvanceRound(f[i - 1])]
<1> DEFINE Upto(k, f) == f = [i \in 0 .. k |-> IF i = 0 THEN w ELSE AdvanceRound(f[i - 1])]
           Missing == {k \in Nat : ~ \E f : Upto(k, f)}
<1>1. SUFFICES Missing = {}
  BY Zenon, <1>1
<1>2. SUFFICES ASSUME Missing # {} PROVE FALSE
  OBVIOUS
<1>3. PICK k \in Missing : \A j \in Missing : k <= j
  <2> HIDE DEF Upto
  <2> QED BY Zenon, <1>2, LeastNatural
<1>4. k \in Nat /\ ~ \E f : Upto(k, f)
  BY <1>3
<1>5. k # 0
  <2>1. Upto(0, [i \in 0 .. 0 |-> w])
    OBVIOUS
  <2> QED
    BY Zenon, <2>1, <1>4
<1>6. PICK g : Upto(k - 1, g)
  BY <1>3, <1>4, <1>5
<1>7. Upto(k, [i \in 0 .. k |-> IF i = 0 THEN w ELSE AdvanceRound(g[i - 1])])
  <2> DEFINE f == [i \in 0 .. k |-> IF i = 0 THEN w ELSE AdvanceRound(g[i - 1])]
  <2>1. \A i \in 0 .. k - 1 : g[i] = IF i = 0 THEN w ELSE AdvanceRound(g[i - 1])
    BY <1>6
  <2>2. \A i \in 0 .. k - 1 : f[i] = g[i]
    BY <2>1, <1>4, <1>5
  <2> HIDE DEF f
  <2>3. \A i \in 0 .. k : i # 0 => f[i - 1] = g[i - 1]
    BY <2>2, <1>4
  <2>4. \A i \in 0 .. k : (IF i = 0 THEN w ELSE AdvanceRound(g[i - 1]))
                          = (IF i = 0 THEN w ELSE AdvanceRound(f[i - 1]))
    BY <2>3
  <2> QED
    BY Zenon, <2>4 DEF f
<1> QED
  BY Zenon, <1>4, <1>7

(* AdvanceBlocked is the last of the rounds. *)
LEMMA Rounds ==
  ASSUME NEW w
  PROVE  \E f : /\ f[0] = w
                /\ \A i \in 1 .. Cardinality(Nodes) : f[i] = AdvanceRound(f[i - 1])
                /\ AdvanceBlocked(w) = f[Cardinality(Nodes)]
<1> DEFINE after == CHOOSE f :
       f = [i \in 0 .. Cardinality(Nodes) |-> IF i = 0 THEN w ELSE AdvanceRound(f[i - 1])]
<1>1. AdvanceBlocked(w) = after[Cardinality(Nodes)]
  BY DEF AdvanceBlocked
<1>2. after = [i \in 0 .. Cardinality(Nodes) |-> IF i = 0 THEN w ELSE AdvanceRound(after[i - 1])]
  BY RoundsExist, NodeCount
<1> HIDE DEF after
<1>3. after[0] = w /\ \A i \in 1 .. Cardinality(Nodes) : after[i] = AdvanceRound(after[i - 1])
  BY <1>2, NodeCount
<1> QED
  BY <1>1, <1>3

(* Induction up to a bound, for the set K of the rounds of which a property  *)
(* holds (the rounds that break it would have a least member).               *)
LEMMA RoundsKeep ==
  ASSUME NEW N \in Nat, NEW K,
         0 \in K, \A i \in 1 .. N : i - 1 \in K => i \in K
  PROVE  N \in K
<1> DEFINE Broken == {i \in 0 .. N : i \notin K}
<1>1. SUFFICES ASSUME Broken # {} PROVE FALSE
  OBVIOUS
<1>2. PICK i \in Broken : \A j \in Broken : i <= j
  <2>1. Broken \subseteq Nat
    OBVIOUS
  <2> HIDE DEF Broken
  <2> QED
    BY Zenon, <1>1, <2>1, LeastNatural
<1>3. i \in 1 .. N /\ i - 1 \in 0 .. N /\ i - 1 \notin Broken
  BY <1>2
<1> QED
  BY <1>2, <1>3

-----------------------------------------------------------------------------
(* The graph operators keep the rows sound. *)

(* The row values a graph operator starts from. *)
LEMMA RowFields ==
  ASSUME NEW r \in Rows
  PROVE  /\ r.status \in NodeStatuses /\ r.outcome \in Settled \cup {"none"}
         /\ r.stamped \in BOOLEAN /\ r.budget \in 1 .. MaxOrdinal
         /\ r.attempt \in AttemptStatuses /\ r.ordinal \in 1 .. MaxOrdinal
         /\ r.failFastSkipped \in BOOLEAN /\ r.ran \in BOOLEAN
         /\ r.effects \in {"none", "settled", "open"}
BY DEF Rows

(* A row whose attempt is queued is not a dead letter, so it has no outcome  *)
(* yet.                                                                      *)
LEMMA WaitingHasNone ==
  ASSUME NEW D, NEW w, Sound(D, w), NEW n \in Nodes, w[n].attempt # "failed"
  PROVE  <<n, w[n].ordinal>> \notin D /\ HasOutcome(w[n])
<1>1. <<n, w[n].ordinal>> \notin D
  <2>1. SUFFICES ASSUME <<n, w[n].ordinal>> \in D PROVE FALSE
    OBVIOUS
  <2>2. PICK l : l = <<n, w[n].ordinal>>
    BY Zenon
  <2>3. l \in D /\ l[1] = n /\ l[2] = w[n].ordinal
    BY <2>1, <2>2
  <2> QED
    BY Zenon, <2>3 DEF Sound, Lettered
<1> QED
  BY Zenon, <1>1 DEF Sound, Fits

(* To show rows v sound after w: each row of v is a row, fits, has the       *)
(* ordinal it had, and a failed attempt stays failed.                        *)
LEMMA SoundAfter ==
  ASSUME NEW D, D \subseteq Nodes \X (1 .. MaxOrdinal), NEW w, Sound(D, w),
         NEW v, v = [n \in Nodes |-> v[n]],
         \A n \in Nodes : /\ v[n] \in Rows /\ Agrees(v[n])
                          /\ v[n] = w[n] \/ HasOutcome(v[n])
                          /\ v[n].ordinal = w[n].ordinal
                          /\ w[n].attempt = "failed" => v[n].attempt = "failed"
  PROVE  Sound(D, v)
<1>1. v \in [Nodes -> Rows]
  OBVIOUS
<1>2. \A n \in Nodes : Fits(D, n, v[n])
  BY Zenon DEF Sound, Fits
<1>3. Lettered(D, v)
  <2>1. \A l \in D : l[1] \in Nodes
    OBVIOUS
  <2> QED
    BY Zenon, <2>1 DEF Sound, Lettered
<1> QED
  BY Zenon, <1>1, <1>2, <1>3 DEF Sound

LEMMA CancelSound ==
  ASSUME NEW D, D \subseteq Nodes \X (1 .. MaxOrdinal), NEW w, Sound(D, w), NEW n
  PROVE  Sound(D, CancelActive(w, n, {"offered", "running"}))
<1> DEFINE v == CancelActive(w, n, {"offered", "running"})
<1>1. v = [m \in Nodes |-> v[m]]
  BY DEF CancelActive
<1>2. ASSUME NEW m \in Nodes
      PROVE  /\ v[m] \in Rows /\ Agrees(v[m])
             /\ v[m] = w[m] \/ HasOutcome(v[m])
             /\ v[m].ordinal = w[m].ordinal
             /\ w[m].attempt = "failed" => v[m].attempt = "failed"
  <2>1. w[m] \in Rows /\ Agrees(w[m])
    BY Zenon DEF Sound, Fits
  <2>2. CASE ~(m # n /\ w[m].status \in {"offered", "running"})
    <3>1. v[m] = w[m]
      BY <2>2 DEF CancelActive
    <3> QED
      BY <3>1, <2>1
  <2>3. CASE m # n /\ w[m].status \in {"offered", "running"}
    <3>1. v[m] = [w[m] EXCEPT !.stamped = TRUE,
                              !.attempt = IF @ \in Active THEN "cancelling" ELSE @]
      BY <2>3 DEF CancelActive
    <3>2. w[m].attempt \in Active /\ w[m].attempt # "failed"
      BY <2>3, <2>1 DEF Agrees, Executing, Active, Terminal
    <3>3. v[m] = [w[m] EXCEPT !.stamped = TRUE, !.attempt = "cancelling"]
      BY <3>1, <3>2
    <3>4. HasOutcome(w[m])
      BY Zenon, <3>2, WaitingHasNone
    <3> HIDE DEF v
    <3>5. /\ v[m].status = w[m].status /\ v[m].outcome = w[m].outcome
          /\ v[m].ordinal = w[m].ordinal /\ v[m].attempt = "cancelling"
      BY <3>3, <2>1 DEF Rows
    <3>6. v[m] \in Rows
      BY Zenon, <3>3, <2>1 DEF Rows, AttemptStatuses, Active
    <3>7. Agrees(v[m]) /\ HasOutcome(v[m])
      BY <3>5, <3>4, <2>3 DEF Agrees, HasOutcome, Executing, Active
    <3> QED
      BY <3>2, <3>5, <3>6, <3>7
  <2> QED
    BY Zenon, <2>2, <2>3
<1> HIDE DEF v
<1>3. Sound(D, v)
  BY <1>1, <1>2, SoundAfter
<1> QED
  BY <1>3 DEF v

LEMMA SkipSound ==
  ASSUME NEW D, D \subseteq Nodes \X (1 .. MaxOrdinal), NEW w, Sound(D, w)
  PROVE  Sound(D, SkipUnstarted(w))
<1> DEFINE v == SkipUnstarted(w)
<1>1. v = [m \in Nodes |-> v[m]]
  BY DEF SkipUnstarted
<1>2. ASSUME NEW m \in Nodes
      PROVE  /\ v[m] \in Rows /\ Agrees(v[m])
             /\ v[m] = w[m] \/ HasOutcome(v[m])
             /\ v[m].ordinal = w[m].ordinal
             /\ w[m].attempt = "failed" => v[m].attempt = "failed"
  <2>1. w[m] \in Rows /\ Agrees(w[m])
    BY Zenon DEF Sound, Fits
  <2>2. CASE ~(w[m].status \in {"blocked", "queued"} /\ m \notin contract.post)
    <3>1. v[m] = w[m]
      BY <2>2 DEF SkipUnstarted
    <3> QED
      BY <3>1, <2>1
  <2>3. CASE w[m].status \in {"blocked", "queued"} /\ m \notin contract.post
    <3>1. w[m].attempt = "queued"
      BY <2>3, <2>1 DEF Agrees, Terminal
    <3>2. w[m].outcome = "none"
      <4>1. HasOutcome(w[m])
        BY Zenon, <3>1, WaitingHasNone
      <4> QED
        BY <4>1, <2>3 DEF HasOutcome, Settled, Terminal
    <3>3. v[m] = [w[m] EXCEPT !.status = "skipped", !.outcome = "skipped",
                              !.failFastSkipped = TRUE, !.attempt = "aborted"]
      BY Zenon, <2>1, <2>3, <3>1, <3>2 DEF SkipUnstarted, Rows
    <3> HIDE DEF v
    <3>4. /\ v[m].status = "skipped" /\ v[m].outcome = "skipped"
          /\ v[m].ordinal = w[m].ordinal /\ v[m].attempt = "aborted"
      BY <3>3, <2>1 DEF Rows
    <3>5. v[m] \in Rows
      BY ZenonT(60), <3>3, <2>1 DEF Rows, AttemptStatuses, Active, Terminal, NodeStatuses, Settled
    <3>6. Agrees(v[m]) /\ HasOutcome(v[m])
      BY <3>4 DEF Agrees, HasOutcome, Settled
    <3> QED
      BY <3>1, <3>4, <3>5, <3>6
  <2> QED
    BY Zenon, <2>2, <2>3
<1> HIDE DEF v
<1>3. Sound(D, v)
  BY <1>1, <1>2, SoundAfter
<1> QED
  BY <1>3 DEF v

LEMMA RoundSound ==
  ASSUME NEW D, D \subseteq Nodes \X (1 .. MaxOrdinal), NEW w, Sound(D, w)
  PROVE  Sound(D, AdvanceRound(w))
<1> DEFINE v == AdvanceRound(w)
<1>1. v = [m \in Nodes |-> v[m]]
  BY DEF AdvanceRound
<1>2. ASSUME NEW m \in Nodes
      PROVE  /\ v[m] \in Rows /\ Agrees(v[m])
             /\ v[m] = w[m] \/ HasOutcome(v[m])
             /\ v[m].ordinal = w[m].ordinal
             /\ w[m].attempt = "failed" => v[m].attempt = "failed"
  <2>1. w[m] \in Rows /\ Agrees(w[m])
    BY Zenon DEF Sound, Fits
  <2>2. CASE w[m].status # "blocked"
    <3>1. v[m] = w[m]
      BY <2>2 DEF AdvanceRound
    <3> QED
      BY <3>1, <2>1
  <2>3. CASE w[m].status = "blocked"
    <3>1. w[m].attempt = "queued"
      BY <2>3, <2>1 DEF Agrees, Terminal
    <3>2. w[m].outcome = "none"
      <4>1. HasOutcome(w[m])
        BY Zenon, <3>1, WaitingHasNone
      <4> QED
        BY <4>1, <2>3 DEF HasOutcome, Settled, Terminal
    <3>3. \/ v[m] = w[m]
          \/ v[m] = [w[m] EXCEPT !.status = "skipped", !.outcome = "skipped", !.attempt = "aborted"]
          \/ v[m] = [w[m] EXCEPT !.status = "queued"]
      BY Zenon, <2>1, <2>3, <3>1 DEF AdvanceRound, Rows
    <3> HIDE DEF v
    <3>4. CASE v[m] = [w[m] EXCEPT !.status = "skipped", !.outcome = "skipped", !.attempt = "aborted"]
      <4>1. /\ v[m].status = "skipped" /\ v[m].outcome = "skipped"
            /\ v[m].ordinal = w[m].ordinal /\ v[m].attempt = "aborted"
        BY <3>4, <2>1 DEF Rows
      <4>2. v[m] \in Rows
        BY ZenonT(60), <3>4, <2>1 DEF Rows, AttemptStatuses, Active, Terminal, NodeStatuses, Settled
      <4>3. Agrees(v[m]) /\ HasOutcome(v[m])
        BY <4>1 DEF Agrees, HasOutcome, Settled
      <4> QED
        BY <3>1, <4>1, <4>2, <4>3
    <3>5. CASE v[m] = [w[m] EXCEPT !.status = "queued"]
      <4>1. /\ v[m].status = "queued" /\ v[m].outcome = "none"
            /\ v[m].ordinal = w[m].ordinal /\ v[m].attempt = "queued"
        BY <3>5, <3>1, <3>2, <2>1 DEF Rows
      <4>2. v[m] \in Rows
        BY <3>5, <2>1 DEF Rows, NodeStatuses
      <4>3. Agrees(v[m]) /\ HasOutcome(v[m])
        BY <4>1 DEF Agrees, HasOutcome, Settled, Terminal
      <4> QED
        BY <3>1, <4>1, <4>2, <4>3
    <3> QED
      BY Zenon, <2>1, <3>3, <3>4, <3>5
  <2> QED
    BY Zenon, <2>2, <2>3
<1> HIDE DEF v
<1>3. Sound(D, v)
  BY <1>1, <1>2, SoundAfter
<1> QED
  BY <1>3 DEF v

(* All the rounds of advance_blocked_nodes keep the rows sound. *)
LEMMA AdvanceBlockedSound ==
  ASSUME NEW D, D \subseteq Nodes \X (1 .. MaxOrdinal), NEW w, Sound(D, w)
  PROVE  Sound(D, AdvanceBlocked(w))
<1>1. PICK f : /\ f[0] = w
               /\ \A i \in 1 .. Cardinality(Nodes) : f[i] = AdvanceRound(f[i - 1])
               /\ AdvanceBlocked(w) = f[Cardinality(Nodes)]
  BY Zenon, Rounds
<1> DEFINE K == {i \in 0 .. Cardinality(Nodes) : Sound(D, f[i])}
<1>2. 0 \in K
  BY <1>1, NodeCount
<1>3. ASSUME NEW i \in 1 .. Cardinality(Nodes), i - 1 \in K PROVE i \in K
  <2>1. Sound(D, AdvanceRound(f[i - 1]))
    BY Zenon, <1>3, RoundSound
  <2> QED
    BY <1>1, <2>1, NodeCount
<1> HIDE DEF K
<1>4. Cardinality(Nodes) \in K
  BY <1>2, <1>3, NodeCount, RoundsKeep
<1> QED
  BY Zenon, <1>1, <1>4 DEF K

-----------------------------------------------------------------------------
(* advance_blocked_nodes ends at a fixpoint. *)

Waiting(w) == {n \in Nodes : w[n].status = "blocked"}

(* A round blocks no node, and one that changes a row of a blocked node      *)
(* leaves fewer blocked.                                                     *)
LEMMA RoundReleases ==
  ASSUME NEW w, w \in [Nodes -> Rows]
  PROVE  /\ AdvanceRound(w) \in [Nodes -> Rows]
         /\ Waiting(AdvanceRound(w)) \subseteq Waiting(w)
         /\ Waiting(AdvanceRound(w)) = Waiting(w) => AdvanceRound(w) = w
<1> DEFINE v == AdvanceRound(w)
<1>1. v = [m \in Nodes |-> v[m]]
  BY DEF AdvanceRound
<1>2. ASSUME NEW m \in Nodes
      PROVE  /\ v[m] \in Rows
             /\ v[m] = w[m] \/ (w[m].status = "blocked" /\ v[m].status # "blocked")
  <2>1. w[m] \in Rows
    OBVIOUS
  <2>2. \/ v[m] = w[m]
        \/ /\ w[m].status = "blocked"
           /\ v[m] = [w[m] EXCEPT !.status = "skipped", !.outcome = "skipped",
                                  !.attempt = IF @ = "queued" THEN "aborted" ELSE @]
        \/ w[m].status = "blocked" /\ v[m] = [w[m] EXCEPT !.status = "queued"]
    BY Zenon, <2>1 DEF AdvanceRound, Rows
  <2> HIDE DEF v
  <2>3. CASE /\ w[m].status = "blocked"
             /\ v[m] = [w[m] EXCEPT !.status = "skipped", !.outcome = "skipped",
                                    !.attempt = IF @ = "queued" THEN "aborted" ELSE @]
    BY Zenon, <2>1, <2>3 DEF Rows, NodeStatuses, Settled, AttemptStatuses, Terminal
  <2>4. CASE w[m].status = "blocked" /\ v[m] = [w[m] EXCEPT !.status = "queued"]
    BY <2>1, <2>4 DEF Rows, NodeStatuses
  <2> QED
    BY Zenon, <2>1, <2>2, <2>3, <2>4
<1> HIDE DEF v
<1>3. v \in [Nodes -> Rows]
  BY <1>1, <1>2
<1>4. Waiting(v) \subseteq Waiting(w)
  BY Zenon, <1>2 DEF Waiting
<1>5. ASSUME Waiting(v) = Waiting(w) PROVE v = w
  <2>1. \A m \in Nodes : v[m] = w[m]
    BY Zenon, <1>2, <1>5 DEF Waiting
  <2> QED
    BY <2>1, <1>3
<1> QED
  BY <1>3, <1>4, <1>5 DEF v

(* advance_blocked_nodes repeats its round until a round changes nothing.    *)
(* As many rounds as the build has nodes are enough: one more changes        *)
(* nothing, so nothing that became impossible is left unskipped and nothing  *)
(* that became ready unqueued, for every graph.                              *)
THEOREM AdvanceReachesFixpoint ==
  ASSUME NEW w, w \in [Nodes -> Rows]
  PROVE  AdvanceRound(AdvanceBlocked(w)) = AdvanceBlocked(w)
<1> DEFINE N == Cardinality(Nodes)
<1>1. PICK f : /\ f[0] = w
               /\ \A i \in 1 .. N : f[i] = AdvanceRound(f[i - 1])
               /\ AdvanceBlocked(w) = f[N]
  BY Zenon, Rounds
<1>n. N \in Nat
  BY NodeCount
(* After i rounds the rows rest, or i nodes at least are no longer blocked. *)
<1> DEFINE Rests(v) == AdvanceRound(v) = v
           K == {i \in 0 .. N : /\ f[i] \in [Nodes -> Rows]
                                /\ Rests(f[i]) \/ Cardinality(Waiting(f[i])) <= N - i}
<1>w. ASSUME NEW v
      PROVE  /\ IsFiniteSet(Waiting(v)) /\ Cardinality(Waiting(v)) \in Nat
             /\ Cardinality(Waiting(v)) <= N
  <2>1. Waiting(v) \in SUBSET Nodes
    BY DEF Waiting
  <2>2. IsFiniteSet(Nodes)
    BY ContractsAssumption
  <2> QED
    BY <2>1, <2>2, FS_Subset, FS_CardinalityType
<1> HIDE DEF N
<1>2. 0 \in K
  <2>1. Cardinality(Waiting(w)) <= N - 0
    BY <1>w, <1>n
  <2> QED
    BY <1>1, <1>n, <2>1
<1>3. ASSUME NEW i \in 1 .. N, i - 1 \in K PROVE i \in K
  <2>1. f[i] = AdvanceRound(f[i - 1]) /\ f[i - 1] \in [Nodes -> Rows]
    BY <1>1, <1>3
  <2>2. f[i] \in [Nodes -> Rows]
    BY <2>1, RoundReleases
  <2>3. CASE Rests(f[i - 1])
    <3>1. f[i] = f[i - 1]
      BY <2>1, <2>3
    <3>2. Rests(f[i])
      BY Zenon, <2>1, <3>1
    <3> QED
      BY <2>2, <3>2, <1>n
  <2>4. CASE ~Rests(f[i - 1])
    <3>1. Cardinality(Waiting(f[i - 1])) <= N - (i - 1)
      BY <1>3, <2>4
    <3>2. Waiting(f[i]) \in SUBSET Waiting(f[i - 1]) /\ Waiting(f[i]) # Waiting(f[i - 1])
      BY <2>1, <2>4, RoundReleases
    <3>3. Cardinality(Waiting(f[i])) < Cardinality(Waiting(f[i - 1]))
      <4>1. /\ Cardinality(Waiting(f[i])) <= Cardinality(Waiting(f[i - 1]))
            /\ Cardinality(Waiting(f[i - 1])) # Cardinality(Waiting(f[i]))
        BY <3>2, <1>w, FS_Subset
      <4> QED
        BY <4>1, <1>w
    <3>4. Cardinality(Waiting(f[i])) <= N - i
      BY <3>1, <3>3, <1>w, <1>n
    <3> QED
      BY <2>2, <3>4, <1>n
  <2> QED
    BY <2>3, <2>4
<1>4. N \in K
  <2> HIDE DEF K
  <2> QED
    BY <1>2, <1>3, <1>n, RoundsKeep
<1>5. CASE Rests(f[N])
  BY <1>1, <1>5
<1>6. CASE Cardinality(Waiting(f[N])) <= N - N
  <2>1. Waiting(f[N]) = {}
    BY <1>6, <1>n, <1>w, FS_EmptySet
  <2>2. f[N] \in [Nodes -> Rows]
    BY <1>4
  <2>3. Waiting(AdvanceRound(f[N])) = Waiting(f[N])
    BY <2>1, <2>2, RoundReleases
  <2> QED
    BY <1>1, <2>2, <2>3, RoundReleases
<1> QED
  BY <1>4, <1>5, <1>6

-----------------------------------------------------------------------------
(* The build's status. *)

BuildStatuses == {"queued", "running", "reconciliation_required"} \cup Terminal

(* derive_build_outcome reports the nodes. *)
LEMMA DerivedReports ==
  ASSUME NEW D, NEW w, Named(D, w), NEW c
  PROVE  DerivedBuild(w, c) \in BuildStatuses /\ Reports(D, w, DerivedBuild(w, c))
<1> DEFINE b == DerivedBuild(w, c)
<1>1. CASE \A n \in Nodes : w[n].status \in Settled
  <2>1. /\ b \in Terminal
        /\ b = "succeeded" => \A n \in Nodes : w[n].outcome # "failed" /\ w[n].outcome # "aborted"
        /\ b # "reconciliation_required"
    BY <1>1 DEF DerivedBuild, Terminal
  <2> HIDE DEF b
  <2>2. ASSUME D = {}, b = "succeeded", NEW n \in Nodes
        PROVE  w[n].status \in {"succeeded", "skipped"}
    BY <1>1, <2>1, <2>2 DEF Named, Settled, Terminal
  <2>3. b \in BuildStatuses /\ Reports(D, w, b)
    BY <1>1, <2>1, <2>2 DEF Reports, BuildStatuses
  <2> QED
    BY <2>3 DEF b
<1>2. CASE ~ \A n \in Nodes : w[n].status \in Settled
  <2>1. /\ b \in {"queued", "running", "reconciliation_required"}
        /\ b = "reconciliation_required" =>
              \E n \in Nodes : w[n].status = "reconciliation_required"
    BY <1>2 DEF DerivedBuild
  <2> HIDE DEF b
  <2>2. b \in BuildStatuses /\ Reports(D, w, b)
    BY <1>2, <2>1 DEF Reports, BuildStatuses, Terminal
  <2> QED
    BY <2>2 DEF b
<1> QED
  BY <1>1, <1>2

(* Sound rows name the outcomes of nodes that failed or were aborted. *)
LEMMA SoundNamed ==
  ASSUME NEW D, NEW w, Sound(D, w)
  PROVE  Named(D, w)
<1>1. ASSUME D = {}, NEW n \in Nodes PROVE HasOutcome(w[n])
  BY <1>1 DEF Sound, Fits
<1> QED
  BY <1>1 DEF Named, HasOutcome, Settled, Terminal

-----------------------------------------------------------------------------
(* An attempt that ends. *)

(* What an ended attempt leaves to be kept: the rows are typed, the dead     *)
(* letters are about other attempts, and, in an enabled pipeline, the other  *)
(* nodes' rows fit and the node itself has no outcome yet.                   *)
Ending(D, w, n) ==
    /\ w \in [Nodes -> Rows]
    /\ Lettered(D, w) /\ <<n, w[n].ordinal>> \notin D
    /\ Named(D, w)
    /\ enabled => /\ \A m \in Nodes \ {n} : Fits(D, m, w[m])
                  /\ w[n].outcome = "none"

(* The current attempt of a node at work, or parked, is no dead letter; and  *)
(* in an enabled pipeline its node has no outcome yet.                       *)
LEMMA AtWork ==
  ASSUME DagInv, NEW n \in Nodes, work[n].attempt \in Active \cup {"reconciliation_required"}
  PROVE  /\ <<n, work[n].ordinal>> \notin deadLetters
         /\ enabled => /\ work[n].outcome = "none"
                       /\ work[n].status \in {"offered", "running", "reconciliation_required"}
<1>1. work[n].attempt # "failed"
  BY DEF Active
<1>2. <<n, work[n].ordinal>> \notin deadLetters
  <2>1. SUFFICES ASSUME <<n, work[n].ordinal>> \in deadLetters PROVE FALSE
    OBVIOUS
  <2>2. PICK l : l = <<n, work[n].ordinal>>
    BY Zenon
  <2>3. l \in deadLetters /\ l[1] = n /\ l[2] = work[n].ordinal
    BY <2>1, <2>2
  <2> QED
    BY Zenon, <1>1, <2>3 DEF DagInv, Lettered
<1>3. ASSUME enabled
      PROVE  /\ work[n].outcome = "none"
             /\ work[n].status \in {"offered", "running", "reconciliation_required"}
  <2>1. Agrees(work[n]) /\ HasOutcome(work[n])
    BY Zenon, <1>2, <1>3 DEF DagInv, Fits
  <2>2. work[n].status \in {"offered", "running", "reconciliation_required"}
    BY <2>1 DEF Agrees, Active, Terminal
  <2> QED
    BY <2>1, <2>2 DEF HasOutcome, Settled, Terminal
<1> QED
  BY Zenon, <1>2, <1>3

LEMMA EndingHere ==
  ASSUME DagInv, NEW n \in Nodes, NEW outcome \in Terminal,
         work[n].attempt \in Active \cup {"reconciliation_required"}
  PROVE  Ending(deadLetters, [work EXCEPT ![n].attempt = outcome], n)
<1> DEFINE w == [work EXCEPT ![n].attempt = outcome]
<1>1. work \in [Nodes -> Rows] /\ deadLetters \subseteq Nodes \X (1 .. MaxOrdinal)
  BY DEF DagInv, TypeOK
<1>2. w \in [Nodes -> Rows]
  BY <1>1 DEF Rows, AttemptStatuses
<1>3. /\ \A m \in Nodes \ {n} : w[m] = work[m]
      /\ w[n].ordinal = work[n].ordinal /\ w[n].status = work[n].status
      /\ w[n].outcome = work[n].outcome
  BY <1>1 DEF Rows
<1> HIDE DEF w
<1>4. <<n, w[n].ordinal>> \notin deadLetters /\ (enabled => w[n].outcome = "none")
  BY <1>3, AtWork
<1>5. Lettered(deadLetters, w)
  <2>1. ASSUME NEW l \in deadLetters
        PROVE  /\ l[2] <= w[l[1]].ordinal
               /\ l[2] = w[l[1]].ordinal => w[l[1]].attempt = "failed"
    <3>1. l[1] \in Nodes /\ l = <<l[1], l[2]>>
      BY <1>1
    <3>2. /\ l[2] <= work[l[1]].ordinal
          /\ l[2] = work[l[1]].ordinal => work[l[1]].attempt = "failed"
      BY Zenon DEF DagInv, Lettered
    <3>3. CASE l[1] = n
      BY <1>3, <1>4, <3>1, <3>2, <3>3
    <3>4. CASE l[1] # n
      BY <1>3, <3>1, <3>2, <3>4
    <3> QED
      BY <3>3, <3>4
  <2> QED
    BY Zenon, <2>1 DEF Lettered
<1>6. Named(deadLetters, w)
  <2>1. \A m \in Nodes : w[m].status = work[m].status /\ w[m].outcome = work[m].outcome
    BY <1>3
  <2> QED
    BY Zenon, <2>1 DEF DagInv, Named
<1>7. enabled => \A m \in Nodes \ {n} : Fits(deadLetters, m, w[m])
  BY <1>3 DEF DagInv
<1>8. Ending(deadLetters, w, n)
  BY Zenon, <1>2, <1>4, <1>5, <1>6, <1>7 DEF Ending
<1> QED
  BY <1>8 DEF w

(* Rows v keep what Lettered and Named say of rows w: no ordinal changes, a  *)
(* failed attempt stays failed, and what fails or aborts gets its outcome.   *)
LEMMA LettersStay ==
  ASSUME NEW D, D \subseteq Nodes \X (1 .. MaxOrdinal), NEW w, NEW v, Lettered(D, w),
         \A m \in Nodes : /\ v[m].ordinal = w[m].ordinal
                          /\ w[m].attempt = "failed" => v[m].attempt = "failed"
  PROVE  Lettered(D, v)
<1>1. \A l \in D : l[1] \in Nodes
  OBVIOUS
<1> QED
  BY Zenon, <1>1 DEF Lettered

(* fence_unstarted_dag_work, as far as the dead letters and the outcomes of  *)
(* failed and aborted nodes go.                                              *)
LEMMA FenceKeeps ==
  ASSUME NEW D, D \subseteq Nodes \X (1 .. MaxOrdinal), NEW w, w \in [Nodes -> Rows],
         Lettered(D, w), Named(D, w), NEW n \in Nodes
  PROVE  /\ FenceUnstarted(w, n) \in [Nodes -> Rows]
         /\ Lettered(D, FenceUnstarted(w, n))
         /\ Named(D, FenceUnstarted(w, n))
<1> DEFINE v == FenceUnstarted(w, n)
<1>1. v = [m \in Nodes |-> v[m]]
  BY DEF FenceUnstarted, CancelActive
<1>2. ASSUME NEW m \in Nodes
      PROVE  /\ v[m] \in Rows /\ v[m].ordinal = w[m].ordinal
             /\ w[m].attempt = "failed" => v[m].attempt = "failed"
             /\ \/ v[m].status = w[m].status /\ v[m].outcome = w[m].outcome
                \/ v[m].status = "aborted" /\ v[m].outcome = "aborted"
  <2>1. w[m] \in Rows
    OBVIOUS
  <2>2. CASE m = n
    <3>1. v[m] = w[m]
      BY <2>2 DEF FenceUnstarted, CancelActive
    <3> QED
      BY <2>1, <3>1
  <2>3. CASE m # n
    <3> DEFINE abort == w[m].status \in {"blocked", "queued", "offered"} /\ w[m].outcome = "none"
               ended == IF w[m].attempt \in {"queued", "offered"} THEN "aborted" ELSE w[m].attempt
               r == [w[m] EXCEPT !.attempt = ended,
                                 !.status = IF abort THEN "aborted" ELSE @,
                                 !.outcome = IF abort THEN "aborted" ELSE @]
    <3>1. v[m] = IF r.status = "running"
                 THEN [r EXCEPT !.stamped = TRUE, !.attempt = IF @ \in Active THEN "cancelling" ELSE @]
                 ELSE r
      BY Zenon, <2>1, <2>3 DEF FenceUnstarted, CancelActive, Rows
    <3>a. ended \in AttemptStatuses
      BY <2>1 DEF Rows, AttemptStatuses, Terminal
    <3>b. /\ (IF abort THEN "aborted" ELSE w[m].status) \in NodeStatuses
          /\ (IF abort THEN "aborted" ELSE w[m].outcome) \in Settled \cup {"none"}
      BY <2>1 DEF Rows, NodeStatuses, Settled, Terminal
    <3>2. r \in Rows
      <4> HIDE DEF abort, ended
      <4> QED
        BY Zenon, <2>1, <3>a, <3>b DEF Rows
    <3>3. /\ r.ordinal = w[m].ordinal
          /\ w[m].attempt = "failed" => r.attempt = "failed"
          /\ \/ r.status = w[m].status /\ r.outcome = w[m].outcome
             \/ r.status = "aborted" /\ r.outcome = "aborted"
      BY <2>1 DEF Rows
    <3> HIDE DEF r, v
    <3>4. /\ v[m] \in Rows /\ v[m].ordinal = r.ordinal /\ v[m].status = r.status
          /\ v[m].outcome = r.outcome /\ (r.attempt = "failed" => v[m].attempt = "failed")
      BY ZenonT(60), <3>1, <3>2 DEF Rows, AttemptStatuses, Active
    <3> QED
      BY <3>3, <3>4
  <2> QED
    BY Zenon, <2>2, <2>3
<1> HIDE DEF v
<1>3. v \in [Nodes -> Rows]
  BY <1>1, <1>2
<1>4. Lettered(D, v)
  <2>1. \A m \in Nodes : /\ v[m].ordinal = w[m].ordinal
                         /\ w[m].attempt = "failed" => v[m].attempt = "failed"
    BY Zenon, <1>2
  <2> QED
    BY Zenon, <2>1, LettersStay
<1>5. Named(D, v)
  BY Zenon, <1>2 DEF Named
<1> QED
  BY <1>3, <1>4, <1>5 DEF v

(* The first attempt of a new chain link: a row of the same node, one        *)
(* ordinal up.                                                               *)
LEMMA NewAttemptRow ==
  ASSUME NEW r \in Rows, r.ordinal < MaxOrdinal
  PROVE  /\ NewAttempt(r) \in Rows
         /\ NewAttempt(r).ordinal = r.ordinal + 1 /\ NewAttempt(r).attempt = "queued"
<1>1. r.ordinal + 1 \in 1 .. MaxOrdinal
  BY BoundsAssumption DEF Rows
<1> QED
  BY Zenon, <1>1 DEF NewAttempt, Rows, AttemptStatuses

(* advance_dag_after_attempt keeps every part of the invariant that is about *)
(* the rows.                                                                 *)
LEMMA AdvancedKeeps ==
  ASSUME NEW D, D \subseteq Nodes \X (1 .. MaxOrdinal), NEW w, NEW n \in Nodes,
         NEW outcome \in Terminal, enabled \in BOOLEAN, Ending(D, w, n), w[n].attempt = outcome
  PROVE  LET v == Advanced(w, n, outcome) IN
         /\ v \in [Nodes -> Rows] /\ Lettered(D, v) /\ Named(D, v)
         /\ enabled => \A m \in Nodes : Fits(D, m, v[m])
<1> DEFINE v == Advanced(w, n, outcome)
<1>a. w \in [Nodes -> Rows] /\ w[n] \in Rows
  BY DEF Ending
<1>1. CASE Retryable(w, n, outcome)
  <2>1. enabled /\ w[n].outcome = "none" /\ w[n].ordinal < MaxOrdinal
    BY <1>1, <1>a, BoundsAssumption DEF Retryable, Ending, Rows
  <2>2. PICK a : a = NewAttempt(w[n])
    OBVIOUS
  <2>3. /\ a \in Rows /\ a.ordinal = w[n].ordinal + 1 /\ a.attempt = "queued"
        /\ a.outcome = "none"
    <3>1. a.outcome = w[n].outcome
      BY <2>2, <1>a DEF NewAttempt, Rows
    <3> QED
      BY <2>1, <2>2, <3>1, <1>a, NewAttemptRow
  <2>4. PICK q : q = QueuedOrBlocked(w, n)
    OBVIOUS
  <2>5. q \in {"queued", "blocked"}
    BY <2>4 DEF QueuedOrBlocked
  <2>6. v = [w EXCEPT ![n] = [a EXCEPT !.status = q, !.stamped = FALSE]]
    BY <1>1, <2>1, <2>2, <2>4 DEF Advanced
  <2> HIDE DEF v
  <2>7. /\ v \in [Nodes -> Rows]
        /\ v[n].ordinal = w[n].ordinal + 1 /\ v[n].attempt = "queued"
        /\ v[n].status = q /\ v[n].outcome = "none"
        /\ \A m \in Nodes \ {n} : v[m] = w[m]
    BY Zenon, <1>a, <2>3, <2>5, <2>6 DEF Rows, NodeStatuses
  <2>8. \A m \in Nodes : Fits(D, m, v[m])
    <3>1. Agrees(v[n]) /\ HasOutcome(v[n])
      BY <2>5, <2>7 DEF Agrees, HasOutcome, Settled, Terminal
    <3> QED
      BY Zenon, <2>1, <2>7, <3>1 DEF Ending, Fits
  <2>9. Lettered(D, v)
    <3>1. ASSUME NEW l \in D
          PROVE  /\ l[2] <= v[l[1]].ordinal
                 /\ l[2] = v[l[1]].ordinal => v[l[1]].attempt = "failed"
      <4>1. l[1] \in Nodes /\ l[2] \in Nat
        OBVIOUS
      <4>2. /\ l[2] <= w[l[1]].ordinal
            /\ l[2] = w[l[1]].ordinal => w[l[1]].attempt = "failed"
        BY Zenon DEF Ending, Lettered
      <4>3. w[n].ordinal \in Nat
        BY <1>a DEF Rows
      <4>4. CASE l[1] = n
        BY <4>1, <4>2, <4>3, <4>4, <2>7
      <4>5. CASE l[1] # n
        BY <4>1, <4>2, <4>5, <2>7
      <4> QED
        BY <4>4, <4>5
    <3> QED
      BY Zenon, <3>1 DEF Lettered
  <2>10. Named(D, v)
    BY <2>5, <2>7 DEF Ending, Named
  <2> QED
    BY <2>7, <2>8, <2>9, <2>10 DEF v
<1>2. CASE ~Retryable(w, n, outcome) /\ w[n].outcome # "none"
  <2>1. v = w /\ ~enabled
    BY <1>2 DEF Advanced, Ending
  <2> QED
    BY <2>1 DEF Ending
<1>3. CASE ~Retryable(w, n, outcome) /\ w[n].outcome = "none"
  <2> DEFINE s == [w EXCEPT ![n].status = outcome, ![n].outcome = outcome, ![n].stamped = FALSE]
  <2>1. /\ s \in [Nodes -> Rows]
        /\ s[n].status = outcome /\ s[n].outcome = outcome
        /\ s[n].attempt = w[n].attempt /\ s[n].ordinal = w[n].ordinal
        /\ \A m \in Nodes \ {n} : s[m] = w[m]
    BY Zenon, <1>a DEF Rows, NodeStatuses, Settled
  <2>a. v = IF ~enabled THEN FenceUnstarted(s, n)
            ELSE AdvanceBlocked(IF outcome = "failed" /\ n \in contract.failFast
                                THEN SkipUnstarted(CancelActive(s, n, {"offered", "running"}))
                                ELSE s)
    BY <1>3 DEF Advanced
  <2> HIDE DEF s, v
  <2>2. Lettered(D, s)
    <3>1. Lettered(D, w) /\ \A m \in Nodes : /\ s[m].ordinal = w[m].ordinal
                                             /\ w[m].attempt = "failed" => s[m].attempt = "failed"
      BY <2>1 DEF Ending
    <3> QED
      BY Zenon, <3>1, LettersStay
  <2>3. Named(D, s)
    BY <2>1 DEF Ending, Named
  <2>4. CASE ~enabled
    <3>1. v = FenceUnstarted(s, n)
      BY <2>4, <2>a
    <3>2. v \in [Nodes -> Rows] /\ Lettered(D, v) /\ Named(D, v)
      BY <3>1, <2>1, <2>2, <2>3, FenceKeeps
    <3> QED
      BY <3>2, <2>4 DEF v
  <2>5. CASE enabled
    <3>1. Sound(D, s)
      <4>1. Agrees(s[n]) /\ HasOutcome(s[n])
        BY <2>1 DEF Agrees, HasOutcome, Settled
      <4> QED
        BY Zenon, <2>1, <2>2, <2>5, <4>1 DEF Ending, Sound, Fits
    <3>2. Sound(D, SkipUnstarted(CancelActive(s, n, {"offered", "running"})))
      BY Zenon, <3>1, CancelSound, SkipSound
    <3>3. Sound(D, v)
      BY <2>5, <2>a, <3>1, <3>2, AdvanceBlockedSound
    <3>4. Named(D, v)
      BY Zenon, <3>3, SoundNamed
    <3>5. /\ v \in [Nodes -> Rows] /\ Lettered(D, v) /\ Named(D, v)
          /\ \A m \in Nodes : Fits(D, m, v[m])
      BY Zenon, <3>3, <3>4 DEF Sound
    <3> QED
      BY <3>5 DEF v
  <2> QED
    BY Zenon, <2>4, <2>5
<1> QED
  BY Zenon, <1>1, <1>2, <1>3

-----------------------------------------------------------------------------
(* The steps. *)

(* The part of the invariant about rows, build and dead letters. *)
DagCore ==
    /\ build \in BuildStatuses
    /\ work \in [Nodes -> Rows]
    /\ enabled => \A n \in Nodes : Fits(deadLetters, n, work[n])
    /\ Lettered(deadLetters, work)
    /\ Named(deadLetters, work)
    /\ Reports(deadLetters, work, build)

LEMMA CoreOfInv ==
  ASSUME DagInv
  PROVE  DagCore /\ deadLetters \subseteq Nodes \X (1 .. MaxOrdinal) /\ enabled \in BOOLEAN
BY DEF DagInv, DagCore, TypeOK, BuildStatuses

LEMMA ConcludeCore ==
  ASSUME DagInv, NEW n \in Nodes, NEW outcome \in Terminal,
         work[n].attempt \in Active \cup {"reconciliation_required"},
         Conclude(n, outcome), UNCHANGED <<enabled, deadLetters>>
  PROVE  DagCore'
<1> DEFINE w == [work EXCEPT ![n].attempt = outcome]
           v == Advanced(w, n, outcome)
<1>1. deadLetters \subseteq Nodes \X (1 .. MaxOrdinal) /\ enabled \in BOOLEAN /\ DagCore
  BY CoreOfInv
<1>2. Ending(deadLetters, w, n)
  BY EndingHere
<1>3. /\ w[n].attempt = outcome
      /\ \A m \in Nodes : w[m].status = work[m].status
  BY <1>1 DEF DagCore, Rows
<1>4. work' = v /\ build' = AdvancedBuild(w, n, outcome)
  BY DEF Conclude
<1> HIDE DEF w
<1>5. /\ v \in [Nodes -> Rows] /\ Lettered(deadLetters, v) /\ Named(deadLetters, v)
      /\ enabled => \A m \in Nodes : Fits(deadLetters, m, v[m])
  BY <1>1, <1>2, <1>3, AdvancedKeeps
<1>6. build' \in BuildStatuses /\ Reports(deadLetters, v, build')
  <2>1. CASE Retryable(w, n, outcome) \/ w[n].outcome = "none"
    <3>1. build' = DerivedBuild(v, cancelled)
      BY <2>1, <1>4 DEF AdvancedBuild
    <3> HIDE DEF v
    <3> QED
      BY <3>1, <1>5, DerivedReports
  <2>2. CASE ~(Retryable(w, n, outcome) \/ w[n].outcome = "none")
    <3>1. v = w /\ build' = build
      BY <2>2, <1>4 DEF AdvancedBuild, Advanced
    <3> HIDE DEF v
    <3> QED
      BY <3>1, <1>1, <1>3 DEF DagCore, Reports
  <2> QED
    BY <2>1, <2>2
<1> HIDE DEF v
<1> QED
  BY <1>4, <1>5, <1>6 DEF DagCore

(* A step that changes one node's row and no ordinal. *)
LEMMA RowCore ==
  ASSUME DagInv, NEW n \in Nodes, NEW r \in Rows, work' = [work EXCEPT ![n] = r],
         UNCHANGED <<enabled, deadLetters>>,
         r.ordinal = work[n].ordinal, work[n].attempt # "failed",
         enabled => Agrees(r) /\ HasOutcome(r),
         r.status \in {"failed", "aborted"} =>
            r.status = work[n].status /\ r.outcome = work[n].outcome,
         build' \in BuildStatuses, Reports(deadLetters, work', build')
  PROVE  DagCore'
<1>1. deadLetters \subseteq Nodes \X (1 .. MaxOrdinal) /\ enabled \in BOOLEAN /\ DagCore
  BY CoreOfInv
<1>2. PICK v : v = work'
  OBVIOUS
<1>3. work \in [Nodes -> Rows] /\ Lettered(deadLetters, work)
  BY <1>1 DEF DagCore
<1>4. v \in [Nodes -> Rows] /\ v[n] = r /\ \A m \in Nodes \ {n} : v[m] = work[m]
  BY <1>2, <1>3
<1>5. enabled => \A m \in Nodes : Fits(deadLetters, m, v[m])
  BY Zenon, <1>1, <1>4 DEF DagCore, Fits
<1>6. Lettered(deadLetters, v)
  <2>1. \A m \in Nodes : /\ v[m].ordinal = work[m].ordinal
                         /\ work[m].attempt = "failed" => v[m].attempt = "failed"
    BY Zenon, <1>4
  <2> QED
    BY <1>1, <1>3, <2>1, LettersStay
<1>7. Named(deadLetters, v)
  BY <1>1, <1>4 DEF DagCore, Named
<1> QED
  BY <1>2, <1>4, <1>5, <1>6, <1>7 DEF DagCore

(* Attempt, node and build are parked. *)
LEMMA ParkCore ==
  ASSUME DagInv, NEW n \in Nodes, work[n].attempt \in Active,
         NEW effects \in {"none", "settled", "open"},
         Park(n, effects), UNCHANGED <<enabled, deadLetters>>
  PROVE  DagCore'
<1> DEFINE r == [work[n] EXCEPT !.attempt = "reconciliation_required",
                                !.status = "reconciliation_required", !.effects = effects]
<1>1. work \in [Nodes -> Rows]
  BY CoreOfInv DEF DagCore
<1>2. work' = [work EXCEPT ![n] = r] /\ build' = "reconciliation_required"
  BY Zenon, <1>1 DEF Park
<1>3. /\ r \in Rows
      /\ r.attempt = "reconciliation_required" /\ r.status = "reconciliation_required"
      /\ r.outcome = work[n].outcome /\ r.ordinal = work[n].ordinal
  BY ZenonT(60), <1>1 DEF Rows, AttemptStatuses, NodeStatuses
<1> HIDE DEF r
<1>4. enabled => Agrees(r) /\ HasOutcome(r)
  BY Zenon, <1>3, AtWork DEF Agrees, HasOutcome, Settled, Terminal
<1>5. work'[n].status = "reconciliation_required"
  BY <1>1, <1>2, <1>3
<1>6. Reports(deadLetters, work', build') /\ build' \in BuildStatuses
  BY <1>2, <1>5 DEF Reports, Settled, Terminal, BuildStatuses
<1>7. work[n].attempt # "failed"
  BY DEF Active
<1> QED
  BY Zenon, <1>2, <1>3, <1>4, <1>6, <1>7, RowCore

(* A node that stays in hand: its row changes, no status becomes or ceases   *)
(* to be a settled or a parked one, and the build's status stays or moves    *)
(* between queued and running.                                               *)
LEMMA MoveCore ==
  ASSUME DagInv, NEW n \in Nodes, NEW r \in Rows, work' = [work EXCEPT ![n] = r],
         UNCHANGED <<enabled, deadLetters>>,
         r.ordinal = work[n].ordinal, work[n].attempt # "failed",
         enabled => Agrees(r) /\ HasOutcome(r),
         \/ r.status = work[n].status /\ r.outcome = work[n].outcome
         \/ {r.status, work[n].status} \subseteq {"blocked", "queued", "offered", "running"},
         build' = build \/ (build' \in {"queued", "running"} /\ build \in {"queued", "running"})
  PROVE  DagCore'
<1>1. DagCore
  BY CoreOfInv
<1>2. PICK v : v = work'
  OBVIOUS
<1>3. v[n] = r /\ \A m \in Nodes \ {n} : v[m] = work[m]
  BY <1>1, <1>2 DEF DagCore
<1>4. /\ \A m \in Nodes : v[m].status \in Settled <=> work[m].status \in Settled
      /\ \A m \in Nodes : v[m].status = "reconciliation_required" <=>
                          work[m].status = "reconciliation_required"
      /\ \A m \in Nodes : v[m].status \in {"succeeded", "skipped"} <=>
                          work[m].status \in {"succeeded", "skipped"}
  BY <1>3 DEF Settled, Terminal
<1>5. Reports(deadLetters, work, build) /\ build \in BuildStatuses
  BY <1>1 DEF DagCore
<1>6. build' \in BuildStatuses
  BY <1>5 DEF BuildStatuses
<1>7. Reports(deadLetters, v, build')
  <2>1. CASE build' = build
    BY Zenon, <1>4, <1>5, <2>1 DEF Reports
  <2>2. CASE build' \in {"queued", "running"} /\ build \in {"queued", "running"}
    <3>1. /\ build \notin Terminal /\ build' \notin Terminal
          /\ build' # "succeeded" /\ build' # "reconciliation_required"
      BY <2>2 DEF Terminal
    <3> QED
      BY Zenon, <1>4, <1>5, <3>1 DEF Reports
  <2> QED
    BY Zenon, <2>1, <2>2
<1>8. r.status \in {"failed", "aborted"} =>
            r.status = work[n].status /\ r.outcome = work[n].outcome
  OBVIOUS
<1> QED
  BY Zenon, <1>2, <1>6, <1>7, <1>8, RowCore

(* An attempt that did not fail is no dead letter. *)
LEMMA Current ==
  ASSUME DagInv, NEW n \in Nodes, work[n].attempt # "failed"
  PROVE  /\ work[n] \in Rows
         /\ <<n, work[n].ordinal>> \notin deadLetters
         /\ enabled => Agrees(work[n]) /\ HasOutcome(work[n])
<1>1. <<n, work[n].ordinal>> \notin deadLetters
  <2>1. SUFFICES ASSUME <<n, work[n].ordinal>> \in deadLetters PROVE FALSE
    OBVIOUS
  <2>2. PICK l : l = <<n, work[n].ordinal>>
    BY Zenon
  <2>3. l \in deadLetters /\ l[1] = n /\ l[2] = work[n].ordinal
    BY <2>1, <2>2
  <2> QED
    BY Zenon, <2>3 DEF DagInv, Lettered
<1>2. enabled => Agrees(work[n]) /\ HasOutcome(work[n])
  BY Zenon, <1>1 DEF DagInv, Fits
<1>3. work[n] \in Rows
  BY DEF DagInv, TypeOK
<1> QED
  BY Zenon, <1>1, <1>2, <1>3

LEMMA WorkTyped ==
  ASSUME DagInv
  PROVE  work \in [Nodes -> Rows]
BY DEF DagInv, TypeOK

(* The agent's calls before an attempt ends. *)
LEMMA ClaimCore ==
  ASSUME DagInv, NEW n \in Nodes, ClaimNext(n)
  PROVE  DagCore'
<1> DEFINE r == [work[n] EXCEPT !.attempt = "offered", !.status = "offered"]
<1>1. /\ work[n].attempt = "queued" /\ work[n].status = "queued" /\ enabled
      /\ build \in {"queued", "running"} /\ build' = "running"
      /\ UNCHANGED <<enabled, deadLetters>>
  BY DEF ClaimNext, Claimable
<1>2. work[n] \in Rows /\ HasOutcome(work[n])
  BY Zenon, <1>1, Current
<1>3. work' = [work EXCEPT ![n] = r]
  BY Zenon, WorkTyped DEF ClaimNext
<1>4. /\ r \in Rows /\ r.attempt = "offered" /\ r.status = "offered"
      /\ r.outcome = work[n].outcome /\ r.ordinal = work[n].ordinal
  BY Zenon, <1>2 DEF Rows, AttemptStatuses, NodeStatuses, Active
<1> HIDE DEF r
<1>5. Agrees(r) /\ HasOutcome(r)
  BY <1>1, <1>2, <1>4 DEF Agrees, HasOutcome, Settled, Terminal
<1> QED
  BY Zenon, <1>1, <1>3, <1>4, <1>5, MoveCore

LEMMA AcceptCore ==
  ASSUME DagInv, NEW n \in Nodes, AcceptOffer(n)
  PROVE  DagCore'
<1> DEFINE r == [work[n] EXCEPT !.attempt = "accepted", !.status = "running"]
<1>1. work[n].attempt = "offered" /\ enabled /\ build' = build /\ UNCHANGED <<enabled, deadLetters>>
  BY DEF AcceptOffer
<1>2. work[n] \in Rows /\ Agrees(work[n]) /\ HasOutcome(work[n])
  BY Zenon, <1>1, Current
<1>3. work[n].status = "offered"
  BY <1>1, <1>2 DEF Agrees, Executing, Terminal
<1>4. work' = [work EXCEPT ![n] = r]
  BY Zenon, WorkTyped DEF AcceptOffer
<1>5. /\ r \in Rows /\ r.attempt = "accepted" /\ r.status = "running"
      /\ r.outcome = work[n].outcome /\ r.ordinal = work[n].ordinal
  BY Zenon, <1>2 DEF Rows, AttemptStatuses, NodeStatuses, Active
<1> HIDE DEF r
<1>6. Agrees(r) /\ HasOutcome(r)
  BY <1>2, <1>3, <1>5 DEF Agrees, HasOutcome, Settled, Terminal, Executing, Active
<1> QED
  BY Zenon, <1>1, <1>3, <1>4, <1>5, <1>6, MoveCore

LEMMA RunningCore ==
  ASSUME DagInv, NEW n \in Nodes, MarkRunning(n), contract.sequential \in BOOLEAN
  PROVE  DagCore'
<1> DEFINE r == [work[n] EXCEPT !.attempt = "running", !.ran = contract.sequential,
                                !.status = IF @ = "offered" THEN "running" ELSE @]
<1>1. work[n].attempt = "accepted" /\ enabled /\ build' = build /\ UNCHANGED <<enabled, deadLetters>>
  BY DEF MarkRunning
<1>2. work[n] \in Rows /\ Agrees(work[n]) /\ HasOutcome(work[n])
  BY Zenon, <1>1, Current
<1>3. work[n].status = "running"
  BY <1>1, <1>2 DEF Agrees, Terminal
<1>4. work' = [work EXCEPT ![n] = r]
  BY Zenon, WorkTyped DEF MarkRunning
<1>5. /\ r \in Rows /\ r.attempt = "running" /\ r.status = "running"
      /\ r.outcome = work[n].outcome /\ r.ordinal = work[n].ordinal
  BY Zenon, <1>2, <1>3 DEF Rows, AttemptStatuses, NodeStatuses, Active
<1> HIDE DEF r
<1>6. Agrees(r) /\ HasOutcome(r)
  BY <1>2, <1>3, <1>5 DEF Agrees, HasOutcome, Settled, Terminal, Executing, Active
<1> QED
  BY Zenon, <1>1, <1>3, <1>4, <1>5, <1>6, MoveCore

LEMMA RecoverCore ==
  ASSUME DagInv, NEW n \in Nodes, NEW phase \in {"finalizing", "cancelling"},
         RecoverFinalization(n, phase)
  PROVE  DagCore'
<1> DEFINE r == [work[n] EXCEPT !.attempt = phase]
<1>1. /\ work[n].attempt \in {"running", "finalizing", "cancelling"}
      /\ build' = build /\ UNCHANGED <<enabled, deadLetters>>
  BY DEF RecoverFinalization
<1>2. work[n] \in Rows /\ (enabled => Agrees(work[n]) /\ HasOutcome(work[n]))
  BY Zenon, <1>1, Current
<1>3. work' = [work EXCEPT ![n] = r]
  BY WorkTyped DEF RecoverFinalization
<1>4. /\ r \in Rows /\ r.attempt = phase /\ r.status = work[n].status
      /\ r.outcome = work[n].outcome /\ r.ordinal = work[n].ordinal
  BY <1>2 DEF Rows, AttemptStatuses, Active
<1> HIDE DEF r
<1>5. enabled => Agrees(r) /\ HasOutcome(r)
  <2>1. SUFFICES ASSUME enabled PROVE Agrees(r) /\ HasOutcome(r)
    OBVIOUS
  <2>2. work[n].status \in {"offered", "running"}
    BY <1>1, <1>2, <2>1 DEF Agrees, Terminal
  <2> QED
    BY <1>2, <1>4, <2>1, <2>2 DEF Agrees, HasOutcome, Executing, Active
<1> QED
  BY Zenon, <1>1, <1>3, <1>4, <1>5, MoveCore

(* A change of the effects a step has checkpointed. *)
LEMMA EffectsCore ==
  ASSUME DagInv, NEW n \in Nodes, NEW e \in {"none", "settled", "open"},
         work[n].attempt # "failed", work' = [work EXCEPT ![n].effects = e],
         UNCHANGED <<build, enabled, deadLetters>>
  PROVE  DagCore'
<1> DEFINE r == [work[n] EXCEPT !.effects = e]
<1>1. work[n] \in Rows /\ (enabled => Agrees(work[n]) /\ HasOutcome(work[n]))
  BY Zenon, Current
<1>2. work' = [work EXCEPT ![n] = r]
  BY WorkTyped
<1>3. /\ r \in Rows /\ r.attempt = work[n].attempt /\ r.status = work[n].status
      /\ r.outcome = work[n].outcome /\ r.ordinal = work[n].ordinal
  BY <1>1 DEF Rows
<1> HIDE DEF r
<1>4. enabled => Agrees(r) /\ HasOutcome(r)
  BY <1>1, <1>3 DEF Agrees, HasOutcome
<1> QED
  BY Zenon, <1>2, <1>3, <1>4, MoveCore

(* The agent's calls that end an attempt, and the expiry of its lease. *)
LEMMA FinalizeCore ==
  ASSUME DagInv, NEW n \in Nodes, NEW outcome \in Terminal, NEW aware \in BOOLEAN,
         FinalizeAttempt(n, outcome, aware)
  PROVE  DagCore'
<1>1. work[n].attempt \in Active /\ UNCHANGED <<enabled, deadLetters>>
  BY DEF FinalizeAttempt, Executing
<1>2. PICK published \in Terminal : Park(n, "open") \/ Conclude(n, published)
  <2>1. "aborted" \in Terminal
    BY DEF Terminal
  <2> QED
    BY Zenon, <2>1 DEF FinalizeAttempt
<1> QED
  BY <1>1, <1>2, ParkCore, ConcludeCore

LEMMA CancellationCore ==
  ASSUME DagInv, NEW n \in Nodes, NEW verified \in BOOLEAN, CompleteCancellation(n, verified)
  PROVE  DagCore'
<1>1. work[n].attempt \in Active /\ UNCHANGED <<enabled, deadLetters>>
  BY DEF CompleteCancellation, Active
<1>2. work[n].effects \in {"none", "settled", "open"} /\ "aborted" \in Terminal
  BY WorkTyped DEF Rows, Terminal
<1>3. Park(n, work[n].effects) \/ Conclude(n, "aborted")
  BY DEF CompleteCancellation
<1> QED
  BY <1>1, <1>2, <1>3, ParkCore, ConcludeCore

LEMMA RequeueCore ==
  ASSUME DagInv, NEW n \in Nodes, RequeueExpired(n)
  PROVE  DagCore'
<1>1. work[n].attempt \in Active /\ UNCHANGED <<enabled, deadLetters>>
  BY DEF RequeueExpired
<1>2. work[n].effects \in {"none", "settled", "open"} /\ "aborted" \in Terminal
  BY WorkTyped DEF Rows, Terminal
<1>3. CASE Conclude(n, "aborted")
  BY <1>1, <1>2, <1>3, ConcludeCore
<1>4. CASE \E effects \in IF work[n].effects = "none" THEN {"none"} ELSE {work[n].effects, "open"} :
              Park(n, effects)
  <2>1. PICK effects \in {"none", "settled", "open"} : Park(n, effects)
    BY <1>2, <1>4
  <2> QED
    BY <1>1, <2>1, ParkCore
<1>5. CASE /\ ~(cancelled \/ work[n].stamped \/ ~enabled)
           /\ work' = [work EXCEPT ![n].attempt = "queued", ![n].ran = FALSE,
                                   ![n].status = QueuedOrBlocked(work, n)]
           /\ build' = IF build = "running" THEN "queued" ELSE build
  <2>1. PICK q : q = QueuedOrBlocked(work, n)
    OBVIOUS
  <2>2. q \in {"queued", "blocked"}
    BY <2>1 DEF QueuedOrBlocked
  <2> DEFINE r == [work[n] EXCEPT !.attempt = "queued", !.ran = FALSE, !.status = q]
  <2>3. work[n].attempt # "failed"
    BY <1>1 DEF Active
  <2>4. work[n] \in Rows /\ Agrees(work[n]) /\ HasOutcome(work[n])
    BY Zenon, <1>5, <2>3, Current
  <2>5. work[n].status \in {"offered", "running"}
    BY <1>1, <2>4 DEF Agrees, Active, Terminal
  <2>6. work' = [work EXCEPT ![n] = r]
    BY Zenon, <1>5, <2>1, WorkTyped
  <2>7. /\ r \in Rows /\ r.attempt = "queued" /\ r.status = q
        /\ r.outcome = work[n].outcome /\ r.ordinal = work[n].ordinal
    BY Zenon, <2>2, <2>4 DEF Rows, AttemptStatuses, NodeStatuses
  <2> HIDE DEF r
  <2>8. Agrees(r) /\ HasOutcome(r)
    BY <2>2, <2>4, <2>5, <2>7 DEF Agrees, HasOutcome, Settled, Terminal
  <2>9. build' = build \/ (build' \in {"queued", "running"} /\ build \in {"queued", "running"})
    BY <1>5
  <2> QED
    BY Zenon, <1>1, <2>2, <2>3, <2>5, <2>6, <2>7, <2>8, <2>9, MoveCore
<1> QED
  BY <1>3, <1>4, <1>5 DEF RequeueExpired

(* cancel_dag_build. *)
LEMMA RequestCore ==
  ASSUME DagInv, RequestCancellation
  PROVE  DagCore'
<1>1. /\ deadLetters \subseteq Nodes \X (1 .. MaxOrdinal) /\ work \in [Nodes -> Rows]
      /\ Lettered(deadLetters, work) /\ Named(deadLetters, work)
      /\ UNCHANGED <<enabled, deadLetters>>
  BY Zenon DEF DagInv, TypeOK, RequestCancellation
<1>2. PICK v : v = work'
  OBVIOUS
<1>3. v = [m \in Nodes |->
            IF work[m].status \in {"blocked", "queued"}
            THEN [work[m] EXCEPT
                    !.attempt = IF @ = "queued" THEN "aborted" ELSE @,
                    !.status = IF work[m].outcome = "none" THEN "aborted" ELSE @,
                    !.outcome = IF @ = "none" THEN "aborted" ELSE @]
            ELSE [work[m] EXCEPT
                    !.stamped = @ \/ work[m].status \in {"offered", "running"},
                    !.attempt = IF work[m].status \in {"offered", "running"} /\ @ \in Active
                                THEN "cancelling" ELSE @]]
  BY Zenon, <1>2 DEF RequestCancellation
<1>4. build' = DerivedBuild(v, TRUE)
  BY Zenon, <1>2 DEF RequestCancellation
<1>5. ASSUME NEW m \in Nodes
      PROVE  /\ v[m] \in Rows /\ v[m].ordinal = work[m].ordinal
             /\ work[m].attempt = "failed" => v[m].attempt = "failed"
             /\ \/ v[m].status = work[m].status /\ v[m].outcome = work[m].outcome
                \/ v[m].status = "aborted" /\ v[m].outcome = "aborted"
                \/ v[m].status \in {"blocked", "queued"}
             /\ enabled => Fits(deadLetters, m, v[m])
  <2>1. work[m] \in Rows
    BY <1>1
  <2>f. enabled => Fits(deadLetters, m, work[m])
    BY DEF DagInv
  <2>2. CASE work[m].status \in {"blocked", "queued"}
    <3>1. v[m] = [work[m] EXCEPT
                    !.attempt = IF @ = "queued" THEN "aborted" ELSE @,
                    !.status = IF work[m].outcome = "none" THEN "aborted" ELSE @,
                    !.outcome = IF @ = "none" THEN "aborted" ELSE @]
      BY Zenon, <1>3, <2>2
    <3>2. /\ v[m].ordinal = work[m].ordinal
          /\ v[m].attempt = IF work[m].attempt = "queued" THEN "aborted" ELSE work[m].attempt
          /\ v[m].status = IF work[m].outcome = "none" THEN "aborted" ELSE work[m].status
          /\ v[m].outcome = IF work[m].outcome = "none" THEN "aborted" ELSE work[m].outcome
      BY <2>1, <3>1 DEF Rows
    <3>3. v[m] \in Rows
      BY ZenonT(60), <2>1, <3>1 DEF Rows, AttemptStatuses, NodeStatuses, Settled, Terminal
    <3>4. ASSUME enabled PROVE Fits(deadLetters, m, v[m])
      <4>1. work[m].attempt = "queued"
        BY <2>2, <2>f, <3>4 DEF Fits, Agrees, Terminal
      <4>2. HasOutcome(work[m])
        BY Zenon, <3>4, <4>1, Current
      <4>3. work[m].outcome = "none"
        BY <2>2, <4>2 DEF HasOutcome, Settled, Terminal
      <4> QED
        BY <3>2, <4>1, <4>3 DEF Fits, Agrees, HasOutcome, Settled, Terminal
    <3> QED
      BY <2>2, <3>2, <3>3, <3>4
  <2>3. CASE work[m].status \in {"offered", "running"}
    <3>1. v[m] = [work[m] EXCEPT !.stamped = TRUE,
                                 !.attempt = IF @ \in Active THEN "cancelling" ELSE @]
      BY Zenon, <1>3, <2>1, <2>3 DEF Rows
    <3>2. /\ v[m].ordinal = work[m].ordinal /\ v[m].status = work[m].status
          /\ v[m].outcome = work[m].outcome
          /\ v[m].attempt = IF work[m].attempt \in Active THEN "cancelling" ELSE work[m].attempt
      BY <2>1, <3>1 DEF Rows
    <3>3. v[m] \in Rows
      BY Zenon, <2>1, <3>1 DEF Rows, AttemptStatuses, Active
    <3>4. work[m].attempt = "failed" => v[m].attempt = "failed"
      BY <3>2 DEF Active
    <3>5. ASSUME enabled PROVE Fits(deadLetters, m, v[m])
      <4>1. work[m].attempt \in Active
        BY <2>3, <2>f, <3>5 DEF Fits, Agrees, Executing, Active, Terminal
      <4>2. Agrees(v[m])
        BY <2>3, <3>2, <4>1 DEF Agrees, Executing, Active
      <4> QED
        BY <3>2, <4>2, <2>f, <3>5 DEF Fits, HasOutcome
    <3> QED
      BY <3>2, <3>3, <3>4, <3>5
  <2>4. CASE work[m].status \notin {"blocked", "queued", "offered", "running"}
    <3>1. v[m] = work[m]
      BY Zenon, <1>3, <2>1, <2>4 DEF Rows
    <3> QED
      BY <2>1, <2>f, <3>1
  <2> QED
    BY Zenon, <2>2, <2>3, <2>4
<1>6. v \in [Nodes -> Rows]
  BY Zenon, <1>3, <1>5
<1>7. Lettered(deadLetters, v)
  <2>1. \A m \in Nodes : /\ v[m].ordinal = work[m].ordinal
                         /\ work[m].attempt = "failed" => v[m].attempt = "failed"
    BY Zenon, <1>5
  <2> QED
    BY <1>1, <2>1, LettersStay
<1>8. Named(deadLetters, v)
  <2>1. ASSUME deadLetters = {}, NEW m \in Nodes, v[m].status \in {"failed", "aborted"}
        PROVE  v[m].outcome = v[m].status
    BY <1>1, <1>5, <2>1 DEF Named
  <2> QED
    BY Zenon, <2>1 DEF Named
<1>9. build' \in BuildStatuses /\ Reports(deadLetters, v, build')
  BY Zenon, <1>4, <1>8, DerivedReports
<1>10. enabled => \A m \in Nodes : Fits(deadLetters, m, v[m])
  BY Zenon, <1>5
<1> QED
  BY <1>1, <1>2, <1>6, <1>7, <1>8, <1>9, <1>10 DEF DagCore

(* The pipeline moves on: the rows need no longer agree. *)
LEMMA PipelineCore ==
  ASSUME DagInv, FencePipeline
  PROVE  DagCore'
BY CoreOfInv DEF FencePipeline, DagCore

(* activate_restore_epoch. *)
LEMMA RestoreCore ==
  ASSUME DagInv, ActivateRestoreEpoch
  PROVE  DagCore'
<1> DEFINE affected == {n \in Nodes : work[n].attempt \in Active}
<1>1. /\ deadLetters \subseteq Nodes \X (1 .. MaxOrdinal) /\ work \in [Nodes -> Rows]
      /\ Lettered(deadLetters, work) /\ Named(deadLetters, work)
      /\ Reports(deadLetters, work, build) /\ build \in BuildStatuses
      /\ UNCHANGED <<enabled, deadLetters>>
  BY Zenon DEF DagInv, TypeOK, ActivateRestoreEpoch, BuildStatuses
<1>2. PICK v : v = work'
  OBVIOUS
<1>3. PICK open \in SUBSET {n \in affected : work[n].effects = "settled"} :
        v = [n \in Nodes |->
             IF n \in affected
             THEN [work[n] EXCEPT !.attempt = "reconciliation_required",
                                  !.status = "reconciliation_required",
                                  !.effects = IF n \in open THEN "open" ELSE @]
             ELSE work[n]]
  BY Zenon, <1>2 DEF ActivateRestoreEpoch
<1>4. build' = IF affected # {} THEN "reconciliation_required" ELSE build
  BY Zenon DEF ActivateRestoreEpoch
<1>5. ASSUME NEW m \in Nodes
      PROVE  /\ v[m] \in Rows /\ v[m].ordinal = work[m].ordinal
             /\ work[m].attempt = "failed" => v[m].attempt = "failed"
             /\ m \in affected => v[m].status = "reconciliation_required"
             /\ m \notin affected => v[m] = work[m]
             /\ enabled => Fits(deadLetters, m, v[m])
  <2>1. work[m] \in Rows
    BY <1>1
  <2>2. CASE m \in affected
    <3>1. PICK e \in {"none", "settled", "open"} :
             v[m] = [work[m] EXCEPT !.attempt = "reconciliation_required",
                                    !.status = "reconciliation_required", !.effects = e]
      BY Zenon, <1>3, <2>1, <2>2 DEF Rows
    <3>2. /\ v[m] \in Rows /\ v[m].ordinal = work[m].ordinal
          /\ v[m].attempt = "reconciliation_required" /\ v[m].status = "reconciliation_required"
          /\ v[m].outcome = work[m].outcome
      BY Zenon, <2>1, <3>1 DEF Rows, AttemptStatuses, NodeStatuses
    <3>3. work[m].attempt \in Active /\ work[m].attempt # "failed"
      BY <2>2 DEF Active
    <3>4. enabled => work[m].outcome = "none"
      BY Zenon, <3>3, AtWork
    <3>5. enabled => Fits(deadLetters, m, v[m])
      BY <3>2, <3>4 DEF Fits, Agrees, HasOutcome, Settled, Terminal
    <3> QED
      BY <2>2, <3>2, <3>3, <3>5
  <2>3. CASE m \notin affected
    <3>1. v[m] = work[m]
      BY Zenon, <1>3, <2>3
    <3> QED
      BY <2>1, <2>3, <3>1 DEF DagInv
  <2> QED
    BY Zenon, <2>2, <2>3
<1> HIDE DEF affected
<1>6. v \in [Nodes -> Rows]
  BY Zenon, <1>3, <1>5
<1>7. Lettered(deadLetters, v)
  <2>1. \A m \in Nodes : /\ v[m].ordinal = work[m].ordinal
                         /\ work[m].attempt = "failed" => v[m].attempt = "failed"
    BY Zenon, <1>5
  <2> QED
    BY <1>1, <2>1, LettersStay
<1>8. Named(deadLetters, v)
  BY <1>1, <1>5 DEF Named
<1>9. build' \in BuildStatuses /\ Reports(deadLetters, v, build')
  <2>1. CASE affected = {}
    <3>1. \A m \in Nodes : v[m].status = work[m].status
      BY <1>5, <2>1
    <3>2. build' = build
      BY <1>4, <2>1
    <3> QED
      BY Zenon, <1>1, <3>1, <3>2 DEF Reports
  <2>2. CASE affected # {}
    <3>1. PICK m \in Nodes : v[m].status = "reconciliation_required"
      BY <1>5, <2>2 DEF affected
    <3>2. build' = "reconciliation_required"
      BY <1>4, <2>2
    <3> QED
      BY <3>1, <3>2 DEF Reports, BuildStatuses, Settled, Terminal
  <2> QED
    BY Zenon, <2>1, <2>2
<1>10. enabled => \A m \in Nodes : Fits(deadLetters, m, v[m])
  BY Zenon, <1>5
<1> QED
  BY <1>1, <1>2, <1>6, <1>7, <1>8, <1>9, <1>10 DEF DagCore

(* schedule_retry_as: the node and the skipped nodes it brings back get new  *)
(* attempts.                                                                 *)
LEMMA RetryCore ==
  ASSUME DagInv, NEW n \in Nodes, NEW maxAttempts \in 1 .. MaxOrdinal,
         ScheduleRetry(n, maxAttempts)
  PROVE  DagCore'
<1>1. /\ deadLetters \subseteq Nodes \X (1 .. MaxOrdinal) /\ work \in [Nodes -> Rows]
      /\ Lettered(deadLetters, work) /\ Named(deadLetters, work)
      /\ enabled /\ UNCHANGED <<enabled, deadLetters>> /\ build' = "queued"
  BY Zenon DEF DagInv, TypeOK, ScheduleRetry, RetryEligible
<1>2. PICK v : v = work'
  OBVIOUS
<1>3. PICK q : q = QueuedOrBlocked(work, n)
  OBVIOUS
<1>q. q \in {"queued", "blocked"}
  BY <1>3 DEF QueuedOrBlocked
<1>4. v = [m \in Nodes |->
          IF m = n
          THEN [NewAttempt(work[n]) EXCEPT
                  !.status = q, !.outcome = "none", !.stamped = FALSE,
                  !.budget = IF @ > maxAttempts THEN @ ELSE maxAttempts]
          ELSE IF m \in Revived(n)
          THEN [NewAttempt(work[m]) EXCEPT
                  !.status = IF Into(m) # {} THEN "blocked" ELSE "queued",
                  !.outcome = "none", !.stamped = FALSE]
          ELSE work[m]]
  BY Zenon, <1>2, <1>3 DEF ScheduleRetry
<1>5. ASSUME NEW m \in Nodes
      PROVE  \/ v[m] = work[m] /\ m # n
             \/ /\ v[m] \in Rows /\ v[m].ordinal = work[m].ordinal + 1 /\ v[m].attempt = "queued"
                /\ v[m].outcome = "none" /\ v[m].status \in {"queued", "blocked"}
  <2>1. work[m] \in Rows
    BY <1>1
  <2>2. CASE m = n
    <3>o. work[m].ordinal < maxAttempts
      BY Zenon, <2>2 DEF ScheduleRetry
    <3>1. work[m].ordinal < MaxOrdinal
      BY <2>1, <3>o, BoundsAssumption DEF Rows
    <3>2. PICK a : a = NewAttempt(work[m])
      OBVIOUS
    <3>3. a \in Rows /\ a.ordinal = work[m].ordinal + 1 /\ a.attempt = "queued"
      BY <2>1, <3>1, <3>2, NewAttemptRow
    <3>4. PICK k \in 1 .. MaxOrdinal :
            v[m] = [a EXCEPT !.status = q, !.outcome = "none", !.stamped = FALSE, !.budget = k]
      BY Zenon, <1>4, <2>2, <3>2, <3>3 DEF Rows
    <3> QED
      BY ZenonT(60), <1>q, <3>3, <3>4 DEF Rows, NodeStatuses
  <2>3. CASE m # n /\ m \in Revived(n)
    <3>1. work[m].ordinal < MaxOrdinal
      BY Zenon, <2>3 DEF ScheduleRetry
    <3>2. PICK a : a = NewAttempt(work[m])
      OBVIOUS
    <3>3. a \in Rows /\ a.ordinal = work[m].ordinal + 1 /\ a.attempt = "queued"
      BY <2>1, <3>1, <3>2, NewAttemptRow
    <3>4. PICK s \in {"queued", "blocked"} :
            v[m] = [a EXCEPT !.status = s, !.outcome = "none", !.stamped = FALSE]
      BY Zenon, <1>4, <2>3, <3>2
    <3> QED
      BY Zenon, <3>3, <3>4 DEF Rows, NodeStatuses
  <2>4. CASE m # n /\ m \notin Revived(n)
    BY Zenon, <1>4, <2>4
  <2> QED
    BY Zenon, <2>2, <2>3, <2>4
<1>6. v \in [Nodes -> Rows]
  BY Zenon, <1>1, <1>4, <1>5
<1>7. \A m \in Nodes : Fits(deadLetters, m, v[m])
  <2>1. ASSUME NEW m \in Nodes PROVE Fits(deadLetters, m, v[m])
    <3>1. CASE v[m] = work[m]
      BY <1>1, <3>1 DEF DagInv
    <3>2. CASE v[m].attempt = "queued" /\ v[m].outcome = "none" /\ v[m].status \in {"queued", "blocked"}
      BY <3>2 DEF Fits, Agrees, HasOutcome, Settled, Terminal
    <3> QED
      BY Zenon, <1>5, <3>1, <3>2
  <2> QED
    BY Zenon, <2>1
<1>8. Lettered(deadLetters, v)
  <2>1. ASSUME NEW l \in deadLetters
        PROVE  /\ l[2] <= v[l[1]].ordinal
               /\ l[2] = v[l[1]].ordinal => v[l[1]].attempt = "failed"
    <3>1. l[1] \in Nodes /\ l[2] \in Nat
      BY <1>1
    <3>2. /\ l[2] <= work[l[1]].ordinal
          /\ l[2] = work[l[1]].ordinal => work[l[1]].attempt = "failed"
      BY Zenon, <1>1 DEF Lettered
    <3>3. work[l[1]].ordinal \in Nat
      BY <1>1, <3>1 DEF Rows
    <3>4. v[l[1]] = work[l[1]] \/ v[l[1]].ordinal = work[l[1]].ordinal + 1
      BY <1>5, <3>1
    <3> QED
      BY <3>1, <3>2, <3>3, <3>4
  <2> QED
    BY Zenon, <2>1 DEF Lettered
<1>9. Named(deadLetters, v)
  BY <1>1, <1>5 DEF Named
<1>10. build' \in BuildStatuses /\ Reports(deadLetters, v, build')
  <2>1. v[n].status \in {"queued", "blocked"}
    BY <1>5
  <2> QED
    BY <1>1, <2>1 DEF Reports, BuildStatuses, Settled, Terminal
<1> QED
  BY <1>1, <1>2, <1>6, <1>7, <1>8, <1>9, <1>10 DEF DagCore

(* schedule_retry_as at the limit: the attempt becomes a dead letter. *)
LEMMA DeadLetterCore ==
  ASSUME DagInv, NEW n \in Nodes, NEW maxAttempts \in 1 .. MaxOrdinal, DeadLetter(n, maxAttempts)
  PROVE  DagCore'
<1>1. /\ deadLetters \subseteq Nodes \X (1 .. MaxOrdinal) /\ work \in [Nodes -> Rows]
      /\ Lettered(deadLetters, work) /\ build \in BuildStatuses
      /\ enabled /\ enabled' = enabled
  BY DEF DagInv, TypeOK, DeadLetter, RetryEligible, BuildStatuses
<1>2. PICK v : v = work'
  OBVIOUS
<1>3. PICK D : D = deadLetters'
  OBVIOUS
<1>4. D = deadLetters \cup {<<n, work[n].ordinal>>}
  BY <1>3 DEF DeadLetter
<1>5. /\ v \in [Nodes -> Rows] /\ v[n].attempt = "failed" /\ v[n].ordinal = work[n].ordinal
      /\ \A m \in Nodes \ {n} : v[m] = work[m]
      /\ v[n] = work[n] \/ v[n].status = "failed"
      /\ build' \in BuildStatuses
  <2>1. CASE work[n].attempt = "reconciliation_required"
    <3>1. v = [work EXCEPT ![n].attempt = "failed", ![n].status = "failed"]
      BY <1>2, <2>1 DEF DeadLetter
    <3>2. build' \in BuildStatuses
      BY <1>1, <2>1 DEF DeadLetter, BuildStatuses, Terminal
    <3>3. PICK r : r = [work[n] EXCEPT !.attempt = "failed", !.status = "failed"]
      OBVIOUS
    <3>r. work[n] \in Rows
      BY <1>1
    <3>4. r \in Rows /\ r.attempt = "failed" /\ r.status = "failed" /\ r.ordinal = work[n].ordinal
      BY Zenon, <3>r, <3>3 DEF Rows, AttemptStatuses, NodeStatuses, Settled, Terminal
    <3>5. v = [work EXCEPT ![n] = r]
      BY Zenon, <1>1, <3>1, <3>3
    <3> QED
      BY <1>1, <3>2, <3>4, <3>5
  <2>2. CASE work[n].attempt # "reconciliation_required"
    <3>1. v = work /\ build' = build /\ work[n].attempt = "failed"
      BY <1>2, <2>2 DEF DeadLetter, RetryEligible
    <3> QED
      BY <1>1, <3>1
  <2> QED
    BY Zenon, <2>1, <2>2
<1>6. \A m \in Nodes : Fits(D, m, v[m])
  <2>1. ASSUME NEW m \in Nodes PROVE Fits(D, m, v[m])
    <3>1. Fits(deadLetters, m, work[m])
      BY <1>1 DEF DagInv
    <3>2. CASE v[m] = work[m]
      BY Zenon, <1>4, <3>1, <3>2 DEF Fits
    <3>3. CASE m = n /\ v[n].status = "failed"
      BY <1>4, <1>5, <3>3 DEF Fits, Agrees, Terminal
    <3> QED
      BY Zenon, <1>5, <3>2, <3>3
  <2> QED
    BY Zenon, <2>1
<1>7. Lettered(D, v)
  <2>1. ASSUME NEW l \in D
        PROVE  /\ l[2] <= v[l[1]].ordinal
               /\ l[2] = v[l[1]].ordinal => v[l[1]].attempt = "failed"
    <3>1. CASE l = <<n, work[n].ordinal>>
      <4>1. work[n].ordinal \in Nat /\ l[1] = n /\ l[2] = work[n].ordinal
        BY <1>1, <3>1 DEF Rows
      <4> QED
        BY <1>5, <4>1
    <3>2. CASE l \in deadLetters
      <4>1. l[1] \in Nodes
        BY <1>1, <3>2
      <4>2. /\ l[2] <= work[l[1]].ordinal
            /\ l[2] = work[l[1]].ordinal => work[l[1]].attempt = "failed"
        BY Zenon, <1>1, <3>2 DEF Lettered
      <4> QED
        BY Zenon, <1>5, <4>1, <4>2
    <3> QED
      BY Zenon, <1>4, <3>1, <3>2
  <2> QED
    BY Zenon, <2>1 DEF Lettered
<1>8. D # {}
  BY Zenon, <1>4
<1> QED
  BY <1>1, <1>2, <1>3, <1>5, <1>6, <1>7, <1>8 DEF DagCore, Named, Reports

-----------------------------------------------------------------------------
(* The theorems. *)

LEMMA DagInitially ==
  ASSUME Init
  PROVE  DagInv
<1>1. contract \in Contracts /\ deadLetters = {} /\ reconciled = {} /\ build = "queued"
  BY DEF Init
<1>2. contract.budget \in [Nodes -> 1 .. MaxOrdinal]
  BY <1>1, ContractsAssumption DEF ContractType
<1>3. ASSUME NEW n \in Nodes
      PROVE  /\ work[n] \in Rows /\ work[n].status \in {"queued", "blocked"}
             /\ work[n].attempt = "queued" /\ work[n].outcome = "none"
  <2>1. 1 \in 1 .. MaxOrdinal
    BY BoundsAssumption
  <2>2. PICK s \in {"queued", "blocked"} :
          work[n] = [status |-> s,
                     outcome |-> "none", stamped |-> FALSE, budget |-> contract.budget[n],
                     attempt |-> "queued", ordinal |-> 1,
                     failFastSkipped |-> FALSE, ran |-> FALSE, effects |-> "none"]
    BY Zenon DEF Init
  <2> QED
    BY <1>2, <2>1, <2>2 DEF Rows, NodeStatuses, AttemptStatuses
<1>4. work \in [Nodes -> Rows]
  BY Zenon, <1>3 DEF Init
<1>5. TypeOK
  <2>1. restores = 0 /\ cancelled \in BOOLEAN /\ enabled \in BOOLEAN
    BY Zenon DEF Init
  <2>2. 0 \in 0 .. MaxRestores
    BY BoundsAssumption
  <2> QED
    BY <1>1, <1>4, <2>1, <2>2 DEF TypeOK
<1>6. \A n \in Nodes : Fits(deadLetters, n, work[n])
  BY <1>3 DEF Fits, Agrees, HasOutcome, Settled, Terminal
<1>7. Lettered(deadLetters, work) /\ Named(deadLetters, work)
  BY <1>1, <1>3 DEF Lettered, Named
<1>8. Reports(deadLetters, work, build)
  <2>1. PICK n \in Nodes : TRUE
    BY ContractsAssumption
  <2>2. work[n].status \notin Settled
    BY <1>3 DEF Settled, Terminal
  <2> QED
    BY <1>1, <2>2 DEF Reports, Terminal
<1> QED
  BY <1>5, <1>6, <1>7, <1>8 DEF DagInv

LEMMA DagStep ==
  ASSUME DagInv, [Next]_vars
  PROVE  DagInv'
<1> DEFINE Others == /\ contract \in Contracts /\ cancelled \in BOOLEAN /\ enabled \in BOOLEAN
                     /\ reconciled \subseteq Nodes \X (1 .. MaxOrdinal)
                     /\ deadLetters \subseteq Nodes \X (1 .. MaxOrdinal)
                     /\ restores \in 0 .. MaxRestores
<1>1. Others /\ DagCore /\ work \in [Nodes -> Rows]
  BY DEF DagInv, TypeOK, DagCore, BuildStatuses
<1>2. contract.sequential \in BOOLEAN
  BY <1>1, ContractsAssumption DEF ContractType
<1>3. \A n \in Nodes : <<n, work[n].ordinal>> \in Nodes \X (1 .. MaxOrdinal)
  BY <1>1 DEF Rows
<1>4. SUFFICES DagCore' /\ Others'
  BY <1>4 DEF DagInv, TypeOK, DagCore, BuildStatuses
<1>5. ASSUME NEW n \in Nodes, AgentCall(n) PROVE DagCore' /\ Others'
  <2>1. Others'
    BY <1>1, <1>5 DEF AgentCall, ClaimNext, AcceptOffer, MarkRunning, RecoverFinalization,
         CheckpointEffect, FinalizeAttempt, CompleteCancellation
  <2>2. CASE CheckpointEffect(n)
    <3>1. PICK e \in {"none", "settled", "open"} : work' = [work EXCEPT ![n].effects = e]
      BY Zenon, <2>2 DEF CheckpointEffect
    <3>2. work[n].attempt # "failed" /\ UNCHANGED <<build, enabled, deadLetters>>
      BY <2>2 DEF CheckpointEffect, Executing, Active
    <3> QED
      BY Zenon, <2>1, <3>1, <3>2, EffectsCore
  <2>3. CASE ClaimNext(n) \/ AcceptOffer(n) \/ MarkRunning(n)
    BY <1>2, <2>1, <2>3, ClaimCore, AcceptCore, RunningCore
  <2>4. CASE \E phase \in {"finalizing", "cancelling"} : RecoverFinalization(n, phase)
    BY <2>1, <2>4, RecoverCore
  <2>5. CASE \E outcome \in Terminal, aware \in BOOLEAN : FinalizeAttempt(n, outcome, aware)
    BY Zenon, <2>1, <2>5, FinalizeCore
  <2>6. CASE \E verified \in BOOLEAN : CompleteCancellation(n, verified)
    BY Zenon, <2>1, <2>6, CancellationCore
  <2> QED
    BY Zenon, <1>5, <2>2, <2>3, <2>4, <2>5, <2>6 DEF AgentCall
<1>6. ASSUME NEW n \in Nodes, RequeueExpired(n) PROVE DagCore' /\ Others'
  <2>1. Others'
    BY <1>1, <1>6 DEF RequeueExpired
  <2> QED
    BY <1>6, <2>1, RequeueCore
<1>7. ASSUME NEW n \in Nodes, OperatorCall(n) PROVE DagCore' /\ Others'
  <2>1. CASE SettleEffects(n)
    <3>1. /\ work' = [work EXCEPT ![n].effects = "settled"]
          /\ work[n].attempt # "failed" /\ UNCHANGED <<build, enabled, deadLetters>>
      BY <2>1 DEF SettleEffects
    <3>2. Others'
      BY <1>1, <2>1 DEF SettleEffects
    <3>3. DagCore'
      BY Zenon, <3>1, EffectsCore
    <3> QED
      BY <3>2, <3>3
  <2>2. CASE \E outcome \in Terminal : FinalizeReconciled(n, outcome)
    <3>1. PICK outcome \in Terminal : FinalizeReconciled(n, outcome)
      BY <2>2
    <3>2. Others'
      BY <1>1, <1>3, <3>1 DEF FinalizeReconciled
    <3>3. DagCore'
      BY <3>1, ConcludeCore DEF FinalizeReconciled
    <3> QED
      BY <3>2, <3>3
  <2>3. CASE \E maxAttempts \in 1 .. MaxOrdinal : ScheduleRetry(n, maxAttempts)
    <3>1. PICK maxAttempts \in 1 .. MaxOrdinal : ScheduleRetry(n, maxAttempts)
      BY <2>3
    <3>2. Others'
      BY Zenon, <1>1, <3>1 DEF ScheduleRetry
    <3> QED
      BY <3>1, <3>2, RetryCore
  <2>4. CASE \E maxAttempts \in 1 .. MaxOrdinal : DeadLetter(n, maxAttempts)
    <3>1. PICK maxAttempts \in 1 .. MaxOrdinal : DeadLetter(n, maxAttempts)
      BY <2>4
    <3>2. Others'
      BY <1>1, <1>3, <3>1 DEF DeadLetter
    <3> QED
      BY <3>1, <3>2, DeadLetterCore
  <2> QED
    BY Zenon, <1>7, <2>1, <2>2, <2>3, <2>4 DEF OperatorCall
<1>8. CASE RequestCancellation
  <2>1. Others'
    BY Zenon, <1>1, <1>8 DEF RequestCancellation
  <2> QED
    BY <1>8, <2>1, RequestCore
<1>9. CASE FencePipeline
  <2>1. Others'
    BY Zenon, <1>1, <1>9 DEF FencePipeline
  <2> QED
    BY <1>9, <2>1, PipelineCore
<1>10. CASE ActivateRestoreEpoch
  <2>a. restores < MaxRestores /\ restores' = restores + 1
    BY Zenon, <1>10 DEF ActivateRestoreEpoch
  <2>1. restores' \in 0 .. MaxRestores
    BY <1>1, <2>a, BoundsAssumption
  <2>2. Others'
    BY Zenon, <1>1, <1>10, <2>1 DEF ActivateRestoreEpoch
  <2> QED
    BY <1>10, <2>2, RestoreCore
<1>11. CASE UNCHANGED vars
  BY <1>1, <1>11 DEF vars, DagCore
<1> QED
  BY Zenon, <1>5, <1>6, <1>7, <1>8, <1>9, <1>10, <1>11 DEF Next

LEMMA DagInvariant ==
  Spec => []DagInv
<1>1. Init => DagInv
  BY DagInitially
<1>2. DagInv /\ [Next]_vars => DagInv'
  BY DagStep
<1> QED
  BY <1>1, <1>2, PTL DEF Spec

(* Every row of a build of any graph holds values its columns admit.  That   *)
(* no chain of automatic and operator retries runs past the bound rests on   *)
(* the budgets compared in advance_dag_after_attempt and schedule_retry_as.  *)
THEOREM DagTypes ==
  Spec => []TypeOK
<1>1. DagInv => TypeOK
  BY DEF DagInv
<1> QED
  BY <1>1, DagInvariant, PTL

(* While the pipeline is enabled, node row, logical outcome and latest       *)
(* attempt agree, whatever the graph, the interleaving of calls, the number  *)
(* of retries and of rounds of advance_blocked_nodes.                        *)
THEOREM RowsTellOneStory ==
  Spec => []RowsAgree
<1>1. DagInv => RowsAgree
  <2>1. ASSUME DagInv, enabled, NEW n \in Nodes PROVE Fits(deadLetters, n, work[n])
    BY <2>1 DEF DagInv
  <2> QED
    BY <2>1 DEF RowsAgree, Fits, Agrees, HasOutcome
<1> QED
  BY <1>1, DagInvariant, PTL

(* Without dead letters the build's status, whether derived by               *)
(* derive_build_outcome or written by a handler, reports its nodes, also     *)
(* after a pipeline fence.                                                   *)
THEOREM BuildStatusReportsNodes ==
  Spec => []BuildReportsNodes
<1>1. DagInv => BuildReportsNodes
  BY DEF DagInv, Reports, BuildReportsNodes
<1> QED
  BY <1>1, DagInvariant, PTL

-----------------------------------------------------------------------------
(* Outcomes are final. *)

(* Rows v leave the settled nodes of rows w alone. *)
Untouched(w, v) == \A m \in Nodes : w[m].status \in Settled => v[m] = w[m]

LEMMA AdvanceBlockedUntouched ==
  ASSUME NEW w
  PROVE  Untouched(w, AdvanceBlocked(w))
<1>1. PICK f : /\ f[0] = w
               /\ \A i \in 1 .. Cardinality(Nodes) : f[i] = AdvanceRound(f[i - 1])
               /\ AdvanceBlocked(w) = f[Cardinality(Nodes)]
  BY Zenon, Rounds
<1> DEFINE K == {i \in 0 .. Cardinality(Nodes) : Untouched(w, f[i])}
<1>2. 0 \in K
  BY <1>1, NodeCount DEF Untouched
<1>3. ASSUME NEW i \in 1 .. Cardinality(Nodes), i - 1 \in K PROVE i \in K
  <2>1. PICK v : v = f[i - 1]
    BY Zenon
  <2>2. Untouched(w, v)
    BY <1>3, <2>1
  <2>3. ASSUME NEW m \in Nodes, w[m].status \in Settled PROVE AdvanceRound(v)[m] = w[m]
    <3>1. v[m] = w[m] /\ v[m].status # "blocked"
      BY <2>2, <2>3 DEF Untouched, Settled, Terminal
    <3> QED
      BY Zenon, <3>1 DEF AdvanceRound
  <2>4. f[i] = AdvanceRound(v)
    BY <1>1, <2>1
  <2> QED
    BY <2>3, <2>4, NodeCount DEF Untouched
<1> HIDE DEF K
<1>4. Cardinality(Nodes) \in K
  BY <1>2, <1>3, NodeCount, RoundsKeep
<1> QED
  BY Zenon, <1>1, <1>4 DEF K

(* In an enabled pipeline advance_dag_after_attempt changes no settled node  *)
(* but the one whose attempt ended.                                          *)
LEMMA AdvancedUntouched ==
  ASSUME NEW w, w = [m \in Nodes |-> w[m]], NEW n \in Nodes, NEW outcome, enabled,
         w[n].outcome = "none"
  PROVE  \A m \in Nodes \ {n} : w[m].status \in Settled => Advanced(w, n, outcome)[m] = w[m]
<1> DEFINE v == Advanced(w, n, outcome)
<1>1. SUFFICES ASSUME NEW m \in Nodes \ {n}, w[m].status \in Settled PROVE v[m] = w[m]
  BY Zenon
<1>2. CASE Retryable(w, n, outcome)
  <2>1. PICK r : v = [w EXCEPT ![n] = r]
    BY Zenon, <1>2 DEF Advanced
  <2> QED
    BY <2>1
<1>3. CASE ~Retryable(w, n, outcome)
  <2>1. PICK s : s = [w EXCEPT ![n].status = outcome, ![n].outcome = outcome, ![n].stamped = FALSE]
    BY Zenon
  <2>2. s[m] = w[m]
    BY <2>1
  <2>3. v = AdvanceBlocked(IF outcome = "failed" /\ n \in contract.failFast
                           THEN SkipUnstarted(CancelActive(s, n, {"offered", "running"}))
                           ELSE s)
    BY <1>3, <2>1 DEF Advanced
  <2>4. w[m].status \notin {"blocked", "queued", "offered", "running"}
    BY <1>1 DEF Settled, Terminal
  <2>5. CancelActive(s, n, {"offered", "running"})[m] = w[m]
    BY <2>2, <2>4 DEF CancelActive
  <2>6. SkipUnstarted(CancelActive(s, n, {"offered", "running"}))[m] = w[m]
    <3>1. PICK u : u = CancelActive(s, n, {"offered", "running"})
      BY Zenon
    <3>2. SkipUnstarted(u)[m] = u[m]
      BY <2>4, <2>5, <3>1 DEF SkipUnstarted
    <3> QED
      BY <2>5, <3>1, <3>2
  <2>7. PICK u : v = AdvanceBlocked(u) /\ u[m] = w[m]
    BY <2>2, <2>3, <2>6
  <2> QED
    BY <1>1, <2>7, AdvanceBlockedUntouched DEF Untouched
<1> QED
  BY <1>2, <1>3

(* Node n keeps its outcome, unless it gets a new attempt. *)
OutcomeStands(n) ==
    work[n].outcome # "none" /\ work'[n].ordinal = work[n].ordinal =>
        work'[n].status = work[n].status /\ work'[n].outcome = work[n].outcome

(* In an enabled pipeline a node with an outcome is settled. *)
LEMMA OutcomeIsSettled ==
  ASSUME DagInv, enabled, NEW n \in Nodes, work[n].outcome # "none"
  PROVE  /\ work[n].status \in Settled
         /\ work[n].attempt \notin Active \cup {"queued", "reconciliation_required"}
<1>1. Agrees(work[n])
  BY Zenon DEF DagInv, Fits
<1>2. CASE work[n].attempt = "failed"
  BY <1>1, <1>2 DEF Agrees, Executing, Active, Settled, Terminal
<1>3. CASE work[n].attempt # "failed"
  <2>1. HasOutcome(work[n])
    BY Zenon, <1>3, Current
  <2>2. work[n].status \in Settled
    BY <2>1 DEF HasOutcome
  <2> QED
    BY <1>1, <2>2 DEF Agrees, Executing, Active, Settled, Terminal
<1> QED
  BY Zenon, <1>2, <1>3

(* A step that changes only node m's row, whose attempt is open, changes no  *)
(* outcome.                                                                  *)
LEMMA OneRowStands ==
  ASSUME DagInv, enabled, NEW m \in Nodes,
         work[m].attempt \in Active \cup {"queued", "reconciliation_required"},
         \A n \in Nodes \ {m} : work'[n] = work[n]
  PROVE  \A n \in Nodes : OutcomeStands(n)
<1>1. work[m].outcome = "none"
  BY Zenon, OutcomeIsSettled
<1> QED
  BY Zenon, <1>1 DEF OutcomeStands

LEMMA ConcludeStands ==
  ASSUME DagInv, enabled, NEW m \in Nodes, NEW outcome,
         work[m].attempt \in Active \cup {"reconciliation_required"}, Conclude(m, outcome)
  PROVE  \A n \in Nodes : OutcomeStands(n)
<1>1. PICK w : w = [work EXCEPT ![m].attempt = outcome]
  BY Zenon
<1>2. work' = Advanced(w, m, outcome)
  BY Zenon, <1>1 DEF Conclude
<1>3. work[m].outcome = "none"
  BY Zenon, OutcomeIsSettled
<1>4. /\ w = [n \in Nodes |-> w[n]] /\ w[m].outcome = "none"
      /\ \A n \in Nodes \ {m} : w[n] = work[n]
  BY Zenon, <1>1, <1>3, WorkTyped DEF Rows
<1>5. ASSUME NEW n \in Nodes \ {m}, work[n].outcome # "none" PROVE work'[n] = work[n]
  <2>1. w[n].status \in Settled /\ w[n] = work[n]
    BY <1>4, <1>5, OutcomeIsSettled
  <2> QED
    BY <1>2, <1>4, <2>1, AdvancedUntouched
<1> QED
  BY Zenon, <1>3, <1>5 DEF OutcomeStands

LEMMA StepStands ==
  ASSUME DagInv, enabled, [Next]_vars
  PROVE  \A n \in Nodes : OutcomeStands(n)
<1>w. work \in [Nodes -> Rows]
  BY WorkTyped
<1>1. ASSUME NEW m \in Nodes, NEW e, Park(m, e), work[m].attempt \in Active
      PROVE  \A n \in Nodes : OutcomeStands(n)
  <2>1. \A n \in Nodes \ {m} : work'[n] = work[n]
    BY <1>w, <1>1 DEF Park
  <2> QED
    BY <1>1, <2>1, OneRowStands
<1>2. ASSUME NEW m \in Nodes, AgentCall(m) PROVE \A n \in Nodes : OutcomeStands(n)
  <2>1. CASE ClaimNext(m) \/ AcceptOffer(m) \/ MarkRunning(m) \/ CheckpointEffect(m)
             \/ \E phase \in {"finalizing", "cancelling"} : RecoverFinalization(m, phase)
    <3>1. work[m].attempt \in Active \cup {"queued", "reconciliation_required"}
      BY Zenon, <2>1 DEF ClaimNext, Claimable, AcceptOffer, MarkRunning, CheckpointEffect,
                  RecoverFinalization, Executing, Active
    <3>2. \A n \in Nodes \ {m} : work'[n] = work[n]
      BY Zenon, <1>w, <2>1 DEF ClaimNext, AcceptOffer, MarkRunning, CheckpointEffect, RecoverFinalization
    <3> QED
      BY <3>1, <3>2, OneRowStands
  <2>2. CASE \E outcome \in Terminal, aware \in BOOLEAN : FinalizeAttempt(m, outcome, aware)
    <3>1. work[m].attempt \in Active
      BY <2>2 DEF FinalizeAttempt, Executing
    <3>2. Park(m, "open") \/ \E published : Conclude(m, published)
      BY Zenon, <2>2 DEF FinalizeAttempt
    <3> QED
      BY <1>1, <3>1, <3>2, ConcludeStands
  <2>3. CASE \E verified \in BOOLEAN : CompleteCancellation(m, verified)
    <3>1. work[m].attempt \in Active
      BY <2>3 DEF CompleteCancellation, Active
    <3>2. Park(m, work[m].effects) \/ Conclude(m, "aborted")
      BY <2>3 DEF CompleteCancellation
    <3> QED
      BY <1>1, <3>1, <3>2, ConcludeStands
  <2> QED
    BY Zenon, <1>2, <2>1, <2>2, <2>3 DEF AgentCall
<1>3. ASSUME NEW m \in Nodes, RequeueExpired(m) PROVE \A n \in Nodes : OutcomeStands(n)
  <2>1. work[m].attempt \in Active
    BY <1>3 DEF RequeueExpired
  <2>2. \/ Conclude(m, "aborted")
        \/ \E e : Park(m, e)
        \/ work' = [work EXCEPT ![m].attempt = "queued", ![m].ran = FALSE,
                                ![m].status = QueuedOrBlocked(work, m)]
    BY <1>3 DEF RequeueExpired
  <2>3. CASE work' = [work EXCEPT ![m].attempt = "queued", ![m].ran = FALSE,
                                  ![m].status = QueuedOrBlocked(work, m)]
    <3>1. \A n \in Nodes \ {m} : work'[n] = work[n]
      BY <1>w, <2>3
    <3> QED
      BY <2>1, <3>1, OneRowStands
  <2> QED
    BY <1>1, <2>1, <2>2, <2>3, ConcludeStands
<1>4. ASSUME NEW m \in Nodes, OperatorCall(m) PROVE \A n \in Nodes : OutcomeStands(n)
  <2>1. CASE SettleEffects(m)
    <3>1. /\ work[m].attempt = "reconciliation_required"
          /\ \A n \in Nodes \ {m} : work'[n] = work[n]
      BY <1>w, <2>1 DEF SettleEffects
    <3> QED
      BY <3>1, OneRowStands
  <2>2. CASE \E outcome \in Terminal : FinalizeReconciled(m, outcome)
    BY <2>2, ConcludeStands DEF FinalizeReconciled
  <2>3. CASE \E k \in 1 .. MaxOrdinal : ScheduleRetry(m, k)
    <3>1. PICK k \in 1 .. MaxOrdinal : ScheduleRetry(m, k)
      BY <2>3
    <3>2. ASSUME NEW n \in Nodes PROVE work'[n] = work[n] \/ work'[n].ordinal = work[n].ordinal + 1
      <4>1. work[n] \in Rows
        BY <1>w
      <4>2. CASE n = m
        BY Zenon, <3>1, <4>1, <4>2 DEF ScheduleRetry, NewAttempt, Rows
      <4>3. CASE n # m /\ n \in Revived(m)
        BY Zenon, <3>1, <4>1, <4>3 DEF ScheduleRetry, NewAttempt, Rows
      <4>4. CASE n # m /\ n \notin Revived(m)
        BY Zenon, <3>1, <4>4 DEF ScheduleRetry
      <4> QED
        BY Zenon, <4>2, <4>3, <4>4
    <3>3. ASSUME NEW n \in Nodes PROVE work[n].ordinal + 1 # work[n].ordinal
      BY <1>w DEF Rows
    <3> QED
      BY Zenon, <3>2, <3>3 DEF OutcomeStands
  <2>4. CASE \E k \in 1 .. MaxOrdinal : DeadLetter(m, k)
    <3>1. CASE UNCHANGED work
      BY <3>1 DEF OutcomeStands
    <3>2. CASE /\ work[m].attempt = "reconciliation_required"
               /\ work' = [work EXCEPT ![m].attempt = "failed", ![m].status = "failed"]
      <4>1. \A n \in Nodes \ {m} : work'[n] = work[n]
        BY <1>w, <3>2
      <4> QED
        BY Zenon, <3>2, <4>1, OneRowStands
    <3> QED
      BY <2>4, <3>1, <3>2 DEF DeadLetter
  <2> QED
    BY Zenon, <1>4, <2>1, <2>2, <2>3, <2>4 DEF OperatorCall
<1>5. CASE RequestCancellation
  <2>1. ASSUME NEW n \in Nodes, work[n].outcome # "none"
        PROVE  work'[n].status = work[n].status /\ work'[n].outcome = work[n].outcome
    <3>1. work[n] \in Rows /\ work[n].status \notin {"blocked", "queued"}
      BY <1>w, <2>1, OutcomeIsSettled DEF Settled, Terminal
    <3>2. PICK b, a : work'[n] = [work[n] EXCEPT !.stamped = b, !.attempt = a]
      BY Zenon, <1>5, <3>1 DEF RequestCancellation, Rows
    <3> QED
      BY <3>1, <3>2 DEF Rows
  <2> QED
    BY Zenon, <2>1 DEF OutcomeStands
<1>6. CASE ActivateRestoreEpoch
  <2>1. ASSUME NEW n \in Nodes, work[n].outcome # "none" PROVE work'[n] = work[n]
    <3>1. work[n].attempt \notin Active
      BY <2>1, OutcomeIsSettled
    <3> QED
      BY Zenon, <1>6, <3>1 DEF ActivateRestoreEpoch
  <2> QED
    BY Zenon, <2>1 DEF OutcomeStands
<1>7. CASE FencePipeline \/ UNCHANGED vars
  BY Zenon, <1>7 DEF FencePipeline, vars, OutcomeStands
<1> QED
  BY Zenon, <1>2, <1>3, <1>4, <1>5, <1>6, <1>7 DEF Next

(* "terminal monotonicity, and one logical outcome per DAG node": until the  *)
(* pipeline is fenced, a node that has its logical outcome keeps it, with    *)
(* its status, until a new attempt of the node is made.  The fence is the    *)
(* only way to what the run DagFencedOutcome finds.                          *)
THEOREM OutcomeFinalWhileEnabled ==
  Spec => [][enabled => \A n \in Nodes : OutcomeStands(n)]_vars
<1>1. DagInv /\ [Next]_vars => [enabled => \A n \in Nodes : OutcomeStands(n)]_vars
  BY StepStands
<1> QED
  BY <1>1, DagInvariant, PTL DEF Spec
=============================================================================
