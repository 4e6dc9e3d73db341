-------------------------- MODULE NotificationsProofs --------------------------
(***************************************************************************)
(* Proofs about Notifications: for every number of builds and tasks, any   *)
(* retries of builds, any crashes and lost answers, and all bounds that    *)
(* keep the order of the deadlines, an answer settles only the outcome it  *)
(* was about, and the commit status ends up showing the newest outcome.    *)
(***************************************************************************)
EXTENDS Notifications, TLAPS

(* Build n is the newest with a row of the commit status. *)
IsNewest(n) == n \in StatusRows /\ \A c \in StatusRows : c <= n

(* A task whose delivery claim was not settled yet. *)
Unsettled == {"claimed", "sending", "applied", "posted", "failed", "superseded"}
Delivers(t) == task[t].job = "deliver" /\ task[t].phase \in Unsettled

(* The task works on the outcome the row holds now. *)
IsCurrent(t) == task[t].generation = row[task[t].build].generation

(* What a task that is at work relies on. *)
TaskAtWork(t) ==
    /\ task[t].build \in Builds /\ row[task[t].build].state # "none"
    /\ task[t].outcome # "none"
    /\ task[t].generation <= row[task[t].build].generation
    /\ IsCurrent(t) => task[t].outcome = row[task[t].build].outcome
    /\ task[t].job = "reconcile" =>
          /\ IsStatus(task[t].build)
          /\ IsCurrent(t) => row[task[t].build].recAttempts > 0
    /\ task[t].phase \in {"observing", "matched"} => task[t].job = "reconcile"
    /\ task[t].phase \in Requesting => task[t].left <= Deadline
    /\ task[t].phase = "posted" => <<task[t].build, task[t].generation>> \in accepted
    /\ task[t].phase = "superseded" => IsStatus(task[t].build) /\ LaterRows(task[t].build) # {}
    /\ task[t].phase = "requeueLater" => task[t].holder \in StatusRows
    /\ task[t].age < ClaimLease
TasksAtWork ==
    /\ \A b \in Builds : row[b].state # "none" => row[b].outcome # "none" /\ row[b].generation > 0
    /\ \A t \in Tasks : task[t].phase # "idle" => TaskAtWork(t)

(* A delivery claim on the current outcome stands until it is settled, and   *)
(* its lease runs as long as the task may: no other task can have it.        *)
ClaimsStand ==
    /\ \A t \in Tasks : Delivers(t) /\ IsCurrent(t) =>
          /\ HoldsDelivery(t)
          /\ row[task[t].build].wait = ClaimLease - task[t].age
    /\ \A s, t \in Tasks :
          (/\ Delivers(s) /\ Delivers(t)
           /\ task[s].build = task[t].build /\ task[s].generation = task[t].generation) => s = t

(* The post of task t may overwrite the status of build n: it is about an    *)
(* earlier build, or an earlier outcome of this one.                         *)
IsStale(t, n) ==
    /\ task[t].phase # "idle" /\ IsStatus(task[t].build)
    /\ \/ task[t].build < n
       \/ task[t].build = n /\ task[t].generation < row[n].generation

(* Task t wrote, and will have build n posted again. *)
Owes(t, n) ==
    /\ IsStale(t, n)
    /\ \/ task[t].phase \in {"applied", "posted", "requeue"}
       \/ task[t].build < n /\ task[t].phase = "follow"
       \/ task[t].phase = "requeueLater" /\ task[t].holder = n
Stands(n) == Shows(n) \/ \E t \in Tasks : Owes(t, n)

(* A post of the current outcome of build n is out, or was answered. *)
PostedFor(t, n) ==
    /\ Delivers(t) /\ task[t].phase \in {"applied", "posted"}
    /\ task[t].build = n /\ IsCurrent(t)

(* Without faults: a delivered newest outcome stands, and so does one whose  *)
(* post is out, unless the row will be posted once more.                     *)
CorrectedOf(n) ==
    /\ row[n].state = "delivered" => Stands(n)
    /\ \A t \in Tasks : PostedFor(t, n) => row[n].repost \/ Stands(n)
Corrected ==
    faults = 0 => late = {} /\ \A n \in Builds : IsNewest(n) => CorrectedOf(n)

(* Without late writes: the newest outcome is observed only once no earlier  *)
(* post can be out any more, and from then on nothing overwrites it.         *)
MayWrite == {"observing", "sending"}
HasSeen == {"applied", "posted", "matched"}
OutlivesStale(n) ==
    \A t \in Tasks : IsStale(t, n) /\ task[t].phase \in MayWrite =>
        /\ row[n].recAttempts = 0
        /\ row[n].state = "delivered" /\ row[n].recDue # Nil => row[n].recDue > task[t].left
SeenStands(n) ==
    row[n].recAttempts > 0 =>
        /\ \A t \in Tasks : task[t].phase \in HasSeen /\ task[t].build = n /\ IsCurrent(t) => Shows(n)
        /\ row[n].state = "delivered" /\ row[n].recLease = Nil /\ ~row[n].recError => Shows(n)
Observed ==
    lates = 0 =>
        late = {} /\ \A n \in Builds : IsNewest(n) => OutlivesStale(n) /\ SeenStands(n)

DeliveryInv ==
    DeliveryTypeOK /\ TasksAtWork /\ ClaimsStand /\ DeliveredWasAccepted /\ Corrected /\ Observed

(* The row of one build changes. *)
LEMMA RowSet ==
  ASSUME row \in [Builds -> DeliveryRows], NEW b \in Builds, NEW r \in DeliveryRows,
         row' = [row EXCEPT ![b] = r]
  PROVE  /\ row' \in [Builds -> DeliveryRows] /\ row'[b] = r
         /\ \A c \in Builds \ {b} : row'[c] = row[c]
BY Zenon

LEMMA TaskSet ==
  ASSUME task \in [Tasks -> TaskWork], NEW t \in Tasks, NEW w \in TaskWork,
         task' = [task EXCEPT ![t] = w]
  PROVE  /\ task' \in [Tasks -> TaskWork] /\ task'[t] = w
         /\ \A s \in Tasks \ {t} : task'[s] = task[s]
BY Zenon

(* What a task does next leaves what it is about. *)
SameErrand(t) ==
    /\ task'[t].job = task[t].job /\ task'[t].build = task[t].build
    /\ task'[t].generation = task[t].generation /\ task'[t].outcome = task[t].outcome
    /\ task'[t].attempts = task[t].attempts

LEMMA GoesFacts ==
  ASSUME task \in [Tasks -> TaskWork], NEW t \in Tasks, NEW phase \in TaskPhases, TaskGoes(t, phase)
  PROVE  /\ task' \in [Tasks -> TaskWork]
         /\ \A s \in Tasks \ {t} : task'[s] = task[s]
         /\ SameErrand(t) /\ task'[t].phase = phase
         /\ task'[t].age = task[t].age /\ task'[t].holder = task[t].holder
         /\ phase \in Requesting => task'[t].left = task[t].left
<1> DEFINE w == [task[t] EXCEPT !.phase = phase,
                                !.left = IF phase \in Requesting THEN @ ELSE 0]
<1>1. task[t] \in TaskWork
  BY Zenon
<1>2. w \in TaskWork
  BY Zenon, <1>1 DEF TaskWork
<1>3. task' = [task EXCEPT ![t] = w]
  BY Zenon DEF TaskGoes
<1>4. /\ w.job = task[t].job /\ w.build = task[t].build /\ w.generation = task[t].generation
      /\ w.outcome = task[t].outcome /\ w.attempts = task[t].attempts /\ w.phase = phase
      /\ w.age = task[t].age /\ w.holder = task[t].holder
      /\ phase \in Requesting => w.left = task[t].left
  BY <1>1 DEF TaskWork
<1> HIDE DEF w
<1> QED
  BY Zenon, <1>2, <1>3, <1>4, TaskSet DEF SameErrand

LEMMA EndsFacts ==
  ASSUME task \in [Tasks -> TaskWork], NEW t \in Tasks, TaskEnds(t)
  PROVE  /\ task' \in [Tasks -> TaskWork] /\ task'[t].phase = "idle"
         /\ \A s \in Tasks \ {t} : task'[s] = task[s]
<1>1. IdleTask \in TaskWork /\ IdleTask.phase = "idle"
  BY DEF IdleTask, TaskWork, TaskPhases, Nil
<1> QED
  BY Zenon, <1>1, TaskSet DEF TaskEnds

-----------------------------------------------------------------------------
(* What steps do to a row *)

(* The build became terminal again. *)
Renewed(b) ==
    /\ row'[b].generation > row[b].generation
    /\ row'[b].state = "pending" /\ row'[b].recAttempts = 0 /\ row'[b].outcome # "none"

(* The row is about the same outcome, and was observed as often. *)
SameOutcome(b) ==
    /\ row'[b].generation = row[b].generation /\ row'[b].outcome = row[b].outcome
    /\ row'[b].state = "none" <=> row[b].state = "none"
SameRounds(b) == SameOutcome(b) /\ row'[b].recAttempts = row[b].recAttempts

(* A delivery claim is not touched, or there is none that is current. *)
ClaimKept(b) ==
    /\ row'[b].state = row[b].state /\ row'[b].attempts = row[b].attempts
    /\ row'[b].wait = row[b].wait /\ (row[b].repost => row'[b].repost)
Unclaimed(b) == row[b].state # "pending" \/ row[b].wait = 0

(* The row does not become delivered, due for observation, or observed. *)
NotSettled(b) ==
    row'[b].state = "delivered" =>
        /\ row[b].state = "delivered" /\ row'[b].recDue \in {row[b].recDue, Nil}
        /\ row'[b].recLease = Nil /\ ~row'[b].recError => row[b].recLease = Nil /\ ~row[b].recError

QuietRow(b) == SameRounds(b) /\ NotSettled(b) /\ (ClaimKept(b) \/ Unclaimed(b))

LEMMA SameRowIsQuiet ==
  ASSUME NEW b, row'[b] = row[b]
  PROVE  QuietRow(b) /\ ClaimKept(b)
BY Zenon DEF QuietRow, SameRounds, SameOutcome, NotSettled, ClaimKept

(* The status rows only become more. *)
LEMMA StatusRowsGrow ==
  ASSUME kind' = kind, \A b \in Builds : Renewed(b) \/ SameOutcome(b)
  PROVE  /\ StatusRows \subseteq StatusRows'
         /\ \A b : LaterRows(b) \subseteq LaterRows(b)'
         /\ \A n \in Builds : IsNewest(n)' => IsNewest(n) \/ Renewed(n)
<1>1. \A b \in Builds : row[b].state # "none" => row'[b].state # "none"
  BY Zenon DEF Renewed, SameOutcome
<1>2. StatusRows \subseteq StatusRows'
  BY Zenon, <1>1 DEF StatusRows, IsStatus
<1>3. \A b : LaterRows(b) \subseteq LaterRows(b)'
  BY Zenon, <1>2 DEF LaterRows
<1>4. ASSUME NEW n \in Builds, IsNewest(n)', ~Renewed(n) PROVE IsNewest(n)
  <2>1. n \in StatusRows
    BY Zenon, <1>4 DEF IsNewest, StatusRows, IsStatus, SameOutcome
  <2> QED
    BY Zenon, <1>2, <1>4, <2>1 DEF IsNewest
<1> QED
  BY Zenon, <1>2, <1>3, <1>4

(* A task goes on with the same errand. *)
LEMMA AtWorkGoesOn ==
  ASSUME DeliveryTypeOK, DeliveryTypeOK', kind' = kind, accepted \subseteq accepted',
         \A b \in Builds : \/ Renewed(b)
                           \/ SameOutcome(b) /\ row'[b].recAttempts >= row[b].recAttempts,
         NEW t \in Tasks, TaskAtWork(t), SameErrand(t), task'[t].age < ClaimLease,
         task'[t].phase \in {"observing", "matched"} => task[t].job = "reconcile",
         task'[t].phase \in Requesting => task'[t].left <= Deadline,
         task'[t].phase = "posted" => \/ task[t].phase = "posted"
                                      \/ <<task[t].build, task[t].generation>> \in accepted',
         task'[t].phase = "superseded" =>
            task[t].phase = "superseded" \/ (IsStatus(task[t].build) /\ LaterRows(task[t].build) # {}),
         task'[t].phase = "requeueLater" => task'[t].holder \in StatusRows
  PROVE  TaskAtWork(t)'
<1>0. PICK b : b = task[t].build
  OBVIOUS
<1>1. /\ b \in Builds /\ row[b].state # "none"
      /\ task[t].generation <= row[b].generation /\ task[t].outcome # "none"
      /\ task[t].generation = row[b].generation => task[t].outcome = row[b].outcome
      /\ task[t].job = "reconcile" =>
            IsStatus(b) /\ (task[t].generation = row[b].generation => row[b].recAttempts > 0)
  BY Zenon, <1>0 DEF TaskAtWork, IsCurrent
<1>2. /\ StatusRows \subseteq StatusRows' /\ LaterRows(b) \subseteq LaterRows(b)'
  BY Zenon, StatusRowsGrow
<1>3. /\ row[b].generation \in Nat /\ row'[b].generation \in Nat /\ task[t].generation \in Nat
      /\ row[b].recAttempts \in Nat /\ row'[b].recAttempts \in Nat
  <2>1. row[b] \in DeliveryRows /\ row'[b] \in DeliveryRows /\ task[t] \in TaskWork
    BY Zenon, <1>1 DEF DeliveryTypeOK
  <2> QED
    BY <2>1 DEF DeliveryRows, TaskWork
<1>4. /\ task'[t].job = task[t].job /\ task'[t].build = b
      /\ task'[t].generation = task[t].generation /\ task'[t].outcome = task[t].outcome
  BY Zenon, <1>0 DEF SameErrand
<1>5. \/ row'[b].generation > row[b].generation /\ row'[b].state = "pending"
      \/ /\ row'[b].generation = row[b].generation /\ row'[b].outcome = row[b].outcome
         /\ row'[b].state # "none" /\ row'[b].recAttempts >= row[b].recAttempts
  BY Zenon, <1>1 DEF Renewed, SameOutcome
<1>6. /\ row'[b].state # "none" /\ task[t].generation <= row'[b].generation
      /\ task[t].generation = row'[b].generation =>
            /\ task[t].outcome = row'[b].outcome
            /\ task[t].job = "reconcile" => row'[b].recAttempts > 0
  BY <1>1, <1>3, <1>5
<1>7. task[t].job = "reconcile" => IsStatus(b)'
  BY Zenon, <1>1, <1>4 DEF IsStatus
<1>8. task'[t].phase = "posted" => <<b, task[t].generation>> \in accepted'
  BY Zenon, <1>0 DEF TaskAtWork
<1>9. task'[t].phase = "superseded" => IsStatus(b)' /\ LaterRows(b)' # {}
  <2>1. task'[t].phase = "superseded" => IsStatus(b) /\ LaterRows(b) # {}
    BY Zenon, <1>0 DEF TaskAtWork
  <2>2. LaterRows(b) # {} => LaterRows(b)' # {}
    BY <1>2
  <2> QED
    BY Zenon, <2>1, <2>2, <1>4 DEF IsStatus
<1>10. task'[t].phase = "requeueLater" => task'[t].holder \in StatusRows'
  BY Zenon, <1>2
<1> QED
  BY Zenon, <1>1, <1>4, <1>6, <1>7, <1>8, <1>9, <1>10 DEF TaskAtWork, IsCurrent, IsStatus, LaterRows

(* A row keeps the outcome it names until it gets another. *)
LEMMA OutcomesNamed ==
  ASSUME DeliveryTypeOK, DeliveryTypeOK', TasksAtWork, \A b \in Builds : Renewed(b) \/ SameOutcome(b)
  PROVE  \A b \in Builds : row'[b].state # "none" => row'[b].outcome # "none" /\ row'[b].generation > 0
<1>1. \A b \in Builds : row[b].generation \in Nat /\ row'[b].generation \in Nat
  BY DEF DeliveryTypeOK, DeliveryRows
<1>2. \A b \in Builds : row'[b].generation > row[b].generation => row'[b].generation > 0
  BY <1>1
<1> QED
  BY Zenon, <1>2 DEF TasksAtWork, Renewed, SameOutcome

(* A task that is not the acting one. *)
LEMMA AtWorkStays ==
  ASSUME DeliveryTypeOK, DeliveryTypeOK', kind' = kind, accepted \subseteq accepted',
         \A b \in Builds : \/ Renewed(b)
                           \/ SameOutcome(b) /\ row'[b].recAttempts >= row[b].recAttempts,
         NEW t \in Tasks, TaskAtWork(t), task'[t] = task[t]
  PROVE  TaskAtWork(t)'
BY Zenon, AtWorkGoesOn DEF TaskAtWork, SameErrand

(* What an unsettled delivery of the current outcome relies on. *)
LEMMA ClaimRuns ==
  ASSUME DeliveryTypeOK, TasksAtWork, ClaimsStand, NEW t \in Tasks, Delivers(t), IsCurrent(t)
  PROVE  /\ task[t].build \in Builds /\ row[task[t].build].state = "pending"
         /\ row[task[t].build].attempts = task[t].attempts
         /\ row[task[t].build].wait = ClaimLease - task[t].age /\ row[task[t].build].wait > 0
         /\ ~Unclaimed(task[t].build)
<1>1. TaskAtWork(t)
  BY Zenon DEF TasksAtWork, Delivers, Unsettled
<1>2. /\ HoldsDelivery(t) /\ row[task[t].build].wait = ClaimLease - task[t].age
  BY Zenon DEF ClaimsStand
<1>3. task[t].build \in Builds /\ task[t].age < ClaimLease
  BY Zenon, <1>1 DEF TaskAtWork
<1>4. task[t].age \in Nat /\ ClaimLease \in Nat
  BY DeliveryAssumption DEF DeliveryTypeOK, TaskWork
<1>5. row[task[t].build].wait > 0 /\ row[task[t].build].wait # 0
  BY <1>2, <1>3, <1>4
<1> QED
  BY Zenon, <1>2, <1>3, <1>5 DEF HoldsDelivery, Unclaimed

(* A step that begins no delivery claim and takes none away. *)
LEMMA ClaimsKept ==
  ASSUME DeliveryTypeOK, DeliveryTypeOK', TasksAtWork, ClaimsStand,
         \A t \in Tasks : Delivers(t)' =>
            Delivers(t) /\ SameErrand(t) /\ task'[t].age = task[t].age,
         \A b \in Builds :
            \/ Renewed(b)
            \/ /\ row'[b].generation = row[b].generation
               /\ \/ ClaimKept(b) \/ Unclaimed(b)
                  \/ \A t \in Tasks : Delivers(t)' /\ task[t].build = b =>
                                         task[t].generation # row[b].generation
  PROVE  ClaimsStand'
<1>1. ASSUME NEW t \in Tasks, Delivers(t)', IsCurrent(t)'
      PROVE  HoldsDelivery(t)' /\ row'[task'[t].build].wait = ClaimLease - task'[t].age
  <2>0. PICK b : b = task[t].build
    OBVIOUS
  <2>1. /\ Delivers(t) /\ task'[t].build = b /\ task'[t].generation = task[t].generation
        /\ task'[t].attempts = task[t].attempts /\ task'[t].age = task[t].age
    BY Zenon, <1>1, <2>0 DEF SameErrand
  <2>2. b \in Builds /\ task[t].generation <= row[b].generation
    BY Zenon, <2>0, <2>1 DEF TasksAtWork, TaskAtWork, Delivers, Unsettled
  <2>3. task[t].generation = row'[b].generation
    BY Zenon, <1>1, <2>1 DEF IsCurrent
  <2>4. /\ row[b].generation \in Nat /\ row'[b].generation \in Nat
    <3>1. row[b] \in DeliveryRows /\ row'[b] \in DeliveryRows
      BY Zenon, <2>2 DEF DeliveryTypeOK
    <3> QED
      BY <3>1 DEF DeliveryRows
  <2>5. ~(row'[b].generation > row[b].generation)
    BY <2>2, <2>3, <2>4
  <2>6. row'[b].generation = row[b].generation /\ IsCurrent(t)
    BY Zenon, <2>0, <2>2, <2>3, <2>5 DEF Renewed, IsCurrent
  <2>7. /\ row[b].state = "pending" /\ row[b].attempts = task[t].attempts
        /\ row[b].wait = ClaimLease - task[t].age /\ ~Unclaimed(b)
    BY Zenon, <2>0, <2>1, <2>6, ClaimRuns
  <2>8. ClaimKept(b)
    BY Zenon, <1>1, <2>0, <2>2, <2>3, <2>5, <2>6, <2>7 DEF Renewed
  <2> QED
    BY Zenon, <2>1, <2>3, <2>7, <2>8 DEF ClaimKept, HoldsDelivery
<1>2. ASSUME NEW s \in Tasks, NEW t \in Tasks, Delivers(s)', Delivers(t)',
             task'[s].build = task'[t].build, task'[s].generation = task'[t].generation
      PROVE  s = t
  <2>1. /\ task[s].build = task'[s].build /\ task[t].build = task'[t].build
        /\ task[s].generation = task'[s].generation /\ task[t].generation = task'[t].generation
        /\ Delivers(s) /\ Delivers(t)
    BY Zenon, <1>2 DEF SameErrand
  <2>2. task[s].build = task[t].build /\ task[s].generation = task[t].generation
    BY Zenon, <1>2, <2>1
  <2> QED
    BY Zenon, <2>1, <2>2 DEF ClaimsStand
<1> QED
  BY Zenon, <1>1, <1>2 DEF ClaimsStand

(* No row becomes delivered. *)
LEMMA AcceptedKept ==
  ASSUME DeliveredWasAccepted, accepted \subseteq accepted',
         \A b \in Builds : row'[b].state = "delivered" =>
            \/ row[b].state = "delivered" /\ row'[b].generation = row[b].generation
            \/ <<b, row'[b].generation>> \in accepted'
  PROVE  DeliveredWasAccepted'
BY Zenon DEF DeliveredWasAccepted

(* The row of n is to be posted again, after the posts that are out. *)
Again(n) == row'[n].state # "delivered" /\ \A t \in Tasks : PostedFor(t, n)' => row'[n].repost

(* A task of an earlier outcome is not about one that was just recorded. *)
LEMMA RenewedIsNew ==
  ASSUME DeliveryTypeOK, DeliveryTypeOK', TasksAtWork, NEW n \in Builds, Renewed(n),
         NEW t \in Tasks, task[t].phase # "idle", SameErrand(t), task[t].build = n
  PROVE  ~IsCurrent(t)'
<1>1. row'[n].generation > row[n].generation
  BY Zenon DEF Renewed
<1>2. task[t].generation <= row[n].generation
  BY Zenon DEF TasksAtWork, TaskAtWork
<1>3. /\ row[n].generation \in Nat /\ row'[n].generation \in Nat /\ task[t].generation \in Nat
  BY DEF DeliveryTypeOK, DeliveryRows, TaskWork
<1>4. task[t].generation # row'[n].generation
  BY <1>1, <1>2, <1>3
<1> QED
  BY Zenon, <1>4 DEF IsCurrent, SameErrand

(* Whoever owes the newest build another post owes it still, or has given    *)
(* it; what is written or delivered stands.                                  *)
LEMMA CorrectedKept ==
  ASSUME DeliveryTypeOK, DeliveryTypeOK', TasksAtWork, Corrected,
         kind' = kind, faults' = 0 => faults = 0 /\ late' = late,
         \A b \in Builds : Renewed(b) \/ SameOutcome(b),
         \A b \in Builds : row'[b].state = "delivered" =>
            \/ row[b].state = "delivered"
            \/ ~row[b].repost /\ \E t \in Tasks : PostedFor(t, b),
         \A t \in Tasks : task'[t].phase \in {"applied", "posted"} =>
            /\ SameErrand(t) /\ task[t].phase # "idle"
            /\ \/ task[t].phase \in {"applied", "posted"}
               \/ IsStatus(task[t].build) => \A n \in Builds : IsNewest(n)' /\ SameOutcome(n) => Stands(n)',
         \A n \in Builds, t \in Tasks :
            PostedFor(t, n) /\ PostedFor(t, n)' /\ row[n].repost => row'[n].repost,
         \A n \in Builds : faults' = 0 /\ IsNewest(n) /\ IsNewest(n)' /\ SameOutcome(n) =>
            \/ Again(n) \/ Stands(n)'
            \/ shown' = shown /\ \A t \in Tasks : Owes(t, n) => Owes(t, n)'
  PROVE  Corrected'
<1> SUFFICES ASSUME faults' = 0
             PROVE  late' = {} /\ \A n \in Builds : IsNewest(n)' => CorrectedOf(n)'
  BY Zenon DEF Corrected
<1>1. late' = {}
  BY Zenon DEF Corrected
<1>2. ASSUME NEW n \in Builds, Renewed(n) PROVE CorrectedOf(n)'
  <2>1. row'[n].state # "delivered"
    BY Zenon, <1>2 DEF Renewed
  <2>2. ASSUME NEW t \in Tasks, PostedFor(t, n)' PROVE FALSE
    <3>1. SameErrand(t) /\ task[t].phase # "idle" /\ task'[t].build = n /\ IsCurrent(t)'
      BY Zenon, <2>2 DEF PostedFor
    <3>2. task[t].build = n
      BY Zenon, <3>1 DEF SameErrand
    <3> QED
      BY Zenon, <1>2, <3>1, <3>2, RenewedIsNew
  <2> QED
    BY Zenon, <2>1, <2>2 DEF CorrectedOf
<1>3. ASSUME NEW n \in Builds, IsNewest(n)', ~Renewed(n) PROVE CorrectedOf(n)'
  <2>1. IsNewest(n) /\ SameOutcome(n)
    BY Zenon, <1>3, StatusRowsGrow
  <2>2. ASSUME NEW t \in Tasks, PostedFor(t, n)' PROVE PostedFor(t, n) \/ Stands(n)'
    <3>1. /\ task'[t].phase \in {"applied", "posted"}
          /\ task'[t].build = n /\ task'[t].generation = row'[n].generation /\ task'[t].job = "deliver"
      BY Zenon, <2>2 DEF PostedFor, Delivers, IsCurrent
    <3>2. SameErrand(t)
      BY Zenon, <3>1
    <3>3. task[t].build = n /\ task[t].generation = row[n].generation /\ task[t].job = "deliver"
      BY Zenon, <2>1, <3>1, <3>2 DEF SameErrand, SameOutcome
    <3>4. CASE task[t].phase \in {"applied", "posted"}
      BY Zenon, <3>3, <3>4 DEF PostedFor, Delivers, IsCurrent, Unsettled
    <3>5. IsStatus(n)
      BY Zenon, <2>1 DEF IsNewest, StatusRows
    <3> QED
      BY Zenon, <3>1, <3>3, <3>4, <3>5, <1>3, <2>1
  <2>3. CorrectedOf(n)
    BY Zenon, <2>1 DEF Corrected
  <2>4. CASE Again(n)
    BY Zenon, <2>4 DEF Again, CorrectedOf
  <2>5. CASE shown' = shown /\ \A t \in Tasks : Owes(t, n) => Owes(t, n)'
    <3>1. Shows(n) => Shows(n)'
      BY Zenon, <2>1, <2>5 DEF Shows, SameOutcome
    <3>2. Stands(n) => Stands(n)'
      BY Zenon, <2>5, <3>1 DEF Stands
    <3> QED
      BY Zenon, <2>1, <2>2, <2>3, <3>2 DEF CorrectedOf
  <2>6. CASE Stands(n)'
    BY Zenon, <2>6 DEF CorrectedOf
  <2> QED
    BY Zenon, <2>1, <2>4, <2>5, <2>6, <1>3
<1> QED
  BY Zenon, <1>1, <1>2, <1>3

(* No later outcome is observed before its time, and what was seen stays.    *)
LEMMA ObservedAtKept ==
  ASSUME DeliveryTypeOK, DeliveryTypeOK', TasksAtWork, kind' = kind, shown' = shown,
         NEW n \in Builds, IsNewest(n)', OutlivesStale(n), SeenStands(n),
         SameRounds(n), NotSettled(n),
         \A t \in Tasks : task'[t].phase \in MayWrite =>
            \/ SameErrand(t) /\ task[t].phase \in MayWrite /\ task'[t].left = task[t].left
            \/ ~IsStale(t, n)',
         \A t \in Tasks : task'[t].phase \in HasSeen =>
            /\ SameErrand(t) /\ task[t].phase # "idle"
            /\ task[t].phase \in HasSeen \/ shown = Content(t)
  PROVE  OutlivesStale(n)' /\ SeenStands(n)'
<1>0. /\ row'[n].generation = row[n].generation /\ row'[n].outcome = row[n].outcome
      /\ row'[n].recAttempts = row[n].recAttempts
  BY Zenon DEF SameRounds, SameOutcome
<1>1. ASSUME NEW t \in Tasks, IsStale(t, n)', task'[t].phase \in MayWrite
      PROVE  /\ row'[n].recAttempts = 0
             /\ row'[n].state = "delivered" /\ row'[n].recDue # Nil => row'[n].recDue > task'[t].left
  <2>1. SameErrand(t) /\ task[t].phase \in MayWrite /\ task'[t].left = task[t].left
    BY Zenon, <1>1
  <2>2. IsStale(t, n)
    <3>1. task[t].phase # "idle"
      BY Zenon, <2>1 DEF MayWrite
    <3>2. task'[t].build = task[t].build /\ task'[t].generation = task[t].generation
      BY Zenon, <2>1 DEF SameErrand
    <3> QED
      BY Zenon, <1>0, <1>1, <3>1, <3>2 DEF IsStale, IsStatus
  <2>3. /\ row[n].recAttempts = 0
        /\ row[n].state = "delivered" /\ row[n].recDue # Nil => row[n].recDue > task[t].left
    BY Zenon, <2>1, <2>2 DEF OutlivesStale
  <2>4. row'[n].state = "delivered" /\ row'[n].recDue # Nil =>
            row[n].state = "delivered" /\ row'[n].recDue = row[n].recDue
    BY Zenon DEF NotSettled
  <2> QED
    BY Zenon, <1>0, <2>1, <2>3, <2>4
<1>2. Shows(n) => Shows(n)'
  BY Zenon, <1>0 DEF Shows
<1>3. ASSUME NEW t \in Tasks, row'[n].recAttempts > 0,
             task'[t].phase \in HasSeen, task'[t].build = n, IsCurrent(t)'
      PROVE  Shows(n)'
  <2>1. /\ SameErrand(t) /\ task[t].phase # "idle"
        /\ task[t].phase \in HasSeen \/ shown = Content(t)
    BY Zenon, <1>3
  <2>2. task[t].build = n /\ task[t].generation = row[n].generation /\ row[n].recAttempts > 0
    BY Zenon, <1>0, <1>3, <2>1 DEF SameErrand, IsCurrent
  <2>3. IsCurrent(t)
    BY Zenon, <2>2 DEF IsCurrent
  <2>4. CASE task[t].phase \in HasSeen
    BY Zenon, <1>2, <2>2, <2>3, <2>4 DEF SeenStands
  <2>5. CASE shown = Content(t)
    <3>1. task[t].outcome = row[n].outcome
      BY Zenon, <2>1, <2>2, <2>3 DEF TasksAtWork, TaskAtWork
    <3> QED
      BY Zenon, <1>2, <2>2, <2>5, <3>1 DEF Content, Shows
  <2> QED
    BY Zenon, <2>1, <2>4, <2>5
<1>4. ASSUME row'[n].recAttempts > 0, row'[n].state = "delivered", row'[n].recLease = Nil, ~row'[n].recError
      PROVE  Shows(n)'
  BY Zenon, <1>0, <1>2, <1>4 DEF SeenStands, NotSettled
<1> QED
  BY Zenon, <1>1, <1>3, <1>4 DEF OutlivesStale, SeenStands

LEMMA ObservedKept ==
  ASSUME DeliveryTypeOK, DeliveryTypeOK', TasksAtWork, Observed, kind' = kind, shown' = shown,
         lates' = 0 => lates = 0 /\ late' = late,
         \A b \in Builds : Renewed(b) \/ (SameRounds(b) /\ NotSettled(b)),
         \A t \in Tasks : task'[t].phase \in MayWrite =>
            \/ SameErrand(t) /\ task[t].phase \in MayWrite /\ task'[t].left = task[t].left
            \/ \A n \in Builds : IsNewest(n)' => ~IsStale(t, n)',
         \A t \in Tasks : task'[t].phase \in HasSeen =>
            /\ SameErrand(t) /\ task[t].phase # "idle"
            /\ task[t].phase \in HasSeen \/ shown = Content(t)
  PROVE  Observed'
<1> SUFFICES ASSUME lates' = 0
             PROVE  late' = {} /\ \A n \in Builds : IsNewest(n)' => OutlivesStale(n)' /\ SeenStands(n)'
  BY Zenon DEF Observed
<1>1. late' = {}
  BY Zenon DEF Observed
<1>2. ASSUME NEW n \in Builds, Renewed(n) PROVE OutlivesStale(n)' /\ SeenStands(n)'
  <2>1. row'[n].recAttempts = 0 /\ row'[n].state = "pending"
    BY Zenon, <1>2 DEF Renewed
  <2>2. ~(row'[n].recAttempts > 0) /\ row'[n].state # "delivered"
    BY <2>1
  <2> QED
    BY Zenon, <2>1, <2>2 DEF OutlivesStale, SeenStands
<1>3. ASSUME NEW n \in Builds, IsNewest(n)', ~Renewed(n) PROVE OutlivesStale(n)' /\ SeenStands(n)'
  <2>1. SameRounds(n) /\ NotSettled(n)
    BY Zenon, <1>3
  <2>2. \A b \in Builds : Renewed(b) \/ SameOutcome(b)
    BY Zenon DEF SameRounds
  <2>3. OutlivesStale(n) /\ SeenStands(n)
    BY Zenon, <1>3, <2>2, StatusRowsGrow DEF Observed
  <2> QED
    BY Zenon, <1>3, <2>1, <2>3, ObservedAtKept
<1> QED
  BY Zenon, <1>1, <1>2, <1>3

-----------------------------------------------------------------------------
(* Quiet steps *)

LEMMA OtherTask ==
  ASSUME NEW s \in Tasks, task'[s] = task[s]
  PROVE  /\ SameErrand(s) /\ task'[s].phase = task[s].phase
         /\ task'[s].left = task[s].left /\ task'[s].age = task[s].age
         /\ Delivers(s)' <=> Delivers(s)
BY Zenon DEF SameErrand, Delivers

LEMMA OtherOwes ==
  ASSUME NEW s \in Tasks, task'[s] = task[s], kind' = kind, NEW n, SameOutcome(n)
  PROVE  /\ Owes(s, n) => Owes(s, n)'
         /\ IsStale(s, n)' <=> IsStale(s, n)
<1>1. row'[n].generation = row[n].generation
  BY Zenon DEF SameOutcome
<1>2. IsStale(s, n)' <=> IsStale(s, n)
  BY <1>1 DEF IsStale, IsStatus
<1> QED
  BY Zenon, <1>2 DEF Owes

(* The store alone: no task does anything. *)
LEMMA StoreStep ==
  ASSUME DeliveryInv, DeliveryTypeOK', UNCHANGED <<kind, task, shown, late, accepted, faults, lates>>,
         \A b \in Builds : Renewed(b) \/ QuietRow(b)
  PROVE  DeliveryInv'
<1> USE DEF DeliveryInv
<1>0. /\ \A b \in Builds : Renewed(b) \/ (SameRounds(b) /\ NotSettled(b))
      /\ \A b \in Builds : Renewed(b) \/ SameOutcome(b)
      /\ \A s \in Tasks : task'[s] = task[s]
  BY DEF QuietRow, SameRounds
<1>1. TasksAtWork'
  <2>1. \A b \in Builds : \/ Renewed(b)
                          \/ SameOutcome(b) /\ row'[b].recAttempts >= row[b].recAttempts
    <3>1. \A b \in Builds : row[b].recAttempts \in Nat
      BY DEF DeliveryTypeOK, DeliveryRows
    <3>2. \A b \in Builds : row[b].recAttempts >= row[b].recAttempts
      BY <3>1
    <3> QED
      BY Zenon, <1>0, <3>2 DEF SameRounds
  <2> QED
    BY Zenon, <1>0, <2>1, AtWorkStays, OutcomesNamed DEF TasksAtWork
<1>2. ClaimsStand'
  BY Zenon, <1>0, OtherTask, ClaimsKept DEF QuietRow, SameRounds, SameOutcome
<1>3. DeliveredWasAccepted'
  BY Zenon, AcceptedKept DEF Renewed, QuietRow, SameRounds, SameOutcome, NotSettled
<1>4. Corrected'
  <2>1. \A b \in Builds : row'[b].state = "delivered" => row[b].state = "delivered"
    BY Zenon DEF Renewed, QuietRow, NotSettled
  <2>2. \A n \in Builds, t \in Tasks :
            PostedFor(t, n) /\ PostedFor(t, n)' /\ row[n].repost => row'[n].repost
    <3> SUFFICES ASSUME NEW n \in Builds, NEW t \in Tasks, PostedFor(t, n), PostedFor(t, n)', row[n].repost
                 PROVE  row'[n].repost
      OBVIOUS
    <3>1. ~Unclaimed(n) /\ task[t].phase # "idle"
      BY Zenon, ClaimRuns DEF PostedFor
    <3>2. ~Renewed(n)
      BY Zenon, <1>0, <3>1, OtherTask, RenewedIsNew DEF PostedFor
    <3> QED
      BY Zenon, <3>1, <3>2 DEF QuietRow, ClaimKept
  <2>3. \A t \in Tasks : task'[t].phase \in {"applied", "posted"} =>
            /\ SameErrand(t) /\ task[t].phase # "idle" /\ task[t].phase \in {"applied", "posted"}
    BY Zenon, <1>0, OtherTask
  <2>4. \A n \in Builds : SameOutcome(n) => \A t \in Tasks : Owes(t, n) => Owes(t, n)'
    BY Zenon, <1>0, OtherOwes
  <2> QED
    BY Zenon, <1>0, <2>1, <2>2, <2>3, <2>4, CorrectedKept
<1>5. Observed'
  <2>1. \A t \in Tasks : task'[t].phase \in HasSeen =>
            SameErrand(t) /\ task[t].phase # "idle" /\ task[t].phase \in HasSeen
    BY Zenon, <1>0, OtherTask DEF HasSeen
  <2>2. \A t \in Tasks : task'[t].phase \in MayWrite =>
            SameErrand(t) /\ task[t].phase \in MayWrite /\ task'[t].left = task[t].left
    BY Zenon, <1>0, OtherTask
  <2> QED
    BY Zenon, <1>0, <2>1, <2>2, ObservedKept
<1> QED
  BY Zenon, <1>1, <1>2, <1>3, <1>4, <1>5

(* A step of task t that writes nothing and settles nothing as delivered. *)
LEMMA TaskStep ==
  ASSUME DeliveryInv, DeliveryTypeOK', NEW t \in Tasks, kind' = kind, shown' = shown,
         accepted \subseteq accepted',
         faults' = 0 => faults = 0 /\ late' = late, lates' = 0 => lates = 0 /\ late' = late,
         \A s \in Tasks \ {t} : task'[s] = task[s],
         \A b \in Builds : /\ SameRounds(b) /\ NotSettled(b)
                           /\ \/ ClaimKept(b) \/ Unclaimed(b)
                              \/ /\ Delivers(t) /\ ~Delivers(t)'
                                 /\ HoldsDelivery(t) /\ task[t].build = b,
         task'[t].phase # "idle" => TaskAtWork(t)',
         Delivers(t)' => Delivers(t) /\ SameErrand(t) /\ task'[t].age = task[t].age,
         task'[t].phase \in {"applied", "posted"} => SameErrand(t) /\ task[t].phase \in {"applied", "posted"},
         task'[t].phase \in MayWrite =>
            \/ SameErrand(t) /\ task[t].phase \in MayWrite /\ task'[t].left = task[t].left
            \/ \A n \in Builds : IsNewest(n)' => ~IsStale(t, n)',
         task'[t].phase = "matched" => SameErrand(t) /\ task[t].phase # "idle" /\ shown = Content(t),
         \A n \in Builds : faults' = 0 /\ IsNewest(n) => Again(n) \/ (Owes(t, n) => Owes(t, n)')
  PROVE  DeliveryInv'
<1> USE DEF DeliveryInv
<1>0. /\ \A b \in Builds : SameOutcome(b)
      /\ \A b \in Builds : SameRounds(b) /\ NotSettled(b)
  BY Zenon DEF SameRounds
<1>o. \A s \in Tasks : s # t =>
         /\ task'[s] = task[s] /\ SameErrand(s) /\ task'[s].phase = task[s].phase
         /\ task'[s].left = task[s].left /\ task'[s].age = task[s].age
         /\ Delivers(s)' <=> Delivers(s)
  <2>1. \A s \in Tasks : s # t => s \in Tasks \ {t}
    OBVIOUS
  <2> QED
    BY Zenon, <2>1, OtherTask
<1>u. ASSUME NEW s \in Tasks, Delivers(s)', NEW b \in Builds, task[s].build = b,
             task[s].generation = row[b].generation
      PROVE  ClaimKept(b) \/ Unclaimed(b)
  <2>1. SUFFICES ASSUME Delivers(t), ~Delivers(t)', HoldsDelivery(t), task[t].build = b PROVE FALSE
    BY Zenon
  <2>2. s # t /\ Delivers(s)
    BY Zenon, <1>o, <1>u, <2>1
  <2>3. task[t].generation = task[s].generation /\ task[s].build = task[t].build
    BY Zenon, <1>u, <2>1 DEF HoldsDelivery
  <2> QED
    BY Zenon, <2>1, <2>2, <2>3 DEF ClaimsStand
<1>1. TasksAtWork'
  <2>1. \A b \in Builds : SameOutcome(b) /\ row'[b].recAttempts >= row[b].recAttempts
    <3>1. \A b \in Builds : row[b].recAttempts \in Nat
      BY DEF DeliveryTypeOK, DeliveryRows
    <3>2. \A b \in Builds : row[b].recAttempts >= row[b].recAttempts
      BY <3>1
    <3> QED
      BY Zenon, <1>0, <3>2 DEF SameRounds
  <2>2. ASSUME NEW s \in Tasks, s # t, task'[s].phase # "idle" PROVE TaskAtWork(s)'
    BY Zenon, <1>o, <2>1, <2>2, AtWorkStays DEF TasksAtWork
  <2>3. \A b \in Builds : row'[b].state # "none" => row'[b].outcome # "none" /\ row'[b].generation > 0
    BY Zenon, <1>0, OutcomesNamed
  <2> QED
    BY Zenon, <2>2, <2>3 DEF TasksAtWork
<1>2. ClaimsStand'
  <2>1. \A s \in Tasks : Delivers(s)' => Delivers(s) /\ SameErrand(s) /\ task'[s].age = task[s].age
    BY Zenon, <1>o
  <2>2. \A b \in Builds :
          /\ row'[b].generation = row[b].generation
          /\ \/ ClaimKept(b) \/ Unclaimed(b)
             \/ \A s \in Tasks : Delivers(s)' /\ task[s].build = b => task[s].generation # row[b].generation
    BY Zenon, <1>0, <1>u DEF SameOutcome
  <2> QED
    BY Zenon, <2>1, <2>2, ClaimsKept
<1>3. DeliveredWasAccepted'
  BY Zenon, <1>0, AcceptedKept DEF SameOutcome, NotSettled
<1>4. Corrected'
  <2>1. \A b \in Builds : row'[b].state = "delivered" => row[b].state = "delivered"
    BY Zenon DEF NotSettled
  <2>2. \A n \in Builds, s \in Tasks :
            PostedFor(s, n) /\ PostedFor(s, n)' /\ row[n].repost => row'[n].repost
    <3> SUFFICES ASSUME NEW n \in Builds, NEW s \in Tasks, PostedFor(s, n), PostedFor(s, n)', row[n].repost
                 PROVE  row'[n].repost
      OBVIOUS
    <3>1. ~Unclaimed(n)
      BY Zenon, ClaimRuns DEF PostedFor
    <3>2. Delivers(s)' /\ task[s].build = n /\ task[s].generation = row[n].generation
      BY Zenon DEF PostedFor, IsCurrent
    <3> QED
      BY Zenon, <1>u, <3>1, <3>2 DEF ClaimKept
  <2>3. \A s \in Tasks : task'[s].phase \in {"applied", "posted"} =>
            /\ SameErrand(s) /\ task[s].phase # "idle" /\ task[s].phase \in {"applied", "posted"}
    BY Zenon, <1>o
  <2>4. \A n \in Builds : faults' = 0 /\ IsNewest(n) =>
            Again(n) \/ \A s \in Tasks : Owes(s, n) => Owes(s, n)'
    BY Zenon, <1>0, <1>o, OtherOwes
  <2> QED
    BY Zenon, <1>0, <2>1, <2>2, <2>3, <2>4, CorrectedKept
<1>5. Observed'
  <2>1. \A s \in Tasks : task'[s].phase \in HasSeen =>
            /\ SameErrand(s) /\ task[s].phase # "idle"
            /\ task[s].phase \in HasSeen \/ shown = Content(s)
    BY Zenon, <1>o DEF HasSeen
  <2>2. \A s \in Tasks : task'[s].phase \in MayWrite =>
            \/ SameErrand(s) /\ task[s].phase \in MayWrite /\ task'[s].left = task[s].left
            \/ \A n \in Builds : IsNewest(n)' => ~IsStale(s, n)'
    BY Zenon, <1>o
  <2> QED
    BY Zenon, <1>0, <2>1, <2>2, ObservedKept
<1> QED
  BY Zenon, <1>1, <1>2, <1>3, <1>4, <1>5

-----------------------------------------------------------------------------
(* The steps of the store *)

LEMMA RowTypes ==
  ASSUME DeliveryTypeOK, NEW b \in Builds
  PROVE  /\ row[b] \in DeliveryRows /\ row[b].generation \in Nat /\ row[b].state \in RowStates
         /\ row[b].attempts \in Nat /\ row[b].wait \in Nat /\ row[b].recAttempts \in Nat
         /\ row[b].recDue \in Nat \cup {Nil} /\ row[b].recLease \in Nat \cup {Nil}
         /\ row[b].repost \in BOOLEAN /\ row[b].recError \in BOOLEAN
         /\ row[b].outcome \in BuildOutcomes \cup {"none"}
BY DEF DeliveryTypeOK, DeliveryRows

LEMMA TaskTypes ==
  ASSUME DeliveryTypeOK, NEW t \in Tasks
  PROVE  /\ task[t] \in TaskWork /\ task[t].phase \in TaskPhases /\ task[t].generation \in Nat
         /\ task[t].attempts \in Nat /\ task[t].left \in Nat /\ task[t].age \in Nat
         /\ task[t].job \in {"deliver", "reconcile"} /\ task[t].build \in Builds \cup {Nil}
         /\ task[t].outcome \in BuildOutcomes \cup {"none"}
BY DEF DeliveryTypeOK, TaskWork

LEMMA RecordTerminalKeeps ==
  ASSUME DeliveryInv, NEW b \in Builds, RecordTerminal(b)
  PROVE  DeliveryInv'
<1>0. DeliveryTypeOK
  BY Zenon DEF DeliveryInv
<1>1. PICK g : g = row[b].generation + 1
  OBVIOUS
<1>2. PICK w : w = IF row[b].inFlight \/ HeldInFlight(b) THEN Quiet ELSE 0
  OBVIOUS
<1>3. PICK r : r = [NoRow EXCEPT !.generation = g, !.outcome = Terminals[b][g],
                                 !.state = "pending", !.wait = w]
  OBVIOUS
<1>4. /\ row' = [row EXCEPT ![b] = r] /\ g \in DOMAIN Terminals[b]
      /\ UNCHANGED <<kind, task, shown, late, accepted, faults, lates>>
  BY <1>1, <1>2, <1>3 DEF RecordTerminal
<1>5. g \in Nat /\ g > row[b].generation /\ w \in Nat
  <2>1. row[b].generation \in Nat /\ Quiet \in Nat
    BY Zenon, <1>0, RowTypes, DeliveryAssumption
  <2> QED
    BY <1>1, <1>2, <2>1
<1>6. Terminals[b][g] \in BuildOutcomes
  <2>1. Terminals[b] \in Seq(BuildOutcomes)
    BY Zenon, DeliveryAssumption
  <2> QED
    BY <1>4, <2>1
<1>7. /\ r \in DeliveryRows /\ r.generation = g /\ r.state = "pending" /\ r.recAttempts = 0
      /\ r.outcome # "none"
  BY Zenon, <1>3, <1>5, <1>6 DEF NoRow, DeliveryRows, RowStates, Nil, BuildOutcomes
<1>8. /\ row' \in [Builds -> DeliveryRows] /\ row'[b] = r
      /\ \A c \in Builds \ {b} : row'[c] = row[c]
  BY Zenon, <1>0, <1>4, <1>7, RowSet DEF DeliveryTypeOK
<1>9. DeliveryTypeOK'
  BY <1>0, <1>4, <1>8 DEF DeliveryTypeOK
<1>10. \A c \in Builds : Renewed(c) \/ QuietRow(c)
  <2>1. Renewed(b)
    BY Zenon, <1>5, <1>7, <1>8 DEF Renewed
  <2>2. \A c \in Builds : c # b => row'[c] = row[c]
    BY <1>8
  <2> QED
    BY Zenon, <2>1, <2>2, SameRowIsQuiet
<1> QED
  BY Zenon, <1>4, <1>9, <1>10, StoreStep

(* What abandoning the spent rows does to a row. *)
LEMMA AbandonFacts ==
  ASSUME DeliveryTypeOK, NEW b \in Builds
  PROVE  LET r == AbandonSpent[b] IN
         /\ r \in DeliveryRows
         /\ \/ r = row[b]
            \/ /\ row[b].state = "pending" /\ row[b].wait = 0 /\ r.state = "abandoned"
               /\ r.generation = row[b].generation /\ r.outcome = row[b].outcome
               /\ r.recAttempts = row[b].recAttempts
         /\ Due(b) => r = row[b]
<1>1. row[b] \in DeliveryRows
  BY Zenon, RowTypes
<1>2. PICK q : q = [row[b] EXCEPT !.state = "abandoned", !.inFlight = FALSE]
  OBVIOUS
<1>3. /\ q \in DeliveryRows /\ q.state = "abandoned" /\ q.generation = row[b].generation
      /\ q.outcome = row[b].outcome /\ q.recAttempts = row[b].recAttempts
  BY Zenon, <1>1, <1>2 DEF DeliveryRows, RowStates
<1>4. AbandonSpent[b] = IF Spent(b) THEN q ELSE row[b]
  BY Zenon, <1>2 DEF AbandonSpent
<1>5. Due(b) => ~Spent(b)
  BY RowTypes, DeliveryAssumption DEF Due, Spent
<1> QED
  BY Zenon, <1>1, <1>3, <1>4, <1>5 DEF Spent

LEMMA AbandonedIsQuiet ==
  ASSUME DeliveryTypeOK, NEW b \in Builds, row'[b] = AbandonSpent[b]
  PROVE  QuietRow(b)
<1>1. CASE row'[b] = row[b]
  BY Zenon, <1>1, SameRowIsQuiet
<1>2. CASE row'[b] # row[b]
  BY Zenon, <1>2, AbandonFacts DEF QuietRow, SameRounds, SameOutcome, NotSettled, Unclaimed
<1> QED
  BY Zenon, <1>1, <1>2

LEMMA ScanSpentKeeps ==
  ASSUME DeliveryInv, ScanSpent
  PROVE  DeliveryInv'
<1>0. DeliveryTypeOK
  BY Zenon DEF DeliveryInv
<1>1. row' = AbandonSpent /\ UNCHANGED <<kind, task, shown, late, accepted, faults, lates>>
  BY Zenon DEF ScanSpent
<1>2. \A b \in Builds : row'[b] = AbandonSpent[b] /\ row'[b] \in DeliveryRows
  BY Zenon, <1>0, <1>1, AbandonFacts
<1>3. row' \in [Builds -> DeliveryRows]
  BY Zenon, <1>1, <1>2 DEF AbandonSpent
<1>4. DeliveryTypeOK'
  BY <1>0, <1>1, <1>3 DEF DeliveryTypeOK
<1> QED
  BY Zenon, <1>0, <1>1, <1>2, <1>4, AbandonedIsQuiet, StoreStep

(* What retiring the spent observations does to a row. *)
LEMMA RetireFacts ==
  ASSUME DeliveryTypeOK, NEW b \in Builds
  PROVE  LET r == RetireSpentReconciliations[b] IN
         /\ r \in DeliveryRows
         /\ \/ r = row[b]
            \/ /\ row[b].state = "delivered" /\ r.state = "delivered" /\ r.recError
               /\ r.generation = row[b].generation /\ r.outcome = row[b].outcome
               /\ r.recAttempts = row[b].recAttempts /\ r.recDue = Nil
         /\ ReconciliationDue(b) => r = row[b]
<1>1. row[b] \in DeliveryRows
  BY Zenon, RowTypes
<1>2. PICK q : q = [row[b] EXCEPT !.recDue = Nil, !.recLease = Nil, !.inFlight = FALSE, !.recError = TRUE]
  OBVIOUS
<1>3. /\ q \in DeliveryRows /\ q.state = row[b].state /\ q.generation = row[b].generation
      /\ q.outcome = row[b].outcome /\ q.recAttempts = row[b].recAttempts
      /\ q.recDue = Nil /\ q.recError
  BY Zenon, <1>1, <1>2 DEF DeliveryRows, Nil
<1> DEFINE spent == /\ IsStatus(b) /\ row[b].state = "delivered"
                    /\ row[b].recAttempts >= MaxReconciliations /\ row[b].recLease = 0
<1>4. RetireSpentReconciliations[b] = IF spent THEN q ELSE row[b]
  BY Zenon, <1>2 DEF RetireSpentReconciliations
<1>5. ReconciliationDue(b) => ~spent
  BY RowTypes, DeliveryAssumption DEF ReconciliationDue
<1> QED
  BY Zenon, <1>1, <1>3, <1>4, <1>5

LEMMA RetiredIsQuiet ==
  ASSUME DeliveryTypeOK, NEW b \in Builds, row'[b] = RetireSpentReconciliations[b]
  PROVE  QuietRow(b)
<1>1. CASE row'[b] = row[b]
  BY Zenon, <1>1, SameRowIsQuiet
<1>2. CASE row'[b] # row[b]
  BY Zenon, <1>2, RetireFacts DEF QuietRow, SameRounds, SameOutcome, NotSettled, Unclaimed
<1> QED
  BY Zenon, <1>1, <1>2

LEMMA ScanSpentReconciliationsKeeps ==
  ASSUME DeliveryInv, ScanSpentReconciliations
  PROVE  DeliveryInv'
<1>0. DeliveryTypeOK
  BY Zenon DEF DeliveryInv
<1>1. /\ row' = RetireSpentReconciliations
      /\ UNCHANGED <<kind, task, shown, late, accepted, faults, lates>>
  BY Zenon DEF ScanSpentReconciliations
<1>2. \A b \in Builds : row'[b] = RetireSpentReconciliations[b] /\ row'[b] \in DeliveryRows
  BY Zenon, <1>0, <1>1, RetireFacts
<1>3. row' \in [Builds -> DeliveryRows]
  BY Zenon, <1>1, <1>2 DEF RetireSpentReconciliations
<1>4. DeliveryTypeOK'
  BY <1>0, <1>1, <1>3 DEF DeliveryTypeOK
<1> QED
  BY Zenon, <1>0, <1>1, <1>2, <1>4, RetiredIsQuiet, StoreStep

-----------------------------------------------------------------------------
(* The steps of a task *)

(* What a task at work is about. *)
LEMMA ContentIsWrite ==
  ASSUME DeliveryTypeOK, TasksAtWork, NEW t \in Tasks, task[t].phase # "idle"
  PROVE  Content(t) \in StatusWrites
<1>1. task[t].build \in Builds /\ task[t].outcome # "none"
  BY Zenon DEF TasksAtWork, TaskAtWork
<1>2. task[t].outcome \in BuildOutcomes
  BY Zenon, <1>1, TaskTypes
<1> QED
  BY <1>1, <1>2 DEF Content, StatusWrites

LEMMA SameRows ==
  ASSUME DeliveryTypeOK, row' = row
  PROVE  \A b \in Builds : /\ SameRounds(b) /\ NotSettled(b) /\ ClaimKept(b) /\ SameOutcome(b)
                           /\ row'[b].recAttempts >= row[b].recAttempts
<1>1. \A b \in Builds : row[b].recAttempts >= row[b].recAttempts
  BY RowTypes
<1> QED
  BY Zenon, <1>1, SameRowIsQuiet DEF QuietRow, SameRounds

(* An attempt is over before an answer came. *)
LEMMA GiveUpKeeps ==
  ASSUME DeliveryInv, DeliveryTypeOK', NEW t \in Tasks, NEW phase \in {"failed", "superseded"},
         TaskGoes(t, phase), UNCHANGED <<kind, row, shown, accepted>>,
         task[t].phase \in {"claimed", "observing", "sending", "applied"},
         task[t].phase = "applied" => faults' # 0,
         phase = "superseded" => IsStatus(task[t].build) /\ LaterRows(task[t].build) # {},
         faults' = 0 => faults = 0 /\ late' = late, lates' = 0 => lates = 0 /\ late' = late
  PROVE  DeliveryInv'
<1>0. DeliveryTypeOK /\ TasksAtWork
  BY Zenon DEF DeliveryInv
<1>1. /\ \A s \in Tasks \ {t} : task'[s] = task[s]
      /\ SameErrand(t) /\ task'[t].phase = phase /\ task'[t].age = task[t].age
  BY <1>0, GoesFacts DEF DeliveryTypeOK, TaskPhases
<1>2. TaskAtWork(t)
  BY Zenon, <1>0 DEF TasksAtWork
<1>3. task'[t].phase \notin {"idle", "observing", "matched", "posted", "requeueLater", "applied", "sending"}
  BY Zenon, <1>1
<1>4. TaskAtWork(t)'
  BY Zenon, <1>0, <1>1, <1>2, <1>3, SameRows, AtWorkGoesOn DEF TaskAtWork, Requesting
<1>5. Delivers(t)' => Delivers(t) /\ SameErrand(t) /\ task'[t].age = task[t].age
  <2>1. task[t].phase \in Unsettled \/ task[t].phase = "observing"
    BY Zenon DEF Unsettled
  <2>2. Delivers(t)' => task[t].job = "deliver"
    BY Zenon, <1>1 DEF Delivers, SameErrand
  <2>3. task[t].job = "deliver" => task[t].phase # "observing"
    BY <1>2 DEF TaskAtWork
  <2> QED
    BY Zenon, <1>1, <2>1, <2>2, <2>3 DEF Delivers
<1>6. faults' = 0 => \A n \in Builds : ~Owes(t, n)
  BY Zenon DEF Owes
<1> QED
  BY Zenon, <1>0, <1>1, <1>3, <1>4, <1>5, <1>6, SameRows, TaskStep DEF MayWrite

LEMMA GivingUpKeeps ==
  ASSUME DeliveryInv, NEW t \in Tasks,
         \/ MarkOvertaken(t) \/ MarkSuperseded(t) \/ FailUnsent(t) \/ LoseAnswer(t) \/ LeaveBody(t)
  PROVE  DeliveryInv'
<1>0. DeliveryTypeOK /\ TasksAtWork
  BY Zenon DEF DeliveryInv
<1>f. faults \in Nat /\ lates \in Nat /\ MaxFaults \in Nat /\ faults <= MaxFaults /\ lates <= faults
  BY <1>0, DeliveryAssumption DEF DeliveryTypeOK
<1>t. ASSUME NEW phase \in {"failed", "superseded"}, TaskGoes(t, phase)
      PROVE  task' \in [Tasks -> TaskWork]
  BY <1>0, <1>t, GoesFacts DEF DeliveryTypeOK, TaskPhases
<1>1. ASSUME MarkOvertaken(t) \/ FailUnsent(t) PROVE DeliveryInv'
  <2>1. /\ task[t].phase \in {"claimed", "observing", "sending"} /\ TaskGoes(t, "failed")
        /\ UNCHANGED <<kind, row, shown, late, accepted, faults, lates>>
    BY Zenon, <1>1 DEF MarkOvertaken, FailUnsent
  <2>2. DeliveryTypeOK'
    BY <1>0, <1>t, <2>1 DEF DeliveryTypeOK
  <2> QED
    BY Zenon, <2>1, <2>2, GiveUpKeeps
<1>2. ASSUME MarkSuperseded(t) PROVE DeliveryInv'
  <2>1. /\ task[t].phase = "claimed" /\ TaskGoes(t, "superseded")
        /\ IsStatus(task[t].build) /\ LaterRows(task[t].build) # {}
        /\ UNCHANGED <<kind, row, shown, late, accepted, faults, lates>>
    BY Zenon, <1>2 DEF MarkSuperseded
  <2>2. DeliveryTypeOK'
    BY <1>0, <1>t, <2>1 DEF DeliveryTypeOK
  <2> QED
    BY Zenon, <2>1, <2>2, GiveUpKeeps
<1>3. ASSUME LoseAnswer(t) PROVE DeliveryInv'
  <2>1. /\ task[t].phase = "applied" /\ TaskGoes(t, "failed") /\ faults < MaxFaults /\ faults' = faults + 1
        /\ UNCHANGED <<kind, row, shown, late, accepted, lates>>
    BY Zenon, <1>3 DEF LoseAnswer
  <2>2. faults' # 0 /\ faults' \in 0 .. MaxFaults /\ lates' \in 0 .. faults'
    BY <1>f, <2>1
  <2>3. DeliveryTypeOK'
    BY <1>0, <1>t, <2>1, <2>2 DEF DeliveryTypeOK
  <2> QED
    BY Zenon, <2>1, <2>2, <2>3, GiveUpKeeps
<1>4. ASSUME LeaveBody(t) PROVE DeliveryInv'
  <2>1. /\ task[t].phase = "sending" /\ TaskGoes(t, "failed") /\ faults < MaxFaults /\ faults' = faults + 1
        /\ lates' = lates + 1 /\ late' = late \cup {Content(t)}
        /\ UNCHANGED <<kind, row, shown, accepted>>
    BY Zenon, <1>4 DEF LeaveBody
  <2>2. faults' # 0 /\ lates' # 0 /\ faults' \in 0 .. MaxFaults /\ lates' \in 0 .. faults'
    BY <1>f, <2>1
  <2>3. Content(t) \in StatusWrites
    BY Zenon, <1>0, <2>1, ContentIsWrite
  <2>4. DeliveryTypeOK'
    BY <1>0, <1>t, <2>1, <2>2, <2>3 DEF DeliveryTypeOK
  <2> QED
    BY Zenon, <2>1, <2>2, <2>4, GiveUpKeeps
<1> QED
  BY Zenon, <1>1, <1>2, <1>3, <1>4

(* The mark is made only where no later build has a row: a marked post can   *)
(* not be stale yet.                                                         *)
LEMMA MarkInFlightKeeps ==
  ASSUME DeliveryInv, NEW t \in Tasks, MarkInFlight(t)
  PROVE  DeliveryInv'
<1>0. DeliveryTypeOK /\ TasksAtWork
  BY Zenon DEF DeliveryInv
<1>1. PICK b : b = task[t].build
  OBVIOUS
<1>2. /\ task[t].phase = "claimed" /\ Holds(t) /\ (IsStatus(b) => LaterRows(b) = {})
      /\ row' = [row EXCEPT ![b].inFlight = TRUE]
      /\ UNCHANGED <<kind, shown, late, accepted, faults, lates>>
  BY Zenon, <1>1 DEF MarkInFlight
<1>3. TaskAtWork(t) /\ b \in Builds
  BY Zenon, <1>0, <1>1, <1>2 DEF TasksAtWork, TaskAtWork
<1>4. row[b] \in DeliveryRows /\ task[t] \in TaskWork
  BY Zenon, <1>0, <1>3, RowTypes, TaskTypes
<1>5. PICK r : r = [row[b] EXCEPT !.inFlight = TRUE]
  BY Zenon
<1>6. /\ r \in DeliveryRows /\ r.generation = row[b].generation /\ r.outcome = row[b].outcome
      /\ r.state = row[b].state /\ r.attempts = row[b].attempts /\ r.wait = row[b].wait
      /\ r.repost = row[b].repost /\ r.recAttempts = row[b].recAttempts /\ r.recDue = row[b].recDue
      /\ r.recLease = row[b].recLease /\ r.recError = row[b].recError
  BY Zenon, <1>4, <1>5 DEF DeliveryRows
<1>7. row' = [row EXCEPT ![b] = r]
  BY <1>2, <1>5
<1>8. /\ row' \in [Builds -> DeliveryRows] /\ row'[b] = r
      /\ \A c \in Builds \ {b} : row'[c] = row[c]
  BY Zenon, <1>0, <1>3, <1>6, <1>7, RowSet DEF DeliveryTypeOK
<1>9. \A c \in Builds : /\ SameRounds(c) /\ NotSettled(c) /\ ClaimKept(c) /\ SameOutcome(c)
                        /\ row'[c].recAttempts >= row[c].recAttempts
  <2>1. \A c \in Builds : c # b => row'[c] = row[c]
    BY <1>8
  <2>2. SameRounds(b) /\ NotSettled(b) /\ ClaimKept(b)
    BY Zenon, <1>6, <1>8 DEF SameRounds, SameOutcome, NotSettled, ClaimKept
  <2>3. \A c \in Builds : SameRounds(c) /\ NotSettled(c) /\ ClaimKept(c)
    BY Zenon, <2>1, <2>2, SameRowIsQuiet DEF QuietRow
  <2>4. \A c \in Builds : row[c].recAttempts >= row[c].recAttempts
    BY <1>0, RowTypes
  <2> QED
    BY Zenon, <2>3, <2>4 DEF SameRounds
<1>10. PICK w : w = [task[t] EXCEPT !.left = Deadline,
                                    !.phase = IF task[t].job = "deliver" THEN "sending" ELSE "observing"]
  OBVIOUS
<1>11. /\ w \in TaskWork /\ w.job = task[t].job /\ w.build = task[t].build
       /\ w.generation = task[t].generation /\ w.outcome = task[t].outcome
       /\ w.attempts = task[t].attempts /\ w.age = task[t].age /\ w.left = Deadline
       /\ w.phase = IF task[t].job = "deliver" THEN "sending" ELSE "observing"
  BY Zenon, <1>4, <1>10, DeliveryAssumption DEF TaskWork, TaskPhases
<1>12. task' = [task EXCEPT ![t] = w]
  BY Zenon, <1>10 DEF MarkInFlight
<1>13. /\ task' \in [Tasks -> TaskWork] /\ task'[t] = w
       /\ \A s \in Tasks \ {t} : task'[s] = task[s]
  BY Zenon, <1>0, <1>11, <1>12, TaskSet DEF DeliveryTypeOK
<1>14. DeliveryTypeOK'
  BY <1>0, <1>2, <1>8, <1>13 DEF DeliveryTypeOK
<1>15. /\ SameErrand(t) /\ task'[t].age = task[t].age /\ task'[t].left <= Deadline
       /\ task'[t].phase = IF task[t].job = "deliver" THEN "sending" ELSE "observing"
  <2>1. Deadline <= Deadline
    BY DeliveryAssumption
  <2> QED
    BY Zenon, <1>11, <1>13, <2>1 DEF SameErrand
<1>16. task[t].job = "deliver" \/ task[t].job = "reconcile"
  BY Zenon, <1>0, TaskTypes
<1>17. /\ task'[t].phase \in {"sending", "observing"}
       /\ task'[t].phase = "observing" => task[t].job = "reconcile"
       /\ task'[t].phase \notin {"idle", "matched", "posted", "superseded", "requeueLater", "applied"}
  BY Zenon, <1>15, <1>16
<1>18. TaskAtWork(t)'
  <2>1. task'[t].age < ClaimLease
    BY Zenon, <1>3, <1>15 DEF TaskAtWork
  <2> QED
    BY Zenon, <1>0, <1>2, <1>3, <1>9, <1>14, <1>15, <1>17, <2>1, AtWorkGoesOn
<1>19. Delivers(t)' => Delivers(t)
  BY Zenon, <1>2, <1>15 DEF Delivers, Unsettled, SameErrand
<1>20. ASSUME NEW n \in Builds, IsNewest(n)', IsStale(t, n)' PROVE FALSE
  <2>1. IsStatus(b) /\ task'[t].build = b /\ task'[t].generation = task[t].generation
    BY Zenon, <1>1, <1>2, <1>15, <1>20 DEF IsStale, IsStatus, SameErrand
  <2>2. n \in StatusRows
    BY Zenon, <1>2, <1>9, <1>20, StatusRowsGrow DEF IsNewest, Renewed, SameOutcome, StatusRows, IsStatus
  <2>3. task[t].generation = row[b].generation /\ row'[b].generation = row[b].generation
    <3>1. HoldsDelivery(t) \/ HoldsReconciliation(t)
      BY Zenon, <1>2 DEF Holds
    <3>2. task[t].generation = row[b].generation
      BY <1>1, <3>1 DEF HoldsDelivery, HoldsReconciliation
    <3> QED
      BY Zenon, <1>3, <1>9, <3>2 DEF SameOutcome
  <2>4. CASE b < n
    <3>1. b \in Nat /\ n \in Nat
      BY <1>3, DeliveryAssumption
    <3>2. n > b
      BY <2>4, <3>1
    <3> QED
      BY Zenon, <1>2, <2>1, <2>2, <3>2 DEF LaterRows
  <2>5. CASE b = n /\ task'[t].generation < row'[n].generation
    <3>1. row[b].generation < row[b].generation /\ row[b].generation \in Nat
      BY Zenon, <1>0, <1>3, <2>1, <2>3, <2>5, RowTypes
    <3> QED
      BY <3>1
  <2> QED
    BY Zenon, <2>1, <2>4, <2>5, <1>20 DEF IsStale
<1>21. \A n \in Builds : ~Owes(t, n)
  BY Zenon, <1>2 DEF Owes
<1> QED
  BY Zenon, <1>2, <1>9, <1>13, <1>14, <1>15, <1>17, <1>18, <1>19, <1>20, <1>21, TaskStep

LEMMA ObserveKeeps ==
  ASSUME DeliveryInv, NEW t \in Tasks, Observe(t)
  PROVE  DeliveryInv'
<1>0. DeliveryTypeOK /\ TasksAtWork
  BY Zenon DEF DeliveryInv
<1>1. PICK phase : phase = IF shown = Content(t) THEN "matched" ELSE "sending"
  OBVIOUS
<1>2. /\ task[t].phase = "observing" /\ TaskGoes(t, phase)
      /\ UNCHANGED <<kind, row, shown, late, accepted, faults, lates>>
  BY Zenon, <1>1 DEF Observe
<1>3. phase \in {"matched", "sending"} /\ (phase = "matched" => shown = Content(t))
  BY Zenon, <1>1
<1>4. /\ task' \in [Tasks -> TaskWork] /\ \A s \in Tasks \ {t} : task'[s] = task[s]
      /\ SameErrand(t) /\ task'[t].phase = phase /\ task'[t].age = task[t].age
      /\ phase = "sending" => task'[t].left = task[t].left
  <2>1. phase \in TaskPhases
    BY <1>3 DEF TaskPhases
  <2>2. phase = "sending" => phase \in Requesting
    BY Zenon DEF Requesting
  <2> QED
    BY Zenon, <1>0, <1>2, <2>1, <2>2, GoesFacts DEF DeliveryTypeOK
<1>5. DeliveryTypeOK'
  BY <1>0, <1>2, <1>4 DEF DeliveryTypeOK
<1>6. TaskAtWork(t)
  BY Zenon, <1>0, <1>2 DEF TasksAtWork
<1>7. task[t].job = "reconcile" /\ task[t].left <= Deadline /\ task[t].age < ClaimLease
  BY Zenon, <1>2, <1>6 DEF TaskAtWork, Requesting
<1>8. /\ task'[t].phase \in {"matched", "sending"}
      /\ task'[t].phase \notin {"idle", "applied", "posted", "superseded", "requeueLater"}
      /\ task'[t].phase \in Requesting => task'[t].phase = "sending"
  BY Zenon, <1>3, <1>4 DEF Requesting
<1>9. TaskAtWork(t)'
  BY Zenon, <1>0, <1>2, <1>4, <1>5, <1>6, <1>7, <1>8, SameRows, AtWorkGoesOn
<1>10. ~Delivers(t)'
  BY <1>4, <1>7 DEF Delivers, SameErrand
<1>11. /\ task[t].phase # "idle" /\ task[t].phase \in MayWrite /\ \A n \in Builds : ~Owes(t, n)
       /\ task'[t].phase \in MayWrite => phase = "sending"
  BY Zenon, <1>2, <1>4, <1>8 DEF Owes, MayWrite
<1> QED
  BY Zenon, <1>0, <1>2, <1>3, <1>4, <1>5, <1>8, <1>9, <1>10, <1>11, SameRows, TaskStep

LEMMA AnswerKeeps ==
  ASSUME DeliveryInv, NEW t \in Tasks, Answer(t)
  PROVE  DeliveryInv'
<1>0. DeliveryTypeOK /\ TasksAtWork
  BY Zenon DEF DeliveryInv
<1>1. /\ task[t].phase = "applied" /\ TaskGoes(t, "posted")
      /\ accepted' = accepted \cup {<<task[t].build, task[t].generation>>}
      /\ UNCHANGED <<kind, row, shown, late, faults, lates>>
  BY Zenon DEF Answer
<1>2. /\ task' \in [Tasks -> TaskWork] /\ \A s \in Tasks \ {t} : task'[s] = task[s]
      /\ SameErrand(t) /\ task'[t].phase = "posted" /\ task'[t].age = task[t].age
  BY <1>0, <1>1, GoesFacts DEF DeliveryTypeOK, TaskPhases
<1>3. TaskAtWork(t)
  BY Zenon, <1>0, <1>1 DEF TasksAtWork
<1>4. task[t].build \in Builds /\ task[t].generation \in Nat /\ task[t].age < ClaimLease
  BY Zenon, <1>0, <1>3, TaskTypes DEF TaskAtWork
<1>5. DeliveryTypeOK'
  BY <1>0, <1>1, <1>2, <1>4 DEF DeliveryTypeOK
<1>6. accepted \subseteq accepted' /\ <<task[t].build, task[t].generation>> \in accepted'
  BY <1>1
<1>7. task'[t].phase \notin {"idle", "observing", "matched", "sending", "applied", "superseded", "requeueLater"}
  BY Zenon, <1>2
<1>8. TaskAtWork(t)'
  BY Zenon, <1>0, <1>1, <1>2, <1>3, <1>4, <1>5, <1>6, <1>7, SameRows, AtWorkGoesOn DEF Requesting
<1>9. Delivers(t)' => Delivers(t)
  BY Zenon, <1>1, <1>2 DEF Delivers, Unsettled, SameErrand
<1>10. \A n \in Builds : Owes(t, n) => Owes(t, n)'
  <2>1. task'[t].build = task[t].build /\ task'[t].generation = task[t].generation
    BY Zenon, <1>2 DEF SameErrand
  <2> QED
    BY Zenon, <1>1, <1>2, <1>7, <2>1 DEF Owes, IsStale, IsStatus
<1> QED
  BY Zenon, <1>0, <1>1, <1>2, <1>5, <1>6, <1>7, <1>8, <1>9, <1>10, SameRows, TaskStep DEF MayWrite

LEMMA LoseTaskKeeps ==
  ASSUME DeliveryInv, NEW t \in Tasks, LoseTask(t)
  PROVE  DeliveryInv'
<1>0. DeliveryTypeOK
  BY Zenon DEF DeliveryInv
<1>1. /\ TaskEnds(t) /\ faults < MaxFaults /\ faults' = faults + 1
      /\ UNCHANGED <<kind, row, shown, late, accepted, lates>>
  BY Zenon DEF LoseTask, TaskEnds
<1>2. /\ task' \in [Tasks -> TaskWork] /\ task'[t].phase = "idle"
      /\ \A s \in Tasks \ {t} : task'[s] = task[s]
  BY Zenon, <1>0, <1>1, EndsFacts DEF DeliveryTypeOK
<1>3. faults' # 0 /\ faults' \in 0 .. MaxFaults /\ lates' \in 0 .. faults'
  BY <1>0, <1>1, DeliveryAssumption DEF DeliveryTypeOK
<1>4. DeliveryTypeOK'
  BY <1>0, <1>1, <1>2, <1>3 DEF DeliveryTypeOK
<1>5. ~Delivers(t)'
  BY Zenon, <1>2 DEF Delivers, Unsettled
<1> QED
  BY Zenon, <1>0, <1>1, <1>2, <1>3, <1>4, <1>5, SameRows, TaskStep DEF MayWrite

(* A task ends with a delivery claim that it gives back or abandons. *)
LEMMA GiveBackKeeps ==
  ASSUME DeliveryInv, NEW t \in Tasks, Delivers(t), task[t].phase \in {"superseded", "failed"},
         TaskEnds(t), NEW r \in DeliveryRows,
         r.generation = row[task[t].build].generation, r.outcome = row[task[t].build].outcome,
         r.recAttempts = row[task[t].build].recAttempts, r.state \in {"pending", "abandoned"},
         row' = IF HoldsDelivery(t) THEN [row EXCEPT ![task[t].build] = r] ELSE row,
         UNCHANGED <<kind, shown, late, accepted, faults, lates>>
  PROVE  DeliveryInv'
<1>0. DeliveryTypeOK /\ TasksAtWork
  BY Zenon DEF DeliveryInv
<1>1. PICK b : b = task[t].build
  OBVIOUS
<1>2. b \in Builds
  BY Zenon, <1>0, <1>1 DEF TasksAtWork, TaskAtWork
<1>3. /\ task' \in [Tasks -> TaskWork] /\ task'[t].phase = "idle"
      /\ \A s \in Tasks \ {t} : task'[s] = task[s]
  BY Zenon, <1>0, EndsFacts DEF DeliveryTypeOK
<1>4. ~Delivers(t)' /\ \A n \in Builds : ~Owes(t, n)
  BY Zenon, <1>3 DEF Delivers, Unsettled, Owes
<1>5. CASE HoldsDelivery(t)
  <2>1. /\ row' \in [Builds -> DeliveryRows] /\ row'[b] = r
        /\ \A c \in Builds \ {b} : row'[c] = row[c]
    BY Zenon, <1>0, <1>1, <1>2, <1>5, RowSet DEF DeliveryTypeOK
  <2>2. DeliveryTypeOK'
    BY <1>0, <1>3, <2>1 DEF DeliveryTypeOK
  <2>3. SameRounds(b) /\ NotSettled(b)
    <3>1. row[b].state = "pending"
      BY Zenon, <1>1, <1>5 DEF HoldsDelivery
    <3>2. r.state # "none" /\ r.state # "delivered"
      BY Zenon
    <3> QED
      BY Zenon, <1>1, <2>1, <3>1, <3>2 DEF SameRounds, SameOutcome, NotSettled
  <2>4. \A c \in Builds : c # b => SameRounds(c) /\ NotSettled(c) /\ ClaimKept(c)
    <3>1. \A c \in Builds : c # b => row'[c] = row[c]
      BY <2>1
    <3> QED
      BY Zenon, <3>1, SameRowIsQuiet DEF QuietRow
  <2>5. \A c \in Builds : /\ SameRounds(c) /\ NotSettled(c)
                          /\ \/ ClaimKept(c) \/ Unclaimed(c)
                             \/ /\ Delivers(t) /\ ~Delivers(t)'
                                /\ HoldsDelivery(t) /\ task[t].build = c
    BY Zenon, <1>1, <1>4, <1>5, <2>3, <2>4
  <2> QED
    BY Zenon, <1>3, <1>4, <2>2, <2>5, TaskStep DEF MayWrite
<1>6. CASE ~HoldsDelivery(t)
  <2>1. row' = row
    BY Zenon, <1>6
  <2>2. DeliveryTypeOK'
    BY Zenon, <1>0, <1>3, <2>1 DEF DeliveryTypeOK
  <2> QED
    BY Zenon, <1>0, <1>3, <1>4, <2>1, <2>2, SameRows, TaskStep DEF MayWrite
<1> QED
  BY Zenon, <1>5, <1>6

LEMMA SupersedeKeeps ==
  ASSUME DeliveryInv, NEW t \in Tasks, Supersede(t)
  PROVE  DeliveryInv'
<1>0. DeliveryTypeOK /\ TasksAtWork
  BY Zenon DEF DeliveryInv
<1>1. PICK b : b = task[t].build
  OBVIOUS
<1>2. /\ task[t].phase = "superseded" /\ task[t].job = "deliver" /\ TaskEnds(t)
      /\ row' = IF HoldsDelivery(t)
                THEN [row EXCEPT ![b].state = "abandoned", ![b].wait = 0,
                                 ![b].repost = FALSE, ![b].inFlight = FALSE]
                ELSE row
      /\ UNCHANGED <<kind, shown, late, accepted, faults, lates>>
  BY <1>1 DEF Supersede
<1>3. Delivers(t) /\ b \in Builds /\ row[b] \in DeliveryRows
  BY Zenon, <1>0, <1>1, <1>2, RowTypes DEF Delivers, Unsettled, TasksAtWork, TaskAtWork
<1>4. PICK r : r = [row[b] EXCEPT !.state = "abandoned", !.wait = 0, !.repost = FALSE, !.inFlight = FALSE]
  OBVIOUS
<1>5. /\ r \in DeliveryRows /\ r.generation = row[b].generation /\ r.outcome = row[b].outcome
      /\ r.recAttempts = row[b].recAttempts /\ r.state = "abandoned"
  BY Zenon, <1>3, <1>4 DEF DeliveryRows, RowStates
<1>6. row' = IF HoldsDelivery(t) THEN [row EXCEPT ![b] = r] ELSE row
  <2>1. [row EXCEPT ![b].state = "abandoned", ![b].wait = 0, ![b].repost = FALSE, ![b].inFlight = FALSE]
          = [row EXCEPT ![b] = r]
    BY Zenon, <1>0, <1>3, <1>4 DEF DeliveryTypeOK
  <2> QED
    BY Zenon, <1>2, <2>1
<1> QED
  BY Zenon, <1>1, <1>2, <1>3, <1>5, <1>6, GiveBackKeeps

LEMMA SettleFailedKeeps ==
  ASSUME DeliveryInv, NEW t \in Tasks, SettleFailed(t)
  PROVE  DeliveryInv'
<1>0. DeliveryTypeOK /\ TasksAtWork
  BY Zenon DEF DeliveryInv
<1>1. PICK b : b = task[t].build
  OBVIOUS
<1>2. PICK spent : spent = (row[b].attempts >= MaxDeliveryAttempts)
  OBVIOUS
<1>3. PICK backoff \in 0 .. MaxBackoff :
         row' = IF ~HoldsDelivery(t) THEN row
                ELSE [row EXCEPT ![b].state = IF spent THEN "abandoned" ELSE "pending",
                                 ![b].wait = IF spent THEN 0 ELSE backoff,
                                 ![b].recDue = Nil, ![b].recLease = Nil,
                                 ![b].repost = FALSE,
                                 ![b].inFlight = @ /\ ~spent]
  BY Zenon, <1>1, <1>2 DEF SettleFailed
<1>4. /\ task[t].phase = "failed" /\ task[t].job = "deliver" /\ TaskEnds(t)
      /\ UNCHANGED <<kind, shown, late, accepted, faults, lates>>
  BY Zenon DEF SettleFailed
<1>5. Delivers(t) /\ b \in Builds /\ row[b] \in DeliveryRows
  BY Zenon, <1>0, <1>1, <1>4, RowTypes DEF Delivers, Unsettled, TasksAtWork, TaskAtWork
<1>6. PICK r : r = [row[b] EXCEPT !.state = IF spent THEN "abandoned" ELSE "pending",
                                  !.wait = IF spent THEN 0 ELSE backoff,
                                  !.recDue = Nil, !.recLease = Nil, !.repost = FALSE,
                                  !.inFlight = @ /\ ~spent]
  OBVIOUS
<1>7. backoff \in Nat
  BY DeliveryAssumption
<1>8. /\ r \in DeliveryRows /\ r.generation = row[b].generation /\ r.outcome = row[b].outcome
      /\ r.recAttempts = row[b].recAttempts /\ r.state \in {"pending", "abandoned"}
  <2>1. CASE spent
    BY Zenon, <1>5, <1>6, <2>1 DEF DeliveryRows, RowStates, Nil
  <2>2. CASE ~spent
    BY Zenon, <1>5, <1>6, <1>7, <2>2 DEF DeliveryRows, RowStates, Nil
  <2> QED
    BY Zenon, <2>1, <2>2
<1>9. row' = IF HoldsDelivery(t) THEN [row EXCEPT ![b] = r] ELSE row
  <2>1. HoldsDelivery(t) => row' = [row EXCEPT ![b] = r]
    BY Zenon, <1>0, <1>3, <1>5, <1>6 DEF DeliveryTypeOK
  <2> QED
    BY Zenon, <1>3, <2>1
<1> QED
  BY Zenon, <1>1, <1>4, <1>5, <1>8, <1>9, GiveBackKeeps

(* What asking for another post does to the rows. *)
LEMMA RequeueFacts ==
  ASSUME DeliveryTypeOK, NEW b \in Builds, NEW stale \in Nat,
         row' = [row EXCEPT ![b] = Requeued(row[b], stale)]
  PROVE  /\ row' \in [Builds -> DeliveryRows] /\ \A c \in Builds : QuietRow(c)
         /\ row[b].generation > stale =>
               /\ row'[b].state # "delivered"
               /\ row[b].state = "pending" /\ row[b].wait > 0 => row'[b].repost
<1>1. row[b] \in DeliveryRows
  BY Zenon, RowTypes
<1>2. PICK again \in BOOLEAN : again = (/\ row[b].generation > stale
                                        /\ \/ row[b].state = "delivered"
                                           \/ row[b].state = "pending" /\ row[b].wait > 0)
  BY Zenon
<1>3. PICK r : r = Requeued(row[b], stale)
  OBVIOUS
<1>4. ASSUME again
      PROVE  /\ r \in DeliveryRows /\ r.generation = row[b].generation /\ r.outcome = row[b].outcome
             /\ r.recAttempts = row[b].recAttempts /\ r.state = "pending"
             /\ row[b].state # "delivered" => r.attempts = row[b].attempts /\ r.wait = row[b].wait /\ r.repost
  <2>1. r = [row[b] EXCEPT !.attempts = IF row[b].state = "delivered" THEN 0 ELSE @,
                   !.wait = IF row[b].state = "delivered" THEN 0 ELSE @,
                   !.repost = row[b].state # "delivered",
                   !.inFlight = @ /\ row[b].state # "delivered",
                   !.recDue = Nil, !.recLease = Nil,
                   !.state = "pending"]
    BY <1>2, <1>3, <1>4 DEF Requeued
  <2>2. CASE row[b].state = "delivered"
    BY Zenon, <1>1, <2>1, <2>2 DEF DeliveryRows, RowStates, Nil
  <2>3. CASE row[b].state # "delivered"
    BY Zenon, <1>1, <2>1, <2>3 DEF DeliveryRows, RowStates, Nil
  <2> QED
    BY Zenon, <2>2, <2>3
<1>5. ~again => r = row[b]
  BY <1>2, <1>3 DEF Requeued
<1>6. r \in DeliveryRows
  BY Zenon, <1>1, <1>4, <1>5
<1>7. /\ row' \in [Builds -> DeliveryRows] /\ row'[b] = r
      /\ \A c \in Builds : c # b => row'[c] = row[c]
  <2>1. /\ row' \in [Builds -> DeliveryRows] /\ row'[b] = r
        /\ \A c \in Builds \ {b} : row'[c] = row[c]
    BY Zenon, <1>3, <1>6, RowSet DEF DeliveryTypeOK
  <2> QED
    BY <2>1
<1>8. QuietRow(b)
  <2>1. CASE ~again
    BY Zenon, <1>5, <1>7, <2>1, SameRowIsQuiet
  <2>2. CASE again
    <3>1. /\ row'[b].generation = row[b].generation /\ row'[b].outcome = row[b].outcome
          /\ row'[b].recAttempts = row[b].recAttempts /\ row'[b].state = "pending"
          /\ row[b].state # "delivered" =>
                row'[b].attempts = row[b].attempts /\ row'[b].wait = row[b].wait /\ row'[b].repost
      BY Zenon, <1>4, <1>7, <2>2
    <3>2. row[b].state = "delivered" \/ row[b].state = "pending"
      BY Zenon, <1>2, <2>2
    <3>3. row[b].state # "none" /\ row'[b].state # "none" /\ row'[b].state # "delivered"
      BY Zenon, <3>1, <3>2
    <3> QED
      BY Zenon, <3>1, <3>2, <3>3 DEF QuietRow, SameRounds, SameOutcome, NotSettled, ClaimKept, Unclaimed
  <2> QED
    BY Zenon, <2>1, <2>2
<1>9. ASSUME row[b].generation > stale
      PROVE  /\ row'[b].state # "delivered"
             /\ row[b].state = "pending" /\ row[b].wait > 0 => row'[b].repost
  <2>1. CASE ~again
    BY Zenon, <1>2, <1>5, <1>7, <1>9, <2>1
  <2>2. CASE again
    BY Zenon, <1>4, <1>7, <2>2
  <2> QED
    BY Zenon, <2>1, <2>2
<1> QED
  BY Zenon, <1>7, <1>8, <1>9, SameRowIsQuiet

(* Asked for by whoever wrote over it, the newest row is posted again. *)
LEMMA AskedAgain ==
  ASSUME DeliveryInv, NEW t \in Tasks, NEW n \in Builds, SameOutcome(n),
         \A s \in Tasks \ {t} : task'[s] = task[s], task'[t].phase \notin {"applied", "posted"},
         row'[n].state # "delivered",
         row[n].state = "pending" /\ row[n].wait > 0 => row'[n].repost
  PROVE  Again(n)
<1> SUFFICES ASSUME NEW u \in Tasks, PostedFor(u, n)' PROVE row'[n].repost
  BY Zenon DEF Again
<1>1. u # t
  BY Zenon DEF PostedFor
<1>2. task'[u] = task[u]
  BY <1>1
<1>3. Delivers(u) /\ task[u].build = n /\ IsCurrent(u)
  BY Zenon, <1>2 DEF PostedFor, Delivers, IsCurrent, SameOutcome
<1>4. row[n].state = "pending" /\ row[n].wait > 0
  BY Zenon, <1>3, ClaimRuns DEF DeliveryInv
<1> QED
  BY Zenon, <1>4

LEMMA RequeueOwnKeeps ==
  ASSUME DeliveryInv, NEW t \in Tasks, RequeueOwn(t)
  PROVE  DeliveryInv'
<1>0. DeliveryTypeOK /\ TasksAtWork
  BY Zenon DEF DeliveryInv
<1>1. PICK b, g : b = task[t].build /\ g = task[t].generation
  OBVIOUS
<1>2. /\ task[t].phase = "requeue" /\ TaskGoes(t, "follow")
      /\ row' = [row EXCEPT ![b] = Requeued(row[b], g)]
      /\ UNCHANGED <<kind, shown, late, accepted, faults, lates>>
  BY Zenon, <1>1 DEF RequeueOwn
<1>3. TaskAtWork(t)
  BY Zenon, <1>0, <1>2 DEF TasksAtWork
<1>4. b \in Builds /\ g \in Nat /\ task[t].age < ClaimLease
  BY Zenon, <1>0, <1>1, <1>3, TaskTypes DEF TaskAtWork
<1>5. /\ row' \in [Builds -> DeliveryRows] /\ \A c \in Builds : QuietRow(c)
      /\ row[b].generation > g =>
            /\ row'[b].state # "delivered"
            /\ row[b].state = "pending" /\ row[b].wait > 0 => row'[b].repost
  BY Zenon, <1>0, <1>2, <1>4, RequeueFacts
<1>6. /\ task' \in [Tasks -> TaskWork] /\ \A s \in Tasks \ {t} : task'[s] = task[s]
      /\ SameErrand(t) /\ task'[t].phase = "follow" /\ task'[t].age = task[t].age
  BY <1>0, <1>2, GoesFacts DEF DeliveryTypeOK, TaskPhases
<1>7. DeliveryTypeOK'
  BY <1>0, <1>2, <1>5, <1>6 DEF DeliveryTypeOK
<1>8. \A c \in Builds : SameOutcome(c) /\ SameRounds(c) /\ row'[c].recAttempts >= row[c].recAttempts
  <2>1. \A c \in Builds : row[c].recAttempts >= row[c].recAttempts
    BY <1>0, RowTypes
  <2> QED
    BY Zenon, <1>5, <2>1 DEF QuietRow, SameRounds
<1>9. task'[t].phase \notin {"idle", "observing", "matched", "posted", "superseded", "requeueLater", "sending", "applied"}
  BY Zenon, <1>6
<1>10. TaskAtWork(t)'
  BY Zenon, <1>0, <1>2, <1>3, <1>4, <1>6, <1>7, <1>8, <1>9, AtWorkGoesOn DEF Requesting
<1>11. ~Delivers(t)'
  BY Zenon, <1>6 DEF Delivers, Unsettled
<1>12. ASSUME NEW n \in Builds, Owes(t, n) PROVE Again(n) \/ Owes(t, n)'
  <2>1. /\ IsStatus(b) /\ \/ b < n
                          \/ b = n /\ g < row[n].generation
    BY Zenon, <1>1, <1>12 DEF Owes, IsStale
  <2>2. CASE b < n
    <3>1. task'[t].build = b
      BY Zenon, <1>1, <1>6 DEF SameErrand
    <3> QED
      BY Zenon, <1>2, <1>6, <1>9, <2>1, <2>2, <3>1 DEF Owes, IsStale, IsStatus
  <2>3. CASE b = n /\ g < row[n].generation
    <3>1. row[b].generation > g
      BY <1>0, <1>4, <2>3, RowTypes
    <3>2. /\ row'[n].state # "delivered"
          /\ row[n].state = "pending" /\ row[n].wait > 0 => row'[n].repost
      BY Zenon, <1>5, <2>3, <3>1
    <3> QED
      BY Zenon, <1>6, <1>8, <1>9, <3>2, AskedAgain
  <2> QED
    BY Zenon, <2>1, <2>2, <2>3
<1> QED
  BY Zenon, <1>2, <1>5, <1>6, <1>7, <1>9, <1>10, <1>11, <1>12, TaskStep DEF QuietRow, MayWrite

LEMMA RequeueLaterKeeps ==
  ASSUME DeliveryInv, NEW t \in Tasks, RequeueLater(t)
  PROVE  DeliveryInv'
<1>0. DeliveryTypeOK /\ TasksAtWork
  BY Zenon DEF DeliveryInv
<1>1. PICK h : h = task[t].holder
  OBVIOUS
<1>2. /\ task[t].phase = "requeueLater" /\ TaskEnds(t)
      /\ row' = [row EXCEPT ![h] = Requeued(row[h], 0)]
      /\ UNCHANGED <<kind, shown, late, accepted, faults, lates>>
  BY Zenon, <1>1 DEF RequeueLater
<1>3. h \in Builds /\ row[h].generation > 0
  BY Zenon, <1>0, <1>1, <1>2 DEF TasksAtWork, TaskAtWork, StatusRows
<1>4. /\ row' \in [Builds -> DeliveryRows] /\ \A c \in Builds : QuietRow(c)
      /\ row'[h].state # "delivered"
      /\ row[h].state = "pending" /\ row[h].wait > 0 => row'[h].repost
  <2>1. 0 \in Nat
    OBVIOUS
  <2> QED
    BY Zenon, <1>0, <1>2, <1>3, <2>1, RequeueFacts
<1>5. /\ task' \in [Tasks -> TaskWork] /\ task'[t].phase = "idle"
      /\ \A s \in Tasks \ {t} : task'[s] = task[s]
  BY Zenon, <1>0, <1>2, EndsFacts DEF DeliveryTypeOK
<1>6. DeliveryTypeOK'
  BY <1>0, <1>2, <1>4, <1>5 DEF DeliveryTypeOK
<1>7. ~Delivers(t)' /\ task'[t].phase \notin {"applied", "posted", "observing", "sending", "matched"}
  BY Zenon, <1>5 DEF Delivers, Unsettled
<1>8. Again(h)
  <2>1. SameOutcome(h)
    BY Zenon, <1>3, <1>4 DEF QuietRow, SameRounds
  <2> QED
    BY Zenon, <1>3, <1>4, <1>5, <1>7, <2>1, AskedAgain
<1>9. \A n \in Builds : Again(n) \/ ~Owes(t, n)
  BY Zenon, <1>1, <1>2, <1>8 DEF Owes
<1> QED
  BY Zenon, <1>2, <1>4, <1>5, <1>6, <1>7, <1>9, TaskStep DEF QuietRow, MayWrite

(* A settled post: the row becomes delivered, or is due once more. *)
LEMMA PostedRow ==
  ASSUME DeliveryTypeOK, NEW t \in Tasks, SettlePosted(t), HoldsDelivery(t), task[t].build \in Builds
  PROVE  LET b == task[t].build IN
         /\ row' \in [Builds -> DeliveryRows] /\ \A c \in Builds : c # b => row'[c] = row[c]
         /\ TaskGoes(t, "follow") /\ SameRounds(b)
         /\ row[b].repost => row'[b].state = "pending"
         /\ row'[b].recDue \in {Quiet, Nil}
<1>1. PICK b : b = task[t].build
  OBVIOUS
<1>2. row[b] \in DeliveryRows /\ row[b].state = "pending" /\ b \in Builds /\ Quiet \in Nat
  BY <1>1, RowTypes, DeliveryAssumption DEF HoldsDelivery
<1>3. PICK q : q = Delivered(row[b])
  OBVIOUS
<1>4. PICK due : due = IF IsStatus(b) /\ q.state = "delivered" /\ q.recAttempts < MaxReconciliations
                       THEN Quiet ELSE Nil
  OBVIOUS
<1>5. PICK r : r = [q EXCEPT !.recDue = due]
  BY Zenon
<1>6. TaskGoes(t, "follow") /\ row' = [row EXCEPT ![b] = r]
  BY Zenon, <1>1, <1>3, <1>4, <1>5 DEF SettlePosted
<1>7. /\ q \in DeliveryRows /\ q.generation = row[b].generation /\ q.outcome = row[b].outcome
      /\ q.recAttempts = row[b].recAttempts /\ q.state \in {"pending", "delivered"}
      /\ row[b].repost => q.state = "pending"
  <2>1. CASE row[b].repost
    <3>1. q = [row[b] EXCEPT !.attempts = 0, !.wait = 0, !.recDue = Nil, !.recLease = Nil,
                             !.repost = FALSE, !.inFlight = FALSE]
      BY Zenon, <1>3, <2>1 DEF Delivered
    <3> QED
      BY Zenon, <1>2, <3>1 DEF DeliveryRows, Nil
  <2>2. CASE ~row[b].repost
    <3>1. q = [row[b] EXCEPT !.state = "delivered", !.wait = 0, !.recLease = Nil, !.inFlight = FALSE]
      BY Zenon, <1>3, <2>2 DEF Delivered
    <3> QED
      BY Zenon, <1>2, <2>2, <3>1 DEF DeliveryRows, RowStates, Nil
  <2> QED
    BY Zenon, <2>1, <2>2
<1>8. due \in {Quiet, Nil} /\ due \in Nat \cup {Nil}
  BY <1>2, <1>4
<1>9. /\ r \in DeliveryRows /\ r.generation = q.generation /\ r.outcome = q.outcome
      /\ r.recAttempts = q.recAttempts /\ r.state = q.state /\ r.recDue = due
  BY Zenon, <1>5, <1>7, <1>8 DEF DeliveryRows
<1>10. /\ row' \in [Builds -> DeliveryRows] /\ row'[b] = r
       /\ \A c \in Builds \ {b} : row'[c] = row[c]
  BY Zenon, <1>2, <1>6, <1>9, RowSet DEF DeliveryTypeOK
<1>11. \A c \in Builds : c # b => row'[c] = row[c]
  BY <1>10
<1>12. SameRounds(b)
  <2>1. r.state # "none"
    BY Zenon, <1>7, <1>9
  <2> QED
    BY Zenon, <1>2, <1>7, <1>9, <1>10, <2>1 DEF SameRounds, SameOutcome
<1> QED
  BY Zenon, <1>1, <1>6, <1>7, <1>8, <1>9, <1>10, <1>11, <1>12

(* The task of a settled claim goes on to the later builds. *)
LEMMA SettlesAndFollows ==
  ASSUME DeliveryInv, DeliveryTypeOK', NEW t \in Tasks, task[t].phase = "posted", NEW b, b = task[t].build,
         IsCurrent(t), kind' = kind, shown' = shown, late' = late, accepted' = accepted,
         faults' = faults, lates' = lates,
         TaskGoes(t, "follow"), \A c \in Builds : c # b => row'[c] = row[c], SameRounds(b),
         \/ Delivers(t) /\ HoldsDelivery(t) /\ (row[b].repost => row'[b].state # "delivered")
         \/ row[b].state = "delivered"
  PROVE  /\ TasksAtWork' /\ ClaimsStand' /\ DeliveredWasAccepted' /\ Corrected'
         /\ \A s \in Tasks : s # t => task'[s] = task[s]
         /\ task'[t].phase = "follow" /\ b \in Builds
         /\ \A n \in Builds : n # b => SameRounds(n) /\ NotSettled(n)
<1>0. DeliveryTypeOK /\ TasksAtWork /\ ClaimsStand /\ DeliveredWasAccepted /\ Corrected
  BY Zenon DEF DeliveryInv
<1>1. TaskAtWork(t)
  BY Zenon, <1>0 DEF TasksAtWork
<1>2. /\ b \in Builds /\ task[t].age < ClaimLease /\ task[t].generation = row[b].generation
      /\ <<b, row[b].generation>> \in accepted
  BY Zenon, <1>1 DEF TaskAtWork, IsCurrent
<1>3. /\ \A s \in Tasks \ {t} : task'[s] = task[s]
      /\ SameErrand(t) /\ task'[t].phase = "follow" /\ task'[t].age = task[t].age
  BY <1>0, GoesFacts DEF DeliveryTypeOK, TaskPhases
<1>4. \A s \in Tasks : s # t =>
         /\ task'[s] = task[s] /\ SameErrand(s) /\ task'[s].phase = task[s].phase
         /\ task'[s].age = task[s].age /\ Delivers(s)' <=> Delivers(s)
  <2>1. \A s \in Tasks : s # t => task'[s] = task[s]
    BY <1>3
  <2> QED
    BY Zenon, <2>1, OtherTask
<1>5. \A n \in Builds : SameRounds(n) /\ SameOutcome(n) /\ (n # b => NotSettled(n) /\ ClaimKept(n))
  BY Zenon, SameRowIsQuiet DEF QuietRow, SameRounds
<1>6. ~Delivers(t)'
  BY Zenon, <1>3 DEF Delivers, Unsettled
<1>7. TasksAtWork'
  <2>1. \A c \in Builds : SameOutcome(c) /\ row'[c].recAttempts >= row[c].recAttempts
    <3>1. \A c \in Builds : row[c].recAttempts >= row[c].recAttempts
      BY <1>0, RowTypes
    <3> QED
      BY Zenon, <1>5, <3>1 DEF SameRounds
  <2>2. task'[t].phase \notin {"idle", "observing", "matched", "posted", "superseded", "requeueLater", "sending", "applied"}
    BY Zenon, <1>3
  <2>3. TaskAtWork(t)'
    BY Zenon, <1>0, <1>1, <1>2, <1>3, <2>1, <2>2, AtWorkGoesOn DEF Requesting
  <2>4. \A s \in Tasks : s # t /\ task'[s].phase # "idle" => TaskAtWork(s)'
    BY Zenon, <1>0, <1>4, <2>1, AtWorkStays DEF TasksAtWork
  <2>5. \A c \in Builds : row'[c].state # "none" => row'[c].outcome # "none" /\ row'[c].generation > 0
    BY Zenon, <1>0, <1>5, OutcomesNamed
  <2> QED
    BY Zenon, <2>3, <2>4, <2>5 DEF TasksAtWork
<1>8. ClaimsStand'
  <2>1. \A s \in Tasks : Delivers(s)' => Delivers(s) /\ SameErrand(s) /\ task'[s].age = task[s].age
    BY Zenon, <1>4, <1>6
  <2>2. \/ Unclaimed(b)
        \/ \A s \in Tasks : Delivers(s)' /\ task[s].build = b => task[s].generation # row[b].generation
    <3>1. CASE row[b].state = "delivered"
      BY Zenon, <3>1 DEF Unclaimed
    <3>2. CASE Delivers(t)
      BY Zenon, <1>0, <1>2, <1>6, <2>1, <3>2 DEF ClaimsStand
    <3> QED
      BY Zenon, <3>1, <3>2
  <2>3. \A c \in Builds :
          /\ row'[c].generation = row[c].generation
          /\ \/ ClaimKept(c) \/ Unclaimed(c)
             \/ \A s \in Tasks : Delivers(s)' /\ task[s].build = c => task[s].generation # row[c].generation
    BY Zenon, <1>5, <2>2 DEF SameOutcome
  <2> QED
    BY Zenon, <1>0, <2>1, <2>3, ClaimsKept
<1>9. DeliveredWasAccepted'
  <2>1. accepted \subseteq accepted'
    OBVIOUS
  <2>2. <<b, row'[b].generation>> \in accepted'
    BY Zenon, <1>2, <1>5 DEF SameOutcome
  <2>3. \A c \in Builds : c # b /\ row'[c].state = "delivered" =>
             row[c].state = "delivered" /\ row'[c].generation = row[c].generation
    BY Zenon
  <2> QED
    BY Zenon, <1>0, <2>1, <2>2, <2>3, AcceptedKept
<1>10. Corrected'
  <2>1. ASSUME NEW c \in Builds, row'[c].state = "delivered"
        PROVE  row[c].state = "delivered" \/ (~row[c].repost /\ \E s \in Tasks : PostedFor(s, c))
    <3>1. CASE c # b
      BY Zenon, <2>1, <3>1
    <3>2. CASE row[b].state = "delivered" /\ c = b
      BY Zenon, <3>2
    <3>3. CASE c = b /\ Delivers(t) /\ (row[b].repost => row'[b].state # "delivered")
      BY Zenon, <2>1, <3>3 DEF PostedFor
    <3> QED
      BY Zenon, <3>1, <3>2, <3>3
  <2>2. \A n \in Builds, s \in Tasks :
            PostedFor(s, n) /\ PostedFor(s, n)' /\ row[n].repost => row'[n].repost
    <3> SUFFICES ASSUME NEW n \in Builds, NEW s \in Tasks, PostedFor(s, n), PostedFor(s, n)', row[n].repost
                 PROVE  row'[n].repost
      OBVIOUS
    <3>1. s # t /\ Delivers(s) /\ task[s].build = n /\ IsCurrent(s)
      BY Zenon, <1>6 DEF PostedFor
    <3>2. row[n].state = "pending"
      BY Zenon, <1>0, <3>1, ClaimRuns
    <3>3. n # b
      <4>1. CASE row[b].state = "delivered"
        BY Zenon, <3>2, <4>1
      <4>2. CASE Delivers(t)
        BY Zenon, <1>0, <1>2, <3>1, <4>2 DEF ClaimsStand, IsCurrent
      <4> QED
        BY Zenon, <4>1, <4>2
    <3> QED
      BY Zenon, <3>3
  <2>3. \A s \in Tasks : task'[s].phase \in {"applied", "posted"} =>
            /\ SameErrand(s) /\ task[s].phase # "idle" /\ task[s].phase \in {"applied", "posted"}
    BY Zenon, <1>3, <1>4
  <2>4. ASSUME NEW n \in Builds, Owes(t, n) PROVE Owes(t, n)'
    <3>1. IsStatus(b) /\ task'[t].build = b
      BY Zenon, <1>3, <2>4 DEF Owes, IsStale, SameErrand
    <3>2. ~(row[b].generation < row[b].generation)
      BY <1>0, <1>2, RowTypes
    <3>3. b < n
      BY Zenon, <1>2, <2>4, <3>2 DEF Owes, IsStale
    <3>4. task'[t].phase # "idle"
      BY Zenon, <1>3
    <3> QED
      BY Zenon, <1>3, <3>1, <3>3, <3>4 DEF Owes, IsStale, IsStatus
  <2>5. \A n \in Builds : \A s \in Tasks : Owes(s, n) => Owes(s, n)'
    BY Zenon, <1>4, <1>5, <2>4, OtherOwes
  <2> QED
    BY Zenon, <1>0, <1>5, <2>1, <2>2, <2>3, <2>5, CorrectedKept
<1> QED
  BY Zenon, <1>2, <1>3, <1>4, <1>5, <1>7, <1>8, <1>9, <1>10

(* What is left to show of a settled row: that it is observed in time, and    *)
(* was seen.                                                                  *)
LEMMA SettledObserved ==
  ASSUME DeliveryInv, DeliveryTypeOK', NEW t \in Tasks, NEW b \in Builds,
         kind' = kind, shown' = shown, late' = late, lates' = lates,
         \A s \in Tasks : s # t => task'[s] = task[s],
         task'[t].phase \in {"idle", "follow"},
         SameRounds(b), \A n \in Builds : n # b => SameRounds(n) /\ NotSettled(n),
         IsNewest(b) /\ lates = 0 /\ OutlivesStale(b) /\ SeenStands(b) =>
            /\ row[b].recAttempts = 0 => row'[b].recDue \in {Quiet, Nil}
            /\ /\ row'[b].recAttempts > 0 /\ row'[b].state = "delivered"
               /\ row'[b].recLease = Nil /\ ~row'[b].recError
               => Shows(b)
  PROVE  Observed'
<1>0. DeliveryTypeOK /\ TasksAtWork /\ Observed
  BY Zenon DEF DeliveryInv
<1>1. \A n \in Builds : SameOutcome(n)
  BY Zenon DEF SameRounds
<1>2. \A s \in Tasks : s # t =>
         /\ task'[s] = task[s] /\ SameErrand(s) /\ task'[s].phase = task[s].phase
         /\ task'[s].left = task[s].left
  BY Zenon, OtherTask
<1>3. task'[t].phase \notin MayWrite /\ task'[t].phase \notin HasSeen
  BY Zenon DEF MayWrite, HasSeen
<1>4. \A s \in Tasks : task'[s].phase \in MayWrite =>
         s # t /\ SameErrand(s) /\ task[s].phase \in MayWrite /\ task'[s].left = task[s].left
  BY Zenon, <1>2, <1>3
<1>5. \A s \in Tasks : task'[s].phase \in HasSeen =>
         s # t /\ SameErrand(s) /\ task[s].phase # "idle" /\ task[s].phase \in HasSeen
  BY Zenon, <1>2, <1>3 DEF HasSeen
<1> SUFFICES ASSUME lates' = 0, NEW n \in Builds, IsNewest(n)' PROVE OutlivesStale(n)' /\ SeenStands(n)'
  BY Zenon, <1>0 DEF Observed
<1>6. IsNewest(n)
  BY Zenon, <1>1, StatusRowsGrow DEF IsNewest, StatusRows, IsStatus, SameOutcome
<1>7. OutlivesStale(n) /\ SeenStands(n)
  BY Zenon, <1>0, <1>6 DEF Observed
<1>8. CASE n # b
  BY Zenon, <1>0, <1>4, <1>5, <1>7, <1>8, ObservedAtKept
<1>9. CASE n = b
  <2>1. /\ row[b].recAttempts = 0 => row'[b].recDue \in {Quiet, Nil}
        /\ /\ row'[b].recAttempts > 0 /\ row'[b].state = "delivered"
           /\ row'[b].recLease = Nil /\ ~row'[b].recError
           => Shows(b)
    BY Zenon, <1>6, <1>7, <1>9
  <2>2. row'[b].recAttempts = row[b].recAttempts /\ row'[b].outcome = row[b].outcome
    BY Zenon DEF SameRounds, SameOutcome
  <2>3. Shows(b) => Shows(b)'
    BY Zenon, <2>2 DEF Shows
  <2>4. ASSUME NEW s \in Tasks, IsStale(s, b)', task'[s].phase \in MayWrite
        PROVE  /\ row'[b].recAttempts = 0
               /\ row'[b].state = "delivered" /\ row'[b].recDue # Nil => row'[b].recDue > task'[s].left
    <3>1. s # t /\ task'[s] = task[s] /\ task[s].phase \in MayWrite /\ task'[s].left = task[s].left
      BY Zenon, <1>2, <1>4, <2>4
    <3>2. IsStale(s, b)
      BY Zenon, <1>1, <2>4, <3>1, OtherOwes
    <3>3. row[b].recAttempts = 0
      BY Zenon, <1>7, <1>9, <3>1, <3>2 DEF OutlivesStale
    <3>4. task[s].left <= Deadline
      BY Zenon, <1>0, <3>1 DEF TasksAtWork, TaskAtWork, MayWrite, Requesting
    <3>5. Quiet > task[s].left
      BY <1>0, <3>4, TaskTypes, DeliveryAssumption
    <3> QED
      BY Zenon, <2>1, <2>2, <3>1, <3>3, <3>5
  <2>5. ASSUME NEW s \in Tasks, row'[b].recAttempts > 0,
               task'[s].phase \in HasSeen, task'[s].build = b, IsCurrent(s)'
        PROVE  Shows(b)'
    <3>1. task'[s] = task[s] /\ task[s].phase \in HasSeen
      BY Zenon, <1>2, <1>5, <2>5
    <3>2. IsCurrent(s) /\ task[s].build = b
      BY Zenon, <1>1, <2>5, <3>1 DEF IsCurrent, SameOutcome
    <3> QED
      BY Zenon, <1>7, <1>9, <2>2, <2>3, <2>5, <3>1, <3>2 DEF SeenStands
  <2> QED
    BY Zenon, <1>9, <2>1, <2>3, <2>4, <2>5 DEF OutlivesStale, SeenStands
<1> QED
  BY Zenon, <1>8, <1>9

(* An answer to a post whose claim is gone: the newer outcome goes again. *)
LEMMA StalePostKeeps ==
  ASSUME DeliveryInv, NEW t \in Tasks, task[t].phase = "posted", TaskGoes(t, "requeue"),
         UNCHANGED <<kind, row, shown, late, accepted, faults, lates>>
  PROVE  DeliveryInv'
<1>0. DeliveryTypeOK /\ TasksAtWork
  BY Zenon DEF DeliveryInv
<1>1. /\ task' \in [Tasks -> TaskWork] /\ \A s \in Tasks \ {t} : task'[s] = task[s]
      /\ SameErrand(t) /\ task'[t].phase = "requeue" /\ task'[t].age = task[t].age
  BY <1>0, GoesFacts DEF DeliveryTypeOK, TaskPhases
<1>2. DeliveryTypeOK'
  BY <1>0, <1>1 DEF DeliveryTypeOK
<1>3. TaskAtWork(t)
  BY Zenon, <1>0 DEF TasksAtWork
<1>4. /\ task'[t].phase \notin {"idle", "observing", "matched", "posted", "superseded", "requeueLater", "sending", "applied"}
      /\ task'[t].age < ClaimLease
  BY Zenon, <1>1, <1>3 DEF TaskAtWork
<1>5. TaskAtWork(t)'
  BY Zenon, <1>0, <1>1, <1>2, <1>3, <1>4, SameRows, AtWorkGoesOn DEF Requesting
<1>6. ~Delivers(t)'
  BY Zenon, <1>1 DEF Delivers, Unsettled
<1>7. \A n \in Builds : Owes(t, n) => Owes(t, n)'
  <2>1. task'[t].build = task[t].build /\ task'[t].generation = task[t].generation
    BY Zenon, <1>1 DEF SameErrand
  <2> QED
    BY Zenon, <1>1, <1>4, <2>1 DEF Owes, IsStale, IsStatus
<1> QED
  BY Zenon, <1>0, <1>1, <1>2, <1>4, <1>5, <1>6, <1>7, SameRows, TaskStep DEF MayWrite

LEMMA SettlePostedKeeps ==
  ASSUME DeliveryInv, NEW t \in Tasks, SettlePosted(t)
  PROVE  DeliveryInv'
<1>0. DeliveryTypeOK /\ TasksAtWork /\ task[t].phase = "posted" /\ task[t].job = "deliver"
  BY Zenon DEF DeliveryInv, SettlePosted
<1>1. UNCHANGED <<kind, shown, late, accepted, faults, lates>>
  BY Zenon DEF SettlePosted
<1>2. CASE ~HoldsDelivery(t)
  <2>1. row' = row /\ TaskGoes(t, "requeue")
    BY Zenon, <1>2 DEF SettlePosted
  <2> QED
    BY Zenon, <1>0, <1>1, <2>1, StalePostKeeps
<1>3. CASE HoldsDelivery(t)
  <2>0. PICK b : b = task[t].build
    OBVIOUS
  <2>1. b \in Builds
    BY Zenon, <1>0, <2>0 DEF TasksAtWork, TaskAtWork
  <2>2. /\ row' \in [Builds -> DeliveryRows] /\ \A c \in Builds : c # b => row'[c] = row[c]
        /\ TaskGoes(t, "follow") /\ SameRounds(b)
        /\ row[b].repost => row'[b].state = "pending"
        /\ row'[b].recDue \in {Quiet, Nil}
    BY Zenon, <1>0, <1>3, <2>0, <2>1, PostedRow
  <2>3. task' \in [Tasks -> TaskWork]
    BY <1>0, <2>2, GoesFacts DEF DeliveryTypeOK, TaskPhases
  <2>4. DeliveryTypeOK'
    BY <1>0, <1>1, <2>2, <2>3 DEF DeliveryTypeOK
  <2>5. IsCurrent(t) /\ Delivers(t)
    BY Zenon, <1>0, <1>3 DEF HoldsDelivery, IsCurrent, Delivers, Unsettled
  <2>6. /\ TasksAtWork' /\ ClaimsStand' /\ DeliveredWasAccepted' /\ Corrected'
        /\ \A s \in Tasks : s # t => task'[s] = task[s]
        /\ task'[t].phase = "follow"
        /\ \A n \in Builds : n # b => SameRounds(n) /\ NotSettled(n)
    BY Zenon, <1>0, <1>1, <1>3, <2>0, <2>2, <2>4, <2>5, SettlesAndFollows
  <2>7. SeenStands(b) /\ row'[b].recAttempts > 0 => Shows(b)
    BY Zenon, <1>0, <2>0, <2>2, <2>5 DEF SeenStands, HasSeen, SameRounds
  <2>8. Observed'
    BY Zenon, <1>1, <2>1, <2>2, <2>4, <2>6, <2>7, SettledObserved
  <2> QED
    BY Zenon, <2>4, <2>6, <2>8 DEF DeliveryInv
<1> QED
  BY Zenon, <1>2, <1>3

(* A settled observation: the row stays delivered. *)
LEMMA ReconciledRow ==
  ASSUME DeliveryTypeOK, NEW t \in Tasks, SettleReconciliation(t), HoldsReconciliation(t),
         task[t].build \in Builds
  PROVE  LET b == task[t].build IN
         /\ row' \in [Builds -> DeliveryRows] /\ \A c \in Builds : c # b => row'[c] = row[c]
         /\ SameRounds(b) /\ row[b].state = "delivered" /\ row'[b].state = "delivered"
         /\ row'[b].recError = (task[t].phase = "failed")
<1>1. PICK b : b = task[t].build
  OBVIOUS
<1>2. row[b] \in DeliveryRows /\ row[b].state = "delivered" /\ b \in Builds
  BY Zenon, <1>1, RowTypes DEF HoldsReconciliation
<1>3. PICK error, superseded, spent : /\ error = (task[t].phase = "failed")
                                      /\ superseded = (task[t].phase = "superseded")
                                      /\ spent = (row[b].recAttempts >= MaxReconciliations)
  OBVIOUS
<1>4. PICK backoff \in 0 .. MaxBackoff :
         row' = [row EXCEPT ![b].recDue = IF superseded \/ spent THEN Nil
                                               ELSE IF error THEN backoff ELSE Quiet,
                            ![b].recLease = Nil, ![b].recError = error,
                            ![b].inFlight = @ /\ error /\ ~spent]
  BY Zenon, <1>1, <1>3 DEF SettleReconciliation
<1>5. PICK due : due = IF superseded \/ spent THEN Nil ELSE IF error THEN backoff ELSE Quiet
  OBVIOUS
<1>6. due \in Nat \cup {Nil} /\ error \in BOOLEAN
  BY <1>3, <1>5, DeliveryAssumption
<1>7. PICK r : r = [row[b] EXCEPT !.recDue = due, !.recLease = Nil, !.recError = error,
                                  !.inFlight = @ /\ error /\ ~spent]
  OBVIOUS
<1>8. /\ r \in DeliveryRows /\ r.generation = row[b].generation /\ r.outcome = row[b].outcome
      /\ r.recAttempts = row[b].recAttempts /\ r.state = "delivered" /\ r.recError = error
  BY Zenon, <1>2, <1>6, <1>7 DEF DeliveryRows, Nil
<1>9. row' = [row EXCEPT ![b] = r]
  BY Zenon, <1>2, <1>4, <1>5, <1>7 DEF DeliveryTypeOK
<1>10. /\ row' \in [Builds -> DeliveryRows] /\ row'[b] = r
       /\ \A c \in Builds \ {b} : row'[c] = row[c]
  BY Zenon, <1>2, <1>8, <1>9, RowSet DEF DeliveryTypeOK
<1>11. \A c \in Builds : c # b => row'[c] = row[c]
  BY <1>10
<1>12. SameRounds(b)
  <2>1. r.state # "none" /\ row[b].state # "none"
    BY Zenon, <1>2, <1>8
  <2> QED
    BY Zenon, <1>8, <1>10, <2>1 DEF SameRounds, SameOutcome
<1> QED
  BY Zenon, <1>1, <1>2, <1>3, <1>8, <1>10, <1>11, <1>12

(* The task of a settled observation ends. *)
LEMMA EndedKeeps ==
  ASSUME DeliveryInv, DeliveryTypeOK', NEW t \in Tasks, NEW b \in Builds, row[b].state = "delivered",
         UNCHANGED <<kind, shown, late, accepted, faults, lates>>,
         \A s \in Tasks : s # t => task'[s] = task[s], task'[t].phase = "idle",
         \A n \in Builds : ~Owes(t, n), SameRounds(b),
         \A n \in Builds : n # b => SameRounds(n) /\ NotSettled(n) /\ ClaimKept(n)
  PROVE  TasksAtWork' /\ ClaimsStand' /\ DeliveredWasAccepted' /\ Corrected'
<1>0. DeliveryTypeOK /\ TasksAtWork /\ ClaimsStand /\ DeliveredWasAccepted /\ Corrected
  BY Zenon DEF DeliveryInv
<1>1. \A n \in Builds : SameRounds(n) /\ SameOutcome(n) /\ (ClaimKept(n) \/ Unclaimed(n))
  BY Zenon DEF SameRounds, Unclaimed
<1>2. \A s \in Tasks : s # t =>
         /\ task'[s] = task[s] /\ SameErrand(s) /\ task'[s].phase = task[s].phase
         /\ task'[s].age = task[s].age /\ Delivers(s)' <=> Delivers(s)
  BY Zenon, OtherTask
<1>3. ~Delivers(t)'
  BY Zenon DEF Delivers, Unsettled
<1>4. accepted' = accepted /\ kind' = kind /\ shown' = shown /\ faults' = faults /\ late' = late
  BY Zenon
<1>5. TasksAtWork'
  <2>1. \A c \in Builds : SameOutcome(c) /\ row'[c].recAttempts >= row[c].recAttempts
    <3>1. \A c \in Builds : row[c].recAttempts >= row[c].recAttempts
      BY <1>0, RowTypes
    <3> QED
      BY Zenon, <1>1, <3>1 DEF SameRounds
  <2>2. \A s \in Tasks : task'[s].phase # "idle" => TaskAtWork(s)'
    BY Zenon, <1>0, <1>2, <1>4, <2>1, AtWorkStays DEF TasksAtWork
  <2>3. \A c \in Builds : row'[c].state # "none" => row'[c].outcome # "none" /\ row'[c].generation > 0
    BY Zenon, <1>0, <1>1, OutcomesNamed
  <2> QED
    BY Zenon, <2>2, <2>3 DEF TasksAtWork
<1>6. ClaimsStand'
  <2>1. \A s \in Tasks : Delivers(s)' => Delivers(s) /\ SameErrand(s) /\ task'[s].age = task[s].age
    BY Zenon, <1>2, <1>3
  <2> QED
    BY Zenon, <1>0, <1>1, <2>1, ClaimsKept DEF SameOutcome
<1>7. \A c \in Builds : row'[c].state = "delivered" =>
         row[c].state = "delivered" /\ row'[c].generation = row[c].generation
  BY Zenon, <1>1 DEF SameOutcome, NotSettled
<1>8. DeliveredWasAccepted'
  BY Zenon, <1>0, <1>4, <1>7, AcceptedKept
<1>9. Corrected'
  <2>1. \A n \in Builds, s \in Tasks :
            PostedFor(s, n) /\ PostedFor(s, n)' /\ row[n].repost => row'[n].repost
    BY Zenon, <1>0, <1>1, ClaimRuns DEF PostedFor, ClaimKept
  <2>2. \A s \in Tasks : task'[s].phase \in {"applied", "posted"} =>
            /\ SameErrand(s) /\ task[s].phase # "idle" /\ task[s].phase \in {"applied", "posted"}
    BY Zenon, <1>2
  <2>3. \A n \in Builds : \A s \in Tasks : Owes(s, n) => Owes(s, n)'
    BY Zenon, <1>1, <1>2, <1>4, OtherOwes
  <2> QED
    BY Zenon, <1>0, <1>1, <1>4, <1>7, <2>1, <2>2, <2>3, CorrectedKept
<1> QED
  BY Zenon, <1>5, <1>6, <1>8, <1>9

LEMMA ClaimNotificationKeeps ==
  ASSUME DeliveryInv, NEW t \in Tasks, NEW b \in Builds, ClaimNotification(t, b)
  PROVE  DeliveryInv'
<1>0. DeliveryTypeOK /\ TasksAtWork /\ ClaimsStand /\ DeliveredWasAccepted /\ Corrected /\ Observed
  BY Zenon DEF DeliveryInv
<1>1. /\ task[t].phase = "idle" /\ Due(b)
      /\ row' = [AbandonSpent EXCEPT ![b].attempts = @ + 1, ![b].wait = ClaimLease]
      /\ UNCHANGED <<kind, shown, late, accepted, faults, lates>>
  BY Zenon DEF ClaimNotification
<1>2. row[b].state = "pending" /\ row[b].wait = 0 /\ AbandonSpent[b] = row[b]
  BY Zenon, <1>0, <1>1, AbandonFacts DEF Due
<1>3. row[b] \in DeliveryRows /\ row[b].attempts \in Nat /\ ClaimLease \in Nat
  BY Zenon, <1>0, RowTypes, DeliveryAssumption
<1>4. row[b].attempts + 1 \in Nat
  BY <1>3
<1>5. PICK r : r = [row[b] EXCEPT !.attempts = row[b].attempts + 1, !.wait = ClaimLease]
  OBVIOUS
<1>6. /\ r \in DeliveryRows /\ r.generation = row[b].generation /\ r.outcome = row[b].outcome
      /\ r.recAttempts = row[b].recAttempts /\ r.state = "pending" /\ r.wait = ClaimLease
      /\ r.attempts = row[b].attempts + 1
  BY Zenon, <1>2, <1>3, <1>4, <1>5 DEF DeliveryRows
<1>7. /\ row'[b] = r /\ \A c \in Builds : c # b => row'[c] = AbandonSpent[c]
      /\ DOMAIN row' = Builds /\ row' = [c \in Builds |-> row'[c]]
  <2>1. DOMAIN AbandonSpent = Builds /\ AbandonSpent = [c \in Builds |-> AbandonSpent[c]]
    BY Zenon DEF AbandonSpent
  <2>2. PICK f : f = AbandonSpent
    OBVIOUS
  <2>3. row' = [f EXCEPT ![b].attempts = @ + 1, ![b].wait = ClaimLease]
    BY Zenon, <1>1, <2>2
  <2>4. row' = [f EXCEPT ![b] = r]
    <3>1. f[b] = row[b] /\ f = [c \in Builds |-> f[c]]
      BY Zenon, <1>2, <2>1, <2>2
    <3> QED
      BY Zenon, <1>5, <2>3, <3>1
  <2> QED
    BY Zenon, <2>1, <2>2, <2>4
<1>8. row' \in [Builds -> DeliveryRows]
  <2>1. \A c \in Builds : row'[c] \in DeliveryRows
    BY Zenon, <1>0, <1>6, <1>7, AbandonFacts
  <2> QED
    BY Zenon, <1>7, <2>1
<1>9. PICK w : w = [IdleTask EXCEPT !.phase = "claimed", !.build = b, !.generation = row[b].generation,
                                    !.outcome = row[b].outcome, !.attempts = row[b].attempts + 1]
  OBVIOUS
<1>10. row[b].generation \in Nat /\ row[b].outcome \in BuildOutcomes \cup {"none"}
  BY Zenon, <1>0, RowTypes
<1>11. /\ w \in TaskWork /\ w.phase = "claimed" /\ w.job = "deliver" /\ w.build = b
       /\ w.generation = row[b].generation /\ w.outcome = row[b].outcome
       /\ w.attempts = row[b].attempts + 1 /\ w.age = 0
  BY Zenon, <1>4, <1>9, <1>10 DEF IdleTask, TaskWork, TaskPhases, Nil
<1>12. task' = [task EXCEPT ![t] = w]
  BY Zenon, <1>9 DEF ClaimNotification
<1>13. /\ task' \in [Tasks -> TaskWork] /\ task'[t] = w
       /\ \A s \in Tasks \ {t} : task'[s] = task[s]
  BY Zenon, <1>0, <1>11, <1>12, TaskSet DEF DeliveryTypeOK
<1>14. DeliveryTypeOK'
  BY <1>0, <1>1, <1>8, <1>13 DEF DeliveryTypeOK
<1>15. \A c \in Builds : QuietRow(c) /\ SameOutcome(c) /\ (c # b => ClaimKept(c) \/ Unclaimed(c)) /\ Unclaimed(b)
  <2>1. QuietRow(b) /\ Unclaimed(b)
    BY Zenon, <1>2, <1>6, <1>7 DEF QuietRow, SameRounds, SameOutcome, NotSettled, Unclaimed
  <2>2. \A c \in Builds : c # b => QuietRow(c)
    BY Zenon, <1>0, <1>7, AbandonedIsQuiet
  <2> QED
    BY Zenon, <2>1, <2>2 DEF QuietRow, SameRounds
<1>16. \A s \in Tasks : s # t =>
         /\ task'[s] = task[s] /\ SameErrand(s) /\ task'[s].phase = task[s].phase
         /\ task'[s].left = task[s].left /\ task'[s].age = task[s].age /\ Delivers(s)' <=> Delivers(s)
  <2>1. \A s \in Tasks : s # t => task'[s] = task[s]
    BY <1>13
  <2> QED
    BY Zenon, <2>1, OtherTask
<1>17. /\ task'[t].phase = "claimed" /\ task'[t].job = "deliver" /\ task'[t].build = b
       /\ task'[t].generation = row[b].generation /\ task'[t].outcome = row[b].outcome
       /\ task'[t].attempts = row[b].attempts + 1 /\ task'[t].age = 0
       /\ row'[b].generation = row[b].generation /\ row'[b].outcome = row[b].outcome
       /\ row'[b].state = "pending" /\ row'[b].wait = ClaimLease
       /\ row'[b].attempts = row[b].attempts + 1
  BY Zenon, <1>6, <1>7, <1>11, <1>13
<1>18. TasksAtWork'
  <2>1. \A c \in Builds : SameOutcome(c) /\ row'[c].recAttempts >= row[c].recAttempts
    <3>1. \A c \in Builds : row[c].recAttempts >= row[c].recAttempts
      BY <1>0, RowTypes
    <3> QED
      BY Zenon, <1>15, <3>1 DEF QuietRow, SameRounds
  <2>2. \A s \in Tasks : s # t /\ task'[s].phase # "idle" => TaskAtWork(s)'
    BY Zenon, <1>0, <1>1, <1>14, <1>16, <2>1, AtWorkStays DEF TasksAtWork
  <2>3. \A c \in Builds : row'[c].state # "none" => row'[c].outcome # "none" /\ row'[c].generation > 0
    BY Zenon, <1>0, <1>14, <1>15, OutcomesNamed
  <2>4. TaskAtWork(t)'
    <3>1. row[b].generation <= row[b].generation /\ 0 < ClaimLease
      BY <1>10, DeliveryAssumption
    <3>2. row'[b].outcome # "none"
      BY Zenon, <1>17, <2>3
    <3> QED
      BY Zenon, <1>17, <3>1, <3>2 DEF TaskAtWork, IsCurrent, Requesting
  <2> QED
    BY Zenon, <2>2, <2>3, <2>4 DEF TasksAtWork
<1>19. ClaimsStand'
  <2>1. ASSUME NEW s \in Tasks, s # t, Delivers(s)', IsCurrent(s)'
        PROVE  /\ HoldsDelivery(s)' /\ row'[task'[s].build].wait = ClaimLease - task'[s].age
               /\ task[s].build # b
    <3>0. PICK c : c = task[s].build
      OBVIOUS
    <3>1. Delivers(s) /\ task'[s] = task[s]
      BY Zenon, <1>16, <2>1
    <3>2. c \in Builds
      BY Zenon, <1>0, <3>0, <3>1 DEF TasksAtWork, TaskAtWork, Delivers, Unsettled
    <3>3. IsCurrent(s) /\ task[s].generation = row[c].generation /\ row'[c].generation = row[c].generation
      BY Zenon, <1>15, <2>1, <3>0, <3>1, <3>2 DEF IsCurrent, SameOutcome
    <3>4. /\ row[c].state = "pending" /\ row[c].attempts = task[s].attempts
          /\ row[c].wait = ClaimLease - task[s].age /\ ~Unclaimed(c)
      BY Zenon, <1>0, <3>0, <3>1, <3>3, ClaimRuns
    <3>5. c # b /\ ClaimKept(c)
      BY Zenon, <1>15, <3>2, <3>4
    <3> QED
      BY Zenon, <3>0, <3>1, <3>3, <3>4, <3>5 DEF ClaimKept, HoldsDelivery
  <2>2. HoldsDelivery(t)' /\ row'[task'[t].build].wait = ClaimLease - task'[t].age
    <3>1. ClaimLease = ClaimLease - 0
      BY <1>3
    <3> QED
      BY Zenon, <1>17, <3>1 DEF HoldsDelivery
  <2>3. ASSUME NEW s \in Tasks, s # t, Delivers(s)', task'[s].build = b,
               task'[s].generation = row[b].generation
        PROVE  FALSE
    <3>1. IsCurrent(s)' /\ task[s].build = b
      BY Zenon, <1>16, <1>17, <2>3 DEF IsCurrent
    <3> QED
      BY Zenon, <2>1, <2>3, <3>1
  <2>4. ASSUME NEW s \in Tasks, NEW u \in Tasks, s # t, u # t, Delivers(s)', Delivers(u)',
               task'[s].build = task'[u].build, task'[s].generation = task'[u].generation
        PROVE  s = u
    <3>1. task'[s] = task[s] /\ task'[u] = task[u] /\ Delivers(s) /\ Delivers(u)
      BY Zenon, <1>16, <2>4
    <3> QED
      BY Zenon, <1>0, <2>4, <3>1 DEF ClaimsStand
  <2>5. ASSUME NEW s \in Tasks, NEW u \in Tasks, Delivers(s)', Delivers(u)',
               task'[s].build = task'[u].build, task'[s].generation = task'[u].generation
        PROVE  s = u
    <3>1. CASE s = t /\ u # t
      BY Zenon, <1>17, <2>3, <2>5, <3>1
    <3>2. CASE u = t /\ s # t
      BY Zenon, <1>17, <2>3, <2>5, <3>2
    <3> QED
      BY Zenon, <2>4, <2>5, <3>1, <3>2
  <2> QED
    BY Zenon, <2>1, <2>2, <2>5 DEF ClaimsStand
<1>20. kind' = kind /\ shown' = shown /\ late' = late /\ accepted' = accepted /\ faults' = faults /\ lates' = lates
  BY Zenon, <1>1
<1>21. \A c \in Builds : row'[c].state = "delivered" =>
         row[c].state = "delivered" /\ row'[c].generation = row[c].generation
  BY Zenon, <1>15 DEF QuietRow, SameOutcome, NotSettled
<1>22. DeliveredWasAccepted'
  BY Zenon, <1>0, <1>20, <1>21, AcceptedKept
<1>23. Corrected'
  <2>1. \A n \in Builds, s \in Tasks :
            PostedFor(s, n) /\ PostedFor(s, n)' /\ row[n].repost => row'[n].repost
    BY Zenon, <1>0, <1>15, ClaimRuns DEF PostedFor, ClaimKept
  <2>2. \A s \in Tasks : task'[s].phase \in {"applied", "posted"} =>
            /\ SameErrand(s) /\ task[s].phase # "idle" /\ task[s].phase \in {"applied", "posted"}
    BY Zenon, <1>16, <1>17
  <2>3. \A n \in Builds : ~Owes(t, n)
    BY Zenon, <1>1 DEF Owes
  <2>4. \A n \in Builds : \A s \in Tasks : Owes(s, n) => Owes(s, n)'
    BY Zenon, <1>15, <1>16, <1>20, <2>3, OtherOwes
  <2> QED
    BY Zenon, <1>0, <1>14, <1>15, <1>20, <1>21, <2>1, <2>2, <2>4, CorrectedKept
<1>24. Observed'
  <2>1. \A s \in Tasks : task'[s].phase \in HasSeen =>
            SameErrand(s) /\ task[s].phase # "idle" /\ task[s].phase \in HasSeen
    BY Zenon, <1>16, <1>17 DEF HasSeen
  <2>2. \A s \in Tasks : task'[s].phase \in MayWrite =>
            SameErrand(s) /\ task[s].phase \in MayWrite /\ task'[s].left = task[s].left
    BY Zenon, <1>16, <1>17 DEF MayWrite
  <2> QED
    BY Zenon, <1>0, <1>14, <1>15, <1>20, <2>1, <2>2, ObservedKept DEF QuietRow
<1> QED
  BY Zenon, <1>14, <1>18, <1>19, <1>22, <1>23, <1>24 DEF DeliveryInv

(* An observation is due only once no post of an earlier outcome can be out. *)
LEMMA ClaimReconciliationKeeps ==
  ASSUME DeliveryInv, NEW t \in Tasks, NEW b \in Builds, ClaimReconciliation(t, b)
  PROVE  DeliveryInv'
<1>0. DeliveryTypeOK /\ TasksAtWork /\ ClaimsStand /\ DeliveredWasAccepted /\ Corrected /\ Observed
  BY Zenon DEF DeliveryInv
<1>1. /\ task[t].phase = "idle" /\ ReconciliationDue(b)
      /\ row' = [RetireSpentReconciliations EXCEPT ![b].recAttempts = @ + 1, ![b].recLease = ClaimLease]
      /\ UNCHANGED <<kind, shown, late, accepted, faults, lates>>
  BY Zenon DEF ClaimReconciliation
<1>2. /\ row[b].state = "delivered" /\ IsStatus(b) /\ row[b].recDue = 0
      /\ RetireSpentReconciliations[b] = row[b]
  BY Zenon, <1>0, <1>1, RetireFacts DEF ReconciliationDue
<1>3. row[b] \in DeliveryRows /\ row[b].recAttempts \in Nat /\ ClaimLease \in Nat /\ ClaimLease # Nil
  BY <1>0, RowTypes, DeliveryAssumption DEF Nil
<1>4. row[b].recAttempts + 1 \in Nat /\ row[b].recAttempts + 1 > 0
      /\ row[b].recAttempts + 1 >= row[b].recAttempts
  BY <1>3
<1>5. PICK r : r = [row[b] EXCEPT !.recAttempts = row[b].recAttempts + 1, !.recLease = ClaimLease]
  OBVIOUS
<1>6. /\ r \in DeliveryRows /\ r.generation = row[b].generation /\ r.outcome = row[b].outcome
      /\ r.recAttempts = row[b].recAttempts + 1 /\ r.state = "delivered" /\ r.recLease = ClaimLease
      /\ r.recDue = row[b].recDue
  BY Zenon, <1>2, <1>3, <1>4, <1>5 DEF DeliveryRows
<1>7. /\ row'[b] = r /\ \A c \in Builds : c # b => row'[c] = RetireSpentReconciliations[c]
      /\ DOMAIN row' = Builds /\ row' = [c \in Builds |-> row'[c]]
  <2>1. /\ DOMAIN RetireSpentReconciliations = Builds
        /\ RetireSpentReconciliations = [c \in Builds |-> RetireSpentReconciliations[c]]
    BY Zenon DEF RetireSpentReconciliations
  <2>2. PICK f : f = RetireSpentReconciliations
    OBVIOUS
  <2>3. row' = [f EXCEPT ![b].recAttempts = @ + 1, ![b].recLease = ClaimLease]
    BY Zenon, <1>1, <2>2
  <2>4. row' = [f EXCEPT ![b] = r]
    <3>1. f[b] = row[b] /\ f = [c \in Builds |-> f[c]]
      BY Zenon, <1>2, <2>1, <2>2
    <3> QED
      BY <1>5, <2>3, <3>1, Zenon
  <2> QED
    BY Zenon, <2>1, <2>2, <2>4
<1>8. row' \in [Builds -> DeliveryRows]
  <2>1. \A c \in Builds : row'[c] \in DeliveryRows
    BY Zenon, <1>0, <1>6, <1>7, RetireFacts
  <2> QED
    BY Zenon, <1>7, <2>1
<1>9. PICK w : w = [IdleTask EXCEPT !.phase = "claimed", !.job = "reconcile", !.build = b,
                                    !.generation = row[b].generation,
                                    !.outcome = row[b].outcome, !.attempts = row[b].recAttempts + 1]
  OBVIOUS
<1>10. row[b].generation \in Nat /\ row[b].outcome \in BuildOutcomes \cup {"none"}
  BY Zenon, <1>0, RowTypes
<1>11. /\ w \in TaskWork /\ w.phase = "claimed" /\ w.job = "reconcile" /\ w.build = b
       /\ w.generation = row[b].generation /\ w.outcome = row[b].outcome /\ w.age = 0
  BY Zenon, <1>4, <1>9, <1>10 DEF IdleTask, TaskWork, TaskPhases, Nil
<1>12. task' = [task EXCEPT ![t] = w]
  BY Zenon, <1>9 DEF ClaimReconciliation
<1>13. /\ task' \in [Tasks -> TaskWork] /\ task'[t] = w
       /\ \A s \in Tasks \ {t} : task'[s] = task[s]
  BY Zenon, <1>0, <1>11, <1>12, TaskSet DEF DeliveryTypeOK
<1>14. DeliveryTypeOK'
  BY <1>0, <1>1, <1>8, <1>13 DEF DeliveryTypeOK
<1>15. /\ \A c \in Builds : SameOutcome(c) /\ (ClaimKept(c) \/ Unclaimed(c))
       /\ \A c \in Builds : row'[c].recAttempts >= row[c].recAttempts
       /\ \A c \in Builds : c # b => SameRounds(c) /\ NotSettled(c)
       /\ \A c \in Builds : row'[c].state = "delivered" => row[c].state = "delivered"
  <2>1. SameOutcome(b) /\ Unclaimed(b) /\ row'[b].recAttempts >= row[b].recAttempts
    BY Zenon, <1>2, <1>4, <1>6, <1>7 DEF SameOutcome, Unclaimed
  <2>2. \A c \in Builds : c # b => QuietRow(c)
    BY Zenon, <1>0, <1>7, RetiredIsQuiet
  <2>3. \A c \in Builds : row[c].recAttempts >= row[c].recAttempts
    BY <1>0, RowTypes
  <2> QED
    BY Zenon, <1>2, <2>1, <2>2, <2>3 DEF QuietRow, SameRounds, NotSettled
<1>16. \A s \in Tasks : s # t =>
         /\ task'[s] = task[s] /\ SameErrand(s) /\ task'[s].phase = task[s].phase
         /\ task'[s].left = task[s].left /\ task'[s].age = task[s].age /\ Delivers(s)' <=> Delivers(s)
  <2>1. \A s \in Tasks : s # t => task'[s] = task[s]
    BY <1>13
  <2> QED
    BY Zenon, <2>1, OtherTask
<1>17. /\ task'[t].phase = "claimed" /\ task'[t].job = "reconcile" /\ task'[t].build = b
       /\ task'[t].generation = row[b].generation /\ task'[t].outcome = row[b].outcome
       /\ task'[t].age = 0
       /\ row'[b].generation = row[b].generation /\ row'[b].outcome = row[b].outcome
       /\ row'[b].state = "delivered" /\ row'[b].recAttempts > 0 /\ row'[b].recLease # Nil
  BY Zenon, <1>3, <1>4, <1>6, <1>7, <1>11, <1>13
<1>18. kind' = kind /\ shown' = shown /\ late' = late /\ accepted' = accepted /\ faults' = faults /\ lates' = lates
  BY Zenon, <1>1
<1>19. TasksAtWork'
  <2>2. \A s \in Tasks : s # t /\ task'[s].phase # "idle" => TaskAtWork(s)'
    BY Zenon, <1>0, <1>14, <1>15, <1>16, <1>18, AtWorkStays DEF TasksAtWork
  <2>3. \A c \in Builds : row'[c].state # "none" => row'[c].outcome # "none" /\ row'[c].generation > 0
    BY Zenon, <1>0, <1>14, <1>15, OutcomesNamed
  <2>4. TaskAtWork(t)'
    <3>1. row[b].generation <= row[b].generation /\ 0 < ClaimLease
      BY <1>10, DeliveryAssumption
    <3>2. row'[b].outcome # "none" /\ IsStatus(b)'
      BY Zenon, <1>2, <1>17, <1>18, <2>3 DEF IsStatus
    <3> QED
      BY Zenon, <1>17, <3>1, <3>2 DEF TaskAtWork, IsCurrent, Requesting
  <2> QED
    BY Zenon, <2>2, <2>3, <2>4 DEF TasksAtWork
<1>20. ClaimsStand'
  <2>1. ~Delivers(t)'
    BY Zenon, <1>17 DEF Delivers
  <2>2. \A c \in Builds : row'[c].generation = row[c].generation
    BY Zenon, <1>15 DEF SameOutcome
  <2> QED
    BY Zenon, <1>0, <1>14, <1>15, <1>16, <2>1, <2>2, ClaimsKept
<1>22. DeliveredWasAccepted'
  <2>1. \A c \in Builds : row'[c].generation = row[c].generation
    BY Zenon, <1>15 DEF SameOutcome
  <2> QED
    BY Zenon, <1>0, <1>15, <1>18, <2>1, AcceptedKept
<1>23. Corrected'
  <2>1. \A n \in Builds, s \in Tasks :
            PostedFor(s, n) /\ PostedFor(s, n)' /\ row[n].repost => row'[n].repost
    BY Zenon, <1>0, <1>15, ClaimRuns DEF PostedFor, ClaimKept
  <2>2. \A s \in Tasks : task'[s].phase \in {"applied", "posted"} =>
            /\ SameErrand(s) /\ task[s].phase # "idle" /\ task[s].phase \in {"applied", "posted"}
    BY Zenon, <1>16, <1>17
  <2>3. \A n \in Builds : ~Owes(t, n)
    BY Zenon, <1>1 DEF Owes
  <2>4. \A n \in Builds : \A s \in Tasks : Owes(s, n) => Owes(s, n)'
    BY Zenon, <1>15, <1>16, <1>18, <2>3, OtherOwes
  <2> QED
    BY Zenon, <1>0, <1>14, <1>15, <1>18, <2>1, <2>2, <2>4, CorrectedKept
<1>24. Observed'
  <2>1. \A s \in Tasks : task'[s].phase \in HasSeen =>
            s # t /\ SameErrand(s) /\ task[s].phase # "idle" /\ task[s].phase \in HasSeen
    BY Zenon, <1>16, <1>17 DEF HasSeen
  <2>2. \A s \in Tasks : task'[s].phase \in MayWrite =>
            s # t /\ SameErrand(s) /\ task[s].phase \in MayWrite /\ task'[s].left = task[s].left
    BY Zenon, <1>16, <1>17 DEF MayWrite
  <2>3. SUFFICES ASSUME lates = 0, NEW n \in Builds, IsNewest(n)'
                 PROVE  OutlivesStale(n)' /\ SeenStands(n)'
    BY Zenon, <1>0, <1>18 DEF Observed
  <2>4. IsNewest(n) /\ OutlivesStale(n) /\ SeenStands(n)
    <3>1. ~Renewed(n)
      <4>1. row'[n].generation = row[n].generation /\ row[n].generation \in Nat
        BY Zenon, <1>0, <1>15, RowTypes DEF SameOutcome
      <4> QED
        BY <4>1 DEF Renewed
    <3>2. IsNewest(n)
      BY Zenon, <1>15, <1>18, <2>3, <3>1, StatusRowsGrow
    <3> QED
      BY Zenon, <1>0, <2>3, <3>2 DEF Observed
  <2>5. CASE n # b
    BY Zenon, <1>0, <1>14, <1>15, <1>18, <2>1, <2>2, <2>3, <2>4, <2>5, ObservedAtKept
  <2>6. CASE n = b
    <3>1. ASSUME NEW s \in Tasks, IsStale(s, b)', task'[s].phase \in MayWrite
          PROVE  FALSE
      <4>1. s # t /\ task[s].phase \in MayWrite /\ task'[s] = task[s]
        BY Zenon, <1>16, <2>2, <3>1
      <4>2. IsStale(s, b)
        BY Zenon, <1>15, <1>18, <3>1, <4>1, OtherOwes
      <4>3. row[b].recDue # Nil
        BY <1>2 DEF Nil
      <4>4. row[b].recDue > task[s].left /\ task[s].left \in Nat
        BY Zenon, <1>0, <1>2, <2>4, <2>6, <4>1, <4>2, <4>3, TaskTypes DEF OutlivesStale
      <4> QED
        BY <1>2, <4>4
    <3>2. ASSUME NEW s \in Tasks, task'[s].phase \in HasSeen, task'[s].build = b, IsCurrent(s)'
          PROVE  Shows(b)'
      <4>1. task'[s] = task[s] /\ task[s].phase \in HasSeen /\ task[s].phase # "idle"
        BY Zenon, <1>16, <2>1, <3>2
      <4>2. task[s].build = b /\ IsCurrent(s)
        BY Zenon, <1>17, <3>2, <4>1 DEF IsCurrent
      <4>3. ~Delivers(s)
        BY Zenon, <1>0, <1>2, <4>2, ClaimRuns
      <4>4. task[s].job = "reconcile"
        <5>1. task[s].job \in {"deliver", "reconcile"}
          BY Zenon, <1>0, TaskTypes
        <5>2. task[s].phase = "matched" => task[s].job = "reconcile"
          BY Zenon, <1>0, <4>1 DEF TasksAtWork, TaskAtWork
        <5> QED
          BY Zenon, <4>1, <4>3, <5>1, <5>2 DEF Delivers, HasSeen, Unsettled
      <4>5. row[b].recAttempts > 0
        BY Zenon, <1>0, <4>1, <4>2, <4>4 DEF TasksAtWork, TaskAtWork
      <4>6. Shows(b)
        BY Zenon, <2>4, <2>6, <4>1, <4>2, <4>5 DEF SeenStands
      <4> QED
        BY Zenon, <1>17, <1>18, <4>6 DEF Shows
    <3> QED
      BY Zenon, <1>17, <2>6, <3>1, <3>2 DEF OutlivesStale, SeenStands
  <2> QED
    BY Zenon, <2>5, <2>6
<1> QED
  BY Zenon, <1>14, <1>19, <1>20, <1>22, <1>23, <1>24 DEF DeliveryInv

(* A post to the commit status is about the newest outcome, or stale. *)
LEMMA NewestOrStale ==
  ASSUME DeliveryTypeOK, TasksAtWork, NEW n \in Builds, IsNewest(n),
         NEW t \in Tasks, task[t].phase # "idle", IsStatus(task[t].build)
  PROVE  IsStale(t, n) \/ (task[t].build = n /\ IsCurrent(t) /\ task[t].outcome = row[n].outcome)
<1>1. TaskAtWork(t)
  BY Zenon DEF TasksAtWork
<1>2. /\ task[t].build \in Builds /\ row[task[t].build].state # "none"
      /\ task[t].generation <= row[task[t].build].generation
      /\ IsCurrent(t) => task[t].outcome = row[task[t].build].outcome
  BY Zenon, <1>1 DEF TaskAtWork
<1>3. task[t].build <= n
  BY Zenon, <1>2 DEF IsNewest, StatusRows
<1>4. task[t].build \in Nat /\ n \in Nat /\ task[t].generation \in Nat /\ row[n].generation \in Nat
  <2>1. \A b \in Builds : b \in Nat
    BY DeliveryAssumption
  <2> QED
    BY Zenon, <1>2, <2>1, RowTypes, TaskTypes
<1>5. CASE task[t].build < n
  BY Zenon, <1>5 DEF IsStale
<1>6. CASE task[t].build = n
  <2>1. task[t].generation < row[n].generation \/ task[t].generation = row[n].generation
    BY <1>2, <1>4, <1>6
  <2> QED
    BY Zenon, <1>2, <1>6, <2>1 DEF IsStale, IsCurrent
<1> QED
  BY <1>3, <1>4, <1>5, <1>6

(* A write of an older outcome is owed a correction; without late writes it *)
(* comes before the newest outcome is observed.                             *)
LEMMA ApplyKeeps ==
  ASSUME DeliveryInv, NEW t \in Tasks, Apply(t)
  PROVE  DeliveryInv'
<1>0. DeliveryTypeOK /\ TasksAtWork /\ ClaimsStand /\ DeliveredWasAccepted /\ Corrected /\ Observed
  BY Zenon DEF DeliveryInv
<1>1. /\ task[t].phase = "sending" /\ TaskGoes(t, "applied")
      /\ IsStatus(task[t].build) => shown' = Content(t)
      /\ ~IsStatus(task[t].build) => shown' = shown
      /\ kind' = kind /\ row' = row /\ late' = late /\ accepted' = accepted
      /\ faults' = faults /\ lates' = lates
  BY Zenon DEF Apply
<1>2. /\ task' \in [Tasks -> TaskWork] /\ \A s \in Tasks \ {t} : task'[s] = task[s]
      /\ SameErrand(t) /\ task'[t].phase = "applied" /\ task'[t].age = task[t].age
      /\ task'[t].left = task[t].left
  BY <1>0, <1>1, GoesFacts DEF DeliveryTypeOK, TaskPhases, Requesting
<1>3. TaskAtWork(t)
  BY Zenon, <1>0, <1>1 DEF TasksAtWork
<1>4. DeliveryTypeOK'
  <2>1. shown' \in StatusWrites \cup {NoWrite}
    BY Zenon, <1>0, <1>1, ContentIsWrite DEF DeliveryTypeOK
  <2> QED
    BY <1>0, <1>1, <1>2, <2>1 DEF DeliveryTypeOK
<1>5. \A s \in Tasks : s # t =>
         /\ task'[s] = task[s] /\ SameErrand(s) /\ task'[s].phase = task[s].phase
         /\ task'[s].left = task[s].left /\ task'[s].age = task[s].age /\ Delivers(s)' <=> Delivers(s)
  <2>1. \A s \in Tasks : s # t => task'[s] = task[s]
    BY <1>2
  <2> QED
    BY Zenon, <2>1, OtherTask
<1>6. \A b \in Builds : /\ SameRounds(b) /\ NotSettled(b) /\ ClaimKept(b) /\ SameOutcome(b)
                        /\ row'[b].recAttempts >= row[b].recAttempts
  BY Zenon, <1>0, <1>1, SameRows
<1>7. task'[t].build = task[t].build /\ task'[t].generation = task[t].generation
      /\ task'[t].outcome = task[t].outcome /\ task'[t].job = task[t].job
  BY Zenon, <1>2 DEF SameErrand
<1>8. \A n \in Builds : (IsNewest(n)' <=> IsNewest(n)) /\ (IsStale(t, n) => Owes(t, n)')
  BY Zenon, <1>1, <1>2, <1>7 DEF IsNewest, StatusRows, IsStatus, Owes, IsStale
<1>9. ASSUME NEW n \in Builds, IsNewest(n), IsStatus(task[t].build), ~IsStale(t, n)
      PROVE  Shows(n)'
  <2>1. task[t].build = n /\ task[t].outcome = row[n].outcome
    BY Zenon, <1>0, <1>1, <1>9, NewestOrStale
  <2> QED
    BY Zenon, <1>1, <1>9, <2>1 DEF Shows, Content
<1>10. TasksAtWork'
  <2>1. \A s \in Tasks : s # t /\ task'[s].phase # "idle" => TaskAtWork(s)'
    BY Zenon, <1>0, <1>1, <1>4, <1>5, <1>6, AtWorkStays DEF TasksAtWork
  <2>2. \A c \in Builds : row'[c].state # "none" => row'[c].outcome # "none" /\ row'[c].generation > 0
    BY Zenon, <1>0, <1>4, <1>6, OutcomesNamed
  <2>3. task'[t].age < ClaimLease /\ task'[t].left <= Deadline
    BY Zenon, <1>1, <1>2, <1>3 DEF TaskAtWork, Requesting
  <2>4. TaskAtWork(t)'
    BY Zenon, <1>0, <1>1, <1>2, <1>3, <1>4, <1>6, <2>3, AtWorkGoesOn
  <2> QED
    BY Zenon, <2>1, <2>2, <2>4 DEF TasksAtWork
<1>11. ClaimsStand'
  <2>1. Delivers(t)' => Delivers(t)
    BY Zenon, <1>1, <1>7 DEF Delivers, Unsettled
  <2>2. \A c \in Builds : row'[c].generation = row[c].generation
    BY Zenon, <1>1
  <2> QED
    BY Zenon, <1>0, <1>2, <1>4, <1>5, <1>6, <2>1, <2>2, ClaimsKept
<1>12. DeliveredWasAccepted'
  BY Zenon, <1>0, <1>1 DEF DeliveredWasAccepted
<1>13. Corrected'
  <2>1. IsStatus(task[t].build) => \A n \in Builds : IsNewest(n)' => Stands(n)'
    BY Zenon, <1>8, <1>9 DEF Stands
  <2>2. \A s \in Tasks : task'[s].phase \in {"applied", "posted"} =>
            /\ SameErrand(s) /\ task[s].phase # "idle"
            /\ \/ task[s].phase \in {"applied", "posted"}
               \/ IsStatus(task[s].build) => \A n \in Builds : IsNewest(n)' /\ SameOutcome(n) => Stands(n)'
    BY Zenon, <1>1, <1>2, <1>5, <2>1
  <2>3. ~IsStatus(task[t].build) => shown' = shown /\ \A n \in Builds, s \in Tasks : Owes(s, n) => Owes(s, n)'
    <3>1. \A n \in Builds : Owes(t, n) => IsStatus(task[t].build)
      BY Zenon DEF Owes, IsStale
    <3> QED
      BY Zenon, <1>1, <1>5, <1>6, <3>1, OtherOwes
  <2>4. \A n \in Builds : faults' = 0 /\ IsNewest(n) /\ IsNewest(n)' /\ SameOutcome(n) =>
            \/ Again(n) \/ Stands(n)'
            \/ shown' = shown /\ \A s \in Tasks : Owes(s, n) => Owes(s, n)'
    BY Zenon, <2>1, <2>3
  <2>5. \A n \in Builds, s \in Tasks :
            PostedFor(s, n) /\ PostedFor(s, n)' /\ row[n].repost => row'[n].repost
    BY Zenon, <1>1
  <2>6. \A b \in Builds : row'[b].state = "delivered" => row[b].state = "delivered"
    BY Zenon, <1>1
  <2> QED
    BY Zenon, <1>0, <1>1, <1>4, <1>6, <2>2, <2>4, <2>5, <2>6, CorrectedKept
<1>14. Observed'
  <2>1. SUFFICES ASSUME lates = 0, NEW n \in Builds, IsNewest(n)
                 PROVE  OutlivesStale(n)' /\ SeenStands(n)'
    BY Zenon, <1>0, <1>1, <1>8 DEF Observed
  <2>2. OutlivesStale(n) /\ SeenStands(n) /\ IsStatus(n)
    BY Zenon, <1>0, <2>1 DEF Observed, IsNewest, StatusRows
  <2>3. OutlivesStale(n)'
    <3>1. ASSUME NEW s \in Tasks, IsStale(s, n)', task'[s].phase \in MayWrite
          PROVE  task'[s] = task[s] /\ IsStale(s, n) /\ task[s].phase \in MayWrite
      <4>1. s # t /\ task'[s] = task[s]
        BY Zenon, <1>2, <1>5, <3>1 DEF MayWrite
      <4> QED
        BY Zenon, <1>1, <1>6, <3>1, <4>1, OtherOwes
    <3> QED
      BY Zenon, <1>1, <2>2, <3>1 DEF OutlivesStale
  <2>4. SUFFICES ASSUME row[n].recAttempts > 0
                 PROVE  SeenStands(n)'
    BY Zenon, <1>1, <2>3 DEF SeenStands
  <2>5. CASE IsStatus(task[t].build)
    <3>1. ~IsStale(t, n)
      <4>1. row[n].recAttempts # 0
        BY <2>4
      <4> QED
        BY Zenon, <1>1, <2>2, <4>1 DEF OutlivesStale, MayWrite
    <3> QED
      BY Zenon, <1>9, <2>1, <2>5, <3>1 DEF SeenStands
  <2>6. CASE ~IsStatus(task[t].build)
    <3>1. shown' = shown /\ task[t].build # n
      BY Zenon, <1>1, <2>2, <2>6
    <3>2. ASSUME NEW s \in Tasks, task'[s].phase \in HasSeen, task'[s].build = n, IsCurrent(s)'
          PROVE  Shows(n)
      <4>1. s # t /\ task'[s] = task[s]
        BY Zenon, <1>5, <1>7, <3>1, <3>2
      <4> QED
        BY Zenon, <1>1, <2>2, <2>4, <3>2, <4>1 DEF SeenStands, IsCurrent
    <3>3. Shows(n)' <=> Shows(n)
      BY Zenon, <1>1, <3>1 DEF Shows
    <3> QED
      BY Zenon, <1>1, <2>2, <2>4, <3>2, <3>3 DEF SeenStands
  <2> QED
    BY Zenon, <2>5, <2>6
<1> QED
  BY Zenon, <1>4, <1>10, <1>11, <1>12, <1>13, <1>14 DEF DeliveryInv

(* Only a lost answer leaves a body behind. *)
LEMMA ApplyLateKeeps ==
  ASSUME DeliveryInv, NEW w \in StatusWrites, ApplyLate(w)
  PROVE  DeliveryInv'
<1>0. DeliveryTypeOK /\ TasksAtWork /\ ClaimsStand /\ DeliveredWasAccepted /\ Corrected /\ Observed
  BY Zenon DEF DeliveryInv
<1>1. /\ w \in late /\ shown' = w /\ late' = late \ {w} /\ kind' = kind /\ row' = row /\ task' = task
      /\ accepted' = accepted /\ faults' = faults /\ lates' = lates
  BY Zenon DEF ApplyLate
<1>2. DeliveryTypeOK'
  BY <1>0, <1>1 DEF DeliveryTypeOK
<1>3. faults # 0 /\ lates # 0
  BY <1>0, <1>1 DEF Corrected, Observed
<1>4. TasksAtWork' /\ ClaimsStand' /\ DeliveredWasAccepted'
  BY Zenon, <1>0, <1>1 DEF TasksAtWork, TaskAtWork, IsCurrent, IsStatus, LaterRows, StatusRows,
     ClaimsStand, Delivers, HoldsDelivery, DeliveredWasAccepted
<1>5. Corrected' /\ Observed'
  BY Zenon, <1>1, <1>3 DEF Corrected, Observed
<1> QED
  BY Zenon, <1>2, <1>4, <1>5 DEF DeliveryInv

(* What a moment does to a row and to a task. *)
LEMMA LessFacts ==
  ASSUME NEW n \in Nat \cup {Nil}
  PROVE  /\ Less(n) \in Nat \cup {Nil} /\ (Less(n) = Nil <=> n = Nil)
         /\ n \in Nat => Less(n) \in Nat /\ Less(n) <= n
         /\ n > 0 => Less(n) = n - 1
BY DEF Less, Nil

LEMMA TickFacts ==
  ASSUME DeliveryTypeOK, DeliveryTick
  PROVE  /\ row' \in [Builds -> DeliveryRows] /\ task' \in [Tasks -> TaskWork]
         /\ \A b \in Builds :
               /\ row'[b].generation = row[b].generation /\ row'[b].outcome = row[b].outcome
               /\ row'[b].state = row[b].state /\ row'[b].attempts = row[b].attempts
               /\ row'[b].repost = row[b].repost /\ row'[b].recAttempts = row[b].recAttempts
               /\ row'[b].recError = row[b].recError
               /\ row'[b].wait = Less(row[b].wait) /\ row'[b].recDue = Less(row[b].recDue)
               /\ row'[b].recLease = Less(row[b].recLease)
         /\ \A t \in Tasks :
               /\ SameErrand(t) /\ task'[t].phase = task[t].phase /\ task'[t].holder = task[t].holder
               /\ task'[t].left = Less(task[t].left)
               /\ task[t].phase # "idle" => task'[t].age = task[t].age + 1
<1>1. /\ row' = [b \in Builds |-> [row[b] EXCEPT !.wait = Less(@), !.recDue = Less(@), !.recLease = Less(@)]]
      /\ task' = [t \in Tasks |-> [task[t] EXCEPT
                    !.left = Less(@), !.age = IF task[t].phase = "idle" THEN 0 ELSE @ + 1]]
  BY Zenon DEF DeliveryTick
<1>2. ASSUME NEW b \in Builds
      PROVE  /\ row'[b] \in DeliveryRows
             /\ row'[b].generation = row[b].generation /\ row'[b].outcome = row[b].outcome
             /\ row'[b].state = row[b].state /\ row'[b].attempts = row[b].attempts
             /\ row'[b].repost = row[b].repost /\ row'[b].recAttempts = row[b].recAttempts
             /\ row'[b].recError = row[b].recError
             /\ row'[b].wait = Less(row[b].wait) /\ row'[b].recDue = Less(row[b].recDue)
             /\ row'[b].recLease = Less(row[b].recLease)
  <2>1. PICK r : r = row[b]
    OBVIOUS
  <2>2. r \in DeliveryRows /\ r.wait \in Nat /\ r.recDue \in Nat \cup {Nil} /\ r.recLease \in Nat \cup {Nil}
    BY Zenon, <2>1, RowTypes
  <2>3. PICK x, y, z : x = Less(r.wait) /\ y = Less(r.recDue) /\ z = Less(r.recLease)
    OBVIOUS
  <2>4. x \in Nat /\ y \in Nat \cup {Nil} /\ z \in Nat \cup {Nil}
    <3>1. r.wait \in Nat \cup {Nil}
      BY <2>2
    <3> QED
      BY Zenon, <2>2, <2>3, <3>1, LessFacts
  <2>5. row'[b] = [r EXCEPT !.wait = x, !.recDue = y, !.recLease = z]
    BY Zenon, <1>1, <2>1, <2>3
  <2> QED
    BY Zenon, <2>1, <2>2, <2>3, <2>4, <2>5 DEF DeliveryRows
<1>3. ASSUME NEW t \in Tasks
      PROVE  /\ task'[t] \in TaskWork
             /\ SameErrand(t) /\ task'[t].phase = task[t].phase /\ task'[t].holder = task[t].holder
             /\ task'[t].left = Less(task[t].left)
             /\ task[t].phase # "idle" => task'[t].age = task[t].age + 1
  <2>1. PICK w : w = task[t]
    OBVIOUS
  <2>2. w \in TaskWork /\ w.left \in Nat /\ w.age \in Nat
    BY Zenon, <2>1, TaskTypes
  <2>3. PICK x, y : x = Less(w.left) /\ y = (IF w.phase = "idle" THEN 0 ELSE w.age + 1)
    OBVIOUS
  <2>4. x \in Nat /\ y \in Nat
    <3>1. w.left \in Nat \cup {Nil}
      BY <2>2
    <3>2. x \in Nat
      BY Zenon, <2>2, <2>3, <3>1, LessFacts
    <3> QED
      BY <2>2, <2>3, <3>2
  <2>5. task'[t] = [w EXCEPT !.left = x, !.age = y]
    BY Zenon, <1>1, <2>1, <2>3
  <2> QED
    BY Zenon, <2>1, <2>2, <2>3, <2>4, <2>5 DEF TaskWork, SameErrand
<1>4. row' \in [Builds -> DeliveryRows]
  <2>1. row' = [b \in Builds |-> row'[b]]
    BY Zenon, <1>1
  <2> QED
    BY Zenon, <1>2, <2>1
<1>5. task' \in [Tasks -> TaskWork]
  <2>1. task' = [t \in Tasks |-> task'[t]]
    BY Zenon, <1>1
  <2> QED
    BY Zenon, <1>3, <2>1
<1> QED
  BY Zenon, <1>2, <1>3, <1>4, <1>5

(* Leases and deadlines run down together, so their order stays. *)
LEMMA DeliveryTickKeeps ==
  ASSUME DeliveryInv, DeliveryTick
  PROVE  DeliveryInv'
<1>0. DeliveryTypeOK /\ TasksAtWork /\ ClaimsStand /\ DeliveredWasAccepted /\ Corrected /\ Observed
  BY Zenon DEF DeliveryInv
<1>1. /\ \A t \in Tasks : task[t].phase \in Requesting => task[t].left > 0
      /\ \A t \in Tasks : task[t].phase # "idle" => task[t].age + 1 < ClaimLease
      /\ kind' = kind /\ shown' = shown /\ late' = late /\ accepted' = accepted
      /\ faults' = faults /\ lates' = lates
  BY Zenon DEF DeliveryTick
<1>2. \A b \in Builds :
        /\ row'[b].generation = row[b].generation /\ row'[b].outcome = row[b].outcome
        /\ row'[b].state = row[b].state /\ row'[b].attempts = row[b].attempts
        /\ row'[b].repost = row[b].repost /\ row'[b].recAttempts = row[b].recAttempts
        /\ row'[b].recError = row[b].recError
        /\ row'[b].wait = Less(row[b].wait) /\ row'[b].recDue = Less(row[b].recDue)
        /\ row'[b].recLease = Less(row[b].recLease)
  BY Zenon, <1>0, TickFacts
<1>3. \A t \in Tasks :
        /\ SameErrand(t) /\ task'[t].phase = task[t].phase /\ task'[t].holder = task[t].holder
        /\ task'[t].left = Less(task[t].left)
        /\ task[t].phase # "idle" => task'[t].age = task[t].age + 1
  BY Zenon, <1>0, TickFacts
<1>4. DeliveryTypeOK'
  <2>1. row' \in [Builds -> DeliveryRows] /\ task' \in [Tasks -> TaskWork]
    BY Zenon, <1>0, TickFacts
  <2> QED
    BY <1>0, <1>1, <2>1 DEF DeliveryTypeOK
<1>5. \A b \in Builds : SameOutcome(b) /\ row'[b].recAttempts >= row[b].recAttempts
  <2>1. \A b \in Builds : row[b].recAttempts >= row[b].recAttempts
    BY <1>0, RowTypes
  <2> QED
    BY Zenon, <1>2, <2>1 DEF SameOutcome
<1>6. \A t \in Tasks : /\ task'[t].job = task[t].job /\ task'[t].build = task[t].build
                       /\ task'[t].generation = task[t].generation
                       /\ Delivers(t)' <=> Delivers(t)
  BY Zenon, <1>3 DEF SameErrand, Delivers
<1>7. \A n \in Builds, t \in Tasks : (IsStale(t, n)' <=> IsStale(t, n)) /\ (Owes(t, n)' <=> Owes(t, n))
  <2>1. ASSUME NEW n \in Builds, NEW t \in Tasks
        PROVE  IsStale(t, n)' <=> IsStale(t, n)
    BY Zenon, <1>1, <1>2, <1>3, <1>6 DEF IsStale, IsStatus
  <2> QED
    BY Zenon, <1>3, <1>6, <2>1 DEF Owes
<1>8. TasksAtWork'
  <2>1. \A c \in Builds : row'[c].state # "none" => row'[c].outcome # "none" /\ row'[c].generation > 0
    BY Zenon, <1>0, <1>4, <1>5, OutcomesNamed
  <2>2. ASSUME NEW t \in Tasks, task'[t].phase # "idle"
        PROVE  TaskAtWork(t)'
    <3>1. TaskAtWork(t) /\ task[t].phase # "idle" /\ task'[t].age < ClaimLease
      BY Zenon, <1>0, <1>1, <1>3, <2>2 DEF TasksAtWork
    <3>2. task'[t].phase \in Requesting => task'[t].left <= Deadline
      <4>1. task[t].phase \in Requesting => task[t].left <= Deadline
        BY Zenon, <3>1 DEF TaskAtWork
      <4>2. task[t].left \in Nat /\ Deadline \in Nat
        BY Zenon, <1>0, TaskTypes, DeliveryAssumption
      <4>3. task[t].left \in Nat \cup {Nil}
        BY <4>2
      <4>4. task'[t].left \in Nat /\ task'[t].left <= task[t].left
        BY Zenon, <1>3, <4>2, <4>3, LessFacts
      <4> QED
        BY <1>3, <4>1, <4>2, <4>4
    <3>3. /\ task'[t].phase \in {"observing", "matched"} => task[t].job = "reconcile"
          /\ task'[t].phase = "posted" => task[t].phase = "posted"
          /\ task'[t].phase = "superseded" => task[t].phase = "superseded"
          /\ task'[t].phase = "requeueLater" => task'[t].holder \in StatusRows
      BY Zenon, <1>3, <3>1 DEF TaskAtWork
    <3> QED
      BY Zenon, <1>0, <1>1, <1>3, <1>4, <1>5, <3>1, <3>2, <3>3, AtWorkGoesOn
  <2> QED
    BY Zenon, <2>1, <2>2 DEF TasksAtWork
<1>9. ClaimsStand'
  <2>1. ASSUME NEW t \in Tasks, Delivers(t)', IsCurrent(t)'
        PROVE  HoldsDelivery(t)' /\ row'[task'[t].build].wait = ClaimLease - task'[t].age
    <3>0. PICK c : c = task[t].build
      OBVIOUS
    <3>1. Delivers(t) /\ task[t].phase # "idle" /\ task'[t].build = c
      BY Zenon, <1>6, <2>1, <3>0 DEF Delivers, Unsettled
    <3>2. c \in Builds
      BY Zenon, <1>0, <3>0, <3>1 DEF TasksAtWork, TaskAtWork
    <3>3. IsCurrent(t)
      BY Zenon, <1>2, <1>6, <2>1, <3>0, <3>1, <3>2 DEF IsCurrent
    <3>4. /\ row[c].state = "pending" /\ row[c].attempts = task[t].attempts
          /\ row[c].wait = ClaimLease - task[t].age /\ row[c].wait > 0
      BY Zenon, <1>0, <3>0, <3>1, <3>3, ClaimRuns
    <3>5. HoldsDelivery(t)'
      <4>1. task'[t].attempts = task[t].attempts
        BY Zenon, <1>3 DEF SameErrand
      <4> QED
        BY Zenon, <1>2, <2>1, <3>1, <3>2, <3>4, <4>1 DEF HoldsDelivery, IsCurrent
    <3>6. row'[c].wait = row[c].wait - 1
      <4>1. row[c].wait \in Nat \cup {Nil}
        BY <1>0, <3>2, RowTypes
      <4> QED
        BY Zenon, <1>2, <3>2, <3>4, <4>1, LessFacts
    <3>7. task'[t].age = task[t].age + 1 /\ task[t].age \in Nat /\ ClaimLease \in Nat
      BY Zenon, <1>0, <1>3, <3>1, TaskTypes, DeliveryAssumption
    <3>8. row'[c].wait = ClaimLease - task'[t].age
      BY <3>4, <3>6, <3>7
    <3> QED
      BY Zenon, <3>1, <3>5, <3>8
  <2> QED
    BY Zenon, <1>0, <1>6, <2>1 DEF ClaimsStand
<1>10. DeliveredWasAccepted'
  BY Zenon, <1>0, <1>1, <1>2 DEF DeliveredWasAccepted
<1>11. Corrected'
  <2>1. \A t \in Tasks : task'[t].phase \in {"applied", "posted"} =>
            /\ SameErrand(t) /\ task[t].phase # "idle" /\ task[t].phase \in {"applied", "posted"}
    BY Zenon, <1>3
  <2>2. \A b \in Builds : /\ row'[b].state = "delivered" => row[b].state = "delivered"
                          /\ row[b].repost => row'[b].repost
    BY Zenon, <1>2
  <2> QED
    BY Zenon, <1>0, <1>1, <1>4, <1>5, <1>7, <2>1, <2>2, CorrectedKept
<1>12. Observed'
  <2>1. \A n \in Builds : IsNewest(n)' => IsNewest(n)
    <3>1. StatusRows' = StatusRows
      BY Zenon, <1>1, <1>2 DEF StatusRows, IsStatus
    <3> QED
      BY Zenon, <3>1 DEF IsNewest
  <2>2. SUFFICES ASSUME lates = 0, NEW n \in Builds, IsNewest(n)
                 PROVE  OutlivesStale(n)' /\ SeenStands(n)'
    BY Zenon, <1>0, <1>1, <2>1 DEF Observed
  <2>3. OutlivesStale(n) /\ SeenStands(n)
    BY Zenon, <1>0, <2>2 DEF Observed
  <2>4. row[n].recDue \in Nat \cup {Nil} /\ row[n].recLease \in Nat \cup {Nil}
    BY Zenon, <1>0, RowTypes
  <2>5. OutlivesStale(n)'
    <3>1. ASSUME NEW t \in Tasks, IsStale(t, n)', task'[t].phase \in MayWrite
          PROVE  /\ row'[n].recAttempts = 0
                 /\ row'[n].state = "delivered" /\ row'[n].recDue # Nil => row'[n].recDue > task'[t].left
      <4>1. IsStale(t, n) /\ task[t].phase \in MayWrite
        BY Zenon, <1>3, <1>7, <3>1
      <4>2. row[n].recAttempts = 0
        BY Zenon, <2>3, <4>1 DEF OutlivesStale
      <4>3. ASSUME row'[n].state = "delivered", row'[n].recDue # Nil
            PROVE  row'[n].recDue > task'[t].left
        <5>1. row[n].recDue # Nil
          BY Zenon, <1>2, <2>4, <4>3, LessFacts
        <5>2. row[n].recDue > task[t].left
          BY Zenon, <1>2, <2>3, <4>1, <4>3, <5>1 DEF OutlivesStale
        <5>3. task[t].left > 0 /\ task[t].left \in Nat /\ row[n].recDue \in Nat
          <6>1. task[t].phase \in Requesting
            BY Zenon, <4>1 DEF Requesting, MayWrite
          <6> QED
            BY <1>0, <1>1, <2>4, <5>1, <6>1, TaskTypes
        <5>4. row'[n].recDue = row[n].recDue - 1 /\ task'[t].left = task[t].left - 1
          BY <1>2, <1>3, <5>2, <5>3 DEF Less
        <5> QED
          BY <5>2, <5>3, <5>4
      <4> QED
        BY Zenon, <1>2, <4>2, <4>3
    <3> QED
      BY Zenon, <3>1 DEF OutlivesStale
  <2>6. SeenStands(n)'
    <3>1. Shows(n)' <=> Shows(n)
      BY Zenon, <1>1, <1>2 DEF Shows
    <3>2. row'[n].recLease = Nil => row[n].recLease = Nil
      BY Zenon, <1>2, <2>4, LessFacts
    <3>3. \A t \in Tasks : task'[t].phase \in HasSeen /\ task'[t].build = n /\ IsCurrent(t)' =>
            task[t].phase \in HasSeen /\ task[t].build = n /\ IsCurrent(t)
      <4>1. ASSUME NEW t \in Tasks, task'[t].build = n, IsCurrent(t)'
            PROVE  task[t].build = n /\ IsCurrent(t)
        BY <1>2, <1>6, <4>1 DEF IsCurrent
      <4> QED
        BY Zenon, <1>3, <4>1
    <3> QED
      BY Zenon, <1>2, <2>3, <3>1, <3>2, <3>3 DEF SeenStands
  <2> QED
    BY Zenon, <2>5, <2>6
<1> QED
  BY Zenon, <1>4, <1>8, <1>9, <1>10, <1>11, <1>12 DEF DeliveryInv

-----------------------------------------------------------------------------
(* The largest of a set of builds, and the steps that look for it *)

FST == INSTANCE FiniteSetTheorems

(* A set of builds that is not empty has a largest one: a smallest set       *)
(* without one, for inclusion, would have one less a member.                 *)
LEMMA LargestBuild ==
  ASSUME NEW S \in SUBSET Builds, S # {}
  PROVE  Max(S) \in S /\ \A y \in S : y <= Max(S)
<1> DEFINE HasMax(X) == \E x \in X : \A y \in X : x >= y
           Bad == {X \in SUBSET Builds : X # {} /\ ~HasMax(X)}
<1>1. FST!IsWellFoundedOn(FST!StrictSubsetOrdering(Builds), SUBSET Builds)
  <2>1. FST!IsFiniteSet(Builds)
    BY Zenon, DeliveryAssumption DEF IsFiniteSet, FST!IsFiniteSet
  <2> QED
    BY Zenon, <2>1, FST!FS_StrictSubsetOrderingWellFounded, FST!FS_FiniteSubsetsOfFinite
<1>2. Bad = {}
  <2>1. SUFFICES ASSUME Bad # {} PROVE FALSE
    OBVIOUS
  <2>2. PICK X \in Bad : \A Y \in Bad : ~ (<<Y, X>> \in FST!StrictSubsetOrdering(Builds))
    <3>1. Bad \subseteq SUBSET Builds
      OBVIOUS
    <3> HIDE DEF Bad
    <3> QED
      BY Zenon, <1>1, <2>1, <3>1, FST!WFMin
  <2>3. PICK x \in X : x \in Nat
    BY Zenon, DeliveryAssumption
  <2> DEFINE Y == X \ {x}
  <2>4. Y # {}
    <3>1. SUFFICES ASSUME Y = {} PROVE HasMax(X)
      OBVIOUS
    <3>2. \A y \in X : y = x
      BY <3>1
    <3> QED
      BY <2>3, <3>2
  <2>5. HasMax(Y)
    <3>1. <<Y, X>> \in FST!StrictSubsetOrdering(Builds)
      BY Zenon, <2>3 DEF FST!StrictSubsetOrdering
    <3> QED
      BY <2>2, <3>1, <2>4
  <2>6. PICK m \in Y : \A y \in Y : m >= y
    BY <2>5
  <2>7. \A y \in X : y \in Nat
    BY DeliveryAssumption
  <2>8. \A y \in X : y = x \/ m >= y
    BY <2>6
  <2>9. \/ \A y \in X : m >= y
        \/ \A y \in X : x >= y
    BY <2>3, <2>6, <2>7, <2>8
  <2> QED
    BY <2>9, <2>3, <2>6
<1>3. HasMax(S)
  BY <1>2
<1>4. Max(S) \in S /\ \A y \in S : Max(S) >= y
  <2> HIDE DEF HasMax
  <2> QED
    BY Zenon, <1>3 DEF Max, HasMax
<1>5. \A y \in S : y \in Nat
  BY DeliveryAssumption
<1> QED
  BY <1>4, <1>5

LEMMA NewestIsNewest ==
  ASSUME StatusRows # {}
  PROVE  Newest \in Builds /\ IsNewest(Newest)
BY Zenon, LargestBuild DEF Newest, IsNewest, StatusRows

(* Nothing is later than the newest row. *)
LEMMA LatestHolder ==
  ASSUME DeliveryTypeOK, NEW b \in Builds
  PROVE  /\ LaterRows(b) # {} => later_github_status_holder(b) \in StatusRows
         /\ (later_github_status_holder(b) = Nil) <=> LaterRows(b) = {}
         /\ \A n \in Builds : IsNewest(n) => /\ b < n => later_github_status_holder(b) = n
                                             /\ LaterRows(n) = {}
<1>1. LaterRows(b) \in SUBSET Builds /\ LaterRows(b) \subseteq StatusRows /\ StatusRows \subseteq Builds
  BY Zenon DEF LaterRows, StatusRows
<1>2. ASSUME LaterRows(b) # {}
      PROVE  /\ later_github_status_holder(b) \in LaterRows(b)
             /\ \A y \in LaterRows(b) : y <= later_github_status_holder(b)
  BY Zenon, <1>1, <1>2, LargestBuild DEF later_github_status_holder
<1>3. \A c \in Builds : c \in Nat /\ c # Nil
  BY DeliveryAssumption DEF Nil
<1>4. LaterRows(b) = {} => later_github_status_holder(b) = Nil
  BY Zenon DEF later_github_status_holder
<1>5. (later_github_status_holder(b) = Nil) <=> LaterRows(b) = {}
  BY <1>1, <1>2, <1>3, <1>4
<1>6. ASSUME NEW n \in Builds, IsNewest(n), b < n PROVE later_github_status_holder(b) = n
  <2>1. n > b
    BY <1>3, <1>6
  <2>2. n \in LaterRows(b)
    BY Zenon, <1>6, <2>1 DEF LaterRows, IsNewest
  <2>3. n <= later_github_status_holder(b) /\ later_github_status_holder(b) <= n
    BY Zenon, <1>1, <1>2, <1>6, <2>2 DEF IsNewest
  <2>4. later_github_status_holder(b) \in Builds
    BY Zenon, <1>1, <1>2, <2>2
  <2> QED
    BY <1>3, <2>3, <2>4
<1>7. ASSUME NEW n \in Builds, IsNewest(n), NEW c \in LaterRows(n) PROVE FALSE
  <2>1. c <= n /\ c > n /\ c \in Builds
    BY Zenon, <1>7 DEF IsNewest, LaterRows, StatusRows
  <2> QED
    BY <1>3, <2>1
<1> QED
  BY Zenon, <1>1, <1>2, <1>5, <1>6, <1>7

LEMMA FollowLaterKeeps ==
  ASSUME DeliveryInv, NEW t \in Tasks, FollowLater(t)
  PROVE  DeliveryInv'
<1>0. DeliveryTypeOK /\ TasksAtWork
  BY Zenon DEF DeliveryInv
<1>1. PICK b, h : b = task[t].build /\ h = later_github_status_holder(b)
  OBVIOUS
<1>2. /\ task[t].phase = "follow"
      /\ IF ~IsStatus(b) \/ h = Nil
         THEN TaskEnds(t)
         ELSE task' = [task EXCEPT ![t].phase = "requeueLater", ![t].holder = h]
      /\ UNCHANGED <<kind, row, shown, late, accepted, faults, lates>>
  BY Zenon, <1>1 DEF FollowLater
<1>3. TaskAtWork(t)
  BY Zenon, <1>0, <1>2 DEF TasksAtWork
<1>4. b \in Builds /\ task[t].age < ClaimLease /\ task[t] \in TaskWork
  BY Zenon, <1>0, <1>1, <1>3, TaskTypes DEF TaskAtWork
<1>5. \A n \in Builds : IsNewest(n) /\ Owes(t, n) => IsStatus(b) /\ h = n /\ h # Nil
  <2>1. \A n \in Builds : Owes(t, n) => IsStatus(b) /\ b < n
    BY Zenon, <1>1, <1>2 DEF Owes, IsStale
  <2>2. \A n \in Builds : n # Nil
    BY DeliveryAssumption DEF Nil
  <2> QED
    BY Zenon, <1>0, <1>1, <1>4, <2>1, <2>2, LatestHolder
<1>6. CASE ~IsStatus(b) \/ h = Nil
  <2>1. /\ task' \in [Tasks -> TaskWork] /\ task'[t].phase = "idle"
        /\ \A s \in Tasks \ {t} : task'[s] = task[s]
    BY Zenon, <1>0, <1>2, <1>6, EndsFacts DEF DeliveryTypeOK
  <2>2. DeliveryTypeOK'
    BY <1>0, <1>2, <2>1 DEF DeliveryTypeOK
  <2>3. ~Delivers(t)'
    BY Zenon, <2>1 DEF Delivers, Unsettled
  <2>4. \A n \in Builds : IsNewest(n) => ~Owes(t, n)
    BY Zenon, <1>5, <1>6
  <2> QED
    BY Zenon, <1>0, <1>2, <2>1, <2>2, <2>3, <2>4, SameRows, TaskStep DEF MayWrite
<1>7. CASE IsStatus(b) /\ h # Nil
  <2>1. h \in StatusRows
    BY Zenon, <1>0, <1>1, <1>4, <1>7, LatestHolder
  <2>2. h \in Builds
    BY Zenon, <2>1 DEF StatusRows
  <2>3. PICK w : w = [task[t] EXCEPT !.phase = "requeueLater", !.holder = h]
    OBVIOUS
  <2>4. /\ w \in TaskWork /\ w.job = task[t].job /\ w.build = task[t].build
        /\ w.generation = task[t].generation /\ w.outcome = task[t].outcome
        /\ w.attempts = task[t].attempts /\ w.age = task[t].age
        /\ w.phase = "requeueLater" /\ w.holder = h
    BY Zenon, <1>4, <2>2, <2>3 DEF TaskWork, TaskPhases
  <2>5. task' = [task EXCEPT ![t] = w]
    BY Zenon, <1>2, <1>7, <2>3
  <2>6. /\ task' \in [Tasks -> TaskWork] /\ task'[t] = w
        /\ \A s \in Tasks \ {t} : task'[s] = task[s]
    BY Zenon, <1>0, <2>4, <2>5, TaskSet DEF DeliveryTypeOK
  <2>7. DeliveryTypeOK'
    BY <1>0, <1>2, <2>6 DEF DeliveryTypeOK
  <2>8. SameErrand(t) /\ task'[t].phase = "requeueLater" /\ task'[t].holder = h /\ task'[t].age = task[t].age
    BY Zenon, <2>4, <2>6 DEF SameErrand
  <2>9. task'[t].phase \notin {"idle", "observing", "matched", "posted", "superseded", "sending", "applied"}
    BY Zenon, <2>8
  <2>10. TaskAtWork(t)'
    BY Zenon, <1>0, <1>2, <1>3, <1>4, <2>1, <2>7, <2>8, <2>9, SameRows, AtWorkGoesOn DEF Requesting
  <2>11. ~Delivers(t)'
    BY Zenon, <2>8 DEF Delivers, Unsettled
  <2>12. \A n \in Builds : IsNewest(n) => (Owes(t, n) => Owes(t, n)')
    <3> SUFFICES ASSUME NEW n \in Builds, IsNewest(n), Owes(t, n) PROVE Owes(t, n)'
      OBVIOUS
    <3>1. h = n /\ IsStale(t, n)
      BY Zenon, <1>5 DEF Owes
    <3>2. task'[t].build = task[t].build /\ task'[t].generation = task[t].generation
      BY Zenon, <2>8 DEF SameErrand
    <3> QED
      BY Zenon, <1>2, <2>8, <2>9, <3>1, <3>2 DEF Owes, IsStale, IsStatus
  <2> QED
    BY Zenon, <1>0, <1>2, <2>6, <2>7, <2>9, <2>10, <2>11, <2>12, SameRows, TaskStep DEF MayWrite
<1> QED
  BY Zenon, <1>6, <1>7

LEMMA SettleReconciliationKeeps ==
  ASSUME DeliveryInv, NEW t \in Tasks, SettleReconciliation(t)
  PROVE  DeliveryInv'
<1>0. /\ DeliveryTypeOK /\ TasksAtWork /\ task[t].job = "reconcile"
      /\ task[t].phase \in {"matched", "posted", "failed", "superseded"}
  BY Zenon DEF DeliveryInv, SettleReconciliation
<1>1. UNCHANGED <<kind, shown, late, accepted, faults, lates>>
  BY Zenon DEF SettleReconciliation
<1>2. IF task[t].phase = "posted"
      THEN TaskGoes(t, IF HoldsReconciliation(t) THEN "follow" ELSE "requeue")
      ELSE TaskEnds(t)
  BY Zenon DEF SettleReconciliation
<1>3. TaskAtWork(t)
  BY Zenon, <1>0 DEF TasksAtWork
<1>4. ASSUME task[t].phase # "posted"
      PROVE  /\ task' \in [Tasks -> TaskWork] /\ task'[t].phase = "idle"
             /\ \A s \in Tasks \ {t} : task'[s] = task[s]
             /\ ~Delivers(t)' /\ \A n \in Builds : ~Owes(t, n)
  <2>1. /\ task' \in [Tasks -> TaskWork] /\ task'[t].phase = "idle"
        /\ \A s \in Tasks \ {t} : task'[s] = task[s]
    BY Zenon, <1>0, <1>2, <1>4, EndsFacts DEF DeliveryTypeOK
  <2>2. ~Delivers(t)'
    BY Zenon, <2>1 DEF Delivers, Unsettled
  <2>3. \A n \in Builds : ~Owes(t, n)
    BY Zenon, <1>0, <1>4 DEF Owes
  <2> QED
    BY Zenon, <2>1, <2>2, <2>3
<1>5. CASE ~HoldsReconciliation(t)
  <2>1. row' = row
    BY Zenon, <1>5 DEF SettleReconciliation
  <2>2. CASE task[t].phase = "posted"
    <3>1. TaskGoes(t, "requeue")
      BY Zenon, <1>2, <1>5, <2>2
    <3> QED
      BY Zenon, <1>1, <2>1, <2>2, <3>1, StalePostKeeps
  <2>3. CASE task[t].phase # "posted"
    <3>1. DeliveryTypeOK'
      BY <1>0, <1>1, <1>4, <2>1, <2>3 DEF DeliveryTypeOK
    <3> QED
      BY Zenon, <1>0, <1>1, <1>4, <2>1, <2>3, <3>1, SameRows, TaskStep DEF MayWrite
  <2> QED
    BY Zenon, <2>2, <2>3
<1>6. CASE HoldsReconciliation(t)
  <2>0. PICK b : b = task[t].build
    OBVIOUS
  <2>1. b \in Builds /\ IsCurrent(t)
    BY <1>3, <1>6, <2>0 DEF TaskAtWork, HoldsReconciliation, IsCurrent
  <2>2. /\ row' \in [Builds -> DeliveryRows] /\ \A c \in Builds : c # b => row'[c] = row[c]
        /\ SameRounds(b) /\ row[b].state = "delivered" /\ row'[b].state = "delivered"
        /\ row'[b].recError = (task[t].phase = "failed")
    BY Zenon, <1>0, <1>6, <2>0, <2>1, ReconciledRow
  <2>3. row[b].recAttempts > 0 /\ row[b].recAttempts # 0
    <3>1. row[b].recAttempts > 0
      BY Zenon, <1>0, <1>3, <2>0, <2>1 DEF TaskAtWork
    <3> QED
      BY <3>1
  <2>4. task[t].phase = "superseded" => ~IsNewest(b)
    BY Zenon, <1>0, <1>3, <2>0, <2>1, LatestHolder DEF TaskAtWork
  <2>5. IsNewest(b) /\ SeenStands(b) /\ ~row'[b].recError => Shows(b)
    <3>1. task[t].phase \in HasSeen /\ SeenStands(b) => Shows(b)
      BY Zenon, <2>0, <2>1, <2>3 DEF SeenStands
    <3>2. IsNewest(b) /\ ~row'[b].recError => task[t].phase \in HasSeen
      BY Zenon, <1>0, <2>2, <2>4 DEF HasSeen
    <3> QED
      BY Zenon, <3>1, <3>2
  <2>6. \A n \in Builds : n # b => SameRounds(n) /\ NotSettled(n) /\ ClaimKept(n)
    BY Zenon, <2>2, SameRowIsQuiet DEF QuietRow
  <2>7. CASE task[t].phase = "posted"
    <3>1. TaskGoes(t, "follow")
      BY Zenon, <1>2, <1>6, <2>7
    <3>2. task' \in [Tasks -> TaskWork]
      BY <1>0, <3>1, GoesFacts DEF DeliveryTypeOK, TaskPhases
    <3>3. DeliveryTypeOK'
      BY <1>0, <1>1, <2>2, <3>2 DEF DeliveryTypeOK
    <3>4. /\ TasksAtWork' /\ ClaimsStand' /\ DeliveredWasAccepted' /\ Corrected'
          /\ \A s \in Tasks : s # t => task'[s] = task[s]
          /\ task'[t].phase = "follow"
      BY Zenon, <1>1, <2>0, <2>1, <2>2, <2>7, <3>1, <3>3, SettlesAndFollows
    <3>5. Observed'
      BY Zenon, <1>1, <2>1, <2>2, <2>3, <2>5, <2>6, <3>3, <3>4, SettledObserved
    <3> QED
      BY Zenon, <3>3, <3>4, <3>5 DEF DeliveryInv
  <2>8. CASE task[t].phase # "posted"
    <3>1. DeliveryTypeOK'
      BY <1>0, <1>1, <1>4, <2>2, <2>8 DEF DeliveryTypeOK
    <3>2. \A s \in Tasks : s # t => task'[s] = task[s]
      BY <1>4, <2>8
    <3>3. Observed'
      BY Zenon, <1>1, <1>4, <2>1, <2>2, <2>3, <2>5, <2>6, <2>8, <3>1, <3>2, SettledObserved
    <3>4. TasksAtWork' /\ ClaimsStand' /\ DeliveredWasAccepted' /\ Corrected'
      BY Zenon, <1>1, <1>4, <2>0, <2>1, <2>2, <2>6, <2>8, <3>1, <3>2, EndedKeeps
    <3> QED
      BY Zenon, <3>1, <3>3, <3>4 DEF DeliveryInv
  <2> QED
    BY Zenon, <2>7, <2>8
<1> QED
  BY Zenon, <1>5, <1>6

-----------------------------------------------------------------------------
(* The invariant of all behaviours *)

LEMMA DeliveryInitially == DeliveryInit => DeliveryInv
<1> SUFFICES ASSUME DeliveryInit PROVE DeliveryInv
  OBVIOUS
<1>1. /\ kind \in Targets /\ row = [b \in Builds |-> NoRow] /\ task = [t \in Tasks |-> IdleTask]
      /\ shown = NoWrite /\ late = {} /\ accepted = {} /\ faults = 0 /\ lates = 0
  BY Zenon DEF DeliveryInit
<1>2. NoRow \in DeliveryRows /\ NoRow.state = "none" /\ IdleTask \in TaskWork /\ IdleTask.phase = "idle"
  BY DEF NoRow, DeliveryRows, RowStates, IdleTask, TaskWork, TaskPhases, Nil
<1>3. /\ \A b \in Builds : row[b].state = "none"
      /\ \A t \in Tasks : task[t].phase = "idle"
  BY Zenon, <1>1, <1>2
<1>4. DeliveryTypeOK
  <2>1. row \in [Builds -> DeliveryRows] /\ task \in [Tasks -> TaskWork]
    BY Zenon, <1>1, <1>2
  <2>2. faults \in 0 .. MaxFaults /\ lates \in 0 .. faults
    BY <1>1, DeliveryAssumption
  <2> QED
    BY <1>1, <2>1, <2>2 DEF DeliveryTypeOK
<1>5. \A t \in Tasks : ~Delivers(t)
  BY Zenon, <1>3 DEF Delivers, Unsettled
<1>6. TasksAtWork /\ ClaimsStand /\ DeliveredWasAccepted
  BY Zenon, <1>3, <1>5 DEF TasksAtWork, ClaimsStand, DeliveredWasAccepted
<1>7. \A n \in Builds : ~IsNewest(n)
  BY Zenon, <1>3 DEF IsNewest, StatusRows
<1> QED
  BY Zenon, <1>1, <1>4, <1>6, <1>7 DEF DeliveryInv, Corrected, Observed

LEMMA DeliveryStep == DeliveryInv /\ [DeliveryNext]_deliveryVars => DeliveryInv'
<1> SUFFICES ASSUME DeliveryInv, [DeliveryNext]_deliveryVars PROVE DeliveryInv'
  OBVIOUS
<1>1. ASSUME NEW b \in Builds, RecordTerminal(b) PROVE DeliveryInv'
  BY Zenon, <1>1, RecordTerminalKeeps
<1>2. CASE ScanSpent
  BY Zenon, <1>2, ScanSpentKeeps
<1>3. CASE ScanSpentReconciliations
  BY Zenon, <1>3, ScanSpentReconciliationsKeeps
<1>4. ASSUME NEW t \in Tasks, NEW b \in Builds, ClaimNotification(t, b) PROVE DeliveryInv'
  BY Zenon, <1>4, ClaimNotificationKeeps
<1>5. ASSUME NEW t \in Tasks, NEW b \in Builds, ClaimReconciliation(t, b) PROVE DeliveryInv'
  BY Zenon, <1>5, ClaimReconciliationKeeps
<1>6. ASSUME NEW t \in Tasks, MarkInFlight(t) PROVE DeliveryInv'
  BY Zenon, <1>6, MarkInFlightKeeps
<1>7. ASSUME NEW t \in Tasks,
             MarkOvertaken(t) \/ MarkSuperseded(t) \/ FailUnsent(t) \/ LoseAnswer(t) \/ LeaveBody(t)
      PROVE  DeliveryInv'
  BY Zenon, <1>7, GivingUpKeeps
<1>8. ASSUME NEW t \in Tasks, Observe(t) PROVE DeliveryInv'
  BY Zenon, <1>8, ObserveKeeps
<1>9. ASSUME NEW t \in Tasks, Apply(t) PROVE DeliveryInv'
  BY Zenon, <1>9, ApplyKeeps
<1>10. ASSUME NEW t \in Tasks, Answer(t) PROVE DeliveryInv'
  BY Zenon, <1>10, AnswerKeeps
<1>11. ASSUME NEW t \in Tasks, LoseTask(t) PROVE DeliveryInv'
  BY Zenon, <1>11, LoseTaskKeeps
<1>12. ASSUME NEW t \in Tasks, Supersede(t) PROVE DeliveryInv'
  BY Zenon, <1>12, SupersedeKeeps
<1>13. ASSUME NEW t \in Tasks, SettlePosted(t) PROVE DeliveryInv'
  BY Zenon, <1>13, SettlePostedKeeps
<1>14. ASSUME NEW t \in Tasks, SettleFailed(t) PROVE DeliveryInv'
  BY Zenon, <1>14, SettleFailedKeeps
<1>15. ASSUME NEW t \in Tasks, SettleReconciliation(t) PROVE DeliveryInv'
  BY Zenon, <1>15, SettleReconciliationKeeps
<1>16. ASSUME NEW t \in Tasks, RequeueOwn(t) PROVE DeliveryInv'
  BY Zenon, <1>16, RequeueOwnKeeps
<1>17. ASSUME NEW t \in Tasks, FollowLater(t) PROVE DeliveryInv'
  BY Zenon, <1>17, FollowLaterKeeps
<1>18. ASSUME NEW t \in Tasks, RequeueLater(t) PROVE DeliveryInv'
  BY Zenon, <1>18, RequeueLaterKeeps
<1>19. ASSUME NEW w \in StatusWrites, ApplyLate(w) PROVE DeliveryInv'
  BY Zenon, <1>19, ApplyLateKeeps
<1>20. CASE DeliveryTick
  BY Zenon, <1>20, DeliveryTickKeeps
<1>21. CASE UNCHANGED deliveryVars
  <2>1. row' = row /\ UNCHANGED <<kind, task, shown, late, accepted, faults, lates>>
    BY Zenon, <1>21 DEF deliveryVars
  <2>2. DeliveryTypeOK'
    BY Zenon, <2>1 DEF DeliveryInv, DeliveryTypeOK
  <2>3. \A b \in Builds : QuietRow(b)
    BY Zenon, <2>1, SameRowIsQuiet
  <2> QED
    BY Zenon, <2>1, <2>2, <2>3, StoreStep
<1> QED
  BY Zenon, <1>1, <1>2, <1>3, <1>4, <1>5, <1>6, <1>7, <1>8, <1>9, <1>10, <1>11, <1>12, <1>13, <1>14,
     <1>15, <1>16, <1>17, <1>18, <1>19, <1>20, <1>21 DEF DeliveryNext

LEMMA DeliveryInvariant == DeliverySpec => []DeliveryInv
BY DeliveryInitially, DeliveryStep, PTL DEF DeliverySpec

(* Rows, tasks, the status shown and the counts of faults keep their types. *)
THEOREM DeliveryTypes == DeliverySpec => []DeliveryTypeOK
<1>1. DeliveryInv => DeliveryTypeOK
  BY Zenon DEF DeliveryInv
<1> QED
  BY <1>1, DeliveryInvariant, PTL

(* Settlement by generation: whatever crashes, is retried or answered late, *)
(* a row is delivered only if a target answered a post of the very terminal *)
(* outcome it holds.                                                        *)
THEOREM AnswersSettleTheirOutcome == DeliverySpec => []DeliveredWasAccepted
<1>1. DeliveryInv => DeliveredWasAccepted
  BY Zenon DEF DeliveryInv
<1> QED
  BY <1>1, DeliveryInvariant, PTL

(* The chain of corrections: posts of older outcomes may overtake the       *)
(* newest one's, but while no task is lost and every answer arrives whoever *)
(* made one has the newest outcome posted again, so that the status shows   *)
(* it once it is delivered and no task is at work.                          *)
THEOREM CorrectionsReachTheStatus == DeliverySpec => []LastWriteStands
<1>1. DeliveryInv => LastWriteStands
  <2> SUFFICES ASSUME DeliveryInv, faults = 0, StatusRows # {}, AllIdle,
                      row[Newest].state = "delivered"
               PROVE  Shows(Newest)
    BY Zenon DEF LastWriteStands
  <2>1. Newest \in Builds /\ IsNewest(Newest)
    BY Zenon, NewestIsNewest
  <2>2. Stands(Newest)
    BY Zenon, <2>1 DEF DeliveryInv, Corrected, CorrectedOf
  <2>3. \A t \in Tasks : ~Owes(t, Newest)
    BY Zenon DEF AllIdle, Owes, IsStale
  <2> QED
    BY Zenon, <2>2, <2>3 DEF Stands
<1> QED
  BY <1>1, DeliveryInvariant, PTL

(* The observation of delivered rows, which comes only after every earlier  *)
(* attempt's deadline: once a reconciliation of the newest outcome ended    *)
(* without error, the status shows it and stays so, whatever was lost       *)
(* before, unless the target applied a body after its attempt was over.     *)
THEOREM ObservationRepairsTheStatus == DeliverySpec => []ObservedStatusStands
<1>1. DeliveryInv => ObservedStatusStands
  <2> SUFFICES ASSUME DeliveryInv, StatusRows # {}, lates = 0, row[Newest].state = "delivered",
                      row[Newest].recAttempts > 0, row[Newest].recLease = Nil, ~row[Newest].recError
               PROVE  Shows(Newest)
    BY Zenon DEF ObservedStatusStands
  <2>1. Newest \in Builds /\ IsNewest(Newest)
    BY Zenon, NewestIsNewest
  <2>2. SeenStands(Newest)
    BY Zenon, <2>1 DEF DeliveryInv, Observed
  <2> QED
    BY Zenon, <2>2 DEF SeenStands
<1> QED
  BY <1>1, DeliveryInvariant, PTL

=============================================================================
