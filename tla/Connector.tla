------------------------------ MODULE Connector ------------------------------
(***************************************************************************)
(* The external connector: a process that sends a signed action request to *)
(* its destination and keeps a signed outcome receipt in a state directory *)
(* that later processes of the same lineage open again.                    *)
(*                                                                         *)
(* A store call is one transaction and one action.  A process holds the    *)
(* exclusive lineage lock from the claim of a request to its return, and a *)
(* process that dies at any point in between releases the lock and leaves  *)
(* the rows as they are.  Several processes may have the directory open, of *)
(* the same configuration generation or of an older one.                   *)
(*                                                                         *)
(* Request contents and signatures are not kept: a request with a known id *)
(* and other contents is refused, and so is a receipt that does not verify. *)
(***************************************************************************)
EXTENDS Integers, FiniteSets

CONSTANTS
    Requests,       \* request ids
    Scope,          \* scope_key of each: attempt, fence and effect key
    Unrepeatable,  \* the requests that are not retry safe
    Procs,          \* connector processes
    Generations,    \* configuration generations, from 1 on
    MaxReceipts,    \* limits.max_receipts of each generation
    MaxAttempts,    \* limits.max_attempts
    MaxHistory,     \* limits.max_runtime_history
    MaxDeaths       \* bound: processes that die while at work

ASSUME ConnectorAssumption ==
    /\ IsFiniteSet(Requests) /\ Unrepeatable \subseteq Requests
    /\ Generations \subseteq Nat \ {0}
    /\ MaxReceipts \in [Generations -> Nat]
    /\ {MaxAttempts, MaxHistory} \subseteq Nat \ {0} /\ MaxDeaths \in Nat

VARIABLES
    runtime,    \* the active generation, 0 before the first activation
    history,    \* generations ever activated
    request,    \* rows of the requests table
    retained,   \* rows of the evidence table
    proc,       \* what each process is doing
    expired,    \* requests whose authority window has closed
    bodies,     \* bodies handed to the destination, per request
    effected,   \* requests whose effect the destination has applied
    deaths      \* processes that died while at work

NoRequestId == 0

connectorVars == <<runtime, history, request, retained, proc, expired, bodies, effected, deaths>>

OutcomeStatuses == {"succeeded", "failed", "retryable_failure", "ambiguous"}

(* A receipt says how it ended and whether there is a dispatch time. *)
Receipts == [outcome : OutcomeStatuses, dispatched : BOOLEAN]
NoReceipt == [outcome |-> "none", dispatched |-> FALSE]

RequestRows == [status : {"none", "pending", "terminal"}, dispatched : BOOLEAN,
                attempts : Nat, reserved : 0 .. 2,
                receipt : Receipts \cup {NoReceipt}, generation : Nat]
NoRequest == [status |-> "none", dispatched |-> FALSE, attempts |-> 0, reserved |-> 0,
              receipt |-> NoReceipt, generation |-> 0]

(* A process is off, ready for a command, or at a place of execute_inner    *)
(* with a request: before the claim of another round of the loop, after the *)
(* claim, after the dispatch mark, after the send, before the receipt.      *)
ProcWorking == {"looping", "claimed", "marked", "sent", "ending"}
Processes == [pc : {"off", "ready"} \cup ProcWorking, generation : Nat,
              request : Requests \cup {NoRequestId}, receipt : Receipts \cup {NoReceipt}]
OffProc == [pc |-> "off", generation |-> 0, request |-> NoRequestId, receipt |-> NoReceipt]

ConnectorInit ==
    /\ runtime = 0
    /\ history = {}
    /\ request = [r \in Requests |-> NoRequest]
    /\ retained = 0
    /\ proc = [p \in Procs |-> OffProc]
    /\ expired = {}
    /\ bodies = [r \in Requests |-> 0]
    /\ effected = {}
    /\ deaths = 0

----------------------------------------------------------------------------
(* Room for evidence, and the lineage *)

(* The sum of the reserved slots: the first ones and the second ones. *)
Holding(n) == {r \in Requests : request[r].reserved >= n}
ReservedSlots == Cardinality(Holding(1)) + Cardinality(Holding(2))

Unsettled == {r \in Requests : request[r].status = "pending" \/ request[r].reserved # 0}

RetrySafe(r) == r \notin Unrepeatable

(* The exclusive, non-blocking lineage lock is free. *)
LockFree == \A p \in Procs : proc[p].pc \notin ProcWorking

(* assert_runtime, under the lock. *)
OfRuntime(p) == proc[p].generation = runtime

(* Mutant of Open: a generation takes over whatever is unsettled. *)
OpenUnsettled(p, g) ==
    /\ proc[p].pc = "off" /\ LockFree
    /\ retained + ReservedSlots <= MaxReceipts[g]
    /\ \/ runtime = g
       \/ runtime = 0 /\ g = 1
       \/ runtime # 0 /\ g > runtime /\ Cardinality(history) < MaxHistory
    /\ runtime' = g
    /\ history' = history \cup {g}
    /\ proc' = [proc EXCEPT ![p] = [OffProc EXCEPT !.pc = "ready", !.generation = g]]
    /\ UNCHANGED <<request, retained, expired, bodies, effected, deaths>>

(* ConnectorStore::open.  A generation bootstraps, opens again, or takes    *)
(* over from the active one: only when nothing is unsettled.                *)
Open(p, g) ==
    /\ proc[p].pc = "off" /\ LockFree
    /\ retained + ReservedSlots <= MaxReceipts[g]
    /\ \/ runtime = g
       \/ runtime = 0 /\ g = 1
       \/ runtime # 0 /\ g > runtime /\ Unsettled = {} /\ Cardinality(history) < MaxHistory
    /\ runtime' = g
    /\ history' = history \cup {g}
    /\ proc' = [proc EXCEPT ![p] = [OffProc EXCEPT !.pc = "ready", !.generation = g]]
    /\ UNCHANGED <<request, retained, expired, bodies, effected, deaths>>

(* A process ends: between commands, or in the middle of one. *)
Leave(p) ==
    /\ proc[p].pc = "ready"
    /\ proc' = [proc EXCEPT ![p] = OffProc]
    /\ UNCHANGED <<runtime, history, request, retained, expired, bodies, effected, deaths>>

Die(p) ==
    /\ proc[p].pc \in ProcWorking /\ deaths < MaxDeaths
    /\ proc' = [proc EXCEPT ![p] = OffProc]
    /\ deaths' = deaths + 1
    /\ UNCHANGED <<runtime, history, request, retained, expired, bodies, effected>>

----------------------------------------------------------------------------
(* execute_inner *)

(* The process may claim r: a new command takes the lock and asserts its    *)
(* runtime, another round of the loop still holds it.                       *)
MayClaim(p, r) ==
    \/ proc[p].pc = "ready" /\ LockFree /\ OfRuntime(p)
    \/ proc[p].pc = "looping" /\ proc[p].request = r

ProcGoes(p, pc, r) == proc' = [proc EXCEPT ![p].pc = pc, ![p].request = r]
ProcEnds(p, r, outcome, dispatched) ==
    proc' = [proc EXCEPT ![p] =
               [pc |-> "ending", generation |-> proc[p].generation, request |-> r,
                receipt |-> [outcome |-> outcome, dispatched |-> dispatched]]]

(* Mutant of ClaimNew: room for the outcome only. *)
ClaimNewOneSlot(p, r) ==
    /\ MayClaim(p, r)
    /\ request[r].status = "none"
    /\ retained + ReservedSlots + 1 <= MaxReceipts[proc[p].generation]
    /\ \A s \in Requests : Scope[s] = Scope[r] => request[s].status = "none"
    /\ r \notin expired
    /\ request' = [request EXCEPT ![r] =
                     [NoRequest EXCEPT !.status = "pending", !.attempts = 1, !.reserved = 1,
                                       !.generation = proc[p].generation]]
    /\ ProcGoes(p, "claimed", r)
    /\ UNCHANGED <<runtime, history, retained, expired, bodies, effected, deaths>>

(* claim of an unknown request. *)
ClaimNew(p, r) ==
    /\ MayClaim(p, r)
    /\ request[r].status = "none"
    /\ retained + ReservedSlots + 2 <= MaxReceipts[proc[p].generation]
    /\ \A s \in Requests : Scope[s] = Scope[r] => request[s].status = "none"
    /\ r \notin expired
    /\ request' = [request EXCEPT ![r] =
                     [NoRequest EXCEPT !.status = "pending", !.attempts = 1, !.reserved = 2,
                                       !.generation = proc[p].generation]]
    /\ ProcGoes(p, "claimed", r)
    /\ UNCHANGED <<runtime, history, retained, expired, bodies, effected, deaths>>

(* Mutant of ClaimAgain: the dispatch mark is not looked at. *)
ClaimAgainDispatched(p, r) ==
    /\ MayClaim(p, r)
    /\ request[r].status = "pending"
    /\ request[r].attempts < MaxAttempts
    /\ retained + ReservedSlots <= MaxReceipts[proc[p].generation]
    /\ request' = [request EXCEPT ![r].dispatched = FALSE, ![r].attempts = @ + 1]
    /\ ProcGoes(p, "claimed", r)
    /\ UNCHANGED <<runtime, history, retained, expired, bodies, effected, deaths>>

(* claim of a pending request; a terminal one answers with its receipt and  *)
(* changes nothing.                                                         *)
ClaimAgain(p, r) ==
    /\ MayClaim(p, r)
    /\ request[r].status = "pending"
    /\ ~(request[r].dispatched /\ ~RetrySafe(r))
    /\ request[r].attempts < MaxAttempts
    /\ retained + ReservedSlots <= MaxReceipts[proc[p].generation]
    /\ request' = [request EXCEPT ![r].dispatched = FALSE, ![r].attempts = @ + 1]
    /\ ProcGoes(p, "claimed", r)
    /\ UNCHANGED <<runtime, history, retained, expired, bodies, effected, deaths>>

ClaimAmbiguous(p, r) ==
    /\ MayClaim(p, r)
    /\ request[r].status = "pending"
    /\ request[r].dispatched /\ ~RetrySafe(r)
    /\ ProcEnds(p, r, "ambiguous", TRUE)
    /\ UNCHANGED <<runtime, history, request, retained, expired, bodies, effected, deaths>>

ClaimExhausted(p, r) ==
    /\ MayClaim(p, r)
    /\ request[r].status = "pending"
    /\ ~(request[r].dispatched /\ ~RetrySafe(r))
    /\ request[r].attempts >= MaxAttempts
    /\ ProcEnds(p, r, "retryable_failure", FALSE)
    /\ UNCHANGED <<runtime, history, request, retained, expired, bodies, effected, deaths>>

(* The authority window is checked before the mark and again after it. *)
FindExpired(p) == LET r == proc[p].request IN
    /\ proc[p].pc \in {"claimed", "marked"} /\ r \in expired
    /\ ProcEnds(p, r, "failed", FALSE)
    /\ UNCHANGED <<runtime, history, request, retained, expired, bodies, effected, deaths>>

mark_dispatched(p) == LET r == proc[p].request IN
    /\ proc[p].pc = "claimed" /\ r \notin expired
    /\ request[r].status = "pending"
    /\ request' = [request EXCEPT ![r].dispatched = TRUE]
    /\ ProcGoes(p, "marked", r)
    /\ UNCHANGED <<runtime, history, retained, expired, bodies, effected, deaths>>

(* The body leaves; the destination, which is external, may apply it. *)
Send(p) == LET r == proc[p].request IN
    /\ proc[p].pc = "marked" /\ r \notin expired
    /\ bodies' = [bodies EXCEPT ![r] = @ + 1]
    /\ effected' \in {effected, effected \cup {r}}
    /\ ProcGoes(p, "sent", r)
    /\ UNCHANGED <<runtime, history, request, retained, expired, deaths>>

(* dispatch returns: a verified outcome of the destination, no answer, or   *)
(* an answer that does not verify.                                          *)
Answers == OutcomeStatuses \cup {"unavailable", "unverifiable"}
Answerable(r, answer) == answer = "succeeded" => r \in effected

Retries(r, answer) ==
    /\ answer \in {"retryable_failure", "unavailable"}
    /\ RetrySafe(r) /\ request[r].attempts < MaxAttempts

release_retryable(p, answer) == LET r == proc[p].request IN
    /\ proc[p].pc = "sent" /\ Retries(r, answer)
    /\ request[r].status = "pending"
    /\ request' = [request EXCEPT ![r].dispatched = FALSE]
    /\ ProcGoes(p, "looping", r)
    /\ UNCHANGED <<runtime, history, retained, expired, bodies, effected, deaths>>

(* What the receipt of an answer that is not retried says. *)
OutcomeOf(r, answer) ==
    CASE answer = "unavailable"  -> IF RetrySafe(r) THEN "retryable_failure" ELSE "ambiguous"
      [] answer = "unverifiable" -> IF RetrySafe(r) THEN "failed" ELSE "ambiguous"
      [] OTHER                   -> answer

Conclude(p, answer) == LET r == proc[p].request IN
    /\ proc[p].pc = "sent" /\ Answerable(r, answer) /\ ~Retries(r, answer)
    /\ ProcEnds(p, r, OutcomeOf(r, answer), TRUE)
    /\ UNCHANGED <<runtime, history, request, retained, expired, bodies, effected, deaths>>

(* finalize_destination and finalize_local. *)
finalize(p) == LET r == proc[p].request
                   receipt == proc[p].receipt IN
    /\ proc[p].pc = "ending"
    /\ retained < MaxReceipts[proc[p].generation]
    /\ retained' = retained + 1
    /\ request' = [request EXCEPT ![r].status = "terminal", ![r].receipt = receipt,
                     ![r].reserved = IF receipt.outcome = "ambiguous" THEN 1 ELSE 0]
    /\ proc' = [proc EXCEPT ![p] = [OffProc EXCEPT !.pc = "ready",
                                              !.generation = proc[p].generation]]
    /\ UNCHANGED <<runtime, history, expired, bodies, effected, deaths>>

(* reconcile_inner: an observation, made by an independent observer, shows  *)
(* the effect of an ambiguous request at the destination.                   *)
Reconcile(p, r) ==
    /\ proc[p].pc = "ready" /\ LockFree /\ OfRuntime(p)
    /\ request[r].status = "terminal" /\ request[r].receipt.outcome = "ambiguous"
    /\ r \in effected
    /\ retained < MaxReceipts[proc[p].generation]
    /\ retained' = retained + 1
    /\ request' = [request EXCEPT ![r].receipt = [outcome |-> "succeeded",
                                                      dispatched |-> request[r].receipt.dispatched],
                                      ![r].reserved = 0]
    /\ UNCHANGED <<runtime, history, proc, expired, bodies, effected, deaths>>

(* The clock passes the end of a request's window. *)
Expire(r) ==
    /\ r \notin expired
    /\ expired' = expired \cup {r}
    /\ UNCHANGED <<runtime, history, request, retained, proc, bodies, effected, deaths>>

----------------------------------------------------------------------------
ConnectorNext ==
    \/ \E p \in Procs, g \in Generations : Open(p, g)
    \/ \E p \in Procs : Leave(p) \/ Die(p)
    \/ \E p \in Procs, r \in Requests :
          \/ ClaimNew(p, r) \/ ClaimAgain(p, r) \/ ClaimAmbiguous(p, r)
          \/ ClaimExhausted(p, r) \/ Reconcile(p, r)
    \/ \E p \in Procs : FindExpired(p) \/ mark_dispatched(p) \/ Send(p) \/ finalize(p)
    \/ \E p \in Procs, answer \in Answers : release_retryable(p, answer) \/ Conclude(p, answer)
    \/ \E r \in Requests : Expire(r)

ConnectorSpec == ConnectorInit /\ [][ConnectorNext]_connectorVars

----------------------------------------------------------------------------
(* Properties *)

(* Every row holds values its columns admit. *)
ConnectorTypeOK ==
    /\ runtime \in Generations \cup {0} /\ history \subseteq Generations
    /\ request \in [Requests -> RequestRows]
    /\ retained \in Nat
    /\ proc \in [Procs -> Processes]
    /\ expired \subseteq Requests /\ effected \subseteq Requests
    /\ bodies \in [Requests -> Nat]
    /\ deaths \in 0 .. MaxDeaths

Promise == INSTANCE EffectChannel WITH
    NonIdempotent <- Unrepeatable,
    verdict <- [r \in Requests |-> request[r].receipt],
    sends <- bodies,
    applied <- effected

(* The connector keeps the promise of EffectChannel whichever process dies  *)
(* where and however often the command is repeated: a non-idempotent        *)
(* request leaves at most once, a physical scope serves one request, the    *)
(* receipt is written once, denies a dispatch only when there was none,     *)
(* reports a success only of an applied effect, and is replaced only when    *)
(* an observation resolves an ambiguous one.                                *)
KeepsPromise == Promise!Spec

(* "Admission durably attaches two evidence-slot reservations": whoever is  *)
(* about to settle a request finds room for its receipt, and an ambiguous   *)
(* one for its reconciliation, across deaths and rotations.                *)
RoomToSettle ==
    /\ \A p \in Procs : proc[p].pc \in ProcWorking => retained < MaxReceipts[runtime]
    /\ runtime # 0 => retained + ReservedSlots <= MaxReceipts[runtime]

(* A rotation never overtakes unsettled work: who works is of the active    *)
(* generation, and every unsettled request was claimed under it.            *)
OneRuntime ==
    /\ \A p \in Procs : proc[p].pc \in ProcWorking => proc[p].generation = runtime
    /\ \A r \in Unsettled : request[r].generation = runtime
=============================================================================
