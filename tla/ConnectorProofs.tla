--------------------------- MODULE ConnectorProofs ---------------------------
(***************************************************************************)
(* The external connector keeps the promise of EffectChannel, works under  *)
(* one runtime generation, and finds room for every receipt it owes, for   *)
(* any number of processes, requests, generations and deaths.              *)
(***************************************************************************)
EXTENDS Connector, FiniteSetTheorems, TLAPS

Works(p) == proc[p].pc \in ProcWorking

RowsTyped ==
    /\ request \in [Requests -> RequestRows] /\ retained \in Nat
    /\ expired \subseteq Requests /\ effected \subseteq Requests
    /\ bodies \in [Requests -> Nat]
ProcsTyped ==
    /\ proc \in [Procs -> Processes]
    /\ \A p \in Procs : Works(p) => proc[p].request \in Requests
    /\ \A p \in Procs : proc[p].pc = "ending" => proc[p].receipt \in Receipts
LineageTyped ==
    runtime \in Generations \cup {0} /\ history \subseteq Generations /\ deaths \in 0 .. MaxDeaths
ConnectorTypes == RowsTyped /\ ProcsTyped /\ LineageTyped

(* Every step writes request rows of their type. *)
LEMMA RowsTypedStep == ConnectorTypes /\ [ConnectorNext]_connectorVars => RowsTyped'
<1> SUFFICES ASSUME ConnectorTypes, [ConnectorNext]_connectorVars PROVE RowsTyped'
  BY Zenon
<1> USE DEF connectorVars
<1>1. ASSUME UNCHANGED <<request, retained, expired, effected, bodies>> PROVE RowsTyped'
  BY Zenon, <1>1 DEF ConnectorTypes, RowsTyped
<1>2. ASSUME NEW p \in Procs, NEW g \in Generations, Open(p, g) PROVE RowsTyped'
  BY Zenon, <1>1, <1>2 DEF Open
<1>3. ASSUME NEW p \in Procs, Leave(p) \/ Die(p) \/ FindExpired(p) PROVE RowsTyped'
  BY Zenon, <1>1, <1>3 DEF Leave, Die, FindExpired
<1>4. ASSUME NEW p \in Procs, mark_dispatched(p) PROVE RowsTyped'
  <2>1. proc[p].request \in Requests
    BY Zenon, <1>4 DEF mark_dispatched, ConnectorTypes, ProcsTyped, Works, ProcWorking
  <2> QED
    BY ZenonT(60), <1>4, <2>1 DEF mark_dispatched, ConnectorTypes, RowsTyped, RequestRows
<1>5. ASSUME NEW p \in Procs, Send(p) PROVE RowsTyped'
  <2>1. proc[p].request \in Requests
    BY Zenon, <1>5 DEF Send, ConnectorTypes, ProcsTyped, Works, ProcWorking
  <2> QED
    BY <1>5, <2>1 DEF Send, ConnectorTypes, RowsTyped
<1>6. ASSUME NEW p \in Procs, finalize(p) PROVE RowsTyped'
  <2>1. proc[p].request \in Requests /\ proc[p].receipt \in Receipts
    BY Zenon, <1>6 DEF finalize, ConnectorTypes, ProcsTyped, Works, ProcWorking
  <2> QED
    BY SMTT(30), <1>6, <2>1 DEF finalize, ConnectorTypes, RowsTyped, RequestRows
<1>7. ASSUME NEW p \in Procs, NEW r \in Requests,
             \/ ClaimAmbiguous(p, r) \/ ClaimExhausted(p, r)
      PROVE RowsTyped'
  BY Zenon, <1>1, <1>7 DEF ClaimAmbiguous, ClaimExhausted
<1>8. ASSUME NEW p \in Procs, NEW r \in Requests, ClaimNew(p, r) PROVE RowsTyped'
  <2>1. proc[p].generation \in Nat
    BY Zenon DEF ConnectorTypes, ProcsTyped, Processes
  <2> DEFINE row1 == [NoRequest EXCEPT !.status = "pending", !.attempts = 1]
             row2 == [row1 EXCEPT !.reserved = 2]
  <2>a. NoRequest \in RequestRows
    BY DEF NoRequest, RequestRows
  <2>2. row1 \in RequestRows
    BY Zenon, <2>a DEF RequestRows
  <2> HIDE DEF row1
  <2>3. row2 \in RequestRows
    BY <2>2 DEF RequestRows
  <2> HIDE DEF row2
  <2>4. [row2 EXCEPT !.generation = proc[p].generation] \in RequestRows
    BY Zenon, <2>1, <2>3 DEF RequestRows
  <2>5. request' = [request EXCEPT ![r] = [row2 EXCEPT !.generation = proc[p].generation]]
    BY Zenon, <1>8 DEF ClaimNew, row1, row2
  <2> QED
    BY Zenon, <1>8, <2>4, <2>5 DEF ClaimNew, ConnectorTypes, RowsTyped
<1>9. ASSUME NEW p \in Procs, NEW r \in Requests, ClaimAgain(p, r) PROVE RowsTyped'
  BY <1>9 DEF ClaimAgain, ConnectorTypes, RowsTyped, RequestRows
<1>10. ASSUME NEW p \in Procs, NEW r \in Requests, Reconcile(p, r) PROVE RowsTyped'
  <2>1. request[r].receipt \in Receipts
    BY <1>10 DEF Reconcile, ConnectorTypes, RowsTyped, RequestRows, NoReceipt
  <2> DEFINE resolved == [outcome |-> "succeeded", dispatched |-> request[r].receipt.dispatched]
  <2>2. resolved \in Receipts
    BY Zenon, <2>1 DEF Receipts, OutcomeStatuses
  <2>3. request' = [request EXCEPT ![r].receipt = resolved, ![r].reserved = 0]
    BY Zenon, <1>10 DEF Reconcile
  <2> HIDE DEF resolved
  <2> DEFINE joined == [request EXCEPT ![r].receipt = resolved]
  <2>a. joined \in [Requests -> RequestRows]
    BY <2>2 DEF ConnectorTypes, RowsTyped, RequestRows
  <2>b. request' = [joined EXCEPT ![r].reserved = 0]
    BY Zenon, <2>3
  <2> HIDE DEF joined
  <2>4. request' \in [Requests -> RequestRows]
    BY <2>a, <2>b DEF RequestRows
  <2> QED
    BY <1>10, <2>4 DEF Reconcile, ConnectorTypes, RowsTyped
<1>11. ASSUME NEW p \in Procs, NEW answer \in Answers, Conclude(p, answer) PROVE RowsTyped'
  BY Zenon, <1>1, <1>11 DEF Conclude
<1>12. ASSUME NEW p \in Procs, NEW answer \in Answers, release_retryable(p, answer) PROVE RowsTyped'
  <2>1. proc[p].request \in Requests
    BY Zenon, <1>12 DEF release_retryable, ConnectorTypes, ProcsTyped, Works, ProcWorking
  <2> QED
    BY ZenonT(60), <1>12, <2>1 DEF release_retryable, ConnectorTypes, RowsTyped, RequestRows
<1>13. ASSUME NEW r \in Requests, Expire(r) PROVE RowsTyped'
  BY Zenon, <1>13 DEF Expire, ConnectorTypes, RowsTyped
<1>14. CASE UNCHANGED connectorVars
  BY Zenon, <1>1, <1>14
<1> QED
  BY <1>2, <1>3, <1>4, <1>5, <1>6, <1>7, <1>8, <1>9, <1>10, <1>11, <1>12, <1>13, <1>14
     DEF ConnectorNext

(* A process that ends carries a receipt of its request. *)
LEMMA EndsTyped ==
    ASSUME ConnectorTypes, NEW p \in Procs, NEW r \in Requests, NEW outcome \in OutcomeStatuses,
           NEW sent \in BOOLEAN, ProcEnds(p, r, outcome, sent)
    PROVE  ProcsTyped'
<1> DEFINE receipt == [outcome |-> outcome, dispatched |-> sent]
           ending == [pc |-> "ending", generation |-> proc[p].generation, request |-> r, receipt |-> receipt]
<1>1. receipt \in Receipts
  BY Zenon DEF Receipts
<1>2. ending \in Processes
  BY Zenon, <1>1 DEF Processes, ProcWorking, ConnectorTypes, ProcsTyped
<1>3. proc' = [proc EXCEPT ![p] = ending]
  BY Zenon DEF ProcEnds
<1> QED
  BY Zenon, <1>1, <1>2, <1>3 DEF ConnectorTypes, ProcsTyped, Works

(* Every step leaves a process in one of its states. *)
LEMMA ProcsTypedStep == ConnectorTypes /\ [ConnectorNext]_connectorVars => ProcsTyped'
<1> SUFFICES ASSUME ConnectorTypes, [ConnectorNext]_connectorVars PROVE ProcsTyped'
  BY Zenon
<1> USE DEF connectorVars
<1>1. ASSUME UNCHANGED <<proc>> PROVE ProcsTyped'
  BY Zenon, <1>1 DEF ConnectorTypes, ProcsTyped, Works
<1>a. OffProc \in Processes /\ OffProc.pc = "off"
  BY Zenon DEF OffProc, Processes
<1>2. ASSUME NEW p \in Procs, NEW g \in Generations, Open(p, g) PROVE ProcsTyped'
  <2>1. [OffProc EXCEPT !.pc = "ready", !.generation = g] \in Processes
    BY Zenon, ConnectorAssumption DEF OffProc, Processes
  <2>2. [OffProc EXCEPT !.pc = "ready", !.generation = g].pc = "ready"
    BY Zenon DEF OffProc
  <2> QED
    BY Zenon, <1>2, <2>1, <2>2 DEF Open, ConnectorTypes, ProcsTyped, Works, ProcWorking
<1>3. ASSUME NEW p \in Procs, Leave(p) PROVE ProcsTyped'
  BY Zenon, <1>3, <1>a DEF Leave, ConnectorTypes, ProcsTyped, Works, ProcWorking
<1>4. ASSUME NEW p \in Procs, Die(p) PROVE ProcsTyped'
  BY Zenon, <1>4, <1>a DEF Die, ConnectorTypes, ProcsTyped, Works, ProcWorking
<1>5. ASSUME NEW p \in Procs, FindExpired(p) PROVE ProcsTyped'
  <2>1. proc[p].request \in Requests
    BY Zenon, <1>5 DEF FindExpired, ConnectorTypes, ProcsTyped, Works, ProcWorking
  <2> QED
    BY Zenon, <1>5, <2>1, EndsTyped DEF FindExpired, OutcomeStatuses
<1>6. ASSUME NEW p \in Procs, mark_dispatched(p) PROVE ProcsTyped'
  BY ZenonT(60), <1>6 DEF mark_dispatched, ProcGoes, ConnectorTypes, ProcsTyped, Works, ProcWorking, Processes
<1>7. ASSUME NEW p \in Procs, Send(p) PROVE ProcsTyped'
  BY ZenonT(60), <1>7 DEF Send, ProcGoes, ConnectorTypes, ProcsTyped, Works, ProcWorking, Processes
<1>8. ASSUME NEW p \in Procs, finalize(p) PROVE ProcsTyped'
  <2>1. [OffProc EXCEPT !.pc = "ready", !.generation = proc[p].generation] \in Processes
    BY Zenon DEF OffProc, Processes, ConnectorTypes, ProcsTyped
  <2>2. [OffProc EXCEPT !.pc = "ready", !.generation = proc[p].generation].pc = "ready"
    BY Zenon DEF OffProc
  <2> QED
    BY Zenon, <1>8, <2>1, <2>2 DEF finalize, ConnectorTypes, ProcsTyped, Works, ProcWorking
<1>9. ASSUME NEW p \in Procs, NEW r \in Requests, Reconcile(p, r) PROVE ProcsTyped'
  BY Zenon, <1>1, <1>9 DEF Reconcile
<1>10. ASSUME NEW p \in Procs, NEW r \in Requests, ClaimNew(p, r) PROVE ProcsTyped'
  BY ZenonT(60), <1>10 DEF ClaimNew, ProcGoes, ConnectorTypes, ProcsTyped, Works, ProcWorking, Processes
<1>11. ASSUME NEW p \in Procs, NEW r \in Requests, ClaimAgain(p, r) PROVE ProcsTyped'
  BY ZenonT(60), <1>11 DEF ClaimAgain, ProcGoes, ConnectorTypes, ProcsTyped, Works, ProcWorking, Processes
<1>12. ASSUME NEW p \in Procs, NEW r \in Requests, ClaimAmbiguous(p, r) PROVE ProcsTyped'
  BY Zenon, <1>12, EndsTyped DEF ClaimAmbiguous, OutcomeStatuses
<1>13. ASSUME NEW p \in Procs, NEW r \in Requests, ClaimExhausted(p, r) PROVE ProcsTyped'
  BY Zenon, <1>13, EndsTyped DEF ClaimExhausted, OutcomeStatuses
<1>14. ASSUME NEW p \in Procs, NEW answer \in Answers, release_retryable(p, answer)
       PROVE ProcsTyped'
  BY ZenonT(60), <1>14 DEF release_retryable, ProcGoes, ConnectorTypes, ProcsTyped, Works, ProcWorking, Processes
<1>15. ASSUME NEW p \in Procs, NEW answer \in Answers, Conclude(p, answer) PROVE ProcsTyped'
  <2>1. proc[p].request \in Requests
    BY Zenon, <1>15 DEF Conclude, ConnectorTypes, ProcsTyped, Works, ProcWorking
  <2>2. OutcomeOf(proc[p].request, answer) \in OutcomeStatuses
    BY Zenon DEF OutcomeOf, OutcomeStatuses, Answers
  <2> QED
    BY Zenon, <1>15, <2>1, <2>2, EndsTyped DEF Conclude
<1>16. ASSUME NEW r \in Requests, Expire(r) PROVE ProcsTyped'
  BY Zenon, <1>1, <1>16 DEF Expire
<1>17. CASE UNCHANGED connectorVars
  BY Zenon, <1>1, <1>17
<1> QED
  BY <1>2, <1>3, <1>4, <1>5, <1>6, <1>7, <1>8, <1>9, <1>10, <1>11, <1>12, <1>13, <1>14, <1>15,
     <1>16, <1>17
     DEF ConnectorNext

(* Every step keeps the lineage record within the known generations. *)
LEMMA LineageTypedStep == ConnectorTypes /\ [ConnectorNext]_connectorVars => LineageTyped'
<1> SUFFICES ASSUME ConnectorTypes, [ConnectorNext]_connectorVars PROVE LineageTyped'
  BY Zenon
<1> USE DEF connectorVars, ConnectorTypes, LineageTyped
<1>1. CASE UNCHANGED <<runtime, history, deaths>>
  BY Zenon, <1>1
<1>2. ASSUME NEW p \in Procs, NEW g \in Generations, Open(p, g) PROVE LineageTyped'
  BY Zenon, <1>2 DEF Open
<1>3. ASSUME NEW p \in Procs, Die(p) PROVE LineageTyped'
  BY <1>3, ConnectorAssumption DEF Die
<1> QED
  BY ZenonT(60), <1>1, <1>2, <1>3 DEF ConnectorNext, Leave, FindExpired, mark_dispatched, Send, finalize,
     ClaimNew, ClaimAgain, ClaimAmbiguous, ClaimExhausted, Reconcile, release_retryable, Conclude, Expire

(* All types together. *)
LEMMA ConnectorTypesStep ==
    ConnectorTypes /\ [ConnectorNext]_connectorVars => ConnectorTypes'
BY Zenon, RowsTypedStep, ProcsTypedStep, LineageTypedStep DEF ConnectorTypes

(* An empty directory has its types. *)
LEMMA ConnectorTypesInit == ConnectorInit => ConnectorTypes
<1>1. NoRequest \in RequestRows /\ OffProc \in Processes /\ OffProc.pc = "off"
  BY DEF NoRequest, RequestRows, OffProc, Processes
<1> QED
  BY <1>1, ConnectorAssumption
     DEF ConnectorInit, ConnectorTypes, RowsTyped, ProcsTyped, LineageTyped, Works, ProcWorking

(* Every row, process and lineage record keeps its type. *)
THEOREM ConnectorTyped == ConnectorSpec => []ConnectorTypeOK
<1>1. ConnectorTypes => ConnectorTypeOK
  BY Zenon DEF ConnectorTypes, ConnectorTypeOK, RowsTyped, ProcsTyped, LineageTyped
<1> QED
  BY <1>1, ConnectorTypesInit, ConnectorTypesStep, PTL DEF ConnectorSpec

-----------------------------------------------------------------------------
(* A pending request keeps two slots, an ambiguous receipt one, and only a   *)
(* terminal request has a receipt.                                           *)

Consistent(row) ==
    /\ row.status = "none" => row.reserved = 0
    /\ row.status = "pending" => row.reserved = 2
    /\ row.status = "terminal" =>
          /\ row.receipt \in Receipts
          /\ row.reserved = IF row.receipt.outcome = "ambiguous" THEN 1 ELSE 0
    /\ row.status # "terminal" => row.receipt = NoReceipt
    /\ row.status # "none" => row.generation \in Generations

RowsConsistent == \A r \in Requests : Consistent(request[r])

(* One process works at a time, on a pending request, for the generation it  *)
(* opened the directory with.                                                *)
Exclusive ==
    /\ \A p, q \in Procs : Works(p) /\ Works(q) => p = q
    /\ \A p \in Procs : Works(p) => request[proc[p].request].status = "pending"
    /\ \A p \in Procs : proc[p].pc # "off" => proc[p].generation \in Generations

LineageInv == RowsConsistent /\ Exclusive /\ OneRuntime

(* Every step that writes a request writes its slots and receipt with it. *)
LEMMA RowsConsistentStep ==
    ConnectorTypes /\ LineageInv /\ [ConnectorNext]_connectorVars => RowsConsistent'
<1> SUFFICES ASSUME ConnectorTypes, LineageInv, [ConnectorNext]_connectorVars PROVE RowsConsistent'
  BY Zenon
<1> USE DEF connectorVars
<1>1. ASSUME UNCHANGED <<request>> PROVE RowsConsistent'
  BY Zenon, <1>1 DEF LineageInv, RowsConsistent
<1>2. ASSUME NEW p \in Procs, NEW g \in Generations, Open(p, g) PROVE RowsConsistent'
  BY Zenon, <1>1, <1>2 DEF Open
<1>3. ASSUME NEW p \in Procs,
             \/ Leave(p) \/ Die(p) \/ FindExpired(p) \/ Send(p)
      PROVE RowsConsistent'
  BY Zenon, <1>1, <1>3 DEF Leave, Die, FindExpired, Send
<1>4. ASSUME NEW p \in Procs, mark_dispatched(p) PROVE RowsConsistent'
  <2>1. proc[p].request \in Requests
    BY Zenon, <1>4 DEF mark_dispatched, Works, ProcWorking, ConnectorTypes, ProcsTyped
  <2> QED
    BY <1>4, <2>1 DEF mark_dispatched, LineageInv, RowsConsistent, Consistent, ConnectorTypes, RowsTyped,
       RequestRows
<1>5. ASSUME NEW p \in Procs, finalize(p) PROVE RowsConsistent'
  <2>1. Works(p) /\ proc[p].request \in Requests /\ request[proc[p].request].status = "pending"
    BY Zenon, <1>5 DEF finalize, Works, ProcWorking, ConnectorTypes, ProcsTyped, LineageInv, Exclusive
  <2>2. proc[p].receipt \in Receipts
    BY ZenonT(60), <1>5 DEF finalize, ConnectorTypes, ProcsTyped
  <2> DEFINE r == proc[p].request
  <2>3. /\ request'[r].status = "terminal" /\ request'[r].receipt = proc[p].receipt
        /\ request'[r].reserved = IF proc[p].receipt.outcome = "ambiguous" THEN 1 ELSE 0
        /\ request'[r].generation = request[r].generation
        /\ \A s \in Requests \ {r} : request'[s] = request[s]
    BY <1>5, <2>1 DEF finalize, ConnectorTypes, RowsTyped, RequestRows
  <2> QED
    BY <2>1, <2>2, <2>3 DEF LineageInv, RowsConsistent, Consistent
<1>6. ASSUME NEW p \in Procs, NEW r \in Requests,
             \/ ClaimAmbiguous(p, r) \/ ClaimExhausted(p, r)
      PROVE RowsConsistent'
  BY Zenon, <1>1, <1>6 DEF ClaimAmbiguous, ClaimExhausted
<1>7. ASSUME NEW p \in Procs, NEW r \in Requests, ClaimNew(p, r) PROVE RowsConsistent'
  <2>1. proc[p].generation \in Generations
    BY Zenon, <1>7 DEF ClaimNew, MayClaim, LineageInv, Exclusive
  <2>2. /\ request'[r].status = "pending" /\ request'[r].reserved = 2
        /\ request'[r].receipt = NoReceipt /\ request'[r].generation = proc[p].generation
        /\ \A s \in Requests \ {r} : request'[s] = request[s]
    BY Zenon, <1>7 DEF ClaimNew, NoRequest, ConnectorTypes, RowsTyped
  <2> QED
    BY <2>1, <2>2 DEF LineageInv, RowsConsistent, Consistent
<1>8. ASSUME NEW p \in Procs, NEW r \in Requests, ClaimAgain(p, r) PROVE RowsConsistent'
  BY <1>8 DEF ClaimAgain, LineageInv, RowsConsistent, Consistent, ConnectorTypes, RowsTyped, RequestRows
<1>9. ASSUME NEW p \in Procs, NEW r \in Requests, Reconcile(p, r) PROVE RowsConsistent'
  <2> DEFINE resolved == [outcome |-> "succeeded", dispatched |-> request[r].receipt.dispatched]
  <2>1. resolved \in Receipts /\ resolved.outcome = "succeeded"
    BY Zenon, <1>9 DEF Reconcile, LineageInv, RowsConsistent, Consistent, Receipts, OutcomeStatuses
  <2>2. request' = [request EXCEPT ![r].receipt = resolved, ![r].reserved = 0] /\ request[r].status = "terminal"
    BY Zenon, <1>9 DEF Reconcile
  <2> HIDE DEF resolved
  <2> QED
    BY <2>1, <2>2 DEF LineageInv, RowsConsistent, Consistent, ConnectorTypes, RowsTyped, RequestRows
<1>10. ASSUME NEW p \in Procs, NEW answer \in Answers, Conclude(p, answer) PROVE RowsConsistent'
  BY Zenon, <1>1, <1>10 DEF Conclude
<1>11. ASSUME NEW p \in Procs, NEW answer \in Answers, release_retryable(p, answer)
       PROVE RowsConsistent'
  <2>1. proc[p].request \in Requests
    BY Zenon, <1>11 DEF release_retryable, Works, ProcWorking, ConnectorTypes, ProcsTyped
  <2> QED
    BY <1>11, <2>1 DEF release_retryable, LineageInv, RowsConsistent, Consistent, ConnectorTypes, RowsTyped,
       RequestRows
<1>12. ASSUME NEW r \in Requests, Expire(r) PROVE RowsConsistent'
  BY Zenon, <1>1, <1>12 DEF Expire
<1>13. CASE UNCHANGED connectorVars
  BY Zenon, <1>1, <1>13
<1> QED
  BY <1>2, <1>3, <1>4, <1>5, <1>6, <1>7, <1>8, <1>9, <1>10, <1>11, <1>12, <1>13
     DEF ConnectorNext

(* The directory lock admits one working process. *)
LEMMA ExclusiveStep ==
    ConnectorTypes /\ LineageInv /\ [ConnectorNext]_connectorVars => Exclusive'
<1> SUFFICES ASSUME ConnectorTypes, LineageInv, [ConnectorNext]_connectorVars PROVE Exclusive'
  BY Zenon
<1> USE DEF connectorVars
<1>1. ASSUME UNCHANGED <<proc, request>> PROVE Exclusive'
  BY Zenon, <1>1 DEF LineageInv, Exclusive, Works
<1>t. /\ proc \in [Procs -> Processes] /\ request \in [Requests -> RequestRows]
      /\ \A p \in Procs : Works(p) => proc[p].request \in Requests
  BY Zenon DEF ConnectorTypes, RowsTyped, ProcsTyped
<1>2. ASSUME NEW p \in Procs, NEW g \in Generations, Open(p, g) PROVE Exclusive'
  <2>1. \A q \in Procs \ {p} : proc'[q] = proc[q]
    BY Zenon, <1>2, <1>t DEF Open
  <2>2. proc'[p].pc = "ready" /\ proc'[p].generation = g
    BY Zenon, <1>2, <1>t DEF Open, OffProc
  <2> QED
    BY <1>2, <2>1, <2>2 DEF Open, LineageInv, Exclusive, Works, ProcWorking
<1>3. ASSUME NEW p \in Procs, Leave(p) PROVE Exclusive'
  <2>1. \A q \in Procs \ {p} : proc'[q] = proc[q]
    BY Zenon, <1>3, <1>t DEF Leave
  <2>2. proc'[p].pc = "off"
    BY Zenon, <1>3, <1>t DEF Leave, OffProc
  <2> QED
    BY <1>3, <2>1, <2>2 DEF Leave, LineageInv, Exclusive, Works, ProcWorking
<1>4. ASSUME NEW p \in Procs, Die(p) PROVE Exclusive'
  <2>1. \A q \in Procs \ {p} : proc'[q] = proc[q]
    BY Zenon, <1>4, <1>t DEF Die
  <2>2. proc'[p].pc = "off"
    BY Zenon, <1>4, <1>t DEF Die, OffProc
  <2> QED
    BY <1>4, <2>1, <2>2 DEF Die, LineageInv, Exclusive, Works, ProcWorking
<1>5. ASSUME NEW p \in Procs, FindExpired(p) PROVE Exclusive'
  <2>1. Works(p) /\ proc[p].request \in Requests /\ request[proc[p].request].status = "pending"
    BY Zenon, <1>5 DEF FindExpired, Works, ProcWorking, ConnectorTypes, ProcsTyped, LineageInv, Exclusive
  <2>2. /\ \A q \in Procs \ {p} : proc'[q] = proc[q]
        /\ Works(p)' /\ proc'[p].request = proc[p].request /\ proc'[p].generation = proc[p].generation
        /\ proc'[p].pc # "off"
    BY Zenon, <1>5, <1>t DEF FindExpired, ProcGoes, ProcEnds, Works, ProcWorking, Processes
  <2>3. /\ \A s \in Requests : request'[s].status = request[s].status
    BY Zenon, <1>5, <1>t, <2>1 DEF FindExpired, RequestRows
  <2>4. \A q \in Procs \ {p} : ~Works(q)'
    BY Zenon, <2>1, <2>2 DEF LineageInv, Exclusive, Works
  <2>5. request'[proc'[p].request].status = "pending" /\ proc'[p].generation \in Generations
    BY Zenon, <2>1, <2>2, <2>3 DEF LineageInv, Exclusive, Works, ProcWorking
  <2> QED
    BY Zenon, <2>2, <2>4, <2>5 DEF LineageInv, Exclusive
<1>6. ASSUME NEW p \in Procs, mark_dispatched(p) PROVE Exclusive'
  <2>1. Works(p) /\ proc[p].request \in Requests /\ request[proc[p].request].status = "pending"
    BY Zenon, <1>6 DEF mark_dispatched, Works, ProcWorking, ConnectorTypes, ProcsTyped, LineageInv, Exclusive
  <2>2. /\ \A q \in Procs \ {p} : proc'[q] = proc[q]
        /\ Works(p)' /\ proc'[p].request = proc[p].request /\ proc'[p].generation = proc[p].generation
        /\ proc'[p].pc # "off"
    BY Zenon, <1>6, <1>t DEF mark_dispatched, ProcGoes, ProcEnds, Works, ProcWorking, Processes
  <2>3. /\ \A s \in Requests : request'[s].status = request[s].status
    BY Zenon, <1>6, <1>t, <2>1 DEF mark_dispatched, RequestRows
  <2>4. \A q \in Procs \ {p} : ~Works(q)'
    BY Zenon, <2>1, <2>2 DEF LineageInv, Exclusive, Works
  <2>5. request'[proc'[p].request].status = "pending" /\ proc'[p].generation \in Generations
    BY Zenon, <2>1, <2>2, <2>3 DEF LineageInv, Exclusive, Works, ProcWorking
  <2> QED
    BY Zenon, <2>2, <2>4, <2>5 DEF LineageInv, Exclusive
<1>7. ASSUME NEW p \in Procs, Send(p) PROVE Exclusive'
  <2>1. Works(p) /\ proc[p].request \in Requests /\ request[proc[p].request].status = "pending"
    BY Zenon, <1>7 DEF Send, Works, ProcWorking, ConnectorTypes, ProcsTyped, LineageInv, Exclusive
  <2>2. /\ \A q \in Procs \ {p} : proc'[q] = proc[q]
        /\ Works(p)' /\ proc'[p].request = proc[p].request /\ proc'[p].generation = proc[p].generation
        /\ proc'[p].pc # "off"
    BY <1>7, <1>t DEF Send, ProcGoes, ProcEnds, Works, ProcWorking, Processes
  <2>3. /\ \A s \in Requests : request'[s].status = request[s].status
    BY Zenon, <1>7, <1>t, <2>1 DEF Send, RequestRows
  <2>4. \A q \in Procs \ {p} : ~Works(q)'
    BY Zenon, <2>1, <2>2 DEF LineageInv, Exclusive, Works
  <2>5. request'[proc'[p].request].status = "pending" /\ proc'[p].generation \in Generations
    BY Zenon, <2>1, <2>2, <2>3 DEF LineageInv, Exclusive, Works, ProcWorking
  <2> QED
    BY Zenon, <2>2, <2>4, <2>5 DEF LineageInv, Exclusive
<1>8. ASSUME NEW p \in Procs, finalize(p) PROVE Exclusive'
  <2>1. Works(p) /\ proc[p].request \in Requests /\ request[proc[p].request].status = "pending"
    BY Zenon, <1>8 DEF finalize, Works, ProcWorking, ConnectorTypes, ProcsTyped, LineageInv, Exclusive
  <2>2. \A q \in Procs \ {p} : proc'[q] = proc[q] /\ ~Works(q)
    BY Zenon, <1>8, <1>t, <2>1 DEF finalize, LineageInv, Exclusive
  <2>3. proc'[p].pc = "ready" /\ proc'[p].generation = proc[p].generation
    BY Zenon, <1>8, <1>t DEF finalize, OffProc
  <2> QED
    BY <2>1, <2>2, <2>3 DEF LineageInv, Exclusive, Works, ProcWorking
<1>9. ASSUME NEW p \in Procs, NEW r \in Requests, ClaimNew(p, r) PROVE Exclusive'
  <2>1. \A q \in Procs \ {p} : ~Works(q)
    BY Zenon, <1>9 DEF ClaimNew, MayClaim, LockFree, LineageInv, Exclusive, Works, ProcWorking
  <2>2. /\ \A q \in Procs \ {p} : proc'[q] = proc[q]
        /\ proc'[p].request = r /\ proc'[p].generation = proc[p].generation
    BY <1>9, <1>t DEF ClaimNew, ProcGoes, ProcEnds, Processes
  <2>3. proc[p].generation \in Generations
    BY Zenon, <1>9 DEF ClaimNew, MayClaim, LineageInv, Exclusive
  <2>4. request'[r].status = "pending"
    BY Zenon, <1>9, <1>t DEF ClaimNew, NoRequest
  <2> QED
    BY Zenon, <2>1, <2>2, <2>3, <2>4 DEF LineageInv, Exclusive, Works
<1>10. ASSUME NEW p \in Procs, NEW r \in Requests, ClaimAgain(p, r) PROVE Exclusive'
  <2>1. \A q \in Procs \ {p} : ~Works(q)
    BY Zenon, <1>10 DEF ClaimAgain, MayClaim, LockFree, LineageInv, Exclusive, Works, ProcWorking
  <2>2. /\ \A q \in Procs \ {p} : proc'[q] = proc[q]
        /\ proc'[p].request = r /\ proc'[p].generation = proc[p].generation
    BY <1>10, <1>t DEF ClaimAgain, ProcGoes, ProcEnds, Processes
  <2>3. proc[p].generation \in Generations
    BY Zenon, <1>10 DEF ClaimAgain, MayClaim, LineageInv, Exclusive
  <2>4. request'[r].status = "pending"
    BY Zenon, <1>10, <1>t DEF ClaimAgain, RequestRows
  <2> QED
    BY Zenon, <2>1, <2>2, <2>3, <2>4 DEF LineageInv, Exclusive, Works
<1>11. ASSUME NEW p \in Procs, NEW r \in Requests, ClaimAmbiguous(p, r) PROVE Exclusive'
  <2>1. \A q \in Procs \ {p} : ~Works(q)
    BY Zenon, <1>11 DEF ClaimAmbiguous, MayClaim, LockFree, LineageInv, Exclusive, Works, ProcWorking
  <2>2. /\ \A q \in Procs \ {p} : proc'[q] = proc[q]
        /\ proc'[p].request = r /\ proc'[p].generation = proc[p].generation
    BY Zenon, <1>11, <1>t DEF ClaimAmbiguous, ProcGoes, ProcEnds, Processes
  <2>3. proc[p].generation \in Generations
    BY Zenon, <1>11 DEF ClaimAmbiguous, MayClaim, LineageInv, Exclusive
  <2>4. request'[r].status = "pending"
    BY Zenon, <1>11, <1>t DEF ClaimAmbiguous
  <2> QED
    BY Zenon, <2>1, <2>2, <2>3, <2>4 DEF LineageInv, Exclusive, Works
<1>12. ASSUME NEW p \in Procs, NEW r \in Requests, ClaimExhausted(p, r) PROVE Exclusive'
  <2>1. \A q \in Procs \ {p} : ~Works(q)
    BY Zenon, <1>12 DEF ClaimExhausted, MayClaim, LockFree, LineageInv, Exclusive, Works, ProcWorking
  <2>2. /\ \A q \in Procs \ {p} : proc'[q] = proc[q]
        /\ proc'[p].request = r /\ proc'[p].generation = proc[p].generation
    BY Zenon, <1>12, <1>t DEF ClaimExhausted, ProcGoes, ProcEnds, Processes
  <2>3. proc[p].generation \in Generations
    BY Zenon, <1>12 DEF ClaimExhausted, MayClaim, LineageInv, Exclusive
  <2>4. request'[r].status = "pending"
    BY Zenon, <1>12, <1>t DEF ClaimExhausted
  <2> QED
    BY Zenon, <2>1, <2>2, <2>3, <2>4 DEF LineageInv, Exclusive, Works
<1>13. ASSUME NEW p \in Procs, NEW r \in Requests, Reconcile(p, r) PROVE Exclusive'
  <2>1. \A q \in Procs : ~Works(q)
    BY Zenon, <1>13 DEF Reconcile, LockFree, Works
  <2> QED
    BY Zenon, <1>13, <2>1 DEF Reconcile, LineageInv, Exclusive, Works
<1>14. ASSUME NEW p \in Procs, NEW answer \in Answers, release_retryable(p, answer) PROVE Exclusive'
  <2>1. Works(p) /\ proc[p].request \in Requests /\ request[proc[p].request].status = "pending"
    BY Zenon, <1>14 DEF release_retryable, Works, ProcWorking, ConnectorTypes, ProcsTyped, LineageInv, Exclusive
  <2>2. /\ \A q \in Procs \ {p} : proc'[q] = proc[q]
        /\ Works(p)' /\ proc'[p].request = proc[p].request /\ proc'[p].generation = proc[p].generation
        /\ proc'[p].pc # "off"
    BY Zenon, <1>14, <1>t DEF release_retryable, ProcGoes, ProcEnds, Works, ProcWorking, Processes
  <2>3. /\ \A s \in Requests : request'[s].status = request[s].status
    BY Zenon, <1>14, <1>t, <2>1 DEF release_retryable, RequestRows
  <2>4. \A q \in Procs \ {p} : ~Works(q)'
    BY Zenon, <2>1, <2>2 DEF LineageInv, Exclusive, Works
  <2>5. request'[proc'[p].request].status = "pending" /\ proc'[p].generation \in Generations
    BY Zenon, <2>1, <2>2, <2>3 DEF LineageInv, Exclusive, Works, ProcWorking
  <2> QED
    BY Zenon, <2>2, <2>4, <2>5 DEF LineageInv, Exclusive
<1>15. ASSUME NEW p \in Procs, NEW answer \in Answers, Conclude(p, answer) PROVE Exclusive'
  <2>1. Works(p) /\ proc[p].request \in Requests /\ request[proc[p].request].status = "pending"
    BY Zenon, <1>15 DEF Conclude, Works, ProcWorking, ConnectorTypes, ProcsTyped, LineageInv, Exclusive
  <2>2. /\ \A q \in Procs \ {p} : proc'[q] = proc[q]
        /\ Works(p)' /\ proc'[p].request = proc[p].request /\ proc'[p].generation = proc[p].generation
        /\ proc'[p].pc # "off"
    BY Zenon, <1>15, <1>t DEF Conclude, ProcGoes, ProcEnds, Works, ProcWorking, Processes
  <2>3. /\ \A s \in Requests : request'[s].status = request[s].status
    BY Zenon, <1>15, <1>t, <2>1 DEF Conclude, RequestRows
  <2>4. \A q \in Procs \ {p} : ~Works(q)'
    BY Zenon, <2>1, <2>2 DEF LineageInv, Exclusive, Works
  <2>5. request'[proc'[p].request].status = "pending" /\ proc'[p].generation \in Generations
    BY Zenon, <2>1, <2>2, <2>3 DEF LineageInv, Exclusive, Works, ProcWorking
  <2> QED
    BY Zenon, <2>2, <2>4, <2>5 DEF LineageInv, Exclusive
<1>16. ASSUME NEW r \in Requests, Expire(r) PROVE Exclusive'
  BY Zenon, <1>1, <1>16 DEF Expire
<1>17. CASE UNCHANGED connectorVars
  BY Zenon, <1>1, <1>17
<1> QED
  BY <1>2, <1>3, <1>4, <1>5, <1>6, <1>7, <1>8, <1>9, <1>10, <1>11, <1>12, <1>13, <1>14, <1>15,
     <1>16, <1>17
     DEF ConnectorNext

(* A generation takes over only when nothing is unsettled. *)
LEMMA OneRuntimeStep ==
    ConnectorTypes /\ LineageInv /\ [ConnectorNext]_connectorVars => OneRuntime'
<1> SUFFICES ASSUME ConnectorTypes, LineageInv, [ConnectorNext]_connectorVars PROVE OneRuntime'
  BY Zenon
<1> USE DEF connectorVars
<1>1. ASSUME UNCHANGED <<proc, request, runtime>> PROVE OneRuntime'
  BY Zenon, <1>1 DEF LineageInv, OneRuntime, Unsettled
<1>t. proc \in [Procs -> Processes] /\ request \in [Requests -> RequestRows]
  BY Zenon DEF ConnectorTypes, RowsTyped, ProcsTyped
<1>2. ASSUME NEW p \in Procs, NEW g \in Generations, Open(p, g) PROVE OneRuntime'
  <2>1. \A q \in Procs : ~Works(q)'
    <3>1. proc'[p].pc = "ready" /\ \A q \in Procs \ {p} : proc'[q] = proc[q]
      BY Zenon, <1>2, <1>t DEF Open, OffProc
    <3> QED
      BY Zenon, <1>2, <3>1 DEF Open, LockFree, Works, ProcWorking
  <2>2. \A r \in Unsettled : request[r].generation = runtime /\ request[r].generation \in Generations
    BY Zenon DEF LineageInv, OneRuntime, Unsettled, RowsConsistent, Consistent
  <2>3. \A r \in Unsettled : runtime # 0
    BY Zenon, <2>2, ConnectorAssumption
  <2>4. \A r \in Unsettled : runtime' = runtime
    BY Zenon, <1>2, <2>3 DEF Open
  <2> QED
    BY Zenon, <1>2, <2>1, <2>2, <2>4 DEF Open, OneRuntime, Unsettled, Works
<1>3. ASSUME NEW p \in Procs, Leave(p) PROVE OneRuntime'
  <2>1. \A q \in Procs \ {p} : proc'[q] = proc[q]
    BY Zenon, <1>3, <1>t DEF Leave
  <2>2. proc'[p].pc = "off"
    BY Zenon, <1>3, <1>t DEF Leave, OffProc
  <2> QED
    BY Zenon, <1>3, <2>1, <2>2 DEF Leave, LineageInv, OneRuntime, Unsettled, ProcWorking
<1>4. ASSUME NEW p \in Procs, Die(p) PROVE OneRuntime'
  <2>1. \A q \in Procs \ {p} : proc'[q] = proc[q]
    BY Zenon, <1>4, <1>t DEF Die
  <2>2. proc'[p].pc = "off"
    BY Zenon, <1>4, <1>t DEF Die, OffProc
  <2> QED
    BY Zenon, <1>4, <2>1, <2>2 DEF Die, LineageInv, OneRuntime, Unsettled, ProcWorking
<1>5. ASSUME NEW p \in Procs, FindExpired(p) PROVE OneRuntime'
  <2>1. Works(p) /\ proc[p].request \in Requests /\ request[proc[p].request].status = "pending"
    BY Zenon, <1>5 DEF FindExpired, Works, ProcWorking, ConnectorTypes, ProcsTyped, LineageInv, Exclusive
  <2>2. /\ \A q \in Procs \ {p} : proc'[q] = proc[q]
        /\ proc'[p].generation = proc[p].generation /\ runtime' = runtime
    BY Zenon, <1>5, <1>t DEF FindExpired, ProcGoes, ProcEnds, Processes
  <2>3. \A s \in Requests : /\ request'[s].status = request[s].status
                            /\ request'[s].reserved = request[s].reserved
                            /\ request'[s].generation = request[s].generation
    BY Zenon, <1>5, <1>t, <2>1 DEF FindExpired, RequestRows
  <2> QED
    BY <2>1, <2>2, <2>3 DEF LineageInv, OneRuntime, Unsettled, Works
<1>6. ASSUME NEW p \in Procs, mark_dispatched(p) PROVE OneRuntime'
  <2>1. Works(p) /\ proc[p].request \in Requests /\ request[proc[p].request].status = "pending"
    BY Zenon, <1>6 DEF mark_dispatched, Works, ProcWorking, ConnectorTypes, ProcsTyped, LineageInv, Exclusive
  <2>2. /\ \A q \in Procs \ {p} : proc'[q] = proc[q]
        /\ proc'[p].generation = proc[p].generation /\ runtime' = runtime
    BY <1>6, <1>t DEF mark_dispatched, ProcGoes, ProcEnds, Processes
  <2>3. \A s \in Requests : /\ request'[s].status = request[s].status
                            /\ request'[s].reserved = request[s].reserved
                            /\ request'[s].generation = request[s].generation
    BY <1>6, <1>t, <2>1 DEF mark_dispatched, RequestRows
  <2> QED
    BY <2>1, <2>2, <2>3 DEF LineageInv, OneRuntime, Unsettled, Works
<1>7. ASSUME NEW p \in Procs, Send(p) PROVE OneRuntime'
  <2>1. Works(p) /\ proc[p].request \in Requests /\ request[proc[p].request].status = "pending"
    BY Zenon, <1>7 DEF Send, Works, ProcWorking, ConnectorTypes, ProcsTyped, LineageInv, Exclusive
  <2>2. /\ \A q \in Procs \ {p} : proc'[q] = proc[q]
        /\ proc'[p].generation = proc[p].generation /\ runtime' = runtime
    BY <1>7, <1>t DEF Send, ProcGoes, ProcEnds, Processes
  <2>3. \A s \in Requests : /\ request'[s].status = request[s].status
                            /\ request'[s].reserved = request[s].reserved
                            /\ request'[s].generation = request[s].generation
    BY Zenon, <1>7, <1>t, <2>1 DEF Send, RequestRows
  <2> QED
    BY <2>1, <2>2, <2>3 DEF LineageInv, OneRuntime, Unsettled, Works
<1>8. ASSUME NEW p \in Procs, finalize(p) PROVE OneRuntime'
  <2>1. Works(p) /\ proc[p].request \in Requests /\ request[proc[p].request].status = "pending"
    BY Zenon, <1>8 DEF finalize, Works, ProcWorking, ConnectorTypes, ProcsTyped, LineageInv, Exclusive
  <2> DEFINE r == proc[p].request
  <2>2. /\ \A q \in Procs \ {p} : proc'[q] = proc[q]
        /\ proc'[p].pc = "ready" /\ runtime' = runtime
    BY Zenon, <1>8, <1>t DEF finalize, OffProc
  <2>3. /\ request'[r].generation = request[r].generation
        /\ \A s \in Requests \ {r} : request'[s] = request[s]
    BY <1>8, <1>t, <2>1 DEF finalize, RequestRows
  <2> QED
    BY <2>1, <2>2, <2>3 DEF LineageInv, OneRuntime, Unsettled, ProcWorking
<1>9. ASSUME NEW p \in Procs, NEW r \in Requests, ClaimNew(p, r) PROVE OneRuntime'
  <2>1. proc[p].generation = runtime
    BY Zenon, <1>9 DEF ClaimNew, MayClaim, OfRuntime, LineageInv, OneRuntime, ProcWorking
  <2>2. /\ \A q \in Procs \ {p} : proc'[q] = proc[q]
        /\ proc'[p].generation = proc[p].generation /\ runtime' = runtime
    BY <1>9, <1>t DEF ClaimNew, ProcGoes, ProcEnds, Processes
  <2>3. /\ request'[r].generation = proc[p].generation
        /\ \A s \in Requests \ {r} : request'[s] = request[s]
    BY Zenon, <1>9, <1>t DEF ClaimNew, NoRequest
  <2> QED
    BY <2>1, <2>2, <2>3 DEF LineageInv, OneRuntime, Unsettled
<1>10. ASSUME NEW p \in Procs, NEW r \in Requests, ClaimAgain(p, r) PROVE OneRuntime'
  <2>1. proc[p].generation = runtime
    BY Zenon, <1>10 DEF ClaimAgain, MayClaim, OfRuntime, LineageInv, OneRuntime, ProcWorking
  <2>2. /\ \A q \in Procs \ {p} : proc'[q] = proc[q]
        /\ proc'[p].generation = proc[p].generation /\ runtime' = runtime
    BY Zenon, <1>10, <1>t DEF ClaimAgain, ProcGoes, ProcEnds, Processes
  <2>3. \A s \in Requests : /\ request'[s].status = request[s].status
                            /\ request'[s].reserved = request[s].reserved
                            /\ request'[s].generation = request[s].generation
    BY Zenon, <1>10, <1>t DEF ClaimAgain, RequestRows
  <2> QED
    BY <2>1, <2>2, <2>3 DEF LineageInv, OneRuntime, Unsettled
<1>11. ASSUME NEW p \in Procs, NEW r \in Requests, ClaimAmbiguous(p, r) PROVE OneRuntime'
  <2>1. proc[p].generation = runtime
    BY Zenon, <1>11 DEF ClaimAmbiguous, MayClaim, OfRuntime, LineageInv, OneRuntime, ProcWorking
  <2>2. /\ \A q \in Procs \ {p} : proc'[q] = proc[q]
        /\ proc'[p].generation = proc[p].generation /\ runtime' = runtime
    BY Zenon, <1>11, <1>t DEF ClaimAmbiguous, ProcGoes, ProcEnds, Processes
  <2>3. \A s \in Requests : /\ request'[s].status = request[s].status
                            /\ request'[s].reserved = request[s].reserved
                            /\ request'[s].generation = request[s].generation
    BY Zenon, <1>11, <1>t DEF ClaimAmbiguous, RequestRows
  <2> QED
    BY <2>1, <2>2, <2>3 DEF LineageInv, OneRuntime, Unsettled
<1>12. ASSUME NEW p \in Procs, NEW r \in Requests, ClaimExhausted(p, r) PROVE OneRuntime'
  <2>1. proc[p].generation = runtime
    BY Zenon, <1>12 DEF ClaimExhausted, MayClaim, OfRuntime, LineageInv, OneRuntime, ProcWorking
  <2>2. /\ \A q \in Procs \ {p} : proc'[q] = proc[q]
        /\ proc'[p].generation = proc[p].generation /\ runtime' = runtime
    BY Zenon, <1>12, <1>t DEF ClaimExhausted, ProcGoes, ProcEnds, Processes
  <2>3. \A s \in Requests : /\ request'[s].status = request[s].status
                            /\ request'[s].reserved = request[s].reserved
                            /\ request'[s].generation = request[s].generation
    BY Zenon, <1>12, <1>t DEF ClaimExhausted, RequestRows
  <2> QED
    BY <2>1, <2>2, <2>3 DEF LineageInv, OneRuntime, Unsettled
<1>13. ASSUME NEW p \in Procs, NEW r \in Requests, Reconcile(p, r) PROVE OneRuntime'
  <2>1. /\ request'[r].status = "terminal" /\ request'[r].reserved = 0
        /\ \A s \in Requests \ {r} : request'[s] = request[s]
    BY <1>13, <1>t DEF Reconcile, RequestRows
  <2> QED
    BY ZenonT(60), <1>13, <2>1 DEF Reconcile, LineageInv, OneRuntime, Unsettled
<1>14. ASSUME NEW p \in Procs, NEW answer \in Answers, release_retryable(p, answer)
       PROVE OneRuntime'
  <2>1. Works(p) /\ proc[p].request \in Requests /\ request[proc[p].request].status = "pending"
    BY Zenon, <1>14 DEF release_retryable, Works, ProcWorking, ConnectorTypes, ProcsTyped, LineageInv, Exclusive
  <2>2. /\ \A q \in Procs \ {p} : proc'[q] = proc[q]
        /\ proc'[p].generation = proc[p].generation /\ runtime' = runtime
    BY <1>14, <1>t DEF release_retryable, ProcGoes, ProcEnds, Processes
  <2>3. \A s \in Requests : /\ request'[s].status = request[s].status
                            /\ request'[s].reserved = request[s].reserved
                            /\ request'[s].generation = request[s].generation
    BY <1>14, <1>t, <2>1 DEF release_retryable, RequestRows
  <2> QED
    BY <2>1, <2>2, <2>3 DEF LineageInv, OneRuntime, Unsettled, Works
<1>15. ASSUME NEW p \in Procs, NEW answer \in Answers, Conclude(p, answer) PROVE OneRuntime'
  <2>1. Works(p) /\ proc[p].request \in Requests /\ request[proc[p].request].status = "pending"
    BY Zenon, <1>15 DEF Conclude, Works, ProcWorking, ConnectorTypes, ProcsTyped, LineageInv, Exclusive
  <2>2. /\ \A q \in Procs \ {p} : proc'[q] = proc[q]
        /\ proc'[p].generation = proc[p].generation /\ runtime' = runtime
    BY Zenon, <1>15, <1>t DEF Conclude, ProcGoes, ProcEnds, Processes
  <2>3. \A s \in Requests : /\ request'[s].status = request[s].status
                            /\ request'[s].reserved = request[s].reserved
                            /\ request'[s].generation = request[s].generation
    BY Zenon, <1>15, <1>t, <2>1 DEF Conclude, RequestRows
  <2> QED
    BY <2>1, <2>2, <2>3 DEF LineageInv, OneRuntime, Unsettled, Works
<1>16. ASSUME NEW r \in Requests, Expire(r) PROVE OneRuntime'
  BY Zenon, <1>1, <1>16 DEF Expire
<1>17. CASE UNCHANGED connectorVars
  BY Zenon, <1>1, <1>17
<1> QED
  BY <1>2, <1>3, <1>4, <1>5, <1>6, <1>7, <1>8, <1>9, <1>10, <1>11, <1>12, <1>13, <1>14, <1>15,
     <1>16, <1>17
     DEF ConnectorNext

(* All three together. *)
LEMMA LineageStep ==
    ConnectorTypes /\ LineageInv /\ [ConnectorNext]_connectorVars => LineageInv'
BY Zenon, RowsConsistentStep, ExclusiveStep, OneRuntimeStep DEF LineageInv

(* An empty directory has no generation and no work. *)
LEMMA LineageInit == ConnectorInit => LineageInv
<1> SUFFICES ASSUME ConnectorInit PROVE LineageInv
  BY Zenon
<1>1. RowsConsistent
  BY Zenon DEF ConnectorInit, RowsConsistent, Consistent, NoRequest
<1>2. Exclusive
  BY Zenon DEF ConnectorInit, Exclusive, Works, ProcWorking, OffProc
<1>3. OneRuntime
  BY Zenon DEF ConnectorInit, OneRuntime, Unsettled, ProcWorking, OffProc, NoRequest
<1> QED
  BY Zenon, <1>1, <1>2, <1>3 DEF LineageInv

(* They hold in every reachable state. *)
LEMMA LineageInvariant == ConnectorSpec => [](ConnectorTypes /\ LineageInv)
<1>1. ConnectorInit => ConnectorTypes /\ LineageInv
  BY Zenon, ConnectorTypesInit, LineageInit
<1>2. ConnectorTypes /\ LineageInv /\ [ConnectorNext]_connectorVars => (ConnectorTypes /\ LineageInv)'
  BY Zenon, ConnectorTypesStep, LineageStep
<1> QED
  BY <1>1, <1>2, PTL DEF ConnectorSpec

(* A generation takes over only when nothing is unsettled: whoever works is  *)
(* of the active generation, and so is every unsettled request, whichever    *)
(* processes die and reopen the directory.                                   *)
THEOREM RuntimeIsOne == ConnectorSpec => []OneRuntime
BY LineageInvariant, PTL DEF LineageInv

-----------------------------------------------------------------------------
(* Room for evidence *)

(* There are finitely many requests. *)
LEMMA HoldingFinite ==
    ASSUME NEW S \in SUBSET Requests
    PROVE  IsFiniteSet(S) /\ Cardinality(S) \in Nat
<1>1. IsFiniteSet(S)
  BY Zenon, ConnectorAssumption, FS_Subset
<1> QED
  BY Zenon, <1>1, FS_CardinalityType

Count(r, S) == IF r \in S THEN 1 ELSE 0

(* Two sets that differ in one element at most. *)
LEMMA CountMoves ==
    ASSUME NEW S \in SUBSET Requests, NEW T \in SUBSET Requests, NEW r, S \ {r} = T \ {r}
    PROVE  Cardinality(T) + Count(r, S) = Cardinality(S) + Count(r, T)
<1>1. /\ IsFiniteSet(S) /\ Cardinality(S) \in Nat
      /\ IsFiniteSet(T) /\ Cardinality(T) \in Nat
  BY Zenon, HoldingFinite
<1>2. Cardinality(S \ {r}) = IF r \in S THEN Cardinality(S) - 1 ELSE Cardinality(S)
  BY Zenon, <1>1, FS_RemoveElement
<1>3. Cardinality(T \ {r}) = IF r \in T THEN Cardinality(T) - 1 ELSE Cardinality(T)
  BY Zenon, <1>1, FS_RemoveElement
<1>4. Cardinality(S \ {r}) = Cardinality(T \ {r})
  BY Zenon
<1> QED
  BY <1>1, <1>2, <1>3, <1>4 DEF Count

(* When one request changes, the reserved slots change by what it reserves. *)
LEMMA SlotsMove ==
    ASSUME ConnectorTypes, ConnectorTypes', NEW r \in Requests,
           \A s \in Requests \ {r} : request'[s].reserved = request[s].reserved
    PROVE  ReservedSlots' + request[r].reserved = ReservedSlots + request'[r].reserved
<1> DEFINE H1 == Holding(1)
           H2 == Holding(2)
<1>1. request[r].reserved \in 0 .. 2 /\ request'[r].reserved \in 0 .. 2
  BY Zenon DEF ConnectorTypes, RowsTyped, RequestRows
<1>2. /\ Count(r, H1) + Count(r, H2) = request[r].reserved
      /\ Count(r, H1') + Count(r, H2') = request'[r].reserved
  BY <1>1 DEF Count, Holding
<1>3. H1 \ {r} = H1' \ {r} /\ H2 \ {r} = H2' \ {r}
  BY DEF Holding
<1>4. /\ H1 \in SUBSET Requests /\ H2 \in SUBSET Requests
      /\ H1' \in SUBSET Requests /\ H2' \in SUBSET Requests
  BY Zenon DEF Holding
<1>5. ReservedSlots = Cardinality(H1) + Cardinality(H2) /\ ReservedSlots' = Cardinality(H1') + Cardinality(H2')
  BY Zenon DEF ReservedSlots
<1> HIDE DEF H1, H2
<1>6. /\ Cardinality(H1') + Count(r, H1) = Cardinality(H1) + Count(r, H1')
      /\ Cardinality(H2') + Count(r, H2) = Cardinality(H2) + Count(r, H2')
  BY Zenon, <1>3, <1>4, CountMoves
<1>7. /\ Cardinality(H1) \in Nat /\ Cardinality(H2) \in Nat
      /\ Cardinality(H1') \in Nat /\ Cardinality(H2') \in Nat
  BY Zenon, <1>4, HoldingFinite
<1>8. /\ Count(r, H1) \in Nat /\ Count(r, H2) \in Nat
      /\ Count(r, H1') \in Nat /\ Count(r, H2') \in Nat
  BY Zenon DEF Count
<1> QED
  BY <1>2, <1>5, <1>6, <1>7, <1>8

(* When none changes what it reserves, neither does the sum. *)
LEMMA SlotsStay ==
    ASSUME \A s \in Requests : request'[s].reserved = request[s].reserved
    PROVE  ReservedSlots' = ReservedSlots
<1>1. Holding(1)' = Holding(1) /\ Holding(2)' = Holding(2)
  BY Zenon DEF Holding
<1> QED
  BY Zenon, <1>1 DEF ReservedSlots

Room == runtime # 0 => retained + ReservedSlots <= MaxReceipts[runtime]

(* Slots are reserved only where there is room, and every receipt uses up    *)
(* slots of its own.                                                         *)
LEMMA RoomStep ==
    ConnectorTypes /\ ConnectorTypes' /\ LineageInv /\ Room /\ [ConnectorNext]_connectorVars =>
        Room'
<1> SUFFICES ASSUME ConnectorTypes, ConnectorTypes', LineageInv, Room, [ConnectorNext]_connectorVars
             PROVE  Room'
  BY Zenon
<1> USE DEF connectorVars
<1>1. ASSUME UNCHANGED <<runtime, retained, request>> PROVE Room'
  <2>1. ReservedSlots' = ReservedSlots
    BY Zenon, <1>1, SlotsStay
  <2> QED
    BY Zenon, <1>1, <2>1 DEF Room
<1>t. proc \in [Procs -> Processes] /\ request \in [Requests -> RequestRows]
  BY Zenon DEF ConnectorTypes, RowsTyped, ProcsTyped
<1>n. retained \in Nat /\ ReservedSlots \in Nat /\ ReservedSlots' \in Nat
  <2>1. /\ Holding(1) \in SUBSET Requests /\ Holding(2) \in SUBSET Requests
        /\ Holding(1)' \in SUBSET Requests /\ Holding(2)' \in SUBSET Requests
    BY Zenon DEF Holding
  <2> QED
    BY <2>1, HoldingFinite DEF ReservedSlots, ConnectorTypes, RowsTyped
<1>m. runtime # 0 => MaxReceipts[runtime] \in Nat
  BY Zenon, ConnectorAssumption DEF ConnectorTypes, LineageTyped
<1>u. ASSUME UNCHANGED <<runtime, retained>>,
             \A s \in Requests : request'[s].reserved = request[s].reserved
      PROVE  Room'
  BY Zenon, <1>u, SlotsStay DEF Room
<1>2. ASSUME NEW p \in Procs, NEW g \in Generations, Open(p, g) PROVE Room'
  <2>1. ReservedSlots' = ReservedSlots
    BY Zenon, <1>2, SlotsStay DEF Open
  <2> QED
    BY Zenon, <1>2, <2>1 DEF Open, Room
<1>3. ASSUME NEW p \in Procs, Leave(p) \/ Die(p) \/ FindExpired(p) \/ Send(p) PROVE Room'
  BY Zenon, <1>1, <1>3 DEF Leave, Die, FindExpired, Send
<1>4. ASSUME NEW p \in Procs, mark_dispatched(p) PROVE Room'
  <2>1. Works(p) /\ proc[p].request \in Requests /\ request[proc[p].request].status = "pending"
    BY Zenon, <1>4 DEF mark_dispatched, Works, ProcWorking, ConnectorTypes, ProcsTyped, LineageInv, Exclusive
  <2>2. \A s \in Requests : request'[s].reserved = request[s].reserved
    BY <1>4, <1>t, <2>1 DEF mark_dispatched, RequestRows
  <2> QED
    BY Zenon, <1>4, <1>u, <2>2 DEF mark_dispatched
<1>5. ASSUME NEW p \in Procs, finalize(p) PROVE Room'
  <2>1. Works(p) /\ proc[p].request \in Requests /\ request[proc[p].request].status = "pending"
    BY Zenon, <1>5 DEF finalize, Works, ProcWorking, ConnectorTypes, ProcsTyped, LineageInv, Exclusive
  <2> DEFINE r == proc[p].request
  <2>2. /\ request'[r].reserved \in 0 .. 1
        /\ \A s \in Requests \ {r} : request'[s] = request[s]
    BY <1>5, <1>t, <2>1 DEF finalize, RequestRows
  <2>3. request[r].reserved = 2
    BY Zenon, <2>1 DEF LineageInv, RowsConsistent, Consistent
  <2> HIDE DEF r
  <2>4. ReservedSlots' + request[r].reserved = ReservedSlots + request'[r].reserved
    BY Zenon, <2>1, <2>2, SlotsMove DEF r
  <2>5. retained' = retained + 1 /\ runtime' = runtime
    BY Zenon, <1>5 DEF finalize
  <2> QED
    BY <1>n, <1>m, <2>2, <2>3, <2>4, <2>5 DEF Room
<1>6. ASSUME NEW p \in Procs, NEW r \in Requests,
             \/ ClaimAmbiguous(p, r) \/ ClaimExhausted(p, r)
      PROVE Room'
  BY Zenon, <1>1, <1>6 DEF ClaimAmbiguous, ClaimExhausted
<1>7. ASSUME NEW p \in Procs, NEW r \in Requests, ClaimNew(p, r) PROVE Room'
  <2>1. proc[p].generation = runtime /\ proc[p].generation \in Generations
    BY Zenon, <1>7 DEF ClaimNew, MayClaim, OfRuntime, LineageInv, OneRuntime, Exclusive, ProcWorking
  <2>2. request'[r].reserved = 2 /\ \A s \in Requests \ {r} : request'[s] = request[s]
    BY Zenon, <1>7, <1>t DEF ClaimNew, NoRequest
  <2>3. request[r].reserved = 0
    BY Zenon, <1>7 DEF ClaimNew, LineageInv, RowsConsistent, Consistent
  <2>4. ReservedSlots' + request[r].reserved = ReservedSlots + request'[r].reserved
    BY Zenon, <2>2, SlotsMove
  <2> QED
    BY <1>7, <1>n, <2>1, <2>2, <2>3, <2>4 DEF ClaimNew, Room
<1>8. ASSUME NEW p \in Procs, NEW r \in Requests, ClaimAgain(p, r) PROVE Room'
  <2>2. \A s \in Requests : request'[s].reserved = request[s].reserved
    BY Zenon, <1>8, <1>t DEF ClaimAgain, RequestRows
  <2> QED
    BY Zenon, <1>8, <1>u, <2>2 DEF ClaimAgain
<1>9. ASSUME NEW p \in Procs, NEW r \in Requests, Reconcile(p, r) PROVE Room'
  <2>1. /\ request'[r].reserved = 0
        /\ \A s \in Requests \ {r} : request'[s] = request[s]
    BY <1>9, <1>t DEF Reconcile, RequestRows
  <2>2. request[r].reserved = 1
    BY Zenon, <1>9 DEF Reconcile, LineageInv, RowsConsistent, Consistent
  <2>3. ReservedSlots' + request[r].reserved = ReservedSlots + request'[r].reserved
    BY Zenon, <2>1, SlotsMove
  <2> QED
    BY <1>9, <1>n, <1>m, <2>1, <2>2, <2>3 DEF Reconcile, Room
<1>10. ASSUME NEW p \in Procs, NEW answer \in Answers, Conclude(p, answer) PROVE Room'
  BY Zenon, <1>1, <1>10 DEF Conclude
<1>11. ASSUME NEW p \in Procs, NEW answer \in Answers, release_retryable(p, answer) PROVE Room'
  <2>1. Works(p) /\ proc[p].request \in Requests /\ request[proc[p].request].status = "pending"
    BY Zenon, <1>11 DEF release_retryable, Works, ProcWorking, ConnectorTypes, ProcsTyped, LineageInv, Exclusive
  <2>2. \A s \in Requests : request'[s].reserved = request[s].reserved
    BY Zenon, <1>11, <1>t, <2>1 DEF release_retryable, RequestRows
  <2> QED
    BY Zenon, <1>11, <1>u, <2>2 DEF release_retryable
<1>12. ASSUME NEW r \in Requests, Expire(r) PROVE Room'
  BY Zenon, <1>1, <1>12 DEF Expire
<1>13. CASE UNCHANGED connectorVars
  BY Zenon, <1>1, <1>13
<1> QED
  BY <1>2, <1>3, <1>4, <1>5, <1>6, <1>7, <1>8, <1>9, <1>10, <1>11, <1>12, <1>13
     DEF ConnectorNext

RoomInv == ConnectorTypes /\ LineageInv /\ Room

(* Admission keeps two evidence slots for a request: whoever is about to     *)
(* settle one finds room for its receipt, and the reconciliation of an       *)
(* ambiguous one too, across deaths and rotations.                           *)
THEOREM RoomIsKept == ConnectorSpec => []RoomToSettle
<1>1. ConnectorInit => RoomInv
  BY Zenon, ConnectorTypesInit, LineageInit DEF RoomInv, Room, ConnectorInit
<1>2. RoomInv /\ [ConnectorNext]_connectorVars => RoomInv'
  BY Zenon, ConnectorTypesStep, LineageStep, RoomStep DEF RoomInv
<1>3. RoomInv => RoomToSettle
  <2> SUFFICES ASSUME RoomInv, NEW p \in Procs, Works(p)
               PROVE  retained < MaxReceipts[runtime]
    BY Zenon DEF RoomInv, Room, RoomToSettle, Works
  <2> DEFINE r == proc[p].request
  <2>1. r \in Requests /\ request[r].reserved = 2
    BY Zenon DEF RoomInv, ConnectorTypes, ProcsTyped, LineageInv, Exclusive, RowsConsistent, Consistent
  <2>2. runtime # 0 /\ MaxReceipts[runtime] \in Nat
    <3>1. proc[p].generation \in Generations /\ proc[p].generation = runtime
      BY Zenon DEF Works, ProcWorking, RoomInv, LineageInv, Exclusive, OneRuntime
    <3> QED
      BY Zenon, <3>1, ConnectorAssumption
  <2>3. r \in Holding(1) /\ Holding(1) \in SUBSET Requests /\ Holding(2) \in SUBSET Requests
    BY <2>1 DEF Holding
  <2>4. ReservedSlots \in Nat /\ ReservedSlots > 0
    <3>1. IsFiniteSet(Holding(1)) /\ Cardinality(Holding(1)) \in Nat /\ Cardinality(Holding(2)) \in Nat
      BY Zenon, <2>3, HoldingFinite
    <3>2. Cardinality(Holding(1)) # 0
      BY Zenon, <2>3, <3>1, FS_EmptySet
    <3> QED
      BY <3>1, <3>2 DEF ReservedSlots
  <2> QED
    BY <2>2, <2>4 DEF RoomInv, Room, ConnectorTypes, RowsTyped
<1> QED
  BY <1>1, <1>2, <1>3, PTL DEF ConnectorSpec

-----------------------------------------------------------------------------
(* The promise.  What has not been marked as dispatched has not left, unless *)
(* it may be repeated, and a request that has left owns its scope.           *)

Unsent(r) == r \in Unrepeatable => bodies[r] = 0

ScopesOwned ==
    /\ \A r \in Requests : bodies[r] # 0 => request[r].status # "none"
    /\ \A r, s \in Requests :
          request[r].status # "none" /\ request[s].status # "none" /\ Scope[r] = Scope[s] => r = s

Undispatched ==
    \A r \in Requests : request[r].status = "pending" /\ ~request[r].dispatched => Unsent(r)

ProcKnows(p) == LET r == proc[p].request IN
    /\ proc[p].pc \in {"claimed", "marked"} => Unsent(r)
    /\ proc[p].pc = "marked" => request[r].dispatched
    /\ proc[p].pc = "ending" /\ ~proc[p].receipt.dispatched => Unsent(r)
    /\ proc[p].pc = "ending" /\ proc[p].receipt.outcome = "succeeded" => r \in effected

ProcsKnow == \A p \in Procs : ProcKnows(p)

PromiseInv == ScopesOwned /\ Undispatched /\ ProcsKnow

(* A request is accepted only if no other one owns its scope. *)
LEMMA ScopesOwnedStep ==
    ConnectorTypes /\ LineageInv /\ PromiseInv /\ [ConnectorNext]_connectorVars => ScopesOwned'
<1> SUFFICES ASSUME ConnectorTypes, LineageInv, PromiseInv, [ConnectorNext]_connectorVars
             PROVE  ScopesOwned'
  BY Zenon
<1> USE DEF connectorVars
<1>1. ASSUME UNCHANGED <<request, bodies>> PROVE ScopesOwned'
  BY Zenon, <1>1 DEF PromiseInv, ScopesOwned
<1>t. /\ proc \in [Procs -> Processes] /\ request \in [Requests -> RequestRows]
      /\ bodies \in [Requests -> Nat]
  BY Zenon DEF ConnectorTypes, RowsTyped, ProcsTyped
<1>2. ASSUME NEW p \in Procs, NEW g \in Generations, Open(p, g) PROVE ScopesOwned'
  BY Zenon, <1>1, <1>2 DEF Open
<1>3. ASSUME NEW p \in Procs, Leave(p) \/ Die(p) \/ FindExpired(p) PROVE ScopesOwned'
  BY Zenon, <1>1, <1>3 DEF Leave, Die, FindExpired
<1>4. ASSUME NEW p \in Procs, mark_dispatched(p) PROVE ScopesOwned'
  <2>1. Works(p) /\ proc[p].request \in Requests /\ request[proc[p].request].status = "pending"
    BY Zenon, <1>4 DEF mark_dispatched, Works, ProcWorking, ConnectorTypes, ProcsTyped, LineageInv, Exclusive
  <2>2. \A s \in Requests : request'[s].status = "none" <=> request[s].status = "none"
    BY Zenon, <1>4, <1>t, <2>1 DEF mark_dispatched, RequestRows
  <2> QED
    BY Zenon, <1>4, <2>2 DEF mark_dispatched, PromiseInv, ScopesOwned
<1>5. ASSUME NEW p \in Procs, Send(p) PROVE ScopesOwned'
  <2>1. Works(p) /\ proc[p].request \in Requests /\ request[proc[p].request].status = "pending"
    BY Zenon, <1>5 DEF Send, Works, ProcWorking, ConnectorTypes, ProcsTyped, LineageInv, Exclusive
  <2> QED
    BY Zenon, <1>5, <1>t, <2>1 DEF Send, PromiseInv, ScopesOwned
<1>6. ASSUME NEW p \in Procs, finalize(p) PROVE ScopesOwned'
  <2>1. Works(p) /\ proc[p].request \in Requests /\ request[proc[p].request].status = "pending"
    BY Zenon, <1>6 DEF finalize, Works, ProcWorking, ConnectorTypes, ProcsTyped, LineageInv, Exclusive
  <2>2. \A s \in Requests : request'[s].status = "none" <=> request[s].status = "none"
    BY <1>6, <1>t, <2>1 DEF finalize, RequestRows
  <2> QED
    BY Zenon, <1>6, <2>2 DEF finalize, PromiseInv, ScopesOwned
<1>7. ASSUME NEW p \in Procs, NEW r \in Requests,
             \/ ClaimAmbiguous(p, r) \/ ClaimExhausted(p, r)
      PROVE ScopesOwned'
  BY Zenon, <1>1, <1>7 DEF ClaimAmbiguous, ClaimExhausted
<1>8. ASSUME NEW p \in Procs, NEW r \in Requests, ClaimNew(p, r) PROVE ScopesOwned'
  <2>1. /\ request'[r].status = "pending"
        /\ \A s \in Requests \ {r} : request'[s] = request[s]
    BY Zenon, <1>8, <1>t DEF ClaimNew, NoRequest
  <2> QED
    BY <1>8, <2>1 DEF ClaimNew, PromiseInv, ScopesOwned
<1>9. ASSUME NEW p \in Procs, NEW r \in Requests, ClaimAgain(p, r) PROVE ScopesOwned'
  <2>2. \A s \in Requests : request'[s].status = "none" <=> request[s].status = "none"
    BY Zenon, <1>9, <1>t DEF ClaimAgain, RequestRows
  <2> QED
    BY Zenon, <1>9, <2>2 DEF ClaimAgain, PromiseInv, ScopesOwned
<1>10. ASSUME NEW p \in Procs, NEW r \in Requests, Reconcile(p, r) PROVE ScopesOwned'
  <2>2. \A s \in Requests : request'[s].status = "none" <=> request[s].status = "none"
    BY <1>10, <1>t DEF Reconcile, RequestRows
  <2> QED
    BY Zenon, <1>10, <2>2 DEF Reconcile, PromiseInv, ScopesOwned
<1>11. ASSUME NEW p \in Procs, NEW answer \in Answers, Conclude(p, answer) PROVE ScopesOwned'
  BY Zenon, <1>1, <1>11 DEF Conclude
<1>12. ASSUME NEW p \in Procs, NEW answer \in Answers, release_retryable(p, answer)
       PROVE ScopesOwned'
  <2>1. Works(p) /\ proc[p].request \in Requests /\ request[proc[p].request].status = "pending"
    BY Zenon, <1>12 DEF release_retryable, Works, ProcWorking, ConnectorTypes, ProcsTyped, LineageInv, Exclusive
  <2>2. \A s \in Requests : request'[s].status = "none" <=> request[s].status = "none"
    BY Zenon, <1>12, <1>t, <2>1 DEF release_retryable, RequestRows
  <2> QED
    BY Zenon, <1>12, <2>2 DEF release_retryable, PromiseInv, ScopesOwned
<1>13. ASSUME NEW r \in Requests, Expire(r) PROVE ScopesOwned'
  BY Zenon, <1>1, <1>13 DEF Expire
<1>14. CASE UNCHANGED connectorVars
  BY Zenon, <1>1, <1>14
<1> QED
  BY <1>2, <1>3, <1>4, <1>5, <1>6, <1>7, <1>8, <1>9, <1>10, <1>11, <1>12, <1>13, <1>14
     DEF ConnectorNext

(* The dispatch mark is written before the request leaves. *)
LEMMA UndispatchedStep ==
    ConnectorTypes /\ LineageInv /\ PromiseInv /\ [ConnectorNext]_connectorVars => Undispatched'
<1> SUFFICES ASSUME ConnectorTypes, LineageInv, PromiseInv, [ConnectorNext]_connectorVars
             PROVE  Undispatched'
  BY Zenon
<1> USE DEF connectorVars
<1>1. ASSUME UNCHANGED <<request, bodies>> PROVE Undispatched'
  BY Zenon, <1>1 DEF PromiseInv, Undispatched, Unsent
<1>t. /\ proc \in [Procs -> Processes] /\ request \in [Requests -> RequestRows]
      /\ bodies \in [Requests -> Nat]
  BY Zenon DEF ConnectorTypes, RowsTyped, ProcsTyped
<1>2. ASSUME NEW p \in Procs, NEW g \in Generations, Open(p, g) PROVE Undispatched'
  BY Zenon, <1>1, <1>2 DEF Open
<1>3. ASSUME NEW p \in Procs, Leave(p) \/ Die(p) \/ FindExpired(p) PROVE Undispatched'
  BY Zenon, <1>1, <1>3 DEF Leave, Die, FindExpired
<1>4. ASSUME NEW p \in Procs, mark_dispatched(p) PROVE Undispatched'
  <2>1. Works(p) /\ proc[p].request \in Requests /\ request[proc[p].request].status = "pending"
    BY Zenon, <1>4 DEF mark_dispatched, Works, ProcWorking, ConnectorTypes, ProcsTyped, LineageInv, Exclusive
  <2>2. \A s \in Requests : request'[s].status = "pending" /\ ~request'[s].dispatched =>
                             request[s].status = "pending" /\ ~request[s].dispatched
    BY <1>4, <1>t, <2>1 DEF mark_dispatched, RequestRows
  <2> QED
    BY Zenon, <1>4, <2>2 DEF mark_dispatched, PromiseInv, Undispatched, Unsent
<1>5. ASSUME NEW p \in Procs, Send(p) PROVE Undispatched'
  <2>1. Works(p) /\ proc[p].request \in Requests /\ request[proc[p].request].status = "pending"
    BY Zenon, <1>5 DEF Send, Works, ProcWorking, ConnectorTypes, ProcsTyped, LineageInv, Exclusive
  <2>2. request[proc[p].request].dispatched
    BY Zenon, <1>5 DEF Send, PromiseInv, ProcsKnow, ProcKnows
  <2>3. \A s \in Requests \ {proc[p].request} : bodies'[s] = bodies[s]
    BY Zenon, <1>5, <1>t, <2>1 DEF Send
  <2> QED
    BY Zenon, <1>5, <2>2, <2>3 DEF Send, PromiseInv, Undispatched, Unsent
<1>6. ASSUME NEW p \in Procs, finalize(p) PROVE Undispatched'
  <2>1. Works(p) /\ proc[p].request \in Requests /\ request[proc[p].request].status = "pending"
    BY Zenon, <1>6 DEF finalize, Works, ProcWorking, ConnectorTypes, ProcsTyped, LineageInv, Exclusive
  <2>2. \A s \in Requests : request'[s].status = "pending" /\ ~request'[s].dispatched =>
                             request[s].status = "pending" /\ ~request[s].dispatched
    BY <1>6, <1>t, <2>1 DEF finalize, RequestRows
  <2> QED
    BY Zenon, <1>6, <2>2 DEF finalize, PromiseInv, Undispatched, Unsent
<1>7. ASSUME NEW p \in Procs, NEW r \in Requests,
             \/ ClaimAmbiguous(p, r) \/ ClaimExhausted(p, r)
      PROVE Undispatched'
  BY Zenon, <1>1, <1>7 DEF ClaimAmbiguous, ClaimExhausted
<1>8. ASSUME NEW p \in Procs, NEW r \in Requests, ClaimNew(p, r) PROVE Undispatched'
  <2>1. \A s \in Requests \ {r} : request'[s] = request[s]
    BY Zenon, <1>8, <1>t DEF ClaimNew
  <2>2. bodies[r] = 0
    BY Zenon, <1>8 DEF ClaimNew, PromiseInv, ScopesOwned
  <2> QED
    BY Zenon, <1>8, <2>1, <2>2 DEF ClaimNew, PromiseInv, Undispatched, Unsent
<1>9. ASSUME NEW p \in Procs, NEW r \in Requests, ClaimAgain(p, r) PROVE Undispatched'
  <2>1. \A s \in Requests \ {r} : request'[s] = request[s]
    BY Zenon, <1>9, <1>t DEF ClaimAgain
  <2>2. Unsent(r)
    BY Zenon, <1>9 DEF ClaimAgain, RetrySafe, PromiseInv, Undispatched, Unsent
  <2> QED
    BY Zenon, <1>9, <2>1, <2>2 DEF ClaimAgain, PromiseInv, Undispatched, Unsent
<1>10. ASSUME NEW p \in Procs, NEW r \in Requests, Reconcile(p, r) PROVE Undispatched'
  <2>2. \A s \in Requests : request'[s].status = "pending" => request'[s] = request[s]
    BY <1>10, <1>t DEF Reconcile, RequestRows
  <2> QED
    BY Zenon, <1>10, <2>2 DEF Reconcile, PromiseInv, Undispatched, Unsent
<1>11. ASSUME NEW p \in Procs, NEW answer \in Answers, Conclude(p, answer) PROVE Undispatched'
  BY Zenon, <1>1, <1>11 DEF Conclude
<1>12. ASSUME NEW p \in Procs, NEW answer \in Answers, release_retryable(p, answer)
       PROVE Undispatched'
  <2>1. Works(p) /\ proc[p].request \in Requests /\ request[proc[p].request].status = "pending"
    BY Zenon, <1>12 DEF release_retryable, Works, ProcWorking, ConnectorTypes, ProcsTyped, LineageInv, Exclusive
  <2>2. \A s \in Requests \ {proc[p].request} : request'[s] = request[s]
    BY Zenon, <1>12, <1>t, <2>1 DEF release_retryable
  <2>3. proc[p].request \notin Unrepeatable
    BY Zenon, <1>12 DEF release_retryable, Retries, RetrySafe
  <2> QED
    BY Zenon, <1>12, <2>2, <2>3 DEF release_retryable, PromiseInv, Undispatched, Unsent
<1>13. ASSUME NEW r \in Requests, Expire(r) PROVE Undispatched'
  BY Zenon, <1>1, <1>13 DEF Expire
<1>14. CASE UNCHANGED connectorVars
  BY Zenon, <1>1, <1>14
<1> QED
  BY <1>2, <1>3, <1>4, <1>5, <1>6, <1>7, <1>8, <1>9, <1>10, <1>11, <1>12, <1>13, <1>14
     DEF ConnectorNext

(* What a process knows of its request stays true while it works on it. *)
LEMMA ProcKnowsStep ==
    ConnectorTypes /\ LineageInv /\ PromiseInv /\ [ConnectorNext]_connectorVars => ProcsKnow'
<1> SUFFICES ASSUME ConnectorTypes, LineageInv, PromiseInv, [ConnectorNext]_connectorVars
             PROVE  ProcsKnow'
  BY Zenon
<1> USE DEF connectorVars
<1>1. ASSUME UNCHANGED <<proc, request, bodies, effected>> PROVE ProcsKnow'
  BY Zenon, <1>1 DEF PromiseInv, ProcsKnow, ProcKnows, Unsent
<1>t. /\ proc \in [Procs -> Processes] /\ request \in [Requests -> RequestRows]
      /\ bodies \in [Requests -> Nat]
  BY Zenon DEF ConnectorTypes, RowsTyped, ProcsTyped
<1>2. ASSUME NEW p \in Procs, NEW g \in Generations, Open(p, g) PROVE ProcsKnow'
  <2>1. proc'[p].pc = "ready" /\ \A q \in Procs \ {p} : proc'[q] = proc[q]
    BY Zenon, <1>2, <1>t DEF Open, OffProc
  <2> QED
    BY <1>2, <2>1 DEF Open, PromiseInv, ProcsKnow, ProcKnows, Unsent
<1>3. ASSUME NEW p \in Procs, Leave(p) PROVE ProcsKnow'
  <2>1. proc'[p].pc = "off" /\ \A q \in Procs \ {p} : proc'[q] = proc[q]
    BY Zenon, <1>3, <1>t DEF Leave, OffProc
  <2> QED
    BY <1>3, <2>1 DEF Leave, PromiseInv, ProcsKnow, ProcKnows, Unsent
<1>4. ASSUME NEW p \in Procs, Die(p) PROVE ProcsKnow'
  <2>1. proc'[p].pc = "off" /\ \A q \in Procs \ {p} : proc'[q] = proc[q]
    BY Zenon, <1>4, <1>t DEF Die, OffProc
  <2> QED
    BY <1>4, <2>1 DEF Die, PromiseInv, ProcsKnow, ProcKnows, Unsent
<1>5. ASSUME NEW p \in Procs, FindExpired(p) PROVE ProcsKnow'
  <2>1. Works(p) /\ proc[p].request \in Requests /\ request[proc[p].request].status = "pending"
    BY Zenon, <1>5 DEF FindExpired, Works, ProcWorking, ConnectorTypes, ProcsTyped, LineageInv, Exclusive
  <2>2. \A q \in Procs \ {p} : proc'[q] = proc[q] /\ ~Works(q)
    BY Zenon, <1>5, <1>t, <2>1 DEF FindExpired, ProcGoes, ProcEnds, MayClaim, LockFree, Works, ProcWorking, LineageInv, Exclusive
  <2>3. \A q \in Procs \ {p} : ProcKnows(q)'
    BY Zenon, <2>2 DEF ProcsKnow, ProcKnows, Works, ProcWorking
  <2>4. /\ proc'[p].pc = "ending" /\ proc'[p].request = proc[p].request
        /\ proc'[p].receipt.outcome = "failed"
    BY Zenon, <1>5, <1>t DEF FindExpired, ProcEnds
  <2>5. proc[p].request \in Unrepeatable => bodies'[proc[p].request] = 0
    BY Zenon, <1>5 DEF FindExpired, PromiseInv, ProcsKnow, ProcKnows, Unsent
  <2> QED
    BY Zenon, <2>3, <2>4, <2>5 DEF ProcsKnow, ProcKnows, Unsent
<1>6. ASSUME NEW p \in Procs, mark_dispatched(p) PROVE ProcsKnow'
  <2>1. Works(p) /\ proc[p].request \in Requests /\ request[proc[p].request].status = "pending"
    BY Zenon, <1>6 DEF mark_dispatched, Works, ProcWorking, ConnectorTypes, ProcsTyped, LineageInv, Exclusive
  <2>2. \A q \in Procs \ {p} : proc'[q] = proc[q] /\ ~Works(q)
    BY Zenon, <1>6, <1>t, <2>1 DEF mark_dispatched, ProcGoes, ProcEnds, MayClaim, LockFree, Works, ProcWorking, LineageInv, Exclusive
  <2>3. \A q \in Procs \ {p} : ProcKnows(q)'
    BY Zenon, <2>2 DEF ProcsKnow, ProcKnows, Works, ProcWorking
  <2>4. proc'[p].pc = "marked" /\ proc'[p].request = proc[p].request
    BY <1>6, <1>t DEF mark_dispatched, ProcGoes, ProcEnds, Processes
  <2>5. proc[p].request \in Unrepeatable => bodies'[proc[p].request] = 0
    BY Zenon, <1>6 DEF mark_dispatched, PromiseInv, ProcsKnow, ProcKnows, Unsent
  <2>6. request'[proc[p].request].dispatched
    BY <1>6, <1>t, <2>1 DEF mark_dispatched, RequestRows
  <2> QED
    BY Zenon, <2>3, <2>4, <2>5, <2>6 DEF ProcsKnow, ProcKnows, Unsent
<1>7. ASSUME NEW p \in Procs, Send(p) PROVE ProcsKnow'
  <2>1. Works(p) /\ proc[p].request \in Requests /\ request[proc[p].request].status = "pending"
    BY Zenon, <1>7 DEF Send, Works, ProcWorking, ConnectorTypes, ProcsTyped, LineageInv, Exclusive
  <2>2. \A q \in Procs \ {p} : proc'[q] = proc[q] /\ ~Works(q)
    BY Zenon, <1>7, <1>t, <2>1 DEF Send, ProcGoes, ProcEnds, MayClaim, LockFree, Works, ProcWorking, LineageInv, Exclusive
  <2>3. \A q \in Procs \ {p} : ProcKnows(q)'
    BY Zenon, <2>2 DEF ProcsKnow, ProcKnows, Works, ProcWorking
  <2>4. proc'[p].pc = "sent" /\ proc'[p].request = proc[p].request
    BY <1>7, <1>t DEF Send, ProcGoes, ProcEnds, Processes
  <2> QED
    BY Zenon, <2>3, <2>4 DEF ProcsKnow, ProcKnows
<1>8. ASSUME NEW p \in Procs, finalize(p) PROVE ProcsKnow'
  <2>1. Works(p) /\ proc[p].request \in Requests /\ request[proc[p].request].status = "pending"
    BY Zenon, <1>8 DEF finalize, Works, ProcWorking, ConnectorTypes, ProcsTyped, LineageInv, Exclusive
  <2>2. \A q \in Procs \ {p} : proc'[q] = proc[q] /\ ~Works(q)
    BY Zenon, <1>8, <1>t, <2>1 DEF finalize, ProcGoes, ProcEnds, MayClaim, LockFree, Works, ProcWorking, LineageInv, Exclusive
  <2>3. \A q \in Procs \ {p} : ProcKnows(q)'
    BY Zenon, <2>2 DEF ProcsKnow, ProcKnows, Works, ProcWorking
  <2>4. proc'[p].pc = "ready"
    BY Zenon, <1>8, <1>t DEF finalize, OffProc
  <2> QED
    BY Zenon, <2>3, <2>4 DEF ProcsKnow, ProcKnows
<1>9. ASSUME NEW p \in Procs, NEW r \in Requests, ClaimNew(p, r) PROVE ProcsKnow'
  <2>2. \A q \in Procs \ {p} : proc'[q] = proc[q] /\ ~Works(q)
    BY Zenon, <1>9, <1>t DEF ClaimNew, ProcGoes, ProcEnds, MayClaim, LockFree, Works, ProcWorking, LineageInv, Exclusive
  <2>3. \A q \in Procs \ {p} : ProcKnows(q)'
    BY Zenon, <2>2 DEF ProcsKnow, ProcKnows, Works, ProcWorking
  <2>4. proc'[p].pc = "claimed" /\ proc'[p].request = r
    BY <1>9, <1>t DEF ClaimNew, ProcGoes, ProcEnds, Processes
  <2>5. bodies'[r] = 0
    BY Zenon, <1>9 DEF ClaimNew, PromiseInv, ScopesOwned
  <2> QED
    BY Zenon, <2>3, <2>4, <2>5 DEF ProcsKnow, ProcKnows, Unsent
<1>10. ASSUME NEW p \in Procs, NEW r \in Requests, ClaimAgain(p, r) PROVE ProcsKnow'
  <2>2. \A q \in Procs \ {p} : proc'[q] = proc[q] /\ ~Works(q)
    BY Zenon, <1>10, <1>t DEF ClaimAgain, ProcGoes, ProcEnds, MayClaim, LockFree, Works, ProcWorking, LineageInv, Exclusive
  <2>3. \A q \in Procs \ {p} : ProcKnows(q)'
    BY Zenon, <2>2 DEF ProcsKnow, ProcKnows, Works, ProcWorking
  <2>4. proc'[p].pc = "claimed" /\ proc'[p].request = r
    BY <1>10, <1>t DEF ClaimAgain, ProcGoes, ProcEnds, Processes
  <2>5. r \in Unrepeatable => bodies'[r] = 0
    BY Zenon, <1>10 DEF ClaimAgain, RetrySafe, PromiseInv, Undispatched, Unsent
  <2> QED
    BY Zenon, <2>3, <2>4, <2>5 DEF ProcsKnow, ProcKnows, Unsent
<1>11. ASSUME NEW p \in Procs, NEW r \in Requests, ClaimAmbiguous(p, r) PROVE ProcsKnow'
  <2>2. \A q \in Procs \ {p} : proc'[q] = proc[q] /\ ~Works(q)
    BY Zenon, <1>11, <1>t DEF ClaimAmbiguous, ProcGoes, ProcEnds, MayClaim, LockFree, Works, ProcWorking, LineageInv, Exclusive
  <2>3. \A q \in Procs \ {p} : ProcKnows(q)'
    BY Zenon, <2>2 DEF ProcsKnow, ProcKnows, Works, ProcWorking
  <2>4. /\ proc'[p].pc = "ending" /\ proc'[p].receipt.dispatched
        /\ proc'[p].receipt.outcome = "ambiguous"
    BY Zenon, <1>11, <1>t DEF ClaimAmbiguous, ProcEnds
  <2> QED
    BY Zenon, <2>3, <2>4 DEF ProcsKnow, ProcKnows
<1>12. ASSUME NEW p \in Procs, NEW r \in Requests, ClaimExhausted(p, r) PROVE ProcsKnow'
  <2>2. \A q \in Procs \ {p} : proc'[q] = proc[q] /\ ~Works(q)
    BY Zenon, <1>12, <1>t DEF ClaimExhausted, ProcGoes, ProcEnds, MayClaim, LockFree, Works, ProcWorking, LineageInv, Exclusive
  <2>3. \A q \in Procs \ {p} : ProcKnows(q)'
    BY Zenon, <2>2 DEF ProcsKnow, ProcKnows, Works, ProcWorking
  <2>4. /\ proc'[p].pc = "ending" /\ proc'[p].request = r
        /\ proc'[p].receipt.outcome = "retryable_failure"
    BY Zenon, <1>12, <1>t DEF ClaimExhausted, ProcEnds
  <2>5. r \in Unrepeatable => bodies'[r] = 0
    BY Zenon, <1>12 DEF ClaimExhausted, RetrySafe, PromiseInv, Undispatched, Unsent
  <2> QED
    BY Zenon, <2>3, <2>4, <2>5 DEF ProcsKnow, ProcKnows, Unsent
<1>13. ASSUME NEW p \in Procs, NEW r \in Requests, Reconcile(p, r) PROVE ProcsKnow'
  <2>1. \A q \in Procs : ~Works(q)
    BY Zenon, <1>13 DEF Reconcile, LockFree, Works
  <2> QED
    BY Zenon, <1>13, <2>1 DEF Reconcile, ProcsKnow, ProcKnows, Works, ProcWorking
<1>14. ASSUME NEW p \in Procs, NEW answer \in Answers, release_retryable(p, answer) PROVE ProcsKnow'
  <2>1. Works(p) /\ proc[p].request \in Requests /\ request[proc[p].request].status = "pending"
    BY Zenon, <1>14 DEF release_retryable, Works, ProcWorking, ConnectorTypes, ProcsTyped, LineageInv, Exclusive
  <2>2. \A q \in Procs \ {p} : proc'[q] = proc[q] /\ ~Works(q)
    BY Zenon, <1>14, <1>t, <2>1 DEF release_retryable, ProcGoes, ProcEnds, MayClaim, LockFree, Works, ProcWorking, LineageInv, Exclusive
  <2>3. \A q \in Procs \ {p} : ProcKnows(q)'
    BY Zenon, <2>2 DEF ProcsKnow, ProcKnows, Works, ProcWorking
  <2>4. proc'[p].pc = "looping" /\ proc'[p].request = proc[p].request
    BY <1>14, <1>t DEF release_retryable, ProcGoes, ProcEnds, Processes
  <2> QED
    BY Zenon, <2>3, <2>4 DEF ProcsKnow, ProcKnows
<1>15. ASSUME NEW p \in Procs, NEW answer \in Answers, Conclude(p, answer) PROVE ProcsKnow'
  <2>1. Works(p) /\ proc[p].request \in Requests /\ request[proc[p].request].status = "pending"
    BY Zenon, <1>15 DEF Conclude, Works, ProcWorking, ConnectorTypes, ProcsTyped, LineageInv, Exclusive
  <2>2. \A q \in Procs \ {p} : proc'[q] = proc[q] /\ ~Works(q)
    BY Zenon, <1>15, <1>t, <2>1 DEF Conclude, ProcGoes, ProcEnds, MayClaim, LockFree, Works, ProcWorking, LineageInv, Exclusive
  <2>3. \A q \in Procs \ {p} : ProcKnows(q)'
    BY Zenon, <2>2 DEF ProcsKnow, ProcKnows, Works, ProcWorking
  <2>4. /\ proc'[p].pc = "ending" /\ proc'[p].request = proc[p].request /\ proc'[p].receipt.dispatched
        /\ proc'[p].receipt.outcome = OutcomeOf(proc[p].request, answer)
    BY Zenon, <1>15, <1>t DEF Conclude, ProcEnds
  <2>5. OutcomeOf(proc[p].request, answer) = "succeeded" => answer = "succeeded"
    BY Zenon DEF OutcomeOf, Answers, OutcomeStatuses
  <2>6. answer = "succeeded" => proc[p].request \in effected'
    BY Zenon, <1>15 DEF Conclude, Answerable
  <2> QED
    BY Zenon, <2>3, <2>4, <2>5, <2>6 DEF ProcsKnow, ProcKnows
<1>16. ASSUME NEW r \in Requests, Expire(r) PROVE ProcsKnow'
  BY Zenon, <1>1, <1>16 DEF Expire
<1>17. CASE UNCHANGED connectorVars
  BY Zenon, <1>1, <1>17
<1> QED
  BY <1>2, <1>3, <1>4, <1>5, <1>6, <1>7, <1>8, <1>9, <1>10, <1>11, <1>12, <1>13, <1>14, <1>15,
     <1>16, <1>17
     DEF ConnectorNext

KeepingInv == ConnectorTypes /\ LineageInv /\ PromiseInv

(* The invariant behind the promise holds in every reachable state. *)
LEMMA KeepingInvariant == ConnectorSpec => []KeepingInv
<1>1. ConnectorInit => PromiseInv
  <2> SUFFICES ASSUME ConnectorInit PROVE PromiseInv
    BY Zenon
  <2>1. ScopesOwned /\ Undispatched
    BY Zenon DEF ConnectorInit, ScopesOwned, Undispatched, Unsent, NoRequest
  <2>2. ProcsKnow
    BY Zenon DEF ConnectorInit, ProcsKnow, ProcKnows, OffProc
  <2> QED
    BY Zenon, <2>1, <2>2 DEF PromiseInv
<1>2. ConnectorInit => KeepingInv
  BY Zenon, <1>1, ConnectorTypesInit, LineageInit DEF KeepingInv
<1>3. KeepingInv /\ [ConnectorNext]_connectorVars => KeepingInv'
  <2>1. ConnectorTypes /\ LineageInv /\ PromiseInv /\ [ConnectorNext]_connectorVars => PromiseInv'
    BY Zenon, ScopesOwnedStep, UndispatchedStep, ProcKnowsStep DEF PromiseInv
  <2> QED
    BY Zenon, <2>1, ConnectorTypesStep, LineageStep DEF KeepingInv
<1> QED
  BY <1>2, <1>3, PTL DEF ConnectorSpec

(* Every step of the connector is a step of the channel or none. *)
LEMMA PromiseStep ==
    KeepingInv /\ [ConnectorNext]_connectorVars => [Promise!Next]_(Promise!channelVars)
<1> SUFFICES ASSUME KeepingInv, [ConnectorNext]_connectorVars
             PROVE  [Promise!Next]_(Promise!channelVars)
  BY Zenon
<1> USE DEF connectorVars
<1>t. /\ proc \in [Procs -> Processes] /\ request \in [Requests -> RequestRows]
      /\ bodies \in [Requests -> Nat]
  BY Zenon DEF KeepingInv, ConnectorTypes, RowsTyped, ProcsTyped
<1>1. ASSUME UNCHANGED <<bodies, effected>>, \A s \in Requests : request'[s].receipt = request[s].receipt
      PROVE  [Promise!Next]_(Promise!channelVars)
  BY Zenon, <1>1 DEF Promise!channelVars
<1>2. ASSUME NEW p \in Procs, NEW g \in Generations,
             Open(p, g)
      PROVE [Promise!Next]_(Promise!channelVars)
  BY Zenon, <1>1, <1>2 DEF Open
<1>3. ASSUME NEW p \in Procs,
             \/ Leave(p) \/ Die(p) \/ FindExpired(p)
      PROVE [Promise!Next]_(Promise!channelVars)
  BY Zenon, <1>1, <1>3 DEF Leave, Die, FindExpired
<1>4. ASSUME NEW p \in Procs, mark_dispatched(p) PROVE [Promise!Next]_(Promise!channelVars)
  <2>1. Works(p) /\ proc[p].request \in Requests /\ request[proc[p].request].status = "pending"
    BY Zenon, <1>4 DEF mark_dispatched, Works, ProcWorking, KeepingInv, ConnectorTypes, ProcsTyped, LineageInv, Exclusive
  <2>2. \A s \in Requests : request'[s].receipt = request[s].receipt
    BY <1>4, <1>t, <2>1 DEF mark_dispatched, RequestRows
  <2> QED
    BY Zenon, <1>4, <1>1, <2>2 DEF mark_dispatched
<1>5. ASSUME NEW p \in Procs, Send(p) PROVE [Promise!Next]_(Promise!channelVars)
  <2>1. Works(p) /\ proc[p].request \in Requests /\ request[proc[p].request].status = "pending"
    BY Zenon, <1>5 DEF Send, Works, ProcWorking, KeepingInv, ConnectorTypes, ProcsTyped, LineageInv, Exclusive
  <2>r. PICK r \in Requests : r = proc[p].request
    BY Zenon, <2>1
  <2>2. request[r].receipt = NoReceipt
    BY Zenon, <2>1, <2>r DEF KeepingInv, LineageInv, RowsConsistent, Consistent
  <2>3. Unsent(r)
    BY Zenon, <1>5, <2>r DEF Send, KeepingInv, PromiseInv, ProcsKnow, ProcKnows
  <2>4. \A q \in Requests : q # r /\ Scope[q] = Scope[r] => bodies[q] = 0
    BY Zenon, <2>1, <2>r DEF KeepingInv, PromiseInv, ScopesOwned
  <2>5. bodies' = [bodies EXCEPT ![r] = @ + 1] /\ effected' \in {effected, effected \cup {r}} /\ request' = request
    BY Zenon, <1>5, <2>r DEF Send
  <2>6. bodies'[r] # bodies[r]
    BY <1>t, <2>5
  <2>7. Promise!Deliver(r)
    BY Zenon, <2>2, <2>3, <2>4, <2>5, <2>6 DEF Promise!Deliver, Promise!NoVerdict, NoReceipt, Unsent
  <2> QED
    BY Zenon, <2>6, <2>7 DEF Promise!Next, Promise!channelVars
<1>6. ASSUME NEW p \in Procs, finalize(p) PROVE [Promise!Next]_(Promise!channelVars)
  <2>1. Works(p) /\ proc[p].request \in Requests /\ request[proc[p].request].status = "pending"
    BY Zenon, <1>6 DEF finalize, Works, ProcWorking, KeepingInv, ConnectorTypes, ProcsTyped, LineageInv, Exclusive
  <2>r. PICK r \in Requests : r = proc[p].request
    BY Zenon, <2>1
  <2>v. PICK v \in Receipts : v = proc[p].receipt
    BY Zenon, <1>6 DEF finalize, KeepingInv, ConnectorTypes, ProcsTyped
  <2>2. request[r].receipt = NoReceipt
    BY Zenon, <2>1, <2>r DEF KeepingInv, LineageInv, RowsConsistent, Consistent
  <2>3. /\ v.outcome = "succeeded" => r \in effected
        /\ ~v.dispatched => Unsent(r)
    BY Zenon, <1>6, <2>r, <2>v DEF finalize, KeepingInv, PromiseInv, ProcsKnow, ProcKnows
  <2>4. /\ request'[r].receipt = v /\ \A s \in Requests \ {r} : request'[s] = request[s]
    BY <1>6, <1>t, <2>r, <2>v DEF finalize, RequestRows
  <2>5. bodies' = bodies /\ effected' = effected
    BY Zenon, <1>6 DEF finalize
  <2>6. [s \in Requests |-> request'[s].receipt] =
          [[s \in Requests |-> request[s].receipt] EXCEPT ![r] = v]
    BY Zenon, <2>4
  <2>7. Promise!Settle(r, v)
    BY Zenon, <2>2, <2>3, <2>5, <2>6 DEF Promise!Settle, Promise!NoVerdict, NoReceipt, Unsent
  <2>8. v \in Promise!Verdicts
    BY Zenon DEF Promise!Verdicts, Promise!Outcomes, Receipts, OutcomeStatuses
  <2>9. request'[r].receipt # request[r].receipt
    <3>1. v.outcome # "none"
      BY Zenon DEF Receipts, OutcomeStatuses
    <3>2. NoReceipt.outcome = "none"
      BY Zenon DEF NoReceipt
    <3> QED
      BY Zenon, <2>2, <2>4, <3>1, <3>2
  <2>10. [s \in Requests |-> request'[s].receipt] # [s \in Requests |-> request[s].receipt]
    BY Zenon, <2>9
  <2> QED
    BY <2>7, <2>8, <2>10, Zenon DEF Promise!Next, Promise!channelVars
<1>7. ASSUME NEW p \in Procs, NEW r \in Requests,
             \/ ClaimAmbiguous(p, r) \/ ClaimExhausted(p, r)
      PROVE [Promise!Next]_(Promise!channelVars)
  BY Zenon, <1>1, <1>7 DEF ClaimAmbiguous, ClaimExhausted
<1>8. ASSUME NEW p \in Procs, NEW r \in Requests, ClaimNew(p, r)
      PROVE [Promise!Next]_(Promise!channelVars)
  <2>1. request'[r].receipt = NoReceipt /\ \A s \in Requests \ {r} : request'[s] = request[s]
    BY Zenon, <1>8, <1>t DEF ClaimNew, NoRequest
  <2>2. request[r].receipt = NoReceipt
    BY Zenon, <1>8 DEF ClaimNew, KeepingInv, LineageInv, RowsConsistent, Consistent
  <2> QED
    BY Zenon, <1>8, <1>1, <2>1, <2>2 DEF ClaimNew
<1>9. ASSUME NEW p \in Procs, NEW r \in Requests, ClaimAgain(p, r)
      PROVE [Promise!Next]_(Promise!channelVars)
  <2>2. \A s \in Requests : request'[s].receipt = request[s].receipt
    BY <1>9, <1>t DEF ClaimAgain, RequestRows
  <2> QED
    BY Zenon, <1>9, <1>1, <2>2 DEF ClaimAgain
<1>10. ASSUME NEW p \in Procs, NEW r \in Requests, Reconcile(p, r)
       PROVE [Promise!Next]_(Promise!channelVars)
  <2> DEFINE resolved == [outcome |-> "succeeded", dispatched |-> request[r].receipt.dispatched]
  <2>1. request[r].receipt \in Receipts /\ request[r].receipt.outcome = "ambiguous" /\ r \in effected
    BY Zenon, <1>10 DEF Reconcile, KeepingInv, LineageInv, RowsConsistent, Consistent
  <2>2. resolved = [request[r].receipt EXCEPT !.outcome = "succeeded"]
    BY <2>1 DEF Receipts
  <2>3. resolved # request[r].receipt
    BY <2>1
  <2>4. request' = [request EXCEPT ![r].receipt = resolved, ![r].reserved = 0] /\ UNCHANGED <<bodies, effected>>
    BY Zenon, <1>10 DEF Reconcile
  <2> HIDE DEF resolved
  <2>5. /\ request'[r].receipt = resolved /\ \A s \in Requests \ {r} : request'[s] = request[s]
    BY <1>t, <2>4 DEF RequestRows
  <2>6. [s \in Requests |-> request'[s].receipt] =
          [[s \in Requests |-> request[s].receipt] EXCEPT ![r] = resolved]
    BY Zenon, <2>5
  <2>7. [s \in Requests |-> request'[s].receipt] =
          [[s \in Requests |-> request[s].receipt] EXCEPT ![r].outcome = "succeeded"]
    BY Zenon, <2>2, <2>6
  <2>8. Promise!Resolve(r)
    BY Zenon, <2>1, <2>4, <2>7 DEF Promise!Resolve
  <2>9. [s \in Requests |-> request'[s].receipt] # [s \in Requests |-> request[s].receipt]
    BY Zenon, <2>3, <2>5
  <2> QED
    BY Zenon, <2>8, <2>9 DEF Promise!Next, Promise!channelVars
<1>11. ASSUME NEW p \in Procs, NEW answer \in Answers,
              Conclude(p, answer)
       PROVE [Promise!Next]_(Promise!channelVars)
  BY Zenon, <1>1, <1>11 DEF Conclude
<1>12. ASSUME NEW p \in Procs, NEW answer \in Answers, release_retryable(p, answer)
       PROVE [Promise!Next]_(Promise!channelVars)
  <2>1. Works(p) /\ proc[p].request \in Requests /\ request[proc[p].request].status = "pending"
    BY Zenon, <1>12 DEF release_retryable, Works, ProcWorking, KeepingInv, ConnectorTypes, ProcsTyped, LineageInv, Exclusive
  <2>2. \A s \in Requests : request'[s].receipt = request[s].receipt
    BY Zenon, <1>12, <1>t, <2>1 DEF release_retryable, RequestRows
  <2> QED
    BY Zenon, <1>12, <1>1, <2>2 DEF release_retryable
<1>13. ASSUME NEW r \in Requests, Expire(r) PROVE [Promise!Next]_(Promise!channelVars)
  BY Zenon, <1>1, <1>13 DEF Expire
<1>14. CASE UNCHANGED connectorVars
  BY Zenon, <1>1, <1>14
<1> QED
  BY <1>2, <1>3, <1>4, <1>5, <1>6, <1>7, <1>8, <1>9, <1>10, <1>11, <1>12, <1>13, <1>14
     DEF ConnectorNext

(* The connector implements the channel: a non-idempotent request leaves at  *)
(* most once, a scope serves one request, and the one receipt says no more   *)
(* than what happened, for any number of processes, deaths and repetitions.  *)
THEOREM PromiseIsKept == ConnectorSpec => KeepsPromise
<1>1. ConnectorInit => Promise!Init
  BY DEF ConnectorInit, Promise!Init, Promise!NoVerdict, NoRequest, NoReceipt
<1>2. KeepingInv /\ [ConnectorNext]_connectorVars => [Promise!Next]_(Promise!channelVars)
  BY Zenon, PromiseStep
<1> QED
  BY <1>1, <1>2, KeepingInvariant, PTL DEF ConnectorSpec, KeepsPromise, Promise!Spec
=============================================================================
