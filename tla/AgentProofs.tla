----------------------------- MODULE AgentProofs -----------------------------
(***************************************************************************)
(* Safety of the agent's program for any number of agents, offers, crashes *)
(* and lost replies, any length of a lease and any grace: the run of an    *)
(* assignment, the renewal of its lease, time and the environment keep the *)
(* invariant, too.                                                         *)
(***************************************************************************)
EXTENDS AgentSessionProofs

-----------------------------------------------------------------------------
(* The run of an assignment and its end. *)

(* The result becomes durable once the process it is about is gone. *)
LEMMA FinalizeStep ==
    ASSUME RowInv, AgentInv, Calm({}), NEW a \in Hosts, NEW g \in host[a].job, ~At(a, {"down", "up"}),
           row[g].phase \in {"accepted", "running"}, row[g].pid = work[g].step => work[g].is = "gone",
           NEW result \in Results, NEW h \in HostStates, h.job = host[a].job, h.mode = "run",
           h.ask # "none" => h.age + h.held <= Budget /\ h.told # "lost",
           h.ask = "kept" => Ended(g) \/ Lasts(g, Window - h.age),
           BeginFinalization(a, g, result, h), UNCHANGED <<work, summary>>
    PROVE  AgentInv' /\ [Next]_vars
<1>1. g \in grants /\ g \in HostGrants /\ RowKept(g) /\ host[a].job = {g}
  BY Zenon, InHand
<1>2. /\ work' \in [HostGrants -> WorkStates] /\ summary' \in [Ordinals -> Results \cup {"none", "reason"}]
      /\ work'[g] = work[g] /\ host \in [Hosts -> HostStates] /\ row \in [HostGrants -> RowStates]
  BY Zenon, LocalTypes
<1>3. PICK phase \in {"cancelling", "finalizing"} :
         row' = [row EXCEPT ![g].phase = phase, ![g].result = result]
  BY Zenon DEF BeginFinalization
<1>4. /\ row' \in [HostGrants -> RowStates] /\ row'[g].phase = phase /\ row'[g].result = result
      /\ row'[g].pid = row[g].pid /\ \A k \in HostGrants \ {g} : row'[k] = row[k] /\ work'[k] = work[k]
  <2>1. row[g] \in RowStates /\ phase \in Phases /\ result \in Results \cup {"none"}
    BY Zenon, <1>1, <1>2 DEF Phases
  <2>2. row' = [row EXCEPT ![g] = [row[g] EXCEPT !.phase = phase, !.result = result]]
    BY Zenon, <1>1, <1>2, <1>3
  <2>3. [row[g] EXCEPT !.phase = phase, !.result = result] \in RowStates
    BY Zenon, <2>1 DEF RowStates
  <2>4. /\ row' \in [HostGrants -> RowStates]
        /\ row'[g] = [row[g] EXCEPT !.phase = phase, !.result = result]
        /\ \A k \in HostGrants \ {g} : row'[k] = row[k]
    BY Zenon, <1>1, <1>2, <2>2, <2>3
  <2>5. /\ row'[g].phase = phase /\ row'[g].result = result /\ row'[g].pid = row[g].pid
    BY <2>1, <2>4 DEF RowStates
  <2> QED
    BY Zenon, <2>4, <2>5
<1>5. result # "none"
  BY DEF Results
<1>6. RowKept(g)'
  <2>1. g \in grants' /\ Undisturbed(g)
    BY Zenon, <1>1 DEF Calm
  <2>2. ~(ExactAuthority(g)' /\ status'[g.attempt] = "reconciliation_required")
    BY Zenon, <1>1, <2>1 DEF Undisturbed, RowKept
  <2> QED
    BY Zenon, <1>1, <1>2, <1>3, <1>4, <2>1, <2>2 DEF RowKept
<1>7. /\ host' \in [Hosts -> HostStates] /\ \A b \in Hosts \ {a} : host'[b] = host[b]
      /\ host'[a].job = {g} /\ host'[a].mode = "run" /\ host'[a].at = "publish"
      /\ host'[a].ask = h.ask /\ host'[a].told = h.told /\ host'[a].age = h.age /\ host'[a].held = h.held
  <2>1. PICK k : k = [h EXCEPT !.at = "publish"]
    BY Zenon
  <2>2. "publish" \in Places
    BY Zenon DEF Places, Leased
  <2>3. /\ k \in HostStates /\ k.job = {g} /\ k.mode = "run" /\ k.at = "publish"
        /\ k.ask = h.ask /\ k.told = h.told /\ k.age = h.age /\ k.held = h.held
    BY <1>1, <2>1, <2>2 DEF HostStates
  <2>4. host' = [host EXCEPT ![a] = k]
    BY Zenon, <2>1 DEF BeginFinalization
  <2>5. host' \in [Hosts -> HostStates] /\ host'[a] = k /\ \A b \in Hosts \ {a} : host'[b] = host[b]
    BY Zenon, <2>3, <2>4, Becomes DEF AgentInv
  <2> QED
    BY Zenon, <2>3, <2>5
<1>8. Clocked(a)'
  <2>1. "publish" \in Leased /\ "publish" \notin Recovering
    BY Zenon DEF Leased, Recovering
  <2> QED
    BY Zenon, <1>7, <2>1 DEF Clocked, At
<1>9. Standing(a, g)'
  BY <1>3, <1>4, <1>5, <1>7 DEF Standing, At
<1>10. PICK S : S = {}
  OBVIOUS
<1>11. Calm(S) /\ g \notin S /\ S \subseteq {g}
  BY Zenon, <1>10
<1>12. Covered(a, g)'
  <2>1. /\ Ended(g) => Ended(g)'
        /\ \A n \in Int : Lasts(g, n) => Lasts(g, n)'
    BY Zenon, <1>1, <1>11, CoverStays
  <2>2. PICK n \in Int : n = Window - h.age
    <3>1. h.age \in 0 .. Window /\ Window \in Nat
      BY Zenon, <1>1, AgentAssumption DEF HostStates
    <3>2. Window - h.age \in Int
      BY <3>1
    <3> QED
      BY Zenon, <3>2
  <2>3. h.ask = "kept" => Ended(g)' \/ Lasts(g, n)'
    BY Zenon, <2>1, <2>2
  <2>4. n = Window - host'[a].age
    BY Zenon, <1>7, <2>2
  <2> QED
    BY <1>7, <2>3, <2>4 DEF Covered, At, Lasts
<1>13. ~At(a, {"down", "up", "idle"})'
  BY Zenon, <1>7 DEF At
<1>14. AgentInv'
  BY Zenon, <1>2, <1>4, <1>6, <1>7, <1>8, <1>9, <1>11, <1>12, <1>13, WorkStep
<1> QED
  BY Zenon, <1>14 DEF Calm

(* The same from the state the host is in. *)
LEMMA FinalizeHere ==
    ASSUME RowInv, AgentInv, Calm({}), NEW a \in Hosts, NEW g \in host[a].job,
           ~At(a, Recovering \cup {"down", "up", "publish"}),
           row[g].phase \in {"accepted", "running"}, row[g].pid = work[g].step => work[g].is = "gone",
           NEW result \in Results, BeginFinalization(a, g, result, host[a]), UNCHANGED <<work, summary>>
    PROVE  AgentInv' /\ [Next]_vars
<1>1. Clocked(a) /\ ~At(a, {"down", "up"})
  BY Zenon DEF AgentInv, HostInv, At
<1>2. PICK h : h = host[a]
  OBVIOUS
<1>3. h \in HostStates /\ h.job = host[a].job /\ BeginFinalization(a, g, result, h)
  BY Zenon, <1>2, LocalTypes
<1>4. h.mode = "run" /\ (h.ask # "none" => h.age + h.held <= Budget /\ h.told # "lost")
  <2>1. At(a, {"lease"}) => h.told = "none"
    BY Zenon, <1>1, <1>2 DEF Clocked, At
  <2> QED
    BY Zenon, <1>1, <1>2, <2>1 DEF Clocked, At
<1>5. h.ask = "kept" => Ended(g) \/ Lasts(g, Window - h.age)
  <2>1. Covered(a, g)
    BY Zenon, InHand
  <2> QED
    BY Zenon, <1>2, <2>1 DEF Covered
<1> QED
  BY Zenon, <1>1, <1>3, <1>4, <1>5, FinalizeStep

LEMMA FailPreparationStep ==
    ASSUME RowInv, DecisionInv, AgentInv, NEW a \in Hosts, FailPreparation(a)
    PROVE  AgentInv' /\ [Next]_vars
<1>1. UNCHANGED <<vars, left>> /\ UNCHANGED <<work, summary>> /\ At(a, {"start"})
  BY Zenon DEF FailPreparation, truthVars, Jobs, At
<1>2. Calm({}) /\ "processless" \in Results
  BY Zenon, <1>1, QuietCalm DEF Results
<1>3. PICK g \in host[a].job : BeginFinalization(a, g, "processless", host[a])
  BY Zenon, <1>1 DEF FailPreparation, Jobs, At
<1>4. row[g].phase \in {"accepted", "running"} /\ work[g].is = "gone"
  <2>1. RowKept(g) /\ Standing(a, g)
    BY Zenon, InHand
  <2> QED
    BY Zenon, <1>1, <2>1 DEF Standing, At, RowKept
<1>5. ~At(a, Recovering \cup {"down", "up", "publish"})
  BY Zenon, <1>1 DEF At, Recovering
<1> QED
  BY Zenon, <1>1, <1>2, <1>3, <1>4, <1>5, FinalizeHere

LEMMA SpawnStep ==
    ASSUME RowInv, DecisionInv, AgentInv, NEW a \in Hosts, Spawn(a)
    PROVE  AgentInv' /\ [Next]_vars
<1>1. UNCHANGED <<vars, left>> /\ UNCHANGED summary /\ At(a, {"spawn"})
  BY Zenon DEF Spawn, truthVars, Jobs, At
<1>2. Calm({}) /\ {"processless", "refused"} \subseteq Results
  BY Zenon, <1>1, QuietCalm DEF Results
<1>3. PICK g \in host[a].job :
         \/ /\ work' = [work EXCEPT ![g].step = @ + 1, ![g].is = "running"]
            /\ Go(a, "spawned") /\ UNCHANGED row
         \/ \E result \in {"processless", "refused"} :
               BeginFinalization(a, g, result, host[a]) /\ UNCHANGED work
  BY Zenon, <1>1 DEF Spawn, Jobs, At
<1>4. /\ g \in grants /\ g \in HostGrants /\ RowKept(g)
      /\ row[g].phase \in {"accepted", "running"} /\ row[g].result = "none"
      /\ work[g].is = "gone" /\ work[g].step < Steps
      /\ Lasts(g, host[a].held + Grace + Margin)
  <2>1. g \in grants /\ g \in HostGrants /\ RowKept(g) /\ Standing(a, g) /\ Covered(a, g)
    BY Zenon, InHand
  <2> QED
    BY Zenon, <1>1, <2>1 DEF Standing, Covered, At
<1>5. ~At(a, Recovering \cup {"down", "up", "publish"}) /\ host[a].told = "none"
  <2>1. Clocked(a)
    BY Zenon DEF AgentInv, HostInv
  <2> QED
    BY Zenon, <1>1, <2>1 DEF Clocked, At, Recovering
<1>6. CASE \E result \in {"processless", "refused"} :
               BeginFinalization(a, g, result, host[a]) /\ UNCHANGED work
  BY Zenon, <1>1, <1>2, <1>4, <1>5, <1>6, FinalizeHere
<1>7. CASE /\ work' = [work EXCEPT ![g].step = @ + 1, ![g].is = "running"]
           /\ Go(a, "spawned") /\ UNCHANGED row
  <2>1. /\ work' \in [HostGrants -> WorkStates] /\ work'[g].step = work[g].step + 1
        /\ \A h \in HostGrants \ {g} : work'[h] = work[h]
    <3>1. work \in [HostGrants -> WorkStates] /\ work[g] \in WorkStates
      BY Zenon, <1>4, LocalTypes
    <3>2. work' = [work EXCEPT ![g] = [work[g] EXCEPT !.step = work[g].step + 1, !.is = "running"]]
      BY Zenon, <1>4, <1>7, <3>1
    <3>3. [work[g] EXCEPT !.step = work[g].step + 1, !.is = "running"] \in WorkStates
      <4>1. work[g].step \in 0 .. Steps /\ Steps \in Nat
        BY <3>1, AgentAssumption DEF WorkStates
      <4>2. work[g].step + 1 \in 0 .. Steps
        BY <1>4, <4>1
      <4> QED
        BY Zenon, <3>1, <4>2 DEF WorkStates
    <3>4. /\ work' \in [HostGrants -> WorkStates]
          /\ work'[g] = [work[g] EXCEPT !.step = work[g].step + 1, !.is = "running"]
          /\ \A h \in HostGrants \ {g} : work'[h] = work[h]
      BY Zenon, <1>4, <3>1, <3>2, <3>3
    <3> QED
      BY <3>1, <3>4 DEF WorkStates
  <2>2. /\ row' \in [HostGrants -> RowStates] /\ row'[g] = row[g]
        /\ \A h \in HostGrants \ {g} : row'[h] = row[h] /\ work'[h] = work[h]
    BY Zenon, <1>7, <2>1, LocalTypes
  <2>3. RowKept(g)'
    <3>1. g \in grants' /\ Undisturbed(g)
      BY Zenon, <1>2, <1>4 DEF Calm
    <3>2. ~(ExactAuthority(g)' /\ status'[g.attempt] = "reconciliation_required")
      BY Zenon, <1>4, <3>1 DEF Undisturbed, RowKept
    <3>3. work'[g].step # 0
      <4>1. work[g].step \in Nat
        BY <1>4, LocalTypes, AgentAssumption DEF WorkStates
      <4> QED
        BY <2>1, <4>1
    <3> QED
      BY Zenon, <1>4, <2>2, <3>1, <3>2, <3>3 DEF RowKept
  <2>4. host' = [host EXCEPT ![a].at = "spawned"] /\ "spawned" \in Leased /\ "spawned" \in Places
    BY Zenon, <1>7 DEF Go, Leased, Places
  <2>5. host'[a].at = "spawned"
    BY Zenon, <2>4, Goes DEF AgentInv
  <2>6. Standing(a, g)'
    BY <1>4, <2>2, <2>5 DEF Standing, At
  <2>7. MayGo(a, g, "spawned")
    BY <1>4, <1>5, <2>4 DEF MayGo
  <2> QED
    BY Zenon, <1>1, <1>2, <2>1, <2>2, <2>3, <2>4, <2>6, <2>7, GoOn
<1> QED
  BY Zenon, <1>3, <1>6, <1>7

LEMMA JournalSpawnStep ==
    ASSUME RowInv, DecisionInv, AgentInv, NEW a \in Hosts, JournalSpawn(a)
    PROVE  AgentInv' /\ [Next]_vars
<1>1. UNCHANGED <<vars, left>> /\ UNCHANGED <<work, summary>> /\ At(a, {"spawned"})
  BY Zenon DEF JournalSpawn, truthVars, Jobs, At
<1>2. Calm({})
  BY Zenon, <1>1, QuietCalm
<1>3. PICK g \in host[a].job :
         row' = [row EXCEPT ![g].phase = "running", ![g].pid = work[g].step]
  BY Zenon, <1>1 DEF JournalSpawn, Jobs, At
<1>4. /\ g \in grants /\ g \in HostGrants /\ RowKept(g)
      /\ row[g].phase \in {"accepted", "running"} /\ row[g].result = "none"
      /\ Lasts(g, host[a].held + Grace + Margin)
  <2>1. g \in grants /\ g \in HostGrants /\ RowKept(g) /\ Standing(a, g) /\ Covered(a, g)
    BY Zenon, InHand
  <2> QED
    BY Zenon, <1>1, <2>1 DEF Standing, Covered, At
<1>5. ~At(a, Recovering \cup {"down", "up", "publish"}) /\ host[a].told = "none"
  <2>1. Clocked(a)
    BY Zenon DEF AgentInv, HostInv
  <2> QED
    BY Zenon, <1>1, <2>1 DEF Clocked, At, Recovering
<1>6. /\ row' \in [HostGrants -> RowStates] /\ row'[g].phase = "running" /\ row'[g].result = "none"
      /\ \A h \in HostGrants \ {g} : row'[h] = row[h] /\ work'[h] = work[h]
  <2>1. /\ row \in [HostGrants -> RowStates] /\ row[g] \in RowStates
        /\ work[g] \in WorkStates /\ "running" \in Phases
    BY Zenon, <1>4, LocalTypes DEF Phases
  <2>2. row' = [row EXCEPT ![g] = [row[g] EXCEPT !.phase = "running", !.pid = work[g].step]]
    BY Zenon, <1>3, <1>4, <2>1
  <2>3. [row[g] EXCEPT !.phase = "running", !.pid = work[g].step] \in RowStates
    BY Zenon, <2>1 DEF RowStates, WorkStates
  <2>4. /\ row' \in [HostGrants -> RowStates]
        /\ row'[g] = [row[g] EXCEPT !.phase = "running", !.pid = work[g].step]
        /\ \A h \in HostGrants \ {g} : row'[h] = row[h]
    BY Zenon, <1>4, <2>1, <2>2, <2>3
  <2>5. row'[g].phase = "running" /\ row'[g].result = "none"
    BY <1>4, <2>1, <2>4 DEF RowStates
  <2> QED
    BY Zenon, <1>1, <2>4, <2>5
<1>7. RowKept(g)'
  <2>1. g \in grants' /\ Undisturbed(g) /\ work'[g] = work[g]
    BY Zenon, <1>1, <1>2, <1>4 DEF Calm
  <2>2. ~(ExactAuthority(g)' /\ status'[g.attempt] = "reconciliation_required")
    BY Zenon, <1>4, <2>1 DEF Undisturbed, RowKept
  <2> QED
    BY Zenon, <1>4, <1>6, <2>1, <2>2 DEF RowKept
<1>8. host' = [host EXCEPT ![a].at = "running"] /\ "running" \in Leased /\ "running" \in Places
  BY Zenon DEF JournalSpawn, Go, Leased, Places
<1>9. host'[a].at = "running"
  BY Zenon, <1>8, Goes DEF AgentInv
<1>10. Standing(a, g)'
  BY <1>6, <1>9 DEF Standing, At
<1>11. MayGo(a, g, "running")
  BY <1>4, <1>5, <1>8 DEF MayGo
<1>12. work' \in [HostGrants -> WorkStates]
  BY Zenon, <1>1, LocalTypes
<1> QED
  BY Zenon, <1>1, <1>2, <1>6, <1>7, <1>8, <1>10, <1>11, <1>12, GoOn

LEMMA ProcessEndsStep ==
    ASSUME RowInv, DecisionInv, AgentInv, NEW a \in Hosts, ProcessEnds(a)
    PROVE  AgentInv' /\ [Next]_vars
<1>1. UNCHANGED <<vars, left>> /\ UNCHANGED <<row, summary>> /\ At(a, {"running", "ending"})
  BY Zenon DEF ProcessEnds, truthVars, Jobs, At
<1>2. Calm({})
  BY Zenon, <1>1, QuietCalm
<1>3. PICK g \in host[a].job : work' = [work EXCEPT ![g].is = "gone"]
  BY Zenon, <1>1 DEF ProcessEnds, Jobs, At
<1>4. /\ g \in grants /\ g \in HostGrants /\ RowKept(g)
      /\ row[g].phase \in {"accepted", "running"} /\ row[g].result = "none"
      /\ At(a, {"running"}) => Lasts(g, host[a].held + Grace + Margin)
  <2>1. g \in grants /\ g \in HostGrants /\ RowKept(g) /\ Standing(a, g) /\ Covered(a, g)
    BY Zenon, InHand
  <2> QED
    BY Zenon, <1>1, <2>1 DEF Standing, Covered, At
<1>5. /\ ~At(a, Recovering \cup {"down", "up", "publish"})
      /\ At(a, {"running"}) => host[a].told = "none"
  <2>1. Clocked(a)
    BY Zenon DEF AgentInv, HostInv
  <2> QED
    BY Zenon, <1>1, <2>1 DEF Clocked, At, Recovering
<1>6. PICK place : place = IF At(a, {"running"}) THEN "exited" ELSE "cut"
  OBVIOUS
<1>7. place \in {"exited", "cut"} /\ (place = "exited" => At(a, {"running"}))
  BY Zenon, <1>6
<1>8. host' = [host EXCEPT ![a].at = place] /\ place \in Leased /\ place \in Places
  BY Zenon, <1>6, <1>7 DEF ProcessEnds, Go, Leased, Places
<1>9. host'[a].at = place
  BY Zenon, <1>8, Goes DEF AgentInv
<1>10. /\ work' \in [HostGrants -> WorkStates] /\ work'[g].is = "gone"
       /\ row' \in [HostGrants -> RowStates] /\ row'[g] = row[g]
       /\ \A h \in HostGrants \ {g} : row'[h] = row[h] /\ work'[h] = work[h]
  BY Zenon, <1>1, <1>3, <1>4, ProcessGone, LocalTypes
<1>11. RowKept(g)'
  BY Zenon, <1>2, <1>3, <1>4, <1>10, GoneRowKept
<1>12. Standing(a, g)'
  BY <1>4, <1>7, <1>9, <1>10 DEF Standing, At
<1>13. MayGo(a, g, place)
  BY <1>4, <1>5, <1>7, <1>8 DEF MayGo
<1> QED
  BY Zenon, <1>1, <1>2, <1>8, <1>10, <1>11, <1>12, <1>13, GoOn

LEMMA ContainmentUnverifiedStep ==
    ASSUME RowInv, DecisionInv, AgentInv, NEW a \in Hosts, ContainmentUnverified(a)
    PROVE  AgentInv' /\ [Next]_vars
<1>1. UNCHANGED <<vars, left>> /\ UNCHANGED <<work, summary>> /\ At(a, {"running", "ending"})
  BY Zenon DEF ContainmentUnverified, truthVars, Jobs, At
<1>2. Calm({})
  BY Zenon, <1>1, QuietCalm
<1>3. PICK g \in host[a].job : Journal(g, "reconciliation_required")
  BY Zenon, <1>1 DEF ContainmentUnverified, Jobs, At
<1>4. g \in grants /\ g \in HostGrants /\ "reconciliation_required" \in Phases
  BY Zenon, InHand DEF Phases
<1>5. /\ work' \in [HostGrants -> WorkStates] /\ summary' \in [Ordinals -> Results \cup {"none", "reason"}]
      /\ work'[g] = work[g]
  BY Zenon, <1>1, LocalTypes
<1>6. /\ row' \in [HostGrants -> RowStates]
      /\ \A h \in HostGrants \ {g} : row'[h] = row[h] /\ work'[h] = work[h]
  BY Zenon, <1>1, <1>3, <1>4, Journaled
<1>7. RowKept(g)'
  BY Zenon, <1>2, <1>3, <1>4, <1>5, Rejournaled
<1>8. Calm({g})
  BY Zenon, <1>2 DEF Calm
<1>9. Offline \in Homes /\ Offline.at # "idle" /\ Idle.at = "idle"
  BY DEF Homes, Offline, Idle
<1>10. Offline # Idle /\ host' = [host EXCEPT ![a] = Offline]
  BY Zenon, <1>9 DEF ContainmentUnverified, End
<1>11. AgentInv'
  BY Zenon, <1>5, <1>6, <1>7, <1>8, <1>9, <1>10, LeaveStep
<1> QED
  BY Zenon, <1>2, <1>11 DEF Calm

LEMMA FinishStepStep ==
    ASSUME RowInv, DecisionInv, AgentInv, NEW a \in Hosts, FinishStep(a)
    PROVE  AgentInv' /\ [Next]_vars
<1>1. UNCHANGED <<vars, left>> /\ UNCHANGED <<work, summary>> /\ At(a, {"exited", "cut"})
  BY Zenon DEF FinishStep, truthVars, Jobs, At
<1>2. Calm({}) /\ {"aborted", "failed", "refused", "succeeded"} \subseteq Results
  BY Zenon, <1>1, QuietCalm DEF Results
<1>3. PICK g \in host[a].job :
         \/ /\ At(a, {"exited"}) /\ work[g].step # Steps /\ host[a].told = "none"
            /\ Go(a, "spawn") /\ UNCHANGED row
         \/ \E result \in {"aborted", "failed", "refused", "succeeded"} :
               BeginFinalization(a, g, result, host[a])
  BY Zenon, <1>1 DEF FinishStep, Jobs, At
<1>4. /\ g \in grants /\ g \in HostGrants /\ RowKept(g)
      /\ row[g].phase \in {"accepted", "running"} /\ row[g].result = "none" /\ work[g].is = "gone"
      /\ At(a, {"exited"}) /\ host[a].told = "none" => Lasts(g, host[a].held + Grace + Margin)
  <2>1. g \in grants /\ g \in HostGrants /\ RowKept(g) /\ Standing(a, g) /\ Covered(a, g)
    BY Zenon, InHand
  <2> QED
    BY Zenon, <1>1, <2>1 DEF Standing, Covered, At
<1>5. ~At(a, Recovering \cup {"down", "up", "publish"})
  BY Zenon, <1>1 DEF At, Recovering
<1>6. CASE \E result \in {"aborted", "failed", "refused", "succeeded"} :
               BeginFinalization(a, g, result, host[a])
  BY Zenon, <1>1, <1>2, <1>4, <1>5, <1>6, FinalizeHere
<1>7. CASE /\ At(a, {"exited"}) /\ work[g].step # Steps /\ host[a].told = "none"
           /\ Go(a, "spawn") /\ UNCHANGED row
  <2>1. host' = [host EXCEPT ![a].at = "spawn"] /\ "spawn" \in Leased /\ "spawn" \in Places
    BY Zenon, <1>7 DEF Go, Leased, Places
  <2>2. host'[a].at = "spawn"
    BY Zenon, <2>1, Goes DEF AgentInv
  <2>3. /\ RowKept(g)' /\ row' \in [HostGrants -> RowStates] /\ work' \in [HostGrants -> WorkStates]
        /\ row'[g] = row[g] /\ work'[g] = work[g]
        /\ \A h \in HostGrants \ {g} : row'[h] = row[h] /\ work'[h] = work[h]
    BY Zenon, <1>1, <1>2, <1>7, CallStep
  <2>4. work[g].step < Steps
    BY <1>4, <1>7, LocalTypes, AgentAssumption DEF WorkStates
  <2>5. Standing(a, g)'
    BY <1>4, <2>2, <2>3, <2>4 DEF Standing, At
  <2>6. MayGo(a, g, "spawn")
    BY <1>4, <1>5, <1>7, <2>1 DEF MayGo
  <2> QED
    BY Zenon, <1>1, <1>2, <2>1, <2>3, <2>5, <2>6, GoOn
<1> QED
  BY Zenon, <1>3, <1>6, <1>7

-----------------------------------------------------------------------------
(* Renewals. *)

(* A host whose clocks change while its attempt stays where it is. *)
LEMMA ClockStep ==
    ASSUME RowInv, AgentInv, Calm({}), NEW a \in Hosts, ~At(a, {"down", "up"}),
           NEW h \in HostStates, host' = [host EXCEPT ![a] = h], h.job = host[a].job,
           h.at \notin {"down", "up", "idle"}, UNCHANGED <<row, work>>, UNCHANGED summary,
           Clocked(a)', \A g \in host[a].job : Standing(a, g)' /\ Covered(a, g)'
    PROVE  AgentInv' /\ [Next]_vars
<1>1. /\ host' \in [Hosts -> HostStates] /\ host'[a] = h
      /\ \A b \in Hosts \ {a} : host'[b] = host[b]
  BY Zenon, Becomes DEF AgentInv
<1>2. host'[a].job = host[a].job /\ ~At(a, {"down", "up", "idle"})'
  BY Zenon, <1>1 DEF At
<1>3. summary' \in [Ordinals -> Results \cup {"none", "reason"}]
  BY Zenon, LocalTypes
<1>4. AgentInv'
  BY Zenon, <1>1, <1>2, <1>3, GoStep
<1> QED
  BY Zenon, <1>4 DEF Calm

(* What is durable of an attempt depends on the place, not on the clocks. *)
LEMMA StandingStays ==
    ASSUME NEW a, NEW g, Standing(a, g), UNCHANGED <<row, work>>, ~At(a, {"commit"}),
           host'[a].at = host[a].at, host'[a].mode = host[a].mode
    PROVE  Standing(a, g)'
<1>1. \A places : At(a, places)' <=> At(a, places)
  BY Zenon DEF At
<1>2. row'[g] = row[g] /\ work'[g] = work[g]
  BY Zenon
<1> QED
  BY ZenonT(60), <1>1, <1>2 DEF Standing

(* The place of a host that renews. *)
LEMMA RenewingPlace ==
    ASSUME AgentInv, NEW a \in Hosts,
           At(a, {"lease"}) \/ Renewing(a)
    PROVE  /\ host[a].mode = "run" /\ host[a].told # "lost" /\ ~At(a, {"down", "up"}) /\ ~At(a, {"commit"})
           /\ ~At(a, Recovering) /\ host[a].at \notin {"down", "up", "idle", "commit"}
           /\ host[a].at \in {"lease", "start", "spawn", "running", "ending", "cut", "exited", "publish"}
           /\ At(a, {"lease"}) \/ At(a, Leased)
           /\ host[a].at \notin {"ending", "cut", "exited", "publish"} => host[a].told = "none"
<1>1. Clocked(a)
  BY Zenon DEF AgentInv, HostInv
<1>2. host[a].at \in {"lease", "start", "spawn", "running", "ending", "cut", "exited", "publish"}
  BY Zenon DEF Renewing, At, Leased
<1>3. At(a, {"lease"}) => host[a].mode = "run" /\ host[a].told = "none"
  BY Zenon, <1>1 DEF Clocked, At, Recovering
<1>4. host[a].mode = "run" /\ host[a].told # "lost"
  BY Zenon, <1>3 DEF Renewing
<1>5. /\ ~At(a, {"down", "up"}) /\ ~At(a, {"commit"}) /\ ~At(a, Recovering)
      /\ host[a].at \notin {"down", "up", "idle", "commit"}
      /\ At(a, {"lease"}) \/ At(a, Leased)
  BY <1>2 DEF At, Recovering, Leased
<1>6. host[a].at \notin {"ending", "cut", "exited", "publish"} => host[a].told = "none"
  BY Zenon, <1>1, <1>5 DEF Clocked, At
<1> QED
  BY Zenon, <1>2, <1>4, <1>5, <1>6

(* The lease keeps covering a place whose clocks do not ask for more. *)
LEMMA CoveredStays ==
    ASSUME RowInv, AgentInv, Calm({}), NEW a \in Hosts, NEW g \in host[a].job,
           host'[a].at = host[a].at, host'[a].told = host[a].told, host'[a].dying = host[a].dying,
           host'[a].held = host[a].held \/ host[a].at = "lease",
           host'[a].ask = "kept" =>
               \/ host[a].ask = "kept" /\ host'[a].age = host[a].age
               \/ Ended(g)' \/ Lasts(g, Window - host[a].age)'
    PROVE  Covered(a, g)'
<1>1. g \in grants /\ g \in HostGrants /\ Covered(a, g)
  BY Zenon, InHand
<1>2. PICK S : S = {}
  OBVIOUS
<1>3. Calm(S) /\ g \notin S
  BY Zenon, <1>2
<1>4. /\ Ended(g) => Ended(g)'
      /\ \A n \in Int : Lasts(g, n) => Lasts(g, n)'
  BY Zenon, <1>1, <1>3, CoverStays
<1>5. PICK age \in Int, term \in Int, grace \in Int :
         /\ age = Window - host[a].age /\ term = host[a].held + Grace + Margin
         /\ grace = host[a].dying + Margin
  BY Zenon, Terms
<1>6. /\ host[a].ask = "kept" => Ended(g)' \/ Lasts(g, age)'
      /\ At(a, {"start"}) => Ended(g)' \/ Lasts(g, term)'
      /\ At(a, {"spawn", "spawned", "running"}) => Lasts(g, term)'
      /\ At(a, {"exited"}) /\ host[a].told = "none" => Lasts(g, term)'
      /\ At(a, {"ending"}) => Lasts(g, grace)'
  BY Zenon, <1>1, <1>4, <1>5 DEF Covered
<1>7. host'[a].ask = "kept" => Ended(g)' \/ Lasts(g, Window - host[a].age)'
  <2>1. host[a].ask = "kept" /\ host'[a].age = host[a].age => Ended(g)' \/ Lasts(g, Window - host[a].age)'
    BY Zenon, <1>5, <1>6 DEF Lasts
  <2> QED
    BY Zenon, <2>1
<1>8. host[a].at # "lease" => term = host'[a].held + Grace + Margin
  BY Zenon, <1>5
<1>9. grace = host'[a].dying + Margin
  BY Zenon, <1>5
<1> QED
  BY <1>6, <1>7, <1>8, <1>9 DEF Covered, At, Lasts

LEMMA AskRenewalStep ==
    ASSUME RowInv, DecisionInv, AgentInv, NEW a \in Hosts, AskRenewal(a)
    PROVE  AgentInv' /\ [Next]_vars
<1>1. UNCHANGED <<vars, left>> /\ UNCHANGED <<row, work>> /\ UNCHANGED summary
  BY Zenon DEF AskRenewal, truthVars, localVars
<1>2. Calm({})
  BY Zenon, <1>1, QuietCalm
<1>3. At(a, {"lease"}) \/ Renewing(a)
  BY Zenon DEF AskRenewal
<1>4. /\ host[a].mode = "run" /\ host[a].told # "lost" /\ ~At(a, {"down", "up"}) /\ ~At(a, {"commit"})
      /\ ~At(a, Recovering) /\ host[a].at \notin {"down", "up", "idle", "commit"}
      /\ At(a, {"lease"}) \/ At(a, Leased)
  BY Zenon, <1>3, RenewingPlace
<1>5. PICK held \in 0 .. Budget :
         /\ host' = [host EXCEPT ![a] = [host[a] EXCEPT !.ask = "sent", !.age = 0, !.held = held]]
         /\ held = host[a].held \/ host[a].at = "lease"
  <2>1. host[a] \in HostStates /\ host \in [Hosts -> HostStates]
    BY Zenon, LocalTypes
  <2>2. host[a].held \in 0 .. Budget /\ Budget \in 0 .. Budget
    BY <2>1, AgentAssumption DEF HostStates
  <2>3. CASE host' = [host EXCEPT ![a].ask = "sent", ![a].age = 0]
    <3>1. host' = [host EXCEPT ![a] = [host[a] EXCEPT !.ask = "sent", !.age = 0, !.held = host[a].held]]
      BY Zenon, <2>1, <2>3 DEF HostStates
    <3> QED
      BY Zenon, <2>2, <3>1
  <2>4. CASE /\ host[a].at = "lease"
             /\ host' = [host EXCEPT ![a].ask = "sent", ![a].age = 0, ![a].held = Budget]
    <3>1. host' = [host EXCEPT ![a] = [host[a] EXCEPT !.ask = "sent", !.age = 0, !.held = Budget]]
      BY Zenon, <2>1, <2>4 DEF HostStates
    <3> QED
      BY Zenon, <2>2, <2>4, <3>1
  <2> QED
    BY Zenon, <2>3, <2>4 DEF AskRenewal, At
<1>6. PICK h : h = [host[a] EXCEPT !.ask = "sent", !.age = 0, !.held = held]
  OBVIOUS
<1>7. /\ h \in HostStates /\ h.at = host[a].at /\ h.job = host[a].job /\ h.mode = host[a].mode
      /\ h.ask = "sent" /\ h.age = 0 /\ h.held = held /\ h.told = host[a].told /\ h.dying = host[a].dying
  <2>1. host[a] \in HostStates /\ 0 \in 0 .. Window
    BY LocalTypes, AgentAssumption
  <2> QED
    BY Zenon, <1>6, <2>1 DEF HostStates
<1>8. host' = [host EXCEPT ![a] = h] /\ host'[a] = h
  BY Zenon, <1>5, <1>6, LocalTypes
<1>9. Clocked(a)'
  <2>1. Clocked(a) /\ host'[a].age + host'[a].held <= Budget
    BY <1>7, <1>8, AgentAssumption DEF AgentInv, HostInv
  <2> QED
    BY Zenon, <1>4, <1>7, <1>8, <2>1 DEF Clocked, At
<1>10. ASSUME NEW g \in host[a].job PROVE Standing(a, g)'
  BY Zenon, <1>1, <1>4, <1>7, <1>8, StandingStays, InHand
<1>11. ASSUME NEW g \in host[a].job PROVE Covered(a, g)'
  <2>1. host'[a].ask # "kept"
    BY Zenon, <1>7, <1>8
  <2> QED
    BY Zenon, <1>2, <1>5, <1>7, <1>8, <2>1, CoveredStays
<1> QED
  BY Zenon, <1>1, <1>2, <1>4, <1>7, <1>8, <1>9, <1>10, <1>11, ClockStep

(* The controller answers for a lease it has just extended. *)
LEMMA AnswerRenewalStep ==
    ASSUME RowInv, DecisionInv, AgentInv, NEW a \in Hosts, AnswerRenewal(a)
    PROVE  AgentInv' /\ [Next]_vars
<1>1. UNCHANGED <<row, work>> /\ UNCHANGED summary /\ host[a].ask = "sent"
  BY Zenon DEF AnswerRenewal, localVars
<1>2. PICK g \in host[a].job, answer \in {"kept", "stop", "no"} :
         Renewal(g, answer) /\ host' = [host EXCEPT ![a].ask = answer]
  BY Zenon DEF AnswerRenewal
<1>3. g \in grants /\ g \in HostGrants /\ Standing(a, g)
  BY Zenon, InHand
<1>4. Calm({}) /\ (answer = "kept" => Ended(g)' \/ Lasts(g, Window)')
  BY Zenon, <1>2, <1>3, RenewalCalm
<1>5. Clocked(a) /\ host[a] \in HostStates /\ host \in [Hosts -> HostStates]
  BY Zenon, LocalTypes DEF AgentInv, HostInv
<1>6. PICK h : h = [host[a] EXCEPT !.ask = answer]
  BY Zenon
<1>7. /\ h \in HostStates /\ h.at = host[a].at /\ h.job = host[a].job /\ h.mode = host[a].mode
      /\ h.ask = answer /\ h.age = host[a].age /\ h.held = host[a].held /\ h.told = host[a].told
      /\ h.dying = host[a].dying
  BY <1>5, <1>6 DEF HostStates
<1>8. host' = [host EXCEPT ![a] = h] /\ host'[a] = h
  BY <1>2, <1>5, <1>6
<1>9. /\ host[a].age + host[a].held <= Budget
      /\ At(a, {"lease"}) \/ (At(a, Leased) /\ host[a].mode = "run" /\ host[a].told # "lost")
  BY Zenon, <1>1, <1>5 DEF Clocked
<1>10. ~At(a, {"down", "up"}) /\ ~At(a, {"commit"}) /\ h.at \notin {"down", "up", "idle"}
  BY Zenon, <1>7, <1>9 DEF At, Leased
<1>11. Clocked(a)'
  BY Zenon, <1>5, <1>7, <1>8, <1>9 DEF Clocked, At
<1>12. Standing(a, g)'
  BY Zenon, <1>1, <1>3, <1>7, <1>8, <1>10, StandingStays
<1>13. Covered(a, g)'
  <2>1. Lasts(g, Window)' => Lasts(g, Window - host[a].age)'
    <3>1. left'[g.attempt] \in Int /\ host'[a].age \in Nat
      BY <1>3, <1>4, <1>7, <1>8, AgentAssumption DEF Calm, HostGrants, Grants, HostStates
    <3> QED
      BY <3>1, AgentAssumption DEF Lasts
  <2> QED
    BY Zenon, <1>4, <1>7, <1>8, <2>1, CoveredStays
<1>14. \A k \in host[a].job : Standing(a, k)' /\ Covered(a, k)'
  BY Zenon, <1>12, <1>13, InHand
<1> QED
  BY Zenon, <1>1, <1>4, <1>7, <1>8, <1>10, <1>11, <1>14, ClockStep

LEMMA GiveUpRenewalStep ==
    ASSUME RowInv, DecisionInv, AgentInv, NEW a \in Hosts, GiveUpRenewal(a)
    PROVE  AgentInv' /\ [Next]_vars
<1>1. UNCHANGED <<vars, left>> /\ UNCHANGED <<row, work>> /\ UNCHANGED summary /\ Renewing(a)
  BY Zenon DEF GiveUpRenewal, truthVars, localVars
<1>2. Calm({}) /\ Clocked(a)
  BY Zenon, <1>1, QuietCalm DEF AgentInv, HostInv
<1>3. /\ ~At(a, {"down", "up"}) /\ ~At(a, {"commit"}) /\ host[a].at \notin {"down", "up", "idle", "commit"}
  BY Zenon, <1>1, RenewingPlace
<1>4. PICK h : h = [host[a] EXCEPT !.ask = "none", !.age = 0]
  OBVIOUS
<1>5. host[a] \in HostStates /\ host \in [Hosts -> HostStates] /\ 0 \in 0 .. Window
  BY LocalTypes, AgentAssumption
<1>6. /\ h \in HostStates /\ h.at = host[a].at /\ h.job = host[a].job /\ h.mode = host[a].mode
      /\ h.ask = "none" /\ h.held = host[a].held /\ h.told = host[a].told /\ h.dying = host[a].dying
  BY Zenon, <1>4, <1>5 DEF HostStates
<1>7. host' = [host EXCEPT ![a] = h] /\ host'[a] = h
  BY Zenon, <1>4, <1>5 DEF GiveUpRenewal
<1>8. Clocked(a)'
  BY Zenon, <1>2, <1>6, <1>7 DEF Clocked, At
<1>9. ASSUME NEW g \in host[a].job PROVE Standing(a, g)'
  <2>1. Standing(a, g)
    BY Zenon, <1>9, InHand
  <2>2. host'[a].at = host[a].at /\ host'[a].mode = host[a].mode
    BY Zenon, <1>6, <1>7
  <2> QED
    BY Zenon, <1>1, <1>3, <2>1, <2>2, StandingStays
<1>10. ASSUME NEW g \in host[a].job PROVE Covered(a, g)'
  <2>1. host'[a].ask # "kept"
    BY Zenon, <1>6, <1>7
  <2> QED
    BY Zenon, <1>2, <1>6, <1>7, <2>1, CoveredStays
<1> QED
  BY Zenon, <1>1, <1>2, <1>3, <1>6, <1>7, <1>8, <1>9, <1>10, ClockStep

(* The execution is cancelled: what is not started is finalized, what runs   *)
(* is ended within the grace, which the lease still covers.                  *)
LEMMA CancelStep ==
    ASSUME RowInv, AgentInv, Calm({}), NEW a \in Hosts, NEW g \in host[a].job,
           At(a, {"lease"}) \/ Renewing(a), NEW h \in HostStates,
           h.at = host[a].at, h.job = host[a].job, h.mode = host[a].mode, h.dying = host[a].dying,
           h.ask = "none", h.told = host[a].told, NEW why \in {"stop", "lost"},
           CancelExecution(a, g, h, why), UNCHANGED <<work, summary>>
    PROVE  AgentInv' /\ [Next]_vars
<1>1. /\ host[a].mode = "run" /\ ~At(a, {"down", "up"}) /\ ~At(a, {"commit"}) /\ ~At(a, Recovering)
      /\ host[a].at \notin {"down", "up", "idle", "commit"}
  BY Zenon, RenewingPlace
<1>2. g \in grants /\ g \in HostGrants /\ RowKept(g) /\ Standing(a, g) /\ Covered(a, g)
      /\ \A j \in host[a].job : j = g
  BY Zenon, InHand
<1>3. Clocked(a) /\ host \in [Hosts -> HostStates]
  BY Zenon, LocalTypes DEF AgentInv, HostInv
<1>4. CASE h.at \in {"lease", "start", "spawn"} /\ BeginFinalization(a, g, "aborted", [h EXCEPT !.told = why])
  <2>1. row[g].phase \in {"accepted", "running"} /\ work[g].is = "gone"
    <3>1. host[a].at \in {"lease", "start", "spawn"}
      BY Zenon, <1>4
    <3> QED
      BY Zenon, <1>2, <3>1 DEF Standing, At, RowKept
  <2>2. PICK k : k = [h EXCEPT !.told = why]
    BY Zenon
  <2>3. k \in HostStates /\ k.job = host[a].job /\ k.mode = "run" /\ k.ask = "none"
    BY <1>1, <2>2 DEF HostStates
  <2>4. BeginFinalization(a, g, "aborted", k) /\ "aborted" \in Results /\ k.ask # "kept"
    BY Zenon, <1>4, <2>2, <2>3 DEF Results
  <2> QED
    BY Zenon, <1>1, <2>1, <2>3, <2>4, FinalizeStep
<1>5. CASE /\ h.at = "running" /\ UNCHANGED row
           /\ host' = [host EXCEPT ![a] = [h EXCEPT !.at = "ending", !.dying = Grace, !.told = why]]
  <2>1. PICK k : k = [h EXCEPT !.at = "ending", !.dying = Grace, !.told = why]
    OBVIOUS
  <2>2. "ending" \in Places /\ "ending" \in Leased /\ "ending" \notin Recovering
    BY Zenon DEF Places, Leased, Recovering
  <2>3. /\ k \in HostStates /\ k.job = host[a].job /\ k.mode = "run" /\ k.ask = "none"
        /\ k.at = "ending" /\ k.dying = Grace
    <3>1. Grace \in 0 .. Grace
      BY AgentAssumption
    <3> QED
      BY Zenon, <1>1, <2>1, <2>2, <3>1 DEF HostStates
  <2>4. host' = [host EXCEPT ![a] = k] /\ host'[a] = k
    BY Zenon, <1>3, <1>5, <2>1
  <2>5. /\ row[g].phase \in {"accepted", "running"} /\ row[g].result = "none"
        /\ Lasts(g, host[a].held + Grace + Margin)
    <3>1. host[a].at = "running"
      BY Zenon, <1>5
    <3> QED
      BY Zenon, <1>2, <3>1 DEF Standing, Covered, At
  <2>6. Clocked(a)'
    BY Zenon, <2>2, <2>3, <2>4 DEF Clocked, At
  <2>7. row'[g] = row[g] /\ work'[g] = work[g] /\ UNCHANGED <<row, work>> /\ UNCHANGED summary
    BY Zenon, <1>5
  <2>8. Standing(a, g)'
    BY <2>3, <2>4, <2>5, <2>7 DEF Standing, At
  <2>9. Covered(a, g)'
    <3>1. PICK n \in Int : n = host[a].held + Grace + Margin /\ n >= Grace + Margin
      BY Terms, AgentAssumption
    <3>2. Lasts(g, n)'
      <4>1. PICK S : S = {}
        OBVIOUS
      <4>2. Calm(S) /\ g \notin S
        BY Zenon, <4>1
      <4> QED
        BY Zenon, <1>2, <2>5, <3>1, <4>2, CoverStays
    <3>3. left'[g.attempt] \in Int
      BY <1>2, AgentAssumption DEF Calm, HostGrants, Grants
    <3>4. LiveAuthority(g)' /\ left'[g.attempt] >= host'[a].dying + Margin
      BY <2>3, <2>4, <3>1, <3>2, <3>3, AgentAssumption DEF Lasts
    <3>5. Lasts(g, host[a].dying + Margin)'
      BY Zenon, <3>4 DEF Lasts
    <3>6. host'[a].at = "ending" /\ host'[a].ask = "none"
      BY Zenon, <2>3, <2>4
    <3> QED
      BY Zenon, <3>5, <3>6 DEF Covered, At
  <2>10. \A j \in host[a].job : Standing(a, j)' /\ Covered(a, j)'
    BY Zenon, <1>2, <2>8, <2>9
  <2>11. k.at \notin {"down", "up", "idle"}
    BY Zenon, <2>3
  <2> QED
    BY Zenon, <1>1, <2>3, <2>4, <2>6, <2>7, <2>10, <2>11, ClockStep
<1>6. ASSUME h.at \in {"ending", "cut", "exited", "publish"}, UNCHANGED row,
             NEW told \in {h.told, "stop", "lost"}, h.at # "publish" => told # "none",
             host' = [host EXCEPT ![a] = [h EXCEPT !.told = told]]
      PROVE  AgentInv' /\ [Next]_vars
  <2>1. PICK k : k = [h EXCEPT !.told = told]
    BY Zenon
  <2>2. /\ k \in HostStates /\ k.job = host[a].job /\ k.mode = host[a].mode /\ k.ask = "none"
        /\ k.at = host[a].at /\ k.dying = host[a].dying /\ k.told = told
    BY <1>6, <2>1 DEF HostStates
  <2>3. host' = [host EXCEPT ![a] = k] /\ host'[a] = k
    BY Zenon, <1>3, <1>6, <2>1
  <2>4. Clocked(a)'
    <3>1. host[a].at \in {"ending", "cut", "exited", "publish"}
      BY Zenon, <1>6
    <3> QED
      BY Zenon, <1>1, <2>2, <2>3, <3>1 DEF Clocked, At
  <2>5. UNCHANGED <<row, work>> /\ UNCHANGED summary
    BY Zenon, <1>6
  <2>6. Standing(a, g)'
    BY Zenon, <1>1, <1>2, <2>2, <2>3, <2>5, StandingStays
  <2>7. Covered(a, g)'
    <3>1. PICK n \in Int : n = host[a].dying + Margin
      BY Zenon, Terms
    <3>2. At(a, {"ending"}) => Lasts(g, n)'
      <4>1. PICK S : S = {}
        OBVIOUS
      <4>2. Calm(S) /\ g \notin S
        BY Zenon, <4>1
      <4>3. \A m \in Int : Lasts(g, m) => Lasts(g, m)'
        BY Zenon, <1>2, <4>2, CoverStays
      <4> QED
        BY Zenon, <1>2, <3>1, <4>3 DEF Covered
    <3>3. n = host'[a].dying + Margin
      BY Zenon, <2>2, <2>3, <3>1
    <3>4. host'[a].at = "ending" => Lasts(g, host[a].dying + Margin)'
      BY Zenon, <2>2, <2>3, <3>2, <3>3 DEF At, Lasts
    <3>5. /\ host'[a].at \in {"ending", "cut", "exited", "publish"} /\ host'[a].ask = "none"
          /\ host'[a].at = "exited" => host'[a].told # "none"
      BY Zenon, <1>6, <2>2, <2>3
    <3> QED
      BY Zenon, <3>4, <3>5 DEF Covered, At
  <2>8. \A j \in host[a].job : Standing(a, j)' /\ Covered(a, j)'
    BY Zenon, <1>2, <2>6, <2>7
  <2>9. k.at \notin {"down", "up", "idle"}
    BY Zenon, <1>1, <2>2
  <2> QED
    BY Zenon, <1>1, <2>2, <2>3, <2>4, <2>5, <2>8, <2>9, ClockStep
<1> QED
  <2>1. CASE /\ h.at \in {"ending", "cut", "exited", "publish"} /\ UNCHANGED row
             /\ host' = [host EXCEPT ![a] = [h EXCEPT !.told = IF h.at = "publish" /\ why = "stop"
                                                               THEN @ ELSE why]]
    <3>1. PICK told : told = IF h.at = "publish" /\ why = "stop" THEN h.told ELSE why
      OBVIOUS
    <3>2. told \in {h.told, "stop", "lost"} /\ (h.at # "publish" => told # "none")
      BY Zenon, <3>1
    <3>3. host' = [host EXCEPT ![a] = [h EXCEPT !.told = told]]
      BY <2>1, <3>1 DEF HostStates
    <3> QED
      BY Zenon, <1>6, <2>1, <3>2, <3>3
  <2> QED
    BY Zenon, <1>4, <1>5, <2>1 DEF CancelExecution

(* The answer of a renewal opens a term measured from the request, which the *)
(* lease that was extended since outlasts by the grace and the margin.       *)
LEMMA KeptStep ==
    ASSUME RowInv, AgentInv, Calm({}), UNCHANGED <<row, work>>, UNCHANGED summary,
           NEW a \in Hosts, NEW g \in host[a].job, At(a, {"lease"}) \/ Renewing(a),
           host[a].ask = "kept", host[a].age < Budget,
           host' = [host EXCEPT ![a] = [Held(a) EXCEPT !.at = IF @ = "lease" THEN "start" ELSE @]]
    PROVE  AgentInv' /\ [Next]_vars
<1>1. /\ host[a].mode = "run" /\ host[a].told # "lost" /\ ~At(a, {"down", "up"}) /\ ~At(a, {"commit"})
      /\ ~At(a, Recovering) /\ host[a].at \notin {"down", "up", "idle", "commit"}
      /\ host[a].at \in {"lease", "start", "spawn", "running", "ending", "cut", "exited", "publish"}
      /\ At(a, {"lease"}) \/ At(a, Leased)
      /\ host[a].at \notin {"ending", "cut", "exited", "publish"} => host[a].told = "none"
  BY Zenon, RenewingPlace
<1>2. g \in grants /\ g \in HostGrants /\ RowKept(g) /\ Standing(a, g) /\ Covered(a, g)
      /\ \A j \in host[a].job : j = g
  BY Zenon, InHand
<1>3. host \in [Hosts -> HostStates] /\ host[a] \in HostStates
  BY Zenon, LocalTypes
<1>4. PICK place : place = IF host[a].at = "lease" THEN "start" ELSE host[a].at
  OBVIOUS
<1>5. PICK k : k = [host[a] EXCEPT !.held = Budget - host[a].age, !.ask = "none", !.age = 0, !.at = place]
  OBVIOUS
<1>6. /\ k \in HostStates /\ k.job = host[a].job /\ k.mode = "run" /\ k.ask = "none" /\ k.at = place
      /\ k.dying = host[a].dying /\ k.told = host[a].told /\ k.held = Budget - host[a].age
  <2>1. Budget - host[a].age \in 0 .. Budget /\ 0 \in 0 .. Window
    BY Terms, AgentAssumption
  <2>2. place \in Places
    <3>1. place \in Leased
      BY Zenon, <1>1, <1>4 DEF Leased
    <3> QED
      BY Zenon, <3>1 DEF Places
  <2> QED
    BY Zenon, <1>1, <1>3, <1>5, <2>1, <2>2 DEF HostStates
<1>7. host' = [host EXCEPT ![a] = k] /\ host'[a] = k
  <2>1. k = [Held(a) EXCEPT !.at = IF @ = "lease" THEN "start" ELSE @]
    BY <1>3, <1>4, <1>5 DEF Held, HostStates
  <2> QED
    BY Zenon, <1>3, <2>1
<1>8. /\ place \notin {"down", "up", "idle", "lease"} /\ place \notin Recovering
      /\ place \notin {"ending", "cut", "exited", "publish", "commit"} => host[a].told = "none"
  BY Zenon, <1>1, <1>4 DEF At, Recovering
<1>9. Clocked(a)'
  BY Zenon, <1>6, <1>7, <1>8 DEF Clocked, At
<1>10. Standing(a, g)'
  <2>1. CASE host[a].at = "lease"
    <3>1. host'[a].at = "start"
      BY Zenon, <1>4, <1>6, <1>7, <2>1
    <3> QED
      BY Zenon, <1>2, <2>1, <3>1 DEF Standing, At
  <2>2. CASE host[a].at # "lease"
    <3>1. host'[a].at = host[a].at /\ host'[a].mode = host[a].mode
      BY Zenon, <1>1, <1>4, <1>6, <1>7, <2>2
    <3> QED
      BY Zenon, <1>1, <1>2, <3>1, StandingStays
  <2> QED
    BY Zenon, <2>1, <2>2
<1>11. Covered(a, g)'
  <2>1. PICK n \in Int : n = Window - host[a].age /\ n = host'[a].held + Grace + Margin
    <3>1. host[a].age \in Nat /\ Window \in Nat /\ Margin \in Nat /\ Grace \in Nat
      BY Terms, AgentAssumption
    <3>2. host'[a].held = Window - Margin - Grace - host[a].age
      BY Zenon, <1>6, <1>7 DEF Budget
    <3>3. Window - host[a].age = host'[a].held + Grace + Margin /\ Window - host[a].age \in Int
      BY <3>1, <3>2
    <3> QED
      BY Zenon, <3>3
  <2>2. PICK m \in Int : m = host[a].dying + Margin /\ m = host'[a].dying + Margin
    BY Zenon, <1>6, <1>7, Terms
  <2>3. (Ended(g) => Ended(g)') /\ \A i \in Int : Lasts(g, i) => Lasts(g, i)'
    <3>1. PICK S : S = {}
      OBVIOUS
    <3>2. Calm(S) /\ g \notin S
      BY Zenon, <3>1
    <3> QED
      BY Zenon, <1>2, <3>2, CoverStays
  <2>4. Ended(g) \/ Lasts(g, n)
    BY Zenon, <1>2, <2>1 DEF Covered
  <2>5. LiveAuthority(g) => ~Ended(g)
    BY Zenon, <1>2, LiveIsActive DEF Ended, Active, Executing, Terminal
  <2>6. host[a].at \in {"spawn", "running"} => Lasts(g, n)
    BY Zenon, <1>2, <2>4, <2>5 DEF Covered, At, Lasts
  <2>7. host[a].at = "exited" /\ host[a].told = "none" => Lasts(g, n)
    BY Zenon, <1>2, <2>4, <2>5 DEF Covered, At, Lasts
  <2>8. host[a].at = "ending" => Lasts(g, m)
    BY Zenon, <1>2, <2>2 DEF Covered, At
  <2>9. /\ Ended(g)' \/ (LiveAuthority(g)' /\ left'[g.attempt] >= host'[a].held + Grace + Margin)
        /\ host'[a].at \in {"spawn", "running"} =>
              LiveAuthority(g)' /\ left'[g.attempt] >= host'[a].held + Grace + Margin
        /\ host'[a].at = "exited" /\ host'[a].told = "none" =>
              LiveAuthority(g)' /\ left'[g.attempt] >= host'[a].held + Grace + Margin
        /\ host'[a].at = "ending" => LiveAuthority(g)' /\ left'[g.attempt] >= host'[a].dying + Margin
    <3>1. /\ host'[a].told = host[a].told
          /\ \A p \in {"spawn", "running", "exited", "ending"} : host'[a].at = p => host[a].at = p
      BY Zenon, <1>4, <1>6, <1>7
    <3> QED
      BY Zenon, <2>1, <2>2, <2>3, <2>4, <2>6, <2>7, <2>8, <3>1 DEF Lasts
  <2>10. host'[a].ask = "none" /\ host'[a].at # "spawned"
    BY Zenon, <1>1, <1>4, <1>6, <1>7
  <2> QED
    BY Zenon, <2>9, <2>10 DEF Covered, At, Lasts
<1>12. \A j \in host[a].job : Standing(a, j)' /\ Covered(a, j)'
  BY Zenon, <1>2, <1>10, <1>11
<1>13. k.at \notin {"down", "up", "idle"}
  BY Zenon, <1>6, <1>8
<1> QED
  BY Zenon, <1>1, <1>6, <1>7, <1>9, <1>12, <1>13, ClockStep

(* Authority is lost: nothing was started, or what runs is cancelled. *)
LEMMA LoseStep ==
    ASSUME RowInv, AgentInv, Calm({}), UNCHANGED work, UNCHANGED summary,
           NEW a \in Hosts, NEW g \in host[a].job, At(a, {"lease"}) \/ Renewing(a), LoseAuthority(a, g)
    PROVE  AgentInv' /\ [Next]_vars
<1>1. CASE At(a, {"lease"})
  <2>1. End(a) /\ UNCHANGED <<row, work>>
    BY Zenon, <1>1 DEF LoseAuthority
  <2> QED
    BY Zenon, <2>1, EndStep, LocalTypes
<1>2. CASE ~At(a, {"lease"})
  <2>1. PICK h : h = [host[a] EXCEPT !.ask = "none", !.age = 0]
    OBVIOUS
  <2>2. host[a] \in HostStates /\ 0 \in 0 .. Window
    BY LocalTypes, AgentAssumption
  <2>3. /\ h \in HostStates /\ h.at = host[a].at /\ h.job = host[a].job /\ h.mode = host[a].mode
        /\ h.ask = "none" /\ h.told = host[a].told /\ h.dying = host[a].dying
    BY Zenon, <2>1, <2>2 DEF HostStates
  <2>4. PICK why : why = "lost"
    OBVIOUS
  <2>5. CancelExecution(a, g, h, why) /\ UNCHANGED <<work, summary>> /\ why \in {"stop", "lost"}
    BY Zenon, <1>2, <2>1, <2>4 DEF LoseAuthority
  <2> QED
    BY Zenon, <2>3, <2>5, CancelStep
<1> QED
  BY Zenon, <1>1, <1>2

LEMMA HearRenewalStep ==
    ASSUME RowInv, DecisionInv, AgentInv, NEW a \in Hosts, HearRenewal(a)
    PROVE  AgentInv' /\ [Next]_vars
<1>1. UNCHANGED <<vars, left>> /\ UNCHANGED work /\ UNCHANGED summary
  BY Zenon DEF HearRenewal, truthVars
<1>2. Calm({}) /\ (At(a, {"lease"}) \/ Renewing(a)) /\ host[a].age < Budget
  BY Zenon, <1>1, QuietCalm DEF HearRenewal
<1>3. PICK g \in host[a].job :
         \/ /\ host[a].ask = "kept"
            /\ host' = [host EXCEPT ![a] = [Held(a) EXCEPT !.at = IF @ = "lease" THEN "start" ELSE @]]
            /\ UNCHANGED <<row, losses>>
         \/ host[a].ask = "stop" /\ CancelExecution(a, g, Held(a), "stop")
         \/ host[a].ask = "no" /\ LoseAuthority(a, g)
  BY Zenon DEF HearRenewal
<1>4. CASE /\ host[a].ask = "kept"
           /\ host' = [host EXCEPT ![a] = [Held(a) EXCEPT !.at = IF @ = "lease" THEN "start" ELSE @]]
           /\ UNCHANGED <<row, losses>>
  <2>1. UNCHANGED <<row, work>>
    BY Zenon, <1>1, <1>4
  <2> QED
    BY Zenon, <1>1, <1>2, <1>4, <2>1, KeptStep
<1>5. CASE CancelExecution(a, g, Held(a), "stop")
  <2>1. PICK h : h = Held(a)
    OBVIOUS
  <2>2. /\ host[a] \in HostStates /\ 0 \in 0 .. Window /\ Budget - host[a].age \in 0 .. Budget
    BY <1>2, LocalTypes, Terms, AgentAssumption
  <2>3. /\ h \in HostStates /\ h.at = host[a].at /\ h.job = host[a].job /\ h.mode = host[a].mode
        /\ h.ask = "none" /\ h.told = host[a].told /\ h.dying = host[a].dying
    BY Zenon, <2>1, <2>2 DEF HostStates, Held
  <2>4. PICK why : why = "stop"
    OBVIOUS
  <2>5. CancelExecution(a, g, h, why) /\ UNCHANGED <<work, summary>> /\ why \in {"stop", "lost"}
    BY Zenon, <1>1, <1>5, <2>1, <2>4
  <2> QED
    BY Zenon, <1>2, <2>3, <2>5, CancelStep
<1>6. CASE LoseAuthority(a, g)
  BY Zenon, <1>1, <1>2, <1>6, LoseStep
<1> QED
  BY Zenon, <1>3, <1>4, <1>5, <1>6

LEMMA LapseStep ==
    ASSUME RowInv, DecisionInv, AgentInv, NEW a \in Hosts, Lapse(a)
    PROVE  AgentInv' /\ [Next]_vars
<1>1. /\ UNCHANGED <<vars, left>> /\ UNCHANGED work /\ UNCHANGED summary
      /\ At(a, {"lease"}) \/ Renewing(a)
  BY Zenon DEF Lapse, truthVars
<1>2. Calm({})
  BY Zenon, <1>1, QuietCalm
<1>3. PICK g \in host[a].job : LoseAuthority(a, g)
  BY Zenon DEF Lapse
<1> QED
  BY Zenon, <1>1, <1>2, <1>3, LoseStep

(* A step that no host takes. *)
LEMMA StoreStep ==
    ASSUME RowInv, AgentInv, NEW S, Calm(S), \A h \in S : h.agent \notin Hosts,
           UNCHANGED <<host, row, summary>>, work' \in [HostGrants -> WorkStates],
           \A h \in HostGrants : /\ work'[h].step = work[h].step
                                 /\ work[h].is = "gone" => work'[h].is = "gone"
    PROVE  AgentInv' /\ [Next]_vars
<1>1. \A b \in Hosts : HostInv(b)'
  <2> SUFFICES ASSUME NEW b \in Hosts PROVE HostInv(b)'
    OBVIOUS
  <2>1. host'[b] = host[b] /\ (\A h \in S : h.agent # b) /\ \A h \in HostGrants : row'[h] = row[h]
    BY Zenon
  <2> QED
    BY Zenon, <2>1, Bystander
<1>2. \A h \in HostGrants : RowKept(h)'
  <2> SUFFICES ASSUME NEW h \in HostGrants PROVE RowKept(h)'
    OBVIOUS
  <2>1. h \notin S /\ row'[h] = row[h]
    BY Zenon DEF HostGrants
  <2> QED
    BY Zenon, <2>1, RowStaysKept
<1>3. NoEffects' /\ [Next]_vars /\ left' \in [Ordinals -> 0 .. Window]
  BY Zenon DEF Calm
<1>4. AgentTypeOK'
  BY Zenon, <1>3 DEF AgentInv, AgentTypeOK
<1> QED
  BY Zenon, <1>1, <1>2, <1>3, <1>4 DEF AgentInv

LEMMA OrphanEndsStep ==
    ASSUME RowInv, DecisionInv, AgentInv, NEW g \in grants, g \in HostGrants, OrphanEnds(g)
    PROVE  AgentInv' /\ [Next]_vars
<1>1. UNCHANGED <<vars, left>> /\ UNCHANGED <<host, row, summary>> /\ work[g].is # "gone"
  BY Zenon DEF OrphanEnds, truthVars
<1>2. PICK S : S = {}
  BY Zenon
<1>3. Calm(S) /\ \A h \in S : h.agent \notin Hosts
  BY Zenon, <1>1, <1>2, QuietCalm
<1>4. PICK next \in {"stragglers", "gone"} : work' = [work EXCEPT ![g].is = next]
  BY Zenon DEF OrphanEnds
<1>5. work' \in [HostGrants -> WorkStates] /\ \A h \in HostGrants : work'[h].step = work[h].step
  BY <1>4 DEF AgentInv, AgentTypeOK, WorkStates
<1>6. \A h \in HostGrants \ {g} : work'[h] = work[h]
  BY Zenon, <1>4 DEF AgentInv, AgentTypeOK
<1>7. \A h \in HostGrants : work[h].is = "gone" => work'[h].is = "gone"
  BY Zenon, <1>1, <1>6
<1> QED
  BY Zenon, <1>1, <1>3, <1>5, <1>7, StoreStep

(* The controller, and agents that are not modelled. *)
LEMMA OutsideStep ==
    ASSUME RowInv, DecisionInv, AgentInv, ControllerStep \/ Elsewhere,
           UNCHANGED <<host, row, work, summary, crashes, losses>>
    PROVE  AgentInv' /\ [Next]_vars
<1>1. /\ UNCHANGED <<host, row, summary>> /\ work' \in [HostGrants -> WorkStates]
      /\ \A h \in HostGrants : /\ work'[h].step = work[h].step
                               /\ work[h].is = "gone" => work'[h].is = "gone"
  BY Zenon DEF AgentInv, AgentTypeOK
<1>2. ASSUME Calm({}) PROVE AgentInv' /\ [Next]_vars
  <2>1. PICK S : S = {}
    BY Zenon
  <2>2. Calm(S) /\ \A h \in S : h.agent \notin Hosts
    BY Zenon, <1>2, <2>1
  <2> QED
    BY Zenon, <1>1, <2>2, StoreStep
<1>3. CASE ControllerStep
  BY Zenon, <1>2, <1>3, ControllerCalm
<1>4. ASSUME NEW b \in Agents, NEW o \in Ordinals, ClaimNext(b, o), Stamp(o)
      PROVE  AgentInv' /\ [Next]_vars
  BY Zenon, <1>2, <1>4, ClaimCalm
<1>5. ASSUME NEW g \in grants, AcceptOffer(g), Kept PROVE AgentInv' /\ [Next]_vars
  BY Zenon, <1>2, <1>5, HoldCalm
<1>6. ASSUME NEW g \in grants, g \notin HostGrants, Kept,
             NEW outcome \in Terminal, FinalizeAttempt(g, outcome, TRUE)
      PROVE  AgentInv' /\ [Next]_vars
  <2>1. PICK S : S = {g}
    BY Zenon
  <2>2. PICK aware \in BOOLEAN : aware = TRUE
    BY Zenon
  <2>3. FinalizeAttempt(g, outcome, aware)
    BY Zenon, <1>6, <2>2
  <2>4. Calm({g})
    BY Zenon, <1>6, <2>3, EndCalm
  <2>5. g.agent \notin Hosts
    BY Zenon, <1>6 DEF HostGrants, RowInv, TypeOK
  <2>6. Calm(S) /\ \A h \in S : h.agent \notin Hosts
    BY Zenon, <2>1, <2>4, <2>5
  <2> QED
    BY Zenon, <1>1, <2>6, StoreStep
<1> QED
  BY Zenon, <1>3, <1>4, <1>5, <1>6 DEF Elsewhere

(* A tick of the store ends at most the lease of which one tick was left. *)
LEMMA PassOfStore ==
    ASSUME RowInv, AgentInv, Pass
    PROVE  /\ [Next]_vars /\ UNCHANGED <<epoch, status, fence, owner, repoch, grants, effect>>
           /\ left' \in [Ordinals -> 0 .. Window]
           /\ \A p \in Ordinals : left[p] > 1 => lease'[p] = lease[p] /\ left'[p] = left[p] - 1
<1>1. left \in [Ordinals -> 0 .. Window] /\ Window \in Nat /\ left' = [o \in Ordinals |-> Less(left[o])]
  BY Zenon, AgentAssumption DEF AgentInv, AgentTypeOK, Pass
<1>2. /\ left' \in [Ordinals -> 0 .. Window]
      /\ \A p \in Ordinals : left[p] > 1 => left'[p] = left[p] - 1
  BY <1>1 DEF Less
<1>3. ASSUME NEW o \in Ordinals, left[o] = 1, Tick(o)
      PROVE  /\ [Next]_vars /\ UNCHANGED <<epoch, status, fence, owner, repoch, grants, effect>>
             /\ \A p \in Ordinals : left[p] > 1 => lease'[p] = lease[p]
  <2>1. [Next]_vars
    BY Zenon, <1>3 DEF Next, SchedulerStep
  <2>2. UNCHANGED <<epoch, status, fence, owner, repoch, grants, effect>>
    BY Zenon, <1>3 DEF Tick, restoreVars, effectVars
  <2>3. \A p \in Ordinals : left[p] > 1 => p # o
    BY <1>3
  <2>4. lease' = [lease EXCEPT ![o] = lease[o] - 1] /\ DOMAIN lease = Ordinals
    BY Zenon, <1>3 DEF Tick, RowInv, TypeOK
  <2> QED
    BY Zenon, <2>1, <2>2, <2>3, <2>4
<1>4. ASSUME UNCHANGED vars
      PROVE  /\ [Next]_vars /\ UNCHANGED <<epoch, status, fence, owner, repoch, grants, effect>>
             /\ \A p \in Ordinals : left[p] > 1 => lease'[p] = lease[p]
  BY Zenon, <1>4 DEF vars, restoreVars, attemptVars, effectVars
<1>5. /\ [Next]_vars /\ UNCHANGED <<epoch, status, fence, owner, repoch, grants, effect>>
      /\ \A p \in Ordinals : left[p] > 1 => lease'[p] = lease[p]
  BY Zenon, <1>3, <1>4 DEF Pass
<1> QED
  BY Zenon, <1>2, <1>5

(* A tick passes: a term that the agent has not used up shrinks together     *)
(* with the lease behind it, which therefore does not end.                   *)
LEMMA PassOfHost ==
    ASSUME RowInv, AgentInv, Pass, NEW a \in Hosts
    PROVE  HostInv(a)' /\ host'[a] \in HostStates
<1>1. /\ UNCHANGED <<epoch, status, fence, owner, repoch, grants, effect>>
      /\ left' \in [Ordinals -> 0 .. Window]
      /\ \A p \in Ordinals : left[p] > 1 => lease'[p] = lease[p] /\ left'[p] = left[p] - 1
  BY Zenon, PassOfStore
<1>2. HostInv(a) /\ Clocked(a) /\ host[a] \in HostStates /\ UNCHANGED <<row, work>> /\ ~Urgent(a)
  BY Zenon, LocalTypes DEF AgentInv, HostInv, Pass, localVars
<1>3. /\ host[a].held \in Nat /\ host[a].age \in Nat /\ host[a].dying \in Nat
      /\ Grace \in Nat /\ Margin \in Nat \ {0} /\ Window \in Nat /\ Budget \in Nat /\ Budget <= Window
      /\ Budget = Window - Margin - Grace
  BY Terms, AgentAssumption DEF Budget
<1>4. PICK age : age = IF host[a].ask = "none" THEN 0 ELSE host[a].age + 1
  OBVIOUS
<1>5. host'[a] = [host[a] EXCEPT !.held = Less(host[a].held), !.dying = Less(host[a].dying), !.age = age]
  BY Zenon, <1>2, <1>4 DEF Pass, HostStates
<1>6. host[a].ask # "none" =>
         host[a].held > 0 /\ host[a].age + host[a].held <= Budget /\ age = host[a].age + 1
  <2>1. host[a].held = 0 \/ host[a].held > 0
    BY <1>3
  <2>2. At(a, Leased) => At(a, Leased \ {"spawned"}) \/ At(a, {"spawned"})
    BY Zenon DEF At
  <2> QED
    BY Zenon, <1>2, <1>4, <2>1, <2>2 DEF Clocked, Urgent, Renewing
<1>7. age \in 0 .. Window /\ Less(host[a].held) \in 0 .. Budget /\ Less(host[a].dying) \in 0 .. Grace
  <2>1. CASE host[a].ask = "none"
    BY <1>3, <1>4, <2>1, Terms DEF Less
  <2>2. CASE host[a].ask # "none"
    BY <1>3, <1>6, <2>2, Terms DEF Less
  <2> QED
    BY Zenon, <2>1, <2>2
<1>8. /\ host'[a] \in HostStates /\ host'[a].at = host[a].at /\ host'[a].job = host[a].job
      /\ host'[a].mode = host[a].mode /\ host'[a].ask = host[a].ask /\ host'[a].told = host[a].told
      /\ host'[a].held = Less(host[a].held) /\ host'[a].dying = Less(host[a].dying)
      /\ host'[a].age = age
  BY Zenon, <1>2, <1>5, <1>7 DEF HostStates
<1>9. \A places : At(a, places)' <=> At(a, places)
  BY Zenon, <1>8 DEF At
<1>10. OneInHand(a)'
  <2>1. OpenRows(a)' = OpenRows(a)
    BY Zenon, <1>1, <1>2 DEF OpenRows
  <2> QED
    BY Zenon, <1>1, <1>2, <1>8, <1>9, <2>1 DEF HostInv, OneInHand
<1>11. Clocked(a)'
  <2>1. host'[a].ask # "none" => host'[a].age + host'[a].held <= Budget
    BY <1>3, <1>6, <1>8 DEF Less
  <2> QED
    BY Zenon, <1>2, <1>8, <1>9, <2>1 DEF Clocked
<1>12. ASSUME NEW g \in host[a].job PROVE Standing(a, g)' /\ Covered(a, g)'
  <2>1. g \in grants /\ g \in HostGrants /\ Standing(a, g) /\ Covered(a, g) /\ g.attempt \in Ordinals
    <3>1. g \in grants /\ g \in HostGrants /\ Standing(a, g) /\ Covered(a, g)
      BY Zenon, InHand
    <3>2. g.attempt \in Ordinals
      BY Zenon, <3>1 DEF HostGrants, Grants
    <3> QED
      BY Zenon, <3>1, <3>2
  <2>2. Standing(a, g)'
    BY ZenonT(60), <1>1, <1>2, <1>8, <1>9, <2>1 DEF Standing
  <2>3. Ended(g) => Ended(g)'
    BY Zenon, <1>1 DEF Ended, ExactAuthority
  <2>4. ASSUME NEW n \in Int, n > 1, Lasts(g, n) PROVE Lasts(g, n - 1)'
    <3>1. left[g.attempt] \in Int /\ left[g.attempt] >= n
      BY <2>1, <2>4, AgentAssumption DEF AgentInv, AgentTypeOK, Lasts
    <3>2. left[g.attempt] > 1 /\ left[g.attempt] - 1 >= n - 1
      BY <2>4, <3>1
    <3>3. lease'[g.attempt] = lease[g.attempt] /\ left'[g.attempt] >= n - 1
      BY Zenon, <1>1, <2>1, <3>2
    <3>4. LiveAuthority(g)'
      BY Zenon, <1>1, <2>4, <3>3 DEF Lasts, LiveAuthority, ExactAuthority
    <3> QED
      BY Zenon, <3>3, <3>4 DEF Lasts
  <2>5. /\ At(a, {"start", "spawn", "spawned", "running"}) => host[a].held > 0
        /\ At(a, {"exited"}) /\ host[a].told = "none" => host[a].held > 0
        /\ At(a, {"ending"}) => host[a].dying > 0
    <3>1. (host[a].held = 0 \/ host[a].held > 0) /\ (host[a].dying = 0 \/ host[a].dying > 0)
      BY <1>3
    <3>2. ASSUME At(a, {"start", "spawn", "running"}) \/ (At(a, {"exited"}) /\ host[a].told = "none")
          PROVE  Renewing(a)
      <4>1. ~At(a, Recovering \cup {"publish"}) /\ At(a, Leased \ {"spawned"})
        BY Zenon, <3>2 DEF At, Leased, Recovering
      <4>2. host[a].told = "none"
        BY Zenon, <1>2, <3>2 DEF Clocked, At
      <4> QED
        BY Zenon, <1>2, <4>1, <4>2 DEF Clocked, Renewing
    <3>3. At(a, {"start", "spawn", "spawned", "running"}) =>
             At(a, {"start", "spawn", "running"}) \/ At(a, {"spawned"})
      BY Zenon DEF At
    <3> QED
      BY Zenon, <1>2, <3>1, <3>2, <3>3 DEF Urgent
  <2>6. PICK n \in Int : n = host[a].held + Grace + Margin
    BY Zenon, Terms
  <2>7. host[a].held > 0 => n > 1 /\ n - 1 = host'[a].held + Grace + Margin
    BY <1>3, <1>8, <2>6 DEF Less
  <2>8. PICK m \in Int : m = host[a].dying + Margin
    BY Zenon, Terms
  <2>9. host[a].dying > 0 => m > 1 /\ m - 1 = host'[a].dying + Margin
    BY <1>3, <1>8, <2>8 DEF Less
  <2>10. PICK w \in Int : w = Window - host[a].age
    BY Zenon, Terms
  <2>11. host[a].ask # "none" => w > 1 /\ w - 1 = Window - host'[a].age
    BY <1>3, <1>6, <1>8, <2>10
  <2>12. host'[a].ask = "kept" => (Ended(g) \/ Lasts(g, Window - host[a].age))'
    <3>1. host[a].ask = "kept" => (Ended(g) \/ Lasts(g, w)) /\ w > 1 /\ w - 1 = Window - host'[a].age
      BY Zenon, <2>1, <2>10, <2>11 DEF Covered
    <3>2. host[a].ask = "kept" => Ended(g)' \/ Lasts(g, w - 1)'
      BY Zenon, <2>3, <2>4, <3>1
    <3> QED
      BY Zenon, <1>8, <3>1, <3>2 DEF Lasts
  <2>13. /\ At(a, {"start"}) => (Ended(g) \/ Lasts(g, host[a].held + Grace + Margin))'
         /\ At(a, {"spawn", "spawned", "running"}) => Lasts(g, host[a].held + Grace + Margin)'
         /\ At(a, {"exited"}) /\ host[a].told = "none" => Lasts(g, host[a].held + Grace + Margin)'
    <3>1. /\ At(a, {"start"}) => Ended(g) \/ Lasts(g, n)
          /\ At(a, {"spawn", "spawned", "running"}) => Lasts(g, n)
          /\ At(a, {"exited"}) /\ host[a].told = "none" => Lasts(g, n)
      BY Zenon, <2>1, <2>6 DEF Covered
    <3>2. /\ At(a, {"start"}) => At(a, {"start", "spawn", "spawned", "running"})
          /\ At(a, {"spawn", "spawned", "running"}) => At(a, {"start", "spawn", "spawned", "running"})
      BY Zenon DEF At
    <3>3. Lasts(g, n) /\ host[a].held > 0 => Lasts(g, host[a].held + Grace + Margin)'
      <4>1. Lasts(g, n) /\ host[a].held > 0 => Lasts(g, n - 1)'
        BY Zenon, <2>4, <2>7
      <4> QED
        BY Zenon, <2>7, <4>1 DEF Lasts
    <3> QED
      BY Zenon, <2>3, <2>5, <3>1, <3>2, <3>3
  <2>14. At(a, {"ending"}) => Lasts(g, host[a].dying + Margin)'
    <3>1. At(a, {"ending"}) => Lasts(g, m) /\ m > 1 /\ m - 1 = host'[a].dying + Margin
      BY Zenon, <2>1, <2>5, <2>8, <2>9 DEF Covered
    <3>2. At(a, {"ending"}) => Lasts(g, m - 1)'
      BY Zenon, <2>4, <3>1
    <3> QED
      BY Zenon, <3>1, <3>2 DEF Lasts
  <2>15. Covered(a, g)'
    BY Zenon, <1>8, <1>9, <2>12, <2>13, <2>14 DEF Covered
  <2> QED
    BY Zenon, <2>2, <2>15
<1> QED
  BY Zenon, <1>8, <1>10, <1>11, <1>12 DEF HostInv

LEMMA PassStep ==
    ASSUME RowInv, AgentInv, Pass
    PROVE  AgentInv' /\ [Next]_vars
<1>1. /\ [Next]_vars /\ UNCHANGED <<epoch, status, fence, owner, repoch, grants, effect>>
      /\ left' \in [Ordinals -> 0 .. Window]
  BY Zenon, PassOfStore
<1>2. UNCHANGED <<row, work, summary>>
  BY Zenon DEF Pass, localVars
<1>3. \A a \in Hosts : HostInv(a)' /\ host'[a] \in HostStates
  BY Zenon, PassOfHost
<1>4. NoEffects'
  BY Zenon, <1>1 DEF AgentInv, NoEffects
<1>5. \A g \in HostGrants : RowKept(g)'
  <2> SUFFICES ASSUME NEW g \in HostGrants PROVE RowKept(g)'
    OBVIOUS
  <2>1. RowKept(g) /\ ExactAuthority(g)' = ExactAuthority(g)
    BY Zenon, <1>1 DEF AgentInv, ExactAuthority
  <2> QED
    BY Zenon, <1>1, <1>2, <2>1 DEF RowKept
<1>6. AgentTypeOK'
  <2>1. host' \in [Hosts -> HostStates]
    <3>1. DOMAIN host' = Hosts /\ host' = [a \in Hosts |-> host'[a]]
      BY Zenon DEF Pass
    <3> QED
      BY Zenon, <1>3, <3>1
  <2> QED
    BY Zenon, <1>1, <1>2, <2>1 DEF AgentInv, AgentTypeOK
<1> QED
  BY Zenon, <1>1, <1>3, <1>4, <1>5, <1>6 DEF AgentInv

-----------------------------------------------------------------------------
(* Before the first session nothing is journaled and nothing runs. *)
LEMMA AgentInitially == ASSUME AgentInit PROVE RowInv /\ DecisionInv /\ AgentInv
<1>1. RowInv
  BY Zenon, RowInit DEF AgentInit
<1>2. DecisionInv
  BY Zenon, BoundsAssumption DEF AgentInit, Init, DecisionInv, CancelledNeverOffered, RetryXorClose,
     HasRetry, Ordinals
<1>3. grants = {} /\ NoEffects
  BY Zenon DEF AgentInit, Init, NoEffects
<1>4. /\ Offline \in HostStates /\ Offline.at = "up" /\ Offline.job = {} /\ Offline.mode = "run"
      /\ Offline.told = "none" /\ Offline.ask = "none"
  <2>1. 0 \in 0 .. Budget /\ 0 \in 0 .. Window /\ 0 \in 0 .. Grace
    BY AgentAssumption
  <2>2. "up" \in Places
    BY Zenon DEF Places
  <2> QED
    BY <2>1, <2>2 DEF Offline, HostStates
<1>5. host = [a \in Hosts |-> Offline] /\ host \in [Hosts -> HostStates]
  BY Zenon, <1>4 DEF AgentInit
<1>6. /\ row \in [HostGrants -> RowStates]
      /\ \A g \in HostGrants : row[g].phase = "none" /\ row[g].pid = 0 /\ row[g].result = "none"
  BY AgentAssumption DEF AgentInit, RowStates, Phases
<1>7. /\ work \in [HostGrants -> WorkStates]
      /\ \A g \in HostGrants : work[g].step = 0 /\ work[g].is = "gone"
  BY AgentAssumption DEF AgentInit, WorkStates
<1>8. left \in [Ordinals -> 0 .. Window] /\ summary \in [Ordinals -> Results \cup {"none", "reason"}]
  BY AgentAssumption DEF AgentInit
<1>9. \A g \in HostGrants : RowKept(g)
  BY Zenon, <1>3, <1>6, <1>7 DEF RowKept
<1>10. ASSUME NEW a \in Hosts PROVE HostInv(a)
  <2>1. /\ host[a].at = "up" /\ host[a].job = {} /\ host[a].mode = "run" /\ host[a].told = "none"
        /\ host[a].ask = "none" /\ OpenRows(a) = {}
    BY Zenon, <1>3, <1>4, <1>5 DEF OpenRows
  <2>2. OneInHand(a)
    BY Zenon, <2>1 DEF OneInHand, At
  <2>3. Clocked(a)
    BY Zenon, <2>1 DEF Clocked, At, Recovering
  <2> QED
    BY Zenon, <2>1, <2>2, <2>3 DEF HostInv
<1>11. AgentTypeOK
  BY Zenon, <1>5, <1>6, <1>7, <1>8 DEF AgentTypeOK
<1> QED
  BY Zenon, <1>1, <1>2, <1>3, <1>9, <1>10, <1>11 DEF AgentInv

(* Every step keeps the invariant, and is a step of the store or none. *)
LEMMA AgentStep ==
    ASSUME RowInv, DecisionInv, AgentInv, [AgentNext]_agentVars
    PROVE  AgentInv' /\ [Next]_vars
<1>1. ASSUME NEW a \in Hosts, SessionStep(a) PROVE AgentInv' /\ [Next]_vars
  <2>1. CASE OpenSession(a)
    BY Zenon, <2>1, OpenSessionStep
  <2>2. CASE Quiesce(a)
    BY Zenon, <2>2, QuiesceStep
  <2>3. CASE TerminateRecovered(a)
    BY Zenon, <2>3, TerminateRecoveredStep
  <2>4. CASE PersistRecovered(a)
    BY Zenon, <2>4, PersistRecoveredStep
  <2>5. CASE Reconcile(a)
    BY Zenon, <2>5, ReconcileStep
  <2>6. CASE Settle(a)
    BY Zenon, <2>6, SettleStep
  <2>7. CASE Replay(a)
    BY Zenon, <2>7, ReplayStep
  <2>8. CASE Publish(a)
    BY Zenon, <2>8, PublishStep
  <2>9. CASE Commit(a)
    BY Zenon, <2>9, CommitStep
  <2> QED
    BY Zenon, <1>1, <2>1, <2>2, <2>3, <2>4, <2>5, <2>6, <2>7, <2>8, <2>9 DEF SessionStep
<1>2. ASSUME NEW a \in Hosts, AssignmentStep(a) PROVE AgentInv' /\ [Next]_vars
  <2>1. CASE Poll(a)
    BY Zenon, <2>1, PollStep
  <2>2. CASE Decline(a)
    BY Zenon, <2>2, DeclineStep
  <2>3. CASE Accept(a)
    BY Zenon, <2>3, AcceptStep
  <2>4. CASE AcceptWork(a)
    BY Zenon, <2>4, AcceptWorkStep
  <2>5. CASE FailPreparation(a)
    BY Zenon, <2>5, FailPreparationStep
  <2>6. CASE StartWork(a)
    BY Zenon, <2>6, StartWorkStep
  <2>7. CASE Spawn(a)
    BY Zenon, <2>7, SpawnStep
  <2>8. CASE JournalSpawn(a)
    BY Zenon, <2>8, JournalSpawnStep
  <2>9. CASE ProcessEnds(a)
    BY Zenon, <2>9, ProcessEndsStep
  <2>10. CASE ContainmentUnverified(a)
    BY Zenon, <2>10, ContainmentUnverifiedStep
  <2>11. CASE FinishStep(a)
    BY Zenon, <2>11, FinishStepStep
  <2> QED
    BY Zenon, <1>2, <2>1, <2>2, <2>3, <2>4, <2>5, <2>6, <2>7, <2>8, <2>9, <2>10, <2>11 DEF AssignmentStep
<1>3. ASSUME NEW a \in Hosts, RenewalStep(a) PROVE AgentInv' /\ [Next]_vars
  <2>1. CASE AskRenewal(a)
    BY Zenon, <2>1, AskRenewalStep
  <2>2. CASE AnswerRenewal(a)
    BY Zenon, <2>2, AnswerRenewalStep
  <2>3. CASE HearRenewal(a)
    BY Zenon, <2>3, HearRenewalStep
  <2>4. CASE GiveUpRenewal(a)
    BY Zenon, <2>4, GiveUpRenewalStep
  <2>5. CASE Lapse(a)
    BY Zenon, <2>5, LapseStep
  <2> QED
    BY Zenon, <1>3, <2>1, <2>2, <2>3, <2>4, <2>5 DEF RenewalStep
<1>4. ASSUME NEW a \in Hosts, StartAgent(a) \/ Crash(a) PROVE AgentInv' /\ [Next]_vars
  BY Zenon, <1>4, LifeStep
<1>5. ASSUME NEW g \in grants \cap HostGrants, OrphanEnds(g) PROVE AgentInv' /\ [Next]_vars
  BY Zenon, <1>5, OrphanEndsStep
<1>6. CASE Pass
  BY Zenon, <1>6, PassStep
<1>7. CASE (ControllerStep \/ Elsewhere) /\ UNCHANGED <<host, row, work, summary, crashes, losses>>
  BY Zenon, <1>7, OutsideStep
<1>8. CASE UNCHANGED agentVars
  <2>1. UNCHANGED <<vars, left>> /\ UNCHANGED <<host, row, work, summary>>
    BY Zenon, <1>8 DEF agentVars
  <2>2. PICK S : S = {}
    BY Zenon
  <2>3. Calm(S) /\ \A h \in S : h.agent \notin Hosts
    BY Zenon, <2>1, <2>2, QuietCalm
  <2>4. UNCHANGED <<host, row, summary>> /\ work' \in [HostGrants -> WorkStates]
    BY Zenon, <2>1 DEF AgentInv, AgentTypeOK
  <2>5. \A h \in HostGrants : /\ work'[h].step = work[h].step
                              /\ work[h].is = "gone" => work'[h].is = "gone"
    BY Zenon, <2>1
  <2> QED
    BY Zenon, <2>3, <2>4, <2>5, StoreStep
<1> QED
  BY Zenon, <1>1, <1>2, <1>3, <1>4, <1>5, <1>6, <1>7, <1>8 DEF AgentNext

LEMMA AgentInvariant == AgentSpec => [](RowInv /\ DecisionInv /\ AgentInv)
<1>1. AgentInit => RowInv /\ DecisionInv /\ AgentInv
  BY Zenon, AgentInitially
<1>2. ASSUME RowInv, DecisionInv, AgentInv, [AgentNext]_agentVars
      PROVE  RowInv' /\ DecisionInv' /\ AgentInv'
  <2>1. AgentInv' /\ [Next]_vars
    BY Zenon, <1>2, AgentStep
  <2>2. RowInv'
    BY Zenon, <1>2, <2>1, RowStep
  <2>3. DecisionInv'
    BY Zenon, <1>2, <2>1, DecisionStep DEF Irrevocable
  <2> QED
    BY Zenon, <2>1, <2>2, <2>3
<1> QED
  BY <1>1, <1>2, PTL DEF AgentSpec

(* The agent's program is one of the agents the controller's truth allows:   *)
(* whatever run_session, run_assignment, renew_lease and the recovery do,    *)
(* with crashes and lost replies, the store takes only the steps of          *)
(* ControllerTruth, so what is proved of every agent there holds with this   *)
(* one.                                                                      *)
THEOREM AgentImplementsTruth == AgentSpec => Spec
<1>1. AgentInit => Init
  BY Zenon DEF AgentInit
<1>2. ASSUME RowInv, DecisionInv, AgentInv, [AgentNext]_agentVars PROVE [Next]_vars
  BY Zenon, <1>2, AgentStep
<1> QED
  BY <1>1, <1>2, AgentInvariant, PTL DEF AgentSpec, Spec

(* The clocks of the agent, its journal rows and its processes stay within   *)
(* their types: no renewal grows older than the window of its lease.         *)
THEOREM AgentTypes == AgentSpec => []AgentTypeOK
<1>1. AgentInv => AgentTypeOK
  BY Zenon DEF AgentInv
<1> QED
  BY <1>1, AgentInvariant, PTL

(* While an agent that is up watches a running process, the controller's     *)
(* lease of the attempt is live, for any window that leaves a positive       *)
(* budget: the term held is measured from the request of a renewal, and the  *)
(* grace and the margin of lease_rpc_budget are paid for in advance.         *)
THEOREM WatchedWorkIsLeased == AgentSpec => []RunsUnderLease
<1>1. ASSUME AgentInv PROVE RunsUnderLease
  <2> SUFFICES ASSUME NEW g \in grants \cap HostGrants, Supervised(g) PROVE LiveAuthority(g)
    BY Zenon DEF RunsUnderLease
  <2>1. PICK a : a = g.agent
    OBVIOUS
  <2>2. a \in Hosts
    BY Zenon, <2>1 DEF HostGrants
  <2>3. g \in host[a].job /\ At(a, {"spawned", "running", "ending"})
    BY Zenon, <2>1 DEF Supervised, Jobs, At
  <2>4. Covered(a, g)
    BY Zenon, <1>1, <2>2, <2>3, InHand
  <2> QED
    BY Zenon, <2>3, <2>4 DEF Covered, Lasts, At
<1> QED
  BY <1>1, AgentInvariant, PTL

(* A retired row with a durable result recorded a process that is gone,      *)
(* whatever crash interrupted the run, terminate_recovered_process or the    *)
(* cancellation report.                                                      *)
THEOREM RetirementProvesContainment == AgentSpec => []RetiredMeansGone
<1>1. AgentInv => RetiredMeansGone
  BY Zenon DEF AgentInv, RowKept, RetiredMeansGone
<1> QED
  BY <1>1, AgentInvariant, PTL

(* The terminal phase journal_published_terminal and commit_replayed_phase   *)
(* wrote is what the controller published for that fence, also when a        *)
(* cancellation overrode the result or the publication was replayed.         *)
THEOREM JournalMatchesController == AgentSpec => []JournalAgrees
<1>1. AgentInv => JournalAgrees
  BY Zenon DEF AgentInv, RowKept, JournalAgrees
<1> QED
  BY <1>1, AgentInvariant, PTL
=============================================================================
