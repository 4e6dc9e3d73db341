------------------------------ MODULE MCDagBuild ------------------------------
(* Instances of DagBuild for TLC. *)
EXTENDS DagBuild, TLC

Edge(p, c, k) == [parent |-> p, child |-> c, condition |-> k]
Attempts(k) == [n \in Nodes |-> k]

(* Two parallel stages, one of them fail-fast, and a third stage that needs  *)
(* the other to succeed.                                                     *)
Fork == [dependencies |-> {Edge("compile", "deploy", "succeeded")}, post |-> {},
         failFast |-> {"test"}, budget |-> Attempts(1), sequential |-> FALSE]

(* Stages in a row, the last one a clean-up; the first is tried twice, the   *)
(* others again only at an operator's word.                                  *)
Cleanup == [dependencies |-> {Edge("compile", "deploy", "succeeded"),
                              Edge("deploy", "test", "completed")},
            post |-> {"test"}, failFast |-> {}, sequential |-> FALSE,
            budget |-> [Attempts(1) EXCEPT !["compile"] = 2]]

(* The same with a fail-fast first stage that is tried once. *)
FailFastCleanup == [Cleanup EXCEPT !.failFast = {"compile"}, !.budget = Attempts(1)]

(* A join: the deployment needs both other stages. *)
Join == [dependencies |-> {Edge("compile", "deploy", "succeeded"),
                           Edge("test", "deploy", "succeeded")},
         post |-> {}, failFast |-> {}, budget |-> Attempts(2), sequential |-> FALSE]

(* The steps of a sequential build. *)
Steps == [dependencies |-> {Edge("compile", "test", "succeeded"),
                            Edge("test", "deploy", "succeeded")},
          post |-> {}, failFast |-> {}, budget |-> Attempts(1), sequential |-> TRUE]

Admissible == {Fork, Cleanup, Steps}
OnlyFork == {Fork}
OnlyJoin == {Join}
OnlyFailFastCleanup == {FailFastCleanup}
=============================================================================
