---------------------------- MODULE MCPlanSteps ----------------------------
(* Instances of PlanSteps: a sequential task whose message is delivered to   *)
(* two runs of two agents, over a plan of independent steps; one run over a  *)
(* chain of two; and an execution of two assigned children, the second depending on   *)
(* the first, whose first child is delivered to two runs.                    *)
EXTENDS PlanSteps

CONSTANTS r1, r2, r3, t1, t2, general, expert

FreeDeps == [s \in Steps |-> {}]
SequentialTarget == [t \in {t1} |-> AnyStep]
SequentialTaskOf == [r \in Runs |-> t1]
SequentialAgents == [r \in Runs |-> IF r = r2 THEN expert ELSE general]

ChainDeps == [s \in Steps |-> IF s = 2 THEN {1} ELSE {}]
\* The step displayed first waits for the second: display order is not checked
\* against the dependencies of implementation steps.
ReversedDeps == [s \in Steps |-> IF s = 1 THEN {2} ELSE {}]
AssignedTarget == [t \in {t1, t2} |-> IF t = t1 THEN 1 ELSE 2]
AssignedTaskOf == [r \in {r1, r2, r3} |-> IF r = r3 THEN t2 ELSE t1]
AssignedAgents == [r \in {r1, r2, r3} |-> general]
=============================================================================
