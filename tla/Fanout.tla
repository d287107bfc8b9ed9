------------------------------- MODULE Fanout -------------------------------
(***************************************************************************)
(* Approved plans fanned out to machines, and fanned in again.             *)
(*   services/deliveryplansteps/{orchestration,fan_in,claim}.go            *)
(*   controllers/automation/{automation,plan_step_runtime}.go              *)
(*   controllers/delivery/agent_runs.go                                    *)
(*                                                                         *)
(* An execution has a parent task, and for each step of its plan a child   *)
(* task, a plan step row and, once it is dispatched, an assignment that    *)
(* takes a slot of a machine.  The handlers are transactions which lock    *)
(* rows one group after the other and write at the end; a transaction that *)
(* fails a check, loses its connection or is a deadlock's victim leaves    *)
(* nothing behind.  PlanSteps models leases, fences and evidence of one    *)
(* step; here they are reduced to what fan-in and failover ask of them.    *)
(***************************************************************************)
EXTENDS Naturals, FiniteSets, Sequences

CONSTANTS
    Plans,           \* executions, one for each approved plan
    StepsOf,         \* StepsOf[e]: the steps, numbered in display order
    DependsOn,       \* DependsOn[s]: direct dependencies
    Integration,     \* Integration[e]: the one step of role integration
    Machines,        \* machines with one agent profile
    Capacity,        \* Capacity[m]: concurrency its heartbeat reports
    MaxConcurrency,  \* of an execution
    Reached,         \* steps whose message reaches a worker
    MaxOpen,         \* bound: transactions open at once
    Lapsing,         \* bound: machines that may fall silent
    NoMachine

AllSteps == UNION {StepsOf[e] : e \in Plans}
Of == [s \in AllSteps |-> CHOOSE e \in Plans : s \in StepsOf[e]]

\* Plans have disjoint steps, no cycle among them (validateDAG), and an integration that
\* follows every terminal branch (validateIntegrationGraph, deliveryplansteps/steps.go).
ASSUME FanoutAssumption ==
    /\ MaxConcurrency \in Nat \ {0} /\ NoMachine \notin Machines
    /\ \A m \in Machines : Capacity[m] \in Nat \ {0}
    /\ IsFiniteSet(AllSteps) /\ Plans \cap AllSteps = {}
    /\ \A e \in Plans : Integration[e] \in StepsOf[e] /\ StepsOf[e] \subseteq Nat
    /\ \A e, f \in Plans : e # f => StepsOf[e] \cap StepsOf[f] = {}
    /\ \A e \in Plans : \A s \in StepsOf[e] : DependsOn[s] \subseteq StepsOf[e]
    /\ \A e \in Plans : \A s \in StepsOf[e] \ {Integration[e]} :
          \E t \in StepsOf[e] : s \in DependsOn[t]
    /\ \A e \in Plans : \A S \in (SUBSET StepsOf[e]) \ {{}} :
          \E s \in S : \A t \in S : s \notin DependsOn[t]

VARIABLES
    main,      \* main[e]: status of the parent task, "none" before it exists
    exec,      \* exec[e]: status of the execution row
    progress,  \* progress[e]: what the work item says of the run
    child,     \* child[s]: status of the child task
    leased,    \* leased[s]: the leases of the task and of its step are live
    node,      \* node[s]: status of the plan step
    seat,      \* seat[s]: assignment: status and target machine
    fresh,     \* fresh[m]: the heartbeat of the machine is recent
    txn        \* txn[a]: the open transaction of a step's worker or of a plan's admission

fanoutVars == <<main, exec, progress, child, leased, node, seat, fresh, txn>>

Actors == AllSteps \cup Plans
Closed == [kind |-> "none", at |-> 0, arg |-> "none", ready |-> {}, target |-> <<>>, rows |-> {}]
Unseated == [status |-> "none", machine |-> NoMachine]

ActiveTask == {"queued", "running", "cancel_requested"}
ActiveSeat == {"queued", "running"}
FailedSeat == {"failed", "blocked", "cancelled"}

\* The plans of E may be started, and the machines of M are enrolled.
FanoutInitWith(E, M) ==
    /\ main = [e \in Plans |-> IF e \in E THEN "none" ELSE "never"]
    /\ exec = [e \in Plans |-> "none"]
    /\ progress = [e \in Plans |-> "none"]
    /\ child = [s \in AllSteps |-> "none"]
    /\ leased = [s \in AllSteps |-> FALSE]
    /\ node = [s \in AllSteps |-> "planned"]
    /\ seat = [s \in AllSteps |-> Unseated]
    /\ fresh = [m \in M |-> TRUE]
    /\ txn = [a \in Actors |-> Closed]
FanoutInit == FanoutInitWith(Plans, Machines)
---------------------------------------------------------------------------
(* Row locks. *)

Row(table, ids) == {<<table, i>> : i \in ids}
Plan(a) == IF a \in Plans THEN a ELSE Of[a]
Fresh == {m \in DOMAIN fresh : fresh[m]}

\* Fault: candidate machines are read without locking their heartbeats.
BeatsUnlocked == {}
\* resolveAssignmentTargets locks the recent heartbeats before it counts slots.
BeatsToLock == Row("beat", Fresh)

Whole(e) == Row("plan", {e}) \cup Row("node", StepsOf[e])

\* Fault: a callback locks its own assignment before the parent.
OwnSeatFirst(a) ==
    <<Row("seat", {a}), Row("main", {Plan(a)}),
      Row("exec", {Plan(a)}) \cup Row("seat", StepsOf[Plan(a)])>>
\* The order every callback takes its execution's rows in.
FanInLocks(a) == <<Row("main", {Plan(a)}), Row("exec", {Plan(a)}), Row("seat", StepsOf[Plan(a)])>>

\* The groups of rows a transaction locks, in the order of the code, after the task of its
\* child (the plan, for an admission), which it locks first.
LockOrder(a) ==
    LET e == Plan(a)
    IN CASE txn[a].kind = "start" -> <<BeatsToLock>>
         [] txn[a].kind = "fan-in" ->
               FanInLocks(a) \o (IF txn[a].ready = {} THEN <<>> ELSE <<Whole(e), BeatsToLock>>)
         [] txn[a].kind = "claim" ->
               <<Row("seat", {a}), Row("node", {a}),
                 Row("beat", {seat[a].machine} \ {txn[a].arg}), Row("beat", {txn[a].arg}),
                 IF main[e] = "queued" THEN Row("main", {e}) ELSE {}>>
         [] txn[a].kind = "step-claim" ->
               <<Row("plan", {e}), Row("seat", {a}), Row("node", {a}),
                 IF exec[e] = "dispatching" THEN Row("exec", {e}) ELSE {}>>
         [] txn[a].kind = "transition" ->
               <<Row("plan", {e}), Row("seat", {a}), Row("node", {a})>>
         [] OTHER -> <<>>

\* Step callbacks share the lock of the plan.
SharesPlan(a) == txn[a].kind \in {"step-claim", "transition"}

Conflicts(a, rows, b) ==
    \E r \in rows \cap txn[b].rows : ~(r[1] = "plan" /\ SharesPlan(a) /\ SharesPlan(b))
CanLock(a, rows) == \A b \in Actors \ {a} : ~Conflicts(a, rows, b)
RowFree(r) == \A b \in Actors : r \notin txn[b].rows

NextRows(a) == LockOrder(a)[txn[a].at + 1]
Pending(a) == txn[a].at < Len(LockOrder(a))

\* The step claim takes the plan step with SKIP LOCKED: it never waits for it.
WaitsFor(a, b) ==
    /\ a # b /\ Pending(a) /\ ~(txn[a].kind = "step-claim" /\ txn[a].at = 2)
    /\ Conflicts(a, NextRows(a), b)
---------------------------------------------------------------------------
(* Reading children and machines. *)

\* What the callback of a child makes of its task.
Outcome(s) == IF child[s] = "cancel_requested" THEN "cancelled" ELSE txn[s].arg

\* Fault: the tasks are read outside the transaction.
SeenOutside(s, t) == child[t]
\* What a fan-in sees of the child tasks: its own callback, and what is committed.
Seen(s, t) == IF t = s THEN Outcome(s) ELSE child[t]

\* effectivePlanStepAssignmentStatus
Effective(assignment, task) ==
    CASE task \in ActiveTask -> "running"
      [] task \in {"failed", "cancelled"} -> task
      [] OTHER -> IF assignment \in ActiveSeat THEN "blocked" ELSE assignment

\* persistAndOverlayPlanChildTaskStates: the states the fan-in assesses ...
Overlaid(s, t) ==
    IF seat[t].status = "none" THEN "none" ELSE Effective(seat[t].status, Seen(s, t))
\* ... and the ones it stores.
Synced(s, t) ==
    IF Seen(s, t) \in ActiveTask THEN seat[t].status ELSE Overlaid(s, t)

\* AssessFanIn
Failure(s) == \E t \in StepsOf[Of[s]] : Overlaid(s, t) \in FailedSeat
Waiting(s) == \E t \in StepsOf[Of[s]] : Overlaid(s, t) \in ActiveSeat

\* ReadyPlanStepsInTransaction, with the assignments the reader has written.
Lowest(S, n) == {s \in S : Cardinality({t \in S : t < s}) < n}
Ready(e, status) ==
    LET open == {s \in StepsOf[e] : /\ node[s] = "planned" /\ status[s] = "none"
                                    /\ \A d \in DependsOn[s] : node[d] = "completed"}
        busy == Cardinality({s \in StepsOf[e] : status[s] \in ActiveSeat})
    IN Lowest(open, IF busy >= MaxConcurrency THEN 0 ELSE MaxConcurrency - busy)

\* The assignments with what a fan-in stores of its own execution.
SyncedSeats(a) ==
    [t \in AllSteps |-> IF /\ txn[a].kind = "fan-in" /\ Plan(a) = Of[t]
                           /\ seat[t].status # "none"
                        THEN [seat[t] EXCEPT !.status = Synced(a, t)] ELSE seat[t]]

\* Slots of a machine in use, over all executions.
Used(seats, m) == Cardinality({s \in AllSteps : seats[s].machine = m /\ seats[s].status \in ActiveSeat})
Reserved(m) == Used(seat, m)

\* allocateAssignmentTargets, for steps any profile may run: every assignment of the
\* ready steps to recent machines with a free slot.
Allocations(a) ==
    {target \in [txn[a].ready -> Fresh] : \A m \in Fresh :
        Cardinality({s \in txn[a].ready : target[s] = m}) + Used(SyncedSeats(a), m) <= Capacity[m]}
---------------------------------------------------------------------------
(* Transactions. *)

Open(a, kind, arg, rows) ==
    /\ txn[a] = Closed /\ \A r \in rows : RowFree(r)
    /\ Cardinality({b \in Actors : txn[b] # Closed}) < MaxOpen
    /\ txn' = [txn EXCEPT ![a] = [Closed EXCEPT !.kind = kind, !.arg = arg, !.rows = rows,
                                  !.ready = IF kind = "start" THEN Ready(a, [s \in StepsOf[a] |-> "none"]) ELSE {}]]
    /\ UNCHANGED <<main, exec, progress, child, leased, node, seat, fresh>>

\* The checks made on the rows a transaction has just locked, by position in LockOrder.
Passes(a) ==
    LET e == Plan(a)
        i == txn[a].at + 1
        moving == txn[a].kind = "claim" /\ seat[a].machine # txn[a].arg
    IN CASE txn[a].kind = "fan-in" /\ i = 1 -> main[e] = "queued"
         \* ValidateAssignmentWorker
         [] txn[a].kind = "claim" /\ i = 1 -> seat[a].status \in ActiveSeat
         [] txn[a].kind = "claim" /\ i = 2 -> moving => ~leased[a] /\ node[a] \in {"planned", "running"}
         [] txn[a].kind = "claim" /\ i = 3 -> moving => ~fresh[seat[a].machine]
         [] txn[a].kind = "claim" /\ i = 4 ->
               fresh[txn[a].arg] /\ (moving => Reserved(txn[a].arg) < Capacity[txn[a].arg])
         \* planStepAssignmentAllowsClaim and loadFencedStep
         [] SharesPlan(a) /\ i = 2 -> seat[a].status \in ActiveSeat /\ main[e] = "queued"
         [] txn[a].kind = "step-claim" /\ i = 3 -> node[a] \in {"planned", "running"}
         [] txn[a].kind = "transition" /\ i = 3 -> node[a] = "running" /\ leased[a]
         [] OTHER -> TRUE

\* What the rows tell a transaction: the steps to dispatch once a fan-in without a failure
\* holds the assignments (the roots, for an admission), and their targets once it holds the
\* heartbeats: none when the machines lack free slots (ErrNoEligibleAgentMachine).
ReadyRead(a) ==
    IF txn[a].kind = "fan-in" /\ txn[a].at = 2 /\ ~Failure(a)
    THEN Ready(Of[a], [t \in StepsOf[Of[a]] |-> Synced(a, t)])
    ELSE txn[a].ready
TargetsRead(a) ==
    IF txn[a].ready # {} /\ txn[a].at + 1 = Len(LockOrder(a))
    THEN LET all == Allocations(a) IN IF all = {} THEN {<<>>} ELSE all
    ELSE {<<>>}

\* Lock the next group of rows, wait while another transaction has one of them.
Acquire(a) ==
    /\ Pending(a) /\ CanLock(a, NextRows(a)) /\ Passes(a)
    /\ \E target \in TargetsRead(a) :
          txn' = [txn EXCEPT ![a].at = @ + 1, ![a].rows = @ \cup NextRows(a),
                             ![a].ready = ReadyRead(a), ![a].target = target]
    /\ UNCHANGED <<main, exec, progress, child, leased, node, seat, fresh>>

\* A failed check, a lost connection, a crash of the server, a deadlock's victim.
Rollback(a) ==
    /\ txn[a] # Closed
    /\ txn' = [txn EXCEPT ![a] = Closed]
    /\ UNCHANGED <<main, exec, progress, child, leased, node, seat, fresh>>

Commit(a, kind) ==
    /\ txn[a].kind = kind /\ ~Pending(a)
    /\ txn' = [txn EXCEPT ![a] = Closed]
---------------------------------------------------------------------------
(* Admission: enqueueApprovedPlanStepChildrenInTransaction. *)

StartAsked(e) == main[e] = "none" /\ Open(e, "start", "none", Whole(e))

StartCommits(e) ==
    LET roots == txn[e].ready
        target == txn[e].target
    IN /\ Commit(e, "start")
       /\ \/ /\ target # <<>>
             /\ main' = [main EXCEPT ![e] = "queued"]
             /\ exec' = [exec EXCEPT ![e] = "dispatching"]
             /\ progress' = [progress EXCEPT ![e] = "queued"]
             /\ child' = [s \in AllSteps |->
                   IF s \in roots THEN "queued" ELSE IF s \in StepsOf[e] THEN "pending" ELSE child[s]]
             /\ seat' = [s \in AllSteps |->
                   IF s \in roots THEN [status |-> "queued", machine |-> target[s]] ELSE seat[s]]
          \* persistRetryableMachineDispatchBlock: nothing was created
          \/ /\ target = <<>>
             /\ progress' = [progress EXCEPT ![e] = "no-machine"]
             /\ UNCHANGED <<main, exec, child, seat>>
       /\ UNCHANGED <<leased, node, fresh>>
---------------------------------------------------------------------------
(* A worker: claimAutomationTaskRun, ClaimDeliveryPlanStep, TransitionDeliveryPlanStep. *)

\* A worker on machine m has the message of the child; a renewal is a claim again.
ClaimArrives(s, m) ==
    /\ s \in Reached /\ child[s] \in {"queued", "running"} /\ seat[s].status # "none"
    /\ Open(s, "claim", m, Row("task", {s}))

ClaimCommits(s) ==
    /\ Commit(s, "claim")
    /\ child' = [child EXCEPT ![s] = "running"]
    /\ leased' = [leased EXCEPT ![s] = TRUE]
    /\ seat' = [seat EXCEPT ![s] = IF @.machine = txn[s].arg THEN @
                                   ELSE [status |-> "queued", machine |-> txn[s].arg]]
    /\ UNCHANGED <<main, exec, progress, node, fresh>>

\* validatePlanStepRuntimeTask
Runs(s) == child[s] = "running" /\ leased[s]
StepClaimArrives(s) == Runs(s) /\ Open(s, "step-claim", "none", Row("task", {s}))
StepClaimCommits(s) ==
    /\ Commit(s, "step-claim")
    /\ node' = [node EXCEPT ![s] = "running"]
    /\ seat' = [seat EXCEPT ![s].status = "running"]
    /\ exec' = [exec EXCEPT ![Of[s]] = IF @ = "dispatching" THEN "running" ELSE @]
    /\ UNCHANGED <<main, progress, child, leased, fresh>>

\* "failed" stands for failed and blocked.
TransitionArrives(s, outcome) == Runs(s) /\ Open(s, "transition", outcome, Row("task", {s}))
TransitionCommits(s) ==
    /\ Commit(s, "transition")
    /\ node' = [node EXCEPT ![s] = txn[s].arg]
    /\ seat' = [seat EXCEPT ![s].status = txn[s].arg]
    /\ UNCHANGED <<main, exec, progress, child, leased, fresh>>
---------------------------------------------------------------------------
(* Fan-in: Complete and reconcilePlanStepChildTerminalInTransaction. *)

CallbackArrives(s, outcome) ==
    child[s] \in {"running", "cancel_requested"} /\ Open(s, "fan-in", outcome, Row("task", {s}))

StoreCallback(s) ==
    /\ Commit(s, "fan-in")
    /\ leased' = [leased EXCEPT ![s] = FALSE]
    /\ UNCHANGED <<node, fresh>>

\* enqueueReadyPlanStepsInTransaction
FanInDispatches(s) ==
    LET e == Of[s]
        target == txn[s].target
        own == [child EXCEPT ![s] = Outcome(s)]
    IN /\ StoreCallback(s) /\ txn[s].ready # {}
       /\ \/ /\ target # <<>>
             /\ seat' = [t \in AllSteps |->
                   IF t \in txn[s].ready THEN [status |-> "queued", machine |-> target[t]] ELSE SyncedSeats(s)[t]]
             /\ child' = [t \in AllSteps |-> IF t \in txn[s].ready THEN "queued" ELSE own[t]]
             /\ progress' = [progress EXCEPT ![e] = "queued"]
          \* ErrNoEligibleAgentMachine: the work item is blocked and the parent stays queued
          \/ /\ target = <<>>
             /\ seat' = SyncedSeats(s) /\ child' = own
             /\ progress' = [progress EXCEPT ![e] = "no-machine"]
       /\ UNCHANGED <<main, exec>>

FanInWaits(s) ==
    /\ StoreCallback(s) /\ txn[s].ready = {} /\ Waiting(s)
    /\ seat' = SyncedSeats(s) /\ child' = [child EXCEPT ![s] = Outcome(s)]
    /\ UNCHANGED <<main, exec, progress>>

\* Only the callback of the integration step can complete the parent.
MayComplete(s) ==
    /\ ~Failure(s) /\ Outcome(s) = "completed"
    /\ s = Integration[Of[s]] /\ node[s] = "completed" /\ seat[s].status = "completed"

\* completeVerifiedPlanFanInInTransaction: receipts, evidence and patches are in order,
\* or persistPlanAggregationPendingInTransaction records that they are not.
FanInEnds(s) ==
    LET e == Of[s] IN
    /\ StoreCallback(s) /\ txn[s].ready = {} /\ ~Waiting(s)
    /\ seat' = SyncedSeats(s) /\ child' = [child EXCEPT ![s] = Outcome(s)]
    /\ \/ /\ MayComplete(s)
          /\ main' = [main EXCEPT ![e] = "completed"] /\ exec' = [exec EXCEPT ![e] = "completed"]
          /\ UNCHANGED progress
       \/ /\ progress' = [progress EXCEPT ![e] = "aggregation-pending"]
          /\ exec' = [exec EXCEPT ![e] = "running"]
          /\ UNCHANGED main
---------------------------------------------------------------------------
(* Around the transactions: Cancel, heartbeats and time. *)

\* automationCancellationTransition of a child or of the parent, on a free row.
CancelChild(s) ==
    /\ child[s] \in {"queued", "running"} /\ RowFree(<<"task", s>>)
    /\ child' = [child EXCEPT ![s] = IF child[s] = "running" /\ leased[s] THEN "cancel_requested" ELSE "cancelled"]
    /\ UNCHANGED <<main, exec, progress, leased, node, seat, fresh, txn>>
CancelMain(e) ==
    /\ main[e] = "queued" /\ RowFree(<<"main", e>>)
    /\ main' = [main EXCEPT ![e] = "cancelled"]
    /\ UNCHANGED <<exec, progress, child, leased, node, seat, fresh, txn>>

LeaseEnds(s) ==
    /\ leased[s] /\ leased' = [leased EXCEPT ![s] = FALSE]
    /\ UNCHANGED <<main, exec, progress, child, node, seat, fresh, txn>>
Silence(m) ==
    /\ m \in Lapsing /\ fresh[m] /\ fresh' = [fresh EXCEPT ![m] = FALSE]
    /\ UNCHANGED <<main, exec, progress, child, leased, node, seat, txn>>
Heartbeat(m) ==
    /\ ~fresh[m] /\ RowFree(<<"beat", m>>) /\ fresh' = [fresh EXCEPT ![m] = TRUE]
    /\ UNCHANGED <<main, exec, progress, child, leased, node, seat, txn>>

FanoutNext ==
    \/ \E a \in Actors : Acquire(a) \/ Rollback(a)
    \/ \E e \in Plans : StartAsked(e) \/ StartCommits(e) \/ CancelMain(e)
    \/ \E s \in AllSteps :
          \/ \E m \in DOMAIN fresh : ClaimArrives(s, m)
          \/ ClaimCommits(s) \/ StepClaimArrives(s) \/ StepClaimCommits(s) \/ TransitionCommits(s)
          \/ \E outcome \in {"completed", "failed"} :
                TransitionArrives(s, outcome) \/ CallbackArrives(s, outcome)
          \/ FanInDispatches(s) \/ FanInWaits(s) \/ FanInEnds(s)
          \/ CancelChild(s) \/ LeaseEnds(s)
    \/ \E m \in DOMAIN fresh : Silence(m) \/ Heartbeat(m)

FanoutSpec == FanoutInit /\ [][FanoutNext]_fanoutVars
---------------------------------------------------------------------------
(* Properties. *)

\* However admissions, fan-ins and failovers of different executions overlap, a machine
\* never has more active assignments than it reported it can run (resolveAssignmentTargets,
\* ValidateAssignmentWorker).
SlotsRespected == \A m \in Machines : Reserved(m) <= Capacity[m]

\* The last callback closes the run, and no earlier one does.  A parent task is completed
\* only when every step of its plan was and no child still has a callback to deliver
\* (completeVerifiedPlanFanInInTransaction); and when no child is left to call back and
\* none was cancelled without a callback, the work item no longer shows a run under way
\* (reconcilePlanStepChildTerminalInTransaction).
LastFansIn ==
    \A e \in Plans :
        /\ main[e] = "completed" => \A s \in StepsOf[e] : node[s] = "completed" /\ child[s] = "completed"
        /\ /\ main[e] = "queued" /\ \A s \in StepsOf[e] : child[s] \notin ActiveTask
           /\ \A s \in StepsOf[e] : child[s] = "cancelled" => seat[s].status = "cancelled"
           => progress[e] # "queued"

\* Parallel callbacks and admissions never wait for each other in a circle: they take
\* parent, execution, assignments, plan and heartbeats in one order
\* (reconcilePlanStepChildTerminalInTransaction, resolveAssignmentTargets).
NoFanInCycle ==
    \A A \in SUBSET {a \in Actors : txn[a].kind \in {"fan-in", "start"}} :
        A # {} => \E a \in A : \A b \in A : ~WaitsFor(a, b)
=============================================================================
