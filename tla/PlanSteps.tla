----------------------------- MODULE PlanSteps -----------------------------
(***************************************************************************)
(* The lease protocol between agent runs, automation tasks and the steps   *)
(* of one approved delivery plan:                                          *)
(*   services/deliveryplansteps/claim.go,                                  *)
(*   controllers/automation/plan_step_runtime.go, plan_step_activity.go,   *)
(*   and the claim, cancel and complete handlers of automation.go.         *)
(*                                                                         *)
(* A run leases its task, then a step under it.  Every claim of a step     *)
(* raises its fence; a callback names the run and the fence it was given.  *)
(* A task is either the child task assigned to one step of a plan          *)
(* execution (Target[t] is that step) or a sequential task without an      *)
(* assignment, which takes the earliest ready step (Target[t] = AnyStep).  *)
(*                                                                         *)
(* Leases are the time left: positive while the lease is live, zero or     *)
(* less once it has expired, -MaxWait when it expired so long ago that     *)
(* nobody can tell (a NULL lease_expires_at behaves the same).  Each       *)
(* callback is one transaction that locks the task row before the step,    *)
(* and is one action; the two handlers that act on what they read before a *)
(* lock or a conditional update (Cancel, RecordDeliveryPlanStepActivity)   *)
(* are two.                                                                *)
(***************************************************************************)
EXTENDS Integers, FiniteSets

CONSTANTS
    Steps,      \* the plan's steps, numbered in (display_order, id) order
    Deps,       \* Deps[s]: the steps s depends on
    Tasks,      \* automation tasks of the plan's work item
    Target,     \* Target[t]: the step t is assigned to, or AnyStep
    AnyStep,
    Runs,       \* run ids: one per delivery of a task to a worker
    TaskOf,     \* the task a run works on
    AgentOf,    \* the agent profile of the worker behind a run
    NoRun, NoAgent,
    TaskLease,  \* automationRunLeaseDuration
    Requests,   \* lease durations a worker may ask for
    Reports,    \* outcomes a worker reports of a step
    MinTTL,     \* MinStepLeaseTTL
    MaxFence,   \* the largest fence, math.MaxInt64 in the code
    MaxSeq,     \* bound: sequence numbers of activity events
    MaxWait     \* bound: how long a claim waits for the row lock of its task

ASSUME PlanAssumption ==
    /\ Steps \subseteq Int /\ IsFiniteSet(Steps)
    /\ Deps \in [Steps -> SUBSET Steps]
    /\ AnyStep \notin Steps /\ Target \in [Tasks -> Steps \cup {AnyStep}]
    /\ NoRun \notin Runs /\ TaskOf \in [Runs -> Tasks]
    /\ NoAgent \notin {AgentOf[r] : r \in Runs}

ASSUME TimeAssumption ==
    /\ TaskLease \in Nat /\ Requests \subseteq Nat
    /\ Reports \subseteq {"completed", "failed", "blocked"}
    /\ MinTTL \in Nat \ {0} /\ MaxWait \in Nat
    /\ MaxFence \in Nat /\ MaxSeq \in Nat

VARIABLES
    task,    \* task[t]: status, run and lease of the automation_tasks row
    step,    \* step[s]: status, run, agent, fence and lease of the plan step
    events,  \* delivery_plan_step_activity_events rows
    posted,  \* activity requests whose handler has read the clock
    seen,    \* seen[t]: a cancellation that read the row: its status, the new one
    parent   \* status of the execution's parent task, "none" without execution

vars == <<task, step, events, posted, seen, parent>>

Settled == {"completed", "failed", "blocked"}
StepStatus == {"planned", "running"} \cup Settled
Ended == {"completed", "failed", "cancelled"}
TaskStatus == {"pending", "queued", "running", "cancel_requested"} \cup Ended

Expired == -MaxWait
Assigned(t) == Target[t] # AnyStep
Agents == {AgentOf[r] : r \in Runs}
Lesser(a, b) == IF a <= b THEN a ELSE b

DepsIgnored(s) == TRUE

DepsCompleted(s) == \A d \in Deps[s] : step[d].status = "completed"

NotSeen == [status |-> "none", to |-> "none"]

Init ==
    /\ task = [t \in Tasks |->
                 [status |-> IF Assigned(t) /\ Deps[Target[t]] # {} THEN "pending" ELSE "queued",
                  run |-> NoRun, lease |-> Expired]]
    /\ step = [s \in Steps |-> [status |-> "planned", run |-> NoRun, agent |-> NoAgent,
                                fence |-> 0, lease |-> Expired]]
    /\ events = {}
    /\ posted = {}
    /\ seen = [t \in Tasks |-> NotSeen]
    /\ parent = IF \E t \in Tasks : Assigned(t) THEN "queued" ELSE "none"

-----------------------------------------------------------------------------
(* The task: claim or renewal, cancellation, completion.                   *)

\* The assignment row is active until its step or its task has settled.
AssignmentActive(t) == step[Target[t]].status \notin Settled

\* The claim of a child task reads the clock under the lock of its row, that
\* of a sequential task before it waits for the row.
Waits(t) == IF Assigned(t) THEN {0} ELSE 0 .. MaxWait

\* A queued task may start, its own run may renew it (even after expiry), and
\* another run may take it over once the lease has expired.
MayLease(t, r, w) ==
    /\ Assigned(t) => AssignmentActive(t)
    /\ \/ task[t].status = "queued"
       \/ /\ task[t].status = "running"
          /\ task[t].run = r \/ task[t].lease + w <= 0

\* claimAutomationTaskRun, which read the clock w ago
ClaimTask(r, w) ==
    LET t == TaskOf[r] IN
    /\ w \in Waits(t)
    /\ MayLease(t, r, w)
    /\ task' = [task EXCEPT ![t] = [status |-> "running", run |-> r, lease |-> TaskLease - w]]
    /\ UNCHANGED <<step, events, posted, seen, parent>>

\* automationCancellationTransition, on the row as Cancel reads it
CancelOutcome(t) ==
    IF task[t].status = "queued" \/ task[t].lease <= 0 THEN "cancelled" ELSE "cancel_requested"

\* Cancel reads the row without a lock and decides (bound: one cancellation
\* at a time) ...
CancelRead(t) ==
    /\ task[t].status \in {"queued", "running"}
    /\ \A u \in Tasks : seen[u] = NotSeen
    /\ seen' = [seen EXCEPT ![t] = [status |-> task[t].status, to |-> CancelOutcome(t)]]
    /\ UNCHANGED <<task, step, events, posted, parent>>

\* ... then updates it provided the status is still the one it read.
CancelWrite(t) ==
    /\ seen[t] # NotSeen
    /\ task' = IF task[t].status = seen[t].status
               THEN [task EXCEPT ![t] =
                       [status |-> seen[t].to, run |-> task[t].run,
                        lease |-> IF seen[t].to = "cancelled" THEN Expired ELSE task[t].lease]]
               ELSE task
    /\ seen' = [seen EXCEPT ![t] = NotSeen]
    /\ UNCHANGED <<step, events, posted, parent>>

\* The operator cancels the execution's parent task, which stays queued
\* while its children run; the execution itself stays active.
CancelParent ==
    /\ parent = "queued"
    /\ parent' = "cancelled"
    /\ UNCHANGED <<task, step, events, posted, seen>>

CompletionUnlessCancelled(t, outcome) == outcome

\* A completion of a task whose cancellation was requested settles it.
CompletionStatus(t, outcome) ==
    IF task[t].status = "cancel_requested" THEN "cancelled" ELSE outcome

\* AssessFanIn on the children's task and step states: a child failed when
\* its task did, or when its task completed without its step.
ChildFailed(u, status) ==
    /\ Assigned(u)
    /\ \/ status \in {"failed", "cancelled"}
       \/ status = "completed" /\ step[Target[u]].status # "completed"

\* Child tasks whose step became ready: unless a child failed, the fan-in
\* dispatches those for which it finds capacity and an eligible machine.
Dispatchable(t, ends) ==
    {u \in Tasks :
       /\ Assigned(t) /\ ~ChildFailed(t, ends)
       /\ \A c \in Tasks \ {t} : ~ChildFailed(c, task[c].status)
       /\ Assigned(u) /\ task[u].status = "pending" /\ DepsCompleted(Target[u])}

\* Every child ended with its step completed: the fan-in may find the
\* integration evidence it needs to complete the parent.
FanInComplete(t, ends) ==
    /\ Assigned(t) /\ ends = "completed"
    /\ \A c \in Tasks \ {t} : Assigned(c) => task[c].status = "completed"
    /\ \A s \in Steps : step[s].status = "completed"

\* The completion callback of a run.  The lease is not consulted: a result
\* that is late but not superseded counts.  A child's callback also runs the
\* fan-in (reconcilePlanStepChildTerminalInTransaction), which refuses it
\* unless the parent is queued, dispatches what became ready and may promote
\* the parent once every step has completed.
CompleteTask(r, outcome) ==
    LET t == TaskOf[r]
        ends == CompletionStatus(t, outcome) IN
    /\ task[t].status \in {"running", "cancel_requested"} /\ task[t].run = r
    /\ Assigned(t) => parent = "queued"
    /\ \E go \in SUBSET Dispatchable(t, ends) :
         task' = [u \in Tasks |->
                    [status |-> IF u = t THEN ends
                                ELSE IF u \in go THEN "queued" ELSE task[u].status,
                     run |-> task[u].run, lease |-> task[u].lease]]
    /\ parent' \in {parent} \cup (IF FanInComplete(t, ends) THEN {"completed"} ELSE {})
    /\ UNCHANGED <<step, events, posted, seen>>

-----------------------------------------------------------------------------
(* The step: claim, renewal, activity and transition callbacks of a run.   *)

\* The task row is running, leased to r and the lease has not expired.
HoldsTask(r) ==
    LET t == TaskOf[r] IN
    task[t].status = "running" /\ task[t].run = r /\ task[t].lease > 0

\* validateAssignedPlanStepCallback
MayCallBack(r, s) ==
    LET t == TaskOf[r] IN Assigned(t) => Target[t] = s /\ parent = "queued" /\ AssignmentActive(t)

\* loadFencedStep
Fenced(r, s, f) == step[s].run = r /\ step[s].fence = f /\ step[s].lease > 0

GrantedUncapped(r, ttl) == ttl

\* A step lease is cut down to what is left of the task lease, and refused
\* when that is less than the shortest lease the service grants.
Granted(r, ttl) == Lesser(ttl, task[TaskOf[r]].lease)

Held(r) == {s \in Steps : step[s].status = "running" /\ step[s].run = r /\ step[s].lease > 0}

NeverReplayed(r) == {}

\* What a run that retries its claim already holds.
Replayed(r) == Held(r)

ReadyAgain(r) ==
    {s \in Steps :
       /\ step[s].lease <= 0
       /\ DepsCompleted(s)
       /\ Assigned(TaskOf[r]) => Target[TaskOf[r]] = s}

\* Steps the claim query may select.  The agent of the first claim sticks.
Ready(r) ==
    {s \in Steps :
       /\ step[s].status \in {"planned", "running"} /\ step[s].lease <= 0
       /\ step[s].agent \in {NoAgent, AgentOf[r]}
       /\ DepsCompleted(s)
       /\ Assigned(TaskOf[r]) => Target[TaskOf[r]] = s}

FenceUnlimited(s) == TRUE

\* A fence that has reached its limit is never reused.
FenceLeft(s) == step[s].fence < MaxFence

\* An assigned child claims its step while the parent is queued; a sequential
\* task claims nothing while an execution of the plan is active.
MayClaimSteps(r) ==
    /\ HoldsTask(r)
    /\ IF Assigned(TaskOf[r]) THEN MayCallBack(r, Target[TaskOf[r]])
       ELSE parent \in {"none", "completed"}

\* ClaimDeliveryPlanStep.  A run that already holds a live step gets it again
\* and nothing changes.
ClaimStep(r, ttl) ==
    /\ MayClaimSteps(r)
    /\ Granted(r, ttl) >= MinTTL
    /\ Replayed(r) = {}
    /\ \E s \in Ready(r) :
         /\ \A o \in Ready(r) : s <= o
         /\ FenceLeft(s)
         /\ step' = [step EXCEPT ![s] =
                       [status |-> "running", run |-> r, agent |-> AgentOf[r],
                        fence |-> step[s].fence + 1, lease |-> Granted(r, ttl)]]
    /\ UNCHANGED <<task, events, posted, seen, parent>>

\* RenewDeliveryPlanStepLease: a renewal that would not extend is refused.
RenewStep(r, s, f, ttl) ==
    /\ HoldsTask(r) /\ MayCallBack(r, s)
    /\ Granted(r, ttl) >= MinTTL
    /\ Fenced(r, s, f) /\ step[s].status = "running"
    /\ Granted(r, ttl) > step[s].lease
    /\ step' = [step EXCEPT ![s].lease = Granted(r, ttl)]
    /\ UNCHANGED <<task, events, posted, seen, parent>>

\* requirePlanStepAcceptanceEvidence: the last event of the lease is an
\* acceptance event.
Accepted(s, f) ==
    \E e \in events :
       /\ e.step = s /\ e.fence = f /\ e.accepted
       /\ \A o \in events : o.step = s /\ o.fence = f => o.seq <= e.seq

\* TransitionDeliveryPlanStep.  Repeating the current status, or a settled
\* one, changes nothing.
TransitionStep(r, s, f, status) ==
    /\ HoldsTask(r) /\ MayCallBack(r, s)
    /\ status = "completed" => Accepted(s, f)
    /\ Fenced(r, s, f) /\ step[s].status = "running"
    /\ step' = [step EXCEPT ![s].status = status]
    /\ UNCHANGED <<task, events, posted, seen, parent>>

\* RecordDeliveryPlanStepActivity reads the clock when the request arrives.
\* A request that arrives once the step lease has run out is refused later
\* whatever happens, and left out (bound: one request at a time) ...
PostActivity(s, seq, accepted) ==
    /\ posted = {}
    /\ step[s].status = "running" /\ step[s].lease > 0
    /\ posted' = {[run |-> step[s].run, step |-> s, fence |-> step[s].fence,
                   seq |-> seq, accepted |-> accepted]}
    /\ UNCHANGED <<task, step, events, seen, parent>>

\* A step that settled still takes the events of its last lease.
RecordedWhenSettled(q) ==
    /\ step[q.step].run = q.run /\ step[q.step].fence = q.fence

\* ... for the step lease is held against that clock once the rows are locked,
\* and under the same fence it only grows: it was live then.  The task lease
\* is held against the clock after the lock, too.
Recorded(q) ==
    /\ HoldsTask(q.run) /\ MayCallBack(q.run, q.step)
    /\ step[q.step].status = "running" /\ step[q.step].run = q.run
    /\ step[q.step].fence = q.fence
    /\ \A e \in events : ~(e.step = q.step /\ e.fence = q.fence /\ e.seq = q.seq)

AnswerActivity(q) ==
    /\ posted' = posted \ {q}
    /\ events' = IF Recorded(q)
                 THEN events \cup {[step |-> q.step, fence |-> q.fence, seq |-> q.seq,
                                    accepted |-> q.accepted]}
                 ELSE events
    /\ UNCHANGED <<task, step, seen, parent>>

-----------------------------------------------------------------------------
Aged(lease) == IF lease > Expired THEN lease - 1 ELSE lease

\* Time passes.
Tick ==
    /\ task' = [t \in Tasks |-> [status |-> task[t].status, run |-> task[t].run,
                                 lease |-> Aged(task[t].lease)]]
    /\ step' = [s \in Steps |-> [status |-> step[s].status, run |-> step[s].run,
                                 agent |-> step[s].agent, fence |-> step[s].fence,
                                 lease |-> Aged(step[s].lease)]]
    /\ UNCHANGED <<events, posted, seen, parent>>

Fences == 1 .. MaxFence
Seqs == 1 .. MaxSeq

Next ==
    \/ \E r \in Runs, w \in 0 .. MaxWait : ClaimTask(r, w)
    \/ \E t \in Tasks : CancelRead(t)
    \/ \E t \in Tasks : CancelWrite(t)
    \/ CancelParent
    \/ \E r \in Runs, outcome \in {"completed", "failed"} : CompleteTask(r, outcome)
    \/ \E r \in Runs, ttl \in Requests : ClaimStep(r, ttl)
    \/ \E r \in Runs, s \in Steps, f \in Fences, ttl \in Requests : RenewStep(r, s, f, ttl)
    \/ \E r \in Runs, s \in Steps, f \in Fences, status \in Reports : TransitionStep(r, s, f, status)
    \/ \E s \in Steps, seq \in Seqs, accepted \in BOOLEAN : PostActivity(s, seq, accepted)
    \/ \E q \in posted : AnswerActivity(q)
    \/ Tick

Spec == Init /\ [][Next]_vars

-----------------------------------------------------------------------------
Lease == Expired .. TaskLease
Event == [step : Steps, fence : Nat, seq : Seqs, accepted : BOOLEAN]
Request == [run : Runs, step : Steps, fence : Nat, seq : Seqs, accepted : BOOLEAN]
Cancellation == [status : {"queued", "running"}, to : {"cancelled", "cancel_requested"}]

\* Every variable has its type; no lease is longer than a task lease.
TypeOK ==
    /\ task \in [Tasks -> [status : TaskStatus, run : Runs \cup {NoRun}, lease : Lease]]
    /\ step \in [Steps -> [status : StepStatus, run : Runs \cup {NoRun},
                           agent : Agents \cup {NoAgent}, fence : 0 .. MaxFence, lease : Lease]]
    /\ events \subseteq Event
    /\ posted \subseteq Request
    /\ seen \in [Tasks -> {NotSeen} \cup Cancellation]
    /\ parent \in {"none", "queued", "cancelled", "completed"}

\* How much the clock of a claim may lag behind.
Lag(t) == IF Assigned(t) THEN 0 ELSE MaxWait

\* A live step lease belongs to the run that leases its task now and ends no
\* later than the task lease: a run that lost its task holds no step.  (An
\* operator's cancellation drops the task lease under the run; a sequential
\* run that renews with a clock read before its wait for the row shortens it
\* by that wait.)
LeaseNested ==
    \A s \in Steps : step[s].status = "running" /\ step[s].lease > 0 =>
       /\ step[s].run \in Runs
       /\ LET t == TaskOf[step[s].run] IN
          \/ step[s].lease <= Lag(t)
          \/ /\ task[t].run = step[s].run
             /\ step[s].lease <= task[t].lease + Lag(t) \/ task[t].status = "cancelled"

\* A run never holds two steps at once: a retried claim gets the step the run
\* already holds rather than another node of the graph.
OneLiveStep ==
    \A r \in Runs : \A a, b \in Held(r) : a = b

\* No step is ever claimed before everything it depends on has completed.
DependenciesFirst ==
    \A s \in Steps : step[s].fence > 0 =>
       \A d \in Deps[s] : step[d].status = "completed"

\* A completed step has, under the fence it completed with, an acceptance
\* event that nothing recorded later under that fence supersedes.
CompletedOnEvidence ==
    \A s \in Steps : step[s].status = "completed" => Accepted(s, step[s].fence)

\* Anything that happens to a step but the passing of time.
Moves(s) ==
    \/ step'[s].lease > step[s].lease
    \/ <<step'[s].status, step'[s].run, step'[s].fence>> # <<step[s].status, step[s].run, step[s].fence>>

OwnerOf(s) ==
    step[s].run \in Runs /\ HoldsTask(step[s].run) /\ step[s].lease > 0

\* A step changes hands only after its lease ran out and never once it has
\* settled; otherwise only the live holder of both leases changes it.
StepGuarded ==
    [][\A s \in Steps : Moves(s) =>
         /\ step[s].status \notin Settled
         /\ \/ /\ step'[s].fence = step[s].fence + 1
               /\ step[s].lease <= 0 /\ step'[s].status = "running"
            \/ /\ step'[s].fence = step[s].fence /\ step'[s].run = step[s].run
               /\ OwnerOf(s)]_vars

\* A task whose cancellation was requested ends cancelled whatever its worker
\* reports, and no step of it moves any more.
CancelHonoured ==
    [][\A t \in Tasks : task[t].status = "cancel_requested" =>
         /\ task'[t].status \in {"cancel_requested", "cancelled"}
         /\ \A r \in Runs, s \in Steps : TaskOf[r] = t /\ step'[s].run = r => ~Moves(s)]_vars

(* What comments of the code say and the code does not do.                 *)

\* automationCancellationTransition settles a running task at once only when
\* "there is no live worker left" to acknowledge the request: its lease has
\* run out.  (Not so: the lease is the one Cancel read, and the update asks
\* only whether the task is still running.)
CancelSettlesAbandoned ==
    [][\A t \in Tasks : task[t].status = "running" /\ task'[t].status = "cancelled" =>
         task[t].lease <= 0]_vars

\* "A genuinely abandoned run becomes recoverable after the lease": a running
\* task whose lease has run out may be leased by one of its runs.  (Not so for
\* a child whose step has settled and whose worker died before it completed
\* the task.)
AbandonedRecoverable ==
    \A t \in Tasks : task[t].status = "running" /\ task[t].lease <= 0 =>
       \E r \in Runs : TaskOf[r] = t /\ MayLease(t, r, 0)
=============================================================================
