--------------------------- MODULE PlanStepsProofs ---------------------------
(***************************************************************************)
(* The lease protocol of plan steps, for every plan, every set of tasks,   *)
(* runs and agents, and every lease length: types, the nesting of leases,  *)
(* one live step per run, dependencies first, completion on evidence, and  *)
(* the two action properties.                                              *)
(***************************************************************************)
EXTENDS PlanSteps, TLAPS

USE PlanAssumption, TimeAssumption DEF Settled, StepStatus, Ended, TaskStatus

TaskRow == [status : TaskStatus, run : Runs \cup {NoRun}, lease : Lease]
StepRow == [status : StepStatus, run : Runs \cup {NoRun},
            agent : Agents \cup {NoAgent}, fence : 0 .. MaxFence, lease : Lease]

\* Ageing keeps a lease in its range and never lengthens it.
LEMMA AgedType ==
    ASSUME NEW lease \in Lease
    PROVE  /\ Aged(lease) \in Lease
           /\ Aged(lease) \in {lease, lease - 1}
           /\ Aged(lease) = lease => lease = Expired
  BY DEF Aged, Lease, Expired

\* What the claim of a task grants is a lease.
LEMMA LeaseTypes ==
    /\ Expired \in Lease
    /\ \A w \in 0 .. MaxWait : TaskLease - w \in Lease
    /\ Lease \subseteq Int
  BY DEF Expired, Lease

\* A lease the service grants is positive, and within the task lease.
LEMMA GrantedType ==
    ASSUME TypeOK, NEW r \in Runs, NEW ttl \in Requests, Granted(r, ttl) >= MinTTL
    PROVE  /\ Granted(r, ttl) \in Lease
           /\ Granted(r, ttl) <= task[TaskOf[r]].lease
           /\ Granted(r, ttl) > 0
  <1>1. task[TaskOf[r]].lease \in Lease
    BY DEF TypeOK
  <1>2. ttl \in Nat
    OBVIOUS
  <1>. QED  BY <1>1, <1>2 DEF Granted, Lesser, Lease, Expired

-----------------------------------------------------------------------------
(* Types.                                                                  *)

\* A step that was ever claimed belongs to a run.  TypeOK is not inductive
\* without it: an activity request carries the run of its step.
ClaimedByRun == \A s \in Steps : step[s].status # "planned" => step[s].run \in Runs

\* The rows a plan, its execution and its tasks are created with.
LEMMA InitType == Init => TypeOK
  <1>. SUFFICES ASSUME Init PROVE TypeOK
    OBVIOUS
  <1>. USE DEF Init, Expired, Lease
  <1>1. task \in [Tasks -> TaskRow]
    BY DEF TaskRow
  <1>2. step \in [Steps -> StepRow]
    BY DEF StepRow
  <1>3. seen \in [Tasks -> {NotSeen} \cup Cancellation]
    OBVIOUS
  <1>. QED  BY <1>1, <1>2, <1>3 DEF TypeOK, TaskRow, StepRow

\* Every handler writes rows of the right type.
LEMMA NextType == TypeOK /\ ClaimedByRun /\ [Next]_vars => TypeOK'
  <1>. SUFFICES ASSUME TypeOK, ClaimedByRun, [Next]_vars PROVE TypeOK'
    OBVIOUS
  <1>0. /\ task \in [Tasks -> TaskRow] /\ step \in [Steps -> StepRow]
        /\ \A r \in Runs : TaskOf[r] \in Tasks /\ AgentOf[r] \in Agents
    BY DEF TypeOK, TaskRow, StepRow, Agents
  <1>1. ASSUME NEW r \in Runs, NEW w \in 0 .. MaxWait, ClaimTask(r, w) PROVE TypeOK'
    <2>1. [status |-> "running", run |-> r, lease |-> TaskLease - w] \in TaskRow
      BY LeaseTypes DEF TaskRow
    <2>2. task' \in [Tasks -> TaskRow]
      BY <1>0, <1>1, <2>1 DEF ClaimTask
    <2>. QED  BY <1>1, <2>2 DEF ClaimTask, TypeOK, TaskRow, Event, Request, Lease, Agents
  <1>2. ASSUME NEW t \in Tasks, CancelRead(t) PROVE TypeOK'
    <2>1. [status |-> task[t].status, to |-> CancelOutcome(t)] \in Cancellation
      BY <1>2 DEF CancelRead, CancelOutcome, Cancellation
    <2>. QED  BY <1>2, <2>1 DEF CancelRead, TypeOK
  <1>3. ASSUME NEW t \in Tasks, CancelWrite(t) PROVE TypeOK'
    <2>1. seen' \in [Tasks -> {NotSeen} \cup Cancellation]
      BY <1>3 DEF CancelWrite, TypeOK
    <2>2. seen[t] \in Cancellation
      BY <1>3 DEF CancelWrite, TypeOK
    <2>3. ASSUME task[t].status = seen[t].status
          PROVE  [status |-> seen[t].to, run |-> task[t].run,
                  lease |-> IF seen[t].to = "cancelled" THEN Expired ELSE task[t].lease] \in TaskRow
      BY <1>0, <2>2, LeaseTypes DEF Cancellation, TaskRow
    <2>4. task' \in [Tasks -> TaskRow]
      BY <1>0, <1>3, <2>3 DEF CancelWrite
    <2>. QED  BY <1>3, <2>1, <2>4 DEF CancelWrite, TypeOK, TaskRow
  <1>4. CASE CancelParent
    BY <1>4 DEF CancelParent, TypeOK
  <1>5. ASSUME NEW r \in Runs, NEW outcome \in {"completed", "failed"}, CompleteTask(r, outcome)
        PROVE TypeOK'
    <2>1. CompletionStatus(TaskOf[r], outcome) \in TaskStatus
      BY DEF CompletionStatus
    <2>2. task' \in [Tasks -> TaskRow]
      BY <1>0, <1>5, <2>1 DEF CompleteTask, TaskRow
    <2>3. parent' \in {"none", "queued", "cancelled", "completed"}
      BY <1>5 DEF CompleteTask, TypeOK
    <2>. QED  BY <1>5, <2>2, <2>3 DEF CompleteTask, TypeOK, TaskRow
  <1>6. ASSUME NEW r \in Runs, NEW ttl \in Requests, ClaimStep(r, ttl) PROVE TypeOK'
    <2>1. PICK s \in Steps :
             /\ FenceLeft(s)
             /\ step' = [step EXCEPT ![s] =
                           [status |-> "running", run |-> r, agent |-> AgentOf[r],
                            fence |-> step[s].fence + 1, lease |-> Granted(r, ttl)]]
      BY <1>6 DEF ClaimStep, Ready
    <2>2. step[s].fence + 1 \in 0 .. MaxFence
      <3>1. step[s].fence \in 0 .. MaxFence
        BY <1>0 DEF StepRow
      <3>2. step[s].fence < MaxFence
        BY <2>1 DEF FenceLeft
      <3>. QED  BY <3>1, <3>2
    <2>3. Granted(r, ttl) \in Lease
      BY <1>6, GrantedType DEF ClaimStep
    <2>4. step' \in [Steps -> StepRow]
      BY <1>0, <2>1, <2>2, <2>3 DEF StepRow
    <2>. QED  BY <1>6, <2>4 DEF ClaimStep, TypeOK, StepRow
  <1>7. ASSUME NEW r \in Runs, NEW s \in Steps, NEW f \in Fences, NEW ttl \in Requests,
               RenewStep(r, s, f, ttl) PROVE TypeOK'
    <2>1. Granted(r, ttl) \in Lease
      BY <1>7, GrantedType DEF RenewStep
    <2>2. step' \in [Steps -> StepRow]
      <3>1. [step[s] EXCEPT !.lease = Granted(r, ttl)] \in StepRow
        BY <1>0, <2>1 DEF StepRow
      <3>. QED  BY <1>0, <1>7, <3>1 DEF RenewStep
    <2>. QED  BY <1>7, <2>2 DEF RenewStep, TypeOK, StepRow
  <1>8. ASSUME NEW r \in Runs, NEW s \in Steps, NEW f \in Fences, NEW status \in Reports,
               TransitionStep(r, s, f, status) PROVE TypeOK'
    <2>1. step' \in [Steps -> StepRow]
      BY <1>0, <1>8 DEF TransitionStep, StepRow
    <2>. QED  BY <1>8, <2>1 DEF TransitionStep, TypeOK, StepRow
  <1>9. CASE \E s \in Steps, seq \in Seqs, accepted \in BOOLEAN : PostActivity(s, seq, accepted)
    <2>1. PICK s \in Steps, seq \in Seqs, accepted \in BOOLEAN : PostActivity(s, seq, accepted)
      BY <1>9
    <2>. QED  BY <1>0, <2>1 DEF PostActivity, TypeOK, Request, ClaimedByRun, StepRow
  <1>10. ASSUME NEW q \in posted, AnswerActivity(q) PROVE TypeOK'
    <2>1. q \in Request
      BY DEF TypeOK
    <2>2. events' \subseteq Event
      BY <1>10, <2>1 DEF AnswerActivity, TypeOK, Event, Request
    <2>. QED  BY <1>10, <2>2 DEF AnswerActivity, TypeOK
  <1>11. CASE Tick
    <2>1. \A t \in Tasks : Aged(task[t].lease) \in Lease
      BY <1>0, AgedType DEF TaskRow
    <2>2. \A s \in Steps : Aged(step[s].lease) \in Lease
      BY <1>0, AgedType DEF StepRow
    <2>3. task' \in [Tasks -> TaskRow]
      BY <1>0, <1>11, <2>1 DEF Tick, TaskRow
    <2>4. step' \in [Steps -> StepRow]
      BY <1>0, <1>11, <2>2 DEF Tick, StepRow
    <2>. QED  BY <1>11, <2>3, <2>4 DEF Tick, TypeOK, TaskRow, StepRow
  <1>12. CASE UNCHANGED vars
    BY <1>12 DEF vars, TypeOK
  <1>13. CASE \E q \in posted : AnswerActivity(q)
    BY <1>10, <1>13
  <1>. QED
    BY <1>1, <1>2, <1>3, <1>4, <1>5, <1>6, <1>7, <1>8, <1>9, <1>11, <1>12, <1>13, Zenon DEF Next

-----------------------------------------------------------------------------
(* What a step of the system does to a plan step.                          *)

\* A claim that changes s
ClaimOf(s, r, ttl) ==
    /\ MayClaimSteps(r) /\ Granted(r, ttl) >= MinTTL /\ Held(r) = {}
    /\ s \in Ready(r) /\ FenceLeft(s)
    /\ step' = [step EXCEPT ![s] =
                  [status |-> "running", run |-> r, agent |-> AgentOf[r],
                   fence |-> step[s].fence + 1, lease |-> Granted(r, ttl)]]
    /\ UNCHANGED <<task, events>>

\* Every step of the system leaves the plan steps alone, or claims, renews or
\* settles one of them, or lets time pass.
LEMMA StepEffect ==
    ASSUME [Next]_vars
    PROVE  \/ UNCHANGED step
           \/ \E r \in Runs, ttl \in Requests, s \in Steps : ClaimOf(s, r, ttl)
           \/ \E r \in Runs, s \in Steps, f \in Fences, ttl \in Requests : RenewStep(r, s, f, ttl)
           \/ \E r \in Runs, s \in Steps, f \in Fences, status \in Reports :
                 TransitionStep(r, s, f, status)
           \/ Tick
  <1>1. ASSUME NEW r \in Runs, NEW ttl \in Requests, ClaimStep(r, ttl)
        PROVE  \E s \in Steps : ClaimOf(s, r, ttl)
    <2>1. PICK s \in Ready(r) :
             /\ FenceLeft(s)
             /\ step' = [step EXCEPT ![s] =
                           [status |-> "running", run |-> r, agent |-> AgentOf[r],
                            fence |-> step[s].fence + 1, lease |-> Granted(r, ttl)]]
      BY <1>1 DEF ClaimStep
    <2>2. s \in Steps
      BY DEF Ready
    <2>3. ClaimOf(s, r, ttl)
      BY <1>1, <2>1 DEF ClaimStep, ClaimOf, Replayed
    <2>. QED  BY <2>2, <2>3
  <1>2. \/ \E r \in Runs, ttl \in Requests : ClaimStep(r, ttl)
        \/ \E r \in Runs, s \in Steps, f \in Fences, ttl \in Requests : RenewStep(r, s, f, ttl)
        \/ \E r \in Runs, s \in Steps, f \in Fences, status \in Reports :
                 TransitionStep(r, s, f, status)
        \/ Tick
        \/ UNCHANGED step
    BY DEF Next, vars, ClaimTask, CancelRead, CancelWrite, CancelParent, CompleteTask,
           PostActivity, AnswerActivity
  <1>. QED  BY <1>1, <1>2

\* No handler takes the run out of a claimed step.
LEMMA NextClaimed == TypeOK /\ ClaimedByRun /\ [Next]_vars => ClaimedByRun'
  <1>. SUFFICES ASSUME TypeOK, ClaimedByRun, [Next]_vars PROVE ClaimedByRun'
    OBVIOUS
  <1>0. step \in [Steps -> StepRow]
    BY DEF TypeOK, StepRow
  <1>. USE DEF ClaimedByRun, StepRow
  <1>1. CASE UNCHANGED step
    BY <1>1
  <1>2. ASSUME NEW r \in Runs, NEW ttl \in Requests, NEW s \in Steps, ClaimOf(s, r, ttl)
        PROVE  ClaimedByRun'
    BY <1>0, <1>2 DEF ClaimOf
  <1>3. ASSUME NEW r \in Runs, NEW s \in Steps, NEW f \in Fences, NEW ttl \in Requests,
               RenewStep(r, s, f, ttl)
        PROVE  ClaimedByRun'
    BY <1>0, <1>3 DEF RenewStep
  <1>4. ASSUME NEW r \in Runs, NEW s \in Steps, NEW f \in Fences, NEW status \in Reports,
               TransitionStep(r, s, f, status)
        PROVE  ClaimedByRun'
    BY <1>0, <1>4 DEF TransitionStep
  <1>5. CASE Tick
    BY <1>0, <1>5 DEF Tick
  <1>. QED  BY <1>1, <1>2, <1>3, <1>4, <1>5, StepEffect

\* The rows of tasks and steps, the events and the requests in flight keep
\* their types whatever the plan, the runs and the lease lengths.
THEOREM PlanStepsTypeCorrect == Spec => []TypeOK
  <1>1. Init => TypeOK /\ ClaimedByRun
    BY InitType DEF Init, ClaimedByRun
  <1>2. TypeOK /\ ClaimedByRun /\ [Next]_vars => (TypeOK /\ ClaimedByRun)'
    BY NextType, NextClaimed
  <1>. QED  BY <1>1, <1>2, PTL DEF Spec

-----------------------------------------------------------------------------
(* Safety invariants: each is preserved given the types.                   *)

\* A claim waits for the dependencies, and a completed step never changes.
LEMMA NextDependencies ==
    TypeOK /\ DependenciesFirst /\ [Next]_vars => DependenciesFirst'
  <1>. SUFFICES ASSUME TypeOK, DependenciesFirst, [Next]_vars PROVE DependenciesFirst'
    OBVIOUS
  <1>0. step \in [Steps -> StepRow] /\ \A s \in Steps : Deps[s] \subseteq Steps
    BY DEF TypeOK, StepRow
  <1>. USE DEF DependenciesFirst, StepRow
  <1>1. CASE UNCHANGED step
    BY <1>1
  <1>2. ASSUME NEW r \in Runs, NEW ttl \in Requests, NEW s \in Steps, ClaimOf(s, r, ttl)
        PROVE  DependenciesFirst'
    <2>1. \A d \in Deps[s] : step[d].status = "completed"
      BY <1>2 DEF ClaimOf, Ready, DepsCompleted
    <2>2. step[s].status # "completed"
      BY <1>2 DEF ClaimOf, Ready
    <2>3. \A o \in Steps : step[o].status = "completed" => step'[o] = step[o]
      BY <1>0, <1>2, <2>2 DEF ClaimOf
    <2>4. \A o \in Steps \ {s} : step'[o] = step[o]
      BY <1>0, <1>2 DEF ClaimOf
    <2>. QED  BY <1>0, <2>1, <2>3, <2>4
  <1>3. ASSUME NEW r \in Runs, NEW s \in Steps, NEW f \in Fences, NEW ttl \in Requests,
               RenewStep(r, s, f, ttl)
        PROVE  DependenciesFirst'
    BY <1>0, <1>3 DEF RenewStep
  <1>4. ASSUME NEW r \in Runs, NEW s \in Steps, NEW f \in Fences, NEW status \in Reports,
               TransitionStep(r, s, f, status)
        PROVE  DependenciesFirst'
    BY <1>0, <1>4 DEF TransitionStep
  <1>5. CASE Tick
    BY <1>0, <1>5 DEF Tick
  <1>. QED  BY <1>1, <1>2, <1>3, <1>4, <1>5, StepEffect

\* The events of a step change only under the fence of a running step.
LEMMA EventEffect ==
    ASSUME TypeOK, [Next]_vars
    PROVE  /\ events \subseteq events'
           /\ \A e \in events' \ events : e.step \in Steps /\ step[e.step].status = "running"
           /\ events' # events => UNCHANGED step
  <1>1. ASSUME NEW q \in posted, AnswerActivity(q)
        PROVE  /\ events \subseteq events' /\ UNCHANGED step
               /\ \A e \in events' \ events : e.step \in Steps /\ step[e.step].status = "running"
    <2>1. q.step \in Steps
      BY DEF TypeOK, Request
    <2>. QED  BY <1>1, <2>1 DEF AnswerActivity, Recorded
  <1>2. \/ \E q \in posted : AnswerActivity(q)
        \/ events' = events
    BY DEF Next, vars, ClaimTask, CancelRead, CancelWrite, CancelParent, CompleteTask,
           ClaimStep, RenewStep, TransitionStep, PostActivity, Tick
  <1>. QED  BY <1>1, <1>2

\* Completion is recorded on an acceptance event; from then on the step takes
\* no event and keeps its fence.
LEMMA NextEvidence ==
    TypeOK /\ CompletedOnEvidence /\ [Next]_vars => CompletedOnEvidence'
  <1>. SUFFICES ASSUME TypeOK, CompletedOnEvidence, [Next]_vars,
                       NEW s \in Steps, step'[s].status = "completed"
                PROVE  \E e \in events' :
                          /\ e.step = s /\ e.fence = step'[s].fence /\ e.accepted
                          /\ \A o \in events' : o.step = s /\ o.fence = step'[s].fence => o.seq <= e.seq
    BY DEF CompletedOnEvidence, Accepted
  <1>0. step \in [Steps -> StepRow]
    BY DEF TypeOK, StepRow
  <1>1. CASE events' = events
    <2>1. step[s].status = "completed" => step'[s].fence = step[s].fence
      <3>1. ASSUME NEW r \in Runs, NEW ttl \in Requests, NEW o \in Steps, ClaimOf(o, r, ttl)
            PROVE  step'[s].status = step[s].status /\ step'[s].fence = step[s].fence
        BY <1>0, <3>1 DEF ClaimOf
      <3>2. ASSUME NEW r \in Runs, NEW o \in Steps, NEW f \in Fences, NEW ttl \in Requests,
                   RenewStep(r, o, f, ttl)
            PROVE  step'[s].fence = step[s].fence
        BY <1>0, <3>2 DEF RenewStep, StepRow
      <3>3. ASSUME NEW r \in Runs, NEW o \in Steps, NEW f \in Fences, NEW status \in Reports,
                   TransitionStep(r, o, f, status)
            PROVE  step'[s].fence = step[s].fence
        BY <1>0, <3>3 DEF TransitionStep, StepRow
      <3>4. Tick => step'[s].fence = step[s].fence
        BY DEF Tick
      <3>. QED  BY <3>1, <3>2, <3>3, <3>4, StepEffect
    <2>2. step[s].status # "completed" => Accepted(s, step'[s].fence)
      <3>. SUFFICES ASSUME step[s].status # "completed" PROVE Accepted(s, step'[s].fence)
        OBVIOUS
      <3>1. PICK r \in Runs, o \in Steps, f \in Fences, status \in Reports :
                TransitionStep(r, o, f, status)
        <4>1. ASSUME NEW r \in Runs, NEW ttl \in Requests, NEW o \in Steps, ClaimOf(o, r, ttl)
              PROVE  FALSE
          BY <1>0, <4>1 DEF ClaimOf
        <4>2. ASSUME NEW r \in Runs, NEW o \in Steps, NEW f \in Fences, NEW ttl \in Requests,
                     RenewStep(r, o, f, ttl)
              PROVE  FALSE
          BY <1>0, <4>2 DEF RenewStep, StepRow
        <4>3. ASSUME Tick PROVE FALSE
          <5>1. step'[s].status = step[s].status
            BY <4>3 DEF Tick
          <5>. QED  BY <5>1
        <4>. QED  BY <4>1, <4>2, <4>3, StepEffect
      <3>2. o = s /\ status = "completed" /\ step'[s].fence = step[s].fence
        BY <1>0, <3>1 DEF TransitionStep, StepRow
      <3>. QED  BY <3>1, <3>2 DEF TransitionStep, Fenced
    <2>3. step[s].status = "completed" => Accepted(s, step[s].fence)
      BY DEF CompletedOnEvidence
    <2>4. Accepted(s, step'[s].fence)
      BY <2>1, <2>2, <2>3
    <2>. QED  BY <1>1, <2>4 DEF Accepted
  <1>2. CASE events' # events
    <2>1. UNCHANGED step /\ events \subseteq events'
          /\ \A e \in events' \ events : e.step # s
      BY <1>2, EventEffect
    <2>2. PICK e \in events : /\ e.step = s /\ e.fence = step[s].fence /\ e.accepted
                              /\ \A o \in events : o.step = s /\ o.fence = step[s].fence => o.seq <= e.seq
      BY <2>1 DEF CompletedOnEvidence, Accepted
    <2>. QED  BY <2>1, <2>2 DEF Accepted
  <1>. QED  BY <1>1, <1>2

\* A task that was never claimed carries no run.
FreshTask == \A t \in Tasks : task[t].status \in {"pending", "queued"} => task[t].run = NoRun

\* Only a claim puts a run into a task, and it starts the task.
LEMMA NextFresh == TypeOK /\ FreshTask /\ [Next]_vars => FreshTask'
  <1>. SUFFICES ASSUME TypeOK, FreshTask, [Next]_vars PROVE FreshTask'
    OBVIOUS
  <1>0. task \in [Tasks -> TaskRow] /\ TaskOf \in [Runs -> Tasks]
    BY DEF TypeOK, TaskRow
  <1>. USE DEF FreshTask, TaskRow
  <1>1. ASSUME NEW r \in Runs, NEW w \in 0 .. MaxWait, ClaimTask(r, w) PROVE FreshTask'
    BY <1>0, <1>1 DEF ClaimTask
  <1>2. ASSUME NEW t \in Tasks, CancelWrite(t) PROVE FreshTask'
    <2>1. seen[t].to \in {"cancelled", "cancel_requested"}
      BY <1>2 DEF CancelWrite, TypeOK, Cancellation
    <2>. QED  BY <1>0, <1>2, <2>1 DEF CancelWrite
  <1>3. ASSUME NEW r \in Runs, NEW outcome \in {"completed", "failed"}, CompleteTask(r, outcome)
        PROVE  FreshTask'
    <2>1. CompletionStatus(TaskOf[r], outcome) \in Ended
      BY DEF CompletionStatus
    <2>. QED  BY <1>0, <1>3, <2>1 DEF CompleteTask, Dispatchable
  <1>4. CASE Tick
    BY <1>0, <1>4 DEF Tick
  <1>5. CASE UNCHANGED task
    BY <1>5
  <1>. QED
    BY <1>1, <1>2, <1>3, <1>4, <1>5
    DEF Next, vars, CancelRead, CancelParent, ClaimStep, RenewStep, TransitionStep,
        PostActivity, AnswerActivity

\* The claims of LeaseNested on one live step
Nested(s) ==
    LET t == TaskOf[step[s].run] IN
    \/ step[s].lease <= Lag(t)
    \/ /\ task[t].run = step[s].run
       /\ step[s].lease <= task[t].lease + Lag(t) \/ task[t].status = "cancelled"

\* No claim reads the clock earlier than its task allows.
LEMMA LagType == \A t \in Tasks : Lag(t) \in 0 .. MaxWait /\ \A w \in Waits(t) : w \in 0 .. Lag(t)
  BY DEF Lag, Waits

\* Step leases stay within the task lease that granted them: when another run
\* takes the task over, the lease of the former run's steps has run out too.
LEMMA NextNested ==
    TypeOK /\ FreshTask /\ LeaseNested /\ [Next]_vars => LeaseNested'
  <1>. SUFFICES ASSUME TypeOK, FreshTask, LeaseNested, [Next]_vars,
                       NEW s \in Steps, step'[s].status = "running", step'[s].lease > 0
                PROVE  step'[s].run \in Runs /\ Nested(s)'
    BY DEF LeaseNested, Nested
  <1>0. /\ step \in [Steps -> StepRow] /\ task \in [Tasks -> TaskRow]
        /\ TaskOf \in [Runs -> Tasks]
    BY DEF TypeOK, StepRow, TaskRow
  <1>a. ASSUME step[s].status = "running", step[s].lease > 0
        PROVE  step[s].run \in Runs /\ TaskOf[step[s].run] \in Tasks /\ Nested(s)
    BY <1>a, <1>0 DEF LeaseNested, Nested
  <1>b. /\ step[s].lease \in Int /\ step[s].lease <= TaskLease
        /\ \A t \in Tasks : task[t].lease \in Int /\ task[t].lease >= Expired
        /\ Expired \in Int /\ Expired <= 0 /\ Expired = -MaxWait
    BY <1>0 DEF StepRow, TaskRow, Lease, Expired
  <1>1. ASSUME NEW r \in Runs, NEW w \in 0 .. MaxWait, ClaimTask(r, w)
        PROVE  step'[s].run \in Runs /\ Nested(s)'
    <2>1. UNCHANGED step /\ w \in Waits(TaskOf[r]) /\ MayLease(TaskOf[r], r, w)
          /\ task' = [task EXCEPT ![TaskOf[r]] =
                        [status |-> "running", run |-> r, lease |-> TaskLease - w]]
      BY <1>1 DEF ClaimTask
    <2>2. step[s].run \in Runs /\ TaskOf[step[s].run] \in Tasks /\ Nested(s)
      BY <1>a, <2>1
    <2>3. CASE TaskOf[step[s].run] # TaskOf[r]
      BY <1>0, <2>1, <2>2, <2>3 DEF Nested
    <2>4. CASE TaskOf[step[s].run] = TaskOf[r]
      <3>1. w \in 0 .. Lag(TaskOf[r]) /\ Lag(TaskOf[r]) \in Nat
        BY <2>1, <1>0, LagType
      <3>2. CASE step[s].run = r
        <4>1. task'[TaskOf[r]].run = r /\ task'[TaskOf[r]].lease = TaskLease - w
          BY <1>0, <2>1
        <4>2. step[s].lease <= TaskLease - w + Lag(TaskOf[r])
          BY <1>b, <3>1
        <4>. QED  BY <2>1, <2>2, <3>2, <4>1, <4>2 DEF Nested
      <3>3. CASE step[s].run # r
        <4>1. step[s].lease <= Lag(TaskOf[r])
          <5>1. CASE task[TaskOf[r]].status = "queued"
            <6>1. task[TaskOf[r]].run = NoRun
              BY <5>1, <1>0 DEF FreshTask
            <6>. QED  BY <6>1, <2>2, <2>4 DEF Nested
          <5>2. CASE task[TaskOf[r]].status = "running" /\ task[TaskOf[r]].run = r
            BY <5>2, <2>2, <2>4, <3>3 DEF Nested
          <5>3. CASE task[TaskOf[r]].status = "running" /\ task[TaskOf[r]].lease + w <= 0
            <6>1. task[TaskOf[r]].lease \in Int
              BY <1>0, <1>b
            <6>. QED  BY <1>b, <5>3, <6>1, <2>2, <2>4, <3>1 DEF Nested
          <5>. QED  BY <5>1, <5>2, <5>3, <2>1 DEF MayLease
        <4>. QED  BY <2>1, <2>2, <2>4, <4>1 DEF Nested
      <3>. QED  BY <3>2, <3>3
    <2>. QED  BY <2>3, <2>4
  <1>2. ASSUME NEW t \in Tasks, CancelWrite(t)
        PROVE  step'[s].run \in Runs /\ Nested(s)'
    <2>1. seen[t].status \in {"queued", "running"} /\ seen[t].to \in {"cancelled", "cancel_requested"}
      BY <1>2 DEF CancelWrite, TypeOK, Cancellation
    <2>2. UNCHANGED step
      BY <1>2 DEF CancelWrite
    <2>3. \A u \in Tasks :
            /\ task'[u].run = task[u].run
            /\ task'[u].lease = task[u].lease \/ task'[u].status = "cancelled"
            /\ task[u].status = "cancelled" => task'[u].status = "cancelled"
      BY <1>0, <1>2, <2>1 DEF CancelWrite, TaskRow
    <2>. QED  BY <1>a, <2>2, <2>3 DEF Nested
  <1>3. ASSUME NEW r \in Runs, NEW outcome \in {"completed", "failed"}, CompleteTask(r, outcome)
        PROVE  step'[s].run \in Runs /\ Nested(s)'
    <2>1. UNCHANGED step
      BY <1>3 DEF CompleteTask
    <2>2. \A u \in Tasks :
            /\ task'[u].run = task[u].run /\ task'[u].lease = task[u].lease
            /\ task[u].status = "cancelled" => task'[u].status = "cancelled"
      BY <1>0, <1>3 DEF CompleteTask, Dispatchable
    <2>. QED  BY <1>a, <2>1, <2>2 DEF Nested
  <1>4. CASE UNCHANGED <<task, step>>
    BY <1>a, <1>4 DEF Nested
  <1>5. ASSUME NEW r \in Runs, NEW ttl \in Requests, NEW o \in Steps, ClaimOf(o, r, ttl)
        PROVE  step'[s].run \in Runs /\ Nested(s)'
    <2>1. UNCHANGED task /\ HoldsTask(r) /\ Granted(r, ttl) <= task[TaskOf[r]].lease
      BY <1>5, GrantedType DEF ClaimOf, MayClaimSteps
    <2>2. CASE o # s
      <3>1. step'[s] = step[s]
        BY <1>0, <1>5, <2>2 DEF ClaimOf
      <3>. QED  BY <1>a, <2>1, <3>1 DEF Nested
    <2>3. CASE o = s
      <3>1. step'[s].run = r /\ step'[s].lease = Granted(r, ttl)
        BY <1>0, <1>5, <2>3 DEF ClaimOf
      <3>2. TaskOf[r] \in Tasks /\ Lag(TaskOf[r]) \in Nat /\ task[TaskOf[r]].lease \in Int
        BY <1>0, <1>b, LagType
      <3>3. Granted(r, ttl) \in Int
        <4>1. Granted(r, ttl) >= MinTTL
          BY <1>5 DEF ClaimOf
        <4>. QED  BY <4>1, GrantedType, <1>0 DEF Lease, Expired
      <3>4. Granted(r, ttl) <= task[TaskOf[r]].lease + Lag(TaskOf[r])
        BY <2>1, <3>2, <3>3
      <3>. QED  BY <2>1, <3>1, <3>4 DEF Nested, HoldsTask
    <2>. QED  BY <2>2, <2>3
  <1>6. ASSUME NEW r \in Runs, NEW o \in Steps, NEW f \in Fences, NEW ttl \in Requests,
               RenewStep(r, o, f, ttl)
        PROVE  step'[s].run \in Runs /\ Nested(s)'
    <2>1. UNCHANGED task /\ HoldsTask(r) /\ Granted(r, ttl) <= task[TaskOf[r]].lease
      BY <1>6, GrantedType DEF RenewStep
    <2>2. CASE o # s
      <3>1. step'[s] = step[s]
        BY <1>0, <1>6, <2>2 DEF RenewStep
      <3>. QED  BY <1>a, <2>1, <3>1 DEF Nested
    <2>3. CASE o = s
      <3>1. step'[s].run = r /\ step'[s].lease = Granted(r, ttl)
        BY <1>0, <1>6, <2>3 DEF RenewStep, Fenced, StepRow
      <3>2. TaskOf[r] \in Tasks /\ Lag(TaskOf[r]) \in Nat /\ task[TaskOf[r]].lease \in Int
        BY <1>0, <1>b, LagType
      <3>3. Granted(r, ttl) \in Int
        <4>1. Granted(r, ttl) >= MinTTL
          BY <1>6 DEF RenewStep
        <4>. QED  BY <4>1, GrantedType, <1>0 DEF Lease, Expired
      <3>4. Granted(r, ttl) <= task[TaskOf[r]].lease + Lag(TaskOf[r])
        BY <2>1, <3>2, <3>3
      <3>. QED  BY <2>1, <3>1, <3>4 DEF Nested, HoldsTask
    <2>. QED  BY <2>2, <2>3
  <1>7. ASSUME NEW r \in Runs, NEW o \in Steps, NEW f \in Fences, NEW status \in Reports,
               TransitionStep(r, o, f, status)
        PROVE  step'[s].run \in Runs /\ Nested(s)'
    <2>1. o # s
      BY <1>0, <1>7 DEF TransitionStep, StepRow
    <2>2. step'[s] = step[s] /\ UNCHANGED task
      BY <1>0, <1>7, <2>1 DEF TransitionStep
    <2>. QED  BY <1>a, <2>2 DEF Nested
  <1>8. CASE Tick
    <2>1. /\ step'[s].run = step[s].run /\ step'[s].status = step[s].status
          /\ step'[s].lease = Aged(step[s].lease)
      BY <1>8 DEF Tick
    <2>2. step[s].lease > 0 /\ step'[s].lease = step[s].lease - 1
      BY <2>1, <1>b DEF Aged
    <2>3. step[s].run \in Runs /\ TaskOf[step[s].run] \in Tasks /\ Nested(s)
      BY <1>a, <2>1, <2>2
    <2>. DEFINE t == TaskOf[step[s].run]
    <2>4. task'[t].run = task[t].run /\ task'[t].status = task[t].status
          /\ task'[t].lease = Aged(task[t].lease)
      BY <1>8, <2>3 DEF Tick
    <2>5. t \in Tasks /\ Lag(t) \in 0 .. MaxWait /\ task[t].lease \in Int /\ task[t].lease >= Expired
      BY <2>3, <1>b, LagType
    <2>6. step[s].lease <= Lag(t) => step'[s].lease <= Lag(t)
      BY <2>2, <2>5, <1>b
    <2>7. step[s].lease <= task[t].lease + Lag(t) => step'[s].lease <= task'[t].lease + Lag(t)
      BY <2>2, <2>4, <2>5, <1>b DEF Aged
    <2>8. /\ step[s].lease <= Lag(t) \/ (task[t].run = step[s].run
               /\ (step[s].lease <= task[t].lease + Lag(t) \/ task[t].status = "cancelled"))
      BY <2>3 DEF Nested
    <2>9. \/ step'[s].lease <= Lag(t)
          \/ (task'[t].run = step'[s].run
               /\ (step'[s].lease <= task'[t].lease + Lag(t) \/ task'[t].status = "cancelled"))
      BY <2>1, <2>4, <2>6, <2>7, <2>8
    <2>. QED  BY <2>1, <2>3, <2>9 DEF Nested
  <1>9. \/ \E r \in Runs, w \in 0 .. MaxWait : ClaimTask(r, w)
        \/ \E t \in Tasks : CancelWrite(t)
        \/ \E r \in Runs, outcome \in {"completed", "failed"} : CompleteTask(r, outcome)
        \/ UNCHANGED task
        \/ Tick
    BY DEF Next, vars, CancelRead, CancelParent, ClaimStep, RenewStep, TransitionStep,
           PostActivity, AnswerActivity
  <1>10. CASE UNCHANGED task
    BY <1>4, <1>5, <1>6, <1>7, <1>8, <1>10, StepEffect
  <1>. QED  BY <1>1, <1>2, <1>3, <1>8, <1>9, <1>10

\* A claim that finds a live step of the run changes nothing.
LEMMA NextOneLive ==
    TypeOK /\ OneLiveStep /\ [Next]_vars => OneLiveStep'
  <1>. SUFFICES ASSUME TypeOK, OneLiveStep, [Next]_vars,
                       NEW p \in Runs, NEW a \in Steps, NEW b \in Steps,
                       step'[a].status = "running", step'[a].run = p, step'[a].lease > 0,
                       step'[b].status = "running", step'[b].run = p, step'[b].lease > 0
                PROVE  a = b
    BY DEF OneLiveStep, Held
  <1>0. step \in [Steps -> StepRow]
    BY DEF TypeOK, StepRow
  <1>a. ASSUME step[a].status = "running", step[a].run = p, step[a].lease > 0,
               step[b].status = "running", step[b].run = p, step[b].lease > 0
        PROVE  a = b
    BY <1>a DEF OneLiveStep, Held
  <1>1. CASE UNCHANGED step
    BY <1>1, <1>a
  <1>2. ASSUME NEW r \in Runs, NEW ttl \in Requests, NEW s \in Steps, ClaimOf(s, r, ttl)
        PROVE  a = b
    <2>1. \A o \in Steps : o # s => step'[o] = step[o]
      BY <1>0, <1>2 DEF ClaimOf
    <2>2. step'[s].run = r /\ \A o \in Steps : ~(step[o].status = "running" /\ step[o].run = r /\ step[o].lease > 0)
      BY <1>0, <1>2 DEF ClaimOf, Held
    <2>. QED  BY <1>a, <2>1, <2>2
  <1>3. ASSUME NEW r \in Runs, NEW s \in Steps, NEW f \in Fences, NEW ttl \in Requests,
               RenewStep(r, s, f, ttl)
        PROVE  a = b
    <2>1. \A o \in Steps : step'[o].status = step[o].status /\ step'[o].run = step[o].run
      BY <1>0, <1>3 DEF RenewStep, StepRow
    <2>2. \A o \in Steps : step'[o].lease > 0 => step[o].lease > 0
      BY <1>0, <1>3 DEF RenewStep, Fenced, StepRow
    <2>. QED  BY <1>a, <2>1, <2>2
  <1>4. ASSUME NEW r \in Runs, NEW s \in Steps, NEW f \in Fences, NEW status \in Reports,
               TransitionStep(r, s, f, status)
        PROVE  a = b
    <2>1. a # s /\ b # s
      BY <1>0, <1>4 DEF TransitionStep, StepRow
    <2>2. step'[a] = step[a] /\ step'[b] = step[b]
      BY <1>0, <1>4, <2>1 DEF TransitionStep
    <2>. QED  BY <1>a, <2>2
  <1>5. CASE Tick
    <2>1. \A o \in Steps : step'[o].status = step[o].status /\ step'[o].run = step[o].run
                            /\ step'[o].lease = Aged(step[o].lease)
      BY <1>5 DEF Tick
    <2>2. \A o \in Steps : Aged(step[o].lease) > 0 => step[o].lease > 0
      BY <1>0 DEF Aged, StepRow, Lease, Expired
    <2>. QED  BY <1>a, <2>1, <2>2
  <1>. QED  BY <1>1, <1>2, <1>3, <1>4, <1>5, StepEffect

-----------------------------------------------------------------------------
(* The theorems.                                                           *)

\* No step is ever claimed before the steps it depends on have completed.
THEOREM PlanStepsDependenciesFirst == Spec => []DependenciesFirst
  <1>1. Init => DependenciesFirst
    BY DEF Init, DependenciesFirst
  <1>. QED  BY <1>1, NextDependencies, PlanStepsTypeCorrect, PTL DEF Spec

\* A step is completed only on an acceptance event that is the last word of
\* its lease, and stays so: later events of that lease are refused.
THEOREM PlanStepsCompletedOnEvidence == Spec => []CompletedOnEvidence
  <1>1. Init => CompletedOnEvidence
    BY DEF Init, CompletedOnEvidence
  <1>. QED  BY <1>1, NextEvidence, PlanStepsTypeCorrect, PTL DEF Spec

\* A run that lost its task holds no live step, up to the wait of a sequential
\* task's claim for its row.
THEOREM PlanStepsLeaseNested == Spec => []LeaseNested
  <1>1. Init => FreshTask
    BY DEF Init, FreshTask
  <1>2. Init => LeaseNested
    BY DEF Init, LeaseNested
  <1>. QED  BY <1>1, <1>2, NextFresh, NextNested, PlanStepsTypeCorrect, PTL DEF Spec

\* However often a run retries its claim, it never holds two live steps.
THEOREM PlanStepsOneLiveStep == Spec => []OneLiveStep
  <1>1. Init => OneLiveStep
    BY DEF Init, OneLiveStep, Held
  <1>. QED  BY <1>1, NextOneLive, PlanStepsTypeCorrect, PTL DEF Spec

\* What StepGuarded says of one step of the system
Guarded(s) ==
    Moves(s) =>
      /\ step[s].status \notin Settled
      /\ \/ /\ step'[s].fence = step[s].fence + 1
            /\ step[s].lease <= 0 /\ step'[s].status = "running"
         \/ /\ step'[s].fence = step[s].fence /\ step'[s].run = step[s].run
            /\ OwnerOf(s)

\* A claim takes a step whose lease has run out; renewals and transitions come
\* from the holder.
LEMMA NextGuarded ==
    ASSUME TypeOK, [Next]_vars, NEW s \in Steps PROVE Guarded(s)
  <1>0. step \in [Steps -> StepRow] /\ step[s].lease \in Int
    BY LeaseTypes DEF TypeOK, StepRow
  <1>1. CASE UNCHANGED step
    BY <1>0, <1>1 DEF Guarded, Moves
  <1>2. ASSUME NEW r \in Runs, NEW ttl \in Requests, NEW o \in Steps, ClaimOf(o, r, ttl)
        PROVE  Guarded(s)
    <2>1. CASE o # s
      <3>1. step'[s] = step[s]
        BY <1>0, <1>2, <2>1 DEF ClaimOf
      <3>. QED  BY <1>0, <3>1 DEF Guarded, Moves
    <2>2. CASE o = s
      <3>1. step'[s].fence = step[s].fence + 1 /\ step'[s].status = "running"
        BY <1>0, <1>2, <2>2 DEF ClaimOf
      <3>2. step[s].status \in {"planned", "running"} /\ step[s].lease <= 0
        BY <1>2, <2>2 DEF ClaimOf, Ready
      <3>. QED  BY <3>1, <3>2 DEF Guarded
    <2>. QED  BY <2>1, <2>2
  <1>3. ASSUME NEW r \in Runs, NEW o \in Steps, NEW f \in Fences, NEW ttl \in Requests,
               RenewStep(r, o, f, ttl)
        PROVE  Guarded(s)
    <2>1. CASE o # s
      <3>1. step'[s] = step[s]
        BY <1>0, <1>3, <2>1 DEF RenewStep
      <3>. QED  BY <1>0, <3>1 DEF Guarded, Moves
    <2>2. CASE o = s
      <3>1. step'[s].fence = step[s].fence /\ step'[s].run = step[s].run
        BY <1>0, <1>3, <2>2 DEF RenewStep, StepRow
      <3>2. step[s].status = "running" /\ OwnerOf(s)
        BY <1>3, <2>2 DEF RenewStep, OwnerOf, Fenced
      <3>. QED  BY <3>1, <3>2 DEF Guarded
    <2>. QED  BY <2>1, <2>2
  <1>4. ASSUME NEW r \in Runs, NEW o \in Steps, NEW f \in Fences, NEW status \in Reports,
               TransitionStep(r, o, f, status)
        PROVE  Guarded(s)
    <2>1. CASE o # s
      <3>1. step'[s] = step[s]
        BY <1>0, <1>4, <2>1 DEF TransitionStep
      <3>. QED  BY <1>0, <3>1 DEF Guarded, Moves
    <2>2. CASE o = s
      <3>1. step'[s].fence = step[s].fence /\ step'[s].run = step[s].run
        BY <1>0, <1>4, <2>2 DEF TransitionStep, StepRow
      <3>2. step[s].status = "running" /\ OwnerOf(s)
        BY <1>4, <2>2 DEF TransitionStep, OwnerOf, Fenced
      <3>. QED  BY <3>1, <3>2 DEF Guarded
    <2>. QED  BY <2>1, <2>2
  <1>5. CASE Tick
    <2>1. /\ step'[s].status = step[s].status /\ step'[s].run = step[s].run
          /\ step'[s].fence = step[s].fence /\ step'[s].lease = Aged(step[s].lease)
      BY <1>5 DEF Tick
    <2>2. ~(step'[s].lease > step[s].lease)
      BY <1>0, <2>1 DEF Aged
    <2>. QED  BY <2>1, <2>2 DEF Guarded, Moves
  <1>. QED  BY <1>1, <1>2, <1>3, <1>4, <1>5, StepEffect

\* A step changes hands only after its lease ran out, never once it settled,
\* and changes otherwise only at the word of the run that holds it.
THEOREM PlanStepsStepGuarded == Spec => StepGuarded
  <1>1. TypeOK /\ [Next]_vars => [\A s \in Steps : Guarded(s)]_vars
    BY NextGuarded
  <1>. QED  BY <1>1, PlanStepsTypeCorrect, PTL DEF Spec, StepGuarded, Guarded

\* A requested cancellation is not undone by a claim, a renewal, a result or a
\* second cancellation.
LEMMA NextCancelled ==
    ASSUME TypeOK, [Next]_vars, NEW t \in Tasks, task[t].status = "cancel_requested"
    PROVE  task'[t].status \in {"cancel_requested", "cancelled"}
  <1>0. task \in [Tasks -> TaskRow] /\ TaskOf \in [Runs -> Tasks]
    BY DEF TypeOK, TaskRow
  <1>1. ASSUME NEW r \in Runs, NEW w \in 0 .. MaxWait, ClaimTask(r, w)
        PROVE  task'[t].status = "cancel_requested"
    BY <1>0, <1>1 DEF ClaimTask, MayLease
  <1>2. ASSUME NEW u \in Tasks, CancelWrite(u)
        PROVE  task'[t].status = "cancel_requested"
    <2>1. seen[u].status \in {"queued", "running"}
      BY <1>2 DEF CancelWrite, TypeOK, Cancellation
    <2>. QED  BY <1>0, <1>2, <2>1 DEF CancelWrite
  <1>3. ASSUME NEW r \in Runs, NEW outcome \in {"completed", "failed"}, CompleteTask(r, outcome)
        PROVE  task'[t].status \in {"cancel_requested", "cancelled"}
    BY <1>0, <1>3 DEF CompleteTask, CompletionStatus, Dispatchable
  <1>4. CASE Tick
    BY <1>4 DEF Tick
  <1>5. CASE UNCHANGED task
    BY <1>5
  <1>. QED
    BY <1>1, <1>2, <1>3, <1>4, <1>5
    DEF Next, vars, CancelRead, CancelParent, ClaimStep, RenewStep, TransitionStep,
        PostActivity, AnswerActivity

\* What moves a step is a callback of a run whose task is running.
LEMMA MoverRuns ==
    ASSUME TypeOK, [Next]_vars, NEW s \in Steps, Moves(s)
    PROVE  step'[s].run \in Runs /\ HoldsTask(step'[s].run)
  <1>0. step \in [Steps -> StepRow] /\ step[s].lease \in Int
    BY LeaseTypes DEF TypeOK, StepRow
  <1>1. step' # step
    BY <1>0 DEF Moves
  <1>2. ASSUME NEW r \in Runs, NEW ttl \in Requests, NEW o \in Steps, ClaimOf(o, r, ttl)
        PROVE  step'[s].run = r /\ HoldsTask(r)
    <2>1. o = s
      <3>1. o # s => step'[s] = step[s]
        BY <1>0, <1>2 DEF ClaimOf
      <3>. QED  BY <1>0, <3>1 DEF Moves
    <2>. QED  BY <1>0, <1>2, <2>1 DEF ClaimOf, MayClaimSteps
  <1>3. ASSUME ~\E r \in Runs, ttl \in Requests, o \in Steps : ClaimOf(o, r, ttl)
        PROVE  step'[s].run \in Runs /\ HoldsTask(step'[s].run)
    <2>1. step'[s].run = step[s].run /\ OwnerOf(s)
      <3>1. step'[s].fence # step[s].fence + 1
        <4>1. step[s].fence \in Int
          BY <1>0 DEF StepRow
        <4>2. step'[s].fence = step[s].fence
          <5>1. ASSUME NEW r \in Runs, NEW o \in Steps, NEW f \in Fences, NEW ttl \in Requests,
                       RenewStep(r, o, f, ttl)
                PROVE  step'[s].fence = step[s].fence
            BY <1>0, <5>1 DEF RenewStep, StepRow
          <5>2. ASSUME NEW r \in Runs, NEW o \in Steps, NEW f \in Fences, NEW status \in Reports,
                       TransitionStep(r, o, f, status)
                PROVE  step'[s].fence = step[s].fence
            BY <1>0, <5>2 DEF TransitionStep, StepRow
          <5>3. Tick => step'[s].fence = step[s].fence
            BY DEF Tick
          <5>. QED  BY <1>3, <5>1, <5>2, <5>3, StepEffect
        <4>. QED  BY <4>1, <4>2
      <3>2. Guarded(s)
        BY NextGuarded
      <3>. QED  BY <3>1, <3>2 DEF Guarded
    <2>. QED  BY <2>1 DEF OwnerOf
  <1>. QED  BY <1>2, <1>3

\* Once the cancellation of a running task is requested, the task ends
\* cancelled and none of its runs moves a step.
THEOREM PlanStepsCancelHonoured == Spec => CancelHonoured
  <1>1. ASSUME TypeOK, [Next]_vars
        PROVE  \A t \in Tasks : task[t].status = "cancel_requested" =>
                 /\ task'[t].status \in {"cancel_requested", "cancelled"}
                 /\ \A r \in Runs, s \in Steps : TaskOf[r] = t /\ step'[s].run = r => ~Moves(s)
    BY <1>1, NextCancelled, MoverRuns DEF HoldsTask
  <1>2. TypeOK /\ [Next]_vars =>
           [\A t \in Tasks : task[t].status = "cancel_requested" =>
              /\ task'[t].status \in {"cancel_requested", "cancelled"}
              /\ \A r \in Runs, s \in Steps : TaskOf[r] = t /\ step'[s].run = r => ~Moves(s)]_vars
    BY <1>1
  <1>. QED  BY <1>2, PlanStepsTypeCorrect, PTL DEF Spec, CancelHonoured
=============================================================================
