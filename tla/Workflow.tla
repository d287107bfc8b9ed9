------------------------------ MODULE Workflow ------------------------------
(***************************************************************************)
(* The delivery workflow of one work item: gates, agent runs, durable      *)
(* intents and publication grants.                                         *)
(*   services/deliveryworkflow/workflow.go                                 *)
(*   controllers/delivery/{delivery,agent_runs,continuation,               *)
(*                         publication_grants,resources}.go                *)
(*   controllers/automation/{automation,delivery_callback_projection}.go   *)
(*                                                                         *)
(* People move the item through its gates and start agent runs; the        *)
(* dispatchers of the API replicas start the runs the durable intents ask  *)
(* for and apply their results.  A gate, an admission and a result each    *)
(* lock the item row; two handlers write the row back without having       *)
(* locked it.  Only the intents this code creates are modelled: the plan   *)
(* of a new item, and the publication a grant authorises.                  *)
(***************************************************************************)
EXTENDS Naturals, Sequences, FiniteSets

CONSTANTS
    PlanIntent,   \* the intent a new item is created with
    Grants,       \* publication grants, each with an intent of its own
    Manual,       \* calls of StartAgentRun, each used once
    Replicas,     \* API replicas: one dispatcher each
    Writers,      \* calls of CreatePlan, PromoteLatestAgentPlan and CreateChangeSet
    MaxAttempts,  \* refusals before an intent is blocked (3 in the code)
    MaxDiffs,     \* bound: verified implementations
    MaxPlans,     \* bound: versions of the plan
    Nothing

Intents == {PlanIntent} \cup Grants
Requests == Intents \cup Manual
Callers == Replicas \cup Manual

ASSUME WorkflowAssumption ==
    /\ PlanIntent \notin Grants /\ Intents \cap Manual = {} /\ Replicas \cap Manual = {}
    /\ Nothing \notin Requests
    /\ MaxAttempts \in Nat /\ MaxDiffs \in Nat /\ MaxPlans \in Nat

VARIABLES
    item,       \* the work item: state, epoch, and whether its autonomy is delegated
    plans,      \* plans[v]: status of version v
    artifacts,  \* phases with a completed task, and what people recorded
    run,        \* run[q]: phase, status and grant of the task a request admitted, and whether
                \* a callback in flight read its clock before the grant expired
    rows,       \* rows[q]: tasks stored for a request
    intent,     \* intent[i]: status, epoch, attempts, and whether it is available
    grant,      \* grant[g]: status and the reviewed diff it covers
    diffs,      \* trusted local worktrees recorded so far
    remote,     \* diffs published; previews[d] of them have a preview
    previews,
    caller,     \* caller[p]: a dispatcher or a StartAgentRun call in flight
    writer      \* writer[w]: a handler that read the row without locking it

workflowVars == <<item, plans, artifacts, run, rows, intent, grant, diffs, remote, previews, caller, writer>>

Idle == [at |-> "idle", req |-> Nothing, phase |-> "none", grant |-> Nothing,
         attempts |-> 0, late |-> FALSE, status |-> "none"]
NoRun == [phase |-> "none", status |-> "none", grant |-> Nothing, inTime |-> FALSE]

\* The states of an item that was just created, of one whose first implementation is under
\* review, and of one that passed QA after a grant of G published it; the replicas and
\* requests of A take part.
WorkflowInitWith(start, delegated, A, G) ==
    LET reviewed == start # "planning"
        ran == IF reviewed THEN {PlanIntent} \cup G ELSE {}
        diff == IF reviewed THEN 1 ELSE 0
    IN
    /\ item = [state |-> start, epoch |-> diff, delegated |-> delegated]
    /\ plans = IF reviewed THEN <<"approved">> ELSE <<>>
    /\ artifacts = (IF reviewed THEN {"plan", "implementation"} ELSE {})
                   \cup (IF G # {} THEN {"publish", "qa"} ELSE {})
    /\ run = [q \in Requests |->
          IF q \in ran THEN [phase |-> IF q \in Grants THEN "publish" ELSE "plan", status |-> "completed",
                            grant |-> IF q \in Grants THEN q ELSE Nothing, inTime |-> FALSE] ELSE NoRun]
    /\ rows = [q \in Requests |-> IF q \in ran THEN 1 ELSE 0]
    /\ intent = [i \in Intents |->
          [status |-> IF i \in ran THEN "done" ELSE IF i = PlanIntent THEN "pending" ELSE "none",
           epoch |-> IF i \in G THEN diff ELSE 0, attempts |-> 0, due |-> TRUE]]
    /\ grant = [g \in Grants |-> IF g \in G THEN [status |-> "consumed", diff |-> diff]
                                             ELSE [status |-> "none", diff |-> 0]]
    /\ diffs = diff
    /\ remote = (IF G # {} THEN {diff} ELSE {}) /\ previews = remote
    /\ caller = [p \in Callers |-> IF p \in A THEN Idle ELSE [Idle EXCEPT !.at = "ended"]]
    /\ writer = [w \in Writers |-> [kind |-> IF w \in A THEN "idle" ELSE "ended", row |-> item]]
WorkflowInit == \E start \in {"planning", "code_review"}, delegated \in BOOLEAN :
                   WorkflowInitWith(start, delegated, Callers \cup Writers, {})
---------------------------------------------------------------------------
(* Gates: deliveryworkflow.Advance and TransitionWorkItem. *)

Move(from, to) == [from |-> from, to |-> to]
Transitions ==
    [submit_plan          |-> Move("planning", "plan_review"),
     approve_plan         |-> Move("plan_review", "implementation"),
     request_plan_changes |-> Move("plan_review", "planning"),
     submit_code_review   |-> Move("implementation", "code_review"),
     approve_code_review  |-> Move("code_review", "preview_pending"),
     request_code_changes |-> Move("code_review", "implementation"),
     preview_ready        |-> Move("preview_pending", "qa_running"),
     submit_qa            |-> Move("qa_running", "qa_review"),
     approve_qa           |-> Move("qa_review", "release_review"),
     request_qa_changes   |-> Move("qa_review", "implementation"),
     approve_release      |-> Move("release_review", "released")]
Actions == DOMAIN Transitions \cup {"block", "cancel"}
Terminal == {"released", "assessed", "cancelled"}

Allowed(a) == IF a \in DOMAIN Transitions THEN item.state = Transitions[a].from
              ELSE item.state \notin Terminal
Target(a) == IF a \in DOMAIN Transitions THEN Transitions[a].to
             ELSE IF a = "block" THEN "blocked" ELSE "cancelled"

Versions(status) == {v \in DOMAIN plans : plans[v] = status}
Newest(V) == CHOOSE v \in V : \A u \in V : u <= v

\* requireCompletedAgentArtifact, requiresPlan and the checks of each action.  The release
\* takes the newest evaluation of the release gate and the prepared report as given.
Evidence(a) ==
    CASE a = "submit_plan" -> Versions("proposed") # {} /\ "plan" \in artifacts
      [] a \in {"approve_plan", "request_plan_changes"} -> Versions("proposed") # {}
      [] a = "submit_code_review" ->
            "implementation" \in artifacts /\ (diffs > 0 \/ "pull request" \in artifacts)
      [] a = "preview_ready" -> previews # {}
      [] a = "submit_qa" -> "qa" \in artifacts
      [] a = "approve_release" -> {"summary", "release_gate"} \subseteq artifacts
      [] OTHER -> TRUE

\* markPlan decides the newest proposed version.
Marked(status) == [plans EXCEPT ![Newest(Versions("proposed"))] = status]

\* publicationGrantsInvalidatedBy
Invalidates == {"preview_ready", "request_qa_changes", "approve_qa", "approve_release", "block", "cancel"}

TransitionWorkItem(a) ==
    /\ Allowed(a) /\ Evidence(a)
    /\ item' = [item EXCEPT !.state = Target(a)]
    /\ plans' = CASE a = "approve_plan" -> Marked("approved")
                  [] a = "request_plan_changes" -> Marked("changes_requested")
                  [] OTHER -> plans
    /\ grant' = [g \in Grants |-> IF a \in Invalidates /\ grant[g].status = "live"
                                  THEN [grant[g] EXCEPT !.status = "invalidated"] ELSE grant[g]]
    /\ UNCHANGED <<artifacts, run, rows, intent, diffs, remote, previews, caller, writer>>
---------------------------------------------------------------------------
(* Plans and change sets recorded by people: the row is read without a lock, checked,   *)
(* and every column written back.                                                       *)

\* CreatePlan and PromoteLatestAgentPlan while planning, CreateChangeSet later on.
KindIn(state) ==
    CASE state = "planning" -> "plan"
      [] state \in {"implementation", "code_review", "preview_pending", "qa_running",
                    "qa_review", "release_review"} -> "change set"
      [] OTHER -> "refused"

RecordReads(w) ==
    /\ writer[w].kind = "idle" /\ KindIn(item.state) # "refused"
    /\ writer' = [writer EXCEPT ![w] = [kind |-> KindIn(item.state), row |-> item]]
    /\ UNCHANGED <<item, plans, artifacts, run, rows, intent, grant, diffs, remote, previews, caller>>

RecordSaves(w) ==
    /\ item' = writer[w].row
    /\ \/ /\ writer[w].kind = "plan" /\ Len(plans) < MaxPlans
          /\ plans' = Append(plans, "proposed") /\ UNCHANGED artifacts
       \* a pull request whose CI passed can be submitted for review
       \/ /\ writer[w].kind = "change set"
          /\ artifacts' \in {artifacts, artifacts \cup {"pull request"}} /\ UNCHANGED plans
    /\ writer' = [writer EXCEPT ![w].kind = "ended"]
    /\ UNCHANGED <<run, rows, intent, grant, diffs, remote, previews, caller>>
---------------------------------------------------------------------------
(* Admission of a run: enqueueAgentRun, by StartAgentRun or by a dispatcher. *)

PhaseState == [plan |-> "planning", implementation |-> "implementation", publish |-> "code_review",
               qa |-> "qa_running", release_gate |-> "release_review", summary |-> "release_review"]

ActiveRun == {"queued", "running", "cancel_requested"}
Active(phase) == {q \in Requests : run[q].phase = phase /\ run[q].status \in ActiveRun}

Reach(p, place) == caller' = [caller EXCEPT ![p].at = place]

StartAgentRun(p) ==
    /\ p \in Manual /\ caller[p].at = "idle"
    /\ \E phase \in DOMAIN PhaseState, g \in Grants \cup {Nothing} :
          /\ (phase = "publish") <=> (g # Nothing)
          /\ caller' = [caller EXCEPT ![p] = [Idle EXCEPT !.at = "check", !.req = p, !.phase = phase, !.grant = g]]
    /\ UNCHANGED <<item, plans, artifacts, run, rows, intent, grant, diffs, remote, previews, writer>>

\* A dispatcher serves the epoch of its intent.
InEpoch(p) == p \in Replicas => item.epoch = intent[caller[p].req].epoch
InPhase(p) == InEpoch(p) /\ item.state = PhaseState[caller[p].phase]

\* The first transaction decides, the private input is uploaded ...
AdmitCheck(p) ==
    /\ caller[p].at = "check"
    /\ Reach(p, IF /\ InPhase(p) /\ Active(caller[p].phase) = {}
                   /\ caller[p].phase # "plan" => Versions("approved") # {}
                   /\ caller[p].phase = "publish" => grant[caller[p].grant].status = "live"
                THEN "create" ELSE "refused")
    /\ UNCHANGED <<item, plans, artifacts, run, rows, intent, grant, diffs, remote, previews, writer>>

\* The second one asks again whether another run of the phase is active.
StillAlone(p) == Active(caller[p].phase) = {}

\* Fault: tasks have no unique index on continuation_id.
AnyTask(p) == TRUE
\* The index refuses a second task of an intent.
TaskUnique(p) == p \in Replicas => rows[caller[p].req] = 0

\* ... and the second transaction stores the task.
AdmitCreate(p) ==
    LET q == caller[p].req
        stored == InPhase(p) /\ StillAlone(p) /\ TaskUnique(p)
    IN /\ caller[p].at = "create"
       /\ Reach(p, IF stored THEN "admitted" ELSE "unavailable")
       /\ run' = IF stored THEN [run EXCEPT ![q] = [phase |-> caller[p].phase, status |-> "queued",
                                                    grant |-> caller[p].grant, inTime |-> FALSE]] ELSE run
       /\ rows' = IF stored THEN [rows EXCEPT ![q] = @ + 1] ELSE rows
       /\ UNCHANGED <<item, plans, artifacts, intent, grant, diffs, remote, previews, writer>>

\* Storage or the queue is unavailable; the budget does not admit the run.
AdmitError(p) ==
    /\ \/ caller[p].at \in {"check", "create"} /\ Reach(p, "unavailable")
       \/ caller[p].at = "create" /\ Reach(p, "no budget")
    /\ UNCHANGED <<item, plans, artifacts, run, rows, intent, grant, diffs, remote, previews, writer>>
---------------------------------------------------------------------------
(* Dispatchers: dispatchContinuation. *)

OpenIntent == {"pending", "claimed", "dispatched"}

\* Stale intents are superseded and an available one is claimed for two minutes.
ClaimIntent(d, i) ==
    LET stale == {j \in Intents : intent[j].status \in OpenIntent /\ intent[j].epoch # item.epoch} IN
    /\ caller[d].at = "idle"
    /\ intent[i].status \in OpenIntent /\ intent[i].due /\ i \notin stale
    /\ intent' = [j \in Intents |-> IF j \in stale THEN [intent[j] EXCEPT !.status = "superseded"]
                                    ELSE IF j = i THEN [intent[j] EXCEPT !.status = "claimed", !.due = FALSE]
                                    ELSE intent[j]]
    /\ caller' = [caller EXCEPT ![d] = [Idle EXCEPT !.at = "inspect", !.req = i, !.attempts = intent[i].attempts,
                       !.phase = IF i = PlanIntent THEN "plan" ELSE "publish",
                       !.grant = IF i = PlanIntent THEN Nothing ELSE i]]
    /\ UNCHANGED <<item, plans, artifacts, run, rows, grant, diffs, remote, previews, writer>>

Asks(d, place, status) == [caller EXCEPT ![d].at = place, ![d].status = status]

\* The task of the intent decides what comes next.
Inspect(d) ==
    LET i == caller[d].req IN
    /\ caller[d].at = "inspect" /\ ~caller[d].late
    /\ IF item.epoch # intent[i].epoch
       THEN /\ intent' = [intent EXCEPT ![i].status = "superseded"]
            /\ caller' = [caller EXCEPT ![d] = Idle]
       ELSE /\ caller' = CASE rows[i] = 0 -> IF Active(caller[d].phase) = {} THEN Asks(d, "check", "none")
                                             ELSE Asks(d, "save", "pending")
                           [] rows[i] > 0 /\ run[i].status \in ActiveRun -> Asks(d, "save", "dispatched")
                           [] rows[i] > 0 /\ run[i].status = "completed" -> Asks(d, "complete", "none")
                           [] OTHER -> Asks(d, "finish", "none")
            /\ UNCHANGED intent
    /\ UNCHANGED <<item, plans, artifacts, run, rows, grant, diffs, remote, previews, writer>>

\* What the answer of the admission makes of the intent; a refusal counts, an outage is
\* retried for a day.
Answered(d) ==
    LET spent == caller[d].attempts + 1 IN
    /\ d \in Replicas /\ ~caller[d].late
    /\ \/ caller[d].at = "admitted" /\ caller' = Asks(d, "save", "dispatched")
       \/ caller[d].at = "unavailable" /\ caller' \in {Asks(d, "save", "pending"), Asks(d, "finish", "none")}
       \/ caller[d].at = "no budget" /\ caller' = Asks(d, "finish", "none")
       \/ caller[d].at = "refused"
          /\ caller' = [Asks(d, "save", IF spent >= MaxAttempts THEN "blocked" ELSE "pending")
                           EXCEPT ![d].attempts = spent]
    /\ UNCHANGED <<item, plans, artifacts, run, rows, intent, grant, diffs, remote, previews, writer>>

\* Every write of the status leaves a superseded intent alone.
SaveIntent(d) ==
    LET i == caller[d].req IN
    /\ caller[d].at = "save" /\ ~caller[d].late
    /\ intent' = IF intent[i].status = "superseded" THEN intent
                 ELSE [intent EXCEPT ![i].status = caller[d].status, ![i].attempts = caller[d].attempts,
                                     ![i].due = FALSE]
    /\ caller' = IF caller[d].status = "blocked" THEN Asks(d, "finish", "none") ELSE [caller EXCEPT ![d] = Idle]
    /\ UNCHANGED <<item, plans, artifacts, run, rows, grant, diffs, remote, previews, writer>>

Settled(i) == intent[i].status \in {"superseded", "done"} \/ item.epoch # intent[i].epoch

\* finishContinuation
Finish(d) ==
    LET i == caller[d].req IN
    /\ caller[d].at = "finish" /\ ~caller[d].late
    /\ intent' = IF Settled(i) THEN intent ELSE [intent EXCEPT ![i].status = "blocked"]
    /\ caller' = [caller EXCEPT ![d] = Idle]
    /\ UNCHANGED <<item, plans, artifacts, run, rows, grant, diffs, remote, previews, writer>>

\* completeContinuation: a plan is proposed and submitted, which opens the next epoch; a
\* publication needs nothing more.
CompleteIntent(d) ==
    LET i == caller[d].req IN
    /\ caller[d].at = "complete" /\ ~caller[d].late
    /\ \/ /\ Settled(i)
          /\ intent' = IF item.epoch # intent[i].epoch THEN [intent EXCEPT ![i].status = "superseded"] ELSE intent
          /\ caller' = [caller EXCEPT ![d] = Idle]
          /\ UNCHANGED <<item, plans>>
       \/ /\ ~Settled(i) /\ caller[d].phase = "plan" /\ item.state = "planning" /\ Len(plans) < MaxPlans
          /\ plans' = Append(plans, "proposed")
          /\ item' = [item EXCEPT !.state = "plan_review", !.epoch = @ + 1]
          /\ intent' = [intent EXCEPT ![i].status = "done"]
          /\ caller' = [caller EXCEPT ![d] = Idle]
       \/ /\ ~Settled(i) /\ caller[d].phase = "publish"
          /\ intent' = [intent EXCEPT ![i].status = "done"]
          /\ caller' = [caller EXCEPT ![d] = Idle]
          /\ UNCHANGED <<item, plans>>
       \* the result breaks its contract, or the item moved on
       \/ /\ ~Settled(i) /\ caller[d].phase = "plan"
          /\ caller' = IF caller[d].attempts + 1 >= MaxAttempts THEN Asks(d, "finish", "none")
                       ELSE [Asks(d, "save", "dispatched") EXCEPT ![d].attempts = @ + 1]
          /\ UNCHANGED <<item, plans, intent>>
    /\ UNCHANGED <<artifacts, run, rows, grant, diffs, remote, previews, writer>>

\* Time makes an intent available again: to everyone two minutes after its claim, when
\* the context of its dispatcher has ended and only an admission can still commit.
Due(i) ==
    /\ intent[i].status \in OpenIntent /\ ~intent[i].due
    /\ intent' = [intent EXCEPT ![i].due = TRUE]
    /\ caller' = [p \in Callers |-> IF p \in Replicas /\ caller[p].req = i
                                    THEN [caller[p] EXCEPT !.late = TRUE] ELSE caller[p]]
    /\ UNCHANGED <<item, plans, artifacts, run, rows, grant, diffs, remote, previews, writer>>

\* A dispatcher gives up: its context ended, an error, a crash.  A call is answered.
Leaves(p) ==
    /\ caller[p].at \notin {"idle", "ended"}
    /\ caller' = [caller EXCEPT ![p] = IF p \in Replicas THEN Idle ELSE [Idle EXCEPT !.at = "ended"]]
    /\ UNCHANGED <<item, plans, artifacts, run, rows, intent, grant, diffs, remote, previews, writer>>
---------------------------------------------------------------------------
(* Publication grants. *)

\* CreatePublicationGrant: one live grant, for a worktree whose review is pending.
CreateGrant(g, diff) ==
    /\ grant[g].status = "none" /\ item.state = "code_review" /\ diff \in 1..diffs
    /\ \A h \in Grants : grant[h].status # "live"
    /\ grant' = [grant EXCEPT ![g] = [status |-> "live", diff |-> diff]]
    /\ intent' = [intent EXCEPT ![g].status = "pending", ![g].epoch = item.epoch]
    /\ UNCHANGED <<item, plans, artifacts, run, rows, diffs, remote, previews, caller, writer>>

\* RevokePublicationGrant supersedes the intents of the grant and stops their tasks.
RevokeGrant(g) ==
    /\ grant[g].status \in {"live", "expired"}
    /\ grant' = [grant EXCEPT ![g].status = "revoked"]
    /\ intent' = [intent EXCEPT ![g].status = IF @ \in OpenIntent THEN "superseded" ELSE @]
    /\ run' = [run EXCEPT ![g].status = IF @ = "queued" THEN "cancelled"
                                        ELSE IF @ = "running" THEN "cancel_requested" ELSE @]
    /\ UNCHANGED <<item, plans, artifacts, rows, diffs, remote, previews, caller, writer>>

GrantExpires(g) ==
    /\ grant[g].status = "live"
    /\ grant' = [grant EXCEPT ![g].status = "expired"]
    /\ UNCHANGED <<item, plans, artifacts, run, rows, intent, diffs, remote, previews, caller, writer>>
---------------------------------------------------------------------------
(* Workers and their signed callbacks. *)

RunClaimed(q) ==
    /\ run[q].status = "queued" /\ run[q].phase # "implementation"
    /\ run' = [run EXCEPT ![q].status = "running"]
    /\ UNCHANGED <<item, plans, artifacts, rows, intent, grant, diffs, remote, previews, caller, writer>>

\* advanceDelegatedDeliverySubmission
Advanced(phase) ==
    IF ~item.delegated THEN item
    ELSE CASE phase = "implementation" /\ item.state = "implementation" -> [item EXCEPT !.state = "code_review"]
           [] phase = "qa" /\ item.state = "qa_running" -> [item EXCEPT !.state = "qa_review"]
           [] OTHER -> item

\* A child of a plan execution completes before its siblings: its task has the operation
\* of its parent, and the parent stays queued.
ChildCompletes(q) ==
    /\ run[q].phase = "implementation" /\ run[q].status = "queued"
    /\ artifacts' = artifacts \cup {"implementation"}
    /\ item' = Advanced("implementation")
    /\ UNCHANGED <<plans, run, rows, intent, grant, diffs, remote, previews, caller, writer>>

\* Fault: the grant is not asked for again.
GrantUnchecked(q) == item.state \in {"code_review", "preview_pending"}

\* persistPublicationChangeSet locks the item and the grant and holds the result against
\* the window, a revocation, and an expiry before the time its callback had read.
MayPublish(q) ==
    /\ item.state \in {"code_review", "preview_pending"}
    /\ grant[run[q].grant].status \in {"live", "expired"} /\ run[q].inTime

\* A callback of a publication reads its clock (completedAt), then waits for the locks.
\* What it reads once its grant is gone is of no use to it.
CallbackReads(q) ==
    /\ run[q].phase = "publish" /\ run[q].status = "running" /\ ~run[q].inTime
    /\ grant[run[q].grant].status = "live"
    /\ run' = [run EXCEPT ![q].inTime = TRUE]
    /\ UNCHANGED <<item, plans, artifacts, rows, intent, grant, diffs, remote, previews, caller, writer>>

\* The worker of a run reports; a stopped run ends as cancelled.
RunCompletes(q) ==
    LET phase == run[q].phase
        g == run[q].grant
        first == phase = "publish" /\ grant[g].diff \notin remote
    IN /\ run[q].status = (IF phase = "implementation" THEN "queued" ELSE "running")
       /\ phase = "publish" => MayPublish(q)
       /\ phase = "implementation" => diffs < MaxDiffs
       /\ run' = [run EXCEPT ![q].status = "completed"]
       /\ artifacts' = artifacts \cup {phase}
       /\ diffs' = IF phase = "implementation" THEN diffs + 1 ELSE diffs
       /\ remote' = IF first THEN remote \cup {grant[g].diff} ELSE remote
       /\ grant' = IF first THEN [grant EXCEPT ![g].status = "consumed"] ELSE grant
       /\ item' = Advanced(phase)
       /\ UNCHANGED <<plans, rows, intent, previews, caller, writer>>
RunEnds(q) ==
    /\ run[q].status \in {"running", "cancel_requested"}
    /\ run' = [run EXCEPT ![q].status = IF @ = "running" THEN "failed" ELSE "cancelled"]
    /\ UNCHANGED <<item, plans, artifacts, rows, intent, grant, diffs, remote, previews, caller, writer>>

\* Cancel of a task, by a person.
CancelRun(q) ==
    /\ run[q].status \in {"queued", "running"}
    /\ run' = [run EXCEPT ![q].status = IF @ = "queued" THEN "cancelled" ELSE "cancel_requested"]
    /\ UNCHANGED <<item, plans, artifacts, rows, intent, grant, diffs, remote, previews, caller, writer>>

\* CI (external) records a preview of a published change.
PreviewRecorded(diff) ==
    /\ diff \in remote \ previews /\ previews' = previews \cup {diff}
    /\ UNCHANGED <<item, plans, artifacts, run, rows, intent, grant, diffs, remote, caller, writer>>

WorkflowNext ==
    \/ \E a \in Actions : TransitionWorkItem(a)
    \/ \E w \in Writers : RecordReads(w) \/ RecordSaves(w)
    \/ \E p \in Callers : StartAgentRun(p) \/ AdmitCheck(p) \/ AdmitCreate(p) \/ AdmitError(p) \/ Leaves(p)
    \/ \E d \in Replicas :
          \/ Inspect(d) \/ Answered(d) \/ SaveIntent(d) \/ Finish(d) \/ CompleteIntent(d)
          \/ \E i \in Intents : ClaimIntent(d, i)
    \/ \E i \in Intents : Due(i)
    \/ \E g \in Grants : RevokeGrant(g) \/ GrantExpires(g) \/ \E diff \in 1..MaxDiffs : CreateGrant(g, diff)
    \/ \E q \in Requests :
          \/ RunClaimed(q) \/ ChildCompletes(q) \/ CallbackReads(q) \/ RunCompletes(q)
          \/ RunEnds(q) \/ CancelRun(q)
    \/ \E diff \in 1..MaxDiffs : PreviewRecorded(diff)

WorkflowSpec == WorkflowInit /\ [][WorkflowNext]_workflowVars
---------------------------------------------------------------------------
(* Properties. *)

\* However late an admission commits, and however long the private input takes to upload
\* between its two transactions, an intent is carried out by one task, and a phase has at
\* most one active run: a replica that lost its claim, or a person who asked meanwhile,
\* cannot start it again (enqueueAgentRun, AutomationTask.ContinuationID).
OneRun ==
    /\ \A i \in Intents : rows[i] <= 1
    /\ \A phase \in DOMAIN PhaseState : Cardinality(Active(phase)) <= 1

\* Authority that was withdrawn stays withdrawn: a result that arrives after its grant was
\* revoked or invalidated publishes nothing, and an expired grant never comes back.  It is
\* consumed only by a callback that read its clock while the grant was live and got the
\* locks after it expired (persistPublicationChangeSet, Complete).
WithdrawnStays ==
    [][/\ \A g \in Grants :
             /\ grant[g].status \in {"revoked", "invalidated"} => grant'[g].status \notin {"live", "consumed"}
             /\ grant[g].status = "expired" =>
                   /\ grant'[g].status # "live"
                   /\ grant'[g].status = "consumed" => \E q \in Requests : run[q].grant = g /\ run[q].inTime
       /\ \A q \in Requests : run'[q].inTime /\ ~run[q].inTime => grant[run'[q].grant].status = "live"
      ]_workflowVars
=============================================================================
