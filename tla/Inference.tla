----------------------------- MODULE Inference -----------------------------
(***************************************************************************)
(* Paid model calls and the budget that admits them.                       *)
(*   controllers/delivery/{project_budget,work_item_budget,agent_runs}.go  *)
(*   controllers/automation/{inference_gateway,inference_receipts,         *)
(*   inference_attempt_policy,automation}.go, services/automationcost      *)
(*                                                                         *)
(* A run of a work item is admitted while what the project has spent, what *)
(* live holds may still spend and the new hold fit the budget.  A worker   *)
(* leases the task, which renews the hold, and asks the gateway for calls: *)
(* each call first takes a durable receipt, then tries the frozen routes   *)
(* in turn.  The callback that ends the task moves the receipts it names   *)
(* into the cost ledger.  Amounts are counted in units: one call costs at  *)
(* most one (EstimateUpperBound), and a hold covers the calls of a run.    *)
(***************************************************************************)
EXTENDS Naturals, FiniteSets

CONSTANTS
    Jobs,       \* tasks that may be created, all of one project
    ItemOf,     \* ItemOf[t]: the work item of a task
    RunsOf,     \* RunsOf[t]: run ids of the workers its message reaches
    CallsOf,    \* CallsOf[r]: call ids the worker of a run generates
    Quota,      \* Quota[t]: inferenceAttemptCallQuota of its operation
    Routes,     \* length of the frozen route chain
    Budget,     \* monthly budget of the project
    ItemBudget, \* ItemBudget[i]: budget of a work item, 0 when there is none
    RunLease,   \* automationRunLeaseDuration; a hold lasts twice as long
    NoHolder

Sites == UNION {UNION {{t} \X {r} \X CallsOf[r] : r \in RunsOf[t]} : t \in Jobs}

ASSUME InferenceAssumption ==
    /\ IsFiniteSet(Jobs) /\ IsFiniteSet(Sites)
    /\ \A t \in Jobs : Quota[t] \in Nat
    /\ Routes \in Nat \ {0} /\ RunLease \in Nat \ {0}
    /\ Budget \in Nat /\ \A t \in Jobs : ItemBudget[ItemOf[t]] \in Nat /\ NoHolder \notin RunsOf[t]

VARIABLES
    job,       \* job[t]: status, run, lease and hold of the automation_tasks row
    receipt,   \* receipt[s]: state of the receipt of a task, run and call
    gateway,   \* gateway[s]: the route the gateway is trying, 0 when it is not serving
    tried,     \* tried[s]: requests sent to providers for a call
    ledger,    \* cost rows: automation_executions and automation_tool_executions
    cancel,    \* cancel[t]: what Cancel decided on the row it read
    lapsed     \* history: tasks whose hold ran out while they were active

inferenceVars == <<job, receipt, gateway, tried, ledger, cancel, lapsed>>

SitesOf(t, r) == {s \in Sites : s[1] = t /\ s[2] = r}
ActiveJob == {"queued", "running", "cancel_requested"}
Unleased == [status |-> "none", run |-> NoHolder, lease |-> 0, hold |-> 0, left |-> 0]

\* The tasks of T may be asked for; the others never are.
InferenceInitWith(T) ==
    /\ job = [t \in Jobs |-> [Unleased EXCEPT !.status = IF t \in T THEN "none" ELSE "never"]]
    /\ receipt = [s \in Sites |-> "none"]
    /\ gateway = [s \in Sites |-> 0] /\ tried = [s \in Sites |-> 0]
    /\ ledger = {}
    /\ cancel = [t \in Jobs |-> "none"]
    /\ lapsed = {}
InferenceInit == InferenceInitWith(Jobs)
---------------------------------------------------------------------------
(* Admission: enqueueAgentRun, serialised on the rows of the work item and project. *)

\* projectMonthlySpend and workItemSpend: every ledger row of the tasks.
Spent(T) == Cardinality({row \in ledger : row.site[1] \in T})

\* projectMonthlyReservations and workItemReservations: an expired hold counts nothing.
Holding(t) == job[t].status \in ActiveJob /\ job[t].left > 0
HeldUnits(T) == UNION {{t} \X (1 .. job[t].hold) : t \in {u \in T : Holding(u)}}
Held(T) == Cardinality(HeldUnits(T))

\* budgetAdmissionAllowed
Fits(T, budget, amount) == budget > 0 => Spent(T) + Held(T) + amount <= budget

SameItem(t) == {u \in Jobs : ItemOf[u] = ItemOf[t]}

\* Fault: the budgets look at what was spent and not at what is held.
AdmittedOnSpend(t) ==
    /\ Budget > 0 => Spent(Jobs) + Quota[t] <= Budget
    /\ ItemBudget[ItemOf[t]] > 0 => Spent(SameItem(t)) + Quota[t] <= ItemBudget[ItemOf[t]]

\* The hold of a run covers every call it may make.
Admitted(t) ==
    /\ Fits(SameItem(t), ItemBudget[ItemOf[t]], Quota[t])
    /\ Fits(Jobs, Budget, Quota[t])

\* One active run of an operation and work item; the first transaction of the
\* handler asks the same and is asked again here.
Admit(t) ==
    /\ job[t].status = "none"
    /\ \A u \in SameItem(t) : job[u].status \notin ActiveJob
    /\ Admitted(t)
    /\ job' = [job EXCEPT ![t] = [Unleased EXCEPT !.status = "queued", !.hold = Quota[t], !.left = 2 * RunLease]]
    /\ UNCHANGED <<receipt, gateway, tried, ledger, cancel, lapsed>>
---------------------------------------------------------------------------
(* The lease: claimAutomationTaskRun and Cancel. *)

\* A queued task, one's own run, or a run whose lease is over.  The hold is renewed with
\* the lease, whether or not it has run out.
Claim(t, r) ==
    /\ \/ job[t].status = "queued"
       \/ job[t].status = "running" /\ (job[t].run = r \/ job[t].lease = 0)
    /\ job' = [job EXCEPT ![t].status = "running", ![t].run = r,
                          ![t].lease = RunLease, ![t].left = 2 * RunLease]
    /\ UNCHANGED <<receipt, gateway, tried, ledger, cancel, lapsed>>

\* automationCancellationTransition on the row read without a lock ...
Decide(t) ==
    /\ job[t].status \in {"queued", "running"} /\ cancel[t] = "none"
    /\ cancel' = [cancel EXCEPT ![t] = IF job[t].status = "queued" THEN "settle queued"
                                       ELSE IF job[t].lease = 0 THEN "settle running" ELSE "request"]
    /\ UNCHANGED <<job, receipt, gateway, tried, ledger, lapsed>>

\* ... and the update, which asks that the status is still the one it read.
ApplyCancel(t) ==
    /\ cancel[t] # "none"
    /\ cancel' = [cancel EXCEPT ![t] = "none"]
    /\ job' = [job EXCEPT ![t] =
          CASE cancel[t] = "request" /\ job[t].status = "running" -> [@ EXCEPT !.status = "cancel_requested"]
            [] \/ cancel[t] = "settle queued" /\ job[t].status = "queued"
               \/ cancel[t] = "settle running" /\ job[t].status = "running" ->
                  [@ EXCEPT !.status = "cancelled", !.lease = 0, !.hold = 0, !.left = 0]
            [] OTHER -> @]
    /\ UNCHANGED <<receipt, gateway, tried, ledger, lapsed>>
---------------------------------------------------------------------------
(* The gateway: Infer. *)

\* The receipts a run has taken, whatever became of the calls.
Taken(t, r) == {s \in SitesOf(t, r) : receipt[s] # "none"}

\* Fault: a call id whose outcome is unknown may be used again.
ReusableSite(s) == receipt[s] \in {"none", "ambiguous"}
FreshSite(s) == receipt[s] = "none"

\* gatewayInferenceScopeForRequest and reserveAutomationInferenceReceipt, under the row
\* lock of the task: a live lease of this run, a new call id, a slot of the quota.
ReserveReceipt(s) ==
    LET t == s[1] IN
    /\ job[t].status = "running" /\ job[t].run = s[2] /\ job[t].lease > 0
    /\ FreshSite(s)
    /\ Cardinality(Taken(t, s[2])) < Quota[t]
    /\ receipt' = [receipt EXCEPT ![s] = "reserved"]
    /\ gateway' = [gateway EXCEPT ![s] = 1]
    /\ UNCHANGED <<job, tried, ledger, cancel, lapsed>>

\* completeWithFallback sends the request along the next route; a 408, 429 or 5xx goes on
\* to the one after it, anything else is the outcome of the call.
TryRoute(s) ==
    /\ gateway[s] \in 1 .. Routes
    /\ tried' = [tried EXCEPT ![s] = @ + 1]
    /\ \/ /\ gateway[s] < Routes
          /\ gateway' = [gateway EXCEPT ![s] = @ + 1] /\ UNCHANGED receipt
       \/ /\ gateway' = [gateway EXCEPT ![s] = 0]
          \* acceptInferenceReceipt with the usage, or markInferenceReceiptAmbiguous
          /\ \E outcome \in {"accepted", "rejected", "ambiguous"} :
                receipt' = [receipt EXCEPT ![s] = outcome]
    /\ UNCHANGED <<job, ledger, cancel, lapsed>>

\* The credential is missing, or the gateway dies: the provider is not asked again.
GatewayStops(s) ==
    /\ gateway[s] # 0
    /\ gateway' = [gateway EXCEPT ![s] = 0]
    /\ \E outcome \in {"reserved", "ambiguous"} : receipt' = [receipt EXCEPT ![s] = outcome]
    /\ UNCHANGED <<job, tried, ledger, cancel, lapsed>>
---------------------------------------------------------------------------
(* The callback that ends a task: Complete. *)

\* resolveAutomationInferenceReceipt: an answer, paid, of this task and run.
Payable(s) == receipt[s] \in {"accepted", "rejected"}

\* Fault: the tool calls of a callback may name its primary receipt again.
ToolsOrPrimary(t, r, primary) == {T \in SUBSET SitesOf(t, r) : \A s \in T : Payable(s)}

\* buildVerifiedToolExecutionLedger: distinct receipts, none of them the primary one.
ToolCalls(t, r, primary) ==
    {T \in SUBSET (SitesOf(t, r) \ primary) : \A s \in T : Payable(s)}

\* inferenceReceiptStatusAllowsCallback
Primaries(t, r, outcome) ==
    {{s} : s \in {x \in SitesOf(t, r) :
                     receipt[x] \in {"accepted"} \cup (IF outcome = "failed" THEN {"rejected"} ELSE {})}}
    \cup (IF outcome = "failed" THEN {{}} ELSE {})

Rows(primary, tools) ==
    {[kind |-> "agent", site |-> s] : s \in primary} \cup {[kind |-> "tool", site |-> s] : s \in tools}

\* The row is read and checked, and its status and run are compared again when the
\* transaction writes it: a change in between loses the callback, so it is one step.
\* A recovery names the run whose stored result it delivers (billed).  A lapsed hold is
\* refused, for the worker to claim again first; a cancelled run still records its cost.
Complete(t) ==
    /\ job[t].status \in {"running", "cancel_requested"}
    /\ job[t].status = "running" => job[t].left > 0
    /\ \E billed \in RunsOf[t], outcome \in {"completed", "failed"} :
       \E primary \in Primaries(t, billed, outcome) :
       \E tools \in ToolCalls(t, billed, primary) :
          /\ Cardinality(primary) + Cardinality(tools) <= Quota[t]
          /\ ledger' = ledger \cup Rows(primary, tools)
          /\ job' = [job EXCEPT ![t].status = IF @ = "cancel_requested" THEN "cancelled" ELSE outcome]
    /\ UNCHANGED <<receipt, gateway, tried, cancel, lapsed>>
---------------------------------------------------------------------------
Less(n) == IF n = 0 THEN 0 ELSE n - 1

\* Time: leases and holds run down.
InferenceTick ==
    /\ \E t \in Jobs : Holding(t)
    /\ job' = [t \in Jobs |-> [job[t] EXCEPT !.lease = Less(@), !.left = Less(@)]]
    /\ lapsed' = lapsed \cup {t \in Jobs : Holding(t) /\ job[t].left = 1}
    /\ UNCHANGED <<receipt, gateway, tried, ledger, cancel>>

InferenceNext ==
    \/ \E t \in Jobs :
          \/ Admit(t) \/ Decide(t) \/ ApplyCancel(t)
          \/ Complete(t)
          \/ \E r \in RunsOf[t] : Claim(t, r)
    \/ \E s \in Sites : ReserveReceipt(s) \/ TryRoute(s) \/ GatewayStops(s)
    \/ InferenceTick

InferenceSpec == InferenceInit /\ [][InferenceNext]_inferenceVars
---------------------------------------------------------------------------
(* Properties. *)

\* A paid call is made once: however a call ends, the provider is asked at most once per
\* route for it, and a run asks for no more calls than its frozen quota, crashes and
\* unknown outcomes included (reserveAutomationInferenceReceipt).
PaidOnce ==
    /\ \A s \in Sites : tried[s] <= Routes
    /\ \A t \in Jobs : \A r \in RunsOf[t] : Cardinality({s \in SitesOf(t, r) : tried[s] > 0}) <= Quota[t]

\* While no hold runs out under an active task, what the ledger shows and what live holds
\* may still add stay within the project's and the items' budgets, whatever runs are
\* admitted, taken over, cancelled and completed side by side (enqueueAgentRun, Complete).
WithinBudget ==
    lapsed = {} =>
        /\ Budget > 0 => Spent(Jobs) + Held(Jobs) <= Budget
        /\ \A t \in Jobs : ItemBudget[ItemOf[t]] > 0 =>
              Spent(SameItem(t)) + Held(SameItem(t)) <= ItemBudget[ItemOf[t]]

\* The ledger only ever grows by the callback that ends its task, and no receipt is
\* charged twice, neither by a recovery of a stored result nor as a tool call of it (Complete).
ChargedOnce ==
    [][/\ ledger \subseteq ledger'
       /\ \A row \in ledger' \ ledger :
             /\ job[row.site[1]].status \in {"running", "cancel_requested"}
             /\ job'[row.site[1]].status \notin ActiveJob
             /\ Cardinality({other \in ledger' : other.site = row.site}) = 1]_inferenceVars
=============================================================================
