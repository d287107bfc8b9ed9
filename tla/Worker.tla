------------------------------- MODULE Worker -------------------------------
(* The agent workers (internal/automationagent) over the queue message of one     *)
(* task: Worker.Process claims the task, recovers what an earlier run left in     *)
(* private storage, asks a model or publishes a reviewed branch, stores the       *)
(* result, reports it, and has the message deleted when Process returned no error.*)
(*                                                                                *)
(* The queue may deliver the message to another worker at any time: visibility is *)
(* extended by a heartbeat whose failure is only logged.  Each delivery is a run  *)
(* with an id of its own.                                                         *)
EXTENDS Integers, FiniteSets

CONSTANTS
    Tries,      \* deliveries of the message, named by the runs they become
    TryLease,   \* automationRunLeaseDuration, in ticks
    NoTry

ASSUME WorkerAssumption == TryLease \in Nat \ {0} /\ NoTry \notin Tries

VARIABLES
    work,       \* "infer": one call of a model; "publish": a branch and its pull request
    ticket,     \* the task's row: status, run_id and the rest of its lease
    message,    \* the message is in the queue, and the run that deleted it
    at,         \* where each run is in Process
    outcome,    \* what each run has to store and report
    vault,      \* private storage: the provider intent and the latest result of the task
    github,     \* what GitHub has of the publication
    called,     \* history: runs whose call reached the provider
    regained,   \* history: runs that took the task back from a run that had taken it over
    overtaken,  \* history: runs another run took the task from
    lateEffects \* history: remote effects of each run after the task had stopped running

workerVars == <<work, ticket, message, at, outcome, vault, github, called, regained, overtaken, lateEffects>>

WorkerInitWith(w, R) ==
    /\ work = w
    /\ ticket = [status |-> "queued", run |-> NoTry, left |-> 0]
    /\ message = [queued |-> TRUE, by |-> NoTry]
    /\ at = [r \in R |-> "idle"]
    /\ outcome = [r \in R |-> "none"]
    /\ vault = [intent |-> FALSE, latest |-> "none"]
    /\ github = {}
    /\ called = {} /\ regained = {} /\ overtaken = {}
    /\ lateEffects = [r \in R |-> 0]

WorkerInit == \E w \in {"infer", "publish"} : WorkerInitWith(w, Tries)

Deliveries == DOMAIN at
Goes(r, stage) == at' = [at EXCEPT ![r] = stage]

\* The run has an outcome to report; a result that is worth keeping is stored first.
Tells(r, what, stage) == outcome' = [outcome EXCEPT ![r] = what] /\ Goes(r, stage)

history == <<called, regained, overtaken, lateEffects>>
---------------------------------------------------------------------------
(* The callback "running" (claimAutomationTaskRun), which claims and renews alike. *)

Leasable(r) ==
    \/ ticket.status = "queued"
    \/ ticket.status = "running" /\ (ticket.run = r \/ ticket.left = 0)

\* Mutant: the busy header is not set.
NeverBusy(r) == FALSE

Busy(r) == ticket.status = "running" /\ ticket.run # r /\ ticket.left > 0

Leased(r) ==
    /\ Leasable(r)
    /\ ticket' = [status |-> "running", run |-> r, left |-> TryLease]
    /\ overtaken' = (overtaken \cup {ticket.run}) \ {r, NoTry}
    /\ regained' = IF r \in overtaken THEN regained \cup {r} ELSE regained

NotLeased == UNCHANGED <<ticket, overtaken, regained>>

\* HTTPCallback.Update: granted; an error, when the request or its answer is lost or
\* another run's lease is live; refused, when the task no longer runs.
Renew(r, granted, error, refused) ==
    /\ \/ Leased(r) /\ (granted \/ error)
       \/ NotLeased /\ error
       \/ ~Leasable(r) /\ ~Busy(r) /\ NotLeased /\ refused
    /\ UNCHANGED <<called, lateEffects>>

Proceeds(r, stage) == Goes(r, stage) /\ UNCHANGED outcome

\* Process returned an error: the message stays in the queue; or none, and it is deleted.
Retained(r) == Proceeds(r, "gone")
Acked(r) == Proceeds(r, "ack")
---------------------------------------------------------------------------
(* Process up to the operation. *)

Receive(r) ==
    /\ message.queued /\ at[r] = "idle"
    /\ Goes(r, "claim")
    /\ UNCHANGED <<work, ticket, message, outcome, vault, github, history>>

ClaimTask(r) ==
    /\ at[r] = "claim"
    /\ Renew(r, Proceeds(r, "recover"), Retained(r), Acked(r))
    /\ UNCHANGED <<work, message, vault, github>>

\* completeFromExistingResult: the latest result is reported as it was stored.
ReadResult(r) ==
    /\ at[r] = "recover"
    /\ IF vault.latest = "none" THEN Proceeds(r, "intent?")
                                ELSE Tells(r, vault.latest, "report")
    /\ UNCHANGED <<work, ticket, message, vault, github, history>>

\* Mutant: only a stored result is looked for.
ReadNoIntent(r) ==
    /\ at[r] = "intent?"
    /\ Proceeds(r, work)
    /\ UNCHANGED <<work, ticket, message, vault, github, history>>

\* An intent without a result: the outcome of a call is unknown, and none is made.
ReadIntent(r) ==
    /\ at[r] = "intent?"
    /\ IF vault.intent THEN Tells(r, "failed", "report") ELSE Proceeds(r, work)
    /\ UNCHANGED <<work, ticket, message, vault, github, history>>
---------------------------------------------------------------------------
(* An operation that asks the model once. *)

\* The input is read and checked, the request stored, then the intent.
StoreIntent(r) ==
    /\ at[r] = "infer"
    /\ \/ vault' = [vault EXCEPT !.intent = TRUE] /\ Proceeds(r, "renew")
       \/ Tells(r, "failed", "report") /\ UNCHANGED vault
    /\ UNCHANGED <<work, ticket, message, github, history>>

RenewBeforeCall(r) ==
    /\ at[r] = "renew"
    /\ Renew(r, Proceeds(r, "call"), Retained(r), Acked(r))
    /\ UNCHANGED <<work, message, vault, github>>

\* The gateway asks the provider for the run that holds the task (Inference).  The answer
\* is usable, or fails the contract of its operation; the transport or the provider's
\* status gives an error to retry, or one to report.
CallProvider(r) ==
    /\ at[r] = "call"
    /\ \/ /\ ticket.status = "running" /\ ticket.run = r /\ ticket.left > 0
          /\ called' = called \cup {r}
          /\ \/ \E answer \in {"answer", "rejected"} : Tells(r, answer, "store")
             \/ Retained(r)
             \/ Tells(r, "failed", "report")
       \/ Tells(r, "failed", "report") /\ UNCHANGED called
       \/ Retained(r) /\ UNCHANGED called
    /\ UNCHANGED <<work, ticket, message, vault, github, regained, overtaken, lateEffects>>
---------------------------------------------------------------------------
(* Publication (runPublicationWithAuthority): the authority is renewed before the *)
(* token, before the commit and before each remote effect.                        *)

StartPublication(r) ==
    /\ at[r] = "publish"
    /\ Renew(r, Proceeds(r, "token"), Retained(r), Acked(r))
    /\ UNCHANGED <<work, message, vault, github>>

\* Mutant: the pull request follows the push without a look at the authority.
RefreshUntilPushed(r, stage, granted) ==
    /\ at[r] = stage
    /\ \/ stage = "pull" /\ Proceeds(r, granted) /\ UNCHANGED <<ticket, history>>
       \/ stage # "pull" /\ Renew(r, Proceeds(r, granted), Tells(r, "failed", "report"), Tells(r, "failed", "report"))
    /\ UNCHANGED <<work, message, vault, github>>

\* Without authority, or when the worktree or its base is not what was reviewed, the
\* publication fails; after the branch was pushed its outcome is uncertain.
RefreshAuthority(r, stage, granted) ==
    /\ at[r] = stage
    /\ LET stop == IF stage = "pull" THEN Tells(r, "uncertain", "store")
                                     ELSE Tells(r, "failed", "report")
       IN Renew(r, Proceeds(r, granted), stop, stop)
    /\ UNCHANGED <<work, message, vault, github>>

\* A request that changes GitHub: it takes effect or not, and its answer comes or not.
RemoteEffect(r, thing) ==
    \/ UNCHANGED <<github, lateEffects>>
    \/ /\ github' = github \cup {thing}
       /\ lateEffects' = IF ticket.status = "running" THEN lateEffects ELSE [lateEffects EXCEPT ![r] = @ + 1]

\* The grant may end with the branch.  A push without an answer fails like one refused.
PushBranch(r) ==
    /\ at[r] = "pushing"
    /\ RemoteEffect(r, "branch")
    /\ \/ "branch" \in github' /\ (Proceeds(r, "pull") \/ Tells(r, "published", "store"))
       \/ Tells(r, "failed", "report")
    /\ UNCHANGED <<work, ticket, message, vault, called, regained, overtaken>>

\* A pull request that exists already is looked up and taken.
CreatePull(r) ==
    /\ at[r] = "pulling"
    /\ RemoteEffect(r, "pull")
    /\ \/ "pull" \in github' /\ Tells(r, "published", "store")
       \/ Tells(r, "uncertain", "store")
    /\ UNCHANGED <<work, ticket, message, vault, called, regained, overtaken>>
---------------------------------------------------------------------------
(* Results, reports, and the end of a delivery. *)

\* storeExecutionResult: the run's object and then the task's latest one.  When storage
\* fails, an answer is reported without its result, and a publication is retried.
StoreResult(r) ==
    /\ at[r] = "store"
    /\ \/ vault' = [vault EXCEPT !.latest = outcome[r]] /\ Proceeds(r, "report")
       \/ /\ UNCHANGED vault
          /\ IF outcome[r] = "published" THEN Tells(r, "none", "gone") ELSE Tells(r, "failed", "report")
    /\ UNCHANGED <<work, ticket, message, github, history>>

Holds(r) == ticket.run = r /\ ticket.status \in {"running", "cancel_requested"}

\* Complete: the result of the run that holds the task, which cancels a task whose
\* cancellation was asked for.
SettledTask(r) ==
    [ticket EXCEPT !.status = IF @ = "cancel_requested" THEN "cancelled"
                              ELSE IF outcome[r] \in {"answer", "published"} THEN "completed" ELSE "failed"]

\* A result that is refused counts as delivered (409 without the headers that ask for a retry).
Report(r) ==
    /\ at[r] = "report"
    /\ \/ Holds(r) /\ ticket' = SettledTask(r) /\ \E s \in {"ack", "gone"} : Tells(r, "none", s)
       \/ ~Holds(r) /\ UNCHANGED ticket /\ Tells(r, "none", "ack")
    /\ UNCHANGED <<work, message, vault, github, history>>

\* ProcessQueueMessage deletes the message when Process returned no error.
DeleteMessage(r) ==
    /\ at[r] = "ack"
    /\ message' = IF message.queued THEN [queued |-> FALSE, by |-> r] ELSE message
    /\ Goes(r, "gone")
    /\ UNCHANGED <<work, ticket, outcome, vault, github, history>>

\* The worker dies, or a read, a write or a request fails in a way that Process returns.
ProcessFails(r) ==
    /\ at[r] \notin {"idle", "gone"}
    /\ Tells(r, "none", "gone")
    /\ UNCHANGED <<work, ticket, message, vault, github, history>>
---------------------------------------------------------------------------
(* The operator and time. *)

\* Cancel: at once when no live lease is left.
CancelTask ==
    /\ ticket.status \in {"queued", "running"}
    /\ ticket' = [ticket EXCEPT !.status = IF @ = "running" /\ ticket.left > 0 THEN "cancel_requested"
                                                                               ELSE "cancelled"]
    /\ UNCHANGED <<work, message, at, outcome, vault, github, history>>

\* RevokePublicationGrant, over the task of one of the grant's intents.
RevokePublication ==
    /\ work = "publish" /\ ticket.status \in {"queued", "running"}
    /\ ticket' = [ticket EXCEPT !.status = IF @ = "running" THEN "cancel_requested" ELSE "cancelled"]
    /\ UNCHANGED <<work, message, at, outcome, vault, github, history>>

LeaseTick ==
    /\ ticket.left > 0
    /\ ticket' = [ticket EXCEPT !.left = @ - 1]
    /\ UNCHANGED <<work, message, at, outcome, vault, github, history>>

WorkerNext ==
    \/ CancelTask \/ RevokePublication \/ LeaseTick
    \/ \E r \in Deliveries :
        \/ Receive(r) \/ ClaimTask(r) \/ ReadResult(r) \/ ReadIntent(r)
        \/ StoreIntent(r) \/ RenewBeforeCall(r) \/ CallProvider(r)
        \/ StartPublication(r)
        \/ RefreshAuthority(r, "token", "commit") \/ RefreshAuthority(r, "commit", "push")
        \/ RefreshAuthority(r, "push", "pushing") \/ RefreshAuthority(r, "pull", "pulling")
        \/ PushBranch(r) \/ CreatePull(r)
        \/ StoreResult(r) \/ Report(r) \/ DeleteMessage(r) \/ ProcessFails(r)

WorkerSpec == WorkerInit /\ [][WorkerNext]_workerVars
---------------------------------------------------------------------------
(* Properties. *)

\* However often the message is delivered and wherever runs die, the provider is asked
\* once: a later run finds the result or the intent of the first (worker.go, "retrying
\* blindly is unsafe").  The exception is a run that was overtaken between its look at
\* storage and its call and got the task back by outliving the other's lease.
InferredOnce == Cardinality(called \ regained) <= 1

\* The message is the task's only way back to a worker (queue.go, "deletes only terminally
\* processed messages"): once it is gone the task has ended or its cancellation was asked
\* for, unless the run that deleted it had been overtaken.
AckedIsSettled ==
    ~message.queued => ticket.status \notin {"queued", "running"} \/ message.by \in overtaken

\* Cancellation and revocation fence publication (RevokePublicationGrant, "a durable fence
\* for effects that have not started"): a run makes at most the one remote request that its
\* last renewal admitted, and never goes on to the next.
OneLateEffect == \A r \in Deliveries : lateEffects[r] <= 1
=============================================================================
