------------------------------ MODULE Reviews ------------------------------
(* The code reviews of one pull request (controllers/automation/automation.go):  *)
(* signed webhook deliveries that queue a review of a commit and supersede those *)
(* of other commits, reviewers that lease a review and ask a model, recovery of  *)
(* reviews nobody took or whose reviewer vanished, and the operator's retry.     *)
(*                                                                               *)
(* Every transaction that locks one review first is one action.  The one that    *)
(* supersedes reviews and then inserts its own is two, and what it has updated   *)
(* stays locked in between.                                                      *)
EXTENDS Integers, Sequences, FiniteSets, FiniteSetsExt

CONSTANTS
    Hooks,          \* webhook requests, each sent once
    Pollers,        \* polls of the review lane, each made once
    MaxPushes,      \* bound: commits pushed after the first
    MaxRetries,     \* bound: reviews an operator asks for
    MaxClaims,      \* bound: runs of a review
    ReviewLease,    \* automationRunLeaseDuration, in ticks
    RecoveryDelay,  \* githubReviewRecoveryDelay
    RecoveryLimit   \* githubReviewLeaseRecoveryMaximumAttempts

ASSUME ReviewsAssumption ==
    /\ MaxPushes \in Nat /\ MaxRetries \in Nat /\ MaxClaims \in Nat
    /\ ReviewLease \in Nat \ {0} /\ RecoveryDelay \in Nat \ {0} /\ RecoveryLimit \in Nat \ {0}

VARIABLES
    pull,     \* the pull request at GitHub: its newest commit, and whether it may be reviewed
    review,   \* automation_tasks of operation code.review, in the order of created_at
    hook,     \* locals of GitHubPullRequestReviewWebhook
    poll,     \* locals of reconcileOneExpiredGitHubReviewLease
    retries   \* retries the operator has left

reviewVars == <<pull, review, hook, poll, retries>>

NoLease == -1    \* lease_expires_at IS NULL

IdleHook == [pc |-> "idle", head |-> 0, seen |-> 0, drops |-> {}]
DoneHook == [IdleHook EXCEPT !.pc = "done"]
IdlePoll == [pc |-> "idle", id |-> 0]
DonePoll == [IdlePoll EXCEPT !.pc = "done"]

\* A new task.  root is the webhook's task or the retry an attempt descends from; left is
\* the rest of the recovery delay while it is queued, and of the lease while it runs.  A
\* run is named by the claim that began it, so that attempts is also the current run.
NewReview(h, kind, root, attempts) ==
    [head |-> h, kind |-> kind, root |-> root, status |-> "queued", attempts |-> attempts,
     left |-> RecoveryDelay, call |-> [r \in 1 .. MaxClaims |-> "none"]]

\* A pull request with n commits to come, deliveries H, polls P and k retries; the review of its
\* first commit is still to be asked for, or queued.
ReviewsInitWith(n, H, P, k, queued) ==
    /\ pull = [head |-> 1, last |-> n + 1, open |-> TRUE]
    /\ review = IF queued THEN <<NewReview(1, "webhook", 1, 0)>> ELSE <<>>
    /\ hook = [w \in H |-> IdleHook]
    /\ poll = [p \in P |-> IdlePoll]
    /\ retries = k

ReviewsInit == ReviewsInitWith(MaxPushes, Hooks, Pollers, MaxRetries, FALSE)
---------------------------------------------------------------------------
(* Reviews. *)

Reviews == DOMAIN review
OpenReviews == {i \in Reviews : review[i].status \in {"queued", "running"}}
ReviewsOf(h) == {i \in Reviews : review[i].head = h}

\* The task whose id is derived from repository, number and commit.
Derived(h) == {i \in ReviewsOf(h) : review[i].kind = "webhook"}

\* latestGitHubReviewAttempt: the youngest task with the input and subject of the first.
Latest(h) == Max(ReviewsOf(h))

\* Rows another transaction has updated and not yet committed.
Unlocked(i) == \A w \in DOMAIN hook : i \notin hook[w].drops

ClosedReview(i, status) == [review EXCEPT ![i].status = status, ![i].left = NoLease]
---------------------------------------------------------------------------
(* GitHub (external): commits are pushed, and the pull request is closed or merged. *)

Push ==
    /\ pull.head < pull.last
    /\ pull' = [pull EXCEPT !.head = @ + 1]
    /\ UNCHANGED <<review, hook, poll, retries>>

ClosePull ==
    /\ pull.open
    /\ pull' = [pull EXCEPT !.open = FALSE]
    /\ UNCHANGED <<review, hook, poll, retries>>
---------------------------------------------------------------------------
(* Recovery: recoverStrandedGitHubReview. *)

\* Fault: the locked row is not asked for its status again.
StrandedAnyStatus(i) == review[i].attempts = 0 /\ review[i].left <= 0

\* recoverableQueuedGitHubReview: handed over long ago, and taken by nobody.
Stranded(i) == review[i].status = "queued" /\ review[i].attempts = 0 /\ review[i].left = 0

Expired(i) == review[i].status = "running" /\ review[i].left = 0

\* Fault: the locked row is not asked for its lease again.
LeaseUnasked(i) == review[i].status = "running" /\ review[i].attempts < RecoveryLimit

\* recoverableExpiredGitHubReviewLease and exhaustedExpiredGitHubReviewLease
LeaseLost(i) == Expired(i) /\ review[i].attempts < RecoveryLimit
Exhausted(i) == Expired(i) /\ review[i].attempts >= RecoveryLimit

\* unresolvedReviewInference, over every run of the task
Unresolved(i) == \E r \in 1 .. MaxClaims : review[i].call[r] = "open"

\* Fault: a recovery starts with a budget of its own.
FreshAttempts(i) == 0

\* newExpiredGitHubReviewLeaseRecovery passes the claims on to the new task.
CarriedAttempts(i) == review[i].attempts

\* The row is locked and asked again.  (It has no publication while it runs: the
\* publication commits with the completion.)
RecoverStranded(i) ==
    /\ Unlocked(i)
    /\ IF Stranded(i)
       THEN review' = Append(ClosedReview(i, "cancelled"),
                            NewReview(review[i].head, "stranded", review[i].root, 0))
       ELSE IF LeaseLost(i) /\ ~Unresolved(i)
       THEN review' = Append(ClosedReview(i, "failed"),
                            NewReview(review[i].head, "lease", review[i].root, CarriedAttempts(i)))
       ELSE UNCHANGED review
---------------------------------------------------------------------------
(* A delivery: GitHubPullRequestReviewWebhook. *)

\* ReadGitHubPullRequestState: only the newest commit of an open pull request goes on.
HookRead(w) ==
    /\ hook[w].pc = "idle" /\ pull.open
    /\ hook' = [hook EXCEPT ![w] = [IdleHook EXCEPT !.pc = "lookup", !.head = pull.head]]
    /\ UNCHANGED <<pull, review, poll, retries>>

\* The task of this commit is looked up; if there is none, the patch is frozen.
HookLookup(w) ==
    /\ hook[w].pc = "lookup"
    /\ hook' = [hook EXCEPT ![w] =
          IF Derived(hook[w].head) = {} THEN [@ EXCEPT !.pc = "supersede"]
          ELSE [@ EXCEPT !.pc = "recover", !.seen = Latest(hook[w].head)]]
    /\ UNCHANGED <<pull, review, poll, retries>>

HookRecover(w) ==
    /\ hook[w].pc = "recover"
    /\ RecoverStranded(hook[w].seen)
    /\ hook' = [hook EXCEPT ![w] = DoneHook]
    /\ UNCHANGED <<pull, poll, retries>>

\* supersedeQueuedGitHubReviews: the first statement of the transaction, which waits for
\* rows another delivery has updated.
Superseded(h) == {i \in Reviews : review[i].status = "queued" /\ i \notin Derived(h)}

HookSupersede(w) ==
    /\ hook[w].pc = "supersede"
    /\ \A i \in Superseded(hook[w].head) : Unlocked(i)
    /\ hook' = [hook EXCEPT ![w].pc = "insert", ![w].drops = Superseded(hook[w].head)]
    /\ UNCHANGED <<pull, review, poll, retries>>

\* The insert does nothing when another delivery was first; the rest commits all the same.
HookInsert(w) ==
    LET h == hook[w].head
        kept == [i \in Reviews |-> IF i \in hook[w].drops
                                   THEN [review[i] EXCEPT !.status = "cancelled", !.left = NoLease]
                                   ELSE review[i]]
    IN /\ hook[w].pc = "insert"
       /\ \/ Derived(h) # {} /\ review' = kept
          \/ /\ Derived(h) = {}
             /\ review' = Append(kept, NewReview(h, "webhook", Len(review) + 1, 0))
       /\ hook' = [hook EXCEPT ![w] = DoneHook]
       /\ UNCHANGED <<pull, poll, retries>>

\* A request that fails at GitHub or in storage, or whose replica stops, rolls back.
HookFails(w) ==
    /\ hook[w].pc \notin {"idle", "done"}
    /\ hook' = [hook EXCEPT ![w] = DoneHook]
    /\ UNCHANGED <<pull, review, poll, retries>>
---------------------------------------------------------------------------
(* A reviewer: claimAutomationTaskRun, Infer and Complete. *)

\* The queue may deliver a review to several runs, or to none: one takes a queued review,
\* or one whose lease is over.
ClaimReview(i) ==
    /\ Unlocked(i)
    /\ review[i].status = "queued" \/ Expired(i)
    /\ review[i].attempts < MaxClaims
    /\ review' = [review EXCEPT ![i].status = "running", ![i].left = ReviewLease, ![i].attempts = @ + 1]
    /\ UNCHANGED <<pull, hook, poll, retries>>

RenewReview(i) ==
    /\ review[i].status = "running"
    /\ review' = [review EXCEPT ![i].left = ReviewLease]
    /\ UNCHANGED <<pull, hook, poll, retries>>

\* A receipt is reserved under the row lock before the provider is asked.  It stays open
\* when the gateway or the provider never answers.
AskModel(i) ==
    /\ review[i].status = "running" /\ review[i].left > 0
    /\ review[i].call[review[i].attempts] = "none"
    /\ review' = [review EXCEPT ![i].call[review[i].attempts] = "open"]
    /\ UNCHANGED <<pull, hook, poll, retries>>

ModelAnswers(i, r) ==
    /\ review[i].call[r] = "open"
    /\ \E outcome \in {"accepted", "rejected"} : review' = [review EXCEPT ![i].call[r] = outcome]
    /\ UNCHANGED <<pull, hook, poll, retries>>

\* The result of the run that holds the task, however late.  A review completes with an
\* answer and with the one publication its commit may have.
CompleteReview(i) ==
    /\ review[i].status = "running"
    /\ \/ review' = [review EXCEPT ![i].status = "failed"]
       \/ /\ \E r \in 1 .. MaxClaims : review[i].call[r] = "accepted"
          /\ \A j \in ReviewsOf(review[i].head) : review[j].status # "completed"
          /\ review' = [review EXCEPT ![i].status = "completed"]
    /\ UNCHANGED <<pull, hook, poll, retries>>

\* RetryCodeReview: a failed task never changes again, so reading it takes no lock.
RetryCodeReview(i) ==
    /\ review[i].status = "failed" /\ retries > 0
    /\ retries' = retries - 1
    /\ review' = Append(review, NewReview(review[i].head, "retry", Len(review) + 1, 0))
    /\ UNCHANGED <<pull, hook, poll>>
---------------------------------------------------------------------------
(* A reviewer's poll: reconcileOneExpiredGitHubReviewLease. *)

\* Some review whose lease is over: the row the query orders first, where the model does
\* not tell ended leases apart.  A candidate with an open call ends the poll.
PollPick(p) ==
    /\ poll[p].pc = "idle"
    /\ \E i \in Reviews :
          /\ Expired(i)
          /\ Exhausted(i) \/ ~Unresolved(i)
          /\ poll' = [poll EXCEPT ![p] = [pc |-> IF Exhausted(i) THEN "fail" ELSE "ask", id |-> i]]
    /\ UNCHANGED <<pull, review, hook, retries>>

\* What GitHub says of the commit decides; without an answer nothing happens.
PollAsk(p) ==
    /\ poll[p].pc = "ask"
    /\ LET current == pull.open /\ pull.head = review[poll[p].id].head
       IN poll' = [poll EXCEPT ![p].pc = IF current THEN "recover" ELSE "retire"]
    /\ UNCHANGED <<pull, review, hook, retries>>

\* failExhaustedExpiredGitHubReviewLease, cancelObsoleteExpiredGitHubReviewLease, or the
\* recovery: each locks the row and asks it again.
PollAct(p) ==
    LET i == poll[p].id IN
    /\ \/ /\ poll[p].pc = "fail" /\ Unlocked(i)
          /\ review' = IF Exhausted(i) THEN ClosedReview(i, "failed") ELSE review
       \/ /\ poll[p].pc = "retire" /\ Unlocked(i)
          /\ review' = IF LeaseLost(i) THEN ClosedReview(i, "cancelled") ELSE review
       \/ poll[p].pc = "recover" /\ RecoverStranded(i)
    /\ poll' = [poll EXCEPT ![p] = DonePoll]
    /\ UNCHANGED <<pull, hook, retries>>

PollFails(p) ==
    /\ poll[p].pc \notin {"idle", "done"}
    /\ poll' = [poll EXCEPT ![p] = DonePoll]
    /\ UNCHANGED <<pull, review, hook, retries>>
---------------------------------------------------------------------------
\* Time.  A request lasts at most five minutes and a poll five seconds, a lease and the
\* delay before a recovery a quarter of an hour or more: no deadline that a request has
\* set passes before it ends.
ReviewsTick ==
    /\ \A w \in DOMAIN hook : hook[w].pc \in {"idle", "done"}
    /\ \A p \in DOMAIN poll : poll[p].pc \in {"idle", "done"}
    /\ review' = [i \in Reviews |->
          [review[i] EXCEPT !.left = IF @ > 0 /\ i \in OpenReviews THEN @ - 1 ELSE @]]
    /\ UNCHANGED <<pull, hook, poll, retries>>

ReviewsNext ==
    \/ Push \/ ClosePull \/ ReviewsTick
    \/ \E w \in DOMAIN hook : \/ HookRead(w) \/ HookLookup(w) \/ HookRecover(w)
                        \/ HookSupersede(w) \/ HookInsert(w) \/ HookFails(w)
    \/ \E i \in Reviews : \/ ClaimReview(i) \/ RenewReview(i) \/ AskModel(i)
                          \/ CompleteReview(i) \/ RetryCodeReview(i)
                          \/ \E r \in 1 .. MaxClaims : ModelAnswers(i, r)
    \/ \E p \in DOMAIN poll : PollPick(p) \/ PollAsk(p) \/ PollAct(p) \/ PollFails(p)

ReviewsSpec == ReviewsInit /\ [][ReviewsNext]_reviewVars
---------------------------------------------------------------------------
(* Properties. *)

\* Deliveries, redeliveries, polls and reviewers never leave two attempts at one commit
\* open: where there are two, an operator asked for one of them (recoverStrandedGitHubReview).
OneOpenReview ==
    \A i, j \in OpenReviews :
        (i # j /\ review[i].head = review[j].head) =>
            /\ review[i].root # review[j].root
            /\ \E k \in {i, j} : review[review[k].root].kind = "retry"

\* A commit's abandoned reviews are replaced fewer than RecoveryLimit times, and never
\* where a call may have been paid for without an answer
\* (newExpiredGitHubReviewLeaseRecovery, unresolvedReviewInference).
RecoveryBounded ==
    \A j \in Reviews : review[j].kind = "lease" =>
        LET line == {i \in Reviews : review[i].root = review[j].root}
        IN /\ Cardinality({i \in line : review[i].kind = "lease"}) < RecoveryLimit
           /\ ~\E r \in 1 .. MaxClaims : review[Max({i \in line : i < j})].call[r] = "open"

\* A review with a live lease ends by its reviewer's result alone.  Newer commits, polls
\* and redeliveries that saw it queued or expired leave it (the only ones to clear the lease).
LiveReviewKept ==
    [][\A i \in Reviews : (review[i].status = "running" /\ review[i].left > 0) =>
          /\ review'[i].status \in {"running", "completed", "failed"}
          /\ review'[i].left # NoLease]_reviewVars
=============================================================================
