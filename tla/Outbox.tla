------------------------------- MODULE Outbox -------------------------------
(***************************************************************************)
(* The durable outbox: repositories/outboxrepository/OutboxRepository.go   *)
(* and the dispatch loop of services/outbox/Dispatcher.go.                 *)
(*                                                                         *)
(* Every API replica runs one dispatcher.  A dispatcher leases a batch of  *)
(* ready rows (ClaimBatch), publishes each row to an external queue and    *)
(* then settles it (MarkCompleted or ScheduleRetry).  Neither settling     *)
(* statement names the claim it belongs to: both only ask that the row is  *)
(* "processing", so a dispatcher whose lease ran out can settle the claim  *)
(* of another one.  The module keeps that behaviour.                       *)
(*                                                                         *)
(* Time is relative.  row[e].due is the distance from the present to the   *)
(* one deadline the row's state gives a meaning to: available_at when      *)
(* pending, lease_until when processing, processed_at when completed.      *)
(* It goes down by one at each Tick.                                       *)
(***************************************************************************)
EXTENDS Integers, FiniteSets

CONSTANTS
    Events,       \* the rows, numbered in (created_at, id) order
    Lanes,        \* the fairness keys, numbered in the order of the strings
    LaneOf,       \* fairnessKey(event) for every row
    Legacy,       \* rows inserted before the fairness_key column existed
    Dispatchers,  \* one per API replica
    Limit,        \* batch size handed to ClaimBatch (20)
    Lease,        \* row lease handed to ClaimBatch (30s)
    Retention,    \* age at which completed rows are deleted (7 days)
    Delays,       \* retryDelay for 1, 2, 3 and more attempts
    MaxLag,       \* bound: ticks a claim may wait for the cursor lock
    MaxFaults     \* bound: crashes, failed publications and failed updates

NoLane == 0       \* the empty fairness_key

ASSUME OutboxConstants ==
    /\ Events \subseteq Nat \ {0} /\ IsFiniteSet(Events)
    /\ Lanes \subseteq Nat \ {NoLane} /\ IsFiniteSet(Lanes)
    /\ LaneOf \in [Events -> Lanes]
    /\ Legacy \subseteq Events
    /\ Limit \in Nat \ {0}
    /\ Lease \in Nat /\ Retention \in Nat
    /\ Delays \in [1..4 -> Nat]
    /\ MaxLag \in Nat /\ MaxFaults \in Nat

VARIABLES
    row,        \* the outbox_events table
    cursor,     \* outbox_dispatch_cursors.last_fairness_key
    phase,      \* where each dispatcher is in dispatchOnce
    lag,        \* ticks since the dispatcher read the clock in ClaimBatch
    held,       \* the slice of claimed events each dispatcher still holds
    sent,       \* the publication being settled: its event and result
    published,  \* rows the external queue has received at least once
    faults      \* faults that have happened so far

vars == <<row, cursor, phase, lag, held, sent, published, faults>>

States == {"absent", "pending", "processing", "completed", "deleted"}
Phases == {"idle", "claiming", "publishing", "settling"}

NothingSent == [event |-> 0, ok |-> FALSE]
EmptyBatch == [e \in {} |-> 0]

\* The furthest past any comparison below can tell apart.
Horizon == (IF MaxLag > Retention THEN MaxLag ELSE Retention) + 1

-----------------------------------------------------------------------------
(***************************************************************************)
(* Which rows a claim takes.                                               *)
(***************************************************************************)

\* Mutant of Ready: the scope forgets the rows whose lease ran out.
ReadyPendingOnly(l) ==
    {e \in Events : row[e].state = "pending" /\ row[e].due <= -l}

\* readyOutboxScope, evaluated by a claim whose clock is l ticks old.
Ready(l) ==
    {e \in Events : \/ row[e].state = "pending" /\ row[e].due <= -l
                    \/ row[e].state = "processing" /\ row[e].due < -l}

\* normalizeLegacyFairnessKeys: the oldest 4 * Limit ready rows without a key.
Normalized(l) ==
    LET legacy == {e \in Ready(l) : row[e].lane = NoLane}
    IN  {e \in legacy : Cardinality({f \in legacy : f < e}) < 4 * Limit}

LaneAt(e, l) == IF e \in Normalized(l) THEN LaneOf[e] ELSE row[e].lane

ReadyLanes(l) == {LaneAt(e, l) : e \in Ready(l)}

\* Mutant of LanePosition: every batch starts again at the first lane.
UnrotatedPosition(k, l) == Cardinality({j \in ReadyLanes(l) : j < k})

\* rotateFairnessKeys: the place of a lane in the sorted keys, rotated to
\* start after the last lane served.
LanePosition(k, l) ==
    LET keys == ReadyLanes(l)
        first == IF cursor = NoLane THEN keys ELSE {j \in keys : j > cursor}
    IN  IF k \in first
        THEN Cardinality({j \in first : j < k})
        ELSE Cardinality(first) + Cardinality({j \in keys \ first : j < k})

\* Mutant of Turn: the oldest rows first, whatever their lane.
OldestFirst(e, l) == Cardinality({f \in Ready(l) : f < e})

\* claimFairRows visits the lanes round after round and takes the oldest ready
\* row of each, so a row's turn is its rank in its lane, then its lane's place.
Turn(e, l) ==
    LET rank == Cardinality({f \in Ready(l) : /\ LaneAt(f, l) = LaneAt(e, l)
                                              /\ f < e})
    IN  rank * Cardinality(ReadyLanes(l)) + LanePosition(LaneAt(e, l), l)

Before(e, l) == {f \in Ready(l) : Turn(f, l) < Turn(e, l)}

Batch(l) == {e \in Ready(l) : Cardinality(Before(e, l)) < Limit}

IsLast(e, B, l) == e \in B /\ \A f \in B : Turn(f, l) <= Turn(e, l)

retryDelay(attempts) == Delays[IF attempts < 1 THEN 1 ELSE attempts]

-----------------------------------------------------------------------------
Init ==
    /\ row = [e \in Events |->
                [state    |-> IF e \in Legacy THEN "pending" ELSE "absent",
                 due      |-> 0,
                 attempts |-> 0,
                 lane     |-> NoLane]]
    /\ cursor = NoLane
    /\ phase = [d \in Dispatchers |-> "idle"]
    /\ lag = [d \in Dispatchers |-> 0]
    /\ held = [d \in Dispatchers |-> EmptyBatch]
    /\ sent = [d \in Dispatchers |-> NothingSent]
    /\ published = {}
    /\ faults = 0

\* Enqueue, in the transaction of the operation that asks for the delivery.
\* A second Enqueue with the same dedupe key inserts nothing.
Enqueue(e) ==
    /\ row[e].state = "absent"
    /\ row' = [row EXCEPT ![e] = [state |-> "pending", due |-> 0,
                                  attempts |-> 0, lane |-> LaneOf[e]]]
    /\ UNCHANGED <<cursor, phase, lag, held, sent, published, faults>>

\* dispatchOnce enters ClaimBatch, which reads the clock before it waits for
\* the cursor row.
BeginClaim(d) ==
    /\ phase[d] = "idle"
    /\ phase' = [phase EXCEPT ![d] = "claiming"]
    /\ lag' = [lag EXCEPT ![d] = 0]
    /\ UNCHANGED <<row, cursor, held, sent, published, faults>>

\* One more claim of a row; more than four are not told apart by retryDelay.
Attempt(n) == IF n < 4 THEN n + 1 ELSE 4

\* The row after a claim at lag l: legacy lanes filled in, batch rows leased
\* until Lease after the clock the claim read.
Claimed(e, B, l) ==
    [state    |-> IF e \in B THEN "processing" ELSE row[e].state,
     due      |-> IF e \in B THEN Lease - l ELSE row[e].due,
     attempts |-> IF e \in B THEN Attempt(row[e].attempts) ELSE row[e].attempts,
     lane     |-> LaneAt(e, l)]

\* The transaction of ClaimBatch, serialised by the lock on the cursor row.
ClaimBatch(d) ==
    LET l == lag[d]
        B == Batch(l)
    IN  /\ phase[d] = "claiming"
        /\ row' = [e \in Events |-> Claimed(e, B, l)]
        /\ \/ B = {} /\ UNCHANGED cursor
           \/ \E e \in B : IsLast(e, B, l) /\ cursor' = LaneAt(e, l)
        /\ held' = [held EXCEPT ![d] =
                      [e \in B |-> [turn     |-> Cardinality(Before(e, l)),
                                    attempts |-> Attempt(row[e].attempts)]]]
        /\ phase' = [phase EXCEPT ![d] = IF B = {} THEN "idle" ELSE "publishing"]
        /\ lag' = [lag EXCEPT ![d] = 0]
        /\ UNCHANGED <<sent, published, faults>>

\* The event the loop of dispatchOnce is at.
IsCurrent(e, d) ==
    /\ e \in DOMAIN held[d]
    /\ \A f \in DOMAIN held[d] : held[d][e].turn <= held[d][f].turn

\* publisher.Publish returns nil: the queue has the message.
PublishOk(d, e) ==
    /\ phase[d] = "publishing" /\ IsCurrent(e, d)
    /\ published' = published \cup {e}
    /\ sent' = [sent EXCEPT ![d] = [event |-> e, ok |-> TRUE]]
    /\ phase' = [phase EXCEPT ![d] = "settling"]
    /\ UNCHANGED <<row, cursor, lag, held, faults>>

\* Mutant of PublishError: the error is logged but not returned.
PublishErrorIgnored(d, e) ==
    /\ phase[d] = "publishing" /\ IsCurrent(e, d)
    /\ faults < MaxFaults
    /\ faults' = faults + 1
    /\ published' \in {published, published \cup {e}}
    /\ sent' = [sent EXCEPT ![d] = [event |-> e, ok |-> TRUE]]
    /\ phase' = [phase EXCEPT ![d] = "settling"]
    /\ UNCHANGED <<row, cursor, lag, held>>

\* publisher.Publish returns an error.  A timed-out request may have reached
\* the queue all the same.
PublishError(d, e) ==
    /\ phase[d] = "publishing" /\ IsCurrent(e, d)
    /\ faults < MaxFaults
    /\ faults' = faults + 1
    /\ published' \in {published, published \cup {e}}
    /\ sent' = [sent EXCEPT ![d] = [event |-> e, ok |-> FALSE]]
    /\ phase' = [phase EXCEPT ![d] = "settling"]
    /\ UNCHANGED <<row, cursor, lag, held>>

\* The loop goes on with the next event of the batch.
Advance(d, e) ==
    /\ held' = [held EXCEPT ![d] = [f \in DOMAIN held[d] \ {e} |-> held[d][f]]]
    /\ phase' = [phase EXCEPT ![d] =
                   IF DOMAIN held[d] = {e} THEN "idle" ELSE "publishing"]
    /\ sent' = [sent EXCEPT ![d] = NothingSent]

\* The row in another state, n ticks from the deadline of that state.
Moved(r, s, n) ==
    [state |-> s, due |-> n, attempts |-> r.attempts, lane |-> r.lane]

\* Mutant of Completed: a state the other statements do not know.
CompletedAsDone(r) == IF r.state = "processing" THEN Moved(r, "done", 0) ELSE r

Completed(r) == IF r.state = "processing"
                THEN Moved(r, "completed", 0) ELSE r

MarkCompleted(d, e) ==
    /\ phase[d] = "settling" /\ sent[d] = [event |-> e, ok |-> TRUE]
    /\ row' = [row EXCEPT ![e] = Completed(@)]
    /\ Advance(d, e)
    /\ UNCHANGED <<cursor, lag, published, faults>>

\* Mutant of Retried: the update forgets to ask for state "processing".
RetriedAnyState(r, attempts) == Moved(r, "pending", retryDelay(attempts))

\* The delay comes from the attempts counter the dispatcher read at its claim.
Retried(r, attempts) ==
    IF r.state = "processing"
    THEN Moved(r, "pending", retryDelay(attempts)) ELSE r

ScheduleRetry(d, e) ==
    /\ phase[d] = "settling" /\ sent[d] = [event |-> e, ok |-> FALSE]
    /\ row' = [row EXCEPT ![e] = Retried(@, held[d][e].attempts)]
    /\ Advance(d, e)
    /\ UNCHANGED <<cursor, lag, published, faults>>

\* The settling statement fails; dispatchOnce logs or ignores it and goes on.
SettleError(d, e) ==
    /\ phase[d] = "settling" /\ sent[d].event = e
    /\ faults < MaxFaults
    /\ faults' = faults + 1
    /\ Advance(d, e)
    /\ UNCHANGED <<row, cursor, lag, published>>

\* The replica stops (context cancelled, crash, failed claim transaction) and
\* forgets its batch; it, or a successor, starts over.
Crash(d) ==
    /\ phase[d] # "idle"
    /\ faults < MaxFaults
    /\ faults' = faults + 1
    /\ phase' = [phase EXCEPT ![d] = "idle"]
    /\ held' = [held EXCEPT ![d] = EmptyBatch]
    /\ sent' = [sent EXCEPT ![d] = NothingSent]
    /\ lag' = [lag EXCEPT ![d] = 0]
    /\ UNCHANGED <<row, cursor, published>>

\* Mutant of DeleteCompletedBefore: the cleanup forgets the state filter.
DeleteAnyBefore(d) ==
    /\ phase[d] = "idle"
    /\ \E e \in Events : /\ row[e].state \in {"pending", "completed"}
                         /\ row[e].due < -Retention
                         /\ row' = [row EXCEPT ![e] = Moved(@, "deleted", 0)]
    /\ UNCHANGED <<cursor, phase, lag, held, sent, published, faults>>

\* The hourly DeleteCompletedBefore of the dispatcher loop.
DeleteCompletedBefore(d) ==
    /\ phase[d] = "idle"
    /\ LET old == {e \in Events : row[e].state = "completed"
                                    /\ row[e].due < -Retention}
       IN  /\ old # {}
           /\ row' = [e \in Events |-> IF e \in old
                        THEN Moved(row[e], "deleted", 0)
                        ELSE row[e]]
    /\ UNCHANGED <<cursor, phase, lag, held, sent, published, faults>>

Older(due) == IF due > -Horizon THEN due - 1 ELSE -Horizon

Tick ==
    /\ \A d \in Dispatchers : phase[d] = "claiming" => lag[d] < MaxLag
    /\ row' = [e \in Events |->
                 IF row[e].state \in {"absent", "deleted"} THEN row[e]
                 ELSE Moved(row[e], row[e].state, Older(row[e].due))]
    /\ lag' = [d \in Dispatchers |->
                 IF phase[d] = "claiming" THEN lag[d] + 1 ELSE lag[d]]
    /\ UNCHANGED <<cursor, phase, held, sent, published, faults>>

Work(d) ==
    \/ BeginClaim(d)
    \/ ClaimBatch(d)
    \/ \E e \in Events : \/ PublishOk(d, e)
                         \/ MarkCompleted(d, e)
                         \/ ScheduleRetry(d, e)

Fault(d) ==
    \/ Crash(d)
    \/ \E e \in Events : PublishError(d, e) \/ SettleError(d, e)

Next ==
    \/ \E e \in Events : Enqueue(e)
    \/ \E d \in Dispatchers : Work(d) \/ Fault(d) \/ DeleteCompletedBefore(d)
    \/ Tick

Spec == Init /\ [][Next]_vars

(***************************************************************************)
(* The dispatcher goroutine keeps running and the clock keeps moving.      *)
(* Faults are bounded by MaxFaults, so from some point on there are none.  *)
(***************************************************************************)
Fairness ==
    /\ WF_vars(Tick)
    /\ \A d \in Dispatchers : WF_vars(Work(d))

FairSpec == Spec /\ Fairness

-----------------------------------------------------------------------------
Rows == [state : States, due : Int, attempts : 0..4, lane : Lanes \cup {NoLane}]
Holds == [turn : Nat, attempts : 0..4]

\* The types of the tables and of the dispatchers' local state.
TypeOK ==
    /\ row \in [Events -> Rows]
    /\ cursor \in Lanes \cup {NoLane}
    /\ phase \in [Dispatchers -> Phases]
    /\ lag \in [Dispatchers -> Nat]
    /\ held = [d \in Dispatchers |-> held[d]]
    /\ \A d \in Dispatchers : \E S \in SUBSET Events : held[d] \in [S -> Holds]
    /\ sent \in [Dispatchers -> [event : Events \cup {0}, ok : BOOLEAN]]
    /\ published \subseteq Events
    /\ faults \in 0..MaxFaults

\* No event is lost: a row leaves the scheduler's sight (completed, or deleted
\* by the cleanup) only after the external queue has received it, whichever
\* dispatcher settled it and however stale that dispatcher's claim was.
NothingLost ==
    \A e \in Events : row[e].state \in {"completed", "deleted"} => e \in published

\* A row that MarkCompleted has finished is never claimed or rescheduled again,
\* although a late ScheduleRetry of an expired claim may still be under way.
CompletedIsFinal ==
    [][\A e \in Events : row[e].state \in {"completed", "deleted"}
          => row'[e].state \in {"completed", "deleted"}]_vars

\* claimFairRows gives every ready lane a row before any lane gets a second.
FairBatch ==
    [][\A d \in Dispatchers :
         phase[d] = "claiming" /\ phase'[d] = "publishing" =>
           LET B == DOMAIN held'[d]
               Ready0 == Ready(lag[d])
           IN  \A e \in Ready0 \ B : \A f, g \in B :
                 (f # g /\ row'[f].lane = row'[g].lane)
                   => \E h \in B : row'[h].lane = row'[e].lane]_vars

\* Every accepted event reaches the queue, and its row is settled, once faults
\* stop: an expired lease or a retry always brings the row back.
Delivered ==
    \A e \in Events : (row[e].state = "pending") ~>
                      (row[e].state \in {"completed", "deleted"})

-----------------------------------------------------------------------------
Contract == INSTANCE OutboxContract WITH
    accepted  <- {e \in Events : row[e].state # "absent"},
    delivered <- published,
    settled   <- {e \in Events : row[e].state \in {"completed", "deleted"}}

\* The lease protocol implements at-least-once delivery: only accepted events
\* are published, and only published ones are settled, one at a time.
ImplementsContract == Contract!Spec

\* What a dispatcher is about to mark as completed is on the queue.
SettlesPublished ==
    \A d \in Dispatchers :
        phase[d] = "settling" /\ sent[d].ok => sent[d].event \in published

\* A dispatcher holds only rows that exist, and settles only rows it holds.
HoldsAccepted ==
    \A d \in Dispatchers :
        /\ \A e \in DOMAIN held[d] : row[e].state # "absent"
        /\ phase[d] = "settling" => sent[d].event \in DOMAIN held[d]
=============================================================================
