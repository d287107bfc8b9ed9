---------------------------- MODULE OutboxProofs ----------------------------
(***************************************************************************)
(* Proofs about the outbox for every set of rows, lanes and dispatchers,   *)
(* every batch limit, lease, delay and number of faults.                   *)
(***************************************************************************)
EXTENDS OutboxLanes, FiniteSetTheorems, WellFoundedInduction, TLAPS

\* The inductive invariant: the types, and what a dispatcher's local state
\* says about the table and about the queue.
IInv == TypeOK /\ NothingLost /\ SettlesPublished /\ HoldsAccepted

\* Every set of rows is finite, so counting it gives a natural number.
LEMMA CountRows ==
    ASSUME NEW S, S \subseteq Events
    PROVE  Cardinality(S) \in Nat
BY OutboxConstants, FS_Subset, FS_CardinalityType

\* A claim sees lanes only, whether the row carries its key or gets it now.
LEMMA LaneAtType ==
    ASSUME TypeOK, NEW e \in Events, NEW l
    PROVE  LaneAt(e, l) \in Lanes \cup {NoLane}
BY OutboxConstants DEF LaneAt, TypeOK, Rows

\* A retry delay is a natural number for every attempts counter.
LEMMA RetryDelayType ==
    ASSUME NEW n \in 0..4
    PROVE  retryDelay(n) \in Nat
BY OutboxConstants DEF retryDelay

\* Counting an attempt stays in the range the model tells apart.
LEMMA AttemptType ==
    ASSUME NEW n \in 0..4
    PROVE  Attempt(n) \in 0..4
BY DEF Attempt

\* Moving a row to another state and deadline keeps its type.
LEMMA MoveRow ==
    ASSUME NEW r \in Rows, NEW s \in States, NEW n \in Int
    PROVE  Moved(r, s, n) \in Rows /\ Moved(r, s, n).state = s
BY DEF Moved, Rows

\* The invariant holds of a database without dispatchers' leases.
LEMMA InitIInv == Init => IInv
<1> SUFFICES ASSUME Init PROVE IInv
  OBVIOUS
<1>1. row \in [Events -> Rows]
  BY OutboxConstants DEF Init, Rows, States
<1>2. \A d \in Dispatchers : /\ held[d] \in [{} -> Holds]
                             /\ DOMAIN held[d] = {}
  BY DEF Init, EmptyBatch
<1>3. TypeOK
  BY <1>1, <1>2, OutboxConstants DEF Init, TypeOK, Phases, NothingSent, Holds
<1>4. NothingLost /\ SettlesPublished /\ HoldsAccepted
  BY <1>2 DEF Init, NothingLost, SettlesPublished, HoldsAccepted
<1> QED
  BY <1>3, <1>4 DEF IInv

\* A claim leases a batch of rows, hands it to its dispatcher and moves the
\* cursor to a lane.
LEMMA ClaimBatchIInv ==
    ASSUME IInv, NEW d \in Dispatchers, ClaimBatch(d)
    PROVE  IInv'
<1> DEFINE l == lag[d]
           B == Batch(l)
<1> USE DEF IInv
<1>1. B \subseteq Ready(l) /\ Ready(l) \subseteq Events
  BY DEF Batch, Ready
<1>2. \A e \in Events : Claimed(e, B, l) \in Rows
  <2> TAKE e \in Events
  <2>1. LaneAt(e, l) \in Lanes \cup {NoLane}
    BY LaneAtType
  <2>2. row[e] \in Rows
    BY DEF TypeOK
  <2>3. Attempt(row[e].attempts) \in 0..4
    BY <2>2, AttemptType DEF Rows
  <2>4. Lease - l \in Int
    BY OutboxConstants DEF TypeOK
  <2> QED
    BY <2>1, <2>2, <2>3, <2>4 DEF Claimed, Rows, States
<1>3. row' = [e \in Events |-> Claimed(e, B, l)]
  BY DEF ClaimBatch
<1>4. row' \in [Events -> Rows]
  BY <1>2, <1>3
<1>5. cursor' \in Lanes \cup {NoLane}
  BY <1>1, LaneAtType DEF ClaimBatch, TypeOK
<1>6. held'[d] = [e \in B |-> [turn     |-> Cardinality(Before(e, l)),
                               attempts |-> Attempt(row[e].attempts)]]
  BY DEF ClaimBatch, TypeOK
<1>7. held'[d] \in [B -> Holds]
  <2> SUFFICES ASSUME NEW e \in B
               PROVE  [turn     |-> Cardinality(Before(e, l)),
                       attempts |-> Attempt(row[e].attempts)] \in Holds
    BY <1>6
  <2>1. Cardinality(Before(e, l)) \in Nat
    BY <1>1, CountRows DEF Before
  <2>2. Attempt(row[e].attempts) \in 0..4
    BY <1>1, AttemptType DEF TypeOK, Rows
  <2> QED
    BY <2>1, <2>2 DEF Holds
<1>8. /\ held' = [c \in Dispatchers |-> held'[c]]
      /\ \A c \in Dispatchers \ {d} : held'[c] = held[c]
  BY DEF ClaimBatch, TypeOK
<1>9. phase' \in [Dispatchers -> Phases] /\ phase'[d] # "settling"
  BY DEF ClaimBatch, TypeOK, Phases
<1>10. lag' \in [Dispatchers -> Nat]
  BY DEF ClaimBatch, TypeOK
<1>11. TypeOK'
  <2>1. \A c \in Dispatchers : \E S \in SUBSET Events : held'[c] \in [S -> Holds]
    BY <1>1, <1>7, <1>8 DEF TypeOK
  <2> QED
    BY <1>4, <1>5, <1>8, <1>9, <1>10, <2>1 DEF TypeOK, ClaimBatch
<1>12. \A e \in Events : /\ e \in B => row'[e].state = "processing"
                         /\ e \notin B => row'[e].state = row[e].state
  BY <1>3 DEF Claimed
<1>13. NothingLost'
  BY <1>12 DEF NothingLost, ClaimBatch
<1>14. \A c \in Dispatchers \ {d} : phase'[c] = phase[c]
  BY DEF ClaimBatch, TypeOK
<1>15. SettlesPublished'
  BY <1>9, <1>14 DEF SettlesPublished, ClaimBatch
<1>16. HoldsAccepted'
  <2>1. \A e \in DOMAIN held'[d] : e \in B
    BY <1>7
  <2>2. \A c \in Dispatchers : DOMAIN held[c] \subseteq Events
    BY DEF TypeOK
  <2> QED
    BY <1>1, <1>8, <1>9, <1>12, <1>14, <2>1, <2>2 DEF HoldsAccepted, ClaimBatch
<1> QED
  BY <1>11, <1>13, <1>15, <1>16

\* Dropping an event from a batch, or the whole batch, keeps its type.
LEMMA AdvanceHeld ==
    ASSUME TypeOK, NEW d \in Dispatchers, NEW e, Advance(d, e)
    PROVE  /\ held' = [c \in Dispatchers |-> held'[c]]
           /\ \A c \in Dispatchers : \E S \in SUBSET Events : held'[c] \in [S -> Holds]
           /\ \A c \in Dispatchers : DOMAIN held'[c] \subseteq DOMAIN held[c]
           /\ \A c \in Dispatchers \ {d} : held'[c] = held[c]
           /\ phase' \in [Dispatchers -> Phases] /\ phase'[d] # "settling"
           /\ \A c \in Dispatchers \ {d} : phase'[c] = phase[c] /\ sent'[c] = sent[c]
           /\ sent' \in [Dispatchers -> [event : Events \cup {0}, ok : BOOLEAN]]
<1>1. /\ held' = [c \in Dispatchers |-> held'[c]]
      /\ held'[d] = [f \in DOMAIN held[d] \ {e} |-> held[d][f]]
      /\ \A c \in Dispatchers \ {d} : held'[c] = held[c]
  BY DEF Advance, TypeOK
<1>2. PICK S \in SUBSET Events : held[d] \in [S -> Holds]
  BY DEF TypeOK
<1>3. S \ {e} \in SUBSET Events /\ held'[d] \in [S \ {e} -> Holds]
  BY <1>1, <1>2
<1>4. \A c \in Dispatchers : \E T \in SUBSET Events : held'[c] \in [T -> Holds]
  BY <1>1, <1>3 DEF TypeOK
<1>5. \A c \in Dispatchers : DOMAIN held'[c] \subseteq DOMAIN held[c]
  BY <1>1
<1>6. phase' \in [Dispatchers -> Phases] /\ phase'[d] # "settling"
  BY DEF Advance, TypeOK, Phases
<1>7. sent' \in [Dispatchers -> [event : Events \cup {0}, ok : BOOLEAN]]
  BY DEF Advance, TypeOK, NothingSent
<1>8. \A c \in Dispatchers \ {d} : phase'[c] = phase[c] /\ sent'[c] = sent[c]
  BY DEF Advance, TypeOK
<1> QED
  BY <1>1, <1>4, <1>5, <1>6, <1>7, <1>8

\* Settling, successful or not, by the holder of the claim or by a stale one.
LEMMA SettleIInv ==
    ASSUME IInv, NEW d \in Dispatchers, NEW e \in Events,
           MarkCompleted(d, e) \/ ScheduleRetry(d, e) \/ SettleError(d, e)
    PROVE  IInv'
<1> USE DEF IInv
<1>1. Advance(d, e) /\ published' = published
  BY DEF MarkCompleted, ScheduleRetry, SettleError
<1> DEFINE Moves ==
       /\ row' \in [Events -> Rows]
       /\ \A f \in Events : /\ row'[f].state = "absent" <=> row[f].state = "absent"
                            /\ row'[f].state \in {"completed", "deleted"} =>
                                 \/ row[f].state \in {"completed", "deleted"}
                                 \/ f \in published
<1>2. Moves
  <2>1. CASE MarkCompleted(d, e)
    <3>1. e \in published
      BY <2>1 DEF MarkCompleted, SettlesPublished
    <3> DEFINE new == Completed(row[e])
    <3>2. row[e] \in Rows
      BY DEF TypeOK
    <3>3. new \in Rows /\ new.state \in {row[e].state, "completed"}
          /\ (row[e].state = "absent" => new = row[e])
          /\ (new.state = "absent" => row[e].state = "absent")
      <4>0. "completed" \in States
        BY DEF States
      <4>1. Moved(row[e], "completed", 0) \in Rows
            /\ Moved(row[e], "completed", 0).state = "completed"
        BY <3>2, <4>0, 0 \in Int, MoveRow
      <4> QED
        BY <3>2, <4>1 DEF Completed
    <3>4. row' = [row EXCEPT ![e] = new]
      BY <2>1 DEF MarkCompleted
    <3> HIDE DEF new
    <3> QED
      BY <3>1, <3>2, <3>3, <3>4 DEF TypeOK
  <2>2. CASE ScheduleRetry(d, e)
    <3>1. sent[d].event = e
      BY <2>2 DEF ScheduleRetry
    <3>2. e \in DOMAIN held[d]
      BY <2>2, <3>1 DEF ScheduleRetry, HoldsAccepted
    <3>3. held[d][e].attempts \in 0..4
      BY <3>2 DEF TypeOK, Holds
    <3>4. retryDelay(held[d][e].attempts) \in Int
      BY <3>3, RetryDelayType
    <3> DEFINE new == Retried(row[e], held[d][e].attempts)
    <3>5. row[e] \in Rows
      BY DEF TypeOK
    <3>6. new \in Rows /\ new.state \in {row[e].state, "pending"}
          /\ (row[e].state \in {"absent", "completed", "deleted"} => new = row[e])
      BY <3>4, <3>5, MoveRow DEF Retried, States
    <3>7. row' = [row EXCEPT ![e] = new]
      BY <2>2 DEF ScheduleRetry
    <3> HIDE DEF new
    <3> QED
      BY <3>5, <3>6, <3>7 DEF TypeOK
  <2>3. CASE SettleError(d, e)
    BY <2>3 DEF SettleError, TypeOK
  <2> QED
    BY <2>1, <2>2, <2>3
<1>3. faults' \in 0..MaxFaults
  BY OutboxConstants DEF TypeOK, MarkCompleted, ScheduleRetry, SettleError
<1>4. TypeOK'
  BY <1>1, <1>2, <1>3, AdvanceHeld DEF TypeOK, MarkCompleted, ScheduleRetry, SettleError
<1>5. NothingLost'
  BY <1>1, <1>2 DEF NothingLost
<1>6. SettlesPublished'
  BY <1>1, AdvanceHeld DEF SettlesPublished
<1>7. HoldsAccepted'
  <2>1. \A c \in Dispatchers : DOMAIN held[c] \subseteq Events
    BY DEF TypeOK
  <2>2. \A c \in Dispatchers : \A f \in DOMAIN held'[c] : row'[f].state # "absent"
    BY <1>1, <1>2, <2>1, AdvanceHeld DEF HoldsAccepted
  <2>3. \A c \in Dispatchers : phase'[c] = "settling" => sent'[c].event \in DOMAIN held'[c]
    BY <1>1, AdvanceHeld DEF HoldsAccepted
  <2> QED
    BY <2>2, <2>3 DEF HoldsAccepted
<1> QED
  BY <1>4, <1>5, <1>6, <1>7

\* A publication puts the event on the queue before anybody may settle it.
LEMMA PublishIInv ==
    ASSUME IInv, NEW d \in Dispatchers, NEW e \in Events,
           PublishOk(d, e) \/ PublishError(d, e)
    PROVE  IInv'
<1> USE DEF IInv
<1>1. published \subseteq published' /\ published' \subseteq Events
  BY DEF PublishOk, PublishError, TypeOK
<1>2. /\ sent'[d].event = e
      /\ sent'[d].ok => e \in published'
      /\ sent' \in [Dispatchers -> [event : Events \cup {0}, ok : BOOLEAN]]
      /\ \A c \in Dispatchers \ {d} : sent'[c] = sent[c] /\ phase'[c] = phase[c]
  <2>1. PICK b \in BOOLEAN : /\ sent' = [sent EXCEPT ![d] = [event |-> e, ok |-> b]]
                             /\ b => e \in published'
    <3>1. CASE PublishOk(d, e)
      BY <3>1 DEF PublishOk
    <3>2. CASE PublishError(d, e)
      BY <3>2 DEF PublishError
    <3> QED
      BY <3>1, <3>2
  <2>2. sent'[d] = [event |-> e, ok |-> b]
    BY <2>1 DEF TypeOK
  <2>3. sent' \in [Dispatchers -> [event : Events \cup {0}, ok : BOOLEAN]]
    BY <2>1 DEF TypeOK
  <2>4. \A c \in Dispatchers \ {d} : sent'[c] = sent[c] /\ phase'[c] = phase[c]
    BY <2>1 DEF TypeOK, PublishOk, PublishError
  <2> QED
    BY <2>1, <2>2, <2>3, <2>4
<1>3. TypeOK'
  <2>1. phase' \in [Dispatchers -> Phases]
    BY DEF PublishOk, PublishError, TypeOK, Phases
  <2>2. faults' \in 0..MaxFaults
    BY OutboxConstants DEF PublishOk, PublishError, TypeOK
  <2> QED
    BY <1>1, <1>2, <2>1, <2>2 DEF PublishOk, PublishError, TypeOK
<1>4. NothingLost'
  BY <1>1 DEF NothingLost, PublishOk, PublishError
<1>5. SettlesPublished'
  BY <1>1, <1>2 DEF SettlesPublished
<1>6. HoldsAccepted'
  BY <1>2 DEF HoldsAccepted, PublishOk, PublishError, IsCurrent
<1> QED
  BY <1>3, <1>4, <1>5, <1>6

\* Inserting a row, entering ClaimBatch, losing a replica, deleting completed
\* rows and the passing of time.
LEMMA OtherIInv ==
    ASSUME IInv,
           \/ \E e \in Events : Enqueue(e)
           \/ \E d \in Dispatchers : BeginClaim(d) \/ Crash(d)
                                     \/ DeleteCompletedBefore(d)
           \/ Tick
    PROVE  IInv'
<1> USE DEF IInv
<1>0. \A c \in Dispatchers : DOMAIN held[c] \subseteq Events
  BY DEF TypeOK
<1>1. ASSUME NEW e \in Events, Enqueue(e) PROVE IInv'
  <2>0. [state |-> "pending", due |-> 0, attempts |-> 0, lane |-> LaneOf[e]] \in Rows
    BY OutboxConstants DEF Rows, States
  <2>1. TypeOK'
    BY <1>1, <2>0 DEF Enqueue, TypeOK
  <2>2. NothingLost' /\ SettlesPublished'
    BY <1>1 DEF Enqueue, TypeOK, NothingLost, SettlesPublished
  <2>3. HoldsAccepted'
    BY <1>0, <1>1 DEF Enqueue, TypeOK, HoldsAccepted
  <2> QED
    BY <2>1, <2>2, <2>3
<1>2. ASSUME NEW d \in Dispatchers, BeginClaim(d) PROVE IInv'
  <2>1. TypeOK'
    BY <1>2 DEF BeginClaim, TypeOK, Phases
  <2>2. NothingLost' /\ SettlesPublished' /\ HoldsAccepted'
    BY <1>2 DEF BeginClaim, TypeOK, NothingLost, SettlesPublished, HoldsAccepted
  <2> QED
    BY <2>1, <2>2
<1>3. ASSUME NEW d \in Dispatchers, Crash(d) PROVE IInv'
  <2>1. /\ held' = [c \in Dispatchers |-> held'[c]]
        /\ held'[d] \in [{} -> Holds] /\ DOMAIN held'[d] = {}
        /\ \A c \in Dispatchers \ {d} : held'[c] = held[c]
    BY <1>3 DEF Crash, TypeOK, EmptyBatch
  <2>2. TypeOK'
    <3>1. \A c \in Dispatchers : \E S \in SUBSET Events : held'[c] \in [S -> Holds]
      BY <2>1 DEF TypeOK
    <3>2. /\ faults' \in 0..MaxFaults
          /\ phase' \in [Dispatchers -> Phases]
          /\ lag' \in [Dispatchers -> Nat]
          /\ sent' \in [Dispatchers -> [event : Events \cup {0}, ok : BOOLEAN]]
      BY <1>3, OutboxConstants DEF Crash, TypeOK, Phases, NothingSent
    <3> QED
      BY <1>3, <2>1, <3>1, <3>2 DEF Crash, TypeOK
  <2>3. NothingLost' /\ SettlesPublished'
    BY <1>3 DEF Crash, TypeOK, NothingLost, SettlesPublished
  <2>4. HoldsAccepted'
    BY <1>3, <2>1 DEF Crash, TypeOK, HoldsAccepted
  <2> QED
    BY <2>2, <2>3, <2>4
<1>4. ASSUME NEW d \in Dispatchers, DeleteCompletedBefore(d) PROVE IInv'
  <2>0. \A e \in Events : /\ row[e] \in Rows
                          /\ Moved(row[e], "deleted", 0) \in Rows
    BY MoveRow DEF TypeOK, States
  <2>1. row' \in [Events -> Rows]
    BY <1>4, <2>0 DEF DeleteCompletedBefore
  <2>2. \A e \in Events : \/ row'[e] = row[e]
                          \/ /\ row[e].state = "completed"
                             /\ row'[e].state = "deleted"
    BY <1>4, <2>0, MoveRow DEF DeleteCompletedBefore, TypeOK, States
  <2>3. TypeOK'
    BY <1>4, <2>1 DEF DeleteCompletedBefore, TypeOK
  <2>4. NothingLost' /\ SettlesPublished' /\ HoldsAccepted'
    BY <1>0, <1>4, <2>2
    DEF DeleteCompletedBefore, NothingLost, SettlesPublished, HoldsAccepted
  <2> QED
    BY <2>3, <2>4
<1>5. ASSUME Tick PROVE IInv'
  <2>1. \A e \in Events : row'[e] \in Rows /\ row'[e].state = row[e].state
    <3> TAKE e \in Events
    <3>1. row[e] \in Rows
      BY DEF TypeOK
    <3>2. Older(row[e].due) \in Int
      BY <3>1, OutboxConstants DEF Older, Horizon, Rows
    <3> QED
      <4>1. row[e].state \in States
        BY <3>1 DEF Rows
      <4>2. row'[e] \in {row[e], Moved(row[e], row[e].state, Older(row[e].due))}
        BY <1>5 DEF Tick
      <4> QED
        BY <3>1, <3>2, <4>1, <4>2, MoveRow
  <2>2. row' \in [Events -> Rows]
    BY <1>5, <2>1 DEF Tick
  <2>3. TypeOK'
    BY <1>5, <2>2 DEF Tick, TypeOK
  <2>4. NothingLost' /\ SettlesPublished' /\ HoldsAccepted'
    BY <1>0, <1>5, <2>1 DEF Tick, NothingLost, SettlesPublished, HoldsAccepted
  <2> QED
    BY <2>3, <2>4
<1> QED
  BY <1>1, <1>2, <1>3, <1>4, <1>5

\* Every step, and a stuttering step, keeps the invariant.
LEMMA NextIInv == IInv /\ [Next]_vars => IInv'
<1> SUFFICES ASSUME IInv, [Next]_vars PROVE IInv'
  OBVIOUS
<1>1. ASSUME NEW d \in Dispatchers, Work(d) \/ Fault(d) PROVE IInv'
  BY <1>1, ClaimBatchIInv, SettleIInv, PublishIInv, OtherIInv DEF Work, Fault
<1>2. CASE UNCHANGED vars
  BY <1>2 DEF vars, IInv, TypeOK, NothingLost, SettlesPublished, HoldsAccepted
<1> QED
  BY <1>1, <1>2, OtherIInv DEF Next

\* Type correctness of the outbox tables and the dispatchers' local state.
THEOREM TypeCorrect == Spec => []TypeOK
<1>1. IInv => TypeOK
  BY DEF IInv
<1> QED
  BY <1>1, InitIInv, NextIInv, PTL DEF Spec

\* For any number of replicas, rows and faults, a row that MarkCompleted or the
\* cleanup has taken off the schedule is on the queue: nothing is lost.
THEOREM OutboxLosesNothing == Spec => []NothingLost
<1>1. IInv => NothingLost
  BY DEF IInv
<1> QED
  BY <1>1, InitIInv, NextIInv, PTL DEF Spec

Settled == {e \in Events : row[e].state \in {"completed", "deleted"}}
Accepted == {e \in Events : row[e].state # "absent"}

\* What a step does to the sets the contract is about: it settles at most one
\* row, a published one; it never unsettles a row or forgets an accepted one.
LEMMA StepSettles ==
    ASSUME IInv, [Next]_vars
    PROVE  \/ /\ Settled' = Settled
              /\ \/ Accepted' = Accepted
                    /\ \/ published' = published
                       \/ \E e \in Accepted : published' = published \cup {e}
                 \/ /\ published' = published
                    /\ \E e \in Events : Accepted' = Accepted \cup {e}
           \/ /\ Accepted' = Accepted /\ published' = published
              /\ \E e \in published \ Settled : Settled' = Settled \cup {e}
<1> DEFINE Same == \A e \in Events : row'[e].state = row[e].state
           Goal == \/ /\ Settled' = Settled
                      /\ \/ Accepted' = Accepted
                            /\ \/ published' = published
                               \/ \E e \in Accepted : published' = published \cup {e}
                         \/ /\ published' = published
                            /\ \E e \in Events : Accepted' = Accepted \cup {e}
                   \/ /\ Accepted' = Accepted /\ published' = published
                      /\ \E e \in published \ Settled : Settled' = Settled \cup {e}
<1> USE DEF IInv
<1>0. \A d \in Dispatchers : DOMAIN held[d] \subseteq Events
  BY DEF TypeOK
<1>1. ASSUME Same PROVE Settled' = Settled /\ Accepted' = Accepted
  BY <1>1 DEF Settled, Accepted
<1>2. ASSUME NEW e \in Events, Enqueue(e) PROVE Goal
  <2>1. Settled' = Settled
    BY <1>2 DEF Enqueue, Settled, TypeOK, Rows
  <2>2. Accepted' = Accepted \cup {e}
    BY <1>2 DEF Enqueue, Accepted, TypeOK, Rows
  <2> QED
    BY <1>2, <2>1, <2>2 DEF Enqueue
<1>3. ASSUME NEW d \in Dispatchers, ClaimBatch(d) PROVE Goal
  <2>1. \A e \in Events : \/ row'[e].state = row[e].state
                          \/ /\ row'[e].state = "processing"
                             /\ row[e].state \in {"pending", "processing"}
    BY <1>3 DEF ClaimBatch, Claimed, Batch, Ready
  <2>2. Settled' = Settled /\ Accepted' = Accepted
    BY <2>1 DEF Settled, Accepted
  <2> QED
    BY <1>3, <2>2 DEF ClaimBatch
<1>4. ASSUME NEW d \in Dispatchers, NEW e \in Events,
             PublishOk(d, e) \/ PublishError(d, e)
      PROVE  Goal
  <2>1. row' = row /\ published' \in {published, published \cup {e}}
    BY <1>4 DEF PublishOk, PublishError
  <2>2. e \in Accepted
    BY <1>0, <1>4 DEF PublishOk, PublishError, IsCurrent, HoldsAccepted, Accepted
  <2>3. Settled' = Settled /\ Accepted' = Accepted
    BY <2>1 DEF Settled, Accepted
  <2> QED
    BY <2>1, <2>2, <2>3
<1>5. ASSUME NEW d \in Dispatchers, NEW e \in Events, MarkCompleted(d, e)
      PROVE  Goal
  <2>1. e \in published /\ published' = published
    BY <1>5 DEF MarkCompleted, SettlesPublished
  <2>2. CASE row[e].state = "processing"
    <3>1. row'[e].state = "completed" /\ \A f \in Events \ {e} : row'[f] = row[f]
      BY <1>5, <2>2 DEF MarkCompleted, Completed, Moved, TypeOK
    <3>2. Settled' = Settled \cup {e} /\ Accepted' = Accepted /\ e \notin Settled
      BY <2>2, <3>1 DEF Settled, Accepted
    <3> QED
      BY <2>1, <3>2
  <2>3. CASE row[e].state # "processing"
    <3>1. Same
      BY <1>5, <2>3 DEF MarkCompleted, Completed, TypeOK
    <3> QED
      BY <1>1, <2>1, <3>1
  <2> QED
    BY <2>2, <2>3
<1>6. ASSUME NEW d \in Dispatchers, NEW e \in Events, ScheduleRetry(d, e)
      PROVE  Goal
  <2>1. \A f \in Events : \/ row'[f].state = row[f].state
                          \/ /\ row[f].state = "processing"
                             /\ row'[f].state = "pending"
    BY <1>6 DEF ScheduleRetry, Retried, Moved, TypeOK
  <2>2. Settled' = Settled /\ Accepted' = Accepted
    BY <2>1 DEF Settled, Accepted
  <2> QED
    BY <1>6, <2>2 DEF ScheduleRetry
<1>7. ASSUME NEW d \in Dispatchers, DeleteCompletedBefore(d) PROVE Goal
  <2>1. \A e \in Events : \/ row'[e].state = row[e].state
                          \/ /\ row[e].state = "completed"
                             /\ row'[e].state = "deleted"
    BY <1>7 DEF DeleteCompletedBefore, Moved
  <2>2. Settled' = Settled /\ Accepted' = Accepted
    BY <2>1 DEF Settled, Accepted
  <2> QED
    BY <1>7, <2>2 DEF DeleteCompletedBefore
<1>8. ASSUME Tick PROVE Goal
  <2>1. Same
    BY <1>8 DEF Tick, Moved
  <2> QED
    BY <1>1, <1>8, <2>1 DEF Tick
<1>9. ASSUME NEW d \in Dispatchers,
             \/ BeginClaim(d) \/ Crash(d)
             \/ \E e \in Events : SettleError(d, e)
      PROVE  Goal
  <2>1. row' = row /\ published' = published
    BY <1>9 DEF BeginClaim, Crash, SettleError
  <2> QED
    BY <1>1, <2>1
<1>10. CASE UNCHANGED vars
  BY <1>1, <1>10 DEF vars
<1> QED
  BY <1>2, <1>3, <1>4, <1>5, <1>6, <1>7, <1>8, <1>9, <1>10 DEF Next, Work, Fault

\* No late ScheduleRetry, claim or cleanup ever puts a completed row back.
THEOREM OutboxCompletedIsFinal == Spec => CompletedIsFinal
<1>1. IInv /\ [Next]_vars =>
        [\A e \in Events : row[e].state \in {"completed", "deleted"}
            => row'[e].state \in {"completed", "deleted"}]_vars
  <2> SUFFICES ASSUME IInv, [Next]_vars, NEW e \in Events,
                      row[e].state \in {"completed", "deleted"}
               PROVE  row'[e].state \in {"completed", "deleted"}
    OBVIOUS
  <2>1. Settled \subseteq Settled'
    BY StepSettles
  <2> QED
    BY <2>1 DEF Settled
<1> QED
  BY <1>1, InitIInv, NextIInv, PTL DEF Spec, CompletedIsFinal

\* The lease protocol implements the at-least-once contract.
THEOREM OutboxImplementsContract == Spec => ImplementsContract
<1>1. Init => Contract!Init
  BY DEF Init, Contract!Init
<1>2. IInv /\ [Next]_vars =>
        [Contract!Next]_<<Accepted, published, Settled>>
  <2> SUFFICES ASSUME IInv, [Next]_vars
               PROVE  [Contract!Next]_<<Accepted, published, Settled>>
    OBVIOUS
  <2>1. published \subseteq Events /\ Accepted \subseteq Events
    BY DEF IInv, TypeOK, Accepted
  <2>2. ASSUME NEW e \in Events, Accepted' = Accepted \cup {e},
               published' = published, Settled' = Settled
        PROVE  Contract!Accept(e)
    BY <2>2 DEF Contract!Accept, Accepted, Settled
  <2>3. ASSUME NEW e \in Accepted, published' = published \cup {e},
               Accepted' = Accepted, Settled' = Settled
        PROVE  Contract!Deliver(e)
    BY <2>3 DEF Contract!Deliver, Accepted, Settled
  <2>4. ASSUME NEW e \in published \ Settled, Settled' = Settled \cup {e},
               published' = published, Accepted' = Accepted
        PROVE  Contract!Settle(e)
    BY <2>4 DEF Contract!Settle, Accepted, Settled
  <2> QED
    BY <2>1, <2>2, <2>3, <2>4, StepSettles DEF Contract!Next
<1> QED
  BY <1>1, <1>2, InitIInv, NextIInv, PTL
  DEF Spec, ImplementsContract, Contract!Spec, Accepted, Settled

-----------------------------------------------------------------------------
(* The order in which a claim takes rows.                                  *)

\* Among rows there is an oldest.
LEMMA Oldest ==
    ASSUME NEW S, S \subseteq Events, S # {}
    PROVE  \E e \in S : \A f \in S : e <= f
<1> DEFINE R == OpToRel(<, Nat)
<1>0. S \subseteq Nat
  BY OutboxConstants
<1>1. IsWellFoundedOn(R, Nat)
  BY NatLessThanWellFounded
<1>2. \A j, k \in Nat : j < k => <<j, k>> \in R
  BY DEF OpToRel
<1> HIDE DEF R
<1>3. PICK e \in S : \A f \in S : <<f, e>> \notin R
  BY <1>0, <1>1, WFMin
<1>4. \A f \in S : f \in Nat /\ e \in Nat /\ ~(f < e)
  BY <1>0, <1>2, <1>3
<1> QED BY <1>4

\* The lanes a claim finds are finitely many, and each has a place among them.
LEMMA LanePlaces ==
    ASSUME TypeOK, NEW l
    PROVE  /\ Cardinality(ReadyLanes(l)) \in Nat
           /\ \A k \in ReadyLanes(l) :
                LanePosition(k, l) \in Nat /\ LanePosition(k, l) < Cardinality(ReadyLanes(l))
<1> DEFINE keys == ReadyLanes(l)
           first == IF cursor = NoLane THEN keys ELSE {j \in keys : j > cursor}
<1>1. IsFiniteSet(keys) /\ keys \subseteq Nat
  <2>1. IsFiniteSet(Lanes \cup {NoLane}) /\ Lanes \cup {NoLane} \subseteq Nat
    BY OutboxConstants, FS_AddElement DEF NoLane
  <2>2. keys \subseteq Lanes \cup {NoLane}
    BY LaneAtType DEF ReadyLanes, Ready
  <2> QED BY <2>1, <2>2, FS_Subset
<1>2. first \subseteq keys
  OBVIOUS
<1>3. \A k \in keys : LanePosition(k, l) =
         IF k \in first THEN Cardinality({j \in first : j < k})
         ELSE Cardinality(first) + Cardinality({j \in keys \ first : j < k})
  BY DEF LanePosition
<1> HIDE DEF keys, first
<1>4. \A T \in SUBSET keys : IsFiniteSet(T) /\ Cardinality(T) \in Nat
  BY <1>1, FS_Subset, FS_CardinalityType
<1>5. \A T \in SUBSET keys : \A k \in T : Cardinality({j \in T : j < k}) + 1 <= Cardinality(T)
  <2> SUFFICES ASSUME NEW T \in SUBSET keys, NEW k \in T
               PROVE  Cardinality({j \in T : j < k}) + 1 <= Cardinality(T)
    OBVIOUS
  <2> DEFINE U == {j \in T : j < k}
  <2>1. U \in SUBSET (T \ {k}) /\ T \ {k} \in SUBSET keys /\ U \in SUBSET keys
    <3>1. k \in Nat /\ ~(k < k)
      BY <1>1
    <3> QED BY <3>1
  <2>2. Cardinality(T \ {k}) = Cardinality(T) - 1
    BY <1>4, FS_RemoveElement
  <2>3. Cardinality(U) <= Cardinality(T \ {k})
    BY <1>4, <2>1, FS_Subset
  <2> HIDE DEF U
  <2>4. Cardinality(U) + 1 <= Cardinality(T)
    BY <1>4, <2>1, <2>2, <2>3
  <2> QED BY <2>4 DEF U
<1>6. Cardinality(first) + Cardinality(keys \ first) = Cardinality(keys)
  <2>1. first \cup (keys \ first) = keys /\ first \cap (keys \ first) = {}
    BY <1>2
  <2>2. IsFiniteSet(first) /\ IsFiniteSet(keys \ first)
    BY <1>2, <1>4
  <2>3. Cardinality(keys) = Cardinality(first) + Cardinality(keys \ first) - 0
    BY <2>1, <2>2, FS_Union, FS_EmptySet
  <2> QED BY <1>2, <1>4, <2>3
<1>7. ASSUME NEW k \in keys
      PROVE  LanePosition(k, l) \in Nat /\ LanePosition(k, l) < Cardinality(keys)
  <2>1. {j \in first : j < k} \in SUBSET keys /\ {j \in keys \ first : j < k} \in SUBSET keys
    BY <1>2
  <2>2. /\ Cardinality(first) \in Nat /\ Cardinality(keys \ first) \in Nat
        /\ Cardinality({j \in first : j < k}) \in Nat
        /\ Cardinality({j \in keys \ first : j < k}) \in Nat
    BY <1>2, <1>4, <2>1
  <2>3. CASE k \in first
    BY <1>2, <1>3, <1>5, <1>6, <2>2, <2>3
  <2>4. CASE k \notin first
    <3>1. Cardinality({j \in keys \ first : j < k}) + 1 <= Cardinality(keys \ first)
      BY <1>5, <2>4
    <3>2. LanePosition(k, l) = Cardinality(first) + Cardinality({j \in keys \ first : j < k})
      BY <1>3, <2>4
    <3> QED BY <1>6, <2>2, <3>1, <3>2
  <2> QED BY <2>3, <2>4
<1> QED BY <1>4, <1>7 DEF keys

\* The oldest ready row of a lane has its turn before the second of any lane.
LEMMA FirstRoundFirst ==
    ASSUME TypeOK, NEW l, NEW e \in Ready(l), NEW f \in Ready(l), NEW g \in Ready(l),
           \A h \in Ready(l) : LaneAt(h, l) = LaneAt(e, l) => e <= h,
           LaneAt(f, l) = LaneAt(g, l), f < g
    PROVE  Turn(e, l) \in Nat /\ Turn(g, l) \in Nat /\ Turn(e, l) < Turn(g, l)
<1> DEFINE ahead(h) == {i \in Ready(l) : LaneAt(i, l) = LaneAt(h, l) /\ i < h}
           n == Cardinality(ReadyLanes(l))
<1>1. Ready(l) \subseteq Events /\ Ready(l) \subseteq Nat
  BY OutboxConstants DEF Ready
<1>2. LaneAt(e, l) \in ReadyLanes(l) /\ LaneAt(g, l) \in ReadyLanes(l)
  BY DEF ReadyLanes
<1>3. /\ n \in Nat /\ LanePosition(LaneAt(e, l), l) \in Nat /\ LanePosition(LaneAt(g, l), l) \in Nat
      /\ LanePosition(LaneAt(e, l), l) < n
  BY <1>2, LanePlaces
<1>4. ahead(e) = {}
  BY <1>1
<1>5. Cardinality(ahead(e)) = 0
  BY <1>4, FS_EmptySet
<1>6. Cardinality(ahead(g)) \in Nat /\ Cardinality(ahead(g)) >= 1
  <2>1. ahead(g) \subseteq Events /\ f \in ahead(g)
    BY <1>1
  <2>2. IsFiniteSet(ahead(g)) /\ Cardinality(ahead(g)) \in Nat
    BY <2>1, OutboxConstants, FS_Subset, FS_CardinalityType
  <2>3. Cardinality(ahead(g)) # 0
    BY <2>1, <2>2, FS_EmptySet
  <2> QED BY <2>2, <2>3
<1>7. /\ Turn(e, l) = Cardinality(ahead(e)) * n + LanePosition(LaneAt(e, l), l)
      /\ Turn(g, l) = Cardinality(ahead(g)) * n + LanePosition(LaneAt(g, l), l)
  BY DEF Turn
<1> HIDE DEF ahead, n
<1>8. \A i, j \in Nat : i >= 1 => i * j >= j /\ i * j \in Nat
  OBVIOUS
<1>9. Cardinality(ahead(g)) * n >= n /\ Cardinality(ahead(g)) * n \in Nat
  BY <1>3, <1>6, <1>8
<1>10. Cardinality(ahead(e)) * n = 0
  BY <1>3, <1>5
<1> QED BY <1>3, <1>7, <1>9, <1>10

\* The turn of a ready row is a number.
LEMMA TurnType ==
    ASSUME TypeOK, NEW l, NEW i \in Ready(l)
    PROVE  Turn(i, l) \in Nat
<1>1. LaneAt(i, l) \in ReadyLanes(l)
  BY DEF ReadyLanes
<1>2. Cardinality(ReadyLanes(l)) \in Nat /\ LanePosition(LaneAt(i, l), l) \in Nat
  BY <1>1, LanePlaces
<1>3. Cardinality({j \in Ready(l) : LaneAt(j, l) = LaneAt(i, l) /\ j < i}) \in Nat
  BY CountRows DEF Ready
<1>4. \A j, k, m \in Nat : j * k + m \in Nat
  OBVIOUS
<1> QED BY <1>2, <1>3, <1>4 DEF Turn

\* A batch that has two rows of one lane has a row of every ready lane.
LEMMA BatchIsFair ==
    ASSUME TypeOK, NEW l, NEW e \in Ready(l), NEW f \in Batch(l), NEW g \in Batch(l),
           f # g, LaneAt(f, l) = LaneAt(g, l)
    PROVE  \E h \in Batch(l) : LaneAt(h, l) = LaneAt(e, l)
<1> DEFINE lane == {i \in Ready(l) : LaneAt(i, l) = LaneAt(e, l)}
<1>1. Ready(l) \subseteq Events /\ Ready(l) \subseteq Nat /\ f \in Ready(l) /\ g \in Ready(l)
  BY OutboxConstants DEF Ready, Batch
<1>2. PICK h \in lane : \A i \in lane : h <= i
  BY <1>1, Oldest
<1>3. PICK later \in {f, g} : Turn(h, l) \in Nat /\ Turn(later, l) \in Nat /\ Turn(h, l) < Turn(later, l)
  <2>1. CASE f < g
    BY <1>1, <1>2, <2>1, FirstRoundFirst
  <2>2. CASE g < f
    BY <1>1, <1>2, <2>2, FirstRoundFirst
  <2> QED BY <1>1, <2>1, <2>2
<1>4. \A i \in Ready(l) : Turn(i, l) \in Nat
  BY TurnType
<1>5. Before(h, l) \subseteq Before(later, l) /\ Before(later, l) \subseteq Events
  BY <1>1, <1>3, <1>4 DEF Before
<1>6. Cardinality(Before(h, l)) <= Cardinality(Before(later, l))
  BY <1>5, OutboxConstants, FS_Subset
<1>7. Cardinality(Before(h, l)) \in Nat /\ Cardinality(Before(later, l)) \in Nat
  BY <1>5, CountRows
<1>8. Cardinality(Before(later, l)) < Limit
  BY <1>3 DEF Batch
<1>9. h \in Batch(l)
  BY <1>2, <1>6, <1>7, <1>8, OutboxConstants DEF Batch
<1> QED BY <1>2, <1>9

\* For any rows, lanes, cursor and batch size, claimFairRows gives every ready
\* lane a row before any lane gets a second.
THEOREM OutboxFairBatch == Spec => FairBatch
<1> DEFINE Fair == \A d \in Dispatchers :
                     phase[d] = "claiming" /\ phase'[d] = "publishing" =>
                       LET B == DOMAIN held'[d]
                           Ready0 == Ready(lag[d])
                       IN  \A e \in Ready0 \ B : \A f, g \in B :
                             (f # g /\ row'[f].lane = row'[g].lane)
                               => \E h \in B : row'[h].lane = row'[e].lane
<1>1. TypeOK /\ [Next]_vars => [Fair]_vars
  <2> SUFFICES ASSUME TypeOK, Next, NEW d \in Dispatchers,
                      phase[d] = "claiming", phase'[d] = "publishing",
                      NEW e \in Ready(lag[d]), NEW f \in DOMAIN held'[d], NEW g \in DOMAIN held'[d],
                      f # g, row'[f].lane = row'[g].lane
               PROVE  \E h \in DOMAIN held'[d] : row'[h].lane = row'[e].lane
    BY DEF vars
  <2>1. ClaimBatch(d)
    <3>1. ASSUME NEW c \in Dispatchers, Work(c) \/ Fault(c) \/ DeleteCompletedBefore(c)
          PROVE  c = d /\ ClaimBatch(c)
      BY <3>1 DEF TypeOK, Work, Fault, BeginClaim, ClaimBatch, PublishOk, PublishError, MarkCompleted,
           ScheduleRetry, SettleError, Advance, Crash, DeleteCompletedBefore
    <3>2. \A c \in Events : ~Enqueue(c)
      BY DEF Enqueue
    <3>3. ~Tick
      BY DEF Tick
    <3> QED BY <3>1, <3>2, <3>3 DEF Next
  <2>2. DOMAIN held'[d] = Batch(lag[d])
    BY <2>1 DEF ClaimBatch, TypeOK
  <2>3. \A i \in Events : row'[i].lane = LaneAt(i, lag[d])
    BY <2>1 DEF ClaimBatch, Claimed
  <2>4. Batch(lag[d]) \subseteq Events /\ e \in Events
    BY DEF Batch, Ready
  <2> QED BY <2>2, <2>3, <2>4, BatchIsFair
<1> QED
  BY <1>1, TypeCorrect, PTL DEF Spec, FairBatch

-----------------------------------------------------------------------------
(***************************************************************************)
(* No lane is starved.  A batch that leaves a ready lane out serves Limit  *)
(* other lanes, and its cursor comes that much closer to the lane.         *)
(***************************************************************************)

\* The lanes that come after c and before k, going round.
Between(c, k) ==
    IF c < k THEN {j \in Lanes : c < j /\ j < k} ELSE {j \in Lanes : c < j \/ j < k}

\* Only rows older than the column may be scheduled without a lane.
LanesKnown == \A e \in Events : row[e].lane = NoLane => row[e].state = "absent" \/ e \in Legacy

\* The inductive invariant: what a lane was passed over and what may still be
\* served before it make less than all lanes.
LanesApproach ==
    /\ passed \in [Lanes -> Nat]
    /\ \A k \in Lanes : passed[k] * Limit + Cardinality(Between(cursor, k)) <= Cardinality(Lanes) - 1

\* A lane is never among those before it.
LEMMA BetweenCounts ==
    ASSUME NEW c, NEW k \in Lanes
    PROVE  /\ IsFiniteSet(Between(c, k)) /\ Cardinality(Between(c, k)) \in Nat
           /\ Cardinality(Lanes) \in Nat
           /\ Cardinality(Between(c, k)) <= Cardinality(Lanes) - 1
<1>1. IsFiniteSet(Lanes) /\ k \in Nat
  BY OutboxConstants
<1>2. Between(c, k) \subseteq Lanes \ {k}
  BY OutboxConstants DEF Between
<1>3. IsFiniteSet(Lanes \ {k}) /\ Cardinality(Lanes \ {k}) = Cardinality(Lanes) - 1
  BY <1>1, FS_RemoveElement
<1> QED BY <1>1, <1>2, <1>3, FS_Subset, FS_CardinalityType

\* Among the keys of a claim, the lanes before k have an earlier place.
LEMMA PlacesFollow ==
    ASSUME TypeOK, NEW l, ReadyLanes(l) \subseteq Lanes,
           NEW j \in ReadyLanes(l), NEW k \in ReadyLanes(l), j \in Between(cursor, k)
    PROVE  /\ LanePosition(j, l) \in Nat /\ LanePosition(k, l) \in Nat
           /\ LanePosition(j, l) < LanePosition(k, l)
<1> DEFINE keys == ReadyLanes(l)
           first == IF cursor = NoLane THEN keys ELSE {i \in keys : i > cursor}
<1>1. IsFiniteSet(keys) /\ keys \subseteq Nat \ {0} /\ cursor \in Nat
  <2>1. IsFiniteSet(Lanes) /\ Lanes \subseteq Nat \ {0}
    BY OutboxConstants DEF NoLane
  <2> QED BY <2>1, FS_Subset DEF TypeOK, NoLane
<1>2. first \subseteq keys /\ \A i \in keys : i \in first <=> i > cursor
  BY <1>1 DEF NoLane
<1>3. \A i \in keys : LanePosition(i, l) =
         IF i \in first THEN Cardinality({h \in first : h < i})
         ELSE Cardinality(first) + Cardinality({h \in keys \ first : h < i})
  BY DEF LanePosition
<1>4. j \in keys /\ k \in keys /\ IF cursor < k THEN cursor < j /\ j < k ELSE cursor < j \/ j < k
  BY DEF Between
<1> HIDE DEF keys, first
<1>5. \A T \in SUBSET keys : IsFiniteSet(T) /\ Cardinality(T) \in Nat
  BY <1>1, FS_Subset, FS_CardinalityType
<1>6. \A T \in SUBSET keys : \A i \in keys :
        /\ Cardinality({h \in T : h < i}) \in Nat
        /\ i \in T => Cardinality({h \in T : h < i}) + 1 <= Cardinality(T)
        /\ i \in T => \A m \in keys : i < m =>
             Cardinality({h \in T : h < i}) + 1 <= Cardinality({h \in T : h < m})
  <2>1. ASSUME NEW T \in SUBSET keys, NEW U \in SUBSET T, NEW i \in T \ U
        PROVE  Cardinality(U) + 1 <= Cardinality(T)
    <3>1. Cardinality(T \ {i}) = Cardinality(T) - 1 /\ T \ {i} \in SUBSET keys /\ U \in SUBSET keys
      BY <1>5, FS_RemoveElement
    <3>2. Cardinality(U) <= Cardinality(T \ {i})
      BY <1>5, <3>1, FS_Subset
    <3> QED BY <1>5, <3>1, <3>2
  <2>0. \A h, i, m \in keys : ~(h < h) /\ (h < i /\ i < m => h < m)
    <3>1. \A h \in keys : h \in Nat
      BY <1>1
    <3> QED BY <3>1
  <2> TAKE T \in SUBSET keys
  <2> TAKE i \in keys
  <2>2. {h \in T : h < i} \in SUBSET T /\ {h \in T : h < i} \in SUBSET keys /\ i \notin {h \in T : h < i}
    BY <2>0
  <2>3. ASSUME i \in T, NEW m \in keys, i < m
        PROVE  Cardinality({h \in T : h < i}) + 1 <= Cardinality({h \in T : h < m})
    <3> DEFINE U == {h \in T : h < i}
               V == {h \in T : h < m}
    <3>1. V \in SUBSET keys /\ i \in V \ U
      BY <2>0, <2>3
    <3>2. U \in SUBSET V
      BY <2>0, <2>3
    <3> HIDE DEF U, V
    <3>3. Cardinality(U) + 1 <= Cardinality(V)
      BY <2>1, <3>1, <3>2
    <3> QED BY <3>3 DEF U, V
  <2>4. i \in T => Cardinality({h \in T : h < i}) + 1 <= Cardinality(T)
    <3> DEFINE U == {h \in T : h < i}
    <3>1. U \in SUBSET T /\ i \notin U
      BY <2>2
    <3> HIDE DEF U
    <3>2. i \in T => Cardinality(U) + 1 <= Cardinality(T)
      BY <2>1, <3>1
    <3> QED BY <3>2 DEF U
  <2> QED BY <1>5, <2>2, <2>3, <2>4
<1>7. first \in SUBSET keys /\ keys \ first \in SUBSET keys
  BY <1>2
<1>8. Cardinality(first) \in Nat /\ j \in Nat /\ k \in Nat
  BY <1>1, <1>4, <1>5, <1>7
<1>9. CASE j \in first /\ k \in first
  <2>1. j < k
    BY <1>1, <1>2, <1>4, <1>9
  <2>2. Cardinality({h \in first : h < j}) + 1 <= Cardinality({h \in first : h < k})
    BY <1>4, <1>6, <1>7, <1>9, <2>1
  <2>3. Cardinality({h \in first : h < j}) \in Nat /\ Cardinality({h \in first : h < k}) \in Nat
    BY <1>4, <1>6, <1>7
  <2>4. /\ LanePosition(j, l) = Cardinality({h \in first : h < j})
        /\ LanePosition(k, l) = Cardinality({h \in first : h < k})
    BY <1>3, <1>4, <1>9
  <2> QED BY <2>2, <2>3, <2>4
<1>10. CASE j \in first /\ k \notin first
  <2>1. Cardinality({h \in first : h < j}) + 1 <= Cardinality(first)
    BY <1>4, <1>6, <1>7, <1>10
  <2>2. Cardinality({h \in first : h < j}) \in Nat /\ Cardinality({h \in keys \ first : h < k}) \in Nat
    BY <1>4, <1>6, <1>7
  <2>3. /\ LanePosition(j, l) = Cardinality({h \in first : h < j})
        /\ LanePosition(k, l) = Cardinality(first) + Cardinality({h \in keys \ first : h < k})
    BY <1>3, <1>4, <1>10
  <2> QED BY <1>8, <2>1, <2>2, <2>3
<1>11. CASE j \notin first
  <2>1. k \notin first /\ j < k
    BY <1>1, <1>2, <1>4, <1>11
  <2>2. Cardinality({h \in keys \ first : h < j}) + 1 <= Cardinality({h \in keys \ first : h < k})
    BY <1>4, <1>6, <1>7, <1>11, <2>1
  <2>3. Cardinality({h \in keys \ first : h < j}) \in Nat /\ Cardinality({h \in keys \ first : h < k}) \in Nat
    BY <1>4, <1>6, <1>7
  <2>4. /\ LanePosition(j, l) = Cardinality(first) + Cardinality({h \in keys \ first : h < j})
        /\ LanePosition(k, l) = Cardinality(first) + Cardinality({h \in keys \ first : h < k})
    BY <1>3, <1>4, <1>11, <2>1
  <2> QED BY <1>8, <2>2, <2>3, <2>4
<1> QED BY <1>9, <1>10, <1>11

\* The oldest ready row of a lane has the lane's place for its turn.
LEMMA FirstTurn ==
    ASSUME TypeOK, NEW l, NEW i \in Ready(l),
           \A h \in Ready(l) : LaneAt(h, l) = LaneAt(i, l) => i <= h
    PROVE  Turn(i, l) = LanePosition(LaneAt(i, l), l)
<1> DEFINE older == {h \in Ready(l) : LaneAt(h, l) = LaneAt(i, l) /\ h < i}
           n == Cardinality(ReadyLanes(l))
<1>1. Ready(l) \subseteq Nat
  BY OutboxConstants DEF Ready
<1>2. older = {}
  BY <1>1
<1>3. Cardinality(older) = 0
  BY <1>2, FS_EmptySet
<1>4. LaneAt(i, l) \in ReadyLanes(l)
  BY DEF ReadyLanes
<1>5. n \in Nat /\ LanePosition(LaneAt(i, l), l) \in Nat
  BY <1>4, LanePlaces
<1>6. Turn(i, l) = Cardinality(older) * n + LanePosition(LaneAt(i, l), l)
  BY DEF Turn
<1> HIDE DEF older, n
<1> QED BY <1>3, <1>5, <1>6

\* A claim that leaves a ready row out takes Limit rows, each with an earlier turn.
LEMMA BatchIsFull ==
    ASSUME TypeOK, NEW l, NEW e \in Ready(l), e \notin Batch(l)
    PROVE  /\ IsFiniteSet(Batch(l)) /\ Cardinality(Batch(l)) \in Nat
           /\ Cardinality(Batch(l)) >= Limit
           /\ \A g \in Batch(l) : Turn(g, l) < Turn(e, l)
<1>1. /\ IsFiniteSet(Ready(l)) /\ Ready(l) \subseteq Events /\ Batch(l) \subseteq Ready(l)
      /\ Limit \in Nat
  BY OutboxConstants, FS_Subset DEF Ready, Batch
<1>2. \A i \in Ready(l) : Turn(i, l) \in Nat /\ Before(i, l) \subseteq Events
  BY <1>1, TurnType DEF Before
<1>3. \A i \in Ready(l) : Cardinality(Before(i, l)) \in Nat /\ IsFiniteSet(Before(i, l))
  BY <1>2, CountRows, OutboxConstants, FS_Subset
<1>4. IsFiniteSet(Batch(l)) /\ Cardinality(Batch(l)) \in Nat
  BY <1>1, FS_Subset, FS_CardinalityType
<1>5. Cardinality(Batch(l)) >= Limit
  <2> DEFINE rest == {Turn(i, l) : i \in Ready(l) \ Batch(l)}
             R == OpToRel(<, Nat)
  <2>1. rest \subseteq Nat /\ rest # {}
    BY <1>2
  <2>2. IsWellFoundedOn(R, Nat)
    BY NatLessThanWellFounded
  <2>3. \A j, k \in Nat : j < k => <<j, k>> \in R
    BY DEF OpToRel
  <2> HIDE DEF R, rest
  <2>4. PICK t \in rest : \A u \in rest : <<u, t>> \notin R
    BY <2>1, <2>2, WFMin
  <2>5. \A u \in rest : u \in Nat /\ t \in Nat /\ ~(u < t)
    BY <2>1, <2>3, <2>4
  <2>6. PICK i \in Ready(l) \ Batch(l) : Turn(i, l) = t
    BY DEF rest
  <2>7. \A j \in Ready(l) \ Batch(l) : ~(Turn(j, l) < Turn(i, l))
    <3> TAKE j \in Ready(l) \ Batch(l)
    <3>1. Turn(j, l) \in rest
      BY DEF rest
    <3> QED BY <2>5, <2>6, <3>1
  <2>8. Before(i, l) \subseteq Batch(l)
    BY <2>7 DEF Before
  <2>9. Cardinality(Before(i, l)) <= Cardinality(Batch(l))
    BY <1>4, <2>8, FS_Subset
  <2>10. ~(Cardinality(Before(i, l)) < Limit)
    BY <2>6 DEF Batch
  <2> QED BY <1>1, <1>3, <1>4, <2>6, <2>9, <2>10
<1>6. ASSUME NEW g \in Batch(l)
      PROVE  Turn(g, l) < Turn(e, l)
  <2> SUFFICES ASSUME ~(Turn(g, l) < Turn(e, l)) PROVE FALSE
    OBVIOUS
  <2>1. g \in Ready(l) /\ Cardinality(Before(g, l)) < Limit /\ ~(Cardinality(Before(e, l)) < Limit)
    BY DEF Batch
  <2>2. Turn(e, l) <= Turn(g, l)
    BY <1>2, <2>1
  <2>3. Before(e, l) \subseteq Before(g, l)
    BY <1>2, <2>1, <2>2 DEF Before
  <2>4. Cardinality(Before(e, l)) <= Cardinality(Before(g, l))
    BY <1>3, <2>1, <2>3, FS_Subset
  <2> QED BY <1>1, <1>3, <2>1, <2>4
<1> QED BY <1>4, <1>5, <1>6

\* Going round from c, one of two lanes comes first; and what comes between m
\* and k is not at or before m, where m itself comes before k.
LEMMA GoesRound ==
    ASSUME NEW c \in Nat, NEW i \in Lanes, NEW k \in Lanes
    PROVE  /\ i # k => i \in Between(c, k) \/ k \in Between(c, i)
           /\ \A m \in Lanes : m \in Between(c, k) /\ i \in Between(m, k) =>
                i \in Between(c, k) /\ i # m /\ i \notin Between(c, m)
<1>1. Lanes \subseteq Nat
  BY OutboxConstants
<1>2. \A d \in Nat : \A j, m \in Lanes :
        j \in Between(d, m) <=> IF d < m THEN d < j /\ j < m ELSE d < j \/ j < m
  BY DEF Between
<1>3. i # k => i \in Between(c, k) \/ k \in Between(c, i)
  <2>1. i \in Nat /\ k \in Nat
    BY <1>1
  <2>2. /\ i \in Between(c, k) <=> IF c < k THEN c < i /\ i < k ELSE c < i \/ i < k
        /\ k \in Between(c, i) <=> IF c < i THEN c < k /\ k < i ELSE c < k \/ k < i
    BY <1>2
  <2> QED BY <2>1, <2>2
<1>4. ASSUME NEW m \in Lanes, m \in Between(c, k), i \in Between(m, k)
      PROVE  i \in Between(c, k) /\ i # m /\ i \notin Between(c, m)
  <2>1. i \in Nat /\ k \in Nat /\ m \in Nat
    BY <1>1
  <2>2. /\ i \in Between(c, k) <=> IF c < k THEN c < i /\ i < k ELSE c < i \/ i < k
        /\ IF c < k THEN c < m /\ m < k ELSE c < m \/ m < k
        /\ IF m < k THEN m < i /\ i < k ELSE m < i \/ i < k
        /\ i \in Between(c, m) <=> IF c < m THEN c < i /\ i < m ELSE c < i \/ i < m
    BY <1>2, <1>4, <2>1
  <2> QED BY <2>1, <2>2
<1> QED BY <1>3, <1>4

\* A batch that leaves lane k out moves the cursor past Limit lanes before k.
LEMMA SkippedComesCloser ==
    ASSUME TypeOK, NEW l, ReadyLanes(l) \subseteq Lanes, NEW k \in ReadyLanes(l),
           \A g \in Batch(l) : LaneAt(g, l) # k,
           NEW last, IsLast(last, Batch(l), l)
    PROVE  Limit + Cardinality(Between(LaneAt(last, l), k)) <= Cardinality(Between(cursor, k))
<1> DEFINE B == Batch(l)
           lane(g) == LaneAt(g, l)
           S == {lane(g) : g \in B}
<1>1. /\ Ready(l) \subseteq Events /\ Ready(l) \subseteq Nat /\ B \subseteq Ready(l) /\ last \in B
      /\ \A g \in Ready(l) : lane(g) \in ReadyLanes(l)
      /\ Lanes \subseteq Nat /\ IsFiniteSet(Lanes) /\ Limit \in Nat
      /\ cursor \in Nat
  BY OutboxConstants DEF Ready, Batch, IsLast, ReadyLanes, TypeOK, NoLane
<1>2. PICK e \in Ready(l) : lane(e) = k /\ \A h \in Ready(l) : lane(h) = k => e <= h
  <2> DEFINE mine == {h \in Ready(l) : lane(h) = k}
  <2>1. mine \subseteq Events /\ mine # {}
    BY <1>1 DEF ReadyLanes
  <2>2. PICK e \in mine : \A h \in mine : e <= h
    BY <2>1, Oldest
  <2> QED BY <2>2
<1>3. e \notin B
  BY <1>2
<1>4. IsFiniteSet(B) /\ Cardinality(B) \in Nat /\ Cardinality(B) >= Limit /\ \A g \in B : Turn(g, l) < Turn(e, l)
  BY <1>3, BatchIsFull
<1>5. ASSUME NEW g \in B, NEW h \in Ready(l), lane(h) = lane(g)
      PROVE  g <= h
  <2> SUFFICES ASSUME h < g PROVE FALSE
    BY <1>1
  <2>1. Turn(e, l) \in Nat /\ Turn(g, l) \in Nat /\ Turn(e, l) < Turn(g, l)
    BY <1>1, <1>2, <1>5, FirstRoundFirst
  <2> QED BY <1>4, <2>1
<1>6. /\ \A g \in B : Turn(g, l) = LanePosition(lane(g), l)
      /\ Turn(e, l) = LanePosition(k, l)
  <2>1. \A g \in B : Turn(g, l) = LanePosition(lane(g), l)
    BY <1>1, <1>5, FirstTurn
  <2>2. Turn(e, l) = LanePosition(lane(e), l)
    BY <1>2, FirstTurn
  <2> QED BY <1>2, <2>1, <2>2
<1>7. \A g, h \in B : lane(g) = lane(h) => g = h
  <2> SUFFICES ASSUME NEW g \in B, NEW h \in B, lane(g) = lane(h) PROVE g = h
    OBVIOUS
  <2>1. g <= h /\ h <= g
    BY <1>1, <1>5
  <2> QED BY <1>1, <2>1
<1>8. S \subseteq ReadyLanes(l) /\ k \notin S /\ lane(last) \in S
  BY <1>1
<1>9. IsFiniteSet(S) /\ Cardinality(S) \in Nat /\ Cardinality(S) >= Limit
  <2>1. IsFiniteSet(S)
    BY <1>1, <1>8, FS_Subset
  <2> DEFINE f == [g \in B |-> lane(g)]
  <2>2. f \in Injection(B, S)
    BY <1>7 DEF Injection, IsInjective
  <2>3. Cardinality(B) <= Cardinality(S)
    BY <2>1, <2>2, FS_Injection
  <2>4. Cardinality(S) \in Nat
    BY <2>1, FS_CardinalityType
  <2> HIDE DEF S, B
  <2> QED BY <1>1, <1>4, <2>1, <2>3, <2>4
<1>10. ASSUME NEW i \in ReadyLanes(l), NEW j \in ReadyLanes(l), i # j, LanePosition(i, l) <= LanePosition(j, l)
       PROVE  i \in Between(cursor, j)
  <2>1. i \in Between(cursor, j) \/ j \in Between(cursor, i)
    BY <1>1, <1>10, GoesRound
  <2>2. ~(j \in Between(cursor, i))
    <3> SUFFICES ASSUME j \in Between(cursor, i) PROVE FALSE
      OBVIOUS
    <3>1. LanePosition(j, l) \in Nat /\ LanePosition(i, l) \in Nat /\ LanePosition(j, l) < LanePosition(i, l)
      BY PlacesFollow
    <3> QED BY <1>10, <3>1
  <2> QED BY <2>1, <2>2
<1>11. \A j \in ReadyLanes(l) : LanePosition(j, l) \in Nat
  BY LanePlaces
<1>12. \A j \in S : j \in Between(cursor, k)
  <2> TAKE j \in S
  <2>1. PICK g \in B : j = lane(g)
    OBVIOUS
  <2>2. LanePosition(j, l) <= LanePosition(k, l)
    BY <1>4, <1>6, <1>8, <1>11, <2>1
  <2> HIDE DEF S
  <2> QED BY <1>8, <1>10, <2>2
<1>13. \A j \in S : j = lane(last) \/ j \in Between(cursor, lane(last))
  <2> TAKE j \in S
  <2>1. PICK g \in B : j = lane(g)
    OBVIOUS
  <2>2. LanePosition(j, l) <= LanePosition(lane(last), l)
    BY <1>1, <1>6, <2>1 DEF IsLast
  <2> HIDE DEF S
  <2> QED BY <1>8, <1>10, <2>2
<1> DEFINE T == Between(lane(last), k)
<1> HIDE DEF S, lane, B
<1>14. lane(last) \in Between(cursor, k) /\ lane(last) \in Lanes /\ k \in Lanes
  BY <1>8, <1>12
<1>15. T \subseteq Between(cursor, k) /\ S \cap T = {}
  <2>1. \A j \in Lanes : j \in T =>
          j \in Between(cursor, k) /\ j # lane(last) /\ j \notin Between(cursor, lane(last))
    BY <1>1, <1>14, GoesRound
  <2>2. T \subseteq Lanes
    BY DEF Between
  <2> HIDE DEF T
  <2> QED BY <1>13, <2>1, <2>2
<1>17. /\ IsFiniteSet(T) /\ Cardinality(T) \in Nat
       /\ IsFiniteSet(Between(cursor, k)) /\ Cardinality(Between(cursor, k)) \in Nat
  BY BetweenCounts
<1> HIDE DEF T
<1>18. Cardinality(S \cup T) = Cardinality(S) + Cardinality(T) - 0
  BY <1>9, <1>15, <1>17, FS_Union, FS_EmptySet
<1>19. Cardinality(S \cup T) <= Cardinality(Between(cursor, k))
  BY <1>12, <1>15, <1>17, FS_Subset
<1>20. Limit + Cardinality(T) <= Cardinality(Between(cursor, k))
  BY <1>1, <1>9, <1>17, <1>18, <1>19
<1> QED BY <1>20 DEF T, lane

\* With few legacy rows a claim gives each of them its lane first.
LEMMA LanesOnly ==
    ASSUME TypeOK, LanesKnown, FewLegacy, NEW l
    PROVE  ReadyLanes(l) \subseteq Lanes
<1> SUFFICES ASSUME NEW e \in Ready(l) PROVE LaneAt(e, l) \in Lanes
  BY DEF ReadyLanes
<1> DEFINE legacy == {f \in Ready(l) : row[f].lane = NoLane}
           older == {f \in legacy : f < e}
<1>1. /\ e \in Events /\ Ready(l) \subseteq Events /\ Events \subseteq Nat
      /\ \A f \in Ready(l) : row[f].state # "absent" /\ row[f].lane \in Lanes \cup {NoLane}
  BY OutboxConstants DEF Ready, TypeOK, Rows
<1>2. CASE row[e].lane = NoLane
  <2>0. \A f \in legacy : f \in Legacy /\ f \in Nat
    BY <1>1 DEF LanesKnown
  <2>1. e \in Legacy /\ older \in SUBSET (Legacy \ {e})
    <3>1. e \in legacy /\ ~(e < e)
      BY <1>1, <1>2
    <3> QED BY <2>0, <3>1
  <2>2. IsFiniteSet(Legacy) /\ Cardinality(Legacy) \in Nat
    BY OutboxConstants, FS_Subset, FS_CardinalityType
  <2>3. /\ IsFiniteSet(Legacy \ {e}) /\ Cardinality(Legacy \ {e}) = Cardinality(Legacy) - 1
        /\ Cardinality(older) <= Cardinality(Legacy \ {e}) /\ Cardinality(older) \in Nat
    BY <2>1, <2>2, FS_RemoveElement, FS_Subset, FS_CardinalityType
  <2>4. Cardinality(older) < 4 * Limit
    BY <2>2, <2>3, OutboxConstants DEF FewLegacy
  <2>5. e \in Normalized(l)
    BY <1>2, <2>4 DEF Normalized
  <2> QED BY <1>1, <2>5, OutboxConstants DEF LaneAt
<1>3. CASE row[e].lane # NoLane
  BY <1>1, <1>3, OutboxConstants DEF LaneAt
<1> QED BY <1>2, <1>3

\* A row written since the column exists keeps its lane.
LEMMA KnownNext == TypeOK /\ LanesKnown /\ [Next]_vars => LanesKnown'
<1> SUFFICES ASSUME TypeOK, LanesKnown, [Next]_vars, NEW e \in Events,
                    row'[e].lane = NoLane, row'[e].state # "absent"
             PROVE  e \in Legacy
  BY DEF LanesKnown
<1>1. row[e].lane = NoLane => row[e].state = "absent" \/ e \in Legacy
  BY DEF LanesKnown
<1>2. LaneOf[e] # NoLane
  BY OutboxConstants
<1>3. CASE UNCHANGED vars
  BY <1>1, <1>3 DEF vars
<1>4. ASSUME NEW f \in Events, Enqueue(f) PROVE e \in Legacy
  BY <1>1, <1>2, <1>4 DEF Enqueue, TypeOK
<1>5. ASSUME NEW d \in Dispatchers, ClaimBatch(d) PROVE e \in Legacy
  <2>1. row'[e] = Claimed(e, Batch(lag[d]), lag[d])
    BY <1>5 DEF ClaimBatch
  <2>2. row'[e].lane = LaneAt(e, lag[d])
    BY <2>1 DEF Claimed
  <2>3. row[e].lane = NoLane
    BY <1>2, <2>2 DEF LaneAt
  <2>4. row[e].state = "absent" => e \notin Batch(lag[d])
    BY DEF Batch, Ready
  <2>5. row[e].state = "absent" => row'[e].state = "absent"
    BY <2>1, <2>4 DEF Claimed
  <2> QED BY <1>1, <2>3, <2>5
<1>6. ASSUME \A f \in Events : row'[f].lane = row[f].lane /\ (row[f].state = "absent" => row'[f].state = "absent")
      PROVE  e \in Legacy
  BY <1>1, <1>6
<1>7. ASSUME NEW d \in Dispatchers, Fault(d) \/ DeleteCompletedBefore(d) \/ (Work(d) /\ ~ClaimBatch(d))
      PROVE  e \in Legacy
  <2>1. \A f \in Events : row'[f].lane = row[f].lane /\ (row[f].state = "absent" => row'[f].state = "absent")
    <3>1. CASE UNCHANGED row
      BY <3>1
    <3>2. CASE DeleteCompletedBefore(d)
      BY <3>2 DEF DeleteCompletedBefore, Moved
    <3>3. ASSUME NEW f \in Events, MarkCompleted(d, f) \/ ScheduleRetry(d, f)
          PROVE  \A g \in Events : row'[g].lane = row[g].lane /\ (row[g].state = "absent" => row'[g].state = "absent")
      <4>1. \A g \in Events \ {f} : row'[g] = row[g]
        BY <3>3 DEF MarkCompleted, ScheduleRetry, TypeOK
      <4>2. row'[f] = Completed(row[f]) \/ row'[f] = Retried(row[f], held[d][f].attempts)
        BY <3>3 DEF MarkCompleted, ScheduleRetry, TypeOK
      <4>3. row'[f].lane = row[f].lane /\ (row[f].state = "absent" => row'[f].state = "absent")
        BY <4>2 DEF Completed, Retried, Moved
      <4> QED BY <4>1, <4>3
    <3>4. UNCHANGED row \/ DeleteCompletedBefore(d)
            \/ \E f \in Events : MarkCompleted(d, f) \/ ScheduleRetry(d, f)
      BY <1>7 DEF Fault, Work, BeginClaim, PublishOk, PublishError, SettleError, Crash
    <3> QED BY <3>1, <3>2, <3>3, <3>4
  <2> QED BY <1>6, <2>1
<1>8. CASE Tick
  <2>1. \A f \in Events : row'[f].lane = row[f].lane /\ (row[f].state = "absent" => row'[f].state = "absent")
    BY <1>8 DEF Tick, Moved
  <2> QED BY <1>6, <2>1
<1> QED BY <1>3, <1>4, <1>5, <1>7, <1>8 DEF Next

\* A batch that leaves a ready lane out brings the cursor nearer to it; any
\* other batch starts the count again.
LEMMA ApproachNext ==
    ASSUME TypeOK, LanesKnown, FewLegacy, LanesApproach, LanesNext
    PROVE  LanesApproach'
<1>1. CASE UNCHANGED <<cursor, passed>>
  BY <1>1 DEF LanesApproach
<1>2. ASSUME NEW d \in Dispatchers, Work(d), passed' = [k \in Lanes |-> Passed(d, k)]
      PROVE  LanesApproach'
  <2>1. CASE phase[d] = "claiming" /\ phase'[d] = "publishing"
    <3>1. ClaimBatch(d)
      BY <1>2, <2>1 DEF TypeOK, Work, BeginClaim, PublishOk, MarkCompleted, ScheduleRetry
    <3> DEFINE l == lag[d]
    <3>2. /\ DOMAIN held'[d] = Batch(l)
          /\ \A e \in Events : row'[e].lane = LaneAt(e, l)
          /\ Batch(l) \subseteq Events
      BY <3>1 DEF ClaimBatch, TypeOK, Claimed, Batch, Ready
    <3>3. Batch(l) # {}
      BY <2>1, <3>1 DEF ClaimBatch, TypeOK
    <3>4. PICK last \in Batch(l) : IsLast(last, Batch(l), l) /\ cursor' = LaneAt(last, l)
      BY <3>1, <3>3 DEF ClaimBatch
    <3> SUFFICES ASSUME NEW k \in Lanes
                 PROVE  /\ passed'[k] \in Nat
                        /\ passed'[k] * Limit + Cardinality(Between(cursor', k)) <= Cardinality(Lanes) - 1
      BY <1>2 DEF LanesApproach
    <3>5. /\ Cardinality(Between(cursor, k)) \in Nat /\ Cardinality(Between(cursor', k)) \in Nat
          /\ Cardinality(Lanes) \in Nat /\ Limit \in Nat
          /\ Cardinality(Between(cursor', k)) <= Cardinality(Lanes) - 1
      BY BetweenCounts, OutboxConstants
    <3>6. /\ passed[k] \in Nat
          /\ passed[k] * Limit + Cardinality(Between(cursor, k)) <= Cardinality(Lanes) - 1
      BY DEF LanesApproach
    <3>7. CASE k \in ReadyLanes(l) /\ \A g \in Batch(l) : LaneAt(g, l) # k
      <4>1. passed'[k] = passed[k] + 1
        BY <1>2, <2>1, <3>2, <3>7 DEF Passed
      <4>2. ReadyLanes(l) \subseteq Lanes
        BY LanesOnly
      <4>3. Limit + Cardinality(Between(cursor', k)) <= Cardinality(Between(cursor, k))
        BY <3>4, <3>7, <4>2, SkippedComesCloser
      <4>4. (passed[k] + 1) * Limit = passed[k] * Limit + Limit /\ passed[k] * Limit \in Nat
        BY <3>5, <3>6
      <4> QED BY <3>5, <3>6, <4>1, <4>3, <4>4
    <3>8. CASE ~(k \in ReadyLanes(l) /\ \A g \in Batch(l) : LaneAt(g, l) # k)
      <4>1. passed'[k] = 0
        BY <1>2, <2>1, <3>2, <3>8 DEF Passed
      <4> QED BY <3>5, <4>1
    <3> QED BY <3>7, <3>8
  <2>2. CASE ~(phase[d] = "claiming" /\ phase'[d] = "publishing")
    <3>1. passed' = passed
      BY <1>2, <2>2 DEF Passed, LanesApproach
    <3>2. cursor' = cursor
      BY <1>2, <2>2 DEF TypeOK, Work, BeginClaim, ClaimBatch, PublishOk, MarkCompleted, ScheduleRetry
    <3> QED BY <1>1, <3>1, <3>2
  <2> QED BY <2>1, <2>2
<1>3. ASSUME NEW d \in Dispatchers, Fault(d) \/ DeleteCompletedBefore(d), UNCHANGED passed
      PROVE  LanesApproach'
  <2>1. UNCHANGED cursor
    BY <1>3 DEF Fault, PublishError, SettleError, Crash, DeleteCompletedBefore
  <2> QED BY <1>1, <1>3, <2>1
<1>4. ASSUME NEW e \in Events, Enqueue(e), UNCHANGED passed
      PROVE  LanesApproach'
  BY <1>1, <1>4 DEF Enqueue
<1>5. CASE Tick /\ UNCHANGED passed
  BY <1>1, <1>5 DEF Tick
<1> QED BY <1>2, <1>3, <1>4, <1>5 DEF LanesNext

\* For any number of lanes, rows, replicas and faults and any batch size, a lane
\* that every batch finds ready is skipped at most (lanes - 1) / Limit times in a
\* row, as long as the rows older than the fairness_key column fit into what one
\* claim normalises.
THEOREM OutboxLaneNotStarved == ASSUME FewLegacy PROVE LanesSpec => []LaneNotStarved
<1> DEFINE Inv == IInv /\ LanesKnown /\ LanesApproach
<1>1. LanesInit => Inv
  <2> SUFFICES ASSUME LanesInit PROVE Inv
    OBVIOUS
  <2>1. IInv
    BY InitIInv DEF LanesInit
  <2>2. LanesKnown
    BY DEF LanesInit, Init, LanesKnown
  <2>3. LanesApproach
    <3> SUFFICES ASSUME NEW k \in Lanes
                 PROVE  0 * Limit + Cardinality(Between(cursor, k)) <= Cardinality(Lanes) - 1
      BY DEF LanesInit, LanesApproach
    <3> QED BY BetweenCounts, OutboxConstants
  <2> QED BY <2>1, <2>2, <2>3
<1>2. Inv /\ [LanesNext]_<<vars, passed>> => Inv'
  <2> SUFFICES ASSUME Inv, [LanesNext]_<<vars, passed>> PROVE Inv'
    OBVIOUS
  <2>1. [Next]_vars
    BY DEF LanesNext, Next
  <2>2. IInv' /\ LanesKnown' /\ TypeOK
    BY <2>1, NextIInv, KnownNext DEF IInv
  <2>3. CASE UNCHANGED <<vars, passed>>
    BY <2>2, <2>3 DEF vars, LanesApproach
  <2>4. CASE LanesNext
    BY <2>2, <2>4, ApproachNext
  <2> QED BY <2>2, <2>3, <2>4
<1>3. Inv => LaneNotStarved
  <2> SUFFICES ASSUME LanesApproach, NEW k \in Lanes
               PROVE  passed[k] * Limit <= Cardinality(Lanes) - 1
    BY DEF LaneNotStarved
  <2>1. /\ passed[k] \in Nat /\ Limit \in Nat /\ Cardinality(Between(cursor, k)) \in Nat
        /\ Cardinality(Lanes) \in Nat
        /\ passed[k] * Limit + Cardinality(Between(cursor, k)) <= Cardinality(Lanes) - 1
    BY BetweenCounts, OutboxConstants DEF LanesApproach
  <2>2. passed[k] * Limit \in Nat
    BY <2>1
  <2> QED BY <2>1, <2>2
<1> HIDE DEF Inv
<1> QED BY <1>1, <1>2, <1>3, PTL DEF LanesSpec
=============================================================================
