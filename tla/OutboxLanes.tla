----------------------------- MODULE OutboxLanes -----------------------------
(***************************************************************************)
(* The outbox with a history variable that counts, for every lane, the     *)
(* batches that found it ready and left it out.                            *)
(***************************************************************************)
EXTENDS Outbox

VARIABLE passed   \* batches in a row that saw a lane ready and skipped it

\* Lanes a step of dispatcher d, claiming, passes over.
Passed(d, k) ==
    IF phase[d] = "claiming" /\ phase'[d] = "publishing"
    THEN IF /\ k \in ReadyLanes(lag[d])
            /\ \A e \in DOMAIN held'[d] : row'[e].lane # k
         THEN passed[k] + 1
         ELSE 0
    ELSE passed[k]

LanesInit == Init /\ passed = [k \in Lanes |-> 0]

LanesNext ==
    \/ \E e \in Events : Enqueue(e) /\ UNCHANGED passed
    \/ \E d \in Dispatchers :
         /\ Work(d)
         /\ passed' = [k \in Lanes |-> Passed(d, k)]
    \/ \E d \in Dispatchers :
         (Fault(d) \/ DeleteCompletedBefore(d)) /\ UNCHANGED passed
    \/ Tick /\ UNCHANGED passed

LanesSpec == LanesInit /\ [][LanesNext]_<<vars, passed>>

\* The rows older than the fairness_key column fit into the share that one
\* claim normalises, so that no lane is served under the empty key.
FewLegacy == Cardinality(Legacy) <= 4 * Limit

\* The cursor of ClaimBatch bounds starvation across batches and replicas: a
\* lane that every batch finds ready is skipped at most once per Limit other
\* lanes before a batch serves it.
LaneNotStarved ==
    \A k \in Lanes : passed[k] * Limit <= Cardinality(Lanes) - 1
=============================================================================
