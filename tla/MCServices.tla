----------------------------- MODULE MCServices -----------------------------
(* Instances of Inference, Fanout, Workflow, Reviews and Worker.              *)
(* The services share no state: a behaviour is one of the service its initial *)
(* state is about, the others keep still.                                     *)
EXTENDS Inference, Fanout, Workflow, Reviews, Worker, TLC

CONSTANTS i1, i2, i3, i4

VARIABLE focus   \* the service that runs

\* Inference: a task of two calls a second worker takes over, and one both workers call
\* for; two tasks of an item with a budget of its own; three that compete for the project's.
MCItemOf == (1 :> i1) @@ (2 :> i2) @@ (3 :> i3) @@ (4 :> i2) @@ (5 :> i4) @@ (6 :> i1)
MCRunsOf == (1 :> {11, 12}) @@ (2 :> {13}) @@ (3 :> {14}) @@ (4 :> {}) @@ (5 :> {}) @@ (6 :> {15, 16})
MCCallsOf == (11 :> {1, 2}) @@ (12 :> {}) @@ (13 :> {1, 2}) @@ (14 :> {1}) @@ (15 :> {1}) @@ (16 :> {1})
MCQuota == [t \in Jobs |-> IF t \in {1, 6} THEN 2 ELSE 1]
MCItemBudget == [i \in {i1, i2, i3, i4} |-> IF i = i2 THEN 1 ELSE 0]
MCInferenceInit == \E T \in {{1}, {6}, {2, 4}, {3, 4, 5}} : InferenceInitWith(T)

\* Fanout: two branches and their integration on one machine of two slots; two plans of
\* two steps that compete for two machines of one slot.
MCStepsOf == (91 :> {1, 2, 3}) @@ (92 :> {4, 5}) @@ (93 :> {6, 7})
MCDependsOn == [s \in 1..7 |-> CASE s = 3 -> {1, 2} [] s = 5 -> {4} [] s = 7 -> {6} [] OTHER -> {}]
MCIntegration == (91 :> 3) @@ (92 :> 5) @@ (93 :> 7)
MCCapacity == (81 :> 1) @@ (82 :> 2) @@ (83 :> 1)
MCFanoutInit == FanoutInitWith({91}, {82}) \/ FanoutInitWith({92, 93}, {81, 83})

\* Workflow: a new item, one under review, and one up for release, with two replicas, a
\* replica and a person, or a replica and an unlocked write.
MCWorkflowInit ==
    \/ \E A \in {{37, 38}, {38, 39}} : WorkflowInitWith("planning", FALSE, A, {})
    \/ WorkflowInitWith("planning", TRUE, {35, 38}, {})
    \/ \E A \in {{37, 38}, {38, 39}} : WorkflowInitWith("code_review", FALSE, A, {})
    \/ WorkflowInitWith("release_review", FALSE, {35, 36}, {32})

\* Reviews: two redeliveries and a poll over a queued review; two deliveries around a
\* second commit; a redelivery and an operator's retry.
MCReviewsInit ==
    \/ ReviewsInitWith(0, {101, 102}, {111}, 0, TRUE)
    \/ ReviewsInitWith(1, {101, 102}, {}, 0, FALSE)
    \/ ReviewsInitWith(0, {101}, {}, 1, TRUE)

\* Worker: two deliveries of the message of a task that asks a model, or publishes.
MCWorkerInit == \E w \in {"infer", "publish"} : WorkerInitWith(w, Tries)

NoInference == InferenceInitWith({})
NoFanout == FanoutInitWith({}, {})
NoWorkflow == WorkflowInitWith("planning", FALSE, {}, {})
NoReviews == ReviewsInitWith(0, {}, {}, 0, FALSE)
NoWorker == WorkerInitWith("infer", {})

MCInit ==
    \/ /\ focus = "inference" /\ MCInferenceInit
       /\ NoFanout /\ NoWorkflow /\ NoReviews /\ NoWorker
    \/ /\ focus = "fanout" /\ MCFanoutInit
       /\ NoInference /\ NoWorkflow /\ NoReviews /\ NoWorker
    \/ /\ focus = "workflow" /\ MCWorkflowInit
       /\ NoInference /\ NoFanout /\ NoReviews /\ NoWorker
    \/ /\ focus = "reviews" /\ MCReviewsInit
       /\ NoInference /\ NoFanout /\ NoWorkflow /\ NoWorker
    \/ /\ focus = "worker" /\ MCWorkerInit
       /\ NoInference /\ NoFanout /\ NoWorkflow /\ NoReviews

MCNext ==
    \/ /\ focus = "inference" /\ InferenceNext
       /\ UNCHANGED <<focus, fanoutVars, workflowVars, reviewVars, workerVars>>
    \/ /\ focus = "fanout" /\ FanoutNext
       /\ UNCHANGED <<focus, inferenceVars, workflowVars, reviewVars, workerVars>>
    \/ /\ focus = "workflow" /\ WorkflowNext
       /\ UNCHANGED <<focus, inferenceVars, fanoutVars, reviewVars, workerVars>>
    \/ /\ focus = "reviews" /\ ReviewsNext
       /\ UNCHANGED <<focus, inferenceVars, fanoutVars, workflowVars, workerVars>>
    \/ /\ focus = "worker" /\ WorkerNext
       /\ UNCHANGED <<focus, inferenceVars, fanoutVars, workflowVars, reviewVars>>

MCSpec ==
    MCInit /\ [][MCNext]_<<focus, inferenceVars, fanoutVars, workflowVars, reviewVars, workerVars>>
=============================================================================
