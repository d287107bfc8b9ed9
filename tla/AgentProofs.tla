----------------------------- MODULE AgentProofs -----------------------------
(***************************************************************************)
(* The agent worker over its queue message, for any number of deliveries   *)
(* and any length of the lease; and the calls it pays for, for any tasks,  *)
(* runs, quotas, route chains and budgets; and the workflow that asks for  *)
(* those runs, for any replicas, people, grants and work items.            *)
(***************************************************************************)
EXTENDS Inference, Worker, Workflow, FiniteSetTheorems, TLAPS

-----------------------------------------------------------------------------
(* Worker. *)

\* A run between its claim and its report, and one that may still ask the model.
Claimed == {"recover", "intent?", "infer", "renew", "call", "publish", "token", "commit",
            "push", "pushing", "pull", "pulling", "store", "report"}
Calling == {"infer", "renew", "call"}
Words == {"none", "answer", "rejected", "failed", "uncertain", "published"}
Stages == Claimed \cup {"idle", "claim", "ack", "gone"}

\* The task, the message, the storage and the runs have their types.
WorkerTypeOK ==
    /\ work \in {"infer", "publish"}
    /\ ticket \in [status : {"queued", "running", "cancel_requested", "cancelled", "completed", "failed"},
                   run : Tries \cup {NoTry}, left : Nat]
    /\ message \in [queued : BOOLEAN, by : Tries \cup {NoTry}]
    /\ at \in [Tries -> Stages]
    /\ outcome \in [Tries -> Words]
    /\ vault \in [intent : BOOLEAN, latest : Words]
    /\ called \subseteq Tries /\ regained \subseteq Tries /\ overtaken \subseteq Tries
    /\ lateEffects \in [Tries -> Nat]

\* A run past its claim holds the task or was overtaken, and nobody is overtaken while he
\* holds it.  A task nobody has claimed yet overtook nobody.
HeldOrTaken ==
    /\ \A r \in Tries : at[r] \in Claimed => ticket.run = r \/ r \in overtaken
    /\ ticket.run \notin overtaken
    /\ ticket.status = "queued" => ticket.run = NoTry /\ overtaken = {}

\* A run whose message is to be deleted has nothing left to do, nor has the one that
\* deleted it.
Acking ==
    /\ \A r \in Tries : at[r] = "ack" => ticket.status \notin {"queued", "running"} \/ r \in overtaken
    /\ ~message.queued => message.by \in Tries /\ at[message.by] = "gone"
    /\ AckedIsSettled

\* The intent is stored before the call; once a call was made, the other runs that may
\* still make one were overtaken since they looked at storage.
CallingOnce ==
    /\ \A r \in Tries : at[r] \in {"renew", "call"} => vault.intent
    /\ called # {} => vault.intent
    /\ \A a \in called, b \in Tries : a # b /\ at[b] \in Calling => b \in overtaken \cup regained
    /\ \A a, b \in called \ regained : a = b

\* A late effect is the last a run makes.
LateOnce ==
    \A r \in Tries :
        /\ lateEffects[r] <= 1
        /\ lateEffects[r] > 0 => /\ ticket.status \notin {"queued", "running"}
                                 /\ at[r] \in {"pull", "store", "report", "ack", "gone"}

WorkerInv == WorkerTypeOK /\ HeldOrTaken /\ Acking /\ CallingOnce /\ LateOnce

\* Every step of a run writes values of the right type.
LEMMA WorkerTypes == WorkerTypeOK /\ [WorkerNext]_workerVars => WorkerTypeOK'
  <1>. SUFFICES ASSUME WorkerTypeOK, [WorkerNext]_workerVars PROVE WorkerTypeOK'
    OBVIOUS
  <1>0. /\ {"claim", "recover", "intent?", "infer", "publish", "renew", "call", "store", "report",
            "token", "pull", "ack", "gone"} \subseteq Stages
        /\ DOMAIN at = Tries
    BY DEF Stages, Claimed, WorkerTypeOK
  <1>. USE WorkerAssumption, <1>0 DEF WorkerTypeOK, Goes, Tells, Proceeds, Retained, Acked, history,
           Words
  <1>1. CASE CancelTask
    BY <1>1 DEF CancelTask
  <1>2. CASE RevokePublication
    BY <1>2 DEF RevokePublication
  <1>3. CASE LeaseTick
    BY <1>3 DEF LeaseTick
  <1>4. ASSUME NEW r \in Tries, Receive(r) PROVE WorkerTypeOK'
    BY <1>4 DEF Receive
  <1>5. ASSUME NEW r \in Tries, ClaimTask(r) PROVE WorkerTypeOK'
    BY <1>5 DEF ClaimTask, Renew, Leased, NotLeased
  <1>6. ASSUME NEW r \in Tries, ReadResult(r) PROVE WorkerTypeOK'
    BY <1>6 DEF ReadResult
  <1>7. ASSUME NEW r \in Tries, ReadIntent(r) PROVE WorkerTypeOK'
    BY <1>7 DEF ReadIntent
  <1>8. ASSUME NEW r \in Tries, StoreIntent(r) PROVE WorkerTypeOK'
    <2>1. vault' \in [intent : BOOLEAN, latest : Words]
      <3>1. TRUE \in BOOLEAN /\ vault \in [intent : BOOLEAN, latest : Words]
        OBVIOUS
      <3>2. \A b \in BOOLEAN : [vault EXCEPT !.intent = b] \in [intent : BOOLEAN, latest : Words]
        BY <3>1
      <3>. QED  BY <1>8, <3>1, <3>2 DEF StoreIntent
    <2>. QED  BY <1>8, <2>1 DEF StoreIntent
  <1>9. ASSUME NEW r \in Tries, RenewBeforeCall(r) PROVE WorkerTypeOK'
    BY <1>9 DEF RenewBeforeCall, Renew, Leased, NotLeased
  <1>10. ASSUME NEW r \in Tries, CallProvider(r) PROVE WorkerTypeOK'
    BY <1>10 DEF CallProvider
  <1>11. ASSUME NEW r \in Tries, StartPublication(r) PROVE WorkerTypeOK'
    BY <1>11 DEF StartPublication, Renew, Leased, NotLeased
  <1>12. ASSUME NEW r \in Tries, NEW stage \in Stages, NEW granted \in Stages,
                RefreshAuthority(r, stage, granted)
         PROVE WorkerTypeOK'
    BY <1>12 DEF RefreshAuthority, Renew, Leased, NotLeased
  <1>13. ASSUME NEW r \in Tries, PushBranch(r) PROVE WorkerTypeOK'
    BY <1>13 DEF PushBranch, RemoteEffect
  <1>14. ASSUME NEW r \in Tries, CreatePull(r) PROVE WorkerTypeOK'
    BY <1>14 DEF CreatePull, RemoteEffect
  <1>15. ASSUME NEW r \in Tries, StoreResult(r) PROVE WorkerTypeOK'
    BY <1>15 DEF StoreResult
  <1>16. ASSUME NEW r \in Tries, Report(r) PROVE WorkerTypeOK'
    BY <1>16 DEF Report, SettledTask
  <1>17. ASSUME NEW r \in Tries, DeleteMessage(r) PROVE WorkerTypeOK'
    BY <1>17 DEF DeleteMessage
  <1>18. ASSUME NEW r \in Tries, ProcessFails(r) PROVE WorkerTypeOK'
    BY <1>18 DEF ProcessFails
  <1>19. CASE UNCHANGED workerVars
    BY <1>19 DEF workerVars
  <1>. QED
    BY <1>1, <1>2, <1>3, <1>4, <1>5, <1>6, <1>7, <1>8, <1>9, <1>10, <1>11, <1>12, <1>13, <1>14,
       <1>15, <1>16, <1>17, <1>18, <1>19, <1>0 DEF WorkerNext, Deliveries, Stages, Claimed

\* A claim passes the task on and marks the run it is taken from.
LEMMA WorkerHolding == WorkerTypeOK /\ HeldOrTaken /\ [WorkerNext]_workerVars => HeldOrTaken'
  <1>. SUFFICES ASSUME WorkerTypeOK, HeldOrTaken, [WorkerNext]_workerVars PROVE HeldOrTaken'
    OBVIOUS
  <1>0. DOMAIN at = Tries
    BY DEF WorkerTypeOK
  <1>. USE WorkerAssumption DEF WorkerTypeOK, HeldOrTaken, Claimed, Goes, Tells, Proceeds, Retained, Acked, history
  <1>1. CASE CancelTask
    BY <1>1 DEF CancelTask
  <1>2. CASE RevokePublication
    BY <1>2 DEF RevokePublication
  <1>3. CASE LeaseTick
    BY <1>3 DEF LeaseTick
  <1>4. ASSUME NEW r \in Tries, Receive(r) PROVE HeldOrTaken'
    BY <1>4 DEF Receive
  <1>5. ASSUME NEW r \in Tries, ClaimTask(r) PROVE HeldOrTaken'
    BY <1>5 DEF ClaimTask, Renew, Leased, NotLeased, Leasable, Busy
  <1>6. ASSUME NEW r \in Tries, ReadResult(r) PROVE HeldOrTaken'
    BY <1>6 DEF ReadResult
  <1>7. ASSUME NEW r \in Tries, ReadIntent(r) PROVE HeldOrTaken'
    BY <1>7 DEF ReadIntent
  <1>8. ASSUME NEW r \in Tries, StoreIntent(r) PROVE HeldOrTaken'
    BY <1>8 DEF StoreIntent
  <1>9. ASSUME NEW r \in Tries, RenewBeforeCall(r) PROVE HeldOrTaken'
    BY <1>9 DEF RenewBeforeCall, Renew, Leased, NotLeased, Leasable, Busy
  <1>10. ASSUME NEW r \in Tries, CallProvider(r) PROVE HeldOrTaken'
    BY <1>10 DEF CallProvider
  <1>11. ASSUME NEW r \in Tries, StartPublication(r) PROVE HeldOrTaken'
    BY <1>11 DEF StartPublication, Renew, Leased, NotLeased, Leasable, Busy
  <1>12. ASSUME NEW r \in Tries, NEW stage, NEW granted,
                <<stage, granted>> \in {<<"token", "commit">>, <<"commit", "push">>,
                                        <<"push", "pushing">>, <<"pull", "pulling">>},
                RefreshAuthority(r, stage, granted)
         PROVE HeldOrTaken'
    BY <1>12 DEF RefreshAuthority, Renew, Leased, NotLeased, Leasable, Busy
  <1>13. ASSUME NEW r \in Tries, PushBranch(r) PROVE HeldOrTaken'
    BY <1>13 DEF PushBranch, RemoteEffect
  <1>14. ASSUME NEW r \in Tries, CreatePull(r) PROVE HeldOrTaken'
    BY <1>14 DEF CreatePull, RemoteEffect
  <1>15. ASSUME NEW r \in Tries, StoreResult(r) PROVE HeldOrTaken'
    BY <1>15 DEF StoreResult
  <1>16. ASSUME NEW r \in Tries, Report(r) PROVE HeldOrTaken'
    BY <1>16 DEF Report, SettledTask, Holds
  <1>17. ASSUME NEW r \in Tries, DeleteMessage(r) PROVE HeldOrTaken'
    BY <1>17 DEF DeleteMessage
  <1>18. ASSUME NEW r \in Tries, ProcessFails(r) PROVE HeldOrTaken'
    BY <1>18 DEF ProcessFails
  <1>19. CASE UNCHANGED workerVars
    BY <1>19 DEF workerVars
  <1>. QED
    BY <1>0, <1>1, <1>2, <1>3, <1>4, <1>5, <1>6, <1>7, <1>8, <1>9, <1>10, <1>11, <1>12, <1>13, <1>14, <1>15, <1>16, <1>17, <1>18, <1>19
       DEF WorkerNext, Deliveries

\* A run acknowledges what has ended, or what was taken from it.
LEMMA WorkerAcking == WorkerTypeOK /\ HeldOrTaken /\ Acking /\ [WorkerNext]_workerVars => Acking'
  <1>. SUFFICES ASSUME WorkerTypeOK, HeldOrTaken, Acking, [WorkerNext]_workerVars PROVE Acking'
    OBVIOUS
  <1>0. DOMAIN at = Tries
    BY DEF WorkerTypeOK
  <1>. USE WorkerAssumption DEF WorkerTypeOK, HeldOrTaken, Acking, AckedIsSettled, Claimed, Goes, Tells, Proceeds, Retained, Acked, history
  <1>1. CASE CancelTask
    BY <1>1 DEF CancelTask
  <1>2. CASE RevokePublication
    BY <1>2 DEF RevokePublication
  <1>3. CASE LeaseTick
    BY <1>3 DEF LeaseTick
  <1>4. ASSUME NEW r \in Tries, Receive(r) PROVE Acking'
    BY <1>4 DEF Receive
  <1>5. ASSUME NEW r \in Tries, ClaimTask(r) PROVE Acking'
    BY <1>5 DEF ClaimTask, Renew, Leased, NotLeased, Leasable, Busy
  <1>6. ASSUME NEW r \in Tries, ReadResult(r) PROVE Acking'
    BY <1>6 DEF ReadResult
  <1>7. ASSUME NEW r \in Tries, ReadIntent(r) PROVE Acking'
    BY <1>7 DEF ReadIntent
  <1>8. ASSUME NEW r \in Tries, StoreIntent(r) PROVE Acking'
    BY <1>8 DEF StoreIntent
  <1>9. ASSUME NEW r \in Tries, RenewBeforeCall(r) PROVE Acking'
    BY <1>9 DEF RenewBeforeCall, Renew, Leased, NotLeased, Leasable, Busy
  <1>10. ASSUME NEW r \in Tries, CallProvider(r) PROVE Acking'
    BY <1>10 DEF CallProvider
  <1>11. ASSUME NEW r \in Tries, StartPublication(r) PROVE Acking'
    BY <1>11 DEF StartPublication, Renew, Leased, NotLeased, Leasable, Busy
  <1>12. ASSUME NEW r \in Tries, NEW stage, NEW granted,
                <<stage, granted>> \in {<<"token", "commit">>, <<"commit", "push">>,
                                        <<"push", "pushing">>, <<"pull", "pulling">>},
                RefreshAuthority(r, stage, granted)
         PROVE Acking'
    BY <1>12 DEF RefreshAuthority, Renew, Leased, NotLeased, Leasable, Busy
  <1>13. ASSUME NEW r \in Tries, PushBranch(r) PROVE Acking'
    BY <1>13 DEF PushBranch, RemoteEffect
  <1>14. ASSUME NEW r \in Tries, CreatePull(r) PROVE Acking'
    BY <1>14 DEF CreatePull, RemoteEffect
  <1>15. ASSUME NEW r \in Tries, StoreResult(r) PROVE Acking'
    BY <1>15 DEF StoreResult
  <1>16. ASSUME NEW r \in Tries, Report(r) PROVE Acking'
    BY <1>16 DEF Report, SettledTask, Holds
  <1>17. ASSUME NEW r \in Tries, DeleteMessage(r) PROVE Acking'
    BY <1>17 DEF DeleteMessage
  <1>18. ASSUME NEW r \in Tries, ProcessFails(r) PROVE Acking'
    BY <1>18 DEF ProcessFails
  <1>19. CASE UNCHANGED workerVars
    BY <1>19 DEF workerVars
  <1>. QED
    BY <1>0, <1>1, <1>2, <1>3, <1>4, <1>5, <1>6, <1>7, <1>8, <1>9, <1>10, <1>11, <1>12, <1>13, <1>14, <1>15, <1>16, <1>17, <1>18, <1>19
       DEF WorkerNext, Deliveries

\* A second call is made only by a run that took the task back.
LEMMA WorkerCalling == WorkerTypeOK /\ HeldOrTaken /\ CallingOnce /\ [WorkerNext]_workerVars => CallingOnce'
  <1>. SUFFICES ASSUME WorkerTypeOK, HeldOrTaken, CallingOnce, [WorkerNext]_workerVars PROVE CallingOnce'
    OBVIOUS
  <1>0. DOMAIN at = Tries
    BY DEF WorkerTypeOK
  <1>. USE WorkerAssumption DEF WorkerTypeOK, HeldOrTaken, CallingOnce, Calling, Claimed, Goes, Tells, Proceeds, Retained, Acked, history
  <1>1. CASE CancelTask
    BY <1>1 DEF CancelTask
  <1>2. CASE RevokePublication
    BY <1>2 DEF RevokePublication
  <1>3. CASE LeaseTick
    BY <1>3 DEF LeaseTick
  <1>4. ASSUME NEW r \in Tries, Receive(r) PROVE CallingOnce'
    BY <1>4 DEF Receive
  <1>5. ASSUME NEW r \in Tries, ClaimTask(r) PROVE CallingOnce'
    BY <1>5 DEF ClaimTask, Renew, Leased, NotLeased, Leasable, Busy
  <1>6. ASSUME NEW r \in Tries, ReadResult(r) PROVE CallingOnce'
    BY <1>6 DEF ReadResult
  <1>7. ASSUME NEW r \in Tries, ReadIntent(r) PROVE CallingOnce'
    BY <1>7 DEF ReadIntent
  <1>8. ASSUME NEW r \in Tries, StoreIntent(r) PROVE CallingOnce'
    BY <1>8 DEF StoreIntent
  <1>9. ASSUME NEW r \in Tries, RenewBeforeCall(r) PROVE CallingOnce'
    BY <1>9 DEF RenewBeforeCall, Renew, Leased, NotLeased, Leasable, Busy
  <1>10. ASSUME NEW r \in Tries, CallProvider(r) PROVE CallingOnce'
    BY <1>10 DEF CallProvider
  <1>11. ASSUME NEW r \in Tries, StartPublication(r) PROVE CallingOnce'
    BY <1>11 DEF StartPublication, Renew, Leased, NotLeased, Leasable, Busy
  <1>12. ASSUME NEW r \in Tries, NEW stage, NEW granted,
                <<stage, granted>> \in {<<"token", "commit">>, <<"commit", "push">>,
                                        <<"push", "pushing">>, <<"pull", "pulling">>},
                RefreshAuthority(r, stage, granted)
         PROVE CallingOnce'
    BY <1>12 DEF RefreshAuthority, Renew, Leased, NotLeased, Leasable, Busy
  <1>13. ASSUME NEW r \in Tries, PushBranch(r) PROVE CallingOnce'
    BY <1>13 DEF PushBranch, RemoteEffect
  <1>14. ASSUME NEW r \in Tries, CreatePull(r) PROVE CallingOnce'
    BY <1>14 DEF CreatePull, RemoteEffect
  <1>15. ASSUME NEW r \in Tries, StoreResult(r) PROVE CallingOnce'
    BY <1>15 DEF StoreResult
  <1>16. ASSUME NEW r \in Tries, Report(r) PROVE CallingOnce'
    BY <1>16 DEF Report, SettledTask, Holds
  <1>17. ASSUME NEW r \in Tries, DeleteMessage(r) PROVE CallingOnce'
    BY <1>17 DEF DeleteMessage
  <1>18. ASSUME NEW r \in Tries, ProcessFails(r) PROVE CallingOnce'
    BY <1>18 DEF ProcessFails
  <1>19. CASE UNCHANGED workerVars
    BY <1>19 DEF workerVars
  <1>. QED
    BY <1>0, <1>1, <1>2, <1>3, <1>4, <1>5, <1>6, <1>7, <1>8, <1>9, <1>10, <1>11, <1>12, <1>13, <1>14, <1>15, <1>16, <1>17, <1>18, <1>19
       DEF WorkerNext, Deliveries

\* An effect after the end of the task is the run's last.
LEMMA WorkerLate == WorkerTypeOK /\ HeldOrTaken /\ LateOnce /\ [WorkerNext]_workerVars => LateOnce'
  <1>. SUFFICES ASSUME WorkerTypeOK, HeldOrTaken, LateOnce, [WorkerNext]_workerVars PROVE LateOnce'
    OBVIOUS
  <1>0. DOMAIN at = Tries
    BY DEF WorkerTypeOK
  <1>. USE WorkerAssumption DEF WorkerTypeOK, HeldOrTaken, LateOnce, Claimed, Goes, Tells, Proceeds, Retained, Acked, history
  <1>1. CASE CancelTask
    BY <1>1 DEF CancelTask
  <1>2. CASE RevokePublication
    BY <1>2 DEF RevokePublication
  <1>3. CASE LeaseTick
    BY <1>3 DEF LeaseTick
  <1>4. ASSUME NEW r \in Tries, Receive(r) PROVE LateOnce'
    BY <1>4 DEF Receive
  <1>5. ASSUME NEW r \in Tries, ClaimTask(r) PROVE LateOnce'
    BY <1>5 DEF ClaimTask, Renew, Leased, NotLeased, Leasable, Busy
  <1>6. ASSUME NEW r \in Tries, ReadResult(r) PROVE LateOnce'
    BY <1>6 DEF ReadResult
  <1>7. ASSUME NEW r \in Tries, ReadIntent(r) PROVE LateOnce'
    BY <1>7 DEF ReadIntent
  <1>8. ASSUME NEW r \in Tries, StoreIntent(r) PROVE LateOnce'
    BY <1>8 DEF StoreIntent
  <1>9. ASSUME NEW r \in Tries, RenewBeforeCall(r) PROVE LateOnce'
    BY <1>9 DEF RenewBeforeCall, Renew, Leased, NotLeased, Leasable, Busy
  <1>10. ASSUME NEW r \in Tries, CallProvider(r) PROVE LateOnce'
    BY <1>10 DEF CallProvider
  <1>11. ASSUME NEW r \in Tries, StartPublication(r) PROVE LateOnce'
    BY <1>11 DEF StartPublication, Renew, Leased, NotLeased, Leasable, Busy
  <1>12. ASSUME NEW r \in Tries, NEW stage, NEW granted,
                <<stage, granted>> \in {<<"token", "commit">>, <<"commit", "push">>,
                                        <<"push", "pushing">>, <<"pull", "pulling">>},
                RefreshAuthority(r, stage, granted)
         PROVE LateOnce'
    BY <1>12 DEF RefreshAuthority, Renew, Leased, NotLeased, Leasable, Busy
  <1>13. ASSUME NEW r \in Tries, PushBranch(r) PROVE LateOnce'
    BY <1>13 DEF PushBranch, RemoteEffect
  <1>14. ASSUME NEW r \in Tries, CreatePull(r) PROVE LateOnce'
    BY <1>14 DEF CreatePull, RemoteEffect
  <1>15. ASSUME NEW r \in Tries, StoreResult(r) PROVE LateOnce'
    BY <1>15 DEF StoreResult
  <1>16. ASSUME NEW r \in Tries, Report(r) PROVE LateOnce'
    BY <1>16 DEF Report, SettledTask, Holds
  <1>17. ASSUME NEW r \in Tries, DeleteMessage(r) PROVE LateOnce'
    BY <1>17 DEF DeleteMessage
  <1>18. ASSUME NEW r \in Tries, ProcessFails(r) PROVE LateOnce'
    BY <1>18 DEF ProcessFails
  <1>19. CASE UNCHANGED workerVars
    BY <1>19 DEF workerVars
  <1>. QED
    BY <1>0, <1>1, <1>2, <1>3, <1>4, <1>5, <1>6, <1>7, <1>8, <1>9, <1>10, <1>11, <1>12, <1>13, <1>14, <1>15, <1>16, <1>17, <1>18, <1>19
       DEF WorkerNext, Deliveries
\* The invariant holds from the first delivery on.
LEMMA WorkerInvariant == WorkerSpec => []WorkerInv
  <1>1. WorkerInit => WorkerInv
    BY WorkerAssumption DEF WorkerInit, WorkerInitWith, WorkerInv, WorkerTypeOK, HeldOrTaken, Acking,
       AckedIsSettled, CallingOnce, LateOnce, Stages, Words, Claimed, Calling
  <1>2. WorkerInv /\ [WorkerNext]_workerVars => WorkerInv'
    BY WorkerTypes, WorkerHolding, WorkerAcking, WorkerCalling, WorkerLate DEF WorkerInv
  <1>. QED  BY <1>1, <1>2, PTL DEF WorkerSpec

\* However often the queue delivers the message and wherever runs die, the provider is
\* asked by one run, those left out that took the task back (Worker.Process).
THEOREM WorkerInferredOnce == WorkerSpec => []InferredOnce
  <1>1. WorkerInv => InferredOnce
    <2>. SUFFICES ASSUME CallingOnce PROVE InferredOnce
      BY DEF WorkerInv
    <2>1. CASE called \ regained = {}
      BY <2>1, FS_EmptySet DEF InferredOnce
    <2>2. CASE \E a : a \in called \ regained
      <3>1. PICK a : a \in called \ regained
        BY <2>2
      <3>2. called \ regained = {a}
        BY <3>1 DEF CallingOnce
      <3>3. Cardinality({a}) = 1
        BY FS_Singleton
      <3>. QED  BY <3>2, <3>3 DEF InferredOnce
    <2>. QED  BY <2>1, <2>2
  <1>. QED  BY <1>1, WorkerInvariant, PTL

\* The message is deleted only when the task has ended, or by a run the task was taken
\* from (ProcessQueueMessage).
THEOREM WorkerAckedIsSettled == WorkerSpec => []AckedIsSettled
  <1>1. WorkerInv => AckedIsSettled
    BY DEF WorkerInv, Acking
  <1>. QED  BY <1>1, WorkerInvariant, PTL

\* Cancellation and revocation stop a publication after one remote request at most
\* (runPublicationWithAuthority).
THEOREM WorkerOneLateEffect == WorkerSpec => []OneLateEffect
  <1>1. WorkerInv => OneLateEffect
    BY DEF WorkerInv, WorkerTypeOK, LateOnce, OneLateEffect, Deliveries
  <1>. QED  BY <1>1, WorkerInvariant, PTL
-----------------------------------------------------------------------------
(* Inference. *)

JobStatuses == ActiveJob \cup {"none", "never", "completed", "failed", "cancelled"}

Holders == {NoHolder} \cup UNION {RunsOf[t] : t \in Jobs}
JobRows == [status : JobStatuses, run : Holders, lease : Nat, hold : Nat, left : Nat]

\* The rows of tasks, receipts and costs have their types.
InferenceTypeOK ==
    /\ job \in [Jobs -> JobRows]
    /\ receipt \in [Sites -> {"none", "reserved", "accepted", "rejected", "ambiguous"}]
    /\ gateway \in [Sites -> Nat] /\ tried \in [Sites -> Nat]
    /\ ledger \subseteq [kind : {"agent", "tool"}, site : Sites]
    /\ cancel \in [Jobs -> {"none", "request", "settle queued", "settle running"}]
    /\ lapsed \subseteq Jobs

\* The image of a finite set is finite and not larger.
LEMMA ImageBounded ==
    ASSUME NEW S, IsFiniteSet(S), NEW f, DOMAIN f = S, f = [x \in S |-> f[x]]
    PROVE  IsFiniteSet({f[x] : x \in S}) /\ Cardinality({f[x] : x \in S}) <= Cardinality(S)
  <1>1. f \in Surjection(S, {f[x] : x \in S})
    BY DEF Surjection
  <1>. QED  BY <1>1, FS_Surjection

\* A set below its limit has room for one more.
LEMMA OneMore ==
    ASSUME NEW S, IsFiniteSet(S), NEW x, NEW n \in Nat, Cardinality(S) < n
    PROVE  IsFiniteSet(S \cup {x}) /\ Cardinality(S \cup {x}) <= n
  <1>1. Cardinality(S) \in Nat
    BY FS_CardinalityType
  <1>2. Cardinality(S \cup {x}) = IF x \in S THEN Cardinality(S) ELSE Cardinality(S) + 1
    BY FS_AddElement
  <1>3. IsFiniteSet(S \cup {x})
    BY FS_AddElement
  <1>. QED  BY <1>1, <1>2, <1>3

\* A call belongs to a task and one of its runs.
LEMMA SiteParts ==
    ASSUME NEW s \in Sites
    PROVE  s[1] \in Jobs /\ s[2] \in RunsOf[s[1]]
  BY DEF Sites

\* What a callback may charge: payable calls of one run, none of them twice.
LEMMA Charged ==
    ASSUME InferenceTypeOK, NEW t, NEW r, NEW result, NEW primary \in Primaries(t, r, result),
           NEW tools \in ToolCalls(t, r, primary)
    PROVE  /\ primary \subseteq SitesOf(t, r) /\ tools \subseteq SitesOf(t, r)
           /\ primary \cap tools = {}
  <1>1. primary \subseteq SitesOf(t, r)
    BY DEF Primaries
  <1>. QED  BY <1>1 DEF ToolCalls

\* What the callback that ends a task does: calls of one run are charged, each once.
Ends(t, primary, tools, result) ==
    /\ job[t].status \in {"running", "cancel_requested"}
    /\ job[t].status = "running" => job[t].left > 0
    /\ \A s \in primary \cup tools : s[1] = t
    /\ primary \cap tools = {}
    /\ Cardinality(primary) + Cardinality(tools) <= Quota[t]
    /\ ledger' = ledger \cup Rows(primary, tools)
    /\ job' = [job EXCEPT ![t].status = IF @ = "cancel_requested" THEN "cancelled" ELSE result]

\* The callback is such an ending.
LEMMA CompleteEnds ==
    ASSUME InferenceTypeOK, NEW t \in Jobs, Complete(t)
    PROVE  \E primary \in SUBSET Sites, tools \in SUBSET Sites, result \in {"completed", "failed"} :
              Ends(t, primary, tools, result)
  <1>1. PICK billed \in RunsOf[t], result \in {"completed", "failed"} :
        \E primary \in Primaries(t, billed, result) : \E tools \in ToolCalls(t, billed, primary) :
          /\ Cardinality(primary) + Cardinality(tools) <= Quota[t]
          /\ ledger' = ledger \cup Rows(primary, tools)
          /\ job' = [job EXCEPT ![t].status = IF @ = "cancel_requested" THEN "cancelled" ELSE result]
    BY DEF Complete
  <1>2. PICK primary \in Primaries(t, billed, result) : \E tools \in ToolCalls(t, billed, primary) :
          /\ Cardinality(primary) + Cardinality(tools) <= Quota[t]
          /\ ledger' = ledger \cup Rows(primary, tools)
          /\ job' = [job EXCEPT ![t].status = IF @ = "cancel_requested" THEN "cancelled" ELSE result]
    BY <1>1
  <1>3. PICK tools \in ToolCalls(t, billed, primary) :
          /\ Cardinality(primary) + Cardinality(tools) <= Quota[t]
          /\ ledger' = ledger \cup Rows(primary, tools)
          /\ job' = [job EXCEPT ![t].status = IF @ = "cancel_requested" THEN "cancelled" ELSE result]
    BY <1>2
  <1>4. /\ primary \subseteq SitesOf(t, billed) /\ tools \subseteq SitesOf(t, billed)
        /\ primary \cap tools = {}
    BY Charged
  <1>5. primary \in SUBSET Sites /\ tools \in SUBSET Sites /\ \A s \in primary \cup tools : s[1] = t
    BY <1>4 DEF SitesOf
  <1>6. /\ job[t].status \in {"running", "cancel_requested"}
        /\ job[t].status = "running" => job[t].left > 0
    BY DEF Complete
  <1>7. Ends(t, primary, tools, result)
    BY <1>3, <1>4, <1>5, <1>6 DEF Ends
  <1>. QED  BY <1>5, <1>7

\* The ledger rows of a callback are as many as the calls it names.
LEMMA RowsBounded ==
    ASSUME NEW primary, NEW tools, IsFiniteSet(primary), IsFiniteSet(tools)
    PROVE  /\ IsFiniteSet(Rows(primary, tools))
           /\ Cardinality(Rows(primary, tools)) <= Cardinality(primary) + Cardinality(tools)
  <1>. DEFINE f == [s \in primary |-> [kind |-> "agent", site |-> s]]
              g == [s \in tools |-> [kind |-> "tool", site |-> s]]
              F == {f[s] : s \in primary}
              G == {g[s] : s \in tools}
  <1>1. IsFiniteSet(F) /\ Cardinality(F) <= Cardinality(primary)
    <2>1. DOMAIN f = primary /\ f = [s \in primary |-> f[s]]
      OBVIOUS
    <2>. HIDE DEF f
    <2>. QED  BY <2>1, ImageBounded
  <1>2. IsFiniteSet(G) /\ Cardinality(G) <= Cardinality(tools)
    <2>1. DOMAIN g = tools /\ g = [s \in tools |-> g[s]]
      OBVIOUS
    <2>. HIDE DEF g
    <2>. QED  BY <2>1, ImageBounded
  <1>3. Rows(primary, tools) = F \cup G
    BY DEF Rows
  <1>. HIDE DEF F, G
  <1>4. IsFiniteSet(F \cap G) /\ Cardinality(F \cap G) \in Nat
    BY <1>1, FS_Intersection, FS_CardinalityType
  <1>5. Cardinality(F) \in Nat /\ Cardinality(G) \in Nat
        /\ Cardinality(primary) \in Nat /\ Cardinality(tools) \in Nat
    BY <1>1, <1>2, FS_CardinalityType
  <1>6. IsFiniteSet(F \cup G) /\ Cardinality(F \cup G) = Cardinality(F) + Cardinality(G) - Cardinality(F \cap G)
    BY <1>1, <1>2, FS_Union
  <1>. QED  BY <1>1, <1>2, <1>3, <1>4, <1>5, <1>6

\* An admission gives a task a row of the right type.
LEMMA AdmittedRow ==
    ASSUME NEW t \in Jobs
    PROVE  [Unleased EXCEPT !.status = "queued", !.hold = Quota[t], !.left = 2 * RunLease] \in JobRows
  <1>1. /\ 2 * RunLease \in Nat /\ Quota[t] \in Nat
        /\ NoHolder \in Holders /\ "queued" \in JobStatuses
    BY InferenceAssumption DEF JobStatuses, ActiveJob, Holders
  <1>. QED  BY <1>1 DEF JobRows, Unleased

\* A claim gives a row of the right type.
LEMMA LeasedRow ==
    ASSUME NEW row \in JobRows, NEW t \in Jobs, NEW r \in RunsOf[t]
    PROVE  [row EXCEPT !.status = "running", !.run = r, !.lease = RunLease, !.left = 2 * RunLease] \in JobRows
  <1>1. /\ RunLease \in Nat /\ 2 * RunLease \in Nat
        /\ r \in Holders /\ "running" \in JobStatuses
    BY InferenceAssumption DEF JobStatuses, ActiveJob, Holders
  <1>. QED  BY <1>1 DEF JobRows

\* So does time.
LEMMA TickedRow ==
    ASSUME NEW row \in JobRows
    PROVE  [row EXCEPT !.lease = Less(@), !.left = Less(@)] \in JobRows
  <1>1. Less(row.lease) \in Nat /\ Less(row.left) \in Nat
    BY DEF Less, JobRows
  <1>. QED  BY <1>1 DEF JobRows

\* Counters of calls stay natural numbers.
LEMMA CountUp ==
    ASSUME NEW S, NEW f \in [S -> Nat], NEW x \in S
    PROVE  [f EXCEPT ![x] = f[x] + 1] \in [S -> Nat] /\ [f EXCEPT ![x] = 0] \in [S -> Nat]
  OBVIOUS

\* The cost rows of a callback name calls.
LEMMA ChargedRows ==
    ASSUME NEW primary \in SUBSET Sites, NEW tools \in SUBSET Sites
    PROVE  Rows(primary, tools) \subseteq [kind : {"agent", "tool"}, site : Sites]
  BY DEF Rows

\* Every step of the gateway, a worker, a person or time writes values of the right type.
LEMMA InferenceTypes == InferenceTypeOK /\ [InferenceNext]_inferenceVars => InferenceTypeOK'
  <1>. SUFFICES ASSUME InferenceTypeOK, [InferenceNext]_inferenceVars PROVE InferenceTypeOK'
    OBVIOUS
  <1>. USE DEF InferenceTypeOK
  <1>1. ASSUME NEW t \in Jobs, Admit(t) PROVE InferenceTypeOK'
    BY <1>1, AdmittedRow DEF Admit
  <1>2. ASSUME NEW t \in Jobs, Decide(t) PROVE InferenceTypeOK'
    BY <1>2 DEF Decide
  <1>3. ASSUME NEW t \in Jobs, ApplyCancel(t) PROVE InferenceTypeOK'
    <2>1. job[t] \in JobRows
      OBVIOUS
    <2>2. /\ [job[t] EXCEPT !.status = "cancel_requested"] \in JobRows
          /\ [job[t] EXCEPT !.status = "cancelled", !.lease = 0, !.hold = 0, !.left = 0] \in JobRows
      BY <2>1 DEF JobRows, JobStatuses, ActiveJob
    <2>. QED  BY <1>3, <2>1, <2>2 DEF ApplyCancel
  <1>4. ASSUME NEW t \in Jobs, Complete(t) PROVE InferenceTypeOK'
    <2>1. PICK primary \in SUBSET Sites, tools \in SUBSET Sites, result \in {"completed", "failed"} :
              Ends(t, primary, tools, result)
      BY <1>4, CompleteEnds
    <2>2. ledger' \subseteq [kind : {"agent", "tool"}, site : Sites]
      BY <2>1, ChargedRows DEF Ends
    <2>3. UNCHANGED <<receipt, gateway, tried, cancel, lapsed>>
      BY <1>4 DEF Complete
    <2>4. \A status \in JobStatuses : [job[t] EXCEPT !.status = status] \in JobRows
      BY DEF JobRows
    <2>5. job' \in [Jobs -> JobRows]
      BY <2>1, <2>4 DEF Ends, JobStatuses, ActiveJob
    <2>. QED  BY <2>2, <2>3, <2>5
  <1>5. ASSUME NEW t \in Jobs, NEW r \in RunsOf[t], Claim(t, r) PROVE InferenceTypeOK'
    <2>1. job[t] \in JobRows
      OBVIOUS
    <2>2. [job[t] EXCEPT !.status = "running", !.run = r, !.lease = RunLease, !.left = 2 * RunLease] \in JobRows
      BY <2>1, LeasedRow
    <2>. QED  BY <1>5, <2>2 DEF Claim
  <1>6. ASSUME NEW s \in Sites, ReserveReceipt(s) PROVE InferenceTypeOK'
    BY <1>6 DEF ReserveReceipt
  <1>7. ASSUME NEW s \in Sites, TryRoute(s) PROVE InferenceTypeOK'
    <2>1. tried' \in [Sites -> Nat] /\ gateway' \in [Sites -> Nat]
      <3>1. tried' = [tried EXCEPT ![s] = tried[s] + 1]
        BY <1>7 DEF TryRoute
      <3>2. gateway' = [gateway EXCEPT ![s] = gateway[s] + 1] \/ gateway' = [gateway EXCEPT ![s] = 0]
        BY <1>7 DEF TryRoute
      <3>3. tried \in [Sites -> Nat] /\ gateway \in [Sites -> Nat]
        OBVIOUS
      <3>. HIDE DEF InferenceTypeOK
      <3>4. /\ [tried EXCEPT ![s] = tried[s] + 1] \in [Sites -> Nat]
            /\ [gateway EXCEPT ![s] = gateway[s] + 1] \in [Sites -> Nat]
            /\ [gateway EXCEPT ![s] = 0] \in [Sites -> Nat]
        BY <3>3, CountUp
      <3>. QED  BY <3>1, <3>2, <3>4
    <2>2. receipt' \in [Sites -> {"none", "reserved", "accepted", "rejected", "ambiguous"}]
      BY <1>7 DEF TryRoute
    <2>. QED  BY <1>7, <2>1, <2>2 DEF TryRoute
  <1>8. ASSUME NEW s \in Sites, GatewayStops(s) PROVE InferenceTypeOK'
    BY <1>8 DEF GatewayStops
  <1>9. CASE InferenceTick
    <2>1. \A t \in Jobs : job[t] \in JobRows
      OBVIOUS
    <2>2. \A t \in Jobs : [job[t] EXCEPT !.lease = Less(@), !.left = Less(@)] \in JobRows
      BY <2>1, TickedRow
    <2>. QED  BY <1>9, <2>2 DEF InferenceTick, Holding
  <1>10. CASE UNCHANGED inferenceVars
    BY <1>10 DEF inferenceVars
  <1>. QED
    BY <1>1, <1>2, <1>3, <1>4, <1>5, <1>6, <1>7, <1>8, <1>9, <1>10 DEF InferenceNext

\* A call without a receipt was not sent, and the gateway has sent it along the routes
\* before the one it is trying; the receipts of a run stay within its quota.
CallsCounted ==
    /\ \A s \in Sites :
          /\ receipt[s] = "none" => gateway[s] = 0 /\ tried[s] = 0
          /\ gateway[s] <= Routes /\ tried[s] <= Routes
          /\ gateway[s] > 0 => tried[s] = gateway[s] - 1
    /\ \A t \in Jobs : \A r \in RunsOf[t] : Cardinality(Taken(t, r)) <= Quota[t]

\* An active task has a hold of its quota, which is live unless some hold has lapsed.  A
\* task with costs has ended.
HoldsStand ==
    /\ \A t \in Jobs : job[t].status \in ActiveJob =>
          job[t].hold = Quota[t] /\ (lapsed = {} => job[t].left > 0)
    /\ \A row \in ledger : job[row.site[1]].status \in {"completed", "failed", "cancelled"}

\* A receipt is taken once, and each of its routes is tried once.
LEMMA CallsStep == InferenceTypeOK /\ CallsCounted /\ [InferenceNext]_inferenceVars => CallsCounted'
  <1>. SUFFICES ASSUME InferenceTypeOK, CallsCounted, [InferenceNext]_inferenceVars PROVE CallsCounted'
    OBVIOUS
  <1>0. /\ receipt \in [Sites -> {"none", "reserved", "accepted", "rejected", "ambiguous"}]
        /\ gateway \in [Sites -> Nat] /\ tried \in [Sites -> Nat] /\ Routes \in Nat \ {0}
        /\ IsFiniteSet(Sites) /\ \A t \in Jobs : Quota[t] \in Nat
    BY InferenceAssumption DEF InferenceTypeOK
  <1>1. CASE UNCHANGED <<receipt, gateway, tried>>
    BY <1>1 DEF CallsCounted, Taken, SitesOf
  <1>2. ASSUME NEW s \in Sites, ReserveReceipt(s) PROVE CallsCounted'
    <2>1. /\ receipt[s] = "none" /\ Cardinality(Taken(s[1], s[2])) < Quota[s[1]]
          /\ receipt' = [receipt EXCEPT ![s] = "reserved"] /\ gateway' = [gateway EXCEPT ![s] = 1]
          /\ tried' = tried
      BY <1>2 DEF ReserveReceipt, FreshSite
    <2>2. ASSUME NEW t \in Jobs, NEW r \in RunsOf[t] PROVE Cardinality(Taken(t, r)') <= Quota[t]
      <3>1. CASE t = s[1] /\ r = s[2]
        <4>1. Taken(t, r)' = Taken(t, r) \cup {s}
          BY <1>0, <2>1, <3>1 DEF Taken, SitesOf
        <4>2. IsFiniteSet(Taken(t, r))
          BY <1>0, FS_Subset DEF Taken, SitesOf
        <4>3. Cardinality(Taken(t, r)) < Quota[t] /\ Quota[t] \in Nat
          BY <1>0, <2>1, <3>1
        <4>4. Cardinality(Taken(t, r) \cup {s}) <= Quota[t]
          BY <4>2, <4>3, OneMore
        <4>. QED  BY <4>1, <4>4
      <3>2. CASE ~(t = s[1] /\ r = s[2])
        <4>1. Taken(t, r)' = Taken(t, r)
          BY <1>0, <2>1, <3>2 DEF Taken, SitesOf
        <4>. QED  BY <4>1 DEF CallsCounted
      <3>. QED  BY <3>1, <3>2
    <2>. QED  BY <1>0, <2>1, <2>2 DEF CallsCounted
  <1>3. ASSUME NEW s \in Sites, TryRoute(s) \/ GatewayStops(s) PROVE CallsCounted'
    <2>1. gateway[s] > 0 /\ receipt[s] # "none" /\ tried[s] = gateway[s] - 1 /\ gateway[s] <= Routes
      BY <1>0, <1>3 DEF TryRoute, GatewayStops, CallsCounted
    <2>2. /\ receipt' = receipt \/ \E v \in {"reserved", "accepted", "rejected", "ambiguous"} :
                receipt' = [receipt EXCEPT ![s] = v]
          /\ \/ tried' = [tried EXCEPT ![s] = @ + 1] /\ gateway' = [gateway EXCEPT ![s] = 0]
             \/ /\ tried' = [tried EXCEPT ![s] = @ + 1] /\ gateway[s] < Routes
                /\ gateway' = [gateway EXCEPT ![s] = @ + 1]
             \/ tried' = tried /\ gateway' = [gateway EXCEPT ![s] = 0]
      BY <1>3 DEF TryRoute, GatewayStops
    <2>3. ASSUME NEW t \in Jobs, NEW r \in RunsOf[t] PROVE Cardinality(Taken(t, r)') <= Quota[t]
      <3>1. Taken(t, r)' = Taken(t, r)
        BY <1>0, <2>1, <2>2 DEF Taken, SitesOf
      <3>. QED  BY <3>1 DEF CallsCounted
    <2>4. \A x \in Sites : receipt'[x] = "none" => receipt[x] = "none" /\ x # s
      BY <1>0, <2>1, <2>2
    <2>5. \A x \in Sites : x # s => gateway'[x] = gateway[x] /\ tried'[x] = tried[x]
      BY <1>0, <2>2
    <2>6. /\ gateway'[s] <= Routes /\ tried'[s] <= Routes
          /\ gateway'[s] > 0 => tried'[s] = gateway'[s] - 1
      BY <1>0, <2>1, <2>2
    <2>. QED  BY <2>3, <2>4, <2>5, <2>6 DEF CallsCounted
  <1>. QED
    BY <1>1, <1>2, <1>3 DEF InferenceNext, Admit, Decide, ApplyCancel, Complete, Claim, InferenceTick,
       inferenceVars

\* Holds are given on admission, renewed with the lease and end with the task, before its
\* costs are recorded.
LEMMA HoldsStep == InferenceTypeOK /\ HoldsStand /\ [InferenceNext]_inferenceVars => HoldsStand'
  <1>. SUFFICES ASSUME InferenceTypeOK, HoldsStand, [InferenceNext]_inferenceVars PROVE HoldsStand'
    OBVIOUS
  <1>0. /\ job \in [Jobs -> JobRows] /\ RunLease \in Nat \ {0}
        /\ \A row \in ledger : row.site[1] \in Jobs
    BY InferenceAssumption, SiteParts DEF InferenceTypeOK
  <1>. USE <1>0 DEF HoldsStand, ActiveJob, JobRows
  <1>1. ASSUME NEW t \in Jobs, Admit(t) PROVE HoldsStand'
    BY <1>1 DEF Admit, Unleased
  <1>2. ASSUME NEW t \in Jobs, ApplyCancel(t) PROVE HoldsStand'
    BY <1>2 DEF ApplyCancel
  <1>3. ASSUME NEW t \in Jobs, NEW r \in RunsOf[t], Claim(t, r) PROVE HoldsStand'
    BY <1>3 DEF Claim
  <1>4. ASSUME NEW t \in Jobs, Complete(t) PROVE HoldsStand'
    <2>1. PICK primary \in SUBSET Sites, tools \in SUBSET Sites, result \in {"completed", "failed"} :
              Ends(t, primary, tools, result)
      BY <1>4, CompleteEnds
    <2>2. \A row \in ledger' \ ledger : row.site[1] = t
      BY <2>1 DEF Ends, Rows
    <2>3. lapsed' = lapsed
      BY <1>4 DEF Complete
    <2>4. \A row \in ledger' : row.site[1] # t => row \in ledger
      BY <2>2
    <2>5. job'[t].status \in {"completed", "failed", "cancelled"} /\ \A u \in Jobs \ {t} : job'[u] = job[u]
      BY <2>1 DEF Ends
    <2>6. \A row \in ledger' : job'[row.site[1]].status \in {"completed", "failed", "cancelled"}
      BY <2>4, <2>5
    <2>. QED  BY <2>3, <2>5, <2>6
  <1>5. CASE InferenceTick
    <2>1. \A t \in Jobs : /\ job'[t].status = job[t].status /\ job'[t].hold = job[t].hold
                          /\ job'[t].left = Less(job[t].left)
      BY <1>5 DEF InferenceTick
    <2>2. ASSUME lapsed' = {}, NEW t \in Jobs, job[t].status \in ActiveJob
          PROVE  job'[t].left > 0
      <3>1. lapsed = {} /\ ~(Holding(t) /\ job[t].left = 1)
        BY <1>5, <2>2 DEF InferenceTick
      <3>2. job[t].left > 0 /\ job[t].left \in Nat /\ job[t].left # 1
        BY <2>2, <3>1 DEF Holding
      <3>. QED  BY <2>1, <3>2 DEF Less
    <2>3. ledger' = ledger
      BY <1>5 DEF InferenceTick
    <2>. QED  BY <2>1, <2>2, <2>3
  <1>6. CASE UNCHANGED <<job, ledger, lapsed>>
    BY <1>6
  <1>. QED
    BY <1>1, <1>2, <1>3, <1>4, <1>5, <1>6
       DEF InferenceNext, Decide, ReserveReceipt, TryRoute, GatewayStops, inferenceVars

\* The units a task holds.
LEMMA UnitsOf ==
    ASSUME NEW T, NEW u
    PROVE  u \in HeldUnits(T) <=> \E t \in T : Holding(t) /\ \E n \in 1 .. job[t].hold : u = <<t, n>>
  BY DEF HeldUnits

\* A hold of n has n units.
LEMMA UnitsCount ==
    ASSUME NEW t, NEW n \in Nat
    PROVE  IsFiniteSet({t} \X (1 .. n)) /\ Cardinality({t} \X (1 .. n)) = n
  <1>1. 1 \in Int /\ n \in Int
    OBVIOUS
  <1>2. IsFiniteSet(1 .. n) /\ Cardinality(1 .. n) = IF 1 > n THEN 0 ELSE n - 1 + 1
    BY <1>1, FS_Interval
  <1>3. IsFiniteSet({t}) /\ Cardinality({t}) = 1
    BY FS_Singleton
  <1>4. IsFiniteSet({t} \X (1 .. n)) /\ Cardinality({t} \X (1 .. n)) = Cardinality({t}) * Cardinality(1 .. n)
    BY <1>2, <1>3, FS_Product
  <1>. QED  BY <1>2, <1>3, <1>4

\* Held units and cost rows are finitely many.
LEMMA FiniteAmounts ==
    ASSUME InferenceTypeOK, NEW T \in SUBSET Jobs
    PROVE  /\ IsFiniteSet(HeldUnits(T)) /\ Held(T) \in Nat
           /\ IsFiniteSet({row \in ledger : row.site[1] \in T}) /\ Spent(T) \in Nat
  <1>. DEFINE H == {u \in T : Holding(u)}
              f == [t \in H |-> {t} \X (1 .. job[t].hold)]
  <1>1. IsFiniteSet(H)
    BY InferenceAssumption, FS_Subset
  <1>2. ASSUME NEW t \in H PROVE IsFiniteSet(f[t])
    <2>1. job[t].hold \in Nat
      BY DEF InferenceTypeOK, JobRows
    <2>. QED  BY <2>1, UnitsCount
  <1>3. DOMAIN f = H /\ f = [t \in H |-> f[t]]
    OBVIOUS
  <1>4. HeldUnits(T) = UNION {f[t] : t \in H}
    BY DEF HeldUnits
  <1>5. IsFiniteSet(HeldUnits(T))
    <2>. HIDE DEF f, H
    <2>1. IsFiniteSet({f[t] : t \in H})
      BY <1>1, <1>3, ImageBounded
    <2>2. \A S \in {f[t] : t \in H} : IsFiniteSet(S)
      BY <1>2
    <2>. QED  BY <1>4, <2>1, <2>2, FS_UNION
  <1>6. IsFiniteSet(ledger)
    <2>. DEFINE All == {"agent", "tool"} \X Sites
                g == [p \in All |-> [kind |-> p[1], site |-> p[2]]]
    <2>1. IsFiniteSet(All)
      <3>1. IsFiniteSet({"agent", "tool"})
        <4>1. IsFiniteSet({"agent"} \cup {"tool"})
          BY FS_Singleton, FS_AddElement
        <4>2. {"agent"} \cup {"tool"} = {"agent", "tool"}
          OBVIOUS
        <4>. QED  BY <4>1, <4>2
      <3>. QED  BY <3>1, InferenceAssumption, FS_Product
    <2>2. ledger \subseteq {g[p] : p \in All}
      <3>. SUFFICES ASSUME NEW row \in ledger PROVE row \in {g[p] : p \in All}
        OBVIOUS
      <3>1. row \in [kind : {"agent", "tool"}, site : Sites]
        BY DEF InferenceTypeOK
      <3>2. <<row.kind, row.site>> \in All /\ row = g[<<row.kind, row.site>>]
        BY <3>1
      <3>. QED  BY <3>2
    <2>3. DOMAIN g = All /\ g = [p \in All |-> g[p]]
      OBVIOUS
    <2>. HIDE DEF g, All
    <2>4. IsFiniteSet({g[p] : p \in All})
      BY <2>1, <2>3, ImageBounded
    <2>. QED  BY <2>2, <2>4, FS_Subset
  <1>7. IsFiniteSet({row \in ledger : row.site[1] \in T})
    BY <1>6, FS_Subset
  <1>. QED  BY <1>5, <1>7, FS_CardinalityType DEF Held, Spent

\* Where no cost is added and no hold grows, the amount falls or stays.
LEMMA NotHeavier ==
    ASSUME InferenceTypeOK, NEW T \in SUBSET Jobs, ledger' = ledger,
           \A t \in T : Holding(t)' => Holding(t) /\ job'[t].hold = job[t].hold
    PROVE  /\ Spent(T)' + Held(T)' <= Spent(T) + Held(T)
           /\ Spent(T)' \in Nat /\ Held(T)' \in Nat
  <1>1. HeldUnits(T)' \subseteq HeldUnits(T)
    BY DEF HeldUnits
  <1>2. IsFiniteSet(HeldUnits(T)) /\ Held(T) \in Nat /\ Spent(T) \in Nat
    BY FiniteAmounts
  <1>3. IsFiniteSet(HeldUnits(T)') /\ Cardinality(HeldUnits(T)') <= Cardinality(HeldUnits(T))
    BY <1>1, <1>2, FS_Subset
  <1>4. Cardinality(HeldUnits(T)') \in Nat
    BY <1>3, FS_CardinalityType
  <1>5. Spent(T)' = Spent(T)
    BY DEF Spent
  <1>. QED  BY <1>2, <1>3, <1>4, <1>5 DEF Held

\* An admission adds its hold.
LEMMA AdmissionAdds ==
    ASSUME InferenceTypeOK, NEW T \in SUBSET Jobs, NEW t \in T, Admit(t)
    PROVE  /\ Spent(T)' + Held(T)' = Spent(T) + Held(T) + Quota[t]
           /\ Spent(T)' \in Nat /\ Held(T)' \in Nat
  <1>. DEFINE New == {t} \X (1 .. Quota[t])
  <1>1. /\ job[t].status = "none" /\ ledger' = ledger
        /\ job' = [job EXCEPT ![t] = [Unleased EXCEPT !.status = "queued", !.hold = Quota[t], !.left = 2 * RunLease]]
    BY DEF Admit
  <1>2. /\ RunLease \in Nat \ {0} /\ Quota[t] \in Nat /\ job \in [Jobs -> JobRows] /\ t \in Jobs
    BY InferenceAssumption DEF InferenceTypeOK
  <1>3. ~Holding(t) /\ Holding(t)' /\ job'[t].hold = Quota[t]
    <2>1. job'[t] = [Unleased EXCEPT !.status = "queued", !.hold = Quota[t], !.left = 2 * RunLease]
      BY <1>1, <1>2
    <2>2. job'[t].status = "queued" /\ job'[t].hold = Quota[t] /\ job'[t].left = 2 * RunLease
      BY <2>1 DEF Unleased
    <2>. QED  BY <1>1, <1>2, <2>2 DEF Holding, ActiveJob
  <1>4. \A u \in Jobs \ {t} : job'[u] = job[u]
    BY <1>1, <1>2
  <1>5. HeldUnits(T)' = HeldUnits(T) \cup New
    BY <1>3, <1>4 DEF HeldUnits, Holding
  <1>6. HeldUnits(T) \cap New = {}
    BY <1>3 DEF HeldUnits
  <1>7. IsFiniteSet(New) /\ Cardinality(New) = Quota[t]
    BY <1>2, UnitsCount
  <1>8. IsFiniteSet(HeldUnits(T)) /\ Held(T) \in Nat /\ Spent(T) \in Nat
    BY FiniteAmounts
  <1>. HIDE DEF New
  <1>9. Cardinality(HeldUnits(T) \cup New) = Held(T) + Quota[t]
    <2>1. Cardinality(HeldUnits(T) \cup New) =
             Cardinality(HeldUnits(T)) + Cardinality(New) - Cardinality(HeldUnits(T) \cap New)
      BY <1>7, <1>8, FS_Union
    <2>2. Cardinality(HeldUnits(T) \cap New) = 0
      BY <1>6, FS_EmptySet
    <2>. QED  BY <1>2, <1>7, <1>8, <2>1, <2>2 DEF Held
  <1>10. Spent(T)' = Spent(T)
    BY <1>1 DEF Spent
  <1>. QED  BY <1>2, <1>5, <1>8, <1>9, <1>10 DEF Held

\* The callback that ends a task turns its hold into at most as much cost.
LEMMA EndingKeeps ==
    ASSUME InferenceTypeOK, HoldsStand, lapsed = {}, NEW T \in SUBSET Jobs, NEW t \in Jobs, Complete(t)
    PROVE  /\ Spent(T)' + Held(T)' <= Spent(T) + Held(T)
           /\ Spent(T)' \in Nat /\ Held(T)' \in Nat
  <1>. DEFINE Own == {t} \X (1 .. Quota[t])
              Old == {row \in ledger : row.site[1] \in T}
  <1>1. PICK primary \in SUBSET Sites, tools \in SUBSET Sites, result \in {"completed", "failed"} :
              Ends(t, primary, tools, result)
    BY CompleteEnds
  <1>2. /\ Quota[t] \in Nat /\ job \in [Jobs -> JobRows] /\ IsFiniteSet(Sites)
    BY InferenceAssumption DEF InferenceTypeOK
  <1>3. Holding(t) /\ ~Holding(t)' /\ job[t].hold = Quota[t]
    <2>1. job'[t].status \in {"cancelled", "completed", "failed"}
      BY <1>1, <1>2 DEF Ends, JobRows
    <2>. QED  BY <1>1, <2>1 DEF Ends, HoldsStand, Holding, ActiveJob
  <1>4. \A u \in Jobs \ {t} : job'[u] = job[u]
    BY <1>1, <1>2 DEF Ends
  <1>5. /\ IsFiniteSet(HeldUnits(T)) /\ Held(T) \in Nat
        /\ IsFiniteSet(Old) /\ Spent(T) \in Nat /\ Spent(T) = Cardinality(Old)
    BY FiniteAmounts DEF Spent
  <1>6. CASE t \notin T
    <2>1. HeldUnits(T)' = HeldUnits(T)
      BY <1>4, <1>6 DEF HeldUnits, Holding
    <2>2. \A row \in Rows(primary, tools) : row.site[1] = t
      BY <1>1 DEF Rows, Ends
    <2>3. {row \in ledger' : row.site[1] \in T} = Old
      BY <1>1, <1>6, <2>2 DEF Ends
    <2>4. Held(T)' = Held(T)
      BY <2>1 DEF Held
    <2>5. Spent(T)' = Spent(T)
      BY <2>3, <1>5 DEF Spent
    <2>. QED  BY <1>5, <2>4, <2>5
  <1>7. CASE t \in T
    <2>1. HeldUnits(T)' = HeldUnits(T) \ Own /\ Own \subseteq HeldUnits(T)
      BY <1>3, <1>4, <1>7 DEF HeldUnits, Holding
    <2>2. IsFiniteSet(Own) /\ Cardinality(Own) = Quota[t]
      BY <1>2, UnitsCount
    <2>3. \A row \in Rows(primary, tools) : row.site[1] = t
      BY <1>1 DEF Rows, Ends
    <2>4. {row \in ledger' : row.site[1] \in T} = Old \cup Rows(primary, tools)
      BY <1>1, <1>7, <2>3 DEF Ends
    <2>. HIDE DEF Own, Old
    <2>5. Held(T)' = Held(T) - Quota[t] /\ Held(T)' \in Nat
      <3>1. HeldUnits(T) \cap Own = Own
        BY <2>1
      <3>2. /\ IsFiniteSet(HeldUnits(T) \ Own)
            /\ Cardinality(HeldUnits(T) \ Own) = Cardinality(HeldUnits(T)) - Cardinality(HeldUnits(T) \cap Own)
        BY <1>5, FS_Difference
      <3>3. Cardinality(HeldUnits(T) \ Own) \in Nat
        BY <3>2, FS_CardinalityType
      <3>. QED  BY <2>1, <2>2, <3>1, <3>2, <3>3 DEF Held
    <2>6. IsFiniteSet(primary) /\ IsFiniteSet(tools)
      BY <1>2, FS_Subset
    <2>7. /\ IsFiniteSet(Rows(primary, tools)) /\ Cardinality(Rows(primary, tools)) \in Nat
          /\ Cardinality(Rows(primary, tools)) <= Quota[t]
      <3>1. /\ IsFiniteSet(Rows(primary, tools))
            /\ Cardinality(Rows(primary, tools)) <= Cardinality(primary) + Cardinality(tools)
        BY <2>6, RowsBounded
      <3>2. Cardinality(primary) \in Nat /\ Cardinality(tools) \in Nat /\ Cardinality(Rows(primary, tools)) \in Nat
        BY <2>6, <3>1, FS_CardinalityType
      <3>3. Cardinality(primary) + Cardinality(tools) <= Quota[t]
        BY <1>1 DEF Ends
      <3>. QED  BY <1>2, <3>1, <3>2, <3>3
    <2>8. Cardinality(Old \cup Rows(primary, tools)) <= Spent(T) + Quota[t]
          /\ Cardinality(Old \cup Rows(primary, tools)) \in Nat
      <3>1. /\ IsFiniteSet(Old \cup Rows(primary, tools))
            /\ Cardinality(Old \cup Rows(primary, tools)) =
                 Cardinality(Old) + Cardinality(Rows(primary, tools)) - Cardinality(Old \cap Rows(primary, tools))
        BY <1>5, <2>7, FS_Union
      <3>2. Cardinality(Old \cap Rows(primary, tools)) \in Nat
        BY <1>5, FS_Intersection, FS_CardinalityType
      <3>3. Cardinality(Old \cup Rows(primary, tools)) \in Nat
        BY <3>1, FS_CardinalityType
      <3>. QED  BY <1>2, <1>5, <2>7, <3>1, <3>2, <3>3
    <2>9. Spent(T)' = Cardinality(Old \cup Rows(primary, tools))
      BY <2>4 DEF Spent
    <2>. QED  BY <1>2, <1>5, <2>5, <2>8, <2>9
  <1>. QED  BY <1>6, <1>7

\* No step but an admission adds to what is spent and held, while no hold has lapsed.
LEMMA OthersKeep ==
    ASSUME InferenceTypeOK, HoldsStand, lapsed = {}, [InferenceNext]_inferenceVars,
           NEW T \in SUBSET Jobs, \A t \in T : ~Admit(t)
    PROVE  /\ Spent(T)' + Held(T)' <= Spent(T) + Held(T)
           /\ Spent(T)' \in Nat /\ Held(T)' \in Nat
  <1>0. /\ job \in [Jobs -> JobRows]
        /\ \A t \in Jobs : job[t].status \in ActiveJob => Holding(t)
    BY DEF InferenceTypeOK, HoldsStand, Holding
  <1>1. ASSUME NEW t \in Jobs, Complete(t)
        PROVE  Spent(T)' + Held(T)' <= Spent(T) + Held(T) /\ Spent(T)' \in Nat /\ Held(T)' \in Nat
    BY <1>1, EndingKeeps
  <1>2. ASSUME NEW t \in Jobs, Admit(t)
        PROVE  ledger' = ledger /\ \A u \in T : Holding(u)' => Holding(u) /\ job'[u].hold = job[u].hold
    <2>1. t \notin T
      BY <1>2
    <2>2. ledger' = ledger /\ \A u \in Jobs : u # t => job'[u] = job[u]
      BY <1>0, <1>2 DEF Admit
    <2>. QED  BY <2>1, <2>2 DEF Holding
  <1>3. ASSUME NEW t \in Jobs, ApplyCancel(t)
        PROVE  ledger' = ledger /\ \A u \in T : Holding(u)' => Holding(u) /\ job'[u].hold = job[u].hold
    BY <1>0, <1>3 DEF ApplyCancel, Holding, ActiveJob, JobRows
  <1>4. ASSUME NEW t \in Jobs, NEW r \in RunsOf[t], Claim(t, r)
        PROVE  ledger' = ledger /\ \A u \in T : Holding(u)' => Holding(u) /\ job'[u].hold = job[u].hold
    <2>1. job[t].status \in ActiveJob /\ ledger' = ledger
      BY <1>4 DEF Claim, ActiveJob
    <2>2. \A u \in Jobs : u # t => job'[u] = job[u]
      BY <1>0, <1>4 DEF Claim
    <2>3. job'[t].hold = job[t].hold
      BY <1>0, <1>4 DEF Claim, JobRows
    <2>. QED  BY <1>0, <2>1, <2>2, <2>3 DEF Holding
  <1>5. CASE InferenceTick
    <2>1. ledger' = ledger
      BY <1>5 DEF InferenceTick
    <2>2. ASSUME NEW u \in T PROVE Holding(u)' => Holding(u) /\ job'[u].hold = job[u].hold
      <3>1. /\ job'[u].status = job[u].status /\ job'[u].hold = job[u].hold
            /\ job'[u].left = Less(job[u].left)
        BY <1>0, <1>5 DEF InferenceTick, JobRows
      <3>2. job[u].left \in Nat
        BY <1>0 DEF JobRows
      <3>. QED  BY <3>1, <3>2 DEF Holding, Less
    <2>3. ledger' = ledger /\ \A u \in T : Holding(u)' => Holding(u) /\ job'[u].hold = job[u].hold
      BY <2>1, <2>2
    <2>. QED  BY <2>3, NotHeavier
  <1>6. CASE UNCHANGED <<job, ledger>>
    <2>1. ledger' = ledger /\ \A u \in T : Holding(u)' => Holding(u) /\ job'[u].hold = job[u].hold
      BY <1>6 DEF Holding
    <2>. QED  BY <2>1, NotHeavier
  <1>7. \/ \E t \in Jobs : \/ Admit(t) \/ Complete(t) \/ ApplyCancel(t)
                          \/ \E r \in RunsOf[t] : Claim(t, r)
        \/ InferenceTick
        \/ UNCHANGED <<job, ledger>>
    BY DEF InferenceNext, Decide, ReserveReceipt, TryRoute, GatewayStops, inferenceVars
  <1>8. CASE \E t \in Jobs : Admit(t) \/ ApplyCancel(t) \/ \E r \in RunsOf[t] : Claim(t, r)
    <2>1. ledger' = ledger /\ \A u \in T : Holding(u)' => Holding(u) /\ job'[u].hold = job[u].hold
      BY <1>2, <1>3, <1>4, <1>8
    <2>. QED  BY <2>1, NotHeavier
  <1>. QED  BY <1>1, <1>5, <1>6, <1>7, <1>8

\* An amount within a budget stays within it: an admission asks for its hold first.
LEMMA BudgetKept ==
    ASSUME InferenceTypeOK, HoldsStand, lapsed = {}, [InferenceNext]_inferenceVars,
           NEW T \in SUBSET Jobs, NEW budget \in Nat, Spent(T) + Held(T) <= budget,
           \A t \in T : Admit(t) => Spent(T) + Held(T) + Quota[t] <= budget
    PROVE  Spent(T)' + Held(T)' <= budget
  <1>0. Spent(T) \in Nat /\ Held(T) \in Nat /\ \A t \in Jobs : Quota[t] \in Nat
    BY FiniteAmounts, InferenceAssumption
  <1>1. ASSUME NEW t \in T, Admit(t) PROVE Spent(T)' + Held(T)' <= budget
    <2>1. Spent(T)' + Held(T)' = Spent(T) + Held(T) + Quota[t]
      BY <1>1, AdmissionAdds
    <2>. QED  BY <1>1, <2>1
  <1>2. CASE \A t \in T : ~Admit(t)
    <2>1. /\ Spent(T)' + Held(T)' <= Spent(T) + Held(T)
          /\ Spent(T)' \in Nat /\ Held(T)' \in Nat
      BY <1>2, OthersKeep
    <2>. QED  BY <1>0, <2>1
  <1>. QED  BY <1>1, <1>2

\* The project's budget and those of the items survive every step.
LEMMA BudgetStep ==
    InferenceTypeOK /\ HoldsStand /\ WithinBudget /\ [InferenceNext]_inferenceVars => WithinBudget'
  <1>. SUFFICES ASSUME InferenceTypeOK, HoldsStand, WithinBudget, [InferenceNext]_inferenceVars, lapsed' = {}
                PROVE  /\ Budget > 0 => Spent(Jobs)' + Held(Jobs)' <= Budget
                       /\ \A t \in Jobs : ItemBudget[ItemOf[t]] > 0 =>
                             Spent(SameItem(t))' + Held(SameItem(t))' <= ItemBudget[ItemOf[t]]
    BY DEF WithinBudget, SameItem
  <1>1. lapsed = {}
    BY DEF InferenceNext, Admit, Decide, ApplyCancel, Complete, Claim, ReserveReceipt, TryRoute, GatewayStops,
       InferenceTick, inferenceVars
  <1>2. /\ Budget \in Nat /\ Jobs \in SUBSET Jobs
        /\ \A t \in Jobs : ItemBudget[ItemOf[t]] \in Nat /\ SameItem(t) \in SUBSET Jobs
    BY InferenceAssumption DEF SameItem
  <1>3. ASSUME Budget > 0 PROVE Spent(Jobs)' + Held(Jobs)' <= Budget
    <2>1. Spent(Jobs) + Held(Jobs) <= Budget
      BY <1>1, <1>3 DEF WithinBudget
    <2>2. \A t \in Jobs : Admit(t) => Spent(Jobs) + Held(Jobs) + Quota[t] <= Budget
      BY <1>3 DEF Admit, Admitted, Fits
    <2>. QED  BY <1>1, <1>2, <2>1, <2>2, BudgetKept
  <1>4. ASSUME NEW u \in Jobs, ItemBudget[ItemOf[u]] > 0
        PROVE  Spent(SameItem(u))' + Held(SameItem(u))' <= ItemBudget[ItemOf[u]]
    <2>1. Spent(SameItem(u)) + Held(SameItem(u)) <= ItemBudget[ItemOf[u]]
      BY <1>1, <1>4 DEF WithinBudget
    <2>2. ASSUME NEW t \in SameItem(u), Admit(t)
          PROVE  Spent(SameItem(u)) + Held(SameItem(u)) + Quota[t] <= ItemBudget[ItemOf[u]]
      <3>1. SameItem(t) = SameItem(u) /\ ItemOf[t] = ItemOf[u]
        BY DEF SameItem
      <3>2. Fits(SameItem(t), ItemBudget[ItemOf[t]], Quota[t])
        BY <2>2 DEF Admit, Admitted
      <3>. QED  BY <1>4, <3>1, <3>2 DEF Fits
    <2>. QED  BY <1>1, <1>2, <2>1, <2>2, BudgetKept
  <1>. QED  BY <1>3, <1>4

InferenceInv == InferenceTypeOK /\ CallsCounted /\ HoldsStand /\ WithinBudget

\* The invariant of the gateway, the holds and the budgets.
LEMMA InferenceInvariant == InferenceSpec => []InferenceInv
  <1>1. ASSUME InferenceInit PROVE InferenceInv
    <2>0. /\ job = [t \in Jobs |-> [Unleased EXCEPT !.status = "none"]]
          /\ receipt = [s \in Sites |-> "none"]
          /\ gateway = [s \in Sites |-> 0] /\ tried = [s \in Sites |-> 0]
          /\ ledger = {} /\ cancel = [t \in Jobs |-> "none"] /\ lapsed = {}
      BY <1>1 DEF InferenceInit, InferenceInitWith
    <2>1. \A t \in Jobs : job[t].status = "none"
      BY <2>0 DEF Unleased
    <2>2. InferenceTypeOK
      <3>1. [Unleased EXCEPT !.status = "none"] \in JobRows
        BY DEF Unleased, JobRows, JobStatuses, Holders, ActiveJob
      <3>. QED  BY <2>0, <3>1 DEF InferenceTypeOK
    <2>3. CallsCounted
      <3>1. \A t \in Jobs : \A r \in RunsOf[t] : Taken(t, r) = {}
        BY <2>0 DEF Taken, SitesOf
      <3>2. \A t \in Jobs : \A r \in RunsOf[t] : Cardinality(Taken(t, r)) = 0
        BY <3>1, FS_EmptySet
      <3>. QED  BY <2>0, <3>2, InferenceAssumption DEF CallsCounted
    <2>4. HoldsStand
      BY <2>0, <2>1 DEF HoldsStand, ActiveJob
    <2>5. ASSUME NEW T \in SUBSET Jobs PROVE Spent(T) + Held(T) = 0
      <3>1. HeldUnits(T) = {} /\ {row \in ledger : row.site[1] \in T} = {}
        BY <2>0, <2>1 DEF HeldUnits, Holding, ActiveJob
      <3>. QED  BY <3>1, FS_EmptySet DEF Spent, Held
    <2>6. WithinBudget
      <3>1. Spent(Jobs) + Held(Jobs) = 0 /\ \A t \in Jobs : Spent(SameItem(t)) + Held(SameItem(t)) = 0
        BY <2>5 DEF SameItem
      <3>. QED  BY <3>1, InferenceAssumption DEF WithinBudget
    <2>. QED  BY <2>2, <2>3, <2>4, <2>6 DEF InferenceInv
  <1>2. InferenceInv /\ [InferenceNext]_inferenceVars => InferenceInv'
    BY InferenceTypes, CallsStep, HoldsStep, BudgetStep DEF InferenceInv
  <1>. QED  BY <1>1, <1>2, PTL DEF InferenceSpec

\* A paid call is made once: the provider is asked at most once per route for a call, and
\* a run asks for no more calls than its quota (reserveAutomationInferenceReceipt).
THEOREM InferencePaidOnce == InferenceSpec => []PaidOnce
  <1>1. InferenceInv => PaidOnce
    <2>. SUFFICES ASSUME InferenceInv PROVE PaidOnce
      OBVIOUS
    <2>1. ASSUME NEW t \in Jobs, NEW r \in RunsOf[t]
          PROVE  Cardinality({s \in SitesOf(t, r) : tried[s] > 0}) <= Quota[t]
      <3>1. {s \in SitesOf(t, r) : tried[s] > 0} \subseteq Taken(t, r)
        BY DEF InferenceInv, CallsCounted, Taken, SitesOf
      <3>2. IsFiniteSet(Taken(t, r))
        BY InferenceAssumption, FS_Subset DEF Taken, SitesOf
      <3>3. /\ Cardinality({s \in SitesOf(t, r) : tried[s] > 0}) <= Cardinality(Taken(t, r))
            /\ IsFiniteSet({s \in SitesOf(t, r) : tried[s] > 0})
        BY <3>1, <3>2, FS_Subset
      <3>4. Cardinality(Taken(t, r)) <= Quota[t]
        BY DEF InferenceInv, CallsCounted
      <3>5. /\ Cardinality({s \in SitesOf(t, r) : tried[s] > 0}) \in Nat
            /\ Cardinality(Taken(t, r)) \in Nat /\ Quota[t] \in Nat
        BY <3>2, <3>3, FS_CardinalityType, InferenceAssumption
      <3>. QED  BY <3>3, <3>4, <3>5
    <2>2. \A s \in Sites : tried[s] <= Routes
      BY DEF InferenceInv, CallsCounted
    <2>. QED  BY <2>1, <2>2 DEF PaidOnce
  <1>. QED  BY <1>1, InferenceInvariant, PTL

\* While no hold lapses under an active task, costs and live holds stay within the
\* project's and the items' budgets (enqueueAgentRun, Complete).
THEOREM InferenceWithinBudget == InferenceSpec => []WithinBudget
  <1>1. InferenceInv => WithinBudget
    BY DEF InferenceInv
  <1>. QED  BY <1>1, InferenceInvariant, PTL

\* The ledger grows only by the callback that ends its task, and no receipt is charged
\* twice (Complete, buildVerifiedToolExecutionLedger).
THEOREM InferenceChargedOnce == InferenceSpec => ChargedOnce
  <1>. DEFINE Once == /\ ledger \subseteq ledger'
                      /\ \A row \in ledger' \ ledger :
                            /\ job[row.site[1]].status \in {"running", "cancel_requested"}
                            /\ job'[row.site[1]].status \notin ActiveJob
                            /\ Cardinality({other \in ledger' : other.site = row.site}) = 1
  <1>1. ASSUME InferenceInv, [InferenceNext]_inferenceVars PROVE [Once]_inferenceVars
    <2>1. CASE ledger' = ledger
      BY <2>1
    <2>2. ASSUME NEW t \in Jobs, Complete(t) PROVE Once
      <3>0. InferenceTypeOK /\ HoldsStand
        BY <1>1 DEF InferenceInv
      <3>1. PICK primary \in SUBSET Sites, tools \in SUBSET Sites, result \in {"completed", "failed"} :
                Ends(t, primary, tools, result)
        BY <2>2, <3>0, CompleteEnds
      <3>2. job'[t].status \in {"cancelled", "completed", "failed"}
        BY <3>0, <3>1 DEF Ends, InferenceTypeOK, JobRows
      <3>3. ASSUME NEW row \in ledger' \ ledger
            PROVE  /\ row.site[1] = t
                   /\ {other \in ledger' : other.site = row.site} = {row}
        <4>1. row \in Rows(primary, tools) /\ ledger' = ledger \cup Rows(primary, tools)
          BY <3>1 DEF Ends
        <4>2. row.site[1] = t
          BY <3>1, <4>1 DEF Rows, Ends
        <4>3. \A other \in ledger : other.site # row.site
          BY <3>0, <3>1, <4>2 DEF HoldsStand, Ends
        <4>4. primary \cap tools = {}
          BY <3>1 DEF Ends
        <4>5. \A other \in Rows(primary, tools) : other.site = row.site => other = row
          BY <4>1, <4>4 DEF Rows
        <4>. QED  BY <4>1, <4>2, <4>3, <4>5
      <3>4. \A row \in ledger' \ ledger : Cardinality({other \in ledger' : other.site = row.site}) = 1
        BY <3>3, FS_Singleton
      <3>5. ledger \subseteq ledger' /\ job[t].status \in {"running", "cancel_requested"}
        BY <3>1 DEF Ends
      <3>. QED  BY <3>2, <3>3, <3>4, <3>5 DEF ActiveJob
    <2>3. ledger' = ledger \/ \E t \in Jobs : Complete(t)
      BY <1>1 DEF InferenceNext, Admit, Decide, ApplyCancel, Claim, ReserveReceipt, TryRoute, GatewayStops,
         InferenceTick, inferenceVars
    <2>. QED  BY <2>1, <2>2, <2>3
  <1>. QED  BY <1>1, InferenceInvariant, PTL DEF InferenceSpec, ChargedOnce
-----------------------------------------------------------------------------
(* Workflow. *)

States == {"planning", "plan_review", "implementation", "code_review", "preview_pending", "qa_running",
           "qa_review", "release_review", "released", "assessed", "blocked", "cancelled"}
Phases == {"none", "plan", "implementation", "publish", "qa", "release_gate", "summary"}
ItemRow == [state : States, epoch : Nat, delegated : BOOLEAN]
RunRow == [phase : Phases, status : {"none", "failed", "completed", "cancelled"} \cup ActiveRun,
           grant : Grants \cup {Nothing}, inTime : BOOLEAN]
IntentStatus == {"none", "pending", "claimed", "dispatched", "superseded", "done", "blocked"}
IntentRow == [status : IntentStatus, epoch : Nat, attempts : Nat, due : BOOLEAN]
GrantRow == [status : {"none", "live", "expired", "revoked", "invalidated", "consumed"}, diff : Nat]
Places == {"idle", "ended", "check", "create", "refused", "admitted", "unavailable", "no budget",
           "inspect", "save", "finish", "complete"}
CallerRow == [at : Places, req : Requests \cup {Nothing}, phase : Phases, grant : Grants \cup {Nothing},
              attempts : Nat, late : BOOLEAN, status : IntentStatus]
WriterRow == [kind : {"idle", "ended", "plan", "change set"}, row : ItemRow]

\* The item and those who write it, runs, intents, grants and callers have their types.
WorkflowTypeOK ==
    /\ item \in ItemRow /\ writer \in [Writers -> WriterRow]
    /\ run \in [Requests -> RunRow] /\ rows \in [Requests -> Nat]
    /\ intent \in [Intents -> IntentRow] /\ grant \in [Grants -> GrantRow]
    /\ caller \in [Callers -> CallerRow]

\* A call works on the run of its own, a dispatcher on that of an intent.
CallersAsk ==
    \A p \in Callers : caller[p].at \notin {"idle", "ended"} =>
        /\ p \in Manual => caller[p].req = p
        /\ p \in Replicas => caller[p].req \in Intents

\* No two runs of a phase are active, nor two tasks of an intent stored.
RunsApart ==
    /\ \A i \in Intents : rows[i] <= 1
    /\ \A phase : \A q, r \in Active(phase) : q = r

\* Gates and submissions lead from state to state.
LEMMA MovedItem ==
    ASSUME WorkflowTypeOK
    PROVE  /\ \A a \in Actions : [item EXCEPT !.state = Target(a)] \in ItemRow
           /\ \A phase : Advanced(phase) \in ItemRow
  <1>1. \A a \in Actions : Target(a) \in States
    BY DEF Actions, Target, Transitions, Move, States
  <1>2. item \in ItemRow /\ \A s \in States : [item EXCEPT !.state = s] \in ItemRow
    BY DEF WorkflowTypeOK, ItemRow
  <1>3. \A phase : Advanced(phase) \in ItemRow
    BY <1>2 DEF Advanced, States
  <1>. QED  BY <1>1, <1>2, <1>3

\* The item and the handlers that hold a copy of it.
LEMMA ItemTypes ==
    ASSUME WorkflowTypeOK, WorkflowNext
    PROVE  item' \in ItemRow /\ writer' \in [Writers -> WriterRow]
  <1>0. item \in ItemRow /\ writer \in [Writers -> WriterRow]
    BY DEF WorkflowTypeOK
  <1>1. ASSUME NEW a \in Actions, TransitionWorkItem(a) PROVE item' \in ItemRow /\ writer' = writer
    BY <1>1, MovedItem DEF TransitionWorkItem
  <1>2. ASSUME NEW w \in Writers, RecordReads(w) PROVE item' = item /\ writer' \in [Writers -> WriterRow]
    <2>1. KindIn(item.state) \in {"plan", "change set"}
      BY <1>2 DEF RecordReads, KindIn
    <2>2. [kind |-> KindIn(item.state), row |-> item] \in WriterRow
      BY <1>0, <2>1 DEF WriterRow
    <2>. QED  BY <1>0, <1>2, <2>2 DEF RecordReads
  <1>3. ASSUME NEW w \in Writers, RecordSaves(w) PROVE item' \in ItemRow /\ writer' \in [Writers -> WriterRow]
    <2>1. writer[w] \in WriterRow /\ writer[w].row \in ItemRow /\ [writer[w] EXCEPT !.kind = "ended"] \in WriterRow
      BY <1>0 DEF WriterRow
    <2>. QED  BY <1>0, <1>3, <2>1 DEF RecordSaves
  <1>4. ASSUME NEW d \in Replicas, CompleteIntent(d) PROVE item' \in ItemRow /\ writer' = writer
    <2>1. \A n \in Nat : [item EXCEPT !.state = "plan_review", !.epoch = n] \in ItemRow
      BY <1>0 DEF ItemRow, States
    <2>2. item.epoch + 1 \in Nat
      BY <1>0 DEF ItemRow
    <2>. QED  BY <1>0, <1>4, <2>1, <2>2 DEF CompleteIntent
  <1>5. ASSUME NEW q \in Requests, ChildCompletes(q) \/ RunCompletes(q) PROVE item' \in ItemRow /\ writer' = writer
    BY <1>5, MovedItem DEF ChildCompletes, RunCompletes
  <1>. QED  BY <1>0, <1>1, <1>2, <1>3, <1>4, <1>5
       DEF WorkflowNext, StartAgentRun, AdmitCheck, AdmitCreate, AdmitError, Leaves, Inspect, Answered, SaveIntent,
           Finish, ClaimIntent, Due, RevokeGrant, GrantExpires, CreateGrant, RunClaimed, CallbackReads, RunEnds,
           CancelRun, PreviewRecorded

\* Grants: their status, and that none returns from withdrawal, but for an expired one
\* whose callback had read its clock in time.
GrantsStay ==
    \A g \in Grants :
       /\ grant[g].status \in {"revoked", "invalidated"} => grant'[g].status \notin {"live", "consumed"}
       /\ grant[g].status = "expired" =>
             /\ grant'[g].status # "live"
             /\ grant'[g].status = "consumed" => \E q \in Requests : run[q].grant = g /\ run[q].inTime
LEMMA GrantStep ==
    ASSUME WorkflowTypeOK, WorkflowNext
    PROVE  grant' \in [Grants -> GrantRow] /\ GrantsStay
  <1>0. grant \in [Grants -> GrantRow] /\ \A g \in Grants : grant[g] \in GrantRow
    BY DEF WorkflowTypeOK
  <1>1. ASSUME NEW g \in Grants, NEW status \in {"live", "expired", "revoked", "invalidated", "consumed"}
        PROVE  [grant[g] EXCEPT !.status = status] \in GrantRow /\ [grant[g] EXCEPT !.status = status].status = status
    BY <1>0 DEF GrantRow
  <1>2. ASSUME NEW a \in Actions, TransitionWorkItem(a) PROVE grant' \in [Grants -> GrantRow] /\ GrantsStay
    BY <1>0, <1>1, <1>2 DEF TransitionWorkItem, GrantsStay
  <1>3. ASSUME NEW g \in Grants, NEW diff \in 1..MaxDiffs, CreateGrant(g, diff)
        PROVE  grant' \in [Grants -> GrantRow] /\ GrantsStay
    <2>1. [status |-> "live", diff |-> diff] \in GrantRow
      BY WorkflowAssumption DEF GrantRow
    <2>. QED  BY <1>0, <1>3, <2>1 DEF CreateGrant, GrantsStay
  <1>4. ASSUME NEW g \in Grants, RevokeGrant(g) PROVE grant' \in [Grants -> GrantRow] /\ GrantsStay
    <2>1. grant' = [grant EXCEPT ![g] = [grant[g] EXCEPT !.status = "revoked"]]
      BY <1>4 DEF RevokeGrant
    <2>2. grant[g].status \in {"live", "expired"}
      BY <1>4 DEF RevokeGrant
    <2>. QED  BY <1>0, <1>1, <2>1, <2>2 DEF GrantsStay
  <1>5. ASSUME NEW g \in Grants, GrantExpires(g) PROVE grant' \in [Grants -> GrantRow] /\ GrantsStay
    <2>1. grant' = [grant EXCEPT ![g] = [grant[g] EXCEPT !.status = "expired"]]
      BY <1>5 DEF GrantExpires
    <2>. QED  BY <1>0, <1>1, <2>1 DEF GrantsStay
  <1>6. ASSUME NEW q \in Requests, RunCompletes(q) PROVE grant' \in [Grants -> GrantRow] /\ GrantsStay
    <2>. DEFINE g == run[q].grant
    <2>1. CASE grant' = grant
      BY <1>0, <2>1 DEF GrantsStay
    <2>2. CASE grant' # grant
      <3>1. /\ grant' = [grant EXCEPT ![g] = [grant[g] EXCEPT !.status = "consumed"]]
            /\ grant[g].status \in {"live", "expired"} /\ run[q].inTime
        BY <1>6, <2>2 DEF RunCompletes, MayPublish
      <3>. QED  BY <1>0, <1>1, <3>1 DEF GrantsStay
    <2>. QED  BY <2>1, <2>2
  <1>7. ASSUME grant' = grant PROVE grant' \in [Grants -> GrantRow] /\ GrantsStay
    BY <1>0, <1>7 DEF GrantsStay
  <1>. QED  BY <1>2, <1>3, <1>4, <1>5, <1>6, <1>7
       DEF WorkflowNext, RecordReads, RecordSaves, StartAgentRun, AdmitCheck, AdmitCreate, AdmitError, Leaves, Inspect,
           Answered, SaveIntent, Finish, CompleteIntent, ClaimIntent, Due, RunClaimed, ChildCompletes, CallbackReads,
           RunEnds, CancelRun, PreviewRecorded

\* The intents.
LEMMA IntentTypes ==
    ASSUME WorkflowTypeOK, WorkflowNext
    PROVE  intent' \in [Intents -> IntentRow]
  <1>0. /\ intent \in [Intents -> IntentRow] /\ \A i \in Intents : intent[i] \in IntentRow
        /\ item.epoch \in Nat /\ Grants \subseteq Intents
        /\ \A p \in Callers : caller[p] \in CallerRow /\ caller[p].attempts \in Nat /\ caller[p].status \in IntentStatus
        /\ Replicas \subseteq Callers
    BY DEF WorkflowTypeOK, ItemRow, CallerRow, Intents, Callers
  <1>1. \A i \in Intents : \A status \in IntentStatus : [intent[i] EXCEPT !.status = status] \in IntentRow
    BY <1>0 DEF IntentRow
  <1>2. ASSUME NEW d \in Replicas, NEW i \in Intents, ClaimIntent(d, i) PROVE intent' \in [Intents -> IntentRow]
    <2>1. \A j \in Intents : [intent[j] EXCEPT !.status = "claimed", !.due = FALSE] \in IntentRow
      BY <1>0 DEF IntentRow, IntentStatus
    <2>. QED  BY <1>0, <1>1, <1>2, <2>1 DEF ClaimIntent, IntentStatus
  <1>3. ASSUME NEW i, NEW status \in IntentStatus, intent' = [intent EXCEPT ![i].status = status]
        PROVE  intent' \in [Intents -> IntentRow]
    BY <1>0, <1>1, <1>3
  <1>4. ASSUME NEW d \in Replicas, SaveIntent(d) PROVE intent' \in [Intents -> IntentRow]
    <2>. DEFINE i == caller[d].req
    <2>1. \A j \in Intents : [intent[j] EXCEPT !.status = caller[d].status, !.attempts = caller[d].attempts,
                                                !.due = FALSE] \in IntentRow
      BY <1>0 DEF IntentRow
    <2>2. \/ intent' = intent
          \/ intent' = [intent EXCEPT ![i] = [intent[i] EXCEPT !.status = caller[d].status,
                                                 !.attempts = caller[d].attempts, !.due = FALSE]]
      BY <1>0, <1>4 DEF SaveIntent
    <2>. HIDE DEF i
    <2>. QED  BY <1>0, <2>1, <2>2
  <1>5. ASSUME NEW d \in Replicas, Inspect(d) \/ Finish(d) \/ CompleteIntent(d)
        PROVE  intent' \in [Intents -> IntentRow]
    <2>1. \/ intent' = intent
          \/ \E status \in {"superseded", "blocked", "done"} : intent' = [intent EXCEPT ![caller[d].req].status = status]
      BY <1>5 DEF Inspect, Finish, CompleteIntent
    <2>. QED  BY <1>0, <1>3, <2>1 DEF IntentStatus
  <1>6. ASSUME NEW i \in Intents, Due(i) PROVE intent' \in [Intents -> IntentRow]
    <2>1. [intent[i] EXCEPT !.due = TRUE] \in IntentRow
      BY <1>0 DEF IntentRow
    <2>. QED  BY <1>0, <1>6, <2>1 DEF Due
  <1>7. ASSUME NEW g \in Grants, NEW diff, CreateGrant(g, diff) PROVE intent' \in [Intents -> IntentRow]
    <2>1. [intent[g] EXCEPT !.status = "pending", !.epoch = item.epoch] \in IntentRow
      BY <1>0 DEF IntentRow, IntentStatus
    <2>2. intent' = [intent EXCEPT ![g] = [intent[g] EXCEPT !.status = "pending", !.epoch = item.epoch]]
      BY <1>0, <1>7 DEF CreateGrant
    <2>. QED  BY <1>0, <2>1, <2>2
  <1>8. ASSUME NEW g \in Grants, RevokeGrant(g) PROVE intent' \in [Intents -> IntentRow]
    <2>1. intent[g].status \in IntentStatus
      BY <1>0 DEF IntentRow
    <2>2. PICK status \in IntentStatus : intent' = [intent EXCEPT ![g].status = status]
      BY <1>8, <2>1 DEF RevokeGrant, IntentStatus
    <2>. QED  BY <1>3, <2>2
  <1>. QED  BY <1>0, <1>2, <1>4, <1>5, <1>6, <1>7, <1>8
       DEF WorkflowNext, TransitionWorkItem, RecordReads, RecordSaves, StartAgentRun, AdmitCheck, AdmitCreate,
           AdmitError, Leaves, Answered, GrantExpires, RunClaimed, ChildCompletes, CallbackReads, RunCompletes, RunEnds,
           CancelRun, PreviewRecorded

\* A caller reaches a place with what it asks for.
Reaches(p, c) ==
    /\ c \in CallerRow /\ caller' = [caller EXCEPT ![p] = c]
    /\ c.at \notin {"idle", "ended"} => /\ p \in Manual => c.req = p
                                        /\ p \in Replicas => c.req \in Intents

\* That keeps what the callers ask for.
LEMMA ReachesKeeps ==
    ASSUME WorkflowTypeOK, CallersAsk, NEW p \in Callers, NEW c, Reaches(p, c)
    PROVE  caller' \in [Callers -> CallerRow] /\ CallersAsk'
  <1>1. caller \in [Callers -> CallerRow]
    BY DEF WorkflowTypeOK
  <1>2. caller'[p] = c /\ \A q \in Callers \ {p} : caller'[q] = caller[q]
    BY <1>1 DEF Reaches
  <1>. QED  BY <1>1, <1>2 DEF Reaches, CallersAsk

\* The callers: a call goes its way once, a dispatcher one intent after the other.
LEMMA CallerSteps ==
    ASSUME WorkflowTypeOK, CallersAsk, WorkflowNext
    PROVE  caller' \in [Callers -> CallerRow] /\ CallersAsk'
  <1>. DEFINE CallersKept == caller' \in [Callers -> CallerRow] /\ CallersAsk'
  <1>0. /\ caller \in [Callers -> CallerRow] /\ \A p \in Callers : caller[p] \in CallerRow
        /\ Replicas \subseteq Callers /\ Manual \subseteq Callers /\ Replicas \cap Manual = {}
        /\ Intents \subseteq Requests /\ Manual \subseteq Requests /\ Grants \subseteq Intents
        /\ \A i \in Intents : intent[i].attempts \in Nat
    BY WorkflowAssumption DEF WorkflowTypeOK, Callers, Requests, Intents, IntentRow
  <1>1. Idle \in CallerRow /\ Idle.at = "idle" /\ [Idle EXCEPT !.at = "ended"] \in CallerRow
        /\ [Idle EXCEPT !.at = "ended"].at = "ended"
    BY DEF Idle, CallerRow, Places, Phases, IntentStatus
  <1>2. ASSUME caller' = caller PROVE CallersKept
    BY <1>0, <1>2 DEF CallersAsk
  <1>3. ASSUME NEW p \in Callers, caller' = [caller EXCEPT ![p] = Idle]
                                  \/ caller' = [caller EXCEPT ![p] = [Idle EXCEPT !.at = "ended"]]
        PROVE  CallersKept
    <2>1. CASE caller' = [caller EXCEPT ![p] = Idle]
      BY <1>1, <2>1, ReachesKeeps DEF Reaches
    <2>2. CASE caller' = [caller EXCEPT ![p] = [Idle EXCEPT !.at = "ended"]]
      <3>. DEFINE c == [Idle EXCEPT !.at = "ended"]
      <3>1. c \in CallerRow /\ c.at = "ended" /\ caller' = [caller EXCEPT ![p] = c]
        BY <1>1, <2>2
      <3>. HIDE DEF c
      <3>2. Reaches(p, c)
        BY <3>1 DEF Reaches
      <3>. QED  BY <3>2, ReachesKeeps
    <2>. QED  BY <1>3, <2>1, <2>2
  <1>4. ASSUME NEW p \in Callers, NEW place \in Places, caller[p].at \notin {"idle", "ended"},
               caller' = [caller EXCEPT ![p].at = place]
        PROVE  CallersKept
    <2>. DEFINE c == [caller[p] EXCEPT !.at = place]
    <2>1. c \in CallerRow /\ c.req = caller[p].req /\ caller' = [caller EXCEPT ![p] = c]
      BY <1>0, <1>4 DEF CallerRow
    <2>. HIDE DEF c
    <2>2. Reaches(p, c)
      BY <1>4, <2>1 DEF Reaches, CallersAsk
    <2>. QED  BY <2>2, ReachesKeeps
  <1>5. ASSUME NEW p \in Callers, NEW place \in Places, NEW status \in IntentStatus, NEW n \in Nat,
               caller[p].at \notin {"idle", "ended"},
               \/ caller' = Asks(p, place, status)
               \/ caller' = [Asks(p, place, status) EXCEPT ![p].attempts = n]
        PROVE  CallersKept
    <2>1. CASE caller' = Asks(p, place, status)
      <3>. DEFINE c == [caller[p] EXCEPT !.at = place, !.status = status]
      <3>1. c \in CallerRow /\ c.req = caller[p].req
        BY <1>0 DEF CallerRow
      <3>2. caller' = [caller EXCEPT ![p] = c]
        BY <1>0, <2>1 DEF Asks
      <3>. HIDE DEF c
      <3>. QED  BY <1>5, <3>1, <3>2, ReachesKeeps DEF Reaches, CallersAsk
    <2>2. CASE caller' = [Asks(p, place, status) EXCEPT ![p].attempts = n]
      <3>. DEFINE c == [caller[p] EXCEPT !.at = place, !.status = status, !.attempts = n]
      <3>1. c \in CallerRow /\ c.req = caller[p].req
        BY <1>0 DEF CallerRow
      <3>2. caller' = [caller EXCEPT ![p] = c]
        BY <1>0, <2>2 DEF Asks
      <3>. HIDE DEF c
      <3>. QED  BY <1>5, <3>1, <3>2, ReachesKeeps DEF Reaches, CallersAsk
    <2>. QED  BY <1>5, <2>1, <2>2
  <1>6. ASSUME NEW p \in Callers, StartAgentRun(p) PROVE CallersKept
    <2>1. PICK phase \in Phases : \E g \in Grants \cup {Nothing} :
             caller' = [caller EXCEPT ![p] = [Idle EXCEPT !.at = "check", !.req = p, !.phase = phase, !.grant = g]]
      BY <1>6 DEF StartAgentRun, PhaseState, Phases
    <2>2. PICK g \in Grants \cup {Nothing} :
             caller' = [caller EXCEPT ![p] = [Idle EXCEPT !.at = "check", !.req = p, !.phase = phase, !.grant = g]]
      BY <2>1
    <2>. DEFINE c == [Idle EXCEPT !.at = "check", !.req = p, !.phase = phase, !.grant = g]
    <2>3. p \in Manual /\ p \in Requests
      BY <1>0, <1>6 DEF StartAgentRun
    <2>4. c \in CallerRow /\ c.req = p /\ caller' = [caller EXCEPT ![p] = c]
      BY <2>2, <2>3 DEF Idle, CallerRow, Places, IntentStatus
    <2>. HIDE DEF c
    <2>. QED  BY <1>0, <2>3, <2>4, ReachesKeeps DEF Reaches
  <1>7. ASSUME NEW p \in Callers, AdmitCheck(p) \/ AdmitCreate(p) \/ AdmitError(p) PROVE CallersKept
    <2>1. PICK place \in {"create", "refused", "admitted", "unavailable", "no budget"} :
             caller[p].at \in {"check", "create"} /\ caller' = [caller EXCEPT ![p].at = place]
      BY <1>7 DEF AdmitCheck, AdmitCreate, AdmitError, Reach
    <2>2. place \in Places /\ caller[p].at \notin {"idle", "ended"}
      BY <2>1 DEF Places
    <2>. QED  BY <1>4, <2>1, <2>2
  <1>8. ASSUME NEW p \in Callers, Leaves(p) PROVE CallersKept
    BY <1>3, <1>8 DEF Leaves
  <1>9. ASSUME NEW d \in Replicas, Inspect(d) PROVE CallersKept
    <2>1. \/ caller' = [caller EXCEPT ![d] = Idle]
          \/ \E place \in {"check", "save", "complete", "finish"}, status \in {"none", "pending", "dispatched"} :
                caller' = Asks(d, place, status)
      BY <1>9 DEF Inspect
    <2>2. caller[d].at = "inspect"
      BY <1>9 DEF Inspect
    <2>. QED  BY <1>0, <1>3, <1>5, <2>1, <2>2 DEF Places, IntentStatus
  <1>10. ASSUME NEW d \in Replicas, Answered(d) PROVE CallersKept
    <2>. DEFINE spent == caller[d].attempts + 1
    <2>1. caller[d].attempts \in Nat /\ spent \in Nat
      BY <1>0 DEF CallerRow
    <2>2. \/ \E place \in {"save", "finish"}, status \in {"none", "pending", "dispatched"} :
                caller' = Asks(d, place, status)
          \/ \E status \in {"blocked", "pending"} : caller' = [Asks(d, "save", status) EXCEPT ![d].attempts = spent]
      BY <1>10 DEF Answered
    <2>3. caller[d].at \in {"admitted", "unavailable", "no budget", "refused"}
      BY <1>10 DEF Answered
    <2>. HIDE DEF spent
    <2>. QED  BY <1>0, <1>5, <2>1, <2>2, <2>3 DEF Places, IntentStatus
  <1>11. ASSUME NEW d \in Replicas, SaveIntent(d) \/ Finish(d) PROVE CallersKept
    <2>1. caller' = [caller EXCEPT ![d] = Idle] \/ caller' = Asks(d, "finish", "none")
      BY <1>11 DEF SaveIntent, Finish
    <2>2. caller[d].at \in {"save", "finish"}
      BY <1>11 DEF SaveIntent, Finish
    <2>. QED  BY <1>0, <1>3, <1>5, <2>1, <2>2 DEF Places, IntentStatus
  <1>12. ASSUME NEW d \in Replicas, CompleteIntent(d) PROVE CallersKept
    <2>. DEFINE n == caller[d].attempts + 1
    <2>1. n \in Nat
      BY <1>0 DEF CallerRow
    <2>2. caller \in [Callers -> CallerRow] /\ d \in Callers
      BY <1>0
    <2>3. [Asks(d, "save", "dispatched") EXCEPT ![d].attempts = @ + 1]
            = [Asks(d, "save", "dispatched") EXCEPT ![d].attempts = n]
      <3>1. Asks(d, "save", "dispatched")[d].attempts = caller[d].attempts
        BY <2>2 DEF Asks, CallerRow
      <3>. QED  BY <3>1
    <2>4. \/ caller' = [caller EXCEPT ![d] = Idle] \/ caller' = Asks(d, "finish", "none")
          \/ caller' = [Asks(d, "save", "dispatched") EXCEPT ![d].attempts = n]
      BY <1>12, <2>3 DEF CompleteIntent
    <2>5. caller[d].at = "complete"
      BY <1>12 DEF CompleteIntent
    <2>. HIDE DEF n
    <2>. QED  BY <1>0, <1>3, <1>5, <2>1, <2>4, <2>5 DEF Places, IntentStatus
  <1>13. ASSUME NEW d \in Replicas, NEW i \in Intents, ClaimIntent(d, i) PROVE CallersKept
    <2>1. PICK phase \in {"plan", "publish"} : \E g \in Grants \cup {Nothing} :
            caller' = [caller EXCEPT ![d] = [Idle EXCEPT !.at = "inspect", !.req = i, !.attempts = intent[i].attempts,
                                                         !.phase = phase, !.grant = g]]
      BY <1>13 DEF ClaimIntent, Intents
    <2>2. PICK g \in Grants \cup {Nothing} :
            caller' = [caller EXCEPT ![d] = [Idle EXCEPT !.at = "inspect", !.req = i, !.attempts = intent[i].attempts,
                                                         !.phase = phase, !.grant = g]]
      BY <2>1
    <2>. DEFINE c == [Idle EXCEPT !.at = "inspect", !.req = i, !.attempts = intent[i].attempts,
                                  !.phase = phase, !.grant = g]
    <2>3. i \in Requests /\ intent[i].attempts \in Nat
      BY <1>0
    <2>4. c \in CallerRow /\ c.req = i /\ caller' = [caller EXCEPT ![d] = c]
      BY <2>2, <2>3 DEF Idle, CallerRow, Places, Phases, IntentStatus
    <2>. HIDE DEF c
    <2>. QED  BY <1>0, <2>4, ReachesKeeps DEF Reaches
  <1>14. ASSUME NEW i \in Intents, Due(i) PROVE CallersKept
    <2>1. \A p \in Callers : LET c == [caller[p] EXCEPT !.late = TRUE]
                             IN  c \in CallerRow /\ c.at = caller[p].at /\ c.req = caller[p].req
      BY <1>0 DEF CallerRow
    <2>2. ASSUME NEW p \in Callers
          PROVE  caller'[p] \in CallerRow /\ caller'[p].at = caller[p].at /\ caller'[p].req = caller[p].req
      BY <1>0, <1>14, <2>1 DEF Due
    <2>3. caller' \in [Callers -> CallerRow]
      BY <1>14, <2>1, <1>0 DEF Due
    <2>. QED  BY <2>2, <2>3 DEF CallersAsk
  <1>. HIDE DEF CallersKept
  <1>15. ASSUME NEW q \in Requests, RunClaimed(q) \/ ChildCompletes(q) \/ CallbackReads(q) \/ RunCompletes(q)
                                    \/ RunEnds(q) \/ CancelRun(q)
         PROVE  CallersKept
    BY <1>2, <1>15 DEF RunClaimed, ChildCompletes, CallbackReads, RunCompletes, RunEnds, CancelRun
  <1>16. CallersKept
    BY <1>2, <1>6, <1>7, <1>8, <1>9, <1>10, <1>11, <1>12, <1>13, <1>14, <1>15
       DEF WorkflowNext, TransitionWorkItem, RecordReads, RecordSaves, GrantExpires, CreateGrant, RevokeGrant,
           PreviewRecorded
  <1>. QED  BY <1>16 DEF CallersKept

\* A run never becomes active again, in any phase, except by an admission.
Deactivates ==
    /\ run' \in [Requests -> RunRow] /\ rows' = rows
    /\ \A q \in Requests : run'[q].phase = run[q].phase /\ (run'[q].status \in ActiveRun => run[q].status \in ActiveRun)

\* The status of one run changes.
LEMMA StatusDeactivates ==
    ASSUME WorkflowTypeOK, NEW q \in Requests, NEW status,
           status \in {"failed", "completed", "cancelled"} \/ (status \in ActiveRun /\ run[q].status \in ActiveRun)
                      \/ status = run[q].status,
           run' = [run EXCEPT ![q].status = status], rows' = rows
    PROVE  Deactivates
  <1>0. run \in [Requests -> RunRow] /\ run[q] \in RunRow
    BY DEF WorkflowTypeOK
  <1>. DEFINE r == [run[q] EXCEPT !.status = status]
  <1>1. r \in RunRow /\ r.phase = run[q].phase /\ r.status = status
    BY <1>0 DEF RunRow
  <1>2. run' = [run EXCEPT ![q] = r]
    OBVIOUS
  <1>. HIDE DEF r
  <1>3. run'[q] = r /\ \A p \in Requests \ {q} : run'[p] = run[p]
    BY <1>0, <1>2
  <1>4. status \in ActiveRun => run[q].status \in ActiveRun
    BY DEF ActiveRun
  <1>. QED  BY <1>0, <1>1, <1>2, <1>3, <1>4 DEF Deactivates

\* Runs are admitted one at a time and otherwise end.
LEMMA RunSteps ==
    ASSUME WorkflowTypeOK, CallersAsk, RunsApart, WorkflowNext
    PROVE  run' \in [Requests -> RunRow] /\ rows' \in [Requests -> Nat] /\ RunsApart'
  <1>. DEFINE RunsKept == run' \in [Requests -> RunRow] /\ rows' \in [Requests -> Nat] /\ RunsApart'
  <1>0. /\ run \in [Requests -> RunRow] /\ rows \in [Requests -> Nat]
        /\ Grants \subseteq Requests /\ Intents \subseteq Requests
    BY DEF WorkflowTypeOK, Requests, Intents
  <1>1. ASSUME Deactivates PROVE RunsKept
    <2>1. \A phase : Active(phase)' \subseteq Active(phase)
      BY <1>1 DEF Deactivates, Active
    <2>. QED  BY <1>0, <1>1, <2>1 DEF Deactivates, RunsApart
  <1>2. ASSUME run' = run, rows' = rows PROVE RunsKept
    BY <1>0, <1>1, <1>2 DEF Deactivates
  <1>3. ASSUME NEW p \in Callers, AdmitCreate(p) PROVE RunsKept
    <2>. DEFINE q == caller[p].req
                r == [phase |-> caller[p].phase, status |-> "queued", grant |-> caller[p].grant, inTime |-> FALSE]
    <2>1. CASE run' = run /\ rows' = rows
      BY <1>2, <2>1
    <2>2. CASE /\ StillAlone(p) /\ TaskUnique(p)
               /\ run' = [run EXCEPT ![q] = r] /\ rows' = [rows EXCEPT ![q] = @ + 1]
      <3>1. caller[p].at = "create" /\ caller[p] \in CallerRow
        BY <1>3 DEF AdmitCreate, WorkflowTypeOK
      <3>2. (p \in Manual => q = p) /\ (p \in Replicas => q \in Intents)
        BY <3>1 DEF CallersAsk
      <3>3. q \in Requests
        BY <3>2 DEF Callers, Requests
      <3>4. r \in RunRow /\ r.phase = caller[p].phase
        BY <3>1 DEF CallerRow, RunRow, ActiveRun
      <3>. HIDE DEF q, r
      <3>5. run' \in [Requests -> RunRow] /\ rows' \in [Requests -> Nat]
        <4>1. run' \in [Requests -> RunRow]
          BY <1>0, <2>2, <3>4
        <4>2. rows[q] + 1 \in Nat /\ rows' = [rows EXCEPT ![q] = rows[q] + 1]
          BY <1>0, <2>2, <3>3
        <4>. QED  BY <1>0, <4>1, <4>2
      <3>6. run'[q] = r /\ \A k \in Requests \ {q} : run'[k] = run[k]
        BY <1>0, <2>2, <3>3
      <3>7. Active(r.phase) = {}
        BY <2>2, <3>4 DEF StillAlone
      <3>8. ASSUME NEW phase, NEW k \in Active(phase)', NEW m \in Active(phase)' PROVE k = m
        <4>1. k \in Requests /\ m \in Requests
          BY DEF Active
        <4>2. k # q => k \in Active(phase)
          BY <3>6, <4>1 DEF Active
        <4>3. m # q => m \in Active(phase)
          BY <3>6, <4>1 DEF Active
        <4>4. k = q \/ m = q => r.phase = phase
          BY <3>6 DEF Active
        <4>. QED  BY <3>7, <4>2, <4>3, <4>4 DEF RunsApart
      <3>9. \A i \in Intents : rows'[i] <= 1
        <4>1. q \in Intents => p \in Replicas
          BY <3>2, WorkflowAssumption DEF Callers
        <4>2. q \in Intents => rows[q] = 0
          BY <2>2, <4>1 DEF TaskUnique, q
        <4>. QED  BY <1>0, <2>2, <4>2 DEF RunsApart
      <3>. QED  BY <3>5, <3>8, <3>9 DEF RunsApart
    <2>. QED  BY <1>3, <2>1, <2>2 DEF AdmitCreate
  <1>4. ASSUME NEW g \in Grants, RevokeGrant(g) PROVE RunsKept
    <2>1. PICK status : /\ \/ status \in {"cancelled"} \/ (status \in ActiveRun /\ run[g].status \in ActiveRun)
                           \/ status = run[g].status
                        /\ run' = [run EXCEPT ![g].status = status]
      BY <1>4 DEF RevokeGrant, ActiveRun
    <2>2. rows' = rows
      BY <1>4 DEF RevokeGrant
    <2>. QED  BY <1>0, <1>1, <2>1, <2>2, StatusDeactivates
  <1>5. ASSUME NEW q \in Requests, RunClaimed(q) PROVE RunsKept
    <2>1. run' = [run EXCEPT ![q].status = "running"] /\ rows' = rows /\ run[q].status = "queued"
      BY <1>5 DEF RunClaimed
    <2>. QED  BY <1>1, <2>1, StatusDeactivates DEF ActiveRun
  <1>6. ASSUME NEW q \in Requests, RunCompletes(q) PROVE RunsKept
    <2>1. run' = [run EXCEPT ![q].status = "completed"] /\ rows' = rows
      BY <1>6 DEF RunCompletes
    <2>. QED  BY <1>1, <2>1, StatusDeactivates
  <1>7. ASSUME NEW q \in Requests, RunEnds(q) \/ CancelRun(q) PROVE RunsKept
    <2>1. PICK status : /\ status \in {"failed", "cancelled"} \/ (status \in ActiveRun /\ run[q].status \in ActiveRun)
                        /\ run' = [run EXCEPT ![q].status = status]
      BY <1>7 DEF RunEnds, CancelRun, ActiveRun
    <2>2. rows' = rows
      BY <1>7 DEF RunEnds, CancelRun
    <2>. QED  BY <1>1, <2>1, <2>2, StatusDeactivates
  <1>11. ASSUME NEW q \in Requests, CallbackReads(q) PROVE RunsKept
    <2>. DEFINE r == [run[q] EXCEPT !.inTime = TRUE]
    <2>1. r \in RunRow /\ r.phase = run[q].phase /\ r.status = run[q].status
      BY <1>0 DEF RunRow
    <2>2. run' = [run EXCEPT ![q] = r] /\ rows' = rows
      BY <1>11 DEF CallbackReads
    <2>. HIDE DEF r
    <2>. QED  BY <1>0, <1>1, <2>1, <2>2 DEF Deactivates
  <1>. HIDE DEF RunsKept
  <1>8. ASSUME NEW p \in Callers, StartAgentRun(p) \/ AdmitCheck(p) \/ AdmitError(p) \/ Leaves(p) PROVE RunsKept
    BY <1>2, <1>8 DEF StartAgentRun, AdmitCheck, AdmitError, Leaves
  <1>9. ASSUME NEW d \in Replicas, Inspect(d) \/ Answered(d) \/ SaveIntent(d) \/ Finish(d) \/ CompleteIntent(d)
                                   \/ \E i \in Intents : ClaimIntent(d, i)
        PROVE  RunsKept
    BY <1>2, <1>9 DEF Inspect, Answered, SaveIntent, Finish, CompleteIntent, ClaimIntent
  <1>10. RunsKept
    BY <1>2, <1>3, <1>4, <1>5, <1>6, <1>7, <1>8, <1>9, <1>11
       DEF WorkflowNext, TransitionWorkItem, RecordReads, RecordSaves, Due, GrantExpires, CreateGrant, ChildCompletes,
           PreviewRecorded
  <1>. QED  BY <1>10 DEF RunsKept

\* A callback reads its clock in time while the grant of its run is live.
LEMMA ClockStep ==
    ASSUME WorkflowTypeOK, WorkflowNext
    PROVE  \A q \in Requests : run'[q].inTime /\ ~run[q].inTime => grant[run'[q].grant].status = "live"
  <1>. DEFINE ReadInTime == \A q \in Requests : run'[q].inTime /\ ~run[q].inTime
                                                => grant[run'[q].grant].status = "live"
  <1>0. run \in [Requests -> RunRow] /\ Grants \subseteq Requests
    BY DEF WorkflowTypeOK, Requests, Intents
  <1>1. ASSUME NEW q, NEW status, run' = [run EXCEPT ![q].status = status] PROVE ReadInTime
    <2>1. \A k \in Requests : run'[k].inTime = run[k].inTime
      BY <1>0, <1>1 DEF RunRow
    <2>. QED  BY <2>1
  <1>2. ASSUME NEW p \in Callers, AdmitCreate(p) PROVE ReadInTime
    <2>. DEFINE r == [phase |-> caller[p].phase, status |-> "queued", grant |-> caller[p].grant, inTime |-> FALSE]
    <2>1. r.inTime = FALSE /\ (run' = run \/ run' = [run EXCEPT ![caller[p].req] = r])
      BY <1>2 DEF AdmitCreate
    <2>. HIDE DEF r
    <2>. QED  BY <1>0, <2>1
  <1>3. ASSUME NEW q \in Requests, CallbackReads(q) PROVE ReadInTime
    <2>. DEFINE r == [run[q] EXCEPT !.inTime = TRUE]
    <2>1. r.grant = run[q].grant /\ run' = [run EXCEPT ![q] = r] /\ grant[run[q].grant].status = "live"
      BY <1>0, <1>3 DEF CallbackReads, RunRow
    <2>. HIDE DEF r
    <2>2. run'[q] = r /\ \A k \in Requests \ {q} : run'[k] = run[k]
      BY <1>0, <2>1
    <2>. QED  BY <2>1, <2>2
  <1>4. ASSUME NEW g \in Grants, RevokeGrant(g) PROVE ReadInTime
    <2>1. PICK status : run' = [run EXCEPT ![g].status = status]
      BY <1>4 DEF RevokeGrant
    <2>. QED  BY <1>1, <2>1
  <1>5. ASSUME NEW q \in Requests, RunClaimed(q) \/ RunCompletes(q) \/ RunEnds(q) \/ CancelRun(q) PROVE ReadInTime
    <2>1. PICK status : run' = [run EXCEPT ![q].status = status]
      BY <1>5 DEF RunClaimed, RunCompletes, RunEnds, CancelRun
    <2>. QED  BY <1>1, <2>1
  <1>6. ASSUME run' = run PROVE ReadInTime
    BY <1>6
  <1>. HIDE DEF ReadInTime
  <1>7. ReadInTime
    BY <1>2, <1>3, <1>4, <1>5, <1>6
       DEF WorkflowNext, TransitionWorkItem, RecordReads, RecordSaves, StartAgentRun, AdmitCheck, AdmitError, Leaves,
           Inspect, Answered, SaveIntent, Finish, CompleteIntent, ClaimIntent, Due, GrantExpires, CreateGrant,
           ChildCompletes, PreviewRecorded
  <1>. QED  BY <1>7 DEF ReadInTime

\* The inductive invariant of the workflow.
WorkflowInv == WorkflowTypeOK /\ CallersAsk /\ RunsApart

\* A new item, or one whose first implementation is under review, has no active run.
LEMMA WorkflowInitInv == WorkflowInit => WorkflowInv
  <1>. SUFFICES ASSUME NEW start \in {"planning", "code_review"}, NEW delegated \in BOOLEAN,
                       WorkflowInitWith(start, delegated, Callers \cup Writers, {})
                PROVE  WorkflowInv
    BY DEF WorkflowInit
  <1>1. item \in ItemRow
    BY DEF WorkflowInitWith, ItemRow, States
  <1>2. writer \in [Writers -> WriterRow]
    BY <1>1 DEF WorkflowInitWith, WriterRow
  <1>3. run \in [Requests -> RunRow] /\ \A q \in Requests : run[q].status \in {"none", "completed"}
    BY DEF WorkflowInitWith, NoRun, RunRow, Phases
  <1>4. rows \in [Requests -> Nat] /\ \A q \in Requests : rows[q] <= 1
    BY DEF WorkflowInitWith
  <1>5. intent \in [Intents -> IntentRow]
    BY DEF WorkflowInitWith, IntentRow, IntentStatus
  <1>6. grant \in [Grants -> GrantRow]
    BY DEF WorkflowInitWith, GrantRow
  <1>7. caller = [p \in Callers |-> Idle]
    BY DEF WorkflowInitWith
  <1>8. Idle \in CallerRow /\ Idle.at = "idle"
    BY DEF Idle, CallerRow, Places, Phases, IntentStatus
  <1>9. WorkflowTypeOK /\ CallersAsk
    BY <1>1, <1>2, <1>3, <1>4, <1>5, <1>6, <1>7, <1>8 DEF WorkflowTypeOK, CallersAsk
  <1>10. RunsApart
    BY <1>3, <1>4 DEF RunsApart, Active, ActiveRun, Requests
  <1>. QED  BY <1>9, <1>10 DEF WorkflowInv

\* It is an invariant.
LEMMA WorkflowInvariant == WorkflowSpec => []WorkflowInv
  <1>1. WorkflowInv /\ [WorkflowNext]_workflowVars => WorkflowInv'
    <2>. SUFFICES ASSUME WorkflowInv, [WorkflowNext]_workflowVars PROVE WorkflowInv'
      OBVIOUS
    <2>1. CASE WorkflowNext
      BY <2>1, ItemTypes, GrantStep, IntentTypes, CallerSteps, RunSteps DEF WorkflowInv, WorkflowTypeOK
    <2>2. CASE UNCHANGED workflowVars
      BY <2>2 DEF workflowVars, WorkflowInv, WorkflowTypeOK, CallersAsk, RunsApart, Active
    <2>. QED  BY <2>1, <2>2
  <1>. QED  BY <1>1, WorkflowInitInv, PTL DEF WorkflowSpec

\* For any number of replicas, people and intents, an intent is carried out by at most one
\* task and a phase has at most one active run, however late an admission commits after
\* its first transaction decided (enqueueAgentRun).
THEOREM WorkflowOneRun == WorkflowSpec => []OneRun
  <1>1. WorkflowInv => OneRun
    <2>. SUFFICES ASSUME WorkflowInv, NEW phase PROVE Cardinality(Active(phase)) <= 1
      BY DEF WorkflowInv, RunsApart, OneRun
    <2>1. Active(phase) = {} \/ \E q : Active(phase) = {q}
      BY DEF WorkflowInv, RunsApart
    <2>2. CASE Active(phase) = {}
      BY <2>2, FS_EmptySet
    <2>3. ASSUME NEW q, Active(phase) = {q} PROVE Cardinality(Active(phase)) <= 1
      BY <2>3, FS_Singleton
    <2>. QED  BY <2>1, <2>2, <2>3
  <1>. QED  BY <1>1, WorkflowInvariant, PTL

\* A grant that was revoked or invalidated is never live or consumed again, whenever its
\* result arrives; one that expired is never live again, and consumed only by a callback
\* that read its clock while the grant was live (persistPublicationChangeSet, Complete).
THEOREM WorkflowWithdrawnStays == WorkflowSpec => WithdrawnStays
  <1>1. WorkflowInv /\ [WorkflowNext]_workflowVars
          => [/\ \A g \in Grants :
                   /\ grant[g].status \in {"revoked", "invalidated"} => grant'[g].status \notin {"live", "consumed"}
                   /\ grant[g].status = "expired" =>
                         /\ grant'[g].status # "live"
                         /\ grant'[g].status = "consumed" => \E q \in Requests : run[q].grant = g /\ run[q].inTime
              /\ \A q \in Requests : run'[q].inTime /\ ~run[q].inTime => grant[run'[q].grant].status = "live"
             ]_workflowVars
    BY GrantStep, ClockStep DEF WorkflowInv, GrantsStay
  <1>. QED  BY <1>1, WorkflowInvariant, PTL DEF WorkflowSpec, WithdrawnStays
=============================================================================
