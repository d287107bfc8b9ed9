---------------------------- MODULE MomentsProofs ----------------------------
(***************************************************************************)
(* Moments, for any uploads, dashboard requests, media jobs and quota: the *)
(* wall serves what it lists, but for what staff put there themselves, a   *)
(* moment is done by the job it names, and the uploads accepted stay       *)
(* within the quota.                                                       *)
(***************************************************************************)
EXTENDS Moments, FiniteSetTheorems, TLAPS

\* What requests of staff created.
Made == {staff[s] : s \in {r \in Staff : staff[r].op = "created"}}

\* The objects a moment may name: none, a raw upload, its own optimised object, or one that
\* staff named in a moment they made.
Own(n, made) == {NoObject} \cup {Raw(k) : k \in Keys} \cup {Opt(n)} \cup {c.row.url : c \in made}

Statuses == {"", "pending", "processing", "done", "failed"}
MomentRow == [live : {"none", "live", "gone"}, url : Objects \cup {NoObject}, input : Objects \cup {NoObject},
              status : Statuses, gen : Nat, job : Nat, approved : BOOLEAN]
UploadRow == [at : Underway \cup {"start", "accepted", "ended"}, key : Keys, id : Ids \cup {NoId},
              reserved : BOOLEAN]
StaffRow == [op : Operations \cup {"none", "created", "done"}, id : Ids \cup {NoId}, row : MomentRow]
MediaJob == [job : Nat, id : Ids, gen : Nat, input : Objects \cup {NoObject}]
Purge == [id : Ids, keys : SUBSET Objects, checked : BOOLEAN]

\* Rows, requests, jobs and purges have their types; a request that has a row names it.
MomentsTypeOK ==
    /\ moment \in [Ids -> MomentRow]
    /\ used \in Nat
    /\ upload \in [Uploads -> UploadRow] /\ \A u \in Uploads : upload[u].at = "enqueue" => upload[u].id \in Ids
    /\ staff \in [Staff -> StaffRow] /\ \A s \in Staff : staff[s].op \in Operations => staff[s].id \in Ids
    /\ queue \subseteq MediaJob /\ IsFiniteSet(queue)
    /\ purges \subseteq Purge

\* Raw uploads and optimised objects are told apart by their keys.
LEMMA ObjectNames ==
    /\ \A k, m : Raw(k) # Opt(m)
    /\ \A m, n : Opt(m) = Opt(n) => m = n
    /\ \A m \in Ids : Opt(m) # NoObject
    /\ \A k \in Keys : Raw(k) \in Objects
  BY MomentsAssumption DEF Raw, Opt, Objects

\* Rows that requests, jobs and callbacks write.
LEMMA MomentRowTypes ==
    ASSUME NEW row \in MomentRow
    PROVE  /\ \A b \in BOOLEAN : [row EXCEPT !.approved = b] \in MomentRow
           /\ [row EXCEPT !.approved = ~@] \in MomentRow
           /\ [row EXCEPT !.live = "gone"] \in MomentRow
           /\ \A url \in Objects \cup {NoObject} : \A status \in Statuses :
                 [row EXCEPT !.url = url, !.status = status] \in MomentRow
           /\ \A job \in Nat : \A input \in Objects \cup {NoObject} :
                 [row EXCEPT !.gen = @ + 1, !.job = job, !.input = input, !.status = "pending"] \in MomentRow
  <1>1. \A b \in BOOLEAN : [row EXCEPT !.approved = b] \in MomentRow
    BY DEF MomentRow
  <1>2. (~row.approved) \in BOOLEAN
    BY DEF MomentRow
  <1>3. [row EXCEPT !.approved = ~@] \in MomentRow
    BY <1>1, <1>2
  <1>4. [row EXCEPT !.live = "gone"] \in MomentRow
    BY DEF MomentRow
  <1>5. \A url \in Objects \cup {NoObject} : \A status \in Statuses :
                 [row EXCEPT !.url = url, !.status = status] \in MomentRow
    BY DEF MomentRow
  <1>6. row.gen + 1 \in Nat
    BY DEF MomentRow
  <1>7. \A gen \in Nat : \A job \in Nat : \A input \in Objects \cup {NoObject} :
            [row EXCEPT !.gen = gen, !.job = job, !.input = input, !.status = "pending"] \in MomentRow
    BY DEF MomentRow, Statuses
  <1>8. \A job \in Nat : \A input \in Objects \cup {NoObject} :
            [row EXCEPT !.gen = @ + 1, !.job = job, !.input = input, !.status = "pending"] \in MomentRow
    BY <1>6, <1>7
  <1>. QED  BY <1>1, <1>3, <1>4, <1>5, <1>8

\* A row of a request that is never read, and a fresh moment.
LEMMA FreshRows ==
    /\ NoMoment \in MomentRow
    /\ \A k \in Keys : \A b \in BOOLEAN :
          [NoMoment EXCEPT !.live = "live", !.url = Raw(k), !.approved = b] \in MomentRow
    /\ \A url \in Typed : \A b \in BOOLEAN :
          [NoMoment EXCEPT !.live = "live", !.url = url, !.status = "", !.approved = b] \in MomentRow
  <1>1. NoJob \in Nat
    BY MomentsAssumption
  <1>2. NoMoment \in MomentRow
    BY <1>1 DEF NoMoment, MomentRow, Statuses
  <1>3. \A k \in Keys : \A b \in BOOLEAN :
          [NoMoment EXCEPT !.live = "live", !.url = Raw(k), !.approved = b] \in MomentRow
    BY <1>2, ObjectNames DEF MomentRow
  <1>4. \A url \in Typed : url \in Objects \cup {NoObject}
    BY MomentsAssumption
  <1>5. \A url \in Typed : \A b \in BOOLEAN :
          [NoMoment EXCEPT !.live = "live", !.url = url, !.status = "", !.approved = b] \in MomentRow
    BY <1>2, <1>4 DEF MomentRow, Statuses
  <1>. QED  BY <1>2, <1>3, <1>5

\* Rows of upload requests, whatever step they go to.
LEMMA UploadRowTypes ==
    ASSUME NEW row \in UploadRow
    PROVE  \A at \in Underway \cup {"start", "accepted", "ended"} :
              /\ [row EXCEPT !.at = at] \in UploadRow /\ [row EXCEPT !.at = at].at = at
              /\ \A k \in Keys : [row EXCEPT !.key = k, !.at = at] \in UploadRow
                                /\ [row EXCEPT !.key = k, !.at = at].at = at
              /\ \A m \in Ids : [row EXCEPT !.at = at, !.id = m] \in UploadRow
                               /\ [row EXCEPT !.at = at, !.id = m].id = m
              /\ \A b \in BOOLEAN : [row EXCEPT !.reserved = b, !.at = at] \in UploadRow
                                   /\ [row EXCEPT !.reserved = b, !.at = at].at = at
              /\ \A b \in BOOLEAN : [row EXCEPT !.at = at, !.reserved = b] \in UploadRow
                                   /\ [row EXCEPT !.at = at, !.reserved = b].at = at
  BY DEF UploadRow

\* A media job that is begun numbers itself after the others and is of its moment.
LEMMA Begun ==
    ASSUME MomentsTypeOK, NEW m \in Ids, NEW input \in Objects \cup {NoObject}, BeginJob(m, input)
    PROVE  /\ moment' \in [Ids -> MomentRow]
           /\ queue' \subseteq MediaJob /\ IsFiniteSet(queue')
           /\ NextJob \in Nat
  <1>1. moment \in [Ids -> MomentRow] /\ moment[m] \in MomentRow /\ IsFiniteSet(queue) /\ queue \subseteq MediaJob
    BY DEF MomentsTypeOK
  <1>2. NextJob \in Nat
    BY <1>1, FS_CardinalityType DEF NextJob
  <1>3. moment' = [moment EXCEPT ![m] = [moment[m] EXCEPT !.gen = @ + 1, !.job = NextJob, !.input = input, !.status = "pending"]]
    BY <1>1 DEF BeginJob
  <1>4. [moment[m] EXCEPT !.gen = @ + 1, !.job = NextJob, !.input = input, !.status = "pending"] \in MomentRow
    BY <1>1, <1>2, MomentRowTypes
  <1>5. moment' \in [Ids -> MomentRow]
    BY <1>1, <1>3, <1>4
  <1>6. moment[m].gen + 1 \in Nat
    BY <1>1 DEF MomentRow
  <1>7. [job |-> NextJob, id |-> m, gen |-> moment[m].gen + 1, input |-> input] \in MediaJob
    BY <1>2, <1>6 DEF MediaJob
  <1>8. queue' = queue \cup {[job |-> NextJob, id |-> m, gen |-> moment[m].gen + 1, input |-> input]}
    BY DEF BeginJob
  <1>9. IsFiniteSet(queue')
    BY <1>1, <1>8, FS_AddElement
  <1>. QED  BY <1>1, <1>2, <1>5, <1>7, <1>8, <1>9

\* A row that a callback, or the error path of a request, settles.
LEMMA SettledRow ==
    ASSUME MomentsTypeOK, NEW m \in Ids, NEW row, NEW statuses, NEW url \in Objects \cup {NoObject},
           NEW status \in Statuses, Applied(m, row, statuses, url, status)
    PROVE  moment' \in [Ids -> MomentRow]
  <1>1. moment \in [Ids -> MomentRow] /\ moment[m] \in MomentRow
    BY DEF MomentsTypeOK
  <1>2. moment' = [moment EXCEPT ![m] = [moment[m] EXCEPT !.url = url, !.status = status]] \/ moment' = moment
    BY <1>1 DEF Applied
  <1>3. [moment[m] EXCEPT !.url = url, !.status = status] \in MomentRow
    BY <1>1, MomentRowTypes
  <1>. QED  BY <1>1, <1>2, <1>3

\* Every step of a request, the worker or a purge writes values of the right type.
LEMMA MomentsTypes == MomentsTypeOK /\ (\A u \in Uploads : upload[u].reserved => used > 0)
                      /\ [MomentsNext]_momentVars => MomentsTypeOK'
  <1>. SUFFICES ASSUME MomentsTypeOK, \A u \in Uploads : upload[u].reserved => used > 0,
                       [MomentsNext]_momentVars
                PROVE  MomentsTypeOK'
    OBVIOUS
  <1>0. /\ moment \in [Ids -> MomentRow] /\ used \in Nat /\ upload \in [Uploads -> UploadRow]
        /\ staff \in [Staff -> StaffRow] /\ queue \subseteq MediaJob /\ purges \subseteq Purge
        /\ \A u \in Uploads : upload[u] \in UploadRow /\ upload[u].key \in Keys /\ upload[u].reserved \in BOOLEAN
    BY DEF MomentsTypeOK, UploadRow
  <1>1. ASSUME NEW u \in Uploads,
               \/ StoreUpload(u) \/ LookupConfirmed(u) \/ VerifyUpload(u) \/ Reserve(u)
               \/ Cleanup(u) \/ CreateMoment(u) \/ CreateDuplicate(u) \/ CreateError(u)
               \/ EnqueueUpload(u) \/ EnqueueUploadError(u) \/ UploadCrash(u)
        PROVE  MomentsTypeOK'
    <2>1. used' \in Nat
      <3>1. ASSUME Refund(u) PROVE used' \in Nat
        <4>1. used' = used \/ (upload[u].reserved /\ used' = used - 1)
          BY <3>1 DEF Refund
        <4>. QED  BY <1>0, <4>1
      <3>2. used' = used \/ used' = used + 1 \/ Refund(u)
        BY <1>1 DEF StoreUpload, LookupConfirmed, VerifyUpload, Reserve, ReserveSlot, Cleanup, CreateMoment,
           CreateDuplicate, CreateError, EnqueueUpload, EnqueueUploadError, UploadCrash
      <3>. QED  BY <1>0, <3>1, <3>2
    <2>2. PICK row \in UploadRow : /\ upload' = [upload EXCEPT ![u] = row]
                                   /\ row.at = "enqueue" => row.id \in Ids
      <3>0. upload[u] \in UploadRow
        BY <1>0
      <3>1. CASE StoreUpload(u) \/ VerifyUpload(u) \/ CreateError(u) \/ EnqueueUpload(u) \/ UploadCrash(u)
        <4>1. PICK place \in {"reserve", "ended", "cleanup", "accepted"} : upload' = [upload EXCEPT ![u].at = place]
          BY <3>1 DEF StoreUpload, VerifyUpload, CreateError, EnqueueUpload, UploadCrash, Goto
        <4>2. upload' = [upload EXCEPT ![u] = [upload[u] EXCEPT !.at = place]]
          BY <1>0, <4>1
        <4>3. place \in Underway \cup {"start", "accepted", "ended"} /\ place # "enqueue"
          BY <4>1 DEF Underway
        <4>4. /\ [upload[u] EXCEPT !.at = place] \in UploadRow
              /\ [upload[u] EXCEPT !.at = place].at # "enqueue"
          BY <3>0, <4>3, UploadRowTypes
        <4>. QED  BY <4>2, <4>4
      <3>2. CASE LookupConfirmed(u)
        <4>1. PICK k \in Presigned : upload' = [upload EXCEPT ![u].key = k,
                                   ![u].at = IF Confirmed(k) # {} THEN "ended" ELSE "verify"]
          BY <3>2 DEF LookupConfirmed
        <4>2. PICK place \in {"ended", "verify"} : upload' = [upload EXCEPT ![u] = [upload[u] EXCEPT !.key = k, !.at = place]]
          BY <1>0, <4>1
        <4>3. place \in Underway \cup {"start", "accepted", "ended"} /\ place # "enqueue" /\ k \in Keys
          BY <4>2, MomentsAssumption DEF Underway
        <4>4. /\ [upload[u] EXCEPT !.key = k, !.at = place] \in UploadRow
              /\ [upload[u] EXCEPT !.key = k, !.at = place].at # "enqueue"
          BY <3>0, <4>3 DEF UploadRow
        <4>. QED  BY <4>2, <4>4
      <3>3. CASE Reserve(u)
        <4>1. CASE ReserveSlot(u)
          <5>1. PICK place \in {"cleanup", "insert"} :
                    upload' = [upload EXCEPT ![u] = [upload[u] EXCEPT !.reserved = TRUE, !.at = place]]
            BY <1>0, <4>1 DEF ReserveSlot
          <5>2. place \in Underway \cup {"start", "accepted", "ended"} /\ place # "enqueue" /\ TRUE \in BOOLEAN
            BY <5>1 DEF Underway
          <5>3. /\ [upload[u] EXCEPT !.reserved = TRUE, !.at = place] \in UploadRow
                /\ [upload[u] EXCEPT !.reserved = TRUE, !.at = place].at # "enqueue"
            BY <3>0, <5>2, UploadRowTypes
          <5>. QED  BY <5>1, <5>3
        <4>2. CASE Goto(u, "insert")
          <5>1. upload' = [upload EXCEPT ![u] = [upload[u] EXCEPT !.at = "insert"]]
            BY <1>0, <4>2 DEF Goto
          <5>2. "insert" \in Underway \cup {"start", "accepted", "ended"} /\ "insert" # "enqueue"
            BY DEF Underway
          <5>. QED  BY <3>0, <5>1, <5>2, UploadRowTypes
        <4>. QED  BY <3>3, <4>1, <4>2 DEF Reserve
      <3>4. CASE Cleanup(u) \/ CreateDuplicate(u) \/ EnqueueUploadError(u)
        <4>1. upload' = [upload EXCEPT ![u] = [upload[u] EXCEPT !.at = "ended", !.reserved = FALSE]]
          BY <1>0, <3>4 DEF Cleanup, CreateDuplicate, EnqueueUploadError
        <4>2. "ended" # "enqueue" /\ FALSE \in BOOLEAN
          OBVIOUS
        <4>. QED  BY <3>0, <4>1, <4>2, UploadRowTypes
      <3>5. CASE CreateMoment(u)
        <4>1. PICK m \in Ids : upload' = [upload EXCEPT ![u] = [upload[u] EXCEPT !.at = "enqueue", !.id = m]]
          BY <1>0, <3>5 DEF CreateMoment, NextIds
        <4>2. "enqueue" \in Underway \cup {"start", "accepted", "ended"}
          BY DEF Underway
        <4>3. /\ [upload[u] EXCEPT !.at = "enqueue", !.id = m] \in UploadRow
              /\ [upload[u] EXCEPT !.at = "enqueue", !.id = m].id = m
          BY <3>0, <4>2 DEF UploadRow
        <4>. QED  BY <4>1, <4>3
      <3>. QED  BY <1>1, <3>1, <3>2, <3>3, <3>4, <3>5
    <2>3. upload' \in [Uploads -> UploadRow]
      BY <1>0, <2>2
    <2>4. \A v \in Uploads : upload'[v].at = "enqueue" => upload'[v].id \in Ids
      <3>1. upload'[u] = row /\ \A v \in Uploads \ {u} : upload'[v] = upload[v]
        BY <1>0, <2>2
      <3>. QED  BY <2>2, <3>1 DEF MomentsTypeOK
    <2>5. /\ moment' \in [Ids -> MomentRow]
          /\ queue' \subseteq MediaJob /\ IsFiniteSet(queue')
      <3>1. CASE EnqueueUpload(u)
        <4>1. upload[u].id \in Ids /\ BeginJob(upload[u].id, Raw(upload[u].key))
          BY <3>1 DEF EnqueueUpload, MomentsTypeOK
        <4>. QED  BY <1>0, <4>1, Begun, ObjectNames
      <3>2. CASE EnqueueUploadError(u)
        <4>1. /\ upload[u].id \in Ids
              /\ Applied(upload[u].id, NoMoment, {"pending"}, Raw(upload[u].key), "failed")
              /\ queue' = queue
          BY <3>2 DEF EnqueueUploadError, MomentsTypeOK
        <4>2. moment' \in [Ids -> MomentRow]
          BY <1>0, <4>1, SettledRow, ObjectNames DEF Statuses
        <4>. QED  BY <4>1, <4>2 DEF MomentsTypeOK
      <3>3. CASE CreateMoment(u)
        <4>1. PICK m \in Ids, b \in BOOLEAN :
                moment' = [moment EXCEPT ![m] = [NoMoment EXCEPT !.live = "live",
                                 !.url = Raw(upload[u].key), !.approved = b]]
          BY <3>3 DEF CreateMoment, NextIds
        <4>4. [NoMoment EXCEPT !.live = "live", !.url = Raw(upload[u].key), !.approved = b] \in MomentRow
          BY <1>0, FreshRows
        <4>2. moment' \in [Ids -> MomentRow]
          BY <1>0, <4>1, <4>4
        <4>3. queue' = queue
          BY <3>3 DEF CreateMoment
        <4>. QED  BY <4>2, <4>3 DEF MomentsTypeOK
      <3>4. CASE UNCHANGED <<moment, queue>>
        BY <3>4 DEF MomentsTypeOK
      <3>. QED
        BY <1>1, <3>1, <3>2, <3>3, <3>4 DEF StoreUpload, LookupConfirmed, VerifyUpload, Reserve, Cleanup,
           CreateDuplicate, CreateError, UploadCrash
    <2>6. UNCHANGED <<staff, purges>>
      BY <1>1 DEF StoreUpload, LookupConfirmed, VerifyUpload, Reserve, Cleanup, CreateMoment,
           CreateDuplicate, CreateError, EnqueueUpload, EnqueueUploadError, UploadCrash
    <2>. QED  BY <2>1, <2>3, <2>4, <2>5, <2>6 DEF MomentsTypeOK
  <1>2. ASSUME NEW j \in queue, Optimise(j) \/ CallbackDeleted(j)
                                \/ \E status \in {"processing", "done", "failed"} : Callback(j, status)
        PROVE  MomentsTypeOK'
    <2>0. j \in MediaJob /\ j.id \in Ids /\ j.input \in Objects \cup {NoObject} /\ Opt(j.id) \in Objects
      BY <1>0 DEF MediaJob, Objects
    <2>1. moment' \in [Ids -> MomentRow]
      <3>1. ASSUME NEW status \in {"processing", "done", "failed"}, Callback(j, status)
            PROVE  moment' \in [Ids -> MomentRow]
        <4>1. Applied(j.id, j, Unfinished, IF status = "done" THEN Opt(j.id) ELSE j.input, status)
          BY <3>1 DEF Callback
        <4>2. (IF status = "done" THEN Opt(j.id) ELSE j.input) \in Objects \cup {NoObject} /\ status \in Statuses
          BY <2>0 DEF Statuses
        <4>. QED  BY <2>0, <4>1, <4>2, SettledRow
      <3>2. CASE Optimise(j) \/ CallbackDeleted(j)
        BY <1>0, <3>2 DEF Optimise, CallbackDeleted
      <3>. QED  BY <1>2, <3>1, <3>2
    <2>2. purges' \subseteq Purge
      <3>1. \A S : [id |-> j.id, keys |-> S \cap Objects, checked |-> FALSE] \in Purge
        BY <2>0 DEF Purge
      <3>. QED  BY <1>0, <1>2, <3>1 DEF Optimise, Callback, CallbackDeleted, PurgeOf
    <2>3. UNCHANGED <<used, upload, staff, queue>>
      BY <1>2 DEF Optimise, Callback, CallbackDeleted
    <2>. QED  BY <2>1, <2>2, <2>3 DEF MomentsTypeOK
  <1>3. ASSUME NEW p \in purges, PurgeCheck(p) \/ PurgeDelete(p) PROVE MomentsTypeOK'
    <2>1. \A R : [p EXCEPT !.checked = TRUE, !.keys = @ \ R] \in Purge
      BY <1>0 DEF Purge
    <2>2. purges' \subseteq Purge
      BY <1>0, <1>3, <2>1 DEF PurgeCheck, PurgeDelete
    <2>3. UNCHANGED <<moment, used, upload, staff, queue>>
      BY <1>3 DEF PurgeCheck, PurgeDelete
    <2>. QED  BY <2>2, <2>3 DEF MomentsTypeOK
  <1>4. ASSUME NEW m \in Ids, BulkUpdateApproval(m) PROVE MomentsTypeOK'
    <2>1. moment' = [moment EXCEPT ![m] = [moment[m] EXCEPT !.approved = ~@]]
      BY <1>0, <1>4 DEF BulkUpdateApproval
    <2>2. moment' \in [Ids -> MomentRow]
      BY <1>0, <2>1, MomentRowTypes
    <2>. QED  BY <1>4, <2>2 DEF BulkUpdateApproval, MomentsTypeOK
  <1>5. ASSUME NEW s \in Staff,
               StaffRead(s) \/ EditMoment(s) \/ StaffBegin(s) \/ StaffBeginError(s) \/ DeleteMoment(s)
        PROVE  MomentsTypeOK'
    <2>0. /\ staff[s] \in StaffRow /\ staff[s].row \in MomentRow
          /\ staff[s].op \in Operations => staff[s].id \in Ids
      BY <1>0 DEF StaffRow, MomentsTypeOK
    <2>1. /\ staff' \in [Staff -> StaffRow]
          /\ \A r \in Staff : staff'[r].op \in Operations => staff'[r].id \in Ids
      <3>1. CASE StaffRead(s)
        <4>1. PICK m \in Ids, op \in Operations : staff' = [staff EXCEPT ![s] = [op |-> op, id |-> m, row |-> moment[m]]]
          BY <3>1 DEF StaffRead
        <4>2. [op |-> op, id |-> m, row |-> moment[m]] \in StaffRow
          BY <1>0 DEF StaffRow
        <4>. QED  BY <1>0, <4>1, <4>2 DEF MomentsTypeOK
      <3>2. CASE StaffDone(s)
        <4>1. [staff[s] EXCEPT !.op = "done", !.row = NoMoment] \in StaffRow
          BY <2>0, FreshRows DEF StaffRow
        <4>2. staff' = [staff EXCEPT ![s] = [staff[s] EXCEPT !.op = "done", !.row = NoMoment]]
          BY <1>0, <3>2 DEF StaffDone
        <4>3. staff'[s].op = "done" /\ \A r \in Staff \ {s} : staff'[r] = staff[r]
          BY <1>0, <2>0, <4>2 DEF StaffRow
        <4>4. "done" \notin Operations
          BY DEF Operations
        <4>. QED  BY <1>0, <4>1, <4>2, <4>3, <4>4 DEF MomentsTypeOK
      <3>. QED  BY <1>5, <3>1, <3>2 DEF EditMoment, StaffBegin, StaffBeginError, DeleteMoment
    <2>2. /\ moment' \in [Ids -> MomentRow]
          /\ queue' \subseteq MediaJob /\ IsFiniteSet(queue')
      <3>1. CASE StaffRead(s)
        BY <3>1 DEF StaffRead, MomentsTypeOK
      <3>2. CASE EditMoment(s)
        <4>1. PICK b \in BOOLEAN : moment' = [moment EXCEPT ![staff[s].id] = [staff[s].row EXCEPT !.approved = b]]
                                   \/ moment' = moment
          BY <3>2 DEF EditMoment, EditRow
        <4>3. [staff[s].row EXCEPT !.approved = b] \in MomentRow
          BY <2>0, MomentRowTypes
        <4>2. moment' \in [Ids -> MomentRow]
          BY <1>0, <4>1, <4>3
        <4>. QED  BY <3>2, <4>2 DEF EditMoment, MomentsTypeOK
      <3>3. CASE StaffBegin(s)
        <4>1. staff[s].id \in Ids /\ BeginJob(staff[s].id, staff[s].row.url)
          BY <2>0, <3>3 DEF StaffBegin, Operations
        <4>2. staff[s].row.url \in Objects \cup {NoObject}
          BY <2>0 DEF MomentRow
        <4>. QED  BY <4>1, <4>2, Begun
      <3>4. CASE StaffBeginError(s)
        <4>1. /\ staff[s].id \in Ids
              /\ Applied(staff[s].id, staff[s].row, {"pending"}, staff[s].row.url,
                         IF staff[s].op = "requeue" THEN "failed" ELSE staff[s].row.status)
          BY <2>0, <3>4 DEF StaffBeginError, Operations
        <4>2. /\ staff[s].row.url \in Objects \cup {NoObject}
              /\ (IF staff[s].op = "requeue" THEN "failed" ELSE staff[s].row.status) \in Statuses
          BY <2>0 DEF MomentRow, Statuses
        <4>3. moment' \in [Ids -> MomentRow]
          BY <4>1, <4>2, SettledRow
        <4>. QED  BY <3>4, <4>3 DEF StaffBeginError, MomentsTypeOK
      <3>5. CASE DeleteMoment(s)
        <4>1. staff[s].id \in Ids /\ queue' = queue /\ moment' = [moment EXCEPT ![staff[s].id].live = "gone"]
          BY <2>0, <3>5 DEF DeleteMoment, Operations
        <4>2. moment' = [moment EXCEPT ![staff[s].id] = [moment[staff[s].id] EXCEPT !.live = "gone"]]
          BY <1>0, <4>1
        <4>3. moment' \in [Ids -> MomentRow]
          BY <1>0, <4>1, <4>2, MomentRowTypes
        <4>. QED  BY <4>1, <4>3 DEF MomentsTypeOK
      <3>. QED  BY <1>5, <3>1, <3>2, <3>3, <3>4, <3>5
    <2>3. purges' \subseteq Purge
      <3>1. \A m \in Ids : \A S : [id |-> m, keys |-> S \cap Objects, checked |-> FALSE] \in Purge
        BY DEF Purge
      <3>2. CASE DeleteMoment(s)
        BY <1>0, <2>0, <3>1, <3>2 DEF DeleteMoment, PurgeOf, Operations
      <3>. QED  BY <1>0, <1>5, <3>2 DEF StaffRead, EditMoment, StaffBegin, StaffBeginError
    <2>4. UNCHANGED <<used, upload>>
      BY <1>5 DEF StaffRead, EditMoment, StaffBegin, StaffBeginError, DeleteMoment
    <2>. QED  BY <2>1, <2>2, <2>3, <2>4 DEF MomentsTypeOK
  <1>6. CASE UNCHANGED momentVars
    BY <1>6 DEF momentVars, MomentsTypeOK
  <1>7. ASSUME NEW s \in Staff, CreateByStaff(s) PROVE MomentsTypeOK'
    <2>1. PICK m \in Ids, row \in MomentRow :
              moment' = [moment EXCEPT ![m] = row]
              /\ staff' = [staff EXCEPT ![s] = [op |-> "created", id |-> m, row |-> row]]
      BY <1>7, FreshRows DEF CreateByStaff, NextIds
    <2>2. [op |-> "created", id |-> m, row |-> row] \in StaffRow
      BY DEF StaffRow
    <2>3. moment' \in [Ids -> MomentRow] /\ staff' \in [Staff -> StaffRow]
      BY <1>0, <2>1, <2>2
    <2>4. "created" \notin Operations /\ staff'[s].op = "created" /\ \A r \in Staff \ {s} : staff'[r] = staff[r]
      BY <1>0, <2>1 DEF Operations
    <2>. QED  BY <1>7, <2>3, <2>4 DEF CreateByStaff, MomentsTypeOK
  <1>. QED  BY <1>1, <1>2, <1>3, <1>4, <1>5, <1>6, <1>7 DEF MomentsNext

\* Jobs are numbered as they come, and only jobs that were handed out are finished.
JobsNumbered ==
    /\ \A j \in queue : j.job \in 1 .. Cardinality(queue) /\ j.input \in Own(j.id, Made)
    /\ \A j, k \in queue : j.job = k.job => j = k
    /\ finished \subseteq 1 .. Cardinality(queue)

\* A row of moment n names objects of its own, is done only by a job of n that the worker
\* finished, and shows what staff made it with if it was not processed (of the jobs handed
\* out, those that ended, and what staff made).
Earned(n, row, jobs, ends, made) ==
    /\ row.url \in Own(n, made) /\ row.input \in Own(n, made)
    /\ row.status = "done" => /\ row.url = Opt(n)
                              /\ \E j \in jobs : j.id = n /\ j.job = row.job /\ j.job \in ends
    /\ row.status = "" => \E c \in made : c.id = n /\ row.url = c.row.url

\* That is so of every row, and of every row a request of the dashboard still holds.
RowsEarned ==
    /\ \A m \in Ids : Earned(m, moment[m], queue, finished, Made)
    /\ \A s \in Staff : staff[s].op \in Operations => Earned(staff[s].id, staff[s].row, queue, finished, Made)

\* The output of a finished job is there until its moment is deleted, unless staff named it
\* elsewhere, and only then may a purge remove it.
Spared(m) == moment[m].live = "gone" \/ \E c \in Made : Opt(m) = c.row.url
OutputsKept ==
    /\ \A j \in queue : j.job \in finished => Opt(j.id) \in store \/ Spared(j.id)
    /\ \A p \in purges : \A m \in Ids : Opt(m) \in p.keys => Spared(m)

\* What no step takes back: a deleted moment, a job handed out, a job finished, and what
\* staff made.
LEMMA NothingRevived ==
    ASSUME MomentsTypeOK, [MomentsNext]_momentVars
    PROVE  /\ \A m \in Ids : moment[m].live = "gone" => moment'[m].live = "gone"
           /\ queue \subseteq queue' /\ finished \subseteq finished'
           /\ Made \subseteq Made' /\ \A n : Own(n, Made) \subseteq Own(n, Made')
  <1>0. /\ moment \in [Ids -> MomentRow] /\ \A s \in Staff : staff[s].op \in Operations => staff[s].id \in Ids
        /\ \A u \in Uploads : upload[u].at = "enqueue" => upload[u].id \in Ids
        /\ \A m \in Ids : moment[m] \in MomentRow
    BY DEF MomentsTypeOK
  <1>1. queue \subseteq queue' /\ finished \subseteq finished'
    BY DEF MomentsNext, StoreUpload, LookupConfirmed, VerifyUpload, Reserve, Cleanup, CreateMoment,
       CreateDuplicate, CreateError, EnqueueUpload, EnqueueUploadError, UploadCrash, Optimise, Callback,
       CallbackDeleted, PurgeCheck, PurgeDelete, BulkUpdateApproval, CreateByStaff, StaffRead, EditMoment,
       StaffBegin, StaffBeginError, DeleteMoment, BeginJob, momentVars
  <1>2. ASSUME NEW m, NEW input, BeginJob(m, input), NEW n \in Ids, moment[n].live = "gone"
        PROVE  moment'[n].live = "gone"
    BY <1>0, <1>2 DEF BeginJob, MomentRow
  <1>3. ASSUME NEW m, NEW row, NEW statuses, NEW url, NEW status, Applied(m, row, statuses, url, status),
               NEW n \in Ids, moment[n].live = "gone"
        PROVE  moment'[n].live = "gone"
    BY <1>0, <1>3 DEF Applied, MomentRow
  <1>4. ASSUME NEW n \in Ids, moment[n].live = "gone", NEW u \in Uploads, CreateMoment(u)
        PROVE  moment'[n].live = "gone"
    <2>1. PICK m \in NextIds : \E b \in BOOLEAN :
              moment' = [moment EXCEPT ![m] = [NoMoment EXCEPT !.live = "live",
                            !.url = Raw(upload[u].key), !.approved = b]]
      BY <1>4 DEF CreateMoment
    <2>2. moment[m].live = "none" /\ m \in Ids
      BY MomentsAssumption DEF NextIds
    <2>. QED  BY <1>0, <1>4, <2>1, <2>2
  <1>5. ASSUME NEW n \in Ids, moment[n].live = "gone", NEW s \in Staff, EditMoment(s)
        PROVE  moment'[n].live = "gone"
    BY <1>0, <1>5 DEF EditMoment, EditRow, Live
  <1>6. ASSUME NEW n \in Ids, moment[n].live = "gone", NEW s \in Staff, DeleteMoment(s)
        PROVE  moment'[n].live = "gone"
    BY <1>0, <1>6 DEF DeleteMoment, MomentRow
  <1>7. ASSUME NEW n \in Ids, moment[n].live = "gone", NEW m \in Ids, BulkUpdateApproval(m)
        PROVE  moment'[n].live = "gone"
    BY <1>0, <1>7 DEF BulkUpdateApproval, MomentRow
  <1>10. ASSUME NEW n \in Ids, moment[n].live = "gone", NEW s \in Staff, CreateByStaff(s)
         PROVE  moment'[n].live = "gone"
    <2>1. PICK m \in NextIds : \E row : moment' = [moment EXCEPT ![m] = row]
      BY <1>10 DEF CreateByStaff
    <2>2. moment[m].live = "none" /\ m \in Ids
      BY MomentsAssumption DEF NextIds
    <2>. QED  BY <1>0, <1>10, <2>1, <2>2
  <1>8. \/ moment' = moment
        \/ \E m, input : BeginJob(m, input)
        \/ \E m, row, statuses, url, status : Applied(m, row, statuses, url, status)
        \/ \E u \in Uploads : CreateMoment(u)
        \/ \E s \in Staff : EditMoment(s) \/ DeleteMoment(s) \/ CreateByStaff(s)
        \/ \E m \in Ids : BulkUpdateApproval(m)
    <2>1. ASSUME NEW u \in Uploads,
               \/ StoreUpload(u) \/ LookupConfirmed(u) \/ VerifyUpload(u) \/ Reserve(u)
               \/ Cleanup(u) \/ CreateMoment(u) \/ CreateDuplicate(u) \/ CreateError(u)
               \/ EnqueueUpload(u) \/ EnqueueUploadError(u) \/ UploadCrash(u)
          PROVE  <1>8!:
      BY <2>1 DEF StoreUpload, LookupConfirmed, VerifyUpload, Reserve, Cleanup,
         CreateDuplicate, CreateError, EnqueueUpload, EnqueueUploadError, UploadCrash
    <2>2. ASSUME NEW j \in queue, Optimise(j) \/ CallbackDeleted(j)
                                \/ \E status \in {"processing", "done", "failed"} : Callback(j, status)
          PROVE  <1>8!:
      BY <2>2 DEF Optimise, Callback, CallbackDeleted
    <2>3. ASSUME NEW s \in Staff,
               CreateByStaff(s) \/ StaffRead(s) \/ EditMoment(s) \/ StaffBegin(s) \/ StaffBeginError(s) \/ DeleteMoment(s)
          PROVE  <1>8!:
      BY <2>3 DEF StaffRead, StaffBegin, StaffBeginError
    <2>. QED
      BY <2>1, <2>2, <2>3 DEF MomentsNext, PurgeCheck, PurgeDelete, momentVars
  <1>9. \A n \in Ids : moment[n].live = "gone" => moment'[n].live = "gone"
    BY <1>2, <1>3, <1>4, <1>5, <1>6, <1>7, <1>8, <1>10
  <1>11. \A s \in Staff : staff[s].op = "created" => staff'[s] = staff[s]
    <2>1. ASSUME NEW s \in Staff, CreateByStaff(s) \/ StaffRead(s)
          PROVE  staff[s].op = "none" /\ \A r \in Staff \ {s} : staff'[r] = staff[r]
      BY <2>1 DEF CreateByStaff, StaffRead, MomentsTypeOK
    <2>2. ASSUME NEW s \in Staff, EditMoment(s) \/ StaffBegin(s) \/ StaffBeginError(s) \/ DeleteMoment(s)
          PROVE  staff[s].op \in Operations /\ \A r \in Staff \ {s} : staff'[r] = staff[r]
      BY <2>2 DEF EditMoment, StaffBegin, StaffBeginError, DeleteMoment, StaffDone, Operations, MomentsTypeOK
    <2>3. \/ staff' = staff
          \/ \E s \in Staff : CreateByStaff(s) \/ StaffRead(s)
          \/ \E s \in Staff : EditMoment(s) \/ StaffBegin(s) \/ StaffBeginError(s) \/ DeleteMoment(s)
      BY DEF MomentsNext, StoreUpload, LookupConfirmed, VerifyUpload, Reserve, Cleanup, CreateMoment,
         CreateDuplicate, CreateError, EnqueueUpload, EnqueueUploadError, UploadCrash, Optimise, Callback,
         CallbackDeleted, PurgeCheck, PurgeDelete, BulkUpdateApproval, momentVars
    <2>4. "none" # "created" /\ "created" \notin Operations
      BY DEF Operations
    <2>. QED  BY <2>1, <2>2, <2>3, <2>4
  <1>12. Made \subseteq Made'
    BY <1>11 DEF Made
  <1>13. \A n : Own(n, Made) \subseteq Own(n, Made')
    BY <1>12 DEF Own
  <1>. QED  BY <1>1, <1>9, <1>12, <1>13

\* What a row has earned, it keeps.
LEMMA EarnedStays ==
    ASSUME queue \subseteq queue', finished \subseteq finished',
           Made \subseteq Made', \A n : Own(n, Made) \subseteq Own(n, Made')
    PROVE  \A n, row : Earned(n, row, queue, finished, Made) => Earned(n, row, queue', finished', Made')
  BY DEF Earned

\* A job that begins is numbered after the others, and its moment waits for it.
LEMMA BeginNumbers ==
    ASSUME MomentsTypeOK, JobsNumbered, NEW m \in Ids, NEW input \in Own(m, Made), BeginJob(m, input),
           finished' = finished, \A n : Own(n, Made) \subseteq Own(n, Made')
    PROVE  /\ JobsNumbered'
           /\ \A j \in queue' \ queue : j.id = m /\ j.job \notin finished
  <1>. DEFINE new == [job |-> NextJob, id |-> m, gen |-> moment[m].gen + 1, input |-> input]
  <1>1. /\ IsFiniteSet(queue) /\ Cardinality(queue) \in Nat /\ NextJob = Cardinality(queue) + 1
    BY FS_CardinalityType DEF MomentsTypeOK, NextJob
  <1>2. queue' = queue \cup {new} /\ new.job = NextJob /\ new.id = m /\ new.input = input
    BY DEF BeginJob
  <1>. HIDE DEF new
  <1>3. new \notin queue
    BY <1>1, <1>2 DEF JobsNumbered
  <1>4. Cardinality(queue') = Cardinality(queue) + 1
    BY <1>1, <1>2, <1>3, FS_AddElement
  <1>5. \A j \in queue' : j.job \in 1 .. Cardinality(queue') /\ j.input \in Own(j.id, Made')
    BY <1>1, <1>2, <1>4 DEF JobsNumbered
  <1>6. \A j, k \in queue' : j.job = k.job => j = k
    BY <1>1, <1>2 DEF JobsNumbered
  <1>7. finished' \subseteq 1 .. Cardinality(queue')
    BY <1>1, <1>4 DEF JobsNumbered
  <1>8. NextJob \notin finished
    BY <1>1 DEF JobsNumbered
  <1>. QED  BY <1>2, <1>5, <1>6, <1>7, <1>8 DEF JobsNumbered

\* What a staff request and an upload begin their jobs on belongs to the moment.
LEMMA BegunOnOwn ==
    ASSUME MomentsTypeOK, RowsEarned, [MomentsNext]_momentVars, queue' # queue
    PROVE  /\ \E m \in Ids : \E input \in Own(m, Made) : BeginJob(m, input)
           /\ UNCHANGED <<store, finished, purges>>
  <1>1. ASSUME NEW u \in Uploads, EnqueueUpload(u)
        PROVE  /\ \E m \in Ids : \E input \in Own(m, Made) : BeginJob(m, input)
               /\ UNCHANGED <<store, finished, purges>>
    <2>1. upload[u].id \in Ids /\ BeginJob(upload[u].id, Raw(upload[u].key))
      BY <1>1 DEF EnqueueUpload, MomentsTypeOK
    <2>2. Raw(upload[u].key) \in Own(upload[u].id, Made)
      BY DEF Own, MomentsTypeOK, UploadRow
    <2>. QED  BY <1>1, <2>1, <2>2 DEF EnqueueUpload
  <1>2. ASSUME NEW s \in Staff, StaffBegin(s)
        PROVE  /\ \E m \in Ids : \E input \in Own(m, Made) : BeginJob(m, input)
               /\ UNCHANGED <<store, finished, purges>>
    <2>1. staff[s].op \in Operations /\ BeginJob(staff[s].id, staff[s].row.url)
      BY <1>2 DEF StaffBegin, Operations
    <2>2. staff[s].id \in Ids /\ staff[s].row.url \in Own(staff[s].id, Made)
      BY <2>1 DEF MomentsTypeOK, RowsEarned, Earned
    <2>. QED  BY <1>2, <2>1, <2>2 DEF StaffBegin
  <1>. QED
    BY <1>1, <1>2 DEF MomentsNext, StoreUpload, LookupConfirmed, VerifyUpload, Reserve, Cleanup, CreateMoment,
       CreateDuplicate, CreateError, EnqueueUploadError, UploadCrash, Optimise, Callback,
       CallbackDeleted, PurgeCheck, PurgeDelete, BulkUpdateApproval, CreateByStaff, StaffRead, EditMoment,
       StaffBeginError, DeleteMoment, momentVars

\* Jobs stay numbered, and only jobs that were handed out are finished.
LEMMA JobsStep ==
    MomentsTypeOK /\ RowsEarned /\ JobsNumbered /\ [MomentsNext]_momentVars => JobsNumbered'
  <1>. SUFFICES ASSUME MomentsTypeOK, RowsEarned, JobsNumbered, [MomentsNext]_momentVars PROVE JobsNumbered'
    OBVIOUS
  <1>1. CASE queue' # queue
    BY <1>1, BegunOnOwn, BeginNumbers, NothingRevived
  <1>2. CASE queue' = queue
    <2>1. finished' = finished \/ \E j \in queue : finished' = finished \cup {j.job}
      BY DEF MomentsNext, StoreUpload, LookupConfirmed, VerifyUpload, Reserve, Cleanup, CreateMoment,
         CreateDuplicate, CreateError, EnqueueUpload, EnqueueUploadError, UploadCrash, Optimise, Callback,
         CallbackDeleted, PurgeCheck, PurgeDelete, BulkUpdateApproval, CreateByStaff, StaffRead, EditMoment,
         StaffBegin, StaffBeginError, DeleteMoment, momentVars
    <2>2. \A n : Own(n, Made) \subseteq Own(n, Made')
      BY NothingRevived
    <2>. QED  BY <1>2, <2>1, <2>2 DEF JobsNumbered
  <1>. QED  BY <1>1, <1>2

\* Callbacks settle a row with what its job made, and error paths with what was read.
LEMMA EarnedStep ==
    MomentsTypeOK /\ JobsNumbered /\ RowsEarned /\ [MomentsNext]_momentVars => RowsEarned'
  <1>. SUFFICES ASSUME MomentsTypeOK, JobsNumbered, RowsEarned, [MomentsNext]_momentVars PROVE RowsEarned'
    OBVIOUS
  <1>0. /\ moment \in [Ids -> MomentRow] /\ \A m \in Ids : moment[m] \in MomentRow /\ Earned(m, moment[m], queue, finished, Made)
        /\ \A s \in Staff : staff[s].op \in Operations => staff[s].id \in Ids /\ Earned(staff[s].id, staff[s].row, queue, finished, Made)
        /\ \A s \in Staff : staff[s].row \in MomentRow
        /\ \A u \in Uploads : /\ upload[u].at = "enqueue" => upload[u].id \in Ids
                              /\ \A n, made : Raw(upload[u].key) \in Own(n, made)
        /\ \A j \in queue : j.id \in Ids /\ j.input \in Own(j.id, Made)
    BY DEF MomentsTypeOK, RowsEarned, JobsNumbered, MediaJob, UploadRow, StaffRow, Own
  <1>00. /\ queue \subseteq queue' /\ finished \subseteq finished'
         /\ Made \subseteq Made' /\ \A n : Own(n, Made) \subseteq Own(n, Made')
    BY NothingRevived
  \* A row whose objects are its own and which waits for its job.
  <1>1. ASSUME NEW n, NEW row, row.url \in Own(n, Made), row.input \in Own(n, Made), row.status = "pending"
        PROVE  Earned(n, row, queue', finished', Made')
    BY <1>00, <1>1 DEF Earned
  \* A row that differs from one that has earned its objects in nothing that counts.
  <1>18. ASSUME NEW n, NEW row, NEW other, row.url = other.url, row.input = other.input,
                row.status = other.status, row.job = other.job, Earned(n, other, queue, finished, Made)
         PROVE  Earned(n, row, queue', finished', Made')
    <2>1. Earned(n, row, queue, finished, Made)
      BY <1>18 DEF Earned
    <2>. QED  BY <1>00, <2>1, EarnedStays
  <1>2. ASSUME NEW m \in Ids, NEW row, NEW statuses, NEW url \in Own(m, Made), NEW status,
               Applied(m, row, statuses, url, status),
               status = "done" /\ Current(m, row, statuses) =>
                   url = Opt(m) /\ \E j \in queue : j.id = m /\ j.job = row.job /\ j.job \in finished,
               status = "" => \E c \in Made : c.id = m /\ url = c.row.url
        PROVE  \A n \in Ids : Earned(n, moment'[n], queue', finished', Made')
    <2>1. CASE moment' = moment
      BY <1>0, <1>00, <2>1, EarnedStays
    <2>2. CASE Current(m, row, statuses) /\ moment' = [moment EXCEPT ![m].url = url, ![m].status = status]
      <3>1. ASSUME NEW n \in Ids, n # m PROVE Earned(n, moment'[n], queue', finished', Made')
        BY <1>0, <1>00, <2>2, <3>1, EarnedStays
      <3>2. /\ moment'[m].url = url /\ moment'[m].status = status
            /\ moment'[m].input = moment[m].input /\ moment'[m].job = moment[m].job
        BY <1>0, <2>2 DEF MomentRow
      <3>3. moment[m].job = row.job /\ moment[m].input \in Own(m, Made)
        BY <1>0, <2>2 DEF Current, Earned
      <3>4. Earned(m, moment'[m], queue', finished', Made')
        BY <1>00, <1>2, <2>2, <3>2, <3>3 DEF Earned
      <3>. QED  BY <3>1, <3>4
    <2>. QED  BY <1>2, <2>1, <2>2 DEF Applied
  <1>3. ASSUME NEW m \in Ids, NEW input \in Own(m, Made), BeginJob(m, input)
        PROVE  \A n \in Ids : Earned(n, moment'[n], queue', finished', Made')
    <2>1. ASSUME NEW n \in Ids, n # m PROVE Earned(n, moment'[n], queue', finished', Made')
      BY <1>0, <1>00, <1>3, <2>1, EarnedStays DEF BeginJob
    <2>2. /\ moment'[m].url = moment[m].url /\ moment'[m].status = "pending" /\ moment'[m].input = input
      BY <1>0, <1>3 DEF BeginJob, MomentRow
    <2>3. moment[m].url \in Own(m, Made)
      BY <1>0 DEF Earned
    <2>4. Earned(m, moment'[m], queue', finished', Made')
      BY <1>1, <2>2, <2>3
    <2>. QED  BY <2>1, <2>4
  <1>4. ASSUME NEW s \in Staff, StaffDone(s), \A n \in Ids : Earned(n, moment'[n], queue', finished', Made')
        PROVE  RowsEarned'
    <2>1. staff'[s].op \notin Operations /\ \A r \in Staff \ {s} : staff'[r] = staff[r]
      BY <1>4 DEF StaffDone, MomentsTypeOK, StaffRow, Operations
    <2>. QED  BY <1>0, <1>00, <1>4, <2>1, EarnedStays DEF RowsEarned
  <1>5. ASSUME staff' = staff, \A n \in Ids : Earned(n, moment'[n], queue', finished', Made')
        PROVE  RowsEarned'
    BY <1>0, <1>00, <1>5, EarnedStays DEF RowsEarned
  <1>6. ASSUME moment' = moment, staff' = staff PROVE RowsEarned'
    <2>1. \A n \in Ids : Earned(n, moment'[n], queue', finished', Made')
      BY <1>0, <1>00, <1>6, EarnedStays
    <2>. QED  BY <1>5, <1>6, <2>1
  <1>7. ASSUME NEW u \in Uploads, CreateMoment(u) PROVE RowsEarned'
    <2>1. PICK m \in Ids, b \in BOOLEAN :
              moment' = [moment EXCEPT ![m] = [NoMoment EXCEPT !.live = "live",
                            !.url = Raw(upload[u].key), !.approved = b]]
      BY <1>7 DEF CreateMoment, NextIds
    <2>2. /\ moment'[m].url = Raw(upload[u].key) /\ moment'[m].input = NoObject /\ moment'[m].status = "pending"
      BY <1>0, <2>1 DEF NoMoment
    <2>7. NoObject \in Own(m, Made) /\ Raw(upload[u].key) \in Own(m, Made)
      <3>1. NoObject \in Own(m, Made)
        BY DEF Own
      <3>. QED  BY <1>0, <3>1
    <2>6. moment'[m].url \in Own(m, Made) /\ moment'[m].input \in Own(m, Made)
      BY <2>2, <2>7
    <2>3. Earned(m, moment'[m], queue', finished', Made')
      BY <1>1, <2>2, <2>6
    <2>4. \A n \in Ids \ {m} : Earned(n, moment'[n], queue', finished', Made')
      BY <1>0, <1>00, <2>1, EarnedStays
    <2>5. staff' = staff
      BY <1>7 DEF CreateMoment
    <2>. QED  BY <1>5, <2>3, <2>4, <2>5
  <1>8. ASSUME NEW u \in Uploads, EnqueueUpload(u) PROVE RowsEarned'
    <2>1. upload[u].id \in Ids /\ BeginJob(upload[u].id, Raw(upload[u].key)) /\ staff' = staff
      BY <1>0, <1>8 DEF EnqueueUpload
    <2>. QED  BY <1>0, <1>3, <1>5, <2>1
  <1>9. ASSUME NEW u \in Uploads, EnqueueUploadError(u) PROVE RowsEarned'
    <2>1. /\ upload[u].id \in Ids /\ staff' = staff
          /\ Applied(upload[u].id, NoMoment, {"pending"}, Raw(upload[u].key), "failed")
      BY <1>0, <1>9 DEF EnqueueUploadError
    <2>3. Raw(upload[u].key) \in Own(upload[u].id, Made) /\ "failed" # "done" /\ "failed" # ""
      BY <1>0
    <2>2. \A n \in Ids : Earned(n, moment'[n], queue', finished', Made')
      BY <1>2, <2>1, <2>3
    <2>. QED  BY <1>5, <2>1, <2>2
  <1>10. ASSUME NEW j \in queue, NEW status \in {"processing", "done", "failed"}, Callback(j, status)
         PROVE  RowsEarned'
    <2>. DEFINE url == IF status = "done" THEN Opt(j.id) ELSE j.input
    <2>1. /\ j.id \in Ids /\ staff' = staff
          /\ status = "done" => j.job \in finished
          /\ Applied(j.id, j, Unfinished, url, status)
      BY <1>0, <1>10 DEF Callback
    <2>4. status # ""
      BY <1>10
    <2>2. url \in Own(j.id, Made) /\ (status = "done" => url = Opt(j.id))
      BY <1>0 DEF Own
    <2>. HIDE DEF url
    <2>3. \A n \in Ids : Earned(n, moment'[n], queue', finished', Made')
      BY <1>2, <2>1, <2>2, <2>4
    <2>. QED  BY <1>5, <2>1, <2>3
  <1>11. ASSUME NEW m \in Ids, BulkUpdateApproval(m) PROVE RowsEarned'
    <2>1. /\ moment'[m].url = moment[m].url /\ moment'[m].input = moment[m].input
          /\ moment'[m].status = moment[m].status /\ moment'[m].job = moment[m].job
          /\ \A n \in Ids \ {m} : moment'[n] = moment[n]
          /\ staff' = staff
      BY <1>0, <1>11 DEF BulkUpdateApproval, MomentRow
    <2>2. \A n \in Ids : Earned(n, moment'[n], queue', finished', Made')
      BY <1>0, <1>18, <2>1
    <2>. QED  BY <1>5, <2>1, <2>2
  <1>12. ASSUME NEW s \in Staff, StaffRead(s) PROVE RowsEarned'
    <2>1. PICK m \in Ids, op \in Operations : staff' = [staff EXCEPT ![s] = [op |-> op, id |-> m, row |-> moment[m]]]
      BY <1>12 DEF StaffRead
    <2>2. /\ \A r \in Staff \ {s} : staff'[r] = staff[r]
          /\ staff'[s].id = m /\ staff'[s].row = moment[m]
      BY <2>1 DEF MomentsTypeOK
    <2>3. \A n \in Ids : Earned(n, moment[n], queue', finished', Made')
      BY <1>0, <1>00, EarnedStays
    <2>4. moment' = moment /\ \A r \in Staff : staff[r].op \in Operations => Earned(staff[r].id, staff[r].row, queue, finished, Made)
      BY <1>0, <1>12 DEF StaffRead
    <2>5. \A r \in Staff : staff'[r].op \in Operations => Earned(staff'[r].id, staff'[r].row, queue, finished, Made)
      BY <1>0, <2>2, <2>4
    <2>6. \A r \in Staff : staff'[r].op \in Operations => Earned(staff'[r].id, staff'[r].row, queue', finished', Made')
      BY <1>00, <2>5, EarnedStays
    <2>. QED  BY <2>3, <2>4, <2>6 DEF RowsEarned
  <1>13. ASSUME NEW s \in Staff, EditMoment(s) PROVE RowsEarned'
    <2>0. staff[s].op \in Operations /\ staff[s].id \in Ids /\ Earned(staff[s].id, staff[s].row, queue, finished, Made)
      BY <1>0, <1>13 DEF EditMoment, Operations
    <2>1. PICK b \in BOOLEAN : moment' = [moment EXCEPT ![staff[s].id] = [staff[s].row EXCEPT !.approved = b]]
                               \/ moment' = moment
      BY <1>13 DEF EditMoment, EditRow
    <2>2. CASE moment' = moment
      <3>1. \A n \in Ids : Earned(n, moment'[n], queue', finished', Made')
        BY <1>0, <1>00, <2>2, EarnedStays
      <3>. QED  BY <1>4, <1>13, <3>1 DEF EditMoment
    <2>3. CASE moment' = [moment EXCEPT ![staff[s].id] = [staff[s].row EXCEPT !.approved = b]]
      <3>. DEFINE m == staff[s].id
      <3>1. /\ moment'[m].url = staff[s].row.url /\ moment'[m].input = staff[s].row.input
            /\ moment'[m].status = staff[s].row.status /\ moment'[m].job = staff[s].row.job
            /\ \A n \in Ids \ {m} : moment'[n] = moment[n]
        BY <1>0, <2>0, <2>3 DEF MomentRow
      <3>2. Earned(m, moment'[m], queue', finished', Made')
        BY <1>18, <2>0, <3>1
      <3>4. \A n \in Ids : Earned(n, moment'[n], queue', finished', Made')
        BY <1>0, <1>18, <3>1, <3>2
      <3>. QED  BY <1>4, <1>13, <3>4 DEF EditMoment
    <2>. QED  BY <2>1, <2>2, <2>3
  <1>14. ASSUME NEW s \in Staff, StaffBegin(s) PROVE RowsEarned'
    <2>1. staff[s].op \in Operations /\ BeginJob(staff[s].id, staff[s].row.url) /\ StaffDone(s)
      BY <1>14 DEF StaffBegin, Operations
    <2>2. staff[s].id \in Ids /\ staff[s].row.url \in Own(staff[s].id, Made)
      BY <1>0, <2>1 DEF Earned
    <2>. QED  BY <1>3, <1>4, <2>1, <2>2
  <1>15. ASSUME NEW s \in Staff, StaffBeginError(s) PROVE RowsEarned'
    <2>. DEFINE status == IF staff[s].op = "requeue" THEN "failed" ELSE staff[s].row.status
    <2>1. /\ staff[s].op \in Operations /\ StaffDone(s)
          /\ Applied(staff[s].id, staff[s].row, {"pending"}, staff[s].row.url, status)
      BY <1>15 DEF StaffBeginError, Operations
    <2>2. /\ staff[s].id \in Ids /\ staff[s].row.url \in Own(staff[s].id, Made)
          /\ staff[s].row.status = "done" =>
                /\ staff[s].row.url = Opt(staff[s].id)
                /\ \E j \in queue : j.id = staff[s].id /\ j.job = staff[s].row.job /\ j.job \in finished
          /\ staff[s].row.status = "" => \E c \in Made : c.id = staff[s].id /\ staff[s].row.url = c.row.url
      BY <1>0, <2>1 DEF Earned
    <2>3. (status = "done" => staff[s].row.status = "done") /\ (status = "" => staff[s].row.status = "")
      OBVIOUS
    <2>. HIDE DEF status
    <2>4. \A n \in Ids : Earned(n, moment'[n], queue', finished', Made')
      BY <1>2, <2>1, <2>2, <2>3
    <2>. QED  BY <1>4, <2>1, <2>4
  <1>16. ASSUME NEW s \in Staff, DeleteMoment(s) PROVE RowsEarned'
    <2>0. staff[s].op \in Operations /\ staff[s].id \in Ids
      BY <1>0, <1>16 DEF DeleteMoment, Operations
    <2>1. \A n \in Ids : /\ moment'[n].url = moment[n].url /\ moment'[n].input = moment[n].input
                         /\ moment'[n].status = moment[n].status /\ moment'[n].job = moment[n].job
      BY <1>0, <1>16, <2>0 DEF DeleteMoment, MomentRow
    <2>3. \A n \in Ids : Earned(n, moment'[n], queue', finished', Made')
      BY <1>0, <1>18, <2>1
    <2>. QED  BY <1>4, <1>16, <2>3 DEF DeleteMoment
  <1>17. ASSUME NEW s \in Staff, CreateByStaff(s) PROVE RowsEarned'
    <2>1. PICK m \in Ids, url \in Typed, b \in BOOLEAN :
             LET row == [NoMoment EXCEPT !.live = "live", !.url = url, !.status = "", !.approved = b]
             IN  /\ moment' = [moment EXCEPT ![m] = row]
                 /\ staff' = [staff EXCEPT ![s] = [op |-> "created", id |-> m, row |-> row]]
      BY <1>17 DEF CreateByStaff, NextIds
    <2>. DEFINE row == [NoMoment EXCEPT !.live = "live", !.url = url, !.status = "", !.approved = b]
    <2>2. row.url = url /\ row.input = NoObject /\ row.status = ""
      BY DEF NoMoment
    <2>3. moment' = [moment EXCEPT ![m] = row] /\ staff' = [staff EXCEPT ![s] = [op |-> "created", id |-> m, row |-> row]]
      BY <2>1
    <2>. HIDE DEF row
    <2>4. /\ staff'[s] = [op |-> "created", id |-> m, row |-> row]
          /\ \A r \in Staff \ {s} : staff'[r] = staff[r]
          /\ moment'[m] = row /\ \A n \in Ids \ {m} : moment'[n] = moment[n]
      BY <1>0, <2>3 DEF MomentsTypeOK
    <2>5. [op |-> "created", id |-> m, row |-> row] \in Made'
      BY <2>4 DEF Made
    <2>6. PICK c \in Made' : c.id = m /\ c.row.url = url
      BY <2>2, <2>5
    <2>7. url \in Own(m, Made') /\ NoObject \in Own(m, Made')
      BY <2>6 DEF Own
    <2>8. Earned(m, moment'[m], queue', finished', Made')
      BY <2>2, <2>4, <2>6, <2>7 DEF Earned
    <2>9. \A n \in Ids \ {m} : Earned(n, moment'[n], queue', finished', Made')
      BY <1>0, <1>00, <2>4, EarnedStays
    <2>10. "created" \notin Operations
      BY DEF Operations
    <2>11. \A r \in Staff : staff'[r].op \in Operations => Earned(staff'[r].id, staff'[r].row, queue', finished', Made')
      BY <1>0, <1>00, <2>4, <2>10, EarnedStays
    <2>. QED  BY <2>8, <2>9, <2>11 DEF RowsEarned
  <1>. QED
    BY <1>6, <1>7, <1>8, <1>9, <1>10, <1>11, <1>12, <1>13, <1>14, <1>15, <1>16, <1>17
       DEF MomentsNext, StoreUpload, LookupConfirmed, VerifyUpload, Reserve, Cleanup,
           CreateDuplicate, CreateError, UploadCrash, Optimise, CallbackDeleted, PurgeCheck, PurgeDelete, momentVars

\* The optimised object a row may name is its own, or one that staff named.
LEMMA OwnOutput ==
    ASSUME NEW m \in Ids, NEW n, Opt(m) \in Own(n, Made)
    PROVE  m = n \/ \E c \in Made : Opt(m) = c.row.url
  BY ObjectNames DEF Own

\* Outputs of finished jobs go only after their moment, whatever purge was late.
LEMMA OutputsStep ==
    MomentsTypeOK /\ JobsNumbered /\ RowsEarned /\ OutputsKept /\ [MomentsNext]_momentVars => OutputsKept'
  <1>. SUFFICES ASSUME MomentsTypeOK, JobsNumbered, RowsEarned, OutputsKept, [MomentsNext]_momentVars
                PROVE  OutputsKept'
    OBVIOUS
  <1>0. /\ \A m \in Ids : Spared(m) => Spared(m)'
        /\ \A j \in queue : j.id \in Ids
        /\ \A p \in purges : p \in Purge
    BY NothingRevived DEF MomentsTypeOK, MediaJob, Spared
  <1>1. ASSUME NEW j \in queue', j.job \in finished' PROVE Opt(j.id) \in store' \/ Spared(j.id)'
    <2>1. CASE queue' # queue
      <3>1. PICK m \in Ids : \E input \in Own(m, Made) : BeginJob(m, input)
        BY <2>1, BegunOnOwn
      <3>2. UNCHANGED <<store, finished, purges>>
        BY <2>1, BegunOnOwn
      <3>3. j \in queue
        BY <1>1, <3>1, <3>2, BeginNumbers, NothingRevived
      <3>. QED  BY <1>0, <1>1, <3>2, <3>3 DEF OutputsKept
    <2>2. ASSUME NEW k \in queue, Optimise(k), queue' = queue
          PROVE  Opt(j.id) \in store' \/ Spared(j.id)'
      <3>1. finished' = finished \cup {k.job} /\ store' = store \cup {Opt(k.id)}
        BY <2>2 DEF Optimise
      <3>2. j.job = k.job => j = k
        BY <2>2 DEF JobsNumbered
      <3>. QED  BY <1>0, <1>1, <2>2, <3>1, <3>2 DEF OutputsKept
    <2>3. ASSUME NEW p \in purges, PurgeDelete(p), queue' = queue
          PROVE  Opt(j.id) \in store' \/ Spared(j.id)'
      <3>1. PICK gone \in SUBSET p.keys : store' = store \ gone
        BY <2>3 DEF PurgeDelete
      <3>2. finished' = finished
        BY <2>3 DEF PurgeDelete
      <3>3. Opt(j.id) \in gone => Spared(j.id)
        BY <1>0, <2>3 DEF OutputsKept
      <3>. QED  BY <1>0, <1>1, <2>3, <3>1, <3>2, <3>3 DEF OutputsKept
    <2>4. CASE queue' = queue /\ finished' = finished /\ \A m \in Ids : Opt(m) \in store => Opt(m) \in store'
      BY <1>0, <1>1, <2>4 DEF OutputsKept
    <2>5. \/ queue' # queue
          \/ queue' = queue /\ \E k \in queue : Optimise(k)
          \/ queue' = queue /\ \E p \in purges : PurgeDelete(p)
          \/ queue' = queue /\ finished' = finished /\ \A m \in Ids : Opt(m) \in store => Opt(m) \in store'
      <3>1. ASSUME NEW u \in Uploads,
                   \/ StoreUpload(u) \/ LookupConfirmed(u) \/ VerifyUpload(u) \/ Reserve(u)
                   \/ Cleanup(u) \/ CreateMoment(u) \/ CreateDuplicate(u) \/ CreateError(u)
                   \/ EnqueueUpload(u) \/ EnqueueUploadError(u) \/ UploadCrash(u)
            PROVE  finished' = finished /\ \A m \in Ids : Opt(m) \in store => Opt(m) \in store'
        <4>1. /\ finished' = finished
              /\ store' \in {store, store \cup {Raw(upload[u].key)}, store \ {Raw(upload[u].key)}}
          BY <3>1 DEF StoreUpload, LookupConfirmed, VerifyUpload, Reserve, Cleanup, CreateMoment,
             CreateDuplicate, CreateError, EnqueueUpload, EnqueueUploadError, UploadCrash
        <4>. QED  BY <4>1, ObjectNames
      <3>. QED
        BY <3>1 DEF MomentsNext, Callback, CallbackDeleted, PurgeCheck, BulkUpdateApproval, CreateByStaff, StaffRead,
           EditMoment, StaffBegin, StaffBeginError, DeleteMoment, momentVars
    <2>. QED  BY <2>1, <2>2, <2>3, <2>4, <2>5
  <1>2. ASSUME NEW p \in purges', NEW m \in Ids, Opt(m) \in p.keys PROVE Spared(m)'
    <2>1. CASE p \in purges
      BY <1>0, <1>2, <2>1 DEF OutputsKept
    <2>2. ASSUME NEW n \in Ids, NEW row, NEW extra, p = PurgeOf(n, row, extra),
                 {row.url, row.input} \cup extra \subseteq Own(n, Made)
          PROVE  m = n \/ Spared(m)
      <3>1. Opt(m) \in {row.url, row.input} \cup extra
        BY <1>2, <2>2 DEF PurgeOf
      <3>. QED  BY <2>2, <3>1, OwnOutput DEF Spared
    <2>3. ASSUME NEW j \in queue, CallbackDeleted(j), p \notin purges PROVE Spared(m)'
      <3>. DEFINE extra == IF j.job \in finished THEN {Opt(j.id)} ELSE {j.input}
      <3>1. p = PurgeOf(j.id, moment[j.id], extra) /\ moment[j.id].live = "gone" /\ moment' = moment
        BY <1>2, <2>3 DEF CallbackDeleted
      <3>2. j.id \in Ids /\ extra \subseteq Own(j.id, Made)
        BY <1>0 DEF JobsNumbered, Own
      <3>3. {moment[j.id].url, moment[j.id].input} \subseteq Own(j.id, Made)
        BY <3>2 DEF RowsEarned, Earned
      <3>. HIDE DEF extra
      <3>4. {moment[j.id].url, moment[j.id].input} \cup extra \subseteq Own(j.id, Made)
        BY <3>2, <3>3
      <3>5. m = j.id \/ Spared(m)
        BY <2>2, <3>1, <3>2, <3>4
      <3>6. Spared(m)
        BY <3>1, <3>5 DEF Spared
      <3>. QED  BY <1>0, <3>6
    <2>4. ASSUME NEW s \in Staff, DeleteMoment(s), p \notin purges PROVE Spared(m)'
      <3>1. staff[s].op \in Operations /\ p = PurgeOf(staff[s].id, staff[s].row, {})
        BY <1>2, <2>4 DEF DeleteMoment, Operations
      <3>2. staff[s].id \in Ids /\ {staff[s].row.url, staff[s].row.input} \cup {} \subseteq Own(staff[s].id, Made)
        BY <3>1 DEF RowsEarned, Earned, MomentsTypeOK
      <3>3. m = staff[s].id \/ Spared(m)
        BY <2>2, <3>1, <3>2
      <3>4. CASE m = staff[s].id
        <4>1. moment'[m].live = "gone"
          BY <2>4, <3>4 DEF DeleteMoment, MomentsTypeOK, MomentRow
        <4>. QED  BY <4>1 DEF Spared
      <3>. QED  BY <1>0, <3>3, <3>4
    <2>5. ASSUME NEW q \in purges, PurgeCheck(q), p \notin purges PROVE Spared(m)'
      <3>1. p = [q EXCEPT !.checked = TRUE, !.keys = @ \ Referenced(q.id)] /\ q \in Purge
        BY <1>0, <1>2, <2>5 DEF PurgeCheck
      <3>2. p.keys \subseteq q.keys
        BY <3>1 DEF Purge
      <3>3. Spared(m)
        BY <1>2, <2>5, <3>2 DEF OutputsKept
      <3>. QED  BY <1>0, <3>3
    <2>6. \/ p \in purges
          \/ \E j \in queue : CallbackDeleted(j)
          \/ \E s \in Staff : DeleteMoment(s)
          \/ \E q \in purges : PurgeCheck(q)
      BY <1>2 DEF MomentsNext, StoreUpload, LookupConfirmed, VerifyUpload, Reserve, Cleanup, CreateMoment,
         CreateDuplicate, CreateError, EnqueueUpload, EnqueueUploadError, UploadCrash, Optimise, Callback,
         PurgeDelete, BulkUpdateApproval, CreateByStaff, StaffRead, EditMoment, StaffBegin, StaffBeginError, momentVars
    <2>. QED  BY <2>1, <2>3, <2>4, <2>5, <2>6
  <1>. QED  BY <1>1, <1>2 DEF OutputsKept
-----------------------------------------------------------------------------
(* The upload quota. *)

Slots == {u \in Uploads : upload[u].reserved}
Within == {u \in Uploads : upload[u].reserved /\ upload[u].at \in {"insert", "enqueue", "accepted"}}

\* The counter is at least the slots that are held; a request takes its slot once, and
\* goes on only if the counter was within the limit then.
QuotaKept ==
    /\ Cardinality(Slots) <= used
    /\ \A u \in Uploads : upload[u].at \in {"start", "verify", "reserve"} => ~upload[u].reserved
    /\ Cardinality(Within) <= MaxUploads

\* A slot that is given back was counted.
LEMMA SlotCounted ==
    ASSUME MomentsTypeOK, QuotaKept, NEW u \in Uploads, upload[u].reserved
    PROVE  used > 0
  <1>1. IsFiniteSet(Slots) /\ u \in Slots
    BY MomentsAssumption, FS_Subset DEF Slots
  <1>2. Cardinality(Slots) \in Nat /\ Cardinality(Slots) # 0
    BY <1>1, FS_CardinalityType, FS_EmptySet
  <1>. QED  BY <1>2 DEF QuotaKept, MomentsTypeOK

\* Where a request gives no slot up and takes none.
LEMMA QuotaUntouched ==
    ASSUME MomentsTypeOK, QuotaKept, Slots' \subseteq Slots, Within' \subseteq Within, used' = used,
           \A u \in Uploads : upload'[u].at \in {"start", "verify", "reserve"} => ~upload'[u].reserved
    PROVE  QuotaKept'
  <1>1. IsFiniteSet(Slots) /\ IsFiniteSet(Within)
    BY MomentsAssumption, FS_Subset DEF Slots, Within
  <1>2. /\ IsFiniteSet(Slots') /\ Cardinality(Slots') <= Cardinality(Slots)
        /\ IsFiniteSet(Within') /\ Cardinality(Within') <= Cardinality(Within)
    BY <1>1, FS_Subset
  <1>3. /\ Cardinality(Slots') \in Nat /\ Cardinality(Slots) \in Nat /\ used \in Nat
        /\ Cardinality(Within') \in Nat /\ Cardinality(Within) \in Nat /\ MaxUploads \in Nat
    BY <1>1, <1>2, FS_CardinalityType, MomentsAssumption DEF MomentsTypeOK
  <1>. QED  BY <1>2, <1>3 DEF QuotaKept

\* A request that ends gives its slot back, or leaves it counted when Redis fails.
LEMMA QuotaRefunded ==
    ASSUME MomentsTypeOK, QuotaKept, NEW u \in Uploads, Refund(u),
           upload' = [upload EXCEPT ![u].at = "ended", ![u].reserved = FALSE]
    PROVE  QuotaKept'
  <1>0. upload \in [Uploads -> UploadRow] /\ used \in Nat /\ MaxUploads \in Nat
    BY MomentsAssumption DEF MomentsTypeOK
  <1>1. /\ upload'[u].at = "ended" /\ ~upload'[u].reserved
        /\ \A v \in Uploads \ {u} : upload'[v] = upload[v]
    BY <1>0 DEF UploadRow
  <1>2. Slots' = Slots \ {u} /\ Within' \subseteq Within
    BY <1>1 DEF Slots, Within
  <1>3. \A v \in Uploads : upload'[v].at \in {"start", "verify", "reserve"} => ~upload'[v].reserved
    BY <1>1 DEF QuotaKept
  <1>4. CASE used' = used
    BY <1>2, <1>3, <1>4, QuotaUntouched
  <1>5. CASE upload[u].reserved /\ used' = used - 1
    <2>1. IsFiniteSet(Slots) /\ IsFiniteSet(Within) /\ u \in Slots
      BY <1>5, MomentsAssumption, FS_Subset DEF Slots, Within
    <2>2. Cardinality(Slots') = Cardinality(Slots) - 1 /\ Cardinality(Slots) \in Nat
      BY <1>2, <2>1, FS_RemoveElement, FS_CardinalityType
    <2>3. /\ Cardinality(Within') <= Cardinality(Within)
          /\ Cardinality(Within') \in Nat /\ Cardinality(Within) \in Nat
      BY <1>2, <2>1, FS_Subset, FS_CardinalityType
    <2>. QED  BY <1>0, <1>3, <1>5, <2>2, <2>3 DEF QuotaKept
  <1>. QED  BY <1>4, <1>5 DEF Refund

\* A request takes its slot first and compares then.
LEMMA QuotaReserved ==
    ASSUME MomentsTypeOK, QuotaKept, NEW u \in Uploads, upload[u].at = "reserve", ReserveSlot(u)
    PROVE  QuotaKept'
  <1>0. upload \in [Uploads -> UploadRow] /\ used \in Nat /\ MaxUploads \in Nat
    BY MomentsAssumption DEF MomentsTypeOK
  <1>1. /\ upload'[u].at = IF used + 1 > MaxUploads THEN "cleanup" ELSE "insert"
        /\ upload'[u].reserved /\ \A v \in Uploads \ {u} : upload'[v] = upload[v]
    BY <1>0 DEF ReserveSlot, UploadRow
  <1>2. IsFiniteSet(Slots) /\ IsFiniteSet(Within) /\ u \notin Slots /\ u \notin Within
    BY MomentsAssumption, FS_Subset DEF Slots, Within, QuotaKept
  <1>3. Slots' = Slots \cup {u}
    BY <1>1 DEF Slots
  <1>4. /\ IsFiniteSet(Slots') /\ Cardinality(Slots') = Cardinality(Slots) + 1
        /\ Cardinality(Slots) \in Nat /\ used' = used + 1
    BY <1>2, <1>3, FS_AddElement, FS_CardinalityType DEF ReserveSlot
  <1>5. Cardinality(Slots') <= used'
    BY <1>0, <1>4 DEF QuotaKept
  <1>6. \A v \in Uploads : upload'[v].at \in {"start", "verify", "reserve"} => ~upload'[v].reserved
    BY <1>1 DEF QuotaKept
  <1>7. CASE used + 1 > MaxUploads
    <2>1. Within' = Within
      BY <1>1, <1>2, <1>7 DEF Within
    <2>. QED  BY <1>5, <1>6, <2>1 DEF QuotaKept
  <1>8. CASE ~(used + 1 > MaxUploads)
    <2>1. Within' \subseteq Slots'
      BY DEF Within, Slots
    <2>2. Cardinality(Within') <= Cardinality(Slots') /\ Cardinality(Within') \in Nat /\ Cardinality(Slots') \in Nat
      BY <1>4, <2>1, FS_Subset, FS_CardinalityType
    <2>3. Cardinality(Within') <= MaxUploads
      BY <1>0, <1>4, <1>5, <1>8, <2>2
    <2>. QED  BY <1>5, <1>6, <2>3 DEF QuotaKept
  <1>. QED  BY <1>7, <1>8

\* No interleaving of requests, refunds and crashes loses count.
LEMMA QuotaStep == MomentsTypeOK /\ QuotaKept /\ [MomentsNext]_momentVars => QuotaKept'
  <1>. SUFFICES ASSUME MomentsTypeOK, QuotaKept, [MomentsNext]_momentVars PROVE QuotaKept'
    OBVIOUS
  <1>0. upload \in [Uploads -> UploadRow]
    BY DEF MomentsTypeOK
  <1>1. ASSUME NEW u \in Uploads, used' = used, \A v \in Uploads \ {u} : upload'[v] = upload[v],
               upload'[u].reserved = upload[u].reserved,
               upload'[u].at \in {"start", "verify", "reserve"} =>
                    upload[u].at \in {"start", "verify", "reserve"},
               upload'[u].at \in {"insert", "enqueue", "accepted"} =>
                    upload[u].at \in {"insert", "enqueue", "accepted"} \/ ~upload[u].reserved
        PROVE  QuotaKept'
    <2>1. Slots' \subseteq Slots /\ Within' \subseteq Within
      BY <1>1 DEF Slots, Within
    <2>2. \A v \in Uploads : upload'[v].at \in {"start", "verify", "reserve"} => ~upload'[v].reserved
      BY <1>1 DEF QuotaKept
    <2>. QED  BY <1>1, <2>1, <2>2, QuotaUntouched
  <1>2. ASSUME NEW u \in Uploads, NEW place, Goto(u, place), used' = used,
               place \in {"start", "verify", "reserve"} => upload[u].at \in {"start", "verify", "reserve"},
               place \in {"insert", "enqueue", "accepted"} =>
                    upload[u].at \in {"insert", "enqueue", "accepted"} \/ ~upload[u].reserved
        PROVE  QuotaKept'
    <2>1. /\ upload'[u].at = place /\ upload'[u].reserved = upload[u].reserved
          /\ \A v \in Uploads \ {u} : upload'[v] = upload[v]
      BY <1>0, <1>2 DEF Goto, UploadRow
    <2>. QED  BY <1>1, <1>2, <2>1
  <1>3. ASSUME NEW u \in Uploads, StoreUpload(u) \/ VerifyUpload(u) PROVE QuotaKept'
    <2>1. PICK place \in {"reserve", "ended"} : Goto(u, place)
      BY <1>3 DEF StoreUpload, VerifyUpload
    <2>2. used' = used /\ upload[u].at \in {"start", "verify"}
      BY <1>3 DEF StoreUpload, VerifyUpload
    <2>. QED  BY <1>2, <2>1, <2>2
  <1>4. ASSUME NEW u \in Uploads, LookupConfirmed(u) PROVE QuotaKept'
    <2>1. /\ upload'[u].at \in {"ended", "verify"} /\ upload'[u].reserved = upload[u].reserved
          /\ \A v \in Uploads \ {u} : upload'[v] = upload[v]
          /\ upload[u].at = "start" /\ used' = used
      BY <1>0, <1>4 DEF LookupConfirmed, UploadRow
    <2>. QED  BY <1>1, <2>1
  <1>5. ASSUME NEW u \in Uploads, Reserve(u) PROVE QuotaKept'
    <2>1. CASE ReserveSlot(u)
      BY <1>5, <2>1, QuotaReserved DEF Reserve
    <2>2. CASE used' = used /\ Goto(u, "insert")
      <3>1. upload[u].at = "reserve" /\ ~upload[u].reserved
        BY <1>5 DEF Reserve, QuotaKept
      <3>. QED  BY <1>2, <2>2, <3>1
    <2>. QED  BY <1>5, <2>1, <2>2 DEF Reserve
  <1>6. ASSUME NEW u \in Uploads, Cleanup(u) \/ CreateDuplicate(u) \/ EnqueueUploadError(u) PROVE QuotaKept'
    <2>1. Refund(u) /\ upload' = [upload EXCEPT ![u].at = "ended", ![u].reserved = FALSE]
      BY <1>6 DEF Cleanup, CreateDuplicate, EnqueueUploadError
    <2>. QED  BY <2>1, QuotaRefunded
  <1>7. ASSUME NEW u \in Uploads, CreateMoment(u) PROVE QuotaKept'
    <2>1. /\ upload'[u].at = "enqueue" /\ upload'[u].reserved = upload[u].reserved
          /\ \A v \in Uploads \ {u} : upload'[v] = upload[v]
          /\ upload[u].at = "insert" /\ used' = used
      BY <1>0, <1>7 DEF CreateMoment, UploadRow
    <2>. QED  BY <1>1, <2>1
  <1>8. ASSUME NEW u \in Uploads, CreateError(u) \/ UploadCrash(u) PROVE QuotaKept'
    <2>1. PICK place \in {"cleanup", "ended"} : Goto(u, place)
      BY <1>8 DEF CreateError, UploadCrash
    <2>2. used' = used
      BY <1>8 DEF CreateError, UploadCrash
    <2>. QED  BY <1>2, <2>1, <2>2
  <1>9. ASSUME NEW u \in Uploads, EnqueueUpload(u) PROVE QuotaKept'
    <2>1. Goto(u, "accepted") /\ used' = used /\ upload[u].at = "enqueue"
      BY <1>9 DEF EnqueueUpload
    <2>. QED  BY <1>2, <2>1
  <1>10. CASE UNCHANGED <<used, upload>>
    BY <1>10 DEF QuotaKept, Slots, Within
  <1>. QED
    BY <1>3, <1>4, <1>5, <1>6, <1>7, <1>8, <1>9, <1>10
       DEF MomentsNext, Optimise, Callback, CallbackDeleted, PurgeCheck, PurgeDelete, BulkUpdateApproval,
           CreateByStaff, StaffRead, EditMoment, StaffBegin, StaffBeginError, DeleteMoment, momentVars
-----------------------------------------------------------------------------
MomentsInv == MomentsTypeOK /\ JobsNumbered /\ RowsEarned /\ OutputsKept /\ QuotaKept

\* The invariant of the uploads, the media jobs and the purges.
LEMMA MomentsInvariant == MomentsSpec => []MomentsInv
  <1>1. ASSUME MomentsInit PROVE MomentsInv
    <2>0. /\ moment = [m \in Ids |-> NoMoment] /\ used = 0
          /\ upload = [u \in Uploads |-> [at |-> "start", key |-> NewKey[u], id |-> NoId, reserved |-> FALSE]]
          /\ staff = [s \in Staff |-> [Reading EXCEPT !.op = "none"]]
          /\ queue = {} /\ finished = {} /\ purges = {}
      BY <1>1 DEF MomentsInit, MomentsInitWith
    <2>1. IsFiniteSet(queue) /\ Cardinality(queue) = 0
      BY <2>0, FS_EmptySet
    <2>2. /\ upload \in [Uploads -> UploadRow] /\ \A u \in Uploads : upload[u].at = "start" /\ ~upload[u].reserved
      BY <2>0, MomentsAssumption DEF UploadRow
    <2>3. staff \in [Staff -> StaffRow] /\ \A s \in Staff : staff[s].op \notin Operations
      <3>1. [Reading EXCEPT !.op = "none"] \in StaffRow /\ [Reading EXCEPT !.op = "none"].op = "none"
        BY FreshRows DEF Reading, StaffRow
      <3>2. "none" \notin Operations
        BY DEF Operations
      <3>. QED  BY <2>0, <3>1, <3>2
    <2>4. MomentsTypeOK
      BY <2>0, <2>1, <2>2, <2>3, FreshRows DEF MomentsTypeOK
    <2>5. JobsNumbered /\ OutputsKept
      BY <2>0 DEF JobsNumbered, OutputsKept
    <2>6. RowsEarned
      BY <2>0, <2>3 DEF RowsEarned, Earned, NoMoment, Own
    <2>7. Slots = {} /\ Within = {}
      BY <2>2 DEF Slots, Within
    <2>8. QuotaKept
      BY <2>0, <2>2, <2>7, FS_EmptySet, MomentsAssumption DEF QuotaKept
    <2>. QED  BY <2>4, <2>5, <2>6, <2>8 DEF MomentsInv
  <1>2. MomentsInv /\ [MomentsNext]_momentVars => MomentsInv'
    <2>. SUFFICES ASSUME MomentsInv, [MomentsNext]_momentVars PROVE MomentsInv'
      OBVIOUS
    <2>1. MomentsTypeOK'
      BY SlotCounted, MomentsTypes DEF MomentsInv
    <2>. QED  BY <2>1, JobsStep, EarnedStep, OutputsStep, QuotaStep DEF MomentsInv
  <1>. QED  BY <1>1, <1>2, PTL DEF MomentsSpec

\* A processed moment on the wall is never one whose object is gone or still the private raw
\* upload, unless staff named that object in a moment of their own, and one that was not
\* processed shows what staff created it with (ListApprovedForWall, PurgeMomentObjects).
THEOREM MomentsWallServes == MomentsSpec => []WallServes
  <1>1. MomentsInv => WallServes
    <2>. SUFFICES ASSUME MomentsInv, NEW m \in Ids, OnWall(m)
                  PROVE  IF moment[m].status = "done"
                         THEN moment[m].url = Opt(m) /\ (Opt(m) \in store \/ Opt(m) \in Named)
                         ELSE \E row \in MadeByStaff(m) : moment[m].url = row.url
      BY DEF WallServes
    <2>1. /\ Earned(m, moment[m], queue, finished, Made) /\ moment[m].live = "live"
          /\ moment[m].status \in {"", "done"}
      BY DEF MomentsInv, RowsEarned, OnWall, Live
    <2>2. CASE moment[m].status = "done"
      <3>1. PICK j \in queue : j.id = m /\ j.job \in finished
        BY <2>1, <2>2 DEF Earned
      <3>2. Opt(m) \in store \/ Spared(m)
        BY <3>1 DEF MomentsInv, OutputsKept
      <3>3. Opt(m) \in store \/ Opt(m) \in Named
        BY <2>1, <3>2 DEF Spared, Made, Named
      <3>. QED  BY <2>1, <2>2, <3>3 DEF Earned
    <2>3. CASE moment[m].status = ""
      <3>1. PICK c \in Made : c.id = m /\ moment[m].url = c.row.url
        BY <2>1, <2>3 DEF Earned
      <3>2. c.row \in MadeByStaff(m)
        BY <3>1 DEF Made, MadeByStaff
      <3>. QED  BY <2>3, <3>1, <3>2
    <2>. QED  BY <2>1, <2>2, <2>3
  <1>. QED  BY <1>1, MomentsInvariant, PTL

\* A moment is done only if the worker finished the very job its row names
\* (ApplyMediaProcessingCallback).
THEOREM MomentsDoneIsEarned == MomentsSpec => []DoneIsEarned
  <1>1. MomentsInv => DoneIsEarned
    BY DEF MomentsInv, RowsEarned, Earned, DoneIsEarned
  <1>. QED  BY <1>1, MomentsInvariant, PTL

\* Uploads accepted against the quota stay within it (checkAndIncrementUploadLimit).
THEOREM MomentsUploadLimit == MomentsSpec => []UploadLimit
  <1>1. MomentsInv => UploadLimit
    <2>. SUFFICES ASSUME MomentsInv PROVE UploadLimit
      OBVIOUS
    <2>. DEFINE Accepted == {u \in Uploads : upload[u].at = "accepted" /\ upload[u].reserved}
    <2>1. IsFiniteSet(Within) /\ Accepted \subseteq Within
      BY MomentsAssumption, FS_Subset DEF Within
    <2>2. Cardinality(Accepted) <= Cardinality(Within) /\ Cardinality(Accepted) \in Nat /\ Cardinality(Within) \in Nat
      BY <2>1, FS_Subset, FS_CardinalityType
    <2>3. Cardinality(Within) <= MaxUploads /\ MaxUploads \in Nat
      BY MomentsAssumption DEF MomentsInv, QuotaKept
    <2>. QED  BY <2>2, <2>3 DEF UploadLimit
  <1>. QED  BY <1>1, MomentsInvariant, PTL
=============================================================================
