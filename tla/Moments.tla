------------------------------ MODULE Moments ------------------------------
(***************************************************************************)
(* Moments: uploads of guests, their media jobs, moderation and deletion.  *)
(*   controllers/moments/{public_moments,moments,upload_quota}.go          *)
(*   services/moments, repositories/momentrepository                       *)
(*                                                                         *)
(* One guest of one event uploads photos against a quota kept in Redis.    *)
(* An upload is direct (the API stores the file) or presigned (the client  *)
(* stored it and confirms, perhaps twice).  A moment row is created and a  *)
(* media job handed to the worker through the outbox, in one transaction.  *)
(* The worker optimises the object and calls back; staff create, edit,     *)
(* requeue, reoptimise and delete moments meanwhile.  Every request holds  *)
(* what it read between its statements.                                    *)
(***************************************************************************)
EXTENDS Naturals, FiniteSets

CONSTANTS
    Ids,         \* ids of moment rows, in the order they are created
    Keys,        \* raw object keys
    Uploads,     \* upload requests
    Presigned,   \* raw keys of files the client stored through a presigned URL
    NewKey,      \* NewKey[u]: the raw key given to a file the request carries itself
    Staff,       \* requests of the dashboard, each used once
    Typed,       \* bound: the object keys staff create moments with
    MaxUploads,  \* effectiveMaxUploads
    MaxJobs,     \* bound: media jobs of one moment
    NoId, NoJob, NoObject

Raw(k) == <<"raw", k>>
Opt(m) == <<"opt", m>>
Objects == {Raw(k) : k \in Keys} \cup {Opt(m) : m \in Ids}

ASSUME MomentsAssumption ==
    /\ Ids \subseteq Nat /\ IsFiniteSet(Uploads) /\ NoObject \notin Objects
    /\ NewKey \in [Uploads -> Keys \ Presigned] /\ Presigned \subseteq Keys
    /\ Typed \subseteq Objects \cup {NoObject}
    /\ MaxUploads \in Nat /\ MaxJobs \in Nat /\ NoJob = 0

VARIABLES
    moment,   \* moment[m]: the row
    store,    \* objects in the bucket
    used,     \* the guest's upload counter
    upload,   \* upload[u]: step of the request, its key and row, whether it holds a quota slot
    staff,    \* staff[s]: operation in flight and the row it read; history: the row it created
    queue,    \* media jobs handed to the worker: delivered at least once, in any order
    finished, \* jobs whose output the worker has stored
    purges    \* purges scheduled or checked

momentVars == <<moment, store, used, upload, staff, queue, finished, purges>>

NoMoment == [live |-> "none", url |-> NoObject, input |-> NoObject, status |-> "pending",
             gen |-> 0, job |-> NoJob, approved |-> FALSE]
Reading == [op |-> "none", id |-> NoId, row |-> NoMoment]

\* The requests of U and S may come; the others never do.
MomentsInitWith(U, S) ==
    /\ moment = [m \in Ids |-> NoMoment]
    /\ store = {Raw(k) : k \in Presigned}
    /\ used = 0
    /\ upload = [u \in Uploads |-> [at |-> IF u \in U THEN "start" ELSE "ended",
                                   key |-> NewKey[u], id |-> NoId, reserved |-> FALSE]]
    /\ staff = [s \in Staff |-> [Reading EXCEPT !.op = IF s \in S THEN "none" ELSE "done"]]
    /\ queue = {} /\ finished = {} /\ purges = {}
MomentsInit == MomentsInitWith(Uploads, Staff)

Live(m) == moment[m].live = "live"
Goto(u, place) == upload' = [upload EXCEPT ![u].at = place]
---------------------------------------------------------------------------
(* Uploads. *)

\* findConfirmedMoment: the live moment of an upload key, raw or already processed.
Confirmed(k) == {m \in Ids : Live(m) /\ Raw(k) \in {moment[m].url, moment[m].input}}

\* A direct upload: the slots are looked at, then the file is stored.
StoreUpload(u) ==
    /\ upload[u].at = "start"
    /\ IF used < MaxUploads
       THEN store' = store \cup {Raw(upload[u].key)} /\ Goto(u, "reserve")
       ELSE store' = store /\ Goto(u, "ended")
    /\ UNCHANGED <<moment, used, staff, queue, finished, purges>>

\* A confirmation that finds the moment of its key answers with it.
LookupConfirmed(u) ==
    /\ upload[u].at = "start"
    /\ \E k \in Presigned :
          upload' = [upload EXCEPT ![u].key = k,
                                   ![u].at = IF Confirmed(k) # {} THEN "ended" ELSE "verify"]
    /\ UNCHANGED <<moment, store, used, staff, queue, finished, purges>>

\* VerifyMomentUploadSize asks the bucket; a missing, unreadable or wrong object is
\* removed and the upload refused.
VerifyUpload(u) ==
    /\ upload[u].at = "verify"
    /\ \/ Raw(upload[u].key) \in store /\ Goto(u, "reserve") /\ UNCHANGED store
       \/ Goto(u, "ended") /\ store' = store \ {Raw(upload[u].key)}
    /\ UNCHANGED <<moment, used, staff, queue, finished, purges>>

\* Fault: the counter is raised and not compared.
ReserveLate(u) ==
    /\ used' = used + 1
    /\ upload' = [upload EXCEPT ![u].reserved = TRUE, ![u].at = "insert"]

\* checkAndIncrementUploadLimit: INCR first, then compare.
ReserveSlot(u) ==
    /\ used' = used + 1
    /\ upload' = [upload EXCEPT ![u].reserved = TRUE,
                                ![u].at = IF used + 1 > MaxUploads THEN "cleanup" ELSE "insert"]

\* When Redis fails the upload is let through without a slot.
Reserve(u) ==
    /\ upload[u].at = "reserve"
    /\ \/ ReserveSlot(u)
       \/ used' = used /\ Goto(u, "insert")
    /\ UNCHANGED <<moment, store, staff, queue, finished, purges>>

\* rollbackUploadLimit, for a request that holds a slot; Redis may fail.
Refund(u) ==
    used' \in IF upload[u].reserved THEN {used - 1, used} ELSE {used}

\* cleanupMomentUpload deletes the object, then gives the slot back.
Cleanup(u) ==
    /\ upload[u].at = "cleanup"
    /\ store' = store \ {Raw(upload[u].key)}
    /\ Refund(u)
    /\ upload' = [upload EXCEPT ![u].at = "ended", ![u].reserved = FALSE]
    /\ UNCHANGED <<moment, staff, queue, finished, purges>>

\* uidx_moments_event_content_url_live: the live moments of an event name different objects.
ContentTaken(k) == \E m \in Ids : Live(m) /\ moment[m].url = Raw(k)
Free(m, url) == url = NoObject \/ \A n \in Ids \ {m} : ~(Live(n) /\ moment[n].url = url)

NextIds == {m \in Ids : \A n \in Ids : (moment[n].live = "none") <=> (n >= m)}

\* CreateMoment; the event may approve uploads by itself.
CreateMoment(u) ==
    /\ upload[u].at = "insert" /\ ~ContentTaken(upload[u].key)
    /\ \E m \in NextIds, approved \in BOOLEAN :
          /\ moment' = [moment EXCEPT ![m] = [NoMoment EXCEPT !.live = "live",
                            !.url = Raw(upload[u].key), !.approved = approved]]
          /\ upload' = [upload EXCEPT ![u].at = "enqueue", ![u].id = m]
    /\ UNCHANGED <<store, used, staff, queue, finished, purges>>

\* ErrDuplicateMomentContent: the other request's object and moment stand.
CreateDuplicate(u) ==
    /\ upload[u].at = "insert" /\ ContentTaken(upload[u].key)
    /\ Refund(u)
    /\ upload' = [upload EXCEPT ![u].at = "ended", ![u].reserved = FALSE]
    /\ UNCHANGED <<moment, store, staff, queue, finished, purges>>

\* Any other error of the insert undoes the upload.
CreateError(u) ==
    /\ upload[u].at = "insert" /\ Goto(u, "cleanup")
    /\ UNCHANGED <<moment, store, used, staff, queue, finished, purges>>

NextJob == Cardinality(queue) + 1

\* beginMediaProcessingJob with the outbox event, one transaction.  The row must be
\* live; its generation is compared and swapped, so concurrent calls serialise.
BeginJob(m, input) ==
    /\ Live(m) /\ moment[m].gen < MaxJobs
    /\ queue' = queue \cup {[job |-> NextJob, id |-> m, gen |-> moment[m].gen + 1, input |-> input]}
    /\ moment' = [moment EXCEPT ![m].gen = @ + 1, ![m].job = NextJob,
                                ![m].input = input, ![m].status = "pending"]

\* Fault: a callback is matched by the state of the row alone.
CurrentStatusOnly(m, row, statuses) == Live(m) /\ moment[m].status \in statuses

\* ApplyMediaProcessingUpdate: a compare-and-swap on job, generation and status, which the
\* unique index may refuse.
Current(m, row, statuses) ==
    /\ Live(m) /\ moment[m].gen = row.gen /\ moment[m].job = row.job
    /\ moment[m].status \in statuses
Applied(m, row, statuses, url, status) ==
    moment' = IF Current(m, row, statuses) /\ Free(m, url)
              THEN [moment EXCEPT ![m].url = url, ![m].status = status]
              ELSE moment

EnqueueUpload(u) ==
    /\ upload[u].at = "enqueue"
    /\ BeginJob(upload[u].id, Raw(upload[u].key))
    /\ Goto(u, "accepted")
    /\ UNCHANGED <<store, used, staff, finished, purges>>

\* The transaction failed: the fresh row is marked failed and the slot given back.
EnqueueUploadError(u) ==
    /\ upload[u].at = "enqueue"
    /\ Applied(upload[u].id, NoMoment, {"pending"}, Raw(upload[u].key), "failed")
    /\ Refund(u)
    /\ upload' = [upload EXCEPT ![u].at = "ended", ![u].reserved = FALSE]
    /\ UNCHANGED <<store, staff, queue, finished, purges>>

Underway == {"verify", "reserve", "cleanup", "insert", "enqueue"}
UploadCrash(u) ==
    /\ upload[u].at \in Underway /\ Goto(u, "ended")
    /\ UNCHANGED <<moment, store, used, staff, queue, finished, purges>>
---------------------------------------------------------------------------
(* The media worker (external) and its callbacks. *)

\* The worker reads the input of a job and writes the optimised object.
Optimise(j) ==
    /\ j.input \in store
    /\ store' = store \cup {Opt(j.id)} /\ finished' = finished \cup {j.job}
    /\ UNCHANGED <<moment, used, upload, staff, queue, purges>>

Unfinished == {"pending", "processing"}

\* ApplyMediaProcessingCallback on a live moment: the identity, the keys and the state
\* are checked on the row read, and again by the compare-and-swap.
Callback(j, status) ==
    /\ status = "done" => j.job \in finished
    /\ Current(j.id, j, Unfinished)
    /\ Applied(j.id, j, Unfinished, IF status = "done" THEN Opt(j.id) ELSE j.input, status)
    /\ UNCHANGED <<store, used, upload, staff, queue, finished, purges>>

PurgeOf(m, row, extra) ==
    [id |-> m, keys |-> ({row.url, row.input} \cup extra) \cap Objects, checked |-> FALSE]

\* A callback for a deleted moment removes what the job wrote.
CallbackDeleted(j) ==
    /\ moment[j.id].live = "gone"
    /\ purges' = purges \cup {PurgeOf(j.id, moment[j.id],
                                 IF j.job \in finished THEN {Opt(j.id)} ELSE {j.input})}
    /\ UNCHANGED <<moment, store, used, upload, staff, queue, finished>>

\* PurgeMomentObjects asks which keys other live moments use, then deletes the rest.
Referenced(m) == UNION {{moment[n].url, moment[n].input} : n \in {i \in Ids \ {m} : Live(i)}}
PurgeCheck(p) ==
    /\ ~p.checked
    /\ purges' = (purges \ {p}) \cup {[p EXCEPT !.checked = TRUE, !.keys = @ \ Referenced(p.id)]}
    /\ UNCHANGED <<moment, store, used, upload, staff, queue, finished>>
\* Each deletion may fail, and is not repeated.
PurgeDelete(p) ==
    /\ p.checked
    /\ purges' = purges \ {p}
    /\ \E gone \in SUBSET p.keys : store' = store \ gone
    /\ UNCHANGED <<moment, used, upload, staff, queue, finished>>
---------------------------------------------------------------------------
(* The dashboard.  RequireMomentCapability loads the row, the handler works on it. *)

Operations == {"edit", "requeue", "reoptimise", "delete"}
IsRaw(object) == object \in {Raw(k) : k \in Keys}

\* RequeueMoment wants a raw object, BatchReoptimize an optimised and settled one.
Offered(op, row) ==
    CASE op = "requeue" -> IsRaw(row.url)
      [] op = "reoptimise" -> row.status \in {"done", "failed"} /\ ~IsRaw(row.url)
      [] OTHER -> TRUE

\* POST /moments stores a row that was not processed under any object key of the event, or
\* none; whether the object is there is not asked.
CreateByStaff(s) ==
    /\ staff[s].op = "none"
    /\ \E m \in NextIds, url \in Typed, approved \in BOOLEAN :
          LET row == [NoMoment EXCEPT !.live = "live", !.url = url, !.status = "", !.approved = approved]
          IN  /\ Free(m, url)
              /\ moment' = [moment EXCEPT ![m] = row]
              /\ staff' = [staff EXCEPT ![s] = [op |-> "created", id |-> m, row |-> row]]
    /\ UNCHANGED <<store, used, upload, queue, finished, purges>>

StaffRead(s) ==
    /\ staff[s].op = "none"
    /\ \E m \in Ids, op \in Operations :
          /\ Live(m) /\ Offered(op, moment[m])
          /\ staff' = [staff EXCEPT ![s] = [op |-> op, id |-> m, row |-> moment[m]]]
    /\ UNCHANGED <<moment, store, used, upload, queue, finished, purges>>

StaffDone(s) == staff' = [staff EXCEPT ![s].op = "done", ![s].row = NoMoment]

\* Fault: the write does not ask whether the row is still there.
EditAnyRow(s, m) ==
    \E approved \in BOOLEAN : moment' = [moment EXCEPT ![m] = [staff[s].row EXCEPT !.approved = approved]]

\* PUT /moments/:id writes back every column it read.  A deleted row is not matched, and
\* the unique index may refuse the key it had.
EditRow(s, m) ==
    \E approved \in BOOLEAN :
        moment' = IF Live(m) /\ Free(m, staff[s].row.url)
                  THEN [moment EXCEPT ![m] = [staff[s].row EXCEPT !.approved = approved]]
                  ELSE moment
EditMoment(s) ==
    /\ staff[s].op = "edit" /\ EditRow(s, staff[s].id) /\ StaffDone(s)
    /\ UNCHANGED <<store, used, upload, queue, finished, purges>>

\* POST /moments/bulk-approve writes the one column.
BulkUpdateApproval(m) ==
    /\ Live(m)
    /\ moment' = [moment EXCEPT ![m].approved = ~@]
    /\ UNCHANGED <<store, used, upload, staff, queue, finished, purges>>

\* RequeueMoment and BatchReoptimize begin a job on the object of the row they read.
StaffBegin(s) ==
    /\ staff[s].op \in {"requeue", "reoptimise"}
    /\ BeginJob(staff[s].id, staff[s].row.url)
    /\ StaffDone(s)
    /\ UNCHANGED <<store, used, upload, finished, purges>>

\* failMediaProcessingJob or restoreReoptimizationJob, when the job cannot be begun.
StaffBeginError(s) ==
    /\ staff[s].op \in {"requeue", "reoptimise"}
    /\ Applied(staff[s].id, staff[s].row, {"pending"}, staff[s].row.url,
               IF staff[s].op = "requeue" THEN "failed" ELSE staff[s].row.status)
    /\ StaffDone(s)
    /\ UNCHANGED <<store, used, upload, queue, finished, purges>>

\* DeleteMoment and BulkDeleteMoments: the soft delete, then a purge in the background.
DeleteMoment(s) ==
    /\ staff[s].op = "delete"
    /\ moment' = [moment EXCEPT ![staff[s].id].live = "gone"]
    /\ purges' = purges \cup {PurgeOf(staff[s].id, staff[s].row, {})}
    /\ StaffDone(s)
    /\ UNCHANGED <<store, used, upload, queue, finished>>
---------------------------------------------------------------------------
MomentsNext ==
    \/ \E u \in Uploads :
          \/ StoreUpload(u) \/ LookupConfirmed(u) \/ VerifyUpload(u) \/ Reserve(u)
          \/ Cleanup(u) \/ CreateMoment(u) \/ CreateDuplicate(u) \/ CreateError(u)
          \/ EnqueueUpload(u) \/ EnqueueUploadError(u) \/ UploadCrash(u)
    \/ \E j \in queue :
          \/ Optimise(j) \/ CallbackDeleted(j)
          \/ \E status \in {"processing", "done", "failed"} : Callback(j, status)
    \/ \E p \in purges : PurgeCheck(p) \/ PurgeDelete(p)
    \/ \E m \in Ids : BulkUpdateApproval(m)
    \/ \E s \in Staff :
          \/ CreateByStaff(s) \/ StaffRead(s) \/ EditMoment(s) \/ StaffBegin(s) \/ StaffBeginError(s) \/ DeleteMoment(s)

MomentsSpec == MomentsInit /\ [][MomentsNext]_momentVars
---------------------------------------------------------------------------
(* Properties. *)

\* What the public wall lists: approved, and processed or never to be.
OnWall(m) == Live(m) /\ moment[m].approved /\ moment[m].status \in {"", "done"}

\* The row moment m was created with by staff, and the objects staff named so.
MadeByStaff(m) == {staff[s].row : s \in {r \in Staff : staff[r].op = "created" /\ staff[r].id = m}}
Named == {staff[s].row.url : s \in {r \in Staff : staff[r].op = "created"}}

\* A processed moment on the wall is never one whose object is gone or still the private
\* raw upload, whatever purge, late callback or edit runs (ListApprovedForWall,
\* PurgeMomentObjects), unless staff named that object in a moment of their own; and one
\* that was not processed shows what staff created it with, never an upload that waits.
WallServes ==
    \A m \in Ids : OnWall(m) =>
        IF moment[m].status = "done"
        THEN moment[m].url = Opt(m) /\ (Opt(m) \in store \/ Opt(m) \in Named)
        ELSE \E row \in MadeByStaff(m) : moment[m].url = row.url

\* A moment is done only if the worker finished the very job its row names: a callback
\* of a job that was requeued over is refused (ApplyMediaProcessingCallback).
DoneIsEarned == \A m \in Ids : Live(m) /\ moment[m].status = "done" => moment[m].job \in finished

\* Uploads accepted against the quota stay within it, however requests, refunds and
\* crashes interleave (checkAndIncrementUploadLimit, rollbackUploadLimit).
UploadLimit ==
    Cardinality({u \in Uploads : upload[u].at = "accepted" /\ upload[u].reserved}) <= MaxUploads
=============================================================================
