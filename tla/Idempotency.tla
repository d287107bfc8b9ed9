---------------------------- MODULE Idempotency ----------------------------
(***************************************************************************)
(* The idempotency middleware: middleware/idempotency/idempotency.go.      *)
(*                                                                         *)
(* A client sends one mutation, and retries of it, under an                *)
(* Idempotency-Key; each attempt is an HTTP request served by some replica.*)
(* Attempts of different tenants, actors, routes or keys never meet: the   *)
(* model is of one such scope, hence of one row of idempotency_records.    *)
(* Every statement commits on its own, so attempts interleave between any  *)
(* two of them.  Requests without a key pass the middleware untouched, and *)
(* requests it turns away before it touches the row change nothing; both   *)
(* are left out.                                                           *)
(***************************************************************************)
EXTENDS Naturals

CONSTANTS
    Attempts,    \* requests with the key, the first one and its retries
    HashOf,      \* HashOf[a]: the hash of query and body
    Nobody,
    StaleAfter,  \* staleAfter
    RecordTTL,   \* recordTTL
    Prompt,      \* TRUE: no request spends more than StaleAfter in the middleware
    MaxTime      \* bound: the clock

ASSUME AttemptAssumption == Nobody \notin Attempts
ASSUME ClockAssumption ==
    /\ StaleAfter \in Nat /\ RecordTTL \in Nat /\ StaleAfter <= RecordTTL
    /\ MaxTime \in Nat /\ Prompt \in BOOLEAN

VARIABLES
    record,  \* the row; its state is "none" while there is none
    pc,      \* pc[a]: where attempt a is, or how it ended
    at,      \* at[a]: the clock when a entered the middleware
    row,     \* row[a]: id of the row a reserved or found: the attempt that made it
    since,   \* since[a]: updated_at of the stale row a found
    reply,   \* reply[a]: the attempt whose response a was answered with
    done,    \* attempts whose controller performed the mutation
    clock

vars == <<record, pc, at, row, since, reply, done, clock>>

Serving == {"handler", "finalize", "release"}
InFlight == {"insert", "lookup", "takeover"} \cup Serving
Lost == {"unstored", "crashed"}
Places == {"idle", "stored", "failed", "refused", "replayed"} \cup InFlight \cup Lost

Hashes == {HashOf[a] : a \in Attempts}
NoRow == [state |-> "none", id |-> Nobody, hash |-> Nobody, reply |-> Nobody,
          updated |-> 0, expires |-> 0]

Init ==
    /\ record = NoRow
    /\ pc = [a \in Attempts |-> "idle"]
    /\ at = [a \in Attempts |-> 0]
    /\ row = [a \in Attempts |-> Nobody]
    /\ since = [a \in Attempts |-> 0]
    /\ reply = [a \in Attempts |-> Nobody]
    /\ done = {}
    /\ clock = 0

Goto(a, place) == pc' = [pc EXCEPT ![a] = place]

-----------------------------------------------------------------------------
(* reserve                                                                 *)

\* The attempt reads the clock and deletes what has expired; an error of the
\* deletion is ignored.
Purge(a) ==
    /\ pc[a] = "idle"
    /\ at' = [at EXCEPT ![a] = clock]
    /\ record' \in {record} \cup (IF record.state # "none" /\ record.expires < clock
                                  THEN {NoRow} ELSE {})
    /\ Goto(a, "insert")
    /\ UNCHANGED <<row, since, reply, done, clock>>

Inserted(a) ==
    [state |-> "processing", id |-> a, hash |-> HashOf[a], reply |-> Nobody,
     updated |-> clock, expires |-> at[a] + RecordTTL]

\* INSERT ... ON CONFLICT DO NOTHING
Insert(a) ==
    /\ pc[a] = "insert"
    /\ IF record.state = "none"
       THEN record' = Inserted(a) /\ row' = [row EXCEPT ![a] = a] /\ Goto(a, "handler")
       ELSE Goto(a, "lookup") /\ UNCHANGED <<record, row>>
    /\ UNCHANGED <<at, since, reply, done, clock>>

StaleAtOnce(a) == record.state = "processing" /\ record.hash = HashOf[a]

\* The row of an attempt that has not been heard of for too long.
Stale(a) ==
    /\ record.state = "processing" /\ record.hash = HashOf[a]
    /\ record.updated + StaleAfter < at[a]

ReplayableAnyBody(a) == record.state = "completed"

Replayable(a) == record.state = "completed" /\ record.hash = HashOf[a]

\* The row that was in the way: it is taken over, replayed, or the request is
\* refused (another body, still in progress, or the row is gone).
Lookup(a) ==
    /\ pc[a] = "lookup"
    /\ \/ /\ Stale(a)
          /\ row' = [row EXCEPT ![a] = record.id]
          /\ since' = [since EXCEPT ![a] = record.updated]
          /\ Goto(a, "takeover") /\ UNCHANGED reply
       \/ /\ Replayable(a)
          /\ reply' = [reply EXCEPT ![a] = record.reply]
          /\ Goto(a, "replayed") /\ UNCHANGED <<row, since>>
       \/ /\ ~Stale(a) /\ ~Replayable(a)
          /\ Goto(a, "refused") /\ UNCHANGED <<row, since, reply>>
    /\ UNCHANGED <<record, at, done, clock>>

SameRow(a) == record.state # "none" /\ record.id = row[a]

\* Nobody touched the row since a read it.
Untouched(a) ==
    /\ record.state = "processing" /\ record.id = row[a]
    /\ record.updated = since[a]

TakenOver(a) == [record EXCEPT !.updated = at[a], !.expires = at[a] + RecordTTL]

Takeover(a) ==
    /\ pc[a] = "takeover"
    /\ IF Untouched(a)
       THEN record' = TakenOver(a) /\ Goto(a, "handler")
       ELSE Goto(a, "refused") /\ UNCHANGED record
    /\ UNCHANGED <<at, row, since, reply, done, clock>>

\* A statement of reserve fails, perhaps after it took effect.
ReserveError(a) ==
    /\ pc[a] \in {"insert", "lookup", "takeover"}
    /\ record' \in {record}
         \cup (IF pc[a] = "insert" /\ record.state = "none" THEN {Inserted(a)} ELSE {})
         \cup (IF pc[a] = "takeover" /\ Untouched(a) THEN {TakenOver(a)} ELSE {})
    /\ Goto(a, "refused")
    /\ UNCHANGED <<at, row, since, reply, done, clock>>

-----------------------------------------------------------------------------
(* CriticalMutations, once the row is reserved                             *)

\* The controller answers: with success, or with an error.  A response too
\* large to be replayed is not recorded.
Handle(a) ==
    /\ pc[a] = "handler"
    /\ \/ done' = done \cup {a} /\ \E place \in {"finalize", "unstored"} : Goto(a, place)
       \/ Goto(a, "release") /\ UNCHANGED done
    /\ UNCHANGED <<record, at, row, since, reply, clock>>

CompletedUnderOldName(a) ==
    [record EXCEPT !.state = "succeeded", !.reply = a, !.updated = clock,
                   !.expires = clock + RecordTTL]

Completed(a) ==
    [record EXCEPT !.state = "completed", !.reply = a, !.updated = clock,
                   !.expires = clock + RecordTTL]

\* finalize: an update by id, lost when it fails three times.
Finalize(a) ==
    /\ pc[a] = "finalize"
    /\ \/ SameRow(a) /\ record' = Completed(a) /\ Goto(a, "stored")
       \/ Goto(a, "unstored") /\ UNCHANGED record
    /\ UNCHANGED <<at, row, since, reply, done, clock>>

\* After an error the row is deleted, by id; an error of that is ignored.
Release(a) ==
    /\ pc[a] = "release"
    /\ record' \in {record} \cup (IF SameRow(a) THEN {NoRow} ELSE {})
    /\ Goto(a, "failed")
    /\ UNCHANGED <<at, row, since, reply, done, clock>>

\* The replica dies or the controller panics.
Crash(a) ==
    /\ pc[a] \in Serving
    /\ Goto(a, "crashed")
    /\ done' \in {done} \cup (IF pc[a] = "handler" THEN {done \cup {a}} ELSE {})
    /\ UNCHANGED <<record, at, row, since, reply, clock>>

Tick ==
    /\ clock < MaxTime
    /\ Prompt => \A a \in Attempts : pc[a] \in InFlight => clock < at[a] + StaleAfter
    /\ clock' = clock + 1
    /\ UNCHANGED <<record, pc, at, row, since, reply, done>>

Serve(a) ==
    \/ Purge(a) \/ Insert(a) \/ Lookup(a) \/ Takeover(a) \/ ReserveError(a)
    \/ Handle(a) \/ Finalize(a) \/ Release(a) \/ Crash(a)

Next == (\E a \in Attempts : Serve(a)) \/ Tick

Spec == Init /\ [][Next]_vars

-----------------------------------------------------------------------------
Row == [state : {"processing", "completed"}, id : Attempts, hash : Hashes,
        reply : Attempts \cup {Nobody}, updated : Nat, expires : Nat]

\* The row and the attempts have their types.
TypeOK ==
    /\ record \in {NoRow} \cup Row
    /\ pc \in [Attempts -> Places]
    /\ at \in [Attempts -> Nat] /\ since \in [Attempts -> Nat]
    /\ row \in [Attempts -> Attempts \cup {Nobody}]
    /\ reply \in [Attempts -> Attempts \cup {Nobody}]
    /\ done \subseteq Attempts /\ clock \in Nat

\* A replayed response answers the same request: an attempt with the same
\* query and body performed the mutation and gave that response.
ReplayFaithful ==
    \A a \in Attempts : pc[a] = "replayed" =>
       reply[a] \in done /\ HashOf[reply[a]] = HashOf[a]

\* The record of an attempt is still good.
Fresh(a) == clock <= at[a] + RecordTTL

\* Under one key the mutation is performed twice only if the outcome of one of
\* the two was lost: its replica died, or its response was not recorded.
AtMostOnce ==
    \A a, b \in done : a # b /\ Fresh(a) /\ Fresh(b) => {pc[a], pc[b]} \cap Lost # {}

Invoked(a) == pc[a] # "handler" /\ pc'[a] = "handler"

\* "Successful responses are replayed without invoking the controller again."
SuccessReplayed ==
    [][\A a, b \in Attempts : pc[b] = "stored" /\ Fresh(b) => ~Invoked(a)]_vars
=============================================================================
