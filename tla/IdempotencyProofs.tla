-------------------------- MODULE IdempotencyProofs --------------------------
(***************************************************************************)
(* The idempotency middleware, for any number of attempts, any bodies and  *)
(* any lengths of the two periods: types, faithful replay and, as long as  *)
(* no request outlives the stale period, at most one success per key.      *)
(***************************************************************************)
EXTENDS Idempotency, TLAPS

USE AttemptAssumption, ClockAssumption DEF Serving, InFlight, Lost, Places

\* The row is of one of the two kinds, and the rows statements write are too.
LEMMA RowTypes ==
    ASSUME TypeOK, NEW a \in Attempts
    PROVE  /\ Inserted(a) \in Row
           /\ record.state # "none" => record \in Row
           /\ record.state # "none" => TakenOver(a) \in Row /\ Completed(a) \in Row
           /\ record.updated \in Nat /\ record.expires \in Nat
  <1>1. at[a] \in Nat /\ clock \in Nat /\ HashOf[a] \in Hashes
    BY DEF TypeOK, Hashes
  <1>2. record.state # "none" => record \in Row
    BY DEF TypeOK, NoRow
  <1>3. record.updated \in Nat /\ record.expires \in Nat
    BY DEF TypeOK, NoRow, Row
  <1>4. Inserted(a) \in Row
    BY <1>1 DEF Inserted, Row
  <1>5. at[a] + RecordTTL \in Nat /\ clock + RecordTTL \in Nat
    BY <1>1
  <1>6. ASSUME record \in Row, NEW u \in Nat, NEW x \in Nat, NEW p \in Attempts
        PROVE  /\ [record EXCEPT !.updated = u, !.expires = x] \in Row
               /\ [record EXCEPT !.state = "completed", !.reply = p, !.updated = u,
                                  !.expires = x] \in Row
    BY <1>6 DEF Row
  <1>. QED  BY <1>1, <1>2, <1>3, <1>4, <1>5, <1>6 DEF TakenOver, Completed

\* What the takeover of a row changes.
LEMMA TakenOverRow ==
    ASSUME TypeOK, NEW a \in Attempts, Untouched(a)
    PROVE  /\ TakenOver(a).state = "processing" /\ TakenOver(a).id = record.id
           /\ TakenOver(a).hash = record.hash /\ TakenOver(a).updated = at[a]
           /\ TakenOver(a).expires = at[a] + RecordTTL /\ record.state = "processing"
  <1>1. record \in Row
    BY RowTypes DEF Untouched
  <1>. QED  BY <1>1 DEF Untouched, TakenOver, Row

\* Every statement writes values of the right type.
LEMMA NextType == TypeOK /\ [Next]_vars => TypeOK'
  <1>. SUFFICES ASSUME TypeOK, [Next]_vars PROVE TypeOK'
    OBVIOUS
  <1>1. ASSUME NEW a \in Attempts, Purge(a) PROVE TypeOK'
    BY <1>1 DEF Purge, Goto, TypeOK
  <1>2. ASSUME NEW a \in Attempts, Insert(a) PROVE TypeOK'
    BY <1>2, RowTypes DEF Insert, Goto, TypeOK
  <1>3. ASSUME NEW a \in Attempts, Lookup(a) PROVE TypeOK'
    <2>1. Stale(a) \/ Replayable(a) => record \in Row
      BY RowTypes DEF Stale, Replayable
    <2>. QED  BY <1>3, <2>1 DEF Lookup, Goto, TypeOK, Row
  <1>4. ASSUME NEW a \in Attempts, Takeover(a) PROVE TypeOK'
    BY <1>4, RowTypes DEF Takeover, Untouched, Goto, TypeOK
  <1>5. ASSUME NEW a \in Attempts, ReserveError(a) PROVE TypeOK'
    BY <1>5, RowTypes DEF ReserveError, Untouched, Goto, TypeOK
  <1>6. ASSUME NEW a \in Attempts, Handle(a) PROVE TypeOK'
    BY <1>6 DEF Handle, Goto, TypeOK
  <1>7. ASSUME NEW a \in Attempts, Finalize(a) PROVE TypeOK'
    BY <1>7, RowTypes DEF Finalize, SameRow, Goto, TypeOK
  <1>8. ASSUME NEW a \in Attempts, Release(a) PROVE TypeOK'
    BY <1>8 DEF Release, Goto, TypeOK
  <1>9. ASSUME NEW a \in Attempts, Crash(a) PROVE TypeOK'
    BY <1>9 DEF Crash, Goto, TypeOK
  <1>10. CASE Tick
    BY <1>10 DEF Tick, TypeOK
  <1>11. CASE UNCHANGED vars
    BY <1>11 DEF vars, TypeOK
  <1>. QED
    BY <1>1, <1>2, <1>3, <1>4, <1>5, <1>6, <1>7, <1>8, <1>9, <1>10, <1>11, Zenon DEF Next, Serve

\* The row and the attempts keep their types.
THEOREM IdempotencyTypeCorrect == Spec => []TypeOK
  <1>1. Init => TypeOK
    BY DEF Init, TypeOK, NoRow
  <1>. QED  BY <1>1, NextType, PTL DEF Spec

-----------------------------------------------------------------------------
(* Faithful replay.                                                        *)

\* The row carries the hash of the attempt that made it, the response of a
\* successful attempt with that hash, and is worked on only by attempts with
\* that hash.
Faithful ==
    /\ record.state # "none" => record.hash = HashOf[record.id]
    /\ record.state = "completed" =>
          record.reply \in done /\ HashOf[record.reply] = record.hash
    /\ \A a \in Attempts : pc[a] \in {"takeover"} \cup Serving =>
          row[a] \in Attempts /\ HashOf[row[a]] = HashOf[a]
    /\ \A a \in Attempts : pc[a] \in {"finalize", "stored"} => a \in done
    /\ ReplayFaithful

\* Every statement keeps the row faithful.
LEMMA NextFaithful == TypeOK /\ Faithful /\ [Next]_vars => Faithful'
  <1>. SUFFICES ASSUME TypeOK, Faithful, [Next]_vars PROVE Faithful'
    OBVIOUS
  <1>0. /\ pc \in [Attempts -> Places] /\ row \in [Attempts -> Attempts \cup {Nobody}]
        /\ reply \in [Attempts -> Attempts \cup {Nobody}]
    BY DEF TypeOK
  <1>. USE <1>0 DEF Faithful, ReplayFaithful, Goto
  <1>1. ASSUME NEW a \in Attempts, Purge(a) PROVE Faithful'
    BY <1>1 DEF Purge, NoRow
  <1>2. ASSUME NEW a \in Attempts, Insert(a) PROVE Faithful'
    BY <1>2 DEF Insert, Inserted
  <1>3. ASSUME NEW a \in Attempts, Lookup(a) PROVE Faithful'
    <2>1. Stale(a) => record.id \in Attempts /\ HashOf[record.id] = HashOf[a]
      BY RowTypes DEF Stale, Row
    <2>2. Replayable(a) => record.reply \in done /\ HashOf[record.reply] = HashOf[a]
      BY DEF Replayable
    <2>3. UNCHANGED <<record, done>>
      BY <1>3 DEF Lookup
    <2>4. CASE /\ Stale(a) /\ row' = [row EXCEPT ![a] = record.id]
               /\ pc' = [pc EXCEPT ![a] = "takeover"] /\ UNCHANGED reply
      BY <2>1, <2>3, <2>4
    <2>5. CASE /\ Replayable(a) /\ reply' = [reply EXCEPT ![a] = record.reply]
               /\ pc' = [pc EXCEPT ![a] = "replayed"] /\ UNCHANGED row
      BY <2>2, <2>3, <2>5
    <2>6. CASE pc' = [pc EXCEPT ![a] = "refused"] /\ UNCHANGED <<row, reply>>
      BY <2>3, <2>6
    <2>. QED  BY <1>3, <2>4, <2>5, <2>6 DEF Lookup
  <1>4. ASSUME NEW a \in Attempts, Takeover(a) PROVE Faithful'
    <2>1. UNCHANGED <<row, reply, done>> /\ pc[a] = "takeover"
          /\ pc' \in {[pc EXCEPT ![a] = "handler"], [pc EXCEPT ![a] = "refused"]}
      BY <1>4 DEF Takeover
    <2>2. record'.state # "none" => record'.hash = HashOf[record'.id]
      BY <1>4, TakenOverRow DEF Takeover
    <2>3. record'.state = "completed" => record' = record
      BY <1>4, TakenOverRow DEF Takeover
    <2>. QED  BY <2>1, <2>2, <2>3
  <1>5. ASSUME NEW a \in Attempts, ReserveError(a) PROVE Faithful'
    <2>1. record' \in {record, Inserted(a)} \/ (Untouched(a) /\ record' = TakenOver(a))
      BY <1>5 DEF ReserveError
    <2>2. pc' = [pc EXCEPT ![a] = "refused"] /\ UNCHANGED <<row, reply, done>>
      BY <1>5 DEF ReserveError
    <2>3. record'.state # "none" => record'.hash = HashOf[record'.id]
      BY <2>1, TakenOverRow DEF Inserted
    <2>4. record'.state = "completed" => record' = record
      BY <2>1, TakenOverRow DEF Inserted
    <2>. QED  BY <2>2, <2>3, <2>4
  <1>6. ASSUME NEW a \in Attempts, Handle(a) PROVE Faithful'
    <2>1. PICK place \in {"finalize", "unstored", "release"} :
             pc' = [pc EXCEPT ![a] = place] /\ (place = "finalize" => a \in done')
      BY <1>6 DEF Handle
    <2>2. done \subseteq done' /\ UNCHANGED <<record, row, reply>> /\ pc[a] = "handler"
      BY <1>6 DEF Handle
    <2>. QED  BY <2>1, <2>2
  <1>7. ASSUME NEW a \in Attempts, Finalize(a) PROVE Faithful'
    <2>1. UNCHANGED <<row, reply, done>> /\ a \in done
          /\ pc' \in {[pc EXCEPT ![a] = "stored"], [pc EXCEPT ![a] = "unstored"]}
      BY <1>7 DEF Finalize
    <2>2. CASE UNCHANGED record
      BY <2>1, <2>2
    <2>3. CASE SameRow(a) /\ record' = Completed(a)
      <3>1. record \in Row /\ record.id = row[a] /\ HashOf[row[a]] = HashOf[a]
        BY <1>7, <2>3, RowTypes DEF SameRow, Finalize
      <3>2. record'.id = record.id /\ record'.hash = record.hash /\ record'.reply = a
            /\ record'.state = "completed"
        BY <2>3, <3>1 DEF Completed, Row
      <3>. QED  BY <2>1, <2>3, <3>1, <3>2 DEF SameRow
    <2>. QED  BY <1>7, <2>2, <2>3 DEF Finalize
  <1>8. ASSUME NEW a \in Attempts, Release(a) PROVE Faithful'
    BY <1>8 DEF Release, NoRow
  <1>9. ASSUME NEW a \in Attempts, Crash(a) PROVE Faithful'
    <2>1. done \subseteq done' /\ UNCHANGED <<record, row, reply>>
          /\ pc' = [pc EXCEPT ![a] = "crashed"]
      BY <1>9 DEF Crash
    <2>. QED  BY <2>1
  <1>10. CASE Tick
    BY <1>10 DEF Tick
  <1>11. CASE UNCHANGED vars
    BY <1>11 DEF vars
  <1>. QED
    BY <1>1, <1>2, <1>3, <1>4, <1>5, <1>6, <1>7, <1>8, <1>9, <1>10, <1>11, Zenon DEF Next, Serve

\* A replay always answers the same query and body with the response of an
\* attempt that performed the mutation, however attempts interleave or stall.
THEOREM IdempotencyReplayFaithful == Spec => []ReplayFaithful
  <1>1. Init => Faithful
    BY DEF Init, Faithful, ReplayFaithful, NoRow
  <1>2. Faithful => ReplayFaithful
    BY DEF Faithful
  <1>. QED  BY <1>1, <1>2, NextFaithful, IdempotencyTypeCorrect, PTL DEF Spec

-----------------------------------------------------------------------------
(* At most one success, as long as no request outlives the stale period.   *)

\* A request in the middleware entered it at most StaleAfter ago, and what it
\* found stale was stale when it entered.
InTime ==
    \A a \in Attempts :
       /\ at[a] <= clock
       /\ pc[a] \in InFlight => clock <= at[a] + StaleAfter
       /\ pc[a] = "takeover" => since[a] + StaleAfter < at[a]

\* The row of an attempt that is being served is its own, and young.
Owned(a) ==
    /\ record.state = "processing" /\ record.id = row[a]
    /\ record.updated >= at[a] /\ record.expires >= at[a] + RecordTTL

\* The row of an attempt whose success was recorded replays it.
Kept(b) ==
    /\ record.state = "completed" /\ record.reply = b
    /\ record.expires >= at[b] + RecordTTL

\* One attempt is served at a time, and none while a recorded success is
\* fresh.
Exclusive ==
    /\ \A a \in Attempts : pc[a] \in Serving => Owned(a)
    /\ \A a, b \in Attempts : pc[a] \in Serving /\ pc[b] \in Serving => a = b
    /\ \A b \in Attempts : pc[b] = "stored" /\ Fresh(b) => Kept(b)
    /\ \A a \in done : pc[a] \in {"finalize", "stored"} \cup Lost

\* Time does not pass a request that is due.
LEMMA NextInTime ==
    ASSUME Prompt PROVE TypeOK /\ InTime /\ [Next]_vars => InTime'
  <1>. SUFFICES ASSUME TypeOK, InTime, [Next]_vars, NEW b \in Attempts
                PROVE  /\ at'[b] <= clock'
                       /\ pc'[b] \in InFlight => clock' <= at'[b] + StaleAfter
                       /\ pc'[b] = "takeover" => since'[b] + StaleAfter < at'[b]
    BY DEF InTime
  <1>0. /\ pc \in [Attempts -> Places] /\ at \in [Attempts -> Nat] /\ since \in [Attempts -> Nat]
        /\ clock \in Nat /\ at[b] <= clock
        /\ pc[b] \in InFlight => clock <= at[b] + StaleAfter
        /\ pc[b] = "takeover" => since[b] + StaleAfter < at[b]
    BY DEF TypeOK, InTime
  <1>1. ASSUME NEW a \in Attempts, Purge(a)
        PROVE  /\ clock' = clock /\ since' = since
               /\ \/ at'[b] = clock /\ pc'[b] = "insert"
                  \/ at'[b] = at[b] /\ pc'[b] = pc[b]
    BY <1>0, <1>1 DEF Purge, Goto
  <1>2. ASSUME NEW a \in Attempts, Lookup(a)
        PROVE  /\ clock' = clock /\ at' = at
               /\ \/ since'[b] = since[b] /\ pc'[b] = pc[b]
                  \/ pc'[b] \notin InFlight
                  \/ /\ pc[b] = "lookup" /\ pc'[b] = "takeover"
                     /\ since'[b] + StaleAfter < at[b]
    BY <1>0, <1>2 DEF Lookup, Goto, Stale
  <1>3. ASSUME NEW a \in Attempts,
               \/ Insert(a) \/ Takeover(a) \/ ReserveError(a) \/ Handle(a)
               \/ Finalize(a) \/ Release(a) \/ Crash(a)
        PROVE  /\ clock' = clock /\ at' = at /\ since' = since
               /\ \/ pc'[b] = pc[b]
                  \/ pc'[b] # "takeover" /\ (pc'[b] \in InFlight => pc[b] \in InFlight)
    BY <1>0, <1>3 DEF Insert, Takeover, ReserveError, Handle, Finalize, Release, Crash, Goto
  <1>4. CASE Tick
    BY <1>0, <1>4 DEF Tick
  <1>5. CASE UNCHANGED vars
    BY <1>0, <1>5 DEF vars
  <1>6. ASSUME NEW a \in Attempts, Serve(a)
        PROVE  /\ at'[b] <= clock'
               /\ pc'[b] \in InFlight => clock' <= at'[b] + StaleAfter
               /\ pc'[b] = "takeover" => since'[b] + StaleAfter < at'[b]
    <2>1. CASE Purge(a)
      BY <1>0, <1>1, <2>1
    <2>2. CASE Lookup(a)
      BY <1>0, <1>2, <2>2
    <2>3. CASE \/ Insert(a) \/ Takeover(a) \/ ReserveError(a) \/ Handle(a)
               \/ Finalize(a) \/ Release(a) \/ Crash(a)
      BY <1>0, <1>3, <2>3
    <2>. QED  BY <1>6, <2>1, <2>2, <2>3 DEF Serve
  <1>. QED  BY <1>4, <1>5, <1>6 DEF Next

\* A row that an attempt finds absent, or stale and untouched, belongs to no
\* attempt that is being served and holds no fresh success.
LEMMA FreeRow ==
    ASSUME TypeOK, InTime, Exclusive, NEW a \in Attempts,
           record.state = "none" \/ (pc[a] = "takeover" /\ Untouched(a))
    PROVE  /\ \A b \in Attempts : pc[b] \notin Serving
           /\ \A b \in Attempts : ~(pc[b] = "stored" /\ Fresh(b))
  <1>1. record.state # "completed"
    BY DEF Untouched
  <1>2. ASSUME NEW b \in Attempts, pc[b] \in Serving PROVE FALSE
    <2>1. Owned(b) /\ clock <= at[b] + StaleAfter /\ at[a] <= clock
      BY <1>2 DEF Exclusive, InTime
    <2>2. pc[a] = "takeover" /\ record.updated = since[a] /\ since[a] + StaleAfter < at[a]
      BY <2>1 DEF Owned, Untouched, InTime
    <2>3. at[a] \in Nat /\ at[b] \in Nat /\ clock \in Nat /\ since[a] \in Nat
      BY DEF TypeOK
    <2>. QED  BY <2>1, <2>2, <2>3 DEF Owned
  <1>. QED  BY <1>1, <1>2 DEF Exclusive, Kept

\* No statement lets a second attempt through.
LEMMA NextExclusive ==
    TypeOK /\ InTime /\ Exclusive /\ [Next]_vars => Exclusive'
  <1>. SUFFICES ASSUME TypeOK, InTime, Exclusive, [Next]_vars PROVE Exclusive'
    OBVIOUS
  <1>0. /\ pc \in [Attempts -> Places] /\ at \in [Attempts -> Nat] /\ clock \in Nat
        /\ row \in [Attempts -> Attempts \cup {Nobody}] /\ done \subseteq Attempts
        /\ \A a \in Attempts : at[a] <= clock
    BY DEF TypeOK, InTime
  <1>1. ASSUME NEW a \in Attempts, Purge(a) PROVE Exclusive'
    <2>1. /\ pc' = [pc EXCEPT ![a] = "insert"] /\ at' = [at EXCEPT ![a] = clock]
          /\ UNCHANGED <<row, done, clock>> /\ pc[a] = "idle"
      BY <1>1 DEF Purge, Goto
    <2>2. CASE record' = record
      BY <1>0, <2>1, <2>2 DEF Exclusive, Owned, Kept, Fresh
    <2>3. CASE record' # record
      <3>1. record.expires < clock
        BY <1>1, <2>3 DEF Purge
      <3>2. \A b \in Attempts : pc[b] \notin Serving
        <4>. SUFFICES ASSUME NEW b \in Attempts, pc[b] \in Serving PROVE FALSE
          OBVIOUS
        <4>1. record.expires >= at[b] + RecordTTL /\ clock <= at[b] + StaleAfter
          BY DEF Exclusive, Owned, InTime
        <4>2. at[b] \in Nat /\ record.expires \in Nat
          BY <1>0, RowTypes
        <4>. QED  BY <1>0, <3>1, <4>1, <4>2
      <3>3. \A b \in Attempts : ~(pc[b] = "stored" /\ Fresh(b))
        <4>. SUFFICES ASSUME NEW b \in Attempts, pc[b] = "stored", Fresh(b) PROVE FALSE
          OBVIOUS
        <4>1. record.expires >= at[b] + RecordTTL /\ clock <= at[b] + RecordTTL
          BY DEF Exclusive, Kept, Fresh
        <4>2. at[b] \in Nat /\ record.expires \in Nat
          BY <1>0, RowTypes
        <4>. QED  BY <1>0, <3>1, <4>1, <4>2
      <3>. QED  BY <1>0, <2>1, <3>2, <3>3 DEF Exclusive, Fresh
    <2>. QED  BY <2>2, <2>3
  <1>2. ASSUME NEW a \in Attempts, Insert(a) PROVE Exclusive'
    <2>1. UNCHANGED <<at, done, clock>> /\ pc[a] = "insert"
      BY <1>2 DEF Insert
    <2>2. CASE record.state = "none"
      <3>1. /\ record' = Inserted(a) /\ row' = [row EXCEPT ![a] = a]
            /\ pc' = [pc EXCEPT ![a] = "handler"]
        BY <1>2, <2>2 DEF Insert, Goto
      <3>2. Owned(a)'
        BY <1>0, <2>1, <3>1 DEF Owned, Inserted
      <3>3. /\ \A b \in Attempts : pc[b] \notin Serving
            /\ \A b \in Attempts : ~(pc[b] = "stored" /\ Fresh(b))
        BY <2>2, FreeRow
      <3>. QED  BY <1>0, <2>1, <3>1, <3>2, <3>3 DEF Exclusive, Fresh
    <2>3. CASE record.state # "none"
      <3>1. pc' = [pc EXCEPT ![a] = "lookup"] /\ UNCHANGED <<record, row>>
        BY <1>2, <2>3 DEF Insert, Goto
      <3>. QED  BY <1>0, <2>1, <3>1 DEF Exclusive, Owned, Kept, Fresh
    <2>. QED  BY <2>2, <2>3
  <1>3. ASSUME NEW a \in Attempts, Lookup(a) PROVE Exclusive'
    <2>1. /\ UNCHANGED <<record, at, done, clock>> /\ pc[a] = "lookup"
          /\ \E place \in {"takeover", "replayed", "refused"} : pc' = [pc EXCEPT ![a] = place]
          /\ \A b \in Attempts \ {a} : row'[b] = row[b]
      BY <1>0, <1>3 DEF Lookup, Goto
    <2>. QED  BY <1>0, <2>1 DEF Exclusive, Owned, Kept, Fresh
  <1>4. ASSUME NEW a \in Attempts, Takeover(a) PROVE Exclusive'
    <2>1. UNCHANGED <<at, row, done, clock>> /\ pc[a] = "takeover"
      BY <1>4 DEF Takeover
    <2>2. CASE Untouched(a)
      <3>1. record' = TakenOver(a) /\ pc' = [pc EXCEPT ![a] = "handler"]
        BY <1>4, <2>2 DEF Takeover, Goto
      <3>2. Owned(a)'
        BY <1>0, <2>1, <2>2, <3>1, TakenOverRow DEF Owned, Untouched
      <3>3. /\ \A b \in Attempts : pc[b] \notin Serving
            /\ \A b \in Attempts : ~(pc[b] = "stored" /\ Fresh(b))
        BY <2>1, <2>2, FreeRow
      <3>. QED  BY <1>0, <2>1, <3>1, <3>2, <3>3 DEF Exclusive, Fresh
    <2>3. CASE ~Untouched(a)
      <3>1. pc' = [pc EXCEPT ![a] = "refused"] /\ UNCHANGED record
        BY <1>4, <2>3 DEF Takeover, Goto
      <3>. QED  BY <1>0, <2>1, <3>1 DEF Exclusive, Owned, Kept, Fresh
    <2>. QED  BY <2>2, <2>3
  <1>5. ASSUME NEW a \in Attempts, ReserveError(a) PROVE Exclusive'
    <2>1. /\ UNCHANGED <<at, row, done, clock>> /\ pc[a] \notin Serving /\ pc[a] # "stored"
          /\ pc[a] \notin Lost /\ pc' = [pc EXCEPT ![a] = "refused"]
      BY <1>5 DEF ReserveError, Goto
    <2>2. CASE record' = record
      BY <1>0, <2>1, <2>2 DEF Exclusive, Owned, Kept, Fresh
    <2>3. CASE record' # record
      <3>1. record.state = "none" \/ (pc[a] = "takeover" /\ Untouched(a))
        BY <1>5, <2>3 DEF ReserveError
      <3>2. /\ \A b \in Attempts : pc[b] \notin Serving
            /\ \A b \in Attempts : ~(pc[b] = "stored" /\ Fresh(b))
        BY <3>1, FreeRow
      <3>. QED  BY <1>0, <2>1, <3>2 DEF Exclusive, Fresh
    <2>. QED  BY <2>2, <2>3
  <1>6. ASSUME NEW a \in Attempts, Handle(a) PROVE Exclusive'
    <2>1. /\ UNCHANGED <<record, at, row, clock>> /\ pc[a] = "handler"
          /\ \/ done' = done /\ pc' = [pc EXCEPT ![a] = "release"]
             \/ /\ done' = done \cup {a}
                /\ \E place \in {"finalize", "unstored"} : pc' = [pc EXCEPT ![a] = place]
      BY <1>6 DEF Handle, Goto
    <2>2. a \notin done
      BY <2>1 DEF Exclusive
    <2>. QED  BY <1>0, <2>1, <2>2 DEF Exclusive, Owned, Kept, Fresh
  <1>7. ASSUME NEW a \in Attempts, Finalize(a) PROVE Exclusive'
    <2>1. UNCHANGED <<at, row, done, clock>> /\ pc[a] = "finalize"
      BY <1>7 DEF Finalize
    <2>2. CASE UNCHANGED record /\ pc' = [pc EXCEPT ![a] = "unstored"]
      BY <1>0, <2>1, <2>2 DEF Exclusive, Owned, Kept, Fresh
    <2>3. CASE SameRow(a) /\ record' = Completed(a) /\ pc' = [pc EXCEPT ![a] = "stored"]
      <3>1. record \in Row
        BY <2>3, RowTypes DEF SameRow
      <3>2. Kept(a)'
        BY <1>0, <2>1, <2>3, <3>1 DEF Kept, Completed, Row
      <3>3. /\ \A b \in Attempts \ {a} : pc[b] \notin Serving
            /\ \A b \in Attempts : ~(pc[b] = "stored" /\ Fresh(b))
        BY <2>1 DEF Exclusive, Owned, Kept
      <3>. QED  BY <1>0, <2>1, <2>3, <3>2, <3>3 DEF Exclusive, Fresh
    <2>. QED  BY <1>7, <2>2, <2>3 DEF Finalize, Goto
  <1>8. ASSUME NEW a \in Attempts, Release(a) PROVE Exclusive'
    <2>1. /\ UNCHANGED <<at, row, done, clock>> /\ pc[a] = "release"
          /\ pc' = [pc EXCEPT ![a] = "failed"]
      BY <1>8 DEF Release, Goto
    <2>2. /\ \A b \in Attempts \ {a} : pc[b] \notin Serving
          /\ \A b \in Attempts : ~(pc[b] = "stored" /\ Fresh(b))
      BY <2>1 DEF Exclusive, Owned, Kept
    <2>. QED  BY <1>0, <2>1, <2>2 DEF Exclusive, Fresh
  <1>9. ASSUME NEW a \in Attempts, Crash(a) PROVE Exclusive'
    <2>1. /\ UNCHANGED <<record, at, row, clock>> /\ pc[a] \in Serving
          /\ done' \in {done, done \cup {a}} /\ pc' = [pc EXCEPT ![a] = "crashed"]
      BY <1>9 DEF Crash, Goto
    <2>. QED  BY <1>0, <2>1 DEF Exclusive, Owned, Kept, Fresh
  <1>10. CASE Tick
    <2>1. clock' = clock + 1 /\ UNCHANGED <<record, pc, at, row, done>>
      BY <1>10 DEF Tick
    <2>2. \A b \in Attempts : Fresh(b)' => Fresh(b)
      BY <1>0, <2>1 DEF Fresh
    <2>. QED  BY <1>0, <2>1, <2>2 DEF Exclusive, Owned, Kept
  <1>11. CASE UNCHANGED vars
    BY <1>11 DEF vars, Exclusive, Owned, Kept, Fresh
  <1>. QED
    BY <1>1, <1>2, <1>3, <1>4, <1>5, <1>6, <1>7, <1>8, <1>9, <1>10, <1>11, Zenon DEF Next, Serve

\* The initial state of both
LEMMA InitExclusive == Init => InTime /\ Exclusive
  BY DEF Init, InTime, Exclusive

\* If no request outlives the stale period, a mutation is performed twice under
\* one key only when the outcome of one of the two was lost.
THEOREM IdempotencyAtMostOnce ==
    ASSUME Prompt PROVE Spec => []AtMostOnce
  <1>1. TypeOK /\ Exclusive => AtMostOnce
    <2>. SUFFICES ASSUME TypeOK, Exclusive, NEW a \in done, NEW b \in done, a # b,
                         Fresh(a), Fresh(b), pc[a] \notin Lost, pc[b] \notin Lost
                  PROVE  FALSE
      BY DEF AtMostOnce
    <2>1. a \in Attempts /\ b \in Attempts
      BY DEF TypeOK
    <2>2. pc[a] \in {"finalize", "stored"} /\ pc[b] \in {"finalize", "stored"}
      BY DEF Exclusive
    <2>. QED  BY <2>1, <2>2 DEF Exclusive, Owned, Kept
  <1>. QED  BY <1>1, InitExclusive, NextInTime, NextExclusive, IdempotencyTypeCorrect, PTL DEF Spec

\* If no request outlives the stale period, the controller is not invoked again
\* while a recorded success is fresh.
THEOREM IdempotencySuccessReplayed ==
    ASSUME Prompt PROVE Spec => SuccessReplayed
  <1>1. ASSUME TypeOK, InTime, Exclusive, [Next]_vars,
               NEW a \in Attempts, NEW b \in Attempts, pc[b] = "stored", Fresh(b), Invoked(a)
        PROVE  FALSE
    <2>1. pc \in [Attempts -> Places]
      BY <1>1 DEF TypeOK
    <2>2. record.state = "none" \/ (pc[a] = "takeover" /\ Untouched(a))
      <3>1. PICK c \in Attempts : Insert(c) \/ Takeover(c)
        <4>1. ASSUME NEW c \in Attempts,
                     \/ Purge(c) \/ Lookup(c) \/ ReserveError(c) \/ Handle(c)
                     \/ Finalize(c) \/ Release(c) \/ Crash(c)
              PROVE  FALSE
          BY <1>1, <2>1, <4>1 DEF Invoked, Purge, Lookup, ReserveError, Handle, Finalize,
                                  Release, Crash, Goto
        <4>2. ~Tick /\ ~UNCHANGED vars
          BY <1>1 DEF Tick, vars, Invoked
        <4>. QED  BY <1>1, <4>1, <4>2 DEF Next, Serve
      <3>. QED  BY <1>1, <2>1, <3>1 DEF Insert, Takeover, Goto, Invoked
    <2>. QED  BY <1>1, <2>2, FreeRow
  <1>2. TypeOK /\ InTime /\ Exclusive /\ [Next]_vars =>
           [\A a, b \in Attempts : pc[b] = "stored" /\ Fresh(b) => ~Invoked(a)]_vars
    BY <1>1
  <1>. QED
    BY <1>2, InitExclusive, NextInTime, NextExclusive, IdempotencyTypeCorrect, PTL
    DEF Spec, SuccessReplayed
=============================================================================
