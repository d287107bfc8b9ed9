--------------------------- MODULE SeatingProofs ---------------------------
(***************************************************************************)
(* Proofs about Seating, for any number of tables, guests and requests.    *)
(***************************************************************************)
EXTENDS Seating, TLAPS

Locked(w) == tx[w].locked
Written(w) == DOMAIN tx[w].seat

\* A guest row is written by one open transaction; a table that a transaction
\* creates is its own and not there yet for anybody else.
Disjoint ==
    \A w \in Writers :
       /\ \A t \in tx[w].created : table[t].state = "absent" /\ t \in DOMAIN tx[w].cap
       /\ \A v \in Writers \ {w} :
            /\ Written(v) \cap Written(w) = {}
            /\ tx[v].created \cap tx[w].created = {}

\* Between requests nothing is open, and tables are dropped last.
Quiet ==
    \A w \in Writers :
       /\ pc[w] \in {"idle", "write"} => tx[w] = NoTx
       /\ pc[w] \notin {"check", "commit"} => tx[w].dropped = {}

Exists(w, t) == table[t].state # "absent" \/ t \in tx[w].created

\* Nobody else has touched, or seats guests at, a table locked FOR UPDATE.
Exclusive ==
    \A w \in Writers : \A t \in Locked(w) :
       /\ Exists(w, t)
       /\ \A v \in Writers \ {w} :
            /\ t \notin Locked(v) /\ t \notin DOMAIN tx[v].cap /\ t \notin tx[v].dropped
            /\ t \notin KeyShared(v)

\* The tables that will be locked have been seen, so none of them appears later.
Known ==
    \A w \in Writers :
       /\ pc[w] = "current" => \A t \in Targets(body[w]) : Exists(w, t)
       /\ \A t \in tx[w].checked \cup tx[w].dropped : Exists(w, t)

\* Past lockTables every table that is going to be checked is locked or gone.
LocksHeldBy(w) ==
    pc[w] \in {"move", "clear", "drop", "check", "commit"} /\ DOMAIN body[w].moves # {} =>
       \A t \in tx[w].checked : LiveIn(w, t) => t \in Locked(w)

LocksHeld == \A w \in Writers : LocksHeldBy(w)

\* CheckStands, of one transaction.
StandsFor(w) ==
    pc[w] = "commit" /\ DOMAIN body[w].moves # {} =>
       \A t \in tx[w].checked : LiveIn(w, t) => Seats[SeatedIn(w, t)] <= CapIn(w, t)

Rows == Quiet /\ Disjoint /\ Exclusive /\ Known

SInv == TypeOK /\ Rows /\ LocksHeld /\ CheckStands

-----------------------------------------------------------------------------
(* Types.                                                                  *)

LEMMA PartialIs ==
    ASSUME NEW f, NEW D, NEW R
    PROVE  IsPartial(f, D, R) <=> /\ f = [x \in DOMAIN f |-> f[x]]
                                  /\ DOMAIN f \subseteq D
                                  /\ \A x \in DOMAIN f : f[x] \in R
<1>1. ASSUME IsPartial(f, D, R)
      PROVE  f = [x \in DOMAIN f |-> f[x]] /\ DOMAIN f \subseteq D /\ \A x \in DOMAIN f : f[x] \in R
  BY <1>1 DEF IsPartial
<1>2. ASSUME f = [x \in DOMAIN f |-> f[x]], DOMAIN f \subseteq D, \A x \in DOMAIN f : f[x] \in R
      PROVE  IsPartial(f, D, R)
  BY <1>2 DEF IsPartial
<1> QED BY <1>1, <1>2

LEMMA PartialPut ==
    ASSUME NEW f, NEW D, NEW R, IsPartial(f, D, R), NEW x \in D, NEW v \in R
    PROVE  IsPartial(Put(f, x, v), D, R)
<1>1. PICK S \in SUBSET D : f \in [S -> R]
  BY DEF IsPartial
<1>2. S \cup {x} \in SUBSET D
  OBVIOUS
<1>3. Put(f, x, v) \in [S \cup {x} -> R]
  BY <1>1 DEF Put
<1> QED BY <1>2, <1>3 DEF IsPartial

LEMMA PartialEmpty == \A D, R : IsPartial(Empty, D, R)
BY DEF IsPartial, Empty

LEMMA NoTxOK == TxOK(NoTx) /\ BodyOK(NoBody)
<1>1. IsPartial(NoTx.seat, Guests, Tables \cup {NoTable}) /\ IsPartial(NoTx.cap, Tables, Nat)
  BY PartialEmpty DEF NoTx
<1>2. NoTx = [seat |-> NoTx.seat, cap |-> NoTx.cap, created |-> NoTx.created,
              dropped |-> NoTx.dropped, locked |-> NoTx.locked, checked |-> NoTx.checked]
  BY DEF NoTx
<1>3. NoTx.created \cup NoTx.dropped \cup NoTx.locked \cup NoTx.checked \subseteq Tables
  BY DEF NoTx
<1> QED BY <1>1, <1>2, <1>3 DEF TxOK, BodyOK

LEMMA InitType == Init => TypeOK
<1> SUFFICES ASSUME Init PROVE TypeOK
  OBVIOUS
<1>1. table \in [Tables -> [state : {"absent", "live", "deleted"}, cap : Nat]]
  BY SeatingAssumption DEF Init
<1>2. seat \in [Guests -> Tables \cup {NoTable}] /\ pc \in [Writers -> Places]
  BY DEF Init, Places
<1>3. body = [w \in Writers |-> body[w]] /\ \A w \in Writers : BodyOK(body[w])
  BY NoTxOK DEF Init
<1>4. tx = [w \in Writers |-> tx[w]] /\ \A w \in Writers : TxOK(tx[w])
  BY NoTxOK DEF Init
<1> QED BY <1>1, <1>2, <1>3, <1>4 DEF TypeOK

\* What a step of w may do to the records of w, and that it does nothing to
\* those of the others.
LEMMA Goes ==
    ASSUME TypeOK, NEW w \in Writers, NEW place, Goto(w, place)
    PROVE  pc'[w] = place /\ \A v \in Writers \ {w} : pc'[v] = pc[v]
BY DEF TypeOK, Goto

LEMMA TxStep ==
    ASSUME TypeOK, NEW w \in Writers, NEW r, tx' = [tx EXCEPT ![w] = r]
    PROVE  tx'[w] = r /\ \A v \in Writers \ {w} : tx'[v] = tx[v]
BY DEF TypeOK

LEMMA BodyStep ==
    ASSUME TypeOK, NEW w \in Writers, NEW b, body' = [body EXCEPT ![w] = b]
    PROVE  body'[w] = b /\ \A v \in Writers \ {w} : body'[v] = body[v]
BY DEF TypeOK

\* A step that leaves the committed rows alone and gives w a record of the
\* right type keeps the types.
LEMMA LocalType ==
    ASSUME TypeOK, NEW w \in Writers, NEW r, NEW b, NEW place \in Places,
           UNCHANGED <<table, seat>>, pc' = [pc EXCEPT ![w] = place],
           body' = [body EXCEPT ![w] = b], tx' = [tx EXCEPT ![w] = r],
           TxOK(r), BodyOK(b)
    PROVE  TypeOK'
<1>1. pc' \in [Writers -> Places]
  BY DEF TypeOK
<1>2. body' = [v \in Writers |-> body'[v]] /\ \A v \in Writers : BodyOK(body'[v])
  BY DEF TypeOK
<1>3. tx' = [v \in Writers |-> tx'[v]] /\ \A v \in Writers : TxOK(tx'[v])
  BY DEF TypeOK
<1>4. /\ table' \in [Tables -> [state : {"absent", "live", "deleted"}, cap : Nat]]
      /\ seat' \in [Guests -> Tables \cup {NoTable}]
  BY DEF TypeOK
<1> QED BY <1>1, <1>2, <1>3, <1>4 DEF TypeOK

LEMMA DoneType ==
    ASSUME TypeOK, NEW w \in Writers, Done(w),
           table' \in [Tables -> [state : {"absent", "live", "deleted"}, cap : Nat]],
           seat' \in [Guests -> Tables \cup {NoTable}]
    PROVE  TypeOK'
<1>1. pc' \in [Writers -> Places]
  BY DEF TypeOK, Done, Goto, Places
<1>2. body' = [v \in Writers |-> body'[v]] /\ \A v \in Writers : BodyOK(body'[v])
  BY NoTxOK DEF TypeOK, Done
<1>3. tx' = [v \in Writers |-> tx'[v]] /\ \A v \in Writers : TxOK(tx'[v])
  BY NoTxOK DEF TypeOK, Done
<1> QED BY <1>1, <1>2, <1>3 DEF TypeOK

\* A record of w with one component replaced.
LEMMA FieldTypes ==
    ASSUME TypeOK, NEW w \in Writers, NEW x
    PROVE  /\ x \subseteq Tables => /\ TxOK([tx[w] EXCEPT !.checked = x])
                                    /\ TxOK([tx[w] EXCEPT !.locked = x])
                                    /\ TxOK([tx[w] EXCEPT !.dropped = x])
           /\ IsPartial(x, Guests, Tables \cup {NoTable}) => TxOK([tx[w] EXCEPT !.seat = x])
           /\ IsPartial(x, Tables, Nat) => TxOK([tx[w] EXCEPT !.cap = x])
<1> DEFINE r == tx[w]
<1>1. TxOK(r)
  BY DEF TypeOK
<1> HIDE DEF r
<1>2. x \subseteq Tables => /\ TxOK([r EXCEPT !.checked = x])
                            /\ TxOK([r EXCEPT !.locked = x])
                            /\ TxOK([r EXCEPT !.dropped = x])
  BY <1>1 DEF TxOK
<1>3. IsPartial(x, Guests, Tables \cup {NoTable}) => TxOK([r EXCEPT !.seat = x])
  BY <1>1 DEF TxOK
<1>4. IsPartial(x, Tables, Nat) => TxOK([r EXCEPT !.cap = x])
  BY <1>1 DEF TxOK
<1> QED BY <1>2, <1>3, <1>4 DEF r

LEMMA RequestParts ==
    ASSUME TypeOK, NEW w \in Writers
    PROVE  /\ body[w].drops \subseteq Tables
           /\ IsPartial(body[w].moves, Guests, Tables \cup {NoTable})
           /\ IsPartial(body[w].caps, Tables, Nat)
           /\ DOMAIN body[w].moves \subseteq Guests
           /\ \A g \in DOMAIN body[w].moves : body[w].moves[g] \in Tables \cup {NoTable}
           /\ DOMAIN body[w].caps \subseteq Tables
           /\ \A t \in DOMAIN body[w].caps : body[w].caps[t] \in Nat
<1>1. BodyOK(body[w])
  BY DEF TypeOK
<1>2. CASE body[w] = NoBody
  <2>1. body[w].drops = {} /\ body[w].moves = Empty /\ body[w].caps = Empty
    BY <1>2 DEF NoBody
  <2> QED BY <2>1, PartialEmpty DEF Empty
<1>3. CASE IsRequest(body[w])
  <2>1. /\ body[w].drops \subseteq Tables
        /\ IsPartial(body[w].moves, Guests, Tables \cup {NoTable})
        /\ IsPartial(body[w].caps, Tables, Nat)
    BY <1>3 DEF IsRequest
  <2>2. IsPartial(body[w].caps, Tables, Nat)
    BY <2>1 DEF IsPartial
  <2>3. /\ DOMAIN body[w].moves \subseteq Guests
        /\ \A g \in DOMAIN body[w].moves : body[w].moves[g] \in Tables \cup {NoTable}
    BY <2>1, PartialIs
  <2>4. /\ DOMAIN body[w].caps \subseteq Tables
        /\ \A t \in DOMAIN body[w].caps : body[w].caps[t] \in Nat
    BY <2>2, PartialIs
  <2> QED BY <2>1, <2>2, <2>3, <2>4
<1> QED BY <1>1, <1>2, <1>3 DEF BodyOK

LEMMA ViewTypes ==
    ASSUME TypeOK, NEW w \in Writers
    PROVE  /\ \A g \in Guests : SeatIn(w, g) \in Tables \cup {NoTable}
           /\ \A t \in Tables : CapIn(w, t) \in Nat
<1>1. TxOK(tx[w])
  BY DEF TypeOK
<1>2. /\ \A g \in DOMAIN tx[w].seat : tx[w].seat[g] \in Tables \cup {NoTable}
      /\ \A t \in DOMAIN tx[w].cap : tx[w].cap[t] \in Nat
  BY <1>1, PartialIs DEF TxOK
<1>3. \A g \in Guests : SeatIn(w, g) \in Tables \cup {NoTable}
  BY <1>2 DEF SeatIn, TypeOK
<1>4. \A t \in Tables : CapIn(w, t) \in Nat
  BY <1>2 DEF CapIn, TypeOK
<1> QED BY <1>3, <1>4

LEMMA StatementType ==
    ASSUME TypeOK, NEW w \in Writers, NEW r, TxOK(r), tx' = [tx EXCEPT ![w] = r],
           UNCHANGED <<table, seat, body>>,
           pc' = pc \/ \E place \in Places : Goto(w, place)
    PROVE  TypeOK'
<1>1. pc' \in [Writers -> Places]
  BY DEF TypeOK, Goto
<1>2. tx' = [v \in Writers |-> tx'[v]] /\ \A v \in Writers : TxOK(tx'[v])
  BY DEF TypeOK
<1>3. body' = [v \in Writers |-> body'[v]] /\ \A v \in Writers : BodyOK(body'[v])
  BY DEF TypeOK
<1> QED BY <1>1, <1>2, <1>3 DEF TypeOK

LEMMA GotoType ==
    ASSUME TypeOK, NEW w \in Writers, NEW place \in Places, Goto(w, place),
           UNCHANGED <<table, seat, body, tx>>
    PROVE  TypeOK'
<1>1. pc' \in [Writers -> Places]
  BY DEF TypeOK, Goto
<1> QED BY <1>1 DEF TypeOK

\* The places by name, and the first statements among them.
LEMMA AllPlaces ==
    /\ {"idle", "update", "current", "lock", "move", "clear", "drop", "check", "commit", "write"}
         \subseteq Places
    /\ \A k \in DOMAIN First : First[k] \in Places
    /\ DOMAIN First = {"assign", "plan", "delete"}
BY DEF Places, First

LEMMA BeginType == \A w \in Writers : \A b \in Bodies[w] : TypeOK /\ Begin(w, b) => TypeOK'
<1> SUFFICES ASSUME NEW w \in Writers, NEW b \in Bodies[w], TypeOK, Begin(w, b) PROVE TypeOK'
  OBVIOUS
<1> DEFINE r == [[tx[w] EXCEPT !.created = DOMAIN b.creates] EXCEPT !.cap = b.creates]
<1>1. IsRequest(b)
  BY BodyAssumption
<1>2. IsPartial(b.creates, Tables, Nat)
  BY <1>1 DEF IsRequest, IsPartial
<1>3. DOMAIN b.creates \subseteq Tables
  BY <1>2, PartialIs
<1>4. TxOK(r)
  <2> DEFINE o == tx[w]
             c == b.creates
             D == DOMAIN c
  <2>1. TxOK(o) /\ IsPartial(c, Tables, Nat) /\ D \subseteq Tables
    BY <1>2, <1>3 DEF TypeOK
  <2> DEFINE p == [o EXCEPT !.created = D]
  <2> HIDE DEF o, c, D
  <2>2. TxOK(p)
    BY <2>1 DEF TxOK
  <2> HIDE DEF p
  <2>3. TxOK([p EXCEPT !.cap = c])
    BY <2>1, <2>2 DEF TxOK
  <2> QED BY <2>3 DEF o, c, D, p
<1>5. tx' = [tx EXCEPT ![w] = r]
  BY DEF Begin, TypeOK
<1>6. pc' = [pc EXCEPT ![w] = First[b.kind]] /\ First[b.kind] \in Places
  BY AllPlaces DEF Begin, Goto
<1> QED BY <1>1, <1>4, <1>5, <1>6, LocalType DEF Begin, BodyOK

LEMMA ReadType ==
    \A w \in Writers : \A b \in Bodies[w] : TypeOK /\ (ReadGuest(w, b) \/ ReadTable(w, b)) => TypeOK'
<1> SUFFICES ASSUME NEW w \in Writers, NEW b \in Bodies[w], TypeOK,
                    ReadGuest(w, b) \/ ReadTable(w, b)
             PROVE  TypeOK'
  OBVIOUS
<1>1. IsRequest(b)
  BY BodyAssumption
<1>2. TxOK(tx[w]) /\ tx = [tx EXCEPT ![w] = tx[w]]
  BY DEF TypeOK
<1>3. CASE ReadGuest(w, b)
  <2> DEFINE read == [g \in DOMAIN b.moves |-> IF b.kind = "edit" THEN seat[g] ELSE b.moves[g]]
             c == [b EXCEPT !.moves = read]
  <2>1. IsPartial(b.moves, Guests, Tables \cup {NoTable})
    BY <1>1 DEF IsRequest
  <2>2. IsPartial(read, Guests, Tables \cup {NoTable})
    BY <2>1, PartialIs DEF TypeOK
  <2>3. IsRequest(c)
    <3>1. b.kind \in {"guest", "edit"}
      BY <1>3 DEF ReadGuest
    <3> HIDE DEF read
    <3> QED BY <1>1, <2>2, <3>1 DEF IsRequest
  <2>4. body' = [body EXCEPT ![w] = c] /\ Goto(w, "write") /\ UNCHANGED <<table, seat, tx>>
    BY <1>3 DEF ReadGuest
  <2> QED BY <1>2, <2>3, <2>4, LocalType, AllPlaces DEF BodyOK, Goto
<1>4. CASE ReadTable(w, b)
  <2> DEFINE read == [t \in DOMAIN b.caps |-> IF b.kind = "rename" THEN table[t].cap ELSE b.caps[t]]
             c == [b EXCEPT !.caps = read]
  <2>1. IsPartial(b.caps, Tables, Nat)
    BY <1>1 DEF IsRequest
  <2>2. IsPartial(read, Tables, Nat)
    BY <2>1, PartialIs DEF TypeOK
  <2>3. IsRequest(c)
    <3>1. b.kind \in {"table", "rename"}
      BY <1>4 DEF ReadTable
    <3> HIDE DEF read
    <3> QED BY <1>1, <2>2, <3>1 DEF IsRequest
  <2>4. body' = [body EXCEPT ![w] = c] /\ Goto(w, "write") /\ UNCHANGED <<table, seat, tx>>
    BY <1>4 DEF ReadTable
  <2> QED BY <1>2, <2>3, <2>4, LocalType, AllPlaces DEF BodyOK, Goto
<1> QED BY <1>3, <1>4

LEMMA StatementsType ==
    \A w \in Writers :
       TypeOK /\ \/ ReadCapacities(w) \/ CountTables(w) \/ ReadCurrent(w) \/ LocksTaken(w)
                 \/ GuestsMoved(w) \/ ClearGuests(w) \/ DropTables(w) \/ CheckCapacity(w)
                 \/ \E t \in Tables : UpdateCapacity(w, t) \/ LockTable(w, t)
                 \/ \E g \in Guests : MoveGuest(w, g)
       => TypeOK'
<1> SUFFICES ASSUME NEW w \in Writers, TypeOK,
                    \/ ReadCapacities(w) \/ CountTables(w) \/ ReadCurrent(w) \/ LocksTaken(w)
                    \/ GuestsMoved(w) \/ ClearGuests(w) \/ DropTables(w) \/ CheckCapacity(w)
                    \/ \E t \in Tables : UpdateCapacity(w, t) \/ LockTable(w, t)
                    \/ \E g \in Guests : MoveGuest(w, g)
             PROVE  TypeOK'
  OBVIOUS
<1>0. TxOK(tx[w])
  BY DEF TypeOK
<1>1. CASE ReadCapacities(w)
  <2>1. Lowered(w) \subseteq Tables
    BY RequestParts DEF Lowered
  <2> QED BY <1>1, <2>1, FieldTypes, StatementType, AllPlaces DEF ReadCapacities
<1>2. CASE CountTables(w) \/ LocksTaken(w) \/ GuestsMoved(w) \/ CheckCapacity(w)
  BY <1>2, GotoType, AllPlaces DEF CountTables, LocksTaken, GuestsMoved, CheckCapacity
<1>3. CASE ReadCurrent(w)
  <2>1. Gaining(w) \subseteq Tables /\ tx[w].checked \subseteq Tables
    BY <1>0, RequestParts DEF Gaining, TxOK
  <2> QED BY <1>3, <2>1, FieldTypes, StatementType, AllPlaces DEF ReadCurrent
<1>4. CASE ClearGuests(w)
  <2> DEFINE seated == {g \in Guests : SeatIn(w, g) \in body[w].drops}
             new == [g \in DOMAIN tx[w].seat \cup seated |->
                       IF g \in seated THEN NoTable ELSE tx[w].seat[g]]
  <2>1. IsPartial(tx[w].seat, Guests, Tables \cup {NoTable})
    BY <1>0 DEF TxOK
  <2>2. DOMAIN tx[w].seat \subseteq Guests
        /\ \A g \in DOMAIN tx[w].seat : tx[w].seat[g] \in Tables \cup {NoTable}
    BY <2>1, PartialIs
  <2>3. IsPartial(new, Guests, Tables \cup {NoTable})
    <3>1. new \in [DOMAIN tx[w].seat \cup seated -> Tables \cup {NoTable}]
      BY <2>2
    <3>2. DOMAIN tx[w].seat \cup seated \in SUBSET Guests
      BY <2>2
    <3> QED BY <3>1, <3>2 DEF IsPartial
  <2>4. TxOK([tx[w] EXCEPT !.seat = new])
    BY <2>3, FieldTypes
  <2>5. tx' = [tx EXCEPT ![w] = [tx[w] EXCEPT !.seat = new]]
    BY <1>4 DEF ClearGuests, TypeOK
  <2> QED BY <1>4, <2>4, <2>5, StatementType, AllPlaces DEF ClearGuests
<1>5. CASE DropTables(w)
  <2>1. {t \in body[w].drops : LiveIn(w, t)} \subseteq Tables
    BY RequestParts
  <2> QED BY <1>5, <2>1, FieldTypes, StatementType, AllPlaces DEF DropTables
<1>6. ASSUME NEW t \in Tables, UpdateCapacity(w, t) PROVE TypeOK'
  <2>1. IsPartial(Put(tx[w].cap, t, body[w].caps[t]), Tables, Nat)
    BY <1>0, <1>6, PartialPut, RequestParts DEF TxOK, UpdateCapacity
  <2> QED BY <1>6, <2>1, FieldTypes, StatementType DEF UpdateCapacity
<1>7. ASSUME NEW t \in Tables, LockTable(w, t) PROVE TypeOK'
  <2>1. tx[w].locked \cup {t} \subseteq Tables
    BY <1>0 DEF TxOK
  <2> QED BY <1>7, <2>1, FieldTypes, StatementType DEF LockTable
<1>8. ASSUME NEW g \in Guests, MoveGuest(w, g) PROVE TypeOK'
  <2>1. IsPartial(Put(tx[w].seat, g, body[w].moves[g]), Guests, Tables \cup {NoTable})
    BY <1>0, <1>8, PartialPut, RequestParts DEF TxOK, MoveGuest
  <2> QED BY <1>8, <2>1, FieldTypes, StatementType DEF MoveGuest
<1> QED BY <1>1, <1>2, <1>3, <1>4, <1>5, <1>6, <1>7, <1>8

LEMMA EndType ==
    \A w \in Writers :
       TypeOK /\ (Commit(w) \/ Rollback(w) \/ WriteGuest(w) \/ WriteTable(w)) => TypeOK'
<1> SUFFICES ASSUME NEW w \in Writers, TypeOK,
                    Commit(w) \/ Rollback(w) \/ WriteGuest(w) \/ WriteTable(w)
             PROVE  TypeOK'
  OBVIOUS
<1>1. CASE Commit(w)
  <2>1. table' \in [Tables -> [state : {"absent", "live", "deleted"}, cap : Nat]]
    BY <1>1, ViewTypes DEF Commit, TypeOK
  <2>2. seat' \in [Guests -> Tables \cup {NoTable}]
    BY <1>1, ViewTypes DEF Commit
  <2> QED BY <1>1, <2>1, <2>2, DoneType DEF Commit
<1>2. CASE Rollback(w)
  BY <1>2, DoneType DEF Rollback, TypeOK
<1>3. CASE WriteGuest(w)
  <2>1. seat' \in [Guests -> Tables \cup {NoTable}]
    BY <1>3, RequestParts DEF WriteGuest, TypeOK
  <2> QED BY <1>3, <2>1, DoneType DEF WriteGuest, TypeOK
<1>4. CASE WriteTable(w)
  <2>1. table' \in [Tables -> [state : {"absent", "live", "deleted"}, cap : Nat]]
    BY <1>4, RequestParts DEF WriteTable, TypeOK
  <2> QED BY <1>4, <2>1, DoneType DEF WriteTable, TypeOK
<1> QED BY <1>1, <1>2, <1>3, <1>4

LEMMA NextType == TypeOK /\ [Next]_vars => TypeOK'
<1> SUFFICES ASSUME TypeOK, [Next]_vars PROVE TypeOK'
  OBVIOUS
<1>1. CASE UNCHANGED vars
  BY <1>1 DEF vars, TypeOK
<1>2. ASSUME NEW w \in Writers, Serve(w) PROVE TypeOK'
  BY <1>2, BeginType, ReadType, StatementsType, EndType DEF Serve
<1> QED BY <1>1, <1>2 DEF Next

\* The rows of tables and guests and the open transactions keep their types,
\* for any plan, assignment or edit.
THEOREM SeatingTypeCorrect == Spec => []TypeOK
BY InitType, NextType, PTL DEF Spec

-----------------------------------------------------------------------------
(* Locks.                                                                  *)

\* The other transactions are as they were.
Alone(w) ==
    \A v \in Writers \ {w} : tx'[v] = tx[v] /\ body'[v] = body[v] /\ pc'[v] = pc[v]

\* A statement of w that leaves the committed rows alone keeps the locks
\* exclusive if it takes only what nobody else has.
LEMMA Takes ==
    ASSUME TypeOK, Disjoint, Exclusive, NEW w \in Writers, Alone(w), UNCHANGED <<table, seat>>,
           \A t \in tx'[w].created : /\ table[t].state = "absent" /\ t \in DOMAIN tx'[w].cap
                                     /\ \A v \in Writers \ {w} : t \notin tx[v].created,
           \A v \in Writers \ {w} : Written(v) \cap DOMAIN tx'[w].seat = {},
           \A t \in tx'[w].locked : /\ Exists(w, t)'
                                    /\ t \in Locked(w) \/ LockFree(w, t),
           \A v \in Writers \ {w} : \A t \in Locked(v) :
              t \notin DOMAIN tx'[w].cap /\ t \notin tx'[w].dropped /\ t \notin KeyShared(w)'
    PROVE  Disjoint' /\ Exclusive'
<1>1. Disjoint'
  BY DEF Disjoint, Alone, Written
<1>2. \A v \in Writers \ {w} : KeyShared(v)' = KeyShared(v)
  BY DEF KeyShared, Alone
<1>3. ASSUME NEW u \in Writers, NEW t \in tx'[u].locked
      PROVE  /\ Exists(u, t)'
             /\ \A v \in Writers \ {u} :
                  /\ t \notin tx'[v].locked /\ t \notin DOMAIN tx'[v].cap /\ t \notin tx'[v].dropped
                  /\ t \notin KeyShared(v)'
  <2>1. CASE u = w
    <3>1. t \in Locked(w) \/ LockFree(w, t)
      BY <1>3, <2>1
    <3>2. \A v \in Writers \ {w} :
            /\ t \notin tx[v].locked /\ t \notin DOMAIN tx[v].cap /\ t \notin tx[v].dropped
            /\ t \notin KeyShared(v)
      BY <3>1 DEF Exclusive, LockFree, RowFree, Locked
    <3> QED BY <2>1, <1>2, <1>3, <3>2 DEF Alone
  <2>2. CASE u # w
    <3>1. tx'[u] = tx[u] /\ t \in Locked(u)
      BY <1>3, <2>2 DEF Alone, Locked
    <3>2. Exists(u, t)'
      BY <3>1 DEF Exclusive, Exists
    <3>3. t \notin tx'[w].locked
      <4>1. t \in Locked(w) => FALSE
        BY <2>2, <3>1 DEF Exclusive, Locked
      <4>2. LockFree(w, t) => FALSE
        BY <2>2, <3>1 DEF LockFree, RowFree, Locked
      <4> QED BY <4>1, <4>2
    <3>4. ASSUME NEW v \in Writers \ {u}
          PROVE  /\ t \notin tx'[v].locked /\ t \notin DOMAIN tx'[v].cap /\ t \notin tx'[v].dropped
                 /\ t \notin KeyShared(v)'
      <4>1. CASE v = w
        BY <2>2, <3>1, <3>3, <4>1
      <4>2. CASE v # w
        BY <1>2, <3>1, <4>2 DEF Alone, Exclusive, Locked
      <4> QED BY <4>1, <4>2
    <3> QED BY <3>2, <3>4
  <2> QED BY <2>1, <2>2
<1> QED BY <1>1, <1>3 DEF Exclusive, Locked

\* The end of a request gives up its locks; it must leave alone the guests and
\* the new tables of the open transactions.
LEMMA Ends ==
    ASSUME TypeOK, Rows, NEW w \in Writers, Done(w),
           \A v \in Writers \ {w} : \A g \in Written(v) : seat'[g] = seat[g],
           \A v \in Writers \ {w} : \A t \in tx[v].created : table'[t].state = "absent",
           \A t \in Tables : table[t].state # "absent" => table'[t].state # "absent"
    PROVE  Rows' /\ Alone(w)
<1>1. tx'[w] = NoTx /\ body'[w] = NoBody /\ pc'[w] = "idle"
  BY DEF TypeOK, Done, Goto
<1>2. Alone(w)
  BY DEF TypeOK, Done, Goto, Alone
<1>3. /\ tx'[w].created = {} /\ tx'[w].locked = {} /\ tx'[w].dropped = {} /\ tx'[w].checked = {}
      /\ DOMAIN tx'[w].seat = {} /\ DOMAIN tx'[w].cap = {}
  BY <1>1 DEF NoTx, Empty
<1>4. \A v \in Writers : tx[v].created \cup tx[v].dropped \cup tx[v].locked \cup tx[v].checked \subseteq Tables
  BY DEF TypeOK, TxOK
<1>5. Quiet'
  BY <1>1, <1>2, <1>3 DEF Rows, Quiet, Alone
<1>6. Disjoint'
  BY <1>2, <1>3 DEF Rows, Disjoint, Alone, Written
<1>7. \A v \in Writers \ {w} : \A t \in Tables : Exists(v, t) => Exists(v, t)'
  BY <1>2 DEF Exists, Alone
<1>8. KeyShared(w)' = {}
  BY <1>3 DEF KeyShared
<1>9. \A v \in Writers \ {w} : KeyShared(v)' = KeyShared(v)
  BY <1>2 DEF KeyShared, Alone, Written
<1>10. Exclusive'
  BY <1>2, <1>3, <1>4, <1>7, <1>8, <1>9 DEF Rows, Exclusive, Alone, Locked
<1>11. \A v \in Writers \ {w} : Targets(body[v]) \subseteq Tables
  BY RequestParts DEF Targets
<1>12. Known'
  BY <1>1, <1>2, <1>3, <1>4, <1>7, <1>11 DEF Rows, Known, Alone
<1> QED BY <1>2, <1>5, <1>6, <1>10, <1>12 DEF Rows

\* What w does leaves standing what v has locked and checked: no deleted table
\* comes back, and the tables v has locked gain no guest and keep their capacity.
LEMMA OthersHold ==
    ASSUME TypeOK, TypeOK', Rows, NEW w \in Writers, Alone(w), NEW v \in Writers \ {w},
           LocksHeldBy(v), StandsFor(v),
           \A t \in Tables : table'[t].state = "live" => table[t].state \in {"absent", "live"},
           \A t \in Locked(v) : /\ table'[t].cap = table[t].cap
                                /\ \A g \in Guests : seat'[g] = t => seat[g] = t
    PROVE  LocksHeldBy(v)' /\ StandsFor(v)'
<1>1. tx'[v] = tx[v] /\ body'[v] = body[v] /\ pc'[v] = pc[v]
  BY DEF Alone
<1>2. tx[v].checked \subseteq Tables
  BY DEF TypeOK, TxOK
<1>3. \A t \in tx[v].checked : LiveIn(v, t)' => LiveIn(v, t)
  BY <1>1, <1>2 DEF LiveIn, Rows, Known, Exists
<1>4. LocksHeldBy(v)'
  BY <1>1, <1>3 DEF LocksHeldBy, Locked
<1>5. ASSUME pc[v] = "commit", DOMAIN body[v].moves # {}, NEW t \in tx[v].checked, LiveIn(v, t)'
      PROVE  Seats[SeatedIn(v, t)'] <= CapIn(v, t)'
  <2>1. LiveIn(v, t) /\ t \in Locked(v) /\ t \in Tables
    BY <1>2, <1>3, <1>5 DEF LocksHeldBy
  <2>2. Seats[SeatedIn(v, t)] <= CapIn(v, t)
    BY <1>5, <2>1 DEF StandsFor
  <2>3. CapIn(v, t)' = CapIn(v, t)
    BY <1>1, <2>1 DEF CapIn
  <2>4. SeatedIn(v, t)' \subseteq SeatedIn(v, t) /\ SeatedIn(v, t) \subseteq Guests
    BY <1>1, <2>1 DEF SeatedIn, SeatIn
  <2>5. Seats[SeatedIn(v, t)'] <= Seats[SeatedIn(v, t)]
    BY <2>4, SeatingAssumption
  <2>6. Seats[SeatedIn(v, t)'] \in Nat /\ Seats[SeatedIn(v, t)] \in Nat /\ CapIn(v, t) \in Nat
    BY <2>1, <2>4, SeatingAssumption, ViewTypes
  <2> QED BY <2>2, <2>3, <2>5, <2>6
<1>6. StandsFor(v)'
  BY <1>1, <1>5 DEF StandsFor
<1> QED BY <1>4, <1>6

\* Of a statement of w only what it takes and what it knows need be looked at.
LEMMA StatementHolds ==
    ASSUME SInv, TypeOK', NEW w \in Writers, Alone(w), UNCHANGED <<table, seat>>,
           Disjoint', Exclusive',
           pc'[w] \in {"idle", "write"} => tx'[w] = NoTx,
           pc'[w] \notin {"check", "commit"} => tx'[w].dropped = {},
           pc'[w] = "current" => \A t \in Targets(body'[w]) : Exists(w, t)',
           \A t \in tx'[w].checked \cup tx'[w].dropped : Exists(w, t)',
           LocksHeldBy(w)', StandsFor(w)'
    PROVE  SInv'
<1>1. Quiet'
  BY DEF SInv, Rows, Quiet, Alone
<1>2. Known'
  BY DEF SInv, Rows, Known, Alone, Exists
<1>3. \A v \in Writers \ {w} : LocksHeldBy(v)' /\ StandsFor(v)'
  <2> SUFFICES ASSUME NEW v \in Writers \ {w} PROVE LocksHeldBy(v)' /\ StandsFor(v)'
    OBVIOUS
  <2>1. LocksHeldBy(v) /\ StandsFor(v) /\ TypeOK /\ Rows
    BY DEF SInv, LocksHeld, CheckStands, StandsFor
  <2> QED BY <2>1, OthersHold
<1>4. LocksHeld' /\ CheckStands'
  BY <1>3 DEF LocksHeld, CheckStands, StandsFor
<1> QED BY <1>1, <1>2, <1>4 DEF SInv, Rows

\* A statement that takes no row at all.
LEMMA TakesNothing ==
    ASSUME TypeOK, Rows, NEW w \in Writers, Alone(w), UNCHANGED <<table, seat>>,
           tx'[w].created = tx[w].created, tx'[w].locked = tx[w].locked,
           tx'[w].cap = tx[w].cap, tx'[w].seat = tx[w].seat, tx'[w].dropped = tx[w].dropped
    PROVE  Disjoint' /\ Exclusive'
<1>1. KeyShared(w)' = KeyShared(w)
  BY DEF KeyShared
<1>2. \A t \in tx'[w].locked : Exists(w, t)' /\ t \in Locked(w)
  BY DEF Rows, Exclusive, Exists, Locked
<1>3. \A v \in Writers \ {w} : \A t \in Locked(v) :
         t \notin DOMAIN tx'[w].cap /\ t \notin tx'[w].dropped /\ t \notin KeyShared(w)'
  BY <1>1 DEF Rows, Exclusive
<1>4. \A t \in tx'[w].created : /\ table[t].state = "absent" /\ t \in DOMAIN tx'[w].cap
                                /\ \A v \in Writers \ {w} : t \notin tx[v].created
  BY DEF Rows, Disjoint
<1>5. \A v \in Writers \ {w} : Written(v) \cap DOMAIN tx'[w].seat = {}
  BY DEF Rows, Disjoint, Written
<1> QED BY <1>2, <1>3, <1>4, <1>5, Takes DEF Rows

LEMMA ReadsHold ==
    ASSUME SInv, TypeOK', NEW w \in Writers,
           ReadCapacities(w) \/ CountTables(w) \/ ReadCurrent(w) \/ LocksTaken(w)
             \/ GuestsMoved(w) \/ CheckCapacity(w)
    PROVE  SInv'
<1>0. TypeOK /\ Rows /\ LocksHeldBy(w) /\ TxOK(tx[w])
  BY DEF SInv, LocksHeld, TypeOK
<1>1. CASE ReadCapacities(w)
  <2>1. Alone(w) /\ body'[w] = body[w] /\ pc'[w] = "update"
    BY <1>0, <1>1 DEF TypeOK, ReadCapacities, Goto, Alone
  <2>2. tx'[w] = [tx[w] EXCEPT !.checked = Lowered(w)]
    BY <1>0, <1>1 DEF TypeOK, ReadCapacities
  <2>3. /\ tx'[w].created = tx[w].created /\ tx'[w].locked = tx[w].locked /\ tx'[w].cap = tx[w].cap
        /\ tx'[w].seat = tx[w].seat /\ tx'[w].dropped = tx[w].dropped /\ tx'[w].checked = Lowered(w)
    BY <1>0, <2>2 DEF TxOK
  <2>4. UNCHANGED <<table, seat>>
    BY <1>1 DEF ReadCapacities
  <2>5. \A t \in tx'[w].checked : Exists(w, t)'
    BY <2>3, <2>4 DEF Lowered, LiveIn, Exists
  <2>6. tx'[w].dropped = {}
    BY <1>0, <1>1, <2>3 DEF Rows, Quiet, ReadCapacities
  <2> QED BY <1>0, <2>1, <2>3, <2>4, <2>5, <2>6, TakesNothing, StatementHolds
          DEF LocksHeldBy, StandsFor
<1>2. CASE ReadCurrent(w)
  <2>1. Alone(w) /\ body'[w] = body[w] /\ pc'[w] = "lock"
    BY <1>0, <1>2 DEF TypeOK, ReadCurrent, Goto, Alone
  <2>2. tx'[w] = [tx[w] EXCEPT !.checked = tx[w].checked \cup Gaining(w)]
    BY <1>0, <1>2 DEF TypeOK, ReadCurrent
  <2>3. /\ tx'[w].created = tx[w].created /\ tx'[w].locked = tx[w].locked /\ tx'[w].cap = tx[w].cap
        /\ tx'[w].seat = tx[w].seat /\ tx'[w].dropped = tx[w].dropped
        /\ tx'[w].checked = tx[w].checked \cup Gaining(w)
    BY <1>0, <2>2 DEF TxOK
  <2>4. UNCHANGED <<table, seat>>
    BY <1>2 DEF ReadCurrent
  <2>5. \A t \in tx'[w].checked : Exists(w, t)'
    <3>1. Gaining(w) \subseteq Targets(body[w])
      BY DEF Gaining, Targets
    <3> QED BY <1>0, <1>2, <2>3, <2>4, <3>1 DEF Rows, Known, Exists, ReadCurrent
  <2>6. tx'[w].dropped = {}
    BY <1>0, <1>2, <2>3 DEF Rows, Quiet, ReadCurrent
  <2> QED BY <1>0, <2>1, <2>3, <2>4, <2>5, <2>6, TakesNothing, StatementHolds
          DEF LocksHeldBy, StandsFor
<1>3. CASE CountTables(w) \/ LocksTaken(w) \/ GuestsMoved(w) \/ CheckCapacity(w)
  <2>1. UNCHANGED <<table, seat, body, tx>>
    BY <1>3 DEF CountTables, LocksTaken, GuestsMoved, CheckCapacity
  <2>2. Alone(w)
    BY <1>0, <1>3, <2>1 DEF TypeOK, CountTables, LocksTaken, GuestsMoved, CheckCapacity, Goto, Alone
  <2>3. Disjoint' /\ Exclusive'
    BY <1>0, <2>1, <2>2, TakesNothing
  <2>4. \A t \in tx'[w].checked \cup tx'[w].dropped : Exists(w, t)'
    BY <1>0, <2>1 DEF Rows, Known, Exists
  <2>5. CASE CountTables(w)
    <3>1. /\ \A t \in Targets(body[w]) : LiveIn(w, t)
          /\ pc[w] = "update"
          /\ pc'[w] = IF DOMAIN body[w].moves = {} THEN "clear" ELSE "current"
      BY <1>0, <2>5 DEF TypeOK, CountTables, Goto
    <3>2. \A t \in Targets(body'[w]) : Exists(w, t)'
      BY <2>1, <3>1 DEF LiveIn, Exists
    <3>3. tx'[w].dropped = {}
      BY <1>0, <2>1, <3>1 DEF Rows, Quiet
    <3> QED BY <2>1, <2>2, <2>3, <2>4, <3>1, <3>2, <3>3, StatementHolds DEF LocksHeldBy, StandsFor
  <2>6. CASE LocksTaken(w)
    <3>1. pc[w] = "lock" /\ ToLock(w) = {} /\ pc'[w] = "move"
      BY <1>0, <2>6 DEF TypeOK, LocksTaken, Goto
    <3>2. LocksHeldBy(w)'
      BY <2>1, <3>1 DEF LocksHeldBy, ToLock, LiveIn, Locked
    <3>3. tx'[w].dropped = {}
      BY <1>0, <2>1, <3>1 DEF Rows, Quiet
    <3> QED BY <2>1, <2>2, <2>3, <2>4, <3>1, <3>2, <3>3, StatementHolds DEF StandsFor
  <2>7. CASE GuestsMoved(w)
    <3>1. pc[w] = "move" /\ pc'[w] = "clear"
      BY <1>0, <2>7 DEF TypeOK, GuestsMoved, Goto
    <3>2. LocksHeldBy(w)'
      BY <1>0, <2>1, <3>1 DEF LocksHeldBy, LiveIn, Locked
    <3>3. tx'[w].dropped = {}
      BY <1>0, <2>1, <3>1 DEF Rows, Quiet
    <3> QED BY <2>1, <2>2, <2>3, <2>4, <3>1, <3>2, <3>3, StatementHolds DEF StandsFor
  <2>8. CASE CheckCapacity(w)
    <3>1. pc[w] = "check" /\ pc'[w] = "commit" /\ Fit(w)
      BY <1>0, <2>8 DEF TypeOK, CheckCapacity, Goto
    <3>2. LocksHeldBy(w)'
      BY <1>0, <2>1, <3>1 DEF LocksHeldBy, LiveIn, Locked
    <3>3. StandsFor(w)'
      BY <2>1, <3>1 DEF StandsFor, Fit, LiveIn, SeatedIn, SeatIn, CapIn
    <3> QED BY <2>1, <2>2, <2>3, <2>4, <3>1, <3>2, <3>3, StatementHolds
  <2> QED BY <1>3, <2>5, <2>6, <2>7, <2>8
<1> QED BY <1>1, <1>2, <1>3

LEMMA UpdateHolds ==
    ASSUME SInv, TypeOK', NEW w \in Writers, NEW t \in Tables,
           UpdateCapacity(w, t) \/ LockTable(w, t)
    PROVE  SInv'
<1>0. TypeOK /\ Rows /\ TxOK(tx[w]) /\ Disjoint /\ Exclusive
  BY DEF SInv, TypeOK, Rows
<1>1. Alone(w) /\ UNCHANGED <<table, seat, pc, body>> /\ pc[w] \in {"update", "lock"}
  BY <1>0 DEF TypeOK, UpdateCapacity, LockTable, Alone
<1>2. CASE UpdateCapacity(w, t)
  <2>1. tx'[w] = [tx[w] EXCEPT !.cap = Put(tx[w].cap, t, body[w].caps[t])]
    BY <1>0, <1>2 DEF TypeOK, UpdateCapacity
  <2>2. /\ tx'[w].created = tx[w].created /\ tx'[w].locked = tx[w].locked
        /\ tx'[w].seat = tx[w].seat /\ tx'[w].dropped = tx[w].dropped
        /\ tx'[w].checked = tx[w].checked /\ tx'[w].cap = Put(tx[w].cap, t, body[w].caps[t])
    BY <1>0, <2>1 DEF TxOK
  <2>3. DOMAIN tx'[w].cap = DOMAIN tx[w].cap \cup {t}
    BY <2>2 DEF Put
  <2>4. KeyShared(w)' = KeyShared(w)
    BY <1>1, <2>2 DEF KeyShared
  <2>5. \A v \in Writers \ {w} : \A u \in Locked(v) :
          u \notin DOMAIN tx'[w].cap /\ u \notin tx'[w].dropped /\ u \notin KeyShared(w)'
    BY <1>0, <1>2, <2>2, <2>3, <2>4 DEF Exclusive, UpdateCapacity, RowFree, Locked
  <2>6. \A u \in tx'[w].locked : Exists(w, u)' /\ u \in Locked(w)
    BY <1>0, <1>1, <2>2 DEF Exclusive, Exists, Locked
  <2>7. \A u \in tx'[w].created : /\ table[u].state = "absent" /\ u \in DOMAIN tx'[w].cap
                                  /\ \A v \in Writers \ {w} : u \notin tx[v].created
    BY <1>0, <2>2, <2>3 DEF Disjoint
  <2>8. \A v \in Writers \ {w} : Written(v) \cap DOMAIN tx'[w].seat = {}
    BY <1>0, <2>2 DEF Disjoint, Written
  <2>9. Disjoint' /\ Exclusive'
    BY <1>0, <1>1, <2>5, <2>6, <2>7, <2>8, Takes
  <2>10. tx'[w].dropped = {} /\ \A u \in tx'[w].checked : Exists(w, u)'
    BY <1>0, <1>1, <2>2 DEF Rows, Quiet, Known, Exists
  <2>11. pc'[w] = "update"
    BY <1>1, <1>2 DEF UpdateCapacity
  <2> QED BY <1>1, <2>9, <2>10, <2>11, StatementHolds DEF LocksHeldBy, StandsFor
<1>3. CASE LockTable(w, t)
  <2>1. tx'[w] = [tx[w] EXCEPT !.locked = tx[w].locked \cup {t}]
    BY <1>0, <1>3 DEF TypeOK, LockTable
  <2>2. /\ tx'[w].created = tx[w].created /\ tx'[w].locked = tx[w].locked \cup {t}
        /\ tx'[w].seat = tx[w].seat /\ tx'[w].dropped = tx[w].dropped
        /\ tx'[w].checked = tx[w].checked /\ tx'[w].cap = tx[w].cap
    BY <1>0, <2>1 DEF TxOK
  <2>4. KeyShared(w)' = KeyShared(w)
    BY <1>1, <2>2 DEF KeyShared
  <2>5. \A v \in Writers \ {w} : \A u \in Locked(v) :
          u \notin DOMAIN tx'[w].cap /\ u \notin tx'[w].dropped /\ u \notin KeyShared(w)'
    BY <1>0, <2>2, <2>4 DEF Exclusive
  <2>6. \A u \in tx'[w].locked : Exists(w, u)' /\ (u \in Locked(w) \/ LockFree(w, u))
    <3>1. t \in tx[w].checked /\ LockFree(w, t)
      BY <1>3 DEF LockTable, ToLock
    <3> QED BY <1>0, <1>1, <2>2, <3>1 DEF Rows, Known, Exclusive, Exists, Locked
  <2>7. \A u \in tx'[w].created : /\ table[u].state = "absent" /\ u \in DOMAIN tx'[w].cap
                                  /\ \A v \in Writers \ {w} : u \notin tx[v].created
    BY <1>0, <2>2 DEF Disjoint
  <2>8. \A v \in Writers \ {w} : Written(v) \cap DOMAIN tx'[w].seat = {}
    BY <1>0, <2>2 DEF Disjoint, Written
  <2>9. Disjoint' /\ Exclusive'
    BY <1>0, <1>1, <2>5, <2>6, <2>7, <2>8, Takes
  <2>10. tx'[w].dropped = {} /\ \A u \in tx'[w].checked : Exists(w, u)'
    BY <1>0, <1>1, <2>2 DEF Rows, Quiet, Known, Exists
  <2>11. pc'[w] = "lock"
    BY <1>1, <1>3 DEF LockTable
  <2> QED BY <1>1, <2>9, <2>10, <2>11, StatementHolds DEF LocksHeldBy, StandsFor
<1> QED BY <1>2, <1>3

\* Moving guests takes their rows, and a share of the tables they move to.
LEMMA SeatsHold ==
    ASSUME SInv, TypeOK', NEW w \in Writers, Alone(w), UNCHANGED <<table, seat, body>>, NEW new,
           pc[w] \in {"move", "clear"}, pc'[w] \in {"move", "clear", "drop", "check"},
           tx'[w] = [tx[w] EXCEPT !.seat = new],
           \A g \in DOMAIN new \ Written(w) : GuestFree(w, g),
           \A g \in DOMAIN new :
              \/ g \in Written(w) /\ new[g] = tx[w].seat[g]
              \/ new[g] = NoTable
              \/ ShareFree(w, g, new[g])
    PROVE  SInv'
<1>0. TypeOK /\ Rows /\ TxOK(tx[w]) /\ Disjoint /\ Exclusive /\ LocksHeldBy(w)
  BY DEF SInv, TypeOK, Rows, LocksHeld
<1>1. /\ tx'[w].created = tx[w].created /\ tx'[w].locked = tx[w].locked
      /\ tx'[w].seat = new /\ tx'[w].dropped = tx[w].dropped
      /\ tx'[w].checked = tx[w].checked /\ tx'[w].cap = tx[w].cap
  BY <1>0 DEF TxOK
<1>2. \A v \in Writers \ {w} : Written(v) \cap DOMAIN tx'[w].seat = {}
  BY <1>0, <1>1 DEF Disjoint, GuestFree, Written
<1>3. \A v \in Writers \ {w} : \A t \in Locked(v) :
        t \notin DOMAIN tx'[w].cap /\ t \notin tx'[w].dropped /\ t \notin KeyShared(w)'
  <2> SUFFICES ASSUME NEW v \in Writers \ {w}, NEW t \in Locked(v),
                      NEW g \in DOMAIN new, seat[g] # new[g]
               PROVE  t # new[g] /\ t \notin DOMAIN tx[w].cap /\ t \notin tx[w].dropped
    <3>1. \A v \in Writers \ {w} : \A t \in Locked(v) :
             t \notin DOMAIN tx[w].cap /\ t \notin tx[w].dropped
      BY <1>0 DEF Exclusive
    <3> QED BY <1>1, <3>1 DEF KeyShared
  <2>1. t \notin DOMAIN tx[w].cap /\ t \notin tx[w].dropped /\ t \notin KeyShared(w)
    BY <1>0 DEF Exclusive
  <2>2. t # NoTable
    BY <1>0, SeatingAssumption DEF TypeOK, TxOK, Locked
  <2>3. CASE g \in Written(w) /\ new[g] = tx[w].seat[g]
    BY <2>1, <2>3 DEF KeyShared, Written
  <2>4. CASE ShareFree(w, g, new[g])
    BY <2>1, <2>4 DEF ShareFree, Locked
  <2> QED BY <2>1, <2>2, <2>3, <2>4
<1>4. \A u \in tx'[w].locked : Exists(w, u)' /\ u \in Locked(w)
  BY <1>0, <1>1 DEF Exclusive, Exists, Locked
<1>5. \A u \in tx'[w].created : /\ table[u].state = "absent" /\ u \in DOMAIN tx'[w].cap
                                /\ \A v \in Writers \ {w} : u \notin tx[v].created
  BY <1>0, <1>1 DEF Disjoint
<1>6. Disjoint' /\ Exclusive'
  BY <1>0, <1>2, <1>3, <1>4, <1>5, Takes
<1>7. tx'[w].dropped = {} /\ \A u \in tx'[w].checked : Exists(w, u)'
  BY <1>0, <1>1 DEF Rows, Quiet, Known, Exists
<1>8. LocksHeldBy(w)'
  BY <1>0, <1>1 DEF LocksHeldBy, LiveIn, Locked
<1> QED BY <1>6, <1>7, <1>8, StatementHolds DEF StandsFor

LEMMA MoveHolds ==
    ASSUME SInv, TypeOK', NEW w \in Writers, ClearGuests(w) \/ \E g \in Guests : MoveGuest(w, g)
    PROVE  SInv'
<1>0. TypeOK
  BY DEF SInv
<1>1. CASE ClearGuests(w)
  <2> DEFINE seated == {g \in Guests : SeatIn(w, g) \in body[w].drops}
             new == [g \in DOMAIN tx[w].seat \cup seated |->
                       IF g \in seated THEN NoTable ELSE tx[w].seat[g]]
  <2>1. /\ Alone(w) /\ pc[w] = "clear" /\ pc'[w] \in {"drop", "check"}
        /\ UNCHANGED <<table, seat, body>>
    BY <1>0, <1>1 DEF TypeOK, ClearGuests, Goto, Alone
  <2>2. tx'[w] = [tx[w] EXCEPT !.seat = new]
    BY <1>0, <1>1 DEF TypeOK, ClearGuests
  <2>3. \A g \in seated : GuestFree(w, g)
    BY <1>1 DEF ClearGuests
  <2>4. DOMAIN new = DOMAIN tx[w].seat \cup seated
    OBVIOUS
  <2>5. \A g \in DOMAIN new : new[g] = NoTable \/ (g \in Written(w) /\ new[g] = tx[w].seat[g])
    <3> HIDE DEF seated
    <3> QED BY DEF Written
  <2>6. \A g \in DOMAIN new \ Written(w) : GuestFree(w, g)
    BY <2>3, <2>4 DEF Written
  <2> HIDE DEF new
  <2> QED BY <2>1, <2>2, <2>5, <2>6, SeatsHold
<1>2. ASSUME NEW g \in Guests, MoveGuest(w, g) PROVE SInv'
  <2> DEFINE new == Put(tx[w].seat, g, body[w].moves[g])
  <2>1. /\ Alone(w) /\ pc[w] = "move" /\ pc'[w] = "move"
        /\ UNCHANGED <<table, seat, body>>
    BY <1>0, <1>2 DEF TypeOK, MoveGuest, Alone
  <2>2. tx'[w] = [tx[w] EXCEPT !.seat = new]
    BY <1>0, <1>2 DEF TypeOK, MoveGuest
  <2>3. GuestFree(w, g) /\ ShareFree(w, g, body[w].moves[g])
    BY <1>2 DEF MoveGuest
  <2>4. /\ DOMAIN new = Written(w) \cup {g}
        /\ new[g] = body[w].moves[g]
        /\ \A h \in Written(w) \ {g} : new[h] = tx[w].seat[h]
    BY DEF Put, Written
  <2> HIDE DEF new
  <2>5. \A h \in DOMAIN new : \/ h \in Written(w) /\ new[h] = tx[w].seat[h]
                              \/ ShareFree(w, h, new[h])
    BY <2>3, <2>4
  <2>6. \A h \in DOMAIN new \ Written(w) : GuestFree(w, h)
    BY <2>3, <2>4
  <2> QED BY <2>1, <2>2, <2>5, <2>6, SeatsHold
<1> QED BY <1>1, <1>2

LEMMA DropHolds ==
    ASSUME SInv, TypeOK', NEW w \in Writers, DropTables(w)
    PROVE  SInv'
<1> DEFINE found == {t \in body[w].drops : LiveIn(w, t)}
<1>0. TypeOK /\ Rows /\ TxOK(tx[w]) /\ Disjoint /\ Exclusive /\ LocksHeldBy(w) /\ BodyOK(body[w])
  BY DEF SInv, TypeOK, Rows, LocksHeld
<1>1. /\ Alone(w) /\ UNCHANGED <<table, seat, body>> /\ pc[w] = "drop"
      /\ pc'[w] = IF body[w].kind = "delete" THEN "commit" ELSE "check"
  BY <1>0 DEF TypeOK, DropTables, Goto, Alone
<1>2. tx'[w] = [tx[w] EXCEPT !.dropped = found]
  BY <1>0 DEF TypeOK, DropTables
<1>3. /\ tx'[w].created = tx[w].created /\ tx'[w].locked = tx[w].locked
      /\ tx'[w].seat = tx[w].seat /\ tx'[w].dropped = found
      /\ tx'[w].checked = tx[w].checked /\ tx'[w].cap = tx[w].cap
  BY <1>0, <1>2 DEF TxOK
<1>4. KeyShared(w)' = KeyShared(w)
  BY <1>1, <1>3 DEF KeyShared
<1>5. \A v \in Writers \ {w} : \A u \in Locked(v) :
        u \notin DOMAIN tx'[w].cap /\ u \notin tx'[w].dropped /\ u \notin KeyShared(w)'
  <2>1. \A v \in Writers \ {w} : \A u \in found : u \notin Locked(v)
    BY DEF DropTables, RowFree, Locked
  <2> QED BY <1>0, <1>3, <1>4, <2>1 DEF Exclusive
<1>6. \A u \in tx'[w].locked : Exists(w, u)' /\ u \in Locked(w)
  BY <1>0, <1>1, <1>3 DEF Exclusive, Exists, Locked
<1>7. \A u \in tx'[w].created : /\ table[u].state = "absent" /\ u \in DOMAIN tx'[w].cap
                                /\ \A v \in Writers \ {w} : u \notin tx[v].created
  BY <1>0, <1>3 DEF Disjoint
<1>8. \A v \in Writers \ {w} : Written(v) \cap DOMAIN tx'[w].seat = {}
  BY <1>0, <1>3 DEF Disjoint, Written
<1>9. Disjoint' /\ Exclusive'
  BY <1>0, <1>1, <1>5, <1>6, <1>7, <1>8, Takes
<1>10. \A u \in tx'[w].checked \cup tx'[w].dropped : Exists(w, u)'
  <2>1. \A u \in found : Exists(w, u)
    BY DEF LiveIn, Exists
  <2> QED BY <1>0, <1>1, <1>3, <2>1 DEF Rows, Known, Exists
<1>11. LocksHeldBy(w)'
  <2>1. tx[w].dropped = {}
    BY <1>0, <1>1 DEF Rows, Quiet
  <2> QED BY <1>0, <1>1, <1>3, <2>1 DEF LocksHeldBy, LiveIn, Locked
<1>12. body[w].kind = "delete" => DOMAIN body[w].moves = {}
  BY <1>0 DEF BodyOK, IsRequest, NoBody
<1>13. StandsFor(w)'
  BY <1>1, <1>12 DEF StandsFor
<1> QED BY <1>1, <1>9, <1>10, <1>11, <1>13, StatementHolds

LEMMA BeginHolds ==
    ASSUME SInv, TypeOK', NEW w \in Writers, NEW b \in Bodies[w],
           Begin(w, b) \/ ReadGuest(w, b) \/ ReadTable(w, b)
    PROVE  SInv'
<1>0. TypeOK /\ Rows /\ Disjoint /\ Exclusive
  BY DEF SInv, Rows
<1>1. pc[w] = "idle" /\ Alone(w) /\ UNCHANGED <<table, seat>>
  BY <1>0 DEF TypeOK, Begin, ReadGuest, ReadTable, Goto, Alone
<1>2. tx[w] = NoTx
  BY <1>0, <1>1 DEF Rows, Quiet
<1>3. CASE ReadGuest(w, b) \/ ReadTable(w, b)
  <2>1. pc'[w] = "write" /\ tx'[w] = tx[w]
    BY <1>0, <1>3 DEF TypeOK, ReadGuest, ReadTable, Goto
  <2>2. Disjoint' /\ Exclusive'
    BY <1>0, <1>1, <2>1, TakesNothing
  <2>3. tx'[w].checked = {} /\ tx'[w].dropped = {}
    BY <1>2, <2>1 DEF NoTx
  <2> QED BY <1>1, <1>2, <2>1, <2>2, <2>3, StatementHolds DEF LocksHeldBy, StandsFor
<1>4. CASE Begin(w, b)
  <2> DEFINE c == b.creates
  <2>1. tx'[w] = [[NoTx EXCEPT !.created = DOMAIN c] EXCEPT !.cap = c]
    BY <1>0, <1>2, <1>4 DEF TypeOK, Begin
  <2>2. /\ tx'[w].created = DOMAIN c /\ tx'[w].cap = c /\ tx'[w].seat = Empty
        /\ tx'[w].locked = {} /\ tx'[w].dropped = {} /\ tx'[w].checked = {}
    <3> HIDE DEF c
    <3> QED BY <2>1 DEF NoTx
  <2>3. pc'[w] \in {"update", "capacities", "clear"}
    BY <1>0, <1>4, AllPlaces DEF TypeOK, Begin, Goto, First
  <2>4. \A t \in DOMAIN c : table[t].state = "absent" /\ \A v \in Writers : t \notin tx[v].created
    BY <1>4 DEF Begin
  <2> HIDE DEF c
  <2>5. DOMAIN tx'[w].seat = {} /\ KeyShared(w)' = {}
    BY <2>2 DEF Empty, KeyShared
  <2>6. \A v \in Writers \ {w} : \A u \in Locked(v) : u \notin DOMAIN c
    BY <1>0, <2>4 DEF Exclusive, Exists
  <2>7. Disjoint' /\ Exclusive'
    BY <1>0, <1>1, <2>2, <2>4, <2>5, <2>6, Takes
  <2>8. LocksHeldBy(w)' /\ StandsFor(w)'
    BY <2>2, <2>3 DEF LocksHeldBy, StandsFor
  <2> QED BY <1>1, <2>2, <2>3, <2>7, <2>8, StatementHolds
<1> QED BY <1>3, <1>4

\* The end of a request: its committed writes reach no table that another
\* transaction has locked.
LEMMA EndHolds ==
    ASSUME SInv, TypeOK', NEW w \in Writers, Done(w),
           \A v \in Writers \ {w} : \A g \in Written(v) : seat'[g] = seat[g],
           \A v \in Writers \ {w} : \A t \in tx[v].created : table'[t].state = "absent",
           \A t \in Tables : table[t].state # "absent" => table'[t].state # "absent",
           \A t \in Tables : table'[t].state = "live" => table[t].state \in {"absent", "live"},
           \A v \in Writers \ {w} : \A t \in Locked(v) :
              /\ table'[t].cap = table[t].cap
              /\ \A g \in Guests : seat'[g] = t => seat[g] = t
    PROVE  SInv'
<1>0. TypeOK /\ Rows
  BY DEF SInv
<1>1. Rows' /\ Alone(w)
  BY <1>0, Ends
<1>2. pc'[w] = "idle"
  BY <1>0 DEF TypeOK, Done, Goto
<1>3. \A v \in Writers \ {w} : LocksHeldBy(v)' /\ StandsFor(v)'
  <2> SUFFICES ASSUME NEW v \in Writers \ {w} PROVE LocksHeldBy(v)' /\ StandsFor(v)'
    OBVIOUS
  <2>1. LocksHeldBy(v) /\ StandsFor(v)
    BY DEF SInv, LocksHeld, CheckStands, StandsFor
  <2> QED BY <1>0, <1>1, <2>1, OthersHold
<1>4. LocksHeld' /\ CheckStands'
  BY <1>2, <1>3 DEF LocksHeld, LocksHeldBy, CheckStands, StandsFor
<1> QED BY <1>1, <1>4 DEF SInv

LEMMA CommitHolds ==
    ASSUME SInv, TypeOK', NEW w \in Writers, Commit(w)
    PROVE  SInv'
<1>0. TypeOK /\ Rows /\ Disjoint /\ Exclusive /\ Known /\ Done(w)
  BY DEF SInv, Rows, Commit
<1>1. \A v \in Writers : tx[v].created \cup tx[v].locked \cup tx[v].dropped \subseteq Tables
                         /\ Written(v) \subseteq Guests
  BY <1>0, PartialIs DEF TypeOK, TxOK, Written
<1>2. \A t \in Tables :
        /\ table'[t].cap = CapIn(w, t)
        /\ table'[t].state = IF t \in tx[w].dropped THEN "deleted"
                             ELSE IF t \in tx[w].created THEN "live" ELSE table[t].state
  BY DEF Commit
<1>3. \A g \in Guests : seat'[g] = SeatIn(w, g)
  BY DEF Commit
<1>4. \A v \in Writers \ {w} : \A g \in Written(v) : seat'[g] = seat[g]
  BY <1>0, <1>1, <1>3 DEF Disjoint, Written, SeatIn
<1>5. \A v \in Writers \ {w} : \A t \in tx[v].created : table'[t].state = "absent"
  <2> SUFFICES ASSUME NEW v \in Writers \ {w}, NEW t \in tx[v].created PROVE table'[t].state = "absent"
    OBVIOUS
  <2>1. table[t].state = "absent" /\ t \notin tx[w].created /\ t \in Tables
    BY <1>0, <1>1 DEF Disjoint
  <2>2. t \notin tx[w].dropped
    BY <1>0, <2>1 DEF Known, Exists
  <2> QED BY <1>2, <2>1, <2>2
<1>6. \A t \in Tables : /\ table[t].state # "absent" => table'[t].state # "absent"
                        /\ table'[t].state = "live" => table[t].state \in {"absent", "live"}
  BY <1>0, <1>2 DEF Disjoint
<1>7. ASSUME NEW v \in Writers \ {w}, NEW t \in Locked(v)
      PROVE  /\ table'[t].cap = table[t].cap
             /\ \A g \in Guests : seat'[g] = t => seat[g] = t
  <2>1. t \in Tables /\ t \notin DOMAIN tx[w].cap /\ t \notin KeyShared(w)
    BY <1>0, <1>1 DEF Exclusive, Locked
  <2>2. table'[t].cap = table[t].cap
    BY <1>2, <2>1 DEF CapIn
  <2>3. ASSUME NEW g \in Guests, seat'[g] = t PROVE seat[g] = t
    BY <1>3, <2>1, <2>3 DEF SeatIn, KeyShared
  <2> QED BY <2>2, <2>3
<1> QED BY <1>0, <1>4, <1>5, <1>6, <1>7, EndHolds

LEMMA PlainHolds ==
    ASSUME SInv, TypeOK', NEW w \in Writers, Rollback(w) \/ WriteGuest(w) \/ WriteTable(w)
    PROVE  SInv'
<1>0. TypeOK /\ Rows /\ Disjoint
  BY DEF SInv, Rows
<1>1. \A v \in Writers : tx[v].created \cup tx[v].locked \subseteq Tables /\ Written(v) \subseteq Guests
  BY <1>0, PartialIs DEF TypeOK, TxOK, Written
<1>2. CASE Rollback(w)
  BY <1>0, <1>2, EndHolds DEF Rollback, Disjoint
<1>3. CASE WriteGuest(w)
  <2>1. Done(w) /\ table' = table
    BY <1>3 DEF WriteGuest
  <2>2. \A v \in Writers \ {w} : \A g \in Written(v) : seat'[g] = seat[g]
    BY <1>1, <1>3 DEF WriteGuest, GuestFree, Written
  <2>3. \A v \in Writers \ {w} : \A t \in Locked(v) : \A g \in Guests : seat'[g] = t => seat[g] = t
    BY <1>3 DEF WriteGuest, ShareFree, Locked
  <2> QED BY <1>0, <2>1, <2>2, <2>3, EndHolds DEF Disjoint
<1>4. CASE WriteTable(w)
  <2>1. Done(w) /\ seat' = seat
    BY <1>4 DEF WriteTable
  <2>2. \A t \in Tables :
          \/ table'[t] = table[t]
          \/ RowFree(w, t) /\ table[t].state = "live" /\ table'[t].state = "live"
    BY <1>4 DEF WriteTable
  <2>3. \A v \in Writers \ {w} : \A t \in Locked(v) : table'[t].cap = table[t].cap
    BY <1>1, <2>2 DEF RowFree, Locked
  <2>4. \A v \in Writers \ {w} : \A t \in tx[v].created : table'[t].state = "absent"
    BY <1>0, <1>1, <2>2 DEF Disjoint
  <2> QED BY <2>1, <2>2, <2>3, <2>4, EndHolds
<1> QED BY <1>2, <1>3, <1>4

LEMMA InitHolds == Init => SInv
<1> SUFFICES ASSUME Init PROVE SInv
  OBVIOUS
<1>1. \A w \in Writers : pc[w] = "idle" /\ tx[w] = NoTx
  BY DEF Init
<1>2. \A w \in Writers : /\ tx[w].created = {} /\ tx[w].locked = {} /\ tx[w].dropped = {}
                         /\ tx[w].checked = {} /\ DOMAIN tx[w].seat = {}
  BY <1>1 DEF NoTx, Empty
<1>3. Rows
  BY <1>1, <1>2 DEF Rows, Quiet, Disjoint, Exclusive, Known, Locked, Written
<1>4. LocksHeld /\ CheckStands
  BY <1>1 DEF LocksHeld, LocksHeldBy, CheckStands
<1> QED BY <1>3, <1>4, InitType DEF SInv

LEMMA NextHolds == SInv /\ [Next]_vars => SInv'
<1> SUFFICES ASSUME SInv, [Next]_vars PROVE SInv'
  OBVIOUS
<1>0. TypeOK'
  BY NextType DEF SInv
<1>1. CASE UNCHANGED vars
  BY <1>0, <1>1 DEF vars, SInv, Rows, Quiet, Disjoint, Exclusive, Known, LocksHeld, LocksHeldBy, CheckStands,
       Exists, KeyShared, Locked, Written, LiveIn, SeatedIn, SeatIn, CapIn
<1>2. ASSUME NEW w \in Writers, Serve(w) PROVE SInv'
  BY <1>0, <1>2, ReadsHold, UpdateHolds, MoveHolds, DropHolds, BeginHolds, CommitHolds, PlainHolds
     DEF Serve
<1> QED BY <1>1, <1>2 DEF Next

\* What the capacity check of a plan save or bulk assignment found of the tables
\* that gain guests still holds when the transaction commits, however many
\* requests write guests and tables meanwhile.
THEOREM SeatingCheckStands == Spec => []CheckStands
<1>1. SInv => CheckStands
  BY DEF SInv
<1> QED BY <1>1, InitHolds, NextHolds, PTL DEF Spec

-----------------------------------------------------------------------------
(* No table over capacity, for requests that edit guests and tables of     *)
(* their own.                                                              *)

Saving == {"update", "current", "lock", "move"}
Ending == {"clear", "drop", "check", "commit"}
Gone(t) == t \in Tables /\ table[t].state = "deleted"

\* A request under way is one of those clients send; an edit may have put in
\* what it read.
Drafted(w) ==
    pc[w] = "idle" \/ \E b \in Bodies[w] :
       /\ body[w].kind = b.kind /\ body[w].creates = b.creates
       /\ DOMAIN body[w].moves = DOMAIN b.moves /\ DOMAIN body[w].caps = DOMAIN b.caps
       /\ b.kind # "edit" => body[w].moves = b.moves
       /\ b.kind # "rename" => body[w].caps = b.caps

\* Which statements a request goes through, and what it has written by then.
Stages(w) ==
    /\ pc[w] = "capacities" => body[w].kind = "plan" /\ DOMAIN tx[w].cap \subseteq tx[w].created
    /\ pc[w] \in Saving => body[w].kind \in {"assign", "plan"}
    /\ pc[w] \in Ending => body[w].kind \in {"assign", "plan", "delete"}
    /\ pc[w] \in {"capacities", "update", "current", "lock"} => DOMAIN tx[w].seat = {}
    /\ pc[w] \in {"current", "lock", "move"} => DOMAIN body[w].moves # {}
    /\ tx[w].created \subseteq DOMAIN body[w].creates
    /\ tx[w].dropped \subseteq body[w].drops

\* The tables guests move to are there, and the request does not drop them.
Counted(w) ==
    pc[w] \in {"current", "lock", "move"} \cup Ending =>
       \A t \in Targets(body[w]) : Exists(w, t) /\ t \notin body[w].drops

\* A guest that moves gains a table that will be checked, sits there already, or
\* its table is gone.
Placed(w) ==
    \/ pc[w] \in {"lock", "move"} \cup Ending
    \/ pc[w] = "write" /\ body[w].kind \in {"guest", "edit"}
    => \A g \in DOMAIN body[w].moves :
          \/ body[w].moves[g] = NoTable \/ body[w].moves[g] \in tx[w].checked
          \/ seat[g] = body[w].moves[g] \/ Gone(body[w].moves[g])

\* Guests go where the request says, or lose a table that goes with it.
Asked(w) ==
    \A g \in DOMAIN tx[w].seat :
       \/ g \in DOMAIN body[w].moves /\ tx[w].seat[g] = body[w].moves[g]
       \/ tx[w].seat[g] = NoTable

Cleared(w) ==
    \A g \in DOMAIN tx[w].seat \ DOMAIN body[w].moves :
       \/ Gone(seat[g])
       \/ pc[w] = "drop" /\ seat[g] \in body[w].drops
       \/ pc[w] \in {"check", "commit"} /\ seat[g] \in tx[w].dropped

\* A capacity that is written is that of the draft, and a lowered one will be
\* checked.
Lowers(w) ==
    /\ \A t \in DOMAIN tx[w].cap :
         \/ t \in tx[w].created /\ tx[w].cap[t] = body[w].creates[t]
         \/ /\ t \in DOMAIN body[w].caps /\ tx[w].cap[t] = body[w].caps[t]
            /\ table[t].state # "absent"
    /\ pc[w] \in Saving \cup Ending =>
         \A t \in DOMAIN tx[w].cap \ tx[w].created :
            t \in tx[w].checked \/ Gone(t) \/ table[t].cap <= body[w].caps[t]
    /\ pc[w] = "update" =>
         \A t \in DOMAIN body[w].caps :
            LiveIn(w, t) => t \in tx[w].checked \cup tx[w].created \/ table[t].cap <= body[w].caps[t]
    /\ pc[w] = "write" /\ body[w].kind = "rename" =>
         \A t \in DOMAIN body[w].caps : table[t].cap = body[w].caps[t]

\* A request that moves nobody checks the tables it makes smaller.
Smaller(w) ==
    /\ pc[w] = "update" => tx[w].checked \subseteq DOMAIN body[w].caps
    /\ pc[w] \in Ending /\ DOMAIN body[w].moves = {} => tx[w].checked \subseteq DOMAIN tx[w].cap
    /\ body[w].kind = "delete" => tx[w].checked = {}

\* CheckStands of every request, those that move nobody included.
Fits(w) ==
    pc[w] = "commit" =>
       \A t \in tx[w].checked : LiveIn(w, t) => Seats[SeatedIn(w, t)] <= CapIn(w, t)

DraftHolds(w) ==
    /\ Drafted(w) /\ Stages(w) /\ Counted(w) /\ Placed(w)
    /\ Asked(w) /\ Cleared(w) /\ Lowers(w) /\ Smaller(w) /\ Fits(w)

\* No guest sits at a table that never was, and no table is larger than the
\* largest edit that takes no lock may make it.
Housed == \A g \in Guests : seat[g] # NoTable => table[seat[g]].state # "absent"
Capped ==
    \A w \in Writers : \A b \in Bodies[w] :
       b.kind = "table" => \A t \in DOMAIN b.caps : table[t].cap <= b.caps[t]

Committed == Housed /\ Capped /\ NeverOver
DInv == Committed /\ \A w \in Writers : DraftHolds(w)

\* Nothing is asked between requests.
IdleIsFree == \A w \in Writers : pc[w] = "idle" /\ tx[w] = NoTx => DraftHolds(w)

LEMMA IdleHolds == IdleIsFree
<1> SUFFICES ASSUME NEW w \in Writers, pc[w] = "idle", tx[w] = NoTx PROVE DraftHolds(w)
  BY DEF IdleIsFree
<1>1. /\ tx[w].created = {} /\ tx[w].dropped = {} /\ tx[w].checked = {}
      /\ DOMAIN tx[w].seat = {} /\ DOMAIN tx[w].cap = {}
  BY DEF NoTx, Empty
<1> QED BY <1>1 DEF DraftHolds, Drafted, Stages, Counted, Placed, Asked, Cleared, Lowers, Smaller,
                    Fits, Saving, Ending

\* Two requests under way edit different guests and tables.
LEMMA Apart ==
    ASSUME OwnDrafts, NEW w \in Writers, NEW v \in Writers \ {w}, Drafted(w), Drafted(v),
           pc[w] # "idle", pc[v] # "idle"
    PROVE  /\ DOMAIN body[w].moves \cap DOMAIN body[v].moves = {}
           /\ DOMAIN body[w].caps \cap DOMAIN body[v].caps = {}
           /\ DOMAIN body[v].caps \cap DOMAIN body[w].creates = {}
<1>1. PICK b \in Bodies[w] :
        /\ body[w].creates = b.creates
        /\ DOMAIN body[w].moves = DOMAIN b.moves /\ DOMAIN body[w].caps = DOMAIN b.caps
  BY DEF Drafted
<1>2. PICK c \in Bodies[v] :
        DOMAIN body[v].moves = DOMAIN c.moves /\ DOMAIN body[v].caps = DOMAIN c.caps
  BY DEF Drafted
<1>3. /\ DOMAIN c.moves \cap DOMAIN b.moves = {}
      /\ DOMAIN c.caps \cap (DOMAIN b.caps \cup DOMAIN b.creates) = {}
  BY DEF OwnDrafts
<1> QED BY <1>1, <1>2, <1>3

\* What w writes leaves standing what v knows and wrote.
LEMMA DraftsStand ==
    ASSUME TypeOK, TypeOK', Rows, CheckStands', NEW w \in Writers, Alone(w),
           NEW v \in Writers \ {w}, DraftHolds(v),
           \A g \in Written(v) : seat'[g] = seat[g],
           \A g \in DOMAIN body[v].moves : \A t \in Tables :
              seat[g] = t => seat'[g] = t \/ table'[t].state = "deleted",
           \A t \in Tables : /\ table[t].state = "deleted" => table'[t].state = "deleted"
                             /\ table[t].state # "absent" => table'[t].state # "absent"
                             /\ table'[t].state = "live" => table[t].state \in {"absent", "live"},
           \A t \in DOMAIN body[v].caps :
              /\ table'[t].cap = table[t].cap
              /\ table[t].state = "absent" => table'[t].state = "absent",
           \A t \in DOMAIN tx[v].cap : LiveIn(v, t) => \A g \in Guests : seat'[g] = t => seat[g] = t
    PROVE  DraftHolds(v)'
<1>1. tx'[v] = tx[v] /\ body'[v] = body[v] /\ pc'[v] = pc[v]
  BY DEF Alone
<1>2. /\ tx[v].checked \subseteq Tables /\ tx[v].created \subseteq Tables
      /\ DOMAIN tx[v].cap \subseteq Tables /\ Written(v) \subseteq Guests
      /\ DOMAIN body[v].caps \subseteq Tables /\ Targets(body[v]) \subseteq Tables
      /\ DOMAIN body[v].moves \subseteq Guests
      /\ \A g \in DOMAIN body[v].moves : body[v].moves[g] \in Tables \cup {NoTable}
  <2>1. TxOK(tx[v])
    BY DEF TypeOK
  <2>2. IsPartial(tx[v].cap, Tables, Nat) /\ IsPartial(tx[v].seat, Guests, Tables \cup {NoTable})
    BY <2>1 DEF TxOK
  <2>3. DOMAIN tx[v].cap \subseteq Tables /\ Written(v) \subseteq Guests
    BY <2>2, PartialIs DEF Written
  <2>4. tx[v].checked \subseteq Tables /\ tx[v].created \subseteq Tables
    BY <2>1 DEF TxOK
  <2> QED BY <2>3, <2>4, RequestParts DEF Targets
<1>3. Drafted(v)' /\ Stages(v)' /\ Smaller(v)' /\ Asked(v)'
  BY <1>1 DEF DraftHolds, Drafted, Stages, Smaller, Asked
<1>4. \A t \in Tables : Gone(t) => Gone(t)'
  BY DEF Gone
<1>5. Counted(v)'
  BY <1>1, <1>2 DEF DraftHolds, Counted, Exists
<1>6. Placed(v)'
  <2> SUFFICES ASSUME Placed(v),
                      \/ pc[v] \in {"lock", "move"} \cup Ending
                      \/ pc[v] = "write" /\ body[v].kind \in {"guest", "edit"},
                      NEW g \in DOMAIN body[v].moves
               PROVE  \/ body[v].moves[g] = NoTable \/ body[v].moves[g] \in tx[v].checked
                      \/ seat'[g] = body[v].moves[g]
                      \/ table'[body[v].moves[g]].state = "deleted"
    BY <1>1, <1>2 DEF DraftHolds, Placed, Gone
  <2>1. \/ body[v].moves[g] = NoTable \/ body[v].moves[g] \in tx[v].checked
        \/ seat[g] = body[v].moves[g] \/ Gone(body[v].moves[g])
    BY DEF Placed
  <2> QED BY <1>2, <2>1 DEF Gone
<1>7. Cleared(v)'
  BY <1>1, <1>4 DEF DraftHolds, Cleared, Written, Gone
<1>8. \A t \in DOMAIN body[v].caps : LiveIn(v, t)' => LiveIn(v, t)
  BY <1>1, <1>2 DEF LiveIn
<1>9. Lowers(v)'
  <2>1. Lowers(v)
    BY DEF DraftHolds
  <2>2. \A t \in DOMAIN tx[v].cap :
         \/ t \in tx[v].created /\ tx[v].cap[t] = body[v].creates[t]
         \/ /\ t \in DOMAIN body[v].caps /\ tx[v].cap[t] = body[v].caps[t]
            /\ table'[t].state # "absent"
    BY <1>2, <2>1 DEF Lowers
  <2>3. pc[v] \in Saving \cup Ending =>
         \A t \in DOMAIN tx[v].cap \ tx[v].created :
            t \in tx[v].checked \/ Gone(t)' \/ table'[t].cap <= body[v].caps[t]
    BY <1>2, <1>4, <2>1 DEF Lowers
  <2>4. pc[v] = "update" =>
         \A t \in DOMAIN body[v].caps :
            LiveIn(v, t)' => t \in tx[v].checked \cup tx[v].created \/ table'[t].cap <= body[v].caps[t]
    BY <1>8, <2>1 DEF Lowers
  <2>5. pc[v] = "write" /\ body[v].kind = "rename" =>
         \A t \in DOMAIN body[v].caps : table'[t].cap = body[v].caps[t]
    BY <2>1 DEF Lowers
  <2> QED BY <1>1, <2>2, <2>3, <2>4, <2>5 DEF Lowers
<1>10. Fits(v)'
  <2>1. CASE DOMAIN body[v].moves # {}
    BY <1>1, <2>1 DEF CheckStands, Fits
  <2>2. ASSUME DOMAIN body[v].moves = {}, pc[v] = "commit", NEW t \in tx[v].checked, LiveIn(v, t)'
        PROVE  Seats[SeatedIn(v, t)'] <= CapIn(v, t)'
    <3>1. t \in DOMAIN tx[v].cap /\ t \in Tables
      BY <1>2, <2>2 DEF DraftHolds, Smaller, Ending
    <3>2. LiveIn(v, t)
      BY <1>1, <2>2, <3>1 DEF LiveIn, Rows, Known, Exists
    <3>3. Seats[SeatedIn(v, t)] <= CapIn(v, t)
      BY <2>2, <3>2 DEF DraftHolds, Fits
    <3>4. CapIn(v, t)' = CapIn(v, t)
      BY <1>1, <3>1 DEF CapIn
    <3>5. SeatedIn(v, t)' \subseteq SeatedIn(v, t) /\ SeatedIn(v, t) \subseteq Guests
      BY <1>1, <3>1, <3>2 DEF SeatedIn, SeatIn
    <3>6. Seats[SeatedIn(v, t)'] <= Seats[SeatedIn(v, t)]
      BY <3>5, SeatingAssumption
    <3>7. Seats[SeatedIn(v, t)'] \in Nat /\ Seats[SeatedIn(v, t)] \in Nat /\ CapIn(v, t) \in Nat
      BY <3>1, <3>5, SeatingAssumption, ViewTypes
    <3> QED BY <3>3, <3>4, <3>6, <3>7
  <2> QED BY <1>1, <2>1, <2>2 DEF Fits
<1> QED BY <1>3, <1>5, <1>6, <1>7, <1>9, <1>10 DEF DraftHolds

\* A statement that leaves the committed rows alone need only keep what is
\* known of its own request.
LEMMA StatementDrafts ==
    ASSUME SInv, SInv', DInv, NEW w \in Writers, Alone(w), UNCHANGED <<table, seat>>, DraftHolds(w)'
    PROVE  DInv'
<1>1. Committed'
  BY DEF DInv, Committed, Housed, Capped, NeverOver, Over
<1>2. TypeOK /\ TypeOK' /\ Rows /\ CheckStands'
  BY DEF SInv
<1>3. \A v \in Writers \ {w} : DraftHolds(v)'
  <2> SUFFICES ASSUME NEW v \in Writers \ {w} PROVE DraftHolds(v)'
    OBVIOUS
  <2>1. DraftHolds(v)
    BY DEF DInv
  <2>2. \A t \in Tables : table'[t].state = "live" => table[t].state \in {"absent", "live"}
    OBVIOUS
  <2> QED BY <1>2, <2>1, <2>2, DraftsStand
<1> QED BY <1>1, <1>3 DEF DInv

\* What the types say of the request and the transaction of w.
LEMMA OwnTypes ==
    ASSUME TypeOK, NEW w \in Writers
    PROVE  /\ tx[w].checked \subseteq Tables /\ tx[w].created \subseteq Tables
           /\ tx[w].dropped \subseteq Tables
           /\ DOMAIN tx[w].cap \subseteq Tables /\ DOMAIN tx[w].seat \subseteq Guests
           /\ \A t \in DOMAIN tx[w].cap : tx[w].cap[t] \in Nat
           /\ \A t \in Tables : table[t].cap \in Nat
                                /\ table[t].state \in {"absent", "live", "deleted"}
           /\ \A t \in DOMAIN body[w].caps : body[w].caps[t] \in Nat
           /\ DOMAIN body[w].caps \subseteq Tables /\ DOMAIN body[w].moves \subseteq Guests
           /\ body[w].drops \subseteq Tables
           /\ \A g \in DOMAIN body[w].moves : body[w].moves[g] \in Tables \cup {NoTable}
           /\ body[w].kind = "delete" => DOMAIN body[w].moves = {}
           /\ body[w].kind = "assign" => DOMAIN body[w].caps = {} /\ body[w].drops = {}
<1>1. TxOK(tx[w]) /\ BodyOK(body[w])
  BY DEF TypeOK
<1>2. IsPartial(tx[w].cap, Tables, Nat) /\ IsPartial(tx[w].seat, Guests, Tables \cup {NoTable})
  BY <1>1 DEF TxOK
<1>3. /\ DOMAIN tx[w].cap \subseteq Tables /\ DOMAIN tx[w].seat \subseteq Guests
      /\ \A t \in DOMAIN tx[w].cap : tx[w].cap[t] \in Nat
  BY <1>2, PartialIs
<1>4. tx[w].checked \subseteq Tables /\ tx[w].created \subseteq Tables /\ tx[w].dropped \subseteq Tables
  BY <1>1 DEF TxOK
<1>5. \A t \in Tables : table[t].cap \in Nat /\ table[t].state \in {"absent", "live", "deleted"}
  BY DEF TypeOK
<1>6. /\ body[w].kind = "delete" => DOMAIN body[w].moves = {}
      /\ body[w].kind = "assign" => DOMAIN body[w].caps = {} /\ body[w].drops = {}
  BY <1>1 DEF BodyOK, IsRequest, NoBody
<1> QED BY <1>3, <1>4, <1>5, <1>6, RequestParts

\* The clients' request, as it begins or as an edit has read its rows.
LEMMA BeginDrafts ==
    ASSUME OwnDrafts, SInv, SInv', DInv, NEW w \in Writers, NEW b \in Bodies[w],
           Begin(w, b) \/ ReadGuest(w, b) \/ ReadTable(w, b)
    PROVE  DInv'
<1>0. TypeOK /\ Rows /\ IsRequest(b)
  BY BodyAssumption DEF SInv
<1>1. pc[w] = "idle" /\ Alone(w) /\ UNCHANGED <<table, seat>>
  BY <1>0 DEF TypeOK, Begin, ReadGuest, ReadTable, Goto, Alone
<1>2. tx[w] = NoTx
  BY <1>0, <1>1 DEF Rows, Quiet
<1>3. /\ NoTx.created = {} /\ NoTx.dropped = {} /\ NoTx.checked = {}
      /\ DOMAIN NoTx.seat = {} /\ DOMAIN NoTx.cap = {}
  BY DEF NoTx, Empty
<1>4. CASE Begin(w, b)
  <2> DEFINE c == b.creates
  <2>1. tx'[w] = [[NoTx EXCEPT !.created = DOMAIN c] EXCEPT !.cap = c]
    BY <1>0, <1>2, <1>4 DEF TypeOK, Begin
  <2>2. /\ tx'[w].created = DOMAIN c /\ tx'[w].cap = c /\ tx'[w].seat = Empty
        /\ tx'[w].dropped = {} /\ tx'[w].checked = {}
    <3> HIDE DEF c
    <3> QED BY <2>1 DEF NoTx
  <2>3. body'[w] = b
    BY <1>0, <1>4 DEF TypeOK, Begin
  <2>4. /\ pc'[w] \in {"update", "capacities", "clear"}
        /\ b.kind = "assign" => pc'[w] = "update"
        /\ b.kind = "plan" => pc'[w] = "capacities"
        /\ b.kind = "delete" => pc'[w] = "clear"
        /\ b.kind \in {"assign", "plan", "delete"}
    BY <1>0, <1>4, AllPlaces DEF TypeOK, Begin, Goto, First
  <2>5. /\ b.kind = "delete" => DOMAIN b.moves = {}
        /\ b.kind = "assign" => DOMAIN b.caps = {}
    BY <1>0 DEF IsRequest
  <2> HIDE DEF c
  <2>6. DOMAIN tx'[w].seat = {}
    BY <2>2 DEF Empty
  <2>7. Drafted(w)'
    BY <2>3 DEF Drafted
  <2>8. Stages(w)'
    BY <2>2, <2>3, <2>4, <2>6 DEF Stages, Saving, Ending, c
  <2>9. Counted(w)' /\ Placed(w)'
    BY <2>3, <2>4, <2>5 DEF Counted, Placed, Targets, Ending
  <2>10. Asked(w)' /\ Cleared(w)'
    BY <2>6 DEF Asked, Cleared
  <2>11. Lowers(w)'
    BY <2>2, <2>3, <2>4, <2>5 DEF Lowers, c
  <2>12. Smaller(w)' /\ Fits(w)'
    BY <2>2, <2>4 DEF Smaller, Fits
  <2> QED BY <1>1, <2>7, <2>8, <2>9, <2>10, <2>11, <2>12, StatementDrafts DEF DraftHolds
<1>5. ASSUME pc'[w] = "write", tx'[w] = NoTx, body'[w].kind = b.kind,
             b.kind \notin {"assign", "plan", "delete"},
             Drafted(w)', Placed(w)',
             b.kind = "rename" => \A t \in DOMAIN body'[w].caps : table[t].cap = body'[w].caps[t]
      PROVE  DInv'
  <2>1. Stages(w)' /\ Counted(w)'
    BY <1>3, <1>5 DEF Stages, Counted, Saving, Ending
  <2>2. Asked(w)' /\ Cleared(w)'
    BY <1>3, <1>5 DEF Asked, Cleared
  <2>3. Lowers(w)' /\ Smaller(w)' /\ Fits(w)'
    BY <1>1, <1>3, <1>5 DEF Lowers, Smaller, Fits, Saving, Ending
  <2> QED BY <1>1, <1>5, <2>1, <2>2, <2>3, StatementDrafts DEF DraftHolds
<1>6. CASE ReadGuest(w, b)
  <2> DEFINE read == [g \in DOMAIN b.moves |-> IF b.kind = "edit" THEN seat[g] ELSE b.moves[g]]
  <2>1. pc'[w] = "write" /\ tx'[w] = NoTx
    BY <1>0, <1>2, <1>6 DEF TypeOK, ReadGuest, Goto
  <2>2. body'[w] = [b EXCEPT !.moves = read] /\ b.kind \in {"guest", "edit"}
    BY <1>0, <1>6 DEF TypeOK, ReadGuest
  <2>3. IsPartial(b.moves, Guests, Tables \cup {NoTable})
    BY <1>0 DEF IsRequest
  <2>4. b.moves = [g \in DOMAIN b.moves |-> b.moves[g]]
    BY <2>3, PartialIs
  <2>5. b.kind # "edit" => read = b.moves
    BY <2>4
  <2>6. DOMAIN read = DOMAIN b.moves /\ \A g \in DOMAIN read : read[g] = NoTable \/ seat[g] = read[g]
    BY <2>2 DEF OwnDrafts
  <2> HIDE DEF read
  <2>7. /\ body'[w].moves = read /\ body'[w].kind = b.kind /\ body'[w].caps = b.caps
        /\ body'[w].creates = b.creates
    BY <1>0, <2>2 DEF IsRequest
  <2>8. Drafted(w)'
    BY <2>5, <2>6, <2>7 DEF Drafted
  <2>9. Placed(w)'
    BY <1>1, <2>6, <2>7 DEF Placed
  <2> QED BY <1>5, <2>1, <2>2, <2>7, <2>8, <2>9
<1>7. CASE ReadTable(w, b)
  <2> DEFINE read == [t \in DOMAIN b.caps |-> IF b.kind = "rename" THEN table[t].cap ELSE b.caps[t]]
  <2>1. pc'[w] = "write" /\ tx'[w] = NoTx
    BY <1>0, <1>2, <1>7 DEF TypeOK, ReadTable, Goto
  <2>2. body'[w] = [b EXCEPT !.caps = read] /\ b.kind \in {"table", "rename"}
    BY <1>0, <1>7 DEF TypeOK, ReadTable
  <2>3. IsPartial(b.caps, Tables, Nat)
    BY <1>0 DEF IsRequest
  <2>4. b.caps = [t \in DOMAIN b.caps |-> b.caps[t]]
    BY <2>3, PartialIs
  <2>5. b.kind # "rename" => read = b.caps
    BY <2>4
  <2>6. /\ DOMAIN read = DOMAIN b.caps
        /\ b.kind = "rename" => \A t \in DOMAIN read : table[t].cap = read[t]
    OBVIOUS
  <2> HIDE DEF read
  <2>7. /\ body'[w].caps = read /\ body'[w].kind = b.kind /\ body'[w].moves = b.moves
        /\ body'[w].creates = b.creates
    BY <1>0, <2>2 DEF IsRequest
  <2>8. Drafted(w)'
    BY <2>5, <2>6, <2>7 DEF Drafted
  <2>9. Placed(w)'
    BY <2>1, <2>2, <2>7 DEF Placed, Ending
  <2> QED BY <1>5, <2>1, <2>2, <2>6, <2>7, <2>8, <2>9
<1> QED BY <1>4, <1>6, <1>7

\* The statements before the first guest is moved.
LEMMA ReadDrafts ==
    ASSUME SInv, SInv', DInv, NEW w \in Writers,
           \/ ReadCapacities(w) \/ CountTables(w) \/ ReadCurrent(w)
           \/ \E t \in Tables : UpdateCapacity(w, t)
    PROVE  DInv'
<1>0. TypeOK /\ Rows /\ Disjoint /\ DraftHolds(w) /\ TxOK(tx[w])
  BY DEF SInv, Rows, DInv, TypeOK
<1> USE DEF DraftHolds
<1>1. CASE ReadCapacities(w)
  <2>1. /\ Alone(w) /\ body'[w] = body[w] /\ pc[w] = "capacities" /\ pc'[w] = "update"
        /\ UNCHANGED <<table, seat>>
    BY <1>0, <1>1 DEF TypeOK, ReadCapacities, Goto, Alone
  <2>2. tx'[w] = [tx[w] EXCEPT !.checked = Lowered(w)]
    BY <1>0, <1>1 DEF TypeOK, ReadCapacities
  <2>3. /\ tx'[w].created = tx[w].created /\ tx'[w].cap = tx[w].cap
        /\ tx'[w].seat = tx[w].seat /\ tx'[w].dropped = tx[w].dropped /\ tx'[w].checked = Lowered(w)
    BY <1>0, <2>2 DEF TxOK
  <2>4. Drafted(w)' /\ Stages(w)' /\ Counted(w)' /\ Placed(w)' /\ Asked(w)'
    BY <1>0, <2>1, <2>3 DEF Drafted, Stages, Counted, Placed, Asked, Saving, Ending
  <2>5. Cleared(w)'
    BY <1>0, <2>1, <2>3 DEF Cleared, Stages
  <2>6. DOMAIN tx[w].cap \subseteq tx[w].created
    BY <1>0, <2>1 DEF Stages
  <2>7. ASSUME NEW t \in DOMAIN body[w].caps, LiveIn(w, t), t \notin Lowered(w), t \notin tx[w].created
        PROVE  table[t].cap <= body[w].caps[t]
    <3>1. ~(body[w].caps[t] < CapIn(w, t)) /\ CapIn(w, t) = table[t].cap
      BY <2>6, <2>7 DEF Lowered, CapIn
    <3> QED BY <1>0, <2>7, <3>1, OwnTypes
  <2>8. Lowers(w)'
    <3>1. \A t \in DOMAIN body[w].caps : LiveIn(w, t)' => LiveIn(w, t)
      BY <2>1, <2>3 DEF LiveIn
    <3> QED BY <1>0, <2>1, <2>3, <2>6, <2>7, <3>1 DEF Lowers
  <2>9. Smaller(w)' /\ Fits(w)'
    BY <1>0, <2>1, <2>3 DEF Smaller, Fits, Stages, Lowered, Ending
  <2> QED BY <2>1, <2>4, <2>5, <2>8, <2>9, StatementDrafts
<1>2. ASSUME NEW t \in Tables, UpdateCapacity(w, t) PROVE DInv'
  <2>1. /\ Alone(w) /\ UNCHANGED <<table, seat, pc, body>> /\ pc[w] = "update"
        /\ t \in DOMAIN body[w].caps \ DOMAIN tx[w].cap /\ LiveIn(w, t)
    BY <1>0, <1>2 DEF TypeOK, UpdateCapacity, Alone
  <2>2. tx'[w] = [tx[w] EXCEPT !.cap = Put(tx[w].cap, t, body[w].caps[t])]
    BY <1>0, <1>2 DEF TypeOK, UpdateCapacity
  <2>3. /\ tx'[w].created = tx[w].created /\ tx'[w].seat = tx[w].seat /\ tx'[w].dropped = tx[w].dropped
        /\ tx'[w].checked = tx[w].checked /\ tx'[w].cap = Put(tx[w].cap, t, body[w].caps[t])
    BY <1>0, <2>2 DEF TxOK
  <2>4. /\ DOMAIN tx'[w].cap = DOMAIN tx[w].cap \cup {t} /\ tx'[w].cap[t] = body[w].caps[t]
        /\ \A u \in DOMAIN tx[w].cap : u # t => tx'[w].cap[u] = tx[w].cap[u]
    BY <2>3 DEF Put
  <2>5. Drafted(w)' /\ Stages(w)' /\ Counted(w)' /\ Placed(w)' /\ Asked(w)'
    BY <1>0, <2>1, <2>3 DEF Drafted, Stages, Counted, Placed, Asked, Saving, Ending
  <2>6. Cleared(w)'
    BY <1>0, <2>1, <2>3 DEF Cleared, Stages
  <2>7. t \notin tx[w].created /\ table[t].state = "live"
    BY <1>0, <2>1 DEF Disjoint, LiveIn
  <2>8. Lowers(w)'
    <3>1. \A u \in DOMAIN body[w].caps : LiveIn(w, u)' => LiveIn(w, u)
      BY <2>1, <2>3 DEF LiveIn
    <3>2. \A u \in DOMAIN tx'[w].cap :
           \/ u \in tx[w].created /\ tx'[w].cap[u] = body[w].creates[u]
           \/ /\ u \in DOMAIN body[w].caps /\ tx'[w].cap[u] = body[w].caps[u]
              /\ table[u].state # "absent"
      BY <1>0, <2>1, <2>4, <2>7 DEF Lowers
    <3>3. \A u \in DOMAIN tx'[w].cap \ tx[w].created :
             u \in tx[w].checked \/ Gone(u) \/ table[u].cap <= body[w].caps[u]
      BY <1>0, <2>1, <2>4, <2>7 DEF Lowers, Saving
    <3> QED BY <1>0, <2>1, <2>3, <3>1, <3>2, <3>3 DEF Lowers, Gone
  <2>9. Smaller(w)' /\ Fits(w)'
    BY <1>0, <2>1, <2>3, <2>4 DEF Smaller, Fits, Ending
  <2> QED BY <2>1, <2>5, <2>6, <2>8, <2>9, StatementDrafts
<1>3. CASE CountTables(w)
  <2>1. /\ Alone(w) /\ UNCHANGED <<table, seat, body, tx>> /\ pc[w] = "update"
        /\ pc'[w] = IF DOMAIN body[w].moves = {} THEN "clear" ELSE "current"
        /\ DOMAIN body[w].caps \subseteq DOMAIN tx[w].cap
        /\ \A t \in Targets(body[w]) : LiveIn(w, t) /\ t \notin body[w].drops
    BY <1>0, <1>3 DEF TypeOK, CountTables, Goto, Alone
  <2>2. Drafted(w)' /\ Stages(w)' /\ Asked(w)'
    BY <1>0, <2>1 DEF Drafted, Stages, Asked, Saving, Ending
  <2>3. Counted(w)'
    BY <2>1 DEF Counted, LiveIn, Exists
  <2>4. Placed(w)'
    BY <2>1 DEF Placed, Ending
  <2>5. Cleared(w)'
    BY <1>0, <2>1 DEF Cleared, Stages
  <2>6. Lowers(w)'
    BY <1>0, <2>1 DEF Lowers, Saving, Ending, Gone
  <2>7. Smaller(w)' /\ Fits(w)'
    BY <1>0, <2>1 DEF Smaller, Fits, Ending
  <2> QED BY <2>1, <2>2, <2>3, <2>4, <2>5, <2>6, <2>7, StatementDrafts
<1>4. CASE ReadCurrent(w)
  <2>1. /\ Alone(w) /\ body'[w] = body[w] /\ pc[w] = "current" /\ pc'[w] = "lock"
        /\ UNCHANGED <<table, seat>>
    BY <1>0, <1>4 DEF TypeOK, ReadCurrent, Goto, Alone
  <2>2. tx'[w] = [tx[w] EXCEPT !.checked = tx[w].checked \cup Gaining(w)]
    BY <1>0, <1>4 DEF TypeOK, ReadCurrent
  <2>3. /\ tx'[w].created = tx[w].created /\ tx'[w].cap = tx[w].cap
        /\ tx'[w].seat = tx[w].seat /\ tx'[w].dropped = tx[w].dropped
        /\ tx'[w].checked = tx[w].checked \cup Gaining(w)
    BY <1>0, <2>2 DEF TxOK
  <2>4. Drafted(w)' /\ Stages(w)' /\ Asked(w)'
    BY <1>0, <2>1, <2>3 DEF Drafted, Stages, Asked, Saving, Ending
  <2>5. Counted(w)'
    BY <1>0, <2>1, <2>3 DEF Counted, Exists, Ending
  <2>6. Placed(w)'
    <3>1. \A g \in DOMAIN body[w].moves : SeatIn(w, g) = seat[g]
      BY <1>0, <2>1 DEF Stages, SeatIn
    <3>2. \A g \in DOMAIN body[w].moves :
             \/ body[w].moves[g] = NoTable \/ body[w].moves[g] \in Gaining(w)
             \/ seat[g] = body[w].moves[g]
      BY <3>1 DEF Gaining
    <3> QED BY <2>1, <2>3, <3>2 DEF Placed
  <2>7. Cleared(w)'
    BY <1>0, <2>1, <2>3 DEF Cleared, Stages
  <2>8. Lowers(w)'
    BY <1>0, <2>1, <2>3 DEF Lowers, Saving, Ending, Gone
  <2>9. Smaller(w)' /\ Fits(w)'
    BY <1>0, <2>1, <2>3 DEF Smaller, Fits, Stages, Saving, Ending
  <2> QED BY <2>1, <2>4, <2>5, <2>6, <2>7, <2>8, <2>9, StatementDrafts
<1> QED BY <1>1, <1>2, <1>3, <1>4

\* The statements from the first lock on.
LEMMA WriteDrafts ==
    ASSUME SInv, SInv', DInv, NEW w \in Writers,
           \/ LocksTaken(w) \/ GuestsMoved(w) \/ ClearGuests(w) \/ DropTables(w) \/ CheckCapacity(w)
           \/ \E t \in Tables : LockTable(w, t)
           \/ \E g \in Guests : MoveGuest(w, g)
    PROVE  DInv'
<1>0. TypeOK /\ Rows /\ DraftHolds(w) /\ TxOK(tx[w]) /\ Housed
  BY DEF SInv, DInv, Committed, TypeOK
<1> USE DEF DraftHolds
<1>1. CASE LocksTaken(w) \/ GuestsMoved(w)
  <2>1. /\ Alone(w) /\ UNCHANGED <<table, seat, body, tx>>
        /\ \/ pc[w] = "lock" /\ pc'[w] = "move"
           \/ pc[w] = "move" /\ pc'[w] = "clear"
    BY <1>0, <1>1 DEF TypeOK, LocksTaken, GuestsMoved, Goto, Alone
  <2>2. Drafted(w)' /\ Stages(w)' /\ Asked(w)' /\ Cleared(w)'
    BY <1>0, <2>1 DEF Drafted, Stages, Asked, Cleared, Saving, Ending, Gone
  <2>3. Counted(w)' /\ Placed(w)'
    BY <1>0, <2>1 DEF Counted, Placed, Ending, Exists, Gone
  <2>4. Lowers(w)'
    BY <1>0, <2>1 DEF Lowers, Saving, Ending, Gone
  <2>5. Smaller(w)' /\ Fits(w)'
    BY <1>0, <2>1 DEF Smaller, Fits, Stages, Ending
  <2> QED BY <2>1, <2>2, <2>3, <2>4, <2>5, StatementDrafts
<1>2. ASSUME NEW t \in Tables, LockTable(w, t) PROVE DInv'
  <2>1. Alone(w) /\ UNCHANGED <<table, seat, pc, body>> /\ pc[w] = "lock"
    BY <1>0, <1>2 DEF TypeOK, LockTable, Alone
  <2>2. tx'[w] = [tx[w] EXCEPT !.locked = tx[w].locked \cup {t}]
    BY <1>0, <1>2 DEF TypeOK, LockTable
  <2>3. /\ tx'[w].created = tx[w].created /\ tx'[w].seat = tx[w].seat /\ tx'[w].dropped = tx[w].dropped
        /\ tx'[w].checked = tx[w].checked /\ tx'[w].cap = tx[w].cap
    BY <1>0, <2>2 DEF TxOK
  <2>4. Drafted(w)' /\ Stages(w)' /\ Asked(w)' /\ Cleared(w)'
    BY <1>0, <2>1, <2>3 DEF Drafted, Stages, Asked, Cleared, Saving, Ending, Gone
  <2>5. Counted(w)' /\ Placed(w)'
    BY <1>0, <2>1, <2>3 DEF Counted, Placed, Ending, Exists, Gone
  <2>6. Lowers(w)'
    BY <1>0, <2>1, <2>3 DEF Lowers, Saving, Ending, Gone
  <2>7. Smaller(w)' /\ Fits(w)'
    BY <1>0, <2>1, <2>3 DEF Smaller, Fits, Ending
  <2> QED BY <2>1, <2>4, <2>5, <2>6, <2>7, StatementDrafts
<1>3. ASSUME NEW new, Alone(w), UNCHANGED <<table, seat, body>>,
             tx'[w] = [tx[w] EXCEPT !.seat = new],
             pc[w] \in {"move", "clear"}, pc'[w] \in {"move", "clear", "drop", "check"},
             pc[w] = "clear" => pc'[w] # "move",
             pc'[w] \in {"drop", "check"} => pc[w] = "clear",
             pc[w] = "move" => pc'[w] = "move",
             \A g \in DOMAIN new : \/ g \in DOMAIN body[w].moves /\ new[g] = body[w].moves[g]
                                   \/ new[g] = NoTable,
             \A g \in DOMAIN new \ DOMAIN body[w].moves :
                Gone(seat[g]) \/ (pc'[w] = "drop" /\ seat[g] \in body[w].drops)
      PROVE  DInv'
  <2>1. /\ tx'[w].created = tx[w].created /\ tx'[w].seat = new /\ tx'[w].dropped = tx[w].dropped
        /\ tx'[w].checked = tx[w].checked /\ tx'[w].cap = tx[w].cap
    BY <1>0, <1>3 DEF TxOK
  <2>2. Drafted(w)' /\ Stages(w)'
    BY <1>0, <1>3, <2>1 DEF Drafted, Stages, Saving, Ending
  <2>3. Asked(w)' /\ Cleared(w)'
    BY <1>3, <2>1 DEF Asked, Cleared, Gone
  <2>4. Counted(w)' /\ Placed(w)'
    BY <1>0, <1>3, <2>1 DEF Counted, Placed, Ending, Exists, Gone
  <2>5. Lowers(w)'
    BY <1>0, <1>3, <2>1 DEF Lowers, Saving, Ending, Gone
  <2>6. Smaller(w)' /\ Fits(w)'
    BY <1>0, <1>3, <2>1 DEF Smaller, Fits, Ending
  <2> QED BY <1>3, <2>2, <2>3, <2>4, <2>5, <2>6, StatementDrafts
<1>4. ASSUME NEW g \in Guests, MoveGuest(w, g) PROVE DInv'
  <2> DEFINE new == Put(tx[w].seat, g, body[w].moves[g])
  <2>1. /\ Alone(w) /\ pc[w] = "move" /\ pc'[w] = "move" /\ UNCHANGED <<table, seat, body>>
        /\ g \in DOMAIN body[w].moves
    BY <1>0, <1>4 DEF TypeOK, MoveGuest, Alone
  <2>2. tx'[w] = [tx[w] EXCEPT !.seat = new]
    BY <1>0, <1>4 DEF TypeOK, MoveGuest
  <2>3. /\ DOMAIN new = DOMAIN tx[w].seat \cup {g} /\ new[g] = body[w].moves[g]
        /\ \A h \in DOMAIN tx[w].seat : h # g => new[h] = tx[w].seat[h]
    BY DEF Put
  <2> HIDE DEF new
  <2>4. \A h \in DOMAIN new : \/ h \in DOMAIN body[w].moves /\ new[h] = body[w].moves[h]
                              \/ new[h] = NoTable
    BY <1>0, <2>1, <2>3 DEF Asked
  <2>5. \A h \in DOMAIN new \ DOMAIN body[w].moves : Gone(seat[h])
    BY <1>0, <2>1, <2>3 DEF Cleared
  <2> QED BY <1>3, <2>1, <2>2, <2>4, <2>5
<1>5. CASE ClearGuests(w)
  <2> DEFINE seated == {g \in Guests : SeatIn(w, g) \in body[w].drops}
             new == [g \in DOMAIN tx[w].seat \cup seated |->
                       IF g \in seated THEN NoTable ELSE tx[w].seat[g]]
  <2>1. /\ Alone(w) /\ pc[w] = "clear" /\ pc'[w] = IF body[w].drops = {} THEN "check" ELSE "drop"
        /\ UNCHANGED <<table, seat, body>>
    BY <1>0, <1>5 DEF TypeOK, ClearGuests, Goto, Alone
  <2>2. tx'[w] = [tx[w] EXCEPT !.seat = new]
    BY <1>0, <1>5 DEF TypeOK, ClearGuests
  <2>3. \A g \in seated \ DOMAIN tx[w].seat : seat[g] \in body[w].drops
    BY DEF SeatIn
  <2>4. seated # {} => pc'[w] = "drop"
    BY <2>1
  <2> HIDE DEF seated
  <2>5. \A g \in DOMAIN new : \/ g \in DOMAIN body[w].moves /\ new[g] = body[w].moves[g]
                              \/ new[g] = NoTable
    BY <1>0 DEF Asked
  <2>6. \A g \in DOMAIN new \ DOMAIN body[w].moves :
           Gone(seat[g]) \/ (pc'[w] = "drop" /\ seat[g] \in body[w].drops)
    BY <1>0, <2>1, <2>3, <2>4 DEF Cleared
  <2> HIDE DEF new
  <2> QED BY <1>3, <2>1, <2>2, <2>5, <2>6
<1>6. CASE DropTables(w)
  <2> DEFINE found == {t \in body[w].drops : LiveIn(w, t)}
  <2>1. /\ Alone(w) /\ UNCHANGED <<table, seat, body>> /\ pc[w] = "drop"
        /\ pc'[w] = IF body[w].kind = "delete" THEN "commit" ELSE "check"
    BY <1>0, <1>6 DEF TypeOK, DropTables, Goto, Alone
  <2>2. tx'[w] = [tx[w] EXCEPT !.dropped = found]
    BY <1>0, <1>6 DEF TypeOK, DropTables
  <2>3. /\ tx'[w].created = tx[w].created /\ tx'[w].seat = tx[w].seat /\ tx'[w].dropped = found
        /\ tx'[w].checked = tx[w].checked /\ tx'[w].cap = tx[w].cap
    BY <1>0, <2>2 DEF TxOK
  <2>4. tx[w].dropped = {}
    BY <1>0, <2>1 DEF Rows, Quiet
  <2>5. Drafted(w)' /\ Stages(w)' /\ Asked(w)'
    BY <1>0, <2>1, <2>3 DEF Drafted, Stages, Asked, Saving, Ending
  <2>6. Counted(w)' /\ Placed(w)'
    BY <1>0, <2>1, <2>3 DEF Counted, Placed, Ending, Exists, Gone
  <2>7. Cleared(w)'
    <3>1. \A g \in DOMAIN tx[w].seat \ DOMAIN body[w].moves : Gone(seat[g]) \/ seat[g] \in found
      <4> SUFFICES ASSUME NEW g \in DOMAIN tx[w].seat \ DOMAIN body[w].moves,
                          ~Gone(seat[g])
                   PROVE  seat[g] \in found
        OBVIOUS
      <4>1. seat[g] \in body[w].drops /\ seat[g] \in Tables /\ g \in Guests
        BY <1>0, <2>1, OwnTypes DEF Cleared
      <4>2. table[seat[g]].state = "live"
        BY <1>0, <4>1, OwnTypes, SeatingAssumption DEF Housed, Gone
      <4> QED BY <2>4, <4>1, <4>2 DEF LiveIn
    <3> HIDE DEF found
    <3> QED BY <2>1, <2>3, <3>1 DEF Cleared, Gone
  <2>8. Lowers(w)'
    BY <1>0, <2>1, <2>3 DEF Lowers, Saving, Ending, Gone
  <2>9. Smaller(w)' /\ Fits(w)'
    BY <1>0, <2>1, <2>3 DEF Smaller, Fits, Ending
  <2> QED BY <2>1, <2>5, <2>6, <2>7, <2>8, <2>9, StatementDrafts
<1>7. CASE CheckCapacity(w)
  <2>1. /\ Alone(w) /\ UNCHANGED <<table, seat, body, tx>> /\ Fit(w)
        /\ pc[w] = "check" /\ pc'[w] = "commit"
    BY <1>0, <1>7 DEF TypeOK, CheckCapacity, Goto, Alone
  <2>2. Drafted(w)' /\ Stages(w)' /\ Asked(w)' /\ Cleared(w)'
    BY <1>0, <2>1 DEF Drafted, Stages, Asked, Cleared, Saving, Ending, Gone
  <2>3. Counted(w)' /\ Placed(w)'
    BY <1>0, <2>1 DEF Counted, Placed, Ending, Exists, Gone
  <2>4. Lowers(w)'
    BY <1>0, <2>1 DEF Lowers, Saving, Ending, Gone
  <2>5. Smaller(w)'
    BY <1>0, <2>1 DEF Smaller, Ending
  <2>6. Fits(w)'
    BY <2>1 DEF Fits, Fit, LiveIn, SeatedIn, SeatIn, CapIn
  <2> QED BY <2>1, <2>2, <2>3, <2>4, <2>5, <2>6, StatementDrafts
<1> QED BY <1>1, <1>2, <1>4, <1>5, <1>6, <1>7

\* The end of a request, of whatever kind.
LEMMA EndDrafts ==
    ASSUME OwnDrafts, SInv, SInv', DInv, NEW w \in Writers, pc[w] # "idle", Done(w), Committed',
           \A v \in Writers \ {w} : pc[v] # "idle" =>
              /\ \A g \in Written(v) : seat'[g] = seat[g]
              /\ \A g \in DOMAIN body[v].moves : \A t \in Tables :
                    seat[g] = t => seat'[g] = t \/ table'[t].state = "deleted"
              /\ \A t \in DOMAIN body[v].caps :
                    /\ table'[t].cap = table[t].cap
                    /\ table[t].state = "absent" => table'[t].state = "absent"
              /\ \A t \in DOMAIN tx[v].cap :
                    LiveIn(v, t) => \A g \in Guests : seat'[g] = t => seat[g] = t,
           \A t \in Tables : /\ table[t].state = "deleted" => table'[t].state = "deleted"
                             /\ table[t].state # "absent" => table'[t].state # "absent"
                             /\ table'[t].state = "live" => table[t].state \in {"absent", "live"}
    PROVE  DInv'
<1>0. TypeOK /\ TypeOK' /\ Rows /\ CheckStands'
  BY DEF SInv
<1>1. Alone(w) /\ pc'[w] = "idle" /\ tx'[w] = NoTx
  BY <1>0 DEF TypeOK, Done, Goto, Alone
<1>2. IdleIsFree'
  BY IdleHolds, PTL
<1>3. \A v \in Writers \ {w} : DraftHolds(v)'
  <2> SUFFICES ASSUME NEW v \in Writers \ {w} PROVE DraftHolds(v)'
    OBVIOUS
  <2>1. CASE pc[v] = "idle"
    <3>1. tx[v] = NoTx
      BY <1>0, <2>1 DEF Rows, Quiet
    <3>2. pc'[v] = "idle" /\ tx'[v] = NoTx
      BY <1>1, <2>1, <3>1 DEF Alone
    <3> QED BY <1>2, <3>2 DEF IdleIsFree
  <2>2. CASE pc[v] # "idle"
    <3>1. DraftHolds(v)
      BY DEF DInv
    <3> QED BY <1>0, <1>1, <2>2, <3>1, DraftsStand
  <2> QED BY <2>1, <2>2
<1>4. DraftHolds(w)'
  BY <1>1, <1>2 DEF IdleIsFree
<1> QED BY <1>3, <1>4 DEF DInv

\* A transaction that commits leaves no table over capacity: the tables it checked
\* fit, and the others gain no guest and lose no seat.
LEMMA CommitFits ==
    ASSUME OwnDrafts, SInv, DInv, NEW w \in Writers, pc[w] = "commit", NEW t \in Tables, LiveIn(w, t)
    PROVE  /\ t \notin tx[w].checked => SeatedIn(w, t) \subseteq {g \in Guests : seat[g] = t}
           /\ Seats[SeatedIn(w, t)] <= CapIn(w, t)
<1>0. TypeOK /\ Rows /\ Disjoint /\ Housed /\ NeverOver /\ DraftHolds(w)
  BY DEF SInv, Rows, DInv, Committed
<1>1. t # NoTable /\ ~Gone(t)
  BY <1>0, SeatingAssumption DEF LiveIn, Disjoint, Gone
<1>2. t \notin tx[w].checked => SeatedIn(w, t) \subseteq {g \in Guests : seat[g] = t}
  <2> SUFFICES ASSUME t \notin tx[w].checked, NEW g \in Guests, SeatIn(w, g) = t PROVE seat[g] = t
    BY DEF SeatedIn
  <2>1. CASE g \notin DOMAIN tx[w].seat
    BY <2>1 DEF SeatIn
  <2>2. CASE g \in DOMAIN tx[w].seat
    <3>1. g \in DOMAIN body[w].moves /\ body[w].moves[g] = t
      BY <1>0, <1>1, <2>2 DEF DraftHolds, Asked, SeatIn
    <3> QED BY <1>0, <1>1, <3>1 DEF DraftHolds, Placed, Ending
  <2> QED BY <2>1, <2>2
<1>3. CASE t \in tx[w].checked
  BY <1>0, <1>2, <1>3 DEF DraftHolds, Fits
<1>4. CASE t \notin tx[w].checked /\ t \in tx[w].created
  <2>1. table[t].state = "absent"
    BY <1>0, <1>4 DEF Disjoint
  <2>2. \A g \in Guests : seat[g] # t
    BY <1>0, <1>1, <2>1 DEF Housed
  <2>3. SeatedIn(w, t) = {}
    BY <1>2, <1>4, <2>2
  <2>4. Seats[SeatedIn(w, t)] = 0 /\ CapIn(w, t) \in Nat
    BY <1>0, <2>3, SeatingAssumption, ViewTypes
  <2> QED BY <1>2, <2>4
<1>5. CASE t \notin tx[w].checked /\ t \notin tx[w].created
  <2> DEFINE now == {g \in Guests : seat[g] = t}
  <2>1. table[t].state = "live"
    BY <1>5 DEF LiveIn
  <2>2. ~(Seats[now] > table[t].cap)
    BY <1>0, <2>1 DEF NeverOver, Over
  <2>3. table[t].cap <= CapIn(w, t)
    <3>1. CASE t \notin DOMAIN tx[w].cap
      BY <1>0, <3>1, OwnTypes DEF CapIn
    <3>2. CASE t \in DOMAIN tx[w].cap
      <4>1. tx[w].cap[t] = body[w].caps[t]
        BY <1>0, <1>5, <3>2 DEF DraftHolds, Lowers
      <4>2. table[t].cap <= body[w].caps[t]
        BY <1>0, <1>1, <1>5, <3>2 DEF DraftHolds, Lowers, Ending
      <4> QED BY <3>2, <4>1, <4>2 DEF CapIn
    <3> QED BY <3>1, <3>2
  <2>4. SeatedIn(w, t) \subseteq now /\ now \subseteq Guests
    BY <1>2, <1>5
  <2>5. /\ Seats[SeatedIn(w, t)] <= Seats[now] /\ Seats[SeatedIn(w, t)] \in Nat /\ Seats[now] \in Nat
        /\ table[t].cap \in Nat /\ CapIn(w, t) \in Nat
    BY <1>0, <2>4, SeatingAssumption, ViewTypes, OwnTypes
  <2> HIDE DEF now
  <2> QED BY <1>2, <2>2, <2>3, <2>5
<1> QED BY <1>3, <1>4, <1>5

LEMMA CommitDrafts ==
    ASSUME OwnDrafts, SInv, SInv', DInv, NEW w \in Writers, Commit(w)
    PROVE  DInv'
<1>0. /\ TypeOK /\ Rows /\ Disjoint /\ Exclusive /\ Known /\ LocksHeld /\ Done(w) /\ pc[w] = "commit"
      /\ DraftHolds(w) /\ Committed /\ Housed /\ Capped
  BY DEF SInv, Rows, DInv, Committed, Commit
<1>1. \A t \in Tables :
        /\ table'[t].cap = CapIn(w, t)
        /\ table'[t].state = IF t \in tx[w].dropped THEN "deleted"
                             ELSE IF t \in tx[w].created THEN "live" ELSE table[t].state
  BY DEF Commit
<1>2. \A g \in Guests : seat'[g] = SeatIn(w, g)
  BY DEF Commit
<1>3. /\ tx[w].created \subseteq Tables /\ tx[w].dropped \subseteq Tables
      /\ DOMAIN tx[w].cap \subseteq Tables /\ DOMAIN tx[w].seat \subseteq Guests
      /\ \A v \in Writers : /\ DOMAIN tx[v].cap \subseteq Tables /\ DOMAIN body[v].caps \subseteq Tables
                            /\ DOMAIN body[v].moves \subseteq Guests /\ Written(v) \subseteq Guests
  BY <1>0, OwnTypes DEF Written
<1>4. Housed'
  <2> SUFFICES ASSUME NEW g \in Guests, seat'[g] # NoTable PROVE table'[seat'[g]].state # "absent"
    BY DEF Housed
  <2>1. seat'[g] \in Tables /\ seat'[g] = SeatIn(w, g)
    BY <1>0, <1>2, ViewTypes
  <2>2. table[seat'[g]].state # "absent" \/ seat'[g] \in tx[w].created
    <3>1. CASE g \notin DOMAIN tx[w].seat
      BY <1>0, <2>1, <3>1 DEF SeatIn, Housed
    <3>2. CASE g \in DOMAIN tx[w].seat
      <4>1. g \in DOMAIN body[w].moves /\ body[w].moves[g] = seat'[g]
        BY <1>0, <2>1, <3>2 DEF DraftHolds, Asked, SeatIn
      <4>2. seat'[g] \in Targets(body[w])
        BY <4>1 DEF Targets
      <4> QED BY <1>0, <4>2 DEF DraftHolds, Counted, Exists, Ending
    <3> QED BY <3>1, <3>2
  <2> QED BY <1>1, <2>1, <2>2
<1>5. Capped'
  <2> SUFFICES ASSUME NEW u \in Writers, NEW b \in Bodies[u], b.kind = "table", NEW t \in DOMAIN b.caps
               PROVE  table'[t].cap <= b.caps[t]
    BY DEF Capped
  <2>1. t \in Tables
    <3>1. IsRequest(b)
      BY BodyAssumption
    <3>2. IsPartial(b.caps, Tables, Nat)
      BY <3>1 DEF IsRequest
    <3> QED BY <3>2, PartialIs
  <2>2. PICK c \in Bodies[w] :
          /\ body[w].kind = c.kind /\ body[w].creates = c.creates
          /\ c.kind # "rename" => body[w].caps = c.caps
    BY <1>0 DEF DraftHolds, Drafted
  <2>3. body[w].caps = c.caps
    BY <1>0, <2>2 DEF DraftHolds, Stages, Ending
  <2>4. Raises(b)
    BY DEF OwnDrafts
  <2>5. CASE t \notin DOMAIN tx[w].cap
    BY <1>0, <1>1, <2>1, <2>5 DEF CapIn, Capped
  <2>6. CASE t \in DOMAIN tx[w].cap
    <3>1. table'[t].cap = tx[w].cap[t]
      BY <1>1, <2>1, <2>6 DEF CapIn
    <3>2. CASE t \in tx[w].created /\ tx[w].cap[t] = body[w].creates[t]
      BY <1>0, <2>2, <2>4, <3>1, <3>2 DEF DraftHolds, Stages, Raises
    <3>3. CASE t \in DOMAIN body[w].caps /\ tx[w].cap[t] = body[w].caps[t]
      BY <2>3, <2>4, <3>1, <3>3 DEF Raises
    <3> QED BY <1>0, <2>6, <3>2, <3>3 DEF DraftHolds, Lowers
  <2> QED BY <2>5, <2>6
<1>6. NeverOver'
  <2> SUFFICES ASSUME NEW t \in Tables, table'[t].state = "live"
               PROVE  ~(Seats[{g \in Guests : seat'[g] = t}] > table'[t].cap)
    BY DEF NeverOver, Over
  <2>1. LiveIn(w, t)
    BY <1>1 DEF LiveIn
  <2>2. Seats[SeatedIn(w, t)] <= CapIn(w, t)
    BY <1>0, <2>1, CommitFits
  <2>3. {g \in Guests : seat'[g] = t} = SeatedIn(w, t) /\ SeatedIn(w, t) \subseteq Guests
    BY <1>2 DEF SeatedIn
  <2>4. Seats[SeatedIn(w, t)] \in Nat /\ CapIn(w, t) \in Nat
    BY <1>0, <2>3, SeatingAssumption, ViewTypes
  <2> QED BY <1>1, <2>2, <2>3, <2>4
<1>7. \A t \in Tables : /\ table[t].state = "deleted" => table'[t].state = "deleted"
                        /\ table[t].state # "absent" => table'[t].state # "absent"
                        /\ table'[t].state = "live" => table[t].state \in {"absent", "live"}
  BY <1>0, <1>1 DEF Disjoint
<1>8. ASSUME NEW v \in Writers \ {w}, pc[v] # "idle"
      PROVE  /\ \A g \in Written(v) : seat'[g] = seat[g]
             /\ \A g \in DOMAIN body[v].moves : \A t \in Tables :
                   seat[g] = t => seat'[g] = t \/ table'[t].state = "deleted"
             /\ \A t \in DOMAIN body[v].caps :
                   /\ table'[t].cap = table[t].cap
                   /\ table[t].state = "absent" => table'[t].state = "absent"
             /\ \A t \in DOMAIN tx[v].cap :
                   LiveIn(v, t) => \A g \in Guests : seat'[g] = t => seat[g] = t
  <2>0. /\ DOMAIN body[w].moves \cap DOMAIN body[v].moves = {}
        /\ DOMAIN body[w].caps \cap DOMAIN body[v].caps = {}
        /\ DOMAIN body[v].caps \cap DOMAIN body[w].creates = {}
    <3>1. Drafted(v) /\ Drafted(w)
      BY DEF DInv, DraftHolds
    <3> QED BY <1>0, <1>8, <3>1, Apart
  <2>1. \A g \in Written(v) : seat'[g] = seat[g]
    BY <1>0, <1>2, <1>3 DEF Disjoint, Written, SeatIn
  <2>2. ASSUME NEW g \in DOMAIN body[v].moves, NEW t \in Tables, seat[g] = t
        PROVE  seat'[g] = t \/ table'[t].state = "deleted"
    <3>1. CASE g \notin DOMAIN tx[w].seat
      BY <1>2, <1>3, <2>2, <3>1 DEF SeatIn
    <3>2. CASE g \in DOMAIN tx[w].seat
      <4>1. Gone(t) \/ t \in tx[w].dropped
        BY <1>0, <2>0, <2>2, <3>2 DEF DraftHolds, Cleared
      <4> QED BY <1>1, <1>7, <4>1 DEF Gone
    <3> QED BY <3>1, <3>2
  <2>3. ASSUME NEW t \in DOMAIN body[v].caps
        PROVE  /\ table'[t].cap = table[t].cap
               /\ table[t].state = "absent" => table'[t].state = "absent"
    <3>1. t \in Tables /\ t \notin tx[w].created
      BY <1>0, <1>3, <2>0 DEF DraftHolds, Stages
    <3>2. t \notin DOMAIN tx[w].cap
      BY <1>0, <2>0, <3>1 DEF DraftHolds, Lowers
    <3>3. t \in tx[w].dropped => table[t].state # "absent"
      BY <1>0, <3>1 DEF Known, Exists
    <3> QED BY <1>1, <3>1, <3>2, <3>3 DEF CapIn
  <2>4. ASSUME NEW t \in DOMAIN tx[v].cap, LiveIn(v, t), NEW g \in Guests, seat'[g] = t
        PROVE  seat[g] = t
    <3>1. t \in Tables /\ SeatIn(w, g) = t
      BY <1>2, <1>3, <2>4
    <3>2. CASE g \notin DOMAIN tx[w].seat
      BY <3>1, <3>2 DEF SeatIn
    <3>3. CASE g \in DOMAIN tx[w].seat
      <4>1. t # NoTable
        BY <3>1, SeatingAssumption
      <4>2. g \in DOMAIN body[w].moves /\ body[w].moves[g] = t
        BY <1>0, <3>1, <3>3, <4>1 DEF DraftHolds, Asked, SeatIn
      <4>3. Exists(w, t) /\ t \notin body[w].drops
        <5>1. t \in Targets(body[w])
          BY <4>1, <4>2 DEF Targets
        <5> QED BY <1>0, <5>1 DEF DraftHolds, Counted, Ending
      <4>4. table[t].state = "live"
        BY <1>0, <2>4, <4>3 DEF LiveIn, Exists, Disjoint
      <4>5. LiveIn(w, t)
        BY <1>0, <4>3, <4>4 DEF LiveIn, DraftHolds, Stages
      <4>6. t \notin tx[w].checked
        <5>1. SUFFICES ASSUME t \in tx[w].checked PROVE FALSE
          OBVIOUS
        <5>2. t \in Locked(w)
          BY <1>0, <4>2, <4>5, <5>1 DEF LocksHeld, LocksHeldBy
        <5> QED BY <1>0, <2>4, <5>2 DEF Exclusive
      <4> QED BY <1>0, <4>1, <4>2, <4>4, <4>6 DEF DraftHolds, Placed, Ending, Gone
    <3> QED BY <3>2, <3>3
  <2> QED BY <2>1, <2>2, <2>3, <2>4
<1>9. Committed'
  BY <1>4, <1>5, <1>6 DEF Committed
<1> QED BY <1>0, <1>7, <1>8, <1>9, EndDrafts

LEMMA PlainDrafts ==
    ASSUME OwnDrafts, SInv, SInv', DInv, NEW w \in Writers, Rollback(w) \/ WriteGuest(w) \/ WriteTable(w)
    PROVE  DInv'
<1>0. TypeOK /\ Rows /\ Disjoint /\ DraftHolds(w) /\ Committed /\ Housed /\ Capped /\ NeverOver
  BY DEF SInv, Rows, DInv, Committed
<1>1. pc[w] # "idle"
  BY DEF Rollback, WriteGuest, WriteTable
<1>2. ASSUME NEW v \in Writers \ {w}, pc[v] # "idle"
      PROVE  /\ DOMAIN body[w].moves \cap DOMAIN body[v].moves = {}
             /\ DOMAIN body[w].caps \cap DOMAIN body[v].caps = {}
             /\ DOMAIN body[v].caps \subseteq Tables /\ DOMAIN body[v].moves \subseteq Guests
             /\ DOMAIN tx[v].cap \subseteq Tables /\ Written(v) \subseteq Guests
             /\ tx[v].created \subseteq Tables
  <2>1. Drafted(v) /\ Drafted(w)
    BY DEF DInv, DraftHolds
  <2> QED BY <1>0, <1>1, <1>2, <2>1, Apart, OwnTypes DEF Written
<1>3. CASE Rollback(w)
  <2>1. Done(w) /\ UNCHANGED <<table, seat>>
    BY <1>3 DEF Rollback
  <2>2. Committed'
    BY <1>0, <2>1 DEF Committed, Housed, Capped, NeverOver, Over
  <2>3. \A t \in Tables : table'[t].state = "live" => table[t].state \in {"absent", "live"}
    BY <2>1
  <2> QED BY <1>1, <2>1, <2>2, <2>3, EndDrafts
<1>4. CASE WriteGuest(w)
  <2> DEFINE moves == body[w].moves
  <2>1. /\ Done(w) /\ table' = table /\ pc[w] = "write" /\ body[w].kind \in {"guest", "edit"}
        /\ \A g \in Guests : seat'[g] = IF g \in DOMAIN moves THEN moves[g] ELSE seat[g]
        /\ \A g \in DOMAIN moves : GuestFree(w, g)
    BY <1>4 DEF WriteGuest
  <2>2. tx[w].checked = {}
    BY <1>0, <2>1 DEF Rows, Quiet, NoTx
  <2>3. \A g \in DOMAIN moves : moves[g] = NoTable \/ seat[g] = moves[g] \/ Gone(moves[g])
    BY <1>0, <2>1, <2>2 DEF DraftHolds, Placed
  <2> HIDE DEF moves
  <2>4. \A g \in Guests : \A t \in Tables : seat'[g] = t => seat[g] = t \/ table[t].state = "deleted"
    BY <2>1, <2>3, SeatingAssumption DEF Gone
  <2>5. Housed'
    <3>1. seat' \in [Guests -> Tables \cup {NoTable}]
      BY DEF SInv, TypeOK
    <3> QED BY <1>0, <2>1, <2>4, <3>1 DEF Housed
  <2>6. NeverOver'
    <3> SUFFICES ASSUME NEW t \in Tables, table[t].state = "live"
                 PROVE  ~(Seats[{g \in Guests : seat'[g] = t}] > table[t].cap)
      BY <2>1 DEF NeverOver, Over
    <3> DEFINE before == {g \in Guests : seat[g] = t}
               after == {g \in Guests : seat'[g] = t}
    <3>1. ~(Seats[before] > table[t].cap) /\ table[t].cap \in Nat
      BY <1>0, OwnTypes DEF NeverOver, Over
    <3>2. after \subseteq before /\ before \subseteq Guests
      BY <2>4
    <3>3. Seats[after] <= Seats[before] /\ Seats[after] \in Nat /\ Seats[before] \in Nat
      BY <3>2, SeatingAssumption
    <3> QED BY <3>1, <3>3
  <2>7. Committed'
    BY <1>0, <2>1, <2>5, <2>6 DEF Committed, Capped
  <2>8. ASSUME NEW v \in Writers \ {w}, pc[v] # "idle"
        PROVE  /\ \A g \in Written(v) : seat'[g] = seat[g]
               /\ \A g \in DOMAIN body[v].moves : seat'[g] = seat[g]
               /\ \A t \in DOMAIN tx[v].cap :
                     LiveIn(v, t) => \A g \in Guests : seat'[g] = t => seat[g] = t
    <3>1. \A g \in Written(v) : seat'[g] = seat[g]
      BY <1>2, <2>1, <2>8 DEF GuestFree, Written
    <3>2. \A g \in DOMAIN body[v].moves : seat'[g] = seat[g]
      BY <1>2, <2>1, <2>8 DEF moves
    <3>3. \A t \in Tables : LiveIn(v, t) => table[t].state # "deleted"
      BY <1>0 DEF LiveIn, Disjoint
    <3> QED BY <1>2, <2>4, <2>8, <3>1, <3>2, <3>3
  <2>9. \A t \in Tables : table'[t].state = "live" => table[t].state \in {"absent", "live"}
    BY <2>1
  <2> QED BY <1>1, <2>1, <2>7, <2>8, <2>9, EndDrafts
<1>5. CASE WriteTable(w)
  <2>1. /\ Done(w) /\ seat' = seat /\ pc[w] = "write" /\ body[w].kind \in {"table", "rename"}
        /\ \A t \in DOMAIN body[w].caps : table[t].state = "live"
        /\ \A t \in DOMAIN body[w].caps \cap Tables :
              table'[t].state = "live" /\ table'[t].cap = body[w].caps[t]
        /\ \A t \in Tables \ DOMAIN body[w].caps : table'[t] = table[t]
    BY <1>5 DEF WriteTable
  <2>2. \A t \in Tables : table'[t].state = table[t].state
    <3> TAKE t \in Tables
    <3>1. CASE t \in DOMAIN body[w].caps
      BY <2>1, <3>1
    <3>2. CASE t \notin DOMAIN body[w].caps
      BY <2>1, <3>2
    <3> QED BY <3>1, <3>2
  <2>3. PICK b \in Bodies[w] :
          /\ body[w].kind = b.kind /\ DOMAIN body[w].caps = DOMAIN b.caps
          /\ b.kind # "rename" => body[w].caps = b.caps
    BY <1>0, <1>1 DEF DraftHolds, Drafted
  <2>4. ASSUME NEW t \in Tables
        PROVE  \/ table'[t].cap = table[t].cap
               \/ /\ b.kind = "table" /\ t \in DOMAIN b.caps
                  /\ table'[t].cap = b.caps[t] /\ table[t].cap <= b.caps[t]
    <3>1. CASE t \notin DOMAIN body[w].caps
      BY <2>1, <3>1
    <3>2. CASE t \in DOMAIN body[w].caps /\ body[w].kind = "rename"
      <4>1. table'[t].cap = body[w].caps[t] /\ table[t].cap = body[w].caps[t]
        BY <1>0, <2>1, <3>2 DEF DraftHolds, Lowers
      <4> QED BY <4>1
    <3>3. CASE t \in DOMAIN body[w].caps /\ body[w].kind = "table"
      <4>1. b.kind = "table" /\ t \in DOMAIN b.caps /\ table'[t].cap = b.caps[t]
        BY <2>1, <2>3, <3>3
      <4>2. table[t].cap <= b.caps[t]
        BY <1>0, <4>1 DEF Capped
      <4> QED BY <4>1, <4>2
    <3> QED BY <2>1, <3>1, <3>2, <3>3
  <2>5. Housed'
    <3>1. seat \in [Guests -> Tables \cup {NoTable}]
      BY <1>0 DEF TypeOK
    <3> QED BY <1>0, <2>1, <2>2, <3>1 DEF Housed
  <2>6. Capped'
    <3> SUFFICES ASSUME NEW u \in Writers, NEW c \in Bodies[u], c.kind = "table", NEW t \in DOMAIN c.caps
                 PROVE  table'[t].cap <= c.caps[t]
      BY DEF Capped
    <3>1. t \in Tables
      <4>1. IsRequest(c)
        BY BodyAssumption
      <4>2. IsPartial(c.caps, Tables, Nat)
        BY <4>1 DEF IsRequest
      <4> QED BY <4>2, PartialIs
    <3>2. table[t].cap <= c.caps[t]
      BY <1>0 DEF Capped
    <3>3. t \in DOMAIN b.caps => b.caps[t] <= c.caps[t]
      BY DEF OwnDrafts, Raises
    <3> QED BY <2>4, <3>1, <3>2, <3>3
  <2>7. NeverOver'
    <3> SUFFICES ASSUME NEW t \in Tables, table[t].state = "live"
                 PROVE  ~(Seats[{g \in Guests : seat[g] = t}] > table'[t].cap)
      BY <2>1, <2>2 DEF NeverOver, Over
    <3> DEFINE here == {g \in Guests : seat[g] = t}
    <3>1. ~(Seats[here] > table[t].cap) /\ table[t].cap \in Nat
      BY <1>0, OwnTypes DEF NeverOver, Over
    <3>2. Seats[here] \in Nat
      BY SeatingAssumption
    <3>3. table'[t].cap \in Nat /\ table[t].cap <= table'[t].cap
      <4>1. table'[t].cap \in Nat
        BY DEF SInv, TypeOK
      <4> QED BY <2>4, <3>1, <4>1
    <3> HIDE DEF here
    <3>4. ~(Seats[here] > table'[t].cap)
      BY <3>1, <3>2, <3>3
    <3> QED BY <3>4 DEF here
  <2>8. Committed'
    BY <2>5, <2>6, <2>7 DEF Committed
  <2>9. ASSUME NEW v \in Writers \ {w}, pc[v] # "idle", NEW t \in DOMAIN body[v].caps
        PROVE  table'[t].cap = table[t].cap /\ (table[t].state = "absent" => table'[t].state = "absent")
    BY <1>2, <2>1, <2>2, <2>9
  <2>10. \A t \in Tables : /\ table[t].state = "deleted" => table'[t].state = "deleted"
                           /\ table[t].state # "absent" => table'[t].state # "absent"
                           /\ table'[t].state = "live" => table[t].state \in {"absent", "live"}
    BY <2>2
  <2> QED BY <1>1, <2>1, <2>8, <2>9, <2>10, EndDrafts
<1> QED BY <1>3, <1>4, <1>5

LEMMA InitDrafts == OwnDrafts /\ Init => DInv
<1> SUFFICES ASSUME OwnDrafts, Init PROVE DInv
  OBVIOUS
<1>1. \A w \in Writers : DraftHolds(w)
  BY IdleHolds DEF IdleIsFree, Init
<1>2. Housed
  BY DEF Init, Housed
<1>3. Capped
  <2> SUFFICES ASSUME NEW w \in Writers, NEW b \in Bodies[w], b.kind = "table", NEW t \in DOMAIN b.caps
               PROVE  table[t].cap <= b.caps[t]
    BY DEF Capped
  <2>1. t \in Tables
    <3>1. IsRequest(b)
      BY BodyAssumption
    <3>2. IsPartial(b.caps, Tables, Nat)
      BY <3>1 DEF IsRequest
    <3> QED BY <3>2, PartialIs
  <2> QED BY <2>1 DEF Init, OwnDrafts, Raises
<1>4. NeverOver
  <2> SUFFICES ASSUME NEW t \in Tables PROVE ~Over(t)
    BY DEF NeverOver
  <2>1. {g \in Guests : seat[g] = t} = {}
    BY SeatingAssumption DEF Init
  <2>2. table[t].cap \in Nat
    BY SeatingAssumption DEF Init
  <2> QED BY <2>1, <2>2, SeatingAssumption DEF Over
<1> QED BY <1>1, <1>2, <1>3, <1>4 DEF DInv, Committed

LEMMA NextDrafts == OwnDrafts /\ SInv /\ DInv /\ [Next]_vars /\ SInv' => DInv'
<1> SUFFICES ASSUME OwnDrafts, SInv, DInv, [Next]_vars, SInv' PROVE DInv'
  OBVIOUS
<1>1. CASE UNCHANGED vars
  <2>1. \A w \in Writers : DraftHolds(w)'
    BY <1>1 DEF vars, DInv, DraftHolds, Drafted, Stages, Counted, Placed, Asked, Cleared, Lowers, Smaller,
       Fits, Exists, Gone, LiveIn, SeatedIn, SeatIn, CapIn
  <2>2. Committed'
    BY <1>1 DEF vars, DInv, Committed, Housed, Capped, NeverOver, Over
  <2> QED BY <2>1, <2>2 DEF DInv
<1>2. ASSUME NEW w \in Writers, Serve(w) PROVE DInv'
  BY <1>2, BeginDrafts, ReadDrafts, WriteDrafts, CommitDrafts, PlainDrafts DEF Serve
<1> QED BY <1>1, <1>2 DEF Next

\* For any tables, capacities and requests: as long as requests served side by
\* side edit guests and tables of their own (and seat those guests wherever they
\* like), and the edits that take no lock seat nobody and lower no capacity, no
\* live table ever seats more than its capacity.
THEOREM SeatingNeverOver == ASSUME OwnDrafts PROVE Spec => []NeverOver
<1>1. Init => SInv /\ DInv
  BY InitHolds, InitDrafts
<1>2. SInv /\ DInv /\ [Next]_vars => (SInv /\ DInv)'
  BY NextHolds, NextDrafts
<1>3. DInv => NeverOver
  BY DEF DInv, Committed
<1> QED BY <1>1, <1>2, <1>3, PTL DEF Spec
=============================================================================
