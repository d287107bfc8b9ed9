------------------------------ MODULE Seating ------------------------------
(***************************************************************************)
(* Tables and seats of one event:                                          *)
(*   repositories/eventtablerepository/EventTableRepository.go and         *)
(*   seating_capacity.go, controllers/eventtables/eventtables.go, and the  *)
(*   table checks of controllers/guests.                                   *)
(*                                                                         *)
(* The bulk assignment, the plan save and the table deletion are           *)
(* transactions under READ COMMITTED.  Each of their statements is one     *)
(* action that reads what is committed plus the transaction's own writes;  *)
(* row locks are held to the end.  The bulk assignment is a plan save      *)
(* without table changes, as far as the statements go.  A guest edit and a *)
(* table edit read and check outside a transaction and then write the      *)
(* whole row.                                                              *)
(*                                                                         *)
(* PostgreSQL has three row locks that matter here: FOR UPDATE             *)
(* (lockTables), the weaker one of an UPDATE or soft delete of a table,    *)
(* and the FOR KEY SHARE that the foreign key guests.table_id takes on the *)
(* table a guest is moved to, which conflicts with FOR UPDATE only.        *)
(***************************************************************************)
EXTENDS Integers, FiniteSets

CONSTANTS
    Tables,   \* table ids, numbered in their order
    Guests,
    NoTable,  \* a NULL table_id
    Seats,    \* Seats[S]: the seats the guests of S take together
    Writers,  \* API requests being served at one time
    Bodies,   \* Bodies[w]: the requests clients send to w
    Initial   \* capacities of the tables the event starts with, 0 for none

ASSUME SeatingAssumption ==
    /\ Tables \subseteq Nat /\ IsFiniteSet(Tables) /\ NoTable \notin Tables
    /\ IsFiniteSet(Guests)
    /\ Seats \in [SUBSET Guests -> Nat] /\ Seats[{}] = 0
    /\ \A S, T \in SUBSET Guests : S \subseteq T => Seats[S] <= Seats[T]
    /\ Initial \in [Tables -> Nat]

Kinds == {"assign", "plan", "delete", "guest", "edit", "table", "rename"}
IsPartial(f, D, R) == \E S \in SUBSET D : f \in [S -> R]
Empty == [x \in {} |-> 0]

\* moves: table_id per guest; caps, creates: capacity per table.
IsRequest(b) ==
    /\ b = [kind |-> b.kind, moves |-> b.moves, caps |-> b.caps,
            creates |-> b.creates, drops |-> b.drops]
    /\ b.kind \in Kinds /\ b.drops \subseteq Tables
    /\ IsPartial(b.moves, Guests, Tables \cup {NoTable})
    /\ IsPartial(b.caps, Tables, Nat)
    /\ IsPartial(b.creates, Tables, Nat)
    /\ b.kind = "delete" => DOMAIN b.moves = {}
    /\ b.kind = "assign" => DOMAIN b.caps = {} /\ DOMAIN b.creates = {} /\ b.drops = {}

ASSUME BodyAssumption == \A w \in Writers : \A b \in Bodies[w] : IsRequest(b)

VARIABLES
    table,  \* table[t]: state and capacity of the row
    seat,   \* seat[g]: the guest's table_id
    pc,     \* pc[w]: the next statement of the request w serves
    body,   \* body[w]: the request
    tx      \* tx[w]: its uncommitted writes, its FOR UPDATE locks, and the
            \* tables whose capacity it is going to check

vars == <<table, seat, pc, body, tx>>

NoBody == [kind |-> "none", moves |-> Empty, caps |-> Empty, creates |-> Empty, drops |-> {}]
NoTx == [seat |-> Empty, cap |-> Empty, created |-> {}, dropped |-> {},
         locked |-> {}, checked |-> {}]

Init ==
    /\ table = [t \in Tables |-> [state |-> IF Initial[t] > 0 THEN "live" ELSE "absent",
                                  cap |-> Initial[t]]]
    /\ seat = [g \in Guests |-> NoTable]
    /\ pc = [w \in Writers |-> "idle"]
    /\ body = [w \in Writers |-> NoBody]
    /\ tx = [w \in Writers |-> NoTx]

-----------------------------------------------------------------------------
(* What a transaction sees, and what it waits for.                         *)

Put(f, x, v) == [y \in DOMAIN f \cup {x} |-> IF y = x THEN v ELSE f[y]]

SeatIn(w, g) == IF g \in DOMAIN tx[w].seat THEN tx[w].seat[g] ELSE seat[g]
CapIn(w, t) == IF t \in DOMAIN tx[w].cap THEN tx[w].cap[t] ELSE table[t].cap
LiveIn(w, t) == (table[t].state = "live" \/ t \in tx[w].created) /\ t \notin tx[w].dropped
SeatedIn(w, t) == {g \in Guests : SeatIn(w, g) = t}

GuestFree(w, g) == \A v \in Writers \ {w} : g \notin DOMAIN tx[v].seat

\* Nobody else has locked, updated or deleted the table.
RowFree(w, t) ==
    \A v \in Writers \ {w} : t \notin tx[v].locked \cup DOMAIN tx[v].cap \cup tx[v].dropped

\* The tables an open transaction has moved guests to.
KeyShared(v) == {tx[v].seat[g] : g \in {h \in DOMAIN tx[v].seat : seat[h] # tx[v].seat[h]}}

LockFree(w, t) == RowFree(w, t) /\ \A v \in Writers \ {w} : t \notin KeyShared(v)

\* The foreign key check of a guest update.
ShareFree(w, g, t) ==
    seat[g] = t \/ \A v \in Writers \ {w} : t \notin tx[v].locked

-----------------------------------------------------------------------------
(* AssignGuestsToTables, SaveSeatingPlan and DeleteEventTable.             *)

Goto(w, place) == pc' = [pc EXCEPT ![w] = place]

\* The first statement of each transaction.
First == [assign |-> "update", plan |-> "capacities", delete |-> "clear"]

\* The transaction begins; a plan first inserts the tables it creates.
Begin(w, b) ==
    /\ pc[w] = "idle" /\ b.kind \in DOMAIN First
    /\ \A t \in DOMAIN b.creates :
         table[t].state = "absent" /\ \A v \in Writers : t \notin tx[v].created
    /\ b.kind = "delete" => \A t \in b.drops : table[t].state = "live"
    /\ body' = [body EXCEPT ![w] = b]
    /\ tx' = [tx EXCEPT ![w].created = DOMAIN b.creates, ![w].cap = b.creates]
    /\ Goto(w, First[b.kind])
    /\ UNCHANGED <<table, seat>>

\* Mutant of Lowered: only tables that gain guests are checked.
LoweredIgnored(w) == {}

\* The tables whose capacity the plan lowers, by what tableCapacities reads.
Lowered(w) ==
    {t \in DOMAIN body[w].caps : LiveIn(w, t) /\ body[w].caps[t] < CapIn(w, t)}

ReadCapacities(w) ==
    /\ pc[w] = "capacities"
    /\ tx' = [tx EXCEPT ![w].checked = Lowered(w)]
    /\ Goto(w, "update")
    /\ UNCHANGED <<table, seat, body>>

\* One table of the plan is updated, in the order of the plan.
UpdateCapacity(w, t) ==
    /\ pc[w] = "update" /\ t \in DOMAIN body[w].caps \ DOMAIN tx[w].cap
    /\ RowFree(w, t) /\ LiveIn(w, t)
    /\ tx' = [tx EXCEPT ![w].cap = Put(@, t, body[w].caps[t])]
    /\ UNCHANGED <<table, seat, pc, body>>

Targets(b) == {b.moves[g] : g \in DOMAIN b.moves} \ {NoTable}

\* The tables of the assignments are counted.
CountTables(w) ==
    /\ pc[w] = "update" /\ DOMAIN body[w].caps \subseteq DOMAIN tx[w].cap
    /\ \A t \in Targets(body[w]) : LiveIn(w, t) /\ t \notin body[w].drops
    /\ Goto(w, IF DOMAIN body[w].moves = {} THEN "clear" ELSE "current")
    /\ UNCHANGED <<table, seat, body, tx>>

\* tablesGainingGuests, by what guestTableIDs reads.
Gaining(w) ==
    {body[w].moves[g] : g \in {h \in DOMAIN body[w].moves : SeatIn(w, h) # body[w].moves[h]}}
    \ {NoTable}

ReadCurrent(w) ==
    /\ pc[w] = "current"
    /\ tx' = [tx EXCEPT ![w].checked = @ \cup Gaining(w)]
    /\ Goto(w, "lock")
    /\ UNCHANGED <<table, seat, body>>

\* Mutant of ToLock: nothing is locked.
LockedNone(w) == {}

ToLock(w) == {t \in tx[w].checked \ tx[w].locked : LiveIn(w, t)}

\* lockTables: the live ones of the tables to check, in their order.  A table
\* that is gone is passed over.
LockTable(w, t) ==
    /\ pc[w] = "lock" /\ t \in ToLock(w)
    /\ \A u \in ToLock(w) : t <= u
    /\ LockFree(w, t)
    /\ tx' = [tx EXCEPT ![w].locked = @ \cup {t}]
    /\ UNCHANGED <<table, seat, pc, body>>

LocksTaken(w) ==
    /\ pc[w] = "lock" /\ ToLock(w) = {}
    /\ Goto(w, "move")
    /\ UNCHANGED <<table, seat, body, tx>>

\* One guest is moved: a statement of its own, or a row of the plan's update.
MoveGuest(w, g) ==
    /\ pc[w] = "move" /\ g \in DOMAIN body[w].moves \ DOMAIN tx[w].seat
    /\ GuestFree(w, g) /\ ShareFree(w, g, body[w].moves[g])
    /\ tx' = [tx EXCEPT ![w].seat = Put(@, g, body[w].moves[g])]
    /\ UNCHANGED <<table, seat, pc, body>>

GuestsMoved(w) ==
    /\ pc[w] = "move" /\ DOMAIN body[w].moves \subseteq DOMAIN tx[w].seat
    /\ Goto(w, "clear")
    /\ UNCHANGED <<table, seat, body, tx>>

\* The guests of the deleted tables lose their table.
ClearGuests(w) ==
    LET seated == {g \in Guests : SeatIn(w, g) \in body[w].drops}
    IN  /\ pc[w] = "clear"
        /\ \A g \in seated : GuestFree(w, g)
        /\ tx' = [tx EXCEPT ![w].seat = [g \in DOMAIN @ \cup seated |->
                                           IF g \in seated THEN NoTable ELSE @[g]]]
        /\ Goto(w, IF body[w].drops = {} THEN "check" ELSE "drop")
        /\ UNCHANGED <<table, seat, body>>

\* The tables are soft-deleted.  A plan insists that each was there.
DropTables(w) ==
    LET found == {t \in body[w].drops : LiveIn(w, t)}
    IN  /\ pc[w] = "drop"
        /\ \A t \in found : RowFree(w, t)
        /\ body[w].kind = "plan" => found = body[w].drops
        /\ tx' = [tx EXCEPT ![w].dropped = found]
        /\ Goto(w, IF body[w].kind = "delete" THEN "commit" ELSE "check")
        /\ UNCHANGED <<table, seat, body>>

\* checkTableCapacity
Fit(w) ==
    \A t \in tx[w].checked : LiveIn(w, t) => Seats[SeatedIn(w, t)] <= CapIn(w, t)

CheckCapacity(w) ==
    /\ pc[w] = "check" /\ Fit(w)
    /\ Goto(w, "commit")
    /\ UNCHANGED <<table, seat, body, tx>>

Done(w) ==
    /\ Goto(w, "idle")
    /\ body' = [body EXCEPT ![w] = NoBody]
    /\ tx' = [tx EXCEPT ![w] = NoTx]

Commit(w) ==
    /\ pc[w] = "commit"
    /\ table' = [t \in Tables |->
                   [state |-> IF t \in tx[w].dropped THEN "deleted"
                              ELSE IF t \in tx[w].created THEN "live" ELSE table[t].state,
                    cap |-> CapIn(w, t)]]
    /\ seat' = [g \in Guests |-> SeatIn(w, g)]
    /\ Done(w)

\* A statement fails, the request is refused (a stale reference, no room), the
\* server breaks a deadlock or the replica dies.
Rollback(w) ==
    /\ pc[w] # "idle"
    /\ Done(w)
    /\ UNCHANGED <<table, seat>>

-----------------------------------------------------------------------------
(* UpdateGuest and UpdateTable.                                            *)

\* checkGuestTables and CheckSeatsFit for a guest that is given a table.
Admitted(g, t) ==
    t # NoTable =>
       /\ table[t].state = "live"
       /\ seat[g] # t => Seats[{h \in Guests : seat[h] = t} \cup {g}] <= table[t].cap

\* PUT /guests/:id reads the guest and checks the table it is given.  An edit
\* that names no table keeps the one it read.
ReadGuest(w, b) ==
    /\ pc[w] = "idle" /\ b.kind \in {"guest", "edit"}
    /\ LET read == [g \in DOMAIN b.moves |-> IF b.kind = "edit" THEN seat[g] ELSE b.moves[g]]
       IN  /\ b.kind = "guest" => \A g \in DOMAIN b.moves : Admitted(g, read[g])
           /\ body' = [body EXCEPT ![w] = [b EXCEPT !.moves = read]]
    /\ Goto(w, "write")
    /\ UNCHANGED <<table, seat, tx>>

\* Every column is written, the table included.
WriteGuest(w) ==
    LET moves == body[w].moves
    IN  /\ pc[w] = "write" /\ body[w].kind \in {"guest", "edit"}
        /\ \A g \in DOMAIN moves : GuestFree(w, g) /\ ShareFree(w, g, moves[g])
        /\ seat' = [g \in Guests |-> IF g \in DOMAIN moves THEN moves[g] ELSE seat[g]]
        /\ Done(w)
        /\ UNCHANGED table

\* PUT /tables/:id reads the table and checks a lower capacity.  An edit that
\* names no capacity keeps the one it read.
ReadTable(w, b) ==
    /\ pc[w] = "idle" /\ b.kind \in {"table", "rename"}
    /\ \A t \in DOMAIN b.caps : table[t].state = "live"
    /\ LET read == [t \in DOMAIN b.caps |-> IF b.kind = "rename" THEN table[t].cap ELSE b.caps[t]]
       IN  /\ \A t \in DOMAIN read : read[t] < table[t].cap =>
                 Seats[{g \in Guests : seat[g] = t}] <= read[t]
           /\ body' = [body EXCEPT ![w] = [b EXCEPT !.caps = read]]
    /\ Goto(w, "write")
    /\ UNCHANGED <<table, seat, tx>>

WriteTable(w) ==
    LET caps == body[w].caps
    IN  /\ pc[w] = "write" /\ body[w].kind \in {"table", "rename"}
        /\ \A t \in DOMAIN caps : RowFree(w, t) /\ table[t].state = "live"
        /\ table' = [t \in Tables |-> IF t \in DOMAIN caps
                                      THEN [state |-> "live", cap |-> caps[t]] ELSE table[t]]
        /\ Done(w)
        /\ UNCHANGED seat

Serve(w) ==
    \/ \E b \in Bodies[w] : Begin(w, b) \/ ReadGuest(w, b) \/ ReadTable(w, b)
    \/ ReadCapacities(w) \/ CountTables(w) \/ ReadCurrent(w) \/ LocksTaken(w)
    \/ \E t \in Tables : UpdateCapacity(w, t) \/ LockTable(w, t)
    \/ \E g \in Guests : MoveGuest(w, g)
    \/ GuestsMoved(w) \/ ClearGuests(w) \/ DropTables(w) \/ CheckCapacity(w)
    \/ Commit(w) \/ Rollback(w) \/ WriteGuest(w) \/ WriteTable(w)

Next == \E w \in Writers : Serve(w)

Spec == Init /\ [][Next]_vars

-----------------------------------------------------------------------------
Places == {"idle", "capacities", "update", "current", "lock", "move", "clear", "drop",
           "check", "commit", "write"}

TxOK(r) ==
    /\ r = [seat |-> r.seat, cap |-> r.cap, created |-> r.created, dropped |-> r.dropped,
            locked |-> r.locked, checked |-> r.checked]
    /\ IsPartial(r.seat, Guests, Tables \cup {NoTable})
    /\ IsPartial(r.cap, Tables, Nat)
    /\ r.created \cup r.dropped \cup r.locked \cup r.checked \subseteq Tables

BodyOK(b) == b = NoBody \/ IsRequest(b)

\* The rows and the transactions have their types.
TypeOK ==
    /\ table \in [Tables -> [state : {"absent", "live", "deleted"}, cap : Nat]]
    /\ seat \in [Guests -> Tables \cup {NoTable}]
    /\ pc \in [Writers -> Places]
    /\ body = [w \in Writers |-> body[w]] /\ \A w \in Writers : BodyOK(body[w])
    /\ tx = [w \in Writers |-> tx[w]] /\ \A w \in Writers : TxOK(tx[w])

\* What checkTableCapacity found of the tables that gain guests is still true
\* when the transaction commits, whoever else writes guests and tables: the
\* locks, and the foreign key of the guests, keep every other writer out.
CheckStands ==
    \A w \in Writers : pc[w] = "commit" /\ DOMAIN body[w].moves # {} =>
       \A t \in tx[w].checked : LiveIn(w, t) => Seats[SeatedIn(w, t)] <= CapIn(w, t)

Over(t) == table[t].state = "live" /\ Seats[{g \in Guests : seat[g] = t}] > table[t].cap

\* No request makes the tables of b larger than b does.
Raises(b) ==
    \A t \in DOMAIN b.caps :
       /\ Initial[t] <= b.caps[t]
       /\ \A w \in Writers : \A c \in Bodies[w] :
            /\ t \in DOMAIN c.caps => c.caps[t] <= b.caps[t]
            /\ t \in DOMAIN c.creates => c.creates[t] <= b.caps[t]

\* Requests served side by side edit different guests and tables, and those
\* that take no lock seat nobody and lower no capacity.
OwnDrafts ==
    \A w \in Writers : \A b \in Bodies[w] :
       /\ \A v \in Writers \ {w} : \A c \in Bodies[v] :
            /\ DOMAIN b.moves \cap DOMAIN c.moves = {}
            /\ DOMAIN b.caps \cap (DOMAIN c.caps \cup DOMAIN c.creates) = {}
       /\ b.kind = "guest" => \A g \in DOMAIN b.moves : b.moves[g] = NoTable
       /\ b.kind = "table" => Raises(b)

\* No live table seats more than its capacity, as long as OwnDrafts.
NeverOver == \A t \in Tables : ~Over(t)
=============================================================================
