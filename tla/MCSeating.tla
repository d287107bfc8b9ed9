----------------------------- MODULE MCSeating -----------------------------
(* Instances of Seating: two guests of one seat each, two tables of one      *)
(* seat, and a third that a plan may create.                                 *)
EXTENDS Seating, TLC

CONSTANTS g1, g2, w1, w2

MCSeats == [S \in SUBSET Guests |-> Cardinality(S)]
MCInitial == [t \in Tables |-> IF t <= 2 THEN 1 ELSE 0]

Partial(D, R) == UNION {[S -> R] : S \in SUBSET D}

Req(kind, moves, caps, creates, drops) ==
    [kind |-> kind, moves |-> moves, caps |-> caps, creates |-> creates, drops |-> drops]

Assigns(guests) ==
    {Req("assign", m, Empty, Empty, {}) : m \in Partial(guests, {1, 2, NoTable}) \ {Empty}}

\* Each writer edits its own guests and table, but seats its guests anywhere.
\* Of the requests that take no lock: those that seat nobody and lower nothing.
OwnBodies == [w \in Writers |->
    LET mine == IF w = w1 THEN {g1} ELSE {g2}
        own == IF w = w1 THEN 1 ELSE 2
    IN  Assigns(mine)
        \cup {Req("plan", m, own :> c, Empty, {}) : m \in Partial(mine, {1, 2}), c \in 1..2}
        \cup {Req("plan", [g \in mine |-> own], Empty, Empty, {3 - own}),
              Req("plan", [g \in mine |-> 3], Empty, 3 :> 1, {}),
              Req("delete", Empty, Empty, Empty, {own}),
              Req("table", Empty, own :> 2, Empty, {}),
              Req("rename", Empty, own :> 1, Empty, {})}
        \cup {Req(kind, g :> NoTable, Empty, Empty, {}) : kind \in {"guest", "edit"}, g \in mine}]

\* What NeverOver asks of the requests.
ASSUME MCOwnDrafts == OwnDrafts
=============================================================================
