----------------------------- MODULE MCBackend -----------------------------
(* Instances of OutboxLanes (with the values of MCOutbox), Guests and Moments. *)
(* They share no state: a behaviour is one of the part its initial state is   *)
(* about, the others keep still.                                              *)
EXTENDS OutboxLanes, MCOutbox, Guests, Moments

VARIABLE focus   \* the part that runs

ASSUME MCFewLegacy == FewLegacy

\* Guests: two requests on one guest, who has a link or has none; a deletion that races
\* with the door over two guests.  A guest is put on the list unanswered, or as confirmed
\* with the status left at pending.
MCServes == (51 :> {"rsvp", "put"}) @@ (52 :> {"put"}) @@ (53 :> {"token"}) @@ (54 :> {"delete", "token"})
MCEdits == {[rsvp |-> Kept, status |-> Kept, method |-> Kept],
            [rsvp |-> "confirmed", status |-> Kept, method |-> "host"],
            [rsvp |-> Kept, status |-> "declined", method |-> Kept]}
MCUnanswered == [rsvp |-> "", method |-> "", status |-> "pending"]
MCLists == {MCUnanswered, [MCUnanswered EXCEPT !.rsvp = "confirmed"]}
MCGuestsInit ==
    \/ GuestsInitWith({61}, 61 :> 71, 61 :> MCUnanswered, {51, 52})
    \/ \E a \in MCLists : GuestsInitWith({61}, 61 :> 71, 61 :> a, {51, 54})
    \/ \E A \in {{51, 53}, {53, 54}} : GuestsInitWith({61}, 61 :> NoLink, 61 :> MCUnanswered, A)
    \/ GuestsInitWith({61, 62}, (61 :> 71) @@ (62 :> 72), [g \in {61, 62} |-> MCUnanswered], {54})

\* Moments: two uploads, direct or confirming one presigned file; one upload and two
\* requests of the dashboard, which may create a moment of the presigned file or of what the
\* worker makes of the first moment.
MCNewKey == (11 :> 2) @@ (12 :> 3)
MCTyped == {Raw(1), Opt(1)}
MCMomentsInit == MomentsInitWith({11, 12}, {}) \/ MomentsInitWith({11}, {21, 22})

NoGuests == GuestsInitWith({}, <<>>, <<>>, {})
NoMoments == MomentsInitWith({}, {})

MCInit ==
    \/ focus = "lanes" /\ LanesInit /\ NoGuests /\ NoMoments
    \/ focus = "guests" /\ MCGuestsInit /\ LanesInit /\ NoMoments
    \/ focus = "moments" /\ MCMomentsInit /\ LanesInit /\ NoGuests

MCNext ==
    \/ focus = "lanes" /\ LanesNext /\ UNCHANGED <<focus, guestVars, momentVars>>
    \/ focus = "guests" /\ GuestsNext /\ UNCHANGED <<focus, vars, passed, momentVars>>
    \/ focus = "moments" /\ MomentsNext /\ UNCHANGED <<focus, vars, passed, guestVars>>

MCSpec == MCInit /\ [][MCNext]_<<focus, vars, passed, guestVars, momentVars>>
=============================================================================
