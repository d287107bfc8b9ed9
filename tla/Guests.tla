------------------------------- MODULE Guests -------------------------------
(***************************************************************************)
(* Guests of an event: their answer, the door check-in and the link that   *)
(* lets them answer.                                                       *)
(*   services/guests/GuestService.go, services/invitations/                *)
(*   InvitationService.go, repositories/guestrepository/GuestRepository.go *)
(*                                                                         *)
(* The status endpoint of the dashboard and the door works on locked rows, *)
(* so each of its transitions is one action.  An RSVP from the site, a PUT *)
(* of the dashboard and the making of a link read the row, and write every *)
(* column of it later; their statements are actions of their own.  The     *)
(* update of a row waits for the locks of a transition, then finds the row *)
(* live or not.  Party sizes, profile texts, rsvp_at, caches and the       *)
(* analytics counters are left out, and the table is that of Seating.      *)
(***************************************************************************)
EXTENDS Naturals

CONSTANTS
    People,   \* guest rows
    Links,    \* invitations, each with at most one access token
    Clients,  \* the requests that take no row lock
    Serves,   \* bound: Serves[p], what request p may be
    Said,     \* bound: the answers that requests carry
    Edits,    \* what a PUT sets: rsvp, status and method, Kept for a column it leaves
    Lists,    \* bound: the answers guests are put on the list with
    Kept,
    NoLink

Codes == {"pending", "confirmed", "declined"}    \* of the seeded catalogue

\* validateGuestWrite, BulkUpdateGuestStatus and ConfirmRSVP refuse other answers.
ASSUME GuestsAssumption ==
    /\ Said \subseteq Codes
    /\ \A e \in Edits : e.rsvp \in Codes \cup {"", Kept}
    /\ \A a \in Lists : a.rsvp \in Codes \cup {""}

VARIABLES
    guest,   \* guest[g]: liveness, answer, what the check-in recorded, invitation
    link,    \* link[l]: the invitation row and its token
    client,  \* client[p]: the open request: what it read and is going to write
    late,    \* history: the requests whose guest was written after they had read it
    trail    \* history, trail[g]: since the latest check-in that was recorded, the answer
             \* it replaced, whether another answer came, and whether a request wrote that
             \* did not know what it wrote over; and whether the two columns of the answer
             \* were ever left out of step, by a failed lookup or as the row was created

guestVars == <<guest, link, client, late, trail>>

NotCheckedIn == [rsvp |-> "-", method |-> "-", status |-> "-"]
Answer(r) == [rsvp |-> r.rsvp, method |-> r.method, status |-> r.status]

Created(a, l) ==
    [live |-> TRUE, rsvp |-> a.rsvp, method |-> a.method, status |-> a.status,
     prev |-> NotCheckedIn, link |-> l]
Unasked == [kind |-> "none", on |-> {}, row |-> NotCheckedIn, extra |-> NotCheckedIn]
Served == [Unasked EXCEPT !.kind = "done"]
Untouched == [stood |-> NotCheckedIn, replaced |-> FALSE, late |-> FALSE, missed |-> FALSE]

\* A guest whose status is of the catalogue has answered so, or has not answered.
InStep(r) == r.status \in Codes => r.rsvp \in {"", r.status}

\* The guests of G are on the list, each with the invitation held[g] (NoLink for rows from
\* before invitations came with the guest) and the answer made[g], both columns as POST
\* /guests was given them; the requests of A are to come.
GuestsInitWith(G, held, made, A) ==
    /\ guest = [g \in G |-> Created(made[g], held[g])]
    /\ link = [l \in Links |->
                 IF \E g \in G : held[g] = l THEN [live |-> TRUE, token |-> "valid"]
                 ELSE [live |-> FALSE, token |-> "none"]]
    /\ client = [p \in Clients |-> IF p \in A THEN Unasked ELSE Served]
    /\ late = {}
    /\ trail = [g \in G |-> [Untouched EXCEPT !.missed = ~InStep(guest[g])]]
GuestsInit == \E held \in [People -> Links \cup {NoLink}], made \in [People -> Lists] :
    /\ \A g, h \in People : held[g] = held[h] => g = h \/ held[g] = NoLink
    /\ GuestsInitWith(People, held, made, Clients)

Listed == DOMAIN guest
Alive(S) == \A g \in S : guest[g].live
---------------------------------------------------------------------------
(* PATCH /guests/bulk/status: the transitions under row locks.             *)

DoorCheckedIn(r) == r.prev # NotCheckedIn /\ r.rsvp = "confirmed" /\ r.method = "host"
effectiveRSVPStatus(r) == IF r.rsvp # "" THEN r.rsvp ELSE r.status

setGuestRSVP(r, code) == [r EXCEPT !.rsvp = code, !.status = code, !.method = "host"]
ClearDoorCheckin(r) == [r EXCEPT !.prev = NotCheckedIn]

\* Fault: a check-in is recorded whether or not the guest is still checked in.
recordedAgain(r) == setGuestRSVP([r EXCEPT !.prev = Answer(r)], "confirmed")

checkedIn(r) ==
    IF DoorCheckedIn(r)
    THEN IF r.status = "confirmed" THEN r ELSE setGuestRSVP(r, "confirmed")
    ELSE setGuestRSVP([r EXCEPT !.prev = Answer(r)], "confirmed")

restoreDoorCheckin(r) ==
    ClearDoorCheckin([r EXCEPT !.rsvp = r.prev.rsvp, !.method = r.prev.method,
                               !.status = r.prev.status])

Replaced(S) ==
    trail' = [g \in Listed |-> [trail[g] EXCEPT !.replaced = @ \/ g \in S]]

BulkUpdateGuestStatus(S, code) ==
    /\ Alive(S)
    /\ guest' = [g \in Listed |-> IF g \in S THEN ClearDoorCheckin(setGuestRSVP(guest[g], code))
                                  ELSE guest[g]]
    /\ Replaced(S)
    /\ UNCHANGED <<link, client>>

CheckInGuests(S) ==
    /\ Alive(S)
    /\ guest' = [g \in Listed |-> IF g \in S THEN checkedIn(guest[g]) ELSE guest[g]]
    /\ trail' = [g \in Listed |-> IF g \in S /\ ~DoorCheckedIn(guest[g])
                                  THEN [Untouched EXCEPT !.stood = Answer(guest[g]),
                                                         !.missed = trail[g].missed]
                                  ELSE trail[g]]
    /\ UNCHANGED <<link, client>>

\* Everyone who is confirmed some other way has the whole request refused.
UndoGuestCheckins(S) ==
    /\ Alive(S)
    /\ \A g \in S : DoorCheckedIn(guest[g]) \/ effectiveRSVPStatus(guest[g]) # "confirmed"
    /\ guest' = [g \in Listed |-> IF g \in S /\ DoorCheckedIn(guest[g])
                                  THEN restoreDoorCheckin(guest[g]) ELSE guest[g]]
    /\ UNCHANGED <<link, client, trail>>
---------------------------------------------------------------------------
(* Requests that read first and write later.                               *)

Asking(p, kind) == client[p].kind = kind
Opens(p, kind, S, row) ==
    /\ Asking(p, "none")
    /\ client' = [client EXCEPT ![p] =
                    [kind |-> kind, on |-> S, row |-> row, extra |-> NotCheckedIn]]
Step(p, kind, extra) == client' = [client EXCEPT ![p] = [@ EXCEPT !.kind = kind, !.extra = extra]]
Closes(p) == client' = [client EXCEPT ![p] = Served]

\* An error, a refusal or a lost replica ends a request.
Abandon(p) == client[p].on # {} /\ Closes(p) /\ UNCHANGED <<guest, link, trail>>

\* What a failed reading leaves a request with.
Unread == [rsvp |-> "", method |-> "", status |-> ""]

\* What a write of g leaves behind; found says whether the lookup of its status succeeded.
Written(p, g, r, found) ==
    trail' = [trail EXCEPT ![g].late = @ \/ p \in late \/ client[p].extra = Unread,
                           ![g].replaced = @ \/ Answer(guest[g]) # Answer(r),
                           ![g].missed = @ \/ (~found /\ ~InStep(r))]

\* Fault: the update ignores the soft delete.
UpdateGuestUnscoped(p, r, found) ==
    \E g \in client[p].on :
       /\ guest' = [guest EXCEPT ![g] = r] /\ Written(p, g, r, found)

\* Every column of the row, deleted_at included, of a row that is live.
UpdateGuest(p, r, found) ==
    \E g \in client[p].on :
       /\ guest[g].live
       /\ guest' = [guest EXCEPT ![g] = r] /\ Written(p, g, r, found)

\* The guest's own answer; a method "host" in the request is stored as "web".  The status
\* follows unless its lookup fails (syncGuestStatusWithRSVP).
answered(r, code, found) ==
    ClearDoorCheckin([r EXCEPT !.rsvp = code, !.status = IF found THEN code ELSE @, !.method = "web"])

\* ConfirmRSVP: the token, its invitation and the guest who holds it.
ConfirmRSVP(p, g, code, found) ==
    LET l == guest[g].link
    IN  /\ guest[g].live /\ l # NoLink
        /\ link[l].token = "valid" /\ link[l].live
        /\ Opens(p, IF found THEN "rsvp" ELSE "rsvp alone", {g}, answered(guest[g], code, found))
        /\ UNCHANGED <<guest, link, trail>>

RSVPWrites(p) ==
    /\ \E found \in BOOLEAN :
          Asking(p, IF found THEN "rsvp" ELSE "rsvp alone") /\ UpdateGuest(p, client[p].row, found)
    /\ Closes(p) /\ UNCHANGED link

\* PUT /guests/:id: the handler reads the row and sets what the request names,
applyGuestWrite(r, e) ==
    LET Set(old, new) == IF new = Kept THEN old ELSE new
    IN  [r EXCEPT !.rsvp = Set(@, e.rsvp), !.status = Set(@, e.status), !.method = Set(@, e.method)]
PutGuest(p, g, e) ==
    /\ guest[g].live
    /\ Opens(p, "put", {g}, applyGuestWrite(guest[g], e))
    /\ UNCHANGED <<guest, link, trail>>

\* the service reads it once more, and goes on if that fails,
PutReadsOld(p) ==
    /\ Asking(p, "put")
    /\ \/ \E g \in client[p].on : guest[g].live /\ Step(p, "put old", guest[g])
       \/ Step(p, "put old", Unread)
    /\ UNCHANGED <<guest, link, trail>>

\* Fault: a PUT of the status alone leaves rsvp_status behind.
alignRSVPOnly(row, old, found) ==
    IF row.rsvp # old.rsvp /\ row.rsvp \in Codes /\ found THEN [row EXCEPT !.status = row.rsvp] ELSE row

\* and decides by the second reading which of the two columns follows the other; neither
\* does when the lookup of the status fails,
alignGuestStatusWithRSVP(row, old, found) ==
    IF ~found THEN row
    ELSE IF row.rsvp # old.rsvp /\ row.rsvp \in Codes THEN [row EXCEPT !.status = row.rsvp]
    ELSE IF row.status # old.status /\ row.status \in Codes THEN [row EXCEPT !.rsvp = row.status]
    ELSE row

\* an answer without a method is the host's; one that no reading preceded, if it was not
\* dated before,
syncRSVPMetadata(row, old, dated) ==
    IF row.rsvp # "" /\ row.method = "" /\ (IF old = Unread THEN ~dated ELSE row.rsvp # old.rsvp)
    THEN [row EXCEPT !.method = "host"] ELSE row

\* and whether the answer changed.
PutWrites(p) ==
    \E found, dated \in BOOLEAN :
       LET old == client[p].extra
           row == syncRSVPMetadata(alignGuestStatusWithRSVP(client[p].row, old, found), old, dated)
           replaced == old # Unread /\ Answer(row) # Answer(old)
       IN  /\ Asking(p, "put old")
           /\ UpdateGuest(p, IF replaced THEN ClearDoorCheckin(row) ELSE row, found)
           /\ Closes(p) /\ UNCHANGED link

\* EnsureRSVPToken reads a guest without a token,
EnsureRSVPToken(p, g) ==
    /\ guest[g].live
    /\ guest[g].link # NoLink => link[guest[g].link].token = "none"
    /\ Opens(p, IF guest[g].link = NoLink THEN "invite" ELSE "token", {g}, guest[g])
    /\ UNCHANGED <<guest, link, trail>>

\* inserts an invitation,
TokenInvites(p, l) ==
    /\ Asking(p, "invite") /\ link[l] = [live |-> FALSE, token |-> "none"]
    /\ \A g \in Listed : guest[g].link # l
    /\ link' = [link EXCEPT ![l].live = TRUE]
    /\ client' = [client EXCEPT ![p].kind = "attach", ![p].row.link = l]
    /\ UNCHANGED <<guest, trail>>

\* gives it to the guest, or deletes it when that fails,
TokenAttaches(p) ==
    /\ Asking(p, "attach")
    /\ \/ UpdateGuest(p, client[p].row, TRUE) /\ Step(p, "token", NotCheckedIn) /\ UNCHANGED link
       \/ /\ Closes(p)
          /\ link' = [link EXCEPT ![client[p].row.link].live = FALSE]
          /\ UNCHANGED <<guest, trail>>

\* looks for a token of the invitation,
TokenLooks(p) ==
    /\ Asking(p, "token")
    /\ Step(p, "save", [NotCheckedIn EXCEPT !.status = link[client[p].row.link].token])
    /\ UNCHANGED <<guest, link, trail>>

\* and inserts it, which the unique index refuses if another request has, or writes back
\* the one it found, expiry included.
TokenSaves(p) ==
    LET l == client[p].row.link
        found == client[p].extra.status
    IN  /\ Asking(p, "save")
        /\ found = "none" => link[l].token = "none"
        /\ link' = [link EXCEPT ![l].token = IF found = "none" THEN "valid" ELSE found]
        /\ Closes(p) /\ UNCHANGED <<guest, trail>>

\* DeleteGuest and BulkDeleteGuests read which invitations the guests hold,
DeleteGuests(p, S) ==
    /\ Alive(S)
    /\ Opens(p, "delete", S, {guest[g].link : g \in S})
    /\ UNCHANGED <<guest, link, trail>>

\* and delete the guests and the invitations nobody else holds, and expire the tokens.
DeletesCommit(p) ==
    LET gone(h) == ~guest[h].live \/ h \in client[p].on
        revoked == {l \in client[p].row \ {NoLink} : \A h \in Listed : guest[h].link = l => gone(h)}
    IN  /\ Asking(p, "delete")
        /\ guest' = [g \in Listed |-> [guest[g] EXCEPT !.live = ~gone(g)]]
        /\ link' = [l \in Links |->
                      IF l \in revoked
                      THEN [live |-> FALSE, token |-> IF link[l].token = "none" THEN "none" ELSE "expired"]
                      ELSE link[l]]
        /\ Closes(p) /\ UNCHANGED trail
---------------------------------------------------------------------------
ServesGuests(p) ==
    \/ \E g \in Listed :
          \/ "rsvp" \in Serves[p] /\ \E code \in Said, found \in BOOLEAN : ConfirmRSVP(p, g, code, found)
          \/ "put" \in Serves[p] /\ \E e \in Edits : PutGuest(p, g, e)
          \/ "token" \in Serves[p] /\ EnsureRSVPToken(p, g)
    \/ "delete" \in Serves[p] /\ \E S \in SUBSET Listed \ {{}} : DeleteGuests(p, S)
    \/ RSVPWrites(p) \/ PutReadsOld(p) \/ PutWrites(p)
    \/ \E l \in Links : TokenInvites(p, l)
    \/ TokenAttaches(p) \/ TokenLooks(p) \/ TokenSaves(p)
    \/ DeletesCommit(p) \/ Abandon(p)

GuestsNext ==
    /\ \/ \E S \in SUBSET Listed \ {{}} :
             \/ \E code \in Said : BulkUpdateGuestStatus(S, code)
             \/ CheckInGuests(S) \/ UndoGuestCheckins(S)
       \/ \E p \in Clients : ServesGuests(p)
    /\ late' = {p \in Clients : \/ p \in late /\ client'[p].on # {}
                               \/ \E g \in client[p].on \cap client'[p].on : guest'[g] # guest[g]}

GuestsSpec == GuestsInit /\ [][GuestsNext]_guestVars
---------------------------------------------------------------------------
\* guest_status_id and rsvp_status stay in step (alignGuestStatusWithRSVP), whatever a PUT
\* read before others wrote: only a failed lookup of the status, or a guest put on the list
\* that way, sets them apart, no order of requests does.
StatusFollows == \A g \in Listed : ~trail[g].missed => InStep(guest[g])

\* "a later undo can never restore an answer that has since been replaced" (ClearDoorCheckin,
\* models/Guest.go): an undo at the door gives back the answer the check-in found, and is
\* refused once the guest or the host has answered since.  The exception is a request that
\* wrote the row it had read before others did, or a PUT whose second reading failed.
UndoGivesBack ==
    \A g \in Listed : DoorCheckedIn(guest[g]) /\ ~trail[g].late =>
        ~trail[g].replaced /\ guest[g].prev = trail[g].stood

\* A deleted guest stays deleted, as it was, though requests that read it earlier still
\* write every column (UpdateGuest, GuestRepository.go).
DeletedStays == [][\A g \in Listed : ~guest[g].live => guest'[g] = guest[g]]_guestVars
=============================================================================
