---------------------------- MODULE GuestsProofs ----------------------------
(***************************************************************************)
(* Guests, for any list, invitations, requests and edits: no order of       *)
(* requests puts the two status columns out of step, only a failed lookup;  *)
(* an undo at the door gives back what the check-in found, and a deleted    *)
(* guest stays as it was.                                                   *)
(***************************************************************************)
EXTENDS Guests, TLAPS

\* What columns may hold: answers, methods and statuses, of the catalogue or of an edit.
Texts == {"-", "", "host", "web"} \cup Codes \cup {"none", "valid", "expired"}
         \cup {e.rsvp : e \in Edits} \cup {e.status : e \in Edits} \cup {e.method : e \in Edits}
         \cup {a.rsvp : a \in Lists} \cup {a.status : a \in Lists} \cup {a.method : a \in Lists}
Answers == [rsvp : Texts, method : Texts, status : Texts]
GuestRow == [live : BOOLEAN, rsvp : Texts, method : Texts, status : Texts, prev : Answers,
             link : Links \cup {NoLink}]
Trail == [stood : Answers, replaced : BOOLEAN, late : BOOLEAN, missed : BOOLEAN]

\* Requests, and those that hold the row of one guest.
ReadBy == GuestRow \cup Answers \cup SUBSET (Links \cup {NoLink})
Holding == {"rsvp", "rsvp alone", "put", "put old", "invite", "attach", "token", "save"}
Request == [kind : Holding \cup {"none", "done", "delete"}, on : SUBSET People, row : ReadBy, extra : ReadBy]

\* Rows, invitations, trails and requests have their types.
GuestsTypeOK ==
    /\ guest \in [People -> GuestRow] /\ trail \in [People -> Trail]
    /\ link \in [Links -> [live : BOOLEAN, token : {"none", "valid", "expired"}]]
    /\ client \in [Clients -> Request]
    /\ \A p \in Clients : /\ client[p].kind \in Holding => client[p].row \in GuestRow
                          /\ client[p].kind = "put old" => client[p].extra \in GuestRow \cup {Unread}
                          /\ client[p].kind = "save" => client[p].extra \in Answers
                                                         /\ client[p].extra.status \in {"none", "valid", "expired"}
                          /\ client[p].kind \in {"attach", "token", "save"} => client[p].row.link \in Links

\* The values rows take: each operator on rows gives a row.
LEMMA RowTypes ==
    ASSUME NEW r \in GuestRow
    PROVE  /\ Answer(r) \in Answers /\ NotCheckedIn \in Answers
           /\ \A code \in Codes : /\ setGuestRSVP(r, code) \in GuestRow
                                  /\ \A found : answered(r, code, found) \in GuestRow
           /\ ClearDoorCheckin(r) \in GuestRow /\ checkedIn(r) \in GuestRow /\ restoreDoorCheckin(r) \in GuestRow
           /\ \A old, b : alignGuestStatusWithRSVP(r, old, b) \in GuestRow /\ syncRSVPMetadata(r, old, b) \in GuestRow
           /\ \A e \in Edits : applyGuestWrite(r, e) \in GuestRow
           /\ \A l \in Links : [r EXCEPT !.link = l] \in GuestRow
           /\ \A b \in BOOLEAN : [r EXCEPT !.live = b] \in GuestRow
  <1>0. /\ {"-", "", "host", "web", "pending", "confirmed", "declined"} \subseteq Texts /\ Codes \subseteq Texts
        /\ \A e \in Edits : e.rsvp \in Texts /\ e.status \in Texts /\ e.method \in Texts
    BY DEF Texts, Codes
  <1>1. Answer(r) \in Answers /\ NotCheckedIn \in Answers
    BY <1>0 DEF Answer, NotCheckedIn, Answers, GuestRow
  <1>2. /\ r.rsvp \in Texts /\ r.method \in Texts /\ r.status \in Texts /\ r.prev \in Answers
        /\ r.prev.rsvp \in Texts /\ r.prev.method \in Texts /\ r.prev.status \in Texts
    BY DEF GuestRow, Answers
  <1>3. \A a, b, c \in Texts : /\ [r EXCEPT !.rsvp = a, !.status = b, !.method = c] \in GuestRow
                               /\ [r EXCEPT !.rsvp = a, !.method = b, !.status = c] \in GuestRow
    BY DEF GuestRow
  <1>4. \A a \in Texts : /\ [r EXCEPT !.status = a] \in GuestRow /\ [r EXCEPT !.rsvp = a] \in GuestRow
                         /\ [r EXCEPT !.method = a] \in GuestRow
    BY DEF GuestRow
  <1>5. \A s \in GuestRow : \A a \in Answers : [s EXCEPT !.prev = a] \in GuestRow
    BY DEF GuestRow
  <1>6. \A s \in GuestRow : \A code \in Codes : setGuestRSVP(s, code) \in GuestRow
    BY <1>0 DEF setGuestRSVP, GuestRow
  <1>7. ASSUME NEW code \in Codes, NEW found PROVE answered(r, code, found) \in GuestRow
    <2>1. PICK status \in Texts : status = IF found THEN code ELSE r.status
      BY <1>0, <1>2
    <2>2. [r EXCEPT !.rsvp = code, !.status = status, !.method = "web"] \in GuestRow
      BY <1>0, <1>3
    <2>. QED  BY <1>1, <1>5, <2>1, <2>2 DEF answered, ClearDoorCheckin
  <1>8. ClearDoorCheckin(r) \in GuestRow
    BY <1>1, <1>5 DEF ClearDoorCheckin
  <1>9. checkedIn(r) \in GuestRow
    <2>1. "confirmed" \in Codes /\ [r EXCEPT !.prev = Answer(r)] \in GuestRow
      BY <1>1, <1>5 DEF Codes
    <2>. QED  BY <1>6, <2>1 DEF checkedIn
  <1>10. restoreDoorCheckin(r) \in GuestRow
    BY <1>1, <1>2, <1>3, <1>5 DEF restoreDoorCheckin, ClearDoorCheckin
  <1>11. \A old, b : alignGuestStatusWithRSVP(r, old, b) \in GuestRow /\ syncRSVPMetadata(r, old, b) \in GuestRow
    BY <1>0, <1>2, <1>4 DEF alignGuestStatusWithRSVP, syncRSVPMetadata
  <1>12. \A e \in Edits : applyGuestWrite(r, e) \in GuestRow
    BY <1>0, <1>2, <1>3 DEF applyGuestWrite
  <1>13. \A l \in Links : [r EXCEPT !.link = l] \in GuestRow
    BY DEF GuestRow
  <1>14. \A b \in BOOLEAN : [r EXCEPT !.live = b] \in GuestRow
    BY DEF GuestRow
  <1>. QED  BY <1>1, <1>6, <1>7, <1>8, <1>9, <1>10, <1>11, <1>12, <1>13, <1>14

\* What a PUT is going to write.
PutRow(p, found, dated) ==
    LET old == client[p].extra
        row == syncRSVPMetadata(alignGuestStatusWithRSVP(client[p].row, old, found), old, dated)
        replaced == old # Unread /\ Answer(row) # Answer(old)
    IN  IF replaced THEN ClearDoorCheckin(row) ELSE row

\* A write of a request is of a row.
LEMMA WrittenRow ==
    ASSUME GuestsTypeOK, NEW p \in Clients
    PROVE  /\ client[p].kind \in {"rsvp", "rsvp alone", "attach"} => client[p].row \in GuestRow
           /\ client[p].kind = "put old" => \A found, dated : PutRow(p, found, dated) \in GuestRow
  <1>1. client[p].kind \in {"rsvp", "rsvp alone", "attach", "put old"} => client[p].row \in GuestRow
    BY DEF GuestsTypeOK, Holding
  <1>2. ASSUME client[p].kind = "put old", NEW found, NEW dated PROVE PutRow(p, found, dated) \in GuestRow
    <2>. DEFINE aligned == alignGuestStatusWithRSVP(client[p].row, client[p].extra, found)
    <2>1. aligned \in GuestRow
      BY <1>1, <1>2, RowTypes
    <2>. HIDE DEF aligned
    <2>2. syncRSVPMetadata(aligned, client[p].extra, dated) \in GuestRow
      BY <2>1, RowTypes
    <2>. QED  BY <2>2, RowTypes DEF PutRow, aligned
  <1>. QED  BY <1>1, <1>2

\* An update of a guest by a request writes one live row and its trail.
Writes(p, r, found) ==
    \E g \in client[p].on :
       /\ g \in People /\ guest[g].live
       /\ guest' = [guest EXCEPT ![g] = r]
       /\ trail' \in [People -> Trail] /\ \A h \in People \ {g} : trail'[h] = trail[h]
       /\ trail'[g].stood = trail[g].stood
       /\ trail'[g].replaced <=> trail[g].replaced \/ Answer(guest[g]) # Answer(r)
       /\ trail'[g].late <=> trail[g].late \/ p \in late \/ client[p].extra = Unread
       /\ trail'[g].missed <=> trail[g].missed \/ (~found /\ ~InStep(r))

\* UpdateGuest is such a write.
LEMMA UpdateWrites ==
    ASSUME GuestsTypeOK, NEW p \in Clients, NEW r, NEW found, UpdateGuest(p, r, found)
    PROVE  Writes(p, r, found)
  <1>1. PICK g \in client[p].on :
       /\ guest[g].live
       /\ guest' = [guest EXCEPT ![g] = r]
       /\ Written(p, g, r, found)
    BY DEF UpdateGuest
  <1>2. g \in People /\ trail[g] \in Trail /\ trail \in [People -> Trail]
    BY DEF GuestsTypeOK, Request
  <1>. DEFINE a == trail[g].late \/ p \in late \/ client[p].extra = Unread
              b == trail[g].replaced \/ Answer(guest[g]) # Answer(r)
              c == trail[g].missed \/ (~found /\ ~InStep(r))
  <1>4. a \in BOOLEAN /\ b \in BOOLEAN /\ c \in BOOLEAN
    OBVIOUS
  <1>5. trail' = [trail EXCEPT ![g] = [trail[g] EXCEPT !.late = a, !.replaced = b, !.missed = c]]
    BY <1>1, <1>2 DEF Written
  <1>. DEFINE t == [trail[g] EXCEPT !.late = a, !.replaced = b, !.missed = c]
  <1>. HIDE DEF a, b, c
  <1>3. trail' = [trail EXCEPT ![g] = t]
    BY <1>5
  <1>6. t \in Trail /\ t.stood = trail[g].stood /\ t.late = a /\ t.replaced = b /\ t.missed = c
    BY <1>2, <1>4 DEF Trail
  <1>. HIDE DEF t
  <1>7. trail' \in [People -> Trail] /\ trail'[g] = t /\ \A h \in People \ {g} : trail'[h] = trail[h]
    BY <1>2, <1>3, <1>6
  <1>8. /\ trail'[g].stood = trail[g].stood
        /\ (trail'[g].late <=> a) /\ (trail'[g].replaced <=> b) /\ (trail'[g].missed <=> c)
    BY <1>6, <1>7
  <1>. QED  BY <1>1, <1>2, <1>7, <1>8 DEF Writes, a, b, c

\* A request that opens, goes on or closes: its own record changes, no other.
Becomes(p, kind, S, row, extra) ==
    /\ client' \in [Clients -> Request]
    /\ \A q \in Clients \ {p} : client'[q] = client[q]
    /\ client'[p].kind = kind /\ client'[p].on = S /\ client'[p].row = row /\ client'[p].extra = extra

\* Opens, Step and Closes are such steps.
LEMMA RequestSteps ==
    ASSUME GuestsTypeOK, NEW p \in Clients
    PROVE  /\ \A kind \in Holding \cup {"delete"} : \A S \in SUBSET People : \A row \in ReadBy :
                 Opens(p, kind, S, row) => Becomes(p, kind, S, row, NotCheckedIn)
           /\ \A kind \in Holding : \A extra \in ReadBy :
                 Step(p, kind, extra) => Becomes(p, kind, client[p].on, client[p].row, extra)
           /\ Closes(p) => Becomes(p, "done", {}, NotCheckedIn, NotCheckedIn)
  <1>0. client \in [Clients -> Request] /\ client[p] \in Request /\ NotCheckedIn \in ReadBy
    BY DEF GuestsTypeOK, ReadBy, NotCheckedIn, Answers, Texts
  <1>1. ASSUME NEW c \in Request, client' = [client EXCEPT ![p] = c]
        PROVE  Becomes(p, c.kind, c.on, c.row, c.extra)
    BY <1>0, <1>1 DEF Becomes
  <1>2. ASSUME NEW kind \in Holding \cup {"delete"}, NEW S \in SUBSET People, NEW row \in ReadBy,
               Opens(p, kind, S, row)
        PROVE  Becomes(p, kind, S, row, NotCheckedIn)
    <2>. DEFINE c == [kind |-> kind, on |-> S, row |-> row, extra |-> NotCheckedIn]
    <2>1. c \in Request /\ c.kind = kind /\ c.on = S /\ c.row = row /\ c.extra = NotCheckedIn
      BY <1>0 DEF Request
    <2>2. client' = [client EXCEPT ![p] = c]
      BY <1>2 DEF Opens
    <2>. HIDE DEF c
    <2>. QED  BY <1>1, <2>1, <2>2
  <1>3. ASSUME NEW kind \in Holding, NEW extra \in ReadBy, Step(p, kind, extra)
        PROVE  Becomes(p, kind, client[p].on, client[p].row, extra)
    <2>. DEFINE c == [client[p] EXCEPT !.kind = kind, !.extra = extra]
    <2>1. c \in Request /\ c.kind = kind /\ c.on = client[p].on /\ c.row = client[p].row /\ c.extra = extra
      BY <1>0 DEF Request
    <2>2. client' = [client EXCEPT ![p] = c]
      BY <1>0, <1>3 DEF Step
    <2>. HIDE DEF c
    <2>. QED  BY <1>1, <2>1, <2>2
  <1>4. ASSUME Closes(p) PROVE Becomes(p, "done", {}, NotCheckedIn, NotCheckedIn)
    <2>1. Served \in Request /\ Served.kind = "done" /\ Served.on = {} /\ Served.row = NotCheckedIn
          /\ Served.extra = NotCheckedIn
      BY <1>0 DEF Request, Served, Unasked
    <2>2. client' = [client EXCEPT ![p] = Served]
      BY <1>4 DEF Closes
    <2>. QED  BY <1>1, <2>1, <2>2
  <1>. QED  BY <1>2, <1>3, <1>4

\* A failed reading is among the things a request may hold.
LEMMA UnreadTypes == Unread \in Answers /\ Unread \in ReadBy
  BY DEF Unread, Answers, Texts, ReadBy

\* Where the requests that hold a row stand.
RequestOK(c) ==
    /\ c.kind \in Holding => c.row \in GuestRow
    /\ c.kind = "put old" => c.extra \in GuestRow \cup {Unread}
    /\ c.kind = "save" => c.extra \in Answers /\ c.extra.status \in {"none", "valid", "expired"}
    /\ c.kind \in {"attach", "token", "save"} => c.row.link \in Links

\* The types survive a step of a request whose writes are rows.
LEMMA RequestTypes ==
    ASSUME GuestsTypeOK, NEW p \in Clients, NEW kind, NEW S, NEW row, NEW extra, Becomes(p, kind, S, row, extra),
           RequestOK([kind |-> kind, on |-> S, row |-> row, extra |-> extra]),
           guest' \in [People -> GuestRow], trail' \in [People -> Trail],
           link' \in [Links -> [live : BOOLEAN, token : {"none", "valid", "expired"}]]
    PROVE  GuestsTypeOK'
  <1>1. RequestOK(client'[p])
    BY DEF RequestOK, Becomes
  <1>2. \A q \in Clients \ {p} : RequestOK(client'[q])
    BY DEF RequestOK, Becomes, GuestsTypeOK
  <1>3. client' \in [Clients -> Request]
    BY DEF Becomes
  <1>. QED  BY <1>1, <1>2, <1>3 DEF GuestsTypeOK, RequestOK

\* Every step of the door, the dashboard and the requests writes values of the right type.
LEMMA GuestsTypes == GuestsTypeOK /\ [GuestsNext]_guestVars => GuestsTypeOK'
  <1>. SUFFICES ASSUME GuestsTypeOK, [GuestsNext]_guestVars PROVE GuestsTypeOK'
    OBVIOUS
  <1>0. /\ guest \in [People -> GuestRow] /\ trail \in [People -> Trail] /\ Listed = People
        /\ link \in [Links -> [live : BOOLEAN, token : {"none", "valid", "expired"}]]
        /\ \A p \in Clients : client[p] \in Request /\ client[p].on \subseteq People
        /\ \A g \in People : guest[g] \in GuestRow /\ trail[g] \in Trail
        /\ GuestRow \subseteq ReadBy /\ SUBSET (Links \cup {NoLink}) \subseteq ReadBy /\ Answers \subseteq ReadBy
        /\ Said \subseteq Codes
    BY GuestsAssumption DEF GuestsTypeOK, Request, ReadBy, Listed
  <1>1. ASSUME NEW S \in SUBSET Listed, NEW code \in Said, BulkUpdateGuestStatus(S, code) PROVE GuestsTypeOK'
    <2>1. \A g \in People : ClearDoorCheckin(setGuestRSVP(guest[g], code)) \in GuestRow
      BY <1>0, RowTypes
    <2>2. guest' \in [People -> GuestRow]
      BY <1>0, <1>1, <2>1 DEF BulkUpdateGuestStatus
    <2>3. \A g \in People : \A b \in BOOLEAN : [trail[g] EXCEPT !.replaced = b] \in Trail
      BY <1>0 DEF Trail
    <2>4. trail' \in [People -> Trail]
      BY <1>0, <1>1, <2>3 DEF BulkUpdateGuestStatus, Replaced
    <2>. QED  BY <1>1, <2>2, <2>4 DEF BulkUpdateGuestStatus, GuestsTypeOK
  <1>2. ASSUME NEW S \in SUBSET Listed, CheckInGuests(S) PROVE GuestsTypeOK'
    <2>1. guest' \in [People -> GuestRow]
      <3>1. \A g \in People : checkedIn(guest[g]) \in GuestRow
        BY <1>0, RowTypes
      <3>. QED  BY <1>0, <1>2, <3>1 DEF CheckInGuests
    <2>2. trail' \in [People -> Trail]
      <3>1. \A g \in People : Answer(guest[g]) \in Answers
        BY <1>0, RowTypes
      <3>2. \A a \in Answers : \A b \in BOOLEAN : [Untouched EXCEPT !.stood = a, !.missed = b] \in Trail
        BY DEF Untouched, Trail
      <3>3. \A g \in People : trail[g].missed \in BOOLEAN
        BY <1>0 DEF Trail
      <3>4. \A g \in People : [Untouched EXCEPT !.stood = Answer(guest[g]), !.missed = trail[g].missed] \in Trail
        BY <3>1, <3>2, <3>3
      <3>. QED  BY <1>0, <1>2, <3>4 DEF CheckInGuests
    <2>. QED  BY <1>2, <2>1, <2>2 DEF CheckInGuests, GuestsTypeOK
  <1>3. ASSUME NEW S \in SUBSET Listed, UndoGuestCheckins(S) PROVE GuestsTypeOK'
    <2>1. \A g \in People : restoreDoorCheckin(guest[g]) \in GuestRow
      BY <1>0, RowTypes
    <2>2. guest' \in [People -> GuestRow]
      BY <1>0, <1>3, <2>1 DEF UndoGuestCheckins
    <2>. QED  BY <1>3, <2>2 DEF UndoGuestCheckins, GuestsTypeOK
  <1>4. ASSUME NEW p \in Clients, NEW g \in Listed, NEW code \in Said, NEW found \in BOOLEAN, ConfirmRSVP(p, g, code, found)
        PROVE  GuestsTypeOK'
    <2>. DEFINE kind == IF found THEN "rsvp" ELSE "rsvp alone"
                row == answered(guest[g], code, found)
    <2>1. row \in GuestRow /\ {g} \in SUBSET People /\ kind \in {"rsvp", "rsvp alone"}
      BY <1>0, RowTypes
    <2>2. Opens(p, kind, {g}, row)
      BY <1>4 DEF ConfirmRSVP
    <2>. HIDE DEF kind, row
    <2>3. Becomes(p, kind, {g}, row, NotCheckedIn)
      BY <1>0, <2>1, <2>2, RequestSteps DEF Holding
    <2>4. RequestOK([kind |-> kind, on |-> {g}, row |-> row, extra |-> NotCheckedIn])
      BY <2>1 DEF RequestOK
    <2>. QED  BY <1>0, <1>4, <2>3, <2>4, RequestTypes DEF ConfirmRSVP
  <1>5. ASSUME NEW p \in Clients, NEW g \in Listed, NEW e \in Edits, PutGuest(p, g, e) PROVE GuestsTypeOK'
    <2>1. applyGuestWrite(guest[g], e) \in GuestRow /\ {g} \in SUBSET People
      BY <1>0, RowTypes
    <2>2. Becomes(p, "put", {g}, applyGuestWrite(guest[g], e), NotCheckedIn)
      BY <1>0, <1>5, <2>1, RequestSteps DEF PutGuest, Holding
    <2>3. RequestOK([kind |-> "put", on |-> {g}, row |-> applyGuestWrite(guest[g], e), extra |-> NotCheckedIn])
      BY <2>1 DEF RequestOK
    <2>. QED  BY <1>0, <1>5, <2>2, <2>3, RequestTypes DEF PutGuest
  <1>6. ASSUME NEW p \in Clients, NEW g \in Listed, EnsureRSVPToken(p, g) PROVE GuestsTypeOK'
    <2>. DEFINE kind == IF guest[g].link = NoLink THEN "invite" ELSE "token"
    <2>1. guest[g] \in GuestRow /\ {g} \in SUBSET People /\ kind \in {"invite", "token"}
      BY <1>0
    <2>2. kind \in Holding /\ Opens(p, kind, {g}, guest[g])
      BY <1>6 DEF EnsureRSVPToken, Holding
    <2>3. kind \in {"attach", "token", "save"} => guest[g].link \in Links
      BY <2>1 DEF GuestRow
    <2>. HIDE DEF kind
    <2>4. Becomes(p, kind, {g}, guest[g], NotCheckedIn)
      BY <1>0, <2>1, <2>2, RequestSteps
    <2>5. RequestOK([kind |-> kind, on |-> {g}, row |-> guest[g], extra |-> NotCheckedIn])
      BY <2>1, <2>3 DEF RequestOK
    <2>. QED  BY <1>0, <1>6, <2>4, <2>5, RequestTypes DEF EnsureRSVPToken
  <1>7. ASSUME NEW p \in Clients, NEW S \in SUBSET Listed, DeleteGuests(p, S) PROVE GuestsTypeOK'
    <2>1. {guest[g].link : g \in S} \in ReadBy
      <3>1. \A g \in S : guest[g].link \in Links \cup {NoLink}
        BY <1>0 DEF GuestRow
      <3>. QED  BY <1>0, <3>1
    <2>2. Becomes(p, "delete", S, {guest[g].link : g \in S}, NotCheckedIn)
      BY <1>0, <1>7, <2>1, RequestSteps DEF DeleteGuests
    <2>3. RequestOK([kind |-> "delete", on |-> S, row |-> {guest[g].link : g \in S}, extra |-> NotCheckedIn])
      BY DEF RequestOK, Holding
    <2>. QED  BY <1>0, <1>7, <2>2, <2>3, RequestTypes DEF DeleteGuests
  <1>8. ASSUME NEW p \in Clients, NEW r \in GuestRow, NEW found, UpdateGuest(p, r, found)
        PROVE  guest' \in [People -> GuestRow] /\ trail' \in [People -> Trail]
    BY <1>0, <1>8, UpdateWrites DEF Writes
  <1>9. ASSUME NEW p \in Clients, Closes(p), guest' \in [People -> GuestRow], trail' \in [People -> Trail],
               link' \in [Links -> [live : BOOLEAN, token : {"none", "valid", "expired"}]]
        PROVE  GuestsTypeOK'
    <2>1. Becomes(p, "done", {}, NotCheckedIn, NotCheckedIn)
      BY <1>9, RequestSteps
    <2>2. RequestOK([kind |-> "done", on |-> {}, row |-> NotCheckedIn, extra |-> NotCheckedIn])
      BY DEF RequestOK, Holding
    <2>. QED  BY <1>9, <2>1, <2>2, RequestTypes
  <1>10. ASSUME NEW p \in Clients, RSVPWrites(p) PROVE GuestsTypeOK'
    <2>1. PICK found \in BOOLEAN : /\ UpdateGuest(p, client[p].row, found) /\ Closes(p) /\ link' = link
                                   /\ client[p].row \in GuestRow
      BY <1>10, WrittenRow DEF RSVPWrites, Asking
    <2>. QED  BY <1>0, <1>8, <1>9, <2>1
  <1>11. ASSUME NEW p \in Clients, PutReadsOld(p) PROVE GuestsTypeOK'
    <2>1. PICK old \in GuestRow \cup {Unread} : Step(p, "put old", old)
      BY <1>0, <1>11 DEF PutReadsOld
    <2>2. client[p].kind = "put" /\ client[p].row \in GuestRow /\ old \in ReadBy
      BY <1>0, <1>11, UnreadTypes DEF PutReadsOld, Asking, GuestsTypeOK, Holding
    <2>3. Becomes(p, "put old", client[p].on, client[p].row, old)
      BY <1>0, <2>1, <2>2, RequestSteps DEF Holding
    <2>4. RequestOK([kind |-> "put old", on |-> client[p].on, row |-> client[p].row, extra |-> old])
      BY <2>2 DEF RequestOK
    <2>. QED  BY <1>0, <1>11, <2>3, <2>4, RequestTypes DEF PutReadsOld
  <1>12. ASSUME NEW p \in Clients, PutWrites(p) PROVE GuestsTypeOK'
    <2>1. PICK found, dated \in BOOLEAN : UpdateGuest(p, PutRow(p, found, dated), found)
      BY <1>12 DEF PutWrites, PutRow
    <2>2. client[p].kind = "put old" /\ Closes(p) /\ link' = link
      BY <1>12 DEF PutWrites, Asking
    <2>3. PutRow(p, found, dated) \in GuestRow
      BY <2>2, WrittenRow
    <2>. QED  BY <1>0, <1>8, <1>9, <2>1, <2>2, <2>3
  <1>13. ASSUME NEW p \in Clients, NEW l \in Links, TokenInvites(p, l) PROVE GuestsTypeOK'
    <2>1. client[p].kind = "invite" /\ client[p].row \in GuestRow
      BY <1>13 DEF TokenInvites, Asking, GuestsTypeOK, Holding
    <2>2. [client[p].row EXCEPT !.link = l] \in GuestRow /\ [client[p].row EXCEPT !.link = l].link = l
      BY <2>1, RowTypes DEF GuestRow
    <2>. DEFINE c == [client[p] EXCEPT !.kind = "attach", !.row = [client[p].row EXCEPT !.link = l]]
    <2>3. /\ c \in Request /\ c.kind = "attach" /\ c.on = client[p].on
          /\ c.row = [client[p].row EXCEPT !.link = l] /\ c.extra = client[p].extra
      BY <1>0, <2>2 DEF Request, Holding
    <2>4. client' = [client EXCEPT ![p] = c]
      BY <1>13 DEF TokenInvites, GuestsTypeOK
    <2>. HIDE DEF c
    <2>5. Becomes(p, "attach", client[p].on, [client[p].row EXCEPT !.link = l], client[p].extra)
      BY <2>3, <2>4 DEF Becomes, GuestsTypeOK
    <2>6. RequestOK([kind |-> "attach", on |-> client[p].on, row |-> [client[p].row EXCEPT !.link = l],
                     extra |-> client[p].extra])
      BY <2>2 DEF RequestOK
    <2>7. link' \in [Links -> [live : BOOLEAN, token : {"none", "valid", "expired"}]]
      BY <1>0, <1>13 DEF TokenInvites
    <2>. QED  BY <1>0, <1>13, <2>5, <2>6, <2>7, RequestTypes DEF TokenInvites
  <1>14. ASSUME NEW p \in Clients, TokenAttaches(p) PROVE GuestsTypeOK'
    <2>0. client[p].kind = "attach" /\ client[p].row \in GuestRow /\ client[p].row.link \in Links
      BY <1>14 DEF TokenAttaches, Asking, GuestsTypeOK, Holding
    <2>1. CASE UpdateGuest(p, client[p].row, TRUE) /\ Step(p, "token", NotCheckedIn) /\ UNCHANGED link
      <3>1. NotCheckedIn \in ReadBy
        BY <1>0 DEF NotCheckedIn, Answers, Texts
      <3>2. Becomes(p, "token", client[p].on, client[p].row, NotCheckedIn)
        BY <2>1, <3>1, RequestSteps DEF Holding
      <3>3. RequestOK([kind |-> "token", on |-> client[p].on, row |-> client[p].row, extra |-> NotCheckedIn])
        BY <2>0 DEF RequestOK
      <3>4. guest' \in [People -> GuestRow] /\ trail' \in [People -> Trail]
        BY <1>8, <2>0, <2>1
      <3>. QED  BY <1>0, <2>1, <3>2, <3>3, <3>4, RequestTypes
    <2>2. CASE /\ Closes(p)
               /\ link' = [link EXCEPT ![client[p].row.link].live = FALSE]
               /\ UNCHANGED <<guest, trail>>
      <3>1. link' \in [Links -> [live : BOOLEAN, token : {"none", "valid", "expired"}]]
        BY <1>0, <2>2
      <3>. QED  BY <1>0, <1>9, <2>2, <3>1
    <2>. QED  BY <1>14, <2>1, <2>2 DEF TokenAttaches
  <1>15. ASSUME NEW p \in Clients, TokenLooks(p) PROVE GuestsTypeOK'
    <2>0. client[p].kind = "token" /\ client[p].row \in GuestRow /\ client[p].row.link \in Links
      BY <1>15 DEF TokenLooks, Asking, GuestsTypeOK, Holding
    <2>. DEFINE found == [NotCheckedIn EXCEPT !.status = link[client[p].row.link].token]
    <2>1. found \in Answers /\ found.status \in {"none", "valid", "expired"}
      <3>1. link[client[p].row.link].token \in {"none", "valid", "expired"}
        BY <1>0, <2>0
      <3>2. NotCheckedIn \in Answers /\ {"none", "valid", "expired"} \subseteq Texts
        BY DEF NotCheckedIn, Answers, Texts
      <3>. QED  BY <3>1, <3>2 DEF Answers
    <2>2. Step(p, "save", found)
      BY <1>15 DEF TokenLooks
    <2>. HIDE DEF found
    <2>3. Becomes(p, "save", client[p].on, client[p].row, found)
      BY <1>0, <2>1, <2>2, RequestSteps DEF Holding
    <2>4. RequestOK([kind |-> "save", on |-> client[p].on, row |-> client[p].row, extra |-> found])
      BY <2>0, <2>1 DEF RequestOK
    <2>. QED  BY <1>0, <1>15, <2>3, <2>4, RequestTypes DEF TokenLooks
  <1>16. ASSUME NEW p \in Clients, TokenSaves(p) PROVE GuestsTypeOK'
    <2>1. client[p].extra.status \in {"none", "valid", "expired"} /\ client[p].row.link \in Links
      BY <1>16 DEF TokenSaves, Asking, GuestsTypeOK
    <2>2. PICK token \in {"none", "valid", "expired"} : link' = [link EXCEPT ![client[p].row.link].token = token]
      BY <1>16, <2>1 DEF TokenSaves
    <2>3. link' \in [Links -> [live : BOOLEAN, token : {"none", "valid", "expired"}]]
      BY <1>0, <2>2
    <2>. QED  BY <1>0, <1>9, <1>16, <2>3 DEF TokenSaves
  <1>17. ASSUME NEW p \in Clients, DeletesCommit(p) PROVE GuestsTypeOK'
    <2>1. \A g \in People : \A b \in BOOLEAN : [guest[g] EXCEPT !.live = b] \in GuestRow
      BY <1>0, RowTypes
    <2>2. guest' \in [People -> GuestRow]
      <3>1. guest' = [g \in People |-> [guest[g] EXCEPT !.live = ~(~guest[g].live \/ g \in client[p].on)]]
        BY <1>0, <1>17 DEF DeletesCommit
      <3>2. \A g \in People : (~(~guest[g].live \/ g \in client[p].on)) \in BOOLEAN
        OBVIOUS
      <3>3. \A g \in People : [guest[g] EXCEPT !.live = ~(~guest[g].live \/ g \in client[p].on)] \in GuestRow
        BY <2>1, <3>2
      <3>. QED  BY <3>1, <3>3
    <2>3. link' \in [Links -> [live : BOOLEAN, token : {"none", "valid", "expired"}]]
      <3>1. \A l \in Links : [live |-> FALSE, token |-> IF link[l].token = "none" THEN "none" ELSE "expired"]
                               \in [live : BOOLEAN, token : {"none", "valid", "expired"}]
        OBVIOUS
      <3>. QED  BY <1>0, <1>17, <3>1 DEF DeletesCommit
    <2>. QED  BY <1>0, <1>9, <1>17, <2>2, <2>3 DEF DeletesCommit
  <1>18. ASSUME NEW p \in Clients, Abandon(p) PROVE GuestsTypeOK'
    BY <1>0, <1>9, <1>18 DEF Abandon
  <1>19. CASE UNCHANGED guestVars
    BY <1>19 DEF guestVars, GuestsTypeOK
  <1>20. ASSUME NEW p \in Clients, ServesGuests(p) PROVE GuestsTypeOK'
    BY <1>4, <1>5, <1>6, <1>7, <1>10, <1>11, <1>12, <1>13, <1>14, <1>15, <1>16, <1>17, <1>18, <1>20
       DEF ServesGuests
  <1>. QED  BY <1>1, <1>2, <1>3, <1>19, <1>20 DEF GuestsNext

\* A request that nobody overtook holds the row as it is: what its check-in kept, and,
\* where it is to be written back or compared with, its answer.
Current(c, r) ==
    /\ c.kind \in {"put", "put old", "invite", "attach"} => c.row.prev = r.prev
    /\ c.kind \in {"invite", "attach"} => Answer(c.row) = Answer(r)
    /\ c.kind = "put old" => c.extra = Unread \/ Answer(c.extra) = Answer(r)
ReadsCurrent ==
    \A p \in Clients :
       /\ client[p].kind \in {"rsvp", "rsvp alone"} => client[p].row.prev = NotCheckedIn
       /\ client[p].kind = "put" => \A g, h \in client[p].on : g = h
       /\ p \notin late => \A g \in client[p].on : Current(client[p], guest[g])

\* The two status columns agree, in an answer and in a row with what its check-in kept.
Agrees(a) == a.rsvp \in Codes \cup {""} /\ InStep(a)
PrevInStep(r) == r.prev # NotCheckedIn => Agrees(r.prev)

\* So does what a request is going to write; what a PUT or a failed lookup of the status
\* writes is aligned later, or not at all.
WriteInStep(c) ==
    /\ c.kind \in {"rsvp", "rsvp alone", "put", "put old", "invite", "attach"} =>
          PrevInStep(c.row) /\ c.row.rsvp \in Codes \cup {""}
    /\ c.kind \in {"rsvp", "invite", "attach"} => InStep(c.row)
    /\ c.kind = "put old" => Agrees(c.extra)

\* The guests whose columns were never set apart agree, and so do the requests upon them.
AnswersInStep ==
    \A g \in People : ~trail[g].missed =>
       /\ Agrees(guest[g]) /\ PrevInStep(guest[g])
       /\ \A p \in Clients : g \in client[p].on => WriteInStep(client[p])

\* What the operators on rows do to the answer and to what the check-in kept: a new
\* answer, of the host and of the guest,
LEMMA AnswerParts ==
    ASSUME NEW r \in GuestRow, NEW code \in Codes
    PROVE  /\ setGuestRSVP(r, code).rsvp = code /\ setGuestRSVP(r, code).status = code
           /\ setGuestRSVP(r, code).method = "host" /\ setGuestRSVP(r, code).prev = r.prev
           /\ \A found \in BOOLEAN :
                 LET s == answered(r, code, found)
                 IN  s.rsvp = code /\ (found => s.status = code) /\ s.prev = NotCheckedIn
  BY DEF setGuestRSVP, answered, ClearDoorCheckin, GuestRow

\* the end of a check-in and its undo,
LEMMA RowParts ==
    ASSUME NEW r \in GuestRow
    PROVE  /\ ClearDoorCheckin(r).rsvp = r.rsvp /\ ClearDoorCheckin(r).status = r.status
           /\ ClearDoorCheckin(r).method = r.method /\ ClearDoorCheckin(r).prev = NotCheckedIn
           /\ restoreDoorCheckin(r).rsvp = r.prev.rsvp /\ restoreDoorCheckin(r).status = r.prev.status
           /\ restoreDoorCheckin(r).prev = NotCheckedIn
  BY DEF ClearDoorCheckin, restoreDoorCheckin, GuestRow

\* and the columns that hold neither.
LEMMA ColumnParts ==
    ASSUME NEW r \in GuestRow, NEW v
    PROVE  /\ [r EXCEPT !.link = v].rsvp = r.rsvp /\ [r EXCEPT !.link = v].status = r.status
           /\ [r EXCEPT !.link = v].method = r.method /\ [r EXCEPT !.link = v].prev = r.prev
           /\ [r EXCEPT !.live = v].rsvp = r.rsvp /\ [r EXCEPT !.live = v].status = r.status
           /\ [r EXCEPT !.live = v].method = r.method /\ [r EXCEPT !.live = v].prev = r.prev
  BY DEF GuestRow

\* What setting one column leaves of the others,
LEMMA SetParts ==
    ASSUME NEW r \in GuestRow, NEW a
    PROVE  /\ [r EXCEPT !.status = a].prev = r.prev /\ [r EXCEPT !.status = a].method = r.method
           /\ [r EXCEPT !.status = a].rsvp = r.rsvp /\ [r EXCEPT !.status = a].status = a
           /\ [r EXCEPT !.rsvp = a].prev = r.prev /\ [r EXCEPT !.rsvp = a].method = r.method
           /\ [r EXCEPT !.rsvp = a].rsvp = a /\ [r EXCEPT !.rsvp = a].status = r.status
           /\ [r EXCEPT !.method = a].prev = r.prev
           /\ [r EXCEPT !.method = a].rsvp = r.rsvp /\ [r EXCEPT !.method = a].status = r.status
  BY DEF GuestRow

\* what an edit does to them,
LEMMA EditParts ==
    ASSUME NEW r \in GuestRow, NEW e \in Edits
    PROVE  LET s == applyGuestWrite(r, e)
           IN  s.prev = r.prev /\ s.rsvp \in {r.rsvp, e.rsvp} /\ (e.rsvp = Kept => s.rsvp = r.rsvp)
  BY DEF applyGuestWrite, GuestRow

\* and the metadata.
LEMMA SyncParts ==
    ASSUME NEW r \in GuestRow, NEW old, NEW dated \in BOOLEAN
    PROVE  LET s == syncRSVPMetadata(r, old, dated)
           IN  s.prev = r.prev /\ s.rsvp = r.rsvp /\ s.status = r.status
  BY SetParts DEF syncRSVPMetadata

\* What a PUT writes agrees if its lookup succeeds, whatever others wrote between its two
\* readings.
LEMMA PutInStep ==
    ASSUME GuestsTypeOK, NEW p \in Clients, client[p].kind = "put old", WriteInStep(client[p]),
           NEW found \in BOOLEAN, NEW dated \in BOOLEAN
    PROVE  LET r == PutRow(p, found, dated)
           IN  PrevInStep(r) /\ r.rsvp \in Codes \cup {""} /\ (found => InStep(r))
  <1>. DEFINE row == client[p].row
              old == client[p].extra
              aligned == alignGuestStatusWithRSVP(row, old, found)
              synced == syncRSVPMetadata(aligned, old, dated)
              r == PutRow(p, found, dated)
  <1>0. row \in GuestRow
    BY DEF GuestsTypeOK, Holding
  <1>1. PrevInStep(row) /\ row.rsvp \in Codes \cup {""} /\ Agrees(old)
    BY DEF WriteInStep
  <1>2. r = synced \/ r = ClearDoorCheckin(synced)
    BY DEF PutRow
  <1>. HIDE DEF row, old, r
  <1>3. /\ aligned \in GuestRow /\ aligned.prev = row.prev
        /\ ~found => aligned.rsvp = row.rsvp /\ aligned.status = row.status
        /\ found => \/ row.rsvp \in Codes /\ aligned.rsvp = row.rsvp /\ aligned.status = row.rsvp
                    \/ row.status \in Codes /\ aligned.rsvp = row.status /\ aligned.status = row.status
                    \/ /\ aligned.rsvp = row.rsvp /\ aligned.status = row.status
                       /\ row.rsvp # old.rsvp => row.rsvp \notin Codes
                       /\ row.status # old.status => row.status \notin Codes
    <2>1. aligned \in GuestRow
      BY <1>0, RowTypes
    <2>. QED  BY <1>0, <2>1, SetParts DEF alignGuestStatusWithRSVP
  <1>4. aligned.rsvp \in Codes \cup {""} /\ (found => InStep(aligned))
    BY <1>1, <1>3 DEF InStep, Agrees
  <1>. HIDE DEF aligned
  <1>5. synced \in GuestRow /\ synced.prev = aligned.prev /\ synced.rsvp = aligned.rsvp /\ synced.status = aligned.status
    BY <1>3, RowTypes, SyncParts
  <1>6. PrevInStep(synced) /\ synced.rsvp \in Codes \cup {""} /\ (found => InStep(synced))
    BY <1>1, <1>3, <1>4, <1>5 DEF InStep, PrevInStep
  <1>. HIDE DEF synced
  <1>7. LET s == ClearDoorCheckin(synced)
        IN  PrevInStep(s) /\ s.rsvp \in Codes \cup {""} /\ (found => InStep(s))
    BY <1>5, <1>6, RowParts DEF InStep, PrevInStep
  <1>. QED  BY <1>2, <1>6, <1>7 DEF r

\* A row set apart counts as such for good.
LEMMA MissedStays ==
    ASSUME GuestsTypeOK, GuestsNext, NEW g \in People, trail[g].missed PROVE trail'[g].missed
  <1>0. trail \in [People -> Trail] /\ trail[g] \in Trail /\ Listed = People
    BY DEF GuestsTypeOK, Listed
  <1>1. ASSUME NEW S \in SUBSET Listed, NEW code \in Said, BulkUpdateGuestStatus(S, code) PROVE trail'[g].missed
    BY <1>0, <1>1 DEF BulkUpdateGuestStatus, Replaced, Trail
  <1>2. ASSUME NEW S \in SUBSET Listed, CheckInGuests(S) PROVE trail'[g].missed
    BY <1>0, <1>2 DEF CheckInGuests, Untouched
  <1>3. ASSUME NEW p \in Clients, NEW r, NEW found, UpdateGuest(p, r, found) PROVE trail'[g].missed
    <2>1. Writes(p, r, found)
      BY <1>3, UpdateWrites
    <2>. QED  BY <2>1 DEF Writes
  <1>4. ASSUME NEW p \in Clients, ServesGuests(p) PROVE trail'[g].missed
    BY <1>3, <1>4
       DEF ServesGuests, ConfirmRSVP, PutGuest, EnsureRSVPToken, DeleteGuests, PutReadsOld, TokenInvites,
           TokenAttaches, TokenLooks, TokenSaves, Abandon, RSVPWrites, PutWrites, DeletesCommit
  <1>. QED  BY <1>1, <1>2, <1>4 DEF GuestsNext, UndoGuestCheckins

\* The rows agree after a step, but for those set apart.
RowsInStep == \A g \in People : ~trail'[g].missed => Agrees(guest'[g]) /\ PrevInStep(guest'[g])

\* A step of one request keeps all of them in step.
LEMMA WritesInStep ==
    ASSUME AnswersInStep, NEW p \in Clients, NEW kind, NEW S, NEW row, NEW extra, Becomes(p, kind, S, row, extra),
           \A g \in People : trail[g].missed => trail'[g].missed, RowsInStep,
           \A g \in S : g \in People /\ ~trail'[g].missed =>
               WriteInStep([kind |-> kind, on |-> S, row |-> row, extra |-> extra])
    PROVE  AnswersInStep'
  <1>1. \A g \in People : ~trail'[g].missed /\ g \in client'[p].on => WriteInStep(client'[p])
    BY DEF WriteInStep, Becomes
  <1>2. \A q \in Clients \ {p} : \A g \in People :
           ~trail'[g].missed /\ g \in client'[q].on => WriteInStep(client'[q])
    BY DEF WriteInStep, Becomes, AnswersInStep
  <1>. QED  BY <1>1, <1>2 DEF AnswersInStep, RowsInStep, WriteInStep

\* No step of the door, the dashboard or a request puts an answer out of step whose lookup
\* succeeds.
LEMMA InStepStep == GuestsTypeOK /\ ReadsCurrent /\ AnswersInStep /\ [GuestsNext]_guestVars => AnswersInStep'
  <1>. SUFFICES ASSUME GuestsTypeOK, ReadsCurrent, AnswersInStep, [GuestsNext]_guestVars PROVE AnswersInStep'
    OBVIOUS
  <1>0. /\ guest \in [People -> GuestRow] /\ Listed = People
        /\ \A p \in Clients : client[p].on \subseteq People
        /\ \A g \in People : guest[g] \in GuestRow
        /\ \A g \in People : ~trail[g].missed => Agrees(guest[g]) /\ PrevInStep(guest[g])
        /\ GuestRow \subseteq ReadBy /\ SUBSET (Links \cup {NoLink}) \subseteq ReadBy /\ Answers \subseteq ReadBy
        /\ Said \subseteq Codes /\ \A e \in Edits : e.rsvp \in Codes \cup {"", Kept}
    BY GuestsAssumption DEF GuestsTypeOK, Request, ReadBy, Listed, AnswersInStep
  <1>18. CASE UNCHANGED guestVars
    BY <1>18 DEF guestVars, AnswersInStep, WriteInStep
  <1>. SUFFICES ASSUME GuestsNext PROVE AnswersInStep'
    BY <1>18
  <1>m. \A g \in People : trail[g].missed => trail'[g].missed
    BY MissedStays
  <1>r. guest' = guest => RowsInStep
    BY <1>0, <1>m DEF RowsInStep
  <1>1. ASSUME NEW S \in SUBSET Listed, NEW code \in Said, BulkUpdateGuestStatus(S, code) PROVE AnswersInStep'
    <2>1. ASSUME NEW g \in People, ~trail'[g].missed PROVE Agrees(guest'[g]) /\ PrevInStep(guest'[g])
      <3>0. Agrees(guest[g]) /\ PrevInStep(guest[g])
        BY <1>0, <1>m, <2>1
      <3>. DEFINE r == setGuestRSVP(guest[g], code)
      <3>1. r \in GuestRow /\ r.rsvp = code /\ r.status = code
        BY <1>0, RowTypes, AnswerParts
      <3>2. guest'[g] = guest[g] \/ guest'[g] = ClearDoorCheckin(r)
        BY <1>0, <1>1 DEF BulkUpdateGuestStatus
      <3>. HIDE DEF r
      <3>3. LET s == ClearDoorCheckin(r) IN s.rsvp = code /\ s.status = code /\ s.prev = NotCheckedIn
        BY <3>1, RowParts
      <3>. QED  BY <1>0, <3>0, <3>2, <3>3 DEF Agrees, InStep, PrevInStep
    <2>2. client' = client
      BY <1>1 DEF BulkUpdateGuestStatus
    <2>. QED  BY <1>m, <2>1, <2>2 DEF AnswersInStep, WriteInStep
  <1>2. ASSUME NEW S \in SUBSET Listed, CheckInGuests(S) PROVE AnswersInStep'
    <2>1. ASSUME NEW g \in People, ~trail'[g].missed PROVE Agrees(guest'[g]) /\ PrevInStep(guest'[g])
      <3>0. Agrees(guest[g]) /\ PrevInStep(guest[g])
        BY <1>0, <1>m, <2>1
      <3>1. "confirmed" \in Codes
        BY DEF Codes
      <3>2. CASE guest'[g] = guest[g]
        BY <3>0, <3>2
      <3>3. CASE guest'[g] = setGuestRSVP(guest[g], "confirmed")
        <4>1. guest'[g].rsvp = "confirmed" /\ guest'[g].status = "confirmed" /\ guest'[g].prev = guest[g].prev
          <5>1. guest[g] \in GuestRow
            BY <1>0
          <5>. QED  BY <3>1, <3>3, <5>1, AnswerParts
        <4>. QED  BY <3>0, <3>1, <4>1 DEF Agrees, InStep, PrevInStep
      <3>4. CASE guest'[g] = setGuestRSVP([guest[g] EXCEPT !.prev = Answer(guest[g])], "confirmed")
        <4>. DEFINE r == [guest[g] EXCEPT !.prev = Answer(guest[g])]
        <4>1. r \in GuestRow /\ r.prev = Answer(guest[g])
          <5>1. Answer(guest[g]) \in Answers
            BY <1>0, RowTypes
          <5>. QED  BY <1>0, <5>1 DEF GuestRow
        <4>. HIDE DEF r
        <4>2. guest'[g] = setGuestRSVP(r, "confirmed")
          BY <3>4 DEF r
        <4>3. guest'[g].rsvp = "confirmed" /\ guest'[g].status = "confirmed" /\ guest'[g].prev = Answer(guest[g])
          BY <3>1, <4>1, <4>2, AnswerParts
        <4>4. Agrees(Answer(guest[g]))
          BY <3>0 DEF Agrees, InStep, Answer
        <4>. QED  BY <3>1, <4>3, <4>4 DEF Agrees, InStep, PrevInStep
      <3>5. guest'[g] = guest[g] \/ guest'[g] = checkedIn(guest[g])
        BY <1>0, <1>2 DEF CheckInGuests
      <3>. QED  BY <3>2, <3>3, <3>4, <3>5 DEF checkedIn
    <2>2. client' = client
      BY <1>2 DEF CheckInGuests
    <2>. QED  BY <1>m, <2>1, <2>2 DEF AnswersInStep, WriteInStep
  <1>3. ASSUME NEW S \in SUBSET Listed, UndoGuestCheckins(S) PROVE AnswersInStep'
    <2>1. ASSUME NEW g \in People, ~trail'[g].missed PROVE Agrees(guest'[g]) /\ PrevInStep(guest'[g])
      <3>0. Agrees(guest[g]) /\ PrevInStep(guest[g])
        BY <1>0, <1>m, <2>1
      <3>1. \/ guest'[g] = guest[g]
            \/ DoorCheckedIn(guest[g]) /\ guest'[g] = restoreDoorCheckin(guest[g])
        BY <1>0, <1>3 DEF UndoGuestCheckins
      <3>2. LET s == restoreDoorCheckin(guest[g])
            IN  s.rsvp = guest[g].prev.rsvp /\ s.status = guest[g].prev.status /\ s.prev = NotCheckedIn
        BY <1>0, RowParts
      <3>3. DoorCheckedIn(guest[g]) => Agrees(guest[g].prev)
        BY <3>0 DEF DoorCheckedIn, PrevInStep
      <3>. QED  BY <3>0, <3>1, <3>2, <3>3 DEF Agrees, InStep, PrevInStep
    <2>2. client' = client
      BY <1>3 DEF UndoGuestCheckins
    <2>. QED  BY <1>m, <2>1, <2>2 DEF AnswersInStep, WriteInStep
  <1>4. ASSUME NEW p \in Clients, NEW g \in Listed, NEW code \in Said, NEW found \in BOOLEAN, ConfirmRSVP(p, g, code, found)
        PROVE  AnswersInStep'
    <2>. DEFINE kind == IF found THEN "rsvp" ELSE "rsvp alone"
                row == answered(guest[g], code, found)
    <2>1. row \in GuestRow /\ {g} \in SUBSET People /\ kind \in {"rsvp", "rsvp alone"}
      BY <1>0, RowTypes
    <2>2. row.rsvp = code /\ (found => row.status = code) /\ row.prev = NotCheckedIn /\ code \in Codes
      BY <1>0, AnswerParts
    <2>3. Opens(p, kind, {g}, row) /\ guest' = guest /\ (kind = "rsvp" => found)
      BY <1>4 DEF ConfirmRSVP
    <2>. HIDE DEF kind, row
    <2>4. Becomes(p, kind, {g}, row, NotCheckedIn)
      BY <1>0, <2>1, <2>3, RequestSteps DEF Holding
    <2>5. WriteInStep([kind |-> kind, on |-> {g}, row |-> row, extra |-> NotCheckedIn])
      BY <2>1, <2>2, <2>3 DEF WriteInStep, InStep, PrevInStep
    <2>. QED  BY <1>m, <1>r, <2>3, <2>4, <2>5, WritesInStep
  <1>5. ASSUME NEW p \in Clients, NEW g \in Listed, NEW e \in Edits, PutGuest(p, g, e) PROVE AnswersInStep'
    <2>1. applyGuestWrite(guest[g], e) \in GuestRow /\ {g} \in SUBSET People
      BY <1>0, RowTypes
    <2>2. Becomes(p, "put", {g}, applyGuestWrite(guest[g], e), NotCheckedIn)
      BY <1>0, <1>5, <2>1, RequestSteps DEF PutGuest, Holding
    <2>3. LET s == applyGuestWrite(guest[g], e)
          IN  s.prev = guest[g].prev /\ s.rsvp \in {guest[g].rsvp, e.rsvp} /\ (e.rsvp = Kept => s.rsvp = guest[g].rsvp)
      BY <1>0, EditParts
    <2>4. ~trail[g].missed =>
             WriteInStep([kind |-> "put", on |-> {g}, row |-> applyGuestWrite(guest[g], e), extra |-> NotCheckedIn])
      BY <1>0, <2>3 DEF WriteInStep, Agrees, PrevInStep
    <2>5. guest' = guest
      BY <1>5 DEF PutGuest
    <2>6. \A h \in {g} : h \in People /\ ~trail'[h].missed =>
             WriteInStep([kind |-> "put", on |-> {g}, row |-> applyGuestWrite(guest[g], e), extra |-> NotCheckedIn])
      BY <1>m, <2>4
    <2>. QED  BY <1>m, <1>r, <2>2, <2>5, <2>6, WritesInStep
  <1>6. ASSUME NEW p \in Clients, NEW g \in Listed, EnsureRSVPToken(p, g) PROVE AnswersInStep'
    <2>1. PICK kind \in {"invite", "token"} : Opens(p, kind, {g}, guest[g])
      BY <1>6 DEF EnsureRSVPToken
    <2>2. kind \in Holding /\ {g} \in SUBSET People
      BY <1>0 DEF Holding
    <2>3. Becomes(p, kind, {g}, guest[g], NotCheckedIn)
      BY <1>0, <2>1, <2>2, RequestSteps
    <2>4. ~trail[g].missed => WriteInStep([kind |-> kind, on |-> {g}, row |-> guest[g], extra |-> NotCheckedIn])
      BY <1>0 DEF WriteInStep, Agrees
    <2>5. guest' = guest
      BY <1>6 DEF EnsureRSVPToken
    <2>6. \A h \in {g} : h \in People /\ ~trail'[h].missed =>
             WriteInStep([kind |-> kind, on |-> {g}, row |-> guest[g], extra |-> NotCheckedIn])
      BY <1>m, <2>4
    <2>. QED  BY <1>m, <1>r, <2>3, <2>5, <2>6, WritesInStep
  <1>7. ASSUME NEW p \in Clients, NEW S \in SUBSET Listed, DeleteGuests(p, S) PROVE AnswersInStep'
    <2>1. {guest[g].link : g \in S} \in ReadBy
      <3>1. \A g \in S : guest[g].link \in Links \cup {NoLink}
        BY <1>0 DEF GuestRow
      <3>. QED  BY <1>0, <3>1
    <2>2. Becomes(p, "delete", S, {guest[g].link : g \in S}, NotCheckedIn)
      BY <1>0, <1>7, <2>1, RequestSteps DEF DeleteGuests
    <2>3. WriteInStep([kind |-> "delete", on |-> S, row |-> {guest[g].link : g \in S}, extra |-> NotCheckedIn])
      BY DEF WriteInStep
    <2>4. guest' = guest
      BY <1>7 DEF DeleteGuests
    <2>. QED  BY <1>m, <1>r, <2>2, <2>3, <2>4, WritesInStep
  <1>8. ASSUME NEW p \in Clients, NEW r \in GuestRow, NEW found, UpdateGuest(p, r, found),
               \A g \in client[p].on : ~trail[g].missed =>
                   PrevInStep(r) /\ r.rsvp \in Codes \cup {""} /\ (found => InStep(r))
        PROVE  RowsInStep
    <2>1. PICK g \in client[p].on : /\ g \in People /\ guest' = [guest EXCEPT ![g] = r]
                                    /\ trail'[g].missed <=> trail[g].missed \/ (~found /\ ~InStep(r))
      BY <1>8, UpdateWrites DEF Writes
    <2>2. guest'[g] = r /\ \A h \in People \ {g} : guest'[h] = guest[h]
      BY <1>0, <2>1
    <2>. QED  BY <1>0, <1>m, <1>8, <2>1, <2>2 DEF RowsInStep, Agrees
  <1>9. ASSUME NEW p \in Clients, Closes(p), RowsInStep PROVE AnswersInStep'
    <2>1. Becomes(p, "done", {}, NotCheckedIn, NotCheckedIn)
      BY <1>9, RequestSteps
    <2>2. WriteInStep([kind |-> "done", on |-> {}, row |-> NotCheckedIn, extra |-> NotCheckedIn])
      BY DEF WriteInStep
    <2>. QED  BY <1>m, <1>9, <2>1, <2>2, WritesInStep
  <1>10. ASSUME NEW p \in Clients, RSVPWrites(p) PROVE AnswersInStep'
    <2>1. PICK found \in BOOLEAN : /\ client[p].kind = IF found THEN "rsvp" ELSE "rsvp alone"
                                   /\ UpdateGuest(p, client[p].row, found) /\ Closes(p)
      BY <1>10 DEF RSVPWrites, Asking
    <2>2. client[p].row \in GuestRow
      BY <2>1, WrittenRow
    <2>3. \A g \in client[p].on : ~trail[g].missed =>
             PrevInStep(client[p].row) /\ client[p].row.rsvp \in Codes \cup {""} /\ (found => InStep(client[p].row))
      BY <1>0, <2>1 DEF AnswersInStep, WriteInStep
    <2>. QED  BY <1>8, <1>9, <2>1, <2>2, <2>3
  <1>11. ASSUME NEW p \in Clients, PutReadsOld(p) PROVE AnswersInStep'
    <2>1. PICK old : /\ Step(p, "put old", old)
                     /\ old = Unread \/ \E g \in client[p].on : old = guest[g]
      BY <1>11 DEF PutReadsOld
    <2>2. /\ client[p].kind = "put" /\ guest' = guest /\ old \in ReadBy /\ client[p].on \subseteq People
          /\ \A g, h \in client[p].on : g = h
      <3>1. client[p].kind = "put" /\ guest' = guest
        BY <1>11 DEF PutReadsOld, Asking
      <3>2. old \in ReadBy
        BY <1>0, <2>1, UnreadTypes
      <3>. QED  BY <1>0, <3>1, <3>2 DEF ReadsCurrent
    <2>3. Becomes(p, "put old", client[p].on, client[p].row, old)
      BY <1>0, <2>1, <2>2, RequestSteps DEF Holding
    <2>4. ASSUME NEW g \in client[p].on, ~trail[g].missed
          PROVE  WriteInStep([kind |-> "put old", on |-> client[p].on, row |-> client[p].row, extra |-> old])
      <3>1. Agrees(Unread)
        BY DEF Agrees, InStep, Unread
      <3>2. Agrees(old) /\ WriteInStep(client[p])
        BY <1>0, <2>1, <2>2, <2>4, <3>1 DEF AnswersInStep
      <3>. QED  BY <2>2, <3>2 DEF WriteInStep
    <2>. QED  BY <1>m, <1>r, <2>2, <2>3, <2>4, WritesInStep
  <1>12. ASSUME NEW p \in Clients, PutWrites(p) PROVE AnswersInStep'
    <2>1. PICK found, dated \in BOOLEAN : UpdateGuest(p, PutRow(p, found, dated), found)
      BY <1>12 DEF PutWrites, PutRow
    <2>2. client[p].kind = "put old" /\ Closes(p)
      BY <1>12 DEF PutWrites, Asking
    <2>. DEFINE r == PutRow(p, found, dated)
    <2>3. r \in GuestRow
      BY <2>2, WrittenRow
    <2>4. \A g \in client[p].on : ~trail[g].missed =>
             PrevInStep(r) /\ r.rsvp \in Codes \cup {""} /\ (found => InStep(r))
      <3>1. \A g \in client[p].on : ~trail[g].missed => WriteInStep(client[p])
        BY <1>0 DEF AnswersInStep
      <3>. QED  BY <2>2, <3>1, PutInStep
    <2>. HIDE DEF r
    <2>5. UpdateGuest(p, r, found)
      BY <2>1 DEF r
    <2>. QED  BY <1>8, <1>9, <2>2, <2>3, <2>4, <2>5
  <1>13. ASSUME NEW p \in Clients, NEW l \in Links, TokenInvites(p, l) PROVE AnswersInStep'
    <2>1. client[p].kind = "invite" /\ client[p].row \in GuestRow /\ client[p] \in Request
      BY <1>13 DEF TokenInvites, Asking, GuestsTypeOK, Holding
    <2>. DEFINE row == [client[p].row EXCEPT !.link = l]
                c == [client[p] EXCEPT !.kind = "attach", !.row = row]
    <2>2. row \in GuestRow /\ row.rsvp = client[p].row.rsvp /\ row.status = client[p].row.status
          /\ row.prev = client[p].row.prev
      BY <2>1, RowTypes, ColumnParts
    <2>3. client' = [client EXCEPT ![p] = c]
      BY <1>13 DEF TokenInvites, GuestsTypeOK
    <2>. HIDE DEF row
    <2>4. c \in Request /\ c.kind = "attach" /\ c.on = client[p].on /\ c.row = row /\ c.extra = client[p].extra
      BY <1>0, <2>1, <2>2 DEF Request, Holding
    <2>. HIDE DEF c
    <2>5. Becomes(p, "attach", client[p].on, row, client[p].extra)
      BY <2>3, <2>4 DEF Becomes, GuestsTypeOK
    <2>6. \A g \in client[p].on : ~trail[g].missed => WriteInStep(client[p])
      BY <1>0 DEF AnswersInStep
    <2>7. \A g \in client[p].on : ~trail[g].missed =>
             WriteInStep([kind |-> "attach", on |-> client[p].on, row |-> row, extra |-> client[p].extra])
      BY <2>1, <2>2, <2>6 DEF WriteInStep, InStep, PrevInStep
    <2>8. guest' = guest
      BY <1>13 DEF TokenInvites
    <2>. QED  BY <1>m, <1>r, <2>5, <2>7, <2>8, WritesInStep
  <1>14. ASSUME NEW p \in Clients, TokenAttaches(p) PROVE AnswersInStep'
    <2>0. /\ client[p].kind = "attach" /\ client[p].row \in GuestRow
          /\ \A g \in client[p].on : ~trail[g].missed =>
                PrevInStep(client[p].row) /\ client[p].row.rsvp \in Codes \cup {""} /\ InStep(client[p].row)
      BY <1>0, <1>14 DEF TokenAttaches, Asking, GuestsTypeOK, Holding, AnswersInStep, WriteInStep
    <2>1. CASE UpdateGuest(p, client[p].row, TRUE) /\ Step(p, "token", NotCheckedIn)
      <3>1. NotCheckedIn \in ReadBy
        BY <1>0 DEF NotCheckedIn, Answers, Texts
      <3>2. Becomes(p, "token", client[p].on, client[p].row, NotCheckedIn)
        BY <2>1, <3>1, RequestSteps DEF Holding
      <3>3. WriteInStep([kind |-> "token", on |-> client[p].on, row |-> client[p].row, extra |-> NotCheckedIn])
        BY DEF WriteInStep
      <3>4. RowsInStep
        BY <1>8, <2>0, <2>1
      <3>. QED  BY <1>m, <3>2, <3>3, <3>4, WritesInStep
    <2>2. CASE Closes(p) /\ guest' = guest
      BY <1>r, <1>9, <2>2
    <2>. QED  BY <1>14, <2>1, <2>2 DEF TokenAttaches
  <1>15. ASSUME NEW p \in Clients, TokenLooks(p) PROVE AnswersInStep'
    <2>0. /\ client[p].kind = "token" /\ client[p].row \in GuestRow /\ client[p].row.link \in Links
          /\ link \in [Links -> [live : BOOLEAN, token : {"none", "valid", "expired"}]]
      BY <1>15 DEF TokenLooks, Asking, GuestsTypeOK, Holding
    <2>. DEFINE found == [NotCheckedIn EXCEPT !.status = link[client[p].row.link].token]
    <2>1. found \in Answers
      <3>1. link[client[p].row.link].token \in {"none", "valid", "expired"}
        BY <2>0
      <3>2. NotCheckedIn \in Answers /\ {"none", "valid", "expired"} \subseteq Texts
        BY DEF NotCheckedIn, Answers, Texts
      <3>. QED  BY <3>1, <3>2 DEF Answers
    <2>2. Step(p, "save", found) /\ guest' = guest
      BY <1>15 DEF TokenLooks
    <2>. HIDE DEF found
    <2>3. Becomes(p, "save", client[p].on, client[p].row, found)
      BY <1>0, <2>1, <2>2, RequestSteps DEF Holding
    <2>4. WriteInStep([kind |-> "save", on |-> client[p].on, row |-> client[p].row, extra |-> found])
      BY DEF WriteInStep
    <2>. QED  BY <1>m, <1>r, <2>2, <2>3, <2>4, WritesInStep
  <1>16. ASSUME NEW p \in Clients, DeletesCommit(p) PROVE AnswersInStep'
    <2>1. ASSUME NEW g \in People, ~trail'[g].missed PROVE Agrees(guest'[g]) /\ PrevInStep(guest'[g])
      <3>0. Agrees(guest[g]) /\ PrevInStep(guest[g])
        BY <1>0, <1>m, <2>1
      <3>. DEFINE b == ~(~guest[g].live \/ g \in client[p].on)
      <3>1. guest'[g] = [guest[g] EXCEPT !.live = b] /\ b \in BOOLEAN
        BY <1>0, <1>16 DEF DeletesCommit
      <3>. HIDE DEF b
      <3>2. guest'[g].rsvp = guest[g].rsvp /\ guest'[g].status = guest[g].status /\ guest'[g].prev = guest[g].prev
        <4>1. guest[g] \in GuestRow
          BY <1>0
        <4>. QED  BY <3>1, <4>1, ColumnParts
      <3>. QED  BY <3>0, <3>2 DEF Agrees, InStep, PrevInStep
    <2>. QED  BY <1>9, <1>16, <2>1 DEF DeletesCommit, RowsInStep
  <1>17. ASSUME NEW p \in Clients, Abandon(p) \/ TokenSaves(p) PROVE AnswersInStep'
    <2>1. Closes(p) /\ guest' = guest
      BY <1>17 DEF Abandon, TokenSaves
    <2>. QED  BY <1>r, <1>9, <2>1
  <1>19. ASSUME NEW p \in Clients, ServesGuests(p) PROVE AnswersInStep'
    BY <1>4, <1>5, <1>6, <1>7, <1>10, <1>11, <1>12, <1>13, <1>14, <1>15, <1>16, <1>17, <1>19
       DEF ServesGuests
  <1>. QED  BY <1>1, <1>2, <1>3, <1>19 DEF GuestsNext

\* Who counts as overtaken after a step.
Overtaken == {p \in Clients : \/ p \in late /\ client'[p].on # {}
                              \/ \E g \in client[p].on \cap client'[p].on : guest'[g] # guest[g]}

\* A step of one request leaves the others current or marks them late.
LEMMA CurrentSteps ==
    ASSUME ReadsCurrent, late' = Overtaken, NEW p \in Clients,
           NEW kind, NEW S, NEW row, NEW extra, Becomes(p, kind, S, row, extra),
           row.prev = NotCheckedIn \/ kind \notin {"rsvp", "rsvp alone"},
           kind = "put" => \A g, h \in S : g = h,
           p \notin late' => \A g \in S :
               Current([kind |-> kind, on |-> S, row |-> row, extra |-> extra], guest'[g])
    PROVE  ReadsCurrent'
  <1>. DEFINE Reads(q) == /\ client'[q].kind \in {"rsvp", "rsvp alone"} => client'[q].row.prev = NotCheckedIn
                          /\ client'[q].kind = "put" => \A g, h \in client'[q].on : g = h
                          /\ q \notin late' => \A g \in client'[q].on : Current(client'[q], guest'[g])
  <1>1. Reads(p)
    BY DEF Becomes, Current
  <1>2. ASSUME NEW q \in Clients \ {p} PROVE Reads(q)
    <2>1. client'[q] = client[q]
      BY DEF Becomes
    <2>2. ASSUME q \notin late', NEW g \in client[q].on PROVE Current(client[q], guest'[g])
      <3>1. q \notin late /\ guest'[g] = guest[g]
        BY <2>1, <2>2 DEF Overtaken
      <3>. QED  BY <3>1 DEF ReadsCurrent
    <2>. QED  BY <2>1, <2>2 DEF ReadsCurrent
  <1>. QED  BY <1>1, <1>2 DEF ReadsCurrent

\* So does a transition under row locks, which no request takes part in.
LEMMA CurrentUnderLocks ==
    ASSUME ReadsCurrent, late' = Overtaken, client' = client
    PROVE  ReadsCurrent'
  <1>1. ASSUME NEW q \in Clients, q \notin late', NEW g \in client[q].on PROVE Current(client[q], guest'[g])
    <2>1. q \notin late /\ guest'[g] = guest[g]
      BY <1>1 DEF Overtaken
    <2>. QED  BY <2>1 DEF ReadsCurrent
  <1>. QED  BY <1>1 DEF ReadsCurrent

\* Every step keeps the readings current, or marks their requests late.
LEMMA ReadsStep == GuestsTypeOK /\ ReadsCurrent /\ [GuestsNext]_guestVars => ReadsCurrent'
  <1>. SUFFICES ASSUME GuestsTypeOK, ReadsCurrent, [GuestsNext]_guestVars PROVE ReadsCurrent'
    OBVIOUS
  <1>1. CASE UNCHANGED guestVars
    BY <1>1 DEF guestVars, ReadsCurrent, Current
  <1>. SUFFICES ASSUME GuestsNext PROVE ReadsCurrent'
    BY <1>1
  <1>0. /\ guest \in [People -> GuestRow] /\ Listed = People /\ late' = Overtaken
        /\ \A p \in Clients : client[p].on \subseteq People /\ client[p] \in Request
        /\ GuestRow \subseteq ReadBy /\ SUBSET (Links \cup {NoLink}) \subseteq ReadBy /\ Answers \subseteq ReadBy
        /\ Said \subseteq Codes
    BY GuestsAssumption DEF GuestsTypeOK, Request, ReadBy, Listed, GuestsNext, Overtaken
  <1>2. ASSUME client' = client PROVE ReadsCurrent'
    BY <1>0, <1>2, CurrentUnderLocks
  <1>3. ASSUME NEW p \in Clients, Closes(p) PROVE ReadsCurrent'
    <2>1. Becomes(p, "done", {}, NotCheckedIn, NotCheckedIn)
      BY <1>3, RequestSteps
    <2>. QED  BY <1>0, <2>1, CurrentSteps
  <1>4. ASSUME NEW p \in Clients, NEW g \in Listed, NEW code \in Said, NEW found \in BOOLEAN, ConfirmRSVP(p, g, code, found)
        PROVE  ReadsCurrent'
    <2>. DEFINE kind == IF found THEN "rsvp" ELSE "rsvp alone"
                row == answered(guest[g], code, found)
    <2>1. guest[g] \in GuestRow /\ code \in Codes /\ {g} \in SUBSET People /\ kind \in {"rsvp", "rsvp alone"}
      BY <1>0
    <2>2. row \in GuestRow /\ row.prev = NotCheckedIn
      BY <2>1, RowTypes, AnswerParts
    <2>3. Opens(p, kind, {g}, row)
      BY <1>4 DEF ConfirmRSVP
    <2>. HIDE DEF kind, row
    <2>4. Becomes(p, kind, {g}, row, NotCheckedIn)
      BY <1>0, <2>1, <2>2, <2>3, RequestSteps DEF Holding
    <2>5. \A h \in {g} : Current([kind |-> kind, on |-> {g}, row |-> row, extra |-> NotCheckedIn], guest'[h])
      BY <2>1 DEF Current
    <2>6. row.prev = NotCheckedIn \/ kind \notin {"rsvp", "rsvp alone"}
      BY <2>2
    <2>7. kind = "put" => \A h1, h2 \in {g} : h1 = h2
      OBVIOUS
    <2>. QED  BY <1>0, <2>4, <2>5, <2>6, <2>7, CurrentSteps
  <1>5. ASSUME NEW p \in Clients, NEW g \in Listed, NEW e \in Edits, PutGuest(p, g, e) PROVE ReadsCurrent'
    <2>. DEFINE row == applyGuestWrite(guest[g], e)
    <2>1. guest[g] \in GuestRow /\ {g} \in SUBSET People /\ guest' = guest
      BY <1>0, <1>5 DEF PutGuest
    <2>2. row \in GuestRow /\ row.prev = guest[g].prev
      BY <2>1, RowTypes, EditParts
    <2>3. Becomes(p, "put", {g}, row, NotCheckedIn)
      BY <1>0, <1>5, <2>1, <2>2, RequestSteps DEF PutGuest, Holding
    <2>. HIDE DEF row
    <2>4. Current([kind |-> "put", on |-> {g}, row |-> row, extra |-> NotCheckedIn], guest'[g])
      BY <2>1, <2>2 DEF Current
    <2>. QED  BY <1>0, <2>3, <2>4, CurrentSteps
  <1>6. ASSUME NEW p \in Clients, NEW g \in Listed, EnsureRSVPToken(p, g) PROVE ReadsCurrent'
    <2>1. PICK kind \in {"invite", "token"} : Opens(p, kind, {g}, guest[g])
      BY <1>6 DEF EnsureRSVPToken
    <2>2. kind \in Holding /\ {g} \in SUBSET People /\ guest' = guest
      BY <1>0, <1>6 DEF Holding, EnsureRSVPToken
    <2>3. Becomes(p, kind, {g}, guest[g], NotCheckedIn)
      BY <1>0, <2>1, <2>2, RequestSteps
    <2>4. Current([kind |-> kind, on |-> {g}, row |-> guest[g], extra |-> NotCheckedIn], guest'[g])
      BY <2>1, <2>2 DEF Current
    <2>. QED  BY <1>0, <2>3, <2>4, CurrentSteps
  <1>7. ASSUME NEW p \in Clients, NEW S \in SUBSET Listed, DeleteGuests(p, S) PROVE ReadsCurrent'
    <2>. DEFINE row == {guest[g].link : g \in S}
    <2>1. row \in ReadBy
      <3>1. \A g \in S : guest[g].link \in Links \cup {NoLink}
        BY <1>0 DEF GuestRow
      <3>. QED  BY <1>0, <3>1
    <2>2. Becomes(p, "delete", S, row, NotCheckedIn)
      BY <1>0, <1>7, <2>1, RequestSteps DEF DeleteGuests
    <2>. HIDE DEF row
    <2>3. \A g \in S : Current([kind |-> "delete", on |-> S, row |-> row, extra |-> NotCheckedIn], guest'[g])
      BY DEF Current
    <2>. QED  BY <1>0, <2>2, <2>3, CurrentSteps
  <1>8. ASSUME NEW p \in Clients, PutReadsOld(p) PROVE ReadsCurrent'
    <2>1. PICK old : /\ Step(p, "put old", old)
                     /\ old = Unread \/ \E g \in client[p].on : old = guest[g]
      BY <1>8 DEF PutReadsOld
    <2>2. /\ client[p].kind = "put" /\ guest' = guest /\ old \in ReadBy
          /\ \A g, h \in client[p].on : g = h
      <3>1. client[p].kind = "put" /\ guest' = guest
        BY <1>8 DEF PutReadsOld, Asking
      <3>2. old \in ReadBy
        BY <1>0, <2>1, UnreadTypes
      <3>. QED  BY <3>1, <3>2 DEF ReadsCurrent
    <2>3. Becomes(p, "put old", client[p].on, client[p].row, old)
      BY <2>1, <2>2, RequestSteps DEF Holding
    <2>4. p \notin late' => client[p].on = {} \/ p \notin late
      BY <1>0, <2>3 DEF Overtaken, Becomes
    <2>5. p \notin late' => \A h \in client[p].on :
            Current([kind |-> "put old", on |-> client[p].on, row |-> client[p].row, extra |-> old], guest'[h])
      BY <2>1, <2>2, <2>4 DEF ReadsCurrent, Current
    <2>. QED  BY <1>0, <2>3, <2>5, CurrentSteps
  <1>9. ASSUME NEW p \in Clients, NEW l \in Links, TokenInvites(p, l) PROVE ReadsCurrent'
    <2>1. client[p].kind = "invite" /\ client[p].row \in GuestRow /\ client[p] \in Request /\ guest' = guest
      BY <1>9 DEF TokenInvites, Asking, GuestsTypeOK, Holding
    <2>. DEFINE row == [client[p].row EXCEPT !.link = l]
                c == [client[p] EXCEPT !.kind = "attach", !.row = row]
    <2>2. /\ row \in GuestRow /\ row.rsvp = client[p].row.rsvp /\ row.status = client[p].row.status
          /\ row.method = client[p].row.method /\ row.prev = client[p].row.prev
      BY <2>1, RowTypes, ColumnParts
    <2>3. client' = [client EXCEPT ![p] = c]
      BY <1>9 DEF TokenInvites, GuestsTypeOK
    <2>. HIDE DEF row
    <2>4. c \in Request /\ c.kind = "attach" /\ c.on = client[p].on /\ c.row = row /\ c.extra = client[p].extra
      BY <1>0, <2>1, <2>2 DEF Request, Holding
    <2>. HIDE DEF c
    <2>5. Becomes(p, "attach", client[p].on, row, client[p].extra)
      BY <2>3, <2>4 DEF Becomes, GuestsTypeOK
    <2>6. p \notin late' => \A g \in client[p].on : p \notin late /\ Current(client[p], guest[g])
      BY <1>0, <2>5 DEF Overtaken, Becomes, ReadsCurrent
    <2>7. Answer(row) = Answer(client[p].row)
      BY <2>2 DEF Answer
    <2>8. p \notin late' => \A g \in client[p].on :
            Current([kind |-> "attach", on |-> client[p].on, row |-> row, extra |-> client[p].extra], guest'[g])
      BY <2>1, <2>2, <2>6, <2>7 DEF Current
    <2>. QED  BY <1>0, <2>5, <2>8, CurrentSteps
  <1>10. ASSUME NEW p \in Clients, NEW kind \in {"token", "save"}, NEW extra \in ReadBy, Step(p, kind, extra)
         PROVE  ReadsCurrent'
    <2>1. Becomes(p, kind, client[p].on, client[p].row, extra)
      BY <1>10, RequestSteps DEF Holding
    <2>2. \A g : Current([kind |-> kind, on |-> client[p].on, row |-> client[p].row, extra |-> extra], guest'[g])
      BY DEF Current
    <2>. QED  BY <1>0, <2>1, <2>2, CurrentSteps
  <1>11. ASSUME NEW p \in Clients, TokenAttaches(p) PROVE ReadsCurrent'
    <2>1. NotCheckedIn \in ReadBy
      BY <1>0 DEF NotCheckedIn, Answers, Texts
    <2>. QED  BY <1>3, <1>10, <1>11, <2>1 DEF TokenAttaches
  <1>12. ASSUME NEW p \in Clients, TokenLooks(p) PROVE ReadsCurrent'
    <2>0. /\ client[p].row.link \in Links
          /\ link \in [Links -> [live : BOOLEAN, token : {"none", "valid", "expired"}]]
      BY <1>12 DEF TokenLooks, Asking, GuestsTypeOK, Holding
    <2>. DEFINE found == [NotCheckedIn EXCEPT !.status = link[client[p].row.link].token]
    <2>1. found \in ReadBy
      <3>1. link[client[p].row.link].token \in {"none", "valid", "expired"}
        BY <2>0
      <3>2. NotCheckedIn \in Answers /\ {"none", "valid", "expired"} \subseteq Texts
        BY DEF NotCheckedIn, Answers, Texts
      <3>3. found \in Answers
        BY <3>1, <3>2 DEF Answers
      <3>. QED  BY <1>0, <3>3
    <2>2. Step(p, "save", found)
      BY <1>12 DEF TokenLooks
    <2>. HIDE DEF found
    <2>. QED  BY <1>10, <2>1, <2>2
  <1>13. ASSUME NEW p \in Clients, ServesGuests(p) PROVE ReadsCurrent'
    BY <1>3, <1>4, <1>5, <1>6, <1>7, <1>8, <1>9, <1>11, <1>12, <1>13
       DEF ServesGuests, RSVPWrites, PutWrites, TokenSaves, DeletesCommit, Abandon
  <1>. QED  BY <1>2, <1>13 DEF GuestsNext, BulkUpdateGuestStatus, CheckInGuests, UndoGuestCheckins

\* How a step may leave one guest for UndoGivesBack: as it was, not checked in, checked in
\* just now, or written late.
Undoable(g) ==
    \/ /\ guest'[g].rsvp = guest[g].rsvp /\ guest'[g].method = guest[g].method /\ guest'[g].prev = guest[g].prev
       /\ trail'[g].stood = trail[g].stood
       /\ (trail'[g].replaced <=> trail[g].replaced) /\ (trail'[g].late <=> trail[g].late)
    \/ guest'[g].prev = NotCheckedIn
    \/ ~trail'[g].replaced /\ guest'[g].prev = trail'[g].stood
    \/ trail'[g].late

\* Guests left so keep UndoGivesBack.
LEMMA UndoableKeeps ==
    ASSUME UndoGivesBack, Listed = People, Listed' = People, \A g \in People : Undoable(g)
    PROVE  UndoGivesBack'
  <1>. SUFFICES ASSUME NEW g \in People, DoorCheckedIn(guest'[g]), ~trail'[g].late
                PROVE  ~trail'[g].replaced /\ guest'[g].prev = trail'[g].stood
    BY DEF UndoGivesBack
  <1>1. DoorCheckedIn(guest[g]) /\ ~trail[g].late => ~trail[g].replaced /\ guest[g].prev = trail[g].stood
    BY DEF UndoGivesBack
  <1>. QED  BY <1>1 DEF Undoable, DoorCheckedIn

\* A request that writes: it ends the check-in, or was overtaken, or writes back the
\* answer and what the check-in kept.
LEMMA WriteUndoable ==
    ASSUME GuestsTypeOK, NEW p \in Clients, NEW r \in GuestRow, NEW found, UpdateGuest(p, r, found),
           \/ r.prev = NotCheckedIn
           \/ p \in late \/ client[p].extra = Unread
           \/ \A g \in client[p].on : r.prev = guest[g].prev /\ Answer(r) = Answer(guest[g])
    PROVE  \A g \in People : Undoable(g)
  <1>0. guest \in [People -> GuestRow]
    BY DEF GuestsTypeOK
  <1>1. PICK g \in client[p].on :
          /\ g \in People /\ guest' = [guest EXCEPT ![g] = r]
          /\ \A h \in People \ {g} : trail'[h] = trail[h]
          /\ trail'[g].stood = trail[g].stood
          /\ trail'[g].replaced <=> trail[g].replaced \/ Answer(guest[g]) # Answer(r)
          /\ trail'[g].late <=> trail[g].late \/ p \in late \/ client[p].extra = Unread
    BY UpdateWrites DEF Writes
  <1>2. guest'[g] = r /\ \A h \in People \ {g} : guest'[h] = guest[h]
    BY <1>0, <1>1
  <1>3. \A h \in People \ {g} : Undoable(h)
    BY <1>1, <1>2 DEF Undoable
  <1>4. CASE r.prev = NotCheckedIn
    BY <1>2, <1>3, <1>4 DEF Undoable
  <1>5. CASE p \in late \/ client[p].extra = Unread
    BY <1>1, <1>3, <1>5 DEF Undoable
  <1>6. CASE p \notin late /\ client[p].extra # Unread /\ r.prev = guest[g].prev /\ Answer(r) = Answer(guest[g])
    <2>1. r.rsvp = guest[g].rsvp /\ r.method = guest[g].method
      BY <1>6 DEF Answer
    <2>. QED  BY <1>1, <1>2, <1>3, <1>6, <2>1 DEF Undoable
  <1>. QED  BY <1>4, <1>5, <1>6

\* What a PUT writes: it ends the check-in where the answer is another than it read, or
\* could not read it.
LEMMA PutKeeps ==
    ASSUME GuestsTypeOK, ReadsCurrent, NEW p \in Clients, client[p].kind = "put old", NEW found \in BOOLEAN, NEW dated \in BOOLEAN
    PROVE  LET r == PutRow(p, found, dated)
           IN  \/ r.prev = NotCheckedIn
               \/ p \in late \/ client[p].extra = Unread
               \/ \A g \in client[p].on : r.prev = guest[g].prev /\ Answer(r) = Answer(guest[g])
  <1>. DEFINE row == client[p].row
              old == client[p].extra
              aligned == alignGuestStatusWithRSVP(row, old, found)
              synced == syncRSVPMetadata(aligned, old, dated)
              r == PutRow(p, found, dated)
  <1>0. row \in GuestRow
    BY DEF GuestsTypeOK, Holding
  <1>1. p \notin late /\ old # Unread =>
           \A g \in client[p].on : row.prev = guest[g].prev /\ Answer(old) = Answer(guest[g])
    BY DEF ReadsCurrent, Current
  <1>2. r = IF old # Unread /\ Answer(synced) # Answer(old) THEN ClearDoorCheckin(synced) ELSE synced
    BY DEF PutRow
  <1>. HIDE DEF row, r
  <1>3. aligned \in GuestRow /\ aligned.prev = row.prev
    BY <1>0, RowTypes, SetParts DEF alignGuestStatusWithRSVP
  <1>. HIDE DEF aligned
  <1>4. synced \in GuestRow /\ synced.prev = aligned.prev
    BY <1>3, RowTypes, SyncParts
  <1>. HIDE DEF synced
  <1>5. ClearDoorCheckin(synced).prev = NotCheckedIn
    BY <1>4, RowParts
  <1>. QED  BY <1>1, <1>2, <1>3, <1>4, <1>5 DEF r

\* No step lets an undo give back another answer than its check-in found.
LEMMA UndoStep ==
    GuestsTypeOK /\ GuestsTypeOK' /\ ReadsCurrent /\ UndoGivesBack /\ [GuestsNext]_guestVars => UndoGivesBack'
  <1>. SUFFICES ASSUME GuestsTypeOK, GuestsTypeOK', ReadsCurrent, UndoGivesBack, [GuestsNext]_guestVars
                PROVE  UndoGivesBack'
    OBVIOUS
  <1>1. CASE UNCHANGED guestVars
    BY <1>1 DEF guestVars, UndoGivesBack, Listed
  <1>. SUFFICES ASSUME GuestsNext PROVE UndoGivesBack'
    BY <1>1
  <1>0. /\ guest \in [People -> GuestRow] /\ trail \in [People -> Trail] /\ Listed = People /\ Listed' = People
        /\ Said \subseteq Codes
        /\ \A g \in People : guest[g] \in GuestRow /\ trail[g] \in Trail
    BY GuestsAssumption DEF GuestsTypeOK, Listed
  <1>. SUFFICES \A g \in People : Undoable(g)
    BY <1>0, UndoableKeeps
  <1>2. ASSUME NEW S \in SUBSET Listed, NEW code \in Said, BulkUpdateGuestStatus(S, code), NEW g \in People
        PROVE  Undoable(g)
    <2>1. CASE g \in S
      <3>1. setGuestRSVP(guest[g], code) \in GuestRow
        BY <1>0, RowTypes
      <3>2. guest'[g] = ClearDoorCheckin(setGuestRSVP(guest[g], code))
        BY <1>0, <1>2, <2>1 DEF BulkUpdateGuestStatus
      <3>. QED  BY <3>1, <3>2, RowParts DEF Undoable
    <2>2. CASE g \notin S
      <3>1. guest'[g] = guest[g] /\ trail'[g] = [trail[g] EXCEPT !.replaced = @ \/ g \in S]
        BY <1>0, <1>2, <2>2 DEF BulkUpdateGuestStatus, Replaced
      <3>2. \A b : [trail[g] EXCEPT !.replaced = b].stood = trail[g].stood
                   /\ [trail[g] EXCEPT !.replaced = b].replaced = b
                   /\ [trail[g] EXCEPT !.replaced = b].late = trail[g].late
        BY <1>0 DEF Trail
      <3>3. (trail[g].replaced \/ g \in S) = trail[g].replaced
        BY <1>0, <2>2 DEF Trail
      <3>4. trail'[g].stood = trail[g].stood /\ trail'[g].replaced = trail[g].replaced /\ trail'[g].late = trail[g].late
        BY <3>1, <3>2, <3>3
      <3>. QED  BY <3>1, <3>4 DEF Undoable
    <2>. QED  BY <2>1, <2>2
  <1>3. ASSUME NEW S \in SUBSET Listed, CheckInGuests(S), NEW g \in People PROVE Undoable(g)
    <2>0. "confirmed" \in Codes
      BY DEF Codes
    <2>1. CASE g \in S /\ ~DoorCheckedIn(guest[g])
      <3>. DEFINE r == [guest[g] EXCEPT !.prev = Answer(guest[g])]
      <3>1. r \in GuestRow /\ r.prev = Answer(guest[g])
        <4>1. Answer(guest[g]) \in Answers
          BY <1>0, RowTypes
        <4>. QED  BY <1>0, <4>1 DEF GuestRow
      <3>2. /\ guest'[g] = setGuestRSVP(r, "confirmed")
            /\ trail'[g] = [Untouched EXCEPT !.stood = Answer(guest[g]), !.missed = trail[g].missed]
        BY <1>0, <1>3, <2>1 DEF CheckInGuests, checkedIn
      <3>. HIDE DEF r
      <3>3. guest'[g].prev = Answer(guest[g])
        BY <2>0, <3>1, <3>2, AnswerParts
      <3>4. trail'[g].stood = Answer(guest[g]) /\ ~trail'[g].replaced
        BY <3>2 DEF Untouched
      <3>. QED  BY <3>3, <3>4 DEF Undoable
    <2>2. CASE g \in S /\ DoorCheckedIn(guest[g])
      <3>1. trail'[g] = trail[g]
        BY <1>0, <1>3, <2>2 DEF CheckInGuests
      <3>2. guest'[g] = guest[g] \/ guest'[g] = setGuestRSVP(guest[g], "confirmed")
        BY <1>0, <1>3, <2>2 DEF CheckInGuests, checkedIn
      <3>3. CASE guest'[g] = setGuestRSVP(guest[g], "confirmed")
        <4>1. guest[g] \in GuestRow
          BY <1>0
        <4>2. guest'[g].rsvp = "confirmed" /\ guest'[g].method = "host" /\ guest'[g].prev = guest[g].prev
          BY <2>0, <3>3, <4>1, AnswerParts
        <4>. QED  BY <2>2, <3>1, <4>2 DEF Undoable, DoorCheckedIn
      <3>. QED  BY <3>1, <3>2, <3>3 DEF Undoable
    <2>3. CASE g \notin S
      BY <1>0, <1>3, <2>3 DEF CheckInGuests, Undoable
    <2>. QED  BY <2>1, <2>2, <2>3
  <1>4. ASSUME NEW S \in SUBSET Listed, UndoGuestCheckins(S), NEW g \in People PROVE Undoable(g)
    <2>1. guest'[g] = guest[g] \/ guest'[g] = restoreDoorCheckin(guest[g])
      BY <1>0, <1>4 DEF UndoGuestCheckins
    <2>2. restoreDoorCheckin(guest[g]).prev = NotCheckedIn
      BY <1>0, RowParts
    <2>. QED  BY <1>4, <2>1, <2>2 DEF UndoGuestCheckins, Undoable
  <1>5. ASSUME NEW p \in Clients, RSVPWrites(p) PROVE \A g \in People : Undoable(g)
    <2>1. PICK found \in BOOLEAN : /\ client[p].kind \in {"rsvp", "rsvp alone"}
                                   /\ UpdateGuest(p, client[p].row, found)
      BY <1>5 DEF RSVPWrites, Asking
    <2>2. client[p].row \in GuestRow /\ client[p].row.prev = NotCheckedIn
      BY <2>1, WrittenRow DEF ReadsCurrent
    <2>. QED  BY <2>1, <2>2, WriteUndoable
  <1>6. ASSUME NEW p \in Clients, PutWrites(p) PROVE \A g \in People : Undoable(g)
    <2>1. PICK found, dated \in BOOLEAN : UpdateGuest(p, PutRow(p, found, dated), found)
      BY <1>6 DEF PutWrites, PutRow
    <2>2. client[p].kind = "put old"
      BY <1>6 DEF PutWrites, Asking
    <2>3. PutRow(p, found, dated) \in GuestRow
      BY <2>2, WrittenRow
    <2>. DEFINE r == PutRow(p, found, dated)
    <2>4. \/ r.prev = NotCheckedIn
          \/ p \in late \/ client[p].extra = Unread
          \/ \A g \in client[p].on : r.prev = guest[g].prev /\ Answer(r) = Answer(guest[g])
      BY <2>2, PutKeeps
    <2>. HIDE DEF r
    <2>5. r \in GuestRow /\ UpdateGuest(p, r, found)
      BY <2>1, <2>3 DEF r
    <2>. QED  BY <2>4, <2>5, WriteUndoable
  <1>7. ASSUME NEW p \in Clients, client[p].kind = "attach", UpdateGuest(p, client[p].row, TRUE)
        PROVE  \A g \in People : Undoable(g)
    <2>1. client[p].row \in GuestRow
      BY <1>7, WrittenRow
    <2>2. p \in late \/ \A g \in client[p].on : client[p].row.prev = guest[g].prev
                                                /\ Answer(client[p].row) = Answer(guest[g])
      BY <1>7 DEF ReadsCurrent, Current
    <2>. QED  BY <1>7, <2>1, <2>2, WriteUndoable
  <1>8. ASSUME NEW p \in Clients, DeletesCommit(p), NEW g \in People PROVE Undoable(g)
    <2>. DEFINE b == ~(~guest[g].live \/ g \in client[p].on)
    <2>1. guest'[g] = [guest[g] EXCEPT !.live = b] /\ trail' = trail
      BY <1>0, <1>8 DEF DeletesCommit
    <2>. HIDE DEF b
    <2>2. guest[g] \in GuestRow
      BY <1>0
    <2>3. guest'[g].rsvp = guest[g].rsvp /\ guest'[g].method = guest[g].method /\ guest'[g].prev = guest[g].prev
      BY <2>1, <2>2, ColumnParts
    <2>. QED  BY <2>1, <2>3 DEF Undoable
  <1>9. ASSUME guest' = guest, trail' = trail PROVE \A g \in People : Undoable(g)
    BY <1>9 DEF Undoable
  <1>10. ASSUME NEW p \in Clients, ServesGuests(p) PROVE \A g \in People : Undoable(g)
    BY <1>5, <1>6, <1>7, <1>8, <1>9, <1>10
       DEF ServesGuests, ConfirmRSVP, PutGuest, EnsureRSVPToken, DeleteGuests, PutReadsOld, TokenInvites,
           TokenAttaches, TokenLooks, TokenSaves, Abandon, Asking
  <1>. QED  BY <1>2, <1>3, <1>4, <1>10 DEF GuestsNext

\* A deleted row is written by nobody, and deleting it again leaves it as it is.
LEMMA DeletedStep ==
    ASSUME GuestsTypeOK, GuestsNext, NEW g \in Listed, ~guest[g].live
    PROVE  guest'[g] = guest[g]
  <1>0. guest \in [People -> GuestRow] /\ Listed = People /\ guest[g] \in GuestRow /\ g \in People
    BY DEF GuestsTypeOK, Listed
  <1>1. ASSUME NEW S \in SUBSET Listed, NEW code \in Said, BulkUpdateGuestStatus(S, code) PROVE guest'[g] = guest[g]
    BY <1>0, <1>1 DEF BulkUpdateGuestStatus, Alive
  <1>2. ASSUME NEW S \in SUBSET Listed, CheckInGuests(S) PROVE guest'[g] = guest[g]
    BY <1>0, <1>2 DEF CheckInGuests, Alive
  <1>3. ASSUME NEW S \in SUBSET Listed, UndoGuestCheckins(S) PROVE guest'[g] = guest[g]
    BY <1>0, <1>3 DEF UndoGuestCheckins, Alive
  <1>4. ASSUME NEW p \in Clients, NEW r, NEW found, UpdateGuest(p, r, found) PROVE guest'[g] = guest[g]
    BY <1>0, <1>4 DEF UpdateGuest
  <1>5. ASSUME NEW p \in Clients, DeletesCommit(p) PROVE guest'[g] = guest[g]
    <2>1. guest'[g] = [guest[g] EXCEPT !.live = FALSE]
      BY <1>0, <1>5 DEF DeletesCommit
    <2>2. guest[g].live = FALSE
      BY <1>0 DEF GuestRow
    <2>. QED  BY <1>0, <2>1, <2>2 DEF GuestRow
  <1>6. ASSUME NEW p \in Clients, ServesGuests(p) PROVE guest'[g] = guest[g]
    BY <1>4, <1>5, <1>6
       DEF ServesGuests, ConfirmRSVP, PutGuest, EnsureRSVPToken, DeleteGuests, PutReadsOld, TokenInvites,
           TokenAttaches, TokenLooks, TokenSaves, Abandon, RSVPWrites, PutWrites
  <1>. QED  BY <1>1, <1>2, <1>3, <1>6 DEF GuestsNext
---------------------------------------------------------------------------
\* The inductive invariant.
GuestsInv == GuestsTypeOK /\ AnswersInStep /\ ReadsCurrent /\ UndoGivesBack

\* Nobody on the list is checked in, no request is open, and answers put on the list out of
\* step count as such.
LEMMA GuestsInitInv == GuestsInit => GuestsInv
  <1>. SUFFICES ASSUME GuestsInit PROVE GuestsInv
    OBVIOUS
  <1>1. PICK held \in [People -> Links \cup {NoLink}], made \in [People -> Lists] :
           GuestsInitWith(People, held, made, Clients)
    BY DEF GuestsInit
  <1>2. NotCheckedIn \in Answers
    BY DEF Texts, NotCheckedIn, Answers
  <1>3. ASSUME NEW a \in Lists, NEW l \in Links \cup {NoLink}
        PROVE  /\ Created(a, l) \in GuestRow /\ Created(a, l).rsvp \in Codes \cup {""}
               /\ Created(a, l).prev = NotCheckedIn
    <2>1. a.rsvp \in Texts /\ a.status \in Texts /\ a.method \in Texts
      BY DEF Texts
    <2>. QED  BY <1>2, <2>1, GuestsAssumption DEF Created, GuestRow
  <1>4. guest \in [People -> GuestRow]
        /\ \A g \in People : guest[g].rsvp \in Codes \cup {""} /\ guest[g].prev = NotCheckedIn
    BY <1>1, <1>3 DEF GuestsInitWith
  <1>5. trail \in [People -> Trail] /\ \A g \in People : trail[g].missed <=> ~InStep(guest[g])
    <2>1. \A b \in BOOLEAN : LET t == [Untouched EXCEPT !.missed = b] IN t \in Trail /\ t.missed = b
      BY <1>2 DEF Untouched, Trail
    <2>2. \A g \in People : (~InStep(guest[g])) \in BOOLEAN
      BY DEF InStep
    <2>. QED  BY <1>1, <2>1, <2>2 DEF GuestsInitWith
  <1>6. link \in [Links -> [live : BOOLEAN, token : {"none", "valid", "expired"}]]
    BY <1>1 DEF GuestsInitWith
  <1>7. Unasked \in Request /\ Unasked.kind = "none"
    BY <1>2 DEF Unasked, Request, ReadBy
  <1>8. client \in [Clients -> Request] /\ \A p \in Clients : client[p].kind = "none" /\ client[p].on = {}
    BY <1>1, <1>7 DEF GuestsInitWith, Unasked
  <1>9. GuestsTypeOK
    BY <1>4, <1>5, <1>6, <1>8 DEF GuestsTypeOK, Holding
  <1>10. AnswersInStep
    BY <1>4, <1>5, <1>8 DEF AnswersInStep, Agrees, PrevInStep
  <1>11. ReadsCurrent
    BY <1>8 DEF ReadsCurrent
  <1>12. UndoGivesBack
    BY <1>4 DEF UndoGivesBack, DoorCheckedIn, Listed
  <1>. QED  BY <1>9, <1>10, <1>11, <1>12 DEF GuestsInv

\* It is an invariant.
LEMMA GuestsInvariant == GuestsSpec => []GuestsInv
  <1>1. GuestsInv /\ [GuestsNext]_guestVars => GuestsInv'
    BY GuestsTypes, InStepStep, ReadsStep, UndoStep DEF GuestsInv
  <1>. QED  BY <1>1, GuestsInitInv, PTL DEF GuestsSpec

\* guest_status_id and rsvp_status stay in step for any number of guests and requests,
\* though a PUT aligns them by a row it read before others wrote (alignGuestStatusWithRSVP):
\* all but the guests put on the list out of step, or answered when a lookup failed.
THEOREM GuestsStatusFollows == GuestsSpec => []StatusFollows
  <1>1. GuestsInv => StatusFollows
    BY DEF GuestsInv, GuestsTypeOK, AnswersInStep, Agrees, StatusFollows, Listed
  <1>. QED  BY <1>1, GuestsInvariant, PTL

\* An undo at the door gives back the answer its check-in found and is refused once another
\* answer came, unless a request that was overtaken, or a PUT whose second reading failed,
\* wrote the row (ClearDoorCheckin).
THEOREM GuestsUndoGivesBack == GuestsSpec => []UndoGivesBack
  <1>1. GuestsInv => UndoGivesBack
    BY DEF GuestsInv
  <1>. QED  BY <1>1, GuestsInvariant, PTL

\* No request brings a deleted guest back or changes it, though each writes every column of
\* a row it may have read before (UpdateGuest, GuestRepository.go).
THEOREM GuestsDeletedStays == GuestsSpec => DeletedStays
  <1>1. GuestsInv /\ [GuestsNext]_guestVars
          => [\A g \in Listed : ~guest[g].live => guest'[g] = guest[g]]_guestVars
    BY DeletedStep DEF GuestsInv
  <1>. QED  BY <1>1, GuestsInvariant, PTL DEF GuestsSpec, DeletedStays
=============================================================================
