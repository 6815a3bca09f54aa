---------------------------- MODULE MCFrontDesk -----------------------------
(* One hotel, looked at twice: two clerks on two folios and two rooms      *)
(* without bills, and one clerk who bills one folio of one room.  Which,   *)
(* is chosen at the start.                                                 *)
EXTENDS MCRoomBooking

VARIABLE scope  \* the clerks, folios, rooms and items that take part

Scopes ==
    {[users |-> Users, bookings |-> Bookings, rooms |-> Rooms, items |-> {}]} \cup
    {[users |-> {u}, bookings |-> {b}, rooms |-> {r}, items |-> Items] :
        u \in Users, b \in Bookings, r \in Rooms}

Within ==
    /\ \A u \in Users \ scope.users : form'[u] = form[u]
    /\ \A u \in Users : form'[u].b \in scope.bookings \cup {NoBooking}
    /\ \A b \in Bookings : room_line_ids'[b] \subseteq scope.rooms
    /\ scope.items = {} =>
            need' = need /\ duration' = duration /\ tariff' = tariff /\ move_ref' = move_ref

DeskSpec ==
    /\ Init /\ scope \in Scopes
    /\ [][Next /\ Within /\ UNCHANGED scope]_<<vars, scope>>
=============================================================================
