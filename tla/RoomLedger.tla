----------------------------- MODULE RoomLedger -----------------------------
(***************************************************************************)
(* What the front desk is promised of the room board of                    *)
(* hotel_management_odoo: a room has at most one holder, it is shown       *)
(* "available" exactly while nobody holds it, and only its holder's own    *)
(* check-out or cancellation gives it back.  No form, folio or invoice     *)
(* appears here; RoomBooking shows under which conduct of the clerks the   *)
(* booking code keeps this promise.                                        *)
(***************************************************************************)
EXTENDS Naturals

CONSTANTS Rooms, Bookings

VARIABLES
    board,      \* what a room is shown as
    holders     \* the bookings that have reserved or occupy a room

vars == <<board, holders>>

Init ==
    /\ board = [r \in Rooms |-> "available"]
    /\ holders = [r \in Rooms |-> {}]

(* b takes every room of S, shown as how from then on.  A room may already *)
(* be b's own (check-in of a reservation), never another booking's, and b  *)
(* leaves none of its rooms behind.                                        *)
Take(b, S, how) ==
    /\ S # {}
    /\ \A r \in S : holders[r] \subseteq {b}
    /\ \A r \in Rooms \ S : b \notin holders[r]
    /\ holders' = [r \in Rooms |-> IF r \in S THEN {b} ELSE holders[r]]
    /\ board' = [r \in Rooms |-> IF r \in S THEN how ELSE board[r]]

(* b gives back all it holds and nothing else.                             *)
Release(b) ==
    /\ holders' = [r \in Rooms |-> holders[r] \ {b}]
    /\ board' = [r \in Rooms |-> IF b \in holders[r] THEN "available" ELSE board[r]]

Next ==
    \E b \in Bookings :
        \/ \E S \in SUBSET Rooms, how \in {"reserved", "occupied"} : Take(b, S, how)
        \/ Release(b)

Spec == Init /\ [][Next]_vars

(* A held room has one holder and is not shown available; a free one is.   *)
OneHolder ==
    \A r \in Rooms :
        /\ \A b, c \in holders[r] : b = c
        /\ board[r] = "available" <=> holders[r] = {}
=============================================================================
