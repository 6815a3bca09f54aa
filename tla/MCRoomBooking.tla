--------------------------- MODULE MCRoomBooking ----------------------------
(* Small hotels for TLC.  Folios, rooms, clerks and invoices are model     *)
(* values that no definition tells apart, so they are symmetric; prices    *)
(* are not (BasePrice is one of them).                                     *)
EXTENDS RoomBooking, TLC

Symmetric ==
    Permutations(Bookings) \cup Permutations(Rooms) \cup Permutations(Users)
        \cup Permutations(Moves)
=============================================================================
