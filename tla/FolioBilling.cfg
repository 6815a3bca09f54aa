SPECIFICATION DeskSpec
CONSTANTS
    Bookings = {b1, b2}
    Rooms = {r1, r2}
    Items = {i1}
    Prices = {p1, p2}
    BasePrice = p1
    Moves = {m1, m2}
    Users = {u1, u2}
    MaxQty = 2
    NoBooking = NoBooking
SYMMETRY Symmetric
INVARIANTS TypeOK AvailAgrees
PROPERTY NoOverInvoicing
