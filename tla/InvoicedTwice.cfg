SPECIFICATION Spec
CONSTANTS
    Bookings = {b1}
    Rooms = {r1}
    Items = {i1}
    Prices = {p1, p2}
    BasePrice = p1
    Moves = {m1, m2}
    Users = {u1}
    MaxQty = 1
    NoBooking = NoBooking
SYMMETRY Symmetric
INVARIANT NoDoubleInvoicing
