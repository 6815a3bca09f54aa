SPECIFICATION Spec
CONSTANTS
    Bookings = {b1, b2}
    Rooms = {r1}
    Items = {}
    Prices = {p1}
    BasePrice = p1
    Moves = {}
    Users = {u1}
    MaxQty = 0
    NoBooking = NoBooking
SYMMETRY Symmetric
INVARIANT NoSharedRoom
