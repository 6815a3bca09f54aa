SPECIFICATION HouseSpec
CONSTANTS
    Bookings = {b1, b2}
    Rooms = {r1, r2}
    Items = {}
    Prices = {p1}
    BasePrice = p1
    Moves = {m1}
    Users = {u1, u2}
    MaxQty = 1
    NoBooking = NoBooking
SYMMETRY Symmetric
INVARIANTS RoomBoardExact DoneIsSettled RequestSentOnce
PROPERTIES ClosedStaysClosed LedgerSpec
