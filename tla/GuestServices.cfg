SPECIFICATION GuestSpec
CONSTANTS
    Cleanings = {k1}
    Repairs = {m1}
    Staff = {u1, u2}
    NoRequest = NoRequest
    Tills = {t1, t2}
    Orders = {o1}
    Folios = {f1, f2}
    NoRoom = NoRoom
    c1 = c1
    c2 = c2
    Apps = {a1, a2, a3}
    Cards = {c1, c2}
    FirstCard = c1
    TopUpCard = c2
    Opening <- TwoCards
    Carts <- EmptyTwoOrBack
    Coupons <- HalfOrAll
    Fees = {2}
    TopUps <- InOrOut
SYMMETRY Alike
INVARIANTS GuestTypeOK NoStepSkipped SomebodyIsOnIt ChargedIsBilled NeverOverdrawn LinesAddUp PointsAccounted
PROPERTY PaidStaysBilled
CHECK_DEADLOCK FALSE
