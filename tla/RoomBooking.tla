---------------------------- MODULE RoomBooking -----------------------------
(***************************************************************************)
(* The folio (room.booking) of hotel_management_odoo: reservation,         *)
(* check-in, check-out, cancellation, maintenance request, invoicing and   *)
(* closing, with the room board (product.template.status and               *)
(* is_room_avail) the bookings share.                                      *)
(*                                                                         *)
(* A button is one database transaction: Odoo runs it under REPEATABLE     *)
(* READ and retries it on a write conflict.  The server methods hardly     *)
(* look at the booking's state: which button can be pressed is decided by  *)
(* the "invisible" conditions of the form view, on the values the form     *)
(* last loaded.  A clerk's form is therefore a snapshot, and may be stale. *)
(***************************************************************************)
EXTENDS Integers

CONSTANTS
    Bookings,   \* folios
    Rooms,      \* products with is_room
    Items,      \* food, service, vehicle and event products
    Prices,     \* unit prices an item may have
    BasePrice,  \* the price everything starts with
    Moves,      \* invoices that may be created (account.move)
    Users,      \* clerks, one open form each
    MaxQty,     \* longest stay and largest quantity of a line
    NoBooking   \* not a booking

ASSUME MaxQtyAssumption == MaxQty \in Nat
ASSUME PriceAssumption == BasePrice \in Prices
ASSUME KeyAssumption == Rooms \cap Items = {}
ASSUME NoBookingAssumption == NoBooking \notin Bookings

VARIABLES
    state,                    \* room.booking.state
    room_line_ids,            \* the rooms of the folio
    duration,                 \* days of the stay, the uom_qty of every room line
    need,                     \* need_food, need_service, need_fleet, need_event
    order,                    \* quantities of the (up to two) lines of an item
    is_checkin,               \* room.booking.is_checkin
    maintenance_request_sent, \* room.booking.maintenance_request_sent
    requests,                 \* maintenance requests created for the folio
    invoice_button_visible,   \* room.booking.invoice_button_visible
    invoice_status,           \* room.booking.invoice_status
    tariff,                   \* price_unit of a room or an item
    invoiced,                 \* quantity on invoices with ref = name, by product and price
    move_ref,                 \* account.move.ref
    payment_state,            \* account.move.payment_state
    status,                   \* product.template.status
    is_room_avail,            \* product.template.is_room_avail
    form                      \* what each clerk's form last loaded

folio == <<room_line_ids, duration, need, order>>
bill == <<invoice_button_visible, invoice_status, tariff, invoiced, move_ref, payment_state>>
maintenance == <<maintenance_request_sent, requests>>
roomBoard == <<status, is_room_avail>>
vars == <<state, folio, is_checkin, maintenance, bill, roomBoard, form>>

BookingState == {"draft", "reserved", "check_in", "check_out", "cancel", "done"}
RoomStatus == {"available", "reserved", "occupied"}
PaymentState == {"not_paid", "partial", "paid"}
Slots == {1, 2}
Keys == Rooms \cup Items
Qty == 0 .. MaxQty

FormView == [b : Bookings \cup {NoBooking}, state : BookingState,
             button : BOOLEAN, sent : BOOLEAN, checkin : BOOLEAN]

TypeOK ==
    /\ state \in [Bookings -> BookingState]
    /\ room_line_ids \in [Bookings -> SUBSET Rooms]
    /\ duration \in [Bookings -> Qty]
    /\ need \in [Bookings -> [Items -> BOOLEAN]]
    /\ order \in [Bookings -> [Items -> [Slots -> Qty]]]
    /\ is_checkin \in [Bookings -> BOOLEAN]
    /\ maintenance_request_sent \in [Bookings -> BOOLEAN]
    /\ requests \in [Bookings -> Nat]
    /\ invoice_button_visible \in [Bookings -> BOOLEAN]
    /\ invoice_status \in [Bookings -> {"no_invoice", "invoiced"}]
    /\ tariff \in [Keys -> Prices]
    /\ invoiced \in [Bookings -> [Keys -> [Prices -> Nat]]]
    /\ move_ref \in [Moves -> Bookings \cup {NoBooking}]
    /\ payment_state \in [Moves -> PaymentState]
    /\ status \in [Rooms -> RoomStatus]
    /\ is_room_avail \in [Rooms -> BOOLEAN]
    /\ form \in [Users -> FormView]

(* The part of a booking the form's button conditions read.                *)
Snapshot(b) ==
    [b |-> b, state |-> state[b], button |-> invoice_button_visible[b],
     sent |-> maintenance_request_sent[b], checkin |-> is_checkin[b]]

(* New folios, as create() leaves them, and rooms nobody has booked yet.   *)
Init ==
    /\ state = [b \in Bookings |-> "draft"]
    /\ room_line_ids = [b \in Bookings |-> {}]
    /\ duration = [b \in Bookings |-> IF MaxQty > 0 THEN 1 ELSE 0]
    /\ need = [b \in Bookings |-> [i \in Items |-> FALSE]]
    /\ order = [b \in Bookings |-> [i \in Items |-> [s \in Slots |-> 0]]]
    /\ is_checkin = [b \in Bookings |-> FALSE]
    /\ maintenance_request_sent = [b \in Bookings |-> FALSE]
    /\ requests = [b \in Bookings |-> 0]
    /\ invoice_button_visible = [b \in Bookings |-> FALSE]
    /\ invoice_status = [b \in Bookings |-> "no_invoice"]
    /\ tariff = [k \in Keys |-> BasePrice]
    /\ invoiced = [b \in Bookings |-> [k \in Keys |-> [p \in Prices |-> 0]]]
    /\ move_ref = [m \in Moves |-> NoBooking]
    /\ payment_state = [m \in Moves |-> "not_paid"]
    /\ status = [r \in Rooms |-> "available"]
    /\ is_room_avail = [r \in Rooms |-> TRUE]
    /\ form = [u \in Users |-> [b |-> NoBooking, state |-> "draft", button |-> FALSE,
                                sent |-> FALSE, checkin |-> FALSE]]
-----------------------------------------------------------------------------
(* The clerk's form                                                        *)

(* u opens b, or refreshes the form.                                       *)
OpenForm(u, b) ==
    /\ form[u] # Snapshot(b)
    /\ form' = [form EXCEPT ![u] = Snapshot(b)]
    /\ UNCHANGED <<state, folio, is_checkin, maintenance, bill, roomBoard>>

(* After a button or a save the web client reads the record again.         *)
Reload(u, b) ==
    form' = [form EXCEPT ![u] =
        [b |-> b, state |-> state'[b], button |-> invoice_button_visible'[b],
         sent |-> maintenance_request_sent'[b], checkin |-> is_checkin'[b]]]

(* Mutant: the buttons' "invisible" conditions are gone.                   *)
ShowsAlways(u, states) == form[u].b \in Bookings

Shows(u, states) == form[u].b \in Bookings /\ form[u].state \in states

(* Mutants: a room that is taken stays available; the rooms are not given  *)
(* back; every room of the hotel is written.                               *)
WriteStatusOnly(b, s) ==
    /\ status' = [r \in Rooms |-> IF r \in room_line_ids[b] THEN s ELSE status[r]]
    /\ UNCHANGED is_room_avail

WriteRoomsTaken(b, s) ==
    IF s = "available" THEN UNCHANGED roomBoard
    ELSE /\ status' = [r \in Rooms |-> IF r \in room_line_ids[b] THEN s ELSE status[r]]
         /\ is_room_avail' = [r \in Rooms |-> r \notin room_line_ids[b] /\ is_room_avail[r]]

WriteEveryRoom(b, s) ==
    /\ status' = [r \in Rooms |-> s]
    /\ is_room_avail' = [r \in Rooms |-> s = "available"]

(* The rooms of b get this status, and is_room_avail with it.              *)
WriteRooms(b, s) ==
    /\ status' = [r \in Rooms |-> IF r \in room_line_ids[b] THEN s ELSE status[r]]
    /\ is_room_avail' = [r \in Rooms |-> IF r \in room_line_ids[b]
                                         THEN s = "available" ELSE is_room_avail[r]]

(* Mutant: a key that is not in the field's selection.                     *)
SetWrongState(b, s) ==
    state' = [state EXCEPT ![b] = IF s = "check_out" THEN "checked_out" ELSE s]

SetState(b, s) == state' = [state EXCEPT ![b] = s]
-----------------------------------------------------------------------------
(* The buttons of the header                                               *)

(* A second click on Reserve only tells the clerk so.                      *)
AlreadyReserved(b) ==
    /\ state[b] = "reserved"
    /\ UNCHANGED <<state, roomBoard>>

action_reserve(u) ==
    LET b == form[u].b IN
    /\ Shows(u, {"draft"})
    /\ \/ AlreadyReserved(b)
       \/ /\ state[b] # "reserved"
          /\ room_line_ids[b] # {}
          /\ WriteRooms(b, "reserved")
          /\ SetState(b, "reserved")
    /\ UNCHANGED <<folio, is_checkin, maintenance, bill>>
    /\ Reload(u, b)

action_checkin(u) ==
    LET b == form[u].b IN
    /\ Shows(u, {"draft", "reserved"})
    /\ ~form[u].checkin
    /\ room_line_ids[b] # {}
    /\ WriteRooms(b, "occupied")
    /\ SetState(b, "check_in")
    /\ UNCHANGED <<folio, is_checkin, maintenance, bill>>
    /\ Reload(u, b)

action_cancel(u) ==
    LET b == form[u].b IN
    /\ Shows(u, {"draft", "reserved"})
    /\ WriteRooms(b, "available")
    /\ SetState(b, "cancel")
    /\ UNCHANGED <<folio, is_checkin, maintenance, bill>>
    /\ Reload(u, b)

action_checkout(u) ==
    LET b == form[u].b IN
    /\ Shows(u, {"check_in"})
    /\ WriteRooms(b, "available")
    /\ SetState(b, "check_out")
    /\ UNCHANGED <<folio, is_checkin, maintenance, bill>>
    /\ Reload(u, b)

(* Mutant: nobody notes that the request was sent.                         *)
RequestUnnoted(u) ==
    LET b == form[u].b IN
    /\ Shows(u, {"check_in", "reserved"})
    /\ ~form[u].sent
    /\ room_line_ids[b] # {}
    /\ requests' = [requests EXCEPT ![b] = @ + 1]
    /\ UNCHANGED <<state, folio, is_checkin, maintenance_request_sent, bill, roomBoard>>
    /\ Reload(u, b)

action_maintenance_request(u) ==
    LET b == form[u].b IN
    /\ Shows(u, {"check_in", "reserved"})
    /\ ~form[u].sent
    /\ room_line_ids[b] # {}
    /\ requests' = [requests EXCEPT ![b] = @ + 1]
    /\ maintenance_request_sent' = [maintenance_request_sent EXCEPT ![b] = TRUE]
    /\ UNCHANGED <<state, folio, is_checkin, bill, roomBoard>>
    /\ Reload(u, b)

MovesOf(b) == {m \in Moves : move_ref[m] = b}
UnpaidMoves(b) == {m \in MovesOf(b) : payment_state[m] = "not_paid"}

(* Mutant: the folio is closed without a look at its invoices.             *)
DoneUnchecked(u) ==
    LET b == form[u].b IN
    /\ Shows(u, {"check_out"})
    /\ SetState(b, "done")
    /\ is_checkin' = [is_checkin EXCEPT ![b] = FALSE]
    /\ UNCHANGED <<folio, maintenance, bill, roomBoard>>
    /\ Reload(u, b)

action_done(u) ==
    LET b == form[u].b IN
    /\ Shows(u, {"check_out"})
    /\ UnpaidMoves(b) = {}
    /\ SetState(b, "done")
    /\ is_checkin' = [is_checkin EXCEPT ![b] = FALSE]
    /\ UNCHANGED <<folio, maintenance, bill, roomBoard>>
    /\ Reload(u, b)
-----------------------------------------------------------------------------
(* Invoicing                                                               *)

(* A room has one line (duplicates are refused), an item up to two.        *)
LineQty(b, k, s) ==
    IF k \in Rooms
    THEN IF k \in room_line_ids[b] /\ s = 1 THEN duration[b] ELSE 0
    ELSE order[b][k][s]

Booked(b, k) == LineQty(b, k, 1) + LineQty(b, k, 2)

(* Mutant: what was invoiced before is not looked at.                      *)
WholeLine(b, k, s) == LineQty(b, k, s)

(* What a line still has to be invoiced for.  Every line is compared with  *)
(* all that was invoiced under its product and its present price.          *)
get_delta(b, k, s) ==
    LET remaining == LineQty(b, k, s) - invoiced[b][k][tariff[k]] IN
    IF remaining > 0 THEN remaining ELSE 0

booking_list(b) == {line \in Keys \X Slots : get_delta(b, line[1], line[2]) > 0}

AddToInvoiced(b) ==
    invoiced' = [invoiced EXCEPT ![b] =
        [k \in Keys |-> [p \in Prices |->
            IF p = tariff[k]
            THEN invoiced[b][k][p] + get_delta(b, k, 1) + get_delta(b, k, 2)
            ELSE invoiced[b][k][p]]]]

action_invoice(u) ==
    LET b == form[u].b IN
    /\ Shows(u, {"draft", "check_out"})
    /\ ~form[u].button
    /\ room_line_ids[b] # {}
    /\ booking_list(b) # {}
    /\ \E m \in Moves :
        /\ move_ref[m] = NoBooking
        /\ move_ref' = [move_ref EXCEPT ![m] = b]
        /\ payment_state' = [payment_state EXCEPT ![m] = "not_paid"]
    /\ AddToInvoiced(b)
    /\ invoice_status' = [invoice_status EXCEPT ![b] = "invoiced"]
    /\ invoice_button_visible' = [invoice_button_visible EXCEPT ![b] = TRUE]
    /\ UNCHANGED <<state, folio, is_checkin, maintenance, tariff, roomBoard>>
    /\ Reload(u, b)

(* Accounting registers a payment, of a part or of the rest.               *)
RegisterPayment(m) ==
    /\ move_ref[m] # NoBooking
    /\ payment_state[m] # "paid"
    /\ \E p \in {"partial", "paid"} :
        /\ p # payment_state[m]
        /\ payment_state' = [payment_state EXCEPT ![m] = p]
    /\ UNCHANGED <<state, folio, is_checkin, maintenance, invoice_button_visible,
                   invoice_status, tariff, invoiced, move_ref, roomBoard, form>>

(* The price of an item changes: its lines' price_unit is a related field. *)
ChangePrice(i) ==
    /\ \E p \in Prices \ {tariff[i]} : tariff' = [tariff EXCEPT ![i] = p]
    /\ UNCHANGED <<state, folio, is_checkin, maintenance, invoice_button_visible,
                   invoice_status, invoiced, move_ref, payment_state, roomBoard, form>>
-----------------------------------------------------------------------------
(* Edits of the form, saved.  No field of the lines is read-only in any    *)
(* state.  A changed line clears invoice_button_visible: the client writes *)
(* the field only if the loaded value differs from FALSE.  A save that     *)
(* changes no line leaves it.                                              *)
_onchange_room_line_ids(u, b) ==
    invoice_button_visible' = [invoice_button_visible EXCEPT ![b] = @ /\ ~form[u].button]

SaveLines(u, changed) ==
    LET b == form[u].b IN
    /\ b \in Bookings
    /\ IF changed THEN _onchange_room_line_ids(u, b) ELSE UNCHANGED invoice_button_visible
    /\ UNCHANGED <<state, is_checkin, maintenance, invoice_status, tariff, invoiced,
                   move_ref, payment_state, roomBoard>>
    /\ Reload(u, b)

(* The view offers every room; only a duplicate in the folio is refused.   *)
AddRoom(u, r) ==
    LET b == form[u].b IN
    /\ SaveLines(u, TRUE)
    /\ r \notin room_line_ids[b]
    /\ room_line_ids' = [room_line_ids EXCEPT ![b] = @ \cup {r}]
    /\ UNCHANGED <<duration, need, order>>

RemoveRoom(u, r) ==
    LET b == form[u].b IN
    /\ SaveLines(u, TRUE)
    /\ r \in room_line_ids[b]
    /\ room_line_ids' = [room_line_ids EXCEPT ![b] = @ \ {r}]
    /\ UNCHANGED <<duration, need, order>>

(* New dates: the duration goes to every room line.                        *)
SetDates(u, d) ==
    LET b == form[u].b IN
    /\ SaveLines(u, room_line_ids[b] # {})
    /\ d # duration[b]
    /\ duration' = [duration EXCEPT ![b] = d]
    /\ UNCHANGED <<room_line_ids, need, order>>

(* The need_* switches are shown on a checked-in form only; switching one  *)
(* off unlinks its lines.                                                  *)
ToggleNeed(u, i) ==
    LET b == form[u].b IN
    /\ Shows(u, {"check_in"})
    /\ need' = [need EXCEPT ![b][i] = ~@]
    /\ order' = IF need[b][i] THEN [order EXCEPT ![b][i] = [s \in Slots |-> 0]] ELSE order
    /\ SaveLines(u, \E s \in Slots : order'[b][i][s] # order[b][i][s])
    /\ UNCHANGED <<room_line_ids, duration>>

OrderItem(u, i, s, q) ==
    LET b == form[u].b IN
    /\ b \in Bookings
    /\ need[b][i]
    /\ q # order[b][i][s]
    /\ order' = [order EXCEPT ![b][i][s] = q]
    /\ SaveLines(u, TRUE)
    /\ UNCHANGED <<room_line_ids, duration, need>>
-----------------------------------------------------------------------------
Press(u) ==
    \/ action_reserve(u)
    \/ action_checkin(u)
    \/ action_cancel(u)
    \/ action_checkout(u)
    \/ action_maintenance_request(u)
    \/ action_invoice(u)
    \/ action_done(u)

EditRooms(u) == \E r \in Rooms : AddRoom(u, r) \/ RemoveRoom(u, r)

EditOther(u) ==
    \/ \E d \in Qty : SetDates(u, d)
    \/ \E i \in Items : ToggleNeed(u, i)
    \/ \E i \in Items, s \in Slots, q \in Qty : OrderItem(u, i, s, q)

Accounting ==
    \/ \E m \in Moves : RegisterPayment(m)
    \/ \E i \in Items : ChangePrice(i)

Next ==
    \/ \E u \in Users, b \in Bookings : OpenForm(u, b)
    \/ \E u \in Users : Press(u) \/ EditRooms(u) \/ EditOther(u)
    \/ Accounting

Spec == Init /\ [][Next]_vars
-----------------------------------------------------------------------------
(* House rules.  The code leaves the exclusivity of rooms to the clerks.   *)
(* The rules under which the room board is right: a button is pressed and  *)
(* a form is saved only while it shows the record as it is, rooms are      *)
(* changed only on a draft, and only a room that no open folio lists is    *)
(* added.                                                                  *)
OpenStates == {"draft", "reserved", "check_in"}

Fresh(u) == form[u].b \in Bookings /\ form[u] = Snapshot(form[u].b)

RoomIsFree(r) == \A b \in Bookings : state[b] \in OpenStates => r \notin room_line_ids[b]

HouseEditRooms(u) ==
    /\ Shows(u, {"draft"})
    /\ \E r \in Rooms : (RoomIsFree(r) /\ AddRoom(u, r)) \/ RemoveRoom(u, r)

HouseNext ==
    \/ \E u \in Users, b \in Bookings : OpenForm(u, b)
    \/ \E u \in Users : Fresh(u) /\ (Press(u) \/ HouseEditRooms(u) \/ EditOther(u))
    \/ Accounting

HouseSpec == Init /\ [][HouseNext]_vars
-----------------------------------------------------------------------------
(* Properties                                                              *)

Holds(b, r) == state[b] \in {"reserved", "check_in"} /\ r \in room_line_ids[b]

(* The two availability fields of a room never disagree, whatever buttons  *)
(* are pressed on whatever stale forms: every method that writes status    *)
(* also writes is_room_avail (action_reserve, action_cancel,               *)
(* action_checkout, action_checkin).                                       *)
AvailAgrees == \A r \in Rooms : is_room_avail[r] <=> status[r] = "available"

(* An invoice never takes the quantity invoiced of a product at a price    *)
(* beyond what the folio books of it, however often Create Invoice is      *)
(* pressed, lines are edited or prices change (get_delta).                 *)
InvoicesAtMostBooked ==
    \A b \in Bookings, k \in Keys, p \in Prices :
        invoiced'[b][k][p] > invoiced[b][k][p] => invoiced'[b][k][p] <= Booked(b, k)

NoOverInvoicing == [][InvoicesAtMostBooked]_vars

(* Under the house rules the board shows what the folios say: no two open  *)
(* folios share a room, a reserved (checked-in) folio's rooms are shown    *)
(* reserved (occupied), and a room no such folio lists is available.       *)
ShownAs(s) == CASE s = "reserved" -> "reserved"
                [] s = "check_in" -> "occupied"
                [] OTHER -> "available"

ExclusiveRooms ==
    \A b, c \in Bookings :
        b # c /\ state[b] \in OpenStates /\ state[c] \in OpenStates
            => room_line_ids[b] \cap room_line_ids[c] = {}

ListedRoomsShown ==
    \A b \in Bookings, r \in Rooms :
        state[b] \in OpenStates /\ r \in room_line_ids[b] => status[r] = ShownAs(state[b])

FreeRoomsAvailable == \A r \in Rooms : RoomIsFree(r) => status[r] = "available"

RoomBoardExact == ExclusiveRooms /\ ListedRoomsShown /\ FreeRoomsAvailable

(* Under the house rules a folio that is done has no unpaid invoice left:  *)
(* none was unpaid when action_done closed it and none is created later.   *)
DoneIsSettled == \A b \in Bookings : state[b] = "done" => UnpaidMoves(b) = {}

(* Under the house rules a folio never sends a second maintenance request: *)
(* the mark that hides the button is there whenever one was made           *)
(* (action_maintenance_request).                                           *)
RequestSentOnce ==
    \A b \in Bookings : requests[b] = IF maintenance_request_sent[b] THEN 1 ELSE 0

(* Under the house rules a folio never leaves check_out but for done, and  *)
(* never leaves cancel or done.                                            *)
KeepsClosed ==
    \A b \in Bookings :
        /\ state[b] \in {"cancel", "done"} => state'[b] = state[b]
        /\ state[b] = "check_out" => state'[b] \in {"check_out", "done"}

ClosedStaysClosed == [][KeepsClosed]_vars

(* Under the house rules the booking code implements the room ledger.      *)
Ledger == INSTANCE RoomLedger WITH
    board <- status,
    holders <- [r \in Rooms |-> {b \in Bookings : Holds(b, r)}]

LedgerSpec == Ledger!Spec
-----------------------------------------------------------------------------
(* Statements of the repository the code does not keep                     *)

(* A line's room_id is confined to rooms with status "available", so no    *)
(* two folios are checked in to one room.                                  *)
NoSharedRoom ==
    \A b, c \in Bookings, r \in Rooms :
        b # c /\ state[b] = "check_in" /\ state[c] = "check_in"
            => ~(r \in room_line_ids[b] /\ r \in room_line_ids[c])

(* "to avoid double invoicing": an item whose quantity was invoiced in     *)
(* full is not on the list of what is still to be invoiced.                *)
NoDoubleInvoicing ==
    \A b \in Bookings, i \in Items, p \in Prices :
        Booked(b, i) > 0 /\ invoiced[b][i][p] >= Booked(b, i)
            => \A s \in Slots : <<i, s>> \notin booking_list(b)
=============================================================================
