------------------------- MODULE RoomBookingProofs --------------------------
(***************************************************************************)
(* Proofs about RoomBooking, for every number of folios, rooms, items,     *)
(* prices, invoices and clerks.                                            *)
(***************************************************************************)
EXTENDS RoomBooking, TLAPS

USE MaxQtyAssumption, PriceAssumption, KeyAssumption, NoBookingAssumption
-----------------------------------------------------------------------------
(* Type correctness                                                        *)

LEMMA TypeInit == Init => TypeOK
BY DEF Init, TypeOK, BookingState, RoomStatus, PaymentState, Slots, Qty, FormView

(* A reloaded form is a form.                                              *)
LEMMA ReloadType ==
    ASSUME TypeOK, NEW u \in Users, NEW b \in Bookings, Reload(u, b),
           state' \in [Bookings -> BookingState],
           invoice_button_visible' \in [Bookings -> BOOLEAN],
           maintenance_request_sent' \in [Bookings -> BOOLEAN],
           is_checkin' \in [Bookings -> BOOLEAN]
    PROVE  form' \in [Users -> FormView]
<1>1. [b |-> b, state |-> state'[b], button |-> invoice_button_visible'[b],
       sent |-> maintenance_request_sent'[b], checkin |-> is_checkin'[b]] \in FormView
  BY DEF FormView
<1> QED
  BY <1>1 DEF TypeOK, Reload

(* WriteRooms keeps the types of the room board.                           *)
LEMMA WriteRoomsType ==
    ASSUME TypeOK, NEW b \in Bookings, NEW s \in RoomStatus, WriteRooms(b, s)
    PROVE  /\ status' \in [Rooms -> RoomStatus]
           /\ is_room_avail' \in [Rooms -> BOOLEAN]
BY DEF TypeOK, WriteRooms

LEMMA SetStateType ==
    ASSUME TypeOK, NEW b \in Bookings, NEW s \in BookingState, SetState(b, s)
    PROVE  state' \in [Bookings -> BookingState]
BY DEF TypeOK, SetState

(* What a line still has to be invoiced for is a natural number.           *)
LEMMA DeltaType ==
    ASSUME TypeOK, NEW b \in Bookings, NEW k \in Keys, NEW s \in Slots
    PROVE  /\ LineQty(b, k, s) \in Nat
           /\ get_delta(b, k, s) \in Nat
<1>1. LineQty(b, k, s) \in Nat
  BY DEF TypeOK, LineQty, Keys, Qty, Slots
<1>2. invoiced[b][k][tariff[k]] \in Nat
  BY DEF TypeOK
<1> QED
  BY <1>1, <1>2 DEF get_delta

LEMMA PressType == ASSUME TypeOK, NEW u \in Users, Press(u) PROVE TypeOK'
<1> DEFINE b == form[u].b
<1>1. b \in Bookings
  BY DEF Press, action_reserve, action_checkin, action_cancel, action_checkout,
         action_maintenance_request, action_invoice, action_done, Shows
<1>2. CASE action_reserve(u)
  <2>1. state' \in [Bookings -> BookingState]
    BY <1>1, <1>2, SetStateType DEF action_reserve, AlreadyReserved, BookingState, TypeOK
  <2>2. status' \in [Rooms -> RoomStatus] /\ is_room_avail' \in [Rooms -> BOOLEAN]
    BY <1>1, <1>2, WriteRoomsType
       DEF action_reserve, AlreadyReserved, RoomStatus, TypeOK, roomBoard
  <2>3. form' \in [Users -> FormView]
    BY <1>1, <1>2, <2>1, ReloadType DEF action_reserve, TypeOK, bill, maintenance
  <2> QED
    BY <1>2, <2>1, <2>2, <2>3 DEF action_reserve, TypeOK, folio, maintenance, bill
<1>3. CASE action_checkin(u)
  <2>1. state' \in [Bookings -> BookingState]
    BY <1>1, <1>3, SetStateType DEF action_checkin, BookingState
  <2>2. status' \in [Rooms -> RoomStatus] /\ is_room_avail' \in [Rooms -> BOOLEAN]
    BY <1>1, <1>3, WriteRoomsType DEF action_checkin, RoomStatus
  <2>3. form' \in [Users -> FormView]
    BY <1>1, <1>3, <2>1, ReloadType DEF action_checkin, TypeOK, bill, maintenance
  <2> QED
    BY <1>3, <2>1, <2>2, <2>3 DEF action_checkin, TypeOK, folio, maintenance, bill
<1>4. CASE action_cancel(u)
  <2>1. state' \in [Bookings -> BookingState]
    BY <1>1, <1>4, SetStateType DEF action_cancel, BookingState
  <2>2. status' \in [Rooms -> RoomStatus] /\ is_room_avail' \in [Rooms -> BOOLEAN]
    BY <1>1, <1>4, WriteRoomsType DEF action_cancel, RoomStatus
  <2>3. form' \in [Users -> FormView]
    BY <1>1, <1>4, <2>1, ReloadType DEF action_cancel, TypeOK, bill, maintenance
  <2> QED
    BY <1>4, <2>1, <2>2, <2>3 DEF action_cancel, TypeOK, folio, maintenance, bill
<1>5. CASE action_checkout(u)
  <2>1. state' \in [Bookings -> BookingState]
    BY <1>1, <1>5, SetStateType DEF action_checkout, BookingState
  <2>2. status' \in [Rooms -> RoomStatus] /\ is_room_avail' \in [Rooms -> BOOLEAN]
    BY <1>1, <1>5, WriteRoomsType DEF action_checkout, RoomStatus
  <2>3. form' \in [Users -> FormView]
    BY <1>1, <1>5, <2>1, ReloadType DEF action_checkout, TypeOK, bill, maintenance
  <2> QED
    BY <1>5, <2>1, <2>2, <2>3 DEF action_checkout, TypeOK, folio, maintenance, bill
<1>6. CASE action_maintenance_request(u)
  <2>1. /\ requests' \in [Bookings -> Nat]
        /\ maintenance_request_sent' \in [Bookings -> BOOLEAN]
    BY <1>1, <1>6 DEF action_maintenance_request, TypeOK
  <2>2. form' \in [Users -> FormView]
    BY <1>1, <1>6, <2>1, ReloadType DEF action_maintenance_request, TypeOK, bill
  <2> QED
    BY <1>6, <2>1, <2>2 DEF action_maintenance_request, TypeOK, folio, bill, roomBoard
<1>7. CASE action_invoice(u)
  <2>1. /\ move_ref' \in [Moves -> Bookings \cup {NoBooking}]
        /\ payment_state' \in [Moves -> PaymentState]
    BY <1>1, <1>7 DEF action_invoice, TypeOK, PaymentState
  <2>2. invoiced' \in [Bookings -> [Keys -> [Prices -> Nat]]]
    <3> DEFINE new == [k \in Keys |-> [p \in Prices |->
                         IF p = tariff[k]
                         THEN invoiced[b][k][p] + get_delta(b, k, 1) + get_delta(b, k, 2)
                         ELSE invoiced[b][k][p]]]
    <3>1. \A k \in Keys : get_delta(b, k, 1) \in Nat /\ get_delta(b, k, 2) \in Nat
      BY <1>1, DeltaType DEF Slots
    <3>2. \A k \in Keys, p \in Prices : invoiced[b][k][p] \in Nat
      BY <1>1 DEF TypeOK
    <3>3. new \in [Keys -> [Prices -> Nat]]
      BY <3>1, <3>2
    <3>4. invoiced' = [invoiced EXCEPT ![b] = new]
      BY <1>7 DEF action_invoice, AddToInvoiced
    <3> HIDE DEF new, b
    <3> QED
      BY <1>1, <3>3, <3>4 DEF TypeOK
  <2>3. /\ invoice_status' \in [Bookings -> {"no_invoice", "invoiced"}]
        /\ invoice_button_visible' \in [Bookings -> BOOLEAN]
    BY <1>1, <1>7 DEF action_invoice, TypeOK
  <2>4. form' \in [Users -> FormView]
    BY <1>1, <1>7, <2>3, ReloadType DEF action_invoice, TypeOK, maintenance
  <2> QED
    BY <1>7, <2>1, <2>2, <2>3, <2>4
       DEF action_invoice, TypeOK, folio, maintenance, roomBoard
<1>8. CASE action_done(u)
  <2>1. state' \in [Bookings -> BookingState]
    BY <1>1, <1>8, SetStateType DEF action_done, BookingState
  <2>2. is_checkin' \in [Bookings -> BOOLEAN]
    BY <1>1, <1>8 DEF action_done, TypeOK
  <2>3. form' \in [Users -> FormView]
    BY <1>1, <1>8, <2>1, <2>2, ReloadType DEF action_done, TypeOK, bill, maintenance
  <2> QED
    BY <1>8, <2>1, <2>2, <2>3 DEF action_done, TypeOK, folio, maintenance, bill, roomBoard
<1> QED
  BY <1>2, <1>3, <1>4, <1>5, <1>6, <1>7, <1>8 DEF Press

(* Every edit saves the form in the same way.                              *)
LEMMA SaveLinesType ==
    ASSUME TypeOK, NEW u \in Users, NEW changed, SaveLines(u, changed)
    PROVE  /\ form[u].b \in Bookings
           /\ invoice_button_visible' \in [Bookings -> BOOLEAN]
           /\ form' \in [Users -> FormView]
<1>1. form[u].b \in Bookings
  BY DEF SaveLines
<1>2. invoice_button_visible' \in [Bookings -> BOOLEAN]
  BY <1>1 DEF SaveLines, _onchange_room_line_ids, TypeOK
<1> QED
  BY <1>1, <1>2, ReloadType DEF SaveLines, TypeOK, maintenance

LEMMA EditType ==
    ASSUME TypeOK, NEW u \in Users, EditRooms(u) \/ EditOther(u)
    PROVE  TypeOK'
<1> DEFINE b == form[u].b
<1>1. PICK changed : SaveLines(u, changed)
  BY DEF EditRooms, EditOther, AddRoom, RemoveRoom, SetDates, ToggleNeed, OrderItem
<1>2. b \in Bookings
  BY <1>1, SaveLinesType
<1>3. room_line_ids' \in [Bookings -> SUBSET Rooms]
  <2>1. ASSUME NEW r \in Rooms, AddRoom(u, r) \/ RemoveRoom(u, r)
        PROVE  room_line_ids' \in [Bookings -> SUBSET Rooms]
    <3>1. /\ room_line_ids[b] \cup {r} \in SUBSET Rooms
          /\ room_line_ids[b] \ {r} \in SUBSET Rooms
      BY <1>2 DEF TypeOK
    <3> QED
      BY <1>2, <2>1, <3>1 DEF AddRoom, RemoveRoom, TypeOK
  <2>2. CASE EditOther(u)
    BY <2>2 DEF EditOther, SetDates, ToggleNeed, OrderItem, TypeOK
  <2> QED
    BY <2>1, <2>2 DEF EditRooms
<1>4. duration' \in [Bookings -> Qty]
  BY <1>2 DEF EditRooms, EditOther, AddRoom, RemoveRoom, SetDates, ToggleNeed, OrderItem,
              TypeOK
<1>5. /\ need' \in [Bookings -> [Items -> BOOLEAN]]
      /\ order' \in [Bookings -> [Items -> [Slots -> Qty]]]
  <2>1. CASE EditRooms(u) \/ \E d \in Qty : SetDates(u, d)
    BY <2>1 DEF EditRooms, AddRoom, RemoveRoom, SetDates, TypeOK
  <2>2. ASSUME NEW i \in Items, ToggleNeed(u, i)
        PROVE  <1>5!1 /\ <1>5!2
    <3>1. need' \in [Bookings -> [Items -> BOOLEAN]]
      BY <1>2, <2>2 DEF ToggleNeed, TypeOK
    <3>2. [s \in Slots |-> 0] \in [Slots -> Qty]
      BY DEF Qty
    <3>3. order' \in [Bookings -> [Items -> [Slots -> Qty]]]
      BY <1>2, <2>2, <3>2 DEF ToggleNeed, TypeOK
    <3> QED
      BY <3>1, <3>3
  <2>3. ASSUME NEW i \in Items, NEW s \in Slots, NEW q \in Qty, OrderItem(u, i, s, q)
        PROVE  <1>5!1 /\ <1>5!2
    BY <1>2, <2>3 DEF OrderItem, TypeOK
  <2> QED
    BY <2>1, <2>2, <2>3 DEF EditOther
<1>6. /\ invoice_button_visible' \in [Bookings -> BOOLEAN]
      /\ form' \in [Users -> FormView]
  BY <1>1, SaveLinesType
<1>7. UNCHANGED <<state, is_checkin, maintenance_request_sent, requests, invoice_status,
                  tariff, invoiced, move_ref, payment_state, status, is_room_avail>>
  BY <1>1 DEF SaveLines, maintenance, roomBoard
<1> QED
  BY <1>3, <1>4, <1>5, <1>6, <1>7 DEF TypeOK

LEMMA AccountingType == ASSUME TypeOK, Accounting PROVE TypeOK'
<1>1. ASSUME NEW m \in Moves, RegisterPayment(m) PROVE TypeOK'
  BY <1>1 DEF RegisterPayment, TypeOK, PaymentState, folio, maintenance, roomBoard
<1>2. ASSUME NEW i \in Items, ChangePrice(i) PROVE TypeOK'
  <2>1. PICK p \in Prices : tariff' = [tariff EXCEPT ![i] = p]
    BY <1>2 DEF ChangePrice
  <2>2. tariff' \in [Keys -> Prices]
    BY <2>1 DEF TypeOK
  <2> QED
    BY <1>2, <2>2 DEF ChangePrice, TypeOK, folio, maintenance, roomBoard
<1> QED
  BY <1>1, <1>2 DEF Accounting

LEMMA OpenFormType ==
    ASSUME TypeOK, NEW u \in Users, NEW b \in Bookings, OpenForm(u, b) PROVE TypeOK'
<1>1. Snapshot(b) \in FormView
  BY DEF TypeOK, Snapshot, FormView
<1> QED
  BY <1>1 DEF OpenForm, TypeOK, folio, maintenance, bill, roomBoard

LEMMA TypeStep == TypeOK /\ [Next]_vars => TypeOK'
<1> SUFFICES ASSUME TypeOK, [Next]_vars PROVE TypeOK'
  OBVIOUS
<1>1. CASE UNCHANGED vars
  BY <1>1 DEF vars, TypeOK, folio, maintenance, bill, roomBoard
<1>2. CASE Next
  BY <1>2, OpenFormType, PressType, EditType, AccountingType DEF Next
<1> QED
  BY <1>1, <1>2

(* Whatever the clerks do, on fresh or stale forms, every field keeps its  *)
(* type.                                                                   *)
THEOREM TypeCorrect == Spec => []TypeOK
<1> QED
  BY TypeInit, TypeStep, PTL DEF Spec
-----------------------------------------------------------------------------
(* The two availability fields                                             *)

LEMMA AvailWrite ==
    ASSUME TypeOK, AvailAgrees, NEW b \in Bookings, NEW s, WriteRooms(b, s)
    PROVE  AvailAgrees'
BY DEF AvailAgrees, WriteRooms, TypeOK

LEMMA AvailStep == TypeOK /\ AvailAgrees /\ [Next]_vars => AvailAgrees'
<1> SUFFICES ASSUME TypeOK, AvailAgrees, [Next]_vars PROVE AvailAgrees'
  OBVIOUS
<1>1. CASE UNCHANGED roomBoard
  BY <1>1 DEF AvailAgrees, roomBoard
<1>2. ASSUME NEW u \in Users, Press(u) PROVE AvailAgrees'
  <2>1. form[u].b \in Bookings
    BY <1>2 DEF Press, action_reserve, action_checkin, action_cancel, action_checkout,
                action_maintenance_request, action_invoice, action_done, Shows
  <2>2. UNCHANGED roomBoard \/ \E s : WriteRooms(form[u].b, s)
    BY <1>2 DEF Press, action_reserve, AlreadyReserved, action_checkin, action_cancel,
                action_checkout, action_maintenance_request, action_invoice, action_done
  <2> QED
    BY <1>1, <2>1, <2>2, AvailWrite
<1>3. ASSUME NEW u \in Users, EditRooms(u) \/ EditOther(u) PROVE UNCHANGED roomBoard
  BY <1>3 DEF EditRooms, EditOther, AddRoom, RemoveRoom, SetDates, ToggleNeed, OrderItem,
              SaveLines
<1>4. CASE Accounting
  BY <1>1, <1>4 DEF Accounting, RegisterPayment, ChangePrice
<1>5. ASSUME NEW u \in Users, NEW b \in Bookings, OpenForm(u, b) PROVE AvailAgrees'
  BY <1>1, <1>5 DEF OpenForm
<1>6. CASE UNCHANGED vars
  BY <1>1, <1>6 DEF vars
<1> QED
  BY <1>1, <1>2, <1>3, <1>4, <1>5, <1>6 DEF Next

(* is_room_avail and status of a room agree in every reachable state, also *)
(* when clerks press buttons of stale forms (all four room-writing         *)
(* methods).                                                               *)
THEOREM AvailabilityAgrees == Spec => []AvailAgrees
<1>1. Init => AvailAgrees
  BY DEF Init, AvailAgrees
<1> QED
  BY <1>1, TypeCorrect, AvailStep, PTL DEF Spec
-----------------------------------------------------------------------------
(* Invoicing                                                               *)

LEMMA OnlyInvoicing ==
    ASSUME [Next]_vars
    PROVE  UNCHANGED invoiced \/ \E u \in Users : action_invoice(u)
<1>1. ASSUME NEW u \in Users, Press(u) PROVE UNCHANGED invoiced \/ action_invoice(u)
  BY <1>1 DEF Press, action_reserve, action_checkin, action_cancel, action_checkout,
              action_maintenance_request, action_done, bill
<1>2. ASSUME NEW u \in Users, EditRooms(u) \/ EditOther(u) PROVE UNCHANGED invoiced
  BY <1>2 DEF EditRooms, EditOther, AddRoom, RemoveRoom, SetDates, ToggleNeed, OrderItem,
              SaveLines
<1>3. CASE Accounting
  BY <1>3 DEF Accounting, RegisterPayment, ChangePrice
<1>4. ASSUME NEW u \in Users, NEW b \in Bookings, OpenForm(u, b) PROVE UNCHANGED invoiced
  BY <1>4 DEF OpenForm, bill
<1>5. CASE UNCHANGED vars
  BY <1>5 DEF vars, bill
<1> QED
  BY <1>1, <1>2, <1>3, <1>4, <1>5 DEF Next

(* What get_delta adds for the two lines of a product stays within the two *)
(* lines together.                                                         *)
LEMMA DeltaBound ==
    ASSUME TypeOK, NEW b \in Bookings, NEW k \in Keys,
           get_delta(b, k, 1) + get_delta(b, k, 2) > 0
    PROVE  invoiced[b][k][tariff[k]] + get_delta(b, k, 1) + get_delta(b, k, 2)
                <= Booked(b, k)
<1>1. LineQty(b, k, 1) \in Nat /\ LineQty(b, k, 2) \in Nat
  BY DeltaType DEF Slots
<1>2. invoiced[b][k][tariff[k]] \in Nat
  BY DEF TypeOK
<1> QED
  BY <1>1, <1>2 DEF get_delta, Booked

LEMMA InvoiceStep == TypeOK /\ [Next]_vars => InvoicesAtMostBooked
<1> SUFFICES ASSUME TypeOK, [Next]_vars,
                    NEW c \in Bookings, NEW k \in Keys, NEW p \in Prices,
                    invoiced'[c][k][p] > invoiced[c][k][p]
             PROVE  invoiced'[c][k][p] <= Booked(c, k)
  BY DEF InvoicesAtMostBooked
<1>1. invoiced[c][k][p] \in Nat
  BY DEF TypeOK
<1>2. PICK u \in Users : action_invoice(u)
  BY <1>1, OnlyInvoicing
<1> DEFINE b == form[u].b
<1>3. b \in Bookings
  BY <1>2 DEF action_invoice, Shows
<1>4. invoiced' = [invoiced EXCEPT ![b] =
          [j \in Keys |-> [q \in Prices |->
              IF q = tariff[j]
              THEN invoiced[b][j][q] + get_delta(b, j, 1) + get_delta(b, j, 2)
              ELSE invoiced[b][j][q]]]]
  BY <1>2 DEF action_invoice, AddToInvoiced
<1>5. get_delta(c, k, 1) \in Nat /\ get_delta(c, k, 2) \in Nat
  BY DeltaType DEF Slots
<1> HIDE DEF b
<1>6. c = b /\ p = tariff[k]
  BY <1>1, <1>3, <1>4 DEF TypeOK
<1>7. invoiced'[c][k][p]
        = invoiced[c][k][tariff[k]] + get_delta(c, k, 1) + get_delta(c, k, 2)
  BY <1>3, <1>4, <1>6 DEF TypeOK
<1>8. get_delta(c, k, 1) + get_delta(c, k, 2) > 0
  BY <1>1, <1>5, <1>6, <1>7
<1> QED
  BY <1>7, <1>8, DeltaBound

(* However the buttons, edits, payments and price changes interleave, an   *)
(* invoice never takes what was invoiced of a product at a price beyond    *)
(* what the folio books of it (action_invoice, get_delta).                 *)
THEOREM InvoicesWithinFolio == Spec => NoOverInvoicing
<1> QED
  BY TypeCorrect, InvoiceStep, PTL DEF Spec, NoOverInvoicing
-----------------------------------------------------------------------------
(***************************************************************************)
(* What the house rules buy: the room board is exact, a done folio stays   *)
(* settled, and the booking code implements RoomLedger.                    *)
(***************************************************************************)

LEMMA HouseIsNext == HouseNext => Next
BY DEF HouseNext, Next, HouseEditRooms, EditRooms

LEMMA HouseTypeCorrect == HouseSpec => []TypeOK
<1>1. TypeOK /\ [HouseNext]_vars => TypeOK'
  BY HouseIsNext, TypeStep
<1> QED
  BY <1>1, TypeInit, PTL DEF HouseSpec

(* Edits other than of rooms leave states, room lines and the board alone. *)
LEMMA EditOtherFrame ==
    ASSUME NEW u \in Users, EditOther(u)
    PROVE  UNCHANGED <<state, room_line_ids, roomBoard, move_ref, payment_state>>
BY DEF EditOther, SetDates, ToggleNeed, OrderItem, SaveLines

(* A fresh form shows the state of its folio.                              *)
LEMMA FreshShows ==
    ASSUME NEW u \in Users, Fresh(u)
    PROVE  /\ form[u].b \in Bookings
           /\ form[u].state = state[form[u].b]
           /\ form[u].button = invoice_button_visible[form[u].b]
<1>1. form[u].b \in Bookings /\ form[u] = Snapshot(form[u].b)
  BY DEF Fresh
<1>2. Snapshot(form[u].b).state = state[form[u].b]
      /\ Snapshot(form[u].b).button = invoice_button_visible[form[u].b]
  BY DEF Snapshot
<1> QED
  BY <1>1, <1>2

(* A step moves the folio of b from an open state to s and shows its rooms *)
(* accordingly.                                                            *)
MovesFolio(b, s) ==
    /\ state[b] \in OpenStates
    /\ SetState(b, s)
    /\ WriteRooms(b, ShownAs(s))
    /\ UNCHANGED room_line_ids

LEMMA OpenMovesKeepBoard ==
    ASSUME TypeOK, RoomBoardExact, NEW b \in Bookings, NEW s \in BookingState, MovesFolio(b, s)
    PROVE  RoomBoardExact'
<1>1. \A c \in Bookings : state'[c] = IF c = b THEN s ELSE state[c]
  BY DEF MovesFolio, SetState, TypeOK
<1>2. \A r \in Rooms : status'[r] = IF r \in room_line_ids[b] THEN ShownAs(s) ELSE status[r]
  BY DEF MovesFolio, WriteRooms
<1>3. room_line_ids' = room_line_ids /\ state[b] \in OpenStates
  BY DEF MovesFolio
<1>4. ExclusiveRooms'
  BY <1>1, <1>3 DEF RoomBoardExact, ExclusiveRooms
<1>5. ListedRoomsShown'
  <2> SUFFICES ASSUME NEW c \in Bookings, NEW r \in Rooms,
                      state'[c] \in OpenStates, r \in room_line_ids[c]
               PROVE  status'[r] = ShownAs(state'[c])
    BY <1>3 DEF ListedRoomsShown, ShownAs
  <2>1. CASE c = b
    BY <1>1, <1>2, <2>1
  <2>2. CASE c # b
    <3>1. state[c] \in OpenStates /\ state'[c] = state[c]
      BY <1>1, <2>2
    <3>2. r \notin room_line_ids[b]
      BY <1>3, <2>2, <3>1 DEF RoomBoardExact, ExclusiveRooms
    <3> QED
      BY <1>2, <3>1, <3>2 DEF RoomBoardExact, ListedRoomsShown
  <2> QED
    BY <2>1, <2>2
<1>6. FreeRoomsAvailable'
  <2> SUFFICES ASSUME NEW r \in Rooms,
                      \A c \in Bookings : state'[c] \in OpenStates => r \notin room_line_ids[c]
               PROVE  status'[r] = "available"
    BY <1>3 DEF FreeRoomsAvailable, RoomIsFree
  <2>1. CASE r \in room_line_ids[b]
    <3>1. s \notin OpenStates
      BY <1>1, <2>1
    <3> QED
      BY <1>2, <2>1, <3>1 DEF ShownAs, OpenStates
  <2>2. CASE r \notin room_line_ids[b]
    <3>1. RoomIsFree(r)
      BY <1>1, <2>2 DEF RoomIsFree
    <3> QED
      BY <1>2, <2>2, <3>1 DEF RoomBoardExact, FreeRoomsAvailable
  <2> QED
    BY <2>1, <2>2
<1> QED
  BY <1>4, <1>5, <1>6 DEF RoomBoardExact

(* The buttons on a fresh form: four move an open folio, the others leave  *)
(* the board alone and open states open.                                   *)
LEMMA FreshPress ==
    ASSUME TypeOK, NEW u \in Users, Fresh(u), Press(u)
    PROVE  \/ action_reserve(u) /\ MovesFolio(form[u].b, "reserved")
           \/ action_checkin(u) /\ MovesFolio(form[u].b, "check_in")
           \/ action_cancel(u) /\ MovesFolio(form[u].b, "cancel")
           \/ action_checkout(u) /\ MovesFolio(form[u].b, "check_out")
           \/ /\ action_done(u) /\ UNCHANGED <<room_line_ids, roomBoard>>
              /\ state[form[u].b] = "check_out" /\ SetState(form[u].b, "done")
           \/ /\ action_invoice(u) \/ action_maintenance_request(u)
              /\ UNCHANGED <<state, room_line_ids, roomBoard>>
<1> DEFINE b == form[u].b
<1>1. b \in Bookings /\ form[u].state = state[b]
  BY FreshShows
<1>2. ASSUME action_reserve(u) PROVE MovesFolio(b, "reserved")
  <2>1. state[b] = "draft"
    BY <1>1, <1>2 DEF action_reserve, Shows
  <2> QED
    BY <1>2, <2>1 DEF action_reserve, AlreadyReserved, MovesFolio, OpenStates, ShownAs, folio
<1>3. ASSUME action_checkin(u) PROVE MovesFolio(b, "check_in")
  BY <1>1, <1>3 DEF action_checkin, Shows, MovesFolio, OpenStates, ShownAs, folio
<1>4. ASSUME action_cancel(u) PROVE MovesFolio(b, "cancel")
  BY <1>1, <1>4 DEF action_cancel, Shows, MovesFolio, OpenStates, ShownAs, folio
<1>5. ASSUME action_checkout(u) PROVE MovesFolio(b, "check_out")
  BY <1>1, <1>5 DEF action_checkout, Shows, MovesFolio, OpenStates, ShownAs, folio
<1>6. ASSUME action_done(u)
      PROVE  /\ UNCHANGED <<room_line_ids, roomBoard>>
             /\ state[b] = "check_out" /\ SetState(b, "done")
  BY <1>1, <1>6 DEF action_done, Shows, folio
<1>7. ASSUME action_invoice(u) \/ action_maintenance_request(u)
      PROVE  UNCHANGED <<state, room_line_ids, roomBoard>>
  BY <1>7 DEF action_invoice, action_maintenance_request, folio
<1> QED
  BY <1>2, <1>3, <1>4, <1>5, <1>6, <1>7 DEF Press

LEMMA BoardStep == TypeOK /\ RoomBoardExact /\ [HouseNext]_vars => RoomBoardExact'
<1> SUFFICES ASSUME TypeOK, RoomBoardExact, [HouseNext]_vars PROVE RoomBoardExact'
  OBVIOUS
<1>1. CASE UNCHANGED <<state, room_line_ids, roomBoard>>
  BY <1>1 DEF RoomBoardExact, ExclusiveRooms, ListedRoomsShown, FreeRoomsAvailable,
              RoomIsFree, ShownAs, roomBoard
<1>2. ASSUME NEW u \in Users, Fresh(u), Press(u) PROVE RoomBoardExact'
  <2> DEFINE b == form[u].b
  <2>1. b \in Bookings
    BY <1>2, FreshShows
  <2>2. ASSUME NEW s \in BookingState, MovesFolio(b, s) PROVE RoomBoardExact'
    BY <2>1, <2>2, OpenMovesKeepBoard
  <2>3. CASE /\ UNCHANGED <<room_line_ids, roomBoard>>
             /\ state[b] = "check_out" /\ SetState(b, "done")
    <3>1. \A c \in Bookings : state'[c] \in OpenStates <=> state[c] \in OpenStates
      BY <2>1, <2>3 DEF SetState, TypeOK, OpenStates
    <3>2. \A c \in Bookings : state'[c] \in OpenStates => state'[c] = state[c]
      BY <2>1, <2>3 DEF SetState, TypeOK, OpenStates
    <3>3. room_line_ids' = room_line_ids /\ status' = status
      BY <2>3 DEF roomBoard
    <3> QED
      BY <3>1, <3>2, <3>3
         DEF RoomBoardExact, ExclusiveRooms, ListedRoomsShown, FreeRoomsAvailable,
             RoomIsFree, ShownAs
  <2>4. {"reserved", "check_in", "cancel", "check_out"} \subseteq BookingState
    BY DEF BookingState
  <2> HIDE DEF b
  <2> QED
    BY <1>1, <1>2, <2>2, <2>3, <2>4, FreshPress DEF b
<1>3. ASSUME NEW u \in Users, Fresh(u), HouseEditRooms(u) PROVE RoomBoardExact'
  <2> DEFINE b == form[u].b
  <2>1. b \in Bookings /\ state[b] = "draft"
    BY <1>3, FreshShows DEF HouseEditRooms, Shows
  <2>2. state' = state /\ status' = status
    BY <1>3 DEF HouseEditRooms, AddRoom, RemoveRoom, SaveLines, roomBoard
  <2>3. ASSUME NEW r \in Rooms, RoomIsFree(r), AddRoom(u, r) PROVE RoomBoardExact'
    <3>1. \A c \in Bookings : room_line_ids'[c] =
              IF c = b THEN room_line_ids[b] \cup {r} ELSE room_line_ids[c]
      BY <2>1, <2>3 DEF AddRoom, TypeOK
    <3>2. status[r] = "available"
      BY <2>3 DEF RoomBoardExact, FreeRoomsAvailable
    <3>3. ExclusiveRooms'
      BY <2>2, <2>3, <3>1 DEF RoomBoardExact, ExclusiveRooms, RoomIsFree
    <3>4. ListedRoomsShown'
      BY <2>1, <2>2, <3>1, <3>2 DEF RoomBoardExact, ListedRoomsShown, ShownAs
    <3>5. FreeRoomsAvailable'
      BY <2>2, <3>1 DEF RoomBoardExact, FreeRoomsAvailable, RoomIsFree
    <3> QED
      BY <3>3, <3>4, <3>5 DEF RoomBoardExact
  <2>4. ASSUME NEW r \in Rooms, RemoveRoom(u, r) PROVE RoomBoardExact'
    <3>1. \A c \in Bookings : room_line_ids'[c] =
              IF c = b THEN room_line_ids[b] \ {r} ELSE room_line_ids[c]
      BY <2>1, <2>4 DEF RemoveRoom, TypeOK
    <3>2. status[r] = "available"
      <4>1. r \in room_line_ids[b]
        BY <2>4 DEF RemoveRoom
      <4> QED
        BY <2>1, <4>1 DEF RoomBoardExact, ListedRoomsShown, ShownAs, OpenStates
    <3>3. ExclusiveRooms'
      BY <2>2, <3>1 DEF RoomBoardExact, ExclusiveRooms
    <3>4. ListedRoomsShown'
      BY <2>2, <3>1 DEF RoomBoardExact, ListedRoomsShown, ShownAs
    <3>5. FreeRoomsAvailable'
      BY <2>1, <2>2, <3>1, <3>2 DEF RoomBoardExact, FreeRoomsAvailable, RoomIsFree
    <3> QED
      BY <3>3, <3>4, <3>5 DEF RoomBoardExact
  <2> QED
    BY <1>3, <2>3, <2>4 DEF HouseEditRooms
<1>4. ASSUME NEW u \in Users, EditOther(u) PROVE RoomBoardExact'
  BY <1>1, <1>4, EditOtherFrame
<1>5. CASE Accounting
  BY <1>1, <1>5 DEF Accounting, RegisterPayment, ChangePrice, folio
<1>6. ASSUME NEW u \in Users, NEW b \in Bookings, OpenForm(u, b) PROVE RoomBoardExact'
  BY <1>1, <1>6 DEF OpenForm, folio
<1>7. CASE UNCHANGED vars
  BY <1>1, <1>7 DEF vars, folio
<1> QED
  BY <1>2, <1>3, <1>4, <1>5, <1>6, <1>7 DEF HouseNext

(* Under the house rules the dashboard's room statuses are exactly what    *)
(* the open folios say, and no two open folios share a room.               *)
THEOREM BoardExact == HouseSpec => []RoomBoardExact
<1>1. Init => RoomBoardExact
  BY DEF Init, RoomBoardExact, ExclusiveRooms, ListedRoomsShown, FreeRoomsAvailable,
         ShownAs, OpenStates
<1> QED
  BY <1>1, HouseTypeCorrect, BoardStep, PTL DEF HouseSpec
-----------------------------------------------------------------------------
(* A done folio stays settled                                              *)

LEMMA SettledStep == TypeOK /\ DoneIsSettled /\ [HouseNext]_vars => DoneIsSettled'
<1> SUFFICES ASSUME TypeOK, DoneIsSettled, [HouseNext]_vars,
                    NEW c \in Bookings, state'[c] = "done",
                    NEW m \in Moves, move_ref'[m] = c
             PROVE  payment_state'[m] # "not_paid"
  BY DEF DoneIsSettled, UnpaidMoves, MovesOf
<1>1. CASE /\ state[c] = "done"
           /\ UNCHANGED <<move_ref, payment_state>>
  BY <1>1 DEF DoneIsSettled, UnpaidMoves, MovesOf
<1>2. ASSUME NEW u \in Users, Fresh(u), Press(u) PROVE payment_state'[m] # "not_paid"
  <2> DEFINE b == form[u].b
  <2>1. b \in Bookings /\ form[u].state = state[b]
    BY <1>2, FreshShows
  <2>2. ASSUME NEW s \in {"reserved", "check_in", "cancel", "check_out"}, SetState(b, s)
        PROVE  state[c] = "done"
    BY <2>1, <2>2 DEF SetState, TypeOK
  <2>3. CASE action_reserve(u) \/ action_checkin(u) \/ action_cancel(u) \/ action_checkout(u)
    <3>1. state[c] = "done"
      BY <2>2, <2>3 DEF action_reserve, AlreadyReserved, action_checkin, action_cancel,
                        action_checkout
    <3>2. UNCHANGED <<move_ref, payment_state>>
      BY <2>3 DEF action_reserve, action_checkin, action_cancel, action_checkout, bill
    <3> QED
      BY <1>1, <3>1, <3>2
  <2>4. CASE action_maintenance_request(u)
    BY <1>1, <2>4 DEF action_maintenance_request, bill
  <2>5. CASE action_invoice(u)
    <3>1. state[c] = "done" /\ c # b
      BY <2>1, <2>5 DEF action_invoice, Shows
    <3>2. PICK n \in Moves : /\ move_ref' = [move_ref EXCEPT ![n] = b]
                             /\ payment_state' = [payment_state EXCEPT ![n] = "not_paid"]
      BY <2>5 DEF action_invoice
    <3>3. n # m
      BY <3>1, <3>2 DEF TypeOK
    <3> QED
      BY <3>1, <3>2, <3>3 DEF TypeOK, DoneIsSettled, UnpaidMoves, MovesOf
  <2>6. CASE action_done(u)
    <3>1. UNCHANGED <<move_ref, payment_state>> /\ UnpaidMoves(b) = {} /\ SetState(b, "done")
      BY <2>6 DEF action_done, bill
    <3>2. CASE c = b
      BY <3>1, <3>2 DEF UnpaidMoves, MovesOf
    <3>3. CASE c # b
      BY <1>1, <2>1, <3>1, <3>3 DEF SetState, TypeOK
    <3> QED
      BY <3>2, <3>3
  <2> QED
    BY <1>2, <2>3, <2>4, <2>5, <2>6 DEF Press
<1>3. ASSUME NEW u \in Users, HouseEditRooms(u) \/ EditOther(u)
      PROVE  payment_state'[m] # "not_paid"
  BY <1>1, <1>3, EditOtherFrame DEF HouseEditRooms, AddRoom, RemoveRoom, SaveLines
<1>4. CASE Accounting
  BY <1>1, <1>4 DEF Accounting, RegisterPayment, ChangePrice, TypeOK, DoneIsSettled,
                    UnpaidMoves, MovesOf
<1>5. ASSUME NEW u \in Users, NEW b \in Bookings, OpenForm(u, b)
      PROVE  payment_state'[m] # "not_paid"
  BY <1>1, <1>5 DEF OpenForm, bill
<1>6. CASE UNCHANGED vars
  BY <1>1, <1>6 DEF vars, bill
<1> QED
  BY <1>2, <1>3, <1>4, <1>5, <1>6 DEF HouseNext

(* Under the house rules action_done's check for unpaid invoices holds     *)
(* for good: no invoice of a done folio is ever unpaid.                    *)
THEOREM DoneStaysSettled == HouseSpec => []DoneIsSettled
<1>1. Init => DoneIsSettled
  BY DEF Init, DoneIsSettled
<1> QED
  BY <1>1, HouseTypeCorrect, SettledStep, PTL DEF HouseSpec
-----------------------------------------------------------------------------
(* Closed folios                                                           *)

LEMMA ClosedStep == TypeOK /\ [HouseNext]_vars => KeepsClosed
<1> SUFFICES ASSUME TypeOK, [HouseNext]_vars, NEW c \in Bookings
             PROVE  /\ state[c] \in {"cancel", "done"} => state'[c] = state[c]
                    /\ state[c] = "check_out" => state'[c] \in {"check_out", "done"}
  BY DEF KeepsClosed
<1>1. CASE UNCHANGED state
  BY <1>1
<1>2. ASSUME NEW u \in Users, Fresh(u), Press(u)
      PROVE  /\ state[c] \in {"cancel", "done"} => state'[c] = state[c]
             /\ state[c] = "check_out" => state'[c] \in {"check_out", "done"}
  <2> DEFINE b == form[u].b
  <2>1. b \in Bookings
    BY <1>2, FreshShows
  <2>2. ASSUME NEW s, MovesFolio(b, s)
        PROVE  state[c] \in {"cancel", "done", "check_out"} => state'[c] = state[c]
    BY <2>1, <2>2 DEF MovesFolio, SetState, OpenStates, TypeOK
  <2>3. CASE state[b] = "check_out" /\ SetState(b, "done")
    BY <2>1, <2>3 DEF SetState, TypeOK
  <2> HIDE DEF b
  <2> QED
    BY <1>1, <1>2, <2>2, <2>3, FreshPress DEF b
<1>3. ASSUME NEW u \in Users, HouseEditRooms(u) \/ EditOther(u) PROVE UNCHANGED state
  BY <1>3, EditOtherFrame DEF HouseEditRooms, AddRoom, RemoveRoom, SaveLines
<1>4. CASE Accounting
  BY <1>1, <1>4 DEF Accounting, RegisterPayment, ChangePrice
<1>5. ASSUME NEW u \in Users, NEW b \in Bookings, OpenForm(u, b) PROVE UNCHANGED state
  BY <1>5 DEF OpenForm
<1>6. CASE UNCHANGED vars
  BY <1>1, <1>6 DEF vars
<1> QED
  BY <1>1, <1>2, <1>3, <1>4, <1>5, <1>6 DEF HouseNext

(* With fresh forms the "invisible" conditions of the view are enough to   *)
(* keep a cancelled or done folio as it is and a checked-out one from      *)
(* being reopened, although no server method checks for it.                *)
THEOREM ClosedForGood == HouseSpec => ClosedStaysClosed
<1> QED
  BY HouseTypeCorrect, ClosedStep, PTL DEF HouseSpec, ClosedStaysClosed
-----------------------------------------------------------------------------
(* Maintenance requests                                                    *)

LEMMA SentStep == TypeOK /\ RequestSentOnce /\ [HouseNext]_vars => RequestSentOnce'
<1> SUFFICES ASSUME TypeOK, RequestSentOnce, [HouseNext]_vars PROVE RequestSentOnce'
  OBVIOUS
<1>1. CASE UNCHANGED maintenance
  BY <1>1 DEF maintenance, RequestSentOnce
<1>2. ASSUME NEW u \in Users, Fresh(u), action_maintenance_request(u) PROVE RequestSentOnce'
  <2> DEFINE b == form[u].b
  <2>1. b \in Bookings /\ ~maintenance_request_sent[b]
    <3>1. b \in Bookings /\ form[u] = Snapshot(b)
      BY <1>2 DEF Fresh
    <3>2. Snapshot(b).sent = maintenance_request_sent[b]
      BY DEF Snapshot
    <3> QED
      BY <1>2, <3>1, <3>2 DEF action_maintenance_request
  <2>2. requests[b] = 0
    BY <2>1 DEF RequestSentOnce
  <2>3. /\ requests' = [requests EXCEPT ![b] = @ + 1]
        /\ maintenance_request_sent' = [maintenance_request_sent EXCEPT ![b] = TRUE]
    BY <1>2 DEF action_maintenance_request
  <2> HIDE DEF b
  <2>4. \A c \in Bookings : requests'[c] = IF c = b THEN 1 ELSE requests[c]
    BY <2>1, <2>2, <2>3 DEF TypeOK
  <2>5. \A c \in Bookings :
           maintenance_request_sent'[c] = IF c = b THEN TRUE ELSE maintenance_request_sent[c]
    BY <2>1, <2>3 DEF TypeOK
  <2> QED
    BY <2>4, <2>5 DEF RequestSentOnce
<1>3. ASSUME NEW u \in Users, Press(u), ~action_maintenance_request(u)
      PROVE  UNCHANGED maintenance
  BY <1>3 DEF Press, action_reserve, action_checkin, action_cancel, action_checkout,
              action_invoice, action_done
<1>4. ASSUME NEW u \in Users, HouseEditRooms(u) \/ EditOther(u) PROVE UNCHANGED maintenance
  BY <1>4 DEF HouseEditRooms, AddRoom, RemoveRoom, EditOther, SetDates, ToggleNeed,
              OrderItem, SaveLines
<1>5. CASE Accounting
  BY <1>1, <1>5 DEF Accounting, RegisterPayment, ChangePrice
<1>6. ASSUME NEW u \in Users, NEW b \in Bookings, OpenForm(u, b) PROVE UNCHANGED maintenance
  BY <1>6 DEF OpenForm
<1>7. CASE UNCHANGED vars
  BY <1>1, <1>7 DEF vars
<1> QED
  BY <1>1, <1>2, <1>3, <1>4, <1>5, <1>6, <1>7 DEF HouseNext

(* Under the house rules the mark that hides the button is never missing:  *)
(* a folio sends no second maintenance request.                            *)
THEOREM SentOnce == HouseSpec => []RequestSentOnce
<1>1. ASSUME Init PROVE RequestSentOnce
  <2>1. /\ requests = [b \in Bookings |-> 0]
        /\ maintenance_request_sent = [b \in Bookings |-> FALSE]
    BY <1>1 DEF Init
  <2> QED
    BY <2>1 DEF RequestSentOnce
<1> QED
  BY <1>1, HouseTypeCorrect, SentStep, PTL DEF HouseSpec
-----------------------------------------------------------------------------
(* The booking code implements the room ledger                             *)

LEMMA LedgerInit == Init => Ledger!Init
BY DEF Init, Ledger!Init, Holds

LEMMA LedgerStutter ==
    ASSUME UNCHANGED status,
           \A b \in Bookings, r \in Rooms : Holds(b, r)' <=> Holds(b, r)
    PROVE  UNCHANGED Ledger!vars
<1>1. [r \in Rooms |-> {b \in Bookings : Holds(b, r)}]'
        = [r \in Rooms |-> {b \in Bookings : Holds(b, r)}]
  OBVIOUS
<1> QED
  BY <1>1 DEF Ledger!vars

(* An open folio that becomes reserved or checked in takes its rooms.      *)
LEMMA LedgerTake ==
    ASSUME TypeOK, RoomBoardExact, NEW b \in Bookings, NEW s \in {"reserved", "check_in"},
           MovesFolio(b, s), room_line_ids[b] # {}
    PROVE  Ledger!Next
<1> DEFINE S == room_line_ids[b]
           H == [r \in Rooms |-> {c \in Bookings : Holds(c, r)}]
<1>1. \A c \in Bookings : state'[c] = IF c = b THEN s ELSE state[c]
  BY DEF MovesFolio, SetState, TypeOK
<1>2. room_line_ids' = room_line_ids /\ state[b] \in OpenStates /\ S \in SUBSET Rooms
  BY DEF MovesFolio, TypeOK
<1>3. \A r \in S : H[r] \subseteq {b}
  BY <1>2 DEF RoomBoardExact, ExclusiveRooms, Holds, OpenStates
<1>4. \A r \in Rooms \ S : b \notin H[r]
  BY DEF Holds
<1>5. H' = [r \in Rooms |-> IF r \in S THEN {b} ELSE H[r]]
  <2> SUFFICES ASSUME NEW r \in Rooms
               PROVE  {c \in Bookings : Holds(c, r)}' = IF r \in S THEN {b} ELSE H[r]
    OBVIOUS
  <2>1. \A c \in Bookings : Holds(c, r)' <=> IF c = b THEN r \in S ELSE Holds(c, r)
    BY <1>1, <1>2 DEF Holds
  <2> QED
    BY <1>3, <1>4, <2>1
<1>6. status' = [r \in Rooms |-> IF r \in S THEN ShownAs(s) ELSE status[r]]
  BY DEF MovesFolio, WriteRooms
<1>7. ShownAs(s) \in {"reserved", "occupied"}
  BY DEF ShownAs
<1>8. Ledger!Take(b, S, ShownAs(s))
  BY <1>3, <1>4, <1>5, <1>6 DEF Ledger!Take
<1> QED
  BY <1>2, <1>7, <1>8 DEF Ledger!Next

(* A reserved or checked-in folio that closes gives its rooms back; a      *)
(* draft one held none.                                                    *)
LEMMA LedgerRelease ==
    ASSUME TypeOK, RoomBoardExact, NEW b \in Bookings, NEW s \in {"cancel", "check_out"},
           MovesFolio(b, s)
    PROVE  Ledger!Next
<1> DEFINE S == room_line_ids[b]
           H == [r \in Rooms |-> {c \in Bookings : Holds(c, r)}]
<1>1. \A c \in Bookings : state'[c] = IF c = b THEN s ELSE state[c]
  BY DEF MovesFolio, SetState, TypeOK
<1>2. room_line_ids' = room_line_ids /\ state[b] \in OpenStates /\ S \in SUBSET Rooms
  BY DEF MovesFolio, TypeOK
<1>3. H' = [r \in Rooms |-> H[r] \ {b}]
  <2> SUFFICES ASSUME NEW r \in Rooms
               PROVE  {c \in Bookings : Holds(c, r)}' = H[r] \ {b}
    OBVIOUS
  <2>1. \A c \in Bookings : Holds(c, r)' <=> c # b /\ Holds(c, r)
    BY <1>1, <1>2 DEF Holds
  <2> QED
    BY <2>1
<1>4. status' = [r \in Rooms |-> IF r \in S THEN "available" ELSE status[r]]
  BY DEF MovesFolio, WriteRooms, ShownAs
<1>5. status' = [r \in Rooms |-> IF b \in H[r] THEN "available" ELSE status[r]]
  <2>1. CASE state[b] = "draft"
    <3>1. \A r \in S : status[r] = "available"
      BY <1>2, <2>1 DEF RoomBoardExact, ListedRoomsShown, ShownAs
    <3>2. \A r \in Rooms : b \notin H[r]
      BY <2>1 DEF Holds
    <3>3. \A r \in Rooms : (IF r \in S THEN "available" ELSE status[r])
                            = (IF b \in H[r] THEN "available" ELSE status[r])
      BY <3>1, <3>2
    <3> HIDE DEF H, S
    <3> QED
      BY <1>4, <3>3
  <2>2. CASE state[b] # "draft"
    <3>1. \A r \in Rooms : r \in S <=> b \in H[r]
      BY <1>2, <2>2 DEF Holds, OpenStates
    <3> HIDE DEF H, S
    <3> QED
      BY <1>4, <3>1
  <2> QED
    BY <2>1, <2>2
<1>6. Ledger!Release(b)
  BY <1>3, <1>5 DEF Ledger!Release
<1> QED
  BY <1>6 DEF Ledger!Next

LEMMA LedgerStep ==
    TypeOK /\ RoomBoardExact /\ [HouseNext]_vars => [Ledger!Next]_(Ledger!vars)
<1> SUFFICES ASSUME TypeOK, RoomBoardExact, [HouseNext]_vars
             PROVE  Ledger!Next \/ UNCHANGED Ledger!vars
  OBVIOUS
<1>1. CASE UNCHANGED <<state, room_line_ids, roomBoard>>
  BY <1>1, LedgerStutter DEF Holds, roomBoard
<1>2. ASSUME NEW u \in Users, Fresh(u), Press(u) PROVE Ledger!Next \/ UNCHANGED Ledger!vars
  <2> DEFINE b == form[u].b
  <2>1. b \in Bookings
    BY <1>2, FreshShows
  <2>2. CASE \/ action_reserve(u) /\ MovesFolio(b, "reserved")
             \/ action_checkin(u) /\ MovesFolio(b, "check_in")
    <3>1. room_line_ids[b] # {}
      <4>1. CASE action_reserve(u) /\ MovesFolio(b, "reserved")
        <5>1. state[b] = "draft"
          BY <1>2, <4>1, FreshShows DEF action_reserve, Shows
        <5> QED
          BY <4>1, <5>1 DEF action_reserve, AlreadyReserved
      <4>2. CASE action_checkin(u)
        BY <4>2 DEF action_checkin
      <4> QED
        BY <2>2, <4>1, <4>2
    <3> HIDE DEF b
    <3> QED
      BY <2>1, <2>2, <3>1, LedgerTake
  <2>3. CASE MovesFolio(b, "cancel") \/ MovesFolio(b, "check_out")
    BY <2>1, <2>3, LedgerRelease
  <2>4. CASE /\ UNCHANGED <<room_line_ids, roomBoard>>
             /\ state[b] = "check_out" /\ SetState(b, "done")
    <3>1. \A c \in Bookings, r \in Rooms : Holds(c, r)' <=> Holds(c, r)
      BY <2>1, <2>4 DEF SetState, Holds, TypeOK
    <3> QED
      BY <2>4, <3>1, LedgerStutter DEF roomBoard
  <2> QED
    BY <1>1, <1>2, <2>2, <2>3, <2>4, FreshPress
<1>3. ASSUME NEW u \in Users, Fresh(u), HouseEditRooms(u) PROVE UNCHANGED Ledger!vars
  <2> DEFINE b == form[u].b
  <2>1. b \in Bookings /\ state[b] = "draft"
    BY <1>3, FreshShows DEF HouseEditRooms, Shows
  <2>2. state' = state /\ status' = status
    BY <1>3 DEF HouseEditRooms, AddRoom, RemoveRoom, SaveLines, roomBoard
  <2>3. \A c \in Bookings \ {b} : room_line_ids'[c] = room_line_ids[c]
    BY <1>3, <2>1 DEF HouseEditRooms, AddRoom, RemoveRoom, TypeOK
  <2>4. \A c \in Bookings, r \in Rooms : Holds(c, r)' <=> Holds(c, r)
    BY <2>1, <2>2, <2>3 DEF Holds
  <2> QED
    BY <2>2, <2>4, LedgerStutter
<1>4. ASSUME NEW u \in Users, EditOther(u) PROVE UNCHANGED Ledger!vars
  BY <1>1, <1>4, EditOtherFrame, LedgerStutter DEF Holds, roomBoard
<1>5. CASE Accounting
  BY <1>1, <1>5 DEF Accounting, RegisterPayment, ChangePrice, folio
<1>6. ASSUME NEW u \in Users, NEW b \in Bookings, OpenForm(u, b)
      PROVE  Ledger!Next \/ UNCHANGED Ledger!vars
  BY <1>1, <1>6 DEF OpenForm, folio
<1>7. CASE UNCHANGED vars
  BY <1>1, <1>7 DEF vars, folio
<1> QED
  BY <1>2, <1>3, <1>4, <1>5, <1>6, <1>7 DEF HouseNext

(* Under the house rules every step of the booking code is a step of the   *)
(* room ledger or leaves it alone: a room is taken only by its holder or   *)
(* when free, and only its holder gives it back.                           *)
THEOREM ImplementsLedger == HouseSpec => LedgerSpec
<1> QED
  BY LedgerInit, LedgerStep, HouseTypeCorrect, BoardExact, PTL
     DEF HouseSpec, LedgerSpec, Ledger!Spec

(* The ledger's promise, of the booking code under the house rules: a room *)
(* has at most one holder and is shown available exactly when it has none. *)
THEOREM OneHolderPerRoom == HouseSpec => []Ledger!OneHolder
<1>1. TypeOK /\ RoomBoardExact => Ledger!OneHolder
  <2> SUFFICES ASSUME TypeOK, RoomBoardExact, NEW r \in Rooms
               PROVE  /\ \A b, c \in Bookings : Holds(b, r) /\ Holds(c, r) => b = c
                      /\ status[r] = "available" <=> \A b \in Bookings : ~Holds(b, r)
    BY DEF Ledger!OneHolder
  <2>1. \A b, c \in Bookings : Holds(b, r) /\ Holds(c, r) => b = c
    BY DEF RoomBoardExact, ExclusiveRooms, Holds, OpenStates
  <2>2. ASSUME NEW b \in Bookings, Holds(b, r) PROVE status[r] # "available"
    BY <2>2 DEF RoomBoardExact, ListedRoomsShown, Holds, OpenStates, ShownAs
  <2>3. ASSUME \A b \in Bookings : ~Holds(b, r) PROVE status[r] = "available"
    <3>1. CASE RoomIsFree(r)
      BY <3>1 DEF RoomBoardExact, FreeRoomsAvailable
    <3>2. CASE ~RoomIsFree(r)
      <4>1. PICK b \in Bookings : state[b] \in OpenStates /\ r \in room_line_ids[b]
        BY <3>2 DEF RoomIsFree
      <4>2. state[b] = "draft"
        BY <2>3, <4>1 DEF Holds, OpenStates
      <4> QED
        BY <4>1, <4>2 DEF RoomBoardExact, ListedRoomsShown, ShownAs
    <3> QED
      BY <3>1, <3>2
  <2> QED
    BY <2>1, <2>2, <2>3
<1> QED
  BY <1>1, HouseTypeCorrect, BoardExact, PTL
=============================================================================
