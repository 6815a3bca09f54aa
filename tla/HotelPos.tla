------------------------------ MODULE HotelPos ------------------------------
(***************************************************************************)
(* Restaurant orders charged to a room (hotel_pos_extension).  Tills hold  *)
(* copies of an order; the room chosen for it is kept in a till's own      *)
(* memory and travels in what the till sends, never in what another till   *)
(* loads.  The server links the order to a folio, whose bill lists it.     *)
(* The back office has a form of an order, as old as it may be.            *)
(***************************************************************************)
EXTENDS Naturals

CONSTANTS
    Tills,
    Orders,
    Folios,
    NoRoom

ASSUME HotelPosAssumption == NoRoom \notin Folios

VARIABLES
    copy,       \* a till's copy of an order
    popup,      \* the folios the room popup of a till offers, none if closed
    posted,     \* the order on the server
    linked,     \* the folio whose bill lists the order (hotel.pos.line)
    invoice,    \* the invoice of the order
    stay,       \* the state of a folio
    drafts,     \* orders that a form of the back office shows as drafts
    stray       \* history: orders written from a form that was out of date

office == <<drafts, stray>>
posVars == <<copy, popup, posted, linked, invoice, stay, office>>

Rooms == Folios \cup {NoRoom}
Methods == {"cash", "hotel"}

(* initState: an order a till has just begun or loaded has no room.        *)
initState == [room |-> NoRoom, pays |-> {}, toInvoice |-> FALSE, done |-> FALSE, here |-> FALSE]

Copies == [room : Rooms, pays : SUBSET Methods, toInvoice : BOOLEAN, done : BOOLEAN,
           here : BOOLEAN]

PosTypeOK ==
    /\ copy \in [Tills -> [Orders -> Copies]]
    /\ popup \in [Tills -> SUBSET Folios]
    /\ posted \in [Orders -> [room : Rooms, pays : SUBSET Methods, toInvoice : BOOLEAN,
                              state : {"none", "draft", "paid"}]]
    /\ linked \in [Orders -> Rooms]
    /\ invoice \in [Orders -> {"none", "not_paid", "reconciled", "settled"}]
    /\ stay \in [Folios -> {"check_in", "check_out", "done"}]
    /\ drafts \in SUBSET Orders
    /\ stray \in SUBSET Orders

PosInit ==
    /\ copy = [t \in Tills |-> [o \in Orders |-> initState]]
    /\ popup = [t \in Tills |-> {}]
    /\ posted = [o \in Orders |-> [room |-> NoRoom, pays |-> {}, toInvoice |-> FALSE,
                                   state |-> "none"]]
    /\ linked = [o \in Orders |-> NoRoom]
    /\ invoice = [o \in Orders |-> "none"]
    /\ stay = [f \in Folios |-> "check_in"]
    /\ drafts = {} /\ stray = {}
-----------------------------------------------------------------------------
(* At the till                                                             *)

Open(t, o) == copy[t][o].here /\ ~copy[t][o].done

(* A new order, which no till and no server knows of yet.                  *)
NewOrder(t, o) ==
    /\ posted[o].state = "none"
    /\ \A u \in Tills : ~copy[u][o].here
    /\ copy' = [copy EXCEPT ![t][o].here = TRUE]
    /\ UNCHANGED <<popup, posted, linked, invoice, stay, office>>

(* Add Room: the folios checked in when it was clicked are offered.        *)
onClickAddRoom(t) ==
    /\ popup[t] = {}
    /\ popup' = [popup EXCEPT ![t] = {f \in Folios : stay[f] = "check_in"}]
    /\ UNCHANGED <<copy, posted, linked, invoice, stay, office>>

(* The popup is closed, or one of them goes to the order which is the      *)
(* current one by then, a paid one too.                                    *)
setBooking(t) ==
    /\ popup[t] # {}
    /\ popup' = [popup EXCEPT ![t] = {}]
    /\ \/ UNCHANGED copy
       \/ \E o \in Orders, f \in popup[t] :
            copy[t][o].here /\ copy' = [copy EXCEPT ![t][o].room = f]
    /\ UNCHANGED <<posted, linked, invoice, stay, office>>

(* To charge the room, one must be chosen and the order is to be invoiced; *)
(* the question whether to do so is answered with no if nothing happens.   *)
addNewPaymentLine(t, o, m) ==
    /\ Open(t, o)
    /\ m = "hotel" => copy[t][o].room # NoRoom
    /\ copy' = [copy EXCEPT ![t][o].pays = @ \cup {m},
                        ![t][o].toInvoice = @ \/ m = "hotel"]
    /\ UNCHANGED <<popup, posted, linked, invoice, stay, office>>

(* The core's buttons: a payment is taken back, the invoice switched.      *)
TakeBack(t, o, m) ==
    /\ Open(t, o)
    /\ copy' = [copy EXCEPT ![t][o].pays = @ \ {m}]
    /\ UNCHANGED <<popup, posted, linked, invoice, stay, office>>

SwitchInvoice(t, o) ==
    /\ Open(t, o)
    /\ copy' = [copy EXCEPT ![t][o].toInvoice = ~@]
    /\ UNCHANGED <<popup, posted, linked, invoice, stay, office>>

(* Mutant: nobody asks for the room or the invoice any more.               *)
ValidateUnasked(t, o) ==
    /\ Open(t, o)
    /\ copy[t][o].pays # {}
    /\ copy' = [copy EXCEPT ![t][o].done = TRUE]
    /\ UNCHANGED <<popup, posted, linked, invoice, stay, office>>

validateOrder(t, o) ==
    /\ Open(t, o)
    /\ copy[t][o].pays # {}
    /\ "hotel" \in copy[t][o].pays => copy[t][o].room # NoRoom /\ copy[t][o].toInvoice
    /\ copy' = [copy EXCEPT ![t][o].done = TRUE]
    /\ UNCHANGED <<popup, posted, linked, invoice, stay, office>>
-----------------------------------------------------------------------------
(* On the server                                                           *)

(* Mutant: an order that has its line is left alone.                       *)
EnsureOnce(o, room) ==
    linked' = [linked EXCEPT ![o] = IF @ = NoRoom THEN room ELSE @]

(* The line under the folio follows the order's booking; an order that has *)
(* lost its booking keeps the line.                                        *)
_ensure_hotel_pos_line(o, room) ==
    linked' = [linked EXCEPT ![o] = IF room = NoRoom THEN @ ELSE room]

serializeForORM(c) ==
    [room |-> c.room, pays |-> c.pays, toInvoice |-> c.toInvoice,
     state |-> IF c.done THEN "paid" ELSE "draft"]

(* A room charge stays unpaid, any other invoice is reconciled with the    *)
(* order's own payments.                                                   *)
_generate_pos_order_invoice(o, order) ==
    invoice' = [invoice EXCEPT ![o] =
        IF order.state = "draft" \/ ~order.toInvoice THEN @
        ELSE IF "hotel" \in order.pays THEN "not_paid" ELSE "reconciled"]

(* An order arrives from a till: a first time, again as a changed draft,   *)
(* paid.  Sent again after a lost answer it is written again, once paid it *)
(* is not.                                                                 *)
_process_order(t, o) ==
    /\ copy[t][o].here /\ posted[o].state # "paid"
    /\ LET order == serializeForORM(copy[t][o]) IN
         /\ posted' = [posted EXCEPT ![o] = order]
         /\ _ensure_hotel_pos_line(o, order.room)
         /\ _generate_pos_order_invoice(o, order)
    /\ UNCHANGED <<copy, popup, stay, office>>

(* What the order's form in the back office shows of it now.               *)
Reload(o) ==
    drafts' = IF posted[o].state = "draft" THEN drafts \cup {o} ELSE drafts \ {o}

OpenForm(o) ==
    /\ posted[o].state # "none"
    /\ Reload(o)
    /\ UNCHANGED <<copy, popup, posted, linked, invoice, stay, stray>>

(* The order's write takes any booking; the form is loaded anew with it.   *)
Write(o, room) ==
    /\ posted' = [posted EXCEPT ![o].room = room]
    /\ _ensure_hotel_pos_line(o, room)
    /\ Reload(o)
    /\ stray' = IF o \in drafts /\ posted[o].state # "draft" THEN stray \cup {o} ELSE stray
    /\ UNCHANGED <<copy, popup, invoice, stay>>

(* Mutant: the field can be edited in every state.                         *)
WriteAnyState(o, room) == posted[o].state # "none" /\ Write(o, room)

(* The booking is saved from a form, which lets it be edited if what the   *)
(* form shows is a draft, whatever has become of the order since.          *)
write(o, room) == o \in drafts /\ Write(o, room)

(* A till loads the order: what it has of its own it keeps, the room too.  *)
Load(t, o) ==
    /\ posted[o].state # "none" /\ ~copy[t][o].done
    /\ copy' = [copy EXCEPT ![t][o].here = TRUE, ![t][o].pays = posted[o].pays,
                        ![t][o].toInvoice = posted[o].toInvoice,
                        ![t][o].done = posted[o].state = "paid"]
    /\ UNCHANGED <<popup, posted, linked, invoice, stay, office>>

(* The guest settles the invoice at the desk.                              *)
RegisterPayment(o) ==
    /\ invoice[o] = "not_paid"
    /\ invoice' = [invoice EXCEPT ![o] = "settled"]
    /\ UNCHANGED <<copy, popup, posted, linked, stay, office>>

(* The folio goes on: nothing of it looks at the orders on its bill.       *)
LeaveRoom(f) ==
    /\ stay[f] # "done"
    /\ stay' = [stay EXCEPT ![f] = IF @ = "check_in" THEN "check_out" ELSE "done"]
    /\ UNCHANGED <<copy, popup, posted, linked, invoice, office>>

PosNext ==
    \/ \E t \in Tills : onClickAddRoom(t) \/ setBooking(t)
    \/ \E t \in Tills, o \in Orders :
         \/ NewOrder(t, o) \/ SwitchInvoice(t, o) \/ validateOrder(t, o)
         \/ _process_order(t, o) \/ Load(t, o)
         \/ \E m \in Methods : addNewPaymentLine(t, o, m) \/ TakeBack(t, o, m)
    \/ \E o \in Orders :
         RegisterPayment(o) \/ OpenForm(o) \/ \E room \in Rooms : write(o, room)
    \/ \E f \in Folios : LeaveRoom(f)

PosSpec == PosInit /\ [][PosNext]_posVars
-----------------------------------------------------------------------------
(* Bills                                                                   *)

(* The orders a folio's total and its bill count.                          *)
_calculate_amounts(f) == {o \in Orders : linked[o] = f}

(* The invoices its button counts.                                         *)
_compute_pos_invoice_count(f) == {o \in _calculate_amounts(f) : invoice[o] # "none"}
-----------------------------------------------------------------------------
(* Properties                                                              *)

(* An order that was paid with a room charge, whatever tills it went       *)
(* through, is on the bill of a folio, with an invoice which the till's    *)
(* payment has not settled.  It names a folio, unless it was written from  *)
(* a form that was out of date, and the one it names is the one that bills *)
(* it (validateOrder, _process_order, _ensure_hotel_pos_line).             *)
ChargedIsBilled ==
    \A o \in Orders : posted[o].state = "paid" /\ "hotel" \in posted[o].pays =>
        /\ \E f \in Folios :
             /\ o \in _compute_pos_invoice_count(f)
             /\ posted[o].room \in {f, NoRoom}
        /\ o \notin stray => posted[o].room # NoRoom
        /\ invoice[o] # "reconciled"

(* No till that comes late moves a paid order to another bill or takes it  *)
(* off one, and no form does but one that was loaded before the payment    *)
(* (_process_order, the booking's readonly).                               *)
PaidStaysBilled ==
    [][\A o \in Orders \ stray' : posted[o].state = "paid" =>
          linked'[o] = linked[o] /\ posted'[o] = posted[o]]_posVars
=============================================================================
