----------------------------- MODULE KdsIntake ------------------------------
(***************************************************************************)
(* A POS order and its kitchen ticket: every sync of the order runs the    *)
(* intake of eh_pos_kds_core (as eh_pos_kds_restaurant extends it), while  *)
(* the stations move and void the cards.                                   *)
(*                                                                         *)
(* The intake diffs the order's lines with the ticket's items and is meant *)
(* to be complete; an exception in it is caught and logged by the caller,  *)
(* without a savepoint, so what it wrote before stays.                     *)
(***************************************************************************)
EXTENDS KdsCards

CONSTANTS
    Restaurant,     \* pos.config.module_pos_restaurant
    MaxQty,         \* largest quantity of an order line
    TargetLanes,    \* lanes the routing rules place new cards in
    MaxQuantity,    \* bound: quantity an item reaches
    MaxEvents,      \* bound: events of a card
    MaxNamed        \* bound: cards a call names

ASSUME RestaurantAssumption == Restaurant \in BOOLEAN
ASSUME BoundsAssumption ==
    MaxQty \in Nat /\ MaxQuantity \in Nat /\ MaxEvents \in Nat /\ MaxNamed \in Nat
ASSUME TargetAssumption == TargetLanes \subseteq Lanes

VARIABLES
    lines,      \* lines on the order
    qty,        \* pos.order.line.qty, 0 for a line that is not on the order
    fired,      \* lines without a course, or whose course has been fired
    paid,       \* the order's state is in PAID_STATES
    kitchen,    \* the ticket
    intake      \* how the last sync's last intake ended: history

orderVars == <<lines, qty, fired, paid>>
vars == <<lines, qty, fired, paid, kitchen, intake>>

TypeOK ==
    /\ lines \in SUBSET Lines
    /\ qty \in [Lines -> 0 .. MaxQty]
    /\ fired \in SUBSET Lines
    /\ paid \in BOOLEAN
    /\ kitchen \in Kitchen
    /\ intake \in {"none", "complete", "raised"}

Init ==
    /\ lines = {}
    /\ qty = [l \in Lines |-> 0]
    /\ fired = {}
    /\ paid = FALSE
    /\ kitchen = EmptyKitchen
    /\ intake = "none"
-----------------------------------------------------------------------------
(* The intake                                                              *)

(* In a restaurant a line waits for its course to be fired.                *)
_eh_kds_routable_lines(L, F) == IF Restaurant THEN L \cap F ELSE L

known(k, l) == k.quantity[l] - k.cancelled[l]
(* Mutant: what was cancelled still counts as known.                       *)
DeltaOfOrdered(k, q, l) == q[l] - k.quantity[l]
delta(k, q, l) == q[l] - known(k, l)
HasItem(k, l) == k.quantity[l] > 0
OpenOn(k, l) == \E b \in Boards : <<l, b>> \in _open_cards(k)

(* More of a line whose item has an open card: the quantity is written,    *)
(* then logging the event "updated", which is no kind of event, raises.    *)
Raises(k, R, q, l) == l \in R /\ delta(k, q, l) > 0 /\ HasItem(k, l) /\ OpenOn(k, l)

(* The lines are taken in order, up to the first that raises.              *)
Reached(k, R, q, l) == l \in R /\ \A j \in R : j < l => ~Raises(k, R, q, j)

Grows(k, R, q, l) == Reached(k, R, q, l) /\ delta(k, q, l) > 0
Shrinks(k, R, q, l) == Reached(k, R, q, l) /\ delta(k, q, l) < 0 /\ HasItem(k, l)

(* A new item gets a card in lane at[c] of every board that routes it.     *)
Places(k, R, q, at, c) ==
    Grows(k, R, q, c[1]) /\ ~HasItem(k, c[1]) /\ at[c] # NoLane

(* An item that is cancelled altogether has its open cards voided.         *)
Cancels(k, R, q, c) == Shrinks(k, R, q, c[1]) /\ q[c[1]] <= 0 /\ c \in _open_cards(k)

QuantityAfter(k, R, q) == [l \in Lines |->
    IF Grows(k, R, q, l) THEN k.quantity[l] + delta(k, q, l) ELSE k.quantity[l]]

CancelledAfter(k, R, q) == [l \in Lines |->
    IF Shrinks(k, R, q, l) THEN k.cancelled[l] - delta(k, q, l) ELSE k.cancelled[l]]

LanesAfter(k, R, q, at) == [c \in Cards |->
    IF Places(k, R, q, at, c) THEN at[c] ELSE k.lane_id[c]]

EventsAfter(k, R, q, at) == [c \in Cards |->
    IF Places(k, R, q, at, c) THEN Logged(k, c, "placed", NoLane, at[c])
    ELSE IF Cancels(k, R, q, c) THEN Logged(k, c, "voided", NoLane, k.lane_id[c])
    ELSE k.bump_event_ids[c]]

_eh_kds_intake(k, R, q, at) ==
    [quantity |-> QuantityAfter(k, R, q), cancelled |-> CancelledAfter(k, R, q),
     lane_id |-> LanesAfter(k, R, q, at), bump_event_ids |-> EventsAfter(k, R, q, at),
     completion_time |-> k.completion_time]

Outcome(k, R, q) == IF \E l \in R : Raises(k, R, q, l) THEN "raised" ELSE "complete"
-----------------------------------------------------------------------------
(* A sync of the order                                                     *)

(* The register sends the whole order.  A removed line's uuid never comes  *)
(* back, and a fired course stays fired.                                   *)
ReceiveOrder(L, q, F, p) ==
    /\ ~paid
    /\ \A l \in L \ lines : kitchen.quantity[l] = 0
    /\ fired \subseteq F
    /\ lines' = L
    /\ qty' = [l \in Lines |-> IF l \in L THEN q[l] ELSE 0]
    /\ fired' = F
    /\ paid' = p

(* The core runs the intake of a paid order and the restaurant add-on that *)
(* of any restaurant order: a paid restaurant order has two in a row.      *)
_process_order(at) ==
    LET R == _eh_kds_routable_lines(lines', fired')
        once == _eh_kds_intake(kitchen, R, qty', at)
    IN  \/ /\ ~Restaurant /\ ~paid'
           /\ kitchen' = kitchen
           /\ intake' = "none"
        \/ /\ Restaurant # paid'
           /\ kitchen' = once
           /\ intake' = Outcome(kitchen, R, qty')
        \/ /\ Restaurant /\ paid'
           /\ kitchen' = _eh_kds_intake(once, R, qty', at)
           /\ intake' = Outcome(once, R, qty')

WithinBounds ==
    /\ \A l \in Lines : kitchen'.quantity[l] <= MaxQuantity
    /\ \A c \in Cards : Len(kitchen'.bump_event_ids[c]) <= MaxEvents

Sync ==
    \E L \in SUBSET Lines, F \in SUBSET Lines, p \in BOOLEAN :
        \E q \in [L -> 0 .. MaxQty] :
            /\ ReceiveOrder(L, q, F, p)
            /\ \E at \in [Cards -> TargetLanes \cup {NoLane}] : _process_order(at)
            /\ WithinBounds
-----------------------------------------------------------------------------
(* The stations' calls.  A call names cards in any order, a card twice     *)
(* perhaps; those of other boards are left out.  The server does not look  *)
(* at a card's status: a station that has not heard of a void can still    *)
(* move the card.                                                          *)
board_op(op, cards) ==
    /\ \A n \in DOMAIN cards : Placed(kitchen, cards[n])
    /\ ~ForEach(kitchen, op, cards).failed
    /\ kitchen' = ForEach(kitchen, op, cards).kitchen
    /\ WithinBounds
    /\ UNCHANGED <<orderVars, intake>>

Move(cards) ==
    \E index \in -1 .. NumLanes : board_op([action |-> "move", index |-> index], cards)
Advance(cards) == board_op([action |-> "advance", index |-> 1], cards)
Recall(cards) == board_op([action |-> "advance", index |-> -1], cards)
Void(cards) == board_op([action |-> "void", index |-> 0], cards)

Station == \E b \in Boards, n \in 1 .. MaxNamed : \E cards \in [1 .. n -> Lines \X {b}] :
    Move(cards) \/ Advance(cards) \/ Recall(cards) \/ Void(cards)

Next == Sync \/ Station

Spec == Init /\ [][Next]_vars
-----------------------------------------------------------------------------
(* Properties                                                              *)

(* A card is the projection of its log: it is in the lane its latest event *)
(* left it in, the log begins with the one placement, each move starts     *)
(* where the event before ended and goes somewhere else (move_to, void,    *)
(* the intake's own events).                                               *)
GoodEvent(log, n) ==
    LET e == log[n]
        before == log[n - 1].to
    IN  /\ e.kind = "placed" <=> n = 1
        /\ e.kind = "voided" => e.to = before
        /\ e.kind \in {"bumped", "recalled"} => e.from = before /\ e.to # before

GoodCard(lane, log) ==
    /\ log # <<>> => lane = log[Len(log)].to
    /\ \A n \in 1 .. Len(log) : GoodEvent(log, n)

HistoryReplays ==
    \A c \in Cards : GoodCard(kitchen.lane_id[c], kitchen.bump_event_ids[c])

(* After an intake that did not raise the kitchen is asked for exactly     *)
(* what the order holds of every line it may cook, and no item has more    *)
(* cancelled than ordered (the diff of _eh_kds_intake).                    *)
CancelledWithin == \A l \in Lines : kitchen.cancelled[l] <= kitchen.quantity[l]

IntakeExact ==
    /\ CancelledWithin
    /\ intake = "complete"
        => \A l \in _eh_kds_routable_lines(lines, fired) : known(kitchen, l) = qty[l]

(* As long as nothing of the ticket was voided and the routing places no   *)
(* card in the ready lane or beyond (the intake does not look at the       *)
(* ticket), a ticket whose open cards are all ready has been stamped, and  *)
(* the customer told (_maybe_mark_ready).                                  *)
NoneArrivesReady == \A lane \in TargetLanes : lane < NumLanes - 2

NeverVoided(k) ==
    \A c \in Cards : \A n \in 1 .. Len(k.bump_event_ids[c]) :
        k.bump_event_ids[c][n].kind # "voided"

Stamped(k) == NeverVoided(k) /\ AllReady(k) => k.completion_time

StampedUnlessVoided == NoneArrivesReady => Stamped(kitchen)

(* "Rows are never edited or deleted": no sync and no station call takes   *)
(* an event from a card's log or changes one, and a stamp stays.           *)
LogKept(old, new) ==
    Len(old) <= Len(new) /\ \A n \in 1 .. Len(old) : new[n] = old[n]

KeepsHistory ==
    /\ \A c \in Cards : LogKept(kitchen.bump_event_ids[c], kitchen'.bump_event_ids[c])
    /\ kitchen.completion_time => kitchen'.completion_time

AppendOnly == [][KeepsHistory]_vars

(* A call that moves one card, once, logs it as bumped if the card goes    *)
(* forward and as recalled if it goes back.  A call that moves several     *)
(* logs the others as what the first one was.                              *)
OnlyMove(old, new, c) ==
    /\ Placed(old, c)
    /\ new.lane_id[c] # old.lane_id[c]
    /\ Len(new.bump_event_ids[c]) = Len(old.bump_event_ids[c]) + 1
    /\ \A d \in Cards \ {c} : new.bump_event_ids[d] = old.bump_event_ids[d]

Direction(from, to) == IF to > from THEN "bumped" ELSE "recalled"

NamesDirection(old, new) ==
    \A c \in Cards : OnlyMove(old, new, c) =>
        last_event(new, c).kind = Direction(old.lane_id[c], new.lane_id[c])

OnlyMoveNamed == [][NamesDirection(kitchen, kitchen')]_vars

(* "Route this order's new and removed lines to the kitchen boards": after *)
(* every sync that runs an intake, the kitchen is asked for what the order *)
(* holds.                                                                  *)
LinesReachKitchen ==
    intake # "none"
        => \A l \in _eh_kds_routable_lines(lines, fired) : known(kitchen, l) = qty[l]
=============================================================================
