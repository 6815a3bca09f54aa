------------------------------ MODULE KdsCards ------------------------------
(***************************************************************************)
(* The kitchen side of one POS order in eh_pos_kds_core: the ticket, its   *)
(* items (one per order line), the cards that place an item on a board,    *)
(* and the bump events logged for each card.                               *)
(*                                                                         *)
(* Every operator takes the kitchen's records as they are and returns them *)
(* as the method leaves them: a call is one database transaction, and a    *)
(* call that fails leaves nothing behind.                                  *)
(***************************************************************************)
EXTENDS Integers, Sequences

CONSTANTS
    Lines,      \* order lines, numbered in the order of pos.order.lines
    Boards,     \* active boards
    NumLanes    \* lanes of a board

ASSUME LinesAssumption == Lines \subseteq Nat
ASSUME LanesAssumption == NumLanes \in Nat \ {0}

Lanes == 0 .. NumLanes - 1
NoLane == -1
Cards == Lines \X Boards    \* an item has at most one card on a board
Kinds == {"placed", "bumped", "recalled", "voided"}
Event == [kind : Kinds, from : Lanes \cup {NoLane}, to : Lanes]

Kitchen == [quantity : [Lines -> Nat],          \* 0: the line has no item
            cancelled : [Lines -> Nat],
            lane_id : [Cards -> Lanes \cup {NoLane}],
            bump_event_ids : [Cards -> Seq(Event)],
            completion_time : BOOLEAN]          \* stamped or not

EmptyKitchen ==
    [quantity |-> [l \in Lines |-> 0],
     cancelled |-> [l \in Lines |-> 0],
     lane_id |-> [c \in Cards |-> NoLane],
     bump_event_ids |-> [c \in Cards |-> <<>>],
     completion_time |-> FALSE]
-----------------------------------------------------------------------------
(* The card exists: its placement was logged in the call that created it.  *)
Placed(k, c) == k.bump_event_ids[c] # <<>>

last_event(k, c) == k.bump_event_ids[c][Len(k.bump_event_ids[c])]

(* The cards of the ticket whose status, the kind of their latest event,   *)
(* is not "voided".                                                        *)
_open_cards(k) == {c \in Cards : Placed(k, c) /\ last_event(k, c).kind # "voided"}

(* Mutant: the latest event replaces the ones before it.                   *)
LoggedOver(k, c, kind, from, to) == <<[kind |-> kind, from |-> from, to |-> to]>>

Logged(k, c, kind, from, to) ==
    Append(k.bump_event_ids[c], [kind |-> kind, from |-> from, to |-> to])

(* Every open card is in the lane before the last or beyond.  A board of   *)
(* one lane is not asked.                                                  *)
AllReady(k) ==
    /\ _open_cards(k) # {}
    /\ NumLanes >= 2 => \A c \in _open_cards(k) : k.lane_id[c] >= NumLanes - 2

(* Mutant: the ticket is asked about the last lane.                        *)
MarkCompleted(k) ==
    [k EXCEPT !.completion_time = k.completion_time \/
        (_open_cards(k) # {} /\ \A c \in _open_cards(k) : k.lane_id[c] >= NumLanes - 1)]

(* The first time all are ready, completion_time is stamped and the        *)
(* customer is told.                                                       *)
_maybe_mark_ready(k) ==
    [k EXCEPT !.completion_time = k.completion_time \/ AllReady(k)]

(* Mutant: a recall in the first lane is not clamped.                      *)
TargetUnclamped(index) == index

(* A negative index is the first lane and the lane the card is in is a     *)
(* no-op.  An index past the last lane sets the required lane_id to False: *)
(* the call fails, so what the round below makes of one is thrown away.    *)
Target(index) == IF index < 0 THEN 0 ELSE index
-----------------------------------------------------------------------------
(* A call works off its cards one by one.  Half-way it has a kitchen, the  *)
(* `kind` an earlier card was logged with, and has it failed or not.       *)
NoKind == "none"
Loop == [kitchen : Kitchen, kind : {NoKind, "bumped", "recalled"}, failed : BOOLEAN]

(* Mutant: the direction is judged after the card has been written.        *)
MoveJudgedLate(s, c, index) ==
    LET k == s.kitchen
        to == Target(index)
    IN  IF to = k.lane_id[c] THEN [s EXCEPT !.failed = @ \/ index >= NumLanes]
        ELSE [kitchen |-> _maybe_mark_ready(
                [k EXCEPT !.lane_id = [k.lane_id EXCEPT ![c] = to],
                          !.bump_event_ids = [k.bump_event_ids EXCEPT
                              ![c] = Logged(k, c, "recalled", k.lane_id[c], to)]]),
              kind |-> "recalled",
              failed |-> s.failed \/ index >= NumLanes]

(* Mutant: the lane the card comes from is read after it has been written. *)
MoveFromNew(s, c, index) ==
    LET k == s.kitchen
        to == Target(index)
        kind == IF to > k.lane_id[c] THEN "bumped" ELSE "recalled"
    IN  IF to = k.lane_id[c] THEN [s EXCEPT !.failed = @ \/ index >= NumLanes]
        ELSE [kitchen |-> _maybe_mark_ready(
                [k EXCEPT !.lane_id = [k.lane_id EXCEPT ![c] = to],
                          !.bump_event_ids = [k.bump_event_ids EXCEPT
                              ![c] = Logged(k, c, kind, to, to)]]),
              kind |-> kind,
              failed |-> s.failed \/ index >= NumLanes]

(* One round of the loop.  The kind is judged for the first card that      *)
(* moves and carried on to the others.                                     *)
move_to(s, c, index) ==
    LET k == s.kitchen
        from == k.lane_id[c]
        to == Target(index)
        kind == IF s.kind # NoKind THEN s.kind
                ELSE IF to > from THEN "bumped" ELSE "recalled"
    IN  IF to = from THEN [s EXCEPT !.failed = @ \/ index >= NumLanes]
        ELSE [kitchen |-> _maybe_mark_ready(
                [k EXCEPT !.lane_id = [k.lane_id EXCEPT ![c] = to],
                          !.bump_event_ids = [k.bump_event_ids EXCEPT
                              ![c] = Logged(k, c, kind, from, to)]]),
              kind |-> kind,
              failed |-> s.failed \/ index >= NumLanes]

(* Each card is moved by a call of move_to of its own.                     *)
advance(s, c, direction) ==
    move_to([s EXCEPT !.kind = NoKind], c, s.kitchen.lane_id[c] + direction)

(* The card keeps its lane; the ticket is not looked at.                   *)
void(s, c) ==
    [s EXCEPT !.kitchen = [s.kitchen EXCEPT !.bump_event_ids =
        [s.kitchen.bump_event_ids EXCEPT
            ![c] = Logged(s.kitchen, c, "voided", NoLane, s.kitchen.lane_id[c])]]]

(* What a station asks of the cards it names, one of them after the other. *)
Ops == [action : {"move", "advance", "void"}, index : Int]

Round(s, op, c) ==
    CASE op.action = "move" -> move_to(s, c, op.index)
      [] op.action = "advance" -> advance(s, c, op.index)
      [] op.action = "void" -> void(s, c)

ForEach(k, op, cards) ==
    LET rounds[n \in 0 .. Len(cards)] ==
            IF n = 0 THEN [kitchen |-> k, kind |-> NoKind, failed |-> FALSE]
            ELSE Round(rounds[n - 1], op, cards[n])
    IN  rounds[Len(cards)]
=============================================================================
