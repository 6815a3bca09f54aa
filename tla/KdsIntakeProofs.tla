-------------------------- MODULE KdsIntakeProofs ---------------------------
(***************************************************************************)
(* Proofs about KdsIntake, for any lines, boards, lanes and routing: the   *)
(* types, the replayable log, the exactness of an intake that does not     *)
(* raise, and the append-only history.                                     *)
(***************************************************************************)
EXTENDS KdsIntake, FoldLemmas

(* What every call leaves of the kitchen's records.  A card without an     *)
(* item is what the intake would otherwise place twice.                    *)
GoodKitchen(k) ==
    /\ k \in Kitchen
    /\ \A l \in Lines : k.cancelled[l] <= k.quantity[l]
    /\ \A c \in Cards : GoodCard(k.lane_id[c], k.bump_event_ids[c])
    /\ \A c \in Cards : Placed(k, c) => HasItem(k, c[1])

(* j's logs continue k's, and a stamp stays.                               *)
Continues(k, j) ==
    /\ \A c \in Cards : LogKept(k.bump_event_ids[c], j.bump_event_ids[c])
    /\ k.completion_time => j.completion_time

(* Appending an event that fits the log keeps the card the projection of   *)
(* its log (_log).                                                         *)
LEMMA GoodAppend ==
    ASSUME NEW lane, NEW log \in Seq(Event), GoodCard(lane, log), NEW e \in Event,
           GoodEvent(Append(log, e), Len(log) + 1)
    PROVE  /\ GoodCard(e.to, Append(log, e))
           /\ Append(log, e) \in Seq(Event)
           /\ LogKept(log, Append(log, e))
<1> DEFINE new == Append(log, e)
<1>1. /\ new \in Seq(Event) /\ Len(new) = Len(log) + 1 /\ Len(log) \in Nat
      /\ new[Len(log) + 1] = e
      /\ \A n \in 1 .. Len(log) : new[n] = log[n]
  OBVIOUS
<1>2. ASSUME NEW n \in 1 .. Len(log) PROVE GoodEvent(new, n)
  <2>1. new[n] = log[n] /\ (n > 1 => new[n - 1] = log[n - 1]) /\ n \in Nat
    BY <1>1
  <2>2. GoodEvent(log, n)
    BY DEF GoodCard
  <2> HIDE DEF new
  <2> QED
    BY <2>1, <2>2 DEF GoodEvent
<1>3. \A n \in 1 .. Len(new) : GoodEvent(new, n)
  BY <1>1, <1>2
<1> QED
  BY <1>1, <1>3 DEF GoodCard, LogKept

(* The same, of a log that is left alone.                                  *)
LEMMA SameLog == ASSUME NEW log PROVE LogKept(log, log)
BY DEF LogKept
-----------------------------------------------------------------------------
(* The intake, taken record by record                                      *)


(* What the intake is given: the routable lines, their quantities on the   *)
(* order, and where the routing places new cards.                          *)
IntakeInput(R, q, at) ==
    /\ R \in SUBSET Lines
    /\ q \in [Lines -> 0 .. MaxQty]
    /\ at \in [Cards -> TargetLanes \cup {NoLane}]

(* Each item ends with at most its quantity cancelled; a line that was     *)
(* reached ends with what the order holds of it.                           *)
LEMMA IntakeItems ==
    ASSUME NEW k, GoodKitchen(k), NEW R, NEW q, NEW at, IntakeInput(R, q, at),
           NEW l \in Lines
    PROVE  LET Q == QuantityAfter(k, R, q)[l]
               C == CancelledAfter(k, R, q)[l]
           IN  /\ Q \in Nat /\ C \in Nat /\ C <= Q
               /\ Q >= k.quantity[l]
               /\ Reached(k, R, q, l) => Q - C = q[l]
<1> DEFINE n == k.quantity[l]
           x == k.cancelled[l]
<1>1. n \in Nat /\ x \in Nat /\ x <= n
  BY DEF GoodKitchen, Kitchen
<1>2. q[l] \in Nat
  BY BoundsAssumption DEF IntakeInput
<1>3. QuantityAfter(k, R, q)[l] = IF Grows(k, R, q, l) THEN n + (q[l] - (n - x)) ELSE n
  BY DEF QuantityAfter, delta, known
<1>4. CancelledAfter(k, R, q)[l] = IF Shrinks(k, R, q, l) THEN x - (q[l] - (n - x)) ELSE x
  BY DEF CancelledAfter, delta, known
<1>5. Grows(k, R, q, l) <=> Reached(k, R, q, l) /\ q[l] - (n - x) > 0
  BY DEF Grows, delta, known
<1>6. Shrinks(k, R, q, l) <=> Reached(k, R, q, l) /\ q[l] - (n - x) < 0 /\ n > 0
  BY DEF Shrinks, delta, known, HasItem
<1> DEFINE Q == QuantityAfter(k, R, q)[l]
           C == CancelledAfter(k, R, q)[l]
<1>7. SUFFICES /\ Q \in Nat /\ C \in Nat /\ C <= Q /\ Q >= n
               /\ Reached(k, R, q, l) => Q - C = q[l]
  OBVIOUS
<1> HIDE DEF n, x, Q, C
<1>8. CASE q[l] - (n - x) > 0
  BY <1>1, <1>2, <1>3, <1>4, <1>5, <1>6, <1>8 DEF Q, C
<1>9. CASE q[l] - (n - x) < 0
  BY <1>1, <1>2, <1>3, <1>4, <1>5, <1>6, <1>9 DEF Q, C
<1>10. CASE q[l] - (n - x) = 0
  BY <1>1, <1>2, <1>3, <1>4, <1>5, <1>6, <1>10 DEF Q, C
<1> QED
  BY <1>1, <1>2, <1>8, <1>9, <1>10

(* A card ends in a lane of its board, and with a log that continues its   *)
(* log and still replays to that lane.                                     *)
LEMMA IntakeCard ==
    ASSUME NEW k, GoodKitchen(k), NEW R, NEW q, NEW at, IntakeInput(R, q, at),
           NEW c \in Cards
    PROVE  LET lane == LanesAfter(k, R, q, at)[c]
               log == EventsAfter(k, R, q, at)[c]
           IN  /\ lane \in Lanes \cup {NoLane}
               /\ log \in Seq(Event)
               /\ GoodCard(lane, log)
               /\ LogKept(k.bump_event_ids[c], log)
               /\ log # <<>> => QuantityAfter(k, R, q)[c[1]] > 0
<1> DEFINE old == k.bump_event_ids[c]
           at0 == k.lane_id[c]
<1>1. /\ old \in Seq(Event) /\ GoodCard(at0, old) /\ at0 \in Lanes \cup {NoLane}
      /\ old # <<>> => HasItem(k, c[1])
      /\ c[1] \in Lines
  BY DEF GoodKitchen, Kitchen, Placed, Cards
<1>2. /\ QuantityAfter(k, R, q)[c[1]] \in Nat
      /\ QuantityAfter(k, R, q)[c[1]] >= k.quantity[c[1]]
      /\ k.quantity[c[1]] \in Nat
  BY <1>1, IntakeItems DEF GoodKitchen, Kitchen
<1>3. CASE Places(k, R, q, at, c)
  <2>1. at[c] \in Lanes
    BY <1>3, TargetAssumption DEF Places, IntakeInput
  <2>2. old = <<>>
    BY <1>1, <1>3 DEF Places
  <2> DEFINE e == [kind |-> "placed", from |-> NoLane, to |-> at[c]]
  <2>3. e \in Event
    BY <2>1 DEF Event, Kinds
  <2>4. GoodEvent(Append(old, e), Len(old) + 1)
    <3>1. Append(old, e)[Len(old) + 1] = e /\ Len(old) = 0
      BY <2>2, <2>3, <1>1
    <3> QED
      BY <3>1 DEF GoodEvent
  <2>5. LanesAfter(k, R, q, at)[c] = at[c] /\ EventsAfter(k, R, q, at)[c] = Append(old, e)
    BY <1>3 DEF LanesAfter, EventsAfter, Logged
  <2>6. QuantityAfter(k, R, q)[c[1]] > 0
    <3>1. Grows(k, R, q, c[1]) /\ ~HasItem(k, c[1])
      BY <1>3 DEF Places
    <3>2. QuantityAfter(k, R, q)[c[1]] = k.quantity[c[1]] + delta(k, q, c[1])
      BY <1>1, <3>1 DEF QuantityAfter
    <3>3. delta(k, q, c[1]) > 0 /\ delta(k, q, c[1]) \in Int
      BY <1>1, <3>1, BoundsAssumption
         DEF Grows, delta, known, GoodKitchen, Kitchen, IntakeInput
    <3> QED
      BY <1>2, <3>2, <3>3
  <2>7. e.to = at[c]
    OBVIOUS
  <2> HIDE DEF e, old, at0
  <2>8. /\ GoodCard(e.to, Append(old, e)) /\ Append(old, e) \in Seq(Event)
        /\ LogKept(old, Append(old, e))
    BY <1>1, <2>3, <2>4, GoodAppend
  <2> QED
    BY <2>1, <2>5, <2>6, <2>7, <2>8 DEF old
<1>4. CASE ~Places(k, R, q, at, c) /\ Cancels(k, R, q, c)
  <2>1. old # <<>> /\ c \in _open_cards(k)
    BY <1>4 DEF Cancels, _open_cards, Placed
  <2>2. at0 = old[Len(old)].to /\ Len(old) \in Nat /\ Len(old) >= 1
    BY <1>1, <2>1 DEF GoodCard
  <2>3. at0 \in Lanes
    <3>1. old[Len(old)] \in Event
      BY <1>1, <2>2
    <3> QED
      BY <2>2, <3>1 DEF Event
  <2> DEFINE e == [kind |-> "voided", from |-> NoLane, to |-> at0]
  <2>4. e \in Event
    BY <2>3 DEF Event, Kinds
  <2>5. GoodEvent(Append(old, e), Len(old) + 1)
    <3>1. /\ Append(old, e)[Len(old) + 1] = e
          /\ Append(old, e)[(Len(old) + 1) - 1] = old[Len(old)]
      BY <2>2, <2>4, <1>1
    <3> QED
      BY <3>1, <2>2 DEF GoodEvent
  <2>6. LanesAfter(k, R, q, at)[c] = at0 /\ EventsAfter(k, R, q, at)[c] = Append(old, e)
    BY <1>4 DEF LanesAfter, EventsAfter, Logged
  <2>7. e.to = at0
    OBVIOUS
  <2>8. QuantityAfter(k, R, q)[c[1]] > 0
    BY <1>1, <1>2, <2>1 DEF HasItem
  <2> HIDE DEF e, old, at0
  <2>9. /\ GoodCard(e.to, Append(old, e)) /\ Append(old, e) \in Seq(Event)
        /\ LogKept(old, Append(old, e))
    BY <1>1, <2>4, <2>5, GoodAppend
  <2> QED
    BY <2>3, <2>6, <2>7, <2>8, <2>9 DEF old
<1>5. CASE ~Places(k, R, q, at, c) /\ ~Cancels(k, R, q, c)
  <2>1. LanesAfter(k, R, q, at)[c] = at0 /\ EventsAfter(k, R, q, at)[c] = old
    BY <1>5 DEF LanesAfter, EventsAfter
  <2>2. old # <<>> => QuantityAfter(k, R, q)[c[1]] > 0
    BY <1>1, <1>2 DEF HasItem
  <2> HIDE DEF old, at0
  <2>3. LogKept(old, old)
    BY SameLog
  <2> QED
    BY <1>1, <2>1, <2>2, <2>3 DEF old
<1> QED
  BY <1>3, <1>4, <1>5

(* A whole intake: it keeps the kitchen good and continues its logs, and   *)
(* one that does not raise leaves every routable line exact.               *)
LEMMA IntakeKeeps ==
    ASSUME NEW k, GoodKitchen(k), NEW R, NEW q, NEW at, IntakeInput(R, q, at)
    PROVE  LET j == _eh_kds_intake(k, R, q, at) IN
           /\ GoodKitchen(j)
           /\ Continues(k, j)
           /\ Outcome(k, R, q) = "complete" => \A l \in R : known(j, l) = q[l]
<1> DEFINE j == _eh_kds_intake(k, R, q, at)
<1>1. /\ j.quantity = QuantityAfter(k, R, q) /\ j.cancelled = CancelledAfter(k, R, q)
      /\ j.lane_id = LanesAfter(k, R, q, at) /\ j.bump_event_ids = EventsAfter(k, R, q, at)
      /\ j.completion_time = k.completion_time
      /\ j = [quantity |-> QuantityAfter(k, R, q), cancelled |-> CancelledAfter(k, R, q),
              lane_id |-> LanesAfter(k, R, q, at),
              bump_event_ids |-> EventsAfter(k, R, q, at),
              completion_time |-> k.completion_time]
  BY DEF _eh_kds_intake
<1>2. QuantityAfter(k, R, q) \in [Lines -> Nat] /\ CancelledAfter(k, R, q) \in [Lines -> Nat]
  <2>1. \A l \in Lines : QuantityAfter(k, R, q)[l] \in Nat /\ CancelledAfter(k, R, q)[l] \in Nat
    BY IntakeItems
  <2> QED
    BY <2>1 DEF QuantityAfter, CancelledAfter
<1>3. /\ LanesAfter(k, R, q, at) \in [Cards -> Lanes \cup {NoLane}]
      /\ EventsAfter(k, R, q, at) \in [Cards -> Seq(Event)]
  <2>1. \A c \in Cards : /\ LanesAfter(k, R, q, at)[c] \in Lanes \cup {NoLane}
                         /\ EventsAfter(k, R, q, at)[c] \in Seq(Event)
    BY IntakeCard
  <2> QED
    BY <2>1 DEF LanesAfter, EventsAfter
<1>4. j \in Kitchen
  BY <1>1, <1>2, <1>3 DEF Kitchen, GoodKitchen
<1>5. \A l \in Lines : j.cancelled[l] <= j.quantity[l]
  BY <1>1, IntakeItems
<1>6. \A c \in Cards : /\ GoodCard(j.lane_id[c], j.bump_event_ids[c])
                       /\ LogKept(k.bump_event_ids[c], j.bump_event_ids[c])
                       /\ j.bump_event_ids[c] # <<>> => j.quantity[c[1]] > 0
  BY <1>1, IntakeCard
<1>7. ASSUME Outcome(k, R, q) = "complete", NEW l \in R PROVE known(j, l) = q[l]
  <2>1. l \in Lines
    BY DEF IntakeInput
  <2>2. Reached(k, R, q, l)
    BY <1>7 DEF Outcome, Reached
  <2> QED
    BY <1>1, <2>1, <2>2, IntakeItems DEF known
<1> HIDE DEF j
<1>8. GoodKitchen(j)
  BY <1>4, <1>5, <1>6 DEF GoodKitchen, Placed, HasItem
<1>9. Continues(k, j)
  BY <1>1, <1>6 DEF Continues
<1> QED
  BY <1>7, <1>8, <1>9 DEF j
-----------------------------------------------------------------------------
(* The stations' calls                                                     *)

(* A call that appends one fitting event to one card's log, and leaves the *)
(* card in the event's lane, keeps the kitchen good.                       *)
LEMMA OneEvent ==
    ASSUME NEW k, GoodKitchen(k), NEW c \in Cards, Placed(k, c), NEW e \in Event,
           GoodEvent(Append(k.bump_event_ids[c], e), Len(k.bump_event_ids[c]) + 1),
           NEW j \in Kitchen,
           j.quantity = k.quantity, j.cancelled = k.cancelled,
           j.lane_id = [k.lane_id EXCEPT ![c] = e.to],
           j.bump_event_ids =
               [k.bump_event_ids EXCEPT ![c] = Append(k.bump_event_ids[c], e)],
           k.completion_time => j.completion_time
    PROVE  GoodKitchen(j) /\ Continues(k, j)
<1>1. /\ k.bump_event_ids \in [Cards -> Seq(Event)]
      /\ k.lane_id \in [Cards -> Lanes \cup {NoLane}]
      /\ k.bump_event_ids[c] \in Seq(Event)
      /\ GoodCard(k.lane_id[c], k.bump_event_ids[c])
  BY DEF GoodKitchen, Kitchen
<1>2. /\ GoodCard(e.to, Append(k.bump_event_ids[c], e))
      /\ LogKept(k.bump_event_ids[c], Append(k.bump_event_ids[c], e))
  BY <1>1, GoodAppend
<1>3. ASSUME NEW d \in Cards
      PROVE  /\ GoodCard(j.lane_id[d], j.bump_event_ids[d])
             /\ LogKept(k.bump_event_ids[d], j.bump_event_ids[d])
             /\ Placed(j, d) => HasItem(j, d[1])
  <2>1. CASE d = c
    <3>1. j.lane_id[d] = e.to /\ j.bump_event_ids[d] = Append(k.bump_event_ids[c], e)
      BY <1>1, <2>1
    <3>2. HasItem(j, d[1])
      BY <2>1 DEF GoodKitchen, HasItem
    <3> QED
      BY <1>2, <2>1, <3>1, <3>2
  <2>2. CASE d # c
    <3>1. j.lane_id[d] = k.lane_id[d] /\ j.bump_event_ids[d] = k.bump_event_ids[d]
      BY <1>1, <2>2
    <3>2. LogKept(k.bump_event_ids[d], k.bump_event_ids[d])
      BY SameLog
    <3> QED
      BY <3>1, <3>2 DEF GoodKitchen, Placed, HasItem
  <2> QED
    BY <2>1, <2>2
<1> QED
  BY <1>3 DEF GoodKitchen, Continues

(* What one card's round leaves of the other cards, and of this one's log. *)
OneMore(j, i, d) ==
    /\ Len(i.bump_event_ids[d]) = Len(j.bump_event_ids[d]) + 1
    /\ \A c \in Cards \ {d} : /\ i.bump_event_ids[c] = j.bump_event_ids[c]
                             /\ i.lane_id[c] = j.lane_id[c]

SameItems(k, j) == j.quantity = k.quantity /\ j.cancelled = k.cancelled

(* One round of move_to keeps the kitchen good; a card that moves gets one *)
(* event, of the carried kind, or of its own direction if none is carried. *)
LEMMA MoveKeeps ==
    ASSUME NEW s \in Loop, GoodKitchen(s.kitchen), NEW c \in Cards, Placed(s.kitchen, c),
           NEW index \in Int, index < NumLanes
    PROVE  LET t == move_to(s, c, index)
               k == s.kitchen
               j == t.kitchen
           IN  /\ t \in Loop /\ t.failed = s.failed
               /\ GoodKitchen(j) /\ Continues(k, j) /\ SameItems(k, j)
               /\ \/ j = k /\ t.kind = s.kind
                  \/ /\ OneMore(k, j, c)
                     /\ last_event(j, c).kind = t.kind /\ t.kind # NoKind
                     /\ s.kind = NoKind => t.kind = Direction(k.lane_id[c], j.lane_id[c])
<1> DEFINE k == s.kitchen
           from == k.lane_id[c]
           to == Target(index)
           kind == IF s.kind # NoKind THEN s.kind ELSE Direction(from, to)
           log == k.bump_event_ids[c]
           e == [kind |-> kind, from |-> from, to |-> to]
           t == move_to(s, c, index)
           j == t.kitchen
<1>1. /\ k \in Kitchen /\ log \in Seq(Event) /\ log # <<>> /\ GoodCard(from, log)
  BY DEF GoodKitchen, Kitchen, Placed
<1>2. from = log[Len(log)].to /\ Len(log) \in Nat \ {0}
  BY <1>1 DEF GoodCard
<1>3. from \in Lanes
  <2>1. log[Len(log)] \in Event
    BY <1>1, <1>2
  <2> QED
    BY <1>2, <2>1 DEF Event
<1>4. to \in Lanes
  BY LanesAssumption DEF Target, Lanes
<1>5. CASE to = from
  <2>1. t = [s EXCEPT !.failed = s.failed \/ index >= NumLanes]
    BY <1>5 DEF move_to
  <2>2. ~(index >= NumLanes)
    BY LanesAssumption
  <2>3. t \in Loop /\ t.failed = s.failed /\ j = k /\ t.kind = s.kind
    BY <2>1, <2>2 DEF Loop
  <2>4. Continues(k, k)
    BY SameLog DEF Continues
  <2> QED
    BY <2>3, <2>4 DEF SameItems
<1>6. CASE to # from
  <2> DEFINE m == [k EXCEPT
                     !.lane_id = [k.lane_id EXCEPT ![c] = to],
                     !.bump_event_ids = [k.bump_event_ids EXCEPT ![c] = Append(log, e)]]
  <2>1. /\ t = [kitchen |-> _maybe_mark_ready(m), kind |-> kind,
                failed |-> s.failed \/ index >= NumLanes]
        /\ j = _maybe_mark_ready(m)
    BY <1>6 DEF move_to, Logged, Direction
  <2>2. kind \in {"bumped", "recalled"}
    BY DEF Loop, Direction
  <2>3. /\ e \in Event /\ e.to = to /\ e.kind = kind /\ e.from = from
    BY <1>3, <1>4, <2>2 DEF Event, Kinds
  <2> HIDE DEF e, kind
  <2>4. GoodEvent(Append(log, e), Len(log) + 1)
    <3>1. /\ Append(log, e)[Len(log) + 1] = e
          /\ Append(log, e)[(Len(log) + 1) - 1] = log[Len(log)]
      BY <1>1, <1>2, <2>3
    <3> HIDE DEF log, from, to
    <3> QED
      BY <1>2, <1>6, <2>2, <2>3, <3>1 DEF GoodEvent
  <2>5. /\ m \in Kitchen
        /\ m.quantity = k.quantity /\ m.cancelled = k.cancelled
        /\ m.lane_id = [k.lane_id EXCEPT ![c] = to]
        /\ m.bump_event_ids = [k.bump_event_ids EXCEPT ![c] = Append(log, e)]
        /\ m.completion_time = k.completion_time
    <3>1. Append(log, e) \in Seq(Event)
      BY <1>1, <2>3
    <3> QED
      BY <1>1, <1>4, <3>1 DEF Kitchen
  <2> HIDE DEF m
  <2>6. /\ _maybe_mark_ready(m) \in Kitchen
        /\ _maybe_mark_ready(m).quantity = m.quantity
        /\ _maybe_mark_ready(m).cancelled = m.cancelled
        /\ _maybe_mark_ready(m).lane_id = m.lane_id
        /\ _maybe_mark_ready(m).bump_event_ids = m.bump_event_ids
        /\ _maybe_mark_ready(m).completion_time = (m.completion_time \/ AllReady(m))
    BY <2>5 DEF _maybe_mark_ready, Kitchen, AllReady
  <2>7. t \in Loop /\ t.failed = s.failed /\ t.kind = kind
    <3>1. ~(index >= NumLanes)
      BY LanesAssumption
    <3> QED
      BY <2>1, <2>2, <2>6, <3>1 DEF Loop
  <2> HIDE DEF t, to
  <2>8. /\ j \in Kitchen
        /\ j.quantity = k.quantity /\ j.cancelled = k.cancelled
        /\ j.lane_id = [k.lane_id EXCEPT ![c] = e.to]
        /\ j.bump_event_ids = [k.bump_event_ids EXCEPT ![c] = Append(log, e)]
        /\ k.completion_time => j.completion_time
    BY <2>1, <2>3, <2>5, <2>6
  <2> HIDE DEF j
  <2>9. GoodKitchen(j) /\ Continues(k, j)
    BY <2>3, <2>4, <2>8, OneEvent
  <2>10. /\ j.lane_id[c] = to /\ j.bump_event_ids[c] = Append(log, e)
         /\ \A d \in Cards \ {c} : /\ j.bump_event_ids[d] = k.bump_event_ids[d]
                                  /\ j.lane_id[d] = k.lane_id[d]
    BY <1>1, <2>3, <2>8 DEF Kitchen
  <2>11. /\ Len(Append(log, e)) = Len(log) + 1
         /\ Append(log, e)[Len(Append(log, e))] = e
    BY <1>1, <2>3
  <2>12. OneMore(k, j, c) /\ last_event(j, c).kind = kind
    BY <2>3, <2>10, <2>11 DEF OneMore, last_event
  <2>13. s.kind = NoKind => kind = Direction(from, j.lane_id[c])
    BY <2>10 DEF kind
  <2>14. kind # NoKind
    BY <2>2 DEF NoKind
  <2> QED
    BY <2>7, <2>8, <2>9, <2>12, <2>13, <2>14 DEF SameItems, j, t
<1> QED
  BY <1>5, <1>6

(* A round of void keeps the kitchen good, and the lanes as they are.      *)
LEMMA VoidKeeps ==
    ASSUME NEW s \in Loop, GoodKitchen(s.kitchen), NEW c \in Cards, Placed(s.kitchen, c)
    PROVE  LET t == void(s, c)
               k == s.kitchen
               j == t.kitchen
           IN  /\ t \in Loop /\ t.failed = s.failed
               /\ GoodKitchen(j) /\ Continues(k, j) /\ SameItems(k, j)
               /\ j.lane_id = k.lane_id
<1> DEFINE k == s.kitchen
           lane == k.lane_id[c]
           log == k.bump_event_ids[c]
           e == [kind |-> "voided", from |-> NoLane, to |-> lane]
           j == [k EXCEPT !.bump_event_ids = [k.bump_event_ids EXCEPT ![c] = Append(log, e)]]
           t == void(s, c)
<1>1. /\ k \in Kitchen /\ log \in Seq(Event) /\ log # <<>> /\ GoodCard(lane, log)
  BY DEF GoodKitchen, Kitchen, Placed
<1>2. lane = log[Len(log)].to /\ Len(log) \in Nat \ {0}
  BY <1>1 DEF GoodCard
<1>3. lane \in Lanes
  <2>1. log[Len(log)] \in Event
    BY <1>1, <1>2
  <2> QED
    BY <1>2, <2>1 DEF Event
<1>4. e \in Event /\ e.to = lane /\ e.kind = "voided"
  BY <1>3 DEF Event, Kinds
<1>5. GoodEvent(Append(log, e), Len(log) + 1)
  <2>1. /\ Append(log, e)[Len(log) + 1] = e
        /\ Append(log, e)[(Len(log) + 1) - 1] = log[Len(log)]
    BY <1>1, <1>2, <1>4
  <2> HIDE DEF e, log, lane
  <2> QED
    BY <1>2, <1>4, <2>1 DEF GoodEvent
<1>6. t = [s EXCEPT !.kitchen = j]
  BY DEF void, Logged
<1>7. /\ j \in Kitchen
      /\ j.quantity = k.quantity /\ j.cancelled = k.cancelled
      /\ j.lane_id = k.lane_id
      /\ j.bump_event_ids = [k.bump_event_ids EXCEPT ![c] = Append(log, e)]
      /\ j.completion_time = k.completion_time
  <2>1. Append(log, e) \in Seq(Event)
    BY <1>1, <1>4
  <2> QED
    BY <1>1, <2>1 DEF Kitchen
<1>8. k.lane_id = [k.lane_id EXCEPT ![c] = e.to]
  BY <1>1, <1>4 DEF Kitchen
<1> HIDE DEF j, e
<1>9. t \in Loop /\ t.failed = s.failed /\ t.kitchen = j
  BY <1>6, <1>7 DEF Loop
<1>10. GoodKitchen(j) /\ Continues(k, j)
  <2>1. /\ j.lane_id = [k.lane_id EXCEPT ![c] = e.to]
        /\ k.completion_time => j.completion_time
    BY <1>7, <1>8
  <2> HIDE DEF k
  <2>2. GoodKitchen(k) /\ Placed(k, c)
    BY DEF k
  <2> QED
    BY <1>4, <1>5, <1>7, <2>1, <2>2, OneEvent
<1> QED
  BY <1>7, <1>9, <1>10 DEF SameItems
-----------------------------------------------------------------------------
(* The loop over the cards of a call: rounds[n] is what n cards leave.     *)
RoundsOf(k, op, cards, g) ==
    g = [n \in 0 .. Len(cards) |->
            IF n = 0 THEN [kitchen |-> k, kind |-> NoKind, failed |-> FALSE]
            ELSE Round(g[n - 1], op, cards[n])]

Rounds(k, op, cards) == CHOOSE g : RoundsOf(k, op, cards, g)

LEMMA ForEachUnfolds ==
    ASSUME NEW k, NEW op, NEW cards
    PROVE  ForEach(k, op, cards) = Rounds(k, op, cards)[Len(cards)]
BY DEF ForEach, Rounds, RoundsOf

LEMMA RoundsExist ==
    ASSUME NEW k, NEW op, NEW cards, Len(cards) \in Nat
    PROVE  \E g : RoundsOf(k, op, cards, g)
<1> DEFINE N == Len(cards)
           Next1(g, n) == IF n = 0 THEN [kitchen |-> k, kind |-> NoKind, failed |-> FALSE]
                          ELSE Round(g[n - 1], op, cards[n])
           T == {n \in Nat : \E g : g = [i \in 0 .. n |-> Next1(g, i)]}
<1>1. 0 \in T
  <2> DEFINE g == [i \in 0 .. 0 |-> [kitchen |-> k, kind |-> NoKind, failed |-> FALSE]]
  <2>1. g = [i \in 0 .. 0 |-> Next1(g, i)]
    OBVIOUS
  <2> QED
    BY <2>1
<1>2. ASSUME NEW n \in Nat, n \in T PROVE n + 1 \in T
  <2>1. PICK g : g = [i \in 0 .. n |-> Next1(g, i)]
    BY <1>2
  <2> DEFINE h == [i \in 0 .. n + 1 |-> IF i = n + 1 THEN Next1(g, i) ELSE g[i]]
  <2>2. \A i \in 0 .. n : h[i] = g[i] /\ g[i] = Next1(g, i)
    <3>1. \A i \in 0 .. n : h[i] = g[i]
      OBVIOUS
    <3>2. \A i \in 0 .. n : g[i] = Next1(g, i)
      <4> HIDE DEF Next1
      <4> QED
        BY <2>1
    <3> QED
      BY <3>1, <3>2
  <2>3. ASSUME NEW i \in 0 .. n + 1 PROVE h[i] = Next1(h, i)
    <3>1. CASE i = n + 1
      <4>1. h[i] = Next1(g, i) /\ h[i - 1] = g[i - 1]
        BY <2>2, <3>1
      <4> HIDE DEF h
      <4> QED
        BY <4>1
    <3>2. CASE i \in 0 .. n
      <4>1. h[i] = Next1(g, i)
        BY <2>2, <3>2
      <4>2. i # 0 => h[i - 1] = g[i - 1]
        BY <2>2, <3>2
      <4> HIDE DEF h
      <4> QED
        BY <4>1, <4>2
    <3> QED
      BY <3>1, <3>2
  <2>4. h = [i \in 0 .. n + 1 |-> h[i]]
    OBVIOUS
  <2> HIDE DEF h
  <2>5. h = [i \in 0 .. n + 1 |-> Next1(h, i)]
    <3> HIDE DEF Next1
    <3> QED
      BY <2>3, <2>4
  <2> HIDE DEF Next1
  <2> QED
    BY <2>5, n + 1 \in Nat
<1> HIDE DEF T
<1>3. N \in T
  BY <1>1, <1>2, SetInduction
<1> QED
  BY <1>3 DEF T, RoundsOf

(* A log that has not changed leaves the card where it was.                *)
SameLane(k, j) ==
    \A c \in Cards : j.bump_event_ids[c] = k.bump_event_ids[c] => j.lane_id[c] = k.lane_id[c]

SameLogs(k, j) == \A c \in Cards : j.bump_event_ids[c] = k.bump_event_ids[c]

(* If the card of a round is the only one a call has moved so far, nothing *)
(* had happened before that round.                                         *)
LEMMA NamesStep ==
    ASSUME NEW k, NEW j, NEW i, GoodKitchen(k), GoodKitchen(j), GoodKitchen(i),
           Continues(k, j), SameLane(k, j), NEW d \in Cards, OneMore(j, i, d),
           SameLogs(k, j) => last_event(i, d).kind = Direction(j.lane_id[d], i.lane_id[d])
    PROVE  NamesDirection(k, i)
<1> SUFFICES ASSUME NEW c \in Cards, OnlyMove(k, i, c)
             PROVE  last_event(i, c).kind = Direction(k.lane_id[c], i.lane_id[c])
  BY DEF NamesDirection
<1>1. \A x \in Cards : /\ k.bump_event_ids[x] \in Seq(Event) /\ j.bump_event_ids[x] \in Seq(Event)
                       /\ i.bump_event_ids[x] \in Seq(Event)
                       /\ LogKept(k.bump_event_ids[x], j.bump_event_ids[x])
  BY DEF GoodKitchen, Kitchen, Continues
<1>2. \A x \in Cards : /\ Len(k.bump_event_ids[x]) \in Nat /\ Len(j.bump_event_ids[x]) \in Nat
                       /\ Len(k.bump_event_ids[x]) <= Len(j.bump_event_ids[x])
  BY <1>1 DEF LogKept
<1>3. c = d
  <2> SUFFICES ASSUME c # d PROVE FALSE
    OBVIOUS
  <2>1. i.bump_event_ids[d] = k.bump_event_ids[d]
    BY DEF OnlyMove
  <2>2. Len(i.bump_event_ids[d]) = Len(j.bump_event_ids[d]) + 1
    BY DEF OneMore
  <2> QED
    BY <1>2, <2>1, <2>2
<1>4. j.bump_event_ids[c] = k.bump_event_ids[c]
  <2>1. Len(j.bump_event_ids[c]) = Len(k.bump_event_ids[c])
    <3>1. /\ Len(i.bump_event_ids[c]) = Len(j.bump_event_ids[c]) + 1
          /\ Len(i.bump_event_ids[c]) = Len(k.bump_event_ids[c]) + 1
      BY <1>3 DEF OneMore, OnlyMove
    <3> QED
      BY <1>2, <3>1
  <2> DEFINE p == k.bump_event_ids[c]  q == j.bump_event_ids[c]
  <2>2. p \in Seq(Event) /\ q \in Seq(Event) /\ Len(q) = Len(p)
        /\ \A n \in 1 .. Len(p) : q[n] = p[n]
    BY <1>1, <2>1 DEF LogKept
  <2> HIDE DEF p, q
  <2>3. q = p
    BY <2>2
  <2> QED
    BY <2>3 DEF p, q
<1>5. SameLogs(k, j)
  BY <1>3, <1>4 DEF SameLogs, OneMore, OnlyMove
<1> QED
  BY <1>3, <1>5 DEF SameLane, SameLogs

(* A move that leaves every open card ready stamps the ticket.             *)
LEMMA MoveStamps ==
    ASSUME NEW s \in Loop, Stamped(s.kitchen), NEW c \in Cards, NEW index \in Int
    PROVE  Stamped(move_to(s, c, index).kitchen)
<1> DEFINE k == s.kitchen
           to == Target(index)
           kind == IF s.kind # NoKind THEN s.kind
                   ELSE IF to > k.lane_id[c] THEN "bumped" ELSE "recalled"
           m == [k EXCEPT
                   !.lane_id = [k.lane_id EXCEPT ![c] = to],
                   !.bump_event_ids = [k.bump_event_ids EXCEPT
                       ![c] = Logged(k, c, kind, k.lane_id[c], to)]]
<1>1. CASE to = k.lane_id[c]
  <2>1. move_to(s, c, index).kitchen = k
    BY <1>1 DEF move_to, Loop
  <2> QED
    BY <2>1
<1>2. CASE to # k.lane_id[c]
  <2> DEFINE j == _maybe_mark_ready(m)
  <2>1. move_to(s, c, index).kitchen = j
    BY <1>2 DEF move_to
  <2>2. /\ j.lane_id = m.lane_id /\ j.bump_event_ids = m.bump_event_ids
        /\ j.completion_time = (m.completion_time \/ AllReady(m))
    <3>1. k \in Kitchen
      BY DEF Loop
    <3> QED
      BY <3>1 DEF _maybe_mark_ready, Kitchen, AllReady
  <2> HIDE DEF j, m
  <2>3. AllReady(j) => AllReady(m)
    BY <2>2 DEF AllReady, _open_cards, Placed, last_event
  <2> QED
    BY <2>1, <2>2, <2>3 DEF Stamped
<1> QED
  BY <1>1, <1>2

(* A void is in the log for good.                                          *)
LEMMA VoidStamps ==
    ASSUME NEW s \in Loop, NEW c \in Cards
    PROVE  Stamped(void(s, c).kitchen)
<1> DEFINE k == s.kitchen
           log == k.bump_event_ids[c]
           e == [kind |-> "voided", from |-> NoLane, to |-> k.lane_id[c]]
           new == Append(log, e)
           j == void(s, c).kitchen
<1>1. k \in Kitchen /\ log \in Seq(Event)
  BY DEF Loop, Kitchen
<1>2. j.bump_event_ids[c] = new
  BY <1>1 DEF void, Logged, Kitchen, Loop
<1>3. Len(new) \in 1 .. Len(new) /\ new[Len(new)] = e
  BY <1>1
<1>4. e.kind = "voided"
  OBVIOUS
<1> HIDE DEF e, new, j
<1>5. ~NeverVoided(j)
  BY <1>2, <1>3, <1>4 DEF NeverVoided
<1> QED
  BY <1>5 DEF Stamped, j

(* What the rounds so far leave, if none has failed.                       *)
IsLoop(s) ==
    /\ s = [kitchen |-> s.kitchen, kind |-> s.kind, failed |-> s.failed]
    /\ s.failed \in BOOLEAN

Fine(k, op, s) ==
    /\ s \in Loop
    /\ GoodKitchen(s.kitchen) /\ Continues(k, s.kitchen) /\ SameItems(k, s.kitchen)
    /\ SameLane(k, s.kitchen)
    /\ NamesDirection(k, s.kitchen)
    /\ op.action = "void" => s.kitchen.lane_id = k.lane_id
    /\ op.action = "move" /\ SameLogs(k, s.kitchen) => s.kind = NoKind
    /\ Stamped(k) => Stamped(s.kitchen)

Done(k, op, s) == IsLoop(s) /\ (~s.failed => Fine(k, op, s))

LEMMA ContinuesOn ==
    ASSUME NEW k, NEW j, NEW i, GoodKitchen(k), GoodKitchen(j), GoodKitchen(i),
           Continues(k, j), Continues(j, i)
    PROVE  Continues(k, i)
<1>1. ASSUME NEW c \in Cards PROVE LogKept(k.bump_event_ids[c], i.bump_event_ids[c])
  <2>1. /\ LogKept(k.bump_event_ids[c], j.bump_event_ids[c])
        /\ LogKept(j.bump_event_ids[c], i.bump_event_ids[c])
    BY DEF Continues
  <2>2. /\ Len(k.bump_event_ids[c]) \in Nat /\ Len(j.bump_event_ids[c]) \in Nat
        /\ Len(i.bump_event_ids[c]) \in Nat
    <3>1. /\ k.bump_event_ids[c] \in Seq(Event) /\ j.bump_event_ids[c] \in Seq(Event)
          /\ i.bump_event_ids[c] \in Seq(Event)
      BY DEF GoodKitchen, Kitchen
    <3> QED
      BY <3>1
  <2> QED
    BY <2>1, <2>2 DEF LogKept
<1> QED
  BY <1>1 DEF Continues

(* A round of moving, whose kind is carried on or not.                     *)
LEMMA MovingRound ==
    ASSUME NEW k, GoodKitchen(k), NEW op, op.action # "void", NEW s, Fine(k, op, s),
           NEW c \in Cards, Placed(s.kitchen, c), NEW index \in Int, index < NumLanes,
           NEW r \in Loop, r.kitchen = s.kitchen,
           op.action = "move" => r.kind = s.kind, op.action # "move" => r.kind = NoKind
    PROVE  Fine(k, op, move_to(r, c, index))
<1> DEFINE j == s.kitchen  t == move_to(r, c, index)  i == t.kitchen
<1>1. GoodKitchen(j) /\ Continues(k, j) /\ SameItems(k, j) /\ SameLane(k, j)
      /\ NamesDirection(k, j) /\ (op.action = "move" /\ SameLogs(k, j) => s.kind = NoKind)
      /\ (Stamped(k) => Stamped(j))
  BY DEF Fine
<1>2. /\ t \in Loop
      /\ GoodKitchen(i) /\ Continues(j, i) /\ SameItems(j, i)
      /\ \/ i = j /\ t.kind = r.kind
         \/ /\ OneMore(j, i, c)
            /\ last_event(i, c).kind = t.kind /\ t.kind # NoKind
            /\ r.kind = NoKind => t.kind = Direction(j.lane_id[c], i.lane_id[c])
  BY <1>1, MoveKeeps
<1>3. Stamped(k) => Stamped(i)
  BY <1>1, MoveStamps
<1> HIDE DEF i, t
<1>4. Continues(k, i) /\ SameItems(k, i)
  BY <1>1, <1>2, ContinuesOn DEF SameItems
<1>5. CASE i = j /\ t.kind = r.kind
  <2>1. op.action = "move" /\ SameLogs(k, i) => t.kind = NoKind
    BY <1>1, <1>5
  <2> QED
    BY <1>1, <1>2, <1>3, <1>4, <1>5, <2>1 DEF Fine, i, t
<1>6. CASE /\ OneMore(j, i, c)
           /\ last_event(i, c).kind = t.kind /\ t.kind # NoKind
           /\ r.kind = NoKind => t.kind = Direction(j.lane_id[c], i.lane_id[c])
  <2>1. SameLogs(k, j) => r.kind = NoKind
    BY <1>1
  <2>2. NamesDirection(k, i)
    BY <1>1, <1>2, <1>6, <2>1, NamesStep
  <2>3. k.bump_event_ids[c] # i.bump_event_ids[c]
    <3>1. /\ k.bump_event_ids[c] \in Seq(Event) /\ j.bump_event_ids[c] \in Seq(Event)
          /\ LogKept(k.bump_event_ids[c], j.bump_event_ids[c])
          /\ Len(i.bump_event_ids[c]) = Len(j.bump_event_ids[c]) + 1
      BY <1>1, <1>6 DEF GoodKitchen, Kitchen, Continues, OneMore
    <3>2. /\ Len(k.bump_event_ids[c]) \in Nat /\ Len(j.bump_event_ids[c]) \in Nat
          /\ Len(k.bump_event_ids[c]) <= Len(j.bump_event_ids[c])
      BY <3>1 DEF LogKept
    <3> QED
      BY <3>1, <3>2
  <2>4. SameLane(k, i)
    BY <1>1, <1>6, <2>3 DEF SameLane, OneMore
  <2>5. ~SameLogs(k, i)
    BY <2>3 DEF SameLogs
  <2> QED
    BY <1>2, <1>3, <1>4, <2>2, <2>4, <2>5 DEF Fine, i, t
<1> QED
  BY <1>2, <1>5, <1>6

LEMMA RoundDone ==
    ASSUME NEW k, GoodKitchen(k), NEW op \in Ops, NEW s, Done(k, op, s),
           NEW c \in Cards, Placed(k, c)
    PROVE  Done(k, op, Round(s, op, c))
<1>1. IsLoop(s) /\ (~s.failed => Fine(k, op, s))
  BY DEF Done
<1>2. ASSUME Fine(k, op, s) PROVE Placed(s.kitchen, c) /\ s.kitchen.lane_id[c] \in Int
  <2>1. /\ k.bump_event_ids[c] \in Seq(Event) /\ s.kitchen.bump_event_ids[c] \in Seq(Event)
        /\ LogKept(k.bump_event_ids[c], s.kitchen.bump_event_ids[c])
        /\ s.kitchen.lane_id[c] \in Lanes \cup {NoLane}
    BY <1>2 DEF Fine, GoodKitchen, Kitchen, Continues
  <2>2. Placed(s.kitchen, c)
    BY <2>1 DEF Placed, LogKept
  <2> QED
    BY <2>1, <2>2, LanesAssumption DEF Lanes, NoLane
<1>3. CASE op.action = "move"
  <2> DEFINE t == move_to(s, c, op.index)
  <2>1. Round(s, op, c) = t
    BY <1>3 DEF Round
  <2>2. op.index \in Int
    BY DEF Ops
  <2>3. IsLoop(t) /\ t.failed = (s.failed \/ op.index >= NumLanes)
    BY <1>1 DEF move_to, IsLoop
  <2>4. ASSUME ~t.failed PROVE Fine(k, op, t)
    <3>1. ~s.failed /\ ~(op.index >= NumLanes)
      BY <2>3, <2>4
    <3>2. op.index < NumLanes
      BY <2>2, <3>1, LanesAssumption
    <3>3. Fine(k, op, s) /\ s \in Loop
      BY <1>1, <3>1 DEF Fine
    <3> QED
      BY <1>2, <1>3, <2>2, <3>2, <3>3, MovingRound
  <2> HIDE DEF t
  <2> QED
    BY <2>1, <2>3, <2>4 DEF Done
<1>4. CASE op.action = "advance"
  <2> DEFINE r == [s EXCEPT !.kind = NoKind]
             index == s.kitchen.lane_id[c] + op.index
             t == move_to(r, c, index)
  <2>1. Round(s, op, c) = t
    BY <1>4 DEF Round, advance
  <2>2. op.index \in Int
    BY DEF Ops
  <2>3. /\ r = [kitchen |-> s.kitchen, kind |-> NoKind, failed |-> s.failed]
        /\ r.failed = s.failed /\ r.kitchen = s.kitchen /\ r.kind = NoKind
    BY <1>1 DEF IsLoop
  <2> HIDE DEF r, index
  <2>4. IsLoop(t) /\ t.failed = (s.failed \/ index >= NumLanes)
    BY <1>1, <2>3 DEF move_to, IsLoop
  <2>5. ASSUME ~t.failed PROVE Fine(k, op, t)
    <3>1. ~s.failed /\ ~(index >= NumLanes)
      BY <2>4, <2>5 DEF IsLoop
    <3>2. Fine(k, op, s) /\ s \in Loop
      BY <1>1, <3>1 DEF Fine
    <3>3. index \in Int
      BY <1>2, <2>2, <3>2 DEF index
    <3>4. index < NumLanes
      BY <3>1, <3>3, LanesAssumption
    <3>5. r \in Loop
      BY <2>3, <3>2 DEF Loop
    <3> QED
      BY <1>2, <1>4, <2>3, <3>2, <3>3, <3>4, <3>5, MovingRound
  <2> HIDE DEF t
  <2> QED
    BY <2>1, <2>4, <2>5 DEF Done
<1>5. CASE op.action = "void"
  <2> DEFINE t == void(s, c)
  <2>1. Round(s, op, c) = t
    BY <1>5 DEF Round
  <2>2. IsLoop(t) /\ t.failed = s.failed
    BY <1>1 DEF void, IsLoop
  <2>3. ASSUME ~t.failed PROVE Fine(k, op, t)
    <3> DEFINE j == s.kitchen  i == t.kitchen
    <3>1. Fine(k, op, s) /\ s \in Loop
      BY <1>1, <2>2, <2>3 DEF Fine
    <3>2. GoodKitchen(j) /\ Continues(k, j) /\ SameItems(k, j) /\ j.lane_id = k.lane_id
      BY <1>5, <3>1 DEF Fine
    <3>3. /\ t \in Loop /\ GoodKitchen(i) /\ Continues(j, i) /\ SameItems(j, i)
          /\ i.lane_id = j.lane_id
      BY <1>2, <3>1, <3>2, VoidKeeps
    <3>4. Stamped(i)
      BY <3>1, VoidStamps
    <3> HIDE DEF i, t
    <3>5. Continues(k, i) /\ SameItems(k, i) /\ i.lane_id = k.lane_id
      BY <3>2, <3>3, ContinuesOn DEF SameItems
    <3>6. SameLane(k, i) /\ NamesDirection(k, i)
      BY <3>5 DEF SameLane, NamesDirection, OnlyMove
    <3> QED
      BY <1>5, <3>3, <3>4, <3>5, <3>6 DEF Fine, i
  <2> HIDE DEF t
  <2> QED
    BY <2>1, <2>2, <2>3 DEF Done
<1> QED
  BY <1>3, <1>4, <1>5 DEF Ops

LEMMA CallKeeps ==
    ASSUME NEW k, GoodKitchen(k), NEW op \in Ops, NEW cards \in Seq(Cards),
           \A n \in DOMAIN cards : Placed(k, cards[n])
    PROVE  Done(k, op, ForEach(k, op, cards))
<1> DEFINE N == Len(cards)  g == Rounds(k, op, cards)
           T == {n \in Nat : n <= N => Done(k, op, g[n])}
<1>1. N \in Nat
  OBVIOUS
<1>2. g = [n \in 0 .. N |-> IF n = 0 THEN [kitchen |-> k, kind |-> NoKind, failed |-> FALSE]
                            ELSE Round(g[n - 1], op, cards[n])]
  <2>1. RoundsOf(k, op, cards, Rounds(k, op, cards))
    BY <1>1, RoundsExist DEF Rounds
  <2> QED
    BY <2>1 DEF RoundsOf
<1> HIDE DEF g
<1>3. 0 \in T
  <2> DEFINE s == [kitchen |-> k, kind |-> NoKind, failed |-> FALSE]
  <2>1. g[0] = s
    BY <1>1, <1>2
  <2>2. IsLoop(s) /\ s.kitchen = k /\ s.kind = NoKind /\ s \in Loop
    BY DEF IsLoop, GoodKitchen, Loop
  <2>3. Continues(k, k) /\ SameItems(k, k) /\ SameLane(k, k) /\ NamesDirection(k, k)
    BY SameLog DEF Continues, SameItems, SameLane, NamesDirection, OnlyMove
  <2> HIDE DEF s
  <2>4. Fine(k, op, s)
    BY <2>2, <2>3 DEF Fine
  <2> QED
    BY <1>1, <2>1, <2>2, <2>4 DEF Done
<1>4. ASSUME NEW n \in Nat, n \in T PROVE n + 1 \in T
  <2> SUFFICES ASSUME n + 1 <= N PROVE Done(k, op, g[n + 1])
    OBVIOUS
  <2>1. Done(k, op, g[n])
    BY <1>1, <1>4
  <2>2. g[n + 1] = Round(g[n], op, cards[n + 1])
    <3>1. n + 1 \in 0 .. N /\ n + 1 # 0 /\ (n + 1) - 1 = n
      BY <1>1
    <3> HIDE DEF N
    <3> QED
      BY <1>2, <3>1
  <2>3. n + 1 \in DOMAIN cards /\ cards[n + 1] \in Cards
    BY <1>1
  <2> QED
    BY <2>1, <2>2, <2>3, RoundDone
<1> HIDE DEF T
<1>5. N \in T
  BY <1>1, <1>3, <1>4, SetInduction
<1> QED
  BY <1>1, <1>5, ForEachUnfolds DEF T, g
-----------------------------------------------------------------------------
(* The inductive invariant                                                 *)

(* What an intake that did not raise leaves, which the stations' calls do  *)
(* not change.                                                             *)
Exact ==
    intake = "complete"
        => \A l \in _eh_kds_routable_lines(lines, fired) : known(kitchen, l) = qty[l]

OrderOK ==
    /\ lines \in SUBSET Lines
    /\ qty \in [Lines -> 0 .. MaxQty]
    /\ fired \in SUBSET Lines
    /\ paid \in BOOLEAN
    /\ intake \in {"none", "complete", "raised"}

IInv == OrderOK /\ GoodKitchen(kitchen) /\ Exact

LEMMA IntakeInit == Init => IInv
<1> SUFFICES ASSUME Init PROVE IInv
  OBVIOUS
<1>1. OrderOK /\ Exact
  <2>1. 0 \in 0 .. MaxQty
    BY BoundsAssumption
  <2>2. OrderOK
    BY <2>1 DEF Init, OrderOK
  <2>3. Exact
    BY DEF Init, Exact
  <2> QED
    BY <2>2, <2>3
<1>2. EmptyKitchen \in Kitchen
  BY DEF EmptyKitchen, Kitchen
<1>3. GoodKitchen(EmptyKitchen)
  BY <1>2 DEF EmptyKitchen, GoodKitchen, GoodCard, Placed
<1> QED
  BY <1>1, <1>3 DEF IInv, Init

LEMMA SyncStep == ASSUME IInv, Sync PROVE IInv' /\ KeepsHistory
<1>1. PICK L \in SUBSET Lines, F \in SUBSET Lines, p \in BOOLEAN :
        \E q \in [L -> 0 .. MaxQty] :
            ReceiveOrder(L, q, F, p)
            /\ \E at \in [Cards -> TargetLanes \cup {NoLane}] : _process_order(at)
  BY DEF Sync
<1>2. PICK q \in [L -> 0 .. MaxQty], at \in [Cards -> TargetLanes \cup {NoLane}] :
        ReceiveOrder(L, q, F, p) /\ _process_order(at)
  BY <1>1
<1>3. /\ lines' \in SUBSET Lines /\ qty' \in [Lines -> 0 .. MaxQty]
      /\ fired' \in SUBSET Lines /\ paid' \in BOOLEAN
  BY <1>2, BoundsAssumption DEF ReceiveOrder
<1> DEFINE R == _eh_kds_routable_lines(lines', fired')
           once == _eh_kds_intake(kitchen, R, qty', at)
<1>4. IntakeInput(R, qty', at)
  BY <1>2, <1>3 DEF IntakeInput, _eh_kds_routable_lines
<1>5. GoodKitchen(kitchen)
  BY DEF IInv
<1>6. /\ GoodKitchen(once) /\ Continues(kitchen, once)
      /\ Outcome(kitchen, R, qty') = "complete" => \A l \in R : known(once, l) = qty'[l]
  BY <1>4, <1>5, IntakeKeeps
<1>7. SUFFICES /\ GoodKitchen(kitchen') /\ Continues(kitchen, kitchen')
               /\ intake' \in {"none", "complete", "raised"}
               /\ intake' = "complete" => \A l \in R : known(kitchen', l) = qty'[l]
  BY <1>3 DEF IInv, OrderOK, Exact, KeepsHistory, Continues, GoodKitchen, known,
              _eh_kds_routable_lines, Placed, HasItem
<1> HIDE DEF R
<1>8. CASE kitchen' = kitchen /\ intake' = "none"
  <2>1. Continues(kitchen, kitchen)
    BY SameLog DEF Continues
  <2> QED
    BY <1>5, <1>8, <2>1
<1>9. CASE kitchen' = once /\ intake' = Outcome(kitchen, R, qty')
  BY <1>6, <1>9 DEF Outcome
<1>10. CASE /\ kitchen' = _eh_kds_intake(once, R, qty', at)
            /\ intake' = Outcome(once, R, qty')
  <2> DEFINE twice == _eh_kds_intake(once, R, qty', at)
  <2> HIDE DEF once
  <2>1. /\ GoodKitchen(twice) /\ Continues(once, twice)
        /\ Outcome(once, R, qty') = "complete" => \A l \in R : known(twice, l) = qty'[l]
    BY <1>4, <1>6, IntakeKeeps
  <2>2. Continues(kitchen, twice)
    <3> HIDE DEF twice
    <3>1. ASSUME NEW c \in Cards
          PROVE  LogKept(kitchen.bump_event_ids[c], twice.bump_event_ids[c])
      <4>1. /\ LogKept(kitchen.bump_event_ids[c], once.bump_event_ids[c])
            /\ LogKept(once.bump_event_ids[c], twice.bump_event_ids[c])
        BY <1>6, <2>1 DEF Continues
      <4>2. /\ Len(kitchen.bump_event_ids[c]) \in Nat
            /\ Len(once.bump_event_ids[c]) \in Nat
            /\ Len(twice.bump_event_ids[c]) \in Nat
        <5>1. /\ kitchen.bump_event_ids[c] \in Seq(Event)
              /\ once.bump_event_ids[c] \in Seq(Event)
              /\ twice.bump_event_ids[c] \in Seq(Event)
          BY <1>5, <1>6, <2>1 DEF GoodKitchen, Kitchen
        <5> QED
          BY <5>1
      <4> QED
        BY <4>1, <4>2 DEF LogKept
    <3> QED
      BY <1>6, <2>1, <3>1 DEF Continues
  <2> QED
    BY <1>10, <2>1, <2>2 DEF Outcome
<1> QED
  BY <1>2, <1>8, <1>9, <1>10 DEF _process_order, R, once

(* A call of a station, its cards all of one board.                        *)
StationCall(op, cards) == op \in Ops /\ cards \in Seq(Cards) /\ board_op(op, cards)

LEMMA StationCalls == ASSUME Station PROVE \E op, cards : StationCall(op, cards)
<1>1. PICK b \in Boards, n \in 1 .. MaxNamed : \E cards \in [1 .. n -> Lines \X {b}] :
        Move(cards) \/ Advance(cards) \/ Recall(cards) \/ Void(cards)
  BY DEF Station
<1>2. PICK cards \in [1 .. n -> Lines \X {b}] :
        Move(cards) \/ Advance(cards) \/ Recall(cards) \/ Void(cards)
  BY <1>1
<1>3. n \in Nat /\ cards \in Seq(Cards)
  BY BoundsAssumption DEF Cards
<1>4. PICK op \in Ops : board_op(op, cards)
  <2>1. ASSUME NEW index \in -1 .. NumLanes PROVE [action |-> "move", index |-> index] \in Ops
    BY LanesAssumption DEF Ops
  <2>2. /\ [action |-> "advance", index |-> 1] \in Ops
        /\ [action |-> "advance", index |-> -1] \in Ops
        /\ [action |-> "void", index |-> 0] \in Ops
    BY DEF Ops
  <2> QED
    BY <1>2, <2>1, <2>2 DEF Move, Advance, Recall, Void
<1> QED
  BY <1>3, <1>4 DEF StationCall

LEMMA CallFine ==
    ASSUME IInv, NEW op, NEW cards, StationCall(op, cards)
    PROVE  /\ GoodKitchen(kitchen') /\ Continues(kitchen, kitchen')
           /\ SameItems(kitchen, kitchen') /\ NamesDirection(kitchen, kitchen')
           /\ Stamped(kitchen) => Stamped(kitchen')
           /\ UNCHANGED <<orderVars, intake>>
<1> DEFINE s == ForEach(kitchen, op, cards)
<1>1. /\ op \in Ops /\ cards \in Seq(Cards) /\ GoodKitchen(kitchen)
      /\ \A n \in DOMAIN cards : Placed(kitchen, cards[n])
      /\ ~s.failed /\ kitchen' = s.kitchen /\ UNCHANGED <<orderVars, intake>>
  BY DEF StationCall, board_op, IInv
<1>2. Done(kitchen, op, s)
  BY <1>1, CallKeeps
<1> HIDE DEF s
<1> QED
  BY <1>1, <1>2 DEF Done, Fine

LEMMA StationStep ==
    ASSUME IInv, Station
    PROVE  IInv' /\ KeepsHistory /\ NamesDirection(kitchen, kitchen')
<1>1. PICK op, cards : StationCall(op, cards)
  BY StationCalls
<1>2. /\ GoodKitchen(kitchen') /\ Continues(kitchen, kitchen')
      /\ SameItems(kitchen, kitchen') /\ NamesDirection(kitchen, kitchen')
      /\ UNCHANGED <<orderVars, intake>>
  BY <1>1, CallFine
<1>3. /\ lines' = lines /\ qty' = qty /\ fired' = fired /\ paid' = paid /\ intake' = intake
  BY <1>2 DEF orderVars
<1>4. OrderOK' /\ Exact'
  BY <1>2, <1>3 DEF IInv, OrderOK, Exact, known, _eh_kds_routable_lines, SameItems
<1>5. GoodKitchen(kitchen)'
  BY <1>2 DEF GoodKitchen, Placed, HasItem
<1> QED
  BY <1>2, <1>4, <1>5 DEF IInv, KeepsHistory, Continues

(* An intake leaves the cards there are where they are.                    *)
LEMMA IntakeLanes ==
    ASSUME NEW k, GoodKitchen(k), NEW R, NEW q, NEW at, NEW c \in Cards, Placed(k, c)
    PROVE  _eh_kds_intake(k, R, q, at).lane_id[c] = k.lane_id[c]
<1>1. ~Places(k, R, q, at, c)
  BY DEF GoodKitchen, Places
<1> QED
  BY <1>1 DEF _eh_kds_intake, LanesAfter

LEMMA SyncNames == ASSUME IInv, Sync PROVE NamesDirection(kitchen, kitchen')
<1>1. PICK L \in SUBSET Lines, F \in SUBSET Lines, p \in BOOLEAN :
        \E q \in [L -> 0 .. MaxQty] :
            ReceiveOrder(L, q, F, p)
            /\ \E at \in [Cards -> TargetLanes \cup {NoLane}] : _process_order(at)
  BY DEF Sync
<1>2. PICK q \in [L -> 0 .. MaxQty], at \in [Cards -> TargetLanes \cup {NoLane}] :
        ReceiveOrder(L, q, F, p) /\ _process_order(at)
  BY <1>1
<1> DEFINE R == _eh_kds_routable_lines(lines', fired')
           once == _eh_kds_intake(kitchen, R, qty', at)
<1>3. IntakeInput(R, qty', at)
  BY <1>2, BoundsAssumption DEF IntakeInput, _eh_kds_routable_lines, ReceiveOrder
<1>4. GoodKitchen(kitchen)
  BY DEF IInv
<1> HIDE DEF R
<1>5. GoodKitchen(once) /\ Continues(kitchen, once)
  BY <1>3, <1>4, IntakeKeeps
<1> SUFFICES ASSUME NEW c \in Cards, Placed(kitchen, c)
             PROVE  kitchen'.lane_id[c] = kitchen.lane_id[c]
  BY DEF NamesDirection, OnlyMove
<1>6. once.lane_id[c] = kitchen.lane_id[c]
  BY <1>4, IntakeLanes
<1> HIDE DEF once
<1>7. Placed(once, c)
  <2>1. /\ kitchen.bump_event_ids[c] \in Seq(Event) /\ once.bump_event_ids[c] \in Seq(Event)
        /\ LogKept(kitchen.bump_event_ids[c], once.bump_event_ids[c])
    BY <1>4, <1>5 DEF GoodKitchen, Kitchen, Continues
  <2> QED
    BY <2>1 DEF Placed, LogKept
<1>8. _eh_kds_intake(once, R, qty', at).lane_id[c] = once.lane_id[c]
  BY <1>5, <1>7, IntakeLanes
<1> QED
  BY <1>2, <1>6, <1>8 DEF _process_order, R, once

LEMMA IntakeInductive ==
    IInv /\ [Next]_vars => /\ IInv' /\ [KeepsHistory]_vars
                          /\ [NamesDirection(kitchen, kitchen')]_vars
<1> SUFFICES ASSUME IInv, [Next]_vars
             PROVE  IInv' /\ [KeepsHistory]_vars /\ [NamesDirection(kitchen, kitchen')]_vars
  OBVIOUS
<1>1. CASE Sync
  BY <1>1, SyncStep, SyncNames
<1>2. CASE Station
  BY <1>2, StationStep
<1>3. CASE UNCHANGED vars
  <2>1. /\ lines' = lines /\ qty' = qty /\ fired' = fired /\ paid' = paid
        /\ intake' = intake /\ kitchen' = kitchen
    BY <1>3 DEF vars
  <2>2. GoodKitchen(kitchen)'
    BY <2>1 DEF IInv, GoodKitchen, Placed, HasItem
  <2> QED
    BY <1>3, <2>1, <2>2 DEF IInv, OrderOK, Exact, known, _eh_kds_routable_lines
<1> QED
  BY <1>1, <1>2, <1>3 DEF Next
-----------------------------------------------------------------------------
LEMMA IntakeInvariant == Spec => []IInv
BY IntakeInit, IntakeInductive, PTL DEF Spec

(* Every variable keeps its type, the lanes and event logs of the cards    *)
(* among them.                                                             *)
THEOREM TypeCorrect == Spec => []TypeOK
<1>1. IInv => TypeOK
  BY DEF IInv, OrderOK, GoodKitchen, TypeOK
<1> QED
  BY <1>1, IntakeInvariant, PTL

(* A card is the projection of its log, whatever syncs and station calls   *)
(* came before.                                                            *)
THEOREM LaneIsProjection == Spec => []HistoryReplays
<1>1. IInv => HistoryReplays
  BY DEF IInv, GoodKitchen, HistoryReplays
<1> QED
  BY <1>1, IntakeInvariant, PTL

(* An intake that does not raise leaves the kitchen asked for exactly what *)
(* the order holds, and no item is ever over-cancelled.                    *)
THEOREM CompleteIntakeIsExact == Spec => []IntakeExact
<1>1. IInv => IntakeExact
  BY DEF IInv, GoodKitchen, Exact, IntakeExact, CancelledWithin
<1> QED
  BY <1>1, IntakeInvariant, PTL

(* The event log is append-only: no step edits or drops an event.          *)
THEOREM LogIsAppendOnly == Spec => AppendOnly
BY IntakeInvariant, IntakeInductive, PTL DEF Spec, AppendOnly

(* A call that moves one card once names the direction it went in.         *)
THEOREM DirectionIsNamed == Spec => OnlyMoveNamed
BY IntakeInvariant, IntakeInductive, PTL DEF Spec, OnlyMoveNamed
-----------------------------------------------------------------------------
(* A ticket whose open cards are all ready has been stamped: Stamped is    *)
(* inductive relative to IInv as long as nothing was voided.               *)

(* An intake neither stamps a ticket nor makes one ready: a card it places *)
(* is not ready, and a card it voids leaves a void in the log.             *)
LEMMA IntakeStamps ==
    ASSUME NoneArrivesReady, NEW k, GoodKitchen(k), Stamped(k),
           NEW R, NEW q, NEW at, IntakeInput(R, q, at)
    PROVE  Stamped(_eh_kds_intake(k, R, q, at))
<1> DEFINE j == _eh_kds_intake(k, R, q, at)
<1>1. /\ j.lane_id = LanesAfter(k, R, q, at) /\ j.bump_event_ids = EventsAfter(k, R, q, at)
      /\ j.completion_time = k.completion_time
  BY DEF _eh_kds_intake
<1> SUFFICES ASSUME NeverVoided(j), AllReady(j) PROVE k.completion_time
  BY <1>1 DEF Stamped
<1> HIDE DEF j
<1>2. ASSUME NEW c \in Cards PROVE ~Places(k, R, q, at, c)
  <2> SUFFICES ASSUME Places(k, R, q, at, c) PROVE FALSE
    OBVIOUS
  <2> DEFINE e == [kind |-> "placed", from |-> NoLane, to |-> at[c]]
             log == k.bump_event_ids[c]
  <2>1. at[c] \in TargetLanes /\ at[c] \in Lanes
    BY TargetAssumption DEF Places, IntakeInput
  <2>2. log \in Seq(Event) /\ e \in Event
    BY <2>1 DEF GoodKitchen, Kitchen, Event, Kinds
  <2>3. j.lane_id[c] = at[c] /\ j.bump_event_ids[c] = Append(log, e)
    BY <1>1 DEF LanesAfter, EventsAfter, Logged
  <2>4. /\ Append(log, e) # <<>>
        /\ Append(log, e)[Len(Append(log, e))] = e
    BY <2>2
  <2>5. e.kind # "voided"
    OBVIOUS
  <2> HIDE DEF e, log
  <2>6. c \in _open_cards(j)
    BY <2>3, <2>4, <2>5 DEF _open_cards, Placed, last_event
  <2>7. NumLanes >= 2 => at[c] >= NumLanes - 2
    BY <2>3, <2>6 DEF AllReady
  <2>8. at[c] < NumLanes - 2 /\ at[c] \in Nat /\ NumLanes \in Nat
    BY <2>1, LanesAssumption DEF NoneArrivesReady, Lanes
  <2> QED
    BY <2>7, <2>8
<1>3. ASSUME NEW c \in Cards PROVE ~Cancels(k, R, q, c)
  <2> SUFFICES ASSUME Cancels(k, R, q, c) PROVE FALSE
    OBVIOUS
  <2> DEFINE log == k.bump_event_ids[c]
             e == [kind |-> "voided", from |-> NoLane, to |-> k.lane_id[c]]
             new == Append(log, e)
  <2>1. j.bump_event_ids[c] = new
    BY <1>1, <1>2 DEF EventsAfter, Logged
  <2>2. log \in Seq(Event)
    BY DEF GoodKitchen, Kitchen
  <2>3. Len(new) \in 1 .. Len(new) /\ new[Len(new)] = e
    BY <2>2
  <2>4. e.kind = "voided"
    OBVIOUS
  <2> HIDE DEF e, new
  <2> QED
    BY <2>1, <2>3, <2>4 DEF NeverVoided
<1>4. ASSUME NEW c \in Cards
      PROVE j.lane_id[c] = k.lane_id[c] /\ j.bump_event_ids[c] = k.bump_event_ids[c]
  BY <1>1, <1>2, <1>3 DEF LanesAfter, EventsAfter
<1>5. _open_cards(j) = _open_cards(k)
  BY <1>4 DEF _open_cards, Placed, last_event
<1>6. AllReady(k)
  BY <1>4, <1>5 DEF AllReady, _open_cards
<1>7. NeverVoided(k)
  BY <1>4 DEF NeverVoided
<1> QED
  BY <1>6, <1>7 DEF Stamped

LEMMA SyncStamps ==
    ASSUME NoneArrivesReady, IInv, Stamped(kitchen), Sync PROVE Stamped(kitchen')
<1>1. PICK L \in SUBSET Lines, F \in SUBSET Lines, p \in BOOLEAN :
        \E q \in [L -> 0 .. MaxQty] :
            ReceiveOrder(L, q, F, p)
            /\ \E at \in [Cards -> TargetLanes \cup {NoLane}] : _process_order(at)
  BY DEF Sync
<1>2. PICK q \in [L -> 0 .. MaxQty], at \in [Cards -> TargetLanes \cup {NoLane}] :
        ReceiveOrder(L, q, F, p) /\ _process_order(at)
  BY <1>1
<1> DEFINE R == _eh_kds_routable_lines(lines', fired')
           once == _eh_kds_intake(kitchen, R, qty', at)
<1>3. IntakeInput(R, qty', at)
  BY <1>2, BoundsAssumption DEF IntakeInput, _eh_kds_routable_lines, ReceiveOrder
<1>4. GoodKitchen(kitchen)
  BY DEF IInv
<1> HIDE DEF R
<1>5. GoodKitchen(once) /\ Stamped(once)
  BY <1>3, <1>4, IntakeKeeps, IntakeStamps
<1> HIDE DEF once
<1>6. Stamped(_eh_kds_intake(once, R, qty', at))
  BY <1>3, <1>5, IntakeStamps
<1> QED
  BY <1>2, <1>5, <1>6 DEF _process_order, R, once

LEMMA StationStamps ==
    ASSUME IInv, Stamped(kitchen), Station PROVE Stamped(kitchen')
<1>1. PICK op, cards : StationCall(op, cards)
  BY StationCalls
<1> QED
  BY <1>1, CallFine
-----------------------------------------------------------------------------
(* A ticket whose open cards are all ready has been stamped, unless a card *)
(* of it was voided or the routing places cards in the ready lane.         *)
THEOREM ReadyIsStamped == Spec => []StampedUnlessVoided
<1>1. Init => StampedUnlessVoided
  <2> SUFFICES ASSUME Init PROVE Stamped(kitchen)
    BY DEF StampedUnlessVoided
  <2>1. kitchen = EmptyKitchen
    BY DEF Init
  <2>2. \A c \in Cards : kitchen.bump_event_ids[c] = <<>>
    BY <2>1 DEF EmptyKitchen
  <2>3. _open_cards(kitchen) = {}
    BY <2>2 DEF _open_cards, Placed
  <2> QED
    BY <2>3 DEF Stamped, AllReady
<1>2. IInv /\ StampedUnlessVoided /\ [Next]_vars => StampedUnlessVoided'
  <2> SUFFICES ASSUME IInv, NoneArrivesReady, Stamped(kitchen), [Next]_vars
               PROVE  Stamped(kitchen')
    BY DEF StampedUnlessVoided, NoneArrivesReady, Stamped, NeverVoided, AllReady,
           _open_cards, Placed, last_event
  <2>1. CASE Sync
    BY <2>1, SyncStamps
  <2>2. CASE Station
    BY <2>2, StationStamps
  <2>3. CASE UNCHANGED vars
    BY <2>3 DEF vars
  <2> QED
    BY <2>1, <2>2, <2>3 DEF Next
<1> QED
  BY <1>1, <1>2, IntakeInvariant, PTL DEF Spec
=============================================================================
