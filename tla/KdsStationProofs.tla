-------------------------- MODULE KdsStationProofs --------------------------
(***************************************************************************)
(* The board pages of any number of stations, cards, lanes and replays:    *)
(* no tap is lost between a page, its queue and the server, and a page     *)
(* that shows a card's latest event shows it as the server has it.         *)
(***************************************************************************)
EXTENDS KdsStation, TLAPS

(* What a call carries, a queue holds or a replay has taken was tapped.    *)
Numbered ==
    \A s \in Stations :
        /\ \A call \in calls[s] : call.tap <= Len(taps)
        /\ \A i \in 1 .. Len(queue[s]) : queue[s][i] <= Len(taps)
        /\ \A w \in Workers : \A i \in 1 .. Len(replay[s][w].rows) :
              replay[s][w].rows[i] <= Len(taps)

(* A replay that waits for an answer has sent a row.                       *)
Sent == \A s \in Stations, w \in Workers : replay[s][w].served => replay[s][w].rows # <<>>

TypeInv == TypeOK /\ Numbered /\ Sent

LEMMA OffBoard == Off \in Shown /\ \A l \in Lanes, e \in EventId : [lane |-> l, event_id |-> e] # Off
BY DEF Off, Shown, Lanes

LEMMA TargetInLanes == ASSUME NEW op \in Op, ~Refused(op) PROVE Target(op) \in Lanes
BY LanesAssumption DEF Op, Refused, Target, Lanes

(* A page shows lanes and events, whatever it is told.                     *)
LEMMA LocalIsBoard ==
    ASSUME NEW board \in Board, NEW op \in Op, board[op.card] # Off
    PROVE  _applyLocal(board, op) \in Board
<1>1. op.card \in Cards
  BY DEF Op
<1>2. board[op.card] \in [lane : Lanes, event_id : EventId]
  BY <1>1 DEF Board, Shown
<1>3. CASE op.action = "void" \/ op.to_index >= NumLanes
  BY <1>1, <1>3, OffBoard DEF _applyLocal, Board
<1>4. CASE ~(op.action = "void" \/ op.to_index >= NumLanes)
  <2>1. Target(op) \in Lanes
    BY <1>4, TargetInLanes DEF Refused
  <2>2. [board[op.card] EXCEPT !.lane = Target(op)] \in Shown
    BY <1>2, <2>1 DEF Shown
  <2> QED
    BY <1>1, <1>4, <2>2 DEF _applyLocal, Board
<1> QED
  BY <1>3, <1>4

LEMMA EventIsBoard ==
    ASSUME NEW board \in Board, NEW p \in Payload
    PROVE  onCardEvent(board, p) \in Board
<1>1. (IF p.voided THEN Off ELSE [lane |-> p.lane, event_id |-> p.event_id]) \in Shown
  BY OffBoard DEF Shown, Payload
<1>2. p.card \in Cards
  BY DEF Payload
<1> QED
  BY <1>1, <1>2 DEF onCardEvent, Board

LEMMA DataIsBoard == TypeOK => _kds_board_data \in Board
BY OffBoard DEF TypeOK, Row, Shown, _kds_board_data, Board
-----------------------------------------------------------------------------
(* The server executes a tap                                               *)

(* What a call may leave of a card: the row it was, or a new event.        *)
LEMMA AfterOpRow ==
    ASSUME TypeOK, NEW op \in Op, ~Refused(op)
    PROVE  /\ op.card \in Cards
           /\ AfterOp(op) \in Row
           /\ AfterOp(op) # row[op.card] => AfterOp(op).event_id = last_id + 1
           /\ AfterOp(op) = row[op.card] =>
                 AfterOp(op).event_id = last_id + 1 \/ Target(op) = row[op.card].lane
<1>1. op.card \in Cards
  BY DEF Op
<1>2. row[op.card] \in Row /\ last_id + 1 \in EventId
  BY <1>1 DEF TypeOK, EventId
<1>3. CASE op.action = "void"
  <2>1. AfterOp(op) = [row[op.card] EXCEPT !.voided = TRUE, !.event_id = last_id + 1]
    BY <1>3 DEF AfterOp
  <2> QED
    BY <1>1, <1>2, <2>1 DEF Row
<1>4. CASE op.action # "void"
  BY <1>1, <1>2, <1>4, TargetInLanes DEF AfterOp, Row
<1> QED
  BY <1>3, <1>4

(* The server's own variables after it.                                    *)
LEMMA BoardOpType ==
    ASSUME TypeOK, NEW n \in TapId, n <= Len(taps), board_op(n)
    PROVE  /\ row' \in [Cards -> Row] /\ last_id' \in EventId /\ executed' \subseteq TapId
           /\ bus' \in [Stations -> Seq(Payload)]
           /\ taps[n] \in Op
           /\ _kds_payload(taps[n].card, row'[taps[n].card]) \in Payload
<1>1. taps[n] \in Op
  BY DEF TypeOK, TapId
<1> DEFINE op == taps[n]
           r == AfterOp(op)
<1>2. /\ ~Refused(op) /\ row' = [row EXCEPT ![op.card] = r] /\ executed' = executed \cup {n}
      /\ IF r = row[op.card] THEN UNCHANGED <<last_id, bus>>
         ELSE /\ last_id' = last_id + 1
              /\ bus' = [s \in Stations |-> Append(bus[s], _kds_payload(op.card, r))]
  BY DEF board_op
<1>3. op.card \in Cards /\ r \in Row
  BY <1>1, <1>2, AfterOpRow
<1>4. _kds_payload(op.card, r) \in Payload
  BY <1>3 DEF _kds_payload, Payload, Row
<1>5. row' \in [Cards -> Row] /\ row'[op.card] = r
  BY <1>2, <1>3 DEF TypeOK
<1> HIDE DEF op, r
<1>6. bus' \in [Stations -> Seq(Payload)]
  <2>1. bus \in [Stations -> Seq(Payload)]
    BY DEF TypeOK
  <2>2. \A s \in Stations : Append(bus[s], _kds_payload(op.card, r)) \in Seq(Payload)
    BY <1>4, <2>1
  <2> QED
    BY <1>2, <2>1, <2>2
<1>7. last_id' \in EventId /\ executed' \subseteq TapId
  BY <1>2 DEF TypeOK, EventId
<1>8. row'[op.card] = r /\ _kds_payload(op.card, row'[op.card]) \in Payload
  BY <1>4, <1>5
<1> QED
  BY <1>1, <1>5, <1>6, <1>7, <1>8 DEF op
-----------------------------------------------------------------------------

(* What is left of a queue when a row of it is dropped.                    *)
LEMMA WithoutRow ==
    ASSUME NEW S, NEW q \in Seq(S), NEW i \in 1 .. Len(q)
    PROVE  /\ Without(q, i) \in Seq(S)
           /\ Len(Without(q, i)) = Len(q) - 1
           /\ \A k \in 1 .. Len(q) - 1 : Without(q, i)[k] = IF k < i THEN q[k] ELSE q[k + 1]
<1>1. Len(q) - 1 \in Nat
  OBVIOUS
<1>2. \A k \in 1 .. Len(q) - 1 : (IF k < i THEN q[k] ELSE q[k + 1]) \in S
  OBVIOUS
<1> QED
  BY <1>1, <1>2 DEF Without

LEMMA DropType ==
    ASSUME TypeInv, NEW s \in Stations, NEW n \in TapId, drop(s, n)
    PROVE  /\ queue' \in [Stations -> Seq(TapId)]
           /\ \A t \in Stations : \A i \in 1 .. Len(queue'[t]) : queue'[t][i] <= Len(taps)
<1>1. queue \in [Stations -> Seq(TapId)] /\ queue[s] \in Seq(TapId)
  BY DEF TypeInv, TypeOK
<1>2. \A t \in Stations : \A i \in 1 .. Len(queue[t]) : queue[t][i] <= Len(taps)
  BY DEF TypeInv, Numbered
<1>3. CASE UNCHANGED queue
  BY <1>1, <1>2, <1>3
<1>4. ASSUME NEW i \in 1 .. Len(queue[s]), queue' = [queue EXCEPT ![s] = Without(@, i)]
      PROVE  /\ queue' \in [Stations -> Seq(TapId)]
             /\ \A t \in Stations : \A k \in 1 .. Len(queue'[t]) : queue'[t][k] <= Len(taps)
  <2> DEFINE q == Without(queue[s], i)
  <2>1. q \in Seq(TapId) /\ Len(q) = Len(queue[s]) - 1
        /\ \A k \in 1 .. Len(queue[s]) - 1 : q[k] \in {queue[s][k], queue[s][k + 1]}
    BY <1>1, WithoutRow
  <2>2. queue' = [queue EXCEPT ![s] = q]
    BY <1>4
  <2> HIDE DEF q
  <2>3. Len(queue[s]) \in Nat
    BY <1>1
  <2>4. \A k \in 1 .. Len(q) : q[k] <= Len(taps)
    <3> TAKE k \in 1 .. Len(q)
    <3>1. k \in 1 .. Len(queue[s]) /\ k + 1 \in 1 .. Len(queue[s])
      BY <2>1, <2>3
    <3> QED
      BY <1>2, <2>1, <3>1
  <2> QED
    BY <1>1, <1>2, <2>1, <2>2, <2>4
<1> QED
  BY <1>3, <1>4 DEF drop
-----------------------------------------------------------------------------
(* Types                                                                   *)

LEMMA TapType ==
    ASSUME TypeInv, NEW s \in Stations, NEW op \in Op, Tap(s, op)
    PROVE  TypeInv'
<1>1. /\ Len(taps) < MaxTaps /\ cards[s][op.card] # Off
      /\ taps' = Append(taps, op)
      /\ cards' = [cards EXCEPT ![s] = _applyLocal(cards[s], op)]
      /\ calls' = [calls EXCEPT ![s] = @ \cup {[tap |-> Len(taps) + 1, reply |-> <<>>]}]
      /\ UNCHANGED <<row, last_id, executed, bus, queue, replay, wanted, loads, cache, fails>>
  BY DEF Tap, Show, server, loading
<1>2. _applyLocal(cards[s], op) \in Board
  BY <1>1, LocalIsBoard DEF TypeInv, TypeOK
<1>3. cards' \in [Stations -> Board]
  BY <1>1, <1>2 DEF TypeInv, TypeOK
<1>4. /\ taps' \in Seq(Op) /\ Len(taps') = Len(taps) + 1 /\ Len(taps) \in Nat
      /\ Len(taps) + 1 \in TapId
  BY <1>1, BoundsAssumption DEF TypeInv, TypeOK, TapId
<1>5. [tap |-> Len(taps) + 1, reply |-> <<>>] \in [tap : TapId, reply : Seq(Payload)]
  BY <1>4
<1>6. calls' \in [Stations -> SUBSET [tap : TapId, reply : Seq(Payload)]]
  BY <1>1, <1>5 DEF TypeInv, TypeOK
<1>7. TypeOK'
  BY <1>1, <1>3, <1>4, <1>6 DEF TypeInv, TypeOK
<1>8. Numbered'
  <2>1. \A t \in Stations : \A call \in calls'[t] : call.tap <= Len(taps')
    <3> SUFFICES ASSUME NEW t \in Stations, NEW call \in calls'[t]
                 PROVE  call.tap <= Len(taps')
      OBVIOUS
    <3>1. CASE call \in calls[t]
      BY <1>4, <3>1 DEF TypeInv, TypeOK, Numbered, TapId
    <3>2. CASE call \notin calls[t]
      BY <1>1, <1>4, <3>2 DEF TypeInv, TypeOK
    <3> QED
      BY <3>1, <3>2
  <2>2. \A t \in Stations : \A i \in 1 .. Len(queue[t]) : queue[t][i] <= Len(taps')
    <3> TAKE t \in Stations
    <3> TAKE i \in 1 .. Len(queue[t])
    <3>1. queue[t] \in Seq(TapId)
      BY DEF TypeInv, TypeOK
    <3>2. queue[t][i] \in TapId /\ queue[t][i] <= Len(taps)
      BY <3>1 DEF TypeInv, Numbered
    <3> QED
      BY <1>4, <3>2 DEF TapId
  <2>3. \A t \in Stations, w \in Workers : \A i \in 1 .. Len(replay[t][w].rows) :
            replay[t][w].rows[i] <= Len(taps')
    <3> TAKE t \in Stations, w \in Workers
    <3> TAKE i \in 1 .. Len(replay[t][w].rows)
    <3>1. replay[t][w].rows \in Seq(TapId)
      BY DEF TypeInv, TypeOK
    <3>2. replay[t][w].rows[i] \in TapId /\ replay[t][w].rows[i] <= Len(taps)
      BY <3>1 DEF TypeInv, Numbered
    <3> QED
      BY <1>4, <3>2 DEF TapId
  <2> QED
    BY <1>1, <2>1, <2>2, <2>3 DEF Numbered
<1>9. Sent'
  BY <1>1 DEF TypeInv, Sent
<1> QED
  BY <1>7, <1>8, <1>9 DEF TypeInv

(* The taps of a card that is shown name a lane, or the one before or      *)
(* after all lanes.                                                        *)
LEMMA TapsAreOps ==
    ASSUME TypeInv, NEW s \in Stations, NEW c \in Cards
    PROVE  /\ bump(s, c) => \E op \in Op : Tap(s, op)
           /\ recall(s, c) => \E op \in Op : Tap(s, op)
           /\ voidCard(s, c) => \E op \in Op : Tap(s, op)
<1>1. cards[s][c] # Off => cards[s][c].lane \in Lanes
  BY DEF TypeInv, TypeOK, Board, Shown
<1>2. ASSUME NEW i \in -1 .. NumLanes PROVE [card |-> c, action |-> "move", to_index |-> i] \in Op
  BY DEF Op
<1>3. CASE bump(s, c)
  <2> DEFINE op == [card |-> c, action |-> "move", to_index |-> cards[s][c].lane + 1]
  <2>1. cards[s][c] # Off /\ Tap(s, op)
    BY <1>3 DEF bump, Tap
  <2>2. op \in Op
    BY <1>1, <1>2, <2>1, LanesAssumption DEF Lanes
  <2> QED
    BY <1>3, <2>1, <2>2
<1>4. CASE recall(s, c)
  <2> DEFINE op == [card |-> c, action |-> "move", to_index |-> cards[s][c].lane - 1]
  <2>1. cards[s][c] # Off /\ Tap(s, op)
    BY <1>4 DEF recall, Tap
  <2>2. op \in Op
    BY <1>1, <1>2, <2>1, LanesAssumption DEF Lanes
  <2> QED
    BY <1>4, <2>1, <2>2
<1>5. CASE voidCard(s, c)
  <2>1. [card |-> c, action |-> "void", to_index |-> 0] \in Op
    BY DEF Op
  <2> QED
    BY <1>5, <2>1 DEF voidCard
<1> QED
  BY <1>3, <1>4, <1>5

(* What no tap, call or replay touches keeps its numbers.                  *)
LEMMA NumberedStays ==
    ASSUME TypeInv, UNCHANGED taps,
           \A t \in Stations : \A call \in calls'[t] :
              \E d \in calls[t] : call.tap = d.tap,
           \A t \in Stations : \A i \in 1 .. Len(queue'[t]) : queue'[t][i] <= Len(taps),
           \A t \in Stations, w \in Workers : \A i \in 1 .. Len(replay'[t][w].rows) :
              replay'[t][w].rows[i] <= Len(taps)
    PROVE  Numbered'
BY DEF TypeInv, Numbered

LEMMA CallType ==
    ASSUME TypeInv, NEW s \in Stations, NEW call \in calls[s],
           CallServed(s, call) \/ CallReturns(s, call) \/ CallLost(s, call) \/ CallRefused(s, call)
    PROVE  TypeInv'
<1>1. /\ calls \in [Stations -> SUBSET [tap : TapId, reply : Seq(Payload)]]
      /\ call \in [tap : TapId, reply : Seq(Payload)] /\ call.tap <= Len(taps)
  BY DEF TypeInv, TypeOK, Numbered
<1>2. CASE CallServed(s, call)
  <2> DEFINE c == taps[call.tap].card
             reply == <<_kds_payload(c, row'[c])>>
  <2>1. /\ board_op(call.tap) /\ UNCHANGED <<taps, cards, queue, replay, wanted, loads, cache, fails>>
        /\ calls' = [calls EXCEPT ![s] = (@ \ {call}) \cup {[call EXCEPT !.reply = reply]}]
    BY <1>2 DEF CallServed, loading
  <2>2. /\ row' \in [Cards -> Row] /\ last_id' \in EventId /\ executed' \subseteq TapId
        /\ bus' \in [Stations -> Seq(Payload)] /\ _kds_payload(c, row'[c]) \in Payload
    BY <1>1, <2>1, BoardOpType DEF TypeInv
  <2>3. reply \in Seq(Payload)
    BY <2>2
  <2> HIDE DEF c, reply
  <2>4. [call EXCEPT !.reply = reply] \in [tap : TapId, reply : Seq(Payload)]
        /\ [call EXCEPT !.reply = reply].tap = call.tap
    BY <1>1, <2>3
  <2>5. calls' \in [Stations -> SUBSET [tap : TapId, reply : Seq(Payload)]]
    BY <1>1, <2>1, <2>4
  <2>6. \A t \in Stations : \A d \in calls'[t] : \E e \in calls[t] : d.tap = e.tap
    BY <1>1, <2>1, <2>4
  <2>7. TypeOK'
    BY <2>1, <2>2, <2>5 DEF TypeInv, TypeOK
  <2>8. Numbered'
    BY <2>1, <2>6, NumberedStays DEF TypeInv, Numbered
  <2> QED
    BY <2>1, <2>7, <2>8 DEF TypeInv, Sent
<1>3. CASE CallReturns(s, call)
  <2>1. /\ cards' = [cards EXCEPT ![s] = onCardEvent(cards[s], call.reply[1])]
        /\ calls' = [calls EXCEPT ![s] = @ \ {call}] /\ call.reply # <<>>
        /\ UNCHANGED <<row, last_id, executed, bus, taps, queue, replay, wanted, loads, cache, fails>>
    BY <1>3 DEF CallReturns, Show, server, loading
  <2>2. call.reply[1] \in Payload
    BY <1>1, <2>1
  <2>3. onCardEvent(cards[s], call.reply[1]) \in Board
    BY <2>2, EventIsBoard DEF TypeInv, TypeOK
  <2>4. \A t \in Stations : \A d \in calls'[t] : \E e \in calls[t] : d.tap = e.tap
    BY <1>1, <2>1
  <2>5. TypeOK'
    BY <2>1, <2>3 DEF TypeInv, TypeOK
  <2>6. Numbered'
    BY <2>1, <2>4, NumberedStays DEF TypeInv, Numbered
  <2> QED
    BY <2>1, <2>5, <2>6 DEF TypeInv, Sent
<1>4. CASE CallLost(s, call) \/ CallRefused(s, call)
  <2>1. /\ queue' = [queue EXCEPT ![s] = Append(@, call.tap)]
        /\ calls' = [calls EXCEPT ![s] = @ \ {call}]
        /\ UNCHANGED <<row, last_id, executed, bus, taps, cards, replay, wanted, loads, cache>>
        /\ fails' \in 0 .. MaxFails
    BY <1>4, BoundsAssumption DEF CallLost, CallRefused, enqueue, NetworkFails, server, loading, TypeInv, TypeOK
  <2>2. queue \in [Stations -> Seq(TapId)] /\ Append(queue[s], call.tap) \in Seq(TapId)
    BY <1>1 DEF TypeInv, TypeOK
  <2>3. \A t \in Stations : \A d \in calls'[t] : \E e \in calls[t] : d.tap = e.tap
    BY <1>1, <2>1
  <2>4. \A t \in Stations : \A i \in 1 .. Len(queue'[t]) : queue'[t][i] <= Len(taps)
    <3> SUFFICES ASSUME NEW t \in Stations, NEW i \in 1 .. Len(queue'[t])
                 PROVE  queue'[t][i] <= Len(taps)
      OBVIOUS
    <3>1. CASE t = s
      <4>1. queue'[t] = Append(queue[s], call.tap) /\ queue[s] \in Seq(TapId)
        BY <2>1, <2>2, <3>1
      <4>2. i \in 1 .. Len(queue[s]) \/ queue'[t][i] = call.tap
        BY <4>1
      <4>3. i \in 1 .. Len(queue[s]) => queue'[t][i] = queue[s][i]
        BY <4>1
      <4> QED
        BY <1>1, <4>2, <4>3 DEF TypeInv, Numbered
    <3>2. CASE t # s
      BY <2>1, <2>2, <3>2 DEF TypeInv, Numbered
    <3> QED
      BY <3>1, <3>2
  <2>5. TypeOK'
    BY <2>1, <2>2 DEF TypeInv, TypeOK
  <2>6. Numbered'
    BY <2>1, <2>3, <2>4, NumberedStays DEF TypeInv, Numbered
  <2> QED
    BY <2>1, <2>5, <2>6 DEF TypeInv, Sent
<1> QED
  BY <1>2, <1>3, <1>4

LEMMA ReplayType ==
    ASSUME TypeInv, NEW s \in Stations, NEW w \in Workers, reconnect(s, w) \/ Replays(s, w)
    PROVE  TypeInv'
<1> DEFINE rows == replay[s][w].rows
<1>1. /\ replay \in [Stations -> [Workers -> [rows : Seq(TapId), served : BOOLEAN]]]
      /\ rows \in Seq(TapId) /\ \A i \in 1 .. Len(rows) : rows[i] <= Len(taps)
      /\ queue[s] \in Seq(TapId) /\ \A i \in 1 .. Len(queue[s]) : queue[s][i] <= Len(taps)
  BY DEF TypeInv, TypeOK, Numbered
<1>2. ASSUME rows # <<>>
      PROVE  /\ Head(rows) \in TapId /\ Head(rows) <= Len(taps)
             /\ Tail(rows) \in Seq(TapId) /\ \A i \in 1 .. Len(Tail(rows)) : Tail(rows)[i] <= Len(taps)
  <2>1. Len(rows) \in Nat /\ Len(rows) # 0 /\ Head(rows) = rows[1]
    BY <1>1, <1>2
  <2>2. Tail(rows) \in Seq(TapId) /\ Len(Tail(rows)) = Len(rows) - 1
        /\ \A i \in 1 .. Len(rows) - 1 : Tail(rows)[i] = rows[i + 1]
    BY <1>1, <1>2
  <2> HIDE DEF rows
  <2>3. \A i \in 1 .. Len(rows) - 1 : Tail(rows)[i] <= Len(taps)
    <3> TAKE i \in 1 .. Len(rows) - 1
    <3>1. i + 1 \in 1 .. Len(rows)
      BY <2>1
    <3> QED
      BY <1>1, <2>2, <3>1
  <2>4. 1 \in 1 .. Len(rows)
    BY <2>1
  <2> QED
    BY <1>1, <2>1, <2>2, <2>3, <2>4
(* Whatever rows a run has left, it may proceed with them.                 *)
<1>3. ASSUME NEW q \in Seq(TapId), \A i \in 1 .. Len(q) : q[i] <= Len(taps), Proceed(s, w, q)
      PROVE  /\ replay' \in [Stations -> [Workers -> [rows : Seq(TapId), served : BOOLEAN]]]
             /\ \A t \in Stations, v \in Workers : \A i \in 1 .. Len(replay'[t][v].rows) :
                   replay'[t][v].rows[i] <= Len(taps)
             /\ wanted' \in [Stations -> BOOLEAN] /\ Sent' /\ UNCHANGED <<loads, cache>>
  <2> DEFINE run == [rows |-> q, served |-> FALSE]
  <2>1. replay' = [replay EXCEPT ![s][w] = run] /\ UNCHANGED <<loads, cache>>
    BY <1>3 DEF Proceed, SetReplay
  <2>2. wanted' \in [Stations -> BOOLEAN]
    BY <1>3 DEF Proceed, Want, TypeInv, TypeOK
  <2>3. run \in [rows : Seq(TapId), served : BOOLEAN]
    OBVIOUS
  <2>4. /\ replay' \in [Stations -> [Workers -> [rows : Seq(TapId), served : BOOLEAN]]]
        /\ \A t \in Stations, v \in Workers : replay'[t][v] = IF t = s /\ v = w THEN run ELSE replay[t][v]
    BY <1>1, <2>1, <2>3
  <2>5. \A t \in Stations, v \in Workers : \A i \in 1 .. Len(replay'[t][v].rows) :
            replay'[t][v].rows[i] <= Len(taps)
    <3> TAKE t \in Stations, v \in Workers
    <3>1. CASE t = s /\ v = w
      BY <1>3, <2>4, <3>1
    <3>2. CASE ~(t = s /\ v = w)
      BY <2>4, <3>2 DEF TypeInv, Numbered
    <3> QED
      BY <3>1, <3>2
  <2>6. Sent'
    <3> SUFFICES ASSUME NEW t \in Stations, NEW v \in Workers, replay'[t][v].served
                 PROVE  replay'[t][v].rows # <<>>
      BY DEF Sent
    <3>1. ~(t = s /\ v = w)
      BY <2>4
    <3> QED
      BY <2>4, <3>1 DEF TypeInv, Sent
  <2> QED
    BY <2>1, <2>2, <2>4, <2>5, <2>6
<1>4. ASSUME UNCHANGED <<taps, calls>>,
             \A t \in Stations : \A i \in 1 .. Len(queue'[t]) : queue'[t][i] <= Len(taps),
             \A t \in Stations, v \in Workers : \A i \in 1 .. Len(replay'[t][v].rows) :
                replay'[t][v].rows[i] <= Len(taps)
      PROVE  Numbered'
  BY <1>4, NumberedStays
<1>5. \A t \in Stations : \A i \in 1 .. Len(queue[t]) : queue[t][i] <= Len(taps)
  BY DEF TypeInv, Numbered
<1>6. CASE reconnect(s, w)
  <2>1. Proceed(s, w, queue[s]) /\ UNCHANGED <<row, last_id, executed, bus, taps, cards, calls, queue, fails>>
    BY <1>6 DEF reconnect, server
  <2>2. TypeOK' /\ Sent' /\ Numbered'
    BY <1>1, <1>3, <1>4, <1>5, <2>1 DEF TypeInv, TypeOK
  <2> QED
    BY <2>2 DEF TypeInv
<1>7. CASE ReplayFails(s, w)
  <2>1. Proceed(s, w, <<>>) /\ UNCHANGED <<row, last_id, executed, bus, taps, cards, calls, queue>>
        /\ fails' \in 0 .. MaxFails
    BY <1>7, BoundsAssumption DEF ReplayFails, NetworkFails, server, TypeInv, TypeOK
  <2>2. <<>> \in Seq(TapId) /\ \A i \in 1 .. Len(<<>>) : <<>>[i] <= Len(taps)
    OBVIOUS
  <2>3. TypeOK' /\ Sent' /\ Numbered'
    BY <1>3, <1>4, <1>5, <2>1, <2>2 DEF TypeInv, TypeOK
  <2> QED
    BY <2>3 DEF TypeInv
<1>8. CASE ReplayReturns(s, w)
  <2>1. /\ rows # <<>> /\ drop(s, Head(rows)) /\ Proceed(s, w, Tail(rows))
        /\ UNCHANGED <<row, last_id, executed, bus, taps, cards, calls, fails>>
    BY <1>8 DEF ReplayReturns, server, TypeInv, Sent
  <2>2. /\ queue' \in [Stations -> Seq(TapId)]
        /\ \A t \in Stations : \A i \in 1 .. Len(queue'[t]) : queue'[t][i] <= Len(taps)
    BY <1>2, <2>1, DropType
  <2>3. TypeOK' /\ Sent' /\ Numbered'
    BY <1>2, <1>3, <1>4, <2>1, <2>2 DEF TypeInv, TypeOK
  <2> QED
    BY <2>3 DEF TypeInv
<1>9. CASE ReplayServed(s, w)
  <2> DEFINE run == [replay[s][w] EXCEPT !.served = TRUE]
  <2>1. /\ rows # <<>> /\ board_op(Head(rows)) /\ replay' = [replay EXCEPT ![s][w] = run]
        /\ UNCHANGED <<taps, cards, calls, queue, wanted, loads, cache, fails>>
    BY <1>9 DEF ReplayServed, SetReplay, loading
  <2>2. /\ row' \in [Cards -> Row] /\ last_id' \in EventId /\ executed' \subseteq TapId
        /\ bus' \in [Stations -> Seq(Payload)]
    BY <1>2, <2>1, BoardOpType DEF TypeInv
  <2>3. run \in [rows : Seq(TapId), served : BOOLEAN] /\ run.rows = rows
    BY <1>1
  <2>4. /\ replay' \in [Stations -> [Workers -> [rows : Seq(TapId), served : BOOLEAN]]]
        /\ \A t \in Stations, v \in Workers :
              /\ replay'[t][v].rows = replay[t][v].rows
              /\ replay'[t][v].served => replay[t][v].served \/ (t = s /\ v = w)
    <3>1. replay' \in [Stations -> [Workers -> [rows : Seq(TapId), served : BOOLEAN]]]
      BY <1>1, <2>1, <2>3
    <3>2. \A t \in Stations, v \in Workers :
             replay'[t][v] = IF t = s /\ v = w THEN run ELSE replay[t][v]
      BY <1>1, <2>1
    <3> QED
      BY <2>3, <3>1, <3>2
  <2>5. Numbered'
    BY <1>4, <1>5, <2>1, <2>4 DEF TypeInv, Numbered
  <2>6. Sent'
    BY <2>1, <2>4 DEF TypeInv, Sent
  <2>7. TypeOK'
    BY <2>1, <2>2, <2>4 DEF TypeInv, TypeOK
  <2> QED
    BY <2>5, <2>6, <2>7 DEF TypeInv
<1> QED
  BY <1>6, <1>7, <1>8, <1>9 DEF Replays

LEMMA LoadType ==
    ASSUME TypeInv, NEW s \in Stations, BusDelivers(s) \/ Loads(s)
    PROVE  TypeInv'
<1>1. CASE BusDelivers(s)
  <2>1. /\ bus[s] # <<>> /\ cards' = [cards EXCEPT ![s] = onCardEvent(cards[s], Head(bus[s]))]
        /\ bus' = [bus EXCEPT ![s] = Tail(@)] /\ wanted' = [wanted EXCEPT ![s] = TRUE]
        /\ UNCHANGED <<row, last_id, executed, taps, calls, queue, replay, loads, cache, fails>>
    BY <1>1 DEF BusDelivers, Show, Want
  <2>2. Head(bus[s]) \in Payload /\ Tail(bus[s]) \in Seq(Payload)
    BY <2>1 DEF TypeInv, TypeOK
  <2>3. onCardEvent(cards[s], Head(bus[s])) \in Board
    BY <2>2, EventIsBoard DEF TypeInv, TypeOK
  <2>4. TypeOK'
    BY <2>1, <2>2, <2>3 DEF TypeInv, TypeOK
  <2> QED
    BY <2>1, <2>4 DEF TypeInv, Numbered, Sent
<1>2. CASE LoadServed(s)
  <2>1. /\ loads' = [loads EXCEPT ![s] = @ \cup {_kds_board_data}]
        /\ wanted' = [wanted EXCEPT ![s] = FALSE]
        /\ UNCHANGED <<row, last_id, executed, bus, taps, cards, calls, queue, replay, cache, fails>>
    BY <1>2 DEF LoadServed, server
  <2>2. TypeOK'
    BY <2>1, DataIsBoard DEF TypeInv, TypeOK
  <2> QED
    BY <2>1, <2>2 DEF TypeInv, Numbered, Sent
<1>3. ASSUME NEW board \in loads[s], LoadReturns(s, board) \/ LoadLost(s, board) PROVE TypeInv'
  <2>1. board \in Board /\ cache[s] \in Board
    BY DEF TypeInv, TypeOK
  <2>2. /\ \E shown \in {board, cache[s]} : cards' = [cards EXCEPT ![s] = shown]
        /\ cache' \in {cache, [cache EXCEPT ![s] = board]} /\ loads' = [loads EXCEPT ![s] = @ \ {board}]
        /\ UNCHANGED <<row, last_id, executed, bus, taps, calls, queue, replay, wanted>>
        /\ fails' \in 0 .. MaxFails
    BY <1>3, BoundsAssumption DEF LoadReturns, LoadLost, NetworkFails, Show, server, TypeInv, TypeOK
  <2>3. TypeOK'
    BY <2>1, <2>2 DEF TypeInv, TypeOK
  <2> QED
    BY <2>2, <2>3 DEF TypeInv, Numbered, Sent
<1> QED
  BY <1>1, <1>2, <1>3 DEF Loads

LEMMA TypeStep == TypeInv /\ [Next]_vars => TypeInv'
<1> SUFFICES ASSUME TypeInv, [Next]_vars PROVE TypeInv'
  OBVIOUS
<1>1. ASSUME NEW s \in Stations, Taps(s) PROVE TypeInv'
  BY <1>1, TapsAreOps, TapType DEF Taps
<1>2. ASSUME NEW s \in Stations, Network(s) PROVE TypeInv'
  BY <1>2, CallType, ReplayType, LoadType DEF Network, Calls
<1>3. CASE UNCHANGED vars
  BY <1>3 DEF vars, server, loading, TypeInv, TypeOK, Numbered, Sent
<1> QED
  BY <1>1, <1>2, <1>3 DEF Next

LEMMA InitType == Init => TypeInv
<1> SUFFICES ASSUME Init PROVE TypeInv
  OBVIOUS
<1>1. 0 \in Lanes /\ [lane |-> 0, event_id |-> 1] \in Shown /\ 1 \in EventId
  BY LanesAssumption DEF Lanes, Shown, EventId
<1>2. TypeOK
  BY <1>1, BoundsAssumption DEF Init, TypeOK, Row, Board, Idle
<1>3. Numbered /\ Sent
  BY DEF Init, Numbered, Sent, Idle
<1> QED
  BY <1>2, <1>3 DEF TypeInv

(* Pages, queues, replays and messages keep their types.                   *)
THEOREM TypeCorrect == Spec => []TypeOK
<1>1. TypeInv => TypeOK
  BY DEF TypeInv
<1> QED
  BY <1>1, InitType, TypeStep, PTL DEF Spec
-----------------------------------------------------------------------------
(* No tap is lost                                                          *)

(* An operation counts as answered only when the server has executed it.   *)
Answered ==
    \A s \in Stations :
        /\ \A call \in calls[s] : call.reply # <<>> => call.tap \in executed
        /\ \A w \in Workers : replay[s][w].served => Head(replay[s][w].rows) \in executed

(* Tap n is on its way from station s.                                     *)
Carried(s, n) ==
    \/ \E i \in 1 .. Len(queue[s]) : queue[s][i] = n
    \/ \E call \in calls[s] : call.tap = n

LostInv == TypeInv /\ Answered /\ NoTapLost

LEMMA BoardOpExecutes == ASSUME NEW n, board_op(n) PROVE executed' = executed \cup {n}
BY DEF board_op

(* The server changes only when it executes a tap it was sent.             *)
LEMMA ServerSteps ==
    ASSUME TypeInv, [Next]_vars
    PROVE  \/ UNCHANGED <<row, last_id, executed>>
           \/ \E n \in TapId : n <= Len(taps) /\ board_op(n)
<1> DEFINE Goal == \/ UNCHANGED <<row, last_id, executed>>
                   \/ \E n \in TapId : n <= Len(taps) /\ board_op(n)
<1>1. ASSUME NEW s \in Stations, NEW call \in calls[s], CallServed(s, call) PROVE Goal
  BY <1>1 DEF CallServed, TypeInv, TypeOK, Numbered
<1>2. ASSUME NEW s \in Stations, NEW w \in Workers, ReplayServed(s, w) PROVE Goal
  <2> DEFINE rows == replay[s][w].rows
  <2>1. rows \in Seq(TapId) /\ rows # <<>> /\ board_op(Head(rows))
    BY <1>2 DEF ReplayServed, TypeInv, TypeOK
  <2>2. 1 \in 1 .. Len(rows) /\ Head(rows) = rows[1] /\ rows[1] \in TapId
    BY <2>1
  <2>3. rows[1] <= Len(taps)
    BY <2>2 DEF TypeInv, Numbered
  <2> QED
    BY <2>1, <2>2, <2>3
<1>3. ASSUME NEW s \in Stations, NEW call, CallReturns(s, call) \/ CallLost(s, call) \/ CallRefused(s, call)
      PROVE  UNCHANGED <<row, last_id, executed>>
  BY <1>3 DEF CallReturns, CallLost, CallRefused, enqueue, server
<1>4. ASSUME NEW s \in Stations, NEW w \in Workers,
             reconnect(s, w) \/ ReplayReturns(s, w) \/ ReplayFails(s, w)
      PROVE  UNCHANGED <<row, last_id, executed>>
  BY <1>4 DEF reconnect, ReplayReturns, ReplayFails, server
<1>5. ASSUME NEW s \in Stations, Taps(s) \/ BusDelivers(s) \/ Loads(s)
      PROVE  UNCHANGED <<row, last_id, executed>>
  BY <1>5 DEF Taps, bump, recall, voidCard, Tap, BusDelivers, Loads, LoadServed, LoadReturns,
              LoadLost, server
<1>6. CASE UNCHANGED vars
  BY <1>6 DEF vars, server
<1> QED
  BY <1>1, <1>2, <1>3, <1>4, <1>5, <1>6 DEF Next, Network, Calls, Replays

(* What has been executed stays so.                                        *)
LEMMA ExecutedGrows == ASSUME TypeInv, [Next]_vars PROVE executed \subseteq executed'
BY ServerSteps, BoardOpExecutes

LEMMA AnsweredStep == TypeInv /\ Answered /\ [Next]_vars => Answered'
<1> SUFFICES ASSUME TypeInv, Answered, [Next]_vars PROVE Answered'
  OBVIOUS
<1>0. executed \subseteq executed'
  BY ExecutedGrows
<1>1. /\ calls \in [Stations -> SUBSET [tap : TapId, reply : Seq(Payload)]]
      /\ replay \in [Stations -> [Workers -> [rows : Seq(TapId), served : BOOLEAN]]]
  BY DEF TypeInv, TypeOK
(* Nobody else is answered but by an executed tap.                         *)
<1>2. ASSUME \A s \in Stations : \A call \in calls'[s] :
                call \in calls[s] \/ call.reply = <<>> \/ call.tap \in executed',
             \A s \in Stations, w \in Workers :
                \/ replay'[s][w] = replay[s][w]
                \/ ~replay'[s][w].served
                \/ Head(replay'[s][w].rows) \in executed'
      PROVE  Answered'
  BY <1>0, <1>2 DEF Answered
<1>3. ASSUME NEW s \in Stations, NEW op, Tap(s, op) PROVE Answered'
  BY <1>1, <1>2, <1>3 DEF Tap
<1>4. ASSUME NEW s \in Stations, NEW call \in calls[s], CallServed(s, call) PROVE Answered'
  <2>1. /\ call.tap \in executed' /\ UNCHANGED replay
        /\ \E r : calls' = [calls EXCEPT ![s] = (@ \ {call}) \cup {[call EXCEPT !.reply = r]}]
    BY <1>4, BoardOpExecutes DEF CallServed
  <2>2. PICK r : calls' = [calls EXCEPT ![s] = (@ \ {call}) \cup {[call EXCEPT !.reply = r]}]
    BY <2>1
  <2>3. [call EXCEPT !.reply = r].tap = call.tap
    BY <1>1
  <2> QED
    BY <1>1, <1>2, <2>1, <2>2, <2>3
<1>5. ASSUME NEW s \in Stations, NEW call \in calls[s],
             CallReturns(s, call) \/ CallLost(s, call) \/ CallRefused(s, call)
      PROVE  Answered'
  BY <1>1, <1>2, <1>5 DEF CallReturns, CallLost, CallRefused, enqueue
<1>6. ASSUME NEW s \in Stations, NEW w \in Workers, ReplayServed(s, w) PROVE Answered'
  <2>1. /\ Head(replay[s][w].rows) \in executed' /\ UNCHANGED calls
        /\ replay' = [replay EXCEPT ![s][w] = [replay[s][w] EXCEPT !.served = TRUE]]
    BY <1>6, BoardOpExecutes DEF ReplayServed, SetReplay
  <2>2. Head(replay'[s][w].rows) \in executed'
    BY <1>1, <2>1
  <2> QED
    BY <1>1, <1>2, <2>1, <2>2
<1>7. ASSUME NEW s \in Stations, NEW w \in Workers, NEW rows, Proceed(s, w, rows), UNCHANGED calls
      PROVE  Answered'
  <2>1. replay' = [replay EXCEPT ![s][w] = [rows |-> rows, served |-> FALSE]]
    BY <1>7 DEF Proceed, SetReplay
  <2>2. ~replay'[s][w].served
    BY <1>1, <2>1
  <2> QED
    BY <1>1, <1>2, <1>7, <2>1, <2>2
<1>8. ASSUME NEW s \in Stations, NEW w \in Workers, reconnect(s, w) \/ Replays(s, w) PROVE Answered'
  BY <1>6, <1>7, <1>8 DEF Replays, reconnect, ReplayReturns, ReplayFails
<1>9. ASSUME NEW s \in Stations, BusDelivers(s) \/ Loads(s) PROVE Answered'
  BY <1>2, <1>9 DEF BusDelivers, Loads, LoadServed, LoadReturns, LoadLost
<1>10. CASE UNCHANGED vars
  BY <1>2, <1>10 DEF vars
<1> QED
  BY <1>3, <1>4, <1>5, <1>8, <1>9, <1>10
     DEF Next, Taps, bump, recall, voidCard, Network, Calls

(* A tap is carried on until the server has executed it.                   *)
LEMMA CarriedOn ==
    ASSUME TypeInv, Answered, [Next]_vars, NEW s \in Stations, NEW n, Carried(s, n), n \notin executed'
    PROVE  Carried(s, n)'
<1>0. /\ calls \in [Stations -> SUBSET [tap : TapId, reply : Seq(Payload)]]
      /\ queue \in [Stations -> Seq(TapId)]
      /\ n \notin executed
  BY ExecutedGrows DEF TypeInv, TypeOK
<1>1. ASSUME queue'[s] = queue[s], \A call \in calls[s] : call.tap = n => \E d \in calls'[s] : d.tap = n
      PROVE  Carried(s, n)'
  BY <1>1 DEF Carried
<1>2. ASSUME NEW t \in Stations, NEW op, Tap(t, op) PROVE Carried(s, n)'
  BY <1>0, <1>1, <1>2 DEF Tap
<1>3. ASSUME NEW t \in Stations, NEW call \in calls[t], CallServed(t, call) PROVE Carried(s, n)'
  <2>1. PICK r : /\ calls' = [calls EXCEPT ![t] = (@ \ {call}) \cup {[call EXCEPT !.reply = r]}]
                 /\ UNCHANGED queue
    BY <1>3 DEF CallServed
  <2>2. [call EXCEPT !.reply = r].tap = call.tap
    BY <1>0
  <2> QED
    BY <1>0, <1>1, <2>1, <2>2
<1>4. ASSUME NEW t \in Stations, NEW call \in calls[t], CallReturns(t, call) PROVE Carried(s, n)'
  <2>1. call.tap # n /\ calls' = [calls EXCEPT ![t] = @ \ {call}] /\ UNCHANGED queue
    BY <1>0, <1>4 DEF CallReturns, Answered
  <2> QED
    BY <1>0, <1>1, <2>1
<1>5. ASSUME NEW t \in Stations, NEW call \in calls[t], enqueue(t, call) PROVE Carried(s, n)'
  <2>1. queue' = [queue EXCEPT ![t] = Append(@, call.tap)] /\ calls' = [calls EXCEPT ![t] = @ \ {call}]
    BY <1>5 DEF enqueue
  <2>2. CASE t # s
    BY <1>0, <1>1, <2>1, <2>2
  <2>3. CASE t = s
    <3>1. queue'[s] = Append(queue[s], call.tap) /\ calls'[s] = calls[s] \ {call}
      BY <1>0, <2>1, <2>3
    <3>2. /\ Len(queue'[s]) = Len(queue[s]) + 1 /\ Len(queue[s]) \in Nat
          /\ queue'[s][Len(queue[s]) + 1] = call.tap
          /\ \A i \in 1 .. Len(queue[s]) : queue'[s][i] = queue[s][i]
      BY <1>0, <3>1
    <3>3. CASE \E i \in 1 .. Len(queue[s]) : queue[s][i] = n
      BY <3>2, <3>3 DEF Carried
    <3>4. CASE call.tap = n
      BY <3>2, <3>4 DEF Carried
    <3>5. CASE \E d \in calls[s] \ {call} : d.tap = n
      BY <3>1, <3>5 DEF Carried
    <3> QED
      BY <3>3, <3>4, <3>5 DEF Carried
  <2> QED
    BY <2>2, <2>3
<1>6. ASSUME NEW t \in Stations, NEW w \in Workers, ReplayReturns(t, w) PROVE Carried(s, n)'
  <2> DEFINE m == Head(replay[t][w].rows)
  <2>1. m \in executed /\ drop(t, m) /\ UNCHANGED calls
    BY <1>6 DEF ReplayReturns, Answered
  <2>2. CASE UNCHANGED queue \/ t # s
    <3>1. queue'[s] = queue[s]
      BY <1>0, <2>1, <2>2 DEF drop
    <3> QED
      BY <1>1, <2>1, <3>1
  <2>3. ASSUME t = s, NEW i \in 1 .. Len(queue[s]), queue[s][i] = m,
               queue' = [queue EXCEPT ![s] = Without(@, i)]
        PROVE  Carried(s, n)'
    <3>1. CASE \E call \in calls[s] : call.tap = n
      BY <2>1, <3>1 DEF Carried
    <3>2. ASSUME NEW j \in 1 .. Len(queue[s]), queue[s][j] = n PROVE Carried(s, n)'
      <4> DEFINE q == queue[s]
      <4>1. q \in Seq(TapId) /\ queue'[s] = Without(q, i) /\ j # i
        BY <1>0, <2>1, <2>3, <3>2
      <4>2. /\ Len(Without(q, i)) = Len(q) - 1 /\ Len(q) \in Nat
            /\ \A k \in 1 .. Len(q) - 1 : Without(q, i)[k] = IF k < i THEN q[k] ELSE q[k + 1]
        <5>1. q \in Seq(TapId) /\ i \in 1 .. Len(q)
          BY <2>3, <4>1
        <5> HIDE DEF q
        <5> QED
          BY <5>1, WithoutRow
      <4> HIDE DEF q
      <4>3. i \in 1 .. Len(q) /\ j \in 1 .. Len(q) /\ q[j] = n
        BY <2>3, <3>2 DEF q
      <4>4. CASE j < i
        <5>1. j \in 1 .. Len(q) - 1 /\ Without(q, i)[j] = n
          BY <4>2, <4>3, <4>4
        <5> QED
          BY <4>1, <4>2, <5>1 DEF Carried
      <4>5. CASE j > i
        <5>1. j - 1 \in 1 .. Len(q) - 1 /\ Without(q, i)[j - 1] = n
          BY <4>2, <4>3, <4>5
        <5> QED
          BY <4>1, <4>2, <5>1 DEF Carried
      <4> QED
        BY <4>1, <4>2, <4>3, <4>4, <4>5
    <3> QED
      BY <3>1, <3>2 DEF Carried
  <2> QED
    BY <2>1, <2>2, <2>3 DEF drop
<1>7. ASSUME NEW t \in Stations, NEW w \in Workers, reconnect(t, w) \/ Replays(t, w) PROVE Carried(s, n)'
  BY <1>1, <1>6, <1>7 DEF Replays, reconnect, ReplayServed, ReplayFails
<1>8. ASSUME NEW t \in Stations, BusDelivers(t) \/ Loads(t) PROVE Carried(s, n)'
  BY <1>1, <1>8 DEF BusDelivers, Loads, LoadServed, LoadReturns, LoadLost
<1>9. CASE UNCHANGED vars
  BY <1>1, <1>9 DEF vars
<1> QED
  BY <1>2, <1>3, <1>4, <1>5, <1>7, <1>8, <1>9
     DEF Next, Taps, bump, recall, voidCard, Network, Calls, CallLost, CallRefused

LEMMA LostStep == LostInv /\ [Next]_vars => LostInv'
<1> SUFFICES ASSUME LostInv, [Next]_vars PROVE LostInv'
  OBVIOUS
<1>1. TypeInv' /\ Answered'
  BY TypeStep, AnsweredStep DEF LostInv
<1>2. ASSUME NEW n \in 1 .. Len(taps)
      PROVE  n \in executed' \/ \E s \in Stations : Carried(s, n)'
  BY <1>2, CarriedOn, ExecutedGrows DEF LostInv, NoTapLost, Carried
<1>3. ASSUME NEW s \in Stations, NEW op, Tap(s, op)
      PROVE  NoTapLost'
  <2>1. /\ taps' = Append(taps, op) /\ taps \in Seq(Op)
        /\ calls' = [calls EXCEPT ![s] = @ \cup {[tap |-> Len(taps) + 1, reply |-> <<>>]}]
        /\ calls \in [Stations -> SUBSET [tap : TapId, reply : Seq(Payload)]]
    BY <1>3 DEF Tap, LostInv, TypeInv, TypeOK
  <2>2. Len(taps') = Len(taps) + 1 /\ Len(taps) \in Nat
    BY <2>1
  <2>3. \E call \in calls'[s] : call.tap = Len(taps) + 1
    <3>1. [tap |-> Len(taps) + 1, reply |-> <<>>] \in calls'[s]
      BY <2>1
    <3> QED
      BY <3>1
  <2>4. ASSUME NEW n \in 1 .. Len(taps')
        PROVE  n \in executed' \/ \E t \in Stations : Carried(t, n)'
    <3>1. CASE n \in 1 .. Len(taps)
      BY <1>2, <3>1
    <3>2. CASE n = Len(taps) + 1
      BY <2>3, <3>2 DEF Carried
    <3> QED
      BY <2>2, <3>1, <3>2
  <2> QED
    BY <2>4 DEF NoTapLost, Carried
<1>4. ASSUME UNCHANGED taps PROVE NoTapLost'
  BY <1>2, <1>4 DEF NoTapLost, Carried
<1>5. (\E s \in Stations : \E op : Tap(s, op)) \/ UNCHANGED taps
  BY DEF Next, vars, Taps, bump, recall, voidCard, Network, Calls, CallServed, CallReturns,
         CallLost, CallRefused, enqueue, Replays, reconnect, ReplayServed, ReplayReturns,
         ReplayFails, BusDelivers, Loads, LoadServed, LoadReturns, LoadLost
<1> QED
  BY <1>1, <1>3, <1>4, <1>5 DEF LostInv

LEMMA LostInvariant == Spec => []LostInv
<1>1. ASSUME Init PROVE LostInv
  BY <1>1, InitType DEF Init, LostInv, Answered, NoTapLost, Idle
<1> QED
  BY <1>1, LostStep, PTL DEF Spec

(* However many calls and replays fail, cross each other or are answered   *)
(* late, a tap is executed, or is carried by a call, or is in the queue:   *)
(* only what the server has executed is ever dropped.                      *)
THEOREM TapsAreKept == Spec => []NoTapLost
<1>1. LostInv => NoTapLost
  BY DEF LostInv
<1> QED
  BY <1>1, LostInvariant, PTL
-----------------------------------------------------------------------------
(* What a page shows                                                       *)

(* What is said of card c agrees with its row, if it is about the latest   *)
(* event.                                                                  *)
Agrees(c, event, lane, voided) ==
    /\ event <= row[c].event_id
    /\ event = row[c].event_id => lane = row[c].lane /\ voided = row[c].voided

Heard(p) == Agrees(p.card, p.event_id, p.lane, p.voided)

Snapshot(board) ==
    \A c \in Cards : board[c] # Off => Agrees(c, board[c].event_id, board[c].lane, FALSE)

(* The notifications and replies on their way to a page; the snapshots it  *)
(* may come to show.                                                       *)
Said(s) ==
    {bus[s][i] : i \in 1 .. Len(bus[s])} \cup {call.reply[1] : call \in {d \in calls[s] : d.reply # <<>>}}

Loaded(s) == loads[s] \cup {cache[s]}

HeardInv ==
    \A s \in Stations :
        /\ \A p \in Said(s) : Heard(p)
        /\ \A board \in Loaded(s) : Snapshot(board)

EventsKnown == \A c \in Cards : row[c].event_id <= last_id

(* A tap of the page has put card c into this lane, and the server has not *)
(* executed it yet.                                                        *)
Ahead(s, c, lane) ==
    \E n \in 1 .. Len(taps) :
        /\ n \notin executed /\ Carried(s, n)
        /\ taps[n].card = c /\ taps[n].action = "move" /\ Target(taps[n]) = lane

Shows(s, c, event, lane) ==
    /\ event <= row[c].event_id
    /\ event = row[c].event_id =>
          ~row[c].voided /\ (lane = row[c].lane \/ Ahead(s, c, lane))

ShownInv ==
    \A s \in Stations, c \in Cards :
        cards[s][c] # Off => Shows(s, c, cards[s][c].event_id, cards[s][c].lane)

(* The server executes what was tapped.                                    *)
Tapped == \A n \in executed : n <= Len(taps)

PageInv == LostInv /\ EventsKnown /\ HeardInv /\ Tapped /\ ShownInv

(* What executing a tap does to the cards and tells the stations.          *)
LEMMA BoardOpRow ==
    ASSUME TypeInv, EventsKnown, NEW n \in TapId, n <= Len(taps), board_op(n)
    PROVE  /\ taps[n] \in Op /\ taps[n].card \in Cards
           /\ \A c \in Cards \ {taps[n].card} : row'[c] = row[c]
           /\ LET c == taps[n].card IN
              \/ /\ row'[c] = row[c] /\ UNCHANGED <<last_id, bus>>
                 /\ Target(taps[n]) = row[c].lane
              \/ /\ row[c].event_id < row'[c].event_id
                 /\ row'[c].event_id = last_id' /\ last_id' = last_id + 1
                 /\ bus' = [s \in Stations |-> Append(bus[s], _kds_payload(c, row'[c]))]
<1> DEFINE op == taps[n]
           r == AfterOp(op)
<1>1. op \in Op
  BY DEF TypeInv, TypeOK, TapId
<1>2. /\ ~Refused(op) /\ row' = [row EXCEPT ![op.card] = r]
      /\ IF r = row[op.card] THEN UNCHANGED <<last_id, bus>>
         ELSE /\ last_id' = last_id + 1
              /\ bus' = [s \in Stations |-> Append(bus[s], _kds_payload(op.card, r))]
  BY DEF board_op
<1>3. /\ op.card \in Cards /\ r \in Row
      /\ r # row[op.card] => r.event_id = last_id + 1
      /\ r = row[op.card] => r.event_id = last_id + 1 \/ Target(op) = row[op.card].lane
  BY <1>1, <1>2, AfterOpRow DEF TypeInv
<1>4. row'[op.card] = r /\ \A c \in Cards \ {op.card} : row'[c] = row[c]
  BY <1>2, <1>3 DEF TypeInv, TypeOK
<1>5. row[op.card].event_id <= last_id /\ last_id \in Nat /\ row[op.card].event_id \in Nat
  BY <1>3 DEF EventsKnown, TypeInv, TypeOK, Row, EventId
<1> HIDE DEF op, r
<1>6. CASE r = row[op.card]
  <2>1. Target(op) = row[op.card].lane
    BY <1>3, <1>5, <1>6
  <2> QED
    BY <1>1, <1>2, <1>3, <1>4, <1>6, <2>1 DEF op
<1>7. CASE r # row[op.card]
  <2>1. row[op.card].event_id < r.event_id
    BY <1>3, <1>5, <1>7
  <2> QED
    BY <1>1, <1>2, <1>3, <1>4, <1>7, <2>1 DEF op
<1> QED
  BY <1>6, <1>7

(* A card changes with its event only, and events are numbered upwards.    *)
LEMMA RowsMove ==
    ASSUME TypeInv, EventsKnown, [Next]_vars
    PROVE  /\ \A c \in Cards : row'[c] = row[c] \/ row[c].event_id < row'[c].event_id
           /\ EventsKnown'
<1>1. CASE UNCHANGED <<row, last_id, executed>>
  BY <1>1 DEF EventsKnown
<1>2. ASSUME NEW n \in TapId, n <= Len(taps), board_op(n)
      PROVE  /\ \A c \in Cards : row'[c] = row[c] \/ row[c].event_id < row'[c].event_id
             /\ EventsKnown'
  <2> DEFINE c == taps[n].card
  <2>1. /\ c \in Cards /\ \A d \in Cards \ {c} : row'[d] = row[d]
        /\ \/ row'[c] = row[c] /\ last_id' = last_id
           \/ /\ row[c].event_id < row'[c].event_id
              /\ row'[c].event_id = last_id' /\ last_id' = last_id + 1
    BY <1>2, BoardOpRow
  <2>2. last_id \in Nat /\ \A d \in Cards : row[d].event_id \in Nat
    BY DEF TypeInv, TypeOK, Row, EventId
  <2> HIDE DEF c
  <2>3. \A d \in Cards : row'[d].event_id <= last_id'
    <3> TAKE d \in Cards
    <3>1. CASE d # c
      BY <2>1, <2>2, <3>1 DEF EventsKnown
    <3>2. CASE d = c
      BY <2>1, <2>2, <3>2 DEF EventsKnown
    <3> QED
      BY <3>1, <3>2
  <2> QED
    BY <2>1, <2>3 DEF EventsKnown
<1> QED
  BY <1>1, <1>2, ServerSteps

LEMMA AgreesStays ==
    ASSUME TypeInv, EventsKnown, [Next]_vars,
           NEW c \in Cards, NEW event \in EventId, NEW lane, NEW voided, Agrees(c, event, lane, voided)
    PROVE  Agrees(c, event, lane, voided)'
<1>1. row'[c] = row[c] \/ row[c].event_id < row'[c].event_id
  BY RowsMove
<1>2. row[c].event_id \in Nat /\ row'[c].event_id \in Nat
  BY TypeStep DEF TypeInv, TypeOK, Row, EventId
<1> QED
  BY <1>1, <1>2 DEF Agrees, EventId

LEMMA HeardStays ==
    ASSUME TypeInv, EventsKnown, [Next]_vars, NEW p \in Payload, Heard(p)
    PROVE  Heard(p)'
BY AgreesStays DEF Heard, Payload

LEMMA SnapshotStays ==
    ASSUME TypeInv, EventsKnown, [Next]_vars, NEW board \in Board, Snapshot(board)
    PROVE  Snapshot(board)'
<1>1. ASSUME NEW c \in Cards, board[c] # Off
      PROVE  Agrees(c, board[c].event_id, board[c].lane, FALSE)'
  BY <1>1, AgreesStays DEF Snapshot, Board, Shown
<1> QED
  BY <1>1 DEF Snapshot

SaidTyped == \A s \in Stations : Said(s) \subseteq Payload /\ Loaded(s) \subseteq Board

LEMMA SaidType == TypeInv => SaidTyped
<1> SUFFICES ASSUME TypeInv, NEW s \in Stations
             PROVE  Said(s) \subseteq Payload /\ Loaded(s) \subseteq Board
  BY DEF SaidTyped
<1>1. \A call \in calls[s] : call.reply \in Seq(Payload)
  BY DEF TypeInv, TypeOK
<1>2. \A call \in calls[s] : call.reply # <<>> => call.reply[1] \in Payload
  BY <1>1
<1>3. \A i \in 1 .. Len(bus[s]) : bus[s][i] \in Payload
  BY DEF TypeInv, TypeOK
<1> QED
  BY <1>2, <1>3 DEF Said, Loaded, TypeInv, TypeOK

(* What is said or loaded was said or loaded before, or is about the       *)
(* server as it is.                                                        *)
LEMMA HeardFresh ==
    ASSUME TypeInv, EventsKnown, HeardInv, [Next]_vars,
           \A s \in Stations : \A p \in Payload : p \in Said(s)' => p \in Said(s) \/ Heard(p)',
           \A s \in Stations : \A b \in Board : b \in Loaded(s)' => b \in Loaded(s) \/ Snapshot(b)'
    PROVE  HeardInv'
<1>0. SaidTyped'
  BY TypeStep, SaidType, PTL
<1>1. ASSUME NEW s \in Stations, NEW p \in Said(s)' PROVE Heard(p)'
  <2>1. p \in Payload
    BY <1>0, <1>1 DEF SaidTyped
  <2> QED
    BY <1>1, <2>1, HeardStays DEF HeardInv
<1>2. ASSUME NEW s \in Stations, NEW b \in Loaded(s)' PROVE Snapshot(b)'
  <2>1. b \in Board
    BY <1>0, <1>2 DEF SaidTyped
  <2> QED
    BY <1>2, <2>1, SnapshotStays DEF HeardInv
<1> QED
  BY <1>1, <1>2 DEF HeardInv

(* What the server says of a card is the card's row.                       *)
LEMMA PayloadHeard ==
    ASSUME TypeInv', NEW c \in Cards, NEW p, p = _kds_payload(c, row'[c])
    PROVE  Heard(p)'
<1>1. row'[c] \in Row
  BY DEF TypeInv, TypeOK
<1>2. p.card = c /\ p.lane = row'[c].lane /\ p.voided = row'[c].voided /\ p.event_id = row'[c].event_id
  BY DEF _kds_payload
<1>3. row'[c].event_id <= row'[c].event_id
  BY <1>1 DEF Row, EventId
<1> QED
  BY <1>2, <1>3 DEF Heard, Agrees

LEMMA BusNews ==
    ASSUME TypeInv, TypeInv', EventsKnown, NEW n \in TapId, n <= Len(taps), board_op(n)
    PROVE  \A s \in Stations : \A i \in 1 .. Len(bus'[s]) :
              \/ \E k \in 1 .. Len(bus[s]) : bus'[s][i] = bus[s][k]
              \/ \E p : p = bus'[s][i] /\ Heard(p)'
<1>0. PICK c, p : c = taps[n].card /\ p = _kds_payload(c, row'[c])
  OBVIOUS
<1>1. c \in Cards /\ (UNCHANGED bus \/ bus' = [s \in Stations |-> Append(bus[s], p)])
  BY <1>0, BoardOpRow
<1>2. Heard(p)'
  BY <1>0, <1>1, PayloadHeard
<1>3. bus \in [Stations -> Seq(Payload)]
  BY DEF TypeInv, TypeOK
<1>4. ASSUME NEW s \in Stations, NEW i \in 1 .. Len(bus'[s]), bus' = [t \in Stations |-> Append(bus[t], p)]
      PROVE  bus'[s][i] = p \/ \E k \in 1 .. Len(bus[s]) : bus'[s][i] = bus[s][k]
  <2>1. bus[s] \in Seq(Payload) /\ bus'[s] = Append(bus[s], p)
    BY <1>3, <1>4
  <2>2. Len(bus'[s]) = Len(bus[s]) + 1 /\ Len(bus[s]) \in Nat
    BY <2>1
  <2>3. i \in 1 .. Len(bus[s]) => bus'[s][i] = bus[s][i]
    BY <2>1
  <2>4. bus'[s][Len(bus[s]) + 1] = p
    BY <2>1
  <2> QED
    BY <2>2, <2>3, <2>4
<1> QED
  BY <1>1, <1>2, <1>4

LEMMA DataSnapshot == TypeInv => Snapshot(_kds_board_data)
<1> SUFFICES ASSUME TypeInv, NEW c \in Cards, _kds_board_data[c] # Off
             PROVE  Agrees(c, _kds_board_data[c].event_id, _kds_board_data[c].lane, FALSE)
  BY DEF Snapshot
<1>1. row[c] \in Row
  BY DEF TypeInv, TypeOK
<1>2. ~row[c].voided /\ _kds_board_data[c] = [lane |-> row[c].lane, event_id |-> row[c].event_id]
  BY DEF _kds_board_data
<1> QED
  BY <1>1, <1>2 DEF Agrees, Row, EventId

LEMMA HeardStep == TypeInv /\ EventsKnown /\ HeardInv /\ [Next]_vars => HeardInv'
<1> SUFFICES ASSUME TypeInv, EventsKnown, HeardInv, [Next]_vars PROVE HeardInv'
  OBVIOUS
<1>0. TypeInv'
  BY TypeStep
<1>1. /\ calls \in [Stations -> SUBSET [tap : TapId, reply : Seq(Payload)]]
      /\ bus \in [Stations -> Seq(Payload)]
      /\ loads \in [Stations -> SUBSET Board] /\ cache \in [Stations -> Board]
  BY DEF TypeInv, TypeOK
(* What there is to be said comes from the bus or from a reply.            *)
<1>2. ASSUME \A s \in Stations : \A i \in 1 .. Len(bus'[s]) :
                \/ \E k \in 1 .. Len(bus[s]) : bus'[s][i] = bus[s][k]
                \/ \E p : p = bus'[s][i] /\ Heard(p)',
             \A s \in Stations : \A call \in calls'[s] :
                call \in calls[s] \/ call.reply = <<>> \/ Heard(call.reply[1])',
             \A s \in Stations : \A b \in loads'[s] \cup {cache'[s]} :
                b \in loads[s] \cup {cache[s]} \/ Snapshot(b)'
      PROVE  HeardInv'
  <2>1. ASSUME NEW s \in Stations, NEW p \in Said(s)' PROVE p \in Said(s) \/ Heard(p)'
    <3>1. CASE \E i \in 1 .. Len(bus'[s]) : p = bus'[s][i]
      BY <1>2, <3>1 DEF Said
    <3>2. CASE \E call \in calls'[s] : call.reply # <<>> /\ p = call.reply[1]
      BY <1>2, <3>2 DEF Said
    <3> QED
      BY <2>1, <3>1, <3>2 DEF Said
  <2>2. ASSUME NEW s \in Stations, NEW b \in Loaded(s)' PROVE b \in Loaded(s) \/ Snapshot(b)'
    BY <1>2, <2>2 DEF Loaded
  <2> QED
    BY <2>1, <2>2, HeardFresh
<1>3. UNCHANGED bus => \A s \in Stations : \A i \in 1 .. Len(bus'[s]) :
         \E k \in 1 .. Len(bus[s]) : bus'[s][i] = bus[s][k]
  OBVIOUS
<1>4. ASSUME NEW s \in Stations, NEW op, Tap(s, op) PROVE HeardInv'
  BY <1>1, <1>2, <1>3, <1>4 DEF Tap, server, loading
<1>5. ASSUME NEW s \in Stations, NEW call \in calls[s], CallServed(s, call) PROVE HeardInv'
  <2>0. PICK c, p : c = taps[call.tap].card /\ p = _kds_payload(c, row'[c])
    OBVIOUS
  <2>1. call.tap \in TapId /\ call.tap <= Len(taps) /\ board_op(call.tap) /\ UNCHANGED <<loads, cache>>
        /\ calls' = [calls EXCEPT ![s] = (@ \ {call}) \cup {[call EXCEPT !.reply = <<p>>]}]
    BY <1>1, <1>5, <2>0 DEF CallServed, TypeInv, Numbered, loading
  <2>2. c \in Cards
    BY <2>0, <2>1, BoardOpRow
  <2>3. Heard(p)'
    BY <1>0, <2>0, <2>2, PayloadHeard
  <2>4. [call EXCEPT !.reply = <<p>>].reply[1] = p
    BY <1>1
  <2>5. \A t \in Stations : \A d \in calls'[t] : d \in calls[t] \/ Heard(d.reply[1])'
    BY <1>1, <2>1, <2>3, <2>4
  <2>6. \A t \in Stations : \A i \in 1 .. Len(bus'[t]) :
           \/ \E k \in 1 .. Len(bus[t]) : bus'[t][i] = bus[t][k]
           \/ \E q : q = bus'[t][i] /\ Heard(q)'
    BY <1>0, <2>1, BusNews
  <2> QED
    BY <1>2, <2>1, <2>5, <2>6
<1>6. ASSUME NEW s \in Stations, NEW call \in calls[s],
             CallReturns(s, call) \/ CallLost(s, call) \/ CallRefused(s, call)
      PROVE  HeardInv'
  <2>1. calls' = [calls EXCEPT ![s] = @ \ {call}] /\ UNCHANGED <<bus, loads, cache>>
    BY <1>6 DEF CallReturns, CallLost, CallRefused, enqueue, server, loading
  <2> QED
    BY <1>1, <1>2, <1>3, <2>1
<1>7. ASSUME NEW s \in Stations, NEW w \in Workers, ReplayServed(s, w) PROVE HeardInv'
  <2> DEFINE rows == replay[s][w].rows
  <2>1. rows \in Seq(TapId) /\ rows # <<>> /\ board_op(Head(rows)) /\ UNCHANGED <<calls, loads, cache>>
    BY <1>7 DEF ReplayServed, TypeInv, TypeOK, loading
  <2>2. 1 \in 1 .. Len(rows) /\ Head(rows) = rows[1] /\ rows[1] \in TapId
    BY <2>1
  <2>3. rows[1] <= Len(taps)
    BY <2>2 DEF TypeInv, Numbered
  <2> QED
    BY <1>0, <1>2, <2>1, <2>2, <2>3, BusNews
<1>8. ASSUME NEW s \in Stations, NEW w \in Workers,
             reconnect(s, w) \/ ReplayReturns(s, w) \/ ReplayFails(s, w)
      PROVE  HeardInv'
  <2>1. UNCHANGED <<calls, bus, loads, cache>>
    BY <1>8 DEF reconnect, ReplayReturns, ReplayFails, Proceed, server
  <2> QED
    BY <1>2, <1>3, <2>1
<1>9. ASSUME NEW s \in Stations, BusDelivers(s) PROVE HeardInv'
  <2>1. bus[s] # <<>> /\ bus' = [bus EXCEPT ![s] = Tail(@)] /\ UNCHANGED <<calls, loads, cache>>
    BY <1>9 DEF BusDelivers
  <2>2. ASSUME NEW t \in Stations, NEW i \in 1 .. Len(bus'[t])
        PROVE  \E k \in 1 .. Len(bus[t]) : bus'[t][i] = bus[t][k]
    <3>1. CASE t = s
      <4>1. bus[s] \in Seq(Payload) /\ bus'[s] = Tail(bus[s])
        BY <1>1, <2>1
      <4>0. ASSUME NEW q \in Seq(Payload), q # <<>>
            PROVE  /\ Len(Tail(q)) = Len(q) - 1 /\ Len(q) \in Nat
                   /\ \A j \in 1 .. Len(q) - 1 : Tail(q)[j] = q[j + 1]
        BY <4>0
      <4>2. Len(bus'[s]) = Len(bus[s]) - 1 /\ Len(bus[s]) \in Nat
            /\ \A j \in 1 .. Len(bus[s]) - 1 : bus'[s][j] = bus[s][j + 1]
        BY <2>1, <4>0, <4>1
      <4>3. i + 1 \in 1 .. Len(bus[s]) /\ bus'[s][i] = bus[s][i + 1]
        BY <2>2, <3>1, <4>2
      <4> QED
        BY <3>1, <4>3
    <3>2. CASE t # s
      BY <1>1, <2>1, <3>2
    <3> QED
      BY <3>1, <3>2
  <2> QED
    BY <1>2, <2>1, <2>2
<1>10. ASSUME NEW s \in Stations, LoadServed(s) PROVE HeardInv'
  <2>1. loads' = [loads EXCEPT ![s] = @ \cup {_kds_board_data}] /\ UNCHANGED <<row, bus, calls, cache>>
    BY <1>10 DEF LoadServed, server
  <2>2. PICK data : data = _kds_board_data
    OBVIOUS
  <2>3. data \in Board /\ Snapshot(data)
    BY <2>2, DataIsBoard, DataSnapshot DEF TypeInv
  <2>4. Snapshot(data)'
    BY <2>3, SnapshotStays
  <2>5. loads' = [loads EXCEPT ![s] = @ \cup {data}]
    BY <2>1, <2>2
  <2> QED
    BY <1>1, <1>2, <1>3, <2>1, <2>4, <2>5
<1>11. ASSUME NEW s \in Stations, NEW board \in loads[s], LoadReturns(s, board) \/ LoadLost(s, board)
       PROVE  HeardInv'
  <2>1. /\ loads' = [loads EXCEPT ![s] = @ \ {board}]
        /\ cache' = cache \/ cache' = [cache EXCEPT ![s] = board]
        /\ UNCHANGED <<bus, calls>>
    BY <1>11 DEF LoadReturns, LoadLost, server
  <2> QED
    BY <1>1, <1>2, <1>3, <2>1
<1>12. CASE UNCHANGED vars
  BY <1>2, <1>3, <1>12 DEF vars, server, loading
<1> QED
  BY <1>4, <1>5, <1>6, <1>7, <1>8, <1>9, <1>10, <1>11, <1>12
     DEF Next, Taps, bump, recall, voidCard, Network, Calls, Replays, Loads
-----------------------------------------------------------------------------

LEMMA TapsGrow ==
    ASSUME TypeInv, [Next]_vars
    PROVE  \A n \in 1 .. Len(taps) : n \in 1 .. Len(taps') /\ taps'[n] = taps[n]
<1>1. ASSUME NEW s \in Stations, NEW op, Tap(s, op)
      PROVE  \A n \in 1 .. Len(taps) : n \in 1 .. Len(taps') /\ taps'[n] = taps[n]
  <2>1. taps' = Append(taps, op) /\ taps \in Seq(Op)
    BY <1>1 DEF Tap, TypeInv, TypeOK
  <2>2. Len(taps') = Len(taps) + 1 /\ Len(taps) \in Nat
    BY <2>1
  <2>3. \A n \in 1 .. Len(taps) : taps'[n] = taps[n]
    BY <2>1
  <2> QED
    BY <2>2, <2>3
<1>2. (\E s \in Stations : \E op : Tap(s, op)) \/ UNCHANGED taps
  BY DEF Next, vars, Taps, bump, recall, voidCard, Network, Calls, CallServed, CallReturns,
         CallLost, CallRefused, enqueue, Replays, reconnect, ReplayServed, ReplayReturns,
         ReplayFails, BusDelivers, Loads, LoadServed, LoadReturns, LoadLost
<1> QED
  BY <1>1, <1>2

LEMMA TappedStep == TypeInv /\ Tapped /\ [Next]_vars => Tapped'
<1> SUFFICES ASSUME TypeInv, Tapped, [Next]_vars, NEW n \in executed' PROVE n <= Len(taps')
  BY DEF Tapped
<1>1. n \in TapId /\ n <= Len(taps)
  BY ServerSteps, BoardOpExecutes DEF Tapped, TypeInv, TypeOK
<1>2. n \in 1 .. Len(taps')
  BY <1>1, TapsGrow DEF TapId, TypeInv, TypeOK
<1> QED
  BY <1>2

(* What a page shows of a card stays right while the server moves on: a    *)
(* tap ahead of the server is either still carried or has been executed,   *)
(* and then its lane is the card's.                                        *)
LEMMA ShowsStays ==
    ASSUME LostInv, EventsKnown, [Next]_vars, NEW s \in Stations, NEW c \in Cards,
           NEW event \in EventId, NEW lane, Shows(s, c, event, lane)
    PROVE  Shows(s, c, event, lane)'
<1>1. TypeInv /\ Answered /\ TypeInv'
  BY TypeStep DEF LostInv
<1>2. event \in Nat /\ row[c].event_id \in Nat /\ row'[c].event_id \in Nat
  BY <1>1 DEF TypeInv, TypeOK, Row, EventId
<1>3. CASE row[c].event_id < row'[c].event_id
  BY <1>2, <1>3 DEF Shows
<1>4. CASE row'[c] = row[c]
  <2>1. ASSUME event = row[c].event_id, lane # row[c].lane PROVE Ahead(s, c, lane)'
    <3>1. PICK n \in 1 .. Len(taps) :
             /\ n \notin executed /\ Carried(s, n)
             /\ taps[n].card = c /\ taps[n].action = "move" /\ Target(taps[n]) = lane
      BY <2>1 DEF Shows, Ahead
    <3>2. n \notin executed'
      <4> SUFFICES ASSUME n \in executed' PROVE FALSE
        OBVIOUS
      <4>1. PICK m \in TapId : m <= Len(taps) /\ board_op(m)
        BY <1>1, <3>1, ServerSteps
      <4>2. m = n
        BY <3>1, <4>1, BoardOpExecutes
      <4>3. Target(taps[n]) = row[c].lane
        BY <1>1, <1>2, <1>4, <3>1, <4>1, <4>2, BoardOpRow
      <4> QED
        BY <2>1, <3>1, <4>3
    <3>3. Carried(s, n)'
      BY <1>1, <3>1, <3>2, CarriedOn
    <3>4. n \in 1 .. Len(taps') /\ taps'[n] = taps[n]
      BY <1>1, TapsGrow
    <3>5. Target(taps'[n]) = lane
      BY <3>1, <3>4
    <3> QED
      BY <3>1, <3>2, <3>3, <3>4, <3>5 DEF Ahead, Target
  <2> QED
    BY <1>4, <2>1 DEF Shows
<1> QED
  BY <1>1, <1>3, <1>4, RowsMove

(* What a page is told may be shown.                                       *)
LEMMA HeardShows ==
    ASSUME NEW s \in Stations, NEW p \in Payload, Heard(p), ~p.voided
    PROVE  Shows(s, p.card, p.event_id, p.lane)
BY DEF Heard, Agrees, Shows, Payload

LEMMA SnapshotShows ==
    ASSUME NEW s \in Stations, NEW board, Snapshot(board), NEW c \in Cards, board[c] # Off
    PROVE  Shows(s, c, board[c].event_id, board[c].lane)
BY DEF Snapshot, Agrees, Shows

LEMMA ShownStep == PageInv /\ [Next]_vars => ShownInv'
<1> SUFFICES ASSUME PageInv, [Next]_vars PROVE ShownInv'
  OBVIOUS
<1>0. LostInv /\ TypeInv /\ EventsKnown /\ HeardInv /\ Tapped /\ ShownInv /\ TypeInv'
  BY TypeStep DEF PageInv, LostInv
<1>1. /\ cards \in [Stations -> Board]
      /\ calls \in [Stations -> SUBSET [tap : TapId, reply : Seq(Payload)]]
      /\ bus \in [Stations -> Seq(Payload)]
      /\ loads \in [Stations -> SUBSET Board] /\ cache \in [Stations -> Board]
  BY <1>0 DEF TypeInv, TypeOK
(* A page that shows what could be shown before the step is right after    *)
(* it; so is a page that shows what it showed.                             *)
<1>2. ASSUME NEW t \in Stations, NEW c \in Cards, NEW x \in Shown, x # Off,
             Shows(t, c, x.event_id, x.lane)
      PROVE  Shows(t, c, x.event_id, x.lane)'
  <2>1. x.event_id \in EventId
    BY <1>2 DEF Shown
  <2> QED
    BY <1>0, <1>2, <2>1, ShowsStays
<1>3. ASSUME \A t \in Stations, c \in Cards : \A x \in Shown :
                x = cards'[t][c] /\ x # Off => Shows(t, c, x.event_id, x.lane)'
      PROVE  ShownInv'
  <2>1. \A t \in Stations, c \in Cards : cards'[t][c] \in Shown
    BY <1>0 DEF TypeInv, TypeOK, Board
  <2> QED
    BY <1>3, <2>1 DEF ShownInv
<1>4. \A t \in Stations, c \in Cards : \A x \in Shown :
         x = cards[t][c] /\ x # Off => Shows(t, c, x.event_id, x.lane)'
  BY <1>0, <1>2 DEF ShownInv
<1>5. ASSUME UNCHANGED cards PROVE ShownInv'
  BY <1>3, <1>4, <1>5
<1>6. ASSUME NEW s \in Stations, NEW board \in Board, cards' = [cards EXCEPT ![s] = board],
             \A c \in Cards : board[c] # Off => Shows(s, c, board[c].event_id, board[c].lane)'
      PROVE  ShownInv'
  <2>1. ASSUME NEW t \in Stations, NEW c \in Cards, NEW x \in Shown, x = cards'[t][c], x # Off
        PROVE  Shows(t, c, x.event_id, x.lane)'
    <3>1. CASE t = s
      BY <1>1, <1>6, <2>1, <3>1
    <3>2. CASE t # s
      BY <1>1, <1>4, <1>6, <2>1, <3>2
    <3> QED
      BY <3>1, <3>2
  <2> QED
    BY <1>3, <2>1
<1>7. ASSUME NEW s \in Stations, NEW p \in Payload, Heard(p),
             cards' = [cards EXCEPT ![s] = onCardEvent(cards[s], p)]
      PROVE  ShownInv'
  <2>1. PICK board \in Board : board = onCardEvent(cards[s], p)
    BY <1>1, EventIsBoard
  <2>2. ASSUME NEW c \in Cards, board[c] # Off
        PROVE  Shows(s, c, board[c].event_id, board[c].lane)'
    <3>1. \/ board[c] = cards[s][c]
          \/ c = p.card /\ ~p.voided /\ board[c] = [lane |-> p.lane, event_id |-> p.event_id]
      BY <1>1, <2>1, <2>2 DEF onCardEvent, Board
    <3>2. Shows(s, c, board[c].event_id, board[c].lane)
      BY <1>0, <1>7, <2>2, <3>1, HeardShows DEF ShownInv
    <3> QED
      BY <1>2, <2>2, <3>2 DEF Board
  <2> QED
    BY <1>6, <1>7, <2>1, <2>2
<1>8. ASSUME NEW s \in Stations, NEW b \in Loaded(s), cards' = [cards EXCEPT ![s] = b]
      PROVE  ShownInv'
  <2>1. b \in Board /\ Snapshot(b)
    BY <1>0, <1>1 DEF HeardInv, Loaded
  <2>2. ASSUME NEW c \in Cards, b[c] # Off PROVE Shows(s, c, b[c].event_id, b[c].lane)'
    BY <1>2, <2>1, <2>2, SnapshotShows DEF Board
  <2> QED
    BY <1>6, <1>8, <2>1, <2>2
<1>9. ASSUME NEW s \in Stations, NEW op \in Op, Tap(s, op) PROVE ShownInv'
  <2>1. /\ cards[s][op.card] # Off /\ op.card \in Cards
        /\ taps' = Append(taps, op) /\ taps \in Seq(Op)
        /\ cards' = [cards EXCEPT ![s] = _applyLocal(cards[s], op)]
        /\ calls' = [calls EXCEPT ![s] = @ \cup {[tap |-> Len(taps) + 1, reply |-> <<>>]}]
        /\ UNCHANGED <<row, executed>>
    BY <1>0, <1>9 DEF Tap, Show, server, Op, TypeInv, TypeOK
  <2>2. PICK board \in Board : board = _applyLocal(cards[s], op)
    BY <1>1, <2>1, LocalIsBoard
  <2>3. ASSUME NEW c \in Cards, board[c] # Off
        PROVE  Shows(s, c, board[c].event_id, board[c].lane)'
    <3>1. CASE board[c] = cards[s][c]
      BY <1>0, <1>2, <2>3, <3>1 DEF ShownInv, Board
    <3>2. CASE /\ c = op.card /\ op.action = "move"
               /\ board[c] = [cards[s][c] EXCEPT !.lane = Target(op)]
      <4>1. /\ board[c].event_id = cards[s][c].event_id /\ board[c].lane = Target(op)
        BY <1>1, <2>1, <3>2 DEF Board, Shown
      <4>2. Shows(s, c, cards[s][c].event_id, cards[s][c].lane)
        BY <1>0, <2>1, <3>2 DEF ShownInv
      <4>3. PICK n : n = Len(taps) + 1
        OBVIOUS
      <4>4. n \in 1 .. Len(taps') /\ taps'[n] = op
        BY <2>1, <4>3
      <4>5. n \notin executed'
        BY <1>0, <2>1, <4>3 DEF Tapped
      <4>6. Carried(s, n)'
        <5>1. [tap |-> n, reply |-> <<>>] \in calls'[s]
          BY <1>1, <2>1, <4>3
        <5> QED
          BY <5>1 DEF Carried
      <4>7. Ahead(s, c, board[c].lane)'
        BY <3>2, <4>1, <4>4, <4>5, <4>6 DEF Ahead, Target
      <4> QED
        BY <2>1, <4>1, <4>2, <4>7 DEF Shows
    <3> QED
      BY <1>1, <2>1, <2>2, <2>3, <3>1, <3>2 DEF _applyLocal, Board, Op
  <2> QED
    BY <1>6, <2>1, <2>2, <2>3
<1>10. ASSUME NEW s \in Stations, NEW call \in calls[s], CallReturns(s, call) PROVE ShownInv'
  <2>1. /\ call.reply # <<>> /\ call.reply \in Seq(Payload)
        /\ cards' = [cards EXCEPT ![s] = onCardEvent(cards[s], call.reply[1])]
    BY <1>1, <1>10 DEF CallReturns, Show
  <2>2. call.reply[1] \in Payload /\ Heard(call.reply[1])
    BY <1>0, <2>1 DEF HeardInv, Said
  <2> QED
    BY <1>7, <2>1, <2>2
<1>11. ASSUME NEW s \in Stations, BusDelivers(s) PROVE ShownInv'
  <2>1. PICK p : p = Head(bus[s])
    OBVIOUS
  <2>2. bus[s] # <<>> /\ bus[s] \in Seq(Payload) /\ cards' = [cards EXCEPT ![s] = onCardEvent(cards[s], p)]
    BY <1>1, <1>11, <2>1 DEF BusDelivers, Show
  <2>3. 1 \in 1 .. Len(bus[s]) /\ p = bus[s][1]
    BY <2>1, <2>2
  <2>4. p \in Payload /\ Heard(p)
    BY <1>0, <2>2, <2>3 DEF HeardInv, Said
  <2> QED
    BY <1>7, <2>2, <2>4
<1>12. ASSUME NEW s \in Stations, Loads(s) PROVE ShownInv'
  <2>1. ASSUME NEW board \in loads[s], LoadReturns(s, board) \/ LoadLost(s, board) PROVE ShownInv'
    <3>1. PICK b : b \in {board, cache[s]} /\ cards' = [cards EXCEPT ![s] = b]
      BY <2>1 DEF LoadReturns, LoadLost, Show
    <3> QED
      BY <1>8, <3>1 DEF Loaded
  <2> QED
    BY <1>5, <1>12, <2>1 DEF Loads, LoadServed
<1>13. ASSUME NEW s \in Stations, NEW w \in Workers, reconnect(s, w) \/ Replays(s, w) PROVE ShownInv'
  BY <1>5, <1>13 DEF Replays, reconnect, ReplayServed, ReplayReturns, ReplayFails
<1>14. ASSUME NEW s \in Stations, NEW call,
              CallServed(s, call) \/ CallLost(s, call) \/ CallRefused(s, call)
       PROVE  ShownInv'
  BY <1>5, <1>14 DEF CallServed, CallLost, CallRefused, enqueue
<1>15. CASE UNCHANGED vars
  BY <1>5, <1>15 DEF vars
<1>16. ASSUME NEW s \in Stations, Taps(s) PROVE ShownInv'
  BY <1>0, <1>9, <1>16, TapsAreOps DEF Taps
<1> QED
  BY <1>10, <1>11, <1>12, <1>13, <1>14, <1>15, <1>16 DEF Next, Network, Calls

LEMMA PageInvariant == Spec => []PageInv
<1>1. ASSUME Init PROVE PageInv
  <2>1. LostInv /\ TypeInv
    BY <1>1, InitType DEF Init, LostInv, Answered, NoTapLost, Idle
  <2>2. /\ row = [c \in Cards |-> [lane |-> 0, voided |-> FALSE, event_id |-> 1]]
        /\ cards = [s \in Stations |-> [c \in Cards |-> [lane |-> 0, event_id |-> 1]]]
        /\ cache = cards /\ executed = {} /\ last_id = 1
        /\ \A s \in Stations : bus[s] = <<>> /\ calls[s] = {} /\ loads[s] = {}
    BY <1>1 DEF Init
  <2>3. EventsKnown /\ Tapped
    BY <2>2 DEF EventsKnown, Tapped
  <2>4. \A s \in Stations : Said(s) = {} /\ Loaded(s) = {cache[s]}
    BY <2>2 DEF Said, Loaded
  <2>5. ShownInv
    BY <2>2 DEF ShownInv, Shows
  <2>6. HeardInv
    BY <2>2, <2>4 DEF HeardInv, Snapshot, Agrees
  <2> QED
    BY <2>1, <2>3, <2>5, <2>6 DEF PageInv
<1>2. ASSUME PageInv, [Next]_vars PROVE PageInv'
  BY <1>2, LostStep, HeardStep, TappedStep, ShownStep, RowsMove DEF PageInv, LostInv
<1> QED
  BY <1>1, <1>2, PTL DEF Spec

(* A page that shows a card's latest event and has no tap of its own       *)
(* underway shows the card's lane: whatever calls, replays, notifications  *)
(* and snapshots crossed each other on the way.                            *)
THEOREM ShownIsLogged == Spec => []ShownAsLogged
<1>1. ASSUME PageInv PROVE ShownAsLogged
  <2> SUFFICES ASSUME NEW s \in Stations, NEW c \in Cards, calls[s] = {}, queue[s] = <<>>,
                      cards[s][c] # Off, cards[s][c].event_id = row[c].event_id
               PROVE  ~row[c].voided /\ cards[s][c].lane = row[c].lane
    BY DEF ShownAsLogged, Underway
  <2>1. Shows(s, c, cards[s][c].event_id, cards[s][c].lane)
    BY <1>1 DEF PageInv, ShownInv
  <2>2. \A n : ~Carried(s, n)
    BY DEF Carried
  <2> QED
    BY <2>1, <2>2 DEF Shows, Ahead
<1> QED
  BY <1>1, PageInvariant, PTL

(* Under the house rule the board does nothing it could not do without it: *)
(* what is proved of every board holds of the kitchens that keep the rule. *)
THEOREM HouseRuleKept == HouseSpec => Spec
<1>1. HouseNext => Next
  BY DEF HouseNext, HouseTaps, Next, Taps
<1>2. [HouseNext]_vars => [Next]_vars
  BY <1>1
<1> QED
  BY <1>2, PTL DEF HouseSpec, Spec
=============================================================================
