----------------------------- MODULE KdsStation -----------------------------
(***************************************************************************)
(* The board page of eh_pos_kds in the browsers of a kitchen's stations:   *)
(* optimistic taps, the calls that carry them to the server, the IndexedDB *)
(* queue of the ones that failed, its replay when the browser is online    *)
(* again, the bus that tells every station what changed, and the snapshots *)
(* a board loads.                                                          *)
(*                                                                         *)
(* The server is as in KdsCards, cut down to what a station can see of a   *)
(* card: its lane, whether it is voided, and the id of its latest event.   *)
(* Calls, replays, bus messages and loads of one station run side by side, *)
(* and a network failure can strike any of them.                           *)
(***************************************************************************)
EXTENDS Integers, Sequences, FiniteSets

CONSTANTS
    Stations,   \* board pages open on the same board
    Cards,
    NumLanes,
    Workers,    \* replays a station may have running at once
    MaxTaps,    \* bound: taps of all stations
    MaxFails,   \* bound: calls and loads the network fails
    MaxLoads    \* bound: snapshots on their way to a station

ASSUME LanesAssumption == NumLanes \in Nat \ {0}
ASSUME BoundsAssumption == MaxTaps \in Nat /\ MaxFails \in Nat /\ MaxLoads \in Nat

VARIABLES
    row,        \* server: each card's lane, status and latest event
    last_id,    \* server: id of the latest bump event
    taps,       \* history: the operations tapped so far, in order
    executed,   \* history: the taps the server has executed
    cards,      \* each station's state.cards
    calls,      \* each station's direct board_op calls, not yet settled
    queue,      \* each station's replay queue in IndexedDB
    replay,     \* each station's replayQueue runs
    bus,        \* notifications on their way to each station
    wanted,     \* a load() has been called and not yet reached the server
    loads,      \* snapshots on their way to each station
    cache,      \* the snapshot each station saved last
    fails       \* network failures so far

server == <<row, last_id, executed, bus>>
loading == <<wanted, loads, cache>>
vars == <<server, taps, cards, calls, queue, replay, loading, fails>>

Lanes == 0 .. NumLanes - 1
EventId == Nat
TapId == 1 .. MaxTaps
Op == [card : Cards, action : {"move"}, to_index : -1 .. NumLanes]
        \cup [card : Cards, action : {"void"}, to_index : {0}]

Off == [lane |-> -1, event_id |-> 0]    \* not on the board
Shown == {Off} \cup [lane : Lanes, event_id : EventId]
Row == [lane : Lanes, voided : BOOLEAN, event_id : EventId]
Payload == [card : Cards, lane : Lanes, voided : BOOLEAN, event_id : EventId]
Board == [Cards -> Shown]

TypeOK ==
    /\ row \in [Cards -> Row]
    /\ last_id \in EventId
    /\ taps \in Seq(Op)
    /\ executed \subseteq TapId
    /\ cards \in [Stations -> Board]
    /\ calls \in [Stations -> SUBSET [tap : TapId, reply : Seq(Payload)]]
    /\ queue \in [Stations -> Seq(TapId)]
    /\ replay \in [Stations -> [Workers -> [rows : Seq(TapId), served : BOOLEAN]]]
    /\ bus \in [Stations -> Seq(Payload)]
    /\ loads \in [Stations -> SUBSET Board]
    /\ wanted \in [Stations -> BOOLEAN]
    /\ cache \in [Stations -> Board]
    /\ fails \in 0 .. MaxFails

Idle == [rows |-> <<>>, served |-> FALSE]

(* Every card has just been placed, and every board has loaded.            *)
Init ==
    /\ row = [c \in Cards |-> [lane |-> 0, voided |-> FALSE, event_id |-> 1]]
    /\ last_id = 1
    /\ taps = <<>>
    /\ executed = {}
    /\ cards = [s \in Stations |-> [c \in Cards |-> [lane |-> 0, event_id |-> 1]]]
    /\ calls = [s \in Stations |-> {}]
    /\ queue = [s \in Stations |-> <<>>]
    /\ replay = [s \in Stations |-> [w \in Workers |-> Idle]]
    /\ bus = [s \in Stations |-> <<>>]
    /\ wanted = [s \in Stations |-> FALSE]
    /\ loads = [s \in Stations |-> {}]
    /\ cache = cards
    /\ fails = 0
-----------------------------------------------------------------------------
(* The server                                                              *)

_kds_payload(c, r) ==
    [card |-> c, lane |-> r.lane, voided |-> r.voided, event_id |-> r.event_id]

_kds_board_data ==
    [c \in Cards |-> IF row[c].voided THEN Off
                     ELSE [lane |-> row[c].lane, event_id |-> row[c].event_id]]

Refused(op) == op.action = "move" /\ op.to_index >= NumLanes
(* Mutant: a recall in the first lane is not clamped.                      *)
TargetUnclamped(op) == op.to_index
Target(op) == IF op.to_index < 0 THEN 0 ELSE op.to_index

(* Mutant: a move is not logged.                                           *)
AfterUnloggedOp(op) ==
    LET r == row[op.card] IN
    IF op.action = "void" THEN [r EXCEPT !.voided = TRUE, !.event_id = last_id + 1]
    ELSE [r EXCEPT !.lane = Target(op), !.voided = FALSE]

(* What the call leaves of the card.  A move to the lane the card is in    *)
(* logs nothing; any other brings a voided card back.                      *)
AfterOp(op) ==
    LET r == row[op.card] IN
    IF op.action = "void" THEN [r EXCEPT !.voided = TRUE, !.event_id = last_id + 1]
    ELSE IF Target(op) = r.lane THEN r
    ELSE [lane |-> Target(op), voided |-> FALSE, event_id |-> last_id + 1]

(* The call of tap n, executed.  A move past the last lane is never: it    *)
(* fails on the required lane_id and is rolled back.                       *)
board_op(n) ==
    LET op == taps[n]
        r == AfterOp(op)
    IN  /\ ~Refused(op)
        /\ row' = [row EXCEPT ![op.card] = r]
        /\ executed' = executed \cup {n}
        /\ IF r = row[op.card] THEN UNCHANGED <<last_id, bus>>
           ELSE /\ last_id' = last_id + 1
                /\ bus' = [s \in Stations |-> Append(bus[s], _kds_payload(op.card, r))]
-----------------------------------------------------------------------------
(* What a station shows                                                    *)

onCardEvent(board, p) ==
    LET shown == board[p.card] IN
    IF shown # Off /\ shown.event_id > p.event_id THEN board
    ELSE [board EXCEPT ![p.card] =
            IF p.voided THEN Off ELSE [lane |-> p.lane, event_id |-> p.event_id]]

_applyLocal(board, op) ==
    IF op.action = "void" \/ op.to_index >= NumLanes
    THEN [board EXCEPT ![op.card] = Off]
    ELSE [board EXCEPT ![op.card].lane = Target(op)]

Show(s, board) == cards' = [cards EXCEPT ![s] = board]
Want(s) == wanted' = [wanted EXCEPT ![s] = TRUE]
-----------------------------------------------------------------------------
(* Taps and their calls                                                    *)

Tap(s, op) ==
    /\ Len(taps) < MaxTaps
    /\ cards[s][op.card] # Off
    /\ taps' = Append(taps, op)
    /\ Show(s, _applyLocal(cards[s], op))
    /\ calls' = [calls EXCEPT ![s] = @ \cup {[tap |-> Len(taps) + 1, reply |-> <<>>]}]
    /\ UNCHANGED <<server, queue, replay, loading, fails>>

(* Bump, Recall and Void of a card the board shows.                        *)
bump(s, c) ==
    Tap(s, [card |-> c, action |-> "move", to_index |-> cards[s][c].lane + 1])
recall(s, c) ==
    Tap(s, [card |-> c, action |-> "move", to_index |-> cards[s][c].lane - 1])
voidCard(s, c) == Tap(s, [card |-> c, action |-> "void", to_index |-> 0])

(* The call reaches the server; its reply is on the way.                   *)
CallServed(s, call) ==
    /\ call.reply = <<>>
    /\ board_op(call.tap)
    /\ LET c == taps[call.tap].card IN
       calls' = [calls EXCEPT ![s] =
           (@ \ {call}) \cup {[call EXCEPT !.reply = <<_kds_payload(c, row'[c])>>]}]
    /\ UNCHANGED <<taps, cards, queue, replay, loading, fails>>

CallReturns(s, call) ==
    /\ call.reply # <<>>
    /\ Show(s, onCardEvent(cards[s], call.reply[1]))
    /\ calls' = [calls EXCEPT ![s] = @ \ {call}]
    /\ UNCHANGED <<server, taps, queue, replay, loading, fails>>

(* Whatever made the call fail, the operation goes to the queue: the       *)
(* network, before or after the server executed it, or the server itself.  *)
enqueue(s, call) ==
    /\ queue' = [queue EXCEPT ![s] = Append(@, call.tap)]
    /\ calls' = [calls EXCEPT ![s] = @ \ {call}]
    /\ UNCHANGED <<server, taps, cards, replay, loading>>

NetworkFails == fails < MaxFails /\ fails' = fails + 1

CallLost(s, call) == NetworkFails /\ enqueue(s, call)

CallRefused(s, call) ==
    /\ Refused(taps[call.tap])
    /\ enqueue(s, call)
    /\ UNCHANGED fails
-----------------------------------------------------------------------------
(* reconnect(): replayQueue, then load.  The browser's online event calls  *)
(* it, and nothing keeps two runs apart.  The board asks for it on the     *)
(* bus's reconnect too, but through subscribe, which hears the types of    *)
(* notifications only: that call never comes.                              *)

SetReplay(s, w, r) == replay' = [replay EXCEPT ![s][w] = r]

(* Mutant: no load at the end of a replay.                                 *)
ProceedWithoutLoad(s, w, rows) ==
    /\ SetReplay(s, w, [rows |-> rows, served |-> FALSE])
    /\ UNCHANGED loading

(* The rows the run took that are still to be sent; none left, it loads.   *)
Proceed(s, w, rows) ==
    /\ SetReplay(s, w, [rows |-> rows, served |-> FALSE])
    /\ IF rows = <<>> THEN Want(s) ELSE UNCHANGED wanted
    /\ UNCHANGED <<loads, cache>>

(* Mutant: a reconnect only loads.                                         *)
ReconnectLoadOnly(s, w) ==
    /\ replay[s][w].rows = <<>>
    /\ Proceed(s, w, <<>>)
    /\ UNCHANGED <<server, taps, cards, calls, queue, fails>>

reconnect(s, w) ==
    /\ replay[s][w].rows = <<>>
    /\ Proceed(s, w, queue[s])
    /\ UNCHANGED <<server, taps, cards, calls, queue, fails>>

ReplayServed(s, w) ==
    /\ replay[s][w].rows # <<>> /\ ~replay[s][w].served
    /\ board_op(Head(replay[s][w].rows))
    /\ SetReplay(s, w, [replay[s][w] EXCEPT !.served = TRUE])
    /\ UNCHANGED <<taps, cards, calls, queue, loading, fails>>

(* Mutant: the queue is cleared, with what was queued since the run began. *)
DropAll(s, n) == queue' = [queue EXCEPT ![s] = <<>>]

Without(q, i) == [k \in 1 .. Len(q) - 1 |-> IF k < i THEN q[k] ELSE q[k + 1]]

(* The reply is not looked at; the row is dropped by its key, unless       *)
(* another run has dropped it.                                             *)
drop(s, n) ==
    \/ \E i \in 1 .. Len(queue[s]) :
          queue[s][i] = n /\ queue' = [queue EXCEPT ![s] = Without(@, i)]
    \/ (\A i \in 1 .. Len(queue[s]) : queue[s][i] # n) /\ UNCHANGED queue

ReplayReturns(s, w) ==
    /\ replay[s][w].served
    /\ drop(s, Head(replay[s][w].rows))
    /\ Proceed(s, w, Tail(replay[s][w].rows))
    /\ UNCHANGED <<server, taps, cards, calls, fails>>

(* Any error ends the run: "still offline, keep the rest".                 *)
ReplayFails(s, w) ==
    /\ replay[s][w].rows # <<>>
    /\ \/ NetworkFails
       \/ Refused(taps[Head(replay[s][w].rows)]) /\ UNCHANGED fails
    /\ Proceed(s, w, <<>>)
    /\ UNCHANGED <<server, taps, cards, calls, queue>>
-----------------------------------------------------------------------------
(* Notifications and loads                                                 *)

(* A kds.card notification comes with a kds.status one, on which the board *)
(* loads.                                                                  *)
BusDelivers(s) ==
    /\ bus[s] # <<>>
    /\ Show(s, onCardEvent(cards[s], Head(bus[s])))
    /\ bus' = [bus EXCEPT ![s] = Tail(@)]
    /\ Want(s)
    /\ UNCHANGED <<row, last_id, executed, taps, calls, queue, replay, loads, cache, fails>>

LoadServed(s) ==
    /\ wanted[s] /\ Cardinality(loads[s]) < MaxLoads
    /\ loads' = [loads EXCEPT ![s] = @ \cup {_kds_board_data}]
    /\ wanted' = [wanted EXCEPT ![s] = FALSE]
    /\ UNCHANGED <<server, taps, cards, calls, queue, replay, cache, fails>>

(* The snapshot replaces what is shown, and is saved.                      *)
LoadReturns(s, board) ==
    /\ Show(s, board)
    /\ cache' = [cache EXCEPT ![s] = board]
    /\ loads' = [loads EXCEPT ![s] = @ \ {board}]
    /\ UNCHANGED <<server, taps, calls, queue, replay, wanted, fails>>

(* Server unreachable: the board falls back to the snapshot saved last.    *)
LoadLost(s, board) ==
    /\ NetworkFails
    /\ Show(s, cache[s])
    /\ loads' = [loads EXCEPT ![s] = @ \ {board}]
    /\ UNCHANGED <<server, taps, calls, queue, replay, wanted, cache>>
-----------------------------------------------------------------------------
Taps(s) == \E c \in Cards : bump(s, c) \/ recall(s, c) \/ voidCard(s, c)

(* Calls settle.                                                           *)
Calls(s) ==
    \E call \in calls[s] :
        CallServed(s, call) \/ CallReturns(s, call) \/ CallLost(s, call) \/ CallRefused(s, call)

(* A run of replayQueue goes on.                                           *)
Replays(s, w) == ReplayServed(s, w) \/ ReplayReturns(s, w) \/ ReplayFails(s, w)

Loads(s) ==
    \/ LoadServed(s)
    \/ \E board \in loads[s] : LoadReturns(s, board) \/ LoadLost(s, board)

Network(s) ==
    \/ Calls(s)
    \/ \E w \in Workers : reconnect(s, w) \/ Replays(s, w)
    \/ BusDelivers(s)
    \/ Loads(s)

Next == \E s \in Stations : Taps(s) \/ Network(s)

(* The network fails finitely often (MaxFails), so what was sent is        *)
(* answered in the end, and a run of replayQueue that began goes on.       *)
(* Nobody has to tap, and no browser has to come online again.             *)
Fairness ==
    \A s \in Stations :
        /\ WF_vars(Calls(s))
        /\ WF_vars(BusDelivers(s))
        /\ WF_vars(LoadServed(s))
        /\ WF_vars(\E board \in loads[s] : LoadReturns(s, board))
        /\ \A w \in Workers : WF_vars(Replays(s, w))

Spec == Init /\ [][Next]_vars /\ Fairness

(* House rule: nobody bumps a card that is in the last lane, though the    *)
(* board offers it.                                                        *)
HouseTaps(s) ==
    \E c \in Cards :
        \/ cards[s][c].lane < NumLanes - 1 /\ bump(s, c)
        \/ recall(s, c)
        \/ voidCard(s, c)

HouseNext == \E s \in Stations : HouseTaps(s) \/ Network(s)

HouseSpec == Init /\ [][HouseNext]_vars /\ Fairness
-----------------------------------------------------------------------------
(* Properties                                                              *)

(* No tap is lost, whatever fails while it is sent or sent again: the       *)
(* server has executed it, or a call carries it, or it is in its station's *)
(* queue (op, replayQueue).                                                *)
NoTapLost ==
    \A n \in 1 .. Len(taps) :
        \/ n \in executed
        \/ \E s \in Stations :
            \/ \E i \in 1 .. Len(queue[s]) : queue[s][i] = n
            \/ \E call \in calls[s] : call.tap = n

(* A station that shows a card's latest event shows its lane, unless a tap *)
(* of its own is still underway: event ids mean the same everywhere.       *)
Underway(s) == calls[s] # {} \/ queue[s] # <<>>

ShownAsLogged ==
    \A s \in Stations, c \in Cards :
        ~Underway(s) /\ cards[s][c] # Off /\ cards[s][c].event_id = row[c].event_id
            => ~row[c].voided /\ cards[s][c].lane = row[c].lane

(* The browsers come online again and again, which is the one thing that   *)
(* starts a replay.                                                        *)
Reconnects == \A s \in Stations : WF_vars(\E w \in Workers : reconnect(s, w))

(* Every tap reaches the server in the end, whatever failed on its way, if *)
(* the browsers keep reconnecting: queued bumps "sync ... on reconnect".   *)
EveryTapSyncs ==
    Reconnects => \A n \in TapId : Len(taps) >= n ~> n \in executed

(* Once the tapping is over, every station ends up showing what the server *)
(* has, if the browsers keep reconnecting (load on bus events and on       *)
(* reconnect).  Without a reconnect it may not, though nothing failed: a   *)
(* late reply puts back a card that another call has voided since, and no  *)
(* event follows that would take it off.                                   *)
ViewsSettle == Reconnects => <>[](\A s \in Stations : cards[s] = _kds_board_data)
=============================================================================
