# Hotel-ka, specified

A verification project for the twelve Odoo 19 add-ons of this repository: a
hotel front desk, the point of sale and kitchen display it sells food through,
and the gateways around them. The modules are translated from the code; TLC
checks them on small instances and TLAPS proves the central results for every
value of the constants.

## The system

| Component | Code | State it keeps | Operations | What is hard | Status |
|---|---|---|---|---|---|
| Folio and room board | `hotel_management_odoo` (`room_booking.py`, its lines, its form view) | folio state, room and item lines, invoice flags; `status` and `is_room_avail` of rooms | reserve, check in, cancel, check out, maintenance request, invoice, done; saves of the form | no method guards its own state: the form's `invisible` conditions do, on values that may be stale; folios share the room board | modelled: `RoomBooking`, `RoomLedger` |
| Maintenance and cleaning requests | `maintenance_request.py`, `cleaning_request.py` and their views | request state, what is filled in | assign, accept, support, complete, verify; saves of the form | the same unguarded buttons; the assignee's field leaves the form after the assignment | modelled: `ServiceRequests` |
| POS charges on a folio | `hotel_pos_extension` (models and the till's JavaScript) | order-to-folio link, unpaid room charges, the room in a till's memory | choose a room, pay, validate, sync in several passes, invoice without reconciliation, write from the back office | the room is in one till's memory only; an order goes through several tills, and through forms that may be old | modelled: `HotelPos` |
| Kitchen tickets and cards | `eh_pos_kds_core` | tickets, items, cards, append-only bump events, ready stamp | move, advance, void, mark ready | a card's state is its latest event | modelled: `KdsCards` |
| Order intake and routing | `eh_pos_kds_core`, `eh_pos_kds_restaurant` (`pos_order.py`, `eh_kds_board.py`) | what the kitchen knows of each order line | a diff on every sync, course by course | exceptions are swallowed half-way; two add-ons each run the intake | modelled: `KdsIntake` |
| Board page and offline queue | `eh_pos_kds` (`kds_board.js`, `offline.js`, `main.py`) | cards shown, IndexedDB queue, cached snapshot | tap, call, enqueue, replay, load, bus event | lost replies, overlapping replays that only the browser's `online` event starts, reordered loads, stale echoes | modelled: `KdsStation` |
| MCP endpoint | `odoo_mcp_manager` (`mcp_endpoint.py`, `ai_tool.py`, `ai_consent.py`, `ai_session.py`) | consents, sessions, logs | tool call behind a consent, initialize, grant, deny, terminate | overlapping transactions, retries after a clash, errors caught with half the work committed, crashes | modelled: `McpGateway`, `ConsentLedger` |
| Allow-list | `ai_tool_access.py`, `ai_tool.py` | rules, the settings, what was seeded | seed at upgrades, edit, gate and run the generic tools | rules change under a running tool; upgrades come back | modelled: `ToolAccess` |
| Bot gateway | `bot_gateway_controller.py`, `bot_gateway_service.py`, four adapters, `bot_conversation.py` | conversations | webhook delivery, loopback call, reply | a delivery holds a worker while it waits for another; replies leave before the commit | modelled: `BotGateway` |
| Bot channels | `ai_bot_channel.py`, `bot_auth.py` | status, webhook secret; the webhook at the platform | connect, disconnect, edit, new secret | the platform's half takes effect at once, ours at the commit; a connected channel can be edited | modelled: `BotChannels` |
| AI providers | `ai_provider.py`, `ai_model.py`, the import wizard | credentials, connection status, models and defaults | check, import, archive, chat with fallbacks | seconds of HTTP inside a transaction; validation against a snapshot | modelled: `AiProviders` |
| Cart and wallet of the mobile app | `taqnix_restaurant` (`cart.py`, `pos_promotions.py`) | loyalty points, orders | place an order, add funds | several cards are read, one is charged; the charge survives most failed orders; prices and amounts come unchecked | modelled: `MobileCart` |
| Receipts, QR, app builder, catalogue, reports, dashboards, the other APIs | the rest | layout, configuration, Odoo's own records | I/O, single transactions | see *Not modelled* | not modelled |

How they interact: clerks press buttons on form snapshots and share rooms
through the room board. A folio, or somebody cleaning, asks for repairs. A POS
sync runs the intake, which writes items, cards and events, and links a charged
order to a folio. The stations call `board_op`, which moves cards; each change
is pushed on the bus to every station of the board, and a station answers most
of what it hears with a full load. A chat platform delivers a message to the
bot gateway, which asks a provider for a tool and calls the MCP endpoint of the
same server over HTTP; the endpoint asks for consent, the tool asks the
allow-list, and the answer goes back to the platform. `PROJECT.json` lists every
component, and under "hazards" the lines where an order of events nobody tested
could bite.

## Modules

| Module | Role |
|---|---|
| `RoomLedger` | abstract: what the front desk is promised of the room board |
| `RoomBooking` | the folio and the room board; refines `RoomLedger` under the house rules |
| `MCRoomBooking` | symmetry for its runs |
| `RoomBookingProofs` | theorems for every conduct of the clerks; those under the house rules, and the refinement |
| `KdsCards` | the ticket's records and the operations on a card, as operators |
| `KdsIntake` | one order being synced while stations move its cards; `EXTENDS KdsCards` |
| `MCKdsIntake`, `KdsIntakeProofs` | its runs' symmetry, its theorems |
| `KdsStation`, `MCKdsStation`, `KdsStationProofs` | the board pages, their queues and the network; their theorems |
| `ServiceRequests` | cleaning and maintenance requests and their forms |
| `HotelPos` | restaurant orders charged to a room, through several tills |
| `MobileCart` | orders and deposits of one customer of the app |
| `MCGuestServices`, `GuestProofs` | the run of these three, and their theorems |
| `ConsentLedger` | abstract: what an approver is promised |
| `McpGateway`, `McpGatewayProofs` | the MCP endpoint; refines `ConsentLedger`; its theorems |
| `BotGateway`, `MCBotGateway`, `BotGatewayProofs` | the chat bots on top of it; `EXTENDS McpGateway`; their theorems, with the refinement of the endpoint |
| `BotChannels`, `AiProviders`, `ToolAccess` | connecting a bot; providers and chat; the allow-list |
| `MCAssistant`, `AssistantProofs` | the run of these and of the endpoint by itself; theorems about the three and the composition |
| `FoldLemmas` | induction over numbers and finite sets, and sums by folds, for the proofs |
| `MCFrontDesk` | restricts `RoomBooking` to two small hotels, one for the board and one for the bills |

Definitions keep the source's names; `PROJECT.json` "map" gives each its lines.
Operators marked "Mutant" are plausible bugs; no specification uses them, and
each property is known to fail when one of them takes the place of the
definition that follows it.

### RoomBooking

An action is a button, a save of the form, or an event of accounting. Odoo runs
a call as one transaction under REPEATABLE READ and retries it on a conflict, so
a button is atomic. A button can be pressed when the form *shows* it (`Shows`
and the other conditions on `form[u]` come from the view), and takes effect on
the record as it *is*: `form[u]` is the snapshot the clerk's browser last
loaded. The `duration` of a folio is the `uom_qty` of all its room lines
(`_onchange_checkin_checkout_dates` writes it to each). A save that changes a
line hides *Create Invoice* (`_onchange_room_line_ids`), one that changes none does
not. Items (food, services,
vehicles, events) behave alike and have up to two lines of one product. What is
invoiced is kept by product and price, as `invoiced_map` does.

Abstracted: amounts and taxes, dates, customers; the price of a room is fixed;
invoices are not deleted, cancelled or refunded; a draft invoice is `not_paid`,
as it is in Odoo. Switching a need off deletes its lines in the onchange already,
before the save; the model has both in one step (`ToggleNeed`). The bill wizard,
the reports and the dashboard only read.

`Spec` lets clerks do whatever their forms let them. `HouseSpec` is the same
code under house rules the code leaves to people: a form is used only while it
shows the record as it is, rooms are changed on drafts only, and only a room no
open folio lists is added. Nothing of the code's own behaviour is restricted by
them, only when it is called.

### KdsCards and KdsIntake

One POS order and its ticket. `Kitchen` holds, per order line, the item's
`quantity` and `cancelled`, and per card its lane and its bump events; no
status is stored, as in the code. `_eh_kds_intake` is the loop over the
routable lines as a whole: the lines up to the first that raises are treated,
the rest are not (`Reached`), and what was written stays. `_process_order`
composes the two add-ons: the core runs the intake for paid orders and the
restaurant add-on for every order of a restaurant, hence twice for a paid one.
Stations call `board_op` between syncs on cards they know, voided ones included:
one or several of a board, in any order, a card twice too. `Round` is one pass of
the code's `for card in self`, `ForEach` the call; `Loop` is what the passes hand
on, the `kind` of `move_to` among it: worked out for the first card that moves, it
is logged for all the others. `advance` calls `move_to` for each card anew. A call
fails as a whole.

Abstracted: the rule matching of `_lane_for` (any board may take a line, in any
lane of `TargetLanes`), texts, pushes (the board pages are `KdsStation`), the
notification channels. Quantities are not negative. A paid order is not
synced again, and a removed line's uuid does not come back (both are Odoo's).

### KdsStation

Cards exist and stations move them. A tap changes the page at once and starts a
call; the call is served, or refused, and its reply returns or is lost. A call
that fails for any reason is queued, if only the server failed too. `reconnect`
copies the queue and sends the copy row by row; runs overlap when the browser
comes online again before one is through. Nothing but the `online` event starts
one: `subscribe` also asks the bus for `BUS:RECONNECT`, but with
`bus.subscribe`, which hears types of notifications and never that. A bus event
is applied and asks for a load; a load's answer replaces the page whatever came
in between.

Abstracted: the page is not reloaded and IndexedDB works (`offline.js` says the
tap is lost otherwise); the two notifications of a push arrive together; a
pushed-out and a removed card look alike. `Off` is a card the page does not show.

### ServiceRequests

As in `RoomBooking`, `page[u]` is what a form last loaded, and decides which
buttons and fields there are; the methods look only at the fields they ask for.
`been` remembers the states a request has been in, `bypassed` the requests ever
written from a form that was out of date. "details" stands for whatever the
request's type asks for. *Request Support* is shown for `support_team_ids !=
False and ...`: a many2many never equals `False`, so the state decides.
`action_verify` also writes the `status` of a vehicle. No add-on here gives
`fleet.vehicle.model` such a field and Odoo refuses to assign an unknown one:
the request of a vehicle cannot be verified.

### HotelPos

`copy[t][o]` is a till's copy of an order; its `room` is `uiState` and is the
one thing another till does not load. `_process_order` is a whole sync:
`_order_fields`, `create` or `write`, the second write and
`_ensure_hotel_pos_line`; an order without a booking keeps the line it has. In the
back office the booking can be edited on a form that *shows* a draft
(`readonly="state != 'draft'"`); `write` itself looks at no state. `drafts` are the
orders some form shows as drafts, whatever has become of them since; `stray`
remembers those written from such a form when they were drafts no more.
Amounts are left out; the invoice is open, reconciled with the till's payment or
settled at the desk. Payment lines, the invoice switch, loading and the rule that
a paid order is not synced again are the core's and marked external.

### MobileCart

A request reads a snapshot when it starts and writes at its end; if one of the
cards it writes was written meanwhile, the database refuses and the request runs
again or ends. Balance and charge are of different things: all cards are added
up, the first is charged. The total (`BeforeCoupon`, `AfterCoupon`,
`AmountTotal`) is kept beside the lines (`Delivery`, `DiscountLines`,
`OrderLines`), as `calculated_amount_total` is beside `order_lines`. What the
app sends is taken as it comes: the lines of a cart and the amount to add may be
negative. An order that fails has two ends: a rule of the order refuses it, the
error is caught and the charge commits ("failed"); the database refuses a
statement, and though the error is caught all of it is rolled back ("refused").

Abstracted: taxes (amounts include them), fractions (whole numbers, a percentage
rounded down), which product is missing. The customer's wallets exist already, and
the till is assumed to take nothing from them. The wallet's history only reads.

### McpGateway and ConsentLedger

An HTTP call is one transaction: `Begin` (authentication and the handler's
decision), `execute` (the tool), then `Commit`, `Clash` or `Crash`. `row` is the
consent or session row the call will write, `stale` the open calls whose row was
written since they began. What Odoo and PostgreSQL do, and the model takes from
them: REPEATABLE READ; the second of two updates of a row fails and the request
is run again, a bounded number of times; an inserted duplicate is not
retried; the response leaves after the commit. What the code does: it catches a
tool's exception, so half the work commits; it writes logs in a cursor of their
own; it swallows the clash in its own log. `ConsentLedger` knows approvals and
runs only.

### BotGateway

A delivery goes from `new` to `done` or `dead`. It is begun by a free worker, or
by a thread of Discord's pool after "deferred" was answered; waits for its call
(`Loopback` needs a free worker of the same pool); sends; and commits, clashes
and is run again, or, at Discord, apologises. `history` is the length of the
conversation it read. Two first messages of a user contend for the unique
key of the conversation. The model of the endpoint is `McpGateway` itself, with
other callers and approvers around it.

### BotChannels, AiProviders, ToolAccess

`BotChannels`: `hook` is what the platform sends, `shown` the channel's status,
`knows` what an open transaction goes by. `SaveChannel` is a save of the form,
which offers platform, token and address in every state and leaves the status:
what the bot it now names sends is anything it was told before. A channel's form
is used by one administrator at a time, and no two channels hold one bot's
token. `AiProviders`: an administrator's transaction has a begin and an end
(`doing`, `on`, `took`, `saw`), everything else is short; a chat is a plan of
attempts worked off one by one. `ToolAccess`: a call reads the rules and its
record at the begin; `left` is the rule as the last administrator left it,
`let_in` the open calls the rules allowed at their begin, which the gate of the
code is compared with.

## Checks

Deadlock is checked except in `KitchenTicket`, where a paid order whose cards
have used up `MaxEvents` really has nothing left to do, and in `AssistantBots`,
`AssistantHub` and `GuestServices`, which end when their calls, deliveries,
requests and moves are used up.

| Run | Instance | Shows |
|---|---|---|
| `FolioBilling` | either 2 folios, 2 rooms, 2 clerks, or 1 folio, 1 room, 1 clerk, 1 item, 2 prices, 2 invoices, quantities to 2 | `TypeOK`; `AvailAgrees`: whatever is pressed on whatever old form, a room's two availability fields agree; `NoOverInvoicing`: no invoice goes beyond what the folio books |
| `HouseRules` | 2 folios, 2 rooms, 2 clerks, 1 invoice | under the house rules `RoomBoardExact`, `DoneIsSettled`, `RequestSentOnce`, `ClosedStaysClosed`, and `LedgerSpec`: the code implements `RoomLedger` |
| `KitchenTicket` | 2 lines, 1 board of 3 lanes, quantities to 2, 3 events a card, up to 2 cards a call | `TypeOK`, `HistoryReplays`, `IntakeExact`, `StampedUnlessVoided`, `AppendOnly`; `OnlyMoveNamed`: a call that moves one card logs where it went |
| `KitchenCrowd` | 2 stations, 1 card, 2 lanes, 2 taps, 1 network failure | `TypeOK`, `NoTapLost`, `ShownAsLogged`, with bumps past the last lane and a queue that grows during a replay |
| `KitchenStations` | 1 station, 3 lanes, 2 replay runs, 2 taps, 1 failure, 2 loads underway | `EveryTapSyncs`, `ViewsSettle`, both if the browser keeps coming online |
| `AssistantBots` | 2 deliveries of one conversation (Telegram and Discord, or WhatsApp and web) and 2 calls, or 3 deliveries (web, Discord and Telegram: the third lets one be run again until the server gives up) and 1 call; 2 workers, 1 thread, 2 tries | `TypeOK`; `AnsweredInContext`; `ResultsAreKept`: a result shown is committed with all of its work; `EveryDeliveryEnds` |
| `AssistantHub` | 3 calls, 2 tools (1 guarded), 1 client, 2 tries; 2 channels, 2 secrets; 2 providers, 3 models, 2 administrators; 1 table, 5 operations, 2 runs; 3 moves of people | `HubTypeOK`; `OneRunPerGrant` and `TwinsOverlapped` of the endpoint; `ConnectedIsHeard` of the channels; `ConnectedMeansChecked`, `AnyProviderWillDo`, `TwoDefaultsOverlapped` of the providers; `EditsSurvive` and `ObeysTheRules` of the allow-list |
| `GuestServices` | 1 cleaning, 1 repair, 2 members of the staff; 2 tills, 1 order, 2 folios; 3 requests, 2 cards, carts that are empty, of 4, or below zero, amounts of 2 and -3 | `GuestTypeOK`; `NoStepSkipped`, `SomebodyIsOnIt` of the requests; `ChargedIsBilled`, `PaidStaysBilled` of the room charges; `NeverOverdrawn`, `LinesAddUp`, `PointsAccounted` of the wallet |
| `SharedRoom` | 2 folios, 1 room | *violated*: `NoSharedRoom` |
| `InvoicedTwice` | 1 folio, 1 item, 2 prices | *violated*: `NoDoubleInvoicing` |
| `KitchenMissesLine` | 2 lines | *violated*: `LinesReachKitchen` |
| `BumpPastEnd` | 1 station, 2 taps, no network failure | *violated*: `EveryTapSyncs` without the house rule on the last lane |

Bounds. `MaxQty` is the longest stay and the largest quantity; `Moves` the
invoices that can be created; `MaxQuantity` and `MaxEvents` end an order's
history; `MaxNamed` the cards a station names in one call; `MaxTaps`,
`MaxFails`, `MaxLoads` the taps, the network failures and the snapshots
underway; `MaxCalls` the HTTP calls, `MaxTries` how often one is run (the web
layer's limit is 5), `MaxSecrets` the secrets, `MaxMoves` what administrators,
networks and chats start of providers and rules; `Workers` and `Threads` are the
server's. They are enough because each hazard needs few actors: two folios
contend for a room; two invoices and two prices separate what was billed from
what is billed now; three events are a placement, a move and a void or a way
back; two taps are an older and a newer one, one failure loses either a call or
its reply, two replay runs overlap, two loads reorder; two cards in a call are
the first and one that is logged like it; three calls are one that asks and two
that use a grant; two tries are one that clashes and one that does not; two
workers are the least with which a delivery can be answered, and two deliveries
fill them; two secrets are an old and a new one; three wallet requests are two
that overlap and one that is run again; two tills are the one that knows the
room and the one that does not. The theorems below have no such bounds. What is
symmetric (`SYMMETRY`) is only what no definition tells apart; the liveness runs
use no symmetry.

Parts that share no state and that no property relates are checked in one run
with one of them moving in a behaviour, chosen at the start (`MCAssistant`,
`MCGuestServices`): their states add up instead of multiplying.

Fairness. `KdsStation`: `WF` of a station's calls, bus and loads and of the runs of
`replayQueue` that have begun: browser and server answer in the end because failures
are finitely many (`MaxFails`). That a run *begins* is assumed nowhere: only the
browser's `online` event begins one, and a browser that stays online fires none. So
both properties have the premise `Reconnects`, and without it a tap queued after an
error of the server waits for ever. `ViewsSettle` needs it even if nothing fails:
a late reply puts back a card another call has voided meanwhile, and only the load
of a reconnect, or a later event, takes it off again.
`BotGateway`: `WF` of each delivery's work and of each call's service: the
server's threads are scheduled, `requests.post` has its timeout (without it two
deliveries wait for each other's worker for ever, which the mutant `WaitOn`
shows), a free worker takes up what waits. No fairness is assumed of people,
platforms or crashes.

### What the violated runs say

* `SharedRoom`: `room_booking_line.py` confines a line's room to available
  ones; the folio's view replaces that domain by "is a room", and no method
  checks. Two folios check in to one room.
* `InvoicedTwice`: invoiced quantities are looked up by name *and price*. The
  lines' price is related to the product, so a price change makes everything
  look unbilled.
* `KitchenMissesLine`: more of a line that is being cooked logs an event of
  kind `updated`, which the event model does not have. The exception is
  swallowed, and the order's later lines do not reach the kitchen.
* `BumpPastEnd`: the docstring says a bump past the last lane clears the card.
  The code sets a required field to `False`; the call fails, is queued, and
  heads the queue for good. The board offers Bump in the last lane.

Other disagreements met while modelling are listed as hazards with a note (a
partly paid folio that closes, a removed line whose card stays, a vehicle's
request that cannot be verified, a folio closed over its restaurant bills).
Smaller ones, all reached by the models: `is_checkin` is set nowhere; two lines
of one product are each compared with all that was invoiced of it; a replayed
tap overrides a newer one; a station that has not heard of a void moves the card
back onto the board; a failed row of IndexedDB or a reloaded page forgets a tap;
a restart forgets Discord's queue; a fallback is not told the model the request
named, against `odoo_mcp_manager/DOCUMENTATION.md`, so a provider may be able to
answer and not be (`AnyProviderWillDo` speaks of what a fallback is asked); an
import that meets an archived model imports nothing; unticking the allow-list in
the settings has no effect, since the parameter is removed and counts as set; of
two active channels of one platform only the first is looked at; one of a
customer's cards may go below zero while their sum does not. Also: of several cards
moved in one call all are logged as what the first one was; a tap queued after an
error of the server waits for an `online` event, although `kds_board.js` asks for
`BUS:RECONNECT` too; a late reply shows a voided card again; a negative line or
amount of the app is taken as it comes, and makes totals and balances negative; a
connected channel keeps its status when it is given another platform or token; an
out-of-date form of the back office can move a paid order to another folio; a form
that still shows an earlier state reopens a request that is done; an order that
fails without an error of the database keeps the customer's points, and the
wallet's history, which lists the latest 20 order lines, shows nothing of it.

## Proofs

Every invariant and every action property of the passing runs is a theorem,
for every value of the constants; only liveness is left to TLC. They speak of a
component's own specification. The runs' are that specification (or one of its
compositions, for which there are theorems too), with less freedom in
`FolioBilling` (`DeskSpec` restricts `Spec`), and begun with deliveries and a call
already turned away in `AssistantBots`. The assumptions
are the modules' named `ASSUME`s, which TLC evaluates in their runs; they say
that bounds are numbers, that sets TLC enumerates are finite where something is
added up over them, and what belongs to what (a line to an order, a delivery to
a chat, a model to a provider).

Each proof has the same shape: an inductive invariant stronger than the
property, one step per action that keeps it, and a last step in temporal logic.
What the strengthening has to say is the interesting part:

`RoomBookingProofs` (any number of folios, rooms, items, prices, clerks):

* `TypeCorrect`: `Spec => []TypeOK`; `TypeOK` is inductive.
* `AvailabilityAgrees`: `Spec => []AvailAgrees`, over `WriteRooms`, the only
  definition that writes the board.
* `InvoicesWithinFolio`: `Spec => NoOverInvoicing`, of a product at a price, by the
  arithmetic of `get_delta`: two lines' deltas together never take the invoiced quantity
  beyond the two lines' sum.

For `HouseSpec`, `RoomBoardExact` is inductive with `TypeOK`: exclusivity is what
lets a cancellation give rooms back without looking, and exactness of the shown
status is what the check-in of a reservation needs.

* `BoardExact`, `DoneStaysSettled`, `ClosedForGood`, `SentOnce` (a folio's request
  and its flag are written together, and the form that shows the button is the
  record): the run's properties.
* `ImplementsLedger`: `HouseSpec => Ledger!Spec`, one step per button; reserve
  and check-in map to `Take`, cancel and check-out to `Release`, the rest stutter.
* `OneHolderPerRoom`: `HouseSpec => []Ledger!OneHolder`, through the refinement.

`KdsIntakeProofs` (any lines, boards, number of lanes and bounds). The
inductive invariant `IInv` is the type of the order, a well-formed kitchen
(`GoodKitchen`: typed records, `cancelled` within `quantity`, every log a good
history) and exactness after a complete intake. The well-formedness is stated of
a kitchen *value*, so that the two intakes of a paid restaurant order are two
uses of one lemma.

* `TypeCorrect`, `LaneIsProjection`, `CompleteIntakeIsExact`, `LogIsAppendOnly`: what
  holds before a call holds after each round of its loop, by induction on the number
  of rounds, for whatever cards it names.
* `DirectionIsNamed`: `Spec => OnlyMoveNamed`. As long as the loop has moved no card
  it has no kind to carry on, so that the only move of a call is judged by itself.
* `ReadyIsStamped`: `Spec => []StampedUnlessVoided`. `Stamped` is inductive
  relative to `IInv`: an intake places no ready card, a void stays in the log,
  and a move asks `_maybe_mark_ready`. The property names the two ways past the
  stamp, which TLC finds if either is dropped: voiding the last card that lags,
  and a route rule whose target is the ready lane (`NoneArrivesReady`).

`KdsStationProofs` (any stations, cards, lanes, taps, failures, loads):

* `TypeCorrect`: with the type go `Numbered` (calls, queues and the copies replays
  work off hold taps that were tapped) and `Sent` (a replay waits for the answer
  to a row only if it has one).
* `TapsAreKept`: `NoTapLost` is not inductive by itself, since a replay drops from
  the queue what it holds in its *copy*; `Answered` adds that whatever has an
  answer, a call's or a row's, is executed, so only executed taps are dropped.
* `ShownIsLogged`: `PageInv` bounds what any message may claim. Event ids grow; a
  notification, a reply, a snapshot under way and the cache tell of an event the
  card has had, and of the latest one only what the card is (`HeardInv`); a page
  shows that, or the lane into which a tap of its own that is not executed yet
  has put the card (`Ahead`, in `ShownInv`).
* `HouseRuleKept`: `HouseSpec => Spec`, so that these hold of both runs.

`McpGatewayProofs` (any calls, users, tools, clients, tries):

* `McpTypeCorrect`: `McpSpec => []McpTypeOK`.
* `ConsentIsSpent`: the endpoint implements `ConsentLedger`. The inductive
  `LedgerInv` says that rows belong to calls that have been made, that work is
  done by tool calls only, and that the consent of an open call that is not
  stale is still granted (`StillGranted`): whoever takes a grant away makes its
  other users stale, so a commit finds it as the call's begin did.
* `TwinsOverlap`: `TwinInv` adds that the calls another has seen have ended, that
  a session about to be resumed by a call that is not stale is live, and that
  whoever is about to create a session or a consent saw none of its kind.

`BotGatewayProofs` (any deliveries, conversations, workers, threads on top):

* `BotsAreClients`: `Spec => McpSpec`. A step of a bot is a step of the endpoint or
  leaves its variables alone, so that everything above holds under the bots too:
  `BotsPayForRuns`.
* `TypeCorrect`, with what the stages of a delivery say of its runs and its reply.
* `ShownResultsAreKept`: `KeptInv` follows a result backwards: a reply that shows
  one comes from a call that is answered (`Backed`), an answered call with a
  result has left all of its work (`WorkDone`), and the call a delivery waits for
  is a tool's (`Asked`), not a handshake, whose result leaves no work.
* `ConversationsReadInOrder`: `ContextInv`: an open delivery that is not `behind`
  has read the conversation at its present length (`UpToDate`), and of the first
  messages of a conversation one at a time holds its unique key (`OneCreates`).

`AssistantProofs` (any channels, secrets, providers, models, administrators,
tables and runs):

* `BotIsHeard`: `HeardInv` ties, for a channel nobody outdated or edited, what the
  platform sends to the secret in force through every step of a connection.
* `CheckedIsCurrent`: `CheckInv`: the credentials an open check took are the
  provider's, unless the check is late.
* `FallbacksSuffice`: `AnswerInv`: while a chat is being answered, whoever could
  have answered it since its begin is reached *and its attempt is still in the
  plan*. Two lemmas carry it: `First` leaves out no provider (`FirstFacts`, by
  induction along the order), and a plan holds every other provider with a chat
  model (`PlanFacts`).
* `DefaultsOverlap`: `DefaultInv`: a model that is not there is nobody's default,
  so that an import, which makes models active unasked, makes none a default.
* `EditsStay`, `RulesObeyed`: `EditsInv` (before the seeding nobody has edited) and
  `GateInv` (the gate lets pass only calls the rules allowed when they began); the
  step that writes a record closes the call it belongs to, so that no other call
  stands in for it.
* `HubTypeCorrect`; `PartsAreKept`: the composition implements each of its four
  parts; `AssistantKeeps`: it keeps all of their promises.

`GuestProofs`:

* `NoneSkips`: `WayInv`: a form shows a state the request was in, and the states
  it was in are closed under the predecessors of `Way`. Stale forms do no harm:
  their state is one of those.
* `SomebodyOnRepairs`: inductive with the type.
* `ChargeOnBill`, `PaidIsFixed`: `BillInv`: a till that is done with a room charge
  has asked for room and invoice, there is no invoice before the order is paid,
  and a charged paid order is linked to a folio, the one it names unless a stray
  form has taken its booking off.
* `OrdersAddUp`: the sum of the lines follows the total through delivery, discount
  and wallet, line by line, for negative carts too; the coupon takes off no more than
  there is, and the wallet no more than is left.
* `CardsCover`: that the sum of the cards is bounded below is inductive only with
  `OthersKept`: since an order's snapshot the cards it does not charge have lost no
  more than negative amounts took, and the one it charges is the one it read, or the
  commit is refused.
* `EveryPointAccounted`: `Booked` says it of the sums over all requests of one
  kind; the step of a request moves its own summand from one sum to another.
* `TypeCorrect`; `ServicesAreKept`, `ServicesKeep`: as for the assistant.

`FoldLemmas`. The library's induction theorems take an operator, which no prover
here can instantiate. `SetInduction` states induction over a *set* of numbers
instead, from the well-foundedness of `<` and the least element outside;
`SubsetInduction` does the same for the subsets of a finite set. From them come
the facts about `FoldFunction` and `FoldSeq` the wallet needs: a sum exists, is a
number, changes by what one summand changes, splits off any one summand, and is
monotone. No definition in a module with proofs is `RECURSIVE`; `First` is a
recursive function for that reason.

Only model-checked: liveness (`EveryTapSyncs`, `ViewsSettle`,
`EveryDeliveryEnds`), out of the prover's reach, and that the four violated
properties are violated.

## Plan

1. Done: the front desk, the kitchen, the services around a stay, the AI
   assistant; the refinements; every safety property proved.
2. What could still be proved: the safety half of the liveness properties (a tap
   at the head of the queue is not overtaken, a delivery's measure decreases with
   each of its steps).
3. Composition of `KdsIntake` with `KdsStation` on a board's cards, if the state
   space allows; table transfer.

## Not modelled

* `ss_print_pos_kitchen_receipt`: layout, and a choice among methods by their
  presence in the point of sale's core, which is not part of the repository.
* `itp_pos_qr_payments`, `itp_pos_qr_scan`: a computed reference, a vendored decoder.
* `rest_api_odoo`: generic reading and writing of any model, one transaction a call.
* `taqnix_restaurant` beyond cart and wallet: each request is one transaction
  over Odoo's own records; nothing of its own lasts from one to the next.
* `taqnix_app_builder`: a form in front of an external service.
* Catalogue, amenities, floors, reports, dashboards, chatter logs: master data and
  reading.
* In the kitchen: printing, alarms, table transfer, the reload of a page.
* `maintenance_request.py`: Duplicate. `state` is copied (line 41), so a copy of a
  request that is done is done, and no step led to it.
* `mcp_endpoint.py`: an error of the *database* in a tool leaves a transaction that
  cannot commit, so that nothing is kept and the consent stays granted; in `McpGateway`
  every failure of a tool lets half of its work and the consent's reset commit.
* In the modelled parts: amounts beyond those a property speaks of, texts, logs
  beyond their status, deletions of records, the windows of the rate limits, the
  sanitising of search domains, the synchronisation of tools and resources.
* Unique keys declared as `_sql_constraints` are taken to be in force. Where they
  are not (Odoo 19 reads `models.Constraint` instead), two first messages can make
  two conversations.
