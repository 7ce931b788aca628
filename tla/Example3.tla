------------------------------ MODULE Example3 ------------------------------
(***************************************************************************)
(* roq::samples::example_3: Strategy, which places one order at a time on  *)
(* the signals of its model, and Instrument, which caches the state of the *)
(* market, decides when it may be traded and keeps the position.  The      *)
(* handlers run one at a time; what varies is the order of the events, the *)
(* fills, and the loss of the connection at any moment.  The gateway, with *)
(* its download after every connect, is external.                          *)
(***************************************************************************)
EXTENDS Example3Model, Sequences, FiniteSets

CONSTANTS
    enable_trading,  \* settings.enable_trading
    Lot,             \* the order quantity, Instrument::min_trade_vol
    Held,            \* the position of the account at first, at most one lot
    AccountInside,   \* the account's download lies inside the market's
    MaxOrders,       \* bound: highest order id
    MaxRequests,     \* bound: requests under way (a cancel may be sent again)
    MaxDisconnects   \* bound: how often the connection is lost

ASSUME Example3Assumption ==
    /\ enable_trading \in BOOLEAN /\ AccountInside \in BOOLEAN
    /\ Lot \in Nat \ {0} /\ Held \in Int /\ -Lot <= Held /\ Held <= Lot
    /\ MaxOrders \in Nat \ {0} /\ MaxRequests \in Nat \ {0} /\ MaxDisconnects \in Nat

VARIABLES
    inst,              \* Strategy::instrument_
    model,             \* Strategy::model_
    samples,           \* samples the model has seen since it was reset
    sampling,          \* next_sample_ # 0
    max_order_id,      \* Strategy::max_order_id_
    working_order_id,  \* Strategy::working_order_id_
    working_side,      \* Strategy::working_side_
    requests,          \* requests not yet processed by the gateway
    inbox,             \* events of the gateway not yet handled
    order,             \* order[id]: the orders the gateway knows
    exposure,          \* the position of the account at the exchange
    up,                \* the connection is up
    disconnects,
    halted             \* "no", or why the process stopped

strategy == <<inst, model, samples, sampling, max_order_id, working_order_id, working_side>>

wire == <<requests, inbox, order, exposure, up, disconnects>>

vars == <<strategy, wire, halted>>

Ids == 1..MaxOrders

Sides == {"BUY", "SELL"}

Running == halted = "no"

-----------------------------------------------------------------------------
(***************************************************************************)
(* Instrument.                                                             *)
(***************************************************************************)

NewInstrument ==
    [connected |-> FALSE, download |-> FALSE, ref |-> FALSE, multiplier |-> FALSE,
     open |-> FALSE, market_data |-> FALSE, order_management |-> FALSE, full |-> FALSE,
     long |-> 0, short |-> 0, ready |-> FALSE, last_order_id |-> 0, last_traded |-> 0]

position(i) == i.long - i.short

can_trade_any(i, side) == TRUE

can_trade(i, side) == IF side = "BUY" THEN position(i) <= 0 ELSE position(i) >= 0

tradable(i) ==
    /\ i.connected /\ ~i.download /\ i.ref /\ i.multiplier
    /\ i.open /\ i.market_data /\ i.order_management

check_ready_once(i) == [i EXCEPT !.ready = i.ready \/ tradable(i)]

check_ready(i) == [i EXCEPT !.ready = tradable(i)]

\* Instrument::reset.  The multiplier and the depth (full) are left alone.
reset(i) == [NewInstrument EXCEPT !.multiplier = i.multiplier, !.full = i.full]

on_connected(i) == IF i.connected THEN i ELSE check_ready([i EXCEPT !.connected = TRUE])

on_disconnected(i) == IF i.connected THEN reset(i) ELSE i

on_order_update_cumulative(i, u) ==
    IF u.side = "BUY" THEN [i EXCEPT !.long = @ + u.traded] ELSE [i EXCEPT !.short = @ + u.traded]

\* The traded quantity of an order is cumulative; only what is new counts.
on_order_update(i, u) ==
    LET last == IF i.last_order_id # u.id THEN 0 ELSE i.last_traded
        j == [i EXCEPT !.last_order_id = u.id, !.last_traded = u.traded]
    IN  IF u.side = "BUY" THEN [j EXCEPT !.long = @ + (u.traded - last)]
                          ELSE [j EXCEPT !.short = @ + (u.traded - last)]

on_position_update(i, p) ==
    IF i.download THEN [i EXCEPT !.long = p.long, !.short = p.short] ELSE i

-----------------------------------------------------------------------------
(***************************************************************************)
(* Strategy.                                                               *)
(***************************************************************************)

\* Order 1 is left from an earlier session and has filled.
Init ==
    /\ inst = NewInstrument /\ model = ResetModel /\ samples = 0 /\ sampling = FALSE
    /\ max_order_id = 0 /\ working_order_id = 0 /\ working_side = "UNDEFINED"
    /\ requests = << >> /\ inbox = << >>
    /\ order = [i \in Ids |-> IF i = 1 THEN [side |-> "BUY", status |-> "completed", traded |-> Lot]
                                       ELSE [side |-> "BUY", status |-> "none", traded |-> 0]]
    /\ exposure = Held
    /\ up = FALSE /\ disconnects = 0
    /\ halted = "no"

Request(kind, id, side) == [kind |-> kind, id |-> id, side |-> side]

\* dispatcher_.send: without a connection it throws, and nobody catches.
Sends(r) ==
    IF up THEN requests' = Append(requests, r) /\ UNCHANGED halted
          ELSE halted' = "not_connected" /\ UNCHANGED requests

try_trade(side) ==
    CASE enable_trading /\ working_order_id # 0 /\ side # working_side ->
            /\ Sends(Request("cancel", working_order_id, working_side))
            /\ UNCHANGED <<max_order_id, working_order_id, working_side>>
      [] enable_trading /\ working_order_id = 0 /\ can_trade(inst, side)
            /\ max_order_id + 1 \in Ids ->
            /\ max_order_id' = max_order_id + 1
            /\ Sends(Request("create", max_order_id', side))
            /\ IF halted' = "no" THEN working_order_id' = max_order_id' /\ working_side' = side
                                 ELSE UNCHANGED <<working_order_id, working_side>>
      [] OTHER -> UNCHANGED <<max_order_id, working_order_id, working_side, requests, halted>>

no_trade == UNCHANGED <<max_order_id, working_order_id, working_side, requests, halted>>

\* update_model when the instrument is ready and the depth is full.
Sample(fast, slow) ==
    LET u == update(model, fast, slow)
    IN  /\ model' = u.model
        /\ samples' = IF samples < warmup THEN samples + 1 ELSE samples
        /\ IF u.side = "UNDEFINED" THEN no_trade ELSE try_trade(u.side)

update_model ==
    IF ~inst.ready THEN model' = ResetModel /\ samples' = 0 /\ no_trade
    ELSE IF ~inst.full THEN UNCHANGED <<model, samples>> /\ no_trade
    ELSE \E fast \in Pairs : \E slow \in Averages(model, fast) : Sample(fast, slow)

\* The first timer only starts the sampling.
Timer ==
    /\ Running /\ Len(requests) < MaxRequests
    /\ sampling' = TRUE
    /\ IF sampling THEN update_model ELSE UNCHANGED <<model, samples>> /\ no_trade
    /\ UNCHANGED <<inst, inbox, order, exposure, up, disconnects>>

\* The next event of the gateway is e.
Handles(e) == Running /\ inbox # << >> /\ e = Head(inbox) /\ inbox' = Tail(inbox)

InstrumentOnly == UNCHANGED <<model, samples, sampling, max_order_id, working_order_id,
                              working_side, requests, order, exposure, up, disconnects>>

Connected ==
    /\ inbox # << >> /\ Handles([event |-> "connected"])
    /\ inst' = on_connected(inst)
    /\ InstrumentOnly /\ UNCHANGED halted

Disconnected ==
    /\ inbox # << >> /\ Handles([event |-> "disconnected"])
    /\ inst' = on_disconnected(inst)
    /\ InstrumentOnly /\ UNCHANGED halted

\* "we only care about market (not account)": the market's download has no account;
\* the source's empty string is written "none".
of_market(e) == e.account = "none"

on_download_begin(i, e) == IF of_market(e) THEN [i EXCEPT !.download = TRUE] ELSE i

on_download_end(i, e) == IF of_market(e) THEN check_ready([i EXCEPT !.download = FALSE]) ELSE i

\* assert(!download_), after the early return
DownloadBegin ==
    /\ inbox # << >> /\ Head(inbox).event = "download_begin" /\ Handles(Head(inbox))
    /\ inst' = on_download_begin(inst, Head(inbox))
    /\ halted' = IF of_market(Head(inbox)) /\ inst.download THEN "assert" ELSE halted
    /\ InstrumentOnly

download_end_ignored(e) == max_order_id

\* utils::update_max(max_order_id_, download_end.max_order_id), for market and account
download_end(e) == IF e.max_order_id > max_order_id THEN e.max_order_id ELSE max_order_id

\* assert(download_), after the early return
DownloadEnd ==
    /\ inbox # << >> /\ Head(inbox).event = "download_end" /\ Handles(Head(inbox))
    /\ inst' = on_download_end(inst, Head(inbox))
    /\ max_order_id' = download_end(Head(inbox))
    /\ halted' = IF of_market(Head(inbox)) /\ ~inst.download THEN "assert" ELSE halted
    /\ UNCHANGED <<model, samples, sampling, working_order_id, working_side, requests, order,
                   exposure, up, disconnects>>

is_order_complete(status) == status \in {"completed", "canceled", "rejected"}

frees_slot_always(u) == TRUE

\* Whether an order update ends the working order: any complete order does.
frees_slot(u) == is_order_complete(u.status)

\* The instrument first, then the working order, whatever order it is about.
OrderUpdate ==
    /\ inbox # << >> /\ Head(inbox).event = "order" /\ Handles(Head(inbox))
    /\ inst' = on_order_update(inst, Head(inbox))
    /\ IF frees_slot(Head(inbox))
       THEN working_order_id' = 0 /\ working_side' = "UNDEFINED"
       ELSE UNCHANGED <<working_order_id, working_side>>
    /\ UNCHANGED <<model, samples, sampling, max_order_id, requests, order, exposure, up,
                   disconnects, halted>>

PositionUpdate ==
    /\ inbox # << >> /\ Head(inbox).event = "position" /\ Handles(Head(inbox))
    /\ inst' = on_position_update(inst, Head(inbox))
    /\ InstrumentOnly /\ UNCHANGED halted

\* The next event announces the market's download.
Announced ==
    inbox # << >> /\ Head(inbox).event = "download_begin" /\ of_market(Head(inbox))

\* Market events come during the market's download, after it was announced, and at
\* any time later; the handlers do not depend on what comes between.
MarketEvent(i) ==
    /\ Running /\ inst.connected /\ up /\ ~Announced
    /\ inst' = i
    /\ InstrumentOnly /\ UNCHANGED inbox

GatewayStatus(what, available) ==
    /\ MarketEvent(check_ready(IF what = "market" THEN [inst EXCEPT !.market_data = available]
                                                  ELSE [inst EXCEPT !.order_management = available]))
    /\ UNCHANGED halted

ReferenceData ==
    /\ MarketEvent(check_ready([inst EXCEPT !.ref = TRUE, !.multiplier = TRUE]))
    /\ UNCHANGED halted

MarketStatus(open) ==
    /\ MarketEvent(check_ready([inst EXCEPT !.open = open]))
    /\ UNCHANGED halted

Depths == {"thin", "full", "inverted"}

\* Instrument::validate: an inverted book is fatal (allow_price_inversion is off).
MarketByPriceUpdate(depth) ==
    /\ MarketEvent([inst EXCEPT !.full = (depth # "thin")])
    /\ halted' = IF depth = "inverted" THEN "inversion" ELSE halted

-----------------------------------------------------------------------------
(***************************************************************************)
(* The gateway (external).                                                 *)
(***************************************************************************)

OrderEvent(i, o) == [event |-> "order", id |-> i, side |-> o.side, status |-> o.status,
                     traded |-> o.traded]

KnownIds == {i \in Ids : order[i].status # "none"}

GatewayMaxOrderId == CHOOSE m \in KnownIds : \A i \in KnownIds : i <= m

\* The known orders in any order.
Snapshots == {ids \in [1..Cardinality(KnownIds) -> KnownIds] :
                 \A i, j \in DOMAIN ids : i # j => ids[i] # ids[j]}

Begins(account) == [event |-> "download_begin", account |-> account]

Ends(account, max) == [event |-> "download_end", account |-> account, max_order_id |-> max]

PositionEvent ==
    [event |-> "position", long |-> IF exposure > 0 THEN exposure ELSE 0,
     short |-> IF exposure < 0 THEN -exposure ELSE 0]

\* The account's download, with all orders, in the order of ids, the position and the
\* highest order id.
AccountDownload(ids) ==
    <<Begins("account")>> \o [k \in DOMAIN ids |-> OrderEvent(ids[k], order[ids[k]])]
    \o <<PositionEvent, Ends("account", GatewayMaxOrderId)>>

\* There are two downloads, that of the market and that of the account, which lies
\* inside the market's or follows it.
Connect ==
    /\ Running /\ ~up /\ inbox = << >>
    /\ up' = TRUE
    /\ \E ids \in Snapshots :
        LET connected == [event |-> "connected"]
        IN  inbox' = IF AccountInside
                     THEN <<connected, Begins("none")>> \o AccountDownload(ids) \o <<Ends("none", 0)>>
                     ELSE <<connected, Begins("none"), Ends("none", 0)>> \o AccountDownload(ids)
    /\ UNCHANGED <<strategy, requests, order, exposure, disconnects, halted>>

\* An order changes, and the client is told.
Changes(i, o) ==
    /\ order' = [order EXCEPT ![i] = o]
    /\ inbox' = Append(inbox, OrderEvent(i, o))

\* Requests are processed in order; a create may be rejected, with or without an
\* order update, as one with a known id always is, and a cancel may come too late.
\* The acks change nothing.
GatewayRequest ==
    /\ Running /\ up /\ requests # << >>
    /\ requests' = Tail(requests)
    /\ LET r == Head(requests) IN
        \/ /\ r.kind = "create" /\ order[r.id].status = "none"
           /\ \E s \in {"working", "rejected"} :
                 Changes(r.id, [side |-> r.side, status |-> s, traded |-> 0])
        \/ r.kind = "create" /\ UNCHANGED <<order, inbox>>
        \/ /\ r.kind = "cancel" /\ order[r.id].status = "working"
           /\ Changes(r.id, [order[r.id] EXCEPT !.status = "canceled"])
        \/ r.kind = "cancel" /\ order[r.id].status # "working" /\ UNCHANGED <<order, inbox>>
    /\ UNCHANGED <<strategy, exposure, up, disconnects, halted>>

\* A fill of part of an order, or of all that is left of it.
Fill(i, q) ==
    /\ Running /\ up /\ order[i].status = "working" /\ order[i].traded + q <= Lot
    /\ Changes(i, [order[i] EXCEPT !.traded = @ + q,
                       !.status = IF order[i].traded + q = Lot THEN "completed" ELSE "working"])
    /\ exposure' = IF order[i].side = "BUY" THEN exposure + q ELSE exposure - q
    /\ UNCHANGED <<strategy, requests, up, disconnects, halted>>

\* What is under way is lost and the gateway cancels the orders of the client
\* (OrderCancelPolicy::MANAGED_ORDERS).
LoseConnection ==
    /\ Running /\ up /\ disconnects < MaxDisconnects
    /\ up' = FALSE /\ disconnects' = disconnects + 1
    /\ requests' = << >>
    /\ inbox' = <<[event |-> "disconnected"]>>
    /\ order' = [i \in Ids |-> IF order[i].status = "working"
                               THEN [order[i] EXCEPT !.status = "canceled"] ELSE order[i]]
    /\ UNCHANGED <<strategy, exposure, halted>>

Stopped == ~Running /\ UNCHANGED vars

Next ==
    \/ Timer \/ Connected \/ Disconnected \/ DownloadBegin \/ DownloadEnd
    \/ OrderUpdate \/ PositionUpdate \/ ReferenceData
    \/ (\E what \in {"market", "account"}, b \in BOOLEAN : GatewayStatus(what, b))
    \/ (\E b \in BOOLEAN : MarketStatus(b)) \/ (\E d \in Depths : MarketByPriceUpdate(d))
    \/ Connect \/ GatewayRequest \/ (\E i \in Ids, q \in 1..Lot : Fill(i, q))
    \/ LoseConnection \/ Stopped

Spec == Init /\ [][Next]_vars

-----------------------------------------------------------------------------
(***************************************************************************)
(* Properties.                                                             *)
(***************************************************************************)

\* The ready flag is never stale: each handler that changes something it depends
\* on either refreshes it or finds it false (DownloadBegin does not refresh it).
ReadyIsCurrent == inst.ready = tradable(inst)

LiveIds == {i \in Ids : order[i].status = "working"} \union
           {requests[i].id : i \in {j \in DOMAIN requests : requests[j].kind = "create"}}

Slot == INSTANCE OrderSlot WITH
    Slots <- {0},
    used <- 1..(IF GatewayMaxOrderId > max_order_id THEN GatewayMaxOrderId ELSE max_order_id),
    held <- [s \in {0} |-> LiveIds]

\* instrument.cpp:199 "the assumption is that there is never more than one working
\* order" and strategy.cpp:54 "never recycle order_id's": both hold, counting create
\* requests under way and the orders of earlier sessions, although any final update
\* clears the working order and a disconnect does not.  With AccountInside only: an
\* account's download after the market's brings the highest id when the instrument may
\* have become ready on the market's.
OneWorkingOrder == Slot!Spec

\* A live order is known to the strategy, which could cancel it.  With AccountInside
\* only: a downloaded order could otherwise clear the working order.
KnowsItsOrder ==
    \A i \in LiveIds : up /\ Running =>
        working_order_id = i /\ (order[i].status = "working" => working_side = order[i].side)

\* Whenever the instrument may be traded and nothing is undelivered, the position
\* it keeps from cumulative order updates is the position of the account, also
\* after partial fills and across reconnects.  With AccountInside only: the position
\* in an account's download after the market's is ignored (instrument.cpp:225).
PositionKnown == inst.connected /\ ~inst.download /\ inbox = << >> => position(inst) = exposure

\* The strategy never builds more than one order's worth of position.  With
\* AccountInside only, like PositionKnown, which it rests on.
PositionLimited == -Lot <= exposure /\ exposure <= Lot

\* Every request follows from a signal of a model that has seen warmup samples of
\* a ready instrument since it was last reset.
TradesWarmedUp ==
    [][Len(requests') > Len(requests) => inst.ready /\ samples' >= warmup]_vars

\* instrument.cpp:77 "reset all cached state - await download upon reconnection".
CachedStateReset == ~inst.connected => inst = NewInstrument
=============================================================================
