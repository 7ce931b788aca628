----------------------------- MODULE AlgoProto -----------------------------
(***************************************************************************)
(* roq::samples::algo_proto and roq::algo: Bridge, a container that routes *)
(* events and requests between gateways and an algo strategy, and Spread,  *)
(* a strategy on two instruments that may live on two gateways.  It keeps  *)
(* one order on the first instrument, priced off the best price of the     *)
(* second.  The handlers run one at a time; what interleaves are the event *)
(* streams of the gateways, market data, fills, rejections and the loss of *)
(* a connection.  Timer, TradeUpdate and PositionUpdate have no effect.    *)
(* The gateways and the client cache are external.                         *)
(***************************************************************************)
EXTENDS Integers, Sequences, FiniteSets, Functions

CONSTANTS
    Sources,       \* the gateways
    SourceOf,      \* SourceOf[i]: the gateway that has instrument i (0 or 1)
    Configs,       \* configuration files, see Parsed
    UnsetTick,     \* UnsetTick[i]: the cached tick size before any reference data
    Prices,        \* prices of the second instrument
    Spread,        \* settings.price, the wanted spread
    MaxOrders,     \* bound: highest order id
    MaxRequests,   \* bound: requests, and events, under way per gateway
    MaxOutages     \* bound: connections lost, streams lost, markets closed

SOURCE_SELF == "self"

ASSUME AlgoProtoAssumption ==
    /\ SOURCE_SELF \notin Sources
    /\ SourceOf \in [{0, 1} -> Sources]
    /\ UnsetTick \in [{0, 1} -> {"zero", "NaN"}]
    /\ Prices \subseteq Int /\ Spread \in Int
    /\ MaxOrders \in Nat \ {0} /\ MaxRequests \in Nat \ {0} /\ MaxOutages \in Nat

VARIABLES
    gateway,       \* Bridge::gateways_
    market,        \* market[i]: the Route of instrument i, with what is cached
    strategy,      \* the Spread strategy with its Base and OrderManager
    max_order_id,  \* Bridge::max_order_id_
    order_id_to_source,  \* Bridge::order_id_to_source_, a partial function
    requests,      \* requests[g]: not yet processed by gateway g
    inbox,         \* inbox[g]: events of gateway g not yet handled
    order,         \* order[id]: the orders the gateways know
    up,            \* the gateways that are connected
    outages,
    refused,       \* a modify request has been rejected
    halted         \* "no", or why the process ended

bridge == <<gateway, market, strategy, max_order_id, order_id_to_source>>

wire == <<requests, inbox, order, up, outages, refused>>

vars == <<bridge, wire, halted>>

Index == {0, 1}

Ids == 1..MaxOrders

\* An unknown price, and a book without any layer.
NaN == -1000

Empty == -1001

Running == halted = "no"

-----------------------------------------------------------------------------
(***************************************************************************)
(* Config and construction.  A configuration has an entry "strategies", a  *)
(* function from names to a type and a sequence of instruments.            *)
(***************************************************************************)

\* Config::Config with its parsers: what the process dies of, if it does.
Parsed(c) ==
    LET instruments == UNION {Range(c.strategies[k].instruments) : k \in DOMAIN c.strategies}
    IN  CASE c.missing -> "expected strategies"
          [] c.unknown -> "unexpected key"
          [] \E k \in DOMAIN c.strategies :
                c.strategies[k].type = "" \/ c.strategies[k].instruments = << >> -> "empty"
          [] \E x \in instruments : x.exchange = "" \/ x.symbol = "" -> "required"
          [] OTHER -> "no"

\* Base::Base with create_order_managers.  Spread reads markets 0 and 1, whatever
\* number of instruments is configured.
order_managers(instruments) ==
    CASE \E n \in DOMAIN instruments : instruments[n].weight = 0 -> "weight"
      [] Len(instruments) < 2 -> "out of range"
      [] OTHER -> "no"

factory_create(s) == IF s.type = "spread" THEN order_managers(s.instruments) ELSE "unknown type"

\* Bridge::create_strategy.
Created(c, name) ==
    IF name \in DOMAIN c.strategies THEN factory_create(c.strategies[name]) ELSE "invalid symbol"

\* There is a route for every instrument of the configuration.
create_routes(c) ==
    {<<x.exchange, x.symbol>> :
        x \in UNION {Range(c.strategies[k].instruments) : k \in DOMAIN c.strategies}}

find_route(routes, x) == <<x.exchange, x.symbol>> \in routes

\* create_factories looks up the routes of all strategies; one is then created.
Started(c, name) ==
    CASE Parsed(c) # "no" -> Parsed(c)
      [] \E k \in DOMAIN c.strategies : \E x \in Range(c.strategies[k].instruments) :
            ~find_route(create_routes(c), x) -> "unexpected instrument"
      [] OTHER -> Created(c, name)

\* cache::Gateway (external): nothing is known of a gateway that is not connected.
NewGateway == [connected |-> FALSE, downloading |-> FALSE, md |-> FALSE, om |-> FALSE]

NewStrategy ==
    [ready_by_instrument |-> [i \in Index |-> FALSE], ready |-> FALSE,
     target |-> NaN, order_id |-> 0, known |-> {}]

\* Orders up to the last id are left from earlier sessions, of this program or of
\* another one.
Init ==
    /\ gateway = [g \in Sources |-> NewGateway]
    /\ market = [i \in Index |-> [source |-> SOURCE_SELF, tick |-> UnsetTick[i], open |-> FALSE,
                                   book |-> Empty]]
    /\ strategy = NewStrategy
    /\ max_order_id = 0 /\ order_id_to_source = << >>
    /\ requests = [g \in Sources |-> << >>] /\ inbox = [g \in Sources |-> << >>]
    /\ \E routing \in {"own", "foreign"}, last \in 0..(MaxOrders - 1) :
           order = [i \in Ids |-> [status |-> IF i <= last THEN "canceled" ELSE "none",
                                   price |-> NaN, source |-> SourceOf[0], routing |-> routing]]
    /\ up = {} /\ outages = 0 /\ refused = FALSE
    /\ \E c \in Configs : halted = Started(c, "spread_1")

-----------------------------------------------------------------------------
(***************************************************************************)
(* Readiness.                                                              *)
(***************************************************************************)

\* Instrument::ready.  A tick size of NaN is not zero.
instrument_ready(gw, mk) ==
    /\ gw.connected /\ ~gw.downloading /\ gw.md
    /\ mk.tick # "zero"
    /\ mk.open
    /\ gw.om

ready_by_instrument_of_source(gws, mks, g) ==
    [i \in Index |-> IF mks[i].source = g THEN instrument_ready(gws[g], mks[i])
                     ELSE FALSE]

\* State::ready: only the instruments of the source of the event are looked at.
ready_by_instrument(gws, mks, g) ==
    [i \in Index |-> IF mks[i].source = g THEN instrument_ready(gws[g], mks[i])
                     ELSE strategy.ready_by_instrument[i]]

-----------------------------------------------------------------------------
(***************************************************************************)
(* Orders.  The world w is what a handler changes: the strategy, the ids,  *)
(* the requests and whether the process died.                              *)
(***************************************************************************)

World == [strategy |-> strategy, max_order_id |-> max_order_id,
          order_id_to_source |-> order_id_to_source, requests |-> requests, halted |-> halted]

Leaves(w) ==
    /\ strategy' = w.strategy /\ max_order_id' = w.max_order_id
    /\ order_id_to_source' = w.order_id_to_source /\ requests' = w.requests
    /\ halted' = w.halted

\* client::Dispatcher::send (external) throws NotConnected; nobody catches.
send(w, r, g) ==
    IF g \in up THEN [w EXCEPT !.requests[g] = Append(@, r)]
    ELSE [w EXCEPT !.halted = "not connected"]

Larger(a, b) == IF a > b THEN a ELSE b

\* std::map::emplace: an entry that exists is kept.
emplace(f, k, v) == [i \in DOMAIN f \union {k} |-> IF i \in DOMAIN f THEN f[i] ELSE v]

\* Bridge::operator()(CreateOrder): to the source of the instrument.
bridge_create_order(w, r, mks) ==
    send([w EXCEPT !.max_order_id = Larger(@, r.id),
                   !.order_id_to_source = emplace(@, r.id, mks[0].source)], r, mks[0].source)

find_source(w, id) == {w.order_id_to_source[i] : i \in {id} \intersect DOMAIN w.order_id_to_source}

bridge_modify_order_to_second(w, r, mks) ==
    send([w EXCEPT !.max_order_id = Larger(@, r.id)], r, mks[1].source)

\* Bridge::operator()(ModifyOrder): to the source that got the create request.
bridge_modify_order(w, r, mks) ==
    LET known == [w EXCEPT !.max_order_id = Larger(@, r.id)]
    IN  IF find_source(w, r.id) = {} THEN [known EXCEPT !.halted = "unexpected"]
        ELSE send(known, r, CHOOSE g \in find_source(w, r.id) : TRUE)

next_order_id(w) == w.max_order_id + 1

Request(kind, id, price) == [kind |-> kind, id |-> id, price |-> price]

set_target_sends_previous(w, price, mks) ==
    IF price = w.strategy.target THEN w
    ELSE LET t  == [w EXCEPT !.strategy.target = price]
             id == next_order_id(t)
             c  == bridge_create_order(t, Request("create", id, price), mks)
         IN  IF t.strategy.order_id # 0
             THEN bridge_modify_order(t, Request("modify", t.strategy.order_id,
                                                 w.strategy.target), mks)
             ELSE IF c.halted # "no" THEN c
             ELSE [c EXCEPT !.strategy.order_id = id, !.strategy.known = @ \union {id}]

\* OrderManager::set_target.  One order is created, ever; later targets modify it,
\* also when it was rejected, has been filled or was canceled.
set_target(w, price, mks) ==
    IF price = w.strategy.target THEN w
    ELSE LET t  == [w EXCEPT !.strategy.target = price]
             id == next_order_id(t)
             c  == bridge_create_order(t, Request("create", id, price), mks)
         IN  IF t.strategy.order_id # 0
             THEN bridge_modify_order(t, Request("modify", t.strategy.order_id, price), mks)
             ELSE IF c.halted # "no" THEN c
             ELSE [c EXCEPT !.strategy.order_id = id, !.strategy.known = @ \union {id}]

\* Spread::update.  Both books must have a layer; the price is off the second.
spread_update(w, mks) ==
    IF ~w.strategy.ready \/ mks[0].book = Empty \/ mks[1].book \in {Empty, NaN} THEN w
    ELSE set_target(w, mks[1].book - Spread, mks)

\* Spread's handlers of Ready, which starts the quoting, and NotReady: the order
\* managers' start and stop do nothing, the order stays where it is.
spread_ready(w, mks) == IF w.strategy.ready THEN spread_update(w, mks) ELSE w

\* Base::update: a handler is called when the flag has changed.
update(w, gws, mks, g) ==
    LET by  == ready_by_instrument(gws, mks, g)
        all == \A i \in Index : by[i]
        s   == [w EXCEPT !.strategy.ready_by_instrument = by, !.strategy.ready = all]
    IN  IF all # w.strategy.ready THEN spread_ready(s, mks) ELSE s

-----------------------------------------------------------------------------
(***************************************************************************)
(* Events of the gateways.                                                 *)
(***************************************************************************)

Next1(g, event) == Running /\ inbox[g] # << >> /\ Head(inbox[g]).event = event

\* Market data and status events come during the download and at any time later.
Streaming(g) ==
    /\ Running /\ g \in up /\ gateway[g].connected
    /\ inbox[g] # << >> => Head(inbox[g]).event # "download_begin"

Consume(g) == inbox' = [inbox EXCEPT ![g] = Tail(@)]

\* The gateway is cached first, then the strategies hear of it.  An event that
\* changes nothing in the cache is dropped: a stuttering step.
GatewayEvent(g, gw, w) ==
    LET gws == [gateway EXCEPT ![g] = gw]
    IN  /\ gateway' = gws
        /\ Leaves(update(w, gws, market, g))
        /\ UNCHANGED <<market, order, up, refused>>

Connected(g) ==
    /\ Next1(g, "connected") /\ Consume(g) /\ UNCHANGED outages
    /\ GatewayEvent(g, [gateway[g] EXCEPT !.connected = TRUE], World)

Disconnected(g) ==
    /\ Next1(g, "disconnected") /\ Consume(g) /\ UNCHANGED outages
    /\ GatewayEvent(g, NewGateway, World)

DownloadBegin(g) ==
    /\ Next1(g, "download_begin") /\ Consume(g) /\ UNCHANGED outages
    /\ GatewayEvent(g, [gateway[g] EXCEPT !.downloading = TRUE], World)

download_end_forgotten(e) == World

\* The ids first: the strategy may create its order in the same event.
download_end(e) == [World EXCEPT !.max_order_id = Larger(@, e.max_order_id)]

DownloadEnd(g) ==
    /\ Next1(g, "download_end") /\ Consume(g) /\ UNCHANGED outages
    /\ GatewayEvent(g, [gateway[g] EXCEPT !.downloading = FALSE], download_end(Head(inbox[g])))

\* The streams needed for market data or for orders become available, or are lost.
\* (GatewaySettings changes nothing that is looked at.)
GatewayStatus(g, what, available) ==
    /\ Streaming(g) /\ available # gateway[g][what]
    /\ available \/ outages < MaxOutages
    /\ outages' = IF available THEN outages ELSE outages + 1
    /\ GatewayEvent(g, [gateway[g] EXCEPT ![what] = available], World)
    /\ UNCHANGED inbox

-----------------------------------------------------------------------------
(***************************************************************************)
(* Market data.  The route caches it, discovering the source, and tells    *)
(* the strategies on that market if anything changed.                      *)
(***************************************************************************)

\* Market::operator(): the first event tells the source.
intercept(mk, g) == [mk EXCEPT !.source = IF @ = SOURCE_SELF THEN g ELSE @]

\* Route::dispatch: whether the cache has changed (external), and only then the
\* strategies are told.
route_dispatch(i, mk) == mk # market[i]

\* The markets after an event about market i, whose cache becomes mk.
routed(i, mk) == [market EXCEPT ![i] = intercept(mk, SourceOf[i])]

\* Bridge::dispatch; handled is what the strategy makes of the event.
RouteEvent(i, mk, handled) ==
    /\ Streaming(SourceOf[i]) /\ routed(i, mk) # market
    /\ market' = routed(i, mk)
    /\ Leaves(IF route_dispatch(i, mk) THEN handled ELSE World)
    /\ UNCHANGED <<gateway, inbox, order, up, refused>>

ReferenceData(i) ==
    LET mk == [market[i] EXCEPT !.tick = "set"]
    IN  /\ RouteEvent(i, mk, update(World, gateway, routed(i, mk), SourceOf[i]))
        /\ UNCHANGED outages

MarketStatus(i, open) ==
    LET mk == [market[i] EXCEPT !.open = open]
    IN  /\ market[i].open # open /\ (open \/ outages < MaxOutages)
        /\ outages' = IF open THEN outages ELSE outages + 1
        /\ RouteEvent(i, mk, update(World, gateway, routed(i, mk), SourceOf[i]))

\* Spread ignores the top of the book; the source is discovered all the same.
TopOfBook(i) == RouteEvent(i, market[i], World) /\ UNCHANGED outages

Books(i) == {Empty} \union (IF i = 1 THEN Prices \union {NaN} ELSE {NaN})

MarketByPriceUpdate(i, book) ==
    LET mk == [market[i] EXCEPT !.book = book]
    IN  /\ \A g \in Sources : Len(requests[g]) < MaxRequests
        /\ RouteEvent(i, mk, spread_update(World, routed(i, mk)))
        /\ UNCHANGED outages

-----------------------------------------------------------------------------
(***************************************************************************)
(* OrderAck and OrderUpdate: the ids, then the strategy by routing id and  *)
(* its order manager by order id, both of which only log.                  *)
(***************************************************************************)

find_strategy(routing) == routing = "own"

\* The OrderManager's handlers log; a rejected or finished order is not noticed.
order_manager_event(w) == w

\* Base::dispatch: an unknown order is logged.
order_event(w, id) == IF id \in w.strategy.known THEN order_manager_event(w) ELSE w

OrderEvent(g) ==
    /\ Next1(g, "order") /\ Consume(g)
    /\ LET e == Head(inbox[g])
           w == [World EXCEPT !.max_order_id = Larger(@, e.id)]
       IN  Leaves(IF find_strategy(e.routing) THEN order_event(w, e.id)
                  ELSE [w EXCEPT !.halted = "unexpected routing"])
    /\ UNCHANGED <<gateway, market, order, up, outages, refused>>

-----------------------------------------------------------------------------
(***************************************************************************)
(* The gateways (external).                                                *)
(***************************************************************************)

Event(i) == [event |-> "order", id |-> i, routing |-> order[i].routing]

KnownIds == {i \in Ids : order[i].status # "none"}

GatewayMaxOrderId(g) ==
    LET own == {i \in KnownIds : order[i].source = g}
    IN  IF own = {} THEN 0 ELSE CHOOSE m \in own : \A i \in own : i <= m

\* The download: the last order of this gateway, if it is still listed, then the
\* highest id.
Connect(g) ==
    /\ Running /\ g \notin up /\ inbox[g] = << >>
    /\ up' = up \union {g}
    /\ LET m == GatewayMaxOrderId(g)
       IN  \E listed \in BOOLEAN : inbox' = [inbox EXCEPT ![g] =
                <<[event |-> "connected"], [event |-> "download_begin"]>>
                \o (IF m # 0 /\ listed THEN <<Event(m)>> ELSE << >>)
                \o <<[event |-> "download_end", max_order_id |-> m]>>]
    /\ UNCHANGED <<bridge, requests, order, outages, refused, halted>>

\* The order o after a request about it.
Processed(o, r, g, accepted) ==
    IF r.kind = "create"
    THEN [status |-> IF accepted THEN "working" ELSE "rejected", price |-> r.price,
          source |-> g, routing |-> "own"]
    ELSE [o EXCEPT !.price = IF accepted THEN r.price ELSE @]

\* A request is accepted or rejected; a modify of an order that is gone is rejected.
GatewayRequest(g, accepted) ==
    /\ Running /\ g \in up /\ requests[g] # << >> /\ Len(inbox[g]) < MaxRequests
    /\ requests' = [requests EXCEPT ![g] = Tail(@)]
    /\ LET r == Head(requests[g]) IN
        /\ accepted => r.kind = "create" \/ order[r.id].status = "working"
        /\ order' = [order EXCEPT ![r.id] = Processed(@, r, g, accepted)]
        /\ inbox' = [inbox EXCEPT ![g] = Append(@, [event |-> "order", id |-> r.id,
                                                    routing |-> "own"])]
        /\ refused' = (refused \/ (r.kind = "modify" /\ ~accepted))
    /\ UNCHANGED <<bridge, up, outages, halted>>

Fill(i) ==
    /\ Running /\ order[i].status = "working" /\ order[i].source \in up
    /\ order' = [order EXCEPT ![i].status = "completed"]
    /\ inbox' = [inbox EXCEPT ![order[i].source] = Append(@, Event(i))]
    /\ UNCHANGED <<bridge, requests, up, outages, refused, halted>>

\* What is under way is lost and the gateway cancels the orders of the account
\* (OrderCancelPolicy::BY_ACCOUNT).
LoseConnection(g) ==
    /\ Running /\ g \in up /\ outages < MaxOutages
    /\ up' = up \ {g} /\ outages' = outages + 1
    /\ requests' = [requests EXCEPT ![g] = << >>]
    /\ inbox' = [inbox EXCEPT ![g] =
                    IF gateway[g].connected THEN <<[event |-> "disconnected"]>> ELSE << >>]
    /\ order' = [i \in Ids |-> IF order[i].status = "working" /\ order[i].source = g
                               THEN [order[i] EXCEPT !.status = "canceled"] ELSE order[i]]
    /\ UNCHANGED <<bridge, refused, halted>>

Stopped == ~Running /\ UNCHANGED vars

Next ==
    \/ \E g \in Sources :
        \/ Connected(g) \/ Disconnected(g) \/ DownloadBegin(g) \/ DownloadEnd(g)
        \/ (\E what \in {"md", "om"}, b \in BOOLEAN : GatewayStatus(g, what, b))
        \/ OrderEvent(g)
        \/ Connect(g) \/ (\E b \in BOOLEAN : GatewayRequest(g, b)) \/ LoseConnection(g)
    \/ \E i \in Index :
        \/ ReferenceData(i) \/ (\E b \in BOOLEAN : MarketStatus(i, b)) \/ TopOfBook(i)
        \/ \E b \in Books(i) : MarketByPriceUpdate(i, b)
    \/ (\E i \in Ids : Fill(i)) \/ Stopped

Spec == Init /\ [][Next]_vars

-----------------------------------------------------------------------------
(***************************************************************************)
(* Properties.                                                             *)
(***************************************************************************)

\* Base keeps a readiness per instrument and refreshes only those of the source of
\* an event, and only when a cache says that something changed: it is what State
\* would compute now for every instrument, and ready_ is their conjunction.
ReadyIsCurrent ==
    Running =>
    /\ \A i \in Index : strategy.ready_by_instrument[i] =
           (market[i].source # SOURCE_SELF /\ instrument_ready(gateway[market[i].source], market[i]))
    /\ strategy.ready = \A i \in Index : strategy.ready_by_instrument[i]

CreateIds == {r.id : r \in UNION {{requests[g][n] : n \in {k \in DOMAIN requests[g] :
                                    requests[g][k].kind = "create"}} : g \in Sources}}

Highest(S) == IF S = {} THEN 0 ELSE CHOOSE m \in S : \A i \in S : i <= m

Slot == INSTANCE OrderSlot WITH
    Slots <- {0},
    used <- 1..Larger(max_order_id, Highest(KnownIds)),
    held <- [s \in {0} |-> CreateIds \union {i \in Ids : order[i].status = "working"}]

\* The strategy has at most one order, on the first instrument, and its id was
\* never used on any gateway, with two gateways that report their highest ids
\* separately (bridge.hpp:83 "we must maintain a map of order_id to source").
OneOrder == Slot!Spec

\* A request goes to the gateway that has the first instrument and the order on
\* it, whichever source was discovered first and whichever was reconnected; a
\* modify follows the create of its order, which may have been lost in between.
RoutedToOwner ==
    \A g \in Sources : \A n \in DOMAIN requests[g] :
        LET r == requests[g][n]
        IN  /\ g = SourceOf[0]
            /\ r.kind = "modify" =>
                   \/ r.id \in KnownIds /\ order[r.id].source = g
                   \/ \E m \in 1..(n - 1) : requests[g][m] = Request("create", r.id, requests[g][m].price)
                   \/ outages > 0

\* Once the gateway has processed every request, an order that rests is the one the
\* strategy knows, at the price it last wanted, unless the gateway refused a modify (which the
\* code does not notice, order_manager.cpp:88 "XXX rejected?").
RestingAtTarget ==
    \A i \in Ids : order[i].status = "working" /\ Running /\ ~refused
                   /\ order[i].source \in up /\ requests[order[i].source] = << >> =>
        i \in strategy.known /\ i = strategy.order_id /\ order[i].price = strategy.target
=============================================================================
