------------------------------- MODULE Maker -------------------------------
(***************************************************************************)
(* roq::maker, a market maker that quotes one bid and one ask around the   *)
(* mid price.  Each side is a Quote: a small state machine that creates an *)
(* order, cancels it when the target price moved, and starts again.  The   *)
(* handlers run one at a time; the answers of the gateway, fills, timers   *)
(* and the loss of the connection interleave.  The gateway is external.    *)
(***************************************************************************)
EXTENDS Integers, Sequences, FiniteSets

CONSTANTS
    Mids,            \* mid prices of the market, in quarters of a tick
    MaxOrders,       \* bound: highest order id
    MaxDisconnects,  \* bound: how often the connection is lost
    MaxUnread,       \* bound: unread events when an order fills in part
    Reordered        \* TRUE: an order update may overtake an order ack

ASSUME MakerAssumption ==
    /\ Mids \subseteq Nat /\ Mids # {}
    /\ MaxOrders \in Nat \ {0} /\ MaxDisconnects \in Nat /\ MaxUnread \in Nat
    /\ Reordered \in BOOLEAN

VARIABLES
    ready, state,    \* Strategy::ready_, state_
    tick, open,      \* tick_size_ is known, trading_status_ is OPEN
    mid,             \* Strategy::mid_price_
    max_order_id,    \* Shared::max_order_id
    position,        \* Shared::position
    quote,           \* quote[s]: Strategy::bid_ and ask_
    requests,        \* requests sent and not yet processed by the gateway
    inbox,           \* events the gateway sent and not yet handled
    order,           \* order[id]: the orders the gateway knows
    link,            \* "down", "downloading", "synced", "up" or "lost"
    disconnects,
    halted           \* "no", or which log::fatal or assert was reached

strategy == <<ready, state, tick, open, mid>>

shared == <<max_order_id, position, quote>>

wire == <<requests, inbox, order, link, disconnects>>

vars == <<strategy, shared, wire, halted>>

Sides == {"BUY", "SELL"}

Sign(s) == IF s = "BUY" THEN 1 ELSE -1

Ids == 1..MaxOrders

\* An unknown price; every price that occurs is different from it.
NaN == -1000

QuoteStates == {"UNDEFINED", "CREATE", "CANCEL", "WORKING"}

NewQuote == [target |-> NaN, update |-> FALSE, order_id |-> 0, state |-> "UNDEFINED"]

\* Order 1 is left from an earlier session, so that ids cannot start at 1.
Init ==
    /\ ready = FALSE /\ state = "UNDEFINED"
    /\ tick = FALSE /\ open = FALSE /\ mid = NaN
    /\ max_order_id = 0 /\ position = 0
    /\ quote = [s \in Sides |-> NewQuote]
    /\ requests = << >> /\ inbox = << >>
    /\ order = [i \in Ids |-> [side |-> "BUY", status |-> IF i = 1 THEN "canceled" ELSE "none"]]
    /\ link = "downloading" /\ disconnects = 0
    /\ halted = "no"

Running == halted = "no"

-----------------------------------------------------------------------------
(***************************************************************************)
(* Quote.  A world w is what a Timer handler may change: the quotes, the   *)
(* requests, max_order_id and whether the process died.  A handler is the  *)
(* set of worlds it can leave.                                             *)
(***************************************************************************)

\* send throws NotConnected, which both callers catch, once the link is gone.
CanSend == link \notin {"down", "lost"}

\* rate_limit: refused (see RateLimit), or the callback ran.
rate_limit(w, after) == {w} \union (IF CanSend THEN {after} ELSE {})

create_order(w, s) ==
    LET id == w.max_order_id + 1
        q  == w.quote[s]
        after == IF q.order_id # 0 THEN [w EXCEPT !.halted = "assert"]
                 ELSE [w EXCEPT !.max_order_id = id,
                           !.requests = Append(@, [kind |-> "create", side |-> s, id |-> id]),
                           !.quote[s].order_id = id, !.quote[s].state = "CREATE"]
    IN  IF q.target = NaN THEN {[w EXCEPT !.halted = "nan"]}
        ELSE IF id \notin Ids THEN {w}
        ELSE rate_limit(w, after)

cancel_order(w, s) ==
    LET id == w.quote[s].order_id
        after == [w EXCEPT !.requests = Append(@, [kind |-> "cancel", side |-> s, id |-> id]),
                           !.quote[s].state = "CANCEL"]
    IN  IF id = 0 THEN {w} ELSE rate_limit(w, after)

quote_timer_working_creates(w, s) ==
    LET done == CASE w.quote[s].state \in {"UNDEFINED", "WORKING"} ->
                        create_order([w EXCEPT !.quote[s].order_id = 0], s)
                  [] OTHER -> {w}
    IN  IF w.quote[s].update
        THEN {[d EXCEPT !.quote[s].update = FALSE] : d \in done} ELSE {w}

\* Quote's Timer handler.  The flag is cleared whatever became of the request.
quote_timer(w, s) ==
    LET done == CASE w.quote[s].state = "UNDEFINED" -> create_order(w, s)
                  [] w.quote[s].state = "WORKING"   -> cancel_order(w, s)
                  [] OTHER -> {w}
    IN  IF w.quote[s].update
        THEN {[d EXCEPT !.quote[s].update = FALSE] : d \in done} ELSE {w}

\* Quote::clear.  The state is not reset.
clear(q) == [q EXCEPT !.target = NaN, !.update = FALSE, !.order_id = 0]

update_target_price(q, price) ==
    IF price = q.target THEN q ELSE [q EXCEPT !.target = price, !.update = TRUE]

quote_order_ack_keeps_id(q, a) ==
    IF a.result = "error" THEN [quote |-> q, halt |-> "error"]
    ELSE IF a.kind = "create"
    THEN IF q.state # "CREATE" THEN [quote |-> q, halt |-> "state"]
         ELSE [quote |-> [q EXCEPT !.state = "WORKING"], halt |-> "no"]
    ELSE IF q.state # "CANCEL" THEN [quote |-> q, halt |-> "state"]
         ELSE [quote |-> [q EXCEPT !.state = "UNDEFINED"], halt |-> "no"]

quote_order_ack_only_success(q, a) ==
    IF a.result # "accepted" THEN [quote |-> q, halt |-> "no"]
    ELSE IF a.kind = "create" THEN [quote |-> [q EXCEPT !.state = "WORKING"], halt |-> "no"]
    ELSE [quote |-> [q EXCEPT !.order_id = 0, !.state = "UNDEFINED"], halt |-> "no"]

\* Quote's OrderAck handler.  A failure other than TOO_LATE is fatal; any
\* completed request, also one that failed TOO_LATE, must find its state.
quote_order_ack(q, a) ==
    IF a.result = "error" THEN [quote |-> q, halt |-> "error"]
    ELSE IF a.kind = "create"
    THEN IF q.state # "CREATE" THEN [quote |-> q, halt |-> "state"]
         ELSE [quote |-> [q EXCEPT !.state = "WORKING"], halt |-> "no"]
    ELSE IF q.state # "CANCEL" THEN [quote |-> q, halt |-> "state"]
         ELSE [quote |-> [q EXCEPT !.order_id = 0, !.state = "UNDEFINED"], halt |-> "no"]

is_order_complete(status) == status \in {"completed", "canceled"}

quote_order_update_any_id(q, u) ==
    IF is_order_complete(u.status)
    THEN [q EXCEPT !.order_id = 0, !.state = "UNDEFINED"] ELSE q

\* Quote's OrderUpdate handler, without the position.
quote_order_update(q, u) ==
    IF is_order_complete(u.status) /\ q.order_id = u.id
    THEN [q EXCEPT !.order_id = 0, !.state = "UNDEFINED"] ELSE q

fill_of_any_completed_order(u) == IF is_order_complete(u.status) THEN Sign(u.side) ELSE 0

\* What an order update adds to the position.
fill(u) == IF u.status = "completed" THEN Sign(u.side) ELSE 0

-----------------------------------------------------------------------------
(***************************************************************************)
(* Strategy.                                                               *)
(***************************************************************************)

can_trade == ready /\ state = "QUOTE" /\ tick /\ open

Timer ==
    /\ Running /\ can_trade
    /\ LET w == [quote |-> quote, requests |-> requests,
                 max_order_id |-> max_order_id, halted |-> halted]
       IN  \E b \in quote_timer(w, "BUY") :
           \E a \in (IF b.halted = "no" THEN quote_timer(b, "SELL") ELSE {b}) :
              /\ quote' = a.quote /\ requests' = a.requests
              /\ max_order_id' = a.max_order_id /\ halted' = a.halted
    /\ UNCHANGED <<strategy, position, inbox, order, link, disconnects>>

Disconnected ==
    /\ Running /\ link = "lost"
    /\ link' = "down"
    /\ ready' = FALSE /\ state' = "UNDEFINED" /\ mid' = NaN
    /\ quote' = [s \in Sides |-> clear(quote[s])]
    /\ UNCHANGED <<tick, open, max_order_id, position, requests, inbox, order,
                   disconnects, halted>>

\* The highest order id the gateway has seen (external).
GatewayMaxOrderId ==
    CHOOSE m \in Ids : /\ order[m].status # "none"
                       /\ \A i \in Ids : order[i].status # "none" => i <= m

\* utils::update_max(shared_.max_order_id, download_end.max_order_id)
download_end ==
    IF GatewayMaxOrderId > max_order_id THEN GatewayMaxOrderId ELSE max_order_id

DownloadEnd ==
    /\ Running /\ link = "downloading"
    /\ link' = "synced"
    /\ max_order_id' = download_end
    /\ UNCHANGED <<strategy, position, quote, requests, inbox, order, disconnects, halted>>

Ready ==
    /\ Running /\ link = "synced"
    /\ link' = "up"
    /\ ready' = TRUE /\ state' = "CANCEL_ALL"
    /\ requests' = Append(requests, [kind |-> "cancel_all", side |-> "BUY", id |-> 0])
    /\ UNCHANGED <<tick, open, mid, shared, inbox, order, disconnects, halted>>

\* The three market data handlers act only on a value that utils::update finds changed.
ReferenceData ==
    /\ Running /\ CanSend /\ ~tick
    /\ tick' = TRUE
    /\ UNCHANGED <<ready, state, open, mid, shared, wire, halted>>

MarketStatus(o) ==
    /\ Running /\ CanSend /\ open # o
    /\ open' = o
    /\ UNCHANGED <<ready, state, tick, mid, shared, wire, halted>>

\* In quarters of a tick: half the spread is 3/4, a long position shifts the
\* quotes down by one tick and a short one up; bids are rounded down to a tick,
\* asks up.  The result is in ticks.
skew == IF position = 0 THEN 0 ELSE IF position < 0 THEN 4 ELSE -4

target_price(s, m) ==
    IF s = "BUY" THEN (m + skew - 3) \div 4 ELSE -((-(m + skew + 3)) \div 4)

\* Without a tick size the targets are NaN, with an unknown mid price they stay.
update_quotes(m) ==
    [s \in Sides |->
        IF m = NaN THEN quote[s]
        ELSE update_target_price(quote[s], IF tick THEN target_price(s, m) ELSE NaN)]

\* A one-sided book has no mid price.
TopOfBook(m) ==
    /\ Running /\ CanSend /\ ready /\ m # mid
    /\ mid' = m /\ quote' = update_quotes(m)
    /\ UNCHANGED <<ready, state, tick, open, max_order_id, position, wire, halted>>

\* The i-th undelivered event arrives next: events of a kind keep their order.
Arrives(i) ==
    \A j \in 1..(i - 1) : Reordered /\ inbox[j].event # inbox[i].event

Without(q, i) == [j \in 1..(Len(q) - 1) |-> IF j < i THEN q[j] ELSE q[j + 1]]

CancelAllOrdersAck ==
    /\ Running /\ CanSend
    /\ \E i \in DOMAIN inbox :
        /\ Arrives(i) /\ inbox[i].event = "cancel_all_ack"
        /\ inbox' = Without(inbox, i)
    /\ state' = IF ready /\ state = "CANCEL_ALL" THEN "QUOTE" ELSE state
    /\ UNCHANGED <<ready, tick, open, mid, shared, requests, order, link, disconnects, halted>>

OrderAck ==
    /\ Running /\ CanSend
    /\ \E i \in DOMAIN inbox :
        LET e == inbox[i] IN
        /\ Arrives(i) /\ e.event = "ack"
        /\ inbox' = Without(inbox, i)
        /\ quote' = [quote EXCEPT ![e.side] = quote_order_ack(@, e).quote]
        /\ halted' = quote_order_ack(quote[e.side], e).halt
    /\ UNCHANGED <<strategy, max_order_id, position, requests, order, link, disconnects>>

OrderUpdate ==
    /\ Running /\ CanSend
    /\ \E i \in DOMAIN inbox :
        LET e == inbox[i] IN
        /\ Arrives(i) /\ e.event = "update"
        /\ inbox' = Without(inbox, i)
        /\ position' = position + fill(e)
        /\ quote' = [quote EXCEPT ![e.side] = quote_order_update(@, e)]
    /\ UNCHANGED <<strategy, max_order_id, requests, order, link, disconnects, halted>>

-----------------------------------------------------------------------------
(***************************************************************************)
(* The gateway (external).                                                 *)
(***************************************************************************)

Ack(r, result) == [event |-> "ack", kind |-> r.kind, side |-> r.side, id |-> r.id,
                   result |-> result]

Update(s, id, status) == [event |-> "update", side |-> s, id |-> id, status |-> status]

WorkingIds == {i \in Ids : order[i].status = "working"}

GatewayCreate(r) ==
    /\ r.kind = "create"
    /\ \/ /\ order' = [order EXCEPT ![r.id] = [side |-> r.side, status |-> "working"]]
          /\ inbox' = inbox \o <<Ack(r, "accepted"), Update(r.side, r.id, "working")>>
       \/ /\ inbox' = Append(inbox, Ack(r, "error"))
          /\ UNCHANGED order

GatewayCancel(r) ==
    /\ r.kind = "cancel"
    /\ \/ /\ r.id \in WorkingIds
          /\ order' = [order EXCEPT ![r.id].status = "canceled"]
          /\ inbox' = inbox \o <<Ack(r, "accepted"), Update(r.side, r.id, "canceled")>>
       \/ /\ r.id \notin WorkingIds
          /\ inbox' = Append(inbox, Ack(r, "TOO_LATE"))
          /\ UNCHANGED order
       \/ /\ inbox' = Append(inbox, Ack(r, "error"))
          /\ UNCHANGED order

GatewayCancelAll(r) ==
    /\ r.kind = "cancel_all"
    /\ order' = [i \in Ids |-> IF i \in WorkingIds
                               THEN [order[i] EXCEPT !.status = "canceled"] ELSE order[i]]
    /\ inbox' = Append(inbox, [event |-> "cancel_all_ack"])

\* Requests are processed in the order they were sent.
GatewayRequest ==
    /\ Running /\ CanSend /\ requests # << >>
    /\ requests' = Tail(requests)
    /\ LET r == Head(requests)
       IN  GatewayCreate(r) \/ GatewayCancel(r) \/ GatewayCancelAll(r)
    /\ UNCHANGED <<strategy, shared, link, disconnects, halted>>

\* An order trades, or what was left of it.
Fill(i) ==
    /\ Running /\ CanSend /\ i \in WorkingIds
    /\ order' = [order EXCEPT ![i].status = "completed"]
    /\ inbox' = Append(inbox, Update(order[i].side, i, "completed"))
    /\ UNCHANGED <<strategy, shared, requests, link, disconnects, halted>>

\* A part of an order trades: the update says that the order is working still.
PartialFill(i) ==
    /\ Running /\ CanSend /\ i \in WorkingIds /\ Len(inbox) < MaxUnread
    /\ inbox' = Append(inbox, Update(order[i].side, i, "working"))
    /\ UNCHANGED <<strategy, shared, requests, order, link, disconnects, halted>>

\* The connection breaks: what is under way is lost and the gateway cancels the
\* orders of the account (OrderCancelPolicy::BY_ACCOUNT).
LoseConnection ==
    /\ Running /\ CanSend /\ disconnects < MaxDisconnects
    /\ link' = "lost" /\ disconnects' = disconnects + 1
    /\ requests' = << >> /\ inbox' = << >>
    /\ order' = [i \in Ids |-> IF i \in WorkingIds
                               THEN [order[i] EXCEPT !.status = "canceled"] ELSE order[i]]
    /\ UNCHANGED <<strategy, shared, halted>>

Connect ==
    /\ Running /\ link = "down"
    /\ link' = "downloading"
    /\ UNCHANGED <<strategy, shared, requests, inbox, order, disconnects, halted>>

Stopped == ~Running /\ UNCHANGED vars

Next ==
    \/ Timer \/ Disconnected \/ DownloadEnd \/ Ready \/ ReferenceData
    \/ (\E o \in BOOLEAN : MarketStatus(o)) \/ (\E m \in Mids \union {NaN} : TopOfBook(m))
    \/ CancelAllOrdersAck \/ OrderAck \/ OrderUpdate
    \/ GatewayRequest \/ (\E i \in Ids : Fill(i) \/ PartialFill(i)) \/ LoseConnection \/ Connect
    \/ Stopped

Spec == Init /\ [][Next]_vars

\* The client library goes on delivering events, whichever is next, and the gateway
\* answering requests; market data, fills and timers need not come.
FairSpec ==
    /\ Spec
    /\ WF_inbox(OrderAck \/ OrderUpdate \/ CancelAllOrdersAck)
    /\ WF_requests(GatewayRequest)

-----------------------------------------------------------------------------
(***************************************************************************)
(* Properties.                                                             *)
(***************************************************************************)

CreatesInFlight(s) ==
    {requests[i].id : i \in {j \in DOMAIN requests : requests[j].kind = "create"
                                                     /\ requests[j].side = s}}

Slot == INSTANCE OrderSlot WITH
    Slots <- Sides,
    used <- 1..(IF GatewayMaxOrderId > max_order_id THEN GatewayMaxOrderId ELSE max_order_id),
    held <- [s \in Sides |-> CreatesInFlight(s) \union {i \in WorkingIds : order[i].side = s}]

\* Each side is a slot for one order: nothing is created while an order of that side
\* rests or is under way, and no id is used twice, by either side or by an earlier
\* session, across fills, crossed cancels and reconnects.
OneOrderPerSide == Slot!Spec

\* A quote without an order has no order id, so that assert(order_id_ == 0) in
\* create_order holds whatever was acknowledged, filled, canceled or cut off.
IdleHasNoOrder ==
    /\ \A s \in Sides : quote[s].state = "UNDEFINED" => quote[s].order_id = 0
    /\ halted # "assert"

\* The quote's order is the live one: an order that rests at the exchange in this
\* session is the one its quote would cancel.
KnowsItsOrder ==
    \A i \in WorkingIds : quote[order[i].side].order_id = i \/ ~ready \/ ~Running

\* The position is that of the orders reported as completed, each counted once and in
\* full, whichever partial fills came before and whichever cancels and replacements
\* they cross (until the connection is lost).  It is not that of the account: what
\* has traded of an order that does not complete, because it was canceled after a
\* partial fill, is never counted (main.cpp:211).
PositionIsCompleted ==
    disconnects = 0 =>
    LET reported == {i \in Ids : order[i].status = "completed" /\
                        ~\E j \in DOMAIN inbox : inbox[j].event = "update" /\ inbox[j].id = i
                                                 /\ inbox[j].status = "completed"}
        of(s) == {i \in reported : order[i].side = s}
    IN  position = Cardinality(of("BUY")) - Cardinality(of("SELL"))

\* Some request or answer of this kind and side is under way.
UnderWay(kind, s) ==
    \/ \E i \in DOMAIN requests : requests[i].kind = kind /\ requests[i].side = s
    \/ \E i \in DOMAIN inbox : /\ inbox[i].event = "ack"
                               /\ inbox[i].kind = kind /\ inbox[i].side = s

\* A quote never waits for nothing: in CREATE or CANCEL it does not act by itself, so
\* there must be a request or an answer that will wake it, although acks are not
\* matched by order id and updates end an order as well (until the connection is lost).
WaitIsDriven ==
    Running /\ disconnects = 0 =>
    \A s \in Sides : /\ quote[s].state = "CREATE" => UnderWay("create", s)
                     /\ quote[s].state = "CANCEL" => UnderWay("cancel", s)

\* A request under way is eventually answered and the quote can act again, or the
\* process stops or the connection is lost.
RequestsEnd ==
    \A s \in Sides : quote[s].state \in {"CREATE", "CANCEL"} ~>
        quote[s].state \in {"UNDEFINED", "WORKING"} \/ ~Running \/ disconnects > 0

\* main.cpp:169-170 tolerates a cancel that came too late: no ack finds its quote
\* in a state it does not expect.
AcksExpected == halted # "state"
=============================================================================
