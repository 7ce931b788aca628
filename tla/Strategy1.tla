----------------------------- MODULE Strategy1 -----------------------------
(***************************************************************************)
(* roq::samples::strategy_1, a strategy that keeps one managed sell order  *)
(* at an expected high and one managed buy order at an expected low, and   *)
(* reprices the other order to a 1/3 retracement when one of them fills.   *)
(*                                                                         *)
(* The process is single threaded: every handler below runs to completion  *)
(* inside Controller::dispatch.  What interleaves is the answers of the    *)
(* gateway (order acks, order updates), the retry timers and the market    *)
(* events.  The strategy framework (strategy::Bridge, strategy::Order) and *)
(* the gateway are not in the repository; they are modelled from how the   *)
(* strategy uses them.                                                     *)
(***************************************************************************)
EXTENDS Integers, Sequences

CONSTANTS
    MaxRetries,      \* settings.max_retries
    price_low,       \* settings.price_low
    price_high,      \* settings.price_high
    NDEBUG,          \* TRUE: release build, assert() is a no-op
    Reordered,       \* TRUE: an order update may overtake an order ack
    MayCancel,       \* TRUE: an order can be canceled from outside
    MaxDisconnects   \* bound: how often the gateway connection is lost

ASSUME ConstantsAssumption ==
    /\ MaxRetries \in Nat /\ MaxDisconnects \in Nat
    /\ price_low \in Int /\ price_high \in Int /\ price_low < price_high
    /\ {NDEBUG, Reordered, MayCancel} \subseteq BOOLEAN

VARIABLES
    created,      \* the Leg objects exist (AddMarket was received)
    market,       \* strategy::Market: [ready, open]
    leg,          \* leg[l]: the Leg objects, with what they have outstanding
    inbox,        \* inbox[l]: events the gateway has sent about the order of l
    order,        \* order[l]: status of the order at the exchange
    oprice,       \* oprice[l]: limit price of the order at the exchange
    orders,       \* orders[l]: number of orders created at the exchange
    connected,    \* the gateway connection is up
    disconnects,  \* number of times it was lost
    halted        \* "no", or why the process stopped

vars == <<created, market, leg, inbox, order, oprice, orders, connected,
          disconnects, halted>>

Legs == {"high", "low"}

Other(l) == IF l = "high" THEN "low" ELSE "high"

States == {"UNDEFINED", "CREATING", "CHANGING", "WAITING", "FINISHED", "FAILED"}

Kinds == {"create", "modify"}

\* Prices are scaled by 3 so that the 1/3 retracement is an integer.
Initial(l) == IF l = "high" THEN 3 * price_high ELSE 3 * price_low

\* The price a leg gets when the other one is filled.
Retraced(l) == IF l = "low" THEN price_low + 2 * price_high
                            ELSE 2 * price_low + price_high

-----------------------------------------------------------------------------
(***************************************************************************)
(* The methods of Strategy::Leg.  Each is the set of its outcomes: the leg *)
(* as the call leaves it and whether the process died in it.  The leg      *)
(* record g also holds what the leg has handed to the framework: requests  *)
(* sent and not yet answered, and retry timers not yet fired.              *)
(***************************************************************************)

Returns(g) == {[leg |-> g, halt |-> "no"]}

Dies(g, why) == {[leg |-> g, halt |-> why]}

\* assert(cond) in front of the rest of a method: fatal in a debug build.
Asserted(cond, g, rest) == IF cond \/ NDEBUG THEN rest ELSE Dies(g, "assert")

\* The state a leg is in while a request of this kind is under way.
Pending(kind) == IF kind = "create" THEN "CREATING" ELSE "CHANGING"

handle_retry_off_by_one(g, kind, n) ==
    Asserted(g.state = Pending(kind), g,
             IF n > MaxRetries THEN Dies(g, "retries")
             ELSE Returns([g EXCEPT !.timers = Append(@, [kind |-> kind, retry |-> n])]))

\* The handle_retry closures: give up, or arm a timer for the next attempt.
handle_retry(g, kind, n) ==
    Asserted(g.state = Pending(kind), g,
             IF n >= MaxRetries THEN Dies(g, "retries")
             ELSE Returns([g EXCEPT !.timers = Append(@, [kind |-> kind, retry |-> n])]))

\* The try block of both helpers.  Whether the rate limiter is ready is up to
\* its (external) history; a send that throws NotConnected is swallowed.
try_send(g, kind, n) ==
    LET sent == [g EXCEPT !.requests =
                    Append(@, [kind |-> kind, price |-> g.price, retry |-> n])]
    IN  Returns(IF connected THEN sent ELSE g) \union handle_retry(g, kind, n)

submit_order_helper(g, n) == Asserted(g.state = "CREATING", g, try_send(g, "create", n))

\* In a release build the unexpected states fall through to the send.
modify_order_helper(g, n) ==
    IF g.state \in {"FINISHED", "FAILED"} THEN Returns(g)
    ELSE IF g.state # "CHANGING" /\ ~NDEBUG THEN Dies(g, "unexpected")
    ELSE try_send(g, "modify", n)

submit_order_marked_when_sent(g) ==
    {IF Len(o.leg.requests) > 0 THEN o ELSE [o EXCEPT !.leg.state = "UNDEFINED"] :
        o \in submit_order_helper([g EXCEPT !.state = "CREATING"], 0)}

submit_order(g) ==
    Asserted(g.state = "UNDEFINED", g,
             submit_order_helper([g EXCEPT !.state = "CREATING"], 0))

maybe_submit_order_unguarded(g) ==
    IF market'.ready /\ market'.open THEN submit_order(g) ELSE Returns(g)

\* market' is the framework's market object, updated before the handlers run.
maybe_submit_order(g) ==
    IF g.state = "UNDEFINED" /\ market'.ready /\ market'.open
    THEN submit_order(g) ELSE Returns(g)

\* What the success handlers leave to do: the price moved while we waited.
settle_ignoring_price(g, price) == Returns([g EXCEPT !.state = "WAITING"])

settle(g, price) ==
    IF price # g.price
    THEN modify_order_helper([g EXCEPT !.state = "CHANGING"], 0)
    ELSE Returns([g EXCEPT !.state = "WAITING"])

handle_success(g, ack) ==
    Asserted(g.state = Pending(ack.kind), g, settle(g, ack.price))

handle_failure_too_late_waits(g, ack) ==
    Asserted(g.state = Pending(ack.kind), g,
        CASE ack.result = "RATE_LIMIT" -> handle_retry(g, ack.kind, ack.retry)
          [] ack.result = "TOO_LATE" /\ ack.kind = "modify" ->
                Returns([g EXCEPT !.state = "WAITING"])
          [] OTHER -> Dies([g EXCEPT !.state = "FAILED"], "error"))

\* handle_failure calls handle_retry through a reference to a local variable of
\* a function that has returned: it may do what was meant or anything at all.
handle_failure(g, ack) ==
    Asserted(g.state = Pending(ack.kind), g,
        CASE ack.result = "RATE_LIMIT" ->
                handle_retry(g, ack.kind, ack.retry) \union Dies(g, "undefined")
          [] ack.result = "TOO_LATE" /\ ack.kind = "modify" ->
                Returns([g EXCEPT !.state = "FINISHED"])
          [] OTHER -> Dies([g EXCEPT !.state = "FAILED"], "error"))

on_order_ack(g, ack) ==
    IF ack.result = "ACCEPTED" THEN handle_success(g, ack) ELSE handle_failure(g, ack)

modify_order_always_sends(g, price) ==
    LET h == [g EXCEPT !.price = price]
    IN  IF price = g.price THEN Returns(g)
        ELSE IF g.state \in {"CREATING", "CHANGING", "WAITING"}
        THEN modify_order_helper([h EXCEPT !.state = "CHANGING"], 0)
        ELSE Returns(h)

modify_order_price_only(g, price) == Returns([g EXCEPT !.price = price])

modify_order_when_waiting(g, price) ==
    IF price = g.price \/ g.state # "WAITING" THEN Returns(g)
    ELSE modify_order_helper([g EXCEPT !.price = price, !.state = "CHANGING"], 0)

modify_order(g, price) ==
    LET h == [g EXCEPT !.price = price]
    IN  IF price = g.price THEN Returns(g)
        ELSE CASE g.state = "UNDEFINED" -> Asserted(FALSE, h, Returns(h))
               [] g.state = "WAITING" ->
                     modify_order_helper([h EXCEPT !.state = "CHANGING"], 0)
               [] OTHER -> Returns(h)

\* The timer handlers: the next attempt.
on_timer(g, t) ==
    IF t.kind = "create" THEN submit_order_helper(g, t.retry + 1)
                         ELSE modify_order_helper(g, t.retry + 1)

\* Leg's OrderUpdate handler.
leg_order_update(g, status) ==
    IF status = "completed" THEN [g EXCEPT !.state = "FINISHED"] ELSE g

finished(g) == g.state = "FINISHED"

strategy_order_update_either(gs, l) ==
    IF ~finished(gs["high"]) \/ ~finished(gs["low"])
    THEN modify_order(gs[l], Retraced(l)) ELSE Returns(gs[l])

\* Strategy's OrderUpdate handler, after the leg's own: outcomes of modify_order
\* on the leg that is not finished, when exactly one is.
strategy_order_update(gs, l) ==
    IF ~finished(gs[l]) /\ finished(gs[Other(l)])
    THEN modify_order(gs[l], Retraced(l)) ELSE Returns(gs[l])

-----------------------------------------------------------------------------
(***************************************************************************)
(* The process: events of the framework, dispatched one at a time.         *)
(***************************************************************************)

Running == halted = "no"

NewLeg(l) == [state |-> "UNDEFINED", price |-> Initial(l),
              requests |-> << >>, timers |-> << >>]

Init ==
    /\ created = FALSE
    /\ market = [ready |-> FALSE, open |-> FALSE]
    /\ leg = [l \in Legs |-> NewLeg(l)]
    /\ inbox = [l \in Legs |-> << >>]
    /\ order = [l \in Legs |-> "none"]
    /\ oprice = [l \in Legs |-> Initial(l)]
    /\ orders = [l \in Legs |-> 0]
    /\ connected = TRUE
    /\ disconnects = 0
    /\ halted = "no"

exchange == <<order, oprice, orders>>

link == <<connected, disconnects>>

\* Strategy's AddMarket handler constructs the two legs; Init has given them
\* the values of the constructor, and no handler of theirs runs before.
AddMarket ==
    /\ Running /\ ~created
    /\ created' = TRUE
    /\ UNCHANGED <<market, leg, inbox, exchange, link, halted>>

\* Every market handler of a leg is maybe_submit_order; the high leg
\* subscribed first.  A fatal error in it stops the process there and then.
MarketHandlers ==
    \E h \in maybe_submit_order(leg["high"]) :
    \E k \in (IF h.halt = "no" THEN maybe_submit_order(leg["low"]) ELSE Returns(leg["low"])) :
        /\ leg' = [l \in Legs |-> IF l = "high" THEN h.leg ELSE k.leg]
        /\ halted' = (IF h.halt = "no" THEN k.halt ELSE h.halt)

\* The download is complete.
Ready ==
    /\ Running /\ created /\ connected
    /\ market' = [market EXCEPT !.ready = TRUE]
    /\ MarketHandlers
    /\ UNCHANGED <<created, inbox, exchange, link>>

MarketStatus(open) ==
    /\ Running /\ created /\ connected
    /\ market' = [market EXCEPT !.open = open]
    /\ MarketHandlers
    /\ UNCHANGED <<created, inbox, exchange, link>>

\* ReferenceData and TopOfBook: the same handler, nothing else changes.
MarketData ==
    /\ Running /\ created /\ connected
    /\ market' = market
    /\ MarketHandlers
    /\ UNCHANGED <<created, inbox, exchange, link>>

\* The sequence q without its i-th element.
Without(q, i) == [j \in 1..(Len(q) - 1) |-> IF j < i THEN q[j] ELSE q[j + 1]]

\* Events about an order arrive as they were sent; acks and updates each in
\* their order, but possibly not relative to each other.
Arrives(l, i) ==
    /\ i \in 1..Len(inbox[l])
    /\ \A j \in 1..(i - 1) : Reordered /\ inbox[l][j].event # inbox[l][i].event

\* The answer to a request: the framework calls the handler of the request.
OrderAck(l) ==
    /\ Running /\ connected
    /\ \E i \in DOMAIN inbox[l] :
        /\ Arrives(l, i) /\ inbox[l][i].event = "ack"
        /\ inbox' = [inbox EXCEPT ![l] = Without(@, i)]
        /\ \E o \in on_order_ack(leg[l], inbox[l][i].ack) :
            /\ leg' = [leg EXCEPT ![l] = o.leg]
            /\ halted' = o.halt
    /\ UNCHANGED <<created, market, exchange, link>>

\* A new status of the order: the handler of the leg that owns it, then the
\* handler of the strategy.
OrderUpdate(l) ==
    /\ Running /\ connected
    /\ \E i \in DOMAIN inbox[l] :
        /\ Arrives(l, i) /\ inbox[l][i].event = "update"
        /\ inbox' = [inbox EXCEPT ![l] = Without(@, i)]
        /\ LET gs == [leg EXCEPT ![l] = leg_order_update(@, inbox[l][i].status)]
           IN  \E h \in strategy_order_update(gs, "high"), k \in strategy_order_update(gs, "low") :
                /\ leg' = [m \in Legs |-> IF m = "high" THEN h.leg ELSE k.leg]
                /\ halted' = (IF h.halt = "no" THEN k.halt ELSE h.halt)
    /\ UNCHANGED <<created, market, exchange, link>>

\* Controller::refresh hands the time to the framework, which runs a timer
\* that has expired.
Timer(l) ==
    /\ Running /\ leg[l].timers # << >>
    /\ LET g == [leg[l] EXCEPT !.timers = Tail(@)]
       IN  \E o \in on_timer(g, Head(leg[l].timers)) :
            /\ leg' = [leg EXCEPT ![l] = o.leg]
            /\ halted' = o.halt
    /\ UNCHANGED <<created, market, inbox, exchange, link>>

\* TERMINATE or INTERRUPT: the dispatch loop ends.
Signal ==
    /\ Running
    /\ halted' = "stopped"
    /\ UNCHANGED <<created, market, leg, inbox, exchange, link>>

-----------------------------------------------------------------------------
(***************************************************************************)
(* The gateway and the exchange behind it (external).                      *)
(***************************************************************************)

Ack(r, result) == [event |-> "ack",
                   ack |-> [kind |-> r.kind, price |-> r.price, retry |-> r.retry,
                            result |-> result]]

Update(status) == [event |-> "update", status |-> status]

\* Takes the oldest request of the leg out of the request queue.
TakeRequest(l) == leg' = [leg EXCEPT ![l].requests = Tail(@)]

\* A create always makes a new order, a modify needs one that still rests.
Accept(l) ==
    /\ Running /\ connected /\ leg[l].requests # << >>
    /\ LET r == Head(leg[l].requests) IN
        /\ r.kind = "modify" => order[l] = "working"
        /\ order' = [order EXCEPT ![l] = "working"]
        /\ oprice' = [oprice EXCEPT ![l] = r.price]
        /\ orders' = [orders EXCEPT ![l] = IF r.kind = "create" THEN @ + 1 ELSE @]
        /\ inbox' = [inbox EXCEPT ![l] = @ \o <<Ack(r, "ACCEPTED"), Update("working")>>]
    /\ TakeRequest(l)
    /\ UNCHANGED <<created, market, link, halted>>

\* The errors a request can be rejected with.
Errors(l, r) ==
    {"RATE_LIMIT", "OTHER"} \union
    (IF r.kind = "modify" /\ order[l] # "working" THEN {"TOO_LATE"} ELSE {})

Reject(l) ==
    /\ Running /\ connected /\ leg[l].requests # << >>
    /\ LET r == Head(leg[l].requests) IN
        \E e \in Errors(l, r) : inbox' = [inbox EXCEPT ![l] = Append(@, Ack(r, e))]
    /\ TakeRequest(l)
    /\ UNCHANGED <<created, market, exchange, link, halted>>

\* A resting order reaches a final status.
Final(l, status) ==
    /\ Running /\ connected /\ order[l] = "working"
    /\ order' = [order EXCEPT ![l] = status]
    /\ inbox' = [inbox EXCEPT ![l] = Append(@, Update(status))]
    /\ UNCHANGED <<created, market, leg, oprice, orders, link, halted>>

Fill(l) == Final(l, "completed")

Cancel(l) == MayCancel /\ Final(l, "canceled")

\* The connection to the gateway breaks: what was under way is lost, and the
\* gateway cancels the orders of the client (OrderCancelPolicy::MANAGED_ORDERS).
Disconnect ==
    /\ Running /\ connected /\ disconnects < MaxDisconnects
    /\ connected' = FALSE
    /\ disconnects' = disconnects + 1
    /\ market' = [market EXCEPT !.ready = FALSE]
    /\ leg' = [l \in Legs |-> [leg[l] EXCEPT !.requests = << >>]]
    /\ inbox' = [l \in Legs |-> << >>]
    /\ order' = [l \in Legs |-> IF order[l] = "working" THEN "canceled" ELSE order[l]]
    /\ UNCHANGED <<created, oprice, orders, halted>>

Connect ==
    /\ Running /\ ~connected
    /\ connected' = TRUE
    /\ UNCHANGED <<created, market, leg, inbox, exchange, disconnects, halted>>

\* The process is gone.
Stopped == ~Running /\ UNCHANGED vars

Next ==
    \/ AddMarket \/ Ready \/ MarketData \/ Signal \/ Disconnect \/ Connect \/ Stopped
    \/ \E open \in BOOLEAN : MarketStatus(open)
    \/ \E l \in Legs : OrderAck(l) \/ OrderUpdate(l) \/ Timer(l)
    \/ \E l \in Legs : Accept(l) \/ Reject(l) \/ Fill(l) \/ Cancel(l)

Spec == Init /\ [][Next]_vars

\* The dispatch loop keeps delivering events and running timers, and the
\* gateway answers every request.  Nothing forces a fill or a market event.
Fairness ==
    \A l \in Legs : /\ WF_vars(OrderAck(l)) /\ WF_vars(OrderUpdate(l)) /\ WF_vars(Timer(l))
                    /\ WF_vars(Accept(l) \/ Reject(l))

FairSpec == Spec /\ Fairness

-----------------------------------------------------------------------------
(***************************************************************************)
(* Properties.                                                             *)
(***************************************************************************)

Prices(l) == {Initial(l), Retraced(l)}

Halts == {"no", "retries", "error", "assert", "unexpected", "undefined", "stopped"}

Requests(l) == [kind : Kinds, price : Prices(l), retry : 0..MaxRetries]

Timers == [kind : Kinds, retry : 0..(MaxRetries - 1)]

Acks(l) == [kind : Kinds, price : Prices(l), retry : 0..MaxRetries,
            result : {"ACCEPTED", "RATE_LIMIT", "TOO_LATE", "OTHER"}]

Statuses == {"working", "completed", "canceled"}

Events(l) == [event : {"ack"}, ack : Acks(l)] \union [event : {"update"}, status : Statuses]

LegTypeOK(l) ==
    /\ leg[l] \in [state : States, price : Prices(l),
                   requests : Seq(Requests(l)), timers : Seq(Timers)]
    /\ inbox[l] \in Seq(Events(l))
    /\ order[l] \in Statuses \union {"none"}
    /\ oprice[l] \in Prices(l)
    /\ orders[l] \in Nat

\* Every variable has its type; in particular no attempt is ever made beyond
\* MaxRetries: the retry counters of requests and timers stay bounded
\* ("fail after N unsuccessful retries").
TypeOK ==
    /\ created \in BOOLEAN
    /\ market \in [ready : BOOLEAN, open : BOOLEAN]
    /\ DOMAIN leg = Legs /\ DOMAIN inbox = Legs /\ DOMAIN order = Legs
    /\ DOMAIN oprice = Legs /\ DOMAIN orders = Legs
    /\ \A l \in Legs : LegTypeOK(l)
    /\ connected \in BOOLEAN
    /\ disconnects \in 0..MaxDisconnects
    /\ halted \in Halts

\* The positions of the acks among the undelivered events of a leg.
AckAt(l) == {i \in DOMAIN inbox[l] : inbox[l][i].event = "ack"}

\* A leg never has two things under way: at most one of an unanswered request,
\* an undelivered ack and an armed retry timer; and none before it is started
\* or while it waits for a fill.  This is what makes "the response handlers
\* will use the latest price" (modify_order) sound.
OneDriver ==
    \A l \in Legs :
        /\ Len(leg[l].requests) <= 1 /\ Len(leg[l].timers) <= 1
        /\ \A i, j \in AckAt(l) : i = j
        /\ leg[l].requests # << >> => leg[l].timers = << >> /\ AckAt(l) = {}
        /\ leg[l].timers # << >> => AckAt(l) = {}
        /\ leg[l].state \in {"UNDEFINED", "WAITING"} =>
              leg[l].requests = << >> /\ leg[l].timers = << >> /\ AckAt(l) = {}

\* However often requests are retried, reordered or cut off, a leg creates at
\* most one order at the exchange.
OneOrderPerLeg == \A l \in Legs : orders[l] <= 1

\* A leg that waits for a fill has its order at the price it wants, also when
\* the price was changed while a request was under way.
RestingAtWantedPrice ==
    \A l \in Legs : leg[l].state = "WAITING" => orders[l] = 1 /\ oprice[l] = leg[l].price

\* The two orders never cross: the buy order rests below the sell order.
NeverSelfCross ==
    (\A l \in Legs : order[l] = "working") => oprice["low"] < oprice["high"]

\* The legs start together: while the process runs, either both or neither
\* have been submitted.
StartTogether == Running => (leg["high"].state = "UNDEFINED" <=> leg["low"].state = "UNDEFINED")

\* A request, an ack or a retry timer of the leg is under way.
UnderWay(l) == leg[l].requests # << >> \/ leg[l].timers # << >> \/ AckAt(l) # {}

\* A leg has something left to do: it says that a request was sent, or the other one is
\* finished and its own order is neither done nor at the retraced price.
Unsettled(l) ==
    \/ leg[l].state \in {"CREATING", "CHANGING"}
    \/ /\ finished(leg[Other(l)]) /\ order[l] \notin {"completed", "canceled"}
       /\ oprice[l] # Retraced(l)

\* Nothing is dropped: as long as the link has held, a leg with something left to do has
\* a request, an ack or a retry timer under way that will move it on, and once the other
\* leg is finished it wants its retraced price, whatever it was doing at that moment.
PendingIsDriven ==
    Running /\ disconnects = 0 =>
    \A l \in Legs :
        /\ Unsettled(l) => UnderWay(l)
        /\ Unsettled(l) /\ finished(leg[Other(l)]) =>
              leg[l].price = Retraced(l) \/ order[l] \in {"completed", "canceled"}

\* A leg that is finished stays finished, whatever is still rejected, retried or
\* repriced.  The exception: if updates may overtake acks, the ack of a request
\* that was accepted before the fill.
FinishedIsFinal ==
    [][\A l \in Legs : finished(leg[l]) =>
          \/ finished(leg[l])' \/ ~Running'
          \/ Reordered /\ \E i \in AckAt(l) : inbox[l][i].ack.result = "ACCEPTED"]_vars

\* Once one leg is finished, the order of the other leg ends up at its retraced
\* price, or is done before that, or the process stops (or the link was lost).
OtherRepriced ==
    \A l \in Legs :
        finished(leg[l]) ~>
            \/ oprice[Other(l)] = Retraced(Other(l))
            \/ order[Other(l)] \in {"completed", "canceled"}
            \/ ~Running \/ disconnects > 0

\* strategy.cpp:309, :205 and the other asserts: a callback finds its leg in the
\* state that the request put it in.
AssertsHold == halted # "assert"

\* strategy.cpp:172-174: the captures of a callback live as long as the order.
CapturesAlive == halted # "undefined"

\* strategy.hpp:86 "finished successfully": a finished leg has a filled order.
FinishedMeansFilled == \A l \in Legs : finished(leg[l]) => order[l] = "completed"
=============================================================================
