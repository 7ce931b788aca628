----------------------------- MODULE Countdown -----------------------------
(***************************************************************************)
(* roq::samples::example_8: Strategy sends a limited number of orders,     *)
(* driven by market data: after a warm-up, and then not more often than    *)
(* one per DELAY_2.  Nothing but a price event looks at the clock, so the  *)
(* gaps between events, a reconnect among them, decide when it sends.      *)
(***************************************************************************)
EXTENDS Integers, Sequences

CONSTANTS
    DELAY_1, DELAY_2,      \* warm-up and distance of requests
    COUNTDOWN,             \* 16 in the code
    MaxReceive             \* bound: the clock stops here

VARIABLES
    use_top_of_book,       \* settings.top_of_book, which never changes
    receive_time,          \* of the event being handled
    next_request, countdown, order_id, downloading, tick_size,   \* Strategy members
    phase,                 \* the connection: "down", "download" or "live"
    first_price,           \* when the first price that counts was seen, 0 before
    requests,              \* the orders sent
    broken                 \* send threw NotConnected, which nobody catches

vars == <<use_top_of_book, receive_time, next_request, countdown, order_id, downloading,
          tick_size, phase, first_price, requests, broken>>

Init ==
    /\ use_top_of_book \in BOOLEAN
    /\ receive_time = 1
    /\ next_request = 0 /\ countdown = COUNTDOWN /\ order_id = 0
    /\ downloading = FALSE /\ tick_size = "NaN"
    /\ phase = "down" /\ first_price = 0 /\ requests = << >> /\ broken = FALSE

Connection == <<phase, downloading, tick_size, use_top_of_book>>

warmup ==
    /\ next_request = 0
    /\ next_request' = receive_time + DELAY_1
    /\ first_price' = receive_time
    /\ UNCHANGED <<countdown, order_id, requests, broken>>

schedule_next_from_plan == next_request + DELAY_2

schedule_next == receive_time + DELAY_2

\* NaN is not 0: an unknown tick size does not stop the request.
send ==
    /\ next_request # 0 /\ receive_time >= next_request
    /\ tick_size # "zero"
    /\ order_id' = order_id + 1
    /\ \/ /\ requests' = Append(requests, [time |-> receive_time, order_id |-> order_id + 1])
          /\ countdown' = countdown - 1
          /\ next_request' = schedule_next
          /\ UNCHANGED broken
       \/ broken' = TRUE /\ UNCHANGED <<requests, countdown, next_request>>
    /\ UNCHANGED first_price

ignored ==
    /\ \/ countdown = 0
       \/ next_request # 0 /\ (receive_time < next_request \/ tick_size = "zero")
    /\ UNCHANGED <<next_request, countdown, order_id, first_price, requests, broken>>

create_order ==
    /\ \/ countdown # 0 /\ (warmup \/ send)
       \/ ignored
    /\ UNCHANGED <<receive_time, Connection>>

Event(phases) == ~broken /\ phase \in phases

\* One of the two is the trigger, by the settings.
TopOfBook == use_top_of_book /\ Event({"download", "live"}) /\ create_order

\* The first update of a connection is a snapshot and does not trigger.
MarketByPriceUpdate ==
    /\ ~use_top_of_book /\ Event({"download", "live"})
    /\ create_order \/ UNCHANGED vars

Internal == UNCHANGED <<next_request, countdown, first_price, requests, broken, receive_time,
                        use_top_of_book>>

DownloadBegin ==
    /\ Event({"down"})
    /\ phase' = "download" /\ downloading' = TRUE
    /\ UNCHANGED <<tick_size, order_id>> /\ Internal

\* order_id_ is at least the highest id of the gateway.
DownloadEnd ==
    /\ Event({"download"})
    /\ phase' = "live" /\ downloading' = FALSE
    /\ \E max_order_id \in 0..1 :
        order_id' = IF order_id < max_order_id THEN max_order_id ELSE order_id
    /\ UNCHANGED tick_size /\ Internal

ReferenceData ==
    /\ Event({"download", "live"})
    /\ tick_size' \in {"zero", "positive"}
    /\ UNCHANGED <<phase, downloading, order_id>> /\ Internal

\* OrderAck and Disconnected change nothing in the strategy.
Lose ==
    /\ Event({"download", "live"})
    /\ phase' = "down"
    /\ UNCHANGED <<downloading, tick_size, order_id>> /\ Internal

Tick ==
    /\ ~broken /\ receive_time < MaxReceive
    /\ receive_time' = receive_time + 1
    /\ UNCHANGED <<next_request, countdown, order_id, first_price, requests, broken, Connection>>

Ended == broken /\ UNCHANGED vars

Next ==
    \/ TopOfBook \/ MarketByPriceUpdate \/ DownloadBegin \/ DownloadEnd \/ ReferenceData
    \/ Lose \/ Tick \/ Ended

-----------------------------------------------------------------------------
\* At most COUNTDOWN orders, each with an id of its own, the first not before the
\* warm-up is over and each at least DELAY_2 after the one before it, however long
\* the market data stays away.
OrdersPaced ==
    /\ Len(requests) <= COUNTDOWN
    /\ Len(requests) > 0 => requests[1].time >= first_price + DELAY_1
    /\ \A i \in 2..Len(requests) : /\ requests[i].time >= requests[i - 1].time + DELAY_2
                                   /\ requests[i].order_id > requests[i - 1].order_id
=============================================================================
