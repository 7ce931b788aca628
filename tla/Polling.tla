------------------------------ MODULE Polling ------------------------------
(***************************************************************************)
(* roq::samples::polling: a client that polls its dispatcher and drives    *)
(* one order through its life, one state at a time, waiting ten seconds in *)
(* each state.  refresh is called before every batch of events; a request  *)
(* that is not answered within the ten seconds has timed out, but its      *)
(* answer may still come.  The gateway is external.                        *)
(***************************************************************************)
EXTENDS Integers, Sequences, FiniteSets

CONSTANTS
    NDEBUG,          \* TRUE: release build, assert() is a no-op
    MaxOrders,       \* bound: highest order id
    MaxDisconnects   \* bound: how often the connection is lost

ASSUME PollingAssumption ==
    NDEBUG \in BOOLEAN /\ MaxOrders \in Nat \ {0} /\ MaxDisconnects \in Nat

VARIABLES
    state,          \* Strategy::state_
    due,            \* now >= next_update_
    max_order_id,   \* Strategy::max_order_id_
    order_id,       \* Strategy::order_id_
    requests,       \* requests not yet processed by the gateway
    acks,           \* acks not yet handled
    order,          \* order[id]: the orders the gateway knows
    link,           \* "down", "downloading", "synced", "up" or "lost"
    disconnects,
    trouble,        \* a request has timed out or failed
    halted          \* "no", "done", "stopped", "fatal" (a send without a
                    \* connection), or the assert that failed

vars == <<state, due, max_order_id, order_id, requests, acks, order, link,
          disconnects, trouble, halted>>

wire == <<requests, acks, order, link, disconnects>>

Ids == 1..MaxOrders

States == {"UNDEFINED", "CONNECTING", "READY", "CREATE_ORDER", "WAITING_CREATE",
           "WORKING", "CANCEL_ORDER", "WAITING_CANCEL", "DONE"}

\* Order 1 is left from an earlier session.
Init ==
    /\ state = "UNDEFINED" /\ due = TRUE
    /\ max_order_id = 0 /\ order_id = 0
    /\ requests = << >> /\ acks = << >>
    /\ order = [i \in Ids |-> IF i = 1 THEN "canceled" ELSE "none"]
    /\ link = "down" /\ disconnects = 0
    /\ trouble = FALSE /\ halted = "no"

Running == halted = "no"

\* operator()(State): every change of state restarts the ten seconds.  A change
\* to the same state fails an assert.
to_state(s) ==
    IF state = s /\ ~NDEBUG
    THEN halted' = "same_state" /\ UNCHANGED <<state, due>>
    ELSE state' = s /\ due' = FALSE /\ UNCHANGED halted

\* The asserts in front of a handler: what the process dies of, if it does.
asserted(cond, why) == IF cond \/ NDEBUG THEN "no" ELSE why

\* The ten seconds pass.
Elapse ==
    /\ Running /\ ~due
    /\ due' = TRUE
    /\ UNCHANGED <<state, max_order_id, order_id, wire, trouble, halted>>

\* refresh, for the states that only move on.
Advance(from, to) ==
    /\ Running /\ due /\ state = from
    /\ to_state(to)
    /\ trouble' = (trouble \/ from \in {"WAITING_CREATE", "WAITING_CANCEL"})
    /\ UNCHANGED <<max_order_id, order_id, wire>>

advances_from_working == {<<"UNDEFINED", "CONNECTING">>, <<"READY", "CREATE_ORDER">>,
    <<"WAITING_CREATE", "DONE">>, <<"WORKING", "DONE">>, <<"WAITING_CANCEL", "DONE">>}

advances_without_timeout == {<<"UNDEFINED", "CONNECTING">>, <<"READY", "CREATE_ORDER">>,
    <<"WORKING", "CANCEL_ORDER">>}

advances_with_retry == {<<"UNDEFINED", "CONNECTING">>, <<"READY", "CREATE_ORDER">>,
    <<"WAITING_CREATE", "CREATE_ORDER">>, <<"WORKING", "CANCEL_ORDER">>,
    <<"WAITING_CANCEL", "DONE">>}

advances == {<<"UNDEFINED", "CONNECTING">>, <<"READY", "CREATE_ORDER">>,
    <<"WAITING_CREATE", "DONE">>, <<"WORKING", "CANCEL_ORDER">>, <<"WAITING_CANCEL", "DONE">>}

\* ++max_order_id_
next_order_id == max_order_id + 1

\* A send without a connection throws NotConnected, which is fatal.
sent == IF link = "up" THEN "no" ELSE "fatal"

\* refresh in CREATE_ORDER: the state first, then create_order.
CreateOrder ==
    /\ Running /\ due /\ state = "CREATE_ORDER" /\ next_order_id \in Ids
    /\ state' = "WAITING_CREATE" /\ due' = FALSE
    /\ IF asserted(order_id = 0, "order_id") = "no"
       THEN order_id' = next_order_id /\ max_order_id' = next_order_id /\ halted' = sent
       ELSE halted' = "order_id" /\ UNCHANGED <<order_id, max_order_id>>
    /\ requests' = (IF halted' = "no"
                    THEN Append(requests, [kind |-> "create", id |-> next_order_id]) ELSE requests)
    /\ UNCHANGED <<acks, order, link, disconnects, trouble>>

CancelOrder ==
    /\ Running /\ due /\ state = "CANCEL_ORDER"
    /\ state' = "WAITING_CANCEL" /\ due' = FALSE
    /\ halted' = (IF asserted(order_id # 0, "no_order") # "no" THEN "no_order" ELSE sent)
    /\ requests' = (IF halted' = "no"
                    THEN Append(requests, [kind |-> "cancel", id |-> order_id]) ELSE requests)
    /\ UNCHANGED <<max_order_id, order_id, acks, order, link, disconnects, trouble>>

\* refresh in DONE stops the dispatcher, which ends the loop.
Done ==
    /\ Running /\ due /\ state = "DONE"
    /\ halted' = "done"
    /\ UNCHANGED <<state, due, max_order_id, order_id, wire, trouble>>

Signal ==
    /\ Running
    /\ halted' = "stopped"
    /\ UNCHANGED <<state, due, max_order_id, order_id, wire, trouble>>

-----------------------------------------------------------------------------
(***************************************************************************)
(* Events of the client library.                                           *)
(***************************************************************************)

\* The library connects only once it is polled, after the first refresh.
Connected ==
    /\ Running /\ link = "down" /\ state # "UNDEFINED"
    /\ link' = "downloading"
    /\ halted' = asserted(state = "CONNECTING", "connecting")
    /\ UNCHANGED <<state, due, max_order_id, order_id, requests, acks, order,
                   disconnects, trouble>>

Disconnected ==
    /\ Running /\ link = "lost"
    /\ link' = "down"
    /\ to_state("CONNECTING")
    /\ UNCHANGED <<max_order_id, order_id, requests, acks, order, disconnects, trouble>>

\* The highest order id the gateway has seen (external).
GatewayMaxOrderId ==
    CHOOSE m \in Ids : order[m] # "none" /\ \A i \in Ids : order[i] # "none" => i <= m

DownloadEnd ==
    /\ Running /\ link = "downloading"
    /\ link' = "synced"
    /\ max_order_id' =
         (IF max_order_id < GatewayMaxOrderId THEN GatewayMaxOrderId ELSE max_order_id)
    /\ UNCHANGED <<state, due, order_id, requests, acks, order, disconnects, trouble, halted>>

Ready ==
    /\ Running /\ link = "synced"
    /\ link' = "up"
    /\ IF asserted(state = "CONNECTING", "connecting") = "no" THEN to_state("READY")
       ELSE halted' = "connecting" /\ UNCHANGED <<state, due>>
    /\ UNCHANGED <<max_order_id, order_id, requests, acks, order, disconnects, trouble>>

\* The state an answered request leads to.
after_ack(a) == IF a.result = "failed" \/ a.kind = "cancel" THEN "DONE" ELSE "WORKING"

OrderAck ==
    /\ Running /\ acks # << >>
    /\ acks' = Tail(acks)
    /\ to_state(after_ack(Head(acks)))
    /\ trouble' = (trouble \/ Head(acks).result = "failed")
    /\ UNCHANGED <<max_order_id, order_id, requests, order, link, disconnects>>

-----------------------------------------------------------------------------
(***************************************************************************)
(* The gateway (external) answers requests in order, sooner or later.      *)
(***************************************************************************)

Ack(r, result) == [kind |-> r.kind, id |-> r.id, result |-> result]

Accept ==
    /\ Running /\ requests # << >>
    /\ LET r == Head(requests) IN
        /\ r.kind = "cancel" => order[r.id] = "working"
        /\ order' = [order EXCEPT ![r.id] = IF r.kind = "create" THEN "working" ELSE "canceled"]
        /\ acks' = Append(acks, Ack(r, "accepted"))
    /\ requests' = Tail(requests)
    /\ UNCHANGED <<state, due, max_order_id, order_id, link, disconnects, trouble, halted>>

Reject ==
    /\ Running /\ requests # << >>
    /\ acks' = Append(acks, Ack(Head(requests), "failed"))
    /\ requests' = Tail(requests)
    /\ UNCHANGED <<state, due, max_order_id, order_id, order, link, disconnects, trouble, halted>>

Fill(i) ==
    /\ Running /\ order[i] = "working"
    /\ order' = [order EXCEPT ![i] = "completed"]
    /\ UNCHANGED <<state, due, max_order_id, order_id, requests, acks, link, disconnects,
                   trouble, halted>>

\* The connection breaks: what is under way is lost and the gateway cancels the
\* orders of the account (OrderCancelPolicy::BY_ACCOUNT).
LoseConnection ==
    /\ Running /\ link \notin {"down", "lost"} /\ disconnects < MaxDisconnects
    /\ link' = "lost" /\ disconnects' = disconnects + 1
    /\ requests' = << >> /\ acks' = << >>
    /\ order' = [i \in Ids |-> IF order[i] = "working" THEN "canceled" ELSE order[i]]
    /\ UNCHANGED <<state, due, max_order_id, order_id, trouble, halted>>

Stopped == ~Running /\ UNCHANGED vars

Next ==
    \/ Elapse \/ (\E a \in advances : Advance(a[1], a[2]))
    \/ CreateOrder \/ CancelOrder \/ Done \/ Signal
    \/ Connected \/ Disconnected \/ DownloadEnd \/ Ready \/ OrderAck
    \/ LoseConnection \/ Accept \/ Reject \/ (\E i \in Ids : Fill(i)) \/ Stopped

Spec == Init /\ [][Next]_vars

\* The loop in dispatch calls refresh again and again and time passes.  Nothing
\* is assumed of the gateway: a request may never be answered.
Fairness ==
    /\ WF_vars(Elapse) /\ WF_vars(\E a \in advances : Advance(a[1], a[2]))
    /\ WF_vars(CreateOrder) /\ WF_vars(CancelOrder) /\ WF_vars(Done)

FairSpec == Spec /\ Fairness

-----------------------------------------------------------------------------
(***************************************************************************)
(* Properties.                                                             *)
(***************************************************************************)

\* Once the gateway is ready the program comes to an end or loses the connection,
\* although any request may stay unanswered or be answered after it timed out.
Terminates == state = "READY" ~> ~Running \/ link # "up"

\* A program that ends by itself, with no request failed or timed out, leaves no
\* order behind.
CleanExit == halted = "done" /\ ~trouble => \A i \in Ids : order[i] # "working"

Slot == INSTANCE OrderSlot WITH
    Slots <- {0},
    used <- 1..(IF GatewayMaxOrderId > max_order_id THEN GatewayMaxOrderId ELSE max_order_id),
    held <- [s \in {0} |-> {i \in Ids : order[i] = "working"} \union
        {requests[i].id : i \in {j \in DOMAIN requests : requests[j].kind = "create"}}]

\* The program has one order at a time, with a new id each, whatever timed out,
\* was answered late or was cut off, and however often it reconnected.
OneOrderAtATime == Slot!Spec

\* strategy.cpp:67 asserts that a change of state changes the state.
StateChanges == halted # "same_state"
=============================================================================
