------------------------------ MODULE Minimal ------------------------------
(***************************************************************************)
(* minimal/main.cpp: Strategy remembers the highest order id of the        *)
(* downloads and whether it may send, and cancels all orders when a        *)
(* gateway is ready.  There may be several gateways (one per argument of   *)
(* the program) and they share ready_; requests go to the first.           *)
(***************************************************************************)
EXTENDS Integers

CONSTANTS
    Gateways,          \* 0..n, the sources
    OrderIds,          \* order ids a gateway may have seen
    MaxCancels         \* bounds the requests that gateway 0 has not answered

VARIABLES
    ready, max_order_id,     \* Strategy members
    source,            \* source[g]: "down", "connected", "download", "downloaded", "ready"
    reported,          \* reported[g]: the max_order_id of the last download, 0 before
    orders,            \* orders[g]: orders of earlier sessions may rest at gateway g
    cancels,           \* CancelAllOrders requests that gateway 0 has not answered
    refused,           \* gateway 0 refused the last one it answered
    ended              \* send threw NotConnected, which nobody catches

vars == <<ready, max_order_id, source, reported, orders, cancels, refused, ended>>

Init ==
    /\ ready = FALSE /\ max_order_id = 0
    /\ source = [g \in Gateways |-> "down"]
    /\ reported = [g \in Gateways |-> 0]
    /\ orders = [g \in Gateways |-> TRUE]
    /\ cancels = 0 /\ refused = FALSE
    /\ ended = FALSE

Event(g, before, after) ==
    /\ ~ended /\ source[g] \in before
    /\ source' = [source EXCEPT ![g] = after]

\* Connected and DownloadBegin are printed only.  The downloads of the accounts follow
\* that of the market, and are treated alike.
Connected(g) ==
    /\ Event(g, {"down"}, "connected")
    /\ UNCHANGED <<ready, max_order_id, reported, orders, cancels, refused, ended>>

DownloadBegin(g) ==
    /\ Event(g, {"connected", "downloaded"}, "download")
    /\ UNCHANGED <<ready, max_order_id, reported, orders, cancels, refused, ended>>

download_end_latest(id) == id

\* max_order_id_ only grows.
download_end(id) == IF max_order_id < id THEN id ELSE max_order_id

DownloadEnd(g) ==
    /\ Event(g, {"download"}, "downloaded")
    /\ \E id \in OrderIds :
        /\ max_order_id' = download_end(id)
        /\ reported' = [reported EXCEPT ![g] = id]
    /\ UNCHANGED <<ready, orders, cancels, refused, ended>>

\* The request goes to source 0, whichever gateway is ready; sending it cancels nothing.
cancel_all_orders ==
    /\ ended' = (source[0] = "down")
    /\ cancels' = IF source[0] = "down" THEN cancels ELSE cancels + 1
    /\ UNCHANGED <<orders, refused>>

Ready(g) ==
    /\ cancels < MaxCancels
    /\ Event(g, {"downloaded"}, "ready")
    /\ ready' = TRUE
    /\ cancel_all_orders
    /\ UNCHANGED <<max_order_id, reported>>

\* Gateway 0 takes a request and cancels the orders, or refuses to.  The handler of the
\* answer prints it, and ready_ stays as it is either way.
GatewayCancelAll ==
    /\ cancels > 0
    /\ cancels' = cancels - 1
    /\ \/ refused' = FALSE /\ orders' = [orders EXCEPT ![0] = FALSE]
       \/ refused' = TRUE /\ UNCHANGED orders
    /\ UNCHANGED <<ready, max_order_id, source, reported, ended>>

\* What gateway 0 has not taken when it disconnects is lost.
Disconnected(g) ==
    /\ Event(g, {"connected", "download", "downloaded", "ready"}, "down")
    /\ ready' = FALSE
    /\ cancels' = IF g = 0 THEN 0 ELSE cancels
    /\ refused' = (refused /\ g # 0)
    /\ UNCHANGED <<max_order_id, reported, orders, ended>>

\* The other handlers print; TopOfBook tests ready_ and has nothing to do yet.
Printed(g) == ~ended /\ source[g] # "down" /\ UNCHANGED vars

Ended == ended /\ UNCHANGED vars

Next ==
    \/ \E g \in Gateways :
        \/ Connected(g) \/ DownloadBegin(g) \/ DownloadEnd(g) \/ Ready(g)
        \/ Disconnected(g) \/ Printed(g)
    \/ GatewayCancelAll \/ Ended

-----------------------------------------------------------------------------
\* While ready_ is set some gateway is ready, the next order id is above every id
\* that any gateway has reported, and gateway 0, which gets the requests, is connected
\* and has been asked in this connection to cancel the orders of earlier sessions:
\* they are gone, or it has yet to answer or has refused (which the code does not look
\* at).  For gateways that come and go in any order.
ReadyIsSafe ==
    ready /\ ~ended =>
        /\ \E g \in Gateways : source[g] = "ready"
        /\ \A g \in Gateways : max_order_id >= reported[g]
        /\ source[0] # "down"
        /\ orders[0] => cancels > 0 \/ refused
=============================================================================
