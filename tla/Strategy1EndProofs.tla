------------------------- MODULE Strategy1EndProofs -------------------------
(***************************************************************************)
(* Proofs about how the two legs of Strategy1 end, for every value of the  *)
(* constants: their orders never cross, a leg that is waiting for the      *)
(* gateway is always driven on, as is the repricing of the other leg after *)
(* a fill, and a leg that is finished stays so.  The invariant adds to     *)
(* that of Strategy1Proofs what is known of a leg whose order has reached  *)
(* a final status, and relates the price of each leg to the order of the   *)
(* other.                                                                  *)
(***************************************************************************)
EXTENDS Strategy1Proofs

Finals == {"completed", "canceled"}

IsAccepted(e) == e.event = "ack" /\ e.ack.result = "ACCEPTED"

IsFill(e) == e.event = "update" /\ e.status = "completed"

\* An event that makes a leg finished.
Ends(e) == IsFill(e) \/ (e.event = "ack" /\ e.ack.result = "TOO_LATE")

\* A leg is finished, or will be, only when its order is; and with events in order no
\* ack that could take it back is left behind the fill.
EndInv(g, q, ord, n) ==
    /\ n = 1 => ord # "none"
    /\ g.state = "FINISHED" => ord \in Finals
    /\ \A i \in 1..Len(q) : Ends(q[i]) => ord \in Finals
    /\ ~Reordered =>
        /\ g.state = "FINISHED" => \A i \in 1..Len(q) : ~IsAccepted(q[i])
        /\ \A i, j \in 1..Len(q) : i < j /\ IsFill(q[i]) => ~IsAccepted(q[j])

\* A leg that waits for the gateway has something under way.
Busy(g, q) == g.state \in {"CREATING", "CHANGING"} => ~Idle(g) \/ ~NoAck(q)

\* The retraced price is in use: wanted, asked for or at the exchange.
Retracing(l, g, op) ==
    \/ g.price # Initial(l) \/ op # Initial(l)
    \/ \E k \in DOMAIN g.requests : g.requests[k].price # Initial(l)

AllEnds ==
    \A l \in Legs :
        /\ EndInv(leg[l], inbox[l], order[l], orders[l])
        /\ Running /\ disconnects = 0 => Busy(leg[l], inbox[l])
        /\ Retracing(l, leg[l], oprice[l]) => order[Other(l)] \in Finals

EndsInv == Inv /\ (disconnects = 0 => connected) /\ AllEnds

-----------------------------------------------------------------------------
(***************************************************************************)
(* The methods of a leg, once more: what they ask for, and that they ask.  *)
(***************************************************************************)

\* All requests under way are for the price that the leg wants.
Asks(g) == \A k \in DOMAIN g.requests : g.requests[k].price = g.price

\* What a method that was called with g does: it keeps state and price, asks for the
\* wanted price, and while the link is up something is under way or the process ends.
Sent(g, o) ==
    /\ o.leg.state = g.state /\ o.leg.price = g.price /\ Asks(o.leg)
    /\ o.halt = "no" /\ connected => ~Idle(o.leg)

LEMMA RetryAsks ==
    ASSUME NEW l \in Legs, NEW g \in LegType(l), Idle(g),
           NEW kind, NEW n, NEW o \in handle_retry(g, kind, n)
    PROVE  Sent(g, o)
<1> DEFINE t == [kind |-> kind, retry |-> n]
<1>1. \/ o = [leg |-> g, halt |-> "assert"]
      \/ o = [leg |-> g, halt |-> "retries"]
      \/ o = [leg |-> [g EXCEPT !.timers = Append(@, t)], halt |-> "no"]
  BY DEF handle_retry, Asserted, Returns, Dies
<1>2. CASE o.leg = g /\ o.halt # "no"
  BY <1>2 DEF Sent, Asks, Idle
<1>3. CASE o = [leg |-> [g EXCEPT !.timers = Append(@, t)], halt |-> "no"]
  <2> HIDE DEF t
  <2>1. Append(g.timers, t) = <<t>>
    BY DEF Idle
  <2>2. o.leg = [g EXCEPT !.timers = <<t>>]
    BY <1>3, <2>1
  <2>3. /\ o.leg.timers = <<t>> /\ o.leg.requests = << >>
        /\ o.leg.state = g.state /\ o.leg.price = g.price
    BY <2>2 DEF LegType, Idle
  <2> QED
    BY <2>3 DEF Sent, Asks, Idle
<1> QED
  BY <1>1, <1>2, <1>3

LEMMA TrySendAsks ==
    ASSUME NEW l \in Legs, NEW g \in LegType(l), Idle(g),
           NEW kind, NEW n, NEW o \in try_send(g, kind, n)
    PROVE  Sent(g, o)
<1> DEFINE r == [kind |-> kind, price |-> g.price, retry |-> n]
<1>1. CASE o \in handle_retry(g, kind, n)
  BY <1>1, RetryAsks
<1>2. CASE ~connected /\ o = [leg |-> g, halt |-> "no"]
  BY <1>2 DEF Sent, Asks, Idle
<1>3. CASE o = [leg |-> [g EXCEPT !.requests = Append(@, r)], halt |-> "no"]
  <2>0. r.price = g.price
    OBVIOUS
  <2> HIDE DEF r
  <2>1. Append(g.requests, r) = <<r>>
    BY DEF Idle
  <2>2. o.leg = [g EXCEPT !.requests = <<r>>]
    BY <1>3, <2>1
  <2>3. o.leg.requests = <<r>> /\ o.leg.state = g.state /\ o.leg.price = g.price
    BY <2>2 DEF LegType
  <2> QED
    BY <2>0, <2>3 DEF Sent, Asks, Idle
<1> QED
  BY <1>1, <1>2, <1>3 DEF try_send, Returns

LEMMA SubmitHelperAsks ==
    ASSUME NEW l \in Legs, NEW g \in LegType(l), Idle(g),
           NEW n, NEW o \in submit_order_helper(g, n)
    PROVE  Sent(g, o)
<1>1. CASE o \in try_send(g, "create", n)
  BY <1>1, TrySendAsks
<1>2. CASE o = [leg |-> g, halt |-> "assert"]
  BY <1>2 DEF Sent, Asks, Idle
<1> QED
  BY <1>1, <1>2 DEF submit_order_helper, Asserted, Dies

\* A leg that is finished or failed is left alone.
LEMMA ModifyHelperAsks ==
    ASSUME NEW l \in Legs, NEW g \in LegType(l), Idle(g),
           NEW n, NEW o \in modify_order_helper(g, n)
    PROVE  Sent(g, o) \/ (g.state \in {"FINISHED", "FAILED"} /\ o.leg = g)
<1>1. CASE o \in try_send(g, "modify", n)
  BY <1>1, TrySendAsks
<1>2. CASE o = [leg |-> g, halt |-> "unexpected"]
  BY <1>2 DEF Sent, Asks, Idle
<1>3. CASE g.state \in {"FINISHED", "FAILED"} /\ o.leg = g
  BY <1>3
<1> QED
  BY <1>1, <1>2, <1>3 DEF modify_order_helper, Returns, Dies

\* The submission of an order.
LEMMA SubmitAsks ==
    ASSUME NEW l \in Legs, NEW g \in LegType(l), Idle(g), g.state = "UNDEFINED",
           NEW o \in submit_order(g)
    PROVE  /\ o.leg.state = "CREATING" /\ o.leg.price = g.price /\ Asks(o.leg)
           /\ o.halt = "no" /\ connected => ~Idle(o.leg)
<1> DEFINE c == [g EXCEPT !.state = "CREATING"]
<1>1. c \in LegType(l) /\ Idle(c) /\ c.state = "CREATING" /\ c.price = g.price
  BY DEF LegType, States, Idle
<1>2. o \in submit_order_helper(c, 0)
  BY DEF submit_order, Asserted
<1> HIDE DEF c
<1> QED
  BY <1>1, <1>2, SubmitHelperAsks DEF Sent

\* The answer to a request: it finishes the leg only when it is too late, and takes a
\* finished one back only when it is an acceptance.
LEMMA AckAsks ==
    ASSUME NEW l \in Legs, NEW g \in LegType(l), Idle(g), NEW ack \in Acks(l),
           NEW o \in on_order_ack(g, ack)
    PROVE  /\ o.leg.price = g.price /\ Asks(o.leg)
           /\ o.halt = "no" /\ g.state # "FAILED" => o.leg.state # "FAILED"
           /\ o.leg.state = "FINISHED" => g.state = "FINISHED" \/ ack.result = "TOO_LATE"
           /\ g.state = "FINISHED" =>
                o.leg.state = "FINISHED" \/ o.halt # "no" \/ ack.result = "ACCEPTED"
           /\ o.halt = "no" /\ connected /\ o.leg.state \in {"CREATING", "CHANGING"} =>
                ~Idle(o.leg)
<1> DEFINE c == [g EXCEPT !.state = "CHANGING"]
           f == [g EXCEPT !.state = "FINISHED"]
           w == [g EXCEPT !.state = "WAITING"]
           x == [g EXCEPT !.state = "FAILED"]
<1>1. /\ c \in LegType(l) /\ Idle(c) /\ c.state = "CHANGING" /\ c.price = g.price
      /\ Asks(f) /\ f.state = "FINISHED" /\ f.price = g.price
      /\ Asks(w) /\ w.state = "WAITING" /\ w.price = g.price
      /\ Asks(x) /\ x.state = "FAILED" /\ x.price = g.price /\ Asks(g)
  BY DEF LegType, States, Idle, Asks
<1>2. \/ o = [leg |-> g, halt |-> "assert"]
      \/ ack.result = "ACCEPTED" /\ o \in settle(g, ack.price)
      \/ o \in handle_retry(g, ack.kind, ack.retry)
      \/ o = [leg |-> g, halt |-> "undefined"]
      \/ ack.result = "TOO_LATE" /\ o = [leg |-> f, halt |-> "no"]
      \/ o = [leg |-> x, halt |-> "error"]
  BY DEF on_order_ack, handle_success, handle_failure, Asserted, Returns, Dies
<1>3. CASE o = [leg |-> g, halt |-> "assert"] \/ o = [leg |-> g, halt |-> "undefined"]
  BY <1>1, <1>3
<1>4. CASE ack.result = "ACCEPTED" /\ o \in settle(g, ack.price)
  <2>1. CASE o = [leg |-> w, halt |-> "no"]
    <3>1. o.leg = w
      BY <2>1
    <3> QED
      BY <1>1, <1>4, <3>1
  <2>2. CASE o \in modify_order_helper(c, 0)
    <3> HIDE DEF c
    <3>1. Sent(c, o)
      BY <1>1, <2>2, ModifyHelperAsks
    <3> QED
      BY <1>1, <1>4, <3>1 DEF Sent
  <2> QED
    BY <1>4, <2>1, <2>2 DEF settle, Returns
<1>5. CASE o \in handle_retry(g, ack.kind, ack.retry)
  BY <1>5, RetryAsks DEF Sent
<1>6. CASE ack.result = "TOO_LATE" /\ o = [leg |-> f, halt |-> "no"]
  <2>1. o.leg = f
    BY <1>6
  <2> QED
    BY <1>1, <1>6, <2>1
<1>7. CASE o = [leg |-> x, halt |-> "error"]
  <2>1. o.leg = x /\ o.halt = "error"
    BY <1>7
  <2> QED
    BY <1>1, <2>1
<1> QED
  BY <1>2, <1>3, <1>4, <1>5, <1>6, <1>7

\* A new price, for a leg that is not finished.
LEMMA ModifyAsks ==
    ASSUME NEW l \in Legs, NEW g \in LegType(l), NEW price \in Prices(l),
           g.state = "WAITING" => Idle(g),
           NEW o \in modify_order(g, price)
    PROVE  /\ o.leg.price = price /\ o.leg.state \in {g.state, "CHANGING"}
           /\ o.leg.requests = g.requests \/ Asks(o.leg)
           /\ o.leg.state = "FINISHED" <=> g.state = "FINISHED"
           /\ \/ o.leg.state = g.state /\ o.leg.requests = g.requests /\ o.leg.timers = g.timers
              \/ o.halt = "no" /\ connected => ~Idle(o.leg)
<1> DEFINE h == [g EXCEPT !.price = price]
           c == [h EXCEPT !.state = "CHANGING"]
<1>1. /\ h.state = g.state /\ h.requests = g.requests /\ h.timers = g.timers /\ h.price = price
      /\ c \in LegType(l) /\ c.requests = g.requests /\ c.timers = g.timers
      /\ c.state = "CHANGING" /\ c.price = price
  BY DEF LegType, States
<1>2. \/ (o.leg = g /\ g.price = price) \/ o.leg = h
      \/ (g.state = "WAITING" /\ o \in modify_order_helper(c, 0))
  BY DEF modify_order, Asserted, Returns, Dies
<1> HIDE DEF h, c
<1>3. CASE (o.leg = g /\ g.price = price) \/ o.leg = h
  BY <1>1, <1>3
<1>4. CASE g.state = "WAITING" /\ o \in modify_order_helper(c, 0)
  <2>1. Idle(c)
    BY <1>1, <1>4 DEF Idle
  <2>2. Sent(c, o)
    BY <1>1, <1>4, <2>1, ModifyHelperAsks
  <2> QED
    BY <1>1, <1>4, <2>2 DEF Sent
<1> QED
  BY <1>2, <1>3, <1>4

-----------------------------------------------------------------------------
(***************************************************************************)
(* Event queues.                                                           *)
(***************************************************************************)

\* The first event, or any with reordering, is taken out of the queue.
LEMMA Delivered ==
    ASSUME NEW l \in Legs, NEW q \in Seq(Events(l)), NEW i \in 1..Len(q),
           ~Reordered => i = 1, NEW g, NEW ord, NEW n, EndInv(g, q, ord, n)
    PROVE  /\ EndInv(g, Without(q, i), ord, n)
           /\ ~Reordered /\ IsFill(q[i]) =>
                \A j \in 1..Len(Without(q, i)) : ~IsAccepted(Without(q, i)[j])
<1> DEFINE w == Without(q, i)
           src(j) == IF j < i THEN j ELSE j + 1
<1>1. Len(q) \in Nat
  BY LenProperties
<1>2. Len(w) = Len(q) - 1
  BY WithoutProperties
<1>3. \A j \in 1..Len(w) : src(j) \in 1..Len(q) /\ w[j] = q[src(j)]
  BY <1>1, <1>2, WithoutProperties
<1>4. \A j, k \in 1..Len(w) : j < k => src(j) < src(k)
  BY <1>1, <1>2
<1>5. ~Reordered => \A j \in 1..Len(w) : i < src(j)
  BY <1>1, <1>2
<1> HIDE DEF w, src
<1>6. EndInv(g, w, ord, n)
  BY <1>3, <1>4 DEF EndInv
<1>7. ~Reordered /\ IsFill(q[i]) => \A j \in 1..Len(w) : ~IsAccepted(w[j])
  BY <1>3, <1>5 DEF EndInv
<1> QED
  BY <1>6, <1>7 DEF w

\* An event other than an acceptance is added, and ends the leg only if the order has
\* ended.
LEMMA Added ==
    ASSUME NEW l \in Legs, NEW q \in Seq(Events(l)), NEW e \in Events(l),
           NEW g, NEW ord, NEW ord2, NEW n, EndInv(g, q, ord, n),
           ~IsAccepted(e), Ends(e) => ord2 \in Finals, ord \in Finals => ord2 \in Finals,
           ord2 # "none" \/ ord2 = ord
    PROVE  EndInv(g, Append(q, e), ord2, n)
<1> DEFINE a == Append(q, e)
<1>1. /\ Len(q) \in Nat /\ Len(a) = Len(q) + 1
      /\ \A i \in 1..Len(a) : \/ i \in 1..Len(q) /\ a[i] = q[i]
                              \/ i = Len(q) + 1 /\ a[i] = e
  BY SendOne
<1> HIDE DEF a
<1>2. \A i \in 1..Len(a) : Ends(a[i]) => ord2 \in Finals
  BY <1>1 DEF EndInv
<1>3. \A i, j \in 1..Len(a) : i < j /\ IsAccepted(a[j]) => i \in 1..Len(q) /\ j \in 1..Len(q)
  BY <1>1
<1>4. \A i \in 1..Len(a) : IsAccepted(a[i]) => i \in 1..Len(q) /\ a[i] = q[i]
  BY <1>1
<1>5. \A i \in 1..Len(q) : a[i] = q[i]
  BY <1>1
<1> QED
  BY <1>2, <1>3, <1>4, <1>5 DEF EndInv, a

\* A request is accepted while the order is not final.
LEMMA AcceptedSent ==
    ASSUME NEW l \in Legs, NEW q \in Seq(Events(l)), NEW a \in Events(l), NEW u \in Events(l),
           NEW g, NEW h, NEW ord, NEW n, NEW m, EndInv(g, q, ord, n), ord \notin Finals,
           h.state = g.state, IsAccepted(a), u = Update("working")
    PROVE  EndInv(h, q \o <<a, u>>, "working", m)
<1> DEFINE z == q \o <<a, u>>
<1>0. ~Ends(u) /\ ~Ends(a)
  BY DEF Ends, IsFill, IsAccepted, Update
<1>1. <<a, u>> \in Seq(Events(l)) /\ Len(<<a, u>>) = 2 /\ <<a, u>>[1] = a /\ <<a, u>>[2] = u
  OBVIOUS
<1>2. /\ Len(q) \in Nat /\ Len(z) = Len(q) + 2
      /\ \A i \in 1..Len(z) : z[i] = IF i <= Len(q) THEN q[i] ELSE <<a, u>>[i - Len(q)]
  BY <1>1, ConcatProperties, LenProperties
<1>3. \A i \in 1..Len(z) : \/ i \in 1..Len(q) /\ z[i] = q[i]
                           \/ z[i] = a \/ z[i] = u
  BY <1>1, <1>2
<1> HIDE DEF z
<1>4. \A i \in 1..Len(z) : ~Ends(z[i])
  BY <1>0, <1>3 DEF EndInv
<1>5. g.state # "FINISHED"
  BY DEF EndInv
<1> QED
  BY <1>4, <1>5 DEF EndInv, Ends, z

-----------------------------------------------------------------------------
(***************************************************************************)
(* Each event, for one leg.                                                *)
(***************************************************************************)

\* A leg that was finished, is left with g, or the process has stopped, or an
\* acceptance was overtaken by the fill.
FinishedStays(l, g) ==
    finished(leg[l]) =>
        \/ finished(g) \/ halted' # "no"
        \/ Reordered /\ \E i \in AckAt(l) : inbox[l][i].ack.result = "ACCEPTED"

\* What a step has to establish for a leg that it leaves with g, its events q and its
\* order.
Kept(l, g, q, ord, op, n) ==
    /\ EndInv(g, q, ord, n)
    /\ halted' = "no" /\ disconnects' = 0 => Busy(g, q)
    /\ Retracing(l, g, op) => order[Other(l)] \in Finals
    /\ FinishedStays(l, g)

LEMMA LegFacts ==
    ASSUME EndsInv, NEW l \in Legs
    PROVE  /\ LegInv(l, leg[l], inbox[l], order[l], oprice[l], orders[l])
           /\ leg[l] \in LegType(l) /\ inbox[l] \in Seq(Events(l))
           /\ DriverInv(l, leg[l], inbox[l], orders[l])
           /\ OrderInv(leg[l], order[l], oprice[l], orders[l])
           /\ EndInv(leg[l], inbox[l], order[l], orders[l])
           /\ Running /\ disconnects = 0 => Busy(leg[l], inbox[l]) /\ connected
           /\ Retracing(l, leg[l], oprice[l]) => order[Other(l)] \in Finals
           /\ DOMAIN inbox[l] = 1..Len(inbox[l])
<1>1. LegInv(l, leg[l], inbox[l], order[l], oprice[l], orders[l])
  BY DEF EndsInv, Inv, AllLegs
<1>2. inbox[l] \in Seq(Events(l))
  BY <1>1 DEF LegInv
<1>3. DOMAIN inbox[l] = 1..Len(inbox[l])
  BY <1>2, LenProperties
<1> QED
  BY <1>1, <1>3 DEF LegInv, EndsInv, AllEnds

\* A leg that the step does not touch.
LEMMA Untouched ==
    ASSUME EndsInv, NEW l \in Legs,
           halted' = "no" => Running, disconnects' = 0 => disconnects = 0
    PROVE  Kept(l, leg[l], inbox[l], order[l], oprice[l], orders[l])
BY LegFacts DEF Kept, FinishedStays

\* A leg whose new requests are for a price that it wanted.
LEMMA StillRetracing ==
    ASSUME NEW l \in Legs, NEW g, NEW h, NEW op,
           h.price = g.price, Asks(h) \/ h.requests = g.requests
    PROVE  Retracing(l, h, op) => Retracing(l, g, op)
BY DEF Retracing, Asks

LEMMA MarketEnds ==
    ASSUME EndsInv, NEW l \in Legs, NEW o \in maybe_submit_order(leg[l]),
           Running, connected, halted' = "no" => o.halt = "no", UNCHANGED disconnects
    PROVE  Kept(l, o.leg, inbox[l], order[l], oprice[l], orders[l])
<1>1. CASE o.leg = leg[l]
  BY <1>1, Untouched
<1>2. CASE leg[l].state = "UNDEFINED" /\ o \in submit_order(leg[l])
  <2>1. Idle(leg[l]) /\ leg[l] \in LegType(l)
    BY <1>2, LegFacts DEF DriverInv
  <2>2. /\ o.leg.state = "CREATING" /\ o.leg.price = leg[l].price /\ Asks(o.leg)
        /\ o.halt = "no" /\ connected => ~Idle(o.leg)
    BY <1>2, <2>1, SubmitAsks
  <2>3. EndInv(o.leg, inbox[l], order[l], orders[l])
    BY <2>2, LegFacts DEF EndInv
  <2>4. Retracing(l, o.leg, oprice[l]) => order[Other(l)] \in Finals
    BY <2>2, StillRetracing, LegFacts
  <2>5. FinishedStays(l, o.leg)
    BY <1>2 DEF FinishedStays, finished
  <2> QED
    BY <2>2, <2>3, <2>4, <2>5 DEF Kept, Busy
<1> QED
  BY <1>1, <1>2 DEF maybe_submit_order, Returns

LEMMA AckEnds ==
    ASSUME EndsInv, NEW l \in Legs, NEW i \in DOMAIN inbox[l], Arrives(l, i),
           inbox[l][i].event = "ack", NEW o \in on_order_ack(leg[l], inbox[l][i].ack),
           Running, connected, halted' = o.halt, UNCHANGED disconnects
    PROVE  Kept(l, o.leg, Without(inbox[l], i), order[l], oprice[l], orders[l])
<1> DEFINE ack == inbox[l][i].ack
           w == Without(inbox[l], i)
<1>1. i \in 1..Len(inbox[l]) /\ (~Reordered => i = 1) /\ i \in AckAt(l)
  <2>1. i \in 1..Len(inbox[l]) /\ Len(inbox[l]) \in Nat
    BY LegFacts, LenProperties
  <2> QED
    BY <2>1 DEF Arrives, AckAt
<1>2. Idle(leg[l]) /\ leg[l] \in LegType(l) /\ ack \in Acks(l)
  <2>1. Idle(leg[l]) /\ leg[l] \in LegType(l)
    BY <1>1, LegFacts DEF DriverInv, NoAck
  <2>2. inbox[l][i] \in Events(l)
    BY <1>1, LegFacts, ElementOfSeq
  <2> QED
    BY <2>1, <2>2, EventCases
<1>3. /\ o.leg.price = leg[l].price /\ Asks(o.leg)
      /\ o.leg.state = "FINISHED" => leg[l].state = "FINISHED" \/ ack.result = "TOO_LATE"
      /\ leg[l].state = "FINISHED" =>
           o.leg.state = "FINISHED" \/ o.halt # "no" \/ ack.result = "ACCEPTED"
      /\ o.halt = "no" /\ connected /\ o.leg.state \in {"CREATING", "CHANGING"} => ~Idle(o.leg)
  BY <1>2, AckAsks
<1>4. EndInv(leg[l], w, order[l], orders[l])
  BY <1>1, Delivered, LegFacts
<1>5. NoAck(w)
  BY <1>1, DeliverAck, LegFacts DEF DriverInv
<1>6. o.leg.state = "FINISHED" => order[l] \in Finals
  <2>1. ack.result = "TOO_LATE" => Ends(inbox[l][i])
    BY DEF Ends
  <2> QED
    BY <1>1, <1>3, <2>1, LegFacts DEF EndInv
<1> HIDE DEF w
<1>7. EndInv(o.leg, w, order[l], orders[l])
  BY <1>4, <1>5, <1>6 DEF EndInv, NoAck, IsAccepted
<1>8. Retracing(l, o.leg, oprice[l]) => order[Other(l)] \in Finals
  BY <1>3, StillRetracing, LegFacts
<1>9. FinishedStays(l, o.leg)
  <2>1. leg[l].state = "FINISHED" /\ ack.result = "ACCEPTED" => Reordered
    BY <1>1, LegFacts DEF EndInv, IsAccepted
  <2> QED
    BY <1>1, <1>3, <2>1 DEF FinishedStays, finished
<1>10. halted' = "no" => Busy(o.leg, w)
  BY <1>3 DEF Busy
<1> QED
  BY <1>7, <1>8, <1>9, <1>10 DEF Kept, w

LEMMA TimerEnds ==
    ASSUME EndsInv, NEW l \in Legs, leg[l].timers # << >>,
           NEW o \in on_timer([leg[l] EXCEPT !.timers = Tail(@)], Head(leg[l].timers)),
           Running, halted' = o.halt, UNCHANGED disconnects
    PROVE  Kept(l, o.leg, inbox[l], order[l], oprice[l], orders[l])
<1> DEFINE h == [leg[l] EXCEPT !.timers = Tail(@)]
<1>1. PICK t \in Timers : leg[l].timers = <<t>> /\ leg[l].requests = << >>
  BY LegFacts DEF DriverInv, Driven, Idle
<1>2. Head(leg[l].timers) = t /\ Tail(leg[l].timers) = << >>
  BY <1>1
<1>3. h \in LegType(l) /\ Idle(h) /\ h.state = leg[l].state /\ h.price = leg[l].price
  BY <1>1, <1>2, LegFacts DEF LegType, Idle
<1>4. o \in submit_order_helper(h, t.retry + 1) \/ o \in modify_order_helper(h, t.retry + 1)
  BY <1>2 DEF on_timer
<1> HIDE DEF h
<1>5. Sent(h, o) \/ (h.state \in {"FINISHED", "FAILED"} /\ o.leg = h)
  BY <1>3, <1>4, SubmitHelperAsks, ModifyHelperAsks
<1>6. /\ o.leg.state = leg[l].state /\ o.leg.price = leg[l].price /\ Asks(o.leg)
      /\ o.halt = "no" /\ connected /\ o.leg.state \in {"CREATING", "CHANGING"} => ~Idle(o.leg)
  BY <1>3, <1>5 DEF Sent, Asks, Idle
<1>7. EndInv(o.leg, inbox[l], order[l], orders[l])
  BY <1>6, LegFacts DEF EndInv
<1>8. Retracing(l, o.leg, oprice[l]) => order[Other(l)] \in Finals
  BY <1>6, StillRetracing, LegFacts
<1>9. FinishedStays(l, o.leg)
  BY <1>6 DEF FinishedStays, finished
<1>10. halted' = "no" /\ disconnects' = 0 => Busy(o.leg, inbox[l])
  BY <1>6, LegFacts DEF Busy
<1> QED
  BY <1>7, <1>8, <1>9, <1>10 DEF Kept

\* The handlers of an order update of leg l, for leg m: gs are the legs after that of l
\* has handled it.
LEMMA UpdateEnds ==
    ASSUME EndsInv, NEW l \in Legs, NEW i \in DOMAIN inbox[l], Arrives(l, i),
           inbox[l][i].event = "update", NEW gs,
           \A m \in Legs : gs[m] = IF m = l THEN leg_order_update(leg[l], inbox[l][i].status)
                                            ELSE leg[m],
           NEW m \in Legs, NEW o \in strategy_order_update(gs, m), Running, connected,
           halted' = "no" => o.halt = "no", UNCHANGED disconnects
    PROVE  Kept(m, o.leg, IF m = l THEN Without(inbox[l], i) ELSE inbox[m],
                order[m], oprice[m], orders[m])
<1> DEFINE q == IF m = l THEN Without(inbox[l], i) ELSE inbox[m]
<1>1. i \in 1..Len(inbox[l]) /\ (~Reordered => i = 1)
  <2>1. i \in 1..Len(inbox[l]) /\ Len(inbox[l]) \in Nat
    BY LegFacts, LenProperties
  <2> QED
    BY <2>1 DEF Arrives
<1>2. ASSUME NEW k \in Legs
      PROVE  /\ gs[k].price = leg[k].price /\ gs[k].requests = leg[k].requests
             /\ gs[k].timers = leg[k].timers /\ gs[k].state \in {leg[k].state, "FINISHED"}
             /\ gs[k] \in LegType(k)
             /\ gs[k].state # leg[k].state => k = l /\ IsFill(inbox[l][i])
  <2>1. leg[k] \in LegType(k)
    BY LegFacts
  <2>2. CASE k # l
    BY <2>1, <2>2
  <2>3. CASE k = l
    BY <2>1, <2>3 DEF leg_order_update, LegType, States, IsFill
  <2> QED
    BY <2>2, <2>3
<1>3. \A k \in Legs : gs[k].state = "FINISHED" => order[k] \in Finals
  BY <1>1, <1>2, LegFacts DEF EndInv, Ends
<1>4. EndInv(gs[m], q, order[m], orders[m])
  <2>1. CASE m # l
    BY <1>2, <2>1, LegFacts DEF EndInv
  <2>2. CASE m = l
    <3> DEFINE w == Without(inbox[l], i)
    <3>1. /\ EndInv(leg[l], w, order[l], orders[l])
          /\ ~Reordered /\ IsFill(inbox[l][i]) => \A j \in 1..Len(w) : ~IsAccepted(w[j])
      BY <1>1, Delivered, LegFacts
    <3> HIDE DEF w
    <3>2. EndInv(gs[l], w, order[l], orders[l])
      BY <1>2, <1>3, <3>1 DEF EndInv
    <3> QED
      BY <2>2, <3>2 DEF w
  <2> QED
    BY <2>1, <2>2
<1>5. NoAck(q) => NoAck(inbox[m])
  <2>1. CASE m # l
    BY <2>1
  <2>2. CASE m = l
    <3> DEFINE w == Without(inbox[l], i)
    <3>1. Len(inbox[l]) \in Nat
      BY LegFacts, LenProperties
    <3>2. /\ Len(w) = Len(inbox[l]) - 1
          /\ \A j \in 1..(Len(inbox[l]) - 1) :
               w[j] = IF j < i THEN inbox[l][j] ELSE inbox[l][j + 1]
      BY <1>1, WithoutProperties, LegFacts
    <3> HIDE DEF w
    <3>3. ASSUME NEW j \in 1..Len(inbox[l]), j # i PROVE \E k \in 1..Len(w) : w[k] = inbox[l][j]
      <4>1. CASE j < i
        <5>1. j \in 1..Len(w) /\ w[j] = inbox[l][j]
          BY <1>1, <3>1, <3>2, <4>1
        <5> QED
          BY <5>1
      <4>2. CASE ~(j < i)
        <5>1. j - 1 \in 1..Len(w) /\ ~(j - 1 < i) /\ (j - 1) + 1 = j
          BY <1>1, <3>1, <3>2, <3>3, <4>2
        <5>2. w[j - 1] = inbox[l][j]
          BY <3>2, <5>1
        <5> QED
          BY <5>1, <5>2
      <4> QED
        BY <4>1, <4>2
    <3>4. NoAck(w) => NoAck(inbox[l])
      BY <3>3 DEF NoAck
    <3> QED
      BY <2>2, <3>4 DEF w
  <2> QED
    BY <2>1, <2>2
<1>6. disconnects = 0 => Busy(gs[m], q)
  BY <1>2, <1>5, LegFacts DEF Busy, Idle
<1>7. Retracing(m, gs[m], oprice[m]) => order[Other(m)] \in Finals
  BY <1>2, StillRetracing, LegFacts
<1> HIDE DEF q
<1>8. CASE o.leg = gs[m]
  <2>1. FinishedStays(m, o.leg)
    BY <1>2, <1>8 DEF FinishedStays, finished
  <2> QED
    BY <1>4, <1>6, <1>7, <1>8, <2>1 DEF Kept, q
<1>9. CASE ~finished(gs[m]) /\ finished(gs[Other(m)]) /\ o \in modify_order(gs[m], Retraced(m))
  <2>1. order[Other(m)] \in Finals
    BY <1>3, <1>9 DEF finished, Other, Legs
  <2>2. gs[m].state = "WAITING" => Idle(gs[m])
    BY <1>2, LegFacts DEF DriverInv, Idle
  <2>3. /\ o.leg.state = "FINISHED" <=> gs[m].state = "FINISHED"
        /\ \/ o.leg.state = gs[m].state /\ o.leg.requests = gs[m].requests
                                        /\ o.leg.timers = gs[m].timers
           \/ o.halt = "no" /\ connected => ~Idle(o.leg)
    BY <1>2, <1>9, <2>2, ModifyAsks DEF Prices
  <2>4. EndInv(o.leg, q, order[m], orders[m])
    BY <1>4, <2>3 DEF EndInv
  <2>5. halted' = "no" /\ disconnects = 0 => Busy(o.leg, q)
    BY <1>6, <2>3 DEF Busy, Idle
  <2>6. FinishedStays(m, o.leg)
    BY <1>2, <1>9 DEF FinishedStays, finished
  <2> QED
    BY <2>1, <2>4, <2>5, <2>6 DEF Kept, q
<1> QED
  BY <1>8, <1>9 DEF strategy_order_update, Returns

\* The request that the gateway takes is the only one.
LEMMA TheRequest ==
    ASSUME EndsInv, NEW l \in Legs, leg[l].requests # << >>
    PROVE  LET r == Head(leg[l].requests)
               h == [leg[l] EXCEPT !.requests = Tail(@)]
           IN  /\ r \in Requests(l) /\ Idle(h)
               /\ h.state = leg[l].state /\ h.price = leg[l].price
               /\ r.kind = (IF orders[l] = 0 THEN "create" ELSE "modify")
<1>1. leg[l] \in LegType(l) /\ DriverInv(l, leg[l], inbox[l], orders[l])
  BY LegFacts
<1>2. PICK r \in Requests(l) : /\ r.kind = (IF orders[l] = 0 THEN "create" ELSE "modify")
                               /\ leg[l].requests = <<r>> /\ leg[l].timers = << >>
  BY <1>1 DEF DriverInv, Driven, Idle
<1>3. Head(leg[l].requests) = r /\ Tail(leg[l].requests) = << >>
  BY <1>2
<1> QED
  BY <1>1, <1>2, <1>3 DEF LegType, Idle

LEMMA AcceptEnds ==
    ASSUME EndsInv, NEW l \in Legs, Accept(l)
    PROVE  /\ Kept(l, leg'[l], inbox'[l], order'[l], oprice'[l], orders'[l])
           /\ order[l] \notin Finals
<1> DEFINE r == Head(leg[l].requests)
           h == [leg[l] EXCEPT !.requests = Tail(@)]
           a == Ack(r, "ACCEPTED")
           u == Update("working")
<1>0. DOMAIN leg = Legs /\ DOMAIN inbox = Legs /\ DOMAIN order = Legs
      /\ DOMAIN oprice = Legs /\ DOMAIN orders = Legs
  BY DEF EndsInv, Inv, FrameInv
<1>1. /\ leg[l].requests # << >> /\ (r.kind = "modify" => order[l] = "working")
      /\ leg'[l] = h /\ order'[l] = "working" /\ oprice'[l] = r.price
      /\ inbox'[l] = inbox[l] \o <<a, u>>
  BY <1>0 DEF Accept, TakeRequest
<1>2. /\ r \in Requests(l) /\ Idle(h)
      /\ h.state = leg[l].state /\ h.price = leg[l].price
      /\ r.kind = (IF orders[l] = 0 THEN "create" ELSE "modify")
  BY <1>1, TheRequest
<1>3. order[l] \notin Finals
  BY <1>1, <1>2, LegFacts DEF OrderInv, Finals
<1>4. a \in Events(l) /\ u \in Events(l) /\ IsAccepted(a) /\ a.event = "ack"
  BY <1>2 DEF Ack, Update, Events, Acks, Requests, Statuses, IsAccepted
<1>5. r = leg[l].requests[1] /\ 1 \in DOMAIN leg[l].requests
  <2>1. leg[l].requests \in Seq(Requests(l))
    BY LegFacts DEF LegType
  <2> QED
    BY <1>1, <2>1, EmptySeq
<1>6. ~NoAck(inbox[l] \o <<a, u>>)
  <2>1. Len(inbox[l]) \in Nat /\ inbox[l] \in Seq(Events(l))
    BY LegFacts, LenProperties
  <2>2. /\ Len(inbox[l]) + 1 \in 1..Len(inbox[l] \o <<a, u>>)
        /\ (inbox[l] \o <<a, u>>)[Len(inbox[l]) + 1] = a
    BY <1>4, <2>1
  <2> QED
    BY <1>4, <2>2 DEF NoAck
<1>8. Retracing(l, h, r.price) => order[Other(l)] \in Finals
  <2>1. h.requests = << >> /\ h.price = leg[l].price
    BY <1>2 DEF Idle
  <2>2. Retracing(l, h, r.price) => Retracing(l, leg[l], oprice[l])
    BY <1>5, <2>1 DEF Retracing
  <2> QED
    BY <2>2, LegFacts
<1> HIDE DEF h, r, a
<1>7. EndInv(h, inbox[l] \o <<a, u>>, "working", orders'[l])
  BY <1>2, <1>3, <1>4, AcceptedSent, LegFacts
<1>9. FinishedStays(l, h)
  BY <1>2 DEF FinishedStays, finished
<1>10. Kept(l, h, inbox[l] \o <<a, u>>, "working", r.price, orders'[l])
  BY <1>6, <1>7, <1>8, <1>9 DEF Kept, Busy
<1> QED
  BY <1>1, <1>3, <1>10

LEMMA RejectEnds ==
    ASSUME EndsInv, NEW l \in Legs, Reject(l)
    PROVE  Kept(l, leg'[l], inbox'[l], order[l], oprice[l], orders[l])
<1> DEFINE r == Head(leg[l].requests)
           h == [leg[l] EXCEPT !.requests = Tail(@)]
<1>0. DOMAIN leg = Legs /\ DOMAIN inbox = Legs
  BY DEF EndsInv, Inv, FrameInv
<1>1. PICK e \in Errors(l, r) : inbox' = [inbox EXCEPT ![l] = Append(@, Ack(r, e))]
  BY DEF Reject
<1>2. leg[l].requests # << >> /\ leg'[l] = h /\ inbox'[l] = Append(inbox[l], Ack(r, e))
  BY <1>0, <1>1 DEF Reject, TakeRequest
<1>3. /\ r \in Requests(l) /\ Idle(h)
      /\ h.state = leg[l].state /\ h.price = leg[l].price
      /\ r.kind = (IF orders[l] = 0 THEN "create" ELSE "modify")
  BY <1>2, TheRequest
<1>4. e \in {"RATE_LIMIT", "TOO_LATE", "OTHER"} /\ (e = "TOO_LATE" => order[l] \in Finals)
  <2>1. /\ order[l] \in Statuses \union {"none"} /\ orders[l] \in {0, 1}
        /\ orders[l] = 1 => order[l] # "none"
    BY LegFacts DEF LegInv, OrderInv, EndInv
  <2> QED
    BY <1>1, <1>3, <2>1 DEF Errors, Statuses, Finals
<1> DEFINE a == Ack(r, e)
<1>5. a \in Events(l) /\ a.event = "ack" /\ ~IsAccepted(a) /\ (Ends(a) => e = "TOO_LATE")
  BY <1>3, <1>4 DEF Ack, Events, Acks, Requests, IsAccepted, Ends, IsFill
<1>6. ~NoAck(Append(inbox[l], a))
  BY <1>5, LegFacts, SendOne DEF NoAck
<1>7. Retracing(l, h, oprice[l]) => order[Other(l)] \in Finals
  BY <1>3, LegFacts DEF Retracing, Idle
<1> HIDE DEF h, r, a
<1>8. EndInv(leg[l], Append(inbox[l], a), order[l], orders[l])
  BY <1>4, <1>5, Added, LegFacts
<1>9. EndInv(h, Append(inbox[l], a), order[l], orders[l])
  BY <1>3, <1>8 DEF EndInv
<1>10. FinishedStays(l, h)
  BY <1>3 DEF FinishedStays, finished
<1>11. Kept(l, h, Append(inbox[l], a), order[l], oprice[l], orders[l])
  BY <1>6, <1>7, <1>9, <1>10 DEF Kept, Busy
<1> QED
  BY <1>2, <1>11 DEF a

LEMMA FinalEnds ==
    ASSUME EndsInv, NEW l \in Legs, NEW s \in Finals, Final(l, s)
    PROVE  Kept(l, leg[l], inbox'[l], order'[l], oprice[l], orders[l])
<1>0. DOMAIN inbox = Legs /\ DOMAIN order = Legs
  BY DEF EndsInv, Inv, FrameInv
<1>1. /\ order'[l] = s /\ inbox'[l] = Append(inbox[l], Update(s)) /\ Running
      /\ UNCHANGED <<disconnects, halted>>
  BY <1>0 DEF Final, link
<1>2. Update(s) \in Events(l) /\ Update(s).event = "update" /\ ~IsAccepted(Update(s))
  BY DEF Update, Events, Statuses, Finals, IsAccepted
<1>3. EndInv(leg[l], Append(inbox[l], Update(s)), s, orders[l])
  BY <1>2, Added, LegFacts DEF Finals
<1>4. NoAck(Append(inbox[l], Update(s))) => NoAck(inbox[l])
  <2>1. /\ Len(inbox[l]) \in Nat /\ Len(Append(inbox[l], Update(s))) = Len(inbox[l]) + 1
        /\ \A i \in 1..Len(inbox[l]) : Append(inbox[l], Update(s))[i] = inbox[l][i]
    BY <1>2, LegFacts, SendOne
  <2> QED
    BY <2>1 DEF NoAck
<1>5. Kept(l, leg[l], Append(inbox[l], Update(s)), s, oprice[l], orders[l])
  BY <1>1, <1>3, <1>4, LegFacts DEF Kept, FinishedStays, Busy
<1> QED
  BY <1>1, <1>5

LEMMA DisconnectEnds ==
    ASSUME EndsInv, NEW l \in Legs, Disconnect
    PROVE  Kept(l, leg'[l], inbox'[l], order'[l], oprice[l], orders[l])
<1> DEFINE h == [leg[l] EXCEPT !.requests = << >>]
<1>1. /\ leg'[l] = h /\ inbox'[l] = << >> /\ disconnects' = disconnects + 1
      /\ order'[l] = IF order[l] = "working" THEN "canceled" ELSE order[l]
  BY DEF Disconnect
<1>2. h.state = leg[l].state /\ h.price = leg[l].price /\ h.requests = << >>
  BY LegFacts DEF LegType
<1>3. disconnects' # 0
  <2>1. disconnects \in Nat
    BY ConstantsAssumption DEF EndsInv, Inv, FrameInv
  <2> QED
    BY <1>1, <2>1
<1> HIDE DEF h
<1>4. EndInv(h, << >>, order'[l], orders[l])
  BY <1>1, <1>2, LegFacts DEF EndInv, Finals
<1>5. Retracing(l, h, oprice[l]) => order[Other(l)] \in Finals
  BY <1>2, LegFacts DEF Retracing
<1>6. FinishedStays(l, h)
  BY <1>2 DEF FinishedStays, finished
<1>7. Kept(l, h, << >>, order'[l], oprice[l], orders[l])
  BY <1>3, <1>4, <1>5, <1>6 DEF Kept
<1> QED
  BY <1>1, <1>7

-----------------------------------------------------------------------------
(***************************************************************************)
(* The step: each leg as the lemmas above leave it.                        *)
(***************************************************************************)

\* What a step has to establish for both legs; orders that are final stay so.
Keeps ==
    /\ \A l \in Legs : Kept(l, leg'[l], inbox'[l], order'[l], oprice'[l], orders'[l])
    /\ \A l \in Legs : order[l] \in Finals => order'[l] \in Finals
    /\ disconnects' = 0 => connected'

LEMMA MarketKeeps ==
    ASSUME EndsInv, MarketHandlers, UNCHANGED <<created, inbox, exchange, link>>,
           Running, connected
    PROVE  Keeps
<1>1. PICK h \in maybe_submit_order(leg["high"]) :
      \E k \in (IF h.halt = "no" THEN maybe_submit_order(leg["low"]) ELSE Returns(leg["low"])) :
        /\ leg' = [l \in Legs |-> IF l = "high" THEN h.leg ELSE k.leg]
        /\ halted' = (IF h.halt = "no" THEN k.halt ELSE h.halt)
  BY DEF MarketHandlers
<1>2. PICK k \in (IF h.halt = "no" THEN maybe_submit_order(leg["low"]) ELSE Returns(leg["low"])) :
        /\ leg' = [l \in Legs |-> IF l = "high" THEN h.leg ELSE k.leg]
        /\ halted' = (IF h.halt = "no" THEN k.halt ELSE h.halt)
  BY <1>1
<1>3. UNCHANGED <<inbox, order, oprice, orders, connected, disconnects>>
  BY DEF exchange, link
<1>4. Kept("high", h.leg, inbox["high"], order["high"], oprice["high"], orders["high"])
  BY <1>2, <1>3, MarketEnds DEF Legs
<1>5. Kept("low", k.leg, inbox["low"], order["low"], oprice["low"], orders["low"])
  <2>1. CASE h.halt = "no"
    BY <1>2, <1>3, <2>1, MarketEnds DEF Legs
  <2>2. CASE h.halt # "no"
    <3>1. k.leg = leg["low"] /\ halted' # "no"
      BY <1>2, <2>2 DEF Returns
    <3> QED
      BY <1>3, <3>1, Untouched DEF Legs
  <2> QED
    BY <2>1, <2>2
<1>6. leg'["high"] = h.leg /\ leg'["low"] = k.leg
  BY <1>2 DEF Legs
<1> QED
  BY <1>3, <1>4, <1>5, <1>6 DEF Keeps, Legs

\* A step that moves one leg, with what belongs to it.
LEMMA OneLegKeeps ==
    ASSUME EndsInv, NEW l \in Legs,
           Kept(l, leg'[l], inbox'[l], order'[l], oprice'[l], orders'[l]),
           order[l] \in Finals => order'[l] \in Finals,
           \A m \in Legs \ {l} : /\ leg'[m] = leg[m] /\ inbox'[m] = inbox[m]
                                 /\ order'[m] = order[m] /\ oprice'[m] = oprice[m]
                                 /\ orders'[m] = orders[m],
           Running, UNCHANGED <<connected, disconnects>>
    PROVE  Keeps
<1>1. ASSUME NEW m \in Legs \ {l}
      PROVE  Kept(m, leg'[m], inbox'[m], order'[m], oprice'[m], orders'[m])
  BY <1>1, Untouched
<1>2. \A m \in Legs : Kept(m, leg'[m], inbox'[m], order'[m], oprice'[m], orders'[m])
  BY <1>1
<1>3. \A m \in Legs : order[m] \in Finals => order'[m] \in Finals
  OBVIOUS
<1>4. disconnects' = 0 => connected'
  BY DEF EndsInv
<1> QED
  BY <1>2, <1>3, <1>4 DEF Keeps

LEMMA NextKeeps ==
    ASSUME EndsInv, [Next]_vars PROVE Keeps
<1>0. DOMAIN leg = Legs /\ DOMAIN inbox = Legs /\ DOMAIN order = Legs
      /\ DOMAIN oprice = Legs /\ DOMAIN orders = Legs
  BY DEF EndsInv, Inv, FrameInv
<1>1. CASE Ready \/ MarketData \/ \E open \in BOOLEAN : MarketStatus(open)
  BY <1>1, MarketKeeps DEF Ready, MarketData, MarketStatus
<1>2. CASE AddMarket \/ Signal \/ Stopped \/ Connect \/ UNCHANGED vars
  <2>1. /\ UNCHANGED <<leg, inbox, order, oprice, orders, disconnects>>
        /\ halted' = "no" => Running
        /\ connected => connected'
    BY <1>2 DEF AddMarket, Signal, Stopped, Connect, vars, exchange, link, Running
  <2>2. \A l \in Legs : Kept(l, leg[l], inbox[l], order[l], oprice[l], orders[l])
    BY <2>1, Untouched
  <2> QED
    BY <2>1, <2>2 DEF Keeps, EndsInv
<1>3. ASSUME NEW l \in Legs, OrderAck(l) PROVE Keeps
  <2>1. PICK i \in DOMAIN inbox[l] :
          /\ Arrives(l, i) /\ inbox[l][i].event = "ack"
          /\ inbox' = [inbox EXCEPT ![l] = Without(@, i)]
          /\ \E o \in on_order_ack(leg[l], inbox[l][i].ack) :
                leg' = [leg EXCEPT ![l] = o.leg] /\ halted' = o.halt
    BY <1>3 DEF OrderAck
  <2>2. PICK o \in on_order_ack(leg[l], inbox[l][i].ack) :
          leg' = [leg EXCEPT ![l] = o.leg] /\ halted' = o.halt
    BY <2>1
  <2>3. Running /\ connected /\ UNCHANGED <<order, oprice, orders, connected, disconnects>>
    BY <1>3 DEF OrderAck, exchange, link
  <2>4. Kept(l, o.leg, Without(inbox[l], i), order[l], oprice[l], orders[l])
    BY <2>1, <2>2, <2>3, AckEnds
  <2>5. leg'[l] = o.leg /\ inbox'[l] = Without(inbox[l], i)
    BY <1>0, <2>1, <2>2
  <2>6. \A m \in Legs \ {l} : leg'[m] = leg[m] /\ inbox'[m] = inbox[m]
    BY <1>0, <2>1, <2>2
  <2> QED
    BY <2>3, <2>4, <2>5, <2>6, OneLegKeeps
<1>4. ASSUME NEW l \in Legs, OrderUpdate(l) PROVE Keeps
  <2>1. PICK i \in DOMAIN inbox[l] :
          /\ Arrives(l, i) /\ inbox[l][i].event = "update"
          /\ inbox' = [inbox EXCEPT ![l] = Without(@, i)]
          /\ LET gs == [leg EXCEPT ![l] = leg_order_update(@, inbox[l][i].status)]
             IN  \E h \in strategy_order_update(gs, "high"), k \in strategy_order_update(gs, "low") :
                  /\ leg' = [m \in Legs |-> IF m = "high" THEN h.leg ELSE k.leg]
                  /\ halted' = (IF h.halt = "no" THEN k.halt ELSE h.halt)
    BY <1>4 DEF OrderUpdate
  <2> DEFINE gs == [leg EXCEPT ![l] = leg_order_update(@, inbox[l][i].status)]
             q(m) == IF m = l THEN Without(inbox[l], i) ELSE inbox[m]
  <2>2. PICK h \in strategy_order_update(gs, "high"), k \in strategy_order_update(gs, "low") :
          /\ leg' = [m \in Legs |-> IF m = "high" THEN h.leg ELSE k.leg]
          /\ halted' = (IF h.halt = "no" THEN k.halt ELSE h.halt)
    BY <2>1
  <2>3. Running /\ connected /\ UNCHANGED <<order, oprice, orders, connected, disconnects>>
    BY <1>4 DEF OrderUpdate, exchange, link
  <2>4. /\ \A m \in Legs : gs[m] = IF m = l THEN leg_order_update(leg[l], inbox[l][i].status)
                                            ELSE leg[m]
        /\ \A m \in Legs : inbox'[m] = q(m)
    BY <1>0, <2>1
  <2>5. leg'["high"] = h.leg /\ leg'["low"] = k.leg
    BY <2>2 DEF Legs
  <2>6. halted' = "no" => h.halt = "no" /\ k.halt = "no"
    BY <2>2
  <2> HIDE DEF gs
  <2>7. Kept("high", h.leg, q("high"), order["high"], oprice["high"], orders["high"])
    BY <2>1, <2>2, <2>3, <2>4, <2>6, UpdateEnds DEF Legs
  <2>8. Kept("low", k.leg, q("low"), order["low"], oprice["low"], orders["low"])
    BY <2>1, <2>2, <2>3, <2>4, <2>6, UpdateEnds DEF Legs
  <2> HIDE DEF q
  <2> QED
    BY <2>3, <2>4, <2>5, <2>7, <2>8 DEF Keeps, Legs
<1>5. ASSUME NEW l \in Legs, Timer(l) PROVE Keeps
  <2>1. PICK o \in on_timer([leg[l] EXCEPT !.timers = Tail(@)], Head(leg[l].timers)) :
          leg' = [leg EXCEPT ![l] = o.leg] /\ halted' = o.halt
    BY <1>5 DEF Timer
  <2>2. /\ leg[l].timers # << >> /\ Running
        /\ UNCHANGED <<inbox, order, oprice, orders, connected, disconnects>>
    BY <1>5 DEF Timer, exchange, link
  <2>3. Kept(l, o.leg, inbox[l], order[l], oprice[l], orders[l])
    BY <2>1, <2>2, TimerEnds
  <2>4. leg'[l] = o.leg /\ \A m \in Legs \ {l} : leg'[m] = leg[m]
    BY <1>0, <2>1
  <2> QED
    BY <2>2, <2>3, <2>4, OneLegKeeps
<1>6. ASSUME NEW l \in Legs, Accept(l) PROVE Keeps
  <2>1. \A m \in Legs \ {l} : /\ leg'[m] = leg[m] /\ inbox'[m] = inbox[m]
                              /\ order'[m] = order[m] /\ oprice'[m] = oprice[m]
                              /\ orders'[m] = orders[m]
    BY <1>0, <1>6 DEF Accept, TakeRequest
  <2>2. Running /\ UNCHANGED <<connected, disconnects>>
    BY <1>6 DEF Accept, link
  <2> QED
    BY <1>6, <2>1, <2>2, AcceptEnds, OneLegKeeps
<1>7. ASSUME NEW l \in Legs, Reject(l) PROVE Keeps
  <2>1. \A m \in Legs \ {l} : leg'[m] = leg[m] /\ inbox'[m] = inbox[m]
    BY <1>0, <1>7 DEF Reject, TakeRequest
  <2>2. Running /\ UNCHANGED <<order, oprice, orders, connected, disconnects>>
    BY <1>7 DEF Reject, link, exchange
  <2> QED
    BY <1>7, <2>1, <2>2, RejectEnds, OneLegKeeps
<1>8. ASSUME NEW l \in Legs, Fill(l) \/ Cancel(l) PROVE Keeps
  <2>1. PICK s \in Finals : Final(l, s)
    BY <1>8 DEF Fill, Cancel, Finals
  <2>2. \A m \in Legs \ {l} : order'[m] = order[m] /\ inbox'[m] = inbox[m]
    BY <1>0, <2>1 DEF Final
  <2>3. Running /\ UNCHANGED <<leg, oprice, orders, connected, disconnects>> /\ order'[l] \in Finals
    BY <1>0, <2>1 DEF Final, link
  <2> QED
    BY <2>1, <2>2, <2>3, FinalEnds, OneLegKeeps
<1>9. CASE Disconnect
  <2>1. \A l \in Legs : order[l] \in Finals => order'[l] \in Finals
    BY <1>9 DEF Disconnect, Finals
  <2>2. disconnects' # 0 /\ UNCHANGED <<oprice, orders>>
    <3>1. disconnects \in Nat
      BY ConstantsAssumption DEF EndsInv, Inv, FrameInv
    <3> QED
      BY <1>9, <3>1 DEF Disconnect
  <2> QED
    BY <1>9, <2>1, <2>2, DisconnectEnds DEF Keeps
<1> QED
  BY <1>1, <1>2, <1>3, <1>4, <1>5, <1>6, <1>7, <1>8, <1>9 DEF Next

LEMMA EndsInit == Init => EndsInv
<1> SUFFICES ASSUME Init PROVE EndsInv
  OBVIOUS
<1>1. Inv
  BY InitInv
<1>2. ASSUME NEW l \in Legs
      PROVE  /\ leg[l].state = "UNDEFINED" /\ leg[l].price = Initial(l) /\ leg[l].requests = << >>
             /\ inbox[l] = << >> /\ orders[l] = 0 /\ oprice[l] = Initial(l)
  BY DEF Init, NewLeg
<1>3. AllEnds
  BY <1>2 DEF AllEnds, EndInv, Busy, Retracing
<1> QED
  BY <1>1, <1>3 DEF EndsInv, Init

LEMMA EndsNext == EndsInv /\ [Next]_vars => EndsInv' /\ Keeps
<1> SUFFICES ASSUME EndsInv, [Next]_vars PROVE EndsInv' /\ Keeps
  OBVIOUS
<1>1. Keeps
  BY NextKeeps
<1>2. Inv'
  BY NextInv DEF EndsInv
<1>3. ASSUME NEW l \in Legs
      PROVE  Retracing(l, leg'[l], oprice'[l]) => order'[Other(l)] \in Finals
  BY <1>1 DEF Keeps, Kept, Other, Legs
<1>4. AllEnds'
  BY <1>1, <1>3 DEF AllEnds, Keeps, Kept, Running
<1> QED
  BY <1>1, <1>2, <1>4 DEF EndsInv, Keeps

\* The legs as they end: what is finished, driven on and retraced, in every reachable
\* state.
THEOREM EndsInvariance == Spec => []EndsInv
  BY EndsInit, EndsNext, PTL DEF Spec

\* The buy order never rests at or above the sell order, although each is moved towards
\* the other when the other is filled (Strategy::operator()(OrderUpdate)), for all prices
\* and wherever fills, retries, reordering and lost connections cross: a leg gets its
\* retraced price only after the order of the other has left the market.
THEOREM NeverSelfCrossHolds == Spec => []NeverSelfCross
<1>1. EndsInv => NeverSelfCross
  <2> SUFFICES ASSUME EndsInv, \A l \in Legs : order[l] = "working"
               PROVE  oprice["low"] < oprice["high"]
    BY DEF NeverSelfCross
  <2>1. \A l \in Legs : Other(l) \in Legs
    BY DEF Other, Legs
  <2>2. \A l \in Legs : oprice[l] = Initial(l)
    BY <2>1, LegFacts DEF Retracing, Finals
  <2>3. oprice["low"] = 3 * price_low /\ oprice["high"] = 3 * price_high
    BY <2>2 DEF Initial, Legs
  <2> QED
    BY <2>3, ConstantsAssumption
<1> QED
  BY <1>1, EndsInvariance, PTL

\* As long as the link has held, a leg in CREATING or CHANGING has something under way.
LEMMA WaitingIsDriven ==
    ASSUME EndsInv, NEW l \in Legs, Running, disconnects = 0,
           leg[l].state \in {"CREATING", "CHANGING"}
    PROVE  UnderWay(l)
<1>1. ~Idle(leg[l]) \/ ~NoAck(inbox[l])
  BY LegFacts DEF Busy
<1>2. ~NoAck(inbox[l]) => AckAt(l) # {}
  BY LegFacts DEF NoAck, AckAt
<1> QED
  BY <1>1, <1>2 DEF Idle, UnderWay

\* A finished leg stays finished, except through the ack of a request that was accepted
\* before the fill and overtaken by it; with events in order there is no such ack.
THEOREM FinishedIsFinalHolds == Spec => FinishedIsFinal
<1>1. EndsInv /\ [Next]_vars =>
        [\A l \in Legs : finished(leg[l]) =>
            \/ finished(leg[l])' \/ ~Running'
            \/ Reordered /\ \E i \in AckAt(l) : inbox[l][i].ack.result = "ACCEPTED"]_vars
  BY EndsNext DEF Keeps, Kept, FinishedStays, finished, Running
<1> QED
  BY <1>1, EndsInvariance, PTL DEF Spec, FinishedIsFinal

-----------------------------------------------------------------------------
(***************************************************************************)
(* The repricing of the other leg is never dropped.                        *)
(***************************************************************************)

NoRefusal(q) == \A i \in 1..Len(q) : q[i].event = "ack" => q[i].ack.result = "ACCEPTED"

\* A leg that still wants its first price has never asked for another, and once it has
\* an order nothing but the acceptance of the create is under way.
PriceInv(l, g, q, op, n) ==
    g.price = Initial(l) =>
        /\ op = Initial(l) /\ \A k \in DOMAIN g.requests : g.requests[k].price = Initial(l)
        /\ n = 1 => Idle(g) /\ NoRefusal(q)

\* When a leg is finished the other one wants its retraced price, or its order is done.
Repriced(l) == order[Other(l)] \in Finals \/ leg[Other(l)].price = Retraced(Other(l))

RepriceInv ==
    /\ \A l \in Legs : /\ PriceInv(l, leg[l], inbox[l], oprice[l], orders[l])
                       /\ finished(leg[l]) => Repriced(l)
    /\ Running => \A l \in Legs : leg[l].state # "FAILED"

\* What a step has to establish for a leg that it leaves with g, its events q and its
\* order.
Priced(l, g, q, op, n) ==
    /\ PriceInv(l, g, q, op, n)
    /\ g.price \in {leg[l].price, Retraced(l)}
    /\ halted' = "no" => g.state # "FAILED"
    /\ finished(g) => finished(leg[l]) \/ Repriced(l) \/ leg'[Other(l)].price = Retraced(Other(l))

LEMMA PricesDiffer == \A l \in Legs : Initial(l) # Retraced(l)
BY ConstantsAssumption DEF Initial, Retraced, Legs

\* A leg that the step does not touch.
LEMMA UntouchedPrice ==
    ASSUME RepriceInv, NEW l \in Legs, halted' = "no" => Running
    PROVE  Priced(l, leg[l], inbox[l], oprice[l], orders[l])
BY DEF RepriceInv, Priced

LEMMA MarketPrice ==
    ASSUME EndsInv, RepriceInv, NEW l \in Legs, NEW o \in maybe_submit_order(leg[l]), Running
    PROVE  Priced(l, o.leg, inbox[l], oprice[l], orders[l])
<1>1. CASE o.leg = leg[l]
  BY <1>1, UntouchedPrice
<1>2. CASE leg[l].state = "UNDEFINED" /\ o \in submit_order(leg[l])
  <2>1. Idle(leg[l]) /\ leg[l] \in LegType(l) /\ orders[l] = 0
    BY <1>2, LegFacts DEF DriverInv, OrderInv
  <2>2. o.leg.state = "CREATING" /\ o.leg.price = leg[l].price /\ Asks(o.leg)
    BY <1>2, <2>1, SubmitAsks
  <2>3. PriceInv(l, o.leg, inbox[l], oprice[l], orders[l])
    <3>1. PriceInv(l, leg[l], inbox[l], oprice[l], orders[l])
      BY DEF RepriceInv
    <3> QED
      BY <2>1, <2>2, <3>1 DEF PriceInv, Asks
  <2> QED
    BY <2>2, <2>3 DEF Priced, finished
<1> QED
  BY <1>1, <1>2 DEF maybe_submit_order, Returns

\* An acceptance at the wanted price settles the leg.
LEMMA AckSettles ==
    ASSUME NEW l \in Legs, NEW g \in LegType(l), Idle(g), NEW ack \in Acks(l),
           ack.result = "ACCEPTED", ack.price = g.price, NEW o \in on_order_ack(g, ack)
    PROVE  Idle(o.leg)
<1> DEFINE w == [g EXCEPT !.state = "WAITING"]
<1>1. Idle(w)
  BY DEF LegType, Idle
<1>2. o.leg = g \/ o.leg = w
  BY DEF on_order_ack, handle_success, settle, Asserted, Returns, Dies
<1> QED
  BY <1>1, <1>2

LEMMA AckPrice ==
    ASSUME EndsInv, RepriceInv, NEW l \in Legs, NEW i \in DOMAIN inbox[l],
           inbox[l][i].event = "ack", NEW o \in on_order_ack(leg[l], inbox[l][i].ack),
           Running, halted' = o.halt
    PROVE  Priced(l, o.leg, Without(inbox[l], i), oprice[l], orders[l])
<1> DEFINE ack == inbox[l][i].ack
           w == Without(inbox[l], i)
<1>1. i \in 1..Len(inbox[l]) /\ PriceInv(l, leg[l], inbox[l], oprice[l], orders[l])
  BY LegFacts DEF RepriceInv
<1>2. Idle(leg[l]) /\ leg[l] \in LegType(l) /\ ack \in Acks(l)
  <2>1. Idle(leg[l]) /\ leg[l] \in LegType(l)
    BY <1>1, LegFacts DEF DriverInv, NoAck
  <2>2. inbox[l][i] \in Events(l)
    BY <1>1, LegFacts, ElementOfSeq
  <2> QED
    BY <2>1, <2>2, EventCases
<1>3. /\ o.leg.price = leg[l].price /\ Asks(o.leg)
      /\ o.halt = "no" /\ leg[l].state # "FAILED" => o.leg.state # "FAILED"
      /\ o.leg.state = "FINISHED" => leg[l].state = "FINISHED" \/ ack.result = "TOO_LATE"
  BY <1>2, AckAsks
<1>4. NoAck(w)
  BY <1>1, DeliverAck, LegFacts DEF DriverInv
<1>5. PriceInv(l, o.leg, w, oprice[l], orders[l])
  <2> SUFFICES ASSUME leg[l].price = Initial(l)
               PROVE  /\ oprice[l] = Initial(l)
                      /\ \A k \in DOMAIN o.leg.requests : o.leg.requests[k].price = Initial(l)
                      /\ orders[l] = 1 => Idle(o.leg) /\ NoRefusal(w)
    BY <1>3 DEF PriceInv
  <2>1. oprice[l] = Initial(l)
    BY <1>1 DEF PriceInv
  <2>2. \A k \in DOMAIN o.leg.requests : o.leg.requests[k].price = Initial(l)
    BY <1>3 DEF Asks
  <2>3. ASSUME orders[l] = 1 PROVE Idle(o.leg)
    <3>1. ack.result = "ACCEPTED"
      BY <1>1, <2>3 DEF PriceInv, NoRefusal
    <3>2. ack.price = oprice[l]
      BY <1>1, <3>1, LegFacts DEF LegInv, EventInv
    <3> QED
      BY <1>2, <2>1, <3>1, <3>2, AckSettles
  <2>4. NoRefusal(w)
    BY <1>4 DEF NoAck, NoRefusal
  <2> QED
    BY <2>1, <2>2, <2>3, <2>4
<1>6. ack.result = "TOO_LATE" => Repriced(l)
  <2> SUFFICES ASSUME ack.result = "TOO_LATE" PROVE order[Other(l)] \in Finals
    BY DEF Repriced
  <2>1. order[l] \in Finals
    BY <1>1, LegFacts DEF EndInv, Ends
  <2>2. orders[l] = 1
    BY <2>1, LegFacts DEF OrderInv, Finals
  <2>3. leg[l].price # Initial(l)
    BY <1>1, <2>2 DEF PriceInv, NoRefusal
  <2> QED
    BY <2>3, LegFacts DEF Retracing
<1> QED
  BY <1>3, <1>5, <1>6 DEF Priced, RepriceInv, finished, Repriced

LEMMA TimerPrice ==
    ASSUME EndsInv, RepriceInv, NEW l \in Legs, leg[l].timers # << >>,
           NEW o \in on_timer([leg[l] EXCEPT !.timers = Tail(@)], Head(leg[l].timers)), Running
    PROVE  Priced(l, o.leg, inbox[l], oprice[l], orders[l])
<1> DEFINE h == [leg[l] EXCEPT !.timers = Tail(@)]
<1>1. PICK t \in Timers : leg[l].timers = <<t>> /\ leg[l].requests = << >>
  BY LegFacts DEF DriverInv, Driven, Idle
<1>2. Head(leg[l].timers) = t /\ Tail(leg[l].timers) = << >>
  BY <1>1
<1>3. h \in LegType(l) /\ Idle(h) /\ h.state = leg[l].state /\ h.price = leg[l].price
  BY <1>1, <1>2, LegFacts DEF LegType, Idle
<1>4. o \in submit_order_helper(h, t.retry + 1) \/ o \in modify_order_helper(h, t.retry + 1)
  BY <1>2 DEF on_timer
<1> HIDE DEF h
<1>5. Sent(h, o) \/ (h.state \in {"FINISHED", "FAILED"} /\ o.leg = h)
  BY <1>3, <1>4, SubmitHelperAsks, ModifyHelperAsks
<1>6. o.leg.state = leg[l].state /\ o.leg.price = leg[l].price /\ Asks(o.leg)
  BY <1>3, <1>5 DEF Sent, Asks, Idle
<1>7. PriceInv(l, o.leg, inbox[l], oprice[l], orders[l])
  <2>1. ~Idle(leg[l])
    BY DEF Idle
  <2> QED
    BY <1>6, <2>1 DEF RepriceInv, PriceInv, Asks
<1> QED
  BY <1>6, <1>7 DEF Priced, RepriceInv, finished, Repriced

\* Taking an event out of the queue adds no refusal to it.
LEMMA DeliveredRefusal ==
    ASSUME NEW l \in Legs, NEW q \in Seq(Events(l)), NEW i \in 1..Len(q), NoRefusal(q)
    PROVE  NoRefusal(Without(q, i))
<1>1. Len(q) \in Nat
  BY LenProperties
<1>2. /\ Len(Without(q, i)) = Len(q) - 1
      /\ \A j \in 1..(Len(q) - 1) : Without(q, i)[j] = IF j < i THEN q[j] ELSE q[j + 1]
  BY WithoutProperties
<1>3. \A j \in 1..(Len(q) - 1) : j \in 1..Len(q) /\ j + 1 \in 1..Len(q)
  BY <1>1
<1>4. ASSUME NEW j \in 1..(Len(q) - 1)
      PROVE  \E k \in 1..Len(q) : Without(q, i)[j] = q[k]
  BY <1>2, <1>3
<1> HIDE DEF Without
<1> QED
  BY <1>2, <1>4 DEF NoRefusal

\* The handlers of an order update of leg l, for leg m: gs are the legs after that of l
\* has handled it.
LEMMA UpdatePrice ==
    ASSUME EndsInv, RepriceInv, NEW l \in Legs, NEW i \in DOMAIN inbox[l],
           inbox[l][i].event = "update", NEW gs,
           \A m \in Legs : gs[m] = IF m = l THEN leg_order_update(leg[l], inbox[l][i].status)
                                            ELSE leg[m],
           NEW m \in Legs, NEW o \in strategy_order_update(gs, m), Running
    PROVE  /\ PriceInv(m, o.leg, IF m = l THEN Without(inbox[l], i) ELSE inbox[m],
                       oprice[m], orders[m])
           /\ o.leg.price \in {leg[m].price, Retraced(m)}
           /\ o.leg.state # "FAILED"
           /\ finished(o.leg) => finished(gs[m])
           /\ finished(gs[Other(m)]) => o.leg.price = Retraced(m) \/ order[m] \in Finals
<1> DEFINE q == IF m = l THEN Without(inbox[l], i) ELSE inbox[m]
<1>1. i \in 1..Len(inbox[l])
  BY LegFacts
<1>2. ASSUME NEW k \in Legs
      PROVE  /\ gs[k].price = leg[k].price /\ gs[k].requests = leg[k].requests
             /\ gs[k].timers = leg[k].timers /\ gs[k].state \in {leg[k].state, "FINISHED"}
             /\ gs[k] \in LegType(k)
             /\ gs[k].state # leg[k].state => k = l /\ IsFill(inbox[l][i])
  <2>1. leg[k] \in LegType(k)
    BY LegFacts
  <2>2. CASE k # l
    BY <2>1, <2>2
  <2>3. CASE k = l
    BY <2>1, <2>3 DEF leg_order_update, LegType, States, IsFill
  <2> QED
    BY <2>2, <2>3
<1>3. gs[m].state = "FINISHED" => order[m] \in Finals
  BY <1>1, <1>2, LegFacts DEF EndInv, Ends
<1>4. PriceInv(m, gs[m], q, oprice[m], orders[m])
  <2>1. PriceInv(m, leg[m], inbox[m], oprice[m], orders[m])
    BY DEF RepriceInv
  <2>2. NoRefusal(inbox[m]) => NoRefusal(q)
    <3>1. CASE m # l
      BY <3>1
    <3>2. CASE m = l
      BY <1>1, <3>2, LegFacts, DeliveredRefusal
    <3> QED
      BY <3>1, <3>2
  <2> HIDE DEF q
  <2> QED
    BY <1>2, <2>1, <2>2 DEF PriceInv, Idle
<1> HIDE DEF q
<1>5. gs[m].state # "FAILED"
  BY <1>2 DEF RepriceInv
<1>6. CASE o.leg = gs[m] /\ ~(~finished(gs[m]) /\ finished(gs[Other(m)]))
  BY <1>2, <1>3, <1>4, <1>5, <1>6 DEF q, finished
<1>7. CASE ~finished(gs[m]) /\ o \in modify_order(gs[m], Retraced(m))
  <2>1. gs[m].state = "WAITING" => Idle(gs[m])
    BY <1>2, LegFacts DEF DriverInv, Idle
  <2>2. o.leg.price = Retraced(m) /\ o.leg.state \in {gs[m].state, "CHANGING"}
    BY <1>2, <1>7, <2>1, ModifyAsks DEF Prices
  <2>3. PriceInv(m, o.leg, q, oprice[m], orders[m])
    BY <2>2, PricesDiffer DEF PriceInv
  <2> QED
    BY <1>5, <1>7, <2>2, <2>3 DEF q, finished
<1> QED
  BY <1>6, <1>7 DEF strategy_order_update, Returns

\* A request is accepted: if it was for the first price it was the create.
LEMMA AcceptPrice ==
    ASSUME EndsInv, RepriceInv, NEW l \in Legs, Accept(l)
    PROVE  Priced(l, leg'[l], inbox'[l], oprice'[l], orders'[l])
<1> DEFINE r == Head(leg[l].requests)
           h == [leg[l] EXCEPT !.requests = Tail(@)]
           a == Ack(r, "ACCEPTED")
           u == Update("working")
           z == inbox[l] \o <<a, u>>
<1>0. DOMAIN leg = Legs /\ DOMAIN inbox = Legs /\ DOMAIN oprice = Legs
  BY DEF EndsInv, Inv, FrameInv
<1>1. /\ leg[l].requests # << >> /\ leg'[l] = h /\ oprice'[l] = r.price /\ inbox'[l] = z
      /\ Running /\ halted' = halted
  BY <1>0 DEF Accept, TakeRequest
<1>2. r \in Requests(l) /\ Idle(h) /\ h.state = leg[l].state /\ h.price = leg[l].price
  BY <1>1, TheRequest
<1>3. ~Idle(leg[l])
  BY <1>1 DEF Idle
<1>4. r = leg[l].requests[1] /\ 1 \in DOMAIN leg[l].requests
  <2>1. leg[l].requests \in Seq(Requests(l))
    BY LegFacts DEF LegType
  <2> QED
    BY <1>1, <2>1, EmptySeq
<1>5. PriceInv(l, leg[l], inbox[l], oprice[l], orders[l])
  BY DEF RepriceInv
<1>6. NoRefusal(z)
  <2>1. a \in Events(l) /\ u \in Events(l) /\ a.ack.result = "ACCEPTED" /\ u.event = "update"
    BY <1>2 DEF Ack, Update, Events, Acks, Requests, Statuses
  <2>2. NoAck(inbox[l]) /\ inbox[l] \in Seq(Events(l))
    BY <1>3, LegFacts DEF DriverInv
  <2> HIDE DEF a, u
  <2>3. <<a, u>> \in Seq(Events(l)) /\ Len(<<a, u>>) = 2 /\ <<a, u>>[1] = a /\ <<a, u>>[2] = u
    BY <2>1
  <2>4. /\ Len(inbox[l]) \in Nat /\ Len(z) = Len(inbox[l]) + 2
        /\ \A i \in 1..Len(z) : z[i] = IF i <= Len(inbox[l]) THEN inbox[l][i]
                                       ELSE <<a, u>>[i - Len(inbox[l])]
    BY <2>2, <2>3, ConcatProperties, LenProperties
  <2>5. \A i \in 1..Len(z) : \/ i \in 1..Len(inbox[l]) /\ z[i] = inbox[l][i]
                             \/ z[i] = a \/ z[i] = u
    BY <2>3, <2>4
  <2> HIDE DEF z
  <2> QED
    BY <2>1, <2>2, <2>5 DEF NoRefusal, NoAck
<1> HIDE DEF r, h, z
<1>7. PriceInv(l, h, z, r.price, orders'[l])
  BY <1>2, <1>4, <1>5, <1>6 DEF PriceInv, Idle
<1> QED
  BY <1>1, <1>2, <1>7 DEF Priced, RepriceInv, Running, finished, Repriced

LEMMA RejectPrice ==
    ASSUME EndsInv, RepriceInv, NEW l \in Legs, Reject(l)
    PROVE  Priced(l, leg'[l], inbox'[l], oprice[l], orders[l])
<1> DEFINE h == [leg[l] EXCEPT !.requests = Tail(@)]
<1>0. DOMAIN leg = Legs
  BY DEF EndsInv, Inv, FrameInv
<1>1. leg[l].requests # << >> /\ leg'[l] = h /\ Running /\ halted' = halted
  BY <1>0 DEF Reject, TakeRequest
<1>2. Idle(h) /\ h.state = leg[l].state /\ h.price = leg[l].price
  BY <1>1, TheRequest
<1>3. ~Idle(leg[l]) /\ PriceInv(l, leg[l], inbox[l], oprice[l], orders[l])
  BY <1>1 DEF Idle, RepriceInv
<1> HIDE DEF h
<1>4. PriceInv(l, h, inbox'[l], oprice[l], orders[l])
  BY <1>2, <1>3 DEF PriceInv, Idle
<1> QED
  BY <1>1, <1>2, <1>4 DEF Priced, RepriceInv, Running, finished, Repriced

LEMMA FinalPrice ==
    ASSUME EndsInv, RepriceInv, NEW l \in Legs, NEW s \in Finals, Final(l, s)
    PROVE  Priced(l, leg[l], inbox'[l], oprice[l], orders[l])
<1> DEFINE z == Append(inbox[l], Update(s))
<1>0. DOMAIN inbox = Legs
  BY DEF EndsInv, Inv, FrameInv
<1>1. inbox'[l] = z /\ Running
  BY <1>0 DEF Final
<1>2. Update(s) \in Events(l) /\ Update(s).event = "update" /\ inbox[l] \in Seq(Events(l))
  BY LegFacts DEF Update, Events, Statuses, Finals
<1>3. NoRefusal(inbox[l]) => NoRefusal(z)
  <2>1. \A i \in 1..Len(z) : \/ i \in 1..Len(inbox[l]) /\ z[i] = inbox[l][i]
                             \/ i = Len(inbox[l]) + 1 /\ z[i] = Update(s)
    BY <1>2, SendOne
  <2> HIDE DEF z
  <2> QED
    BY <1>2, <2>1 DEF NoRefusal
<1> HIDE DEF z
<1>4. PriceInv(l, leg[l], z, oprice[l], orders[l])
  BY <1>3 DEF RepriceInv, PriceInv
<1> QED
  BY <1>1, <1>4 DEF Priced, RepriceInv

LEMMA DisconnectPrice ==
    ASSUME EndsInv, RepriceInv, NEW l \in Legs, Disconnect
    PROVE  Priced(l, leg'[l], inbox'[l], oprice[l], orders[l])
<1> DEFINE h == [leg[l] EXCEPT !.requests = << >>]
<1>1. leg'[l] = h /\ inbox'[l] = << >> /\ Running /\ halted' = halted
  BY DEF Disconnect
<1>2. /\ h.state = leg[l].state /\ h.price = leg[l].price /\ h.requests = << >>
      /\ h.timers = leg[l].timers
  BY LegFacts DEF LegType
<1>3. PriceInv(l, leg[l], inbox[l], oprice[l], orders[l])
  BY DEF RepriceInv
<1> HIDE DEF h
<1>4. NoRefusal(<< >>)
  BY DEF NoRefusal
<1>5. PriceInv(l, h, << >>, oprice[l], orders[l])
  BY <1>2, <1>3, <1>4 DEF PriceInv, Idle
<1> QED
  BY <1>1, <1>2, <1>5 DEF Priced, RepriceInv, Running, finished, Repriced

AllPriced == \A l \in Legs : Priced(l, leg'[l], inbox'[l], oprice'[l], orders'[l])

LEMMA OneLegPriced ==
    ASSUME EndsInv, RepriceInv, NEW l \in Legs,
           Priced(l, leg'[l], inbox'[l], oprice'[l], orders'[l]),
           \A m \in Legs \ {l} : /\ leg'[m] = leg[m] /\ inbox'[m] = inbox[m]
                                 /\ oprice'[m] = oprice[m] /\ orders'[m] = orders[m],
           Running
    PROVE  AllPriced
<1>1. ASSUME NEW m \in Legs \ {l}
      PROVE  Priced(m, leg'[m], inbox'[m], oprice'[m], orders'[m])
  BY <1>1, UntouchedPrice
<1> QED
  BY <1>1 DEF AllPriced

LEMMA NextPriced ==
    ASSUME EndsInv, RepriceInv, [Next]_vars PROVE AllPriced
<1>0. DOMAIN leg = Legs /\ DOMAIN inbox = Legs /\ DOMAIN order = Legs
      /\ DOMAIN oprice = Legs /\ DOMAIN orders = Legs
  BY DEF EndsInv, Inv, FrameInv
<1>1. CASE Ready \/ MarketData \/ \E open \in BOOLEAN : MarketStatus(open)
  <2>1. MarketHandlers /\ Running /\ UNCHANGED <<inbox, oprice, orders>>
    BY <1>1 DEF Ready, MarketData, MarketStatus, exchange
  <2>2. PICK h \in maybe_submit_order(leg["high"]) :
        \E k \in (IF h.halt = "no" THEN maybe_submit_order(leg["low"]) ELSE Returns(leg["low"])) :
          leg' = [l \in Legs |-> IF l = "high" THEN h.leg ELSE k.leg]
    BY <2>1 DEF MarketHandlers
  <2>3. PICK k \in (IF h.halt = "no" THEN maybe_submit_order(leg["low"]) ELSE Returns(leg["low"])) :
          leg' = [l \in Legs |-> IF l = "high" THEN h.leg ELSE k.leg]
    BY <2>2
  <2>4. leg'["high"] = h.leg /\ leg'["low"] = k.leg
    BY <2>3 DEF Legs
  <2>5. Priced("high", h.leg, inbox["high"], oprice["high"], orders["high"])
    BY <2>1, MarketPrice DEF Legs
  <2>6. Priced("low", k.leg, inbox["low"], oprice["low"], orders["low"])
    <3>1. CASE k \in maybe_submit_order(leg["low"])
      BY <2>1, <3>1, MarketPrice DEF Legs
    <3>2. CASE k.leg = leg["low"]
      BY <2>1, <3>2, UntouchedPrice DEF Legs
    <3> QED
      BY <2>3, <3>1, <3>2 DEF Returns
  <2> QED
    BY <2>1, <2>4, <2>5, <2>6 DEF AllPriced, Legs
<1>2. CASE AddMarket \/ Signal \/ Stopped \/ Connect \/ UNCHANGED vars
  <2>1. UNCHANGED <<leg, inbox, oprice, orders>> /\ (halted' = "no" => Running)
    BY <1>2 DEF AddMarket, Signal, Stopped, Connect, vars, exchange, link, Running
  <2> QED
    BY <2>1, UntouchedPrice DEF AllPriced
<1>3. ASSUME NEW l \in Legs, OrderAck(l) PROVE AllPriced
  <2>1. PICK i \in DOMAIN inbox[l] :
          /\ inbox[l][i].event = "ack" /\ inbox' = [inbox EXCEPT ![l] = Without(@, i)]
          /\ \E o \in on_order_ack(leg[l], inbox[l][i].ack) :
                leg' = [leg EXCEPT ![l] = o.leg] /\ halted' = o.halt
    BY <1>3 DEF OrderAck
  <2>2. PICK o \in on_order_ack(leg[l], inbox[l][i].ack) :
          leg' = [leg EXCEPT ![l] = o.leg] /\ halted' = o.halt
    BY <2>1
  <2>3. Running /\ UNCHANGED <<oprice, orders>>
    BY <1>3 DEF OrderAck, exchange
  <2>4. Priced(l, o.leg, Without(inbox[l], i), oprice[l], orders[l])
    BY <2>1, <2>2, <2>3, AckPrice
  <2>5. leg'[l] = o.leg /\ inbox'[l] = Without(inbox[l], i)
    BY <1>0, <2>1, <2>2
  <2>6. \A m \in Legs \ {l} : leg'[m] = leg[m] /\ inbox'[m] = inbox[m]
    BY <1>0, <2>1, <2>2
  <2> QED
    BY <2>3, <2>4, <2>5, <2>6, OneLegPriced
<1>4. ASSUME NEW l \in Legs, OrderUpdate(l) PROVE AllPriced
  <2>1. PICK i \in DOMAIN inbox[l] :
          /\ inbox[l][i].event = "update" /\ inbox' = [inbox EXCEPT ![l] = Without(@, i)]
          /\ LET gs == [leg EXCEPT ![l] = leg_order_update(@, inbox[l][i].status)]
             IN  \E h \in strategy_order_update(gs, "high"), k \in strategy_order_update(gs, "low") :
                  leg' = [m \in Legs |-> IF m = "high" THEN h.leg ELSE k.leg]
    BY <1>4 DEF OrderUpdate
  <2> DEFINE gs == [leg EXCEPT ![l] = leg_order_update(@, inbox[l][i].status)]
             q(m) == IF m = l THEN Without(inbox[l], i) ELSE inbox[m]
  <2>2. PICK h \in strategy_order_update(gs, "high"), k \in strategy_order_update(gs, "low") :
          leg' = [m \in Legs |-> IF m = "high" THEN h.leg ELSE k.leg]
    BY <2>1
  <2>3. Running /\ UNCHANGED <<oprice, orders, order>>
    BY <1>4 DEF OrderUpdate, exchange
  <2>4. /\ \A m \in Legs : gs[m] = IF m = l THEN leg_order_update(leg[l], inbox[l][i].status)
                                            ELSE leg[m]
        /\ \A m \in Legs : inbox'[m] = q(m)
    BY <1>0, <2>1
  <2>5. leg'["high"] = h.leg /\ leg'["low"] = k.leg
    BY <2>2 DEF Legs
  <2> HIDE DEF gs
  <2>6. ASSUME NEW m \in Legs
        PROVE  /\ PriceInv(m, leg'[m], q(m), oprice[m], orders[m])
               /\ leg'[m].price \in {leg[m].price, Retraced(m)}
               /\ leg'[m].state # "FAILED"
               /\ finished(leg'[m]) => finished(gs[m])
               /\ finished(gs[Other(m)]) => leg'[m].price = Retraced(m) \/ order[m] \in Finals
    <3>1. PICK x \in strategy_order_update(gs, m) : leg'[m] = x.leg
      BY <2>5 DEF Legs
    <3> QED
      BY <2>1, <2>3, <2>4, <3>1, UpdatePrice
  <2>7. \A m \in Legs : Other(m) \in Legs /\ Other(Other(m)) = m
    BY DEF Other, Legs
  <2> HIDE DEF q
  <2>8. ASSUME NEW m \in Legs PROVE Priced(m, leg'[m], q(m), oprice[m], orders[m])
    <3>1. finished(leg'[m]) => leg'[Other(m)].price = Retraced(Other(m)) \/ order[Other(m)] \in Finals
      BY <2>6, <2>7
    <3> QED
      BY <2>6, <3>1 DEF Priced, Repriced
  <2> QED
    BY <2>3, <2>4, <2>8 DEF AllPriced
<1>5. ASSUME NEW l \in Legs, Timer(l) PROVE AllPriced
  <2>1. PICK o \in on_timer([leg[l] EXCEPT !.timers = Tail(@)], Head(leg[l].timers)) :
          leg' = [leg EXCEPT ![l] = o.leg]
    BY <1>5 DEF Timer
  <2>2. leg[l].timers # << >> /\ Running /\ UNCHANGED <<inbox, oprice, orders>>
    BY <1>5 DEF Timer, exchange
  <2>3. Priced(l, o.leg, inbox[l], oprice[l], orders[l])
    BY <2>1, <2>2, TimerPrice
  <2>4. leg'[l] = o.leg /\ \A m \in Legs \ {l} : leg'[m] = leg[m]
    BY <1>0, <2>1
  <2> QED
    BY <2>2, <2>3, <2>4, OneLegPriced
<1>6. ASSUME NEW l \in Legs, Accept(l) PROVE AllPriced
  <2>1. /\ Running
        /\ \A m \in Legs \ {l} : /\ leg'[m] = leg[m] /\ inbox'[m] = inbox[m]
                                 /\ oprice'[m] = oprice[m] /\ orders'[m] = orders[m]
    BY <1>0, <1>6 DEF Accept, TakeRequest
  <2> QED
    BY <1>6, <2>1, AcceptPrice, OneLegPriced
<1>7. ASSUME NEW l \in Legs, Reject(l) PROVE AllPriced
  <2>1. /\ Running /\ UNCHANGED <<oprice, orders>>
        /\ \A m \in Legs \ {l} : leg'[m] = leg[m] /\ inbox'[m] = inbox[m]
    BY <1>0, <1>7 DEF Reject, TakeRequest, exchange
  <2> QED
    BY <1>7, <2>1, RejectPrice, OneLegPriced
<1>8. ASSUME NEW l \in Legs, Fill(l) \/ Cancel(l) PROVE AllPriced
  <2>1. PICK s \in Finals : Final(l, s)
    BY <1>8 DEF Fill, Cancel, Finals
  <2>2. /\ Running /\ UNCHANGED <<leg, oprice, orders>>
        /\ \A m \in Legs \ {l} : inbox'[m] = inbox[m]
    BY <1>0, <2>1 DEF Final
  <2> QED
    BY <2>1, <2>2, FinalPrice, OneLegPriced
<1>9. CASE Disconnect
  <2>1. UNCHANGED <<oprice, orders>>
    BY <1>9 DEF Disconnect
  <2> QED
    BY <1>9, <2>1, DisconnectPrice DEF AllPriced
<1> QED
  BY <1>1, <1>2, <1>3, <1>4, <1>5, <1>6, <1>7, <1>8, <1>9 DEF Next

LEMMA RepriceNext ==
    ASSUME EndsInv, RepriceInv, [Next]_vars PROVE RepriceInv'
<1>1. AllPriced /\ Keeps
  BY NextPriced, NextKeeps
<1>2. \A l \in Legs : Other(l) \in Legs
  BY DEF Other, Legs
<1>3. ASSUME NEW l \in Legs, finished(leg'[l])
      PROVE  order'[Other(l)] \in Finals \/ leg'[Other(l)].price = Retraced(Other(l))
  <2>1. Repriced(l) \/ leg'[Other(l)].price = Retraced(Other(l))
    BY <1>1, <1>3 DEF AllPriced, Priced, RepriceInv
  <2>2. order[Other(l)] \in Finals => order'[Other(l)] \in Finals
    BY <1>1, <1>2 DEF Keeps
  <2>3. leg'[Other(l)].price \in {leg[Other(l)].price, Retraced(Other(l))}
    BY <1>1, <1>2 DEF AllPriced, Priced
  <2> QED
    BY <2>1, <2>2, <2>3 DEF Repriced
<1>4. \A l \in Legs : PriceInv(l, leg'[l], inbox'[l], oprice'[l], orders'[l])
  BY <1>1 DEF AllPriced, Priced
<1>5. halted' = "no" => \A l \in Legs : leg'[l].state # "FAILED"
  BY <1>1 DEF AllPriced, Priced
<1> QED
  BY <1>3, <1>4, <1>5 DEF RepriceInv, PriceInv, Repriced, Running, finished, NoRefusal

\* Nothing is dropped: as long as the link has held, a leg that says a request was sent,
\* or whose order is not done and not at its retraced price although the other leg is
\* finished, has a request, an ack or a timer under way, and in the second case wants the
\* retraced price; for all prices, any number of retries, debug and release builds and
\* both orders of events.  With the fair gateway this is why OtherRepriced holds.
THEOREM PendingIsDrivenHolds == Spec => []PendingIsDriven
<1>1. Init => RepriceInv
  <2> SUFFICES ASSUME Init PROVE RepriceInv
    OBVIOUS
  <2>1. ASSUME NEW l \in Legs
        PROVE  /\ leg[l].state = "UNDEFINED" /\ leg[l].requests = << >> /\ orders[l] = 0
               /\ oprice[l] = Initial(l)
    BY DEF Init, NewLeg
  <2> QED
    BY <2>1 DEF RepriceInv, PriceInv, finished
<1>2. EndsInv /\ RepriceInv /\ [Next]_vars => RepriceInv'
  BY RepriceNext
<1>3. EndsInv /\ RepriceInv => PendingIsDriven
  <2> SUFFICES ASSUME EndsInv, RepriceInv, Running, disconnects = 0, NEW m \in Legs, Unsettled(m)
               PROVE  /\ UnderWay(m)
                      /\ finished(leg[Other(m)]) => leg[m].price = Retraced(m) \/ order[m] \in Finals
    BY DEF PendingIsDriven, Finals
  <2>1. Other(m) \in Legs /\ Other(Other(m)) = m
    BY DEF Other, Legs
  <2>2. finished(leg[Other(m)]) => leg[m].price = Retraced(m) \/ order[m] \in Finals
    BY <2>1 DEF RepriceInv, Repriced
  <2>3. CASE leg[m].state \in {"CREATING", "CHANGING"}
    BY <2>2, <2>3, WaitingIsDriven
  <2>4. CASE leg[m].state \notin {"CREATING", "CHANGING"}
    <3>1. finished(leg[Other(m)]) /\ order[m] \notin Finals /\ oprice[m] # Retraced(m)
      BY <2>4 DEF Unsettled, Finals
    <3>2. leg[m] \in LegType(m) /\ leg[m].state # "FAILED" /\ leg[m].state # "FINISHED"
      BY <3>1, LegFacts DEF RepriceInv, EndInv
    <3>3. leg[m].state # "UNDEFINED"
      BY <3>1 DEF EndsInv, Inv, StartTogether, Other, Legs, finished
    <3>4. leg[m].state = "WAITING"
      BY <2>4, <3>2, <3>3 DEF LegType, States
    <3>5. oprice[m] = leg[m].price
      BY <3>4, LegFacts DEF OrderInv
    <3> QED
      BY <2>2, <3>1, <3>5
  <2> QED
    BY <2>3, <2>4
<1> QED
  BY <1>1, <1>2, <1>3, EndsInvariance, PTL DEF Spec
=============================================================================
