-------------------------- MODULE Strategy1Proofs --------------------------
(***************************************************************************)
(* Proofs about Strategy1 for every value of its constants: type           *)
(* correctness, OneDriver, OneOrderPerLeg, RestingAtWantedPrice and        *)
(* StartTogether.  They follow from one inductive invariant, Inv, whose    *)
(* core is LegInv: a statement about one leg, its event queue and its      *)
(* order.  Each method of a leg and each event has a lemma that says it    *)
(* preserves LegInv; the step lemma only has to combine them.              *)
(***************************************************************************)
EXTENDS Strategy1, TLAPS, SequenceTheorems

LegType(l) == [state : States, price : Prices(l),
               requests : Seq(Requests(l)), timers : Seq(Timers)]

\* Nothing is under way on the side of the leg.
Idle(g) == g.requests = << >> /\ g.timers = << >>

\* At most one request or timer, of the given kind, is under way.
Driven(l, g, kind) ==
    \/ Idle(g)
    \/ g.timers = << >> /\ \E r \in Requests(l) : r.kind = kind /\ g.requests = <<r>>
    \/ g.requests = << >> /\ \E t \in Timers : t.kind = kind /\ g.timers = <<t>>

NoAck(q) == \A i \in 1..Len(q) : q[i].event # "ack"

\* At most one thing is under way for a leg, its request kind fits the number n
\* of orders created so far, and none before it starts or while it waits.
DriverInv(l, g, q, n) ==
    /\ Driven(l, g, IF n = 0 THEN "create" ELSE "modify")
    /\ ~Idle(g) => NoAck(q)
    /\ \A i, j \in 1..Len(q) : q[i].event = "ack" /\ q[j].event = "ack" => i = j
    /\ g.state \in {"UNDEFINED", "WAITING"} => Idle(g) /\ NoAck(q)

\* What the undelivered events say about the order.
EventInv(q, op, n) ==
    \A i \in 1..Len(q) :
        /\ q[i].event = "update" => n = 1
        /\ q[i].event = "ack" =>
              IF q[i].ack.result = "ACCEPTED" THEN n = 1 /\ op = q[i].ack.price
              ELSE q[i].ack.kind = (IF n = 0 THEN "create" ELSE "modify")

\* The leg's idea of its order.
OrderInv(g, ord, op, n) ==
    /\ n \in {0, 1}
    /\ n = 0 => ord = "none" /\ g.state \in {"UNDEFINED", "CREATING", "FAILED"}
    /\ g.state = "UNDEFINED" => n = 0
    /\ g.state = "WAITING" => op = g.price

LegInv(l, g, q, ord, op, n) ==
    /\ g \in LegType(l) /\ q \in Seq(Events(l))
    /\ ord \in Statuses \union {"none"} /\ op \in Prices(l)
    /\ DriverInv(l, g, q, n) /\ EventInv(q, op, n) /\ OrderInv(g, ord, op, n)

FrameInv ==
    /\ created \in BOOLEAN
    /\ market \in [ready : BOOLEAN, open : BOOLEAN]
    /\ DOMAIN leg = Legs /\ DOMAIN inbox = Legs /\ DOMAIN order = Legs
    /\ DOMAIN oprice = Legs /\ DOMAIN orders = Legs
    /\ connected \in BOOLEAN
    /\ disconnects \in 0..MaxDisconnects
    /\ halted \in Halts

AllLegs == \A l \in Legs : LegInv(l, leg[l], inbox[l], order[l], oprice[l], orders[l])

Inv == FrameInv /\ AllLegs /\ StartTogether

-----------------------------------------------------------------------------
(***************************************************************************)
(* Event queues.                                                           *)
(***************************************************************************)

\* An event of a leg's queue is an ack or an update, with the fields of its kind.
LEMMA EventCases ==
    ASSUME NEW l \in Legs, NEW e \in Events(l)
    PROVE  \/ e.event = "ack" /\ e.ack \in Acks(l)
           \/ e.event = "update" /\ e.status \in Statuses
  BY DEF Events

\* Without(q, i) is q with the i-th element left out.
LEMMA WithoutProperties ==
    ASSUME NEW S, NEW q \in Seq(S), NEW i \in 1..Len(q)
    PROVE  /\ Without(q, i) \in Seq(S)
           /\ Len(Without(q, i)) = Len(q) - 1
           /\ \A j \in 1..(Len(q) - 1) : Without(q, i)[j] = IF j < i THEN q[j] ELSE q[j + 1]
<1>1. Len(q) \in Nat /\ q \in [1..Len(q) -> S]
  BY LenProperties
<1>2. Without(q, i) \in [1..(Len(q) - 1) -> S]
  BY <1>1 DEF Without
<1>3. Len(q) - 1 \in Nat
  BY <1>1
<1>4. Without(q, i) \in Seq(S)
  BY <1>2, <1>3, SeqDef
<1>5. Len(Without(q, i)) = Len(q) - 1
  BY <1>2, <1>3, <1>4, LenProperties
<1> QED
  BY <1>1, <1>4, <1>5 DEF Without

\* Delivering an ack leaves a queue without acks.
LEMMA DeliverAck ==
    ASSUME NEW l \in Legs, NEW q \in Seq(Events(l)), NEW i \in 1..Len(q),
           q[i].event = "ack",
           \A j, k \in 1..Len(q) : q[j].event = "ack" /\ q[k].event = "ack" => j = k
    PROVE  NoAck(Without(q, i))
<1>1. Len(q) \in Nat
  BY LenProperties
<1>2. /\ Len(Without(q, i)) = Len(q) - 1
      /\ \A j \in 1..(Len(q) - 1) : Without(q, i)[j] = IF j < i THEN q[j] ELSE q[j + 1]
  BY WithoutProperties
<1>3. SUFFICES ASSUME NEW j \in 1..(Len(q) - 1) PROVE Without(q, i)[j].event # "ack"
  BY <1>2 DEF NoAck
<1>4. CASE j < i
  <2>1. Without(q, i)[j] = q[j] /\ j \in 1..Len(q) /\ j # i
    BY <1>1, <1>2, <1>4
  <2> QED
    BY <2>1
<1>5. CASE ~(j < i)
  <2>1. Without(q, i)[j] = q[j + 1] /\ j + 1 \in 1..Len(q) /\ j + 1 # i
    BY <1>1, <1>2, <1>5
  <2> QED
    BY <2>1
<1> QED
  BY <1>4, <1>5

\* Delivering an event keeps what is known of the others.
LEMMA DeliverKeeps ==
    ASSUME NEW l \in Legs, NEW q \in Seq(Events(l)), NEW i \in 1..Len(q),
           NEW op, NEW n
    PROVE  /\ EventInv(q, op, n) => EventInv(Without(q, i), op, n)
           /\ NoAck(q) => NoAck(Without(q, i))
           /\ (\A j, k \in 1..Len(q) : q[j].event = "ack" /\ q[k].event = "ack" => j = k) =>
              (\A j, k \in 1..Len(Without(q, i)) :
                  Without(q, i)[j].event = "ack" /\ Without(q, i)[k].event = "ack" => j = k)
<1>1. Len(q) \in Nat
  BY LenProperties
<1> DEFINE w == Without(q, i)
           src(j) == IF j < i THEN j ELSE j + 1
<1>2. Len(w) = Len(q) - 1
  BY WithoutProperties
<1>3. \A j \in 1..Len(w) : src(j) \in 1..Len(q) /\ w[j] = q[src(j)]
  BY <1>1, <1>2, WithoutProperties
<1>4. \A j, k \in 1..Len(w) : src(j) = src(k) => j = k
  BY <1>1, <1>2
<1> HIDE DEF w, src
<1>5. EventInv(q, op, n) => EventInv(w, op, n)
  BY <1>3 DEF EventInv
<1>6. NoAck(q) => NoAck(w)
  BY <1>3 DEF NoAck
<1>7. (\A j, k \in 1..Len(q) : q[j].event = "ack" /\ q[k].event = "ack" => j = k) =>
      (\A j, k \in 1..Len(w) : w[j].event = "ack" /\ w[k].event = "ack" => j = k)
  BY <1>3, <1>4
<1> QED
  BY <1>5, <1>6, <1>7 DEF w

\* Sending one event adds it at the end.
LEMMA SendOne ==
    ASSUME NEW l \in Legs, NEW q \in Seq(Events(l)), NEW e \in Events(l)
    PROVE  /\ Append(q, e) \in Seq(Events(l))
           /\ Len(q) \in Nat
           /\ Len(Append(q, e)) = Len(q) + 1
           /\ \A i \in 1..(Len(q) + 1) : Append(q, e)[i] = IF i <= Len(q) THEN q[i] ELSE e
  BY LenProperties

-----------------------------------------------------------------------------
(***************************************************************************)
(* The methods of a leg.                                                   *)
(***************************************************************************)

\* handle_retry arms a timer of its kind below MaxRetries, or stops the process.
LEMMA HandleRetry ==
    ASSUME NEW l \in Legs, NEW g \in LegType(l), Idle(g),
           NEW kind \in Kinds, NEW n \in 0..MaxRetries,
           NEW o \in handle_retry(g, kind, n)
    PROVE  /\ o.leg \in LegType(l) /\ o.halt \in Halts
           /\ o.leg.state = g.state /\ o.leg.price = g.price
           /\ Driven(l, o.leg, kind)
<1> DEFINE t == [kind |-> kind, retry |-> n]
<1>1. \/ o = [leg |-> g, halt |-> "assert"]
      \/ o = [leg |-> g, halt |-> "retries"]
      \/ n < MaxRetries /\ o = [leg |-> [g EXCEPT !.timers = Append(@, t)], halt |-> "no"]
  BY ConstantsAssumption DEF handle_retry, Asserted, Returns, Dies
<1>2. CASE o.leg = g /\ o.halt \in Halts
  BY <1>2 DEF Driven
<1>3. CASE n < MaxRetries /\ o = [leg |-> [g EXCEPT !.timers = Append(@, t)], halt |-> "no"]
  <2>1. t \in Timers /\ t.kind = kind
    BY <1>3, ConstantsAssumption DEF Timers
  <2> HIDE DEF t
  <2>2. Append(g.timers, t) = <<t>> /\ <<t>> \in Seq(Timers)
    BY <2>1 DEF Idle
  <2>3. o.leg = [g EXCEPT !.timers = <<t>>] /\ o.halt = "no"
    BY <1>3, <2>2
  <2> QED
    BY <2>1, <2>2, <2>3 DEF LegType, Driven, Idle, Halts
<1> QED
  BY <1>1, <1>2, <1>3 DEF Halts

\* The send of both helpers adds at most one request or timer.
LEMMA TrySend ==
    ASSUME NEW l \in Legs, NEW g \in LegType(l), Idle(g),
           NEW kind \in Kinds, NEW n \in 0..MaxRetries,
           NEW o \in try_send(g, kind, n)
    PROVE  /\ o.leg \in LegType(l) /\ o.halt \in Halts
           /\ o.leg.state = g.state /\ o.leg.price = g.price
           /\ Driven(l, o.leg, kind)
<1> DEFINE r == [kind |-> kind, price |-> g.price, retry |-> n]
<1>1. CASE o \in handle_retry(g, kind, n)
  BY <1>1, HandleRetry
<1>2. CASE o = [leg |-> g, halt |-> "no"]
  BY <1>2 DEF Driven, Halts
<1>3. CASE o = [leg |-> [g EXCEPT !.requests = Append(@, r)], halt |-> "no"]
  <2>1. r \in Requests(l) /\ r.kind = kind
    BY DEF Requests, LegType
  <2> HIDE DEF r
  <2>2. Append(g.requests, r) = <<r>> /\ <<r>> \in Seq(Requests(l))
    BY <2>1 DEF Idle
  <2>3. o.leg = [g EXCEPT !.requests = <<r>>] /\ o.halt = "no"
    BY <1>3, <2>2
  <2> QED
    BY <2>1, <2>2, <2>3 DEF LegType, Driven, Idle, Halts
<1> QED
  BY <1>1, <1>2, <1>3 DEF try_send, Returns

\* submit_order_helper, whether called to start or by a timer.
LEMMA SubmitOrderHelper ==
    ASSUME NEW l \in Legs, NEW g \in LegType(l), Idle(g),
           NEW n \in 0..MaxRetries, NEW o \in submit_order_helper(g, n)
    PROVE  /\ o.leg \in LegType(l) /\ o.halt \in Halts
           /\ o.leg.state = g.state /\ o.leg.price = g.price
           /\ Driven(l, o.leg, "create")
<1>1. CASE o \in try_send(g, "create", n)
  BY <1>1, TrySend DEF Kinds
<1>2. CASE o = [leg |-> g, halt |-> "assert"]
  BY <1>2 DEF Driven, Halts
<1> QED
  BY <1>1, <1>2 DEF submit_order_helper, Asserted, Dies

\* modify_order_helper, whether called directly or by a timer.
LEMMA ModifyOrderHelper ==
    ASSUME NEW l \in Legs, NEW g \in LegType(l), Idle(g),
           NEW n \in 0..MaxRetries, NEW o \in modify_order_helper(g, n)
    PROVE  /\ o.leg \in LegType(l) /\ o.halt \in Halts
           /\ o.leg.state = g.state /\ o.leg.price = g.price
           /\ Driven(l, o.leg, "modify")
<1>1. CASE o \in try_send(g, "modify", n)
  BY <1>1, TrySend DEF Kinds
<1>2. CASE o.leg = g /\ o.halt \in {"no", "unexpected"}
  BY <1>2 DEF Driven, Halts
<1> QED
  BY <1>1, <1>2 DEF modify_order_helper, Returns, Dies

-----------------------------------------------------------------------------
(***************************************************************************)
(* Each event preserves LegInv.                                            *)
(***************************************************************************)

\* What LegInv says about an idle leg whose queue has no ack: enough to
\* re-establish it after any method that leaves at most one driver.
LEMMA Reestablish ==
    ASSUME NEW l \in Legs, NEW q \in Seq(Events(l)), NEW ord, NEW op, NEW n,
           NEW h, ord \in Statuses \union {"none"}, op \in Prices(l), n \in {0, 1},
           n = 0 => ord = "none",
           NoAck(q), EventInv(q, op, n),
           h \in LegType(l),
           Driven(l, h, IF n = 0 THEN "create" ELSE "modify"),
           h.state \in {"UNDEFINED", "WAITING"} => Idle(h),
           n = 0 => h.state \in {"UNDEFINED", "CREATING", "FAILED"},
           h.state = "UNDEFINED" => n = 0,
           h.state = "WAITING" => op = h.price
    PROVE  LegInv(l, h, q, ord, op, n)
<1>1. DriverInv(l, h, q, n)
  BY DEF DriverInv, NoAck
<1>2. OrderInv(h, ord, op, n)
  BY DEF OrderInv
<1> QED
  BY <1>1, <1>2 DEF LegInv

\* The submission of an order, from the market handlers.
LEMMA SubmitStep ==
    ASSUME NEW l \in Legs, NEW g, NEW q, NEW ord, NEW op, NEW n,
           LegInv(l, g, q, ord, op, n), g.state = "UNDEFINED",
           NEW o \in submit_order(g)
    PROVE  /\ LegInv(l, o.leg, q, ord, op, n) /\ o.halt \in Halts
           /\ o.leg.state = "CREATING"
<1> DEFINE c == [g EXCEPT !.state = "CREATING"]
<1>1. /\ g \in LegType(l) /\ q \in Seq(Events(l)) /\ Idle(g) /\ NoAck(q) /\ n = 0
      /\ ord \in Statuses \union {"none"} /\ op \in Prices(l) /\ EventInv(q, op, n)
      /\ ord = "none"
  BY DEF LegInv, DriverInv, OrderInv
<1>2. c \in LegType(l) /\ Idle(c) /\ c.state = "CREATING"
  BY <1>1 DEF LegType, States, Idle
<1>3. o \in submit_order_helper(c, 0)
  BY DEF submit_order, Asserted
<1>4. 0 \in 0..MaxRetries
  BY ConstantsAssumption
<1> HIDE DEF c
<1>5. /\ o.leg \in LegType(l) /\ o.halt \in Halts /\ o.leg.state = "CREATING"
      /\ Driven(l, o.leg, "create")
  BY <1>2, <1>3, <1>4, SubmitOrderHelper
<1> QED
  BY <1>1, <1>5, Reestablish

\* An ack and its handler.
LEMMA AckStep ==
    ASSUME NEW l \in Legs, NEW g, NEW q, NEW ord, NEW op, NEW n,
           LegInv(l, g, q, ord, op, n), NEW i \in 1..Len(q), q[i].event = "ack",
           NEW o \in on_order_ack(g, q[i].ack)
    PROVE  /\ LegInv(l, o.leg, Without(q, i), ord, op, n) /\ o.halt \in Halts
           /\ o.leg.state # "UNDEFINED" /\ g.state # "UNDEFINED"
<1> DEFINE a == q[i].ack
           w == Without(q, i)
           k == IF n = 0 THEN "create" ELSE "modify"
<1>1. /\ g \in LegType(l) /\ q \in Seq(Events(l)) /\ n \in {0, 1}
      /\ ord \in Statuses \union {"none"} /\ op \in Prices(l) /\ EventInv(q, op, n)
      /\ n = 0 => ord = "none" /\ g.state \in {"UNDEFINED", "CREATING", "FAILED"}
      /\ g.state = "UNDEFINED" => n = 0
  BY DEF LegInv, OrderInv
<1>2. Idle(g) /\ g.state \notin {"UNDEFINED", "WAITING"}
  BY DEF LegInv, DriverInv, NoAck
<1>3. a \in Acks(l)
  BY <1>1, EventCases, ElementOfSeq
<1>4. w \in Seq(Events(l)) /\ NoAck(w) /\ EventInv(w, op, n)
  BY <1>1, WithoutProperties, DeliverAck, DeliverKeeps DEF LegInv, DriverInv
<1>5. IF a.result = "ACCEPTED" THEN n = 1 /\ op = a.price ELSE a.kind = k
  BY <1>1 DEF EventInv
<1>6. a.kind \in Kinds /\ a.retry \in 0..MaxRetries /\ a.price \in Prices(l)
  BY <1>3 DEF Acks
<1>7. 0 \in 0..MaxRetries
  BY ConstantsAssumption
<1>8. o \in on_order_ack(g, a)
  OBVIOUS
<1> HIDE DEF a, w
<1>9. CASE o.leg = g /\ o.halt \in Halts
  <2>1. LegInv(l, g, w, ord, op, n)
    BY <1>1, <1>2, <1>4, Reestablish DEF Driven
  <2> QED
    BY <1>2, <1>9, <2>1 DEF w
<1>10. CASE o \in handle_retry(g, a.kind, a.retry) /\ a.result # "ACCEPTED"
  <2>1. /\ o.leg \in LegType(l) /\ o.halt \in Halts
        /\ o.leg.state = g.state /\ o.leg.price = g.price
        /\ Driven(l, o.leg, k)
    BY <1>1, <1>2, <1>5, <1>6, <1>10, HandleRetry
  <2>2. LegInv(l, o.leg, w, ord, op, n)
    BY <1>1, <1>2, <1>4, <2>1, Reestablish
  <2> QED
    BY <1>2, <2>1, <2>2 DEF w
<1>11. CASE o = [leg |-> [g EXCEPT !.state = "FINISHED"], halt |-> "no"] /\ a.kind = "modify"
            /\ a.result # "ACCEPTED"
  <2>1. o.leg \in LegType(l) /\ Idle(o.leg) /\ o.leg.state = "FINISHED" /\ o.halt \in Halts
    BY <1>1, <1>2, <1>11 DEF LegType, States, Idle, Halts
  <2>2. n = 1
    BY <1>1, <1>5, <1>11
  <2>3. Driven(l, o.leg, k)
    BY <2>1 DEF Driven
  <2>4. LegInv(l, o.leg, w, ord, op, n)
    BY <1>1, <1>4, <2>1, <2>2, <2>3, Reestablish
  <2> QED
    BY <1>2, <2>1, <2>4 DEF w
<1>12. CASE o = [leg |-> [g EXCEPT !.state = "FAILED"], halt |-> "error"]
  <2>1. o.leg \in LegType(l) /\ Idle(o.leg) /\ o.leg.state = "FAILED" /\ o.halt \in Halts
    BY <1>1, <1>2, <1>12 DEF LegType, States, Idle, Halts
  <2>2. LegInv(l, o.leg, w, ord, op, n)
    BY <1>1, <1>4, <2>1, Reestablish DEF Driven
  <2> QED
    BY <1>2, <2>1, <2>2 DEF w
<1>13. CASE o \in settle(g, a.price) /\ a.result = "ACCEPTED"
  <2>1. n = 1 /\ op = a.price
    BY <1>5, <1>13
  <2>2. CASE a.price # g.price
    <3> DEFINE c == [g EXCEPT !.state = "CHANGING"]
    <3>1. c \in LegType(l) /\ Idle(c) /\ c.state = "CHANGING"
      BY <1>1, <1>2 DEF LegType, States, Idle
    <3>2. o \in modify_order_helper(c, 0)
      BY <1>13, <2>2 DEF settle
    <3> HIDE DEF c
    <3>3. /\ o.leg \in LegType(l) /\ o.halt \in Halts /\ o.leg.state = "CHANGING"
          /\ Driven(l, o.leg, "modify")
      BY <1>7, <3>1, <3>2, ModifyOrderHelper
    <3>4. LegInv(l, o.leg, w, ord, op, n)
      BY <1>1, <1>4, <2>1, <3>3, Reestablish
    <3> QED
      BY <1>2, <3>3, <3>4 DEF w
  <2>3. CASE a.price = g.price
    <3>1. o = [leg |-> [g EXCEPT !.state = "WAITING"], halt |-> "no"]
      BY <1>13, <2>3 DEF settle, Returns
    <3>2. /\ o.leg \in LegType(l) /\ Idle(o.leg) /\ o.leg.state = "WAITING"
          /\ o.leg.price = g.price /\ o.halt \in Halts
      BY <1>1, <1>2, <3>1 DEF LegType, States, Idle, Halts
    <3>3. Driven(l, o.leg, k)
      BY <3>2 DEF Driven
    <3>4. LegInv(l, o.leg, w, ord, op, n)
      BY <1>1, <1>4, <2>1, <2>3, <3>2, <3>3, Reestablish
    <3> QED
      BY <1>2, <3>2, <3>4 DEF w
  <2> QED
    BY <2>2, <2>3
<1>14. CASE a.result = "ACCEPTED"
  <2>1. o \in settle(g, a.price) \/ o = [leg |-> g, halt |-> "assert"]
    BY <1>8, <1>14 DEF on_order_ack, handle_success, Asserted, Dies
  <2> QED
    BY <1>9, <1>13, <1>14, <2>1 DEF Halts
<1>15. CASE a.result # "ACCEPTED"
  <2>1. \/ o \in handle_retry(g, a.kind, a.retry)
        \/ o = [leg |-> [g EXCEPT !.state = "FINISHED"], halt |-> "no"] /\ a.kind = "modify"
        \/ o = [leg |-> [g EXCEPT !.state = "FAILED"], halt |-> "error"]
        \/ o = [leg |-> g, halt |-> "assert"]
        \/ o = [leg |-> g, halt |-> "undefined"]
    BY <1>8, <1>15 DEF on_order_ack, handle_failure, Asserted, Dies, Returns
  <2> QED
    BY <1>9, <1>10, <1>11, <1>12, <1>15, <2>1 DEF Halts
<1> QED
  BY <1>14, <1>15

\* An order update: the handler of the leg.
LEMMA UpdateStep ==
    ASSUME NEW l \in Legs, NEW g, NEW q, NEW ord, NEW op, NEW n,
           LegInv(l, g, q, ord, op, n), NEW i \in 1..Len(q), q[i].event = "update"
    PROVE  /\ LegInv(l, leg_order_update(g, q[i].status), Without(q, i), ord, op, n)
           /\ leg_order_update(g, q[i].status).state # "UNDEFINED" /\ g.state # "UNDEFINED"
<1> DEFINE w == Without(q, i)
           h == leg_order_update(g, q[i].status)
<1>1. /\ g \in LegType(l) /\ q \in Seq(Events(l)) /\ EventInv(q, op, n)
      /\ DriverInv(l, g, q, n) /\ OrderInv(g, ord, op, n)
      /\ ord \in Statuses \union {"none"} /\ op \in Prices(l)
  BY DEF LegInv
<1>2. n = 1
  BY <1>1 DEF EventInv
<1>3. /\ w \in Seq(Events(l)) /\ EventInv(w, op, n)
      /\ NoAck(q) => NoAck(w)
      /\ \A j, k \in 1..Len(w) : w[j].event = "ack" /\ w[k].event = "ack" => j = k
  BY <1>1, WithoutProperties, DeliverKeeps DEF DriverInv
<1>4. /\ h \in LegType(l) /\ h.requests = g.requests /\ h.timers = g.timers
      /\ h.price = g.price /\ h.state \in {g.state, "FINISHED"}
  BY <1>1 DEF leg_order_update, LegType, States
<1> HIDE DEF w, h
<1>5. DriverInv(l, h, w, n)
  BY <1>1, <1>2, <1>3, <1>4 DEF DriverInv, Driven, Idle
<1>6. OrderInv(h, ord, op, n)
  BY <1>1, <1>2, <1>4 DEF OrderInv
<1>7. g.state # "UNDEFINED"
  BY <1>1, <1>2 DEF OrderInv
<1>8. LegInv(l, h, w, ord, op, n)
  BY <1>1, <1>3, <1>4, <1>5, <1>6 DEF LegInv
<1> QED
  BY <1>4, <1>7, <1>8 DEF h, w

\* A new price for a leg, from the handler of the strategy.
LEMMA ModifyStep ==
    ASSUME NEW l \in Legs, NEW g, NEW q, NEW ord, NEW op, NEW n,
           LegInv(l, g, q, ord, op, n), NEW o \in modify_order(g, Retraced(l))
    PROVE  /\ LegInv(l, o.leg, q, ord, op, n) /\ o.halt \in Halts
           /\ o.leg.state = "UNDEFINED" <=> g.state = "UNDEFINED"
<1> DEFINE h == [g EXCEPT !.price = Retraced(l)]
           c == [h EXCEPT !.state = "CHANGING"]
<1>1. /\ g \in LegType(l) /\ q \in Seq(Events(l)) /\ EventInv(q, op, n)
      /\ DriverInv(l, g, q, n) /\ OrderInv(g, ord, op, n)
      /\ ord \in Statuses \union {"none"} /\ op \in Prices(l)
  BY DEF LegInv
<1>2. /\ h \in LegType(l) /\ h.requests = g.requests /\ h.timers = g.timers
      /\ h.state = g.state
  BY <1>1 DEF LegType, Prices
<1>3. /\ c \in LegType(l) /\ c.requests = g.requests /\ c.timers = g.timers
      /\ c.state = "CHANGING"
  BY <1>1 DEF LegType, Prices, States
<1>4. \/ o.leg = g /\ o.halt = "no"
      \/ g.state # "WAITING" /\ o.leg = h /\ o.halt \in {"no", "assert"}
      \/ g.state = "WAITING" /\ o \in modify_order_helper(c, 0)
  BY DEF modify_order, Returns, Asserted, Dies
<1>5. 0 \in 0..MaxRetries
  BY ConstantsAssumption
<1> HIDE DEF h, c
<1>6. CASE o.leg = g /\ o.halt = "no"
  BY <1>6 DEF Halts
<1>7. CASE g.state # "WAITING" /\ o.leg = h /\ o.halt \in {"no", "assert"}
  <2>1. DriverInv(l, h, q, n)
    BY <1>1, <1>2 DEF DriverInv, Driven, Idle
  <2>2. OrderInv(h, ord, op, n)
    BY <1>1, <1>2, <1>7 DEF OrderInv
  <2> QED
    BY <1>1, <1>2, <1>7, <2>1, <2>2 DEF LegInv, Halts
<1>8. CASE g.state = "WAITING" /\ o \in modify_order_helper(c, 0)
  <2>1. Idle(c) /\ NoAck(q)
    BY <1>1, <1>3, <1>8 DEF DriverInv, Idle
  <2>2. /\ o.leg \in LegType(l) /\ o.halt \in Halts /\ o.leg.state = "CHANGING"
        /\ Driven(l, o.leg, "modify")
    BY <1>3, <1>5, <1>8, <2>1, ModifyOrderHelper
  <2>3. n = 1
    BY <1>1, <1>8 DEF OrderInv
  <2> QED
    BY <1>1, <1>8, <2>1, <2>2, <2>3, Reestablish
<1> QED
  BY <1>4, <1>6, <1>7, <1>8

\* A retry timer and its handler.
LEMMA TimerStep ==
    ASSUME NEW l \in Legs, NEW g, NEW q, NEW ord, NEW op, NEW n,
           LegInv(l, g, q, ord, op, n), g.timers # << >>,
           NEW o \in on_timer([g EXCEPT !.timers = Tail(@)], Head(g.timers))
    PROVE  /\ LegInv(l, o.leg, q, ord, op, n) /\ o.halt \in Halts
           /\ o.leg.state # "UNDEFINED" /\ g.state # "UNDEFINED"
<1> DEFINE h == [g EXCEPT !.timers = Tail(@)]
           k == IF n = 0 THEN "create" ELSE "modify"
<1>1. /\ g \in LegType(l) /\ q \in Seq(Events(l)) /\ EventInv(q, op, n)
      /\ DriverInv(l, g, q, n) /\ OrderInv(g, ord, op, n)
      /\ ord \in Statuses \union {"none"} /\ op \in Prices(l)
  BY DEF LegInv
<1>2. PICK t \in Timers : t.kind = k /\ g.timers = <<t>> /\ g.requests = << >>
  BY <1>1 DEF DriverInv, Driven, Idle
<1>3. Head(g.timers) = t /\ Tail(g.timers) = << >>
  BY <1>2
<1>4. h \in LegType(l) /\ Idle(h) /\ h.state = g.state /\ h.price = g.price
  BY <1>1, <1>2, <1>3 DEF LegType, Idle
<1>5. ~Idle(g)
  BY DEF Idle
<1>6. NoAck(q) /\ g.state \notin {"UNDEFINED", "WAITING"}
  BY <1>1, <1>5 DEF DriverInv
<1>7. t.retry + 1 \in 0..MaxRetries
  BY ConstantsAssumption DEF Timers
<1>8. IF t.kind = "create" THEN o \in submit_order_helper(h, t.retry + 1)
                           ELSE o \in modify_order_helper(h, t.retry + 1)
  BY <1>3 DEF on_timer
<1> HIDE DEF h
<1>9. /\ o.leg \in LegType(l) /\ o.halt \in Halts
      /\ o.leg.state = g.state /\ o.leg.price = g.price
      /\ Driven(l, o.leg, k)
  BY <1>2, <1>4, <1>7, <1>8, SubmitOrderHelper, ModifyOrderHelper
<1>10. n \in {0, 1} /\ (n = 0 => ord = "none" /\ g.state \in {"UNDEFINED", "CREATING", "FAILED"})
  BY <1>1 DEF OrderInv
<1>11. LegInv(l, o.leg, q, ord, op, n)
  BY <1>1, <1>6, <1>9, <1>10, Reestablish
<1> QED
  BY <1>6, <1>9, <1>11

\* The one request of a leg that has one.
LEMMA OneRequest ==
    ASSUME NEW l \in Legs, NEW g, NEW q, NEW ord, NEW op, NEW n,
           LegInv(l, g, q, ord, op, n), g.requests # << >>
    PROVE  /\ Head(g.requests) \in Requests(l)
           /\ Head(g.requests).kind = (IF n = 0 THEN "create" ELSE "modify")
           /\ [g EXCEPT !.requests = Tail(@)] \in LegType(l)
           /\ Idle([g EXCEPT !.requests = Tail(@)])
           /\ [g EXCEPT !.requests = Tail(@)].state = g.state
           /\ [g EXCEPT !.requests = Tail(@)].price = g.price
           /\ NoAck(q) /\ g.state \notin {"UNDEFINED", "WAITING"}
<1>1. g \in LegType(l) /\ DriverInv(l, g, q, n)
  BY DEF LegInv
<1>2. PICK r \in Requests(l) : /\ r.kind = (IF n = 0 THEN "create" ELSE "modify")
                               /\ g.requests = <<r>> /\ g.timers = << >>
  BY <1>1 DEF DriverInv, Driven, Idle
<1>3. Head(g.requests) = r /\ Tail(g.requests) = << >>
  BY <1>2
<1>4. ~Idle(g)
  BY DEF Idle
<1>5. NoAck(q) /\ g.state \notin {"UNDEFINED", "WAITING"}
  BY <1>1, <1>4 DEF DriverInv
<1> QED
  BY <1>1, <1>2, <1>3, <1>5 DEF LegType, Idle

\* Sending an ack to a leg that has nothing else under way.
LEMMA AckSent ==
    ASSUME NEW l \in Legs, NEW h, NEW q, NEW ord, NEW op, NEW n, NEW r \in Requests(l),
           NEW result \in {"ACCEPTED", "RATE_LIMIT", "TOO_LATE", "OTHER"},
           h \in LegType(l), Idle(h), h.state \notin {"UNDEFINED", "WAITING"},
           q \in Seq(Events(l)), NoAck(q), EventInv(q, op, n), OrderInv(h, ord, op, n),
           ord \in Statuses \union {"none"}, op \in Prices(l),
           IF result = "ACCEPTED" THEN n = 1 /\ op = r.price
                                  ELSE r.kind = (IF n = 0 THEN "create" ELSE "modify")
    PROVE  LegInv(l, h, Append(q, Ack(r, result)), ord, op, n)
<1> DEFINE e == Ack(r, result)
<1>1. /\ e \in Events(l) /\ e.event = "ack" /\ e.ack.result = result
      /\ e.ack.price = r.price /\ e.ack.kind = r.kind
  BY DEF Ack, Events, Acks, Requests
<1> HIDE DEF e
<1>2. /\ Append(q, e) \in Seq(Events(l)) /\ Len(q) \in Nat
      /\ Len(Append(q, e)) = Len(q) + 1
      /\ \A i \in 1..(Len(q) + 1) : Append(q, e)[i] = IF i <= Len(q) THEN q[i] ELSE e
  BY <1>1, SendOne
<1>3. EventInv(Append(q, e), op, n)
  BY <1>1, <1>2 DEF EventInv
<1>4. \A i, j \in 1..Len(Append(q, e)) :
        Append(q, e)[i].event = "ack" /\ Append(q, e)[j].event = "ack" => i = j
  BY <1>2 DEF NoAck
<1>5. DriverInv(l, h, Append(q, e), n)
  BY <1>4 DEF DriverInv, Driven
<1>6. LegInv(l, h, Append(q, e), ord, op, n)
  BY <1>2, <1>3, <1>5 DEF LegInv
<1> QED
  BY <1>6 DEF e

\* Sending an update about an order that exists.
LEMMA UpdateSent ==
    ASSUME NEW l \in Legs, NEW g, NEW q, NEW ord, NEW op, NEW n,
           NEW status \in Statuses, NEW after \in Statuses,
           LegInv(l, g, q, ord, op, n), n = 1
    PROVE  LegInv(l, g, Append(q, Update(status)), after, op, n)
<1> DEFINE e == Update(status)
<1>1. e \in Events(l) /\ e.event = "update"
  BY DEF Update, Events
<1>2. /\ g \in LegType(l) /\ q \in Seq(Events(l)) /\ EventInv(q, op, n)
      /\ DriverInv(l, g, q, n) /\ OrderInv(g, ord, op, n) /\ op \in Prices(l)
  BY DEF LegInv
<1> HIDE DEF e
<1>3. /\ Append(q, e) \in Seq(Events(l)) /\ Len(q) \in Nat
      /\ Len(Append(q, e)) = Len(q) + 1
      /\ \A i \in 1..(Len(q) + 1) : Append(q, e)[i] = IF i <= Len(q) THEN q[i] ELSE e
  BY <1>1, <1>2, SendOne
<1>4. EventInv(Append(q, e), op, n)
  BY <1>1, <1>2, <1>3 DEF EventInv
<1>5. \A i \in 1..Len(Append(q, e)) : Append(q, e)[i].event = "ack" =>
        i \in 1..Len(q) /\ Append(q, e)[i] = q[i]
  BY <1>1, <1>3
<1>6. DriverInv(l, g, Append(q, e), n)
  BY <1>2, <1>5 DEF DriverInv, NoAck
<1>7. OrderInv(g, after, op, n)
  BY <1>2 DEF OrderInv
<1>8. LegInv(l, g, Append(q, e), after, op, n)
  BY <1>2, <1>3, <1>4, <1>6, <1>7 DEF LegInv
<1> QED
  BY <1>8 DEF e

\* The gateway accepts the request of a leg.
LEMMA AcceptStep ==
    ASSUME NEW l \in Legs, NEW g, NEW q, NEW ord, NEW op, NEW n,
           LegInv(l, g, q, ord, op, n), g.requests # << >>
    PROVE  LegInv(l, [g EXCEPT !.requests = Tail(@)],
                  q \o <<Ack(Head(g.requests), "ACCEPTED"), Update("working")>>,
                  "working", Head(g.requests).price,
                  IF Head(g.requests).kind = "create" THEN n + 1 ELSE n)
<1> DEFINE r == Head(g.requests)
           h == [g EXCEPT !.requests = Tail(@)]
<1>1. /\ r \in Requests(l) /\ h \in LegType(l) /\ Idle(h)
      /\ h.state = g.state /\ h.state \notin {"UNDEFINED", "WAITING"} /\ NoAck(q)
      /\ r.kind = (IF n = 0 THEN "create" ELSE "modify")
  <2>1. /\ r \in Requests(l) /\ h \in LegType(l) /\ Idle(h) /\ NoAck(q)
        /\ r.kind = (IF n = 0 THEN "create" ELSE "modify")
    BY OneRequest, ZenonT(30)
  <2>2. h.state = g.state /\ g.state \notin {"UNDEFINED", "WAITING"}
    BY OneRequest
  <2> QED
    BY <2>1, <2>2
<1>2. /\ q \in Seq(Events(l)) /\ EventInv(q, op, n) /\ n \in {0, 1}
  BY DEF LegInv, OrderInv
<1> DEFINE m == IF r.kind = "create" THEN n + 1 ELSE n
           p == Append(q, Ack(r, "ACCEPTED"))
<1>3. m = 1
  BY <1>1, <1>2
<1>4. r.price \in Prices(l)
  BY <1>1 DEF Requests
<1>5. /\ Ack(r, "ACCEPTED") \in Events(l) /\ Update("working") \in Events(l)
  BY <1>1 DEF Ack, Update, Events, Acks, Requests, Statuses
<1> HIDE DEF r, h, m
<1>6. EventInv(q, r.price, m)
  BY <1>1, <1>2, <1>3 DEF EventInv, NoAck
<1>7. OrderInv(h, "working", r.price, m)
  BY <1>1, <1>3 DEF OrderInv
<1>8. LegInv(l, h, p, "working", r.price, m)
  BY <1>1, <1>2, <1>3, <1>4, <1>6, <1>7, AckSent DEF Statuses
<1>9. LegInv(l, h, Append(p, Update("working")), "working", r.price, m)
  BY <1>3, <1>8, UpdateSent DEF Statuses
<1>10. Append(p, Update("working")) = q \o <<Ack(r, "ACCEPTED"), Update("working")>>
  BY <1>2, <1>5
<1> QED
  BY <1>9, <1>10 DEF r, h, m

\* The gateway rejects the request of a leg.
LEMMA RejectStep ==
    ASSUME NEW l \in Legs, NEW g, NEW q, NEW ord, NEW op, NEW n,
           LegInv(l, g, q, ord, op, n), g.requests # << >>,
           NEW e \in {"RATE_LIMIT", "TOO_LATE", "OTHER"}
    PROVE  LegInv(l, [g EXCEPT !.requests = Tail(@)],
                  Append(q, Ack(Head(g.requests), e)), ord, op, n)
<1> DEFINE r == Head(g.requests)
           h == [g EXCEPT !.requests = Tail(@)]
<1>1. /\ r \in Requests(l) /\ h \in LegType(l) /\ Idle(h)
      /\ h.state \notin {"UNDEFINED", "WAITING"} /\ h.state = g.state /\ NoAck(q)
      /\ r.kind = (IF n = 0 THEN "create" ELSE "modify")
  BY OneRequest
<1>2. /\ q \in Seq(Events(l)) /\ EventInv(q, op, n) /\ OrderInv(g, ord, op, n)
      /\ ord \in Statuses \union {"none"} /\ op \in Prices(l)
  BY DEF LegInv
<1> HIDE DEF r, h
<1>3. OrderInv(h, ord, op, n)
  BY <1>1, <1>2 DEF OrderInv
<1>4. LegInv(l, h, Append(q, Ack(r, e)), ord, op, n)
  BY <1>1, <1>2, <1>3, AckSent
<1> QED
  BY <1>4 DEF r, h

\* The connection breaks: the request and the undelivered events are lost.
LEMMA DisconnectStep ==
    ASSUME NEW l \in Legs, NEW g, NEW q, NEW ord, NEW op, NEW n,
           LegInv(l, g, q, ord, op, n)
    PROVE  LegInv(l, [g EXCEPT !.requests = << >>], << >>,
                  IF ord = "working" THEN "canceled" ELSE ord, op, n)
<1> DEFINE h == [g EXCEPT !.requests = << >>]
           after == IF ord = "working" THEN "canceled" ELSE ord
<1>1. /\ g \in LegType(l) /\ DriverInv(l, g, q, n) /\ OrderInv(g, ord, op, n)
      /\ ord \in Statuses \union {"none"} /\ op \in Prices(l)
  BY DEF LegInv
<1>2. /\ h \in LegType(l) /\ h.state = g.state /\ h.price = g.price
      /\ h.timers = g.timers /\ h.requests = << >>
  <2>1. << >> \in Seq(Requests(l))
    BY EmptySeq
  <2> QED
    BY <1>1, <2>1 DEF LegType
<1>3. after \in Statuses \union {"none"}
  BY <1>1 DEF Statuses
<1>4. << >> \in Seq(Events(l)) /\ EventInv(<< >>, op, n) /\ NoAck(<< >>)
  BY DEF EventInv, NoAck
<1> HIDE DEF h
<1>5. Driven(l, h, IF n = 0 THEN "create" ELSE "modify")
  BY <1>1, <1>2 DEF DriverInv, Driven, Idle
<1>6. h.state \in {"UNDEFINED", "WAITING"} => Idle(h)
  BY <1>1, <1>2 DEF DriverInv, Idle
<1>7. n \in {0, 1} /\ (n = 0 => after = "none")
  BY <1>1 DEF OrderInv
<1>8. LegInv(l, h, << >>, after, op, n)
  BY <1>1, <1>2, <1>3, <1>4, <1>5, <1>6, <1>7, Reestablish DEF OrderInv
<1> QED
  BY <1>8 DEF h

-----------------------------------------------------------------------------
(***************************************************************************)
(* The specification.                                                      *)
(***************************************************************************)

\* Initially no leg has been submitted and nothing is under way.
LEMMA InitInv == Init => Inv
<1> SUFFICES ASSUME Init PROVE Inv
  OBVIOUS
<1>1. FrameInv
  <2>1. disconnects \in 0..MaxDisconnects
    BY ConstantsAssumption DEF Init
  <2>2. market \in [ready : BOOLEAN, open : BOOLEAN]
    BY DEF Init
  <2>3. /\ DOMAIN leg = Legs /\ DOMAIN inbox = Legs /\ DOMAIN order = Legs
        /\ DOMAIN oprice = Legs /\ DOMAIN orders = Legs
    BY DEF Init
  <2>4. created \in BOOLEAN /\ connected \in BOOLEAN /\ halted \in Halts
    BY DEF Init, Halts
  <2> QED
    BY <2>1, <2>2, <2>3, <2>4 DEF FrameInv
<1>2. StartTogether
  BY DEF Init, StartTogether, NewLeg, Legs
<1>3. ASSUME NEW l \in Legs
      PROVE  LegInv(l, leg[l], inbox[l], order[l], oprice[l], orders[l])
  <2>1. /\ leg[l] = NewLeg(l) /\ inbox[l] = << >> /\ order[l] = "none"
        /\ oprice[l] = Initial(l) /\ orders[l] = 0
    BY DEF Init
  <2>2. NewLeg(l) \in LegType(l) /\ Idle(NewLeg(l)) /\ NewLeg(l).state = "UNDEFINED"
    BY EmptySeq DEF NewLeg, LegType, States, Prices, Idle
  <2>3. << >> \in Seq(Events(l)) /\ NoAck(<< >>) /\ EventInv(<< >>, Initial(l), 0)
    BY EmptySeq DEF NoAck, EventInv
  <2>4. Driven(l, NewLeg(l), "create")
    BY <2>2 DEF Driven
  <2>5. LegInv(l, NewLeg(l), << >>, "none", Initial(l), 0)
    BY <2>2, <2>3, <2>4, Reestablish DEF Prices
  <2> QED
    BY <2>1, <2>5
<1> QED
  BY <1>1, <1>2, <1>3 DEF Inv, AllLegs

\* The market handlers submit both orders or neither.
LEMMA MarketStep ==
    ASSUME Inv, MarketHandlers, UNCHANGED <<created, inbox, exchange, link>>,
           market' \in [ready : BOOLEAN, open : BOOLEAN], Running
    PROVE  Inv'
<1>1. PICK h \in maybe_submit_order(leg["high"]) :
      \E k \in (IF h.halt = "no" THEN maybe_submit_order(leg["low"]) ELSE Returns(leg["low"])) :
        /\ leg' = [l \in Legs |-> IF l = "high" THEN h.leg ELSE k.leg]
        /\ halted' = (IF h.halt = "no" THEN k.halt ELSE h.halt)
  BY DEF MarketHandlers
<1>2. PICK k \in (IF h.halt = "no" THEN maybe_submit_order(leg["low"]) ELSE Returns(leg["low"])) :
        /\ leg' = [l \in Legs |-> IF l = "high" THEN h.leg ELSE k.leg]
        /\ halted' = (IF h.halt = "no" THEN k.halt ELSE h.halt)
  BY <1>1
<1> DEFINE start == market'.ready /\ market'.open
<1>3. ASSUME NEW l \in Legs, NEW o \in maybe_submit_order(leg[l])
      PROVE  /\ LegInv(l, o.leg, inbox[l], order[l], oprice[l], orders[l]) /\ o.halt \in Halts
             /\ o.leg.state = "UNDEFINED" <=> leg[l].state = "UNDEFINED" /\ ~start
  <2>0. LegInv(l, leg[l], inbox[l], order[l], oprice[l], orders[l])
    BY DEF Inv, AllLegs
  <2>1. CASE leg[l].state = "UNDEFINED" /\ start
    <3>1. o \in submit_order(leg[l])
      BY <1>3, <2>1 DEF maybe_submit_order
    <3> QED
      BY <2>0, <2>1, <3>1, SubmitStep
  <2>2. CASE ~(leg[l].state = "UNDEFINED" /\ start)
    <3>1. o.leg = leg[l] /\ o.halt = "no"
      BY <1>3, <2>2 DEF maybe_submit_order, Returns
    <3> QED
      BY <2>0, <2>2, <3>1 DEF Halts
  <2> QED
    BY <2>1, <2>2
<1> HIDE DEF start
<1>4. LegInv("high", h.leg, inbox["high"], order["high"], oprice["high"], orders["high"])
      /\ h.halt \in Halts
      /\ (h.leg.state = "UNDEFINED" <=> leg["high"].state = "UNDEFINED" /\ ~start)
  BY <1>3 DEF Legs
<1>5. LegInv("low", k.leg, inbox["low"], order["low"], oprice["low"], orders["low"])
      /\ k.halt \in Halts
      /\ (h.halt = "no" => (k.leg.state = "UNDEFINED" <=> leg["low"].state = "UNDEFINED" /\ ~start))
  <2>1. CASE h.halt = "no"
    BY <1>2, <1>3, <2>1 DEF Legs
  <2>2. CASE h.halt # "no"
    <3>1. k.leg = leg["low"] /\ k.halt = "no"
      BY <1>2, <2>2 DEF Returns
    <3>2. LegInv("low", leg["low"], inbox["low"], order["low"], oprice["low"], orders["low"])
      BY DEF Inv, AllLegs, Legs
    <3> QED
      BY <2>2, <3>1, <3>2 DEF Halts
  <2> QED
    BY <2>1, <2>2
<1>6. leg'["high"] = h.leg /\ leg'["low"] = k.leg /\ DOMAIN leg' = Legs
  BY <1>2 DEF Legs
<1>7. AllLegs'
  <2>1. UNCHANGED <<inbox, order, oprice, orders>>
    BY DEF exchange
  <2> QED
    BY <1>4, <1>5, <1>6, <2>1 DEF AllLegs, Legs
<1>8. FrameInv'
  BY <1>2, <1>4, <1>5, <1>6 DEF Inv, FrameInv, exchange, link
<1>9. StartTogether'
  BY <1>2, <1>4, <1>5, <1>6 DEF Inv, StartTogether, Running
<1> QED
  BY <1>7, <1>8, <1>9 DEF Inv

\* Every action preserves the invariant.
LEMMA NextInv == Inv /\ [Next]_vars => Inv'
<1> SUFFICES ASSUME Inv, [Next]_vars PROVE Inv'
  OBVIOUS
<1>0. /\ \A l \in Legs : LegInv(l, leg[l], inbox[l], order[l], oprice[l], orders[l])
      /\ FrameInv /\ StartTogether
  BY DEF Inv, AllLegs
<1>a. DOMAIN leg = Legs /\ DOMAIN inbox = Legs /\ DOMAIN order = Legs
      /\ DOMAIN oprice = Legs /\ DOMAIN orders = Legs
  BY <1>0 DEF FrameInv
<1>1. CASE AddMarket
  <2>1. FrameInv'
    BY <1>0, <1>1 DEF AddMarket, FrameInv, exchange, link
  <2>2. AllLegs' /\ StartTogether'
    BY <1>0, <1>1 DEF AddMarket, AllLegs, StartTogether, Running, exchange
  <2> QED
    BY <2>1, <2>2 DEF Inv
<1>2. CASE Ready
  <2>1. market' \in [ready : BOOLEAN, open : BOOLEAN]
    BY <1>0, <1>2 DEF Ready, FrameInv
  <2> QED
    BY <1>2, <2>1, MarketStep DEF Ready
<1>3. ASSUME NEW open \in BOOLEAN, MarketStatus(open) PROVE Inv'
  <2>1. market' \in [ready : BOOLEAN, open : BOOLEAN]
    BY <1>0, <1>3 DEF MarketStatus, FrameInv
  <2> QED
    BY <1>3, <2>1, MarketStep DEF MarketStatus
<1>4. CASE MarketData
  <2>1. market' \in [ready : BOOLEAN, open : BOOLEAN]
    BY <1>0, <1>4 DEF MarketData, FrameInv
  <2> QED
    BY <1>4, <2>1, MarketStep DEF MarketData
<1>5. CASE Signal \/ Stopped \/ Connect \/ UNCHANGED vars
  <2>1. FrameInv'
    BY <1>0, <1>5 DEF Signal, Stopped, Connect, vars, FrameInv, exchange, link, Halts
  <2>2. AllLegs' /\ StartTogether'
    BY <1>0, <1>5 DEF Signal, Stopped, Connect, vars, AllLegs, StartTogether, Running, exchange
  <2> QED
    BY <2>1, <2>2 DEF Inv
<1>6. ASSUME NEW l \in Legs, OrderAck(l) PROVE Inv'
  <2>1. PICK i \in DOMAIN inbox[l] :
          /\ inbox[l][i].event = "ack"
          /\ inbox' = [inbox EXCEPT ![l] = Without(@, i)]
          /\ \E o \in on_order_ack(leg[l], inbox[l][i].ack) :
                leg' = [leg EXCEPT ![l] = o.leg] /\ halted' = o.halt
    BY <1>6 DEF OrderAck
  <2>2. PICK o \in on_order_ack(leg[l], inbox[l][i].ack) :
          leg' = [leg EXCEPT ![l] = o.leg] /\ halted' = o.halt
    BY <2>1
  <2>3. i \in 1..Len(inbox[l])
    BY <1>0, LenProperties DEF LegInv
  <2>4. /\ LegInv(l, o.leg, Without(inbox[l], i), order[l], oprice[l], orders[l])
        /\ o.halt \in Halts /\ o.leg.state # "UNDEFINED" /\ leg[l].state # "UNDEFINED"
    BY <1>0, <2>1, <2>2, <2>3, AckStep
  <2>5. FrameInv'
    BY <1>0, <1>6, <2>1, <2>2, <2>4 DEF OrderAck, FrameInv, exchange, link
  <2>6. AllLegs'
    BY <1>0, <1>6, <1>a, <2>1, <2>2, <2>4 DEF OrderAck, AllLegs, exchange
  <2>7. StartTogether'
    BY <1>0, <1>6, <1>a, <2>2, <2>4 DEF OrderAck, StartTogether, Running, Legs
  <2> QED
    BY <2>5, <2>6, <2>7 DEF Inv
<1>7. ASSUME NEW l \in Legs, OrderUpdate(l) PROVE Inv'
  <2>1. PICK i \in DOMAIN inbox[l] :
          /\ inbox[l][i].event = "update"
          /\ inbox' = [inbox EXCEPT ![l] = Without(@, i)]
          /\ LET gs == [leg EXCEPT ![l] = leg_order_update(@, inbox[l][i].status)]
             IN  \E h \in strategy_order_update(gs, "high"), k \in strategy_order_update(gs, "low") :
                  /\ leg' = [m \in Legs |-> IF m = "high" THEN h.leg ELSE k.leg]
                  /\ halted' = (IF h.halt = "no" THEN k.halt ELSE h.halt)
    BY <1>7 DEF OrderUpdate
  <2> DEFINE gs == [leg EXCEPT ![l] = leg_order_update(@, inbox[l][i].status)]
             qs == [inbox EXCEPT ![l] = Without(@, i)]
  <2>2. PICK h \in strategy_order_update(gs, "high"), k \in strategy_order_update(gs, "low") :
          /\ leg' = [m \in Legs |-> IF m = "high" THEN h.leg ELSE k.leg]
          /\ halted' = (IF h.halt = "no" THEN k.halt ELSE h.halt)
    BY <2>1
  <2>3. i \in 1..Len(inbox[l])
    BY <1>0, LenProperties DEF LegInv
  <2>4. LegInv(l, leg_order_update(leg[l], inbox[l][i].status), Without(inbox[l], i),
               order[l], oprice[l], orders[l])
        /\ leg_order_update(leg[l], inbox[l][i].status).state # "UNDEFINED"
        /\ leg[l].state # "UNDEFINED"
    BY <1>0, <2>1, <2>3, UpdateStep
  <2>5. /\ gs[l] = leg_order_update(leg[l], inbox[l][i].status)
        /\ qs[l] = Without(inbox[l], i)
        /\ \A m \in Legs : m # l => gs[m] = leg[m] /\ qs[m] = inbox[m]
        /\ inbox' = qs
    BY <1>a, <2>1
  <2> HIDE DEF gs, qs
  <2>6. \A m \in Legs :
          /\ LegInv(m, gs[m], qs[m], order[m], oprice[m], orders[m])
          /\ gs[m].state = "UNDEFINED" <=> leg[m].state = "UNDEFINED"
    BY <1>0, <2>4, <2>5
  <2>7. ASSUME NEW m \in Legs, NEW o \in strategy_order_update(gs, m)
        PROVE  /\ LegInv(m, o.leg, qs[m], order[m], oprice[m], orders[m])
               /\ o.halt \in Halts
               /\ o.leg.state = "UNDEFINED" <=> leg[m].state = "UNDEFINED"
    <3>1. CASE o \in modify_order(gs[m], Retraced(m))
      BY <2>6, <3>1, ModifyStep
    <3>2. CASE o = [leg |-> gs[m], halt |-> "no"]
      BY <2>6, <3>2 DEF Halts
    <3> QED
      BY <2>7, <3>1, <3>2 DEF strategy_order_update, Returns
  <2>8. /\ LegInv("high", h.leg, qs["high"], order["high"], oprice["high"], orders["high"])
        /\ h.halt \in Halts
        /\ h.leg.state = "UNDEFINED" <=> leg["high"].state = "UNDEFINED"
    BY <2>2, <2>7 DEF Legs
  <2>9. /\ LegInv("low", k.leg, qs["low"], order["low"], oprice["low"], orders["low"])
        /\ k.halt \in Halts
        /\ k.leg.state = "UNDEFINED" <=> leg["low"].state = "UNDEFINED"
    BY <2>2, <2>7 DEF Legs
  <2>10. leg'["high"] = h.leg /\ leg'["low"] = k.leg /\ DOMAIN leg' = Legs
    BY <2>2 DEF Legs
  <2>11. UNCHANGED <<created, market, order, oprice, orders, connected, disconnects>>
    BY <1>7 DEF OrderUpdate, exchange, link
  <2>12. AllLegs'
    BY <2>5, <2>8, <2>9, <2>10, <2>11 DEF AllLegs, Legs
  <2>13. FrameInv'
    <3>1. DOMAIN inbox' = Legs
      BY <1>a, <2>1
    <3> QED
      BY <1>0, <2>2, <2>8, <2>9, <2>10, <2>11, <3>1 DEF FrameInv
  <2>14. StartTogether'
    BY <1>0, <1>7, <2>8, <2>9, <2>10 DEF OrderUpdate, StartTogether, Running
  <2> QED
    BY <2>12, <2>13, <2>14 DEF Inv
<1>8. ASSUME NEW l \in Legs, Timer(l) PROVE Inv'
  <2>1. PICK o \in on_timer([leg[l] EXCEPT !.timers = Tail(@)], Head(leg[l].timers)) :
          leg' = [leg EXCEPT ![l] = o.leg] /\ halted' = o.halt
    BY <1>8 DEF Timer
  <2>2. leg[l].timers # << >>
    BY <1>8 DEF Timer
  <2>3. /\ LegInv(l, o.leg, inbox[l], order[l], oprice[l], orders[l])
        /\ o.halt \in Halts /\ o.leg.state # "UNDEFINED" /\ leg[l].state # "UNDEFINED"
    BY <1>0, <2>1, <2>2, TimerStep
  <2>4. FrameInv'
    BY <1>0, <1>8, <2>1, <2>3 DEF Timer, FrameInv, exchange, link
  <2>5. AllLegs'
    BY <1>0, <1>8, <1>a, <2>1, <2>3 DEF Timer, AllLegs, exchange
  <2>6. StartTogether'
    BY <1>0, <1>8, <1>a, <2>1, <2>3 DEF Timer, StartTogether, Running, Legs
  <2> QED
    BY <2>4, <2>5, <2>6 DEF Inv
<1>9. ASSUME NEW l \in Legs, Accept(l) PROVE Inv'
  <2> DEFINE r == Head(leg[l].requests)
  <2>1. /\ leg[l].requests # << >>
        /\ order' = [order EXCEPT ![l] = "working"]
        /\ oprice' = [oprice EXCEPT ![l] = r.price]
        /\ orders' = [orders EXCEPT ![l] = IF r.kind = "create" THEN @ + 1 ELSE @]
        /\ inbox' = [inbox EXCEPT ![l] = @ \o <<Ack(r, "ACCEPTED"), Update("working")>>]
        /\ leg' = [leg EXCEPT ![l].requests = Tail(@)]
        /\ UNCHANGED <<created, market, connected, disconnects, halted>>
    BY <1>9 DEF Accept, TakeRequest, link
  <2>2. LegInv(l, [leg[l] EXCEPT !.requests = Tail(@)],
               inbox[l] \o <<Ack(r, "ACCEPTED"), Update("working")>>,
               "working", r.price, IF r.kind = "create" THEN orders[l] + 1 ELSE orders[l])
    BY <1>0, <2>1, AcceptStep
  <2> HIDE DEF r
  <2>3. /\ leg' = [leg EXCEPT ![l] = [leg[l] EXCEPT !.requests = Tail(@)]]
        /\ leg'[l] = [leg[l] EXCEPT !.requests = Tail(@)]
        /\ inbox'[l] = inbox[l] \o <<Ack(r, "ACCEPTED"), Update("working")>>
        /\ order'[l] = "working" /\ oprice'[l] = r.price
        /\ orders'[l] = IF r.kind = "create" THEN orders[l] + 1 ELSE orders[l]
    BY <1>a, <2>1
  <2>4. FrameInv'
    BY <1>0, <2>1, <2>3 DEF FrameInv
  <2>5. AllLegs'
    <3>1. ASSUME NEW m \in Legs, m # l
          PROVE  /\ leg'[m] = leg[m] /\ inbox'[m] = inbox[m] /\ order'[m] = order[m]
                 /\ oprice'[m] = oprice[m] /\ orders'[m] = orders[m]
      BY <1>a, <2>1, <2>3, <3>1
    <3>2. LegInv(l, leg'[l], inbox'[l], order'[l], oprice'[l], orders'[l])
      BY <2>2, <2>3
    <3>3. ASSUME NEW m \in Legs, m # l
          PROVE  LegInv(m, leg'[m], inbox'[m], order'[m], oprice'[m], orders'[m])
      BY <1>0, <3>1, <3>3 DEF AllLegs
    <3> QED
      BY <3>2, <3>3 DEF AllLegs
  <2>6. StartTogether'
    BY <1>0, <1>a, <2>1 DEF StartTogether, Running, Legs, LegInv, LegType
  <2> QED
    BY <2>4, <2>5, <2>6 DEF Inv
<1>10. ASSUME NEW l \in Legs, Reject(l) PROVE Inv'
  <2> DEFINE r == Head(leg[l].requests)
  <2>1. PICK e \in Errors(l, r) : inbox' = [inbox EXCEPT ![l] = Append(@, Ack(r, e))]
    BY <1>10 DEF Reject
  <2>2. e \in {"RATE_LIMIT", "TOO_LATE", "OTHER"}
    BY <2>1 DEF Errors
  <2>3. /\ leg[l].requests # << >>
        /\ leg' = [leg EXCEPT ![l].requests = Tail(@)]
        /\ UNCHANGED <<created, market, order, oprice, orders, connected, disconnects, halted>>
    BY <1>10 DEF Reject, TakeRequest, link, exchange
  <2>4. LegInv(l, [leg[l] EXCEPT !.requests = Tail(@)], Append(inbox[l], Ack(r, e)),
               order[l], oprice[l], orders[l])
    BY <1>0, <2>2, <2>3, RejectStep
  <2> HIDE DEF r
  <2>5. /\ leg' = [leg EXCEPT ![l] = [leg[l] EXCEPT !.requests = Tail(@)]]
        /\ leg'[l] = [leg[l] EXCEPT !.requests = Tail(@)]
        /\ inbox'[l] = Append(inbox[l], Ack(r, e))
    BY <1>a, <2>1, <2>3
  <2>6. FrameInv'
    BY <1>0, <2>1, <2>3, <2>5 DEF FrameInv
  <2>7. AllLegs'
    <3>1. ASSUME NEW m \in Legs, m # l PROVE leg'[m] = leg[m] /\ inbox'[m] = inbox[m]
      BY <1>a, <2>1, <2>5, <3>1
    <3> QED
      BY <1>0, <2>3, <2>4, <2>5, <3>1 DEF AllLegs
  <2>8. StartTogether'
    BY <1>0, <1>a, <2>3 DEF StartTogether, Running, Legs, LegInv, LegType
  <2> QED
    BY <2>6, <2>7, <2>8 DEF Inv
<1>11. ASSUME NEW l \in Legs, Fill(l) \/ Cancel(l) PROVE Inv'
  <2>1. PICK s \in Statuses : Final(l, s)
    BY <1>11 DEF Fill, Cancel, Statuses
  <2>2. /\ order[l] = "working"
        /\ order' = [order EXCEPT ![l] = s]
        /\ inbox' = [inbox EXCEPT ![l] = Append(@, Update(s))]
        /\ UNCHANGED <<created, market, leg, oprice, orders, connected, disconnects, halted>>
    BY <2>1 DEF Final, link
  <2>3. orders[l] = 1
    BY <1>0, <2>2 DEF LegInv, OrderInv
  <2>4. LegInv(l, leg[l], Append(inbox[l], Update(s)), s, oprice[l], orders[l])
    BY <1>0, <2>3, UpdateSent
  <2>5. FrameInv'
    BY <1>0, <2>2 DEF FrameInv
  <2>6. AllLegs'
    <3>1. inbox'[l] = Append(inbox[l], Update(s)) /\ order'[l] = s
      BY <1>a, <2>2
    <3>2. ASSUME NEW m \in Legs, m # l PROVE inbox'[m] = inbox[m] /\ order'[m] = order[m]
      BY <1>a, <2>2, <3>2
    <3> QED
      BY <1>0, <2>2, <2>4, <3>1, <3>2 DEF AllLegs
  <2>7. StartTogether'
    BY <1>0, <2>2 DEF StartTogether, Running
  <2> QED
    BY <2>5, <2>6, <2>7 DEF Inv
<1>12. CASE Disconnect
  <2>1. /\ disconnects < MaxDisconnects /\ disconnects' = disconnects + 1
        /\ connected' = FALSE /\ market' = [market EXCEPT !.ready = FALSE]
        /\ leg' = [l \in Legs |-> [leg[l] EXCEPT !.requests = << >>]]
        /\ inbox' = [l \in Legs |-> << >>]
        /\ order' = [l \in Legs |-> IF order[l] = "working" THEN "canceled" ELSE order[l]]
        /\ UNCHANGED <<created, oprice, orders, halted>>
    BY <1>12 DEF Disconnect
  <2>2. FrameInv'
    <3>1. disconnects' \in 0..MaxDisconnects
      BY <1>0, <2>1, ConstantsAssumption DEF FrameInv
    <3>2. market' \in [ready : BOOLEAN, open : BOOLEAN]
      BY <1>0, <2>1 DEF FrameInv
    <3>3. DOMAIN leg' = Legs /\ DOMAIN inbox' = Legs /\ DOMAIN order' = Legs
      BY <2>1
    <3> QED
      BY <1>0, <2>1, <3>1, <3>2, <3>3 DEF FrameInv
  <2>3. AllLegs'
    BY <1>0, <2>1, DisconnectStep DEF AllLegs
  <2>4. StartTogether'
    BY <1>0, <2>1 DEF StartTogether, Running, Legs, LegInv, LegType
  <2> QED
    BY <2>2, <2>3, <2>4 DEF Inv
<1> QED
  BY <1>1, <1>2, <1>3, <1>4, <1>5, <1>6, <1>7, <1>8, <1>9, <1>10, <1>11, <1>12 DEF Next

\* Inv holds in every reachable state.
THEOREM Invariance == Spec => []Inv
  BY InitInv, NextInv, PTL DEF Spec

\* Every variable keeps its type and no attempt exceeds settings.max_retries,
\* whatever the gateway answers and in whatever order.
THEOREM TypeCorrect == Spec => []TypeOK
<1>1. Inv => TypeOK
  <2> SUFFICES ASSUME Inv PROVE TypeOK
    OBVIOUS
  <2>1. ASSUME NEW l \in Legs PROVE LegTypeOK(l)
    <3>1. LegInv(l, leg[l], inbox[l], order[l], oprice[l], orders[l])
      BY DEF Inv, AllLegs
    <3> QED
      BY <3>1 DEF LegInv, LegType, LegTypeOK, OrderInv
  <2> QED
    BY <2>1 DEF Inv, FrameInv, TypeOK
<1> QED
  BY <1>1, Invariance, PTL

\* A leg never has two things under way (strategy.cpp, modify_order: "nothing to
\* do, the response handlers will use the latest price").
THEOREM OneDriverHolds == Spec => []OneDriver
<1>1. Inv => OneDriver
  <2> SUFFICES ASSUME Inv, NEW l \in Legs
               PROVE /\ Len(leg[l].requests) <= 1 /\ Len(leg[l].timers) <= 1
                     /\ \A i, j \in AckAt(l) : i = j
                     /\ leg[l].requests # << >> => leg[l].timers = << >> /\ AckAt(l) = {}
                     /\ leg[l].timers # << >> => AckAt(l) = {}
                     /\ leg[l].state \in {"UNDEFINED", "WAITING"} =>
                           leg[l].requests = << >> /\ leg[l].timers = << >> /\ AckAt(l) = {}
    BY DEF OneDriver
  <2>1. /\ DriverInv(l, leg[l], inbox[l], orders[l]) /\ inbox[l] \in Seq(Events(l))
    BY DEF Inv, AllLegs, LegInv
  <2>2. DOMAIN inbox[l] = 1..Len(inbox[l])
    BY <2>1, LenProperties
  <2>3. NoAck(inbox[l]) => AckAt(l) = {}
    BY <2>2 DEF NoAck, AckAt
  <2>4. \A i, j \in AckAt(l) : i = j
    BY <2>1, <2>2 DEF AckAt, DriverInv
  <2>5. /\ Len(leg[l].requests) <= 1 /\ Len(leg[l].timers) <= 1
        /\ leg[l].requests = << >> \/ leg[l].timers = << >>
    <3>1. CASE Idle(leg[l])
      BY <3>1 DEF Idle
    <3>2. CASE leg[l].timers = << >> /\ \E r \in Requests(l) : leg[l].requests = <<r>>
      BY <3>2
    <3>3. CASE leg[l].requests = << >> /\ \E t \in Timers : leg[l].timers = <<t>>
      BY <3>3
    <3> QED
      BY <2>1, <3>1, <3>2, <3>3 DEF DriverInv, Driven
  <2> QED
    BY <2>1, <2>3, <2>4, <2>5 DEF DriverInv, Idle
<1> QED
  BY <1>1, Invariance, PTL

\* A leg creates at most one order at the exchange, however often its requests
\* are retried and wherever the connection breaks.
THEOREM OneOrderPerLegHolds == Spec => []OneOrderPerLeg
<1>1. Inv => OneOrderPerLeg
  BY DEF Inv, AllLegs, LegInv, OrderInv, OneOrderPerLeg
<1> QED
  BY <1>1, Invariance, PTL

\* A leg that waits for a fill has its order at the price it wants
\* (handle_success compares the acknowledged price with the wanted one).
THEOREM RestingAtWantedPriceHolds == Spec => []RestingAtWantedPrice
<1>1. Inv => RestingAtWantedPrice
  BY DEF Inv, AllLegs, LegInv, OrderInv, RestingAtWantedPrice
<1> QED
  BY <1>1, Invariance, PTL

\* Both legs are submitted by the same market event, or neither is.
THEOREM StartTogetherHolds == Spec => []StartTogether
<1>1. Inv => StartTogether
  BY DEF Inv
<1> QED
  BY <1>1, Invariance, PTL
=============================================================================
