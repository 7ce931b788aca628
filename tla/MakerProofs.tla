---------------------------- MODULE MakerProofs ----------------------------
(***************************************************************************)
(* Proofs about maker, for any prices and any number of orders and lost    *)
(* connections: a quote without an order has no order id and the position  *)
(* is the sum of the fills and no quote waits for nothing, also with       *)
(* reordered events; and, with events in order, each quote knows its order *)
(* and the two implement OrderSlot.                                        *)
(***************************************************************************)
EXTENDS Maker, SequenceTheorems, FiniteSetTheorems, TLAPS

Quotes == [target : Int, update : BOOLEAN, order_id : 0..MaxOrders, state : QuoteStates]

Requests ==
    [kind : {"create", "cancel"}, side : Sides, id : Ids] \union
    [kind : {"cancel_all"}, side : {"BUY"}, id : {0}]

Events ==
    [event : {"cancel_all_ack"}] \union
    [event : {"ack"}, kind : {"create"}, side : Sides, id : Ids,
     result : {"accepted", "error"}] \union
    [event : {"ack"}, kind : {"cancel"}, side : Sides, id : Ids,
     result : {"accepted", "TOO_LATE", "error"}] \union
    [event : {"update"}, side : Sides, id : Ids, status : {"working", "completed", "canceled"}]

Orders == [side : Sides, status : {"none", "working", "completed", "canceled"}]

Worlds == [quote : [Sides -> Quotes], requests : Seq(Requests), max_order_id : 0..MaxOrders,
           halted : {"no", "nan", "error", "state"}]

\* What a Timer handler starts from.
World == [quote |-> quote, requests |-> requests, max_order_id |-> max_order_id, halted |-> halted]

TypeOK ==
    /\ World \in Worlds
    /\ inbox \in Seq(Events) /\ order \in [Ids -> Orders]
    /\ position \in Int /\ mid \in Int /\ disconnects \in Nat
    /\ ready \in BOOLEAN /\ tick \in BOOLEAN

IsHighest(m) ==
    /\ order[m].status # "none"
    /\ \A i \in Ids : order[i].status # "none" => i <= m

Highest == \E m \in Ids : IsHighest(m)

Idle(w) == \A s \in Sides : w.quote[s].state = "UNDEFINED" => w.quote[s].order_id = 0

Creates(w) == {k \in DOMAIN w.requests : w.requests[k].kind = "create"}

Cancels(w) == {k \in DOMAIN w.requests : w.requests[k].kind = "cancel"}

\* The ids of the create requests under way are new ones, and no two are the same.
Fresh(w) ==
    /\ \A k \in Creates(w) : /\ order[w.requests[k].id].status = "none"
                             /\ w.requests[k].id <= w.max_order_id
    /\ \A k, l \in Creates(w) : w.requests[k].id = w.requests[l].id => k = l

\* Only a connection that is up has something under way; after the download the ids
\* of all known orders are counted.
Linked ==
    /\ link # "up" => requests = << >> /\ inbox = << >> /\ WorkingIds = {}
    /\ ready => link \in {"up", "lost"}
    /\ link \in {"synced", "up"} => \A i \in Ids : order[i].status # "none" => i <= max_order_id

IsUpdate(k) == inbox[k].event = "update"

\* Updates are about known orders, a final one about a final order.
UpdatesKnown ==
    \A k \in DOMAIN inbox : IsUpdate(k) =>
        /\ order[inbox[k].id].status # "none"
        /\ inbox[k].status \in {"completed", "canceled"} => order[inbox[k].id].status = inbox[k].status
        /\ inbox[k].status = "completed" => order[inbox[k].id].side = inbox[k].side

IsFill(k) == IsUpdate(k) /\ inbox[k].status = "completed"

\* No fill is reported twice.
FillsOnce == \A k, l \in DOMAIN inbox : IsFill(k) /\ IsFill(l) /\ inbox[k].id = inbox[l].id => k = l

\* The orders of a side whose fill has been reported.
Reported(s) == {i \in Ids : /\ order[i].status = "completed" /\ order[i].side = s
                            /\ \A k \in DOMAIN inbox : IsFill(k) => inbox[k].id # i}

\* Every fill is counted or on its way.
Counted ==
    disconnects = 0 => position = Cardinality(Reported("BUY")) - Cardinality(Reported("SELL"))

MakerInv ==
    /\ TypeOK /\ Highest /\ Idle(World) /\ Fresh(World)
    /\ Linked /\ UpdatesKnown /\ FillsOnce /\ Counted

IsCreated(k, s) ==
    /\ inbox[k].event = "ack" /\ inbox[k].kind = "create" /\ inbox[k].result = "accepted"
    /\ inbox[k].side = s

\* Of a cancel that was not refused; after another the process ends.
IsCancelAck(k, s) ==
    /\ inbox[k].event = "ack" /\ inbox[k].kind = "cancel" /\ inbox[k].result # "error"
    /\ inbox[k].side = s

\* A quote that has worked on its order knows it; every live order and every order
\* being created is that of its quote.
Owned(w) ==
    /\ \A s \in Sides : LET q == w.quote[s] IN
         q.order_id # 0 /\ q.state \in {"WORKING", "CANCEL"} =>
            order[q.order_id].status # "none" /\ order[q.order_id].side = s
    /\ \A i \in WorkingIds : LET q == w.quote[order[i].side] IN
         /\ q.order_id = i
         /\ q.state = "CREATE" => \E k \in DOMAIN inbox : IsCreated(k, order[i].side)
    /\ \A k \in Creates(w) : LET q == w.quote[w.requests[k].side] IN
         q.order_id = w.requests[k].id /\ q.state = "CREATE"

\* The ack of a created order finds its quote waiting for it, before any update of the
\* order does.
Created(w) ==
    \A s \in Sides : LET q == w.quote[s] IN
        /\ \A k \in DOMAIN inbox : IsCreated(k, s) =>
             /\ q.order_id = inbox[k].id /\ q.state = "CREATE"
             /\ order[q.order_id].status # "none" /\ order[q.order_id].side = s
             /\ \A l \in DOMAIN inbox : IsCreated(l, s) => k = l
        /\ \A l \in DOMAIN inbox :
             IsUpdate(l) /\ inbox[l].side = s /\ inbox[l].id = q.order_id /\ q.state = "CREATE" =>
                \E k \in 1..(l - 1) : IsCreated(k, s)

\* A cancel request or its ack is about the order of a quote that waits for it, or of
\* one that has ended; in the latter case it comes before anything of the next order.
Canceled(w) ==
    /\ \A k \in Cancels(w) : LET r == w.requests[k] IN
         /\ order[r.id].status # "none" /\ order[r.id].side = r.side
         /\ w.quote[r.side].state # "WORKING"
         /\ w.quote[r.side].state = "CANCEL" => w.quote[r.side].order_id \in {0, r.id}
         /\ \A l \in DOMAIN inbox : ~IsCreated(l, r.side)
         /\ \A l \in Creates(w) : w.requests[l].side = r.side => k < l
    /\ \A s \in Sides : \A k \in DOMAIN inbox : IsCancelAck(k, s) =>
         /\ order[inbox[k].id].status \notin {"none", "working"}
         /\ w.quote[s].state # "WORKING"
         /\ w.quote[s].state = "CANCEL" => w.quote[s].order_id \in {0, inbox[k].id}
         /\ \A l \in DOMAIN inbox : IsCreated(l, s) => k < l

QuoteInv == Running => Owned(World) /\ Created(World) /\ Canceled(World)

-----------------------------------------------------------------------------
(***************************************************************************)
(* The Timer handler of a quote.                                           *)
(***************************************************************************)

SameQuotes(w, d, S) == \A t \in S : /\ d.quote[t].order_id = w.quote[t].order_id
                                    /\ d.quote[t].state = w.quote[t].state

Keeps(w, d) ==
    SameQuotes(w, d, Sides) /\ d.requests = w.requests /\ d.max_order_id = w.max_order_id

SendsCreate(w, d, s) ==
    LET id == w.max_order_id + 1
    IN  /\ CanSend /\ w.quote[s].state = "UNDEFINED" /\ id \in Ids
        /\ d.requests = Append(w.requests, [kind |-> "create", side |-> s, id |-> id])
        /\ d.max_order_id = id
        /\ d.quote[s].order_id = id /\ d.quote[s].state = "CREATE"
        /\ SameQuotes(w, d, Sides \ {s})

SendsCancel(w, d, s) ==
    LET id == w.quote[s].order_id
    IN  /\ CanSend /\ w.quote[s].state = "WORKING" /\ id # 0
        /\ d.requests = Append(w.requests, [kind |-> "cancel", side |-> s, id |-> id])
        /\ d.max_order_id = w.max_order_id
        /\ d.quote[s].order_id = id /\ d.quote[s].state = "CANCEL"
        /\ SameQuotes(w, d, Sides \ {s})

LEMMA WorldFields ==
    ASSUME NEW w \in Worlds
    PROVE  /\ w.quote \in [Sides -> Quotes] /\ w.requests \in Seq(Requests)
           /\ w.max_order_id \in 0..MaxOrders /\ w.halted \in {"no", "nan", "error", "state"}
<1> HIDE DEF Quotes, Requests
<1> QED
  BY DEF Worlds

LEMMA QuoteFields ==
    ASSUME NEW q \in Quotes
    PROVE  /\ q.target \in Int /\ q.update \in BOOLEAN /\ q.order_id \in 0..MaxOrders
           /\ q.state \in QuoteStates
BY DEF Quotes

\* The flag of a quote is cleared.
LEMMA FlagCleared ==
    ASSUME NEW w \in Worlds, NEW s \in Sides
    PROVE  LET d == [w EXCEPT !.quote[s].update = FALSE]
           IN  d \in Worlds /\ Keeps(w, d) /\ d.halted = w.halted
<1> DEFINE d == [w EXCEPT !.quote[s].update = FALSE]
           q == [w.quote[s] EXCEPT !.update = FALSE]
<1>1. w.quote \in [Sides -> Quotes] /\ w.quote[s] \in Quotes
  BY WorldFields
<1>2. /\ q \in Quotes /\ q.order_id = w.quote[s].order_id /\ q.state = w.quote[s].state
  BY <1>1 DEF Quotes
<1>3. d = [w EXCEPT !.quote = [w.quote EXCEPT ![s] = q]]
  BY <1>1 DEF Worlds
<1> HIDE DEF q, d
<1> DEFINE f == [w.quote EXCEPT ![s] = q]
<1>4. f \in [Sides -> Quotes] /\ f[s] = q /\ \A t \in Sides \ {s} : f[t] = w.quote[t]
  BY <1>1, <1>2
<1>5. d = [w EXCEPT !.quote = f]
  BY <1>3
<1> HIDE DEF f
<1>6. /\ d \in Worlds /\ d.quote = f /\ d.requests = w.requests
      /\ d.max_order_id = w.max_order_id /\ d.halted = w.halted
  <2> HIDE DEF Quotes, Requests
  <2> QED
    BY <1>4, <1>5 DEF Worlds
<1> QED
  BY <1>2, <1>4, <1>6 DEF Keeps, SameQuotes, d

LEMMA CreateOrder ==
    ASSUME NEW w \in Worlds, w.halted = "no", Idle(w), NEW s \in Sides,
           w.quote[s].state = "UNDEFINED", NEW d \in create_order(w, s)
    PROVE  d \in Worlds /\ (Keeps(w, d) \/ (d.halted = "no" /\ SendsCreate(w, d, s)))
<1> USE MakerAssumption
<1> DEFINE id == w.max_order_id + 1
           r == [kind |-> "create", side |-> s, id |-> id]
           q == [w.quote[s] EXCEPT !.order_id = id, !.state = "CREATE"]
           f == [w.quote EXCEPT ![s] = q]
<1>1. /\ w.quote \in [Sides -> Quotes] /\ w.quote[s] \in Quotes /\ w.requests \in Seq(Requests)
      /\ w.max_order_id \in 0..MaxOrders
  BY WorldFields
<1>2. w.quote[s].order_id = 0
  BY DEF Idle
<1>3. CASE d = w
  BY <1>3 DEF Keeps, SameQuotes
<1>4. CASE d = [w EXCEPT !.halted = "nan"]
  <2>1. /\ d \in Worlds /\ d.quote = w.quote /\ d.requests = w.requests
        /\ d.max_order_id = w.max_order_id
    <3> HIDE DEF Quotes, Requests
    <3> QED
      BY <1>4 DEF Worlds
  <2> QED
    BY <2>1 DEF Keeps, SameQuotes
<1>5. CASE /\ CanSend /\ id \in Ids
           /\ d = [w EXCEPT !.max_order_id = id, !.requests = Append(@, r),
                            !.quote[s].order_id = id, !.quote[s].state = "CREATE"]
  <2>1. id \in 0..MaxOrders /\ r \in Requests
    BY <1>1, <1>5 DEF Ids, Requests
  <2>2. q \in Quotes /\ q.order_id = id /\ q.state = "CREATE"
    BY <1>1, <2>1 DEF Quotes, QuoteStates
  <2>3. f \in [Sides -> Quotes] /\ f[s] = q /\ \A t \in Sides \ {s} : f[t] = w.quote[t]
    BY <1>1, <2>2
  <2>4. Append(w.requests, r) \in Seq(Requests)
    <3> HIDE DEF Requests, r
    <3> QED
      BY <1>1, <2>1, AppendProperties
  <2>5. d = [w EXCEPT !.max_order_id = id, !.requests = Append(w.requests, r), !.quote = f]
    <3> HIDE DEF Requests, Quotes
    <3> QED
      BY <1>1, <1>5 DEF Worlds
  <2> HIDE DEF id, r, q, f
  <2>6. /\ d \in Worlds /\ d.quote = f /\ d.requests = Append(w.requests, r)
        /\ d.max_order_id = id /\ d.halted = w.halted
    <3> HIDE DEF Requests, Quotes
    <3> QED
      BY <2>1, <2>3, <2>4, <2>5 DEF Worlds
  <2> QED
    BY <1>5, <2>2, <2>3, <2>6 DEF SendsCreate, SameQuotes, id, r
<1> QED
  BY <1>2, <1>3, <1>4, <1>5 DEF create_order, rate_limit

LEMMA CancelOrder ==
    ASSUME NEW w \in Worlds, w.halted = "no", NEW s \in Sides,
           w.quote[s].state = "WORKING", NEW d \in cancel_order(w, s)
    PROVE  d \in Worlds /\ (Keeps(w, d) \/ (d.halted = "no" /\ SendsCancel(w, d, s)))
<1> USE MakerAssumption
<1> DEFINE id == w.quote[s].order_id
           r == [kind |-> "cancel", side |-> s, id |-> id]
           q == [w.quote[s] EXCEPT !.state = "CANCEL"]
           f == [w.quote EXCEPT ![s] = q]
<1>1. /\ w.quote \in [Sides -> Quotes] /\ w.quote[s] \in Quotes /\ w.requests \in Seq(Requests)
      /\ w.max_order_id \in 0..MaxOrders
  BY WorldFields
<1>3. CASE d = w
  BY <1>3 DEF Keeps, SameQuotes
<1>5. CASE /\ CanSend /\ id # 0
           /\ d = [w EXCEPT !.requests = Append(@, r), !.quote[s].state = "CANCEL"]
  <2>1. id \in Ids /\ r \in Requests
    BY <1>1, <1>5, QuoteFields DEF Ids, Requests
  <2>2. q \in Quotes /\ q.order_id = id /\ q.state = "CANCEL"
    BY <1>1 DEF Quotes, QuoteStates
  <2>3. f \in [Sides -> Quotes] /\ f[s] = q /\ \A t \in Sides \ {s} : f[t] = w.quote[t]
    BY <1>1, <2>2
  <2>4. Append(w.requests, r) \in Seq(Requests)
    <3> HIDE DEF Requests, r
    <3> QED
      BY <1>1, <2>1, AppendProperties
  <2>5. d = [w EXCEPT !.requests = Append(w.requests, r), !.quote = f]
    <3> HIDE DEF Requests, Quotes
    <3> QED
      BY <1>1, <1>5 DEF Worlds
  <2> HIDE DEF id, r, q, f
  <2>6. /\ d \in Worlds /\ d.quote = f /\ d.requests = Append(w.requests, r)
        /\ d.max_order_id = w.max_order_id /\ d.halted = w.halted
    <3> HIDE DEF Requests, Quotes
    <3> QED
      BY <2>3, <2>4, <2>5 DEF Worlds
  <2> QED
    BY <1>5, <2>2, <2>3, <2>6 DEF SendsCancel, SameQuotes, id, r
<1> QED
  BY <1>3, <1>5 DEF cancel_order, rate_limit

\* The Timer handler of a quote sends nothing, or creates or cancels one order.
LEMMA QuoteTimer ==
    ASSUME NEW w \in Worlds, w.halted = "no", Idle(w), NEW s \in Sides, NEW d \in quote_timer(w, s)
    PROVE  /\ d \in Worlds
           /\ Keeps(w, d) \/ (d.halted = "no" /\ (SendsCreate(w, d, s) \/ SendsCancel(w, d, s)))
<1>1. CASE d = w
  BY <1>1 DEF Keeps, SameQuotes
<1>2. CASE \E e : /\ \/ e = w \/ (w.quote[s].state = "UNDEFINED" /\ e \in create_order(w, s))
                     \/ (w.quote[s].state = "WORKING" /\ e \in cancel_order(w, s))
                  /\ d = [e EXCEPT !.quote[s].update = FALSE]
  <2>1. PICK e : /\ \/ e = w \/ (w.quote[s].state = "UNDEFINED" /\ e \in create_order(w, s))
                    \/ (w.quote[s].state = "WORKING" /\ e \in cancel_order(w, s))
                 /\ d = [e EXCEPT !.quote[s].update = FALSE]
    BY <1>2
  <2>2. /\ e \in Worlds
        /\ Keeps(w, e) \/ (e.halted = "no" /\ (SendsCreate(w, e, s) \/ SendsCancel(w, e, s)))
    <3>1. CASE e = w
      BY <3>1 DEF Keeps, SameQuotes
    <3> QED
      BY <2>1, <3>1, CreateOrder, CancelOrder
  <2>3. d \in Worlds /\ Keeps(e, d) /\ d.halted = e.halted
    BY <2>1, <2>2, FlagCleared
  <2> QED
    BY <2>2, <2>3 DEF Keeps, SendsCreate, SendsCancel, SameQuotes
<1> QED
  BY <1>1, <1>2 DEF quote_timer

LEMMA Appended ==
    ASSUME NEW rs \in Seq(Requests), NEW r \in Requests
    PROVE  LET n == Len(rs) + 1
               new == Append(rs, r)
           IN  /\ DOMAIN new = DOMAIN rs \union {n} /\ n \notin DOMAIN rs
               /\ new[n] = r /\ \A k \in DOMAIN rs : new[k] = rs[k]
<1> HIDE DEF Requests
<1>1. Len(rs) \in Nat /\ DOMAIN rs = 1..Len(rs)
  OBVIOUS
<1>2. /\ DOMAIN Append(rs, r) = 1..(Len(rs) + 1) /\ Append(rs, r)[Len(rs) + 1] = r
      /\ \A k \in 1..Len(rs) : Append(rs, r)[k] = rs[k]
  BY AppendProperties
<1>3. 1..(Len(rs) + 1) = 1..Len(rs) \union {Len(rs) + 1}
  BY <1>1
<1> QED
  BY <1>1, <1>2, <1>3

\* The queue of requests after a create or a cancel request was sent.
LEMMA Queued ==
    ASSUME NEW w \in Worlds, NEW d, NEW kind \in {"create", "cancel"}, NEW s \in Sides, NEW id \in Ids,
           d.requests = Append(w.requests, [kind |-> kind, side |-> s, id |-> id])
    PROVE  LET n == Len(w.requests) + 1
           IN  /\ n \notin DOMAIN w.requests
               /\ \A k \in DOMAIN w.requests : d.requests[k] = w.requests[k]
               /\ d.requests[n].kind = kind /\ d.requests[n].side = s /\ d.requests[n].id = id
               /\ kind = "create" => Creates(d) = Creates(w) \union {n} /\ Cancels(d) = Cancels(w)
               /\ kind = "cancel" => Creates(d) = Creates(w) /\ Cancels(d) = Cancels(w) \union {n}
<1> DEFINE n == Len(w.requests) + 1
           r == [kind |-> kind, side |-> s, id |-> id]
<1>1. r \in Requests /\ w.requests \in Seq(Requests)
  BY WorldFields DEF Requests
<1>2. r.kind = kind /\ r.side = s /\ r.id = id
  OBVIOUS
<1>3. d.requests = Append(w.requests, r)
  OBVIOUS
<1> HIDE DEF r
<1>4. /\ DOMAIN d.requests = DOMAIN w.requests \union {n} /\ n \notin DOMAIN w.requests
      /\ d.requests[n] = r /\ \A k \in DOMAIN w.requests : d.requests[k] = w.requests[k]
  BY <1>1, <1>3, Appended
<1> HIDE DEF n
<1> QED
  BY <1>2, <1>4 DEF Creates, Cancels, n

\* What requests say.
LEMMA RequestFields ==
    ASSUME NEW w \in Worlds, NEW k \in Creates(w) \union Cancels(w)
    PROVE  w.requests[k].side \in Sides /\ w.requests[k].id \in Ids
<1>1. w.requests \in Seq(Requests) /\ k \in DOMAIN w.requests
  BY WorldFields DEF Creates, Cancels
<1>2. w.requests[k] \in Requests
  <2> HIDE DEF Requests
  <2> QED
    BY <1>1, ElementOfSeq
<1> QED
  BY <1>2 DEF Requests, Creates, Cancels

\* The Timer handler of a quote keeps order ids new, and a quote idle without an order.
LEMMA SendStep ==
    ASSUME NEW w \in Worlds, NEW d \in Worlds, NEW s \in Sides, Idle(w), Fresh(w),
           CanSend => \A i \in Ids : order[i].status # "none" => i <= w.max_order_id,
           Keeps(w, d) \/ SendsCreate(w, d, s) \/ SendsCancel(w, d, s)
    PROVE  /\ Idle(d) /\ Fresh(d) /\ w.max_order_id <= d.max_order_id
           /\ CanSend => \A i \in Ids : order[i].status # "none" => i <= d.max_order_id
<1> USE MakerAssumption
<1>1. w.max_order_id \in Nat /\ d.max_order_id \in Nat /\ Ids \subseteq Nat
  BY WorldFields DEF Ids
<1>2. CASE Keeps(w, d)
  BY <1>1, <1>2 DEF Keeps, SameQuotes, Idle, Fresh, Creates
<1>3. CASE SendsCreate(w, d, s)
  <2> DEFINE id == w.max_order_id + 1
             n == Len(w.requests) + 1
  <2>1. /\ CanSend /\ id \in Ids /\ d.max_order_id = id
        /\ d.requests = Append(w.requests, [kind |-> "create", side |-> s, id |-> id])
        /\ d.quote[s].state = "CREATE" /\ SameQuotes(w, d, Sides \ {s})
    BY <1>3 DEF SendsCreate
  <2> HIDE DEF id
  <2>2. /\ Creates(d) = Creates(w) \union {n} /\ d.requests[n].id = id
        /\ \A k \in Creates(w) : d.requests[k] = w.requests[k] /\ k # n
    BY <2>1, Queued DEF Creates
  <2>3. order[id].status = "none" /\ w.max_order_id < id /\ w.max_order_id <= id
    BY <1>1, <2>1 DEF id
  <2>4. \A k \in Creates(w) : w.requests[k].id \in Nat /\ w.requests[k].id < id
    <3>1. \A k \in Creates(w) : w.requests[k].id \in Nat /\ w.requests[k].id <= w.max_order_id
      BY <1>1, RequestFields DEF Fresh
    <3> QED
      BY <1>1, <3>1 DEF id
  <2>5. Fresh(d)
    <3>0. id \in Nat /\ \A k \in Creates(w) : w.requests[k].id <= id /\ w.requests[k].id # id
      BY <1>1, <2>1, <2>4
    <3>1. ASSUME NEW k \in Creates(d)
          PROVE  order[d.requests[k].id].status = "none" /\ d.requests[k].id <= d.max_order_id
      <4>1. CASE k = n
        <5>1. d.requests[k].id = id /\ d.max_order_id = id
          BY <2>1, <2>2, <4>1
        <5> QED
          BY <2>3, <3>0, <5>1
      <4>2. CASE k \in Creates(w)
        <5>1. d.requests[k] = w.requests[k] /\ d.max_order_id = id
          BY <2>1, <2>2, <4>2
        <5>2. order[w.requests[k].id].status = "none" /\ w.requests[k].id <= id
          BY <3>0, <4>2 DEF Fresh
        <5> QED
          BY <5>1, <5>2
      <4> QED
        BY <2>2, <4>1, <4>2
    <3>2. \A k, l \in Creates(d) : d.requests[k].id = d.requests[l].id => k = l
      BY <2>2, <3>0 DEF Fresh
    <3> QED
      BY <3>1, <3>2 DEF Fresh
  <2>6. Idle(d)
    BY <2>1 DEF Idle, SameQuotes
  <2>7. \A i \in Ids : order[i].status # "none" => i <= d.max_order_id
    <3>1. \A i \in Ids : order[i].status # "none" => i <= w.max_order_id
      BY <2>1
    <3>2. d.max_order_id = w.max_order_id + 1
      BY <2>1 DEF id
    <3>3. w.max_order_id \in Nat /\ \A i \in Ids : i \in Nat
      BY <1>1
    <3>4. \A m, i \in Nat : i <= m => i <= m + 1
      OBVIOUS
    <3>5. \A i \in Ids : i <= w.max_order_id => i <= w.max_order_id + 1
      BY ONLY <3>3, <3>4
    <3> QED
      BY ONLY <3>1, <3>2, <3>5
  <2> QED
    BY <2>1, <2>3, <2>5, <2>6, <2>7
<1>4. CASE SendsCancel(w, d, s)
  <2>1. /\ w.quote[s].order_id \in Ids /\ d.max_order_id = w.max_order_id
        /\ d.requests = Append(w.requests, [kind |-> "cancel", side |-> s, id |-> w.quote[s].order_id])
        /\ d.quote[s].state = "CANCEL" /\ SameQuotes(w, d, Sides \ {s})
    BY <1>4, WorldFields, QuoteFields DEF SendsCancel, Ids
  <2>2. Creates(d) = Creates(w) /\ \A k \in Creates(w) : d.requests[k] = w.requests[k]
    BY <2>1, Queued DEF Creates
  <2>3. Fresh(d)
    BY <2>1, <2>2 DEF Fresh
  <2>4. Idle(d)
    BY <2>1 DEF Idle, SameQuotes
  <2> QED
    BY <1>1, <2>1, <2>3, <2>4
<1> QED
  BY <1>2, <1>3, <1>4

\* The Timer handler of a quote keeps what its requests and their answers rely on.
LEMMA SendQuoteStep ==
    ASSUME NEW w \in Worlds, NEW d \in Worlds, NEW s \in Sides, Idle(w), UpdatesKnown,
           order \in [Ids -> Orders],
           CanSend => \A i \in Ids : order[i].status # "none" => i <= w.max_order_id,
           Keeps(w, d) \/ SendsCreate(w, d, s) \/ SendsCancel(w, d, s),
           Owned(w), Created(w), Canceled(w)
    PROVE  Owned(d) /\ Created(d) /\ Canceled(d)
<1> USE MakerAssumption
<1>1. \A i \in WorkingIds : order[i].side \in Sides /\ i # 0
  BY DEF WorkingIds, Orders, Ids
<1>2. \A k \in Creates(w) \union Cancels(w) : w.requests[k].side \in Sides
  BY RequestFields
<1>3. CASE Keeps(w, d)
  <2>1. /\ Creates(d) = Creates(w) /\ Cancels(d) = Cancels(w) /\ d.requests = w.requests
        /\ \A t \in Sides : d.quote[t].order_id = w.quote[t].order_id /\ d.quote[t].state = w.quote[t].state
    BY <1>3 DEF Keeps, SameQuotes, Creates, Cancels
  <2>2. Owned(d)
    BY <1>1, <1>2, <2>1 DEF Owned
  <2>3. Created(d)
    BY <2>1 DEF Created
  <2>4. Canceled(d)
    BY <1>2, <2>1 DEF Canceled
  <2> QED
    BY <2>2, <2>3, <2>4
<1>4. CASE SendsCreate(w, d, s)
  <2> DEFINE id == w.max_order_id + 1
             n == Len(w.requests) + 1
  <2>1. /\ CanSend /\ id \in Ids /\ w.quote[s].state = "UNDEFINED"
        /\ d.requests = Append(w.requests, [kind |-> "create", side |-> s, id |-> id])
        /\ d.quote[s].state = "CREATE" /\ d.quote[s].order_id = id
        /\ \A t \in Sides \ {s} : /\ d.quote[t].order_id = w.quote[t].order_id
                                  /\ d.quote[t].state = w.quote[t].state
    BY <1>4 DEF SendsCreate, SameQuotes
  <2>2. order[id].status = "none" /\ w.quote[s].order_id = 0
    <3>1. w.max_order_id \in Nat
      BY WorldFields
    <3> QED
      BY <2>1, <3>1 DEF Idle
  <2> HIDE DEF id
  <2>3. /\ Creates(d) = Creates(w) \union {n} /\ d.requests[n].id = id /\ d.requests[n].side = s
        /\ Cancels(d) = Cancels(w)
        /\ \A k \in DOMAIN w.requests : d.requests[k] = w.requests[k]
    BY <2>1, Queued
  <2> HIDE DEF n
  <2>4. \A k \in Creates(w) : d.requests[k] = w.requests[k] /\ w.requests[k].side \in Sides \ {s}
    BY <1>2, <2>1, <2>3 DEF Owned, Creates
  <2>5. \A i \in WorkingIds : order[i].side \in Sides \ {s}
    BY <1>1, <2>2 DEF Owned
  <2>6. \A k \in DOMAIN inbox : ~IsCreated(k, s)
    BY <2>1 DEF Created
  <2>7. \A k \in DOMAIN inbox : IsUpdate(k) => inbox[k].id # id
    BY <2>2 DEF UpdatesKnown
  <2>8. Owned(d)
    <3>1. \A t \in Sides : LET q == d.quote[t] IN
            q.order_id # 0 /\ q.state \in {"WORKING", "CANCEL"} =>
               order[q.order_id].status # "none" /\ order[q.order_id].side = t
      BY <2>1 DEF Owned
    <3>2. \A i \in WorkingIds : LET q == d.quote[order[i].side] IN
            /\ q.order_id = i
            /\ q.state = "CREATE" => \E k \in DOMAIN inbox : IsCreated(k, order[i].side)
      BY <2>1, <2>5 DEF Owned
    <3>3. ASSUME NEW k \in Creates(d)
          PROVE  LET q == d.quote[d.requests[k].side] IN
                 q.order_id = d.requests[k].id /\ q.state = "CREATE"
      <4>1. CASE k = n
        BY <2>1, <2>3, <4>1
      <4>2. CASE k \in Creates(w)
        <5>1. d.requests[k] = w.requests[k] /\ w.requests[k].side \in Sides \ {s}
          BY <2>4, <4>2
        <5>2. LET q == w.quote[w.requests[k].side] IN
              q.order_id = w.requests[k].id /\ q.state = "CREATE"
          BY <4>2 DEF Owned
        <5> QED
          BY <2>1, <5>1, <5>2
      <4> QED
        BY <2>3, <4>1, <4>2
    <3> QED
      BY <3>1, <3>2, <3>3 DEF Owned
  <2>9. Created(d)
    <3>1. ASSUME NEW t \in Sides
          PROVE  LET q == d.quote[t] IN
                 /\ \A k \in DOMAIN inbox : IsCreated(k, t) =>
                      /\ q.order_id = inbox[k].id /\ q.state = "CREATE"
                      /\ order[q.order_id].status # "none" /\ order[q.order_id].side = t
                      /\ \A l \in DOMAIN inbox : IsCreated(l, t) => k = l
                 /\ \A l \in DOMAIN inbox :
                      IsUpdate(l) /\ inbox[l].side = t /\ inbox[l].id = q.order_id /\ q.state = "CREATE" =>
                         \E k \in 1..(l - 1) : IsCreated(k, t)
      <4>1. CASE t = s
        BY <2>1, <2>6, <2>7, <4>1
      <4>2. CASE t # s
        BY <2>1, <4>2 DEF Created
      <4> QED
        BY <4>1, <4>2
    <3> QED
      BY <3>1 DEF Created
  <2>10. Canceled(d)
    <3>1. ASSUME NEW k \in Cancels(d)
          PROVE  LET r == d.requests[k] IN
                 /\ order[r.id].status # "none" /\ order[r.id].side = r.side
                 /\ d.quote[r.side].state # "WORKING"
                 /\ d.quote[r.side].state = "CANCEL" => d.quote[r.side].order_id \in {0, r.id}
                 /\ \A l \in DOMAIN inbox : ~IsCreated(l, r.side)
      <4>1. k \in Cancels(w) /\ d.requests[k] = w.requests[k] /\ w.requests[k].side \in Sides
        BY <1>2, <2>3 DEF Cancels
      <4>2. LET r == w.requests[k] IN
            /\ order[r.id].status # "none" /\ order[r.id].side = r.side
            /\ w.quote[r.side].state # "WORKING"
            /\ w.quote[r.side].state = "CANCEL" => w.quote[r.side].order_id \in {0, r.id}
            /\ \A l \in DOMAIN inbox : ~IsCreated(l, r.side)
        BY <4>1 DEF Canceled
      <4>3. CASE w.requests[k].side = s
        BY <2>1, <4>1, <4>2, <4>3
      <4>4. CASE w.requests[k].side # s
        <5>1. w.requests[k].side \in Sides \ {s}
          BY <4>1, <4>4
        <5> QED
          BY <2>1, <4>1, <4>2, <5>1
      <4> QED
        BY <4>3, <4>4
    <3>2. ASSUME NEW t \in Sides, NEW k \in DOMAIN inbox, IsCancelAck(k, t)
          PROVE  /\ order[inbox[k].id].status \notin {"none", "working"}
                 /\ d.quote[t].state # "WORKING"
                 /\ d.quote[t].state = "CANCEL" => d.quote[t].order_id \in {0, inbox[k].id}
                 /\ \A l \in DOMAIN inbox : IsCreated(l, t) => k < l
      BY <2>1, <2>6, <3>2 DEF Canceled
    <3>3. ASSUME NEW k \in Cancels(d), NEW l \in Creates(d), d.requests[l].side = d.requests[k].side
          PROVE  k < l
      <4>1. k \in Cancels(w) /\ k \in DOMAIN w.requests /\ d.requests[k] = w.requests[k]
        BY <2>3 DEF Cancels
      <4>2. CASE l = n
        <5>1. k \in 1..Len(w.requests) /\ Len(w.requests) \in Nat
          <6>1. w.requests \in Seq(Requests)
            BY WorldFields
          <6> HIDE DEF Requests
          <6> QED
            BY <4>1, <6>1, LenProperties
        <5> QED
          BY <4>2, <5>1 DEF n
      <4>3. CASE l \in Creates(w)
        <5>1. d.requests[l] = w.requests[l]
          BY <2>4, <4>3
        <5> QED
          BY <3>3, <4>1, <4>3, <5>1 DEF Canceled
      <4> QED
        BY <2>3, <4>2, <4>3
    <3> QED
      BY <3>1, <3>2, <3>3 DEF Canceled
  <2> QED
    BY <2>8, <2>9, <2>10
<1>5. CASE SendsCancel(w, d, s)
  <2> DEFINE id == w.quote[s].order_id
             n == Len(w.requests) + 1
  <2>1. /\ w.quote[s].state = "WORKING" /\ id # 0
        /\ d.requests = Append(w.requests, [kind |-> "cancel", side |-> s, id |-> id])
        /\ d.quote[s].state = "CANCEL" /\ d.quote[s].order_id = id
        /\ \A t \in Sides \ {s} : /\ d.quote[t].order_id = w.quote[t].order_id
                                  /\ d.quote[t].state = w.quote[t].state
    BY <1>5 DEF SendsCancel, SameQuotes
  <2>2. id \in Ids
    BY <2>1, WorldFields, QuoteFields DEF Ids
  <2> HIDE DEF id
  <2>3. /\ Creates(d) = Creates(w) /\ d.requests[n].id = id /\ d.requests[n].side = s
        /\ Cancels(d) = Cancels(w) \union {n}
        /\ \A k \in DOMAIN w.requests : d.requests[k] = w.requests[k]
    BY <2>1, <2>2, Queued
  <2> HIDE DEF n
  <2>4. \A k \in Creates(w) : d.requests[k] = w.requests[k] /\ w.requests[k].side \in Sides \ {s}
    BY <1>2, <2>1, <2>3 DEF Owned, Creates
  <2>5. \A k \in Cancels(w) : d.requests[k] = w.requests[k] /\ w.requests[k].side \in Sides \ {s}
    BY <1>2, <2>1, <2>3 DEF Canceled, Cancels
  <2>6. \A k \in DOMAIN inbox : ~IsCreated(k, s) /\ ~IsCancelAck(k, s)
    BY <2>1 DEF Created, Canceled
  <2>7. order[id].status # "none" /\ order[id].side = s
    BY <2>1 DEF Owned, id
  <2>8. Owned(d)
    <3>1. \A t \in Sides : LET q == d.quote[t] IN
            q.order_id # 0 /\ q.state \in {"WORKING", "CANCEL"} =>
               order[q.order_id].status # "none" /\ order[q.order_id].side = t
      BY <2>1, <2>7 DEF Owned
    <3>2. \A i \in WorkingIds : LET q == d.quote[order[i].side] IN
            /\ q.order_id = i
            /\ q.state = "CREATE" => \E k \in DOMAIN inbox : IsCreated(k, order[i].side)
      BY <1>1, <2>1 DEF Owned, id
    <3>3. ASSUME NEW k \in Creates(d)
          PROVE  LET q == d.quote[d.requests[k].side] IN
                 q.order_id = d.requests[k].id /\ q.state = "CREATE"
      <4>1. k \in Creates(w)
        BY <2>3
      <4>2. d.requests[k] = w.requests[k] /\ w.requests[k].side \in Sides \ {s}
        BY <2>4, <4>1
      <4>3. LET q == w.quote[w.requests[k].side] IN
            q.order_id = w.requests[k].id /\ q.state = "CREATE"
        BY <4>1 DEF Owned
      <4> QED
        BY <2>1, <4>2, <4>3
    <3> QED
      BY <3>1, <3>2, <3>3 DEF Owned
  <2>9. Created(d)
    BY <2>1, <2>6 DEF Created
  <2>10. Canceled(d)
    <3>1. ASSUME NEW k \in Cancels(d)
          PROVE  LET r == d.requests[k] IN
                 /\ order[r.id].status # "none" /\ order[r.id].side = r.side
                 /\ d.quote[r.side].state # "WORKING"
                 /\ d.quote[r.side].state = "CANCEL" => d.quote[r.side].order_id \in {0, r.id}
                 /\ \A l \in DOMAIN inbox : ~IsCreated(l, r.side)
      <4>1. CASE k = n
        BY <2>1, <2>3, <2>6, <2>7, <4>1
      <4>2. CASE k \in Cancels(w)
        <5>1. d.requests[k] = w.requests[k] /\ w.requests[k].side \in Sides \ {s}
          BY <2>5, <4>2
        <5>2. LET r == w.requests[k] IN
              /\ order[r.id].status # "none" /\ order[r.id].side = r.side
              /\ w.quote[r.side].state # "WORKING"
              /\ w.quote[r.side].state = "CANCEL" => w.quote[r.side].order_id \in {0, r.id}
              /\ \A l \in DOMAIN inbox : ~IsCreated(l, r.side)
          BY <4>2 DEF Canceled
        <5> QED
          BY <2>1, <5>1, <5>2
      <4> QED
        BY <2>3, <4>1, <4>2
    <3>2. ASSUME NEW t \in Sides, NEW k \in DOMAIN inbox, IsCancelAck(k, t)
          PROVE  /\ order[inbox[k].id].status \notin {"none", "working"}
                 /\ d.quote[t].state # "WORKING"
                 /\ d.quote[t].state = "CANCEL" => d.quote[t].order_id \in {0, inbox[k].id}
                 /\ \A l \in DOMAIN inbox : IsCreated(l, t) => k < l
      <4>1. t \in Sides \ {s}
        BY <2>6, <3>2
      <4> QED
        BY <2>1, <3>2, <4>1 DEF Canceled
    <3>3. ASSUME NEW k \in Cancels(d), NEW l \in Creates(d), d.requests[l].side = d.requests[k].side
          PROVE  k < l
      <4>1. CASE k = n
        BY <2>3, <2>4, <3>3, <4>1
      <4>2. CASE k \in Cancels(w)
        <5>1. /\ l \in Creates(w) /\ d.requests[l] = w.requests[l] /\ d.requests[k] = w.requests[k]
          BY <2>3, <2>4, <2>5, <4>2
        <5> QED
          BY <3>3, <4>2, <5>1 DEF Canceled
      <4> QED
        BY <2>3, <4>1, <4>2
    <3> QED
      BY <3>1, <3>2, <3>3 DEF Canceled
  <2> QED
    BY <2>8, <2>9, <2>10
<1> QED
  BY <1>3, <1>4, <1>5

-----------------------------------------------------------------------------
(***************************************************************************)
(* Steps that neither the gateway's orders nor its events take part in.    *)
(***************************************************************************)

LEMMA Fields ==
    ASSUME TypeOK
    PROVE  /\ quote \in [Sides -> Quotes] /\ requests \in Seq(Requests)
           /\ max_order_id \in 0..MaxOrders /\ halted \in {"no", "nan", "error", "state"}
           /\ World.quote = quote /\ World.requests = requests
           /\ World.max_order_id = max_order_id /\ World.halted = halted
<1>1. /\ World.quote = quote /\ World.requests = requests
      /\ World.max_order_id = max_order_id /\ World.halted = halted
  BY DEF World
<1> QED
  BY <1>1, WorldFields DEF TypeOK

LEMMA WorldNext ==
    /\ World'.quote = quote' /\ World'.requests = requests'
    /\ World'.max_order_id = max_order_id' /\ World'.halted = halted'
BY DEF World

LEMMA WorldType ==
    ASSUME quote' \in [Sides -> Quotes], requests' \in Seq(Requests),
           max_order_id' \in 0..MaxOrders, halted' \in {"no", "nan", "error", "state"}
    PROVE  World' \in Worlds
<1> HIDE DEF Quotes, Requests
<1> QED
  BY DEF World, Worlds

\* What depends on the orders and the events only.
LEMMA QuietStep ==
    ASSUME MakerInv, UNCHANGED <<order, inbox, position, disconnects>>
    PROVE  Highest' /\ UpdatesKnown' /\ FillsOnce' /\ Counted'
<1>1. Highest'
  BY DEF MakerInv, Highest, IsHighest, Ids
<1>2. UpdatesKnown' /\ FillsOnce'
  BY DEF MakerInv, UpdatesKnown, FillsOnce, IsUpdate, IsFill
<1>3. \A s \in Sides : Reported(s)' = Reported(s)
  BY DEF Reported, IsFill, IsUpdate, Ids
<1>4. Counted'
  BY <1>3 DEF MakerInv, Counted, Sides
<1> QED
  BY <1>1, <1>2, <1>4

\* What depends on the quotes and requests too.
LEMMA SameWire ==
    ASSUME NEW a, World' = a, UNCHANGED <<order, inbox>>
    PROVE  /\ Idle(a) => Idle(World)'
           /\ Fresh(a) => Fresh(World)'
           /\ Owned(a) => Owned(World)'
           /\ Created(a) => Created(World)'
           /\ Canceled(a) => Canceled(World)'
<1>1. WorkingIds' = WorkingIds
  BY DEF WorkingIds, Ids
<1>2. \A k, s : /\ IsCreated(k, s)' <=> IsCreated(k, s)
                /\ IsCancelAck(k, s)' <=> IsCancelAck(k, s)
                /\ IsUpdate(k)' <=> IsUpdate(k)
  BY DEF IsCreated, IsCancelAck, IsUpdate
<1>3. Creates(World)' = Creates(a) /\ Cancels(World)' = Cancels(a)
  BY DEF Creates, Cancels
<1>4. Idle(a) => Idle(World)'
  BY DEF Idle, Sides
<1>5. Fresh(a) => Fresh(World)'
  BY <1>3 DEF Fresh
<1>6. Owned(a) => Owned(World)'
  BY <1>1, <1>2, <1>3 DEF Owned, Sides
<1>7. Created(a) => Created(World)'
  BY <1>2 DEF Created, Sides
<1>8. Canceled(a) => Canceled(World)'
  BY <1>2, <1>3 DEF Canceled, Sides
<1> QED
  BY <1>4, <1>5, <1>6, <1>7, <1>8

\* Both quotes in turn, the second one unless the first ended the process.
LEMMA TimerWorlds ==
    ASSUME MakerInv, Timer
    PROVE  \E a, b \in Worlds :
              /\ World' = a
              /\ Idle(b) /\ Fresh(b) /\ World.max_order_id <= b.max_order_id
              /\ Idle(a) /\ Fresh(a) /\ b.max_order_id <= a.max_order_id
              /\ CanSend => /\ \A i \in Ids : order[i].status # "none" => i <= World.max_order_id
                            /\ \A i \in Ids : order[i].status # "none" => i <= b.max_order_id
                            /\ \A i \in Ids : order[i].status # "none" => i <= a.max_order_id
              /\ Keeps(World, b) \/ SendsCreate(World, b, "BUY") \/ SendsCancel(World, b, "BUY")
              /\ Keeps(b, a) \/ SendsCreate(b, a, "SELL") \/ SendsCancel(b, a, "SELL")
<1> USE MakerAssumption
<1>1. /\ Running /\ ready
      /\ UNCHANGED <<ready, tick, mid, position, inbox, order, link, disconnects>>
  BY DEF Timer, can_trade, strategy
<1>2. PICK b \in quote_timer(World, "BUY") :
        \E a \in (IF b.halted = "no" THEN quote_timer(b, "SELL") ELSE {b}) :
           /\ quote' = a.quote /\ requests' = a.requests
           /\ max_order_id' = a.max_order_id /\ halted' = a.halted
  BY DEF Timer, World
<1>3. PICK a \in (IF b.halted = "no" THEN quote_timer(b, "SELL") ELSE {b}) :
         /\ quote' = a.quote /\ requests' = a.requests
         /\ max_order_id' = a.max_order_id /\ halted' = a.halted
  BY <1>2
<1>4. /\ World \in Worlds /\ World.halted = "no" /\ Idle(World) /\ Fresh(World)
      /\ World.max_order_id = max_order_id /\ World.requests = requests
  BY <1>1, Fields DEF MakerInv, TypeOK, Running
<1>5. CanSend => link = "up"
  BY <1>1 DEF MakerInv, Linked, CanSend
<1>6. CanSend => \A i \in Ids : order[i].status # "none" => i <= World.max_order_id
  BY <1>4, <1>5 DEF MakerInv, Linked
<1>7. /\ b \in Worlds
      /\ \/ Keeps(World, b)
         \/ b.halted = "no" /\ (SendsCreate(World, b, "BUY") \/ SendsCancel(World, b, "BUY"))
  BY <1>2, <1>4, QuoteTimer DEF Sides
<1>8. /\ Idle(b) /\ Fresh(b) /\ World.max_order_id <= b.max_order_id
      /\ CanSend => \A i \in Ids : order[i].status # "none" => i <= b.max_order_id
  BY <1>4, <1>6, <1>7, SendStep DEF Sides
<1>9. /\ a \in Worlds
      /\ \/ Keeps(b, a)
         \/ a.halted = "no" /\ (SendsCreate(b, a, "SELL") \/ SendsCancel(b, a, "SELL"))
  <2>1. CASE b.halted = "no"
    BY <1>3, <1>7, <1>8, <2>1, QuoteTimer DEF Sides
  <2>2. CASE b.halted # "no"
    BY <1>3, <1>7, <2>2 DEF Keeps, SameQuotes
  <2> QED
    BY <2>1, <2>2
<1>10. /\ Idle(a) /\ Fresh(a) /\ b.max_order_id <= a.max_order_id
       /\ CanSend => \A i \in Ids : order[i].status # "none" => i <= a.max_order_id
  BY <1>7, <1>8, <1>9, SendStep DEF Sides
<1>11. World' = a
  <2>1. a = [quote |-> a.quote, requests |-> a.requests, max_order_id |-> a.max_order_id,
             halted |-> a.halted]
    <3> HIDE DEF Quotes, Requests
    <3> QED
      BY <1>9 DEF Worlds
  <2> QED
    BY <1>3, <2>1, Zenon DEF World
<1> QED
  BY <1>6, <1>7, <1>8, <1>9, <1>10, <1>11

LEMMA TimerStep ==
    ASSUME MakerInv, Timer
    PROVE  MakerInv' /\ (QuoteInv => QuoteInv')
<1>1. /\ Running /\ ready
      /\ UNCHANGED <<ready, tick, mid, position, inbox, order, link, disconnects>>
  BY DEF Timer, can_trade, strategy
<1>2. PICK a, b \in Worlds :
        /\ World' = a
        /\ Idle(b) /\ Fresh(b) /\ World.max_order_id <= b.max_order_id
        /\ Idle(a) /\ Fresh(a) /\ b.max_order_id <= a.max_order_id
        /\ CanSend => /\ \A i \in Ids : order[i].status # "none" => i <= World.max_order_id
                      /\ \A i \in Ids : order[i].status # "none" => i <= b.max_order_id
                      /\ \A i \in Ids : order[i].status # "none" => i <= a.max_order_id
        /\ Keeps(World, b) \/ SendsCreate(World, b, "BUY") \/ SendsCancel(World, b, "BUY")
        /\ Keeps(b, a) \/ SendsCreate(b, a, "SELL") \/ SendsCancel(b, a, "SELL")
  BY TimerWorlds
<1>3. /\ World \in Worlds /\ Idle(World) /\ World.requests = requests
      /\ requests' = a.requests /\ max_order_id' = a.max_order_id
  BY <1>2, Fields, WorldNext DEF MakerInv, TypeOK
<1>4. Idle(World)' /\ Fresh(World)'
  BY <1>1, <1>2, SameWire
<1>5. TypeOK'
  BY <1>1, <1>2 DEF MakerInv, TypeOK
<1>6. Linked'
  <2>1. CanSend => link = "up"
    BY <1>1 DEF MakerInv, Linked, CanSend
  <2>2. link # "up" => requests' = requests
    BY <1>2, <1>3, <2>1 DEF Keeps, SendsCreate, SendsCancel
  <2>3. WorkingIds' = WorkingIds
    BY <1>1 DEF WorkingIds, Ids
  <2>4. link \in {"synced", "up"} => CanSend
    BY DEF CanSend
  <2> QED
    BY <1>1, <1>2, <1>3, <2>2, <2>3, <2>4 DEF MakerInv, Linked
<1>7. MakerInv'
  BY <1>1, <1>4, <1>5, <1>6, QuietStep DEF MakerInv
<1>8. ASSUME QuoteInv PROVE QuoteInv'
  <2>1. Owned(World) /\ Created(World) /\ Canceled(World)
    BY <1>1, <1>8 DEF QuoteInv
  <2>2. UpdatesKnown /\ order \in [Ids -> Orders]
    BY DEF MakerInv, TypeOK
  <2>3. Owned(b) /\ Created(b) /\ Canceled(b)
    BY <1>2, <1>3, <2>1, <2>2, SendQuoteStep DEF Sides
  <2>4. Owned(a) /\ Created(a) /\ Canceled(a)
    BY <1>2, <2>2, <2>3, SendQuoteStep DEF Sides
  <2> QED
    BY <1>1, <1>2, <2>4, SameWire DEF QuoteInv
<1> QED
  BY <1>7, <1>8

\* Nothing that the invariants speak of changes, but the highest order id may grow.
LEMMA KeepStep ==
    ASSUME MakerInv, UNCHANGED <<order, inbox, position, disconnects, requests, halted>>,
           quote' \in [Sides -> Quotes], max_order_id' \in 0..MaxOrders,
           max_order_id <= max_order_id',
           \A s \in Sides : /\ quote'[s].order_id = quote[s].order_id
                            /\ quote'[s].state = quote[s].state,
           mid' \in Int, ready' \in BOOLEAN, tick' \in BOOLEAN, Linked'
    PROVE  MakerInv' /\ (QuoteInv => QuoteInv')
<1>1. /\ quote \in [Sides -> Quotes] /\ requests \in Seq(Requests)
      /\ max_order_id \in 0..MaxOrders /\ halted \in {"no", "nan", "error", "state"}
      /\ World.quote = quote /\ World.requests = requests
      /\ World.max_order_id = max_order_id
  BY Fields DEF MakerInv
<1>2. TypeOK'
  <2>1. World' \in Worlds
    BY <1>1, WorldType
  <2> QED
    BY <2>1 DEF MakerInv, TypeOK
<1>3. Creates(World)' = Creates(World) /\ Cancels(World)' = Cancels(World)
  BY <1>1, WorldNext DEF Creates, Cancels
<1>4. Idle(World)'
  BY <1>1, WorldNext DEF MakerInv, Idle, Sides
<1>5. Fresh(World)'
  <2>1. \A k \in Creates(World) : requests[k].id \in Int
    <3>1. World \in Worlds
      BY DEF MakerInv, TypeOK
    <3>2. \A k \in Creates(World) : World.requests[k].id \in Ids
      BY <3>1, RequestFields
    <3> QED
      BY <1>1, <3>2 DEF Ids
  <2> QED
    BY <1>1, <1>3, <2>1, WorldNext, MakerAssumption DEF MakerInv, Fresh
<1>6. MakerInv'
  BY <1>2, <1>4, <1>5, QuietStep DEF MakerInv
<1>7. ASSUME QuoteInv, Running' PROVE Owned(World)' /\ Created(World)' /\ Canceled(World)'
  <2>1. Owned(World) /\ Created(World) /\ Canceled(World)
    BY <1>7 DEF QuoteInv, Running
  <2>2. WorkingIds' = WorkingIds
    BY DEF WorkingIds, Ids
  <2>3. \A k, s : /\ IsCreated(k, s)' <=> IsCreated(k, s)
                  /\ IsCancelAck(k, s)' <=> IsCancelAck(k, s)
                  /\ IsUpdate(k)' <=> IsUpdate(k)
    BY DEF IsCreated, IsCancelAck, IsUpdate
  <2>4. /\ \A i \in WorkingIds : order[i].side \in Sides
        /\ \A k \in Creates(World) \union Cancels(World) : requests[k].side \in Sides
    <3>1. World \in Worlds /\ order \in [Ids -> Orders]
      BY DEF MakerInv, TypeOK
    <3>2. \A k \in Creates(World) \union Cancels(World) : World.requests[k].side \in Sides
      BY <3>1, RequestFields
    <3> QED
      BY <1>1, <3>1, <3>2 DEF WorkingIds, Orders
  <2>5. Owned(World)'
    BY <1>1, <1>3, <2>1, <2>2, <2>3, <2>4, WorldNext DEF Owned, Sides, Creates
  <2>6. Created(World)'
    BY <1>1, <2>1, <2>3, WorldNext DEF Created, Sides
  <2>7. Canceled(World)'
    BY <1>1, <1>3, <2>1, <2>3, <2>4, WorldNext DEF Canceled, Sides, Cancels
  <2> QED
    BY <2>5, <2>6, <2>7
<1> QED
  BY <1>6, <1>7 DEF QuoteInv

LEMMA ClearedQuote ==
    ASSUME NEW q \in Quotes
    PROVE  clear(q) \in Quotes /\ clear(q).order_id = 0 /\ clear(q).state = q.state
<1>1. NaN \in Int /\ 0 \in 0..MaxOrders
  BY MakerAssumption DEF NaN
<1> QED
  BY <1>1 DEF Quotes, clear

LEMMA TargetUpdated ==
    ASSUME NEW q \in Quotes, NEW price \in Int
    PROVE  LET n == update_target_price(q, price)
           IN  n \in Quotes /\ n.order_id = q.order_id /\ n.state = q.state
BY DEF Quotes, update_target_price

LEMMA LinkedStep ==
    ASSUME MakerInv, UNCHANGED <<order, inbox, requests, max_order_id, link, ready>>
    PROVE  Linked'
<1>1. WorkingIds' = WorkingIds
  BY DEF WorkingIds, Ids
<1> QED
  BY <1>1 DEF MakerInv, Linked, Ids

\* The market data and the connection.
LEMMA MarketStep ==
    ASSUME MakerInv, \/ ReferenceData \/ (\E o \in BOOLEAN : MarketStatus(o))
                     \/ (\E m \in Mids \union {NaN} : TopOfBook(m)) \/ Stopped \/ UNCHANGED vars
    PROVE  MakerInv' /\ (QuoteInv => QuoteInv')
<1> USE MakerAssumption
<1>1. /\ quote \in [Sides -> Quotes] /\ max_order_id \in 0..MaxOrders
      /\ mid \in Int /\ ready \in BOOLEAN /\ tick \in BOOLEAN /\ position \in Int
  BY Fields DEF MakerInv, TypeOK
<1>2. UNCHANGED <<order, inbox, position, disconnects, requests, halted, max_order_id, link, ready>>
  BY DEF ReferenceData, MarketStatus, TopOfBook, Stopped, vars, wire, shared, strategy
<1>3. Linked'
  BY <1>2, LinkedStep
<1>4. tick' \in BOOLEAN
  BY <1>1 DEF ReferenceData, MarketStatus, TopOfBook, Stopped, vars, strategy
<1>5. /\ quote' \in [Sides -> Quotes] /\ mid' \in Int
      /\ \A s \in Sides : /\ quote'[s].order_id = quote[s].order_id
                          /\ quote'[s].state = quote[s].state
  <2>1. CASE UNCHANGED <<mid, quote>>
    BY <1>1, <2>1
  <2>2. CASE \E m \in Mids \union {NaN} : mid' = m /\ quote' = update_quotes(m)
    <3>1. PICK m \in Mids \union {NaN} : mid' = m /\ quote' = update_quotes(m)
      BY <2>2
    <3>2. m \in Int /\ NaN \in Int
      BY DEF NaN
    <3>3. ASSUME NEW s \in Sides
          PROVE  /\ update_quotes(m)[s] \in Quotes
                 /\ update_quotes(m)[s].order_id = quote[s].order_id
                 /\ update_quotes(m)[s].state = quote[s].state
      <4> DEFINE price == IF tick THEN target_price(s, m) ELSE NaN
      <4>1. price \in Int
        BY <1>1, <3>2 DEF target_price, skew
      <4>2. update_quotes(m)[s] = IF m = NaN THEN quote[s] ELSE update_target_price(quote[s], price)
        BY DEF update_quotes
      <4> HIDE DEF price
      <4> QED
        BY <1>1, <4>1, <4>2, TargetUpdated
    <3>4. update_quotes(m) \in [Sides -> Quotes]
      BY <3>3 DEF update_quotes
    <3> QED
      BY <3>1, <3>2, <3>3, <3>4
  <2> QED
    BY <2>1, <2>2 DEF ReferenceData, MarketStatus, TopOfBook, Stopped, vars, shared, strategy
<1> QED
  BY <1>1, <1>2, <1>3, <1>4, <1>5, KeepStep

LEMMA ConnectStep ==
    ASSUME MakerInv, Connect
    PROVE  MakerInv' /\ (QuoteInv => QuoteInv')
<1>1. /\ quote \in [Sides -> Quotes] /\ max_order_id \in 0..MaxOrders
      /\ mid \in Int /\ ready \in BOOLEAN /\ tick \in BOOLEAN
  BY Fields DEF MakerInv, TypeOK
<1>2. /\ UNCHANGED <<order, inbox, position, disconnects, requests, halted, max_order_id, quote,
                     ready, mid, tick>>
      /\ link = "down" /\ link' = "downloading"
  BY DEF Connect, shared, strategy
<1>3. Linked'
  <2>1. WorkingIds' = WorkingIds
    BY <1>2 DEF WorkingIds, Ids
  <2> QED
    BY <1>2, <2>1 DEF MakerInv, Linked
<1> QED
  BY <1>1, <1>2, <1>3, MakerAssumption, KeepStep

\* After the download every known order id is counted.
LEMMA DownloadEndStep ==
    ASSUME MakerInv, DownloadEnd
    PROVE  MakerInv' /\ (QuoteInv => QuoteInv')
<1> USE MakerAssumption
<1>1. /\ quote \in [Sides -> Quotes] /\ max_order_id \in 0..MaxOrders
      /\ mid \in Int /\ ready \in BOOLEAN /\ tick \in BOOLEAN
  BY Fields DEF MakerInv, TypeOK
<1>2. /\ UNCHANGED <<order, inbox, position, disconnects, requests, halted, quote,
                     ready, mid, tick>>
      /\ link = "downloading" /\ link' = "synced" /\ max_order_id' = download_end
  BY DEF DownloadEnd, strategy
<1>3. GatewayMaxOrderId \in Ids /\ IsHighest(GatewayMaxOrderId)
  <2>1. \E m \in Ids : /\ order[m].status # "none"
                       /\ \A i \in Ids : order[i].status # "none" => i <= m
    BY DEF MakerInv, Highest, IsHighest
  <2> QED
    BY <2>1 DEF GatewayMaxOrderId, IsHighest
<1> HIDE DEF GatewayMaxOrderId
<1>4. /\ max_order_id' \in 0..MaxOrders /\ max_order_id <= max_order_id'
      /\ GatewayMaxOrderId <= max_order_id'
  BY <1>1, <1>2, <1>3 DEF download_end, Ids
<1>5. \A i \in Ids : order[i].status # "none" => i <= max_order_id'
  BY <1>1, <1>3, <1>4 DEF IsHighest, Ids
<1>6. Linked'
  <2>1. WorkingIds' = WorkingIds
    BY <1>2 DEF WorkingIds, Ids
  <2> QED
    BY <1>2, <1>5, <2>1 DEF MakerInv, Linked
<1> QED
  BY <1>1, <1>2, <1>4, <1>6, KeepStep

LEMMA NoneQueued ==
    /\ << >> \in Seq(Requests) /\ << >> \in Seq(Events)
    /\ DOMAIN << >> = {}
<1> HIDE DEF Requests, Events
<1> QED
  OBVIOUS

\* Nothing is under way and no order rests.
LEMMA NothingUnderWay ==
    ASSUME Creates(World)' = {}, Cancels(World)' = {}, inbox' = << >>, WorkingIds' = {}
    PROVE  /\ Fresh(World)' /\ UpdatesKnown' /\ FillsOnce'
           /\ Created(World)' /\ Canceled(World)'
           /\ (\A s \in Sides : quote'[s].order_id # 0 /\ quote'[s].state \in {"WORKING", "CANCEL"} =>
                 /\ order'[quote'[s].order_id].status # "none"
                 /\ order'[quote'[s].order_id].side = s) => Owned(World)'
<1>1. DOMAIN inbox' = {}
  BY NoneQueued
<1>2. Fresh(World)'
  BY DEF Fresh
<1>3. UpdatesKnown' /\ FillsOnce'
  BY <1>1 DEF UpdatesKnown, FillsOnce
<1>4. Created(World)' /\ Canceled(World)'
  BY <1>1 DEF Created, Canceled
<1>5. (\A s \in Sides : quote'[s].order_id # 0 /\ quote'[s].state \in {"WORKING", "CANCEL"} =>
         /\ order'[quote'[s].order_id].status # "none"
         /\ order'[quote'[s].order_id].side = s) => Owned(World)'
  BY WorldNext DEF Owned, Sides
<1> QED
  BY <1>2, <1>3, <1>4, <1>5

\* The quotes are cleared, their states are not.
LEMMA DisconnectedStep ==
    ASSUME MakerInv, Disconnected
    PROVE  MakerInv' /\ (QuoteInv => QuoteInv')
<1> USE MakerAssumption
<1>1. /\ quote \in [Sides -> Quotes] /\ max_order_id \in 0..MaxOrders
      /\ requests \in Seq(Requests) /\ halted \in {"no", "nan", "error", "state"}
      /\ mid \in Int /\ ready \in BOOLEAN /\ tick \in BOOLEAN
  BY Fields DEF MakerInv, TypeOK
<1>2. /\ UNCHANGED <<order, inbox, position, disconnects, requests, halted, max_order_id, tick>>
      /\ link = "lost" /\ link' = "down" /\ ready' = FALSE /\ mid' = NaN
      /\ quote' = [s \in Sides |-> clear(quote[s])]
  BY DEF Disconnected
<1>3. /\ quote' \in [Sides -> Quotes] /\ \A s \in Sides : quote'[s].order_id = 0
  <2>1. \A s \in Sides : /\ clear(quote[s]) \in Quotes /\ clear(quote[s]).order_id = 0
    BY <1>1, ClearedQuote
  <2> QED
    BY <1>2, <2>1
<1>4. requests' = << >> /\ inbox' = << >> /\ WorkingIds' = {}
  <2>1. WorkingIds' = WorkingIds
    BY <1>2 DEF WorkingIds, Ids
  <2> QED
    BY <1>2, <2>1 DEF MakerInv, Linked
<1>5. TypeOK'
  <2>1. World' \in Worlds
    BY <1>1, <1>2, <1>3, WorldType
  <2>2. NaN \in Int
    BY DEF NaN
  <2> QED
    BY <1>1, <1>2, <2>1, <2>2 DEF MakerInv, TypeOK
<1>6. Linked' /\ Idle(World)'
  BY <1>2, <1>3, <1>4, WorldNext DEF Linked, Idle, Sides
<1>7. Creates(World)' = {} /\ Cancels(World)' = {}
  BY <1>4, WorldNext, NoneQueued DEF Creates, Cancels
<1>8. Fresh(World)' /\ Owned(World)' /\ Created(World)' /\ Canceled(World)'
  BY <1>3, <1>4, <1>7, NothingUnderWay
<1>9. MakerInv'
  BY <1>2, <1>5, <1>6, <1>8, QuietStep DEF MakerInv
<1> QED
  BY <1>8, <1>9 DEF QuoteInv

\* The orders that earlier sessions left are canceled.
LEMMA ReadyStep ==
    ASSUME MakerInv, Ready
    PROVE  MakerInv' /\ (QuoteInv => QuoteInv')
<1> USE MakerAssumption
<1> DEFINE r == [kind |-> "cancel_all", side |-> "BUY", id |-> 0]
<1>1. /\ quote \in [Sides -> Quotes] /\ max_order_id \in 0..MaxOrders
      /\ requests \in Seq(Requests) /\ halted \in {"no", "nan", "error", "state"}
      /\ mid \in Int /\ ready \in BOOLEAN /\ tick \in BOOLEAN /\ World.quote = quote
  BY Fields DEF MakerInv, TypeOK
<1>2. /\ UNCHANGED <<order, inbox, position, disconnects, halted, max_order_id, tick, mid, quote>>
      /\ link = "synced" /\ link' = "up" /\ ready' = TRUE /\ requests' = Append(requests, r)
  BY DEF Ready, shared
<1>3. r \in Requests /\ r.kind = "cancel_all"
  BY DEF Requests
<1> HIDE DEF r
<1>4. requests = << >> /\ inbox' = << >> /\ WorkingIds' = {}
  <2>1. WorkingIds' = WorkingIds
    BY <1>2 DEF WorkingIds, Ids
  <2> QED
    BY <1>2, <2>1 DEF MakerInv, Linked
<1>5. requests' \in Seq(Requests) /\ \A k \in DOMAIN requests' : requests'[k] = r
  <2>1. requests' \in Seq(Requests)
    <3> HIDE DEF Requests
    <3> QED
      BY <1>1, <1>2, <1>3, AppendProperties
  <2>2. \A k \in DOMAIN Append(requests, r) : Append(requests, r)[k] = r
    BY <1>1, <1>3, <1>4, Appended, NoneQueued
  <2> QED
    BY <1>2, <2>1, <2>2
<1>6. TypeOK'
  <2>1. World' \in Worlds
    BY <1>1, <1>2, <1>5, WorldType
  <2> QED
    BY <1>2, <2>1 DEF MakerInv, TypeOK
<1>7. Linked' /\ Idle(World)'
  <2>1. Linked'
    BY <1>2 DEF MakerInv, Linked, Ids
  <2>2. Idle(World)'
    BY <1>1, <1>2, WorldNext DEF MakerInv, Idle, Sides
  <2> QED
    BY <2>1, <2>2
<1>8. Creates(World)' = {} /\ Cancels(World)' = {}
  BY <1>3, <1>5, WorldNext DEF Creates, Cancels
<1>9. Fresh(World)' /\ Created(World)' /\ Canceled(World)'
  BY <1>4, <1>8, NothingUnderWay
<1>10. MakerInv'
  BY <1>2, <1>6, <1>7, <1>9, QuietStep DEF MakerInv
<1>11. ASSUME QuoteInv, Running' PROVE Owned(World)'
  <2>1. \A s \in Sides : quote[s].order_id # 0 /\ quote[s].state \in {"WORKING", "CANCEL"} =>
          order[quote[s].order_id].status # "none" /\ order[quote[s].order_id].side = s
    BY <1>1, <1>2, <1>11 DEF QuoteInv, Running, Owned
  <2> QED
    BY <1>2, <1>4, <1>8, <2>1, NothingUnderWay
<1> QED
  BY <1>9, <1>10, <1>11 DEF QuoteInv

\* Everything under way is lost.
LEMMA LoseConnectionStep ==
    ASSUME MakerInv, LoseConnection
    PROVE  MakerInv' /\ (QuoteInv => QuoteInv')
<1> USE MakerAssumption
<1>1. /\ quote \in [Sides -> Quotes] /\ max_order_id \in 0..MaxOrders
      /\ requests \in Seq(Requests) /\ halted \in {"no", "nan", "error", "state"}
      /\ mid \in Int /\ ready \in BOOLEAN /\ tick \in BOOLEAN /\ World.quote = quote
      /\ order \in [Ids -> Orders] /\ disconnects \in Nat
  BY Fields DEF MakerInv, TypeOK
<1>2. /\ UNCHANGED <<position, halted, max_order_id, tick, mid, quote, ready>>
      /\ link' = "lost" /\ disconnects' = disconnects + 1
      /\ requests' = << >> /\ inbox' = << >>
      /\ order' = [i \in Ids |-> IF i \in WorkingIds
                                 THEN [order[i] EXCEPT !.status = "canceled"] ELSE order[i]]
  BY DEF LoseConnection, shared, strategy
<1>3. /\ order' \in [Ids -> Orders]
      /\ \A i \in Ids : /\ order'[i].side = order[i].side /\ order'[i].status # "working"
                        /\ order'[i].status = "none" <=> order[i].status = "none"
  <2>1. \A i \in Ids : order[i] \in Orders /\ (i \in WorkingIds <=> order[i].status = "working")
    BY <1>1 DEF WorkingIds
  <2> QED
    BY <1>2, <2>1 DEF Orders
<1>4. WorkingIds' = {}
  BY <1>3 DEF WorkingIds, Ids
<1>5. TypeOK'
  <2>1. World' \in Worlds
    BY <1>1, <1>2, NoneQueued, WorldType
  <2> QED
    BY <1>1, <1>2, <1>3, <2>1, NoneQueued DEF MakerInv, TypeOK, Ids
<1>6. Linked' /\ Idle(World)'
  <2>1. Linked'
    BY <1>2, <1>4 DEF Linked
  <2>2. Idle(World)'
    BY <1>1, <1>2, WorldNext DEF MakerInv, Idle, Sides
  <2> QED
    BY <2>1, <2>2
<1>7. Creates(World)' = {} /\ Cancels(World)' = {}
  BY <1>2, WorldNext, NoneQueued DEF Creates, Cancels
<1>8. Fresh(World)' /\ Created(World)' /\ Canceled(World)' /\ UpdatesKnown' /\ FillsOnce'
  BY <1>2, <1>4, <1>7, NothingUnderWay
<1>9. Highest'
  BY <1>3 DEF MakerInv, Highest, IsHighest, Ids
<1>10. Counted'
  BY <1>1, <1>2 DEF Counted
<1>11. MakerInv'
  BY <1>5, <1>6, <1>8, <1>9, <1>10 DEF MakerInv
<1>12. ASSUME QuoteInv, Running' PROVE Owned(World)'
  <2>1. \A s \in Sides : quote[s].order_id # 0 /\ quote[s].state \in {"WORKING", "CANCEL"} =>
          order[quote[s].order_id].status # "none" /\ order[quote[s].order_id].side = s
    BY <1>1, <1>2, <1>12 DEF QuoteInv, Running, Owned
  <2>2. \A s \in Sides : quote[s].order_id # 0 => quote[s].order_id \in Ids
    BY <1>1, QuoteFields DEF Ids
  <2> QED
    BY <1>2, <1>3, <1>4, <1>7, <2>1, <2>2, NothingUnderWay
<1> QED
  BY <1>8, <1>11, <1>12 DEF QuoteInv

-----------------------------------------------------------------------------
(***************************************************************************)
(* Events.                                                                 *)
(***************************************************************************)

LEMMA EventFields ==
    ASSUME inbox \in Seq(Events), NEW k \in DOMAIN inbox
    PROVE  /\ inbox[k] \in Events
           /\ inbox[k].event \in {"cancel_all_ack", "ack", "update"}
           /\ inbox[k].event \in {"ack", "update"} => inbox[k].side \in Sides /\ inbox[k].id \in Ids
           /\ inbox[k].event = "ack" =>
                \/ inbox[k].kind = "create" /\ inbox[k].result \in {"accepted", "error"}
                \/ inbox[k].kind = "cancel" /\ inbox[k].result \in {"accepted", "TOO_LATE", "error"}
           /\ inbox[k].event = "update" => inbox[k].status \in {"working", "completed", "canceled"}
<1>1. inbox[k] \in Events
  <2> HIDE DEF Events
  <2> QED
    BY ElementOfSeq
<1> DEFINE e == inbox[k]
<1>2. e \in Events
  BY <1>1
<1> HIDE DEF e
<1>3. /\ e.event \in {"cancel_all_ack", "ack", "update"}
      /\ e.event \in {"ack", "update"} => e.side \in Sides /\ e.id \in Ids
      /\ e.event = "ack" =>
           \/ e.kind = "create" /\ e.result \in {"accepted", "error"}
           \/ e.kind = "cancel" /\ e.result \in {"accepted", "TOO_LATE", "error"}
      /\ e.event = "update" => e.status \in {"working", "completed", "canceled"}
  BY <1>2 DEF Events
<1> QED
  BY <1>1, <1>3 DEF e

Old(i, j) == IF j < i THEN j ELSE j + 1

\* Every other event stays, in the same order.
LEMMA Removed ==
    ASSUME inbox \in Seq(Events), NEW i \in DOMAIN inbox, inbox' = Without(inbox, i)
    PROVE  /\ inbox' \in Seq(Events)
           /\ \A j \in DOMAIN inbox' : /\ j \in Nat /\ Old(i, j) \in DOMAIN inbox \ {i}
                                       /\ inbox'[j] = inbox[Old(i, j)]
           /\ \A k \in DOMAIN inbox \ {i} : \E j \in DOMAIN inbox' : Old(i, j) = k
           /\ \A j, l \in DOMAIN inbox' : Old(i, j) = Old(i, l) => j = l
<1> DEFINE n == Len(inbox)
<1>1. n \in Nat /\ DOMAIN inbox = 1..n /\ i \in 1..n
  <2> HIDE DEF Events
  <2> QED
    BY LenProperties
<1>2. \A j \in 1..n : inbox[j] \in Events
  <2> HIDE DEF Events
  <2> QED
    BY <1>1, ElementOfSeq
<1> HIDE DEF n
<1>3. inbox' = [j \in 1..(n - 1) |-> IF j < i THEN inbox[j] ELSE inbox[j + 1]]
  BY DEF Without, n
<1>4. DOMAIN inbox' = 1..(n - 1) /\ n - 1 \in Nat
  BY <1>1, <1>3
<1>5. \A j \in 1..(n - 1) : j \in Nat /\ Old(i, j) \in 1..n /\ Old(i, j) # i
  BY <1>1 DEF Old
<1>6. \A j \in 1..(n - 1) : inbox'[j] = inbox[Old(i, j)]
  BY <1>3 DEF Old
<1>7. inbox' \in Seq(Events)
  <2>1. \A j \in 1..(n - 1) : inbox'[j] \in Events
    BY <1>2, <1>5, <1>6
  <2>2. inbox' \in [1..(n - 1) -> Events]
    <3> HIDE DEF Events
    <3> QED
      BY <1>3, <2>1
  <2> HIDE DEF Events
  <2> QED
    BY <1>4, <2>2, SeqDef
<1>8. \A k \in 1..n : k # i => \E j \in 1..(n - 1) : Old(i, j) = k
  <2> TAKE k \in 1..n
  <2> HAVE k # i
  <2>1. CASE k < i
    <3>1. k \in 1..(n - 1) /\ Old(i, k) = k
      BY <1>1, <2>1 DEF Old
    <3> QED
      BY <3>1
  <2>2. CASE k > i
    <3>1. k - 1 \in 1..(n - 1) /\ Old(i, k - 1) = k
      BY <1>1, <2>2 DEF Old
    <3> QED
      BY <3>1
  <2> QED
    BY <1>1, <2>1, <2>2
<1>9. \A j, l \in 1..(n - 1) : Old(i, j) = Old(i, l) => j = l
  BY <1>1 DEF Old
<1> QED
  BY <1>1, <1>4, <1>5, <1>6, <1>7, <1>8, <1>9

LEMMA ReportedFinite ==
    ASSUME NEW s \in Sides
    PROVE  IsFiniteSet(Reported(s)) /\ Cardinality(Reported(s)) \in Nat
<1>1. IsFiniteSet(Ids)
  BY MakerAssumption, FS_Interval DEF Ids
<1>2. Reported(s) \subseteq Ids
  BY DEF Reported
<1> HIDE DEF Reported, Ids
<1>3. IsFiniteSet(Reported(s))
  BY <1>1, <1>2, FS_Subset
<1> QED
  BY <1>3, FS_CardinalityType

\* What handling the i-th event reports.
Gain(i) == IF IsFill(i) THEN Sign(inbox[i].side) ELSE 0

LEMMA EventReports ==
    ASSUME TypeOK, UpdatesKnown, FillsOnce, Counted, NEW i \in DOMAIN inbox,
           inbox' = Without(inbox, i), UNCHANGED <<order, disconnects>>,
           position' = position + Gain(i)
    PROVE  UpdatesKnown' /\ FillsOnce' /\ Counted'
<1>1. inbox \in Seq(Events) /\ position \in Int
  BY DEF TypeOK
<1>2. /\ \A j \in DOMAIN inbox' : /\ Old(i, j) \in DOMAIN inbox \ {i}
                                  /\ inbox'[j] = inbox[Old(i, j)]
      /\ \A k \in DOMAIN inbox \ {i} : \E j \in DOMAIN inbox' : Old(i, j) = k
      /\ \A j, l \in DOMAIN inbox' : Old(i, j) = Old(i, l) => j = l
  BY <1>1, Removed
<1>3. \A j \in DOMAIN inbox' : /\ IsUpdate(j)' <=> IsUpdate(Old(i, j))
                               /\ IsFill(j)' <=> IsFill(Old(i, j))
  BY <1>2 DEF IsUpdate, IsFill
<1>4. UpdatesKnown'
  BY <1>2, <1>3 DEF UpdatesKnown
<1>5. FillsOnce'
  BY <1>2, <1>3 DEF FillsOnce
<1>6. \A x : (\A j \in DOMAIN inbox' : IsFill(j)' => inbox'[j].id # x)
             <=> \A k \in DOMAIN inbox \ {i} : IsFill(k) => inbox[k].id # x
  BY <1>2, <1>3
<1>7. \A s : Reported(s)' = {x \in Ids : /\ order[x].status = "completed" /\ order[x].side = s
                                         /\ \A k \in DOMAIN inbox \ {i} : IsFill(k) => inbox[k].id # x}
  BY <1>6 DEF Reported, Ids
<1>8. Reported("BUY") \subseteq Ids /\ Reported("SELL") \subseteq Ids
  BY DEF Reported
<1>9. CASE ~IsFill(i)
  <2>1. \A s : Reported(s)' = Reported(s)
    BY <1>7, <1>9 DEF Reported
  <2>2. position' = position
    BY <1>1, <1>9 DEF Gain
  <2> QED
    BY <1>4, <1>5, <2>1, <2>2 DEF Counted
<1>10. CASE IsFill(i)
  <2>1. PICK x \in Ids, s \in Sides :
           /\ inbox[i].id = x /\ inbox[i].side = s
           /\ order[x].status = "completed" /\ order[x].side = s
    BY <1>1, <1>10, EventFields DEF IsFill, IsUpdate, UpdatesKnown
  <2>2. \A k \in DOMAIN inbox \ {i} : IsFill(k) => inbox[k].id # x
    BY <1>10, <2>1 DEF FillsOnce
  <2>3. x \notin Reported(s)
    BY <1>10, <2>1 DEF Reported
  <2>4. Reported(s)' = Reported(s) \union {x}
    <3>1. \A y \in Ids \ {x} : y \in Reported(s)' <=> y \in Reported(s)
      BY <1>7, <2>1 DEF Reported
    <3>2. x \in Reported(s)'
      BY <1>7, <2>1, <2>2
    <3>3. Reported(s)' \subseteq Ids /\ Reported(s) \subseteq Ids
      BY <1>7 DEF Reported
    <3> QED
      BY <3>1, <3>2, <3>3
  <2>5. \A t \in Sides \ {s} : Reported(t)' = Reported(t)
    <3> TAKE t \in Sides \ {s}
    <3>1. order[x].side # t
      BY <2>1
    <3>2. \A y \in Ids : y \in Reported(t)' <=> y \in Reported(t)
      BY <1>7, <2>1, <3>1 DEF Reported
    <3>3. Reported(t)' \subseteq Ids /\ Reported(t) \subseteq Ids
      BY <1>7 DEF Reported
    <3> QED
      BY <3>2, <3>3
  <2>6. Cardinality(Reported(s) \union {x}) = Cardinality(Reported(s)) + 1
    <3>1. IsFiniteSet(Reported(s))
      BY <2>1, ReportedFinite
    <3> HIDE DEF Reported
    <3> QED
      BY <2>3, <3>1, FS_AddElement
  <2>7. /\ Cardinality(Reported("BUY")) \in Nat /\ Cardinality(Reported("SELL")) \in Nat
    BY ReportedFinite DEF Sides
  <2>8. position' = position + Sign(s)
    BY <1>10, <2>1 DEF Gain
  <2>9. Counted'
    <3>1. CASE s = "BUY"
      <4>1. /\ Cardinality(Reported("BUY")') = Cardinality(Reported("BUY")) + 1
            /\ Reported("SELL")' = Reported("SELL")
        BY <2>4, <2>5, <2>6, <3>1 DEF Sides
      <4>2. position' = position + 1
        BY <2>8, <3>1 DEF Sign
      <4> HIDE DEF Reported
      <4> QED
        BY <1>1, <2>7, <4>1, <4>2 DEF Counted
    <3>2. CASE s = "SELL"
      <4>1. /\ Cardinality(Reported("SELL")') = Cardinality(Reported("SELL")) + 1
            /\ Reported("BUY")' = Reported("BUY")
        BY <2>4, <2>5, <2>6, <3>2 DEF Sides
      <4>2. position' = position - 1
        BY <1>1, <2>8, <3>2 DEF Sign
      <4> HIDE DEF Reported
      <4> QED
        BY <1>1, <2>7, <4>1, <4>2 DEF Counted
    <3> QED
      BY <2>1, <3>1, <3>2 DEF Sides
  <2> QED
    BY <1>4, <1>5, <2>9
<1> QED
  BY <1>9, <1>10

\* An event is handled, in whatever order the events arrive.
LEMMA EventStep ==
    ASSUME MakerInv, NEW i \in DOMAIN inbox, inbox' = Without(inbox, i),
           UNCHANGED <<order, requests, max_order_id, link, disconnects, ready, mid, tick>>,
           quote' \in [Sides -> Quotes], halted' \in {"no", "nan", "error", "state"},
           \A s \in Sides : quote'[s].state = "UNDEFINED" => quote'[s].order_id = 0,
           position' = position + Gain(i)
    PROVE  MakerInv'
<1>1. /\ requests \in Seq(Requests) /\ max_order_id \in 0..MaxOrders
      /\ World.requests = requests /\ World.max_order_id = max_order_id
      /\ inbox \in Seq(Events) /\ position \in Int
  BY Fields DEF MakerInv, TypeOK
<1>2. position' \in Int
  BY <1>1 DEF Gain, Sign
<1>3. TypeOK'
  <2>1. World' \in Worlds
    BY <1>1, WorldType
  <2>2. inbox' \in Seq(Events)
    BY <1>1, Removed
  <2> QED
    BY <1>2, <2>1, <2>2 DEF MakerInv, TypeOK, Ids
<1>4. Idle(World)'
  BY WorldNext DEF Idle, Sides
<1>5. Fresh(World)'
  <2>1. Creates(World)' = Creates(World)
    BY <1>1, WorldNext DEF Creates
  <2> QED
    BY <1>1, <2>1, WorldNext DEF MakerInv, Fresh
<1>6. Linked'
  <2>1. link = "up"
    BY NoneQueued DEF MakerInv, Linked
  <2> QED
    BY <2>1 DEF MakerInv, Linked, Ids
<1>7. Highest'
  BY DEF MakerInv, Highest, IsHighest, Ids
<1>8. UpdatesKnown' /\ FillsOnce' /\ Counted'
  BY EventReports DEF MakerInv
<1> QED
  BY <1>3, <1>4, <1>5, <1>6, <1>7, <1>8 DEF MakerInv

\* Without reordering the first event arrives.
LEMMA FirstArrives ==
    ASSUME inbox \in Seq(Events), ~Reordered, NEW i \in DOMAIN inbox, Arrives(i)
    PROVE  i = 1
<1>1. i \in Nat /\ i >= 1
  <2> HIDE DEF Events
  <2> QED
    BY LenProperties
<1>2. CASE i > 1
  <2>1. 1 \in 1..(i - 1)
    BY <1>1, <1>2
  <2> QED
    BY <2>1 DEF Arrives
<1> QED
  BY <1>1, <1>2

LEMMA Popped ==
    ASSUME inbox \in Seq(Events), 1 \in DOMAIN inbox, inbox' = Without(inbox, 1)
    PROVE  /\ \A k \in DOMAIN inbox' : /\ k \in Nat /\ k >= 1 /\ k + 1 \in DOMAIN inbox \ {1}
                                       /\ inbox'[k] = inbox[k + 1]
           /\ \A k \in DOMAIN inbox : k \in Nat /\ k >= 1 /\ (k # 1 => k - 1 \in DOMAIN inbox')
           /\ \A k \in DOMAIN inbox', t \in Sides :
                /\ IsCreated(k, t)' <=> IsCreated(k + 1, t)
                /\ IsCancelAck(k, t)' <=> IsCancelAck(k + 1, t)
                /\ IsUpdate(k)' <=> IsUpdate(k + 1)
<1> DEFINE n == Len(inbox)
<1>1. n \in Nat /\ DOMAIN inbox = 1..n /\ n >= 1
  <2> HIDE DEF Events
  <2> QED
    BY LenProperties
<1> HIDE DEF n
<1>2. inbox' = [j \in 1..(n - 1) |-> IF j < 1 THEN inbox[j] ELSE inbox[j + 1]]
  BY DEF Without, n
<1>3. /\ \A k \in DOMAIN inbox' : /\ k \in Nat /\ k >= 1 /\ k + 1 \in DOMAIN inbox \ {1}
                                  /\ inbox'[k] = inbox[k + 1]
      /\ \A k \in DOMAIN inbox : k \in Nat /\ k >= 1 /\ (k # 1 => k - 1 \in DOMAIN inbox')
  BY <1>1, <1>2
<1> QED
  BY <1>3 DEF IsCreated, IsCancelAck, IsUpdate

\* How handling the first event leaves a quote: as it was, or with its request done.
Kept(t) == /\ quote'[t].order_id = quote[t].order_id /\ quote'[t].state = quote[t].state
           /\ ~IsCreated(1, t)

Settled(t) ==
    /\ quote'[t].state \in {"WORKING", "UNDEFINED"}
    /\ \A k \in Creates(World) : requests[k].side # t
    /\ \A k \in DOMAIN inbox \ {1} : ~IsCreated(k, t)
    /\ \A i \in WorkingIds : order[i].side = t => quote'[t].order_id = i
    /\ quote'[t].state = "WORKING" =>
         /\ order[quote'[t].order_id].status # "none" /\ order[quote'[t].order_id].side = t
         /\ \A k \in Cancels(World) : requests[k].side # t
         /\ \A k \in DOMAIN inbox : ~IsCancelAck(k, t)
    /\ quote'[t].state = "UNDEFINED" => quote'[t].order_id = 0

LEMMA PopStep ==
    ASSUME TypeOK, Owned(World), Created(World), Canceled(World),
           1 \in DOMAIN inbox, inbox' = Without(inbox, 1), UNCHANGED <<order, requests>>,
           \A t \in Sides : Kept(t) \/ Settled(t)
    PROVE  Owned(World)' /\ Created(World)' /\ Canceled(World)'
<1>1. /\ World.quote = quote /\ World.requests = requests /\ World \in Worlds
      /\ inbox \in Seq(Events) /\ order \in [Ids -> Orders]
  BY Fields DEF TypeOK
<1>2. /\ \A k \in DOMAIN inbox' : /\ k \in Nat /\ k >= 1 /\ k + 1 \in DOMAIN inbox \ {1}
                                  /\ inbox'[k] = inbox[k + 1]
      /\ \A k \in DOMAIN inbox : k \in Nat /\ k >= 1 /\ (k # 1 => k - 1 \in DOMAIN inbox')
      /\ \A k \in DOMAIN inbox', t \in Sides :
           /\ IsCreated(k, t)' <=> IsCreated(k + 1, t)
           /\ IsCancelAck(k, t)' <=> IsCancelAck(k + 1, t)
           /\ IsUpdate(k)' <=> IsUpdate(k + 1)
  BY <1>1, Popped
<1>3. /\ Creates(World)' = Creates(World) /\ Cancels(World)' = Cancels(World)
      /\ WorkingIds' = WorkingIds
  BY <1>1, WorldNext DEF Creates, Cancels, WorkingIds, Ids
<1>4. /\ \A i \in WorkingIds : order[i].side \in Sides
      /\ \A k \in Creates(World) \union Cancels(World) : requests[k].side \in Sides
  BY <1>1, RequestFields DEF WorkingIds, Orders
<1>5. \A t \in Sides, k \in DOMAIN inbox : Kept(t) /\ IsCreated(k, t) =>
        k - 1 \in DOMAIN inbox' /\ IsCreated(k - 1, t)'
  <2> TAKE t \in Sides, k \in DOMAIN inbox
  <2> HAVE Kept(t) /\ IsCreated(k, t)
  <2>1. k \in Nat /\ k # 1 /\ k - 1 \in DOMAIN inbox' /\ (k - 1) + 1 = k
    BY <1>2 DEF Kept
  <2>2. IsCreated(k - 1, t)' <=> IsCreated((k - 1) + 1, t)
    BY <1>2, <2>1
  <2> QED
    BY <2>1, <2>2
<1>6. Owned(World)'
  <2>1. ASSUME NEW t \in Sides, quote'[t].order_id # 0, quote'[t].state \in {"WORKING", "CANCEL"}
        PROVE  order[quote'[t].order_id].status # "none" /\ order[quote'[t].order_id].side = t
    <3>1. CASE Kept(t)
      BY <1>1, <2>1, <3>1 DEF Kept, Owned
    <3>2. CASE Settled(t)
      BY <2>1, <3>2 DEF Settled
    <3> QED
      BY <3>1, <3>2
  <2>2. ASSUME NEW i \in WorkingIds
        PROVE  /\ quote'[order[i].side].order_id = i
               /\ quote'[order[i].side].state = "CREATE" =>
                    \E k \in DOMAIN inbox' : IsCreated(k, order[i].side)'
    <3> DEFINE t == order[i].side
    <3>1. t \in Sides /\ quote[t].order_id = i
          /\ (quote[t].state = "CREATE" => \E k \in DOMAIN inbox : IsCreated(k, t))
      BY <1>1, <1>4 DEF Owned
    <3>2. CASE Kept(t)
      BY <1>5, <3>1, <3>2 DEF Kept
    <3>3. CASE Settled(t)
      BY <3>3 DEF Settled
    <3> QED
      BY <3>1, <3>2, <3>3
  <2>3. ASSUME NEW k \in Creates(World)
        PROVE  /\ quote'[requests[k].side].order_id = requests[k].id
               /\ quote'[requests[k].side].state = "CREATE"
    <3>1. /\ requests[k].side \in Sides
          /\ quote[requests[k].side].order_id = requests[k].id /\ quote[requests[k].side].state = "CREATE"
      BY <1>1, <1>4 DEF Owned
    <3> QED
      BY <3>1 DEF Kept, Settled
  <2> QED
    BY <1>3, <2>1, <2>2, <2>3, WorldNext DEF Owned, Sides
<1>7. Created(World)'
  <2>1. ASSUME NEW t \in Sides, NEW k \in DOMAIN inbox', IsCreated(k, t)'
        PROVE  /\ quote'[t].order_id = inbox'[k].id /\ quote'[t].state = "CREATE"
               /\ order[quote'[t].order_id].status # "none" /\ order[quote'[t].order_id].side = t
               /\ \A l \in DOMAIN inbox' : IsCreated(l, t)' => k = l
    <3>1. /\ k + 1 \in DOMAIN inbox \ {1} /\ IsCreated(k + 1, t) /\ inbox'[k] = inbox[k + 1]
      BY <1>2, <2>1
    <3>2. Kept(t)
      BY <3>1 DEF Settled
    <3>3. /\ quote[t].order_id = inbox[k + 1].id /\ quote[t].state = "CREATE"
          /\ order[quote[t].order_id].status # "none" /\ order[quote[t].order_id].side = t
          /\ \A l \in DOMAIN inbox : IsCreated(l, t) => k + 1 = l
      BY <1>1, <3>1 DEF Created
    <3>4. \A l \in DOMAIN inbox' : IsCreated(l, t)' => k = l
      BY <1>2, <3>3
    <3> QED
      BY <3>1, <3>2, <3>3, <3>4 DEF Kept
  <2>2. ASSUME NEW t \in Sides, NEW l \in DOMAIN inbox', IsUpdate(l)', inbox'[l].side = t,
               inbox'[l].id = quote'[t].order_id, quote'[t].state = "CREATE"
        PROVE  \E k \in 1..(l - 1) : IsCreated(k, t)'
    <3>1. Kept(t)
      BY <2>2 DEF Settled
    <3>2. /\ l \in Nat /\ l + 1 \in DOMAIN inbox /\ IsUpdate(l + 1) /\ inbox[l + 1].side = t
          /\ inbox[l + 1].id = quote[t].order_id /\ quote[t].state = "CREATE"
      BY <1>2, <2>2, <3>1 DEF Kept
    <3>3. PICK k \in 1..((l + 1) - 1) : IsCreated(k, t)
      BY <1>1, <3>2 DEF Created
    <3>4. k \in DOMAIN inbox
      <4>1. l + 1 \in 1..Len(inbox) /\ DOMAIN inbox = 1..Len(inbox) /\ Len(inbox) \in Nat
        <5> HIDE DEF Events
        <5> QED
          BY <1>1, <3>2, LenProperties
      <4> QED
        BY <3>2, <4>1
    <3>5. k - 1 \in DOMAIN inbox' /\ IsCreated(k - 1, t)'
      BY <1>5, <3>1, <3>3, <3>4
    <3>6. k - 1 \in 1..(l - 1)
      BY <1>2, <3>2, <3>3, <3>5
    <3> QED
      BY <3>5, <3>6
  <2> QED
    BY <2>1, <2>2, WorldNext DEF Created, Sides
<1>8. Canceled(World)'
  <2>1. ASSUME NEW k \in Cancels(World)
        PROVE  LET r == requests[k] IN
               /\ order[r.id].status # "none" /\ order[r.id].side = r.side
               /\ quote'[r.side].state # "WORKING"
               /\ quote'[r.side].state = "CANCEL" => quote'[r.side].order_id \in {0, r.id}
               /\ \A l \in DOMAIN inbox' : ~IsCreated(l, r.side)'
    <3> DEFINE t == requests[k].side
    <3>1. /\ t \in Sides /\ order[requests[k].id].status # "none" /\ order[requests[k].id].side = t
          /\ quote[t].state # "WORKING"
          /\ quote[t].state = "CANCEL" => quote[t].order_id \in {0, requests[k].id}
          /\ \A l \in DOMAIN inbox : ~IsCreated(l, t)
      BY <1>1, <1>4 DEF Canceled
    <3>2. \A l \in DOMAIN inbox' : ~IsCreated(l, requests[k].side)'
      <4>1. \A l \in DOMAIN inbox' : IsCreated(l, requests[k].side)' <=> IsCreated(l + 1, t)
        BY <1>2 DEF IsCreated
      <4> QED
        BY <1>2, <3>1, <4>1
    <3>3. /\ quote'[t].state # "WORKING"
          /\ quote'[t].state = "CANCEL" => quote'[t].order_id \in {0, requests[k].id}
      BY <3>1 DEF Kept, Settled
    <3> QED
      BY <3>1, <3>2, <3>3
  <2>2. ASSUME NEW t \in Sides, NEW k \in DOMAIN inbox', IsCancelAck(k, t)'
        PROVE  /\ order[inbox'[k].id].status \notin {"none", "working"}
               /\ quote'[t].state # "WORKING"
               /\ quote'[t].state = "CANCEL" => quote'[t].order_id \in {0, inbox'[k].id}
               /\ \A l \in DOMAIN inbox' : IsCreated(l, t)' => k < l
    <3>1. k \in Nat /\ k + 1 \in DOMAIN inbox /\ IsCancelAck(k + 1, t) /\ inbox'[k] = inbox[k + 1]
      BY <1>2, <2>2
    <3>2. /\ order[inbox[k + 1].id].status \notin {"none", "working"}
          /\ quote[t].state # "WORKING"
          /\ quote[t].state = "CANCEL" => quote[t].order_id \in {0, inbox[k + 1].id}
          /\ \A l \in DOMAIN inbox : IsCreated(l, t) => k + 1 < l
      BY <1>1, <3>1 DEF Canceled
    <3>3. \A l \in DOMAIN inbox' : IsCreated(l, t)' => k < l
      <4>1. \A l \in DOMAIN inbox' : l \in Nat /\ (IsCreated(l, t)' => k + 1 < l + 1)
        BY <1>2, <3>2
      <4> QED
        BY <3>1, <4>1
    <3>4. /\ quote'[t].state # "WORKING"
          /\ quote'[t].state = "CANCEL" => quote'[t].order_id \in {0, inbox[k + 1].id}
      BY <3>1, <3>2 DEF Kept, Settled
    <3> QED
      BY <3>1, <3>2, <3>3, <3>4
  <2>3. \A k \in Cancels(World), l \in Creates(World) : requests[l].side = requests[k].side => k < l
    BY <1>1 DEF Canceled
  <2> QED
    BY <1>3, <2>1, <2>2, <2>3, WorldNext DEF Canceled, Sides
<1> QED
  BY <1>6, <1>7, <1>8

LEMMA CancelAllOrdersAckStep ==
    ASSUME MakerInv, CancelAllOrdersAck
    PROVE  MakerInv' /\ (~Reordered /\ QuoteInv => QuoteInv')
<1>1. PICK i \in DOMAIN inbox : /\ Arrives(i) /\ inbox[i].event = "cancel_all_ack"
                                /\ inbox' = Without(inbox, i)
  BY DEF CancelAllOrdersAck
<1>2. /\ Running
      /\ UNCHANGED <<order, requests, max_order_id, link, disconnects, ready, mid, tick, quote,
                     position, halted>>
  BY DEF CancelAllOrdersAck, shared
<1>3. /\ quote \in [Sides -> Quotes] /\ halted \in {"no", "nan", "error", "state"}
      /\ World.quote = quote /\ inbox \in Seq(Events) /\ position \in Int
  BY Fields DEF MakerInv, TypeOK
<1>4. \A s \in Sides : quote[s].state = "UNDEFINED" => quote[s].order_id = 0
  BY <1>3 DEF MakerInv, Idle
<1>5. position' = position + Gain(i)
  BY <1>1, <1>2, <1>3 DEF Gain, IsFill, IsUpdate
<1>6. MakerInv'
  BY <1>1, <1>2, <1>3, <1>4, <1>5, EventStep
<1>7. ASSUME ~Reordered, QuoteInv PROVE QuoteInv'
  <2>1. Owned(World) /\ Created(World) /\ Canceled(World)
    BY <1>2, <1>7 DEF QuoteInv
  <2>2. i = 1
    BY <1>1, <1>3, <1>7, FirstArrives
  <2>3. \A t \in Sides : Kept(t)
    BY <1>1, <1>2, <2>2 DEF Kept, IsCreated
  <2> QED
    BY <1>1, <1>2, <2>1, <2>2, <2>3, PopStep DEF QuoteInv, MakerInv
<1> QED
  BY <1>6, <1>7

\* The answer to a request makes a quote WORKING or idle, or ends the process.
LEMMA AckResult ==
    ASSUME NEW q \in Quotes, NEW e, e.kind = "create" => e.result \in {"accepted", "error"}
    PROVE  LET a == quote_order_ack(q, e)
           IN  /\ a.quote \in Quotes /\ a.halt \in {"no", "error", "state"}
               /\ \/ a.quote = q /\ a.halt # "no"
                  \/ /\ e.kind = "create" /\ e.result = "accepted" /\ q.state = "CREATE"
                     /\ a.quote.state = "WORKING" /\ a.quote.order_id = q.order_id
                  \/ /\ e.kind # "create" /\ e.result # "error" /\ q.state = "CANCEL"
                     /\ a.quote.state = "UNDEFINED" /\ a.quote.order_id = 0
<1> USE MakerAssumption
<1> DEFINE w == [q EXCEPT !.state = "WORKING"]
           u == [q EXCEPT !.order_id = 0, !.state = "UNDEFINED"]
<1>1. w \in Quotes /\ w.state = "WORKING" /\ w.order_id = q.order_id
  BY DEF Quotes, QuoteStates
<1>2. u \in Quotes /\ u.state = "UNDEFINED" /\ u.order_id = 0
  <2>1. 0 \in 0..MaxOrders
    OBVIOUS
  <2> QED
    BY <2>1 DEF Quotes, QuoteStates
<1>3. quote_order_ack(q, e) =
        IF e.result = "error" THEN [quote |-> q, halt |-> "error"]
        ELSE IF e.kind = "create"
        THEN IF q.state # "CREATE" THEN [quote |-> q, halt |-> "state"]
             ELSE [quote |-> w, halt |-> "no"]
        ELSE IF q.state # "CANCEL" THEN [quote |-> q, halt |-> "state"]
             ELSE [quote |-> u, halt |-> "no"]
  BY DEF quote_order_ack
<1> HIDE DEF w, u
<1> QED
  BY <1>1, <1>2, <1>3

LEMMA OrderAckStep ==
    ASSUME MakerInv, OrderAck
    PROVE  MakerInv' /\ (~Reordered /\ QuoteInv => QuoteInv')
<1> USE MakerAssumption
<1>1. PICK i \in DOMAIN inbox :
        LET e == inbox[i] IN
        /\ Arrives(i) /\ e.event = "ack"
        /\ inbox' = Without(inbox, i)
        /\ quote' = [quote EXCEPT ![e.side] = quote_order_ack(@, e).quote]
        /\ halted' = quote_order_ack(quote[e.side], e).halt
  BY DEF OrderAck
<1>2. /\ Running
      /\ UNCHANGED <<order, requests, max_order_id, link, disconnects, ready, mid, tick, position>>
  BY DEF OrderAck, strategy
<1>3. /\ quote \in [Sides -> Quotes] /\ World.quote = quote /\ World.requests = requests
      /\ inbox \in Seq(Events) /\ position \in Int /\ World \in Worlds
  BY Fields DEF MakerInv, TypeOK
<1> DEFINE e == inbox[i]
           s == e.side
           a == quote_order_ack(quote[s], e)
<1>4. /\ s \in Sides /\ e.id \in Ids /\ e.event = "ack"
      /\ \/ e.kind = "create" /\ e.result \in {"accepted", "error"}
         \/ e.kind = "cancel" /\ e.result \in {"accepted", "TOO_LATE", "error"}
  BY <1>1, <1>3, EventFields
<1>5. /\ a.quote \in Quotes /\ a.halt \in {"no", "error", "state"}
      /\ \/ a.quote = quote[s] /\ a.halt # "no"
         \/ /\ e.kind = "create" /\ e.result = "accepted" /\ quote[s].state = "CREATE"
            /\ a.quote.state = "WORKING" /\ a.quote.order_id = quote[s].order_id
         \/ /\ e.kind # "create" /\ e.result # "error" /\ quote[s].state = "CANCEL"
            /\ a.quote.state = "UNDEFINED" /\ a.quote.order_id = 0
  BY <1>3, <1>4, AckResult
<1>6. quote' = [quote EXCEPT ![s] = a.quote] /\ halted' = a.halt
  BY <1>1
<1> HIDE DEF a
<1>7. /\ quote' \in [Sides -> Quotes] /\ quote'[s] = a.quote
      /\ \A t \in Sides \ {s} : quote'[t] = quote[t]
  BY <1>3, <1>4, <1>5, <1>6
<1>8. \A t \in Sides : quote'[t].state = "UNDEFINED" => quote'[t].order_id = 0
  BY <1>3, <1>5, <1>7 DEF MakerInv, Idle
<1>9. position' = position + Gain(i)
  BY <1>1, <1>2, <1>3 DEF Gain, IsFill, IsUpdate
<1>10. halted' \in {"no", "nan", "error", "state"}
  BY <1>5, <1>6
<1>11. MakerInv'
  BY <1>1, <1>2, <1>7, <1>8, <1>9, <1>10, EventStep
<1>12. ASSUME ~Reordered, QuoteInv, Running' PROVE Owned(World)' /\ Created(World)' /\ Canceled(World)'
  <2>1. Owned(World) /\ Created(World) /\ Canceled(World)
    BY <1>2, <1>12 DEF QuoteInv
  <2>2. i = 1
    BY <1>1, <1>3, <1>12, FirstArrives
  <2>3. a.halt = "no"
    BY <1>6, <1>12 DEF Running
  <2>4. \A t \in Sides \ {s} : Kept(t)
    BY <1>4, <1>7, <2>2 DEF Kept, IsCreated
  <2>5. /\ \A k \in Creates(World) \union Cancels(World) : requests[k].id \in Ids
        /\ \A k \in Creates(World) : order[requests[k].id].status = "none"
    BY <1>3, RequestFields DEF MakerInv, Fresh
  <2>6. CASE /\ e.kind = "create" /\ e.result = "accepted" /\ quote[s].state = "CREATE"
             /\ a.quote.state = "WORKING" /\ a.quote.order_id = quote[s].order_id
    <3>1. IsCreated(1, s)
      BY <1>4, <2>2, <2>6 DEF IsCreated
    <3>2. /\ quote'[s].state = "WORKING" /\ quote'[s].order_id = quote[s].order_id
      BY <1>7, <2>6
    <3>3. /\ order[quote[s].order_id].status # "none" /\ order[quote[s].order_id].side = s
          /\ \A l \in DOMAIN inbox : IsCreated(l, s) => 1 = l
      BY <1>3, <1>4, <2>1, <2>2, <3>1 DEF Created
    <3>4. \A k \in Creates(World) : requests[k].side # s
      BY <1>3, <2>1, <2>5, <3>3 DEF Owned
    <3>5. \A k \in Cancels(World) : requests[k].side # s
      BY <1>3, <2>1, <2>2, <3>1 DEF Canceled
    <3>6. \A k \in DOMAIN inbox : ~IsCancelAck(k, s)
      <4>1. \A k \in DOMAIN inbox : IsCancelAck(k, s) => k < 1
        BY <1>4, <2>1, <2>2, <3>1 DEF Canceled
      <4>2. \A k \in DOMAIN inbox : k \in Nat /\ k >= 1
        <5> HIDE DEF Events
        <5> QED
          BY <1>3, LenProperties
      <4> QED
        BY <4>1, <4>2
    <3>7. \A j \in WorkingIds : order[j].side = s => quote[s].order_id = j
      BY <1>3, <2>1 DEF Owned
    <3>8. Settled(s)
      BY <3>2, <3>3, <3>4, <3>5, <3>6, <3>7 DEF Settled
    <3> QED
      BY <1>1, <1>2, <1>4, <2>1, <2>2, <2>4, <3>8, PopStep DEF MakerInv
  <2>7. CASE /\ e.kind # "create" /\ e.result # "error" /\ quote[s].state = "CANCEL"
             /\ a.quote.state = "UNDEFINED" /\ a.quote.order_id = 0
    <3>1. IsCancelAck(1, s)
      BY <1>4, <2>2, <2>7 DEF IsCancelAck
    <3>2. /\ order[e.id].status # "working" /\ quote[s].order_id \in {0, e.id}
      BY <1>3, <1>4, <2>1, <2>2, <2>7, <3>1 DEF Canceled
    <3>3. \A j \in WorkingIds : order[j].side # s
      <4>1. \A j \in WorkingIds : j \in Ids /\ j # 0 /\ order[j].status = "working"
        BY DEF WorkingIds, Ids
      <4>2. \A j \in WorkingIds : order[j].side = s => quote[s].order_id = j
        BY <1>3, <2>1 DEF Owned
      <4> QED
        BY <3>2, <4>1, <4>2
    <3>4. \A k \in Creates(World) : requests[k].side # s
      BY <1>3, <2>1, <2>7 DEF Owned
    <3>5. \A k \in DOMAIN inbox : ~IsCreated(k, s)
      BY <1>3, <1>4, <2>1, <2>7 DEF Created
    <3>6. Settled(s)
      BY <1>7, <2>7, <3>3, <3>4, <3>5 DEF Settled
    <3> QED
      BY <1>1, <1>2, <1>4, <2>1, <2>2, <2>4, <3>6, PopStep DEF MakerInv
  <2> QED
    BY <1>5, <2>3, <2>6, <2>7
<1> QED
  BY <1>11, <1>12 DEF QuoteInv

LEMMA OrderUpdateStep ==
    ASSUME MakerInv, OrderUpdate
    PROVE  MakerInv' /\ (~Reordered /\ QuoteInv => QuoteInv')
<1> USE MakerAssumption
<1>1. PICK i \in DOMAIN inbox :
        LET e == inbox[i] IN
        /\ Arrives(i) /\ e.event = "update"
        /\ inbox' = Without(inbox, i)
        /\ position' = position + fill(e)
        /\ quote' = [quote EXCEPT ![e.side] = quote_order_update(@, e)]
  BY DEF OrderUpdate
<1>2. /\ Running
      /\ UNCHANGED <<order, requests, max_order_id, link, disconnects, ready, mid, tick, halted>>
  BY DEF OrderUpdate, strategy
<1>3. /\ quote \in [Sides -> Quotes] /\ World.quote = quote /\ World.requests = requests
      /\ inbox \in Seq(Events) /\ position \in Int /\ World \in Worlds
      /\ halted \in {"no", "nan", "error", "state"}
  BY Fields DEF MakerInv, TypeOK
<1> DEFINE e == inbox[i]
           s == e.side
           n == quote_order_update(quote[s], e)
           final == is_order_complete(e.status) /\ quote[s].order_id = e.id
<1>4. /\ s \in Sides /\ e.id \in Ids /\ e.event = "update" /\ IsUpdate(i)
  BY <1>1, <1>3, EventFields DEF IsUpdate
<1>5. /\ n \in Quotes /\ (~final => n = quote[s])
      /\ final => n.state = "UNDEFINED" /\ n.order_id = 0
  <2>1. quote[s] \in Quotes
    BY <1>3, <1>4
  <2>2. [quote[s] EXCEPT !.order_id = 0, !.state = "UNDEFINED"] \in Quotes
    <3>1. 0 \in 0..MaxOrders
      OBVIOUS
    <3> QED
      BY <2>1, <3>1 DEF Quotes, QuoteStates
  <2>3. final => n = [quote[s] EXCEPT !.order_id = 0, !.state = "UNDEFINED"]
    BY DEF quote_order_update
  <2>4. ~final => n = quote[s]
    BY DEF quote_order_update
  <2> HIDE DEF n, final, s, e
  <2>5. final => n.state = "UNDEFINED" /\ n.order_id = 0
    BY <2>1, <2>3 DEF Quotes
  <2> QED
    BY <2>1, <2>2, <2>3, <2>4, <2>5
<1>6. quote' = [quote EXCEPT ![s] = n] /\ position' = position + fill(e)
  BY <1>1
<1> HIDE DEF n
<1>7. /\ quote' \in [Sides -> Quotes] /\ quote'[s] = n
      /\ \A t \in Sides \ {s} : quote'[t] = quote[t]
  BY <1>3, <1>4, <1>5, <1>6
<1>8. \A t \in Sides : quote'[t].state = "UNDEFINED" => quote'[t].order_id = 0
  BY <1>3, <1>5, <1>7 DEF MakerInv, Idle
<1>9. position' = position + Gain(i)
  BY <1>4, <1>6 DEF Gain, IsFill, fill
<1>10. MakerInv'
  BY <1>1, <1>2, <1>3, <1>7, <1>8, <1>9, EventStep
<1>11. ASSUME ~Reordered, QuoteInv PROVE QuoteInv'
  <2>1. Owned(World) /\ Created(World) /\ Canceled(World)
    BY <1>2, <1>11 DEF QuoteInv
  <2>2. i = 1
    BY <1>1, <1>3, <1>11, FirstArrives
  <2>3. \A t \in Sides \ {s} : Kept(t)
    BY <1>4, <1>7, <2>2 DEF Kept, IsCreated
  <2>4. CASE ~final
    <3>1. Kept(s)
      BY <1>4, <1>5, <1>7, <2>2, <2>4 DEF Kept, IsCreated
    <3> QED
      BY <1>1, <1>2, <1>4, <2>1, <2>2, <2>3, <3>1, PopStep DEF MakerInv, QuoteInv
  <2>5. CASE final
    <3>1. quote[s].state # "CREATE"
      <4>1. quote[s].state = "CREATE" => \E k \in 1..(1 - 1) : IsCreated(k, s)
        BY <1>3, <1>4, <2>1, <2>2, <2>5 DEF Created
      <4> QED
        BY <4>1
    <3>2. order[e.id].status # "working"
      <4>1. e.status \in {"completed", "canceled"}
        BY <2>5 DEF is_order_complete
      <4> QED
        BY <1>4, <4>1 DEF MakerInv, UpdatesKnown
    <3>3. \A j \in WorkingIds : order[j].side # s
      <4>1. \A j \in WorkingIds : order[j].status = "working"
        BY DEF WorkingIds
      <4>2. \A j \in WorkingIds : order[j].side = s => quote[s].order_id = j
        BY <1>3, <2>1 DEF Owned
      <4> QED
        BY <2>5, <3>2, <4>1, <4>2
    <3>4. \A k \in Creates(World) : requests[k].side # s
      BY <1>3, <2>1, <3>1 DEF Owned
    <3>5. \A k \in DOMAIN inbox : ~IsCreated(k, s)
      BY <1>3, <1>4, <2>1, <3>1 DEF Created
    <3>6. Settled(s)
      BY <1>5, <1>7, <2>5, <3>3, <3>4, <3>5 DEF Settled
    <3> QED
      BY <1>1, <1>2, <1>4, <2>1, <2>2, <2>3, <3>6, PopStep DEF MakerInv, QuoteInv
  <2> QED
    BY <2>4, <2>5
<1> QED
  BY <1>10, <1>11

-----------------------------------------------------------------------------
(***************************************************************************)
(* The gateway.                                                            *)
(***************************************************************************)

\* New events come after the others.
Delivers ==
    /\ inbox' \in Seq(Events) /\ DOMAIN inbox \subseteq DOMAIN inbox'
    /\ \A k \in DOMAIN inbox : inbox'[k] = inbox[k]

NewEvents == DOMAIN inbox' \ DOMAIN inbox

\* An order ends once and is never forgotten; only order c may be new.
OrdersMove(c) ==
    /\ order' \in [Ids -> Orders]
    /\ \A i \in Ids :
         /\ order[i].status \in {"completed", "canceled"} => order'[i] = order[i]
         /\ order[i].status = "working" => order'[i].status # "none" /\ order'[i].side = order[i].side
         /\ order[i].status = "none" /\ i # c => order'[i].status = "none"
         /\ order'[i].status = "working" => order[i].status \in {"none", "working"}

\* New updates are about known orders, a fill about one that has just been filled.
UpdatesMove ==
    /\ \A k \in NewEvents : IsUpdate(k)' =>
         /\ order'[inbox'[k].id].status # "none"
         /\ inbox'[k].status \in {"completed", "canceled"} =>
              order'[inbox'[k].id].status = inbox'[k].status
         /\ inbox'[k].status = "completed" =>
              /\ order'[inbox'[k].id].side = inbox'[k].side
              /\ order[inbox'[k].id].status = "working"
    /\ \A k, l \in NewEvents : IsFill(k)' /\ IsFill(l)' => k = l
    /\ \A i \in Ids : order'[i].status = "completed" /\ order[i].status # "completed" =>
         \E k \in DOMAIN inbox' : IsFill(k)' /\ inbox'[k].id = i

LEMMA GatewayReports ==
    ASSUME TypeOK, UpdatesKnown, FillsOnce, Counted, NEW c \in 0..MaxOrders, Delivers, OrdersMove(c), UpdatesMove,
           UNCHANGED <<position, disconnects>>
    PROVE  UpdatesKnown' /\ FillsOnce' /\ Counted'
<1>1. inbox \in Seq(Events) /\ order \in [Ids -> Orders]
  BY DEF TypeOK
<1>2. \A k \in DOMAIN inbox : /\ IsUpdate(k)' <=> IsUpdate(k)
                              /\ IsFill(k)' <=> IsFill(k)
  BY DEF Delivers, IsUpdate, IsFill
<1>3. \A k \in DOMAIN inbox' : /\ IsUpdate(k)' => inbox'[k].id \in Ids
                               /\ IsFill(k)' => IsUpdate(k)' /\ inbox'[k].status = "completed"
  <2>1. \A k \in DOMAIN inbox' : inbox'[k] \in Events
    <3> HIDE DEF Events
    <3> QED
      BY ElementOfSeq DEF Delivers
  <2> QED
    BY <2>1 DEF Events, IsUpdate, IsFill
<1>4. \A k \in DOMAIN inbox : IsUpdate(k) => inbox[k].id \in Ids
  BY <1>1, EventFields DEF IsUpdate
<1>5. \A i \in Ids : order[i].status \in {"none", "working", "completed", "canceled"}
  BY <1>1 DEF Orders
<1>6. UpdatesKnown'
  <2>1. ASSUME NEW k \in DOMAIN inbox, IsUpdate(k)
        PROVE  /\ order'[inbox[k].id].status # "none"
               /\ inbox[k].status \in {"completed", "canceled"} =>
                    order'[inbox[k].id].status = inbox[k].status
               /\ inbox[k].status = "completed" => order'[inbox[k].id].side = inbox[k].side
    <3>1. /\ inbox[k].id \in Ids /\ order[inbox[k].id].status # "none"
          /\ inbox[k].status \in {"completed", "canceled"} =>
               order[inbox[k].id].status = inbox[k].status
          /\ inbox[k].status = "completed" => order[inbox[k].id].side = inbox[k].side
      BY <1>4, <2>1 DEF UpdatesKnown
    <3> QED
      BY <1>5, <3>1 DEF OrdersMove
  <2>2. ASSUME NEW k \in DOMAIN inbox', IsUpdate(k)'
        PROVE  /\ order'[inbox'[k].id].status # "none"
               /\ inbox'[k].status \in {"completed", "canceled"} =>
                    order'[inbox'[k].id].status = inbox'[k].status
               /\ inbox'[k].status = "completed" => order'[inbox'[k].id].side = inbox'[k].side
    <3>1. CASE k \in DOMAIN inbox
      BY <1>2, <2>1, <2>2, <3>1 DEF Delivers
    <3>2. CASE k \in NewEvents
      BY <2>2, <3>2 DEF UpdatesMove
    <3> QED
      BY <3>1, <3>2 DEF NewEvents
  <2> QED
    BY <2>2 DEF UpdatesKnown
<1>7. /\ \A k \in DOMAIN inbox : IsFill(k) => order[inbox[k].id].status = "completed"
      /\ \A k \in NewEvents : IsFill(k)' => order[inbox'[k].id].status = "working"
  <2>1. \A k \in DOMAIN inbox : IsFill(k) => order[inbox[k].id].status = "completed"
    BY DEF UpdatesKnown, IsFill
  <2>2. \A k \in NewEvents : IsFill(k)' => order[inbox'[k].id].status = "working"
    BY <1>3 DEF UpdatesMove, NewEvents
  <2> QED
    BY <2>1, <2>2
<1>8. FillsOnce'
  <2>1. ASSUME NEW k \in DOMAIN inbox', NEW l \in DOMAIN inbox', IsFill(k)', IsFill(l)',
               inbox'[k].id = inbox'[l].id
        PROVE  k = l
    <3>1. CASE k \in DOMAIN inbox /\ l \in DOMAIN inbox
      BY <1>2, <2>1, <3>1 DEF Delivers, FillsOnce
    <3>2. CASE k \in NewEvents /\ l \in NewEvents
      BY <2>1, <3>2 DEF UpdatesMove
    <3>3. CASE k \in DOMAIN inbox /\ l \in NewEvents
      BY <1>2, <1>7, <2>1, <3>3 DEF Delivers
    <3>4. CASE k \in NewEvents /\ l \in DOMAIN inbox
      BY <1>2, <1>7, <2>1, <3>4 DEF Delivers
    <3> QED
      BY <3>1, <3>2, <3>3, <3>4 DEF NewEvents
  <2> QED
    BY <2>1 DEF FillsOnce
<1>9. \A s \in Sides : Reported(s)' = Reported(s)
  <2> TAKE s \in Sides
  <2>1. ASSUME NEW i \in Ids PROVE i \in Reported(s)' <=> i \in Reported(s)
    <3>1. CASE order[i].status = "completed"
      <4>1. order'[i] = order[i]
        BY <3>1 DEF OrdersMove
      <4>2. \A k \in NewEvents : IsFill(k)' => inbox'[k].id # i
        BY <1>7, <3>1
      <4>3. (\A k \in DOMAIN inbox' : IsFill(k)' => inbox'[k].id # i)
              <=> \A k \in DOMAIN inbox : IsFill(k) => inbox[k].id # i
        BY <1>2, <4>2 DEF NewEvents, Delivers
      <4> QED
        BY <4>1, <4>3 DEF Reported, Ids
    <3>2. CASE order[i].status # "completed"
      <4>1. order'[i].status = "completed" => \E k \in DOMAIN inbox' : IsFill(k)' /\ inbox'[k].id = i
        BY <3>2 DEF UpdatesMove
      <4> QED
        BY <3>2, <4>1 DEF Reported, Ids
    <3> QED
      BY <3>1, <3>2
  <2>2. Reported(s)' \subseteq Ids /\ Reported(s) \subseteq Ids
    BY DEF Reported, Ids
  <2> QED
    BY <2>1, <2>2
<1>10. Counted'
  BY <1>9 DEF Counted, Sides
<1> QED
  BY <1>6, <1>8, <1>10

\* The gateway answers a request or fills an order.
LEMMA GatewayStep ==
    ASSUME MakerInv, link = "up", NEW c \in 0..MaxOrders, Delivers, OrdersMove(c), UpdatesMove,
           c <= max_order_id,
           UNCHANGED <<quote, max_order_id, halted, position, link, disconnects, ready, mid, tick>>,
           requests' \in Seq(Requests), Fresh(World)'
    PROVE  MakerInv'
<1>1. /\ quote \in [Sides -> Quotes] /\ halted \in {"no", "nan", "error", "state"}
      /\ max_order_id \in 0..MaxOrders /\ order \in [Ids -> Orders] /\ World.quote = quote
  BY Fields DEF MakerInv, TypeOK
<1>2. TypeOK'
  <2>1. World' \in Worlds
    BY <1>1, WorldType
  <2> QED
    BY <2>1 DEF MakerInv, TypeOK, Delivers, OrdersMove, Ids
<1>3. Idle(World)'
  BY <1>1, WorldNext DEF MakerInv, Idle, Sides
<1>4. \A i \in Ids : i # c => (order'[i].status # "none" => order[i].status # "none")
  BY DEF OrdersMove
<1>5. Linked'
  <2>1. \A i \in Ids : order[i].status # "none" => i <= max_order_id
    BY DEF MakerInv, Linked
  <2>2. \A i \in Ids : order'[i].status # "none" => i <= max_order_id
    BY <1>4, <2>1
  <2> QED
    BY <2>2 DEF MakerInv, Linked, Ids
<1>6. Highest'
  <2>1. PICK m \in Ids : IsHighest(m)
    BY DEF MakerInv, Highest
  <2>2. \A i \in Ids : order[i].status # "none" => order'[i].status # "none"
    BY <1>1 DEF OrdersMove, Orders
  <2>3. Ids \subseteq Int
    BY DEF Ids
  <2>4. CASE c \in Ids /\ order'[c].status # "none" /\ c > m
    <3>1. \A i \in Ids : i # c /\ order'[i].status # "none" => i <= m
      BY <1>4, <2>1 DEF IsHighest
    <3>2. m \in Int /\ c \in Int /\ c > m
      BY <2>3, <2>4
    <3>3. \A i \in Ids : order'[i].status # "none" => i <= c
      BY <2>3, <3>1, <3>2
    <3> QED
      BY <2>4, <3>3 DEF Highest, IsHighest, Ids
  <2>5. CASE ~(c \in Ids /\ order'[c].status # "none" /\ c > m)
    <3>1. \A i \in Ids : order'[i].status # "none" => i <= m
      BY <1>4, <2>1, <2>3, <2>5 DEF IsHighest
    <3>2. order'[m].status # "none"
      BY <2>1, <2>2 DEF IsHighest
    <3> QED
      BY <3>1, <3>2 DEF Highest, IsHighest, Ids
  <2> QED
    BY <2>4, <2>5
<1>7. UpdatesKnown' /\ FillsOnce' /\ Counted'
  BY GatewayReports DEF MakerInv
<1> QED
  BY <1>2, <1>3, <1>5, <1>6, <1>7 DEF MakerInv

\* The first h requests have been processed.
Serves(h) ==
    /\ requests' \in Seq(Requests)
    /\ \A k \in DOMAIN requests' : /\ k \in Nat /\ k + h \in DOMAIN requests
                                   /\ requests'[k] = requests[k + h]

LEMMA Served ==
    ASSUME requests \in Seq(Requests), requests # << >>, requests' = Tail(requests)
    PROVE  /\ Serves(1) /\ 1 \in DOMAIN requests /\ Head(requests) = requests[1]
           /\ Head(requests) \in Requests /\ \A k \in DOMAIN requests' : k + 1 # 1
<1> HIDE DEF Requests
<1>1. /\ requests' \in Seq(Requests) /\ Len(requests') = Len(requests) - 1
      /\ \A k \in 1..Len(requests') : requests'[k] = requests[k + 1]
      /\ Head(requests) = requests[1] /\ Head(requests) \in Requests
  BY HeadTailProperties
<1>2. /\ Len(requests) \in Nat /\ DOMAIN requests = 1..Len(requests)
      /\ DOMAIN requests' = 1..Len(requests') /\ Len(requests') \in Nat
  BY <1>1, LenProperties
<1>3. Len(requests) >= 1
  BY <1>1, <1>2
<1> QED
  BY <1>1, <1>2, <1>3 DEF Serves

LEMMA ServedKinds ==
    ASSUME TypeOK, NEW h \in {0, 1}, Serves(h)
    PROVE  /\ \A k \in Creates(World)' : k \in Nat /\ k + h \in Creates(World) /\ requests'[k] = requests[k + h]
           /\ \A k \in Cancels(World)' : k \in Nat /\ k + h \in Cancels(World) /\ requests'[k] = requests[k + h]
           /\ \A k \in Creates(World)' \union Cancels(World)' : requests'[k].side \in Sides /\ requests'[k].id \in Ids
<1>1. World.requests = requests /\ World \in Worlds
  BY Fields DEF TypeOK
<1>2. /\ \A k \in Creates(World)' : k \in Nat /\ k + h \in Creates(World) /\ requests'[k] = requests[k + h]
      /\ \A k \in Cancels(World)' : k \in Nat /\ k + h \in Cancels(World) /\ requests'[k] = requests[k + h]
  BY <1>1, WorldNext DEF Creates, Cancels, Serves
<1>3. \A k \in Creates(World) \union Cancels(World) : requests[k].side \in Sides /\ requests[k].id \in Ids
  BY <1>1, RequestFields
<1> QED
  BY <1>2, <1>3

LEMMA FreshStep ==
    ASSUME TypeOK, Fresh(World), NEW h \in {0, 1}, Serves(h), NEW c \in 0..MaxOrders, OrdersMove(c),
           UNCHANGED max_order_id,
           \A k \in Creates(World)' : requests'[k].id # c
    PROVE  Fresh(World)'
<1>1. /\ \A k \in Creates(World)' : /\ k \in Nat /\ k + h \in Creates(World)
                                    /\ requests'[k] = requests[k + h] /\ requests'[k].id \in Ids
  BY ServedKinds
<1>2. World.requests = requests /\ World.max_order_id = max_order_id
  BY Fields
<1>3. \A k \in Creates(World)' : /\ order[requests'[k].id].status = "none"
                                 /\ requests'[k].id <= max_order_id
  BY <1>1, <1>2 DEF Fresh
<1>4. \A k \in Creates(World)' : order'[requests'[k].id].status = "none"
  BY <1>1, <1>3 DEF OrdersMove
<1>5. \A k, l \in Creates(World)' : requests'[k].id = requests'[l].id => k = l
  <2>1. \A k, l \in Creates(World)' : requests'[k].id = requests'[l].id => k + h = l + h
    BY <1>1, <1>2 DEF Fresh
  <2> QED
    BY <1>1, <2>1
<1> QED
  BY <1>3, <1>4, <1>5, WorldNext DEF Fresh

\* What the answers rely on.
AnswersMove ==
    /\ \A i \in WorkingIds' \ WorkingIds, s \in Sides : order'[i].side = s =>
         /\ quote[s].order_id = i /\ quote[s].state = "CREATE"
         /\ \E k \in DOMAIN inbox' : IsCreated(k, s)'
    /\ \A s \in Sides, k \in NewEvents : IsCreated(k, s)' =>
         /\ quote[s].order_id = inbox'[k].id /\ quote[s].state = "CREATE"
         /\ order'[inbox'[k].id].status # "none" /\ order'[inbox'[k].id].side = s
         /\ \A l \in DOMAIN inbox' : IsCreated(l, s)' => k = l
         /\ \A l \in Cancels(World)' : requests'[l].side # s
    /\ \A s \in Sides, l \in NewEvents :
         IsUpdate(l)' /\ inbox'[l].side = s /\ inbox'[l].id = quote[s].order_id /\ quote[s].state = "CREATE" =>
            \E k \in 1..(l - 1) : IsCreated(k, s)'
    /\ \A s \in Sides, k \in NewEvents : IsCancelAck(k, s)' =>
         /\ order'[inbox'[k].id].status \notin {"none", "working"}
         /\ quote[s].state # "WORKING"
         /\ quote[s].state = "CANCEL" => quote[s].order_id \in {0, inbox'[k].id}
         /\ \A l \in DOMAIN inbox' : ~IsCreated(l, s)'

LEMMA GatewayQuoteStep ==
    ASSUME TypeOK, Owned(World), Created(World), Canceled(World), NEW c \in 0..MaxOrders, NEW h \in {0, 1},
           Serves(h), Delivers, OrdersMove(c), AnswersMove, UNCHANGED quote
    PROVE  Owned(World)' /\ Created(World)' /\ Canceled(World)'
<1>1. /\ World.quote = quote /\ World.requests = requests /\ quote \in [Sides -> Quotes]
      /\ inbox \in Seq(Events) /\ order \in [Ids -> Orders]
  BY Fields DEF TypeOK
<1>2. \A s \in Sides, k \in DOMAIN inbox :
        /\ k \in DOMAIN inbox'
        /\ IsCreated(k, s)' <=> IsCreated(k, s)
        /\ IsCancelAck(k, s)' <=> IsCancelAck(k, s)
        /\ IsUpdate(k)' <=> IsUpdate(k)
  BY DEF Delivers, IsCreated, IsCancelAck, IsUpdate
<1>3. \A k \in DOMAIN inbox, l \in NewEvents : k \in Nat /\ l \in Nat /\ k < l
  <2>1. /\ DOMAIN inbox = 1..Len(inbox) /\ Len(inbox) \in Nat
        /\ DOMAIN inbox' = 1..Len(inbox') /\ Len(inbox') \in Nat
    <3> HIDE DEF Events
    <3> QED
      BY <1>1, LenProperties DEF Delivers
  <2> QED
    BY <2>1 DEF NewEvents
<1>4. /\ \A k \in Creates(World)' : k \in Nat /\ k + h \in Creates(World) /\ requests'[k] = requests[k + h]
      /\ \A k \in Cancels(World)' : k \in Nat /\ k + h \in Cancels(World) /\ requests'[k] = requests[k + h]
      /\ \A k \in Creates(World)' \union Cancels(World)' : requests'[k].side \in Sides /\ requests'[k].id \in Ids
  BY ServedKinds
<1>5. \A i \in Ids : order[i].status # "none" => order'[i].status # "none" /\ order'[i].side = order[i].side
  BY <1>1 DEF OrdersMove, Orders
<1>6. \A s \in Sides : quote[s].order_id # 0 => quote[s].order_id \in Ids
  BY <1>1, QuoteFields, MakerAssumption DEF Ids
<1>7. Owned(World)'
  <2>1. \A s \in Sides : quote[s].order_id # 0 /\ quote[s].state \in {"WORKING", "CANCEL"} =>
          order'[quote[s].order_id].status # "none" /\ order'[quote[s].order_id].side = s
    BY <1>1, <1>5, <1>6 DEF Owned
  <2>2. ASSUME NEW i \in WorkingIds', NEW s \in Sides, order'[i].side = s
        PROVE  /\ quote[s].order_id = i
               /\ quote[s].state = "CREATE" => \E k \in DOMAIN inbox' : IsCreated(k, s)'
    <3>1. CASE i \in WorkingIds
      <4>1. order[i].side = s
        BY <1>5, <2>2, <3>1 DEF WorkingIds
      <4>2. /\ quote[s].order_id = i
            /\ quote[s].state = "CREATE" => \E k \in DOMAIN inbox : IsCreated(k, s)
        BY <1>1, <3>1, <4>1 DEF Owned
      <4> QED
        BY <1>2, <4>2
    <3>2. CASE i \in WorkingIds' \ WorkingIds
      BY <2>2, <3>2 DEF AnswersMove
    <3> QED
      BY <3>1, <3>2
  <2>3. \A i \in WorkingIds' : order'[i].side \in Sides
    BY DEF OrdersMove, WorkingIds, Orders, Ids
  <2>4. \A k \in Creates(World)' : /\ quote[requests'[k].side].order_id = requests'[k].id
                                   /\ quote[requests'[k].side].state = "CREATE"
    BY <1>1, <1>4 DEF Owned
  <2>5. \A i \in WorkingIds' : LET q == quote'[order'[i].side] IN
          /\ q.order_id = i
          /\ q.state = "CREATE" => \E k \in DOMAIN inbox' : IsCreated(k, order[i].side)'
    BY <2>2, <2>3 DEF IsCreated
  <2> QED
    BY <2>1, <2>4, <2>5, WorldNext DEF Owned, Sides
<1>8. Created(World)'
  <2>1. ASSUME NEW s \in Sides, NEW k \in DOMAIN inbox', IsCreated(k, s)'
        PROVE  /\ quote[s].order_id = inbox'[k].id /\ quote[s].state = "CREATE"
               /\ order'[quote[s].order_id].status # "none" /\ order'[quote[s].order_id].side = s
               /\ \A l \in DOMAIN inbox' : IsCreated(l, s)' => k = l
    <3>1. CASE k \in DOMAIN inbox
      <4>1. IsCreated(k, s) /\ inbox'[k] = inbox[k]
        BY <1>2, <2>1, <3>1 DEF Delivers
      <4>2. /\ quote[s].order_id = inbox[k].id /\ quote[s].state = "CREATE"
            /\ order[quote[s].order_id].status # "none" /\ order[quote[s].order_id].side = s
            /\ \A l \in DOMAIN inbox : IsCreated(l, s) => k = l
        BY <1>1, <3>1, <4>1 DEF Created
      <4>3. inbox[k].id \in Ids
        BY <1>1, <3>1, <4>1, EventFields DEF IsCreated
      <4>4. \A l \in NewEvents : IsCreated(l, s)' => k = l
        BY <2>1 DEF AnswersMove
      <4> QED
        BY <1>2, <1>5, <4>1, <4>2, <4>3, <4>4 DEF NewEvents
    <3>2. CASE k \in NewEvents
      <4>1. /\ quote[s].order_id = inbox'[k].id /\ quote[s].state = "CREATE"
            /\ order'[inbox'[k].id].status # "none" /\ order'[inbox'[k].id].side = s
            /\ \A l \in DOMAIN inbox' : IsCreated(l, s)' => k = l
        BY <2>1, <3>2 DEF AnswersMove
      <4> QED
        BY <4>1
    <3> QED
      BY <3>1, <3>2 DEF NewEvents
  <2>2. ASSUME NEW s \in Sides, NEW l \in DOMAIN inbox', IsUpdate(l)', inbox'[l].side = s,
               inbox'[l].id = quote[s].order_id, quote[s].state = "CREATE"
        PROVE  \E k \in 1..(l - 1) : IsCreated(k, s)'
    <3>1. CASE l \in DOMAIN inbox
      <4>1. IsUpdate(l) /\ inbox[l].side = s /\ inbox[l].id = quote[s].order_id
        BY <1>2, <2>2, <3>1 DEF Delivers
      <4>2. PICK k \in 1..(l - 1) : IsCreated(k, s)
        BY <1>1, <2>2, <3>1, <4>1 DEF Created
      <4>3. k \in DOMAIN inbox
        <5>1. DOMAIN inbox = 1..Len(inbox) /\ Len(inbox) \in Nat
          <6> HIDE DEF Events
          <6> QED
            BY <1>1, LenProperties
        <5> QED
          BY <3>1, <5>1
      <4> QED
        BY <1>2, <4>2, <4>3
    <3>2. CASE l \in NewEvents
      BY <2>2, <3>2 DEF AnswersMove
    <3> QED
      BY <3>1, <3>2 DEF NewEvents
  <2> QED
    BY <2>1, <2>2, WorldNext DEF Created, Sides
<1>9. Canceled(World)'
  <2>1. ASSUME NEW k \in Cancels(World)', NEW s \in Sides, requests'[k].side = s
        PROVE  LET r == requests'[k] IN
               /\ order'[r.id].status # "none" /\ order'[r.id].side = s
               /\ quote[s].state # "WORKING"
               /\ quote[s].state = "CANCEL" => quote[s].order_id \in {0, r.id}
               /\ \A l \in DOMAIN inbox' : ~IsCreated(l, s)'
               /\ \A l \in Creates(World)' : requests'[l].side = s => k < l
    <3>1. k + h \in Cancels(World) /\ requests[k + h] = requests'[k] /\ requests'[k].id \in Ids
      BY <1>4
    <3>2. LET r == requests[k + h] IN
          /\ order[r.id].status # "none" /\ order[r.id].side = s
          /\ quote[s].state # "WORKING"
          /\ quote[s].state = "CANCEL" => quote[s].order_id \in {0, r.id}
          /\ \A l \in DOMAIN inbox : ~IsCreated(l, s)
          /\ \A l \in Creates(World) : requests[l].side = s => k + h < l
      BY <1>1, <2>1, <3>1 DEF Canceled
    <3>3. \A l \in NewEvents : ~IsCreated(l, s)'
      BY <2>1 DEF AnswersMove
    <3>4. \A l \in DOMAIN inbox' : ~IsCreated(l, s)'
      BY <1>2, <3>2, <3>3 DEF NewEvents
    <3>5. \A l \in Creates(World)' : requests'[l].side = s => k < l
      <4>1. \A l \in Creates(World)' : requests'[l].side = s => k + h < l + h
        BY <1>4, <3>2
      <4> QED
        BY <1>4, <4>1
    <3> QED
      BY <1>5, <3>1, <3>2, <3>4, <3>5
  <2>2. ASSUME NEW s \in Sides, NEW k \in DOMAIN inbox', IsCancelAck(k, s)'
        PROVE  /\ order'[inbox'[k].id].status \notin {"none", "working"}
               /\ quote[s].state # "WORKING"
               /\ quote[s].state = "CANCEL" => quote[s].order_id \in {0, inbox'[k].id}
               /\ \A l \in DOMAIN inbox' : IsCreated(l, s)' => k < l
    <3>1. CASE k \in DOMAIN inbox
      <4>1. IsCancelAck(k, s) /\ inbox'[k] = inbox[k]
        BY <1>2, <2>2, <3>1 DEF Delivers
      <4>2. /\ order[inbox[k].id].status \notin {"none", "working"}
            /\ quote[s].state # "WORKING"
            /\ quote[s].state = "CANCEL" => quote[s].order_id \in {0, inbox[k].id}
            /\ \A l \in DOMAIN inbox : IsCreated(l, s) => k < l
        BY <1>1, <3>1, <4>1 DEF Canceled
      <4>3. inbox[k].id \in Ids
        BY <1>1, <3>1, <4>1, EventFields DEF IsCancelAck
      <4>4. order'[inbox[k].id] = order[inbox[k].id]
        BY <1>1, <4>2, <4>3 DEF OrdersMove, Orders
      <4>5. \A l \in DOMAIN inbox' : IsCreated(l, s)' => k < l
        BY <1>2, <1>3, <3>1, <4>2 DEF NewEvents
      <4> QED
        BY <4>1, <4>2, <4>4, <4>5
    <3>2. CASE k \in NewEvents
      <4>1. /\ order'[inbox'[k].id].status \notin {"none", "working"}
            /\ quote[s].state # "WORKING"
            /\ quote[s].state = "CANCEL" => quote[s].order_id \in {0, inbox'[k].id}
            /\ \A l \in DOMAIN inbox' : ~IsCreated(l, s)'
        BY <2>2, <3>2 DEF AnswersMove
      <4> QED
        BY <4>1
    <3> QED
      BY <3>1, <3>2 DEF NewEvents
  <2>3. \A k \in Cancels(World)' : requests'[k].side \in Sides
    BY <1>4
  <2>4. \A k \in Cancels(World)' : LET r == requests'[k] IN
          /\ order'[r.id].status # "none" /\ order'[r.id].side = r.side
          /\ quote[r.side].state # "WORKING"
          /\ quote[r.side].state = "CANCEL" => quote[r.side].order_id \in {0, r.id}
          /\ \A l \in DOMAIN inbox' : ~IsCreated(l, requests[k].side)'
          /\ \A l \in Creates(World)' : requests'[l].side = r.side => k < l
    BY <2>1, <2>3 DEF IsCreated
  <2> QED
    BY <2>2, <2>4, WorldNext DEF Canceled, Sides
<1> QED
  BY <1>7, <1>8, <1>9

LEMMA OneDelivered ==
    ASSUME inbox \in Seq(Events), NEW e \in Events, inbox' = Append(inbox, e)
    PROVE  LET n == Len(inbox) + 1
           IN  Delivers /\ NewEvents = {n} /\ inbox'[n] = e /\ \A k \in DOMAIN inbox : k \in 1..(n - 1)
<1> HIDE DEF Events
<1>1. /\ Len(inbox) \in Nat /\ DOMAIN inbox = 1..Len(inbox)
      /\ Append(inbox, e) \in Seq(Events) /\ DOMAIN Append(inbox, e) = 1..(Len(inbox) + 1)
      /\ Append(inbox, e)[Len(inbox) + 1] = e
      /\ \A k \in 1..Len(inbox) : Append(inbox, e)[k] = inbox[k]
  BY AppendProperties, LenProperties
<1>2. 1..(Len(inbox) + 1) = 1..Len(inbox) \union {Len(inbox) + 1} /\ Len(inbox) + 1 \notin 1..Len(inbox)
  BY <1>1
<1> QED
  BY <1>1, <1>2 DEF Delivers, NewEvents

LEMMA TwoDelivered ==
    ASSUME inbox \in Seq(Events), NEW e \in Events, NEW f \in Events, inbox' = inbox \o <<e, f>>
    PROVE  LET n == Len(inbox) + 1
           IN  /\ Delivers /\ NewEvents = {n, n + 1} /\ inbox'[n] = e /\ inbox'[n + 1] = f
               /\ n \in 1..(n + 1 - 1) /\ \A k \in DOMAIN inbox : k \in 1..(n + 1 - 1)
<1> HIDE DEF Events
<1> DEFINE m == Len(inbox)
           t == <<e, f>>
<1>1. m \in Nat /\ DOMAIN inbox = 1..m
  BY LenProperties
<1>2. t \in Seq(Events) /\ Len(t) = 2 /\ t[1] = e /\ t[2] = f
  OBVIOUS
<1> HIDE DEF t
<1>3. /\ inbox' \in Seq(Events) /\ Len(inbox') = m + 2
      /\ \A k \in 1..(m + 2) : inbox'[k] = IF k <= m THEN inbox[k] ELSE t[k - m]
  <2>1. inbox' = inbox \o t
    BY DEF t
  <2> QED
    BY <1>2, <2>1, ConcatProperties
<1>4. DOMAIN inbox' = 1..(m + 2)
  BY <1>3, LenProperties
<1> HIDE DEF m
<1>5. /\ 1..(m + 2) = 1..m \union {m + 1, m + 1 + 1}
      /\ m + 1 \notin 1..m /\ m + 1 + 1 \notin 1..m
      /\ m + 1 \in 1..(m + 1 + 1 - 1) /\ \A k \in 1..m : k \in 1..(m + 1 + 1 - 1)
  BY <1>1
<1>6. \A k \in 1..m : inbox'[k] = inbox[k]
  BY <1>1, <1>3, <1>5
<1>7. inbox'[m + 1] = e /\ inbox'[m + 1 + 1] = f
  <2>1. /\ m + 1 \in 1..(m + 2) /\ ~(m + 1 <= m) /\ (m + 1) - m = 1
        /\ m + 1 + 1 \in 1..(m + 2) /\ ~(m + 1 + 1 <= m) /\ (m + 1 + 1) - m = 2
    BY <1>1
  <2> QED
    BY <1>2, <1>3, <2>1
<1>8. Delivers /\ NewEvents = {m + 1, m + 1 + 1}
  BY <1>1, <1>3, <1>4, <1>5, <1>6 DEF Delivers, NewEvents
<1> QED
  BY <1>1, <1>5, <1>7, <1>8 DEF m

\* What handling a request leaves alone.
Idles == /\ UNCHANGED <<quote, max_order_id, halted, position, link, disconnects, ready, mid, tick>>
         /\ link = "up" /\ Running

\* The first request is a create request.
LEMMA GatewayCreateStep ==
    ASSUME MakerInv, Idles, requests # << >>, requests' = Tail(requests), GatewayCreate(Head(requests))
    PROVE  MakerInv' /\ (QuoteInv => QuoteInv')
<1> USE MakerAssumption
<1>1. /\ requests \in Seq(Requests) /\ World.requests = requests /\ World.quote = quote
      /\ World.max_order_id = max_order_id
      /\ World \in Worlds /\ inbox \in Seq(Events) /\ order \in [Ids -> Orders]
  BY Fields DEF MakerInv, TypeOK
<1>2. /\ Serves(1) /\ 1 \in DOMAIN requests /\ Head(requests) = requests[1]
      /\ Head(requests) \in Requests /\ \A k \in DOMAIN requests' : k + 1 # 1
  BY <1>1, Served
<1>3. requests[1].kind = "create" /\ 1 \in Creates(World)
  BY <1>1, <1>2 DEF GatewayCreate, Creates
<1>4. PICK s \in Sides, c \in Ids : requests[1] = [kind |-> "create", side |-> s, id |-> c]
  BY <1>2, <1>3 DEF Requests
<1>5. requests[1].side = s /\ requests[1].id = c
  BY <1>4
<1>6. order[c].status = "none" /\ c <= max_order_id /\ c \in 0..MaxOrders
  BY <1>1, <1>3, <1>5 DEF MakerInv, Fresh, Ids
<1>7. \A k \in Creates(World)' : /\ k \in Nat /\ k + 1 \in Creates(World)
                                 /\ requests'[k] = requests[k + 1] /\ requests'[k].id # c
  <2>1. \A k \in Creates(World)' : k \in Nat /\ k + 1 \in Creates(World) /\ requests'[k] = requests[k + 1]
    BY <1>2, ServedKinds DEF MakerInv
  <2>2. \A k \in Creates(World) : requests[k].id = requests[1].id => k = 1
    BY <1>1, <1>3 DEF MakerInv, Fresh
  <2>3. \A k \in Creates(World)' : k \in DOMAIN requests'
    BY WorldNext DEF Creates
  <2> QED
    BY <1>2, <1>5, <2>1, <2>2, <2>3
<1>8. \A k \in Cancels(World)' : k \in Nat /\ k + 1 \in Cancels(World) /\ requests'[k] = requests[k + 1]
  BY <1>2, ServedKinds DEF MakerInv
<1>0. PICK n : n = Len(inbox) + 1
  OBVIOUS
<1>9. CASE /\ order' = [order EXCEPT ![c] = [side |-> s, status |-> "working"]]
           /\ inbox' = inbox \o <<Ack(requests[1], "accepted"), Update(s, c, "working")>>
  <2> DEFINE e == Ack(requests[1], "accepted")
             f == Update(s, c, "working")
  <2>1. /\ e \in Events /\ f \in Events /\ e.event = "ack" /\ e.kind = "create" /\ e.side = s
        /\ e.id = c /\ e.result = "accepted"
        /\ f.event = "update" /\ f.side = s /\ f.id = c /\ f.status = "working"
    BY <1>4 DEF Events, Ack, Update
  <2> HIDE DEF e, f
  <2>2. /\ Delivers /\ NewEvents = {n, n + 1} /\ inbox'[n] = e /\ inbox'[n + 1] = f
        /\ n \in 1..(n + 1 - 1)
    BY <1>0, <1>1, <1>9, <2>1, TwoDelivered DEF e, f
  <2>3. /\ OrdersMove(c) /\ order'[c].status = "working" /\ order'[c].side = s
        /\ \A i \in Ids \ {c} : order'[i] = order[i]
    <3>1. [side |-> s, status |-> "working"] \in Orders
      BY DEF Orders
    <3>2. /\ order' \in [Ids -> Orders] /\ order'[c] = [side |-> s, status |-> "working"]
          /\ \A i \in Ids \ {c} : order'[i] = order[i]
      BY <1>1, <1>9, <3>1
    <3> QED
      BY <1>6, <3>2 DEF OrdersMove
  <2>4. UpdatesMove
    <3>1. \A k \in NewEvents : ~IsFill(k)'
      BY <2>1, <2>2 DEF IsFill, IsUpdate
    <3>2. \A k \in NewEvents : IsUpdate(k)' => inbox'[k] = f
      BY <2>1, <2>2 DEF IsUpdate
    <3> QED
      BY <2>1, <2>3, <3>1, <3>2 DEF UpdatesMove
  <2>5. Fresh(World)'
    BY <1>2, <1>6, <1>7, <2>3, FreshStep DEF MakerInv, Idles
  <2>6. MakerInv'
    BY <1>2, <1>6, <2>2, <2>3, <2>4, <2>5, GatewayStep DEF Idles, Serves
  <2>7. ASSUME QuoteInv PROVE QuoteInv'
    <3>1. Owned(World) /\ Created(World) /\ Canceled(World)
      BY <2>7 DEF QuoteInv, Idles
    <3>2. quote[s].order_id = c /\ quote[s].state = "CREATE"
      BY <1>1, <1>3, <1>5, <3>1 DEF Owned
    <3>3. /\ \A k \in NewEvents, t \in Sides : IsCreated(k, t)' => k = n /\ t = s
          /\ \A k \in NewEvents : IsUpdate(k)' => k = n + 1
          /\ \A k \in NewEvents, t \in Sides : ~IsCancelAck(k, t)'
          /\ n \in DOMAIN inbox' /\ IsCreated(n, s)'
      <4>1. \A k \in NewEvents : (k = n /\ inbox'[k] = e) \/ (k = n + 1 /\ inbox'[k] = f)
        BY <2>2
      <4>2. n \in DOMAIN inbox' /\ n \in NewEvents
        BY <2>2 DEF NewEvents
      <4>3. \A k \in NewEvents, t \in Sides : IsCreated(k, t)' => k = n /\ t = s
        BY <2>1, <4>1 DEF IsCreated
      <4>4. \A k \in NewEvents : IsUpdate(k)' => k = n + 1
        BY <2>1, <4>1 DEF IsUpdate
      <4>5. \A k \in NewEvents, t \in Sides : ~IsCancelAck(k, t)'
        BY <2>1, <4>1 DEF IsCancelAck
      <4>6. IsCreated(n, s)'
        <5>1. inbox'[n].event = "ack" /\ inbox'[n].kind = "create" /\ inbox'[n].result = "accepted"
              /\ inbox'[n].side = s
          BY <2>1, <2>2
        <5> QED
          BY <5>1 DEF IsCreated
      <4> QED
        BY <4>2, <4>3, <4>4, <4>5, <4>6
    <3>4. \A l \in DOMAIN inbox : ~IsCreated(l, s)
      BY <1>1, <1>6, <3>1, <3>2 DEF Created
    <3>5. \A l \in DOMAIN inbox' : IsCreated(l, s)' => l = n
      <4>1. \A l \in DOMAIN inbox : ~IsCreated(l, s)'
        BY <2>2, <3>4 DEF Delivers, IsCreated
      <4> QED
        BY <3>3, <4>1 DEF NewEvents
    <3>6. \A l \in Cancels(World)' : requests'[l].side # s
      <4>1. \A l \in Cancels(World) : requests[l].side = s => l < 1
        BY <1>1, <1>3, <1>5, <3>1 DEF Canceled
      <4>2. \A l \in Cancels(World)' : requests'[l].side = s => l \in Nat /\ l + 1 < 1
        BY <1>8, <4>1
      <4>3. \A l \in Nat : ~(l + 1 < 1)
        OBVIOUS
      <4> QED
        BY <4>2, <4>3
    <3>7. AnswersMove
      <4>1. \A i \in WorkingIds' \ WorkingIds : i = c
        BY <2>3 DEF WorkingIds, Ids
      <4>2. \A i \in WorkingIds' \ WorkingIds, t \in Sides : order'[i].side = t =>
              /\ quote[t].order_id = i /\ quote[t].state = "CREATE"
              /\ \E k \in DOMAIN inbox' : IsCreated(k, t)'
        BY <2>3, <3>2, <3>3, <4>1
      <4>3. \A t \in Sides, k \in NewEvents : IsCreated(k, t)' =>
              /\ quote[t].order_id = inbox'[k].id /\ quote[t].state = "CREATE"
              /\ order'[inbox'[k].id].status # "none" /\ order'[inbox'[k].id].side = t
              /\ \A l \in DOMAIN inbox' : IsCreated(l, t)' => k = l
              /\ \A l \in Cancels(World)' : requests'[l].side # t
        BY <2>1, <2>2, <2>3, <3>2, <3>3, <3>5, <3>6
      <4>4. \A t \in Sides, l \in NewEvents :
              IsUpdate(l)' /\ inbox'[l].side = t /\ inbox'[l].id = quote[t].order_id /\ quote[t].state = "CREATE" =>
                 \E k \in 1..(l - 1) : IsCreated(k, t)'
        BY <2>1, <2>2, <3>3
      <4> QED
        BY <3>3, <4>2, <4>3, <4>4 DEF AnswersMove
    <3> QED
      BY <1>2, <1>6, <2>2, <2>3, <3>1, <3>7, GatewayQuoteStep DEF QuoteInv, MakerInv, Idles
  <2> QED
    BY <2>6, <2>7
<1>10. CASE inbox' = Append(inbox, Ack(requests[1], "error")) /\ UNCHANGED order
  <2> DEFINE e == Ack(requests[1], "error")
  <2>1. /\ e \in Events /\ e.event = "ack" /\ e.kind = "create" /\ e.result = "error"
    BY <1>4 DEF Events, Ack
  <2> HIDE DEF e
  <2>2. Delivers /\ NewEvents = {n} /\ inbox'[n] = e
    BY <1>0, <1>1, <1>10, <2>1, OneDelivered DEF e
  <2>3. OrdersMove(c)
    BY <1>1, <1>10 DEF OrdersMove, Orders
  <2>4. \A k \in NewEvents, t \in Sides : ~IsUpdate(k)' /\ ~IsFill(k)' /\ ~IsCreated(k, t)' /\ ~IsCancelAck(k, t)'
    BY <2>1, <2>2 DEF IsUpdate, IsFill, IsCreated, IsCancelAck
  <2>5. UpdatesMove
    BY <1>10, <2>4 DEF UpdatesMove, Sides
  <2>6. Fresh(World)'
    BY <1>2, <1>6, <1>7, <2>3, FreshStep DEF MakerInv, Idles
  <2>7. MakerInv'
    BY <1>2, <1>6, <2>2, <2>3, <2>5, <2>6, GatewayStep DEF Idles, Serves
  <2>8. ASSUME QuoteInv PROVE QuoteInv'
    <3>1. Owned(World) /\ Created(World) /\ Canceled(World)
      BY <2>8 DEF QuoteInv, Idles
    <3>2. WorkingIds' = WorkingIds
      BY <1>10 DEF WorkingIds, Ids
    <3>3. AnswersMove
      BY <2>4, <3>2 DEF AnswersMove
    <3> QED
      BY <1>2, <1>6, <2>2, <2>3, <3>1, <3>3, GatewayQuoteStep DEF QuoteInv, MakerInv, Idles
  <2> QED
    BY <2>7, <2>8
<1> QED
  BY <1>2, <1>5, <1>9, <1>10 DEF GatewayCreate

\* The first request is a cancel request.
LEMMA GatewayCancelStep ==
    ASSUME MakerInv, Idles, requests # << >>, requests' = Tail(requests), GatewayCancel(Head(requests))
    PROVE  MakerInv' /\ (QuoteInv => QuoteInv')
<1> USE MakerAssumption
<1>1. /\ requests \in Seq(Requests) /\ World.requests = requests /\ World.quote = quote
      /\ World.max_order_id = max_order_id /\ max_order_id \in 0..MaxOrders
      /\ World \in Worlds /\ inbox \in Seq(Events) /\ order \in [Ids -> Orders]
  BY Fields DEF MakerInv, TypeOK
<1>2. /\ Serves(1) /\ 1 \in DOMAIN requests /\ Head(requests) = requests[1]
      /\ Head(requests) \in Requests
  BY <1>1, Served
<1>3. requests[1].kind = "cancel" /\ 1 \in Cancels(World)
  BY <1>1, <1>2 DEF GatewayCancel, Cancels
<1>4. PICK s \in Sides, x \in Ids : requests[1] = [kind |-> "cancel", side |-> s, id |-> x]
  BY <1>2, <1>3 DEF Requests
<1>5. requests[1].side = s /\ requests[1].id = x
  BY <1>4
<1>6. 0 \in 0..MaxOrders /\ 0 <= max_order_id
  BY <1>1
<1>7. \A k \in Creates(World)' : requests'[k].id # 0
  <2>1. \A k \in Creates(World)' : requests'[k].id \in Ids
    BY <1>2, ServedKinds DEF MakerInv
  <2>2. \A i \in Ids : i # 0
    BY DEF Ids
  <2> QED
    BY <2>1, <2>2
<1>8. PICK n : n = Len(inbox) + 1
  OBVIOUS
<1>9. ASSUME QuoteInv
      PROVE  /\ Owned(World) /\ Created(World) /\ Canceled(World)
             /\ order[x].status # "none" /\ order[x].side = s
             /\ quote[s].state # "WORKING"
             /\ quote[s].state = "CANCEL" => quote[s].order_id \in {0, x}
             /\ \A l \in DOMAIN inbox : ~IsCreated(l, s)
             /\ x \in WorkingIds => quote[s].state # "CREATE"
  <2>1. Owned(World) /\ Created(World) /\ Canceled(World)
    BY <1>9 DEF QuoteInv, Idles
  <2>2. /\ order[x].status # "none" /\ order[x].side = s
        /\ quote[s].state # "WORKING"
        /\ quote[s].state = "CANCEL" => quote[s].order_id \in {0, x}
        /\ \A l \in DOMAIN inbox : ~IsCreated(l, s)
    BY <1>1, <1>3, <1>5, <2>1 DEF Canceled
  <2>3. x \in WorkingIds => quote[s].state # "CREATE"
    BY <1>1, <2>1, <2>2 DEF Owned
  <2> QED
    BY <2>1, <2>2, <2>3
<1>10. CASE /\ x \in WorkingIds /\ order' = [order EXCEPT ![x].status = "canceled"]
            /\ inbox' = inbox \o <<Ack(requests[1], "accepted"), Update(s, x, "canceled")>>
  <2> DEFINE e == Ack(requests[1], "accepted")
             f == Update(s, x, "canceled")
  <2>1. /\ e \in Events /\ f \in Events /\ e.event = "ack" /\ e.kind = "cancel" /\ e.side = s
        /\ e.id = x
        /\ f.event = "update" /\ f.side = s /\ f.id = x /\ f.status = "canceled"
    BY <1>4 DEF Events, Ack, Update
  <2> HIDE DEF e, f
  <2>2. /\ Delivers /\ NewEvents = {n, n + 1} /\ inbox'[n] = e /\ inbox'[n + 1] = f
    BY <1>1, <1>8, <1>10, <2>1, TwoDelivered DEF e, f
  <2>3. /\ OrdersMove(0) /\ order'[x].status = "canceled"
        /\ \A i \in Ids \ {x} : order'[i] = order[i]
    <3>1. order[x].status = "working"
      BY <1>10 DEF WorkingIds
    <3>2. /\ order' \in [Ids -> Orders] /\ order'[x].status = "canceled" /\ order'[x].side = order[x].side
          /\ \A i \in Ids \ {x} : order'[i] = order[i]
      BY <1>1, <1>10 DEF Orders
    <3> QED
      BY <3>1, <3>2 DEF OrdersMove
  <2>4. \A k \in NewEvents : (k = n /\ inbox'[k] = e) \/ (k = n + 1 /\ inbox'[k] = f)
    BY <2>2
  <2>5. UpdatesMove
    <3>1. \A k \in NewEvents : ~IsFill(k)'
      BY <2>1, <2>4 DEF IsFill, IsUpdate
    <3>2. \A k \in NewEvents : IsUpdate(k)' => inbox'[k] = f
      BY <2>1, <2>4 DEF IsUpdate
    <3>3. \A i \in Ids : order'[i].status = "completed" => order[i].status = "completed"
      BY <2>3
    <3> QED
      BY <2>1, <2>3, <3>1, <3>2, <3>3 DEF UpdatesMove
  <2>6. Fresh(World)'
    BY <1>2, <1>6, <1>7, <2>3, FreshStep DEF MakerInv, Idles
  <2>7. MakerInv'
    BY <1>2, <1>6, <2>2, <2>3, <2>5, <2>6, GatewayStep DEF Idles, Serves
  <2>8. ASSUME QuoteInv PROVE QuoteInv'
    <3>1. /\ \A k \in NewEvents, t \in Sides : ~IsCreated(k, t)'
          /\ \A k \in NewEvents : IsUpdate(k)' => inbox'[k].side = s
          /\ \A k \in NewEvents, t \in Sides : IsCancelAck(k, t)' => t = s /\ inbox'[k].id = x
      <4>1. \A k \in NewEvents, t \in Sides : ~IsCreated(k, t)'
        BY <2>1, <2>4 DEF IsCreated
      <4>2. \A k \in NewEvents : IsUpdate(k)' => inbox'[k].side = s
        BY <2>1, <2>4 DEF IsUpdate
      <4>3. \A k \in NewEvents, t \in Sides : IsCancelAck(k, t)' => t = s /\ inbox'[k].id = x
        BY <2>1, <2>4 DEF IsCancelAck
      <4> QED
        BY <4>1, <4>2, <4>3
    <3>2. \A l \in DOMAIN inbox' : ~IsCreated(l, s)'
      <4>1. \A l \in DOMAIN inbox : ~IsCreated(l, s)'
        BY <1>9, <2>2, <2>8 DEF Delivers, IsCreated
      <4> QED
        BY <3>1, <4>1 DEF NewEvents
    <3>3. WorkingIds' \subseteq WorkingIds
      BY <2>3 DEF WorkingIds, Ids
    <3>4. \A t \in Sides, k \in NewEvents : IsCancelAck(k, t)' =>
            /\ order'[inbox'[k].id].status \notin {"none", "working"}
            /\ quote[t].state # "WORKING"
            /\ quote[t].state = "CANCEL" => quote[t].order_id \in {0, inbox'[k].id}
            /\ \A l \in DOMAIN inbox' : ~IsCreated(l, t)'
      BY <1>9, <2>3, <2>8, <3>1, <3>2
    <3>5. AnswersMove
      BY <1>9, <1>10, <2>8, <3>1, <3>3, <3>4 DEF AnswersMove
    <3> QED
      BY <1>2, <1>6, <1>9, <2>2, <2>3, <2>8, <3>5, GatewayQuoteStep DEF QuoteInv, MakerInv, Idles
  <2> QED
    BY <2>7, <2>8
<1>11. CASE x \notin WorkingIds /\ inbox' = Append(inbox, Ack(requests[1], "TOO_LATE")) /\ UNCHANGED order
  <2> DEFINE e == Ack(requests[1], "TOO_LATE")
  <2>1. /\ e \in Events /\ e.event = "ack" /\ e.kind = "cancel" /\ e.side = s /\ e.id = x
    BY <1>4 DEF Events, Ack
  <2> HIDE DEF e
  <2>2. Delivers /\ NewEvents = {n} /\ inbox'[n] = e
    BY <1>1, <1>8, <1>11, <2>1, OneDelivered DEF e
  <2>3. OrdersMove(0)
    BY <1>1, <1>11 DEF OrdersMove, Orders
  <2>4. \A k \in NewEvents, t \in Sides : ~IsUpdate(k)' /\ ~IsFill(k)' /\ ~IsCreated(k, t)'
    BY <2>1, <2>2 DEF IsUpdate, IsFill, IsCreated
  <2>5. UpdatesMove
    BY <1>11, <2>4 DEF UpdatesMove, Sides
  <2>6. Fresh(World)'
    BY <1>2, <1>6, <1>7, <2>3, FreshStep DEF MakerInv, Idles
  <2>7. MakerInv'
    BY <1>2, <1>6, <2>2, <2>3, <2>5, <2>6, GatewayStep DEF Idles, Serves
  <2>8. ASSUME QuoteInv PROVE QuoteInv'
    <3>1. \A k \in NewEvents, t \in Sides : IsCancelAck(k, t)' => t = s /\ inbox'[k].id = x
      BY <2>1, <2>2 DEF IsCancelAck
    <3>2. \A l \in DOMAIN inbox' : ~IsCreated(l, s)'
      <4>1. \A l \in DOMAIN inbox : ~IsCreated(l, s)'
        BY <1>9, <2>2, <2>8 DEF Delivers, IsCreated
      <4> QED
        BY <2>4, <4>1 DEF NewEvents
    <3>3. WorkingIds' = WorkingIds
      BY <1>11 DEF WorkingIds, Ids
    <3>4. order'[x].status \notin {"none", "working"}
      BY <1>9, <1>11, <2>8 DEF WorkingIds
    <3>5. \A t \in Sides, k \in NewEvents : IsCancelAck(k, t)' =>
            /\ order'[inbox'[k].id].status \notin {"none", "working"}
            /\ quote[t].state # "WORKING"
            /\ quote[t].state = "CANCEL" => quote[t].order_id \in {0, inbox'[k].id}
            /\ \A l \in DOMAIN inbox' : ~IsCreated(l, t)'
      BY <1>9, <2>8, <3>1, <3>2, <3>4
    <3>6. AnswersMove
      BY <2>4, <3>3, <3>5 DEF AnswersMove
    <3> QED
      BY <1>2, <1>6, <1>9, <2>2, <2>3, <2>8, <3>6, GatewayQuoteStep DEF QuoteInv, MakerInv, Idles
  <2> QED
    BY <2>7, <2>8
<1>12. CASE inbox' = Append(inbox, Ack(requests[1], "error")) /\ UNCHANGED order
  <2> DEFINE e == Ack(requests[1], "error")
  <2>1. /\ e \in Events /\ e.event = "ack" /\ e.kind = "cancel" /\ e.side = s /\ e.id = x
        /\ e.result = "error"
    BY <1>4 DEF Events, Ack
  <2> HIDE DEF e
  <2>2. Delivers /\ NewEvents = {n} /\ inbox'[n] = e
    BY <1>1, <1>8, <1>12, <2>1, OneDelivered DEF e
  <2>3. OrdersMove(0)
    BY <1>1, <1>12 DEF OrdersMove, Orders
  <2>4. \A k \in NewEvents, t \in Sides : ~IsUpdate(k)' /\ ~IsFill(k)' /\ ~IsCreated(k, t)' /\ ~IsCancelAck(k, t)'
    BY <2>1, <2>2 DEF IsUpdate, IsFill, IsCreated, IsCancelAck
  <2>5. UpdatesMove
    BY <1>12, <2>4 DEF UpdatesMove, Sides
  <2>6. Fresh(World)'
    BY <1>2, <1>6, <1>7, <2>3, FreshStep DEF MakerInv, Idles
  <2>7. MakerInv'
    BY <1>2, <1>6, <2>2, <2>3, <2>5, <2>6, GatewayStep DEF Idles, Serves
  <2>8. ASSUME QuoteInv PROVE QuoteInv'
    <3>1. WorkingIds' = WorkingIds
      BY <1>12 DEF WorkingIds, Ids
    <3>2. AnswersMove
      BY <2>4, <3>1 DEF AnswersMove
    <3> QED
      BY <1>2, <1>6, <1>9, <2>2, <2>3, <2>8, <3>2, GatewayQuoteStep DEF QuoteInv, MakerInv, Idles
  <2> QED
    BY <2>7, <2>8
<1> QED
  BY <1>2, <1>5, <1>10, <1>11, <1>12 DEF GatewayCancel

LEMMA GatewayCancelAllStep ==
    ASSUME MakerInv, Idles, requests # << >>, requests' = Tail(requests), GatewayCancelAll(Head(requests))
    PROVE  MakerInv' /\ (QuoteInv => QuoteInv')
<1> USE MakerAssumption
<1>1. /\ requests \in Seq(Requests) /\ max_order_id \in 0..MaxOrders
      /\ inbox \in Seq(Events) /\ order \in [Ids -> Orders]
  BY Fields DEF MakerInv, TypeOK
<1>2. Serves(1)
  BY <1>1, Served
<1>3. 0 \in 0..MaxOrders /\ 0 <= max_order_id
  BY <1>1
<1>4. \A k \in Creates(World)' : requests'[k].id # 0
  <2>1. \A k \in Creates(World)' : requests'[k].id \in Ids
    BY <1>2, ServedKinds DEF MakerInv
  <2>2. \A i \in Ids : i # 0
    BY DEF Ids
  <2> QED
    BY <2>1, <2>2
<1>5. PICK n : n = Len(inbox) + 1
  OBVIOUS
<1>6. /\ order' = [i \in Ids |-> IF i \in WorkingIds
                                 THEN [order[i] EXCEPT !.status = "canceled"] ELSE order[i]]
      /\ inbox' = Append(inbox, [event |-> "cancel_all_ack"])
  BY DEF GatewayCancelAll
<1>7. /\ Delivers /\ NewEvents = {n} /\ inbox'[n].event = "cancel_all_ack"
  <2>1. [event |-> "cancel_all_ack"] \in Events
    BY DEF Events
  <2> QED
    BY <1>1, <1>5, <1>6, <2>1, OneDelivered
<1>8. /\ OrdersMove(0) /\ WorkingIds' = {}
      /\ \A i \in Ids : order'[i].status = "completed" => order[i].status = "completed"
  <2>1. \A i \in Ids : order[i] \in Orders /\ (i \in WorkingIds <=> order[i].status = "working")
    BY <1>1 DEF WorkingIds
  <2>2. \A i \in Ids : [order[i] EXCEPT !.status = "canceled"] \in Orders
    BY <2>1 DEF Orders
  <2>3. order' \in [Ids -> Orders]
    BY <1>6, <2>1, <2>2
  <2>4. \A i \in Ids : /\ i \in WorkingIds => /\ order'[i].status = "canceled"
                                              /\ order'[i].side = order[i].side
                       /\ i \notin WorkingIds => order'[i] = order[i]
    BY <1>6, <2>1 DEF Orders
  <2> QED
    BY <2>1, <2>3, <2>4 DEF OrdersMove, WorkingIds, Ids
<1>9. \A k \in NewEvents, t \in Sides : ~IsUpdate(k)' /\ ~IsFill(k)' /\ ~IsCreated(k, t)' /\ ~IsCancelAck(k, t)'
  BY <1>7 DEF IsUpdate, IsFill, IsCreated, IsCancelAck
<1>10. UpdatesMove
  BY <1>8, <1>9 DEF UpdatesMove, Sides
<1>11. Fresh(World)'
  BY <1>2, <1>3, <1>4, <1>8, FreshStep DEF MakerInv, Idles
<1>12. MakerInv'
  BY <1>2, <1>3, <1>7, <1>8, <1>10, <1>11, GatewayStep DEF Idles, Serves
<1>13. ASSUME QuoteInv PROVE QuoteInv'
  <2>1. Owned(World) /\ Created(World) /\ Canceled(World)
    BY <1>13 DEF QuoteInv, Idles
  <2>2. AnswersMove
    BY <1>8, <1>9 DEF AnswersMove
  <2> QED
    BY <1>2, <1>3, <1>7, <1>8, <2>1, <2>2, GatewayQuoteStep DEF QuoteInv, MakerInv, Idles
<1> QED
  BY <1>12, <1>13

LEMMA FillStep ==
    ASSUME MakerInv, NEW x \in Ids, Fill(x)
    PROVE  MakerInv' /\ (QuoteInv => QuoteInv')
<1> USE MakerAssumption
<1>1. /\ requests \in Seq(Requests) /\ max_order_id \in 0..MaxOrders
      /\ World.requests = requests /\ World.quote = quote
      /\ inbox \in Seq(Events) /\ order \in [Ids -> Orders]
  BY Fields DEF MakerInv, TypeOK
<1>2. /\ x \in WorkingIds /\ order[x].status = "working" /\ requests' = requests
      /\ order' = [order EXCEPT ![x].status = "completed"]
      /\ inbox' = Append(inbox, Update(order[x].side, x, "completed"))
      /\ Running /\ UNCHANGED <<quote, max_order_id, halted, position, link, disconnects, ready, mid, tick>>
  BY DEF Fill, WorkingIds, shared, strategy
<1>3. Idles
  BY <1>2 DEF Idles, MakerInv, Linked
<1>4. PICK s \in Sides : order[x].side = s
  BY <1>1 DEF Orders
<1>5. Serves(0)
  <2> HIDE DEF Requests
  <2>1. DOMAIN requests = 1..Len(requests)
    BY <1>1, LenProperties
  <2> QED
    BY <1>1, <1>2, <2>1 DEF Serves
<1>6. 0 \in 0..MaxOrders /\ 0 <= max_order_id
  BY <1>1
<1>7. \A k \in Creates(World)' : requests'[k].id # 0
  <2>1. \A k \in Creates(World)' : requests'[k].id \in Ids
    BY <1>5, ServedKinds DEF MakerInv
  <2>2. \A i \in Ids : i # 0
    BY DEF Ids
  <2> QED
    BY <2>1, <2>2
<1>8. PICK n : n = Len(inbox) + 1
  OBVIOUS
<1> DEFINE e == Update(order[x].side, x, "completed")
<1>9. e \in Events /\ e.event = "update" /\ e.side = s /\ e.id = x /\ e.status = "completed"
  BY <1>4 DEF Events, Update
<1> HIDE DEF e
<1>10. /\ Delivers /\ NewEvents = {n} /\ inbox'[n] = e
       /\ \A k \in DOMAIN inbox : k \in 1..(n - 1)
  BY <1>1, <1>2, <1>8, <1>9, OneDelivered DEF e
<1>11. /\ OrdersMove(0) /\ order'[x].status = "completed" /\ order'[x].side = s
       /\ \A i \in Ids \ {x} : order'[i] = order[i]
  <2>1. /\ order' \in [Ids -> Orders] /\ order'[x].status = "completed" /\ order'[x].side = order[x].side
        /\ \A i \in Ids \ {x} : order'[i] = order[i]
    BY <1>1, <1>2 DEF Orders
  <2> QED
    BY <1>2, <1>4, <2>1 DEF OrdersMove
<1>12. UpdatesMove
  <2>1. \A k \in NewEvents : k = n /\ inbox'[k] = e
    BY <1>10
  <2>2. n \in DOMAIN inbox' /\ IsFill(n)' /\ inbox'[n].id = x
    <3>1. n \in DOMAIN inbox'
      BY <1>10 DEF NewEvents
    <3>2. inbox'[n].event = "update" /\ inbox'[n].status = "completed" /\ inbox'[n].id = x
      BY <1>9, <1>10
    <3> QED
      BY <3>1, <3>2 DEF IsFill, IsUpdate
  <2>3. \A i \in Ids : order'[i].status = "completed" /\ order[i].status # "completed" => i = x
    BY <1>11
  <2> QED
    BY <1>2, <1>9, <1>11, <2>1, <2>2, <2>3 DEF UpdatesMove
<1>13. Fresh(World)'
  BY <1>2, <1>5, <1>6, <1>7, <1>11, FreshStep DEF MakerInv
<1>14. MakerInv'
  BY <1>3, <1>5, <1>6, <1>10, <1>11, <1>12, <1>13, GatewayStep DEF Idles, Serves
<1>15. ASSUME QuoteInv PROVE QuoteInv'
  <2>1. Owned(World) /\ Created(World) /\ Canceled(World)
    BY <1>2, <1>15 DEF QuoteInv
  <2>2. /\ \A k \in NewEvents, t \in Sides : ~IsCreated(k, t)' /\ ~IsCancelAck(k, t)'
        /\ \A k \in NewEvents : k = n /\ inbox'[k].side = s
    BY <1>9, <1>10 DEF IsCreated, IsCancelAck
  <2>3. WorkingIds' \subseteq WorkingIds
    BY <1>11 DEF WorkingIds, Ids
  <2>4. quote[s].state = "CREATE" => \E k \in 1..(n - 1) : IsCreated(k, s)'
    <3>1. quote[s].state = "CREATE" => \E k \in DOMAIN inbox : IsCreated(k, s)
      BY <1>1, <1>2, <1>4, <2>1 DEF Owned
    <3>2. \A k \in DOMAIN inbox : IsCreated(k, s)' <=> IsCreated(k, s)
      BY <1>10 DEF Delivers, IsCreated
    <3> QED
      BY <1>10, <3>1, <3>2
  <2>5. AnswersMove
    BY <2>2, <2>3, <2>4 DEF AnswersMove
  <2> QED
    BY <1>3, <1>5, <1>6, <1>10, <1>11, <2>1, <2>5, GatewayQuoteStep DEF QuoteInv, MakerInv, Idles
<1> QED
  BY <1>14, <1>15

\* An order that fills in part is working still.
LEMMA PartialFillStep ==
    ASSUME MakerInv, NEW x \in Ids, PartialFill(x)
    PROVE  MakerInv' /\ (QuoteInv => QuoteInv')
<1> USE MakerAssumption
<1>1. /\ requests \in Seq(Requests) /\ max_order_id \in 0..MaxOrders
      /\ World.requests = requests /\ World.quote = quote
      /\ inbox \in Seq(Events) /\ order \in [Ids -> Orders]
  BY Fields DEF MakerInv, TypeOK
<1>2. /\ x \in WorkingIds /\ order[x].status = "working" /\ requests' = requests
      /\ order' = order
      /\ inbox' = Append(inbox, Update(order[x].side, x, "working"))
      /\ Running /\ UNCHANGED <<quote, max_order_id, halted, position, link, disconnects, ready, mid, tick>>
  BY DEF PartialFill, WorkingIds, shared, strategy
<1>3. Idles
  BY <1>2 DEF Idles, MakerInv, Linked
<1>4. PICK s \in Sides : order[x].side = s
  BY <1>1 DEF Orders
<1>5. Serves(0)
  <2> HIDE DEF Requests
  <2>1. DOMAIN requests = 1..Len(requests)
    BY <1>1, LenProperties
  <2> QED
    BY <1>1, <1>2, <2>1 DEF Serves
<1>6. 0 \in 0..MaxOrders /\ 0 <= max_order_id
  BY <1>1
<1>7. \A k \in Creates(World)' : requests'[k].id # 0
  <2>1. \A k \in Creates(World)' : requests'[k].id \in Ids
    BY <1>5, ServedKinds DEF MakerInv
  <2>2. \A i \in Ids : i # 0
    BY DEF Ids
  <2> QED
    BY <2>1, <2>2
<1>8. PICK n : n = Len(inbox) + 1
  OBVIOUS
<1> DEFINE e == Update(order[x].side, x, "working")
<1>9. e \in Events /\ e.event = "update" /\ e.side = s /\ e.id = x /\ e.status = "working"
  BY <1>4 DEF Events, Update
<1> HIDE DEF e
<1>10. /\ Delivers /\ NewEvents = {n} /\ inbox'[n] = e
       /\ \A k \in DOMAIN inbox : k \in 1..(n - 1)
  BY <1>1, <1>2, <1>8, <1>9, OneDelivered DEF e
<1>11. OrdersMove(0)
  BY <1>1, <1>2 DEF OrdersMove, Orders
<1>12. UpdatesMove
  <2>1. \A k \in NewEvents : k = n /\ inbox'[k] = e
    BY <1>10
  <2>2. \A k \in NewEvents : ~IsFill(k)'
    BY <1>9, <2>1 DEF IsFill, IsUpdate
  <2> QED
    BY <1>2, <1>9, <2>1, <2>2 DEF UpdatesMove
<1>13. Fresh(World)'
  BY <1>2, <1>5, <1>6, <1>7, <1>11, FreshStep DEF MakerInv
<1>14. MakerInv'
  BY <1>3, <1>5, <1>6, <1>10, <1>11, <1>12, <1>13, GatewayStep DEF Idles, Serves
<1>15. ASSUME QuoteInv PROVE QuoteInv'
  <2>1. Owned(World) /\ Created(World) /\ Canceled(World)
    BY <1>2, <1>15 DEF QuoteInv
  <2>2. /\ \A k \in NewEvents, t \in Sides : ~IsCreated(k, t)' /\ ~IsCancelAck(k, t)'
        /\ \A k \in NewEvents : k = n /\ inbox'[k].side = s
    BY <1>9, <1>10 DEF IsCreated, IsCancelAck
  <2>3. WorkingIds' = WorkingIds
    BY <1>2 DEF WorkingIds, Ids
  <2>4. quote[s].state = "CREATE" => \E k \in 1..(n - 1) : IsCreated(k, s)'
    <3>1. quote[s].state = "CREATE" => \E k \in DOMAIN inbox : IsCreated(k, s)
      BY <1>1, <1>2, <1>4, <2>1 DEF Owned
    <3>2. \A k \in DOMAIN inbox : IsCreated(k, s)' <=> IsCreated(k, s)
      BY <1>10 DEF Delivers, IsCreated
    <3> QED
      BY <1>10, <3>1, <3>2
  <2>5. AnswersMove
    BY <2>2, <2>3, <2>4 DEF AnswersMove
  <2> QED
    BY <1>3, <1>5, <1>6, <1>10, <1>11, <2>1, <2>5, GatewayQuoteStep DEF QuoteInv, MakerInv, Idles
<1> QED
  BY <1>14, <1>15

LEMMA GatewayRequestStep ==
    ASSUME MakerInv, GatewayRequest
    PROVE  MakerInv' /\ (QuoteInv => QuoteInv')
<1>1. /\ Running /\ requests # << >> /\ requests' = Tail(requests)
      /\ UNCHANGED <<quote, max_order_id, halted, position, link, disconnects, ready, mid, tick>>
      /\ \/ GatewayCreate(Head(requests)) \/ GatewayCancel(Head(requests))
         \/ GatewayCancelAll(Head(requests))
  BY DEF GatewayRequest, shared, strategy
<1>2. Idles
  BY <1>1 DEF Idles, MakerInv, Linked
<1> QED
  BY <1>1, <1>2, GatewayCreateStep, GatewayCancelStep, GatewayCancelAllStep

-----------------------------------------------------------------------------
(***************************************************************************)
(* The theorems.                                                           *)
(***************************************************************************)

LEMMA InitInv == Init => MakerInv /\ QuoteInv
<1> USE MakerAssumption
<1> SUFFICES ASSUME Init PROVE MakerInv /\ QuoteInv
  OBVIOUS
<1>1. /\ ready = FALSE /\ tick = FALSE /\ mid = NaN /\ max_order_id = 0 /\ position = 0
      /\ quote = [s \in Sides |-> NewQuote] /\ requests = << >> /\ inbox = << >>
      /\ order = [i \in Ids |-> [side |-> "BUY", status |-> IF i = 1 THEN "canceled" ELSE "none"]]
      /\ link = "downloading" /\ disconnects = 0 /\ halted = "no"
  BY DEF Init
<1>2. 0 \in 0..MaxOrders /\ NaN \in Int /\ 1 \in Ids
  BY DEF NaN, Ids
<1>3. /\ NewQuote \in Quotes /\ NewQuote.order_id = 0
  BY <1>2 DEF NewQuote, Quotes, QuoteStates
<1>4. /\ quote \in [Sides -> Quotes] /\ \A s \in Sides : quote[s].order_id = 0
  BY <1>1, <1>3
<1>5. /\ order \in [Ids -> Orders] /\ order[1].status = "canceled"
      /\ \A i \in Ids : order[i].status # "none" => i = 1
      /\ \A i \in Ids : order[i].status \notin {"working", "completed"}
  BY <1>1, <1>2 DEF Orders, Sides
<1>6. World \in Worlds /\ World.quote = quote /\ World.requests = requests
  <2>1. World.quote = quote /\ World.requests = requests
    BY DEF World
  <2>2. World \in Worlds
    <3> HIDE DEF Quotes, Requests
    <3> QED
      BY <1>1, <1>2, <1>4, NoneQueued DEF World, Worlds
  <2> QED
    BY <2>1, <2>2
<1>7. Creates(World) = {} /\ Cancels(World) = {} /\ DOMAIN inbox = {} /\ WorkingIds = {}
  BY <1>1, <1>5, <1>6, NoneQueued DEF Creates, Cancels, WorkingIds
<1>8. TypeOK
  <2>1. position \in Int /\ mid \in Int /\ disconnects \in Nat
    BY <1>1, <1>2
  <2>2. ready \in BOOLEAN /\ tick \in BOOLEAN
    BY <1>1
  <2>3. inbox \in Seq(Events)
    BY <1>1, NoneQueued, Zenon
  <2> QED
    BY <1>5, <1>6, <2>1, <2>2, <2>3 DEF TypeOK
<1>9. Highest
  <2>1. \A i \in Ids : order[i].status # "none" => i <= 1
    BY <1>5
  <2> QED
    BY <1>2, <1>5, <2>1 DEF Highest, IsHighest
<1>10. Idle(World) /\ Fresh(World)
  BY <1>4, <1>6, <1>7 DEF Idle, Fresh
<1>11. Linked /\ UpdatesKnown /\ FillsOnce
  BY <1>1, <1>7 DEF Linked, UpdatesKnown, FillsOnce
<1>12. Counted
  <2>1. Reported("BUY") = {} /\ Reported("SELL") = {}
    BY <1>5 DEF Reported
  <2>2. Cardinality(Reported("BUY")) = 0 /\ Cardinality(Reported("SELL")) = 0
    BY <2>1, FS_EmptySet, Zenon
  <2> QED
    BY <1>1, <2>2 DEF Counted
<1>13. Owned(World) /\ Created(World) /\ Canceled(World)
  BY <1>4, <1>6, <1>7 DEF Owned, Created, Canceled
<1> QED
  BY <1>8, <1>9, <1>10, <1>11, <1>12, <1>13 DEF MakerInv, QuoteInv

LEMMA NextInv ==
    ASSUME MakerInv, [Next]_vars
    PROVE  MakerInv' /\ (~Reordered /\ QuoteInv => QuoteInv')
<1> QED
  BY TimerStep, DisconnectedStep, DownloadEndStep, ReadyStep, MarketStep, CancelAllOrdersAckStep,
     OrderAckStep, OrderUpdateStep, GatewayRequestStep, FillStep, PartialFillStep,
     LoseConnectionStep, ConnectStep
     DEF Next

\* Whatever order the events arrive in: the types, the ids of create requests are new and
\* counted once known, and every fill is counted once or still on its way.
THEOREM MakerInvariant == Spec => []MakerInv
<1>1. Init => MakerInv
  BY InitInv
<1>2. MakerInv /\ [Next]_vars => MakerInv'
  BY NextInv
<1> QED
  BY <1>1, <1>2, PTL DEF Spec

\* A quote without an order has no order id, so that assert(order_id_ == 0) in create_order
\* holds, for any number of orders and lost connections and also when an order update
\* overtakes an order ack.
THEOREM IdleHasNoOrderHolds == Spec => []IdleHasNoOrder
<1>1. MakerInv => IdleHasNoOrder
  BY Fields DEF MakerInv, Idle, IdleHasNoOrder
<1> QED
  BY <1>1, MakerInvariant, PTL

\* Until the connection is lost the position is that of the orders reported as completed,
\* each once and in full, whichever partial fills came before, whichever cancels and
\* replacements they cross and in whatever order acks and updates arrive.  What has
\* traded of an order that is canceled after a partial fill is not in it.
THEOREM PositionIsCompletedHolds == Spec => []PositionIsCompleted
<1>1. MakerInv => PositionIsCompleted
  <2> SUFFICES ASSUME MakerInv, disconnects = 0
               PROVE  LET reported == {i \in Ids : order[i].status = "completed" /\
                             ~\E j \in DOMAIN inbox : inbox[j].event = "update" /\ inbox[j].id = i
                                                      /\ inbox[j].status = "completed"}
                          of(s) == {i \in reported : order[i].side = s}
                      IN  position = Cardinality(of("BUY")) - Cardinality(of("SELL"))
    BY DEF PositionIsCompleted
  <2> DEFINE reported == {i \in Ids : order[i].status = "completed" /\
                            ~\E j \in DOMAIN inbox : inbox[j].event = "update" /\ inbox[j].id = i
                                                     /\ inbox[j].status = "completed"}
             of(s) == {i \in reported : order[i].side = s}
  <2>1. \A s : of(s) = Reported(s)
    BY DEF Reported, IsFill, IsUpdate
  <2>2. position = Cardinality(Reported("BUY")) - Cardinality(Reported("SELL"))
    BY DEF MakerInv, Counted
  <2> QED
    BY <2>1, <2>2
<1> QED
  BY <1>1, MakerInvariant, PTL

\* With events in order, acks and updates find their quote in the state that they rely on.
THEOREM QuoteInvariant ==
    ASSUME ~Reordered PROVE Spec => [](MakerInv /\ QuoteInv)
<1>1. Init => MakerInv /\ QuoteInv
  BY InitInv
<1>2. MakerInv /\ QuoteInv /\ [Next]_vars => MakerInv' /\ QuoteInv'
  BY NextInv
<1> QED
  BY <1>1, <1>2, PTL DEF Spec

\* With events in order, an order that rests at the exchange is the one its quote would
\* cancel, for any number of orders and lost connections.
THEOREM KnowsItsOrderHolds ==
    ASSUME ~Reordered PROVE Spec => []KnowsItsOrder
<1>1. MakerInv /\ QuoteInv => KnowsItsOrder
  BY Fields DEF MakerInv, QuoteInv, Owned, KnowsItsOrder
<1> QED
  BY <1>1, QuoteInvariant, PTL

-----------------------------------------------------------------------------
(***************************************************************************)
(* The quotes implement OrderSlot, one slot per side.                      *)
(***************************************************************************)

Asked(w, s) == {w.requests[k].id : k \in {j \in Creates(w) : w.requests[j].side = s}}

Resting(s) == {i \in WorkingIds : order[i].side = s}

Held(w, s) == Asked(w, s) \union Resting(s)

Top == IF GatewayMaxOrderId > max_order_id THEN GatewayMaxOrderId ELSE max_order_id

LEMMA HeldIds ==
    ASSUME NEW w \in Worlds, NEW s \in Sides
    PROVE  /\ Held(w, s) \subseteq Ids
           /\ Owned(w) => \A i \in Held(w, s) : i = w.quote[s].order_id
<1>1. \A k \in Creates(w) : w.requests[k].id \in Ids
  BY RequestFields
<1>2. Held(w, s) \subseteq Ids
  BY <1>1 DEF Held, Asked, Resting, WorkingIds
<1>3. Owned(w) => \A i \in Held(w, s) : i = w.quote[s].order_id
  BY DEF Owned, Held, Asked, Resting
<1> QED
  BY <1>2, <1>3

LEMMA HeldApart ==
    ASSUME NEW w \in Worlds, Fresh(w), NEW s \in Sides, NEW t \in Sides, s # t
    PROVE  Held(w, s) \intersect Held(w, t) = {}
<1>1. Asked(w, s) \intersect Asked(w, t) = {}
  BY DEF Asked, Fresh
<1>2. Resting(s) \intersect Resting(t) = {}
  BY DEF Resting
<1>3. \A x \in Sides, y \in Sides : Asked(w, x) \intersect Resting(y) = {}
  BY DEF Asked, Resting, WorkingIds, Fresh
<1> QED
  BY <1>1, <1>2, <1>3 DEF Held

\* A quote asks for an order only when it holds none.
LEMMA SendHeld ==
    ASSUME NEW w \in Worlds, NEW d \in Worlds, NEW s \in Sides, Idle(w), Owned(w),
           Keeps(w, d) \/ SendsCreate(w, d, s) \/ SendsCancel(w, d, s)
    PROVE  /\ \A t \in Sides \ {s} : Held(d, t) = Held(w, t)
           /\ \/ Held(d, s) = Held(w, s)
              \/ /\ CanSend /\ Held(w, s) = {} /\ Held(d, s) = {d.max_order_id}
                 /\ d.max_order_id = w.max_order_id + 1 /\ d.max_order_id \in Ids
<1> USE MakerAssumption
<1>1. CASE Keeps(w, d)
  <2>1. d.requests = w.requests /\ Creates(d) = Creates(w)
    BY <1>1 DEF Keeps, Creates
  <2> QED
    BY <2>1 DEF Held, Asked
<1>2. CASE SendsCreate(w, d, s)
  <2>1. PICK id : id = w.max_order_id + 1
    OBVIOUS
  <2>2. /\ CanSend /\ w.quote[s].state = "UNDEFINED" /\ id \in Ids /\ d.max_order_id = id
        /\ d.requests = Append(w.requests, [kind |-> "create", side |-> s, id |-> id])
    BY <1>2, <2>1 DEF SendsCreate
  <2>3. PICK n : n = Len(w.requests) + 1
    OBVIOUS
  <2>4. /\ Creates(d) = Creates(w) \union {n} /\ d.requests[n].id = id /\ d.requests[n].side = s
        /\ \A k \in Creates(w) : d.requests[k] = w.requests[k]
    BY <2>2, <2>3, Queued DEF Creates
  <2>5. \A t \in Sides \ {s} : Asked(d, t) = Asked(w, t)
    BY <2>4 DEF Asked
  <2>6. Held(w, s) = {}
    <3>1. \A i \in Held(w, s) : i = 0 /\ i \in Ids
      BY <2>2, HeldIds DEF Idle
    <3>2. 0 \notin Ids
      BY DEF Ids
    <3> QED
      BY <3>1, <3>2
  <2>7. \A k \in Creates(w) : w.requests[k].side # s
    BY <2>6 DEF Held, Asked
  <2>8. Asked(d, s) = {id}
    BY <2>4, <2>7 DEF Asked
  <2>9. Held(d, s) = {id}
    BY <2>6, <2>8 DEF Held
  <2> QED
    BY <2>1, <2>2, <2>5, <2>6, <2>9 DEF Held
<1>3. CASE SendsCancel(w, d, s)
  <2>1. PICK id \in Ids : d.requests = Append(w.requests, [kind |-> "cancel", side |-> s, id |-> id])
    BY <1>3, WorldFields, QuoteFields DEF SendsCancel, Ids
  <2>2. Creates(d) = Creates(w) /\ \A k \in Creates(w) : d.requests[k] = w.requests[k]
    BY <2>1, Queued DEF Creates
  <2> QED
    BY <2>2 DEF Held, Asked
<1> QED
  BY <1>1, <1>2, <1>3

\* Other steps ask for no order.
LEMMA HeldShrinks ==
    ASSUME TypeOK, NEW s \in Sides,
           \A k \in Creates(World)' : \E l \in Creates(World) : requests'[k] = requests[l],
           \A i \in Ids : order'[i].status = "working" /\ order'[i].side = s =>
              (order[i].status = "working" /\ order[i].side = s) \/ i \in Asked(World, s)
    PROVE  Held(World, s)' \subseteq Held(World, s)
<1>1. World.requests = requests
  BY Fields
<1>2. Asked(World, s)' \subseteq Asked(World, s)
  BY <1>1, WorldNext DEF Asked
<1>3. Resting(s)' \subseteq Held(World, s)
  BY DEF Resting, WorkingIds, Held, Ids
<1> QED
  BY <1>2, <1>3 DEF Held

LEMMA SameHeld ==
    ASSUME TypeOK, UNCHANGED order, NEW s \in Sides,
           UNCHANGED requests \/ Creates(World)' = {}
    PROVE  Held(World, s)' \subseteq Held(World, s)
<1>1. World.requests = requests
  BY Fields
<1>2. \A k \in Creates(World)' : \E l \in Creates(World) : requests'[k] = requests[l]
  BY <1>1, WorldNext DEF Creates
<1> QED
  BY <1>2, HeldShrinks

LEMMA GatewayHeld ==
    ASSUME MakerInv, GatewayRequest, NEW s \in Sides
    PROVE  Held(World, s)' \subseteq Held(World, s)
<1>1. /\ requests \in Seq(Requests) /\ World.requests = requests /\ order \in [Ids -> Orders] /\ TypeOK
  BY Fields DEF MakerInv, TypeOK
<1>2. requests # << >> /\ requests' = Tail(requests)
  BY DEF GatewayRequest
<1>3. /\ Serves(1) /\ 1 \in DOMAIN requests /\ Head(requests) = requests[1]
      /\ Head(requests) \in Requests
  BY <1>1, <1>2, Served
<1>4. \A k \in Creates(World)' : \E l \in Creates(World) : requests'[k] = requests[l]
  BY <1>1, <1>3, ServedKinds
<1>5. PICK r : r = requests[1] /\ (GatewayCreate(r) \/ GatewayCancel(r) \/ GatewayCancelAll(r))
  BY <1>3 DEF GatewayRequest
<1>6. ASSUME NEW i \in Ids, order'[i].status = "working", order'[i].side = s
      PROVE  (order[i].status = "working" /\ order[i].side = s) \/ i \in Asked(World, s)
  <2>1. CASE UNCHANGED order
    BY <1>6, <2>1
  <2>2. CASE r.kind = "create" /\ order' = [order EXCEPT ![r.id] = [side |-> r.side, status |-> "working"]]
    <3>1. CASE i = r.id
      <4>1. order'[i] = [side |-> r.side, status |-> "working"]
        BY <1>1, <2>2, <3>1
      <4>2. r.side = s /\ 1 \in Creates(World)
        BY <1>1, <1>3, <1>5, <1>6, <2>2, <4>1 DEF Creates
      <4> QED
        BY <1>1, <1>5, <3>1, <4>2 DEF Asked
    <3>2. CASE i # r.id
      BY <1>1, <1>6, <2>2, <3>2
    <3> QED
      BY <3>1, <3>2
  <2>3. CASE order' = [order EXCEPT ![r.id].status = "canceled"]
    <3>1. CASE i = r.id
      BY <1>1, <1>6, <2>3, <3>1 DEF Orders
    <3>2. CASE i # r.id
      BY <1>1, <1>6, <2>3, <3>2
    <3> QED
      BY <3>1, <3>2
  <2>4. CASE order' = [j \in Ids |-> IF j \in WorkingIds
                                     THEN [order[j] EXCEPT !.status = "canceled"] ELSE order[j]]
    <3>1. CASE i \in WorkingIds
      <4>1. order'[i] = [order[i] EXCEPT !.status = "canceled"] /\ order[i] \in Orders
        BY <1>1, <2>4, <3>1
      <4> QED
        BY <1>6, <4>1 DEF Orders
    <3>2. CASE i \notin WorkingIds
      BY <1>6, <2>4, <3>2
    <3> QED
      BY <3>1, <3>2
  <2> QED
    BY <1>5, <2>1, <2>2, <2>3, <2>4 DEF GatewayCreate, GatewayCancel, GatewayCancelAll
<1> QED
  BY <1>1, <1>4, <1>6, HeldShrinks

LEMMA OtherHeld ==
    ASSUME MakerInv, Next, ~Timer, NEW s \in Sides
    PROVE  Held(World, s)' \subseteq Held(World, s)
<1>1. /\ requests \in Seq(Requests) /\ World.requests = requests /\ order \in [Ids -> Orders] /\ TypeOK
  BY Fields DEF MakerInv, TypeOK
<1>2. CASE \/ Disconnected \/ DownloadEnd \/ ReferenceData
           \/ (\E o \in BOOLEAN : MarketStatus(o)) \/ (\E m \in Mids \union {NaN} : TopOfBook(m))
           \/ CancelAllOrdersAck \/ OrderAck \/ OrderUpdate \/ Connect \/ Stopped
           \/ \E x \in Ids : PartialFill(x)
  <2>1. UNCHANGED <<order, requests>>
    BY <1>2 DEF Disconnected, DownloadEnd, ReferenceData, MarketStatus, TopOfBook,
                CancelAllOrdersAck, OrderAck, OrderUpdate, Connect, Stopped, PartialFill, vars, wire
  <2> QED
    BY <1>1, <2>1, SameHeld
<1>3. CASE Ready
  <2> DEFINE r == [kind |-> "cancel_all", side |-> "BUY", id |-> 0]
  <2>1. UNCHANGED order /\ requests = << >> /\ requests' = Append(requests, r)
    BY <1>3 DEF Ready, MakerInv, Linked
  <2>2. r \in Requests /\ r.kind = "cancel_all"
    BY DEF Requests
  <2> HIDE DEF r
  <2>3. \A k \in DOMAIN Append(requests, r) : Append(requests, r)[k] = r
    BY <1>1, <2>1, <2>2, Appended, NoneQueued
  <2>4. Creates(World)' = {}
    BY <2>1, <2>2, <2>3, WorldNext DEF Creates
  <2> QED
    BY <1>1, <2>1, <2>4, SameHeld
<1>4. CASE GatewayRequest
  BY <1>4, GatewayHeld
<1>5. CASE \E x \in Ids : Fill(x)
  <2>1. PICK x \in Ids : Fill(x)
    BY <1>5
  <2>2. requests' = requests /\ order' = [order EXCEPT ![x].status = "completed"]
    BY <2>1 DEF Fill
  <2>3. Creates(World)' = Creates(World)
    BY <1>1, <2>2, WorldNext DEF Creates
  <2>4. \A i \in Ids : order'[i].status = "working" => order'[i] = order[i]
    <3>1. order'[x].status = "completed" /\ \A i \in Ids \ {x} : order'[i] = order[i]
      BY <1>1, <2>2 DEF Orders
    <3> QED
      BY <3>1
  <2> QED
    BY <1>1, <2>2, <2>3, <2>4, HeldShrinks
<1>6. CASE LoseConnection
  <2>1. /\ requests' = << >>
        /\ order' = [j \in Ids |-> IF j \in WorkingIds
                                   THEN [order[j] EXCEPT !.status = "canceled"] ELSE order[j]]
    BY <1>6 DEF LoseConnection
  <2>2. Creates(World)' = {}
    BY <2>1, WorldNext, NoneQueued DEF Creates
  <2>3. \A i \in Ids : order'[i].status # "working"
    <3>1. \A i \in Ids : order[i] \in Orders /\ (i \in WorkingIds <=> order[i].status = "working")
      BY <1>1 DEF WorkingIds
    <3> QED
      BY <2>1, <3>1 DEF Orders
  <2> QED
    BY <1>1, <2>2, <2>3, HeldShrinks
<1> QED
  BY <1>2, <1>3, <1>4, <1>5, <1>6 DEF Next

\* No order is forgotten and the highest order id only grows.
LEMMA IdsGrow ==
    ASSUME MakerInv, Next
    PROVE  /\ max_order_id <= max_order_id'
           /\ \A i \in Ids : order[i].status # "none" => order'[i].status # "none"
<1> USE MakerAssumption
<1>1. max_order_id \in 0..MaxOrders /\ order \in [Ids -> Orders] /\ requests \in Seq(Requests)
  BY Fields DEF MakerInv, TypeOK
<1>2. CASE Timer
  <2>1. UNCHANGED order
    BY <1>2 DEF Timer
  <2>2. PICK a, b \in Worlds : /\ World' = a /\ World.max_order_id <= b.max_order_id
                               /\ b.max_order_id <= a.max_order_id
    BY <1>2, TimerWorlds
  <2>3. /\ World.max_order_id = max_order_id /\ a.max_order_id = max_order_id'
        /\ a.max_order_id \in Int /\ b.max_order_id \in Int
    BY <2>2, Fields, WorldFields, WorldNext DEF MakerInv
  <2> QED
    BY <1>1, <2>1, <2>2, <2>3
<1>3. CASE ~Timer
  <2>1. max_order_id <= max_order_id'
    <3>1. CASE DownloadEnd
      <4>1. GatewayMaxOrderId \in Ids
        BY DEF GatewayMaxOrderId, MakerInv, Highest, IsHighest
      <4> HIDE DEF GatewayMaxOrderId
      <4>2. max_order_id' = download_end
        BY <3>1 DEF DownloadEnd
      <4> QED
        BY <1>1, <4>1, <4>2 DEF download_end, Ids
    <3>2. CASE ~DownloadEnd
      <4>1. max_order_id' = max_order_id
        BY <1>3, <3>2 DEF Next, Disconnected, Ready, ReferenceData, MarketStatus, TopOfBook,
           CancelAllOrdersAck, OrderAck, OrderUpdate, GatewayRequest, Fill, PartialFill, LoseConnection, Connect,
           Stopped, vars, shared
      <4> QED
        BY <1>1, <4>1
    <3> QED
      BY <3>1, <3>2
  <2>2. ASSUME NEW i \in Ids, order[i].status # "none"
        PROVE  order'[i].status # "none"
    <3>1. CASE UNCHANGED order
      BY <2>2, <3>1
    <3>2. CASE \E r, st : order' = [order EXCEPT ![r] = [side |-> st, status |-> "working"]]
      BY <1>1, <2>2, <3>2
    <3>3. CASE \E r : \/ order' = [order EXCEPT ![r].status = "canceled"]
                      \/ order' = [order EXCEPT ![r].status = "completed"]
      <4>1. PICK r : \/ order' = [order EXCEPT ![r].status = "canceled"]
                     \/ order' = [order EXCEPT ![r].status = "completed"]
        BY <3>3
      <4>2. CASE i = r
        BY <1>1, <4>1, <4>2 DEF Orders
      <4>3. CASE i # r
        BY <1>1, <2>2, <4>1, <4>3
      <4> QED
        BY <4>2, <4>3
    <3>4. CASE order' = [j \in Ids |-> IF j \in WorkingIds
                                       THEN [order[j] EXCEPT !.status = "canceled"] ELSE order[j]]
      <4>1. CASE i \in WorkingIds
        BY <1>1, <3>4, <4>1 DEF Orders
      <4>2. CASE i \notin WorkingIds
        BY <2>2, <3>4, <4>2
      <4> QED
        BY <4>1, <4>2
    <3>5. GatewayRequest \/ (\E x \in Ids : Fill(x)) \/ LoseConnection \/ UNCHANGED order
      BY <1>3 DEF Next, Disconnected, DownloadEnd, Ready, ReferenceData, MarketStatus, TopOfBook,
         CancelAllOrdersAck, OrderAck, OrderUpdate, Connect, Stopped, PartialFill, vars, wire
    <3>6. GatewayRequest => \/ GatewayCreate(Head(requests)) \/ GatewayCancel(Head(requests))
                            \/ GatewayCancelAll(Head(requests))
      BY DEF GatewayRequest
    <3> QED
      BY <3>1, <3>2, <3>3, <3>4, <3>5, <3>6
         DEF GatewayCreate, GatewayCancel, GatewayCancelAll, Fill, LoseConnection
  <2> QED
    BY <2>1, <2>2
<1> QED
  BY <1>2, <1>3

LEMMA TopStep ==
    ASSUME MakerInv, MakerInv', Next
    PROVE  /\ Top \in Ids /\ Top' \in Ids /\ Top <= Top'
           /\ max_order_id <= Top /\ max_order_id' <= Top'
           /\ (\A i \in Ids : order[i].status # "none" => i <= max_order_id) => Top = max_order_id
<1> USE MakerAssumption
<1> DEFINE g == GatewayMaxOrderId
<1>1. g \in Ids /\ order[g].status # "none" /\ \A i \in Ids : order[i].status # "none" => i <= g
  BY DEF GatewayMaxOrderId, MakerInv, Highest, IsHighest
<1>2. g' \in Ids /\ \A i \in Ids : order'[i].status # "none" => i <= g'
  BY DEF GatewayMaxOrderId, MakerInv, Highest, IsHighest, Ids
<1>3. /\ max_order_id \in 0..MaxOrders /\ max_order_id' \in 0..MaxOrders
      /\ max_order_id <= max_order_id'
      /\ \A i \in Ids : order[i].status # "none" => order'[i].status # "none"
  <2>1. max_order_id' \in 0..MaxOrders
    <3>1. World' \in Worlds
      BY DEF MakerInv, TypeOK
    <3> QED
      BY <3>1, WorldFields, WorldNext
  <2> QED
    BY <2>1, Fields, IdsGrow DEF MakerInv
<1>4. g <= g'
  BY <1>1, <1>2, <1>3
<1>5. Top = (IF g > max_order_id THEN g ELSE max_order_id)
  BY DEF Top
<1>6. Top' = (IF g' > max_order_id' THEN g' ELSE max_order_id')
  BY DEF Top
<1>7. (\A i \in Ids : order[i].status # "none" => i <= max_order_id) => g <= max_order_id
  BY <1>1
<1> HIDE DEF g
<1> QED
  BY <1>1, <1>2, <1>3, <1>4, <1>5, <1>6, <1>7 DEF Ids

LEMMA TimerHeld ==
    ASSUME MakerInv, MakerInv', QuoteInv, Timer, NEW s \in Sides
    PROVE  \/ Held(World, s)' = Held(World, s)
           \/ /\ Held(World, s) = {}
              /\ \E id \in Ids : id > Top /\ id <= Top' /\ Held(World, s)' = {id}
<1>1. Running /\ UNCHANGED order
  BY DEF Timer
<1>2. PICK a, b \in Worlds :
        /\ World' = a
        /\ Idle(b) /\ World.max_order_id <= b.max_order_id /\ b.max_order_id <= a.max_order_id
        /\ CanSend => /\ \A i \in Ids : order[i].status # "none" => i <= World.max_order_id
                      /\ \A i \in Ids : order[i].status # "none" => i <= b.max_order_id
        /\ Keeps(World, b) \/ SendsCreate(World, b, "BUY") \/ SendsCancel(World, b, "BUY")
        /\ Keeps(b, a) \/ SendsCreate(b, a, "SELL") \/ SendsCancel(b, a, "SELL")
  BY TimerWorlds
<1>3. /\ World \in Worlds /\ Idle(World) /\ World.max_order_id = max_order_id
      /\ a.max_order_id = max_order_id'
      /\ max_order_id \in Int /\ b.max_order_id \in Int /\ a.max_order_id \in Int
  BY <1>2, Fields, WorldFields, WorldNext DEF MakerInv, TypeOK
<1>4. Owned(World) /\ Owned(b)
  <2>1. Owned(World) /\ Created(World) /\ Canceled(World)
    BY <1>1 DEF QuoteInv
  <2> QED
    BY <1>2, <1>3, <2>1, SendQuoteStep DEF Sides, MakerInv, TypeOK
<1>5. Held(World, s)' = Held(a, s)
  BY <1>1, <1>2 DEF Held, Asked, Resting, WorkingIds, Creates, Ids
<1>6. /\ Held(b, "SELL") = Held(World, "SELL")
      /\ \/ Held(b, "BUY") = Held(World, "BUY")
         \/ /\ CanSend /\ Held(World, "BUY") = {} /\ Held(b, "BUY") = {b.max_order_id}
            /\ b.max_order_id = World.max_order_id + 1 /\ b.max_order_id \in Ids
  BY <1>2, <1>3, <1>4, SendHeld DEF Sides
<1>7. /\ Held(a, "BUY") = Held(b, "BUY")
      /\ \/ Held(a, "SELL") = Held(b, "SELL")
         \/ /\ CanSend /\ Held(b, "SELL") = {} /\ Held(a, "SELL") = {a.max_order_id}
            /\ a.max_order_id = b.max_order_id + 1 /\ a.max_order_id \in Ids
  BY <1>2, <1>3, <1>4, SendHeld DEF Sides
<1>8. Top \in Int /\ Top' \in Int /\ max_order_id' <= Top' /\ (CanSend => Top = max_order_id)
  <2>1. /\ Top \in Ids /\ Top' \in Ids /\ max_order_id' <= Top'
        /\ (\A i \in Ids : order[i].status # "none" => i <= max_order_id) => Top = max_order_id
    BY TopStep DEF Next
  <2> QED
    BY <1>2, <1>3, <2>1 DEF Ids
<1>9. CASE s = "BUY"
  <2>1. CASE Held(b, "BUY") = Held(World, "BUY")
    BY <1>5, <1>7, <1>9, <2>1
  <2>2. CASE /\ CanSend /\ Held(World, "BUY") = {} /\ Held(b, "BUY") = {b.max_order_id}
             /\ b.max_order_id = World.max_order_id + 1 /\ b.max_order_id \in Ids
    <3>1. b.max_order_id > Top /\ b.max_order_id <= Top'
      BY <1>2, <1>3, <1>8, <2>2
    <3> QED
      BY <1>5, <1>7, <1>9, <2>2, <3>1
  <2> QED
    BY <1>6, <2>1, <2>2
<1>10. CASE s = "SELL"
  <2>1. CASE Held(a, "SELL") = Held(b, "SELL")
    BY <1>5, <1>6, <1>10, <2>1
  <2>2. CASE /\ CanSend /\ Held(b, "SELL") = {} /\ Held(a, "SELL") = {a.max_order_id}
             /\ a.max_order_id = b.max_order_id + 1 /\ a.max_order_id \in Ids
    <3>1. a.max_order_id > Top /\ a.max_order_id <= Top'
      BY <1>2, <1>3, <1>8, <2>2
    <3> QED
      BY <1>5, <1>6, <1>10, <2>2, <3>1
  <2> QED
    BY <1>7, <2>1, <2>2
<1> QED
  BY <1>9, <1>10 DEF Sides

\* With events in order, each quote is a slot for one order: nothing is created while an
\* order of its side rests or is under way, and no id is used twice, by either side or by
\* an earlier session, for any number of orders and lost connections.
THEOREM OneOrderPerSideHolds ==
    ASSUME ~Reordered PROVE Spec => OneOrderPerSide
<1> USE MakerAssumption
<1> DEFINE used == 1..(IF GatewayMaxOrderId > max_order_id THEN GatewayMaxOrderId ELSE max_order_id)
           held == [s \in Sides |-> CreatesInFlight(s) \union {i \in WorkingIds : order[i].side = s}]
<1>1. used = 1..Top /\ held = [s \in Sides |-> Held(World, s)]
  <2>1. World.requests = requests
    BY DEF World
  <2>2. \A s : CreatesInFlight(s) = Asked(World, s)
    BY <2>1 DEF CreatesInFlight, Asked, Creates
  <2>3. used = 1..Top
    BY DEF Top
  <2> QED
    BY <2>2, <2>3 DEF Held, Resting
<1>2. used' = 1..Top' /\ held' = [s \in Sides |-> Held(World, s)']
  <2>1. World'.requests = requests'
    BY DEF World
  <2>2. \A s : CreatesInFlight(s)' = Asked(World, s)'
    BY <2>1 DEF CreatesInFlight, Asked, Creates
  <2>3. used' = 1..Top'
    BY DEF Top
  <2> QED
    BY <2>2, <2>3 DEF Held, Resting, Sides
<1>3. Init => Slot!Init
  <2> SUFFICES ASSUME Init PROVE Slot!Init
    OBVIOUS
  <2>1. MakerInv
    BY InitInv
  <2>2. /\ GatewayMaxOrderId \in Ids /\ max_order_id = 0 /\ requests = << >> /\ World.requests = requests
    BY <2>1, Fields DEF Init, GatewayMaxOrderId, MakerInv, Highest, IsHighest
  <2>3. Top \in Ids
    BY <2>2 DEF Top, Ids
  <2>4. used \subseteq Ids
    <3>1. 1..Top \subseteq Ids
      BY <2>3 DEF Ids
    <3> HIDE DEF used
    <3> QED
      BY <1>1, <3>1
  <2>5. Creates(World) = {} /\ WorkingIds = {}
    BY <2>2, NoneQueued DEF Creates, WorkingIds, Init
  <2>6. held = [s \in Sides |-> {}]
    BY <1>1, <2>5 DEF Held, Asked, Resting
  <2> QED
    BY <2>4, <2>6 DEF Slot!Init
<1>4. MakerInv /\ QuoteInv /\ MakerInv' /\ Next => Slot!Next
  <2> SUFFICES ASSUME MakerInv, QuoteInv, MakerInv', Next PROVE Slot!Next
    OBVIOUS
  <2>1. /\ Top \in Ids /\ Top' \in Ids /\ Top <= Top'
    BY TopStep
  <2>2. used' \in SUBSET Ids /\ used \subseteq used'
    <3>1. 1..Top' \subseteq Ids /\ 1..Top \subseteq 1..Top'
      BY <2>1 DEF Ids
    <3> HIDE DEF used
    <3> QED
      BY <1>1, <1>2, <3>1
  <2>3. World' \in Worlds /\ Fresh(World)'
    BY DEF MakerInv, TypeOK
  <2>4. \A s \in Sides : Held(World, s)' \subseteq Ids
    <3>1. \A s \in Sides, k \in Creates(World)' : World'.requests[k].id \in Ids
      <4>1. World'.requests \in Seq(Requests)
        BY <2>3, WorldFields
      <4>2. \A k \in DOMAIN World'.requests : World'.requests[k] \in Requests
        <5> HIDE DEF Requests
        <5> QED
          BY <4>1, ElementOfSeq
      <4> QED
        BY <4>2 DEF Creates, Requests
    <3> QED
      BY <3>1 DEF Held, Asked, Resting, WorkingIds, Ids
  <2>5. held' \in [Sides -> SUBSET Ids]
    BY <1>2, <2>4
  <2>6. ASSUME NEW s \in Sides PROVE Slot!Keep(s) \/ Slot!Release(s) \/ Slot!Create(s)
    <3>1. held[s] = Held(World, s) /\ held'[s] = Held(World, s)'
      BY <1>1, <1>2
    <3>2. CASE Timer
      <4>1. \/ Held(World, s)' = Held(World, s)
            \/ /\ Held(World, s) = {}
               /\ \E id \in Ids : id > Top /\ id <= Top' /\ Held(World, s)' = {id}
        BY <3>2, TimerHeld
      <4>2. \A id \in Ids : id > Top /\ id <= Top' => id \in Ids \ used /\ id \in used'
        <5>1. \A id \in Ids : id > Top /\ id <= Top' => id \notin 1..Top /\ id \in 1..Top'
          BY <2>1 DEF Ids
        <5> HIDE DEF used
        <5> QED
          BY <1>1, <1>2, <5>1
      <4> QED
        BY <3>1, <4>1, <4>2 DEF Slot!Keep, Slot!Create
    <3>3. CASE ~Timer
      <4>1. Held(World, s)' \subseteq Held(World, s)
        BY <3>3, OtherHeld
      <4>2. CASE Running
        <5>1. World \in Worlds /\ Owned(World)
          BY <4>2 DEF MakerInv, TypeOK, QuoteInv
        <5>2. \A i \in Held(World, s) : i = World.quote[s].order_id
          BY <5>1, HeldIds
        <5>3. Held(World, s)' = Held(World, s) \/ Held(World, s)' = {}
          BY <4>1, <5>2
        <5> QED
          BY <3>1, <5>3 DEF Slot!Keep, Slot!Release
      <4>3. CASE ~Running
        <5>1. UNCHANGED vars
          BY <4>3 DEF Next, Timer, Disconnected, DownloadEnd, Ready, ReferenceData, MarketStatus,
             TopOfBook, CancelAllOrdersAck, OrderAck, OrderUpdate, GatewayRequest, Fill, PartialFill,
             LoseConnection, Connect, Stopped
        <5>2. Held(World, s)' = Held(World, s)
          <6>1. UNCHANGED <<order, requests>>
            BY <5>1 DEF vars, wire
          <6>2. World'.requests = World.requests
            BY <6>1 DEF World
          <6> QED
            BY <6>1, <6>2 DEF Held, Asked, Resting, WorkingIds, Creates, Ids
        <5> QED
          BY <3>1, <5>2 DEF Slot!Keep
      <4> QED
        BY <4>2, <4>3
    <3> QED
      BY <3>2, <3>3
  <2>7. ASSUME NEW s \in Sides, NEW t \in Sides, s # t PROVE held'[s] \intersect held'[t] = {}
    <3>1. held'[s] = Held(World, s)' /\ held'[t] = Held(World, t)'
      BY <1>2
    <3>2. Asked(World, s)' \intersect Asked(World, t)' = {}
      BY <2>3, <2>7 DEF Asked, Fresh
    <3>3. Resting(s)' \intersect Resting(t)' = {}
      BY <2>7 DEF Resting
    <3>4. \A x \in Sides, y \in Sides : Asked(World, x)' \intersect Resting(y)' = {}
      BY <2>3 DEF Asked, Resting, WorkingIds, Fresh
    <3> QED
      BY <3>1, <3>2, <3>3, <3>4 DEF Held
  <2> HIDE DEF used, held
  <2> QED
    BY <2>2, <2>5, <2>6, <2>7 DEF Slot!Next, used, held
<1>5. MakerInv /\ UNCHANGED vars => UNCHANGED <<used, held>>
  BY DEF vars, shared, wire, GatewayMaxOrderId, CreatesInFlight, WorkingIds, Ids
<1>6. MakerInv /\ QuoteInv /\ MakerInv' /\ [Next]_vars => [Slot!Next]_<<used, held>>
  BY <1>4, <1>5
<1> QED
  BY <1>3, <1>6, QuoteInvariant, PTL DEF Spec, OneOrderPerSide, Slot!Spec

-----------------------------------------------------------------------------
(***************************************************************************)
(* A quote never waits for nothing.                                        *)
(***************************************************************************)

Answered(kind, s) == \E i \in DOMAIN inbox : /\ inbox[i].event = "ack"
                                             /\ inbox[i].kind = kind /\ inbox[i].side = s

Requested(w, kind, s) ==
    \E i \in DOMAIN w.requests : w.requests[i].kind = kind /\ w.requests[i].side = s

Driven(w) ==
    \A s \in Sides :
        /\ w.quote[s].state = "CREATE" => Requested(w, "create", s) \/ Answered("create", s)
        /\ w.quote[s].state = "CANCEL" => Requested(w, "cancel", s) \/ Answered("cancel", s)

LEMMA UnderWayWorld ==
    WaitIsDriven <=> (Running /\ disconnects = 0 => Driven(World))
<1>1. World.quote = quote /\ World.requests = requests
  BY DEF World
<1>2. \A kind, s : UnderWay(kind, s) <=> Requested(World, kind, s) \/ Answered(kind, s)
  BY <1>1 DEF UnderWay, Requested, Answered
<1> QED
  BY <1>1, <1>2, Zenon DEF WaitIsDriven, Driven

LEMMA UnderWayWorldNext ==
    WaitIsDriven' <=> (Running' /\ disconnects' = 0 => Driven(World)')
<1>1. World'.quote = quote' /\ World'.requests = requests'
  BY WorldNext
<1>2. \A kind, s : UnderWay(kind, s)' <=> Requested(World, kind, s)' \/ Answered(kind, s)'
  BY <1>1 DEF UnderWay, Requested, Answered
<1> QED
  BY <1>1, <1>2, Zenon DEF WaitIsDriven, Driven

\* A request is sent with the state that waits for it.
LEMMA SendDriven ==
    ASSUME NEW w \in Worlds, NEW d \in Worlds, NEW s \in Sides, Driven(w),
           Keeps(w, d) \/ SendsCreate(w, d, s) \/ SendsCancel(w, d, s)
    PROVE  Driven(d)
<1> USE MakerAssumption
<1>1. CASE Keeps(w, d)
  BY <1>1 DEF Keeps, SameQuotes, Driven, Requested
<1>2. ASSUME NEW kind \in {"create", "cancel"}, NEW id \in Ids,
             d.requests = Append(w.requests, [kind |-> kind, side |-> s, id |-> id])
      PROVE  /\ Requested(d, kind, s)
             /\ \A k, t : Requested(w, k, t) => Requested(d, k, t)
  <2> DEFINE r == [kind |-> kind, side |-> s, id |-> id]
             n == Len(w.requests) + 1
  <2>1. r \in Requests /\ w.requests \in Seq(Requests) /\ r.kind = kind /\ r.side = s
    BY WorldFields DEF Requests
  <2>2. d.requests = Append(w.requests, r)
    BY <1>2
  <2> HIDE DEF r
  <2>3. /\ DOMAIN d.requests = DOMAIN w.requests \union {n} /\ d.requests[n] = r
        /\ \A k \in DOMAIN w.requests : d.requests[k] = w.requests[k]
    BY <2>1, <2>2, Appended
  <2> HIDE DEF n
  <2> QED
    BY <2>1, <2>3 DEF Requested
<1>3. CASE SendsCreate(w, d, s)
  <2> DEFINE id == w.max_order_id + 1
  <2>1. /\ id \in Ids /\ d.requests = Append(w.requests, [kind |-> "create", side |-> s, id |-> id])
        /\ d.quote[s].state = "CREATE" /\ SameQuotes(w, d, Sides \ {s})
    BY <1>3 DEF SendsCreate
  <2> HIDE DEF id
  <2>2. Requested(d, "create", s) /\ \A k, t : Requested(w, k, t) => Requested(d, k, t)
    BY <1>2, <2>1
  <2> QED
    BY <2>1, <2>2 DEF Driven, SameQuotes
<1>4. CASE SendsCancel(w, d, s)
  <2> DEFINE id == w.quote[s].order_id
  <2>1. /\ id # 0 /\ d.requests = Append(w.requests, [kind |-> "cancel", side |-> s, id |-> id])
        /\ d.quote[s].state = "CANCEL" /\ SameQuotes(w, d, Sides \ {s})
    BY <1>4 DEF SendsCancel
  <2>2. id \in Ids
    <3>1. w.quote[s] \in Quotes
      BY WorldFields
    <3> QED
      BY <2>1, <3>1, QuoteFields DEF Ids
  <2> HIDE DEF id
  <2>3. Requested(d, "cancel", s) /\ \A k, t : Requested(w, k, t) => Requested(d, k, t)
    BY <1>2, <2>1, <2>2
  <2> QED
    BY <2>1, <2>3 DEF Driven, SameQuotes
<1> QED
  BY <1>1, <1>3, <1>4

\* What is under way stays so, and no quote starts to wait.
StillDriven ==
    /\ \A s \in Sides : World'.quote[s].state \in {"CREATE", "CANCEL"} =>
                           World'.quote[s].state = World.quote[s].state
    /\ \A s \in Sides, kind \in {"create", "cancel"} :
         Requested(World, kind, s) \/ Answered(kind, s) =>
            \/ Requested(World, kind, s)' \/ Answered(kind, s)'
            \/ /\ kind = "create" => World'.quote[s].state # "CREATE"
               /\ kind = "cancel" => World'.quote[s].state # "CANCEL"

LEMMA StillDrivenStep ==
    ASSUME Driven(World), StillDriven
    PROVE  Driven(World)'
BY DEF Driven, StillDriven

LEMMA TimerDriven ==
    ASSUME MakerInv, Timer, Driven(World)
    PROVE  Driven(World)'
<1>1. PICK a \in Worlds, b \in Worlds :
        /\ World' = a
        /\ Keeps(World, b) \/ SendsCreate(World, b, "BUY") \/ SendsCancel(World, b, "BUY")
        /\ Keeps(b, a) \/ SendsCreate(b, a, "SELL") \/ SendsCancel(b, a, "SELL")
  BY TimerWorlds
<1>2. World \in Worlds
  BY DEF MakerInv, TypeOK
<1>3. Driven(b)
  BY <1>1, <1>2, SendDriven DEF Sides
<1>4. Driven(a)
  BY <1>1, <1>3, SendDriven DEF Sides
<1>5. inbox' = inbox
  BY DEF Timer
<1> QED
  BY <1>1, <1>4, <1>5 DEF Driven, Requested, Answered

\* The steps that leave the wire alone, or only add a request to it.
LEMMA QuietDriven ==
    ASSUME MakerInv,
           \/ Disconnected \/ DownloadEnd \/ Ready \/ ReferenceData
           \/ (\E o \in BOOLEAN : MarketStatus(o)) \/ (\E m \in Mids \union {NaN} : TopOfBook(m))
           \/ Connect \/ Stopped
    PROVE  StillDriven
<1> USE MakerAssumption
<1>1. /\ quote \in [Sides -> Quotes] /\ requests \in Seq(Requests)
      /\ World.quote = quote /\ World.requests = requests
  BY Fields DEF MakerInv
<1>2. World'.quote = quote' /\ World'.requests = requests'
  BY WorldNext
<1>3. inbox' = inbox
  BY DEF Disconnected, DownloadEnd, Ready, ReferenceData, MarketStatus, TopOfBook, Connect, Stopped,
     vars, wire
<1>4. \A s \in Sides : quote'[s].state = quote[s].state
  <2>1. CASE Disconnected
    BY <1>1, <2>1, ClearedQuote DEF Disconnected
  <2>2. CASE \E m \in Mids \union {NaN} : TopOfBook(m)
    <3>1. PICK m \in Mids \union {NaN} : TopOfBook(m)
      BY <2>2
    <3>2. CASE quote' = quote
      BY <3>2
    <3>3. CASE quote' = update_quotes(m)
      <4>1. \A s \in Sides : (IF tick THEN target_price(s, m) ELSE NaN) \in Int
        BY DEF target_price, skew, NaN, MakerInv, TypeOK
      <4> QED
        BY <1>1, <3>3, <4>1, TargetUpdated DEF update_quotes
    <3> QED
      BY <3>1, <3>2, <3>3 DEF TopOfBook
  <2>3. CASE ~Disconnected /\ ~\E m \in Mids \union {NaN} : TopOfBook(m)
    <3>1. quote' = quote
      BY <2>3 DEF DownloadEnd, Ready, ReferenceData, MarketStatus, Connect, Stopped, vars, shared
    <3> QED
      BY <3>1
  <2> QED
    BY <2>1, <2>2, <2>3
<1>5. \A kind, s : Requested(World, kind, s) => Requested(World, kind, s)'
  <2>1. CASE Ready
    <3> DEFINE r == [kind |-> "cancel_all", side |-> "BUY", id |-> 0]
    <3>1. r \in Requests /\ requests' = Append(requests, r)
      BY <2>1 DEF Ready, Requests
    <3> HIDE DEF r
    <3>2. /\ DOMAIN requests \subseteq DOMAIN requests'
          /\ \A k \in DOMAIN requests : requests'[k] = requests[k]
      BY <1>1, <3>1, Appended
    <3> QED
      BY <1>1, <1>2, <3>2 DEF Requested
  <2>2. CASE ~Ready
    <3>1. requests' = requests
      BY <2>2 DEF Disconnected, DownloadEnd, ReferenceData, MarketStatus, TopOfBook, Connect, Stopped,
         vars, wire
    <3> QED
      BY <1>1, <1>2, <3>1 DEF Requested
  <2> QED
    BY <2>1, <2>2
<1>6. \A kind, s : Answered(kind, s) => Answered(kind, s)'
  BY <1>3 DEF Answered
<1> QED
  BY <1>1, <1>2, <1>4, <1>5, <1>6 DEF StillDriven

\* An ack wakes the quote it is for, or stops the process.
LEMMA AckDriven ==
    ASSUME MakerInv, OrderAck, Running'
    PROVE  StillDriven
<1> USE MakerAssumption
<1>1. /\ quote \in [Sides -> Quotes] /\ World.quote = quote /\ World.requests = requests
      /\ inbox \in Seq(Events)
  BY Fields DEF MakerInv, TypeOK
<1>2. World'.quote = quote' /\ World'.requests = requests' /\ requests' = requests
  BY WorldNext DEF OrderAck
<1>3. PICK i \in DOMAIN inbox :
        /\ inbox[i].event = "ack" /\ inbox' = Without(inbox, i)
        /\ quote' = [quote EXCEPT ![inbox[i].side] = quote_order_ack(@, inbox[i]).quote]
        /\ halted' = quote_order_ack(quote[inbox[i].side], inbox[i]).halt
  BY DEF OrderAck
<1> DEFINE e == inbox[i]
           a == quote_order_ack(quote[e.side], e)
<1>4. /\ e.side \in Sides /\ e.kind \in {"create", "cancel"}
      /\ e.kind = "create" => e.result \in {"accepted", "error"}
  BY <1>1, <1>3, EventFields
<1>5. quote'[e.side] = a.quote /\ \A s \in Sides \ {e.side} : quote'[s] = quote[s]
  BY <1>1, <1>3, <1>4
<1>6. a.halt = "no"
  BY <1>3 DEF Running
<1>7. \/ e.kind = "create" /\ quote[e.side].state = "CREATE" /\ a.quote.state = "WORKING"
      \/ e.kind # "create" /\ quote[e.side].state = "CANCEL" /\ a.quote.state = "UNDEFINED"
  <2> HIDE DEF e
  <2> QED
    BY <1>1, <1>4, <1>6, AckResult
<1> HIDE DEF a
<1>8. \A kind, s : Requested(World, kind, s) => Requested(World, kind, s)'
  BY <1>1, <1>2 DEF Requested
<1>9. \A kind, s : Answered(kind, s) => Answered(kind, s)' \/ (kind = e.kind /\ s = e.side)
  <2>1. \A k \in DOMAIN inbox \ {i} : \E j \in DOMAIN inbox' : inbox'[j] = inbox[k]
    BY <1>1, <1>3, Removed
  <2> QED
    BY <2>1 DEF Answered
<1> HIDE DEF e
<1> QED
  BY <1>1, <1>2, <1>4, <1>5, <1>7, <1>8, <1>9 DEF StillDriven

\* The other events are no answers; an order that ends makes its quote idle.
LEMMA EventDriven ==
    ASSUME MakerInv, CancelAllOrdersAck \/ OrderUpdate
    PROVE  StillDriven
<1> USE MakerAssumption
<1>1. /\ quote \in [Sides -> Quotes] /\ World.quote = quote /\ World.requests = requests
      /\ inbox \in Seq(Events)
  BY Fields DEF MakerInv, TypeOK
<1>2. World'.quote = quote' /\ World'.requests = requests' /\ requests' = requests
  BY WorldNext DEF CancelAllOrdersAck, OrderUpdate
<1>3. PICK i \in DOMAIN inbox :
        /\ inbox[i].event # "ack" /\ inbox' = Without(inbox, i)
        /\ \/ quote' = quote
           \/ /\ inbox[i].event = "update"
              /\ quote' = [quote EXCEPT ![inbox[i].side] = quote_order_update(@, inbox[i])]
  BY DEF CancelAllOrdersAck, OrderUpdate, shared
<1>4. \A s \in Sides : quote'[s].state \in {quote[s].state, "UNDEFINED"}
  <2>1. CASE quote' = quote
    BY <2>1
  <2>2. CASE /\ inbox[i].event = "update"
             /\ quote' = [quote EXCEPT ![inbox[i].side] = quote_order_update(@, inbox[i])]
    <3> DEFINE e == inbox[i]
    <3>1. \A q \in Quotes : quote_order_update(q, e).state \in {q.state, "UNDEFINED"}
      <4> HIDE DEF e
      <4> QED
        BY DEF quote_order_update, Quotes
    <3> QED
      BY <1>1, <2>2, <3>1
  <2> QED
    BY <1>3, <2>1, <2>2
<1>5. \A kind, s : Requested(World, kind, s) => Requested(World, kind, s)'
  BY <1>1, <1>2 DEF Requested
<1>6. \A kind, s : Answered(kind, s) => Answered(kind, s)'
  <2>1. \A k \in DOMAIN inbox \ {i} : \E j \in DOMAIN inbox' : inbox'[j] = inbox[k]
    BY <1>1, <1>3, Removed
  <2> QED
    BY <1>3, <2>1 DEF Answered
<1> QED
  BY <1>1, <1>2, <1>4, <1>5, <1>6 DEF StillDriven

\* The gateway turns a request into its answer, and a fill adds an event.
LEMMA GatewayDriven ==
    ASSUME MakerInv, GatewayRequest \/ \E f \in Ids : Fill(f) \/ PartialFill(f)
    PROVE  StillDriven
<1> USE MakerAssumption
<1>1. /\ World.quote = quote /\ World.requests = requests /\ requests \in Seq(Requests)
      /\ inbox \in Seq(Events) /\ order \in [Ids -> Orders]
  BY Fields DEF MakerInv, TypeOK
<1>2. World'.quote = quote' /\ World'.requests = requests' /\ quote' = quote
  BY WorldNext DEF GatewayRequest, Fill, PartialFill, shared
<1>3. CASE \E f \in Ids : Fill(f) \/ PartialFill(f)
  <2>1. PICK f \in Ids, status \in {"working", "completed"} :
          inbox' = Append(inbox, Update(order[f].side, f, status)) /\ requests' = requests
    BY <1>3 DEF Fill, PartialFill
  <2> DEFINE e == Update(order[f].side, f, status)
  <2>2. e \in Events /\ inbox' = Append(inbox, e) /\ requests' = requests
    <3>1. order[f].side \in Sides
      BY <1>1 DEF Orders
    <3> QED
      BY <2>1, <3>1 DEF Update, Events
  <2> HIDE DEF e
  <2>3. Delivers
    BY <1>1, <2>2, OneDelivered
  <2>4. \A kind, s : /\ Answered(kind, s) => Answered(kind, s)'
                     /\ Requested(World, kind, s) => Requested(World, kind, s)'
    BY <1>1, <1>2, <2>2, <2>3 DEF Delivers, Answered, Requested
  <2> QED
    BY <1>1, <1>2, <2>4 DEF StillDriven
<1>4. CASE GatewayRequest
  <2>0. requests # << >> /\ requests' = Tail(requests)
    BY <1>4 DEF GatewayRequest
  <2>2. PICK r \in Requests : r = Head(requests) /\ r = requests[1]
    BY <1>1, <2>0, Served
  <2>1. GatewayCreate(r) \/ GatewayCancel(r) \/ GatewayCancelAll(r)
    BY <1>4, <2>2 DEF GatewayRequest
  <2>3. \A k \in DOMAIN requests \ {1} : \E j \in DOMAIN requests' : requests'[j] = requests[k]
    <3>1. /\ Len(requests) \in Nat /\ DOMAIN requests = 1..Len(requests)
          /\ DOMAIN requests' = 1..(Len(requests) - 1)
          /\ \A j \in 1..(Len(requests) - 1) : requests'[j] = requests[j + 1]
      <4> HIDE DEF Requests
      <4> QED
        BY <1>1, <2>0, HeadTailProperties, LenProperties
    <3>2. ASSUME NEW k \in DOMAIN requests \ {1}
          PROVE  k - 1 \in DOMAIN requests' /\ requests'[k - 1] = requests[k]
      <4>1. k - 1 \in 1..(Len(requests) - 1) /\ k - 1 + 1 = k
        BY <3>1
      <4> QED
        BY <3>1, <4>1
    <3> QED
      BY <3>2
  <2>4. /\ Delivers
        /\ r.kind \in {"create", "cancel"} => Answered(r.kind, r.side)'
    <3>1. ASSUME NEW result, r.kind \in {"create", "cancel"}
          PROVE  /\ Ack(r, result).event = "ack" /\ Ack(r, result).kind = r.kind
                 /\ Ack(r, result).side = r.side
      BY DEF Ack
    <3>2. CASE GatewayCreate(r)
      <4>1. r.kind = "create" /\ Ack(r, "accepted") \in Events /\ Ack(r, "error") \in Events
            /\ Update(r.side, r.id, "working") \in Events
        BY <2>2, <3>2 DEF GatewayCreate, Requests, Ack, Update, Events
      <4>2. CASE inbox' = inbox \o <<Ack(r, "accepted"), Update(r.side, r.id, "working")>>
        <5>1. Delivers /\ \E n \in DOMAIN inbox' : inbox'[n] = Ack(r, "accepted")
          <6> HIDE DEF Ack, Update, Events
          <6> QED
            BY <1>1, <4>1, <4>2, TwoDelivered DEF NewEvents
        <5> QED
          BY <3>1, <4>1, <5>1 DEF Answered
      <4>3. CASE inbox' = Append(inbox, Ack(r, "error"))
        <5>1. Delivers /\ \E n \in DOMAIN inbox' : inbox'[n] = Ack(r, "error")
          BY <1>1, <4>1, <4>3, OneDelivered DEF NewEvents
        <5> QED
          BY <3>1, <4>1, <5>1 DEF Answered
      <4> QED
        BY <3>2, <4>2, <4>3 DEF GatewayCreate
    <3>3. CASE GatewayCancel(r)
      <4>1. r.kind = "cancel" /\ Ack(r, "accepted") \in Events /\ Ack(r, "TOO_LATE") \in Events
            /\ Ack(r, "error") \in Events /\ Update(r.side, r.id, "canceled") \in Events
        BY <2>2, <3>3 DEF GatewayCancel, Requests, Ack, Update, Events
      <4>2. CASE inbox' = inbox \o <<Ack(r, "accepted"), Update(r.side, r.id, "canceled")>>
        <5>1. Delivers /\ \E n \in DOMAIN inbox' : inbox'[n] = Ack(r, "accepted")
          BY <1>1, <4>1, <4>2, TwoDelivered DEF NewEvents
        <5> QED
          BY <3>1, <4>1, <5>1 DEF Answered
      <4>3. CASE inbox' = Append(inbox, Ack(r, "TOO_LATE"))
        <5>1. Delivers /\ \E n \in DOMAIN inbox' : inbox'[n] = Ack(r, "TOO_LATE")
          BY <1>1, <4>1, <4>3, OneDelivered DEF NewEvents
        <5> QED
          BY <3>1, <4>1, <5>1 DEF Answered
      <4>4. CASE inbox' = Append(inbox, Ack(r, "error"))
        <5>1. Delivers /\ \E n \in DOMAIN inbox' : inbox'[n] = Ack(r, "error")
          BY <1>1, <4>1, <4>4, OneDelivered DEF NewEvents
        <5> QED
          BY <3>1, <4>1, <5>1 DEF Answered
      <4> QED
        BY <3>3, <4>2, <4>3, <4>4 DEF GatewayCancel
    <3>4. CASE GatewayCancelAll(r)
      <4> DEFINE e == [event |-> "cancel_all_ack"]
      <4>1. r.kind = "cancel_all" /\ inbox' = Append(inbox, e) /\ e \in Events
        BY <3>4 DEF GatewayCancelAll, Events
      <4> HIDE DEF e
      <4> QED
        BY <1>1, <4>1, OneDelivered
    <3> QED
      BY <2>1, <3>2, <3>3, <3>4
  <2>5. \A kind, s : Answered(kind, s) => Answered(kind, s)'
    BY <2>4 DEF Delivers, Answered
  <2>6. \A s : \A kind \in {"create", "cancel"} :
           Requested(World, kind, s) => Requested(World, kind, s)' \/ Answered(kind, s)'
    BY <1>1, <1>2, <2>2, <2>3, <2>4 DEF Requested
  <2> QED
    BY <1>1, <1>2, <2>5, <2>6 DEF StillDriven
<1> QED
  BY <1>3, <1>4

\* A quote never waits for nothing, also when updates overtake acks: in CREATE or CANCEL
\* there is a request or an answer under way that will wake it (until the connection is
\* lost).  With the fair gateway this is why every request ends (RequestsEnd).
THEOREM WaitIsDrivenHolds == Spec => []WaitIsDriven
<1>1. Init => WaitIsDriven
  BY DEF Init, WaitIsDriven, NewQuote
<1>2. MakerInv /\ WaitIsDriven /\ [Next]_vars => WaitIsDriven'
  <2> SUFFICES ASSUME MakerInv, WaitIsDriven, [Next]_vars, Running', disconnects' = 0
               PROVE  Driven(World)'
    BY UnderWayWorldNext
  <2>1. disconnects = 0 /\ ~LoseConnection
    BY DEF Next, vars, wire, Timer, Disconnected, DownloadEnd, Ready, ReferenceData, MarketStatus,
       TopOfBook, CancelAllOrdersAck, OrderAck, OrderUpdate, GatewayRequest, Fill, PartialFill,
       LoseConnection, Connect, Stopped, MakerInv, TypeOK
  <2>2. Running
    BY DEF Next, vars, Running, Timer, Disconnected, DownloadEnd, Ready, ReferenceData, MarketStatus,
       TopOfBook, CancelAllOrdersAck, OrderAck, OrderUpdate, GatewayRequest, Fill, PartialFill,
       LoseConnection, Connect, Stopped
  <2>3. Driven(World)
    BY <2>1, <2>2, UnderWayWorld
  <2>4. CASE UNCHANGED vars
    BY <2>3, <2>4 DEF vars, shared, wire, Driven, Requested, Answered, World
  <2>5. CASE Timer
    BY <2>3, <2>5, TimerDriven
  <2>6. CASE \/ Disconnected \/ DownloadEnd \/ Ready \/ ReferenceData
             \/ (\E o \in BOOLEAN : MarketStatus(o)) \/ (\E m \in Mids \union {NaN} : TopOfBook(m))
             \/ Connect \/ Stopped
    BY <2>3, <2>6, QuietDriven, StillDrivenStep
  <2>7. CASE OrderAck
    BY <2>3, <2>7, AckDriven, StillDrivenStep
  <2>8. CASE CancelAllOrdersAck \/ OrderUpdate
    BY <2>3, <2>8, EventDriven, StillDrivenStep
  <2>9. CASE GatewayRequest \/ \E i \in Ids : Fill(i) \/ PartialFill(i)
    BY <2>3, <2>9, GatewayDriven, StillDrivenStep
  <2> QED
    BY <2>1, <2>4, <2>5, <2>6, <2>7, <2>8, <2>9 DEF Next
<1> QED
  BY <1>1, <1>2, MakerInvariant, PTL DEF Spec
=============================================================================
