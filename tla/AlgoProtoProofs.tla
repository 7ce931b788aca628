-------------------------- MODULE AlgoProtoProofs --------------------------
(***************************************************************************)
(* Proofs about algo-proto with the spread strategy, for any gateways,     *)
(* prices, orders of earlier sessions and outages: the readiness it keeps  *)
(* is current, requests go to the gateway that has the order, the strategy *)
(* implements OrderSlot and its order rests at the last target.            *)
(***************************************************************************)
EXTENDS AlgoProto, SequenceTheorems, TLAPS

g0 == SourceOf[0]

Gateways == [connected : BOOLEAN, downloading : BOOLEAN, md : BOOLEAN, om : BOOLEAN]

Markets == [source : Sources \union {SOURCE_SELF}, tick : {"zero", "NaN", "set"},
            open : BOOLEAN, book : Int]

Strategies == [ready_by_instrument : [Index -> BOOLEAN], ready : BOOLEAN, target : Int,
               order_id : 0..MaxOrders, known : SUBSET Ids]

Requests == [kind : {"create", "modify"}, id : Ids, price : Int]

Statuses == {"none", "working", "completed", "canceled", "rejected"}

Orders == [status : Statuses, price : Int, source : {g0}, routing : {"own", "foreign"}]

Events == [event : {"connected", "download_begin", "disconnected"}] \union
          [event : {"order"}, id : Ids, routing : {"own", "foreign"}] \union
          [event : {"download_end"}, max_order_id : 0..MaxOrders]

\* The map of order ids knows one source only, that of the first instrument.
Maps == UNION {[D -> {g0}] : D \in SUBSET Ids}

\* What the process dies of: never of a modify request whose source is not known.
Outcomes == {"no", "expected strategies", "unexpected key", "empty", "required",
             "unexpected instrument", "invalid symbol", "unknown type", "weight", "out of range",
             "not connected", "unexpected routing"}

Worlds == [strategy : Strategies, max_order_id : 0..MaxOrders, order_id_to_source : Maps,
           requests : [Sources -> Seq(Requests)], halted : Outcomes]

TypeOK ==
    /\ gateway \in [Sources -> Gateways] /\ market \in [Index -> Markets]
    /\ World \in Worlds
    /\ inbox \in [Sources -> Seq(Events)] /\ order \in [Ids -> Orders]
    /\ up \subseteq Sources /\ outages \in Nat /\ refused \in BOOLEAN

\* A market whose source is not known yet has never been heard of.
Discovered ==
    \A i \in Index : /\ market[i].source \in {SOURCE_SELF, SourceOf[i]}
                     /\ market[i].source = SOURCE_SELF => ~market[i].open

\* A gateway is a new one until it connects; Connected comes first and DownloadBegin
\* follows it, and without a connection only Disconnected can still be to come.
Shape(g) ==
    LET gw == gateway[g]
        q  == inbox[g]
    IN  /\ ~gw.connected => gw = NewGateway
        /\ g \notin up => \/ q = << >> /\ ~gw.connected
                          \/ q = <<[event |-> "disconnected"]>>
        /\ \A k \in DOMAIN q :
            /\ q[k].event = "disconnected" => g \notin up
            /\ q[k].event = "connected" =>
                 k = 1 /\ ~gw.connected /\ Len(q) > 1 /\ q[2].event = "download_begin"
            /\ q[k].event = "download_begin" =>
                 \/ k = 1 /\ gw.connected /\ ~gw.md
                 \/ k = 2 /\ q[1].event = "connected"

\* Only orders that a gateway knows are reported, and the order that a request was about.
Reported(g) ==
    \A k \in DOMAIN inbox[g] :
        /\ inbox[g][k].event = "order" => inbox[g][k].id \in KnownIds \union {strategy.order_id}
        /\ inbox[g][k].event = "download_end" => inbox[g][k].max_order_id \in KnownIds \union {0}

\* The ids that are counted, or will be when the download ends.
Counts(m) == \A i \in KnownIds : i <= m

Ending ==
    \A k \in DOMAIN inbox[g0] : inbox[g0][k].event = "download_end" =>
        \A i \in KnownIds : i <= max_order_id \/ i <= inbox[g0][k].max_order_id

\* The gateway of the orders has been downloaded.
Synced ==
    LET gw == gateway[g0]
    IN  gw.connected /\ ~gw.downloading
        /\ (gw.md \/ (g0 \in up /\ (inbox[g0] = << >> \/ inbox[g0][1].event # "download_begin")))
        => Counts(max_order_id)

Highs == KnownIds = {} \/ \E m \in KnownIds : Counts(m)

\* Until the strategy has created its order there is an id left for it.
Spare ==
    Running /\ strategy.order_id = 0 =>
        MaxOrders \notin KnownIds /\ max_order_id \in KnownIds \union {0}

Creates(g) == {k \in DOMAIN requests[g] : requests[g][k].kind = "create"}

\* All requests are about the one order, at its gateway; one of them creates it.
Asked ==
    /\ \A g \in Sources : \A k \in DOMAIN requests[g] :
        /\ g = g0 /\ requests[g][k].id = strategy.order_id
        /\ requests[g][k].kind = "create" => order[requests[g][k].id].status = "none"
    /\ \A k, l \in Creates(g0) : k = l

Owned ==
    /\ strategy.order_id # 0 =>
        /\ strategy.order_id <= max_order_id /\ strategy.order_id \in strategy.known
        /\ strategy.order_id \in DOMAIN order_id_to_source
    /\ \A i \in Ids : order[i].status = "working" => i = strategy.order_id

\* Without an outage the create request arrives, and before the modify requests.
Placed ==
    outages = 0 =>
        /\ strategy.order_id # 0 =>
            strategy.order_id \in KnownIds \/ Creates(g0) # {}
        /\ \A k \in DOMAIN requests[g0] : requests[g0][k].kind = "modify" =>
            strategy.order_id \in KnownIds \/ \E m \in 1..(k - 1) : m \in Creates(g0)

\* The last request is for the target; without one the order is at the target.
Targeted ==
    Running /\ ~refused =>
        /\ requests[g0] # << >> => requests[g0][Len(requests[g0])].price = strategy.target
        /\ requests[g0] = << >> =>
            \A i \in Ids : order[i].status = "working" => order[i].price = strategy.target

Wire == /\ \A g \in Sources : Shape(g) /\ Reported(g)
        /\ Ending /\ Synced /\ Highs

Work == Spare /\ Asked /\ Owned /\ Placed /\ Targeted

AlgoInv == TypeOK /\ Discovered /\ ReadyIsCurrent /\ Wire /\ Work

-----------------------------------------------------------------------------
(***************************************************************************)
(* What the handlers of the strategy do to the world.                      *)
(***************************************************************************)

SameOrder(w, d) ==
    /\ d.strategy.order_id = w.strategy.order_id /\ d.strategy.known = w.strategy.known
    /\ DOMAIN w.order_id_to_source \subseteq DOMAIN d.order_id_to_source

\* Nothing is sent.
Stays(w, d) ==
    /\ SameOrder(w, d) /\ d.requests = w.requests /\ d.max_order_id = w.max_order_id
    /\ d.strategy.target = w.strategy.target /\ d.halted = w.halted

\* The process ends in a send.
Ends(w, d) ==
    /\ SameOrder(w, d) /\ d.requests = w.requests /\ w.max_order_id <= d.max_order_id
    /\ d.halted # "no"

SendsCreate(w, d) ==
    LET id == w.max_order_id + 1
    IN  /\ w.strategy.order_id = 0 /\ Counts(w.max_order_id) /\ id \in Ids
        /\ d.max_order_id = id /\ d.strategy.order_id = id /\ id \in d.strategy.known
        /\ id \in DOMAIN d.order_id_to_source /\ d.halted = w.halted
        /\ d.requests = [w.requests EXCEPT
                ![g0] = Append(@, Request("create", id, d.strategy.target))]

SendsModify(w, d) ==
    /\ w.strategy.order_id # 0 /\ SameOrder(w, d)
    /\ d.max_order_id = w.max_order_id /\ d.halted = w.halted
    /\ d.requests = [w.requests EXCEPT
            ![g0] = Append(@, Request("modify", w.strategy.order_id, d.strategy.target))]

Moves(w, d) == Stays(w, d) \/ Ends(w, d) \/ SendsCreate(w, d) \/ SendsModify(w, d)

\* A world from which the strategy may send: there is an id left for its order, above
\* all that are known, or it has its order.
MaySend(w) ==
    /\ w.halted = "no"
    /\ w.strategy.order_id = 0 => w.max_order_id < MaxOrders /\ Counts(w.max_order_id)
    /\ w.strategy.order_id # 0 => /\ w.strategy.order_id <= w.max_order_id
                                  /\ w.strategy.order_id \in DOMAIN w.order_id_to_source

LEMMA WorldFields ==
    ASSUME NEW w \in Worlds
    PROVE  /\ w.strategy \in Strategies /\ w.max_order_id \in 0..MaxOrders
           /\ w.order_id_to_source \in Maps /\ w.requests \in [Sources -> Seq(Requests)]
           /\ w.halted \in Outcomes
           /\ w.strategy.order_id \in 0..MaxOrders /\ w.strategy.target \in Int
           /\ w.strategy.known \subseteq Ids /\ w.strategy.ready \in BOOLEAN
           /\ w.strategy.ready_by_instrument \in [Index -> BOOLEAN]
BY DEF Worlds, Strategies

LEMMA Constants ==
    /\ g0 \in Sources /\ SOURCE_SELF \notin Sources /\ MaxOrders \in Nat /\ MaxOrders > 0
    /\ Ids = 1..MaxOrders /\ \A i \in Index : SourceOf[i] \in Sources
BY AlgoProtoAssumption DEF g0, Ids, Index

\* A map that knows one more order id.
LEMMA Emplaced ==
    ASSUME NEW f \in Maps, NEW id \in Ids
    PROVE  /\ emplace(f, id, g0) \in Maps
           /\ DOMAIN emplace(f, id, g0) = DOMAIN f \union {id}
<1>1. PICK D \in SUBSET Ids : f \in [D -> {g0}]
  BY DEF Maps
<1>2. emplace(f, id, g0) \in [D \union {id} -> {g0}] /\ DOMAIN emplace(f, id, g0) = D \union {id}
  BY <1>1 DEF emplace
<1>3. D \union {id} \in SUBSET Ids
  OBVIOUS
<1> QED
  BY <1>1, <1>2, <1>3 DEF Maps

\* A request is sent to g0, or the process ends.
LEMMA SendLemma ==
    ASSUME NEW w \in Worlds, NEW r \in Requests
    PROVE  LET d == send(w, r, g0) IN
           /\ d \in Worlds
           /\ d.strategy = w.strategy /\ d.max_order_id = w.max_order_id
           /\ d.order_id_to_source = w.order_id_to_source
           /\ \/ d.halted # "no" /\ d.requests = w.requests
              \/ /\ d.halted = w.halted
                 /\ d.requests = [w.requests EXCEPT ![g0] = Append(@, r)]
<1> DEFINE rs == [w.requests EXCEPT ![g0] = Append(@, r)]
<1>1. rs \in [Sources -> Seq(Requests)]
  BY WorldFields, Constants
<1>2. CASE g0 \in up
  <2>1. send(w, r, g0) = [w EXCEPT !.requests = rs]
    BY <1>2, WorldFields DEF send, Worlds
  <2> QED
    BY <1>1, <2>1, WorldFields DEF Worlds
<1>3. CASE g0 \notin up
  <2>1. send(w, r, g0) = [w EXCEPT !.halted = "not connected"]
    BY <1>3 DEF send
  <2>2. "not connected" # "no" /\ "not connected" \in Outcomes
    BY DEF Outcomes
  <2> QED
    BY <2>1, <2>2, WorldFields DEF Worlds
<1> QED
  BY <1>2, <1>3

LEMMA SetTarget ==
    ASSUME NEW w \in Worlds, MaySend(w), NEW price \in Int, NEW mks, mks[0].source = g0
    PROVE  LET d == set_target(w, price, mks) IN
           /\ d \in Worlds /\ Moves(w, d)
           /\ d.strategy.ready = w.strategy.ready
           /\ d.strategy.ready_by_instrument = w.strategy.ready_by_instrument
<1> DEFINE d == set_target(w, price, mks)
           t == [w EXCEPT !.strategy.target = price]
           id == next_order_id(t)
           c == bridge_create_order(t, Request("create", id, price), mks)
           m == bridge_modify_order(t, Request("modify", t.strategy.order_id, price), mks)
<1>0. /\ MaxOrders \in Nat /\ Ids = 1..MaxOrders
      /\ w.max_order_id \in 0..MaxOrders /\ w.strategy.order_id \in 0..MaxOrders
  BY Constants, WorldFields
<1>1. /\ t \in Worlds /\ t.max_order_id = w.max_order_id /\ t.requests = w.requests
      /\ t.order_id_to_source = w.order_id_to_source /\ t.halted = w.halted
      /\ t.strategy.target = price /\ t.strategy.order_id = w.strategy.order_id
      /\ t.strategy.known = w.strategy.known /\ t.strategy.ready = w.strategy.ready
      /\ t.strategy.ready_by_instrument = w.strategy.ready_by_instrument
  <2>1. t.strategy = [w.strategy EXCEPT !.target = price]
    BY DEF Worlds
  <2>2. t = [w EXCEPT !.strategy = [w.strategy EXCEPT !.target = price]]
    OBVIOUS
  <2>3. [w.strategy EXCEPT !.target = price] \in Strategies
    BY WorldFields DEF Strategies
  <2> QED
    BY <2>1, <2>2, <2>3, WorldFields DEF Worlds, Strategies
<1>2. CASE price = w.strategy.target
  BY <1>2 DEF set_target, Moves, Stays, SameOrder
<1>3. CASE price # w.strategy.target /\ w.strategy.order_id # 0
  <2> DEFINE oid == w.strategy.order_id
             k == [t EXCEPT !.max_order_id = Larger(@, oid)]
             r == Request("modify", oid, price)
  <2>1. d = m
    BY <1>1, <1>3 DEF set_target
  <2>2. oid \in Ids /\ oid <= w.max_order_id /\ oid \in DOMAIN w.order_id_to_source
    BY <1>0, <1>3 DEF MaySend
  <2>3. r \in Requests /\ r.id = oid
    BY <2>2 DEF Requests, Request
  <2>4. Larger(t.max_order_id, oid) = w.max_order_id
    BY <1>0, <1>1, <2>2 DEF Larger
  <2>5. k = t
    BY <1>1, <2>4 DEF Worlds
  <2>6. find_source(t, oid) = {g0}
    <3>1. PICK D \in SUBSET Ids : w.order_id_to_source \in [D -> {g0}]
      BY WorldFields DEF Maps
    <3> QED
      BY <1>1, <2>2, <3>1 DEF find_source
  <2> HIDE DEF t, oid
  <2>7. m = send(t, r, g0)
    <3>1. (CHOOSE g \in {g0} : TRUE) = g0
      OBVIOUS
    <3>2. r = Request("modify", t.strategy.order_id, price)
      BY <1>1 DEF oid
    <3> QED
      BY <2>3, <2>5, <2>6, <3>1, <3>2 DEF bridge_modify_order
  <2> HIDE DEF m, d, r, k
  <2>8. d = send(t, r, g0) /\ d \in Worlds
    BY <1>1, <2>1, <2>3, <2>7, SendLemma
  <2>9. /\ d.strategy = t.strategy /\ d.max_order_id = t.max_order_id
        /\ d.order_id_to_source = t.order_id_to_source
        /\ \/ d.halted # "no" /\ d.requests = t.requests
           \/ d.halted = t.halted /\ d.requests = [t.requests EXCEPT ![g0] = Append(@, r)]
    BY <1>1, <2>3, <2>8, SendLemma
  <2>10. SameOrder(w, d)
    BY <1>1, <2>9 DEF SameOrder
  <2>11. Ends(w, d) \/ SendsModify(w, d)
    BY <1>0, <1>1, <1>3, <2>9, <2>10 DEF Ends, SendsModify, r, oid
  <2> QED
    BY <1>1, <2>8, <2>9, <2>11 DEF Moves, d
<1>4. CASE price # w.strategy.target /\ w.strategy.order_id = 0
  <2>1. /\ id = w.max_order_id + 1 /\ id \in Ids /\ id \in 0..MaxOrders
        /\ Counts(w.max_order_id) /\ Larger(t.max_order_id, id) = id
    BY <1>0, <1>1, <1>4 DEF MaySend, next_order_id, Larger
  <2> DEFINE r == Request("create", id, price)
             e == emplace(t.order_id_to_source, id, g0)
             k == [t EXCEPT !.max_order_id = Larger(@, id),
                            !.order_id_to_source = emplace(@, id, g0)]
             f == [c EXCEPT !.strategy.order_id = id, !.strategy.known = @ \union {id}]
  <2>2. d = IF c.halted # "no" THEN c ELSE f
    BY <1>1, <1>4 DEF set_target
  <2> HIDE DEF t, id
  <2>3. r \in Requests /\ r.id = id
    BY <2>1 DEF Requests, Request
  <2>4. e \in Maps /\ DOMAIN e = DOMAIN w.order_id_to_source \union {id}
    BY <1>1, <2>1, WorldFields, Emplaced
  <2> HIDE DEF e
  <2>5. /\ k \in Worlds /\ k.max_order_id = id /\ k.order_id_to_source = e
        /\ k.strategy = t.strategy /\ k.requests = w.requests /\ k.halted = w.halted
    <3>1. k = [t EXCEPT !.max_order_id = id, !.order_id_to_source = e]
      BY <1>1, <2>1 DEF Worlds, e
    <3> QED
      BY <1>1, <2>1, <2>4, <3>1, WorldFields DEF Worlds
  <2>6. c = send(k, r, g0)
    BY <2>3 DEF bridge_create_order
  <2> HIDE DEF k, r, c
  <2>7. /\ c \in Worlds /\ c.strategy = t.strategy /\ c.max_order_id = id
        /\ c.order_id_to_source = e
        /\ \/ c.halted # "no" /\ c.requests = w.requests
           \/ c.halted = w.halted /\ c.requests = [w.requests EXCEPT ![g0] = Append(@, r)]
    BY <2>3, <2>5, <2>6, SendLemma
  <2>8. CASE c.halted # "no"
    <3>1. d = c
      BY <2>2, <2>8
    <3>2. c.requests = w.requests
      BY <2>7, <2>8 DEF MaySend
    <3>3. Ends(w, c)
      BY <1>0, <1>1, <2>1, <2>4, <2>7, <2>8, <3>2 DEF Ends, SameOrder
    <3> HIDE DEF d
    <3> QED
      BY <1>1, <2>7, <3>1, <3>3 DEF Moves, d
  <2>9. CASE c.halted = "no"
    <3> DEFINE s == [t.strategy EXCEPT !.order_id = id, !.known = @ \union {id}]
    <3>1. t.strategy \in Strategies
      BY <1>1, WorldFields
    <3>2. /\ s \in Strategies /\ s.order_id = id /\ id \in s.known /\ s.target = price
          /\ s.ready = w.strategy.ready /\ s.ready_by_instrument = w.strategy.ready_by_instrument
      BY <1>1, <2>1, <3>1 DEF Strategies
    <3>3. f = [c EXCEPT !.strategy = s]
      BY <2>7, <3>1 DEF Worlds, Strategies
    <3> HIDE DEF s
    <3>4. /\ f \in Worlds /\ f.strategy = s /\ f.max_order_id = id
          /\ f.order_id_to_source = e /\ f.requests = c.requests /\ f.halted = c.halted
      BY <2>7, <3>2, <3>3, WorldFields DEF Worlds
    <3>5. d = f
      BY <2>2, <2>9
    <3> HIDE DEF d, f
    <3>6. c.halted = w.halted /\ c.requests = [w.requests EXCEPT ![g0] = Append(@, r)]
      BY <2>7, <2>9 DEF MaySend
    <3>7. SendsCreate(w, d)
      BY <1>4, <2>1, <2>4, <3>2, <3>4, <3>5, <3>6 DEF SendsCreate, r
    <3> QED
      BY <3>2, <3>4, <3>5, <3>7 DEF Moves, d
  <2> QED
    BY <2>8, <2>9
<1> QED
  BY <1>2, <1>3, <1>4

\* Spread::update.
LEMMA SpreadUpdate ==
    ASSUME NEW w \in Worlds, NEW mks \in [Index -> Markets],
           w.strategy.ready => MaySend(w) /\ mks[0].source = g0
    PROVE  LET d == spread_update(w, mks) IN
           /\ d \in Worlds /\ Moves(w, d)
           /\ d.strategy.ready = w.strategy.ready
           /\ d.strategy.ready_by_instrument = w.strategy.ready_by_instrument
<1>1. Moves(w, w)
  BY DEF Moves, Stays, SameOrder
<1>2. mks[1].book - Spread \in Int
  BY AlgoProtoAssumption DEF Markets, Index
<1>3. CASE spread_update(w, mks) = w
  BY <1>1, <1>3
<1>4. CASE w.strategy.ready /\ spread_update(w, mks) = set_target(w, mks[1].book - Spread, mks)
  <2> DEFINE price == mks[1].book - Spread
  <2> HIDE DEF price
  <2>1. price \in Int /\ spread_update(w, mks) = set_target(w, price, mks)
    BY <1>2, <1>4 DEF price
  <2>2. MaySend(w) /\ mks[0].source = g0
    BY <1>4
  <2> QED
    BY <2>1, <2>2, SetTarget
<1> QED
  BY <1>3, <1>4 DEF spread_update

\* Base::update.
LEMMA Update ==
    ASSUME NEW w \in Worlds, NEW gws \in [Sources -> Gateways], NEW mks \in [Index -> Markets],
           NEW g \in Sources, strategy.ready_by_instrument \in [Index -> BOOLEAN],
           (\A i \in Index : ready_by_instrument(gws, mks, g)[i])
               => MaySend(w) /\ mks[0].source = g0
    PROVE  LET d == update(w, gws, mks, g) IN
           /\ d \in Worlds /\ Moves(w, d)
           /\ d.strategy.ready_by_instrument = ready_by_instrument(gws, mks, g)
           /\ d.strategy.ready = \A i \in Index : ready_by_instrument(gws, mks, g)[i]
<1> DEFINE by  == ready_by_instrument(gws, mks, g)
           all == \A i \in Index : by[i]
           st  == [w.strategy EXCEPT !.ready_by_instrument = by, !.ready = all]
           s   == [w EXCEPT !.strategy.ready_by_instrument = by, !.strategy.ready = all]
           d   == update(w, gws, mks, g)
<1>1. by \in [Index -> BOOLEAN]
  <2>1. \A i \in Index : mks[i].source = g => instrument_ready(gws[g], mks[i]) \in BOOLEAN
    BY DEF instrument_ready
  <2> QED
    BY <2>1 DEF ready_by_instrument
<1>2. all \in BOOLEAN
  OBVIOUS
<1>3. d = IF all # w.strategy.ready THEN spread_ready(s, mks) ELSE s
  BY DEF update
<1> HIDE DEF by, d
<1>4. st \in Strategies /\ st.ready_by_instrument = by /\ st.ready = all
      /\ st.target = w.strategy.target /\ st.order_id = w.strategy.order_id
      /\ st.known = w.strategy.known
  BY <1>1, <1>2, WorldFields DEF Strategies
<1>5. s = [w EXCEPT !.strategy = st]
  BY WorldFields DEF Worlds, Strategies
<1> HIDE DEF st, s, all
<1>6. /\ s \in Worlds /\ s.strategy = st /\ s.max_order_id = w.max_order_id
      /\ s.order_id_to_source = w.order_id_to_source /\ s.requests = w.requests
      /\ s.halted = w.halted
  BY <1>4, <1>5, WorldFields DEF Worlds
<1>7. s.strategy.ready => MaySend(s) /\ mks[0].source = g0
  BY <1>4, <1>6 DEF MaySend, all, by
<1>8. ASSUME NEW x, Moves(s, x)
      PROVE  Moves(w, x)
  BY <1>4, <1>6, <1>8 DEF Moves, Stays, Ends, SendsCreate, SendsModify, SameOrder
<1>9. Moves(s, s)
  BY DEF Moves, Stays, SameOrder
<1>10. CASE d = s
  BY <1>4, <1>6, <1>8, <1>9, <1>10 DEF d, all, by
<1>11. CASE d = spread_update(s, mks)
  <2>1. /\ d \in Worlds /\ Moves(s, d)
        /\ d.strategy.ready = s.strategy.ready
        /\ d.strategy.ready_by_instrument = s.strategy.ready_by_instrument
    BY <1>6, <1>7, <1>11, SpreadUpdate
  <2> QED
    BY <1>4, <1>6, <1>8, <2>1 DEF d, all, by
<1> QED
  BY <1>3, <1>10, <1>11 DEF spread_ready

-----------------------------------------------------------------------------
(***************************************************************************)
(* The invariant after a handler of an event.                              *)
(***************************************************************************)

\* The world a handler starts from: the ids may have been raised.
Raised(w) ==
    /\ w \in Worlds /\ w.strategy = strategy /\ w.requests = requests /\ w.halted = halted
    /\ w.order_id_to_source = order_id_to_source /\ max_order_id <= w.max_order_id
    /\ strategy.order_id = 0 => w.max_order_id \in KnownIds \union {0}

LEMMA StateFields ==
    ASSUME TypeOK
    PROVE  /\ strategy \in Strategies /\ max_order_id \in 0..MaxOrders
           /\ order_id_to_source \in Maps /\ requests \in [Sources -> Seq(Requests)]
           /\ halted \in Outcomes
           /\ strategy.order_id \in 0..MaxOrders /\ strategy.target \in Int
           /\ strategy.known \subseteq Ids /\ strategy.ready \in BOOLEAN
           /\ strategy.ready_by_instrument \in [Index -> BOOLEAN]
BY DEF TypeOK, World, Worlds, Strategies

LEMMA WorldRaised ==
    ASSUME AlgoInv, Running
    PROVE  Raised(World)
BY StateFields DEF AlgoInv, TypeOK, World, Raised, Work, Spare

LEMMA IdsRaised ==
    ASSUME AlgoInv, Running, NEW m \in 0..MaxOrders,
           strategy.order_id = 0 => m \in KnownIds \union {0}
    PROVE  LET w == [World EXCEPT !.max_order_id = Larger(@, m)]
           IN  Raised(w) /\ m <= w.max_order_id
<1> DEFINE n == Larger(max_order_id, m)
           w == [World EXCEPT !.max_order_id = Larger(@, m)]
<1>1. MaxOrders \in Nat /\ max_order_id \in 0..MaxOrders
  BY Constants, StateFields DEF AlgoInv
<1>2. n \in 0..MaxOrders /\ max_order_id <= n /\ m <= n /\ n \in {max_order_id, m}
  BY <1>1 DEF Larger
<1>3. w = [World EXCEPT !.max_order_id = n]
  BY DEF World
<1> HIDE DEF n, w
<1>4. w \in Worlds /\ w.max_order_id = n
  BY <1>2, <1>3 DEF AlgoInv, TypeOK, Worlds
<1>5. /\ w.strategy = strategy /\ w.requests = requests /\ w.halted = halted
      /\ w.order_id_to_source = order_id_to_source
  BY <1>3 DEF World
<1> QED
  BY <1>2, <1>4, <1>5 DEF Raised, AlgoInv, Work, Spare, w

LEMMA ReadyBy ==
    ASSUME NEW gws, NEW mks, NEW g, NEW i \in Index
    PROVE  /\ mks[i].source = g =>
                ready_by_instrument(gws, mks, g)[i] = instrument_ready(gws[g], mks[i])
           /\ mks[i].source # g =>
                ready_by_instrument(gws, mks, g)[i] = strategy.ready_by_instrument[i]
<1>1. ready_by_instrument(gws, mks, g)[i] =
        IF mks[i].source = g THEN instrument_ready(gws[g], mks[i])
        ELSE strategy.ready_by_instrument[i]
  BY Zenon DEF ready_by_instrument
<1> QED
  BY <1>1, Zenon

LEMMA CountedMaySend ==
    ASSUME AlgoInv, Running, NEW w, Raised(w), Counts(w.max_order_id)
    PROVE  MaySend(w)
<1>1. w.strategy.order_id = 0 => w.max_order_id < MaxOrders
  BY Constants, WorldFields DEF Raised, AlgoInv, Work, Spare
<1>2. /\ strategy.order_id \in 0..MaxOrders /\ max_order_id \in 0..MaxOrders
      /\ w.max_order_id \in 0..MaxOrders /\ MaxOrders \in Nat
  BY Constants, StateFields, WorldFields DEF AlgoInv, Raised
<1>3. w.strategy.order_id # 0 => /\ w.strategy.order_id <= w.max_order_id
                                 /\ w.strategy.order_id \in DOMAIN w.order_id_to_source
  BY <1>2 DEF Raised, AlgoInv, Work, Owned
<1> QED
  BY <1>1, <1>3 DEF MaySend, Raised, Running

LEMMA Handles ==
    ASSUME AlgoInv, Running, NEW w, Raised(w),
           NEW gws \in [Sources -> Gateways], NEW mks \in [Index -> Markets], NEW g \in Sources,
           \A h \in Sources \ {g} : gws[h] = gateway[h],
           \A i \in Index : /\ mks[i].source \in {SOURCE_SELF, SourceOf[i]}
                            /\ mks[i].source # g => mks[i] = market[i],
           gws[g0].connected /\ ~gws[g0].downloading /\ gws[g0].md => Counts(w.max_order_id)
    PROVE  LET d == update(w, gws, mks, g) IN
           /\ d \in Worlds /\ Moves(w, d)
           /\ \A i \in Index : d.strategy.ready_by_instrument[i] =
                 (mks[i].source # SOURCE_SELF /\ instrument_ready(gws[mks[i].source], mks[i]))
           /\ d.strategy.ready = \A i \in Index : d.strategy.ready_by_instrument[i]
<1> DEFINE by == ready_by_instrument(gws, mks, g)
<1>1. SOURCE_SELF \notin Sources /\ \A i \in Index : SourceOf[i] \in Sources
  BY Constants
<1>2. ASSUME NEW i \in Index
      PROVE  by[i] = (mks[i].source # SOURCE_SELF /\ instrument_ready(gws[mks[i].source], mks[i]))
  <2>1. CASE mks[i].source = g
    <3>1. by[i] = instrument_ready(gws[g], mks[i])
      BY <2>1, ReadyBy
    <3>2. g # SOURCE_SELF
      BY <1>1
    <3> QED
      BY <2>1, <3>1, <3>2 DEF instrument_ready
  <2>2. CASE mks[i].source # g
    <3>1. by[i] = strategy.ready_by_instrument[i] /\ mks[i] = market[i]
      BY <2>2, ReadyBy
    <3>2. strategy.ready_by_instrument[i] =
            (market[i].source # SOURCE_SELF /\ instrument_ready(gateway[market[i].source], market[i]))
      BY DEF AlgoInv, ReadyIsCurrent
    <3>3. market[i].source # SOURCE_SELF => gws[mks[i].source] = gateway[market[i].source]
      BY <1>1, <2>2, <3>1
    <3> QED
      BY <3>1, <3>2, <3>3
  <2> QED
    BY <2>1, <2>2
<1>3. ASSUME \A i \in Index : by[i]
      PROVE  MaySend(w) /\ mks[0].source = g0
  <2>1. by[0] /\ 0 \in Index
    BY <1>3 DEF Index
  <2>2. mks[0].source = g0
    <3>1. mks[0].source # SOURCE_SELF
      BY <1>2, <2>1
    <3> QED
      BY <2>1, <3>1 DEF g0
  <2>3. Counts(w.max_order_id)
    BY <1>2, <2>1, <2>2 DEF instrument_ready
  <2> QED
    BY <2>2, <2>3, CountedMaySend
<1>4. strategy.ready_by_instrument \in [Index -> BOOLEAN] /\ w \in Worlds
  BY StateFields DEF AlgoInv, Raised
<1> HIDE DEF by
<1>5. LET d == update(w, gws, mks, g) IN
      /\ d \in Worlds /\ Moves(w, d)
      /\ d.strategy.ready_by_instrument = by /\ d.strategy.ready = \A i \in Index : by[i]
  BY <1>3, <1>4, Update DEF by
<1> QED
  BY <1>2, <1>5

\* The step of a handler that leaves the world d and what the gateways have.
Handled(w, d) ==
    /\ AlgoInv /\ Running /\ Raised(w) /\ d \in Worlds /\ Moves(w, d) /\ Leaves(d)
    /\ UNCHANGED <<order, up, refused>> /\ outages' \in Nat /\ outages <= outages'

LEMMA NoRequests ==
    ASSUME AlgoInv, strategy.order_id = 0
    PROVE  /\ \A g \in Sources : requests[g] = << >>
           /\ \A i \in Ids : order[i].status # "working"
<1>1. ASSUME NEW g \in Sources
      PROVE  requests[g] = << >>
  <2> DEFINE q == requests[g]
  <2>1. q \in Seq(Requests)
    BY StateFields DEF AlgoInv
  <2>2. \A k \in DOMAIN q : q[k].id = 0
    BY DEF AlgoInv, Work, Asked
  <2> HIDE DEF q
  <2>3. \A k \in DOMAIN q : q[k] \in Requests
    BY <2>1
  <2>4. \A r \in Requests : r.id # 0
    BY DEF Requests, Ids
  <2>5. DOMAIN q = {}
    BY <2>2, <2>3, <2>4
  <2>6. q = << >>
    BY <2>1, <2>5
  <2> QED
    BY <2>6 DEF q
<1>2. \A i \in Ids : order[i].status # "working"
  BY DEF AlgoInv, Work, Owned, Ids
<1> QED
  BY <1>1, <1>2

\* The numbers of a step, and how the request queues change.
LEMMA HandledFields ==
    ASSUME NEW w, NEW d, Handled(w, d)
    PROVE  /\ TypeOK /\ strategy' = d.strategy /\ max_order_id' = d.max_order_id
           /\ order_id_to_source' = d.order_id_to_source /\ requests' = d.requests
           /\ halted' = d.halted /\ World' \in Worlds
           /\ order' = order /\ KnownIds' = KnownIds /\ up' = up /\ refused' = refused
           /\ max_order_id <= w.max_order_id /\ w.max_order_id <= max_order_id'
           /\ max_order_id' \in 0..MaxOrders /\ w.max_order_id \in 0..MaxOrders
           /\ strategy'.order_id # strategy.order_id => strategy.order_id = 0
<1>1. /\ strategy' = d.strategy /\ max_order_id' = d.max_order_id
      /\ order_id_to_source' = d.order_id_to_source /\ requests' = d.requests
      /\ halted' = d.halted
  BY DEF Handled, Leaves
<1>2. World' \in Worlds
  BY <1>1, WorldFields DEF Handled, World, Worlds
<1>3. order' = order /\ up' = up /\ refused' = refused /\ KnownIds' = KnownIds
  BY DEF Handled, KnownIds
<1>4. /\ w.max_order_id \in 0..MaxOrders /\ d.max_order_id \in 0..MaxOrders
      /\ max_order_id <= w.max_order_id /\ MaxOrders \in Nat
  BY Constants, WorldFields DEF Handled, Raised
<1>5. w.max_order_id <= d.max_order_id
  BY <1>4 DEF Handled, Moves, Stays, Ends, SendsCreate, SendsModify
<1>6. strategy'.order_id # strategy.order_id => strategy.order_id = 0
  BY <1>1 DEF Handled, Moves, Stays, Ends, SendsCreate, SendsModify, SameOrder, Raised
<1> QED
  BY <1>1, <1>2, <1>3, <1>4, <1>5, <1>6 DEF Handled, AlgoInv

\* Requests only grow by one at the end.
LEMMA Grown ==
    ASSUME NEW w, NEW d, Handled(w, d), requests' # requests
    PROVE  \E r \in Requests :
           /\ requests' = [requests EXCEPT ![g0] = Append(@, r)]
           /\ requests'[g0] = Append(requests[g0], r)
           /\ \A g \in Sources \ {g0} : requests'[g] = requests[g]
           /\ Len(requests'[g0]) = Len(requests[g0]) + 1
           /\ requests'[g0][Len(requests[g0]) + 1] = r
           /\ \A k \in DOMAIN requests[g0] : requests'[g0][k] = requests[g0][k]
           /\ DOMAIN requests'[g0] = DOMAIN requests[g0] \union {Len(requests[g0]) + 1}
           /\ r.price = strategy'.target /\ r.id = strategy'.order_id
           /\ \/ SendsCreate(w, d) /\ r.kind = "create"
              \/ SendsModify(w, d) /\ r.kind = "modify"
<1> USE HandledFields
<1>1. w.requests = requests /\ w.strategy = strategy /\ requests \in [Sources -> Seq(Requests)]
      /\ strategy.order_id \in 0..MaxOrders /\ d.strategy.target \in Int
  BY StateFields, WorldFields DEF Handled, Raised
<1>2. PICK r \in Requests :
           /\ requests' = [requests EXCEPT ![g0] = Append(@, r)]
           /\ r.price = strategy'.target /\ r.id = strategy'.order_id
           /\ \/ SendsCreate(w, d) /\ r.kind = "create"
              \/ SendsModify(w, d) /\ r.kind = "modify"
  <2>1. SendsCreate(w, d) \/ SendsModify(w, d)
    BY <1>1 DEF Handled, Moves, Stays, Ends
  <2>2. CASE SendsCreate(w, d)
    <3> DEFINE r == Request("create", w.max_order_id + 1, d.strategy.target)
    <3>1. r \in Requests
      BY <1>1, <2>2 DEF SendsCreate, Requests, Request
    <3>2. /\ r.price = strategy'.target /\ r.id = strategy'.order_id /\ r.kind = "create"
      BY <1>1, <2>2 DEF SendsCreate, Request
    <3>3. requests' = [requests EXCEPT ![g0] = Append(@, r)]
      BY <1>1, <2>2 DEF SendsCreate
    <3> HIDE DEF r
    <3> QED
      BY <2>2, <3>1, <3>2, <3>3
  <2>3. CASE SendsModify(w, d)
    <3> DEFINE r == Request("modify", w.strategy.order_id, d.strategy.target)
    <3>1. r \in Requests
      BY <1>1, <2>3, Constants DEF SendsModify, Requests, Request
    <3>2. /\ r.price = strategy'.target /\ r.id = strategy'.order_id /\ r.kind = "modify"
      BY <1>1, <2>3 DEF SendsModify, SameOrder, Request
    <3>3. requests' = [requests EXCEPT ![g0] = Append(@, r)]
      BY <1>1, <2>3 DEF SendsModify
    <3> HIDE DEF r
    <3> QED
      BY <2>3, <3>1, <3>2, <3>3
  <2> QED
    BY <2>1, <2>2, <2>3
<1>3. /\ requests'[g0] = Append(requests[g0], r) /\ requests[g0] \in Seq(Requests)
      /\ \A g \in Sources \ {g0} : requests'[g] = requests[g]
  BY <1>1, <1>2, Constants
<1>4. /\ Len(requests'[g0]) = Len(requests[g0]) + 1
      /\ requests'[g0][Len(requests[g0]) + 1] = r
      /\ \A k \in DOMAIN requests[g0] : requests'[g0][k] = requests[g0][k]
      /\ DOMAIN requests'[g0] = DOMAIN requests[g0] \union {Len(requests[g0]) + 1}
  BY <1>3
<1> QED
  BY <1>2, <1>3, <1>4

\* Whatever a handler does, the requests stay those of one order.
LEMMA WorkKept ==
    ASSUME NEW w, NEW d, Handled(w, d)
    PROVE  Work'
<1>1. /\ TypeOK /\ strategy' = d.strategy /\ max_order_id' = d.max_order_id
      /\ order_id_to_source' = d.order_id_to_source /\ requests' = d.requests
      /\ halted' = d.halted /\ World' \in Worlds
      /\ order' = order /\ KnownIds' = KnownIds /\ up' = up /\ refused' = refused
      /\ max_order_id <= w.max_order_id /\ w.max_order_id <= max_order_id'
      /\ max_order_id' \in 0..MaxOrders /\ w.max_order_id \in 0..MaxOrders
      /\ strategy'.order_id # strategy.order_id => strategy.order_id = 0
  BY HandledFields
<1>2. /\ w.strategy = strategy /\ w.requests = requests /\ w.halted = halted
      /\ w.order_id_to_source = order_id_to_source /\ halted = "no"
      /\ strategy.order_id = 0 => w.max_order_id \in KnownIds \union {0}
  BY DEF Handled, Raised, Running
<1>3. AlgoInv /\ Work /\ Moves(w, d) /\ outages \in Nat /\ outages' \in Nat /\ outages <= outages'
  BY <1>1 DEF Handled, AlgoInv, TypeOK
<1>4. /\ MaxOrders \in Nat /\ Ids = 1..MaxOrders /\ g0 \in Sources
      /\ max_order_id \in 0..MaxOrders /\ strategy.order_id \in 0..MaxOrders
      /\ requests \in [Sources -> Seq(Requests)] /\ requests[g0] \in Seq(Requests)
      /\ Len(requests[g0]) \in Nat
  <2>1. requests \in [Sources -> Seq(Requests)] /\ g0 \in Sources
    BY <1>1, Constants, StateFields
  <2>2. requests[g0] \in Seq(Requests)
    BY <2>1
  <2> QED
    BY <1>1, <2>1, <2>2, Constants, StateFields
<1>5. Spare'
  <2> SUFFICES ASSUME halted' = "no", strategy'.order_id = 0
               PROVE  MaxOrders \notin KnownIds /\ max_order_id' \in KnownIds \union {0}
    BY <1>1 DEF Spare, Running
  <2>1. ~Ends(w, d) /\ ~SendsCreate(w, d)
    BY <1>1, <1>4 DEF Ends, SendsCreate
  <2>2. strategy.order_id = 0 /\ max_order_id' = w.max_order_id
    BY <1>1, <1>2, <1>3, <2>1 DEF Moves, Stays, SendsModify, SameOrder
  <2> QED
    BY <1>2, <1>3, <2>2 DEF Work, Spare, Running
<1>6. CASE requests' = requests
  <2>1. ~SendsCreate(w, d) /\ ~SendsModify(w, d)
    <3>1. \A r : Append(requests[g0], r) # requests[g0]
      BY <1>4
    <3>2. \A r : [requests EXCEPT ![g0] = Append(@, r)][g0] = Append(requests[g0], r)
      BY <1>4
    <3> QED
      BY <1>1, <1>2, <1>6, <3>1, <3>2 DEF SendsCreate, SendsModify
  <2>2. /\ strategy'.order_id = strategy.order_id /\ strategy'.known = strategy.known
        /\ DOMAIN order_id_to_source \subseteq DOMAIN order_id_to_source'
        /\ halted' = "no" => strategy'.target = strategy.target
    BY <1>1, <1>2, <1>3, <2>1 DEF Moves, Stays, Ends, SameOrder
  <2>3. Asked'
    BY <1>1, <1>3, <1>6, <2>2 DEF Work, Asked, Creates
  <2>4. Owned'
    BY <1>1, <1>3, <1>4, <2>2 DEF Work, Owned
  <2>5. Placed'
    BY <1>1, <1>3, <1>6, <2>2 DEF Work, Placed, Creates
  <2>6. Targeted'
    BY <1>1, <1>2, <1>3, <1>6, <2>2 DEF Work, Targeted, Running
  <2> QED
    BY <1>5, <2>3, <2>4, <2>5, <2>6 DEF Work
<1>7. CASE requests' # requests
  <2> DEFINE n == Len(requests[g0])
  <2>1. PICK r \in Requests :
           /\ requests' = [requests EXCEPT ![g0] = Append(@, r)]
           /\ requests'[g0] = Append(requests[g0], r)
           /\ \A g \in Sources \ {g0} : requests'[g] = requests[g]
           /\ Len(requests'[g0]) = Len(requests[g0]) + 1
           /\ requests'[g0][Len(requests[g0]) + 1] = r
           /\ \A k \in DOMAIN requests[g0] : requests'[g0][k] = requests[g0][k]
           /\ DOMAIN requests'[g0] = DOMAIN requests[g0] \union {Len(requests[g0]) + 1}
           /\ r.price = strategy'.target /\ r.id = strategy'.order_id
           /\ \/ SendsCreate(w, d) /\ r.kind = "create"
              \/ SendsModify(w, d) /\ r.kind = "modify"
    BY <1>7, Grown
  <2>2. n \in Nat /\ DOMAIN requests[g0] = 1..n
    BY <1>4
  <2>3. Targeted'
    <3>1. requests'[g0] # << >>
      BY <1>4, <2>1
    <3>2. requests'[g0][Len(requests'[g0])].price = strategy'.target
      BY <2>1
    <3> QED
      BY <3>1, <3>2 DEF Targeted
  <2>4. CASE SendsCreate(w, d)
    <3>1. /\ strategy.order_id = 0 /\ strategy'.order_id = w.max_order_id + 1
          /\ max_order_id' = w.max_order_id + 1 /\ strategy'.order_id \in Ids
          /\ strategy'.order_id \in strategy'.known
          /\ strategy'.order_id \in DOMAIN order_id_to_source' /\ Counts(w.max_order_id)
      BY <1>1, <1>2, <2>4 DEF SendsCreate
    <3>2. order[strategy'.order_id].status = "none"
      BY <1>4, <3>1, <1>1 DEF Counts, KnownIds
    <3>3. /\ \A g \in Sources : requests[g] = << >>
          /\ \A i \in Ids : order[i].status # "working"
      BY <1>3, <3>1, NoRequests
    <3>4. n = 0 /\ DOMAIN requests'[g0] = {1} /\ requests'[g0][1] = r
      BY <1>4, <2>1, <3>3
    <3>5. r.kind = "create"
      BY <1>4, <2>1, <3>1, <1>2 DEF SendsModify
    <3>6. Asked'
      <4>1. ASSUME NEW g \in Sources, NEW k \in DOMAIN requests'[g]
            PROVE  /\ g = g0 /\ requests'[g][k].id = strategy'.order_id
                   /\ requests'[g][k].kind = "create" => order'[requests'[g][k].id].status = "none"
        <5>1. g = g0
          BY <2>1, <3>3
        <5> QED
          BY <1>1, <2>1, <3>2, <3>4, <5>1
      <4>2. \A k, l \in Creates(g0)' : k = l
        BY <3>4 DEF Creates
      <4> QED
        BY <4>1, <4>2 DEF Asked
    <3>7. Owned'
      BY <1>1, <1>4, <3>1, <3>3 DEF Owned
    <3>8. Placed'
      <4>1. 1 \in Creates(g0)'
        BY <3>4, <3>5 DEF Creates
      <4>2. \A k \in DOMAIN requests'[g0] : requests'[g0][k].kind # "modify"
        BY <3>4, <3>5
      <4> QED
        BY <4>1, <4>2 DEF Placed
    <3> QED
      BY <1>5, <2>3, <3>6, <3>7, <3>8 DEF Work
  <2>5. CASE SendsModify(w, d) /\ r.kind = "modify"
    <3>1. /\ strategy.order_id # 0 /\ strategy'.order_id = strategy.order_id
          /\ strategy'.known = strategy.known
          /\ DOMAIN order_id_to_source \subseteq DOMAIN order_id_to_source'
      BY <1>1, <1>2, <2>5 DEF SendsModify, SameOrder
    <3>2. Creates(g0)' = Creates(g0)
      BY <2>1, <2>2, <2>5 DEF Creates
    <3>3. Asked'
      <4>1. ASSUME NEW g \in Sources, NEW k \in DOMAIN requests'[g]
            PROVE  /\ g = g0 /\ requests'[g][k].id = strategy'.order_id
                   /\ requests'[g][k].kind = "create" => order'[requests'[g][k].id].status = "none"
        <5>1. CASE k \in DOMAIN requests[g]
          <6>1. requests'[g][k] = requests[g][k]
            BY <2>1, <5>1
          <6> QED
            BY <1>1, <1>3, <3>1, <5>1, <6>1 DEF Work, Asked
        <5>2. CASE k \notin DOMAIN requests[g]
          <6>1. g = g0 /\ requests'[g][k] = r
            BY <2>1, <5>2
          <6> QED
            BY <2>1, <2>5, <6>1
        <5> QED
          BY <5>1, <5>2
      <4> QED
        BY <1>3, <3>2, <4>1 DEF Asked, Work
    <3>4. Owned'
      BY <1>1, <1>3, <1>4, <3>1 DEF Work, Owned
    <3>5. Placed'
      <4> SUFFICES ASSUME outages' = 0
                   PROVE  /\ strategy.order_id \in KnownIds \/ Creates(g0) # {}
                          /\ \A k \in DOMAIN requests'[g0] : requests'[g0][k].kind = "modify" =>
                              \/ strategy.order_id \in KnownIds
                              \/ \E m \in 1..(k - 1) : m \in Creates(g0)
        BY <1>1, <3>1, <3>2 DEF Placed
      <4>1. outages = 0
        BY <1>3
      <4>2. strategy.order_id \in KnownIds \/ Creates(g0) # {}
        BY <1>3, <3>1, <4>1 DEF Work, Placed
      <4>3. ASSUME NEW k \in DOMAIN requests'[g0], requests'[g0][k].kind = "modify"
            PROVE  \/ strategy.order_id \in KnownIds
                   \/ \E m \in 1..(k - 1) : m \in Creates(g0)
        <5>1. CASE k \in DOMAIN requests[g0]
          <6>1. requests'[g0][k] = requests[g0][k]
            BY <2>1, <5>1
          <6> QED
            BY <1>3, <4>1, <4>3, <5>1, <6>1 DEF Work, Placed
        <5>2. CASE k = n + 1
          <6>1. Creates(g0) \subseteq 1..n
            BY <2>2 DEF Creates
          <6> QED
            BY <2>2, <4>2, <5>2, <6>1
        <5> QED
          BY <2>1, <5>1, <5>2
      <4> QED
        BY <4>2, <4>3
    <3> QED
      BY <1>5, <2>3, <3>3, <3>4, <3>5 DEF Work
  <2> QED
    BY <2>1, <2>4, <2>5
<1> QED
  BY <1>6, <1>7

\* A handler takes events and adds none.
LEMMA EventsKept ==
    ASSUME NEW w, NEW d, Handled(w, d),
           \A g \in Sources : \A k \in DOMAIN inbox'[g] :
               \E l \in DOMAIN inbox[g] : inbox'[g][k] = inbox[g][l]
    PROVE  Ending' /\ Highs' /\ \A g \in Sources : Reported(g)'
<1>1. /\ KnownIds' = KnownIds /\ max_order_id <= w.max_order_id
      /\ w.max_order_id <= max_order_id' /\ max_order_id' \in 0..MaxOrders
      /\ w.max_order_id \in 0..MaxOrders /\ max_order_id \in 0..MaxOrders
      /\ strategy'.order_id # strategy.order_id => strategy.order_id = 0
      /\ MaxOrders \in Nat /\ KnownIds \subseteq 1..MaxOrders
      /\ inbox \in [Sources -> Seq(Events)] /\ g0 \in Sources
  BY HandledFields, StateFields, Constants DEF KnownIds, TypeOK
<1>2. Wire
  BY DEF Handled, AlgoInv
<1>3. Highs'
  BY <1>1, <1>2 DEF Wire, Highs, Counts
<1>4. ASSUME NEW k \in DOMAIN inbox'[g0], inbox'[g0][k].event = "download_end",
             NEW i \in KnownIds
      PROVE  i <= max_order_id' \/ i <= inbox'[g0][k].max_order_id
  <2>1. PICK l \in DOMAIN inbox[g0] : inbox'[g0][k] = inbox[g0][l]
    BY <1>1
  <2>2. i <= max_order_id \/ i <= inbox[g0][l].max_order_id
    BY <1>2, <1>4, <2>1 DEF Wire, Ending
  <2>3. i \in Int
    BY <1>1
  <2> QED
    BY <1>1, <2>1, <2>2, <2>3
<1>5. Ending'
  BY <1>1, <1>4 DEF Ending
<1>6. ASSUME NEW g \in Sources, NEW k \in DOMAIN inbox'[g]
      PROVE  /\ inbox'[g][k].event = "order" =>
                    inbox'[g][k].id \in KnownIds \union {strategy'.order_id}
             /\ inbox'[g][k].event = "download_end" =>
                    inbox'[g][k].max_order_id \in KnownIds \union {0}
  <2>1. PICK l \in DOMAIN inbox[g] : inbox'[g][k] = inbox[g][l]
    OBVIOUS
  <2> DEFINE e == inbox[g][l]
  <2>2. /\ e.event = "order" => e.id \in KnownIds \union {strategy.order_id}
        /\ e.event = "download_end" => e.max_order_id \in KnownIds \union {0}
    BY <1>2 DEF Wire, Reported
  <2>3. e \in Events
    BY <1>1
  <2> HIDE DEF e
  <2>4. e.event = "order" => e.id \in Ids
    BY <2>3 DEF Events
  <2>5. 0 \notin Ids
    BY DEF Ids
  <2>6. e.event = "order" => e.id \in KnownIds \union {strategy'.order_id}
    BY <1>1, <2>2, <2>4, <2>5
  <2> QED
    BY <2>1, <2>2, <2>6 DEF e
<1>7. \A g \in Sources : Reported(g)'
  BY <1>1, <1>6 DEF Reported
<1> QED
  BY <1>3, <1>5, <1>7

\* The ids of the create requests under way.
Sent(rq) == {r.id : r \in UNION {{rq[g][n] : n \in {k \in DOMAIN rq[g] :
                                    rq[g][k].kind = "create"}} : g \in Sources}}

\* The orders that rest or can still come to rest.
Live == Sent(requests) \union {i \in Ids : order[i].status = "working"}

\* Ids are never forgotten, and an order comes to life only when no other one is alive
\* and with an id above all that are known.
Advances ==
    /\ KnownIds \subseteq KnownIds' /\ max_order_id <= max_order_id'
    /\ \/ Live' \subseteq Live
       \/ /\ Live = {} /\ Live' = {max_order_id'} /\ max_order_id < max_order_id'
          /\ \A i \in KnownIds : i < max_order_id'

LEMMA SentIs ==
    ASSUME NEW rq, NEW x
    PROVE  x \in Sent(rq) <=> \E g \in Sources : \E k \in DOMAIN rq[g] :
                                  rq[g][k].kind = "create" /\ rq[g][k].id = x
BY DEF Sent

LEMMA HandledAdvances ==
    ASSUME NEW w, NEW d, Handled(w, d)
    PROVE  Advances
<1>1. /\ order' = order /\ KnownIds' = KnownIds /\ max_order_id <= w.max_order_id
      /\ w.max_order_id <= max_order_id' /\ max_order_id' \in 0..MaxOrders
      /\ w.max_order_id \in 0..MaxOrders /\ max_order_id \in 0..MaxOrders
      /\ MaxOrders \in Nat /\ g0 \in Sources /\ requests \in [Sources -> Seq(Requests)]
  BY HandledFields, StateFields, Constants
<1>2. max_order_id <= max_order_id'
  BY <1>1
<1>3. CASE requests' = requests
  BY <1>1, <1>2, <1>3 DEF Advances, Live
<1>4. CASE requests' # requests
  <2>1. PICK r \in Requests :
           /\ \A g \in Sources \ {g0} : requests'[g] = requests[g]
           /\ requests'[g0][Len(requests[g0]) + 1] = r
           /\ \A k \in DOMAIN requests[g0] : requests'[g0][k] = requests[g0][k]
           /\ DOMAIN requests'[g0] = DOMAIN requests[g0] \union {Len(requests[g0]) + 1}
           /\ r.id = strategy'.order_id
           /\ \/ SendsCreate(w, d) /\ r.kind = "create"
              \/ SendsModify(w, d) /\ r.kind = "modify"
    BY <1>4, Grown
  <2>2. CASE SendsModify(w, d) /\ r.kind = "modify"
    <3>1. ASSUME NEW x \in Sent(requests')
          PROVE  x \in Sent(requests)
      <4>0. PICK g \in Sources : \E k \in DOMAIN requests'[g] :
               requests'[g][k].kind = "create" /\ requests'[g][k].id = x
        BY <3>1, SentIs
      <4>1. PICK k \in DOMAIN requests'[g] :
               requests'[g][k].kind = "create" /\ requests'[g][k].id = x
        BY <4>0
      <4>2. k \in DOMAIN requests[g] /\ requests'[g][k] = requests[g][k]
        BY <2>1, <2>2, <4>1
      <4> QED
        BY <4>1, <4>2, SentIs
    <3>2. Live' \subseteq Live
      BY <1>1, <3>1 DEF Live
    <3> QED
      BY <1>1, <1>2, <3>2 DEF Advances
  <2>3. CASE SendsCreate(w, d) /\ r.kind = "create"
    <3>1. /\ w.strategy = strategy /\ AlgoInv /\ strategy' = d.strategy
          /\ max_order_id' = d.max_order_id
      BY HandledFields DEF Handled, Raised
    <3>2. /\ strategy.order_id = 0 /\ Counts(w.max_order_id)
          /\ max_order_id' = w.max_order_id + 1 /\ strategy'.order_id = max_order_id'
      BY <2>3, <3>1 DEF SendsCreate
    <3>3. /\ \A g \in Sources : requests[g] = << >>
          /\ \A i \in Ids : order[i].status # "working"
      BY <3>1, <3>2, NoRequests
    <3>4. Live = {}
      <4>1. \A x : x \notin Sent(requests)
        BY <3>3, SentIs
      <4> QED
        BY <3>3, <4>1 DEF Live
    <3>5. Sent(requests') = {max_order_id'}
      <4>1. ASSUME NEW x
            PROVE  x \in Sent(requests') <=> x = max_order_id'
        <5>1. ASSUME x \in Sent(requests')
              PROVE  x = max_order_id'
          <6>0. PICK g \in Sources : \E k \in DOMAIN requests'[g] :
                   requests'[g][k].kind = "create" /\ requests'[g][k].id = x
            BY <5>1, SentIs
          <6>1. PICK k \in DOMAIN requests'[g] :
                   requests'[g][k].kind = "create" /\ requests'[g][k].id = x
            BY <6>0
          <6>2. requests'[g][k] = r
            BY <2>1, <3>3, <6>1
          <6> QED
            BY <2>1, <3>2, <6>1, <6>2
        <5>2. max_order_id' \in Sent(requests')
          BY <1>1, <2>1, <2>3, <3>2, SentIs
        <5> QED
          BY <5>1, <5>2
      <4> QED
        BY <4>1
    <3>6. Live' = {max_order_id'}
      BY <1>1, <3>3, <3>5 DEF Live
    <3>7. max_order_id < max_order_id' /\ \A i \in KnownIds : i < max_order_id'
      <4>1. \A i \in KnownIds : i \in Int /\ i <= w.max_order_id
        BY <3>2 DEF Counts, KnownIds, Ids
      <4> QED
        BY <1>1, <3>2, <4>1
    <3> QED
      BY <1>1, <1>2, <3>4, <3>6, <3>7 DEF Advances
  <2> QED
    BY <2>1, <2>2, <2>3
<1> QED
  BY <1>3, <1>4

\* The ids that are counted stay counted.
LEMMA CountsKept ==
    ASSUME NEW w, NEW d, Handled(w, d), Counts(w.max_order_id)
    PROVE  Counts(max_order_id)'
<1>1. /\ KnownIds' = KnownIds /\ w.max_order_id <= max_order_id'
      /\ max_order_id' \in 0..MaxOrders /\ w.max_order_id \in 0..MaxOrders
      /\ MaxOrders \in Nat /\ KnownIds \subseteq 1..MaxOrders
  BY HandledFields, Constants DEF KnownIds
<1> QED
  BY <1>1 DEF Counts

\* What all events of a gateway keep; the shape of the gateway's stream is left to
\* the event.
LEMMA GatewayStep ==
    ASSUME AlgoInv, Running, NEW w, Raised(w), NEW g \in Sources, NEW gw \in Gateways,
           GatewayEvent(g, gw, w), outages' \in Nat, outages <= outages',
           inbox' \in [Sources -> Seq(Events)],
           \A h \in Sources : \A k \in DOMAIN inbox'[h] :
               \E l \in DOMAIN inbox[h] : inbox'[h][k] = inbox[h][l],
           LET gws == [gateway EXCEPT ![g] = gw]
           IN  gws[g0].connected /\ ~gws[g0].downloading /\ gws[g0].md => Counts(w.max_order_id),
           \A h \in Sources : Shape(h)',
           ~Counts(w.max_order_id) => Synced'
    PROVE  AlgoInv' /\ Advances
<1> DEFINE gws == [gateway EXCEPT ![g] = gw]
           d == update(w, gws, market, g)
<1>1. TypeOK /\ Discovered /\ ReadyIsCurrent
  BY DEF AlgoInv
<1>2. gws \in [Sources -> Gateways] /\ \A h \in Sources \ {g} : gws[h] = gateway[h]
  BY <1>1 DEF TypeOK
<1>3. \A i \in Index : market[i].source \in {SOURCE_SELF, SourceOf[i]}
  BY <1>1 DEF Discovered
<1>4. gateway' = gws /\ market' = market /\ Leaves(d) /\ UNCHANGED <<order, up, refused>>
  BY DEF GatewayEvent
<1>5. market \in [Index -> Markets]
  BY <1>1 DEF TypeOK
<1>6. gws[g0].connected /\ ~gws[g0].downloading /\ gws[g0].md => Counts(w.max_order_id)
  OBVIOUS
<1> HIDE DEF gws
<1>7. /\ d \in Worlds /\ Moves(w, d)
      /\ \A i \in Index : d.strategy.ready_by_instrument[i] =
            (market[i].source # SOURCE_SELF /\ instrument_ready(gws[market[i].source], market[i]))
      /\ d.strategy.ready = \A i \in Index : d.strategy.ready_by_instrument[i]
  BY <1>2, <1>3, <1>5, <1>6, Handles
<1> HIDE DEF d
<1>8. Handled(w, d)
  BY <1>4, <1>7 DEF Handled
<1>9. World' \in Worlds /\ strategy' = d.strategy /\ KnownIds' = KnownIds
  BY <1>8, HandledFields
<1>10. TypeOK'
  BY <1>1, <1>2, <1>4, <1>9 DEF TypeOK
<1>11. Discovered' /\ ReadyIsCurrent'
  BY <1>1, <1>4, <1>7, <1>9 DEF Discovered, ReadyIsCurrent
<1>12. Work'
  BY <1>8, WorkKept
<1>13. Ending' /\ Highs' /\ \A h \in Sources : Reported(h)'
  BY <1>8, EventsKept
<1>14. Synced'
  <2>1. CASE Counts(w.max_order_id)
    BY <1>8, <2>1, CountsKept DEF Synced
  <2> QED
    BY <2>1
<1>15. Advances
  BY <1>8, HandledAdvances
<1> QED
  BY <1>10, <1>11, <1>12, <1>13, <1>14, <1>15 DEF AlgoInv, Wire

-----------------------------------------------------------------------------
(***************************************************************************)
(* The events of a gateway.                                                *)
(***************************************************************************)

LEMMA Consumed ==
    ASSUME TypeOK, NEW g \in Sources, inbox[g] # << >>, Consume(g)
    PROVE  /\ inbox' \in [Sources -> Seq(Events)] /\ inbox[g] \in Seq(Events)
           /\ Len(inbox[g]) \in Nat /\ Len(inbox[g]) >= 1 /\ DOMAIN inbox[g] = 1..Len(inbox[g])
           /\ Head(inbox[g]) = inbox[g][1] /\ Head(inbox[g]) \in Events
           /\ \A h \in Sources \ {g} : inbox'[h] = inbox[h]
           /\ inbox'[g] = Tail(inbox[g]) /\ DOMAIN inbox'[g] = 1..(Len(inbox[g]) - 1)
           /\ \A k \in DOMAIN inbox'[g] :
                  k + 1 \in DOMAIN inbox[g] /\ inbox'[g][k] = inbox[g][k + 1]
           /\ \A h \in Sources : \A k \in DOMAIN inbox'[h] :
                  \E l \in DOMAIN inbox[h] : inbox'[h][k] = inbox[h][l]
<1> DEFINE q == inbox[g]
<1>1. inbox \in [Sources -> Seq(Events)] /\ q \in Seq(Events) /\ q # << >>
  BY DEF TypeOK
<1>2. inbox' = [inbox EXCEPT ![g] = Tail(q)]
  BY DEF Consume
<1> HIDE DEF q
<1>3. /\ Tail(q) \in Seq(Events) /\ Len(q) \in Nat /\ Len(q) >= 1 /\ DOMAIN q = 1..Len(q)
      /\ Head(q) = q[1] /\ Head(q) \in Events /\ DOMAIN Tail(q) = 1..(Len(q) - 1)
      /\ \A k \in 1..(Len(q) - 1) : Tail(q)[k] = q[k + 1]
  BY <1>1
<1>4. inbox' \in [Sources -> Seq(Events)] /\ inbox'[g] = Tail(q)
      /\ \A h \in Sources \ {g} : inbox'[h] = inbox[h]
  BY <1>1, <1>2, <1>3
<1>5. \A k \in DOMAIN inbox'[g] : k + 1 \in DOMAIN q /\ inbox'[g][k] = q[k + 1]
  BY <1>3, <1>4
<1>6. ASSUME NEW h \in Sources, NEW k \in DOMAIN inbox'[h]
      PROVE  \E l \in DOMAIN inbox[h] : inbox'[h][k] = inbox[h][l]
  <2>1. CASE h = g
    BY <1>5, <2>1 DEF q
  <2>2. CASE h # g
    BY <1>4, <2>2
  <2> QED
    BY <2>1, <2>2
<1> QED
  BY <1>1, <1>3, <1>4, <1>5, <1>6 DEF q

\* The streams of the other gateways keep their shape.
LEMMA ShapeOther ==
    ASSUME AlgoInv, NEW h \in Sources, gateway'[h] = gateway[h], inbox'[h] = inbox[h],
           h \in up' <=> h \in up
    PROVE  Shape(h)'
<1>1. Shape(h)
  BY DEF AlgoInv, Wire
<1> QED
  BY <1>1 DEF Shape

\* What is not counted by the raised ids was not counted before.
LEMMA NotCounted ==
    ASSUME AlgoInv, NEW w, Raised(w), Counts(max_order_id)
    PROVE  Counts(w.max_order_id)
<1>1. /\ max_order_id \in 0..MaxOrders /\ w.max_order_id \in 0..MaxOrders
      /\ max_order_id <= w.max_order_id /\ MaxOrders \in Nat /\ KnownIds \subseteq 1..MaxOrders
  BY StateFields, WorldFields, Constants DEF AlgoInv, Raised, KnownIds
<1> QED
  BY <1>1 DEF Counts

LEMMA SyncedOther ==
    ASSUME AlgoInv, NEW w, Raised(w), ~Counts(w.max_order_id), gateway'[g0] = gateway[g0],
           inbox'[g0] = inbox[g0], up' = up
    PROVE  Synced'
<1>1. ~Counts(max_order_id)
  BY NotCounted
<1> QED
  BY <1>1 DEF AlgoInv, Wire, Synced

\* A connection is new, or the event is the last one.
LEMMA EventShape ==
    ASSUME AlgoInv, NEW g \in Sources, inbox[g] # << >>, Head(inbox[g]).event # "disconnected"
    PROVE  g \in up
<1>1. Shape(g) /\ inbox[g] \in Seq(Events)
  BY DEF AlgoInv, Wire, TypeOK
<1>2. Head(<<[event |-> "disconnected"]>>).event = "disconnected"
  OBVIOUS
<1> QED
  BY <1>1, <1>2 DEF Shape

\* The shape of a stream after an event that starts nothing.
LEMMA ShapeTail ==
    ASSUME AlgoInv, NEW g \in Sources, inbox[g] # << >>, Consume(g), up' = up,
           Head(inbox[g]).event \notin {"connected", "disconnected"},
           ~gateway'[g].connected => gateway'[g] = NewGateway
    PROVE  Shape(g)' /\ \A k \in DOMAIN inbox'[g] : inbox'[g][k].event # "download_begin"
<1>1. /\ DOMAIN inbox[g] = 1..Len(inbox[g]) /\ Len(inbox[g]) \in Nat
      /\ Head(inbox[g]) = inbox[g][1] /\ DOMAIN inbox'[g] = 1..(Len(inbox[g]) - 1)
      /\ \A k \in DOMAIN inbox'[g] : k + 1 \in DOMAIN inbox[g] /\ inbox'[g][k] = inbox[g][k + 1]
  BY Consumed DEF AlgoInv
<1>2. Shape(g) /\ g \in up
  BY EventShape DEF AlgoInv, Wire
<1>3. ASSUME NEW k \in DOMAIN inbox'[g]
      PROVE  inbox'[g][k].event \notin {"disconnected", "connected", "download_begin"}
  <2>1. k \in Nat /\ k >= 1 /\ k + 1 \in DOMAIN inbox[g] /\ inbox'[g][k] = inbox[g][k + 1]
    BY <1>1
  <2> DEFINE q == inbox[g]
  <2>2. /\ q[k + 1].event = "disconnected" => g \notin up
        /\ q[k + 1].event = "connected" => k + 1 = 1
        /\ q[k + 1].event = "download_begin" => k + 1 = 1 \/ q[1].event = "connected"
    BY <1>2, <2>1 DEF Shape
  <2> QED
    BY <1>1, <1>2, <2>1, <2>2
<1> QED
  BY <1>2, <1>3 DEF Shape

LEMMA ConnectedStep ==
    ASSUME AlgoInv, NEW g \in Sources, Connected(g)
    PROVE  AlgoInv' /\ Advances
<1> DEFINE gw == [gateway[g] EXCEPT !.connected = TRUE]
           q == inbox[g]
<1>1. /\ Running /\ q # << >> /\ Head(q).event = "connected" /\ Consume(g)
      /\ outages' = outages /\ GatewayEvent(g, gw, World) /\ up' = up
  BY DEF Connected, Next1, GatewayEvent
<1>2. /\ DOMAIN q = 1..Len(q) /\ Len(q) \in Nat /\ Len(q) >= 1
      /\ Head(q) = q[1] /\ DOMAIN inbox'[g] = 1..(Len(q) - 1)
      /\ \A k \in DOMAIN inbox'[g] : k + 1 \in DOMAIN q /\ inbox'[g][k] = q[k + 1]
      /\ inbox' \in [Sources -> Seq(Events)]
      /\ \A h \in Sources \ {g} : inbox'[h] = inbox[h]
      /\ \A h \in Sources : \A k \in DOMAIN inbox'[h] :
                  \E l \in DOMAIN inbox[h] : inbox'[h][k] = inbox[h][l]
  BY <1>1, Consumed DEF AlgoInv
<1>3. g \in up /\ Shape(g) /\ Raised(World)
  BY <1>1, EventShape, WorldRaised DEF AlgoInv, Wire
<1>4. gateway \in [Sources -> Gateways] /\ gateway[g] = NewGateway /\ outages \in Nat
      /\ ~gateway[g].connected /\ Len(q) > 1 /\ q[2].event = "download_begin"
  BY <1>1, <1>2, <1>3 DEF Shape, AlgoInv, TypeOK
<1>5. gw \in Gateways /\ gw.connected /\ ~gw.md
  <2>1. gateway[g] \in Gateways
    BY <1>4
  <2>2. gw \in Gateways /\ gw.connected /\ gw.md = gateway[g].md
    BY <2>1 DEF Gateways
  <2>3. ~gateway[g].md
    BY <1>4 DEF NewGateway
  <2> QED
    BY <2>2, <2>3
<1> HIDE DEF gw
<1>6. gateway' = [gateway EXCEPT ![g] = gw]
  BY <1>1 DEF GatewayEvent
<1>7. gateway'[g] = gw /\ \A h \in Sources \ {g} : gateway'[h] = gateway[h]
  BY <1>4, <1>6
<1>8. inbox'[g] # << >> /\ 1 \in DOMAIN inbox'[g] /\ inbox'[g][1].event = "download_begin"
  <2>1. 1 \in DOMAIN inbox'[g]
    BY <1>2, <1>4
  <2>2. inbox'[g] # << >>
    BY <2>1
  <2>3. inbox'[g][1] = q[1 + 1]
    BY <1>2, <2>1
  <2>4. 1 + 1 = 2
    OBVIOUS
  <2> QED
    BY <1>4, <2>1, <2>2, <2>3, <2>4
<1>9. Shape(g)'
  <2>1. ASSUME NEW k \in DOMAIN inbox'[g]
        PROVE  /\ inbox'[g][k].event \notin {"disconnected", "connected"}
               /\ inbox'[g][k].event = "download_begin" => k = 1
    <3>1. k \in Nat /\ k >= 1 /\ k + 1 \in DOMAIN q /\ inbox'[g][k] = q[k + 1]
      BY <1>2
    <3>2. /\ q[k + 1].event = "disconnected" => g \notin up
          /\ q[k + 1].event = "connected" => k + 1 = 1
          /\ q[k + 1].event = "download_begin" => k + 1 = 1 \/ k + 1 = 2
      BY <1>3, <3>1 DEF Shape
    <3> QED
      BY <1>3, <3>1, <3>2
  <2> QED
    BY <1>1, <1>3, <1>5, <1>7, <2>1 DEF Shape
<1>10. \A h \in Sources : Shape(h)'
  <2>1. \A h \in Sources \ {g} : Shape(h)'
    BY <1>1, <1>2, <1>7, ShapeOther
  <2> QED
    BY <1>9, <2>1
<1>11. ~Counts(World.max_order_id) => Synced'
  <2>1. CASE g = g0
    BY <1>5, <1>7, <1>8, <2>1 DEF Synced
  <2>2. CASE g # g0
    BY <1>1, <1>2, <1>3, <1>7, <2>2, Constants, SyncedOther
  <2> QED
    BY <2>1, <2>2
<1>12. LET gws == [gateway EXCEPT ![g] = gw]
       IN  gws[g0].connected /\ ~gws[g0].downloading /\ gws[g0].md => Counts(World.max_order_id)
  <2>1. CASE g = g0
    BY <1>5, <1>6, <1>7, <2>1
  <2>2. CASE g # g0
    BY <1>6, <1>7, <2>2, Constants DEF AlgoInv, Wire, Synced, World
  <2> QED
    BY <2>1, <2>2
<1> HIDE DEF q
<1> QED
  BY <1>1, <1>2, <1>3, <1>4, <1>5, <1>10, <1>11, <1>12, GatewayStep

LEMMA DisconnectedStep ==
    ASSUME AlgoInv, NEW g \in Sources, Disconnected(g)
    PROVE  AlgoInv' /\ Advances
<1> DEFINE q == inbox[g]
<1>1. /\ Running /\ q # << >> /\ Head(q).event = "disconnected" /\ Consume(g)
      /\ outages' = outages /\ GatewayEvent(g, NewGateway, World) /\ up' = up
  BY DEF Disconnected, Next1, GatewayEvent
<1>2. /\ DOMAIN q = 1..Len(q) /\ Len(q) \in Nat /\ Len(q) >= 1 /\ Head(q) = q[1]
      /\ inbox'[g] = Tail(q) /\ inbox' \in [Sources -> Seq(Events)]
      /\ \A h \in Sources \ {g} : inbox'[h] = inbox[h]
      /\ \A h \in Sources : \A k \in DOMAIN inbox'[h] :
                  \E l \in DOMAIN inbox[h] : inbox'[h][k] = inbox[h][l]
  BY <1>1, Consumed DEF AlgoInv
<1>3. Shape(g) /\ Raised(World) /\ gateway \in [Sources -> Gateways] /\ outages \in Nat
  BY <1>1, WorldRaised DEF AlgoInv, Wire, TypeOK
<1>4. g \notin up
  <2>1. 1 \in DOMAIN q /\ q[1].event = "disconnected"
    BY <1>1, <1>2
  <2> QED
    BY <1>3, <2>1 DEF Shape
<1>5. inbox'[g] = << >>
  <2>1. q = <<[event |-> "disconnected"]>>
    BY <1>1, <1>3, <1>4 DEF Shape
  <2> QED
    BY <1>2, <2>1
<1>6. NewGateway \in Gateways /\ ~NewGateway.connected
  BY DEF Gateways, NewGateway
<1>7. /\ gateway' = [gateway EXCEPT ![g] = NewGateway] /\ gateway'[g] = NewGateway
      /\ \A h \in Sources \ {g} : gateway'[h] = gateway[h]
  <2>1. gateway' = [gateway EXCEPT ![g] = NewGateway]
    BY <1>1 DEF GatewayEvent
  <2> QED
    BY <1>3, <2>1
<1>8. Shape(g)'
  <2>1. DOMAIN inbox'[g] = {}
    BY <1>5
  <2> QED
    BY <1>5, <1>6, <1>7, <2>1 DEF Shape
<1>9. \A h \in Sources : Shape(h)'
  <2>1. \A h \in Sources \ {g} : Shape(h)'
    BY <1>1, <1>2, <1>7, ShapeOther
  <2> QED
    BY <1>8, <2>1
<1>10. ~Counts(World.max_order_id) => Synced'
  <2>1. CASE g = g0
    BY <1>6, <1>7, <2>1 DEF Synced
  <2>2. CASE g # g0
    BY <1>1, <1>2, <1>3, <1>7, <2>2, Constants, SyncedOther
  <2> QED
    BY <2>1, <2>2
<1>11. LET gws == [gateway EXCEPT ![g] = NewGateway]
       IN  gws[g0].connected /\ ~gws[g0].downloading /\ gws[g0].md => Counts(World.max_order_id)
  <2>1. CASE g = g0
    BY <1>6, <1>7, <2>1
  <2>2. CASE g # g0
    BY <1>7, <2>2, Constants DEF AlgoInv, Wire, Synced, World
  <2> QED
    BY <2>1, <2>2
<1> HIDE DEF q
<1> QED
  BY <1>1, <1>2, <1>3, <1>6, <1>9, <1>10, <1>11, GatewayStep

LEMMA DownloadBeginStep ==
    ASSUME AlgoInv, NEW g \in Sources, DownloadBegin(g)
    PROVE  AlgoInv' /\ Advances
<1> DEFINE gw == [gateway[g] EXCEPT !.downloading = TRUE]
           q == inbox[g]
<1>1. /\ Running /\ q # << >> /\ Head(q).event = "download_begin" /\ Consume(g)
      /\ outages' = outages /\ GatewayEvent(g, gw, World) /\ up' = up
  BY DEF DownloadBegin, Next1, GatewayEvent
<1>2. /\ DOMAIN q = 1..Len(q) /\ Len(q) \in Nat /\ Len(q) >= 1 /\ Head(q) = q[1]
      /\ inbox' \in [Sources -> Seq(Events)]
      /\ \A h \in Sources \ {g} : inbox'[h] = inbox[h]
      /\ \A h \in Sources : \A k \in DOMAIN inbox'[h] :
                  \E l \in DOMAIN inbox[h] : inbox'[h][k] = inbox[h][l]
  BY <1>1, Consumed DEF AlgoInv
<1>3. Shape(g) /\ Raised(World) /\ gateway \in [Sources -> Gateways] /\ outages \in Nat
  BY <1>1, WorldRaised DEF AlgoInv, Wire, TypeOK
<1>4. gateway[g].connected
  <2>1. 1 \in DOMAIN q /\ q[1].event = "download_begin"
    BY <1>1, <1>2
  <2> QED
    BY <1>3, <2>1 DEF Shape
<1>5. gw \in Gateways /\ gw.connected /\ gw.downloading
  <2>1. gateway[g] \in Gateways
    BY <1>3
  <2>2. gw \in Gateways /\ gw.connected = gateway[g].connected /\ gw.downloading
    BY <2>1 DEF Gateways
  <2> QED
    BY <1>4, <2>2
<1> HIDE DEF gw
<1>6. gateway' = [gateway EXCEPT ![g] = gw]
  BY <1>1 DEF GatewayEvent
<1>7. gateway'[g] = gw /\ \A h \in Sources \ {g} : gateway'[h] = gateway[h]
  BY <1>3, <1>6
<1>8. Shape(g)'
  BY <1>1, <1>5, <1>7, ShapeTail
<1>9. \A h \in Sources : Shape(h)'
  <2>1. \A h \in Sources \ {g} : Shape(h)'
    BY <1>1, <1>2, <1>7, ShapeOther
  <2> QED
    BY <1>8, <2>1
<1>10. ~Counts(World.max_order_id) => Synced'
  <2>1. CASE g = g0
    BY <1>5, <1>7, <2>1 DEF Synced
  <2>2. CASE g # g0
    BY <1>1, <1>2, <1>3, <1>7, <2>2, Constants, SyncedOther
  <2> QED
    BY <2>1, <2>2
<1>11. LET gws == [gateway EXCEPT ![g] = gw]
       IN  gws[g0].connected /\ ~gws[g0].downloading /\ gws[g0].md => Counts(World.max_order_id)
  <2>1. CASE g = g0
    BY <1>5, <1>6, <1>7, <2>1
  <2>2. CASE g # g0
    BY <1>6, <1>7, <2>2, Constants DEF AlgoInv, Wire, Synced, World
  <2> QED
    BY <2>1, <2>2
<1> HIDE DEF q
<1> QED
  BY <1>1, <1>2, <1>3, <1>5, <1>9, <1>10, <1>11, GatewayStep

LEMMA DownloadEndStep ==
    ASSUME AlgoInv, NEW g \in Sources, DownloadEnd(g)
    PROVE  AlgoInv' /\ Advances
<1> DEFINE gw == [gateway[g] EXCEPT !.downloading = FALSE]
           q == inbox[g]
           w == download_end(Head(q))
<1>1. /\ Running /\ q # << >> /\ Head(q).event = "download_end" /\ Consume(g)
      /\ outages' = outages /\ GatewayEvent(g, gw, w) /\ up' = up
  BY DEF DownloadEnd, Next1, GatewayEvent
<1>2. /\ DOMAIN q = 1..Len(q) /\ Len(q) \in Nat /\ Len(q) >= 1 /\ Head(q) = q[1]
      /\ inbox' \in [Sources -> Seq(Events)] /\ Head(q) \in Events
      /\ \A h \in Sources \ {g} : inbox'[h] = inbox[h]
      /\ \A h \in Sources : \A k \in DOMAIN inbox'[h] :
                  \E l \in DOMAIN inbox[h] : inbox'[h][k] = inbox[h][l]
  BY <1>1, Consumed DEF AlgoInv
<1>3. Shape(g) /\ Reported(g) /\ Ending /\ gateway \in [Sources -> Gateways] /\ outages \in Nat
  BY <1>1 DEF AlgoInv, Wire, TypeOK
<1> DEFINE m == Head(q).max_order_id
<1>4. m \in 0..MaxOrders /\ m \in KnownIds \union {0}
  <2>1. m \in 0..MaxOrders
    BY <1>1, <1>2 DEF Events
  <2>2. 1 \in DOMAIN q
    BY <1>2
  <2> QED
    BY <1>1, <1>2, <1>3, <2>1, <2>2 DEF Reported
<1>5. w = [World EXCEPT !.max_order_id = Larger(@, m)]
  BY DEF download_end
<1> HIDE DEF m, w
<1>6. Raised(w) /\ m <= w.max_order_id
  BY <1>1, <1>4, <1>5, IdsRaised
<1>7. g = g0 => Counts(w.max_order_id)
  <2> SUFFICES ASSUME g = g0, NEW i \in KnownIds
               PROVE  i <= w.max_order_id
    BY DEF Counts
  <2>1. i <= max_order_id \/ i <= m
    BY <1>1, <1>2, <1>3 DEF Ending, m
  <2>2. /\ max_order_id \in 0..MaxOrders /\ w.max_order_id \in 0..MaxOrders
        /\ max_order_id <= w.max_order_id /\ MaxOrders \in Nat /\ i \in Int
    BY <1>6, StateFields, WorldFields, Constants DEF AlgoInv, Raised, KnownIds
  <2> QED
    BY <1>4, <1>6, <2>1, <2>2
<1>8. gw \in Gateways /\ (~gw.connected => gw = NewGateway)
  <2>1. gateway[g] \in Gateways
    BY <1>3
  <2>2. gw \in Gateways /\ gw.connected = gateway[g].connected
    BY <2>1 DEF Gateways
  <2>3. ASSUME ~gateway[g].connected
        PROVE  gw = NewGateway
    <3>1. gateway[g] = NewGateway
      BY <1>3, <2>3 DEF Shape
    <3>2. gateway[g].downloading = FALSE
      BY <3>1 DEF NewGateway
    <3>3. gw = gateway[g]
      BY <2>1, <3>2 DEF Gateways
    <3> QED
      BY <3>1, <3>3
  <2> QED
    BY <2>2, <2>3
<1> HIDE DEF gw
<1>9. gateway' = [gateway EXCEPT ![g] = gw]
  BY <1>1 DEF GatewayEvent
<1>10. gateway'[g] = gw /\ \A h \in Sources \ {g} : gateway'[h] = gateway[h]
  BY <1>3, <1>9
<1>11. Shape(g)'
  BY <1>1, <1>8, <1>10, ShapeTail
<1>12. \A h \in Sources : Shape(h)'
  <2>1. \A h \in Sources \ {g} : Shape(h)'
    BY <1>1, <1>2, <1>10, ShapeOther
  <2> QED
    BY <1>11, <2>1
<1>13. ~Counts(w.max_order_id) => Synced'
  BY <1>1, <1>2, <1>6, <1>7, <1>10, Constants, SyncedOther
<1>14. LET gws == [gateway EXCEPT ![g] = gw]
       IN  gws[g0].connected /\ ~gws[g0].downloading /\ gws[g0].md => Counts(w.max_order_id)
  <2>1. CASE g = g0
    BY <1>7, <2>1
  <2>2. CASE g # g0
    <3>1. gateway'[g0].connected /\ ~gateway'[g0].downloading /\ gateway'[g0].md
          => Counts(max_order_id)
      BY <1>10, <2>2, Constants DEF AlgoInv, Wire, Synced
    <3> QED
      BY <1>6, <1>9, <3>1, NotCounted
  <2> QED
    BY <2>1, <2>2
<1> HIDE DEF q
<1> QED
  BY <1>1, <1>2, <1>3, <1>6, <1>8, <1>12, <1>13, <1>14, GatewayStep

LEMMA GatewayStatusStep ==
    ASSUME AlgoInv, NEW g \in Sources, NEW what \in {"md", "om"}, NEW available \in BOOLEAN,
           GatewayStatus(g, what, available)
    PROVE  AlgoInv' /\ Advances
<1> DEFINE gw == [gateway[g] EXCEPT ![what] = available]
           q == inbox[g]
<1>1. /\ Running /\ g \in up /\ gateway[g].connected /\ inbox' = inbox /\ up' = up
      /\ (q # << >> => Head(q).event # "download_begin")
      /\ GatewayEvent(g, gw, World)
  BY DEF GatewayStatus, Streaming, GatewayEvent
<1>2. /\ gateway \in [Sources -> Gateways] /\ outages \in Nat
      /\ outages' \in Nat /\ outages <= outages'
  BY DEF AlgoInv, TypeOK, GatewayStatus
<1>3. Shape(g) /\ Raised(World) /\ inbox \in [Sources -> Seq(Events)] /\ q \in Seq(Events)
  BY <1>1, WorldRaised DEF AlgoInv, Wire, TypeOK
<1>4. gw \in Gateways /\ gw.connected /\ gw.downloading = gateway[g].downloading
  <2>1. gateway[g] \in Gateways
    BY <1>2
  <2>2. CASE what = "md"
    <3>1. gw = [gateway[g] EXCEPT !.md = available]
      BY <2>2
    <3> QED
      BY <1>1, <2>1, <3>1 DEF Gateways
  <2>3. CASE what = "om"
    <3>1. gw = [gateway[g] EXCEPT !.om = available]
      BY <2>3
    <3> QED
      BY <1>1, <2>1, <3>1 DEF Gateways
  <2> QED
    BY <2>2, <2>3
<1> HIDE DEF gw
<1>5. gateway' = [gateway EXCEPT ![g] = gw]
  BY <1>1 DEF GatewayEvent
<1>6. gateway'[g] = gw /\ \A h \in Sources \ {g} : gateway'[h] = gateway[h]
  BY <1>2, <1>5
<1>7. q # << >> => q[1].event # "download_begin"
  <2>1. Head(q) = q[1]
    BY <1>3
  <2> QED
    BY <1>1, <2>1
<1>8. Shape(g)'
  <2>1. ASSUME NEW k \in DOMAIN q
        PROVE  q[k].event \notin {"disconnected", "connected", "download_begin"}
    <3>1. q # << >>
      BY <1>3
    <3>2. 1 \in DOMAIN q
      BY <1>3, <3>1
    <3> QED
      BY <1>1, <1>3, <1>7, <2>1, <3>1, <3>2 DEF Shape
  <2> QED
    BY <1>1, <1>4, <1>6, <2>1 DEF Shape
<1>9. \A h \in Sources : Shape(h)'
  <2>1. \A h \in Sources \ {g} : Shape(h)'
    BY <1>1, <1>6, ShapeOther
  <2> QED
    BY <1>8, <2>1
<1>10. g = g0 /\ ~gw.downloading => Counts(max_order_id)
  BY <1>1, <1>4, <1>7 DEF AlgoInv, Wire, Synced
<1>11. ~Counts(World.max_order_id) => Synced'
  <2>1. CASE g = g0
    BY <1>6, <1>10, <2>1 DEF Synced, World
  <2>2. CASE g # g0
    BY <1>1, <1>3, <1>6, <2>2, Constants, SyncedOther
  <2> QED
    BY <2>1, <2>2
<1>12. LET gws == [gateway EXCEPT ![g] = gw]
       IN  gws[g0].connected /\ ~gws[g0].downloading /\ gws[g0].md => Counts(World.max_order_id)
  <2>1. CASE g = g0
    BY <1>5, <1>6, <1>10, <2>1 DEF World
  <2>2. CASE g # g0
    BY <1>5, <1>6, <2>2, Constants DEF AlgoInv, Wire, Synced, World
  <2> QED
    BY <2>1, <2>2
<1> HIDE DEF q
<1> QED
  BY <1>1, <1>2, <1>3, <1>4, <1>9, <1>11, <1>12, GatewayStep

-----------------------------------------------------------------------------
(***************************************************************************)
(* Market data and order events.                                           *)
(***************************************************************************)

\* A market event leaves the gateways and their streams alone.
LEMMA RouteStep ==
    ASSUME NEW d, Handled(World, d), UNCHANGED <<gateway, inbox>>,
           market' \in [Index -> Markets], Discovered', ReadyIsCurrent'
    PROVE  AlgoInv' /\ Advances
<1>1. AlgoInv /\ Raised(World) /\ TypeOK /\ World' \in Worlds /\ up' = up /\ order' = order
      /\ refused' = refused /\ outages' \in Nat
  BY HandledFields DEF Handled
<1>2. TypeOK'
  BY <1>1 DEF TypeOK
<1>3. Ending' /\ Highs' /\ \A g \in Sources : Reported(g)'
  BY EventsKept
<1>4. \A g \in Sources : Shape(g)'
  BY <1>1, ShapeOther
<1>5. Synced'
  <2>1. CASE Counts(World.max_order_id)
    BY <2>1, CountsKept DEF Synced
  <2>2. CASE ~Counts(World.max_order_id)
    BY <1>1, <2>2, SyncedOther
  <2> QED
    BY <2>1, <2>2
<1>6. Work' /\ Advances
  BY WorkKept, HandledAdvances
<1> QED
  BY <1>2, <1>3, <1>4, <1>5, <1>6 DEF AlgoInv, Wire

LEMMA Routed ==
    ASSUME AlgoInv, NEW i \in Index, NEW mk \in Markets, mk.source = market[i].source
    PROVE  LET mks == routed(i, mk) IN
           /\ mks \in [Index -> Markets]
           /\ mks[i].source = SourceOf[i] /\ mks[i].tick = mk.tick /\ mks[i].open = mk.open
           /\ mks[i].book = mk.book /\ \A j \in Index \ {i} : mks[j] = market[j]
           /\ \A j \in Index : mks[j].source \in {SOURCE_SELF, SourceOf[j]}
           /\ \A j \in Index : mks[j].source = SOURCE_SELF => ~mks[j].open
<1> DEFINE m == intercept(mk, SourceOf[i])
<1>1. market \in [Index -> Markets] /\ Discovered /\ SourceOf[i] \in Sources
      /\ SourceOf[i] # SOURCE_SELF
  BY Constants DEF AlgoInv, TypeOK
<1>2. mk.source \in {SOURCE_SELF, SourceOf[i]}
  BY <1>1 DEF Discovered
<1>3. m = [mk EXCEPT !.source = SourceOf[i]]
  BY <1>2 DEF intercept
<1> HIDE DEF m
<1>4. /\ m \in Markets /\ m.source = SourceOf[i] /\ m.tick = mk.tick /\ m.open = mk.open
      /\ m.book = mk.book
  BY <1>1, <1>3 DEF Markets
<1>5. routed(i, mk) = [market EXCEPT ![i] = m]
  BY DEF routed, m
<1>6. /\ routed(i, mk) \in [Index -> Markets] /\ routed(i, mk)[i] = m
      /\ \A j \in Index \ {i} : routed(i, mk)[j] = market[j]
  BY <1>1, <1>4, <1>5
<1>7. ASSUME NEW j \in Index
      PROVE  /\ routed(i, mk)[j].source \in {SOURCE_SELF, SourceOf[j]}
             /\ routed(i, mk)[j].source = SOURCE_SELF => ~routed(i, mk)[j].open
  <2>1. CASE j = i
    BY <1>1, <1>4, <1>6, <2>1
  <2>2. CASE j # i
    BY <1>1, <1>6, <2>2 DEF Discovered
  <2> QED
    BY <2>1, <2>2
<1> QED
  BY <1>4, <1>6, <1>7

\* An event that tells the strategies nothing leaves the readiness current: a market
\* that is discovered by it is not open.
LEMMA QuietRoute ==
    ASSUME AlgoInv, Running, NEW i \in Index, NEW mk \in Markets,
           mk.source = market[i].source, mk.tick = market[i].tick, mk.open = market[i].open,
           market' = routed(i, mk), gateway' = gateway,
           strategy'.ready_by_instrument = strategy.ready_by_instrument,
           strategy'.ready = strategy.ready
    PROVE  ReadyIsCurrent'
<1>1. /\ routed(i, mk)[i].source = SourceOf[i]
      /\ routed(i, mk)[i].tick = mk.tick /\ routed(i, mk)[i].open = mk.open
      /\ \A j \in Index \ {i} : routed(i, mk)[j] = market[j]
  BY Routed
<1>2. ReadyIsCurrent /\ Discovered /\ SourceOf[i] # SOURCE_SELF
  BY Constants DEF AlgoInv
<1>3. ASSUME NEW j \in Index
      PROVE  strategy'.ready_by_instrument[j] =
               (market'[j].source # SOURCE_SELF
                   /\ instrument_ready(gateway'[market'[j].source], market'[j]))
  <2>1. strategy.ready_by_instrument[j] =
               (market[j].source # SOURCE_SELF
                   /\ instrument_ready(gateway[market[j].source], market[j]))
    BY <1>2 DEF ReadyIsCurrent
  <2>2. CASE j # i
    BY <1>1, <2>1, <2>2
  <2>3. CASE j = i /\ market[i].source = SOURCE_SELF
    <3>1. ~market[i].open /\ ~market'[i].open
      BY <1>1, <1>2, <2>3 DEF Discovered
    <3> QED
      BY <2>1, <2>3, <3>1 DEF instrument_ready
  <2>4. CASE j = i /\ market[i].source # SOURCE_SELF
    <3>1. market'[i].source = market[i].source
      BY <1>1, <1>2, <2>4 DEF Discovered
    <3>2. instrument_ready(gateway'[market'[i].source], market'[i])
          <=> instrument_ready(gateway[market[i].source], market[i])
      BY <1>1, <3>1 DEF instrument_ready
    <3> QED
      BY <1>1, <1>2, <2>1, <2>4, <3>2
  <2> QED
    BY <2>2, <2>3, <2>4
<1>4. strategy'.ready = \A j \in Index : strategy'.ready_by_instrument[j]
  BY <1>2 DEF ReadyIsCurrent
<1> QED
  BY <1>3, <1>4 DEF ReadyIsCurrent

LEMMA WorldMoves ==
    ASSUME AlgoInv
    PROVE  World \in Worlds /\ Moves(World, World)
BY DEF AlgoInv, TypeOK, Moves, Stays, SameOrder

\* The event is not passed on, or what it does leaves the readiness alone.
LEMMA QuietStep ==
    ASSUME AlgoInv, Running, NEW i \in Index, NEW mk \in Markets,
           mk.source = market[i].source, mk.tick = market[i].tick, mk.open = market[i].open,
           market' = routed(i, mk), UNCHANGED <<gateway, inbox, order, up, refused>>,
           outages' \in Nat, outages <= outages',
           NEW d \in Worlds, Moves(World, d), Leaves(d),
           d.strategy.ready_by_instrument = strategy.ready_by_instrument,
           d.strategy.ready = strategy.ready
    PROVE  AlgoInv' /\ Advances
<1>1. Handled(World, d)
  BY WorldRaised DEF Handled
<1>2. strategy' = d.strategy
  BY DEF Leaves
<1>3. ReadyIsCurrent'
  BY <1>2, QuietRoute
<1>4. market' \in [Index -> Markets] /\ Discovered'
  BY Routed DEF Discovered
<1> QED
  BY <1>1, <1>3, <1>4, RouteStep

\* Reference data and market status refresh the readiness of the instrument.
LEMMA RefreshStep ==
    ASSUME AlgoInv, NEW i \in Index, NEW mk \in Markets, mk.source = market[i].source,
           RouteEvent(i, mk, update(World, gateway, routed(i, mk), SourceOf[i])),
           outages' \in Nat, outages <= outages'
    PROVE  AlgoInv' /\ Advances
<1> DEFINE mks == routed(i, mk)
           d == update(World, gateway, mks, SourceOf[i])
<1>1. /\ Running /\ market' = mks /\ UNCHANGED <<gateway, inbox, order, up, refused>>
      /\ Leaves(IF route_dispatch(i, mk) THEN d ELSE World)
  BY DEF RouteEvent, Streaming
<1>2. /\ mks \in [Index -> Markets] /\ mks[i].source = SourceOf[i]
      /\ \A j \in Index \ {i} : mks[j] = market[j]
      /\ \A j \in Index : mks[j].source \in {SOURCE_SELF, SourceOf[j]}
      /\ \A j \in Index : mks[j].source = SOURCE_SELF => ~mks[j].open
  BY Routed
<1>3. CASE route_dispatch(i, mk)
  <2>1. /\ Raised(World) /\ SourceOf[i] \in Sources /\ gateway \in [Sources -> Gateways]
        /\ gateway[g0].connected /\ ~gateway[g0].downloading /\ gateway[g0].md
              => Counts(World.max_order_id)
    BY <1>1, WorldRaised, Constants DEF AlgoInv, TypeOK, Wire, Synced, World
  <2>2. \A j \in Index : mks[j].source # SourceOf[i] => mks[j] = market[j]
    BY <1>2
  <2> HIDE DEF mks
  <2>3. /\ d \in Worlds /\ Moves(World, d)
        /\ \A j \in Index : d.strategy.ready_by_instrument[j] =
              (mks[j].source # SOURCE_SELF /\ instrument_ready(gateway[mks[j].source], mks[j]))
        /\ d.strategy.ready = \A j \in Index : d.strategy.ready_by_instrument[j]
    BY <1>1, <1>2, <2>1, <2>2, Handles
  <2> HIDE DEF d
  <2>4. Leaves(d)
    BY <1>1, <1>3
  <2>5. Handled(World, d)
    BY <1>1, <2>1, <2>3, <2>4 DEF Handled
  <2>6. ReadyIsCurrent'
    BY <1>1, <2>3, <2>4 DEF ReadyIsCurrent, Leaves
  <2>7. Discovered'
    BY <1>1, <1>2 DEF Discovered
  <2> QED
    BY <1>1, <1>2, <2>5, <2>6, <2>7, RouteStep
<1>4. CASE ~route_dispatch(i, mk)
  <2>1. mk = market[i]
    BY <1>4 DEF route_dispatch
  <2>2. Leaves(World) /\ World.strategy = strategy
    BY <1>1, <1>4 DEF World
  <2> QED
    BY <1>1, <2>1, <2>2, WorldMoves, QuietStep
<1> QED
  BY <1>3, <1>4

LEMMA ReferenceDataStep ==
    ASSUME AlgoInv, NEW i \in Index, ReferenceData(i)
    PROVE  AlgoInv' /\ Advances
<1> DEFINE mk == [market[i] EXCEPT !.tick = "set"]
<1>1. market[i] \in Markets /\ outages \in Nat
  BY DEF AlgoInv, TypeOK
<1>2. mk \in Markets /\ mk.source = market[i].source
  BY <1>1 DEF Markets
<1>3. /\ RouteEvent(i, mk, update(World, gateway, routed(i, mk), SourceOf[i]))
      /\ outages' = outages
  BY DEF ReferenceData
<1> HIDE DEF mk
<1> QED
  BY <1>1, <1>2, <1>3, RefreshStep

LEMMA MarketStatusStep ==
    ASSUME AlgoInv, NEW i \in Index, NEW open \in BOOLEAN, MarketStatus(i, open)
    PROVE  AlgoInv' /\ Advances
<1> DEFINE mk == [market[i] EXCEPT !.open = open]
<1>1. market[i] \in Markets /\ outages \in Nat
  BY DEF AlgoInv, TypeOK
<1>2. mk \in Markets /\ mk.source = market[i].source
  BY <1>1 DEF Markets
<1>3. /\ RouteEvent(i, mk, update(World, gateway, routed(i, mk), SourceOf[i]))
      /\ outages' = IF open THEN outages ELSE outages + 1
  BY DEF MarketStatus
<1>4. outages' \in Nat /\ outages <= outages'
  BY <1>1, <1>3
<1> HIDE DEF mk
<1> QED
  BY <1>2, <1>3, <1>4, RefreshStep

LEMMA TopOfBookStep ==
    ASSUME AlgoInv, NEW i \in Index, TopOfBook(i)
    PROVE  AlgoInv' /\ Advances
<1>1. market[i] \in Markets /\ outages \in Nat
  BY DEF AlgoInv, TypeOK
<1>2. /\ Running /\ market' = routed(i, market[i]) /\ outages' = outages
      /\ UNCHANGED <<gateway, inbox, order, up, refused>> /\ Leaves(World)
  BY DEF TopOfBook, RouteEvent, Streaming
<1>3. World.strategy = strategy
  BY DEF World
<1> QED
  BY <1>1, <1>2, <1>3, WorldMoves, QuietStep

LEMMA MarketByPriceUpdateStep ==
    ASSUME AlgoInv, NEW i \in Index, NEW book \in Books(i), MarketByPriceUpdate(i, book)
    PROVE  AlgoInv' /\ Advances
<1> DEFINE mk == [market[i] EXCEPT !.book = book]
           mks == routed(i, mk)
           d == spread_update(World, mks)
<1>1. market[i] \in Markets /\ outages \in Nat /\ book \in Int
  BY AlgoProtoAssumption DEF AlgoInv, TypeOK, Books, Empty, NaN
<1>2. /\ mk \in Markets /\ mk.source = market[i].source /\ mk.tick = market[i].tick
      /\ mk.open = market[i].open
  BY <1>1 DEF Markets
<1>3. /\ Running /\ market' = mks /\ outages' = outages
      /\ UNCHANGED <<gateway, inbox, order, up, refused>>
      /\ Leaves(IF route_dispatch(i, mk) THEN d ELSE World)
  BY DEF MarketByPriceUpdate, RouteEvent, Streaming
<1>4. /\ mks \in [Index -> Markets] /\ mks[i].source = SourceOf[i]
      /\ \A j \in Index \ {i} : mks[j] = market[j]
  BY <1>2, Routed
<1>5. World.strategy = strategy /\ World.max_order_id = max_order_id /\ World \in Worlds
  BY WorldMoves DEF World
<1> HIDE DEF mk, mks
<1>6. strategy.ready => MaySend(World) /\ mks[0].source = g0
  <2> SUFFICES ASSUME strategy.ready
               PROVE  MaySend(World) /\ mks[0].source = g0
    OBVIOUS
  <2>1. 0 \in Index /\ strategy.ready_by_instrument[0]
    BY <1>3 DEF Index, AlgoInv, ReadyIsCurrent
  <2>2. market[0].source # SOURCE_SELF /\ instrument_ready(gateway[market[0].source], market[0])
    BY <1>3, <2>1 DEF AlgoInv, ReadyIsCurrent
  <2>3. market[0].source = g0
    BY <2>1, <2>2 DEF AlgoInv, Discovered, g0
  <2>4. Counts(max_order_id)
    BY <2>2, <2>3 DEF instrument_ready, AlgoInv, Wire, Synced
  <2>5. MaySend(World)
    BY <1>3, <1>5, <2>4, WorldRaised, CountedMaySend
  <2>6. mks[0].source = g0
    BY <1>4, <2>1, <2>3 DEF g0
  <2> QED
    BY <2>5, <2>6
<1>7. /\ d \in Worlds /\ Moves(World, d)
      /\ d.strategy.ready = strategy.ready
      /\ d.strategy.ready_by_instrument = strategy.ready_by_instrument
  BY <1>4, <1>5, <1>6, SpreadUpdate
<1> HIDE DEF d
<1>8. CASE Leaves(d)
  BY <1>1, <1>2, <1>3, <1>7, <1>8, QuietStep DEF mks
<1>9. CASE Leaves(World)
  BY <1>1, <1>2, <1>3, <1>5, <1>9, WorldMoves, QuietStep DEF mks
<1> QED
  BY <1>3, <1>8, <1>9

LEMMA OrderEventStep ==
    ASSUME AlgoInv, NEW g \in Sources, OrderEvent(g)
    PROVE  AlgoInv' /\ Advances
<1> DEFINE q == inbox[g]
           e == Head(q)
           w == [World EXCEPT !.max_order_id = Larger(@, e.id)]
           d == IF find_strategy(e.routing) THEN order_event(w, e.id)
                ELSE [w EXCEPT !.halted = "unexpected routing"]
<1>1. /\ Running /\ q # << >> /\ e.event = "order" /\ Consume(g) /\ Leaves(d)
      /\ UNCHANGED <<gateway, market, order, up, outages, refused>>
  BY DEF OrderEvent, Next1
<1>2. /\ DOMAIN q = 1..Len(q) /\ Len(q) \in Nat /\ Len(q) >= 1 /\ e = q[1]
      /\ inbox' \in [Sources -> Seq(Events)] /\ e \in Events
      /\ \A h \in Sources \ {g} : inbox'[h] = inbox[h]
      /\ \A h \in Sources : \A k \in DOMAIN inbox'[h] :
                  \E l \in DOMAIN inbox[h] : inbox'[h][k] = inbox[h][l]
  BY <1>1, Consumed DEF AlgoInv
<1>3. TypeOK /\ Discovered /\ ReadyIsCurrent /\ Wire /\ MaxOrders \in Nat
  BY Constants DEF AlgoInv
<1>4. e.id \in Ids /\ e.id \in KnownIds \union {strategy.order_id}
  <2>1. e.id \in Ids
    BY <1>1, <1>2 DEF Events
  <2>2. 1 \in DOMAIN q
    BY <1>2
  <2> QED
    BY <1>1, <1>2, <1>3, <2>1, <2>2 DEF Wire, Reported
<1>5. Raised(w)
  <2>1. e.id \in 0..MaxOrders /\ (strategy.order_id = 0 => e.id \in KnownIds \union {0})
    BY <1>3, <1>4 DEF Ids
  <2> HIDE DEF e
  <2> QED
    BY <1>1, <2>1, IdsRaised
<1>6. d = w \/ d = [w EXCEPT !.halted = "unexpected routing"]
  BY DEF order_event, order_manager_event
<1> HIDE DEF d, w, e
<1>7. /\ d \in Worlds /\ Moves(w, d) /\ d.strategy = strategy
  <2>1. w \in Worlds /\ w.strategy = strategy
    BY <1>5 DEF Raised
  <2>2. CASE d = w
    BY <2>1, <2>2 DEF Moves, Stays, SameOrder
  <2>3. CASE d = [w EXCEPT !.halted = "unexpected routing"]
    <3>1. /\ d \in Worlds /\ d.strategy = w.strategy /\ d.max_order_id = w.max_order_id
          /\ d.order_id_to_source = w.order_id_to_source /\ d.requests = w.requests
          /\ d.halted = "unexpected routing"
      BY <2>1, <2>3 DEF Worlds, Outcomes
    <3>2. w.max_order_id <= d.max_order_id
      <4>1. w.max_order_id \in 0..MaxOrders
        BY <2>1, WorldFields
      <4>2. \A n \in 0..MaxOrders : n <= n
        BY <1>3
      <4> QED
        BY <3>1, <4>1, <4>2
    <3> QED
      BY <2>1, <3>1, <3>2 DEF Moves, Ends, SameOrder
  <2> QED
    BY <1>6, <2>2, <2>3
<1>8. outages \in Nat
  BY <1>3 DEF TypeOK
<1>9. Handled(w, d)
  BY <1>1, <1>5, <1>7, <1>8 DEF Handled
<1>10. World' \in Worlds /\ strategy' = strategy /\ KnownIds' = KnownIds
  BY <1>7, <1>9, HandledFields
<1>11. TypeOK' /\ Discovered' /\ ReadyIsCurrent'
  BY <1>1, <1>2, <1>3, <1>10 DEF TypeOK, Discovered, ReadyIsCurrent
<1>12. Work' /\ Advances /\ Ending' /\ Highs' /\ \A h \in Sources : Reported(h)'
  BY <1>2, <1>9, WorkKept, HandledAdvances, EventsKept
<1>13. Shape(g)' /\ \A k \in DOMAIN inbox'[g] : inbox'[g][k].event # "download_begin"
  <2>1. ~gateway'[g].connected => gateway'[g] = NewGateway
    BY <1>1, <1>3 DEF Wire, Shape
  <2> QED
    BY <1>1, <2>1, ShapeTail DEF e
<1>14. \A h \in Sources \ {g} : Shape(h)'
  BY <1>1, <1>2, ShapeOther
<1>15. Synced'
  <2>1. CASE Counts(w.max_order_id)
    BY <1>9, <2>1, CountsKept DEF Synced
  <2>2. CASE ~Counts(w.max_order_id) /\ g # g0
    BY <1>1, <1>2, <1>5, <2>2, Constants, SyncedOther
  <2>3. CASE ~Counts(w.max_order_id) /\ g = g0
    <3>1. ~Counts(max_order_id)
      BY <1>5, <2>3, NotCounted
    <3>2. q[1].event # "download_begin"
      BY <1>1, <1>2
    <3> QED
      BY <1>1, <1>3, <2>3, <3>1, <3>2 DEF Wire, Synced
  <2> QED
    BY <2>1, <2>2, <2>3
<1> QED
  BY <1>11, <1>12, <1>13, <1>14, <1>15 DEF AlgoInv, Wire

-----------------------------------------------------------------------------
(***************************************************************************)
(* The gateways.                                                           *)
(***************************************************************************)

LEMMA RequestFields ==
    ASSUME TypeOK, NEW g \in Sources, NEW k \in DOMAIN requests[g]
    PROVE  /\ requests[g][k] \in Requests /\ requests[g][k].id \in Ids
           /\ requests[g][k].kind \in {"create", "modify"} /\ requests[g][k].price \in Int
<1> DEFINE q == requests[g]
<1>1. q \in Seq(Requests) /\ k \in DOMAIN q
  BY StateFields
<1> HIDE DEF q
<1>2. q[k] \in Requests
  BY <1>1
<1> QED
  BY <1>2 DEF Requests, q

\* A gateway reports an order.
LEMMA Reports ==
    ASSUME AlgoInv, NEW g \in Sources, g \in up, NEW e \in Events, e.event = "order",
           inbox' = [inbox EXCEPT ![g] = Append(@, e)],
           UNCHANGED <<gateway, up, strategy, max_order_id>>,
           e.id \in KnownIds' \union {strategy.order_id}, KnownIds \subseteq KnownIds',
           \A i \in KnownIds' : i \in KnownIds \/ i <= max_order_id
    PROVE  /\ inbox' \in [Sources -> Seq(Events)] /\ Ending' /\ Synced'
           /\ \A h \in Sources : Shape(h)' /\ Reported(h)'
<1> DEFINE q == inbox[g]
<1>1. TypeOK /\ Wire /\ g0 \in Sources
  BY Constants DEF AlgoInv
<1>2. inbox \in [Sources -> Seq(Events)] /\ q \in Seq(Events)
  BY <1>1 DEF TypeOK
<1>3. inbox'[g] = Append(q, e) /\ \A h \in Sources \ {g} : inbox'[h] = inbox[h]
  BY <1>2
<1>4. inbox' \in [Sources -> Seq(Events)]
  BY <1>2
<1> HIDE DEF q
<1>5. /\ Len(q) \in Nat /\ DOMAIN q = 1..Len(q) /\ Len(inbox'[g]) = Len(q) + 1
      /\ DOMAIN inbox'[g] = 1..(Len(q) + 1) /\ inbox'[g][Len(q) + 1] = e
      /\ \A k \in DOMAIN q : inbox'[g][k] = q[k]
  BY <1>2, <1>3
<1>6. ASSUME NEW k \in DOMAIN inbox'[g], inbox'[g][k].event # "order"
      PROVE  k \in DOMAIN q /\ inbox'[g][k] = q[k]
  BY <1>5, <1>6
<1>7. Shape(g)'
  <2>1. Shape(g)
    BY <1>1 DEF Wire
  <2>2. ASSUME NEW k \in DOMAIN inbox'[g]
        PROVE  /\ inbox'[g][k].event # "disconnected"
               /\ inbox'[g][k].event = "connected" =>
                    k = 1 /\ ~gateway[g].connected /\ Len(inbox'[g]) > 1
                    /\ inbox'[g][2].event = "download_begin"
               /\ inbox'[g][k].event = "download_begin" =>
                    \/ k = 1 /\ gateway[g].connected /\ ~gateway[g].md
                    \/ k = 2 /\ inbox'[g][1].event = "connected"
    <3>1. CASE inbox'[g][k].event = "order"
      BY <3>1
    <3>2. CASE inbox'[g][k].event # "order"
      <4>1. k \in DOMAIN q /\ inbox'[g][k] = q[k]
        BY <1>6, <3>2
      <4>2. /\ q[k].event = "disconnected" => g \notin up
            /\ q[k].event = "connected" =>
                 k = 1 /\ ~gateway[g].connected /\ Len(q) > 1 /\ q[2].event = "download_begin"
            /\ q[k].event = "download_begin" =>
                 \/ k = 1 /\ gateway[g].connected /\ ~gateway[g].md
                 \/ k = 2 /\ q[1].event = "connected"
        BY <2>1, <4>1 DEF Shape, q
      <4>3. Len(q) > 1 => inbox'[g][2] = q[2]
        BY <1>5
      <4>4. inbox'[g][1] = q[1]
        BY <1>5, <4>1
      <4> QED
        BY <1>5, <4>1, <4>2, <4>3, <4>4
    <3> QED
      BY <3>1, <3>2
  <2> QED
    BY <2>1, <2>2 DEF Shape
<1>8. \A h \in Sources : Shape(h)'
  <2>1. \A h \in Sources \ {g} : Shape(h)'
    BY <1>3, ShapeOther
  <2> QED
    BY <1>7, <2>1
<1>9. ASSUME NEW h \in Sources, NEW k \in DOMAIN inbox'[h]
      PROVE  /\ inbox'[h][k].event = "order" =>
                    inbox'[h][k].id \in KnownIds' \union {strategy.order_id}
             /\ inbox'[h][k].event = "download_end" =>
                    inbox'[h][k].max_order_id \in KnownIds' \union {0}
  <2>1. CASE k \in DOMAIN inbox[h] /\ inbox'[h][k] = inbox[h][k]
    BY <1>1, <2>1 DEF Wire, Reported
  <2>2. CASE h = g /\ inbox'[h][k] = e
    BY <2>2
  <2> QED
    BY <1>3, <1>5, <2>1, <2>2 DEF q
<1>10. \A h \in Sources : Reported(h)'
  BY <1>9 DEF Reported
<1>11. Ending'
  <2> SUFFICES ASSUME NEW k \in DOMAIN inbox'[g0], inbox'[g0][k].event = "download_end",
                      NEW i \in KnownIds'
               PROVE  i <= max_order_id \/ i <= inbox'[g0][k].max_order_id
    BY DEF Ending
  <2>1. k \in DOMAIN inbox[g0] /\ inbox'[g0][k] = inbox[g0][k]
    BY <1>1, <1>3, <1>6 DEF q
  <2> QED
    BY <1>1, <2>1 DEF Wire, Ending
<1>12. Synced'
  <2> SUFFICES ASSUME gateway[g0].connected, ~gateway[g0].downloading,
                      gateway[g0].md \/ (g0 \in up /\ (inbox'[g0] = << >>
                                            \/ inbox'[g0][1].event # "download_begin"))
               PROVE  Counts(max_order_id)'
    BY DEF Synced
  <2>1. inbox[g0] # << >> => inbox'[g0] # << >> /\ inbox'[g0][1] = inbox[g0][1]
    <3>1. CASE g = g0
      <4>1. q # << >> => 1 \in DOMAIN q
        BY <1>2
      <4>2. inbox'[g] # << >>
        BY <1>2, <1>3
      <4> QED
        BY <1>5, <3>1, <4>1, <4>2 DEF q
    <3>2. CASE g # g0
      BY <1>1, <1>3, <3>2
    <3> QED
      BY <3>1, <3>2
  <2>2. Counts(max_order_id)
    BY <1>1, <2>1 DEF Wire, Synced
  <2> QED
    BY <2>2 DEF Counts
<1> QED
  BY <1>4, <1>8, <1>10, <1>11, <1>12

LEMMA FillStep ==
    ASSUME AlgoInv, NEW i \in Ids, Fill(i)
    PROVE  AlgoInv' /\ Advances
<1> DEFINE o == [order[i] EXCEPT !.status = "completed"]
           e == Event(i)
<1>1. /\ order[i].status = "working" /\ order[i].source \in up
      /\ order' = [order EXCEPT ![i].status = "completed"]
      /\ inbox' = [inbox EXCEPT ![order[i].source] = Append(@, e)]
      /\ UNCHANGED <<bridge, requests, up, outages, refused, halted>>
  BY DEF Fill
<1>2. UNCHANGED <<gateway, market, strategy, max_order_id, order_id_to_source>>
  BY <1>1 DEF bridge
<1>3. TypeOK /\ Discovered /\ ReadyIsCurrent /\ Wire /\ Work
  BY DEF AlgoInv
<1>4. order \in [Ids -> Orders] /\ order[i] \in Orders /\ order[i].source = g0
  BY <1>3 DEF TypeOK, Orders
<1>5. o \in Orders /\ o.status = "completed" /\ o.price = order[i].price
  BY <1>4 DEF Orders, Statuses
<1>6. /\ order' \in [Ids -> Orders] /\ order'[i] = o
      /\ \A j \in Ids \ {i} : order'[j] = order[j]
  BY <1>1, <1>4, <1>5
<1>7. KnownIds' = KnownIds /\ i \in KnownIds
  BY <1>1, <1>5, <1>6 DEF KnownIds
<1>8. e \in Events /\ e.event = "order" /\ e.id = i
  BY <1>4 DEF Event, Events, Orders
<1> HIDE DEF e, o
<1>9. /\ inbox' \in [Sources -> Seq(Events)] /\ Ending' /\ Synced'
      /\ \A h \in Sources : Shape(h)' /\ Reported(h)'
  BY <1>1, <1>2, <1>4, <1>7, <1>8, Constants, Reports
<1>10. Highs'
  BY <1>3, <1>7 DEF Wire, Highs, Counts
<1>11. TypeOK' /\ Discovered' /\ ReadyIsCurrent'
  BY <1>1, <1>2, <1>3, <1>6, <1>9 DEF TypeOK, World, Discovered, ReadyIsCurrent, Running
<1>12. \A j \in Ids : /\ order'[j].status = "working" => order[j].status = "working"
                                                      /\ order'[j].price = order[j].price
                      /\ order[j].status = "none" => order'[j].status = "none"
  BY <1>1, <1>5, <1>6
<1>13. Work'
  <2>1. Spare' /\ Placed'
    BY <1>1, <1>2, <1>3, <1>7 DEF Work, Spare, Placed, Creates, Running
  <2>2. Asked'
    <3>1. \A g \in Sources : \A k \in DOMAIN requests[g] : requests[g][k].id \in Ids
      BY <1>3, RequestFields
    <3> QED
      BY <1>1, <1>2, <1>3, <1>12, <3>1 DEF Work, Asked, Creates
  <2>3. Owned'
    BY <1>2, <1>3, <1>12 DEF Work, Owned
  <2>4. Targeted'
    BY <1>1, <1>2, <1>3, <1>12 DEF Work, Targeted, Running
  <2> QED
    BY <2>1, <2>2, <2>3, <2>4 DEF Work
<1>14. Advances
  <2>1. Live' \subseteq Live
    BY <1>1, <1>12 DEF Live
  <2>2. max_order_id <= max_order_id'
    BY <1>2, <1>3, StateFields, Constants
  <2> QED
    BY <1>7, <2>1, <2>2 DEF Advances
<1> QED
  BY <1>9, <1>10, <1>11, <1>13, <1>14 DEF AlgoInv, Wire

LEMMA LoseConnectionStep ==
    ASSUME AlgoInv, NEW g \in Sources, LoseConnection(g)
    PROVE  AlgoInv' /\ Advances
<1>1. /\ Running /\ g \in up /\ up' = up \ {g} /\ outages' = outages + 1
      /\ requests' = [requests EXCEPT ![g] = << >>]
      /\ inbox' = [inbox EXCEPT ![g] =
                      IF gateway[g].connected THEN <<[event |-> "disconnected"]>> ELSE << >>]
      /\ order' = [i \in Ids |-> IF order[i].status = "working" /\ order[i].source = g
                                 THEN [order[i] EXCEPT !.status = "canceled"] ELSE order[i]]
      /\ UNCHANGED <<bridge, refused, halted>>
  BY DEF LoseConnection
<1>2. UNCHANGED <<gateway, market, strategy, max_order_id, order_id_to_source>>
  BY <1>1 DEF bridge
<1>3. TypeOK /\ Discovered /\ ReadyIsCurrent /\ Wire /\ Work /\ g0 \in Sources
  BY Constants DEF AlgoInv
<1>4. /\ requests' \in [Sources -> Seq(Requests)] /\ requests'[g] = << >>
      /\ \A h \in Sources \ {g} : requests'[h] = requests[h]
  <2>1. requests \in [Sources -> Seq(Requests)]
    BY <1>3, StateFields
  <2> QED
    BY <1>1, <2>1
<1>5. /\ inbox' \in [Sources -> Seq(Events)] /\ \A h \in Sources \ {g} : inbox'[h] = inbox[h]
      /\ gateway[g].connected => inbox'[g] = <<[event |-> "disconnected"]>>
      /\ ~gateway[g].connected => inbox'[g] = << >>
  <2> DEFINE e == [event |-> "disconnected"]
  <2>1. inbox \in [Sources -> Seq(Events)] /\ e \in Events
    BY <1>3 DEF TypeOK, Events
  <2> HIDE DEF e
  <2>2. <<e>> \in Seq(Events) /\ << >> \in Seq(Events)
    BY <2>1
  <2>3. inbox' = [inbox EXCEPT ![g] = IF gateway[g].connected THEN <<e>> ELSE << >>]
    BY <1>1 DEF e
  <2> QED
    BY <2>1, <2>2, <2>3 DEF e
<1>6. ASSUME NEW i \in Ids
      PROVE  /\ order'[i] \in Orders /\ order'[i].price = order[i].price
             /\ order'[i].status = "working" => order[i].status = "working" /\ g # g0
             /\ order[i].status = "none" <=> order'[i].status = "none"
  <2>1. order[i] \in Orders /\ order[i].source = g0
    BY <1>3 DEF TypeOK, Orders
  <2>2. CASE order[i].status = "working" /\ g = g0
    <3>1. order'[i] = [order[i] EXCEPT !.status = "canceled"]
      BY <1>1, <2>1, <2>2
    <3> QED
      BY <2>1, <2>2, <3>1 DEF Orders, Statuses
  <2>3. CASE ~(order[i].status = "working" /\ g = g0)
    <3>1. order'[i] = order[i]
      BY <1>1, <2>1, <2>3
    <3> QED
      BY <2>1, <2>3, <3>1
  <2> QED
    BY <2>2, <2>3
<1>7. order' \in [Ids -> Orders] /\ KnownIds' = KnownIds
  <2>1. order' \in [Ids -> Orders]
    <3>1. DOMAIN order' = Ids /\ order' = [i \in Ids |-> order'[i]]
      BY <1>1
    <3> QED
      BY <1>6, <3>1
  <2> QED
    BY <1>6, <2>1 DEF KnownIds
<1>8. outages \in Nat /\ outages' \in Nat /\ outages' # 0
  BY <1>1, <1>3 DEF TypeOK
<1>9. TypeOK' /\ Discovered' /\ ReadyIsCurrent'
  <2>1. World' \in Worlds
    BY <1>1, <1>2, <1>3, <1>4, StateFields DEF World, Worlds
  <2> QED
    BY <1>1, <1>2, <1>3, <1>5, <1>7, <1>8, <2>1
       DEF TypeOK, Discovered, ReadyIsCurrent, Running
<1>10. \A h \in Sources \ {g} : Shape(h)'
  BY <1>1, <1>2, <1>5, ShapeOther
<1>11. ASSUME NEW k \in DOMAIN inbox'[g]
       PROVE  k = 1 /\ inbox'[g][k].event = "disconnected"
  <2>1. gateway[g].connected /\ inbox'[g] = <<[event |-> "disconnected"]>>
    BY <1>5
  <2> QED
    BY <2>1
<1>12. Shape(g)'
  <2>1. g \notin up' /\ (~gateway[g].connected => gateway[g] = NewGateway)
    BY <1>1, <1>3 DEF Wire, Shape
  <2> QED
    BY <1>2, <1>5, <1>11, <2>1 DEF Shape
<1>13. Reported(g)' /\ \A h \in Sources \ {g} : Reported(h)'
  BY <1>2, <1>3, <1>5, <1>7, <1>11 DEF Wire, Reported
<1>14. Ending'
  <2>1. CASE g = g0
    BY <1>11, <2>1 DEF Ending
  <2>2. CASE g # g0
    BY <1>2, <1>3, <1>5, <1>7, <2>2 DEF Wire, Ending
  <2> QED
    BY <2>1, <2>2
<1>15. Synced'
  BY <1>1, <1>2, <1>3, <1>5, <1>7 DEF Wire, Synced, Counts
<1>16. Highs'
  BY <1>3, <1>7 DEF Wire, Highs, Counts
<1>17. Work'
  <2>1. Spare' /\ Placed'
    BY <1>1, <1>2, <1>3, <1>7, <1>8 DEF Work, Spare, Placed, Running
  <2>2. Asked'
    <3>1. ASSUME NEW h \in Sources, NEW k \in DOMAIN requests'[h]
          PROVE  /\ h = g0 /\ requests'[h][k].id = strategy'.order_id
                 /\ requests'[h][k].kind = "create" => order'[requests'[h][k].id].status = "none"
      <4>1. h # g
        BY <1>4
      <4>2. k \in DOMAIN requests[h] /\ requests'[h][k] = requests[h][k]
        BY <1>4, <4>1
      <4>3. requests[h][k].id \in Ids
        BY <1>3, <4>2, RequestFields
      <4> QED
        BY <1>2, <1>3, <1>6, <4>2, <4>3 DEF Work, Asked
    <3>2. \A k, l \in Creates(g0)' : k = l
      <4>1. CASE g = g0
        BY <1>4, <4>1 DEF Creates
      <4>2. CASE g # g0
        BY <1>3, <1>4, <4>2 DEF Work, Asked, Creates
      <4> QED
        BY <4>1, <4>2
    <3> QED
      BY <3>1, <3>2 DEF Asked
  <2>3. Owned'
    BY <1>2, <1>3, <1>6 DEF Work, Owned
  <2>4. Targeted'
    <3>1. CASE g = g0
      BY <1>4, <1>6, <3>1 DEF Targeted
    <3>2. CASE g # g0
      BY <1>1, <1>2, <1>3, <1>4, <1>6, <3>2 DEF Work, Targeted, Running
    <3> QED
      BY <3>1, <3>2
  <2> QED
    BY <2>1, <2>2, <2>3, <2>4 DEF Work
<1>18. Advances
  <2>1. ASSUME NEW x \in Sent(requests')
        PROVE  x \in Sent(requests)
    <3>0. PICK h \in Sources : \E k \in DOMAIN requests'[h] :
             requests'[h][k].kind = "create" /\ requests'[h][k].id = x
      BY <2>1, SentIs
    <3>1. PICK k \in DOMAIN requests'[h] :
             requests'[h][k].kind = "create" /\ requests'[h][k].id = x
      BY <3>0
    <3>2. k \in DOMAIN requests[h] /\ requests'[h][k] = requests[h][k]
      BY <1>4, <3>1
    <3> QED
      BY <3>1, <3>2, SentIs
  <2>2. Live' \subseteq Live
    BY <1>6, <2>1 DEF Live
  <2>3. max_order_id <= max_order_id'
    BY <1>2, <1>3, StateFields, Constants
  <2> QED
    BY <1>7, <2>2, <2>3 DEF Advances
<1> QED
  BY <1>9, <1>10, <1>12, <1>13, <1>14, <1>15, <1>16, <1>17, <1>18 DEF AlgoInv, Wire

\* The gateway reports the highest id it knows.
LEMMA HighestKnown ==
    ASSUME AlgoInv
    PROVE  LET m == GatewayMaxOrderId(g0)
           IN  m \in KnownIds \union {0} /\ Counts(m)
<1>1. {i \in KnownIds : order[i].source = g0} = KnownIds
  BY DEF AlgoInv, TypeOK, KnownIds, Orders
<1>2. CASE KnownIds = {}
  BY <1>1, <1>2 DEF GatewayMaxOrderId, Counts
<1>3. CASE KnownIds # {}
  <2>1. \E m \in KnownIds : \A i \in KnownIds : i <= m
    BY <1>3 DEF AlgoInv, Wire, Highs, Counts
  <2> DEFINE c == CHOOSE m \in KnownIds : \A i \in KnownIds : i <= m
  <2>2. c \in KnownIds /\ \A i \in KnownIds : i <= c
    BY <2>1
  <2>3. GatewayMaxOrderId(g0) = c
    BY <1>1, <1>3 DEF GatewayMaxOrderId
  <2> QED
    BY <2>2, <2>3 DEF Counts
<1> QED
  BY <1>2, <1>3

LEMMA NothingReported ==
    ASSUME AlgoInv, NEW g \in Sources, g # g0
    PROVE  GatewayMaxOrderId(g) = 0
<1>1. {i \in KnownIds : order[i].source = g} = {}
  BY DEF AlgoInv, TypeOK, KnownIds, Orders
<1> QED
  BY <1>1 DEF GatewayMaxOrderId

\* What a gateway sends when it connects, with at most one order in between.
LEMMA Download ==
    ASSUME NEW S, NEW a \in S, NEW b \in S, NEW c \in S, NEW x \in Seq(S), Len(x) \in {0, 1}
    PROVE  LET q == <<a, b>> \o x \o <<c>>
           IN  /\ q \in Seq(S) /\ Len(q) = Len(x) + 3 /\ q[1] = a /\ q[2] = b
               /\ \A k \in DOMAIN q : k > 2 => q[k] = c \/ (q[k] = x[1] /\ x # << >>)
<1> DEFINE p == <<a, b>>
           s == p \o x
           f == <<c>>
           q == s \o f
<1>1. p \in Seq(S) /\ Len(p) = 2 /\ p[1] = a /\ p[2] = b /\ f \in Seq(S) /\ Len(f) = 1 /\ f[1] = c
  OBVIOUS
<1>2. Len(x) \in {0, 1} /\ (Len(x) = 1 => x # << >>)
  <2>1. Len(<< >>) = 0 /\ 0 # 1
    OBVIOUS
  <2> QED
    BY <2>1, Zenon
<1> HIDE DEF p, f
<1>3. /\ s \in Seq(S) /\ Len(s) = Len(p) + Len(x)
      /\ \A i \in 1..(Len(p) + Len(x)) : s[i] = IF i <= Len(p) THEN p[i] ELSE x[i - Len(p)]
  BY <1>1, <1>2, ConcatProperties
<1> HIDE DEF s
<1>4. /\ q \in Seq(S) /\ Len(q) = Len(s) + Len(f)
      /\ \A i \in 1..(Len(s) + Len(f)) : q[i] = IF i <= Len(s) THEN s[i] ELSE f[i - Len(s)]
  <2>1. s \in Seq(S) /\ f \in Seq(S)
    BY <1>1, <1>2, <1>3
  <2> QED
    BY <2>1, ConcatProperties
<1> HIDE DEF q
<1>5. Len(s) = 2 + Len(x) /\ Len(q) = Len(x) + 3 /\ DOMAIN q = 1..Len(q)
  BY <1>1, <1>2, <1>3, <1>4
<1>6. s[1] = a /\ s[2] = b /\ (Len(x) = 1 => s[3] = x[1])
  BY <1>1, <1>2, <1>3
<1>7. q[1] = a /\ q[2] = b
  BY <1>1, <1>2, <1>4, <1>5, <1>6
<1>8. ASSUME NEW k \in DOMAIN q, k > 2
      PROVE  q[k] = c \/ (q[k] = x[1] /\ x # << >>)
  <2>1. CASE Len(x) = 0
    <3>1. k = 3
      BY <1>5, <1>8, <2>1
    <3> QED
      BY <1>1, <1>2, <1>4, <1>5, <2>1, <3>1
  <2>2. CASE Len(x) = 1
    <3>1. k = 3 \/ k = 4
      BY <1>5, <1>8, <2>2
    <3>2. CASE k = 3
      BY <1>1, <1>2, <1>4, <1>5, <1>6, <2>2, <3>2
    <3>3. CASE k = 4
      BY <1>1, <1>2, <1>4, <1>5, <2>2, <3>3
    <3> QED
      BY <3>1, <3>2, <3>3
  <2> QED
    BY <1>1, <1>2, <2>1, <2>2
<1> QED
  BY <1>4, <1>5, <1>7, <1>8 DEF q, s, p, f

LEMMA ConnectStep ==
    ASSUME AlgoInv, NEW g \in Sources, Connect(g)
    PROVE  AlgoInv' /\ Advances
<1> DEFINE m == GatewayMaxOrderId(g)
           con == [event |-> "connected"]
           beg == [event |-> "download_begin"]
           fin == [event |-> "download_end", max_order_id |-> m]
           q == inbox'[g]
<1>1. /\ g \notin up /\ inbox[g] = << >> /\ up' = up \union {g}
      /\ UNCHANGED <<bridge, requests, order, outages, refused, halted>>
      /\ \E listed \in BOOLEAN : inbox' = [inbox EXCEPT ![g] =
            <<con, beg>> \o (IF m # 0 /\ listed THEN <<Event(m)>> ELSE << >>) \o <<fin>>]
  BY DEF Connect
<1>2. UNCHANGED <<gateway, market, strategy, max_order_id, order_id_to_source>>
  BY <1>1 DEF bridge
<1>3. TypeOK /\ Discovered /\ ReadyIsCurrent /\ Wire /\ Work /\ g0 \in Sources
  BY Constants DEF AlgoInv
<1>4. /\ m \in KnownIds \union {0} /\ m \in 0..MaxOrders
      /\ g = g0 => Counts(m)
  <2>1. m \in KnownIds \union {0} /\ (g = g0 => Counts(m))
    <3>1. CASE g = g0
      BY <3>1, HighestKnown
    <3>2. CASE g # g0
      BY <3>2, NothingReported
    <3> QED
      BY <3>1, <3>2
  <2>2. KnownIds \union {0} \subseteq 0..MaxOrders
    BY Constants DEF KnownIds
  <2> QED
    BY <2>1, <2>2
<1> DEFINE e == Event(m)
<1>5. /\ con \in Events /\ beg \in Events /\ fin \in Events
      /\ m # 0 => e \in Events
  <2>1. con \in Events /\ beg \in Events
    BY DEF Events
  <2>2. fin \in Events
    BY <1>4 DEF Events
  <2>3. m # 0 => order[m] \in Orders /\ m \in Ids
    BY <1>3, <1>4 DEF TypeOK, KnownIds
  <2>4. m # 0 => e \in Events
    BY <2>3 DEF Event, Events, Orders
  <2> QED
    BY <2>1, <2>2, <2>4
<1>6. /\ con.event = "connected" /\ beg.event = "download_begin"
      /\ fin.event = "download_end" /\ fin.max_order_id = m
      /\ e.event = "order" /\ e.id = m
  BY DEF Event
<1>7. inbox \in [Sources -> Seq(Events)]
  BY <1>3 DEF TypeOK
<1> HIDE DEF m, con, beg, fin, e
<1>8. /\ inbox' \in [Sources -> Seq(Events)] /\ \A h \in Sources \ {g} : inbox'[h] = inbox[h]
      /\ Len(q) > 1 /\ q[1] = con /\ q[2] = beg
      /\ \A k \in DOMAIN q : k > 2 => q[k] = fin \/ (q[k] = e /\ m # 0)
      /\ \A k \in DOMAIN q : k \in Nat /\ k >= 1
  <2>1. PICK listed \in BOOLEAN : inbox' = [inbox EXCEPT ![g] =
            <<con, beg>> \o (IF m # 0 /\ listed THEN <<e>> ELSE << >>) \o <<fin>>]
    BY <1>1 DEF e, m, con, beg, fin
  <2> DEFINE x == IF m # 0 /\ listed THEN <<e>> ELSE << >>
             n == <<con, beg>> \o x \o <<fin>>
  <2>2. x \in Seq(Events) /\ Len(x) \in {0, 1} /\ (x # << >> => x[1] = e /\ m # 0)
    <3>1. CASE m # 0 /\ listed
      BY <1>5, <3>1
    <3>2. CASE ~(m # 0 /\ listed)
      BY <3>2
    <3> QED
      BY <3>1, <3>2
  <2> HIDE DEF x
  <2>3. /\ n \in Seq(Events) /\ Len(n) = Len(x) + 3 /\ n[1] = con /\ n[2] = beg
        /\ \A k \in DOMAIN n : k > 2 => n[k] = fin \/ (n[k] = x[1] /\ x # << >>)
    BY <1>5, <2>2, Download
  <2>4. inbox' = [inbox EXCEPT ![g] = n]
    BY <2>1 DEF x
  <2> HIDE DEF n
  <2>5. /\ q = n /\ inbox' \in [Sources -> Seq(Events)]
        /\ \A h \in Sources \ {g} : inbox'[h] = inbox[h]
    BY <1>7, <2>3, <2>4
  <2>6. Len(n) > 1 /\ \A k \in DOMAIN n : k \in Nat /\ k >= 1
    <3>1. Len(n) > 1
      BY <2>2, <2>3
    <3>2. \A k \in DOMAIN n : k \in Nat /\ k >= 1
      BY <2>3
    <3> QED
      BY <3>1, <3>2
  <2> QED
    BY <2>2, <2>3, <2>5, <2>6
<1> HIDE DEF q
<1>9. KnownIds' = KnownIds
  BY <1>1 DEF KnownIds
<1>10. TypeOK' /\ Discovered' /\ ReadyIsCurrent'
  BY <1>1, <1>2, <1>3, <1>8 DEF TypeOK, World, Discovered, ReadyIsCurrent, Running
<1>11. gateway[g] = NewGateway /\ ~gateway[g].connected
  <2>1. Shape(g) /\ << >> # <<[event |-> "disconnected"]>>
    BY <1>3 DEF Wire
  <2> QED
    BY <1>1, <2>1 DEF Shape
<1>12. Shape(g)'
  <2>1. ASSUME NEW k \in DOMAIN q
        PROVE  /\ q[k].event # "disconnected"
               /\ q[k].event = "connected" => k = 1
               /\ q[k].event = "download_begin" => k = 2
    <3>1. k = 1 \/ k = 2 \/ k > 2
      BY <1>8
    <3> QED
      BY <1>6, <1>8, <3>1
  <2>2. g \in up'
    BY <1>1
  <2> QED
    BY <1>2, <1>6, <1>8, <1>11, <2>1, <2>2 DEF Shape, q
<1>13. \A h \in Sources \ {g} : Shape(h)'
  BY <1>1, <1>2, <1>8, ShapeOther
<1>14. Reported(g)' /\ \A h \in Sources \ {g} : Reported(h)'
  <2>1. \A h \in Sources \ {g} : Reported(h)'
    BY <1>2, <1>3, <1>8, <1>9 DEF Wire, Reported
  <2>2. ASSUME NEW k \in DOMAIN q
        PROVE  /\ q[k].event = "order" => q[k].id \in KnownIds
               /\ q[k].event = "download_end" => q[k].max_order_id \in KnownIds \union {0}
    <3>1. k = 1 \/ k = 2 \/ k > 2
      BY <1>8
    <3> QED
      BY <1>4, <1>6, <1>8, <3>1
  <2>3. Reported(g)'
    BY <1>9, <2>2 DEF Reported, q
  <2> QED
    BY <2>1, <2>3
<1>15. Ending'
  <2>1. CASE g = g0
    <3>1. ASSUME NEW k \in DOMAIN q, q[k].event = "download_end"
          PROVE  q[k].max_order_id = m
      <4>1. k = 1 \/ k = 2 \/ k > 2
        BY <1>8
      <4> QED
        BY <1>6, <1>8, <3>1, <4>1
    <3> QED
      BY <1>4, <1>9, <2>1, <3>1 DEF Ending, Counts, q
  <2>2. CASE g # g0
    BY <1>2, <1>3, <1>8, <1>9, <2>2 DEF Wire, Ending
  <2> QED
    BY <2>1, <2>2
<1>16. Synced'
  <2>1. CASE g = g0
    BY <1>2, <1>11, <2>1 DEF Synced
  <2>2. CASE g # g0
    BY <1>1, <1>2, <1>3, <1>8, <1>9, <2>2 DEF Wire, Synced, Counts
  <2> QED
    BY <2>1, <2>2
<1>17. Highs'
  BY <1>3, <1>9 DEF Wire, Highs, Counts
<1>18. Work'
  BY <1>1, <1>2, <1>3, <1>9
     DEF Work, Spare, Asked, Owned, Placed, Targeted, Creates, Running
<1>19. Advances
  <2>1. Live' = Live
    BY <1>1 DEF Live
  <2>2. max_order_id <= max_order_id'
    BY <1>2, <1>3, StateFields, Constants
  <2> QED
    BY <1>9, <2>1, <2>2 DEF Advances
<1> QED
  BY <1>10, <1>12, <1>13, <1>14, <1>15, <1>16, <1>17, <1>18, <1>19 DEF AlgoInv, Wire

LEMMA GatewayRequestStep ==
    ASSUME AlgoInv, NEW g \in Sources, NEW accepted \in BOOLEAN, GatewayRequest(g, accepted)
    PROVE  AlgoInv' /\ Advances
<1> DEFINE q == requests[g0]
           r == Head(q)
           id == strategy.order_id
           old == order[id]
           new == Processed(old, r, g0, accepted)
           e == [event |-> "order", id |-> id, routing |-> "own"]
<1>1. TypeOK /\ Discovered /\ ReadyIsCurrent /\ Wire /\ Work /\ g0 \in Sources
  BY Constants DEF AlgoInv
<1>2. requests \in [Sources -> Seq(Requests)] /\ requests[g] \in Seq(Requests)
      /\ requests[g] # << >>
  BY <1>1, StateFields DEF GatewayRequest
<1>3. g = g0
  <2>1. 1 \in DOMAIN requests[g]
    BY <1>2
  <2> QED
    BY <1>1, <2>1 DEF Work, Asked
<1>4. q \in Seq(Requests) /\ q # << >>
  BY <1>2, <1>3
<1> HIDE DEF q
<1>5. /\ r = q[1] /\ r \in Requests /\ Len(q) \in Nat /\ Len(q) >= 1 /\ DOMAIN q = 1..Len(q)
      /\ Tail(q) \in Seq(Requests) /\ Len(Tail(q)) = Len(q) - 1
      /\ DOMAIN Tail(q) = 1..(Len(q) - 1)
      /\ \A k \in 1..(Len(q) - 1) : Tail(q)[k] = q[k + 1]
  BY <1>4
<1>6. /\ r.id = id /\ (r.kind = "create" => old.status = "none")
      /\ \A k \in DOMAIN q : q[k].id = id
  <2>1. \A k \in DOMAIN q : q[k].id = id /\ (q[k].kind = "create" => order[q[k].id].status = "none")
    BY <1>1 DEF Work, Asked, q
  <2>2. 1 \in DOMAIN q
    BY <1>5
  <2> QED
    BY <1>5, <2>1, <2>2
<1>7. id \in Ids /\ r.price \in Int /\ r.kind \in {"create", "modify"} /\ id # 0
  BY <1>5, <1>6 DEF Requests, Ids
<1>8. /\ Running /\ g0 \in up /\ UNCHANGED <<bridge, up, outages, halted>>
      /\ requests' = [requests EXCEPT ![g0] = Tail(q)]
      /\ accepted => r.kind = "create" \/ old.status = "working"
      /\ order' = [order EXCEPT ![id] = new]
      /\ inbox' = [inbox EXCEPT ![g0] = Append(@, e)]
      /\ refused' = (refused \/ (r.kind = "modify" /\ ~accepted))
  <2>1. /\ Running /\ g0 \in up /\ UNCHANGED <<bridge, up, outages, halted>>
        /\ requests' = [requests EXCEPT ![g0] = Tail(q)]
    BY <1>3 DEF GatewayRequest, q
  <2>2. /\ accepted => r.kind = "create" \/ order[r.id].status = "working"
        /\ order' = [order EXCEPT ![r.id] = Processed(@, r, g0, accepted)]
        /\ inbox' = [inbox EXCEPT ![g0] = Append(@, [event |-> "order", id |-> r.id,
                                                     routing |-> "own"])]
        /\ refused' = (refused \/ (r.kind = "modify" /\ ~accepted))
    BY <1>3, Zenon DEF GatewayRequest, q
  <2> HIDE DEF r, id
  <2>3. r.id = id
    BY <1>6
  <2>4. order' = [order EXCEPT ![id] = new]
    BY <2>2, <2>3
  <2>5. inbox' = [inbox EXCEPT ![g0] = Append(@, e)]
    BY <2>2, <2>3
  <2>6. accepted => r.kind = "create" \/ old.status = "working"
    BY <2>2, <2>3
  <2> HIDE DEF new, e, old
  <2> QED
    BY <2>1, <2>2, <2>4, <2>5, <2>6
<1> HIDE DEF r, id
<1>9. UNCHANGED <<gateway, market, strategy, max_order_id, order_id_to_source>>
  BY <1>8 DEF bridge
<1>10. order \in [Ids -> Orders] /\ old \in Orders
  BY <1>1, <1>7 DEF TypeOK
<1>11. /\ new \in Orders
       /\ new.status # "none" => new.status = "working" \/ old.status # "none" \/ r.kind = "create"
       /\ old.status # "none" => new.status # "none"
       /\ r.kind = "create" => new.status # "none" /\ new.price = r.price
       /\ r.kind = "modify" => new.status = old.status
       /\ r.kind = "modify" /\ accepted => new.price = r.price
  <2>1. CASE r.kind = "create"
    <3> DEFINE s == IF accepted THEN "working" ELSE "rejected"
    <3>1. s \in Statuses /\ s # "none"
      BY DEF Statuses
    <3>2. new = [status |-> s, price |-> r.price, source |-> g0, routing |-> "own"]
      BY <2>1 DEF Processed
    <3> HIDE DEF s, new
    <3>3. new.status = s /\ new.price = r.price
      BY <3>2
    <3>4. new \in Orders
      BY <1>7, <3>1, <3>2 DEF Orders
    <3> QED
      BY <2>1, <3>1, <3>3, <3>4
  <2>2. CASE r.kind = "modify"
    <3> DEFINE p == IF accepted THEN r.price ELSE old.price
    <3>1. p \in Int /\ (accepted => p = r.price)
      BY <1>7, <1>10 DEF Orders
    <3>2. new = [old EXCEPT !.price = p]
      BY <2>2 DEF Processed
    <3> HIDE DEF p, new, old
    <3>3. new \in Orders /\ new.status = old.status /\ new.price = p
      BY <1>10, <3>1, <3>2 DEF Orders
    <3> QED
      BY <2>2, <3>1, <3>3
  <2> QED
    BY <1>7, <2>1, <2>2
<1> HIDE DEF new
<1>12. /\ order' \in [Ids -> Orders] /\ order'[id] = new
       /\ \A i \in Ids \ {id} : order'[i] = order[i]
  BY <1>7, <1>8, <1>10, <1>11
<1>13. /\ KnownIds \subseteq KnownIds' /\ KnownIds' \subseteq KnownIds \union {id}
       /\ r.kind = "create" => id \in KnownIds'
  BY <1>7, <1>11, <1>12 DEF KnownIds
<1>14. /\ id <= max_order_id /\ id \in strategy.known /\ id \in DOMAIN order_id_to_source
  BY <1>1, <1>7 DEF Work, Owned, id
<1>15. e \in Events /\ e.event = "order" /\ e.id = id
  BY <1>7 DEF Events
<1> HIDE DEF e
<1>16. /\ inbox' \in [Sources -> Seq(Events)] /\ Ending' /\ Synced'
       /\ \A h \in Sources : Shape(h)' /\ Reported(h)'
  <2>1. e.id \in KnownIds' \union {strategy.order_id}
    BY <1>15 DEF id
  <2>2. \A i \in KnownIds' : i \in KnownIds \/ i <= max_order_id
    BY <1>13, <1>14
  <2> QED
    BY <1>1, <1>8, <1>9, <1>13, <1>15, <2>1, <2>2, Reports
<1>17. Highs'
  <2>1. CASE KnownIds = {}
    <3>1. KnownIds' = {} \/ KnownIds' = {id}
      BY <1>13, <2>1
    <3>2. id <= id
      BY <1>7 DEF Ids
    <3> QED
      BY <3>1, <3>2 DEF Highs, Counts
  <2>2. CASE KnownIds # {}
    <3>1. PICK m \in KnownIds : \A i \in KnownIds : i <= m
      BY <1>1, <2>2 DEF Wire, Highs, Counts
    <3>2. \A i \in KnownIds' \union {m} : i \in Int
      BY <1>7 DEF KnownIds, Ids
    <3>3. m \in KnownIds'
      BY <1>13
    <3>4. CASE id <= m
      <4>1. \A i \in KnownIds' : i <= m
        BY <1>13, <3>1, <3>4
      <4> QED
        BY <3>3, <4>1 DEF Highs, Counts
    <3>5. CASE id \notin KnownIds'
      <4>1. \A i \in KnownIds' : i <= m
        BY <1>13, <3>1, <3>5
      <4> QED
        BY <3>3, <4>1 DEF Highs, Counts
    <3>6. CASE id \in KnownIds' /\ ~(id <= m)
      <4>1. \A i \in KnownIds' : i <= id
        BY <1>13, <3>1, <3>2, <3>6
      <4> QED
        BY <3>6, <4>1 DEF Highs, Counts
    <3> QED
      BY <3>4, <3>5, <3>6
  <2> QED
    BY <2>1, <2>2
<1>18. /\ requests' \in [Sources -> Seq(Requests)] /\ requests'[g0] = Tail(q)
       /\ \A h \in Sources \ {g0} : requests'[h] = requests[h]
  BY <1>1, <1>2, <1>5, <1>8
<1>19. TypeOK'
  <2>1. World' \in Worlds
    BY <1>1, <1>8, <1>9, <1>18, StateFields DEF World, Worlds
  <2>2. refused' \in BOOLEAN
    BY <1>8
  <2> QED
    BY <1>1, <1>8, <1>9, <1>12, <1>16, <2>1, <2>2 DEF TypeOK
<1>20. Discovered' /\ ReadyIsCurrent'
  BY <1>1, <1>8, <1>9 DEF Discovered, ReadyIsCurrent, Running
<1>21. \A k \in DOMAIN requests'[g0] : /\ k + 1 \in DOMAIN q /\ requests'[g0][k] = q[k + 1]
                                       /\ k \in Nat /\ k >= 1
  BY <1>5, <1>18
<1>22. ASSUME r.kind = "create", NEW k \in DOMAIN requests'[g0]
       PROVE  requests'[g0][k].kind # "create"
  <2>1. 1 \in Creates(g0)
    BY <1>5, <1>22 DEF Creates, q
  <2>2. requests'[g0][k].kind = "create" => k + 1 \in Creates(g0)
    BY <1>21 DEF Creates, q
  <2>3. k + 1 # 1
    BY <1>21
  <2> QED
    BY <1>1, <2>1, <2>2, <2>3 DEF Work, Asked
<1>23. Spare'
  BY <1>7, <1>9 DEF Spare, id
<1>24. Asked'
  <2>1. ASSUME NEW h \in Sources, NEW k \in DOMAIN requests'[h]
        PROVE  /\ h = g0 /\ requests'[h][k].id = strategy'.order_id
               /\ requests'[h][k].kind = "create" => order'[requests'[h][k].id].status = "none"
    <3>1. h = g0
      BY <1>1, <1>18 DEF Work, Asked
    <3>2. requests'[h][k] = q[k + 1] /\ k + 1 \in DOMAIN q
      BY <1>21, <3>1
    <3>3. requests'[h][k].id = id
      BY <1>6, <3>2
    <3>4. ASSUME requests'[h][k].kind = "create"
          PROVE  order'[id].status = "none"
      <4>1. r.kind = "modify"
        BY <1>7, <1>22, <3>1, <3>4
      <4>2. old.status = "none"
        BY <1>1, <3>2, <3>3, <3>4 DEF Work, Asked, q
      <4> QED
        BY <1>11, <1>12, <4>1, <4>2
    <3> QED
      BY <1>9, <3>1, <3>3, <3>4 DEF id
  <2>2. ASSUME NEW k \in Creates(g0)', NEW l \in Creates(g0)'
        PROVE  k = l
    <3>1. k + 1 \in Creates(g0) /\ l + 1 \in Creates(g0) /\ k \in Nat /\ l \in Nat
      BY <1>21 DEF Creates, q
    <3>2. k + 1 = l + 1
      BY <1>1, <3>1 DEF Work, Asked
    <3> QED
      BY <3>1, <3>2
  <2> QED
    BY <2>1, <2>2 DEF Asked
<1>25. Owned'
  <2>1. ASSUME NEW i \in Ids, order'[i].status = "working"
        PROVE  i = id
    BY <1>1, <1>12, <2>1 DEF Work, Owned, id
  <2> QED
    BY <1>9, <1>14, <2>1 DEF Owned, id
<1>26. Placed'
  <2> SUFFICES ASSUME outages = 0
               PROVE  id \in KnownIds'
    BY <1>8, <1>9 DEF Placed, id
  <2>1. CASE r.kind = "create"
    BY <1>13, <2>1
  <2>2. CASE r.kind = "modify"
    <3>1. 1 \in DOMAIN q /\ q[1].kind = "modify"
      BY <1>5, <2>2
    <3>2. id \in KnownIds \/ \E m \in 1..(1 - 1) : m \in Creates(g0)
      BY <1>1, <3>1 DEF Work, Placed, q, id
    <3> QED
      BY <1>13, <3>2
  <2> QED
    BY <1>7, <2>1, <2>2
<1>27. Targeted'
  <2> SUFFICES ASSUME ~refused'
               PROVE  /\ requests'[g0] # << >> =>
                            requests'[g0][Len(requests'[g0])].price = strategy.target
                      /\ requests'[g0] = << >> =>
                            \A i \in Ids : order'[i].status = "working" =>
                                order'[i].price = strategy.target
    BY <1>9 DEF Targeted
  <2>1. ~refused /\ (r.kind = "modify" => accepted)
    BY <1>8
  <2>2. q[Len(q)].price = strategy.target
    BY <1>1, <1>4, <1>8, <2>1 DEF Work, Targeted, q
  <2>3. CASE Len(q) = 1
    <3>1. Tail(q) = << >> /\ r.price = strategy.target
      BY <1>5, <2>2, <2>3
    <3>2. new.price = r.price
      BY <1>7, <1>11, <2>1
    <3>3. \A i \in Ids : order'[i].status = "working" => i = id
      BY <1>9, <1>25 DEF Owned, id
    <3> QED
      BY <1>12, <1>18, <3>1, <3>2, <3>3
  <2>4. CASE Len(q) > 1
    <3>1. Len(q) - 1 \in 1..(Len(q) - 1) /\ (Len(q) - 1) + 1 = Len(q)
      BY <1>5, <2>4
    <3>2. Tail(q)[Len(q) - 1] = q[Len(q)]
      BY <1>5, <3>1
    <3>3. Tail(q) # << >>
      <4>1. DOMAIN Tail(q) # {}
        BY <1>5, <3>1
      <4> QED
        BY <4>1
    <3> QED
      BY <1>5, <1>18, <2>2, <3>2, <3>3
  <2> QED
    BY <1>5, <2>3, <2>4
<1>28. Advances
  <2>1. ASSUME NEW x \in Sent(requests')
        PROVE  x \in Sent(requests)
    <3>0. PICK h \in Sources : \E k \in DOMAIN requests'[h] :
             requests'[h][k].kind = "create" /\ requests'[h][k].id = x
      BY <2>1, SentIs
    <3>1. PICK k \in DOMAIN requests'[h] :
             requests'[h][k].kind = "create" /\ requests'[h][k].id = x
      BY <3>0
    <3>2. CASE h = g0
      <4>1. k + 1 \in DOMAIN requests[h] /\ requests'[h][k] = requests[h][k + 1]
        BY <1>21, <3>1, <3>2 DEF q
      <4> QED
        BY <3>1, <4>1, SentIs
    <3>3. CASE h # g0
      BY <1>18, <3>1, <3>3, SentIs
    <3> QED
      BY <3>2, <3>3
  <2>2. ASSUME NEW i \in Ids, order'[i].status = "working"
        PROVE  i \in Live
    <3>1. CASE i # id \/ r.kind = "modify"
      <4>1. order[i].status = "working"
        BY <1>11, <1>12, <2>2, <3>1
      <4> QED
        BY <4>1 DEF Live
    <3>2. CASE i = id /\ r.kind = "create"
      <4>1. 1 \in DOMAIN requests[g0] /\ requests[g0][1].kind = "create"
            /\ requests[g0][1].id = i
        BY <1>5, <1>6, <3>2 DEF q
      <4>2. i \in Sent(requests)
        BY <1>1, <4>1, SentIs
      <4> QED
        BY <4>2 DEF Live
    <3> QED
      BY <1>7, <3>1, <3>2
  <2>3. Live' \subseteq Live
    BY <2>1, <2>2 DEF Live
  <2>4. max_order_id <= max_order_id'
    BY <1>1, <1>9, StateFields, Constants
  <2> QED
    BY <1>13, <2>3, <2>4 DEF Advances
<1> QED
  BY <1>16, <1>17, <1>19, <1>20, <1>23, <1>24, <1>25, <1>26, <1>27, <1>28
     DEF AlgoInv, Wire, Work

-----------------------------------------------------------------------------
(***************************************************************************)
(* The invariant and the properties.                                       *)
(***************************************************************************)

LEMMA StartedOutcome ==
    ASSUME NEW c, NEW name
    PROVE  Started(c, name) \in Outcomes
<1>1. Parsed(c) \in Outcomes
  BY DEF Parsed, Outcomes
<1>2. \A s : order_managers(s) \in Outcomes
  BY DEF order_managers, Outcomes
<1>3. Created(c, name) \in Outcomes
  BY <1>2 DEF Created, factory_create, Outcomes
<1>4. "unexpected instrument" \in Outcomes
  BY DEF Outcomes
<1> QED
  BY <1>1, <1>3, <1>4 DEF Started

LEMMA InvariantInit ==
    ASSUME Init
    PROVE  AlgoInv /\ Live = {}
<1>1. /\ gateway = [g \in Sources |-> NewGateway] /\ strategy = NewStrategy
      /\ market = [i \in Index |-> [source |-> SOURCE_SELF, tick |-> UnsetTick[i],
                                    open |-> FALSE, book |-> Empty]]
      /\ max_order_id = 0 /\ order_id_to_source = << >>
      /\ requests = [g \in Sources |-> << >>] /\ inbox = [g \in Sources |-> << >>]
      /\ up = {} /\ outages = 0 /\ refused = FALSE
  BY DEF Init
<1>2. PICK routing \in {"own", "foreign"}, last \in 0..(MaxOrders - 1) :
           order = [i \in Ids |-> [status |-> IF i <= last THEN "canceled" ELSE "none",
                                   price |-> NaN, source |-> SourceOf[0], routing |-> routing]]
  BY DEF Init
<1>3. PICK c \in Configs : halted = Started(c, "spread_1")
  BY DEF Init
<1>4. MaxOrders \in Nat /\ MaxOrders > 0 /\ g0 \in Sources /\ Ids = 1..MaxOrders
  BY Constants
<1>5. KnownIds = 1..last /\ order \in [Ids -> Orders]
      /\ \A i \in Ids : order[i].status # "working"
  <2>1. ASSUME NEW i \in Ids
        PROVE  /\ order[i] \in Orders /\ order[i].status # "working"
               /\ order[i].status # "none" <=> i <= last
    <3> DEFINE s == IF i <= last THEN "canceled" ELSE "none"
    <3>1. s \in Statuses /\ s # "working" /\ (s # "none" <=> i <= last)
      BY DEF Statuses
    <3>2. order[i] = [status |-> s, price |-> NaN, source |-> g0, routing |-> routing]
      BY <1>2 DEF g0
    <3> HIDE DEF s
    <3>3. order[i].status = s
      BY <3>2
    <3>4. order[i] \in Orders
      BY <3>1, <3>2 DEF Orders, NaN
    <3> QED
      BY <3>1, <3>3, <3>4
  <2>2. order \in [Ids -> Orders]
    BY <1>2, <2>1
  <2>3. \A i \in Ids : order[i].status # "none" <=> i <= last
    BY <2>1
  <2>4. KnownIds = 1..last
    BY <1>4, <2>3 DEF KnownIds
  <2> QED
    BY <2>1, <2>2, <2>4
<1>6. \A g \in Sources : /\ requests[g] = << >> /\ inbox[g] = << >> /\ gateway[g] = NewGateway
                         /\ DOMAIN requests[g] = {} /\ DOMAIN inbox[g] = {}
  BY <1>1
<1>7. ~NewGateway.connected /\ NewGateway \in Gateways
  BY DEF NewGateway, Gateways
<1>8. \A i \in Index : market[i] \in Markets /\ market[i].source = SOURCE_SELF /\ ~market[i].open
  BY <1>1, AlgoProtoAssumption DEF Markets, Index, Empty
<1>9. strategy \in Strategies
  BY <1>1, <1>4 DEF NewStrategy, Strategies, NaN
<1>10. /\ strategy.order_id = 0 /\ ~strategy.ready
       /\ \A i \in Index : ~strategy.ready_by_instrument[i]
  BY <1>1 DEF NewStrategy
<1>11. TypeOK
  <2>1. << >> \in Maps
    <3>1. << >> \in [{} -> {g0}] /\ {} \in SUBSET Ids
      OBVIOUS
    <3> QED
      BY <3>1 DEF Maps
  <2>2. halted \in Outcomes
    BY <1>3, StartedOutcome
  <2>3. requests \in [Sources -> Seq(Requests)] /\ inbox \in [Sources -> Seq(Events)]
    BY <1>1
  <2>4. World \in Worlds
    BY <1>1, <1>4, <1>9, <2>1, <2>2, <2>3 DEF World, Worlds
  <2>5. gateway \in [Sources -> Gateways]
    BY <1>1, <1>7
  <2>6. market \in [Index -> Markets]
    BY <1>1, <1>8
  <2> QED
    BY <1>1, <1>5, <2>3, <2>4, <2>5, <2>6 DEF TypeOK
<1>12. Discovered /\ ReadyIsCurrent
  <2>1. \E i \in Index : TRUE
    BY DEF Index
  <2>2. strategy.ready = \A i \in Index : strategy.ready_by_instrument[i]
    BY <1>1, <2>1 DEF NewStrategy
  <2>3. \A i \in Index : strategy.ready_by_instrument[i] = FALSE
    BY <1>1 DEF NewStrategy
  <2> QED
    BY <1>8, <2>2, <2>3 DEF Discovered, ReadyIsCurrent
<1>13. Wire
  <2>1. \A g \in Sources : Shape(g) /\ Reported(g)
    BY <1>6, <1>7 DEF Shape, Reported
  <2>2. Ending /\ Synced
    BY <1>4, <1>6, <1>7 DEF Ending, Synced
  <2>3. Highs
    <3>1. CASE last = 0
      BY <1>5, <3>1 DEF Highs
    <3>2. CASE last # 0
      <4>1. last \in 1..last
        BY <1>4, <3>2
      <4> QED
        BY <1>5, <4>1 DEF Highs, Counts
    <3> QED
      BY <3>1, <3>2
  <2> QED
    BY <2>1, <2>2, <2>3 DEF Wire
<1>14. Work
  <2>1. Spare
    BY <1>1, <1>4, <1>5 DEF Spare
  <2>2. Asked /\ Placed
    BY <1>4, <1>6, <1>10 DEF Asked, Placed, Creates
  <2>3. Owned /\ Targeted
    BY <1>4, <1>5, <1>6, <1>10 DEF Owned, Targeted
  <2> QED
    BY <2>1, <2>2, <2>3 DEF Work
<1>15. AlgoInv
  BY <1>11, <1>12, <1>13, <1>14 DEF AlgoInv
<1>16. Live = {}
  <2>1. \A x : x \notin Sent(requests)
    BY <1>6, SentIs
  <2> QED
    BY <1>5, <2>1 DEF Live
<1> QED
  BY <1>15, <1>16

LEMMA InvariantUnchanged ==
    ASSUME AlgoInv, UNCHANGED vars
    PROVE  AlgoInv' /\ Advances
<1>1. UNCHANGED <<gateway, market, strategy, max_order_id, order_id_to_source, requests, inbox,
                  order, up, outages, refused, halted>>
  BY DEF vars, bridge, wire
<1>2. TypeOK' /\ Discovered' /\ ReadyIsCurrent'
  BY <1>1 DEF AlgoInv, TypeOK, World, Discovered, ReadyIsCurrent, Running
<1>3. KnownIds' = KnownIds
  BY <1>1 DEF KnownIds
<1>4. Wire'
  BY <1>1, <1>3 DEF AlgoInv, Wire, Shape, Reported, Ending, Synced, Highs, Counts
<1>5. Work'
  BY <1>1, <1>3
     DEF AlgoInv, Work, Spare, Asked, Owned, Placed, Targeted, Creates, Running
<1>6. Advances
  <2>1. Live' = Live
    BY <1>1 DEF Live
  <2>2. max_order_id <= max_order_id'
    BY <1>1, StateFields, Constants DEF AlgoInv
  <2> QED
    BY <1>3, <2>1, <2>2 DEF Advances
<1> QED
  BY <1>2, <1>4, <1>5, <1>6 DEF AlgoInv

LEMMA InvariantNext ==
    ASSUME AlgoInv, Next
    PROVE  AlgoInv' /\ Advances
<1>1. ASSUME NEW g \in Sources,
             \/ Connected(g) \/ Disconnected(g) \/ DownloadBegin(g) \/ DownloadEnd(g)
             \/ (\E what \in {"md", "om"}, b \in BOOLEAN : GatewayStatus(g, what, b))
             \/ OrderEvent(g)
             \/ Connect(g) \/ (\E b \in BOOLEAN : GatewayRequest(g, b)) \/ LoseConnection(g)
      PROVE  AlgoInv' /\ Advances
  BY <1>1, ConnectedStep, DisconnectedStep, DownloadBeginStep, DownloadEndStep,
     GatewayStatusStep, OrderEventStep, ConnectStep, GatewayRequestStep, LoseConnectionStep
<1>2. ASSUME NEW i \in Index,
             \/ ReferenceData(i) \/ (\E b \in BOOLEAN : MarketStatus(i, b)) \/ TopOfBook(i)
             \/ \E b \in Books(i) : MarketByPriceUpdate(i, b)
      PROVE  AlgoInv' /\ Advances
  BY <1>2, ReferenceDataStep, MarketStatusStep, TopOfBookStep, MarketByPriceUpdateStep
<1>3. ASSUME NEW i \in Ids, Fill(i)
      PROVE  AlgoInv' /\ Advances
  BY <1>3, FillStep
<1>4. CASE Stopped
  BY <1>4, InvariantUnchanged DEF Stopped
<1> QED
  BY <1>1, <1>2, <1>3, <1>4 DEF Next

\* The inductive invariant: every action of the gateways, the routes and the strategy keeps
\* the types, the shape of the streams and the requests those of one order.
THEOREM AlgoInvariant == Spec => []AlgoInv
<1>1. Init => AlgoInv
  BY InvariantInit
<1>2. AlgoInv /\ [Next]_vars => AlgoInv'
  BY InvariantNext, InvariantUnchanged
<1> QED
  BY <1>1, <1>2, PTL DEF Spec

\* algo-proto: the readiness that Base keeps per instrument, refreshed only for the source
\* of an event and only when a cache reports a change, is at any time what State would
\* compute, for any gateways and whatever connection, stream or market was lost.
THEOREM ReadyIsCurrentHolds == Spec => []ReadyIsCurrent
<1>1. AlgoInv => ReadyIsCurrent
  BY DEF AlgoInv
<1> QED
  BY <1>1, AlgoInvariant, PTL

\* algo-proto: every request goes to the gateway of the first instrument, and a modify
\* finds its order there or its create request before it, unless a connection was lost.
THEOREM RoutedToOwnerHolds == Spec => []RoutedToOwner
<1>1. ASSUME AlgoInv, NEW g \in Sources, NEW n \in DOMAIN requests[g]
      PROVE  LET r == requests[g][n]
             IN  /\ g = SourceOf[0]
                 /\ r.kind = "modify" =>
                      \/ r.id \in KnownIds /\ order[r.id].source = g
                      \/ \E m \in 1..(n - 1) :
                            requests[g][m] = Request("create", r.id, requests[g][m].price)
                      \/ outages > 0
  <2>1. TypeOK /\ Work /\ n \in Nat /\ DOMAIN requests[g] = 1..Len(requests[g])
        /\ Len(requests[g]) \in Nat
    <3>1. requests[g] \in Seq(Requests)
      BY <1>1, StateFields DEF AlgoInv
    <3> QED
      BY <1>1, <3>1 DEF AlgoInv
  <2>2. g = g0 /\ requests[g][n].id = strategy.order_id
    BY <1>1, <2>1 DEF Work, Asked
  <2>3. ASSUME requests[g][n].kind = "modify", outages = 0
        PROVE  \/ strategy.order_id \in KnownIds
               \/ \E m \in 1..(n - 1) : m \in Creates(g0)
    BY <1>1, <2>1, <2>2, <2>3 DEF Work, Placed
  <2>4. strategy.order_id \in KnownIds => order[strategy.order_id].source = g
    BY <2>1, <2>2 DEF TypeOK, KnownIds, Orders
  <2>5. ASSUME NEW m \in 1..(n - 1), m \in Creates(g0)
        PROVE  requests[g][m] = Request("create", strategy.order_id, requests[g][m].price)
    <3>1. m \in DOMAIN requests[g] /\ requests[g][m].kind = "create"
      BY <2>2, <2>5 DEF Creates
    <3>2. requests[g][m] \in Requests /\ requests[g][m].id = strategy.order_id
      BY <2>1, <3>1, RequestFields DEF Work, Asked
    <3> QED
      BY <3>1, <3>2 DEF Requests, Request
  <2>6. outages = 0 \/ outages > 0
    BY <2>1 DEF TypeOK
  <2> QED
    BY <2>2, <2>3, <2>4, <2>5, <2>6 DEF g0
<1>2. AlgoInv => RoutedToOwner
  BY <1>1 DEF RoutedToOwner
<1> QED
  BY <1>2, AlgoInvariant, PTL

\* algo-proto: once the gateway has processed every request, the order that rests is the
\* one the strategy knows, at the price it last wanted, unless a modify was refused.
THEOREM RestingAtTargetHolds == Spec => []RestingAtTarget
<1>1. ASSUME AlgoInv, NEW i \in Ids, order[i].status = "working", Running, ~refused,
             requests[order[i].source] = << >>
      PROVE  i \in strategy.known /\ i = strategy.order_id /\ order[i].price = strategy.target
  <2>1. i = strategy.order_id /\ i # 0 /\ order[i].source = g0
    BY <1>1 DEF AlgoInv, Work, Owned, TypeOK, Orders, Ids
  <2> QED
    BY <1>1, <2>1 DEF AlgoInv, Work, Owned, Targeted
<1>2. AlgoInv => RestingAtTarget
  BY <1>1 DEF RestingAtTarget
<1> QED
  BY <1>2, AlgoInvariant, PTL

Used == 1..Larger(max_order_id, Highest(KnownIds))

LEMMA LiveIsOrder ==
    ASSUME AlgoInv
    PROVE  Live \subseteq {strategy.order_id} \intersect Ids
<1>1. ASSUME NEW x \in Sent(requests)
      PROVE  x = strategy.order_id /\ x \in Ids
  <2>1. PICK g \in Sources : \E k \in DOMAIN requests[g] :
           requests[g][k].kind = "create" /\ requests[g][k].id = x
    BY SentIs
  <2>2. PICK k \in DOMAIN requests[g] : requests[g][k].id = x
    BY <2>1
  <2> QED
    BY <2>2, RequestFields DEF AlgoInv, Work, Asked
<1> QED
  BY <1>1 DEF AlgoInv, Work, Owned, Live

\* The highest of the known ids, for any numbers of them.
LEMMA HighestIs ==
    ASSUME NEW S \in SUBSET Ids, S = {} \/ \E m \in S : \A i \in S : i <= m
    PROVE  Highest(S) \in S \union {0} /\ \A i \in S : i <= Highest(S)
<1>1. CASE S = {}
  BY <1>1 DEF Highest
<1>2. CASE S # {}
  <2> DEFINE c == CHOOSE m \in S : \A i \in S : i <= m
  <2>1. c \in S /\ \A i \in S : i <= c
    BY <1>2
  <2>2. Highest(S) = c
    BY <1>2 DEF Highest
  <2> QED
    BY <2>1, <2>2
<1> QED
  BY <1>1, <1>2

\* algo-proto: the strategy has at most one order on the first instrument, and its id was
\* never used, although two gateways report their highest ids separately and events of
\* earlier sessions' orders come with the download.
THEOREM OneOrderHolds == Spec => OneOrder
<1>1. ASSUME AlgoInv
      PROVE  Used \subseteq Ids
  <2>1. Highest(KnownIds) \in KnownIds \union {0}
    BY <1>1, HighestIs DEF AlgoInv, Wire, Highs, Counts, KnownIds
  <2>2. max_order_id \in 0..MaxOrders /\ MaxOrders \in Nat /\ Ids = 1..MaxOrders
    BY <1>1, StateFields, Constants DEF AlgoInv
  <2>3. Highest(KnownIds) \in 0..MaxOrders
    BY <2>1, <2>2 DEF KnownIds
  <2>4. Larger(max_order_id, Highest(KnownIds)) \in 0..MaxOrders
    BY <2>2, <2>3 DEF Larger
  <2> QED
    BY <2>2, <2>4 DEF Used
<1>2. Init => Slot!Init
  <2> SUFFICES ASSUME Init
               PROVE  Slot!Init
    OBVIOUS
  <2>1. Used \subseteq Ids /\ Live = {}
    BY <1>1, InvariantInit
  <2>2. [s \in {0} |-> Live] = [s \in {0} |-> {}]
    BY <2>1
  <2> QED
    BY <2>1, <2>2 DEF Slot!Init, Used, Live, Sent, CreateIds
<1>3. AlgoInv /\ AlgoInv' /\ Next => Slot!Next
  <2> SUFFICES ASSUME AlgoInv, AlgoInv', Next
               PROVE  Slot!Next
    OBVIOUS
  <2> DEFINE h == Highest(KnownIds)
             hh == Highest(KnownIds')
  <2>1. Advances
    BY InvariantNext
  <2>2. /\ h \in KnownIds \union {0} /\ \A i \in KnownIds : i <= h
        /\ hh \in KnownIds' \union {0} /\ \A i \in KnownIds' : i <= hh
    BY HighestIs DEF AlgoInv, Wire, Highs, Counts, KnownIds
  <2>3. /\ max_order_id \in 0..MaxOrders /\ max_order_id' \in 0..MaxOrders
        /\ MaxOrders \in Nat /\ Ids = 1..MaxOrders /\ h \in 0..MaxOrders /\ hh \in 0..MaxOrders
        /\ h <= hh
    <3>1. max_order_id \in 0..MaxOrders /\ max_order_id' \in 0..MaxOrders
      BY DEF AlgoInv, TypeOK, World, Worlds
    <3>2. MaxOrders \in Nat /\ Ids = 1..MaxOrders
      BY Constants
    <3>3. h \in 0..MaxOrders /\ hh \in 0..MaxOrders
      BY <2>2, <3>2 DEF KnownIds
    <3> HIDE DEF h, hh
    <3>4. h <= hh
      BY <2>1, <2>2, <3>2, <3>3 DEF Advances
    <3> QED
      BY <3>1, <3>2, <3>3, <3>4
  <2> HIDE DEF h, hh
  <2>4. Used = 1..Larger(max_order_id, h) /\ Used' = 1..Larger(max_order_id', hh)
    BY DEF Used, h, hh, Highest, Larger
  <2>5. Used \subseteq Used' /\ Used' \subseteq Ids
    BY <2>1, <2>3, <2>4 DEF Advances, Larger
  <2>6. Live \subseteq {strategy.order_id} /\ Live' \subseteq Ids
    <3>1. Live' \subseteq Ids
      BY <2>1, <2>3, LiveIsOrder DEF Advances
    <3> QED
      BY <3>1, LiveIsOrder
  <2>7. \/ Live' = Live \/ Live' = {}
        \/ Live = {} /\ \E id \in Ids \ Used : id \in Used' /\ Live' = {id}
    <3>1. CASE Live' \subseteq Live
      BY <2>6, <3>1
    <3>2. CASE /\ Live = {} /\ Live' = {max_order_id'} /\ max_order_id < max_order_id'
               /\ \A i \in KnownIds : i < max_order_id'
      <4>1. h < max_order_id'
        BY <2>2, <2>3, <3>2
      <4>2. max_order_id' \in Ids \ Used /\ max_order_id' \in Used'
        BY <2>3, <2>4, <3>2, <4>1 DEF Larger
      <4> QED
        BY <3>2, <4>2
    <3> QED
      BY <2>1, <3>1, <3>2 DEF Advances
  <2> DEFINE holds == [s \in {0} |-> Live]
             holds2 == [s \in {0} |-> Live']
  <2>8. /\ Used' \in SUBSET Ids /\ Used \subseteq Used'
        /\ holds2 \in [{0} -> SUBSET Ids]
        /\ \A s \in {0} : \/ holds2[s] = holds[s] \/ holds2[s] = {}
                          \/ holds[s] = {} /\ \E id \in Ids \ Used : id \in Used' /\ holds2[s] = {id}
        /\ \A s, t \in {0} : s # t => holds2[s] \intersect holds2[t] = {}
    BY <2>5, <2>6, <2>7
  <2> QED
    BY <2>8
       DEF Slot!Next, Slot!Keep, Slot!Release, Slot!Create, Used, Live, Sent, CreateIds, Ids
<1>4. UNCHANGED vars => UNCHANGED <<Used, [s \in {0} |-> Live]>>
  BY DEF vars, bridge, wire, Used, Live, Sent, KnownIds, Highest, Larger
<1> QED
  BY <1>2, <1>3, <1>4, AlgoInvariant, PTL
     DEF Spec, OneOrder, Slot!Spec, Used, Live, Sent, CreateIds

=============================================================================
