--------------------------- MODULE PollingProofs ---------------------------
(***************************************************************************)
(* Proofs about the polling sample, for any number of orders and lost      *)
(* connections, with the asserts compiled in or not: it implements         *)
(* OrderSlot, it leaves no order behind when nothing went wrong, and each  *)
(* step of the connected program brings its end nearer.                    *)
(***************************************************************************)
EXTENDS Polling, SequenceTheorems, FiniteSetTheorems, TLAPS

Request == [kind : {"create", "cancel"}, id : Nat]

Answer == [kind : {"create", "cancel"}, id : Nat, result : {"accepted", "failed"}]

TypeOK ==
    /\ state \in States
    /\ max_order_id \in Nat /\ max_order_id <= MaxOrders
    /\ order_id \in Nat
    /\ requests \in Seq(Request) /\ acks \in Seq(Answer)
    /\ order \in [Ids -> {"none", "working", "canceled", "completed"}]

IsHighest(m) == order[m] # "none" /\ \A i \in Ids : order[i] # "none" => i <= m

Working == {i \in Ids : order[i] = "working"}

Creating == {requests[i].id : i \in {j \in DOMAIN requests : requests[j].kind = "create"}}

Held == Working \union Creating

Quiet == requests = << >> /\ acks = << >> /\ Working = {}

\* Before an order is created, and without a connection, there is nothing at the
\* gateway: a new order is reached only through a new connection, which begins clean.
CleanBefore ==
    state \in {"UNDEFINED", "CONNECTING", "READY", "CREATE_ORDER"} \/ link # "up" => Quiet

\* The download has told the client the highest id, and requests use ids it counted.
IdsKnown ==
    /\ \E m \in Ids : IsHighest(m)
    /\ link \in {"synced", "up"} => GatewayMaxOrderId <= max_order_id
    /\ \A i \in Creating : i \in Ids /\ i <= max_order_id

\* Only the order the client knows rests or can come to rest.
OneOrder == Held \subseteq {order_id}

PollingInv == TypeOK /\ CleanBefore /\ IdsKnown /\ OneOrder

\* Without trouble one request or its answer is under way while the client waits,
\* and none otherwise; once the cancel request was accepted no order rests.
WaitsFor(kind, result) ==
    requests = << >> /\ acks = <<Ack([kind |-> kind, id |-> order_id], result)>>

InStep ==
    /\ state = "WAITING_CREATE" =>
        \/ requests = <<[kind |-> "create", id |-> order_id]>> /\ acks = << >>
        \/ WaitsFor("create", "accepted") \/ WaitsFor("create", "failed")
    /\ state \in {"WORKING", "CANCEL_ORDER"} => requests = << >> /\ acks = << >>
    /\ state = "WAITING_CANCEL" =>
        \/ requests = <<[kind |-> "cancel", id |-> order_id]>> /\ acks = << >>
        \/ WaitsFor("cancel", "failed")
        \/ WaitsFor("cancel", "accepted") /\ Working = {}
    /\ state = "DONE" => Quiet

CleanInv ==
    /\ Running /\ ~trouble /\ link = "up" => InStep
    /\ halted = "done" /\ ~trouble => Working = {}

-----------------------------------------------------------------------------
(***************************************************************************)
(* The gateway's highest id, and the ids of the create requests under way. *)
(***************************************************************************)

LEMMA Highest ==
    ASSUME IdsKnown PROVE GatewayMaxOrderId \in Ids /\ IsHighest(GatewayMaxOrderId)
BY DEF IdsKnown, IsHighest, GatewayMaxOrderId

LEMMA HighestNext ==
    ASSUME IdsKnown'
    PROVE  /\ GatewayMaxOrderId' \in Ids /\ order'[GatewayMaxOrderId'] # "none"
           /\ \A i \in Ids : order'[i] # "none" => i <= GatewayMaxOrderId'
BY DEF IdsKnown, IsHighest, GatewayMaxOrderId, Ids

\* Nothing that happens to known orders changes the highest id.
LEMMA SameHighest ==
    ASSUME IdsKnown, \A i \in Ids : order'[i] = "none" <=> order[i] = "none"
    PROVE  (\E m \in Ids : IsHighest(m)') /\ GatewayMaxOrderId' = GatewayMaxOrderId
<1>1. \A m \in Ids : IsHighest(m)' <=> IsHighest(m)
  BY DEF IsHighest, Ids
<1>2. PICK m \in Ids : IsHighest(m)
  BY DEF IdsKnown
<1>3. \A i, j \in Ids : IsHighest(i) /\ IsHighest(j) => i = j
  BY PollingAssumption DEF IsHighest, Ids
<1>4. GatewayMaxOrderId \in Ids /\ IsHighest(GatewayMaxOrderId)
  BY Highest
<1>5. /\ GatewayMaxOrderId' \in Ids /\ order'[GatewayMaxOrderId'] # "none"
      /\ \A i \in Ids : order'[i] # "none" => i <= GatewayMaxOrderId'
  <2>1. \E k \in Ids : order'[k] # "none" /\ \A i \in Ids : order'[i] # "none" => i <= k
    BY <1>1, <1>2 DEF IsHighest, Ids
  <2> QED
    BY <2>1 DEF GatewayMaxOrderId, Ids
<1>6. IsHighest(GatewayMaxOrderId')
  BY <1>5 DEF IsHighest
<1> QED
  BY <1>1, <1>2, <1>3, <1>4, <1>5, <1>6

\* The first request leaves the queue: no create request is added.
LEMMA TailOfRequests ==
    ASSUME requests \in Seq(Request), requests # << >>, requests' = Tail(requests)
    PROVE  /\ requests' \in Seq(Request) /\ Creating' \subseteq Creating
           /\ Head(requests) \in Request
           /\ Head(requests).kind = "create" => Head(requests).id \in Creating
<1> HIDE DEF Request
<1>1. /\ requests' \in Seq(Request) /\ Len(requests') = Len(requests) - 1
      /\ Head(requests) = requests[1] /\ Len(requests) \in Nat \ {0} /\ requests[1] \in Request
  BY EmptySeq, ElementOfSeq
<1>2. \A i \in DOMAIN requests' : i + 1 \in DOMAIN requests /\ requests'[i] = requests[i + 1]
  BY <1>1
<1>3. Creating' \subseteq Creating
  <2> SUFFICES ASSUME NEW i \in DOMAIN requests', requests'[i].kind = "create"
               PROVE  requests'[i].id \in Creating
    BY DEF Creating
  <2> QED
    BY <1>2 DEF Creating
<1>4. requests[1].kind = "create" => requests[1].id \in Creating
  <2>1. 1 \in DOMAIN requests
    BY <1>1
  <2> QED
    BY <2>1 DEF Creating
<1> QED
  BY <1>1, <1>3, <1>4

\* A request joins the queue: only its own id can be added.
LEMMA AppendRequest ==
    ASSUME requests \in Seq(Request), NEW r \in Request, requests' = Append(requests, r)
    PROVE  /\ requests' \in Seq(Request)
           /\ r.kind = "cancel" => Creating' = Creating
           /\ r.kind = "create" => Creating' = Creating \union {r.id}
<1> DEFINE n == Len(requests)
<1> HIDE DEF Request
<1>1. requests' \in Seq(Request) /\ DOMAIN requests' = 1..(n + 1) /\ n \in Nat
  BY AppendProperties
<1>2. requests'[n + 1] = r /\ \A i \in 1..n : requests'[i] = requests[i]
  BY AppendProperties
<1>3. DOMAIN requests = 1..n
  OBVIOUS
<1> HIDE DEF n
<1>4. 1..(n + 1) = (1..n) \union {n + 1}
  BY <1>1
<1>5. r.kind = "cancel" => Creating' = Creating
  BY <1>1, <1>2, <1>3, <1>4 DEF Creating
<1>6. r.kind = "create" => Creating' = Creating \union {r.id}
  BY <1>1, <1>2, <1>3, <1>4 DEF Creating
<1> QED
  BY <1>1, <1>5, <1>6

LEMMA NoCreating == requests = << >> => Creating = {}
BY DEF Creating

LEMMA NoCreatingNext == requests' = << >> => Creating' = {}
BY DEF Creating

-----------------------------------------------------------------------------
(***************************************************************************)
(* The inductive invariant.                                                *)
(***************************************************************************)

LEMMA TailOfAcks ==
    ASSUME acks \in Seq(Answer), acks # << >> PROVE Tail(acks) \in Seq(Answer)
<1> HIDE DEF Answer
<1> QED
  OBVIOUS

\* Steps of the client itself: the gateway, its queue and the order id stay.
LEMMA ClientStep ==
    ASSUME PollingInv, UNCHANGED <<requests, order, order_id>>,
           state' \in States, acks' \in Seq(Answer), acks = << >> => acks' = << >>,
           max_order_id' \in Nat, max_order_id <= max_order_id', max_order_id' <= MaxOrders,
           link' \in {"synced", "up"} => GatewayMaxOrderId <= max_order_id',
           state' \in {"UNDEFINED", "CONNECTING", "READY", "CREATE_ORDER"} \/ link' # "up" => Quiet
    PROVE  PollingInv'
<1> USE PollingAssumption
<1>1. TypeOK'
  BY DEF PollingInv, TypeOK
<1>2. (\E m \in Ids : IsHighest(m)') /\ GatewayMaxOrderId' = GatewayMaxOrderId
  BY SameHighest DEF PollingInv
<1>3. Working' = Working /\ Creating' = Creating
  BY DEF Working, Creating, Ids
<1>4. CleanBefore'
  BY <1>3 DEF CleanBefore, Quiet
<1>5. \A i \in Creating : i \in Nat /\ i \in Ids /\ i <= max_order_id'
  BY DEF PollingInv, IdsKnown, TypeOK, Ids
<1>6. IdsKnown'
  BY <1>2, <1>3, <1>5 DEF IdsKnown, Ids
<1>7. OneOrder'
  BY <1>3 DEF PollingInv, OneOrder, Held
<1> QED
  BY <1>1, <1>4, <1>6, <1>7 DEF PollingInv

\* A create request is sent, or the client ends instead of sending it.
LEMMA CreateOrderStep ==
    ASSUME PollingInv, CreateOrder PROVE PollingInv'
<1> USE PollingAssumption
<1> DEFINE r == [kind |-> "create", id |-> next_order_id]
<1>1. /\ state = "CREATE_ORDER" /\ next_order_id \in Ids /\ state' = "WAITING_CREATE"
      /\ UNCHANGED <<acks, order, link>>
  BY DEF CreateOrder
<1>2. Quiet
  BY <1>1 DEF PollingInv, CleanBefore
<1>3. Held = {}
  BY <1>2, NoCreating DEF Quiet, Held
<1>4. next_order_id \in Nat /\ next_order_id = max_order_id + 1 /\ next_order_id <= MaxOrders
  BY <1>1 DEF PollingInv, TypeOK, next_order_id, Ids
<1>5. CASE halted' # "no"
  <2>1. /\ requests' = requests
        /\ \/ order_id' = next_order_id /\ max_order_id' = next_order_id
           \/ UNCHANGED <<order_id, max_order_id>>
    BY <1>5 DEF CreateOrder
  <2>2. TypeOK'
    BY <1>1, <1>4, <2>1 DEF PollingInv, TypeOK, States
  <2>3. (\E m \in Ids : IsHighest(m)') /\ GatewayMaxOrderId' = GatewayMaxOrderId
    BY <1>1, SameHighest DEF PollingInv
  <2>4. Working' = {} /\ Creating' = {} /\ Creating = {}
    BY <1>1, <1>3, <2>1 DEF Working, Creating, Held, Ids
  <2>5. GatewayMaxOrderId \in Nat
    BY Highest DEF PollingInv, Ids
  <2>6. IdsKnown'
    BY <1>1, <1>4, <2>1, <2>3, <2>4, <2>5 DEF PollingInv, IdsKnown, TypeOK, Ids
  <2> QED
    BY <1>1, <1>2, <2>1, <2>2, <2>4, <2>6
       DEF PollingInv, CleanBefore, Quiet, OneOrder, Held
<1>6. CASE halted' = "no"
  <2>1. /\ order_id' = next_order_id /\ max_order_id' = next_order_id /\ link = "up"
        /\ requests' = Append(requests, r)
    BY <1>6 DEF CreateOrder, sent
  <2>2. r \in Request /\ r.kind = "create" /\ r.id = next_order_id
    BY <1>4 DEF Request
  <2> HIDE DEF r
  <2>3. requests' \in Seq(Request) /\ Creating' = Creating \union {next_order_id}
    BY <2>1, <2>2, AppendRequest DEF PollingInv, TypeOK
  <2>4. Working' = {} /\ Creating' = {next_order_id}
    BY <1>1, <1>3, <2>3 DEF Working, Held, Ids
  <2>5. TypeOK'
    BY <1>1, <1>4, <2>1, <2>3 DEF PollingInv, TypeOK, States
  <2>6. (\E m \in Ids : IsHighest(m)') /\ GatewayMaxOrderId' = GatewayMaxOrderId
    BY <1>1, SameHighest DEF PollingInv
  <2>7. GatewayMaxOrderId \in Nat
    BY Highest DEF PollingInv, Ids
  <2>8. IdsKnown'
    BY <1>1, <1>4, <2>1, <2>4, <2>6, <2>7 DEF PollingInv, IdsKnown, TypeOK, Ids
  <2> QED
    BY <1>1, <2>1, <2>4, <2>5, <2>8 DEF PollingInv, CleanBefore, OneOrder, Held
<1> QED
  BY <1>5, <1>6

\* The gateway's steps: orders and create requests only become fewer, or a create
\* request becomes the order.
LEMMA GatewayStep ==
    ASSUME PollingInv, UNCHANGED <<state, max_order_id, order_id>>,
           requests' \in Seq(Request), acks' \in Seq(Answer),
           order' \in [Ids -> {"none", "working", "canceled", "completed"}],
           \A i \in Ids : order[i] # "none" => order'[i] # "none",
           \A i \in Ids : order'[i] # "none" => order[i] # "none" \/ i \in Creating,
           Creating' \subseteq Creating, Working' \subseteq Held,
           link' \in {"synced", "up"} => link' = link,
           (~Quiet /\ link' = link) \/ Quiet'
    PROVE  PollingInv'
<1> USE PollingAssumption
<1>1. TypeOK'
  BY DEF PollingInv, TypeOK
<1>2. CleanBefore'
  BY DEF PollingInv, CleanBefore
<1>3. OneOrder'
  BY DEF PollingInv, OneOrder, Held
<1>4. /\ GatewayMaxOrderId \in Ids /\ order[GatewayMaxOrderId] # "none"
      /\ \A i \in Ids : order[i] # "none" => i <= GatewayMaxOrderId
  BY Highest DEF PollingInv, IsHighest
<1>5. \A i \in Creating : i = order_id /\ i \in Ids /\ i <= max_order_id
  BY DEF PollingInv, IdsKnown, OneOrder, Held
<1>6. \E m \in Ids : order'[m] # "none" /\ \A i \in Ids : order'[i] # "none" => i <= m
  <2>1. CASE order_id \in Ids /\ order'[order_id] # "none" /\ order_id > GatewayMaxOrderId
    BY <1>4, <1>5, <2>1 DEF Ids
  <2>2. CASE ~(order_id \in Ids /\ order'[order_id] # "none" /\ order_id > GatewayMaxOrderId)
    BY <1>4, <1>5, <2>2 DEF Ids
  <2> QED
    BY <2>1, <2>2
<1>7. /\ GatewayMaxOrderId' \in Ids /\ order'[GatewayMaxOrderId'] # "none"
  BY <1>6 DEF GatewayMaxOrderId, Ids
<1>8. link' \in {"synced", "up"} => GatewayMaxOrderId' <= max_order_id'
  BY <1>4, <1>5, <1>7 DEF PollingInv, IdsKnown, TypeOK, Ids
<1>9. IdsKnown'
  BY <1>5, <1>6, <1>8 DEF IdsKnown, IsHighest, Ids
<1> QED
  BY <1>1, <1>2, <1>3, <1>9 DEF PollingInv

LEMMA PollingStep ==
    ASSUME PollingInv, Next PROVE PollingInv'
<1> USE PollingAssumption
<1>0. /\ state \in States /\ max_order_id \in Nat /\ max_order_id <= MaxOrders
      /\ requests \in Seq(Request) /\ acks \in Seq(Answer)
      /\ order \in [Ids -> {"none", "working", "canceled", "completed"}]
  BY DEF PollingInv, TypeOK
<1>a. GatewayMaxOrderId \in Nat /\ GatewayMaxOrderId <= MaxOrders
  BY Highest DEF PollingInv, Ids
<1>b. link \in {"synced", "up"} => GatewayMaxOrderId <= max_order_id
  BY DEF PollingInv, IdsKnown
<1>c. state \in {"UNDEFINED", "CONNECTING", "READY", "CREATE_ORDER"} \/ link # "up" => Quiet
  BY DEF PollingInv, CleanBefore
<1>1. ASSUME NEW a \in advances, Advance(a[1], a[2]) PROVE PollingInv'
  <2>1. /\ state = a[1] /\ state' \in {state, a[2]} /\ UNCHANGED <<max_order_id, order_id, wire>>
    BY <1>1 DEF Advance, to_state
  <2>2. /\ a[2] \in States
        /\ a[2] \in {"UNDEFINED", "CONNECTING", "READY", "CREATE_ORDER"} =>
             a[1] \in {"UNDEFINED", "CONNECTING", "READY", "CREATE_ORDER"}
    BY DEF advances, States
  <2> QED
    BY <1>0, <1>b, <1>c, <2>1, <2>2, ClientStep DEF wire
<1>2. CASE Elapse \/ Done \/ Signal \/ Stopped
  <2>1. UNCHANGED <<state, max_order_id, order_id, wire>>
    BY <1>2 DEF Elapse, Done, Signal, Stopped, vars, wire
  <2> QED
    BY <1>0, <1>b, <1>c, <2>1, ClientStep DEF wire
<1>3. CASE CreateOrder
  BY <1>3, CreateOrderStep
<1>4. CASE CancelOrder
  <2> DEFINE r == [kind |-> "cancel", id |-> order_id]
  <2>1. /\ state' = "WAITING_CANCEL" /\ requests' \in {requests, Append(requests, r)}
        /\ requests' # requests => link = "up"
        /\ UNCHANGED <<max_order_id, order_id, acks, order, link>>
    BY <1>4 DEF CancelOrder, sent
  <2>2. CASE requests' = requests
    BY <1>0, <1>b, <1>c, <2>1, <2>2, ClientStep DEF States
  <2>3. CASE requests' = Append(requests, r) /\ link = "up"
    <3>1. r \in Request /\ r.kind = "cancel"
      BY DEF PollingInv, TypeOK, Request
    <3> HIDE DEF r
    <3>2. requests' \in Seq(Request) /\ Creating' = Creating /\ Working' = Working
      BY <1>0, <2>1, <2>3, <3>1, AppendRequest DEF Working, Ids
    <3>3. (\E m \in Ids : IsHighest(m)') /\ GatewayMaxOrderId' = GatewayMaxOrderId
      BY <2>1, SameHighest DEF PollingInv
    <3>4. IdsKnown'
      BY <2>1, <3>2, <3>3 DEF PollingInv, IdsKnown, Ids
    <3> QED
      BY <2>1, <2>3, <3>2, <3>4 DEF PollingInv, TypeOK, CleanBefore, OneOrder, Held, States
  <2> QED
    BY <2>1, <2>2, <2>3
<1>5. CASE Connected
  <2>1. link = "down" /\ link' = "downloading" /\ UNCHANGED <<state, max_order_id, order_id, requests, acks, order>>
    BY <1>5 DEF Connected
  <2> QED
    BY <1>0, <1>c, <2>1, ClientStep
<1>6. CASE Disconnected
  <2>1. /\ link = "lost" /\ link' = "down" /\ state' \in {state, "CONNECTING"}
        /\ UNCHANGED <<max_order_id, order_id, requests, acks, order>>
    BY <1>6 DEF Disconnected, to_state
  <2> QED
    BY <1>0, <1>c, <2>1, ClientStep DEF States
<1>7. CASE DownloadEnd
  <2>1. /\ link = "downloading" /\ link' = "synced"
        /\ max_order_id' =
             (IF max_order_id < GatewayMaxOrderId THEN GatewayMaxOrderId ELSE max_order_id)
        /\ UNCHANGED <<state, order_id, requests, acks, order>>
    BY <1>7 DEF DownloadEnd
  <2>2. /\ max_order_id' \in Nat /\ max_order_id <= max_order_id' /\ max_order_id' <= MaxOrders
        /\ GatewayMaxOrderId <= max_order_id'
    BY <1>0, <1>a, <2>1
  <2> QED
    BY <1>0, <1>c, <2>1, <2>2, ClientStep
<1>8. CASE Ready
  <2>1. /\ link = "synced" /\ link' = "up" /\ state' \in {state, "READY"}
        /\ UNCHANGED <<max_order_id, order_id, requests, acks, order>>
    BY <1>8 DEF Ready, to_state
  <2> QED
    BY <1>0, <1>b, <1>c, <2>1, ClientStep DEF States
<1>9. CASE OrderAck
  <2>1. /\ acks # << >> /\ acks' = Tail(acks) /\ state' \in {state, "DONE", "WORKING"}
        /\ UNCHANGED <<max_order_id, order_id, requests, order, link>>
    BY <1>9 DEF OrderAck, to_state, after_ack
  <2>2. acks' \in Seq(Answer)
    BY <1>0, <2>1, TailOfAcks
  <2> QED
    BY <1>0, <1>b, <1>c, <2>1, <2>2, ClientStep DEF States
<1>10. CASE LoseConnection
  <2>1. /\ link' = "lost" /\ requests' = << >> /\ acks' = << >>
        /\ order' = [i \in Ids |-> IF order[i] = "working" THEN "canceled" ELSE order[i]]
        /\ UNCHANGED <<state, max_order_id, order_id>>
    BY <1>10 DEF LoseConnection
  <2>2. Creating' = {} /\ Working' = {}
    BY <1>0, <2>1, NoCreatingNext DEF Working, Ids
  <2>3. requests' \in Seq(Request) /\ acks' \in Seq(Answer)
    BY <2>1
  <2>4. order' \in [Ids -> {"none", "working", "canceled", "completed"}]
    BY <1>0, <2>1
  <2>5. \A i \in Ids : order'[i] = "none" <=> order[i] = "none"
    BY <1>0, <2>1
  <2>6. Quiet'
    BY <2>1, <2>2 DEF Quiet
  <2> QED
    BY <2>1, <2>2, <2>3, <2>4, <2>5, <2>6, GatewayStep
<1>11. CASE Accept \/ Reject
  <2> DEFINE r == Head(requests)
  <2>1. /\ requests # << >> /\ requests' = Tail(requests)
        /\ UNCHANGED <<state, max_order_id, order_id, link>>
        /\ \E result \in {"accepted", "failed"} : acks' = Append(acks, Ack(r, result))
    BY <1>11 DEF Accept, Reject
  <2>2. /\ requests' \in Seq(Request) /\ Creating' \subseteq Creating /\ r \in Request
        /\ r.kind = "create" => r.id \in Creating
    BY <1>0, <2>1, TailOfRequests
  <2>3. acks' \in Seq(Answer)
    <3>1. \A result \in {"accepted", "failed"} : Ack(r, result) \in Answer
      BY <2>2 DEF Ack, Answer, Request
    <3> HIDE DEF Answer
    <3> QED
      BY <1>0, <2>1, <3>1, AppendProperties
  <2>4. ~Quiet
    BY <2>1 DEF Quiet
  <2>5. CASE UNCHANGED order
    <3>1. Working' \subseteq Held
      BY <2>5 DEF Working, Held, Ids
    <3> QED
      BY <1>0, <2>1, <2>2, <2>3, <2>4, <2>5, <3>1, GatewayStep
  <2>6. CASE Accept
    <3>1. /\ r.kind = "cancel" => order[r.id] = "working"
          /\ order' = [order EXCEPT ![r.id] = IF r.kind = "create" THEN "working" ELSE "canceled"]
      BY <2>6 DEF Accept
    <3>2. order' \in [Ids -> {"none", "working", "canceled", "completed"}]
      BY <1>0, <3>1
    <3>3. r.kind \in {"create", "cancel"}
      BY <2>2 DEF Request
    <3>4. \A i \in Ids : /\ order[i] # "none" => order'[i] # "none"
                         /\ order'[i] # "none" => order[i] # "none" \/ i \in Creating
      BY <1>0, <2>2, <3>1, <3>3
    <3>5. Working' \subseteq Held
      BY <1>0, <2>2, <3>1, <3>3 DEF Working, Held, Ids
    <3> QED
      BY <2>1, <2>2, <2>3, <2>4, <3>2, <3>4, <3>5, GatewayStep
  <2> QED
    BY <1>11, <2>5, <2>6 DEF Reject
<1>12. ASSUME NEW i \in Ids, Fill(i) PROVE PollingInv'
  <2>1. /\ order[i] = "working" /\ order' = [order EXCEPT ![i] = "completed"]
        /\ UNCHANGED <<state, max_order_id, order_id, requests, acks, link>>
    BY <1>12 DEF Fill
  <2>2. order' \in [Ids -> {"none", "working", "canceled", "completed"}]
    BY <1>0, <2>1
  <2>3. \A j \in Ids : order'[j] = "none" <=> order[j] = "none"
    BY <1>0, <2>1
  <2>4. Working' \subseteq Held /\ Creating' = Creating /\ ~Quiet
    BY <1>0, <2>1 DEF Working, Creating, Held, Ids, Quiet
  <2> QED
    BY <1>0, <2>1, <2>2, <2>3, <2>4, GatewayStep
<1> QED
  BY <1>1, <1>2, <1>3, <1>4, <1>5, <1>6, <1>7, <1>8, <1>9, <1>10, <1>11, <1>12 DEF Next

LEMMA PollingInit ==
    ASSUME Init PROVE PollingInv
<1> USE PollingAssumption
<1>1. 1 \in Ids
  BY DEF Ids
<1>2. order[1] = "canceled" /\ \A i \in Ids : i # 1 => order[i] = "none"
  BY <1>1 DEF Init
<1>3. TypeOK
  <2>1. order \in [Ids -> {"none", "working", "canceled", "completed"}]
    BY DEF Init
  <2> QED
    BY <2>1 DEF Init, TypeOK, States
<1>4. Working = {} /\ Creating = {}
  BY <1>1, <1>2, NoCreating DEF Init, Working
<1>5. IsHighest(1)
  BY <1>1, <1>2 DEF IsHighest, Ids
<1>6. IdsKnown
  BY <1>1, <1>4, <1>5 DEF Init, IdsKnown
<1> QED
  BY <1>3, <1>4, <1>6 DEF Init, PollingInv, CleanBefore, Quiet, OneOrder, Held

LEMMA PollingInvariant == Spec => []PollingInv
<1>1. PollingInv /\ UNCHANGED vars => PollingInv'
  BY DEF vars, PollingInv, TypeOK, CleanBefore, IdsKnown, OneOrder, Quiet, Held, Working, Creating,
     IsHighest, GatewayMaxOrderId, Ids
<1>2. PollingInv /\ [Next]_vars => PollingInv'
  BY <1>1, PollingStep
<1> QED
  BY <1>2, PollingInit, PTL DEF Spec

-----------------------------------------------------------------------------
(***************************************************************************)
(* The client implements OrderSlot.                                        *)
(***************************************************************************)

\* What a step does to the orders that rest or are being created.
LEMMA HeldStep ==
    ASSUME PollingInv, Next
    PROVE  /\ \A i \in Ids : order[i] # "none" => order'[i] # "none"
           /\ max_order_id <= max_order_id'
           /\ \/ Held' \subseteq Held
              \/ /\ Held = {} /\ Held' = {next_order_id} /\ next_order_id \in Ids
                 /\ link = "up" /\ max_order_id' = next_order_id
<1> USE PollingAssumption
<1>0. /\ max_order_id \in Nat /\ requests \in Seq(Request)
      /\ order \in [Ids -> {"none", "working", "canceled", "completed"}]
  BY DEF PollingInv, TypeOK
<1>1. ASSUME UNCHANGED <<requests, order>> PROVE Held' = Held
  BY <1>1 DEF Held, Working, Creating, Ids
<1>2. ASSUME NEW a \in advances, Advance(a[1], a[2])
      PROVE  UNCHANGED <<requests, order, max_order_id>>
  BY <1>2 DEF Advance, wire
<1>3. CASE \/ Elapse \/ Done \/ Signal \/ Stopped \/ Connected \/ Disconnected \/ Ready \/ OrderAck
           \/ \E a \in advances : Advance(a[1], a[2])
  <2>1. UNCHANGED <<requests, order, max_order_id>>
    BY <1>2, <1>3 DEF Elapse, Done, Signal, Stopped, Connected, Disconnected, Ready, OrderAck, wire,
       vars
  <2> QED
    BY <1>0, <1>1, <2>1
<1>4. CASE DownloadEnd
  <2>1. GatewayMaxOrderId \in Nat
    BY Highest DEF PollingInv, Ids
  <2> QED
    BY <1>0, <1>1, <1>4, <2>1 DEF DownloadEnd
<1>5. CASE CreateOrder
  <2> DEFINE r == [kind |-> "create", id |-> next_order_id]
  <2>1. /\ next_order_id \in Ids /\ order' = order /\ max_order_id' \in {max_order_id, next_order_id}
        /\ \/ requests' = requests
           \/ /\ link = "up" /\ max_order_id' = next_order_id
              /\ requests' = Append(requests, r)
    BY <1>5 DEF CreateOrder, sent
  <2>2. Held = {}
    BY <1>5, NoCreating DEF CreateOrder, PollingInv, CleanBefore, Quiet, Held
  <2>3. next_order_id \in Nat /\ max_order_id <= next_order_id
    BY <1>0 DEF next_order_id
  <2>4. r \in Request /\ r.kind = "create" /\ r.id = next_order_id
    BY <2>3 DEF Request
  <2> HIDE DEF r
  <2>5. ASSUME requests' = Append(requests, r) PROVE Held' = {next_order_id}
    <3>1. Creating' = Creating \union {next_order_id}
      BY <1>0, <2>4, <2>5, AppendRequest
    <3>2. Working' = Working
      BY <2>1 DEF Working, Ids
    <3> QED
      BY <2>2, <3>1, <3>2 DEF Held
  <2> QED
    BY <1>0, <1>1, <2>1, <2>2, <2>3, <2>5
<1>6. CASE CancelOrder
  <2> DEFINE r == [kind |-> "cancel", id |-> order_id]
  <2>1. requests' \in {requests, Append(requests, r)} /\ UNCHANGED <<max_order_id, order>>
    BY <1>6 DEF CancelOrder
  <2>2. r \in Request /\ r.kind = "cancel"
    BY DEF PollingInv, TypeOK, Request
  <2> HIDE DEF r
  <2>3. Creating' = Creating /\ Working' = Working
    <3>1. CASE requests' = requests
      BY <2>1, <3>1 DEF Creating, Working, Ids
    <3>2. CASE requests' = Append(requests, r)
      BY <1>0, <2>1, <2>2, <3>2, AppendRequest DEF Working, Ids
    <3> QED
      BY <2>1, <3>1, <3>2
  <2> QED
    BY <1>0, <2>1, <2>3 DEF Held
<1>7. CASE LoseConnection
  <2>1. /\ requests' = << >> /\ UNCHANGED max_order_id
        /\ order' = [i \in Ids |-> IF order[i] = "working" THEN "canceled" ELSE order[i]]
    BY <1>7 DEF LoseConnection
  <2>2. Creating' = {} /\ Working' = {}
    BY <1>0, <2>1, NoCreatingNext DEF Working, Ids
  <2> QED
    BY <1>0, <2>1, <2>2 DEF Held
<1>8. CASE Accept \/ Reject
  <2> DEFINE r == Head(requests)
  <2>1. requests # << >> /\ requests' = Tail(requests) /\ UNCHANGED max_order_id
    BY <1>8 DEF Accept, Reject
  <2>2. /\ Creating' \subseteq Creating /\ r \in Request
        /\ r.kind = "create" => r.id \in Creating
    BY <1>0, <2>1, TailOfRequests
  <2>3. CASE UNCHANGED order
    BY <1>0, <2>1, <2>2, <2>3 DEF Held, Working, Ids
  <2>4. CASE Accept
    <3>1. order' = [order EXCEPT ![r.id] = IF r.kind = "create" THEN "working" ELSE "canceled"]
      BY <2>4 DEF Accept
    <3>2. r.kind \in {"create", "cancel"}
      BY <2>2 DEF Request
    <3>3. Working' \subseteq Held
      BY <1>0, <2>2, <3>1, <3>2 DEF Working, Held, Ids
    <3> QED
      BY <1>0, <2>1, <2>2, <3>1, <3>3 DEF Held
  <2> QED
    BY <1>8, <2>3, <2>4 DEF Reject
<1>9. ASSUME NEW i \in Ids, Fill(i)
      PROVE  /\ \A j \in Ids : order[j] # "none" => order'[j] # "none"
             /\ Held' \subseteq Held /\ UNCHANGED max_order_id
  BY <1>0, <1>9 DEF Fill, Held, Working, Creating, Ids
<1> QED
  BY <1>0, <1>3, <1>4, <1>5, <1>6, <1>7, <1>8, <1>9 DEF Next

Used == 1..(IF GatewayMaxOrderId > max_order_id THEN GatewayMaxOrderId ELSE max_order_id)

\* polling: whatever times out, is answered late or is cut off, a create request is sent
\* only when no earlier order rests or can come to rest, and with a new id; for any
\* number of orders and reconnects, with asserts or without.
THEOREM OneOrderAtATimeHolds == Spec => OneOrderAtATime
<1> USE PollingAssumption
<1>1. PollingInv => Used \subseteq Ids /\ Held \subseteq Ids
  <2> SUFFICES ASSUME PollingInv PROVE Used \subseteq Ids /\ Held \subseteq Ids
    OBVIOUS
  <2>1. GatewayMaxOrderId \in Ids
    BY Highest DEF PollingInv
  <2>2. Used \subseteq Ids
    BY <2>1 DEF Used, Ids, PollingInv, TypeOK
  <2> QED
    BY <2>2 DEF Held, Working, PollingInv, IdsKnown
<1>2. Init => Slot!Init
  <2> SUFFICES ASSUME Init PROVE Slot!Init
    OBVIOUS
  <2>1. Used \subseteq Ids
    BY <1>1, PollingInit
  <2>2. Held = {}
    BY PollingInit, NoCreating DEF Init, PollingInv, CleanBefore, Quiet, Held
  <2>3. [s \in {0} |-> Held] = [s \in {0} |-> {}]
    BY <2>2
  <2> QED
    BY <2>1, <2>3 DEF Slot!Init, Used, Held, Working, Creating
<1>3. PollingInv /\ PollingInv' /\ Next => Slot!Next
  <2> SUFFICES ASSUME PollingInv, PollingInv', Next PROVE Slot!Next
    OBVIOUS
  <2>1. /\ GatewayMaxOrderId \in Ids /\ GatewayMaxOrderId' \in Ids
        /\ GatewayMaxOrderId <= GatewayMaxOrderId'
    BY Highest, HighestNext, HeldStep DEF PollingInv, IsHighest
  <2>2. /\ max_order_id \in Nat /\ max_order_id' \in Nat /\ max_order_id <= max_order_id'
    BY HeldStep DEF PollingInv, TypeOK
  <2>3. Used \subseteq Used'
    BY <2>1, <2>2 DEF Used, Ids
  <2>4. Used' \subseteq Ids /\ Held' \subseteq Ids
    <3>1. Used' \subseteq Ids
      BY <2>1 DEF Used, Ids, PollingInv, TypeOK
    <3> QED
      BY <3>1 DEF Held, Working, PollingInv, IdsKnown, Ids
  <2>5. \/ Held' = Held \/ Held' = {}
        \/ Held = {} /\ \E id \in Ids \ Used : id \in Used' /\ Held' = {id}
    <3>1. CASE Held' \subseteq Held
      BY <3>1 DEF PollingInv, OneOrder
    <3>2. CASE /\ Held = {} /\ Held' = {next_order_id} /\ next_order_id \in Ids
               /\ link = "up" /\ max_order_id' = next_order_id
      <4>1. GatewayMaxOrderId <= max_order_id
        BY <3>2 DEF PollingInv, IdsKnown
      <4>2. next_order_id \notin Used /\ next_order_id \in Used'
        BY <2>1, <2>2, <3>2, <4>1 DEF Used, Ids, next_order_id
      <4> QED
        BY <3>2, <4>2
    <3> QED
      BY <3>1, <3>2, HeldStep
  <2> DEFINE holds == [s \in {0} |-> Held]
             holds2 == [s \in {0} |-> Held']
  <2>6. /\ Used' \in SUBSET Ids /\ Used \subseteq Used'
        /\ holds2 \in [{0} -> SUBSET Ids]
        /\ \A s \in {0} : \/ holds2[s] = holds[s] \/ holds2[s] = {}
                          \/ holds[s] = {} /\ \E id \in Ids \ Used : id \in Used' /\ holds2[s] = {id}
        /\ \A s, t \in {0} : s # t => holds2[s] \intersect holds2[t] = {}
    BY <2>3, <2>4, <2>5
  <2> QED
    BY <2>6 DEF Slot!Next, Slot!Keep, Slot!Release, Slot!Create, Used, Held, Working, Creating, Ids
<1>4. UNCHANGED vars => UNCHANGED <<Used, [s \in {0} |-> Held]>>
  BY DEF vars, Used, Held, Working, Creating, GatewayMaxOrderId, Ids
<1> QED
  BY <1>2, <1>3, <1>4, PollingInvariant, PTL
     DEF Spec, OneOrderAtATime, Slot!Spec, Used, Held, Working, Creating

-----------------------------------------------------------------------------
(***************************************************************************)
(* A clean end.                                                            *)
(***************************************************************************)

LEMMA OneElement ==
    ASSUME NEW e PROVE /\ Head(<<e>>) = e /\ Tail(<<e>>) = << >> /\ Append(<< >>, e) = <<e>>
                       /\ <<e>> # << >>
OBVIOUS

LEMMA CleanStep ==
    ASSUME PollingInv, CleanInv, Next PROVE CleanInv'
<1> DEFINE create == [kind |-> "create", id |-> order_id]
           cancel == [kind |-> "cancel", id |-> order_id]
<1>0. /\ state \in States
      /\ order \in [Ids -> {"none", "working", "canceled", "completed"}]
  BY DEF PollingInv, TypeOK
<1>a. /\ create.kind = "create" /\ cancel.kind = "cancel"
      /\ create.id = order_id /\ cancel.id = order_id
  OBVIOUS
<1>b. \A kind, result : /\ Ack([kind |-> kind, id |-> order_id], result).kind = kind
                        /\ Ack([kind |-> kind, id |-> order_id], result).result = result
  BY DEF Ack
<1>c. state \in {"UNDEFINED", "CONNECTING", "READY", "CREATE_ORDER"} \/ link # "up" => Quiet
  BY DEF PollingInv, CleanBefore
<1>d. ASSUME UNCHANGED order PROVE Working' = Working
  BY <1>d DEF Working, Ids
<1>1. ASSUME NEW a \in advances, Advance(a[1], a[2]) PROVE CleanInv'
  <2>1. /\ Running /\ state = a[1] /\ UNCHANGED <<order_id, wire>>
        /\ trouble' = (trouble \/ state \in {"WAITING_CREATE", "WAITING_CANCEL"})
        /\ (state' = a[2] /\ UNCHANGED halted) \/ halted' = "same_state"
    BY <1>1 DEF Advance, to_state
  <2>2. \/ a[1] \in {"WAITING_CREATE", "WAITING_CANCEL"}
        \/ a[1] \in {"UNDEFINED", "READY"} /\ a[2] \in {"CONNECTING", "CREATE_ORDER"}
        \/ a[1] = "WORKING" /\ a[2] = "CANCEL_ORDER"
    BY DEF advances
  <2> QED
    BY <1>c, <1>d, <2>1, <2>2 DEF CleanInv, InStep, Running, wire, Quiet
<1>2. CASE Elapse \/ Stopped
  <2>1. UNCHANGED <<state, order_id, wire, trouble, halted>>
    BY <1>2 DEF Elapse, Stopped, vars, wire
  <2> QED
    BY <1>d, <2>1 DEF CleanInv, InStep, Running, wire, Quiet, WaitsFor
<1>3. CASE Signal
  BY <1>3 DEF Signal, CleanInv, Running
<1>4. CASE Done
  <2>1. Running /\ state = "DONE" /\ halted' = "done" /\ UNCHANGED <<order, trouble>>
    BY <1>4 DEF Done, wire
  <2> QED
    BY <1>c, <1>d, <2>1 DEF CleanInv, InStep, Running, Quiet
<1>5. CASE CreateOrder
  <2>1. Running /\ state = "CREATE_ORDER" /\ state' = "WAITING_CREATE" /\ UNCHANGED <<acks, trouble>>
    BY <1>5 DEF CreateOrder
  <2>2. halted' \in {"no", "fatal", "order_id"}
    BY <1>5 DEF CreateOrder, sent
  <2>3. ASSUME halted' = "no"
        PROVE  requests' = <<[kind |-> "create", id |-> order_id']>> /\ acks' = << >>
    BY <1>c, <1>5, <2>1, <2>3 DEF CreateOrder, Quiet
  <2> QED
    BY <2>1, <2>2, <2>3 DEF CleanInv, InStep, Running
<1>6. CASE CancelOrder
  <2>1. /\ Running /\ state = "CANCEL_ORDER" /\ state' = "WAITING_CANCEL"
        /\ UNCHANGED <<order_id, acks, trouble, link>>
    BY <1>6 DEF CancelOrder
  <2>2. halted' \in {"no", "fatal", "no_order"}
    BY <1>6 DEF CancelOrder, sent
  <2>3. ASSUME halted' = "no", requests = << >> PROVE requests' = <<cancel>>
    BY <1>6, <2>3 DEF CancelOrder
  <2> QED
    BY <2>1, <2>2, <2>3 DEF CleanInv, InStep, Running
<1>7. CASE Connected \/ Disconnected \/ DownloadEnd \/ LoseConnection
  <2>1. Running /\ link' # "up" /\ halted' # "done"
    BY <1>7 DEF Connected, Disconnected, DownloadEnd, LoseConnection, Running, to_state, asserted
  <2> QED
    BY <2>1 DEF CleanInv
<1>8. CASE Ready
  <2>1. halted' # "done" /\ (halted' = "no" => state' = "READY")
    BY <1>8 DEF Ready, Running, to_state
  <2> QED
    BY <2>1 DEF CleanInv, InStep, Running
<1>9. CASE OrderAck
  <2>1. /\ Running /\ acks # << >> /\ acks' = Tail(acks)
        /\ \/ state' = after_ack(Head(acks)) /\ UNCHANGED halted
           \/ halted' = "same_state"
        /\ trouble' = (trouble \/ Head(acks).result = "failed")
        /\ UNCHANGED <<order_id, requests, order, link>>
    BY <1>9 DEF OrderAck, to_state
  <2>2. ASSUME ~trouble', Running', link' = "up" PROVE InStep'
    <3>1. ~trouble /\ link = "up" /\ Head(acks).result # "failed" /\ state' = after_ack(Head(acks))
      BY <2>1, <2>2 DEF Running
    <3>2. \/ state = "WAITING_CREATE" /\ WaitsFor("create", "accepted")
          \/ state = "WAITING_CANCEL" /\ WaitsFor("cancel", "accepted") /\ Working = {}
      <4>1. InStep
        BY <2>1, <3>1 DEF CleanInv
      <4>2. state \in {"WAITING_CREATE", "WAITING_CANCEL"}
        BY <1>0, <1>c, <2>1, <4>1 DEF InStep, Quiet, States
      <4>3. \A kind : ~WaitsFor(kind, "failed")
        BY <1>b, <3>1, OneElement DEF WaitsFor
      <4> QED
        BY <2>1, <4>1, <4>2, <4>3 DEF InStep
    <3>3. CASE WaitsFor("create", "accepted")
      <4>1. requests' = << >> /\ acks' = << >> /\ state' = "WORKING"
        BY <1>b, <2>1, <3>1, <3>3, OneElement DEF WaitsFor, after_ack
      <4> QED
        BY <4>1 DEF InStep
    <3>4. CASE WaitsFor("cancel", "accepted") /\ Working = {}
      <4>1. requests' = << >> /\ acks' = << >> /\ state' = "DONE"
        BY <1>b, <2>1, <3>1, <3>4, OneElement DEF WaitsFor, after_ack
      <4> QED
        BY <1>d, <2>1, <3>4, <4>1 DEF InStep, Quiet
    <3> QED
      BY <3>2, <3>3, <3>4
  <2> QED
    BY <2>1, <2>2 DEF CleanInv, Running
<1>10. CASE Accept \/ Reject
  <2> DEFINE r == Head(requests)
  <2>1. /\ Running /\ requests # << >> /\ requests' = Tail(requests)
        /\ \/ acks' = Append(acks, Ack(r, "failed"))
           \/ /\ acks' = Append(acks, Ack(r, "accepted"))
              /\ order' = [order EXCEPT ![r.id] = IF r.kind = "create" THEN "working" ELSE "canceled"]
        /\ UNCHANGED <<state, order_id, link, trouble, halted>>
    BY <1>10 DEF Accept, Reject
  <2>2. ASSUME ~trouble, link = "up" PROVE InStep'
    <3>1. InStep
      BY <2>1, <2>2 DEF CleanInv
    <3>2. \/ state = "WAITING_CREATE" /\ requests = <<create>> /\ acks = << >>
          \/ state = "WAITING_CANCEL" /\ requests = <<cancel>> /\ acks = << >>
      BY <1>0, <1>c, <2>1, <3>1 DEF InStep, Quiet, States, WaitsFor
    <3>3. CASE state = "WAITING_CREATE" /\ requests = <<create>> /\ acks = << >>
      <4>1. requests' = << >> /\ \E result \in {"accepted", "failed"} : acks' = <<Ack(create, result)>>
        BY <2>1, <3>3, OneElement
      <4> QED
        BY <2>1, <3>3, <4>1 DEF InStep, WaitsFor
    <3>4. CASE state = "WAITING_CANCEL" /\ requests = <<cancel>> /\ acks = << >>
      <4> HIDE DEF cancel
      <4>1. requests' = << >> /\ r = cancel
        BY <2>1, <3>4, OneElement
      <4>2. CASE acks' = Append(acks, Ack(r, "failed"))
        BY <2>1, <3>4, <4>1, <4>2, OneElement DEF InStep, WaitsFor, cancel
      <4>3. CASE acks' = Append(acks, Ack(r, "accepted"))
                 /\ order' = [order EXCEPT ![order_id] = "canceled"]
        <5>1. Working' = {}
          BY <1>0, <4>3 DEF PollingInv, OneOrder, Held, Working, Ids
        <5> QED
          BY <2>1, <3>4, <4>1, <4>3, <5>1, OneElement DEF InStep, WaitsFor, cancel
      <4> QED
        BY <1>a, <2>1, <4>1, <4>2, <4>3
    <3> QED
      BY <3>2, <3>3, <3>4
  <2> QED
    BY <2>1, <2>2 DEF CleanInv, Running
<1>11. ASSUME NEW i \in Ids, Fill(i) PROVE CleanInv'
  <2>1. /\ Running /\ order' = [order EXCEPT ![i] = "completed"]
        /\ UNCHANGED <<state, order_id, requests, acks, link, trouble, halted>>
    BY <1>11 DEF Fill
  <2>2. Working' \subseteq Working
    BY <1>0, <2>1 DEF Working, Ids
  <2> QED
    BY <2>1, <2>2 DEF CleanInv, InStep, Running, Quiet, WaitsFor
<1> QED
  BY <1>1, <1>2, <1>3, <1>4, <1>5, <1>6, <1>7, <1>8, <1>9, <1>10, <1>11 DEF Next

\* polling: a program that ends by itself with no request failed or timed out has no
\* order resting at the gateway, whatever order its answers and the ten seconds come in.
THEOREM CleanExitHolds == Spec => []CleanExit
<1>1. Init => CleanInv
  BY DEF Init, CleanInv, Running
<1>2. PollingInv /\ CleanInv /\ [Next]_vars => CleanInv'
  <2>1. ASSUME CleanInv, UNCHANGED vars PROVE CleanInv'
    BY <2>1 DEF vars, CleanInv, InStep, WaitsFor, Quiet, Working, Running, Ids
  <2> QED
    BY <2>1, CleanStep
<1>3. CleanInv => CleanExit
  BY DEF CleanInv, CleanExit, Working
<1> QED
  BY <1>1, <1>2, <1>3, PollingInvariant, PTL DEF Spec

-----------------------------------------------------------------------------
(***************************************************************************)
(* The program comes to an end: a measure that every step lowers.          *)
(***************************************************************************)

\* How far a state is from DONE.  WORKING is above what a late cancel can undo, and
\* a create request or its late ack, which leads back to WORKING, above that.
Rank == [s \in States |->
    CASE s = "UNDEFINED" -> 12 [] s = "CONNECTING" -> 11 [] s = "READY" -> 10
      [] s = "CREATE_ORDER" -> 9 [] s = "WORKING" -> 5 [] s = "CANCEL_ORDER" -> 4
      [] s = "DONE" -> 0 [] OTHER -> 1]

CreateIndexes(q) == {i \in DOMAIN q : q[i].kind = "create"}

CreatesIn(q) == Cardinality(CreateIndexes(q))

StepsToGo ==
    2 * (Rank[state] + 5 * (CreatesIn(requests) + CreatesIn(acks)) + 2 * Len(requests) + Len(acks))
      + (IF due THEN 0 ELSE 1)

\* A step of the connected program ends it or brings its end nearer; a fill and a
\* stuttering step do not touch it.
NearsItsEnd ==
    link = "up" /\ link' = "up" /\ Running' =>
        /\ StepsToGo \in Nat /\ StepsToGo' \in Nat
        /\ StepsToGo' < StepsToGo \/ UNCHANGED <<state, due, requests, acks>>

\* The connected program is never in a state in which refresh waits for an event.
NeverWaits == Running /\ link = "up" => state \notin {"UNDEFINED", "CONNECTING"}

LEMMA CountCreates ==
    ASSUME NEW S, NEW q \in Seq(S)
    PROVE  IsFiniteSet(CreateIndexes(q)) /\ CreatesIn(q) \in Nat
<1>1. Len(q) \in Nat /\ DOMAIN q = 1..Len(q)
  OBVIOUS
<1>2. IsFiniteSet(1..Len(q)) /\ CreateIndexes(q) \in SUBSET (1..Len(q))
  BY <1>1, FS_Interval DEF CreateIndexes
<1>3. IsFiniteSet(CreateIndexes(q))
  BY <1>2, FS_Subset
<1> QED
  BY <1>3, FS_CardinalityType DEF CreatesIn

\* A message that joins a queue is counted.
LEMMA CountAppended ==
    ASSUME NEW S, NEW q \in Seq(S), NEW r \in S
    PROVE  /\ Len(Append(q, r)) = Len(q) + 1
           /\ CreatesIn(Append(q, r)) = CreatesIn(q) + (IF r.kind = "create" THEN 1 ELSE 0)
<1> DEFINE n == Len(q) + 1
           a == Append(q, r)
<1>1. /\ Len(q) \in Nat /\ DOMAIN q = 1..Len(q) /\ Len(a) = n /\ DOMAIN a = 1..n
      /\ a[n] = r /\ \A i \in 1..Len(q) : a[i] = q[i]
  BY AppendProperties
<1>2. 1..n = (1..Len(q)) \union {n} /\ n \notin 1..Len(q)
  BY <1>1
<1>3. IsFiniteSet(CreateIndexes(q)) /\ CreatesIn(q) \in Nat
  BY CountCreates
<1>4. CASE r.kind = "create"
  <2>1. CreateIndexes(a) = CreateIndexes(q) \union {n} /\ n \notin CreateIndexes(q)
    BY <1>1, <1>2, <1>4 DEF CreateIndexes
  <2> QED
    BY <1>1, <1>3, <1>4, <2>1, FS_AddElement DEF CreatesIn
<1>5. CASE r.kind # "create"
  <2>1. CreateIndexes(a) = CreateIndexes(q)
    BY <1>1, <1>2, <1>5 DEF CreateIndexes
  <2> QED
    BY <1>1, <1>3, <1>5, <2>1 DEF CreatesIn
<1> QED
  BY <1>4, <1>5

\* The message that leaves a queue is counted no more.
LEMMA CountTail ==
    ASSUME NEW S, NEW q \in Seq(S), q # << >>
    PROVE  /\ Tail(q) \in Seq(S) /\ Head(q) \in S /\ Len(Tail(q)) = Len(q) - 1
           /\ CreatesIn(q) = CreatesIn(Tail(q)) + (IF Head(q).kind = "create" THEN 1 ELSE 0)
<1> DEFINE t == Tail(q)
           f == [i \in CreateIndexes(t) |-> i + 1]
           T == CreateIndexes(q) \ {1}
<1>1. /\ Len(q) \in Nat \ {0} /\ DOMAIN q = 1..Len(q) /\ t \in Seq(S) /\ Len(t) = Len(q) - 1
      /\ DOMAIN t = 1..(Len(q) - 1) /\ Head(q) = q[1] /\ Head(q) \in S
      /\ \A i \in 1..(Len(q) - 1) : t[i] = q[i + 1]
  BY HeadTailProperties, EmptySeq
<1> HIDE DEF t
<1>2. IsFiniteSet(CreateIndexes(t)) /\ CreatesIn(t) \in Nat /\ IsFiniteSet(CreateIndexes(q))
  BY <1>1, CountCreates
<1>3. ASSUME NEW i \in CreateIndexes(t) PROVE i \in Int /\ i + 1 \in T
  BY <1>1 DEF CreateIndexes
<1>4. ASSUME NEW k \in T PROVE k - 1 \in CreateIndexes(t) /\ k = (k - 1) + 1
  <2>1. k \in 2..Len(q) /\ q[k].kind = "create"
    BY <1>1 DEF CreateIndexes
  <2>2. k - 1 \in 1..(Len(q) - 1) /\ k = (k - 1) + 1
    BY <1>1, <2>1
  <2>3. t[k - 1] = q[k]
    BY <1>1, <2>2
  <2> QED
    BY <1>1, <2>1, <2>2, <2>3 DEF CreateIndexes
<1>5. f \in Bijection(CreateIndexes(t), T)
  <2>1. f \in [CreateIndexes(t) -> T]
    BY <1>3
  <2>2. \A i, j \in CreateIndexes(t) : f[i] = f[j] => i = j
    BY <1>3
  <2>3. \A k \in T : \E i \in CreateIndexes(t) : f[i] = k
    BY <1>4
  <2> HIDE DEF f, T
  <2>4. f \in Injection(CreateIndexes(t), T)
    BY <2>1, <2>2 DEF Injection, IsInjective
  <2>5. f \in Surjection(CreateIndexes(t), T)
    BY <2>1, <2>3 DEF Surjection
  <2> QED
    BY <2>4, <2>5 DEF Bijection
<1>6. Cardinality(T) = CreatesIn(t)
  <2> HIDE DEF T, f
  <2>1. ExistsBijection(CreateIndexes(t), T)
    BY <1>5 DEF ExistsBijection
  <2> QED
    BY <1>2, <2>1, FS_Bijection DEF CreatesIn
<1>7. 1 \in CreateIndexes(q) <=> Head(q).kind = "create"
  BY <1>1 DEF CreateIndexes
<1>8. Cardinality(T) = IF 1 \in CreateIndexes(q) THEN CreatesIn(q) - 1 ELSE CreatesIn(q)
  BY <1>2, FS_RemoveElement DEF CreatesIn
<1>9. CreatesIn(q) \in Nat
  BY CountCreates
<1> QED
  BY <1>1, <1>2, <1>6, <1>7, <1>8, <1>9 DEF t

LEMMA Ranks ==
    /\ Rank["UNDEFINED"] = 12 /\ Rank["CONNECTING"] = 11 /\ Rank["READY"] = 10
    /\ Rank["CREATE_ORDER"] = 9 /\ Rank["WAITING_CREATE"] = 1 /\ Rank["WORKING"] = 5
    /\ Rank["CANCEL_ORDER"] = 4 /\ Rank["WAITING_CANCEL"] = 1 /\ Rank["DONE"] = 0
BY DEF Rank, States

LEMMA RankType == \A s \in States : Rank[s] \in Nat
BY Ranks DEF States

\* The measure, with its parts named.
Measure(rank, creates, requested, answered, waits) ==
    2 * (rank + 5 * creates + 2 * requested + answered) + (IF waits THEN 1 ELSE 0)

LEMMA StepsMeasured ==
    ASSUME TypeOK
    PROVE  /\ Rank[state] \in Nat /\ CreatesIn(requests) \in Nat /\ CreatesIn(acks) \in Nat
           /\ Len(requests) \in Nat /\ Len(acks) \in Nat
           /\ StepsToGo = Measure(Rank[state], CreatesIn(requests) + CreatesIn(acks),
                                  Len(requests), Len(acks), ~due)
<1>1. requests \in Seq(Request) /\ acks \in Seq(Answer) /\ state \in States
  BY DEF TypeOK
<1>2. /\ Rank[state] \in Nat /\ CreatesIn(requests) \in Nat /\ CreatesIn(acks) \in Nat
      /\ Len(requests) \in Nat /\ Len(acks) \in Nat
  <2> HIDE DEF Request, Answer
  <2> QED
    BY <1>1, CountCreates, RankType
<1> QED
  BY <1>2 DEF StepsToGo, Measure

LEMMA StepsMeasuredNext ==
    ASSUME TypeOK'
    PROVE  /\ Rank[state'] \in Nat /\ CreatesIn(requests') \in Nat /\ CreatesIn(acks') \in Nat
           /\ Len(requests') \in Nat /\ Len(acks') \in Nat
           /\ StepsToGo' = Measure(Rank[state'], CreatesIn(requests') + CreatesIn(acks'),
                                   Len(requests'), Len(acks'), ~due')
<1>1. requests' \in Seq(Request) /\ acks' \in Seq(Answer) /\ state' \in States
  BY DEF TypeOK
<1>2. /\ Rank[state'] \in Nat /\ CreatesIn(requests') \in Nat /\ CreatesIn(acks') \in Nat
      /\ Len(requests') \in Nat /\ Len(acks') \in Nat
  <2> HIDE DEF Request, Answer
  <2> QED
    BY <1>1, CountCreates, RankType
<1>3. StepsToGo' = 2 * (Rank[state'] + 5 * (CreatesIn(requests') + CreatesIn(acks'))
                        + 2 * Len(requests') + Len(acks')) + (IF due' THEN 0 ELSE 1)
  BY DEF StepsToGo
<1> QED
  BY <1>2, <1>3 DEF Measure

\* A change of state restarts the ten seconds, and must be worth that.
LEMMA Lower ==
    ASSUME NEW r \in Nat, NEW c \in Nat, NEW l \in Nat, NEW k \in Nat, NEW w,
           NEW r1 \in Nat, NEW c1 \in Nat, NEW l1 \in Nat, NEW k1 \in Nat, NEW w1,
           \/ r1 + 5 * c1 + 2 * l1 + k1 < r + 5 * c + 2 * l + k
           \/ r1 = r /\ c1 = c /\ l1 = l /\ k1 = k /\ w /\ ~w1
    PROVE  /\ Measure(r, c, l, k, w) \in Nat /\ Measure(r1, c1, l1, k1, w1) \in Nat
           /\ Measure(r1, c1, l1, k1, w1) < Measure(r, c, l, k, w)
BY DEF Measure

\* Each step of the connected program lowers the measure, ends it, or is a fill.
LEMMA NearsStep ==
    ASSUME PollingInv, PollingInv', Next PROVE NearsItsEnd
<1> SUFFICES ASSUME link = "up", link' = "up", Running'
             PROVE  /\ StepsToGo \in Nat /\ StepsToGo' \in Nat
                    /\ StepsToGo' < StepsToGo \/ UNCHANGED <<state, due, requests, acks>>
  BY DEF NearsItsEnd
<1> DEFINE r == Rank[state]
           c == CreatesIn(requests) + CreatesIn(acks)
           l == Len(requests)
           k == Len(acks)
           r1 == Rank[state']
           c1 == CreatesIn(requests') + CreatesIn(acks')
           l1 == Len(requests')
           k1 == Len(acks')
<1>1. /\ r \in Nat /\ c \in Nat /\ l \in Nat /\ k \in Nat /\ CreatesIn(requests) \in Nat
      /\ CreatesIn(acks) \in Nat /\ StepsToGo = Measure(r, c, l, k, ~due)
  BY StepsMeasured DEF PollingInv
<1>2. /\ r1 \in Nat /\ c1 \in Nat /\ l1 \in Nat /\ k1 \in Nat /\ CreatesIn(requests') \in Nat
      /\ CreatesIn(acks') \in Nat /\ StepsToGo' = Measure(r1, c1, l1, k1, ~due')
  BY StepsMeasuredNext DEF PollingInv
<1>3. requests \in Seq(Request) /\ acks \in Seq(Answer) /\ state \in States /\ state' \in States
  BY DEF PollingInv, TypeOK
<1>4. SUFFICES \/ r1 + 5 * c1 + 2 * l1 + k1 < r + 5 * c + 2 * l + k
               \/ r1 = r /\ c1 = c /\ l1 = l /\ k1 = k /\ ~due /\ due'
               \/ UNCHANGED <<state, due, requests, acks>>
  <2>1. Measure(r, c, l, k, ~due) \in Nat /\ Measure(r1, c1, l1, k1, ~due') \in Nat
    <3> HIDE DEF r, c, l, k, r1, c1, l1, k1
    <3> QED
      BY <1>1, <1>2 DEF Measure
  <2> HIDE DEF r, c, l, k, r1, c1, l1, k1
  <2> QED
    BY <1>1, <1>2, <1>4, <2>1, Lower
<1>5. Running
  BY DEF Next, Running, vars, Elapse, Advance, CreateOrder, CancelOrder, Done, Signal, Connected,
     Disconnected, DownloadEnd, Ready, OrderAck, LoseConnection, Accept, Reject, Fill, Stopped
<1>6. CASE Elapse
  BY <1>6 DEF Elapse, wire
<1>7. ASSUME NEW a \in advances, Advance(a[1], a[2])
      PROVE  r1 + 5 * c1 + 2 * l1 + k1 < r + 5 * c + 2 * l + k
  <2>1. state = a[1] /\ state' = a[2] /\ requests' = requests /\ acks' = acks
    BY <1>7 DEF Advance, to_state, Running, wire
  <2>2. r1 < r /\ c1 = c /\ l1 = l /\ k1 = k
    BY <2>1, Ranks DEF advances
  <2> HIDE DEF r, c, l, k, r1, c1, l1, k1
  <2> QED
    BY <1>1, <1>2, <2>2
<1>8. CASE CreateOrder
  <2> DEFINE m == [kind |-> "create", id |-> next_order_id]
  <2>1. /\ state = "CREATE_ORDER" /\ state' = "WAITING_CREATE" /\ acks' = acks
        /\ requests' = Append(requests, m)
    BY <1>8 DEF CreateOrder, Running
  <2>2. m \in Request /\ m.kind = "create"
    BY DEF Request, next_order_id, PollingInv, TypeOK
  <2> HIDE DEF m
  <2>3. l1 = l + 1 /\ CreatesIn(requests') = CreatesIn(requests) + 1
    BY <1>3, <2>1, <2>2, CountAppended
  <2>4. r = 9 /\ r1 = 1 /\ k1 = k /\ c1 = c + 1
    BY <1>1, <2>1, <2>3, Ranks
  <2> HIDE DEF r, c, l, k, r1, c1, l1, k1
  <2> QED
    BY <1>1, <1>2, <2>3, <2>4
<1>9. CASE CancelOrder
  <2> DEFINE m == [kind |-> "cancel", id |-> order_id]
  <2>1. /\ state = "CANCEL_ORDER" /\ state' = "WAITING_CANCEL" /\ acks' = acks
        /\ requests' = Append(requests, m)
    BY <1>9 DEF CancelOrder, Running
  <2>2. m \in Request /\ m.kind # "create"
    BY DEF Request, PollingInv, TypeOK
  <2> HIDE DEF m
  <2>3. l1 = l + 1 /\ CreatesIn(requests') = CreatesIn(requests)
    BY <1>1, <1>3, <2>1, <2>2, CountAppended
  <2>4. r = 4 /\ r1 = 1 /\ k1 = k /\ c1 = c
    BY <1>1, <2>1, <2>3, Ranks
  <2> HIDE DEF r, c, l, k, r1, c1, l1, k1
  <2> QED
    BY <1>1, <1>2, <2>3, <2>4
<1>10. CASE OrderAck
  <2> DEFINE h == Head(acks)
  <2>1. /\ acks # << >> /\ acks' = Tail(acks) /\ requests' = requests /\ state' = after_ack(h)
    BY <1>10 DEF OrderAck, to_state, Running
  <2>2. /\ h \in Answer /\ k1 = k - 1
        /\ CreatesIn(acks) = CreatesIn(acks') + (IF h.kind = "create" THEN 1 ELSE 0)
    BY <1>3, <2>1, CountTail
  <2>3. r1 = 0 \/ (h.kind = "create" /\ r1 = 5)
    BY <2>1, <2>2, Ranks DEF after_ack, Answer
  <2>4. l1 = l /\ c = c1 + (IF h.kind = "create" THEN 1 ELSE 0)
    BY <1>1, <1>2, <2>1, <2>2
  <2> HIDE DEF r, c, l, k, r1, c1, l1, k1, h
  <2> QED
    BY <1>1, <1>2, <2>2, <2>3, <2>4
<1>11. CASE Accept \/ Reject
  <2> DEFINE h == Head(requests)
  <2>1. /\ requests # << >> /\ requests' = Tail(requests) /\ state' = state
        /\ acks' = Append(acks, Ack(h, "accepted")) \/ acks' = Append(acks, Ack(h, "failed"))
    BY <1>11 DEF Accept, Reject
  <2>2. /\ h \in Request /\ l1 = l - 1
        /\ CreatesIn(requests) = CreatesIn(requests') + (IF h.kind = "create" THEN 1 ELSE 0)
    BY <1>3, <2>1, CountTail
  <2>3. ASSUME NEW result \in {"accepted", "failed"}
        PROVE  Ack(h, result) \in Answer /\ Ack(h, result).kind = h.kind
    <3> HIDE DEF h
    <3> QED
      BY <2>2 DEF Ack, Answer, Request
  <2> HIDE DEF h, Ack
  <2>4. k1 = k + 1 /\ CreatesIn(acks') = CreatesIn(acks) + (IF h.kind = "create" THEN 1 ELSE 0)
    <3>1. PICK result \in {"accepted", "failed"} : acks' = Append(acks, Ack(h, result))
      BY <2>1
    <3>2. PICK a \in Answer : a = Ack(h, result) /\ a.kind = h.kind
      BY <2>3
    <3>3. acks' = Append(acks, a)
      BY <3>1, <3>2
    <3> HIDE DEF Answer
    <3> QED
      BY <1>3, <3>2, <3>3, CountAppended
  <2>5. r1 = r /\ c1 = c
    BY <1>1, <1>2, <2>1, <2>2, <2>4
  <2> HIDE DEF r, c, l, k, r1, c1, l1, k1
  <2> QED
    BY <1>1, <1>2, <2>2, <2>4, <2>5
<1>12. CASE \E i \in Ids : Fill(i)
  BY <1>12 DEF Fill
<1>13. ~Done /\ ~Signal /\ ~Stopped /\ ~Connected /\ ~Disconnected /\ ~DownloadEnd /\ ~Ready
       /\ ~LoseConnection
  BY <1>5 DEF Running, Done, Signal, Stopped, Connected, Disconnected, DownloadEnd, Ready,
     LoseConnection
<1> QED
  BY <1>6, <1>7, <1>8, <1>9, <1>10, <1>11, <1>12, <1>13 DEF Next

\* polling: once connected the program is on its way to its end.  Each step of the program
\* or the gateway lowers a measure of what is left to do, also a late answer that leads
\* back to WORKING or repeats DONE, until the program ends or loses the connection; and
\* refresh always has something to do.  This is the safety part of Terminates.
THEOREM EndApproaches == Spec => [][NearsItsEnd]_vars /\ []NeverWaits
<1>1. Init => NeverWaits
  BY DEF Init, NeverWaits
<1>2. PollingInv /\ NeverWaits /\ [Next]_vars => NeverWaits'
  <2> SUFFICES ASSUME PollingInv, NeverWaits, [Next]_vars PROVE NeverWaits'
    OBVIOUS
  <2>1. CASE UNCHANGED vars
    BY <2>1 DEF vars, NeverWaits, Running
  <2>2. ASSUME NEW a \in advances, Advance(a[1], a[2]) PROVE NeverWaits'
    BY <2>2 DEF advances, Advance, to_state, wire, NeverWaits, Running
  <2>3. CASE OrderAck
    BY <2>3 DEF OrderAck, to_state, after_ack, NeverWaits, Running
  <2>4. CASE ~OrderAck /\ ~\E a \in advances : Advance(a[1], a[2])
    BY <2>4 DEF Next, NeverWaits, Running, vars, wire, to_state, Elapse, CreateOrder, CancelOrder,
       Done, Signal, Connected, Disconnected, DownloadEnd, Ready, LoseConnection, Accept, Reject,
       Fill, Stopped
  <2> QED
    BY <2>2, <2>3, <2>4
<1>3. PollingInv /\ PollingInv' /\ [Next]_vars => [NearsItsEnd]_vars
  BY NearsStep
<1> QED
  BY <1>1, <1>2, <1>3, PollingInvariant, PTL DEF Spec
=============================================================================
