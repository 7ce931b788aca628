--------------------------- MODULE Example3Proofs ---------------------------
(***************************************************************************)
(* Proofs about example-3, for any number of orders, requests and lost     *)
(* connections, any lot, any position held at first and any warm-up.       *)
(* Wherever the account's download lies, the ready flag is current and the *)
(* strategy trades on a warmed-up model only (BaseInv).  When it lies      *)
(* inside the market's, the strategy also implements OrderSlot and knows   *)
(* its order, and its position is that of the account and stays within one *)
(* lot (Example3Inv).                                                      *)
(***************************************************************************)
EXTENDS Example3, SequenceTheorems, FiniteSetTheorems, TLAPS

Statuses == {"none", "working", "completed", "canceled", "rejected"}

Final == {"completed", "canceled", "rejected"}

Orders == [side : Sides, status : Statuses, traded : 0..Lot]

Requests == [kind : {"create", "cancel"}, id : Ids, side : Sides]

\* The market's download has no account.
Accounts == {"none", "account"}

Events ==
    [event : {"connected", "disconnected"}] \union
    [event : {"download_begin"}, account : Accounts] \union
    [event : {"order"}, id : Ids, side : Sides, status : Statuses, traded : 0..Lot] \union
    [event : {"position"}, long : Nat, short : Nat] \union
    [event : {"download_end"}, account : Accounts, max_order_id : 0..MaxOrders]

Instruments ==
    [connected : BOOLEAN, download : BOOLEAN, ref : BOOLEAN, multiplier : BOOLEAN,
     open : BOOLEAN, market_data : BOOLEAN, order_management : BOOLEAN, full : BOOLEAN,
     long : Int, short : Int, ready : BOOLEAN, last_order_id : Nat, last_traded : Int]

TypeOK ==
    /\ inst \in Instruments
    /\ max_order_id \in Nat /\ max_order_id <= MaxOrders
    /\ working_order_id \in 0..MaxOrders
    /\ working_order_id # 0 => working_side \in Sides
    /\ requests \in Seq(Requests) /\ inbox \in Seq(Events)
    /\ order \in [Ids -> Orders]
    /\ \A i \in Ids : order[i].status = "none" => order[i].traded = 0
    /\ exposure \in Int
    /\ up \in BOOLEAN

Working == {i \in Ids : order[i].status = "working"}

\* The gateway always knows an order, that of the earlier session.
KnowsSome == \E m \in KnownIds : \A i \in KnownIds : i <= m

\* The number of events that are unhandled.
left == Len(inbox)

IsBegin(e, account) == e.event = "download_begin" /\ e.account = account

IsEnd(e, account) == e.event = "download_end" /\ e.account = account

\* The account's download lies inside the market's.
Downloading == left > 0 /\ IsEnd(inbox[left], "none")

\* The highest order id of the gateway, once the account's download has ended.
Highest == IF left > 1 THEN inbox[left - 1].max_order_id ELSE max_order_id

\* The flags of an instrument that is not connected are those of a new one.
Disconnects == ~inst.connected => ~inst.download /\ ~inst.ref /\ inst.last_order_id = 0

\* Without a connection nothing is at work, and only the disconnect is unhandled.
Down ==
    ~up =>
        /\ requests = << >> /\ Working = {}
        /\ left = 0 \/ (left = 1 /\ inbox[1].event = "disconnected")
        /\ left = 0 => ~inst.connected

\* From the k-th event on there are the orders, all of them final, and three more.
FinalOrders(k) ==
    \A j \in k..(left - 3) : /\ inbox[j].event = "order" /\ inbox[j].status \in Final
                             /\ inbox[j].id <= Highest

\* The events of a download that are still to come: when the orders are handled no
\* order is working, and when the position is handled it is that of the account.
Download ==
    up /\ Downloading =>
        /\ requests = << >> /\ Working = {}
        /\ \A i \in KnownIds : i <= Highest
        /\ inst.last_order_id <= Highest
        /\ left > 1 => IsEnd(inbox[left - 1], "account")
        /\ left > 2 => /\ inbox[left - 2].event = "position"
                       /\ inbox[left - 2].long - inbox[left - 2].short = exposure
        /\ left < 3 => position(inst) = exposure
        /\ \/ /\ left > 6 /\ inbox[1].event = "connected" /\ IsBegin(inbox[2], "none")
              /\ IsBegin(inbox[3], "account") /\ FinalOrders(4) /\ ~inst.connected
           \/ /\ left > 5 /\ IsBegin(inbox[1], "none") /\ IsBegin(inbox[2], "account")
              /\ FinalOrders(3) /\ inst.connected /\ ~inst.download /\ ~inst.ref
           \/ /\ left > 4 /\ IsBegin(inbox[1], "account")
              /\ FinalOrders(2) /\ inst.connected /\ inst.download
           \/ /\ FinalOrders(1) /\ inst.connected /\ inst.download
              /\ left < 4 => working_order_id = 0

signed(side, x) == IF side = "BUY" THEN x ELSE -x

traded == order[working_order_id].traded

status == order[working_order_id].status

\* How much of the working order the instrument has counted.
counted == IF inst.last_order_id = working_order_id THEN inst.last_traded ELSE 0

\* After the download the connection is in use and ids are counted from the highest.
Connection ==
    up /\ ~Downloading =>
        /\ inst.connected /\ ~inst.download
        /\ inst.last_order_id <= max_order_id /\ working_order_id <= max_order_id
        /\ \A i \in KnownIds : i <= max_order_id

\* All unhandled events are about the working order, the last one says how it is now
\* and only the last one can be final; without them the strategy is up to date.
Unhandled ==
    up /\ ~Downloading =>
        /\ \A k \in 1..left : /\ inbox[k].event = "order" /\ inbox[k].id = working_order_id
                              /\ inbox[k].side = working_side
                              /\ k < left => inbox[k].status \notin Final
        /\ working_order_id = 0 => left = 0
        /\ working_order_id # 0 /\ left > 0 =>
             inbox[left].traded = traded /\ inbox[left].status = status
        /\ working_order_id # 0 /\ left = 0 => counted = traded /\ status \notin Final

\* One create request at most, for the working order, which nobody else is.
AtWork ==
    up /\ ~Downloading =>
        /\ \A k \in DOMAIN requests : requests[k].kind = "create" =>
             /\ requests[k].id = working_order_id /\ requests[k].side = working_side
             /\ status = "none"
             /\ \A l \in DOMAIN requests : requests[l].kind = "create" => k = l
        /\ Working \subseteq {working_order_id}
        /\ working_order_id # 0 =>
             /\ status = "none" => traded = 0 /\ left = 0
             /\ status # "none" => order[working_order_id].side = working_side

\* The position lacks what is traded and not counted, and the position the working
\* order was created in is one it reduces, or zero.
Position ==
    up /\ ~Downloading =>
        /\ working_order_id = 0 => position(inst) = exposure
        /\ working_order_id # 0 =>
             LET base == exposure - signed(working_side, traded)
             IN  /\ position(inst) + signed(working_side, traded - counted) = exposure
                 /\ working_side = "BUY" => -Lot <= base /\ base <= 0
                 /\ working_side = "SELL" => 0 <= base /\ base <= Lot

Example3Inv ==
    /\ TypeOK /\ KnowsSome /\ ReadyIsCurrent /\ Disconnects /\ Down /\ Download
    /\ Connection /\ Unhandled /\ AtWork /\ Position /\ PositionLimited

-----------------------------------------------------------------------------
(***************************************************************************)
(* Events, the queue and the instrument.                                   *)
(***************************************************************************)

LEMMA OrderEvents ==
    ASSUME NEW e \in Events, e.event = "order"
    PROVE  /\ e.id \in Ids /\ e.side \in Sides /\ e.status \in Statuses /\ e.traded \in 0..Lot
BY DEF Events

LEMMA PositionEvents ==
    ASSUME NEW e \in Events, e.event = "position" PROVE e.long \in Nat /\ e.short \in Nat
BY DEF Events

LEMMA EndEvents ==
    ASSUME NEW e \in Events, e.event = "download_end" PROVE e.max_order_id \in 0..MaxOrders
BY DEF Events

LEMMA EndTypes ==
    ASSUME NEW account \in Accounts, NEW m \in 0..MaxOrders
    PROVE  Ends(account, m) \in Events /\ IsEnd(Ends(account, m), account)
BY DEF Ends, IsEnd, Events

LEMMA BeginTypes ==
    ASSUME NEW account \in Accounts
    PROVE  Begins(account) \in Events /\ IsBegin(Begins(account), account)
BY DEF Begins, IsBegin, Events

LEMMA PositionEventType ==
    ASSUME exposure \in Int
    PROVE  /\ PositionEvent \in Events /\ PositionEvent.event = "position"
           /\ PositionEvent.long - PositionEvent.short = exposure
BY DEF PositionEvent, Events

LEMMA OrderEventType ==
    ASSUME NEW i \in Ids, NEW o \in Orders
    PROVE  /\ OrderEvent(i, o) \in Events
           /\ OrderEvent(i, o).event = "order" /\ OrderEvent(i, o).id = i
           /\ OrderEvent(i, o).side = o.side /\ OrderEvent(i, o).status = o.status
           /\ OrderEvent(i, o).traded = o.traded
BY DEF OrderEvent, Events, Orders

\* The queue of events without its first one.
LEMMA Popped ==
    ASSUME inbox \in Seq(Events), inbox # << >>, inbox' = Tail(inbox)
    PROVE  /\ inbox' \in Seq(Events) /\ left \in Nat \ {0} /\ left' = left - 1
           /\ Head(inbox) = inbox[1]
           /\ \A k \in 1..left : inbox[k] \in Events
           /\ \A k \in 1..(left - 1) : inbox'[k] = inbox[k + 1]
<1> HIDE DEF Events
<1> QED
  BY EmptySeq, ElementOfSeq DEF left

\* The queue of events with one more.
LEMMA Pushed ==
    ASSUME inbox \in Seq(Events), NEW e \in Events, inbox' = Append(inbox, e)
    PROVE  /\ inbox' \in Seq(Events) /\ left \in Nat /\ left' = left + 1
           /\ inbox'[left + 1] = e
           /\ \A k \in 1..left : inbox'[k] = inbox[k]
<1> HIDE DEF Events
<1> QED
  BY AppendProperties DEF left

LEMMA CheckReady ==
    ASSUME NEW i \in Instruments
    PROVE  LET j == check_ready(i)
           IN  /\ j \in Instruments /\ j.ready = tradable(j)
               /\ j.connected = i.connected /\ j.download = i.download /\ j.ref = i.ref
               /\ j.long = i.long /\ j.short = i.short
               /\ j.last_order_id = i.last_order_id /\ j.last_traded = i.last_traded
BY DEF Instruments, check_ready, tradable

LEMMA OnOrderUpdate ==
    ASSUME NEW i \in Instruments, NEW u, u.id \in Ids, u.side \in Sides, u.traded \in 0..Lot
    PROVE  LET j == on_order_update(i, u)
               last == IF i.last_order_id # u.id THEN 0 ELSE i.last_traded
           IN  /\ j \in Instruments /\ j.ready = i.ready /\ tradable(j) = tradable(i)
               /\ j.connected = i.connected /\ j.download = i.download /\ j.ref = i.ref
               /\ position(j) = position(i) + signed(u.side, u.traded - last)
               /\ j.last_order_id = u.id /\ j.last_traded = u.traded
<1> DEFINE last == IF i.last_order_id # u.id THEN 0 ELSE i.last_traded
           m == [i EXCEPT !.last_order_id = u.id, !.last_traded = u.traded]
           j == on_order_update(i, u)
<1>1. last \in Int /\ u.id \in Nat /\ u.traded \in Int
  BY Example3Assumption DEF Instruments, Ids
<1>2. /\ m \in Instruments /\ m.last_order_id = u.id /\ m.last_traded = u.traded
      /\ m.long = i.long /\ m.short = i.short
      /\ m.ready = i.ready /\ m.connected = i.connected /\ m.download = i.download
      /\ m.ref = i.ref /\ m.multiplier = i.multiplier /\ m.open = i.open
      /\ m.market_data = i.market_data /\ m.order_management = i.order_management
  BY <1>1 DEF Instruments
<1>3. j = IF u.side = "BUY" THEN [m EXCEPT !.long = @ + (u.traded - last)]
                            ELSE [m EXCEPT !.short = @ + (u.traded - last)]
  BY DEF on_order_update
<1> HIDE DEF last, m, j
<1>4. i.long \in Int /\ i.short \in Int
  BY DEF Instruments
<1>5. CASE u.side = "BUY"
  <2>1. j = [m EXCEPT !.long = i.long + (u.traded - last)]
    BY <1>2, <1>3, <1>5
  <2>2. /\ j \in Instruments /\ j.last_order_id = m.last_order_id /\ j.last_traded = m.last_traded
        /\ j.long = i.long + (u.traded - last) /\ j.short = m.short
        /\ j.ready = m.ready /\ j.connected = m.connected /\ j.download = m.download
        /\ j.ref = m.ref /\ j.multiplier = m.multiplier /\ j.open = m.open
        /\ j.market_data = m.market_data /\ j.order_management = m.order_management
    BY <1>1, <1>2, <1>4, <2>1 DEF Instruments
  <2>3. position(j) = position(i) + signed(u.side, u.traded - last)
    BY <1>1, <1>2, <1>4, <1>5, <2>2 DEF position, signed
  <2>4. tradable(j) = tradable(i)
    BY <1>2, <2>2 DEF tradable
  <2> QED
    BY <1>2, <2>2, <2>3, <2>4 DEF j, last
<1>6. CASE u.side = "SELL"
  <2>1. j = [m EXCEPT !.short = i.short + (u.traded - last)]
    BY <1>2, <1>3, <1>6
  <2>2. /\ j \in Instruments /\ j.last_order_id = m.last_order_id /\ j.last_traded = m.last_traded
        /\ j.short = i.short + (u.traded - last) /\ j.long = m.long
        /\ j.ready = m.ready /\ j.connected = m.connected /\ j.download = m.download
        /\ j.ref = m.ref /\ j.multiplier = m.multiplier /\ j.open = m.open
        /\ j.market_data = m.market_data /\ j.order_management = m.order_management
    BY <1>1, <1>2, <1>4, <2>1 DEF Instruments
  <2>3. position(j) = position(i) + signed(u.side, u.traded - last)
    BY <1>1, <1>2, <1>4, <1>6, <2>2 DEF position, signed
  <2>4. tradable(j) = tradable(i)
    BY <1>2, <2>2 DEF tradable
  <2> QED
    BY <1>2, <2>2, <2>3, <2>4 DEF j, last
<1> QED
  BY <1>5, <1>6 DEF Sides

LEMMA OnPositionUpdate ==
    ASSUME NEW i \in Instruments, NEW p, p.long \in Nat, p.short \in Nat, i.download
    PROVE  LET j == on_position_update(i, p)
           IN  /\ j \in Instruments /\ j.ready = i.ready /\ tradable(j) = tradable(i)
               /\ j.connected = i.connected /\ j.download = i.download /\ j.ref = i.ref
               /\ position(j) = p.long - p.short /\ j.last_order_id = i.last_order_id
<1> DEFINE j == on_position_update(i, p)
<1>1. j = [i EXCEPT !.long = p.long, !.short = p.short]
  BY DEF on_position_update
<1>2. /\ j \in Instruments /\ j.long = p.long /\ j.short = p.short
      /\ j.ready = i.ready /\ j.connected = i.connected /\ j.download = i.download
      /\ j.ref = i.ref /\ j.multiplier = i.multiplier /\ j.open = i.open
      /\ j.market_data = i.market_data /\ j.order_management = i.order_management
      /\ j.last_order_id = i.last_order_id
  <2> HIDE DEF j
  <2>1. p.long \in Int /\ p.short \in Int
    OBVIOUS
  <2>2. j \in Instruments
    BY <1>1, <2>1 DEF Instruments
  <2> QED
    BY <1>1, <2>1, <2>2 DEF Instruments
<1> HIDE DEF j
<1> QED
  BY <1>2 DEF tradable, position, j

LEMMA OnConnected ==
    ASSUME NEW i \in Instruments, ~i.connected, ~i.ref
    PROVE  LET j == on_connected(i)
           IN  /\ j \in Instruments /\ j.ready = tradable(j) /\ j.connected /\ ~j.ref
               /\ j.download = i.download /\ j.last_order_id = i.last_order_id
<1> DEFINE m == [i EXCEPT !.connected = TRUE]
<1>1. /\ m \in Instruments /\ m.connected /\ ~m.ref /\ m.download = i.download
      /\ m.last_order_id = i.last_order_id
  BY DEF Instruments
<1> HIDE DEF m
<1> QED
  BY <1>1, CheckReady DEF on_connected, m

LEMMA OnReset ==
    ASSUME NEW i \in Instruments
    PROVE  LET j == reset(i)
           IN  /\ j \in Instruments /\ j.ready = FALSE /\ j.last_order_id = 0
               /\ ~j.connected /\ ~j.download /\ ~j.ref
<1>1. NewInstrument \in Instruments /\ ~NewInstrument.ready /\ NewInstrument.last_order_id = 0
      /\ ~NewInstrument.connected /\ ~NewInstrument.download /\ ~NewInstrument.ref
  BY DEF NewInstrument, Instruments
<1> DEFINE j == reset(i)
<1>2. j = [NewInstrument EXCEPT !.multiplier = i.multiplier, !.full = i.full]
  BY DEF reset
<1>3. i.multiplier \in BOOLEAN /\ i.full \in BOOLEAN
  BY DEF Instruments
<1> HIDE DEF j
<1>4. /\ j \in Instruments /\ j.ready = FALSE /\ j.last_order_id = 0
      /\ ~j.connected /\ ~j.download /\ ~j.ref
  BY <1>1, <1>2, <1>3 DEF Instruments
<1> QED
  BY <1>4 DEF j

LEMMA OnDisconnected ==
    ASSUME NEW i \in Instruments, i.ready = tradable(i),
           ~i.connected => ~i.download /\ ~i.ref /\ i.last_order_id = 0
    PROVE  LET j == on_disconnected(i)
           IN  /\ j \in Instruments /\ j.ready = tradable(j)
               /\ ~j.connected /\ ~j.download /\ ~j.ref /\ j.last_order_id = 0
BY OnReset DEF on_disconnected, tradable

-----------------------------------------------------------------------------
(***************************************************************************)
(* The steps of the strategy and of the market keep the invariant.         *)
(***************************************************************************)

\* When market events come.
Open == inst.connected /\ ~Announced

\* Market events, and what else leaves orders, events and the position alone.
LEMMA MarketStep ==
    ASSUME Example3Inv,
           UNCHANGED <<working_order_id, working_side, requests, inbox, order, exposure, up>>,
           max_order_id' \in Nat, max_order_id <= max_order_id', max_order_id' <= MaxOrders,
           inst' = inst \/ Open,
           inst' \in Instruments, ReadyIsCurrent',
           inst'.connected <=> inst.connected, inst'.download <=> inst.download,
           inst'.long = inst.long, inst'.short = inst.short,
           inst'.last_order_id = inst.last_order_id, inst'.last_traded = inst.last_traded
    PROVE  Example3Inv'
<1> USE Example3Assumption
<1>1. /\ KnownIds' = KnownIds /\ Working' = Working /\ left' = left /\ Downloading' = Downloading
      /\ traded' = traded /\ status' = status
  BY DEF KnownIds, Working, left, Downloading, traded, status, Ids
<1>2. position(inst)' = position(inst) /\ counted' = counted
  BY DEF position, counted
<1>3. TypeOK'
  BY DEF Example3Inv, TypeOK
<1>4. KnowsSome'
  BY <1>1 DEF Example3Inv, KnowsSome
<1>6. Disconnects'
  BY DEF Example3Inv, Disconnects, Open
<1>7. Down'
  BY <1>1 DEF Example3Inv, Down
<1>8. Download'
  <2> SUFFICES ASSUME up, Downloading PROVE Download'
    BY <1>1 DEF Download
  <2>1. left \in Nat /\ left > 0 /\ Head(inbox) = inbox[1] /\ inbox # << >>
    BY EmptySeq DEF Example3Inv, TypeOK, left, Downloading
  <2>2. /\ left > 1 => Highest' = Highest
        /\ left < 2 => Highest = max_order_id /\ Highest' = max_order_id'
    BY <1>1, <2>1 DEF Highest
  <2>3. \A k \in 1..4 : FinalOrders(k) => FinalOrders(k)'
    BY <1>1, <2>1, <2>2 DEF FinalOrders
  <2>4. (\A i \in KnownIds : i <= Highest)' /\ inst'.last_order_id <= Highest'
    <3>1. (\A i \in KnownIds : i <= Highest) /\ inst.last_order_id <= Highest
      BY DEF Example3Inv, Download
    <3>2. CASE left > 1
      BY <1>1, <2>2, <3>1, <3>2
    <3>3. CASE left < 2
      <4>1. (\A i \in KnownIds : i \in Nat) /\ inst.last_order_id \in Nat /\ max_order_id \in Nat
        BY DEF KnownIds, Ids, Example3Inv, TypeOK, Instruments
      <4> QED
        BY <1>1, <2>2, <3>1, <3>3, <4>1
    <3> QED
      BY <2>1, <3>2, <3>3
  <2>5. CASE inst' = inst
    BY <1>1, <1>2, <2>3, <2>4, <2>5 DEF Example3Inv, Download
  <2>6. CASE inst.connected /\ ~IsBegin(inbox[1], "none")
    <3>1. \/ /\ left > 4 /\ IsBegin(inbox[1], "account")
             /\ FinalOrders(2) /\ inst.connected /\ inst.download
          \/ /\ FinalOrders(1) /\ inst.connected /\ inst.download
             /\ left < 4 => working_order_id = 0
      BY <2>6 DEF Example3Inv, Download
    <3> QED
      BY <1>1, <1>2, <2>3, <2>4, <2>6, <3>1 DEF Example3Inv, Download
  <2> QED
    BY <2>1, <2>5, <2>6 DEF Open, Announced, of_market, IsBegin
<1>9. Connection'
  <2>1. \A i \in KnownIds : i \in Nat
    BY DEF KnownIds, Ids
  <2> QED
    BY <1>1, <2>1 DEF Example3Inv, Connection, TypeOK, Instruments
<1>10. Unhandled'
  BY <1>1, <1>2 DEF Example3Inv, Unhandled
<1>11. AtWork'
  BY <1>1 DEF Example3Inv, AtWork
<1>12. Position'
  BY <1>1, <1>2 DEF Example3Inv, Position
<1>13. PositionLimited'
  BY DEF Example3Inv, PositionLimited
<1> QED
  BY <1>3, <1>4, <1>6, <1>7, <1>8, <1>9, <1>10, <1>11, <1>12, <1>13 DEF Example3Inv

\* A ready instrument on a connection that is up is past the download.
LEMMA ReadyIsLive ==
    ASSUME Example3Inv, inst.ready, up PROVE ~Downloading
<1>1. inst.connected /\ ~inst.download /\ inst.ref
  BY DEF Example3Inv, ReadyIsCurrent, tradable
<1> QED
  BY <1>1 DEF Example3Inv, Download

\* The cancel request for the working order is sent.
LEMMA CancelStep ==
    ASSUME Example3Inv, up, inst.ready, working_order_id # 0,
           requests' = Append(requests, Request("cancel", working_order_id, working_side)),
           UNCHANGED <<inst, max_order_id, working_order_id, working_side, inbox, order, exposure, up>>
    PROVE  Example3Inv'
<1> USE Example3Assumption
<1> DEFINE r == Request("cancel", working_order_id, working_side)
<1>1. r \in Requests /\ r.kind = "cancel"
  BY DEF Example3Inv, TypeOK, Request, Requests, Ids
<1> HIDE DEF r
<1>2. requests' = Append(requests, r)
  BY DEF r
<1>3. /\ requests' \in Seq(Requests) /\ Len(requests) \in Nat
      /\ DOMAIN requests = 1..Len(requests) /\ DOMAIN requests' = 1..(Len(requests) + 1)
      /\ requests'[Len(requests) + 1] = r
      /\ \A k \in 1..Len(requests) : requests'[k] = requests[k]
  <2> HIDE DEF Requests
  <2> QED
    BY <1>1, <1>2, AppendProperties DEF Example3Inv, TypeOK
<1>4. /\ KnownIds' = KnownIds /\ Working' = Working /\ left' = left /\ Downloading' = Downloading
      /\ traded' = traded /\ status' = status /\ position(inst)' = position(inst)
      /\ counted' = counted
  BY DEF KnownIds, Working, left, Downloading, traded, status, Ids, position, counted
<1>5. ~Downloading
  BY ReadyIsLive
<1>6. TypeOK'
  BY <1>3 DEF Example3Inv, TypeOK
<1>7. \A k \in DOMAIN requests' : requests'[k].kind = "create" =>
         k \in DOMAIN requests /\ requests'[k] = requests[k]
  BY <1>1, <1>3
<1>8. AtWork'
  BY <1>4, <1>7 DEF Example3Inv, AtWork
<1> QED
  BY <1>4, <1>5, <1>6, <1>8
     DEF Example3Inv, KnowsSome, ReadyIsCurrent, tradable, Disconnects, Down, Download, Connection,
         Unhandled, Position, PositionLimited

\* The create request for a new order is sent.
LEMMA CreateStep ==
    ASSUME Example3Inv, up, inst.ready, working_order_id = 0, NEW side \in Sides,
           can_trade(inst, side), max_order_id + 1 \in Ids,
           max_order_id' = max_order_id + 1, working_order_id' = max_order_id + 1,
           working_side' = side,
           requests' = Append(requests, Request("create", max_order_id + 1, side)),
           UNCHANGED <<inst, inbox, order, exposure, up>>
    PROVE  Example3Inv'
<1> USE Example3Assumption
<1> DEFINE w == max_order_id + 1
           r == Request("create", w, side)
<1>1. r \in Requests /\ r.kind = "create" /\ r.id = w /\ r.side = side
  BY DEF Request, Requests
<1>2. requests' = Append(requests, r)
  OBVIOUS
<1> HIDE DEF r
<1>3. /\ requests' \in Seq(Requests) /\ Len(requests) \in Nat
      /\ DOMAIN requests = 1..Len(requests) /\ DOMAIN requests' = 1..(Len(requests) + 1)
      /\ requests'[Len(requests) + 1] = r
      /\ \A k \in 1..Len(requests) : requests'[k] = requests[k]
  <2> HIDE DEF Requests
  <2> QED
    BY <1>1, <1>2, AppendProperties DEF Example3Inv, TypeOK
<1>4. /\ KnownIds' = KnownIds /\ Working' = Working /\ left' = left /\ Downloading' = Downloading
      /\ position(inst)' = position(inst)
  BY DEF KnownIds, Working, left, Downloading, Ids, position
<1>5. ~Downloading
  BY ReadyIsLive
<1>6. max_order_id \in Nat /\ w \in Ids /\ w # 0 /\ w \notin KnownIds /\ inst.last_order_id # w
  BY <1>5 DEF Example3Inv, TypeOK, Connection, KnownIds, Ids, Instruments
<1>7. /\ traded' = order[w].traded /\ status' = order[w].status /\ status' = "none"
      /\ left = 0 /\ Working = {} /\ position(inst) = exposure
  <2>1. traded' = order[w].traded /\ status' = order[w].status
    BY DEF traded, status
  <2>2. order[w].status = "none"
    BY <1>6 DEF KnownIds
  <2>3. left = 0 /\ position(inst) = exposure /\ Working \subseteq {0}
    BY <1>5 DEF Example3Inv, Unhandled, AtWork, Position
  <2> QED
    BY <2>1, <2>2, <2>3 DEF Working, Ids
<1>8. traded' = 0 /\ counted' = 0
  <2>1. traded' = 0
    BY <1>6, <1>7 DEF Example3Inv, TypeOK, KnownIds
  <2> QED
    BY <1>6, <2>1 DEF counted
<1>9. \A k \in DOMAIN requests : requests[k].kind # "create"
  <2>1. \A k \in DOMAIN requests : requests[k].id \in Ids
    <3>1. \A k \in DOMAIN requests : requests[k] \in Requests
      BY <1>3, ElementOfSeq DEF Example3Inv, TypeOK
    <3> QED
      BY <3>1 DEF Requests
  <2> QED
    BY <1>5, <2>1 DEF Example3Inv, AtWork, Ids
<1>10. TypeOK'
  BY <1>3, <1>6 DEF Example3Inv, TypeOK, Ids
<1>11. KnowsSome' /\ ReadyIsCurrent' /\ Disconnects' /\ PositionLimited'
  BY <1>4 DEF Example3Inv, KnowsSome, ReadyIsCurrent, tradable, Disconnects, PositionLimited
<1>12. Down' /\ Download'
  BY <1>4, <1>5 DEF Down, Download
<1>13. Connection'
  <2>1. \A i \in KnownIds : i \in Nat
    BY DEF KnownIds, Ids
  <2> QED
    BY <1>4, <1>5, <1>6, <2>1 DEF Example3Inv, Connection, Instruments, TypeOK
<1>14. Unhandled'
  BY <1>4, <1>6, <1>7, <1>8 DEF Unhandled, Final
<1>15. AtWork'
  <2>1. \A k \in DOMAIN requests' : requests'[k].kind = "create" =>
          k = Len(requests) + 1 /\ requests'[k] = r
    BY <1>3, <1>9
  <2> QED
    BY <1>1, <1>4, <1>7, <1>8, <2>1 DEF AtWork
<1>16. Position'
  <2>1. exposure \in Int /\ -Lot <= exposure /\ exposure <= Lot
    BY DEF Example3Inv, TypeOK, PositionLimited
  <2>2. /\ side = "BUY" => exposure <= 0
        /\ side = "SELL" => exposure >= 0
    BY <1>7 DEF can_trade
  <2> QED
    BY <1>4, <1>6, <1>7, <1>8, <2>1, <2>2 DEF Position, signed
<1> QED
  BY <1>10, <1>11, <1>12, <1>13, <1>14, <1>15, <1>16 DEF Example3Inv

\* The model signals no side, or one of the two.
LEMMA Signals ==
    ASSUME NEW m, NEW fast, NEW slow
    PROVE  LET u == update(m, fast, slow)
           IN  u.side \in Sides \union {"UNDEFINED"}
BY DEF update, selling_part, buying_part, Sides

\* The timer: the model is reset, watches, or makes the strategy send a request.
LEMMA TimerStep ==
    ASSUME Example3Inv, Timer PROVE Example3Inv'
<1> USE Example3Assumption
<1>1. UNCHANGED <<inst, inbox, order, exposure, up>>
  BY DEF Timer
<1>0. inst \in Instruments /\ inst' = inst /\ ReadyIsCurrent'
  BY <1>1 DEF Example3Inv, TypeOK, ReadyIsCurrent, tradable
<1>2. ASSUME UNCHANGED <<working_order_id, working_side, requests, max_order_id>>
      PROVE  Example3Inv'
  <2>1. max_order_id' \in Nat /\ max_order_id <= max_order_id' /\ max_order_id' <= MaxOrders
    BY <1>2 DEF Example3Inv, TypeOK
  <2> QED
    BY <1>0, <1>1, <1>2, <2>1, MarketStep
<1>6. ASSUME UNCHANGED <<working_order_id, working_side, requests>>,
             max_order_id' = max_order_id + 1, max_order_id + 1 \in Ids
      PROVE  Example3Inv'
  <2>1. max_order_id' \in Nat /\ max_order_id <= max_order_id' /\ max_order_id' <= MaxOrders
    BY <1>6 DEF Example3Inv, TypeOK, Ids
  <2> QED
    BY <1>0, <1>1, <1>6, <2>1, MarketStep
<1>3. ASSUME NEW side \in Sides, inst.ready, try_trade(side) PROVE Example3Inv'
  <2>1. CASE enable_trading /\ working_order_id # 0 /\ side # working_side
    <3>1. /\ Sends(Request("cancel", working_order_id, working_side))
          /\ UNCHANGED <<max_order_id, working_order_id, working_side>>
      BY <1>3, <2>1 DEF try_trade
    <3> QED
      BY <1>1, <1>2, <1>3, <2>1, <3>1, CancelStep DEF Sends
  <2>2. CASE /\ enable_trading /\ working_order_id = 0 /\ can_trade(inst, side)
             /\ max_order_id + 1 \in Ids
    <3>1. /\ max_order_id' = max_order_id + 1
          /\ Sends(Request("create", max_order_id + 1, side))
          /\ IF halted' = "no" THEN working_order_id' = max_order_id + 1 /\ working_side' = side
                               ELSE UNCHANGED <<working_order_id, working_side>>
      BY <1>3, <2>2 DEF try_trade
    <3>2. CASE up
      <4>1. halted' = "no"
        BY <3>1, <3>2 DEF Sends, Timer, Running
      <4> QED
        BY <1>1, <1>3, <2>2, <3>1, <3>2, <4>1, CreateStep DEF Sends
    <3>3. CASE ~up
      BY <1>1, <1>6, <2>2, <3>1, <3>3 DEF Sends
    <3> QED
      BY <3>2, <3>3
  <2>3. CASE UNCHANGED <<max_order_id, working_order_id, working_side, requests, halted>>
    BY <1>2, <2>3
  <2> QED
    BY <1>3, <2>1, <2>2, <2>3 DEF try_trade
<1>4. CASE no_trade
  BY <1>2, <1>4 DEF no_trade
<1>5. ASSUME inst.ready, NEW fast, NEW slow, Sample(fast, slow) PROVE Example3Inv'
  BY <1>3, <1>4, <1>5, Signals DEF Sample
<1> QED
  BY <1>4, <1>5 DEF Timer, update_model

-----------------------------------------------------------------------------
(***************************************************************************)
(* The handlers of the gateway's events keep the invariant.                *)
(***************************************************************************)

\* An event of a download other than its ends is handled.
LEMMA DownloadStep ==
    ASSUME Example3Inv, up, Downloading, left > 2, inbox # << >>, inbox' = Tail(inbox),
           UNCHANGED <<max_order_id, requests, order, exposure, up>>,
           working_order_id' \in 0..MaxOrders, working_order_id' # 0 => working_side' \in Sides,
           inst' \in Instruments, ReadyIsCurrent', Disconnects',
           inst'.last_order_id <= Highest,
           left = 3 => position(inst)' = exposure,
           \/ /\ left > 6 /\ IsBegin(inbox[2], "none") /\ IsBegin(inbox[3], "account")
              /\ FinalOrders(4) /\ inst'.connected /\ ~inst'.download /\ ~inst'.ref
           \/ /\ left > 5 /\ IsBegin(inbox[2], "account")
              /\ FinalOrders(3) /\ inst'.connected /\ inst'.download
           \/ /\ FinalOrders(2) /\ inst'.connected /\ inst'.download
              /\ left < 5 => working_order_id' = 0
    PROVE  Example3Inv'
<1> USE Example3Assumption
<1>0. inbox' \in Seq(Events)
  BY Popped DEF Example3Inv, TypeOK
<1>1. left \in Nat /\ left' = left - 1
  BY Popped DEF Example3Inv, TypeOK
<1>9. \A k \in 1..(left - 1) : inbox'[k] = inbox[k + 1]
  BY Popped DEF Example3Inv, TypeOK
<1>2. /\ KnownIds' = KnownIds /\ Working' = Working
  BY DEF KnownIds, Working, Ids
<1>3. left' > 1 /\ inbox'[left'] = inbox[left] /\ Downloading'
  <2>1. left' > 1 /\ left' > 0 /\ left' \in 1..(left - 1) /\ left' + 1 = left
    BY <1>1
  <2>2. inbox'[left'] = inbox[left]
    BY <1>9, <2>1
  <2> QED
    BY <2>1, <2>2 DEF Downloading
<1>4. TypeOK'
  BY <1>0 DEF Example3Inv, TypeOK
<1>5. KnowsSome' /\ PositionLimited'
  BY <1>2 DEF Example3Inv, KnowsSome, PositionLimited
<1>7. inbox'[left' - 1] = inbox[left - 1] /\ Highest' = Highest
  <2>1. left' - 1 \in 1..(left - 1) /\ (left' - 1) + 1 = left - 1 /\ left > 1
    BY <1>1
  <2>2. inbox'[left' - 1] = inbox[left - 1]
    BY <1>9, <2>1
  <2> QED
    BY <1>3, <2>1, <2>2 DEF Highest
<1>10. left' > 2 => inbox'[left' - 2] = inbox[left - 2]
  <2> SUFFICES ASSUME left' > 2 PROVE inbox'[left' - 2] = inbox[left - 2]
    OBVIOUS
  <2>1. left' - 2 \in 1..(left - 1) /\ (left' - 2) + 1 = left - 2
    BY <1>1
  <2> QED
    BY <1>9, <2>1
<1>6. ASSUME NEW k \in {1, 2, 3}, FinalOrders(k + 1) PROVE FinalOrders(k)'
  <2> SUFFICES ASSUME NEW j \in k..(left' - 3)
               PROVE  /\ inbox'[j].event = "order" /\ inbox'[j].status \in Final
                      /\ inbox'[j].id <= Highest'
    BY DEF FinalOrders
  <2>1. j + 1 \in (k + 1)..(left - 3) /\ j \in 1..(left - 1)
    BY <1>1
  <2>2. inbox'[j] = inbox[j + 1]
    BY <1>9, <2>1
  <2> QED
    BY <1>6, <1>7, <2>1, <2>2 DEF FinalOrders
<1>11. inbox'[1] = inbox[2] /\ inbox'[2] = inbox[3]
  <2>1. 1 \in 1..(left - 1) /\ 2 \in 1..(left - 1) /\ 1 + 1 = 2 /\ 2 + 1 = 3
    BY <1>1
  <2>2. inbox'[1] = inbox[1 + 1] /\ inbox'[2] = inbox[2 + 1]
    BY <1>9, <2>1
  <2> QED
    BY <2>1, <2>2, Zenon
<1>8. Download'
  <2>1. /\ IsEnd(inbox'[left' - 1], "account")
        /\ left' > 2 => /\ inbox'[left' - 2].event = "position"
                        /\ inbox'[left' - 2].long - inbox'[left' - 2].short = exposure'
    <3>1. IsEnd(inbox[left - 1], "account")
      BY <1>1 DEF Example3Inv, Download
    <3>2. /\ inbox[left - 2].event = "position"
          /\ inbox[left - 2].long - inbox[left - 2].short = exposure
      BY DEF Example3Inv, Download
    <3> QED
      BY <1>7, <1>10, <3>1, <3>2
  <2>2. left' < 3 => position(inst)' = exposure'
    BY <1>1
  <2>3. \/ /\ left' > 5 /\ IsBegin(inbox'[1], "none") /\ IsBegin(inbox'[2], "account")
           /\ FinalOrders(3)' /\ inst'.connected /\ ~inst'.download /\ ~inst'.ref
        \/ /\ left' > 4 /\ IsBegin(inbox'[1], "account")
           /\ FinalOrders(2)' /\ inst'.connected /\ inst'.download
        \/ /\ FinalOrders(1)' /\ inst'.connected /\ inst'.download
           /\ left' < 4 => working_order_id' = 0
    <3>1. FinalOrders(4) => FinalOrders(3)'
      BY <1>6
    <3>2. FinalOrders(3) => FinalOrders(2)'
      BY <1>6
    <3>3. FinalOrders(2) => FinalOrders(1)'
      BY <1>6
    <3>4. /\ left > 6 => left' > 5
          /\ left > 5 => left' > 4
          /\ left' < 4 => left < 5
      BY <1>1
    <3> QED
      BY <1>11, <3>1, <3>2, <3>3, <3>4
  <2>4. /\ requests' = << >> /\ Working' = {}
        /\ (\A i \in KnownIds : i <= Highest)'
        /\ inst'.last_order_id <= Highest'
    BY <1>2, <1>7 DEF Example3Inv, Download
  <2> QED
    BY <2>1, <2>2, <2>3, <2>4 DEF Download
<1> QED
  BY <1>3, <1>4, <1>5, <1>8
     DEF Example3Inv, Down, Connection, Unhandled, AtWork, Position

\* What the first unhandled event is tells where in the life of the connection it is.
LEMMA FirstEvent ==
    ASSUME Example3Inv, inbox # << >>
    PROVE  /\ left \in Nat \ {0} /\ Head(inbox) = inbox[1] /\ inbox[1] \in Events
           /\ inbox[1].event = "disconnected" => ~up
           /\ inbox[1].event = "connected" =>
                /\ up /\ Downloading /\ left > 6 /\ IsBegin(inbox[2], "none")
                /\ IsBegin(inbox[3], "account") /\ FinalOrders(4) /\ ~inst.connected
           /\ inbox[1].event = "download_begin" =>
                /\ up /\ Downloading /\ inst.connected
                /\ \/ /\ inbox[1].account = "none" /\ left > 5 /\ IsBegin(inbox[2], "account")
                      /\ FinalOrders(3) /\ ~inst.download /\ ~inst.ref
                   \/ /\ inbox[1].account = "account" /\ left > 4
                      /\ FinalOrders(2) /\ inst.download
           /\ inbox[1].event = "position" =>
                /\ up /\ Downloading /\ left = 3 /\ FinalOrders(1)
                /\ inst.connected /\ inst.download /\ working_order_id = 0
                /\ inbox[1].long - inbox[1].short = exposure
           /\ inbox[1].event = "download_end" =>
                /\ up /\ Downloading /\ inst.connected /\ inst.download
                /\ working_order_id = 0
                /\ \/ inbox[1].account = "account" /\ left = 2
                   \/ inbox[1].account = "none" /\ left = 1
           /\ inbox[1].event = "order" =>
                /\ up
                /\ Downloading => /\ left > 3 /\ FinalOrders(1) /\ inst.connected /\ inst.download
                                  /\ inbox[1].status \in Final
                                  /\ inbox[1].id <= Highest
<1>1. left \in Nat \ {0} /\ Head(inbox) = inbox[1] /\ inbox[1] \in Events
  <2> HIDE DEF Events
  <2> QED
    BY EmptySeq, ElementOfSeq DEF Example3Inv, TypeOK, left
<1>2. CASE ~up
  BY <1>1, <1>2 DEF Example3Inv, Down
<1>3. CASE up /\ ~Downloading
  <2>1. inbox[1].event = "order"
    BY <1>1, <1>3 DEF Example3Inv, Unhandled
  <2> QED
    BY <1>1, <1>3, <2>1
<1>4. CASE up /\ Downloading
  <2>1. \/ /\ left > 6 /\ inbox[1].event = "connected" /\ IsBegin(inbox[2], "none")
           /\ IsBegin(inbox[3], "account") /\ FinalOrders(4) /\ ~inst.connected
        \/ /\ left > 5 /\ IsBegin(inbox[1], "none") /\ IsBegin(inbox[2], "account")
           /\ FinalOrders(3) /\ inst.connected /\ ~inst.download /\ ~inst.ref
        \/ /\ left > 4 /\ IsBegin(inbox[1], "account")
           /\ FinalOrders(2) /\ inst.connected /\ inst.download
        \/ /\ FinalOrders(1) /\ inst.connected /\ inst.download
           /\ left < 4 => working_order_id = 0
    BY <1>4 DEF Example3Inv, Download
  <2>2. CASE FinalOrders(1) /\ inst.connected /\ inst.download /\ (left < 4 => working_order_id = 0)
    <3>1. CASE left > 3
      <4>1. 1 \in 1..(left - 3)
        BY <1>1, <3>1
      <4>2. /\ inbox[1].event = "order" /\ inbox[1].status \in Final
            /\ inbox[1].id <= Highest
        BY <2>2, <4>1 DEF FinalOrders
      <4> QED
        BY <1>1, <1>4, <2>2, <3>1, <4>2
    <3>2. CASE left = 3
      <4>1. inbox[1].event = "position" /\ inbox[1].long - inbox[1].short = exposure
        <5>1. left > 2 /\ left - 2 = 1
          BY <3>2
        <5>2. /\ inbox[left - 2].event = "position"
              /\ inbox[left - 2].long - inbox[left - 2].short = exposure
          BY <1>4, <5>1 DEF Example3Inv, Download
        <5> QED
          BY <5>1, <5>2
      <4> QED
        BY <1>1, <1>4, <2>2, <3>2, <4>1
    <3>3. CASE left = 2
      <4>1. IsEnd(inbox[1], "account")
        <5>1. left > 1 /\ left - 1 = 1
          BY <3>3
        <5>2. IsEnd(inbox[left - 1], "account")
          BY <1>4, <5>1 DEF Example3Inv, Download
        <5> QED
          BY <5>1, <5>2
      <4>2. inbox[1].event = "download_end" /\ inbox[1].account = "account"
        BY <4>1 DEF IsEnd
      <4> QED
        BY <1>1, <1>4, <2>2, <3>3, <4>2
    <3>4. CASE left = 1
      <4>1. inbox[1].event = "download_end" /\ inbox[1].account = "none"
        BY <1>4, <3>4 DEF Downloading, IsEnd
      <4> QED
        BY <1>1, <1>4, <2>2, <3>4, <4>1
    <3> QED
      BY <1>1, <3>1, <3>2, <3>3, <3>4
  <2>3. CASE inbox[1].event = "connected"
    BY <1>1, <1>4, <2>1, <2>2, <2>3 DEF IsBegin
  <2>4. CASE inbox[1].event = "download_begin"
    BY <1>1, <1>4, <2>1, <2>2, <2>4 DEF IsBegin
  <2> QED
    BY <2>1, <2>2, <2>3, <2>4 DEF IsBegin
<1> QED
  BY <1>1, <1>2, <1>3, <1>4 DEF Example3Inv, TypeOK

LEMMA ConnectedStep ==
    ASSUME Example3Inv, Connected PROVE Example3Inv'
<1>1. /\ inbox # << >> /\ Head(inbox).event = "connected" /\ inbox' = Tail(inbox)
      /\ inst' = on_connected(inst)
      /\ UNCHANGED <<max_order_id, working_order_id, working_side, requests, order, exposure, up>>
  BY DEF Connected, Handles, InstrumentOnly
<1>2. /\ up /\ Downloading /\ left > 6 /\ IsBegin(inbox[2], "none") /\ IsBegin(inbox[3], "account")
      /\ FinalOrders(4) /\ ~inst.connected
  BY <1>1, FirstEvent
<1>3. /\ inst \in Instruments /\ ~inst.ref /\ ~inst.download /\ inst.last_order_id = 0
  BY <1>2 DEF Example3Inv, TypeOK, Disconnects
<1>4. /\ inst' \in Instruments /\ inst'.ready = tradable(inst') /\ inst'.connected /\ ~inst'.ref
      /\ inst'.download = inst.download /\ inst'.last_order_id = 0
  BY <1>1, <1>2, <1>3, OnConnected
<1>5. ReadyIsCurrent' /\ Disconnects'
  BY <1>4 DEF ReadyIsCurrent, Disconnects, tradable
<1>6. inst.last_order_id <= Highest
  BY <1>2 DEF Example3Inv, Download
<1>7. left > 2 /\ left # 3
  BY <1>1, <1>2, FirstEvent
<1> QED
  BY <1>1, <1>2, <1>3, <1>4, <1>5, <1>6, <1>7, DownloadStep DEF Example3Inv, TypeOK

LEMMA DownloadBeginStep ==
    ASSUME Example3Inv, DownloadBegin PROVE Example3Inv'
<1>1. /\ inbox # << >> /\ Head(inbox).event = "download_begin" /\ inbox' = Tail(inbox)
      /\ inst' = on_download_begin(inst, Head(inbox)) /\ Head(inbox) = inbox[1]
      /\ UNCHANGED <<max_order_id, working_order_id, working_side, requests, order, exposure, up>>
  BY FirstEvent DEF DownloadBegin, Handles, InstrumentOnly
<1>2. /\ up /\ Downloading /\ inst.connected /\ left \in Nat
      /\ \/ /\ inbox[1].account = "none" /\ left > 5 /\ IsBegin(inbox[2], "account")
            /\ FinalOrders(3) /\ ~inst.download /\ ~inst.ref
         \/ /\ inbox[1].account = "account" /\ left > 4 /\ FinalOrders(2) /\ inst.download
  BY <1>1, FirstEvent
<1>3. inst \in Instruments /\ inst.ready = tradable(inst)
  BY DEF Example3Inv, TypeOK, ReadyIsCurrent
<1>4. inst.last_order_id <= Highest
  BY <1>2 DEF Example3Inv, Download
<1>5. left > 2 /\ left # 3 /\ ~(left < 5)
  BY <1>2
<1>6. CASE inbox[1].account = "none"
  <2>1. inst' = [inst EXCEPT !.download = TRUE]
    BY <1>1, <1>6 DEF on_download_begin, of_market
  <2>2. /\ inst' \in Instruments /\ inst'.ready = inst.ready /\ inst'.connected /\ ~inst'.ref
        /\ inst'.download /\ inst'.last_order_id = inst.last_order_id
    BY <1>2, <1>3, <1>6, <2>1 DEF Instruments
  <2>3. ~inst.ready
    BY <1>2, <1>3, <1>6 DEF tradable
  <2>4. ReadyIsCurrent' /\ Disconnects'
    <3>1. inst'.ready = FALSE
      BY <1>3, <2>2, <2>3 DEF Instruments
    <3> QED
      BY <2>2, <3>1 DEF ReadyIsCurrent, Disconnects, tradable
  <2> QED
    BY <1>1, <1>2, <1>4, <1>5, <1>6, <2>2, <2>4, DownloadStep DEF Example3Inv, TypeOK
<1>7. CASE inbox[1].account = "account"
  <2>1. inst' = inst
    BY <1>1, <1>7 DEF on_download_begin, of_market
  <2>2. ReadyIsCurrent' /\ Disconnects'
    BY <2>1 DEF Example3Inv, ReadyIsCurrent, Disconnects, tradable
  <2> QED
    BY <1>1, <1>2, <1>3, <1>4, <1>5, <1>7, <2>1, <2>2, DownloadStep DEF Example3Inv, TypeOK
<1> QED
  BY <1>2, <1>6, <1>7

LEMMA PositionUpdateStep ==
    ASSUME Example3Inv, PositionUpdate PROVE Example3Inv'
<1>1. /\ inbox # << >> /\ Head(inbox).event = "position" /\ inbox' = Tail(inbox)
      /\ inst' = on_position_update(inst, Head(inbox))
      /\ UNCHANGED <<max_order_id, working_order_id, working_side, requests, order, exposure, up>>
  BY DEF PositionUpdate, Handles, InstrumentOnly
<1>2. /\ up /\ Downloading /\ left = 3 /\ FinalOrders(1) /\ inst.connected
      /\ inst.download /\ working_order_id = 0 /\ inbox[1].long - inbox[1].short = exposure
      /\ Head(inbox) = inbox[1] /\ inbox[1] \in Events
  BY <1>1, FirstEvent
<1>3. inst \in Instruments /\ inst.ready = tradable(inst)
  BY DEF Example3Inv, TypeOK, ReadyIsCurrent
<1>4. inbox[1].long \in Nat /\ inbox[1].short \in Nat
  BY <1>1, <1>2, PositionEvents
<1>5. /\ inst' \in Instruments /\ inst'.ready = inst.ready /\ tradable(inst') = tradable(inst)
      /\ inst'.connected = inst.connected /\ inst'.download = inst.download
      /\ position(inst') = inbox[1].long - inbox[1].short
      /\ inst'.last_order_id = inst.last_order_id
  BY <1>1, <1>2, <1>3, <1>4, OnPositionUpdate
<1>6. ReadyIsCurrent' /\ Disconnects'
  BY <1>2, <1>3, <1>5 DEF ReadyIsCurrent, Disconnects, tradable
<1>7. inst.last_order_id <= Highest
  BY <1>2 DEF Example3Inv, Download
<1>8. left > 2 /\ FinalOrders(2) /\ position(inst)' = exposure
  BY <1>2, <1>5 DEF FinalOrders, position
<1> QED
  BY <1>1, <1>2, <1>5, <1>6, <1>7, <1>8, DownloadStep DEF Example3Inv, TypeOK

LEMMA DisconnectedStep ==
    ASSUME Example3Inv, Disconnected PROVE Example3Inv'
<1> USE Example3Assumption
<1>1. /\ inbox # << >> /\ Head(inbox).event = "disconnected" /\ inbox' = Tail(inbox)
      /\ inst' = on_disconnected(inst)
      /\ UNCHANGED <<max_order_id, working_order_id, working_side, requests, order, exposure, up>>
  BY DEF Disconnected, Handles, InstrumentOnly
<1>2. ~up /\ left \in Nat \ {0}
  BY <1>1, FirstEvent
<1>3. inbox' \in Seq(Events) /\ left' = left - 1
  BY <1>1, Popped DEF Example3Inv, TypeOK
<1>4. /\ inst' \in Instruments /\ inst'.ready = tradable(inst')
      /\ ~inst'.connected /\ ~inst'.download /\ ~inst'.ref /\ inst'.last_order_id = 0
  BY <1>1, OnDisconnected DEF Example3Inv, TypeOK, ReadyIsCurrent, Disconnects
<1>5. ReadyIsCurrent' /\ Disconnects'
  BY <1>4 DEF ReadyIsCurrent, Disconnects, tradable
<1>6. KnownIds' = KnownIds /\ Working' = Working
  BY <1>1 DEF KnownIds, Working, Ids
<1>7. TypeOK'
  BY <1>1, <1>3, <1>4 DEF Example3Inv, TypeOK
<1>8. KnowsSome' /\ PositionLimited'
  BY <1>1, <1>6 DEF Example3Inv, KnowsSome, PositionLimited
<1>9. Down'
  <2>1. requests = << >> /\ Working = {} /\ (left = 0 \/ left = 1)
    BY <1>2 DEF Example3Inv, Down
  <2>2. left' = 0
    BY <1>2, <1>3, <2>1
  <2> QED
    <3>1. requests' = << >> /\ Working' = {}
      BY <1>1, <1>6, <2>1
    <3>2. ~inst'.connected
      BY <1>4
    <3> QED
      BY <2>2, <3>1, <3>2 DEF Down
<1> QED
  BY <1>1, <1>2, <1>5, <1>7, <1>8, <1>9
     DEF Example3Inv, Download, Connection, Unhandled, AtWork, Position

\* The account's download ends: its highest id is taken over.
LEMMA AccountEndStep ==
    ASSUME Example3Inv, DownloadEnd, inbox[1].account = "account" PROVE Example3Inv'
<1> USE Example3Assumption
<1>1. /\ inbox # << >> /\ Head(inbox).event = "download_end" /\ inbox' = Tail(inbox)
      /\ inst' = on_download_end(inst, Head(inbox)) /\ max_order_id' = download_end(Head(inbox))
      /\ UNCHANGED <<working_order_id, working_side, requests, order, exposure, up>>
  BY DEF DownloadEnd, Handles
<1>2. /\ up /\ Downloading /\ left = 2 /\ inst.connected /\ inst.download
      /\ working_order_id = 0 /\ Head(inbox) = inbox[1] /\ inbox[1] \in Events
  BY <1>1, FirstEvent
<1>3. inst' = inst
  BY <1>1, <1>2 DEF on_download_end, of_market
<1>4. inbox' \in Seq(Events) /\ left' = 1
  BY <1>1, <1>2, Popped DEF Example3Inv, TypeOK
<1>5. inbox'[1] = inbox[2]
  <2>1. 1 \in 1..(left - 1) /\ 1 + 1 = 2
    BY <1>2
  <2>2. \A k \in 1..(left - 1) : inbox'[k] = inbox[k + 1]
    BY <1>1, Popped DEF Example3Inv, TypeOK
  <2> QED
    BY <2>1, <2>2
<1>6. Downloading'
  BY <1>2, <1>4, <1>5 DEF Downloading
<1>7. inbox[1].max_order_id \in 0..MaxOrders
  BY <1>1, <1>2, EndEvents
<1>8. /\ max_order_id' \in Nat /\ max_order_id' <= MaxOrders
      /\ inbox[1].max_order_id <= max_order_id'
  BY <1>1, <1>2, <1>7 DEF download_end, Example3Inv, TypeOK
<1>9. Highest = inbox[1].max_order_id /\ Highest' = max_order_id'
  BY <1>2, <1>4 DEF Highest
<1>10. KnownIds' = KnownIds /\ Working' = Working
  BY <1>1 DEF KnownIds, Working, Ids
<1>11. TypeOK'
  BY <1>1, <1>3, <1>4, <1>8 DEF Example3Inv, TypeOK
<1>12. KnowsSome' /\ PositionLimited' /\ ReadyIsCurrent' /\ Disconnects'
  BY <1>1, <1>3, <1>10
     DEF Example3Inv, KnowsSome, PositionLimited, ReadyIsCurrent, tradable, Disconnects
<1>13. Download'
  <2>1. /\ requests = << >> /\ Working = {} /\ position(inst) = exposure
        /\ \A i \in KnownIds : i <= Highest
        /\ inst.last_order_id <= Highest
    BY <1>2 DEF Example3Inv, Download
  <2>2. (\A i \in KnownIds : i <= Highest)' /\ inst'.last_order_id <= Highest'
    <3>1. (\A i \in KnownIds : i \in Nat) /\ inst.last_order_id \in Nat
      BY DEF KnownIds, Ids, Example3Inv, TypeOK, Instruments
    <3> QED
      BY <1>3, <1>7, <1>8, <1>9, <1>10, <2>1, <3>1
  <2>3. position(inst)' = exposure'
    BY <1>1, <1>3, <2>1 DEF position
  <2>4. FinalOrders(1)'
    BY <1>4 DEF FinalOrders
  <2> QED
    BY <1>1, <1>2, <1>3, <1>4, <1>10, <2>1, <2>2, <2>3, <2>4 DEF Download
<1> QED
  BY <1>1, <1>2, <1>6, <1>11, <1>12, <1>13
     DEF Example3Inv, Down, Connection, Unhandled, AtWork, Position

\* The market's download ends, and with it everything is delivered.
LEMMA MarketEndStep ==
    ASSUME Example3Inv, DownloadEnd, inbox[1].account # "account" PROVE Example3Inv'
<1> USE Example3Assumption
<1> DEFINE m == [inst EXCEPT !.download = FALSE]
<1>1. /\ inbox # << >> /\ Head(inbox).event = "download_end" /\ inbox' = Tail(inbox)
      /\ max_order_id' = download_end(Head(inbox))
      /\ UNCHANGED <<working_order_id, working_side, requests, order, exposure, up>>
  BY DEF DownloadEnd, Handles
<1>2. /\ up /\ Downloading /\ left = 1 /\ inst.connected /\ inst.download
      /\ working_order_id = 0 /\ Head(inbox) = inbox[1] /\ inbox[1] \in Events
      /\ inbox[1].account = "none"
  BY <1>1, FirstEvent
<1>19. inst' = check_ready(m)
  BY <1>2 DEF DownloadEnd, on_download_end, of_market
<1>3. inbox' \in Seq(Events) /\ left' = 0
  BY <1>1, <1>2, Popped DEF Example3Inv, TypeOK
<1>4. inst \in Instruments /\ inst.long \in Int /\ inst.short \in Int /\ inst.last_order_id \in Nat
  BY DEF Example3Inv, TypeOK, Instruments
<1>5. /\ m \in Instruments /\ m.connected /\ ~m.download /\ m.long = inst.long
      /\ m.short = inst.short /\ m.last_order_id = inst.last_order_id
  BY <1>2, <1>4 DEF Instruments
<1> HIDE DEF m
<1>6. /\ inst' \in Instruments /\ inst'.ready = tradable(inst') /\ inst'.connected
      /\ ~inst'.download /\ inst'.long = inst.long /\ inst'.short = inst.short
      /\ inst'.last_order_id = inst.last_order_id
  BY <1>5, <1>19, CheckReady
<1>7. ReadyIsCurrent' /\ Disconnects'
  BY <1>6 DEF ReadyIsCurrent, Disconnects, tradable
<1>8. KnownIds' = KnownIds /\ Working' = Working
  BY <1>1 DEF KnownIds, Working, Ids
<1>9. inbox[1].max_order_id \in 0..MaxOrders
  BY <1>1, <1>2, EndEvents
<1>10. /\ max_order_id' \in Nat /\ max_order_id' <= MaxOrders
       /\ max_order_id <= max_order_id' /\ max_order_id \in Nat
  BY <1>1, <1>2, <1>9 DEF download_end, Example3Inv, TypeOK
<1>11. TypeOK'
  BY <1>1, <1>3, <1>6, <1>10 DEF Example3Inv, TypeOK
<1>12. KnowsSome' /\ PositionLimited'
  BY <1>1, <1>8 DEF Example3Inv, KnowsSome, PositionLimited
<1>13. ~Downloading'
  BY <1>3 DEF Downloading
<1>14. /\ requests = << >> /\ Working = {} /\ position(inst) = exposure
       /\ \A i \in KnownIds : i <= max_order_id
       /\ inst.last_order_id <= max_order_id
  BY <1>2 DEF Example3Inv, Download, Highest
<1>15. Connection'
  <2>1. \A i \in KnownIds : i \in Nat
    BY DEF KnownIds, Ids
  <2>2. \A i \in KnownIds : i <= max_order_id'
    BY <1>10, <1>14, <2>1
  <2>3. inst'.last_order_id <= max_order_id'
    BY <1>4, <1>6, <1>10, <1>14
  <2>4. working_order_id' <= max_order_id'
    BY <1>1, <1>2, <1>10
  <2> QED
    BY <1>6, <1>8, <2>2, <2>3, <2>4 DEF Connection
<1>16. position(inst)' = exposure'
  BY <1>1, <1>6, <1>14 DEF position
<1>17. Unhandled' /\ AtWork'
  BY <1>1, <1>2, <1>3, <1>8, <1>14 DEF Unhandled, AtWork
<1>18. Position'
  BY <1>1, <1>2, <1>16 DEF Position
<1> QED
  BY <1>1, <1>2, <1>7, <1>11, <1>12, <1>13, <1>15, <1>17, <1>18
     DEF Example3Inv, Down, Download

\* An order update: in a download only the final ones of earlier orders, otherwise
\* one of the working order, which it ends when it is the last one.
LEMMA OrderUpdateStep ==
    ASSUME Example3Inv, OrderUpdate PROVE Example3Inv'
<1> USE Example3Assumption
<1> DEFINE u == inbox[1]
           last == IF inst.last_order_id # u.id THEN 0 ELSE inst.last_traded
<1>1. /\ inbox # << >> /\ u.event = "order" /\ Head(inbox) = u /\ u \in Events
      /\ left \in Nat \ {0} /\ up
      /\ Downloading => /\ left > 3 /\ FinalOrders(1) /\ inst.connected /\ inst.download
                        /\ u.status \in Final /\ u.id <= Highest
  BY FirstEvent DEF OrderUpdate
<1>2. /\ inbox' = Tail(inbox) /\ inst' = on_order_update(inst, u)
      /\ UNCHANGED <<max_order_id, requests, order, exposure, up>>
      /\ IF u.status \in Final THEN working_order_id' = 0 /\ working_side' = "UNDEFINED"
                               ELSE UNCHANGED <<working_order_id, working_side>>
  BY <1>1 DEF OrderUpdate, Handles, frees_slot, is_order_complete, Final
<1>3. u.id \in Ids /\ u.side \in Sides /\ u.traded \in 0..Lot
  BY <1>1, OrderEvents
<1>4. inst \in Instruments /\ inst.ready = tradable(inst) /\ inst.last_traded \in Int
  BY DEF Example3Inv, TypeOK, ReadyIsCurrent, Instruments
<1>5. /\ inst' \in Instruments /\ inst'.ready = inst.ready /\ tradable(inst') = tradable(inst)
      /\ inst'.connected = inst.connected /\ inst'.download = inst.download /\ inst'.ref = inst.ref
      /\ position(inst') = position(inst) + signed(u.side, u.traded - last)
      /\ inst'.last_order_id = u.id /\ inst'.last_traded = u.traded
  BY <1>2, <1>3, <1>4, OnOrderUpdate
<1> HIDE DEF u, last
<1>6. inst.connected
  BY <1>1 DEF Example3Inv, Connection
<1>7. ReadyIsCurrent' /\ Disconnects'
  BY <1>4, <1>5, <1>6 DEF ReadyIsCurrent, Disconnects, tradable
<1>8. /\ working_order_id' \in 0..MaxOrders
      /\ working_order_id' # 0 => working_side' \in Sides
  BY <1>2 DEF Example3Inv, TypeOK
<1>9. CASE Downloading
  <2>1. FinalOrders(2) /\ left > 2 /\ left # 3
    BY <1>1, <1>9 DEF FinalOrders
  <2> QED
    BY <1>1, <1>2, <1>5, <1>6, <1>7, <1>8, <1>9, <2>1, DownloadStep
<1>10. CASE ~Downloading
  <2>1. inbox' \in Seq(Events)
    BY <1>1, <1>2, Popped DEF Example3Inv, TypeOK
  <2>2. left' = left - 1
    BY <1>1, <1>2, Popped DEF Example3Inv, TypeOK
  <2>3. \A k \in 1..(left - 1) : inbox'[k] = inbox[k + 1]
    BY <1>1, <1>2, Popped DEF Example3Inv, TypeOK
  <2>4. /\ KnownIds' = KnownIds /\ Working' = Working
    BY <1>2 DEF KnownIds, Working, Ids
  <2>5. \A k \in 1..left : /\ inbox[k].event = "order" /\ inbox[k].id = working_order_id
                           /\ inbox[k].side = working_side
                           /\ k < left => inbox[k].status \notin Final
    BY <1>1, <1>10 DEF Example3Inv, Unhandled
  <2>6. working_order_id # 0 /\ u.id = working_order_id /\ u.side = working_side
    <3>1. 1 \in 1..left
      BY <1>1
    <3>2. working_order_id # 0
      BY <1>1, <1>10 DEF Example3Inv, Unhandled
    <3> QED
      BY <2>5, <3>1, <3>2 DEF u
  <2>7. /\ inbox[left].traded = traded /\ inbox[left].status = status
        /\ position(inst) + signed(working_side, traded - counted) = exposure
        /\ working_side = "BUY" =>
             /\ -Lot <= exposure - signed(working_side, traded)
             /\ exposure - signed(working_side, traded) <= 0
        /\ working_side = "SELL" =>
             /\ 0 <= exposure - signed(working_side, traded)
             /\ exposure - signed(working_side, traded) <= Lot
    BY <1>1, <1>10, <2>6 DEF Example3Inv, Unhandled, Position
  <2>8. last = counted /\ counted \in Int /\ traded \in Int /\ u.traded \in Int /\ exposure \in Int
    <3>1. last = counted /\ counted \in Int
      BY <1>4, <2>6 DEF last, counted
    <3>2. traded \in Int
      BY <2>6, <1>3 DEF traded, Example3Inv, TypeOK, Orders
    <3> QED
      BY <1>3, <3>1, <3>2 DEF Example3Inv, TypeOK
  <2>9. position(inst) \in Int
    BY <1>4 DEF position, Instruments
  <2>10. ~Downloading'
    <3>1. CASE left' = 0
      BY <3>1 DEF Downloading
    <3>2. CASE left' # 0
      <4>1. left' \in 1..(left - 1) /\ left' + 1 = left /\ left \in 1..left
        BY <1>1, <2>2, <3>2
      <4>2. inbox'[left'] = inbox[left] /\ inbox[left].event = "order"
        BY <2>3, <2>5, <4>1
      <4> QED
        BY <4>2 DEF Downloading, IsEnd
    <3> QED
      BY <3>1, <3>2
  <2>11. TypeOK'
    BY <1>2, <1>5, <1>8, <2>1 DEF Example3Inv, TypeOK
  <2>12. KnowsSome' /\ PositionLimited'
    BY <1>2, <2>4 DEF Example3Inv, KnowsSome, PositionLimited
  <2>13. Connection'
    BY <1>1, <1>2, <1>5, <1>10, <2>4, <2>6
       DEF Example3Inv, Connection, TypeOK
  <2>14. CASE u.status \in Final
    <3>1. left = 1
      <4>1. 1 \in 1..left
        BY <1>1
      <4>2. ~(1 < left)
        BY <2>5, <2>14, <4>1 DEF u
      <4> QED
        BY <1>1, <4>2
    <3>2. left' = 0 /\ working_order_id' = 0
      BY <1>2, <2>2, <2>14, <3>1
    <3>3. u.traded = traded /\ status \in Final
      BY <2>7, <2>14, <3>1 DEF u
    <3>4. position(inst)' = exposure'
      <4>1. position(inst') = exposure
        BY <1>5, <2>6, <2>7, <2>8, <3>3
      <4> QED
        BY <1>2, <4>1 DEF position
    <3>5. Unhandled'
      BY <3>2 DEF Unhandled
    <3>6. AtWork'
      <4>1. Working = {}
        BY <1>1, <1>10, <3>3 DEF Example3Inv, AtWork, Working, status, Final
      <4>2. \A k \in DOMAIN requests : requests[k].kind # "create"
        BY <1>1, <1>10, <3>3 DEF Example3Inv, AtWork, Final
      <4> QED
        BY <1>2, <2>4, <3>2, <4>1, <4>2 DEF AtWork
    <3>7. Position'
      BY <3>2, <3>4 DEF Position
    <3> QED
      BY <1>1, <1>2, <1>7, <2>10, <2>11, <2>12, <2>13, <3>5, <3>6, <3>7
         DEF Example3Inv, Down, Download
  <2>15. CASE u.status \notin Final
    <3>1. UNCHANGED <<working_order_id, working_side>>
      BY <1>2, <2>15
    <3>2. traded' = traded /\ status' = status /\ counted' = u.traded
      BY <1>2, <1>5, <2>6, <3>1 DEF traded, status, counted
    <3>3. Unhandled'
      <4>1. ASSUME NEW k \in 1..left'
            PROVE  /\ inbox'[k].event = "order" /\ inbox'[k].id = working_order_id
                   /\ inbox'[k].side = working_side
                   /\ k < left' => inbox'[k].status \notin Final
        <5>1. k \in 1..(left - 1) /\ k + 1 \in 1..left /\ (k < left' => k + 1 < left)
          BY <1>1, <2>2
        <5>2. inbox'[k] = inbox[k + 1]
          BY <2>3, <5>1
        <5> QED
          BY <2>5, <5>1, <5>2
      <4>2. ASSUME left' > 0 PROVE inbox'[left'].traded = traded /\ inbox'[left'].status = status
        <5>1. left' \in 1..(left - 1) /\ left' + 1 = left
          BY <1>1, <2>2, <4>2
        <5>2. inbox'[left'] = inbox[left]
          BY <2>3, <5>1
        <5> QED
          BY <2>7, <5>2
      <4>3. ASSUME left' = 0 PROVE u.traded = traded /\ status \notin Final
        <5>1. left = 1
          BY <1>1, <2>2, <4>3
        <5> QED
          BY <2>7, <2>15, <5>1 DEF u
      <4> QED
        BY <2>6, <3>1, <3>2, <4>1, <4>2, <4>3 DEF Unhandled
    <3>4. AtWork'
      <4>1. status # "none"
        BY <1>1, <1>10, <2>6 DEF Example3Inv, AtWork
      <4> QED
        BY <1>1, <1>2, <1>10, <2>4, <3>1, <3>2, <4>1 DEF Example3Inv, AtWork
    <3>5. Position'
      <4>1. position(inst') + signed(working_side, traded - u.traded) = exposure
        BY <1>5, <2>6, <2>7, <2>8, <2>9 DEF signed
      <4>2. position(inst)' = position(inst')
        BY DEF position
      <4> QED
        BY <1>2, <2>6, <2>7, <3>1, <3>2, <4>1, <4>2 DEF Position, signed
    <3> QED
      BY <1>1, <1>2, <1>7, <2>10, <2>11, <2>12, <2>13, <3>3, <3>4, <3>5
         DEF Example3Inv, Down, Download
  <2> QED
    BY <2>14, <2>15
<1> QED
  BY <1>9, <1>10

-----------------------------------------------------------------------------
(***************************************************************************)
(* The market, the gateway and the connection keep the invariant.          *)
(***************************************************************************)

\* A market event that sets a flag and refreshes the readiness.
LEMMA RefreshStep ==
    ASSUME Example3Inv, NEW i \in Instruments, MarketEvent(check_ready(i)),
           i.connected = inst.connected, i.download = inst.download,
           i.long = inst.long, i.short = inst.short,
           i.last_order_id = inst.last_order_id, i.last_traded = inst.last_traded
    PROVE  Example3Inv'
<1>1. /\ inst' = check_ready(i) /\ Open
      /\ UNCHANGED <<max_order_id, working_order_id, working_side, requests, inbox, order, exposure, up>>
  BY DEF MarketEvent, InstrumentOnly, Open
<1>2. /\ inst' \in Instruments /\ inst'.ready = tradable(inst')
      /\ inst'.connected = inst.connected /\ inst'.download = inst.download
      /\ inst'.long = inst.long /\ inst'.short = inst.short
      /\ inst'.last_order_id = inst.last_order_id /\ inst'.last_traded = inst.last_traded
  BY <1>1, CheckReady
<1>3. ReadyIsCurrent'
  BY <1>2 DEF ReadyIsCurrent, tradable
<1>4. max_order_id' \in Nat /\ max_order_id <= max_order_id' /\ max_order_id' <= MaxOrders
  BY <1>1 DEF Example3Inv, TypeOK
<1> QED
  BY <1>1, <1>2, <1>3, <1>4, MarketStep

LEMMA MarketEventStep ==
    ASSUME Example3Inv,
           \/ ReferenceData
           \/ \E what \in {"market", "account"}, b \in BOOLEAN : GatewayStatus(what, b)
           \/ \E b \in BOOLEAN : MarketStatus(b)
           \/ \E d \in Depths : MarketByPriceUpdate(d)
    PROVE  Example3Inv'
<1>0. inst \in Instruments /\ inst.ready = tradable(inst)
  BY DEF Example3Inv, TypeOK, ReadyIsCurrent
<1>1. CASE ReferenceData
  <2> DEFINE i == [inst EXCEPT !.ref = TRUE, !.multiplier = TRUE]
  <2>1. /\ i \in Instruments /\ i.connected = inst.connected /\ i.download = inst.download
        /\ i.long = inst.long /\ i.short = inst.short
        /\ i.last_order_id = inst.last_order_id /\ i.last_traded = inst.last_traded
    BY <1>0 DEF Instruments
  <2>2. MarketEvent(check_ready(i))
    BY <1>1 DEF ReferenceData
  <2> HIDE DEF i
  <2> QED
    BY <2>1, <2>2, RefreshStep
<1>2. ASSUME NEW what \in {"market", "account"}, NEW b \in BOOLEAN, GatewayStatus(what, b)
      PROVE  Example3Inv'
  <2> DEFINE i == IF what = "market" THEN [inst EXCEPT !.market_data = b]
                                     ELSE [inst EXCEPT !.order_management = b]
  <2>1. /\ i \in Instruments /\ i.connected = inst.connected /\ i.download = inst.download
        /\ i.long = inst.long /\ i.short = inst.short
        /\ i.last_order_id = inst.last_order_id /\ i.last_traded = inst.last_traded
    BY <1>0 DEF Instruments
  <2>2. MarketEvent(check_ready(i))
    BY <1>2 DEF GatewayStatus
  <2> HIDE DEF i
  <2> QED
    BY <2>1, <2>2, RefreshStep
<1>3. ASSUME NEW b \in BOOLEAN, MarketStatus(b) PROVE Example3Inv'
  <2> DEFINE i == [inst EXCEPT !.open = b]
  <2>1. /\ i \in Instruments /\ i.connected = inst.connected /\ i.download = inst.download
        /\ i.long = inst.long /\ i.short = inst.short
        /\ i.last_order_id = inst.last_order_id /\ i.last_traded = inst.last_traded
    BY <1>0 DEF Instruments
  <2>2. MarketEvent(check_ready(i))
    BY <1>3 DEF MarketStatus
  <2> HIDE DEF i
  <2> QED
    BY <2>1, <2>2, RefreshStep
<1>4. ASSUME NEW d \in Depths, MarketByPriceUpdate(d) PROVE Example3Inv'
  <2> DEFINE b == (d # "thin")
  <2>1. /\ inst' = [inst EXCEPT !.full = b] /\ Open
        /\ UNCHANGED <<max_order_id, working_order_id, working_side, requests, inbox, order, exposure, up>>
    BY <1>4 DEF MarketByPriceUpdate, MarketEvent, InstrumentOnly, Open
  <2>2. b \in BOOLEAN
    OBVIOUS
  <2> HIDE DEF b
  <2>3. /\ inst' \in Instruments /\ inst'.ready = inst.ready
        /\ inst'.connected = inst.connected /\ inst'.download = inst.download
        /\ inst'.ref = inst.ref /\ inst'.multiplier = inst.multiplier /\ inst'.open = inst.open
        /\ inst'.market_data = inst.market_data /\ inst'.order_management = inst.order_management
        /\ inst'.long = inst.long /\ inst'.short = inst.short
        /\ inst'.last_order_id = inst.last_order_id /\ inst'.last_traded = inst.last_traded
    BY <1>0, <2>1, <2>2 DEF Instruments
  <2>4. ReadyIsCurrent'
    BY <1>0, <2>3 DEF ReadyIsCurrent, tradable
  <2>5. max_order_id' \in Nat /\ max_order_id <= max_order_id' /\ max_order_id' <= MaxOrders
    BY <2>1 DEF Example3Inv, TypeOK
  <2> QED
    BY <2>1, <2>3, <2>4, <2>5, MarketStep
<1> QED
  BY <1>1, <1>2, <1>3, <1>4

\* From t traded and c counted to n traded: what is lacking grows with the exposure.
LEMMA Booked ==
    ASSUME NEW side \in Sides, NEW p \in Int, NEW x \in Int, NEW t \in Int, NEW c \in Int,
           NEW n \in Int, p + signed(side, t - c) = x
    PROVE  /\ p + signed(side, n - c) = x + signed(side, n - t)
           /\ (x + signed(side, n - t)) - signed(side, n) = x - signed(side, t)
<1>1. CASE side = "BUY"
  BY <1>1 DEF signed
<1>2. CASE side = "SELL"
  BY <1>2 DEF signed
<1> QED
  BY <1>1, <1>2 DEF Sides

\* The working order changes at the gateway and the strategy is told.
LEMMA OrderChanges ==
    ASSUME Example3Inv, up, ~Downloading, working_order_id # 0, status \notin Final,
           NEW o \in Orders, o.side = working_side, o.status # "none",
           Changes(working_order_id, o),
           exposure' = exposure + signed(working_side, o.traded - traded),
           requests' \in Seq(Requests), \A k \in DOMAIN requests' : requests'[k].kind # "create",
           UNCHANGED <<inst, max_order_id, working_order_id, working_side, up>>
    PROVE  Example3Inv'
<1> USE Example3Assumption
<1> DEFINE w == working_order_id
           e == OrderEvent(w, o)
<1>1. w \in Ids /\ working_side \in Sides /\ order \in [Ids -> Orders]
  BY DEF Example3Inv, TypeOK, Ids
<1>2. /\ e \in Events /\ e.event = "order" /\ e.id = w /\ e.side = o.side
      /\ e.status = o.status /\ e.traded = o.traded
  BY <1>1, OrderEventType
<1>3. order' = [order EXCEPT ![w] = o] /\ inbox' = Append(inbox, e)
  BY DEF Changes
<1> HIDE DEF e
<1>4. inbox \in Seq(Events)
  BY DEF Example3Inv, TypeOK
<1>5. inbox' \in Seq(Events) /\ left \in Nat /\ left' = left + 1
  BY <1>2, <1>3, <1>4, Pushed
<1>6. inbox'[left + 1] = e
  BY <1>2, <1>3, <1>4, Pushed
<1>7. \A k \in 1..left : inbox'[k] = inbox[k]
  BY <1>2, <1>3, <1>4, Pushed
<1>8. order' \in [Ids -> Orders] /\ order'[w] = o /\ \A i \in Ids \ {w} : order'[i] = order[i]
  BY <1>1, <1>3
<1>9. inbox'[left'] = e
  BY <1>5, <1>6
<1>10. ~Downloading'
  BY <1>2, <1>9 DEF Downloading, IsEnd
<1>11. /\ traded' = o.traded /\ status' = o.status /\ counted' = counted
       /\ position(inst)' = position(inst)
  BY <1>8 DEF traded, status, counted, position
<1>12. /\ o.traded \in 0..Lot /\ traded \in 0..Lot /\ exposure \in Int /\ counted \in Int
       /\ position(inst) \in Int
  <2>1. o.traded \in 0..Lot /\ traded \in 0..Lot
    BY <1>1 DEF Orders, traded
  <2>2. exposure \in Int /\ inst \in Instruments
    BY DEF Example3Inv, TypeOK
  <2>3. counted \in Int /\ position(inst) \in Int
    BY <2>2 DEF Instruments, counted, position
  <2> QED
    BY <2>1, <2>2, <2>3
<1>13. /\ position(inst) + signed(working_side, traded - counted) = exposure
       /\ working_side = "BUY" =>
            /\ -Lot <= exposure - signed(working_side, traded)
            /\ exposure - signed(working_side, traded) <= 0
       /\ working_side = "SELL" =>
            /\ 0 <= exposure - signed(working_side, traded)
            /\ exposure - signed(working_side, traded) <= Lot
  BY DEF Example3Inv, Position
<1>14. KnownIds' = KnownIds \union {w} /\ w <= max_order_id
  <2>1. KnownIds' = KnownIds \union {w}
    BY <1>1, <1>8 DEF KnownIds, Ids
  <2> QED
    BY <2>1 DEF Example3Inv, Connection
<1>15. max_order_id \in Nat
  BY DEF Example3Inv, TypeOK
<1>16. TypeOK'
  <2>1. exposure' \in Int
    BY <1>12 DEF signed
  <2>2. \A i \in Ids : order'[i].status = "none" => order'[i].traded = 0
    BY <1>8 DEF Example3Inv, TypeOK
  <2> QED
    BY <1>5, <1>8, <2>1, <2>2 DEF Example3Inv, TypeOK
<1>17. KnowsSome'
  <2>1. PICK m \in KnownIds : \A i \in KnownIds : i <= m
    BY DEF Example3Inv, KnowsSome
  <2>2. m \in Nat /\ w \in Nat /\ \A i \in KnownIds : i \in Nat
    BY <1>1, <2>1 DEF KnownIds, Ids
  <2>3. CASE m <= w
    BY <1>14, <2>1, <2>2, <2>3 DEF KnowsSome
  <2>4. CASE w <= m
    BY <1>14, <2>1, <2>2, <2>4 DEF KnowsSome
  <2> QED
    BY <2>2, <2>3, <2>4
<1>18. ReadyIsCurrent' /\ Disconnects'
  BY DEF Example3Inv, ReadyIsCurrent, Disconnects, tradable
<1>19. Connection'
  BY <1>14 DEF Example3Inv, Connection
<1>20. Unhandled'
  <2>1. /\ \A k \in 1..left : /\ inbox[k].event = "order" /\ inbox[k].id = w
                              /\ inbox[k].side = working_side /\ inbox[k].status \notin Final
    BY <1>5 DEF Example3Inv, Unhandled
  <2>2. \A k \in 1..left' : k \in 1..left \/ k = left'
    BY <1>5
  <2>3. left' > 0 /\ left' # 0
    BY <1>5
  <2> QED
    BY <1>2, <1>7, <1>9, <1>11, <2>1, <2>2, <2>3 DEF Unhandled
<1>21. AtWork'
  <2>1. Working' \subseteq {w}
    <3>1. Working \subseteq {w}
      BY DEF Example3Inv, AtWork
    <3> QED
      BY <1>8, <3>1 DEF Working, Ids
  <2> QED
    BY <1>8, <1>11, <2>1 DEF AtWork
<1>22. Position'
  <2>1. /\ position(inst) + signed(working_side, o.traded - counted) = exposure'
        /\ exposure' - signed(working_side, o.traded) = exposure - signed(working_side, traded)
    <3>1. o.traded \in Int /\ traded \in Int
      BY <1>12
    <3>2. position(inst) + signed(working_side, traded - counted) = exposure
      BY <1>13
    <3>3. /\ position(inst) + signed(working_side, o.traded - counted)
               = exposure + signed(working_side, o.traded - traded)
          /\ (exposure + signed(working_side, o.traded - traded)) - signed(working_side, o.traded)
               = exposure - signed(working_side, traded)
      <4> DEFINE Fact(p, x, t, c, n) ==
              p + signed(working_side, t - c) = x =>
                /\ p + signed(working_side, n - c) = x + signed(working_side, n - t)
                /\ (x + signed(working_side, n - t)) - signed(working_side, n)
                     = x - signed(working_side, t)
      <4>1. \A p, x, t, c, n \in Int : Fact(p, x, t, c, n)
        BY <1>1, Booked
      <4>2. Fact(position(inst), exposure, traded, counted, o.traded)
        <5> HIDE DEF Fact
        <5> QED
          BY <1>12, <3>1, <4>1
      <4> QED
        BY <3>2, <4>2
    <3> QED
      BY <3>3, Zenon
  <2> QED
    BY <1>11, <1>13, <2>1, Zenon DEF Position, signed
<1>23. PositionLimited'
  <2>1. CASE working_side = "BUY"
    BY <1>12, <1>13, <2>1 DEF PositionLimited, signed
  <2>2. CASE working_side = "SELL"
    BY <1>12, <1>13, <2>2 DEF PositionLimited, signed
  <2> QED
    BY <1>1, <2>1, <2>2 DEF Sides
<1> QED
  BY <1>10, <1>16, <1>17, <1>18, <1>19, <1>20, <1>21, <1>22, <1>23
     DEF Example3Inv, Down, Download

\* A request is taken from the queue and nothing comes of it.
LEMMA DroppedStep ==
    ASSUME Example3Inv, up, ~Downloading, requests # << >>, requests' = Tail(requests),
           UNCHANGED <<inst, max_order_id, working_order_id, working_side, inbox, order, exposure, up>>
    PROVE  Example3Inv'
<1>1. requests' \in Seq(Requests)
  <2> HIDE DEF Requests
  <2> QED
    BY HeadTailProperties DEF Example3Inv, TypeOK
<1>2. \A k \in DOMAIN requests' : k + 1 \in DOMAIN requests /\ requests'[k] = requests[k + 1]
  <2> HIDE DEF Requests
  <2>1. requests \in Seq(Requests)
    BY DEF Example3Inv, TypeOK
  <2>2. /\ Len(requests) \in Nat /\ DOMAIN requests = 1..Len(requests)
        /\ Len(requests') = Len(requests) - 1 /\ DOMAIN requests' = 1..Len(requests')
    BY <2>1, HeadTailProperties
  <2>3. \A k \in 1..Len(requests') : requests'[k] = requests[k + 1]
    BY <2>1, HeadTailProperties
  <2>4. \A k \in 1..Len(requests') : k + 1 \in 1..Len(requests)
    BY <2>2
  <2> QED
    BY <2>2, <2>3, <2>4
<1>3. /\ KnownIds' = KnownIds /\ Working' = Working /\ left' = left /\ Downloading' = Downloading
      /\ traded' = traded /\ status' = status /\ position(inst)' = position(inst)
      /\ counted' = counted
  BY DEF KnownIds, Working, left, Downloading, traded, status, Ids, position, counted
<1>4. TypeOK'
  BY <1>1 DEF Example3Inv, TypeOK
<1>5. AtWork'
  <2>1. ASSUME NEW k \in DOMAIN requests', requests'[k].kind = "create"
        PROVE  /\ requests'[k].id = working_order_id /\ requests'[k].side = working_side
               /\ status = "none"
               /\ \A l \in DOMAIN requests' : requests'[l].kind = "create" => k = l
    <3>1. k + 1 \in DOMAIN requests /\ requests[k + 1].kind = "create" /\ requests'[k] = requests[k + 1]
      BY <1>2, <2>1
    <3>2. /\ requests[k + 1].id = working_order_id /\ requests[k + 1].side = working_side
          /\ status = "none"
          /\ \A l \in DOMAIN requests : requests[l].kind = "create" => k + 1 = l
      BY <3>1 DEF Example3Inv, AtWork
    <3>3. ASSUME NEW l \in DOMAIN requests', requests'[l].kind = "create" PROVE k = l
      <4>1. k + 1 = l + 1
        BY <1>2, <3>2, <3>3
      <4>2. k \in Int /\ l \in Int
        <5> HIDE DEF Requests
        <5> QED
          BY <1>1
      <4> QED
        BY <4>1, <4>2
    <3> QED
      BY <3>1, <3>2, <3>3
  <2> QED
    BY <1>3, <2>1 DEF Example3Inv, AtWork
<1> QED
  BY <1>3, <1>4, <1>5
     DEF Example3Inv, KnowsSome, ReadyIsCurrent, tradable, Disconnects, Down, Download, Connection,
         Unhandled, Position, PositionLimited

\* The gateway accepts, rejects or drops a create request, and cancels or is too late.
LEMMA GatewayRequestStep ==
    ASSUME Example3Inv, GatewayRequest PROVE Example3Inv'
<1> USE Example3Assumption
<1> DEFINE r == requests[1]
<1>1. /\ up /\ requests # << >> /\ requests' = Tail(requests)
      /\ UNCHANGED <<inst, max_order_id, working_order_id, working_side, exposure, up>>
  BY DEF GatewayRequest, strategy
<1>2. requests \in Seq(Requests) /\ order \in [Ids -> Orders]
  BY DEF Example3Inv, TypeOK
<1>3. /\ Head(requests) = r /\ r \in Requests /\ 1 \in DOMAIN requests
      /\ requests' \in Seq(Requests)
  <2> HIDE DEF Requests
  <2> QED
    BY <1>1, <1>2, HeadTailProperties
<1>4. \A k \in DOMAIN requests' : /\ k + 1 \in DOMAIN requests /\ k + 1 # 1
                                  /\ requests'[k] = requests[k + 1]
  <2> HIDE DEF Requests
  <2>2. /\ Len(requests) \in Nat /\ DOMAIN requests = 1..Len(requests)
        /\ Len(requests') = Len(requests) - 1 /\ DOMAIN requests' = 1..Len(requests')
    BY <1>1, <1>2, HeadTailProperties
  <2>3. \A k \in 1..Len(requests') : requests'[k] = requests[k + 1]
    BY <1>1, <1>2, HeadTailProperties
  <2>4. \A k \in 1..Len(requests') : k + 1 \in 1..Len(requests) /\ k + 1 # 1
    BY <2>2
  <2> QED
    BY <2>2, <2>3, <2>4
<1>5. r.id \in Ids /\ r.side \in Sides
  BY <1>3 DEF Requests
<1>6. \/ /\ r.kind = "create"
         /\ \E s \in {"working", "rejected"} :
               Changes(r.id, [side |-> r.side, status |-> s, traded |-> 0])
      \/ UNCHANGED <<order, inbox>>
      \/ /\ r.kind = "cancel" /\ order[r.id].status = "working"
         /\ Changes(r.id, [order[r.id] EXCEPT !.status = "canceled"])
  BY <1>3 DEF GatewayRequest
<1> HIDE DEF r
<1>7. ~Downloading
  BY <1>1 DEF Example3Inv, Download
<1>8. CASE UNCHANGED <<order, inbox>>
  BY <1>1, <1>7, <1>8, DroppedStep
<1>9. ASSUME r.kind = "create", NEW s \in {"working", "rejected"},
             Changes(r.id, [side |-> r.side, status |-> s, traded |-> 0])
      PROVE  Example3Inv'
  <2> DEFINE o == [side |-> r.side, status |-> s, traded |-> 0]
  <2>1. /\ r.id = working_order_id /\ r.side = working_side /\ status = "none"
        /\ \A l \in DOMAIN requests : requests[l].kind = "create" => l = 1
    BY <1>1, <1>3, <1>7, <1>9 DEF Example3Inv, AtWork, r
  <2>2. working_order_id # 0 /\ traded = 0
    BY <1>5, <2>1 DEF Example3Inv, TypeOK, traded, status, Ids
  <2>3. \A k \in DOMAIN requests' : requests'[k].kind # "create"
    BY <1>4, <2>1
  <2>4. o \in Orders /\ o.side = working_side /\ o.status # "none" /\ o.traded = 0
    BY <1>5, <2>1 DEF Orders, Statuses
  <2>5. exposure' = exposure + signed(working_side, o.traded - traded)
    BY <1>1, <2>2, <2>4 DEF signed, Example3Inv, TypeOK
  <2>6. Changes(working_order_id, o)
    BY <1>9, <2>1
  <2>7. status \notin Final
    BY <2>1 DEF Final
  <2> HIDE DEF o
  <2> QED
    BY <1>1, <1>3, <1>7, <2>2, <2>3, <2>4, <2>5, <2>6, <2>7, OrderChanges
<1>10. ASSUME r.kind = "cancel", order[r.id].status = "working",
              Changes(r.id, [order[r.id] EXCEPT !.status = "canceled"])
       PROVE  Example3Inv'
  <2> DEFINE o == [order[r.id] EXCEPT !.status = "canceled"]
  <2>1. r.id = working_order_id
    BY <1>1, <1>5, <1>7, <1>10 DEF Example3Inv, AtWork, Working
  <2>2. working_order_id # 0 /\ status = "working" /\ traded = order[r.id].traded
    BY <1>5, <1>10, <2>1 DEF traded, status, Ids
  <2>3. \A k \in DOMAIN requests' : requests'[k].kind # "create"
    BY <1>1, <1>4, <1>7, <2>2 DEF Example3Inv, AtWork
  <2>4. o \in Orders /\ o.side = order[r.id].side /\ o.status # "none" /\ o.traded = traded
    <3>1. order[r.id] \in Orders
      BY <1>2, <1>5
    <3> QED
      BY <2>2, <3>1 DEF Orders, Statuses
  <2>5. o.side = working_side
    BY <1>1, <1>7, <2>1, <2>2, <2>4 DEF Example3Inv, AtWork
  <2>6. exposure' = exposure + signed(working_side, o.traded - traded)
    <3>1. o.traded \in Int
      BY <2>4 DEF Orders
    <3> QED
      BY <1>1, <2>4, <3>1 DEF signed, Example3Inv, TypeOK
  <2>7. Changes(working_order_id, o)
    BY <1>10, <2>1
  <2>8. status \notin Final
    BY <2>2 DEF Final
  <2> HIDE DEF o
  <2> QED
    BY <1>1, <1>3, <1>7, <2>2, <2>3, <2>4, <2>5, <2>6, <2>7, <2>8, OrderChanges
<1> QED
  BY <1>6, <1>8, <1>9, <1>10

LEMMA FillStep ==
    ASSUME Example3Inv, NEW i \in Ids, NEW q \in 1..Lot, Fill(i, q) PROVE Example3Inv'
<1> USE Example3Assumption
<1> DEFINE s == IF order[i].traded + q = Lot THEN "completed" ELSE "working"
           o == [order[i] EXCEPT !.traded = @ + q, !.status = s]
<1>1. /\ up /\ order[i].status = "working" /\ order[i].traded + q <= Lot
      /\ Changes(i, o)
      /\ exposure' = IF order[i].side = "BUY" THEN exposure + q ELSE exposure - q
      /\ UNCHANGED <<inst, max_order_id, working_order_id, working_side, requests, up>>
  BY DEF Fill, strategy
<1>2. order \in [Ids -> Orders] /\ order[i] \in Orders /\ requests \in Seq(Requests)
  BY DEF Example3Inv, TypeOK
<1>3. i \in Working /\ ~Downloading
  BY <1>1 DEF Example3Inv, Download, Working
<1>4. i = working_order_id /\ working_order_id # 0 /\ status = "working" /\ traded = order[i].traded
  BY <1>1, <1>3 DEF Example3Inv, AtWork, traded, status, Ids
<1>5. order[i].side = working_side /\ \A k \in DOMAIN requests : requests[k].kind # "create"
  BY <1>1, <1>3, <1>4 DEF Example3Inv, AtWork
<1>6. s \in Statuses /\ s # "none"
  BY DEF Statuses
<1> HIDE DEF s
<1>7. o = [order[i] EXCEPT !.traded = order[i].traded + q, !.status = s]
  BY <1>2 DEF Orders
<1> HIDE DEF o
<1>8. order[i].traded \in 0..Lot /\ order[i].traded + q \in 0..Lot
  BY <1>1, <1>2 DEF Orders
<1>9. o \in Orders /\ o.side = working_side /\ o.status = s /\ o.traded = order[i].traded + q
  BY <1>2, <1>5, <1>6, <1>7, <1>8 DEF Orders
<1>10. exposure' = exposure + signed(working_side, o.traded - traded)
  <2>1. o.traded - traded = q
    BY <1>4, <1>8, <1>9
  <2>2. exposure \in Int
    BY DEF Example3Inv, TypeOK
  <2> QED
    BY <1>1, <1>5, <2>1, <2>2 DEF signed
<1>11. status \notin Final
  BY <1>4 DEF Final
<1> QED
  BY <1>1, <1>2, <1>3, <1>4, <1>5, <1>6, <1>9, <1>10, <1>11, OrderChanges

LEMMA LoseConnectionStep ==
    ASSUME Example3Inv, LoseConnection PROVE Example3Inv'
<1> USE Example3Assumption
<1>1. /\ up' = FALSE /\ requests' = << >> /\ inbox' = <<[event |-> "disconnected"]>>
      /\ order' = [i \in Ids |-> IF order[i].status = "working"
                                 THEN [order[i] EXCEPT !.status = "canceled"] ELSE order[i]]
      /\ UNCHANGED <<inst, max_order_id, working_order_id, working_side, exposure>>
  BY DEF LoseConnection, strategy
<1>2. order \in [Ids -> Orders]
  BY DEF Example3Inv, TypeOK
<1>3. \A i \in Ids : /\ order'[i] \in Orders /\ order'[i].status # "working"
                     /\ order'[i].status = "none" <=> order[i].status = "none"
                     /\ order'[i].traded = order[i].traded
  BY <1>1, <1>2 DEF Orders, Statuses
<1>4. order' \in [Ids -> Orders]
  BY <1>1, <1>3
<1>5. inbox' \in Seq(Events) /\ left' = 1 /\ inbox'[1].event = "disconnected"
  <2>1. [event |-> "disconnected"] \in Events
    BY DEF Events
  <2> HIDE DEF Events
  <2> QED
    BY <1>1, <2>1 DEF left
<1>6. requests' \in Seq(Requests)
  <2> HIDE DEF Requests
  <2> QED
    BY <1>1
<1>7. TypeOK'
  BY <1>1, <1>3, <1>4, <1>5, <1>6 DEF Example3Inv, TypeOK
<1>8. KnownIds' = KnownIds /\ Working' = {}
  BY <1>3 DEF KnownIds, Working, Ids
<1>9. Down'
  <2>1. left' # 0
    BY <1>5
  <2> QED
    BY <1>1, <1>5, <1>8, <2>1, Zenon DEF Down
<1> QED
  BY <1>1, <1>7, <1>8, <1>9
     DEF Example3Inv, KnowsSome, ReadyIsCurrent, tradable, Disconnects, PositionLimited, Download,
         Connection, Unhandled, AtWork, Position

\* The highest order id is that of a known order.
LEMMA HighestId ==
    ASSUME KnowsSome
    PROVE  GatewayMaxOrderId \in KnownIds /\ \A i \in KnownIds : i <= GatewayMaxOrderId
BY DEF KnowsSome, GatewayMaxOrderId

\* The events of both downloads, the account's inside the market's.
LEMMA DownloadEvents ==
    ASSUME NEW a \in Events, NEW b \in Events, NEW f \in Events,
           NEW t \in Seq(Events), NEW s, s = <<a, b>> \o t \o <<f>>
    PROVE  /\ s \in Seq(Events) /\ Len(s) = Len(t) + 3
           /\ s[1] = a /\ s[2] = b /\ s[Len(t) + 3] = f
           /\ \A k \in 1..Len(t) : s[k + 2] = t[k]
<1> HIDE DEF Events
<1> DEFINE x == <<a, b>>
           y == <<f>>
           z == x \o t
           m == Len(t)
<1>1. x \in Seq(Events) /\ Len(x) = 2 /\ x[1] = a /\ x[2] = b
  OBVIOUS
<1>2. y \in Seq(Events) /\ Len(y) = 1 /\ y[1] = f
  OBVIOUS
<1>3. s = z \o y /\ m \in Nat
  BY LenProperties
<1> HIDE DEF x, y
<1>4. z \in Seq(Events) /\ Len(z) = m + 2
  <2>1. z \in Seq(Events) /\ Len(z) = Len(x) + Len(t)
    BY <1>1, ConcatProperties
  <2> QED
    BY <1>1, <1>3, <2>1
<1>5. \A k \in 1..(m + 2) : z[k] = IF k <= 2 THEN x[k] ELSE t[k - 2]
  <2>1. \A k \in 1..(Len(x) + Len(t)) : z[k] = IF k <= Len(x) THEN x[k] ELSE t[k - Len(x)]
    BY <1>1, ConcatProperties
  <2>2. Len(x) + Len(t) = m + 2 /\ Len(x) = 2
    BY <1>1, <1>3
  <2> QED
    BY <2>1, <2>2
<1> HIDE DEF z
<1>6. s \in Seq(Events) /\ Len(s) = m + 3
  <2>1. s \in Seq(Events) /\ Len(s) = Len(z) + Len(y)
    BY <1>2, <1>3, <1>4, ConcatProperties
  <2> QED
    BY <1>2, <1>3, <1>4, <2>1
<1>7. \A k \in 1..(m + 3) : s[k] = IF k <= m + 2 THEN z[k] ELSE y[k - (m + 2)]
  <2>1. \A k \in 1..(Len(z) + Len(y)) : s[k] = IF k <= Len(z) THEN z[k] ELSE y[k - Len(z)]
    BY <1>2, <1>3, <1>4, ConcatProperties
  <2>2. Len(z) + Len(y) = m + 3 /\ Len(z) = m + 2
    BY <1>2, <1>3, <1>4
  <2> QED
    BY <2>1, <2>2
<1>8. m \in Nat
  BY <1>3
<1> HIDE DEF m
<1>9. s[1] = a /\ s[2] = b
  BY <1>1, <1>5, <1>7, <1>8
<1>10. s[m + 3] = f
  <2>1. m + 3 \in 1..(m + 3) /\ ~(m + 3 <= m + 2) /\ (m + 3) - (m + 2) = 1
    BY <1>8
  <2> QED
    BY <1>2, <1>7, <2>1
<1>11. ASSUME NEW k \in 1..m PROVE s[k + 2] = t[k]
  <2>1. /\ k + 2 \in 1..(m + 2) /\ k + 2 \in 1..(m + 3) /\ k + 2 <= m + 2
        /\ ~(k + 2 <= 2) /\ (k + 2) - 2 = k
    BY <1>8
  <2> QED
    BY <1>5, <1>7, <2>1
<1> QED
  BY <1>6, <1>9, <1>10, <1>11 DEF m

\* The account's download as the gateway sends it.
LEMMA AccountDownloadEvents ==
    ASSUME TypeOK, KnowsSome, NEW ids \in Snapshots
    PROVE  LET t == AccountDownload(ids)
           IN  \E n \in Nat \ {0} :
               /\ t \in Seq(Events) /\ Len(t) = n + 3
               /\ IsBegin(t[1], "account") /\ t[n + 2] = PositionEvent
               /\ \A k \in 2..(n + 1) : \E i \in KnownIds : t[k] = OrderEvent(i, order[i])
               /\ t[n + 3] = Ends("account", GatewayMaxOrderId)
<1> USE Example3Assumption
<1> DEFINE t == AccountDownload(ids)
           n == Cardinality(KnownIds)
           orders == [k \in 1..n |-> OrderEvent(ids[k], order[ids[k]])]
<1>1. order \in [Ids -> Orders] /\ exposure \in Int /\ KnownIds \subseteq Ids
  BY DEF TypeOK, KnownIds
<1>2. GatewayMaxOrderId \in KnownIds
  BY HighestId
<1>3. n \in Nat \ {0}
  <2>1. IsFiniteSet(Ids)
    BY FS_Interval DEF Ids
  <2>2. IsFiniteSet(KnownIds)
    BY <2>1, FS_Subset DEF KnownIds
  <2> QED
    BY <1>2, <2>2, FS_CardinalityType, FS_EmptySet
<1>4. ids \in [1..n -> KnownIds]
  BY DEF Snapshots
<1> HIDE DEF n
<1>5. \A k \in 1..n : /\ ids[k] \in KnownIds
                       /\ OrderEvent(ids[k], order[ids[k]]) \in Events
  <2> HIDE DEF Events
  <2> QED
    BY <1>1, <1>4, OrderEventType
<1>6. orders \in Seq(Events) /\ Len(orders) = n
  <2> HIDE DEF Events
  <2>1. orders \in [1..n -> Events]
    BY <1>5
  <2> HIDE DEF orders
  <2> QED
    BY <1>3, <2>1
<1>7. /\ Begins("account") \in Events /\ PositionEvent \in Events
      /\ Ends("account", GatewayMaxOrderId) \in Events /\ IsBegin(Begins("account"), "account")
  <2>1. "account" \in Accounts /\ GatewayMaxOrderId \in 0..MaxOrders
    BY <1>1, <1>2 DEF Accounts, Ids
  <2> HIDE DEF Events
  <2> QED
    BY <1>1, <2>1, BeginTypes, EndTypes, PositionEventType
<1>8. t = <<Begins("account")>> \o orders
          \o <<PositionEvent, Ends("account", GatewayMaxOrderId)>>
  BY <1>4 DEF AccountDownload
<1> HIDE DEF t
<1>9. /\ t \in Seq(Events) /\ Len(t) = n + 3
      /\ t[1] = Begins("account") /\ \A k \in 2..(n + 1) : t[k] = orders[k - 1]
      /\ t[n + 2] = PositionEvent /\ t[n + 3] = Ends("account", GatewayMaxOrderId)
  <2> DEFINE x == <<Begins("account")>>
             y == <<PositionEvent, Ends("account", GatewayMaxOrderId)>>
  <2>1. /\ x \in Seq(Events) /\ Len(x) = 1 /\ x[1] = Begins("account")
        /\ y \in Seq(Events) /\ Len(y) = 2
        /\ y[1] = PositionEvent /\ y[2] = Ends("account", GatewayMaxOrderId)
    <3> HIDE DEF Events
    <3> QED
      BY <1>7
  <2> DEFINE z == x \o orders
  <2>2. x \in Seq(Events) /\ Len(x) = 1
    BY <2>1
  <2>3. y \in Seq(Events) /\ Len(y) = 2
    BY <2>1
  <2>4. t = z \o y /\ n \in Nat /\ orders \in Seq(Events) /\ Len(orders) = n
    BY <1>3, <1>6, <1>8
  <2> HIDE DEF Events, orders, x, y
  <2>5. z \in Seq(Events) /\ Len(z) = n + 1
    <3>1. z \in Seq(Events) /\ Len(z) = Len(x) + Len(orders)
      BY <2>2, <2>4, ConcatProperties
    <3> QED
      BY <2>2, <2>4, <3>1
  <2>6. \A k \in 1..(n + 1) : z[k] = IF k <= 1 THEN x[k] ELSE orders[k - 1]
    <3>1. \A k \in 1..(Len(x) + Len(orders)) :
            z[k] = IF k <= Len(x) THEN x[k] ELSE orders[k - Len(x)]
      BY <2>2, <2>4, ConcatProperties
    <3>2. Len(x) + Len(orders) = n + 1 /\ Len(x) = 1
      BY <2>2, <2>4
    <3> QED
      BY <3>1, <3>2
  <2> HIDE DEF z
  <2>7. t \in Seq(Events) /\ Len(t) = n + 3
    <3>1. t \in Seq(Events) /\ Len(t) = Len(z) + Len(y)
      BY <2>3, <2>4, <2>5, ConcatProperties
    <3> QED
      BY <2>3, <2>4, <2>5, <3>1
  <2>8. \A k \in 1..(n + 3) : t[k] = IF k <= n + 1 THEN z[k] ELSE y[k - (n + 1)]
    <3>1. \A k \in 1..(Len(z) + Len(y)) : t[k] = IF k <= Len(z) THEN z[k] ELSE y[k - Len(z)]
      BY <2>3, <2>4, <2>5, ConcatProperties
    <3>2. Len(z) + Len(y) = n + 3 /\ Len(z) = n + 1
      BY <2>3, <2>4, <2>5
    <3> QED
      BY <3>1, <3>2
  <2>9. t[1] = x[1]
    <3>1. 1 \in 1..(n + 3) /\ 1 \in 1..(n + 1) /\ 1 <= n + 1 /\ 1 <= 1
      BY <2>4
    <3>2. t[1] = z[1]
      BY <2>8, <3>1
    <3>3. z[1] = x[1]
      BY <2>6, <3>1
    <3> QED
      BY <3>2, <3>3
  <2>10. ASSUME NEW k \in 2..(n + 1) PROVE t[k] = orders[k - 1]
    <3>1. k \in 1..(n + 3) /\ k \in 1..(n + 1) /\ k <= n + 1 /\ ~(k <= 1)
      BY <2>4
    <3> QED
      BY <2>6, <2>8, <3>1
  <2>11. t[n + 2] = y[1] /\ t[n + 3] = y[2]
    <3>1. /\ n + 2 \in 1..(n + 3) /\ ~(n + 2 <= n + 1) /\ (n + 2) - (n + 1) = 1
          /\ n + 3 \in 1..(n + 3) /\ ~(n + 3 <= n + 1) /\ (n + 3) - (n + 1) = 2
      BY <2>4
    <3> QED
      BY <2>3, <2>8, <3>1
  <2> QED
    BY <2>1, <2>7, <2>9, <2>10, <2>11
<1>10. ASSUME NEW k \in 2..(n + 1) PROVE \E i \in KnownIds : t[k] = OrderEvent(i, order[i])
  <2>1. k - 1 \in 1..n
    BY <1>3
  <2> QED
    BY <1>5, <1>9, <2>1
<1> HIDE DEF orders
<1> QED
  BY <1>3, <1>7, <1>9, <1>10 DEF t

\* The connection comes up and the downloads are under way.
LEMMA ConnectStep ==
    ASSUME Example3Inv, Connect, AccountInside PROVE Example3Inv'
<1> USE Example3Assumption
<1>1. /\ ~up /\ inbox = << >> /\ up' = TRUE
      /\ UNCHANGED <<inst, max_order_id, working_order_id, working_side, requests, order, exposure>>
  BY DEF Connect, strategy
<1>2. order \in [Ids -> Orders] /\ exposure \in Int /\ inst \in Instruments
  BY DEF Example3Inv, TypeOK
<1>3. left = 0 /\ requests = << >> /\ Working = {} /\ ~inst.connected
  BY <1>1 DEF Example3Inv, Down, left
<1>4. ~inst.download /\ ~inst.ref /\ inst.last_order_id = 0
  BY <1>3 DEF Example3Inv, Disconnects
<1>5. GatewayMaxOrderId \in KnownIds /\ \A i \in KnownIds : i <= GatewayMaxOrderId
  BY HighestId DEF Example3Inv
<1> DEFINE a == [event |-> "connected"]
           b == Begins("none")
           f == Ends("none", 0)
<1>6. PICK ids \in Snapshots :
        inbox' = <<a, b>> \o AccountDownload(ids) \o <<f>>
  BY DEF Connect
<1> DEFINE t == AccountDownload(ids)
<1>7. inbox' = <<a, b>> \o t \o <<f>>
  BY <1>6
<1>8. PICK n \in Nat \ {0} :
        /\ t \in Seq(Events) /\ Len(t) = n + 3
        /\ IsBegin(t[1], "account") /\ t[n + 2] = PositionEvent
        /\ \A k \in 2..(n + 1) : \E i \in KnownIds : t[k] = OrderEvent(i, order[i])
        /\ t[n + 3] = Ends("account", GatewayMaxOrderId)
  <2> HIDE DEF Events, t
  <2> QED
    BY AccountDownloadEvents DEF Example3Inv, t
<1> HIDE DEF t
<1>9. a \in Events /\ a.event = "connected" /\ b \in Events /\ IsBegin(b, "none")
      /\ f \in Events /\ IsEnd(f, "none")
  <2>1. "none" \in Accounts /\ 0 \in 0..MaxOrders
    BY DEF Accounts
  <2>2. a \in Events
    BY DEF Events
  <2> QED
    BY <2>1, <2>2, BeginTypes, EndTypes
<1> HIDE DEF a, b, f
<1>10. /\ inbox' \in Seq(Events) /\ left' = (n + 3) + 3
       /\ inbox'[1] = a /\ inbox'[2] = b /\ inbox'[(n + 3) + 3] = f
       /\ \A k \in 1..(n + 3) : inbox'[k + 2] = t[k]
  <2>1. /\ inbox' \in Seq(Events) /\ Len(inbox') = Len(t) + 3
        /\ inbox'[1] = a /\ inbox'[2] = b /\ inbox'[Len(t) + 3] = f
        /\ \A k \in 1..Len(t) : inbox'[k + 2] = t[k]
    <3> HIDE DEF Events
    <3> QED
      BY <1>7, <1>8, <1>9, DownloadEvents
  <2> QED
    BY <1>8, <2>1 DEF left
<1>11. /\ inbox'[left'] = f /\ inbox'[left' - 1] = Ends("account", GatewayMaxOrderId)
       /\ inbox'[left' - 2] = PositionEvent /\ inbox'[3] = t[1]
       /\ left' > 6 /\ ~(left' < 3) /\ left' - 3 = n + 3
  <2>1. /\ left' - 1 = (n + 3) + 2 /\ left' - 2 = (n + 2) + 2 /\ 3 = 1 + 2
        /\ 1 \in 1..(n + 3) /\ n + 2 \in 1..(n + 3) /\ n + 3 \in 1..(n + 3)
        /\ left' > 6 /\ ~(left' < 3) /\ left' - 3 = n + 3
    BY <1>10
  <2>2. inbox'[(n + 3) + 2] = t[n + 3] /\ inbox'[(n + 2) + 2] = t[n + 2] /\ inbox'[1 + 2] = t[1]
    BY <1>10, <2>1
  <2> QED
    BY <1>8, <1>10, <2>1, <2>2
<1>20. left' > 0 /\ left' > 1
  BY <1>10
<1>12. Downloading'
  BY <1>9, <1>11, <1>20 DEF Downloading
<1>13. Highest' = GatewayMaxOrderId
  BY <1>11, <1>20 DEF Highest, Ends
<1>14. FinalOrders(4)'
  <2>1. ASSUME NEW j \in 4..(n + 3)
        PROVE  /\ inbox'[j].event = "order" /\ inbox'[j].status \in Final
               /\ inbox'[j].id <= GatewayMaxOrderId
    <3>1. j - 2 \in 2..(n + 1) /\ j - 2 \in 1..(n + 3) /\ (j - 2) + 2 = j
      OBVIOUS
    <3>2. inbox'[j] = t[j - 2]
      BY <1>10, <3>1
    <3>3. PICK i \in KnownIds : t[j - 2] = OrderEvent(i, order[i])
      BY <1>8, <3>1
    <3>4. i \in Ids /\ order[i] \in Orders
      BY <1>2 DEF KnownIds
    <3>5. order[i].status \in Final
      BY <1>3, <3>4 DEF Orders, Statuses, KnownIds, Working, Final
    <3> QED
      BY <1>5, <3>2, <3>3, <3>4, <3>5, OrderEventType
  <2> QED
    BY <1>11, <1>13, <2>1 DEF FinalOrders
<1>15. KnownIds' = KnownIds /\ Working' = Working
  BY <1>1 DEF KnownIds, Working, Ids
<1>16. TypeOK'
  BY <1>1, <1>10 DEF Example3Inv, TypeOK
<1>17. KnowsSome' /\ ReadyIsCurrent' /\ Disconnects' /\ PositionLimited'
  BY <1>1, <1>15
     DEF Example3Inv, KnowsSome, ReadyIsCurrent, tradable, Disconnects, PositionLimited
<1>18. Download'
  <2>1. /\ requests' = << >> /\ Working' = {}
        /\ (\A i \in KnownIds : i <= Highest)'
        /\ inst'.last_order_id <= Highest'
    <3>1. GatewayMaxOrderId \in Nat /\ 0 <= GatewayMaxOrderId
      BY <1>5 DEF KnownIds, Ids
    <3> QED
      BY <1>1, <1>3, <1>4, <1>5, <1>13, <1>15, <3>1
  <2>2. IsEnd(inbox'[left' - 1], "account")
    BY <1>11 DEF IsEnd, Ends
  <2>3. /\ inbox'[left' - 2].event = "position"
        /\ inbox'[left' - 2].long - inbox'[left' - 2].short = exposure'
    BY <1>1, <1>2, <1>11, PositionEventType
  <2>4. /\ inbox'[1].event = "connected" /\ IsBegin(inbox'[2], "none")
        /\ IsBegin(inbox'[3], "account")
    BY <1>8, <1>9, <1>10, <1>11
  <2>5. ~inst'.connected
    BY <1>1, <1>3
  <2> QED
    BY <1>11, <1>14, <2>1, <2>2, <2>3, <2>4, <2>5 DEF Download
<1> QED
  BY <1>1, <1>12, <1>16, <1>17, <1>18
     DEF Example3Inv, Down, Connection, Unhandled, AtWork, Position

LEMMA InvariantInit == Init => Example3Inv
<1> SUFFICES ASSUME Init PROVE Example3Inv
  OBVIOUS
<1> USE Example3Assumption
<1>1. /\ inst = NewInstrument /\ max_order_id = 0 /\ working_order_id = 0
      /\ requests = << >> /\ inbox = << >> /\ exposure = Held /\ up = FALSE
      /\ order = [i \in Ids |-> IF i = 1 THEN [side |-> "BUY", status |-> "completed", traded |-> Lot]
                                         ELSE [side |-> "BUY", status |-> "none", traded |-> 0]]
  BY DEF Init
<1>2. /\ inst \in Instruments /\ ~inst.connected /\ ~inst.download /\ ~inst.ref
      /\ inst.last_order_id = 0 /\ inst.ready = FALSE
  BY <1>1 DEF NewInstrument, Instruments
<1>3. requests \in Seq(Requests) /\ inbox \in Seq(Events) /\ left = 0
  <2> HIDE DEF Requests, Events
  <2> QED
    BY <1>1 DEF left
<1>4. \A i \in Ids : /\ order[i] \in Orders /\ order[i].status # "working"
                     /\ order[i].status = "none" => order[i].traded = 0
                     /\ order[i].status # "none" <=> i = 1
  BY <1>1 DEF Orders, Statuses, Sides
<1>5. order \in [Ids -> Orders]
  BY <1>1, <1>4
<1>6. TypeOK
  <2>1. /\ max_order_id \in Nat /\ max_order_id <= MaxOrders /\ working_order_id \in 0..MaxOrders
        /\ exposure \in Int
    BY DEF Init
  <2>2. up \in BOOLEAN
    BY DEF Init
  <2> QED
    BY <1>1, <1>2, <1>3, <1>4, <1>5, <2>1, <2>2 DEF TypeOK
<1>7. KnowsSome
  <2>1. 1 \in Ids
    BY DEF Ids
  <2>2. KnownIds = {1}
    BY <1>4, <2>1 DEF KnownIds
  <2> QED
    BY <2>2 DEF KnowsSome
<1>8. ReadyIsCurrent /\ Disconnects /\ PositionLimited
  <2>1. PositionLimited
    BY <1>1 DEF PositionLimited
  <2>2. tradable(inst) = FALSE
    BY <1>2 DEF tradable
  <2> QED
    BY <1>2, <2>1, <2>2 DEF ReadyIsCurrent, Disconnects
<1>9. Down
  BY <1>1, <1>2, <1>3, <1>4 DEF Down, Working
<1> QED
  BY <1>1, <1>6, <1>7, <1>8, <1>9
     DEF Example3Inv, Download, Connection, Unhandled, AtWork, Position

LEMMA InvariantStep ==
    ASSUME AccountInside, Example3Inv, [Next]_vars PROVE Example3Inv'
<1>1. CASE UNCHANGED vars
  <2>1. /\ UNCHANGED <<inst, max_order_id, working_order_id, working_side, requests, inbox, order>>
        /\ UNCHANGED <<exposure, up>>
    BY <1>1 DEF vars, strategy, wire
  <2>2. /\ max_order_id' \in Nat /\ max_order_id <= max_order_id' /\ max_order_id' <= MaxOrders
        /\ inst' \in Instruments
    BY <2>1 DEF Example3Inv, TypeOK
  <2>3. ReadyIsCurrent'
    BY <2>1 DEF Example3Inv, ReadyIsCurrent, tradable
  <2> QED
    BY <2>1, <2>2, <2>3, MarketStep
<1> QED
  BY <1>1, TimerStep, ConnectedStep, DisconnectedStep, DownloadBeginStep, AccountEndStep,
     MarketEndStep,
     OrderUpdateStep, PositionUpdateStep, MarketEventStep, ConnectStep, GatewayRequestStep,
     FillStep, LoseConnectionStep DEF Next, Stopped

\* Every handler, and whatever the market, the gateway and the connection do, keeps the
\* inductive invariant, as long as the account's download lies inside the market's.
THEOREM Example3Invariant ==
    ASSUME AccountInside PROVE Spec => []Example3Inv
<1>1. Example3Inv /\ [Next]_vars => Example3Inv'
  BY InvariantStep
<1> QED
  BY <1>1, InvariantInit, PTL DEF Spec

-----------------------------------------------------------------------------
(***************************************************************************)
(* What the invariant says of the instrument, the order and the position.  *)
(***************************************************************************)

\* example-3: the account never holds more than one lot, long or short, for any lot and
\* any partial fills, although Instrument::can_trade is asked before an order is sent
\* and not while it fills.
THEOREM PositionLimitedHolds ==
    ASSUME AccountInside PROVE Spec => []PositionLimited
<1>1. Example3Inv => PositionLimited
  BY DEF Example3Inv
<1> QED
  BY <1>1, Example3Invariant, PTL

\* The ids of the create requests under way.
Creating == {requests[i].id : i \in {j \in DOMAIN requests : requests[j].kind = "create"}}

Live == Working \union Creating

LEMMA LiveIsWorkingOrder ==
    ASSUME Example3Inv
    PROVE  /\ Live \subseteq {working_order_id} /\ Live \subseteq Ids
           /\ Live # {} => up /\ ~Downloading
<1>1. requests = << >> => Creating = {}
  BY DEF Creating
<1>2. CASE ~up
  BY <1>1, <1>2 DEF Example3Inv, Down, Live
<1>3. CASE up /\ Downloading
  BY <1>1, <1>3 DEF Example3Inv, Download, Live
<1>4. CASE up /\ ~Downloading
  <2>1. \A k \in DOMAIN requests : requests[k] \in Requests
    <3> HIDE DEF Requests
    <3> QED
      BY ElementOfSeq DEF Example3Inv, TypeOK
  <2>2. Creating \subseteq {working_order_id} /\ Creating \subseteq Ids
    BY <1>4, <2>1 DEF Example3Inv, AtWork, Creating, Requests
  <2>3. Working \subseteq {working_order_id} /\ Working \subseteq Ids
    BY <1>4 DEF Example3Inv, AtWork, Working
  <2> QED
    BY <1>4, <2>2, <2>3 DEF Live
<1> QED
  BY <1>2, <1>3, <1>4

\* example-3: the strategy knows every order that rests or may come to rest on a live
\* connection, and its side, so that it can cancel it.
THEOREM KnowsItsOrderHolds ==
    ASSUME AccountInside PROVE Spec => []KnowsItsOrder
<1>1. Example3Inv => KnowsItsOrder
  <2> SUFFICES ASSUME Example3Inv, NEW i \in LiveIds, up, Running
               PROVE  /\ working_order_id = i
                      /\ order[i].status = "working" => working_side = order[i].side
    BY DEF KnowsItsOrder
  <2>1. i \in Live
    BY DEF LiveIds, Live, Working, Creating
  <2>2. i = working_order_id /\ i \in Ids /\ ~Downloading
    BY <2>1, LiveIsWorkingOrder
  <2>3. working_order_id # 0
    BY <2>2, Example3Assumption DEF Ids
  <2> QED
    BY <2>2, <2>3 DEF Example3Inv, AtWork, status
<1> QED
  BY <1>1, Example3Invariant, PTL

\* example-3: with every event handled, the position that Instrument adds up from
\* cumulative order updates is that of the account, whatever fills in between, across
\* reconnects, and although the download repeats orders that were counted before.
THEOREM PositionKnownHolds ==
    ASSUME AccountInside PROVE Spec => []PositionKnown
<1>1. Example3Inv => PositionKnown
  <2> SUFFICES ASSUME Example3Inv, inst.connected, ~inst.download, inbox = << >>
               PROVE  position(inst) = exposure
    BY DEF PositionKnown
  <2>1. left = 0 /\ ~Downloading
    BY DEF left, Downloading
  <2>2. up
    BY <2>1 DEF Example3Inv, Down
  <2>3. CASE working_order_id = 0
    BY <2>1, <2>2, <2>3 DEF Example3Inv, Position
  <2>4. CASE working_order_id # 0
    <3>1. /\ position(inst) + signed(working_side, traded - counted) = exposure
          /\ counted = traded
      BY <2>1, <2>2, <2>4 DEF Example3Inv, Position, Unhandled
    <3>2. traded \in Int /\ position(inst) \in Int
      <4>1. working_order_id \in Ids /\ order \in [Ids -> Orders] /\ inst \in Instruments
        BY <2>4, Example3Assumption DEF Example3Inv, TypeOK, Ids
      <4> QED
        BY <4>1, Example3Assumption DEF Orders, Instruments, traded, position
    <3>3. signed(working_side, traded - counted) = 0
      <4>1. traded - counted = 0
        BY <3>1, <3>2
      <4> QED
        BY <4>1 DEF signed
    <3> QED
      BY <3>1, <3>2, <3>3
  <2> QED
    BY <2>3, <2>4
<1> QED
  BY <1>1, Example3Invariant, PTL

-----------------------------------------------------------------------------
(***************************************************************************)
(* The strategy implements OrderSlot.                                      *)
(***************************************************************************)

\* What a timer sends, if it sends something.
LEMMA TimerSends ==
    ASSUME Timer, requests' # requests
    PROVE  /\ inst.ready /\ up
           /\ \E fast, slow : /\ Sample(fast, slow)
                              /\ update(model, fast, slow).side # "UNDEFINED"
           /\ \/ /\ requests' = Append(requests, Request("cancel", working_order_id, working_side))
                 /\ working_order_id # 0 /\ max_order_id' = max_order_id
              \/ \E side \in Sides :
                 /\ requests' = Append(requests, Request("create", max_order_id + 1, side))
                 /\ working_order_id = 0 /\ max_order_id' = max_order_id + 1
                 /\ max_order_id + 1 \in Ids
<1>1. ~no_trade /\ update_model
  BY DEF Timer, no_trade
<1>2. inst.ready /\ \E fast, slow : Sample(fast, slow)
  BY <1>1 DEF update_model
<1>3. PICK fast, slow : Sample(fast, slow)
  BY <1>2
<1> DEFINE side == update(model, fast, slow).side
<1>4. side # "UNDEFINED" /\ side \in Sides
  BY <1>1, <1>3, Signals DEF Sample
<1>5. try_trade(side)
  BY <1>3, <1>4 DEF Sample
<1> HIDE DEF side
<1>6. CASE enable_trading /\ working_order_id # 0 /\ side # working_side
  <2>1. /\ Sends(Request("cancel", working_order_id, working_side))
        /\ max_order_id' = max_order_id
    BY <1>5, <1>6 DEF try_trade
  <2>2. up /\ requests' = Append(requests, Request("cancel", working_order_id, working_side))
    BY <2>1 DEF Sends
  <2> QED
    BY <1>2, <1>3, <1>4, <1>6, <2>1, <2>2 DEF side
<1>7. CASE /\ enable_trading /\ working_order_id = 0 /\ can_trade(inst, side)
           /\ max_order_id + 1 \in Ids
  <2>1. /\ max_order_id' = max_order_id + 1
        /\ Sends(Request("create", max_order_id + 1, side))
    BY <1>5, <1>7 DEF try_trade
  <2>2. up /\ requests' = Append(requests, Request("create", max_order_id + 1, side))
    BY <2>1 DEF Sends
  <2> QED
    BY <1>2, <1>3, <1>4, <1>7, <2>1, <2>2 DEF side
<1> QED
  BY <1>1, <1>5, <1>6, <1>7 DEF try_trade, no_trade

\* A request joins the queue: only its own id can be added.
LEMMA AppendRequest ==
    ASSUME requests \in Seq(Requests), NEW r \in Requests, requests' = Append(requests, r)
    PROVE  /\ r.kind = "cancel" => Creating' = Creating
           /\ r.kind = "create" => Creating' = Creating \union {r.id}
<1> DEFINE n == Len(requests)
<1> HIDE DEF Requests
<1>1. DOMAIN requests' = 1..(n + 1) /\ DOMAIN requests = 1..n /\ n \in Nat
  BY AppendProperties
<1>2. requests'[n + 1] = r /\ \A i \in 1..n : requests'[i] = requests[i]
  BY AppendProperties
<1> HIDE DEF n
<1>3. 1..(n + 1) = (1..n) \union {n + 1}
  BY <1>1
<1>4. r.kind = "cancel" => Creating' = Creating
  BY <1>1, <1>2, <1>3 DEF Creating
<1>5. r.kind = "create" => Creating' = Creating \union {r.id}
  BY <1>1, <1>2, <1>3 DEF Creating
<1> QED
  BY <1>4, <1>5

\* The first request leaves the queue: no create request is added.
LEMMA TailOfRequests ==
    ASSUME requests \in Seq(Requests), requests # << >>, requests' = Tail(requests)
    PROVE  /\ Creating' \subseteq Creating /\ Head(requests) \in Requests
           /\ Head(requests).kind = "create" => Head(requests).id \in Creating
<1> HIDE DEF Requests
<1>1. /\ Len(requests) \in Nat \ {0} /\ Head(requests) = requests[1] /\ requests[1] \in Requests
      /\ DOMAIN requests = 1..Len(requests)
  BY EmptySeq, ElementOfSeq
<1>2. \A i \in DOMAIN requests' : i + 1 \in DOMAIN requests /\ requests'[i] = requests[i + 1]
  BY <1>1
<1>3. Creating' \subseteq Creating
  BY <1>2 DEF Creating
<1>4. 1 \in DOMAIN requests
  BY <1>1
<1> QED
  BY <1>1, <1>3, <1>4 DEF Creating

\* What a step does to the orders that rest or are being created.
LEMMA LiveStep ==
    ASSUME Example3Inv, Next
    PROVE  /\ KnownIds \subseteq KnownIds' /\ max_order_id <= max_order_id'
           /\ \/ Live' \subseteq Live
              \/ /\ Live = {} /\ Live' = {max_order_id + 1} /\ max_order_id + 1 \in Ids
                 /\ up /\ ~Downloading /\ max_order_id' = max_order_id + 1
<1> USE Example3Assumption
<1>0. max_order_id \in Nat /\ requests \in Seq(Requests) /\ order \in [Ids -> Orders]
  BY DEF Example3Inv, TypeOK
<1>1. ASSUME UNCHANGED <<requests, order>> PROVE Live' = Live /\ KnownIds' = KnownIds
  BY <1>1 DEF Live, Working, Creating, KnownIds, Ids
<1>2. CASE \/ Connected \/ Disconnected \/ DownloadBegin \/ OrderUpdate \/ PositionUpdate
           \/ ReferenceData \/ Connect \/ Stopped
           \/ \E what \in {"market", "account"}, b \in BOOLEAN : GatewayStatus(what, b)
           \/ \E b \in BOOLEAN : MarketStatus(b)
           \/ \E d \in Depths : MarketByPriceUpdate(d)
  <2>1. UNCHANGED <<requests, order, max_order_id>>
    BY <1>2 DEF Connected, Disconnected, DownloadBegin, OrderUpdate, PositionUpdate, ReferenceData,
       Connect, Stopped, GatewayStatus, MarketStatus, MarketByPriceUpdate, MarketEvent,
       InstrumentOnly, vars, strategy, wire
  <2> QED
    BY <1>0, <1>1, <2>1
<1>3. CASE DownloadEnd
  <2>1. UNCHANGED <<requests, order>> /\ max_order_id' = download_end(inbox[1])
        /\ Head(inbox).event = "download_end" /\ inbox # << >>
    BY <1>3, FirstEvent DEF DownloadEnd
  <2>2. inbox[1].max_order_id \in Nat
    BY <2>1, FirstEvent, EndEvents DEF Ids
  <2>3. max_order_id <= max_order_id'
    BY <1>0, <2>1, <2>2 DEF download_end
  <2> QED
    BY <1>1, <2>1, <2>3
<1>4. CASE Timer
  <2>1. order' = order
    BY <1>4 DEF Timer
  <2>2. CASE requests' = requests
    <3>1. max_order_id' = max_order_id \/ max_order_id' = max_order_id + 1
      BY <1>4 DEF Timer, update_model, Sample, no_trade, try_trade
    <3> QED
      BY <1>0, <1>1, <2>1, <2>2, <3>1
  <2>3. CASE requests' # requests
    <3>1. KnownIds' = KnownIds /\ Working' = Working
      BY <2>1 DEF KnownIds, Working, Ids
    <3>2. CASE /\ requests' = Append(requests, Request("cancel", working_order_id, working_side))
               /\ working_order_id # 0 /\ max_order_id' = max_order_id
      <4> DEFINE r == Request("cancel", working_order_id, working_side)
      <4>1. r \in Requests /\ r.kind = "cancel"
        BY <3>2 DEF Example3Inv, TypeOK, Request, Requests, Ids
      <4> HIDE DEF r
      <4>2. requests' = Append(requests, r)
        BY <3>2 DEF r
      <4>3. Creating' = Creating
        BY <1>0, <4>1, <4>2, AppendRequest
      <4> QED
        BY <1>0, <3>1, <3>2, <4>3 DEF Live
    <3>3. ASSUME NEW side \in Sides,
                 requests' = Append(requests, Request("create", max_order_id + 1, side)),
                 working_order_id = 0, max_order_id' = max_order_id + 1, max_order_id + 1 \in Ids
          PROVE  /\ Live = {} /\ Live' = {max_order_id + 1} /\ max_order_id + 1 \in Ids
                 /\ max_order_id' = max_order_id + 1
      <4> DEFINE r == Request("create", max_order_id + 1, side)
      <4>1. r \in Requests /\ r.kind = "create" /\ r.id = max_order_id + 1
        BY <3>3 DEF Request, Requests
      <4> HIDE DEF r
      <4>2. requests' = Append(requests, r)
        BY <3>3 DEF r
      <4>3. Creating' = Creating \union {max_order_id + 1}
        BY <1>0, <4>1, <4>2, AppendRequest
      <4>4. Live = {}
        BY <3>3, LiveIsWorkingOrder DEF Ids
      <4> QED
        BY <3>1, <3>3, <4>3, <4>4 DEF Live
    <3>4. inst.ready /\ up /\ ~Downloading
      BY <1>4, <2>3, TimerSends, ReadyIsLive
    <3>5. max_order_id <= max_order_id + 1
      BY <1>0
    <3> QED
      BY <1>4, <2>3, <3>1, <3>2, <3>3, <3>4, <3>5, TimerSends
  <2> QED
    BY <2>2, <2>3
<1>5. CASE GatewayRequest
  <2> DEFINE r == Head(requests)
  <2>1. requests # << >> /\ requests' = Tail(requests) /\ max_order_id' = max_order_id
    BY <1>5 DEF GatewayRequest, strategy
  <2>2. /\ Creating' \subseteq Creating /\ r \in Requests
        /\ r.kind = "create" => r.id \in Creating
    BY <1>0, <2>1, TailOfRequests
  <2>3. \/ order' = order
        \/ /\ r.kind = "create"
           /\ \E s \in {"working", "rejected"} :
                 order' = [order EXCEPT ![r.id] = [side |-> r.side, status |-> s, traded |-> 0]]
        \/ order' = [order EXCEPT ![r.id] = [order[r.id] EXCEPT !.status = "canceled"]]
    BY <1>5 DEF GatewayRequest, Changes
  <2>4. r.id \in Ids
    BY <2>2 DEF Requests
  <2> HIDE DEF r
  <2>5. ASSUME NEW o \in Orders, order' = [order EXCEPT ![r.id] = o], o.status # "none",
               o.status = "working" => r.id \in Creating
        PROVE  Working' \subseteq Live /\ KnownIds \subseteq KnownIds'
    BY <1>0, <2>4, <2>5 DEF Working, Live, KnownIds, Ids
  <2>6. CASE order' = order
    BY <1>0, <2>1, <2>2, <2>6 DEF Live, Working, KnownIds, Ids
  <2>7. ASSUME r.kind = "create", NEW s \in {"working", "rejected"},
               order' = [order EXCEPT ![r.id] = [side |-> r.side, status |-> s, traded |-> 0]]
        PROVE  Working' \subseteq Live /\ KnownIds \subseteq KnownIds'
    <3> DEFINE o == [side |-> r.side, status |-> s, traded |-> 0]
    <3>1. o \in Orders /\ o.status # "none"
      BY <2>2 DEF Orders, Statuses, Requests
    <3> QED
      BY <2>2, <2>5, <2>7, <3>1
  <2>8. CASE order' = [order EXCEPT ![r.id] = [order[r.id] EXCEPT !.status = "canceled"]]
    <3> DEFINE o == [order[r.id] EXCEPT !.status = "canceled"]
    <3>1. o \in Orders /\ o.status = "canceled"
      BY <1>0, <2>4 DEF Orders, Statuses
    <3> HIDE DEF o
    <3>2. order' = [order EXCEPT ![r.id] = o]
      BY <2>8 DEF o
    <3>3. Working' \subseteq Live /\ KnownIds \subseteq KnownIds'
      BY <2>5, <3>1, <3>2
    <3> QED
      BY <1>0, <2>1, <2>2, <3>3 DEF Live
  <2> QED
    BY <1>0, <2>1, <2>2, <2>3, <2>6, <2>7, <2>8 DEF Live
<1>6. ASSUME NEW i \in Ids, NEW q \in 1..Lot, Fill(i, q)
      PROVE  /\ KnownIds \subseteq KnownIds' /\ Live' \subseteq Live
             /\ max_order_id' = max_order_id
  <2>1. /\ order[i].status = "working" /\ UNCHANGED <<requests, max_order_id>>
        /\ \E o : order' = [order EXCEPT ![i] = o] /\ o.status \in {"completed", "working"}
    <3> DEFINE s == IF order[i].traded + q = Lot THEN "completed" ELSE "working"
               o == [order[i] EXCEPT !.traded = @ + q, !.status = s]
    <3>1. o.status = s /\ s \in {"completed", "working"}
      BY <1>0 DEF Orders
    <3>2. order' = [order EXCEPT ![i] = o] /\ order[i].status = "working"
          /\ UNCHANGED <<requests, max_order_id>>
      BY <1>6 DEF Fill, Changes, strategy
    <3> HIDE DEF o, s
    <3> QED
      BY <3>1, <3>2
  <2>2. Creating' = Creating
    BY <2>1 DEF Creating
  <2> QED
    BY <1>0, <2>1, <2>2 DEF Live, Working, KnownIds, Ids
<1>7. CASE LoseConnection
  <2>1. /\ requests' = << >> /\ max_order_id' = max_order_id
        /\ order' = [i \in Ids |-> IF order[i].status = "working"
                                   THEN [order[i] EXCEPT !.status = "canceled"] ELSE order[i]]
    BY <1>7 DEF LoseConnection, strategy
  <2>2. \A i \in Ids : /\ order'[i].status # "working"
                       /\ order[i].status # "none" => order'[i].status # "none"
    BY <1>0, <2>1 DEF Orders
  <2>3. Creating' = {}
    BY <2>1 DEF Creating
  <2>4. Working' = {} /\ KnownIds \subseteq KnownIds'
    BY <2>2 DEF Working, KnownIds, Ids
  <2> QED
    BY <1>0, <2>1, <2>3, <2>4 DEF Live
<1> QED
  BY <1>0, <1>2, <1>3, <1>4, <1>5, <1>6, <1>7 DEF Next

Used == 1..(IF GatewayMaxOrderId > max_order_id THEN GatewayMaxOrderId ELSE max_order_id)

LEMMA HighestIdNext ==
    ASSUME KnowsSome'
    PROVE  GatewayMaxOrderId' \in KnownIds' /\ \A i \in KnownIds' : i <= GatewayMaxOrderId'
BY DEF KnowsSome, GatewayMaxOrderId

\* example-3: a create request is sent only when no earlier order rests or can come to
\* rest, and with an id that no session used before; for any number of orders, fills and
\* reconnects, although any final order update clears the working order.
THEOREM OneWorkingOrderHolds ==
    ASSUME AccountInside PROVE Spec => OneWorkingOrder
<1> USE Example3Assumption
<1>1. Example3Inv => Used \subseteq Ids
  <2> SUFFICES ASSUME Example3Inv PROVE Used \subseteq Ids
    OBVIOUS
  <2>1. GatewayMaxOrderId \in Ids
    BY HighestId DEF Example3Inv, KnownIds
  <2> QED
    BY <2>1 DEF Used, Ids, Example3Inv, TypeOK
<1>2. Init => Slot!Init
  <2> SUFFICES ASSUME Init PROVE Slot!Init
    OBVIOUS
  <2>1. Used \subseteq Ids
    BY <1>1, InvariantInit
  <2>2. Live = {}
    BY InvariantInit, LiveIsWorkingOrder DEF Init
  <2>3. [s \in {0} |-> Live] = [s \in {0} |-> {}]
    BY <2>2
  <2> QED
    BY <2>1, <2>3 DEF Slot!Init, Used, Live, Working, Creating, LiveIds
<1>3. Example3Inv /\ Example3Inv' /\ Next => Slot!Next
  <2> SUFFICES ASSUME Example3Inv, Example3Inv', Next PROVE Slot!Next
    OBVIOUS
  <2>1. /\ GatewayMaxOrderId \in KnownIds /\ GatewayMaxOrderId' \in KnownIds'
        /\ GatewayMaxOrderId <= GatewayMaxOrderId'
    BY HighestId, HighestIdNext, LiveStep DEF Example3Inv
  <2>2. GatewayMaxOrderId \in Ids /\ GatewayMaxOrderId' \in Ids
    BY <2>1 DEF KnownIds, Ids
  <2>3. /\ max_order_id \in Nat /\ max_order_id' \in Nat /\ max_order_id <= max_order_id'
        /\ max_order_id' <= MaxOrders
    BY LiveStep DEF Example3Inv, TypeOK
  <2>4. Used \subseteq Used' /\ Used' \subseteq Ids
    BY <2>1, <2>2, <2>3 DEF Used, Ids
  <2>5. Live' \subseteq Ids
    BY LiveStep, LiveIsWorkingOrder
  <2>6. \/ Live' = Live \/ Live' = {}
        \/ Live = {} /\ \E id \in Ids \ Used : id \in Used' /\ Live' = {id}
    <3>1. CASE Live' \subseteq Live
      BY <3>1, LiveIsWorkingOrder
    <3>2. CASE /\ Live = {} /\ Live' = {max_order_id + 1} /\ max_order_id + 1 \in Ids
               /\ up /\ ~Downloading /\ max_order_id' = max_order_id + 1
      <4>1. GatewayMaxOrderId <= max_order_id
        BY <2>1, <3>2 DEF Example3Inv, Connection
      <4>2. max_order_id + 1 \notin Used /\ max_order_id + 1 \in Used'
        BY <2>1, <2>2, <2>3, <3>2, <4>1 DEF Used, Ids
      <4> QED
        BY <3>2, <4>2
    <3> QED
      BY <3>1, <3>2, LiveStep
  <2> DEFINE holds == [s \in {0} |-> Live]
             holds2 == [s \in {0} |-> Live']
  <2>7. /\ Used' \in SUBSET Ids /\ Used \subseteq Used'
        /\ holds2 \in [{0} -> SUBSET Ids]
        /\ \A s \in {0} : \/ holds2[s] = holds[s] \/ holds2[s] = {}
                          \/ holds[s] = {} /\ \E id \in Ids \ Used : id \in Used' /\ holds2[s] = {id}
        /\ \A s, t \in {0} : s # t => holds2[s] \intersect holds2[t] = {}
    BY <2>4, <2>5, <2>6
  <2> QED
    BY <2>7
       DEF Slot!Next, Slot!Keep, Slot!Release, Slot!Create, Used, Live, Working, Creating, LiveIds, Ids
<1>4. UNCHANGED vars => UNCHANGED <<Used, [s \in {0} |-> Live]>>
  BY DEF vars, strategy, wire, Used, Live, Working, Creating, GatewayMaxOrderId, KnownIds, Ids
<1> QED
  BY <1>2, <1>3, <1>4, Example3Invariant, PTL
     DEF Spec, OneWorkingOrder, Slot!Spec, Used, Live, Working, Creating, LiveIds

-----------------------------------------------------------------------------
(***************************************************************************)
(* What holds wherever the account's download lies: the types and the      *)
(* readiness.                                                              *)
(***************************************************************************)

\* Reference data is not kept without a connection.
Unreferenced == ~inst.connected => ~inst.ref

\* Without a connection the disconnect is unhandled, or the instrument knows.
Quiet ==
    ~up => \/ left = 0 /\ ~inst.connected
           \/ left = 1 /\ inbox[1].event = "disconnected"

\* Before the market's download begins there is no reference data, and market events
\* come no earlier than that.
Announces ==
    \A k \in 1..left : IsBegin(inbox[k], "none") =>
        ~inst.ref /\ (k = 1 \/ (k = 2 /\ ~inst.connected))

BaseInv == TypeOK /\ KnowsSome /\ ReadyIsCurrent /\ Unreferenced /\ Quiet /\ Announces

\* The next event is handled.
LEMMA BasePop ==
    ASSUME BaseInv, inbox # << >>, inbox' = Tail(inbox),
           inst' \in Instruments, ReadyIsCurrent', Unreferenced', inst'.ref => inst.ref,
           Head(inbox).event = "disconnected" => ~inst'.connected,
           max_order_id' \in Nat, max_order_id' <= MaxOrders,
           working_order_id' \in 0..MaxOrders, working_order_id' # 0 => working_side' \in Sides,
           UNCHANGED <<requests, order, exposure, up>>
    PROVE  BaseInv'
<1>1. /\ inbox' \in Seq(Events) /\ left \in Nat \ {0} /\ left' = left - 1
      /\ Head(inbox) = inbox[1]
  BY Popped DEF BaseInv, TypeOK
<1>2. \A k \in 1..(left - 1) : inbox'[k] = inbox[k + 1]
  BY Popped DEF BaseInv, TypeOK
<1>3. TypeOK' /\ KnowsSome'
  BY <1>1 DEF BaseInv, TypeOK, KnowsSome, KnownIds, Ids
<1>4. Quiet'
  BY <1>1 DEF BaseInv, Quiet
<1>5. Announces'
  <2> SUFFICES ASSUME NEW k \in 1..left', IsBegin(inbox'[k], "none") PROVE ~inst'.ref /\ k = 1
    BY DEF Announces
  <2>1. k \in 1..(left - 1) /\ k + 1 \in 1..left
    BY <1>1
  <2>2. IsBegin(inbox[k + 1], "none")
    BY <1>2, <2>1
  <2> QED
    BY <2>1, <2>2 DEF BaseInv, Announces
<1> QED
  BY <1>3, <1>4, <1>5 DEF BaseInv

\* No event comes or goes: a market event, or the timer.
LEMMA BaseKeep ==
    ASSUME BaseInv, UNCHANGED <<inbox, order, exposure, up>>,
           inst' = inst \/ (up /\ Open), inst' \in Instruments, ReadyIsCurrent',
           inst'.connected = inst.connected,
           max_order_id' \in Nat, max_order_id' <= MaxOrders,
           working_order_id' \in 0..MaxOrders, working_order_id' # 0 => working_side' \in Sides,
           requests' \in Seq(Requests)
    PROVE  BaseInv'
<1>1. left \in Nat /\ left' = left
  BY LenProperties DEF BaseInv, TypeOK, left
<1>2. TypeOK' /\ KnowsSome'
  BY DEF BaseInv, TypeOK, KnowsSome, KnownIds, Ids
<1>3. Unreferenced'
  BY DEF BaseInv, Unreferenced, Open
<1>4. Quiet'
  BY <1>1 DEF BaseInv, Quiet
<1>5. Announces'
  <2>1. CASE inst' = inst
    BY <1>1, <2>1 DEF BaseInv, Announces
  <2>2. CASE Open
    <3> SUFFICES ASSUME NEW k \in 1..left, IsBegin(inbox[k], "none") PROVE FALSE
      BY <1>1 DEF Announces
    <3>1. k = 1
      BY <2>2 DEF BaseInv, Announces, Open
    <3>2. inbox # << >> /\ Head(inbox) = inbox[1]
      BY <1>1, EmptySeq DEF BaseInv, TypeOK, left
    <3> QED
      BY <2>2, <3>1, <3>2 DEF Open, Announced, of_market, IsBegin
  <2> QED
    BY <2>1, <2>2
<1> QED
  BY <1>2, <1>3, <1>4, <1>5 DEF BaseInv

\* An order changes and the client is told.
LEMMA BaseChanges ==
    ASSUME BaseInv, up, NEW i \in Ids, NEW o \in Orders, o.status # "none", Changes(i, o),
           exposure' \in Int, requests' \in Seq(Requests),
           UNCHANGED <<inst, max_order_id, working_order_id, working_side, up>>
    PROVE  BaseInv'
<1> DEFINE e == OrderEvent(i, o)
<1>1. e \in Events /\ e.event = "order"
  BY OrderEventType
<1>2. order' = [order EXCEPT ![i] = o] /\ inbox' = Append(inbox, e)
  BY DEF Changes
<1> HIDE DEF e
<1>3. inbox' \in Seq(Events) /\ left \in Nat /\ left' = left + 1
  BY <1>1, <1>2, Pushed DEF BaseInv, TypeOK
<1>4. inbox'[left + 1] = e /\ \A k \in 1..left : inbox'[k] = inbox[k]
  BY <1>1, <1>2, Pushed DEF BaseInv, TypeOK
<1>5. order \in [Ids -> Orders]
  BY DEF BaseInv, TypeOK
<1>6. order' \in [Ids -> Orders] /\ order'[i] = o /\ \A j \in Ids \ {i} : order'[j] = order[j]
  BY <1>2, <1>5
<1>7. TypeOK'
  <2>1. \A j \in Ids : order'[j].status = "none" => order'[j].traded = 0
    BY <1>6 DEF BaseInv, TypeOK
  <2> QED
    BY <1>3, <1>6, <2>1 DEF BaseInv, TypeOK
<1>8. KnowsSome'
  <2>1. PICK m \in KnownIds : \A j \in KnownIds : j <= m
    BY DEF BaseInv, KnowsSome
  <2>2. m \in Nat /\ i \in Nat /\ \A j \in KnownIds : j \in Nat
    BY <2>1 DEF KnownIds, Ids
  <2>3. KnownIds' = KnownIds \union {i}
    BY <1>6 DEF KnownIds, Ids
  <2>4. CASE m <= i
    BY <2>1, <2>2, <2>3, <2>4 DEF KnowsSome
  <2>5. CASE i <= m
    BY <2>1, <2>2, <2>3, <2>5 DEF KnowsSome
  <2> QED
    BY <2>2, <2>4, <2>5
<1>9. ReadyIsCurrent' /\ Unreferenced' /\ Quiet'
  BY DEF BaseInv, ReadyIsCurrent, tradable, Unreferenced, Quiet
<1>10. Announces'
  <2> SUFFICES ASSUME NEW k \in 1..left', IsBegin(inbox'[k], "none")
               PROVE  ~inst.ref /\ (k = 1 \/ (k = 2 /\ ~inst.connected))
    BY DEF Announces
  <2>1. k # left + 1
    BY <1>1, <1>4 DEF IsBegin
  <2>2. k \in 1..left
    BY <1>3, <2>1
  <2> QED
    BY <1>4, <2>2 DEF BaseInv, Announces
<1> QED
  BY <1>7, <1>8, <1>9, <1>10 DEF BaseInv

LEMMA BaseEvents ==
    ASSUME BaseInv,
           Connected \/ Disconnected \/ DownloadBegin \/ DownloadEnd \/ OrderUpdate \/ PositionUpdate
    PROVE  BaseInv'
<1> USE Example3Assumption
<1>1. /\ inbox # << >> /\ inbox' = Tail(inbox)
      /\ UNCHANGED <<requests, order, exposure, up>>
  BY DEF Connected, Disconnected, DownloadBegin, DownloadEnd, OrderUpdate, PositionUpdate, Handles,
     InstrumentOnly
<1>2. /\ inst \in Instruments /\ inst.ready = tradable(inst) /\ (~inst.connected => ~inst.ref)
      /\ max_order_id \in Nat /\ max_order_id <= MaxOrders
      /\ working_order_id \in 0..MaxOrders /\ (working_order_id # 0 => working_side \in Sides)
  BY DEF BaseInv, TypeOK, ReadyIsCurrent, Unreferenced
<1>3. Head(inbox) = inbox[1] /\ inbox[1] \in Events /\ 1 \in 1..left
  BY <1>1, Popped DEF BaseInv, TypeOK
<1>4. ASSUME inst' \in Instruments, inst'.ready = tradable(inst'), ~inst'.connected => ~inst'.ref,
             inst'.ref => inst.ref, Head(inbox).event = "disconnected" => ~inst'.connected,
             max_order_id' \in Nat, max_order_id' <= MaxOrders, working_order_id' \in 0..MaxOrders,
             working_order_id' # 0 => working_side' \in Sides
      PROVE  BaseInv'
  <2>1. ReadyIsCurrent' /\ Unreferenced'
    BY <1>4 DEF ReadyIsCurrent, Unreferenced, tradable
  <2> QED
    BY <1>1, <1>4, <2>1, BasePop
<1>5. CASE Connected
  <2>1. /\ inst' = on_connected(inst) /\ Head(inbox).event = "connected"
        /\ UNCHANGED <<max_order_id, working_order_id, working_side>>
    BY <1>5 DEF Connected, Handles, InstrumentOnly
  <2> DEFINE m == [inst EXCEPT !.connected = TRUE]
  <2>2. m \in Instruments /\ m.connected /\ m.ref = inst.ref
    BY <1>2 DEF Instruments
  <2>3. (inst' = inst /\ inst.connected) \/ inst' = check_ready(m)
    BY <2>1 DEF on_connected
  <2> HIDE DEF m
  <2>4. /\ inst' \in Instruments /\ inst'.ready = tradable(inst') /\ inst'.connected
        /\ inst'.ref = inst.ref
    BY <1>2, <2>2, <2>3, CheckReady
  <2> QED
    BY <1>2, <1>4, <2>1, <2>4
<1>6. CASE Disconnected
  <2>1. /\ inst' = on_disconnected(inst)
        /\ UNCHANGED <<max_order_id, working_order_id, working_side>>
    BY <1>6 DEF Disconnected, Handles, InstrumentOnly
  <2>2. /\ inst' \in Instruments /\ inst'.ready = tradable(inst') /\ ~inst'.connected /\ ~inst'.ref
    BY <1>2, <2>1, OnReset DEF on_disconnected, tradable
  <2> QED
    BY <1>2, <1>4, <2>1, <2>2
<1>7. CASE DownloadBegin
  <2>1. /\ inst' = on_download_begin(inst, inbox[1]) /\ inbox[1].event = "download_begin"
        /\ UNCHANGED <<max_order_id, working_order_id, working_side>>
    BY <1>3, <1>7 DEF DownloadBegin, Handles, InstrumentOnly
  <2>2. CASE ~of_market(inbox[1])
    BY <1>2, <1>3, <1>4, <2>1, <2>2 DEF on_download_begin
  <2>3. CASE of_market(inbox[1])
    <3>1. ~inst.ref
      BY <1>3, <2>1, <2>3 DEF BaseInv, Announces, IsBegin, of_market
    <3>2. inst' = [inst EXCEPT !.download = TRUE]
      BY <2>1, <2>3 DEF on_download_begin
    <3>3. /\ inst' \in Instruments /\ inst'.ready = inst.ready /\ inst'.ref = inst.ref
      BY <1>2, <3>2 DEF Instruments
    <3>4. inst.ready = FALSE /\ tradable(inst') = FALSE
      BY <1>2, <3>1, <3>3 DEF tradable
    <3> QED
      BY <1>2, <1>3, <1>4, <2>1, <3>1, <3>3, <3>4
  <2> QED
    BY <2>2, <2>3
<1>8. CASE DownloadEnd
  <2>1. /\ inst' = on_download_end(inst, inbox[1]) /\ inbox[1].event = "download_end"
        /\ max_order_id' = download_end(inbox[1]) /\ UNCHANGED <<working_order_id, working_side>>
    BY <1>3, <1>8 DEF DownloadEnd
  <2>2. max_order_id' \in Nat /\ max_order_id' <= MaxOrders
    BY <1>2, <1>3, <2>1, EndEvents DEF download_end
  <2> DEFINE m == [inst EXCEPT !.download = FALSE]
  <2>3. m \in Instruments /\ m.connected = inst.connected /\ m.ref = inst.ref
    BY <1>2 DEF Instruments
  <2>4. inst' = inst \/ inst' = check_ready(m)
    BY <2>1 DEF on_download_end
  <2> HIDE DEF m
  <2>5. /\ inst' \in Instruments /\ inst'.ready = tradable(inst')
        /\ inst'.connected = inst.connected /\ inst'.ref = inst.ref
    BY <1>2, <2>3, <2>4, CheckReady
  <2> QED
    BY <1>2, <1>3, <1>4, <2>1, <2>2, <2>5
<1>9. CASE OrderUpdate
  <2>1. /\ inst' = on_order_update(inst, inbox[1]) /\ inbox[1].event = "order"
        /\ max_order_id' = max_order_id
        /\ \/ working_order_id' = 0
           \/ UNCHANGED <<working_order_id, working_side>>
    BY <1>3, <1>9 DEF OrderUpdate
  <2>2. inbox[1].id \in Ids /\ inbox[1].side \in Sides /\ inbox[1].traded \in 0..Lot
    BY <1>3, <2>1, OrderEvents
  <2>3. /\ inst' \in Instruments /\ inst'.ready = inst.ready /\ tradable(inst') = tradable(inst)
        /\ inst'.connected = inst.connected /\ inst'.ref = inst.ref
    BY <1>2, <2>1, <2>2, OnOrderUpdate
  <2>4. working_order_id' \in 0..MaxOrders /\ (working_order_id' # 0 => working_side' \in Sides)
    BY <1>2, <2>1
  <2> QED
    BY <1>2, <1>3, <1>4, <2>1, <2>3, <2>4
<1>10. CASE PositionUpdate
  <2>1. /\ inst' = on_position_update(inst, inbox[1]) /\ inbox[1].event = "position"
        /\ UNCHANGED <<max_order_id, working_order_id, working_side>>
    BY <1>3, <1>10 DEF PositionUpdate, InstrumentOnly
  <2>2. inbox[1].long \in Nat /\ inbox[1].short \in Nat
    BY <1>3, <2>1, PositionEvents
  <2>3. CASE inst.download
    <3>1. /\ inst' \in Instruments /\ inst'.ready = inst.ready /\ tradable(inst') = tradable(inst)
          /\ inst'.connected = inst.connected /\ inst'.ref = inst.ref
      BY <1>2, <2>1, <2>2, <2>3, OnPositionUpdate
    <3> QED
      BY <1>2, <1>3, <1>4, <2>1, <3>1
  <2>4. CASE ~inst.download
    BY <1>2, <1>3, <1>4, <2>1, <2>4 DEF on_position_update
  <2> QED
    BY <2>3, <2>4
<1> QED
  BY <1>5, <1>6, <1>7, <1>8, <1>9, <1>10

\* A market event that ends with a refresh of the readiness.
LEMMA BaseRefresh ==
    ASSUME BaseInv, NEW i \in Instruments, MarketEvent(check_ready(i)), i.connected = inst.connected
    PROVE  BaseInv'
<1>1. /\ inst' = check_ready(i) /\ up /\ Open
      /\ UNCHANGED <<max_order_id, working_order_id, working_side, requests, inbox, order, exposure, up>>
  BY DEF MarketEvent, InstrumentOnly, Open
<1>2. inst' \in Instruments /\ inst'.ready = tradable(inst') /\ inst'.connected = inst.connected
  BY <1>1, CheckReady
<1>3. ReadyIsCurrent'
  BY <1>2 DEF ReadyIsCurrent, tradable
<1> QED
  BY <1>1, <1>2, <1>3, BaseKeep DEF BaseInv, TypeOK

LEMMA BaseMarket ==
    ASSUME BaseInv,
           \/ ReferenceData
           \/ \E what \in {"market", "account"}, b \in BOOLEAN : GatewayStatus(what, b)
           \/ \E b \in BOOLEAN : MarketStatus(b)
           \/ \E d \in Depths : MarketByPriceUpdate(d)
    PROVE  BaseInv'
<1>0. inst \in Instruments /\ inst.ready = tradable(inst)
  BY DEF BaseInv, TypeOK, ReadyIsCurrent
<1>1. CASE ReferenceData
  <2> DEFINE i == [inst EXCEPT !.ref = TRUE, !.multiplier = TRUE]
  <2>1. i \in Instruments /\ i.connected = inst.connected
    BY <1>0 DEF Instruments
  <2>2. MarketEvent(check_ready(i))
    BY <1>1 DEF ReferenceData
  <2> HIDE DEF i
  <2> QED
    BY <2>1, <2>2, BaseRefresh
<1>2. ASSUME NEW what \in {"market", "account"}, NEW b \in BOOLEAN, GatewayStatus(what, b)
      PROVE  BaseInv'
  <2> DEFINE i == IF what = "market" THEN [inst EXCEPT !.market_data = b]
                                     ELSE [inst EXCEPT !.order_management = b]
  <2>1. i \in Instruments /\ i.connected = inst.connected
    BY <1>0 DEF Instruments
  <2>2. MarketEvent(check_ready(i))
    BY <1>2 DEF GatewayStatus
  <2> HIDE DEF i
  <2> QED
    BY <2>1, <2>2, BaseRefresh
<1>3. ASSUME NEW b \in BOOLEAN, MarketStatus(b) PROVE BaseInv'
  <2> DEFINE i == [inst EXCEPT !.open = b]
  <2>1. i \in Instruments /\ i.connected = inst.connected
    BY <1>0 DEF Instruments
  <2>2. MarketEvent(check_ready(i))
    BY <1>3 DEF MarketStatus
  <2> HIDE DEF i
  <2> QED
    BY <2>1, <2>2, BaseRefresh
<1>4. ASSUME NEW d \in Depths, MarketByPriceUpdate(d) PROVE BaseInv'
  <2> DEFINE b == (d # "thin")
  <2>1. /\ inst' = [inst EXCEPT !.full = b] /\ up /\ Open
        /\ UNCHANGED <<max_order_id, working_order_id, working_side, requests, inbox, order, exposure, up>>
    BY <1>4 DEF MarketByPriceUpdate, MarketEvent, InstrumentOnly, Open
  <2>2. b \in BOOLEAN
    OBVIOUS
  <2> HIDE DEF b
  <2>3. /\ inst' \in Instruments /\ inst'.ready = inst.ready
        /\ inst'.connected = inst.connected /\ inst'.download = inst.download
        /\ inst'.ref = inst.ref /\ inst'.multiplier = inst.multiplier /\ inst'.open = inst.open
        /\ inst'.market_data = inst.market_data /\ inst'.order_management = inst.order_management
    BY <1>0, <2>1, <2>2 DEF Instruments
  <2>4. ReadyIsCurrent'
    BY <1>0, <2>3 DEF ReadyIsCurrent, tradable
  <2> QED
    BY <2>1, <2>3, <2>4, BaseKeep DEF BaseInv, TypeOK
<1> QED
  BY <1>1, <1>2, <1>3, <1>4

\* The timer: one request at most joins the queue.
LEMMA BaseTimer ==
    ASSUME BaseInv, Timer PROVE BaseInv'
<1> USE Example3Assumption
<1>1. UNCHANGED <<inst, inbox, order, exposure, up>>
  BY DEF Timer
<1>2. ReadyIsCurrent' /\ inst' \in Instruments
  BY <1>1 DEF BaseInv, TypeOK, ReadyIsCurrent, tradable
<1>3. ASSUME NEW r \in Requests, requests' = requests \/ requests' = Append(requests, r)
      PROVE  requests' \in Seq(Requests)
  <2>1. requests \in Seq(Requests)
    BY DEF BaseInv, TypeOK
  <2> HIDE DEF Requests
  <2> QED
    BY <1>3, <2>1, AppendProperties
<1>4. CASE no_trade
  BY <1>1, <1>2, <1>4, BaseKeep DEF no_trade, BaseInv, TypeOK
<1>5. ASSUME NEW side \in Sides, try_trade(side) PROVE BaseInv'
  <2>1. CASE enable_trading /\ working_order_id # 0 /\ side # working_side
    <3> DEFINE r == Request("cancel", working_order_id, working_side)
    <3>1. Sends(r) /\ UNCHANGED <<max_order_id, working_order_id, working_side>>
      BY <1>5, <2>1 DEF try_trade
    <3>2. r \in Requests
      BY <2>1 DEF BaseInv, TypeOK, Request, Requests, Ids
    <3> HIDE DEF r
    <3>3. requests' \in Seq(Requests)
      BY <1>3, <3>1, <3>2 DEF Sends
    <3> QED
      BY <1>1, <1>2, <3>1, <3>3, BaseKeep DEF BaseInv, TypeOK
  <2>2. CASE /\ enable_trading /\ working_order_id = 0 /\ can_trade(inst, side)
             /\ max_order_id + 1 \in Ids
    <3> DEFINE r == Request("create", max_order_id + 1, side)
    <3>1. /\ max_order_id' = max_order_id + 1 /\ Sends(r)
          /\ IF halted' = "no" THEN working_order_id' = max_order_id + 1 /\ working_side' = side
                               ELSE UNCHANGED <<working_order_id, working_side>>
      BY <1>5, <2>2 DEF try_trade
    <3>2. r \in Requests /\ max_order_id + 1 \in 0..MaxOrders
      BY <2>2 DEF Request, Requests, Ids
    <3> HIDE DEF r
    <3>3. requests' \in Seq(Requests)
      BY <1>3, <3>1, <3>2 DEF Sends
    <3>4. max_order_id' \in Nat /\ max_order_id' <= MaxOrders
      BY <3>1, <3>2
    <3>5. working_order_id' \in 0..MaxOrders /\ (working_order_id' # 0 => working_side' \in Sides)
      BY <3>1, <3>2 DEF BaseInv, TypeOK
    <3> QED
      BY <1>1, <1>2, <3>3, <3>4, <3>5, BaseKeep
  <2>3. CASE no_trade
    BY <1>4, <2>3
  <2> QED
    BY <1>5, <2>1, <2>2, <2>3 DEF try_trade, no_trade
<1>6. ASSUME NEW fast, NEW slow, Sample(fast, slow) PROVE BaseInv'
  BY <1>4, <1>5, <1>6, Signals DEF Sample
<1> QED
  BY <1>4, <1>6 DEF Timer, update_model

\* The gateway takes a request, an order is filled, or the connection is lost.
LEMMA BaseGateway ==
    ASSUME BaseInv, GatewayRequest \/ (\E i \in Ids, q \in 1..Lot : Fill(i, q)) \/ LoseConnection
    PROVE  BaseInv'
<1> USE Example3Assumption
<1>0. /\ order \in [Ids -> Orders] /\ requests \in Seq(Requests) /\ exposure \in Int
      /\ ReadyIsCurrent /\ inst \in Instruments
  BY DEF BaseInv, TypeOK
<1>1. CASE GatewayRequest
  <2> DEFINE r == Head(requests)
  <2>1. /\ up /\ requests # << >> /\ requests' = Tail(requests)
        /\ UNCHANGED <<inst, max_order_id, working_order_id, working_side, exposure, up>>
    BY <1>1 DEF GatewayRequest, strategy
  <2>2. r \in Requests /\ requests' \in Seq(Requests)
    <3> HIDE DEF Requests
    <3> QED
      BY <1>0, <2>1, HeadTailProperties
  <2>3. r.id \in Ids /\ r.side \in Sides /\ order[r.id] \in Orders
    BY <1>0, <2>2 DEF Requests
  <2>4. \/ \E s \in {"working", "rejected"} :
              Changes(r.id, [side |-> r.side, status |-> s, traded |-> 0])
        \/ UNCHANGED <<order, inbox>>
        \/ Changes(r.id, [order[r.id] EXCEPT !.status = "canceled"])
    BY <1>1 DEF GatewayRequest
  <2> HIDE DEF r
  <2>5. ASSUME NEW s \in {"working", "rejected"},
               Changes(r.id, [side |-> r.side, status |-> s, traded |-> 0])
        PROVE  BaseInv'
    <3> DEFINE o == [side |-> r.side, status |-> s, traded |-> 0]
    <3>1. o \in Orders /\ o.status # "none"
      BY <2>3 DEF Orders, Statuses
    <3>2. Changes(r.id, o)
      BY <2>5
    <3> HIDE DEF o
    <3> QED
      BY <1>0, <2>1, <2>2, <2>3, <3>1, <3>2, BaseChanges
  <2>6. CASE UNCHANGED <<order, inbox>>
    <3>1. ReadyIsCurrent'
      BY <1>0, <2>1 DEF ReadyIsCurrent, tradable
    <3> QED
      BY <1>0, <2>1, <2>2, <2>6, <3>1, BaseKeep DEF BaseInv, TypeOK
  <2>7. CASE Changes(r.id, [order[r.id] EXCEPT !.status = "canceled"])
    <3> DEFINE o == [order[r.id] EXCEPT !.status = "canceled"]
    <3>1. o \in Orders /\ o.status # "none"
      BY <2>3 DEF Orders, Statuses
    <3>2. Changes(r.id, o)
      BY <2>7
    <3> HIDE DEF o
    <3> QED
      BY <1>0, <2>1, <2>2, <2>3, <3>1, <3>2, BaseChanges
  <2> QED
    BY <2>4, <2>5, <2>6, <2>7
<1>2. ASSUME NEW i \in Ids, NEW q \in 1..Lot, Fill(i, q) PROVE BaseInv'
  <2> DEFINE s == IF order[i].traded + q = Lot THEN "completed" ELSE "working"
             o == [order[i] EXCEPT !.traded = @ + q, !.status = s]
  <2>1. /\ up /\ order[i].traded + q <= Lot /\ Changes(i, o)
        /\ exposure' = IF order[i].side = "BUY" THEN exposure + q ELSE exposure - q
        /\ UNCHANGED <<inst, max_order_id, working_order_id, working_side, requests, up>>
    BY <1>2 DEF Fill, strategy
  <2>2. order[i] \in Orders /\ order[i].traded \in 0..Lot
    BY <1>0 DEF Orders
  <2>3. order[i].traded + q \in 0..Lot /\ exposure' \in Int
    BY <1>0, <2>1, <2>2
  <2>4. s \in Statuses /\ s # "none"
    BY DEF Statuses
  <2> HIDE DEF s
  <2>5. o \in Orders /\ o.status # "none"
    BY <2>2, <2>3, <2>4 DEF Orders
  <2> HIDE DEF o
  <2> QED
    BY <1>0, <2>1, <2>3, <2>5, BaseChanges
<1>3. CASE LoseConnection
  <2>1. /\ up' = FALSE /\ requests' = << >> /\ inbox' = <<[event |-> "disconnected"]>>
        /\ order' = [i \in Ids |-> IF order[i].status = "working"
                                   THEN [order[i] EXCEPT !.status = "canceled"] ELSE order[i]]
        /\ UNCHANGED <<inst, max_order_id, working_order_id, working_side, exposure>>
    BY <1>3 DEF LoseConnection, strategy
  <2>2. \A i \in Ids : /\ order'[i] \in Orders
                       /\ order'[i].status = "none" <=> order[i].status = "none"
                       /\ order'[i].traded = order[i].traded
    BY <1>0, <2>1 DEF Orders, Statuses
  <2>3. order' \in [Ids -> Orders]
    BY <2>1, <2>2
  <2>4. inbox' \in Seq(Events) /\ left' = 1 /\ inbox'[1].event = "disconnected"
    <3>1. [event |-> "disconnected"] \in Events
      BY DEF Events
    <3> HIDE DEF Events
    <3> QED
      BY <2>1, <3>1 DEF left
  <2>5. requests' \in Seq(Requests)
    <3> HIDE DEF Requests
    <3> QED
      BY <2>1
  <2>6. TypeOK'
    BY <2>1, <2>2, <2>3, <2>4, <2>5 DEF BaseInv, TypeOK
  <2>7. KnowsSome' /\ ReadyIsCurrent' /\ Unreferenced'
    <3>1. KnownIds' = KnownIds
      BY <2>2 DEF KnownIds, Ids
    <3> QED
      BY <2>1, <3>1 DEF BaseInv, KnowsSome, ReadyIsCurrent, tradable, Unreferenced
  <2>8. Quiet' /\ Announces'
    BY <2>4 DEF Quiet, Announces, IsBegin
  <2> QED
    BY <2>6, <2>7, <2>8 DEF BaseInv
<1> QED
  BY <1>1, <1>2, <1>3

\* The connection comes up; only the second event announces the market's download.
LEMMA BaseConnect ==
    ASSUME BaseInv, Connect PROVE BaseInv'
<1> USE Example3Assumption
<1>1. /\ ~up /\ inbox = << >> /\ up' = TRUE
      /\ UNCHANGED <<inst, max_order_id, working_order_id, working_side, requests, order, exposure>>
  BY DEF Connect, strategy
<1>2. ~inst.connected /\ ~inst.ref
  BY <1>1 DEF BaseInv, Quiet, Unreferenced, left
<1> DEFINE a == [event |-> "connected"]
           b == Begins("none")
           f == Ends("none", 0)
<1>3. PICK ids \in Snapshots :
        inbox' = IF AccountInside THEN <<a, b>> \o AccountDownload(ids) \o <<f>>
                                  ELSE <<a, b, f>> \o AccountDownload(ids)
  BY DEF Connect
<1> DEFINE t == AccountDownload(ids)
<1>4. inbox' = IF AccountInside THEN <<a, b>> \o t \o <<f>> ELSE <<a, b, f>> \o t
  BY <1>3
<1>5. PICK n \in Nat \ {0} :
        /\ t \in Seq(Events) /\ Len(t) = n + 3
        /\ IsBegin(t[1], "account") /\ t[n + 2] = PositionEvent
        /\ \A k \in 2..(n + 1) : \E i \in KnownIds : t[k] = OrderEvent(i, order[i])
        /\ t[n + 3] = Ends("account", GatewayMaxOrderId)
  <2> HIDE DEF Events, t
  <2> QED
    BY AccountDownloadEvents DEF BaseInv, t
<1> HIDE DEF t
<1>6. ASSUME NEW k \in 1..Len(t) PROVE ~IsBegin(t[k], "none")
  <2>1. k = 1 \/ k \in 2..(n + 1) \/ k = n + 2 \/ k = n + 3
    BY <1>5
  <2>2. CASE k \in 2..(n + 1)
    <3>1. PICK i \in KnownIds : t[k] = OrderEvent(i, order[i])
      BY <1>5, <2>2
    <3> QED
      BY <3>1 DEF OrderEvent, IsBegin
  <2>3. CASE k = 1 \/ k = n + 2 \/ k = n + 3
    BY <1>5, <2>3 DEF PositionEvent, Ends, IsBegin
  <2> QED
    BY <2>1, <2>2, <2>3
<1>7. /\ a \in Events /\ b \in Events /\ f \in Events
      /\ ~IsBegin(a, "none") /\ ~IsBegin(f, "none")
  <2>1. "none" \in Accounts /\ 0 \in 0..MaxOrders
    BY DEF Accounts
  <2>2. a \in Events /\ ~IsBegin(a, "none") /\ ~IsBegin(f, "none")
    BY DEF Events, IsBegin, Ends
  <2> QED
    BY <2>1, <2>2, BeginTypes, EndTypes
<1> HIDE DEF a, b, f
<1>8. Len(t) \in Nat
  BY <1>5
<1>9. inbox' \in Seq(Events) /\ left' = Len(t) + 3
      /\ \A k \in 1..left' : IsBegin(inbox'[k], "none") => k = 2
  <2>1. CASE AccountInside
    <3>1. /\ inbox' \in Seq(Events) /\ Len(inbox') = Len(t) + 3
          /\ inbox'[1] = a /\ inbox'[Len(t) + 3] = f
          /\ \A k \in 1..Len(t) : inbox'[k + 2] = t[k]
      <4> HIDE DEF Events
      <4> QED
        BY <1>4, <1>5, <1>7, <2>1, DownloadEvents
    <3>2. ASSUME NEW k \in 3..(Len(t) + 2) PROVE ~IsBegin(inbox'[k], "none")
      <4>1. k - 2 \in 1..Len(t) /\ (k - 2) + 2 = k
        BY <1>8
      <4> QED
        BY <1>6, <3>1, <4>1
    <3>3. \A k \in 1..(Len(t) + 3) :
            k = 1 \/ k = 2 \/ k \in 3..(Len(t) + 2) \/ k = Len(t) + 3
      BY <1>8
    <3> QED
      BY <1>7, <3>1, <3>2, <3>3 DEF left
  <2>2. CASE ~AccountInside
    <3> DEFINE x == <<a, b, f>>
    <3>1. x \in Seq(Events) /\ Len(x) = 3 /\ x[1] = a /\ x[3] = f
      <4> HIDE DEF Events
      <4> QED
        BY <1>7
    <3>2. inbox' = x \o t
      BY <1>4, <2>2
    <3> HIDE DEF x
    <3>3. /\ inbox' \in Seq(Events) /\ Len(inbox') = Len(x) + Len(t)
          /\ \A k \in 1..(Len(x) + Len(t)) :
               inbox'[k] = IF k <= Len(x) THEN x[k] ELSE t[k - Len(x)]
      <4> HIDE DEF Events
      <4> QED
        BY <1>5, <3>1, <3>2, ConcatProperties
    <3>4. ASSUME NEW k \in 1..(Len(t) + 3), k # 2 PROVE ~IsBegin(inbox'[k], "none")
      <4>1. k \in 1..(Len(x) + Len(t))
        BY <1>8, <3>1
      <4>2. CASE k <= 3
        <5>1. k = 1 \/ k = 3
          BY <3>4, <4>2
        <5>2. inbox'[k] = x[k]
          BY <3>1, <3>3, <4>1, <4>2
        <5> QED
          BY <1>7, <3>1, <5>1, <5>2
      <4>3. CASE ~(k <= 3)
        <5>1. inbox'[k] = t[k - 3] /\ k - 3 \in 1..Len(t)
          BY <1>8, <3>1, <3>3, <4>1, <4>3
        <5> QED
          BY <1>6, <5>1
      <4> QED
        BY <4>2, <4>3
    <3> QED
      BY <1>8, <3>1, <3>3, <3>4 DEF left
  <2> QED
    BY <2>1, <2>2
<1>10. TypeOK' /\ KnowsSome'
  BY <1>1, <1>9 DEF BaseInv, TypeOK, KnowsSome, KnownIds, Ids
<1>11. ReadyIsCurrent' /\ Unreferenced' /\ Quiet'
  BY <1>1 DEF BaseInv, ReadyIsCurrent, tradable, Unreferenced, Quiet
<1>12. Announces'
  BY <1>1, <1>2, <1>9 DEF Announces
<1> QED
  BY <1>10, <1>11, <1>12 DEF BaseInv

\* Every handler, and whatever the market, the gateway and the connection do, keeps
\* what can be said of both orders of the downloads.
THEOREM BaseInvariant == Spec => []BaseInv
<1>1. Init => BaseInv
  <2> SUFFICES ASSUME Init PROVE BaseInv
    OBVIOUS
  <2>1. Example3Inv /\ ~inst.ref /\ ~inst.connected /\ left = 0
    <3>1. inbox = << >> /\ ~inst.ref /\ ~inst.connected
      BY DEF Init, NewInstrument
    <3> QED
      BY <3>1, InvariantInit DEF left
  <2>2. Unreferenced /\ Quiet /\ Announces
    BY <2>1 DEF Unreferenced, Quiet, Announces
  <2> QED
    BY <2>1, <2>2 DEF BaseInv, Example3Inv
<1>2. BaseInv /\ [Next]_vars => BaseInv'
  <2> SUFFICES ASSUME BaseInv, [Next]_vars PROVE BaseInv'
    OBVIOUS
  <2>1. CASE UNCHANGED vars
    <3>1. /\ UNCHANGED <<inst, max_order_id, working_order_id, working_side, requests, inbox, order>>
          /\ UNCHANGED <<exposure, up>>
      BY <2>1 DEF vars, strategy, wire
    <3>2. ReadyIsCurrent'
      BY <3>1 DEF BaseInv, ReadyIsCurrent, tradable
    <3> QED
      BY <3>1, <3>2, BaseKeep DEF BaseInv, TypeOK
  <2> QED
    BY <2>1, BaseEvents, BaseMarket, BaseTimer, BaseGateway, BaseConnect DEF Next, Stopped
<1> QED
  BY <1>1, <1>2, PTL DEF Spec

\* example-3: whatever order the events of the gateway and of the market come in, no
\* handler leaves Instrument::ready_ behind what it is computed from.
THEOREM ReadyIsCurrentHolds == Spec => []ReadyIsCurrent
<1>1. BaseInv => ReadyIsCurrent
  BY DEF BaseInv
<1> QED
  BY <1>1, BaseInvariant, PTL

-----------------------------------------------------------------------------
(***************************************************************************)
(* The model.                                                              *)
(***************************************************************************)

Models == [selling : BOOLEAN, buying : BOOLEAN, countdown : Nat, nan : BOOLEAN]

\* An update counts down once, and signals only when nothing is left to count down.
LEMMA Updated ==
    ASSUME NEW m \in Models, NEW fast, NEW slow
    PROVE  LET u == update(m, fast, slow)
           IN  /\ u.model \in Models /\ u.model.countdown = ema_countdown(m.countdown)
               /\ u.side # "UNDEFINED" => ema_countdown(m.countdown) = 0
<1> DEFINE c == ema_countdown(m.countdown)
           n == [m EXCEPT !.countdown = c, !.nan = FALSE]
           a == selling_part(n, fast, slow)
           u == buying_part(a.model, a.side, fast, slow)
<1>1. c \in Nat /\ m.countdown \in Nat
  BY DEF Models, ema_countdown
<1>2. update(m, fast, slow) = u
  BY DEF update, Models
<1> HIDE DEF c
<1>3. n \in Models /\ n.countdown = c
  BY <1>1 DEF Models
<1> HIDE DEF n
<1>4. a.model \in Models /\ a.model.countdown = c /\ (a.side # "UNDEFINED" => c = 0)
  BY <1>3 DEF selling_part, Models
<1> HIDE DEF a
<1>5. u.model \in Models /\ u.model.countdown = c /\ (u.side # "UNDEFINED" => c = 0)
  BY <1>4 DEF buying_part, Models
<1> HIDE DEF u
<1> QED
  BY <1>2, <1>5 DEF c

\* The model counts down the samples it has still to see.
WarmUp == samples \in 0..warmup /\ model.countdown = warmup - samples

WarmUpInv == model \in Models /\ WarmUp

\* The model sees one more sample.
LEMMA SampleStep ==
    ASSUME WarmUpInv, NEW fast, NEW slow, Sample(fast, slow)
    PROVE  /\ WarmUpInv'
           /\ update(model, fast, slow).side # "UNDEFINED" => samples' = warmup
<1> USE WarmupAssumption
<1> DEFINE c == model.countdown
           u == update(model, fast, slow)
<1>1. /\ model' = u.model
      /\ samples' = IF samples < warmup THEN samples + 1 ELSE samples
  BY DEF Sample
<1>2. /\ u.model \in Models /\ u.model.countdown = ema_countdown(c)
      /\ u.side # "UNDEFINED" => ema_countdown(c) = 0
  BY Updated DEF WarmUpInv
<1>3. samples \in 0..warmup /\ c = warmup - samples
  BY DEF WarmUpInv, WarmUp
<1> HIDE DEF u, c
<1>4. ema_countdown(c) = warmup - samples' /\ samples' \in 0..warmup
  BY <1>1, <1>3 DEF ema_countdown
<1>5. u.side # "UNDEFINED" => samples' = warmup
  <2>1. ema_countdown(c) = 0 => samples' = warmup
    BY <1>4
  <2> QED
    BY <1>2, <2>1
<1>6. model' \in Models /\ model'.countdown = warmup - samples'
  BY <1>1, <1>2, <1>4
<1> QED
  BY <1>4, <1>5, <1>6 DEF WarmUpInv, WarmUp, u

\* example-3: a create or cancel request follows from a signal of a model that has seen
\* the configured number of samples of a ready instrument since Strategy last reset it;
\* for any warm-up.
THEOREM TradesWarmedUpHolds == Spec => TradesWarmedUp
<1> USE WarmupAssumption
<1>1. Init => WarmUpInv
  <2>1. ResetModel \in Models /\ ResetModel.countdown = warmup
    BY DEF ResetModel, Models
  <2> QED
    BY <2>1 DEF Init, WarmUpInv, WarmUp
<1>2. WarmUpInv /\ [Next]_vars => WarmUpInv'
  <2> SUFFICES ASSUME WarmUpInv, [Next]_vars PROVE WarmUpInv'
    OBVIOUS
  <2>1. ASSUME UNCHANGED <<model, samples>> PROVE WarmUpInv'
    BY <2>1 DEF WarmUpInv, WarmUp
  <2>2. CASE Timer
    <3>1. ASSUME model' = ResetModel, samples' = 0 PROVE WarmUpInv'
      <4>1. ResetModel \in Models /\ ResetModel.countdown = warmup
        BY DEF ResetModel, Models
      <4> QED
        BY <3>1, <4>1 DEF WarmUpInv, WarmUp
    <3> QED
      BY <2>1, <2>2, <3>1, SampleStep DEF Timer, update_model
  <2>3. CASE ~Timer
    <3>1. UNCHANGED <<model, samples>>
      BY <2>3 DEF Next, Connected, Disconnected, DownloadBegin, DownloadEnd, OrderUpdate,
         PositionUpdate, ReferenceData, Connect, Stopped, GatewayStatus, MarketStatus,
         MarketByPriceUpdate, MarketEvent, InstrumentOnly, GatewayRequest, Fill, LoseConnection,
         vars, strategy
    <3> QED
      BY <2>1, <3>1
  <2> QED
    BY <2>2, <2>3
<1>3. BaseInv /\ WarmUpInv /\ [Next]_vars =>
        [Len(requests') > Len(requests) => inst.ready /\ samples' >= warmup]_vars
  <2> SUFFICES ASSUME BaseInv, WarmUpInv, Next, Len(requests') > Len(requests)
               PROVE  inst.ready /\ samples' >= warmup
    OBVIOUS
  <2>1. Len(requests) \in Nat /\ requests' # requests
    <3> HIDE DEF Requests
    <3> QED
      BY DEF BaseInv, TypeOK
  <2>2. CASE Timer
    BY <2>1, <2>2, TimerSends, SampleStep
  <2>3. CASE ~Timer
    <3>1. requests' = requests \/ requests' = << >> \/ (requests # << >> /\ requests' = Tail(requests))
      BY <2>3 DEF Next, Connected, Disconnected, DownloadBegin, DownloadEnd, OrderUpdate,
         PositionUpdate, ReferenceData, Connect, Stopped, GatewayStatus, MarketStatus,
         MarketByPriceUpdate, MarketEvent, InstrumentOnly, GatewayRequest, Fill, LoseConnection,
         vars, wire
    <3>2. Len(requests') <= Len(requests)
      <4> HIDE DEF Requests
      <4> QED
        BY <2>1, <3>1, HeadTailProperties DEF BaseInv, TypeOK
    <3>3. Len(requests') \in Nat
      <4> HIDE DEF Requests
      <4> QED
        BY <2>1, <3>1, HeadTailProperties DEF BaseInv, TypeOK
    <3> QED
      BY <2>1, <3>2, <3>3
  <2> QED
    BY <2>2, <2>3
<1> QED
  BY <1>1, <1>2, <1>3, BaseInvariant, PTL DEF Spec, TradesWarmedUp
=============================================================================
