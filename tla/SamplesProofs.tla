--------------------------- MODULE SamplesProofs ---------------------------
(***************************************************************************)
(* The invariants of the small samples, for every value of the constants,  *)
(* and what two of them need to end.                                       *)
(* Each sample has an inductive invariant of its own, over its own         *)
(* variables; the steps of the other programs leave these alone.           *)
(***************************************************************************)
EXTENDS MCSamples, FiniteSetTheorems, SequenceTheorems, TLAPS

\* A step of the program that runs is a step of its module, and leaves the variables
\* of all others as they are.
LEMMA StepOfOne ==
    ASSUME [SamplesNext]_samplesVars
    PROVE  /\ Io!Next \/ UNCHANGED ioVars
           /\ Rest!Next \/ UNCHANGED restVars
           /\ Example2!Next \/ UNCHANGED example2Vars
           /\ Depth!Next \/ UNCHANGED depthVars
           /\ Example7!Next \/ UNCHANGED example7Vars
           /\ Example8!Next \/ UNCHANGED example8Vars
           /\ MinimalClient!Next \/ UNCHANGED minimalVars
           /\ Log!Next \/ UNCHANGED logVars
           /\ Example5!Next \/ UNCHANGED example5Vars
<1>1. CASE SamplesNext
  BY <1>1 DEF SamplesNext, Others, IoStep, Example5Step, LogStep
<1>2. CASE UNCHANGED samplesVars
  BY <1>2 DEF samplesVars
<1> QED
  BY <1>1, <1>2

-----------------------------------------------------------------------------
(***************************************************************************)
(* minimal.                                                                *)
(***************************************************************************)

MinimalType ==
    /\ ready \in BOOLEAN /\ ended \in BOOLEAN
    /\ max_order_id \in Nat
    /\ source \in [Gateways -> {"down", "connected", "download", "downloaded", "ready"}]
    /\ reported \in [Gateways -> Nat]
    /\ orders \in [Gateways -> BOOLEAN]
    /\ cancels \in Nat /\ refused \in BOOLEAN

\* The highest id is kept whether or not the client is ready, and orders that were
\* canceled do not come back; ready_ is cleared by every disconnect, that of gateway 0
\* included, and set again only together with a request to it.
MinimalInv ==
    /\ MinimalType
    /\ \A g \in Gateways : reported[g] <= max_order_id
    /\ ready => \E g \in Gateways : source[g] = "ready"
    /\ ready /\ ~ended => source[0] # "down" /\ (orders[0] => cancels > 0 \/ refused)

LEMMA MinimalStep ==
    ASSUME MinimalInv, MinimalClient!Next PROVE MinimalInv'
<1> USE SamplesAssumption DEF MinimalInv, MinimalType
<1>1. ASSUME NEW g \in Gateways, MinimalClient!Connected(g) PROVE MinimalInv'
  BY <1>1 DEF MinimalClient!Connected, MinimalClient!Event
<1>2. ASSUME NEW g \in Gateways, MinimalClient!DownloadBegin(g) PROVE MinimalInv'
  BY <1>2 DEF MinimalClient!DownloadBegin, MinimalClient!Event
<1>3. ASSUME NEW g \in Gateways, MinimalClient!DownloadEnd(g) PROVE MinimalInv'
  BY <1>3 DEF MinimalClient!DownloadEnd, MinimalClient!Event, MinimalClient!download_end
<1>4. ASSUME NEW g \in Gateways, MinimalClient!Ready(g) PROVE MinimalInv'
  <2>1. /\ source[g] = "downloaded" /\ source' = [source EXCEPT ![g] = "ready"] /\ ready' = TRUE
        /\ ended' = (source[0] = "down")
        /\ cancels' = IF source[0] = "down" THEN cancels ELSE cancels + 1
        /\ UNCHANGED <<orders, refused, max_order_id, reported>>
    BY <1>4 DEF MinimalClient!Ready, MinimalClient!Event, MinimalClient!cancel_all_orders
  <2>2. source' \in [Gateways -> {"down", "connected", "download", "downloaded", "ready"}]
    BY <2>1
  <2>3. source'[g] = "ready"
    BY <2>1
  <2>4. cancels' \in Nat /\ ended' \in BOOLEAN
    BY <2>1
  <2>5. ~ended' => source'[0] # "down" /\ cancels' > 0
    <3>1. ~ended' => source[0] # "down"
      BY Zenon, <2>1
    <3> QED
      BY <2>1, <3>1
  <2>6. UNCHANGED <<orders, refused, max_order_id, reported>>
    BY <2>1
  <2> QED
    BY <2>1, <2>2, <2>3, <2>4, <2>5, <2>6
<1>5. ASSUME NEW g \in Gateways, MinimalClient!Disconnected(g) PROVE MinimalInv'
  BY <1>5 DEF MinimalClient!Disconnected, MinimalClient!Event
<1>6. CASE MinimalClient!GatewayCancelAll
  <2>1. /\ cancels > 0 /\ cancels' = cancels - 1
        /\ \/ refused' = FALSE /\ orders' = [orders EXCEPT ![0] = FALSE]
           \/ refused' = TRUE /\ UNCHANGED orders
        /\ UNCHANGED <<ready, max_order_id, source, reported, ended>>
    BY <1>6 DEF MinimalClient!GatewayCancelAll
  <2>2. cancels' \in Nat
    BY <2>1
  <2>3. orders' \in [Gateways -> BOOLEAN] /\ refused' \in BOOLEAN
    BY Zenon, <2>1
  <2>4. orders'[0] => refused'
    BY Zenon, <2>1
  <2> QED
    BY <2>1, <2>2, <2>3, <2>4
<1>7. CASE UNCHANGED MinimalClient!vars
  BY <1>7 DEF MinimalClient!vars
<1> QED
  BY <1>1, <1>2, <1>3, <1>4, <1>5, <1>6, <1>7
     DEF MinimalClient!Next, MinimalClient!Printed, MinimalClient!Ended

\* minimal: while ready_ is set some gateway is ready, the next order id is above all
\* that were reported, and gateway 0 is connected and was asked to cancel the orders of
\* earlier sessions: they are gone unless it has yet to answer or refused.  For any
\* number of gateways that come and go.
THEOREM ReadyIsSafeHolds == SamplesSpec => []ReadyIsSafe
<1>1. SamplesInit => MinimalInv
  <2> SUFFICES ASSUME MinimalClient!Init PROVE MinimalInv
    BY DEF SamplesInit
  <2>1. orders \in [Gateways -> BOOLEAN]
    BY Zenon DEF MinimalClient!Init
  <2>2. source \in [Gateways -> {"down", "connected", "download", "downloaded", "ready"}]
    BY DEF MinimalClient!Init
  <2>3. reported \in [Gateways -> Nat] /\ \A g \in Gateways : reported[g] <= max_order_id
    BY DEF MinimalClient!Init
  <2>4. ready = FALSE /\ ended = FALSE /\ max_order_id = 0 /\ cancels = 0 /\ refused = FALSE
    BY DEF MinimalClient!Init
  <2> QED
    BY <2>1, <2>2, <2>3, <2>4 DEF MinimalInv, MinimalType
<1>2. MinimalInv /\ [SamplesNext]_samplesVars => MinimalInv'
  <2> SUFFICES ASSUME MinimalInv, [SamplesNext]_samplesVars PROVE MinimalInv'
    OBVIOUS
  <2>1. CASE MinimalClient!Next
    BY <2>1, MinimalStep
  <2>2. CASE UNCHANGED minimalVars
    BY <2>2 DEF minimalVars, MinimalInv, MinimalType
  <2> QED
    BY <2>1, <2>2, StepOfOne
<1>3. MinimalInv => ReadyIsSafe
  BY DEF MinimalInv, MinimalType, ReadyIsSafe, MinimalClient!ReadyIsSafe
<1> QED
  BY <1>1, <1>2, <1>3, PTL DEF SamplesSpec

-----------------------------------------------------------------------------
(***************************************************************************)
(* io-context.                                                             *)
(***************************************************************************)

\* An id that was not issued yet has no connection, so that a new session is never
\* one that is marked for removal.
IoInv ==
    /\ next_session_id \in 0..MaxSessions
    /\ conn \in [Io!Ids -> Io!ConnStates]
    /\ sessions \subseteq Io!Ids /\ sessions_to_remove \subseteq Io!Ids
    /\ \A id \in Io!Ids : id > next_session_id => conn[id] = "none"
    /\ Io!SessionAlive

LEMMA SessionsStep ==
    ASSUME IoInv, Io!Next PROVE IoInv'
<1> USE SamplesAssumption DEF IoInv, Io!SessionAlive, Io!Ids, Io!ConnStates
<1>1. ASSUME NEW id \in Io!Ids,
             Io!Upgrade(id) \/ Io!Binary(id) \/ Io!PeerCloses(id)
                \/ \E m \in Io!Messages : Io!Text(id, m) \/ \E k \in BOOLEAN : Io!Request(id, m, k)
      PROVE  IoInv'
  <2>1. PICK s \in {"http", "websocket", "closing"} :
          /\ conn[id] \in {"http", "websocket"} /\ conn' = [conn EXCEPT ![id] = s]
          /\ UNCHANGED <<sessions, next_session_id, sessions_to_remove>>
    BY <1>1 DEF Io!Upgrade, Io!Binary, Io!PeerCloses, Io!Text, Io!Request, Io!Called,
                Io!SessionOnly
  <2> QED
    BY <2>1
<1>2. ASSUME NEW id \in Io!Ids, Io!Disconnected(id) PROVE IoInv'
  BY <1>2 DEF Io!Disconnected, Io!Called
<1>3. CASE Io!Accept
  BY <1>3 DEF Io!Accept, Io!next_id
<1>4. CASE Io!Drained
  BY <1>4 DEF Io!Drained, Io!remove_zombies
<1>5. CASE UNCHANGED <<sessions, next_session_id, sessions_to_remove, conn>>
  BY <1>5
<1> QED
  BY <1>1, <1>2, <1>3, <1>4, <1>5
     DEF Io!Next, Io!Timer, Io!Elapse, Io!Stopped, Io!TopOfBook, Io!SenderError,
         Io!vars

\* io-context: the session of a connection that can still call back exists, a session
\* that is marked for removal hears nothing more, and no session is left that is
\* neither, for any number of sessions and however closing, draining and garbage
\* collection interleave.
THEOREM SessionAliveHolds == SamplesSpec => []SessionAlive
<1>1. SamplesInit => IoInv
  <2> SUFFICES ASSUME Io!Init PROVE IoInv
    BY DEF SamplesInit
  <2> QED
    BY SamplesAssumption DEF Io!Init, IoInv, Io!SessionAlive, Io!Ids, Io!ConnStates
<1>2. IoInv /\ [SamplesNext]_samplesVars => IoInv'
  <2> SUFFICES ASSUME IoInv, [SamplesNext]_samplesVars PROVE IoInv'
    OBVIOUS
  <2>1. CASE Io!Next
    BY <2>1, SessionsStep
  <2>2. CASE UNCHANGED ioVars
    BY <2>2 DEF ioVars, IoInv, Io!SessionAlive
  <2> QED
    BY <2>1, <2>2, StepOfOne
<1>3. IoInv => SessionAlive
  BY DEF IoInv, SessionAlive
<1> QED
  BY <1>1, <1>2, <1>3, PTL DEF SamplesSpec

-----------------------------------------------------------------------------
(***************************************************************************)
(* example-2.                                                              *)
(***************************************************************************)

Instruments ==
    [connected : BOOLEAN, download : BOOLEAN, sizes : BOOLEAN,
     multiplier : BOOLEAN, trading_status : {"UNDEFINED", "OPEN", "HALT"},
     market_data : BOOLEAN, avg_price : SUBSET Nat, ready : BOOLEAN]

Connections == [phase : {"down", "connected", "download", "live"}, count : Nat]

\* One instrument i on its connection g.  The tick size is unknown until the download
\* has begun and download is set while it goes on, so that no event before its end
\* finds the instrument ready; only a ready instrument is sampled.
InstrumentInv(i, g) ==
    /\ i \in Instruments /\ g \in Connections
    /\ i.avg_price \subseteq {g.count}
    /\ i.avg_price # {} => g.phase = "live"
    /\ i.ready => g.phase = "live"
    /\ g.phase \in {"down", "connected"} => ~i.sizes
    /\ g.phase = "download" => i.download

AveragesInv ==
    /\ instrument \in [Example2!Sources -> Instruments]
    /\ gateway \in [Example2!Sources -> Connections]
    /\ \A s \in Example2!Sources : InstrumentInv(instrument[s], gateway[s])

\* A handler that works on one instrument.
LEMMA InstrumentStep ==
    ASSUME AveragesInv, NEW s \in Example2!Sources, NEW i, NEW g,
           instrument' = [instrument EXCEPT ![s] = i], gateway' = [gateway EXCEPT ![s] = g],
           InstrumentInv(i, g)
    PROVE  AveragesInv'
BY DEF AveragesInv, InstrumentInv

LEMMA AveragesStep ==
    ASSUME AveragesInv, Example2!Next PROVE AveragesInv'
<1> USE SamplesAssumption
<1>0. ASSUME NEW s \in Example2!Sources
      PROVE  /\ InstrumentInv(instrument[s], gateway[s])
             /\ gateway[s] \in Connections /\ instrument[s] \in Instruments
             /\ gateway = [gateway EXCEPT ![s] = gateway[s]]
             /\ instrument = [instrument EXCEPT ![s] = instrument[s]]
  BY DEF AveragesInv, InstrumentInv
<1>1. ASSUME NEW s \in Example2!Sources, Example2!Connected(s) PROVE AveragesInv'
  <2> DEFINE i == Example2!check_ready([instrument[s] EXCEPT !.connected = TRUE])
             g == [phase |-> "connected", count |-> (gateway[s].count % MaxConnections) + 1]
  <2>1. gateway[s].phase = "down"
    BY <1>1 DEF Example2!Connected, Example2!Event
  <2>2. InstrumentInv(i, g)
    <3>1. g \in Connections
      BY <1>0 DEF Connections
    <3>2. i \in Instruments
      BY <1>0 DEF Instruments, Example2!check_ready
    <3>3. /\ ~i.sizes /\ i.avg_price = {} /\ ~i.ready
      BY <1>0, <2>1 DEF Example2!check_ready, InstrumentInv, Instruments
    <3> QED
      BY <3>1, <3>2, <3>3 DEF InstrumentInv
  <2>3. instrument' = [instrument EXCEPT ![s] = i] /\ gateway' = [gateway EXCEPT ![s] = g]
    BY <1>0, <1>1 DEF Example2!Connected, Example2!dispatch
  <2> QED
    BY <2>2, <2>3, InstrumentStep
<1>2. ASSUME NEW s \in Example2!Sources, Example2!Disconnected(s) PROVE AveragesInv'
  <2> DEFINE i == Example2!reset(instrument[s])
             g == [gateway[s] EXCEPT !.phase = "down"]
  <2>1. InstrumentInv(i, g)
    BY <1>0 DEF Example2!reset, Example2!NewInstrument, InstrumentInv, Instruments, Connections
  <2>2. instrument' = [instrument EXCEPT ![s] = i] /\ gateway' = [gateway EXCEPT ![s] = g]
    BY <1>0, <1>2 DEF Example2!Disconnected, Example2!dispatch, Example2!To
  <2> QED
    BY <2>1, <2>2, InstrumentStep
<1>3. ASSUME NEW s \in Example2!Sources, Example2!DownloadBegin(s) PROVE AveragesInv'
  <2> DEFINE i == [instrument[s] EXCEPT !.download = TRUE]
             g == [gateway[s] EXCEPT !.phase = "download"]
  <2>1. gateway[s].phase = "connected"
    BY <1>3 DEF Example2!DownloadBegin, Example2!Event
  <2>2. InstrumentInv(i, g)
    <3>1. g \in Connections /\ g.phase = "download" /\ g.count = gateway[s].count
      BY <1>0 DEF Connections
    <3>2. i \in Instruments
      BY <1>0 DEF Instruments
    <3>3. i.download /\ i.avg_price = {} /\ ~i.ready
      BY <1>0, <2>1 DEF InstrumentInv, Instruments
    <3> QED
      BY <3>1, <3>2, <3>3 DEF InstrumentInv
  <2>3. instrument' = [instrument EXCEPT ![s] = i] /\ gateway' = [gateway EXCEPT ![s] = g]
    BY <1>0, <1>3 DEF Example2!DownloadBegin, Example2!dispatch, Example2!To
  <2> QED
    BY <2>2, <2>3, InstrumentStep
<1>4. ASSUME NEW s \in Example2!Sources, Example2!DownloadEnd(s) PROVE AveragesInv'
  <2> DEFINE i == Example2!check_ready([instrument[s] EXCEPT !.download = FALSE])
             g == [gateway[s] EXCEPT !.phase = "live"]
  <2>1. gateway[s].phase = "download"
    BY <1>4 DEF Example2!DownloadEnd, Example2!Event
  <2>2. InstrumentInv(i, g)
    <3>1. g \in Connections /\ g.phase = "live" /\ g.count = gateway[s].count
      BY <1>0 DEF Connections
    <3>2. i \in Instruments /\ i.avg_price = instrument[s].avg_price
      BY <1>0 DEF Instruments, Example2!check_ready
    <3> QED
      BY <1>0, <3>1, <3>2 DEF InstrumentInv
  <2>3. instrument' = [instrument EXCEPT ![s] = i] /\ gateway' = [gateway EXCEPT ![s] = g]
    BY <1>0, <1>4 DEF Example2!DownloadEnd, Example2!dispatch, Example2!To
  <2> QED
    BY <2>2, <2>3, InstrumentStep
<1>5. ASSUME NEW s \in Example2!Sources, NEW j \in Instruments,
             gateway[s].phase \in {"download", "live"},
             j.download = instrument[s].download, j.avg_price = instrument[s].avg_price,
             instrument' = [instrument EXCEPT ![s] = Example2!check_ready(j)],
             UNCHANGED gateway
      PROVE  AveragesInv'
  <2>1. InstrumentInv(Example2!check_ready(j), gateway[s])
    BY <1>0, <1>5 DEF Example2!check_ready, InstrumentInv, Instruments, Connections
  <2> QED
    BY <1>0, <1>5, <2>1, InstrumentStep
<1>6. ASSUME NEW s \in Example2!Sources, Example2!GatewayStatus(s) PROVE AveragesInv'
  <2>1. PICK b \in BOOLEAN : Example2!dispatch(s,
          Example2!check_ready([instrument[s] EXCEPT !.market_data = b]))
    BY <1>6 DEF Example2!GatewayStatus
  <2> DEFINE j == [instrument[s] EXCEPT !.market_data = b]
  <2>2. /\ j \in Instruments
        /\ j.download = instrument[s].download /\ j.avg_price = instrument[s].avg_price
    BY <1>0 DEF Instruments
  <2> QED
    BY <1>5, <1>6, <2>1, <2>2 DEF Example2!GatewayStatus, Example2!Event, Example2!dispatch
<1>7. ASSUME NEW s \in Example2!Sources, Example2!ReferenceData(s) PROVE AveragesInv'
  <2>1. PICK sizes \in BOOLEAN, multiplier \in BOOLEAN : Example2!dispatch(s,
          Example2!check_ready([instrument[s] EXCEPT !.sizes = sizes,
                                                     !.multiplier = multiplier]))
    BY <1>7 DEF Example2!ReferenceData
  <2> DEFINE j == [instrument[s] EXCEPT !.sizes = sizes, !.multiplier = multiplier]
  <2>2. /\ j \in Instruments
        /\ j.download = instrument[s].download /\ j.avg_price = instrument[s].avg_price
    BY <1>0 DEF Instruments
  <2> QED
    BY <1>5, <1>7, <2>1, <2>2 DEF Example2!ReferenceData, Example2!Event, Example2!dispatch
<1>8. ASSUME NEW s \in Example2!Sources, Example2!MarketStatus(s) PROVE AveragesInv'
  <2>1. PICK status \in {"OPEN", "HALT"} : Example2!dispatch(s,
          Example2!check_ready([instrument[s] EXCEPT !.trading_status = status]))
    BY <1>8 DEF Example2!MarketStatus
  <2> DEFINE j == [instrument[s] EXCEPT !.trading_status = status]
  <2>2. /\ j \in Instruments
        /\ j.download = instrument[s].download /\ j.avg_price = instrument[s].avg_price
    BY <1>0 DEF Instruments
  <2> QED
    BY <1>5, <1>8, <2>1, <2>2 DEF Example2!MarketStatus, Example2!Event, Example2!dispatch
<1>9. ASSUME NEW s \in Example2!Sources, Example2!MarketByPriceUpdate(s) PROVE AveragesInv'
  <2>1. CASE UNCHANGED instrument
    BY <1>9, <2>1 DEF Example2!MarketByPriceUpdate, AveragesInv
  <2>2. CASE /\ instrument[s].ready
             /\ instrument' = [instrument EXCEPT ![s] = Example2!update_model(s)]
    <3>1. InstrumentInv(Example2!update_model(s), gateway[s])
      BY <1>0, <2>2 DEF Example2!update_model, InstrumentInv, Instruments, Connections
    <3>2. UNCHANGED gateway
      BY <1>9 DEF Example2!MarketByPriceUpdate
    <3> QED
      BY <1>0, <2>2, <3>1, <3>2, InstrumentStep
  <2> QED
    BY <1>9, <2>1, <2>2 DEF Example2!MarketByPriceUpdate
<1>10. CASE UNCHANGED Example2!vars
  BY <1>10 DEF Example2!vars, AveragesInv
<1> QED
  BY <1>1, <1>2, <1>3, <1>4, <1>6, <1>7, <1>8, <1>9, <1>10
     DEF Example2!Next, Example2!AccountEvent, Example2!Ended

\* example-2: a moving average mixes no prices of two connections and no instrument is
\* ready before its download has ended, for any sequence of events of two gateways.
THEOREM AverageIsCurrentHolds == SamplesSpec => []AverageIsCurrent
<1>1. SamplesInit => AveragesInv
  <2> SUFFICES ASSUME Example2!Init PROVE AveragesInv
    BY DEF SamplesInit
  <2>1. InstrumentInv(Example2!NewInstrument, [phase |-> "down", count |-> 0])
    BY DEF Example2!NewInstrument, InstrumentInv, Instruments, Connections
  <2> QED
    BY <2>1 DEF Example2!Init, AveragesInv, InstrumentInv
<1>2. AveragesInv /\ [SamplesNext]_samplesVars => AveragesInv'
  <2> SUFFICES ASSUME AveragesInv, [SamplesNext]_samplesVars PROVE AveragesInv'
    OBVIOUS
  <2>1. CASE Example2!Next
    BY <2>1, AveragesStep
  <2>2. CASE UNCHANGED example2Vars
    BY <2>2 DEF example2Vars, AveragesInv
  <2> QED
    BY <2>1, <2>2, StepOfOne
<1>3. AveragesInv => AverageIsCurrent
  BY DEF AveragesInv, InstrumentInv, AverageIsCurrent, Example2!AverageIsCurrent
<1> QED
  BY <1>1, <1>2, <1>3, PTL DEF SamplesSpec

-----------------------------------------------------------------------------
(***************************************************************************)
(* example-7.                                                              *)
(***************************************************************************)

\* The rows that are kept are the history, whatever became of the sends, and the
\* published ones were it when they were sent.
MatrixInv ==
    /\ mids \in Seq([symbol : Matched, price : Mids]) /\ version = Len(mids)
    /\ \A r \in Example7!Rows : version >= r => data[r] = mids[version - r + 1].price
    /\ metrics \in Nat /\ metrics <= version
    /\ matrix.version \in Nat /\ matrix.version <= metrics
    /\ \A r \in Example7!Rows :
        matrix.version >= r => matrix.data[r] = mids[matrix.version - r + 1].price
    /\ matrix.version > 0 => matrix.symbol = mids[matrix.version].symbol

LEMMA MatrixStep ==
    ASSUME MatrixInv, Example7!Next PROVE MatrixInv'
<1>1. CASE Example7!TopOfBook
  <2> DEFINE rows(mid) == Example7!shift_right(data, mid)
  <2>1. PICK symbol \in Matched, mid \in Mids :
          /\ data' = rows(mid) /\ version' = version + 1
          /\ mids' = Append(mids, [symbol |-> symbol, price |-> mid])
          /\ Example7!Sends(symbol, rows(mid))
    BY <1>1 DEF Example7!TopOfBook
  <2>2. /\ mids' \in Seq([symbol : Matched, price : Mids]) /\ Len(mids') = Len(mids) + 1
        /\ mids'[Len(mids) + 1].price = mid /\ mids'[Len(mids) + 1].symbol = symbol
        /\ \A k \in 1..Len(mids) : mids'[k] = mids[k]
    BY <2>1 DEF MatrixInv
  <2>3. version' = Len(mids')
    BY <2>1, <2>2 DEF MatrixInv
  <2>4. /\ rows(mid)[1] = mid /\ rows(mid)[2] = data[1] /\ rows(mid)[3] = data[2]
    BY DEF Example7!shift_right
  <2> HIDE DEF rows
  <2>5. \A r \in Example7!Rows : version' >= r => rows(mid)[r] = mids'[version' - r + 1].price
    <3>1. version' >= 1 => rows(mid)[1] = mids'[version'].price
      BY <2>1, <2>2, <2>4 DEF MatrixInv
    <3>2. version' >= 2 => rows(mid)[2] = mids'[version' - 1].price
      BY <2>1, <2>2, <2>4 DEF MatrixInv, Example7!Rows
    <3>3. version' >= 3 => rows(mid)[3] = mids'[version' - 2].price
      BY <2>1, <2>2, <2>4 DEF MatrixInv, Example7!Rows
    <3>4. version' \in Nat
      BY <2>1 DEF MatrixInv
    <3> QED
      BY <3>1, <3>2, <3>3, <3>4 DEF Example7!Rows
  <2>6. CASE /\ metrics' = version + 1
             /\ matrix' = [version |-> version + 1, symbol |-> symbol, data |-> rows(mid)]
    <3>1. /\ matrix'.version = version' /\ matrix'.data = rows(mid) /\ data' = rows(mid)
          /\ matrix'.symbol = mids'[version'].symbol
      BY <2>1, <2>2, <2>6 DEF MatrixInv
    <3>2. metrics' = version' /\ version' \in Nat
      BY <2>1, <2>6 DEF MatrixInv
    <3> QED
      BY <2>2, <2>3, <2>5, <3>1, <3>2 DEF MatrixInv
  <2>7. CASE metrics' \in {metrics, version + 1} /\ UNCHANGED matrix
    <3>1. \A r \in Example7!Rows :
            matrix.version >= r => matrix.version - r + 1 \in 1..Len(mids)
      BY DEF MatrixInv, Example7!Rows
    <3>2. metrics' \in Nat /\ metrics' <= version' /\ matrix'.version <= metrics'
      BY <2>1, <2>7 DEF MatrixInv
    <3>3. \A r \in Example7!Rows :
            matrix'.version >= r => matrix'.data[r] = mids'[matrix'.version - r + 1].price
      BY <2>2, <2>7, <3>1 DEF MatrixInv
    <3>4. /\ matrix'.version \in Nat /\ data' = rows(mid)
          /\ matrix'.version > 0 => matrix'.symbol = mids'[matrix'.version].symbol
      BY <2>1, <2>2, <2>7 DEF MatrixInv
    <3> QED
      BY <2>2, <2>3, <2>5, <3>2, <3>3, <3>4 DEF MatrixInv
  <2> QED
    BY <2>1, <2>6, <2>7 DEF Example7!Sends
<1>2. CASE UNCHANGED <<data, version, mids, metrics, matrix>>
  BY <1>2 DEF MatrixInv
<1> QED
  BY <1>1, <1>2 DEF Example7!Next, Example7!TopOfBookDownloaded, Example7!DownloadBegin,
     Example7!DownloadEnd, Example7!Lose, Example7!Disconnected, Example7!vars

\* example-7: a published matrix holds the mid prices of its version and of those
\* before it, whichever sends have failed, for any symbols and prices and any number
\* of updates.
THEOREM RowsAreHistoryHolds == SamplesSpec => []RowsAreHistory
<1>1. SamplesInit => MatrixInv
  <2> SUFFICES ASSUME Example7!Init PROVE MatrixInv
    BY DEF SamplesInit
  <2>1. matrix.version = 0
    BY DEF Example7!Init, Example7!Nothing
  <2>2. /\ mids = << >> /\ version = 0 /\ metrics = 0
        /\ mids \in Seq([symbol : Matched, price : Mids])
    BY DEF Example7!Init
  <2> QED
    BY <2>1, <2>2 DEF Example7!Rows, MatrixInv
<1>2. MatrixInv /\ [SamplesNext]_samplesVars => MatrixInv'
  <2> SUFFICES ASSUME MatrixInv, [SamplesNext]_samplesVars PROVE MatrixInv'
    OBVIOUS
  <2>1. CASE Example7!Next
    BY <2>1, MatrixStep
  <2>2. CASE UNCHANGED example7Vars
    BY <2>2 DEF example7Vars, MatrixInv
  <2> QED
    BY <2>1, <2>2, StepOfOne
<1>3. MatrixInv => RowsAreHistory
  BY DEF MatrixInv, RowsAreHistory, Example7!RowsAreHistory
<1> QED
  BY <1>1, <1>2, <1>3, PTL DEF SamplesSpec

-----------------------------------------------------------------------------
(***************************************************************************)
(* example-8.                                                              *)
(***************************************************************************)

\* Until the first order the plan follows from the first price, afterwards from the
\* last order; sent orders and those that are left are COUNTDOWN.
CountdownInv ==
    /\ receive_time \in Nat \ {0} /\ next_request \in Nat /\ first_price \in Nat
    /\ countdown \in Nat /\ order_id \in Nat
    /\ requests \in Seq([time : Nat, order_id : Nat])
    /\ Len(requests) + countdown = COUNTDOWN
    /\ requests = << >> /\ next_request # 0 => next_request = first_price + DELAY_1
    /\ requests # << >> =>
        /\ next_request = requests[Len(requests)].time + DELAY_2
        /\ next_request # 0
        /\ order_id >= requests[Len(requests)].order_id
    /\ Example8!OrdersPaced

LEMMA CountdownStep ==
    ASSUME CountdownInv, Example8!Next PROVE CountdownInv'
<1> USE SamplesAssumption
<1> DEFINE Request == [time : Nat, order_id : Nat]
           n == Len(requests)
<1>0. requests \in Seq(Request)
  BY DEF CountdownInv
<1>n. n \in Nat
  BY <1>0
<1>a. \A k \in 1..n : requests[k].time \in Nat /\ requests[k].order_id \in Nat
  <2> SUFFICES ASSUME NEW k \in 1..n
               PROVE  requests[k].time \in Nat /\ requests[k].order_id \in Nat
    OBVIOUS
  <2>1. requests[k] \in Request
    <3> HIDE DEF Request
    <3> QED
      BY <1>0, ElementOfSeq
  <2> QED
    BY <2>1
<1>b. requests # << >> <=> n > 0
  BY <1>0, EmptySeq
<1>1. ASSUME Example8!warmup, UNCHANGED receive_time PROVE CountdownInv'
  BY <1>1 DEF Example8!warmup, CountdownInv, Example8!OrdersPaced
<1>2. ASSUME countdown # 0, Example8!send, UNCHANGED receive_time PROVE CountdownInv'
  <2> DEFINE r == [time |-> receive_time, order_id |-> order_id + 1]
  <2>0. /\ next_request # 0 /\ receive_time >= next_request
        /\ order_id' = order_id + 1 /\ UNCHANGED <<first_price, receive_time>>
    BY <1>2 DEF Example8!send
  <2>1. CASE /\ requests' = Append(requests, r)
             /\ countdown' = countdown - 1 /\ next_request' = receive_time + DELAY_2
    <3>1. r \in [time : Nat, order_id : Nat]
      BY DEF CountdownInv
    <3> HIDE DEF r
    <3>9. requests' \in Seq(Request)
      BY <1>0, <2>1, <3>1, AppendProperties
    <3>2. /\ Len(requests') = n + 1 /\ requests'[n + 1] = r
          /\ \A k \in 1..n : requests'[k] = requests[k]
      <4> HIDE DEF Request
      <4>1. Append(requests, r)[n + 1] = r
        BY <1>0, <3>1, AppendProperties
      <4>2. \A k \in 1..n : Append(requests, r)[k] = requests[k]
        BY <1>0, <3>1, AppendProperties
      <4> QED
        BY <1>0, <2>1, <3>1, <4>1, <4>2, AppendProperties
    <3>3. r.time = receive_time /\ r.order_id = order_id + 1
      BY DEF r
    <3>4. Example8!OrdersPaced'
      <4>1. Len(requests') <= COUNTDOWN
        BY <1>2, <3>2 DEF CountdownInv
      <4>2. requests'[1].time >= first_price' + DELAY_1
        <5>1. CASE requests = << >>
          BY <2>0, <3>2, <3>3, <5>1 DEF CountdownInv
        <5>2. CASE requests # << >>
          <6>1. 1 \in 1..n /\ n > 0
            BY <1>n, <1>b, <5>2
          <6>2. requests[1].time >= first_price + DELAY_1
            BY <6>1 DEF CountdownInv, Example8!OrdersPaced
          <6> QED
            BY <2>0, <3>2, <6>1, <6>2
        <5> QED
          BY <5>1, <5>2
      <4>3. ASSUME NEW i \in 2..Len(requests')
            PROVE  /\ requests'[i].time >= requests'[i - 1].time + DELAY_2
                   /\ requests'[i].order_id > requests'[i - 1].order_id
        <5>1. CASE i = Len(requests')
          <6>1. n \in 1..n /\ requests'[i - 1] = requests[n] /\ requests'[i] = r
            BY <1>n, <3>2, <5>1
          <6>2. /\ requests[n].time \in Nat /\ requests[n].order_id \in Nat
                /\ next_request = requests[n].time + DELAY_2
                /\ order_id >= requests[n].order_id
            BY <1>0, <1>a, <1>b, <6>1 DEF CountdownInv
          <6> QED
            <7>1. receive_time \in Nat /\ order_id \in Nat
              BY DEF CountdownInv
            <7> QED
              BY <2>0, <3>3, <6>1, <6>2, <7>1
        <5>2. CASE i # Len(requests')
          <6>1. i \in 2..n /\ requests'[i - 1] = requests[i - 1] /\ requests'[i] = requests[i]
            BY <1>n, <3>2, <5>2
          <6> QED
            BY <6>1 DEF CountdownInv, Example8!OrdersPaced
        <5> QED
          BY <5>1, <5>2
      <4> QED
        BY <4>1, <4>2, <4>3 DEF Example8!OrdersPaced
    <3> QED
      <4>1. /\ Len(requests') + countdown' = COUNTDOWN /\ countdown' \in Nat
            /\ requests' # << >>
        <5>1. countdown \in Nat /\ n + countdown = COUNTDOWN
          BY DEF CountdownInv
        <5>2. requests' # << >>
          BY <1>n, <3>2, <3>9, EmptySeq
        <5> QED
          BY <1>n, <1>2, <2>1, <3>2, <5>1, <5>2
      <4>2. /\ next_request' = requests'[Len(requests')].time + DELAY_2 /\ next_request' # 0
            /\ order_id' >= requests'[Len(requests')].order_id
            /\ next_request' \in Nat /\ order_id' \in Nat
        BY <2>0, <2>1, <3>2, <3>3 DEF CountdownInv
      <4> QED
        BY <2>0, <3>9, <3>4, <4>1, <4>2 DEF CountdownInv
  <2>2. CASE UNCHANGED <<requests, countdown, next_request>>
    <3>1. requests # << >> => order_id' >= requests[n].order_id
      BY <1>n, <1>a, <1>b, <2>0 DEF CountdownInv
    <3>2. Example8!OrdersPaced'
      BY <2>0, <2>2 DEF CountdownInv, Example8!OrdersPaced
    <3> QED
      BY <2>0, <2>2, <3>1, <3>2 DEF CountdownInv
  <2> QED
    BY <1>2, <2>1, <2>2 DEF Example8!send, Example8!schedule_next
<1>3. ASSUME Example8!create_order PROVE CountdownInv'
  <2>1. CASE Example8!ignored
    BY <1>3, <2>1 DEF Example8!create_order, Example8!ignored, CountdownInv, Example8!OrdersPaced
  <2> QED
    BY <1>1, <1>2, <1>3, <2>1 DEF Example8!create_order
<1>4. CASE Example8!DownloadEnd
  BY <1>0, <1>a, <1>b, <1>4 DEF Example8!DownloadEnd, Example8!Internal, CountdownInv, Example8!OrdersPaced
<1>5. CASE Example8!Tick
  BY <1>5 DEF Example8!Tick, CountdownInv, Example8!OrdersPaced
<1>6. CASE UNCHANGED <<receive_time, next_request, first_price, countdown, order_id, requests>>
  BY <1>6 DEF CountdownInv, Example8!OrdersPaced
<1> QED
  BY <1>3, <1>4, <1>5, <1>6
     DEF Example8!Next, Example8!TopOfBook, Example8!MarketByPriceUpdate, Example8!DownloadBegin,
         Example8!ReferenceData, Example8!Lose, Example8!Ended, Example8!Internal, Example8!vars

\* example-8: at most COUNTDOWN orders, with increasing ids, the first after the
\* warm-up and each DELAY_2 after the one before, for all delays and any gaps
\* between events.
THEOREM OrdersPacedHolds == SamplesSpec => []OrdersPaced
<1>1. SamplesInit => CountdownInv
  <2> SUFFICES ASSUME Example8!Init PROVE CountdownInv
    BY DEF SamplesInit
  <2> QED
    BY SamplesAssumption DEF Example8!Init, CountdownInv, Example8!OrdersPaced
<1>2. CountdownInv /\ [SamplesNext]_samplesVars => CountdownInv'
  <2> SUFFICES ASSUME CountdownInv, [SamplesNext]_samplesVars PROVE CountdownInv'
    OBVIOUS
  <2>1. CASE Example8!Next
    BY <2>1, CountdownStep
  <2>2. CASE UNCHANGED example8Vars
    BY <2>2 DEF example8Vars, CountdownInv, Example8!OrdersPaced
  <2> QED
    BY <2>1, <2>2, StepOfOne
<1>3. CountdownInv => OrdersPaced
  BY DEF CountdownInv, OrdersPaced
<1> QED
  BY <1>1, <1>2, <1>3, PTL DEF SamplesSpec

-----------------------------------------------------------------------------
(***************************************************************************)
(* rest.                                                                   *)
(***************************************************************************)

\* The next request is due REQUEST_FREQ after the last one, and when the client gives
\* up in time only the last request can be under way, not for longer than the timeout.
RestInv ==
    /\ rest_now \in Nat /\ next_request_time \in Nat
    /\ rest_sent \in Seq(Nat) /\ pending \in Seq(Nat)
    /\ Len(rest_sent) > 0 => next_request_time = rest_sent[Len(rest_sent)] + REQUEST_FREQ
    /\ REQUEST_TIMEOUT <= REQUEST_FREQ /\ Len(pending) > 0 =>
        /\ Len(pending) = 1 /\ Len(rest_sent) > 0
        /\ pending[1] = rest_sent[Len(rest_sent)]
        /\ rest_now <= pending[1] + REQUEST_TIMEOUT
    /\ \A i \in 1..(Len(rest_sent) - 1) : rest_sent[i + 1] - rest_sent[i] > REQUEST_FREQ

LEMMA RestStep ==
    ASSUME RestInv, Rest!Next PROVE RestInv'
<1> USE SamplesAssumption
<1>1. CASE Rest!Timer
  <2>1. /\ next_request_time < rest_now /\ rest_now' = rest_now
        /\ next_request_time' = rest_now + REQUEST_FREQ
        /\ rest_sent' = Append(rest_sent, rest_now) /\ pending' = Append(pending, rest_now)
    BY <1>1 DEF Rest!Timer, Rest!after_request
  <2>2. /\ rest_sent' \in Seq(Nat) /\ Len(rest_sent') = Len(rest_sent) + 1
        /\ rest_sent'[Len(rest_sent) + 1] = rest_now
        /\ \A k \in 1..Len(rest_sent) : rest_sent'[k] = rest_sent[k]
    BY <2>1 DEF RestInv
  <2>3. /\ pending' \in Seq(Nat) /\ Len(pending') = Len(pending) + 1
        /\ pending'[Len(pending) + 1] = rest_now
    BY <2>1 DEF RestInv
  <2>4. /\ Len(rest_sent) \in Nat /\ Len(pending) \in Nat
        /\ Len(rest_sent) > 0 => rest_sent[Len(rest_sent)] \in Nat
    BY DEF RestInv
  <2>5. REQUEST_TIMEOUT <= REQUEST_FREQ => Len(pending) = 0
    BY <2>1, <2>4 DEF RestInv
  <2>6. ASSUME NEW i \in 1..(Len(rest_sent') - 1)
        PROVE  rest_sent'[i + 1] - rest_sent'[i] > REQUEST_FREQ
    <3>1. CASE i = Len(rest_sent)
      BY <2>1, <2>2, <2>4, <3>1 DEF RestInv
    <3>2. CASE i # Len(rest_sent)
      <4>1. i \in 1..(Len(rest_sent) - 1) /\ i \in 1..Len(rest_sent) /\ i + 1 \in 1..Len(rest_sent)
        BY <2>2, <2>4, <3>2
      <4> QED
        BY <2>2, <4>1 DEF RestInv
    <3> QED
      BY <3>1, <3>2
  <2> QED
    <3>1. rest_now \in Nat /\ next_request_time' \in Nat
      BY <2>1 DEF RestInv
    <3>2. next_request_time' = rest_sent'[Len(rest_sent')] + REQUEST_FREQ
      BY <2>1, <2>2
    <3>3. REQUEST_TIMEOUT <= REQUEST_FREQ =>
            /\ Len(pending') = 1 /\ Len(rest_sent') > 0
            /\ pending'[1] = rest_sent'[Len(rest_sent')]
            /\ rest_now' <= pending'[1] + REQUEST_TIMEOUT
      BY <2>1, <2>2, <2>3, <2>4, <2>5, <3>1
    <3> QED
      BY <2>1, <2>2, <2>3, <2>6, <3>1, <3>2, <3>3 DEF RestInv
<1>2. CASE Rest!Response
  <2>1. /\ pending # << >> /\ pending' = Tail(pending)
        /\ UNCHANGED <<rest_now, next_request_time, rest_sent>>
    BY <1>2 DEF Rest!Response
  <2>2. pending' \in Seq(Nat) /\ Len(pending') = Len(pending) - 1 /\ Len(pending) > 0
    BY <2>1 DEF RestInv
  <2>3. REQUEST_TIMEOUT <= REQUEST_FREQ => Len(pending') = 0
    BY <2>2 DEF RestInv
  <2>4. Len(pending') > 0 => ~(REQUEST_TIMEOUT <= REQUEST_FREQ)
    BY <2>3
  <2> QED
    BY <2>1, <2>2, <2>4 DEF RestInv
<1>3. CASE Rest!Tick
  <2>1. Len(pending) > 0 => rest_now - pending[1] < REQUEST_TIMEOUT
    BY <1>3 DEF Rest!Tick, RestInv
  <2>2. Len(pending) > 0 => pending[1] \in Nat
    BY DEF RestInv
  <2>3. rest_now' = rest_now + 1 /\ UNCHANGED <<next_request_time, rest_sent, pending>>
    BY <1>3 DEF Rest!Tick
  <2> QED
    BY <2>1, <2>2, <2>3 DEF RestInv
<1>4. CASE pending' = << >> /\ UNCHANGED <<rest_now, next_request_time, rest_sent>>
  BY <1>4 DEF RestInv
<1>5. CASE UNCHANGED <<rest_now, next_request_time, rest_sent, pending>>
  BY <1>5 DEF RestInv
<1> QED
  BY <1>1, <1>2, <1>3, <1>4, <1>5
     DEF Rest!Next, Rest!Start, Rest!Stop, Rest!Connected, Rest!Disconnected, Rest!Stopped,
         Rest!vars

\* rest: requests stay more than REQUEST_FREQ apart however long the connection was
\* lost, and when the timeout is not longer than that no two are ever under way.
THEOREM RequestsSpacedHolds == SamplesSpec => []RequestsSpaced
<1>1. SamplesInit => RestInv
  <2> SUFFICES ASSUME Rest!Init PROVE RestInv
    BY DEF SamplesInit
  <2> QED
    BY SamplesAssumption DEF Rest!Init, RestInv
<1>2. RestInv /\ [SamplesNext]_samplesVars => RestInv'
  <2> SUFFICES ASSUME RestInv, [SamplesNext]_samplesVars PROVE RestInv'
    OBVIOUS
  <2>1. CASE Rest!Next
    BY <2>1, RestStep
  <2>2. CASE UNCHANGED restVars
    BY <2>2 DEF restVars, RestInv
  <2> QED
    BY <2>1, <2>2, StepOfOne
<1>3. RestInv => RequestsSpaced
  <2> SUFFICES ASSUME RestInv PROVE RequestsSpaced
    OBVIOUS
  <2>1. Len(pending) \in Nat
    BY DEF RestInv
  <2>2. REQUEST_TIMEOUT <= REQUEST_FREQ => Len(pending) <= 1
    <3>1. REQUEST_TIMEOUT <= REQUEST_FREQ /\ Len(pending) > 0 => Len(pending) = 1
      BY DEF RestInv
    <3>2. pending \in Seq(Nat)
      BY DEF RestInv
    <3> QED
      BY <2>1, <3>1, <3>2, SamplesAssumption
  <2> QED
    BY <2>2 DEF RestInv, RequestsSpaced, Rest!RequestsSpaced
<1> QED
  BY <1>1, <1>2, <1>3, PTL DEF SamplesSpec

-----------------------------------------------------------------------------
(***************************************************************************)
(* depth.                                                                  *)
(***************************************************************************)

Books == [Depth!Sides -> [Prices -> Quantities]]

\* A level's quantity after an update is one the update gives it, zero or its old one.
LEMMA ApplyType ==
    ASSUME NEW book \in Books, NEW update, update.levels \in SUBSET Depth!Levels
    PROVE  Depth!Apply(book, update) \in Books
<1> USE SamplesAssumption
<1> SUFFICES ASSUME NEW s \in Depth!Sides, NEW p \in Prices
             PROVE  Depth!Apply(book, update)[s][p] \in Quantities
  BY DEF Depth!Apply, Books
<1> DEFINE Is(l) == l.side = s /\ l.price = p
<1>1. CASE \E l \in update.levels : Is(l)
  <2>1. (CHOOSE l \in update.levels : Is(l)) \in update.levels
    BY <1>1
  <2>2. (CHOOSE l \in update.levels : Is(l)).quantity \in Quantities
    BY <2>1 DEF Depth!Levels
  <2> QED
    BY <1>1, <2>2 DEF Depth!Apply
<1>2. CASE ~ \E l \in update.levels : Is(l)
  BY <1>2 DEF Depth!Apply, Books
<1> QED
  BY <1>1, <1>2

LEMMA ExtractType ==
    ASSUME NEW book \in Books PROVE Depth!Extract(book) \in Books
BY SamplesAssumption DEF Depth!Extract, Books

LEMMA SameBook ==
    ASSUME NEW a \in Books, NEW b \in Books,
           \A s \in Depth!Sides : \A q \in Prices : a[s][q] = b[s][q]
    PROVE  a = b
<1> SUFFICES ASSUME NEW s \in Depth!Sides PROVE a[s] = b[s]
  BY DEF Books
<1> QED
  BY DEF Books

\* DepthBook's copy of Cardinality is Cardinality.
LEMMA DepthCardinality == \A S : Depth!Cardinality(S) = Cardinality(S)
BY Zenon DEF Cardinality, Depth!Cardinality

\* The top of a top is that top: fewer levels cannot push another one out.
LEMMA ExtractTwice ==
    ASSUME NEW book \in Books
    PROVE  Depth!Extract(Depth!Extract(book)) = Depth!Extract(book)
<1> USE SamplesAssumption
<1> DEFINE top == Depth!Extract(book)
           Above(b, s, q) == {p \in Prices : b[s][p] > 0 /\ Depth!Better(s, p, q)}
<1>1. ASSUME NEW s \in Depth!Sides, NEW q \in Prices
      PROVE  Depth!Extract(top)[s][q] = top[s][q]
  <2>1. ASSUME NEW b
        PROVE  Depth!Extract(b)[s][q] = IF Cardinality(Above(b, s, q)) < depth THEN b[s][q] ELSE 0
    <3>1. Depth!Extract(b) = [side \in Depth!Sides |-> [price \in Prices |->
                               IF Cardinality(Above(b, side, price)) < depth
                               THEN b[side][price] ELSE 0]]
      BY DepthCardinality, Zenon DEF Depth!Extract
    <3> HIDE DEF Above
    <3> QED
      BY <3>1
  <2>2. ASSUME NEW p \in Prices PROVE top[s][p] \in {0, book[s][p]}
    BY DEF Depth!Extract
  <2>3. Above(top, s, q) \subseteq Above(book, s, q)
    <3>1. ~(0 > 0)
      OBVIOUS
    <3> QED
      BY <2>2, <3>1
  <2>4. IsFiniteSet(Above(book, s, q))
    <3>1. Above(book, s, q) \subseteq Prices
      OBVIOUS
    <3> QED
      BY <3>1, FS_Subset
  <2>5. /\ IsFiniteSet(Above(top, s, q))
        /\ Cardinality(Above(top, s, q)) <= Cardinality(Above(book, s, q))
    BY <2>3, <2>4, FS_Subset
  <2>6. Cardinality(Above(top, s, q)) \in Nat /\ Cardinality(Above(book, s, q)) \in Nat
    BY <2>4, <2>5, FS_CardinalityType
  <2>7. top[s][q] = IF Cardinality(Above(book, s, q)) < depth THEN book[s][q] ELSE 0
    BY <2>1
  <2>8. Depth!Extract(top)[s][q] = IF Cardinality(Above(top, s, q)) < depth THEN top[s][q] ELSE 0
    BY <2>1
  <2> HIDE DEF top, Above
  <2> QED
    BY <2>5, <2>6, <2>7, <2>8
<1>2. top \in Books /\ Depth!Extract(top) \in Books
  BY ExtractType
<1> HIDE DEF top
<1>3. Depth!Extract(top) = top
  BY <1>1, <1>2, SameBook
<1> QED
  BY <1>3 DEF top

\* The computed update brings the top of the old book to the top of the new one.
LEMMA DepthUpdate ==
    ASSUME NEW book \in Books, NEW levels \in SUBSET Depth!Levels, NEW snapshot \in BOOLEAN
    PROVE  LET update == [levels |-> levels, snapshot |-> snapshot]
           IN  Depth!Apply(Depth!Extract(book), Depth!create_depth_update(book, update))
                 = Depth!Extract(Depth!Apply(book, update))
<1> DEFINE update == [levels |-> levels, snapshot |-> snapshot]
           before == Depth!Extract(book)
           after == Depth!Extract(Depth!Apply(book, update))
           changes == {l \in Depth!Levels : /\ l.quantity = after[l.side][l.price]
                                            /\ snapshot \/ l.quantity # before[l.side][l.price]}
           feed == Depth!create_depth_update(book, update)
<1>1. feed.levels = changes /\ feed.snapshot = snapshot
  BY DEF Depth!create_depth_update
<1>2. before \in Books /\ after \in Books
  <2>1. Depth!Apply(book, update) \in Books
    BY ApplyType
  <2> QED
    BY <2>1, ExtractType
<1> HIDE DEF update, before, after, feed
<1>3. ASSUME NEW s \in Depth!Sides, NEW p \in Prices
      PROVE  Depth!Apply(before, feed)[s][p] = after[s][p]
  <2> DEFINE Is(l) == l.side = s /\ l.price = p
             level == [side |-> s, price |-> p, quantity |-> after[s][p]]
  <2>1. after[s][p] \in Quantities
    BY <1>2 DEF Books
  <2>2. level \in Depth!Levels /\ Is(level) /\ level.quantity = after[s][p]
    BY <2>1 DEF Depth!Levels
  <2>3. Depth!Apply(before, feed)[s][p]
          = IF \E l \in changes : Is(l) THEN (CHOOSE l \in changes : Is(l)).quantity
            ELSE IF snapshot THEN 0 ELSE before[s][p]
    BY <1>1 DEF Depth!Apply
  <2>4. CASE \E l \in changes : Is(l)
    <3>1. /\ (CHOOSE l \in changes : Is(l)) \in changes
          /\ Is(CHOOSE l \in changes : Is(l))
      <4> HIDE DEF changes
      <4> QED
        BY <2>4
    <3>2. (CHOOSE l \in changes : Is(l)).quantity = after[s][p]
      BY <3>1
    <3> QED
      BY <2>3, <2>4, <3>2
  <2>5. CASE ~ \E l \in changes : Is(l)
    <3>1. level \notin changes
      BY <2>2, <2>5
    <3>2. ~snapshot /\ after[s][p] = before[s][p]
      BY <2>2, <3>1
    <3> QED
      BY <2>3, <2>5, <3>2
  <2> QED
    BY <2>4, <2>5
<1>4. Depth!Apply(before, feed) \in Books
  <2>1. feed.levels \in SUBSET Depth!Levels
    BY <1>1
  <2> QED
    BY <1>2, <2>1, ApplyType
<1>5. Depth!Apply(before, feed) = after
  BY <1>2, <1>3, <1>4, SameBook
<1> QED
  BY <1>5 DEF update, before, after, feed

DepthInv == mbp_full \in Books /\ mbp_depth = Depth!Extract(mbp_full) /\ mismatch = FALSE

LEMMA EmptyTop == Depth!EmptyBook \in Books /\ Depth!Extract(Depth!EmptyBook) = Depth!EmptyBook
BY SamplesAssumption DEF Depth!EmptyBook, Depth!Extract, Books

LEMMA UpdateLevels == \A levels \in Depth!Updates : levels \in SUBSET Depth!Levels
BY DEF Depth!Updates

LEMMA DepthStep ==
    ASSUME DepthInv, Depth!Next PROVE DepthInv'
<1>1. CASE Depth!MarketByPriceUpdate
  <2>1. PICK levels \in Depth!Updates :
          /\ mbp_full' = Depth!book_update([levels |-> levels, snapshot |-> fed = "new"]).full
          /\ mbp_depth' = Depth!book_update([levels |-> levels, snapshot |-> fed = "new"]).depth
          /\ mismatch' = ~Depth!is_same(
                            Depth!book_update([levels |-> levels, snapshot |-> fed = "new"]).full,
                            Depth!book_update([levels |-> levels, snapshot |-> fed = "new"]).depth)
    BY <1>1, Zenon DEF Depth!MarketByPriceUpdate
  <2> DEFINE update == [levels |-> levels, snapshot |-> fed = "new"]
  <2>2. levels \in SUBSET Depth!Levels
    BY UpdateLevels
  <2>3. /\ mbp_full' = Depth!Apply(mbp_full, update)
        /\ mbp_depth' = Depth!Apply(mbp_depth, Depth!create_depth_update(mbp_full, update))
        /\ mismatch' = ~(Depth!Extract(mbp_full') = Depth!Extract(mbp_depth'))
    BY <2>1 DEF Depth!book_update, Depth!is_same
  <2>4. mbp_full' \in Books
    BY <2>2, <2>3, ApplyType DEF DepthInv
  <2>5. mbp_depth' = Depth!Extract(mbp_full')
    BY <2>2, <2>3, DepthUpdate DEF DepthInv
  <2>6. Depth!Extract(mbp_depth') = Depth!Extract(mbp_full')
    BY <2>4, <2>5, ExtractTwice
  <2> QED
    BY <2>3, <2>4, <2>5, <2>6 DEF DepthInv
<1>2. CASE Depth!Disconnected
  BY <1>2, EmptyTop DEF Depth!Disconnected, DepthInv
<1>3. CASE UNCHANGED <<mbp_full, mbp_depth, mismatch>>
  BY <1>3 DEF DepthInv
<1> QED
  BY <1>1, <1>2, <1>3 DEF Depth!Next, Depth!Connected, Depth!ReferenceData, Depth!vars

\* depth: the limited book is the top of the full book after any updates, for every
\* depth and every set of prices, and the program's own comparison never fails.
THEOREM DepthIsTopHolds == SamplesSpec => []DepthIsTop
<1>1. SamplesInit => DepthInv
  BY EmptyTop DEF SamplesInit, Depth!Init, DepthInv
<1>2. DepthInv /\ [SamplesNext]_samplesVars => DepthInv'
  <2> SUFFICES ASSUME DepthInv, [SamplesNext]_samplesVars PROVE DepthInv'
    OBVIOUS
  <2>1. CASE Depth!Next
    BY <2>1, DepthStep
  <2>2. CASE UNCHANGED depthVars
    BY <2>2 DEF depthVars, DepthInv
  <2> QED
    BY <2>1, <2>2, StepOfOne
<1>3. DepthInv => DepthIsTop
  BY DEF DepthInv, DepthIsTop, Depth!DepthIsTop
<1> QED
  BY <1>1, <1>2, <1>3, PTL DEF SamplesSpec
-----------------------------------------------------------------------------
(***************************************************************************)
(* import, event-log and vwap.                                             *)
(***************************************************************************)

Messages == 1..5

LEMMA FiveMessages == Len(Log!Dispatched) = 5
BY DEF Log!Dispatched

\* The message that process writes as number i.
Written(i) ==
    [info |-> [source_seqno |-> i, receive_time |-> Log!Dispatched[i].time],
     value |-> Log!Dispatched[i].message]

\* The first messages, with none missing.
IsStream(s) ==
    /\ s \in Seq({Written(i) : i \in Messages}) /\ Len(s) <= 5
    /\ \A i \in 1..Len(s) : s[i] = Written(i)

\* The books after the snapshot and after the update.
ImageBook == [bids |-> {4, 3, 2}, asks |-> {7, 8, 9}]

UpdateBook == [bids |-> {3, 2, 1}, asks |-> {7, 8, 9}]

ImageLine == [update |-> Log!image, book |-> ImageBook]

UpdateLine == [update |-> Log!update, book |-> UpdateBook]

\* What vwap has printed, and its book, follow from how far it has read.
Lines ==
    /\ read \in 0..Len(log)
    /\ printed \in Seq({ImageLine, UpdateLine})
    /\ Len(printed) = IF read <= 3 THEN 0 ELSE read - 3
    /\ \A n \in 1..Len(printed) : printed[n] = IF n = 1 THEN ImageLine ELSE UpdateLine
    /\ read <= 3 => market_by_price = << >>
    /\ read > 3 => /\ DOMAIN market_by_price = {Log!SYMBOL}
                   /\ market_by_price[Log!SYMBOL] = IF read = 4 THEN ImageBook ELSE UpdateBook

\* A failed write ends the file: the file, the log and what was read are each a
\* beginning of the one before.
LogInv ==
    /\ seqno \in 0..5 /\ failed \in BOOLEAN
    /\ IsStream(file) /\ Len(file) <= seqno /\ (~failed => Len(file) = seqno)
    /\ IsStream(log) /\ Len(log) <= Len(file)
    /\ closed \in BOOLEAN /\ complete \in BOOLEAN
    /\ (complete => closed) /\ (closed => seqno = 5)
    /\ complete => Len(log) = Len(file)
    /\ IsStream(handled) /\ Len(handled) <= Len(log)
    /\ Lines
    /\ pc = "done" => complete /\ Len(handled) = Len(log)

LEMMA StreamGrows ==
    ASSUME NEW s, IsStream(s), Len(s) < 5
    PROVE  /\ IsStream(Append(s, Written(Len(s) + 1)))
           /\ Len(Append(s, Written(Len(s) + 1))) = Len(s) + 1
<1> DEFINE E == {Written(i) : i \in Messages}
           e == Written(Len(s) + 1)
<1>1. s \in Seq(E) /\ Len(s) \in Nat /\ \A i \in 1..Len(s) : s[i] = Written(i)
  BY DEF IsStream
<1>2. e \in E
  BY <1>1 DEF Messages
<1> HIDE DEF E, e
<1>3. Append(s, e) \in Seq(E) /\ Len(Append(s, e)) = Len(s) + 1
  BY <1>1, <1>2
<1>4. ASSUME NEW i \in 1..(Len(s) + 1) PROVE Append(s, e)[i] = Written(i)
  <2>1. CASE i = Len(s) + 1
    BY <1>1, <1>2, <2>1 DEF e
  <2>2. CASE i # Len(s) + 1
    BY <1>1, <1>2, <2>2
  <2> QED
    BY <2>1, <2>2
<1> QED
  BY <1>1, <1>3, <1>4 DEF IsStream, E, e

\* Changed is what applying the changes one after the other leads to.
LEMMA ChangedFirst ==
    ASSUME NEW prices, NEW levels PROVE Log!Changed(prices, levels, 0) = prices
BY DEF Log!Changed

LEMMA ChangedStep ==
    ASSUME NEW prices, NEW levels, NEW n \in Nat, NEW p
    PROVE  p \in Log!Changed(prices, levels, n + 1) <=>
             IF p = levels[n + 1].price
             THEN levels[n + 1].quantity # 0 ELSE p \in Log!Changed(prices, levels, n)
<1> DEFINE Removed(x, m) == \E i \in 1..m : /\ levels[i].price = x /\ levels[i].quantity = 0
                                            /\ \A j \in (i + 1)..m : levels[j].price # x
           All(m) == prices \union {levels[i].price : i \in 1..m}
<1>1. \A m : Log!Changed(prices, levels, m) = {x \in All(m) : ~Removed(x, m)}
  BY DEF Log!Changed
<1>2. All(n + 1) = All(n) \union {levels[n + 1].price}
  <2>1. 1..(n + 1) = (1..n) \union {n + 1}
    OBVIOUS
  <2> QED
    BY <2>1
<1>3. ASSUME p # levels[n + 1].price PROVE Removed(p, n + 1) <=> Removed(p, n)
  <2>1. ASSUME Removed(p, n + 1) PROVE Removed(p, n)
    <3>1. PICK i \in 1..(n + 1) : /\ levels[i].price = p /\ levels[i].quantity = 0
                                  /\ \A j \in (i + 1)..(n + 1) : levels[j].price # p
      BY <2>1
    <3>2. i \in 1..n
      BY <3>1, <1>3
    <3> QED
      BY <3>1, <3>2
  <2>2. ASSUME Removed(p, n) PROVE Removed(p, n + 1)
    <3>1. PICK i \in 1..n : /\ levels[i].price = p /\ levels[i].quantity = 0
                            /\ \A j \in (i + 1)..n : levels[j].price # p
      BY <2>2
    <3>2. \A j \in (i + 1)..(n + 1) : j \in (i + 1)..n \/ j = n + 1
      BY <3>1
    <3> QED
      BY <3>1, <3>2, <1>3
  <2> QED
    BY <2>1, <2>2
<1>4. Removed(levels[n + 1].price, n + 1) <=> levels[n + 1].quantity = 0
  <2>1. ASSUME Removed(levels[n + 1].price, n + 1) PROVE levels[n + 1].quantity = 0
    <3>1. PICK i \in 1..(n + 1) : /\ levels[i].quantity = 0
                 /\ \A j \in (i + 1)..(n + 1) : levels[j].price # levels[n + 1].price
      BY <2>1
    <3>2. i = n + 1
      BY <3>1
    <3> QED
      BY <3>1, <3>2
  <2>2. ASSUME levels[n + 1].quantity = 0 PROVE Removed(levels[n + 1].price, n + 1)
    <3>1. n + 1 \in 1..(n + 1) /\ (n + 1 + 1)..(n + 1) = {}
      OBVIOUS
    <3> QED
      BY <2>2, <3>1
  <2> QED
    BY <2>1, <2>2
<1> HIDE DEF Removed, All
<1> QED
  BY <1>1, <1>2, <1>3, <1>4

\* The two messages, level by level.
LEMMA ImageBids ==
    LET C(n) == Log!Changed({}, Log!bids_image, n)
    IN  C(1) = {4} /\ C(2) = {4, 3} /\ C(3) = {4, 3, 2}
<1> DEFINE L == Log!bids_image
<1>1. /\ L[1].price = 4 /\ L[2].price = 3 /\ L[3].price = 2
      /\ L[1].quantity = 3 /\ L[2].quantity = 2 /\ L[3].quantity = 1
  BY DEF Log!bids_image, Log!MBPUpdate
<1> HIDE DEF L
<1>2. Log!Changed({}, L, 0) = {}
  BY ChangedFirst
<1>3. Log!Changed({}, L, 0 + 1) = {4}
  BY <1>1, <1>2, ChangedStep
<1>4. Log!Changed({}, L, 1 + 1) = {4, 3}
  BY <1>1, <1>3, ChangedStep
<1>5. Log!Changed({}, L, 2 + 1) = {4, 3, 2}
  BY <1>1, <1>4, ChangedStep
<1> QED
  BY <1>3, <1>4, <1>5 DEF L

LEMMA ImageAsks ==
    LET C(n) == Log!Changed({}, Log!asks_image, n)
    IN  C(1) = {7} /\ C(2) = {7, 8} /\ C(3) = {7, 8, 9}
<1> DEFINE L == Log!asks_image
<1>1. /\ L[1].price = 7 /\ L[2].price = 8 /\ L[3].price = 9
      /\ L[1].quantity = 3 /\ L[2].quantity = 2 /\ L[3].quantity = 1
  BY DEF Log!asks_image, Log!MBPUpdate
<1> HIDE DEF L
<1>2. Log!Changed({}, L, 0) = {}
  BY ChangedFirst
<1>3. Log!Changed({}, L, 0 + 1) = {7}
  BY <1>1, <1>2, ChangedStep
<1>4. Log!Changed({}, L, 1 + 1) = {7, 8}
  BY <1>1, <1>3, ChangedStep
<1>5. Log!Changed({}, L, 2 + 1) = {7, 8, 9}
  BY <1>1, <1>4, ChangedStep
<1> QED
  BY <1>3, <1>4, <1>5 DEF L

LEMMA UpdateBids ==
    LET C(n) == Log!Changed({4, 3, 2}, Log!bids_update, n)
    IN  C(0) = {4, 3, 2} /\ C(1) = {3, 2} /\ C(2) = {3, 2, 1}
<1> DEFINE L == Log!bids_update
<1>1. /\ L[1].price = 4 /\ L[2].price = 1
      /\ L[1].quantity = 0 /\ L[2].quantity = 2
  BY DEF Log!bids_update, Log!MBPUpdate
<1> HIDE DEF L
<1>2. Log!Changed({4, 3, 2}, L, 0) = {4, 3, 2}
  BY ChangedFirst
<1>3. Log!Changed({4, 3, 2}, L, 0 + 1) = {3, 2}
  BY <1>1, <1>2, ChangedStep
<1>4. Log!Changed({4, 3, 2}, L, 1 + 1) = {3, 2, 1}
  BY <1>1, <1>3, ChangedStep
<1> QED
  BY <1>2, <1>3, <1>4 DEF L

\* EventStream's copy of Cardinality is Cardinality.
LEMMA LogCardinality == \A S : Log!Cardinality(S) = Cardinality(S)
BY Zenon DEF Cardinality, Log!Cardinality

LEMMA AtMostThree ==
    ASSUME NEW a, NEW b, NEW c
    PROVE  /\ Log!Cardinality({a}) <= 3 /\ Log!Cardinality({a, b}) <= 3
           /\ Log!Cardinality({a, b, c}) <= 3
<1>1. IsFiniteSet({a}) /\ Cardinality({a}) = 1
  BY FS_Singleton
<1>2. {a, b} = {a} \union {b} /\ {a, b, c} = {a, b} \union {c}
  OBVIOUS
<1>3. IsFiniteSet({a, b}) /\ Cardinality({a, b}) \in {1, 2}
  BY <1>1, <1>2, FS_AddElement
<1>4. Cardinality({a, b, c}) \in {1, 2, 3}
  BY <1>2, <1>3, FS_AddElement
<1> QED
  BY <1>1, <1>3, <1>4, LogCardinality

LEMMA ImageInSteps ==
    Log!InSteps({}, Log!bids_image) /\ Log!InSteps({}, Log!asks_image)
<1>1. /\ Len(Log!bids_image) = 3 /\ Len(Log!asks_image) = 3
      /\ \A n \in 1..3 : Log!bids_image[n].quantity # 0 /\ Log!asks_image[n].quantity # 0
  BY DEF Log!bids_image, Log!asks_image, Log!MBPUpdate
<1>2. Log!GatewaySettings.mbp_max_depth = 3
  BY DEF Log!GatewaySettings
<1>3. ASSUME NEW n \in 1..3
      PROVE  /\ Log!Cardinality(Log!Changed({}, Log!bids_image, n)) <= 3
             /\ Log!Cardinality(Log!Changed({}, Log!asks_image, n)) <= 3
  <2>1. CASE n = 1
    BY <2>1, ImageBids, ImageAsks, AtMostThree
  <2>2. CASE n = 2
    BY <2>2, ImageBids, ImageAsks, AtMostThree
  <2>3. CASE n = 3
    BY <2>3, ImageBids, ImageAsks, AtMostThree
  <2> QED
    BY <2>1, <2>2, <2>3
<1> QED
  BY <1>1, <1>2, <1>3 DEF Log!InSteps

LEMMA UpdateInSteps ==
    Log!InSteps({4, 3, 2}, Log!bids_update) /\ Log!InSteps({7, 8, 9}, << >>)
<1>1. /\ Len(Log!bids_update) = 2
      /\ Log!bids_update[1].price = 4 /\ Log!bids_update[2].quantity # 0
  BY DEF Log!bids_update, Log!MBPUpdate
<1>2. Log!GatewaySettings.mbp_max_depth = 3
  BY DEF Log!GatewaySettings
<1>3. ASSUME NEW n \in 1..2
      PROVE  /\ Log!bids_update[n].quantity = 0 =>
                  Log!bids_update[n].price \in Log!Changed({4, 3, 2}, Log!bids_update, n - 1)
             /\ Log!Cardinality(Log!Changed({4, 3, 2}, Log!bids_update, n)) <= 3
  <2>1. CASE n = 1
    <3>1. Log!bids_update[n].price \in Log!Changed({4, 3, 2}, Log!bids_update, 0)
      BY <1>1, <2>1, UpdateBids
    <3>2. n - 1 = 0
      BY <2>1
    <3>3. Log!Cardinality(Log!Changed({4, 3, 2}, Log!bids_update, n)) <= 3
      BY <2>1, UpdateBids, AtMostThree
    <3> QED
      BY <3>1, <3>2, <3>3
  <2>2. CASE n = 2
    <3>1. Log!Cardinality(Log!Changed({4, 3, 2}, Log!bids_update, n)) <= 3
      BY <2>2, UpdateBids, AtMostThree
    <3> QED
      BY <1>1, <2>2, <3>1
  <2> QED
    BY <2>1, <2>2
<1>4. Log!InSteps({4, 3, 2}, Log!bids_update)
  BY <1>1, <1>2, <1>3 DEF Log!InSteps
<1>5. Log!InSteps({7, 8, 9}, << >>)
  BY DEF Log!InSteps
<1> QED
  BY <1>4, <1>5

\* The handler of vwap, for the two updates there are.
LEMMA PrintImage ==
    ASSUME market_by_price = << >>, Log!print_line(Log!image)
    PROVE  /\ printed' = Append(printed, ImageLine)
           /\ DOMAIN market_by_price' = {Log!SYMBOL}
           /\ market_by_price'[Log!SYMBOL] = ImageBook
<1>1. /\ Log!image.update_type = "SNAPSHOT" /\ Log!image.symbol = Log!SYMBOL
      /\ Log!image.bids = Log!bids_image /\ Log!image.asks = Log!asks_image
  BY DEF Log!image, Log!MarketByPrice
<1>2. Len(Log!bids_image) = 3 /\ Len(Log!asks_image) = 3
  BY DEF Log!bids_image, Log!asks_image
<1>3. \A book : Log!Base(Log!image, book) = Log!EmptySides
  BY <1>1 DEF Log!Base
<1>4. Log!EmptySides.bids = {} /\ Log!EmptySides.asks = {}
  BY DEF Log!EmptySides
<1>5. /\ Log!Changed({}, Log!bids_image, 3) = {4, 3, 2}
      /\ Log!Changed({}, Log!asks_image, 3) = {7, 8, 9}
  BY ImageBids, ImageAsks
<1>6. DOMAIN market_by_price = {}
  OBVIOUS
<1>7. /\ market_by_price' = [s \in DOMAIN market_by_price \union {Log!SYMBOL} |->
                               IF s = Log!SYMBOL THEN ImageBook ELSE market_by_price[s]]
      /\ printed' = Append(printed, [update |-> Log!image, book |-> ImageBook])
  BY <1>1, <1>2, <1>3, <1>4, <1>5 DEF Log!print_line, ImageBook
<1> QED
  BY <1>6, <1>7 DEF ImageLine

LEMMA PrintUpdate ==
    ASSUME DOMAIN market_by_price = {Log!SYMBOL}, market_by_price[Log!SYMBOL] = ImageBook,
           Log!print_line(Log!update)
    PROVE  /\ printed' = Append(printed, UpdateLine)
           /\ DOMAIN market_by_price' = {Log!SYMBOL}
           /\ market_by_price'[Log!SYMBOL] = UpdateBook
<1>1. /\ Log!update.update_type = "INCREMENTAL" /\ Log!update.symbol = Log!SYMBOL
      /\ Log!update.bids = Log!bids_update /\ Log!update.asks = << >>
  BY DEF Log!update, Log!MarketByPrice
<1>2. Len(Log!bids_update) = 2 /\ Len(<< >>) = 0
  BY DEF Log!bids_update
<1>3. Log!Base(Log!update, Log!get_market_by_price(Log!SYMBOL)) = ImageBook
  BY <1>1 DEF Log!Base, Log!get_market_by_price
<1>4. ImageBook.bids = {4, 3, 2} /\ ImageBook.asks = {7, 8, 9}
  BY DEF ImageBook
<1>5. /\ Log!Changed({4, 3, 2}, Log!bids_update, 2) = {3, 2, 1}
      /\ Log!Changed({7, 8, 9}, << >>, 0) = {7, 8, 9}
  BY UpdateBids, ChangedFirst
<1>6. /\ market_by_price' = [s \in DOMAIN market_by_price \union {Log!SYMBOL} |->
                               IF s = Log!SYMBOL THEN UpdateBook ELSE market_by_price[s]]
      /\ printed' = Append(printed, [update |-> Log!update, book |-> UpdateBook])
  BY <1>1, <1>2, <1>3, <1>4, <1>5 DEF Log!print_line, UpdateBook
<1> QED
  BY <1>6 DEF UpdateLine

\* The fourth and the fifth message are the only prices.
LEMMA MessageKinds ==
    /\ Log!Dispatched[4].message = Log!image /\ Log!Dispatched[5].message = Log!update
    /\ \A i \in 1..3 : ~Log!handles(Log!Dispatched[i].message)
    /\ Log!handles(Log!image) /\ Log!handles(Log!update)
<1>1. /\ Log!Dispatched[1].message.kind = "GatewaySettings"
      /\ Log!Dispatched[2].message.kind = "ReferenceData"
      /\ Log!Dispatched[3].message.kind = "MarketStatus"
  BY DEF Log!Dispatched, Log!GatewaySettings
<1>2. Log!Dispatched[4].message = Log!image /\ Log!Dispatched[5].message = Log!update
  BY DEF Log!Dispatched
<1>3. Log!handles(Log!image) /\ Log!handles(Log!update)
  BY DEF Log!handles, Log!image, Log!update, Log!MarketByPrice
<1> QED
  BY <1>1, <1>2, <1>3 DEF Log!handles

LEMMA SecondAppended ==
    ASSUME NEW S, NEW s \in Seq(S), NEW e \in S, Len(s) = 1
    PROVE  /\ Append(s, e) \in Seq(S) /\ Len(Append(s, e)) = 2
           /\ Append(s, e)[1] = s[1] /\ Append(s, e)[2] = e
<1>1. \A i \in 1..Len(s) : Append(s, e)[i] = s[i]
  BY ONLY AppendProperties, s \in Seq(S), e \in S
<1>2. Append(s, e) \in Seq(S) /\ Len(Append(s, e)) = Len(s) + 1
  BY ONLY AppendProperties, s \in Seq(S), e \in S
<1>3. Append(s, e)[Len(s) + 1] = e
  BY ONLY AppendProperties, s \in Seq(S), e \in S
<1>4. 1 \in 1..Len(s) /\ Len(s) + 1 = 2
  OBVIOUS
<1> QED
  BY <1>1, <1>2, <1>3, <1>4

LEMMA VwapStep ==
    ASSUME LogInv, Log!vwap_dispatch PROVE Lines'
<1>1. /\ read \in 0..Len(log) /\ read < Len(log) /\ read' = read + 1 /\ log' = log
  BY DEF LogInv, Lines, Log!vwap_dispatch
<1>0. IsStream(log) /\ Len(log) \in Nat /\ read \in Nat /\ read < 5
  <2>1. IsStream(log)
    BY DEF LogInv
  <2>2. Len(log) \in Nat /\ Len(log) <= 5
    BY <2>1 DEF IsStream
  <2> QED
    BY <1>1, <2>1, <2>2
<1> DEFINE u == log[read + 1].value
<1>2. u = Log!Dispatched[read + 1].message
  <2>1. log[read + 1] = Written(read + 1)
    BY <1>0, <1>1 DEF IsStream
  <2> QED
    BY <2>1 DEF Written
<1>3. IF Log!handles(u) THEN Log!print_line(u) ELSE UNCHANGED <<market_by_price, printed>>
  BY DEF Log!vwap_dispatch
<1> HIDE DEF u
<1>4. CASE read \in 0..2
  <2>1. UNCHANGED <<market_by_price, printed>>
    BY <1>2, <1>3, <1>4, MessageKinds
  <2> QED
    BY <1>1, <1>4, <2>1 DEF LogInv, Lines
<1>5. CASE read = 3
  <2>1. u = Log!image
    BY <1>2, <1>5, MessageKinds
  <2>2. Log!print_line(Log!image) /\ market_by_price = << >>
    BY <1>3, <1>5, <2>1, MessageKinds DEF LogInv, Lines
  <2>3. /\ printed' = Append(printed, ImageLine) /\ DOMAIN market_by_price' = {Log!SYMBOL}
        /\ market_by_price'[Log!SYMBOL] = ImageBook
    BY <2>2, PrintImage
  <2> QED
    BY <1>0, <1>1, <1>5, <2>3 DEF LogInv, Lines
<1>6. CASE read = 4
  <2>1. u = Log!update
    BY <1>2, <1>6, MessageKinds
  <2>2. /\ Log!print_line(Log!update)
        /\ DOMAIN market_by_price = {Log!SYMBOL} /\ market_by_price[Log!SYMBOL] = ImageBook
    BY <1>3, <1>6, <2>1, MessageKinds DEF LogInv, Lines
  <2>3. /\ printed' = Append(printed, UpdateLine) /\ DOMAIN market_by_price' = {Log!SYMBOL}
        /\ market_by_price'[Log!SYMBOL] = UpdateBook
    BY <2>2, PrintUpdate
  <2>4. read' = 5 /\ printed \in Seq({ImageLine, UpdateLine}) /\ Len(printed) = 1
        /\ printed[1] = ImageLine /\ read' \in 0..Len(log')
    BY <1>0, <1>1, <1>6 DEF LogInv, Lines
  <2>5. /\ printed' \in Seq({ImageLine, UpdateLine}) /\ Len(printed') = 2
        /\ printed'[1] = ImageLine /\ printed'[2] = UpdateLine
    <3> DEFINE S == {ImageLine, UpdateLine}
               l == UpdateLine
    <3>1. l \in S /\ printed \in Seq(S) /\ Len(printed) = 1 /\ printed' = Append(printed, l)
      BY <2>3, <2>4
    <3> HIDE DEF S, l
    <3>2. printed' \in Seq(S) /\ Len(printed') = 2 /\ printed'[1] = printed[1] /\ printed'[2] = l
      BY <3>1, SecondAppended
    <3> QED
      BY <2>4, <3>2 DEF S, l
  <2> QED
    BY <2>3, <2>4, <2>5 DEF Lines
<1> QED
  BY <1>0, <1>4, <1>5, <1>6

LEMMA EventStreamStep ==
    ASSUME LogInv, Log!Next PROVE LogInv'
<1>1. CASE Log!process
  <2> DEFINE d == Log!Dispatched[seqno + 1]
             event == [info |-> Log!create_message_info(d.time), value |-> d.message]
  <2>1. /\ seqno \in 0..4 /\ seqno' = seqno + 1
        /\ UNCHANGED <<closed, log, complete, pc, updates, handled, read, market_by_price, printed>>
        /\ \/ ~failed /\ file' = Append(file, event) /\ UNCHANGED failed
           \/ failed' = TRUE /\ UNCHANGED file
    BY <1>1, FiveMessages DEF Log!process, Log!vwapVars, LogInv
  <2>2. event = Written(seqno + 1)
    BY DEF Log!create_message_info, Written
  <2> HIDE DEF event
  <2>3. CASE ~failed /\ file' = Append(file, event) /\ UNCHANGED failed
    <3>1. IsStream(file') /\ Len(file') = Len(file) + 1 /\ Len(file) = seqno
      BY <2>1, <2>2, <2>3, StreamGrows DEF LogInv
    <3> QED
      BY <2>1, <2>3, <3>1 DEF LogInv, Lines, IsStream
  <2>4. CASE failed' = TRUE /\ UNCHANGED file
    BY <2>1, <2>4 DEF LogInv, Lines, IsStream
  <2> QED
    BY <2>1, <2>3, <2>4
<1>2. CASE Log!Close
  BY <1>2, FiveMessages DEF Log!Close, Log!vwapVars, LogInv, Lines
<1>3. CASE Log!Convert
  <2>1. /\ closed /\ Len(log) < Len(file) /\ log' = Append(log, file[Len(log) + 1])
        /\ UNCHANGED <<seqno, file, failed, closed, complete, pc, updates, handled,
                       read, market_by_price, printed>>
    BY <1>3 DEF Log!Convert, Log!vwapVars
  <2>2. Len(log) \in Nat /\ Len(file) \in Nat /\ Len(file) <= 5
    BY DEF LogInv, IsStream
  <2>3. file[Len(log) + 1] = Written(Len(log) + 1)
    BY <2>1, <2>2 DEF LogInv, IsStream
  <2>4. IsStream(log') /\ Len(log') = Len(log) + 1
    BY <2>1, <2>2, <2>3, StreamGrows DEF LogInv
  <2>5. ~complete
    BY <2>1, <2>2 DEF LogInv
  <2>6. Len(handled) \in Nat
    BY DEF LogInv, IsStream
  <2>7. Lines'
    BY <2>1, <2>2, <2>4 DEF LogInv, Lines
  <2> QED
    BY <2>1, <2>2, <2>4, <2>5, <2>6, <2>7 DEF LogInv
<1>4. CASE Log!ConvertEnd
  BY <1>4 DEF Log!ConvertEnd, Log!vwapVars, LogInv, Lines
<1>5. CASE Log!Test
  BY <1>5 DEF Log!Test, Log!WriterUnchanged, Log!finished, Log!vwapVars, LogInv, Lines
<1>6. CASE Log!Handle
  <2>1. /\ pc = "dispatch" /\ Len(handled) < Len(log) /\ UNCHANGED pc
        /\ handled' = Append(handled, log[Len(handled) + 1])
        /\ UNCHANGED <<seqno, file, failed, closed, log, complete, read, market_by_price, printed>>
    BY <1>6 DEF Log!Handle, Log!WriterUnchanged, Log!vwapVars
  <2>2. Len(log) \in Nat /\ Len(handled) \in Nat /\ Len(log) <= 5
    BY DEF LogInv, IsStream
  <2>3. log[Len(handled) + 1] = Written(Len(handled) + 1)
    BY <2>1, <2>2 DEF LogInv, IsStream
  <2>4. IsStream(handled') /\ Len(handled') = Len(handled) + 1
    BY <2>1, <2>2, <2>3, StreamGrows DEF LogInv
  <2> QED
    BY <2>1, <2>2, <2>4 DEF LogInv, Lines
<1>7. CASE Log!NoUpdate \/ Log!Wake
  BY <1>7 DEF Log!NoUpdate, Log!Wake, Log!WriterUnchanged, Log!vwapVars, LogInv, Lines
<1>8. CASE Log!vwap_dispatch
  BY <1>8, VwapStep DEF Log!vwap_dispatch, LogInv
<1>9. CASE Log!Done
  BY <1>9 DEF Log!Done, Log!vars, Log!vwapVars, LogInv, Lines
<1> QED
  BY <1>1, <1>2, <1>3, <1>4, <1>5, <1>6, <1>7, <1>8, <1>9 DEF Log!Next

LEMMA LogInvariant == SamplesSpec => []LogInv
<1>1. SamplesInit => LogInv
  <2> SUFFICES ASSUME Log!Init PROVE LogInv
    BY DEF SamplesInit
  <2>1. IsStream(<< >>)
    BY DEF IsStream
  <2> QED
    <3>1. Lines
      BY DEF Log!Init, Lines
    <3>2. failed \in BOOLEAN /\ closed \in BOOLEAN /\ complete \in BOOLEAN
      BY Zenon DEF Log!Init
    <3> QED
      BY <2>1, <3>1, <3>2 DEF Log!Init, LogInv
<1>2. LogInv /\ [SamplesNext]_samplesVars => LogInv'
  <2> SUFFICES ASSUME LogInv, [SamplesNext]_samplesVars PROVE LogInv'
    OBVIOUS
  <2>1. CASE Log!Next
    BY <2>1, EventStreamStep
  <2>2. CASE UNCHANGED logVars
    BY <2>2 DEF logVars, LogInv, Lines
  <2> QED
    BY <2>1, <2>2, StepOfOne
<1> QED
  BY <1>1, <1>2, PTL DEF SamplesSpec

LEMMA LinesKeepWord ==
    ASSUME LogInv, NEW n \in DOMAIN printed
    PROVE  LET u   == printed[n].update
               old == Log!Base(u, IF n = 1 THEN Log!EmptySides ELSE printed[n - 1].book)
           IN  /\ Log!InSteps(old.bids, u.bids) /\ Log!InSteps(old.asks, u.asks)
               /\ printed[n].book.bids # {} /\ printed[n].book.asks # {}
               /\ ~Log!Crossed(printed[n].book)
<1>1. /\ n \in 1..Len(printed) /\ Len(printed) \in 0..2
      /\ n = 1 => printed[n] = ImageLine
      /\ n = 2 => printed[n] = UpdateLine /\ printed[n - 1] = ImageLine
  <2>1. read \in 0..5
    BY DEF LogInv, Lines, IsStream
  <2>2. n \in 1..Len(printed) /\ Len(printed) \in 0..2
    BY <2>1 DEF LogInv, Lines
  <2> QED
    BY <2>2 DEF LogInv, Lines
<1>2. /\ ImageLine.update = Log!image /\ ImageLine.book = ImageBook
      /\ UpdateLine.update = Log!update /\ UpdateLine.book = UpdateBook
      /\ ImageBook.bids = {4, 3, 2} /\ ImageBook.asks = {7, 8, 9}
      /\ UpdateBook.bids = {3, 2, 1} /\ UpdateBook.asks = {7, 8, 9}
  BY DEF ImageLine, UpdateLine, ImageBook, UpdateBook
<1>3. ~Log!Crossed(ImageBook) /\ ~Log!Crossed(UpdateBook)
  BY <1>2 DEF Log!Crossed
<1>4. CASE n = 1
  <2>1. /\ Log!image.update_type = "SNAPSHOT"
        /\ Log!image.bids = Log!bids_image /\ Log!image.asks = Log!asks_image
    BY DEF Log!image, Log!MarketByPrice
  <2>2. \A b : Log!Base(Log!image, b).bids = {} /\ Log!Base(Log!image, b).asks = {}
    BY <2>1 DEF Log!Base, Log!EmptySides
  <2>3. printed[n] = ImageLine
    BY <1>1, <1>4
  <2> QED
    BY <1>2, <1>3, <2>1, <2>2, <2>3, ImageInSteps
<1>5. CASE n = 2
  <2>1. /\ Log!update.update_type = "INCREMENTAL"
        /\ Log!update.bids = Log!bids_update /\ Log!update.asks = << >>
    BY DEF Log!update, Log!MarketByPrice
  <2>2. \A b : Log!Base(Log!update, b) = b
    BY <2>1 DEF Log!Base
  <2>3. printed[n] = UpdateLine /\ printed[n - 1].book = ImageBook
    BY <1>1, <1>2, <1>5
  <2>4. Log!Base(printed[n].update, IF n = 1 THEN Log!EmptySides ELSE printed[n - 1].book) = ImageBook
    BY <1>2, <1>5, <2>2, <2>3
  <2> QED
    BY <1>2, <1>3, <2>1, <2>3, <2>4, UpdateInSteps
<1> QED
  BY <1>1, <1>4, <1>5

\* import, event-log and vwap: whichever writes fail, a reader gets the settings first,
\* then what they promise: numbers and times increase, prices begin with a snapshot, and
\* change by change no absent level is removed, no side outgrows its depth and the sides
\* do not cross.
THEOREM StreamKeepsItsWordHolds == SamplesSpec => []StreamKeepsItsWord
<1>1. LogInv => StreamKeepsItsWord
  <2> SUFFICES ASSUME LogInv PROVE StreamKeepsItsWord
    OBVIOUS
  <2> DEFINE D(i) == Log!Dispatched[i].message
  <2>1. /\ D(1) = Log!GatewaySettings /\ D(1).kind # "MarketByPriceUpdate"
        /\ D(2).kind = "ReferenceData" /\ D(3).kind = "MarketStatus"
        /\ D(4).update_type = "SNAPSHOT" /\ D(4).kind = "MarketByPriceUpdate"
    BY DEF Log!Dispatched, Log!GatewaySettings, Log!image, Log!MarketByPrice
  <2>2. \A i \in 1..5 : Log!Dispatched[i].time = i
    BY DEF Log!Dispatched
  <2> HIDE DEF D
  <2>3. /\ Len(handled) \in Nat /\ Len(handled) <= 5 /\ handled \in Seq({Written(i) : i \in Messages})
        /\ \A i \in 1..Len(handled) : handled[i] = Written(i)
    BY DEF LogInv, IsStream
  <2>4. \A i \in 1..Len(handled) : handled[i].value = D(i) /\ handled[i].info.source_seqno = i
                                   /\ handled[i].info.receive_time = i
    <3> SUFFICES ASSUME NEW i \in 1..Len(handled)
                 PROVE  /\ handled[i].value = D(i) /\ handled[i].info.source_seqno = i
                        /\ handled[i].info.receive_time = i
      OBVIOUS
    <3>1. i \in 1..5 /\ handled[i] = Written(i)
      BY <2>3
    <3>2. Log!Dispatched[i].time = i
      BY <2>2, <3>1
    <3>3. /\ Written(i).value = D(i) /\ Written(i).info.source_seqno = i
          /\ Written(i).info.receive_time = Log!Dispatched[i].time
      BY DEF Written, D
    <3> QED
      BY <3>1, <3>2, <3>3
  <2>5. handled # << >> => handled[1].value = Log!GatewaySettings
    <3>1. handled # << >> => 1 \in 1..Len(handled)
      BY <2>3
    <3> QED
      BY <2>1, <2>4, <3>1
  <2>6. ASSUME NEW i \in 1..Len(handled), handled[i].value.kind = "MarketByPriceUpdate"
        PROVE  /\ \E j \in 1..(i - 1) : handled[j].value.kind = "ReferenceData"
               /\ \/ handled[i].value.update_type = "SNAPSHOT"
                  \/ \E j \in {k \in 1..Len(handled) :
                                 handled[k].value.kind = "MarketByPriceUpdate"} : j < i
    <3>1. i \in {4, 5}
      <4>1. i \in 1..5 /\ D(i).kind = "MarketByPriceUpdate"
        BY <2>3, <2>4, <2>6
      <4> QED
        BY <4>1, <2>1
    <3>2. 2 \in 1..(i - 1) /\ 2 \in 1..Len(handled) /\ handled[2].value.kind = "ReferenceData"
      BY <2>1, <2>3, <2>4, <3>1
    <3>3. CASE i = 4
      BY <2>1, <2>4, <3>2, <3>3
    <3>4. CASE i = 5
      <4>1. 4 \in 1..Len(handled) /\ handled[4].value.kind = "MarketByPriceUpdate"
        BY <2>1, <2>3, <2>4, <3>4
      <4> QED
        BY <3>2, <3>4, <4>1
    <3> QED
      BY <3>1, <3>3, <3>4
  <2>7. \A i, j \in 1..Len(handled) : i < j =>
          /\ handled[i].info.source_seqno < handled[j].info.source_seqno
          /\ handled[i].info.receive_time < handled[j].info.receive_time
    BY <2>4
  <2> QED
    BY <2>5, <2>6, <2>7, LinesKeepWord DEF StreamKeepsItsWord, Log!StreamKeepsItsWord
<1> QED
  BY <1>1, LogInvariant, PTL

\* event-log: dispatch returns only when the log is complete and every message of it
\* was handled, in order and once, wherever between the two loops the log grew or
\* ended; before that it has handled a beginning of the log.
THEOREM NothingMissed ==
    SamplesSpec => [](/\ \A i \in DOMAIN handled : i \in DOMAIN log /\ handled[i] = log[i]
                      /\ pc = "done" => complete /\ handled = log)
<1>1. ASSUME LogInv
      PROVE  /\ \A i \in DOMAIN handled : i \in DOMAIN log /\ handled[i] = log[i]
             /\ pc = "done" => complete /\ handled = log
  <2>1. /\ Len(handled) \in Nat /\ Len(log) \in Nat /\ Len(handled) <= Len(log)
        /\ DOMAIN handled = 1..Len(handled) /\ DOMAIN log = 1..Len(log)
        /\ \A i \in 1..Len(handled) : handled[i] = Written(i)
        /\ \A i \in 1..Len(log) : log[i] = Written(i)
    BY <1>1 DEF LogInv, IsStream
  <2>2. Len(handled) = Len(log) => handled = log
    <3> DEFINE E == {Written(i) : i \in Messages}
    <3>1. handled \in Seq(E) /\ log \in Seq(E)
      BY <1>1 DEF LogInv, IsStream
    <3> HIDE DEF E
    <3> QED
      BY <2>1, <3>1, SeqEqual
  <2> QED
    <3>1. pc = "done" => complete /\ Len(handled) = Len(log)
      BY <1>1 DEF LogInv
    <3>2. \A i \in DOMAIN handled : i \in DOMAIN log /\ handled[i] = log[i]
      BY <2>1
    <3> QED
      BY <2>2, <3>1, <3>2
<1> QED
  BY <1>1, LogInvariant, PTL

-----------------------------------------------------------------------------
(***************************************************************************)
(* example-5.                                                              *)
(***************************************************************************)

\* The flag is set before the join, and the thread ends only after it has seen it.
ProducerInv ==
    /\ main \in {"init", "events", "join", "stopped"}
    /\ thread \in {"none", "test", "enqueue", "sleep", "ended"}
    /\ terminating \in BOOLEAN
    /\ terminating <=> main = "join" \/ main = "stopped"
    /\ main = "init" <=> thread = "none"
    /\ thread = "ended" => terminating
    /\ main = "stopped" => thread = "ended"

\* How many steps the thread takes until it tests the flag, and ends.
StepsLeft(t) ==
    CASE t = "enqueue" -> 3 [] t = "sleep" -> 2 [] t = "test" -> 1 [] OTHER -> 0

\* While the main thread waits, each step of the other thread brings it nearer to its
\* end; once the join has returned nothing is enqueued any more.
Joining ==
    /\ main = "join" /\ thread' # thread => StepsLeft(thread') < StepsLeft(thread)
    /\ main = "stopped" => UNCHANGED <<thread, queue>>

LEMMA ProducerStep ==
    ASSUME ProducerInv, Example5!Next \/ UNCHANGED example5Vars
    PROVE  ProducerInv' /\ Joining
<1> USE DEF ProducerInv, Joining, StepsLeft
<1>1. CASE Example5!Start
  BY <1>1 DEF Example5!Start
<1>5. CASE Example5!Stop
  <2>1. terminating' \in BOOLEAN
    BY <1>5, Zenon DEF Example5!Stop
  <2> QED
    BY <1>5, <2>1 DEF Example5!Stop
<1>6. CASE Example5!Join
  BY <1>6 DEF Example5!Join, Example5!joined
<1>2. CASE Example5!CustomMessage
  BY <1>2 DEF Example5!CustomMessage
<1>3. CASE Example5!Test \/ Example5!Enqueue \/ Example5!Wake
  <2>1. CASE Example5!Test
    BY <2>1 DEF Example5!Test
  <2>2. CASE Example5!Enqueue
    BY <2>2 DEF Example5!Enqueue
  <2>3. CASE Example5!Wake
    BY <2>3 DEF Example5!Wake
  <2> QED
    BY <1>3, <2>1, <2>2, <2>3
<1>4. CASE UNCHANGED example5Vars
  BY <1>4 DEF example5Vars
<1> QED
  BY <1>1, <1>2, <1>3, <1>4, <1>5, <1>6 DEF Example5!Next, Example5!Stopped, Example5!vars, example5Vars

\* example-5: wherever the producer thread is when Stop sets the flag, the join waits
\* for a thread that has at most three steps left and takes no detour, and it returns
\* only when the thread has ended, after which nothing is enqueued.
THEOREM StopApproaches ==
    SamplesSpec => /\ [](main = "join" => terminating /\ thread # "none")
                   /\ [](main = "stopped" => thread = "ended")
                   /\ [][Joining]_samplesVars
<1>1. SamplesInit => ProducerInv
  <2> SUFFICES ASSUME Example5!Init PROVE ProducerInv
    BY DEF SamplesInit
  <2>1. terminating \in BOOLEAN /\ ~terminating
    BY Zenon DEF Example5!Init
  <2> QED
    BY <2>1 DEF Example5!Init, ProducerInv
<1>2. ProducerInv /\ [SamplesNext]_samplesVars => ProducerInv' /\ [Joining]_samplesVars
  BY ProducerStep, StepOfOne
<1>3. ProducerInv => /\ main = "join" => terminating /\ thread # "none"
                     /\ main = "stopped" => thread = "ended"
  BY DEF ProducerInv
<1> QED
  BY <1>1, <1>2, <1>3, PTL DEF SamplesSpec
=============================================================================
