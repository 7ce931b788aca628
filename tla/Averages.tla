------------------------------ MODULE Averages ------------------------------
(***************************************************************************)
(* roq::samples::example_2: two Instruments, one per gateway, each with a  *)
(* cache of the market's state, a ready flag and a moving average of the   *)
(* mid price.  A disconnect must start the average afresh.  Prices do not  *)
(* matter, their origin does: an average is the set of the connections its *)
(* samples come from, the empty set standing for NaN.                      *)
(***************************************************************************)
EXTENDS Integers

CONSTANT MaxConnections   \* bound: the number of a connection is used again after so many

Sources == {0, 1}         \* futures_, cash_

VARIABLES
    instrument,           \* instrument[s]: the Instrument fed by source s
    gateway,              \* gateway[s]: the connection to source s
    fatal                 \* log::fatal was called

vars == <<instrument, gateway, fatal>>

NewInstrument ==
    [connected |-> FALSE, download |-> FALSE, sizes |-> FALSE,
     multiplier |-> FALSE, trading_status |-> "UNDEFINED", market_data |-> FALSE,
     avg_price |-> {}, ready |-> FALSE]

Init ==
    /\ instrument = [s \in Sources |-> NewInstrument]
    /\ gateway = [s \in Sources |-> [phase |-> "down", count |-> 0]]
    /\ fatal = FALSE

-----------------------------------------------------------------------------
(***************************************************************************)
(* Instrument.  sizes says that tick_size_ and min_trade_vol_ are both     *)
(* positive, multiplier that multiplier_ is: NaN is not.                   *)
(***************************************************************************)

check_ready(i) ==
    [i EXCEPT !.ready = /\ i.connected /\ ~i.download
                        /\ i.sizes /\ i.multiplier
                        /\ i.trading_status = "OPEN" /\ i.market_data]

reset_keeps_average(i) ==
    [NewInstrument EXCEPT !.multiplier = i.multiplier, !.avg_price = i.avg_price]

\* All but the multiplier (and the depth array, which is written before it is read).
reset(i) == [NewInstrument EXCEPT !.multiplier = i.multiplier]

\* The sample is of the book of the current connection: reset cleared the book.
update_model(s) ==
    LET i == instrument[s] IN
    [i EXCEPT !.avg_price = @ \union {gateway[s].count}]

-----------------------------------------------------------------------------
(***************************************************************************)
(* The event handlers.  Strategy::dispatch hands an event to the           *)
(* instrument of its source.                                               *)
(***************************************************************************)

Event(s, phases) == ~fatal /\ gateway[s].phase \in phases

dispatch(s, i) ==
    /\ instrument' = [instrument EXCEPT ![s] = i]
    /\ UNCHANGED fatal

To(s, phase) == gateway' = [gateway EXCEPT ![s].phase = phase]

Connected(s) ==
    /\ Event(s, {"down"})
    /\ gateway' = [gateway EXCEPT ![s] = [phase |-> "connected",
                                          count |-> (@.count % MaxConnections) + 1]]
    /\ dispatch(s, check_ready([instrument[s] EXCEPT !.connected = TRUE]))

Disconnected(s) ==
    /\ Event(s, {"connected", "download", "live"})
    /\ To(s, "down")
    /\ dispatch(s, reset(instrument[s]))

\* Downloads and statuses of an account are ignored.
AccountEvent(s) == Event(s, {"live"}) /\ UNCHANGED vars

DownloadBegin(s) ==
    /\ Event(s, {"connected"})
    /\ To(s, "download")
    /\ dispatch(s, [instrument[s] EXCEPT !.download = TRUE])

DownloadEnd(s) ==
    /\ Event(s, {"download"})
    /\ To(s, "live")
    /\ dispatch(s, check_ready([instrument[s] EXCEPT !.download = FALSE]))

GatewayStatus(s) ==
    /\ Event(s, {"download", "live"})
    /\ \E market_data \in BOOLEAN :
        dispatch(s, check_ready([instrument[s] EXCEPT !.market_data = market_data]))
    /\ UNCHANGED gateway

\* The fields are copied as they are, missing and zero ones too.
ReferenceData(s) ==
    /\ Event(s, {"download", "live"})
    /\ \E sizes, multiplier \in BOOLEAN :
        dispatch(s, check_ready([instrument[s] EXCEPT !.sizes = sizes, !.multiplier = multiplier]))
    /\ UNCHANGED gateway

MarketStatus(s) ==
    /\ Event(s, {"download", "live"})
    /\ \E status \in {"OPEN", "HALT"} :
        dispatch(s, check_ready([instrument[s] EXCEPT !.trading_status = status]))
    /\ UNCHANGED gateway

\* The top of the book after the update: without depth or with one side only there
\* is no sample, a crossed one is fatal.
MarketByPriceUpdate(s) ==
    /\ Event(s, {"download", "live"})
    /\ \E top \in {"empty", "one_sided", "crossed", "normal"} :
        LET model == top # "empty" /\ instrument[s].ready
        IN  /\ fatal' = (model /\ top = "crossed")
            /\ instrument' = IF model /\ top = "normal"
                             THEN [instrument EXCEPT ![s] = update_model(s)]
                             ELSE instrument
    /\ UNCHANGED gateway

Ended == fatal /\ UNCHANGED vars

Next ==
    \/ \E s \in Sources :
        \/ Connected(s) \/ Disconnected(s) \/ AccountEvent(s)
        \/ DownloadBegin(s) \/ DownloadEnd(s) \/ GatewayStatus(s)
        \/ ReferenceData(s) \/ MarketStatus(s) \/ MarketByPriceUpdate(s)
    \/ Ended

-----------------------------------------------------------------------------
\* A moving average mixes no prices of two connections, and an instrument that is
\* ready has finished its download: across any sequence of disconnects, downloads
\* and status changes, and with the other instrument at work.
AverageIsCurrent ==
    \A s \in Sources :
        /\ instrument[s].avg_price \subseteq {gateway[s].count}
        /\ gateway[s].phase = "down" => instrument[s].avg_price = {}
        /\ instrument[s].ready => gateway[s].phase = "live"
=============================================================================
