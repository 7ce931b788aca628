---------------------------- MODULE EventStream ----------------------------
(***************************************************************************)
(* roq::samples::import writes a stream of messages to a file, the tool    *)
(* roq-import (external) turns the file into an event log,                 *)
(* roq::samples::event_log tails that log and roq::samples::vwap reads it  *)
(* once.  They are processes of their own.  Prices are in steps of 0.005   *)
(* above 99.765.                                                           *)
(***************************************************************************)
EXTENDS Integers, Sequences, FiniteSets

VARIABLES
    seqno, file,      \* import: Processor::seqno_ and what was written
    failed,           \* the file's stream is bad; nobody looks
    closed,           \* the file was closed
    log, complete,    \* the event log, and that nothing will be added to it
    pc, updates,      \* event_log: where dispatch is, and its local variable
    handled,          \* the messages its handlers have got
    read,             \* vwap: how many messages its reader has handed over
    market_by_price,  \* vwap: Processor::market_by_price_, the books by symbol
    printed           \* vwap: the update and the book behind each line it has printed

vwapVars == <<read, market_by_price, printed>>

vars == <<seqno, file, failed, closed, log, complete, pc, updates, handled, vwapVars>>

Init ==
    /\ seqno = 0 /\ file = << >> /\ failed = FALSE /\ closed = FALSE
    /\ log = << >> /\ complete = FALSE
    /\ pc = "test" /\ updates = FALSE /\ handled = << >>
    /\ read = 0 /\ market_by_price = << >> /\ printed = << >>

-----------------------------------------------------------------------------
(***************************************************************************)
(* import.                                                                 *)
(***************************************************************************)

MBPUpdate(price, quantity) == [price |-> price, quantity |-> quantity]

SYMBOL == "symbol"

MarketByPrice(type, bids, asks) ==
    [kind |-> "MarketByPriceUpdate", symbol |-> SYMBOL, update_type |-> type,
     bids |-> bids, asks |-> asks]

GatewaySettings ==
    [kind |-> "GatewaySettings", mbp_max_depth |-> 3, mbp_allow_remove_non_existing |-> FALSE,
     mbp_allow_price_inversion |-> FALSE]

bids_image == <<MBPUpdate(4, 3), MBPUpdate(3, 2), MBPUpdate(2, 1)>>

asks_image == <<MBPUpdate(7, 3), MBPUpdate(8, 2), MBPUpdate(9, 1)>>

bids_update_new_first == <<MBPUpdate(1, 2), MBPUpdate(4, 0)>>

\* Remove the best price, then introduce a new one.
bids_update == <<MBPUpdate(4, 0), MBPUpdate(1, 2)>>

image == MarketByPrice("SNAPSHOT", bids_image, asks_image)

update == MarketByPrice("INCREMENTAL", bids_update, << >>)

\* What dispatch() hands to process(), each with its timestamp.
Dispatched == <<
    [message |-> GatewaySettings, time |-> 1],
    [message |-> [kind |-> "ReferenceData"], time |-> 2],
    [message |-> [kind |-> "MarketStatus", trading_status |-> "OPEN"], time |-> 3],
    [message |-> image, time |-> 4],
    [message |-> update, time |-> 5] >>

create_message_info(time) == [source_seqno |-> seqno + 1, receive_time |-> time]

\* The encoding of the settings is not consulted: the file is always binary.
process ==
    /\ seqno < Len(Dispatched)
    /\ seqno' = seqno + 1
    /\ LET d == Dispatched[seqno + 1]
           event == [info |-> create_message_info(d.time), value |-> d.message]
       IN  \/ ~failed /\ file' = Append(file, event) /\ UNCHANGED failed
           \/ failed' = TRUE /\ UNCHANGED file
    /\ UNCHANGED <<closed, log, complete, pc, updates, handled, vwapVars>>

Close ==
    /\ seqno = Len(Dispatched) /\ ~closed
    /\ closed' = TRUE
    /\ UNCHANGED <<seqno, file, failed, log, complete, pc, updates, handled, vwapVars>>

-----------------------------------------------------------------------------
\* roq-import reads the closed file; the log grows while it works.
Convert ==
    /\ closed /\ Len(log) < Len(file)
    /\ log' = Append(log, file[Len(log) + 1])
    /\ UNCHANGED <<seqno, file, failed, closed, complete, pc, updates, handled, vwapVars>>

ConvertEnd ==
    /\ closed /\ Len(log) = Len(file) /\ ~complete
    /\ complete' = TRUE
    /\ UNCHANGED <<seqno, file, failed, closed, log, pc, updates, handled, vwapVars>>

-----------------------------------------------------------------------------
(***************************************************************************)
(* event_log: the two loops of dispatch.  The log may grow, or end,        *)
(* between any two steps.                                                  *)
(***************************************************************************)

WriterUnchanged == UNCHANGED <<seqno, file, failed, closed, log, complete, vwapVars>>

\* EventLogReader::finished.
finished == complete /\ Len(handled) = Len(log)

Test ==
    /\ pc = "test"
    /\ pc' = IF finished THEN "done" ELSE "dispatch"
    /\ updates' = FALSE
    /\ UNCHANGED handled /\ WriterUnchanged

\* (*reader_).dispatch(*this) returns true: a handler has got the next message.
Handle ==
    /\ pc = "dispatch" /\ Len(handled) < Len(log)
    /\ handled' = Append(handled, log[Len(handled) + 1])
    /\ updates' = TRUE
    /\ UNCHANGED pc /\ WriterUnchanged

\* It returns false: test again at once or sleep first.
NoUpdate ==
    /\ pc = "dispatch" /\ Len(handled) = Len(log)
    /\ pc' = IF updates THEN "test" ELSE "sleep"
    /\ UNCHANGED <<updates, handled>> /\ WriterUnchanged

Wake_to_dispatch ==
    /\ pc = "sleep"
    /\ pc' = "dispatch"
    /\ UNCHANGED <<updates, handled>> /\ WriterUnchanged

Wake ==
    /\ pc = "sleep"
    /\ pc' = "test"
    /\ UNCHANGED <<updates, handled>> /\ WriterUnchanged

-----------------------------------------------------------------------------
(***************************************************************************)
(* vwap.                                                                   *)
(***************************************************************************)

\* All other handlers are empty.
handles(message) == message.kind = "MarketByPriceUpdate"

EmptySides == [bids |-> {}, asks |-> {}]

\* The book of a symbol, created when the symbol is first seen; the exchange is not
\* part of the key.
get_market_by_price(symbol) ==
    IF symbol \in DOMAIN market_by_price THEN market_by_price[symbol] ELSE EmptySides

\* cache::MarketByPrice (external): the prices of a side after the first n changes of a
\* message.  The last change of a price decides, and quantity 0 removes it.
Changed(prices, levels, n) ==
    LET removed(p) == \E i \in 1..n : /\ levels[i].price = p /\ levels[i].quantity = 0
                                      /\ \A j \in (i + 1)..n : levels[j].price # p
    IN  {p \in prices \union {levels[i].price : i \in 1..n} : ~removed(p)}

\* The book that an update applies to: a snapshot replaces what there was.
Base(u, book) == IF u.update_type = "SNAPSHOT" THEN EmptySides ELSE book

\* The handler of MarketByPriceUpdate: a line for the book after the update.
print_line(u) ==
    LET old  == Base(u, get_market_by_price(u.symbol))
        book == [bids |-> Changed(old.bids, u.bids, Len(u.bids)),
                 asks |-> Changed(old.asks, u.asks, Len(u.asks))]
    IN  /\ market_by_price' = [s \in DOMAIN market_by_price \union {u.symbol} |->
                                IF s = u.symbol THEN book ELSE market_by_price[s]]
        /\ printed' = Append(printed, [update |-> u, book |-> book])

\* The one call of the reader hands the messages over one by one, and may return
\* after any of them.
vwap_dispatch ==
    /\ read < Len(log)
    /\ read' = read + 1
    /\ LET u == log[read + 1].value
       IN  IF handles(u) THEN print_line(u) ELSE UNCHANGED <<market_by_price, printed>>
    /\ UNCHANGED <<seqno, file, failed, closed, log, complete, pc, updates, handled>>

Done == pc = "done" /\ closed /\ complete /\ UNCHANGED vars

Next ==
    \/ process \/ Close \/ Convert \/ ConvertEnd \/ Test \/ Handle \/ NoUpdate \/ Wake
    \/ vwap_dispatch \/ Done

-----------------------------------------------------------------------------
\* Change by change, a side keeps to what GatewaySettings says: no price is removed
\* that is not there, and there are never more than mbp_max_depth prices.
InSteps(prices, levels) ==
    \A n \in 1..Len(levels) :
        /\ levels[n].quantity = 0 => levels[n].price \in Changed(prices, levels, n - 1)
        /\ Cardinality(Changed(prices, levels, n)) <= GatewaySettings.mbp_max_depth

Crossed(book) == \E b \in book.bids, a \in book.asks : b >= a

\* What a reader of the log has got, at any moment and also after a failed write,
\* keeps the promises of its first message: GatewaySettings comes first, then the
\* reference data, numbers and times increase, the first prices are a snapshot, no
\* level is removed that is not there, a side never has more than mbp_max_depth
\* levels, not even between two changes of a message, and the book behind each line
\* that vwap prints has two sides, which do not cross.
StreamKeepsItsWord ==
    LET kind(i) == handled[i].value.kind
        prices == {i \in 1..Len(handled) : kind(i) = "MarketByPriceUpdate"}
    IN  /\ handled # << >> => handled[1].value = GatewaySettings
        /\ \A i \in prices :
            /\ \E j \in 1..(i - 1) : kind(j) = "ReferenceData"
            /\ handled[i].value.update_type = "SNAPSHOT" \/ \E j \in prices : j < i
        /\ \A i, j \in 1..Len(handled) : i < j =>
            /\ handled[i].info.source_seqno < handled[j].info.source_seqno
            /\ handled[i].info.receive_time < handled[j].info.receive_time
        /\ \A n \in DOMAIN printed :
            LET u   == printed[n].update
                old == Base(u, IF n = 1 THEN EmptySides ELSE printed[n - 1].book)
            IN  /\ InSteps(old.bids, u.bids) /\ InSteps(old.asks, u.asks)
                /\ printed[n].book.bids # {} /\ printed[n].book.asks # {}
                /\ ~Crossed(printed[n].book)

\* The reader misses nothing and ends: once the log is complete dispatch returns,
\* and it has handled the whole log, in order, although the log grew and ended
\* between its tests.
LogIsRead == complete ~> (pc = "done" /\ handled = log)
=============================================================================
