-------------------------- MODULE MatrixPublisher --------------------------
(***************************************************************************)
(* roq::samples::example_7: Strategy publishes, for every top of book, a   *)
(* pair of metrics and a matrix with the last three mid prices, of all the *)
(* symbols that match its setting: the rows and the version are shared.    *)
(* A failed send is swallowed; the matrix goes on without it.              *)
(***************************************************************************)
EXTENDS Integers, Sequences

CONSTANTS
    Matched,         \* the symbols that match settings.symbol, a regular expression
    Mids,            \* mid prices
    MaxVersion       \* bound: top of book events that are not ignored

Rows == 1..3         \* the rows "0", "-1", "-2"

VARIABLES
    data, version, downloading,   \* Strategy members
    link,            \* the connection: "up", "lost" (not yet reported) or "down"
    mids,            \* the mid prices the strategy has seen, oldest first, with their symbols
    metrics, matrix  \* what the gateway got last: the version of the metrics (which do
                     \* not carry it); version, symbol and data of the matrix

vars == <<data, version, downloading, link, mids, metrics, matrix>>

Nothing == [version |-> 0, symbol |-> "", data |-> << >>]

\* data_ has no initializer: what its rows hold at first is any double.
Indeterminate == "indeterminate"

Init ==
    /\ data = [r \in Rows |-> Indeterminate] /\ version = 0 /\ downloading = FALSE
    /\ link = "down"
    /\ mids = << >> /\ metrics = 0 /\ matrix = Nothing

shift_right_after(row, mid) == [[row EXCEPT ![1] = mid] EXCEPT ![2] = mid, ![3] = row[2]]

\* std::shift_right by one, then the new value in front.
shift_right(row, mid) == <<mid, row[1], row[2]>>

\* The two sends: the first may get through and the second throw.
Sends(symbol, rows) ==
    \/ /\ link = "up"
       /\ metrics' = version + 1
       /\ matrix' = [version |-> version + 1, symbol |-> symbol, data |-> rows]
       /\ UNCHANGED link
    \/ /\ link = "up"
       /\ metrics' = version + 1 /\ link' = "lost"
       /\ UNCHANGED matrix
    \/ link # "up" /\ UNCHANGED <<metrics, matrix, link>>

\* settings.subscriber is false; a subscriber does nothing here.
TopOfBook ==
    /\ link # "down" /\ ~downloading
    /\ version < MaxVersion
    /\ \E symbol \in Matched, mid \in Mids :
        LET rows == shift_right(data, mid) IN
        /\ data' = rows
        /\ version' = version + 1
        /\ mids' = Append(mids, [symbol |-> symbol, price |-> mid])
        /\ Sends(symbol, rows)
    /\ UNCHANGED downloading

TopOfBookDownloaded == link # "down" /\ downloading /\ UNCHANGED vars

DownloadBegin ==
    /\ link = "down"
    /\ link' = "up" /\ downloading' = TRUE
    /\ UNCHANGED <<data, version, mids, metrics, matrix>>

DownloadEnd ==
    /\ link # "down" /\ downloading
    /\ downloading' = FALSE
    /\ UNCHANGED <<data, version, link, mids, metrics, matrix>>

\* The connection breaks; events received before it are still handled.
Lose ==
    /\ link = "up"
    /\ link' = "lost"
    /\ UNCHANGED <<data, version, downloading, mids, metrics, matrix>>

\* Disconnected is not handled: downloading_ stays as it is.
Disconnected ==
    /\ link = "lost"
    /\ link' = "down"
    /\ UNCHANGED <<data, version, downloading, mids, metrics, matrix>>

Next == TopOfBook \/ TopOfBookDownloaded \/ DownloadBegin \/ DownloadEnd \/ Lose \/ Disconnected

-----------------------------------------------------------------------------
\* A published matrix holds the mid prices of its version and of the versions before
\* it, also when sends in between failed: row k is the mid price k versions ago, as
\* soon as there were that many.  It is published for the symbol of the last one; the
\* others may be prices of other symbols.  The metrics are never behind the matrix.
RowsAreHistory ==
    /\ \A r \in Rows :
        matrix.version >= r => matrix.data[r] = mids[matrix.version - r + 1].price
    /\ matrix.version > 0 => matrix.symbol = mids[matrix.version].symbol
    /\ matrix.version <= metrics /\ metrics <= Len(mids)
=============================================================================
