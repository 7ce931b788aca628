----------------------------- MODULE MCSamples -----------------------------
(***************************************************************************)
(* The small samples and the rate limiter, each a process by itself:       *)
(* program says which one runs.  RateLimit is extended, the others are     *)
(* instantiated; every program takes the steps of its own module only.     *)
(***************************************************************************)
EXTENDS RateLimit, FiniteSets

CONSTANTS
    filter_symbols, Symbols, MaxSessions,
    REQUEST_FREQ, REQUEST_TIMEOUT, MaxRestTime,
    MaxQueue,
    MaxConnections,
    depth, Prices, Quantities,
    Matched, Mids, MaxVersion,
    DELAY_1, DELAY_2, COUNTDOWN, MaxReceive,
    Gateways, OrderIds, MaxCancels

\* Counts and times are natural numbers; the settings and the code's own constants
\* are of this kind.  Gateway 0 is the one that gets the requests of minimal.
ASSUME SamplesAssumption ==
    /\ MaxSessions \in Nat
    /\ REQUEST_FREQ \in Nat /\ REQUEST_TIMEOUT \in Nat /\ MaxRestTime \in Nat
    /\ MaxConnections \in Nat \ {0}
    /\ depth \in Nat /\ IsFiniteSet(Prices) /\ Prices \subseteq Int
    /\ Quantities \subseteq Nat /\ 0 \in Quantities
    /\ MaxVersion \in Nat
    /\ DELAY_1 \in Nat /\ DELAY_2 \in Nat /\ COUNTDOWN \in Nat /\ MaxReceive \in Nat
    /\ 0 \in Gateways /\ OrderIds \subseteq Nat /\ MaxCancels \in Nat \ {0}

VARIABLES
    program,
    sessions, next_session_id, sessions_to_remove, symbols, due, draining, conn, published, halted,
    rest_now, started, connected, state, next_request_time, rest_sent, pending,
    main, thread, terminating, queue,
    instrument, gateway, fatal,
    mbp_full, mbp_depth, fed, mismatch,
    data, version, downloading, link, mids, metrics, matrix,
    use_top_of_book, receive_time, next_request, countdown, order_id, account_downloading,
    tick_size, phase, first_price, requests, broken,
    ready, max_order_id, source, reported, orders, cancels, refused, ended,
    seqno, file, failed, closed, log, complete, pc, updates, handled,
    read, market_by_price, printed

Io == INSTANCE Sessions

Rest == INSTANCE RestClient WITH now <- rest_now, sent <- rest_sent, MaxTime <- MaxRestTime

Example5 == INSTANCE Producer

Example2 == INSTANCE Averages

Depth == INSTANCE DepthBook

Example7 == INSTANCE MatrixPublisher

Example8 == INSTANCE Countdown WITH downloading <- account_downloading

MinimalClient == INSTANCE Minimal

Log == INSTANCE EventStream

ioVars == <<sessions, next_session_id, sessions_to_remove, symbols, due, draining, conn,
            published, halted>>

restVars == <<rest_now, started, connected, state, next_request_time, rest_sent, pending>>

example5Vars == <<main, thread, terminating, queue>>

example2Vars == <<instrument, gateway, fatal>>

depthVars == <<mbp_full, mbp_depth, fed, mismatch>>

example7Vars == <<data, version, downloading, link, mids, metrics, matrix>>

example8Vars == <<use_top_of_book, receive_time, next_request, countdown, order_id,
                  account_downloading, tick_size, phase, first_price, requests, broken>>

minimalVars == <<ready, max_order_id, source, reported, orders, cancels, refused, ended>>

logVars == <<seqno, file, failed, closed, log, complete, pc, updates, handled,
             read, market_by_price, printed>>

limiterVars == <<now, history, sent, onEdge>>

samplesVars == <<program, limiterVars, ioVars, restVars, example5Vars, example2Vars, depthVars,
                 example7Vars, example8Vars, minimalVars, logVars>>

Programs == {"maker", "io_context", "rest", "example_5", "example_2", "depth", "example_7",
             "example_8", "minimal", "event_log"}

SamplesInit ==
    /\ program \in Programs
    /\ Init /\ Io!Init /\ Rest!Init /\ Example5!Init /\ Example2!Init /\ Depth!Init
    /\ Example7!Init /\ Example8!Init /\ MinimalClient!Init /\ Log!Init
    /\ program # "example_8" => use_top_of_book

Others(name) ==
    /\ program = name
    /\ UNCHANGED program
    /\ name # "maker" => UNCHANGED limiterVars
    /\ name # "io_context" => UNCHANGED ioVars
    /\ name # "rest" => UNCHANGED restVars
    /\ name # "example_5" => UNCHANGED example5Vars
    /\ name # "example_2" => UNCHANGED example2Vars
    /\ name # "depth" => UNCHANGED depthVars
    /\ name # "example_7" => UNCHANGED example7Vars
    /\ name # "example_8" => UNCHANGED example8Vars
    /\ name # "minimal" => UNCHANGED minimalVars
    /\ name # "event_log" => UNCHANGED logVars

IoStep(A) == Others("io_context") /\ A

Example5Step(A) == Others("example_5") /\ A

LogStep(A) == Others("event_log") /\ A

SamplesNext ==
    \/ Others("maker") /\ Next
    \/ IoStep(Io!Next)
    \/ Others("rest") /\ Rest!Next
    \/ Example5Step(Example5!Next)
    \/ Others("example_2") /\ Example2!Next
    \/ Others("depth") /\ Depth!Next
    \/ Others("example_7") /\ Example7!Next
    \/ Others("example_8") /\ Example8!Next
    \/ Others("minimal") /\ MinimalClient!Next
    \/ LogStep(Log!Next)

\* The client library calls the timer again and again, draining comes to an end but
\* not before what is ready was delivered, and time passes; both threads of example 5
\* and the reader of a log run on.
Fairness ==
    /\ WF_samplesVars(IoStep(Io!Timer)) /\ WF_samplesVars(IoStep(Io!Drained))
    /\ SF_samplesVars(IoStep(Io!Elapse))
    /\ \A id \in Io!Ids : SF_samplesVars(IoStep(Io!Disconnected(id)))
    /\ WF_samplesVars(Example5Step(Example5!Join))
    /\ WF_samplesVars(Example5Step(Example5!Test \/ Example5!Enqueue \/ Example5!Wake))
    /\ WF_samplesVars(LogStep(Log!Test \/ Log!Handle \/ Log!NoUpdate \/ Log!Wake))

SamplesSpec == SamplesInit /\ [][SamplesNext]_samplesVars /\ Fairness

-----------------------------------------------------------------------------
\* See Sessions: the session of a connection that can call back exists.
SessionAlive == Io!SessionAlive

\* See Sessions: a session whose connection was closed is destroyed in the end.
ZombiesRemoved == Io!ZombiesRemoved

\* See RestClient: requests keep their distance, also after an outage.
RequestsSpaced == Rest!RequestsSpaced

\* See Producer: the join in Stop returns.
StopReturns == Example5!StopReturns

\* See Averages: an average mixes no prices of two connections.
AverageIsCurrent == Example2!AverageIsCurrent

\* See DepthBook: the limited book is the top of the full book.
DepthIsTop == Depth!DepthIsTop

\* See MatrixPublisher: a published matrix holds the last mid prices.
RowsAreHistory == Example7!RowsAreHistory

\* See Countdown: orders keep their distance and their number.
OrdersPaced == Example8!OrdersPaced

\* See Minimal: ready_ means that requests can be sent with a fresh order id.
ReadyIsSafe == MinimalClient!ReadyIsSafe

\* See EventStream: the imported stream keeps the promises of its first message.
StreamKeepsItsWord == Log!StreamKeepsItsWord

\* See EventStream: the reader misses nothing and ends.
LogIsRead == Log!LogIsRead
=============================================================================
