------------------------------ MODULE Producer ------------------------------
(***************************************************************************)
(* roq::samples::example_5: Producer, a thread that enqueues a message for *)
(* the strategy every 100 ms, started and stopped by the strategy's        *)
(* handlers.  The two threads share an atomic flag and the dispatcher's    *)
(* queue, which is external and taken not to block.                        *)
(***************************************************************************)
EXTENDS Integers

CONSTANT MaxQueue    \* bound: messages enqueued and not yet handled

VARIABLES
    main,            \* where the main thread is
    thread,          \* where the producer thread is
    terminating,     \* Producer::terminating_
    queue            \* messages enqueued and not yet handled

vars == <<main, thread, terminating, queue>>

Init == main = "init" /\ thread = "none" /\ terminating = FALSE /\ queue = 0

\* Event<Start> creates the thread.
Start ==
    /\ main = "init" /\ thread = "none" /\ ~terminating
    /\ main' = "events" /\ thread' = "test"
    /\ UNCHANGED <<terminating, queue>>

Stop_joins_first ==
    /\ main = "events"
    /\ main' = "join"
    /\ UNCHANGED <<thread, terminating, queue>>

\* Event<Stop>: the flag first, then the join.
Stop ==
    /\ main = "events" /\ thread # "none" /\ ~terminating
    /\ terminating' = TRUE /\ main' = "join"
    /\ UNCHANGED <<thread, queue>>

\* (*thread_).join() returns when the thread has ended.
joined == thread = "ended"

Join ==
    /\ main = "join" /\ joined
    /\ main' = "stopped"
    /\ UNCHANGED <<thread, terminating, queue>>

\* The strategy handles a message; no event is dispatched after Stop.
CustomMessage ==
    /\ main = "events" /\ queue > 0
    /\ queue' = queue - 1
    /\ UNCHANGED <<main, thread, terminating>>

\* run(): the test of the loop, the message and the sleep.
Test ==
    /\ thread = "test"
    /\ thread' = IF terminating THEN "ended" ELSE "enqueue"
    /\ UNCHANGED <<main, terminating, queue>>

Enqueue ==
    /\ thread = "enqueue"
    /\ queue' = IF queue < MaxQueue THEN queue + 1 ELSE queue
    /\ thread' = "sleep"
    /\ UNCHANGED <<main, terminating>>

Wake ==
    /\ thread = "sleep"
    /\ thread' = "test"
    /\ UNCHANGED <<main, terminating, queue>>

Stopped == main = "stopped" /\ thread = "ended" /\ UNCHANGED vars

Next == Start \/ Stop \/ Join \/ CustomMessage \/ Test \/ Enqueue \/ Wake \/ Stopped

-----------------------------------------------------------------------------
\* The join returns, wherever the thread is when the flag is set.
StopReturns == main = "join" ~> main = "stopped"
=============================================================================
