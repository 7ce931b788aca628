----------------------------- MODULE RestClient -----------------------------
(***************************************************************************)
(* roq::samples::rest: Controller, which polls a web service: whenever the *)
(* timer finds the client connected and REQUEST_FREQ has passed, it sends  *)
(* a request; answers, errors and timeouts come to a callback.  The web    *)
(* client, with its connection, pipelining and timeouts, is external.      *)
(***************************************************************************)
EXTENDS Integers, Sequences

CONSTANTS
    REQUEST_FREQ,      \* ticks between requests
    REQUEST_TIMEOUT,   \* ticks after which the client gives up on an answer
    MaxTime            \* bound: ticks

VARIABLES
    now,               \* message_info.origin_create_time, in ticks
    started,           \* the client has been started and not stopped
    connected,         \* the client has a connection
    state,             \* Controller::state_
    next_request_time, \* Controller::next_request_time_
    sent,              \* when each request was sent
    pending            \* the requests that wait for their callback, oldest first

vars == <<now, started, connected, state, next_request_time, sent, pending>>

Init ==
    /\ now = 1 /\ started = FALSE /\ connected = FALSE
    /\ state = "CONNECTED"   \* the first value of the enumeration
    /\ next_request_time = 0 /\ sent = << >> /\ pending = << >>

Start ==
    /\ ~started /\ sent = << >>
    /\ started' = TRUE
    /\ UNCHANGED <<now, connected, state, next_request_time, sent, pending>>

\* The client lets go of its connection; requests under way are answered with an error.
Stop ==
    /\ started
    /\ started' = FALSE /\ connected' = FALSE /\ pending' = << >>
    /\ state' = IF connected THEN "DISCONNECTED" ELSE state
    /\ UNCHANGED <<now, next_request_time, sent>>

Connected ==
    /\ started /\ ~connected
    /\ connected' = TRUE /\ state' = "CONNECTED"
    /\ UNCHANGED <<now, started, next_request_time, sent, pending>>

\* With the connection, what waits for an answer fails.
Disconnected ==
    /\ connected
    /\ connected' = FALSE /\ state' = "DISCONNECTED" /\ pending' = << >>
    /\ UNCHANGED <<now, started, next_request_time, sent>>

after_request_on_grid == next_request_time + REQUEST_FREQ

\* The next request is due this long after the present one.
after_request == now + REQUEST_FREQ

\* (*client_).refresh is true while there is a connection.
Timer ==
    /\ connected /\ next_request_time < now
    /\ next_request_time' = after_request
    /\ sent' = Append(sent, now) /\ pending' = Append(pending, now)
    /\ UNCHANGED <<now, started, connected, state>>

\* A callback, in the order of the requests; whatever it reports is logged.
Response ==
    /\ connected /\ pending # << >>
    /\ pending' = Tail(pending)
    /\ UNCHANGED <<now, started, connected, state, next_request_time, sent>>

\* A request that has timed out is answered before time goes on (external).
Tick ==
    /\ now < MaxTime
    /\ pending # << >> => now - Head(pending) < REQUEST_TIMEOUT
    /\ now' = now + 1
    /\ UNCHANGED <<started, connected, state, next_request_time, sent, pending>>

Stopped == ~started /\ sent # << >> /\ UNCHANGED vars

Next == Start \/ Stop \/ Connected \/ Disconnected \/ Timer \/ Response \/ Tick \/ Stopped

-----------------------------------------------------------------------------
\* Requests are more than REQUEST_FREQ apart, also after an outage in which the
\* time of several of them has passed, and a request is answered before the next.
RequestsSpaced ==
    /\ \A i \in 1..(Len(sent) - 1) : sent[i + 1] - sent[i] > REQUEST_FREQ
    /\ REQUEST_TIMEOUT <= REQUEST_FREQ => Len(pending) <= 1
=============================================================================
