------------------------------ MODULE Sessions ------------------------------
(***************************************************************************)
(* roq::samples::io_context: Controller, which accepts connections, runs   *)
(* the io context from its timer and publishes prices, and Session, the    *)
(* server side of one connection.  A session that is disconnected is only  *)
(* marked; a garbage collection, at most once a second and never inside    *)
(* the io context, destroys it.  The network and the web server, which     *)
(* call a Session as long as its connection lives, are external.           *)
(***************************************************************************)
EXTENDS Integers, FiniteSets

CONSTANTS
    filter_symbols,   \* settings.filter_symbols
    Symbols,          \* symbols that are traded and may be subscribed to
    MaxSessions       \* bound: connections accepted

VARIABLES
    sessions,         \* Controller::sessions_, the ids of the sessions that exist
    next_session_id,  \* Controller::next_session_id_
    sessions_to_remove, symbols,   \* Shared
    due,              \* now >= next_garbage_collection_
    draining,         \* context_.drain() is running
    conn,             \* conn[id]: the connection of session id
    published,        \* the symbol last sent over UDP
    halted            \* "no" or why the process ended

vars == <<sessions, next_session_id, sessions_to_remove, symbols, due, draining, conn,
          published, halted>>

Ids == 1..MaxSessions

\* "closing": the server or the peer has closed it and the session has not heard.
ConnStates == {"none", "http", "websocket", "closing", "closed"}

Init ==
    /\ sessions = {} /\ next_session_id = 0
    /\ sessions_to_remove = {} /\ symbols = {}
    /\ due = TRUE /\ draining = FALSE
    /\ conn = [id \in Ids |-> "none"]
    /\ published = "none" /\ halted = "no"

Running == halted = "no"

-----------------------------------------------------------------------------
(***************************************************************************)
(* Session.                                                                *)
(***************************************************************************)

\* An empty symbol, or one that is too long, is not valid.
validate_symbol(symbol) == symbol \in Symbols

Messages == [action : {"malformed", "", "subscribe", "unsubscribe", "other"},
             symbol : Symbols \union {""}]

\* Session::process_request: the symbols that are left, and whether the message
\* could be parsed.  The errors that are answered leave the symbols alone.
process_request(m) ==
    [parsed |-> m.action # "malformed",
     symbols |-> CASE m.action = "subscribe" /\ validate_symbol(m.symbol) -> symbols \union {m.symbol}
                   [] m.action = "unsubscribe" /\ validate_symbol(m.symbol) -> symbols \ {m.symbol}
                   [] OTHER -> symbols]

\* The io context calls the session of a connection only while it drains.
Called(id, states) == Running /\ draining /\ conn[id] \in states

SessionOnly == UNCHANGED <<sessions, next_session_id, sessions_to_remove, due, draining,
                           published, halted>>

Upgrade(id) ==
    /\ Called(id, {"http"})
    /\ conn' = [conn EXCEPT ![id] = "websocket"]
    /\ SessionOnly /\ UNCHANGED symbols

\* The connection is closed after the answer unless it is to be kept alive.
Request(id, m, keep_alive) ==
    /\ Called(id, {"http"})
    /\ symbols' = process_request(m).symbols
    /\ conn' = [conn EXCEPT ![id] = IF process_request(m).parsed /\ keep_alive THEN @ ELSE "closing"]
    /\ SessionOnly

Text(id, m) ==
    /\ Called(id, {"websocket"})
    /\ symbols' = process_request(m).symbols
    /\ conn' = [conn EXCEPT ![id] = IF process_request(m).parsed THEN @ ELSE "closing"]
    /\ SessionOnly

Binary(id) ==
    /\ Called(id, {"websocket"})
    /\ conn' = [conn EXCEPT ![id] = "closing"]
    /\ SessionOnly /\ UNCHANGED symbols

Disconnected(id) ==
    /\ Called(id, {"closing"})
    /\ conn' = [conn EXCEPT ![id] = "closed"]
    /\ sessions_to_remove' = sessions_to_remove \union {id}
    /\ UNCHANGED <<sessions, next_session_id, symbols, due, draining, published, halted>>

-----------------------------------------------------------------------------
(***************************************************************************)
(* Controller.                                                             *)
(***************************************************************************)

next_id_by_size == Cardinality(sessions) + 1

\* ++next_session_id_
next_id == next_session_id + 1

\* Listener: a connection is accepted.
Accept ==
    /\ Running /\ draining /\ next_session_id < MaxSessions
    /\ next_session_id' = next_session_id + 1
    /\ sessions' = sessions \union {next_id}
    /\ conn' = [conn EXCEPT ![next_id] = "http"]
    /\ UNCHANGED <<sessions_to_remove, symbols, due, draining, published, halted>>

\* Timer, first half: the io context starts to drain.
Timer ==
    /\ Running /\ ~draining
    /\ draining' = TRUE
    /\ UNCHANGED <<sessions, next_session_id, sessions_to_remove, symbols, due, conn,
                   published, halted>>

remove_zombies_forgets ==
    /\ due' = FALSE
    /\ sessions' = IF due THEN sessions \ sessions_to_remove ELSE sessions
    /\ sessions_to_remove' = {}

remove_zombies ==
    IF due THEN /\ due' = FALSE
                /\ sessions' = sessions \ sessions_to_remove
                /\ sessions_to_remove' = {}
           ELSE UNCHANGED <<due, sessions, sessions_to_remove>>

\* Timer, second half: nothing more is ready in the io context.
Drained ==
    /\ Running /\ draining
    /\ draining' = FALSE
    /\ remove_zombies
    /\ UNCHANGED <<next_session_id, symbols, conn, published, halted>>

\* A datagram that cannot be sent is only logged; one that is too large for the
\* sender's buffer is fatal.
send(symbol, outcome) ==
    /\ published' = IF outcome = "sent" THEN symbol ELSE published
    /\ halted' = IF outcome = "too large" THEN "sender" ELSE halted

\* A price is sent over UDP.
TopOfBook(symbol, outcome) ==
    /\ Running /\ ~draining
    /\ filter_symbols => symbol \in symbols
    /\ send(symbol, outcome)
    /\ UNCHANGED <<sessions, next_session_id, sessions_to_remove, symbols, due, draining, conn>>

\* The io context reports an error of the socket, which is fatal.
SenderError ==
    /\ Running /\ draining
    /\ halted' = "sender"
    /\ UNCHANGED <<sessions, next_session_id, sessions_to_remove, symbols, due, draining, conn,
                   published>>

\* A second passes.
Elapse ==
    /\ Running /\ ~due /\ ~draining
    /\ due' = TRUE
    /\ UNCHANGED <<sessions, next_session_id, sessions_to_remove, symbols, draining, conn,
                   published, halted>>

\* The peer closes its connection (external).
PeerCloses(id) ==
    /\ Running /\ conn[id] \in {"http", "websocket"}
    /\ conn' = [conn EXCEPT ![id] = "closing"]
    /\ UNCHANGED <<sessions, next_session_id, sessions_to_remove, symbols, due, draining,
                   published, halted>>

Stopped == ~Running /\ UNCHANGED vars

Next ==
    \/ Timer \/ Drained \/ Accept \/ SenderError \/ Elapse \/ Stopped
    \/ \E id \in Ids :
        \/ Upgrade(id) \/ Binary(id) \/ Disconnected(id) \/ PeerCloses(id)
        \/ (\E m \in Messages : Text(id, m) \/ \E k \in BOOLEAN : Request(id, m, k))
    \/ \E s \in Symbols, o \in {"sent", "refused", "too large"} : TopOfBook(s, o)

-----------------------------------------------------------------------------
(***************************************************************************)
(* Properties.                                                             *)
(***************************************************************************)

\* The web server holds a reference to its Session: as long as a connection can
\* call back, also with its last event, the session exists, and a session that is
\* marked for removal has nothing more to hear.  No other session stays: one whose
\* connection is closed is marked until it is destroyed.
SessionAlive ==
    /\ \A id \in Ids : conn[id] \in {"http", "websocket", "closing"} => id \in sessions
    /\ \A id \in sessions_to_remove : conn[id] = "closed"
    /\ \A id \in sessions \ sessions_to_remove : conn[id] \in {"http", "websocket", "closing"}

\* A session whose connection is closed is destroyed in the end, although the mark
\* may be set in a timer that does not collect.
ZombiesRemoved == \A id \in Ids : conn[id] = "closing" ~> id \notin sessions \/ ~Running
=============================================================================
