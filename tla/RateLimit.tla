----------------------------- MODULE RateLimit -----------------------------
(***************************************************************************)
(* The request rate limiter of the maker sample: Shared::is_blocked and    *)
(* Shared::rate_limit.  history holds the times of the requests let        *)
(* through; a request is refused while REQUEST_LIMIT of them are younger   *)
(* than MONITOR_PERIOD.  Both quotes share one limiter and may ask at the  *)
(* same time (one Timer event drives both).                                *)
(***************************************************************************)
EXTENDS Integers, Sequences

CONSTANTS
    REQUEST_LIMIT,    \* how many requests ...
    MONITOR_PERIOD,   \* ... in this time
    MaxTime,          \* bound: the clock stops here
    MaxSends          \* bound: the number of requests sent

ASSUME LimitAssumption ==
    /\ REQUEST_LIMIT \in Nat \ {0}
    /\ MONITOR_PERIOD \in Nat \ {0}
    /\ MaxTime \in Nat /\ MaxSends \in Nat

VARIABLES
    now,       \* origin_create_time of the event being handled
    history,   \* Shared::history
    sent,      \* the times of all requests ever sent
    onEdge     \* a request was sent exactly MONITOR_PERIOD after the oldest
               \* entry of a full history

vars == <<now, history, sent, onEdge>>

Init ==
    /\ now = 0
    /\ history = << >>
    /\ sent = << >>
    /\ onEdge = FALSE

is_blocked_off_by_one == Len(history) > REQUEST_LIMIT /\ now - Head(history) < MONITOR_PERIOD

is_blocked == Len(history) = REQUEST_LIMIT /\ now - Head(history) < MONITOR_PERIOD

\* The while loop of rate_limit: the k entries in front are older than the
\* cutoff and the next one, if there is one, is not.
popped(k) ==
    LET cutoff == now - MONITOR_PERIOD IN
    /\ k \in 0..Len(history)
    /\ \A i \in 1..k : history[i] < cutoff
    /\ k < Len(history) => ~(history[k + 1] < cutoff)

\* rate_limit with a callback that sends.
Send ==
    /\ Len(sent) < MaxSends
    /\ ~is_blocked
    /\ sent' = Append(sent, now)
    /\ \E k \in 0..Len(history) :
        /\ popped(k)
        /\ history' = Append(SubSeq(history, k + 1, Len(history)), now)
    /\ onEdge' = (onEdge \/ (Len(history) = REQUEST_LIMIT
                             /\ now - Head(history) = MONITOR_PERIOD))
    /\ now' = now

\* rate_limit that refuses, or whose callback throws NotConnected before the
\* history is touched.
NotSent == UNCHANGED vars

Tick ==
    /\ now < MaxTime
    /\ now' = now + 1
    /\ UNCHANGED <<history, sent, onEdge>>

Next == Send \/ NotSent \/ Tick

Spec == Init /\ [][Next]_vars

-----------------------------------------------------------------------------

TypeOK ==
    /\ now \in 0..MaxTime
    /\ history \in Seq(0..MaxTime)
    /\ sent \in Seq(0..MaxTime)
    /\ onEdge \in BOOLEAN

\* The limiter limits: of any REQUEST_LIMIT + 1 consecutive requests the last is
\* at least MONITOR_PERIOD after the first.  It holds until a request is sent
\* exactly MONITOR_PERIOD after the oldest one: is_blocked lets it through, the
\* loop does not pop (both comparisons are strict), the history grows beyond
\* REQUEST_LIMIT and is_blocked, which tests for equality, no longer blocks.
WindowRespected ==
    ~onEdge => \A i \in 1..(Len(sent) - REQUEST_LIMIT) :
                    sent[i + REQUEST_LIMIT] - sent[i] >= MONITOR_PERIOD

\* The history never outgrows the limit, with the same exception.
HistoryBounded == ~onEdge => Len(history) <= REQUEST_LIMIT

\* What is remembered is the most recent requests, in the order they were sent.
HistoryIsRecent ==
    /\ Len(history) <= Len(sent)
    /\ \A i \in 1..Len(history) : history[i] = sent[Len(sent) - Len(history) + i]
=============================================================================
