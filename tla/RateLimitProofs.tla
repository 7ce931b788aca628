-------------------------- MODULE RateLimitProofs --------------------------
(***************************************************************************)
(* The rate limiter limits, for every limit, period and bound, as long as  *)
(* no request falls exactly on the edge of the period.                     *)
(***************************************************************************)
EXTENDS RateLimit, TLAPS, SequenceTheorems

\* The requests that are no longer remembered are older than the period.
ForgottenAreOld ==
    \A i \in 1..(Len(sent) - Len(history)) : sent[i] < now - MONITOR_PERIOD

Inv == TypeOK /\ HistoryIsRecent /\ ForgottenAreOld /\ HistoryBounded /\ WindowRespected

\* The inductive invariant holds of the empty limiter (Shared's members).
LEMMA InitInv == Init => Inv
<1> SUFFICES ASSUME Init PROVE Inv
  OBVIOUS
<1>1. now = 0 /\ history = << >> /\ sent = << >> /\ onEdge = FALSE /\ Len(<< >>) = 0
  BY DEF Init
<1>2. REQUEST_LIMIT \in Nat /\ MaxTime \in Nat
  BY LimitAssumption
<1>3. TypeOK
  <2>1. << >> \in Seq(0..MaxTime)
    BY EmptySeq
  <2>2. now \in 0..MaxTime
    BY <1>1, <1>2
  <2> QED
    BY <1>1, <2>1, <2>2 DEF TypeOK
<1>4. HistoryIsRecent /\ ForgottenAreOld
  BY <1>1 DEF HistoryIsRecent, ForgottenAreOld
<1>5. HistoryBounded
  BY <1>1, <1>2 DEF HistoryBounded
<1>6. WindowRespected
  BY <1>1, <1>2 DEF WindowRespected
<1> QED
  BY <1>3, <1>4, <1>5, <1>6 DEF Inv

\* A request that is let through, with k entries popped from the history.
LEMMA SendInv ==
    ASSUME Inv, Send
    PROVE  Inv'
<1>1. PICK k \in 0..Len(history) :
        popped(k) /\ history' = Append(SubSeq(history, k + 1, Len(history)), now)
  BY DEF Send
<1>2. /\ sent' = Append(sent, now) /\ ~is_blocked /\ now' = now
      /\ onEdge' = (onEdge \/ (Len(history) = REQUEST_LIMIT
                               /\ now - Head(history) = MONITOR_PERIOD))
  BY DEF Send
<1>3. /\ history \in Seq(0..MaxTime) /\ sent \in Seq(0..MaxTime) /\ now \in 0..MaxTime
      /\ Len(history) \in Nat /\ Len(sent) \in Nat /\ onEdge \in BOOLEAN
      /\ MONITOR_PERIOD \in Nat /\ REQUEST_LIMIT \in Nat /\ REQUEST_LIMIT >= 1
      /\ MaxTime \in Nat
  BY LimitAssumption, LenProperties DEF Inv, TypeOK
<1>4. /\ \A i \in 1..Len(history) : history[i] \in 0..MaxTime
      /\ \A i \in 1..Len(sent) : sent[i] \in 0..MaxTime
  BY <1>3, ElementOfSeq
<1>n. /\ Len(history) \in Nat /\ Len(sent) \in Nat /\ k \in Nat /\ k <= Len(history)
      /\ MONITOR_PERIOD \in Nat /\ REQUEST_LIMIT \in Nat /\ REQUEST_LIMIT >= 1
      /\ now \in Nat
  BY <1>3
<1> DEFINE rest == SubSeq(history, k + 1, Len(history))
<1>5. /\ rest \in Seq(0..MaxTime) /\ Len(rest) = Len(history) - k
      /\ \A i \in 1..(Len(history) - k) : rest[i] = history[k + i]
  BY <1>3
<1>6. /\ history' \in Seq(0..MaxTime) /\ Len(history') = Len(history) - k + 1
      /\ \A i \in 1..(Len(history) - k) : history'[i] = history[k + i]
      /\ history'[Len(history) - k + 1] = now
  <2> HIDE DEF rest
  <2>1. history' = Append(rest, now)
    BY <1>1 DEF rest
  <2> QED
    BY <1>3, <1>5, <2>1
<1>7. /\ sent' \in Seq(0..MaxTime) /\ Len(sent') = Len(sent) + 1
      /\ \A i \in 1..Len(sent) : sent'[i] = sent[i]
      /\ sent'[Len(sent) + 1] = now
  BY <1>2, <1>3
<1>8. TypeOK'
  BY <1>2, <1>3, <1>6, <1>7 DEF TypeOK
<1>9. HistoryIsRecent'
  <2>1. /\ Len(history) <= Len(sent)
        /\ \A i \in 1..Len(history) : history[i] = sent[Len(sent) - Len(history) + i]
    BY DEF Inv, HistoryIsRecent
  <2>2. Len(history') <= Len(sent')
    BY <1>3, <1>6, <1>7, <2>1
  <2>3. ASSUME NEW i \in 1..Len(history')
        PROVE  history'[i] = sent'[Len(sent') - Len(history') + i]
    <3>1. CASE i = Len(history) - k + 1
      <4>1. Len(sent') - Len(history') + i = Len(sent) + 1
        <5>1. Len(sent') = Len(sent) + 1 /\ Len(history') = Len(history) - k + 1
          BY <1>6, <1>7
        <5> QED
          BY <1>n, <3>1, <5>1
      <4>2. history'[i] = now /\ sent'[Len(sent) + 1] = now
        BY <1>6, <1>7, <3>1
      <4> QED
        BY <4>1, <4>2
    <3>2. CASE i # Len(history) - k + 1
      <4>1. i \in 1..(Len(history) - k) /\ k + i \in 1..Len(history)
        <5>1. i \in 1..(Len(history) - k + 1)
          BY <1>6
        <5> QED
          BY <1>n, <3>2, <5>1
      <4>2. history'[i] = sent[Len(sent) - Len(history) + (k + i)]
        BY <1>6, <2>1, <4>1
      <4>3. Len(sent') - Len(history') + i = Len(sent) - Len(history) + (k + i)
        BY <1>3, <1>6, <1>7
      <4>4. Len(sent) - Len(history) + (k + i) \in 1..Len(sent)
        BY <1>3, <2>1, <4>1
      <4> QED
        BY <1>7, <4>2, <4>3, <4>4
    <3> QED
      BY <3>1, <3>2
  <2> QED
    BY <2>2, <2>3 DEF HistoryIsRecent
<1>10. ForgottenAreOld'
  <2>1. SUFFICES ASSUME NEW i \in 1..(Len(sent) - Len(history) + k)
                 PROVE  sent'[i] < now - MONITOR_PERIOD
    <3>1. Len(sent') - Len(history') = Len(sent) - Len(history) + k
      BY <1>n, <1>6, <1>7
    <3> QED
      BY <1>2, <3>1 DEF ForgottenAreOld
  <2>2. i \in 1..Len(sent) /\ sent'[i] = sent[i]
    BY <1>3, <1>7
  <2>3. CASE i <= Len(sent) - Len(history)
    BY <1>3, <2>2, <2>3 DEF Inv, ForgottenAreOld
  <2>4. CASE i > Len(sent) - Len(history)
    <3> DEFINE j == i - (Len(sent) - Len(history))
    <3>1. j \in 1..k /\ j \in 1..Len(history) /\ Len(sent) - Len(history) + j = i
      BY <1>3, <2>4
    <3>2. history[j] < now - MONITOR_PERIOD
      BY <1>1, <3>1 DEF popped
    <3>3. history[j] = sent[Len(sent) - Len(history) + j]
      BY <3>1 DEF Inv, HistoryIsRecent
    <3> QED
      BY <2>2, <3>1, <3>2, <3>3
  <2> QED
    BY <1>3, <2>3, <2>4
<1>11. HistoryBounded'
  <2>1. SUFFICES ASSUME ~onEdge' PROVE Len(history) - k + 1 <= REQUEST_LIMIT
    BY <1>6 DEF HistoryBounded
  <2>2. ~onEdge /\ Len(history) <= REQUEST_LIMIT
    BY <1>2, <2>1 DEF Inv, HistoryBounded
  <2>3. CASE Len(history) = REQUEST_LIMIT
    <3>1. Head(history) = history[1] /\ 1 \in 1..Len(history)
      BY <1>3, <2>3
    <3>2. now - history[1] > MONITOR_PERIOD
      <4>1. ~(now - history[1] < MONITOR_PERIOD) /\ now - history[1] # MONITOR_PERIOD
        BY <1>2, <2>1, <2>3, <3>1 DEF is_blocked
      <4>2. history[1] \in Int
        BY <1>4, <3>1
      <4> QED
        BY <1>n, <4>1, <4>2
    <3>3. k # 0
      BY <1>1, <1>3, <1>4, <3>1, <3>2 DEF popped
    <3> QED
      BY <1>3, <2>3, <3>3
  <2> QED
    BY <1>3, <2>2, <2>3
<1>12. WindowRespected'
  <2>1. SUFFICES ASSUME ~onEdge', NEW i \in 1..(Len(sent) + 1 - REQUEST_LIMIT)
                 PROVE  sent'[i + REQUEST_LIMIT] - sent'[i] >= MONITOR_PERIOD
    <3>1. Len(sent') - REQUEST_LIMIT = Len(sent) + 1 - REQUEST_LIMIT
      <4>1. Len(sent') = Len(sent) + 1
        BY <1>7
      <4> QED
        BY <1>n, <4>1
    <3> QED
      BY <3>1 DEF WindowRespected
  <2>2. ~onEdge /\ Len(history) <= REQUEST_LIMIT
    BY <1>2, <2>1 DEF Inv, HistoryBounded
  <2>3. CASE i <= Len(sent) - REQUEST_LIMIT
    <3>1. i \in 1..Len(sent) /\ i + REQUEST_LIMIT \in 1..Len(sent)
      BY <1>3, <2>3
    <3> QED
      BY <1>3, <1>7, <2>2, <2>3, <3>1 DEF Inv, WindowRespected
  <2>4. CASE i = Len(sent) + 1 - REQUEST_LIMIT
    <3>1. i \in 1..Len(sent) /\ sent'[i] = sent[i] /\ sent'[i + REQUEST_LIMIT] = now
      <4>1. i \in 1..Len(sent) /\ i + REQUEST_LIMIT = Len(sent) + 1
        BY <1>n, <2>4
      <4> QED
        BY <1>7, <4>1
    <3>2. CASE i <= Len(sent) - Len(history)
      <4>1. sent[i] < now - MONITOR_PERIOD
        BY <1>3, <3>1, <3>2 DEF Inv, ForgottenAreOld
      <4> QED
        BY <1>3, <1>4, <3>1, <4>1
    <3>3. CASE i > Len(sent) - Len(history)
      <4>1. Len(history) = REQUEST_LIMIT /\ i = Len(sent) - Len(history) + 1
        BY <1>n, <2>2, <2>4, <3>3
      <4>2. 1 \in 1..Len(history) /\ Head(history) = history[1]
        BY <1>3, <4>1
      <4>3. history[1] = sent[i]
        BY <4>1, <4>2 DEF Inv, HistoryIsRecent
      <4>4. ~(now - history[1] < MONITOR_PERIOD)
        BY <1>2, <4>1, <4>2 DEF is_blocked
      <4> QED
        BY <1>3, <1>4, <3>1, <4>3, <4>4
    <3> QED
      BY <1>3, <3>2, <3>3
  <2>5. i <= Len(sent) - REQUEST_LIMIT \/ i = Len(sent) + 1 - REQUEST_LIMIT
    BY <1>n
  <2> QED
    BY <2>3, <2>4, <2>5
<1> QED
  BY <1>8, <1>9, <1>10, <1>11, <1>12 DEF Inv

\* Every step keeps it: a request let through or refused, and time passing.
LEMMA NextInv == Inv /\ [Next]_vars => Inv'
<1> SUFFICES ASSUME Inv, [Next]_vars PROVE Inv'
  OBVIOUS
<1>1. CASE Send
  BY <1>1, SendInv
<1>2. CASE Tick
  <2>1. Len(history) \in Nat /\ Len(sent) \in Nat /\ MONITOR_PERIOD \in Nat /\ MaxTime \in Nat
        /\ now \in 0..MaxTime
    BY LimitAssumption, LenProperties DEF Inv, TypeOK
  <2>2. \A i \in 1..Len(sent) : sent[i] \in 0..MaxTime
    BY ElementOfSeq DEF Inv, TypeOK
  <2>3. TypeOK'
    BY <1>2, <2>1 DEF Tick, Inv, TypeOK
  <2>4. ForgottenAreOld'
    BY <1>2, <2>1, <2>2 DEF Tick, Inv, ForgottenAreOld
  <2>5. HistoryIsRecent' /\ HistoryBounded' /\ WindowRespected'
    BY <1>2 DEF Tick, Inv, HistoryIsRecent, HistoryBounded, WindowRespected
  <2> QED
    BY <2>3, <2>4, <2>5 DEF Inv
<1>3. CASE UNCHANGED vars
  BY <1>3 DEF vars, Inv, TypeOK, ForgottenAreOld, HistoryIsRecent, HistoryBounded,
              WindowRespected
<1> QED
  BY <1>1, <1>2, <1>3 DEF Next, NotSent

\* The inductive invariant of Shared::rate_limit.
THEOREM Invariance == Spec => []Inv
  BY InitInv, NextInv, PTL DEF Spec

\* No REQUEST_LIMIT + 1 consecutive requests are sent within MONITOR_PERIOD,
\* until one is sent exactly on the edge of the period (Shared::rate_limit).
THEOREM WindowHolds == Spec => []WindowRespected
<1>1. Inv => WindowRespected
  BY DEF Inv
<1> QED
  BY <1>1, Invariance, PTL

\* The history is bounded by the limit, with the same exception, and is always
\* the most recent requests (Shared::history).
THEOREM HistoryHolds == Spec => [](HistoryBounded /\ HistoryIsRecent)
<1>1. Inv => HistoryBounded /\ HistoryIsRecent
  BY DEF Inv
<1> QED
  BY <1>1, Invariance, PTL
=============================================================================
