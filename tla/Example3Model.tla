--------------------------- MODULE Example3Model ---------------------------
(***************************************************************************)
(* The model of example-3: it follows the weighted bid and ask, compares   *)
(* them with their moving averages, notices a sharp move in one direction  *)
(* and signals a trade when the move reverts.  Only the comparisons of the *)
(* prices matter; a pair is <<bid, ask>> with the bid below the ask.       *)
(***************************************************************************)
EXTENDS Integers

CONSTANT warmup   \* settings.warmup: samples before a signal

ASSUME WarmupAssumption == warmup \in Nat

\* Four levels are enough to place a pair below, around or above another.
Levels == 1..4

Pairs == {p \in Levels \X Levels : p[1] < p[2]}

\* Model::reset and EMA::reset.  Both averages are updated together, so that
\* they have one countdown and one flag for "no value yet".
ResetModel == [selling |-> FALSE, buying |-> FALSE, countdown |-> warmup, nan |-> TRUE]

ema_countdown_shared(c) == IF c > 2 THEN c - 2 ELSE 0

\* EMA::update: countdown_ = max(1, countdown_) - 1
ema_countdown(c) == IF c > 1 THEN c - 1 ELSE 0

\* The averages after an update with the pair fast: the first value starts
\* them, a later one may move them anywhere.
Averages(m, fast) == IF m.nan THEN {fast} ELSE Pairs

\* The first part of Model::update: a move down, or its end.
selling_part(m, fast, slow) ==
    IF m.selling
    THEN IF m.countdown = 0 /\ fast[2] > slow[2]
         THEN [model |-> [m EXCEPT !.selling = FALSE], side |-> "BUY"]
         ELSE [model |-> m, side |-> "UNDEFINED"]
    ELSE IF fast[2] < slow[1] /\ fast[2] < slow[2]
         THEN [model |-> [m EXCEPT !.selling = TRUE, !.buying = FALSE], side |-> "UNDEFINED"]
         ELSE [model |-> m, side |-> "UNDEFINED"]

\* The second part: a move up, or its end.
buying_part(m, side, fast, slow) ==
    IF m.buying
    THEN IF m.countdown = 0 /\ fast[1] > slow[1]
         THEN [model |-> [m EXCEPT !.buying = FALSE], side |-> "SELL"]
         ELSE [model |-> m, side |-> side]
    ELSE IF fast[1] > slow[2] /\ fast[1] > slow[1]
         THEN [model |-> [m EXCEPT !.buying = TRUE, !.selling = FALSE], side |-> side]
         ELSE [model |-> m, side |-> side]

\* Model::update with a full depth.
update(m, fast, slow) ==
    LET n == [m EXCEPT !.countdown = ema_countdown(@), !.nan = FALSE]
        a == selling_part(n, fast, slow)
    IN  buying_part(a.model, a.side, fast, slow)
=============================================================================
