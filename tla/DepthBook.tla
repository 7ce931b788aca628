----------------------------- MODULE DepthBook -----------------------------
(***************************************************************************)
(* roq::samples::depth: Strategy keeps a full book and one of limited      *)
(* depth, which it feeds with updates computed from the full book, and     *)
(* compares their tops after every update.  The books are objects of the   *)
(* library, modelled from their use.                                       *)
(***************************************************************************)
EXTENDS Integers, FiniteSets

CONSTANTS
    depth,          \* settings.depth
    Prices,         \* price levels
    Quantities      \* quantities of a level, 0 for none

Sides == {"bid", "ask"}

EmptyBook == [side \in Sides |-> [price \in Prices |-> 0]]

VARIABLES
    mbp_full, mbp_depth,   \* Strategy members
    fed,                   \* "no": disconnected; "new": no snapshot yet; "yes"
    mismatch               \* is_same was false: issues_ is 1 and the process ended

vars == <<mbp_full, mbp_depth, fed, mismatch>>

Init == mbp_full = EmptyBook /\ mbp_depth = EmptyBook /\ fed = "no" /\ mismatch = FALSE

-----------------------------------------------------------------------------
(***************************************************************************)
(* cache::MarketByPrice.                                                   *)
(***************************************************************************)

Better(side, p, q) == IF side = "bid" THEN p > q ELSE p < q

\* The best depth levels of a book, what extract fills its array with.
Extract(book) ==
    [side \in Sides |-> [price \in Prices |->
        IF Cardinality({p \in Prices : book[side][p] > 0 /\ Better(side, p, price)}) < depth
        THEN book[side][price] ELSE 0]]

\* An update is a set of levels with their new quantities; a snapshot is the book.
Apply(book, update) ==
    [side \in Sides |-> [price \in Prices |->
        IF \E l \in update.levels : l.side = side /\ l.price = price
        THEN (CHOOSE l \in update.levels : l.side = side /\ l.price = price).quantity
        ELSE IF update.snapshot THEN 0 ELSE book[side][price]]]

Levels == [side : Sides, price : Prices, quantity : Quantities]

\* The levels in which the tops before and after the update differ, or all levels
\* of the new top for a snapshot.
create_depth_update(book, update) ==
    LET before == Extract(book)
        after == Extract(Apply(book, update))
    IN  [update EXCEPT !.levels =
            {l \in Levels : /\ l.quantity = after[l.side][l.price]
                            /\ update.snapshot \/ l.quantity # before[l.side][l.price]}]

-----------------------------------------------------------------------------
is_same(lhs, rhs) == Extract(lhs) = Extract(rhs)

book_update_full_first(update) ==
    LET full == Apply(mbp_full, update)
    IN  [full |-> full, depth |-> Apply(mbp_depth, create_depth_update(full, update))]

\* The depth update is computed from the full book before it changes.
book_update(update) ==
    [full |-> Apply(mbp_full, update),
     depth |-> Apply(mbp_depth, create_depth_update(mbp_full, update))]

\* No level, one or two, and none twice.
Updates ==
    {levels \in {{}} \union {{l, k} : l, k \in Levels} :
        \A l, k \in levels : l.side = k.side /\ l.price = k.price => l = k}

\* The counters choice_ and inversion_ are for the log only, and the limited book takes
\* its maximal depth from the update, so that the last test is never met.
MarketByPriceUpdate ==
    /\ ~mismatch /\ fed # "no"
    /\ \E levels \in Updates :
        LET update == [levels |-> levels, snapshot |-> fed = "new"]
            books == book_update(update)
        IN  /\ mbp_full' = books.full /\ mbp_depth' = books.depth
            /\ mismatch' = ~is_same(books.full, books.depth)
    /\ fed' = "yes"

Connected ==
    /\ ~mismatch /\ fed = "no"
    /\ fed' = "new"
    /\ UNCHANGED <<mbp_full, mbp_depth, mismatch>>

Disconnected ==
    /\ ~mismatch /\ fed # "no"
    /\ mbp_full' = EmptyBook /\ mbp_depth' = EmptyBook /\ fed' = "no"
    /\ UNCHANGED mismatch

\* Tick sizes and the like: both books get them, the levels stay.
ReferenceData == ~mismatch /\ fed # "no" /\ UNCHANGED vars

Next == MarketByPriceUpdate \/ Connected \/ Disconnected \/ ReferenceData

-----------------------------------------------------------------------------
\* The limited book is the top of the full book after any sequence of updates and
\* reconnects, levels that move into the top from below included, and the program
\* never ends on its own test.
DepthIsTop == ~mismatch /\ mbp_depth = Extract(mbp_full)
=============================================================================
