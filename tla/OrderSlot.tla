----------------------------- MODULE OrderSlot -----------------------------
(***************************************************************************)
(* What every order-placing sample promises the exchange, whatever drives  *)
(* it: a slot holds at most one order.  A create request is sent only when *)
(* its slot is free, that is when no earlier order of the slot rests or    *)
(* can still come to rest, and it carries an id that was never used.  The  *)
(* samples' specifications are shown to implement this one.                *)
(***************************************************************************)
CONSTANTS
    Slots,     \* the places for an order: a side, an instrument
    Ids        \* order ids

VARIABLES
    used,      \* ids that have been used, by anyone, in this or an earlier session
    held       \* held[s]: the orders that rest or whose create request is under way

Init == used \subseteq Ids /\ held = [s \in Slots |-> {}]

Keep(s) == held'[s] = held[s]

\* The order is filled, canceled or rejected, or its create request is lost.
Release(s) == held'[s] = {}

Create(s) == held[s] = {} /\ \E id \in Ids \ used : id \in used' /\ held'[s] = {id}

\* One handler may act for several slots; an id may be used up without an order.
Next ==
    /\ used' \in SUBSET Ids /\ used \subseteq used'
    /\ held' \in [Slots -> SUBSET Ids]
    /\ \A s \in Slots : Keep(s) \/ Release(s) \/ Create(s)
    /\ \A s, t \in Slots : s # t => held'[s] \intersect held'[t] = {}

Spec == Init /\ [][Next]_<<used, held>>
=============================================================================
