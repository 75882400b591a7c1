------------------------------ MODULE Occupancy ------------------------------
(***************************************************************************)
(* What a side's bitmap promises the book: a set of occupied ring          *)
(* positions.  OrderBook.tla uses exactly this abstraction.                *)
(***************************************************************************)
EXTENDS Integers

CONSTANTS Window, Ticks

VARIABLE occupied   \* ring positions whose level holds orders

Init == occupied = {}

Set(tick)   == occupied' = occupied \cup {tick % Window}
Clear(tick) == occupied' = occupied \ {tick % Window}

Next == \E tick \in Ticks : Set(tick) \/ Clear(tick)

Spec == Init /\ [][Next]_occupied
=============================================================================
