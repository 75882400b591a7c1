---------------------------- MODULE ClobRefinement ----------------------------
(***************************************************************************)
(* The program implements Exchange: the committed market, read from its    *)
(* bitmaps, levels and links, behaves as two lines of orders.              *)
(***************************************************************************)
EXTENDS ClobProperties

\* A level's orders in queue order, read as the matching walk reads them: from
\* the head along the links (never more than the pool holds), if its bit is set.
LevelQueue(b, side, tick) ==
  LET OrderOf(n) == [seat |-> b.pool[n].maker, tick |-> tick,
                     lots |-> b.pool[n].lots, expiry |-> b.pool[n].expiry]
      from[n \in Links, left \in 0 .. Capacity] ==
        IF n = NIL \/ left = 0 THEN <<>>
        ELSE <<OrderOf(n)>> \o from[b.pool[n].next, left - 1]
  IN IF IsOccupied(b, side, tick) THEN from[b.levels[Slot(tick)].head, Capacity] ELSE <<>>

\* A side's levels one after the other, best price first.
SideLine(b, side) ==
  LET upTo[t \in b.anchor - 1 .. LastTick(b)] ==
        IF t < b.anchor THEN <<>>
        ELSE IF side = "bid" THEN LevelQueue(b, side, t) \o upTo[t - 1]
                             ELSE upTo[t - 1] \o LevelQueue(b, side, t)
  IN upTo[LastTick(b)]

\* The market of the last successful instruction, as its users see it.
Market(b, v) ==
  [lines  |-> [side \in Sides |-> SideLine(b, side)],
   worth  |-> [s \in SeatIds |-> [a \in Assets |-> SeatTotal(b, s, a)]],
   owner  |-> [s \in SeatIds |-> b.seats[s].owner],
   fees   |-> b.fees, rate |-> b.feeBps, vault |-> v, anchor |-> b.anchor]

Promised == INSTANCE Exchange WITH market <- Market(committed.book, committed.vault)

\* Every instruction, however many steps it takes and however it ends, does to
\* the market what one step of the abstract exchange may do, or nothing: orders
\* are matched in their turn, queue places are kept, seats are paid what their
\* trades are worth, and no atom appears or is lost.  This is Promised!Spec,
\* whose state `committed` and `slot` determine.
Implements ==
  Promised!Init /\ [][[Promised!Next]_(Promised!vars)]_<<committed, slot>>
=============================================================================
