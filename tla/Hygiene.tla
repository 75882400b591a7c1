------------------------------- MODULE Hygiene -------------------------------
(***************************************************************************)
(* Keeping the book tidy: reanchor.rs (reanchor_step) moves the price      *)
(* window word by word and evicts what falls out of it, reap_expired.rs    *)
(* ends expired orders.  One action per order looked at or word crossed.   *)
(***************************************************************************)
EXTENDS Program

CONSTANTS
  Targets,    \* reanchor targets, some unaligned or out of range
  MaxLevels,  \* eviction budgets of a reanchor
  ReapStarts, \* start ticks of a reap, some outside the window
  ReapCounts  \* reap budgets

ASSUME HygieneAssumption ==
  /\ Targets \subseteq Nat /\ MaxLevels \subseteq Nat
  /\ ReapStarts \subseteq Nat /\ ReapCounts \subseteq Nat

WordStart(tick) == tick - (tick % WordTicks)

HeadAt(b, tick) == b.levels[Slot(tick)].head

-----------------------------------------------------------------------------
(* Reanchor                                                                *)

\* Faulty: the target is not clamped to the tick limit.
IdealUnclamped(target) ==
  IF WordStart(target) < WordTicks THEN WordTicks ELSE WordStart(target)

\* Targets are aligned and clamped: at least one word above tick 0, and the
\* whole window within the tick limit.
Ideal(target) ==
  LET maxAnchor == WordStart(TickLimit - (WindowTicks - 1))
      floor     == IF WordStart(target) < WordTicks THEN WordTicks
                                                    ELSE WordStart(target)
  IN IF floor > maxAnchor THEN maxAnchor ELSE floor

BeginReanchor(target, maxLevels) ==
  /\ Starts("Reanchor")
  /\ Continue(book, [op |-> "Reanchor", ideal |-> Ideal(target), max |-> maxLevels,
                     evicted |-> 0, cur |-> book.anchor, inWord |-> FALSE])

Reanchoring == ix.op = "Reanchor"
MovesUp     == ix.ideal > book.anchor

\* The word about to leave the window: the bottom one going up, the top one
\* going down, as ticks of the window that starts at ix.cur.
WordBase == IF MovesUp THEN ix.cur ELSE ix.cur + WindowTicks - WordTicks

\* Faulty: only bids are looked for.
WordBids == {t \in WordBase .. WordBase + WordTicks - 1 : IsOccupied(book, "bid", t)}

\* What is still resting in it, the lowest tick first, bids before asks.
WordOccupied == {t \in WordBase .. WordBase + WordTicks - 1 :
                   \E side \in Sides : IsOccupied(book, side, t)}

\* The budget is looked at once per word, before entering it.
EnterWord ==
  /\ Reanchoring /\ ~ix.inWord /\ ix.cur # ix.ideal /\ ix.evicted < ix.max
  /\ Continue(book, [ix EXCEPT !.inWord = TRUE])

EvictOrder ==
  /\ Reanchoring /\ ix.inWord /\ WordOccupied # {}
  /\ LET head == HeadAt(book, Lowest(WordOccupied))
     IN /\ Refundable(book, head)
        /\ Continue(KillOrder(book, head), [ix EXCEPT !.evicted = @ + 1])

LeaveWord ==
  /\ Reanchoring /\ ix.inWord /\ WordOccupied = {}
  /\ Continue(book, [ix EXCEPT !.inWord = FALSE,
                               !.cur = IF MovesUp THEN @ + WordTicks ELSE @ - WordTicks])

\* Faulty: the anchor is set to where the call was to take it.
ReanchorCommitPast ==
  /\ Reanchoring /\ ~ix.inWord /\ (ix.cur = ix.ideal \/ ix.evicted >= ix.max)
  /\ Commit([book EXCEPT !.anchor = ix.ideal], vault)

ReanchorCommit ==
  /\ Reanchoring /\ ~ix.inWord /\ (ix.cur = ix.ideal \/ ix.evicted >= ix.max)
  /\ Commit([book EXCEPT !.anchor = ix.cur], vault)

-----------------------------------------------------------------------------
(* ReapExpired                                                             *)

Clamp(tick) == IF tick < book.anchor THEN book.anchor
               ELSE IF tick > LastTick(book) THEN LastTick(book) ELSE tick

BeginReap(side, start, max) ==
  /\ Starts("ReapExpired")
  /\ Continue(book, [op |-> "ReapExpired", side |-> side, start |-> start,
                     max |-> max, tick |-> Clamp(start), reaped |-> 0, cur |-> NIL])

Reaping == ix.op = "ReapExpired"

ReapLevels == {t \in TicksOf(book, ix.side) : t >= ix.tick}

\* Faulty: the cursor stays on the level it enters.
ReapEnterStays ==
  /\ Reaping /\ ix.cur = NIL /\ ReapLevels # {}
  /\ LET t == Lowest(ReapLevels)
     IN Continue(book, [ix EXCEPT !.tick = t, !.cur = HeadAt(book, t)])

\* The next occupied level, and its head.
ReapEnter ==
  /\ Reaping /\ ix.cur = NIL /\ ReapLevels # {}
  /\ LET t == Lowest(ReapLevels)
     IN Continue(book, [ix EXCEPT !.tick = t + 1, !.cur = HeadAt(book, t)])

ReapSkip ==
  /\ Reaping /\ ix.cur # NIL /\ ~IsExpired(book, ix.cur, slot)
  /\ Continue(book, [ix EXCEPT !.cur = book.pool[@].next])

\* Faulty: the link is read after the node is freed.
ReapKillLateLink ==
  /\ Reaping /\ ix.cur # NIL /\ IsExpired(book, ix.cur, slot)
  /\ Refundable(book, ix.cur)
  /\ LET b == KillOrder(book, ix.cur)
     IN IF ix.reaped + 1 >= ix.max THEN Commit(b, vault)
        ELSE Continue(b, [ix EXCEPT !.reaped = @ + 1, !.cur = b.pool[@].next])

\* The link is read before the node is freed; the budget is looked at only
\* after an order was reaped.
ReapKill ==
  /\ Reaping /\ ix.cur # NIL /\ IsExpired(book, ix.cur, slot)
  /\ Refundable(book, ix.cur)
  /\ IF ix.reaped + 1 >= ix.max
     THEN Commit(KillOrder(book, ix.cur), vault)
     ELSE Continue(KillOrder(book, ix.cur),
                   [ix EXCEPT !.reaped = @ + 1, !.cur = book.pool[@].next])

ReapCommit == Reaping /\ ix.cur = NIL /\ ReapLevels = {} /\ Commit(book, vault)

HygieneStep ==
  \/ EnterWord \/ EvictOrder \/ LeaveWord \/ ReanchorCommit
  \/ ReapEnter \/ ReapSkip \/ ReapKill \/ ReapCommit

HygieneNext ==
  \/ \E target \in Targets, max \in MaxLevels : BeginReanchor(target, max)
  \/ \E side \in Sides, start \in ReapStarts, max \in ReapCounts :
       BeginReap(side, start, max)
=============================================================================
