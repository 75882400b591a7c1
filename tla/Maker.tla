-------------------------------- MODULE Maker --------------------------------
(***************************************************************************)
(* The maker's instructions: place_limit.rs in its post-only and its       *)
(* zero-size form, cancel.rs, and mass_quote.rs with its merge loop        *)
(* (mass_quote_side, one action per kind of iteration).                    *)
(***************************************************************************)
EXTENDS Program, Sequences

CONSTANTS
  InTicks,    \* ticks quoted or limited to, some outside the window
  InLots,     \* order sizes asked for, 0 excluded
  InExpiries, \* expiry slots; 0 is "never"
  Payloads,   \* one side of a MassQuote: sequences of quotes
  CancelIds   \* order ids quoted back by a cancel

ASSUME MakerAssumption ==
  /\ InTicks \subseteq Nat /\ InLots \subseteq Nat \ {0} /\ InExpiries \subseteq Nat
  /\ Payloads \subseteq Seq([tick : Nat, lots : Nat, reject : BOOLEAN])
  /\ CancelIds \subseteq 0 .. FreedSeq

-----------------------------------------------------------------------------
(* upsert_order: add or amend one quote                                    *)

\* find_quote: the maker's own quote at the final tick.
QuoteAt(b, s, side, tick) == CHOOSE n \in QuotesAt(b, s, side, tick) : TRUE

\* Faulty: any size is amended in place.
AmendsAnySize(b, s, side, tick, lots) == QuotesAt(b, s, side, tick) # {}

\* A smaller or equal size stays in place, a larger one is ended first and
\* re-posted at the back.
Amends(b, s, side, tick, lots) ==
  QuotesAt(b, s, side, tick) # {} /\ lots <= b.pool[QuoteAt(b, s, side, tick)].lots
Grows(b, s, side, tick, lots) ==
  QuotesAt(b, s, side, tick) # {} /\ lots > b.pool[QuoteAt(b, s, side, tick)].lots

\* The book a new order enters: without the quote it replaces.
Cleared(b, s, side, tick, lots) ==
  IF Grows(b, s, side, tick, lots) THEN KillOrder(b, QuoteAt(b, s, side, tick)) ELSE b

\* Faulty: no order cap.
CanPostUncapped(b, s, side, tick, lots) ==
  LET c == Cleared(b, s, side, tick, lots)
  IN /\ Grows(b, s, side, tick, lots) => Refundable(b, QuoteAt(b, s, side, tick))
     /\ CanInsert(c, s, side, tick, lots)

CanPost(b, s, side, tick, lots) ==
  LET c == Cleared(b, s, side, tick, lots)
  IN /\ Grows(b, s, side, tick, lots) => Refundable(b, QuoteAt(b, s, side, tick))
     /\ c.seats[s].count < MaxOrdersPerSeat       \* ensure_order_slot
     /\ CanInsert(c, s, side, tick, lots)

Post(b, s, side, tick, lots, expiry) ==
  LET c == Cleared(b, s, side, tick, lots)
  IN ChainInsertSorted(LockAndInsert(c, s, side, tick, lots, expiry), s, c.freeHead)

CanShrink(b, s, side, tick, lots) ==
  LET nd == b.pool[QuoteAt(b, s, side, tick)]
  IN CanUnlock(b, s, LockedAsset(side), LockedAtoms(side, tick, nd.lots - lots))

CanUpsert(b, s, side, tick, lots, slide) ==
  LET t == CheckOrSlide(b, side, tick, slide)
  IN /\ lots <= MaxLots /\ t # NoTick
     /\ IF Amends(b, s, side, t, lots) THEN CanShrink(b, s, side, t, lots)
                                       ELSE CanPost(b, s, side, t, lots)

Upsert(b, s, side, tick, lots, expiry, slide) ==
  LET t == CheckOrSlide(b, side, tick, slide)
  IN IF Amends(b, s, side, t, lots)
     THEN ShrinkOrder(b, s, QuoteAt(b, s, side, t), lots, expiry)
     ELSE Post(b, s, side, t, lots, expiry)

-----------------------------------------------------------------------------
(* Single-order instructions                                               *)

\* PlaceLimit, post-only: rest, slid off the opposing best unless told to fail.
PostOnly(s, side, tick, lots, reject, expiry) ==
  /\ Starts("PostOnly")
  /\ Signed(s) /\ IdsLeft(1)
  /\ CanUpsert(book, s, side, tick, lots, ~reject)
  /\ Commit(Upsert(book, s, side, tick, lots, expiry, ~reject), vault)

\* PlaceLimit, zero size: ends the maker's quote at exactly this tick.
CancelQuote(s, side, tick) ==
  /\ Starts("CancelQuote")
  /\ Signed(s)
  /\ CheckOrSlideVs(book, side, tick, FALSE, NoTick) # NoTick
  /\ QuotesAt(book, s, side, tick) # {}
  /\ Refundable(book, QuoteAt(book, s, side, tick))
  /\ Commit(KillOrder(book, QuoteAt(book, s, side, tick)), vault)

\* Faulty: any live order in the slot will do, whatever its id.
CancelAnyId(s, n, id) ==
  /\ Starts("Cancel")
  /\ Signed(s)
  /\ IsLive(book, n) /\ book.pool[n].maker = s
  /\ Refundable(book, n)
  /\ Commit(KillOrder(book, n), vault)

\* Cancel by pool slot and order id; the id guards a reused slot.
Cancel(s, n, id) ==
  /\ Starts("Cancel")
  /\ Signed(s)
  /\ book.pool[n].seq = id /\ book.pool[n].maker = s
  /\ Refundable(book, n)
  /\ Commit(KillOrder(book, n), vault)

-----------------------------------------------------------------------------
(* MassQuote: merge two sorted payloads into the seat's chain              *)

BeginMassQuote(s, bids, asks, expiry) ==
  /\ Starts("MassQuote")
  /\ Signed(s)
  /\ Len(bids) + Len(asks) <= MaxOrdersPerSeat
  /\ IdsLeft(Len(bids) + Len(asks))
  /\ Continue(book, [op |-> "MassQuote", seat |-> s, bids |-> bids, asks |-> asks,
                     expiry |-> expiry, side |-> "bid", qi |-> 0,
                     prev |-> NIL, cur |-> book.seats[s].head,
                     lastTick |-> 0, lastUsed |-> 0, opposing |-> BestOf(book, "ask")])

Payload(i)  == IF i.side = "bid" THEN i.bids ELSE i.asks
HasQuote(i) == i.qi < Len(Payload(i))
Quote(i)    == Payload(i)[i.qi + 1]

\* The chain cursor is still in the side being merged.
InRegion(i) == i.cur # NIL /\ book.pool[i.cur].side = i.side
CurTick(i)  == book.pool[i.cur].tick

\* Payload ticks strictly ascend and sizes are in range, checked on arrival.
BadQuote(i) ==
  /\ HasQuote(i)
  /\ \/ i.qi > 0 /\ Quote(i).tick <= i.lastTick
     \/ Quote(i).lots = 0
     \/ Quote(i).lots > MaxLots

Merging == ix.op = "MassQuote"

MergeRefuse == Merging /\ BadQuote(ix) /\ Abort

\* A chain quote the payload skips is ended; its link is read before.
MergeCancel ==
  /\ Merging /\ ~BadQuote(ix) /\ InRegion(ix)
  /\ HasQuote(ix) => CurTick(ix) < Quote(ix).tick
  /\ Refundable(book, ix.cur)
  /\ Continue(KillOrder(book, ix.cur),
              [ix EXCEPT !.cur = book.pool[ix.cur].makerNext])

\* Same tick, same or smaller size: kept in place.
MergeKeep ==
  /\ Merging /\ ~BadQuote(ix) /\ InRegion(ix) /\ HasQuote(ix)
  /\ LET q  == Quote(ix)
         nd == book.pool[ix.cur]
     IN /\ nd.tick = q.tick /\ q.lots <= nd.lots
        /\ CanUnlock(book, ix.seat, LockedAsset(ix.side),
                     LockedAtoms(ix.side, q.tick, nd.lots - q.lots))
        /\ Continue(ShrinkOrder(book, ix.seat, ix.cur, q.lots, ix.expiry),
                    [ix EXCEPT !.lastUsed = q.tick, !.lastTick = q.tick,
                               !.qi = @ + 1, !.prev = ix.cur, !.cur = nd.makerNext])

\* mass_quote_insert on book b, between ix.prev and `next`: refused when a
\* slid tick would land on a tick of this merge or on the next chain quote.
MassQuoteInsert(b, next, nextTick) ==
  LET q    == Quote(ix)
      tick == CheckOrSlideVs(b, ix.side, q.tick, ~q.reject, ix.opposing)
      n    == b.freeHead
  IN IF /\ tick # NoTick /\ tick > ix.lastUsed /\ tick # nextTick
        /\ CanInsert(b, ix.seat, ix.side, tick, q.lots)
     THEN Continue(ChainSplice(LockAndInsert(b, ix.seat, ix.side, tick, q.lots, ix.expiry),
                               ix.seat, ix.prev, next, n),
                   [ix EXCEPT !.prev = n, !.cur = next, !.lastUsed = tick,
                              !.lastTick = q.tick, !.qi = @ + 1])
     ELSE Abort

\* A tick only in the payload: posted at the cursor, no slot check.
MergeInsert ==
  /\ Merging /\ ~BadQuote(ix) /\ HasQuote(ix)
  /\ InRegion(ix) => CurTick(ix) > Quote(ix).tick
  /\ MassQuoteInsert(book, ix.cur, IF InRegion(ix) THEN CurTick(ix) ELSE NoTick)

\* Same tick, larger size: ended and re-posted at the back in one iteration.
MergeRepost ==
  /\ Merging /\ ~BadQuote(ix) /\ InRegion(ix) /\ HasQuote(ix)
  /\ CurTick(ix) = Quote(ix).tick /\ Quote(ix).lots > book.pool[ix.cur].lots
  /\ Refundable(book, ix.cur)
  /\ MassQuoteInsert(KillOrder(book, ix.cur), book.pool[ix.cur].makerNext, NoTick)

\* Faulty: the side ends with its payload, leaving the rest of the chain.
MergeDoneEarly == Merging /\ ~HasQuote(ix)

MergeDone == Merging /\ ~HasQuote(ix) /\ ~InRegion(ix)

\* The ask merge starts at the bid merge's cursor, against the best bid now.
MergeAsks ==
  /\ MergeDone /\ ix.side = "bid"
  /\ Continue(book, [ix EXCEPT !.side = "ask", !.qi = 0, !.lastTick = 0,
                               !.lastUsed = 0, !.opposing = BestOf(book, "bid")])

MergeCommit == MergeDone /\ ix.side = "ask" /\ Commit(book, vault)

MergeStep ==
  \/ MergeRefuse \/ MergeCancel \/ MergeKeep \/ MergeInsert \/ MergeRepost
  \/ MergeAsks \/ MergeCommit

MakerNext ==
  \/ \E s \in SeatIds, side \in Sides, tick \in InTicks, lots \in InLots,
        reject \in BOOLEAN, expiry \in InExpiries :
       PostOnly(s, side, tick, lots, reject, expiry)
  \/ \E s \in SeatIds, side \in Sides, tick \in InTicks : CancelQuote(s, side, tick)
  \/ \E s \in SeatIds, n \in Nodes, id \in CancelIds : Cancel(s, n, id)
  \/ \E s \in SeatIds, bids, asks \in Payloads, expiry \in InExpiries :
       BeginMassQuote(s, bids, asks, expiry)
=============================================================================
