-------------------------------- MODULE Taker --------------------------------
(***************************************************************************)
(* Matching: BookRefMut::take, one action per resting order the walk looks *)
(* at, and the three instructions that run it, place_limit.rs in its       *)
(* crossing form, place_take.rs and swap.rs.                               *)
(***************************************************************************)
EXTENDS Maker

CONSTANTS
  TakeLots,   \* lot budgets of PlaceTake
  MinOuts,    \* slippage floors
  SwapAmounts,\* what a swap asks to be pulled as its input
  Policies    \* "abort", "cancel": what to do with the taker's own orders

ASSUME TakerAssumption ==
  /\ TakeLots \subseteq Nat \ {0} /\ MinOuts \subseteq Nat
  /\ SwapAmounts \subseteq Nat /\ \A amount \in SwapAmounts : amount < U64Max
  /\ Policies \subseteq {"abort", "cancel"}

-----------------------------------------------------------------------------
(* Starting a take                                                         *)

\* TakeParams, the caller's own operands, and the running TakeResult.  `at`
\* is the level being drained (last_level).
Take(kind, s, side, limit, lots, maxQuote, policy, expiry, minOut, delta) ==
  [op |-> "Take", kind |-> kind, seat |-> s, side |-> side, limit |-> limit,
   maxLots |-> lots, maxQuote |-> maxQuote, policy |-> policy, expiry |-> expiry,
   minOut |-> minOut, delta |-> delta, at |-> NoTick, lots |-> 0, quote |-> 0,
   fee |-> 0]

BeginPlaceLimit(s, side, limit, lots, policy, expiry) ==
  /\ Starts("PlaceLimit")
  /\ Signed(s) /\ IdsLeft(1)
  /\ lots <= MaxLots
  /\ Continue(book, Take("PlaceLimit", s, side, limit, lots, U64Max, policy,
                         expiry, 0, 0))

BeginPlaceTake(s, side, limit, lots, minOut, policy) ==
  /\ Starts("PlaceTake")
  /\ Signed(s)
  /\ lots <= MaxLots
  /\ Continue(book, Take("PlaceTake", s, side, limit, lots, U64Max, policy, 0,
                         minOut, 0))

\* The input leg is pulled first and the match is budgeted by what arrived:
\* quote for a buy, whole lots of base (maybe none) for a sale.
SwapWith(side, limit, delta, minOut) ==
  LET asset  == IF side = "bid" THEN "quote" ELSE "base"
      lotsIn == delta \div BaseLotSize
      lots   == IF side = "bid" \/ lotsIn > MaxLots THEN MaxLots ELSE lotsIn
  IN /\ Starts("Swap")
     /\ vault' = [vault EXCEPT ![asset] = @ + delta]
     /\ ix' = Take("Swap", NoSeat, side, limit, lots,
                   IF side = "bid" THEN delta ELSE U64Max, "cancel", 0, minOut, delta)
     /\ UNCHANGED <<book, committed, slot>>

\* Faulty: the match is budgeted by what was asked for.
BeginSwapNominal(side, limit, amount, minOut) ==
  \E delta \in Received(amount) :
    LET asset == IF side = "bid" THEN "quote" ELSE "base"
    IN /\ Starts("Swap")
       /\ vault' = [vault EXCEPT ![asset] = @ + delta]
       /\ ix' = Take("Swap", NoSeat, side, limit,
                     IF side = "bid" THEN MaxLots ELSE amount \div BaseLotSize,
                     IF side = "bid" THEN amount ELSE U64Max, "cancel", 0, minOut, amount)
       /\ UNCHANGED <<book, committed, slot>>

BeginSwap(side, limit, amount, minOut) ==
  \E delta \in Received(amount) : SwapWith(side, limit, delta, minOut)

-----------------------------------------------------------------------------
(* The walk                                                                *)

Taking == ix.op = "Take"

BookSide(i)  == Opposite(i.side)
Remaining(i) == i.maxLots - i.lots

\* Faulty: the limit tick itself is not matched.
LevelsLeftInside(b, i) ==
  {t \in TicksOf(b, BookSide(i)) :
     IF i.side = "bid" THEN t < i.limit /\ (i.at # NoTick => t >= i.at)
                       ELSE t > i.limit /\ (i.at # NoTick => t <= i.at)}

\* Occupied levels within the limit from the level being drained onwards;
\* the walk looks at the best of them, NoTick when none is left.
LevelsLeft(b, i) ==
  {t \in TicksOf(b, BookSide(i)) :
     IF i.side = "bid" THEN t <= i.limit /\ (i.at # NoTick => t >= i.at)
                       ELSE t >= i.limit /\ (i.at # NoTick => t <= i.at)}
\* Faulty: the walk starts at the worst price.
TakeWorst(b, i) == IF i.side = "bid" THEN Highest(LevelsLeft(b, i))
                                     ELSE Lowest(LevelsLeft(b, i))

TakeLevel(b, i) == IF i.side = "bid" THEN Lowest(LevelsLeft(b, i))
                                     ELSE Highest(LevelsLeft(b, i))
\* Faulty: the newest order of the level is matched first.
TakeNewest(b, i) == b.levels[Slot(TakeLevel(b, i))].tail

TakeHead(b, i)  == b.levels[Slot(TakeLevel(b, i))].head

AtOrder(i) == Remaining(i) > 0 /\ TakeLevel(book, i) # NoTick

\* Faulty: the fee is taken off the budget twice.
AffordableTwice(b, i) ==
  LET budget == i.maxQuote - i.quote - i.fee
      whole  == FeeDenominator + b.feeBps
      net    == (budget * FeeDenominator) \div whole
  IN ((net * FeeDenominator) \div whole) \div (TakeLevel(b, i) * TickSize)

\* Lots the quote budget pays for at this price, fee included.
Affordable(b, i) ==
  LET budget == i.maxQuote - i.quote - i.fee
      whole  == FeeDenominator + b.feeBps
      capped == IF budget > U64Max \div whole THEN U64Max \div whole ELSE budget
  IN ((capped * FeeDenominator) \div whole) \div (TakeLevel(b, i) * TickSize)

Least(a, b) == IF a <= b THEN a ELSE b

FillLots(b, i) ==
  LET fill == Least(b.pool[TakeHead(b, i)].lots, Remaining(i))
  IN IF i.maxQuote = U64Max THEN fill ELSE Least(fill, Affordable(b, i))

\* Faulty: the fee is rounded up.
FeeOnRoundedUp(b, notional) == (notional * b.feeBps + FeeDenominator - 1) \div FeeDenominator

FeeOn(b, notional) == (notional * b.feeBps) \div FeeDenominator

HeadExpired(i) == IsExpired(book, TakeHead(book, i), slot)
HeadIsOwn(i)   == book.pool[TakeHead(book, i)].maker = i.seat

\* An expired head is ended for free, whoever made it.
TakeExpired ==
  /\ Taking /\ AtOrder(ix) /\ HeadExpired(ix)
  /\ Refundable(book, TakeHead(book, ix))
  /\ Continue(KillOrder(book, TakeHead(book, ix)),
              [ix EXCEPT !.at = TakeLevel(book, ix)])

\* The taker's own order is ended, or the instruction fails.
TakeOwn ==
  /\ Taking /\ AtOrder(ix) /\ ~HeadExpired(ix) /\ HeadIsOwn(ix)
  /\ IF ix.policy = "abort" THEN Abort
     ELSE /\ Refundable(book, TakeHead(book, ix))
          /\ Continue(KillOrder(book, TakeHead(book, ix)),
                      [ix EXCEPT !.at = TakeLevel(book, ix)])

\* A fill at the resting price; the fee is rounded down per fill.
TakeFill ==
  LET tick     == TakeLevel(book, ix)
      head     == TakeHead(book, ix)
      fill     == FillLots(book, ix)
      notional == Notional(tick, fill)
      side     == BookSide(ix)
  IN /\ Taking /\ AtOrder(ix) /\ ~HeadExpired(ix) /\ ~HeadIsOwn(ix) /\ fill > 0
     /\ CanUnlock(book, book.pool[head].maker, LockedAsset(side),
                  LockedAtoms(side, tick, fill))
     /\ Continue(FillOrder(book, side, tick, head, fill),
                 [ix EXCEPT !.at = tick, !.lots = @ + fill, !.quote = @ + notional,
                            !.fee = @ + FeeOn(book, notional)])

\* Nothing left to match: budget spent, limit reached, or unaffordable.
TakeOver ==
  /\ Taking
  /\ AtOrder(ix) => ~HeadExpired(ix) /\ ~HeadIsOwn(ix) /\ FillLots(book, ix) = 0

-----------------------------------------------------------------------------
(* Settling the taker                                                      *)

\* add_fees_accrued, once per take.
Accrued(b, i) == [b EXCEPT !.fees = @ + i.fee]

SeatPays(b, i) ==
  IF i.side = "bid" THEN b.seats[i.seat].free["quote"] >= i.quote + i.fee
                    ELSE b.seats[i.seat].free["base"] >= BaseLotSize * i.lots

\* Faulty: a buyer pays the notional and no fee.
SettleTakerFeeless(b, i) ==
  LET sign == IF i.side = "bid" THEN 1 ELSE -1
  IN AddFree(AddFree(b, i.seat, "quote", -sign * i.quote),
             i.seat, "base", sign * BaseLotSize * i.lots)

SettleTaker(b, i) ==
  IF i.side = "bid"
  THEN AddFree(AddFree(b, i.seat, "quote", -(i.quote + i.fee)),
               i.seat, "base", BaseLotSize * i.lots)
  ELSE AddFree(AddFree(b, i.seat, "base", -(BaseLotSize * i.lots)),
               i.seat, "quote", i.quote - i.fee)

\* What the taker receives, after the fee.
Output(i) == IF i.side = "bid" THEN BaseLotSize * i.lots ELSE i.quote - i.fee

\* Faulty: an unmatched remainder is dropped.
EndPlaceLimitDrops ==
  LET acc == Accrued(book, ix)
  IN /\ TakeOver /\ ix.kind = "PlaceLimit"
     /\ IF SeatPays(acc, ix) THEN Commit(SettleTaker(acc, ix), vault) ELSE Abort

\* PlaceLimit settles, then rests what is left at its limit without sliding.
EndPlaceLimit ==
  LET acc  == Accrued(book, ix)
      paid == SettleTaker(acc, ix)
      rest == Remaining(ix)
  IN /\ TakeOver /\ ix.kind = "PlaceLimit"
     /\ IF ~SeatPays(acc, ix) THEN Abort
        ELSE IF rest = 0 THEN Commit(paid, vault)
        ELSE IF ~CanUpsert(paid, ix.seat, ix.side, ix.limit, rest, FALSE) THEN Abort
        ELSE Commit(Upsert(paid, ix.seat, ix.side, ix.limit, rest, ix.expiry, FALSE),
                    vault)

\* PlaceTake drops what is left, and refuses an output under its floor.
EndPlaceTake ==
  LET acc == Accrued(book, ix)
  IN /\ TakeOver /\ ix.kind = "PlaceTake"
     /\ IF Output(ix) < ix.minOut \/ ~SeatPays(acc, ix) THEN Abort
        ELSE Commit(SettleTaker(acc, ix), vault)

\* Faulty: the unused input stays in the vault.
EndSwapKeepsInput ==
  LET outAsset == IF ix.side = "bid" THEN "base" ELSE "quote"
  IN /\ TakeOver /\ ix.kind = "Swap"
     /\ IF Output(ix) < ix.minOut THEN Abort
        ELSE Commit(Accrued(book, ix), [vault EXCEPT ![outAsset] = @ - Output(ix)])

\* Faulty: a buyer's fee is returned with the unused input.
EndSwapReturnsFee ==
  LET consumed == IF ix.side = "bid" THEN ix.quote ELSE BaseLotSize * ix.lots
      inAsset  == IF ix.side = "bid" THEN "quote" ELSE "base"
      outAsset == IF ix.side = "bid" THEN "base" ELSE "quote"
  IN /\ TakeOver /\ ix.kind = "Swap"
     /\ IF Output(ix) < ix.minOut THEN Abort
        ELSE Commit(Accrued(book, ix),
                    [vault EXCEPT ![inAsset] = @ - (ix.delta - consumed),
                                  ![outAsset] = @ - Output(ix)])

\* Swap returns the unused input and pushes the output out of the vaults.
EndSwap ==
  LET consumed == IF ix.side = "bid" THEN ix.quote + ix.fee ELSE BaseLotSize * ix.lots
      leftover == ix.delta - consumed
      inAsset  == IF ix.side = "bid" THEN "quote" ELSE "base"
      outAsset == IF ix.side = "bid" THEN "base" ELSE "quote"
  IN /\ TakeOver /\ ix.kind = "Swap"
     /\ IF Output(ix) < ix.minOut THEN Abort
        ELSE /\ vault[inAsset] >= leftover /\ vault[outAsset] >= Output(ix)
             /\ Commit(Accrued(book, ix),
                       [vault EXCEPT ![inAsset] = @ - leftover,
                                     ![outAsset] = @ - Output(ix)])

TakeStep ==
  \/ TakeExpired \/ TakeOwn \/ TakeFill
  \/ EndPlaceLimit \/ EndPlaceTake \/ EndSwap

TakerNext ==
  \/ \E s \in SeatIds, side \in Sides, limit \in InTicks, lots \in InLots,
        policy \in Policies, expiry \in InExpiries :
       BeginPlaceLimit(s, side, limit, lots, policy, expiry)
  \/ \E s \in SeatIds, side \in Sides, limit \in InTicks, lots \in TakeLots,
        minOut \in MinOuts, policy \in Policies :
       BeginPlaceTake(s, side, limit, lots, minOut, policy)
  \/ \E side \in Sides, limit \in InTicks, amount \in SwapAmounts, minOut \in MinOuts :
       BeginSwap(side, limit, amount, minOut)
=============================================================================
