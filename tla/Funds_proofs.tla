------------------------------ MODULE Funds_proofs ------------------------------
(***************************************************************************)
(* Where the atoms are, for every price, size, fee rate and amount: a swap *)
(* spends no more than arrived and the vaults keep exactly what it spent;  *)
(* and after every step of every instruction the vaults hold what the      *)
(* seats and the accrued fees account for, plus what is in flight.         *)
(***************************************************************************)
EXTENDS Clob_proofs, FiniteSetTheorems

-----------------------------------------------------------------------------
(* A swap: its input, its budget and what it leaves behind                 *)

\* The vaults are as the last success left them, except for the input a swap in
\* flight has pulled in; its budgets are what that input pays for.
InputHeld ==
  IF Taking /\ ix.kind = "Swap"
  THEN LET inAsset == IF ix.side = "bid" THEN "quote" ELSE "base"
       IN /\ vault = [committed.vault EXCEPT ![inAsset] = @ + ix.delta]
          /\ ix.side = "bid" => ix.maxQuote = ix.delta /\ ix.maxQuote # U64Max
          /\ ix.side # "bid" => BaseLotSize * ix.maxLots <= ix.delta
  ELSE vault = committed.vault

\* A quote budget is never exceeded, fees included.
WithinBudget ==
  Taking /\ ix.maxQuote # U64Max => ix.quote + ix.fee <= ix.maxQuote

SwapInv == IInv /\ InputHeld /\ WithinBudget

-----------------------------------------------------------------------------
(* The arithmetic of a budgeted fill                                       *)

LEMMA QuotientBound ==
  ASSUME NEW m \in Nat, NEW d \in Nat \ {0}
  PROVE  m \div d \in Nat /\ (m \div d) * d <= m
OBVIOUS

LEMMA TimesMonotone ==
  ASSUME NEW a \in Nat, NEW b \in Nat, NEW c \in Nat, a <= b
  PROVE  a * c <= b * c
<1>1. PICK k \in Nat : b = a + k
  <2>1. b - a \in Nat /\ b = a + (b - a)
    OBVIOUS
  <2> QED BY <2>1
<1>2. b * c = a * c + k * c /\ k * c \in Nat /\ a * c \in Nat
  BY <1>1
<1> QED BY <1>2

LEMMA TimesCancel ==
  ASSUME NEW a \in Nat, NEW b \in Nat, NEW c \in Nat \ {0}, a * c <= b * c
  PROVE  a <= b
<1>1. ASSUME a > b PROVE FALSE
  <2>1. PICK k \in Nat : a = b + 1 + k
    <3>1. a - (b + 1) \in Nat /\ a = b + 1 + (a - (b + 1))
      BY <1>1
    <3> QED BY <3>1
  <2>2. a * c = b * c + c + k * c /\ k * c \in Nat /\ b * c \in Nat
    BY <2>1
  <2> QED BY <2>2
<1> QED BY <1>1

\* Lots within the net budget cost at most the budget with the fee on top:
\* D is the fee denominator and f the rate.
LEMMA BudgetHolds ==
  ASSUME NEW budget \in Nat, NEW D \in Nat \ {0}, NEW f \in Nat,
         NEW price \in Nat \ {0}, NEW fill \in Nat,
         fill <= ((budget * D) \div (D + f)) \div price
  PROVE  price * fill + ((price * fill) * f) \div D <= budget
<1> DEFINE net  == (budget * D) \div (D + f)
           cost == price * fill
           fee  == (cost * f) \div D
<1>1. budget * D \in Nat /\ D + f \in Nat \ {0}
  BY Products
<1>2. net \in Nat /\ net * (D + f) <= budget * D
  BY <1>1, QuotientBound
<1> HIDE DEF net
<1>3. net \div price \in Nat /\ (net \div price) * price <= net
  BY <1>2, QuotientBound
<1>4. cost \in Nat /\ cost <= net
  <2>1. fill * price <= (net \div price) * price
    BY <1>3, TimesMonotone DEF net
  <2>2. cost = fill * price /\ fill * price \in Nat /\ (net \div price) * price \in Nat
    BY <1>3, Products
  <2> QED BY <1>2, <1>3, <2>1, <2>2
<1> HIDE DEF cost
<1>5. cost * f \in Nat
  BY <1>4, Products
<1>6. fee \in Nat /\ fee * D <= cost * f
  BY <1>5, QuotientBound
<1> HIDE DEF fee
<1>7. (cost + fee) * D = cost * D + fee * D /\ cost * (D + f) = cost * D + cost * f
  BY <1>4, <1>6
<1>8. /\ cost * D \in Nat /\ fee * D \in Nat /\ cost * (D + f) \in Nat
      /\ net * (D + f) \in Nat /\ (cost + fee) * D \in Nat
  BY <1>1, <1>2, <1>4, <1>6, Products
<1>9. cost * (D + f) <= net * (D + f)
  BY <1>1, <1>2, <1>4, TimesMonotone
<1>10. (cost + fee) * D <= budget * D
  BY <1>1, <1>2, <1>5, <1>6, <1>7, <1>8, <1>9
<1>11. cost + fee <= budget
  BY <1>4, <1>6, <1>10, TimesCancel
<1> QED BY <1>11 DEF cost, fee

-----------------------------------------------------------------------------
(* Steps of other instructions                                             *)

\* The instruction ends with the vaults it commits or reverts to, or it is no
\* take and leaves the vaults alone.
Quiet ==
  \/ ix' = Idle /\ vault' = committed'.vault
  \/ ~Taking /\ ix'.op # "Take" /\ vault' = vault /\ committed' = committed

LEMMA QuietInv ==
  ASSUME InputHeld, Quiet
  PROVE  InputHeld' /\ WithinBudget'
BY DEF Quiet, InputHeld, WithinBudget, Taking, Idle

LEMMA CommitQuiet == ASSUME NEW b, NEW v, Commit(b, v) PROVE Quiet
BY DEF Commit, Quiet

LEMMA AbortQuiet == ASSUME Abort PROVE Quiet
BY DEF Abort, Quiet

LEMMA ContinueQuiet ==
  ASSUME ~Taking, NEW b, NEW i, Continue(b, i), i.op # "Take" PROVE Quiet
BY DEF Continue, Quiet

LEMMA CustodyQuiet == ASSUME CustodyNext PROVE Quiet
BY CommitQuiet
   DEF CustodyNext, ClaimSeat, CloseSeat, Deposit, Withdraw, CollectFees, UpdateFee

LEMMA MakerQuiet == ASSUME MakerNext PROVE Quiet
<1>1. ASSUME NEW s \in SeatIds, NEW bids \in Payloads, NEW asks \in Payloads,
             NEW expiry \in InExpiries, BeginMassQuote(s, bids, asks, expiry)
      PROVE  Quiet
  <2> DEFINE i == [op |-> "MassQuote", seat |-> s, bids |-> bids, asks |-> asks,
                   expiry |-> expiry, side |-> "bid", qi |-> 0,
                   prev |-> NIL, cur |-> book.seats[s].head,
                   lastTick |-> 0, lastUsed |-> 0, opposing |-> BestOf(book, "ask")]
  <2>1. Continue(book, i) /\ ~Taking
    BY <1>1 DEF BeginMassQuote, Starts, Taking, Idle
  <2>2. i.op # "Take"
    OBVIOUS
  <2> HIDE DEF i
  <2> QED BY <2>1, <2>2, ContinueQuiet
<1> QED BY <1>1, CommitQuiet DEF MakerNext, PostOnly, CancelQuote, Cancel

LEMMA MergeQuiet == ASSUME IInv, MergeStep PROVE Quiet
<1>1. CASE MergeRefuse
  BY <1>1, AbortQuiet DEF MergeRefuse
<1>2. CASE MergeCommit
  BY <1>2, CommitQuiet DEF MergeCommit
<1>3. ASSUME Merging, NEW b, NEW i, Continue(b, i), i.op = ix.op PROVE Quiet
  BY <1>3, ContinueQuiet DEF Merging, Taking
<1>4. CASE MergeCancel
  <2>1. [ix EXCEPT !.cur = book.pool[ix.cur].makerNext].op = ix.op /\ Merging
    BY <1>4, MergeType DEF MergeCancel, MassQuoteIx
  <2> QED BY <1>3, <1>4, <2>1 DEF MergeCancel
<1>5. CASE MergeKeep
  <2>1. Merging /\ ix \in MassQuoteIx
    BY <1>5, MergeType DEF MergeKeep
  <2>2. ASSUME NEW t, NEW m
        PROVE  [ix EXCEPT !.lastUsed = t, !.lastTick = t, !.qi = @ + 1,
                          !.prev = ix.cur, !.cur = m].op = ix.op
    BY <2>1 DEF MassQuoteIx
  <2> QED BY <1>3, <1>5, <2>1, <2>2 DEF MergeKeep
<1>6. ASSUME Merging, NEW b, NEW next, NEW nextTick, MassQuoteInsert(b, next, nextTick)
      PROVE  Quiet
  <2> DEFINE tick == CheckOrSlideVs(b, ix.side, Quote(ix).tick, ~Quote(ix).reject, ix.opposing)
             n    == b.freeHead
             d    == ChainSplice(LockAndInsert(b, ix.seat, ix.side, tick, Quote(ix).lots,
                                               ix.expiry), ix.seat, ix.prev, next, n)
             i    == [ix EXCEPT !.prev = n, !.cur = next, !.lastUsed = tick,
                                !.lastTick = Quote(ix).tick, !.qi = @ + 1]
  <2>1. Continue(d, i) \/ Abort
    BY <1>6 DEF MassQuoteInsert
  <2>2. i.op = ix.op
    BY <1>6, MergeType DEF MassQuoteIx
  <2> HIDE DEF d, i
  <2> QED BY <1>3, <1>6, <2>1, <2>2, AbortQuiet
<1>7. CASE MergeInsert \/ MergeRepost
  BY <1>6, <1>7 DEF MergeInsert, MergeRepost
<1>8. CASE MergeAsks
  <2>1. Merging /\ ix \in MassQuoteIx
    BY <1>8, MergeType DEF MergeAsks, MergeDone
  <2>2. ASSUME NEW t
        PROVE  [ix EXCEPT !.side = "ask", !.qi = 0, !.lastTick = 0, !.lastUsed = 0,
                          !.opposing = t].op = ix.op
    BY <2>1 DEF MassQuoteIx
  <2> QED BY <1>3, <1>8, <2>1, <2>2 DEF MergeAsks
<1> QED BY <1>1, <1>2, <1>4, <1>5, <1>7, <1>8 DEF MergeStep

LEMMA HygieneQuiet == ASSUME IInv, HygieneNext \/ HygieneStep PROVE Quiet
<1>1. ASSUME ~Taking, NEW b, NEW i, Continue(b, i), i.op # "Take" PROVE Quiet
  BY <1>1, ContinueQuiet
<1>2. CASE HygieneNext
  <2>1. ix = Idle => ~Taking
    BY DEF Taking, Idle
  <2>2. ASSUME NEW t, NEW m, BeginReanchor(t, m) PROVE Quiet
    BY <1>1, <2>1, <2>2 DEF BeginReanchor, Starts
  <2>3. ASSUME NEW side, NEW t, NEW m, BeginReap(side, t, m) PROVE Quiet
    BY <1>1, <2>1, <2>3 DEF BeginReap, Starts
  <2> QED BY <1>2, <2>2, <2>3 DEF HygieneNext
<1>3. CASE ReanchorCommit \/ ReapCommit
  BY <1>3, CommitQuiet DEF ReanchorCommit, ReapCommit
<1>4. CASE EnterWord \/ EvictOrder \/ LeaveWord
  <2>1. Reanchoring /\ ~Taking /\ ix \in ReanchorIx
    BY <1>4, ReanchorType DEF EnterWord, EvictOrder, LeaveWord, Reanchoring, Taking
  <2>2. /\ [ix EXCEPT !.inWord = TRUE].op # "Take"
        /\ [ix EXCEPT !.evicted = @ + 1].op # "Take"
    BY <2>1 DEF Reanchoring, ReanchorIx
  <2>3. ASSUME NEW t PROVE [ix EXCEPT !.inWord = FALSE, !.cur = t].op # "Take"
    BY <2>1 DEF Reanchoring, ReanchorIx
  <2>4. CASE EnterWord
    BY <1>1, <2>1, <2>2, <2>4 DEF EnterWord
  <2>5. CASE EvictOrder
    BY <1>1, <2>1, <2>2, <2>5 DEF EvictOrder
  <2>6. CASE LeaveWord
    BY <1>1, <2>1, <2>3, <2>6 DEF LeaveWord
  <2> QED BY <1>4, <2>4, <2>5, <2>6
<1>5. CASE ReapEnter \/ ReapSkip \/ ReapKill
  <2>1. ~Taking /\ ix \in ReapIx
    BY <1>5, ReapType DEF ReapEnter, ReapSkip, ReapKill, Reaping, Taking
  <2>2. ASSUME NEW t, NEW m
        PROVE  /\ [ix EXCEPT !.tick = t, !.cur = m].op # "Take"
               /\ [ix EXCEPT !.cur = m].op # "Take"
               /\ [ix EXCEPT !.reaped = @ + 1, !.cur = m].op # "Take"
    BY <2>1 DEF ReapIx
  <2>3. CASE ReapEnter
    <3> DEFINE t == Lowest(ReapLevels)
               i == [ix EXCEPT !.tick = t + 1, !.cur = HeadAt(book, t)]
    <3>1. Continue(book, i)
      BY <2>3 DEF ReapEnter
    <3> HIDE DEF t
    <3>2. i.op # "Take"
      BY <2>1 DEF ReapIx
    <3> HIDE DEF i
    <3> QED BY <1>1, <2>1, <3>1, <3>2
  <2>4. CASE ReapSkip
    BY <1>1, <2>1, <2>2, <2>4 DEF ReapSkip
  <2>5. CASE ReapKill
    <3> DEFINE c == KillOrder(book, ix.cur)
               i == [ix EXCEPT !.reaped = @ + 1, !.cur = book.pool[ix.cur].next]
    <3>1. Commit(c, vault) \/ Continue(c, i)
      BY <2>5 DEF ReapKill
    <3>2. i.op # "Take"
      BY <2>2
    <3> HIDE DEF c, i
    <3> QED BY <1>1, <2>1, <3>1, <3>2, CommitQuiet
  <2> QED BY <1>5, <2>3, <2>4, <2>5
<1> QED BY <1>2, <1>3, <1>4, <1>5 DEF HygieneStep

-----------------------------------------------------------------------------
(* The steps of a take                                                     *)

\* What a fill spends of the quote budget: never more than is left of it.
LEMMA FillWithinBudget ==
  ASSUME IInv, WithinBudget, Taking, AtOrder(ix), FillLots(book, ix) > 0,
         ix.maxQuote # U64Max
  PROVE  LET notional == Notional(TakeLevel(book, ix), FillLots(book, ix))
         IN ix.quote + notional + ix.fee + FeeOn(book, notional) <= ix.maxQuote
<1> DEFINE budget == ix.maxQuote - ix.quote - ix.fee
           whole  == FeeDenominator + book.feeBps
           cap    == U64Max \div whole
           capped == IF budget > cap THEN cap ELSE budget
           price  == TakeLevel(book, ix) * TickSize
           fill   == FillLots(book, ix)
           cost   == price * fill
           fee    == (cost * book.feeBps) \div FeeDenominator
<1>1. /\ budget \in Nat /\ ix.quote \in Nat /\ ix.fee \in Nat /\ ix.maxQuote \in Nat
      /\ book.feeBps \in Nat /\ FeeDenominator \in Nat \ {0} /\ whole \in Nat \ {0}
  BY TakeType, InvGood, ProgramAssumption DEF WithinBudget, Good, Book
<1>2. price \in Nat \ {0}
  <2>1. TakeLevel(book, ix) \in Nat \ {0} /\ TickSize \in Nat \ {0}
    BY TakeHeadType, BookAssumption
  <2>2. ASSUME NEW x \in Nat \ {0}, NEW y \in Nat \ {0} PROVE x * y \in Nat \ {0}
    OBVIOUS
  <2> QED BY <2>1, <2>2
<1>3. fill \in Nat
  BY FillLotsType
<1>4. capped \in Nat /\ capped <= budget
  <2>1. cap \in Nat
    BY <1>1, ProgramAssumption, QuotientBound
  <2> HIDE DEF cap, budget
  <2> QED BY <1>1, <2>1
<1>5. Affordable(book, ix) = ((capped * FeeDenominator) \div whole) \div price
  BY DEF Affordable
<1>6. Notional(TakeLevel(book, ix), fill) = cost /\ FeeOn(book, cost) = fee
  BY DEF Notional, FeeOn
<1> HIDE DEF capped, price
<1>7. ((capped * FeeDenominator) \div whole) \div price \in Int
  <2>1. (capped * FeeDenominator) \in Int
    BY <1>1, <1>4, Products
  <2>2. (capped * FeeDenominator) \div whole \in Int
    BY <1>1, <2>1, Products
  <2> QED BY <1>2, <2>2, Products
<1>8. fill <= ((capped * FeeDenominator) \div whole) \div price
  <2>1. fill = Least(Least(book.pool[TakeHead(book, ix)].lots, Remaining(ix)),
                     Affordable(book, ix))
    BY DEF FillLots
  <2>2. book.pool[TakeHead(book, ix)].lots \in Nat /\ Remaining(ix) \in Int
    BY TakeHeadType, TakeType, InvGood, NodeType DEF Good, Remaining
  <2> HIDE DEF fill, whole
  <2> QED BY <1>5, <1>7, <2>1, <2>2 DEF Least
<1>9. cost + fee <= capped
  <2> HIDE DEF fill
  <2> QED BY <1>1, <1>2, <1>3, <1>4, <1>8, BudgetHolds
<1>10. cost \in Nat /\ fee \in Nat
  <2> HIDE DEF fill
  <2>1. cost \in Nat
    BY <1>2, <1>3, Products
  <2> HIDE DEF cost
  <2>2. cost * book.feeBps \in Nat
    BY <1>1, <2>1, Products
  <2> QED BY <1>1, <2>1, <2>2, QuotientBound
<1> HIDE DEF fill, cost, fee
<1>11. ix.quote + cost + ix.fee + fee <= ix.maxQuote
  BY <1>1, <1>4, <1>9, <1>10
<1> QED BY <1>6, <1>11 DEF fill

\* A step of the walk that keeps what was spent within the budget.
LEMMA WalkInv ==
  ASSUME InputHeld, Taking, NEW b, NEW i, Continue(b, i),
         i.op = ix.op, i.kind = ix.kind, i.side = ix.side, i.delta = ix.delta,
         i.maxLots = ix.maxLots, i.maxQuote = ix.maxQuote,
         i.maxQuote # U64Max => i.quote + i.fee <= i.maxQuote
  PROVE  InputHeld' /\ WithinBudget'
BY DEF Continue, InputHeld, WithinBudget, Taking

LEMMA WalkEndsInv ==
  ASSUME SwapInv, Taking,
         Continue(KillOrder(book, TakeHead(book, ix)),
                  [ix EXCEPT !.at = TakeLevel(book, ix)])
  PROVE  InputHeld' /\ WithinBudget'
<1> DEFINE i == [ix EXCEPT !.at = TakeLevel(book, ix)]
<1>1. /\ i.op = ix.op /\ i.kind = ix.kind /\ i.side = ix.side /\ i.delta = ix.delta
      /\ i.maxLots = ix.maxLots /\ i.maxQuote = ix.maxQuote /\ i.quote = ix.quote
      /\ i.fee = ix.fee
  BY TakeType DEF TakeIx, SwapInv
<1> HIDE DEF i
<1> QED BY <1>1, WalkInv DEF i, SwapInv, WithinBudget

LEMMA TakeFillSwapInv ==
  ASSUME SwapInv, TakeFill
  PROVE  InputHeld' /\ WithinBudget'
<1> DEFINE tick     == TakeLevel(book, ix)
           fill     == FillLots(book, ix)
           notional == Notional(tick, fill)
           fee      == FeeOn(book, notional)
           c        == FillOrder(book, BookSide(ix), tick, TakeHead(book, ix), fill)
           i        == [ix EXCEPT !.at = tick, !.lots = @ + fill, !.quote = @ + notional,
                                  !.fee = @ + fee]
<1>1. Taking /\ AtOrder(ix) /\ fill > 0 /\ Continue(c, i) /\ ix \in TakeIx
  BY TakeType DEF TakeFill, SwapInv
<1>2. ASSUME ix.maxQuote # U64Max
      PROVE  ix.quote + notional + ix.fee + fee <= ix.maxQuote
  BY <1>1, <1>2, FillWithinBudget DEF SwapInv
<1>3. notional \in Nat /\ fee \in Nat /\ ix.quote \in Nat /\ ix.fee \in Nat
  <2>1. fill \in Nat /\ tick \in Nat
    BY <1>1, TakeHeadType, FillLotsType DEF SwapInv
  <2> HIDE DEF fill, tick
  <2>2. notional \in Nat
    BY <2>1, Products, BookAssumption DEF Notional
  <2> HIDE DEF notional
  <2>3. notional * book.feeBps \in Nat
    BY <2>2, InvGood, Products DEF SwapInv, Good, Book
  <2> QED BY <1>1, <2>2, <2>3, QuotientBound, ProgramAssumption DEF FeeOn, TakeIx
<1> HIDE DEF tick, fill, notional, fee
<1>4. /\ i.op = ix.op /\ i.kind = ix.kind /\ i.side = ix.side /\ i.delta = ix.delta
      /\ i.maxLots = ix.maxLots /\ i.maxQuote = ix.maxQuote
      /\ i.quote = ix.quote + notional /\ i.fee = ix.fee + fee
  BY <1>1 DEF TakeIx
<1>5. i.maxQuote # U64Max => i.quote + i.fee <= i.maxQuote
  <2> HIDE DEF i
  <2> QED BY <1>1, <1>2, <1>3, <1>4 DEF TakeIx
<1> HIDE DEF c, i
<1> QED BY <1>1, <1>4, <1>5, WalkInv DEF SwapInv

LEMMA BeginSwapSwapInv ==
  ASSUME SwapInv, NEW side \in Sides, NEW limit \in InTicks, NEW amount \in SwapAmounts,
         NEW minOut \in MinOuts, BeginSwap(side, limit, amount, minOut)
  PROVE  InputHeld' /\ WithinBudget'
<1>0. PICK delta \in Received(amount) : SwapWith(side, limit, delta, minOut)
  BY DEF BeginSwap
<1> DEFINE asset  == IF side = "bid" THEN "quote" ELSE "base"
           lotsIn == delta \div BaseLotSize
           lots   == IF side = "bid" \/ lotsIn > MaxLots THEN MaxLots ELSE lotsIn
           budget == IF side = "bid" THEN delta ELSE U64Max
           i      == Take("Swap", NoSeat, side, limit, lots, budget, "cancel", 0, minOut, delta)
<1>1. /\ vault' = [vault EXCEPT ![asset] = @ + delta] /\ ix' = i
      /\ committed' = committed /\ ix = Idle
  BY <1>0 DEF SwapWith, Starts
<1>2. vault = committed.vault
  BY <1>1 DEF SwapInv, InputHeld, Taking, Idle
<1>3. delta \in Nat /\ delta # U64Max
  BY TakerAssumption, ProgramAssumption, ReceivedType
<1>4. side # "bid" => BaseLotSize * lots <= delta
  <2>1. lotsIn \in Nat /\ lotsIn * BaseLotSize <= delta
    BY <1>3, QuotientBound, BookAssumption
  <2> HIDE DEF lotsIn
  <2>2. ASSUME side # "bid" PROVE lots \in Nat /\ lots <= lotsIn
    BY <2>1, <2>2, BookAssumption
  <2> HIDE DEF lots
  <2>3. ASSUME side # "bid" PROVE BaseLotSize * lots <= delta
    <3>1. lots * BaseLotSize <= lotsIn * BaseLotSize
      BY <2>1, <2>2, <2>3, TimesMonotone, BookAssumption
    <3>2. /\ BaseLotSize * lots = lots * BaseLotSize /\ lots * BaseLotSize \in Nat
          /\ lotsIn * BaseLotSize \in Nat
      BY <2>1, <2>2, <2>3, Products, BookAssumption
    <3> QED BY <1>3, <2>1, <3>1, <3>2
  <2> QED BY <2>3
<1>5. /\ i.op = "Take" /\ i.kind = "Swap" /\ i.side = side /\ i.maxLots = lots
      /\ i.maxQuote = budget /\ i.delta = delta /\ i.quote = 0 /\ i.fee = 0
  BY DEF Take
<1> HIDE DEF lots, i
<1> QED BY <1>1, <1>2, <1>3, <1>4, <1>5 DEF InputHeld, WithinBudget, Taking

LEMMA TakerSwapInv ==
  ASSUME SwapInv, TakerNext
  PROVE  InputHeld' /\ WithinBudget'
<1>1. ASSUME ix = Idle, NEW i, Continue(book, i), i.maxQuote = U64Max, i.kind # "Swap"
      PROVE  InputHeld' /\ WithinBudget'
  BY <1>1 DEF Continue, SwapInv, InputHeld, WithinBudget, Taking, Idle
<1>2. ASSUME NEW s, NEW side, NEW limit, NEW lots, NEW policy, NEW expiry,
             BeginPlaceLimit(s, side, limit, lots, policy, expiry)
      PROVE  InputHeld' /\ WithinBudget'
  BY <1>1, <1>2 DEF BeginPlaceLimit, Starts, Take
<1>3. ASSUME NEW s, NEW side, NEW limit, NEW lots, NEW minOut, NEW policy,
             BeginPlaceTake(s, side, limit, lots, minOut, policy)
      PROVE  InputHeld' /\ WithinBudget'
  BY <1>1, <1>3 DEF BeginPlaceTake, Starts, Take
<1> QED BY <1>2, <1>3, BeginSwapSwapInv DEF TakerNext

LEMMA TakeStepSwapInv ==
  ASSUME SwapInv, TakeStep
  PROVE  InputHeld' /\ WithinBudget'
<1>1. InputHeld /\ WithinBudget
  BY DEF SwapInv
<1>2. CASE Abort
  BY <1>1, <1>2, AbortQuiet, QuietInv
<1>3. CASE TakeExpired \/ TakeOwn
  BY <1>2, <1>3, WalkEndsInv DEF TakeExpired, TakeOwn
<1>4. CASE EndPlaceLimit \/ EndPlaceTake \/ EndSwap
  BY <1>1, <1>2, <1>4, CommitQuiet, QuietInv DEF EndPlaceLimit, EndPlaceTake, EndSwap
<1> QED BY <1>3, <1>4, TakeFillSwapInv DEF TakeStep

LEMMA SwapInvHolds == Spec => []SwapInv
<1>1. Init => SwapInv
  BY InitInv DEF Init, SwapInv, InputHeld, WithinBudget, Taking, Idle
<1>2. ASSUME SwapInv, [Next]_vars PROVE SwapInv'
  <2>1. IInv /\ IInv' /\ InputHeld /\ WithinBudget
    BY <1>2, NextInv DEF SwapInv
  <2>2. CASE NextSlot \/ Refused \/ UNCHANGED vars
    BY <2>1, <2>2 DEF NextSlot, Refused, vars, SwapInv, InputHeld, WithinBudget, Taking
  <2>3. CASE CustodyNext \/ MakerNext \/ HygieneNext \/ MergeStep \/ HygieneStep
    BY <2>1, <2>3, CustodyQuiet, MakerQuiet, MergeQuiet, HygieneQuiet, QuietInv DEF SwapInv
  <2>4. CASE TakerNext \/ TakeStep
    BY <1>2, <2>1, <2>4, TakerSwapInv, TakeStepSwapInv DEF SwapInv
  <2> QED BY <1>2, <2>2, <2>3, <2>4 DEF Next, Step
<1> QED BY <1>1, <1>2, PTL DEF Spec

-----------------------------------------------------------------------------
(* The swap's end                                                          *)

\* Only EndSwap ends a swap with success.
LEMMA SwapEnds ==
  ASSUME IInv, Taking, ix.kind = "Swap", [Next]_vars, ix' = Idle, committed' # committed
  PROVE  EndSwap /\ ~Abort
<1>1. ~Abort /\ ix # Idle /\ ~UNCHANGED vars
  BY DEF Abort, Taking, Idle, vars
<1>2. ~CustodyNext
  BY <1>1 DEF CustodyNext, ClaimSeat, CloseSeat, Deposit, Withdraw, CollectFees, UpdateFee,
              Starts
<1>3. ~MakerNext
  BY <1>1 DEF MakerNext, PostOnly, CancelQuote, Cancel, BeginMassQuote, Starts
<1>4. ~TakerNext /\ ~HygieneNext /\ ~NextSlot /\ ~Refused
  BY <1>1 DEF TakerNext, BeginPlaceLimit, BeginPlaceTake, BeginSwap, SwapWith,
              HygieneNext,
              BeginReanchor, BeginReap, NextSlot, Refused, Starts
<1>5. ~MergeStep /\ ~HygieneStep
  <2>1. ~Merging /\ ~Reanchoring /\ ~Reaping
    BY DEF Taking, Merging, Reanchoring, Reaping
  <2>2. ~MergeStep
    BY <2>1 DEF MergeStep, MergeRefuse, MergeCancel, MergeKeep, MergeInsert, MergeRepost,
                MergeAsks, MergeCommit, MergeDone
  <2>3. ~HygieneStep
    BY <2>1 DEF HygieneStep, EnterWord, EvictOrder, LeaveWord, ReanchorCommit, ReapEnter,
                ReapSkip, ReapKill, ReapCommit
  <2> QED BY <2>2, <2>3
<1>6. TakeStep
  BY <1>1, <1>2, <1>3, <1>4, <1>5 DEF Next, Step
<1>7. \A b, i : ~Continue(b, i)
  BY DEF Continue
<1>8. ~TakeExpired /\ ~TakeOwn /\ ~TakeFill
  BY <1>1, <1>7 DEF TakeExpired, TakeOwn, TakeFill
<1> QED BY <1>1, <1>6, <1>8 DEF TakeStep, EndPlaceLimit, EndPlaceTake

LEMMA EndSwapExact ==
  ASSUME SwapInv, EndSwap, ~Abort
  PROVE  LET inAsset  == IF ix.side = "bid" THEN "quote" ELSE "base"
             outAsset == IF ix.side = "bid" THEN "base" ELSE "quote"
             spent    == committed.vault'[inAsset] - committed.vault[inAsset]
             received == committed.vault[outAsset] - committed.vault'[outAsset]
         IN /\ 0 <= spent /\ spent <= ix.delta
            /\ received >= ix.minOut
            /\ (ix.side = "bid") => spent = ix.quote + ix.fee /\ received = BaseLotSize * ix.lots
            /\ (ix.side = "ask") => spent = BaseLotSize * ix.lots /\ received = ix.quote - ix.fee
<1> DEFINE base     == BaseLotSize * ix.lots
           consumed == IF ix.side = "bid" THEN ix.quote + ix.fee ELSE base
           leftover == ix.delta - consumed
           out      == Output(ix)
           inAsset  == IF ix.side = "bid" THEN "quote" ELSE "base"
           outAsset == IF ix.side = "bid" THEN "base" ELSE "quote"
           v        == [vault EXCEPT ![inAsset] = @ - leftover, ![outAsset] = @ - out]
           cv       == committed.vault
<1>1. /\ Taking /\ ix.kind = "Swap" /\ ~(out < ix.minOut)
      /\ committed'.vault = v
  <2>1. /\ Taking /\ ix.kind = "Swap" /\ ~(out < ix.minOut)
        /\ Commit(Accrued(book, ix), v)
    BY DEF EndSwap, TakeOver
  <2> HIDE DEF v, out
  <2> QED BY <2>1 DEF Commit
<1>2. /\ ix.side \in Sides /\ ix.quote \in Nat /\ ix.fee \in Nat /\ ix.fee <= ix.quote
      /\ ix.delta \in Nat /\ ix.minOut \in Nat /\ base \in Nat /\ ix.lots \in Nat
      /\ ix.maxLots \in Nat /\ ix.lots <= ix.maxLots
  BY <1>1, TakeType, Products, BookAssumption DEF SwapInv
<1>3. /\ vault = [cv EXCEPT ![inAsset] = @ + ix.delta] /\ cv \in Vault
      /\ ix.side = "bid" => ix.maxQuote = ix.delta /\ ix.maxQuote # U64Max
      /\ ix.side # "bid" => BaseLotSize * ix.maxLots <= ix.delta
  BY <1>1 DEF SwapInv, InputHeld, IInv, TypeOK
<1>4. consumed \in Nat /\ consumed <= ix.delta
  <2>1. CASE ix.side = "bid"
    BY <1>1, <1>2, <1>3, <2>1 DEF SwapInv, WithinBudget
  <2>2. CASE ix.side # "bid"
    <3>1. ix.lots * BaseLotSize <= ix.maxLots * BaseLotSize
      BY <1>2, TimesMonotone, BookAssumption
    <3>2. /\ ix.lots * BaseLotSize = base /\ ix.maxLots * BaseLotSize = BaseLotSize * ix.maxLots
          /\ BaseLotSize * ix.maxLots \in Nat
      BY <1>2, Products, BookAssumption
    <3> HIDE DEF base
    <3> QED BY <1>2, <1>3, <2>2, <3>1, <3>2
  <2> QED BY <2>1, <2>2
<1>5. inAsset \in Assets /\ outAsset \in Assets /\ inAsset # outAsset
  BY DEF Assets
<1>6. out \in Int /\ out = (IF ix.side = "bid" THEN base ELSE ix.quote - ix.fee)
  BY <1>2 DEF Output
<1> HIDE DEF base, out
<1>7. cv[inAsset] \in Nat /\ cv[outAsset] \in Nat
  BY <1>3, <1>5 DEF Vault
<1>8. v[inAsset] = cv[inAsset] + consumed /\ v[outAsset] = cv[outAsset] - out
  <2> HIDE DEF inAsset, outAsset
  <2>1. vault[inAsset] = cv[inAsset] + ix.delta /\ vault[outAsset] = cv[outAsset]
        /\ vault \in [Assets -> Int]
    BY <1>2, <1>3, <1>5, <1>7 DEF Vault
  <2>2. v[inAsset] = vault[inAsset] - leftover /\ v[outAsset] = vault[outAsset] - out
    BY <1>5, <2>1
  <2> HIDE DEF v, consumed
  <2> QED BY <1>2, <1>4, <1>7, <2>1, <2>2
<1> HIDE DEF v, cv
<1>9. committed'.vault[inAsset] - cv[inAsset] = consumed
      /\ cv[outAsset] - committed'.vault[outAsset] = out
  <2> HIDE DEF consumed, inAsset, outAsset
  <2> QED BY <1>1, <1>4, <1>6, <1>7, <1>8
<1>10. /\ 0 <= consumed /\ consumed <= ix.delta /\ out >= ix.minOut
       /\ ix.side = "bid" => consumed = ix.quote + ix.fee /\ out = BaseLotSize * ix.lots
       /\ ix.side = "ask" => consumed = BaseLotSize * ix.lots /\ out = ix.quote - ix.fee
  BY <1>1, <1>2, <1>4, <1>6 DEF base
<1> HIDE DEF consumed
<1> QED BY <1>9, <1>10 DEF cv

\* Every swap that succeeds keeps exactly what it spent, never more than
\* arrived, and pays out its proceeds, never less than the floor.
THEOREM SwapKeepsWhatItSpent == Spec => SwapExact
<1> DEFINE A == TakeCommits /\ ix.kind = "Swap" =>
       LET inAsset  == IF ix.side = "bid" THEN "quote" ELSE "base"
           outAsset == IF ix.side = "bid" THEN "base" ELSE "quote"
           spent    == committed.vault'[inAsset] - committed.vault[inAsset]
           received == committed.vault[outAsset] - committed.vault'[outAsset]
       IN /\ 0 <= spent /\ spent <= ix.delta
          /\ received >= ix.minOut
          /\ (ix.side = "bid") => spent = ix.quote + ix.fee /\ received = BaseLotSize * ix.lots
          /\ (ix.side = "ask") => spent = BaseLotSize * ix.lots /\ received = ix.quote - ix.fee
<1>1. SwapInv /\ [Next]_vars => [A]_committed
  <2> SUFFICES ASSUME SwapInv, [Next]_vars, TakeCommits, ix.kind = "Swap",
                      committed' # committed
               PROVE  A
    OBVIOUS
  <2>1. EndSwap /\ ~Abort
    BY SwapEnds DEF SwapInv, TakeCommits
  <2> QED BY <2>1, EndSwapExact
<1>2. Spec => [][A]_committed
  BY <1>1, SwapInvHolds, PTL DEF Spec
<1> QED BY <1>2 DEF SwapExact

-----------------------------------------------------------------------------
(* Sums over finite sets                                                   *)

\* Among sets of subsets of a finite set, one is least: taking any element out
\* of it leaves the collection.
LEMMA LeastSet ==
  ASSUME NEW U, IsFiniteSet(U), NEW X, X \subseteq SUBSET U, X # {}
  PROVE  \E T \in X : T \subseteq U /\ \A x \in T : T \ {x} \notin X
<1> DEFINE R == StrictSubsetOrdering(U)
<1>1. IsWellFoundedOn(R, SUBSET U)
  <2>1. FiniteSubsetsOf(U) = SUBSET U
    BY FS_FiniteSubsetsOfFinite
  <2>2. IsWellFoundedOn(StrictSubsetOrdering(U), FiniteSubsetsOf(U))
    BY FS_StrictSubsetOrderingWellFounded
  <2> QED BY <2>1, <2>2
<1>2. PICK T \in X : \A V \in X : <<V, T>> \notin R
  <2> HIDE DEF R
  <2> QED BY <1>1, WFMin, Zenon
<1>3. T \subseteq U
  OBVIOUS
<1>4. ASSUME NEW x \in T PROVE T \ {x} \notin X
  <2> DEFINE V == T \ {x}
  <2>1. V \in SUBSET U /\ T \in SUBSET U /\ V \subseteq T /\ V # T
    BY <1>3
  <2> HIDE DEF V
  <2>2. /\ <<V, T>> \in (SUBSET U) \X (SUBSET U)
        /\ <<V, T>>[1] \subseteq <<V, T>>[2] /\ <<V, T>>[1] # <<V, T>>[2]
    BY <2>1
  <2>3. <<V, T>> \in R
    BY <2>2, Zenon DEF StrictSubsetOrdering
  <2> HIDE DEF R
  <2>4. V \notin X
    BY <1>2, <2>3
  <2> QED BY <2>4 DEF V
<1> QED BY <1>3, <1>4

\* The recursion has a solution: a solution on the sets of at most n elements
\* gives one on those of at most n + 1.
LEMMA SummingExists ==
  ASSUME NEW g, NEW S, IsFiniteSet(S)
  PROVE  Summing(g, S) = SumBody(g, S, Summing(g, S))
<1> DEFINE First(T) == CHOOSE x \in T : TRUE
           Small(n) == {T \in SUBSET S : Cardinality(T) <= n}
           Value(it, T) == IF T = {} THEN 0 ELSE g[First(T)] + it[T \ {First(T)}]
           Solves(it, n) == it = [T \in Small(n) |-> Value(it, T)]
           N == {n \in Nat : \E it : Solves(it, n)}
<1>1. ASSUME NEW T \in SUBSET S
      PROVE  /\ Cardinality(T) \in Nat
             /\ T # {} => /\ T \ {First(T)} \in SUBSET S
                          /\ Cardinality(T \ {First(T)}) = Cardinality(T) - 1
             /\ Cardinality(T) = 0 <=> T = {}
  <2>1. IsFiniteSet(T)
    BY FS_Subset
  <2>2. T # {} => First(T) \in T
    OBVIOUS
  <2> HIDE DEF First
  <2> QED BY <2>1, <2>2, FS_CardinalityType, FS_RemoveElement, FS_EmptySet
<1>2. 0 \in N
  <2> DEFINE it == [T \in Small(0) |-> 0]
  <2>1. \A T \in Small(0) : T = {}
    <3>1. ASSUME NEW T \in Small(0) PROVE T = {}
      <4>1. T \in SUBSET S /\ Cardinality(T) <= 0
        OBVIOUS
      <4>2. Cardinality(T) \in Nat /\ (Cardinality(T) = 0 <=> T = {})
        BY <1>1, <4>1
      <4> QED BY <4>1, <4>2
    <3> QED BY <3>1
  <2>2. Solves(it, 0)
    BY <2>1
  <2> QED BY <2>2
<1>3. ASSUME NEW n \in N PROVE n + 1 \in N
  <2>1. n \in Nat
    OBVIOUS
  <2>2. PICK it : Solves(it, n)
    OBVIOUS
  <2> DEFINE jt == [T \in Small(n + 1) |-> Value(it, T)]
  <2>3. ASSUME NEW T \in Small(n + 1), T # {} PROVE T \ {First(T)} \in Small(n)
    <3>1. Cardinality(T) <= n + 1 /\ T \in SUBSET S
      OBVIOUS
    <3> HIDE DEF First
    <3> QED BY <1>1, <3>1, <2>1, <2>3
  <2>4. ASSUME NEW T \in Small(n) PROVE T \in Small(n + 1) /\ it[T] = jt[T]
    <3>1. Cardinality(T) <= n /\ T \in SUBSET S /\ Cardinality(T) \in Nat
      BY <1>1
    <3>2. T \in Small(n + 1)
      BY <2>1, <3>1
    <3>3. it[T] = Value(it, T)
      BY <2>2, Zenon
    <3> HIDE DEF Value
    <3> QED BY <3>2, <3>3
  <2>5. ASSUME NEW T \in Small(n + 1) PROVE Value(it, T) = Value(jt, T)
    <3>1. T # {} => it[T \ {First(T)}] = jt[T \ {First(T)}]
      <4> HIDE DEF jt, Small, First
      <4> QED BY <2>3, <2>4
    <3> HIDE DEF jt, Small, First
    <3> QED BY <3>1
  <2>6. jt = [T \in Small(n + 1) |-> Value(jt, T)]
    <3>1. \A T \in Small(n + 1) : Value(it, T) = Value(jt, T)
      BY <2>5, Zenon
    <3> HIDE DEF Value, Small
    <3> QED BY <3>1
  <2>7. n + 1 \in Nat /\ Solves(jt, n + 1)
    <3> HIDE DEF jt, Small, Value
    <3> QED BY <2>1, <2>6
  <2> HIDE DEF jt, Solves
  <2> QED BY <2>7
<1>4. Nat = N
  <2>1. N \subseteq Nat
    OBVIOUS
  <2> HIDE DEF N
  <2>2. SUFFICES ASSUME Nat \ N # {} PROVE FALSE
    BY <2>1
  <2>3. PICK m \in Nat \ N : \A k \in Nat \ N : m <= k
    BY <2>2, NatLeast
  <2>4. m # 0 /\ m - 1 \in Nat
    BY <1>2, <2>3
  <2>5. m - 1 \in N
    BY <2>3, <2>4
  <2>6. (m - 1) + 1 \in N
    BY <1>3, <2>5
  <2> QED BY <2>3, <2>6
<1>5. PICK it : Solves(it, Cardinality(S))
  <2>1. Cardinality(S) \in N
    <3>1. Cardinality(S) \in Nat
      BY FS_CardinalityType
    <3> HIDE DEF N
    <3> QED BY <1>4, <3>1
  <2> QED BY <2>1
<1>6. Small(Cardinality(S)) = SUBSET S
  BY FS_Subset
<1>7. it = SumBody(g, S, it)
  <2> HIDE DEF Small
  <2> QED BY <1>5, <1>6 DEF SumBody
<1> QED BY <1>7, Zenon DEF Summing

\* A solution on a larger set agrees with one on a smaller set.
LEMMA SummingAgrees ==
  ASSUME NEW g, NEW S, IsFiniteSet(S), NEW P \in SUBSET S
  PROVE  Summing(g, S)[P] = SumOver(g, P)
<1> DEFINE First(T) == CHOOSE x \in T : TRUE
           N == {T \in SUBSET P : Summing(g, S)[T] = Summing(g, P)[T]}
<1>1. IsFiniteSet(P)
  BY FS_Subset
<1>2. ASSUME NEW V, P \in SUBSET V, IsFiniteSet(V), NEW T \in SUBSET P
      PROVE  Summing(g, V)[T] = IF T = {} THEN 0 ELSE g[First(T)] + Summing(g, V)[T \ {First(T)}]
  <2>1. Summing(g, V) = SumBody(g, V, Summing(g, V))
    BY <1>2, SummingExists
  <2>2. T \in SUBSET V
    BY <1>2
  <2> DEFINE it == Summing(g, V)
  <2>3. it = SumBody(g, V, it)
    BY <2>1
  <2> HIDE DEF it
  <2>4. it[T] = IF T = {} THEN 0 ELSE g[First(T)] + it[T \ {First(T)}]
    BY <2>2, <2>3 DEF SumBody
  <2> QED BY <2>4 DEF it
<1>3. SUFFICES N = SUBSET P
  BY <1>1, SumOverDef
<1> DEFINE X == (SUBSET P) \ N
<1>4. SUFFICES ASSUME X # {} PROVE FALSE
  OBVIOUS
<1>5. PICK T \in X : \A x \in T : T \ {x} \notin X
  <2>1. X \subseteq SUBSET P
    OBVIOUS
  <2> HIDE DEF X
  <2> QED BY <1>1, <1>4, <2>1, LeastSet
<1>6. T \in SUBSET P /\ Summing(g, S)[T] # Summing(g, P)[T]
  OBVIOUS
<1>7. T # {}
  BY <1>1, <1>2, <1>6
<1>8. First(T) \in T
  BY <1>7
<1> HIDE DEF First
<1> DEFINE V == T \ {First(T)}
<1>9. V \notin X
  <2> HIDE DEF X
  <2> QED BY <1>5, <1>8
<1>10. Summing(g, S)[V] = Summing(g, P)[V]
  <2>1. V \in SUBSET P
    BY <1>6
  <2> HIDE DEF V
  <2> QED BY <1>9, <2>1
<1>11. Summing(g, S)[T] = g[First(T)] + Summing(g, S)[V]
  BY <1>2, <1>6, <1>7
<1>12. Summing(g, P)[T] = g[First(T)] + Summing(g, P)[V]
  BY <1>1, <1>2, <1>6, <1>7
<1> QED BY <1>6, <1>10, <1>11, <1>12

\* The sum over a set, one of its elements taken out.
LEMMA SumOverStep ==
  ASSUME NEW g, NEW S, IsFiniteSet(S)
  PROVE  /\ S = {} => SumOver(g, S) = 0
         /\ S # {} => \E x \in S : SumOver(g, S) = g[x] + SumOver(g, S \ {x})
<1> DEFINE First(T) == CHOOSE x \in T : TRUE
           it == Summing(g, S)
<1>1. it = SumBody(g, S, it)
  BY SummingExists
<1>2. SumOver(g, S) = it[S]
  BY SumOverDef
<1> HIDE DEF it
<1>3. it[S] = IF S = {} THEN 0 ELSE g[First(S)] + it[S \ {First(S)}]
  BY <1>1 DEF SumBody
<1>4. S # {} => First(S) \in S
  OBVIOUS
<1> HIDE DEF First
<1>5. S \ {First(S)} \in SUBSET S
  OBVIOUS
<1>6. it[S \ {First(S)}] = SumOver(g, S \ {First(S)})
  BY <1>5, SummingAgrees DEF it
<1> QED BY <1>2, <1>3, <1>4, <1>6

\* Sums of integers are integers.
LEMMA SumOverInt ==
  ASSUME NEW g, NEW S, IsFiniteSet(S), \A x \in S : g[x] \in Int
  PROVE  SumOver(g, S) \in Int
<1> DEFINE X == {T \in SUBSET S : SumOver(g, T) \notin Int}
<1>1. SUFFICES ASSUME X # {} PROVE FALSE
  <2>1. S \notin X => SumOver(g, S) \in Int
    OBVIOUS
  <2> QED BY <2>1
<1>2. PICK T \in X : T \subseteq S /\ \A x \in T : T \ {x} \notin X
  <2>1. X \subseteq SUBSET S
    OBVIOUS
  <2> HIDE DEF X
  <2> QED BY <1>1, <2>1, LeastSet
<1>3. SumOver(g, T) \notin Int
  OBVIOUS
<1>4. IsFiniteSet(T)
  BY <1>2, FS_Subset
<1>5. PICK x \in T : SumOver(g, T) = g[x] + SumOver(g, T \ {x})
  BY <1>3, <1>4, SumOverStep
<1>6. SumOver(g, T \ {x}) \in Int
  <2>1. T \ {x} \notin X /\ T \ {x} \in SUBSET S
    BY <1>2
  <2> QED BY <2>1
<1> QED BY <1>2, <1>3, <1>5, <1>6

\* Any element may be taken out.
LEMMA SumOverTake ==
  ASSUME NEW g, NEW S, IsFiniteSet(S), \A x \in S : g[x] \in Int, NEW y \in S
  PROVE  SumOver(g, S) = g[y] + SumOver(g, S \ {y})
<1> DEFINE Wrong(T) == \E z \in T : SumOver(g, T) # g[z] + SumOver(g, T \ {z})
           X == {T \in SUBSET S : Wrong(T)}
<1>1. SUFFICES ASSUME X # {} PROVE FALSE
  <2>1. S \notin X => ~Wrong(S)
    OBVIOUS
  <2> QED BY <2>1
<1>2. PICK T \in X : T \subseteq S /\ \A x \in T : T \ {x} \notin X
  <2>1. X \subseteq SUBSET S
    OBVIOUS
  <2> HIDE DEF X
  <2> QED BY <1>1, <2>1, LeastSet
<1>3. PICK z \in T : SumOver(g, T) # g[z] + SumOver(g, T \ {z})
  OBVIOUS
<1>4. IsFiniteSet(T) /\ \A V \in SUBSET T : IsFiniteSet(V)
  BY <1>2, FS_Subset
<1>5. PICK x \in T : SumOver(g, T) = g[x] + SumOver(g, T \ {x})
  BY <1>3, <1>4, SumOverStep
<1>6. x # z
  BY <1>3, <1>5
<1>7. ASSUME NEW u \in T, NEW v \in T, u # v
      PROVE  SumOver(g, T \ {u}) = g[v] + SumOver(g, (T \ {u}) \ {v})
  <2>1. T \ {u} \notin X /\ T \ {u} \in SUBSET S
    BY <1>2
  <2>2. ~Wrong(T \ {u})
    BY <2>1
  <2> QED BY <1>7, <2>2
<1>8. (T \ {x}) \ {z} = (T \ {z}) \ {x}
  OBVIOUS
<1>9. SumOver(g, (T \ {x}) \ {z}) \in Int /\ g[x] \in Int /\ g[z] \in Int
  <2>1. (T \ {x}) \ {z} \in SUBSET T
    OBVIOUS
  <2>2. IsFiniteSet((T \ {x}) \ {z})
    BY <1>4, <2>1
  <2>3. \A v \in (T \ {x}) \ {z} : g[v] \in Int
    BY <1>2
  <2> QED BY <1>2, <2>2, <2>3, SumOverInt
<1>10. SumOver(g, T \ {x}) = g[z] + SumOver(g, (T \ {x}) \ {z})
  BY <1>6, <1>7
<1>11. SumOver(g, T \ {z}) = g[x] + SumOver(g, (T \ {x}) \ {z})
  BY <1>6, <1>7, <1>8
<1> QED BY <1>3, <1>5, <1>9, <1>10, <1>11

\* A sum depends on nothing but the values it adds up.
LEMMA SumOverSame ==
  ASSUME NEW g, NEW h, NEW S, IsFiniteSet(S),
         \A x \in S : g[x] \in Int /\ g[x] = h[x]
  PROVE  SumOver(g, S) = SumOver(h, S)
<1> DEFINE X == {T \in SUBSET S : SumOver(g, T) # SumOver(h, T)}
<1>1. SUFFICES ASSUME X # {} PROVE FALSE
  <2>1. S \notin X => SumOver(g, S) = SumOver(h, S)
    OBVIOUS
  <2> QED BY <2>1
<1>2. PICK T \in X : T \subseteq S /\ \A x \in T : T \ {x} \notin X
  <2>1. X \subseteq SUBSET S
    OBVIOUS
  <2> HIDE DEF X
  <2> QED BY <1>1, <2>1, LeastSet
<1>3. SumOver(g, T) # SumOver(h, T)
  OBVIOUS
<1>4. IsFiniteSet(T)
  BY <1>2, FS_Subset
<1>5. T # {}
  BY <1>3, <1>4, SumOverStep
<1>6. PICK x \in T : SumOver(g, T) = g[x] + SumOver(g, T \ {x})
  BY <1>4, <1>5, SumOverStep
<1>7. SumOver(h, T) = h[x] + SumOver(h, T \ {x})
  <2>1. \A v \in T : h[v] \in Int
    BY <1>2
  <2> QED BY <1>4, <2>1, SumOverTake
<1>8. SumOver(g, T \ {x}) = SumOver(h, T \ {x})
  <2>1. T \ {x} \notin X /\ T \ {x} \in SUBSET S
    BY <1>2
  <2> QED BY <2>1
<1> QED BY <1>2, <1>3, <1>6, <1>7, <1>8

\* One value changes: so does the sum, by as much.
LEMMA SumOverChange ==
  ASSUME NEW g, NEW h, NEW S, IsFiniteSet(S), NEW y \in S,
         \A x \in S : g[x] \in Int /\ h[x] \in Int,
         \A x \in S \ {y} : h[x] = g[x]
  PROVE  SumOver(h, S) = SumOver(g, S) - g[y] + h[y]
<1>1. IsFiniteSet(S \ {y})
  BY FS_RemoveElement
<1>2. SumOver(g, S \ {y}) = SumOver(h, S \ {y})
  BY <1>1, SumOverSame
<1>3. SumOver(g, S) = g[y] + SumOver(g, S \ {y}) /\ SumOver(h, S) = h[y] + SumOver(h, S \ {y})
  BY SumOverTake
<1>4. SumOver(g, S \ {y}) \in Int
  BY <1>1, SumOverInt
<1> QED BY <1>2, <1>3, <1>4

LEMMA SumOverAdd ==
  ASSUME NEW g, NEW S, IsFiniteSet(S), NEW y, y \notin S,
         \A x \in S \cup {y} : g[x] \in Int
  PROVE  SumOver(g, S \cup {y}) = g[y] + SumOver(g, S)
<1>1. IsFiniteSet(S \cup {y}) /\ y \in S \cup {y} /\ (S \cup {y}) \ {y} = S
  BY FS_AddElement
<1> QED BY <1>1, SumOverTake

\* Sums of naturals are naturals, and no term exceeds them.
LEMMA SumOverNat ==
  ASSUME NEW g, NEW S, IsFiniteSet(S), \A x \in S : g[x] \in Nat
  PROVE  /\ SumOver(g, S) \in Nat
         /\ \A x \in S : g[x] <= SumOver(g, S)
<1> DEFINE X == {T \in SUBSET S : SumOver(g, T) \notin Nat}
<1>1. ASSUME X # {} PROVE FALSE
  <2>1. PICK T \in X : T \subseteq S /\ \A x \in T : T \ {x} \notin X
    <3>1. X \subseteq SUBSET S
      OBVIOUS
    <3> HIDE DEF X
    <3> QED BY <1>1, <3>1, LeastSet
  <2>2. SumOver(g, T) \notin Nat
    OBVIOUS
  <2>3. IsFiniteSet(T)
    BY <2>1, FS_Subset
  <2>4. PICK x \in T : SumOver(g, T) = g[x] + SumOver(g, T \ {x})
    BY <2>2, <2>3, SumOverStep
  <2>5. SumOver(g, T \ {x}) \in Nat
    <3>1. T \ {x} \notin X /\ T \ {x} \in SUBSET S
      BY <2>1
    <3> QED BY <3>1
  <2> QED BY <2>1, <2>2, <2>4, <2>5
<1>2. ASSUME NEW V \in SUBSET S PROVE SumOver(g, V) \in Nat
  BY <1>1
<1>3. ASSUME NEW x \in S PROVE g[x] <= SumOver(g, S)
  <2>1. SumOver(g, S) = g[x] + SumOver(g, S \ {x})
    BY SumOverTake
  <2>2. SumOver(g, S \ {x}) \in Nat
    BY <1>2
  <2> QED BY <2>1, <2>2
<1> QED BY <1>2, <1>3

-----------------------------------------------------------------------------
(* What a book says of balances and fees                                   *)

\* What of a book its funds are read from.
Banked(b) ==
  /\ {"fees", "seats"} \subseteq DOMAIN b /\ SeatIds \subseteq DOMAIN b.seats
  /\ \A s \in SeatIds : {"free", "locked"} \subseteq DOMAIN b.seats[s]

\* No balance differs, nor the fees accrued.
SameFunds(b, c) ==
  /\ Banked(c) /\ c.fees = b.fees
  /\ \A s \in SeatIds : /\ c.seats[s].free = b.seats[s].free
                        /\ c.seats[s].locked = b.seats[s].locked

LEMMA BookBanked == ASSUME NEW b \in Book PROVE Banked(b) /\ SameFunds(b, b)
BY DEF Book, Seat, Banked, SameFunds

\* Every setter but those of a balance.
LEMMA SettersSameFunds ==
  ASSUME NEW a, NEW b, SameFunds(a, b), NEW x, NEW y
  PROVE  /\ SameFunds(a, SetOwner(b, x, y)) /\ SameFunds(a, SetOrdersHead(b, x, y))
         /\ SameFunds(a, SetOrderCount(b, x, y))
         /\ SameFunds(a, SetPrev(b, x, y)) /\ SameFunds(a, SetNext(b, x, y))
         /\ SameFunds(a, SetMakerPrev(b, x, y)) /\ SameFunds(a, SetMakerNext(b, x, y))
         /\ SameFunds(a, SetTick(b, x, y)) /\ SameFunds(a, SetMaker(b, x, y))
         /\ SameFunds(a, SetSide(b, x, y)) /\ SameFunds(a, SetLots(b, x, y))
         /\ SameFunds(a, SetExpiry(b, x, y)) /\ SameFunds(a, SetSeq(b, x, y))
         /\ SameFunds(a, SetHead(b, x, y)) /\ SameFunds(a, SetTail(b, x, y))
         /\ SameFunds(a, AddLots(b, x, y)) /\ SameFunds(a, ZeroLevel(b, x))
         /\ SameFunds(a, SetBit(b, x, y)) /\ SameFunds(a, ClearBit(b, x, y))
         /\ SameFunds(a, SetFreeHead(b, x)) /\ SameFunds(a, SetFreeCount(b, x))
         /\ SameFunds(a, SetOrderSeq(b, x)) /\ SameFunds(a, BumpSeq(b))
<1>3. /\ SameFunds(a, SetOwner(b, x, y)) /\ SameFunds(a, SetOrdersHead(b, x, y))
      /\ SameFunds(a, SetOrderCount(b, x, y))
  BY DEF SameFunds, Banked, SetOwner, SetOrdersHead, SetOrderCount
<1>4. /\ SameFunds(a, SetPrev(b, x, y)) /\ SameFunds(a, SetNext(b, x, y))
      /\ SameFunds(a, SetMakerPrev(b, x, y)) /\ SameFunds(a, SetMakerNext(b, x, y))
  BY DEF SameFunds, Banked, SetPrev, SetNext, SetMakerPrev, SetMakerNext
<1>5. /\ SameFunds(a, SetTick(b, x, y)) /\ SameFunds(a, SetMaker(b, x, y))
      /\ SameFunds(a, SetSide(b, x, y)) /\ SameFunds(a, SetLots(b, x, y))
      /\ SameFunds(a, SetExpiry(b, x, y)) /\ SameFunds(a, SetSeq(b, x, y))
  BY DEF SameFunds, Banked, SetTick, SetMaker, SetSide, SetLots, SetExpiry, SetSeq
<1>6. /\ SameFunds(a, SetHead(b, x, y)) /\ SameFunds(a, SetTail(b, x, y))
      /\ SameFunds(a, AddLots(b, x, y)) /\ SameFunds(a, ZeroLevel(b, x))
  BY DEF SameFunds, Banked, SetHead, SetTail, AddLots, ZeroLevel
<1>7. /\ SameFunds(a, SetBit(b, x, y)) /\ SameFunds(a, ClearBit(b, x, y))
      /\ SameFunds(a, SetFreeHead(b, x)) /\ SameFunds(a, SetFreeCount(b, x))
      /\ SameFunds(a, SetOrderSeq(b, x)) /\ SameFunds(a, BumpSeq(b))
  BY DEF SameFunds, Banked, SetBit, ClearBit, SetFreeHead, SetFreeCount, SetOrderSeq, BumpSeq
<1> QED BY <1>3, <1>4, <1>5, <1>6, <1>7

\* Taking an order off its level and its chain, putting one on.
LEMMA ListsSameFunds ==
  ASSUME NEW a, NEW b, SameFunds(a, b), NEW s, NEW x, NEW y, NEW z, NEW n
  PROVE  /\ SameFunds(a, AllocNode(b)) /\ SameFunds(a, FreeNode(b, n))
         /\ SameFunds(a, FifoAppend(b, x, y, n, z)) /\ SameFunds(a, FifoUnlink(b, x, n))
         /\ SameFunds(a, ChainUnlink(b, n)) /\ SameFunds(a, ChainSplice(b, s, x, y, n))
         /\ SameFunds(a, ChainInsertSorted(b, s, n))
         /\ SameFunds(a, BookInsert(b, x, y, z, s, n))
<1>1. \A c, m : SameFunds(a, c) => SameFunds(a, FreeNode(c, m))
  BY SettersSameFunds DEF FreeNode
<1>2. SameFunds(a, AllocNode(b))
  BY SettersSameFunds DEF AllocNode
<1>3. \A c, d, t, m, k : SameFunds(a, c) => SameFunds(a, FifoAppend(c, d, t, m, k))
  <2> SUFFICES ASSUME NEW c, NEW d, NEW t, NEW m, NEW k, SameFunds(a, c)
               PROVE  SameFunds(a, FifoAppend(c, d, t, m, k))
    OBVIOUS
  <2>1. SameFunds(a, AddLots(SetTail(c, Slot(t), m), Slot(t), k))
    BY SettersSameFunds
  <2> QED BY <2>1, SettersSameFunds DEF FifoAppend
<1>4. SameFunds(a, FifoUnlink(b, x, n))
  <2>1. SameFunds(a, FifoBypass(b, n))
    BY SettersSameFunds DEF FifoBypass
  <2> QED BY <2>1, SettersSameFunds DEF FifoUnlink
<1>5. SameFunds(a, ChainUnlink(b, n))
  <2>1. SameFunds(a, ChainBypass(b, n))
    BY SettersSameFunds DEF ChainBypass
  <2> QED BY <1>1, <2>1, SettersSameFunds DEF ChainUnlink
<1>6. \A p, q : SameFunds(a, ChainSplice(b, s, p, q, n))
  BY SettersSameFunds DEF ChainSplice
<1>7. SameFunds(a, ChainInsertSorted(b, s, n))
  <2> DEFINE Key(m, k) == ChainBefore(b.pool[m].side, b.pool[m].tick,
                                      b.pool[k].side, b.pool[k].tick)
             others == LiveOf(b, s) \ {n}
             below  == {m \in others : Key(m, n)}
             above  == others \ below
             prev   == IF below = {} THEN NIL
                       ELSE CHOOSE m \in below : \A k \in below : ~Key(m, k)
             next   == IF above = {} THEN NIL
                       ELSE CHOOSE m \in above : \A k \in above : ~Key(k, m)
  <2>1. ChainInsertSorted(b, s, n) = ChainSplice(b, s, prev, next, n)
    BY DEF ChainInsertSorted
  <2> HIDE DEF prev, next
  <2> QED BY <1>6, <2>1
<1>8. SameFunds(a, BookInsert(b, x, y, z, s, n))
  <2> DEFINE m  == b.freeHead
             id == NextOrderId(b)
             c  == SetOrderSeq(AllocNode(b), id + 1)
             d  == SetSide(SetMaker(SetTick(c, m, y), m, s), m, x)
             e  == SetSeq(SetExpiry(SetLots(d, m, z), m, n), m, id)
  <2>1. SameFunds(a, c)
    BY <1>2, SettersSameFunds
  <2>2. SameFunds(a, e)
    <3> HIDE DEF c
    <3> QED BY <2>1, SettersSameFunds
  <2>3. BookInsert(b, x, y, z, s, n) = FifoAppend(e, x, y, m, z)
    BY DEF BookInsert
  <2> HIDE DEF e
  <2> QED BY <1>3, <2>2, <2>3
<1> QED BY <1>1, <1>2, <1>3, <1>4, <1>5, <1>6, <1>7, <1>8

-----------------------------------------------------------------------------
(* Totals: what a seat holds, free and locked together                     *)

\* Nothing changes hands.
Even(b, c) ==
  /\ b \in Book /\ c \in Book /\ c.fees = b.fees
  /\ \A s \in SeatIds, a \in Assets : SeatTotal(c, s, a) = SeatTotal(b, s, a)

\* Seat s gets x of asset a (pays, when x is negative), and nothing else moves.
Gets(b, c, s, a, x) ==
  /\ b \in Book /\ c \in Book /\ c.fees = b.fees
  /\ s \in SeatIds /\ a \in Assets /\ x \in Int
  /\ \A r \in SeatIds, d \in Assets :
       SeatTotal(c, r, d) = SeatTotal(b, r, d) + IF r = s /\ d = a THEN x ELSE 0

LEMMA SeatTotalType ==
  ASSUME NEW b \in Book, NEW s \in SeatIds, NEW a \in Assets
  PROVE  SeatTotal(b, s, a) \in Nat
BY BalanceType DEF SeatTotal

LEMMA EvenTrans ==
  ASSUME NEW a, NEW b, NEW c, Even(a, b), Even(b, c) PROVE Even(a, c)
BY DEF Even

LEMMA EvenGets ==
  ASSUME NEW a, NEW b, NEW c, NEW s, NEW d, NEW x,
         \/ Even(a, b) /\ Gets(b, c, s, d, x)
         \/ Gets(a, b, s, d, x) /\ Even(b, c)
  PROVE  Gets(a, c, s, d, x)
BY DEF Even, Gets

LEMMA SameFundsEven ==
  ASSUME NEW b \in Book, NEW c \in Book, SameFunds(b, c) PROVE Even(b, c)
BY DEF SameFunds, Even, SeatTotal

\* One balance is written: its seat gets the difference.
LEMMA SettersGet ==
  ASSUME NEW b \in Book, NEW s \in SeatIds, NEW a \in Assets, NEW x \in Nat
  PROVE  /\ Gets(b, SetFree(b, s, a, x), s, a, x - b.seats[s].free[a])
         /\ Gets(b, SetLocked(b, s, a, x), s, a, x - b.seats[s].locked[a])
<1>1. ASSUME NEW c \in Book, c.fees = b.fees, NEW f, NEW l, f \in Nat, l \in Nat,
             \A r \in SeatIds, e \in Assets :
               /\ c.seats[r].free[e] = IF r = s /\ e = a THEN f ELSE b.seats[r].free[e]
               /\ c.seats[r].locked[e] = IF r = s /\ e = a THEN l ELSE b.seats[r].locked[e]
      PROVE  Gets(b, c, s, a, (f - b.seats[s].free[a]) + (l - b.seats[s].locked[a]))
  BY <1>1, BalanceType DEF Gets, SeatTotal
<1>2. /\ SetFree(b, s, a, x) \in Book /\ SetLocked(b, s, a, x) \in Book
      /\ SetFree(b, s, a, x).fees = b.fees /\ SetLocked(b, s, a, x).fees = b.fees
  <2>1. SetFree(b, s, a, x) \in Book /\ SetLocked(b, s, a, x) \in Book
    BY BalanceSetters, KeptBook
  <2>2. SetFree(b, s, a, x).fees = b.fees /\ SetLocked(b, s, a, x).fees = b.fees
    BY DEF SetFree, SetLocked, Book
  <2> QED BY <2>1, <2>2
<1> DEFINE f == b.seats[s].free[a]
           l == b.seats[s].locked[a]
<1>3. f \in Nat /\ l \in Nat
  BY BalanceType
<1>4. Gets(b, SetFree(b, s, a, x), s, a, (x - f) + (l - l))
  <2> DEFINE c == SetFree(b, s, a, x)
  <2>1. \A r \in SeatIds, e \in Assets :
          /\ c.seats[r].free[e] = IF r = s /\ e = a THEN x ELSE b.seats[r].free[e]
          /\ c.seats[r].locked[e] = b.seats[r].locked[e]
    BY BalanceSetters
  <2>2. c \in Book /\ c.fees = b.fees
    BY <1>2
  <2> HIDE DEF c
  <2>3. \A r \in SeatIds, e \in Assets :
          c.seats[r].locked[e] = IF r = s /\ e = a THEN l ELSE b.seats[r].locked[e]
    BY <2>1
  <2>4. Gets(b, c, s, a, (x - f) + (l - l))
    BY <1>1, <1>3, <2>1, <2>2, <2>3
  <2> QED BY <2>4 DEF c
<1>5. Gets(b, SetLocked(b, s, a, x), s, a, (f - f) + (x - l))
  <2> DEFINE c == SetLocked(b, s, a, x)
  <2>1. \A r \in SeatIds, e \in Assets :
          /\ c.seats[r].locked[e] = IF r = s /\ e = a THEN x ELSE b.seats[r].locked[e]
          /\ c.seats[r].free[e] = b.seats[r].free[e]
    BY BalanceSetters
  <2>2. c \in Book /\ c.fees = b.fees
    BY <1>2
  <2> HIDE DEF c
  <2>3. \A r \in SeatIds, e \in Assets :
          c.seats[r].free[e] = IF r = s /\ e = a THEN f ELSE b.seats[r].free[e]
    BY <2>1
  <2>4. Gets(b, c, s, a, (f - f) + (x - l))
    BY <1>1, <1>3, <2>1, <2>2, <2>3
  <2> QED BY <2>4 DEF c
<1>6. (x - f) + (l - l) = x - f /\ (f - f) + (x - l) = x - l
  BY <1>3
<1> QED BY <1>4, <1>5, <1>6

LEMMA GetsBack ==
  ASSUME NEW a, NEW b, NEW c, NEW s, NEW d, NEW x,
         Gets(a, b, s, d, x), Gets(b, c, s, d, -x)
  PROVE  Even(a, c)
BY SeatTotalType DEF Even, Gets

LEMMA LockEven ==
  ASSUME NEW b \in Book, NEW s \in SeatIds, NEW a \in Assets, NEW x \in Nat
  PROVE  /\ CanLock(b, s, a, x) => Even(b, Lock(b, s, a, x))
         /\ CanUnlock(b, s, a, x) => Even(b, Unlock(b, s, a, x))
<1> DEFINE f == b.seats[s].free[a]
           l == b.seats[s].locked[a]
<1>0. f \in Nat /\ l \in Nat
  BY BalanceType
<1>1. ASSUME CanLock(b, s, a, x) PROVE Even(b, Lock(b, s, a, x))
  <2> DEFINE c == SetFree(b, s, a, f - x)
  <2>1. f - x \in Nat /\ l + x \in Nat /\ (f - x) - f = -x /\ (l + x) - l = x /\ -x \in Int
        /\ -(-x) = x
    BY <1>0, <1>1 DEF CanLock
  <2>2. Lock(b, s, a, x) = SetLocked(c, s, a, l + x)
    BY DEF Lock
  <2>3. Gets(b, c, s, a, -x) /\ c \in Book /\ c.seats[s].locked[a] = l
    <3>1. Gets(b, c, s, a, (f - x) - f)
      BY <2>1, SettersGet
    <3>2. c.seats[s].locked[a] = l
      BY <2>1, BalanceSetters
    <3> HIDE DEF c
    <3> QED BY <2>1, <3>1, <3>2 DEF Gets
  <2> HIDE DEF c, f, l
  <2>4. Gets(c, SetLocked(c, s, a, l + x), s, a, -(-x))
    BY <2>1, <2>3, SettersGet
  <2> QED BY <2>1, <2>2, <2>3, <2>4, GetsBack
<1>2. ASSUME CanUnlock(b, s, a, x) PROVE Even(b, Unlock(b, s, a, x))
  <2> DEFINE c == SetLocked(b, s, a, l - x)
  <2>1. l - x \in Nat /\ f + x \in Nat /\ (l - x) - l = -x /\ (f + x) - f = x /\ -x \in Int
        /\ -(-x) = x
    BY <1>0, <1>2 DEF CanUnlock
  <2>2. Unlock(b, s, a, x) = SetFree(c, s, a, f + x)
    BY DEF Unlock
  <2>3. Gets(b, c, s, a, -x) /\ c \in Book /\ c.seats[s].free[a] = f
    <3>1. Gets(b, c, s, a, (l - x) - l)
      BY <2>1, SettersGet
    <3>2. c.seats[s].free[a] = f
      BY <2>1, BalanceSetters
    <3> HIDE DEF c
    <3> QED BY <2>1, <3>1, <3>2 DEF Gets
  <2> HIDE DEF c, f, l
  <2>4. Gets(c, SetFree(c, s, a, f + x), s, a, -(-x))
    BY <2>1, <2>3, SettersGet
  <2> QED BY <2>1, <2>2, <2>3, <2>4, GetsBack
<1> QED BY <1>1, <1>2

\* A credit or a debit of the free balance.
LEMMA AddFreeGets ==
  ASSUME NEW b \in Book, NEW s \in SeatIds, NEW a \in Assets, NEW x \in Int,
         b.seats[s].free[a] + x >= 0
  PROVE  Gets(b, AddFree(b, s, a, x), s, a, x)
<1> DEFINE f == b.seats[s].free[a]
<1>1. f + x \in Nat /\ (f + x) - f = x
  BY BalanceType
<1>2. Gets(b, SetFree(b, s, a, f + x), s, a, (f + x) - f)
  BY <1>1, SettersGet
<1> QED BY <1>1, <1>2 DEF AddFree

\* A fill: the maker pays from its lock and gets its price.
LEMMA SettleMakerGets ==
  ASSUME NEW b \in Book, NEW side \in Sides, NEW tick \in Nat, NEW n \in Links,
         NEW lots \in Nat,
         CanUnlock(b, b.pool[n].maker, LockedAsset(side), LockedAtoms(side, tick, lots))
  PROVE  LET s    == b.pool[n].maker
             got  == LockedAsset(Opposite(side))
             paid == LockedAsset(side)
         IN \E c : /\ Gets(b, c, s, paid, -LockedAtoms(side, tick, lots))
                   /\ Gets(c, SettleMaker(b, side, tick, n, lots), s, got,
                           LockedAtoms(Opposite(side), tick, lots))
<1> DEFINE s    == b.pool[n].maker
           paid == LockedAsset(side)
           got  == LockedAsset(Opposite(side))
           out  == LockedAtoms(side, tick, lots)
           in   == LockedAtoms(Opposite(side), tick, lots)
           l    == b.seats[s].locked[paid]
           f    == b.seats[s].free[got]
           c    == SetLocked(b, s, paid, l - out)
<1>1. s \in SeatIds /\ paid \in Assets /\ got \in Assets /\ out \in Nat /\ in \in Nat
  BY NodeType, OppositeType, LockedAtomsType
<1>2. l >= out
  BY DEF CanUnlock
<1>3. SettleMaker(b, side, tick, n, lots) = SetFree(c, s, got, f + in)
  BY DEF SettleMaker
<1> HIDE DEF s, paid, got, out, in
<1>4. /\ l - out \in Nat /\ f + in \in Nat /\ -out \in Int
      /\ (l - out) - l = -out /\ (f + in) - f = in
  <2>1. l \in Nat /\ f \in Nat
    BY <1>1, BalanceType
  <2> HIDE DEF l, f
  <2> QED BY <1>1, <1>2, <2>1
<1>5. Gets(b, c, s, paid, -out) /\ c.seats[s].free[got] = f
  <2>1. Gets(b, c, s, paid, (l - out) - l)
    BY <1>1, <1>4, SettersGet
  <2>2. c.seats[s].free[got] = f
    BY <1>1, <1>4, BalanceSetters
  <2> HIDE DEF c
  <2> QED BY <1>4, <2>1, <2>2
<1> HIDE DEF c, f, l
<1>6. Gets(c, SetFree(c, s, got, f + in), s, got, (f + in) - c.seats[s].free[got])
  <2>1. c \in Book
    BY <1>5 DEF Gets
  <2> QED BY <1>1, <1>4, <2>1, SettersGet
<1> QED BY <1>3, <1>4, <1>5, <1>6 DEF s, paid, got, out, in

-----------------------------------------------------------------------------
(* Orders begin, shrink and end without anything changing hands            *)

LEMMA KillOrderEven ==
  ASSUME NEW b \in Book, NEW n \in Links, Refundable(b, n)
  PROVE  Even(b, KillOrder(b, n))
<1> DEFINE nd    == b.pool[n]
           asset == LockedAsset(nd.side)
           atoms == LockedAtoms(nd.side, nd.tick, nd.lots)
           c     == FifoUnlink(b, nd.side, n)
           d     == Unlock(c, nd.maker, asset, atoms)
<1>1. nd.maker \in SeatIds /\ asset \in Assets /\ atoms \in Nat
  BY NodeType, LockedAtomsType
<1>2. SeatsKept(b, c) /\ SameFunds(b, c)
  BY NodeType, FifoUnlinkKept, BookBanked, ListsSameFunds
<1>3. CanUnlock(c, nd.maker, asset, atoms)
  BY <1>2 DEF Refundable, CanUnlock, SeatsKept
<1>4. KillOrder(b, n) = ChainUnlink(d, n)
  BY DEF KillOrder
<1>5. Even(b, c) /\ c \in Book
  BY <1>2, SameFundsEven, SeatsKeptIsKept, KeptBook
<1>6. Even(c, d)
  <2> HIDE DEF asset, atoms, c
  <2> QED BY <1>1, <1>3, <1>5, LockEven
<1> HIDE DEF c, d
<1>7. d \in Book /\ Even(b, d)
  BY <1>5, <1>6, EvenTrans DEF Even
<1>8. Even(d, ChainUnlink(d, n))
  BY <1>7, ChainUnlinkKept, KeptBook, BookBanked, ListsSameFunds, SameFundsEven
<1> QED BY <1>4, <1>7, <1>8, EvenTrans

LEMMA ShrinkOrderEven ==
  ASSUME NEW b \in Book, NEW s \in SeatIds, NEW n \in Links, NEW lots \in Nat,
         NEW expiry \in Nat, lots <= b.pool[n].lots,
         CanUnlock(b, s, LockedAsset(b.pool[n].side),
                   LockedAtoms(b.pool[n].side, b.pool[n].tick, b.pool[n].lots - lots))
  PROVE  Even(b, ShrinkOrder(b, s, n, lots, expiry))
<1> DEFINE nd    == b.pool[n]
           asset == LockedAsset(nd.side)
           atoms == LockedAtoms(nd.side, nd.tick, nd.lots - lots)
           less  == Unlock(b, s, asset, atoms)
           c     == ShrinkOrder(b, s, n, lots, expiry)
<1>1. nd.lots - lots \in Nat
  BY NodeType
<1>2. asset \in Assets /\ atoms \in Nat
  BY <1>1, NodeType, LockedAtomsType
<1>3. Even(b, less)
  <2> HIDE DEF asset, atoms
  <2>1. CanUnlock(b, s, asset, atoms)
    BY DEF asset, atoms
  <2> QED BY <1>2, <2>1, LockEven
<1>4. c = AddLots(SetExpiry(SetLots(less, n, lots), n, expiry), Slot(nd.tick), lots - nd.lots)
  BY DEF ShrinkOrder
<1>5. c \in Book
  BY ShrinkOrderKept, KeptBook
<1> HIDE DEF less, c
<1>6. SameFunds(less, c) /\ less \in Book
  <2>1. less \in Book
    BY <1>3 DEF Even
  <2> QED BY <1>4, <2>1, BookBanked, SettersSameFunds
<1>7. Even(b, c)
  BY <1>3, <1>5, <1>6, SameFundsEven, EvenTrans
<1> QED BY <1>7 DEF c

LEMMA LockAndInsertEven ==
  ASSUME NEW b \in Book, NEW side \in Sides, NEW tick \in 0 .. TickLimit,
         NEW lots \in Nat, NEW s \in SeatIds, NEW expiry \in Nat,
         CanInsert(b, s, side, tick, lots)
  PROVE  Even(b, LockAndInsert(b, s, side, tick, lots, expiry))
<1> DEFINE asset == LockedAsset(side)
           atoms == LockedAtoms(side, tick, lots)
           c     == Lock(b, s, asset, atoms)
           d     == LockAndInsert(b, s, side, tick, lots, expiry)
<1>1. asset \in Assets /\ atoms \in Nat /\ CanLock(b, s, asset, atoms)
  BY LockedAtomsType, BookAssumption DEF CanInsert
<1>2. Even(b, c)
  <2> HIDE DEF asset, atoms
  <2> QED BY <1>1, LockEven
<1>3. d = BookInsert(c, side, tick, lots, s, expiry)
  BY DEF LockAndInsert
<1>4. d \in Book
  BY LockAndInsertKept, KeptBook
<1> HIDE DEF c, d
<1>5. c \in Book /\ SameFunds(c, d)
  <2>1. c \in Book
    BY <1>2 DEF Even
  <2> QED BY <1>3, <2>1, BookBanked, ListsSameFunds
<1>6. Even(b, d)
  BY <1>2, <1>4, <1>5, SameFundsEven, EvenTrans
<1> QED BY <1>6 DEF d

LEMMA PostEven ==
  ASSUME NEW b \in Book, NEW s \in SeatIds, NEW side \in Sides, NEW tick \in 0 .. TickLimit,
         NEW lots \in Nat, NEW expiry \in Nat, CanPost(b, s, side, tick, lots)
  PROVE  Even(b, Post(b, s, side, tick, lots, expiry))
<1> DEFINE q == QuoteAt(b, s, side, tick)
           c == Cleared(b, s, side, tick, lots)
           d == LockAndInsert(c, s, side, tick, lots, expiry)
           e == Post(b, s, side, tick, lots, expiry)
<1>1. Even(b, c)
  <2>1. CASE Grows(b, s, side, tick, lots)
    <3>1. q \in Links /\ Refundable(b, q)
      BY <2>1, QuoteAtType DEF CanPost, Grows
    <3>2. c = KillOrder(b, q)
      BY <2>1 DEF Cleared
    <3> HIDE DEF q, c
    <3> QED BY <3>1, <3>2, KillOrderEven
  <2>2. CASE ~Grows(b, s, side, tick, lots)
    BY <2>2, BookBanked, SameFundsEven DEF Cleared
  <2> QED BY <2>1, <2>2
<1>2. CanInsert(c, s, side, tick, lots)
  BY DEF CanPost
<1>3. e = ChainInsertSorted(d, s, c.freeHead)
  BY DEF Post
<1>4. e \in Book
  BY PostKept, KeptBook
<1> HIDE DEF c
<1>5. Even(c, d)
  <2>1. c \in Book
    BY <1>1 DEF Even
  <2> QED BY <1>2, <2>1, LockAndInsertEven
<1> HIDE DEF d, e
<1>6. d \in Book /\ SameFunds(d, e)
  <2>1. d \in Book
    BY <1>5 DEF Even
  <2> QED BY <1>3, <2>1, BookBanked, ListsSameFunds
<1>7. Even(b, e)
  BY <1>1, <1>4, <1>5, <1>6, SameFundsEven, EvenTrans
<1> QED BY <1>7 DEF e

LEMMA UpsertEven ==
  ASSUME NEW b \in Book, WindowClear(b), NEW s \in SeatIds, NEW side \in Sides,
         NEW tick \in Nat, NEW lots \in Nat, NEW expiry \in Nat, NEW slide \in BOOLEAN,
         CanUpsert(b, s, side, tick, lots, slide)
  PROVE  Even(b, Upsert(b, s, side, tick, lots, expiry, slide))
<1> DEFINE t == CheckOrSlide(b, side, tick, slide)
           q == QuoteAt(b, s, side, t)
<1>1. t \in 0 .. TickLimit
  <2>1. t # NoTick
    BY DEF CanUpsert
  <2>2. BestOf(b, Opposite(side)) = NoTick \/ InWindow(b, BestOf(b, Opposite(side)))
    BY OppositeType, BestOfInWindow
  <2>3. InWindow(b, t)
    BY <2>1, <2>2, CheckOrSlideVsInWindow DEF CheckOrSlide
  <2> HIDE DEF t
  <2> QED BY <2>3, WindowTick
<1>2. CASE Amends(b, s, side, t, lots)
  <2>1. /\ Upsert(b, s, side, tick, lots, expiry, slide) = ShrinkOrder(b, s, q, lots, expiry)
        /\ CanShrink(b, s, side, t, lots)
    BY <1>2 DEF Upsert, CanUpsert
  <2> HIDE DEF t
  <2>2. /\ q \in Links /\ b.pool[q].side = side /\ b.pool[q].tick = t
        /\ lots <= b.pool[q].lots
    BY <1>2, QuoteAtType DEF Amends
  <2>3. CanUnlock(b, s, LockedAsset(b.pool[q].side),
                  LockedAtoms(b.pool[q].side, b.pool[q].tick, b.pool[q].lots - lots))
    BY <2>1, <2>2 DEF CanShrink
  <2> HIDE DEF q
  <2> QED BY <2>1, <2>2, <2>3, ShrinkOrderEven
<1>3. CASE ~Amends(b, s, side, t, lots)
  <2>1. /\ Upsert(b, s, side, tick, lots, expiry, slide) = Post(b, s, side, t, lots, expiry)
        /\ CanPost(b, s, side, t, lots)
    BY <1>3 DEF Upsert, CanUpsert
  <2> HIDE DEF t
  <2> QED BY <1>1, <2>1, PostEven
<1> QED BY <1>2, <1>3

-----------------------------------------------------------------------------
(* What every seat and the fees hold together                              *)

LEMMA SeatsFinite == IsFiniteSet(SeatIds)
BY BookAssumption, FS_Interval DEF SeatIds

LEMMA TotalsAre ==
  ASSUME NEW b \in Book, NEW a \in Assets
  PROVE  \A s \in SeatIds : /\ SeatTotals(b, a)[s] \in Nat /\ SeatTotals(b, a)[s] \in Int
                            /\ SeatTotals(b, a)[s] = SeatTotal(b, s, a)
BY SeatTotalType DEF SeatTotals

LEMMA HeldType ==
  ASSUME NEW b \in Book, NEW a \in Assets
  PROVE  Held(b, a) \in Nat
<1>1. SumOver(SeatTotals(b, a), SeatIds) \in Nat
  BY SeatsFinite, TotalsAre, SumOverNat
<1>2. b.fees \in Nat
  BY DEF Book
<1> QED BY <1>1, <1>2, HeldIsSum

LEMMA EvenHeld ==
  ASSUME NEW b, NEW c, Even(b, c), NEW a \in Assets
  PROVE  Held(c, a) = Held(b, a)
<1>1. b \in Book /\ c \in Book /\ c.fees = b.fees
  BY DEF Even
<1>2. \A s \in SeatIds : /\ SeatTotals(b, a)[s] \in Int
                         /\ SeatTotals(b, a)[s] = SeatTotals(c, a)[s]
  BY <1>1, TotalsAre DEF Even
<1>3. SumOver(SeatTotals(b, a), SeatIds) = SumOver(SeatTotals(c, a), SeatIds)
  BY <1>2, SeatsFinite, SumOverSame
<1> QED BY <1>1, <1>3, HeldIsSum

LEMMA GetsHeld ==
  ASSUME NEW b, NEW c, NEW s, NEW d, NEW x, Gets(b, c, s, d, x)
  PROVE  \A a \in Assets : Held(c, a) = Held(b, a) + IF a = d THEN x ELSE 0
<1> SUFFICES ASSUME NEW a \in Assets
             PROVE  Held(c, a) = Held(b, a) + IF a = d THEN x ELSE 0
  OBVIOUS
<1> DEFINE g == SeatTotals(b, a)
           h == SeatTotals(c, a)
           y == IF a = d THEN x ELSE 0
<1>1. b \in Book /\ c \in Book /\ c.fees = b.fees /\ s \in SeatIds /\ d \in Assets /\ x \in Int
  BY DEF Gets
<1>2. \A r \in SeatIds : g[r] \in Int /\ h[r] \in Int
  BY <1>1, TotalsAre
<1>3. \A r \in SeatIds : h[r] = g[r] + IF r = s THEN y ELSE 0
  BY <1>1, TotalsAre DEF Gets
<1> HIDE DEF g, h
<1>4. y \in Int
  BY <1>1
<1> HIDE DEF y
<1>5. (\A r \in SeatIds \ {s} : h[r] = g[r]) /\ h[s] = g[s] + y
  BY <1>1, <1>2, <1>3, <1>4
<1>6. SumOver(h, SeatIds) = SumOver(g, SeatIds) - g[s] + h[s]
  BY <1>1, <1>2, <1>5, SeatsFinite, SumOverChange
<1>7. SumOver(h, SeatIds) = SumOver(g, SeatIds) + y
  <2>1. SumOver(g, SeatIds) \in Int
    BY <1>2, SeatsFinite, SumOverInt
  <2> QED BY <1>1, <1>2, <1>4, <1>5, <1>6, <2>1
<1>8. /\ Held(c, a) = SumOver(h, SeatIds) + IF a = "quote" THEN c.fees ELSE 0
      /\ Held(b, a) = SumOver(g, SeatIds) + IF a = "quote" THEN b.fees ELSE 0
  BY HeldIsSum DEF g, h
<1>9. SumOver(g, SeatIds) \in Int /\ b.fees \in Int
  BY <1>1, <1>2, SeatsFinite, SumOverInt DEF Book
<1>10. Held(c, a) = Held(b, a) + y
  BY <1>1, <1>4, <1>7, <1>8, <1>9
<1> QED BY <1>10 DEF y

\* Only the fees accrued change.
LEMMA FeesHeld ==
  ASSUME NEW b \in Book, NEW x \in Nat, NEW a \in Assets
  PROVE  Held([b EXCEPT !.fees = x], a) = Held(b, a) + IF a = "quote" THEN x - b.fees ELSE 0
<1> DEFINE c == [b EXCEPT !.fees = x]
<1>1. c \in Book /\ c.fees = x /\ c.seats = b.seats /\ b.fees \in Nat
  BY DEF Book
<1> HIDE DEF c
<1>2. \A s \in SeatIds : /\ SeatTotals(b, a)[s] \in Int
                         /\ SeatTotals(b, a)[s] = SeatTotals(c, a)[s]
  BY <1>1, TotalsAre DEF SeatTotal
<1>3. SumOver(SeatTotals(b, a), SeatIds) = SumOver(SeatTotals(c, a), SeatIds)
  BY <1>2, SeatsFinite, SumOverSame
<1>4. SumOver(SeatTotals(b, a), SeatIds) \in Int
  BY <1>2, SeatsFinite, SumOverInt
<1>5. /\ Held(c, a) = SumOver(SeatTotals(c, a), SeatIds) + IF a = "quote" THEN c.fees ELSE 0
      /\ Held(b, a) = SumOver(SeatTotals(b, a), SeatIds) + IF a = "quote" THEN b.fees ELSE 0
  BY HeldIsSum
<1>6. Held(c, a) = Held(b, a) + IF a = "quote" THEN x - b.fees ELSE 0
  BY <1>1, <1>3, <1>4, <1>5
<1> QED BY <1>6 DEF c

LEMMA BumpHeld ==
  ASSUME NEW b \in Book, NEW a \in Assets PROVE Held(BumpSeq(b), a) = Held(b, a)
<1>1. BumpSeq(b) \in Book
  BY KeptSelf, ListSetters, SeatsKeptIsKept, KeptBook
<1> QED BY <1>1, BookBanked, SettersSameFunds, SameFundsEven, EvenHeld

LEMMA BalancesHeld ==
  ASSUME NEW b \in Book, NEW c \in Book, SameFunds(b, c), NEW a \in Assets
  PROVE  Held(c, a) = Held(b, a)
BY SameFundsEven, EvenHeld

\* A credit and a debit, base leg and quote leg, of one seat.
LEMMA TwoLegsHeld ==
  ASSUME NEW b \in Book, NEW s \in SeatIds, NEW x \in Int, NEW y \in Int,
         NEW d \in Assets, NEW e \in Assets, d # e,
         b.seats[s].free[d] + x >= 0, b.seats[s].free[e] + y >= 0, NEW a \in Assets
  PROVE  /\ AddFree(AddFree(b, s, d, x), s, e, y) \in Book
         /\ Held(AddFree(AddFree(b, s, d, x), s, e, y), a)
              = Held(b, a) + IF a = d THEN x ELSE y
<1> DEFINE c == AddFree(b, s, d, x)
           f == AddFree(c, s, e, y)
<1>1. Gets(b, c, s, d, x) /\ c.seats[s].free[e] = b.seats[s].free[e]
  BY AddFreeGets, AddFreeKept
<1> HIDE DEF c
<1>2. Gets(c, f, s, e, y)
  BY <1>1, AddFreeGets DEF Gets
<1> HIDE DEF f
<1>3. f \in Book /\ c \in Book
  BY <1>2 DEF Gets
<1>4. Held(c, a) = Held(b, a) + IF a = d THEN x ELSE 0
  BY <1>1, GetsHeld
<1>7. Held(f, a) = Held(c, a) + IF a = e THEN y ELSE 0
  BY <1>2, GetsHeld
<1>5. a = d \/ a = e
  BY DEF Assets
<1>6. Held(f, a) = Held(b, a) + IF a = d THEN x ELSE y
  <2>1. Held(b, a) \in Nat
    BY HeldType
  <2> QED BY <1>4, <1>5, <1>7, <2>1
<1> QED BY <1>3, <1>6 DEF c, f

\* A fill: its maker pays what it had locked and gets its price.
LEMMA FillOrderHeld ==
  ASSUME NEW b \in Book, NEW side \in Sides, NEW tick \in Nat, NEW n \in Links,
         NEW lots \in Nat, lots <= b.pool[n].lots,
         CanUnlock(b, b.pool[n].maker, LockedAsset(side), LockedAtoms(side, tick, lots)),
         NEW a \in Assets
  PROVE  Held(FillOrder(b, side, tick, n, lots), a)
           = Held(b, a) + IF a = LockedAsset(side) THEN -LockedAtoms(side, tick, lots)
                          ELSE LockedAtoms(Opposite(side), tick, lots)
<1> DEFINE s       == b.pool[n].maker
           paid    == LockedAsset(side)
           got     == LockedAsset(Opposite(side))
           out     == LockedAtoms(side, tick, lots)
           in      == LockedAtoms(Opposite(side), tick, lots)
           settled == SettleMaker(b, side, tick, n, lots)
           d       == FillOrder(b, side, tick, n, lots)
<1>1. /\ s \in SeatIds /\ paid \in Assets /\ got \in Assets /\ out \in Nat /\ in \in Nat
      /\ -out \in Int
  <2>1. /\ s \in SeatIds /\ paid \in Assets /\ got \in Assets /\ out \in Nat /\ in \in Nat
    BY NodeType, OppositeType, LockedAtomsType
  <2> HIDE DEF out
  <2> QED BY <2>1
<1>2. paid # got
  BY DEF LockedAsset, Opposite, Sides
<1>3. \E c : Gets(b, c, s, paid, -out) /\ Gets(c, settled, s, got, in)
  BY SettleMakerGets
<1>4. d = IF lots = b.pool[n].lots THEN ChainUnlink(FifoUnlink(settled, side, n), n)
          ELSE AddLots(SetLots(settled, n, b.pool[n].lots - lots), Slot(tick), -lots)
  BY DEF FillOrder
<1>5. d \in Book
  BY FillOrderKept, KeptBook
<1> HIDE DEF s, paid, got, out, in, settled, d
<1>6. PICK c : Gets(b, c, s, paid, -out) /\ Gets(c, settled, s, got, in)
  BY <1>3
<1>7. c \in Book /\ settled \in Book
  BY <1>6 DEF Gets
<1>8. Held(c, a) = Held(b, a) + IF a = paid THEN -out ELSE 0
  BY <1>6, GetsHeld
<1>13. Held(settled, a) = Held(c, a) + IF a = got THEN in ELSE 0
  BY <1>6, GetsHeld
<1>9. SameFunds(settled, d)
  <2>1. SameFunds(settled, settled)
    BY <1>7, BookBanked
  <2>2. SameFunds(settled, AddLots(SetLots(settled, n, b.pool[n].lots - lots), Slot(tick), -lots))
    BY <2>1, SettersSameFunds
  <2>3. SameFunds(settled, FifoUnlink(settled, side, n))
    BY <2>1, ListsSameFunds
  <2>4. SameFunds(settled, ChainUnlink(FifoUnlink(settled, side, n), n))
    BY <2>3, ListsSameFunds
  <2> QED BY <1>4, <2>2, <2>4
<1>10. Held(d, a) = Held(settled, a)
  BY <1>5, <1>7, <1>9, BalancesHeld
<1>11. a = paid \/ a = got
  BY <1>1, <1>2 DEF Assets
<1>12. Held(d, a) = Held(b, a) + IF a = paid THEN -out ELSE in
  <2>1. Held(b, a) \in Int
    BY HeldType
  <2> QED BY <1>1, <1>2, <1>8, <1>10, <1>11, <1>13, <2>1
<1> QED BY <1>12 DEF s, paid, got, out, in, d

-----------------------------------------------------------------------------
(* The books balance                                                       *)

\* Vaults v hold what the seats and the fees of book b account for.
Backed(b, v) == \A a \in Assets : v[a] = Held(b, a)

\* The books balance, and so do those a failure reverts to.
Funded == Conserved /\ Backed(committed.book, committed.vault)

FundsInv == IInv /\ Funded

-----------------------------------------------------------------------------
(* Ending and continuing an instruction                                    *)

LEMMA InvBooks == IInv => book \in Book /\ committed.book \in Book
BY InvGood DEF Good

LEMMA AssetsAre == "base" \in Assets /\ "quote" \in Assets
BY DEF Assets

\* Without a take nothing is in flight.
LEMMA QuietBacked == ASSUME FundsInv, ix.op # "Take" PROVE Backed(book, vault)
<1>1. ASSUME NEW a \in Assets PROVE vault[a] = Held(book, a)
  <2>1. InFlight(a) = 0 /\ vault[a] = Held(book, a) + InFlight(a)
    BY DEF FundsInv, Funded, Conserved, InFlight
  <2>2. Held(book, a) \in Nat
    BY InvBooks, HeldType DEF FundsInv
  <2> QED BY <2>1, <2>2
<1> QED BY <1>1 DEF Backed

\* Nothing is in flight once the instruction is over.
LEMMA BackedFunded ==
  ASSUME book' \in Book, Backed(book', vault'), ix'.op # "Take",
         Backed(committed.book, committed.vault)'
  PROVE  Funded'
<1>1. ASSUME NEW a \in Assets PROVE vault'[a] = Held(book', a) + InFlight(a)'
  <2>1. InFlight(a)' = 0 /\ vault'[a] = Held(book', a)
    BY DEF InFlight, Backed
  <2>2. Held(book', a) \in Nat
    BY HeldType
  <2> QED BY <2>1, <2>2
<1>2. Conserved'
  BY <1>1 DEF Conserved
<1> QED BY <1>2 DEF Funded

LEMMA CommitFunds ==
  ASSUME NEW b \in Book, NEW v, Backed(b, v), Commit(b, v)
  PROVE  Funded'
<1>1. BumpSeq(b) \in Book
  BY KeptSelf, ListSetters, SeatsKeptIsKept, KeptBook
<1>2. Backed(BumpSeq(b), v)
  BY BumpHeld DEF Backed
<1>3. book' = BumpSeq(b) /\ vault' = v /\ ix'.op # "Take"
  BY DEF Commit, Idle
<1>4. committed'.book = BumpSeq(b) /\ committed'.vault = v
  BY DEF Commit
<1>5. Backed(committed.book, committed.vault)'
  BY <1>2, <1>4
<1> QED BY <1>1, <1>2, <1>3, <1>5, BackedFunded

LEMMA AbortFunds == ASSUME FundsInv, Abort PROVE Funded'
<1>1. /\ book' = committed.book /\ vault' = committed.vault /\ ix'.op # "Take"
      /\ committed' = committed
  BY DEF Abort, Idle
<1>2. Backed(committed.book, committed.vault)
  BY DEF FundsInv, Funded
<1>3. book' \in Book /\ Backed(book', vault')
  BY <1>1, <1>2, InvBooks DEF FundsInv
<1>4. Backed(committed.book, committed.vault)'
  BY <1>1, <1>2
<1> QED BY <1>1, <1>3, <1>4, BackedFunded

\* An instruction that is no take ends, or goes on, with everybody's totals as
\* they were.
LEMMA EvenBacked ==
  ASSUME NEW b, NEW c, NEW v, Even(b, c), Backed(b, v)
  PROVE  Backed(c, v) /\ c \in Book
BY EvenHeld DEF Backed, Even

LEMMA EvenCommit ==
  ASSUME FundsInv, ix.op # "Take", NEW c, Even(book, c), Commit(c, vault)
  PROVE  Funded'
BY QuietBacked, EvenBacked, CommitFunds

LEMMA EvenContinue ==
  ASSUME FundsInv, ix.op # "Take", NEW c, Even(book, c), NEW i, i.op # "Take",
         Continue(c, i)
  PROVE  Funded'
<1>1. /\ book' = c /\ vault' = vault /\ ix'.op # "Take" /\ committed' = committed
  BY DEF Continue
<1>2. c \in Book /\ Backed(c, vault)
  BY QuietBacked, EvenBacked
<1>3. Backed(committed.book, committed.vault)'
  BY <1>1 DEF FundsInv, Funded
<1> QED BY <1>1, <1>2, <1>3, BackedFunded

LEMMA SelfEven == IInv => Even(book, book)
BY InvBooks, BookBanked, SameFundsEven

-----------------------------------------------------------------------------
(* The first state                                                         *)

LEMMA FundsInit == ASSUME Init PROVE Funded
<1>1. PICK rate \in FeeRates : book = StartBook(rate)
  BY DEF Init
<1>2. book \in Book
  BY InitInv, InvBooks
<1>3. vault = StartVault /\ committed.book = book /\ committed.vault = vault /\ ix.op # "Take"
  BY DEF Init, Idle
<1>4. Backed(book, vault)
  BY <1>1, <1>3, VaultAssumption DEF Backed
<1>5. ASSUME NEW a \in Assets PROVE vault[a] = Held(book, a) + InFlight(a)
  <2>1. InFlight(a) = 0 /\ vault[a] = Held(book, a)
    BY <1>3, <1>4 DEF InFlight, Backed
  <2>2. Held(book, a) \in Nat
    BY <1>2, HeldType
  <2> QED BY <2>1, <2>2
<1> QED BY <1>3, <1>4, <1>5 DEF Funded, Conserved

-----------------------------------------------------------------------------
(* Custody                                                                 *)

LEMMA IdleQuiet == ASSUME NEW name, Starts(name) PROVE ix.op # "Take"
BY DEF Starts, Idle

LEMMA SeatWriteFunds ==
  ASSUME FundsInv, NEW s \in SeatIds, NEW owner \in Owners \cup {Nobody}, ix.op # "Take",
         Commit(SetOrdersHead(SetOwner(book, s, owner), s, NIL), vault)
  PROVE  Funded'
<1> DEFINE c == SetOwner(book, s, owner)
           d == SetOrdersHead(c, s, NIL)
<1>1. c \in Book /\ SameFunds(book, c)
  BY InvBooks, BookBanked, SeatSetters, KeptBook, SettersSameFunds DEF FundsInv
<1> HIDE DEF c
<1>2. d \in Book /\ SameFunds(book, d)
  BY <1>1, NilIsLink, SeatSetters, KeptBook, SettersSameFunds
<1>3. Even(book, d)
  BY <1>2, InvBooks, SameFundsEven DEF FundsInv
<1> HIDE DEF d
<1>4. Commit(d, vault)
  BY DEF c, d
<1> QED BY <1>3, <1>4, EvenCommit

LEMMA DepositFunds ==
  ASSUME FundsInv, NEW s \in SeatIds, NEW base \in DepositAmounts, NEW quote \in DepositAmounts,
         Deposit(s, base, quote)
  PROVE  Funded'
<1>1. PICK b \in Received(base), q \in Received(quote) :
        Commit(AddFree(AddFree(book, s, "base", b), s, "quote", q),
               [vault EXCEPT !["base"] = @ + b, !["quote"] = @ + q])
  BY DEF Deposit
<1> DEFINE c == AddFree(AddFree(book, s, "base", b), s, "quote", q)
           v == [vault EXCEPT !["base"] = @ + b, !["quote"] = @ + q]
<1>2. b \in Nat /\ q \in Nat /\ b \in Int /\ q \in Int
  <2>1. b \in Nat /\ q \in Nat
    BY CustodyAssumption, ReceivedType
  <2> QED BY <2>1
<1>3. book \in Book /\ vault \in Vault /\ Backed(book, vault)
  BY InvBooks, QuietBacked, IdleQuiet DEF FundsInv, Deposit, IInv, TypeOK
<1>4. book.seats[s].free["base"] + b >= 0 /\ book.seats[s].free["quote"] + q >= 0
  BY <1>2, <1>3, AssetsAre, BalanceType
<1>5. ASSUME NEW a \in Assets
      PROVE  c \in Book /\ Held(c, a) = Held(book, a) + IF a = "base" THEN b ELSE q
  BY <1>2, <1>3, <1>4, AssetsAre, TwoLegsHeld
<1>6. ASSUME NEW a \in Assets
      PROVE  v[a] = vault[a] + IF a = "base" THEN b ELSE q
  BY <1>2, <1>3 DEF Vault, Assets
<1>8. Commit(c, v)
  BY <1>1
<1> HIDE DEF c, v
<1>7. c \in Book /\ Backed(c, v)
  BY <1>3, <1>5, <1>6, AssetsAre DEF Backed
<1> QED BY <1>7, <1>8, CommitFunds

LEMMA WithdrawFunds ==
  ASSUME FundsInv, NEW s \in SeatIds, NEW base \in WithdrawAmounts,
         NEW quote \in WithdrawAmounts, Withdraw(s, base, quote)
  PROVE  Funded'
<1> DEFINE x == WithdrawOut(s, "base", base)
           y == WithdrawOut(s, "quote", quote)
<1>1. book \in Book /\ vault \in Vault /\ Backed(book, vault)
  BY InvBooks, QuietBacked, IdleQuiet DEF FundsInv, Withdraw, IInv, TypeOK
<1>2. x \in Nat /\ y \in Nat
  BY <1>1, AssetsAre, CustodyAssumption, BalanceType DEF WithdrawOut
<1>3. /\ book.seats[s].free["base"] >= x /\ book.seats[s].free["quote"] >= y
      /\ Commit(AddFree(AddFree(book, s, "base", -x), s, "quote", -y),
                [vault EXCEPT !["base"] = @ - x, !["quote"] = @ - y])
  BY DEF Withdraw
<1> HIDE DEF x, y
<1> DEFINE c == AddFree(AddFree(book, s, "base", -x), s, "quote", -y)
           v == [vault EXCEPT !["base"] = @ - x, !["quote"] = @ - y]
<1>4. /\ book.seats[s].free["base"] + (-x) >= 0 /\ book.seats[s].free["quote"] + (-y) >= 0
      /\ -x \in Int /\ -y \in Int
  BY <1>1, <1>2, <1>3, AssetsAre, BalanceType
<1>5. ASSUME NEW a \in Assets
      PROVE  c \in Book /\ Held(c, a) = Held(book, a) + IF a = "base" THEN -x ELSE -y
  BY <1>1, <1>4, AssetsAre, TwoLegsHeld
<1>6. ASSUME NEW a \in Assets
      PROVE  v[a] = vault[a] + IF a = "base" THEN -x ELSE -y
  BY <1>1, <1>2 DEF Vault, Assets
<1>8. Commit(c, v)
  BY <1>3
<1> HIDE DEF c, v
<1>7. c \in Book /\ Backed(c, v)
  BY <1>1, <1>5, <1>6, AssetsAre DEF Backed
<1> QED BY <1>7, <1>8, CommitFunds

LEMMA CollectFeesFunds == ASSUME FundsInv, CollectFees PROVE Funded'
<1> DEFINE c == [book EXCEPT !.fees = 0]
           v == [vault EXCEPT !["quote"] = @ - book.fees]
<1>1. book \in Book /\ vault \in Vault /\ Backed(book, vault) /\ Commit(c, v)
  BY InvBooks, QuietBacked, IdleQuiet DEF FundsInv, CollectFees, IInv, TypeOK
<1>2. book.fees \in Nat /\ c \in Book
  BY <1>1 DEF Book
<1>3. ASSUME NEW a \in Assets
      PROVE  Held(c, a) = Held(book, a) + IF a = "quote" THEN 0 - book.fees ELSE 0
  BY <1>1, FeesHeld
<1>4. ASSUME NEW a \in Assets
      PROVE  v[a] = vault[a] + IF a = "quote" THEN 0 - book.fees ELSE 0
  BY <1>1, <1>2 DEF Vault, Assets
<1> HIDE DEF c, v
<1>5. Backed(c, v)
  BY <1>1, <1>3, <1>4 DEF Backed
<1> QED BY <1>1, <1>2, <1>5, CommitFunds

LEMMA UpdateFeeFunds ==
  ASSUME FundsInv, NEW rate \in FeeRates, UpdateFee(rate) PROVE Funded'
<1> DEFINE c == [book EXCEPT !.feeBps = rate]
<1>1. book \in Book /\ ix.op # "Take" /\ Commit(c, vault) /\ rate \in Nat
  BY InvBooks, IdleQuiet, ProgramAssumption DEF FundsInv, UpdateFee
<1>2. c \in Book /\ c.fees = book.fees /\ c.seats = book.seats
  BY <1>1 DEF Book
<1> HIDE DEF c
<1>3. Even(book, c)
  BY <1>1, <1>2 DEF Even, SeatTotal
<1> QED BY <1>1, <1>3, EvenCommit

LEMMA CustodyFunds == ASSUME FundsInv, CustodyNext PROVE Funded'
<1>1. ASSUME NEW owner \in Owners, ClaimSeat(owner) PROVE Funded'
  <2> DEFINE s == CHOOSE f \in FreeSeats : \A g \in FreeSeats : f <= g
  <2>1. s \in SeatIds
    <3>1. FreeSeats \subseteq Nat /\ FreeSeats # {} /\ FreeSeats \subseteq SeatIds
      BY <1>1, BookAssumption DEF ClaimSeat, FreeSeats, SeatIds
    <3>2. PICK f \in FreeSeats : \A g \in FreeSeats : f <= g
      BY <3>1, NatLeast
    <3> QED BY <3>1, <3>2
  <2>2. Commit(SetOrdersHead(SetOwner(book, s, owner), s, NIL), vault) /\ ix.op # "Take"
    BY <1>1, IdleQuiet DEF ClaimSeat
  <2> HIDE DEF s
  <2> QED BY <2>1, <2>2, SeatWriteFunds
<1>2. ASSUME NEW s \in SeatIds, CloseSeat(s) PROVE Funded'
  BY <1>2, IdleQuiet, SeatWriteFunds DEF CloseSeat
<1> QED BY <1>1, <1>2, DepositFunds, WithdrawFunds, CollectFeesFunds, UpdateFeeFunds
        DEF CustodyNext

-----------------------------------------------------------------------------
(* Maker                                                                   *)

LEMMA PostOnlyFunds ==
  ASSUME FundsInv, NEW s \in SeatIds, NEW side \in Sides, NEW tick \in InTicks,
         NEW lots \in InLots, NEW reject \in BOOLEAN, NEW expiry \in InExpiries,
         PostOnly(s, side, tick, lots, reject, expiry)
  PROVE  Funded'
<1> DEFINE c == Upsert(book, s, side, tick, lots, expiry, ~reject)
<1>1. tick \in Nat /\ lots \in Nat /\ expiry \in Nat
  BY MakerAssumption
<1>2. (~reject) \in BOOLEAN
  OBVIOUS
<1>3. CanUpsert(book, s, side, tick, lots, ~reject) /\ Commit(c, vault) /\ ix.op # "Take"
  BY IdleQuiet DEF PostOnly
<1>4. book \in Book /\ WindowClear(book)
  BY InvGood DEF Good, Header, FundsInv
<1>5. Even(book, c)
  BY <1>1, <1>2, <1>3, <1>4, UpsertEven
<1> HIDE DEF c
<1> QED BY <1>3, <1>5, EvenCommit

LEMMA KillCommit ==
  ASSUME FundsInv, ix.op # "Take", NEW n \in Links, Refundable(book, n),
         Commit(KillOrder(book, n), vault)
  PROVE  Funded'
BY InvBooks, KillOrderEven, EvenCommit DEF FundsInv

LEMMA MakerFunds == ASSUME FundsInv, MakerNext PROVE Funded'
<1>1. ASSUME NEW s \in SeatIds, NEW side \in Sides, NEW tick \in InTicks,
             CancelQuote(s, side, tick)
      PROVE  Funded'
  <2> DEFINE n == QuoteAt(book, s, side, tick)
  <2>1. /\ n \in Links /\ Refundable(book, n) /\ Commit(KillOrder(book, n), vault)
        /\ ix.op # "Take"
    BY <1>1, InvBooks, QuoteAtType, IdleQuiet DEF CancelQuote, FundsInv
  <2> HIDE DEF n
  <2> QED BY <2>1, KillCommit
<1>2. ASSUME NEW s \in SeatIds, NEW n \in Nodes, NEW id \in CancelIds, Cancel(s, n, id)
      PROVE  Funded'
  <2>1. /\ n \in Links /\ Refundable(book, n) /\ Commit(KillOrder(book, n), vault)
        /\ ix.op # "Take"
    BY <1>2, IdleQuiet DEF Cancel, Nodes, Links
  <2> QED BY <2>1, KillCommit
<1>3. ASSUME NEW s \in SeatIds, NEW bids \in Payloads, NEW asks \in Payloads,
             NEW expiry \in InExpiries, BeginMassQuote(s, bids, asks, expiry)
      PROVE  Funded'
  <2>1. PICK i : Continue(book, i) /\ i.op = "MassQuote"
    BY <1>3 DEF BeginMassQuote
  <2>2. ix.op # "Take" /\ Even(book, book)
    BY <1>3, IdleQuiet, SelfEven DEF BeginMassQuote, FundsInv
  <2> QED BY <2>1, <2>2, EvenContinue
<1> QED BY <1>1, <1>2, <1>3, PostOnlyFunds DEF MakerNext

-----------------------------------------------------------------------------
(* MassQuote                                                               *)

LEMMA MergeCancelFunds == ASSUME FundsInv, MergeCancel PROVE Funded'
<1> DEFINE i == [ix EXCEPT !.cur = book.pool[ix.cur].makerNext]
<1>1. /\ Continue(KillOrder(book, ix.cur), i) /\ Refundable(book, ix.cur) /\ Merging
      /\ ix.op # "Take"
  BY DEF MergeCancel, Merging
<1>2. ix \in MassQuoteIx /\ ix.cur \in Links /\ book \in Book
  BY <1>1, MergeType, InvBooks DEF FundsInv
<1>3. Even(book, KillOrder(book, ix.cur))
  BY <1>1, <1>2, KillOrderEven
<1>4. i.op # "Take"
  BY <1>2 DEF MassQuoteIx
<1> HIDE DEF i
<1> QED BY <1>1, <1>3, <1>4, EvenContinue

LEMMA MergeKeepFunds == ASSUME FundsInv, MergeKeep PROVE Funded'
<1> DEFINE q  == Quote(ix)
           nd == book.pool[ix.cur]
           c  == ShrinkOrder(book, ix.seat, ix.cur, q.lots, ix.expiry)
           i  == [ix EXCEPT !.lastUsed = q.tick, !.lastTick = q.tick,
                            !.qi = @ + 1, !.prev = ix.cur, !.cur = nd.makerNext]
<1>1. /\ Continue(c, i) /\ Merging /\ HasQuote(ix) /\ nd.tick = q.tick /\ q.lots <= nd.lots
      /\ nd.side = ix.side /\ ix.op # "Take"
      /\ CanUnlock(book, ix.seat, LockedAsset(ix.side),
                   LockedAtoms(ix.side, q.tick, nd.lots - q.lots))
  BY DEF MergeKeep, InRegion, Merging
<1>2. /\ ix \in MassQuoteIx /\ ix.cur \in Links /\ ix.seat \in SeatIds /\ book \in Book
      /\ ix.expiry \in Nat /\ q.tick \in Nat /\ q.lots \in Nat
  BY <1>1, MergeType, InvBooks DEF FundsInv
<1> HIDE DEF q
<1>3. Even(book, c)
  BY <1>1, <1>2, ShrinkOrderEven
<1>4. i.op # "Take"
  BY <1>2 DEF MassQuoteIx
<1> HIDE DEF c, i
<1> QED BY <1>1, <1>3, <1>4, EvenContinue

LEMMA MassQuoteInsertFunds ==
  ASSUME FundsInv, Merging, HasQuote(ix), NEW b, Kept(book, b), Even(book, b),
         NEW next \in Links, NEW nextTick, MassQuoteInsert(b, next, nextTick)
  PROVE  Funded'
<1> DEFINE q    == Quote(ix)
           tick == CheckOrSlideVs(b, ix.side, q.tick, ~q.reject, ix.opposing)
           n    == b.freeHead
           c    == LockAndInsert(b, ix.seat, ix.side, tick, q.lots, ix.expiry)
           d    == ChainSplice(c, ix.seat, ix.prev, next, n)
           i    == [ix EXCEPT !.prev = n, !.cur = next, !.lastUsed = tick,
                              !.lastTick = q.tick, !.qi = @ + 1]
<1>1. CASE Abort
  BY <1>1, AbortFunds
<1>2. CASE /\ tick # NoTick /\ CanInsert(b, ix.seat, ix.side, tick, q.lots)
           /\ Continue(d, i)
  <2>1. /\ ix \in MassQuoteIx /\ ix.seat \in SeatIds /\ ix.side \in Sides
        /\ ix.expiry \in Nat /\ q.tick \in Nat /\ q.lots \in Nat
        /\ ix.prev \in Links /\ IInv /\ ix.op # "Take"
    BY MergeType DEF MassQuoteIx, FundsInv, Merging
  <2>2. (~q.reject) \in BOOLEAN
    BY MergeType DEF FundsInv
  <2> HIDE DEF q
  <2>3. b \in Book /\ WindowClear(b) /\ n \in Links
    BY <2>1, InvGood, GoodKept DEF Good, Header, Book
  <2>4. ix.opposing = NoTick \/ InWindow(b, ix.opposing)
    BY <2>1, InvGood, GoodKept DEF IInv, Progressing, Merging
  <2>5. tick \in 0 .. TickLimit
    <3>1. InWindow(b, tick)
      BY <1>2, <2>1, <2>2, <2>3, <2>4, CheckOrSlideVsInWindow
    <3> HIDE DEF tick
    <3> QED BY <2>3, <3>1, WindowTick
  <2>9. i.op # "Take"
    BY <2>1 DEF MassQuoteIx
  <2> HIDE DEF tick
  <2>6. Even(b, c) /\ c \in Book
    BY <1>2, <2>1, <2>3, <2>5, LockAndInsertEven DEF Even
  <2> HIDE DEF n, c
  <2>7. Even(c, d)
    <3>1. d \in Book
      BY <2>1, <2>3, <2>6, ChainSpliceKept, KeptBook
    <3>2. SameFunds(c, d)
      BY <2>6, BookBanked, ListsSameFunds
    <3> QED BY <2>6, <3>1, <3>2, SameFundsEven
  <2> HIDE DEF d, i
  <2>8. Even(book, d)
    BY <2>6, <2>7, EvenTrans
  <2> QED BY <1>2, <2>1, <2>8, <2>9, EvenContinue
<1> QED BY <1>1, <1>2 DEF MassQuoteInsert

LEMMA MergeFunds == ASSUME FundsInv, MergeStep PROVE Funded'
<1>1. CASE MergeRefuse
  BY <1>1, AbortFunds DEF MergeRefuse
<1>2. CASE MergeCommit
  BY <1>2, SelfEven, EvenCommit DEF MergeCommit, MergeDone, Merging, FundsInv
<1>3. CASE MergeInsert
  <2>1. Merging /\ HasQuote(ix) /\ IInv
    BY <1>3 DEF MergeInsert, FundsInv
  <2>2. ix.cur \in Links /\ Kept(book, book) /\ Even(book, book)
    BY <2>1, MergeType, InvBooks, SelfEven, KeptSelf, SeatsKeptIsKept
  <2> QED BY <1>3, <2>1, <2>2, MassQuoteInsertFunds DEF MergeInsert
<1>4. CASE MergeRepost
  <2>1. Merging /\ HasQuote(ix) /\ Refundable(book, ix.cur) /\ IInv
    BY <1>4 DEF MergeRepost, FundsInv
  <2>2. ix.cur \in Links /\ book \in Book
    BY <2>1, MergeType, InvBooks
  <2>3. /\ Kept(book, KillOrder(book, ix.cur)) /\ book.pool[ix.cur].makerNext \in Links
        /\ Even(book, KillOrder(book, ix.cur))
    BY <2>1, <2>2, KillOrderKept, KillOrderEven, NodeType
  <2> QED BY <1>4, <2>1, <2>3, MassQuoteInsertFunds DEF MergeRepost
<1>5. CASE MergeAsks
  <2> DEFINE i == [ix EXCEPT !.side = "ask", !.qi = 0, !.lastTick = 0,
                             !.lastUsed = 0, !.opposing = BestOf(book, "bid")]
  <2>1. Continue(book, i) /\ Merging /\ ix.op # "Take" /\ IInv
    BY <1>5 DEF MergeAsks, MergeDone, Merging, FundsInv
  <2>2. i.op # "Take"
    BY <2>1, MergeType DEF MassQuoteIx
  <2> HIDE DEF i
  <2> QED BY <2>1, <2>2, SelfEven, EvenContinue
<1> QED BY <1>1, <1>2, <1>3, <1>4, <1>5, MergeCancelFunds, MergeKeepFunds DEF MergeStep

-----------------------------------------------------------------------------
(* Hygiene                                                                 *)

LEMMA KillContinue ==
  ASSUME FundsInv, ix.op # "Take", NEW n \in Links, Refundable(book, n), NEW i,
         i.op # "Take", Continue(KillOrder(book, n), i)
  PROVE  Funded'
BY InvBooks, KillOrderEven, EvenContinue DEF FundsInv

LEMMA CursorContinue ==
  ASSUME FundsInv, ix.op # "Take", NEW i, i.op # "Take", Continue(book, i) PROVE Funded'
BY SelfEven, EvenContinue DEF FundsInv

\* The head of the lowest order the word holds.
LEMMA EvictHeadType ==
  ASSUME IInv, Reanchoring, WordOccupied # {}
  PROVE  HeadAt(book, Lowest(WordOccupied)) \in Links
<1> DEFINE T == WordOccupied
<1>1. WordBase \in Nat
  BY ReanchorType, BookAssumption DEF WordBase
<1>2. T \subseteq Nat
  BY <1>1, BookAssumption DEF WordOccupied
<1> HIDE DEF T
<1>3. Lowest(T) \in Nat
  BY <1>2, LowestOf DEF T
<1>4. Slot(Lowest(T)) \in Ring
  BY <1>3, SlotInRing
<1> QED BY <1>4, InvGood, LevelType DEF HeadAt, Good, T

LEMMA HygieneFunds == ASSUME FundsInv, HygieneNext \/ HygieneStep PROVE Funded'
<1>1. ASSUME NEW target \in Targets, NEW max \in MaxLevels, BeginReanchor(target, max)
      PROVE  Funded'
  <2>1. PICK i : Continue(book, i) /\ i.op = "Reanchor"
    BY <1>1 DEF BeginReanchor
  <2> QED BY <1>1, <2>1, IdleQuiet, CursorContinue DEF BeginReanchor
<1>2. ASSUME NEW side \in Sides, NEW start \in ReapStarts, NEW max \in ReapCounts,
             BeginReap(side, start, max)
      PROVE  Funded'
  <2>1. PICK i : Continue(book, i) /\ i.op = "ReapExpired"
    BY <1>2 DEF BeginReap
  <2> QED BY <1>2, <2>1, IdleQuiet, CursorContinue DEF BeginReap
<1>3. CASE Reanchoring /\ HygieneStep
  <2>1. ix \in ReanchorIx /\ ix.op # "Take" /\ IInv /\ ~Reaping
    BY <1>3, ReanchorType DEF FundsInv, Reanchoring, Reaping
  <2>2. \A x, y : /\ [ix EXCEPT !.inWord = x].op # "Take"
                  /\ [ix EXCEPT !.evicted = x].op # "Take"
                  /\ [ix EXCEPT !.inWord = x, !.cur = y].op # "Take"
    BY <2>1 DEF ReanchorIx
  <2>3. CASE EnterWord
    BY <2>1, <2>2, <2>3, CursorContinue DEF EnterWord
  <2>4. CASE EvictOrder
    BY <2>1, <2>2, <2>4, EvictHeadType, KillContinue DEF EvictOrder
  <2>5. CASE LeaveWord
    BY <2>1, <2>2, <2>5, CursorContinue DEF LeaveWord
  <2>6. CASE ReanchorCommit
    <3> DEFINE c == [book EXCEPT !.anchor = ix.cur]
    <3>1. Commit(c, vault) /\ book \in Book /\ ix.cur \in Nat
      BY <2>1, <2>6, ReanchorType, InvBooks DEF ReanchorCommit
    <3>2. c \in Book /\ c.fees = book.fees /\ c.seats = book.seats
      BY <3>1 DEF Book
    <3> HIDE DEF c
    <3>3. Even(book, c)
      BY <3>1, <3>2 DEF Even, SeatTotal
    <3> QED BY <2>1, <3>1, <3>3, EvenCommit
  <2> QED BY <1>3, <2>1, <2>3, <2>4, <2>5, <2>6
          DEF HygieneStep, ReapEnter, ReapSkip, ReapKill, ReapCommit
<1>4. CASE Reaping /\ HygieneStep
  <2>1. ix \in ReapIx /\ ix.op # "Take" /\ IInv /\ ~Reanchoring /\ ix.cur \in Links
    BY <1>4, ReapType DEF FundsInv, Reanchoring, Reaping
  <2>2. \A x, y : /\ [ix EXCEPT !.tick = x, !.cur = y].op # "Take"
                  /\ [ix EXCEPT !.cur = x].op # "Take"
                  /\ [ix EXCEPT !.reaped = x, !.cur = y].op # "Take"
    BY <2>1 DEF ReapIx
  <2>3. CASE ReapEnter
    BY <2>1, <2>2, <2>3, CursorContinue DEF ReapEnter
  <2>4. CASE ReapSkip
    BY <2>1, <2>2, <2>4, CursorContinue DEF ReapSkip
  <2>5. CASE ReapKill
    <3> DEFINE i == [ix EXCEPT !.reaped = ix.reaped + 1, !.cur = book.pool[ix.cur].next]
    <3>1. /\ Refundable(book, ix.cur)
          /\ Commit(KillOrder(book, ix.cur), vault) \/ Continue(KillOrder(book, ix.cur), i)
      BY <2>5 DEF ReapKill
    <3>2. i.op # "Take"
      BY <2>2
    <3> HIDE DEF i
    <3> QED BY <2>1, <3>1, <3>2, KillCommit, KillContinue
  <2>6. CASE ReapCommit
    BY <2>1, <2>6, SelfEven, EvenCommit DEF ReapCommit
  <2> QED BY <1>4, <2>1, <2>3, <2>4, <2>5, <2>6
          DEF HygieneStep, EnterWord, EvictOrder, LeaveWord, ReanchorCommit
<1> QED BY <1>1, <1>2, <1>3, <1>4
        DEF HygieneNext, HygieneStep, EnterWord, EvictOrder, LeaveWord, ReanchorCommit,
            ReapEnter, ReapSkip, ReapKill, ReapCommit

-----------------------------------------------------------------------------
(* Takes: what is in flight is what the vaults hold and nobody owns yet    *)

\* A take begins with nothing in flight.
LEMMA BeginTakeFunds ==
  ASSUME FundsInv, NEW name, Starts(name), NEW i, Continue(book, i),
         i.lots = 0, i.quote = 0, i.kind # "Swap"
  PROVE  Funded'
<1>1. /\ book' = book /\ vault' = vault /\ ix' = i /\ committed' = committed
  BY DEF Continue
<1>2. Backed(book, vault) /\ Backed(committed.book, committed.vault) /\ book \in Book
  BY QuietBacked, IdleQuiet, InvBooks DEF FundsInv, Funded
<1>3. ASSUME NEW a \in Assets PROVE vault'[a] = Held(book', a) + InFlight(a)'
  <2>1. InFlight(a)' = 0
    BY <1>1, BookAssumption DEF InFlight
  <2>2. Held(book, a) \in Nat /\ vault[a] = Held(book, a)
    BY <1>2, HeldType DEF Backed
  <2> QED BY <1>1, <2>1, <2>2
<1> QED BY <1>1, <1>2, <1>3 DEF Funded, Conserved

\* A swap begins with its input pulled.
LEMMA SwapBeginFunds ==
  ASSUME FundsInv, NEW side \in Sides, NEW limit, NEW delta \in Nat, NEW minOut,
         SwapWith(side, limit, delta, minOut)
  PROVE  Funded'
<1> DEFINE in == IF side = "bid" THEN "quote" ELSE "base"
<1>1. /\ vault' = [vault EXCEPT ![in] = @ + delta] /\ book' = book
      /\ committed' = committed /\ Starts("Swap")
  BY DEF SwapWith
<1>2. /\ ix'.op = "Take" /\ ix'.kind = "Swap" /\ ix'.side = side /\ ix'.lots = 0
      /\ ix'.quote = 0 /\ ix'.delta = delta
  BY DEF SwapWith, Take
<1>3. /\ Backed(book, vault) /\ Backed(committed.book, committed.vault) /\ book \in Book
      /\ vault \in Vault
  BY <1>1, QuietBacked, IdleQuiet, InvBooks DEF FundsInv, Funded, IInv, TypeOK
<1>4. ASSUME NEW a \in Assets PROVE vault'[a] = Held(book', a) + InFlight(a)'
  <2>1. InFlight(a)' = IF a = in THEN delta ELSE 0
    BY <1>2, BookAssumption DEF InFlight, Assets, Sides
  <2>2. vault'[a] = vault[a] + IF a = in THEN delta ELSE 0
    BY <1>1, <1>3 DEF Vault, Assets
  <2>3. Held(book, a) \in Nat /\ vault[a] = Held(book, a)
    BY <1>3, HeldType DEF Backed
  <2> HIDE DEF in
  <2> QED BY <1>1, <2>1, <2>2, <2>3
<1> QED BY <1>1, <1>3, <1>4 DEF Funded, Conserved

LEMMA TakerFunds == ASSUME FundsInv, TakerNext PROVE Funded'
<1>1. ASSUME NEW s \in SeatIds, NEW side \in Sides, NEW limit \in InTicks, NEW lots \in InLots,
             NEW policy \in Policies, NEW expiry \in InExpiries,
             BeginPlaceLimit(s, side, limit, lots, policy, expiry)
      PROVE  Funded'
  <2>1. PICK i : Continue(book, i) /\ i.lots = 0 /\ i.quote = 0 /\ i.kind # "Swap"
    BY <1>1 DEF BeginPlaceLimit, Take
  <2> QED BY <1>1, <2>1, BeginTakeFunds DEF BeginPlaceLimit
<1>2. ASSUME NEW s \in SeatIds, NEW side \in Sides, NEW limit \in InTicks, NEW lots \in TakeLots,
             NEW minOut \in MinOuts, NEW policy \in Policies,
             BeginPlaceTake(s, side, limit, lots, minOut, policy)
      PROVE  Funded'
  <2>1. PICK i : Continue(book, i) /\ i.lots = 0 /\ i.quote = 0 /\ i.kind # "Swap"
    BY <1>2 DEF BeginPlaceTake, Take
  <2> QED BY <1>2, <2>1, BeginTakeFunds DEF BeginPlaceTake
<1>3. ASSUME NEW side \in Sides, NEW limit \in InTicks, NEW amount \in SwapAmounts,
             NEW minOut \in MinOuts, BeginSwap(side, limit, amount, minOut)
      PROVE  Funded'
  <2>1. PICK delta \in Received(amount) : SwapWith(side, limit, delta, minOut)
    BY <1>3 DEF BeginSwap
  <2>2. delta \in Nat
    BY TakerAssumption, ReceivedType
  <2> QED BY <2>1, <2>2, SwapBeginFunds
<1> QED BY <1>1, <1>2, <1>3 DEF TakerNext

\* An order the walk ends without a fill moves nothing.
LEMMA TakeEndsFunds ==
  ASSUME FundsInv, Taking, AtOrder(ix), Refundable(book, TakeHead(book, ix)),
         Continue(KillOrder(book, TakeHead(book, ix)),
                  [ix EXCEPT !.at = TakeLevel(book, ix)])
  PROVE  Funded'
<1> DEFINE c == KillOrder(book, TakeHead(book, ix))
           t == TakeLevel(book, ix)
           i == [ix EXCEPT !.at = t]
<1>1. Even(book, c)
  BY TakeHeadType, InvBooks, KillOrderEven DEF FundsInv
<1>2. /\ i.op = ix.op /\ i.quote = ix.quote /\ i.lots = ix.lots /\ i.kind = ix.kind
      /\ i.side = ix.side /\ i.delta = ix.delta
  <2>1. ix \in TakeIx
    BY TakeType DEF FundsInv
  <2> HIDE DEF t
  <2> QED BY <2>1 DEF TakeIx
<1>3. book' = c /\ ix' = i /\ vault' = vault /\ committed' = committed
  BY DEF Continue
<1> HIDE DEF c, i
<1>4. ASSUME NEW a \in Assets PROVE vault'[a] = Held(book', a) + InFlight(a)'
  <2>1. InFlight(a)' = InFlight(a)
    BY <1>2, <1>3 DEF InFlight
  <2>2. Held(c, a) = Held(book, a)
    BY <1>1, EvenHeld
  <2>3. vault[a] = Held(book, a) + InFlight(a)
    BY DEF FundsInv, Funded, Conserved
  <2> QED BY <1>3, <2>1, <2>2, <2>3
<1> QED BY <1>3, <1>4 DEF Funded, Conserved, FundsInv

\* A fill leaves in flight what the maker gave and what it got.
LEMMA TakeFillFunds == ASSUME FundsInv, TakeFill PROVE Funded'
<1> DEFINE tick     == TakeLevel(book, ix)
           head     == TakeHead(book, ix)
           fill     == FillLots(book, ix)
           notional == Notional(tick, fill)
           side     == BookSide(ix)
           fee      == FeeOn(book, notional)
           c        == FillOrder(book, side, tick, head, fill)
           i        == [ix EXCEPT !.at = tick, !.lots = @ + fill, !.quote = @ + notional,
                                  !.fee = @ + fee]
<1>0. IInv
  BY DEF FundsInv
<1>1. /\ Taking /\ AtOrder(ix) /\ fill > 0
      /\ CanUnlock(book, book.pool[head].maker, LockedAsset(side),
                   LockedAtoms(side, tick, fill))
      /\ Continue(c, i)
  BY DEF TakeFill
<1>2. side \in Sides /\ head \in Links /\ tick \in Nat /\ side = Opposite(ix.side)
  BY <1>0, <1>1, TakeHeadType DEF BookSide
<1>3. fill \in Nat /\ fill <= book.pool[head].lots
  BY <1>0, <1>1, FillLotsType
<1>4. /\ ix \in TakeIx /\ ix.lots \in Nat /\ ix.quote \in Nat /\ ix.delta \in Nat
      /\ ix.side \in Sides /\ book \in Book
  BY <1>0, <1>1, TakeType, InvBooks
<1> HIDE DEF side, head, tick, fill
<1>5. notional \in Nat /\ BaseLotSize * fill \in Nat /\ BaseLotSize * ix.lots \in Nat
      /\ BaseLotSize * (ix.lots + fill) = BaseLotSize * ix.lots + BaseLotSize * fill
  BY <1>2, <1>3, <1>4, Products, BookAssumption DEF Notional
<1>6. ASSUME NEW a \in Assets
      PROVE  Held(c, a) = Held(book, a)
                          + IF a = LockedAsset(side) THEN -LockedAtoms(side, tick, fill)
                            ELSE LockedAtoms(Opposite(side), tick, fill)
  BY <1>1, <1>2, <1>3, <1>4, FillOrderHeld
<1>7. /\ LockedAsset(side) = IF ix.side = "bid" THEN "base" ELSE "quote"
      /\ LockedAtoms(side, tick, fill) = IF ix.side = "bid" THEN BaseLotSize * fill ELSE notional
      /\ LockedAtoms(Opposite(side), tick, fill)
           = IF ix.side = "bid" THEN notional ELSE BaseLotSize * fill
  BY <1>2, <1>4 DEF LockedAsset, LockedAtoms, Opposite, Sides
<1> HIDE DEF notional, fee
<1>8. /\ i.op = ix.op /\ i.kind = ix.kind /\ i.side = ix.side /\ i.delta = ix.delta
      /\ i.lots = ix.lots + fill /\ i.quote = ix.quote + notional
  BY <1>4 DEF TakeIx
<1>9. book' = c /\ ix' = i /\ vault' = vault /\ committed' = committed
  BY <1>1 DEF Continue
<1> HIDE DEF c, i
<1>10. ASSUME NEW a \in Assets PROVE vault'[a] = Held(book', a) + InFlight(a)'
  <2>1. vault[a] = Held(book, a) + InFlight(a) /\ Held(book, a) \in Nat
    BY <1>4, HeldType DEF FundsInv, Funded, Conserved
  <2> DEFINE pull == IF ix.kind = "Swap" /\ (a = "quote" <=> ix.side = "bid")
                     THEN ix.delta ELSE 0
  <2>2. pull \in Nat
    BY <1>4
  <2>3. InFlight(a) = (IF a = "base" THEN IF ix.side = "bid" THEN BaseLotSize * ix.lots
                                                      ELSE -(BaseLotSize * ix.lots)
                      ELSE IF ix.side = "bid" THEN -ix.quote ELSE ix.quote) + pull
    BY <1>1 DEF InFlight, Taking
  <2>4. InFlight(a)'
           = (IF a = "base" THEN IF ix.side = "bid" THEN BaseLotSize * (ix.lots + fill)
                                              ELSE -(BaseLotSize * (ix.lots + fill))
              ELSE IF ix.side = "bid" THEN -(ix.quote + notional) ELSE ix.quote + notional)
             + pull
    BY <1>1, <1>8, <1>9 DEF InFlight, Taking
  <2> HIDE DEF pull
  <2> DEFINE x == BaseLotSize * ix.lots
             y == BaseLotSize * fill
  <2>5. x \in Nat /\ y \in Nat /\ BaseLotSize * (ix.lots + fill) = x + y
    BY <1>5
  <2>6. LockedAtoms(side, tick, fill) = IF ix.side = "bid" THEN y ELSE notional
    BY <1>7
  <2>7. LockedAtoms(Opposite(side), tick, fill) = IF ix.side = "bid" THEN notional ELSE y
    BY <1>7
  <2>8. InFlight(a) = (IF a = "base" THEN IF ix.side = "bid" THEN x ELSE -x
                      ELSE IF ix.side = "bid" THEN -ix.quote ELSE ix.quote) + pull
    BY <2>3
  <2> HIDE DEF x, y
  <2>9. InFlight(a)'
           = (IF a = "base" THEN IF ix.side = "bid" THEN x + y ELSE -(x + y)
              ELSE IF ix.side = "bid" THEN -(ix.quote + notional) ELSE ix.quote + notional)
             + pull
    BY <2>4, <2>5
  <2>10. Held(c, a) + InFlight(a)' = Held(book, a) + InFlight(a)
    <3>1. CASE a = "base" /\ ix.side = "bid"
      BY <1>5, <1>6, <1>7, <2>1, <2>2, <2>5, <2>6, <2>7, <2>8, <2>9, <3>1
    <3>2. CASE a = "base" /\ ix.side # "bid"
      BY <1>5, <1>6, <1>7, <2>1, <2>2, <2>5, <2>6, <2>7, <2>8, <2>9, <3>2
    <3>3. CASE a # "base" /\ ix.side = "bid"
      BY <1>4, <1>5, <1>6, <1>7, <2>1, <2>2, <2>5, <2>6, <2>7, <2>8, <2>9, <3>3 DEF Assets
    <3>4. CASE a # "base" /\ ix.side # "bid"
      BY <1>4, <1>5, <1>6, <1>7, <2>1, <2>2, <2>5, <2>6, <2>7, <2>8, <2>9, <3>4 DEF Assets
    <3> QED BY <3>1, <3>2, <3>3, <3>4
  <2> QED BY <1>9, <2>1, <2>10
<1> QED BY <1>9, <1>10 DEF Funded, Conserved, FundsInv

-----------------------------------------------------------------------------
(* Settling                                                                *)

\* The fees of the take are accrued to the market.
LEMMA AccruedHeld ==
  ASSUME FundsInv, Taking, NEW a \in Assets
  PROVE  /\ Accrued(book, ix) \in Book
         /\ Held(Accrued(book, ix), a) = Held(book, a) + IF a = "quote" THEN ix.fee ELSE 0
<1>1. book \in Book /\ ix.fee \in Nat /\ Accrued(book, ix) \in Book
  BY InvBooks, TakeType, AccruedGood DEF FundsInv, Good
<1>2. book.fees \in Nat /\ book.fees + ix.fee \in Nat
  BY <1>1 DEF Book
<1>3. Held(Accrued(book, ix), a) = Held(book, a)
        + IF a = "quote" THEN (book.fees + ix.fee) - book.fees ELSE 0
  BY <1>1, <1>2, FeesHeld DEF Accrued
<1> QED BY <1>1, <1>2, <1>3

\* A settled taker owns what was in flight.
LEMMA SettledBacked ==
  ASSUME FundsInv, Taking, ix.kind # "Swap", SeatPays(Accrued(book, ix), ix)
  PROVE  /\ SettleTaker(Accrued(book, ix), ix) \in Book
         /\ Backed(SettleTaker(Accrued(book, ix), ix), vault)
<1> DEFINE b    == Accrued(book, ix)
           base == BaseLotSize * ix.lots
           s    == ix.seat
           paid == ix.quote + ix.fee
           got  == ix.quote - ix.fee
           c    == SettleTaker(b, ix)
<1>1. /\ s \in SeatIds /\ paid \in Nat /\ got \in Nat /\ base \in Nat
      /\ ix.quote \in Nat /\ ix.fee \in Nat
  BY TakeType, Products, BookAssumption DEF FundsInv
<1>2. b \in Book
  BY AccruedHeld, AssetsAre
<1>3. b.seats[s].free["base"] \in Nat /\ b.seats[s].free["quote"] \in Nat
  BY <1>1, <1>2, AssetsAre, BalanceType
<1>4. ASSUME NEW a \in Assets
      PROVE  /\ Held(b, a) = Held(book, a) + IF a = "quote" THEN ix.fee ELSE 0
             /\ vault[a] = Held(book, a) + InFlight(a) /\ Held(book, a) \in Nat
  BY AccruedHeld, InvBooks, HeldType DEF FundsInv, Funded, Conserved
<1>5. ASSUME NEW a \in Assets
      PROVE  InFlight(a) = (IF a = "base" THEN IF ix.side = "bid" THEN base ELSE -base
                           ELSE IF ix.side = "bid" THEN -ix.quote ELSE ix.quote) + 0
  BY DEF InFlight, Taking
<1>6. SeatPays(b, ix)
  OBVIOUS
<1>7. CASE ix.side = "bid"
  <2>1. b.seats[s].free["quote"] >= paid
    BY <1>6, <1>7 DEF SeatPays
  <2>2. c = AddFree(AddFree(b, s, "quote", -paid), s, "base", base)
    BY <1>7 DEF SettleTaker
  <2> HIDE DEF b, base, s, paid, c
  <2>3. b.seats[s].free["quote"] + (-paid) >= 0 /\ b.seats[s].free["base"] + base >= 0
        /\ -paid \in Int /\ base \in Int
    BY <1>1, <1>3, <2>1
  <2>4. ASSUME NEW a \in Assets
        PROVE  c \in Book /\ Held(c, a) = Held(b, a) + IF a = "quote" THEN -paid ELSE base
    BY <1>1, <1>2, <2>2, <2>3, AssetsAre, TwoLegsHeld
  <2>5. ASSUME NEW a \in Assets PROVE vault[a] = Held(c, a)
    BY <1>1, <1>4, <1>5, <1>7, <2>4 DEF Assets, paid
  <2> QED BY <2>4, <2>5, AssetsAre DEF Backed, b, c
<1>8. CASE ix.side # "bid"
  <2>1. b.seats[s].free["base"] >= base
    BY <1>6, <1>8 DEF SeatPays
  <2>2. c = AddFree(AddFree(b, s, "base", -base), s, "quote", got)
    BY <1>8 DEF SettleTaker
  <2> HIDE DEF b, base, s, got, c
  <2>3. b.seats[s].free["base"] + (-base) >= 0 /\ b.seats[s].free["quote"] + got >= 0
        /\ -base \in Int /\ got \in Int
    BY <1>1, <1>3, <2>1
  <2>4. ASSUME NEW a \in Assets
        PROVE  c \in Book /\ Held(c, a) = Held(b, a) + IF a = "base" THEN -base ELSE got
    BY <1>1, <1>2, <2>2, <2>3, AssetsAre, TwoLegsHeld
  <2>5. ASSUME NEW a \in Assets PROVE vault[a] = Held(c, a)
    BY <1>1, <1>4, <1>5, <1>8, <2>4 DEF Assets, got
  <2> QED BY <2>4, <2>5, AssetsAre DEF Backed, b, c
<1> QED BY <1>7, <1>8

LEMMA EndPlaceFunds == ASSUME FundsInv, EndPlaceLimit \/ EndPlaceTake PROVE Funded'
<1> DEFINE acc  == Accrued(book, ix)
           paid == SettleTaker(acc, ix)
           rest == Remaining(ix)
           done == Upsert(paid, ix.seat, ix.side, ix.limit, rest, ix.expiry, FALSE)
<1>0. Taking /\ ix.kind # "Swap" /\ IInv /\ Good(acc)
  BY AccruedGood DEF EndPlaceLimit, EndPlaceTake, TakeOver, FundsInv
<1>1. CASE Abort
  BY <1>1, AbortFunds
<1>2. CASE SeatPays(acc, ix) /\ Commit(paid, vault)
  BY <1>0, <1>2, SettledBacked, CommitFunds
<1>3. CASE /\ SeatPays(acc, ix) /\ Commit(done, vault)
           /\ CanUpsert(paid, ix.seat, ix.side, ix.limit, rest, FALSE)
  <2>1. Good(paid) /\ Backed(paid, vault)
    BY <1>0, <1>3, SettleTakerGood, SettledBacked
  <2> HIDE DEF paid
  <2>2. /\ ix.seat \in SeatIds /\ ix.side \in Sides /\ ix.limit \in Nat /\ rest \in Nat
        /\ ix.expiry \in Nat
    BY <1>0, TakeType DEF Remaining
  <2>3. Even(paid, done)
    BY <1>3, <2>1, <2>2, UpsertEven DEF Good, Header
  <2> HIDE DEF done
  <2> QED BY <1>3, <2>1, <2>3, EvenBacked, CommitFunds
<1> QED BY <1>1, <1>2, <1>3 DEF EndPlaceLimit, EndPlaceTake

\* A swap returns what is left of its input and pays its output.
LEMMA EndSwapFunds == ASSUME FundsInv, EndSwap PROVE Funded'
<1> DEFINE base     == BaseLotSize * ix.lots
           consumed == IF ix.side = "bid" THEN ix.quote + ix.fee ELSE base
           leftover == ix.delta - consumed
           out      == Output(ix)
           in       == IF ix.side = "bid" THEN "quote" ELSE "base"
           outAsset == IF ix.side = "bid" THEN "base" ELSE "quote"
           v        == [vault EXCEPT ![in] = @ - leftover, ![outAsset] = @ - out]
           c        == Accrued(book, ix)
<1>1. Taking /\ ix.kind = "Swap" /\ IInv
  BY DEF EndSwap, TakeOver, FundsInv
<1>2. CASE Abort
  BY <1>2, AbortFunds
<1>3. CASE Commit(c, v)
  <2>1. /\ base \in Nat /\ ix.quote \in Nat /\ ix.fee \in Nat /\ ix.delta \in Nat
        /\ ix.side \in Sides
    BY <1>1, TakeType, Products, BookAssumption
  <2>2. ASSUME NEW a \in Assets
        PROVE  /\ c \in Book
               /\ Held(c, a) = Held(book, a) + IF a = "quote" THEN ix.fee ELSE 0
               /\ vault[a] = Held(book, a) + InFlight(a) /\ Held(book, a) \in Nat
    BY <1>1, AccruedHeld, InvBooks, HeldType DEF FundsInv, Funded, Conserved
  <2>3. ASSUME NEW a \in Assets
        PROVE  InFlight(a) = (IF a = "base" THEN IF ix.side = "bid" THEN base ELSE -base
                             ELSE IF ix.side = "bid" THEN -ix.quote ELSE ix.quote)
                 + (IF a = "quote" <=> ix.side = "bid" THEN ix.delta ELSE 0)
    BY <1>1 DEF InFlight, Taking
  <2>4. out = IF ix.side = "bid" THEN base ELSE ix.quote - ix.fee
    BY DEF Output
  <2>5. vault \in Vault
    BY <1>1 DEF IInv, TypeOK
  <2> HIDE DEF base, c, out
  <2>6. ASSUME NEW a \in Assets PROVE v[a] = Held(c, a)
    <3>1. leftover \in Int /\ out \in Int
      BY <2>1, <2>4
    <3>2. v[a] = vault[a] - IF a = in THEN leftover ELSE out
      <4> HIDE DEF leftover
      <4> QED BY <2>1, <2>5, <3>1 DEF Vault, Assets, Sides
    <3> HIDE DEF v
    <3> QED BY <2>1, <2>2, <2>3, <2>4, <3>2 DEF Assets, Sides
  <2> HIDE DEF v
  <2> QED BY <1>3, <2>2, <2>6, AssetsAre, CommitFunds DEF Backed
<1> QED BY <1>2, <1>3 DEF EndSwap

LEMMA TakeFunds == ASSUME FundsInv, TakeStep PROVE Funded'
<1>1. CASE TakeExpired
  BY <1>1, TakeEndsFunds DEF TakeExpired
<1>2. CASE TakeOwn
  BY <1>2, TakeEndsFunds, AbortFunds DEF TakeOwn
<1> QED BY <1>1, <1>2, TakeFillFunds, EndPlaceFunds, EndSwapFunds DEF TakeStep

-----------------------------------------------------------------------------
(* The program                                                             *)

LEMMA StutterFunds ==
  ASSUME FundsInv, NextSlot \/ Refused \/ UNCHANGED vars PROVE Funded'
<1>1. book' = book /\ vault' = vault /\ ix' = ix /\ committed' = committed
  BY DEF NextSlot, Refused, vars
<1>2. ASSUME NEW a \in Assets PROVE vault'[a] = Held(book', a) + InFlight(a)'
  <2>1. InFlight(a)' = InFlight(a)
    BY <1>1 DEF InFlight
  <2>2. vault[a] = Held(book, a) + InFlight(a)
    BY DEF FundsInv, Funded, Conserved
  <2> QED BY <1>1, <2>1, <2>2
<1> QED BY <1>1, <1>2 DEF Funded, Conserved, FundsInv

LEMMA FundsNext == ASSUME FundsInv, [Next]_vars PROVE FundsInv'
<1>1. IInv'
  BY NextInv DEF FundsInv
<1>2. Funded'
  BY CustodyFunds, MakerFunds, TakerFunds, HygieneFunds, MergeFunds, TakeFunds, StutterFunds
     DEF Next, Step
<1> QED BY <1>1, <1>2 DEF FundsInv

\* Every atom in the vaults belongs to a seat or to the accrued fees, or is in
\* flight in a take or a swap not yet settled, in every reachable state of
\* every market.
THEOREM FundsConserved == Spec => []Conserved
<1>1. Init => FundsInv
  BY InitInv, FundsInit DEF FundsInv
<1>2. FundsInv /\ [Next]_vars => FundsInv'
  BY FundsNext
<1>3. FundsInv => Conserved
  BY DEF FundsInv, Funded
<1> QED BY <1>1, <1>2, <1>3, PTL DEF Spec
=============================================================================
