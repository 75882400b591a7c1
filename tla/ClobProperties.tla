---------------------------- MODULE ClobProperties ----------------------------
(***************************************************************************)
(* What makes the program correct.  The invariants hold after every step,  *)
(* also in the middle of an instruction; the action properties compare the *)
(* state a successful instruction leaves with the one it found, through    *)
(* `committed`.                                                            *)
(***************************************************************************)
EXTENDS Clob, FiniteSets

LOCAL INSTANCE FiniteSetsExt

Sum(op(_), S) == MapThenSumSet(op, S)

Live(b) == {n \in Nodes : IsLive(b, n)}
OrdersAt(b, side, tick) ==
  {n \in Live(b) : b.pool[n].side = side /\ b.pool[n].tick = tick}

-----------------------------------------------------------------------------
(* Types                                                                   *)

MassQuoteIx ==
  [op : {"MassQuote"}, seat : SeatIds, bids : Payloads, asks : Payloads,
   expiry : Nat, side : Sides, qi : Nat, prev : Links, cur : Links,
   lastTick : Nat, lastUsed : Nat, opposing : Nat]

TakeIx ==
  [op : {"Take"}, kind : {"PlaceLimit", "PlaceTake", "Swap"},
   seat : SeatIds \cup {NoSeat}, side : Sides, limit : Nat, maxLots : Nat,
   maxQuote : Nat, policy : {"abort", "cancel"}, expiry : Nat, minOut : Nat,
   delta : Nat, at : Nat, lots : Nat, quote : Nat, fee : Nat]

ReanchorIx == [op : {"Reanchor"}, ideal : Nat, max : Nat, evicted : Nat,
               cur : Nat, inWord : BOOLEAN]

ReapIx == [op : {"ReapExpired"}, side : Sides, start : Nat, max : Nat,
           tick : Nat, reaped : Nat, cur : Links]

Vault == [Assets -> Nat]

\* Every field keeps the range its width and its use in the code give it;
\* in particular no balance is ever driven below zero, where the code's
\* unsigned subtractions would wrap.
TypeOK ==
  /\ book \in Book
  /\ vault \in Vault
  /\ ix \in {Idle} \cup MassQuoteIx \cup TakeIx \cup ReanchorIx \cup ReapIx
  /\ committed \in [book : Book, vault : Vault]
  /\ slot \in Nat

-----------------------------------------------------------------------------
(* The book's structure                                                    *)

\* Time priority and the level lists (state.rs fifo_append, fifo_unlink): each
\* price of each side has its bit set exactly when orders rest there, and the
\* level's links run through exactly those orders, oldest first, with their
\* lots as the total.
LevelsExact ==
  \A side \in Sides, tick \in book.anchor .. LastTick(book) :
    LET O == OrdersAt(book, side, tick)
        l == book.levels[Slot(tick)]
    IN /\ IsOccupied(book, side, tick) <=> O # {}
       /\ O # {} =>
            /\ l.head \in O /\ book.pool[l.head].prev = NIL
            /\ l.tail \in O /\ book.pool[l.tail].next = NIL
            /\ l.total = Sum(LAMBDA n : book.pool[n].lots, O)
            /\ \A n \in O :
                 /\ n # l.tail =>
                      LET m == book.pool[n].next
                      IN m \in O /\ book.pool[m].prev = n
                         /\ book.pool[n].seq < book.pool[m].seq
                 /\ n # l.head => book.pool[n].prev \in O

\* The seat chains (chain_splice, chain_unlink, chain_insert_sorted): each
\* maker's links run through exactly its live orders, strictly sorted by side
\* and tick, so one order per side and tick, and the count is exact.
ChainsExact ==
  \A s \in SeatIds :
    LET O    == LiveOf(book, s)
        seat == book.seats[s]
        Before(m, n) == ChainBefore(book.pool[m].side, book.pool[m].tick,
                                    book.pool[n].side, book.pool[n].tick)
    IN /\ seat.count = Cardinality(O)
       /\ seat.head \in O \cup {NIL} /\ (seat.head = NIL <=> O = {})
       /\ \A n \in O :
            LET p == book.pool[n].makerPrev
                m == book.pool[n].makerNext
            IN /\ (p = NIL <=> n = seat.head) /\ p \in O \cup {NIL}
               /\ m # NIL => m \in O /\ book.pool[m].makerPrev = n /\ Before(n, m)

\* The free list (alloc_node, free_node) runs through exactly the nodes no
\* live order uses, each once, and its count is exact; node 0 is never used.
FreeListExact ==
  LET walk[k \in 0 .. Capacity] ==
        IF k = 0 THEN book.freeHead ELSE book.pool[walk[k - 1]].next
      free == Nodes \ Live(book)
  IN /\ book.pool[NIL] = FreshNode(NIL)
     /\ {walk[k] : k \in 0 .. Capacity} = free \cup {NIL}
     /\ book.freeCount = Cardinality(free)

\* No bid rests at or above an ask (check_or_slide_vs, take, reanchor_step).
\* One level structure serves both sides, so this also keeps their lists apart.
Uncrossed ==
  \A bid \in TicksOf(book, "bid"), ask \in TicksOf(book, "ask") : bid < ask

\* Ring aliasing (reanchor_step, check_or_slide_vs): every live order's tick
\* lies in the window, so no two live ticks share a ring position; and the
\* window itself is word aligned, clear of tick 0 and within the tick limit.
WindowHolds ==
  /\ \A n \in Live(book) :
       book.pool[n].tick \in book.anchor .. LastTick(book) /\ book.pool[n].lots > 0
  /\ book.anchor % WordTicks = 0 /\ book.anchor >= WordTicks
  /\ LastTick(book) <= TickLimit

\* A seat never keeps more orders than its cap once an instruction is done; a
\* merge that replaces one side before the other may hold twice as many.
SeatCap ==
  \A s \in SeatIds :
    /\ ix = Idle => book.seats[s].count <= MaxOrdersPerSeat
    /\ book.seats[s].count <= 2 * MaxOrdersPerSeat

-----------------------------------------------------------------------------
(* Funds                                                                   *)

\* A seat's locked balances are exactly the locks of its live orders, at every
\* step of every instruction: cancels, fills, evictions and expiries refund or
\* spend neither more nor less than was locked.
LocksExact ==
  \A s \in SeatIds, a \in Assets :
    book.seats[s].locked[a] =
      Sum(LAMBDA n : LockedAtoms(book.pool[n].side, book.pool[n].tick, book.pool[n].lots),
          {n \in LiveOf(book, s) : LockedAsset(book.pool[n].side) = a})

SeatTotal(b, s, a) == b.seats[s].free[a] + b.seats[s].locked[a]
Held(b, a) == Sum(LAMBDA s : SeatTotal(b, s, a), SeatIds)
              + IF a = "quote" THEN b.fees ELSE 0

\* The model starts with the deposits of the Seated seats made: the vaults hold
\* what the seats were credited with, and nothing else.
ASSUME VaultAssumption ==
  \A rate \in FeeRates, a \in Assets : StartVault[a] = Held(StartBook(rate), a)

\* What a take in flight has credited or debited on one leg only.
InFlight(a) ==
  IF ix.op # "Take" THEN 0
  ELSE (IF a = "base" THEN IF ix.side = "bid" THEN BaseLotSize * ix.lots
                                              ELSE -(BaseLotSize * ix.lots)
                      ELSE IF ix.side = "bid" THEN -ix.quote ELSE ix.quote)
       + (IF ix.kind = "Swap" /\ (a = "quote" <=> ix.side = "bid") THEN ix.delta ELSE 0)

\* Every atom in the vaults belongs to a seat or to the accrued fees, and
\* nothing else is owed: trades, fees, swaps, deposits and withdrawals move
\* atoms and make none (place_limit, place_take, swap, deposit, withdraw).
Conserved == \A a \in Assets : vault[a] = Held(book, a) + InFlight(a)

-----------------------------------------------------------------------------
(* What a successful instruction does                                      *)

Old == committed.book
New == committed.book'

Survives(n) == IsLive(New, n) /\ New.pool[n].seq = Old.pool[n].seq

\* Lots an instruction took off an order of the old book, all if it ended.
Gone(n) == Old.pool[n].lots - (IF Survives(n) THEN New.pool[n].lots ELSE 0)

\* An order keeps its identity: under one id it never moves, changes hands or
\* grows (growing re-posts it at the back under a fresh id), and ids are never
\* issued twice, so a stale id quoted back by a cancel names nothing.
OrderIdentity ==
  [][/\ \A n \in Live(Old) : Survives(n) =>
          /\ New.pool[n].maker = Old.pool[n].maker
          /\ New.pool[n].side = Old.pool[n].side
          /\ New.pool[n].tick = Old.pool[n].tick
          /\ New.pool[n].lots <= Old.pool[n].lots
     /\ \A n \in Live(New) : (n \in Live(Old) /\ Survives(n))
                             \/ New.pool[n].seq >= Old.orderSeq]_committed

\* Cancel by id (cancel_order) ends that order and no other, whatever the pool
\* slot was reused for meanwhile, and returns exactly its lock.
CancelExact ==
  [][\A s \in SeatIds, n \in Nodes, id \in CancelIds :
       Cancel(s, n, id) =>
         /\ {Old.pool[m].seq : m \in Live(Old)} \ {id}
              = {New.pool[m].seq : m \in Live(New)}
         /\ \A m \in Live(Old) : m # n => Survives(m) /\ Gone(m) = 0
         /\ \A r \in SeatIds, a \in Assets :
              /\ SeatTotal(New, r, a) = SeatTotal(Old, r, a)
              /\ r # s => New.seats[r] = Old.seats[r]]_committed

-----------------------------------------------------------------------------
(* Seats                                                                   *)

\* A seat changes hands empty (claim_seat, close_seat): whoever gets or gives
\* up a seat leaves no balance, order or chain in it, so that no owner ever
\* inherits the funds or the quotes of another.
SeatsHandedOverEmpty ==
  [][\A s \in SeatIds : New.seats[s].owner # Old.seats[s].owner =>
       /\ \A a \in Assets : SeatTotal(Old, s, a) = 0 /\ SeatTotal(New, s, a) = 0
       /\ LiveOf(Old, s) = {} /\ LiveOf(New, s) = {}
       /\ New.seats[s].head = NIL /\ New.seats[s].count = 0]_committed

-----------------------------------------------------------------------------
(* MassQuote                                                               *)

\* The maker's orders on one side, best first for asks, worst first for bids.
QuotesOf(b, s, side) == {n \in LiveOf(b, s) : b.pool[n].side = side}
Kth(b, S, k) == CHOOSE n \in S : Cardinality({m \in S : b.pool[m].tick < b.pool[n].tick}) = k - 1

\* Order n is what quote q asked for: same size and expiry, at its own tick,
\* or slid off the other side to a less aggressive one.
Honours(n, q, side, expiry) ==
  LET nd == New.pool[n]
  IN /\ nd.lots = q.lots /\ nd.expiry = expiry
     /\ nd.tick = q.tick \/ (~q.reject /\ IF side = "bid" THEN nd.tick < q.tick
                                                         ELSE nd.tick > q.tick)

\* A successful MassQuote leaves the seat with exactly the payload: the k-th
\* order of a side honours its k-th quote; an order resting at a quoted tick
\* with at least that size kept its id, so its queue place; nobody else's
\* orders or balances and none of the seat's totals changed.
MassQuoteExact ==
  [][Merging /\ ix' = Idle =>
       /\ \A side \in Sides :
            LET p == IF side = "bid" THEN ix.bids ELSE ix.asks
                S == QuotesOf(New, ix.seat, side)
            IN /\ Cardinality(S) = Len(p)
               /\ \A k \in 1 .. Len(p) : Honours(Kth(New, S, k), p[k], side, ix.expiry)
               /\ \A n \in QuotesOf(Old, ix.seat, side), k \in 1 .. Len(p) :
                    /\ Old.pool[n].tick = p[k].tick
                    /\ Old.pool[n].lots >= p[k].lots
                    => Survives(n)
       /\ \A n \in Live(Old) : Old.pool[n].maker # ix.seat => Survives(n) /\ Gone(n) = 0
       /\ \A s \in SeatIds, a \in Assets :
            /\ SeatTotal(New, s, a) = SeatTotal(Old, s, a)
            /\ s # ix.seat => New.seats[s] = Old.seats[s]]_committed

-----------------------------------------------------------------------------
(* Takes                                                                   *)

TakeCommits == Taking /\ ix' = Idle

\* Orders of the old book a take may trade with: on the other side, within the
\* limit, not expired, not the taker's own.
Tradable(n) ==
  /\ Old.pool[n].side = BookSide(ix)
  /\ IF ix.side = "bid" THEN Old.pool[n].tick <= ix.limit ELSE Old.pool[n].tick >= ix.limit
  /\ ~IsExpired(Old, n, slot)
  /\ Old.pool[n].maker # ix.seat

\* The lots of such an order that were traded, and what they cost.
Traded(n)    == IF n \in Live(Old) /\ Tradable(n) THEN Gone(n) ELSE 0
TradedFor(n) == Notional(Old.pool[n].tick, Traded(n))

\* Price first, then the order's age.
Precedes(m, n) ==
  \/ IF ix.side = "bid" THEN Old.pool[m].tick < Old.pool[n].tick
                        ELSE Old.pool[m].tick > Old.pool[n].tick
  \/ Old.pool[m].tick = Old.pool[n].tick /\ Old.pool[m].seq < Old.pool[n].seq

\* Price-time priority (take): a successful take has filled every tradable
\* order that precedes one it filled; what it filled adds up to its result at
\* the resting prices; an order it may not trade with was left alone, or ended
\* whole when it is expired or the taker's own.
FilledInTurn ==
  /\ \A m, n \in Live(Old) :
       Tradable(m) /\ Tradable(n) /\ Precedes(m, n) /\ Traded(n) > 0 => ~Survives(m)
  /\ ix.lots = Sum(Traded, Live(Old))
  /\ ix.quote = Sum(TradedFor, Live(Old))
  /\ \A n \in Live(Old) : ~Tradable(n) /\ Gone(n) > 0 =>
       \/ ~Survives(n) /\ IsExpired(Old, n, slot)
       \/ Old.pool[n].maker = ix.seat

\* Price-time priority: every take that succeeds (take) has filled in turn.
PriceTimePriority == [][TakeCommits => FilledInTurn]_committed

\* A take stops for a reason: its size is done, no tradable order is left
\* within its limit, or its quote budget does not pay for one lot more, the
\* fee rounded against the taker.
TakesAllItCan ==
  [][TakeCommits /\ ix.lots < ix.maxLots =>
       \A n \in Live(Old) : Tradable(n) /\ Survives(n) =>
         /\ ix.maxQuote # U64Max
         /\ (Old.pool[n].tick * TickSize) * (FeeDenominator + Old.feeBps)
              > (ix.maxQuote - ix.quote - ix.fee) * FeeDenominator]_committed

\* Who pays whom: a maker's totals move by its own fills at its own prices and
\* by nothing else, also when its expired orders are ended on the way; the
\* taker's seat pays the quote total and the fee, and the market gets the fee.
SettledAtPrices ==
  /\ \A s \in SeatIds \ {ix.seat} :
       LET sold == {n \in LiveOf(Old, s) : Old.pool[n].side = "ask"}
           bought == {n \in LiveOf(Old, s) : Old.pool[n].side = "bid"}
       IN /\ SeatTotal(New, s, "base") = SeatTotal(Old, s, "base")
               + BaseLotSize * (Sum(Traded, bought) - Sum(Traded, sold))
          /\ SeatTotal(New, s, "quote") = SeatTotal(Old, s, "quote")
               + Sum(TradedFor, sold) - Sum(TradedFor, bought)
  /\ ix.seat # NoSeat =>
       LET sign == IF ix.side = "bid" THEN 1 ELSE -1
       IN /\ SeatTotal(New, ix.seat, "base") = SeatTotal(Old, ix.seat, "base")
               + sign * BaseLotSize * ix.lots
          /\ SeatTotal(New, ix.seat, "quote") = SeatTotal(Old, ix.seat, "quote")
               - sign * ix.quote - ix.fee
  /\ New.fees = Old.fees + ix.fee

\* Every take that succeeds (take) has been paid for at the resting prices.
TradesSettle == [][TakeCommits => SettledAtPrices]_committed

\* What rounding has spared the taker, in parts of an atom, and the orders it
\* filled.
Spared == ix.quote * Old.feeBps - ix.fee * FeeDenominator
Filled == {n \in Live(Old) : Traded(n) > 0}

\* The fee of a take (take) is rounded down, and loses the market less than an
\* atom per order filled.  A quote budget may fill the order it ends at twice:
\* the first fill's fee, rounded down, can leave enough for one lot more.
FeesRounded ==
  [][TakeCommits =>
       /\ 0 <= Spared
       /\ Spared <= (FeeDenominator - 1)
                      * (Cardinality(Filled) + IF ix.maxQuote = U64Max THEN 0 ELSE 1)]_committed

\* A crossing PlaceLimit (place_limit.rs) rests what it could not match at its
\* own limit, at the back of the queue, or joins it to its quote there: the
\* maker ends with one order at that tick, never more lots than it asked for
\* beyond what matched, and nothing else of its own changes on that side.
RestedAtLimit ==
  LET own == QuotesAt(New, ix.seat, ix.side, ix.limit)
      rest == ix.maxLots - ix.lots
  IN /\ rest > 0 => /\ Cardinality(own) = 1
                    /\ \A n \in own : /\ New.pool[n].lots = rest
                                      /\ New.pool[n].expiry = ix.expiry
     /\ \A n \in LiveOf(Old, ix.seat) :
          Old.pool[n].side = ix.side /\ (rest = 0 \/ Old.pool[n].tick # ix.limit)
          => Survives(n) /\ Gone(n) = 0

\* Every crossing PlaceLimit that succeeds rests its leftover at its limit.
RestExact == [][TakeCommits /\ ix.kind = "PlaceLimit" => RestedAtLimit]_committed

\* A swap (swap.rs) keeps from its input exactly what it spent, never more than
\* arrived, and pays out exactly its proceeds, never less than the floor.
SwapExact ==
  [][TakeCommits /\ ix.kind = "Swap" =>
       LET inAsset  == IF ix.side = "bid" THEN "quote" ELSE "base"
           outAsset == IF ix.side = "bid" THEN "base" ELSE "quote"
           spent    == committed.vault'[inAsset] - committed.vault[inAsset]
           received == committed.vault[outAsset] - committed.vault'[outAsset]
       IN /\ 0 <= spent /\ spent <= ix.delta
          /\ received >= ix.minOut
          /\ (ix.side = "bid") => spent = ix.quote + ix.fee /\ received = BaseLotSize * ix.lots
          /\ (ix.side = "ask") => spent = BaseLotSize * ix.lots /\ received = ix.quote - ix.fee]_committed

-----------------------------------------------------------------------------
(* Hygiene                                                                 *)

\* Reanchor (reanchor_step): a successful call ends exactly the orders whose
\* ticks its new window excludes, refunding their makers in full; the window
\* moved towards the target and not past it, all the way unless its budget ran
\* out, and by a word at least when it has any budget and anywhere to go.
ReanchorExact ==
  [][Reanchoring /\ ix' = Idle =>
       /\ \A n \in Live(Old) :
            IF Old.pool[n].tick \in New.anchor .. LastTick(New)
            THEN Survives(n) /\ Gone(n) = 0 ELSE ~Survives(n)
       /\ \A s \in SeatIds, a \in Assets : SeatTotal(New, s, a) = SeatTotal(Old, s, a)
       /\ \/ Old.anchor <= New.anchor /\ New.anchor <= ix.ideal
          \/ ix.ideal <= New.anchor /\ New.anchor <= Old.anchor
       /\ New.anchor = ix.ideal \/ ix.evicted >= ix.max
       /\ ix.max > 0 /\ Old.anchor # ix.ideal => New.anchor # Old.anchor]_committed

\* The orders a reap ended are the first of those due, by tick and then age,
\* as many as its budget; it took no lot off another and kept every seat's funds.
FirstDueReaped ==
  LET due == {n \in Live(Old) : /\ Old.pool[n].side = ix.side
                                /\ Old.pool[n].tick >= Least(ix.start, LastTick(Old))
                                /\ IsExpired(Old, n, slot)}
      ended == {n \in Live(Old) : ~Survives(n)}
      budget == IF ix.max = 0 THEN 1 ELSE ix.max
      Ahead(m, n) == \/ Old.pool[m].tick < Old.pool[n].tick
                     \/ /\ Old.pool[m].tick = Old.pool[n].tick
                        /\ Old.pool[m].seq < Old.pool[n].seq
  IN /\ ended \subseteq due
     /\ Cardinality(ended) = Least(budget, Cardinality(due))
     /\ \A m \in due, n \in ended : Ahead(m, n) => m \in ended
     /\ \A n \in Live(Old) \ ended : Gone(n) = 0
     /\ \A s \in SeatIds, a \in Assets : SeatTotal(New, s, a) = SeatTotal(Old, s, a)

\* ReapExpired (reap_expired) ends exactly the first orders due: the expired
\* ones of its side from its start tick on (the last tick of the window when it
\* starts past it), by tick and then age, as many as its budget, one even when
\* the budget is zero; it refunds them and touches no other.
ReapExact == [][Reaping /\ ix' = Idle => FirstDueReaped]_committed

-----------------------------------------------------------------------------
(* What the documentation says and the code does not do                    *)

\* state.rs, cancel_order: comparing the order id "alone also rejects
\* already-ended orders", so a cancel only ever ends a live order.
CancelEndsLiveOrders ==
  [][\A s \in SeatIds, n \in Nodes, id \in CancelIds :
       Cancel(s, n, id) => n \in Live(Old)]_committed

\* state.rs, reanchor_step: "Eviction is bounded by `max_levels` occupied
\* levels per call".
ReanchorWithinBudget ==
  [][Reanchoring /\ ix' = Idle =>
       Cardinality({<<Old.pool[n].side, Old.pool[n].tick>> :
                      n \in {m \in Live(Old) : ~Survives(m)}}) <= ix.max]_committed

\* state.rs, take: capping the quote budget before it is multiplied "is
\* semantically lossless", so a fill is what the whole budget pays for.
CappingLossless ==
  Taking /\ AtOrder(ix) /\ ix.maxQuote # U64Max =>
    LET budget == ix.maxQuote - ix.quote - ix.fee
        whole  == FeeDenominator + book.feeBps
    IN FillLots(book, ix) =
         Least(Least(book.pool[TakeHead(book, ix)].lots, Remaining(ix)),
               ((budget * FeeDenominator) \div whole) \div (TakeLevel(book, ix) * TickSize))

-----------------------------------------------------------------------------
(* Progress                                                                *)

\* Every instruction the runtime starts ends, in success or failure: the merge,
\* the matching walk, the eviction and the reap all come to an end.
InstructionsEnd == ix # Idle ~> ix = Idle
=============================================================================
