------------------------------ MODULE OrderBook ------------------------------
(***************************************************************************)
(* The market account of the order book (program/src/state.rs) and the     *)
(* primitive operations its matching code is built from, as operators from *)
(* books to books.  There are no variables here: Program.tla holds a book  *)
(* and the instruction modules say which operations a step performs.       *)
(*                                                                         *)
(* Book records have the source's regions: the header fields, one set of   *)
(* ring positions per bitmap, the ring of levels, the seat table and the   *)
(* node pool with its two intrusive lists (level FIFO and seat chain).     *)
(* Every link is a pool index, 0 (NIL) meaning none, and node 0 exists but *)
(* is reserved, exactly as in the account.                                 *)
(***************************************************************************)
EXTENDS Integers

CONSTANTS
  WindowTicks,        \* WINDOW_TICKS: ticks of the price window, ring size
  WordTicks,          \* 64 in the code: ticks covered by one bitmap word
  TickLimit,          \* header.tick_limit: highest postable tick
  TickSize,           \* header.tick_size: quote atoms per lot and tick
  BaseLotSize,        \* header.base_lot_size: base atoms per lot
  MaxLots,            \* header.max_lots_per_order
  MaxSeats,           \* MAX_SEATS
  MaxOrdersPerSeat,   \* MAX_ORDERS_PER_SEAT
  Capacity,           \* allocatable pool nodes: order_pool_capacity - 1
  FreedSeq,           \* FREED_SEQ: the id no live order can carry
  SeqModulus,         \* wrap of the header's change counter (2^128)
  Owners,             \* keys that may own a seat
  Nobody              \* the all-zero key of an unclaimed seat

U16Max == 65535

ASSUME BookAssumption ==
  /\ WindowTicks \in Nat /\ WordTicks \in Nat \ {0}
  /\ WindowTicks >= WordTicks /\ WindowTicks % WordTicks = 0
  /\ TickLimit \in Nat /\ TickLimit >= WordTicks + WindowTicks - 1
  /\ TickSize \in Nat \ {0} /\ BaseLotSize \in Nat \ {0}
  /\ MaxLots \in Nat \ {0}
  /\ MaxSeats \in Nat \ {0} /\ MaxOrdersPerSeat \in Nat \ {0}
  /\ Capacity \in Nat \ {0} /\ Capacity <= U16Max   \* MAX_POOL_CAPACITY
  /\ FreedSeq \in Nat \ {0} /\ SeqModulus \in Nat \ {0}
  /\ Nobody \notin Owners

-----------------------------------------------------------------------------
(* The account's shape                                                     *)

NIL     == 0
NoTick  == 0     \* Option::None of a best price: tick 0 is never postable
SeatIds == 0 .. MaxSeats - 1
NoSeat  == MaxSeats        \* NO_SEAT: the seatless taker, equal to no seat
Nodes   == 1 .. Capacity
Links   == 0 .. Capacity
Ring    == 0 .. WindowTicks - 1
Sides   == {"bid", "ask"}
Assets  == {"base", "quote"}

Opposite(side) == IF side = "bid" THEN "ask" ELSE "bid"

Level == [head : Links, tail : Links, total : Int]

OrderNode == [prev : Links, next : Links, makerPrev : Links, makerNext : Links,
              tick : 0 .. TickLimit, maker : SeatIds, side : Sides, lots : Nat,
              expiry : Nat, seq : 0 .. FreedSeq]

\* order_count is a u16 the code increments and decrements with wrapping.
Counts == 0 .. U16Max

Seat == [owner : Owners \cup {Nobody}, free : [Assets -> Nat],
         locked : [Assets -> Nat], head : Links, count : Counts]

Book == [anchor : Nat, bits : [Sides -> SUBSET Ring], levels : [Ring -> Level],
         seats : [SeatIds -> Seat], pool : [Links -> OrderNode],
         freeHead : Links, freeCount : Int, orderSeq : 0 .. FreedSeq,
         feeBps : Nat, fees : Nat, seq : 0 .. SeqModulus - 1]

EmptyLevel == [head |-> NIL, tail |-> NIL, total |-> 0]

-----------------------------------------------------------------------------
(* Prices, locks, lookups                                                  *)

Slot(tick)   == tick % WindowTicks       \* ring position: tick & WINDOW_MASK
LastTick(b)  == b.anchor + WindowTicks - 1
IsLive(b, n) == b.pool[n].seq # FreedSeq

IsExpired(b, n, slot) == b.pool[n].expiry # 0 /\ b.pool[n].expiry <= slot

\* An order's lock: bids lock their notional in quote, asks their base.
LockedAsset(side) == IF side = "bid" THEN "quote" ELSE "base"
Notional(tick, lots) == tick * TickSize * lots
LockedAtoms(side, tick, lots) ==
  IF side = "bid" THEN Notional(tick, lots) ELSE BaseLotSize * lots

IsOccupied(b, side, tick) == Slot(tick) \in b.bits[side]

\* The ticks a bitmap scan of the window can return.
TicksOf(b, side) == {t \in b.anchor .. LastTick(b) : IsOccupied(b, side, t)}

\* Bitmap::highest and lowest: the best prices, NoTick when the side is empty.
Highest(T) == IF T = {} THEN NoTick ELSE CHOOSE t \in T : \A u \in T : u <= t
Lowest(T)  == IF T = {} THEN NoTick ELSE CHOOSE t \in T : \A u \in T : t <= u
BestOf(b, side) == IF side = "bid" THEN Highest(TicksOf(b, "bid"))
                                   ELSE Lowest(TicksOf(b, "ask"))

\* Faulty: equal prices do not meet.
MeetsStrictly(side, tick, resting) ==
  resting # NoTick /\ IF side = "bid" THEN tick > resting ELSE tick < resting

\* A taker or a new quote at `tick` meets a resting price of the other side.
Meets(side, tick, resting) ==
  resting # NoTick /\ IF side = "bid" THEN tick >= resting ELSE tick <= resting

\* The tick to rest at, NoTick when the quote is refused (out of the window,
\* crossing without slide, or no room for the slide inside the window).
CheckOrSlideVs(b, side, tick, slide, opposing) ==
  IF tick < b.anchor \/ tick > LastTick(b) \/ tick > TickLimit \/ tick = 0
  THEN NoTick
  ELSE IF ~Meets(side, tick, opposing) THEN tick
  ELSE IF ~slide THEN NoTick
  ELSE IF side = "bid"
       THEN IF opposing = b.anchor THEN NoTick ELSE opposing - 1
       ELSE IF opposing = LastTick(b) THEN NoTick ELSE opposing + 1

CheckOrSlide(b, side, tick, slide) ==
  CheckOrSlideVs(b, side, tick, slide, BestOf(b, Opposite(side)))

-----------------------------------------------------------------------------
(* The account's setters, one field or one bit at a time                   *)

SetOwner(b, s, owner)    == [b EXCEPT !.seats[s].owner = owner]
SetOrdersHead(b, s, n)   == [b EXCEPT !.seats[s].head = n]
SetOrderCount(b, s, k)   == [b EXCEPT !.seats[s].count = k]
SetFree(b, s, a, x)      == [b EXCEPT !.seats[s].free[a] = x]
SetLocked(b, s, a, x)    == [b EXCEPT !.seats[s].locked[a] = x]
AddFree(b, s, a, x)      == SetFree(b, s, a, b.seats[s].free[a] + x)

SetPrev(b, n, m)         == [b EXCEPT !.pool[n].prev = m]
SetNext(b, n, m)         == [b EXCEPT !.pool[n].next = m]
SetMakerPrev(b, n, m)    == [b EXCEPT !.pool[n].makerPrev = m]
SetMakerNext(b, n, m)    == [b EXCEPT !.pool[n].makerNext = m]
SetTick(b, n, tick)      == [b EXCEPT !.pool[n].tick = tick]
SetMaker(b, n, s)        == [b EXCEPT !.pool[n].maker = s]
SetSide(b, n, side)      == [b EXCEPT !.pool[n].side = side]
SetLots(b, n, lots)      == [b EXCEPT !.pool[n].lots = lots]
SetExpiry(b, n, slot)    == [b EXCEPT !.pool[n].expiry = slot]
SetSeq(b, n, id)         == [b EXCEPT !.pool[n].seq = id]

SetHead(b, l, n)         == [b EXCEPT !.levels[l].head = n]
SetTail(b, l, n)         == [b EXCEPT !.levels[l].tail = n]
AddLots(b, l, lots)      == [b EXCEPT !.levels[l].total = @ + lots]
ZeroLevel(b, l)          == [b EXCEPT !.levels[l] = EmptyLevel]

SetBit(b, side, l)       == [b EXCEPT !.bits[side] = @ \cup {l}]
ClearBit(b, side, l)     == [b EXCEPT !.bits[side] = @ \ {l}]

SetFreeHead(b, n)        == [b EXCEPT !.freeHead = n]
SetFreeCount(b, k)       == [b EXCEPT !.freeCount = k]
SetOrderSeq(b, id)       == [b EXCEPT !.orderSeq = id]

-----------------------------------------------------------------------------
(* Seat balances                                                           *)

\* Faulty: locks without looking at the free balance.
CanLockUnchecked(b, s, asset, atoms) == TRUE

CanLock(b, s, asset, atoms)   == b.seats[s].free[asset] >= atoms
CanUnlock(b, s, asset, atoms) == b.seats[s].locked[asset] >= atoms

Lock(b, s, asset, atoms) ==
  SetLocked(SetFree(b, s, asset, b.seats[s].free[asset] - atoms),
            s, asset, b.seats[s].locked[asset] + atoms)

Unlock(b, s, asset, atoms) ==
  SetFree(SetLocked(b, s, asset, b.seats[s].locked[asset] - atoms),
          s, asset, b.seats[s].free[asset] + atoms)

-----------------------------------------------------------------------------
(* Node pool                                                               *)

\* Take the free head off the free list.
AllocNode(b) ==
  SetFreeCount(SetFreeHead(b, b.pool[b.freeHead].next), b.freeCount - 1)

\* Faulty: the freed node is not made the head, so it is lost.
FreeNodeLost(b, n) ==
  SetFreeCount(SetLots(SetSeq(SetNext(b, n, b.freeHead), n, FreedSeq), n, 0),
               b.freeCount + 1)

\* Only seq, lots and next are overwritten: a freed node keeps the tick,
\* maker, side and chain links of the order that ended in it.
FreeNode(b, n) ==
  SetFreeCount(SetFreeHead(SetLots(SetSeq(SetNext(b, n, b.freeHead), n, FreedSeq), n, 0),
                           n),
               b.freeCount + 1)

\* Faulty: the counter runs into the id of freed nodes.
NextOrderIdNoSkip(b) == b.orderSeq

\* next_order_id skips FREED_SEQ, so the counter's successor never wraps.
NextOrderId(b) == IF b.orderSeq = FreedSeq THEN 0 ELSE b.orderSeq

-----------------------------------------------------------------------------
(* Level FIFO                                                              *)

\* Faulty: the back link to the old tail is not set.
FifoAppendForward(b, side, tick, n, lots) ==
  LET l      == Slot(tick)
      longer == AddLots(SetTail(b, l, n), l, lots)
      linked == IF l \in b.bits[side] THEN SetNext(longer, b.levels[l].tail, n)
                                      ELSE SetBit(SetHead(longer, l, n), side, l)
  IN SetNext(SetPrev(linked, n, NIL), n, NIL)

FifoAppend(b, side, tick, n, lots) ==
  LET l      == Slot(tick)
      tail   == b.levels[l].tail
      longer == AddLots(SetTail(b, l, n), l, lots)
  IN IF l \in b.bits[side]
     THEN SetNext(SetPrev(SetNext(longer, tail, n), n, tail), n, NIL)
     ELSE SetBit(SetNext(SetPrev(SetHead(longer, l, n), n, NIL), n, NIL), side, l)

\* The neighbours, or the level's ends, are linked past node n.
FifoBypass(b, n) ==
  LET nd  == b.pool[n]
      l   == Slot(nd.tick)
      fwd == IF nd.prev # NIL THEN SetNext(b, nd.prev, nd.next) ELSE SetHead(b, l, nd.next)
  IN IF nd.next # NIL THEN SetPrev(fwd, nd.next, nd.prev) ELSE SetTail(fwd, l, nd.prev)

FifoUnlink(b, side, n) ==
  LET l    == Slot(b.pool[n].tick)
      past == FifoBypass(b, n)
  IN IF past.levels[l].head = NIL THEN ClearBit(ZeroLevel(past, l), side, l)
     ELSE AddLots(past, l, -b.pool[n].lots)

-----------------------------------------------------------------------------
(* Seat chain: a maker's live orders, bids before asks, by ascending tick  *)

ChainBefore(side1, tick1, side2, tick2) ==
  \/ side1 = "bid" /\ side2 = "ask"
  \/ side1 = side2 /\ tick1 < tick2

LiveOf(b, s) == {n \in Nodes : IsLive(b, n) /\ b.pool[n].maker = s}

\* The walk down the chain to the quote at exactly (side, tick).
QuotesAt(b, s, side, tick) ==
  {n \in LiveOf(b, s) : b.pool[n].side = side /\ b.pool[n].tick = tick}

\* The neighbours, or the chain's head, are linked past node n.
ChainBypass(b, n) ==
  LET nd  == b.pool[n]
      fwd == IF nd.makerPrev = NIL THEN SetOrdersHead(b, nd.maker, nd.makerNext)
                                   ELSE SetMakerNext(b, nd.makerPrev, nd.makerNext)
  IN IF nd.makerNext = NIL THEN fwd ELSE SetMakerPrev(fwd, nd.makerNext, nd.makerPrev)

ChainUnlink(b, n) ==
  LET s == b.pool[n].maker
  IN FreeNode(SetOrderCount(ChainBypass(b, n), s, (b.seats[s].count + U16Max) % (U16Max + 1)), n)

\* Faulty: the successor keeps its old back link.
ChainSpliceForward(b, s, prev, next, n) ==
  LET own == SetMakerNext(SetMakerPrev(b, n, prev), n, next)
      fwd == IF prev = NIL THEN SetOrdersHead(own, s, n) ELSE SetMakerNext(own, prev, n)
  IN SetOrderCount(fwd, s, (b.seats[s].count + 1) % (U16Max + 1))

ChainSplice(b, s, prev, next, n) ==
  LET own == SetMakerNext(SetMakerPrev(b, n, prev), n, next)
      fwd == IF prev = NIL THEN SetOrdersHead(own, s, n) ELSE SetMakerNext(own, prev, n)
      bwd == IF next = NIL THEN fwd ELSE SetMakerPrev(fwd, next, n)
  IN SetOrderCount(bwd, s, (b.seats[s].count + 1) % (U16Max + 1))

\* chain_insert_sorted: the walk stops at the first chain node whose key is
\* not below the new order's; its predecessor is the last one below.
ChainInsertSorted(b, s, n) ==
  LET Key(m, k) == ChainBefore(b.pool[m].side, b.pool[m].tick,
                               b.pool[k].side, b.pool[k].tick)
      others == LiveOf(b, s) \ {n}
      below  == {m \in others : Key(m, n)}
      above  == others \ below
      prev   == IF below = {} THEN NIL
                ELSE CHOOSE m \in below : \A k \in below : ~Key(m, k)
      next   == IF above = {} THEN NIL
                ELSE CHOOSE m \in above : \A k \in above : ~Key(k, m)
  IN ChainSplice(b, s, prev, next, n)

-----------------------------------------------------------------------------
(* Order lifecycle                                                         *)

\* The refund of a live order is covered: without it kill_order fails.
Refundable(b, n) ==
  LET nd == b.pool[n]
  IN CanUnlock(b, nd.maker, LockedAsset(nd.side),
               LockedAtoms(nd.side, nd.tick, nd.lots))

\* End a live order: off its level, lock refunded, off its chain, node freed.
KillOrder(b, n) ==
  LET nd == b.pool[n]
  IN ChainUnlink(Unlock(FifoUnlink(b, nd.side, n), nd.maker, LockedAsset(nd.side),
                        LockedAtoms(nd.side, nd.tick, nd.lots)), n)

\* Faulty: sizing down does not release the lock.
ShrinkOrderKeepsLock(b, s, n, lots, expiry) ==
  AddLots(SetExpiry(SetLots(b, n, lots), n, expiry),
          Slot(b.pool[n].tick), lots - b.pool[n].lots)

\* Size down in place, keeping the queue position; equal size only refreshes
\* the expiry.
ShrinkOrder(b, s, n, lots, expiry) ==
  LET nd   == b.pool[n]
      less == Unlock(b, s, LockedAsset(nd.side),
                     LockedAtoms(nd.side, nd.tick, nd.lots - lots))
  IN AddLots(SetExpiry(SetLots(less, n, lots), n, expiry), Slot(nd.tick), lots - nd.lots)

\* book_insert on the node alloc_node returns (the free head).
BookInsert(b, side, tick, lots, s, expiry) ==
  LET n      == b.freeHead
      id     == NextOrderId(b)
      a      == SetOrderSeq(AllocNode(b), id + 1)
      placed == SetSide(SetMaker(SetTick(a, n, tick), n, s), n, side)
      order  == SetSeq(SetExpiry(SetLots(placed, n, lots), n, expiry), n, id)
  IN FifoAppend(order, side, tick, n, lots)

\* Funds and a node are there for a new order.
CanInsert(b, s, side, tick, lots) ==
  /\ CanLock(b, s, LockedAsset(side), LockedAtoms(side, tick, lots))
  /\ b.freeHead # NIL

LockAndInsert(b, s, side, tick, lots, expiry) ==
  BookInsert(Lock(b, s, LockedAsset(side), LockedAtoms(side, tick, lots)),
             side, tick, lots, s, expiry)

\* A fill of `lots` at the level's price settles the maker's seat in place.
SettleMaker(b, side, tick, n, lots) ==
  LET s    == b.pool[n].maker
      paid == LockedAsset(side)
      got  == LockedAsset(Opposite(side))
  IN SetFree(SetLocked(b, s, paid, b.seats[s].locked[paid] - LockedAtoms(side, tick, lots)),
             s, got, b.seats[s].free[got] + LockedAtoms(Opposite(side), tick, lots))

\* Fill `lots` of node n, at the head of level (side, tick): settle its maker,
\* then end the order or take it down.
FillOrder(b, side, tick, n, lots) ==
  LET settled == SettleMaker(b, side, tick, n, lots)
  IN IF lots = b.pool[n].lots
     THEN ChainUnlink(FifoUnlink(settled, side, n), n)
     ELSE AddLots(SetLots(settled, n, b.pool[n].lots - lots), Slot(tick), -lots)

BumpSeq(b) == [b EXCEPT !.seq = (@ + 1) % SeqModulus]
=============================================================================
