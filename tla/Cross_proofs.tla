----------------------------- MODULE Cross_proofs -----------------------------
(***************************************************************************)
(* The book is never crossed, for every market and every instruction       *)
(* stream.  The argument is about bits and ticks alone: ending or filling  *)
(* orders only clears bits; a new order sets one, at a tick that the       *)
(* opposing side, as it is or as a merge remembers it, does not meet; and  *)
(* a reanchor has emptied every ring position that its new window reuses.  *)
(***************************************************************************)
EXTENDS Clob_proofs

\* What of a book the argument reads.
Windowed(b) == "bits" \in DOMAIN b /\ "anchor" \in DOMAIN b /\ DOMAIN b.bits = Sides

\* c has b's window and b's bits.
SameWindow(b, c) == Windowed(c) /\ c.anchor = b.anchor /\ c.bits = b.bits

\* c has b's window and no bit that b has not, except that of `tick` on `side`.
Adds(b, c, side, tick) ==
  /\ Windowed(c) /\ c.anchor = b.anchor
  /\ \A d \in Sides : \A l \in c.bits[d] : l \in b.bits[d] \/ (d = side /\ l = Slot(tick))

\* c has b's window and no bit that b has not.
Clears(b, c) ==
  /\ Windowed(c) /\ c.anchor = b.anchor
  /\ \A d \in Sides : c.bits[d] \subseteq b.bits[d]

-----------------------------------------------------------------------------
(* Which operations touch the bits                                         *)

LEMMA BookWindowed == ASSUME NEW b \in Book PROVE Windowed(b)
BY DEF Book, Windowed

LEMMA SameClears ==
  ASSUME NEW a, NEW b, NEW c, Clears(a, b), SameWindow(b, c)
  PROVE  Clears(a, c)
BY DEF SameWindow, Clears

LEMMA ClearsTrans ==
  ASSUME NEW a, NEW b, NEW c, Clears(a, b), Clears(b, c)
  PROVE  Clears(a, c)
BY DEF Clears

LEMMA ClearsSelf == ASSUME NEW b, Windowed(b) PROVE Clears(b, b)
BY DEF Clears

\* Every setter but those of a bit.
LEMMA SettersSameWindow ==
  ASSUME NEW a, NEW b, SameWindow(a, b), NEW x, NEW y, NEW z
  PROVE  /\ SameWindow(a, SetOwner(b, x, y)) /\ SameWindow(a, SetOrdersHead(b, x, y))
         /\ SameWindow(a, SetOrderCount(b, x, y))
         /\ SameWindow(a, SetFree(b, x, y, z)) /\ SameWindow(a, SetLocked(b, x, y, z))
         /\ SameWindow(a, SetPrev(b, x, y)) /\ SameWindow(a, SetNext(b, x, y))
         /\ SameWindow(a, SetMakerPrev(b, x, y)) /\ SameWindow(a, SetMakerNext(b, x, y))
         /\ SameWindow(a, SetTick(b, x, y)) /\ SameWindow(a, SetMaker(b, x, y))
         /\ SameWindow(a, SetSide(b, x, y)) /\ SameWindow(a, SetLots(b, x, y))
         /\ SameWindow(a, SetExpiry(b, x, y)) /\ SameWindow(a, SetSeq(b, x, y))
         /\ SameWindow(a, SetHead(b, x, y)) /\ SameWindow(a, SetTail(b, x, y))
         /\ SameWindow(a, AddLots(b, x, y)) /\ SameWindow(a, ZeroLevel(b, x))
         /\ SameWindow(a, SetFreeHead(b, x)) /\ SameWindow(a, SetFreeCount(b, x))
         /\ SameWindow(a, SetOrderSeq(b, x)) /\ SameWindow(a, BumpSeq(b))
<1>1. /\ SameWindow(a, SetOwner(b, x, y)) /\ SameWindow(a, SetOrdersHead(b, x, y))
      /\ SameWindow(a, SetOrderCount(b, x, y))
  BY DEF SameWindow, Windowed, SetOwner, SetOrdersHead, SetOrderCount
<1>2. SameWindow(a, SetFree(b, x, y, z)) /\ SameWindow(a, SetLocked(b, x, y, z))
  BY DEF SameWindow, Windowed, SetFree, SetLocked
<1>3. /\ SameWindow(a, SetPrev(b, x, y)) /\ SameWindow(a, SetNext(b, x, y))
      /\ SameWindow(a, SetMakerPrev(b, x, y)) /\ SameWindow(a, SetMakerNext(b, x, y))
  BY DEF SameWindow, Windowed, SetPrev, SetNext, SetMakerPrev, SetMakerNext
<1>4. /\ SameWindow(a, SetTick(b, x, y)) /\ SameWindow(a, SetMaker(b, x, y))
      /\ SameWindow(a, SetSide(b, x, y)) /\ SameWindow(a, SetLots(b, x, y))
      /\ SameWindow(a, SetExpiry(b, x, y)) /\ SameWindow(a, SetSeq(b, x, y))
  BY DEF SameWindow, Windowed, SetTick, SetMaker, SetSide, SetLots, SetExpiry, SetSeq
<1>5. /\ SameWindow(a, SetHead(b, x, y)) /\ SameWindow(a, SetTail(b, x, y))
      /\ SameWindow(a, AddLots(b, x, y)) /\ SameWindow(a, ZeroLevel(b, x))
  BY DEF SameWindow, Windowed, SetHead, SetTail, AddLots, ZeroLevel
<1>6. /\ SameWindow(a, SetFreeHead(b, x)) /\ SameWindow(a, SetFreeCount(b, x))
      /\ SameWindow(a, SetOrderSeq(b, x)) /\ SameWindow(a, BumpSeq(b))
  BY DEF SameWindow, Windowed, SetFreeHead, SetFreeCount, SetOrderSeq, BumpSeq
<1> QED BY <1>1, <1>2, <1>3, <1>4, <1>5, <1>6

\* Balances, nodes and chains.
LEMMA PartsSameWindow ==
  ASSUME NEW a, NEW b, SameWindow(a, b), NEW s, NEW x, NEW y, NEW z, NEW n
  PROVE  /\ SameWindow(a, Lock(b, s, x, y)) /\ SameWindow(a, Unlock(b, s, x, y))
         /\ SameWindow(a, AddFree(b, s, x, y))
         /\ SameWindow(a, AllocNode(b)) /\ SameWindow(a, FreeNode(b, n))
         /\ SameWindow(a, FifoBypass(b, n)) /\ SameWindow(a, ChainUnlink(b, n))
         /\ SameWindow(a, ChainSplice(b, s, x, y, n)) /\ SameWindow(a, ChainInsertSorted(b, s, n))
         /\ SameWindow(a, SettleMaker(b, x, y, n, z))
<1>1. /\ SameWindow(a, Lock(b, s, x, y)) /\ SameWindow(a, Unlock(b, s, x, y))
      /\ SameWindow(a, AddFree(b, s, x, y)) /\ SameWindow(a, AllocNode(b))
  BY SettersSameWindow DEF Lock, Unlock, AddFree, AllocNode
<1>2. \A c : SameWindow(a, c) => SameWindow(a, FreeNode(c, n))
  BY SettersSameWindow DEF FreeNode
<1>3. SameWindow(a, FifoBypass(b, n))
  BY SettersSameWindow DEF FifoBypass
<1>4. SameWindow(a, ChainUnlink(b, n))
  <2>1. SameWindow(a, ChainBypass(b, n))
    BY SettersSameWindow DEF ChainBypass
  <2> QED BY <1>2, <2>1, SettersSameWindow DEF ChainUnlink
<1>5. \A p, q : SameWindow(a, ChainSplice(b, s, p, q, n))
  BY SettersSameWindow DEF ChainSplice
<1>6. SameWindow(a, ChainInsertSorted(b, s, n))
  <2> DEFINE Key(m, k) == ChainBefore(b.pool[m].side, b.pool[m].tick,
                                      b.pool[k].side, b.pool[k].tick)
             others == LiveOf(b, s) \ {n}
             below  == {m \in others : Key(m, n)}
             above  == others \ below
             prev   == IF below = {} THEN NIL
                       ELSE CHOOSE m \in below : \A k \in below : ~Key(m, k)
             next   == IF above = {} THEN NIL
                       ELSE CHOOSE m \in above : \A k \in above : ~Key(k, m)
  <2>1. ChainInsertSorted(b, s, n) = ChainSplice(b, s, prev, next, n)
    BY DEF ChainInsertSorted
  <2> HIDE DEF prev, next
  <2> QED BY <1>5, <2>1
<1>7. SameWindow(a, SettleMaker(b, x, y, n, z))
  BY SettersSameWindow DEF SettleMaker
<1> QED BY <1>1, <1>2, <1>3, <1>4, <1>5, <1>6, <1>7

LEMMA ShrinkOrderSame ==
  ASSUME NEW b, Windowed(b), NEW s, NEW n, NEW lots, NEW expiry
  PROVE  SameWindow(b, ShrinkOrder(b, s, n, lots, expiry))
<1>1. SameWindow(b, b)
  BY DEF SameWindow
<1> QED BY <1>1, SettersSameWindow, PartsSameWindow DEF ShrinkOrder

\* Taking an order off its level, ending and filling it.
LEMMA FifoUnlinkClears ==
  ASSUME NEW b, Windowed(b), NEW side \in Sides, NEW n
  PROVE  Clears(b, FifoUnlink(b, side, n))
<1>1. SameWindow(b, FifoBypass(b, n))
  BY PartsSameWindow DEF SameWindow
<1>2. SameWindow(b, ZeroLevel(FifoBypass(b, n), Slot(b.pool[n].tick)))
      /\ SameWindow(b, AddLots(FifoBypass(b, n), Slot(b.pool[n].tick), -b.pool[n].lots))
  BY <1>1, SettersSameWindow
<1>3. ASSUME NEW c, NEW l, SameWindow(b, c)
      PROVE  Clears(b, ClearBit(c, side, l)) /\ Clears(b, c)
  BY <1>3 DEF SameWindow, Clears, Windowed, ClearBit
<1> QED BY <1>2, <1>3 DEF FifoUnlink

LEMMA KillOrderClears ==
  ASSUME NEW b \in Book, NEW n \in Links
  PROVE  Clears(b, KillOrder(b, n))
<1> DEFINE c == FifoUnlink(b, b.pool[n].side, n)
<1>1. Clears(b, c)
  BY BookWindowed, FifoUnlinkClears, NodeType
<1>2. SameWindow(c, c)
  BY <1>1 DEF SameWindow, Clears
<1>3. SameWindow(c, KillOrder(b, n))
  <2> HIDE DEF c
  <2>1. \A s, x, y : SameWindow(c, ChainUnlink(Unlock(c, s, x, y), n))
    BY <1>2, PartsSameWindow
  <2> QED BY <2>1 DEF KillOrder, c
<1> QED BY <1>1, <1>3, SameClears

LEMMA FillOrderClears ==
  ASSUME NEW b \in Book, NEW side \in Sides, NEW tick, NEW n, NEW lots
  PROVE  Clears(b, FillOrder(b, side, tick, n, lots))
<1> DEFINE settled == SettleMaker(b, side, tick, n, lots)
           gone    == FifoUnlink(settled, side, n)
<1>1. SameWindow(b, settled) /\ Clears(b, settled) /\ Windowed(settled)
  BY BookWindowed, PartsSameWindow DEF SameWindow, Clears
<1> HIDE DEF settled
<1>2. Clears(settled, gone) /\ Windowed(gone)
  BY <1>1, FifoUnlinkClears DEF Clears
<1> HIDE DEF gone
<1>3. SameWindow(gone, ChainUnlink(gone, n))
  BY <1>2, PartsSameWindow DEF SameWindow
<1>4. SameWindow(settled, AddLots(SetLots(settled, n, b.pool[n].lots - lots), Slot(tick), -lots))
  <2>1. SameWindow(settled, SetLots(settled, n, b.pool[n].lots - lots))
    BY <1>1, SettersSameWindow DEF SameWindow
  <2> QED BY <2>1, SettersSameWindow
<1>5. Clears(b, ChainUnlink(gone, n))
  BY <1>1, <1>2, <1>3, SameClears, ClearsTrans
<1>6. Clears(b, AddLots(SetLots(settled, n, b.pool[n].lots - lots), Slot(tick), -lots))
  BY <1>1, <1>4, SameClears
<1> QED BY <1>5, <1>6 DEF FillOrder, settled, gone

\* Posting an order.
LEMMA InsertAdds ==
  ASSUME NEW b, Windowed(b), NEW side \in Sides, NEW tick, NEW lots, NEW s, NEW expiry
  PROVE  Adds(b, LockAndInsert(b, s, side, tick, lots, expiry), side, tick)
<1>1. ASSUME NEW c, NEW n, SameWindow(b, c) PROVE Adds(b, FifoAppend(c, side, tick, n, lots), side, tick)
  <2> DEFINE l      == Slot(tick)
             longer == AddLots(SetTail(c, l, n), l, lots)
  <2>1. /\ \A m : SameWindow(b, SetNext(SetPrev(SetNext(longer, m, n), n, m), n, NIL))
        /\ SameWindow(b, SetNext(SetPrev(SetHead(longer, l, n), n, NIL), n, NIL))
    BY <1>1, SettersSameWindow
  <2>2. ASSUME NEW d, SameWindow(b, d)
        PROVE  Adds(b, SetBit(d, side, l), side, tick) /\ Adds(b, d, side, tick)
    BY <2>2 DEF SameWindow, Adds, Windowed, SetBit
  <2> HIDE DEF longer
  <2> QED BY <2>1, <2>2 DEF FifoAppend, longer
<1>2. ASSUME NEW c, SameWindow(b, c)
      PROVE  Adds(b, BookInsert(c, side, tick, lots, s, expiry), side, tick)
  <2>1. \A m, n, k : SameWindow(b, SetSeq(SetExpiry(SetLots(SetSide(SetMaker(SetTick(
                       SetOrderSeq(AllocNode(c), k), n, tick), n, s), n, side), n, lots),
                       n, expiry), n, m))
    BY <1>2, SettersSameWindow, PartsSameWindow
  <2> QED BY <1>1, <2>1 DEF BookInsert
<1>3. SameWindow(b, Lock(b, s, LockedAsset(side), LockedAtoms(side, tick, lots)))
  BY PartsSameWindow DEF SameWindow
<1> QED BY <1>2, <1>3 DEF LockAndInsert

-----------------------------------------------------------------------------
(* Ring positions and ticks                                                *)

\* In a window as long as the ring, a ring position is one tick.
LEMMA SlotApart ==
  ASSUME NEW a \in Nat, NEW t \in a .. a + WindowTicks - 1, NEW u \in a .. a + WindowTicks - 1,
         Slot(t) = Slot(u)
  PROVE  t = u
<1> DEFINE w == WindowTicks
           r == t % w
           i == t \div w
           j == u \div w
<1>1. w \in Nat \ {0} /\ t \in Nat /\ u \in Nat
  BY BookAssumption
<1> HIDE DEF w
<1>2. i \in Nat /\ j \in Nat /\ r \in Nat /\ t = i * w + r /\ u = (j * w) + (u % w)
  BY <1>1
<1>3. u = j * w + r
  BY <1>2 DEF Slot, w
<1> HIDE DEF i, j, r
<1>4. ASSUME NEW x \in Nat, NEW y \in Nat, x < y PROVE y * w >= x * w + w
  <2>1. PICK k \in Nat : y = x + 1 + k
    <3>1. y - (x + 1) \in Nat /\ y = x + 1 + (y - (x + 1))
      BY <1>4
    <3> QED BY <3>1
  <2>2. y * w = x * w + w + k * w /\ k * w \in Nat /\ x * w \in Nat
    BY <1>1, <2>1
  <2> QED BY <1>1, <2>2
<1>5. i * w \in Nat /\ j * w \in Nat /\ t - u < w /\ u - t < w
  BY <1>1, <1>2 DEF w
<1>6. ~(i < j) /\ ~(j < i)
  BY <1>1, <1>2, <1>3, <1>4, <1>5
<1> QED BY <1>2, <1>3, <1>6

\* And every ring position has a tick in every window.
LEMMA SlotMate ==
  ASSUME NEW a \in Nat, NEW t \in Nat
  PROVE  \E u \in a .. a + WindowTicks - 1 : Slot(u) = Slot(t)
<1> DEFINE w == WindowTicks
           r == t % w
           i == a \div w
           o == a % w
<1>1. w \in Nat \ {0}
  BY BookAssumption
<1> HIDE DEF w
<1>2. r \in 0 .. w - 1 /\ o \in 0 .. w - 1 /\ i \in Nat /\ a = i * w + o
  BY <1>1
<1> HIDE DEF r, i, o
<1>3. ASSUME NEW k \in Nat PROVE k * w + r \in Nat /\ (k * w + r) % w = r
  <2>1. k * w \in Nat
    BY <1>1, Products
  <2> QED BY <1>1, <1>2, <2>1
<1>4. i * w \in Nat /\ (i + 1) * w = i * w + w
  BY <1>1, <1>2, Products
<1>5. CASE r >= o
  <2>1. i * w + r \in a .. a + w - 1
    BY <1>1, <1>2, <1>4, <1>5
  <2> QED BY <1>2, <1>3, <2>1 DEF Slot, w, r
<1>6. CASE r < o
  <2>1. (i + 1) * w + r \in a .. a + w - 1 /\ i + 1 \in Nat
    BY <1>1, <1>2, <1>4, <1>6
  <2> QED BY <1>3, <2>1 DEF Slot, w, r
<1> QED BY <1>2, <1>5, <1>6

-----------------------------------------------------------------------------
(* Crossing                                                                *)

Apart(b) == \A bid \in TicksOf(b, "bid"), ask \in TicksOf(b, "ask") : bid < ask

\* An order of `side` at `tick` meets nothing on the other side.
Clear(b, side, tick) ==
  \A t \in TicksOf(b, Opposite(side)) : IF side = "bid" THEN tick < t ELSE t < tick

\* `opposing` bounds the other side: nothing there is closer.
Bounds(b, side, opposing) ==
  \A t \in TicksOf(b, Opposite(side)) :
    opposing # NoTick /\ IF side = "bid" THEN opposing <= t ELSE t <= opposing

LEMMA ClearsTicks ==
  ASSUME NEW b, NEW c, Clears(b, c)
  PROVE  /\ \A side \in Sides : TicksOf(c, side) \subseteq TicksOf(b, side)
         /\ Apart(b) => Apart(c)
         /\ \A t : \A side \in Sides : Bounds(b, side, t) => Bounds(c, side, t)
         /\ \A t : \A side \in Sides : Clear(b, side, t) => Clear(c, side, t)
<1>1. ASSUME NEW side \in Sides PROVE TicksOf(c, side) \subseteq TicksOf(b, side)
  BY DEF Clears, TicksOf, IsOccupied, LastTick
<1>2. "bid" \in Sides /\ "ask" \in Sides /\ \A side \in Sides : Opposite(side) \in Sides
  BY DEF Sides, Opposite
<1> QED BY <1>1, <1>2 DEF Apart, Bounds, Clear

LEMMA SameTicks ==
  ASSUME NEW b, NEW c, SameWindow(b, c)
  PROVE  Clears(b, c)
BY DEF SameWindow, Clears

LEMMA AddsTicks ==
  ASSUME NEW b, b.anchor \in Nat, NEW c, NEW side \in Sides, NEW tick,
         Adds(b, c, side, tick), InWindow(b, tick)
  PROVE  \A d \in Sides : \A t \in TicksOf(c, d) : t \in TicksOf(b, d) \/ (d = side /\ t = tick)
<1> SUFFICES ASSUME NEW d \in Sides, NEW t \in TicksOf(c, d), t \notin TicksOf(b, d)
             PROVE  d = side /\ t = tick
  OBVIOUS
<1>1. /\ t \in b.anchor .. b.anchor + WindowTicks - 1
      /\ tick \in b.anchor .. b.anchor + WindowTicks - 1
      /\ Slot(t) \in c.bits[d] /\ Slot(t) \notin b.bits[d]
  BY DEF Adds, TicksOf, IsOccupied, LastTick, InWindow
<1>2. d = side /\ Slot(t) = Slot(tick)
  BY <1>1 DEF Adds
<1> QED BY <1>1, <1>2, SlotApart

LEMMA AddsApart ==
  ASSUME NEW b, b.anchor \in Nat, NEW c, NEW side \in Sides, NEW tick,
         Adds(b, c, side, tick), InWindow(b, tick), Apart(b), Clear(b, side, tick)
  PROVE  /\ Apart(c)
         /\ \A t : Bounds(b, side, t) => Bounds(c, side, t)
<1>1. \A d \in Sides : \A t \in TicksOf(c, d) : t \in TicksOf(b, d) \/ (d = side /\ t = tick)
  BY AddsTicks
<1>2. "bid" \in Sides /\ "ask" \in Sides /\ side \in {"bid", "ask"}
  BY DEF Sides
<1>3. TicksOf(c, Opposite(side)) \subseteq TicksOf(b, Opposite(side))
  BY <1>1, <1>2 DEF Opposite
<1>4. Apart(c)
  BY <1>1, <1>2 DEF Apart, Clear, Opposite
<1> QED BY <1>3, <1>4 DEF Bounds

LEMMA BestBounds ==
  ASSUME NEW b \in Book, WindowClear(b), NEW side \in Sides
  PROVE  Bounds(b, side, BestOf(b, Opposite(side)))
<1> DEFINE T == TicksOf(b, Opposite(side))
<1>1. T \subseteq 0 .. LastTick(b) /\ LastTick(b) \in Nat
  BY BookAssumption DEF TicksOf, Book, LastTick
<1>2. \A t \in T : t # NoTick
  BY WindowTick DEF TicksOf, InWindow
<1>3. BestOf(b, Opposite(side)) = IF side = "bid" THEN Lowest(T) ELSE Highest(T)
  BY DEF BestOf, Opposite, Sides
<1> HIDE DEF T
<1>4. ASSUME NEW t \in T
      PROVE  /\ Lowest(T) \in T /\ Lowest(T) <= t
             /\ Highest(T) \in T /\ t <= Highest(T)
  BY <1>1, HighestLowest
<1> QED BY <1>2, <1>3, <1>4 DEF Bounds, T

\* The tick a quote rests at does not meet what bounds the other side.
LEMMA CheckOrSlideClear ==
  ASSUME NEW b \in Book, NEW side \in Sides, NEW tick \in Nat, NEW slide, NEW opposing,
         opposing = NoTick \/ InWindow(b, opposing), Bounds(b, side, opposing),
         CheckOrSlideVs(b, side, tick, slide, opposing) # NoTick
  PROVE  Clear(b, side, CheckOrSlideVs(b, side, tick, slide, opposing))
<1> DEFINE t == CheckOrSlideVs(b, side, tick, slide, opposing)
<1>1. ASSUME NEW u \in TicksOf(b, Opposite(side)) PROVE IF side = "bid" THEN t < u ELSE u < t
  <2>1. u \in Int /\ b.anchor \in Nat /\ LastTick(b) \in Nat
    BY BookAssumption DEF TicksOf, Book, LastTick
  <2>2. opposing # NoTick /\ opposing \in Int
        /\ IF side = "bid" THEN opposing <= u ELSE u <= opposing
    BY <2>1 DEF Bounds, InWindow
  <2>3. IF side = "bid" THEN t < opposing ELSE t > opposing
    <3>1. CASE ~Meets(side, tick, opposing)
      <4>1. t = tick
        BY <3>1 DEF CheckOrSlideVs
      <4> HIDE DEF t
      <4> QED BY <2>2, <3>1, <4>1 DEF Meets
    <3>2. CASE Meets(side, tick, opposing)
      <4>1. t = IF side = "bid" THEN opposing - 1 ELSE opposing + 1
        BY <3>2 DEF CheckOrSlideVs
      <4> HIDE DEF t
      <4> QED BY <2>2, <4>1
    <3> QED BY <3>1, <3>2
  <2>4. t \in Int
    <3>1. t = tick \/ t = opposing - 1 \/ t = opposing + 1 \/ t = NoTick
      BY DEF CheckOrSlideVs
    <3> HIDE DEF t
    <3> QED BY <2>2, <3>1 DEF NoTick
  <2> HIDE DEF t
  <2> QED BY <2>1, <2>2, <2>3, <2>4
<1> QED BY <1>1 DEF Clear

-----------------------------------------------------------------------------
(* The invariant: neither book is crossed, a merge's remembered price still *)
(* bounds the side it is quoting against, and what a reanchor has passed is *)
(* empty.                                                                   *)

\* Everything b shows lies in the window that starts at `first`.
Emptied(b, first) ==
  \A side \in Sides : TicksOf(b, side) \subseteq first .. first + WindowTicks - 1

Riding(b, i) ==
  /\ i.op = "MassQuote" => Bounds(b, i.side, i.opposing)
  /\ i.op = "Reanchor" => Emptied(b, i.cur)

Crossless == Apart(book) /\ Apart(committed.book) /\ Riding(book, ix)

CrossInv == IInv /\ Crossless

LEMMA CommitCross ==
  ASSUME CrossInv, NEW b, Windowed(b), Apart(b), NEW v, Commit(b, v)
  PROVE  Crossless'
<1>1. Apart(BumpSeq(b))
  <2>1. SameWindow(b, b)
    BY DEF SameWindow
  <2>2. SameWindow(b, BumpSeq(b))
    BY <2>1, SettersSameWindow
  <2> QED BY <2>2, SameTicks, ClearsTicks
<1>2. book' = BumpSeq(b) /\ ix' = Idle /\ committed'.book = BumpSeq(b)
  BY DEF Commit
<1> QED BY <1>1, <1>2 DEF Crossless, Riding, Idle, Apart, TicksOf, IsOccupied, LastTick

LEMMA ClearsCommit ==
  ASSUME CrossInv, NEW b, Clears(book, b), NEW v, Commit(b, v)
  PROVE  Crossless'
BY ClearsTicks, CommitCross DEF CrossInv, Crossless, Clears

LEMMA AbortCross == ASSUME CrossInv, Abort PROVE Crossless'
BY DEF CrossInv, Crossless, Abort, Riding, Idle, Apart, TicksOf, IsOccupied, LastTick

LEMMA ContinueCross ==
  ASSUME CrossInv, NEW b, Apart(b), NEW i, Riding(b, i), Continue(b, i)
  PROVE  Crossless'
BY DEF CrossInv, Crossless, Continue, Apart, TicksOf, IsOccupied, LastTick, Riding, Bounds,
       Emptied

\* Clearing bits disturbs neither what a merge nor what a reanchor relies on.
LEMMA ClearsContinue ==
  ASSUME CrossInv, NEW b, Clears(book, b), NEW i,
         i.op = "MassQuote" => ix.op = "MassQuote" /\ i.side = ix.side /\ i.side \in Sides
                               /\ i.opposing = ix.opposing,
         i.op = "Reanchor" => ix.op = "Reanchor" /\ i.cur = ix.cur,
         Continue(b, i)
  PROVE  Crossless'
<1>1. Apart(b)
  BY ClearsTicks DEF CrossInv, Crossless
<1>2. i.op = "MassQuote" => Bounds(b, i.side, i.opposing)
  BY ClearsTicks DEF CrossInv, Crossless, Riding
<1>3. i.op = "Reanchor" => Emptied(b, i.cur)
  BY ClearsTicks DEF CrossInv, Crossless, Riding, Emptied
<1> QED BY <1>1, <1>2, <1>3, ContinueCross DEF Riding

LEMMA BookClears == ASSUME CrossInv PROVE SameWindow(book, book) /\ Clears(book, book) /\ book \in Book
BY InvGood, BookWindowed, SameTicks DEF CrossInv, Good, SameWindow

-----------------------------------------------------------------------------
(* Custody                                                                 *)

LEMMA CustodyCross == ASSUME CrossInv, CustodyNext PROVE Crossless'
<1>1. \A b : SameWindow(book, b) => \A v : Commit(b, v) => Crossless'
  BY SameTicks, ClearsCommit
<1>2. SameWindow(book, book)
  BY BookClears
<1>3. CASE \E o \in Owners : ClaimSeat(o)
  <2>1. \A s, o : SameWindow(book, SetOrdersHead(SetOwner(book, s, o), s, NIL))
    BY <1>2, SettersSameWindow
  <2> QED BY <1>1, <1>3, <2>1 DEF ClaimSeat
<1>4. CASE \E s \in SeatIds : CloseSeat(s)
  <2>1. \A s, o : SameWindow(book, SetOrdersHead(SetOwner(book, s, o), s, NIL))
    BY <1>2, SettersSameWindow
  <2> QED BY <1>1, <1>4, <2>1 DEF CloseSeat
<1>5. \A s, x, y : SameWindow(book, AddFree(AddFree(book, s, "base", x), s, "quote", y))
  BY <1>2, PartsSameWindow
<1>6. CASE \E s \in SeatIds, base, quote \in DepositAmounts : Deposit(s, base, quote)
  BY <1>1, <1>5, <1>6 DEF Deposit
<1>7. CASE \E s \in SeatIds, base, quote \in WithdrawAmounts : Withdraw(s, base, quote)
  BY <1>1, <1>5, <1>7 DEF Withdraw
<1>8. CASE CollectFees
  <2>1. SameWindow(book, [book EXCEPT !.fees = 0])
    BY <1>2 DEF SameWindow, Windowed
  <2> QED BY <1>1, <1>8, <2>1 DEF CollectFees
<1>9. CASE \E rate \in FeeRates : UpdateFee(rate)
  <2>1. \A rate : SameWindow(book, [book EXCEPT !.feeBps = rate])
    BY <1>2 DEF SameWindow, Windowed
  <2> QED BY <1>1, <1>9, <2>1 DEF UpdateFee
<1> QED BY <1>3, <1>4, <1>6, <1>7, <1>8, <1>9 DEF CustodyNext

-----------------------------------------------------------------------------
(* Quotes                                                                  *)

LEMMA UpsertApart ==
  ASSUME NEW b \in Book, WindowClear(b), Apart(b), NEW s \in SeatIds, NEW side \in Sides,
         NEW tick \in Nat, NEW lots, NEW expiry, NEW slide \in BOOLEAN,
         CanUpsert(b, s, side, tick, lots, slide)
  PROVE  LET c == Upsert(b, s, side, tick, lots, expiry, slide) IN Apart(c) /\ Windowed(c)
<1> DEFINE t == CheckOrSlide(b, side, tick, slide)
           q == QuoteAt(b, s, side, t)
           c == Cleared(b, s, side, t, lots)
           d == LockAndInsert(c, s, side, t, lots, expiry)
<1>1. InWindow(b, t) /\ Clear(b, side, t)
  <2>1. BestOf(b, Opposite(side)) = NoTick \/ InWindow(b, BestOf(b, Opposite(side)))
    BY OppositeType, BestOfInWindow
  <2>2. t # NoTick
    BY DEF CanUpsert
  <2> QED BY <2>1, <2>2, BestBounds, CheckOrSlideVsInWindow, CheckOrSlideClear DEF CheckOrSlide
<1>2. CASE Amends(b, s, side, t, lots)
  <2>1. Upsert(b, s, side, tick, lots, expiry, slide) = ShrinkOrder(b, s, q, lots, expiry)
    BY <1>2 DEF Upsert
  <2> HIDE DEF t, q
  <2>2. SameWindow(b, ShrinkOrder(b, s, q, lots, expiry))
    BY BookWindowed, ShrinkOrderSame
  <2>3. Apart(ShrinkOrder(b, s, q, lots, expiry))
    BY <2>2, SameTicks, ClearsTicks
  <2> QED BY <2>1, <2>2, <2>3 DEF SameWindow
<1>3. CASE ~Amends(b, s, side, t, lots)
  <2>1. Upsert(b, s, side, tick, lots, expiry, slide) = ChainInsertSorted(d, s, c.freeHead)
    BY <1>3 DEF Upsert, Post
  <2> HIDE DEF t
  <2>2. Clears(b, c)
    <3>1. CASE Grows(b, s, side, t, lots)
      <4>1. q \in Links /\ c = KillOrder(b, q)
        BY <3>1, QuoteAtType DEF Grows, Cleared
      <4> HIDE DEF q, c
      <4> QED BY <4>1, KillOrderClears
    <3>2. CASE ~Grows(b, s, side, t, lots)
      BY <3>2, BookWindowed, ClearsSelf DEF Cleared
    <3> QED BY <3>1, <3>2
  <2> HIDE DEF c
  <2>3. /\ Apart(c) /\ Clear(c, side, t) /\ Windowed(c) /\ c.anchor = b.anchor /\ b.anchor \in Nat
        /\ InWindow(c, t)
    BY <1>1, <2>2, ClearsTicks DEF Clears, Book, InWindow, LastTick
  <2>4. Adds(c, d, side, t)
    BY <2>3, InsertAdds
  <2> HIDE DEF d
  <2>5. Apart(d) /\ SameWindow(d, d)
    BY <2>3, <2>4, AddsApart DEF SameWindow, Adds
  <2>6. SameWindow(d, ChainInsertSorted(d, s, c.freeHead))
    BY <2>5, PartsSameWindow
  <2> QED BY <2>1, <2>5, <2>6, SameTicks, ClearsTicks DEF SameWindow
<1> QED BY <1>2, <1>3

LEMMA PostOnlyCross ==
  ASSUME CrossInv, NEW s \in SeatIds, NEW side \in Sides, NEW tick \in InTicks,
         NEW lots \in InLots, NEW reject \in BOOLEAN, NEW expiry \in InExpiries,
         PostOnly(s, side, tick, lots, reject, expiry)
  PROVE  Crossless'
<1> DEFINE c == Upsert(book, s, side, tick, lots, expiry, ~reject)
<1>1. tick \in Nat
  BY MakerAssumption
<1>2. (~reject) \in BOOLEAN
  OBVIOUS
<1>3. CanUpsert(book, s, side, tick, lots, ~reject) /\ Commit(c, vault)
  BY DEF PostOnly
<1>4. book \in Book /\ WindowClear(book) /\ Apart(book)
  BY InvGood DEF CrossInv, Crossless, Good, Header
<1>5. Apart(c) /\ Windowed(c)
  BY <1>1, <1>2, <1>3, <1>4, UpsertApart
<1> HIDE DEF c
<1> QED BY <1>3, <1>5, CommitCross

LEMMA BeginMassQuoteCross ==
  ASSUME CrossInv, NEW s \in SeatIds, NEW bids \in Payloads, NEW asks \in Payloads,
         NEW expiry \in InExpiries, BeginMassQuote(s, bids, asks, expiry)
  PROVE  Crossless'
<1> DEFINE best == BestOf(book, "ask")
           i    == [op |-> "MassQuote", seat |-> s, bids |-> bids, asks |-> asks,
                    expiry |-> expiry, side |-> "bid", qi |-> 0,
                    prev |-> NIL, cur |-> book.seats[s].head,
                    lastTick |-> 0, lastUsed |-> 0, opposing |-> best]
<1>1. Continue(book, i)
  BY DEF BeginMassQuote
<1>2. Bounds(book, "bid", best)
  <2>1. book \in Book /\ WindowClear(book) /\ "bid" \in Sides /\ Opposite("bid") = "ask"
    BY InvGood DEF CrossInv, Good, Header, Sides, Opposite
  <2> QED BY <2>1, BestBounds
<1> HIDE DEF best
<1>3. Riding(book, i)
  BY <1>2 DEF Riding
<1> HIDE DEF i
<1> QED BY <1>1, <1>3, ContinueCross DEF CrossInv, Crossless

LEMMA MakerCross == ASSUME CrossInv, MakerNext PROVE Crossless'
<1>1. ASSUME NEW n \in Links, Commit(KillOrder(book, n), vault) PROVE Crossless'
  BY <1>1, BookClears, KillOrderClears, ClearsCommit
<1>2. ASSUME NEW s \in SeatIds, NEW side \in Sides, NEW tick \in InTicks,
             CancelQuote(s, side, tick)
      PROVE  Crossless'
  <2>1. /\ QuoteAt(book, s, side, tick) \in Links
        /\ Commit(KillOrder(book, QuoteAt(book, s, side, tick)), vault)
    BY <1>2, BookClears, QuoteAtType DEF CancelQuote
  <2> QED BY <1>1, <2>1
<1>3. ASSUME NEW s \in SeatIds, NEW n \in Nodes, NEW id \in CancelIds, Cancel(s, n, id)
      PROVE  Crossless'
  BY <1>1, <1>3 DEF Cancel, Nodes, Links
<1> QED BY <1>2, <1>3, PostOnlyCross, BeginMassQuoteCross DEF MakerNext

-----------------------------------------------------------------------------
(* MassQuote                                                               *)

\* Posting a payload quote: the remembered price bounds the other side, also
\* after the quote that is replaced has been ended.
LEMMA MassQuoteInsertCross ==
  ASSUME CrossInv, Merging, HasQuote(ix), NEW b, Kept(book, b), Clears(book, b), NEW next,
         NEW nextTick, MassQuoteInsert(b, next, nextTick)
  PROVE  Crossless'
<1> DEFINE q    == Quote(ix)
           tick == CheckOrSlideVs(b, ix.side, q.tick, ~q.reject, ix.opposing)
           n    == b.freeHead
           c    == LockAndInsert(b, ix.seat, ix.side, tick, q.lots, ix.expiry)
           d    == ChainSplice(c, ix.seat, ix.prev, next, n)
           i    == [ix EXCEPT !.prev = n, !.cur = next, !.lastUsed = tick,
                              !.lastTick = q.tick, !.qi = @ + 1]
<1>0. IInv
  BY DEF CrossInv
<1>1. CASE Abort
  BY <1>1, AbortCross
<1>2. CASE tick # NoTick /\ Continue(d, i)
  <2>1. ix \in MassQuoteIx /\ ix.side \in Sides /\ q.tick \in Nat
    BY <1>0, MergeType
  <2>2. (~q.reject) \in BOOLEAN
    BY <1>0, MergeType
  <2> HIDE DEF q
  <2>3. b \in Book /\ WindowClear(b) /\ b.anchor \in Nat
    BY <1>0, InvGood, GoodKept DEF Good, Header, Book
  <2>4. ix.opposing = NoTick \/ InWindow(b, ix.opposing)
    BY <1>0, InvGood, GoodKept DEF IInv, Progressing, Merging
  <2>5. Apart(b) /\ Bounds(b, ix.side, ix.opposing)
    BY <2>1, ClearsTicks DEF CrossInv, Crossless, Riding, Merging
  <2>6. InWindow(b, tick) /\ Clear(b, ix.side, tick)
    BY <1>2, <2>1, <2>2, <2>3, <2>4, <2>5, CheckOrSlideVsInWindow, CheckOrSlideClear
  <2> HIDE DEF tick, n
  <2>7. Adds(b, c, ix.side, tick)
    BY <2>1, <2>3, BookWindowed, InsertAdds
  <2> HIDE DEF c
  <2>8. Apart(c) /\ Bounds(c, ix.side, ix.opposing) /\ SameWindow(c, c)
    BY <2>1, <2>3, <2>5, <2>6, <2>7, AddsApart DEF SameWindow, Adds
  <2>9. SameWindow(c, d)
    BY <2>8, PartsSameWindow
  <2> HIDE DEF d
  <2>10. Apart(d) /\ Bounds(d, ix.side, ix.opposing)
    BY <2>1, <2>8, <2>9, SameTicks, ClearsTicks
  <2>11. i.op = "MassQuote" /\ i.side = ix.side /\ i.opposing = ix.opposing
    BY <2>1 DEF MassQuoteIx
  <2> HIDE DEF i
  <2> QED BY <1>2, <2>10, <2>11, ContinueCross DEF Riding
<1> QED BY <1>1, <1>2 DEF MassQuoteInsert

LEMMA MergeStepCross == ASSUME CrossInv, MergeStep PROVE Crossless'
<1>0. IInv /\ book \in Book /\ Clears(book, book) /\ Windowed(book) /\ Kept(book, book)
  BY BookClears, BookWindowed, KeptSelf, SeatsKeptIsKept DEF CrossInv
<1>1. CASE MergeRefuse
  BY <1>1, AbortCross DEF MergeRefuse
<1>2. CASE MergeCommit
  BY <1>0, <1>2, ClearsCommit DEF MergeCommit
<1>3. ASSUME NEW b, Clears(book, b), NEW i, Merging, i.op = ix.op, i.side = ix.side,
             i.opposing = ix.opposing, Continue(b, i)
      PROVE  Crossless'
  BY <1>0, <1>3, MergeType, ClearsContinue DEF Merging
<1>4. CASE MergeCancel
  <2> DEFINE i == [ix EXCEPT !.cur = book.pool[ix.cur].makerNext]
  <2>1. Merging /\ Continue(KillOrder(book, ix.cur), i)
    BY <1>4 DEF MergeCancel
  <2>2. i.op = ix.op /\ i.side = ix.side /\ i.opposing = ix.opposing /\ ix.cur \in Links
    BY <1>0, <2>1, MergeType DEF MassQuoteIx
  <2> HIDE DEF i
  <2> QED BY <1>0, <1>3, <2>1, <2>2, KillOrderClears
<1>5. CASE MergeKeep
  <2> DEFINE q == Quote(ix)
             i == [ix EXCEPT !.lastUsed = q.tick, !.lastTick = q.tick, !.qi = @ + 1,
                             !.prev = ix.cur, !.cur = book.pool[ix.cur].makerNext]
             c == ShrinkOrder(book, ix.seat, ix.cur, q.lots, ix.expiry)
  <2>1. Merging /\ Continue(c, i)
    BY <1>5 DEF MergeKeep
  <2>2. i.op = ix.op /\ i.side = ix.side /\ i.opposing = ix.opposing
    BY <1>0, <2>1, MergeType DEF MassQuoteIx
  <2>3. Clears(book, c)
    BY <1>0, ShrinkOrderSame, SameTicks
  <2> HIDE DEF i, c
  <2> QED BY <1>3, <2>1, <2>2, <2>3
<1>6. CASE MergeInsert
  BY <1>0, <1>6, MassQuoteInsertCross DEF MergeInsert
<1>7. CASE MergeRepost
  <2>1. Merging /\ HasQuote(ix) /\ Refundable(book, ix.cur) /\ ix.cur \in Links
    BY <1>0, <1>7, MergeType DEF MergeRepost
  <2>2. Kept(book, KillOrder(book, ix.cur)) /\ Clears(book, KillOrder(book, ix.cur))
    BY <1>0, <2>1, KillOrderKept, KillOrderClears
  <2> QED BY <1>7, <2>1, <2>2, MassQuoteInsertCross DEF MergeRepost
<1>8. CASE MergeAsks
  <2> DEFINE best == BestOf(book, "bid")
             i    == [ix EXCEPT !.side = "ask", !.qi = 0, !.lastTick = 0,
                                !.lastUsed = 0, !.opposing = best]
  <2>1. Continue(book, i) /\ Merging
    BY <1>8 DEF MergeAsks, MergeDone
  <2>2. Bounds(book, "ask", best)
    <3>1. WindowClear(book) /\ "ask" \in Sides /\ Opposite("ask") = "bid"
      BY <1>0, InvGood DEF Good, Header, Sides, Opposite
    <3> QED BY <1>0, <3>1, BestBounds
  <2> HIDE DEF best
  <2>3. i.op = "MassQuote" /\ i.side = "ask" /\ i.opposing = best
    BY <1>0, <2>1, MergeType DEF MassQuoteIx
  <2> HIDE DEF i
  <2> QED BY <2>1, <2>2, <2>3, ContinueCross DEF CrossInv, Crossless, Riding
<1> QED BY <1>1, <1>2, <1>4, <1>5, <1>6, <1>7, <1>8 DEF MergeStep

LEMMA BeginsTaking ==
  ASSUME CrossInv, NEW i, i.op = "Take", book' = book, committed' = committed, ix' = i
  PROVE  Crossless'
BY DEF CrossInv, Crossless, Riding, Apart, TicksOf, IsOccupied, LastTick

-----------------------------------------------------------------------------
(* Taking                                                                  *)

LEMMA TakerCross == ASSUME CrossInv, TakerNext PROVE Crossless'
<1>1. \A kind, s, side, limit, lots, quote, policy, expiry, minOut, delta :
        Take(kind, s, side, limit, lots, quote, policy, expiry, minOut, delta).op = "Take"
  BY DEF Take
<1>2. ASSUME NEW s \in SeatIds, NEW side \in Sides, NEW limit \in InTicks, NEW lots \in InLots,
             NEW policy \in Policies, NEW expiry \in InExpiries,
             BeginPlaceLimit(s, side, limit, lots, policy, expiry)
      PROVE  Crossless'
  BY <1>1, <1>2, BeginsTaking DEF BeginPlaceLimit, Continue
<1>3. ASSUME NEW s \in SeatIds, NEW side \in Sides, NEW limit \in InTicks, NEW lots \in TakeLots,
             NEW minOut \in MinOuts, NEW policy \in Policies,
             BeginPlaceTake(s, side, limit, lots, minOut, policy)
      PROVE  Crossless'
  BY <1>1, <1>3, BeginsTaking DEF BeginPlaceTake, Continue
<1>4. ASSUME NEW side \in Sides, NEW limit \in InTicks, NEW amount \in SwapAmounts,
             NEW minOut \in MinOuts, BeginSwap(side, limit, amount, minOut)
      PROVE  Crossless'
  BY <1>1, <1>4, BeginsTaking DEF BeginSwap, SwapWith
<1> QED BY <1>2, <1>3, <1>4 DEF TakerNext

\* A take's step from an order to the next only clears bits.
LEMMA TakeContinues ==
  ASSUME CrossInv, Taking, NEW b, Clears(book, b), NEW i, i.op = "Take", Continue(b, i)
  PROVE  Crossless'
BY ClearsContinue

LEMMA TakeFillCross == ASSUME CrossInv, TakeFill PROVE Crossless'
<1> DEFINE tick     == TakeLevel(book, ix)
           head     == TakeHead(book, ix)
           fill     == FillLots(book, ix)
           notional == Notional(tick, fill)
           side     == BookSide(ix)
           i        == [ix EXCEPT !.at = tick, !.lots = @ + fill, !.quote = @ + notional,
                                  !.fee = @ + FeeOn(book, notional)]
<1>1. Taking /\ AtOrder(ix) /\ Continue(FillOrder(book, side, tick, head, fill), i)
  BY DEF TakeFill
<1>2. side \in Sides /\ i.op = "Take"
  BY <1>1, TakeHeadType, TakeType DEF CrossInv, TakeIx
<1> HIDE DEF side, tick, head, fill, i
<1>3. Clears(book, FillOrder(book, side, tick, head, fill))
  BY <1>2, BookClears, FillOrderClears
<1> QED BY <1>1, <1>2, <1>3, TakeContinues

LEMMA TakeEndsCross ==
  ASSUME CrossInv, Taking, AtOrder(ix),
         Continue(KillOrder(book, TakeHead(book, ix)),
                  [ix EXCEPT !.at = TakeLevel(book, ix)])
  PROVE  Crossless'
<1> DEFINE i == [ix EXCEPT !.at = TakeLevel(book, ix)]
<1>1. i.op = "Take" /\ TakeHead(book, ix) \in Links
  BY TakeHeadType, TakeType DEF CrossInv, TakeIx
<1> HIDE DEF i
<1>2. Clears(book, KillOrder(book, TakeHead(book, ix)))
  BY <1>1, BookClears, KillOrderClears
<1> QED BY <1>1, <1>2, TakeContinues DEF i

\* Charging and paying the taker does not touch the bits.
LEMMA SettledSameWindow ==
  ASSUME CrossInv, Taking
  PROVE  LET acc == Accrued(book, ix)
         IN SameWindow(book, acc) /\ SameWindow(book, SettleTaker(acc, ix))
<1>1. SameWindow(book, Accrued(book, ix))
  BY BookClears DEF Accrued, SameWindow, Windowed
<1>2. \A s, w, x, y, z : SameWindow(book, AddFree(AddFree(Accrued(book, ix), s, w, x), s, y, z))
  BY <1>1, PartsSameWindow
<1> QED BY <1>1, <1>2 DEF SettleTaker

LEMMA EndPlaceLimitCross == ASSUME CrossInv, EndPlaceLimit PROVE Crossless'
<1> DEFINE acc  == Accrued(book, ix)
           paid == SettleTaker(acc, ix)
           rest == Remaining(ix)
           done == Upsert(paid, ix.seat, ix.side, ix.limit, rest, ix.expiry, FALSE)
<1>0. IInv
  BY DEF CrossInv
<1>1. Taking /\ ix.kind # "Swap" /\ Good(acc) /\ SameWindow(book, paid)
  BY <1>0, AccruedGood, SettledSameWindow DEF EndPlaceLimit, TakeOver
<1>2. CASE Abort
  BY <1>2, AbortCross
<1>3. CASE Commit(paid, vault)
  <2> HIDE DEF paid
  <2> QED BY <1>1, <1>3, SameTicks, ClearsCommit
<1>4. CASE /\ SeatPays(acc, ix) /\ Commit(done, vault)
           /\ CanUpsert(paid, ix.seat, ix.side, ix.limit, rest, FALSE)
  <2>1. paid \in Book /\ WindowClear(paid)
    BY <1>0, <1>1, <1>4, SettleTakerGood DEF Good, Header
  <2> HIDE DEF paid, rest
  <2>2. Apart(paid)
    BY <1>1, SameTicks, ClearsTicks DEF CrossInv, Crossless
  <2>3. ix.seat \in SeatIds /\ ix.side \in Sides /\ ix.limit \in Nat /\ FALSE \in BOOLEAN
    BY <1>0, <1>1, TakeType
  <2>4. Apart(done) /\ Windowed(done)
    BY <1>4, <2>1, <2>2, <2>3, UpsertApart
  <2> HIDE DEF done
  <2> QED BY <1>4, <2>4, CommitCross
<1> QED BY <1>2, <1>3, <1>4 DEF EndPlaceLimit

LEMMA TakeStepCross == ASSUME CrossInv, TakeStep PROVE Crossless'
<1>1. ASSUME NEW b, SameWindow(book, b), NEW v, Commit(b, v) PROVE Crossless'
  BY <1>1, SameTicks, ClearsCommit
<1>2. CASE TakeExpired
  BY <1>2, TakeEndsCross DEF TakeExpired
<1>3. CASE TakeOwn
  BY <1>3, TakeEndsCross, AbortCross DEF TakeOwn
<1>4. CASE EndPlaceTake
  BY <1>1, <1>4, SettledSameWindow, AbortCross DEF EndPlaceTake, TakeOver
<1>5. CASE EndSwap
  BY <1>1, <1>5, SettledSameWindow, AbortCross DEF EndSwap, TakeOver
<1> QED BY <1>2, <1>3, <1>4, <1>5, TakeFillCross, EndPlaceLimitCross DEF TakeStep

-----------------------------------------------------------------------------
(* Reanchor                                                                *)

LEMMA BeginReanchorCross ==
  ASSUME CrossInv, NEW target \in Targets, NEW max \in MaxLevels, BeginReanchor(target, max)
  PROVE  Crossless'
<1> DEFINE i == [op |-> "Reanchor", ideal |-> Ideal(target), max |-> max,
                 evicted |-> 0, cur |-> book.anchor, inWord |-> FALSE]
<1>1. Continue(book, i) /\ i.op = "Reanchor" /\ i.cur = book.anchor
  BY DEF BeginReanchor
<1> HIDE DEF i
<1>2. Emptied(book, book.anchor)
  BY DEF Emptied, TicksOf, LastTick
<1> QED BY <1>1, <1>2, ContinueCross DEF CrossInv, Crossless, Riding

\* A step that leaves the window's start where it is.
LEMMA ReanchorContinues ==
  ASSUME CrossInv, Reanchoring, NEW b, Clears(book, b), NEW i,
         i.op = "Reanchor", i.cur = ix.cur, Continue(b, i)
  PROVE  Crossless'
BY ClearsContinue DEF Reanchoring

LEMMA EvictOrderCross == ASSUME CrossInv, EvictOrder PROVE Crossless'
<1> DEFINE T    == WordOccupied
           head == HeadAt(book, Lowest(T))
           i    == [ix EXCEPT !.evicted = @ + 1]
<1>0. IInv
  BY DEF CrossInv
<1>1. Reanchoring /\ T # {} /\ Continue(KillOrder(book, head), i)
  BY DEF EvictOrder
<1>2. head \in Links
  <2>1. WordBase \in Nat
    BY <1>0, <1>1, ReanchorType, BookAssumption DEF WordBase
  <2>2. T \subseteq Nat
    BY <2>1, BookAssumption DEF WordOccupied
  <2> HIDE DEF T
  <2>3. Lowest(T) \in Nat
    BY <1>1, <2>2, LowestOf
  <2>4. Slot(Lowest(T)) \in Ring
    BY <2>3, SlotInRing
  <2> QED BY <1>0, <2>4, InvGood, LevelType DEF HeadAt, Good
<1>3. i.op = "Reanchor" /\ i.cur = ix.cur
  BY <1>0, <1>1, ReanchorType DEF ReanchorIx, Reanchoring
<1> HIDE DEF head, i
<1>4. Clears(book, KillOrder(book, head))
  BY <1>2, BookClears, KillOrderClears
<1> QED BY <1>1, <1>3, <1>4, ReanchorContinues

\* A word is left only when nothing rests in it, so the part of the window
\* that has been passed is empty.
LEMMA LeaveWordCross == ASSUME CrossInv, LeaveWord PROVE Crossless'
<1> DEFINE to == IF MovesUp THEN ix.cur + WordTicks ELSE ix.cur - WordTicks
           i  == [ix EXCEPT !.inWord = FALSE, !.cur = to]
<1>0. IInv
  BY DEF CrossInv
<1>1. Continue(book, i) /\ Reanchoring /\ WordOccupied = {}
  BY DEF LeaveWord
<1>2. /\ ix.cur \in Nat /\ WordTicks \in Nat \ {0} /\ WindowTicks \in Nat \ {0}
      /\ IF MovesUp THEN book.anchor <= ix.cur ELSE ix.cur <= book.anchor
      /\ book.anchor \in Nat
  BY <1>0, <1>1, ReanchorType, BookAssumption DEF IInv, Progressing, Reanchoring, MovesUp
<1>3. Emptied(book, to)
  <2> SUFFICES ASSUME NEW side \in Sides, NEW t \in TicksOf(book, side)
               PROVE  t \in to .. to + WindowTicks - 1
    BY DEF Emptied
  <2>1. /\ t \in ix.cur .. ix.cur + WindowTicks - 1
        /\ t \in book.anchor .. book.anchor + WindowTicks - 1
        /\ IsOccupied(book, side, t)
    BY <1>1 DEF CrossInv, Crossless, Riding, Emptied, Reanchoring, TicksOf, LastTick
  <2>2. t \notin WordBase .. WordBase + WordTicks - 1
    BY <1>1, <2>1 DEF WordOccupied
  <2>3. WordBase = IF MovesUp THEN ix.cur ELSE ix.cur + WindowTicks - WordTicks
    BY DEF WordBase
  <2> QED BY <1>2, <2>1, <2>2, <2>3
<1>4. i.op = "Reanchor" /\ i.cur = to
  BY <1>0, <1>1, ReanchorType DEF ReanchorIx, Reanchoring
<1> HIDE DEF to, i
<1> QED BY <1>1, <1>3, <1>4, ContinueCross DEF CrossInv, Crossless, Riding

\* What the new window reuses of the ring is empty: nothing appears in it that
\* was not in the old one.
LEMMA ReanchorCommitCross == ASSUME CrossInv, ReanchorCommit PROVE Crossless'
<1> DEFINE c == [book EXCEPT !.anchor = ix.cur]
<1>0. IInv
  BY DEF CrossInv
<1>1. Commit(c, vault) /\ Reanchoring
  BY DEF ReanchorCommit
<1>2. ix.cur \in Nat /\ book.anchor \in Nat
  BY <1>0, <1>1, ReanchorType
<1>3. c.anchor = ix.cur /\ c.bits = book.bits /\ Windowed(c)
  BY BookClears DEF SameWindow, Windowed
<1> HIDE DEF c
<1>4. ASSUME NEW side \in Sides, NEW t \in TicksOf(c, side) PROVE t \in TicksOf(book, side)
  <2>1. t \in ix.cur .. ix.cur + WindowTicks - 1 /\ Slot(t) \in book.bits[side] /\ t \in Nat
    BY <1>2, <1>3 DEF TicksOf, IsOccupied, LastTick
  <2>2. PICK u \in book.anchor .. book.anchor + WindowTicks - 1 : Slot(u) = Slot(t)
    BY <1>2, <2>1, SlotMate
  <2>3. u \in TicksOf(book, side)
    BY <2>1, <2>2 DEF TicksOf, IsOccupied, LastTick
  <2>4. u \in ix.cur .. ix.cur + WindowTicks - 1
    BY <1>1, <2>3 DEF CrossInv, Crossless, Riding, Emptied, Reanchoring
  <2>5. u = t
    BY <1>2, <2>1, <2>2, <2>4, SlotApart
  <2> QED BY <2>3, <2>5
<1>5. Apart(c)
  BY <1>4 DEF CrossInv, Crossless, Apart, Sides
<1> QED BY <1>1, <1>3, <1>5, CommitCross

-----------------------------------------------------------------------------
(* The program                                                             *)

LEMMA ReapContinuesCross ==
  ASSUME CrossInv, NEW b, Clears(book, b), NEW i, i.op = "ReapExpired", Continue(b, i)
  PROVE  Crossless'
BY ClearsContinue

LEMMA HygieneCross == ASSUME CrossInv, HygieneNext PROVE Crossless'
<1>1. ASSUME NEW side \in Sides, NEW start \in ReapStarts, NEW max \in ReapCounts,
             BeginReap(side, start, max)
      PROVE  Crossless'
  <2> DEFINE i == [op |-> "ReapExpired", side |-> side, start |-> start,
                   max |-> max, tick |-> Clamp(start), reaped |-> 0, cur |-> NIL]
  <2>1. Continue(book, i) /\ i.op = "ReapExpired"
    BY <1>1 DEF BeginReap
  <2> HIDE DEF i
  <2> QED BY <2>1, BookClears, ReapContinuesCross
<1> QED BY <1>1, BeginReanchorCross DEF HygieneNext

LEMMA ReapKillCross == ASSUME CrossInv, ReapKill PROVE Crossless'
<1> DEFINE c == KillOrder(book, ix.cur)
           i == [ix EXCEPT !.reaped = @ + 1, !.cur = book.pool[@].next]
<1>1. Reaping /\ (Commit(c, vault) \/ Continue(c, i))
  BY DEF ReapKill
<1>2. ix \in ReapIx /\ ix.cur \in Links
  BY <1>1, ReapType DEF CrossInv
<1>3. Clears(book, c)
  BY <1>2, BookClears, KillOrderClears
<1>4. i.op = "ReapExpired"
  BY <1>2 DEF ReapIx
<1> HIDE DEF c, i
<1> QED BY <1>1, <1>3, <1>4, ClearsCommit, ReapContinuesCross

LEMMA HygieneStepCross == ASSUME CrossInv, HygieneStep PROVE Crossless'
<1>1. CASE EnterWord
  <2> DEFINE i == [ix EXCEPT !.inWord = TRUE]
  <2>1. Continue(book, i) /\ Reanchoring
    BY <1>1 DEF EnterWord
  <2>2. i.op = "Reanchor" /\ i.cur = ix.cur
    BY <2>1, ReanchorType DEF CrossInv, ReanchorIx, Reanchoring
  <2> HIDE DEF i
  <2> QED BY <2>1, <2>2, BookClears, ReanchorContinues
<1>2. CASE ReapEnter
  <2> DEFINE t == Lowest(ReapLevels)
             i == [ix EXCEPT !.tick = t + 1, !.cur = HeadAt(book, t)]
  <2>1. Continue(book, i) /\ Reaping
    BY <1>2 DEF ReapEnter
  <2>2. i.op = "ReapExpired"
    BY <2>1, ReapType DEF CrossInv, ReapIx
  <2> HIDE DEF i
  <2> QED BY <2>1, <2>2, BookClears, ReapContinuesCross
<1>3. CASE ReapSkip
  <2> DEFINE i == [ix EXCEPT !.cur = book.pool[@].next]
  <2>1. Continue(book, i) /\ Reaping
    BY <1>3 DEF ReapSkip
  <2>2. i.op = "ReapExpired"
    BY <2>1, ReapType DEF CrossInv, ReapIx
  <2> HIDE DEF i
  <2> QED BY <2>1, <2>2, BookClears, ReapContinuesCross
<1>4. CASE ReapCommit
  BY <1>4, BookClears, ClearsCommit DEF ReapCommit
<1> QED BY <1>1, <1>2, <1>3, <1>4, EvictOrderCross, LeaveWordCross, ReanchorCommitCross,
           ReapKillCross DEF HygieneStep

LEMMA RestsCross == ASSUME CrossInv, UNCHANGED <<book, ix, committed>> PROVE Crossless'
BY DEF CrossInv, Crossless, Riding, Apart, Bounds, Emptied, TicksOf, IsOccupied, LastTick

LEMMA CrossNext == ASSUME CrossInv, [Next]_vars PROVE CrossInv'
<1>1. IInv'
  BY NextInv DEF CrossInv
<1>2. Crossless'
  <2>0. CASE NextSlot \/ Refused \/ UNCHANGED vars
    <3>1. book' = book /\ ix' = ix /\ committed' = committed
      BY <2>0 DEF NextSlot, Refused, vars
    <3> QED BY <3>1, RestsCross
  <2>1. CASE Step
    BY <2>1, MergeStepCross, TakeStepCross, HygieneStepCross DEF Step
  <2>2. CASE CustodyNext \/ MakerNext \/ TakerNext \/ HygieneNext
    BY <2>2, CustodyCross, MakerCross, TakerCross, HygieneCross
  <2> QED BY <2>0, <2>1, <2>2 DEF Next
<1> QED BY <1>1, <1>2 DEF CrossInv

LEMMA CrossInit == Init => CrossInv
<1> SUFFICES ASSUME Init PROVE CrossInv
  OBVIOUS
<1>1. PICK rate : book = StartBook(rate) /\ committed.book = book /\ ix = Idle
  BY DEF Init
<1>2. StartBook(rate).bits["bid"] = {}
  BY DEF StartBook, Sides
<1>3. TicksOf(book, "bid") = {} /\ TicksOf(committed.book, "bid") = {}
  BY <1>1, <1>2 DEF TicksOf, IsOccupied
<1>4. Riding(book, ix)
  BY <1>1 DEF Riding, Idle
<1> QED BY <1>3, <1>4, InitInv DEF CrossInv, Crossless, Apart

\* No bid ever rests at or above an ask, whatever the stream of quotes, merges,
\* takes and moves of the window: check_or_slide_vs against the best price, the
\* price a merge read before it began, and reanchor_step's emptied words.
THEOREM NeverCrossed == Spec => []Uncrossed
<1>1. CrossInv => Uncrossed
  BY DEF CrossInv, Crossless, Apart, Uncrossed
<1>2. Spec => []CrossInv
  BY CrossInit, CrossNext, PTL DEF Spec
<1> QED BY <1>1, <1>2, PTL
=============================================================================
