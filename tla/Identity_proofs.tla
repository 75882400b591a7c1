---------------------------- MODULE Identity_proofs ----------------------------
(***************************************************************************)
(* Orders keep their identity, for every market and every instruction      *)
(* stream in which the id counter does not wrap.  The argument follows the *)
(* nodes, whatever the links between them: every operation leaves a node   *)
(* freed, or under the id, maker, side and tick it had and no larger, or   *)
(* under an id the counter has just issued.                                *)
(***************************************************************************)
EXTENDS Clob_proofs

\* What of a book the argument reads.
Shaped(b) ==
  /\ "orderSeq" \in DOMAIN b /\ b.orderSeq \in Nat
  /\ "pool" \in DOMAIN b /\ DOMAIN b.pool = Links
  /\ \A k \in Nodes : /\ {"seq", "maker", "side", "tick", "lots"} \subseteq DOMAIN b.pool[k]
                      /\ b.pool[k].seq \in Nat /\ b.pool[k].lots \in Int

\* Node k holds in c the order it holds in b, no larger.
Traced(b, c, k) ==
  /\ c.pool[k].seq = b.pool[k].seq /\ c.pool[k].maker = b.pool[k].maker
  /\ c.pool[k].side = b.pool[k].side /\ c.pool[k].tick = b.pool[k].tick
  /\ c.pool[k].lots <= b.pool[k].lots

\* Node k holds in c an order posted since b.
Fresh(b, c, k) == b.orderSeq <= c.pool[k].seq /\ c.pool[k].seq < c.orderSeq

\* c's orders are b's, some ended or taken down, and ones posted since.
Descends(b, c) ==
  /\ Shaped(c) /\ b.orderSeq <= c.orderSeq
  /\ \A k \in Nodes : c.pool[k].seq = FreedSeq \/ Traced(b, c, k) \/ Fresh(b, c, k)

\* And none was posted.
Ends(b, c) == Descends(b, c) /\ c.orderSeq = b.orderSeq

\* c has b's orders and counter.
Same(b, c) ==
  /\ Shaped(c) /\ c.orderSeq = b.orderSeq
  /\ \A k \in Nodes :
       /\ c.pool[k].seq = b.pool[k].seq /\ c.pool[k].maker = b.pool[k].maker
       /\ c.pool[k].side = b.pool[k].side /\ c.pool[k].tick = b.pool[k].tick
       /\ c.pool[k].lots = b.pool[k].lots

-----------------------------------------------------------------------------
(* Relations between books                                                 *)

LEMMA BookShaped == ASSUME NEW b \in Book PROVE Shaped(b)
<1>1. b.orderSeq \in Nat /\ b.pool \in [Links -> OrderNode] /\ "orderSeq" \in DOMAIN b
      /\ "pool" \in DOMAIN b
  BY BookAssumption DEF Book
<1>2. ASSUME NEW k \in Nodes
      PROVE  /\ {"seq", "maker", "side", "tick", "lots"} \subseteq DOMAIN b.pool[k]
             /\ b.pool[k].seq \in Nat /\ b.pool[k].lots \in Int
  <2>1. b.pool[k] \in OrderNode
    BY <1>1, BookAssumption DEF Nodes, Links
  <2> HIDE DEF Book
  <2> QED BY <2>1, BookAssumption DEF OrderNode
<1> QED BY <1>1, <1>2 DEF Shaped

LEMMA SameShaped == ASSUME NEW b, NEW c, Same(b, c) PROVE Shaped(c)
BY DEF Same

LEMMA EndsShaped ==
  ASSUME NEW b, NEW c, Descends(b, c)
  PROVE  Shaped(c)
BY DEF Descends

LEMMA SameEnds == ASSUME NEW b, Shaped(b), NEW c, Same(b, c) PROVE Ends(b, c)
<1>1. ASSUME NEW k \in Nodes PROVE Traced(b, c, k)
  BY DEF Same, Shaped, Traced
<1> QED BY <1>1 DEF Same, Shaped, Ends, Descends

LEMMA SelfSame == ASSUME NEW b, Shaped(b) PROVE Same(b, b) /\ Ends(b, b) /\ Descends(b, b)
<1>1. Same(b, b)
  BY DEF Same
<1> QED BY <1>1, SameEnds DEF Ends

LEMMA DescendsTrans ==
  ASSUME NEW a, Shaped(a), NEW b, NEW c, Descends(a, b), Descends(b, c)
  PROVE  Descends(a, c)
<1>1. a.orderSeq \in Nat /\ b.orderSeq \in Nat /\ c.orderSeq \in Nat
  BY DEF Descends, Shaped
<1>2. ASSUME NEW k \in Nodes, c.pool[k].seq # FreedSeq
      PROVE  Traced(a, c, k) \/ Fresh(a, c, k)
  <2>1. /\ c.pool[k].seq \in Nat /\ b.pool[k].seq \in Nat
        /\ a.pool[k].lots \in Int /\ b.pool[k].lots \in Int /\ c.pool[k].lots \in Int
    BY DEF Descends, Shaped
  <2>2. CASE Fresh(b, c, k)
    BY <1>1, <2>1, <2>2 DEF Fresh, Descends
  <2>3. CASE Traced(b, c, k)
    <3>1. Traced(a, b, k) \/ Fresh(a, b, k)
      BY <1>2, <2>3 DEF Traced, Descends
    <3> QED BY <1>1, <2>1, <2>3, <3>1 DEF Traced, Fresh, Descends
  <2> QED BY <1>2, <2>2, <2>3 DEF Descends
<1> QED BY <1>1, <1>2 DEF Descends

LEMMA EndsTrans ==
  ASSUME NEW a, Shaped(a), NEW b, NEW c, Ends(a, b), Ends(b, c)
  PROVE  Ends(a, c)
BY DescendsTrans DEF Ends

-----------------------------------------------------------------------------
(* Which operations touch what an order is                                 *)

\* Every setter but those of an order's size, place, maker and id, and of the
\* counter.
LEMMA SettersSame ==
  ASSUME NEW a, NEW b, Same(a, b), NEW x, NEW y, NEW z
  PROVE  /\ Same(a, SetOwner(b, x, y)) /\ Same(a, SetOrdersHead(b, x, y))
         /\ Same(a, SetOrderCount(b, x, y))
         /\ Same(a, SetFree(b, x, y, z)) /\ Same(a, SetLocked(b, x, y, z))
         /\ Same(a, SetPrev(b, x, y)) /\ Same(a, SetNext(b, x, y))
         /\ Same(a, SetMakerPrev(b, x, y)) /\ Same(a, SetMakerNext(b, x, y))
         /\ Same(a, SetExpiry(b, x, y))
         /\ Same(a, SetHead(b, x, y)) /\ Same(a, SetTail(b, x, y))
         /\ Same(a, AddLots(b, x, y)) /\ Same(a, ZeroLevel(b, x))
         /\ Same(a, SetBit(b, x, y)) /\ Same(a, ClearBit(b, x, y))
         /\ Same(a, SetFreeHead(b, x)) /\ Same(a, SetFreeCount(b, x))
         /\ Same(a, BumpSeq(b))
<1>1. ASSUME NEW c, DOMAIN c = DOMAIN b, c.orderSeq = b.orderSeq, c.pool = b.pool
      PROVE  Same(a, c)
  BY <1>1 DEF Same, Shaped
<1>2. "orderSeq" \in DOMAIN b /\ "pool" \in DOMAIN b
  BY DEF Same, Shaped
<1>3. /\ Same(a, SetOwner(b, x, y)) /\ Same(a, SetOrdersHead(b, x, y))
      /\ Same(a, SetOrderCount(b, x, y))
  BY <1>1, <1>2 DEF SetOwner, SetOrdersHead, SetOrderCount
<1>4. Same(a, SetFree(b, x, y, z)) /\ Same(a, SetLocked(b, x, y, z))
  BY <1>1, <1>2 DEF SetFree, SetLocked
<1>5. /\ Same(a, SetHead(b, x, y)) /\ Same(a, SetTail(b, x, y))
      /\ Same(a, AddLots(b, x, y)) /\ Same(a, ZeroLevel(b, x))
  BY <1>1, <1>2 DEF SetHead, SetTail, AddLots, ZeroLevel
<1>6. /\ Same(a, SetBit(b, x, y)) /\ Same(a, ClearBit(b, x, y))
      /\ Same(a, SetFreeHead(b, x)) /\ Same(a, SetFreeCount(b, x)) /\ Same(a, BumpSeq(b))
  BY <1>1, <1>2 DEF SetBit, ClearBit, SetFreeHead, SetFreeCount, BumpSeq
<1>7. Nodes \subseteq Links
  BY DEF Nodes, Links
<1>8. Same(a, SetPrev(b, x, y)) /\ Same(a, SetNext(b, x, y))
  BY <1>7 DEF Same, Shaped, SetPrev, SetNext
<1>9. Same(a, SetMakerPrev(b, x, y)) /\ Same(a, SetMakerNext(b, x, y))
  BY <1>7 DEF Same, Shaped, SetMakerPrev, SetMakerNext
<1>10. Same(a, SetExpiry(b, x, y))
  BY <1>7 DEF Same, Shaped, SetExpiry
<1> QED BY <1>3, <1>4, <1>5, <1>6, <1>8, <1>9, <1>10

\* Balances, links and chains.
LEMMA PartsSame ==
  ASSUME NEW a, NEW b, Same(a, b), NEW s, NEW x, NEW y, NEW z, NEW n
  PROVE  /\ Same(a, Lock(b, s, x, y)) /\ Same(a, Unlock(b, s, x, y))
         /\ Same(a, AddFree(b, s, x, y)) /\ Same(a, AllocNode(b))
         /\ Same(a, FifoBypass(b, n)) /\ Same(a, FifoUnlink(b, x, n))
         /\ Same(a, FifoAppend(b, s, x, n, y)) /\ Same(a, ChainBypass(b, n))
         /\ Same(a, ChainSplice(b, s, x, y, n)) /\ Same(a, ChainInsertSorted(b, s, n))
         /\ Same(a, SettleMaker(b, x, y, n, z))
<1>1. /\ Same(a, Lock(b, s, x, y)) /\ Same(a, Unlock(b, s, x, y))
      /\ Same(a, AddFree(b, s, x, y)) /\ Same(a, AllocNode(b))
  BY SettersSame DEF Lock, Unlock, AddFree, AllocNode
<1>2. Same(a, FifoBypass(b, n))
  BY SettersSame DEF FifoBypass
<1>3. Same(a, FifoUnlink(b, x, n))
  BY <1>2, SettersSame DEF FifoUnlink
<1>4. Same(a, FifoAppend(b, s, x, n, y))
  <2> DEFINE longer == AddLots(SetTail(b, Slot(x), n), Slot(x), y)
  <2>1. Same(a, longer)
    BY SettersSame
  <2> HIDE DEF longer
  <2>2. \A m, l : /\ Same(a, SetNext(SetPrev(SetNext(longer, m, n), n, m), n, NIL))
                  /\ Same(a, SetBit(SetNext(SetPrev(SetHead(longer, l, n), n, NIL), n, NIL), s, l))
    BY <2>1, SettersSame
  <2> QED BY <2>2 DEF FifoAppend, longer
<1>5. Same(a, ChainBypass(b, n))
  BY SettersSame DEF ChainBypass
<1>6. \A p, q : Same(a, ChainSplice(b, s, p, q, n))
  BY SettersSame DEF ChainSplice
<1>7. Same(a, ChainInsertSorted(b, s, n))
  <2> DEFINE Key(m, k) == ChainBefore(b.pool[m].side, b.pool[m].tick,
                                      b.pool[k].side, b.pool[k].tick)
             others == LiveOf(b, s) \ {n}
             below  == {m \in others : Key(m, n)}
             above  == others \ below
             prev   == IF below = {} THEN NIL
                       ELSE CHOOSE m \in below : \A k \in below : ~Key(m, k)
             next   == IF above = {} THEN NIL
                       ELSE CHOOSE m \in above : \A k \in above : ~Key(k, m)
  <2>1. ChainInsertSorted(b, s, n) = ChainSplice(b, s, prev, next, n)
    BY DEF ChainInsertSorted
  <2> HIDE DEF prev, next
  <2> QED BY <1>6, <2>1
<1>8. Same(a, SettleMaker(b, x, y, n, z))
  BY SettersSame DEF SettleMaker
<1> QED BY <1>1, <1>2, <1>3, <1>4, <1>5, <1>6, <1>7, <1>8

\* A freed node is no order; an order sized down is the same order.
LEMMA NodeEnds ==
  ASSUME NEW b, Shaped(b), NEW n
  PROVE  /\ Ends(b, FreeNode(b, n))
         /\ \A lots \in Int : (n \in Nodes => lots <= b.pool[n].lots) => Ends(b, SetLots(b, n, lots))
<1>1. Nodes \subseteq Links /\ FreedSeq \in Nat
  BY BookAssumption DEF Nodes, Links
<1>2. ASSUME NEW c, Shaped(c)
      PROVE  LET d == SetLots(SetSeq(c, n, FreedSeq), n, 0) IN Ends(c, d)
  <2> DEFINE d == SetLots(SetSeq(c, n, FreedSeq), n, 0)
  <2>1. Shaped(d) /\ d.orderSeq = c.orderSeq
    BY <1>1, <1>2 DEF Shaped, SetLots, SetSeq
  <2>2. ASSUME NEW k \in Nodes PROVE d.pool[k].seq = FreedSeq \/ Traced(c, d, k)
    <3>1. CASE k = n
      BY <1>1, <1>2, <3>1 DEF Shaped, SetLots, SetSeq
    <3>2. CASE k # n
      <4>1. d.pool[k] = c.pool[k]
        BY <1>1, <1>2, <3>2 DEF Shaped, SetLots, SetSeq
      <4> QED BY <1>2, <4>1 DEF Traced, Shaped
    <3> QED BY <3>1, <3>2
  <2> HIDE DEF d
  <2>3. Ends(c, d)
    BY <1>2, <2>1, <2>2 DEF Ends, Descends, Shaped
  <2> QED BY <2>3 DEF d
<1>3. Ends(b, FreeNode(b, n))
  <2> DEFINE c == SetNext(b, n, b.freeHead)
             d == SetLots(SetSeq(c, n, FreedSeq), n, 0)
             e == SetFreeCount(SetFreeHead(d, n), b.freeCount + 1)
  <2>1. Same(b, c) /\ Shaped(c) /\ Ends(b, c)
    BY SelfSame, SettersSame, SameEnds, SameShaped
  <2> HIDE DEF c
  <2>2. Ends(c, d) /\ Shaped(d)
    BY <1>2, <2>1 DEF Ends, Descends
  <2> HIDE DEF d
  <2>3. Ends(d, e)
    BY <2>2, SelfSame, SettersSame, SameEnds
  <2> HIDE DEF e
  <2>4. FreeNode(b, n) = e
    BY DEF FreeNode, c, d, e
  <2> QED BY <2>1, <2>2, <2>3, <2>4, EndsTrans
<1>4. ASSUME NEW lots \in Int, n \in Nodes => lots <= b.pool[n].lots
      PROVE  Ends(b, SetLots(b, n, lots))
  <2> DEFINE d == SetLots(b, n, lots)
  <2>1. Shaped(d) /\ d.orderSeq = b.orderSeq
    BY <1>1, <1>4 DEF Shaped, SetLots
  <2>2. ASSUME NEW k \in Nodes PROVE Traced(b, d, k)
    BY <1>1, <1>4, <2>2 DEF Shaped, SetLots, Traced
  <2> HIDE DEF d
  <2>3. Ends(b, d)
    BY <2>1, <2>2 DEF Ends, Descends, Shaped
  <2> QED BY <2>3 DEF d
<1> QED BY <1>3, <1>4

LEMMA ChainUnlinkEnds ==
  ASSUME NEW b, Shaped(b), NEW n
  PROVE  Ends(b, ChainUnlink(b, n))
<1> DEFINE c == SetOrderCount(ChainBypass(b, n), b.pool[n].maker,
                              (b.seats[b.pool[n].maker].count + U16Max) % (U16Max + 1))
<1>1. Same(b, c) /\ Shaped(c)
  BY SelfSame, PartsSame, SettersSame, SameShaped
<1>2. ChainUnlink(b, n) = FreeNode(c, n)
  BY DEF ChainUnlink
<1> HIDE DEF c
<1> QED BY <1>1, <1>2, SameEnds, NodeEnds, EndsTrans

LEMMA KillOrderEnds ==
  ASSUME NEW b, Shaped(b), NEW n
  PROVE  Ends(b, KillOrder(b, n))
<1> DEFINE nd == b.pool[n]
           c  == Unlock(FifoUnlink(b, nd.side, n), nd.maker, LockedAsset(nd.side),
                        LockedAtoms(nd.side, nd.tick, nd.lots))
<1>1. Same(b, c) /\ Shaped(c)
  BY SelfSame, PartsSame, SameShaped
<1>2. KillOrder(b, n) = ChainUnlink(c, n)
  BY DEF KillOrder
<1> HIDE DEF c
<1> QED BY <1>1, <1>2, SameEnds, ChainUnlinkEnds, EndsTrans

LEMMA ShrinkOrderEnds ==
  ASSUME NEW b, Shaped(b), NEW s, NEW n \in Links, NEW lots \in Int, lots <= b.pool[n].lots,
         NEW expiry
  PROVE  Ends(b, ShrinkOrder(b, s, n, lots, expiry))
<1> DEFINE nd == b.pool[n]
           c  == Unlock(b, s, LockedAsset(nd.side),
                        LockedAtoms(nd.side, nd.tick, nd.lots - lots))
           d  == SetLots(c, n, lots)
           e  == AddLots(SetExpiry(d, n, expiry), Slot(nd.tick), lots - nd.lots)
<1>1. Same(b, c) /\ Shaped(c)
  BY SelfSame, PartsSame, SameShaped
<1> HIDE DEF c
<1>2. Ends(c, d) /\ Shaped(d)
  BY <1>1, NodeEnds DEF Same, Ends, Descends
<1> HIDE DEF d
<1>3. Ends(d, e)
  BY <1>2, SelfSame, SettersSame, SameEnds
<1> HIDE DEF e
<1>4. ShrinkOrder(b, s, n, lots, expiry) = e
  BY DEF ShrinkOrder, c, d, e
<1> QED BY <1>1, <1>2, <1>3, <1>4, SameEnds, EndsTrans

LEMMA FillOrderEnds ==
  ASSUME NEW b, Shaped(b), NEW side, NEW tick, NEW n \in Links, NEW lots \in Nat,
         b.pool[n].lots \in Int
  PROVE  Ends(b, FillOrder(b, side, tick, n, lots))
<1> DEFINE settled == SettleMaker(b, side, tick, n, lots)
           gone    == FifoUnlink(settled, side, n)
           left    == b.pool[n].lots - lots
           less    == SetLots(settled, n, left)
           done    == AddLots(less, Slot(tick), -lots)
<1>1. Same(b, settled) /\ Shaped(settled) /\ Ends(b, settled)
  BY SelfSame, PartsSame, SameEnds, SameShaped
<1>2. left \in Int /\ left <= b.pool[n].lots
  OBVIOUS
<1> HIDE DEF settled, left
<1>3. Ends(settled, ChainUnlink(gone, n))
  <2>1. Same(settled, gone) /\ Shaped(gone)
    BY <1>1, SelfSame, PartsSame, SameShaped
  <2> QED BY <1>1, <2>1, SameEnds, ChainUnlinkEnds, EndsTrans
<1>4. Ends(settled, less) /\ Shaped(less)
  BY <1>1, <1>2, NodeEnds DEF Same, Ends, Descends
<1> HIDE DEF gone, less
<1>5. Ends(less, done)
  BY <1>4, SelfSame, SettersSame, SameEnds
<1> HIDE DEF done
<1>6. FillOrder(b, side, tick, n, lots) \in {ChainUnlink(gone, n), done}
  BY DEF FillOrder, settled, gone, left, less, done
<1> QED BY <1>1, <1>3, <1>4, <1>5, <1>6, EndsTrans

\* A new order takes the counter's id; it may not wrap.
LEMMA InsertDescends ==
  ASSUME NEW b, Shaped(b), b.orderSeq < FreedSeq, NEW side, NEW tick, NEW lots \in Int,
         NEW s, NEW expiry
  PROVE  LET c == LockAndInsert(b, s, side, tick, lots, expiry)
         IN Descends(b, c) /\ c.orderSeq = b.orderSeq + 1
<1> DEFINE k0 == Lock(b, s, LockedAsset(side), LockedAtoms(side, tick, lots))
           n  == k0.freeHead
           id == NextOrderId(k0)
           k1 == AllocNode(k0)
           k2 == SetOrderSeq(k1, id + 1)
           k3 == SetLots(SetSide(SetMaker(SetTick(k2, n, tick), n, s), n, side), n, lots)
           k4 == SetSeq(SetExpiry(k3, n, expiry), n, id)
           k5 == FifoAppend(k4, side, tick, n, lots)
<1>0. LockAndInsert(b, s, side, tick, lots, expiry) = k5
  BY DEF LockAndInsert, BookInsert
<1>1. Same(b, k0) /\ id = b.orderSeq
  <2>1. Same(b, k0)
    BY SelfSame, PartsSame
  <2> QED BY <2>1, BookAssumption DEF Same, Shaped, NextOrderId
<1> HIDE DEF id, n
<1>2. Same(b, k1)
  BY <1>1, PartsSame
<1> HIDE DEF k0, k1
<1>3. /\ Shaped(k2) /\ k2.orderSeq = b.orderSeq + 1 /\ k2.pool = k1.pool
  BY <1>1, <1>2 DEF Same, Shaped, SetOrderSeq
<1> HIDE DEF k2
<1>4. Nodes \subseteq Links
  BY DEF Nodes, Links
<1>5. /\ Shaped(k3) /\ k3.orderSeq = k2.orderSeq
      /\ \A k \in Nodes : k # n => k3.pool[k] = k2.pool[k]
  BY <1>3, <1>4 DEF Shaped, SetLots, SetSide, SetMaker, SetTick
<1> HIDE DEF k3
<1>6. /\ Shaped(k4) /\ k4.orderSeq = k3.orderSeq
      /\ \A k \in Nodes : k # n => k4.pool[k] = k3.pool[k]
      /\ n \in Nodes => k4.pool[n].seq = id
  BY <1>1, <1>4, <1>5 DEF Shaped, SetSeq, SetExpiry
<1> HIDE DEF k4
<1>7. ASSUME NEW k \in Nodes PROVE Traced(b, k4, k) \/ Fresh(b, k4, k)
  <2>1. CASE k = n
    BY <1>1, <1>3, <1>5, <1>6, <2>1 DEF Fresh, Shaped
  <2>2. CASE k # n
    <3>1. k4.pool[k] = k1.pool[k]
      BY <1>3, <1>5, <1>6, <2>2
    <3> QED BY <1>2, <3>1 DEF Same, Traced, Shaped
  <2> QED BY <2>1, <2>2
<1>8. Descends(b, k4) /\ k4.orderSeq = b.orderSeq + 1
  BY <1>3, <1>5, <1>6, <1>7 DEF Descends, Shaped
<1>9. Ends(k4, k5)
  BY <1>6, SelfSame, PartsSame, SameEnds
<1> HIDE DEF k5
<1>10. Descends(b, k5) /\ k5.orderSeq = b.orderSeq + 1
  BY <1>8, <1>9, DescendsTrans DEF Ends
<1> QED BY <1>0, <1>10

-----------------------------------------------------------------------------
(* The invariant: committed ids lie below the counter, the book in flight   *)
(* descends from the committed one, and the instruction in flight has ids   *)
(* left for what it may still post.                                         *)

Issued(b) == \A k \in Nodes : b.pool[k].seq = FreedSeq \/ b.pool[k].seq < b.orderSeq

QuotesLeft(i) ==
  Len(Payload(i)) - i.qi + IF i.side = "bid" THEN Len(i.asks) ELSE 0

Room(b, i) ==
  /\ i.op = "MassQuote" =>
       i.qi <= Len(Payload(i)) /\ b.orderSeq + QuotesLeft(i) <= MaxOrderIds
  /\ i.op = "Take" /\ i.kind = "PlaceLimit" => b.orderSeq + 1 <= MaxOrderIds

Named ==
  /\ MaxOrderIds <= FreedSeq
  /\ Issued(committed.book) /\ Descends(committed.book, book)
  /\ Room(book, ix)

IdInv == IInv /\ Named

\* What a step shows: the invariant, and what it commits descends from what
\* was committed.
Moves == Named' /\ Descends(committed.book, committed'.book)

LEMMA IssuedKept ==
  ASSUME NEW b, Shaped(b), Issued(b), NEW c, Descends(b, c)
  PROVE  Issued(c)
<1> SUFFICES ASSUME NEW k \in Nodes, c.pool[k].seq # FreedSeq
             PROVE  c.pool[k].seq < c.orderSeq
  BY DEF Issued
<1>1. /\ c.orderSeq \in Nat /\ b.orderSeq \in Nat /\ b.orderSeq <= c.orderSeq
      /\ c.pool[k].seq \in Nat
  BY DEF Descends, Shaped
<1>2. Traced(b, c, k) \/ Fresh(b, c, k)
  BY DEF Descends
<1>3. CASE Traced(b, c, k)
  BY <1>1, <1>3 DEF Traced, Issued
<1>4. CASE Fresh(b, c, k)
  BY <1>4 DEF Fresh
<1> QED BY <1>2, <1>3, <1>4

LEMMA BooksShaped ==
  ASSUME IdInv
  PROVE  /\ book \in Book /\ Shaped(book) /\ Same(book, book) /\ book.orderSeq \in Nat
         /\ Shaped(committed.book) /\ Descends(committed.book, committed.book)
         /\ MaxOrderIds \in Nat /\ FreedSeq \in Nat
<1>1. book \in Book /\ committed.book \in Book
  BY InvGood DEF IdInv, Good
<1>2. Shaped(book) /\ Shaped(committed.book)
  BY <1>1, BookShaped
<1> QED BY <1>1, <1>2, SelfSame, BookAssumption, ProgramAssumption DEF Shaped

LEMMA CommitMoves ==
  ASSUME IdInv, NEW b, Descends(book, b), NEW v, Commit(b, v)
  PROVE  Moves
<1> DEFINE c == BumpSeq(b)
<1>1. Same(b, c) /\ Shaped(b)
  BY EndsShaped, SelfSame, SettersSame
<1>2. book' = c /\ ix' = Idle /\ committed'.book = c
  BY DEF Commit
<1> HIDE DEF c
<1>3. Descends(committed.book, c) /\ Descends(c, c)
  <2>1. Descends(committed.book, b)
    BY BooksShaped, DescendsTrans DEF IdInv, Named
  <2>2. Descends(b, c) /\ Shaped(c)
    BY <1>1, SameEnds, SameShaped DEF Ends
  <2> QED BY <2>1, <2>2, BooksShaped, DescendsTrans, SelfSame
<1>4. Issued(c)
  BY <1>3, BooksShaped, IssuedKept DEF IdInv, Named
<1>5. Room(book', ix')
  BY <1>2 DEF Room, Idle
<1> QED BY <1>2, <1>3, <1>4, <1>5 DEF Moves, IdInv, Named, Issued, Descends, Shaped,
                                      Traced, Fresh, Room, QuotesLeft, Payload

LEMMA ContinueMoves ==
  ASSUME IdInv, NEW b, Descends(book, b), NEW i, Room(b, i), Continue(b, i)
  PROVE  Moves
<1>1. book' = b /\ ix' = i /\ committed' = committed
  BY DEF Continue
<1>2. Descends(committed.book, b) /\ Descends(committed.book, committed.book)
  BY BooksShaped, DescendsTrans DEF IdInv, Named
<1> QED BY <1>1, <1>2 DEF Moves, IdInv, Named, Issued, Descends, Shaped, Traced, Fresh,
                          Room, QuotesLeft, Payload

LEMMA AbortMoves == ASSUME IdInv, Abort PROVE Moves
<1>1. book' = committed.book /\ ix' = Idle /\ committed' = committed
  BY DEF Abort
<1>2. Room(book', ix')
  BY <1>1 DEF Room, Idle
<1> QED BY <1>1, <1>2, BooksShaped DEF Moves, IdInv, Named, Issued, Descends, Shaped,
                                       Traced, Fresh, Room, QuotesLeft, Payload

LEMMA SameCommits ==
  ASSUME IdInv, NEW b, Same(book, b), NEW v, Commit(b, v)
  PROVE  Moves
BY BooksShaped, SameEnds, CommitMoves DEF Ends

\* A step that posts nothing leaves the ids there were.
LEMMA EndsContinues ==
  ASSUME IdInv, NEW b, Ends(book, b), NEW i,
         i.op = "MassQuote" => /\ ix.op = "MassQuote" /\ i.side = ix.side /\ i.qi = ix.qi
                               /\ i.bids = ix.bids /\ i.asks = ix.asks,
         i.op = "Take" => ix.op = "Take" /\ i.kind = ix.kind,
         Continue(b, i)
  PROVE  Moves
<1>1. Room(b, i)
  BY DEF IdInv, Named, Room, QuotesLeft, Payload, Ends
<1> QED BY <1>1, ContinueMoves DEF Ends

-----------------------------------------------------------------------------
(* Custody                                                                 *)

LEMMA CustodyMoves == ASSUME IdInv, CustodyNext PROVE Moves
<1>1. \A b : Same(book, b) => \A v : Commit(b, v) => Moves
  BY SameCommits
<1>2. Same(book, book)
  BY BooksShaped
<1>3. CASE \E o \in Owners : ClaimSeat(o)
  <2>1. \A s, o : Same(book, SetOrdersHead(SetOwner(book, s, o), s, NIL))
    BY <1>2, SettersSame
  <2> QED BY <1>1, <1>3, <2>1 DEF ClaimSeat
<1>4. CASE \E s \in SeatIds : CloseSeat(s)
  <2>1. \A s, o : Same(book, SetOrdersHead(SetOwner(book, s, o), s, NIL))
    BY <1>2, SettersSame
  <2> QED BY <1>1, <1>4, <2>1 DEF CloseSeat
<1>5. \A s, x, y : Same(book, AddFree(AddFree(book, s, "base", x), s, "quote", y))
  BY <1>2, PartsSame
<1>6. CASE \E s \in SeatIds, base, quote \in DepositAmounts : Deposit(s, base, quote)
  BY <1>1, <1>5, <1>6 DEF Deposit
<1>7. CASE \E s \in SeatIds, base, quote \in WithdrawAmounts : Withdraw(s, base, quote)
  BY <1>1, <1>5, <1>7 DEF Withdraw
<1>8. CASE CollectFees
  <2>1. Same(book, [book EXCEPT !.fees = 0])
    BY <1>2 DEF Same, Shaped
  <2> QED BY <1>1, <1>8, <2>1 DEF CollectFees
<1>9. CASE \E rate \in FeeRates : UpdateFee(rate)
  <2>1. \A rate : Same(book, [book EXCEPT !.feeBps = rate])
    BY <1>2 DEF Same, Shaped
  <2> QED BY <1>1, <1>9, <2>1 DEF UpdateFee
<1> QED BY <1>3, <1>4, <1>6, <1>7, <1>8, <1>9 DEF CustodyNext

-----------------------------------------------------------------------------
(* Quotes                                                                  *)

\* Amending never grows an order: a larger size ends it and posts another.
LEMMA UpsertDescends ==
  ASSUME NEW b \in Book, b.orderSeq < FreedSeq, NEW s \in SeatIds, NEW side \in Sides,
         NEW tick, NEW lots \in Nat, NEW expiry, NEW slide
  PROVE  Descends(b, Upsert(b, s, side, tick, lots, expiry, slide))
<1> DEFINE t == CheckOrSlide(b, side, tick, slide)
           q == QuoteAt(b, s, side, t)
           c == Cleared(b, s, side, t, lots)
           d == LockAndInsert(c, s, side, t, lots, expiry)
           e == ChainInsertSorted(d, s, c.freeHead)
<1> HIDE DEF t
<1>0. Shaped(b) /\ lots \in Int
  BY BookShaped
<1>1. CASE Amends(b, s, side, t, lots)
  <2>1. q \in Links /\ lots <= b.pool[q].lots
    BY <1>1, QuoteAtType DEF Amends
  <2>2. Upsert(b, s, side, tick, lots, expiry, slide) = ShrinkOrder(b, s, q, lots, expiry)
    BY <1>1 DEF Upsert, t
  <2> HIDE DEF q
  <2> QED BY <1>0, <2>1, <2>2, ShrinkOrderEnds DEF Ends
<1>2. CASE ~Amends(b, s, side, t, lots)
  <2>1. Upsert(b, s, side, tick, lots, expiry, slide) = e
    BY <1>2 DEF Upsert, Post, t
  <2>2. Ends(b, c)
    BY <1>0, KillOrderEnds, SelfSame DEF Cleared
  <2> HIDE DEF c
  <2>3. Shaped(c) /\ c.orderSeq < FreedSeq
    BY <2>2 DEF Ends, Descends
  <2>4. Descends(c, d) /\ Shaped(d)
    BY <1>0, <2>3, InsertDescends, EndsShaped
  <2> HIDE DEF d
  <2>5. Ends(d, e)
    BY <2>4, SelfSame, PartsSame, SameEnds
  <2> HIDE DEF e
  <2> QED BY <1>0, <2>1, <2>2, <2>4, <2>5, DescendsTrans DEF Ends
<1> QED BY <1>1, <1>2

LEMMA MakerMoves == ASSUME IdInv, MakerNext PROVE Moves
<1>0. \A n : Commit(KillOrder(book, n), vault) => Moves
  BY BooksShaped, KillOrderEnds, CommitMoves DEF Ends
<1>1. ASSUME NEW s \in SeatIds, NEW side \in Sides, NEW tick \in InTicks, NEW lots \in InLots,
             NEW reject \in BOOLEAN, NEW expiry \in InExpiries,
             PostOnly(s, side, tick, lots, reject, expiry)
      PROVE  Moves
  <2> DEFINE c == Upsert(book, s, side, tick, lots, expiry, ~reject)
  <2>1. book.orderSeq + 1 <= MaxOrderIds /\ Commit(c, vault)
    BY <1>1 DEF PostOnly, IdsLeft
  <2>2. book.orderSeq < FreedSeq /\ lots \in Nat
    BY <2>1, BooksShaped, MakerAssumption DEF IdInv, Named
  <2>3. Descends(book, c)
    BY <2>2, BooksShaped, UpsertDescends
  <2> HIDE DEF c
  <2> QED BY <2>1, <2>3, CommitMoves
<1>2. ASSUME NEW s \in SeatIds, NEW side \in Sides, NEW tick \in InTicks,
             CancelQuote(s, side, tick)
      PROVE  Moves
  BY <1>0, <1>2 DEF CancelQuote
<1>3. ASSUME NEW s \in SeatIds, NEW n \in Nodes, NEW id \in CancelIds, Cancel(s, n, id)
      PROVE  Moves
  BY <1>0, <1>3 DEF Cancel
<1>4. ASSUME NEW s \in SeatIds, NEW bids \in Payloads, NEW asks \in Payloads,
             NEW expiry \in InExpiries, BeginMassQuote(s, bids, asks, expiry)
      PROVE  Moves
  <2> DEFINE i == [op |-> "MassQuote", seat |-> s, bids |-> bids, asks |-> asks,
                   expiry |-> expiry, side |-> "bid", qi |-> 0,
                   prev |-> NIL, cur |-> book.seats[s].head,
                   lastTick |-> 0, lastUsed |-> 0, opposing |-> BestOf(book, "ask")]
  <2>1. Continue(book, i) /\ book.orderSeq + (Len(bids) + Len(asks)) <= MaxOrderIds
    BY <1>4 DEF BeginMassQuote, IdsLeft
  <2>2. Len(bids) \in Nat /\ Len(asks) \in Nat
    BY MakerAssumption
  <2>3. i.op = "MassQuote" /\ Payload(i) = bids /\ i.qi = 0 /\ QuotesLeft(i) = Len(bids) + Len(asks)
    BY <2>2 DEF QuotesLeft, Payload
  <2> HIDE DEF i
  <2>4. Room(book, i)
    BY <2>1, <2>2, <2>3 DEF Room
  <2> QED BY <2>1, <2>4, BooksShaped, SelfSame, ContinueMoves
<1> QED BY <1>1, <1>2, <1>3, <1>4 DEF MakerNext

-----------------------------------------------------------------------------
(* MassQuote                                                               *)

\* Posting a payload quote spends one of the ids set aside for it.
LEMMA MassQuoteInsertMoves ==
  ASSUME IdInv, Merging, HasQuote(ix), NEW b, Ends(book, b), NEW next, NEW nextTick,
         MassQuoteInsert(b, next, nextTick)
  PROVE  Moves
<1> DEFINE q    == Quote(ix)
           tick == CheckOrSlideVs(b, ix.side, q.tick, ~q.reject, ix.opposing)
           n    == b.freeHead
           c    == LockAndInsert(b, ix.seat, ix.side, tick, q.lots, ix.expiry)
           d    == ChainSplice(c, ix.seat, ix.prev, next, n)
           i    == [ix EXCEPT !.prev = n, !.cur = next, !.lastUsed = tick,
                              !.lastTick = q.tick, !.qi = @ + 1]
<1>1. CASE Abort
  BY <1>1, AbortMoves
<1>2. CASE Continue(d, i)
  <2>0. /\ q.lots \in Int /\ ix \in MassQuoteIx /\ ix.qi \in Nat
        /\ Len(Payload(ix)) \in Nat /\ Len(ix.asks) \in Nat
    <3>1. q.lots \in Nat /\ ix \in MassQuoteIx /\ ix.qi \in Nat
      BY MergeType DEF IdInv
    <3>2. Payload(ix) \in Payloads /\ ix.asks \in Payloads
      BY <3>1 DEF MassQuoteIx, Payload
    <3> QED BY <3>1, <3>2, MakerAssumption
  <2>1. ix.qi + 1 <= Len(Payload(ix)) /\ book.orderSeq + QuotesLeft(ix) <= MaxOrderIds
    BY <2>0 DEF HasQuote, IdInv, Named, Room, Merging
  <2>2. Shaped(b) /\ b.orderSeq = book.orderSeq /\ b.orderSeq < FreedSeq
    BY <2>0, <2>1, BooksShaped DEF Ends, Descends, QuotesLeft, IdInv, Named
  <2> HIDE DEF q, tick, n
  <2>3. Descends(b, c) /\ c.orderSeq = b.orderSeq + 1 /\ Shaped(c)
    BY <2>0, <2>2, InsertDescends, EndsShaped DEF q
  <2> HIDE DEF c
  <2>4. Ends(c, d)
    BY <2>3, SelfSame, PartsSame, SameEnds
  <2> HIDE DEF d
  <2>5. Descends(book, d) /\ d.orderSeq = book.orderSeq + 1
    <3>1. Descends(book, c)
      BY <2>3, BooksShaped, DescendsTrans DEF Ends
    <3> QED BY <2>2, <2>3, <2>4, <3>1, BooksShaped, DescendsTrans DEF Ends
  <2>6. /\ i.op = "MassQuote" /\ i.qi = ix.qi + 1 /\ i.side = ix.side
        /\ i.bids = ix.bids /\ i.asks = ix.asks
    BY <2>0 DEF MassQuoteIx
  <2> HIDE DEF i
  <2>7. Room(d, i)
    <3>1. Payload(i) = Payload(ix)
      BY <2>6 DEF Payload
    <3>2. QuotesLeft(i) = QuotesLeft(ix) - 1
      BY <2>0, <2>6, <3>1 DEF QuotesLeft
    <3>3. QuotesLeft(ix) \in Int
      BY <2>0 DEF QuotesLeft
    <3> QED BY <2>1, <2>5, <2>6, <3>1, <3>2, <3>3, BooksShaped DEF Room
  <2> QED BY <1>2, <2>5, <2>7, ContinueMoves
<1> QED BY <1>1, <1>2 DEF MassQuoteInsert

LEMMA MergeStepMoves == ASSUME IdInv, MergeStep PROVE Moves
<1>0. IInv /\ Shaped(book) /\ Ends(book, book)
  BY BooksShaped, SelfSame DEF IdInv
<1>1. ASSUME Merging
      PROVE  /\ ix \in MassQuoteIx /\ ix.qi \in Nat
             /\ Len(Payload(ix)) \in Nat /\ Len(ix.bids) \in Nat /\ Len(ix.asks) \in Nat
             /\ ix.qi <= Len(Payload(ix)) /\ book.orderSeq + QuotesLeft(ix) <= MaxOrderIds
  <2>1. ix \in MassQuoteIx /\ ix.qi \in Nat
    BY <1>0, <1>1, MergeType
  <2>2. Payload(ix) \in Payloads /\ ix.asks \in Payloads /\ ix.bids \in Payloads
    BY <2>1 DEF MassQuoteIx, Payload
  <2> QED BY <1>1, <2>1, <2>2, MakerAssumption DEF IdInv, Named, Room, Merging
<1>2. CASE MergeRefuse
  BY <1>2, AbortMoves DEF MergeRefuse
<1>3. CASE MergeCommit
  BY <1>0, <1>3, CommitMoves DEF MergeCommit, Ends
<1>4. CASE MergeCancel
  <2> DEFINE i == [ix EXCEPT !.cur = book.pool[ix.cur].makerNext]
  <2>1. Merging /\ Continue(KillOrder(book, ix.cur), i)
    BY <1>4 DEF MergeCancel
  <2>2. /\ i.op = "MassQuote" /\ i.side = ix.side /\ i.qi = ix.qi
        /\ i.bids = ix.bids /\ i.asks = ix.asks
    BY <1>1, <2>1 DEF MassQuoteIx
  <2> HIDE DEF i
  <2> QED BY <1>0, <2>1, <2>2, KillOrderEnds, EndsContinues DEF Merging
<1>5. CASE MergeKeep
  <2> DEFINE q == Quote(ix)
             i == [ix EXCEPT !.lastUsed = q.tick, !.lastTick = q.tick, !.qi = @ + 1,
                             !.prev = ix.cur, !.cur = book.pool[ix.cur].makerNext]
             c == ShrinkOrder(book, ix.seat, ix.cur, q.lots, ix.expiry)
  <2>1. Merging /\ Continue(c, i) /\ HasQuote(ix) /\ q.lots <= book.pool[ix.cur].lots
    BY <1>5 DEF MergeKeep
  <2>2. q.lots \in Int /\ ix.cur \in Links
    <3>1. q.lots \in Nat /\ ix.cur \in Links
      BY <1>0, <2>1, MergeType
    <3> QED BY <3>1
  <2>3. /\ i.op = "MassQuote" /\ i.side = ix.side /\ i.qi = ix.qi + 1
        /\ i.bids = ix.bids /\ i.asks = ix.asks
    BY <1>1, <2>1 DEF MassQuoteIx
  <2> HIDE DEF q, i
  <2>4. Ends(book, c)
    BY <1>0, <2>1, <2>2, ShrinkOrderEnds
  <2> HIDE DEF c
  <2>5. Room(c, i)
    <3>1. Payload(i) = Payload(ix)
      BY <2>3 DEF Payload
    <3>2. QuotesLeft(i) = QuotesLeft(ix) - 1 /\ QuotesLeft(ix) \in Int
      BY <1>1, <2>1, <2>3, <3>1 DEF QuotesLeft
    <3>3. i.qi <= Len(Payload(i))
      BY <1>1, <2>1, <2>3, <3>1 DEF HasQuote
    <3> QED BY <1>1, <2>1, <2>3, <2>4, <3>2, <3>3, BooksShaped DEF Room, Ends
  <2> QED BY <2>1, <2>4, <2>5, ContinueMoves DEF Ends
<1>6. CASE MergeInsert
  BY <1>0, <1>6, MassQuoteInsertMoves DEF MergeInsert
<1>7. CASE MergeRepost
  BY <1>0, <1>7, KillOrderEnds, MassQuoteInsertMoves DEF MergeRepost
<1>8. CASE MergeAsks
  <2> DEFINE i == [ix EXCEPT !.side = "ask", !.qi = 0, !.lastTick = 0,
                             !.lastUsed = 0, !.opposing = BestOf(book, "bid")]
  <2>1. Continue(book, i) /\ Merging /\ ix.side = "bid"
    BY <1>8 DEF MergeAsks, MergeDone
  <2>2. /\ i.op = "MassQuote" /\ i.side = "ask" /\ i.qi = 0
        /\ i.bids = ix.bids /\ i.asks = ix.asks
    BY <1>1, <2>1 DEF MassQuoteIx
  <2> HIDE DEF i
  <2>3. Room(book, i)
    <3>1. Payload(i) = ix.asks /\ QuotesLeft(i) = Len(ix.asks)
      BY <1>1, <2>1, <2>2 DEF Payload, QuotesLeft
    <3>2. QuotesLeft(i) <= QuotesLeft(ix) /\ QuotesLeft(ix) \in Int
      BY <1>1, <2>1, <3>1 DEF QuotesLeft
    <3> QED BY <1>1, <2>1, <2>2, <3>1, <3>2, BooksShaped DEF Room
  <2> QED BY <1>0, <2>1, <2>3, ContinueMoves DEF Ends
<1> QED BY <1>2, <1>3, <1>4, <1>5, <1>6, <1>7, <1>8 DEF MergeStep

-----------------------------------------------------------------------------
(* Taking                                                                  *)

LEMMA TakerMoves == ASSUME IdInv, TakerNext PROVE Moves
<1>1. ASSUME NEW i, i.op = "Take", i.kind = "PlaceLimit" => IdsLeft(1),
             book' = book, committed' = committed, ix' = i
      PROVE  Moves
  <2>1. Room(book, i)
    BY <1>1 DEF Room, IdsLeft
  <2> QED BY <1>1, <2>1, BooksShaped
          DEF Moves, IdInv, Named, Issued, Descends, Shaped, Traced, Fresh,
              Room, QuotesLeft, Payload
<1>2. \A kind, s, side, limit, lots, quote, policy, expiry, minOut, delta :
        LET i == Take(kind, s, side, limit, lots, quote, policy, expiry, minOut, delta)
        IN i.op = "Take" /\ i.kind = kind
  BY DEF Take
<1>3. ASSUME NEW s \in SeatIds, NEW side \in Sides, NEW limit \in InTicks, NEW lots \in InLots,
             NEW policy \in Policies, NEW expiry \in InExpiries,
             BeginPlaceLimit(s, side, limit, lots, policy, expiry)
      PROVE  Moves
  BY <1>1, <1>2, <1>3 DEF BeginPlaceLimit, Continue
<1>4. ASSUME NEW s \in SeatIds, NEW side \in Sides, NEW limit \in InTicks, NEW lots \in TakeLots,
             NEW minOut \in MinOuts, NEW policy \in Policies,
             BeginPlaceTake(s, side, limit, lots, minOut, policy)
      PROVE  Moves
  BY <1>1, <1>2, <1>4 DEF BeginPlaceTake, Continue
<1>5. ASSUME NEW side \in Sides, NEW limit \in InTicks, NEW amount \in SwapAmounts,
             NEW minOut \in MinOuts, BeginSwap(side, limit, amount, minOut)
      PROVE  Moves
  BY <1>1, <1>2, <1>5 DEF BeginSwap, SwapWith
<1> QED BY <1>3, <1>4, <1>5 DEF TakerNext

LEMMA TakeFillMoves == ASSUME IdInv, TakeFill PROVE Moves
<1> DEFINE tick     == TakeLevel(book, ix)
           head     == TakeHead(book, ix)
           fill     == FillLots(book, ix)
           notional == Notional(tick, fill)
           side     == BookSide(ix)
           i        == [ix EXCEPT !.at = tick, !.lots = @ + fill, !.quote = @ + notional,
                                  !.fee = @ + FeeOn(book, notional)]
<1>1. Taking /\ AtOrder(ix) /\ fill > 0 /\ Continue(FillOrder(book, side, tick, head, fill), i)
  BY DEF TakeFill
<1>2. /\ head \in Links /\ fill \in Nat /\ i.op = "Take" /\ i.kind = ix.kind
  BY <1>1, TakeHeadType, TakeType, FillLotsType DEF IdInv, TakeIx
<1>3. book.pool[head].lots \in Int
  <2>1. book.pool[head].lots \in Nat
    BY <1>2, BooksShaped, NodeType
  <2> QED BY <2>1
<1> HIDE DEF side, tick, head, fill, i
<1>4. Ends(book, FillOrder(book, side, tick, head, fill))
  BY <1>2, <1>3, BooksShaped, FillOrderEnds
<1> QED BY <1>1, <1>2, <1>4, EndsContinues DEF Taking

LEMMA TakeEndsMoves ==
  ASSUME IdInv, Taking, NEW n, NEW t, Continue(KillOrder(book, n), [ix EXCEPT !.at = t])
  PROVE  Moves
<1> DEFINE i == [ix EXCEPT !.at = t]
<1>1. i.op = "Take" /\ i.kind = ix.kind
  BY TakeType DEF IdInv, TakeIx
<1> HIDE DEF i
<1> QED BY <1>1, BooksShaped, KillOrderEnds, EndsContinues DEF i, Taking

\* Charging and paying the taker touches no order.
LEMMA SettledSame ==
  ASSUME IdInv
  PROVE  LET acc == Accrued(book, ix)
         IN Same(book, acc) /\ Same(book, SettleTaker(acc, ix))
<1>1. Same(book, Accrued(book, ix))
  BY BooksShaped DEF Accrued, Same, Shaped
<1>2. \A s, w, x, y, z : Same(book, AddFree(AddFree(Accrued(book, ix), s, w, x), s, y, z))
  BY <1>1, PartsSame
<1> QED BY <1>1, <1>2 DEF SettleTaker

LEMMA EndPlaceLimitMoves == ASSUME IdInv, EndPlaceLimit PROVE Moves
<1> DEFINE acc  == Accrued(book, ix)
           paid == SettleTaker(acc, ix)
           rest == Remaining(ix)
           done == Upsert(paid, ix.seat, ix.side, ix.limit, rest, ix.expiry, FALSE)
<1>0. IInv
  BY DEF IdInv
<1>1. Taking /\ ix.kind = "PlaceLimit" /\ Good(acc) /\ Same(book, paid)
  BY <1>0, AccruedGood, SettledSame DEF EndPlaceLimit, TakeOver
<1>2. CASE Abort
  BY <1>2, AbortMoves
<1>3. CASE Commit(paid, vault)
  <2> HIDE DEF paid
  <2> QED BY <1>1, <1>3, SameCommits
<1>4. CASE SeatPays(acc, ix) /\ Commit(done, vault)
  <2>1. paid \in Book
    BY <1>0, <1>1, <1>4, SettleTakerGood DEF Good
  <2>2. /\ ix.seat \in SeatIds /\ ix.side \in Sides /\ rest \in Nat
    BY <1>0, <1>1, TakeType DEF Remaining
  <2> HIDE DEF paid, rest
  <2>3. paid.orderSeq < FreedSeq
    <3>1. book.orderSeq + 1 <= MaxOrderIds /\ MaxOrderIds <= FreedSeq
      BY <1>1 DEF IdInv, Named, Room, Taking
    <3>2. paid.orderSeq = book.orderSeq
      BY <1>1 DEF Same
    <3> QED BY <3>1, <3>2, BooksShaped
  <2>4. Descends(paid, done)
    BY <2>1, <2>2, <2>3, UpsertDescends
  <2>5. Descends(book, paid)
    BY <1>1, BooksShaped, SameEnds DEF Ends
  <2> HIDE DEF done
  <2> QED BY <1>4, <2>4, <2>5, BooksShaped, DescendsTrans, CommitMoves
<1> QED BY <1>2, <1>3, <1>4 DEF EndPlaceLimit

LEMMA TakeStepMoves == ASSUME IdInv, TakeStep PROVE Moves
<1>1. CASE TakeExpired
  BY <1>1, TakeEndsMoves DEF TakeExpired
<1>2. CASE TakeOwn
  BY <1>2, TakeEndsMoves, AbortMoves DEF TakeOwn
<1>3. CASE EndPlaceTake
  BY <1>3, SettledSame, SameCommits, AbortMoves DEF EndPlaceTake
<1>4. CASE EndSwap
  BY <1>4, SettledSame, SameCommits, AbortMoves DEF EndSwap
<1> QED BY <1>1, <1>2, <1>3, <1>4, TakeFillMoves, EndPlaceLimitMoves DEF TakeStep

-----------------------------------------------------------------------------
(* Hygiene                                                                 *)

\* A reanchor or a reap only ends orders.
LEMMA HygieneContinues ==
  ASSUME IdInv, NEW b, Ends(book, b), NEW i, i.op \in {"Reanchor", "ReapExpired"},
         Continue(b, i)
  PROVE  Moves
BY EndsContinues

LEMMA HygieneMoves == ASSUME IdInv, HygieneNext PROVE Moves
<1>0. Ends(book, book)
  BY BooksShaped, SelfSame
<1>1. ASSUME NEW target \in Targets, NEW max \in MaxLevels, BeginReanchor(target, max)
      PROVE  Moves
  <2> DEFINE i == [op |-> "Reanchor", ideal |-> Ideal(target), max |-> max,
                   evicted |-> 0, cur |-> book.anchor, inWord |-> FALSE]
  <2>1. Continue(book, i) /\ i.op = "Reanchor"
    BY <1>1 DEF BeginReanchor
  <2> HIDE DEF i
  <2> QED BY <1>0, <2>1, HygieneContinues
<1>2. ASSUME NEW side \in Sides, NEW start \in ReapStarts, NEW max \in ReapCounts,
             BeginReap(side, start, max)
      PROVE  Moves
  <2> DEFINE i == [op |-> "ReapExpired", side |-> side, start |-> start,
                   max |-> max, tick |-> Clamp(start), reaped |-> 0, cur |-> NIL]
  <2>1. Continue(book, i) /\ i.op = "ReapExpired"
    BY <1>2 DEF BeginReap
  <2> HIDE DEF i
  <2> QED BY <1>0, <2>1, HygieneContinues
<1> QED BY <1>1, <1>2 DEF HygieneNext

LEMMA HygieneStepMoves == ASSUME IdInv, HygieneStep PROVE Moves
<1>0. IInv /\ Shaped(book) /\ Ends(book, book)
  BY BooksShaped, SelfSame DEF IdInv
<1>1. ASSUME Reanchoring
      PROVE  /\ ix.op = "Reanchor" /\ [ix EXCEPT !.inWord = TRUE].op = "Reanchor"
             /\ [ix EXCEPT !.evicted = @ + 1].op = "Reanchor"
             /\ \A to : [ix EXCEPT !.inWord = FALSE, !.cur = to].op = "Reanchor"
  BY <1>0, <1>1, ReanchorType DEF ReanchorIx
<1>2. ASSUME Reaping
      PROVE  /\ \A t, n : [ix EXCEPT !.tick = t, !.cur = n].op = "ReapExpired"
             /\ \A n : [ix EXCEPT !.cur = n].op = "ReapExpired"
             /\ \A k, n : [ix EXCEPT !.reaped = k, !.cur = n].op = "ReapExpired"
  BY <1>0, <1>2, ReapType DEF ReapIx
<1>3. \A n : \A i : i.op \in {"Reanchor", "ReapExpired"} /\ Continue(KillOrder(book, n), i) => Moves
  BY <1>0, KillOrderEnds, HygieneContinues
<1>4. \A i : i.op \in {"Reanchor", "ReapExpired"} /\ Continue(book, i) => Moves
  BY <1>0, HygieneContinues
<1>5. CASE EnterWord
  BY <1>1, <1>4, <1>5 DEF EnterWord
<1>6. CASE EvictOrder
  <2> DEFINE i == [ix EXCEPT !.evicted = @ + 1]
  <2>1. i.op = "Reanchor" /\ Continue(KillOrder(book, HeadAt(book, Lowest(WordOccupied))), i)
    BY <1>1, <1>6 DEF EvictOrder
  <2> HIDE DEF i
  <2> QED BY <1>3, <2>1
<1>7. CASE LeaveWord
  BY <1>1, <1>4, <1>7 DEF LeaveWord
<1>8. CASE ReanchorCommit
  <2>1. Same(book, [book EXCEPT !.anchor = ix.cur])
    BY <1>0 DEF Same, Shaped
  <2> QED BY <1>8, <2>1, SameCommits DEF ReanchorCommit
<1>9. CASE ReapEnter
  BY <1>2, <1>4, <1>9 DEF ReapEnter
<1>10. CASE ReapSkip
  <2>1. Reaping /\ Continue(book, [ix EXCEPT !.cur = book.pool[ix.cur].next])
    BY <1>10 DEF ReapSkip
  <2> QED BY <1>2, <1>4, <2>1
<1>11. CASE ReapKill
  <2>1. /\ Reaping
        /\ \/ Commit(KillOrder(book, ix.cur), vault)
           \/ Continue(KillOrder(book, ix.cur),
                       [ix EXCEPT !.reaped = ix.reaped + 1, !.cur = book.pool[ix.cur].next])
    BY <1>11 DEF ReapKill
  <2> QED BY <1>0, <1>2, <1>3, <2>1, KillOrderEnds, CommitMoves DEF Ends
<1>12. CASE ReapCommit
  BY <1>0, <1>12, CommitMoves DEF ReapCommit, Ends
<1> QED BY <1>5, <1>6, <1>7, <1>8, <1>9, <1>10, <1>11, <1>12 DEF HygieneStep

-----------------------------------------------------------------------------
(* The program                                                             *)

LEMMA IdNext == ASSUME IdInv, [Next]_vars PROVE IdInv' /\ Moves
<1>1. IInv'
  BY NextInv DEF IdInv
<1>2. Moves
  <2>1. CASE NextSlot \/ Refused \/ UNCHANGED vars
    <3>1. book' = book /\ ix' = ix /\ committed' = committed
      BY <2>1 DEF NextSlot, Refused, vars
    <3> QED BY <3>1, BooksShaped DEF Moves, IdInv, Named, Issued, Descends, Shaped, Traced,
                                     Fresh, Room, QuotesLeft, Payload
  <2>2. CASE Step
    BY <2>2, MergeStepMoves, TakeStepMoves, HygieneStepMoves DEF Step
  <2>3. CASE CustodyNext \/ MakerNext \/ TakerNext \/ HygieneNext
    BY <2>3, CustodyMoves, MakerMoves, TakerMoves, HygieneMoves
  <2> QED BY <2>1, <2>2, <2>3 DEF Next
<1> QED BY <1>1, <1>2 DEF IdInv, Moves

LEMMA IdInit == ASSUME MaxOrderIds <= FreedSeq, Init PROVE IdInv
<1>1. PICK rate : book = StartBook(rate) /\ committed.book = book /\ ix = Idle
  BY DEF Init
<1>2. IInv /\ Shaped(book)
  BY InitInv, InvGood, BookShaped DEF Good
<1>3. Issued(book)
  BY <1>1 DEF Issued, StartBook, FreshNode, Nodes, Links
<1>4. Room(book, ix)
  BY <1>1 DEF Room, Idle
<1> QED BY <1>1, <1>2, <1>3, <1>4, SelfSame DEF IdInv, Named

\* Under one id an order never moves, changes hands or grows, and an id names
\* one order for ever: amend in place (upsert_order, mass_quote), fills, pool
\* slots freed and allocated again (free_node, alloc_node, next_order_id), on
\* every market whose id counter does not come round.
THEOREM IdentityKept == MaxOrderIds <= FreedSeq /\ Spec => OrderIdentity
<1> DEFINE A ==
      /\ \A n \in Live(Old) : Survives(n) =>
           /\ New.pool[n].maker = Old.pool[n].maker
           /\ New.pool[n].side = Old.pool[n].side
           /\ New.pool[n].tick = Old.pool[n].tick
           /\ New.pool[n].lots <= Old.pool[n].lots
      /\ \A n \in Live(New) : (n \in Live(Old) /\ Survives(n))
                              \/ New.pool[n].seq >= Old.orderSeq
<1>1. ASSUME IdInv, [Next]_vars PROVE A
  <2>1. Descends(Old, New) /\ Issued(Old) /\ Shaped(Old)
    BY <1>1, IdNext, BooksShaped DEF Moves, IdInv, Named, Old, New
  <2> HIDE DEF Old, New
  <2>2. ASSUME NEW n \in Nodes, New.pool[n].seq # FreedSeq
        PROVE  Traced(Old, New, n) \/ Fresh(Old, New, n)
    BY <2>1, <2>2 DEF Descends
  <2>3. ASSUME NEW n \in Live(Old), Survives(n) PROVE Traced(Old, New, n)
    BY <2>1, <2>2, <2>3 DEF Live, Survives, IsLive, Issued, Fresh, Shaped
  <2>4. ASSUME NEW n \in Live(New)
        PROVE  (n \in Live(Old) /\ Survives(n)) \/ New.pool[n].seq >= Old.orderSeq
    BY <2>1, <2>2, <2>4 DEF Live, Survives, IsLive, Traced, Fresh, Shaped, Descends
  <2> QED BY <2>3, <2>4 DEF Traced
<1>2. IdInv /\ [Next]_vars => IdInv' /\ [A]_committed
  BY <1>1, IdNext
<1>3. MaxOrderIds <= FreedSeq /\ Init => IdInv
  BY IdInit
<1>4. MaxOrderIds <= FreedSeq /\ Spec => [][A]_committed
  BY <1>2, <1>3, PTL DEF Spec
<1> QED BY <1>4 DEF OrderIdentity
=============================================================================
