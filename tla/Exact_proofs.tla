----------------------------- MODULE Exact_proofs -----------------------------
(***************************************************************************)
(* What a successful instruction does to the seats and to other people's   *)
(* orders, as action properties: the state it leaves compared with the one *)
(* it found, over all the steps it took.  A seat is taken or given up      *)
(* empty; a cancel ends the one order whose id it quotes; a reanchor ends  *)
(* the orders its new window excludes, and a reap the first orders due; a  *)
(* take fills by price and age, stops for a reason, pays each maker its    *)
(* own fills, rounds each fee once and rests its leftover; a merge leaves  *)
(* its maker the payload.  Last, what of the refinement of Exchange does   *)
(* not depend on the order of the lines.                                   *)
(***************************************************************************)
EXTENDS Structure_proofs, ClobRefinement

-----------------------------------------------------------------------------
(* Who owns the seats, where the window is, what the fee rate is           *)

\* Book c has b's seats owned by the same, its window and its fee rate, and is
\* written like a book.
SameTerms(b, c) ==
  /\ "anchor" \in DOMAIN c /\ "feeBps" \in DOMAIN c
  /\ c.anchor = b.anchor /\ c.feeBps = b.feeBps
  /\ "seats" \in DOMAIN c /\ SeatIds \subseteq DOMAIN c.seats
  /\ \A s \in SeatIds : "owner" \in DOMAIN c.seats[s] /\ c.seats[s].owner = b.seats[s].owner

LEMMA BookTerms == ASSUME NEW b \in Book PROVE SameTerms(b, b)
BY DEF Book, Seat, SameTerms

\* Only claim_seat and close_seat write an owner, reanchor the window's start,
\* and update_fee the rate.
LEMMA SettersTerms ==
  ASSUME NEW a, NEW b, SameTerms(a, b), NEW x, NEW y, NEW z
  PROVE  /\ SameTerms(a, SetOrdersHead(b, x, y)) /\ SameTerms(a, SetOrderCount(b, x, y))
         /\ SameTerms(a, SetFree(b, x, y, z)) /\ SameTerms(a, SetLocked(b, x, y, z))
         /\ SameTerms(a, SetPrev(b, x, y)) /\ SameTerms(a, SetNext(b, x, y))
         /\ SameTerms(a, SetMakerPrev(b, x, y)) /\ SameTerms(a, SetMakerNext(b, x, y))
         /\ SameTerms(a, SetTick(b, x, y)) /\ SameTerms(a, SetMaker(b, x, y))
         /\ SameTerms(a, SetSide(b, x, y)) /\ SameTerms(a, SetLots(b, x, y))
         /\ SameTerms(a, SetExpiry(b, x, y)) /\ SameTerms(a, SetSeq(b, x, y))
         /\ SameTerms(a, SetHead(b, x, y)) /\ SameTerms(a, SetTail(b, x, y))
         /\ SameTerms(a, AddLots(b, x, y)) /\ SameTerms(a, ZeroLevel(b, x))
         /\ SameTerms(a, SetBit(b, x, y)) /\ SameTerms(a, ClearBit(b, x, y))
         /\ SameTerms(a, SetFreeHead(b, x)) /\ SameTerms(a, SetFreeCount(b, x))
         /\ SameTerms(a, SetOrderSeq(b, x)) /\ SameTerms(a, BumpSeq(b))
         /\ SameTerms(a, [b EXCEPT !.fees = x])
<1>1. /\ SameTerms(a, SetOrdersHead(b, x, y)) /\ SameTerms(a, SetOrderCount(b, x, y))
      /\ SameTerms(a, SetFree(b, x, y, z)) /\ SameTerms(a, SetLocked(b, x, y, z))
  BY DEF SameTerms, SetOrdersHead, SetOrderCount, SetFree, SetLocked
<1>2. /\ SameTerms(a, SetPrev(b, x, y)) /\ SameTerms(a, SetNext(b, x, y))
      /\ SameTerms(a, SetMakerPrev(b, x, y)) /\ SameTerms(a, SetMakerNext(b, x, y))
  BY DEF SameTerms, SetPrev, SetNext, SetMakerPrev, SetMakerNext
<1>3. /\ SameTerms(a, SetTick(b, x, y)) /\ SameTerms(a, SetMaker(b, x, y))
      /\ SameTerms(a, SetSide(b, x, y)) /\ SameTerms(a, SetLots(b, x, y))
      /\ SameTerms(a, SetExpiry(b, x, y)) /\ SameTerms(a, SetSeq(b, x, y))
  BY DEF SameTerms, SetTick, SetMaker, SetSide, SetLots, SetExpiry, SetSeq
<1>4. /\ SameTerms(a, SetHead(b, x, y)) /\ SameTerms(a, SetTail(b, x, y))
      /\ SameTerms(a, AddLots(b, x, y)) /\ SameTerms(a, ZeroLevel(b, x))
  BY DEF SameTerms, SetHead, SetTail, AddLots, ZeroLevel
<1>5. /\ SameTerms(a, SetBit(b, x, y)) /\ SameTerms(a, ClearBit(b, x, y))
      /\ SameTerms(a, SetFreeHead(b, x)) /\ SameTerms(a, SetFreeCount(b, x))
      /\ SameTerms(a, SetOrderSeq(b, x)) /\ SameTerms(a, BumpSeq(b))
  BY DEF SameTerms, SetBit, ClearBit, SetFreeHead, SetFreeCount, SetOrderSeq, BumpSeq
<1>6. SameTerms(a, [b EXCEPT !.fees = x])
  BY DEF SameTerms
<1> QED BY <1>1, <1>2, <1>3, <1>4, <1>5, <1>6

LEMMA ListsTerms ==
  ASSUME NEW a, NEW b, SameTerms(a, b), NEW s, NEW x, NEW y, NEW z, NEW n
  PROVE  /\ SameTerms(a, FifoUnlink(b, x, n)) /\ SameTerms(a, ChainUnlink(b, n))
         /\ SameTerms(a, ChainSplice(b, s, x, y, n)) /\ SameTerms(a, ChainInsertSorted(b, s, n))
         /\ SameTerms(a, BookInsert(b, x, y, z, s, n))
<1>1. \A c, m : SameTerms(a, c) => SameTerms(a, FreeNode(c, m))
  BY SettersTerms DEF FreeNode
<1>2. SameTerms(a, AllocNode(b))
  BY SettersTerms DEF AllocNode
<1>3. \A c, d, t, m, k : SameTerms(a, c) => SameTerms(a, FifoAppend(c, d, t, m, k))
  <2> SUFFICES ASSUME NEW c, NEW d, NEW t, NEW m, NEW k, SameTerms(a, c)
               PROVE  SameTerms(a, FifoAppend(c, d, t, m, k))
    OBVIOUS
  <2>1. SameTerms(a, AddLots(SetTail(c, Slot(t), m), Slot(t), k))
    BY SettersTerms
  <2> QED BY <2>1, SettersTerms DEF FifoAppend
<1>4. SameTerms(a, FifoUnlink(b, x, n))
  <2>1. SameTerms(a, FifoBypass(b, n))
    BY SettersTerms DEF FifoBypass
  <2> QED BY <2>1, SettersTerms DEF FifoUnlink
<1>5. SameTerms(a, ChainUnlink(b, n))
  <2>1. SameTerms(a, ChainBypass(b, n))
    BY SettersTerms DEF ChainBypass
  <2> QED BY <1>1, <2>1, SettersTerms DEF ChainUnlink
<1>6. \A p, q : SameTerms(a, ChainSplice(b, s, p, q, n))
  BY SettersTerms DEF ChainSplice
<1>7. SameTerms(a, ChainInsertSorted(b, s, n))
  <2>1. \E p, q : ChainInsertSorted(b, s, n) = ChainSplice(b, s, p, q, n)
    BY DEF ChainInsertSorted
  <2> QED BY <1>6, <2>1
<1>8. SameTerms(a, BookInsert(b, x, y, z, s, n))
  <2> DEFINE m  == b.freeHead
             id == NextOrderId(b)
             c  == SetOrderSeq(AllocNode(b), id + 1)
             d  == SetSide(SetMaker(SetTick(c, m, y), m, s), m, x)
             e  == SetSeq(SetExpiry(SetLots(d, m, z), m, n), m, id)
  <2>1. SameTerms(a, c)
    BY <1>2, SettersTerms
  <2>2. SameTerms(a, e)
    <3> HIDE DEF c
    <3> QED BY <2>1, SettersTerms
  <2>3. BookInsert(b, x, y, z, s, n) = FifoAppend(e, x, y, m, z)
    BY DEF BookInsert
  <2> HIDE DEF e
  <2> QED BY <1>3, <2>2, <2>3
<1> QED BY <1>4, <1>5, <1>6, <1>7, <1>8

\* Nor does anything that is made of them.
LEMMA OrdersTerms ==
  ASSUME NEW a, NEW b, SameTerms(a, b), NEW n, NEW s, NEW side, NEW tick, NEW lots, NEW x
  PROVE  /\ SameTerms(a, Lock(b, s, side, x)) /\ SameTerms(a, Unlock(b, s, side, x))
         /\ SameTerms(a, AddFree(b, s, side, x))
         /\ SameTerms(a, KillOrder(b, n)) /\ SameTerms(a, ShrinkOrder(b, s, n, lots, x))
         /\ SameTerms(a, LockAndInsert(b, s, side, tick, lots, x))
         /\ SameTerms(a, FillOrder(b, side, tick, n, lots))
<1>1. \A c, r, asset, y : SameTerms(a, c) => /\ SameTerms(a, Lock(c, r, asset, y))
                                              /\ SameTerms(a, Unlock(c, r, asset, y))
                                              /\ SameTerms(a, AddFree(c, r, asset, y))
  <2>1. \A c, r, asset, y : SameTerms(a, c) => /\ SameTerms(a, SetFree(c, r, asset, y))
                                                /\ SameTerms(a, SetLocked(c, r, asset, y))
    BY SettersTerms
  <2> QED BY <2>1 DEF Lock, Unlock, AddFree
<1>2. SameTerms(a, KillOrder(b, n))
  <2> DEFINE nd == b.pool[n]
             c  == Unlock(FifoUnlink(b, nd.side, n), nd.maker, LockedAsset(nd.side),
                          LockedAtoms(nd.side, nd.tick, nd.lots))
  <2>1. SameTerms(a, FifoUnlink(b, nd.side, n))
    BY ListsTerms
  <2>2. SameTerms(a, c)
    BY <1>1, <2>1
  <2>3. KillOrder(b, n) = ChainUnlink(c, n)
    BY DEF KillOrder
  <2> HIDE DEF c
  <2> QED BY <2>2, <2>3, ListsTerms
<1>3. SameTerms(a, ShrinkOrder(b, s, n, lots, x))
  <2> DEFINE nd   == b.pool[n]
             less == Unlock(b, s, LockedAsset(nd.side), LockedAtoms(nd.side, nd.tick, nd.lots - lots))
  <2>1. SameTerms(a, less)
    BY <1>1
  <2>2. ShrinkOrder(b, s, n, lots, x)
          = AddLots(SetExpiry(SetLots(less, n, lots), n, x), Slot(nd.tick), lots - nd.lots)
    BY DEF ShrinkOrder
  <2> HIDE DEF less
  <2>3. SameTerms(a, SetLots(less, n, lots))
    BY <2>1, SettersTerms
  <2>4. SameTerms(a, SetExpiry(SetLots(less, n, lots), n, x))
    BY <2>3, SettersTerms
  <2>5. \A l, y : SameTerms(a, AddLots(SetExpiry(SetLots(less, n, lots), n, x), l, y))
    BY <2>4, SettersTerms
  <2> QED BY <2>2, <2>5
<1>4. SameTerms(a, LockAndInsert(b, s, side, tick, lots, x))
  BY <1>1, ListsTerms DEF LockAndInsert
<1>5. SameTerms(a, FillOrder(b, side, tick, n, lots))
  <2> DEFINE settled == SettleMaker(b, side, tick, n, lots)
  <2>1. SameTerms(a, settled)
    BY SettersTerms DEF SettleMaker
  <2>2. FillOrder(b, side, tick, n, lots)
          = IF lots = b.pool[n].lots
            THEN ChainUnlink(FifoUnlink(settled, side, n), n)
            ELSE AddLots(SetLots(settled, n, b.pool[n].lots - lots), Slot(tick), -lots)
    BY DEF FillOrder
  <2> HIDE DEF settled
  <2>3. SameTerms(a, FifoUnlink(settled, side, n))
    BY <2>1, ListsTerms
  <2>4. SameTerms(a, ChainUnlink(FifoUnlink(settled, side, n), n))
    BY <2>3, ListsTerms
  <2>5. SameTerms(a, AddLots(SetLots(settled, n, b.pool[n].lots - lots), Slot(tick), -lots))
    BY <2>1, SettersTerms
  <2> QED BY <2>2, <2>4, <2>5
<1> QED BY <1>1, <1>2, <1>3, <1>4, <1>5

LEMMA PostTerms ==
  ASSUME NEW a, NEW b, SameTerms(a, b), NEW s, NEW side, NEW tick, NEW lots, NEW x
  PROVE  SameTerms(a, Post(b, s, side, tick, lots, x))
<1> DEFINE c == Cleared(b, s, side, tick, lots)
<1>1. SameTerms(a, c)
  BY OrdersTerms DEF Cleared
<1>2. Post(b, s, side, tick, lots, x)
        = ChainInsertSorted(LockAndInsert(c, s, side, tick, lots, x), s, c.freeHead)
  BY DEF Post
<1> HIDE DEF c
<1>3. SameTerms(a, LockAndInsert(c, s, side, tick, lots, x))
  BY <1>1, OrdersTerms
<1> QED BY <1>2, <1>3, ListsTerms

LEMMA UpsertTerms ==
  ASSUME NEW a, NEW b, SameTerms(a, b), NEW s, NEW side, NEW tick, NEW lots, NEW x, NEW slide
  PROVE  SameTerms(a, Upsert(b, s, side, tick, lots, x, slide))
<1> DEFINE t == CheckOrSlide(b, side, tick, slide)
<1>1. Upsert(b, s, side, tick, lots, x, slide)
        = IF Amends(b, s, side, t, lots)
          THEN ShrinkOrder(b, s, QuoteAt(b, s, side, t), lots, x)
          ELSE Post(b, s, side, t, lots, x)
  BY DEF Upsert
<1> HIDE DEF t
<1> QED BY <1>1, OrdersTerms, PostTerms

LEMMA SettleTerms ==
  ASSUME NEW a, NEW b, SameTerms(a, b), NEW i
  PROVE  SameTerms(a, Accrued(b, i)) /\ SameTerms(a, SettleTaker(b, i))
<1>1. SameTerms(a, Accrued(b, i))
  BY SettersTerms DEF Accrued
<1>2. \A c, s, d, x, e, y : SameTerms(a, c) => SameTerms(a, AddFree(AddFree(c, s, d, x), s, e, y))
  <2>1. \A c, s, d, x : SameTerms(a, c) => SameTerms(a, AddFree(c, s, d, x))
    BY OrdersTerms
  <2> QED BY <2>1
<1>3. SameTerms(a, SettleTaker(b, i))
  BY <1>2 DEF SettleTaker
<1> QED BY <1>1, <1>3

-----------------------------------------------------------------------------
(* A step takes no seat from anyone, and pays nobody who has none          *)

\* From b to c no seat changed hands, nor did what is in one nobody owns, and
\* the window and the fee rate are the same.
Respects(b, c) ==
  /\ c.anchor = b.anchor /\ c.feeBps = b.feeBps
  /\ \A s \in SeatIds :
       /\ OwnerOf(c, s) = OwnerOf(b, s)
       /\ OwnerOf(b, s) = Nobody => \A a \in Assets : SeatTotal(c, s, a) = SeatTotal(b, s, a)

\* What nobody owns is empty.
Vacant(b) ==
  \A s \in SeatIds : OwnerOf(b, s) = Nobody => \A a \in Assets : SeatTotal(b, s, a) = 0

LEMMA RespectsTrans ==
  ASSUME NEW a, NEW b, NEW c, Respects(a, b), Respects(b, c) PROVE Respects(a, c)
BY DEF Respects

LEMMA RespectsSelf == ASSUME NEW b PROVE Respects(b, b)
BY DEF Respects

LEMMA VacantKept == ASSUME NEW b, NEW c, Vacant(b), Respects(b, c) PROVE Vacant(c)
BY DEF Vacant, Respects

LEMMA EvenRespects ==
  ASSUME NEW b, NEW c, Even(b, c), SameTerms(b, c) PROVE Respects(b, c)
BY DEF Even, SameTerms, Respects, OwnerOf

LEMMA GetsRespects ==
  ASSUME NEW b, NEW c, NEW s, NEW a, NEW x, Gets(b, c, s, a, x), OwnerOf(b, s) # Nobody, SameTerms(b, c)
  PROVE  Respects(b, c)
<1> SUFFICES ASSUME NEW r \in SeatIds
             PROVE  /\ OwnerOf(c, r) = OwnerOf(b, r)
                    /\ OwnerOf(b, r) = Nobody => \A d \in Assets : SeatTotal(c, r, d) = SeatTotal(b, r, d)
  BY DEF Respects, SameTerms
<1>1. OwnerOf(c, r) = OwnerOf(b, r)
  BY DEF SameTerms, OwnerOf
<1>2. ASSUME r # s, NEW d \in Assets PROVE SeatTotal(c, r, d) = SeatTotal(b, r, d)
  <2>1. SeatTotal(c, r, d) = SeatTotal(b, r, d) + 0 /\ b \in Book
    BY <1>2 DEF Gets
  <2> QED BY <2>1, SeatTotalType
<1> QED BY <1>1, <1>2

LEMMA BumpEven == ASSUME NEW b \in Book PROVE Even(b, BumpSeq(b))
<1>1. BumpSeq(b) \in Book
  BY KeptSelf, ListSetters, SeatsKeptIsKept, KeptBook
<1> QED BY <1>1, BookBanked, SettersSameFunds, SameFundsEven

LEMMA BumpRespects == ASSUME NEW b \in Book PROVE Respects(b, BumpSeq(b)) /\ BumpSeq(b) \in Book
<1>1. BumpSeq(b) \in Book
  BY KeptSelf, ListSetters, SeatsKeptIsKept, KeptBook
<1>2. Even(b, BumpSeq(b))
  BY BumpEven
<1>3. SameTerms(b, BumpSeq(b))
  BY BookTerms, SettersTerms
<1> QED BY <1>1, <1>2, <1>3, EvenRespects

\* What has happened to the seats since the last successful instruction.
Since ==
  /\ Vacant(committed.book) /\ Respects(committed.book, book)
  /\ ix.op # "Take" => Even(committed.book, book)
  /\ ix = Idle => book = committed.book

EInv == SInv /\ Since

\* A step after which that still holds, and which gave no seat to another.
Keeps == Since' /\ Respects(committed.book, committed'.book)

\* And moved no money.
KeepsFunds == Keeps /\ Even(committed.book, committed'.book)

\* The instructions with loops that are no take.
Loops == {"MassQuote", "Reanchor", "ReapExpired"}

LEMMA EBook == ASSUME EInv PROVE book \in Book /\ committed.book \in Book /\ IInv /\ WindowClear(book) /\ Even(book, book)
<1>1. book \in Book /\ committed.book \in Book /\ IInv /\ WindowClear(book)
  BY SBook DEF EInv
<1> QED BY <1>1, SelfEven

LEMMA RespectsCommit ==
  ASSUME EInv, NEW b \in Book, Respects(book, b), NEW v, Commit(b, v)
  PROVE  Keeps
<1>1. book' = BumpSeq(b) /\ committed'.book = BumpSeq(b) /\ ix' = Idle
  BY DEF Commit
<1>2. Respects(b, BumpSeq(b)) /\ BumpSeq(b) \in Book
  BY BumpRespects
<1>3. Vacant(committed.book) /\ Respects(committed.book, book)
  BY DEF EInv, Since
<1>4. Respects(committed.book, BumpSeq(b))
  BY <1>2, <1>3, RespectsTrans
<1>5. Vacant(BumpSeq(b)) /\ Respects(BumpSeq(b), BumpSeq(b))
  BY <1>3, <1>4, VacantKept, RespectsSelf
<1>6. Even(BumpSeq(b), BumpSeq(b))
  BY <1>2, BookBanked, SameFundsEven
<1> QED BY <1>1, <1>4, <1>5, <1>6 DEF Keeps, Since

LEMMA EvenCommits ==
  ASSUME EInv, ix.op # "Take", NEW b, Even(book, b), SameTerms(book, b), NEW v, Commit(b, v)
  PROVE  KeepsFunds
<1>1. b \in Book /\ Respects(book, b)
  BY EvenRespects DEF Even
<1>2. Even(b, BumpSeq(b))
  BY <1>1, BumpEven
<1>3. Even(committed.book, BumpSeq(b))
  BY <1>2, EvenTrans DEF EInv, Since
<1>4. committed'.book = BumpSeq(b)
  BY DEF Commit
<1> QED BY <1>1, <1>3, <1>4, RespectsCommit DEF KeepsFunds

\* The window or the fee rate is changed, and nothing else.
LEMMA TermsCommit ==
  ASSUME EInv, ix.op # "Take", NEW b \in Book, b.seats = book.seats, b.fees = book.fees, NEW v, Commit(b, v)
  PROVE  /\ Since' /\ Even(committed.book, committed'.book)
         /\ \A s \in SeatIds : OwnerOf(committed'.book, s) = OwnerOf(committed.book, s)
<1> DEFINE d == BumpSeq(b)
<1>1. book' = d /\ committed'.book = d /\ ix' = Idle
  BY DEF Commit
<1>2. d \in Book /\ Even(b, d) /\ Respects(b, d)
  BY BumpRespects, BumpEven
<1> HIDE DEF d
<1>3. Even(book, b) /\ Even(committed.book, book)
  BY EBook DEF Even, SeatTotal, EInv, Since
<1>4. Even(committed.book, d)
  BY <1>2, <1>3, EvenTrans
<1>5. \A s \in SeatIds : OwnerOf(d, s) = OwnerOf(committed.book, s)
  BY <1>2 DEF Respects, OwnerOf, EInv, Since
<1>6. Vacant(d)
  BY <1>4, <1>5 DEF Vacant, Even, EInv, Since
<1>7. Even(d, d) /\ Respects(d, d)
  BY <1>2, BookBanked, SameFundsEven, RespectsSelf
<1> QED BY <1>1, <1>4, <1>5, <1>6, <1>7 DEF Since

\* A loop goes on.
LEMMA RespectsContinue ==
  ASSUME EInv, NEW b, Respects(book, b), NEW i, i.op = "Take", Continue(b, i)
  PROVE  Keeps
<1>1. book' = b /\ ix' = i /\ committed' = committed /\ i # Idle
  BY DEF Continue, Idle
<1>2. Respects(committed.book, b)
  BY RespectsTrans DEF EInv, Since
<1> QED BY <1>1, <1>2, RespectsSelf DEF Keeps, Since, EInv

LEMMA EvenContinues ==
  ASSUME EInv, ix.op # "Take", NEW b, Even(book, b), SameTerms(book, b), NEW i, i.op \in Loops, Continue(b, i)
  PROVE  KeepsFunds
<1>1. book' = b /\ ix' = i /\ committed' = committed /\ i # Idle /\ ix'.op # "Take"
  BY DEF Continue, Idle, Loops
<1>2. Respects(book, b)
  BY EvenRespects
<1>3. Respects(committed.book, b)
  BY <1>2, RespectsTrans DEF EInv, Since
<1>4. Even(committed.book, b)
  BY EvenTrans DEF EInv, Since
<1>5. Even(committed.book, committed.book)
  BY EBook, BookBanked, SameFundsEven
<1> QED BY <1>1, <1>3, <1>4, <1>5, RespectsSelf DEF KeepsFunds, Keeps, Since, EInv

LEMMA AbortKeeps == ASSUME EInv, Abort PROVE Keeps /\ KeepsFunds
<1>1. book' = committed.book /\ ix' = Idle /\ committed' = committed
  BY DEF Abort
<1>2. Even(committed.book, committed.book)
  BY EBook, BookBanked, SameFundsEven
<1> QED BY <1>1, <1>2, RespectsSelf DEF KeepsFunds, Keeps, Since, EInv

LEMMA KillEven ==
  ASSUME EInv, NEW n \in Links, Refundable(book, n)
  PROVE  Even(book, KillOrder(book, n)) /\ SameTerms(book, KillOrder(book, n))
BY EBook, KillOrderEven, BookTerms, OrdersTerms

LEMMA IdleLoops ==
  ASSUME NEW name, Starts(name)
  PROVE  ix.op # "Take" /\ ix = Idle
BY DEF Starts, Idle

-----------------------------------------------------------------------------
(* Seats and funds                                                         *)

\* Two payments to, or by, a seat that has an owner.
LEMMA PaysRespect ==
  ASSUME NEW b \in Book, NEW s \in SeatIds, OwnerOf(b, s) # Nobody,
         NEW a \in Assets, NEW d \in Assets, NEW x \in Int, NEW y \in Int, d # a,
         b.seats[s].free[a] + x >= 0, b.seats[s].free[d] + y >= 0
  PROVE  LET c == AddFree(AddFree(b, s, a, x), s, d, y)
         IN c \in Book /\ Respects(b, c)
<1> DEFINE e == AddFree(b, s, a, x)
           c == AddFree(e, s, d, y)
<1>1. Gets(b, e, s, a, x)
  BY AddFreeGets
<1>2. SameTerms(b, e)
  BY BookTerms, OrdersTerms
<1>3. e \in Book /\ e.seats[s].free[d] = b.seats[s].free[d]
  <2>1. e \in Book
    BY <1>1 DEF Gets
  <2>2. e.seats[s].free = [b.seats[s].free EXCEPT ![a] = b.seats[s].free[a] + x]
    <3>1. b.seats \in [SeatIds -> Seat] /\ "seats" \in DOMAIN b
      BY DEF Book
    <3>2. b.seats[s] \in Seat
      BY <3>1
    <3>3. "free" \in DOMAIN b.seats[s]
      BY <3>2 DEF Seat
    <3> QED BY <3>1, <3>3 DEF AddFree, SetFree
  <2> HIDE DEF e
  <2> QED BY <2>1, <2>2
<1> HIDE DEF e
<1>4. Gets(e, c, s, d, y)
  BY <1>3, AddFreeGets
<1>5. SameTerms(e, c)
  BY <1>3, BookTerms, OrdersTerms
<1>6. Respects(b, e)
  BY <1>1, <1>2, GetsRespects
<1>7. OwnerOf(e, s) # Nobody
  BY <1>6 DEF Respects
<1>8. Respects(e, c) /\ c \in Book
  BY <1>4, <1>5, <1>7, GetsRespects DEF Gets
<1> QED BY <1>6, <1>8, RespectsTrans DEF e

LEMMA PaysKeeps ==
  ASSUME EInv, NEW s \in SeatIds, OwnerOf(book, s) # Nobody, NEW x \in Int, NEW y \in Int,
         book.seats[s].free["base"] + x >= 0, book.seats[s].free["quote"] + y >= 0,
         NEW v, Commit(AddFree(AddFree(book, s, "base", x), s, "quote", y), v)
  PROVE  Keeps
<1> DEFINE c == AddFree(AddFree(book, s, "base", x), s, "quote", y)
<1>1. c \in Book /\ Respects(book, c)
  BY EBook, AssetsAre, PaysRespect
<1> HIDE DEF c
<1> QED BY <1>1, RespectsCommit DEF c

\* A seat handed over empty: what the action property asks of the step.
HandedOver(b, c) ==
  \A s \in SeatIds : c.seats[s].owner # b.seats[s].owner =>
    /\ \A a \in Assets : SeatTotal(b, s, a) = 0 /\ SeatTotal(c, s, a) = 0
    /\ LiveOf(b, s) = {} /\ LiveOf(c, s) = {}
    /\ c.seats[s].head = NIL /\ c.seats[s].count = 0

LEMMA HandsOver ==
  ASSUME EInv, ix = Idle, NEW s \in SeatIds, LiveOf(book, s) = {}, \A a \in Assets : SeatTotal(book, s, a) = 0,
         NEW owner, SetOrdersHead(SetOwner(book, s, owner), s, NIL) \in Book,
         NEW v, Commit(SetOrdersHead(SetOwner(book, s, owner), s, NIL), v)
  PROVE  Since' /\ HandedOver(committed.book, committed'.book)
<1> DEFINE a == SetOwner(book, s, owner)
           c == SetOrdersHead(a, s, NIL)
           d == BumpSeq(c)
<1>0. book \in Book /\ Sound(book) /\ book = committed.book /\ Vacant(book) /\ c \in Book
  BY EBook DEF EInv, Since, SInv, Structured
<1>1. SeatSet(book, a, s, "owner", owner)
  BY <1>0, BookFormed, SeatWrites
<1>2. Formed(a)
  BY <1>1 DEF SeatSet, But
<1>3. Sound(c) /\ \A r : LiveOf(c, r) = LiveOf(book, r)
  BY <1>0, HandOver
<1> HIDE DEF a
<1>4. SeatSet(a, c, s, "head", NIL)
  BY <1>2, SeatWrites
<1> HIDE DEF c
<1>5. /\ \A r \in SeatIds : r # s => c.seats[r] = book.seats[r]
      /\ c.seats[s].head = NIL /\ c.seats[s].count = book.seats[s].count
      /\ c.seats[s].free = book.seats[s].free /\ c.seats[s].locked = book.seats[s].locked
  BY <1>1, <1>4 DEF SeatSet, SeatFields
<1>6. Credited(c, d)
  BY <1>0, BookFormed, CreditsMade
<1>7. d.seats = c.seats /\ d \in Book
  BY <1>0, BumpRespects DEF BumpSeq, Book
<1>8. Sound(d) /\ \A r : LiveOf(d, r) = LiveOf(c, r)
  BY <1>0, <1>3, <1>6, CreditedSound, AlikeLives
<1> HIDE DEF d
<1>9. Cardinality({}) = 0 /\ 0 % (U16Max + 1) = 0
  BY FS_EmptySet DEF U16Max
<1>10. LiveOf(d, s) = {} /\ d.seats[s].count = 0
  BY <1>3, <1>8, <1>9 DEF Sound, Counted, CountOf
<1>11. \A r \in SeatIds, x \in Assets : SeatTotal(d, r, x) = SeatTotal(book, r, x)
  BY <1>5, <1>7 DEF SeatTotal
<1>12. HandedOver(book, d)
  <2> SUFFICES ASSUME NEW r \in SeatIds, d.seats[r].owner # book.seats[r].owner
               PROVE  /\ \A x \in Assets : SeatTotal(book, r, x) = 0 /\ SeatTotal(d, r, x) = 0
                      /\ LiveOf(book, r) = {} /\ LiveOf(d, r) = {}
                      /\ d.seats[r].head = NIL /\ d.seats[r].count = 0
    BY DEF HandedOver
  <2>1. r = s
    BY <1>5, <1>7
  <2> QED BY <1>5, <1>7, <1>10, <1>11, <2>1
<1>13. Vacant(d)
  <2> SUFFICES ASSUME NEW r \in SeatIds, OwnerOf(d, r) = Nobody, NEW x \in Assets PROVE SeatTotal(d, r, x) = 0
    BY DEF Vacant
  <2>1. CASE r = s
    BY <1>11, <2>1
  <2>2. CASE r # s
    BY <1>0, <1>5, <1>7, <1>11, <2>2 DEF Vacant, OwnerOf
  <2> QED BY <2>1, <2>2
<1>14. book' = d /\ committed'.book = d /\ ix' = Idle
  BY DEF Commit, c, d, a
<1>15. Even(d, d) /\ Respects(d, d)
  BY <1>7, BookBanked, SameFundsEven, RespectsSelf
<1> QED BY <1>0, <1>12, <1>13, <1>14, <1>15 DEF Since

LEMMA KeepsHands == ASSUME Keeps PROVE Since' /\ HandedOver(committed.book, committed'.book)
BY DEF Keeps, Respects, OwnerOf, HandedOver

LEMMA TermsHands ==
  ASSUME EInv, ix.op # "Take", NEW b \in Book, b.seats = book.seats, b.fees = book.fees, NEW v, Commit(b, v)
  PROVE  Since' /\ HandedOver(committed.book, committed'.book)
BY TermsCommit DEF OwnerOf, HandedOver

\* Custody keeps every seat with its owner, or hands over an empty one.
LEMMA CustodyHands == ASSUME EInv, CustodyNext PROVE Since' /\ HandedOver(committed.book, committed'.book)
<1>0. book \in Book /\ Sound(book) /\ (ix = Idle => book = committed.book)
  BY EBook DEF EInv, Since, SInv, Structured
<1>1. ASSUME Keeps PROVE Since' /\ HandedOver(committed.book, committed'.book)
  BY <1>1, KeepsHands
<1>2. ASSUME NEW o \in Owners, ClaimSeat(o) PROVE Since' /\ HandedOver(committed.book, committed'.book)
  <2> DEFINE s == CHOOSE f \in FreeSeats : \A g \in FreeSeats : f <= g
  <2>1. s \in FreeSeats /\ ix = Idle /\ Commit(SetOrdersHead(SetOwner(book, s, o), s, NIL), vault)
    <3>1. FreeSeats \subseteq Nat /\ FreeSeats # {}
      BY <1>2, BookAssumption DEF ClaimSeat, FreeSeats, SeatIds
    <3>2. \E f \in FreeSeats : \A g \in FreeSeats : f <= g
      BY <3>1, NatLeast
    <3> QED BY <1>2, <3>2 DEF ClaimSeat, Starts
  <2>2. s \in SeatIds /\ OwnerOf(book, s) = Nobody
    BY <2>1 DEF FreeSeats, OwnerOf
  <2> HIDE DEF s
  <2>3. LiveOf(book, s) = {}
    BY <1>0, <2>1, <2>2, LivesAre DEF Sound, Housed
  <2>4. \A a \in Assets : SeatTotal(book, s, a) = 0
    BY <1>0, <2>1, <2>2 DEF EInv, Since, Vacant
  <2>5. SetOrdersHead(SetOwner(book, s, o), s, NIL) \in Book
    BY <1>0, <2>1, <2>2, NilIsLink, SeatSetters, KeptBook
  <2> QED BY <2>1, <2>2, <2>3, <2>4, <2>5, HandsOver
<1>3. ASSUME NEW s \in SeatIds, CloseSeat(s) PROVE Since' /\ HandedOver(committed.book, committed'.book)
  <2>1. /\ ix = Idle /\ CountOf(book, s) = 0 /\ Commit(SetOrdersHead(SetOwner(book, s, Nobody), s, NIL), vault)
        /\ \A a \in Assets : book.seats[s].free[a] = 0 /\ book.seats[s].locked[a] = 0
    BY <1>3 DEF CloseSeat, Starts, CountOf
  <2>2. Capped(book)
    BY <2>1, IdleCapped DEF EInv
  <2>3. Cardinality(LiveOf(book, s)) = 0
    BY <1>0, <2>1, <2>2, CountIs DEF Sound
  <2>4. LiveOf(book, s) = {}
    BY <2>3, LivesFinite, FS_EmptySet
  <2>5. \A a \in Assets : SeatTotal(book, s, a) = 0
    BY <2>1 DEF SeatTotal
  <2>6. SetOrdersHead(SetOwner(book, s, Nobody), s, NIL) \in Book
    BY <1>0, <2>1, NilIsLink, SeatSetters, KeptBook
  <2> QED BY <2>1, <2>4, <2>5, <2>6, HandsOver
<1>4. ASSUME NEW s \in SeatIds, NEW base \in DepositAmounts, NEW quote \in DepositAmounts, Deposit(s, base, quote)
      PROVE  Keeps
  <2>1. PICK x \in Received(base), y \in Received(quote) :
          Commit(AddFree(AddFree(book, s, "base", x), s, "quote", y),
                 [vault EXCEPT !["base"] = @ + x, !["quote"] = @ + y])
    BY <1>4 DEF Deposit
  <2>2. ix = Idle /\ OwnerOf(book, s) # Nobody
    BY <1>4 DEF Deposit, Starts, Signed, OwnerOf
  <2>3. x \in Nat /\ y \in Nat
    BY CustodyAssumption, ReceivedType
  <2>4. book.seats[s].free["base"] \in Nat /\ book.seats[s].free["quote"] \in Nat
    BY <1>0, <2>2, AssetsAre, BalanceType
  <2>5. book.seats[s].free["base"] + x >= 0 /\ book.seats[s].free["quote"] + y >= 0 /\ x \in Int /\ y \in Int
    BY <2>3, <2>4
  <2> QED BY <2>1, <2>2, <2>5, PaysKeeps
<1>5. ASSUME NEW s \in SeatIds, NEW base \in WithdrawAmounts, NEW quote \in WithdrawAmounts, Withdraw(s, base, quote)
      PROVE  Keeps
  <2> DEFINE x == WithdrawOut(s, "base", base)
             y == WithdrawOut(s, "quote", quote)
  <2>1. /\ ix = Idle /\ OwnerOf(book, s) # Nobody
        /\ book.seats[s].free["base"] >= x /\ book.seats[s].free["quote"] >= y
        /\ Commit(AddFree(AddFree(book, s, "base", -x), s, "quote", -y),
                  [vault EXCEPT !["base"] = @ - x, !["quote"] = @ - y])
    BY <1>5 DEF Withdraw, Starts, Signed, OwnerOf
  <2>2. book.seats[s].free["base"] \in Nat /\ book.seats[s].free["quote"] \in Nat
    BY <1>0, <2>1, AssetsAre, BalanceType
  <2>3. x \in Nat /\ y \in Nat
    BY <2>2, CustodyAssumption DEF WithdrawOut
  <2> HIDE DEF x, y
  <2>4. /\ book.seats[s].free["base"] + (-x) >= 0 /\ book.seats[s].free["quote"] + (-y) >= 0
        /\ -x \in Int /\ -y \in Int
    BY <2>1, <2>2, <2>3
  <2> QED BY <2>1, <2>4, PaysKeeps
<1>7. ASSUME CollectFees PROVE Keeps
  <2>1. ix = Idle /\ Commit([book EXCEPT !.fees = 0], [vault EXCEPT !["quote"] = @ - book.fees])
    BY <1>7 DEF CollectFees, Starts
  <2> DEFINE c == [book EXCEPT !.fees = 0]
  <2>2. c \in Book /\ c.seats = book.seats /\ c.anchor = book.anchor /\ c.feeBps = book.feeBps
    BY <1>0, <2>1 DEF Book
  <2>3. \E v : Commit(c, v)
    BY <2>1
  <2> HIDE DEF c
  <2>4. Respects(book, c)
    BY <2>2 DEF Respects, OwnerOf, SeatTotal
  <2> QED BY <2>2, <2>3, <2>4, RespectsCommit
<1>8. ASSUME NEW rate \in FeeRates, UpdateFee(rate)
      PROVE  Since' /\ HandedOver(committed.book, committed'.book)
  <2>1. ix = Idle /\ Commit([book EXCEPT !.feeBps = rate], vault) /\ rate \in Nat
    BY <1>8, ProgramAssumption DEF UpdateFee, Starts
  <2> DEFINE c == [book EXCEPT !.feeBps = rate]
  <2>2. c \in Book /\ c.seats = book.seats /\ c.fees = book.fees /\ ix.op # "Take" /\ Commit(c, vault)
    BY <1>0, <2>1 DEF Book, Idle
  <2> HIDE DEF c
  <2> QED BY <2>2, TermsHands
<1> QED BY <1>1, <1>2, <1>3, <1>4, <1>5, <1>7, <1>8 DEF CustodyNext

-----------------------------------------------------------------------------
(* Makers                                                                  *)

LEMMA KillCommits ==
  ASSUME EInv, ix.op # "Take", NEW n \in Links, Refundable(book, n), NEW v, Commit(KillOrder(book, n), v)
  PROVE  KeepsFunds
BY KillEven, EvenCommits

LEMMA KillContinues ==
  ASSUME EInv, ix.op # "Take", NEW n \in Links, Refundable(book, n), NEW i, i.op \in Loops,
         Continue(KillOrder(book, n), i)
  PROVE  KeepsFunds
BY KillEven, EvenContinues

LEMMA CursorMoves ==
  ASSUME EInv, ix.op # "Take", NEW i, i.op \in Loops, Continue(book, i) PROVE KeepsFunds
BY EBook, BookTerms, EvenContinues

LEMMA MakerKeeps == ASSUME EInv, MakerNext PROVE KeepsFunds
<1>0. book \in Book /\ WindowClear(book)
  BY EBook
<1>1. ASSUME NEW s \in SeatIds, NEW side \in Sides, NEW tick \in InTicks, NEW lots \in InLots,
             NEW reject \in BOOLEAN, NEW expiry \in InExpiries,
             PostOnly(s, side, tick, lots, reject, expiry)
      PROVE  KeepsFunds
  <2> DEFINE c == Upsert(book, s, side, tick, lots, expiry, ~reject)
  <2>1. tick \in Nat /\ lots \in Nat /\ expiry \in Nat /\ (~reject) \in BOOLEAN
    BY MakerAssumption
  <2>2. CanUpsert(book, s, side, tick, lots, ~reject) /\ Commit(c, vault) /\ ix.op # "Take"
    BY <1>1, IdleLoops DEF PostOnly
  <2>3. Even(book, c)
    BY <1>0, <2>1, <2>2, UpsertEven
  <2>4. SameTerms(book, c)
    BY <1>0, BookTerms, UpsertTerms
  <2> HIDE DEF c
  <2> QED BY <2>2, <2>3, <2>4, EvenCommits
<1>2. ASSUME NEW s \in SeatIds, NEW side \in Sides, NEW tick \in InTicks, CancelQuote(s, side, tick)
      PROVE  KeepsFunds
  <2> DEFINE n == QuoteAt(book, s, side, tick)
  <2>1. n \in Links /\ Refundable(book, n) /\ Commit(KillOrder(book, n), vault) /\ ix.op # "Take"
    BY <1>0, <1>2, QuoteAtType, IdleLoops DEF CancelQuote
  <2> HIDE DEF n
  <2> QED BY <2>1, KillCommits
<1>3. ASSUME NEW s \in SeatIds, NEW n \in Nodes, NEW id \in CancelIds, Cancel(s, n, id) PROVE KeepsFunds
  <2>1. n \in Links /\ Refundable(book, n) /\ Commit(KillOrder(book, n), vault) /\ ix.op # "Take"
    BY <1>3, IdleLoops DEF Cancel, Nodes, Links
  <2> QED BY <2>1, KillCommits
<1>4. ASSUME NEW s \in SeatIds, NEW bids \in Payloads, NEW asks \in Payloads,
             NEW expiry \in InExpiries, BeginMassQuote(s, bids, asks, expiry)
      PROVE  KeepsFunds
  <2>1. PICK i : Continue(book, i) /\ i.op = "MassQuote"
    BY <1>4 DEF BeginMassQuote
  <2>2. ix.op # "Take" /\ i.op \in Loops
    BY <1>4, <2>1, IdleLoops DEF BeginMassQuote, Loops
  <2> QED BY <2>1, <2>2, CursorMoves
<1> QED BY <1>1, <1>2, <1>3, <1>4 DEF MakerNext

LEMMA InsertKeeps ==
  ASSUME EInv, Merging, HasQuote(ix), NEW b, Kept(book, b), Even(book, b), SameTerms(book, b),
         NEW next \in Links, NEW nextTick, MassQuoteInsert(b, next, nextTick)
  PROVE  KeepsFunds
<1> DEFINE q    == Quote(ix)
           tick == CheckOrSlideVs(b, ix.side, q.tick, ~q.reject, ix.opposing)
           n    == b.freeHead
           c    == LockAndInsert(b, ix.seat, ix.side, tick, q.lots, ix.expiry)
           d    == ChainSplice(c, ix.seat, ix.prev, next, n)
           i    == [ix EXCEPT !.prev = n, !.cur = next, !.lastUsed = tick,
                              !.lastTick = q.tick, !.qi = @ + 1]
<1>1. CASE Abort
  BY <1>1, AbortKeeps
<1>2. CASE tick # NoTick /\ CanInsert(b, ix.seat, ix.side, tick, q.lots) /\ Continue(d, i)
  <2>1. /\ ix \in MassQuoteIx /\ ix.seat \in SeatIds /\ ix.side \in Sides
        /\ ix.expiry \in Nat /\ q.tick \in Nat /\ q.lots \in Nat
        /\ ix.prev \in Links /\ IInv /\ ix.op # "Take"
    BY EBook, MergeType DEF MassQuoteIx, Merging
  <2>2. (~q.reject) \in BOOLEAN
    BY EBook, MergeType
  <2> HIDE DEF q
  <2>3. b \in Book /\ WindowClear(b) /\ n \in Links
    BY <2>1, InvGood, GoodKept DEF Good, Header, Book
  <2>4. ix.opposing = NoTick \/ InWindow(b, ix.opposing)
    BY <2>1, InvGood, GoodKept DEF IInv, Progressing, Merging
  <2>5. tick \in 0 .. TickLimit
    <3>1. InWindow(b, tick)
      BY <1>2, <2>1, <2>2, <2>3, <2>4, CheckOrSlideVsInWindow
    <3> HIDE DEF tick
    <3> QED BY <2>3, <3>1, WindowTick
  <2>6. i.op \in Loops
    BY <2>1 DEF MassQuoteIx, Loops
  <2> HIDE DEF tick
  <2>7. Even(b, c) /\ c \in Book
    BY <1>2, <2>1, <2>3, <2>5, LockAndInsertEven DEF Even
  <2>8. SameTerms(book, d)
    <3>1. SameTerms(book, c)
      BY OrdersTerms
    <3> HIDE DEF c, n
    <3> QED BY <3>1, ListsTerms
  <2> HIDE DEF n, c
  <2>9. Even(c, d)
    <3>1. d \in Book
      BY <2>1, <2>3, <2>7, ChainSpliceKept, KeptBook
    <3>2. SameFunds(c, d)
      BY <2>7, BookBanked, ListsSameFunds
    <3> QED BY <2>7, <3>1, <3>2, SameFundsEven
  <2> HIDE DEF d, i
  <2>10. Even(book, d)
    BY <2>7, <2>9, EvenTrans
  <2> QED BY <1>2, <2>1, <2>6, <2>8, <2>10, EvenContinues
<1> QED BY <1>1, <1>2 DEF MassQuoteInsert

LEMMA MergeKeeps == ASSUME EInv, MergeStep PROVE KeepsFunds
<1>0. /\ Merging /\ ix \in MassQuoteIx /\ ix.cur \in Links /\ ix.seat \in SeatIds /\ book \in Book
      /\ ix.expiry \in Nat /\ ix.op # "Take" /\ IInv
      /\ HasQuote(ix) => Quote(ix).tick \in Nat /\ Quote(ix).lots \in Nat
  <2>1. Merging
    BY DEF MergeStep, MergeRefuse, MergeCancel, MergeKeep, MergeInsert, MergeRepost, MergeAsks, MergeCommit, MergeDone
  <2> QED BY <2>1, EBook, MergeType DEF Merging
<1>1. CASE MergeRefuse
  BY <1>1, AbortKeeps DEF MergeRefuse
<1>2. CASE MergeCommit
  BY <1>0, <1>2, EBook, BookTerms, EvenCommits DEF MergeCommit
<1>3. CASE MergeInsert
  <2>1. HasQuote(ix) /\ MassQuoteInsert(book, ix.cur, IF InRegion(ix) THEN CurTick(ix) ELSE NoTick)
    BY <1>3 DEF MergeInsert
  <2>2. Kept(book, book) /\ Even(book, book) /\ SameTerms(book, book)
    BY <1>0, EBook, BookTerms, KeptSelf, SeatsKeptIsKept
  <2> QED BY <1>0, <2>1, <2>2, InsertKeeps
<1>4. CASE MergeRepost
  <2>1. /\ HasQuote(ix) /\ Refundable(book, ix.cur)
        /\ MassQuoteInsert(KillOrder(book, ix.cur), book.pool[ix.cur].makerNext, NoTick)
    BY <1>4 DEF MergeRepost
  <2>2. Kept(book, KillOrder(book, ix.cur)) /\ book.pool[ix.cur].makerNext \in Links
    BY <1>0, <2>1, KillOrderKept, NodeType
  <2>3. Even(book, KillOrder(book, ix.cur)) /\ SameTerms(book, KillOrder(book, ix.cur))
    BY <1>0, <2>1, KillEven
  <2> QED BY <1>0, <2>1, <2>2, <2>3, InsertKeeps
<1>5. CASE MergeAsks
  <2> DEFINE i == [ix EXCEPT !.side = "ask", !.qi = 0, !.lastTick = 0,
                             !.lastUsed = 0, !.opposing = BestOf(book, "bid")]
  <2>1. Continue(book, i)
    BY <1>5 DEF MergeAsks
  <2>2. i.op \in Loops
    BY <1>0 DEF MassQuoteIx, Loops
  <2> HIDE DEF i
  <2> QED BY <1>0, <2>1, <2>2, CursorMoves
<1>6. CASE MergeCancel
  <2> DEFINE i == [ix EXCEPT !.cur = book.pool[ix.cur].makerNext]
  <2>1. Continue(KillOrder(book, ix.cur), i) /\ Refundable(book, ix.cur)
    BY <1>6 DEF MergeCancel
  <2>2. i.op \in Loops
    BY <1>0 DEF MassQuoteIx, Loops
  <2> HIDE DEF i
  <2> QED BY <1>0, <2>1, <2>2, KillContinues
<1>7. CASE MergeKeep
  <2> DEFINE q  == Quote(ix)
             nd == book.pool[ix.cur]
             c  == ShrinkOrder(book, ix.seat, ix.cur, q.lots, ix.expiry)
             i  == [ix EXCEPT !.lastUsed = q.tick, !.lastTick = q.tick,
                              !.qi = @ + 1, !.prev = ix.cur, !.cur = nd.makerNext]
  <2>1. /\ Continue(c, i) /\ HasQuote(ix) /\ nd.tick = q.tick /\ q.lots <= nd.lots
        /\ nd.side = ix.side
        /\ CanUnlock(book, ix.seat, LockedAsset(ix.side),
                     LockedAtoms(ix.side, q.tick, nd.lots - q.lots))
    BY <1>7 DEF MergeKeep, InRegion
  <2>2. q.tick \in Nat /\ q.lots \in Nat
    BY <1>0, <2>1
  <2>3. i.op \in Loops
    BY <1>0 DEF MassQuoteIx, Loops
  <2> HIDE DEF q
  <2>4. Even(book, c)
    BY <1>0, <2>1, <2>2, ShrinkOrderEven
  <2>5. SameTerms(book, c)
    BY <1>0, BookTerms, OrdersTerms
  <2> HIDE DEF c, i
  <2> QED BY <1>0, <2>1, <2>3, <2>4, <2>5, EvenContinues
<1> QED BY <1>1, <1>2, <1>3, <1>4, <1>5, <1>6, <1>7 DEF MergeStep

-----------------------------------------------------------------------------
(* Hygiene                                                                 *)

LEMMA HygieneKeeps == ASSUME EInv, HygieneNext \/ HygieneStep, ~ReanchorCommit PROVE KeepsFunds
<1>1. ASSUME NEW target \in Targets, NEW max \in MaxLevels, BeginReanchor(target, max)
      PROVE  KeepsFunds
  <2>1. PICK i : Continue(book, i) /\ i.op = "Reanchor"
    BY <1>1 DEF BeginReanchor
  <2> QED BY <1>1, <2>1, IdleLoops, CursorMoves DEF BeginReanchor, Loops
<1>2. ASSUME NEW side \in Sides, NEW start \in ReapStarts, NEW max \in ReapCounts,
             BeginReap(side, start, max)
      PROVE  KeepsFunds
  <2>1. PICK i : Continue(book, i) /\ i.op = "ReapExpired"
    BY <1>2 DEF BeginReap
  <2> QED BY <1>2, <2>1, IdleLoops, CursorMoves DEF BeginReap, Loops
<1>3. CASE Reanchoring /\ HygieneStep
  <2>1. ix \in ReanchorIx /\ ix.op # "Take" /\ IInv /\ book \in Book /\ ~Reaping
    BY <1>3, EBook, ReanchorType DEF Reanchoring, Reaping
  <2>2. \A x, y : /\ [ix EXCEPT !.inWord = x].op \in Loops
                  /\ [ix EXCEPT !.evicted = x].op \in Loops
                  /\ [ix EXCEPT !.inWord = x, !.cur = y].op \in Loops
    BY <2>1 DEF ReanchorIx, Loops
  <2>3. CASE EnterWord
    BY <2>1, <2>2, <2>3, CursorMoves DEF EnterWord
  <2>4. CASE EvictOrder
    BY <2>1, <2>2, <2>4, EvictHeadType, KillContinues DEF EvictOrder
  <2>5. CASE LeaveWord
    BY <2>1, <2>2, <2>5, CursorMoves DEF LeaveWord
  <2> QED BY <1>3, <2>1, <2>3, <2>4, <2>5
          DEF HygieneStep, ReapEnter, ReapSkip, ReapKill, ReapCommit
<1>4. CASE Reaping /\ HygieneStep
  <2>1. ix \in ReapIx /\ ix.op # "Take" /\ IInv /\ ~Reanchoring /\ ix.cur \in Links
    BY <1>4, EBook, ReapType DEF Reanchoring, Reaping
  <2>2. \A x, y : /\ [ix EXCEPT !.tick = x, !.cur = y].op \in Loops
                  /\ [ix EXCEPT !.cur = x].op \in Loops
                  /\ [ix EXCEPT !.reaped = x, !.cur = y].op \in Loops
    BY <2>1 DEF ReapIx, Loops
  <2>3. CASE ReapEnter
    BY <2>1, <2>2, <2>3, CursorMoves DEF ReapEnter
  <2>4. CASE ReapSkip
    BY <2>1, <2>2, <2>4, CursorMoves DEF ReapSkip
  <2>5. CASE ReapKill
    <3> DEFINE i == [ix EXCEPT !.reaped = ix.reaped + 1, !.cur = book.pool[ix.cur].next]
    <3>1. /\ Refundable(book, ix.cur)
          /\ Commit(KillOrder(book, ix.cur), vault) \/ Continue(KillOrder(book, ix.cur), i)
      BY <2>5 DEF ReapKill
    <3>2. i.op \in Loops
      BY <2>2
    <3> HIDE DEF i
    <3> QED BY <2>1, <3>1, <3>2, KillCommits, KillContinues
  <2>6. CASE ReapCommit
    BY <2>1, <2>6, EBook, BookTerms, EvenCommits DEF ReapCommit
  <2> QED BY <1>4, <2>1, <2>3, <2>4, <2>5, <2>6
          DEF HygieneStep, EnterWord, EvictOrder, LeaveWord, ReanchorCommit
<1> QED BY <1>1, <1>2, <1>3, <1>4
        DEF HygieneNext, HygieneStep, EnterWord, EvictOrder, LeaveWord, ReanchorCommit,
            ReapEnter, ReapSkip, ReapKill, ReapCommit

\* The window's move is what reanchor commits, on top of its evictions.
LEMMA ReanchorHands ==
  ASSUME EInv, ReanchorCommit
  PROVE  /\ Since' /\ HandedOver(committed.book, committed'.book)
         /\ Even(committed.book, committed'.book) /\ committed'.book.feeBps = committed.book.feeBps
         /\ \A s \in SeatIds : OwnerOf(committed'.book, s) = OwnerOf(committed.book, s)
<1> DEFINE c == [book EXCEPT !.anchor = ix.cur]
<1>1. Reanchoring /\ IInv /\ book \in Book
  BY EBook DEF ReanchorCommit
<1>2. Commit(c, vault) /\ ix.cur \in Nat /\ ix.op # "Take"
  BY <1>1, ReanchorType DEF ReanchorCommit, Reanchoring
<1>3. c \in Book /\ c.fees = book.fees /\ c.seats = book.seats /\ c.feeBps = book.feeBps
  BY <1>1, <1>2 DEF Book
<1> HIDE DEF c
<1>4. committed'.book.feeBps = c.feeBps
  BY <1>2, <1>3, BumpRespects DEF Commit, Respects
<1>5. book.feeBps = committed.book.feeBps
  BY DEF EInv, Since, Respects
<1> QED BY <1>2, <1>3, <1>4, <1>5, TermsCommit, TermsHands

-----------------------------------------------------------------------------
(* Takes                                                                   *)

LEMMA TakerKeeps == ASSUME EInv, TakerNext PROVE Keeps
<1>0. Respects(book, book)
  BY RespectsSelf
<1>1. ASSUME NEW s \in SeatIds, NEW side \in Sides, NEW limit \in InTicks, NEW lots \in InLots,
             NEW policy \in Policies, NEW expiry \in InExpiries,
             BeginPlaceLimit(s, side, limit, lots, policy, expiry)
      PROVE  Keeps
  <2>1. PICK i : Continue(book, i) /\ i.op = "Take"
    BY <1>1 DEF BeginPlaceLimit, Take
  <2> QED BY <1>0, <2>1, RespectsContinue
<1>2. ASSUME NEW s \in SeatIds, NEW side \in Sides, NEW limit \in InTicks, NEW lots \in TakeLots,
             NEW minOut \in MinOuts, NEW policy \in Policies,
             BeginPlaceTake(s, side, limit, lots, minOut, policy)
      PROVE  Keeps
  <2>1. PICK i : Continue(book, i) /\ i.op = "Take"
    BY <1>2 DEF BeginPlaceTake, Take
  <2> QED BY <1>0, <2>1, RespectsContinue
<1>3. ASSUME NEW side \in Sides, NEW limit \in InTicks, NEW amount \in SwapAmounts,
             NEW minOut \in MinOuts, BeginSwap(side, limit, amount, minOut)
      PROVE  Keeps
  <2>1. PICK delta \in Received(amount) : SwapWith(side, limit, delta, minOut)
    BY <1>3 DEF BeginSwap
  <2>2. book' = book /\ committed' = committed /\ ix'.op = "Take" /\ ix' # Idle
    BY <2>1 DEF SwapWith, Take, Idle
  <2> QED BY <2>2, RespectsSelf DEF Keeps, Since, EInv
<1> QED BY <1>1, <1>2, <1>3 DEF TakerNext

\* A fill takes from its maker and pays it.
LEMMA FillRespects ==
  ASSUME NEW b \in Book, NEW side \in Sides, NEW tick \in Nat, NEW n \in Links,
         NEW lots \in Nat, lots <= b.pool[n].lots, OwnerOf(b, b.pool[n].maker) # Nobody,
         CanUnlock(b, b.pool[n].maker, LockedAsset(side), LockedAtoms(side, tick, lots))
  PROVE  Respects(b, FillOrder(b, side, tick, n, lots))
<1> DEFINE s       == b.pool[n].maker
           paid    == LockedAsset(side)
           got     == LockedAsset(Opposite(side))
           out     == LockedAtoms(side, tick, lots)
           in      == LockedAtoms(Opposite(side), tick, lots)
           settled == SettleMaker(b, side, tick, n, lots)
           d       == FillOrder(b, side, tick, n, lots)
<1>1. \E c : Gets(b, c, s, paid, -out) /\ Gets(c, settled, s, got, in)
  BY SettleMakerGets
<1>2. d = IF lots = b.pool[n].lots THEN ChainUnlink(FifoUnlink(settled, side, n), n)
          ELSE AddLots(SetLots(settled, n, b.pool[n].lots - lots), Slot(tick), -lots)
  BY DEF FillOrder
<1>3. d \in Book
  BY FillOrderKept, KeptBook
<1>4. SameTerms(b, d)
  BY BookTerms, OrdersTerms
<1> HIDE DEF s, paid, got, out, in, settled, d
<1>5. PICK c : Gets(b, c, s, paid, -out) /\ Gets(c, settled, s, got, in)
  BY <1>1
<1>6. settled \in Book /\ c \in Book
  BY <1>5 DEF Gets
<1>7. SameFunds(settled, d)
  <2>1. SameFunds(settled, settled)
    BY <1>6, BookBanked
  <2>2. SameFunds(settled, AddLots(SetLots(settled, n, b.pool[n].lots - lots), Slot(tick), -lots))
    BY <2>1, SettersSameFunds
  <2>3. SameFunds(settled, FifoUnlink(settled, side, n))
    BY <2>1, ListsSameFunds
  <2>4. SameFunds(settled, ChainUnlink(FifoUnlink(settled, side, n), n))
    BY <2>3, ListsSameFunds
  <2> QED BY <1>2, <2>2, <2>4
<1>8. Even(settled, d)
  BY <1>3, <1>6, <1>7, SameFundsEven
<1>9. ASSUME NEW r \in SeatIds, r # s, NEW a \in Assets PROVE SeatTotal(d, r, a) = SeatTotal(b, r, a)
  <2>1. SeatTotal(c, r, a) = SeatTotal(b, r, a) + 0
    BY <1>5, <1>9 DEF Gets
  <2>2. SeatTotal(settled, r, a) = SeatTotal(c, r, a) + 0
    BY <1>5, <1>9 DEF Gets
  <2>3. SeatTotal(b, r, a) \in Nat /\ SeatTotal(d, r, a) = SeatTotal(settled, r, a)
    BY <1>8, SeatTotalType DEF Even
  <2> QED BY <2>1, <2>2, <2>3
<1>10. ASSUME NEW r \in SeatIds
       PROVE  /\ OwnerOf(d, r) = OwnerOf(b, r)
              /\ OwnerOf(b, r) = Nobody => \A a \in Assets : SeatTotal(d, r, a) = SeatTotal(b, r, a)
  <2>1. OwnerOf(d, r) = OwnerOf(b, r)
    BY <1>4 DEF SameTerms, OwnerOf
  <2>2. OwnerOf(b, r) = Nobody => r # s
    BY DEF s
  <2> QED BY <1>9, <2>1, <2>2
<1>11. d.anchor = b.anchor /\ d.feeBps = b.feeBps
  BY <1>4 DEF SameTerms
<1> QED BY <1>10, <1>11 DEF Respects, d

\* Whoever has an order has a seat.
LEMMA MakersHoused ==
  ASSUME EInv, NEW n \in Live(book) PROVE OwnerOf(book, book.pool[n].maker) # Nobody
<1>1. Housed(book)
  BY DEF EInv, SInv, Structured, Sound
<1> QED BY <1>1 DEF Housed, MakerOf

LEMMA AccruedTerms ==
  ASSUME IInv, Taking
  PROVE  /\ Accrued(book, ix) \in Book /\ Accrued(book, ix).seats = book.seats
         /\ Accrued(book, ix).anchor = book.anchor /\ Accrued(book, ix).feeBps = book.feeBps
<1>1. book \in Book
  BY InvGood DEF Good
<1>2. SameTerms(book, Accrued(book, ix))
  BY <1>1, BookTerms, SettleTerms
<1> QED BY <1>2, AccruedGood DEF SameTerms, Good

\* The taker pays, if it can, and is paid.
LEMMA SettleRespects ==
  ASSUME EInv, Taking, ix.kind # "Swap", SeatPays(Accrued(book, ix), ix)
  PROVE  /\ SettleTaker(Accrued(book, ix), ix) \in Book
         /\ Respects(book, SettleTaker(Accrued(book, ix), ix))
<1> DEFINE b    == Accrued(book, ix)
           base == BaseLotSize * ix.lots
           s    == ix.seat
           paid == ix.quote + ix.fee
           got  == ix.quote - ix.fee
           c    == SettleTaker(b, ix)
<1>0. IInv /\ book \in Book
  BY EBook
<1>1. /\ s \in SeatIds /\ paid \in Nat /\ got \in Nat /\ base \in Nat
      /\ ix.quote \in Nat /\ ix.fee \in Nat
  BY <1>0, TakeType, Products, BookAssumption
<1>2. b \in Book /\ b.seats = book.seats /\ b.anchor = book.anchor /\ b.feeBps = book.feeBps
  BY <1>0, AccruedTerms DEF Good
<1>3. b.seats[s].free["base"] \in Nat /\ b.seats[s].free["quote"] \in Nat
  BY <1>1, <1>2, AssetsAre, BalanceType
<1>4. OwnerOf(b, s) # Nobody
  BY <1>2 DEF EInv, SInv, Structured, Working, Taking, OwnerOf
<1>5. Respects(book, b)
  BY <1>2 DEF Respects, OwnerOf, SeatTotal
<1>6. SeatPays(b, ix)
  OBVIOUS
<1>7. CASE ix.side = "bid"
  <2>1. b.seats[s].free["quote"] >= paid
    BY <1>6, <1>7 DEF SeatPays
  <2>2. c = AddFree(AddFree(b, s, "quote", -paid), s, "base", base)
    BY <1>7 DEF SettleTaker
  <2> HIDE DEF b, base, s, paid, c
  <2>3. b.seats[s].free["quote"] + (-paid) >= 0 /\ b.seats[s].free["base"] + base >= 0
        /\ -paid \in Int /\ base \in Int
    BY <1>1, <1>3, <2>1
  <2>4. c \in Book /\ Respects(b, c)
    BY <1>1, <1>2, <1>4, <2>2, <2>3, AssetsAre, PaysRespect
  <2> QED BY <1>5, <2>4, RespectsTrans DEF b, c
<1>8. CASE ix.side # "bid"
  <2>1. b.seats[s].free["base"] >= base
    BY <1>6, <1>8 DEF SeatPays
  <2>2. c = AddFree(AddFree(b, s, "base", -base), s, "quote", got)
    BY <1>8 DEF SettleTaker
  <2> HIDE DEF b, base, s, got, c
  <2>3. b.seats[s].free["base"] + (-base) >= 0 /\ b.seats[s].free["quote"] + got >= 0
        /\ -base \in Int /\ got \in Int
    BY <1>1, <1>3, <2>1
  <2>4. c \in Book /\ Respects(b, c)
    BY <1>1, <1>2, <1>4, <2>2, <2>3, AssetsAre, PaysRespect
  <2> QED BY <1>5, <2>4, RespectsTrans DEF b, c
<1> QED BY <1>7, <1>8

LEMMA EndPlaceKeeps == ASSUME EInv, EndPlaceLimit \/ EndPlaceTake PROVE Keeps
<1> DEFINE acc  == Accrued(book, ix)
           paid == SettleTaker(acc, ix)
           rest == Remaining(ix)
           done == Upsert(paid, ix.seat, ix.side, ix.limit, rest, ix.expiry, FALSE)
<1>0. Taking /\ ix.kind # "Swap" /\ IInv /\ Good(acc)
  BY EBook, AccruedGood DEF EndPlaceLimit, EndPlaceTake, TakeOver
<1>1. CASE Abort
  BY <1>1, AbortKeeps
<1>2. CASE SeatPays(acc, ix) /\ Commit(paid, vault)
  BY <1>0, <1>2, SettleRespects, RespectsCommit
<1>3. CASE /\ SeatPays(acc, ix) /\ Commit(done, vault)
           /\ CanUpsert(paid, ix.seat, ix.side, ix.limit, rest, FALSE)
  <2>1. Good(paid) /\ Respects(book, paid) /\ paid \in Book
    BY <1>0, <1>3, SettleTakerGood, SettleRespects
  <2> HIDE DEF paid
  <2>2. /\ ix.seat \in SeatIds /\ ix.side \in Sides /\ ix.limit \in Nat /\ rest \in Nat
        /\ ix.expiry \in Nat
    BY <1>0, TakeType DEF Remaining
  <2>3. Even(paid, done)
    BY <1>3, <2>1, <2>2, UpsertEven DEF Good, Header
  <2>4. SameTerms(paid, done)
    BY <2>1, BookTerms, UpsertTerms
  <2> HIDE DEF done
  <2>5. done \in Book /\ Respects(book, done)
    BY <2>1, <2>3, <2>4, EvenRespects, RespectsTrans DEF Even
  <2> QED BY <1>3, <2>5, RespectsCommit
<1> QED BY <1>1, <1>2, <1>3 DEF EndPlaceLimit, EndPlaceTake

LEMMA TakeKeeps == ASSUME EInv, TakeStep PROVE Keeps
<1>0. Taking /\ IInv /\ book \in Book
  BY EBook DEF TakeStep, TakeExpired, TakeOwn, TakeFill, EndPlaceLimit, EndPlaceTake, EndSwap, TakeOver
<1>1. ASSUME AtOrder(ix), Refundable(book, TakeHead(book, ix)),
             Continue(KillOrder(book, TakeHead(book, ix)), [ix EXCEPT !.at = TakeLevel(book, ix)])
      PROVE  Keeps
  <2> DEFINE c == KillOrder(book, TakeHead(book, ix))
             t == TakeLevel(book, ix)
             i == [ix EXCEPT !.at = t]
  <2>1. Respects(book, c)
    BY <1>0, <1>1, TakeHeadType, KillEven, EvenRespects
  <2>2. i.op = "Take"
    <3>1. ix \in TakeIx
      BY <1>0, TakeType
    <3> HIDE DEF t
    <3> QED BY <3>1 DEF TakeIx
  <2> HIDE DEF c, i
  <2> QED BY <1>1, <2>1, <2>2, RespectsContinue DEF c, i
<1>2. CASE TakeExpired
  BY <1>1, <1>2 DEF TakeExpired
<1>3. CASE TakeOwn
  BY <1>1, <1>3, AbortKeeps DEF TakeOwn
<1>4. CASE TakeFill
  <2> DEFINE tick     == TakeLevel(book, ix)
             head     == TakeHead(book, ix)
             fill     == FillLots(book, ix)
             notional == Notional(tick, fill)
             side     == BookSide(ix)
             fee      == FeeOn(book, notional)
             c        == FillOrder(book, side, tick, head, fill)
             i        == [ix EXCEPT !.at = tick, !.lots = @ + fill, !.quote = @ + notional,
                                    !.fee = @ + fee]
  <2>1. /\ AtOrder(ix) /\ fill > 0 /\ Continue(c, i)
        /\ CanUnlock(book, book.pool[head].maker, LockedAsset(side), LockedAtoms(side, tick, fill))
    BY <1>4 DEF TakeFill
  <2>2. side \in Sides /\ head \in Links /\ tick \in Nat
    BY <1>0, <2>1, TakeHeadType
  <2>3. fill \in Nat /\ fill <= book.pool[head].lots
    BY <1>0, <2>1, FillLotsType
  <2>4. OwnerOf(book, book.pool[head].maker) # Nobody
    BY <1>0, <2>1, TakeHeadLive, MakersHoused DEF EInv
  <2>5. ix \in TakeIx
    BY <1>0, TakeType
  <2> HIDE DEF side, head, tick, fill
  <2>6. Respects(book, c)
    BY <1>0, <2>1, <2>2, <2>3, <2>4, FillRespects
  <2> HIDE DEF notional, fee
  <2>7. i.op = "Take"
    BY <2>5 DEF TakeIx
  <2> HIDE DEF c, i
  <2> QED BY <2>1, <2>6, <2>7, RespectsContinue
<1>5. CASE EndSwap
  <2>1. /\ Accrued(book, ix) \in Book /\ Accrued(book, ix).seats = book.seats
        /\ Accrued(book, ix).anchor = book.anchor /\ Accrued(book, ix).feeBps = book.feeBps
    BY <1>0, AccruedTerms
  <2>2. Respects(book, Accrued(book, ix))
    BY <2>1 DEF Respects, OwnerOf, SeatTotal
  <2>3. Abort \/ \E v : Commit(Accrued(book, ix), v)
    BY <1>5 DEF EndSwap
  <2> QED BY <2>1, <2>2, <2>3, AbortKeeps, RespectsCommit
<1> QED BY <1>2, <1>3, <1>4, <1>5, EndPlaceKeeps DEF TakeStep

-----------------------------------------------------------------------------
\* Every step keeps what is known of the seats, and hands over empty ones.
LEMMA ENext == ASSUME EInv, [Next]_vars PROVE EInv' /\ HandedOver(committed.book, committed'.book)
<1> SUFFICES Since' /\ HandedOver(committed.book, committed'.book)
  BY StructNext DEF EInv
<1>2. ASSUME Keeps \/ KeepsFunds PROVE Since' /\ HandedOver(committed.book, committed'.book)
  BY <1>2, KeepsHands DEF KeepsFunds
<1>3. CASE NextSlot \/ Refused \/ UNCHANGED vars
  <2>1. book' = book /\ ix' = ix /\ committed' = committed
    BY <1>3 DEF NextSlot, Refused, vars
  <2> QED BY <1>2, <2>1, RespectsSelf DEF Keeps, Since, EInv
<1>4. CASE CustodyNext
  BY <1>4, CustodyHands
<1>5. CASE MakerNext \/ TakerNext \/ HygieneNext \/ Step
  BY <1>2, <1>5, MakerKeeps, TakerKeeps, HygieneKeeps, ReanchorHands, MergeKeeps, TakeKeeps DEF Step
<1> QED BY <1>3, <1>4, <1>5 DEF Next

LEMMA EInit == ASSUME FreedSeq \notin CancelIds, Init PROVE EInv
<1>1. PICK rate : book = StartBook(rate) /\ committed.book = book /\ ix = Idle
  BY DEF Init
<1>2. SInv
  BY StructInit
<1>3. book \in Book
  BY <1>2, SBook
<1>4. Vacant(book)
  <2> SUFFICES ASSUME NEW s \in SeatIds, OwnerOf(book, s) = Nobody, NEW a \in Assets
               PROVE  SeatTotal(book, s, a) = 0
    BY DEF Vacant
  <2>1. book.seats[s] = StartSeat(s)
    BY <1>1 DEF StartBook
  <2>2. s \notin Seated
    <3>1. (CHOOSE o \in Owners : TRUE) \in Owners /\ Nobody \notin Owners
      BY BookAssumption, ProgramAssumption
    <3> QED BY <2>1, <3>1 DEF StartSeat, OwnerOf
  <2> QED BY <2>1, <2>2 DEF StartSeat, SeatTotal
<1>5. Even(book, book)
  BY <1>3, BookBanked, SameFundsEven
<1> QED BY <1>1, <1>2, <1>4, <1>5, RespectsSelf DEF EInv, Since

\* A seat changes hands empty (claim_seat, close_seat), whatever was done with
\* it before, and no other step hands one over.
THEOREM SeatsHandedOver == ASSUME FreedSeq \notin CancelIds PROVE Spec => SeatsHandedOverEmpty
<1> DEFINE A ==
      \A s \in SeatIds : New.seats[s].owner # Old.seats[s].owner =>
        /\ \A a \in Assets : SeatTotal(Old, s, a) = 0 /\ SeatTotal(New, s, a) = 0
        /\ LiveOf(Old, s) = {} /\ LiveOf(New, s) = {}
        /\ New.seats[s].head = NIL /\ New.seats[s].count = 0
<1>1. EInv /\ [Next]_vars => EInv' /\ [A]_committed
  BY ENext DEF HandedOver, Old, New
<1>2. Init => EInv
  BY EInit
<1>3. Spec => [][A]_committed
  BY <1>1, <1>2, PTL DEF Spec
<1> QED BY <1>3 DEF SeatsHandedOverEmpty

-----------------------------------------------------------------------------
(* A cancel                                                                *)

\* Book c has every seat but s as b has it, and is written like a book.
Beside(b, c, s) ==
  /\ "seats" \in DOMAIN c /\ SeatIds \subseteq DOMAIN c.seats
  /\ \A r \in SeatIds : r # s => c.seats[r] = b.seats[r]

LEMMA SettersBeside ==
  ASSUME NEW a, NEW b, NEW s, Beside(a, b, s), NEW x, NEW y
  PROVE  /\ Beside(a, SetOrdersHead(b, s, x), s) /\ Beside(a, SetOrderCount(b, s, x), s)
         /\ Beside(a, SetFree(b, s, x, y), s) /\ Beside(a, SetLocked(b, s, x, y), s)
         /\ Beside(a, SetNext(b, x, y), s) /\ Beside(a, SetSeq(b, x, y), s)
         /\ Beside(a, SetMakerPrev(b, x, y), s) /\ Beside(a, SetMakerNext(b, x, y), s)
         /\ Beside(a, SetLots(b, x, y), s)
         /\ Beside(a, SetFreeHead(b, x), s) /\ Beside(a, SetFreeCount(b, x), s)
<1>1. Beside(a, SetOrdersHead(b, s, x), s) /\ Beside(a, SetOrderCount(b, s, x), s)
  BY DEF Beside, SetOrdersHead, SetOrderCount
<1>2. Beside(a, SetFree(b, s, x, y), s) /\ Beside(a, SetLocked(b, s, x, y), s)
  BY DEF Beside, SetFree, SetLocked
<1>3. /\ Beside(a, SetNext(b, x, y), s) /\ Beside(a, SetSeq(b, x, y), s)
      /\ Beside(a, SetMakerPrev(b, x, y), s) /\ Beside(a, SetMakerNext(b, x, y), s)
      /\ Beside(a, SetLots(b, x, y), s)
  BY DEF Beside, SetNext, SetSeq, SetMakerPrev, SetMakerNext, SetLots
<1>4. Beside(a, SetFreeHead(b, x), s) /\ Beside(a, SetFreeCount(b, x), s)
  BY DEF Beside, SetFreeHead, SetFreeCount
<1> QED BY <1>1, <1>2, <1>3, <1>4

\* An order that ends writes its maker's seat and no other.
LEMMA KillBeside ==
  ASSUME NEW b \in Book, NEW n \in Nodes
  PROVE  \A r \in SeatIds : r # MakerOf(b, n) => KillOrder(b, n).seats[r] = b.seats[r]
<1> DEFINE nd == b.pool[n]
           s  == nd.maker
           b2 == FifoUnlink(b, nd.side, n)
           b3 == Unlock(b2, s, LockedAsset(nd.side), LockedAtoms(nd.side, nd.tick, nd.lots))
           b4 == ChainBypass(b3, n)
           b5 == SetOrderCount(b4, s, (b3.seats[s].count + U16Max) % (U16Max + 1))
<1>1. Formed(b) /\ Linked(b, n) /\ Chained(b, n) /\ nd.side \in Sides
  BY BookLinked
<1>2. n \in Links
  BY BookAssumption DEF Nodes, Links
<1>3. Unlisted(b, b2, nd.side, n)
  BY <1>1, <1>2, FifoUnlinkEffect
<1>4. Formed(b2) /\ b2.seats = b.seats /\ b2.pool[n].maker = s
  BY <1>2, <1>3 DEF Unlisted, But, BookFields, ListPast, NodeFields
<1>5. KillOrder(b, n) = ChainUnlink(b3, n)
  BY DEF KillOrder
<1>6. b3.pool = b2.pool
  <2> HIDE DEF b2
  <2> QED BY <1>1, <1>4, PaymentsPaid DEF Chained, Paid, But, BookFields
<1>7. Beside(b, b3, s)
  <2> HIDE DEF b2
  <2>1. Beside(b, b2, s)
    BY <1>4 DEF Beside, Formed, BookFields, SeatFields
  <2>2. \A x, y, z, w : Beside(b, SetFree(SetLocked(b2, s, x, y), s, z, w), s)
    BY SMTT(30), <2>1, SettersBeside
  <2> QED BY <2>2 DEF Unlock
<1>8. ChainUnlink(b3, n) = FreeNode(b5, n)
  BY <1>4, <1>6 DEF ChainUnlink
<1>9. b3.pool[n].maker = s
  BY <1>4, <1>6
<1> HIDE DEF b3
<1>10. Beside(b, b4, s)
  <2>1. \A c, x, y : Beside(b, c, s) => Beside(b, SetMakerPrev(c, x, y), s) /\ Beside(b, SetMakerNext(c, x, y), s)
    BY SettersBeside
  <2>2. \A x : Beside(b, SetOrdersHead(b3, s, x), s)
    BY <1>7, SettersBeside
  <2> QED BY <1>7, <1>9, <2>1, <2>2 DEF ChainBypass
<1> HIDE DEF b4
<1>11. Beside(b, b5, s)
  BY <1>10, SettersBeside
<1> HIDE DEF b5
<1>12. Beside(b, FreeNode(b5, n), s)
  <2>1. \A x : Beside(b, SetNext(b5, n, x), s)
    BY <1>11, SettersBeside
  <2>2. \A x : Beside(b, SetSeq(SetNext(b5, n, x), n, FreedSeq), s)
    BY <2>1, SettersBeside
  <2>3. \A x : Beside(b, SetLots(SetSeq(SetNext(b5, n, x), n, FreedSeq), n, 0), s)
    BY <2>2, SettersBeside
  <2>4. \A x : Beside(b, SetFreeHead(SetLots(SetSeq(SetNext(b5, n, x), n, FreedSeq), n, 0), n), s)
    BY <2>3, SettersBeside
  <2>5. \A x, y : Beside(b, SetFreeCount(SetFreeHead(SetLots(SetSeq(SetNext(b5, n, x), n, FreedSeq), n, 0), n), y), s)
    BY <2>4, SettersBeside
  <2> QED BY <2>5 DEF FreeNode
<1> QED BY <1>5, <1>8, <1>12 DEF Beside, MakerOf

\* What an order that ended leaves of the others.
LEMMA KillRest ==
  ASSUME NEW b \in Book, Sound(b), NEW n \in Live(b)
  PROVE  LET c == KillOrder(b, n)
         IN /\ Live(c) = Live(b) \ {n}
            /\ \A m \in Live(b) : m # n => \A g \in OrderFields : c.pool[m][g] = b.pool[m][g]
<1> DEFINE c == KillOrder(b, n)
<1>1. Ended(b, c, n)
  BY KillSound
<1> HIDE DEF c
<1>2. Live(c) = Live(b) \ {n}
  BY <1>1, LiveNodes, BookAssumption, EndedRead
<1>3. \A m \in Links \ {n} : \A g \in OrderFields : c.pool[m][g] = b.pool[m][g]
  BY <1>1 DEF Ended, PoolEnded
<1> QED BY <1>2, <1>3, LiveNodes DEF c, Nodes, Links

\* What the property asks of a cancel.
CancelledOne(b, c, s, n, id) ==
  /\ {b.pool[m].seq : m \in Live(b)} \ {id} = {c.pool[m].seq : m \in Live(c)}
  /\ \A m \in Live(b) : m # n => /\ IsLive(c, m) /\ c.pool[m].seq = b.pool[m].seq
                                 /\ c.pool[m].lots = b.pool[m].lots
  /\ \A r \in SeatIds : /\ \A a \in Assets : SeatTotal(c, r, a) = SeatTotal(b, r, a)
                        /\ r # s => c.seats[r] = b.seats[r]

\* While ids are not reused, two live orders have two.
LEMMA IdsApart ==
  ASSUME NEW b, Sound(b), MaxOrderIds <= FreedSeq, NEW m \in Live(b), NEW n \in Live(b), SeqOf(b, m) = SeqOf(b, n)
  PROVE  m = n
<1>1. PICK r : Dated(b, r)
  BY DEF Sound, Listed
<1>2. r[m] = SeqOf(b, m) /\ r[n] = SeqOf(b, n)
  BY <1>1 DEF Dated
<1> QED BY <1>1, <1>2 DEF Dated

LEMMA CancelOne ==
  ASSUME EInv, MaxOrderIds <= FreedSeq, NEW s \in SeatIds, NEW n \in Nodes, NEW id \in CancelIds, Cancel(s, n, id)
  PROVE  CancelledOne(committed.book, committed'.book, s, n, id)
<1> DEFINE b == book
           c == KillOrder(b, n)
           d == BumpSeq(c)
<1>0. b \in Book /\ Sound(b) /\ ix = Idle /\ committed.book = b
  BY EBook DEF EInv, Since, SInv, Structured, Cancel, Starts
<1>1. /\ b.pool[n].seq = id /\ b.pool[n].maker = s /\ Refundable(b, n) /\ Commit(c, vault)
      /\ id # FreedSeq
  BY DEF Cancel, EInv, SInv
<1>2. n \in Live(b) /\ n \in Links
  BY <1>1 DEF Live, IsLive, Nodes, Links
<1>3. Even(b, c) /\ c \in Book
  BY <1>1, <1>2, KillEven DEF Even
<1>4. /\ Live(c) = Live(b) \ {n}
      /\ \A m \in Live(b) : m # n => c.pool[m].seq = b.pool[m].seq /\ c.pool[m].lots = b.pool[m].lots
  BY <1>0, <1>2, KillRest DEF OrderFields
<1>5. \A r \in SeatIds : r # s => c.seats[r] = b.seats[r]
  BY <1>0, <1>1, KillBeside DEF MakerOf
<1>6. committed'.book = d
  BY <1>1 DEF Commit
<1> HIDE DEF c
<1>7. d.pool = c.pool /\ d.seats = c.seats
  BY <1>3 DEF BumpSeq, Book
<1>8. Live(d) = Live(c)
  BY <1>7 DEF Live, IsLive
<1>9. {b.pool[m].seq : m \in Live(b)} \ {id} = {d.pool[m].seq : m \in Live(d)}
  <2>1. \A m \in Live(b) : b.pool[m].seq = id => m = n
    BY <1>0, <1>1, <1>2, IdsApart DEF SeqOf
  <2> QED BY <1>1, <1>4, <1>7, <1>8, <2>1
<1>10. \A m \in Live(b) : m # n => IsLive(d, m) /\ d.pool[m].seq = b.pool[m].seq /\ d.pool[m].lots = b.pool[m].lots
  BY <1>4, <1>7 DEF Live, IsLive
<1>11. \A r \in SeatIds : \A a \in Assets : SeatTotal(d, r, a) = SeatTotal(b, r, a)
  BY <1>3, <1>7 DEF Even, SeatTotal
<1> QED BY <1>0, <1>5, <1>6, <1>7, <1>9, <1>10, <1>11 DEF CancelledOne, b

\* Cancel by id (cancel_order): it ends the order of that id and no other, on
\* every market whose id counter does not come round, and returns its lock.
THEOREM CancelsExactly ==
  ASSUME FreedSeq \notin CancelIds, MaxOrderIds <= FreedSeq PROVE Spec => CancelExact
<1> DEFINE A ==
      \A s \in SeatIds, n \in Nodes, id \in CancelIds :
        Cancel(s, n, id) =>
          /\ {Old.pool[m].seq : m \in Live(Old)} \ {id}
               = {New.pool[m].seq : m \in Live(New)}
          /\ \A m \in Live(Old) : m # n => Survives(m) /\ Gone(m) = 0
          /\ \A r \in SeatIds, a \in Assets :
               /\ SeatTotal(New, r, a) = SeatTotal(Old, r, a)
               /\ r # s => New.seats[r] = Old.seats[r]
<1>1. ASSUME EInv PROVE A
  <2> SUFFICES ASSUME NEW s \in SeatIds, NEW n \in Nodes, NEW id \in CancelIds, Cancel(s, n, id)
               PROVE  /\ {Old.pool[m].seq : m \in Live(Old)} \ {id} = {New.pool[m].seq : m \in Live(New)}
                      /\ \A m \in Live(Old) : m # n => Survives(m) /\ Gone(m) = 0
                      /\ \A r \in SeatIds, a \in Assets :
                           /\ SeatTotal(New, r, a) = SeatTotal(Old, r, a)
                           /\ r # s => New.seats[r] = Old.seats[r]
    OBVIOUS
  <2>1. CancelledOne(Old, New, s, n, id)
    BY <1>1, CancelOne DEF Old, New
  <2>2. \A m \in Live(Old) : Old.pool[m].lots \in Nat
    BY <1>1, EBook, NodeType DEF Old, Live, Nodes, Links
  <2> HIDE DEF Old, New
  <2>3. \A m \in Live(Old) : m # n => Survives(m) /\ Gone(m) = 0
    BY <2>1, <2>2 DEF CancelledOne, Survives, Gone
  <2> QED BY <2>1, <2>3 DEF CancelledOne
<1>2. EInv /\ [Next]_vars => EInv' /\ [A]_committed
  BY <1>1, ENext
<1>3. Init => EInv
  BY EInit
<1>4. Spec => [][A]_committed
  BY <1>2, <1>3, PTL DEF Spec
<1> QED BY <1>4 DEF CancelExact

-----------------------------------------------------------------------------
(* A reanchor                                                              *)

\* c's live orders are some of b's, as they were.
Thinned(b, c) ==
  /\ Live(c) \subseteq Live(b) /\ c.anchor = b.anchor
  /\ \A n \in Live(c) : \A g \in OrderFields : c.pool[n][g] = b.pool[n][g]

LEMMA ThinnedKill ==
  ASSUME NEW a, NEW b \in Book, Thinned(a, b), Sound(b), NEW n \in Live(b)
  PROVE  Thinned(a, KillOrder(b, n)) /\ Live(KillOrder(b, n)) = Live(b) \ {n}
<1> DEFINE c == KillOrder(b, n)
<1>1. /\ Live(c) = Live(b) \ {n}
      /\ \A m \in Live(b) : m # n => \A g \in OrderFields : c.pool[m][g] = b.pool[m][g]
  BY KillRest
<1>2. c.anchor = b.anchor
  BY KillSound DEF Ended
<1> QED BY <1>1, <1>2 DEF Thinned

\* The window that starts at i.cur, without the word being left, is past tick t.
LeftBehind(b, i, t) ==
  LET word == IF i.inWord THEN WordTicks ELSE 0
  IN IF i.ideal > b.anchor THEN t < i.cur + word ELSE t > i.cur + WindowTicks - 1 - word

\* What a reanchor has done so far: it ended orders it left behind, and none
\* before its first word.
Evicting ==
  ix.op = "Reanchor" =>
    /\ Thinned(committed.book, book)
    /\ \A n \in Live(committed.book) \ Live(book) :
         LeftBehind(book, ix, TickOf(committed.book, n))
    /\ ~ix.inWord /\ ix.cur = book.anchor => ix.evicted = 0

\* The order the reanchor ends rests in the word it is leaving.
LEMMA EvictedTick ==
  ASSUME EInv, EvictOrder
  PROVE  LET n == HeadAt(book, Lowest(WordOccupied))
         IN n \in Live(book) /\ TickOf(book, n) \in WordBase .. WordBase + WordTicks - 1
<1> DEFINE T == WordOccupied
           t == Lowest(T)
           n == HeadAt(book, t)
<1>1. Reanchoring /\ T # {}
  BY DEF EvictOrder
<1>2. IInv /\ book \in Book /\ Sound(book) /\ Emptied(book, ix.cur)
  BY <1>1, EBook DEF EInv, SInv, Structured, CrossInv, Crossless, Riding, Reanchoring
<1>3. /\ ix.cur \in Nat /\ WordBase \in Nat
      /\ WordTicks \in Nat /\ WindowTicks \in Nat /\ WordTicks <= WindowTicks
  BY <1>1, <1>2, ReanchorType, BookAssumption DEF WordBase
<1>4. t \in T
  <2>1. T \subseteq Nat
    BY <1>3 DEF WordOccupied
  <2> HIDE DEF T
  <2> QED BY <1>1, <2>1, LowestOf
<1>5. t \in WordBase .. WordBase + WordTicks - 1 /\ \E side \in Sides : IsOccupied(book, side, t)
  BY <1>4 DEF WordOccupied
<1> HIDE DEF T, t
<1>6. n \in Live(book) /\ SlotOf(book, n) = Slot(t)
  BY <1>2, <1>5, HeadLive
<1>7. TickOf(book, n) \in ix.cur .. ix.cur + WindowTicks - 1
  <2>1. TickOf(book, n) \in TicksOf(book, SideOf(book, n)) /\ SideOf(book, n) \in Sides
    BY <1>2, <1>6, LiveTick
  <2> QED BY <1>2, <2>1 DEF Emptied
<1>8. t \in ix.cur .. ix.cur + WindowTicks - 1
  BY <1>3, <1>5 DEF WordBase
<1>9. Slot(TickOf(book, n)) = Slot(t)
  BY <1>6 DEF SlotOf, TickOf
<1> HIDE DEF n
<1>10. TickOf(book, n) = t
  BY <1>3, <1>7, <1>8, <1>9, SlotApart
<1> QED BY <1>5, <1>6, <1>10 DEF n, t, T

LEMMA EvictOrderEvicts == ASSUME EInv, Evicting, EvictOrder PROVE Evicting'
<1> DEFINE n == HeadAt(book, Lowest(WordOccupied))
           c == KillOrder(book, n)
           i == [ix EXCEPT !.evicted = @ + 1]
<1>1. Reanchoring /\ ix.inWord /\ Continue(c, i)
  BY DEF EvictOrder
<1>2. n \in Live(book) /\ TickOf(book, n) \in WordBase .. WordBase + WordTicks - 1
  BY EvictedTick
<1> HIDE DEF n
<1>3. IInv /\ book \in Book /\ Sound(book) /\ ix \in ReanchorIx /\ ix.cur \in Nat /\ WordTicks \in Nat
      /\ WindowTicks \in Nat
  BY <1>1, EBook, ReanchorType, BookAssumption DEF EInv, SInv, Structured
<1>4. /\ Thinned(committed.book, book)
      /\ \A m \in Live(committed.book) \ Live(book) : LeftBehind(book, ix, TickOf(committed.book, m))
  BY <1>1 DEF Evicting, Reanchoring
<1>5. Thinned(committed.book, c) /\ Live(c) = Live(book) \ {n}
  BY <1>2, <1>3, <1>4, ThinnedKill
<1>6. i.ideal = ix.ideal /\ i.cur = ix.cur /\ i.inWord = ix.inWord
  BY <1>3 DEF ReanchorIx
<1>7. book' = c /\ ix' = i /\ committed' = committed
  BY <1>1 DEF Continue
<1>8. c.anchor = book.anchor
  BY <1>4, <1>5 DEF Thinned
<1> HIDE DEF c, i
<1>9. LeftBehind(book, ix, TickOf(committed.book, n))
  <2>1. TickOf(committed.book, n) = TickOf(book, n)
    BY <1>2, <1>4 DEF Thinned, TickOf, OrderFields
  <2> QED BY <1>1, <1>2, <1>3, <2>1 DEF LeftBehind, WordBase, MovesUp
<1>10. \A t : LeftBehind(book, ix, t) => LeftBehind(c, i, t)
  BY <1>6, <1>8 DEF LeftBehind
<1> QED BY <1>1, <1>4, <1>5, <1>6, <1>7, <1>9, <1>10 DEF Evicting

\* The other steps of a reanchor end no order.
LEMMA WordsEvict ==
  ASSUME EInv, Evicting, EnterWord \/ LeaveWord PROVE Evicting'
<1>1. Reanchoring
  BY DEF EnterWord, LeaveWord
<1>2. IInv /\ ix \in ReanchorIx /\ ix.cur \in Nat /\ WordTicks \in Nat \ {0} /\ WindowTicks \in Nat
      /\ book.anchor \in Nat /\ ix.ideal \in Nat
  BY <1>1, EBook, ReanchorType, BookAssumption
<1>3. /\ Thinned(committed.book, book)
      /\ \A m \in Live(committed.book) \ Live(book) : LeftBehind(book, ix, TickOf(committed.book, m))
  BY <1>1 DEF Evicting, Reanchoring
<1>4. \A m \in Live(committed.book) : TickOf(committed.book, m) \in Nat
  BY EBook, LiveTicks
<1>5. CASE EnterWord
  <2> DEFINE i == [ix EXCEPT !.inWord = TRUE]
  <2>1. i.ideal = ix.ideal /\ i.cur = ix.cur /\ i.inWord /\ ~ix.inWord
    BY <1>2, <1>5 DEF ReanchorIx, EnterWord
  <2>2. book' = book /\ ix' = i /\ committed' = committed
    BY <1>5 DEF EnterWord, Continue
  <2> HIDE DEF i
  <2>3. \A t \in Nat : LeftBehind(book, ix, t) => LeftBehind(book, i, t)
    BY <1>2, <2>1 DEF LeftBehind
  <2> QED BY <1>3, <1>4, <2>1, <2>2, <2>3 DEF Evicting
<1>6. CASE LeaveWord
  <2> DEFINE to == IF MovesUp THEN ix.cur + WordTicks ELSE ix.cur - WordTicks
             i  == [ix EXCEPT !.inWord = FALSE, !.cur = to]
  <2>1. i.ideal = ix.ideal /\ i.cur = to /\ ~i.inWord /\ ix.inWord
    BY <1>2, <1>6 DEF ReanchorIx, LeaveWord
  <2>2. book' = book /\ ix' = i /\ committed' = committed
    BY <1>6 DEF LeaveWord, Continue
  <2>3. IF ix.ideal > book.anchor THEN to = ix.cur + WordTicks /\ book.anchor <= ix.cur
                                  ELSE to = ix.cur - WordTicks /\ ix.cur <= book.anchor
    BY <1>1, <1>2 DEF MovesUp, IInv, Progressing, Reanchoring
  <2> HIDE DEF i, to
  <2>4. \A t \in Nat : LeftBehind(book, ix, t) => LeftBehind(book, i, t)
    BY <1>2, <2>1, <2>3 DEF LeftBehind
  <2>5. i.cur # book.anchor
    BY <1>2, <2>1, <2>3
  <2> QED BY <1>3, <1>4, <2>1, <2>2, <2>4, <2>5 DEF Evicting
<1> QED BY <1>5, <1>6

\* Which steps there are while the book is tidied.
LEMMA Tidying ==
  ASSUME EInv, [Next]_vars, ix'.op \in {"Reanchor", "ReapExpired"}
  PROVE  HygieneNext \/ HygieneStep \/ UNCHANGED vars
<1>0. ix'.op # "Idle" /\ ix'.op # "MassQuote" /\ ix'.op # "Take"
  OBVIOUS
<1>1. \A b, v : ~Commit(b, v)
  BY <1>0 DEF Commit, Idle
<1>2. ~Abort
  BY <1>0 DEF Abort, Idle
<1>4. ~CustodyNext
  BY <1>1 DEF CustodyNext, ClaimSeat, CloseSeat, Deposit, Withdraw, CollectFees, UpdateFee
<1>5. ~MakerNext
  <2>1. \A s, bids, asks, expiry : ~BeginMassQuote(s, bids, asks, expiry)
    BY <1>0 DEF BeginMassQuote, Continue
  <2> QED BY <1>1, <2>1 DEF MakerNext, PostOnly, CancelQuote, Cancel
<1>6. ~TakerNext
  BY <1>0 DEF TakerNext, BeginPlaceLimit, BeginPlaceTake, BeginSwap, SwapWith, Take, Continue
<1>7. ~MergeStep
  <2> SUFFICES ASSUME MergeStep PROVE FALSE
    OBVIOUS
  <2>1. ix \in MassQuoteIx
    BY EBook, MergeType DEF MergeStep, MergeRefuse, MergeCancel, MergeKeep, MergeInsert, MergeRepost,
                            MergeAsks, MergeCommit, MergeDone
  <2>3. \A b, next, tick : ~MassQuoteInsert(b, next, tick)
    BY ZenonT(60), <1>0, <1>2, <2>1 DEF MassQuoteInsert, Continue, MassQuoteIx
  <2>4. ~MergeCancel /\ ~MergeKeep /\ ~MergeAsks
    BY <1>0, <2>1 DEF MergeCancel, MergeKeep, MergeAsks, Continue, MassQuoteIx
  <2>5. ~MergeRefuse /\ ~MergeCommit
    BY <1>1, <1>2 DEF MergeRefuse, MergeCommit
  <2> QED BY <2>3, <2>4, <2>5 DEF MergeStep, MergeInsert, MergeRepost
<1>8. ~TakeStep
  <2> SUFFICES ASSUME TakeStep PROVE FALSE
    OBVIOUS
  <2>1. ix \in TakeIx
    BY EBook, TakeType DEF TakeStep, TakeExpired, TakeOwn, TakeFill, EndPlaceLimit, EndPlaceTake, EndSwap, TakeOver
  <2>3. ~TakeExpired /\ ~TakeOwn /\ ~TakeFill
    BY <1>0, <1>2, <2>1 DEF TakeExpired, TakeOwn, TakeFill, Continue, TakeIx
  <2>4. ~EndPlaceLimit /\ ~EndPlaceTake /\ ~EndSwap
    BY <1>1, <1>2 DEF EndPlaceLimit, EndPlaceTake, EndSwap
  <2> QED BY <2>3, <2>4 DEF TakeStep
<1>9. ~NextSlot /\ ~(Refused /\ ~UNCHANGED vars)
  BY DEF NextSlot, Refused, Idle
<1> QED BY <1>4, <1>5, <1>6, <1>7, <1>8, <1>9 DEF Next, Step

LEMMA EvictNext == ASSUME EInv, Evicting, [Next]_vars PROVE Evicting'
<1> SUFFICES ASSUME ix'.op = "Reanchor" PROVE Evicting'
  BY DEF Evicting
<1>1. ASSUME NEW target \in Targets, NEW max \in MaxLevels, BeginReanchor(target, max) PROVE Evicting'
  <2>1. ix = Idle /\ book' = book /\ committed' = committed /\ ix'.evicted = 0 /\ ix'.inWord = FALSE
    BY <1>1 DEF BeginReanchor, Starts, Continue
  <2>2. committed.book = book
    BY <2>1 DEF EInv, Since
  <2> QED BY <2>1, <2>2 DEF Evicting, Thinned
<1>2. CASE EvictOrder
  BY <1>2, EvictOrderEvicts
<1>3. CASE EnterWord \/ LeaveWord
  BY <1>3, WordsEvict
<1>4. CASE UNCHANGED vars
  BY <1>4 DEF vars, Evicting, Thinned, Live, IsLive
<1>5. ~ReanchorCommit
  BY DEF ReanchorCommit, Commit, Idle
<1>6. ~Reaping \/ ~HygieneStep
  <2> SUFFICES ASSUME Reaping, HygieneStep PROVE FALSE
    OBVIOUS
  <2>1. ix \in ReapIx
    BY EBook, ReapType
  <2>4. \A b, v : ~Commit(b, v)
    BY DEF Commit, Idle
  <2>5. ~ReapEnter /\ ~ReapSkip /\ ~ReapKill /\ ~ReapCommit
    BY <2>1, <2>4 DEF ReapEnter, ReapSkip, ReapKill, ReapCommit, Continue, ReapIx
  <2>6. ~Reanchoring
    BY DEF Reaping, Reanchoring
  <2> QED BY <2>5, <2>6 DEF HygieneStep, EnterWord, EvictOrder, LeaveWord, ReanchorCommit
<1>7. CASE HygieneNext
  <2>1. \A side, start, max : ~BeginReap(side, start, max)
    BY DEF BeginReap, Continue
  <2> QED BY <1>1, <1>7, <2>1 DEF HygieneNext
<1>8. CASE HygieneStep
  BY <1>2, <1>3, <1>5, <1>6, <1>8 DEF HygieneStep, ReapEnter, ReapSkip, ReapKill, ReapCommit
<1> QED BY <1>4, <1>7, <1>8, Tidying

\* What the property asks of a reanchor from b to c towards i.ideal.
Reanchored(b, c, i) ==
  /\ \A n \in Live(b) :
       IF b.pool[n].tick \in c.anchor .. LastTick(c)
       THEN n \in Live(c) /\ c.pool[n].seq = b.pool[n].seq /\ c.pool[n].lots = b.pool[n].lots
       ELSE n \notin Live(c)
  /\ \A s \in SeatIds, a \in Assets : SeatTotal(c, s, a) = SeatTotal(b, s, a)
  /\ \/ b.anchor <= c.anchor /\ c.anchor <= i.ideal
     \/ i.ideal <= c.anchor /\ c.anchor <= b.anchor
  /\ c.anchor = i.ideal \/ i.evicted >= i.max
  /\ i.max > 0 /\ b.anchor # i.ideal => c.anchor # b.anchor

LEMMA ReanchorEnds ==
  ASSUME EInv, EInv', Evicting, ReanchorCommit
  PROVE  Reanchored(committed.book, committed'.book, ix)
<1> DEFINE b == committed.book
           c == committed'.book
<1>1. Reanchoring /\ ~ix.inWord /\ (ix.cur = ix.ideal \/ ix.evicted >= ix.max)
  BY DEF ReanchorCommit
<1>2. /\ IInv /\ book \in Book /\ b \in Book /\ Sound(b)
      /\ ix \in ReanchorIx /\ ix.cur \in Nat /\ WindowTicks \in Nat
      /\ ix.evicted \in Nat /\ ix.max \in Nat
  BY <1>1, EBook, ReanchorType, BookAssumption DEF EInv, SInv, Structured, ReanchorIx
<1>3. c = BumpSeq([book EXCEPT !.anchor = ix.cur])
  BY DEF ReanchorCommit, Commit
<1>4. c.anchor = ix.cur /\ c.pool = book.pool /\ c.seats = book.seats
  BY <1>2, <1>3 DEF BumpSeq, Book
<1>5. c \in Book /\ Sound(c)
  BY DEF EInv, SInv, Structured, CrossInv, IInv, TypeOK
<1>6. /\ Thinned(b, book)
      /\ \A n \in Live(b) \ Live(book) : LeftBehind(book, ix, TickOf(b, n))
      /\ ix.cur = book.anchor => ix.evicted = 0
  BY <1>1 DEF Evicting, Reanchoring
<1>7. Even(b, book)
  BY <1>1 DEF EInv, Since, Reanchoring
<1> HIDE DEF b, c
<1>8. Live(c) = Live(book)
  BY <1>4 DEF Live, IsLive
<1>9. book.anchor = b.anchor /\ b.anchor \in Nat
  BY <1>2, <1>6 DEF Thinned, Book
<1>10. IF ix.ideal > b.anchor THEN b.anchor <= ix.cur /\ ix.cur <= ix.ideal
                              ELSE ix.ideal <= ix.cur /\ ix.cur <= b.anchor
  BY <1>1, <1>2, <1>9 DEF IInv, Progressing, Reanchoring
<1>11. ASSUME NEW n \in Live(c)
       PROVE  /\ b.pool[n].tick \in c.anchor .. LastTick(c)
              /\ c.pool[n].seq = b.pool[n].seq /\ c.pool[n].lots = b.pool[n].lots
  <2>1. InWindow(c, TickOf(c, n))
    BY <1>5, <1>11, LiveTick
  <2>2. n \in Live(book)
    BY <1>8, <1>11
  <2>3. /\ book.pool[n].tick = b.pool[n].tick /\ book.pool[n].seq = b.pool[n].seq
        /\ book.pool[n].lots = b.pool[n].lots
    BY <1>6, <2>2 DEF Thinned, OrderFields
  <2> QED BY <1>4, <2>1, <2>3 DEF InWindow, TickOf
<1>12. ASSUME NEW n \in Live(b), n \notin Live(c) PROVE b.pool[n].tick \notin c.anchor .. LastTick(c)
  <2>1. LeftBehind(book, ix, TickOf(b, n))
    BY <1>6, <1>8, <1>12
  <2>2. TickOf(b, n) \in Nat
    BY <1>2, <1>12, LiveTicks
  <2>3. IF ix.ideal > b.anchor THEN TickOf(b, n) < ix.cur ELSE TickOf(b, n) > ix.cur + WindowTicks - 1
    BY <1>1, <1>2, <1>9, <2>1, <2>2 DEF LeftBehind
  <2> QED BY <1>2, <1>4, <2>2, <2>3 DEF LastTick, TickOf
<1>13. \A s \in SeatIds, a \in Assets : SeatTotal(c, s, a) = SeatTotal(b, s, a)
  BY <1>4, <1>7 DEF Even, SeatTotal
<1>14. ix.max > 0 /\ b.anchor # ix.ideal => c.anchor # b.anchor
  BY <1>1, <1>2, <1>4, <1>6, <1>9
<1>15. \A n \in Live(b) :
         IF b.pool[n].tick \in c.anchor .. LastTick(c)
         THEN n \in Live(c) /\ c.pool[n].seq = b.pool[n].seq /\ c.pool[n].lots = b.pool[n].lots
         ELSE n \notin Live(c)
  BY <1>11, <1>12
<1>16. \/ b.anchor <= c.anchor /\ c.anchor <= ix.ideal
       \/ ix.ideal <= c.anchor /\ c.anchor <= b.anchor
  BY <1>4, <1>10
<1> QED BY <1>1, <1>4, <1>13, <1>14, <1>15, <1>16 DEF Reanchored, b, c

\* A reanchor, or a reap, that is over has committed.
LEMMA TidyEnds ==
  ASSUME EInv, [Next]_vars, committed' # committed, Reanchoring \/ Reaping
  PROVE  (Reanchoring /\ ReanchorCommit) \/ (Reaping /\ (ReapCommit \/ ReapKill))
<1>1. ix # Idle /\ ix.op \in {"Reanchor", "ReapExpired"}
  BY DEF Reanchoring, Reaping, Idle
<1>2. ~CustodyNext
  BY <1>1 DEF CustodyNext, ClaimSeat, CloseSeat, Deposit, Withdraw, CollectFees, UpdateFee, Starts
<1>3. ~MakerNext
  BY <1>1 DEF MakerNext, PostOnly, CancelQuote, Cancel, BeginMassQuote, Starts
<1>4. ~TakerNext
  BY <1>1 DEF TakerNext, BeginPlaceLimit, BeginPlaceTake, BeginSwap, SwapWith, Starts
<1>5. ~HygieneNext
  BY <1>1 DEF HygieneNext, BeginReanchor, BeginReap, Starts
<1>6. ~MergeStep
  BY <1>1 DEF MergeStep, MergeRefuse, MergeCancel, MergeKeep, MergeInsert, MergeRepost, MergeAsks, MergeCommit,
              MergeDone, Merging
<1>7. ~TakeStep
  BY <1>1 DEF TakeStep, TakeExpired, TakeOwn, TakeFill, EndPlaceLimit, EndPlaceTake, EndSwap, TakeOver, Taking
<1>8. ~NextSlot /\ ~Refused /\ ~UNCHANGED vars
  BY DEF NextSlot, Refused, vars
<1>9. ~EnterWord /\ ~EvictOrder /\ ~LeaveWord /\ ~ReapEnter /\ ~ReapSkip
  BY DEF EnterWord, EvictOrder, LeaveWord, ReapEnter, ReapSkip, Continue
<1>10. ReanchorCommit \/ ReapKill \/ ReapCommit
  BY <1>2, <1>3, <1>4, <1>5, <1>6, <1>7, <1>8, <1>9 DEF Next, Step, HygieneStep
<1> QED BY <1>10 DEF ReanchorCommit, ReapKill, ReapCommit

\* Reanchor (reanchor_step): whatever the book, the target and the budget, a
\* call that succeeds has ended the orders its new window excludes and no
\* other, and moved the window towards the target and not past it.
THEOREM ReanchorsExactly == ASSUME FreedSeq \notin CancelIds PROVE Spec => ReanchorExact
<1> DEFINE A ==
      Reanchoring /\ ix' = Idle =>
        /\ \A n \in Live(Old) :
             IF Old.pool[n].tick \in New.anchor .. LastTick(New)
             THEN Survives(n) /\ Gone(n) = 0 ELSE ~Survives(n)
        /\ \A s \in SeatIds, a \in Assets : SeatTotal(New, s, a) = SeatTotal(Old, s, a)
        /\ \/ Old.anchor <= New.anchor /\ New.anchor <= ix.ideal
           \/ ix.ideal <= New.anchor /\ New.anchor <= Old.anchor
        /\ New.anchor = ix.ideal \/ ix.evicted >= ix.max
        /\ ix.max > 0 /\ Old.anchor # ix.ideal => New.anchor # Old.anchor
<1>1. ASSUME EInv, EInv', Evicting, [Next]_vars, committed' # committed PROVE A
  <2> SUFFICES ASSUME Reanchoring, ix' = Idle PROVE A
    OBVIOUS
  <2>1. ReanchorCommit
    BY <1>1, TidyEnds DEF Reanchoring, Reaping
  <2>2. Reanchored(Old, New, ix)
    BY <1>1, <2>1, ReanchorEnds DEF Old, New
  <2>3. \A m \in Live(Old) : m \in Nodes /\ Old.pool[m].lots \in Nat
    BY <1>1, EBook, LiveTicks DEF Old, LotsOf
  <2> HIDE DEF Old, New
  <2>4. \A n \in Live(Old) : /\ n \in Live(New) <=> IsLive(New, n)
                             /\ Old.pool[n].lots - Old.pool[n].lots = 0
    BY <2>3 DEF Live
  <2>5. \A n \in Live(Old) : IF Old.pool[n].tick \in New.anchor .. LastTick(New)
                             THEN Survives(n) /\ Gone(n) = 0 ELSE ~Survives(n)
    BY <2>2, <2>4 DEF Reanchored, Survives, Gone
  <2> QED BY <2>2, <2>5 DEF Reanchored
<1>2. EInv /\ Evicting /\ [Next]_vars => (EInv /\ Evicting)' /\ [A]_committed
  BY <1>1, ENext, EvictNext
<1>3. Init => EInv /\ Evicting
  BY EInit DEF Init, Idle, Evicting
<1>4. Spec => [][A]_committed
  BY <1>2, <1>3, PTL DEF Spec
<1> QED BY <1>4 DEF ReanchorExact

-----------------------------------------------------------------------------
(* The order of a level                                                    *)

\* In a level's queue, the head has the least id, and what follows an order has
\* the next one.
LEMMA HeadFirst ==
  ASSUME NEW b \in Book, Sound(b), MaxOrderIds <= FreedSeq, NEW d, NEW l, NEW m \in Queue(b, d, l)
  PROVE  HeadOf(b, l) \in Queue(b, d, l) /\ SeqOf(b, HeadOf(b, l)) <= SeqOf(b, m)
<1>1. PICK r : LevelsAt(b, r) /\ Dated(b, r)
  BY DEF Sound, Listed
<1>2. \A n \in Queue(b, d, l) : /\ n \in Live(b) /\ SideOf(b, n) = d /\ SlotOf(b, n) = l
                                /\ r[n] = SeqOf(b, n) /\ r[n] \in Nat /\ Queued(b, r, n)
  BY <1>1, LiveNodes DEF Queue, Dated, LevelsAt
<1> DEFINE T == {r[n] : n \in Queue(b, d, l)}
<1>3. \E x \in T : \A y \in T : x <= y
  <2>1. T \subseteq Nat /\ T # {}
    BY <1>2
  <2> HIDE DEF T
  <2> QED BY <2>1, NatLeast
<1>4. PICK n \in Queue(b, d, l) : \A k \in Queue(b, d, l) : r[n] <= r[k]
  BY <1>3
<1>5. PrevOf(b, n) = NIL
  <2> SUFFICES ASSUME PrevOf(b, n) # NIL PROVE FALSE
    OBVIOUS
  <2>1. PrevOf(b, n) \in Queue(b, d, l) /\ r[PrevOf(b, n)] < r[n]
    BY <1>2, <1>4 DEF Queued, Mates, Rests, Queue
  <2> QED BY <1>2, <1>4, <2>1
<1>6. HeadOf(b, l) = n
  BY <1>2, <1>4, <1>5 DEF Queued
<1> QED BY <1>2, <1>4, <1>6

LEMMA NextFirst ==
  ASSUME NEW b \in Book, Sound(b), MaxOrderIds <= FreedSeq, NEW d, NEW l,
         NEW n \in Queue(b, d, l), NEW m \in Queue(b, d, l), SeqOf(b, n) < SeqOf(b, m)
  PROVE  NextOf(b, n) # NIL /\ SeqOf(b, NextOf(b, n)) <= SeqOf(b, m)
<1> DEFINE Q == Queue(b, d, l)
           Before(x, y) == NextOf(b, x) # NIL /\ SeqOf(b, NextOf(b, x)) <= SeqOf(b, y)
           Bad == {x \in Q : \E y \in Q : SeqOf(b, x) < SeqOf(b, y) /\ ~Before(x, y)}
<1>1. PICK r : LevelsAt(b, r) /\ Dated(b, r)
  BY DEF Sound, Listed
<1>2. \A x \in Q : /\ x \in Live(b) /\ SideOf(b, x) = d /\ SlotOf(b, x) = l
                   /\ r[x] = SeqOf(b, x) /\ SeqOf(b, x) \in Nat /\ Queued(b, r, x)
                   /\ \A y \in Q : SeqOf(b, x) = SeqOf(b, y) => x = y
  <2>1. \A x \in Q : x \in Live(b) /\ SideOf(b, x) = d /\ SlotOf(b, x) = l
    BY DEF Queue
  <2>2. \A x \in Live(b) : r[x] = SeqOf(b, x) /\ r[x] \in Nat /\ Queued(b, r, x)
    BY <1>1, LiveNodes DEF Dated, LevelsAt
  <2> QED BY <2>1, <2>2, IdsApart
<1> SUFFICES ASSUME Bad # {} PROVE FALSE
  OBVIOUS
<1>3. PICK x \in Bad : \A y \in Bad : SeqOf(b, x) <= SeqOf(b, y)
  <2> DEFINE T == {SeqOf(b, y) : y \in Bad}
  <2>1. T \subseteq Nat /\ T # {}
    BY <1>2
  <2>2. \E t \in T : \A u \in T : t <= u
    <3> HIDE DEF T
    <3> QED BY <2>1, NatLeast
  <2> HIDE DEF Bad
  <2> QED BY <2>2
<1> DEFINE M == {y \in Q : SeqOf(b, x) < SeqOf(b, y)}
<1>4. PICK y \in M : \A z \in M : SeqOf(b, y) <= SeqOf(b, z)
  <2> DEFINE T == {SeqOf(b, z) : z \in M}
  <2>1. T \subseteq Nat /\ T # {}
    BY <1>2, <1>3
  <2>2. \E t \in T : \A u \in T : t <= u
    <3> HIDE DEF T
    <3> QED BY <2>1, NatLeast
  <2> HIDE DEF M
  <2> QED BY <2>2
<1> DEFINE p == PrevOf(b, y)
<1>5. x \in Q /\ y \in Q /\ SeqOf(b, x) < SeqOf(b, y)
  BY <1>3, <1>4
<1>6. NextOf(b, x) # y
  <2> SUFFICES ASSUME NextOf(b, x) = y PROVE FALSE
    OBVIOUS
  <2>1. y # NIL
    BY <1>2, <1>5, LiveNodes DEF Nodes, NIL
  <2>2. \A z \in Q : SeqOf(b, x) < SeqOf(b, z) => Before(x, z)
    BY <1>4, <2>1
  <2> QED BY <1>3, <2>2
<1>7. p \in Q /\ NextOf(b, p) = y /\ SeqOf(b, p) < SeqOf(b, y)
  <2>1. p # NIL
    <3> SUFFICES ASSUME p = NIL PROVE FALSE
      OBVIOUS
    <3>1. HeadOf(b, l) = y
      BY <1>2, <1>5 DEF Queued
    <3>2. SeqOf(b, y) <= SeqOf(b, x)
      BY <1>5, <3>1, HeadFirst
    <3> QED BY <1>2, <1>5, <3>2
  <2>2. Mates(b, y, p) /\ NextOf(b, p) = y /\ r[p] < r[y]
    BY <1>2, <1>5, <2>1 DEF Queued
  <2>3. p \in Q
    BY <1>2, <1>5, <2>2 DEF Mates, Rests, Queue
  <2> HIDE DEF p
  <2> QED BY <1>2, <1>5, <2>2, <2>3
<1> HIDE DEF p
<1>8. SeqOf(b, p) < SeqOf(b, x)
  <2>1. p # x
    BY <1>6, <1>7
  <2>2. p \notin M
    BY <1>2, <1>4, <1>5, <1>7
  <2> QED BY <1>2, <1>5, <1>7, <2>1, <2>2
<1>9. p \in Bad
  <2>1. ~Before(p, x)
    BY <1>2, <1>5, <1>7
  <2> QED BY <1>5, <1>7, <1>8, <2>1
<1> QED BY <1>2, <1>3, <1>5, <1>7, <1>8, <1>9

-----------------------------------------------------------------------------
(* A reap                                                                  *)

\* Least price first, then the order's age.
Sooner(b, m, n) ==
  \/ TickOf(b, m) < TickOf(b, n)
  \/ TickOf(b, m) = TickOf(b, n) /\ SeqOf(b, m) < SeqOf(b, n)

\* What a reap i that starts on book b at slot `now` is for.
Due(b, i, now) ==
  {n \in Live(b) : /\ SideOf(b, n) = i.side
                   /\ TickOf(b, n) >= Least(i.start, LastTick(b))
                   /\ IsExpired(b, n, now)}

\* The cursor is past order n.
Passed(b, i, n) == TickOf(b, n) < i.tick /\ (i.cur # NIL => Sooner(b, n, i.cur))

\* What a reap has done so far: it ended what was due where it passed.
Reaped(b, c, i, now) ==
  /\ Thinned(b, c)
  /\ i.tick >= Least(i.start, LastTick(b))
  /\ i.cur # NIL => /\ i.cur \in Live(c) /\ SideOf(b, i.cur) = i.side /\ i.tick = TickOf(b, i.cur) + 1
                    /\ TickOf(b, i.cur) >= Least(i.start, LastTick(b))
  /\ Live(b) \ Live(c) = {n \in Due(b, i, now) : Passed(b, i, n)}
  /\ i.reaped = Cardinality(Live(b) \ Live(c))
  /\ i.reaped < i.max \/ i.reaped = 0

Scanning == ix.op = "ReapExpired" => Reaped(committed.book, book, ix, slot)

\* Two live orders share a level when they share a price.
LEMMA TickMates ==
  ASSUME NEW b \in Book, Sound(b), NEW m \in Live(b), NEW n \in Live(b)
  PROVE  SlotOf(b, m) = SlotOf(b, n) <=> TickOf(b, m) = TickOf(b, n)
<1>1. b.anchor \in Nat
  BY DEF Book
<1>2. /\ TickOf(b, m) \in b.anchor .. b.anchor + WindowTicks - 1
      /\ TickOf(b, n) \in b.anchor .. b.anchor + WindowTicks - 1
  BY LiveTick DEF InWindow, LastTick
<1> QED BY <1>1, <1>2, SlotApart DEF SlotOf, TickOf

\* What the walk knows of an order it has not ended.
LEMMA ThinnedOrder ==
  ASSUME NEW b, NEW c, Thinned(b, c), NEW n \in Live(c)
  PROVE  /\ n \in Live(b) /\ TickOf(c, n) = TickOf(b, n)
         /\ SeqOf(c, n) = SeqOf(b, n) /\ SideOf(c, n) = SideOf(b, n)
         /\ LotsOf(c, n) = LotsOf(b, n) /\ \A now : IsExpired(c, n, now) <=> IsExpired(b, n, now)
BY DEF Thinned, OrderFields, TickOf, SeqOf, SideOf, LotsOf, IsExpired

LEMMA OrderTypes ==
  ASSUME NEW b \in Book, NEW n \in Live(b)
  PROVE  TickOf(b, n) \in Nat /\ SeqOf(b, n) \in Nat /\ SideOf(b, n) \in Sides /\ n \in Nodes /\ n # NIL
<1>1. n \in Nodes /\ n \in Links /\ TickOf(b, n) \in Nat /\ SideOf(b, n) \in Sides
  BY LiveTicks
<1>2. SeqOf(b, n) \in Nat
  BY <1>1, NodeType, BookAssumption DEF SeqOf
<1> QED BY <1>1, <1>2 DEF Nodes, NIL

\* Entering the next level passes no order.
LEMMA EnterReaps ==
  ASSUME NEW b \in Book, NEW c \in Book, Sound(b), Sound(c), MaxOrderIds <= FreedSeq,
         NEW i \in ReapIx, NEW now \in Nat, Reaped(b, c, i, now), i.cur = NIL,
         NEW T, T = {t \in TicksOf(c, i.side) : t >= i.tick}, T # {}
  PROVE  LET t == Lowest(T) IN Reaped(b, c, [i EXCEPT !.tick = t + 1, !.cur = c.levels[Slot(t)].head], now)
<1> DEFINE t == Lowest(T)
           n == c.levels[Slot(t)].head
           j == [i EXCEPT !.tick = t + 1, !.cur = n]
<1>1. i.side \in Sides /\ i.tick \in Nat /\ i.start \in Nat /\ c.anchor \in Nat /\ WindowTicks \in Nat
  BY BookAssumption DEF ReapIx, Book
<1>2. /\ j.tick = t + 1 /\ j.cur = n /\ j.side = i.side
      /\ j.start = i.start /\ j.reaped = i.reaped /\ j.max = i.max
  BY DEF ReapIx
<1>3. t \in T /\ \A u \in T : t <= u
  <2>1. T \subseteq 0 .. LastTick(c) /\ LastTick(c) \in Nat
    BY <1>1, BookAssumption DEF TicksOf, LastTick
  <2> QED BY <2>1, HighestLowest
<1>4. t \in TicksOf(c, i.side) /\ t >= i.tick /\ t \in Nat /\ t \in c.anchor .. c.anchor + WindowTicks - 1
      /\ IsOccupied(c, i.side, t)
  <2>1. t \in TicksOf(c, i.side) /\ t >= i.tick
    BY <1>3
  <2> HIDE DEF t
  <2> QED BY <1>1, <2>1 DEF TicksOf, LastTick
<1> HIDE DEF t, j
<1>5. n \in Live(c) /\ SideOf(c, n) = i.side /\ SlotOf(c, n) = Slot(t)
  BY <1>1, <1>4, HeadLive DEF HeadAt
<1>6. TickOf(c, n) = t
  <2>1. TickOf(c, n) \in c.anchor .. c.anchor + WindowTicks - 1
    BY <1>5, LiveTick DEF InWindow, LastTick
  <2>2. Slot(TickOf(c, n)) = Slot(t)
    BY <1>5 DEF SlotOf, TickOf
  <2> HIDE DEF n
  <2> QED BY <1>1, <1>4, <2>1, <2>2, SlotApart
<1>7. /\ Thinned(b, c) /\ i.tick >= Least(i.start, LastTick(b))
      /\ Live(b) \ Live(c) = {k \in Due(b, i, now) : Passed(b, i, k)}
      /\ i.reaped = Cardinality(Live(b) \ Live(c)) /\ (i.reaped < i.max \/ i.reaped = 0)
  BY DEF Reaped
<1>8. TickOf(b, n) = t /\ SideOf(b, n) = i.side /\ n \in Live(b) /\ SeqOf(c, n) = SeqOf(b, n) /\ n # NIL
  BY <1>5, <1>6, <1>7, ThinnedOrder, OrderTypes
<1>9. Least(i.start, LastTick(b)) \in Nat
  BY <1>1, BookAssumption DEF Least, LastTick, Book
<1>10. n = HeadOf(c, Slot(t))
  BY DEF HeadOf
<1> HIDE DEF n
<1>11. Due(b, j, now) = Due(b, i, now)
  BY <1>2 DEF Due
<1>12. ASSUME NEW m \in Due(b, i, now), Passed(b, j, m) PROVE Passed(b, i, m)
  <2> SUFFICES ASSUME ~Passed(b, i, m) PROVE FALSE
    OBVIOUS
  <2>1. m \in Live(c) /\ SideOf(b, m) = i.side
    BY <1>7 DEF Due
  <2>2. /\ TickOf(c, m) = TickOf(b, m) /\ SeqOf(c, m) = SeqOf(b, m) /\ SideOf(c, m) = i.side
        /\ TickOf(b, m) \in Nat /\ SeqOf(b, m) \in Nat /\ SeqOf(b, n) \in Nat
    BY <1>7, <1>8, <2>1, ThinnedOrder, OrderTypes
  <2>3. TickOf(b, m) < t + 1 /\ Sooner(b, m, n) /\ TickOf(b, m) >= i.tick
    BY <1>1, <1>2, <1>8, <1>12, <2>2 DEF Passed
  <2>4. TickOf(c, m) \in TicksOf(c, i.side)
    BY <2>1, <2>2, LiveTick
  <2>5. t <= TickOf(b, m)
    BY <1>3, <2>2, <2>3, <2>4
  <2>6. TickOf(b, m) = t /\ SeqOf(b, m) < SeqOf(b, n)
    BY <1>4, <1>8, <2>2, <2>3, <2>5 DEF Sooner
  <2>7. m \in Queue(c, i.side, Slot(t))
    <3>1. SlotOf(c, m) = SlotOf(c, n)
      BY <1>5, <1>6, <2>1, <2>2, <2>6, TickMates
    <3> QED BY <1>5, <2>1, <2>2, <3>1 DEF Queue
  <2>8. SeqOf(c, n) <= SeqOf(c, m)
    BY <1>10, <2>7, HeadFirst
  <2> QED BY <1>8, <2>2, <2>6, <2>8
<1>13. ASSUME NEW m \in Due(b, i, now), Passed(b, i, m) PROVE Passed(b, j, m)
  <2>1. TickOf(b, m) < t /\ TickOf(b, m) \in Nat
    BY <1>1, <1>4, <1>13, OrderTypes DEF Passed, Due
  <2> QED BY <1>2, <1>4, <1>8, <2>1 DEF Passed, Sooner
<1>14. Live(b) \ Live(c) = {k \in Due(b, j, now) : Passed(b, j, k)}
  BY <1>7, <1>11, <1>12, <1>13
<1>15. j.tick >= Least(j.start, LastTick(b)) /\ TickOf(b, n) >= Least(j.start, LastTick(b))
  BY <1>1, <1>2, <1>4, <1>7, <1>8, <1>9
<1>16. Reaped(b, c, j, now)
  BY <1>2, <1>5, <1>7, <1>8, <1>14, <1>15 DEF Reaped
<1> QED BY <1>16 DEF j, n, t

\* Going on along a level passes the order under the cursor and no other.
LEMMA StepPasses ==
  ASSUME NEW b \in Book, NEW c \in Book, Sound(b), Sound(c), MaxOrderIds <= FreedSeq,
         NEW i \in ReapIx, NEW now \in Nat, Reaped(b, c, i, now), i.cur # NIL,
         NEW j, j.tick = i.tick, j.cur = NextOf(c, i.cur), NEW m \in Due(b, i, now)
  PROVE  Passed(b, j, m) <=> Passed(b, i, m) \/ m = i.cur
<1> DEFINE k == i.cur
           x == NextOf(c, k)
           d == i.side
           l == SlotOf(c, k)
<1>1. /\ Thinned(b, c) /\ k \in Live(c) /\ SideOf(b, k) = d /\ i.tick = TickOf(b, k) + 1
      /\ Live(b) \ Live(c) = {n \in Due(b, i, now) : Passed(b, i, n)}
  BY DEF Reaped
<1>2. /\ TickOf(c, k) = TickOf(b, k) /\ SeqOf(c, k) = SeqOf(b, k) /\ SideOf(c, k) = d
      /\ TickOf(b, k) \in Nat /\ SeqOf(b, k) \in Nat /\ k \in Live(b)
  BY <1>1, ThinnedOrder, OrderTypes
<1>3. m \in Live(b) /\ SideOf(b, m) = d /\ TickOf(b, m) \in Nat /\ SeqOf(b, m) \in Nat
  BY OrderTypes DEF Due
<1>4. x # NIL => /\ x \in Live(c) /\ TickOf(b, x) = TickOf(b, k)
                 /\ SeqOf(b, k) < SeqOf(b, x) /\ SeqOf(b, x) \in Nat
                 /\ SeqOf(c, x) = SeqOf(b, x)
  <2> SUFFICES ASSUME x # NIL
               PROVE  /\ x \in Live(c) /\ TickOf(b, x) = TickOf(b, k)
                      /\ SeqOf(b, k) < SeqOf(b, x) /\ SeqOf(b, x) \in Nat
                      /\ SeqOf(c, x) = SeqOf(b, x)
    OBVIOUS
  <2>1. PICK r : LevelsAt(c, r) /\ Dated(c, r)
    BY DEF Sound, Listed
  <2>2. Mates(c, k, x) /\ r[k] < r[x]
    BY <1>1, <2>1 DEF LevelsAt, Queued
  <2>3. x \in Live(c) /\ SlotOf(c, x) = SlotOf(c, k)
    BY <2>2 DEF Mates, Rests
  <2>4. r[k] = SeqOf(c, k) /\ r[x] = SeqOf(c, x)
    BY <1>1, <2>1, <2>3 DEF Dated
  <2> HIDE DEF x
  <2>5. TickOf(c, x) = TickOf(c, k)
    BY <1>1, <2>3, TickMates
  <2>6. x \in Live(b) /\ TickOf(c, x) = TickOf(b, x) /\ SeqOf(c, x) = SeqOf(b, x) /\ SeqOf(b, x) \in Nat
    BY <1>1, <2>3, ThinnedOrder, OrderTypes
  <2> QED BY <1>2, <2>2, <2>3, <2>4, <2>5, <2>6
<1>5. j.cur = x /\ j.tick = TickOf(b, k) + 1
  BY <1>1
<1> HIDE DEF k, x
<1>6. ASSUME Passed(b, i, m) \/ m = k PROVE Passed(b, j, m)
  BY <1>1, <1>2, <1>3, <1>4, <1>5, <1>6 DEF Passed, Sooner, k
<1>7. ASSUME Passed(b, j, m), m # k PROVE Passed(b, i, m)
  <2> SUFFICES ASSUME ~Passed(b, i, m) PROVE FALSE
    OBVIOUS
  <2>1. m \in Live(c)
    BY <1>1, <1>3
  <2>2. TickOf(b, m) < TickOf(b, k) + 1 /\ ~Sooner(b, m, k)
    BY <1>5, <1>1, <1>7 DEF Passed, k
  <2>3. TickOf(b, m) = TickOf(b, k) /\ SeqOf(b, k) <= SeqOf(b, m)
    BY <1>2, <1>3, <2>2 DEF Sooner
  <2>4. TickOf(c, m) = TickOf(b, m) /\ SeqOf(c, m) = SeqOf(b, m) /\ SideOf(c, m) = d
    BY <1>1, <1>3, <2>1, ThinnedOrder
  <2>5. SeqOf(b, k) < SeqOf(b, m)
    BY <1>1, <1>2, <1>3, <1>7, <2>1, <2>3, <2>4, IdsApart
  <2>6. m \in Queue(c, d, l) /\ k \in Queue(c, d, l)
    <3>1. SlotOf(c, m) = SlotOf(c, k)
      BY <1>1, <1>2, <2>1, <2>3, <2>4, TickMates
    <3> QED BY <1>1, <1>2, <2>1, <2>4, <3>1 DEF Queue, k
  <2>7. NextOf(c, k) # NIL /\ SeqOf(c, NextOf(c, k)) <= SeqOf(c, m)
    BY <1>2, <2>4, <2>5, <2>6, NextFirst
  <2>8. x # NIL /\ SeqOf(b, x) <= SeqOf(b, m)
    BY <1>4, <2>4, <2>7 DEF x, k
  <2> QED BY <1>3, <1>4, <1>5, <1>7, <2>3, <2>8 DEF Passed, Sooner
<1> QED BY <1>6, <1>7 DEF k

\* What the cursor relies on when it goes on.
LEMMA StepStands ==
  ASSUME NEW b \in Book, NEW c \in Book, Sound(b), Sound(c), MaxOrderIds <= FreedSeq,
         NEW i \in ReapIx, NEW now \in Nat, Reaped(b, c, i, now), i.cur # NIL, NextOf(c, i.cur) # NIL
  PROVE  /\ NextOf(c, i.cur) \in Live(c) \ {i.cur} /\ SideOf(b, NextOf(c, i.cur)) = i.side
         /\ TickOf(b, NextOf(c, i.cur)) = TickOf(b, i.cur)
<1> DEFINE k == i.cur
           x == NextOf(c, k)
<1>1. Thinned(b, c) /\ k \in Live(c) /\ SideOf(b, k) = i.side
  BY DEF Reaped
<1>2. PICK r : LevelsAt(c, r)
  BY DEF Sound, Listed
<1>3. Mates(c, k, x)
  BY <1>1, <1>2 DEF LevelsAt, Queued
<1>4. x \in Live(c) /\ SlotOf(c, x) = SlotOf(c, k) /\ SideOf(c, x) = SideOf(c, k)
  BY <1>3 DEF Mates, Rests
<1>5. x # k
  BY <1>1, NextLive DEF NextOf
<1> HIDE DEF x, k
<1>6. TickOf(c, x) = TickOf(c, k)
  BY <1>1, <1>4, TickMates
<1>7. /\ TickOf(c, x) = TickOf(b, x) /\ SideOf(c, x) = SideOf(b, x)
      /\ TickOf(c, k) = TickOf(b, k) /\ SideOf(c, k) = SideOf(b, k)
  BY <1>1, <1>4, ThinnedOrder
<1> QED BY <1>1, <1>4, <1>5, <1>6, <1>7 DEF x, k

\* Sets of orders are finite.
LEMMA OrdersFinite ==
  \A S : S \subseteq Nodes => IsFiniteSet(S) /\ Cardinality(S) \in Nat
<1> SUFFICES ASSUME NEW S, S \subseteq Nodes PROVE IsFiniteSet(S) /\ Cardinality(S) \in Nat
  OBVIOUS
<1>1. IsFiniteSet(Nodes)
  BY FS_Interval, BookAssumption DEF Nodes
<1>2. IsFiniteSet(S)
  BY <1>1, FS_Subset
<1> QED BY <1>2, FS_CardinalityType

\* A reap begins with everything due still ahead of its cursor.
LEMMA BeginScans ==
  ASSUME EInv, NEW side \in Sides, NEW start \in ReapStarts, NEW max \in ReapCounts, BeginReap(side, start, max)
                    PROVE  Scanning'
<1> DEFINE i == [op |-> "ReapExpired", side |-> side, start |-> start,
                 max |-> max, tick |-> Clamp(start), reaped |-> 0, cur |-> NIL]
<1>1. ix = Idle /\ book' = book /\ committed' = committed /\ ix' = i /\ slot' = slot
  BY DEF BeginReap, Starts, Continue
<1>2. committed.book = book /\ book \in Book /\ Sound(book)
  BY <1>1, EBook DEF EInv, Since, SInv, Structured
<1>3. /\ book.anchor \in Nat /\ LastTick(book) \in Nat /\ book.anchor <= LastTick(book)
      /\ start \in Nat /\ max \in Nat
  BY <1>2, BookAssumption, HygieneAssumption DEF Book, LastTick
<1>4. i.tick >= Least(start, LastTick(book))
  BY <1>3 DEF Clamp, Least
<1>5. {n \in Due(book, i, slot) : Passed(book, i, n)} = {}
  <2> SUFFICES ASSUME NEW n \in Due(book, i, slot) PROVE ~(TickOf(book, n) < i.tick)
    BY DEF Passed
  <2>1. n \in Live(book) /\ TickOf(book, n) >= Least(start, LastTick(book))
    BY DEF Due
  <2>2. TickOf(book, n) \in book.anchor .. LastTick(book)
    BY <1>2, <2>1, LiveTick DEF InWindow
  <2> QED BY <1>3, <2>1, <2>2 DEF Clamp, Least
<1>6. Live(book) \ Live(book) = {} /\ Cardinality({}) = 0
  BY FS_EmptySet
<1>7. Thinned(book, book)
  BY DEF Thinned
<1>8. i.cur = NIL /\ i.reaped = 0 /\ i.start = start
  OBVIOUS
<1> HIDE DEF i
<1>9. Reaped(book, book, i, slot)
  BY <1>4, <1>5, <1>6, <1>7, <1>8 DEF Reaped
<1> QED BY <1>1, <1>2, <1>9 DEF Scanning

\* What a reap in flight has to go on.
LEMMA ScanFacts ==
  ASSUME EInv, Scanning, Reaping
  PROVE  /\ Reaped(committed.book, book, ix, slot) /\ committed.book \in Book /\ book \in Book
         /\ Sound(committed.book) /\ Sound(book) /\ ix \in ReapIx /\ slot \in Nat
         /\ ix.start \in Nat /\ ix.max \in Nat /\ ix.reaped \in Nat /\ ix.tick \in Nat /\ ix.side \in Sides
<1>1. IInv /\ committed.book \in Book /\ book \in Book
  BY EBook
<1>2. ix \in ReapIx
  BY <1>1, ReapType
<1> QED BY <1>1, <1>2 DEF Scanning, Reaping, EInv, SInv, Structured, IInv, TypeOK, ReapIx

LEMMA EnterScans == ASSUME EInv, Scanning, MaxOrderIds <= FreedSeq, ReapEnter PROVE Scanning'
<1> DEFINE T == ReapLevels
           t == Lowest(T)
           i == [ix EXCEPT !.tick = t + 1, !.cur = book.levels[Slot(t)].head]
<1>1. Reaping /\ ix.cur = NIL /\ T # {} /\ Continue(book, i)
  BY DEF ReapEnter, HeadAt
<1>2. T = {u \in TicksOf(book, ix.side) : u >= ix.tick}
  BY DEF ReapLevels
<1> HIDE DEF T
<1>3. Reaped(committed.book, book, i, slot)
  BY <1>1, <1>2, ScanFacts, EnterReaps
<1> HIDE DEF i
<1> QED BY <1>1, <1>3 DEF Continue, Scanning

LEMMA SkipScans == ASSUME EInv, Scanning, MaxOrderIds <= FreedSeq, ReapSkip PROVE Scanning'
<1> DEFINE b == committed.book
           x == NextOf(book, ix.cur)
           i == [ix EXCEPT !.cur = x]
<1>1. Reaping /\ ix.cur # NIL /\ ~IsExpired(book, ix.cur, slot) /\ Continue(book, i)
  BY DEF ReapSkip, NextOf
<1>2. /\ Reaped(b, book, ix, slot) /\ b \in Book /\ book \in Book /\ Sound(b) /\ Sound(book)
      /\ ix \in ReapIx /\ slot \in Nat
  BY <1>1, ScanFacts
<1>3. /\ i.cur = x /\ i.tick = ix.tick /\ i.side = ix.side /\ i.start = ix.start /\ i.reaped = ix.reaped
      /\ i.max = ix.max
  BY <1>2 DEF ReapIx
<1> HIDE DEF i, b
<1>4. /\ Thinned(b, book) /\ ix.cur \in Live(book) /\ ix.tick = TickOf(b, ix.cur) + 1
      /\ TickOf(b, ix.cur) >= Least(ix.start, LastTick(b)) /\ ix.tick >= Least(ix.start, LastTick(b))
      /\ Live(b) \ Live(book) = {n \in Due(b, ix, slot) : Passed(b, ix, n)}
      /\ ix.reaped = Cardinality(Live(b) \ Live(book)) /\ (ix.reaped < ix.max \/ ix.reaped = 0)
  BY <1>1, <1>2 DEF Reaped
<1>5. ix.cur \notin Due(b, ix, slot)
  BY <1>1, <1>4, ThinnedOrder DEF Due
<1>6. Due(b, i, slot) = Due(b, ix, slot)
  BY <1>3 DEF Due
<1>7. \A m \in Due(b, ix, slot) : Passed(b, i, m) <=> Passed(b, ix, m)
  BY <1>1, <1>2, <1>3, <1>5, StepPasses
<1>8. i.cur # NIL => /\ i.cur \in Live(book) /\ SideOf(b, i.cur) = i.side /\ i.tick = TickOf(b, i.cur) + 1
                     /\ TickOf(b, i.cur) >= Least(i.start, LastTick(b))
  BY <1>1, <1>2, <1>3, <1>4, StepStands
<1>9. Live(b) \ Live(book) = {n \in Due(b, i, slot) : Passed(b, i, n)}
  BY <1>4, <1>6, <1>7
<1>10. Reaped(b, book, i, slot)
  BY <1>3, <1>4, <1>8, <1>9 DEF Reaped
<1> QED BY <1>1, <1>10 DEF Continue, Scanning, b

\* The order that is reaped was due and is one more.
LEMMA KillCounts ==
  ASSUME EInv, Scanning, ReapKill
  PROVE  LET b == committed.book
             c == KillOrder(book, ix.cur)
         IN /\ ix.cur \in Due(b, ix, slot) /\ ix.cur \in Live(book)
            /\ Thinned(b, c) /\ Live(c) = Live(book) \ {ix.cur}
            /\ Live(b) \ Live(c) = (Live(b) \ Live(book)) \cup {ix.cur}
            /\ Cardinality(Live(b) \ Live(c)) = ix.reaped + 1
<1> DEFINE b == committed.book
           c == KillOrder(book, ix.cur)
<1>1. Reaping /\ ix.cur # NIL /\ IsExpired(book, ix.cur, slot)
  BY DEF ReapKill
<1>2. /\ Reaped(b, book, ix, slot) /\ b \in Book /\ book \in Book /\ Sound(b) /\ Sound(book)
  BY <1>1, ScanFacts
<1> HIDE DEF b
<1>3. /\ Thinned(b, book) /\ ix.cur \in Live(book) /\ SideOf(b, ix.cur) = ix.side
      /\ TickOf(b, ix.cur) >= Least(ix.start, LastTick(b))
      /\ ix.reaped = Cardinality(Live(b) \ Live(book))
  BY <1>1, <1>2 DEF Reaped
<1>4. ix.cur \in Due(b, ix, slot) /\ ix.cur \in Live(b)
  BY <1>1, <1>3, ThinnedOrder DEF Due
<1>5. Thinned(b, c) /\ Live(c) = Live(book) \ {ix.cur}
  BY <1>2, <1>3, ThinnedKill
<1> HIDE DEF c
<1>6. Live(b) \ Live(c) = (Live(b) \ Live(book)) \cup {ix.cur}
  BY <1>4, <1>5
<1>7. Cardinality((Live(b) \ Live(book)) \cup {ix.cur}) = Cardinality(Live(b) \ Live(book)) + 1
  <2>1. IsFiniteSet(Live(b) \ Live(book))
    BY LiveNodes, OrdersFinite
  <2>2. ix.cur \notin Live(b) \ Live(book)
    BY <1>3
  <2> QED BY <2>1, <2>2, FS_AddElement
<1> QED BY <1>3, <1>4, <1>5, <1>6, <1>7 DEF b, c

\* A reap within its budget goes on from the reaped order's successor.
LEMMA KillScans ==
  ASSUME EInv, Scanning, MaxOrderIds <= FreedSeq, ReapKill, ix'.op = "ReapExpired" PROVE Scanning'
<1> DEFINE b == committed.book
           c == KillOrder(book, ix.cur)
           x == NextOf(book, ix.cur)
           i == [ix EXCEPT !.reaped = @ + 1, !.cur = x]
<1>1. Reaping /\ ix.cur # NIL
  BY DEF ReapKill
<1>2. ~(ix.reaped + 1 >= ix.max) /\ Continue(c, i)
  <2>1. \A v : ~Commit(c, v)
    BY DEF Commit, Idle
  <2> QED BY <2>1 DEF ReapKill, NextOf
<1>3. /\ Reaped(b, book, ix, slot) /\ b \in Book /\ book \in Book /\ Sound(b) /\ Sound(book)
      /\ ix \in ReapIx /\ slot \in Nat /\ ix.reaped \in Nat /\ ix.max \in Nat
  BY <1>1, ScanFacts
<1>4. /\ ix.cur \in Due(b, ix, slot) /\ Thinned(b, c) /\ Live(c) = Live(book) \ {ix.cur}
      /\ Live(b) \ Live(c) = (Live(b) \ Live(book)) \cup {ix.cur}
      /\ Cardinality(Live(b) \ Live(c)) = ix.reaped + 1
  BY KillCounts
<1>5. /\ i.cur = x /\ i.tick = ix.tick /\ i.side = ix.side /\ i.start = ix.start /\ i.reaped = ix.reaped + 1
      /\ i.max = ix.max
  BY <1>3 DEF ReapIx
<1> HIDE DEF i, b, c
<1>6. /\ ix.tick = TickOf(b, ix.cur) + 1
      /\ TickOf(b, ix.cur) >= Least(ix.start, LastTick(b)) /\ ix.tick >= Least(ix.start, LastTick(b))
      /\ Live(b) \ Live(book) = {n \in Due(b, ix, slot) : Passed(b, ix, n)}
  BY <1>1, <1>3 DEF Reaped
<1>7. Due(b, i, slot) = Due(b, ix, slot)
  BY <1>5 DEF Due
<1>8. \A m \in Due(b, ix, slot) : Passed(b, i, m) <=> Passed(b, ix, m) \/ m = ix.cur
  BY <1>1, <1>3, <1>5, StepPasses
<1>9. i.cur # NIL => /\ i.cur \in Live(c) /\ SideOf(b, i.cur) = i.side /\ i.tick = TickOf(b, i.cur) + 1
                     /\ TickOf(b, i.cur) >= Least(i.start, LastTick(b))
  BY <1>1, <1>3, <1>4, <1>5, <1>6, StepStands
<1>10. Live(b) \ Live(c) = {n \in Due(b, i, slot) : Passed(b, i, n)}
  BY <1>4, <1>6, <1>7, <1>8
<1>11. i.reaped < i.max
  BY <1>2, <1>3, <1>5
<1>12. Reaped(b, c, i, slot)
  BY <1>4, <1>5, <1>6, <1>9, <1>10, <1>11 DEF Reaped
<1> QED BY <1>2, <1>12 DEF Continue, Scanning, b

LEMMA ScanNext == ASSUME EInv, Scanning, MaxOrderIds <= FreedSeq, [Next]_vars PROVE Scanning'
<1> SUFFICES ASSUME ix'.op = "ReapExpired" PROVE Scanning'
  BY DEF Scanning
<1>1. \A b, v : ~Commit(b, v)
  BY DEF Commit, Idle
<1>2. CASE UNCHANGED vars
  BY <1>2 DEF vars, Scanning, Reaped, Thinned, Live, IsLive, Due, IsExpired, Passed, Sooner, TickOf, SideOf, SeqOf
<1>3. CASE HygieneNext
  <2>1. \A target, max : ~BeginReanchor(target, max)
    BY DEF BeginReanchor, Continue
  <2> QED BY <1>3, <2>1, BeginScans DEF HygieneNext
<1>4. CASE HygieneStep
  <2>1. ~ReanchorCommit /\ ~ReapCommit
    BY <1>1 DEF ReanchorCommit, ReapCommit
  <2>2. ~EnterWord /\ ~EvictOrder /\ ~LeaveWord
    <3> SUFFICES ASSUME EnterWord \/ EvictOrder \/ LeaveWord PROVE FALSE
      OBVIOUS
    <3>1. ix \in ReanchorIx
      BY EBook, ReanchorType DEF EnterWord, EvictOrder, LeaveWord
    <3> QED BY <3>1 DEF EnterWord, EvictOrder, LeaveWord, Continue, ReanchorIx
  <2> QED BY <1>4, <2>1, <2>2, EnterScans, SkipScans, KillScans DEF HygieneStep
<1> QED BY <1>2, <1>3, <1>4, Tidying

\* What the property asks of a reap i from b to c.
ReapedDue(b, c, i, now) ==
  LET due    == Due(b, i, now)
      ended  == Live(b) \ Live(c)
      budget == IF i.max = 0 THEN 1 ELSE i.max
  IN /\ ended \subseteq due
     /\ Cardinality(ended) = Least(budget, Cardinality(due))
     /\ \A m \in due, n \in ended : Sooner(b, m, n) => m \in ended
     /\ \A n \in Live(b) \ ended : SeqOf(c, n) = SeqOf(b, n) /\ LotsOf(c, n) = LotsOf(b, n)
     /\ \A s \in SeatIds, a \in Assets : SeatTotal(c, s, a) = SeatTotal(b, s, a)

\* Between what is counted and what is due.
LEMMA DueCounts ==
  ASSUME NEW b, NEW i, NEW now, NEW ended, ended \subseteq Due(b, i, now)
  PROVE  /\ Cardinality(ended) \in Nat /\ Cardinality(Due(b, i, now)) \in Nat
         /\ Cardinality(ended) <= Cardinality(Due(b, i, now))
<1>1. Due(b, i, now) \subseteq Nodes
  BY LiveNodes DEF Due
<1>2. IsFiniteSet(Due(b, i, now))
  BY <1>1, OrdersFinite
<1> QED BY <1>1, <1>2, OrdersFinite, FS_Subset

\* Price and age order the orders of a book.
LEMMA SoonerTrans ==
  ASSUME NEW b \in Book, NEW k \in Live(b), NEW m \in Live(b), NEW n \in Live(b), Sooner(b, k, m), Sooner(b, m, n)
  PROVE  Sooner(b, k, n)
<1>1. /\ TickOf(b, k) \in Nat /\ TickOf(b, m) \in Nat /\ TickOf(b, n) \in Nat
      /\ SeqOf(b, k) \in Nat /\ SeqOf(b, m) \in Nat /\ SeqOf(b, n) \in Nat
  BY OrderTypes
<1> QED BY <1>1 DEF Sooner

\* A reap commits book c, its change counter moved on.
LEMMA ReapLeaves ==
  ASSUME EInv, Scanning, Reaping, NEW c \in Book, Thinned(committed.book, c), Even(committed.book, c),
         NEW d, d = BumpSeq(c)
  PROVE  LET b == committed.book
         IN /\ Live(d) = Live(c)
            /\ \A n \in Live(c) : SeqOf(d, n) = SeqOf(b, n) /\ LotsOf(d, n) = LotsOf(b, n)
            /\ \A s \in SeatIds, a \in Assets : SeatTotal(d, s, a) = SeatTotal(b, s, a)
<1>1. d.pool = c.pool /\ d.seats = c.seats
  BY DEF BumpSeq, Book
<1>2. Live(d) = Live(c)
  BY <1>1 DEF Live, IsLive
<1>3. \A n \in Live(c) : SeqOf(d, n) = SeqOf(c, n) /\ LotsOf(d, n) = LotsOf(c, n)
  BY <1>1 DEF SeqOf, LotsOf
<1>4. \A s \in SeatIds, a \in Assets : SeatTotal(d, s, a) = SeatTotal(c, s, a)
  BY <1>1 DEF SeatTotal
<1> QED BY <1>2, <1>3, <1>4, ThinnedOrder DEF Even

\* A reap whose scan has ended (ReapCommit) has done what it is for.
LEMMA ReapCommits ==
  ASSUME EInv, Scanning, ReapCommit PROVE ReapedDue(committed.book, committed'.book, ix, slot)
<1> DEFINE b == committed.book
           d == committed'.book
           due == Due(b, ix, slot)
<1>1. Reaping /\ ix.cur = NIL /\ ReapLevels = {} /\ d = BumpSeq(book)
  BY DEF ReapCommit, Commit
<1>2. /\ Reaped(b, book, ix, slot) /\ b \in Book /\ book \in Book /\ Sound(b) /\ Sound(book)
      /\ ix.reaped \in Nat /\ ix.max \in Nat /\ ix.tick \in Nat
  BY <1>1, ScanFacts
<1>3. Even(b, book)
  BY <1>1 DEF EInv, Since, Reaping
<1>4. /\ Thinned(b, book) /\ Live(b) \ Live(book) = {n \in due : Passed(b, ix, n)}
      /\ ix.reaped = Cardinality(Live(b) \ Live(book)) /\ (ix.reaped < ix.max \/ ix.reaped = 0)
  BY <1>2 DEF Reaped
<1>5. /\ Live(d) = Live(book)
      /\ \A n \in Live(book) : SeqOf(d, n) = SeqOf(b, n) /\ LotsOf(d, n) = LotsOf(b, n)
      /\ \A s \in SeatIds, a \in Assets : SeatTotal(d, s, a) = SeatTotal(b, s, a)
  BY <1>1, <1>2, <1>3, <1>4, ReapLeaves
<1> HIDE DEF b, d
<1>6. Live(b) \ Live(book) = due
  <2> SUFFICES ASSUME NEW n \in due, n \in Live(book) PROVE FALSE
    BY <1>4 DEF Due
  <2>1. n \in Live(b) /\ SideOf(b, n) = ix.side /\ TickOf(b, n) \in Nat
    BY <1>2, OrderTypes DEF Due
  <2>2. ~(TickOf(b, n) < ix.tick)
    BY <1>1, <1>4 DEF Passed
  <2>3. TickOf(b, n) \in TicksOf(book, ix.side)
    BY <1>2, <1>4, <2>1, LiveTick, ThinnedOrder
  <2> QED BY <1>1, <1>2, <2>1, <2>2, <2>3 DEF ReapLevels
<1>7. /\ Cardinality(due) \in Nat /\ Cardinality(due) = ix.reaped
      /\ Cardinality(Live(b) \ Live(d)) = Cardinality(due)
  BY <1>4, <1>5, <1>6, DueCounts
<1>8. Cardinality(due) = Least(IF ix.max = 0 THEN 1 ELSE ix.max, Cardinality(due))
  BY <1>2, <1>4, <1>7 DEF Least
<1>9. ReapedDue(b, d, ix, slot)
  BY <1>5, <1>6, <1>7, <1>8 DEF ReapedDue
<1> QED BY <1>9 DEF b, d

LEMMA LastReaped ==
  ASSUME EInv, Scanning, ReapKill, committed' # committed
  PROVE  ReapedDue(committed.book, committed'.book, ix, slot)
<1> DEFINE b == committed.book
           d == committed'.book
           c == KillOrder(book, ix.cur)
           due == Due(b, ix, slot)
           ended == Live(b) \ Live(c)
<1>1. Reaping /\ ix.cur # NIL /\ Refundable(book, ix.cur)
  BY DEF ReapKill
<1>2. ix.reaped + 1 >= ix.max /\ d = BumpSeq(c)
  <2>1. \A i : ~Continue(c, i)
    BY DEF Continue
  <2> QED BY <2>1 DEF ReapKill, Commit
<1>3. /\ Reaped(b, book, ix, slot) /\ b \in Book /\ book \in Book
      /\ ix.reaped \in Nat /\ ix.max \in Nat
  BY <1>1, ScanFacts
<1>4. /\ ix.cur \in due /\ ix.cur \in Live(book) /\ Thinned(b, c) /\ Live(c) = Live(book) \ {ix.cur}
      /\ ended = (Live(b) \ Live(book)) \cup {ix.cur} /\ Cardinality(ended) = ix.reaped + 1
  BY KillCounts
<1>5. Even(b, c) /\ c \in Book
  <2>1. Even(b, book)
    BY <1>1 DEF EInv, Since, Reaping
  <2>2. Even(book, c)
    BY <1>1, <1>3, <1>4, LiveTicks, KillEven
  <2> QED BY <2>1, <2>2, EvenTrans DEF Even
<1>6. /\ Live(d) = Live(c)
      /\ \A n \in Live(c) : SeqOf(d, n) = SeqOf(b, n) /\ LotsOf(d, n) = LotsOf(b, n)
      /\ \A s \in SeatIds, a \in Assets : SeatTotal(d, s, a) = SeatTotal(b, s, a)
  BY <1>1, <1>2, <1>4, <1>5, ReapLeaves
<1>7. /\ Live(b) \ Live(book) = {n \in due : Passed(b, ix, n)} /\ ix.tick = TickOf(b, ix.cur) + 1
      /\ ix.reaped < ix.max \/ ix.reaped = 0
  BY <1>1, <1>3 DEF Reaped
<1> HIDE DEF b, c, d
<1>8. ended \subseteq due
  BY <1>4, <1>7
<1>9. Cardinality(ended) = Least(IF ix.max = 0 THEN 1 ELSE ix.max, Cardinality(due))
  <2>1. Cardinality(ended) <= Cardinality(due) /\ Cardinality(due) \in Nat
    BY <1>8, DueCounts
  <2> QED BY <1>2, <1>3, <1>4, <1>7, <2>1 DEF Least
<1>10. ASSUME NEW m \in due, NEW n \in ended, Sooner(b, m, n) PROVE m \in ended
  <2>1. m \in Live(b) /\ n \in Live(b) /\ ix.cur \in Live(b)
    BY <1>4, <1>8 DEF Due
  <2>2. Sooner(b, m, ix.cur)
    <3>1. CASE n = ix.cur
      BY <1>10, <3>1
    <3>2. CASE Passed(b, ix, n)
      BY <1>1, <1>3, <1>10, <2>1, <3>2, SoonerTrans DEF Passed
    <3> QED BY <1>4, <1>7, <3>1, <3>2
  <2>3. TickOf(b, m) < ix.tick
    <3>1. TickOf(b, m) \in Nat /\ TickOf(b, ix.cur) \in Nat
      BY <1>3, <2>1, OrderTypes
    <3> QED BY <1>7, <2>2, <3>1 DEF Sooner
  <2> QED BY <1>4, <1>7, <2>2, <2>3 DEF Passed
<1>11. Live(b) \ Live(d) = ended /\ Live(b) \ ended = Live(c)
  BY <1>4, <1>6 DEF Thinned
<1>12. ReapedDue(b, d, ix, slot)
  <2> HIDE DEF ended, due
  <2> QED BY <1>6, <1>8, <1>9, <1>10, <1>11 DEF ReapedDue, due
<1> QED BY <1>12 DEF b, d

\* Reap (reap_expired): on every market whose id counter does not come round, a
\* call that succeeds has ended the first orders due, as many as its budget and
\* one when it has none, and no other.
THEOREM ReapsExactly ==
  ASSUME FreedSeq \notin CancelIds, MaxOrderIds <= FreedSeq PROVE Spec => ReapExact
<1> DEFINE A == Reaping /\ ix' = Idle => FirstDueReaped
<1>1. ASSUME EInv, Scanning, [Next]_vars, committed' # committed PROVE A
  <2> SUFFICES ASSUME Reaping, ix' = Idle PROVE A
    OBVIOUS
  <2>1. ReapCommit \/ ReapKill
    BY <1>1, TidyEnds DEF Reanchoring, Reaping
  <2>2. ReapedDue(Old, New, ix, slot)
    BY <1>1, <2>1, ReapCommits, LastReaped DEF Old, New
  <2>3. \A m \in Live(Old) : m \in Nodes /\ Old.pool[m].lots \in Nat
    BY <1>1, EBook, LiveTicks DEF Old, LotsOf
  <2> HIDE DEF Old, New
  <2>4. \A n \in Live(Old) : Survives(n) <=> n \in Live(New)
    BY <2>2, <2>3 DEF ReapedDue, Survives, Live, SeqOf
  <2>5. {n \in Live(Old) : ~Survives(n)} = Live(Old) \ Live(New)
    BY <2>4
  <2>6. \A n \in Live(Old) : Survives(n) => Gone(n) = 0
    BY <2>2, <2>3, <2>4 DEF ReapedDue, Gone, LotsOf
  <2>7. Due(Old, ix, slot) = {n \in Live(Old) : /\ Old.pool[n].side = ix.side
                                                /\ Old.pool[n].tick >= Least(ix.start, LastTick(Old))
                                                /\ IsExpired(Old, n, slot)}
    BY DEF Due, SideOf, TickOf
  <2> QED BY <2>2, <2>5, <2>6, <2>7 DEF FirstDueReaped, ReapedDue, Sooner, TickOf, SeqOf
<1>2. EInv /\ Scanning /\ [Next]_vars => (EInv /\ Scanning)' /\ [A]_committed
  BY <1>1, ENext, ScanNext
<1>3. Init => EInv /\ Scanning
  BY EInit DEF Init, Idle, Scanning
<1>4. Spec => [][A]_committed
  BY <1>2, <1>3, PTL DEF Spec
<1> QED BY <1>4 DEF ReapExact

-----------------------------------------------------------------------------
(* What a take does to one order                                           *)

\* What is left of order n.
Left(b, n) == IF n \in Live(b) THEN LotsOf(b, n) ELSE 0

\* d is c with x lots off order k, which has ended when none are left.
Drawn(c, d, k, x) ==
  /\ d.anchor = c.anchor /\ d.orderSeq = c.orderSeq /\ d.feeBps = c.feeBps
  /\ Live(d) \subseteq Live(c) /\ Live(c) \ {k} \subseteq Live(d)
  /\ \A n \in Live(d) : \A g \in OrderFields \ {"lots"} : d.pool[n][g] = c.pool[n][g]
  /\ \A n \in Nodes : Left(d, n) = Left(c, n) - IF n = k THEN x ELSE 0

LEMMA KillDraws ==
  ASSUME NEW c \in Book, Sound(c), NEW k \in Live(c), Refundable(c, k)
  PROVE  Drawn(c, KillOrder(c, k), k, LotsOf(c, k)) /\ Live(KillOrder(c, k)) = Live(c) \ {k}
<1> DEFINE d == KillOrder(c, k)
<1>1. k \in Links /\ \A n \in Live(c) : n \in Nodes /\ LotsOf(c, n) \in Nat
  BY LiveTicks
<1>2. d.anchor = c.anchor /\ d.feeBps = c.feeBps
  BY <1>1, KillOrderKept DEF Kept
<1>3. d.orderSeq = c.orderSeq
  BY KillSound DEF Ended
<1>4. Live(d) = Live(c) \ {k} /\ \A m \in Live(c) : m # k => \A g \in OrderFields : d.pool[m][g] = c.pool[m][g]
  BY KillRest
<1> HIDE DEF d
<1>5. \A n \in Nodes : Left(d, n) = Left(c, n) - IF n = k THEN LotsOf(c, k) ELSE 0
  BY <1>1, <1>4 DEF Left, LotsOf, OrderFields
<1> QED BY <1>2, <1>3, <1>4, <1>5 DEF Drawn, d

\* A partial fill leaves the expiry alone.
LEMMA FillExpiry ==
  ASSUME NEW b \in Book, NEW n \in Nodes, NEW tick, NEW lots, lots # b.pool[n].lots, Slot(tick) \in Ring
  PROVE  FillOrder(b, b.pool[n].side, tick, n, lots).pool[n].expiry = b.pool[n].expiry
<1> DEFINE nd == b.pool[n]
           b1 == SettleMaker(b, nd.side, tick, n, lots)
           b2 == SetLots(b1, n, nd.lots - lots)
           l  == Slot(tick)
           x  == -lots
<1>1. Formed(b) /\ Linked(b, n) /\ Chained(b, n)
  BY BookLinked
<1>2. n \in Links
  BY BookAssumption DEF Nodes, Links
<1>3. Paid(b, b1)
  BY <1>1, SettleMakerPaid DEF Chained
<1>4. FillOrder(b, nd.side, tick, n, lots) = AddLots(b2, l, x)
  BY DEF FillOrder
<1> HIDE DEF b1
<1>5. NodeSet(b1, b2, n, "lots", nd.lots - lots)
  BY <1>2, <1>3, NodeWrites, PaidFormed
<1>6. b1.pool = b.pool
  BY <1>3 DEF Paid, But, BookFields
<1> HIDE DEF b2, x, l
<1>7. AddLots(b2, l, x).pool = b2.pool
  BY <1>5 DEF AddLots, NodeSet, But, Formed, BookFields
<1>8. b2.pool[n].expiry = b.pool[n].expiry
  BY <1>5, <1>6 DEF NodeSet, NodeFields
<1> QED BY <1>4, <1>7, <1>8

LEMMA FillDraws ==
  ASSUME NEW c \in Book, Sound(c), NEW k \in Live(c), NEW side, side = SideOf(c, k), NEW tick,
         tick = TickOf(c, k), NEW lots \in Nat \ {0}, lots <= LotsOf(c, k),
         CanUnlock(c, MakerOf(c, k), LockedAsset(side), LockedAtoms(side, tick, lots))
  PROVE  Drawn(c, FillOrder(c, side, tick, k, lots), k, lots)
<1> DEFINE d == FillOrder(c, side, tick, k, lots)
<1>1. k \in Nodes /\ k \in Links /\ tick \in Nat /\ side \in Sides /\ LotsOf(c, k) \in Nat /\ LotsOf(c, k) > 0
  BY LiveTicks DEF Sound, Housed
<1>2. \A n \in Live(c) : n \in Nodes /\ LotsOf(c, n) \in Nat
  BY LiveTicks
<1>3. d.anchor = c.anchor /\ d.feeBps = c.feeBps
  BY <1>1, FillOrderKept DEF Kept, LotsOf, MakerOf
<1>4. CASE lots = LotsOf(c, k)
  <2>1. Ended(c, d, k)
    BY <1>1, <1>4, FillEnds DEF SideOf, LotsOf
  <2> HIDE DEF d
  <2>2. Live(d) = Live(c) \ {k}
    BY <1>1, <2>1, BookAssumption, EndedRead
  <2>3. \A m \in Links \ {k} : \A g \in OrderFields : d.pool[m][g] = c.pool[m][g]
    BY <2>1 DEF Ended, PoolEnded
  <2>4. \A m \in Live(c) : m # k => \A g \in OrderFields : d.pool[m][g] = c.pool[m][g]
    BY <2>3, LiveNodes DEF Nodes, Links
  <2>5. \A n \in Nodes : Left(d, n) = Left(c, n) - IF n = k THEN lots ELSE 0
    BY <1>2, <1>4, <2>2, <2>4 DEF Left, LotsOf, OrderFields
  <2>6. d.orderSeq = c.orderSeq
    BY <2>1 DEF Ended
  <2> QED BY <1>3, <2>2, <2>4, <2>5, <2>6 DEF Drawn, d
<1>5. CASE lots # LotsOf(c, k)
  <2>1. Resized(c, d, k, LotsOf(c, k) - lots)
    <3>1. lots # c.pool[k].lots /\ lots \in Int /\ c.pool[k].lots \in Int
      BY <1>1, <1>5 DEF LotsOf
    <3>2. Slot(tick) = Slot(c.pool[k].tick) /\ side = c.pool[k].side
      BY DEF TickOf, SideOf
    <3> HIDE DEF d
    <3>3. Resized(c, FillOrder(c, c.pool[k].side, tick, k, lots), k, c.pool[k].lots - lots)
      BY <1>1, <3>1, <3>2, FillOrderResizes
    <3>4. d = FillOrder(c, c.pool[k].side, tick, k, lots)
      BY <3>2 DEF d
    <3> QED BY <3>3, <3>4 DEF LotsOf
  <2>2. d.pool[k].expiry = c.pool[k].expiry
    <3>1. Slot(tick) \in Ring
      BY <1>1, BookAssumption DEF Slot, Ring
    <3>2. lots # c.pool[k].lots /\ side = c.pool[k].side
      BY <1>5 DEF SideOf, LotsOf
    <3>3. FillOrder(c, c.pool[k].side, tick, k, lots).pool[k].expiry = c.pool[k].expiry
      <4> HIDE DEF d
      <4> QED BY <1>1, <3>1, <3>2, FillExpiry
    <3> QED BY <3>2, <3>3
  <2> HIDE DEF d
  <2>3. \A g \in OrderFields \ {"lots"} : d.pool[k][g] = c.pool[k][g]
    BY <2>1, <2>2 DEF Resized, NodeFields, OrderFields
  <2>4. \A m \in Links \ {k} : d.pool[m] = c.pool[m]
    BY <2>1 DEF Resized
  <2>5. Live(d) = Live(c)
    BY <2>3, <2>4, LiveNodes DEF Live, IsLive, Nodes, Links, OrderFields
  <2>6. d.pool[k].lots = LotsOf(c, k) - lots /\ d.orderSeq = c.orderSeq
    BY <2>1 DEF Resized, But, BookFields
  <2>7. \A n \in Nodes : Left(d, n) = Left(c, n) - IF n = k THEN lots ELSE 0
    BY <1>1, <1>2, <2>4, <2>5, <2>6 DEF Left, LotsOf, Nodes, Links
  <2>8. ASSUME NEW n \in Live(d) PROVE \A g \in OrderFields \ {"lots"} : d.pool[n][g] = c.pool[n][g]
    <3>1. n \in Links
      BY LiveNodes DEF Nodes, Links
    <3>2. CASE n = k
      BY <2>3, <3>2
    <3>3. CASE n # k
      BY <2>4, <3>1, <3>3
    <3> QED BY <3>2, <3>3
  <2> QED BY <1>3, <2>5, <2>6, <2>7, <2>8 DEF Drawn, d
<1> QED BY <1>4, <1>5

-----------------------------------------------------------------------------
(* The walk of a take                                                      *)

\* c's live orders are some of b's, as they were but for lots taken off.
Slimmed(b, c) ==
  /\ c.anchor = b.anchor /\ c.orderSeq = b.orderSeq /\ c.feeBps = b.feeBps
  /\ Live(c) \subseteq Live(b)
  /\ \A n \in Live(c) : \A g \in OrderFields \ {"lots"} : c.pool[n][g] = b.pool[n][g]
  /\ \A n \in Nodes : Left(c, n) <= Left(b, n)

\* The orders take i may trade with, in book b at slot `now`.
Offers(b, n, i, now) ==
  /\ SideOf(b, n) = BookSide(i)
  /\ IF i.side = "bid" THEN TickOf(b, n) <= i.limit ELSE TickOf(b, n) >= i.limit
  /\ ~IsExpired(b, n, now)
  /\ MakerOf(b, n) # i.seat

\* Tick t is better than u for take i.
Better(i, t, u) == IF i.side = "bid" THEN t < u ELSE t > u

\* m is due before n.
Outranks(b, i, m, n) ==
  \/ Better(i, TickOf(b, m), TickOf(b, n))
  \/ TickOf(b, m) = TickOf(b, n) /\ SeqOf(b, m) < SeqOf(b, n)

\* Take i took something off n.
Hit(b, c, n) == Left(c, n) < Left(b, n)

\* What take i has done on its way from b to c: it left nothing at a better
\* price than its level, filled in order, and took nothing off an order that it
\* may not trade with but to end an expired one or the taker's.
Walked(b, c, i, now) ==
  /\ Slimmed(b, c)
  /\ \A m \in Live(c) : i.at # NoTick /\ SideOf(c, m) = BookSide(i) => ~Better(i, TickOf(c, m), i.at)
  /\ \A m, n \in Live(b) :
       Offers(b, m, i, now) /\ Offers(b, n, i, now) /\ Outranks(b, i, m, n) /\ Hit(b, c, n) => m \notin Live(c)
  /\ \A n \in Live(b) : Hit(b, c, n) /\ ~Offers(b, n, i, now) =>
       /\ SideOf(b, n) = BookSide(i)
       /\ \/ MakerOf(b, n) = i.seat
          \/ n \notin Live(c) /\ IsExpired(b, n, now)

\* What a take's step keeps of its operands.
SameTake(i, j) == j.side = i.side /\ j.limit = i.limit /\ j.seat = i.seat

LEMMA SlimmedRead ==
  ASSUME NEW b, NEW c, Slimmed(b, c), NEW n \in Live(c), NEW i, NEW now
  PROVE  /\ n \in Live(b) /\ TickOf(c, n) = TickOf(b, n) /\ SideOf(c, n) = SideOf(b, n)
         /\ SeqOf(c, n) = SeqOf(b, n) /\ MakerOf(c, n) = MakerOf(b, n)
         /\ (IsExpired(c, n, now) <=> IsExpired(b, n, now)) /\ (Offers(c, n, i, now) <=> Offers(b, n, i, now))
<1>1. \A g \in OrderFields \ {"lots"} : c.pool[n][g] = b.pool[n][g]
  BY DEF Slimmed
<1>2. /\ c.pool[n].tick = b.pool[n].tick /\ c.pool[n].maker = b.pool[n].maker /\ c.pool[n].side = b.pool[n].side
      /\ c.pool[n].expiry = b.pool[n].expiry /\ c.pool[n].seq = b.pool[n].seq
  BY <1>1 DEF OrderFields
<1>3. n \in Live(b)
  BY DEF Slimmed
<1> QED BY <1>2, <1>3 DEF TickOf, SideOf, SeqOf, MakerOf, IsExpired, Offers

LEMMA LeftTypes == ASSUME NEW b \in Book PROVE \A n \in Nodes : Left(b, n) \in Nat
BY LiveTicks DEF Left

\* One more order drawn from, at the level the walk has reached.
LEMMA DrawnSlims ==
  ASSUME NEW b \in Book, NEW c \in Book, NEW d \in Book, Slimmed(b, c), NEW k \in Live(c), NEW x \in Nat, Drawn(c, d, k, x)
  PROVE  Slimmed(b, d)
<1>1. \A n \in Nodes : Left(d, n) <= Left(c, n)
  BY LeftTypes DEF Drawn
<1>2. \A n \in Nodes : Left(d, n) <= Left(b, n)
  BY <1>1, LeftTypes DEF Slimmed
<1> QED BY <1>2 DEF Slimmed, Drawn

\* The level a take looks at is the best one left, and its head is the oldest there.
LEMMA LevelBest ==
  ASSUME SInv, Taking, AtOrder(ix), NEW m \in Live(book), SideOf(book, m) = BookSide(ix),
         ix.at # NoTick => ~Better(ix, TickOf(book, m), ix.at)
  PROVE  ~Better(ix, TickOf(book, m), TakeLevel(book, ix))
<1> DEFINE T == LevelsLeft(book, ix)
           t == TickOf(book, m)
<1>1. IInv /\ book \in Book /\ Sound(book) /\ ix.limit \in Nat /\ ix.side \in Sides
  BY SBook, TakeType DEF SInv, Structured
<1>2. t \in TicksOf(book, BookSide(ix)) /\ t \in Nat
  BY <1>1, LiveTick, LiveTicks
<1>3. T \subseteq 0 .. LastTick(book) /\ LastTick(book) \in Nat
  BY <1>1, BookAssumption DEF LevelsLeft, TicksOf, Book, LastTick
<1>4. SUFFICES ASSUME Better(ix, t, TakeLevel(book, ix)) PROVE FALSE
  OBVIOUS
<1>5. TakeLevel(book, ix) # NoTick
  BY DEF AtOrder
<1>6. T # {} /\ TakeLevel(book, ix) \in T /\ \A u \in T : ~Better(ix, u, TakeLevel(book, ix))
  <2> HIDE DEF T
  <2>1. T # {}
    <3>1. T = {} => TakeLevel(book, ix) = NoTick
      BY DEF TakeLevel, Lowest, Highest, T
    <3> QED BY <1>5, <3>1
  <2>2. /\ Highest(T) \in T /\ \A u \in T : u <= Highest(T)
        /\ Lowest(T) \in T /\ \A u \in T : Lowest(T) <= u
    BY <1>3, <2>1, HighestLowest
  <2>3. T \subseteq Nat
    BY <1>3
  <2> QED BY <2>1, <2>2, <2>3 DEF TakeLevel, Better, T
<1>7. ix.at \in Nat
  BY <1>1, TakeType DEF TakeIx
<1>8. TakeLevel(book, ix) \in Nat
  BY <1>3, <1>6
<1>9. t \in T
  BY <1>1, <1>2, <1>4, <1>6, <1>7, <1>8 DEF LevelsLeft, Better
<1> QED BY <1>4, <1>6, <1>9

LEMMA HeadOldest ==
  ASSUME SInv, Taking, AtOrder(ix), MaxOrderIds <= FreedSeq,
         NEW m \in Live(book), SideOf(book, m) = BookSide(ix), TickOf(book, m) = TakeLevel(book, ix)
  PROVE  SeqOf(book, TakeHead(book, ix)) <= SeqOf(book, m)
<1>1. book \in Book /\ Sound(book)
  BY SBook DEF SInv, Structured
<1>2. m \in Queue(book, BookSide(ix), Slot(TakeLevel(book, ix)))
  BY DEF Queue, SlotOf, TickOf
<1>3. SeqOf(book, HeadOf(book, Slot(TakeLevel(book, ix)))) <= SeqOf(book, m)
  BY <1>1, <1>2, HeadFirst
<1> QED BY <1>3 DEF HeadOf, TakeHead

\* A step of the walk at its head.
LEMMA HeadWalks ==
  ASSUME SInv, Taking, AtOrder(ix), MaxOrderIds <= FreedSeq, NEW b \in Book, Walked(b, book, ix, slot),
         NEW d \in Book, NEW x \in Nat, Drawn(book, d, TakeHead(book, ix), x),
         LET k == TakeHead(book, ix)
         IN Offers(b, k, ix, slot) \/ MakerOf(b, k) = ix.seat \/ (k \notin Live(d) /\ IsExpired(b, k, slot)),
         NEW j, SameTake(ix, j), j.at = TakeLevel(book, ix)
  PROVE  Walked(b, d, j, slot)
<1> DEFINE k == TakeHead(book, ix)
           t == TakeLevel(book, ix)
<1>1. IInv /\ book \in Book /\ Sound(book) /\ t \in Nat /\ t # NoTick /\ ix.side \in Sides
  BY SBook, TakeType, TakeHeadType DEF SInv, Structured, AtOrder
<1>2. k \in Live(book) /\ SideOf(book, k) = BookSide(ix) /\ TickOf(book, k) = t
  BY TakeHeadLive
<1>3. Slimmed(b, book) /\ k \in Live(b) /\ SideOf(b, k) = BookSide(ix) /\ TickOf(b, k) = t
  BY <1>2, SlimmedRead DEF Walked
<1>4. BookSide(j) = BookSide(ix) /\ (\A n : Offers(b, n, j, slot) <=> Offers(b, n, ix, slot))
      /\ (\A u, v : Better(j, u, v) <=> Better(ix, u, v)) /\ (\A m, n : Outranks(b, j, m, n) <=> Outranks(b, ix, m, n))
  BY DEF SameTake, BookSide, Offers, Better, Outranks
<1>5. \A m \in Live(book) : SideOf(book, m) = BookSide(ix) => ~Better(ix, TickOf(book, m), t)
  BY LevelBest DEF Walked
<1> HIDE DEF k, t
<1>6. Drawn(book, d, k, x) /\ Slimmed(b, d)
  BY <1>1, <1>2, <1>3, DrawnSlims DEF k
<1>7. Live(d) \subseteq Live(book) /\ \A m \in Live(d) : SideOf(d, m) = SideOf(book, m) /\ TickOf(d, m) = TickOf(book, m)
  <2>1. \A m \in Live(d) : d.pool[m].side = book.pool[m].side /\ d.pool[m].tick = book.pool[m].tick
    BY <1>6 DEF Drawn, OrderFields
  <2> QED BY <1>6, <2>1 DEF Drawn, SideOf, TickOf
<1>8. \A m \in Live(d) : SideOf(d, m) = BookSide(j) => ~Better(j, TickOf(d, m), j.at)
  BY <1>4, <1>5, <1>7 DEF t
<1>9. \A n \in Live(b) : n # k => (Hit(b, d, n) <=> Hit(b, book, n))
  <2>1. \A n \in Nodes : n # k => Left(d, n) = Left(book, n)
    BY <1>1, <1>6, LeftTypes DEF Drawn
  <2> QED BY <2>1, LiveNodes DEF Hit
<1>10. ASSUME NEW m \in Live(b), NEW n \in Live(b), Offers(b, m, j, slot), Offers(b, n, j, slot),
              Outranks(b, j, m, n), Hit(b, d, n)
       PROVE  m \notin Live(d)
  <2>1. CASE n # k
    BY <1>4, <1>7, <1>9, <1>10, <2>1 DEF Walked
  <2>2. CASE n = k
    <3> SUFFICES ASSUME m \in Live(book) PROVE FALSE
      BY <1>7
    <3>1. SideOf(book, m) = BookSide(ix) /\ TickOf(book, m) = TickOf(b, m) /\ SeqOf(book, m) = SeqOf(b, m)
      BY <1>3, <1>4, <1>10, SlimmedRead DEF Offers
    <3>2. ~Better(ix, TickOf(b, m), TickOf(b, k))
      BY <1>3, <1>5, <3>1
    <3>3. TickOf(b, m) = t /\ SeqOf(b, m) < SeqOf(b, k)
      BY <1>3, <1>4, <1>10, <2>2, <3>2 DEF Outranks
    <3>4. SeqOf(book, k) <= SeqOf(book, m)
      BY <3>1, <3>3, HeadOldest DEF k, t
    <3>5. SeqOf(book, k) = SeqOf(b, k) /\ SeqOf(b, k) \in Nat /\ SeqOf(b, m) \in Nat
      BY <1>2, <1>3, <1>10, SlimmedRead, OrderTypes
    <3> QED BY <3>1, <3>3, <3>4, <3>5
  <2> QED BY <2>1, <2>2
<1>11. ASSUME NEW n \in Live(b), Hit(b, d, n), ~Offers(b, n, j, slot)
       PROVE  /\ SideOf(b, n) = BookSide(j)
              /\ (MakerOf(b, n) = j.seat \/ (n \notin Live(d) /\ IsExpired(b, n, slot)))
  <2>1. CASE n # k
    BY <1>4, <1>7, <1>9, <1>11, <2>1 DEF Walked, SameTake
  <2>2. CASE n = k
    BY <1>3, <1>4, <1>11, <2>2 DEF SameTake, k
  <2> QED BY <2>1, <2>2
<1> QED BY <1>6, <1>8, <1>10, <1>11 DEF Walked

-----------------------------------------------------------------------------
(* What a limit order rests                                                *)

\* Node n is there in book c, with expiry x.
Expires(c, n, x) ==
  /\ "pool" \in DOMAIN c /\ n \in DOMAIN c.pool
  /\ "expiry" \in DOMAIN c.pool[n] /\ c.pool[n].expiry = x

\* Nothing but SetExpiry writes it.
LEMMA SettersExpire ==
  ASSUME NEW c, NEW n, NEW e, Expires(c, n, e), NEW x, NEW y, NEW z
  PROVE  /\ Expires(SetOrdersHead(c, x, y), n, e) /\ Expires(SetOrderCount(c, x, y), n, e)
         /\ Expires(SetFree(c, x, y, z), n, e) /\ Expires(SetLocked(c, x, y, z), n, e)
         /\ Expires(SetPrev(c, x, y), n, e) /\ Expires(SetNext(c, x, y), n, e)
         /\ Expires(SetMakerPrev(c, x, y), n, e) /\ Expires(SetMakerNext(c, x, y), n, e)
         /\ Expires(SetTick(c, x, y), n, e) /\ Expires(SetMaker(c, x, y), n, e)
         /\ Expires(SetSide(c, x, y), n, e) /\ Expires(SetLots(c, x, y), n, e)
         /\ Expires(SetSeq(c, x, y), n, e) /\ Expires(SetHead(c, x, y), n, e)
         /\ Expires(SetTail(c, x, y), n, e) /\ Expires(AddLots(c, x, y), n, e)
         /\ Expires(SetBit(c, x, y), n, e) /\ Expires(SetFreeHead(c, x), n, e)
         /\ Expires(SetFreeCount(c, x), n, e) /\ Expires(SetOrderSeq(c, x), n, e)
         /\ Expires(SetExpiry(c, n, x), n, x)
<1>1. /\ Expires(SetOrdersHead(c, x, y), n, e) /\ Expires(SetOrderCount(c, x, y), n, e)
      /\ Expires(SetFree(c, x, y, z), n, e) /\ Expires(SetLocked(c, x, y, z), n, e)
  BY DEF Expires, SetOrdersHead, SetOrderCount, SetFree, SetLocked
<1>2. /\ Expires(SetPrev(c, x, y), n, e) /\ Expires(SetNext(c, x, y), n, e)
      /\ Expires(SetMakerPrev(c, x, y), n, e) /\ Expires(SetMakerNext(c, x, y), n, e)
  BY DEF Expires, SetPrev, SetNext, SetMakerPrev, SetMakerNext
<1>3. /\ Expires(SetTick(c, x, y), n, e) /\ Expires(SetMaker(c, x, y), n, e) /\ Expires(SetSide(c, x, y), n, e)
      /\ Expires(SetLots(c, x, y), n, e) /\ Expires(SetSeq(c, x, y), n, e) /\ Expires(SetExpiry(c, n, x), n, x)
  BY DEF Expires, SetTick, SetMaker, SetSide, SetLots, SetSeq, SetExpiry
<1>4. /\ Expires(SetHead(c, x, y), n, e) /\ Expires(SetTail(c, x, y), n, e) /\ Expires(AddLots(c, x, y), n, e)
      /\ Expires(SetBit(c, x, y), n, e) /\ Expires(SetFreeHead(c, x), n, e)
      /\ Expires(SetFreeCount(c, x), n, e) /\ Expires(SetOrderSeq(c, x), n, e)
  BY DEF Expires, SetHead, SetTail, AddLots, SetBit, SetFreeHead, SetFreeCount, SetOrderSeq
<1> QED BY <1>1, <1>2, <1>3, <1>4

LEMMA BookExpires == ASSUME NEW b \in Book, NEW n \in Links PROVE Expires(b, n, b.pool[n].expiry)
<1>1. Formed(b)
  BY BookFormed
<1> QED BY <1>1 DEF Formed, BookFields, NodeFields, Expires

\* An order has the expiry it was posted with,
LEMMA SpliceExpires ==
  ASSUME NEW c \in Book, c.freeHead \in Links, NEW s, NEW side, NEW tick, NEW lots, NEW expiry
  PROVE  LET n == c.freeHead
         IN \A p, m : ChainSplice(LockAndInsert(c, s, side, tick, lots, expiry), s, p, m, n).pool[n].expiry = expiry
<1> DEFINE n  == c.freeHead
           b0 == Lock(c, s, LockedAsset(side), LockedAtoms(side, tick, lots))
           id == NextOrderId(b0)
           b1 == SetOrderSeq(AllocNode(b0), id + 1)
           b2 == SetSide(SetMaker(SetTick(b1, n, tick), n, s), n, side)
           b3 == SetSeq(SetExpiry(SetLots(b2, n, lots), n, expiry), n, id)
           b4 == FifoAppend(b3, side, tick, n, lots)
<1>1. Expires(c, n, c.pool[n].expiry)
  BY BookExpires
<1>2. b0.freeHead = n
  BY DEF Lock, SetFree, SetLocked, Book
<1> HIDE DEF n
<1>3. PICK e : Expires(b0, n, e)
  <2>1. \A a, x : Expires(SetFree(c, s, a, x), n, c.pool[n].expiry)
    BY <1>1, SettersExpire
  <2>2. \A a, x, d, y : Expires(SetLocked(SetFree(c, s, a, x), s, d, y), n, c.pool[n].expiry)
    BY <2>1, SettersExpire
  <2> QED BY <2>2 DEF Lock
<1> HIDE DEF b0
<1>4. LockAndInsert(c, s, side, tick, lots, expiry) = b4
  BY <1>2 DEF LockAndInsert, BookInsert, b0
<1>5. Expires(b1, n, e)
  <2>1. \A x, y : Expires(SetFreeCount(SetFreeHead(b0, x), y), n, e)
    BY <1>3, SettersExpire
  <2> QED BY <2>1, SettersExpire DEF AllocNode
<1> HIDE DEF b1, id
<1>6. Expires(b2, n, e)
  BY <1>5, SettersExpire
<1> HIDE DEF b2
<1>7. Expires(b3, n, expiry)
  BY <1>6, SettersExpire
<1> HIDE DEF b3
<1>8. Expires(b4, n, expiry)
  <2> DEFINE l == Slot(tick)
             longer == AddLots(SetTail(b3, l, n), l, lots)
  <2>1. Expires(longer, n, expiry)
    BY <1>7, SettersExpire
  <2>2. \A d, x, y : /\ Expires(SetNext(SetPrev(SetNext(d, x, n), n, x), n, y), n, expiry)
                     /\ Expires(SetBit(SetNext(SetPrev(SetHead(d, l, n), n, x), n, y), side, l), n, expiry)
                     \/ ~Expires(d, n, expiry)
    BY SettersExpire
  <2> HIDE DEF longer
  <2> QED BY <2>1, <2>2 DEF FifoAppend, longer
<1> HIDE DEF b4
<1>9. \A p, m : Expires(ChainSplice(b4, s, p, m, n), n, expiry)
  <2> SUFFICES ASSUME NEW p, NEW m PROVE Expires(ChainSplice(b4, s, p, m, n), n, expiry)
    OBVIOUS
  <2> DEFINE own == SetMakerNext(SetMakerPrev(b4, n, p), n, m)
             fwd == IF p = NIL THEN SetOrdersHead(own, s, n) ELSE SetMakerNext(own, p, n)
             bwd == IF m = NIL THEN fwd ELSE SetMakerPrev(fwd, m, n)
  <2>1. Expires(own, n, expiry)
    BY <1>8, SettersExpire
  <2> HIDE DEF own
  <2>2. Expires(fwd, n, expiry)
    BY <2>1, SettersExpire
  <2> HIDE DEF fwd
  <2>3. Expires(bwd, n, expiry)
    BY <2>2, SettersExpire
  <2> HIDE DEF bwd
  <2> QED BY <2>3, SettersExpire DEF ChainSplice, bwd, fwd, own
<1> QED BY <1>4, <1>9 DEF Expires, n

LEMMA InsertExpires ==
  ASSUME NEW c \in Book, c.freeHead \in Links, NEW s, NEW side, NEW tick, NEW lots, NEW expiry
  PROVE  LET n == c.freeHead
             f == ChainInsertSorted(LockAndInsert(c, s, side, tick, lots, expiry), s, n)
         IN f.pool[n].expiry = expiry
<1> DEFINE n == c.freeHead
           b == LockAndInsert(c, s, side, tick, lots, expiry)
<1>1. \A p, m : ChainSplice(b, s, p, m, n).pool[n].expiry = expiry
  BY SpliceExpires
<1> HIDE DEF n, b
<1>2. \E p, m : ChainInsertSorted(b, s, n) = ChainSplice(b, s, p, m, n)
  BY DEF ChainInsertSorted
<1>3. ChainInsertSorted(b, s, n).pool[n].expiry = expiry
  BY <1>1, <1>2
<1> QED BY <1>3 DEF n, b

\* or sized down with.
LEMMA ShrinkExpires ==
  ASSUME NEW b \in Book, NEW n \in Links, NEW s, NEW lots, NEW expiry
  PROVE  ShrinkOrder(b, s, n, lots, expiry).pool[n].expiry = expiry
<1> DEFINE nd   == b.pool[n]
           less == Unlock(b, s, LockedAsset(nd.side), LockedAtoms(nd.side, nd.tick, nd.lots - lots))
           d    == SetExpiry(SetLots(less, n, lots), n, expiry)
<1>1. Expires(b, n, nd.expiry)
  BY BookExpires
<1>2. Expires(less, n, nd.expiry)
  <2>1. \A a, x : Expires(SetFree(b, s, a, x), n, nd.expiry) /\ Expires(SetLocked(b, s, a, x), n, nd.expiry)
    BY <1>1, SettersExpire
  <2>2. \A a, x, e, y : Expires(SetLocked(SetFree(b, s, a, x), s, e, y), n, nd.expiry)
    BY <2>1, SettersExpire
  <2>3. \A a, x, e, y : Expires(SetFree(SetLocked(b, s, a, x), s, e, y), n, nd.expiry)
    BY <2>1, SettersExpire
  <2> QED BY <2>2, <2>3 DEF Unlock
<1>3. ShrinkOrder(b, s, n, lots, expiry) = AddLots(d, Slot(nd.tick), lots - nd.lots)
  BY DEF ShrinkOrder
<1> HIDE DEF less
<1>4. Expires(d, n, expiry)
  BY <1>2, SettersExpire
<1> HIDE DEF d
<1>5. \A l, x : Expires(AddLots(d, l, x), n, expiry)
  BY <1>4, SettersExpire
<1> QED BY <1>3, <1>5 DEF Expires

\* A limit order that rests leaves one order at its price, and its seat's other
\* orders and everybody else's as they were.
Rested(b, f, s, side, tick, lots, expiry) ==
  /\ \E n : /\ QuotesAt(f, s, side, tick) = {n}
            /\ f.pool[n].lots = lots /\ f.pool[n].expiry = expiry
  /\ \A k \in Live(b) \ QuotesAt(b, s, side, tick) : k \in Live(f) /\ \A g \in OrderFields : f.pool[k][g] = b.pool[k][g]
  /\ \A k \in Live(f) : (k \in Live(b) /\ SeqOf(f, k) = SeqOf(b, k)) \/ SeqOf(f, k) >= b.orderSeq

\* A seat has one quote at a price, if any.
LEMMA QuotesOne ==
  ASSUME NEW b \in Book, Sound(b), NEW s \in SeatIds, NEW side \in Sides, NEW tick \in 0 .. TickLimit,
         NEW n \in QuotesAt(b, s, side, tick)
  PROVE  QuotesAt(b, s, side, tick) = {n}
<1>1. \A k \in QuotesAt(b, s, side, tick) : k \in LiveOf(b, s) /\ PlaceOf(b, k) = PlaceAt(side, tick)
  <2>1. \A k \in QuotesAt(b, s, side, tick) : k \in LiveOf(b, s) /\ k \in Nodes /\ b.pool[k].side = side /\ b.pool[k].tick = tick
    BY DEF QuotesAt, LiveOf
  <2> QED BY <2>1, PlaceIs
<1>2. Distinct(b)
  BY DEF Sound, ChainsAt
<1> QED BY <1>1, <1>2 DEF Distinct

LEMMA ShrinkRests ==
  ASSUME NEW b \in Book, Sound(b), NEW s \in SeatIds, NEW side \in Sides, NEW tick \in 0 .. TickLimit,
         NEW lots \in Nat \ {0}, NEW expiry, Amends(b, s, side, tick, lots)
  PROVE  Rested(b, ShrinkOrder(b, s, QuoteAt(b, s, side, tick), lots, expiry), s, side, tick, lots, expiry)
<1> DEFINE n == QuoteAt(b, s, side, tick)
           f == ShrinkOrder(b, s, n, lots, expiry)
<1>1. n \in QuotesAt(b, s, side, tick)
  BY DEF Amends, QuoteAt
<1>2. QuotesAt(b, s, side, tick) = {n}
  BY <1>1, QuotesOne
<1>3. n \in Nodes /\ n \in Links /\ n \in Live(b) /\ \A k \in Live(b) : k \in Links
  BY <1>1, LiveNodes DEF QuotesAt, LiveOf, Live, Nodes, Links
<1> HIDE DEF n
<1>4. Resized(b, f, n, lots) /\ f.pool[n].expiry = expiry
  BY <1>3, ShrinkOrderResizes, ShrinkExpires
<1> HIDE DEF f
<1>5. /\ \A k \in Links \ {n} : f.pool[k] = b.pool[k]
      /\ f.pool[n].lots = lots /\ f.pool[n].seq = b.pool[n].seq /\ f.pool[n].maker = b.pool[n].maker
      /\ f.pool[n].side = b.pool[n].side /\ f.pool[n].tick = b.pool[n].tick
  BY <1>4 DEF Resized, NodeFields
<1>6. \A k \in Nodes : /\ f.pool[k].seq = b.pool[k].seq /\ f.pool[k].maker = b.pool[k].maker
                       /\ f.pool[k].side = b.pool[k].side /\ f.pool[k].tick = b.pool[k].tick
  <2>1. \A k \in Nodes : k = n \/ k \in Links \ {n}
    BY DEF Nodes, Links
  <2> QED BY <1>5, <2>1
<1>7. Live(f) = Live(b) /\ QuotesAt(f, s, side, tick) = {n}
  BY <1>2, <1>6 DEF Live, IsLive, QuotesAt, LiveOf
<1>8. \A k \in Live(f) : SeqOf(f, k) = SeqOf(b, k)
  BY <1>6, <1>7, LiveNodes DEF SeqOf
<1> QED BY <1>2, <1>3, <1>4, <1>5, <1>7, <1>8 DEF Rested, f, n

LEMMA PostRests ==
  ASSUME NEW b \in Book, Sound(b), Capped(b), NEW s \in SeatIds, NEW side \in Sides,
         NEW tick \in 0 .. TickLimit, InWindow(b, tick), Clear(b, side, tick), NEW lots \in Nat \ {0},
         NEW expiry \in Nat, OwnerOf(b, s) # Nobody,
         Dateable(b), MaxOrderIds <= FreedSeq, ~Amends(b, s, side, tick, lots), CanPost(b, s, side, tick, lots)
  PROVE  Rested(b, Post(b, s, side, tick, lots, expiry), s, side, tick, lots, expiry)
<1> DEFINE c == Cleared(b, s, side, tick, lots)
           n == c.freeHead
           f == ChainInsertSorted(LockAndInsert(c, s, side, tick, lots, expiry), s, n)
           Q == QuotesAt(b, s, side, tick)
<1>1. /\ Sound(c) /\ Clears(b, c)
      /\ OwnerOf(c, s) = OwnerOf(b, s) /\ c.orderSeq = b.orderSeq
      /\ \A k \in LiveOf(c, s) : PlaceOf(c, k) # PlaceAt(side, tick)
  BY ClearedSound
<1>2. /\ c \in Book /\ CanInsert(c, s, side, tick, lots)
      /\ Live(c) \subseteq Live(b) /\ Live(b) \ Q \subseteq Live(c)
      /\ \A k \in Live(c) : \A g \in OrderFields : c.pool[k][g] = b.pool[k][g]
  <2>2. CASE Grows(b, s, side, tick, lots)
    <3> DEFINE q == QuoteAt(b, s, side, tick)
    <3>1. Refundable(b, q) /\ q \in Links /\ q \in Q /\ q \in Live(b)
      <4>1. q \in Q
        BY <2>2 DEF Grows, QuoteAt
      <4> QED BY <2>2, <4>1, QuoteAtType DEF CanPost, Grows, QuotesAt, LiveOf, Live
    <3> HIDE DEF q
    <3>2. KillOrder(b, q) \in Book
      BY <3>1, KillOrderKept, KeptBook
    <3>3. /\ Live(KillOrder(b, q)) = Live(b) \ {q}
          /\ \A m \in Live(b) : m # q => \A g \in OrderFields : KillOrder(b, q).pool[m][g] = b.pool[m][g]
      BY <3>1, KillRest
    <3>4. c = KillOrder(b, q)
      BY <2>2 DEF Cleared, q
    <3>5. CanInsert(c, s, side, tick, lots)
      BY DEF CanPost
    <3> HIDE DEF c, Q
    <3> QED BY <3>1, <3>2, <3>3, <3>4, <3>5
  <2>3. CASE ~Grows(b, s, side, tick, lots)
    BY <2>3 DEF CanPost, Cleared
  <2> HIDE DEF c, Q
  <2> QED BY ONLY <2>2, <2>3
<1>3. Post(b, s, side, tick, lots, expiry) = f
  BY DEF Post
<1> HIDE DEF c
<1>17. Dateable(c)
  BY <1>1 DEF Dateable
<1>16. InWindow(c, tick) /\ Clear(c, side, tick) /\ tick \in Nat
  BY <1>1, ClearsTicks DEF InWindow, LastTick, Clears
<1>4. InWindow(c, tick) /\ Clear(c, side, tick) /\ tick \in Nat /\ Dateable(c)
  BY <1>16, <1>17
<1>5. Slot(tick) \notin c.bits[Opposite(side)]
  BY <1>4, ClearSlot
<1>6. Sound(f) /\ \E p, m : Entered(c, f, n, side, tick, lots, s, p, m) /\ n \in Nodes /\ n \notin Live(c)
  BY <1>1, <1>2, <1>4, <1>5, SortedSound
<1>7. f.pool[n].expiry = expiry
  <2>1. n \in Links
    BY <1>6 DEF Nodes, Links
  <2> QED BY <1>2, <2>1, InsertExpires
<1> HIDE DEF f, n
<1>8. PICK p, m : Entered(c, f, n, side, tick, lots, s, p, m) /\ n \in Nodes /\ n \notin Live(c)
  BY <1>6
<1>9. NextOrderId(c) = c.orderSeq /\ c.orderSeq # FreedSeq
  BY <1>4, BookAssumption DEF Dateable, NextOrderId, Book
<1>10. Live(f) = Live(c) \cup {n}
  BY <1>8, <1>9, EnteredLive
<1>11. /\ \A k \in Links \ {n} : \A g \in OrderFields : f.pool[k][g] = c.pool[k][g]
       /\ f.pool[n].tick = tick /\ f.pool[n].maker = s /\ f.pool[n].side = side /\ f.pool[n].lots = lots
       /\ f.pool[n].seq = c.orderSeq
  BY <1>8, <1>9 DEF Entered, PoolEntered
<1>12. \A k \in Live(c) : k \in Links \ {n} /\ k \in Nodes
  BY <1>8, LiveNodes DEF Nodes, Links
<1>13. QuotesAt(f, s, side, tick) = {n}
  <2>1. n \in QuotesAt(f, s, side, tick)
    BY <1>8, <1>10, <1>11 DEF QuotesAt, LiveOf, Live
  <2>2. ASSUME NEW k \in QuotesAt(f, s, side, tick), k # n PROVE FALSE
    <3>1. k \in Live(c) /\ f.pool[k].maker = s /\ f.pool[k].side = side /\ f.pool[k].tick = tick
      BY <1>10, <2>2 DEF QuotesAt, LiveOf, Live
    <3>2. c.pool[k].maker = s /\ c.pool[k].side = side /\ c.pool[k].tick = tick
      BY <1>11, <1>12, <3>1 DEF OrderFields
    <3>3. k \in LiveOf(c, s) /\ PlaceOf(c, k) = PlaceAt(side, tick)
      BY <1>2, <1>12, <3>1, <3>2, PlaceIs DEF LiveOf, Live
    <3> QED BY <1>1, <3>3
  <2> QED BY <2>1, <2>2
<1>14. \A k \in Live(f) : (k \in Live(b) /\ SeqOf(f, k) = SeqOf(b, k)) \/ SeqOf(f, k) >= b.orderSeq
  <2>1. \A k \in Live(c) : f.pool[k].seq = b.pool[k].seq
    BY <1>2, <1>11, <1>12 DEF OrderFields
  <2>2. b.orderSeq \in Nat
    BY DEF Book
  <2> QED BY <1>1, <1>2, <1>10, <1>11, <2>1, <2>2 DEF SeqOf
<1>15. \A k \in Live(b) \ Q : k \in Live(f) /\ \A g \in OrderFields : f.pool[k][g] = b.pool[k][g]
  BY <1>2, <1>10, <1>11, <1>12
<1> QED BY <1>3, <1>7, <1>11, <1>13, <1>14, <1>15 DEF Rested

LEMMA UpsertRests ==
  ASSUME NEW b \in Book, WindowClear(b), Sound(b), Capped(b), NEW s \in SeatIds, NEW side \in Sides,
         NEW tick \in Nat, NEW lots \in Nat \ {0}, NEW expiry \in Nat,
         OwnerOf(b, s) # Nobody, Dateable(b), MaxOrderIds <= FreedSeq, CanUpsert(b, s, side, tick, lots, FALSE)
  PROVE  Rested(b, Upsert(b, s, side, tick, lots, expiry, FALSE), s, side, tick, lots, expiry)
<1> DEFINE opposing == BestOf(b, Opposite(side))
           t == CheckOrSlideVs(b, side, tick, FALSE, opposing)
<1>1. t # NoTick /\ t = CheckOrSlide(b, side, tick, FALSE)
  BY DEF CanUpsert, CheckOrSlide
<1>0. t = tick
  BY <1>1 DEF CheckOrSlideVs
<1>2. Bounds(b, side, opposing)
  BY BestBounds
<1>3. Opposite(side) \in Sides
  BY DEF Opposite, Sides
<1>4. opposing = NoTick \/ InWindow(b, opposing)
  BY <1>3, BestOfInWindow
<1> HIDE DEF opposing
<1>5. InWindow(b, t)
  BY <1>1, <1>4, CheckOrSlideVsInWindow
<1>6. Clear(b, side, t)
  BY <1>1, <1>2, <1>4, CheckOrSlideClear
<1> HIDE DEF t
<1>7. t \in 0 .. TickLimit
  BY <1>5, WindowTick
<1>8. CASE Amends(b, s, side, t, lots)
  <2>1. Upsert(b, s, side, tick, lots, expiry, FALSE) = ShrinkOrder(b, s, QuoteAt(b, s, side, t), lots, expiry)
    BY <1>1, <1>8 DEF Upsert
  <2> QED BY <1>0, <1>7, <1>8, <2>1, ShrinkRests
<1>9. CASE ~Amends(b, s, side, t, lots)
  <2>1. CanPost(b, s, side, t, lots)
    BY <1>1, <1>9 DEF CanUpsert
  <2>2. Upsert(b, s, side, tick, lots, expiry, FALSE) = Post(b, s, side, t, lots, expiry)
    BY <1>1, <1>9 DEF Upsert
  <2> QED BY <1>0, <1>5, <1>6, <1>7, <1>9, <2>1, <2>2, PostRests
<1> QED BY <1>8, <1>9

-----------------------------------------------------------------------------
(* What a take leaves                                                      *)

\* A limit order has lots left to rest.
Leftover(i) == i.kind = "PlaceLimit" /\ Remaining(i) # 0

\* Take i ends on book b and leaves d: other orders than the taker's at its own
\* limit are as they were, what is new has a new id, and what it could not
\* match rests.
Leaves(b, d, i) ==
  /\ \A k \in Live(b) : ~(Leftover(i) /\ k \in QuotesAt(b, i.seat, i.side, i.limit)) =>
       k \in Live(d) /\ \A g \in OrderFields : d.pool[k][g] = b.pool[k][g]
  /\ \A k \in Live(d) : (k \in Live(b) /\ SeqOf(d, k) = SeqOf(b, k)) \/ SeqOf(d, k) >= b.orderSeq
  /\ Leftover(i) => \E n : /\ QuotesAt(d, i.seat, i.side, i.limit) = {n}
                        /\ d.pool[n].lots = Remaining(i) /\ d.pool[n].expiry = i.expiry

LEMMA CreditedLeaves ==
  ASSUME NEW b \in Book, NEW c, Credited(b, c), NEW i, ~Leftover(i)
  PROVE  Leaves(b, BumpSeq(c), i)
<1>1. c.pool = b.pool /\ Formed(c)
  BY CreditedFormed DEF Credited, Paid, But, BookFields
<1>2. BumpSeq(c).pool = b.pool
  BY <1>1 DEF BumpSeq, Formed, BookFields
<1>3. Live(BumpSeq(c)) = Live(b)
  BY <1>2 DEF Live, IsLive
<1> QED BY <1>2, <1>3 DEF Leaves, SeqOf

LEMMA RestedLeaves ==
  ASSUME NEW b \in Book, NEW paid \in Book, Credited(b, paid), NEW f \in Book, NEW i, Leftover(i),
         Rested(paid, f, i.seat, i.side, i.limit, Remaining(i), i.expiry)
  PROVE  Leaves(b, BumpSeq(f), i)
<1>1. paid.pool = b.pool /\ paid.orderSeq = b.orderSeq
  BY DEF Credited, Paid, But, BookFields
<1>2. BumpSeq(f).pool = f.pool
  BY DEF BumpSeq, Book
<1>3. Live(BumpSeq(f)) = Live(f) /\ Live(paid) = Live(b)
      /\ QuotesAt(BumpSeq(f), i.seat, i.side, i.limit) = QuotesAt(f, i.seat, i.side, i.limit)
      /\ QuotesAt(paid, i.seat, i.side, i.limit) = QuotesAt(b, i.seat, i.side, i.limit)
  BY <1>1, <1>2 DEF Live, IsLive, QuotesAt, LiveOf
<1>4. \A k : SeqOf(BumpSeq(f), k) = SeqOf(f, k) /\ SeqOf(paid, k) = SeqOf(b, k)
  BY <1>1, <1>2 DEF SeqOf
<1> QED BY <1>1, <1>2, <1>3, <1>4 DEF Leaves, Rested

LEMMA LimitLeaves ==
  ASSUME SInv, MaxOrderIds <= FreedSeq, EndPlaceLimit, ~Abort
  PROVE  Leaves(book, committed'.book, ix)
<1> DEFINE acc  == Accrued(book, ix)
           paid == SettleTaker(acc, ix)
           rest == Remaining(ix)
           done == Upsert(paid, ix.seat, ix.side, ix.limit, rest, ix.expiry, FALSE)
<1>0. IInv /\ book \in Book /\ Sound(book)
  BY SBook DEF SInv, Structured
<1>1. Taking /\ ix.kind # "Swap" /\ ix.kind = "PlaceLimit" /\ Good(acc) /\ Credited(book, paid)
  BY <1>0, AccruedGood, SettledCredited DEF EndPlaceLimit, TakeOver
<1>3. ix.op # "MassQuote"
  BY <1>1 DEF Taking
<1>4. CASE rest = 0 /\ Commit(paid, vault)
  <2>1. ~Leftover(ix)
    BY <1>4 DEF Leftover
  <2>2. committed'.book = BumpSeq(paid)
    BY <1>4 DEF Commit
  <2> HIDE DEF paid
  <2> QED BY <1>0, <1>1, <2>1, <2>2, CreditedLeaves
<1>5. CASE /\ SeatPays(acc, ix) /\ rest # 0 /\ Commit(done, vault)
           /\ CanUpsert(paid, ix.seat, ix.side, ix.limit, rest, FALSE)
  <2>1. paid \in Book /\ WindowClear(paid)
    BY <1>0, <1>1, <1>5, SettleTakerGood DEF Good, Header
  <2>2. rest \in Nat \ {0}
    BY <1>0, <1>1, <1>5, TakeType DEF Remaining
  <2>3. ix.seat \in SeatIds /\ ix.side \in Sides /\ ix.limit \in Nat /\ ix.expiry \in Nat /\ FALSE \in BOOLEAN
    BY <1>0, <1>1, TakeType
  <2>9. Leftover(ix) /\ committed'.book = BumpSeq(done)
    BY <1>1, <1>5 DEF Leftover, Commit
  <2> HIDE DEF paid
  <2>4. Sound(paid) /\ Thins(book, paid)
    BY <1>0, <1>1, CreditedThins
  <2>8. Dateable(paid)
    <3>1. Dateable(book)
      BY <1>1, DateRoom DEF Taking
    <3>2. paid.orderSeq = book.orderSeq
      BY <1>1 DEF Credited, Paid, But, BookFields
    <3> QED BY <3>1, <3>2 DEF Dateable
  <2>5. Capped(paid) /\ OwnerOf(paid, ix.seat) # Nobody
    <3>1. Capped(book) /\ OwnerOf(book, ix.seat) # Nobody
      BY <1>1, <1>3 DEF SInv, Structured, Working, Taking
    <3>2. Capped(paid)
      BY <2>4, <3>1, ThinsCapped
    <3> QED BY <2>3, <2>4, <3>1, <3>2 DEF Thins
  <2> HIDE DEF rest
  <2>6. Rested(paid, done, ix.seat, ix.side, ix.limit, rest, ix.expiry)
    BY <1>5, <2>1, <2>2, <2>3, <2>4, <2>5, <2>8, UpsertRests
  <2>7. done \in Book
    BY <1>5, <2>1, <2>2, <2>3, UpsertKept, KeptBook
  <2> HIDE DEF done
  <2> QED BY <1>0, <1>1, <2>1, <2>6, <2>7, <2>9, RestedLeaves DEF rest
<1> QED BY <1>4, <1>5 DEF EndPlaceLimit

\* A take's steps, and the ends of it.
LEMMA Takes ==
  ASSUME EInv, [Next]_vars, ix'.op = "Take"
  PROVE  TakerNext \/ (Taking /\ (TakeExpired \/ TakeOwn \/ TakeFill)) \/ UNCHANGED vars
<1>0. ix'.op # "Idle" /\ ix'.op # "MassQuote" /\ ix'.op # "Reanchor" /\ ix'.op # "ReapExpired"
  OBVIOUS
<1>1. \A b, v : ~Commit(b, v)
  BY <1>0 DEF Commit, Idle
<1>2. ~Abort
  BY <1>0 DEF Abort, Idle
<1>4. ~CustodyNext
  BY <1>1 DEF CustodyNext, ClaimSeat, CloseSeat, Deposit, Withdraw, CollectFees, UpdateFee
<1>5. ~MakerNext
  <2>1. \A s, bids, asks, expiry : ~BeginMassQuote(s, bids, asks, expiry)
    BY <1>0 DEF BeginMassQuote, Continue
  <2> QED BY <1>1, <2>1 DEF MakerNext, PostOnly, CancelQuote, Cancel
<1>6. ~HygieneNext
  BY <1>0 DEF HygieneNext, BeginReanchor, BeginReap, Continue
<1>7. ~MergeStep
  <2> SUFFICES ASSUME MergeStep PROVE FALSE
    OBVIOUS
  <2>1. ix \in MassQuoteIx
    BY EBook, MergeType DEF MergeStep, MergeRefuse, MergeCancel, MergeKeep, MergeInsert, MergeRepost,
                            MergeAsks, MergeCommit, MergeDone
  <2>3. \A b, next, tick : ~MassQuoteInsert(b, next, tick)
    BY ZenonT(60), <1>0, <1>2, <2>1 DEF MassQuoteInsert, Continue, MassQuoteIx
  <2>4. ~MergeCancel /\ ~MergeKeep /\ ~MergeAsks
    BY <1>0, <2>1 DEF MergeCancel, MergeKeep, MergeAsks, Continue, MassQuoteIx
  <2>5. ~MergeRefuse /\ ~MergeCommit
    BY <1>1, <1>2 DEF MergeRefuse, MergeCommit
  <2> QED BY <2>3, <2>4, <2>5 DEF MergeStep, MergeInsert, MergeRepost
<1>8. ~HygieneStep
  <2>1. ~(EnterWord \/ EvictOrder \/ LeaveWord)
    <3> SUFFICES ASSUME EnterWord \/ EvictOrder \/ LeaveWord PROVE FALSE
      OBVIOUS
    <3>1. ix \in ReanchorIx
      BY EBook, ReanchorType DEF EnterWord, EvictOrder, LeaveWord
    <3> QED BY <1>0, <3>1 DEF EnterWord, EvictOrder, LeaveWord, Continue, ReanchorIx
  <2>2. ~ReanchorCommit /\ ~ReapCommit
    BY <1>1 DEF ReanchorCommit, ReapCommit
  <2>3. ~ReapEnter /\ ~ReapSkip /\ ~ReapKill
    <3> SUFFICES ASSUME ReapEnter \/ ReapSkip \/ ReapKill PROVE FALSE
      OBVIOUS
    <3>1. ix \in ReapIx
      BY EBook, ReapType DEF ReapEnter, ReapSkip, ReapKill
    <3> QED BY <1>0, <1>1, <3>1 DEF ReapEnter, ReapSkip, ReapKill, Continue, ReapIx
  <2> QED BY <2>1, <2>2, <2>3 DEF HygieneStep
<1>9. ~NextSlot /\ ~(Refused /\ ~UNCHANGED vars)
  BY DEF NextSlot, Refused, Idle
<1>10. TakeStep => Taking /\ (TakeExpired \/ TakeOwn \/ TakeFill)
  <2>1. ~EndPlaceLimit /\ ~EndPlaceTake /\ ~EndSwap
    BY <1>1, <1>2 DEF EndPlaceLimit, EndPlaceTake, EndSwap
  <2> QED BY <2>1 DEF TakeStep, TakeExpired, TakeOwn, TakeFill
<1> QED BY <1>4, <1>5, <1>6, <1>7, <1>8, <1>9, <1>10 DEF Next, Step

LEMMA TakeEnds ==
  ASSUME EInv, [Next]_vars, committed' # committed, Taking
  PROVE  EndPlaceLimit \/ EndPlaceTake \/ EndSwap
<1>1. ix # Idle /\ ix.op = "Take"
  BY DEF Taking, Idle
<1>2. ~CustodyNext
  BY <1>1 DEF CustodyNext, ClaimSeat, CloseSeat, Deposit, Withdraw, CollectFees, UpdateFee, Starts
<1>3. ~MakerNext
  BY <1>1 DEF MakerNext, PostOnly, CancelQuote, Cancel, BeginMassQuote, Starts
<1>4. ~TakerNext
  BY <1>1 DEF TakerNext, BeginPlaceLimit, BeginPlaceTake, BeginSwap, SwapWith, Starts
<1>5. ~HygieneNext
  BY <1>1 DEF HygieneNext, BeginReanchor, BeginReap, Starts
<1>6. ~MergeStep
  BY <1>1 DEF MergeStep, MergeRefuse, MergeCancel, MergeKeep, MergeInsert, MergeRepost, MergeAsks, MergeCommit,
              MergeDone, Merging
<1>7. ~HygieneStep
  BY <1>1 DEF HygieneStep, EnterWord, EvictOrder, LeaveWord, ReanchorCommit, ReapEnter, ReapSkip, ReapKill, ReapCommit,
              Reanchoring, Reaping
<1>8. ~NextSlot /\ ~Refused /\ ~UNCHANGED vars
  BY DEF NextSlot, Refused, vars
<1>9. ~TakeExpired /\ ~TakeOwn /\ ~TakeFill
  BY DEF TakeExpired, TakeOwn, TakeFill, Continue, Abort
<1> QED BY <1>2, <1>3, <1>4, <1>5, <1>6, <1>7, <1>8, <1>9 DEF Next, Step, TakeStep

\* A take that has committed.
LEMMA TakeLeaves ==
  ASSUME EInv, MaxOrderIds <= FreedSeq, [Next]_vars, committed' # committed, Taking
  PROVE  Leaves(book, committed'.book, ix) /\ TakeOver
<1>0. IInv /\ book \in Book /\ Sound(book) /\ SInv
  BY EBook DEF EInv, SInv, Structured
<1>1. ~Abort
  BY DEF Abort
<1>2. CASE EndPlaceLimit
  BY <1>0, <1>1, <1>2, LimitLeaves DEF EndPlaceLimit
<1>3. CASE EndPlaceTake
  <2>1. ix.kind = "PlaceTake" /\ ~Leftover(ix)
    BY <1>3 DEF EndPlaceTake, Leftover
  <2>2. Credited(book, SettleTaker(Accrued(book, ix), ix))
    BY <1>0, <2>1, SettledCredited
  <2>3. committed'.book = BumpSeq(SettleTaker(Accrued(book, ix), ix))
    BY <1>1, <1>3 DEF EndPlaceTake, Commit
  <2> QED BY <1>0, <1>3, <2>1, <2>2, <2>3, CreditedLeaves DEF EndPlaceTake
<1>4. CASE EndSwap
  <2>1. ix.kind = "Swap" /\ ~Leftover(ix)
    BY <1>4 DEF EndSwap, Leftover
  <2>2. Credited(book, Accrued(book, ix))
    BY <1>0, SettledCredited
  <2>3. committed'.book = BumpSeq(Accrued(book, ix))
    BY <1>1, <1>4 DEF EndSwap, Commit
  <2> QED BY <1>0, <1>4, <2>1, <2>2, <2>3, CreditedLeaves DEF EndSwap
<1> QED BY <1>2, <1>3, <1>4, TakeEnds

-----------------------------------------------------------------------------
(* What a take adds up                                                     *)

\* The lots taken off each order that take i may trade with, from b to c, and
\* what they cost at the order's own price.
Fills(b, c, i, now) ==
  [n \in Nodes |-> IF n \in Live(b) /\ Offers(b, n, i, now) THEN LotsOf(b, n) - Left(c, n) ELSE 0]
Costs(b, c, i, now) == [n \in Nodes |-> Notional(TickOf(b, n), Fills(b, c, i, now)[n])]

\* A take's totals are those of the orders it filled.
Tallies(b, c, i, now) ==
  /\ i.lots = SumOver(Fills(b, c, i, now), Live(b))
  /\ i.quote = SumOver(Costs(b, c, i, now), Live(b))

LEMMA NotionalIs ==
  ASSUME NEW t \in Int, NEW x \in Int
  PROVE  t * TickSize \in Int /\ Notional(t, x) = (t * TickSize) * x /\ Notional(t, x) \in Int
<1>1. TickSize \in Int
  BY BookAssumption
<1>2. t * TickSize \in Int
  BY <1>1
<1> DEFINE a == t * TickSize
<1>3. a * x \in Int
  <2> HIDE DEF a
  <2>1. a \in Int
    BY <1>2 DEF a
  <2> QED BY <2>1
<1> QED BY <1>2, <1>3 DEF Notional

LEMMA NotionalZero == ASSUME NEW t \in Int PROVE Notional(t, 0) = 0
<1> DEFINE a == t * TickSize
<1>1. a \in Int /\ Notional(t, 0) = a * 0
  BY NotionalIs
<1> HIDE DEF a
<1> QED BY <1>1

LEMMA NotionalAdds ==
  ASSUME NEW t \in Int, NEW x \in Int, NEW y \in Int
  PROVE  Notional(t, x + y) = Notional(t, x) + Notional(t, y)
<1> DEFINE a == t * TickSize
<1>1. a \in Int /\ \A z \in Int : Notional(t, z) = a * z
  BY NotionalIs
<1> HIDE DEF a
<1>2. x + y \in Int
  OBVIOUS
<1>3. a * (x + y) = a * x + a * y
  BY <1>1
<1> QED BY <1>1, <1>2, <1>3

LEMMA FillsTypes ==
  ASSUME NEW b \in Book, NEW c \in Book, NEW i, NEW now
  PROVE  /\ \A n \in Live(b) : n \in Nodes /\ Fills(b, c, i, now)[n] \in Int /\ Costs(b, c, i, now)[n] \in Int
         /\ IsFiniteSet(Live(b))
<1>1. \A n \in Live(b) : n \in Nodes /\ LotsOf(b, n) \in Int /\ TickOf(b, n) \in Int /\ Left(c, n) \in Int
  BY LiveTicks, LeftTypes
<1>2. \A n \in Live(b) : Fills(b, c, i, now)[n] \in Int
  BY <1>1 DEF Fills
<1>3. \A n \in Live(b) : Costs(b, c, i, now)[n] = Notional(TickOf(b, n), Fills(b, c, i, now)[n])
  BY <1>1 DEF Costs
<1>4. IsFiniteSet(Live(b))
  <2>1. Live(b) \subseteq Nodes
    BY <1>1
  <2> QED BY <2>1, OrdersFinite
<1>5. \A n \in Live(b) : Costs(b, c, i, now)[n] \in Int
  <2> SUFFICES ASSUME NEW n \in Live(b) PROVE Notional(TickOf(b, n), Fills(b, c, i, now)[n]) \in Int
    BY <1>3
  <2>1. TickOf(b, n) \in Int /\ Fills(b, c, i, now)[n] \in Int
    BY <1>1, <1>2
  <2> QED BY <2>1, NotionalIs
<1> QED BY <1>1, <1>2, <1>4, <1>5

LEMMA ZeroSum ==
  ASSUME NEW g, NEW S, IsFiniteSet(S), \A x \in S : g[x] = 0
  PROVE  SumOver(g, S) = 0
<1>1. SumOver(g, S) = SumOver(g, {})
  BY SumOverWhere
<1>2. IsFiniteSet({})
  BY FS_EmptySet
<1> QED BY <1>1, <1>2, SumOverStep

\* Nothing is filled at first,
LEMMA TalliesBegin ==
  ASSUME NEW b \in Book, NEW i, i.lots = 0, i.quote = 0, NEW now
  PROVE  Tallies(b, b, i, now)
<1>1. \A n \in Live(b) : n \in Nodes /\ LotsOf(b, n) - Left(b, n) = 0 /\ TickOf(b, n) \in Int
  BY LiveTicks DEF Left
<1>2. \A n \in Live(b) : Fills(b, b, i, now)[n] = 0
  BY <1>1 DEF Fills
<1>3. \A n \in Live(b) : Costs(b, b, i, now)[n] = Notional(TickOf(b, n), Fills(b, b, i, now)[n])
  BY <1>1 DEF Costs
<1>4. \A n \in Live(b) : Costs(b, b, i, now)[n] = 0
  BY <1>1, <1>2, <1>3, NotionalZero
<1>5. IsFiniteSet(Live(b))
  BY FillsTypes
<1> QED BY <1>2, <1>4, <1>5, ZeroSum DEF Tallies

\* an order that is ended for another reason is not counted,
LEMMA FillsKeep ==
  ASSUME NEW b \in Book, NEW c \in Book, NEW d \in Book, NEW k \in Live(b), NEW x \in Nat, Drawn(c, d, k, x),
         NEW i, NEW now, ~Offers(b, k, i, now), NEW j, SameTake(i, j)
  PROVE  Fills(b, d, j, now) = Fills(b, c, i, now) /\ Costs(b, d, j, now) = Costs(b, c, i, now)
<1>1. \A n : Offers(b, n, j, now) <=> Offers(b, n, i, now)
  BY DEF SameTake, BookSide, Offers
<1>2. \A n \in Nodes : n # k => Left(d, n) = Left(c, n)
  BY LeftTypes DEF Drawn
<1>3. Fills(b, d, j, now) = Fills(b, c, i, now)
  BY <1>1, <1>2 DEF Fills
<1> QED BY <1>3 DEF Costs

LEMMA TalliesKeep ==
  ASSUME NEW b \in Book, NEW c \in Book, NEW d \in Book, NEW k \in Live(b), NEW x \in Nat, Drawn(c, d, k, x),
         NEW i, NEW now, Tallies(b, c, i, now), ~Offers(b, k, i, now),
         NEW j, SameTake(i, j), j.lots = i.lots, j.quote = i.quote
  PROVE  Tallies(b, d, j, now)
BY FillsKeep DEF Tallies

\* and a fill is counted once, at its order's price.
LEMMA FillsOne ==
  ASSUME NEW b \in Book, NEW c \in Book, NEW d \in Book, NEW k \in Live(b), NEW x \in Nat, Drawn(c, d, k, x),
         NEW i, NEW now, Offers(b, k, i, now), NEW j, SameTake(i, j)
  PROVE  /\ \A n \in Nodes : n # k => /\ Fills(b, d, j, now)[n] = Fills(b, c, i, now)[n]
                                    /\ Costs(b, d, j, now)[n] = Costs(b, c, i, now)[n]
         /\ Fills(b, d, j, now)[k] = Fills(b, c, i, now)[k] + x
         /\ Costs(b, d, j, now)[k] = Costs(b, c, i, now)[k] + Notional(TickOf(b, k), x)
         /\ Notional(TickOf(b, k), x) \in Int
<1> DEFINE f == Fills(b, c, i, now)
           g == Fills(b, d, j, now)
           h == Costs(b, c, i, now)
           e == Costs(b, d, j, now)
<1>1. \A n : Offers(b, n, j, now) <=> Offers(b, n, i, now)
  BY DEF SameTake, BookSide, Offers
<1>2. \A n \in Nodes : n # k => Left(d, n) = Left(c, n)
  BY LeftTypes DEF Drawn
<1>3. k \in Nodes /\ Left(d, k) = Left(c, k) - x /\ Left(c, k) \in Nat /\ LotsOf(b, k) \in Nat /\ TickOf(b, k) \in Nat
  BY LiveTicks, LeftTypes DEF Drawn
<1>4. \A n \in Nodes : n # k => g[n] = f[n]
  BY <1>1, <1>2 DEF Fills
<1>5. g[k] = f[k] + x /\ f[k] \in Int
  <2>1. f[k] = LotsOf(b, k) - Left(c, k)
    BY <1>3 DEF Fills
  <2>2. g[k] = LotsOf(b, k) - Left(d, k)
    BY <1>1, <1>3 DEF Fills
  <2> QED BY <1>3, <2>1, <2>2
<1>6. \A n \in Nodes : h[n] = Notional(TickOf(b, n), f[n]) /\ e[n] = Notional(TickOf(b, n), g[n])
  BY DEF Costs
<1> HIDE DEF f, g, h, e
<1>7. \A n \in Nodes : n # k => e[n] = h[n]
  BY <1>4, <1>6
<1>8. e[k] = h[k] + Notional(TickOf(b, k), x) /\ Notional(TickOf(b, k), x) \in Int
  <2> DEFINE t == TickOf(b, k)
             y == f[k]
  <2>1. h[k] = Notional(t, y) /\ e[k] = Notional(t, g[k]) /\ g[k] = y + x
    BY <1>3, <1>5, <1>6
  <2>2. t \in Int /\ x \in Int /\ y \in Int
    BY <1>3, <1>5
  <2> HIDE DEF t, y
  <2>3. Notional(t, y + x) = Notional(t, y) + Notional(t, x) /\ Notional(t, x) \in Int
    BY <2>2, NotionalAdds, NotionalIs
  <2> QED BY <2>1, <2>3 DEF t
<1> QED BY <1>4, <1>5, <1>7, <1>8 DEF f, g, h, e

LEMMA TalliesFill ==
  ASSUME NEW b \in Book, NEW c \in Book, NEW d \in Book, NEW k \in Live(b), NEW x \in Nat, Drawn(c, d, k, x),
         NEW i, NEW now, Tallies(b, c, i, now), Offers(b, k, i, now),
         NEW j, SameTake(i, j), j.lots = i.lots + x, j.quote = i.quote + Notional(TickOf(b, k), x)
  PROVE  Tallies(b, d, j, now)
<1> DEFINE f == Fills(b, c, i, now)
           g == Fills(b, d, j, now)
           h == Costs(b, c, i, now)
           e == Costs(b, d, j, now)
<1>1. /\ \A n \in Nodes : n # k => g[n] = f[n] /\ e[n] = h[n]
      /\ g[k] = f[k] + x /\ e[k] = h[k] + Notional(TickOf(b, k), x) /\ Notional(TickOf(b, k), x) \in Int
  BY FillsOne
<1>2. IsFiniteSet(Live(b)) /\ \A n \in Live(b) : n \in Nodes /\ f[n] \in Int /\ g[n] \in Int /\ h[n] \in Int /\ e[n] \in Int
  BY FillsTypes
<1> HIDE DEF f, g, h, e
<1>3. SumOver(g, Live(b)) = SumOver(f, Live(b)) - f[k] + g[k] /\ SumOver(f, Live(b)) \in Int
  BY <1>1, <1>2, SumOverChange, SumOverInt
<1>4. SumOver(e, Live(b)) = SumOver(h, Live(b)) - h[k] + e[k] /\ SumOver(h, Live(b)) \in Int
  BY <1>1, <1>2, SumOverChange, SumOverInt
<1> QED BY <1>1, <1>2, <1>3, <1>4 DEF Tallies, f, g, h, e

-----------------------------------------------------------------------------
(* Who pays for a take                                                     *)

\* What the fills from b to c have brought seat s, of asset a: what the taker
\* pays in, less what it gave for it.
Moved(b, c, i, now, s, a) ==
  IF a = "quote" THEN SumOver(Costs(b, c, i, now), LiveOf(b, s))
                 ELSE BaseLotSize * SumOver(Fills(b, c, i, now), LiveOf(b, s))
Earned(b, c, i, now, s, a) ==
  IF a = LockedAsset(i.side) THEN Moved(b, c, i, now, s, a) ELSE 0 - Moved(b, c, i, now, s, a)

\* Each seat owns what it did and what its fills brought it.
Paying(b, c, i, now) ==
  /\ c.fees = b.fees
  /\ \A s \in SeatIds, a \in Assets : SeatTotal(c, s, a) = SeatTotal(b, s, a) + Earned(b, c, i, now, s, a)

\* A fill's maker gives its lots and gets their price, and nobody else does.
LEMMA FillPays ==
  ASSUME NEW b \in Book, NEW side \in Sides, NEW tick \in Nat, NEW n \in Links,
         NEW lots \in Nat, lots <= b.pool[n].lots,
         CanUnlock(b, b.pool[n].maker, LockedAsset(side), LockedAtoms(side, tick, lots))
  PROVE  /\ FillOrder(b, side, tick, n, lots).fees = b.fees
         /\ \A r \in SeatIds, a \in Assets :
              SeatTotal(FillOrder(b, side, tick, n, lots), r, a) = SeatTotal(b, r, a)
                + IF r # b.pool[n].maker THEN 0
                  ELSE IF a = LockedAsset(side) THEN -LockedAtoms(side, tick, lots)
                  ELSE LockedAtoms(Opposite(side), tick, lots)
<1> DEFINE s       == b.pool[n].maker
           paid    == LockedAsset(side)
           got     == LockedAsset(Opposite(side))
           out     == LockedAtoms(side, tick, lots)
           in      == LockedAtoms(Opposite(side), tick, lots)
           settled == SettleMaker(b, side, tick, n, lots)
           d       == FillOrder(b, side, tick, n, lots)
<1>1. \E c : Gets(b, c, s, paid, -out) /\ Gets(c, settled, s, got, in)
  BY SettleMakerGets
<1>2. d = IF lots = b.pool[n].lots THEN ChainUnlink(FifoUnlink(settled, side, n), n)
          ELSE AddLots(SetLots(settled, n, b.pool[n].lots - lots), Slot(tick), -lots)
  BY DEF FillOrder
<1>3. d \in Book
  BY FillOrderKept, KeptBook
<1>4. out \in Nat /\ in \in Nat /\ paid # got /\ \A a \in Assets : a = paid \/ a = got
  <2>1. out \in Nat /\ in \in Nat
    BY OppositeType, LockedAtomsType
  <2>2. paid # got /\ \A a \in Assets : a = paid \/ a = got
    BY DEF LockedAsset, Opposite, Sides, Assets
  <2> QED BY <2>1, <2>2
<1> HIDE DEF s, paid, got, out, in, settled, d
<1>5. PICK c : Gets(b, c, s, paid, -out) /\ Gets(c, settled, s, got, in)
  BY <1>1
<1>6. settled \in Book /\ c \in Book
  BY <1>5 DEF Gets
<1>7. SameFunds(settled, d)
  <2>1. SameFunds(settled, settled)
    BY <1>6, BookBanked
  <2>2. SameFunds(settled, AddLots(SetLots(settled, n, b.pool[n].lots - lots), Slot(tick), -lots))
    BY <2>1, SettersSameFunds
  <2>3. SameFunds(settled, FifoUnlink(settled, side, n))
    BY <2>1, ListsSameFunds
  <2>4. SameFunds(settled, ChainUnlink(FifoUnlink(settled, side, n), n))
    BY <2>3, ListsSameFunds
  <2> QED BY <1>2, <2>2, <2>4
<1>8. Even(settled, d)
  BY <1>3, <1>6, <1>7, SameFundsEven
<1>9. ASSUME NEW r \in SeatIds, NEW a \in Assets
      PROVE  SeatTotal(d, r, a) = SeatTotal(b, r, a) + IF r # s THEN 0 ELSE IF a = paid THEN -out ELSE in
  <2>1. SeatTotal(c, r, a) = SeatTotal(b, r, a) + IF r = s /\ a = paid THEN -out ELSE 0
    BY <1>5 DEF Gets
  <2>2. SeatTotal(settled, r, a) = SeatTotal(c, r, a) + IF r = s /\ a = got THEN in ELSE 0
    BY <1>5 DEF Gets
  <2>3. SeatTotal(b, r, a) \in Nat /\ SeatTotal(d, r, a) = SeatTotal(settled, r, a)
    BY <1>8, SeatTotalType DEF Even
  <2> QED BY <1>4, <2>1, <2>2, <2>3
<1>10. d.fees = b.fees
  BY <1>5, <1>8 DEF Gets, Even
<1> QED BY <1>9, <1>10 DEF s, paid, out, in, d

\* What each seat owns, after its own fills.
LEMMA OwnTypes ==
  ASSUME NEW b \in Book, NEW c \in Book, NEW i, NEW now, NEW s \in SeatIds
  PROVE  /\ IsFiniteSet(LiveOf(b, s))
         /\ \A n \in LiveOf(b, s) : n \in Nodes /\ Fills(b, c, i, now)[n] \in Int /\ Costs(b, c, i, now)[n] \in Int
         /\ SumOver(Fills(b, c, i, now), LiveOf(b, s)) \in Int
         /\ SumOver(Costs(b, c, i, now), LiveOf(b, s)) \in Int
<1>1. LiveOf(b, s) \subseteq Live(b) /\ LiveOf(b, s) \subseteq Nodes
  BY LivesAre DEF LiveOf
<1>2. IsFiniteSet(LiveOf(b, s))
  BY <1>1, OrdersFinite
<1>3. \A n \in LiveOf(b, s) : n \in Nodes /\ Fills(b, c, i, now)[n] \in Int /\ Costs(b, c, i, now)[n] \in Int
  BY <1>1, FillsTypes
<1>4. SumOver(Fills(b, c, i, now), LiveOf(b, s)) \in Int /\ SumOver(Costs(b, c, i, now), LiveOf(b, s)) \in Int
  BY <1>2, <1>3, SumOverInt
<1> QED BY <1>2, <1>3, <1>4

LEMMA PayingBegins ==
  ASSUME NEW b \in Book, NEW i, NEW now PROVE Paying(b, b, i, now)
<1>1. ASSUME NEW s \in SeatIds, NEW a \in Assets PROVE Earned(b, b, i, now, s, a) = 0
  <2> DEFINE S == LiveOf(b, s)
  <2>1. IsFiniteSet(S) /\ \A n \in S : n \in Live(b) /\ n \in Nodes
    BY OwnTypes, LivesAre
  <2>2. \A n \in S : Fills(b, b, i, now)[n] = 0
    <3>1. \A n \in S : LotsOf(b, n) - Left(b, n) = 0
      BY <2>1, LiveTicks DEF Left
    <3> QED BY <2>1, <3>1 DEF Fills
  <2>3. \A n \in S : Costs(b, b, i, now)[n] = 0
    <3>1. \A n \in S : Costs(b, b, i, now)[n] = Notional(TickOf(b, n), Fills(b, b, i, now)[n])
      BY <2>1 DEF Costs
    <3>2. \A n \in S : TickOf(b, n) \in Int
      BY <2>1, LiveTicks
    <3> QED BY <2>2, <3>1, <3>2, NotionalZero
  <2> HIDE DEF S
  <2>4. SumOver(Fills(b, b, i, now), S) = 0 /\ SumOver(Costs(b, b, i, now), S) = 0
    BY <2>1, <2>2, <2>3, ZeroSum
  <2>5. BaseLotSize * 0 = 0
    <3>1. \A x \in Int : x * 0 = 0
      OBVIOUS
    <3>2. BaseLotSize \in Int
      BY BookAssumption
    <3> QED BY <3>1, <3>2
  <2>6. Moved(b, b, i, now, s, a) = 0
    BY <2>4, <2>5 DEF Moved, S
  <2> QED BY <2>6 DEF Earned
<1>2. \A s \in SeatIds, a \in Assets : SeatTotal(b, s, a) \in Nat
  BY SeatTotalType
<1>3. \A s \in SeatIds, a \in Assets : SeatTotal(b, s, a) = SeatTotal(b, s, a) + Earned(b, b, i, now, s, a)
  BY <1>1, <1>2
<1> QED BY <1>3 DEF Paying

LEMMA PayingKeep ==
  ASSUME NEW b \in Book, NEW c \in Book, NEW d \in Book, NEW k \in Live(b), NEW x \in Nat, Drawn(c, d, k, x),
         NEW i, NEW now, Paying(b, c, i, now), ~Offers(b, k, i, now), Even(c, d), NEW j, SameTake(i, j)
  PROVE  Paying(b, d, j, now)
<1>1. \A s, a : Earned(b, d, j, now, s, a) = Earned(b, c, i, now, s, a)
  BY FillsKeep DEF Earned, Moved, SameTake
<1> QED BY <1>1 DEF Paying, Even

\* What x lots at tick are, of asset a.
WorthOf(a, tick, x) == IF a = "quote" THEN Notional(tick, x) ELSE BaseLotSize * x

LEMMA MovedOne ==
  ASSUME NEW b \in Book, NEW c \in Book, NEW d \in Book, NEW k \in Live(b), NEW x \in Nat, Drawn(c, d, k, x),
         NEW i, NEW now, Offers(b, k, i, now), NEW j, SameTake(i, j), NEW s \in SeatIds, NEW a \in Assets
  PROVE  /\ Moved(b, d, j, now, s, a) = Moved(b, c, i, now, s, a)
                                          + IF s = MakerOf(b, k) THEN WorthOf(a, TickOf(b, k), x) ELSE 0
         /\ Moved(b, c, i, now, s, a) \in Int /\ WorthOf(a, TickOf(b, k), x) \in Int
<1> DEFINE f == Fills(b, c, i, now)
           g == Fills(b, d, j, now)
           h == Costs(b, c, i, now)
           e == Costs(b, d, j, now)
           S == LiveOf(b, s)
           w == Notional(TickOf(b, k), x)
<1>1. /\ \A n \in Nodes : n # k => g[n] = f[n] /\ e[n] = h[n]
      /\ g[k] = f[k] + x /\ e[k] = h[k] + w /\ w \in Int
  BY FillsOne
<1>2. /\ IsFiniteSet(S) /\ SumOver(f, S) \in Int /\ SumOver(h, S) \in Int
      /\ \A n \in S : n \in Nodes /\ f[n] \in Int /\ g[n] \in Int /\ h[n] \in Int /\ e[n] \in Int
  BY OwnTypes
<1>3. k \in S <=> s = MakerOf(b, k)
  BY LivesAre
<1>4. /\ Moved(b, c, i, now, s, a) = (IF a = "quote" THEN SumOver(h, S) ELSE BaseLotSize * SumOver(f, S))
      /\ Moved(b, d, j, now, s, a) = (IF a = "quote" THEN SumOver(e, S) ELSE BaseLotSize * SumOver(g, S))
      /\ WorthOf(a, TickOf(b, k), x) = IF a = "quote" THEN w ELSE BaseLotSize * x
  BY DEF Moved, WorthOf
<1> HIDE DEF f, g, h, e, S, w
<1>5. BaseLotSize \in Int /\ \A y \in Int : BaseLotSize * y \in Int
  BY BookAssumption
<1>6. CASE s # MakerOf(b, k)
  <2>1. SumOver(g, S) = SumOver(f, S) /\ SumOver(e, S) = SumOver(h, S)
    BY <1>1, <1>2, <1>3, <1>6, SumOverSame
  <2> QED BY <1>1, <1>2, <1>4, <1>5, <1>6, <2>1
<1>7. CASE s = MakerOf(b, k)
  <2>1. k \in S
    BY <1>3, <1>7
  <2>2. SumOver(g, S) = SumOver(f, S) - f[k] + g[k]
    BY <1>1, <1>2, <2>1, SumOverChange
  <2>3. SumOver(e, S) = SumOver(h, S) - h[k] + e[k]
    BY <1>1, <1>2, <2>1, SumOverChange
  <2>4. SumOver(g, S) = SumOver(f, S) + x /\ SumOver(e, S) = SumOver(h, S) + w
    BY <1>1, <1>2, <2>1, <2>2, <2>3
  <2>5. BaseLotSize * (SumOver(f, S) + x) = BaseLotSize * SumOver(f, S) + BaseLotSize * x
    <3> DEFINE y == SumOver(f, S)
    <3>1. y \in Int
      BY <1>2
    <3> HIDE DEF y
    <3>2. BaseLotSize * (y + x) = BaseLotSize * y + BaseLotSize * x
      BY <1>5, <3>1
    <3> QED BY <3>2 DEF y
  <2> QED BY <1>1, <1>2, <1>4, <1>5, <1>7, <2>4, <2>5
<1> QED BY <1>6, <1>7

LEMMA PayingFill ==
  ASSUME NEW b \in Book, NEW c \in Book, NEW d \in Book, NEW k \in Live(b), NEW x \in Nat, Drawn(c, d, k, x),
         NEW i, NEW now, Paying(b, c, i, now), Offers(b, k, i, now), NEW j, SameTake(i, j), d.fees = c.fees,
         \A r \in SeatIds, a \in Assets :
           SeatTotal(d, r, a) = SeatTotal(c, r, a)
             + IF r # MakerOf(b, k) THEN 0
               ELSE IF a = LockedAsset(i.side) THEN WorthOf(a, TickOf(b, k), x) ELSE -WorthOf(a, TickOf(b, k), x)
  PROVE  Paying(b, d, j, now)
<1> SUFFICES ASSUME NEW s \in SeatIds, NEW a \in Assets
             PROVE  SeatTotal(d, s, a) = SeatTotal(b, s, a) + Earned(b, d, j, now, s, a)
  BY DEF Paying
<1> DEFINE m == Moved(b, c, i, now, s, a)
           o == Moved(b, d, j, now, s, a)
           w == WorthOf(a, TickOf(b, k), x)
<1>1. o = m + (IF s = MakerOf(b, k) THEN w ELSE 0) /\ m \in Int /\ w \in Int
  BY MovedOne
<1>2. SeatTotal(c, s, a) = SeatTotal(b, s, a) + (IF a = LockedAsset(i.side) THEN m ELSE 0 - m)
  BY DEF Paying, Earned
<1>3. Earned(b, d, j, now, s, a) = IF a = LockedAsset(i.side) THEN o ELSE 0 - o
  BY DEF Earned, SameTake
<1>4. SeatTotal(b, s, a) \in Nat
  BY SeatTotalType
<1>5. SeatTotal(d, s, a) = SeatTotal(c, s, a)
        + IF s # MakerOf(b, k) THEN 0 ELSE IF a = LockedAsset(i.side) THEN w ELSE -w
  OBVIOUS
<1> HIDE DEF m, o, w
<1> QED BY <1>1, <1>2, <1>3, <1>4, <1>5

-----------------------------------------------------------------------------
(* A take in flight                                                        *)

\* It has walked from the book it started on, and those it traded with are paid.
Walking ==
  Taking => /\ Walked(committed.book, book, ix, slot)
            /\ Tallies(committed.book, book, ix, slot)
            /\ Paying(committed.book, book, ix, slot)

LEMMA WalkedSelf ==
  ASSUME NEW b \in Book, NEW i, i.at = NoTick, NEW now
  PROVE  Walked(b, b, i, now)
<1>1. \A n \in Nodes : Left(b, n) \in Nat
  BY LeftTypes
<1>2. Slimmed(b, b)
  BY <1>1 DEF Slimmed
<1>3. \A n \in Live(b) : ~Hit(b, b, n)
  BY <1>1, LiveTicks DEF Hit
<1> QED BY <1>2, <1>3 DEF Walked

LEMMA WalkBegins ==
  ASSUME EInv, ix = Idle, NEW i, i.at = NoTick, i.lots = 0, i.quote = 0,
         book' = book, committed' = committed, ix' = i
  PROVE  Walking'
<1>1. book \in Book /\ committed.book = book
  BY EBook DEF EInv, Since
<1>2. Walked(book, book, i, slot') /\ Tallies(book, book, i, slot') /\ Paying(book, book, i, slot')
  BY <1>1, WalkedSelf, TalliesBegin, PayingBegins
<1>3. committed'.book = book' /\ book' = book
  BY <1>1
<1> QED BY <1>2, <1>3 DEF Walking

LEMMA TakerWalks == ASSUME EInv, TakerNext PROVE Walking'
<1>1. \A kind, s, side, limit, lots, quote, policy, expiry, minOut, delta :
        LET i == Take(kind, s, side, limit, lots, quote, policy, expiry, minOut, delta)
        IN i.at = NoTick /\ i.lots = 0 /\ i.quote = 0
  BY DEF Take
<1>2. ASSUME NEW s \in SeatIds, NEW side \in Sides, NEW limit \in InTicks, NEW lots \in InLots,
             NEW policy \in Policies, NEW expiry \in InExpiries,
             BeginPlaceLimit(s, side, limit, lots, policy, expiry)
      PROVE  Walking'
  BY <1>1, <1>2, WalkBegins DEF BeginPlaceLimit, Continue, Starts
<1>3. ASSUME NEW s \in SeatIds, NEW side \in Sides, NEW limit \in InTicks, NEW lots \in TakeLots,
             NEW minOut \in MinOuts, NEW policy \in Policies,
             BeginPlaceTake(s, side, limit, lots, minOut, policy)
      PROVE  Walking'
  BY <1>1, <1>3, WalkBegins DEF BeginPlaceTake, Continue, Starts
<1>4. ASSUME NEW side \in Sides, NEW limit \in InTicks, NEW amount \in SwapAmounts,
             NEW minOut \in MinOuts, BeginSwap(side, limit, amount, minOut)
      PROVE  Walking'
  <2>1. PICK delta \in Received(amount) : SwapWith(side, limit, delta, minOut)
    BY <1>4 DEF BeginSwap
  <2> QED BY <1>1, <2>1, WalkBegins DEF SwapWith, Starts
<1> QED BY <1>2, <1>3, <1>4 DEF TakerNext

\* The level a take looks at is within its limit.
LEMMA TakeInLimit ==
  ASSUME IInv, Taking, AtOrder(ix)
  PROVE  IF ix.side = "bid" THEN TakeLevel(book, ix) <= ix.limit ELSE TakeLevel(book, ix) >= ix.limit
<1> DEFINE T == LevelsLeft(book, ix)
           t == TakeLevel(book, ix)
<1>1. book \in Book
  BY InvGood DEF Good
<1>3. T \subseteq 0 .. LastTick(book) /\ LastTick(book) \in Nat
  BY <1>1, BookAssumption DEF LevelsLeft, TicksOf, Book, LastTick
<1>4. t = Lowest(T) \/ t = Highest(T)
  BY DEF TakeLevel
<1>5. t # NoTick
  BY DEF AtOrder
<1> HIDE DEF T, t
<1>6. t \in T
  <2>1. /\ Highest(T) = NoTick \/ Highest(T) \in T
        /\ Lowest(T) = NoTick \/ Lowest(T) \in T
    BY <1>3, HighestLowest
  <2> QED BY <1>4, <1>5, <2>1
<1> QED BY <1>6 DEF T, t, LevelsLeft

\* The order at the head is one of those the take found, and may be traded with
\* unless it is expired or the taker's.
LEMMA HeadOffers ==
  ASSUME SInv, NEW b \in Book, Slimmed(b, book), Taking, AtOrder(ix)
  PROVE  LET k == TakeHead(book, ix)
         IN /\ k \in Live(book) /\ SideOf(book, k) = BookSide(ix) /\ TickOf(book, k) = TakeLevel(book, ix)
            /\ k \in Live(b) /\ TickOf(b, k) = TakeLevel(book, ix) /\ MakerOf(b, k) = MakerOf(book, k)
            /\ (HeadExpired(ix) <=> IsExpired(b, k, slot)) /\ (HeadIsOwn(ix) <=> MakerOf(b, k) = ix.seat)
            /\ (Offers(b, k, ix, slot) <=> ~HeadExpired(ix) /\ ~HeadIsOwn(ix))
<1> DEFINE k == TakeHead(book, ix)
           t == TakeLevel(book, ix)
<1>1. k \in Live(book) /\ SideOf(book, k) = BookSide(ix) /\ TickOf(book, k) = t
  BY TakeHeadLive
<1>2. /\ k \in Live(b) /\ SideOf(b, k) = BookSide(ix) /\ TickOf(b, k) = t /\ MakerOf(b, k) = MakerOf(book, k)
      /\ (IsExpired(b, k, slot) <=> IsExpired(book, k, slot))
  BY <1>1, SlimmedRead
<1>3. HeadExpired(ix) <=> IsExpired(b, k, slot)
  BY <1>2 DEF HeadExpired
<1>4. HeadIsOwn(ix) <=> MakerOf(b, k) = ix.seat
  BY <1>2 DEF HeadIsOwn, MakerOf
<1>5. IF ix.side = "bid" THEN t <= ix.limit ELSE t >= ix.limit
  BY SBook, TakeInLimit DEF SInv
<1>6. Offers(b, k, ix, slot) <=> ~HeadExpired(ix) /\ ~HeadIsOwn(ix)
  BY <1>2, <1>3, <1>4, <1>5 DEF Offers
<1> HIDE DEF k, t
<1> QED BY <1>1, <1>2, <1>3, <1>4, <1>6 DEF k, t

\* The walk's next book, and what it makes of the order at its head.
LEMMA WalkContinues ==
  ASSUME EInv, Walking, MaxOrderIds <= FreedSeq, Taking, AtOrder(ix),
         NEW d \in Book, NEW x \in Nat, Drawn(book, d, TakeHead(book, ix), x),
         NEW j, SameTake(ix, j), j.at = TakeLevel(book, ix), Continue(d, j),
         \/ /\ ~HeadExpired(ix) /\ ~HeadIsOwn(ix)
            /\ j.lots = ix.lots + x /\ j.quote = ix.quote + Notional(TakeLevel(book, ix), x)
            /\ d.fees = book.fees
            /\ \A r \in SeatIds, a \in Assets :
                 SeatTotal(d, r, a) = SeatTotal(book, r, a)
                   + IF r # MakerOf(book, TakeHead(book, ix)) THEN 0
                     ELSE IF a = LockedAsset(ix.side) THEN WorthOf(a, TakeLevel(book, ix), x)
                     ELSE -WorthOf(a, TakeLevel(book, ix), x)
         \/ /\ HeadIsOwn(ix) \/ (HeadExpired(ix) /\ TakeHead(book, ix) \notin Live(d))
            /\ j.lots = ix.lots /\ j.quote = ix.quote /\ Even(book, d)
  PROVE  Walking'
<1> DEFINE k == TakeHead(book, ix)
           t == TakeLevel(book, ix)
           b == committed.book
<1>1. SInv /\ book \in Book /\ b \in Book /\ IInv
  BY EBook DEF EInv
<1>2. Walked(b, book, ix, slot) /\ Tallies(b, book, ix, slot) /\ Paying(b, book, ix, slot)
  BY DEF Walking
<1>3. Slimmed(b, book)
  BY <1>2 DEF Walked
<1>5. /\ k \in Live(book) /\ SideOf(book, k) = BookSide(ix) /\ TickOf(book, k) = t
      /\ k \in Live(b) /\ TickOf(b, k) = t /\ MakerOf(b, k) = MakerOf(book, k)
      /\ (HeadExpired(ix) <=> IsExpired(b, k, slot))
      /\ (HeadIsOwn(ix) <=> MakerOf(b, k) = ix.seat)
      /\ (Offers(b, k, ix, slot) <=> ~HeadExpired(ix) /\ ~HeadIsOwn(ix))
  BY <1>1, <1>3, HeadOffers
<1>10. Offers(b, k, ix, slot) \/ MakerOf(b, k) = ix.seat \/ (k \notin Live(d) /\ IsExpired(b, k, slot))
  BY <1>5
<1> HIDE DEF k, t, b
<1>11. Walked(b, d, j, slot)
  BY <1>1, <1>2, <1>10, HeadWalks DEF k
<1>12. Tallies(b, d, j, slot) /\ Paying(b, d, j, slot)
  <2>1. CASE /\ ~HeadExpired(ix) /\ ~HeadIsOwn(ix)
             /\ j.lots = ix.lots + x /\ j.quote = ix.quote + Notional(t, x)
             /\ d.fees = book.fees
             /\ \A r \in SeatIds, a \in Assets :
                  SeatTotal(d, r, a) = SeatTotal(book, r, a)
                    + IF r # MakerOf(book, k) THEN 0
                      ELSE IF a = LockedAsset(ix.side) THEN WorthOf(a, t, x) ELSE -WorthOf(a, t, x)
    <3>1. Tallies(b, d, j, slot)
      BY <1>1, <1>2, <1>5, <2>1, TalliesFill DEF k
    <3>2. Paying(b, d, j, slot)
      BY <1>1, <1>2, <1>5, <2>1, PayingFill DEF k
    <3> QED BY <3>1, <3>2
  <2>2. CASE /\ HeadIsOwn(ix) \/ HeadExpired(ix)
             /\ j.lots = ix.lots /\ j.quote = ix.quote /\ Even(book, d)
    BY <1>1, <1>2, <1>5, <2>2, TalliesKeep, PayingKeep DEF k
  <2> QED BY <2>1, <2>2 DEF t, k
<1>13. book' = d /\ ix' = j /\ committed'.book = b /\ slot' = slot
  BY DEF Continue, b
<1> QED BY <1>11, <1>12, <1>13 DEF Walking

LEMMA KillWalks ==
  ASSUME EInv, Walking, MaxOrderIds <= FreedSeq, Taking, AtOrder(ix), HeadExpired(ix) \/ HeadIsOwn(ix),
         Refundable(book, TakeHead(book, ix)),
         Continue(KillOrder(book, TakeHead(book, ix)), [ix EXCEPT !.at = TakeLevel(book, ix)])
  PROVE  Walking'
<1> DEFINE j == [ix EXCEPT !.at = TakeLevel(book, ix)]
           k == TakeHead(book, ix)
           d == KillOrder(book, k)
<1>1. SInv /\ book \in Book /\ IInv /\ Sound(book)
  BY EBook DEF EInv, SInv, Structured
<1>2. k \in Live(book)
  BY <1>1, TakeHeadLive
<1>3. ix \in TakeIx
  BY <1>1, TakeType
<1>4. j.at = TakeLevel(book, ix) /\ j.lots = ix.lots /\ j.quote = ix.quote /\ SameTake(ix, j)
  BY <1>3 DEF TakeIx, SameTake
<1>5. Continue(d, j)
  OBVIOUS
<1> HIDE DEF j, k
<1>6. d \in Book
  <2>1. k \in Links
    BY <1>1, <1>2, LiveTicks
  <2> QED BY <1>1, <2>1, KillOrderKept, KeptBook DEF k
<1>7. Drawn(book, d, k, LotsOf(book, k)) /\ k \notin Live(d) /\ LotsOf(book, k) \in Nat
  BY <1>1, <1>2, KillDraws, LiveTicks DEF k
<1>8. Even(book, d)
  <2>1. k \in Links
    BY <1>1, <1>2, LiveTicks
  <2> QED BY <1>1, <2>1, KillOrderEven DEF k
<1> HIDE DEF d
<1> QED BY <1>4, <1>5, <1>6, <1>7, <1>8, WalkContinues DEF k

LEMMA FillWalks == ASSUME EInv, Walking, MaxOrderIds <= FreedSeq, TakeFill PROVE Walking'
<1> DEFINE tick == TakeLevel(book, ix)
           head == TakeHead(book, ix)
           fill == FillLots(book, ix)
           side == BookSide(ix)
           d    == FillOrder(book, side, tick, head, fill)
           j    == [ix EXCEPT !.at = tick, !.lots = @ + fill, !.quote = @ + Notional(tick, fill),
                              !.fee = @ + FeeOn(book, Notional(tick, fill))]
<1>1. /\ Taking /\ AtOrder(ix) /\ fill > 0 /\ Continue(d, j) /\ ~HeadExpired(ix) /\ ~HeadIsOwn(ix)
      /\ CanUnlock(book, MakerOf(book, head), LockedAsset(side), LockedAtoms(side, tick, fill))
  BY DEF TakeFill, MakerOf
<1>2. SInv /\ book \in Book /\ IInv /\ Sound(book)
  BY EBook DEF EInv, SInv, Structured
<1>3. head \in Live(book) /\ side = SideOf(book, head) /\ tick = TickOf(book, head)
  BY <1>1, <1>2, TakeHeadLive
<1>4. fill \in Nat \ {0} /\ fill <= LotsOf(book, head)
  BY <1>1, <1>2, FillLotsType DEF LotsOf
<1>5. ix \in TakeIx
  BY <1>1, <1>2, TakeType
<1>6. j.at = tick /\ j.lots = ix.lots + fill /\ j.quote = ix.quote + Notional(tick, fill) /\ SameTake(ix, j)
  BY <1>5 DEF TakeIx, SameTake
<1>7. d \in Book
  <2>1. side \in Sides /\ tick \in Nat /\ head \in Links /\ fill \in Nat
    BY <1>2, <1>3, <1>4, LiveTicks
  <2>2. Kept(book, d)
    <3> HIDE DEF fill, side, tick, head
    <3> QED BY <1>1, <1>2, <1>4, <2>1, FillOrderKept DEF LotsOf, MakerOf
  <2> QED BY <2>2, KeptBook
<1>9. /\ d.fees = book.fees
      /\ \A r \in SeatIds, a \in Assets :
           SeatTotal(d, r, a) = SeatTotal(book, r, a)
             + IF r # MakerOf(book, head) THEN 0
               ELSE IF a = LockedAsset(ix.side) THEN WorthOf(a, tick, fill) ELSE -WorthOf(a, tick, fill)
  <2>1. side \in Sides /\ tick \in Nat /\ head \in Links /\ fill \in Nat /\ ix.side \in Sides
    BY <1>1, <1>2, <1>3, <1>4, LiveTicks, TakeType
  <2>2. /\ LockedAsset(ix.side) # LockedAsset(side) /\ \A a \in Assets : a = LockedAsset(side) \/ a = LockedAsset(ix.side)
        /\ LockedAtoms(side, tick, fill) = WorthOf(LockedAsset(side), tick, fill)
        /\ LockedAtoms(Opposite(side), tick, fill) = WorthOf(LockedAsset(ix.side), tick, fill)
    <3> HIDE DEF fill, tick
    <3> QED BY <2>1 DEF BookSide, Opposite, LockedAsset, LockedAtoms, WorthOf, Assets, Sides
  <2> HIDE DEF fill, tick, side, head
  <2>3. /\ d.fees = book.fees
        /\ \A r \in SeatIds, a \in Assets :
             SeatTotal(d, r, a) = SeatTotal(book, r, a)
               + IF r # MakerOf(book, head) THEN 0
                 ELSE IF a = LockedAsset(side) THEN -LockedAtoms(side, tick, fill)
                 ELSE LockedAtoms(Opposite(side), tick, fill)
    BY <1>1, <1>2, <1>4, <2>1, FillPays DEF MakerOf, LotsOf
  <2> HIDE DEF d
  <2> QED BY <2>2, <2>3
<1> HIDE DEF j, fill, side, tick, head
<1>8. Drawn(book, d, head, fill)
  BY <1>1, <1>2, <1>3, <1>4, FillDraws
<1> HIDE DEF d
<1> QED BY <1>1, <1>4, <1>6, <1>7, <1>8, <1>9, WalkContinues DEF tick, head

LEMMA WalkNext == ASSUME EInv, Walking, MaxOrderIds <= FreedSeq, [Next]_vars PROVE Walking'
<1> SUFFICES ASSUME ix'.op = "Take" PROVE Walking'
  BY DEF Walking, Taking
<1>1. CASE UNCHANGED vars
  BY <1>1 DEF vars, Walking, Taking
<1>2. CASE TakerNext
  BY <1>2, TakerWalks
<1>3. ~Abort
  BY DEF Abort, Idle
<1>4. CASE Taking /\ TakeExpired
  BY <1>4, KillWalks DEF TakeExpired
<1>5. CASE Taking /\ TakeOwn
  BY <1>3, <1>5, KillWalks DEF TakeOwn
<1>6. CASE Taking /\ TakeFill
  BY <1>6, FillWalks
<1> QED BY <1>1, <1>2, <1>4, <1>5, <1>6, Takes

\* What is left of the other orders when a take has committed is what its walk left.
LEMMA TakenRead ==
  ASSUME EInv, Walking, MaxOrderIds <= FreedSeq, [Next]_vars, committed' # committed, Taking
  PROVE  /\ \A n \in Live(Old) : Old.pool[n].maker # ix.seat =>
              (Survives(n) <=> n \in Live(book)) /\ Gone(n) = LotsOf(Old, n) - Left(book, n)
         /\ \A n \in Live(Old) : Tradable(n) <=> Offers(Old, n, ix, slot)
         /\ \A n \in Nodes : Traded(n) = Fills(Old, book, ix, slot)[n]
         /\ Walked(Old, book, ix, slot) /\ Tallies(Old, book, ix, slot)
         /\ Old \in Book /\ book \in Book
<1>1. Old \in Book /\ book \in Book /\ Sound(Old)
  BY EBook DEF Old, EInv, SInv, Structured
<1>2. Walked(Old, book, ix, slot) /\ Tallies(Old, book, ix, slot)
  BY DEF Walking, Old
<1>3. Leaves(book, New, ix)
  BY TakeLeaves DEF New
<1>4. \A n \in Live(Old) : SeqOf(Old, n) < Old.orderSeq /\ SeqOf(Old, n) \in Nat /\ Old.orderSeq \in Nat
  <2>1. PICK r : Dated(Old, r)
    BY <1>1 DEF Sound, Listed
  <2>2. \A n \in Live(Old) : SeqOf(Old, n) < Old.orderSeq
    BY <2>1 DEF Dated
  <2>3. \A n \in Live(Old) : SeqOf(Old, n) \in Nat
    BY <1>1, OrderTypes
  <2> QED BY <1>1, <2>2, <2>3 DEF Book
<1> HIDE DEF Old, New
<1>5. ASSUME NEW n \in Live(Old), Old.pool[n].maker # ix.seat
      PROVE  (Survives(n) <=> n \in Live(book)) /\ Gone(n) = LotsOf(Old, n) - Left(book, n)
  <2>1. n \in Nodes /\ LotsOf(Old, n) \in Nat
    BY <1>1, LiveTicks
  <2>2. CASE n \in Live(book)
    <3>1. MakerOf(book, n) = MakerOf(Old, n) /\ SeqOf(book, n) = SeqOf(Old, n)
      BY <1>2, <2>2, SlimmedRead DEF Walked
    <3>2. n \notin QuotesAt(book, ix.seat, ix.side, ix.limit)
      BY <1>5, <3>1 DEF QuotesAt, LiveOf, MakerOf
    <3>3. n \in Live(New) /\ New.pool[n].lots = book.pool[n].lots /\ New.pool[n].seq = book.pool[n].seq
      BY <1>3, <2>2, <3>2 DEF Leaves, OrderFields
    <3>4. Survives(n)
      BY <3>1, <3>3 DEF Survives, Live, SeqOf
    <3> QED BY <2>2, <3>3, <3>4 DEF Gone, Left, LotsOf
  <2>3. CASE n \notin Live(book)
    <3>1. ~Survives(n)
      <4> SUFFICES ASSUME Survives(n) PROVE FALSE
        OBVIOUS
      <4>1. n \in Live(New) /\ SeqOf(New, n) = SeqOf(Old, n)
        BY <2>1 DEF Survives, Live, SeqOf
      <4>2. SeqOf(New, n) >= book.orderSeq
        BY <1>3, <2>3, <4>1 DEF Leaves
      <4>3. book.orderSeq = Old.orderSeq
        BY <1>2 DEF Walked, Slimmed
      <4> QED BY <1>4, <4>1, <4>2, <4>3
    <3> QED BY <2>1, <2>3, <3>1 DEF Gone, Left, LotsOf
  <2> QED BY <2>2, <2>3
<1>6. \A n \in Live(Old) : Tradable(n) <=> Offers(Old, n, ix, slot)
  BY DEF Tradable, Offers, SideOf, TickOf, MakerOf
<1>7. \A n \in Live(Old) : Tradable(n) => Old.pool[n].maker # ix.seat
  BY DEF Tradable
<1>8. \A n \in Nodes : Traded(n) = Fills(Old, book, ix, slot)[n]
  BY <1>5, <1>6, <1>7 DEF Traded, Fills
<1> QED BY <1>1, <1>2, <1>5, <1>6, <1>8

\* Price-time priority (take): however many orders, levels and prices, a take
\* that succeeds has filled every order due before one it filled, and its
\* totals are those of its fills.
THEOREM InTurn ==
  ASSUME FreedSeq \notin CancelIds, MaxOrderIds <= FreedSeq PROVE Spec => PriceTimePriority
<1> DEFINE A == TakeCommits => FilledInTurn
<1>1. ASSUME EInv, Walking, [Next]_vars, committed' # committed PROVE A
  <2> SUFFICES ASSUME Taking PROVE FilledInTurn
    BY DEF TakeCommits
  <2>1. /\ \A n \in Live(Old) : Old.pool[n].maker # ix.seat =>
              (Survives(n) <=> n \in Live(book)) /\ Gone(n) = LotsOf(Old, n) - Left(book, n)
        /\ \A n \in Live(Old) : Tradable(n) <=> Offers(Old, n, ix, slot)
        /\ \A n \in Nodes : Traded(n) = Fills(Old, book, ix, slot)[n]
        /\ Walked(Old, book, ix, slot) /\ Tallies(Old, book, ix, slot)
        /\ Old \in Book /\ book \in Book
    BY <1>1, TakenRead
  <2>2. Live(Old) \subseteq Nodes
    BY LiveNodes
  <2>3. Sum(Traded, Live(Old)) = SumOver([n \in Nodes |-> Traded(n)], Live(Old))
    BY <2>2, TradedSum
  <2>4. Sum(TradedFor, Live(Old)) = SumOver([n \in Nodes |-> TradedFor(n)], Live(Old))
    BY <2>2, CostSum
  <2> HIDE DEF Old, New
  <2>5. [n \in Nodes |-> Traded(n)] = Fills(Old, book, ix, slot)
    BY <2>1 DEF Fills
  <2>6. [n \in Nodes |-> TradedFor(n)] = Costs(Old, book, ix, slot)
    BY <2>1 DEF Costs, TickOf, TradedFor
  <2>7. ix.lots = Sum(Traded, Live(Old))
    BY <2>1, <2>3, <2>5 DEF Tallies
  <2>8. ix.quote = Sum(TradedFor, Live(Old))
    BY <2>1, <2>4, <2>6 DEF Tallies
  <2>9. \A n \in Live(Old) : Left(book, n) \in Nat /\ LotsOf(Old, n) \in Nat /\ Left(Old, n) = LotsOf(Old, n)
    BY <2>1, <2>2, LeftTypes, LiveTicks DEF Left
  <2>10. ASSUME NEW m \in Live(Old), NEW n \in Live(Old), Tradable(m), Tradable(n), Precedes(m, n), Traded(n) > 0
         PROVE  ~Survives(m)
    <3>1. Offers(Old, m, ix, slot) /\ Offers(Old, n, ix, slot)
      BY <2>1, <2>10
    <3>2. Outranks(Old, ix, m, n)
      BY <2>10 DEF Precedes, Outranks, Better, TickOf, SeqOf
    <3>3. Hit(Old, book, n)
      BY <2>1, <2>9, <2>10 DEF Hit, Traded, Tradable
    <3>4. m \notin Live(book)
      BY <2>1, <3>1, <3>2, <3>3 DEF Walked
    <3> QED BY <2>1, <2>10, <3>4 DEF Tradable
  <2>11. ASSUME NEW n \in Live(Old), ~Tradable(n), Gone(n) > 0
         PROVE  (~Survives(n) /\ IsExpired(Old, n, slot)) \/ Old.pool[n].maker = ix.seat
    <3> SUFFICES ASSUME Old.pool[n].maker # ix.seat PROVE ~Survives(n) /\ IsExpired(Old, n, slot)
      OBVIOUS
    <3>1. Hit(Old, book, n)
      BY <2>1, <2>9, <2>11 DEF Hit
    <3>2. n \notin Live(book) /\ IsExpired(Old, n, slot)
      BY <2>1, <2>11, <3>1 DEF Walked, MakerOf
    <3> QED BY <2>1, <3>2
  <2> QED BY <2>7, <2>8, <2>10, <2>11 DEF FilledInTurn
<1>2. EInv /\ Walking /\ [Next]_vars => (EInv /\ Walking)' /\ [A]_committed
  BY <1>1, ENext, WalkNext
<1>3. Init => EInv /\ Walking
  BY EInit DEF Init, Idle, Walking, Taking
<1>4. Spec => [][A]_committed
  BY <1>2, <1>3, PTL DEF Spec
<1> QED BY <1>4 DEF PriceTimePriority

LEMMA OppositeSides == \A side \in Sides : Opposite(side) # side /\ Opposite(side) \in Sides
BY DEF Sides, Opposite

\* A crossing PlaceLimit (place_limit.rs): whatever it matched, a seat's limit
\* order rests as one order of the size left, and its other orders on that
\* side are as they were.
THEOREM RestsExactly ==
  ASSUME FreedSeq \notin CancelIds, MaxOrderIds <= FreedSeq PROVE Spec => RestExact
<1> DEFINE A == TakeCommits /\ ix.kind = "PlaceLimit" => RestedAtLimit
<1>1. ASSUME EInv, Walking, [Next]_vars, committed' # committed PROVE A
  <2> SUFFICES ASSUME Taking, ix.kind = "PlaceLimit" PROVE RestedAtLimit
    BY DEF TakeCommits
  <2>1. Walked(Old, book, ix, slot) /\ Old \in Book /\ book \in Book
    BY <1>1, TakenRead
  <2>2. Leaves(book, New, ix)
    BY <1>1, TakeLeaves DEF New
  <2>3. Sound(Old) /\ IInv
    BY <1>1, EBook DEF EInv, SInv, Structured, Old
  <2>4. ix.maxLots \in Nat /\ ix.lots \in Nat /\ ix.lots <= ix.maxLots /\ ix.side \in Sides
    BY <2>3, TakeType
  <2>5. Leftover(ix) <=> ix.maxLots - ix.lots # 0
    BY <2>4 DEF Leftover, Remaining
  <2> HIDE DEF Old, New
  <2>6. ASSUME ix.maxLots - ix.lots > 0
        PROVE  LET own == QuotesAt(New, ix.seat, ix.side, ix.limit)
               IN /\ Cardinality(own) = 1
                  /\ \A n \in own : New.pool[n].lots = ix.maxLots - ix.lots /\ New.pool[n].expiry = ix.expiry
    <3>1. PICK n : /\ QuotesAt(New, ix.seat, ix.side, ix.limit) = {n}
                   /\ New.pool[n].lots = Remaining(ix) /\ New.pool[n].expiry = ix.expiry
      BY <2>2, <2>4, <2>5, <2>6 DEF Leaves
    <3>2. Cardinality({n}) = 1
      BY FS_Singleton
    <3> QED BY <3>1, <3>2 DEF Remaining
  <2>7. ASSUME NEW n \in LiveOf(Old, ix.seat), Old.pool[n].side = ix.side,
               ix.maxLots - ix.lots = 0 \/ Old.pool[n].tick # ix.limit
        PROVE  Survives(n) /\ Gone(n) = 0
    <3>1. n \in Live(Old) /\ n \in Nodes /\ LotsOf(Old, n) \in Nat /\ LotsOf(Old, n) > 0
      BY <2>1, <2>3, LiveTicks DEF LiveOf, Live, Sound, Housed
    <3>2. ~Hit(Old, book, n)
      <4>1. SideOf(Old, n) # BookSide(ix)
        BY <2>4, <2>7, OppositeSides DEF SideOf, BookSide
      <4> QED BY <2>1, <3>1, <4>1 DEF Walked, Offers
    <3>3. Left(book, n) = LotsOf(Old, n)
      <4>1. Left(book, n) \in Nat /\ Left(book, n) <= Left(Old, n) /\ Left(Old, n) = LotsOf(Old, n)
        BY <2>1, <3>1, LeftTypes DEF Walked, Slimmed, Left
      <4> QED BY <3>1, <3>2, <4>1 DEF Hit
    <3>4. n \in Live(book) /\ LotsOf(book, n) = LotsOf(Old, n)
      BY <3>1, <3>3 DEF Left
    <3>5. SeqOf(book, n) = SeqOf(Old, n) /\ TickOf(book, n) = TickOf(Old, n)
      BY <2>1, <3>4, SlimmedRead DEF Walked
    <3>6. ~(Leftover(ix) /\ n \in QuotesAt(book, ix.seat, ix.side, ix.limit))
      BY <2>5, <2>7, <3>5 DEF QuotesAt, TickOf
    <3>7. n \in Live(New) /\ New.pool[n].lots = book.pool[n].lots /\ New.pool[n].seq = book.pool[n].seq
      BY <2>2, <3>4, <3>6 DEF Leaves, OrderFields
    <3> QED BY <3>1, <3>4, <3>5, <3>7 DEF Survives, Gone, Live, SeqOf, LotsOf
  <2> QED BY <2>6, <2>7 DEF RestedAtLimit
<1>2. EInv /\ Walking /\ [Next]_vars => (EInv /\ Walking)' /\ [A]_committed
  BY <1>1, ENext, WalkNext
<1>3. Init => EInv /\ Walking
  BY EInit DEF Init, Idle, Walking, Taking
<1>4. Spec => [][A]_committed
  BY <1>2, <1>3, PTL DEF Spec
<1> QED BY <1>4 DEF RestExact

-----------------------------------------------------------------------------
(* When a take stops                                                       *)

\* The most that one walk step may spend pays for one lot at any price.
CapPays ==
  \A rate \in 0 .. MaxFeeBps :
    TickLimit * TickSize <= ((U64Max \div (FeeDenominator + rate)) * FeeDenominator) \div (FeeDenominator + rate)

LEMMA DivLess ==
  ASSUME NEW x \in Nat, NEW w \in Nat \ {0}, NEW p \in Nat, x \div w < p
  PROVE  x < p * w
<1> DEFINE q == x \div w
           r == x % w
<1>1. x = w * q + r /\ r < w /\ q \in Nat /\ r \in Nat
  OBVIOUS
<1>2. q + 1 <= p
  BY <1>1
<1>3. w * (q + 1) <= w * p
  <2> HIDE DEF q, r
  <2>1. PICK e \in Nat : p = (q + 1) + e
    <3>1. p - (q + 1) \in Nat /\ p = (q + 1) + (p - (q + 1))
      BY <1>1, <1>2
    <3> QED BY <3>1
  <2>2. w * p = w * (q + 1) + w * e
    BY <1>1, <2>1
  <2>3. w * e \in Nat
    BY <2>1
  <2>4. w * (q + 1) \in Nat
    BY <1>1
  <2> QED BY <2>2, <2>3, <2>4
<1>4. w * (q + 1) = w * q + w
  BY <1>1
<1>5. x < w * (q + 1)
  BY <1>1, <1>4
<1>6. w * p = p * w
  OBVIOUS
<1> HIDE DEF q, r
<1> QED BY <1>1, <1>3, <1>5, <1>6

LEMMA DivZero ==
  ASSUME NEW x \in Nat, NEW p \in Nat \ {0}, x \div p = 0
  PROVE  x < p
OBVIOUS

\* What a budget does not pay for one lot of is less than its price and fee.
LEMMA Unaffordable ==
  ASSUME IInv, Taking, AtOrder(ix), FillLots(book, ix) = 0, CapPays, ix.lots < ix.maxLots,
         book.pool[TakeHead(book, ix)].lots > 0, ix.maxQuote # U64Max => ix.quote + ix.fee <= ix.maxQuote
  PROVE  /\ ix.maxQuote # U64Max
         /\ (TakeLevel(book, ix) * TickSize) * (FeeDenominator + book.feeBps)
              > (ix.maxQuote - ix.quote - ix.fee) * FeeDenominator
<1> DEFINE t == TakeLevel(book, ix)
           budget == ix.maxQuote - ix.quote - ix.fee
           whole == FeeDenominator + book.feeBps
           capped == IF budget > U64Max \div whole THEN U64Max \div whole ELSE budget
           head == book.pool[TakeHead(book, ix)].lots
           p == t * TickSize
           afford == (capped * FeeDenominator) \div whole
<1>1. /\ ix.maxQuote \in Nat /\ ix.quote \in Nat /\ ix.fee \in Nat /\ ix.lots \in Nat /\ ix.maxLots \in Nat
      /\ t \in 1 .. TickLimit /\ TakeHead(book, ix) \in Links /\ book \in Book
  BY TakeType, TakeHeadType, InvGood DEF Good
<1>2. head \in Nat /\ Remaining(ix) \in Nat \ {0} /\ book.feeBps \in 0 .. MaxFeeBps
  <2>1. head \in Nat
    BY <1>1, NodeType
  <2>2. Remaining(ix) \in Nat \ {0}
    BY <1>1 DEF Remaining
  <2>3. book.feeBps \in Nat /\ book.feeBps <= MaxFeeBps
    BY <1>1, InvGood DEF Good, Header, Book
  <2> QED BY <2>1, <2>2, <2>3, ProgramAssumption
<1>3. Least(head, Remaining(ix)) > 0
  BY <1>2 DEF Least
<1>4. ix.maxQuote # U64Max /\ Affordable(book, ix) = 0
  <2>1. ix.maxQuote # U64Max
    BY <1>3 DEF FillLots
  <2> QED BY <1>2, <1>3, <2>1 DEF FillLots, Least
<1>5. whole \in Nat \ {0} /\ FeeDenominator \in Nat \ {0} /\ U64Max \in Nat /\ TickSize \in Nat \ {0} /\ TickLimit \in Nat
  BY <1>2, ProgramAssumption, BookAssumption
<1>6. budget \in Nat
  BY <1>1, <1>4
<1>7. p \in Nat \ {0} /\ p <= TickLimit * TickSize
  <2>1. PICK e \in Nat : TickLimit = t + e
    <3>1. TickLimit - t \in Nat /\ TickLimit = t + (TickLimit - t)
      BY <1>1, <1>5
    <3> QED BY <3>1
  <2>2. t \in Nat /\ t >= 1
    BY <1>1, <1>5
  <2> HIDE DEF t
  <2>3. TickLimit * TickSize = t * TickSize + e * TickSize /\ e * TickSize \in Nat /\ t * TickSize \in Nat
    BY <1>5, <2>1, <2>2
  <2>4. t * TickSize # 0
    BY <1>5, <2>2
  <2> QED BY <2>3, <2>4
<1>8. Affordable(book, ix) = afford \div p
  BY DEF Affordable
<1> HIDE DEF t, budget, whole, head, p
<1>9. capped \in Nat /\ (capped = budget \/ capped = U64Max \div whole)
  BY <1>5, <1>6
<1> HIDE DEF capped
<1>10. capped * FeeDenominator \in Nat
  BY <1>5, <1>9
<1>11. afford \in Nat
  BY <1>5, <1>10
<1>12. afford < p
  <2> HIDE DEF afford
  <2> QED BY <1>4, <1>7, <1>8, <1>11, DivZero
<1>13. capped = budget
  <2> SUFFICES ASSUME capped = U64Max \div whole PROVE FALSE
    BY <1>9
  <2>1. TickLimit * TickSize <= afford
    BY <1>2 DEF CapPays, whole
  <2>2. TickLimit * TickSize \in Nat
    BY <1>5
  <2> HIDE DEF afford
  <2> QED BY <1>7, <1>11, <1>12, <2>1, <2>2
<1>14. capped * FeeDenominator < p * whole
  BY <1>5, <1>7, <1>10, <1>12, DivLess
<1>15. p * whole \in Nat
  BY <1>5, <1>7
<1> QED BY <1>4, <1>10, <1>13, <1>14, <1>15 DEF t, budget, whole, p

\* Only a buyer's budget is in quote, and a swap has no seat.
TakeTerms ==
  Taking => /\ ix.maxQuote # U64Max => ix.side = "bid"
            /\ ix.kind = "Swap" => ix.seat = NoSeat

LEMMA TermsNext == ASSUME EInv, TakeTerms, [Next]_vars PROVE TakeTerms'
<1> SUFFICES ASSUME ix'.op = "Take" PROVE TakeTerms'
  BY DEF TakeTerms, Taking
<1>1. CASE UNCHANGED vars
  BY <1>1 DEF vars, TakeTerms, Taking
<1>2. CASE TakerNext
  <2>1. \A kind, s, side, limit, lots, quote, policy, expiry, minOut, delta :
          LET i == Take(kind, s, side, limit, lots, quote, policy, expiry, minOut, delta)
          IN i.maxQuote = quote /\ i.side = side /\ i.kind = kind /\ i.seat = s
    BY DEF Take
  <2>2. ASSUME NEW s \in SeatIds, NEW side \in Sides, NEW limit \in InTicks, NEW lots \in InLots,
               NEW policy \in Policies, NEW expiry \in InExpiries,
               BeginPlaceLimit(s, side, limit, lots, policy, expiry)
        PROVE  TakeTerms'
    BY <2>1, <2>2 DEF BeginPlaceLimit, Continue, TakeTerms
  <2>3. ASSUME NEW s \in SeatIds, NEW side \in Sides, NEW limit \in InTicks, NEW lots \in TakeLots,
               NEW minOut \in MinOuts, NEW policy \in Policies,
               BeginPlaceTake(s, side, limit, lots, minOut, policy)
        PROVE  TakeTerms'
    BY <2>1, <2>3 DEF BeginPlaceTake, Continue, TakeTerms
  <2>4. ASSUME NEW side \in Sides, NEW limit \in InTicks, NEW amount \in SwapAmounts,
               NEW minOut \in MinOuts, BeginSwap(side, limit, amount, minOut)
        PROVE  TakeTerms'
    <3>1. PICK delta \in Received(amount) : SwapWith(side, limit, delta, minOut)
      BY <2>4 DEF BeginSwap
    <3>2. ix'.maxQuote = (IF side = "bid" THEN delta ELSE U64Max) /\ ix'.side = side /\ ix'.seat = NoSeat
      BY <2>1, <3>1 DEF SwapWith
    <3> QED BY <3>2 DEF TakeTerms
  <2> QED BY <1>2, <2>2, <2>3, <2>4 DEF TakerNext
<1>3. CASE Taking /\ (TakeExpired \/ TakeOwn \/ TakeFill)
  <2>1. ix \in TakeIx
    BY <1>3, EBook, TakeType
  <2>2. ~Abort
    BY DEF Abort, Idle
  <2>3. ix'.side = ix.side /\ ix'.maxQuote = ix.maxQuote /\ ix'.kind = ix.kind /\ ix'.seat = ix.seat
    BY <1>3, <2>1, <2>2 DEF TakeExpired, TakeOwn, TakeFill, Continue, TakeIx
  <2> QED BY <1>3, <2>3 DEF TakeTerms, Taking
<1> QED BY <1>1, <1>2, <1>3, Takes

\* A take that sees no level has none left.
LEMMA NoneLeft ==
  ASSUME SInv, Taking, TakeLevel(book, ix) = NoTick, NEW m \in Live(book), SideOf(book, m) = BookSide(ix),
         ix.at # NoTick => ~Better(ix, TickOf(book, m), ix.at),
         IF ix.side = "bid" THEN TickOf(book, m) <= ix.limit ELSE TickOf(book, m) >= ix.limit
  PROVE  FALSE
<1> DEFINE T == LevelsLeft(book, ix)
           t == TickOf(book, m)
<1>1. IInv /\ book \in Book /\ WindowClear(book) /\ Sound(book) /\ ix.limit \in Nat /\ ix.side \in Sides
  BY SBook, TakeType DEF SInv, Structured
<1>2. t \in TicksOf(book, BookSide(ix)) /\ t \in Nat
  BY <1>1, LiveTick, LiveTicks
<1>3. T \subseteq 0 .. LastTick(book) /\ LastTick(book) \in Nat
  BY <1>1, BookAssumption DEF LevelsLeft, TicksOf, Book, LastTick
<1>7. ix.at \in Nat
  BY <1>1, TakeType DEF TakeIx
<1>4. t \in T
  BY <1>1, <1>2, <1>7 DEF LevelsLeft, Better
<1>5. \A u \in T : u # NoTick
  <2>1. \A u \in T : InWindow(book, u)
    BY DEF LevelsLeft, TicksOf, InWindow
  <2> QED BY <1>1, <2>1, WindowTick
<1> HIDE DEF T, t
<1>6. Highest(T) \in T /\ Lowest(T) \in T
  BY <1>3, <1>4, HighestLowest
<1> QED BY <1>5, <1>6 DEF TakeLevel, T

\* A take stops for a reason (take): where the budget's cap pays for a lot, one
\* that succeeds below its size has left no order it may trade with and pay for.
THEOREM TakesInFull ==
  ASSUME FreedSeq \notin CancelIds, MaxOrderIds <= FreedSeq, CapPays PROVE Spec => TakesAllItCan
<1> DEFINE A ==
      TakeCommits /\ ix.lots < ix.maxLots =>
       \A n \in Live(Old) : Tradable(n) /\ Survives(n) =>
         /\ ix.maxQuote # U64Max
         /\ (Old.pool[n].tick * TickSize) * (FeeDenominator + Old.feeBps)
              > (ix.maxQuote - ix.quote - ix.fee) * FeeDenominator
<1>1. ASSUME EInv, Walking, TakeTerms, SwapInv, [Next]_vars, committed' # committed PROVE A
  <2> SUFFICES ASSUME Taking, ix.lots < ix.maxLots, NEW n \in Live(Old), Tradable(n), Survives(n)
               PROVE  /\ ix.maxQuote # U64Max
                      /\ (Old.pool[n].tick * TickSize) * (FeeDenominator + Old.feeBps)
                           > (ix.maxQuote - ix.quote - ix.fee) * FeeDenominator
    BY DEF TakeCommits
  <2>1. /\ Old.pool[n].maker # ix.seat => (Survives(n) <=> n \in Live(book))
        /\ Tradable(n) <=> Offers(Old, n, ix, slot)
        /\ Walked(Old, book, ix, slot) /\ Old \in Book /\ book \in Book
    BY <1>1, TakenRead
  <2>2. TakeOver
    BY <1>1, TakeLeaves
  <2>3. SInv /\ IInv /\ Sound(book) /\ book \in Book
    BY <1>1, EBook DEF EInv, SInv, Structured
  <2> HIDE DEF Old, New
  <2>4. n \in Live(book)
    BY <2>1 DEF Tradable
  <2>5. TickOf(book, n) = Old.pool[n].tick /\ Offers(book, n, ix, slot)
    BY <2>1, <2>4, SlimmedRead DEF Walked, TickOf
  <2>6. SideOf(book, n) = BookSide(ix) /\ (ix.at # NoTick => ~Better(ix, TickOf(book, n), ix.at))
        /\ (IF ix.side = "bid" THEN TickOf(book, n) <= ix.limit ELSE TickOf(book, n) >= ix.limit)
    BY <2>1, <2>4, <2>5 DEF Offers, Walked
  <2>7. TakeLevel(book, ix) # NoTick
    BY <2>3, <2>4, <2>6, NoneLeft
  <2>8. ix.lots \in Nat /\ ix.maxLots \in Nat /\ ix.maxQuote \in Nat /\ ix.quote \in Nat /\ ix.fee \in Nat
    BY <2>3, TakeType
  <2>9. AtOrder(ix) /\ FillLots(book, ix) = 0
    BY <2>2, <2>7, <2>8 DEF AtOrder, Remaining, TakeOver
  <2>10. book.pool[TakeHead(book, ix)].lots > 0
    BY <2>3, <2>9, TakeHeadLive DEF Sound, Housed, LotsOf
  <2>11. ix.maxQuote # U64Max => ix.quote + ix.fee <= ix.maxQuote
    BY <1>1 DEF SwapInv, WithinBudget
  <2>12. /\ ix.maxQuote # U64Max
         /\ (TakeLevel(book, ix) * TickSize) * (FeeDenominator + book.feeBps)
              > (ix.maxQuote - ix.quote - ix.fee) * FeeDenominator
    BY <2>3, <2>9, <2>10, <2>11, Unaffordable
  <2>13. TakeLevel(book, ix) <= TickOf(book, n) /\ TakeLevel(book, ix) \in Nat /\ TickOf(book, n) \in Nat
    <3>1. ix.side = "bid"
      BY <1>1, <2>12 DEF TakeTerms
    <3>2. ~Better(ix, TickOf(book, n), TakeLevel(book, ix))
      BY <2>3, <2>4, <2>6, <2>9, LevelBest
    <3>3. TakeLevel(book, ix) \in Nat /\ TickOf(book, n) \in Nat
      BY <2>3, <2>4, <2>9, TakeHeadType, LiveTicks
    <3> QED BY <3>1, <3>2, <3>3 DEF Better
  <2>14. Old.feeBps = book.feeBps /\ book.feeBps \in Nat
    BY <2>1 DEF Walked, Slimmed, Book
  <2> DEFINE t == TakeLevel(book, ix)
             u == TickOf(book, n)
             w == FeeDenominator + book.feeBps
             x == (ix.maxQuote - ix.quote - ix.fee) * FeeDenominator
  <2>15. w \in Nat /\ TickSize \in Nat /\ x \in Nat
    <3>1. ix.maxQuote - ix.quote - ix.fee \in Nat
      BY <2>8, <2>11, <2>12
    <3> QED BY <2>14, <3>1, BookAssumption, ProgramAssumption
  <2>16. (t * TickSize) * w <= (u * TickSize) * w
    <3> HIDE DEF t, u, w
    <3>1. PICK e \in Nat : u = t + e
      <4>1. u - t \in Nat /\ u = t + (u - t)
        BY <2>13 DEF t, u
      <4> QED BY <4>1
    <3>2. t \in Nat /\ u \in Nat
      BY <2>13 DEF t, u
    <3>3. u * TickSize = t * TickSize + e * TickSize /\ t * TickSize \in Nat /\ e * TickSize \in Nat
      BY <2>15, <3>1, <3>2
    <3>4. (u * TickSize) * w = (t * TickSize) * w + (e * TickSize) * w
      BY <2>15, <3>3
    <3>5. (t * TickSize) * w \in Nat /\ (e * TickSize) * w \in Nat
      BY <2>15, <3>3
    <3> QED BY <3>4, <3>5
  <2>17. (t * TickSize) * w \in Nat /\ (u * TickSize) * w \in Nat
    <3> HIDE DEF t, u, w
    <3>1. t \in Nat /\ u \in Nat
      BY <2>13 DEF t, u
    <3>2. t * TickSize \in Nat /\ u * TickSize \in Nat
      BY <2>15, <3>1
    <3> QED BY <2>15, <3>2
  <2>18. (t * TickSize) * w > x
    BY <2>12
  <2>19. (u * TickSize) * w > x
    <3> HIDE DEF t, u, w, x
    <3> QED BY <2>15, <2>16, <2>17, <2>18
  <2> QED BY <2>5, <2>12, <2>14, <2>19
<1>2. EInv /\ Walking /\ TakeTerms /\ SwapInv /\ [Next]_vars => (EInv /\ Walking /\ TakeTerms)' /\ [A]_committed
  BY <1>1, ENext, WalkNext, TermsNext
<1>3. Init => EInv /\ Walking /\ TakeTerms
  BY EInit DEF Init, Idle, Walking, Taking, TakeTerms
<1>4. Spec => [][A]_committed
  BY <1>2, <1>3, SwapInvHolds, PTL DEF Spec
<1> QED BY <1>4 DEF TakesAllItCan

-----------------------------------------------------------------------------
(* What a take settles                                                     *)

\* What take i brings seat r, of asset a, when it ends.
Settlement(i, r, a) ==
  IF r # i.seat THEN 0
  ELSE IF a = "quote" THEN IF i.side = "bid" THEN 0 - (i.quote + i.fee) ELSE i.quote - i.fee
  ELSE IF i.side = "bid" THEN BaseLotSize * i.lots ELSE 0 - BaseLotSize * i.lots

\* Book c is b with take i settled.
Settled(b, c, i) ==
  /\ c.fees = b.fees + i.fee
  /\ \A r \in SeatIds, a \in Assets : SeatTotal(c, r, a) = SeatTotal(b, r, a) + Settlement(i, r, a)

LEMMA SettledEven ==
  ASSUME NEW b, NEW c, NEW d, NEW i, Settled(b, c, i), Even(c, d) PROVE Settled(b, d, i)
BY DEF Settled, Even

\* A seat gets x of one asset, and then y of the other.
LEMMA LegsAdd ==
  ASSUME NEW b, NEW c, NEW f, NEW s, NEW x, NEW y, NEW d, NEW e, d # e, Gets(b, c, s, d, x), Gets(c, f, s, e, y)
  PROVE  /\ f \in Book /\ f.fees = b.fees
         /\ \A r \in SeatIds, a \in Assets :
              SeatTotal(f, r, a) = SeatTotal(b, r, a) + (IF r # s THEN 0 ELSE IF a = d THEN x ELSE y)
<1>3. f \in Book /\ c \in Book /\ b \in Book /\ f.fees = b.fees /\ x \in Int /\ y \in Int
  BY DEF Gets
<1>4. ASSUME NEW r \in SeatIds, NEW a \in Assets
      PROVE  SeatTotal(f, r, a) = SeatTotal(b, r, a) + (IF r # s THEN 0 ELSE IF a = d THEN x ELSE y)
  <2>1. SeatTotal(c, r, a) = SeatTotal(b, r, a) + (IF r = s /\ a = d THEN x ELSE 0)
    BY DEF Gets
  <2>2. SeatTotal(f, r, a) = SeatTotal(c, r, a) + (IF r = s /\ a = e THEN y ELSE 0)
    BY DEF Gets
  <2>3. d \in Assets /\ e \in Assets
    BY DEF Gets
  <2>4. a = d \/ a = e
    BY <2>3 DEF Assets
  <2>5. SeatTotal(b, r, a) \in Nat
    BY <1>3, SeatTotalType
  <2> QED BY <1>3, <2>1, <2>2, <2>4, <2>5
<1> QED BY <1>3, <1>4

LEMMA AccruedPays ==
  ASSUME IInv, Taking
  PROVE  /\ Accrued(book, ix) \in Book /\ Accrued(book, ix).fees = book.fees + ix.fee
         /\ \A r \in SeatIds, a \in Assets : SeatTotal(Accrued(book, ix), r, a) = SeatTotal(book, r, a)
         /\ \A r \in SeatIds, a \in Assets : SeatTotal(book, r, a) \in Nat
<1>1. Good(Accrued(book, ix)) /\ Accrued(book, ix).seats = book.seats
  BY AccruedGood
<1>2. book \in Book
  BY InvGood DEF Good
<1>3. Accrued(book, ix).fees = book.fees + ix.fee
  BY <1>2 DEF Accrued, Book
<1>4. \A r \in SeatIds, a \in Assets : SeatTotal(book, r, a) \in Nat
  BY <1>2, SeatTotalType
<1> QED BY <1>1, <1>3, <1>4 DEF Good, SeatTotal

LEMMA SettlePays ==
  ASSUME IInv, Taking, ix.kind # "Swap", SeatPays(Accrued(book, ix), ix)
  PROVE  /\ SettleTaker(Accrued(book, ix), ix) \in Book
         /\ Settled(book, SettleTaker(Accrued(book, ix), ix), ix)
<1> DEFINE b    == Accrued(book, ix)
           base == BaseLotSize * ix.lots
           s    == ix.seat
           paid == ix.quote + ix.fee
           got  == ix.quote - ix.fee
           c    == SettleTaker(b, ix)
<1>1. /\ s \in SeatIds /\ paid \in Nat /\ got \in Nat /\ base \in Nat
      /\ ix.quote \in Nat /\ ix.fee \in Nat
  BY TakeType, Products, BookAssumption
<1>2. /\ b \in Book /\ b.fees = book.fees + ix.fee
      /\ \A r \in SeatIds, a \in Assets : SeatTotal(b, r, a) = SeatTotal(book, r, a)
      /\ \A r \in SeatIds, a \in Assets : SeatTotal(book, r, a) \in Nat
  BY AccruedPays
<1>3. b.seats[s].free["base"] \in Nat /\ b.seats[s].free["quote"] \in Nat
  BY <1>1, <1>2, AssetsAre, BalanceType
<1>4. SeatPays(b, ix)
  OBVIOUS
<1>5. /\ Settlement(ix, s, "quote") = (IF ix.side = "bid" THEN 0 - paid ELSE got)
      /\ Settlement(ix, s, "base") = (IF ix.side = "bid" THEN base ELSE 0 - base)
      /\ \A r, a : r # s => Settlement(ix, r, a) = 0
  BY DEF Settlement
<1>7. CASE ix.side = "bid"
  <2>1. b.seats[s].free["quote"] >= paid
    BY <1>4, <1>7 DEF SeatPays
  <2>2. c = AddFree(AddFree(b, s, "quote", -paid), s, "base", base)
    BY <1>7 DEF SettleTaker
  <2> HIDE DEF b, base, s, paid, c
  <2>3. b.seats[s].free["quote"] + (-paid) >= 0 /\ b.seats[s].free["base"] + base >= 0
        /\ -paid \in Int /\ base \in Int
    BY <1>1, <1>3, <2>1
  <2>4. /\ c \in Book /\ c.fees = b.fees
        /\ \A r \in SeatIds, a \in Assets :
             SeatTotal(c, r, a) = SeatTotal(b, r, a) + (IF r # s THEN 0 ELSE IF a = "quote" THEN -paid ELSE base)
    <3> DEFINE m == AddFree(b, s, "quote", -paid)
    <3>1. Gets(b, m, s, "quote", -paid) /\ m.seats[s].free["base"] = b.seats[s].free["base"]
      BY <1>1, <1>2, <2>3, AssetsAre, AddFreeGets, AddFreeKept
    <3>2. c = AddFree(m, s, "base", base)
      BY <2>2
    <3> HIDE DEF m
    <3>3. Gets(m, c, s, "base", base)
      BY <1>1, <2>3, <3>1, <3>2, AssetsAre, AddFreeGets DEF Gets
    <3> QED BY <3>1, <3>3, LegsAdd
  <2>5. ASSUME NEW r \in SeatIds, NEW a \in Assets
        PROVE  SeatTotal(c, r, a) = SeatTotal(book, r, a) + Settlement(ix, r, a)
    BY <1>1, <1>2, <1>5, <1>7, <2>4 DEF Assets
  <2>6. c \in Book /\ Settled(book, c, ix)
    BY <1>2, <2>4, <2>5 DEF Settled
  <2> QED BY <2>6 DEF b, c
<1>8. CASE ix.side # "bid"
  <2>1. b.seats[s].free["base"] >= base
    BY <1>4, <1>8 DEF SeatPays
  <2>2. c = AddFree(AddFree(b, s, "base", -base), s, "quote", got)
    BY <1>8 DEF SettleTaker
  <2> HIDE DEF b, base, s, got, c
  <2>3. b.seats[s].free["base"] + (-base) >= 0 /\ b.seats[s].free["quote"] + got >= 0
        /\ -base \in Int /\ got \in Int
    BY <1>1, <1>3, <2>1
  <2>4. /\ c \in Book /\ c.fees = b.fees
        /\ \A r \in SeatIds, a \in Assets :
             SeatTotal(c, r, a) = SeatTotal(b, r, a) + (IF r # s THEN 0 ELSE IF a = "base" THEN -base ELSE got)
    <3> DEFINE m == AddFree(b, s, "base", -base)
    <3>1. Gets(b, m, s, "base", -base) /\ m.seats[s].free["quote"] = b.seats[s].free["quote"]
      BY <1>1, <1>2, <2>3, AssetsAre, AddFreeGets, AddFreeKept
    <3>2. c = AddFree(m, s, "quote", got)
      BY <2>2
    <3> HIDE DEF m
    <3>3. Gets(m, c, s, "quote", got)
      BY <1>1, <2>3, <3>1, <3>2, AssetsAre, AddFreeGets DEF Gets
    <3> QED BY <3>1, <3>3, LegsAdd
  <2>5. ASSUME NEW r \in SeatIds, NEW a \in Assets
        PROVE  SeatTotal(c, r, a) = SeatTotal(book, r, a) + Settlement(ix, r, a)
    BY <1>1, <1>2, <1>5, <1>8, <2>4 DEF Assets
  <2>6. c \in Book /\ Settled(book, c, ix)
    BY <1>2, <2>4, <2>5 DEF Settled
  <2> QED BY <2>6 DEF b, c
<1> QED BY <1>7, <1>8

\* A take that has committed.
LEMMA TakePays ==
  ASSUME EInv, TakeTerms, [Next]_vars, committed' # committed, Taking
  PROVE  Settled(book, New, ix)
<1> DEFINE acc  == Accrued(book, ix)
           paid == SettleTaker(acc, ix)
           rest == Remaining(ix)
           done == Upsert(paid, ix.seat, ix.side, ix.limit, rest, ix.expiry, FALSE)
<1>0. IInv /\ ~Abort
  BY EBook DEF Abort
<1>1. ASSUME NEW c \in Book, Settled(book, c, ix), committed'.book = BumpSeq(c) PROVE Settled(book, New, ix)
  <2>1. BumpSeq(c) \in Book
    BY KeptSelf, ListSetters, SeatsKeptIsKept, KeptBook
  <2>2. Even(c, BumpSeq(c))
    BY <2>1, BookBanked, SettersSameFunds, SameFundsEven
  <2> QED BY <1>1, <2>2, SettledEven DEF New
<1>2. CASE ix.kind # "Swap" /\ SeatPays(acc, ix) /\ committed'.book = BumpSeq(paid)
  <2>1. paid \in Book /\ Settled(book, paid, ix)
    BY <1>0, <1>2, SettlePays
  <2> HIDE DEF paid
  <2> QED BY <1>1, <1>2, <2>1
<1>3. CASE /\ ix.kind # "Swap" /\ SeatPays(acc, ix) /\ committed'.book = BumpSeq(done)
           /\ CanUpsert(paid, ix.seat, ix.side, ix.limit, rest, FALSE)
  <2>1. paid \in Book /\ Settled(book, paid, ix) /\ WindowClear(paid)
    BY <1>0, <1>3, SettlePays, SettleTakerGood, AccruedGood DEF Good, Header
  <2>2. /\ ix.seat \in SeatIds /\ ix.side \in Sides /\ ix.limit \in Nat /\ rest \in Nat
        /\ ix.expiry \in Nat
    BY <1>0, <1>3, TakeType DEF Remaining
  <2> HIDE DEF paid, rest
  <2>3. Even(paid, done)
    BY <1>3, <2>1, <2>2, UpsertEven
  <2>4. done \in Book
    BY <2>3 DEF Even
  <2>5. Settled(book, done, ix)
    BY <2>1, <2>3, SettledEven
  <2> HIDE DEF done
  <2> QED BY <1>1, <1>3, <2>4, <2>5
<1>4. CASE ix.kind = "Swap" /\ committed'.book = BumpSeq(acc)
  <2>1. \A r \in SeatIds : r # ix.seat
    BY <1>4, BookAssumption DEF TakeTerms, NoSeat, SeatIds
  <2>2. \A r \in SeatIds, a \in Assets : Settlement(ix, r, a) = 0
    BY <2>1 DEF Settlement
  <2>3. acc \in Book /\ Settled(book, acc, ix)
    BY <1>0, <2>2, AccruedPays DEF Settled
  <2> HIDE DEF acc
  <2> QED BY <1>1, <1>4, <2>3
<1>5. CASE EndPlaceLimit
  <2>1. /\ ix.kind # "Swap" /\ SeatPays(acc, ix)
        /\ \/ Commit(paid, vault)
           \/ /\ CanUpsert(paid, ix.seat, ix.side, ix.limit, rest, FALSE)
              /\ Commit(done, vault)
    BY <1>0, <1>5 DEF EndPlaceLimit
  <2>2. CASE Commit(paid, vault)
    <3>1. committed'.book = BumpSeq(paid)
      BY <2>2 DEF Commit
    <3> QED BY <1>2, <2>1, <3>1
  <2>3. CASE CanUpsert(paid, ix.seat, ix.side, ix.limit, rest, FALSE) /\ Commit(done, vault)
    <3>1. committed'.book = BumpSeq(done)
      BY <2>3 DEF Commit
    <3> QED BY <1>3, <2>1, <2>3, <3>1
  <2> QED BY <2>1, <2>2, <2>3
<1>6. CASE EndPlaceTake
  BY <1>0, <1>2, <1>6 DEF EndPlaceTake, Commit
<1>7. CASE EndSwap
  BY <1>0, <1>4, <1>7 DEF EndSwap, Commit
<1> QED BY <1>5, <1>6, <1>7, TakeEnds

\* What a seat's orders traded is what those on the side taken from did.
LEMMA TradedSides ==
  ASSUME EInv, Walking, MaxOrderIds <= FreedSeq, [Next]_vars, committed' # committed, Taking, NEW s \in SeatIds
  PROVE  LET mine == LiveOf(Old, s)
             hit  == {n \in mine : Old.pool[n].side = BookSide(ix)}
             rest == {n \in mine : Old.pool[n].side = ix.side}
         IN /\ SumOver(Fills(Old, book, ix, slot), mine) = Sum(Traded, hit)
            /\ SumOver(Costs(Old, book, ix, slot), mine) = Sum(TradedFor, hit)
            /\ Sum(Traded, rest) = 0 /\ Sum(TradedFor, rest) = 0
            /\ s = ix.seat => Sum(Traded, hit) = 0 /\ Sum(TradedFor, hit) = 0
            /\ Sum(Traded, hit) \in Int /\ Sum(TradedFor, hit) \in Int
<1> DEFINE mine == LiveOf(Old, s)
           hit  == {n \in mine : Old.pool[n].side = BookSide(ix)}
           rest == {n \in mine : Old.pool[n].side = ix.side}
           f    == Fills(Old, book, ix, slot)
           h    == Costs(Old, book, ix, slot)
           tf   == [n \in Nodes |-> Traded(n)]
           th   == [n \in Nodes |-> TradedFor(n)]
<1>1. Old \in Book /\ book \in Book /\ \A n \in Nodes : Traded(n) = f[n]
  BY TakenRead
<1>2. ix.side \in Sides
  BY EBook, TakeType
<1> HIDE DEF Old
<1>3. /\ IsFiniteSet(mine) /\ mine \subseteq Nodes
      /\ \A n \in mine : n \in Nodes /\ f[n] \in Int /\ h[n] \in Int
      /\ SumOver(f, mine) \in Int /\ SumOver(h, mine) \in Int
  BY <1>1, OwnTypes
<1>4. \A n \in mine : TickOf(Old, n) \in Int /\ Old.pool[n].maker = s
  <2>1. \A n \in mine : n \in Live(Old) /\ Old.pool[n].maker = s
    BY LivesAre DEF LiveOf
  <2> HIDE DEF mine
  <2> QED BY <1>1, <2>1, LiveTicks
<1>5. \A n \in mine : h[n] = Notional(TickOf(Old, n), f[n])
  BY <1>3 DEF Costs
<1>6. \A n \in mine : tf[n] = f[n] /\ th[n] = h[n]
  <2>1. \A n \in mine : tf[n] = Traded(n) /\ th[n] = Notional(Old.pool[n].tick, Traded(n))
    BY <1>3 DEF TradedFor
  <2>2. \A n \in mine : Traded(n) = f[n] /\ TickOf(Old, n) = Old.pool[n].tick
    BY <1>1, <1>3 DEF TickOf
  <2> HIDE DEF f, h, tf, th, mine
  <2> QED BY <1>5, <2>1, <2>2
<1>7. ASSUME NEW n \in mine, Old.pool[n].side # BookSide(ix) \/ s = ix.seat PROVE f[n] = 0 /\ h[n] = 0
  <2>1. ~Offers(Old, n, ix, slot)
    BY <1>4, <1>7 DEF Offers, SideOf, MakerOf
  <2>2. f[n] = 0
    BY <1>3, <2>1 DEF Fills
  <2>3. TickOf(Old, n) * TickSize \in Int
    BY <1>4, NotionalIs
  <2>4. Notional(TickOf(Old, n), 0) = (TickOf(Old, n) * TickSize) * 0
    BY <1>4, NotionalIs
  <2>5. \A x \in Int : x * 0 = 0
    OBVIOUS
  <2> QED BY <1>5, <2>2, <2>3, <2>4, <2>5
<1>8. BookSide(ix) # ix.side
  BY <1>2 DEF BookSide, Opposite, Sides
<1> HIDE DEF f, h, tf, th
<1>9. ASSUME NEW R, R \subseteq mine
      PROVE  /\ IsFiniteSet(R) /\ R \subseteq Nodes
             /\ Sum(Traded, R) = SumOver(f, R) /\ Sum(TradedFor, R) = SumOver(h, R)
  <2>1. IsFiniteSet(R) /\ R \subseteq Nodes
    BY <1>3, <1>9, FS_Subset
  <2>2. Sum(Traded, R) = SumOver(tf, R) /\ Sum(TradedFor, R) = SumOver(th, R)
    BY <2>1, TradedSum, CostSum DEF tf, th
  <2> HIDE DEF mine
  <2>3. SumOver(f, R) = SumOver(tf, R) /\ SumOver(h, R) = SumOver(th, R)
    BY <1>3, <1>6, <1>9, <2>1, SumOverSame
  <2> QED BY <2>1, <2>2, <2>3
<1>10. hit \subseteq mine /\ rest \subseteq mine
  OBVIOUS
<1>11. SumOver(f, mine) = SumOver(f, hit) /\ SumOver(h, mine) = SumOver(h, hit)
  <2>1. \A n \in mine \ hit : f[n] = 0 /\ h[n] = 0
    BY <1>7
  <2> HIDE DEF mine, hit
  <2> QED BY <1>3, <1>10, <2>1, SumOverWhere
<1>12. SumOver(f, rest) = 0 /\ SumOver(h, rest) = 0
  <2>1. \A n \in rest : f[n] = 0 /\ h[n] = 0
    BY <1>7, <1>8
  <2> HIDE DEF mine, rest
  <2> QED BY <1>9, <1>10, <2>1, ZeroSum
<1>13. s = ix.seat => SumOver(f, hit) = 0 /\ SumOver(h, hit) = 0
  <2>1. s = ix.seat => \A n \in hit : f[n] = 0 /\ h[n] = 0
    BY <1>7
  <2> HIDE DEF mine, hit
  <2> QED BY <1>9, <1>10, <2>1, ZeroSum
<1>14. /\ Sum(Traded, hit) = SumOver(f, hit) /\ Sum(TradedFor, hit) = SumOver(h, hit)
       /\ Sum(Traded, rest) = SumOver(f, rest) /\ Sum(TradedFor, rest) = SumOver(h, rest)
  BY <1>9, <1>10
<1> HIDE DEF mine, hit, rest
<1>15. /\ SumOver(f, mine) = Sum(Traded, hit) /\ SumOver(h, mine) = Sum(TradedFor, hit)
       /\ Sum(Traded, rest) = 0 /\ Sum(TradedFor, rest) = 0
       /\ s = ix.seat => Sum(Traded, hit) = 0 /\ Sum(TradedFor, hit) = 0
       /\ Sum(Traded, hit) \in Int /\ Sum(TradedFor, hit) \in Int
  BY <1>3, <1>11, <1>12, <1>13, <1>14
<1> QED BY <1>15 DEF mine, hit, rest, f, h

\* Who pays whom (take): however many orders a take fills, expires or ends on
\* its way, each maker's totals move by its own fills at its own prices, and
\* the taker's seat and the market's fees by what the take adds up to.
THEOREM PaidInFull ==
  ASSUME FreedSeq \notin CancelIds, MaxOrderIds <= FreedSeq PROVE Spec => TradesSettle
<1> DEFINE A == TakeCommits => SettledAtPrices
<1>1. ASSUME EInv, Walking, TakeTerms, [Next]_vars, committed' # committed PROVE A
  <2> SUFFICES ASSUME Taking PROVE SettledAtPrices
    BY DEF TakeCommits
  <2>1. Settled(book, New, ix)
    BY <1>1, TakePays
  <2>2. Paying(Old, book, ix, slot) /\ Old \in Book /\ book \in Book
    BY <1>1, TakenRead DEF Walking, Old
  <2>3. /\ ix.side \in Sides /\ ix.lots \in Int /\ ix.quote \in Int /\ ix.fee \in Int
        /\ ix.seat # NoSeat => ix.seat \in SeatIds
    BY <1>1, EBook, TakeType DEF TakeIx
  <2>4. New.fees = Old.fees + ix.fee
    BY <2>1, <2>2 DEF Settled, Paying
  <2>5. \A s \in SeatIds, a \in Assets : SeatTotal(Old, s, a) \in Nat
    BY <2>2, SeatTotalType
  <2>6. BaseLotSize \in Int /\ BaseLotSize * ix.lots \in Int /\ \A x \in Int : BaseLotSize * x \in Int
    BY <2>3, BookAssumption
  <2>7. \A s \in SeatIds, a \in Assets :
          SeatTotal(New, s, a) = (SeatTotal(Old, s, a) + Earned(Old, book, ix, slot, s, a)) + Settlement(ix, s, a)
    BY <2>1, <2>2 DEF Settled, Paying
  <2>8. ASSUME NEW s \in SeatIds
        PROVE  LET sold   == {n \in LiveOf(Old, s) : Old.pool[n].side = "ask"}
                   bought == {n \in LiveOf(Old, s) : Old.pool[n].side = "bid"}
               IN /\ Earned(Old, book, ix, slot, s, "base") = BaseLotSize * (Sum(Traded, bought) - Sum(Traded, sold))
                  /\ Earned(Old, book, ix, slot, s, "quote") = Sum(TradedFor, sold) - Sum(TradedFor, bought)
                  /\ s = ix.seat => /\ Earned(Old, book, ix, slot, s, "base") = 0
                                    /\ Earned(Old, book, ix, slot, s, "quote") = 0
                  /\ Sum(TradedFor, sold) \in Int /\ Sum(TradedFor, bought) \in Int
                  /\ BaseLotSize * (Sum(Traded, bought) - Sum(Traded, sold)) \in Int
    <3> DEFINE mine   == LiveOf(Old, s)
               sold   == {n \in mine : Old.pool[n].side = "ask"}
               bought == {n \in mine : Old.pool[n].side = "bid"}
               hit    == {n \in mine : Old.pool[n].side = BookSide(ix)}
               rest   == {n \in mine : Old.pool[n].side = ix.side}
               q      == Earned(Old, book, ix, slot, s, "quote")
               m      == Earned(Old, book, ix, slot, s, "base")
    <3>1. /\ SumOver(Fills(Old, book, ix, slot), mine) = Sum(Traded, hit)
          /\ SumOver(Costs(Old, book, ix, slot), mine) = Sum(TradedFor, hit)
          /\ Sum(Traded, rest) = 0 /\ Sum(TradedFor, rest) = 0
          /\ s = ix.seat => Sum(Traded, hit) = 0 /\ Sum(TradedFor, hit) = 0
          /\ Sum(Traded, hit) \in Int /\ Sum(TradedFor, hit) \in Int
      BY <1>1, TradedSides
    <3>2. /\ Moved(Old, book, ix, slot, s, "quote") = Sum(TradedFor, hit)
          /\ Moved(Old, book, ix, slot, s, "base") = BaseLotSize * Sum(Traded, hit)
      BY <3>1 DEF Moved
    <3>3. BaseLotSize * 0 = 0 /\ (s = ix.seat => BaseLotSize * Sum(Traded, hit) = 0)
      <4>1. \A x \in Int : x * 0 = 0
        OBVIOUS
      <4>2. BaseLotSize * 0 = 0
        BY <2>6, <4>1
      <4> QED BY <3>1, <4>2
    <3>4. CASE ix.side = "bid"
      <4>1. hit = sold /\ rest = bought
        BY <3>4 DEF BookSide, Opposite
      <4>2. q = Sum(TradedFor, sold) /\ m = 0 - BaseLotSize * Sum(Traded, sold)
        BY <3>2, <3>4, <4>1 DEF Earned, LockedAsset
      <4> HIDE DEF mine, sold, bought, hit, rest, q, m
      <4>3. Sum(Traded, bought) = 0 /\ Sum(TradedFor, bought) = 0 /\ Sum(Traded, sold) \in Int
            /\ Sum(TradedFor, sold) \in Int
        BY <3>1, <4>1
      <4> DEFINE z == Sum(Traded, sold)
      <4>4. 0 - BaseLotSize * z = BaseLotSize * (0 - z)
        <5> HIDE DEF z
        <5>1. z \in Int
          BY <4>3 DEF z
        <5> QED BY <2>6, <5>1
      <4>5. q = Sum(TradedFor, sold) - Sum(TradedFor, bought) /\ m = BaseLotSize * (Sum(Traded, bought) - Sum(Traded, sold))
        BY <4>2, <4>3, <4>4
      <4>6. Sum(Traded, bought) - Sum(Traded, sold) \in Int
        BY <4>3
      <4>7. s = ix.seat => m = 0 /\ q = 0
        BY <3>1, <3>3, <4>1, <4>2
      <4> QED BY <2>6, <4>3, <4>5, <4>6, <4>7 DEF mine, sold, bought, q, m
    <3>5. CASE ix.side = "ask"
      <4>1. hit = bought /\ rest = sold
        BY <3>5 DEF BookSide, Opposite
      <4>2. q = 0 - Sum(TradedFor, bought) /\ m = BaseLotSize * Sum(Traded, bought)
        BY <3>2, <3>5, <4>1 DEF Earned, LockedAsset
      <4> HIDE DEF mine, sold, bought, hit, rest, q, m
      <4>3. Sum(Traded, sold) = 0 /\ Sum(TradedFor, sold) = 0 /\ Sum(Traded, bought) \in Int
            /\ Sum(TradedFor, bought) \in Int
        BY <3>1, <4>1
      <4>5. q = Sum(TradedFor, sold) - Sum(TradedFor, bought) /\ Sum(Traded, bought) - Sum(Traded, sold) = Sum(Traded, bought)
        BY <4>2, <4>3
      <4>7. s = ix.seat => m = 0 /\ q = 0
        BY <3>1, <3>3, <4>1, <4>2
      <4> QED BY <2>6, <4>2, <4>3, <4>5, <4>7 DEF mine, sold, bought, q, m
    <3> QED BY <2>3, <3>4, <3>5 DEF Sides
  <2>9. "base" \in Assets /\ "quote" \in Assets
    BY AssetsAre
  <2>10. ASSUME NEW s \in SeatIds \ {ix.seat}
         PROVE LET sold   == {n \in LiveOf(Old, s) : Old.pool[n].side = "ask"}
                   bought == {n \in LiveOf(Old, s) : Old.pool[n].side = "bid"}
               IN /\ SeatTotal(New, s, "base") = SeatTotal(Old, s, "base")
                       + BaseLotSize * (Sum(Traded, bought) - Sum(Traded, sold))
                  /\ SeatTotal(New, s, "quote") = SeatTotal(Old, s, "quote")
                       + Sum(TradedFor, sold) - Sum(TradedFor, bought)
    <3> DEFINE sold   == {n \in LiveOf(Old, s) : Old.pool[n].side = "ask"}
               bought == {n \in LiveOf(Old, s) : Old.pool[n].side = "bid"}
               z      == BaseLotSize * (Sum(Traded, bought) - Sum(Traded, sold))
               q      == Sum(TradedFor, sold)
               p      == Sum(TradedFor, bought)
    <3>1. /\ Earned(Old, book, ix, slot, s, "base") = z
          /\ Earned(Old, book, ix, slot, s, "quote") = q - p
          /\ z \in Int /\ q \in Int /\ p \in Int
      BY <2>8
    <3> HIDE DEF z, q, p
    <3>2. Settlement(ix, s, "base") = 0 /\ Settlement(ix, s, "quote") = 0
      BY DEF Settlement
    <3>3. SeatTotal(New, s, "base") = SeatTotal(Old, s, "base") + z
      BY <2>5, <2>7, <2>9, <3>1, <3>2
    <3>4. SeatTotal(New, s, "quote") = SeatTotal(Old, s, "quote") + q - p
      BY <2>5, <2>7, <2>9, <3>1, <3>2
    <3> QED BY <3>3, <3>4 DEF z, q, p
  <2>11. ASSUME ix.seat # NoSeat
         PROVE LET sign == IF ix.side = "bid" THEN 1 ELSE -1
               IN /\ SeatTotal(New, ix.seat, "base") = SeatTotal(Old, ix.seat, "base") + sign * BaseLotSize * ix.lots
                  /\ SeatTotal(New, ix.seat, "quote") = SeatTotal(Old, ix.seat, "quote") - sign * ix.quote - ix.fee
    <3>1. ix.seat \in SeatIds
      BY <2>3, <2>11
    <3>2. Earned(Old, book, ix, slot, ix.seat, "base") = 0 /\ Earned(Old, book, ix, slot, ix.seat, "quote") = 0
      BY <2>8, <3>1
    <3>3. /\ SeatTotal(New, ix.seat, "base") = SeatTotal(Old, ix.seat, "base") + Settlement(ix, ix.seat, "base")
          /\ SeatTotal(New, ix.seat, "quote") = SeatTotal(Old, ix.seat, "quote") + Settlement(ix, ix.seat, "quote")
      BY <2>5, <2>7, <2>9, <3>1, <3>2
    <3> DEFINE z == BaseLotSize * ix.lots
    <3>4. CASE ix.side = "bid"
      <4>1. Settlement(ix, ix.seat, "base") = z /\ Settlement(ix, ix.seat, "quote") = 0 - (ix.quote + ix.fee)
        BY <3>4 DEF Settlement
      <4>2. 1 * BaseLotSize * ix.lots = z /\ 1 * ix.quote = ix.quote
        BY <2>3, <2>6
      <4> QED BY <2>3, <2>5, <2>6, <2>9, <3>1, <3>3, <3>4, <4>1, <4>2
    <3>5. CASE ix.side = "ask"
      <4>1. Settlement(ix, ix.seat, "base") = 0 - z /\ Settlement(ix, ix.seat, "quote") = ix.quote - ix.fee
        BY <3>5 DEF Settlement
      <4>2. -1 * BaseLotSize * ix.lots = 0 - z /\ -1 * ix.quote = 0 - ix.quote
        BY <2>3, <2>6
      <4> QED BY <2>3, <2>5, <2>6, <2>9, <3>1, <3>3, <3>5, <4>1, <4>2
    <3> QED BY <2>3, <3>4, <3>5 DEF Sides
  <2> QED BY <2>4, <2>10, <2>11 DEF SettledAtPrices
<1>2. EInv /\ Walking /\ TakeTerms /\ [Next]_vars => (EInv /\ Walking /\ TakeTerms)' /\ [A]_committed
  BY <1>1, ENext, WalkNext, TermsNext
<1>3. Init => EInv /\ Walking /\ TakeTerms
  BY EInit DEF Init, Idle, Walking, Taking, TakeTerms
<1>4. Spec => [][A]_committed
  BY <1>2, <1>3, PTL DEF Spec
<1> QED BY <1>4 DEF TradesSettle

-----------------------------------------------------------------------------
(* A mass quote                                                            *)

\* The seat's orders on one side that the merge has been through.
DoneOn(c, s, prev, side) == {n \in Behind(c, s, prev) : SideOf(c, n) = side}

\* Order n of book c is what quote q asked for.
Fit(c, n, q, side, expiry) ==
  /\ LotsOf(c, n) = q.lots /\ c.pool[n].expiry = expiry
  /\ \/ TickOf(c, n) = q.tick
     \/ ~q.reject /\ IF side = "bid" THEN TickOf(c, n) < q.tick ELSE TickOf(c, n) > q.tick

\* The orders D are the first k quotes of p, one each and in their order.
Placed(c, D, p, k, side, expiry) ==
  \E o \in [1 .. k -> D] :
    /\ \A j \in 1 .. k : Fit(c, o[j], p[j], side, expiry)
    /\ \A h, j \in 1 .. k : h < j => TickOf(c, o[h]) < TickOf(c, o[j])
    /\ \A n \in D : \E j \in 1 .. k : o[j] = n

LEMMA PlacedNone == ASSUME NEW c, NEW p, NEW side, NEW expiry PROVE Placed(c, {}, p, 0, side, expiry)
<1> DEFINE o == [j \in 1 .. 0 |-> j]
<1>1. 1 .. 0 = {}
  OBVIOUS
<1>2. o \in [1 .. 0 -> {}]
  BY <1>1
<1> QED BY <1>1, <1>2 DEF Placed

LEMMA PlacedKept ==
  ASSUME NEW b, NEW D, NEW p, NEW k, NEW side, NEW expiry, Placed(b, D, p, k, side, expiry),
         NEW c, \A n \in D : /\ LotsOf(c, n) = LotsOf(b, n) /\ TickOf(c, n) = TickOf(b, n)
                             /\ c.pool[n].expiry = b.pool[n].expiry
  PROVE  Placed(c, D, p, k, side, expiry)
<1>1. PICK o \in [1 .. k -> D] :
        /\ \A j \in 1 .. k : Fit(b, o[j], p[j], side, expiry)
        /\ \A h, j \in 1 .. k : h < j => TickOf(b, o[h]) < TickOf(b, o[j])
        /\ \A n \in D : \E j \in 1 .. k : o[j] = n
  BY DEF Placed
<1>2. \A j \in 1 .. k : o[j] \in D
  OBVIOUS
<1>3. \A j \in 1 .. k : Fit(c, o[j], p[j], side, expiry)
  BY <1>1, <1>2 DEF Fit
<1>4. \A h, j \in 1 .. k : h < j => TickOf(c, o[h]) < TickOf(c, o[j])
  BY <1>1, <1>2
<1> QED BY <1>1, <1>3, <1>4 DEF Placed

\* One quote more, at a higher price than those before.
LEMMA PlacedMore ==
  ASSUME NEW c, NEW D, NEW p, NEW k \in Nat, NEW side, NEW expiry, Placed(c, D, p, k, side, expiry),
         NEW n, n \notin D, \A m \in D : TickOf(c, m) < TickOf(c, n), Fit(c, n, p[k + 1], side, expiry)
  PROVE  Placed(c, D \cup {n}, p, k + 1, side, expiry)
<1>1. PICK o \in [1 .. k -> D] :
        /\ \A j \in 1 .. k : Fit(c, o[j], p[j], side, expiry)
        /\ \A h, j \in 1 .. k : h < j => TickOf(c, o[h]) < TickOf(c, o[j])
        /\ \A m \in D : \E j \in 1 .. k : o[j] = m
  BY DEF Placed
<1> DEFINE x == [j \in 1 .. k + 1 |-> IF j = k + 1 THEN n ELSE o[j]]
<1>2. \A j \in 1 .. k + 1 : j = k + 1 \/ j \in 1 .. k
  OBVIOUS
<1>3. \A j \in 1 .. k : j \in 1 .. k + 1 /\ j # k + 1 /\ x[j] = o[j] /\ o[j] \in D
  OBVIOUS
<1>4. k + 1 \in 1 .. k + 1 /\ x[k + 1] = n
  OBVIOUS
<1>5. x \in [1 .. k + 1 -> D \cup {n}]
  BY <1>2
<1> HIDE DEF x
<1>6. \A j \in 1 .. k + 1 : Fit(c, x[j], p[j], side, expiry)
  BY <1>1, <1>2, <1>3, <1>4
<1>7. ASSUME NEW h \in 1 .. k + 1, NEW j \in 1 .. k + 1, h < j PROVE TickOf(c, x[h]) < TickOf(c, x[j])
  <2>1. h \in 1 .. k
    BY <1>7
  <2>2. CASE j = k + 1
    BY <1>3, <1>4, <2>1, <2>2
  <2>3. CASE j \in 1 .. k
    BY <1>1, <1>3, <1>7, <2>1, <2>3
  <2> QED BY <1>2, <2>2, <2>3
<1>8. \A m \in D \cup {n} : \E j \in 1 .. k + 1 : x[j] = m
  BY <1>1, <1>3, <1>4
<1> QED BY <1>5, <1>6, <1>7, <1>8 DEF Placed

\* The k-th of them by price is the k-th quote.
LEMMA PlacedRanks ==
  ASSUME NEW c, NEW D, \A n \in D : c.pool[n].tick \in Nat,
         NEW p, NEW k \in Nat, NEW side, NEW expiry, Placed(c, D, p, k, side, expiry)
  PROVE  /\ Cardinality(D) = k
         /\ \A j \in 1 .. k : Kth(c, D, j) \in D /\ Fit(c, Kth(c, D, j), p[j], side, expiry)
<1>1. PICK o \in [1 .. k -> D] :
        /\ \A j \in 1 .. k : Fit(c, o[j], p[j], side, expiry)
        /\ \A h, j \in 1 .. k : h < j => TickOf(c, o[h]) < TickOf(c, o[j])
        /\ \A n \in D : \E j \in 1 .. k : o[j] = n
  BY DEF Placed
<1>2. \A j \in 1 .. k : o[j] \in D /\ TickOf(c, o[j]) \in Nat
  BY DEF TickOf
<1>3. \A h, j \in 1 .. k : h < j <=> TickOf(c, o[h]) < TickOf(c, o[j])
  <2> SUFFICES ASSUME NEW h \in 1 .. k, NEW j \in 1 .. k, ~(h < j) PROVE ~(TickOf(c, o[h]) < TickOf(c, o[j]))
    BY <1>1
  <2>1. h = j \/ j < h
    OBVIOUS
  <2>2. CASE h = j
    BY <1>2, <2>2
  <2>3. CASE j < h
    BY <1>1, <1>2, <2>3
  <2> QED BY <2>1, <2>2, <2>3
<1>4. \A h, j \in 1 .. k : o[h] = o[j] => h = j
  BY <1>2, <1>3
<1> DEFINE first(j) == {n \in D : \E h \in 1 .. j : o[h] = n}
<1>5. ASSUME NEW j \in 0 .. k PROVE IsFiniteSet(first(j)) /\ Cardinality(first(j)) = j
  <2> DEFINE f == [h \in 1 .. j |-> o[h]]
             T == first(j)
  <2>1. \A h \in 1 .. j : h \in 1 .. k /\ o[h] \in T
    BY <1>2
  <2>2. f \in [1 .. j -> T]
    BY <2>1
  <2>3. f \in Bijection(1 .. j, T)
    <3>1. \A x, y \in 1 .. j : f[x] = f[y] => x = y
      BY <1>4, <2>1
    <3>2. \A n \in T : \E h \in 1 .. j : f[h] = n
      OBVIOUS
    <3> HIDE DEF f, T
    <3> QED BY <2>2, <3>1, <3>2 DEF Bijection, Injection, IsInjective, Surjection
  <2>4. IsFiniteSet(1 .. j) /\ Cardinality(1 .. j) = j
    BY FS_Interval
  <2> HIDE DEF T, f
  <2>5. ExistsBijection(1 .. j, T)
    BY <2>3 DEF ExistsBijection
  <2>6. IsFiniteSet(T) /\ Cardinality(T) = j
    BY <2>4, <2>5, FS_Bijection
  <2> QED BY <2>6 DEF T
<1>6. first(k) = D
  BY <1>1
<1> DEFINE rank(n) == Cardinality({m \in D : c.pool[m].tick < c.pool[n].tick})
<1>7. ASSUME NEW j \in 1 .. k PROVE rank(o[j]) = j - 1
  <2>1. {m \in D : c.pool[m].tick < c.pool[o[j]].tick} = first(j - 1)
    <3>1. ASSUME NEW m \in D, c.pool[m].tick < c.pool[o[j]].tick PROVE m \in first(j - 1)
      <4>1. PICK h \in 1 .. k : o[h] = m
        BY <1>1
      <4>2. h < j
        BY <1>3, <3>1, <4>1 DEF TickOf
      <4> QED BY <4>1, <4>2
    <3>2. ASSUME NEW m \in first(j - 1) PROVE m \in D /\ c.pool[m].tick < c.pool[o[j]].tick
      <4>1. PICK h \in 1 .. j - 1 : o[h] = m
        OBVIOUS
      <4>2. h \in 1 .. k /\ h < j
        OBVIOUS
      <4> QED BY <1>3, <4>1, <4>2 DEF TickOf
    <3> QED BY <3>1, <3>2
  <2>2. j - 1 \in 0 .. k
    OBVIOUS
  <2> QED BY <1>5, <2>1, <2>2
<1>8. ASSUME NEW j \in 1 .. k PROVE Kth(c, D, j) = o[j]
  <2>1. \A n \in D : rank(n) = j - 1 => n = o[j]
    <3> SUFFICES ASSUME NEW n \in D, rank(n) = j - 1 PROVE n = o[j]
      OBVIOUS
    <3>1. PICK h \in 1 .. k : o[h] = n
      BY <1>1
    <3>2. rank(n) = h - 1
      BY <1>7, <3>1
    <3> QED BY <3>1, <3>2
  <2>2. o[j] \in D /\ rank(o[j]) = j - 1
    BY <1>2, <1>7
  <2>3. Kth(c, D, j) = CHOOSE n \in D : rank(n) = j - 1
    BY DEF Kth
  <2> HIDE DEF rank
  <2>4. Kth(c, D, j) \in D /\ rank(Kth(c, D, j)) = j - 1
    BY <2>2, <2>3, Zenon
  <2> QED BY <2>1, <2>4
<1>9. Cardinality(D) = k
  <2>1. k \in 0 .. k
    OBVIOUS
  <2> HIDE DEF first
  <2> QED BY <1>5, <1>6, <2>1
<1> QED BY <1>1, <1>2, <1>8, <1>9

-----------------------------------------------------------------------------
(* What a merge in flight has done since b, book c being where it is       *)

\* The other seats and their orders are as they were.
Aside(b, c, s) ==
  /\ \A n \in Live(b) : MakerOf(b, n) # s =>
       n \in Live(c) /\ \A g \in OrderFields : c.pool[n][g] = b.pool[n][g]
  /\ \A r \in SeatIds : r # s => c.seats[r] = b.seats[r]

\* The seat's orders behind the cursor are the quotes consumed,
Laid(c, i) ==
  /\ Placed(c, DoneOn(c, i.seat, i.prev, i.side), Payload(i), i.qi, i.side, i.expiry)
  /\ i.side = "ask" =>
       Placed(c, DoneOn(c, i.seat, i.prev, "bid"), i.bids, Len(i.bids), "bid", i.expiry)

\* those ahead of it are as they were,
Ahead(b, c, s, prev) ==
  \A n \in LiveOf(c, s) : BaseOf(c, prev) < PlaceOf(c, n) =>
    n \in LiveOf(b, s) /\ \A g \in OrderFields : c.pool[n][g] = b.pool[n][g]

\* and lie above every quote consumed, the last of which was the highest.
Climbed(i) == \A k \in 1 .. i.qi : Payload(i)[k].tick <= i.lastTick
Late(c, i) ==
  /\ Climbed(i)
  /\ i.cur # NIL /\ SideOf(c, i.cur) = i.side /\ i.qi > 0 => i.lastTick < TickOf(c, i.cur)

\* The payload does not keep an order of this price and size.
Dropped(i, side, tick, lots) ==
  /\ side = i.side =>
       /\ \A k \in 1 .. i.qi : Payload(i)[k].tick = tick => lots < Payload(i)[k].lots
       /\ HasQuote(i) /\ ~BadQuote(i) => tick < Quote(i).tick
  /\ side # i.side =>
       /\ side = "bid"
       /\ \A k \in 1 .. Len(i.bids) : i.bids[k].tick = tick => lots < i.bids[k].lots

\* and what was ended had to be.
Justified(b, c, i) ==
  \A n \in LiveOf(b, i.seat) :
    \/ n \in Live(c) /\ SeqOf(c, n) = SeqOf(b, n)
    \/ Dropped(i, SideOf(b, n), TickOf(b, n), LotsOf(b, n))

Merged(b, c, i) ==
  /\ Aside(b, c, i.seat) /\ Laid(c, i) /\ Ahead(b, c, i.seat, i.prev)
  /\ Late(c, i) /\ Justified(b, c, i)

MergeHolds == Merging => Merged(committed.book, book, ix)

\* A seat's order goes in, or is sized, without touching another seat.
LEMMA FieldsBeside ==
  ASSUME NEW a, NEW b, NEW s, Beside(a, b, s), NEW x, NEW y
  PROVE  /\ Beside(a, SetPrev(b, x, y), s) /\ Beside(a, SetTick(b, x, y), s) /\ Beside(a, SetMaker(b, x, y), s)
         /\ Beside(a, SetSide(b, x, y), s) /\ Beside(a, SetExpiry(b, x, y), s)
         /\ Beside(a, SetHead(b, x, y), s) /\ Beside(a, SetTail(b, x, y), s) /\ Beside(a, AddLots(b, x, y), s)
         /\ Beside(a, SetBit(b, x, y), s) /\ Beside(a, SetOrderSeq(b, x), s)
<1>1. /\ Beside(a, SetPrev(b, x, y), s) /\ Beside(a, SetTick(b, x, y), s) /\ Beside(a, SetMaker(b, x, y), s)
      /\ Beside(a, SetSide(b, x, y), s) /\ Beside(a, SetExpiry(b, x, y), s)
  BY DEF Beside, SetPrev, SetTick, SetMaker, SetSide, SetExpiry
<1>2. /\ Beside(a, SetHead(b, x, y), s) /\ Beside(a, SetTail(b, x, y), s) /\ Beside(a, AddLots(b, x, y), s)
      /\ Beside(a, SetBit(b, x, y), s) /\ Beside(a, SetOrderSeq(b, x), s)
  BY DEF Beside, SetHead, SetTail, AddLots, SetBit, SetOrderSeq
<1> QED BY <1>1, <1>2

LEMMA LocksBeside ==
  ASSUME NEW a, NEW b, NEW s, Beside(a, b, s), NEW asset, NEW atoms
  PROVE  Beside(a, Lock(b, s, asset, atoms), s) /\ Beside(a, Unlock(b, s, asset, atoms), s)
<1>1. \A x, y : Beside(a, SetFree(b, s, x, y), s) /\ Beside(a, SetLocked(b, s, x, y), s)
  BY SettersBeside
<1>2. \A x, y, z, w : /\ Beside(a, SetLocked(SetFree(b, s, x, y), s, z, w), s)
                      /\ Beside(a, SetFree(SetLocked(b, s, x, y), s, z, w), s)
  BY <1>1, SettersBeside
<1> QED BY <1>2 DEF Lock, Unlock

LEMMA BookBeside == ASSUME NEW b \in Book, NEW s PROVE Beside(b, b, s)
BY BookFormed DEF Formed, BookFields, Beside

LEMMA ShrinkBeside ==
  ASSUME NEW b \in Book, NEW n, NEW s, NEW lots, NEW expiry
  PROVE  Beside(b, ShrinkOrder(b, s, n, lots, expiry), s)
<1> DEFINE nd   == b.pool[n]
           less == Unlock(b, s, LockedAsset(nd.side), LockedAtoms(nd.side, nd.tick, nd.lots - lots))
<1>1. Beside(b, less, s)
  BY BookBeside, LocksBeside
<1>2. ShrinkOrder(b, s, n, lots, expiry) = AddLots(SetExpiry(SetLots(less, n, lots), n, expiry), Slot(nd.tick), lots - nd.lots)
  BY DEF ShrinkOrder
<1> HIDE DEF less
<1>3. Beside(b, SetExpiry(SetLots(less, n, lots), n, expiry), s)
  <2>1. Beside(b, SetLots(less, n, lots), s)
    BY <1>1, SettersBeside
  <2> QED BY <2>1, FieldsBeside
<1>4. \A x, y : Beside(b, AddLots(SetExpiry(SetLots(less, n, lots), n, expiry), x, y), s)
  BY <1>3, FieldsBeside
<1> QED BY <1>2, <1>4

LEMMA InsertBeside ==
  ASSUME NEW b \in Book, NEW s, NEW side, NEW tick, NEW lots, NEW expiry
  PROVE  Beside(b, LockAndInsert(b, s, side, tick, lots, expiry), s)
<1> DEFINE b0 == Lock(b, s, LockedAsset(side), LockedAtoms(side, tick, lots))
           n  == b0.freeHead
           id == NextOrderId(b0)
           b1 == SetOrderSeq(AllocNode(b0), id + 1)
           b2 == SetSide(SetMaker(SetTick(b1, n, tick), n, s), n, side)
           b3 == SetSeq(SetExpiry(SetLots(b2, n, lots), n, expiry), n, id)
<1>1. Beside(b, b0, s)
  BY BookBeside, LocksBeside
<1>2. LockAndInsert(b, s, side, tick, lots, expiry) = FifoAppend(b3, side, tick, n, lots)
  BY DEF LockAndInsert, BookInsert
<1> HIDE DEF b0
<1>3. Beside(b, b1, s)
  <2>1. \A x, y : Beside(b, SetFreeHead(b0, x), s) /\ Beside(b, SetFreeCount(SetFreeHead(b0, x), y), s)
    BY <1>1, SettersBeside
  <2>2. Beside(b, AllocNode(b0), s)
    BY <2>1 DEF AllocNode
  <2> QED BY <2>2, FieldsBeside
<1> HIDE DEF b1, n, id
<1>4. Beside(b, b2, s)
  <2>1. Beside(b, SetTick(b1, n, tick), s)
    BY <1>3, FieldsBeside
  <2>2. Beside(b, SetMaker(SetTick(b1, n, tick), n, s), s)
    BY <2>1, FieldsBeside
  <2> QED BY <2>2, FieldsBeside
<1> HIDE DEF b2
<1>5. Beside(b, b3, s)
  <2>1. Beside(b, SetLots(b2, n, lots), s)
    BY <1>4, SettersBeside
  <2>2. Beside(b, SetExpiry(SetLots(b2, n, lots), n, expiry), s)
    BY <2>1, FieldsBeside
  <2> QED BY <2>2, SettersBeside
<1> HIDE DEF b3
<1>6. Beside(b, FifoAppend(b3, side, tick, n, lots), s)
  <2> DEFINE l      == Slot(tick)
             longer == AddLots(SetTail(b3, l, n), l, lots)
  <2>1. Beside(b, longer, s)
    <3>1. Beside(b, SetTail(b3, l, n), s)
      BY <1>5, FieldsBeside
    <3> QED BY <3>1, FieldsBeside
  <2> HIDE DEF longer
  <2>2. \A c, x, y : Beside(b, c, s) => /\ Beside(b, SetNext(c, x, y), s) /\ Beside(b, SetPrev(c, x, y), s)
                                        /\ Beside(b, SetHead(c, x, y), s) /\ Beside(b, SetBit(c, x, y), s)
    BY SettersBeside, FieldsBeside
  <2> QED BY <2>1, <2>2 DEF FifoAppend, longer
<1> QED BY <1>2, <1>6

LEMMA SpliceBeside ==
  ASSUME NEW a, NEW b, NEW s, Beside(a, b, s), NEW p, NEW m, NEW n
  PROVE  Beside(a, ChainSplice(b, s, p, m, n), s)
<1> DEFINE own == SetMakerNext(SetMakerPrev(b, n, p), n, m)
           fwd == IF p = NIL THEN SetOrdersHead(own, s, n) ELSE SetMakerNext(own, p, n)
           bwd == IF m = NIL THEN fwd ELSE SetMakerPrev(fwd, m, n)
<1>0. \A c, x, y : Beside(a, c, s) => Beside(a, SetMakerPrev(c, x, y), s) /\ Beside(a, SetMakerNext(c, x, y), s)
  BY SettersBeside
<1>1. Beside(a, own, s)
  BY <1>0
<1> HIDE DEF own
<1>2. Beside(a, fwd, s)
  BY <1>0, <1>1, SettersBeside
<1> HIDE DEF fwd
<1>3. Beside(a, bwd, s)
  BY <1>0, <1>2
<1> HIDE DEF bwd
<1>4. \A x : Beside(a, SetOrderCount(bwd, s, x), s)
  BY <1>3, SettersBeside
<1> QED BY <1>4 DEF ChainSplice, bwd, fwd, own

\* Between seats that compare: of two orders on a side the later is the higher.
LEMMA SideTicks ==
  ASSUME NEW b \in Book, NEW c \in Book, NEW j \in Links, NEW k \in Links, SideOf(b, j) = SideOf(c, k)
  PROVE  PlaceOf(b, j) < PlaceOf(c, k) <=> TickOf(b, j) < TickOf(c, k)
<1>1. b.pool[j].tick \in Nat /\ c.pool[k].tick \in Nat /\ TickLimit \in Nat
  BY NodeType, BookAssumption
<1> QED BY <1>1 DEF SideOf, PlaceOf, TickOf

\* Book d is book c with the seat's order n at the cursor, behind which it was not.
Joined(c, d, s, prev, n, side, tick, lots, expiry) ==
  /\ n \in LiveOf(d, s) /\ SideOf(d, n) = side /\ TickOf(d, n) = tick /\ LotsOf(d, n) = lots
  /\ d.pool[n].expiry = expiry
  /\ Behind(d, s, n) = Behind(c, s, prev) \cup {n} /\ n \notin Behind(c, s, prev)
  /\ \A m \in Behind(c, s, prev) : SideOf(c, m) = side => TickOf(c, m) < tick
  /\ \A m \in Live(c) : m # n => m \in Live(d) /\ \A g \in OrderFields : d.pool[m][g] = c.pool[m][g]
  /\ \A m \in LiveOf(d, s) : PlaceOf(d, n) < PlaceOf(d, m) =>
       m \in LiveOf(c, s) /\ m # n /\ BaseOf(c, prev) < PlaceOf(c, m)
  /\ n \in Live(c) => n \in LiveOf(c, s) /\ SeqOf(d, n) = SeqOf(c, n)
  /\ \A r \in SeatIds : r # s => d.seats[r] = c.seats[r]

\* An order kept joins those done,
LEMMA KeptJoins ==
  ASSUME NEW b \in Book, Sound(b), NEW s \in SeatIds, NEW prev, NEW cur, cur # NIL, At(b, s, prev, cur),
         NEW lots \in Nat \ {0}, NEW expiry
  PROVE  Joined(b, ShrinkOrder(b, s, cur, lots, expiry), s, prev, cur, SideOf(b, cur), TickOf(b, cur), lots, expiry)
<1> DEFINE c == ShrinkOrder(b, s, cur, lots, expiry)
<1>1. /\ cur \in LiveOf(b, s) /\ cur \in Live(b) /\ cur \in Nodes /\ cur \in Links
      /\ BaseOf(b, prev) < PlaceOf(b, cur) /\ BaseOf(b, prev) \in Int
      /\ \A k \in LiveOf(b, s) : PlaceOf(b, k) \in Nat /\ k \in Nodes
  BY BaseType DEF Nodes, Links
<1>2. Resized(b, c, cur, lots)
  BY <1>1, ShrinkOrderResizes
<1>3. Alike(b, c)
  <2>1. s = MakerOf(b, cur)
    BY <1>1, LivesAre
  <2> QED BY <1>1, <2>1, ShrinkSound
<1>4. c.pool[cur].expiry = expiry
  BY <1>1, ShrinkExpires
<1>5. \A r \in SeatIds : r # s => c.seats[r] = b.seats[r]
  BY ShrinkBeside DEF Beside
<1> HIDE DEF c
<1>6. LiveOf(c, s) = LiveOf(b, s) /\ Live(c) = Live(b) /\ \A k \in Nodes : PlaceOf(c, k) = PlaceOf(b, k)
  BY <1>3, AlikeLives
<1>7. /\ Behind(c, s, cur) \subseteq Behind(b, s, prev) \cup {cur} /\ BaseOf(c, cur) = PlaceOf(b, cur)
  BY <1>3, CursorKept
<1>8. Behind(c, s, cur) = Behind(b, s, prev) \cup {cur} /\ cur \notin Behind(b, s, prev)
  <2>1. ASSUME NEW k \in Behind(b, s, prev) PROVE k \in Behind(c, s, cur) /\ k # cur
    <3>1. k \in LiveOf(b, s) /\ PlaceOf(b, k) <= BaseOf(b, prev) /\ PlaceOf(b, k) \in Nat /\ k \in Nodes
      BY <1>1 DEF Behind
    <3>2. PlaceOf(b, k) <= PlaceOf(b, cur) /\ k # cur
      BY <1>1, <3>1
    <3> QED BY <1>6, <1>7, <3>1, <3>2 DEF Behind
  <2>2. cur \in Behind(c, s, cur)
    BY <1>1, <1>6, <1>7 DEF Behind
  <2> QED BY <1>7, <2>1, <2>2
<1>9. ASSUME NEW m \in Behind(b, s, prev), SideOf(b, m) = SideOf(b, cur) PROVE TickOf(b, m) < TickOf(b, cur)
  <2>1. m \in LiveOf(b, s) /\ PlaceOf(b, m) <= BaseOf(b, prev) /\ m \in Links
    BY <1>1 DEF Behind, Nodes, Links
  <2>2. PlaceOf(b, m) < PlaceOf(b, cur)
    BY <1>1, <2>1
  <2> QED BY <1>1, <1>9, <2>1, <2>2, SideTicks
<1>10. \A m \in Links \ {cur} : c.pool[m] = b.pool[m]
  BY <1>2 DEF Resized
<1>11. \A m \in Live(b) : m # cur => m \in Live(c) /\ \A g \in OrderFields : c.pool[m][g] = b.pool[m][g]
  BY <1>6, <1>10, LiveTicks
<1>12. /\ SideOf(c, cur) = SideOf(b, cur) /\ TickOf(c, cur) = TickOf(b, cur) /\ SeqOf(c, cur) = SeqOf(b, cur)
       /\ LotsOf(c, cur) = lots
  BY <1>2 DEF Resized, NodeFields, SideOf, TickOf, SeqOf, LotsOf
<1>13. ASSUME NEW m \in LiveOf(c, s), PlaceOf(c, cur) < PlaceOf(c, m)
       PROVE  m \in LiveOf(b, s) /\ m # cur /\ BaseOf(b, prev) < PlaceOf(b, m)
  <2>1. m \in LiveOf(b, s) /\ m \in Nodes /\ PlaceOf(b, m) \in Nat /\ PlaceOf(b, cur) \in Nat
    BY <1>1, <1>6
  <2>2. PlaceOf(b, cur) < PlaceOf(b, m)
    BY <1>1, <1>6, <1>13, <2>1
  <2> QED BY <1>1, <2>1, <2>2
<1>14. Joined(b, c, s, prev, cur, SideOf(b, cur), TickOf(b, cur), lots, expiry)
  BY <1>1, <1>4, <1>5, <1>6, <1>8, <1>9, <1>11, <1>12, <1>13 DEF Joined
<1> QED BY <1>14 DEF c

\* and so does one placed.
LEMMA EnteredJoins ==
  ASSUME NEW b \in Book, NEW s \in SeatIds, NEW prev, NEW cur, At(b, s, prev, cur),
         NEW side \in Sides, NEW tick \in Nat, BaseOf(b, prev) < PlaceAt(side, tick),
         cur # NIL => PlaceAt(side, tick) < PlaceOf(b, cur), NEW lots, NEW expiry,
         LET n == b.freeHead
             c == ChainSplice(LockAndInsert(b, s, side, tick, lots, expiry), s, prev, cur, n)
         IN n \in Nodes /\ n \notin Live(b) /\ Entered(b, c, n, side, tick, lots, s, prev, cur)
  PROVE  LET n == b.freeHead
             c == ChainSplice(LockAndInsert(b, s, side, tick, lots, expiry), s, prev, cur, n)
         IN Joined(b, c, s, prev, n, side, tick, lots, expiry)
<1> DEFINE n == b.freeHead
           c == ChainSplice(LockAndInsert(b, s, side, tick, lots, expiry), s, prev, cur, n)
           x == PlaceAt(side, tick)
<1>1. n \in Nodes /\ n \notin Live(b) /\ Entered(b, c, n, side, tick, lots, s, prev, cur) /\ n \in Links
  BY DEF Nodes, Links
<1>2. c.pool[n].expiry = expiry
  BY <1>1, SpliceExpires
<1>3. \A r \in SeatIds : r # s => c.seats[r] = b.seats[r]
  <2>1. Beside(b, LockAndInsert(b, s, side, tick, lots, expiry), s)
    BY InsertBeside
  <2>2. Beside(b, c, s)
    BY <2>1, SpliceBeside
  <2> QED BY <2>2 DEF Beside
<1> HIDE DEF c, n
<1>4. /\ BaseOf(b, prev) \in Int
      /\ \A k \in LiveOf(b, s) : PlaceOf(b, k) \in Nat /\ k \in Nodes /\ k \in Live(b)
  BY BaseType
<1>5. x \in Nat /\ NextOrderId(b) # FreedSeq
  BY BookAssumption DEF PlaceAt, NextOrderId
<1>6. /\ LiveOf(c, s) = LiveOf(b, s) \cup {n} /\ \A k \in Live(b) : PlaceOf(c, k) = PlaceOf(b, k)
      /\ PlaceOf(c, n) = x
  BY <1>1, EnteredPlaces
<1>7. BaseOf(c, n) = x /\ Behind(c, s, n) \subseteq Behind(b, s, prev) \cup {n}
  BY <1>1, CursorEntered
<1>8. Live(c) = Live(b) \cup {n}
  BY <1>1, <1>5, EnteredLive
<1>9. /\ \A k \in Links \ {n} : \A g \in OrderFields : c.pool[k][g] = b.pool[k][g]
      /\ SideOf(c, n) = side /\ TickOf(c, n) = tick /\ LotsOf(c, n) = lots
  BY <1>1 DEF Entered, PoolEntered, SideOf, TickOf, LotsOf
<1>10. \A m \in Live(b) : m # n => m \in Live(c) /\ \A g \in OrderFields : c.pool[m][g] = b.pool[m][g]
  BY <1>8, <1>9, LiveTicks
<1> HIDE DEF x
<1>11. Behind(c, s, n) = Behind(b, s, prev) \cup {n} /\ n \notin Behind(b, s, prev)
  <2>1. ASSUME NEW k \in Behind(b, s, prev) PROVE k \in Behind(c, s, n) /\ k # n
    <3>1. k \in LiveOf(b, s) /\ PlaceOf(b, k) <= BaseOf(b, prev) /\ PlaceOf(b, k) \in Nat /\ k \in Live(b)
      BY <1>4 DEF Behind
    <3>2. PlaceOf(b, k) <= x
      BY <1>4, <1>5, <3>1 DEF x
    <3> QED BY <1>1, <1>6, <1>7, <3>1, <3>2 DEF Behind
  <2>2. n \in Behind(c, s, n)
    BY <1>5, <1>6, <1>7 DEF Behind
  <2> QED BY <1>7, <2>1, <2>2
<1>12. ASSUME NEW m \in Behind(b, s, prev), SideOf(b, m) = side PROVE TickOf(b, m) < tick
  <2>1. m \in LiveOf(b, s) /\ PlaceOf(b, m) <= BaseOf(b, prev) /\ m \in Links /\ PlaceOf(b, m) \in Nat
    BY <1>4 DEF Behind, Nodes, Links
  <2>2. PlaceOf(b, m) < PlaceAt(side, tick)
    BY <1>4, <1>5, <2>1 DEF x
  <2>3. b.pool[m].tick \in Nat /\ TickLimit \in Nat
    BY <2>1, NodeType, BookAssumption
  <2> QED BY <1>12, <2>2, <2>3 DEF PlaceOf, PlaceAt, SideOf, TickOf
<1>13. ASSUME NEW m \in LiveOf(c, s), PlaceOf(c, n) < PlaceOf(c, m)
       PROVE  m \in LiveOf(b, s) /\ m # n /\ BaseOf(b, prev) < PlaceOf(b, m)
  <2>1. m # n
    BY <1>5, <1>6, <1>13
  <2>2. m \in LiveOf(b, s) /\ PlaceOf(b, m) \in Nat /\ x < PlaceOf(b, m)
    BY <1>4, <1>6, <1>13, <2>1
  <2> QED BY <1>4, <1>5, <2>1, <2>2 DEF x
<1>14. n \in LiveOf(c, s) /\ ~(n \in Live(b))
  BY <1>1, <1>6
<1>15. Joined(b, c, s, prev, n, side, tick, lots, expiry)
  BY <1>2, <1>3, <1>9, <1>10, <1>11, <1>12, <1>13, <1>14 DEF Joined
<1> QED BY <1>15 DEF c, n

\* The order at the cursor ends: what the merge has done stands.
LEMMA KillMerges ==
  ASSUME NEW b \in Book, NEW c \in Book, Sound(c), NEW s \in SeatIds, NEW prev, NEW cur, cur # NIL,
         At(c, s, prev, cur), Aside(b, c, s), Ahead(b, c, s, prev)
  PROVE  LET d == KillOrder(c, cur)
         IN /\ Aside(b, d, s) /\ Ahead(b, d, s, prev)
            /\ Behind(d, s, prev) = Behind(c, s, prev) /\ cur \notin Behind(c, s, prev)
            /\ Live(d) = Live(c) \ {cur}
            /\ \A m \in Live(c) : m # cur => \A g \in OrderFields : d.pool[m][g] = c.pool[m][g]
<1> DEFINE d == KillOrder(c, cur)
<1>1. /\ cur \in LiveOf(c, s) /\ cur \in Live(c) /\ cur \in Nodes
      /\ BaseOf(c, prev) < PlaceOf(c, cur) /\ BaseOf(c, prev) \in Int
      /\ \A k \in LiveOf(c, s) : PlaceOf(c, k) \in Nat /\ k \in Live(c)
  BY BaseType
<1>2. MakerOf(c, cur) = s
  BY <1>1, LivesAre
<1>3. Ended(c, d, cur)
  BY <1>1, KillSound
<1>4. /\ Live(d) = Live(c) \ {cur}
      /\ \A m \in Live(c) : m # cur => \A g \in OrderFields : d.pool[m][g] = c.pool[m][g]
  BY <1>1, KillRest
<1>5. \A r \in SeatIds : r # s => d.seats[r] = c.seats[r]
  BY <1>1, <1>2, KillBeside
<1> HIDE DEF d
<1>6. /\ LiveOf(d, s) = LiveOf(c, s) \ {cur}
      /\ \A k \in Live(d) : PlaceOf(d, k) = PlaceOf(c, k)
  BY <1>1, <1>3, BookSeatwise, EndedLives
<1>7. BaseOf(d, prev) = BaseOf(c, prev) /\ Behind(d, s, prev) \subseteq Behind(c, s, prev)
  BY <1>3, CursorKilled
<1>8. cur \notin Behind(c, s, prev)
  BY <1>1 DEF Behind
<1>9. ASSUME NEW k \in Behind(c, s, prev) PROVE k \in Behind(d, s, prev)
  <2>1. k \in LiveOf(c, s) /\ k # cur /\ PlaceOf(c, k) <= BaseOf(c, prev)
    BY <1>8 DEF Behind
  <2>2. k \in LiveOf(d, s) /\ PlaceOf(d, k) = PlaceOf(c, k)
    BY <1>1, <1>4, <1>6, <2>1
  <2> QED BY <1>7, <2>1, <2>2 DEF Behind
<1>10. Aside(b, d, s)
  <2>1. ASSUME NEW m \in Live(b), MakerOf(b, m) # s
        PROVE m \in Live(d) /\ \A g \in OrderFields : d.pool[m][g] = b.pool[m][g]
    <3>1. m \in Live(c) /\ \A g \in OrderFields : c.pool[m][g] = b.pool[m][g]
      BY <2>1 DEF Aside
    <3>2. m # cur
      BY <1>2, <2>1, <3>1 DEF MakerOf, OrderFields
    <3> QED BY <1>4, <3>1, <3>2
  <2> QED BY <1>5, <2>1 DEF Aside
<1>11. Ahead(b, d, s, prev)
  <2> SUFFICES ASSUME NEW m \in LiveOf(d, s), BaseOf(d, prev) < PlaceOf(d, m)
               PROVE  m \in LiveOf(b, s) /\ \A g \in OrderFields : d.pool[m][g] = b.pool[m][g]
    BY DEF Ahead
  <2>1. m \in LiveOf(c, s) /\ m # cur /\ m \in Live(c) /\ PlaceOf(d, m) = PlaceOf(c, m)
    BY <1>1, <1>4, <1>6
  <2>2. m \in LiveOf(b, s) /\ \A g \in OrderFields : c.pool[m][g] = b.pool[m][g]
    BY <1>7, <2>1 DEF Ahead
  <2> QED BY <1>4, <2>1, <2>2
<1> QED BY <1>4, <1>7, <1>8, <1>9, <1>10, <1>11 DEF d

LEMMA LaidKept ==
  ASSUME NEW c, NEW i, Laid(c, i), NEW d, Behind(d, i.seat, i.prev) = Behind(c, i.seat, i.prev),
         \A m \in Behind(c, i.seat, i.prev) : \A g \in OrderFields : d.pool[m][g] = c.pool[m][g],
         NEW j, j.seat = i.seat, j.side = i.side, j.prev = i.prev, j.qi = i.qi, j.bids = i.bids, j.asks = i.asks,
         j.expiry = i.expiry
  PROVE  Laid(d, j)
<1>1. \A side : DoneOn(d, i.seat, i.prev, side) = DoneOn(c, i.seat, i.prev, side)
  BY DEF DoneOn, SideOf, OrderFields
<1>2. \A side : \A m \in DoneOn(c, i.seat, i.prev, side) :
        /\ LotsOf(d, m) = LotsOf(c, m) /\ TickOf(d, m) = TickOf(c, m) /\ d.pool[m].expiry = c.pool[m].expiry
  BY DEF DoneOn, LotsOf, TickOf, OrderFields
<1>3. \A side, p, k : Placed(c, DoneOn(c, i.seat, i.prev, side), p, k, side, i.expiry)
                        => Placed(d, DoneOn(c, i.seat, i.prev, side), p, k, side, i.expiry)
  BY <1>2, PlacedKept
<1>4. Payload(j) = Payload(i)
  BY DEF Payload
<1> QED BY <1>1, <1>3, <1>4 DEF Laid

\* An order joins: it is what the next quote asked for.
LEMMA JoinMerges ==
  ASSUME NEW b, NEW c \in Book, NEW d, NEW i, i.seat \in SeatIds, i.side \in Sides, i.qi \in Nat,
         Aside(b, c, i.seat), Ahead(b, c, i.seat, i.prev), Laid(c, i),
         NEW n, NEW tick, NEW lots, Joined(c, d, i.seat, i.prev, n, i.side, tick, lots, i.expiry),
         Fit(d, n, Payload(i)[i.qi + 1], i.side, i.expiry),
         NEW j, j.seat = i.seat, j.side = i.side, j.prev = n, j.qi = i.qi + 1, j.bids = i.bids, j.asks = i.asks,
         j.expiry = i.expiry
  PROVE  Aside(b, d, i.seat) /\ Ahead(b, d, i.seat, n) /\ Laid(d, j)
<1> DEFINE s    == i.seat
           prev == i.prev
           side == i.side
           old  == Behind(c, s, prev)
<1>1. /\ n \in LiveOf(d, s) /\ SideOf(d, n) = side /\ TickOf(d, n) = tick
      /\ Behind(d, s, n) = old \cup {n} /\ n \notin old
      /\ \A m \in old : SideOf(c, m) = side => TickOf(c, m) < tick
      /\ \A m \in Live(c) : m # n => m \in Live(d) /\ \A g \in OrderFields : d.pool[m][g] = c.pool[m][g]
      /\ \A m \in LiveOf(d, s) : PlaceOf(d, n) < PlaceOf(d, m) =>
           m \in LiveOf(c, s) /\ m # n /\ BaseOf(c, prev) < PlaceOf(c, m)
      /\ n \in Live(c) => n \in LiveOf(c, s)
      /\ \A r \in SeatIds : r # s => d.seats[r] = c.seats[r]
  BY DEF Joined
<1>2. \A m \in LiveOf(c, s) : m \in Live(c) /\ MakerOf(c, m) = s
  BY LivesAre
<1>3. \A m \in old : m \in Live(c) /\ m # n /\ \A g \in OrderFields : d.pool[m][g] = c.pool[m][g]
  BY <1>1, <1>2 DEF Behind
<1>4. Aside(b, d, s)
  <2>1. ASSUME NEW m \in Live(b), MakerOf(b, m) # s
        PROVE m \in Live(d) /\ \A g \in OrderFields : d.pool[m][g] = b.pool[m][g]
    <3>1. m \in Live(c) /\ \A g \in OrderFields : c.pool[m][g] = b.pool[m][g]
      BY <2>1 DEF Aside
    <3>2. m # n
      BY <1>1, <1>2, <2>1, <3>1 DEF MakerOf, OrderFields
    <3> QED BY <1>1, <3>1, <3>2
  <2> QED BY <1>1, <2>1 DEF Aside
<1>5. Ahead(b, d, s, n)
  <2> SUFFICES ASSUME NEW m \in LiveOf(d, s), BaseOf(d, n) < PlaceOf(d, m)
               PROVE  m \in LiveOf(b, s) /\ \A g \in OrderFields : d.pool[m][g] = b.pool[m][g]
    BY DEF Ahead
  <2>1. BaseOf(d, n) = PlaceOf(d, n)
    <3>1. n # NIL
      BY <1>1, LivesFinite DEF Nodes, NIL
    <3> QED BY <3>1 DEF BaseOf
  <2>2. m \in LiveOf(c, s) /\ m # n /\ BaseOf(c, prev) < PlaceOf(c, m)
    BY <1>1, <2>1
  <2>3. m \in LiveOf(b, s) /\ \A g \in OrderFields : c.pool[m][g] = b.pool[m][g]
    BY <2>2 DEF Ahead
  <2> QED BY <1>1, <1>2, <2>2, <2>3
<1>6. ASSUME NEW e PROVE DoneOn(d, s, n, e) = DoneOn(c, s, prev, e) \cup (IF e = side THEN {n} ELSE {})
  BY <1>1, <1>3 DEF DoneOn, SideOf, OrderFields
<1>7. ASSUME NEW e, NEW p, NEW k, Placed(c, DoneOn(c, s, prev, e), p, k, e, i.expiry)
      PROVE  Placed(d, DoneOn(c, s, prev, e), p, k, e, i.expiry)
  <2>1. \A m \in DoneOn(c, s, prev, e) :
          /\ LotsOf(d, m) = LotsOf(c, m) /\ TickOf(d, m) = TickOf(c, m) /\ d.pool[m].expiry = c.pool[m].expiry
    BY <1>3 DEF DoneOn, LotsOf, TickOf, OrderFields
  <2> QED BY <1>7, <2>1, PlacedKept
<1>8. Payload(j) = Payload(i)
  BY DEF Payload
<1>9. Placed(d, DoneOn(d, s, n, side), Payload(j), j.qi, side, j.expiry)
  <2> DEFINE D == DoneOn(c, s, prev, side)
  <2>1. Placed(d, D, Payload(i), i.qi, side, i.expiry)
    BY <1>7 DEF Laid
  <2>2. n \notin D /\ \A m \in D : TickOf(d, m) < TickOf(d, n)
    <3>1. \A m \in D : m \in old /\ SideOf(c, m) = side
      BY DEF DoneOn
    <3> HIDE DEF D, old
    <3>2. \A m \in D : TickOf(d, m) = TickOf(c, m)
      BY <1>3, <3>1 DEF TickOf, OrderFields
    <3> QED BY <1>1, <3>1, <3>2
  <2>3. DoneOn(d, s, n, side) = D \cup {n}
    BY <1>6
  <2> HIDE DEF D
  <2>4. Placed(d, D \cup {n}, Payload(i), i.qi + 1, side, i.expiry)
    BY <2>1, <2>2, PlacedMore
  <2> QED BY <1>8, <2>3, <2>4
<1>10. side = "ask" => Placed(d, DoneOn(d, s, n, "bid"), j.bids, Len(j.bids), "bid", j.expiry)
  <2> SUFFICES ASSUME side = "ask" PROVE Placed(d, DoneOn(d, s, n, "bid"), j.bids, Len(j.bids), "bid", j.expiry)
    OBVIOUS
  <2>1. DoneOn(d, s, n, "bid") = DoneOn(c, s, prev, "bid")
    BY <1>6
  <2>2. Placed(c, DoneOn(c, s, prev, "bid"), i.bids, Len(i.bids), "bid", i.expiry)
    BY DEF Laid
  <2> QED BY <1>7, <2>1, <2>2
<1> QED BY <1>4, <1>5, <1>9, <1>10 DEF Laid

-----------------------------------------------------------------------------
(* The payload's ticks ascend                                              *)

\* Both merges read i's payload, which is well-formed.
LEMMA PayloadQuotes ==
  ASSUME NEW i \in MassQuoteIx
  PROVE  /\ \A k \in 1 .. Len(Payload(i)) : Payload(i)[k].tick \in Nat /\ Payload(i)[k].lots \in Nat
         /\ \A k \in 1 .. Len(i.bids) : i.bids[k].tick \in Nat /\ i.bids[k].lots \in Nat
         /\ Len(Payload(i)) \in Nat /\ Len(i.bids) \in Nat /\ Len(i.asks) \in Nat
         /\ i.qi \in Nat /\ i.lastTick \in Nat
         /\ HasQuote(i) => /\ i.qi + 1 \in 1 .. Len(Payload(i))
                           /\ Quote(i).tick \in Nat /\ Quote(i).lots \in Nat
<1>1. i.bids \in Payloads /\ i.asks \in Payloads /\ i.qi \in Nat /\ i.lastTick \in Nat
  BY DEF MassQuoteIx
<1> DEFINE Q == [tick : Nat, lots : Nat, reject : BOOLEAN]
<1>2. i.bids \in Seq(Q) /\ i.asks \in Seq(Q) /\ Payload(i) \in Seq(Q)
  BY <1>1, MakerAssumption DEF Payload
<1>3. \A q \in Q : q.tick \in Nat /\ q.lots \in Nat
  OBVIOUS
<1> HIDE DEF Q
<1>4. \A p \in Seq(Q) : Len(p) \in Nat /\ \A k \in 1 .. Len(p) : p[k] \in Q
  OBVIOUS
<1>5. Len(Payload(i)) \in Nat /\ \A k \in 1 .. Len(Payload(i)) : Payload(i)[k].tick \in Nat /\ Payload(i)[k].lots \in Nat
  BY <1>2, <1>3, <1>4
<1>6. Len(i.bids) \in Nat /\ Len(i.asks) \in Nat /\ \A k \in 1 .. Len(i.bids) : i.bids[k].tick \in Nat /\ i.bids[k].lots \in Nat
  BY <1>2, <1>3, <1>4
<1>7. HasQuote(i) => i.qi + 1 \in 1 .. Len(Payload(i))
  BY <1>1, <1>5 DEF HasQuote
<1>8. HasQuote(i) => Quote(i).tick \in Nat /\ Quote(i).lots \in Nat
  BY <1>5, <1>7 DEF Quote
<1> QED BY <1>1, <1>5, <1>6, <1>7, <1>8

\* The next quote is consumed.
Consumes(i, j) ==
  /\ HasQuote(i) /\ ~BadQuote(i)
  /\ j.seat = i.seat /\ j.side = i.side /\ j.bids = i.bids /\ j.asks = i.asks /\ j.expiry = i.expiry
  /\ j.qi = i.qi + 1 /\ j.lastTick = Quote(i).tick

LEMMA ClimbsOn ==
  ASSUME NEW i \in MassQuoteIx, i.qi <= Len(Payload(i)), Climbed(i), NEW j, Consumes(i, j)
  PROVE  /\ Climbed(j)
         /\ i.qi > 0 => i.lastTick < j.lastTick
         /\ \A k \in 1 .. i.qi : Payload(i)[k].tick < Quote(i).tick
         /\ \A k \in 1 .. j.qi : k \in 1 .. i.qi \/ Payload(j)[k] = Quote(i)
         /\ Payload(j) = Payload(i)
         /\ HasQuote(j) /\ ~BadQuote(j) => Quote(i).tick < Quote(j).tick
<1>1. Payload(j) = Payload(i)
  BY DEF Consumes, Payload
<1>2. /\ i.qi \in Nat /\ i.lastTick \in Nat /\ Quote(i).tick \in Nat
      /\ \A k \in 1 .. Len(Payload(i)) : Payload(i)[k].tick \in Nat
      /\ Len(Payload(i)) \in Nat
  BY PayloadQuotes DEF Consumes
<1>3. i.qi > 0 => i.lastTick < Quote(i).tick
  <2>1. i.qi > 0 => ~(Quote(i).tick <= i.lastTick)
    BY DEF Consumes, BadQuote
  <2> QED BY <1>2, <2>1
<1>4. \A k \in 1 .. i.qi : Payload(i)[k].tick < Quote(i).tick
  <2> SUFFICES ASSUME NEW k \in 1 .. i.qi PROVE Payload(i)[k].tick < Quote(i).tick
    OBVIOUS
  <2>1. k \in 1 .. Len(Payload(i)) /\ i.qi > 0
    BY <1>2
  <2>2. Payload(i)[k].tick \in Nat /\ Payload(i)[k].tick <= i.lastTick
    BY <1>2, <2>1 DEF Climbed
  <2> QED BY <1>2, <1>3, <2>1, <2>2
<1>5. \A k \in 1 .. j.qi : k \in 1 .. i.qi \/ Payload(j)[k] = Quote(i)
  <2> SUFFICES ASSUME NEW k \in 1 .. j.qi, k \notin 1 .. i.qi PROVE Payload(j)[k] = Quote(i)
    OBVIOUS
  <2>1. k = i.qi + 1
    BY <1>2 DEF Consumes
  <2> QED BY <1>1, <2>1 DEF Quote
<1>6. Climbed(j)
  <2> SUFFICES ASSUME NEW k \in 1 .. j.qi PROVE Payload(j)[k].tick <= j.lastTick
    BY DEF Climbed
  <2>1. j.lastTick = Quote(i).tick
    BY DEF Consumes
  <2>2. CASE k \in 1 .. i.qi
    <3>1. k \in 1 .. Len(Payload(i))
      BY <1>2, <2>2
    <3> QED BY <1>1, <1>2, <1>4, <2>1, <2>2, <3>1
  <2>3. CASE Payload(j)[k] = Quote(i)
    BY <1>2, <2>1, <2>3
  <2> QED BY <1>5, <2>2, <2>3
<1>7. ASSUME HasQuote(j), ~BadQuote(j) PROVE Quote(i).tick < Quote(j).tick
  <2>1. j.qi > 0 /\ j.lastTick = Quote(i).tick /\ j.qi = i.qi + 1
    BY <1>2 DEF Consumes
  <2>2. ~(Quote(j).tick <= Quote(i).tick)
    BY <1>7, <2>1 DEF BadQuote
  <2>3. Quote(j).tick \in Nat
    <3>1. j.qi + 1 \in 1 .. Len(Payload(i))
      BY <1>1, <1>2, <1>7, <2>1 DEF HasQuote
    <3> QED BY <1>1, <1>2, <3>1 DEF Quote
  <2> QED BY <1>2, <2>2, <2>3
<1>8. i.qi > 0 => i.lastTick < j.lastTick
  BY <1>3 DEF Consumes
<1> QED BY <1>1, <1>4, <1>5, <1>6, <1>7, <1>8

\* An order the payload skips, or asks more of at its price, is dropped.
LEMMA DroppedMore ==
  ASSUME NEW i \in MassQuoteIx, i.qi <= Len(Payload(i)), Climbed(i), NEW j, Consumes(i, j),
         NEW side, NEW tick \in Nat, NEW lots, Dropped(i, side, tick, lots)
  PROVE  Dropped(j, side, tick, lots)
<1>1. /\ \A k \in 1 .. j.qi : k \in 1 .. i.qi \/ Payload(j)[k] = Quote(i)
      /\ Payload(j) = Payload(i) /\ (HasQuote(j) /\ ~BadQuote(j) => Quote(i).tick < Quote(j).tick)
  BY ClimbsOn
<1>2. j.side = i.side /\ j.bids = i.bids /\ HasQuote(i) /\ ~BadQuote(i) /\ Quote(i).tick \in Nat
  BY PayloadQuotes DEF Consumes
<1>3. CASE side = i.side
  <2>1. /\ \A k \in 1 .. i.qi : Payload(i)[k].tick = tick => lots < Payload(i)[k].lots
        /\ tick < Quote(i).tick
    BY <1>2, <1>3 DEF Dropped
  <2>2. \A k \in 1 .. j.qi : Payload(j)[k].tick = tick => lots < Payload(j)[k].lots
    BY <1>1, <1>2, <2>1
  <2>3. HasQuote(j) /\ ~BadQuote(j) => tick < Quote(j).tick
    <3> SUFFICES ASSUME HasQuote(j), ~BadQuote(j) PROVE tick < Quote(j).tick
      OBVIOUS
    <3>1. Quote(j).tick \in Nat
      <4>1. j.qi = i.qi + 1 /\ i.qi \in Nat /\ Len(Payload(i)) \in Nat
        BY PayloadQuotes DEF Consumes
      <4>2. j.qi + 1 \in 1 .. Len(Payload(i))
        BY <1>1, <4>1 DEF HasQuote
      <4> QED BY <1>1, <4>2, PayloadQuotes DEF Quote
    <3> QED BY <1>1, <1>2, <2>1, <3>1
  <2> QED BY <1>2, <1>3, <2>2, <2>3 DEF Dropped
<1>4. CASE side # i.side
  BY <1>2, <1>4 DEF Dropped
<1> QED BY <1>3, <1>4

LEMMA DroppedNew ==
  ASSUME NEW i \in MassQuoteIx, i.qi <= Len(Payload(i)), Climbed(i), NEW tick \in Nat, NEW lots,
         i.qi > 0 => i.lastTick < tick, HasQuote(i) => tick < Quote(i).tick
  PROVE  Dropped(i, i.side, tick, lots)
<1>1. ASSUME NEW k \in 1 .. i.qi PROVE Payload(i)[k].tick # tick
  <2>1. k \in 1 .. Len(Payload(i)) /\ i.qi > 0
    BY PayloadQuotes
  <2>2. Payload(i)[k].tick \in Nat /\ Payload(i)[k].tick <= i.lastTick /\ i.lastTick \in Nat
    BY <2>1, PayloadQuotes DEF Climbed
  <2> QED BY <2>1, <2>2
<1> QED BY <1>1 DEF Dropped

LEMMA DroppedRepost ==
  ASSUME NEW i \in MassQuoteIx, i.qi <= Len(Payload(i)), Climbed(i), NEW j, Consumes(i, j),
         NEW lots, lots < Quote(i).lots
  PROVE  Dropped(j, i.side, Quote(i).tick, lots)
<1>1. /\ \A k \in 1 .. j.qi : k \in 1 .. i.qi \/ Payload(j)[k] = Quote(i)
      /\ Payload(j) = Payload(i) /\ (HasQuote(j) /\ ~BadQuote(j) => Quote(i).tick < Quote(j).tick)
      /\ \A k \in 1 .. i.qi : Payload(i)[k].tick < Quote(i).tick
  BY ClimbsOn
<1>2. j.side = i.side /\ Quote(i).tick \in Nat
  BY PayloadQuotes DEF Consumes
<1>3. ASSUME NEW k \in 1 .. j.qi, Payload(j)[k].tick = Quote(i).tick PROVE lots < Payload(j)[k].lots
  <2>1. k \notin 1 .. i.qi
    BY <1>1, <1>2, <1>3
  <2> QED BY <1>1, <2>1
<1> QED BY <1>1, <1>2, <1>3 DEF Dropped

\* The tick a quote rests at is its own or, if it may slide, a worse one.
LEMMA SlideFits ==
  ASSUME NEW b, NEW side \in Sides, NEW tick \in Nat, NEW slide \in BOOLEAN, NEW opposing \in Nat, NEW t,
         t = CheckOrSlideVs(b, side, tick, slide, opposing), t # NoTick
  PROVE  t = tick \/ (slide /\ IF side = "bid" THEN t < tick ELSE t > tick)
<1>1. CASE ~Meets(side, tick, opposing)
  BY <1>1 DEF CheckOrSlideVs
<1>2. CASE Meets(side, tick, opposing) /\ ~slide
  BY <1>2 DEF CheckOrSlideVs
<1>3. CASE Meets(side, tick, opposing) /\ slide /\ side = "bid"
  BY <1>3 DEF CheckOrSlideVs, Meets
<1>4. CASE Meets(side, tick, opposing) /\ slide /\ side = "ask"
  BY <1>4 DEF CheckOrSlideVs, Meets
<1> QED BY <1>1, <1>2, <1>3, <1>4 DEF Sides

\* A step of the merge that consumes no quote.
LEMMA SameQuotes ==
  ASSUME NEW i, NEW j, j.side = i.side, j.qi = i.qi, j.bids = i.bids, j.asks = i.asks, j.lastTick = i.lastTick
  PROVE  /\ Climbed(i) <=> Climbed(j)
         /\ \A side, tick, lots : Dropped(i, side, tick, lots) <=> Dropped(j, side, tick, lots)
<1>1. Payload(j) = Payload(i)
  BY DEF Payload
<1>2. Quote(j) = Quote(i) /\ (HasQuote(j) <=> HasQuote(i))
  BY <1>1 DEF Quote, HasQuote
<1>3. BadQuote(j) <=> BadQuote(i)
  BY <1>2 DEF BadQuote
<1> QED BY <1>1, <1>2, <1>3 DEF Climbed, Dropped

\* What the merge reads when it holds.
LEMMA MergeRead ==
  ASSUME EInv, MergeHolds, Merging
  PROVE  /\ committed.book \in Book /\ book \in Book /\ Sound(book) /\ ix \in MassQuoteIx
         /\ ix.seat \in SeatIds /\ ix.side \in Sides /\ ix.qi \in Nat /\ ix.cur \in Links
         /\ ix.qi <= Len(Payload(ix)) /\ At(book, ix.seat, ix.prev, ix.cur)
         /\ Aside(committed.book, book, ix.seat) /\ Laid(book, ix)
         /\ Ahead(committed.book, book, ix.seat, ix.prev) /\ Climbed(ix) /\ Late(book, ix)
         /\ Justified(committed.book, book, ix)
<1>1. /\ book \in Book /\ Sound(book) /\ Merges(book, ix) /\ ix \in MassQuoteIx
      /\ ix.seat \in SeatIds /\ ix.side \in Sides /\ ix.qi \in Nat /\ ix.cur \in Links
  BY MergeFacts DEF EInv
<1>2. Merged(committed.book, book, ix)
  BY DEF MergeHolds
<1> QED BY <1>1, <1>2, EBook DEF Merges, Merged, Late

\* The order at the cursor is as the instruction found it, above the quotes consumed.
LEMMA CursorRead ==
  ASSUME EInv, MergeHolds, Merging, ix.cur # NIL
  PROVE  /\ ix.cur \in LiveOf(book, ix.seat) /\ ix.cur \in Live(book) /\ ix.cur \in Nodes
         /\ BaseOf(book, ix.prev) < PlaceOf(book, ix.cur)
         /\ ix.cur \in LiveOf(committed.book, ix.seat)
         /\ SideOf(committed.book, ix.cur) = SideOf(book, ix.cur)
         /\ TickOf(committed.book, ix.cur) = TickOf(book, ix.cur)
         /\ LotsOf(committed.book, ix.cur) = LotsOf(book, ix.cur)
         /\ TickOf(book, ix.cur) \in Nat /\ LotsOf(book, ix.cur) \in Nat
         /\ (InRegion(ix) <=> SideOf(book, ix.cur) = ix.side) /\ CurTick(ix) = TickOf(book, ix.cur)
         /\ InRegion(ix) /\ ix.qi > 0 => ix.lastTick < TickOf(book, ix.cur)
<1>1. /\ book \in Book /\ At(book, ix.seat, ix.prev, ix.cur)
      /\ Ahead(committed.book, book, ix.seat, ix.prev) /\ Late(book, ix)
  BY MergeRead
<1>2. /\ ix.cur \in LiveOf(book, ix.seat) /\ ix.cur \in Live(book) /\ ix.cur \in Nodes
      /\ BaseOf(book, ix.prev) < PlaceOf(book, ix.cur)
  BY <1>1, BaseType
<1>3. ix.cur \in LiveOf(committed.book, ix.seat) /\ \A g \in OrderFields : book.pool[ix.cur][g] = committed.book.pool[ix.cur][g]
  BY <1>1, <1>2 DEF Ahead
<1>4. TickOf(book, ix.cur) \in Nat /\ LotsOf(book, ix.cur) \in Nat
  BY <1>1, <1>2, LiveTicks
<1>5. (InRegion(ix) <=> SideOf(book, ix.cur) = ix.side) /\ CurTick(ix) = TickOf(book, ix.cur)
  BY DEF InRegion, SideOf, CurTick, TickOf
<1>6. InRegion(ix) /\ ix.qi > 0 => ix.lastTick < TickOf(book, ix.cur)
  BY <1>1, <1>5 DEF Late
<1> QED BY <1>2, <1>3, <1>4, <1>5, <1>6 DEF OrderFields, SideOf, TickOf, LotsOf

LEMMA BeginMerges ==
  ASSUME EInv, NEW s \in SeatIds, NEW bids \in Payloads, NEW asks \in Payloads,
         NEW expiry \in InExpiries, BeginMassQuote(s, bids, asks, expiry)
  PROVE  MergeHolds'
<1> DEFINE i == [op |-> "MassQuote", seat |-> s, bids |-> bids, asks |-> asks,
                 expiry |-> expiry, side |-> "bid", qi |-> 0,
                 prev |-> NIL, cur |-> book.seats[s].head,
                 lastTick |-> 0, lastUsed |-> 0, opposing |-> BestOf(book, "ask")]
<1>1. ix = Idle /\ book' = book /\ ix' = i /\ committed' = committed
  BY DEF BeginMassQuote, Starts, Continue
<1>2. committed.book = book /\ book \in Book
  BY <1>1, EBook DEF EInv, Since
<1>3. i.seat = s /\ i.side = "bid" /\ i.qi = 0 /\ i.prev = NIL
  OBVIOUS
<1> HIDE DEF i
<1>4. DoneOn(book, s, NIL, "bid") = {}
  <2>1. \A k \in LiveOf(book, s) : PlaceOf(book, k) \in Nat
    BY <1>2, BookSeatwise, LivesFinite DEF Seatwise
  <2>2. Behind(book, s, NIL) = {}
    BY <2>1 DEF Behind, BaseOf
  <2> QED BY <2>2 DEF DoneOn
<1>5. Laid(book, i)
  BY <1>3, <1>4, PlacedNone DEF Laid
<1>6. Late(book, i)
  <2>1. 1 .. 0 = {}
    OBVIOUS
  <2> QED BY <1>3, <2>1 DEF Late, Climbed
<1>7. Aside(book, book, s) /\ Ahead(book, book, s, NIL) /\ Justified(book, book, i)
  BY <1>3, LivesAre DEF Aside, Ahead, Justified
<1>8. Merged(book, book, i)
  BY <1>3, <1>5, <1>6, <1>7 DEF Merged
<1> QED BY <1>1, <1>2, <1>8 DEF MergeHolds

LEMMA MergesOn ==
  ASSUME NEW b, NEW i, b = committed.book, NEW d, Merged(b, d, i), Continue(d, i)
  PROVE  MergeHolds'
<1>1. book' = d /\ ix' = i /\ committed' = committed
  BY DEF Continue
<1> QED BY <1>1 DEF MergeHolds

LEMMA CancelMerges == ASSUME EInv, MergeHolds, MergeCancel PROVE MergeHolds'
<1> DEFINE b    == committed.book
           cur  == ix.cur
           next == book.pool[ix.cur].makerNext
           d    == KillOrder(book, cur)
           j    == [ix EXCEPT !.cur = next]
<1>1. /\ Merging /\ ~BadQuote(ix) /\ InRegion(ix) /\ Refundable(book, cur) /\ Continue(d, j)
      /\ HasQuote(ix) => CurTick(ix) < Quote(ix).tick
  BY DEF MergeCancel
<1>2. /\ b \in Book /\ book \in Book /\ Sound(book) /\ ix \in MassQuoteIx /\ ix.seat \in SeatIds /\ cur \in Links
      /\ ix.qi <= Len(Payload(ix)) /\ At(book, ix.seat, ix.prev, cur) /\ Aside(b, book, ix.seat) /\ Laid(book, ix)
      /\ Ahead(b, book, ix.seat, ix.prev) /\ Climbed(ix) /\ Justified(b, book, ix)
  BY <1>1, MergeRead
<1>3. cur # NIL
  BY <1>1 DEF InRegion
<1>4. /\ cur \in LiveOf(book, ix.seat) /\ cur \in Live(book)
      /\ SideOf(b, cur) = SideOf(book, cur) /\ TickOf(b, cur) = TickOf(book, cur) /\ LotsOf(b, cur) = LotsOf(book, cur)
      /\ TickOf(book, cur) \in Nat /\ SideOf(book, cur) = ix.side /\ CurTick(ix) = TickOf(book, cur)
      /\ ix.qi > 0 => ix.lastTick < TickOf(book, cur)
  BY <1>1, <1>3, CursorRead
<1>5. /\ j.seat = ix.seat /\ j.side = ix.side /\ j.qi = ix.qi /\ j.bids = ix.bids /\ j.asks = ix.asks
      /\ j.prev = ix.prev /\ j.expiry = ix.expiry /\ j.lastTick = ix.lastTick /\ j.cur = next
  BY <1>2 DEF MassQuoteIx
<1>6. d \in Book /\ next \in Links
  BY <1>1, <1>2, KillOrderKept, KeptBook, NodeType
<1>7. next # NIL => PlaceOf(book, cur) < PlaceOf(d, next)
  BY <1>1, MergeKilled DEF EInv
<1>8. /\ Aside(b, d, ix.seat) /\ Ahead(b, d, ix.seat, ix.prev)
      /\ Behind(d, ix.seat, ix.prev) = Behind(book, ix.seat, ix.prev) /\ cur \notin Behind(book, ix.seat, ix.prev)
      /\ Live(d) = Live(book) \ {cur}
      /\ \A m \in Live(book) : m # cur => \A g \in OrderFields : d.pool[m][g] = book.pool[m][g]
  BY <1>2, <1>3, KillMerges
<1>9. /\ Climbed(ix) <=> Climbed(j)
      /\ \A side, tick, lots : Dropped(ix, side, tick, lots) <=> Dropped(j, side, tick, lots)
  <2> HIDE DEF j
  <2> QED BY <1>5, SameQuotes
<1> HIDE DEF b, d, j, next, cur
<1>10. Laid(d, j)
  <2>1. \A m \in Behind(book, ix.seat, ix.prev) : m \in Live(book) /\ m # cur
    BY <1>8, LivesAre DEF Behind
  <2> QED BY <1>2, <1>5, <1>8, <2>1, LaidKept
<1>11. Late(d, j)
  <2> SUFFICES ASSUME next # NIL, SideOf(d, next) = ix.side, ix.qi > 0 PROVE ix.lastTick < TickOf(d, next)
    BY <1>2, <1>5, <1>9 DEF Late
  <2>1. TickOf(book, cur) < TickOf(d, next)
    BY <1>2, <1>4, <1>6, <1>7, SideTicks
  <2>2. ix.lastTick \in Nat /\ TickOf(d, next) \in Nat
    BY <1>2, <1>6, NodeType, BookAssumption DEF MassQuoteIx, TickOf
  <2> QED BY <1>4, <2>1, <2>2
<1>12. Justified(b, d, j)
  <2> SUFFICES ASSUME NEW n \in LiveOf(b, ix.seat)
               PROVE  (n \in Live(d) /\ SeqOf(d, n) = SeqOf(b, n)) \/ Dropped(j, SideOf(b, n), TickOf(b, n), LotsOf(b, n))
    BY <1>5 DEF Justified
  <2>1. CASE n = cur
    <3>1. Dropped(ix, ix.side, TickOf(book, cur), LotsOf(book, cur))
      BY <1>1, <1>2, <1>4, DroppedNew
    <3> QED BY <1>4, <1>9, <2>1, <3>1
  <2>2. CASE n # cur /\ n \in Live(book) /\ SeqOf(book, n) = SeqOf(b, n)
    BY <1>8, <2>2 DEF SeqOf, OrderFields
  <2>3. CASE Dropped(ix, SideOf(b, n), TickOf(b, n), LotsOf(b, n))
    BY <1>9, <2>3
  <2> QED BY <1>2, <2>1, <2>2, <2>3 DEF Justified
<1>13. Merged(b, d, j)
  BY <1>5, <1>8, <1>10, <1>11, <1>12 DEF Merged
<1> QED BY <1>1, <1>13, MergesOn DEF b

LEMMA JustifiedOn ==
  ASSUME NEW b \in Book, NEW c, NEW i \in MassQuoteIx, i.qi <= Len(Payload(i)), Climbed(i), Justified(b, c, i),
         NEW j, Consumes(i, j)
  PROVE  Justified(b, c, j)
<1> SUFFICES ASSUME NEW n \in LiveOf(b, i.seat)
             PROVE  (n \in Live(c) /\ SeqOf(c, n) = SeqOf(b, n)) \/ Dropped(j, SideOf(b, n), TickOf(b, n), LotsOf(b, n))
  BY DEF Justified, Consumes
<1>1. TickOf(b, n) \in Nat
  BY LivesAre, LiveTicks
<1>2. CASE Dropped(i, SideOf(b, n), TickOf(b, n), LotsOf(b, n))
  BY <1>1, <1>2, DroppedMore
<1> QED BY <1>2 DEF Justified

\* The merge after an order has joined.
LEMMA JoinHolds ==
  ASSUME NEW b \in Book, NEW c \in Book, NEW d, NEW i \in MassQuoteIx, i.qi <= Len(Payload(i)), Climbed(i),
         Aside(b, c, i.seat), Ahead(b, c, i.seat, i.prev), Laid(c, i),
         NEW n, NEW tick, Joined(c, d, i.seat, i.prev, n, i.side, tick, Quote(i).lots, i.expiry),
         tick = Quote(i).tick \/ (~Quote(i).reject /\ IF i.side = "bid" THEN tick < Quote(i).tick ELSE tick > Quote(i).tick),
         NEW j, Consumes(i, j), j.prev = n, Justified(b, c, j),
         j.cur # NIL /\ SideOf(d, j.cur) = i.side => Quote(i).tick < TickOf(d, j.cur)
  PROVE  Merged(b, d, j)
<1>1. i.seat \in SeatIds /\ i.side \in Sides /\ i.qi \in Nat
  BY DEF MassQuoteIx
<1>2. /\ j.seat = i.seat /\ j.side = i.side /\ j.qi = i.qi + 1 /\ j.bids = i.bids /\ j.asks = i.asks
      /\ j.expiry = i.expiry /\ j.lastTick = Quote(i).tick
  BY DEF Consumes
<1>3. Fit(d, n, Payload(i)[i.qi + 1], i.side, i.expiry)
  <2>1. LotsOf(d, n) = Quote(i).lots /\ d.pool[n].expiry = i.expiry /\ TickOf(d, n) = tick
    BY DEF Joined
  <2>2. Quote(i) = Payload(i)[i.qi + 1]
    BY DEF Quote
  <2> QED BY <2>1, <2>2 DEF Fit
<1>4. Aside(b, d, i.seat) /\ Ahead(b, d, i.seat, n) /\ Laid(d, j)
  BY <1>1, <1>2, <1>3, JoinMerges
<1>5. Late(d, j)
  <2>1. Climbed(j)
    BY ClimbsOn
  <2> QED BY <1>2, <2>1 DEF Late
<1>6. Justified(b, d, j)
  <2> SUFFICES ASSUME NEW k \in LiveOf(b, i.seat), k \in Live(c), SeqOf(c, k) = SeqOf(b, k)
               PROVE  k \in Live(d) /\ SeqOf(d, k) = SeqOf(b, k)
    BY <1>2 DEF Justified
  <2>1. CASE k = n
    <3>1. n \in LiveOf(d, i.seat) /\ SeqOf(d, n) = SeqOf(c, n)
      BY <2>1 DEF Joined
    <3> QED BY <2>1, <3>1, LivesAre
  <2>2. CASE k # n
    <3>1. k \in Live(d) /\ \A g \in OrderFields : d.pool[k][g] = c.pool[k][g]
      BY <2>2 DEF Joined
    <3> QED BY <3>1 DEF SeqOf, OrderFields
  <2> QED BY <2>1, <2>2
<1> QED BY <1>2, <1>4, <1>5, <1>6 DEF Merged

LEMMA KeepMerges == ASSUME EInv, MergeHolds, MergeKeep PROVE MergeHolds'
<1> DEFINE b    == committed.book
           cur  == ix.cur
           q    == Quote(ix)
           next == book.pool[ix.cur].makerNext
           d    == ShrinkOrder(book, ix.seat, cur, q.lots, ix.expiry)
           j    == [ix EXCEPT !.lastUsed = q.tick, !.lastTick = q.tick,
                              !.qi = @ + 1, !.prev = cur, !.cur = next]
<1>1. /\ Merging /\ ~BadQuote(ix) /\ InRegion(ix) /\ HasQuote(ix) /\ Continue(d, j) /\ TickOf(book, cur) = q.tick
  BY DEF MergeKeep, TickOf
<1>2. /\ b \in Book /\ book \in Book /\ Sound(book) /\ ix \in MassQuoteIx /\ ix.seat \in SeatIds /\ cur \in Links
      /\ ix.qi <= Len(Payload(ix)) /\ At(book, ix.seat, ix.prev, cur) /\ Aside(b, book, ix.seat) /\ Laid(book, ix)
      /\ Ahead(b, book, ix.seat, ix.prev) /\ Climbed(ix) /\ Justified(b, book, ix)
  BY <1>1, MergeRead
<1>3. cur # NIL
  BY <1>1 DEF InRegion
<1>4. SideOf(book, cur) = ix.side
  BY <1>1 DEF InRegion, SideOf
<1>5. q.lots \in Nat \ {0}
  <2>1. q.lots \in Nat /\ q.lots # 0
    BY <1>1, <1>2, PayloadQuotes DEF BadQuote
  <2> QED BY <2>1
<1>6. Consumes(ix, j) /\ j.prev = cur /\ j.cur = next
  BY <1>1, <1>2 DEF Consumes, MassQuoteIx
<1>7. Joined(book, d, ix.seat, ix.prev, cur, ix.side, q.tick, q.lots, ix.expiry)
  <2> HIDE DEF q, d
  <2>1. Joined(book, ShrinkOrder(book, ix.seat, cur, q.lots, ix.expiry), ix.seat, ix.prev, cur, SideOf(book, cur),
               TickOf(book, cur), q.lots, ix.expiry)
    BY <1>2, <1>3, <1>5, KeptJoins
  <2> QED BY <1>1, <1>4, <2>1 DEF d
<1> HIDE DEF j, d
<1>8. Justified(b, book, j)
  BY <1>2, <1>6, JustifiedOn
<1>9. ASSUME next # NIL, SideOf(d, next) = ix.side PROVE q.tick < TickOf(d, next)
  <2>1. Follows(book, ix.seat, PlaceOf(book, cur), next)
    BY <1>2, <1>3, NextPlace DEF ChainNextOf
  <2>2. next \in LiveOf(book, ix.seat) /\ PlaceOf(book, cur) < PlaceOf(book, next)
    BY <1>9, <2>1 DEF Follows
  <2>3. next \in Live(book) /\ next \in Links /\ cur \in Live(book) /\ PlaceOf(book, cur) \in Nat
    BY <1>2, <1>3, <2>2, BaseType DEF Nodes, Links
  <2>4. next # cur
    BY <2>2, <2>3
  <2>5. \A g \in OrderFields : d.pool[next][g] = book.pool[next][g]
    BY <1>7, <2>3, <2>4 DEF Joined
  <2>6. SideOf(d, next) = SideOf(book, next) /\ TickOf(d, next) = TickOf(book, next)
    BY <2>5 DEF OrderFields, SideOf, TickOf
  <2>7. TickOf(book, cur) < TickOf(book, next)
    BY <1>2, <1>4, <1>9, <2>2, <2>3, <2>6, SideTicks
  <2> QED BY <1>1, <2>6, <2>7
<1>10. Merged(b, d, j)
  <2> HIDE DEF b, q, next, cur
  <2>1. \A n, tick : Joined(book, d, ix.seat, ix.prev, n, ix.side, tick, q.lots, ix.expiry) /\ tick = q.tick /\ j.prev = n
                       => Merged(b, d, j)
    BY <1>2, <1>6, <1>8, <1>9, JoinHolds DEF q
  <2> QED BY <1>6, <1>7, <2>1
<1> QED BY <1>1, <1>10, MergesOn DEF b

\* A quote is posted in book c, which is the merge's book but for the order it replaces.
LEMMA PostMerges ==
  ASSUME EInv, Merging, HasQuote(ix), ~BadQuote(ix), NEW c, Kept(book, c), Clears(book, c), Sound(c),
         c.orderSeq = book.orderSeq, NEW next \in Links, Merges(c, [ix EXCEPT !.cur = next]), NEW nextTick,
         MassQuoteInsert(c, next, nextTick),
         LET t == CheckOrSlideVs(c, ix.side, Quote(ix).tick, ~Quote(ix).reject, ix.opposing)
         IN t # NoTick /\ t # nextTick /\ next # NIL => PlaceAt(ix.side, t) < PlaceOf(c, next),
         ix.qi <= Len(Payload(ix)), Climbed(ix), Aside(committed.book, c, ix.seat),
         Ahead(committed.book, c, ix.seat, ix.prev), Laid(c, ix),
         \A j : Consumes(ix, j) => Justified(committed.book, c, j),
         next # NIL /\ SideOf(c, next) = ix.side => Quote(ix).tick < TickOf(c, next)
  PROVE  MergeHolds'
<1> DEFINE b    == committed.book
           q    == Quote(ix)
           tick == CheckOrSlideVs(c, ix.side, q.tick, ~q.reject, ix.opposing)
           n    == c.freeHead
           d    == ChainSplice(LockAndInsert(c, ix.seat, ix.side, tick, q.lots, ix.expiry), ix.seat, ix.prev, next, n)
           j    == [ix EXCEPT !.prev = n, !.cur = next, !.lastUsed = tick, !.lastTick = q.tick, !.qi = @ + 1]
<1>1. CASE Abort
  <2>1. ix' = Idle
    BY <1>1 DEF Abort
  <2> QED BY <2>1 DEF MergeHolds, Merging, Idle
<1>2. CASE /\ tick # NoTick /\ tick > ix.lastUsed /\ tick # nextTick
           /\ CanInsert(c, ix.seat, ix.side, tick, q.lots) /\ Continue(d, j)
  <2>0. /\ ix \in MassQuoteIx /\ ix.seat \in SeatIds /\ ix.side \in Sides /\ ix.opposing \in Nat
        /\ b \in Book /\ c \in Book /\ SInv
    BY MergeFacts, EBook, KeptBook DEF EInv
  <2>1. tick = CheckOrSlideVs(c, ix.side, Quote(ix).tick, ~Quote(ix).reject, ix.opposing)
    OBVIOUS
  <2>2. next # NIL => PlaceAt(ix.side, tick) < PlaceOf(c, next)
    BY <1>2
  <2>3. tick # NoTick /\ CanInsert(c, ix.seat, ix.side, tick, Quote(ix).lots) /\ ix.lastUsed < tick
    BY <1>2
  <2>4. q.tick \in Nat /\ (~q.reject) \in BOOLEAN
    BY <2>0, MergeType, SBook
  <2> HIDE DEF tick
  <2>5. /\ Entered(c, d, n, ix.side, tick, q.lots, ix.seat, ix.prev, next)
        /\ n \in Nodes /\ n \notin Live(c) /\ tick \in Nat
        /\ At(c, ix.seat, ix.prev, next) /\ BaseOf(c, ix.prev) < PlaceAt(ix.side, tick)
    BY <2>0, <2>1, <2>2, <2>3, InsertEnters
  <2>6. Joined(c, d, ix.seat, ix.prev, n, ix.side, tick, q.lots, ix.expiry)
    BY <2>0, <2>2, <2>5, EnteredJoins
  <2>7. tick = q.tick \/ (~q.reject /\ IF ix.side = "bid" THEN tick < q.tick ELSE tick > q.tick)
    <3> DEFINE slide == ~q.reject
    <3>1. tick = CheckOrSlideVs(c, ix.side, q.tick, slide, ix.opposing) /\ slide \in BOOLEAN
      BY <2>1, <2>4
    <3> HIDE DEF q, slide
    <3>2. tick = q.tick \/ (slide /\ IF ix.side = "bid" THEN tick < q.tick ELSE tick > q.tick)
      BY <2>0, <2>3, <2>4, <3>1, SlideFits
    <3> QED BY <3>2 DEF slide
  <2>8. Consumes(ix, j) /\ j.prev = n /\ j.cur = next
    BY <2>0 DEF Consumes, MassQuoteIx
  <2> HIDE DEF d, j, n
  <2>9. Justified(b, c, j)
    BY <2>8
  <2>10. ASSUME next # NIL, SideOf(d, next) = ix.side PROVE q.tick < TickOf(d, next)
    <3>1. next \in Live(c) /\ next # n
      BY <2>0, <2>5, <2>10, BaseType
    <3>2. \A g \in OrderFields : d.pool[next][g] = c.pool[next][g]
      BY <2>6, <3>1 DEF Joined
    <3>3. SideOf(d, next) = SideOf(c, next) /\ TickOf(d, next) = TickOf(c, next)
      BY <3>2 DEF OrderFields, SideOf, TickOf
    <3> QED BY <2>10, <3>3
  <2>11. Merged(b, d, j)
    <3> HIDE DEF b
    <3>1. Aside(b, c, ix.seat) /\ Ahead(b, c, ix.seat, ix.prev)
      BY DEF b
    <3> QED BY <2>0, <2>6, <2>7, <2>8, <2>9, <2>10, <3>1, JoinHolds
  <2> QED BY <1>2, <2>11, MergesOn DEF b
<1> QED BY <1>1, <1>2 DEF MassQuoteInsert

LEMMA InsertMerges == ASSUME EInv, MergeHolds, MergeInsert PROVE MergeHolds'
<1> DEFINE b        == committed.book
           nextTick == IF InRegion(ix) THEN CurTick(ix) ELSE NoTick
           q == Quote(ix)
           t == CheckOrSlideVs(book, ix.side, q.tick, ~q.reject, ix.opposing)
<1>0. SInv
  BY DEF EInv
<1>1. /\ Merging /\ HasQuote(ix) /\ ~BadQuote(ix) /\ (InRegion(ix) => CurTick(ix) > q.tick)
      /\ MassQuoteInsert(book, ix.cur, nextTick)
  BY DEF MergeInsert
<1>2. /\ b \in Book /\ book \in Book /\ Sound(book) /\ ix \in MassQuoteIx /\ ix.cur \in Links
      /\ ix.qi <= Len(Payload(ix)) /\ Aside(b, book, ix.seat) /\ Laid(book, ix)
      /\ Ahead(b, book, ix.seat, ix.prev) /\ Climbed(ix) /\ Justified(b, book, ix)
  BY <1>1, MergeRead
<1>3. [ix EXCEPT !.cur = ix.cur] = ix /\ Merges(book, ix)
  BY <1>0, <1>1, <1>2, MergeFacts DEF MassQuoteIx
<1>4. Kept(book, book) /\ Clears(book, book)
  <2>1. CrossInv
    BY <1>0 DEF SInv
  <2> QED BY <1>2, <2>1, BookClears, KeptSelf, SeatsKeptIsKept
<1>5. ASSUME t # NoTick, t # nextTick, ix.cur # NIL PROVE PlaceAt(ix.side, t) < PlaceOf(book, ix.cur)
  <2>1. t = CheckOrSlideVs(book, ix.side, Quote(ix).tick, ~Quote(ix).reject, ix.opposing)
    OBVIOUS
  <2>2. InRegion(ix) => t # CurTick(ix)
    BY <1>5
  <2> HIDE DEF t
  <2> QED BY <1>0, <1>1, <1>5, <2>1, <2>2, InsertBefore
<1>6. \A j : Consumes(ix, j) => Justified(b, book, j)
  BY <1>2, JustifiedOn
<1>7. ix.cur # NIL /\ SideOf(book, ix.cur) = ix.side => q.tick < TickOf(book, ix.cur)
  <2> SUFFICES ASSUME ix.cur # NIL, SideOf(book, ix.cur) = ix.side PROVE q.tick < TickOf(book, ix.cur)
    OBVIOUS
  <2>1. InRegion(ix) /\ CurTick(ix) = TickOf(book, ix.cur) /\ TickOf(book, ix.cur) \in Nat
    BY <1>1, CursorRead
  <2>2. q.tick \in Nat
    BY <1>1, <1>2, PayloadQuotes
  <2> QED BY <1>1, <2>1, <2>2
<1> HIDE DEF nextTick
<1>8. MassQuoteInsert(book, ix.cur, nextTick) /\ Merges(book, [ix EXCEPT !.cur = ix.cur]) /\ book.orderSeq = book.orderSeq
  BY <1>1, <1>3
<1> QED BY <1>1, <1>2, <1>4, <1>5, <1>6, <1>7, <1>8, PostMerges

LEMMA RepostMerges == ASSUME EInv, MergeHolds, MergeRepost PROVE MergeHolds'
<1> DEFINE b    == committed.book
           cur  == ix.cur
           c    == KillOrder(book, ix.cur)
           next == book.pool[ix.cur].makerNext
           q    == Quote(ix)
           t    == CheckOrSlideVs(c, ix.side, q.tick, ~q.reject, ix.opposing)
<1>0. SInv
  BY DEF EInv
<1>1. /\ Merging /\ HasQuote(ix) /\ ~BadQuote(ix) /\ InRegion(ix) /\ CurTick(ix) = q.tick /\ Refundable(book, ix.cur)
      /\ MassQuoteInsert(c, next, NoTick) /\ q.lots > LotsOf(book, cur)
  BY DEF MergeRepost, LotsOf
<1>2. /\ b \in Book /\ book \in Book /\ Sound(book) /\ ix \in MassQuoteIx /\ ix.seat \in SeatIds /\ cur \in Links
      /\ ix.qi <= Len(Payload(ix)) /\ At(book, ix.seat, ix.prev, cur) /\ Aside(b, book, ix.seat) /\ Laid(book, ix)
      /\ Ahead(b, book, ix.seat, ix.prev) /\ Climbed(ix) /\ Justified(b, book, ix)
  BY <1>1, MergeRead
<1>3. /\ Sound(c) /\ Clears(book, c) /\ Merges(c, [ix EXCEPT !.cur = next]) /\ c.orderSeq = book.orderSeq
      /\ next # NIL => PlaceOf(book, ix.cur) < PlaceOf(c, next)
  BY <1>0, <1>1, MergeKilled
<1>4. Kept(book, c) /\ c \in Book /\ next \in Links
  BY <1>1, <1>2, KillOrderKept, KeptBook, NodeType
<1>5. ASSUME t # NoTick, next # NIL PROVE PlaceAt(ix.side, t) < PlaceOf(c, next)
  <2>1. t = CheckOrSlideVs(c, ix.side, Quote(ix).tick, ~Quote(ix).reject, ix.opposing)
    OBVIOUS
  <2> HIDE DEF t, c, next
  <2> QED BY <1>0, <1>1, <1>3, <1>4, <1>5, <2>1, RepostBefore
<1>6. cur # NIL
  BY <1>1 DEF InRegion
<1>7. /\ Aside(b, c, ix.seat) /\ Ahead(b, c, ix.seat, ix.prev)
      /\ Behind(c, ix.seat, ix.prev) = Behind(book, ix.seat, ix.prev) /\ cur \notin Behind(book, ix.seat, ix.prev)
      /\ Live(c) = Live(book) \ {cur}
      /\ \A m \in Live(book) : m # cur => \A g \in OrderFields : c.pool[m][g] = book.pool[m][g]
  <2> HIDE DEF b, cur
  <2>1. c = KillOrder(book, cur)
    BY DEF cur
  <2> HIDE DEF c
  <2> QED BY <1>2, <1>6, <2>1, KillMerges
<1>8. /\ cur \in LiveOf(book, ix.seat) /\ cur \in Live(book)
      /\ SideOf(b, cur) = SideOf(book, cur) /\ TickOf(b, cur) = TickOf(book, cur) /\ LotsOf(b, cur) = LotsOf(book, cur)
      /\ SideOf(book, cur) = ix.side /\ TickOf(book, cur) = q.tick /\ LotsOf(book, cur) \in Nat
  BY <1>1, <1>6, CursorRead
<1>9. q.lots \in Nat
  BY <1>1, <1>2, PayloadQuotes
<1> HIDE DEF c, next, cur
<1>10. Laid(c, ix)
  <2>1. \A m \in Behind(book, ix.seat, ix.prev) : m \in Live(book) /\ m # cur
    BY <1>7, LivesAre DEF Behind
  <2>2. \A m \in Behind(book, ix.seat, ix.prev) : \A g \in OrderFields : c.pool[m][g] = book.pool[m][g]
    BY <1>7, <2>1
  <2> QED BY <1>2, <1>7, <2>2, LaidKept
<1>11. ASSUME NEW j, Consumes(ix, j) PROVE Justified(b, c, j)
  <2> SUFFICES ASSUME NEW n \in LiveOf(b, ix.seat)
               PROVE  (n \in Live(c) /\ SeqOf(c, n) = SeqOf(b, n)) \/ Dropped(j, SideOf(b, n), TickOf(b, n), LotsOf(b, n))
    BY <1>11 DEF Justified, Consumes
  <2>1. CASE n = cur
    <3>1. LotsOf(book, cur) < q.lots
      BY <1>1, <1>8, <1>9
    <3>2. Dropped(j, ix.side, q.tick, LotsOf(book, cur))
      BY <1>2, <1>11, <3>1, DroppedRepost
    <3> QED BY <1>8, <2>1, <3>2
  <2>2. CASE n # cur /\ n \in Live(book) /\ SeqOf(book, n) = SeqOf(b, n)
    BY <1>7, <2>2 DEF SeqOf, OrderFields
  <2>3. CASE Dropped(ix, SideOf(b, n), TickOf(b, n), LotsOf(b, n))
    <3>1. TickOf(b, n) \in Nat
      BY <1>2, LivesAre, LiveTicks
    <3> QED BY <1>2, <1>11, <2>3, <3>1, DroppedMore
  <2> QED BY <1>2, <2>1, <2>2, <2>3 DEF Justified
<1>12. ASSUME next # NIL, SideOf(c, next) = ix.side PROVE q.tick < TickOf(c, next)
  <2>1. PlaceOf(book, cur) < PlaceOf(c, next)
    BY <1>3, <1>12 DEF cur
  <2> QED BY <1>2, <1>4, <1>8, <1>12, <2>1, SideTicks
<1> QED BY <1>1, <1>2, <1>3, <1>4, <1>5, <1>7, <1>10, <1>11, <1>12, PostMerges

LEMMA AsksMerge == ASSUME EInv, MergeHolds, MergeAsks PROVE MergeHolds'
<1> DEFINE b == committed.book
           s == ix.seat
           j == [ix EXCEPT !.side = "ask", !.qi = 0, !.lastTick = 0, !.lastUsed = 0, !.opposing = BestOf(book, "bid")]
<1>1. Merging /\ ~HasQuote(ix) /\ ix.side = "bid" /\ Continue(book, j)
  BY DEF MergeAsks, MergeDone
<1>2. /\ book \in Book /\ ix \in MassQuoteIx /\ ix.qi \in Nat /\ At(book, s, ix.prev, ix.cur)
      /\ ix.qi <= Len(Payload(ix)) /\ Aside(b, book, s) /\ Laid(book, ix)
      /\ Ahead(b, book, s, ix.prev) /\ Justified(b, book, ix)
  BY <1>1, MergeRead
<1>3. /\ j.seat = s /\ j.side = "ask" /\ j.qi = 0 /\ j.bids = ix.bids /\ j.asks = ix.asks
      /\ j.prev = ix.prev /\ j.cur = ix.cur /\ j.expiry = ix.expiry
  BY <1>2 DEF MassQuoteIx
<1>4. ix.lastUsed \in Nat /\ ix.lastUsed <= TickLimit /\ BaseOf(book, ix.prev) <= ix.lastUsed
  BY <1>1, MergeFacts DEF EInv, Merges, PlaceAt
<1>5. Payload(ix) = ix.bids /\ ix.qi = Len(ix.bids)
  <2>1. Payload(ix) = ix.bids /\ Len(ix.bids) \in Nat
    BY <1>1, <1>2, PayloadLen DEF Payload
  <2> QED BY <1>1, <1>2, <2>1 DEF HasQuote
<1> HIDE DEF j, b, s
<1>6. DoneOn(book, s, ix.prev, "ask") = {}
  <2> SUFFICES ASSUME NEW n \in Behind(book, s, ix.prev), SideOf(book, n) = "ask" PROVE FALSE
    BY DEF DoneOn
  <2>1. n \in Live(book) /\ PlaceOf(book, n) <= BaseOf(book, ix.prev) /\ BaseOf(book, ix.prev) \in Int
    BY <1>2, BaseType DEF Behind
  <2>2. TickOf(book, n) \in Nat /\ TickLimit \in Nat
    BY <1>2, <2>1, LiveTicks, BookAssumption
  <2>3. PlaceOf(book, n) = TickLimit + 1 + TickOf(book, n)
    BY DEF PlaceOf, SideOf, TickOf
  <2> QED BY <1>4, <2>1, <2>2, <2>3
<1>7. Laid(book, j)
  <2>1. Placed(book, DoneOn(book, s, ix.prev, "bid"), ix.bids, Len(ix.bids), "bid", ix.expiry)
    BY <1>1, <1>2, <1>5 DEF Laid, s
  <2> QED BY <1>3, <1>6, <2>1, PlacedNone DEF Laid
<1>8. Late(book, j)
  <2>1. 1 .. 0 = {}
    OBVIOUS
  <2> QED BY <1>3, <2>1 DEF Late, Climbed
<1>9. Justified(b, book, j)
  <2>1. \A side, tick, lots : Dropped(ix, side, tick, lots) => Dropped(j, side, tick, lots)
    BY <1>1, <1>3, <1>5 DEF Dropped
  <2> QED BY <1>2, <1>3, <2>1 DEF Justified, s
<1>10. Merged(b, book, j)
  BY <1>2, <1>3, <1>7, <1>8, <1>9 DEF Merged
<1> QED BY <1>1, <1>10, MergesOn DEF b

LEMMA Quotings ==
  ASSUME EInv, [Next]_vars, ix'.op = "MassQuote"
  PROVE  MakerNext \/ MergeStep \/ UNCHANGED vars
<1>0. ix'.op # "Idle" /\ ix'.op # "Take" /\ ix'.op # "Reanchor" /\ ix'.op # "ReapExpired"
  OBVIOUS
<1>1. \A b, v : ~Commit(b, v)
  BY <1>0 DEF Commit, Idle
<1>2. ~Abort
  BY <1>0 DEF Abort, Idle
<1>3. ~CustodyNext
  BY <1>1 DEF CustodyNext, ClaimSeat, CloseSeat, Deposit, Withdraw, CollectFees, UpdateFee
<1>4. ~TakerNext
  BY <1>0 DEF TakerNext, BeginPlaceLimit, BeginPlaceTake, BeginSwap, SwapWith, Take, Continue
<1>5. ~HygieneNext
  BY <1>0 DEF HygieneNext, BeginReanchor, BeginReap, Continue
<1>6. ~TakeStep
  <2> SUFFICES ASSUME TakeStep PROVE FALSE
    OBVIOUS
  <2>1. ix \in TakeIx
    BY EBook, TakeType DEF TakeStep, TakeExpired, TakeOwn, TakeFill, EndPlaceLimit, EndPlaceTake, EndSwap, TakeOver
  <2>2. ~TakeExpired /\ ~TakeOwn /\ ~TakeFill
    BY <1>0, <1>2, <2>1 DEF TakeExpired, TakeOwn, TakeFill, Continue, TakeIx
  <2>3. ~EndPlaceLimit /\ ~EndPlaceTake /\ ~EndSwap
    BY <1>1, <1>2 DEF EndPlaceLimit, EndPlaceTake, EndSwap
  <2> QED BY <2>2, <2>3 DEF TakeStep
<1>7. ~HygieneStep
  <2>1. ~(EnterWord \/ EvictOrder \/ LeaveWord)
    <3> SUFFICES ASSUME EnterWord \/ EvictOrder \/ LeaveWord PROVE FALSE
      OBVIOUS
    <3>1. ix \in ReanchorIx
      BY EBook, ReanchorType DEF EnterWord, EvictOrder, LeaveWord
    <3> QED BY <1>0, <3>1 DEF EnterWord, EvictOrder, LeaveWord, Continue, ReanchorIx
  <2>2. ~ReanchorCommit /\ ~ReapCommit
    BY <1>1 DEF ReanchorCommit, ReapCommit
  <2>3. ~ReapEnter /\ ~ReapSkip /\ ~ReapKill
    <3> SUFFICES ASSUME ReapEnter \/ ReapSkip \/ ReapKill PROVE FALSE
      OBVIOUS
    <3>1. ix \in ReapIx
      BY EBook, ReapType DEF ReapEnter, ReapSkip, ReapKill
    <3> QED BY <1>0, <1>1, <3>1 DEF ReapEnter, ReapSkip, ReapKill, Continue, ReapIx
  <2> QED BY <2>1, <2>2, <2>3 DEF HygieneStep
<1>8. ~NextSlot /\ ~(Refused /\ ~UNCHANGED vars)
  BY DEF NextSlot, Refused, Idle
<1> QED BY <1>3, <1>4, <1>5, <1>6, <1>7, <1>8 DEF Next, Step

LEMMA MergeNext == ASSUME EInv, MergeHolds, [Next]_vars PROVE MergeHolds'
<1> SUFFICES ASSUME ix'.op = "MassQuote" PROVE MergeHolds'
  BY DEF MergeHolds, Merging
<1>1. \A b, v : ~Commit(b, v)
  BY DEF Commit, Idle
<1>2. ~Abort
  BY DEF Abort, Idle
<1>3. CASE UNCHANGED vars
  BY <1>3 DEF vars, MergeHolds, Merging
<1>4. CASE MakerNext
  <2>1. \E s \in SeatIds, bids, asks \in Payloads, expiry \in InExpiries : BeginMassQuote(s, bids, asks, expiry)
    BY <1>1, <1>4 DEF MakerNext, PostOnly, CancelQuote, Cancel
  <2> QED BY <2>1, BeginMerges
<1>5. CASE MergeStep
  <2>1. ~MergeRefuse /\ ~MergeCommit
    BY <1>1, <1>2 DEF MergeRefuse, MergeCommit
  <2> QED BY <1>5, <2>1, CancelMerges, KeepMerges, InsertMerges, RepostMerges, AsksMerge DEF MergeStep
<1> QED BY <1>3, <1>4, <1>5, Quotings

LEMMA MergeEnds ==
  ASSUME EInv, [Next]_vars, committed' # committed, Merging
  PROVE  MergeCommit
<1>1. ix # Idle /\ ix.op = "MassQuote"
  BY DEF Merging, Idle
<1>2. ~CustodyNext
  BY <1>1 DEF CustodyNext, ClaimSeat, CloseSeat, Deposit, Withdraw, CollectFees, UpdateFee, Starts
<1>3. ~MakerNext
  BY <1>1 DEF MakerNext, PostOnly, CancelQuote, Cancel, BeginMassQuote, Starts
<1>4. ~TakerNext
  BY <1>1 DEF TakerNext, BeginPlaceLimit, BeginPlaceTake, BeginSwap, SwapWith, Starts
<1>5. ~HygieneNext
  BY <1>1 DEF HygieneNext, BeginReanchor, BeginReap, Starts
<1>6. ~TakeStep
  BY <1>1 DEF TakeStep, TakeExpired, TakeOwn, TakeFill, EndPlaceLimit, EndPlaceTake, EndSwap, TakeOver, Taking
<1>7. ~HygieneStep
  BY <1>1 DEF HygieneStep, EnterWord, EvictOrder, LeaveWord, ReanchorCommit, ReapEnter, ReapSkip, ReapKill, ReapCommit,
              Reanchoring, Reaping
<1>8. ~NextSlot /\ ~Refused /\ ~UNCHANGED vars
  BY DEF NextSlot, Refused, vars
<1>9. ~MergeRefuse /\ ~MergeCancel /\ ~MergeKeep /\ ~MergeInsert /\ ~MergeRepost /\ ~MergeAsks
  BY DEF MergeRefuse, MergeCancel, MergeKeep, MergeInsert, MergeRepost, MergeAsks, MassQuoteInsert, Continue, Abort
<1> QED BY <1>2, <1>3, <1>4, <1>5, <1>6, <1>7, <1>8, <1>9 DEF Next, Step, MergeStep

\* A merge that has committed: the seat's orders are the payload, those of its
\* orders that ended had to, and nobody else's were touched.
MergedInto(b, c, i) ==
  /\ \A side \in Sides :
       LET p == IF side = "bid" THEN i.bids ELSE i.asks
       IN /\ Placed(c, QuotesOf(c, i.seat, side), p, Len(p), side, i.expiry)
          /\ \A n \in QuotesOf(b, i.seat, side), k \in 1 .. Len(p) :
               b.pool[n].tick = p[k].tick /\ b.pool[n].lots >= p[k].lots => n \in Live(c) /\ SeqOf(c, n) = SeqOf(b, n)
  /\ Aside(b, c, i.seat) /\ Even(b, c)

LEMMA MergeLeaves ==
  ASSUME EInv, MergeHolds, MergeCommit
  PROVE  MergedInto(committed.book, book, ix) /\ committed'.book = BumpSeq(book)
<1> DEFINE b == committed.book
           s == ix.seat
<1>1. Merging /\ ~HasQuote(ix) /\ ~InRegion(ix) /\ ix.side = "ask" /\ Commit(book, vault)
  BY DEF MergeCommit, MergeDone
<1>2. /\ b \in Book /\ book \in Book /\ ix \in MassQuoteIx /\ ix.qi \in Nat
      /\ ix.qi <= Len(Payload(ix)) /\ At(book, s, ix.prev, ix.cur) /\ Aside(b, book, s) /\ Laid(book, ix)
      /\ Justified(b, book, ix)
  BY <1>1, MergeRead
<1>3. ix.cur = NIL
  <2>1. ix.cur # NIL => SideOf(book, ix.cur) = "ask"
    BY <1>1, CursorFacts DEF EInv
  <2> QED BY <1>1, <2>1 DEF InRegion, SideOf
<1>4. Behind(book, s, ix.prev) = LiveOf(book, s)
  <2>1. BaseOf(book, ix.prev) \in Int /\ \A k \in LiveOf(book, s) : PlaceOf(book, k) \in Nat
    BY <1>2, BaseType
  <2>2. \A k \in LiveOf(book, s) : ~(BaseOf(book, ix.prev) < PlaceOf(book, k))
    BY <1>2, <1>3 DEF At, Follows
  <2> QED BY <2>1, <2>2 DEF Behind
<1>5. \A side : DoneOn(book, s, ix.prev, side) = QuotesOf(book, s, side)
  BY <1>4 DEF DoneOn, QuotesOf, SideOf
<1>6. Payload(ix) = ix.asks /\ ix.qi = Len(ix.asks)
  <2>1. Payload(ix) = ix.asks /\ Len(ix.asks) \in Nat
    BY <1>1, <1>2, PayloadLen DEF Payload
  <2> QED BY <1>1, <1>2, <2>1 DEF HasQuote
<1>7. /\ Placed(book, QuotesOf(book, s, "ask"), ix.asks, Len(ix.asks), "ask", ix.expiry)
      /\ Placed(book, QuotesOf(book, s, "bid"), ix.bids, Len(ix.bids), "bid", ix.expiry)
  BY <1>1, <1>2, <1>5, <1>6 DEF Laid
<1>8. Even(b, book)
  BY <1>1 DEF EInv, Since, Merging
<1>9. committed'.book = BumpSeq(book)
  BY <1>1 DEF Commit
<1> HIDE DEF b
<1>10. ASSUME NEW side \in Sides, NEW p, p = IF side = "bid" THEN ix.bids ELSE ix.asks,
              NEW n \in QuotesOf(b, s, side), NEW k \in 1 .. Len(p), b.pool[n].tick = p[k].tick, b.pool[n].lots >= p[k].lots
       PROVE  n \in Live(book) /\ SeqOf(book, n) = SeqOf(b, n)
  <2>1. n \in LiveOf(b, s) /\ SideOf(b, n) = side
    BY DEF QuotesOf, SideOf
  <2>2. LotsOf(b, n) \in Nat /\ TickOf(b, n) = p[k].tick /\ ~(LotsOf(b, n) < p[k].lots)
    <3>1. LotsOf(b, n) \in Nat
      BY <1>2, <2>1, LivesAre, LiveTicks
    <3>2. p[k].lots \in Nat
      <4>1. side = "bid" => p = ix.bids
        BY <1>10
      <4>2. side # "bid" => p = Payload(ix)
        BY <1>6, <1>10
      <4> QED BY <1>2, <1>10, <4>1, <4>2, PayloadQuotes
    <3> QED BY <1>10, <3>1, <3>2 DEF LotsOf, TickOf
  <2>3. SUFFICES ASSUME Dropped(ix, side, TickOf(b, n), LotsOf(b, n)) PROVE FALSE
    BY <1>2, <2>1 DEF Justified
  <2>4. CASE side = "ask"
    BY <1>1, <1>6, <1>10, <2>2, <2>3, <2>4 DEF Dropped
  <2>5. CASE side = "bid"
    BY <1>1, <1>10, <2>2, <2>3, <2>5 DEF Dropped
  <2> QED BY <2>4, <2>5 DEF Sides
<1>11. MergedInto(b, book, ix)
  <2> SUFFICES ASSUME NEW side \in Sides
               PROVE LET p == IF side = "bid" THEN ix.bids ELSE ix.asks
                     IN /\ Placed(book, QuotesOf(book, s, side), p, Len(p), side, ix.expiry)
                        /\ \A n \in QuotesOf(b, s, side), k \in 1 .. Len(p) :
                             b.pool[n].tick = p[k].tick /\ b.pool[n].lots >= p[k].lots
                               => n \in Live(book) /\ SeqOf(book, n) = SeqOf(b, n)
    BY <1>2, <1>8 DEF MergedInto, b
  <2> DEFINE p == IF side = "bid" THEN ix.bids ELSE ix.asks
  <2>1. Placed(book, QuotesOf(book, s, side), p, Len(p), side, ix.expiry)
    BY <1>7 DEF Sides
  <2>2. p = IF side = "bid" THEN ix.bids ELSE ix.asks
    OBVIOUS
  <2> HIDE DEF p
  <2>3. \A n \in QuotesOf(b, s, side), k \in 1 .. Len(p) :
          b.pool[n].tick = p[k].tick /\ b.pool[n].lots >= p[k].lots => n \in Live(book) /\ SeqOf(book, n) = SeqOf(b, n)
    BY <1>10, <2>2
  <2> QED BY <2>1, <2>3 DEF p
<1> QED BY <1>9, <1>11 DEF b

\* MassQuote (mass_quote.rs): whatever the seat's chain and the payload, a call
\* that succeeds leaves the seat the payload and nothing else, one order a
\* quote and in its order; an order it could keep kept its id and so its place
\* in the queue; no other seat's orders or balances moved, and no seat's totals.
THEOREM MergedExactly == ASSUME FreedSeq \notin CancelIds PROVE Spec => MassQuoteExact
<1> DEFINE A ==
      Merging /\ ix' = Idle =>
        /\ \A side \in Sides :
             LET p == IF side = "bid" THEN ix.bids ELSE ix.asks
                 S == QuotesOf(New, ix.seat, side)
             IN /\ Cardinality(S) = Len(p)
                /\ \A k \in 1 .. Len(p) : Honours(Kth(New, S, k), p[k], side, ix.expiry)
                /\ \A n \in QuotesOf(Old, ix.seat, side), k \in 1 .. Len(p) :
                     /\ Old.pool[n].tick = p[k].tick
                     /\ Old.pool[n].lots >= p[k].lots
                     => Survives(n)
        /\ \A n \in Live(Old) : Old.pool[n].maker # ix.seat => Survives(n) /\ Gone(n) = 0
        /\ \A s \in SeatIds, a \in Assets :
             /\ SeatTotal(New, s, a) = SeatTotal(Old, s, a)
             /\ s # ix.seat => New.seats[s] = Old.seats[s]
<1>1. ASSUME EInv, EInv', MergeHolds, [Next]_vars, committed' # committed PROVE A
  <2> SUFFICES ASSUME Merging PROVE A
    OBVIOUS
  <2>1. MergeCommit
    BY <1>1, MergeEnds
  <2>2. MergedInto(Old, book, ix) /\ New = BumpSeq(book)
    BY <1>1, <2>1, MergeLeaves DEF Old, New
  <2>3. Old \in Book /\ book \in Book /\ New \in Book /\ ix \in MassQuoteIx
    <3>1. Old \in Book /\ book \in Book
      BY <1>1, EBook DEF Old
    <3>2. New \in Book
      BY <2>2, <3>1, BumpRespects
    <3>3. ix \in MassQuoteIx
      BY <1>1, MergeRead
    <3> QED BY <3>1, <3>2, <3>3
  <2>4. New.pool = book.pool /\ New.seats = book.seats
    BY <2>2, <2>3 DEF BumpSeq, Book
  <2> HIDE DEF Old, New
  <2>5. Live(New) = Live(book) /\ \A side : QuotesOf(New, ix.seat, side) = QuotesOf(book, ix.seat, side)
    BY <2>4 DEF Live, IsLive, QuotesOf, LiveOf
  <2>6. ASSUME NEW n, n \in Live(book), SeqOf(book, n) = SeqOf(Old, n) PROVE Survives(n)
    BY <2>4, <2>6 DEF Survives, Live, IsLive, SeqOf
  <2>7. ASSUME NEW side \in Sides
        PROVE  LET p == IF side = "bid" THEN ix.bids ELSE ix.asks
                   S == QuotesOf(New, ix.seat, side)
               IN /\ Cardinality(S) = Len(p)
                  /\ \A k \in 1 .. Len(p) : Honours(Kth(New, S, k), p[k], side, ix.expiry)
                  /\ \A n \in QuotesOf(Old, ix.seat, side), k \in 1 .. Len(p) :
                       /\ Old.pool[n].tick = p[k].tick
                       /\ Old.pool[n].lots >= p[k].lots
                       => Survives(n)
    <3> DEFINE p == IF side = "bid" THEN ix.bids ELSE ix.asks
               S == QuotesOf(New, ix.seat, side)
    <3>1. /\ Placed(book, S, p, Len(p), side, ix.expiry)
          /\ \A n \in QuotesOf(Old, ix.seat, side), k \in 1 .. Len(p) :
               Old.pool[n].tick = p[k].tick /\ Old.pool[n].lots >= p[k].lots => n \in Live(book) /\ SeqOf(book, n) = SeqOf(Old, n)
      BY <2>2, <2>5, <2>7 DEF MergedInto
    <3>2. Len(p) \in Nat
      BY <2>3, PayloadQuotes
    <3>3. \A n \in S : New.pool[n].tick \in Nat
      BY <2>3, LivesAre, LiveTicks DEF QuotesOf, TickOf
    <3> HIDE DEF p, S
    <3>4. Placed(New, S, p, Len(p), side, ix.expiry)
      BY <2>4, <3>1, PlacedKept DEF LotsOf, TickOf
    <3>5. Cardinality(S) = Len(p) /\ \A k \in 1 .. Len(p) : Fit(New, Kth(New, S, k), p[k], side, ix.expiry)
      BY <3>2, <3>3, <3>4, PlacedRanks
    <3>6. \A k \in 1 .. Len(p) : Honours(Kth(New, S, k), p[k], side, ix.expiry)
      BY <3>5 DEF Fit, Honours, LotsOf, TickOf
    <3> QED BY <2>6, <3>1, <3>5, <3>6 DEF p, S
  <2>8. ASSUME NEW n \in Live(Old), Old.pool[n].maker # ix.seat PROVE Survives(n) /\ Gone(n) = 0
    <3>1. n \in Live(book) /\ SeqOf(book, n) = SeqOf(Old, n) /\ book.pool[n].lots = Old.pool[n].lots
      BY <2>2, <2>8 DEF MergedInto, Aside, MakerOf, OrderFields, SeqOf
    <3>2. Old.pool[n].lots \in Nat
      BY <2>3, LiveTicks DEF LotsOf
    <3>3. Survives(n)
      BY <2>6, <3>1
    <3> QED BY <2>4, <3>1, <3>2, <3>3 DEF Gone
  <2>9. \A s \in SeatIds, a \in Assets :
          /\ SeatTotal(New, s, a) = SeatTotal(Old, s, a)
          /\ s # ix.seat => New.seats[s] = Old.seats[s]
    BY <2>2, <2>4 DEF MergedInto, Aside, Even, SeatTotal
  <2> QED BY <2>7, <2>8, <2>9
<1>2. EInv /\ MergeHolds /\ [Next]_vars => (EInv /\ MergeHolds)' /\ [A]_committed
  BY <1>1, ENext, MergeNext
<1>3. Init => EInv /\ MergeHolds
  BY EInit DEF Init, Idle, MergeHolds, Merging
<1>4. Spec => [][A]_committed
  BY <1>2, <1>3, PTL DEF Spec
<1> QED BY <1>4 DEF MassQuoteExact

-----------------------------------------------------------------------------
(* What the rounding of fees spares a taker                                *)

\* A fee rounded down spares less than an atom, and nothing at a rate of zero.
LEMMA RateSpares ==
  ASSUME NEW cost \in Nat, NEW f \in Nat, NEW D \in Nat \ {0}
  PROVE  LET r == cost * f - ((cost * f) \div D) * D
         IN r \in 0 .. (IF f = 0 THEN 0 ELSE D - 1) /\ (cost * f) \div D \in Nat
<1> DEFINE x == cost * f
<1>1. x \in Nat /\ (f = 0 => x = 0)
  BY Products
<1> HIDE DEF x
<1>2. x - (x \div D) * D \in 0 .. D - 1 /\ x \div D \in Nat
  BY <1>1
<1>3. CASE f = 0
  <2>1. x \div D = 0
    BY <1>1, <1>3
  <2>2. (x \div D) * D = 0
    BY <2>1
  <2> QED BY <1>1, <1>2, <1>3, <2>2 DEF x
<1>4. CASE f # 0
  BY <1>2, <1>4 DEF x
<1> QED BY <1>3, <1>4

\* After a fill that bought all the budget pays for, what is left pays for less
\* than a lot and the part of an atom that was spared.
LEMMA BudgetShort ==
  ASSUME NEW B \in Nat, NEW D \in Nat \ {0}, NEW f \in Nat, NEW p \in Nat \ {0}, NEW n \in Nat,
         n = ((B * D) \div (D + f)) \div p
  PROVE  LET cost == p * n
         IN (B - cost - (cost * f) \div D) * D < p * (D + f) + (IF f = 0 THEN 0 ELSE D - 1)
<1> DEFINE x    == B * D
           W    == D + f
           q    == x \div W
           cost == p * n
           fee  == (cost * f) \div D
           r    == cost * f - fee * D
<1>1. x \in Nat /\ W \in Nat \ {0} /\ cost \in Nat
  BY Products
<1>2. q \in Nat
  BY <1>1, QuotientBound
<1>3. r \in 0 .. (IF f = 0 THEN 0 ELSE D - 1) /\ fee \in Nat
  BY <1>1, RateSpares
<1>4. q < (n + 1) * p
  <2> HIDE DEF q
  <2> QED BY <1>2, DivLess DEF q
<1>5. (n + 1) * p = cost + p /\ (n + 1) * p \in Nat
  BY Products
<1>6. x < (cost + p) * W
  <2> HIDE DEF x, W, cost
  <2> QED BY <1>1, <1>4, <1>5, DivLess DEF q
<1> HIDE DEF q
<1>7. (cost + p) * W = cost * D + cost * f + p * W
  BY <1>1
<1>8. (B - cost - fee) * D = x - cost * D - fee * D
  <2> HIDE DEF cost, fee
  <2> QED BY <1>1, <1>3
<1>9. cost * D \in Nat /\ cost * f \in Nat /\ p * W \in Nat /\ fee * D \in Nat
  BY <1>1, <1>3, Products
<1>10. x - cost * D - fee * D < p * W + r
  <2> HIDE DEF x, W, cost, fee
  <2> QED BY <1>1, <1>6, <1>7, <1>9 DEF r
<1>11. (B - cost - fee) * D < p * W + (IF f = 0 THEN 0 ELSE D - 1)
  <2> DEFINE e == IF f = 0 THEN 0 ELSE D - 1
             y == x - cost * D - fee * D
  <2>1. e \in Int /\ r \in Int /\ r <= e
    BY <1>3
  <2>2. y \in Int
    BY <1>1, <1>9
  <2> HIDE DEF e, y, r, x, W, cost, fee
  <2>3. y < p * W + r
    BY <1>10 DEF y
  <2>4. y < p * W + e
    BY <1>9, <2>1, <2>2, <2>3
  <2> QED BY <1>8, <2>4 DEF y, e
<1> QED BY <1>11 DEF cost, fee, W

\* A fill out of so little is a single lot, and leaves nothing to spend.
LEMMA LastLot ==
  ASSUME NEW B \in Nat, NEW D \in Nat \ {0}, NEW f \in Nat, NEW p \in Nat \ {0}, NEW n \in Nat \ {0},
         n <= ((B * D) \div (D + f)) \div p,
         B * D < p * (D + f) + (IF f = 0 THEN 0 ELSE D - 1)
  PROVE  LET cost == p * n
         IN (B - cost - (cost * f) \div D) * D < D + f
<1> DEFINE x    == B * D
           W    == D + f
           q    == x \div W
           cost == p * n
           fee  == (cost * f) \div D
           r    == cost * f - fee * D
<1>1. x \in Nat /\ W \in Nat \ {0} /\ cost \in Nat /\ W >= D
  BY Products
<1>2. q \in Nat /\ q * W <= x
  BY <1>1, QuotientBound
<1>3. r \in 0 .. (IF f = 0 THEN 0 ELSE D - 1) /\ fee \in Nat
  BY <1>1, RateSpares
<1>4. q \div p \in Nat /\ (q \div p) * p <= q
  BY <1>2, QuotientBound
<1>5. cost <= q
  <2>1. n * p <= (q \div p) * p
    BY <1>4, TimesMonotone
  <2>2. cost = n * p /\ n * p \in Nat /\ (q \div p) * p \in Nat
    BY <1>4, Products
  <2> QED BY <1>2, <1>4, <2>1, <2>2
<1> HIDE DEF q
<1>6. cost * W <= x
  <2>1. cost * W <= q * W
    BY <1>1, <1>2, <1>5, TimesMonotone
  <2>2. cost * W \in Nat /\ q * W \in Nat
    BY <1>1, <1>2, Products
  <2> QED BY <1>1, <1>2, <2>1, <2>2
<1>7. p * W \in Nat /\ W <= p * W
  <2>1. 1 * W <= p * W
    BY <1>1, TimesMonotone
  <2> HIDE DEF W
  <2> QED BY <1>1, <2>1, Products
<1>8. n = 1
  <2> SUFFICES ASSUME n # 1 PROVE FALSE
    OBVIOUS
  <2>1. (p + p) <= cost
    <3>1. 2 * p <= n * p
      BY TimesMonotone
    <3> QED BY <3>1
  <2>2. (p + p) * W <= cost * W
    BY <1>1, <2>1, TimesMonotone
  <2>3. (p + p) * W = p * W + p * W
    BY <1>1
  <2>4. cost * W \in Nat
    BY <1>1, Products
  <2>5. x < p * W + (IF f = 0 THEN 0 ELSE D - 1)
    OBVIOUS
  <2> DEFINE pw == p * W
             cw == cost * W
  <2> HIDE DEF pw, cw, x, W, cost
  <2> QED BY <1>1, <1>6, <1>7, <2>2, <2>3, <2>4, <2>5 DEF pw, cw
<1>9. cost = p
  BY <1>8
<1>10. f # 0
  <2> DEFINE pw == p * W
  <2>1. pw \in Nat /\ pw <= x
    BY <1>6, <1>7, <1>9
  <2>2. f = 0 => x < pw + 0
    OBVIOUS
  <2> HIDE DEF pw, x
  <2> QED BY <1>1, <2>1, <2>2
<1>11. (B - cost - fee) * D = x - cost * D - fee * D
  <2> HIDE DEF cost, fee
  <2> QED BY <1>1, <1>3
<1>12. cost * D \in Nat /\ cost * f \in Nat /\ fee * D \in Nat
  BY <1>1, <1>3, Products
<1>13. p * W = cost * D + cost * f
  BY <1>1, <1>9
<1>14. x < p * W + (D - 1)
  BY <1>10
<1>15. (B - cost - fee) * D < (D - 1) + (D - 1)
  <2> HIDE DEF x, W, cost, fee
  <2>1. r \in Int /\ r <= D - 1
    BY <1>3, <1>10
  <2>2. x - cost * D - fee * D < (D - 1) + r
    BY <1>1, <1>12, <1>13, <1>14, <1>7 DEF r
  <2> QED BY <1>1, <1>11, <1>12, <2>1, <2>2
<1>16. B - cost - fee <= 1
  <2> DEFINE y == B - cost - fee
  <2>1. y \in Int
    BY <1>1, <1>3
  <2> HIDE DEF y
  <2> SUFFICES ASSUME y >= 2 PROVE FALSE
    BY <2>1 DEF y
  <2>2. 2 * D <= y * D
    BY <2>1, TimesMonotone
  <2> QED BY <1>15, <2>1, <2>2 DEF y
<1>17. (B - cost - fee) * D <= D
  <2> DEFINE y == B - cost - fee
  <2>1. y \in Int /\ y <= 1
    BY <1>1, <1>3, <1>16
  <2> HIDE DEF y
  <2>2. CASE y = 1
    BY <2>2 DEF y
  <2>3. CASE y <= 0
    <3>1. PICK e \in Nat : y = 0 - e
      <4>1. 0 - y \in Nat /\ y = 0 - (0 - y)
        BY <2>1, <2>3
      <4> QED BY <4>1
    <3>2. y * D = 0 - e * D /\ e * D \in Nat
      BY <3>1
    <3> QED BY <3>2 DEF y
  <2> QED BY <2>1, <2>2, <2>3
<1>18. (B - cost - fee) * D \in Int
  BY <1>1, <1>3, Products
<1> QED BY <1>10, <1>17, <1>18 DEF cost, fee, W

\* Which pays for no lot.
LEMMA BuysNone ==
  ASSUME NEW B \in Nat, NEW D \in Nat \ {0}, NEW f \in Nat, NEW p \in Nat \ {0}, B * D < D + f
  PROVE  ((B * D) \div (D + f)) \div p = 0
<1>1. B * D \in Nat
  BY Products
<1>2. (B * D) \div (D + f) = 0
  <2> DEFINE x == B * D
  <2> HIDE DEF x
  <2> QED BY <1>1 DEF x
<1> QED BY <1>2

-----------------------------------------------------------------------------
(* The fees of a take in flight                                            *)

\* The orders take i has filled from b to c, what the rounding of their fees
\* has spared the taker, and what is left of its budget.
Answering(b, c, i, now) == {n \in Live(b) : Fills(b, c, i, now)[n] > 0}
Spare(b, i)          == i.quote * b.feeBps - i.fee * FeeDenominator
BudgetLeft(i)        == i.maxQuote - i.quote - i.fee

\* The budget has been spent on order n, but for what rounding may have spared.
Short(b, i, n) ==
  /\ i.maxQuote # U64Max
  /\ BudgetLeft(i) * FeeDenominator <
       (TickOf(b, n) * TickSize) * (FeeDenominator + b.feeBps) + (IF b.feeBps = 0 THEN 0 ELSE FeeDenominator - 1)

\* No more fees are spared than orders were filled, and one more only when the
\* budget is spent. A filled order that is still there ends the take.
Sparing(b, c, i, now) ==
  LET count == Cardinality(Answering(b, c, i, now))
  IN /\ 0 <= Spare(b, i)
     /\ \/ /\ Spare(b, i) <= (FeeDenominator - 1) * count
           /\ \A n \in Answering(b, c, i, now) \cap Live(c) : i.lots = i.maxLots \/ Short(b, i, n)
        \/ /\ i.maxQuote # U64Max
           /\ Spare(b, i) <= (FeeDenominator - 1) * (count + 1)
           /\ BudgetLeft(i) * FeeDenominator < FeeDenominator + b.feeBps

SparingHolds == Taking => Sparing(committed.book, book, ix, slot)

\* At first nothing is filled,
LEMMA SparingBegins ==
  ASSUME NEW b \in Book, NEW i, i.quote = 0, i.fee = 0, NEW now
  PROVE  Sparing(b, b, i, now)
<1>1. \A n \in Live(b) : n \in Nodes /\ LotsOf(b, n) - Left(b, n) = 0
  BY LiveTicks DEF Left
<1>2. Answering(b, b, i, now) = {}
  BY <1>1 DEF Answering, Fills
<1>3. Cardinality(Answering(b, b, i, now)) = 0
  BY <1>2, FS_EmptySet
<1>4. b.feeBps \in Nat /\ FeeDenominator \in Nat
  BY ProgramAssumption DEF Book
<1>5. Spare(b, i) = 0
  BY <1>4 DEF Spare
<1>6. Spare(b, i) <= (FeeDenominator - 1) * 0
  BY <1>4, <1>5
<1> QED BY <1>2, <1>3, <1>5, <1>6 DEF Sparing

\* an order ended for another reason costs no fee,
LEMMA SparingKeep ==
  ASSUME NEW b \in Book, NEW c \in Book, NEW d \in Book, NEW k \in Live(b), NEW x \in Nat, Drawn(c, d, k, x),
         NEW i, NEW now, Sparing(b, c, i, now), ~Offers(b, k, i, now), NEW j, SameTake(i, j),
         j.lots = i.lots, j.quote = i.quote, j.fee = i.fee, j.maxLots = i.maxLots, j.maxQuote = i.maxQuote
  PROVE  Sparing(b, d, j, now)
<1>1. Fills(b, d, j, now) = Fills(b, c, i, now)
  BY FillsKeep
<1>2. Answering(b, d, j, now) = Answering(b, c, i, now)
  BY <1>1 DEF Answering
<1>3. Spare(b, j) = Spare(b, i) /\ BudgetLeft(j) = BudgetLeft(i)
  BY DEF Spare, BudgetLeft
<1>4. \A n : Short(b, i, n) => Short(b, j, n)
  BY <1>3 DEF Short
<1>5. Live(d) \subseteq Live(c)
  BY DEF Drawn
<1> QED BY <1>2, <1>3, <1>4, <1>5 DEF Sparing

\* A walk in turn leaves at most one filled order standing: the one it fills.
LEMMA OneOpen ==
  ASSUME NEW b \in Book, Sound(b), MaxOrderIds <= FreedSeq, NEW i, NEW now, NEW c, Walked(b, c, i, now),
         NEW d \in Book, NEW j, SameTake(i, j), Walked(b, d, j, now),
         NEW k \in Live(b), Offers(b, k, i, now), k \in Live(c), Hit(b, d, k),
         NEW n \in Live(b), Offers(b, n, i, now), n \in Live(d), Hit(b, c, n)
  PROVE  n = k
<1>1. /\ \A m : Offers(b, m, j, now) <=> Offers(b, m, i, now)
      /\ \A m, l : Outranks(b, j, m, l) <=> Outranks(b, i, m, l)
  BY DEF SameTake, BookSide, Offers, Better, Outranks
<1>2. ~Outranks(b, i, n, k)
  BY <1>1 DEF Walked
<1>3. ~Outranks(b, i, k, n)
  BY DEF Walked
<1>4. TickOf(b, k) \in Nat /\ TickOf(b, n) \in Nat /\ SeqOf(b, k) \in Nat /\ SeqOf(b, n) \in Nat
  BY LiveTicks, OrderTypes
<1>5. SeqOf(b, k) = SeqOf(b, n)
  BY <1>2, <1>3, <1>4 DEF Outranks, Better
<1>6. PICK r : Dated(b, r)
  BY DEF Sound, Listed
<1> QED BY <1>5, <1>6 DEF Dated

\* The orders filled are those filled before and the one filled now.
LEMMA ServedMore ==
  ASSUME NEW b \in Book, NEW c \in Book, Slimmed(b, c), NEW d \in Book, NEW k \in Live(b), NEW x \in Nat \ {0},
         Drawn(c, d, k, x), NEW i, NEW now, Offers(b, k, i, now), NEW j, SameTake(i, j)
  PROVE  /\ Answering(b, d, j, now) = Answering(b, c, i, now) \cup {k}
         /\ IsFiniteSet(Answering(b, c, i, now)) /\ Cardinality(Answering(b, c, i, now)) \in Nat
         /\ Cardinality(Answering(b, d, j, now)) =
              Cardinality(Answering(b, c, i, now)) + IF k \in Answering(b, c, i, now) THEN 0 ELSE 1
         /\ \A n \in Answering(b, c, i, now) : Offers(b, n, i, now) /\ Hit(b, c, n)
         /\ Hit(b, d, k)
<1> DEFINE f == Fills(b, c, i, now)
           g == Fills(b, d, j, now)
           S == Answering(b, c, i, now)
<1>1. /\ \A n \in Nodes : n # k => g[n] = f[n]
      /\ g[k] = f[k] + x
  BY FillsOne
<1>2. IsFiniteSet(Live(b)) /\ \A n \in Live(b) : n \in Nodes /\ f[n] \in Int
  BY FillsTypes
<1>3. \A n \in Live(b) : /\ n \in Nodes /\ LotsOf(b, n) \in Nat /\ Left(b, n) \in Nat
                         /\ Left(c, n) \in Nat /\ Left(c, n) <= Left(b, n)
  BY LiveTicks, LeftTypes DEF Slimmed
<1>4. \A n \in Live(b) : f[n] >= 0 /\ (f[n] > 0 => Offers(b, n, i, now) /\ Hit(b, c, n))
  <2> SUFFICES ASSUME NEW n \in Live(b) PROVE f[n] >= 0 /\ (f[n] > 0 => Offers(b, n, i, now) /\ Hit(b, c, n))
    OBVIOUS
  <2>1. f[n] = IF Offers(b, n, i, now) THEN LotsOf(b, n) - Left(c, n) ELSE 0
    BY <1>3 DEF Fills
  <2>2. Left(b, n) = LotsOf(b, n)
    BY DEF Left
  <2> HIDE DEF f
  <2>3. CASE Offers(b, n, i, now)
    <3>1. f[n] = Left(b, n) - Left(c, n)
      BY <2>1, <2>2, <2>3
    <3> QED BY <1>3, <2>2, <2>3, <3>1 DEF Hit
  <2>4. CASE ~Offers(b, n, i, now)
    BY <2>1, <2>4
  <2> QED BY <2>3, <2>4
<1>5. Hit(b, d, k)
  <2>1. Left(d, k) = Left(c, k) - x
    BY <1>3 DEF Drawn
  <2> QED BY <1>3, <2>1 DEF Hit
<1> HIDE DEF f, g
<1>6. Answering(b, d, j, now) = S \cup {k}
  BY <1>1, <1>2, <1>4 DEF Answering, f, g
<1>7. IsFiniteSet(S)
  BY <1>2, FS_Subset DEF Answering
<1> HIDE DEF S
<1>8. Cardinality(S) \in Nat /\ Cardinality(S \cup {k}) = Cardinality(S) + IF k \in S THEN 0 ELSE 1
  <2>1. Cardinality(S) \in Nat
    BY <1>7, FS_CardinalityType
  <2>2. Cardinality(S \cup {k}) = IF k \in S THEN Cardinality(S) ELSE Cardinality(S) + 1
    BY <1>7, FS_AddElement
  <2> QED BY <2>1, <2>2
<1>9. \A n \in S : Offers(b, n, i, now) /\ Hit(b, c, n)
  BY <1>4 DEF S, Answering, f
<1> QED BY <1>5, <1>6, <1>7, <1>8, <1>9 DEF S

LEMMA Spread == \A u, v, w \in Int : (u + v) * w = u * w + v * w /\ u * w \in Int /\ v * w \in Int
OBVIOUS

\* What i can still buy of order n, fee included.
BuysOf(b, i, n) ==
  ((BudgetLeft(i) * FeeDenominator) \div (FeeDenominator + b.feeBps)) \div (TickOf(b, n) * TickSize)

\* and a fill takes a whole order, or all that was wanted, or all the budget
\* buys; the budget buys of one order at most twice.
LEMMA SparingFill ==
  ASSUME NEW b \in Book, Sound(b), MaxOrderIds <= FreedSeq, NEW i, NEW now, NEW c \in Book, Walked(b, c, i, now),
         NEW d \in Book, NEW j, SameTake(i, j), Walked(b, d, j, now), Sparing(b, c, i, now),
         NEW k \in Live(b), k \in Live(c), Offers(b, k, i, now), TickOf(b, k) > 0,
         NEW x \in Nat \ {0}, Drawn(c, d, k, x), k \in Live(d) => LotsOf(d, k) > 0,
         i.lots \in Nat, i.maxLots \in Nat, i.lots < i.maxLots, i.quote \in Nat, i.fee \in Nat, i.maxQuote \in Nat,
         j.lots = i.lots + x, j.quote = i.quote + Notional(TickOf(b, k), x),
         j.fee = i.fee + (Notional(TickOf(b, k), x) * b.feeBps) \div FeeDenominator,
         j.maxLots = i.maxLots, j.maxQuote = i.maxQuote,
         i.maxQuote # U64Max => i.quote + i.fee <= i.maxQuote /\ x <= BuysOf(b, i, k),
         x = LotsOf(c, k) \/ x = i.maxLots - i.lots \/ (i.maxQuote # U64Max /\ x = BuysOf(b, i, k))
  PROVE  Sparing(b, d, j, now)
<1> DEFINE D    == FeeDenominator
           f    == b.feeBps
           p    == TickOf(b, k) * TickSize
           cost == Notional(TickOf(b, k), x)
           fee  == (cost * f) \div D
           r    == cost * f - fee * D
           e    == IF f = 0 THEN 0 ELSE D - 1
           S    == Answering(b, c, i, now)
           T    == Answering(b, d, j, now)
           B    == BudgetLeft(i)
           sp   == Spare(b, i)
           cn   == Cardinality(S)
<1>1. D \in Nat \ {0} /\ f \in Nat /\ TickSize \in Nat \ {0} /\ U64Max \in Nat
  BY ProgramAssumption, BookAssumption DEF Book
<1>2. p \in Nat \ {0} /\ cost = p * x /\ cost \in Nat
  <2> DEFINE t == TickOf(b, k)
  <2>1. t \in Nat \ {0} /\ x \in Nat
    BY LiveTicks
  <2> HIDE DEF t
  <2>2. t * TickSize \in Nat \ {0}
    <3>1. 1 * TickSize <= t * TickSize
      BY <1>1, <2>1, TimesMonotone
    <3> QED BY <1>1, <2>1, <3>1, Products
  <2>3. Notional(t, x) = (t * TickSize) * x
    BY <2>1, NotionalIs
  <2> DEFINE q == t * TickSize
  <2>4. q * x \in Nat
    <3> HIDE DEF q
    <3> QED BY <2>1, <2>2, Products DEF q
  <2> QED BY <2>2, <2>3, <2>4 DEF t
<1>3. r \in 0 .. e /\ fee \in Nat
  <2> HIDE DEF cost, D, f
  <2> QED BY <1>1, <1>2, RateSpares DEF D, f
<1>4. Spare(b, j) = sp + r /\ sp \in Int /\ r \in Int
  <2>1. j.quote = i.quote + cost /\ j.fee = i.fee + fee
    OBVIOUS
  <2> HIDE DEF cost, fee, D, f
  <2>2. i.quote \in Int /\ cost \in Int /\ i.fee \in Int /\ fee \in Int /\ f \in Int /\ D \in Int
    <3> HIDE DEF r, e, p
    <3> QED BY <1>1, <1>2, <1>3
  <2>3. /\ (i.quote + cost) * f = i.quote * f + cost * f /\ (i.fee + fee) * D = i.fee * D + fee * D
        /\ i.quote * f \in Int /\ cost * f \in Int /\ i.fee * D \in Int /\ fee * D \in Int
    BY <2>2, Spread
  <2>4. Spare(b, j) = j.quote * f - j.fee * D /\ sp = i.quote * f - i.fee * D
    BY DEF Spare, f, D
  <2> HIDE DEF sp
  <2> QED BY <2>1, <2>3, <2>4
<1>5. BudgetLeft(j) = B - cost - fee /\ B \in Int /\ (i.maxQuote # U64Max => B \in Nat)
  <2>1. j.quote = i.quote + cost /\ j.fee = i.fee + fee /\ j.maxQuote = i.maxQuote
    OBVIOUS
  <2>2. BudgetLeft(j) = j.maxQuote - j.quote - j.fee /\ B = i.maxQuote - i.quote - i.fee
    BY DEF BudgetLeft
  <2> HIDE DEF cost, fee, B
  <2> QED BY <1>2, <1>3, <2>1, <2>2
<1>6. /\ T = S \cup {k} /\ cn \in Nat /\ Cardinality(T) = cn + IF k \in S THEN 0 ELSE 1
      /\ \A n \in S : n \in Live(b) /\ Offers(b, n, i, now) /\ Hit(b, c, n)
      /\ Hit(b, d, k)
  <2>1. \A n \in S : n \in Live(b)
    BY DEF Answering
  <2>2. Slimmed(b, c)
    BY DEF Walked
  <2> QED BY <2>1, <2>2, ServedMore
<1>7. \A n \in T \cap Live(d) : n = k
  BY <1>6, OneOpen
<1>8. BuysOf(b, i, k) = ((B * D) \div (D + f)) \div p
  BY DEF BuysOf
<1> HIDE DEF T, S, B, cost, fee, r, e, p, sp, cn, D, f
<1>9. sp >= 0 /\ Spare(b, j) >= 0 /\ r <= D - 1
  <2>1. sp >= 0
    BY DEF Sparing, sp
  <2>2. e <= D - 1
    BY <1>1 DEF e
  <2>3. e \in Int
    BY <1>1 DEF e
  <2> QED BY <1>1, <1>3, <1>4, <2>1, <2>2, <2>3
<1>10. (D - 1) * (cn + 1) = (D - 1) * cn + (D - 1) /\ (D - 1) * cn \in Int /\ (D - 1) * (cn + 1) \in Int
  BY <1>1, <1>6
<1>11. sp <= (D - 1) * cn => Spare(b, j) <= (D - 1) * (cn + 1)
  BY <1>1, <1>4, <1>9, <1>10
<1>12. CASE i.maxQuote # U64Max /\ B * D < D + f
  <2>1. BuysOf(b, i, k) = 0
    BY <1>1, <1>2, <1>5, <1>8, <1>12, BuysNone
  <2> QED BY <1>12, <2>1
<1>13. CASE /\ sp <= (D - 1) * cn
            /\ \A n \in S \cap Live(c) : i.lots = i.maxLots \/ Short(b, i, n)
  <2>1. CASE k \in S
    <3>1. Short(b, i, k)
      BY <1>13, <2>1
    <3>2. i.maxQuote # U64Max /\ B * D < p * (D + f) + e
      BY <3>1 DEF Short, B, p, D, f, e
    <3>3. x <= ((B * D) \div (D + f)) \div p
      BY <1>8, <3>2
    <3>4. (B - p * x - ((p * x) * f) \div D) * D < D + f
      BY <1>1, <1>2, <1>5, <3>2, <3>3, LastLot DEF e
    <3>5. BudgetLeft(j) * D < D + f
      BY <1>2, <1>5, <3>4 DEF fee
    <3>6. Cardinality(T) = cn
      BY <1>6, <2>1
    <3> QED BY <1>9, <1>11, <1>13, <3>2, <3>5, <3>6 DEF Sparing, T, D, f
  <2>2. CASE k \notin S
    <3>1. Cardinality(T) = cn + 1
      BY <1>6, <2>2
    <3>2. ASSUME k \in Live(d) PROVE j.lots = j.maxLots \/ Short(b, j, k)
      <4>1. x # LotsOf(c, k)
        <5>1. k \in Nodes /\ LotsOf(d, k) \in Nat /\ LotsOf(c, k) \in Nat
          BY <3>2, LiveTicks
        <5>2. LotsOf(d, k) = LotsOf(c, k) - x
          BY <3>2, <5>1 DEF Drawn, Left
        <5> QED BY <3>2, <5>1, <5>2
      <4>2. CASE x = i.maxLots - i.lots
        BY <4>2
      <4>3. CASE i.maxQuote # U64Max /\ x = BuysOf(b, i, k)
        <5>1. (B - p * x - ((p * x) * f) \div D) * D < p * (D + f) + e
          BY <1>1, <1>2, <1>5, <1>8, <4>3, BudgetShort DEF e
        <5>2. BudgetLeft(j) * D < p * (D + f) + e
          BY <1>2, <1>5, <5>1 DEF fee
        <5> QED BY <4>3, <5>2 DEF Short, p, D, f, e
      <4> QED BY <4>1, <4>2, <4>3
    <3>3. Spare(b, j) <= (D - 1) * Cardinality(T)
      BY <1>11, <1>13, <3>1
    <3> QED BY <1>7, <1>9, <3>2, <3>3 DEF Sparing, T, D
  <2> QED BY <2>1, <2>2
<1> QED BY <1>12, <1>13 DEF Sparing, S, cn, sp, B, D, f

LEMMA SparingStart ==
  ASSUME EInv, ix = Idle, NEW i, i.quote = 0, i.fee = 0, book' = book, committed' = committed, ix' = i
  PROVE  SparingHolds'
<1>1. book \in Book /\ committed.book = book
  BY EBook DEF EInv, Since
<1>2. Sparing(book, book, i, slot')
  BY <1>1, SparingBegins
<1>3. committed'.book = book' /\ book' = book
  BY <1>1
<1> QED BY <1>2, <1>3 DEF SparingHolds

LEMMA TakerSpares == ASSUME EInv, TakerNext PROVE SparingHolds'
<1>1. \A kind, s, side, limit, lots, quote, policy, expiry, minOut, delta :
        LET i == Take(kind, s, side, limit, lots, quote, policy, expiry, minOut, delta)
        IN i.quote = 0 /\ i.fee = 0
  BY DEF Take
<1>2. ASSUME NEW s \in SeatIds, NEW side \in Sides, NEW limit \in InTicks, NEW lots \in InLots,
             NEW policy \in Policies, NEW expiry \in InExpiries,
             BeginPlaceLimit(s, side, limit, lots, policy, expiry)
      PROVE  SparingHolds'
  BY <1>1, <1>2, SparingStart DEF BeginPlaceLimit, Continue, Starts
<1>3. ASSUME NEW s \in SeatIds, NEW side \in Sides, NEW limit \in InTicks, NEW lots \in TakeLots,
             NEW minOut \in MinOuts, NEW policy \in Policies,
             BeginPlaceTake(s, side, limit, lots, minOut, policy)
      PROVE  SparingHolds'
  BY <1>1, <1>3, SparingStart DEF BeginPlaceTake, Continue, Starts
<1>4. ASSUME NEW side \in Sides, NEW limit \in InTicks, NEW amount \in SwapAmounts,
             NEW minOut \in MinOuts, BeginSwap(side, limit, amount, minOut)
      PROVE  SparingHolds'
  <2>1. PICK delta \in Received(amount) : SwapWith(side, limit, delta, minOut)
    BY <1>4 DEF BeginSwap
  <2> QED BY <1>1, <2>1, SparingStart DEF SwapWith, Starts
<1> QED BY <1>2, <1>3, <1>4 DEF TakerNext

LEMMA KillSpares ==
  ASSUME EInv, Walking, SparingHolds, Taking, AtOrder(ix), HeadExpired(ix) \/ HeadIsOwn(ix),
         Refundable(book, TakeHead(book, ix)),
         Continue(KillOrder(book, TakeHead(book, ix)), [ix EXCEPT !.at = TakeLevel(book, ix)])
  PROVE  SparingHolds'
<1> DEFINE j == [ix EXCEPT !.at = TakeLevel(book, ix)]
           k == TakeHead(book, ix)
           d == KillOrder(book, k)
           b == committed.book
<1>1. SInv /\ book \in Book /\ b \in Book /\ IInv /\ Sound(book)
  BY EBook DEF EInv, SInv, Structured
<1>2. Walked(b, book, ix, slot) /\ Sparing(b, book, ix, slot)
  BY DEF Walking, SparingHolds
<1>3. ix \in TakeIx
  BY <1>1, TakeType
<1>4. SameTake(ix, j) /\ j.lots = ix.lots /\ j.quote = ix.quote /\ j.fee = ix.fee
      /\ j.maxLots = ix.maxLots /\ j.maxQuote = ix.maxQuote
  BY <1>3 DEF TakeIx, SameTake
<1>5. Continue(d, j)
  OBVIOUS
<1>6. k \in Live(book) /\ k \in Live(b) /\ ~Offers(b, k, ix, slot)
  BY <1>1, <1>2, HeadOffers DEF Walked
<1> HIDE DEF j, k, b
<1>7. d \in Book /\ Drawn(book, d, k, LotsOf(book, k)) /\ LotsOf(book, k) \in Nat
  <2>1. k \in Links /\ LotsOf(book, k) \in Nat
    BY <1>1, <1>6, LiveTicks
  <2>2. d \in Book
    BY <1>1, <2>1, KillOrderKept, KeptBook DEF k
  <2>3. Drawn(book, d, k, LotsOf(book, k))
    BY <1>1, <1>6, KillDraws DEF k
  <2> QED BY <2>1, <2>2, <2>3
<1> HIDE DEF d
<1>8. Sparing(b, d, j, slot)
  BY <1>1, <1>2, <1>4, <1>6, <1>7, SparingKeep
<1>9. book' = d /\ ix' = j /\ committed'.book = b /\ slot' = slot
  BY <1>5 DEF Continue, b
<1> QED BY <1>8, <1>9 DEF SparingHolds

LEMMA FillSpares ==
  ASSUME EInv, EInv', Walking, Walking', SparingHolds, SwapInv, MaxOrderIds <= FreedSeq, CappingLossless, TakeFill
  PROVE  SparingHolds'
<1> DEFINE tick == TakeLevel(book, ix)
           k    == TakeHead(book, ix)
           x    == FillLots(book, ix)
           side == BookSide(ix)
           d    == FillOrder(book, side, tick, k, x)
           j    == [ix EXCEPT !.at = tick, !.lots = @ + x, !.quote = @ + Notional(tick, x),
                              !.fee = @ + FeeOn(book, Notional(tick, x))]
           b    == committed.book
           buys == BuysOf(b, ix, k)
<1>1. /\ Taking /\ AtOrder(ix) /\ x > 0 /\ Continue(d, j) /\ ~HeadExpired(ix) /\ ~HeadIsOwn(ix)
      /\ CanUnlock(book, MakerOf(book, k), LockedAsset(side), LockedAtoms(side, tick, x))
  BY DEF TakeFill, MakerOf
<1>2. SInv /\ book \in Book /\ b \in Book /\ IInv /\ Sound(book) /\ Sound(b)
  BY EBook DEF EInv, SInv, Structured
<1>3. Walked(b, book, ix, slot) /\ Sparing(b, book, ix, slot)
  BY <1>1 DEF Walking, SparingHolds
<1>4. k \in Live(book) /\ side = SideOf(book, k) /\ tick = TickOf(book, k)
  BY <1>1, <1>2, TakeHeadLive
<1>5. x \in Nat \ {0} /\ x <= LotsOf(book, k)
  BY <1>1, <1>2, FillLotsType DEF LotsOf
<1>6. /\ ix \in TakeIx /\ ix.lots \in Nat /\ ix.maxLots \in Nat /\ ix.quote \in Nat /\ ix.fee \in Nat
      /\ ix.maxQuote \in Nat /\ ix.lots < ix.maxLots
  <2>1. /\ ix \in TakeIx /\ ix.lots \in Nat /\ ix.maxLots \in Nat /\ ix.quote \in Nat /\ ix.fee \in Nat
        /\ ix.maxQuote \in Nat
    BY <1>1, <1>2, TakeType
  <2>2. ix.lots < ix.maxLots
    BY <1>1, <2>1 DEF AtOrder, Remaining
  <2> QED BY <2>1, <2>2
<1>7. k \in Live(b) /\ TickOf(b, k) = tick /\ Offers(b, k, ix, slot)
  BY <1>1, <1>2, <1>3, HeadOffers DEF Walked
<1>8. b.feeBps = book.feeBps
  BY <1>3 DEF Walked, Slimmed
<1>9. tick \in Nat /\ tick > 0
  BY <1>1, <1>2, TakeHeadType
<1>10. /\ ix.maxQuote # U64Max => ix.quote + ix.fee <= ix.maxQuote /\ x <= buys
       /\ x = LotsOf(book, k) \/ x = ix.maxLots - ix.lots \/ (ix.maxQuote # U64Max /\ x = buys)
  <2>1. LotsOf(book, k) \in Nat /\ Remaining(ix) \in Int /\ Remaining(ix) = ix.maxLots - ix.lots
    BY <1>2, <1>4, <1>6, LiveTicks DEF Remaining
  <2>2. CASE ix.maxQuote = U64Max
    <3>1. x = Least(LotsOf(book, k), Remaining(ix))
      BY <2>2 DEF FillLots, LotsOf
    <3> HIDE DEF x, buys
    <3> QED BY <2>1, <2>2, <3>1 DEF Least
  <2>3. CASE ix.maxQuote # U64Max
    <3>1. ix.quote + ix.fee <= ix.maxQuote
      BY <1>1, <2>3 DEF SwapInv, WithinBudget
    <3>2. x = Least(Least(LotsOf(book, k), Remaining(ix)), buys)
      BY <1>1, <1>7, <1>8, <2>3 DEF CappingLossless, BuysOf, BudgetLeft, LotsOf
    <3>3. buys \in Int
      <4>1. b.feeBps \in Nat /\ FeeDenominator \in Nat \ {0} /\ TickSize \in Nat \ {0}
        BY <1>2, ProgramAssumption, BookAssumption DEF Book
      <4>2. BudgetLeft(ix) \in Int /\ FeeDenominator + b.feeBps \in Nat \ {0}
        BY <1>6, <4>1 DEF BudgetLeft
      <4>3. TickOf(b, k) * TickSize \in Nat \ {0}
        <5> DEFINE t == TickOf(b, k)
        <5>1. t \in Nat /\ 1 <= t
          BY <1>7, <1>9
        <5> HIDE DEF t
        <5>2. 1 * TickSize <= t * TickSize
          BY <4>1, <5>1, TimesMonotone
        <5>3. t * TickSize \in Nat
          BY <4>1, <5>1, Products
        <5> QED BY <4>1, <5>2, <5>3 DEF t
      <4>4. BudgetLeft(ix) * FeeDenominator \in Int
        BY <4>1, <4>2, Products
      <4>5. (BudgetLeft(ix) * FeeDenominator) \div (FeeDenominator + b.feeBps) \in Int
        BY <4>2, <4>4, Products
      <4> QED BY <4>3, <4>5, Products DEF BuysOf
    <3> HIDE DEF x, buys
    <3>4. Least(LotsOf(book, k), Remaining(ix)) \in Int
      BY <2>1 DEF Least
    <3>5. x = Least(LotsOf(book, k), Remaining(ix)) \/ x = buys
      BY <3>2 DEF Least
    <3>6. x <= buys
      BY <3>2, <3>3, <3>4 DEF Least
    <3> QED BY <2>1, <2>3, <3>1, <3>5, <3>6 DEF Least
  <2> QED BY <2>2, <2>3
<1>11. /\ SameTake(ix, j) /\ j.lots = ix.lots + x /\ j.quote = ix.quote + Notional(tick, x)
       /\ j.fee = ix.fee + (Notional(tick, x) * b.feeBps) \div FeeDenominator
       /\ j.maxLots = ix.maxLots /\ j.maxQuote = ix.maxQuote
  <2> DEFINE nt == Notional(tick, x)
             fe == FeeOn(book, nt)
  <2>1. fe = (nt * b.feeBps) \div FeeDenominator
    BY <1>8 DEF FeeOn
  <2> HIDE DEF nt, fe, tick, x
  <2> QED BY <1>6, <2>1 DEF TakeIx, SameTake, nt, fe
<1>12. book' = d /\ ix' = j /\ committed'.book = b /\ slot' = slot
  BY <1>1 DEF Continue
<1>13. Drawn(book, d, k, x)
  <2> HIDE DEF x, side, tick, k
  <2> QED BY <1>1, <1>2, <1>4, <1>5, FillDraws
<1>14. d \in Book
  <2>1. side \in Sides /\ tick \in Nat /\ k \in Links /\ x \in Nat
    BY <1>2, <1>4, <1>5, LiveTicks
  <2>2. Kept(book, d)
    <3> HIDE DEF x, side, tick, k
    <3> QED BY <1>1, <1>2, <1>5, <2>1, FillOrderKept DEF LotsOf, MakerOf
  <2> QED BY <1>2, <2>2, KeptBook
<1> HIDE DEF j, x, side, tick, k, d, b, buys
<1>15. d \in Book /\ \A n \in Live(d) : LotsOf(d, n) > 0
  <2>1. Sound(book')
    BY DEF EInv, SInv, Structured
  <2> QED BY <1>12, <1>14, <2>1 DEF Sound, Housed
<1>16. Walked(b, d, j, slot)
  <2>1. ix'.op = "Take"
    BY <1>1, <1>6, <1>12 DEF TakeIx, j
  <2>2. Walked(committed'.book, book', ix', slot')
    BY <2>1 DEF Walking, Taking
  <2> QED BY <1>12, <2>2
<1>17. Sparing(b, d, j, slot)
  BY <1>2, <1>3, <1>4, <1>5, <1>6, <1>7, <1>9, <1>10, <1>11, <1>13, <1>15, <1>16, SparingFill DEF buys
<1> QED BY <1>12, <1>17 DEF SparingHolds

LEMMA SparingNext ==
  ASSUME EInv, EInv', Walking, Walking', SparingHolds, SwapInv, MaxOrderIds <= FreedSeq, CappingLossless, [Next]_vars
  PROVE  SparingHolds'
<1> SUFFICES ASSUME ix'.op = "Take" PROVE SparingHolds'
  BY DEF SparingHolds, Taking
<1>1. CASE UNCHANGED vars
  BY <1>1 DEF vars, SparingHolds, Taking
<1>2. CASE TakerNext
  BY <1>2, TakerSpares
<1>3. ~Abort
  BY DEF Abort, Idle
<1>4. CASE Taking /\ TakeExpired
  BY <1>4, KillSpares DEF TakeExpired
<1>5. CASE Taking /\ TakeOwn
  BY <1>3, <1>5, KillSpares DEF TakeOwn
<1>6. CASE Taking /\ TakeFill
  BY <1>6, FillSpares
<1> QED BY <1>1, <1>2, <1>4, <1>5, <1>6, Takes

\* The fee of a take (take), rounded down fill by fill: if capping a budget
\* before it is multiplied changes no fill, as the code's comment has it, the
\* market loses less than an atom per order filled, and once more at the order
\* that a budget ends at.
THEOREM RoundsWhenLossless ==
  ASSUME FreedSeq \notin CancelIds, MaxOrderIds <= FreedSeq PROVE Spec /\ []CappingLossless => FeesRounded
<1> DEFINE A ==
      TakeCommits =>
       /\ 0 <= Spared
       /\ Spared <= (FeeDenominator - 1)
                      * (Cardinality(Filled) + IF ix.maxQuote = U64Max THEN 0 ELSE 1)
<1>1. ASSUME EInv, Walking, SparingHolds, [Next]_vars, committed' # committed PROVE A
  <2> SUFFICES ASSUME Taking PROVE /\ 0 <= Spared
                                   /\ Spared <= (FeeDenominator - 1)
                                        * (Cardinality(Filled) + IF ix.maxQuote = U64Max THEN 0 ELSE 1)
    BY DEF TakeCommits
  <2>1. (\A n \in Nodes : Traded(n) = Fills(Old, book, ix, slot)[n]) /\ Old \in Book /\ book \in Book
        /\ Walked(Old, book, ix, slot)
    BY <1>1, TakenRead
  <2>2. Sparing(Old, book, ix, slot)
    BY <1>1 DEF SparingHolds, Old
  <2>3. Spared = Spare(Old, ix)
    BY DEF Spared, Spare
  <2>4. IInv
    BY <1>1, EBook
  <2> HIDE DEF Old
  <2>5. Filled = Answering(Old, book, ix, slot)
    BY <2>1, LiveTicks DEF Filled, Answering
  <2> DEFINE S == Answering(Old, book, ix, slot)
             cn == Cardinality(S)
             sp == Spare(Old, ix)
             D == FeeDenominator
  <2>6. cn \in Nat
    <3>1. IsFiniteSet(Live(Old))
      BY <2>1, FillsTypes
    <3>2. IsFiniteSet(S)
      BY <3>1, FS_Subset DEF Answering
    <3> HIDE DEF S
    <3> QED BY <3>2, FS_CardinalityType
  <2>7. D \in Nat \ {0} /\ sp \in Int
    <3>1. D \in Nat \ {0} /\ Old.feeBps \in Nat
      BY <2>1, ProgramAssumption DEF Book
    <3>2. ix.quote \in Nat /\ ix.fee \in Nat
      BY <2>4, TakeType
    <3>3. ix.quote * Old.feeBps \in Int /\ ix.fee * D \in Int
      BY <3>1, <3>2, Products
    <3> QED BY <3>1, <3>3 DEF Spare
  <2>8. /\ 0 <= sp
        /\ sp <= (D - 1) * cn \/ (ix.maxQuote # U64Max /\ sp <= (D - 1) * (cn + 1))
    BY <2>2 DEF Sparing
  <2> HIDE DEF S, cn, sp, D
  <2>9. (D - 1) * (cn + 1) = (D - 1) * cn + (D - 1) /\ (D - 1) * cn \in Int /\ (D - 1) * (cn + 0) = (D - 1) * cn
    BY <2>6, <2>7
  <2>10. sp <= (D - 1) * (cn + IF ix.maxQuote = U64Max THEN 0 ELSE 1)
    <3>1. CASE ix.maxQuote = U64Max
      BY <2>8, <2>9, <3>1
    <3>2. CASE ix.maxQuote # U64Max
      BY <2>7, <2>8, <2>9, <3>2
    <3> QED BY <3>1, <3>2
  <2> QED BY <2>3, <2>5, <2>8, <2>10 DEF sp, cn, S, D
<1>2. EInv /\ Walking /\ SparingHolds /\ SwapInv /\ CappingLossless /\ [Next]_vars
        => (EInv /\ Walking /\ SparingHolds)' /\ [A]_committed
  <2> SUFFICES ASSUME EInv, Walking, SparingHolds, SwapInv, CappingLossless, [Next]_vars
               PROVE  (EInv /\ Walking /\ SparingHolds)' /\ [A]_committed
    OBVIOUS
  <2>1. EInv' /\ Walking'
    BY ENext, WalkNext
  <2>2. SparingHolds'
    BY <2>1, SparingNext
  <2> QED BY <1>1, <2>1, <2>2
<1>3. Init => EInv /\ Walking /\ SparingHolds
  BY EInit DEF Init, Idle, Walking, SparingHolds, Taking
<1>4. Spec /\ []CappingLossless => [][A]_committed
  BY <1>2, <1>3, SwapInvHolds, PTL DEF Spec
<1> QED BY <1>4 DEF FeesRounded

-----------------------------------------------------------------------------
(* When capping a budget changes no fill                                   *)

\* The most that one walk step may spend pays for the largest order.
CapFits ==
  \A rate \in 0 .. MaxFeeBps :
    MaxLots * (TickLimit * TickSize)
      <= ((U64Max \div (FeeDenominator + rate)) * FeeDenominator) \div (FeeDenominator + rate)

\* A budgeted take asks for at most the largest order.
SwapSized == Taking /\ ix.maxQuote # U64Max => ix.maxLots = MaxLots

LEMMA SizedNext == ASSUME EInv, SwapSized, [Next]_vars PROVE SwapSized'
<1> SUFFICES ASSUME ix'.op = "Take" PROVE SwapSized'
  BY DEF SwapSized, Taking
<1>1. CASE UNCHANGED vars
  BY <1>1 DEF vars, SwapSized, Taking
<1>2. CASE TakerNext
  <2>1. \A kind, s, side, limit, lots, quote, policy, expiry, minOut, delta :
          LET i == Take(kind, s, side, limit, lots, quote, policy, expiry, minOut, delta)
          IN i.maxQuote = quote /\ i.maxLots = lots
    BY DEF Take
  <2>2. ASSUME NEW s \in SeatIds, NEW side \in Sides, NEW limit \in InTicks, NEW lots \in InLots,
               NEW policy \in Policies, NEW expiry \in InExpiries,
               BeginPlaceLimit(s, side, limit, lots, policy, expiry)
        PROVE  SwapSized'
    BY <2>1, <2>2 DEF BeginPlaceLimit, Continue, SwapSized
  <2>3. ASSUME NEW s \in SeatIds, NEW side \in Sides, NEW limit \in InTicks, NEW lots \in TakeLots,
               NEW minOut \in MinOuts, NEW policy \in Policies,
               BeginPlaceTake(s, side, limit, lots, minOut, policy)
        PROVE  SwapSized'
    BY <2>1, <2>3 DEF BeginPlaceTake, Continue, SwapSized
  <2>4. ASSUME NEW side \in Sides, NEW limit \in InTicks, NEW amount \in SwapAmounts,
               NEW minOut \in MinOuts, BeginSwap(side, limit, amount, minOut)
        PROVE  SwapSized'
    <3>1. PICK delta \in Received(amount) : SwapWith(side, limit, delta, minOut)
      BY <2>4 DEF BeginSwap
    <3>2. /\ ix'.maxQuote = (IF side = "bid" THEN delta ELSE U64Max)
          /\ side = "bid" => ix'.maxLots = MaxLots
      BY <2>1, <3>1 DEF SwapWith
    <3> QED BY <3>2 DEF SwapSized
  <2> QED BY <1>2, <2>2, <2>3, <2>4 DEF TakerNext
<1>3. CASE Taking /\ (TakeExpired \/ TakeOwn \/ TakeFill)
  <2>1. ix \in TakeIx
    BY <1>3, EBook, TakeType
  <2>2. ~Abort
    BY DEF Abort, Idle
  <2>3. ix'.maxQuote = ix.maxQuote /\ ix'.maxLots = ix.maxLots
    BY <1>3, <2>1, <2>2 DEF TakeExpired, TakeOwn, TakeFill, Continue, TakeIx
  <2> QED BY <1>3, <2>3 DEF SwapSized, Taking
<1> QED BY <1>1, <1>2, <1>3, Takes

LEMMA BuysAtLeast ==
  ASSUME NEW q \in Nat, NEW m \in Nat, NEW p \in Nat \ {0}, m * p <= q
  PROVE  m <= q \div p
<1>1. q \div p \in Nat /\ m * p \in Nat
  BY QuotientBound, Products
<1>2. q \div p < m => q < m * p
  BY DivLess
<1> QED BY <1>1, <1>2

LEMMA CapHolds == ASSUME IInv, SwapSized, CapFits PROVE CappingLossless
<1> SUFFICES ASSUME Taking, AtOrder(ix), ix.maxQuote # U64Max
             PROVE  LET budget == ix.maxQuote - ix.quote - ix.fee
                        whole  == FeeDenominator + book.feeBps
                    IN FillLots(book, ix) =
                         Least(Least(book.pool[TakeHead(book, ix)].lots, Remaining(ix)),
                               ((budget * FeeDenominator) \div whole) \div (TakeLevel(book, ix) * TickSize))
  BY DEF CappingLossless
<1> DEFINE budget == ix.maxQuote - ix.quote - ix.fee
           D     == FeeDenominator
           whole == D + book.feeBps
           cap   == U64Max \div whole
           t     == TakeLevel(book, ix)
           p     == t * TickSize
           fill  == Least(book.pool[TakeHead(book, ix)].lots, Remaining(ix))
           most  == MaxLots * (TickLimit * TickSize)
<1>1. /\ ix.maxQuote \in Nat /\ ix.quote \in Nat /\ ix.fee \in Nat /\ ix.lots \in Nat /\ ix.maxLots = MaxLots
      /\ t \in 1 .. TickLimit /\ book.pool[TakeHead(book, ix)].lots \in Nat /\ book.feeBps \in 0 .. MaxFeeBps
  <2>1. book \in Book /\ TakeHead(book, ix) \in Links /\ t \in 1 .. TickLimit
    BY TakeHeadType, InvGood DEF Good
  <2>2. book.pool[TakeHead(book, ix)].lots \in Nat
    BY <2>1, NodeType
  <2>3. book.feeBps \in Nat /\ book.feeBps <= MaxFeeBps
    BY InvGood DEF Good, Header, Book
  <2> QED BY <2>1, <2>2, <2>3, TakeType, ProgramAssumption DEF SwapSized
<1>2. /\ D \in Nat \ {0} /\ whole \in Nat \ {0} /\ U64Max \in Nat /\ TickSize \in Nat \ {0} /\ TickLimit \in Nat
      /\ MaxLots \in Nat
  BY <1>1, ProgramAssumption, BookAssumption
<1>3. cap \in Nat /\ budget \in Int
  <2>1. cap \in Nat
    BY <1>2, QuotientBound
  <2> QED BY <1>1, <2>1
<1>4. p \in Nat \ {0} /\ MaxLots * p <= most /\ most \in Nat /\ MaxLots * p \in Nat
  <2> HIDE DEF t
  <2>1. t \in Nat /\ 1 <= t /\ t <= TickLimit
    BY <1>1, <1>2
  <2>2. 1 * TickSize <= t * TickSize /\ t * TickSize <= TickLimit * TickSize
    BY <1>2, <2>1, TimesMonotone
  <2>3. t * TickSize \in Nat /\ TickLimit * TickSize \in Nat
    BY <1>2, <2>1, Products
  <2>4. p \in Nat \ {0}
    BY <1>2, <2>2, <2>3
  <2> DEFINE z == TickLimit * TickSize
  <2>5. p <= z /\ z \in Nat
    BY <2>2, <2>3
  <2> HIDE DEF p, z
  <2>6. p * MaxLots <= z * MaxLots
    BY <1>2, <2>4, <2>5, TimesMonotone
  <2>7. p * MaxLots = MaxLots * p /\ z * MaxLots = MaxLots * z /\ MaxLots * p \in Nat /\ MaxLots * z \in Nat
    BY <1>2, <2>4, <2>5, Products
  <2> QED BY <2>4, <2>6, <2>7 DEF z
<1>5. fill \in Int /\ fill <= MaxLots
  <2>1. Remaining(ix) \in Int /\ Remaining(ix) <= MaxLots
    BY <1>1, <1>2 DEF Remaining
  <2> QED BY <1>1, <1>2, <2>1 DEF Least
<1>6. most <= (cap * D) \div whole
  BY <1>1 DEF CapFits
<1>7. Affordable(book, ix) = (((IF budget > cap THEN cap ELSE budget) * D) \div whole) \div p
  BY DEF Affordable
<1>8. FillLots(book, ix) = Least(fill, Affordable(book, ix))
  BY DEF FillLots
<1> HIDE DEF budget, D, whole, cap, t, p, fill, most
<1>9. CASE budget > cap
  <2>1. cap * D \in Nat /\ budget \in Nat /\ budget * D \in Nat /\ cap * D <= budget * D
    <3>1. budget \in Nat /\ cap <= budget
      BY <1>3, <1>9
    <3>2. cap * D <= budget * D
      BY <1>2, <1>3, <3>1, TimesMonotone
    <3> QED BY <1>2, <1>3, <3>1, <3>2, Products
  <2> DEFINE cd == cap * D
             bd == budget * D
  <2> HIDE DEF cd, bd
  <2>2. cd \div whole \in Nat /\ (cd \div whole) * whole <= cd
    BY <1>2, <2>1, QuotientBound DEF cd
  <2>3. most * whole <= (cd \div whole) * whole
    BY <1>2, <1>4, <1>6, <2>2, TimesMonotone DEF cd
  <2>4. most * whole \in Nat /\ (cd \div whole) * whole \in Nat
    BY <1>2, <1>4, <2>2, Products
  <2>5. most * whole <= bd
    BY <2>1, <2>2, <2>3, <2>4 DEF cd, bd
  <2>6. most <= bd \div whole
    BY <1>2, <1>4, <2>1, <2>5, BuysAtLeast DEF bd
  <2>7. bd \div whole \in Nat
    BY <1>2, <2>1, QuotientBound DEF bd
  <2>8. MaxLots * p <= cd \div whole /\ MaxLots * p <= bd \div whole
    BY <1>4, <1>6, <2>2, <2>6, <2>7 DEF cd
  <2>9. MaxLots <= (cd \div whole) \div p /\ MaxLots <= (bd \div whole) \div p
    BY <1>2, <1>4, <2>2, <2>7, <2>8, BuysAtLeast
  <2>10. (cd \div whole) \div p \in Nat /\ (bd \div whole) \div p \in Nat
    BY <1>4, <2>2, <2>7, QuotientBound
  <2>11. fill <= (cd \div whole) \div p /\ fill <= (bd \div whole) \div p
    BY <1>2, <1>5, <2>9, <2>10
  <2>12. Affordable(book, ix) = (cd \div whole) \div p
    BY <1>7, <1>9 DEF cd
  <2>13. FillLots(book, ix) = Least(fill, (bd \div whole) \div p)
    BY <1>8, <2>11, <2>12 DEF Least
  <2> QED BY <2>13 DEF bd, fill, whole, D, budget, p, t
<1>10. CASE ~(budget > cap)
  <2>1. Affordable(book, ix) = ((budget * D) \div whole) \div p
    BY <1>7, <1>10
  <2> QED BY <1>8, <2>1 DEF fill, whole, D, budget, p, t
<1> QED BY <1>9, <1>10

\* Capping the quote budget before it is multiplied (take) changes no fill of
\* a market whose largest order at its highest price the cap pays for.
THEOREM CapIsLossless == ASSUME FreedSeq \notin CancelIds, CapFits PROVE Spec => []CappingLossless
<1>1. EInv /\ SwapSized /\ [Next]_vars => (EInv /\ SwapSized)'
  BY ENext, SizedNext
<1>2. Init => EInv /\ SwapSized
  BY EInit DEF Init, Idle, SwapSized, Taking
<1>3. EInv /\ SwapSized => CappingLossless
  BY EBook, CapHolds
<1> QED BY <1>1, <1>2, <1>3, PTL DEF Spec

\* So there the fees of a take (take), each rounded down, lose the market less
\* than an atom per order filled, and once more at the order a budget ends at.
THEOREM RoundsOnce ==
  ASSUME FreedSeq \notin CancelIds, MaxOrderIds <= FreedSeq, CapFits PROVE Spec => FeesRounded
BY CapIsLossless, RoundsWhenLossless

-----------------------------------------------------------------------------
(* The accounts of the abstract exchange                                   *)

\* One round of a side's walk over its levels: `it` is the line so far.
LineBody(b, side, it) ==
  [t \in b.anchor - 1 .. LastTick(b) |->
     IF t < b.anchor THEN <<>>
     ELSE IF side = "bid" THEN LevelQueue(b, side, t) \o it[t - 1]
                          ELSE it[t - 1] \o LevelQueue(b, side, t)]

LEMMA LineIsRead ==
  ASSUME NEW b, NEW side
  PROVE  SideLine(b, side) = (CHOOSE it : it = LineBody(b, side, it))[LastTick(b)]
BY Zenon DEF SideLine, LineBody

\* The lines are read from the nodes, the levels, the bits and the anchor.
SameLines(b, c) == b.pool = c.pool /\ b.levels = c.levels /\ b.bits = c.bits /\ b.anchor = c.anchor

LEMMA LinesStand ==
  ASSUME NEW b, NEW c, NEW side, SameLines(b, c)
  PROVE  SideLine(b, side) = SideLine(c, side)
<1>1. \A t : LevelQueue(b, side, t) = LevelQueue(c, side, t)
  BY SMT DEF LevelQueue, IsOccupied, SameLines
<1>2. LastTick(b) = LastTick(c)
  BY DEF LastTick, SameLines
<1>3. \A it : LineBody(b, side, it) = LineBody(c, side, it)
  BY <1>1, <1>2 DEF LineBody, SameLines
<1>4. (CHOOSE it : it = LineBody(b, side, it)) = (CHOOSE it : it = LineBody(c, side, it))
  BY <1>3
<1> QED BY <1>2, <1>4, LineIsRead

LEMMA TotalIsSum ==
  ASSUME NEW m, NEW a
  PROVE  Promised!Total(LAMBDA s : m.worth[s][a], SeatIds)
           = SumOver([s \in SeatIds |-> m.worth[s][a]], SeatIds)
<1> DEFINE g == [s \in SeatIds |-> m.worth[s][a]]
           Body(it) == [s \in SUBSET SeatIds |->
                          IF s = {} THEN 0 ELSE LET x == CHOOSE x \in s : TRUE
                                                IN m.worth[x][a] + it[s \ {x}]]
<1>1. \A it : Body(it) = SumBody(g, SeatIds, it)
  <2>1. ASSUME NEW it, NEW s \in SUBSET SeatIds PROVE Body(it)[s] = SumBody(g, SeatIds, it)[s]
    <3>1. CASE s = {}
      BY <3>1 DEF SumBody
    <3>2. CASE s # {}
      <4> DEFINE x == CHOOSE x \in s : TRUE
      <4>1. x \in SeatIds
        BY <3>2
      <4>2. Body(it)[s] = m.worth[x][a] + it[s \ {x}]
        BY <3>2, Zenon
      <4>3. SumBody(g, SeatIds, it)[s] = g[x] + it[s \ {x}]
        BY <3>2, Zenon DEF SumBody
      <4>4. g[x] = m.worth[x][a]
        <5> HIDE DEF x
        <5> QED BY <4>1
      <4> QED BY <4>2, <4>3, <4>4
    <3> QED BY <3>1, <3>2
  <2> QED BY <2>1, Zenon DEF SumBody
<1>2. Promised!Total(LAMBDA s : m.worth[s][a], SeatIds) = (CHOOSE it : it = Body(it))[SeatIds]
  BY Zenon DEF Promised!Total, Promised!MapThenSumSet, Promised!MapThenFoldSet
<1>3. (CHOOSE it : it = Body(it)) = Summing(g, SeatIds)
  <2> HIDE DEF Body, g
  <2> QED BY <1>1 DEF Summing
<1> QED BY <1>2, <1>3, SumOverDef, Zenon

\* The market of a book, part by part.
LEMMA MarketIs ==
  ASSUME NEW b, NEW v
  PROVE  /\ DOMAIN Market(b, v) = {"lines", "worth", "owner", "fees", "rate", "vault", "anchor"}
         /\ \A side \in Sides : Market(b, v).lines[side] = SideLine(b, side)
         /\ Market(b, v).owner \in [SeatIds -> {b.seats[s].owner : s \in SeatIds}]
         /\ \A s \in SeatIds : Market(b, v).owner[s] = OwnerOf(b, s)
         /\ \A s \in SeatIds, a \in Assets : Market(b, v).worth[s][a] = SeatTotal(b, s, a)
         /\ Market(b, v).fees = b.fees /\ Market(b, v).rate = b.feeBps
         /\ Market(b, v).vault = v /\ Market(b, v).anchor = b.anchor
BY DEF Market, OwnerOf

LEMMA MarketBacked ==
  ASSUME NEW b, NEW v, Backed(b, v) PROVE Promised!Backed(Market(b, v))
<1> DEFINE m == Market(b, v)
<1>1. (\A s \in SeatIds, a \in Assets : m.worth[s][a] = SeatTotal(b, s, a)) /\ m.fees = b.fees /\ m.vault = v
  BY MarketIs
<1> HIDE DEF m
<1>2. ASSUME NEW a \in Assets
      PROVE  m.vault[a] = Promised!Total(LAMBDA s : m.worth[s][a], SeatIds)
                            + IF a = "quote" THEN m.fees ELSE 0
  <2>1. [s \in SeatIds |-> m.worth[s][a]] = SeatTotals(b, a)
    BY <1>1, <1>2 DEF SeatTotals
  <2>2. v[a] = SumOver(SeatTotals(b, a), SeatIds) + IF a = "quote" THEN b.fees ELSE 0
    BY HeldIsSum, <1>2 DEF Backed
  <2>3. m.vault[a] = SumOver([s \in SeatIds |-> m.worth[s][a]], SeatIds)
                       + IF a = "quote" THEN m.fees ELSE 0
    BY <1>1, <2>1, <2>2
  <2> QED BY <2>3, TotalIsSum, Zenon
<1>3. Promised!Assets = Assets
  BY DEF Promised!Assets, Assets
<1>4. Promised!Backed(m)
  BY <1>2, <1>3, Zenon DEF Promised!Backed
<1> QED BY <1>4 DEF m

LEMMA MarketVacant ==
  ASSUME NEW b, NEW v, Vacant(b) PROVE Promised!Vacant(Market(b, v))
<1>1. \A s \in SeatIds : /\ Market(b, v).owner[s] = OwnerOf(b, s)
                         /\ \A a \in Assets : Market(b, v).worth[s][a] = SeatTotal(b, s, a)
  BY MarketIs
<1> QED BY <1>1 DEF Vacant, Promised!Vacant, Promised!Assets, Assets

-----------------------------------------------------------------------------
(* Custody is what the abstract exchange promises                          *)

\* A step of custody is a whole step of the abstract exchange: a seat is funded
\* or drawn on, taken or left, the fees are collected, or the rate is set.
CustodyPromised(m, n) ==
  \/ \E s \in SeatIds : Promised!Fund(m, n, s) \/ Promised!Admit(m, n, s) \/ Promised!Leave(m, n, s)
  \/ Promised!CollectFees(m, n)
  \/ Promised!SetRate(m, n)

LEMMA AsideMarket ==
  ASSUME NEW b \in Book, NEW c, SameLines(b, c), NEW v, NEW w
  PROVE  /\ Market(c, w).lines = Market(b, v).lines /\ Market(c, w).anchor = Market(b, v).anchor
         /\ c.fees = b.fees => Market(c, w).fees = Market(b, v).fees
         /\ c.feeBps = b.feeBps => Market(c, w).rate = Market(b, v).rate
         /\ v = w => Market(c, w).vault = Market(b, v).vault
         /\ (\A s \in SeatIds : OwnerOf(c, s) = OwnerOf(b, s)) => Market(c, w).owner = Market(b, v).owner
         /\ (\A s \in SeatIds, a \in Assets : SeatTotal(c, s, a) = SeatTotal(b, s, a))
               => Market(c, w).worth = Market(b, v).worth
<1>1. \A side : SideLine(c, side) = SideLine(b, side)
  BY LinesStand
<1>2. Market(c, w).lines = Market(b, v).lines
  BY <1>1 DEF Market
<1>3. ASSUME \A s \in SeatIds, a \in Assets : SeatTotal(c, s, a) = SeatTotal(b, s, a)
      PROVE  Market(c, w).worth = Market(b, v).worth
  BY <1>3 DEF Market
<1>4. ASSUME \A s \in SeatIds : OwnerOf(c, s) = OwnerOf(b, s)
      PROVE  Market(c, w).owner = Market(b, v).owner
  BY <1>4 DEF Market, OwnerOf
<1> QED BY <1>2, <1>3, <1>4, MarketIs DEF SameLines

\* Between instructions the committed market is the one the program sees.
LEMMA IdleCommitted ==
  ASSUME EInv, FundsInv, ix = Idle PROVE committed.book = book /\ committed.vault = vault
<1>1. committed.book = book
  BY DEF EInv, Since
<1>2. \A a \in Assets : vault[a] = committed.vault[a]
  BY <1>1, QuietBacked DEF Backed, FundsInv, Funded, Idle
<1>3. vault \in [Assets -> Nat] /\ committed.vault \in [Assets -> Nat]
  BY DEF FundsInv, IInv, TypeOK, Vault
<1> QED BY <1>1, <1>2, <1>3

\* What an instruction leaves of book b, apart from the change counter.
LEMMA BumpAside ==
  ASSUME NEW b \in Book
  PROVE  /\ SameLines(b, BumpSeq(b)) /\ BumpSeq(b).seats = b.seats
         /\ BumpSeq(b).fees = b.fees /\ BumpSeq(b).feeBps = b.feeBps
BY DEF Book, BumpSeq, SameLines

LEMMA PaidPromised ==
  ASSUME NEW b \in Book, NEW s \in SeatIds, OwnerOf(b, s) # Nobody, NEW x \in Int, NEW y \in Int,
         (x >= 0 /\ y >= 0) \/ (x <= 0 /\ y <= 0),
         b.seats[s].free["base"] + x >= 0, b.seats[s].free["quote"] + y >= 0, NEW v, NEW w
  PROVE  Promised!Fund(Market(b, v), Market(BumpSeq(AddFree(AddFree(b, s, "base", x), s, "quote", y)), w), s)
<1> DEFINE a == AddFree(b, s, "base", x)
           c == AddFree(a, s, "quote", y)
           d == BumpSeq(c)
           m == Market(b, v)
           n == Market(d, w)
<1>1. Gets(b, a, s, "base", x)
  BY AddFreeGets, AssetsAre
<1>2. a \in Book /\ a.seats[s].free["quote"] = b.seats[s].free["quote"]
  <2>1. a.seats[s].free["quote"] = b.seats[s].free["quote"]
    BY DEF AddFree, SetFree, Book, Seat, Assets
  <2> QED BY <1>1, <2>1 DEF Gets
<1>3. SameLines(b, a) /\ a.feeBps = b.feeBps /\ \A r \in SeatIds : OwnerOf(a, r) = OwnerOf(b, r)
  BY DEF AddFree, SetFree, SameLines, Book, Seat, OwnerOf
<1> HIDE DEF a
<1>4. Gets(a, c, s, "quote", y)
  BY <1>2, AddFreeGets, AssetsAre
<1>5. SameLines(a, c) /\ c.feeBps = a.feeBps /\ \A r \in SeatIds : OwnerOf(c, r) = OwnerOf(a, r)
  BY <1>2 DEF AddFree, SetFree, SameLines, Book, Seat, OwnerOf
<1> HIDE DEF c
<1>6. /\ SameLines(c, d) /\ d.feeBps = c.feeBps /\ d.fees = c.fees /\ d.seats = c.seats
  BY <1>4, BumpAside DEF Gets
<1> HIDE DEF d
<1>7. SameLines(b, d) /\ d.feeBps = b.feeBps /\ d.fees = b.fees /\ \A r \in SeatIds : OwnerOf(d, r) = OwnerOf(b, r)
  BY <1>1, <1>3, <1>4, <1>5, <1>6 DEF Gets, SameLines, OwnerOf
<1>8. \A r \in SeatIds, e \in Assets :
        SeatTotal(d, r, e) = SeatTotal(b, r, e) + (IF r = s THEN IF e = "base" THEN x ELSE y ELSE 0)
  <2> SUFFICES ASSUME NEW r \in SeatIds, NEW e \in Assets
               PROVE SeatTotal(d, r, e) = SeatTotal(b, r, e) + (IF r = s THEN IF e = "base" THEN x ELSE y ELSE 0)
    OBVIOUS
  <2>1. SeatTotal(a, r, e) = SeatTotal(b, r, e) + (IF r = s /\ e = "base" THEN x ELSE 0)
    BY <1>1 DEF Gets
  <2>2. SeatTotal(c, r, e) = SeatTotal(a, r, e) + (IF r = s /\ e = "quote" THEN y ELSE 0)
    BY <1>4 DEF Gets
  <2>3. SeatTotal(d, r, e) = SeatTotal(c, r, e)
    BY <1>6 DEF SeatTotal
  <2>4. SeatTotal(b, r, e) \in Int
    BY SeatTotalType
  <2> QED BY <2>1, <2>2, <2>3, <2>4 DEF Assets
<1>9. /\ DOMAIN m = {"lines", "worth", "owner", "fees", "rate", "vault", "anchor"}
      /\ n.lines = m.lines /\ n.anchor = m.anchor /\ n.owner = m.owner /\ n.fees = m.fees /\ n.rate = m.rate
  BY <1>7, AsideMarket, MarketIs
<1>10. \A r \in SeatIds, e \in Assets :
         m.worth[r][e] = SeatTotal(b, r, e) /\ n.worth[r][e] = SeatTotal(d, r, e) /\ SeatTotal(b, r, e) \in Nat
  BY MarketIs, SeatTotalType
<1>11. m.owner[s] # Nobody
  BY MarketIs
<1>12. \A r \in SeatIds \ {s} : n.worth[r] = m.worth[r]
  <2> SUFFICES ASSUME NEW r \in SeatIds \ {s} PROVE n.worth[r] = m.worth[r]
    OBVIOUS
  <2>1. \A e \in Assets : SeatTotal(d, r, e) = SeatTotal(b, r, e)
    BY <1>8, <1>10
  <2>2. m.worth[r] = [e \in Assets |-> SeatTotal(b, r, e)] /\ n.worth[r] = [e \in Assets |-> SeatTotal(d, r, e)]
    BY DEF Market
  <2> QED BY <2>1, <2>2
<1> HIDE DEF m, n
<1>13. \/ \A e \in Assets : n.worth[s][e] >= m.worth[s][e]
       \/ \A e \in Assets : n.worth[s][e] <= m.worth[s][e]
  BY <1>8, <1>10
<1>14. Promised!OnlyIn({"worth", "vault"}, m, n)
  BY <1>9 DEF Promised!OnlyIn
<1>15. Promised!Assets = Assets
  BY DEF Promised!Assets, Assets
<1>16. Promised!Fund(m, n, s)
  BY <1>11, <1>12, <1>13, <1>14, <1>15 DEF Promised!Fund
<1> QED BY <1>16 DEF a, c, d, m, n

LEMMA HandedPromised ==
  ASSUME NEW b \in Book, NEW s \in SeatIds, NEW owner \in Owners \cup {Nobody}, NEW v,
         OwnerOf(b, s) = Nobody <=> owner # Nobody
  PROVE  LET m == Market(b, v)
             n == Market(BumpSeq(SetOrdersHead(SetOwner(b, s, owner), s, NIL)), v)
         IN Promised!Admit(m, n, s) \/ Promised!Leave(m, n, s)
<1> DEFINE a == SetOwner(b, s, owner)
           c == SetOrdersHead(a, s, NIL)
           d == BumpSeq(c)
           m == Market(b, v)
           n == Market(d, v)
<1>1. /\ a \in Book /\ SameLines(b, a) /\ a.feeBps = b.feeBps /\ a.fees = b.fees
      /\ \A r \in SeatIds : OwnerOf(a, r) = IF r = s THEN owner ELSE OwnerOf(b, r)
      /\ \A r \in SeatIds, e \in Assets : SeatTotal(a, r, e) = SeatTotal(b, r, e)
  <2>1. a \in Book
    BY SeatSetters, KeptBook
  <2>2. SameLines(b, a) /\ a.feeBps = b.feeBps /\ a.fees = b.fees
    BY DEF SetOwner, SameLines, Book
  <2>3. /\ \A r \in SeatIds : r # s => a.seats[r] = b.seats[r]
        /\ a.seats[s] = [b.seats[s] EXCEPT !.owner = owner]
    BY DEF SetOwner, Book
  <2>4. b.seats[s] \in Seat
    BY DEF Book
  <2> HIDE DEF a
  <2>5. a.seats[s].free = b.seats[s].free /\ a.seats[s].locked = b.seats[s].locked
        /\ a.seats[s].owner = owner
    BY <2>3, <2>4 DEF Seat
  <2> QED BY <2>1, <2>2, <2>3, <2>5 DEF OwnerOf, SeatTotal
<1> HIDE DEF a
<1>2. /\ c \in Book /\ SameLines(a, c) /\ c.feeBps = a.feeBps /\ c.fees = a.fees
      /\ \A r \in SeatIds : OwnerOf(c, r) = OwnerOf(a, r)
      /\ \A r \in SeatIds, e \in Assets : SeatTotal(c, r, e) = SeatTotal(a, r, e)
  <2>1. c \in Book
    BY <1>1, NilIsLink, SeatSetters, KeptBook
  <2>2. SameLines(a, c) /\ c.feeBps = a.feeBps /\ c.fees = a.fees
    BY <1>1 DEF SetOrdersHead, SameLines, Book
  <2>3. /\ \A r \in SeatIds : r # s => c.seats[r] = a.seats[r]
        /\ c.seats[s] = [a.seats[s] EXCEPT !.head = NIL]
    BY <1>1 DEF SetOrdersHead, Book
  <2>4. a.seats[s] \in Seat
    BY <1>1 DEF Book
  <2> HIDE DEF c
  <2>5. c.seats[s].free = a.seats[s].free /\ c.seats[s].locked = a.seats[s].locked
        /\ c.seats[s].owner = a.seats[s].owner
    BY <2>3, <2>4 DEF Seat
  <2> QED BY <2>1, <2>2, <2>3, <2>5 DEF OwnerOf, SeatTotal
<1> HIDE DEF c
<1>3. SameLines(c, d) /\ d.feeBps = c.feeBps /\ d.fees = c.fees /\ d.seats = c.seats
  BY <1>2, BumpAside
<1> HIDE DEF d
<1>4. /\ SameLines(b, d) /\ d.feeBps = b.feeBps /\ d.fees = b.fees
      /\ \A r \in SeatIds : OwnerOf(d, r) = IF r = s THEN owner ELSE OwnerOf(b, r)
      /\ \A r \in SeatIds, e \in Assets : SeatTotal(d, r, e) = SeatTotal(b, r, e)
  BY <1>1, <1>2, <1>3 DEF SameLines, OwnerOf, SeatTotal
<1>5. /\ DOMAIN m = {"lines", "worth", "owner", "fees", "rate", "vault", "anchor"}
      /\ n.lines = m.lines /\ n.anchor = m.anchor /\ n.fees = m.fees /\ n.rate = m.rate
      /\ n.vault = m.vault /\ n.worth = m.worth
  BY <1>4, AsideMarket, MarketIs
<1>6. m.owner = [r \in SeatIds |-> OwnerOf(b, r)] /\ n.owner = [r \in SeatIds |-> OwnerOf(d, r)]
  BY DEF Market, OwnerOf
<1> HIDE DEF m, n
<1>7. n.owner = [m.owner EXCEPT ![s] = owner]
  BY <1>4, <1>6
<1>8. Promised!OnlyIn({"owner"}, m, n)
  BY <1>5 DEF Promised!OnlyIn
<1>9. m.owner[s] = OwnerOf(b, s)
  BY <1>6
<1>10. CASE owner = Nobody
  <2>1. Promised!Leave(m, n, s)
    BY <1>7, <1>8, <1>9, <1>10 DEF Promised!Leave
  <2> QED BY <2>1, Zenon DEF a, c, d, m, n
<1>11. CASE owner \in Owners
  <2>1. owner # Nobody
    BY <1>11, BookAssumption
  <2>2. Promised!Admit(m, n, s)
    BY <1>7, <1>8, <1>9, <1>11, <2>1 DEF Promised!Admit
  <2> QED BY <2>2, Zenon DEF a, c, d, m, n
<1> QED BY <1>10, <1>11

LEMMA FeesPromised ==
  ASSUME NEW b \in Book, NEW v, NEW w
  PROVE  Promised!CollectFees(Market(b, v), Market(BumpSeq([b EXCEPT !.fees = 0]), w))
<1> DEFINE c == [b EXCEPT !.fees = 0]
           d == BumpSeq(c)
           m == Market(b, v)
           n == Market(d, w)
<1>1. c \in Book /\ SameLines(b, c) /\ c.feeBps = b.feeBps /\ c.fees = 0 /\ c.seats = b.seats
  BY DEF Book, SameLines
<1> HIDE DEF c
<1>2. SameLines(c, d) /\ d.feeBps = c.feeBps /\ d.fees = c.fees /\ d.seats = c.seats
  BY <1>1, BumpAside
<1> HIDE DEF d
<1>3. /\ SameLines(b, d) /\ \A r \in SeatIds : OwnerOf(d, r) = OwnerOf(b, r)
      /\ \A r \in SeatIds, e \in Assets : SeatTotal(d, r, e) = SeatTotal(b, r, e)
  BY <1>1, <1>2 DEF SameLines, OwnerOf, SeatTotal
<1>4. /\ DOMAIN m = {"lines", "worth", "owner", "fees", "rate", "vault", "anchor"}
      /\ n.lines = m.lines /\ n.anchor = m.anchor /\ n.rate = m.rate
      /\ n.worth = m.worth /\ n.owner = m.owner /\ n.fees = 0
  BY <1>1, <1>2, <1>3, AsideMarket, MarketIs
<1> HIDE DEF m, n
<1>5. Promised!CollectFees(m, n)
  BY <1>4 DEF Promised!CollectFees, Promised!OnlyIn
<1> QED BY <1>5 DEF c, d, m, n

LEMMA RatePromised ==
  ASSUME NEW b \in Book, NEW v, NEW rate \in 0 .. MaxFeeBps
  PROVE  Promised!SetRate(Market(b, v), Market(BumpSeq([b EXCEPT !.feeBps = rate]), v))
<1> DEFINE c == [b EXCEPT !.feeBps = rate]
           d == BumpSeq(c)
           m == Market(b, v)
           n == Market(d, v)
<1>1. c \in Book /\ SameLines(b, c) /\ c.feeBps = rate /\ c.fees = b.fees /\ c.seats = b.seats
  BY ProgramAssumption DEF Book, SameLines
<1> HIDE DEF c
<1>2. SameLines(c, d) /\ d.feeBps = c.feeBps /\ d.fees = c.fees /\ d.seats = c.seats
  BY <1>1, BumpAside
<1> HIDE DEF d
<1>3. /\ SameLines(b, d) /\ \A r \in SeatIds : OwnerOf(d, r) = OwnerOf(b, r)
      /\ \A r \in SeatIds, e \in Assets : SeatTotal(d, r, e) = SeatTotal(b, r, e)
  BY <1>1, <1>2 DEF SameLines, OwnerOf, SeatTotal
<1>4. /\ DOMAIN m = {"lines", "worth", "owner", "fees", "rate", "vault", "anchor"}
      /\ n.lines = m.lines /\ n.anchor = m.anchor /\ n.fees = m.fees /\ n.vault = m.vault
      /\ n.worth = m.worth /\ n.owner = m.owner /\ n.rate = rate
  BY <1>1, <1>2, <1>3, AsideMarket, MarketIs
<1> HIDE DEF m, n
<1>5. Promised!SetRate(m, n)
  BY <1>4 DEF Promised!SetRate, Promised!OnlyIn
<1> QED BY <1>5 DEF c, d, m, n

LEMMA CustodyKeepsPromise ==
  ASSUME EInv, FundsInv, CustodyNext
  PROVE  CustodyPromised(Market(committed.book, committed.vault), Market(committed'.book, committed'.vault))
<1> DEFINE m == Market(committed.book, committed.vault)
           n == Market(committed'.book, committed'.vault)
<1>0. book \in Book
  BY EBook
<1>1. ASSUME NEW name, Starts(name), NEW c, NEW v, Commit(c, v)
      PROVE  m = Market(book, vault) /\ n = Market(BumpSeq(c), v)
  <2>1. committed.book = book /\ committed.vault = vault
    BY <1>1, IdleCommitted DEF Starts
  <2>2. committed'.book = BumpSeq(c) /\ committed'.vault = v
    BY <1>1 DEF Commit
  <2> QED BY <2>1, <2>2
<1> HIDE DEF m, n
<1>2. ASSUME NEW o \in Owners, ClaimSeat(o) PROVE \E s \in SeatIds : Promised!Admit(m, n, s) \/ Promised!Leave(m, n, s)
  <2> DEFINE s == CHOOSE f \in FreeSeats : \A g \in FreeSeats : f <= g
  <2>1. s \in FreeSeats /\ Starts("ClaimSeat") /\ Commit(SetOrdersHead(SetOwner(book, s, o), s, NIL), vault)
    <3>1. FreeSeats \subseteq Nat /\ FreeSeats # {}
      BY <1>2, BookAssumption DEF ClaimSeat, FreeSeats, SeatIds
    <3>2. \E f \in FreeSeats : \A g \in FreeSeats : f <= g
      BY <3>1, NatLeast
    <3> QED BY <1>2, <3>2 DEF ClaimSeat
  <2>2. s \in SeatIds /\ OwnerOf(book, s) = Nobody /\ o # Nobody
    BY <2>1, BookAssumption DEF FreeSeats, OwnerOf
  <2> HIDE DEF s
  <2>3. m = Market(book, vault) /\ n = Market(BumpSeq(SetOrdersHead(SetOwner(book, s, o), s, NIL)), vault)
    BY <1>1, <2>1
  <2> QED BY <1>0, <2>2, <2>3, HandedPromised
<1>3. ASSUME NEW s \in SeatIds, CloseSeat(s) PROVE Promised!Admit(m, n, s) \/ Promised!Leave(m, n, s)
  <2>1. OwnerOf(book, s) # Nobody
    BY <1>3 DEF CloseSeat, Signed, OwnerOf
  <2>2. m = Market(book, vault) /\ n = Market(BumpSeq(SetOrdersHead(SetOwner(book, s, Nobody), s, NIL)), vault)
    BY <1>1, <1>3 DEF CloseSeat
  <2> QED BY <1>0, <2>1, <2>2, HandedPromised
<1>4. ASSUME NEW s \in SeatIds, OwnerOf(book, s) # Nobody, NEW name, Starts(name), NEW x \in Int, NEW y \in Int,
             (x >= 0 /\ y >= 0) \/ (x <= 0 /\ y <= 0),
             book.seats[s].free["base"] + x >= 0, book.seats[s].free["quote"] + y >= 0, NEW w,
             Commit(AddFree(AddFree(book, s, "base", x), s, "quote", y), w)
      PROVE  Promised!Fund(m, n, s)
  <2>1. m = Market(book, vault) /\ n = Market(BumpSeq(AddFree(AddFree(book, s, "base", x), s, "quote", y)), w)
    BY <1>1, <1>4
  <2> QED BY <1>0, <1>4, <2>1, PaidPromised
<1>5. ASSUME NEW s \in SeatIds, NEW base \in DepositAmounts, NEW quote \in DepositAmounts, Deposit(s, base, quote)
      PROVE  Promised!Fund(m, n, s)
  <2>1. PICK x \in Received(base), y \in Received(quote) :
          Commit(AddFree(AddFree(book, s, "base", x), s, "quote", y),
                 [vault EXCEPT !["base"] = @ + x, !["quote"] = @ + y])
    BY <1>5 DEF Deposit
  <2>2. Starts("Deposit") /\ OwnerOf(book, s) # Nobody
    BY <1>5 DEF Deposit, Signed, OwnerOf
  <2>3. x \in Nat /\ y \in Nat
    BY CustodyAssumption, ReceivedType
  <2>4. book.seats[s].free["base"] \in Nat /\ book.seats[s].free["quote"] \in Nat
    BY <1>0, <1>5, AssetsAre, BalanceType
  <2>5. /\ book.seats[s].free["base"] + x >= 0 /\ book.seats[s].free["quote"] + y >= 0
        /\ x \in Int /\ y \in Int /\ x >= 0 /\ y >= 0
    BY <2>3, <2>4
  <2> QED BY <1>4, <2>1, <2>2, <2>5
<1>6. ASSUME NEW s \in SeatIds, NEW base \in WithdrawAmounts, NEW quote \in WithdrawAmounts, Withdraw(s, base, quote)
      PROVE  Promised!Fund(m, n, s)
  <2> DEFINE x == WithdrawOut(s, "base", base)
             y == WithdrawOut(s, "quote", quote)
  <2>1. /\ Starts("Withdraw") /\ OwnerOf(book, s) # Nobody
        /\ book.seats[s].free["base"] >= x /\ book.seats[s].free["quote"] >= y
        /\ Commit(AddFree(AddFree(book, s, "base", -x), s, "quote", -y),
                  [vault EXCEPT !["base"] = @ - x, !["quote"] = @ - y])
    BY <1>6 DEF Withdraw, Signed, OwnerOf
  <2>2. book.seats[s].free["base"] \in Nat /\ book.seats[s].free["quote"] \in Nat
    BY <1>0, <1>6, AssetsAre, BalanceType
  <2>3. x \in Nat /\ y \in Nat
    BY <2>2, CustodyAssumption DEF WithdrawOut
  <2> HIDE DEF x, y
  <2>4. /\ book.seats[s].free["base"] + (-x) >= 0 /\ book.seats[s].free["quote"] + (-y) >= 0
        /\ -x \in Int /\ -y \in Int /\ -x <= 0 /\ -y <= 0
    BY <2>1, <2>2, <2>3
  <2> QED BY <1>4, <2>1, <2>4
<1>7. ASSUME CollectFees PROVE Promised!CollectFees(m, n)
  <2>1. m = Market(book, vault)
        /\ n = Market(BumpSeq([book EXCEPT !.fees = 0]), [vault EXCEPT !["quote"] = @ - book.fees])
    BY <1>1, <1>7 DEF CollectFees
  <2> QED BY <1>0, <2>1, FeesPromised
<1>8. ASSUME NEW rate \in FeeRates, UpdateFee(rate) PROVE Promised!SetRate(m, n)
  <2>1. m = Market(book, vault) /\ n = Market(BumpSeq([book EXCEPT !.feeBps = rate]), vault)
    BY <1>1, <1>8 DEF UpdateFee
  <2>2. rate \in 0 .. MaxFeeBps
    BY <1>8, ProgramAssumption DEF UpdateFee
  <2> QED BY <1>0, <2>1, <2>2, RatePromised
<1>9. CustodyPromised(m, n)
  BY <1>2, <1>3, <1>5, <1>6, <1>7, <1>8 DEF CustodyNext, CustodyPromised
<1> QED BY <1>9 DEF m, n

-----------------------------------------------------------------------------
(* The market a market starts with                                         *)

LEMMA NoLevel ==
  ASSUME NEW b, NEW side, NEW t, ~IsOccupied(b, side, t) PROVE LevelQueue(b, side, t) = <<>>
BY SMT DEF LevelQueue

LEMMA NoOrders ==
  ASSUME NEW b, b.anchor \in Nat, \A side \in Sides : b.bits[side] = {}, NEW side \in Sides
  PROVE  SideLine(b, side) = <<>>
<1> DEFINE T == b.anchor - 1 .. LastTick(b)
           none == [t \in T |-> <<>>]
           it == CHOOSE it : it = LineBody(b, side, it)
<1>1. LastTick(b) \in Int /\ LastTick(b) >= b.anchor
  BY BookAssumption DEF LastTick
<1>2. \A t : LevelQueue(b, side, t) = <<>>
  BY NoLevel DEF IsOccupied
<1>3. <<>> \o <<>> = <<>>
  OBVIOUS
<1>4. \A t \in T : t < b.anchor \/ t - 1 \in T
  BY <1>1
<1>5. none = LineBody(b, side, none)
  BY <1>2, <1>3, <1>4 DEF LineBody
<1>6. it = LineBody(b, side, it)
  <2> HIDE DEF none
  <2> QED BY <1>5, Zenon
<1> HIDE DEF it
<1>7. ASSUME NEW t \in T PROVE it[t] = IF t < b.anchor THEN <<>>
                                       ELSE IF side = "bid" THEN <<>> \o it[t - 1] ELSE it[t - 1] \o <<>>
  <2>1. LineBody(b, side, it)[t] = IF t < b.anchor THEN <<>>
                                       ELSE IF side = "bid" THEN <<>> \o it[t - 1] ELSE it[t - 1] \o <<>>
    BY <1>2 DEF LineBody
  <2> QED BY <1>6, <2>1
<1> DEFINE odd == {k \in Nat : b.anchor - 1 + k \in T /\ it[b.anchor - 1 + k] # <<>>}
<1>8. odd = {}
  <2> SUFFICES ASSUME odd # {} PROVE FALSE
    OBVIOUS
  <2>1. PICK k \in odd : \A j \in odd : k <= j
    BY NatLeast
  <2> DEFINE t == b.anchor - 1 + k
  <2>2. t \in T /\ it[t] # <<>> /\ k \in Nat
    BY <2>1
  <2>3. ~(t < b.anchor)
    BY <1>7, <2>2
  <2>4. k - 1 \in Nat /\ t - 1 = b.anchor - 1 + (k - 1) /\ t - 1 \in T
    <3>1. /\ b.anchor \in Int /\ LastTick(b) \in Int /\ k \in Nat
          /\ t \in b.anchor - 1 .. LastTick(b) /\ ~(t < b.anchor)
      BY <1>1, <2>2, <2>3
    <3> HIDE DEF odd, none
    <3>2. k - 1 \in Nat
      BY <3>1
    <3>3. t - 1 = b.anchor - 1 + (k - 1)
      BY <3>1
    <3>4. t - 1 \in b.anchor - 1 .. LastTick(b)
      BY <3>1, <3>2
    <3> QED BY <3>2, <3>3, <3>4
  <2>5. it[t - 1] = <<>>
    BY <2>1, <2>4
  <2> HIDE DEF t
  <2> QED BY <1>3, <1>7, <2>2, <2>3, <2>5
<1>9. it[LastTick(b)] = <<>>
  <2>1. LastTick(b) - (b.anchor - 1) \in Nat /\ LastTick(b) = b.anchor - 1 + (LastTick(b) - (b.anchor - 1))
        /\ LastTick(b) \in T
    BY <1>1
  <2> QED BY <1>8, <2>1
<1> QED BY <1>9, LineIsRead DEF it

LEMMA FreshLines ==
  ASSUME FreedSeq \notin CancelIds, Init
  PROVE  \A side \in Sides : Market(committed.book, committed.vault).lines[side] = <<>>
<1>1. PICK rate : book = StartBook(rate) /\ committed.book = book
  BY DEF Init
<1>2. book.anchor \in Nat /\ \A side \in Sides : book.bits[side] = {}
  BY <1>1, ProgramAssumption DEF StartBook
<1> QED BY <1>1, <1>2, MarketIs, NoOrders

\* A market that has just been created is one the exchange starts with: its two
\* lines are empty, and its vaults hold what its seats have deposited.
THEOREM StartsAsPromised == ASSUME FreedSeq \notin CancelIds PROVE Init => Promised!Init
<1> SUFFICES ASSUME Init PROVE Promised!Init
  OBVIOUS
<1> DEFINE m == Market(committed.book, committed.vault)
<1>1. PICK rate \in FeeRates : rate <= MaxFeeBps /\ book = StartBook(rate)
  BY DEF Init
<1>2. /\ committed.book = book /\ slot = 0
      /\ rate \in 0 .. MaxFeeBps /\ book.fees = 0 /\ book.feeBps = rate
  BY <1>1, ProgramAssumption DEF Init, StartBook
<1>3. Promised!Backed(m) /\ Promised!Vacant(m)
  BY EInit, FundsInit, MarketBacked, MarketVacant DEF EInv, Since, Funded
<1>4. /\ DOMAIN m.lines = Sides /\ m.lines = [side \in Sides |-> <<>>]
      /\ m.fees = 0 /\ m.rate \in 0 .. MaxFeeBps
  <2>1. \A side \in Sides : m.lines[side] = <<>>
    BY FreshLines
  <2>2. m.lines = [side \in Sides |-> SideLine(committed.book, side)]
    BY DEF Market
  <2>3. m.fees = 0 /\ m.rate = rate
    BY <1>2, MarketIs
  <2> QED BY <1>2, <2>1, <2>2, <2>3
<1>5. \A s \in SeatIds, a \in Assets : m.worth[s][a] \in Nat
  BY EInit, EBook, MarketIs, SeatTotalType
<1> HIDE DEF m
<1>6. Promised!Sides = Sides /\ Promised!Assets = Assets
  BY DEF Promised!Sides, Promised!Assets, Sides, Assets
<1>7. Promised!InLine(m) /\ Promised!Uncrossed(m)
  BY <1>4, <1>6 DEF Promised!InLine, Promised!Uncrossed, Sides
<1>8. Promised!Covered(m)
  <2> SUFFICES ASSUME NEW s \in SeatIds
               PROVE  LET Of(side) == {i \in DOMAIN m.lines[side] : m.lines[side][i].seat = s}
                          Bid(i)   == m.lines["bid"][i].tick * TickSize * m.lines["bid"][i].lots
                          Ask(i)   == BaseLotSize * m.lines["ask"][i].lots
                      IN /\ Promised!Total(Bid, Of("bid")) <= m.worth[s]["quote"]
                         /\ Promised!Total(Ask, Of("ask")) <= m.worth[s]["base"]
    BY Zenon DEF Promised!Covered
  <2> DEFINE Of(side) == {i \in DOMAIN m.lines[side] : m.lines[side][i].seat = s}
             Bid(i)   == m.lines["bid"][i].tick * TickSize * m.lines["bid"][i].lots
             Ask(i)   == BaseLotSize * m.lines["ask"][i].lots
  <2>1. Of("bid") = {} /\ Of("ask") = {}
    BY <1>4 DEF Sides
  <2>2. Promised!Total(Bid, {}) = 0 /\ Promised!Total(Ask, {}) = 0
    <3> HIDE DEF Bid, Ask
    <3> QED BY DEF Promised!Total, Promised!MapThenSumSet, Promised!MapThenFoldSet
  <2>3. m.worth[s]["quote"] \in Nat /\ m.worth[s]["base"] \in Nat
    BY <1>5, AssetsAre
  <2>4. Promised!Total(Bid, Of("bid")) = 0 /\ Promised!Total(Ask, Of("ask")) = 0
    <3> HIDE DEF Bid, Ask, Of
    <3> QED BY <2>1, <2>2, Zenon
  <2> HIDE DEF Bid, Ask, Of
  <2>5. /\ Promised!Total(Bid, Of("bid")) <= m.worth[s]["quote"]
        /\ Promised!Total(Ask, Of("ask")) <= m.worth[s]["base"]
    BY <2>3, <2>4
  <2> QED BY <2>5, Zenon DEF Bid, Ask, Of
<1>9. Promised!Sound(m)
  BY <1>3, <1>7, <1>8 DEF Promised!Sound
<1>10. Promised!Init
  BY <1>2, <1>4, <1>6, <1>9 DEF Promised!Init, m
<1> QED BY <1>10

-----------------------------------------------------------------------------
(* Steps, for what they do beside the lines                                *)

Before == Market(committed.book, committed.vault)
After  == Market(committed'.book, committed'.vault)

MarketParts == {"lines", "worth", "owner", "fees", "rate", "vault", "anchor"}

LEMMA BesideLines ==
  ASSUME NEW b, NEW c, NEW v, NEW w
  PROVE  LET m == Market(b, v)
             n == Market(c, w)
         IN /\ DOMAIN m = MarketParts
            /\ (\A s \in SeatIds : OwnerOf(c, s) = OwnerOf(b, s)) => n.owner = m.owner
            /\ (\A s \in SeatIds, a \in Assets : SeatTotal(c, s, a) = SeatTotal(b, s, a)) => n.worth = m.worth
            /\ c.fees = b.fees => n.fees = m.fees
            /\ c.feeBps = b.feeBps => n.rate = m.rate
            /\ c.anchor = b.anchor => n.anchor = m.anchor
            /\ w = v => n.vault = m.vault
<1>1. ASSUME \A s \in SeatIds, a \in Assets : SeatTotal(c, s, a) = SeatTotal(b, s, a)
      PROVE  Market(c, w).worth = Market(b, v).worth
  BY <1>1 DEF Market
<1>2. ASSUME \A s \in SeatIds : OwnerOf(c, s) = OwnerOf(b, s)
      PROVE  Market(c, w).owner = Market(b, v).owner
  BY <1>2 DEF Market, OwnerOf
<1> QED BY <1>1, <1>2, MarketIs DEF MarketParts

LEMMA TermsPromised ==
  ASSUME NEW b, NEW c, Respects(b, c), NEW v, NEW w
  PROVE  Promised!OnlyIn({"lines", "worth", "fees", "vault"}, Market(b, v), Market(c, w))
<1> DEFINE m == Market(b, v)
           n == Market(c, w)
<1>1. DOMAIN m = MarketParts /\ n.owner = m.owner /\ n.rate = m.rate /\ n.anchor = m.anchor
  BY BesideLines DEF Respects
<1> HIDE DEF m, n
<1>2. Promised!OnlyIn({"lines", "worth", "fees", "vault"}, m, n)
  BY <1>1 DEF Promised!OnlyIn, MarketParts
<1> QED BY <1>2 DEF m, n

LEMMA OnlyLines ==
  ASSUME NEW m, NEW n, DOMAIN m = MarketParts, n.owner = m.owner, n.rate = m.rate, n.worth = m.worth,
         n.fees = m.fees, n.vault = m.vault
  PROVE  /\ Promised!OnlyIn({"lines", "anchor"}, m, n)
         /\ n.anchor = m.anchor => Promised!OnlyIn({"lines"}, m, n)
BY DEF Promised!OnlyIn, MarketParts

LEMMA FundsPromised ==
  ASSUME NEW b, NEW c, Even(b, c), c.feeBps = b.feeBps, \A s \in SeatIds : OwnerOf(c, s) = OwnerOf(b, s), NEW v
  PROVE  /\ Promised!OnlyIn({"lines", "anchor"}, Market(b, v), Market(c, v))
         /\ c.anchor = b.anchor => Promised!OnlyIn({"lines"}, Market(b, v), Market(c, v))
<1> DEFINE m == Market(b, v)
           n == Market(c, v)
<1>1. /\ DOMAIN m = MarketParts /\ n.owner = m.owner /\ n.rate = m.rate /\ n.worth = m.worth
      /\ n.fees = m.fees /\ n.vault = m.vault
      /\ c.anchor = b.anchor => n.anchor = m.anchor
  BY BesideLines DEF Even
<1> HIDE DEF m, n
<1>2. /\ Promised!OnlyIn({"lines", "anchor"}, m, n)
      /\ c.anchor = b.anchor => Promised!OnlyIn({"lines"}, m, n)
  BY <1>1, OnlyLines
<1> QED BY <1>2 DEF m, n

\* Outside a swap the vaults of a success are those of the one before.
VaultStands == committed' = committed \/ committed'.vault = vault

LEMMA MakerVault == ASSUME MakerNext PROVE VaultStands
<1>1. ASSUME NEW b, Commit(b, vault) PROVE VaultStands
  BY <1>1 DEF Commit, VaultStands
<1>2. ASSUME NEW b, NEW i, Continue(b, i) PROVE VaultStands
  BY <1>2 DEF Continue, VaultStands
<1> QED BY <1>1, <1>2 DEF MakerNext, PostOnly, CancelQuote, Cancel, BeginMassQuote

LEMMA LoopVault == ASSUME MergeStep \/ HygieneStep PROVE VaultStands
<1>1. ASSUME NEW b, Commit(b, vault) PROVE VaultStands
  BY <1>1 DEF Commit, VaultStands
<1>2. ASSUME NEW b, NEW i, Continue(b, i) PROVE VaultStands
  BY <1>2 DEF Continue, VaultStands
<1>3. ASSUME Abort PROVE VaultStands
  BY <1>3 DEF Abort, VaultStands
<1>4. ASSUME MergeStep PROVE VaultStands
  BY <1>1, <1>2, <1>3, <1>4
     DEF MergeStep, MergeRefuse, MergeCancel, MergeKeep, MergeInsert, MergeRepost, MergeAsks, MergeCommit,
         MassQuoteInsert
<1>5. ASSUME HygieneStep PROVE VaultStands
  BY <1>1, <1>2, <1>5
     DEF HygieneStep, EnterWord, EvictOrder, LeaveWord, ReanchorCommit, ReapEnter, ReapSkip, ReapKill, ReapCommit
<1> QED BY <1>4, <1>5

LEMMA TakeVault == ASSUME TakeStep, ix.kind # "Swap" PROVE VaultStands
<1>1. ASSUME NEW b, Commit(b, vault) PROVE VaultStands
  BY <1>1 DEF Commit, VaultStands
<1>2. ASSUME NEW b, NEW i, Continue(b, i) PROVE VaultStands
  BY <1>2 DEF Continue, VaultStands
<1>3. ASSUME Abort PROVE VaultStands
  BY <1>3 DEF Abort, VaultStands
<1> QED BY <1>1, <1>2, <1>3 DEF TakeStep, TakeExpired, TakeOwn, TakeFill, EndPlaceLimit, EndPlaceTake, EndSwap

\* What the exchange promises of a success, short of its lines: the market it
\* leaves is backed, its vacant seats are empty, and only the parts an
\* instruction of its kind may touch are changed.
PromisedBeside ==
  /\ Promised!Backed(After) /\ Promised!Vacant(After)
  /\ \/ CustodyNext /\ CustodyPromised(Before, After)
     \/ (MakerNext \/ MergeStep \/ Reaping) /\ Promised!OnlyIn({"lines"}, Before, After)
     \/ Reanchoring /\ Promised!OnlyIn({"lines", "anchor"}, Before, After)
     \/ /\ Taking /\ Promised!OnlyIn({"lines", "worth", "fees", "vault"}, Before, After)
        /\ ix.kind # "Swap" => After.vault = Before.vault

LEMMA PromisedNext ==
  ASSUME EInv, FundsInv, SwapInv, [Next]_vars, committed' # committed PROVE PromisedBeside
<1>1. Promised!Backed(After) /\ Promised!Vacant(After)
  <2>1. EInv' /\ FundsInv'
    BY ENext, FundsNext
  <2>2. Vacant(committed'.book)
    BY <2>1 DEF EInv, Since
  <2>3. Backed(committed'.book, committed'.vault)
    BY <2>1 DEF FundsInv, Funded
  <2> QED BY <2>2, <2>3, MarketBacked, MarketVacant DEF After
<1>2. ASSUME KeepsFunds, VaultStands, ~Taking PROVE Promised!OnlyIn({"lines"}, Before, After)
  <2>1. /\ Even(committed.book, committed'.book) /\ committed'.book.feeBps = committed.book.feeBps
        /\ committed'.book.anchor = committed.book.anchor
        /\ \A s \in SeatIds : OwnerOf(committed'.book, s) = OwnerOf(committed.book, s)
    BY <1>2 DEF KeepsFunds, Keeps, Respects
  <2>2. committed'.vault = committed.vault
    BY <1>2 DEF VaultStands, SwapInv, InputHeld
  <2> QED BY <2>1, <2>2, FundsPromised DEF Before, After
<1>3. CASE CustodyNext
  BY <1>1, <1>3, CustodyKeepsPromise DEF PromisedBeside, Before, After
<1>4. CASE MakerNext
  <2>1. ix = Idle
    BY <1>4 DEF MakerNext, PostOnly, CancelQuote, Cancel, BeginMassQuote, Starts
  <2>2. ~Taking
    BY <2>1 DEF Taking, Idle
  <2> QED BY <1>1, <1>2, <1>4, <2>2, MakerKeeps, MakerVault DEF PromisedBeside
<1>5. CASE MergeStep
  <2>1. ~Taking
    BY <1>5 DEF MergeStep, MergeRefuse, MergeCancel, MergeKeep, MergeInsert, MergeRepost, MergeAsks, MergeCommit,
                MergeDone, Merging, Taking
  <2> QED BY <1>1, <1>2, <1>5, <2>1, MergeKeeps, LoopVault DEF PromisedBeside
<1>6. CASE HygieneStep /\ ~ReanchorCommit
  <2>1. \A b, i : ~Continue(b, i)
    BY DEF Continue
  <2>2. ~EnterWord /\ ~EvictOrder /\ ~LeaveWord
    BY <2>1 DEF EnterWord, EvictOrder, LeaveWord
  <2>3. Reaping
    BY <1>6, <2>2 DEF HygieneStep, ReapEnter, ReapSkip, ReapKill, ReapCommit
  <2>4. ~Taking
    BY <2>3 DEF Reaping, Taking
  <2> QED BY <1>1, <1>2, <1>6, <2>3, <2>4, HygieneKeeps, LoopVault DEF PromisedBeside
<1>7. CASE ReanchorCommit
  <2>1. Reanchoring /\ ~Taking
    BY <1>7 DEF ReanchorCommit, Reanchoring, Taking
  <2>2. committed'.vault = committed.vault
    BY <1>7, <2>1, LoopVault DEF HygieneStep, VaultStands, SwapInv, InputHeld
  <2>3. Promised!OnlyIn({"lines", "anchor"}, Before, After)
    BY <1>7, <2>2, ReanchorHands, FundsPromised DEF Before, After
  <2> QED BY <1>1, <2>1, <2>3 DEF PromisedBeside
<1>8. CASE TakeStep
  <2>1. Taking
    BY <1>8 DEF TakeStep, TakeExpired, TakeOwn, TakeFill, EndPlaceLimit, EndPlaceTake, EndSwap, TakeOver
  <2>2. Promised!OnlyIn({"lines", "worth", "fees", "vault"}, Before, After)
    BY <1>8, TakeKeeps, TermsPromised DEF Keeps, Before, After
  <2>3. ix.kind # "Swap" => committed'.vault = committed.vault
    BY <1>8, TakeVault DEF VaultStands, SwapInv, InputHeld
  <2>4. ix.kind # "Swap" => After.vault = Before.vault
    BY <2>3, MarketIs DEF Before, After
  <2> QED BY <1>1, <2>1, <2>2, <2>4 DEF PromisedBeside
<1>9. CASE TakerNext \/ HygieneNext
  <2>1. committed' = committed
    BY <1>9 DEF TakerNext, BeginPlaceLimit, BeginPlaceTake, BeginSwap, SwapWith, Take,
                HygieneNext, BeginReanchor, BeginReap, Continue
  <2> QED BY <2>1
<1>10. CASE NextSlot \/ Refused \/ UNCHANGED vars
  BY <1>10 DEF NextSlot, Refused, vars
<1> QED BY <1>3, <1>4, <1>5, <1>6, <1>7, <1>8, <1>9, <1>10 DEF Next, Step

\* Every success does to the market what the exchange promises of its kind,
\* short of the order of the lines: a custody instruction makes a whole step of
\* it; a maker's instruction or a reap changes the lines alone, a reanchor also
\* the window; a take also moves money between seats, fees and, when it is a
\* swap, the vaults; and every atom stays backed (commit of every handler).
THEOREM StepsBesideLines ==
  ASSUME FreedSeq \notin CancelIds PROVE Spec => [][PromisedBeside]_committed
<1>1. EInv /\ FundsInv /\ SwapInv /\ [Next]_vars => [PromisedBeside]_committed
  BY PromisedNext
<1>2. EInv /\ FundsInv /\ [Next]_vars => EInv' /\ FundsInv'
  BY ENext, FundsNext
<1>3. Init => EInv /\ FundsInv
  BY EInit, InitInv, FundsInit DEF FundsInv
<1> QED BY <1>1, <1>2, <1>3, SwapInvHolds, PTL DEF Spec
=============================================================================
