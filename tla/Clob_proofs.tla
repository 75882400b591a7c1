------------------------------ MODULE Clob_proofs ------------------------------
(***************************************************************************)
(* The program's type invariant, for every market and every instruction    *)
(* stream: no step of any instruction drives a balance below zero, follows *)
(* a link out of the pool, or leaves the price window where a tick could   *)
(* be 0 or above the market's limit.                                       *)
(*                                                                         *)
(* First what the operations of OrderBook.tla preserve, for every window,  *)
(* pool and seat table: the shape of the book, and the header fields only  *)
(* reanchor and update_fee write.  First of those the setters, one field   *)
(* at a time; every operation is a composition of them and needs no more   *)
(* than they say.  The other modules' proofs cite these lemmas.            *)
(***************************************************************************)
EXTENDS ClobProperties, WellFoundedInduction, TLAPS

LOCAL INSTANCE FiniteSetsExt

\* Book c still has the shape of a book, with b's window and fee rate.
Kept(b, c) == c \in Book /\ c.anchor = b.anchor /\ c.feeBps = b.feeBps

\* And nothing happened to the seats.
SeatsKept(b, c) == Kept(b, c) /\ c.seats = b.seats

LEMMA KeptTrans ==
  ASSUME NEW a, NEW b, NEW c, Kept(a, b), Kept(b, c)
  PROVE  Kept(a, c)
BY DEF Kept

LEMMA KeptBook ==
  ASSUME NEW b, NEW c, Kept(b, c)
  PROVE  c \in Book
BY DEF Kept

LEMMA KeptSelf ==
  ASSUME NEW b \in Book
  PROVE  SeatsKept(b, b)
BY DEF Kept, SeatsKept

LEMMA SeatsKeptTrans ==
  ASSUME NEW a, NEW b, NEW c, SeatsKept(a, b), SeatsKept(b, c)
  PROVE  SeatsKept(a, c)
BY DEF Kept, SeatsKept

-----------------------------------------------------------------------------
(* Setters                                                                 *)

\* What the setters of one field come down to: a whole entry is replaced.
SetSeat(b, s, seat)   == [b EXCEPT !.seats[s] = seat]
SetNode(b, n, node)   == [b EXCEPT !.pool[n] = node]
SetLevel(b, l, level) == [b EXCEPT !.levels[l] = level]

\* A seat, a node or a level is replaced by another of its type.
LEMMA SetEntry ==
  ASSUME NEW b \in Book
  PROVE  /\ \A s \in SeatIds, seat \in Seat :
              /\ Kept(b, SetSeat(b, s, seat))
              /\ \A r \in SeatIds :
                   SetSeat(b, s, seat).seats[r] = IF r = s THEN seat ELSE b.seats[r]
         /\ \A n \in Links, node \in OrderNode : SeatsKept(b, SetNode(b, n, node))
         /\ \A l \in Ring, level \in Level : SeatsKept(b, SetLevel(b, l, level))
<1>1. ASSUME NEW s \in SeatIds, NEW seat \in Seat
      PROVE  /\ Kept(b, SetSeat(b, s, seat))
             /\ \A r \in SeatIds :
                  SetSeat(b, s, seat).seats[r] = IF r = s THEN seat ELSE b.seats[r]
  BY DEF Kept, Book, SetSeat
<1>2. ASSUME NEW n \in Links, NEW node \in OrderNode
      PROVE  SeatsKept(b, SetNode(b, n, node))
  BY DEF SeatsKept, Kept, Book, SetNode
<1>3. ASSUME NEW l \in Ring, NEW level \in Level
      PROVE  SeatsKept(b, SetLevel(b, l, level))
  BY DEF SeatsKept, Kept, Book, SetLevel
<1> QED BY <1>1, <1>2, <1>3

LEMMA SeatSetters ==
  ASSUME NEW b \in Book, NEW s \in SeatIds
  PROVE  /\ \A owner \in Owners \cup {Nobody} : Kept(b, SetOwner(b, s, owner))
         /\ \A n \in Links : Kept(b, SetOrdersHead(b, s, n))
         /\ \A k \in Counts : Kept(b, SetOrderCount(b, s, k))
<1>0. b.seats[s] \in Seat
  BY DEF Book
<1>1. ASSUME NEW owner \in Owners \cup {Nobody} PROVE Kept(b, SetOwner(b, s, owner))
  <2>1. [b.seats[s] EXCEPT !.owner = owner] \in Seat
    BY <1>0, <1>1 DEF Seat
  <2> QED BY <2>1, SetEntry DEF SetOwner, SetSeat
<1>2. ASSUME NEW n \in Links PROVE Kept(b, SetOrdersHead(b, s, n))
  <2>1. [b.seats[s] EXCEPT !.head = n] \in Seat
    BY <1>0 DEF Seat
  <2> QED BY <2>1, SetEntry DEF SetOrdersHead, SetSeat
<1>3. ASSUME NEW k \in Counts PROVE Kept(b, SetOrderCount(b, s, k))
  <2>1. [b.seats[s] EXCEPT !.count = k] \in Seat
    BY <1>0 DEF Seat
  <2> QED BY <2>1, SetEntry DEF SetOrderCount, SetSeat
<1> QED BY <1>1, <1>2, <1>3

\* The two balance setters, and what every balance reads afterwards.
LEMMA BalanceSetters ==
  ASSUME NEW b \in Book, NEW s \in SeatIds, NEW a \in Assets, NEW x \in Nat
  PROVE  /\ Kept(b, SetFree(b, s, a, x)) /\ Kept(b, SetLocked(b, s, a, x))
         /\ \A r \in SeatIds, c \in Assets :
              /\ SetFree(b, s, a, x).seats[r].free[c]
                   = IF r = s /\ c = a THEN x ELSE b.seats[r].free[c]
              /\ SetFree(b, s, a, x).seats[r].locked[c] = b.seats[r].locked[c]
              /\ SetLocked(b, s, a, x).seats[r].locked[c]
                   = IF r = s /\ c = a THEN x ELSE b.seats[r].locked[c]
              /\ SetLocked(b, s, a, x).seats[r].free[c] = b.seats[r].free[c]
<1> DEFINE freed  == [b.seats[s] EXCEPT !.free[a] = x]
           locked == [b.seats[s] EXCEPT !.locked[a] = x]
<1>1. b.seats[s] \in Seat
  BY DEF Book
<1>2. freed \in Seat
  BY <1>1 DEF Seat
<1>3. locked \in Seat
  BY <1>1 DEF Seat
<1>4. \A c \in Assets : /\ freed.free[c] = IF c = a THEN x ELSE b.seats[s].free[c]
                        /\ freed.locked[c] = b.seats[s].locked[c]
  BY <1>1 DEF Seat
<1>5. \A c \in Assets : /\ locked.locked[c] = IF c = a THEN x ELSE b.seats[s].locked[c]
                        /\ locked.free[c] = b.seats[s].free[c]
  BY <1>1 DEF Seat
<1>6. SetFree(b, s, a, x) = SetSeat(b, s, freed) /\ SetLocked(b, s, a, x) = SetSeat(b, s, locked)
  BY DEF SetFree, SetLocked, SetSeat
<1> HIDE DEF freed, locked
<1>7. \A r \in SeatIds : /\ SetFree(b, s, a, x).seats[r] = IF r = s THEN freed ELSE b.seats[r]
                         /\ SetLocked(b, s, a, x).seats[r] = IF r = s THEN locked ELSE b.seats[r]
  BY <1>2, <1>3, <1>6, SetEntry
<1>8. Kept(b, SetFree(b, s, a, x)) /\ Kept(b, SetLocked(b, s, a, x))
  BY <1>2, <1>3, <1>6, SetEntry
<1> QED BY <1>4, <1>5, <1>7, <1>8

\* No setter of a node, a level, a bit or a list head touches a seat.
LEMMA NodeSetters ==
  ASSUME NEW a, NEW b, SeatsKept(a, b), NEW n \in Links
  PROVE  /\ \A m \in Links : /\ SeatsKept(a, SetPrev(b, n, m))
                             /\ SeatsKept(a, SetNext(b, n, m))
                             /\ SeatsKept(a, SetMakerPrev(b, n, m))
                             /\ SeatsKept(a, SetMakerNext(b, n, m))
         /\ \A tick \in 0 .. TickLimit : SeatsKept(a, SetTick(b, n, tick))
         /\ \A s \in SeatIds : SeatsKept(a, SetMaker(b, n, s))
         /\ \A side \in Sides : SeatsKept(a, SetSide(b, n, side))
         /\ \A x \in Nat : /\ SeatsKept(a, SetLots(b, n, x))
                           /\ SeatsKept(a, SetExpiry(b, n, x))
         /\ \A id \in 0 .. FreedSeq : SeatsKept(a, SetSeq(b, n, id))
<1>0. b \in Book /\ b.pool[n] \in OrderNode
  BY DEF Book, SeatsKept, Kept
<1>1. ASSUME NEW m \in Links PROVE SeatsKept(a, SetPrev(b, n, m))
  <2>1. [b.pool[n] EXCEPT !.prev = m] \in OrderNode
    BY <1>0 DEF OrderNode
  <2> QED BY <1>0, <2>1, SetEntry, SeatsKeptTrans DEF SetPrev, SetNode
<1>2. ASSUME NEW m \in Links PROVE SeatsKept(a, SetNext(b, n, m))
  <2>1. [b.pool[n] EXCEPT !.next = m] \in OrderNode
    BY <1>0 DEF OrderNode
  <2> QED BY <1>0, <2>1, SetEntry, SeatsKeptTrans DEF SetNext, SetNode
<1>3. ASSUME NEW m \in Links PROVE SeatsKept(a, SetMakerPrev(b, n, m))
  <2>1. [b.pool[n] EXCEPT !.makerPrev = m] \in OrderNode
    BY <1>0 DEF OrderNode
  <2> QED BY <1>0, <2>1, SetEntry, SeatsKeptTrans DEF SetMakerPrev, SetNode
<1>4. ASSUME NEW m \in Links PROVE SeatsKept(a, SetMakerNext(b, n, m))
  <2>1. [b.pool[n] EXCEPT !.makerNext = m] \in OrderNode
    BY <1>0 DEF OrderNode
  <2> QED BY <1>0, <2>1, SetEntry, SeatsKeptTrans DEF SetMakerNext, SetNode
<1>5. ASSUME NEW tick \in 0 .. TickLimit PROVE SeatsKept(a, SetTick(b, n, tick))
  <2>1. [b.pool[n] EXCEPT !.tick = tick] \in OrderNode
    BY <1>0 DEF OrderNode
  <2> QED BY <1>0, <2>1, SetEntry, SeatsKeptTrans DEF SetTick, SetNode
<1>6. ASSUME NEW s \in SeatIds PROVE SeatsKept(a, SetMaker(b, n, s))
  <2>1. [b.pool[n] EXCEPT !.maker = s] \in OrderNode
    BY <1>0 DEF OrderNode
  <2> QED BY <1>0, <2>1, SetEntry, SeatsKeptTrans DEF SetMaker, SetNode
<1>7. ASSUME NEW side \in Sides PROVE SeatsKept(a, SetSide(b, n, side))
  <2>1. [b.pool[n] EXCEPT !.side = side] \in OrderNode
    BY <1>0 DEF OrderNode
  <2> QED BY <1>0, <2>1, SetEntry, SeatsKeptTrans DEF SetSide, SetNode
<1>8. ASSUME NEW x \in Nat PROVE SeatsKept(a, SetLots(b, n, x))
  <2>1. [b.pool[n] EXCEPT !.lots = x] \in OrderNode
    BY <1>0 DEF OrderNode
  <2> QED BY <1>0, <2>1, SetEntry, SeatsKeptTrans DEF SetLots, SetNode
<1>9. ASSUME NEW x \in Nat PROVE SeatsKept(a, SetExpiry(b, n, x))
  <2>1. [b.pool[n] EXCEPT !.expiry = x] \in OrderNode
    BY <1>0 DEF OrderNode
  <2> QED BY <1>0, <2>1, SetEntry, SeatsKeptTrans DEF SetExpiry, SetNode
<1>10. ASSUME NEW id \in 0 .. FreedSeq PROVE SeatsKept(a, SetSeq(b, n, id))
  <2>1. [b.pool[n] EXCEPT !.seq = id] \in OrderNode
    BY <1>0 DEF OrderNode
  <2> QED BY <1>0, <2>1, SetEntry, SeatsKeptTrans DEF SetSeq, SetNode
<1> QED BY <1>1, <1>2, <1>3, <1>4, <1>5, <1>6, <1>7, <1>8, <1>9, <1>10

LEMMA LevelSetters ==
  ASSUME NEW a, NEW b, SeatsKept(a, b), NEW l \in Ring
  PROVE  /\ \A n \in Links : /\ SeatsKept(a, SetHead(b, l, n))
                             /\ SeatsKept(a, SetTail(b, l, n))
         /\ \A x \in Int : SeatsKept(a, AddLots(b, l, x))
         /\ SeatsKept(a, ZeroLevel(b, l))
         /\ \A side \in Sides : /\ SeatsKept(a, SetBit(b, side, l))
                                /\ SeatsKept(a, ClearBit(b, side, l))
<1>0. b \in Book /\ b.levels[l] \in Level
  BY DEF Book, SeatsKept, Kept
<1>1. ASSUME NEW n \in Links PROVE SeatsKept(a, SetHead(b, l, n))
  <2>1. [b.levels[l] EXCEPT !.head = n] \in Level
    BY <1>0 DEF Level
  <2> QED BY <1>0, <2>1, SetEntry, SeatsKeptTrans DEF SetHead, SetLevel
<1>2. ASSUME NEW n \in Links PROVE SeatsKept(a, SetTail(b, l, n))
  <2>1. [b.levels[l] EXCEPT !.tail = n] \in Level
    BY <1>0 DEF Level
  <2> QED BY <1>0, <2>1, SetEntry, SeatsKeptTrans DEF SetTail, SetLevel
<1>3. ASSUME NEW x \in Int PROVE SeatsKept(a, AddLots(b, l, x))
  <2>1. [b.levels[l] EXCEPT !.total = @ + x] \in Level
    BY <1>0 DEF Level
  <2> QED BY <1>0, <2>1, SetEntry, SeatsKeptTrans DEF AddLots, SetLevel
<1>4. SeatsKept(a, ZeroLevel(b, l))
  <2>1. EmptyLevel \in Level
    BY BookAssumption DEF EmptyLevel, Level, Links, NIL
  <2> QED BY <1>0, <2>1, SetEntry, SeatsKeptTrans DEF ZeroLevel, SetLevel
<1>5. ASSUME NEW side \in Sides PROVE SeatsKept(a, SetBit(b, side, l))
  BY DEF SeatsKept, Kept, Book, SetBit
<1>6. ASSUME NEW side \in Sides PROVE SeatsKept(a, ClearBit(b, side, l))
  BY DEF SeatsKept, Kept, Book, ClearBit
<1> QED BY <1>1, <1>2, <1>3, <1>4, <1>5, <1>6

LEMMA ListSetters ==
  ASSUME NEW a, NEW b, SeatsKept(a, b)
  PROVE  /\ \A n \in Links : SeatsKept(a, SetFreeHead(b, n))
         /\ \A k \in Int : SeatsKept(a, SetFreeCount(b, k))
         /\ \A id \in 0 .. FreedSeq : SeatsKept(a, SetOrderSeq(b, id))
         /\ SeatsKept(a, BumpSeq(b))
<1>1. ASSUME NEW n \in Links PROVE SeatsKept(a, SetFreeHead(b, n))
  BY DEF SeatsKept, Kept, Book, SetFreeHead
<1>2. ASSUME NEW k \in Int PROVE SeatsKept(a, SetFreeCount(b, k))
  BY DEF SeatsKept, Kept, Book, SetFreeCount
<1>3. ASSUME NEW id \in 0 .. FreedSeq PROVE SeatsKept(a, SetOrderSeq(b, id))
  BY DEF SeatsKept, Kept, Book, SetOrderSeq
<1>4. SeatsKept(a, BumpSeq(b))
  <2>1. b.seq \in 0 .. SeqModulus - 1
    BY DEF Book, SeatsKept, Kept
  <2>2. (b.seq + 1) % SeqModulus \in 0 .. SeqModulus - 1
    BY <2>1, BookAssumption
  <2> QED BY <2>2 DEF SeatsKept, Kept, Book, BumpSeq
<1> QED BY <1>1, <1>2, <1>3, <1>4

-----------------------------------------------------------------------------
(* What is read off a book                                                 *)

LEMMA NodeType ==
  ASSUME NEW b \in Book, NEW n \in Links
  PROVE  /\ b.pool[n].prev \in Links /\ b.pool[n].next \in Links
         /\ b.pool[n].makerPrev \in Links /\ b.pool[n].makerNext \in Links
         /\ b.pool[n].tick \in 0 .. TickLimit /\ b.pool[n].tick \in Nat
         /\ b.pool[n].maker \in SeatIds /\ b.pool[n].side \in Sides
         /\ b.pool[n].lots \in Nat /\ b.pool[n].seq \in 0 .. FreedSeq
BY BookAssumption DEF Book, OrderNode

LEMMA LevelType ==
  ASSUME NEW b \in Book, NEW l \in Ring
  PROVE  b.levels[l].head \in Links /\ b.levels[l].tail \in Links
BY DEF Book, Level

LEMMA BalanceType ==
  ASSUME NEW b \in Book, NEW s \in SeatIds, NEW a \in Assets
  PROVE  b.seats[s].free[a] \in Nat /\ b.seats[s].locked[a] \in Nat
BY DEF Book, Seat

LEMMA NilIsLink == NIL \in Links
BY BookAssumption DEF NIL, Links

LEMMA SlotInRing ==
  ASSUME NEW tick \in Int
  PROVE  Slot(tick) \in Ring
BY BookAssumption DEF Slot, Ring

LEMMA LockedAtomsType ==
  ASSUME NEW side \in Sides, NEW tick \in Nat, NEW lots \in Nat
  PROVE  LockedAtoms(side, tick, lots) \in Nat /\ LockedAsset(side) \in Assets
<1>1. \A x, y \in Nat : x * y \in Nat
  OBVIOUS
<1>2. Notional(tick, lots) \in Nat
  BY <1>1, BookAssumption DEF Notional
<1>3. BaseLotSize * lots \in Nat
  BY <1>1, BookAssumption
<1> QED BY <1>2, <1>3 DEF LockedAtoms, LockedAsset, Assets

LEMMA OppositeType ==
  ASSUME NEW side \in Sides
  PROVE  Opposite(side) \in Sides
BY DEF Opposite, Sides

-----------------------------------------------------------------------------
(* The node pool and the level FIFO                                        *)

LEMMA AllocNodeKept ==
  ASSUME NEW b \in Book
  PROVE  SeatsKept(b, AllocNode(b))
<1>1. b.freeHead \in Links /\ b.freeCount - 1 \in Int
  BY DEF Book
<1> QED BY <1>1, KeptSelf, NodeType, ListSetters DEF AllocNode

LEMMA FreeNodeKept ==
  ASSUME NEW b \in Book, NEW n \in Links
  PROVE  SeatsKept(b, FreeNode(b, n))
<1>1. b.freeHead \in Links /\ b.freeCount + 1 \in Int
  BY DEF Book
<1>2. FreedSeq \in 0 .. FreedSeq /\ 0 \in Nat
  BY BookAssumption
<1> QED BY <1>1, <1>2, KeptSelf, NodeSetters, ListSetters DEF FreeNode

LEMMA FifoAppendKept ==
  ASSUME NEW b \in Book, NEW side \in Sides, NEW tick \in Nat, NEW n \in Links,
         NEW lots \in Nat
  PROVE  SeatsKept(b, FifoAppend(b, side, tick, n, lots))
<1> DEFINE l      == Slot(tick)
           longer == AddLots(SetTail(b, l, n), l, lots)
<1>1. l \in Ring /\ lots \in Int
  BY SlotInRing
<1>2. SeatsKept(b, longer)
  BY <1>1, KeptSelf, LevelSetters
<1>3. CASE l \in b.bits[side]
  BY <1>1, <1>2, <1>3, NilIsLink, LevelType, NodeSetters DEF FifoAppend
<1>4. CASE l \notin b.bits[side]
  BY <1>1, <1>2, <1>4, NilIsLink, LevelSetters, NodeSetters DEF FifoAppend
<1> QED BY <1>3, <1>4

LEMMA FifoBypassKept ==
  ASSUME NEW b \in Book, NEW n \in Links
  PROVE  SeatsKept(b, FifoBypass(b, n))
<1> DEFINE nd  == b.pool[n]
           l   == Slot(nd.tick)
           fwd == IF nd.prev # NIL THEN SetNext(b, nd.prev, nd.next)
                                   ELSE SetHead(b, l, nd.next)
<1>1. l \in Ring /\ nd.prev \in Links /\ nd.next \in Links
  BY SlotInRing, NodeType
<1>2. SeatsKept(b, fwd)
  BY <1>1, KeptSelf, NodeSetters, LevelSetters
<1>3. FifoBypass(b, n) = IF nd.next # NIL THEN SetPrev(fwd, nd.next, nd.prev)
                                          ELSE SetTail(fwd, l, nd.prev)
  BY DEF FifoBypass
<1> HIDE DEF fwd
<1> QED BY <1>1, <1>2, <1>3, NodeSetters, LevelSetters

LEMMA FifoUnlinkKept ==
  ASSUME NEW b \in Book, NEW side \in Sides, NEW n \in Links
  PROVE  SeatsKept(b, FifoUnlink(b, side, n))
<1>1. Slot(b.pool[n].tick) \in Ring /\ -b.pool[n].lots \in Int
  BY SlotInRing, NodeType
<1> QED BY <1>1, FifoBypassKept, LevelSetters DEF FifoUnlink

-----------------------------------------------------------------------------
(* Balances: a lock, a refund and a fill move what is there                *)

LEMMA LockKept ==
  ASSUME NEW b \in Book, NEW s \in SeatIds, NEW a \in Assets, NEW x \in Nat,
         CanLock(b, s, a, x)
  PROVE  Kept(b, Lock(b, s, a, x))
<1> DEFINE c == SetFree(b, s, a, b.seats[s].free[a] - x)
<1>1. b.seats[s].free[a] - x \in Nat /\ b.seats[s].locked[a] + x \in Nat
  BY BalanceType DEF CanLock
<1>2. Kept(b, c)
  BY <1>1, BalanceSetters
<1>3. Lock(b, s, a, x) = SetLocked(c, s, a, b.seats[s].locked[a] + x)
  BY DEF Lock
<1> HIDE DEF c
<1> QED BY <1>1, <1>2, <1>3, BalanceSetters, KeptBook, KeptTrans

LEMMA UnlockKept ==
  ASSUME NEW b \in Book, NEW s \in SeatIds, NEW a \in Assets, NEW x \in Nat,
         CanUnlock(b, s, a, x)
  PROVE  Kept(b, Unlock(b, s, a, x))
<1> DEFINE c == SetLocked(b, s, a, b.seats[s].locked[a] - x)
<1>1. b.seats[s].locked[a] - x \in Nat /\ b.seats[s].free[a] + x \in Nat
  BY BalanceType DEF CanUnlock
<1>2. Kept(b, c)
  BY <1>1, BalanceSetters
<1>3. Unlock(b, s, a, x) = SetFree(c, s, a, b.seats[s].free[a] + x)
  BY DEF Unlock
<1> HIDE DEF c
<1> QED BY <1>1, <1>2, <1>3, BalanceSetters, KeptBook, KeptTrans

\* A credit, or a debit the free balance covers; other balances stay.
LEMMA AddFreeKept ==
  ASSUME NEW b \in Book, NEW s \in SeatIds, NEW a \in Assets, NEW x \in Int,
         b.seats[s].free[a] + x >= 0
  PROVE  /\ Kept(b, AddFree(b, s, a, x))
         /\ \A c \in Assets \ {a} :
              AddFree(b, s, a, x).seats[s].free[c] = b.seats[s].free[c]
<1>1. b.seats[s].free[a] + x \in Nat
  BY BalanceType
<1> QED BY <1>1, BalanceSetters DEF AddFree

\* The maker's lock covers what it pays for a fill of its own order.
LEMMA SettleMakerKept ==
  ASSUME NEW b \in Book, NEW side \in Sides, NEW tick \in Nat, NEW n \in Links,
         NEW lots \in Nat,
         CanUnlock(b, b.pool[n].maker, LockedAsset(side), LockedAtoms(side, tick, lots))
  PROVE  Kept(b, SettleMaker(b, side, tick, n, lots))
<1> DEFINE s    == b.pool[n].maker
           paid == LockedAsset(side)
           got  == LockedAsset(Opposite(side))
           out  == LockedAtoms(side, tick, lots)
           in   == LockedAtoms(Opposite(side), tick, lots)
           c    == SetLocked(b, s, paid, b.seats[s].locked[paid] - out)
<1>1. s \in SeatIds /\ paid \in Assets /\ got \in Assets /\ out \in Nat /\ in \in Nat
  BY NodeType, OppositeType, LockedAtomsType
<1>2. b.seats[s].locked[paid] >= out
  BY DEF CanUnlock
<1> HIDE DEF s, paid, got, out, in
<1>3. b.seats[s].locked[paid] - out \in Nat /\ b.seats[s].free[got] + in \in Nat
  <2>1. b.seats[s].locked[paid] \in Nat /\ b.seats[s].free[got] \in Nat
    BY <1>1, BalanceType
  <2> QED BY <1>1, <1>2, <2>1
<1>4. Kept(b, c)
  BY <1>1, <1>3, BalanceSetters
<1>5. SettleMaker(b, side, tick, n, lots) = SetFree(c, s, got, b.seats[s].free[got] + in)
  BY DEF SettleMaker, s, paid, got, out, in
<1> HIDE DEF c
<1> QED BY <1>1, <1>3, <1>4, <1>5, BalanceSetters, KeptBook, KeptTrans

-----------------------------------------------------------------------------
(* The seat chain                                                          *)

LEMMA CountType ==
  ASSUME NEW b \in Book, NEW s \in SeatIds
  PROVE  /\ (b.seats[s].count + U16Max) % (U16Max + 1) \in Counts
         /\ (b.seats[s].count + 1) % (U16Max + 1) \in Counts
<1>1. U16Max \in Nat
  BY DEF U16Max
<1>2. b.seats[s].count \in 0 .. U16Max
  BY DEF Book, Seat, Counts
<1> QED BY <1>1, <1>2 DEF Counts

LEMMA SeatsKeptIsKept ==
  ASSUME NEW b, NEW c, SeatsKept(b, c)
  PROVE  Kept(b, c)
BY DEF SeatsKept

\* Node setters carry Kept along too.
LEMMA NodeSettersKept ==
  ASSUME NEW a, NEW b, Kept(a, b), NEW n \in Links, NEW m \in Links
  PROVE  Kept(a, SetMakerPrev(b, n, m)) /\ Kept(a, SetMakerNext(b, n, m))
<1>1. SeatsKept(b, SetMakerPrev(b, n, m)) /\ SeatsKept(b, SetMakerNext(b, n, m))
  BY KeptBook, KeptSelf, NodeSetters
<1> QED BY <1>1, SeatsKeptIsKept, KeptTrans

LEMMA ChainUnlinkKept ==
  ASSUME NEW b \in Book, NEW n \in Links
  PROVE  Kept(b, ChainUnlink(b, n))
<1> DEFINE nd  == b.pool[n]
           s   == nd.maker
           fwd == IF nd.makerPrev = NIL THEN SetOrdersHead(b, s, nd.makerNext)
                                        ELSE SetMakerNext(b, nd.makerPrev, nd.makerNext)
           c   == ChainBypass(b, n)
           d   == SetOrderCount(c, s, (b.seats[s].count + U16Max) % (U16Max + 1))
<1>1. s \in SeatIds /\ nd.makerPrev \in Links /\ nd.makerNext \in Links
  BY NodeType
<1>2. Kept(b, b)
  BY KeptSelf, SeatsKeptIsKept
<1>3. Kept(b, fwd)
  BY <1>1, <1>2, SeatSetters, NodeSettersKept
<1>4. Kept(b, c)
  <2>1. c = IF nd.makerNext = NIL THEN fwd ELSE SetMakerPrev(fwd, nd.makerNext, nd.makerPrev)
    BY DEF ChainBypass
  <2> HIDE DEF fwd, c
  <2> QED BY <1>1, <1>3, <2>1, NodeSettersKept
<1>5. Kept(b, d)
  <2>1. Kept(c, d)
    <3> HIDE DEF c
    <3> QED BY <1>1, <1>4, CountType, SeatSetters, KeptBook
  <2> HIDE DEF c, d
  <2> QED BY <1>4, <2>1, KeptTrans
<1>6. ChainUnlink(b, n) = FreeNode(d, n)
  BY DEF ChainUnlink
<1> HIDE DEF d
<1> QED BY <1>5, <1>6, FreeNodeKept, SeatsKeptIsKept, KeptBook, KeptTrans

LEMMA ChainSpliceKept ==
  ASSUME NEW b \in Book, NEW s \in SeatIds, NEW prev \in Links, NEW next \in Links,
         NEW n \in Links
  PROVE  Kept(b, ChainSplice(b, s, prev, next, n))
<1> DEFINE own == SetMakerNext(SetMakerPrev(b, n, prev), n, next)
           fwd == IF prev = NIL THEN SetOrdersHead(own, s, n) ELSE SetMakerNext(own, prev, n)
           bwd == IF next = NIL THEN fwd ELSE SetMakerPrev(fwd, next, n)
<1>1. Kept(b, own)
  BY KeptSelf, SeatsKeptIsKept, NodeSettersKept
<1>2. Kept(b, fwd)
  <2> HIDE DEF own
  <2> QED BY <1>1, NodeSettersKept, SeatSetters, KeptBook, KeptTrans
<1>3. Kept(b, bwd)
  <2> HIDE DEF fwd
  <2> QED BY <1>2, NodeSettersKept
<1>4. ChainSplice(b, s, prev, next, n)
        = SetOrderCount(bwd, s, (b.seats[s].count + 1) % (U16Max + 1))
  BY DEF ChainSplice
<1> HIDE DEF bwd
<1> QED BY <1>3, <1>4, CountType, SeatSetters, KeptBook, KeptTrans

-----------------------------------------------------------------------------
(* Orders begin, shrink and end                                            *)

\* A refundable order can be ended.
LEMMA KillOrderKept ==
  ASSUME NEW b \in Book, NEW n \in Links, Refundable(b, n)
  PROVE  Kept(b, KillOrder(b, n))
<1> DEFINE nd    == b.pool[n]
           asset == LockedAsset(nd.side)
           atoms == LockedAtoms(nd.side, nd.tick, nd.lots)
           c     == FifoUnlink(b, nd.side, n)
           d     == Unlock(c, nd.maker, asset, atoms)
<1>1. nd.maker \in SeatIds /\ asset \in Assets /\ atoms \in Nat
  BY NodeType, LockedAtomsType
<1>2. SeatsKept(b, c)
  BY NodeType, FifoUnlinkKept
<1>3. CanUnlock(c, nd.maker, asset, atoms)
  BY <1>2 DEF Refundable, CanUnlock, SeatsKept
<1>4. KillOrder(b, n) = ChainUnlink(d, n)
  BY DEF KillOrder
<1>5. Kept(c, d)
  <2> HIDE DEF asset, atoms, c
  <2> QED BY <1>1, <1>2, <1>3, UnlockKept, SeatsKeptIsKept, KeptBook
<1> HIDE DEF c, d
<1> QED BY <1>2, <1>4, <1>5, ChainUnlinkKept, SeatsKeptIsKept, KeptBook, KeptTrans

\* A node's size and expiry and its level's total follow each other.
LEMMA ResizeKept ==
  ASSUME NEW b \in Book, NEW n \in Links, NEW l \in Ring, NEW lots \in Nat,
         NEW expiry \in Nat, NEW x \in Int
  PROVE  /\ SeatsKept(b, AddLots(SetLots(b, n, lots), l, x))
         /\ SeatsKept(b, AddLots(SetExpiry(SetLots(b, n, lots), n, expiry), l, x))
BY KeptSelf, NodeSetters, LevelSetters

LEMMA ShrinkOrderKept ==
  ASSUME NEW b \in Book, NEW s \in SeatIds, NEW n \in Links, NEW lots \in Nat,
         NEW expiry \in Nat, lots <= b.pool[n].lots,
         CanUnlock(b, s, LockedAsset(b.pool[n].side),
                   LockedAtoms(b.pool[n].side, b.pool[n].tick, b.pool[n].lots - lots))
  PROVE  Kept(b, ShrinkOrder(b, s, n, lots, expiry))
<1> DEFINE nd    == b.pool[n]
           asset == LockedAsset(nd.side)
           atoms == LockedAtoms(nd.side, nd.tick, nd.lots - lots)
           less  == Unlock(b, s, asset, atoms)
           l     == Slot(nd.tick)
           x     == lots - nd.lots
<1>1. nd.lots - lots \in Nat /\ x \in Int /\ l \in Ring
  BY NodeType, SlotInRing
<1>2. asset \in Assets /\ atoms \in Nat
  BY <1>1, NodeType, LockedAtomsType
<1>3. Kept(b, less)
  <2> HIDE DEF asset, atoms
  <2>1. CanUnlock(b, s, asset, atoms)
    BY DEF asset, atoms
  <2> QED BY <1>2, <2>1, UnlockKept
<1>4. ShrinkOrder(b, s, n, lots, expiry)
        = AddLots(SetExpiry(SetLots(less, n, lots), n, expiry), l, x)
  BY DEF ShrinkOrder
<1> HIDE DEF less, l, x
<1> QED BY <1>1, <1>3, <1>4, ResizeKept, SeatsKeptIsKept, KeptBook, KeptTrans

LEMMA BookInsertKept ==
  ASSUME NEW b \in Book, NEW side \in Sides, NEW tick \in 0 .. TickLimit,
         NEW lots \in Nat, NEW s \in SeatIds, NEW expiry \in Nat
  PROVE  SeatsKept(b, BookInsert(b, side, tick, lots, s, expiry))
<1> DEFINE n      == b.freeHead
           id     == NextOrderId(b)
           a      == SetOrderSeq(AllocNode(b), id + 1)
           placed == SetSide(SetMaker(SetTick(a, n, tick), n, s), n, side)
           order  == SetSeq(SetExpiry(SetLots(placed, n, lots), n, expiry), n, id)
<1>1. n \in Links /\ id \in 0 .. FreedSeq /\ id + 1 \in 0 .. FreedSeq /\ tick \in Nat
  <2>1. b.orderSeq \in 0 .. FreedSeq /\ n \in Links
    BY DEF Book
  <2> QED BY <2>1, BookAssumption DEF NextOrderId
<1>2. SeatsKept(b, a)
  <2> HIDE DEF id
  <2> QED BY <1>1, AllocNodeKept, ListSetters
<1>3. SeatsKept(b, placed)
  <2> HIDE DEF a, n
  <2> QED BY <1>1, <1>2, NodeSetters
<1>4. SeatsKept(b, order)
  <2> HIDE DEF placed, n, id
  <2> QED BY <1>1, <1>3, NodeSetters
<1>5. BookInsert(b, side, tick, lots, s, expiry) = FifoAppend(order, side, tick, n, lots)
  BY DEF BookInsert
<1> HIDE DEF order, n
<1> QED BY <1>1, <1>4, <1>5, FifoAppendKept, SeatsKeptIsKept, KeptBook, SeatsKeptTrans

LEMMA LockAndInsertKept ==
  ASSUME NEW b \in Book, NEW side \in Sides, NEW tick \in 0 .. TickLimit,
         NEW lots \in Nat, NEW s \in SeatIds, NEW expiry \in Nat,
         CanInsert(b, s, side, tick, lots)
  PROVE  Kept(b, LockAndInsert(b, s, side, tick, lots, expiry))
<1> DEFINE asset == LockedAsset(side)
           atoms == LockedAtoms(side, tick, lots)
           c     == Lock(b, s, asset, atoms)
<1>1. asset \in Assets /\ atoms \in Nat /\ CanLock(b, s, asset, atoms)
  BY LockedAtomsType, BookAssumption DEF CanInsert
<1>2. Kept(b, c)
  <2> HIDE DEF asset, atoms
  <2> QED BY <1>1, LockKept
<1>3. LockAndInsert(b, s, side, tick, lots, expiry)
        = BookInsert(c, side, tick, lots, s, expiry)
  BY DEF LockAndInsert
<1> HIDE DEF c
<1> QED BY <1>2, <1>3, BookInsertKept, SeatsKeptIsKept, KeptBook, KeptTrans

LEMMA FillOrderKept ==
  ASSUME NEW b \in Book, NEW side \in Sides, NEW tick \in Nat, NEW n \in Links,
         NEW lots \in Nat, lots <= b.pool[n].lots,
         CanUnlock(b, b.pool[n].maker, LockedAsset(side), LockedAtoms(side, tick, lots))
  PROVE  Kept(b, FillOrder(b, side, tick, n, lots))
<1> DEFINE settled == SettleMaker(b, side, tick, n, lots)
           left    == b.pool[n].lots - lots
<1>1. Kept(b, settled)
  BY SettleMakerKept
<1>2. left \in Nat /\ -lots \in Int /\ Slot(tick) \in Ring
  BY NodeType, SlotInRing
<1>3. FillOrder(b, side, tick, n, lots)
        = IF lots = b.pool[n].lots THEN ChainUnlink(FifoUnlink(settled, side, n), n)
          ELSE AddLots(SetLots(settled, n, left), Slot(tick), -lots)
  BY DEF FillOrder
<1> HIDE DEF settled, left
<1>4. Kept(b, AddLots(SetLots(settled, n, left), Slot(tick), -lots))
  BY <1>1, <1>2, KeptBook, ResizeKept, SeatsKeptIsKept, KeptTrans
<1>5. Kept(b, ChainUnlink(FifoUnlink(settled, side, n), n))
  BY <1>1, KeptBook, FifoUnlinkKept, ChainUnlinkKept, SeatsKeptIsKept, KeptTrans
<1> QED BY <1>3, <1>4, <1>5

-----------------------------------------------------------------------------
(* Best prices and chain neighbours: the extremes the code scans for exist *)

LEMMA NatLeast ==
  ASSUME NEW T, T \subseteq Nat, T # {}
  PROVE  \E x \in T : \A y \in T : x <= y
<1>1. PICK x \in T : \A y \in T : <<y, x>> \notin OpToRel(<, Nat)
  BY WFMin, NatLessThanWellFounded
<1>2. \A y \in T : ~(y < x)
  BY <1>1 DEF OpToRel
<1> QED BY <1>2

LEMMA NatGreatest ==
  ASSUME NEW N \in Nat, NEW T, T \subseteq 0 .. N, T # {}
  PROVE  \E x \in T : \A y \in T : y <= x
<1> DEFINE U == {N - y : y \in T}
<1>1. U \subseteq Nat /\ U # {}
  <2>1. ASSUME NEW y \in T PROVE N - y \in Nat
    <3>1. y \in 0 .. N
      OBVIOUS
    <3> QED BY <3>1
  <2>2. PICK y \in T : TRUE
    OBVIOUS
  <2> QED BY <2>1, <2>2, Zenon
<1>2. PICK u \in U : \A w \in U : u <= w
  <2> HIDE DEF U
  <2> QED BY <1>1, NatLeast
<1>3. PICK x \in T : u = N - x
  OBVIOUS
<1>4. ASSUME NEW y \in T PROVE y <= x
  <2>1. N - y \in U
    OBVIOUS
  <2>2. N - x <= N - y
    BY <1>2, <1>3, <2>1
  <2>3. x \in 0 .. N /\ y \in 0 .. N
    OBVIOUS
  <2> QED BY <2>2, <2>3
<1> QED BY <1>4

\* The bitmap scans return an occupied tick of the window, or nothing.
LEMMA HighestLowest ==
  ASSUME NEW N \in Nat, NEW T, T \subseteq 0 .. N
  PROVE  /\ Highest(T) = NoTick \/ Highest(T) \in T
         /\ Lowest(T) = NoTick \/ Lowest(T) \in T
         /\ T # {} => /\ Highest(T) \in T /\ \A t \in T : t <= Highest(T)
                      /\ Lowest(T) \in T /\ \A t \in T : Lowest(T) <= t
<1>1. CASE T = {}
  BY <1>1 DEF Highest, Lowest
<1>2. CASE T # {}
  <2>1. \E t \in T : \A u \in T : u <= t
    BY <1>2, NatGreatest
  <2>2. \E t \in T : \A u \in T : t <= u
    <3>1. T \subseteq Nat
      OBVIOUS
    <3> QED BY <1>2, <3>1, NatLeast
  <2>3. Highest(T) \in T /\ \A u \in T : u <= Highest(T)
    BY <1>2, <2>1, Zenon DEF Highest
  <2>4. Lowest(T) \in T /\ \A u \in T : Lowest(T) <= u
    BY <1>2, <2>2, Zenon DEF Lowest
  <2> QED BY <2>3, <2>4
<1> QED BY <1>1, <1>2

LEMMA LowestOf ==
  ASSUME NEW T, T \subseteq Nat, T # {}
  PROVE  Lowest(T) \in T
<1>1. \E t \in T : \A u \in T : t <= u
  BY NatLeast
<1> QED BY <1>1, Zenon DEF Lowest

\* The walk down a sorted chain finds a predecessor and a successor.
LEMMA ChainExtremes ==
  ASSUME NEW b \in Book, NEW S, S \subseteq Nodes, S # {}
  PROVE  LET Key(m, k) == ChainBefore(b.pool[m].side, b.pool[m].tick,
                                      b.pool[k].side, b.pool[k].tick)
         IN /\ \E m \in S : \A k \in S : ~Key(m, k)
            /\ \E m \in S : \A k \in S : ~Key(k, m)
<1> DEFINE Key(m, k) == ChainBefore(b.pool[m].side, b.pool[m].tick,
                                    b.pool[k].side, b.pool[k].tick)
           N       == 2 * TickLimit + 1
           rank(m) == b.pool[m].tick + IF b.pool[m].side = "ask" THEN TickLimit + 1 ELSE 0
           ranks   == {rank(m) : m \in S}
<1>1. N \in Nat
  BY BookAssumption
<1>2. ASSUME NEW m \in S PROVE rank(m) \in 0 .. N
  <2>1. m \in Links
    BY DEF Nodes, Links
  <2> QED BY <2>1, NodeType, BookAssumption
<1>3. ASSUME NEW m \in S, NEW k \in S, Key(m, k) PROVE rank(m) < rank(k)
  <2>1. m \in Links /\ k \in Links
    BY DEF Nodes, Links
  <2>2. /\ b.pool[m].tick \in 0 .. TickLimit /\ b.pool[k].tick \in 0 .. TickLimit
        /\ b.pool[m].side \in {"bid", "ask"} /\ b.pool[k].side \in {"bid", "ask"}
    BY <2>1, NodeType DEF Sides
  <2> QED BY <1>3, <2>2, BookAssumption DEF ChainBefore
<1> HIDE DEF rank, N, Key
<1>4. ranks \subseteq 0 .. N /\ ranks \subseteq Nat /\ ranks # {}
  BY <1>1, <1>2
<1>5. \E m \in S : \A k \in S : ~Key(m, k)
  <2>1. PICK r \in ranks : \A q \in ranks : q <= r
    <3> HIDE DEF ranks
    <3> QED BY <1>1, <1>4, NatGreatest
  <2>2. PICK m \in S : r = rank(m)
    OBVIOUS
  <2>3. \A k \in S : rank(k) <= rank(m)
    BY <2>1, <2>2
  <2> QED BY <1>1, <1>2, <1>3, <2>3
<1>6. \E m \in S : \A k \in S : ~Key(k, m)
  <2>1. PICK r \in ranks : \A q \in ranks : r <= q
    <3> HIDE DEF ranks
    <3> QED BY <1>4, NatLeast
  <2>2. PICK m \in S : r = rank(m)
    OBVIOUS
  <2>3. \A k \in S : rank(m) <= rank(k)
    BY <2>1, <2>2
  <2> QED BY <1>1, <1>2, <1>3, <2>3
<1> QED BY <1>5, <1>6 DEF Key

LEMMA ChainInsertSortedKept ==
  ASSUME NEW b \in Book, NEW s \in SeatIds, NEW n \in Links
  PROVE  Kept(b, ChainInsertSorted(b, s, n))
<1> DEFINE Key(m, k) == ChainBefore(b.pool[m].side, b.pool[m].tick,
                                    b.pool[k].side, b.pool[k].tick)
           others == LiveOf(b, s) \ {n}
           below  == {m \in others : Key(m, n)}
           above  == others \ below
           prev   == IF below = {} THEN NIL
                     ELSE CHOOSE m \in below : \A k \in below : ~Key(m, k)
           next   == IF above = {} THEN NIL
                     ELSE CHOOSE m \in above : \A k \in above : ~Key(k, m)
<1>1. below \subseteq Nodes /\ above \subseteq Nodes /\ Nodes \subseteq Links
  BY DEF LiveOf, Nodes, Links
<1>2. ChainInsertSorted(b, s, n) = ChainSplice(b, s, prev, next, n)
  BY DEF ChainInsertSorted
<1>3. below # {} => \E m \in below : \A k \in below : ~Key(m, k)
  <2> HIDE DEF below, above
  <2> QED BY <1>1, ChainExtremes
<1>4. above # {} => \E m \in above : \A k \in above : ~Key(k, m)
  <2> HIDE DEF below, above
  <2> QED BY <1>1, ChainExtremes
<1>5. prev \in Links
  <2> HIDE DEF Key, below
  <2> QED BY <1>1, <1>3, NilIsLink
<1>6. next \in Links
  <2> HIDE DEF Key, above
  <2> QED BY <1>1, <1>4, NilIsLink
<1> HIDE DEF prev, next
<1> QED BY <1>2, <1>5, <1>6, ChainSpliceKept

-----------------------------------------------------------------------------
(* Prices stay in the window                                               *)

\* The window is clear of tick 0 and within the tick limit.
WindowClear(b) == b.anchor >= WordTicks /\ LastTick(b) <= TickLimit

InWindow(b, tick) == tick \in b.anchor .. LastTick(b)

LEMMA WindowTick ==
  ASSUME NEW b \in Book, WindowClear(b), NEW tick, InWindow(b, tick)
  PROVE  tick \in 1 .. TickLimit /\ tick \in 0 .. TickLimit /\ tick \in Nat /\ tick # NoTick
<1>1. b.anchor \in Nat
  BY DEF Book
<1> QED BY <1>1, BookAssumption DEF WindowClear, InWindow, LastTick, NoTick

LEMMA BestOfInWindow ==
  ASSUME NEW b \in Book, NEW side \in Sides
  PROVE  BestOf(b, side) = NoTick \/ InWindow(b, BestOf(b, side))
<1>1. b.anchor \in Nat /\ LastTick(b) \in Nat
  BY BookAssumption DEF Book, LastTick
<1>2. ASSUME NEW d \in Sides
      PROVE  TicksOf(b, d) \subseteq b.anchor .. LastTick(b) /\ TicksOf(b, d) \subseteq 0 .. LastTick(b)
  BY <1>1 DEF TicksOf
<1>3. /\ BestOf(b, side) = Highest(TicksOf(b, "bid")) \/ BestOf(b, side) = Lowest(TicksOf(b, "ask"))
      /\ "bid" \in Sides /\ "ask" \in Sides
  BY DEF BestOf, Sides
<1> QED BY <1>1, <1>2, <1>3, HighestLowest DEF InWindow

\* A quote rests inside the window or is refused.
LEMMA CheckOrSlideVsInWindow ==
  ASSUME NEW b \in Book, WindowClear(b), NEW side \in Sides, NEW tick \in Nat,
         NEW slide \in BOOLEAN, NEW opposing,
         opposing = NoTick \/ InWindow(b, opposing)
  PROVE  \/ CheckOrSlideVs(b, side, tick, slide, opposing) = NoTick
         \/ InWindow(b, CheckOrSlideVs(b, side, tick, slide, opposing))
<1> DEFINE t == CheckOrSlideVs(b, side, tick, slide, opposing)
<1>1. b.anchor \in Nat /\ LastTick(b) \in Nat
  BY BookAssumption DEF Book, LastTick
<1>2. CASE tick < b.anchor \/ tick > LastTick(b) \/ tick > TickLimit \/ tick = 0
  BY <1>2 DEF CheckOrSlideVs
<1>3. CASE ~(tick < b.anchor \/ tick > LastTick(b) \/ tick > TickLimit \/ tick = 0)
  <2>1. InWindow(b, tick)
    BY <1>1, <1>3 DEF InWindow
  <2>2. CASE ~Meets(side, tick, opposing) \/ ~slide
    BY <1>3, <2>1, <2>2 DEF CheckOrSlideVs
  <2>3. CASE Meets(side, tick, opposing) /\ slide
    <3>1. opposing \in b.anchor .. LastTick(b)
      BY <2>3 DEF Meets, InWindow
    <3>2. t = IF side = "bid" THEN IF opposing = b.anchor THEN NoTick ELSE opposing - 1
              ELSE IF opposing = LastTick(b) THEN NoTick ELSE opposing + 1
      BY <1>3, <2>3 DEF CheckOrSlideVs
    <3> HIDE DEF t
    <3>3. t = NoTick \/ InWindow(b, t)
      BY <1>1, <3>1, <3>2 DEF InWindow
    <3> QED BY <3>3 DEF t
  <2> QED BY <2>2, <2>3
<1> QED BY <1>2, <1>3

-----------------------------------------------------------------------------
(* The instructions                                                        *)

\* What create_market, set_fee_bps and reanchor establish and nothing else
\* touches: the window is word aligned and clear, the fee rate is capped.
Header(b) == b.anchor % WordTicks = 0 /\ WindowClear(b) /\ b.feeBps <= MaxFeeBps

Good(b) == b \in Book /\ Header(b)

IxType == {Idle} \cup MassQuoteIx \cup TakeIx \cup ReanchorIx \cup ReapIx

\* What an instruction in flight relies on between its steps: a merge's cached
\* opposing price is a tick of the window, a take has spent no more than its
\* size and its fee is part of what it traded, a reanchor's window start is
\* word aligned and on its way to its target.
Progressing(b, i) ==
  /\ i.op = "MassQuote" => i.opposing = NoTick \/ InWindow(b, i.opposing)
  /\ i.op = "Take" => /\ i.fee <= i.quote /\ i.lots <= i.maxLots
                      /\ i.kind # "Swap" => i.seat \in SeatIds
  /\ i.op = "Reanchor" =>
       /\ i.ideal % WordTicks = 0 /\ i.ideal >= WordTicks
       /\ i.ideal + WindowTicks - 1 <= TickLimit
       /\ i.cur % WordTicks = 0
       /\ IF i.ideal > b.anchor THEN b.anchor <= i.cur /\ i.cur <= i.ideal
                                ELSE i.ideal <= i.cur /\ i.cur <= b.anchor
       /\ i.inWord => i.cur # i.ideal

IInv == /\ TypeOK
        /\ Header(book) /\ Header(committed.book)
        /\ Progressing(book, ix)

-----------------------------------------------------------------------------
(* Ending and continuing an instruction                                    *)

LEMMA GoodKept ==
  ASSUME NEW b, NEW c, Good(b), Kept(b, c)
  PROVE  /\ Good(c) /\ \A tick : InWindow(b, tick) <=> InWindow(c, tick)
         /\ \A i : Progressing(b, i) => Progressing(c, i)
BY DEF Good, Header, Kept, WindowClear, InWindow, LastTick, Progressing

LEMMA InvGood == IInv => Good(book) /\ Good(committed.book)
BY DEF IInv, Good, TypeOK

LEMMA IxCases ==
  ASSUME NEW i \in IxType
  PROVE  /\ i.op = "MassQuote" => i \in MassQuoteIx
         /\ i.op = "Take" => i \in TakeIx
         /\ i.op = "Reanchor" => i \in ReanchorIx
         /\ i.op = "ReapExpired" => i \in ReapIx
BY DEF IxType, Idle, MassQuoteIx, TakeIx, ReanchorIx, ReapIx

LEMMA CommitInv ==
  ASSUME IInv, NEW b, Good(b), NEW v \in Vault, Commit(b, v)
  PROVE  IInv'
<1>1. Good(BumpSeq(b))
  BY KeptSelf, ListSetters, SeatsKeptIsKept, GoodKept DEF Good
<1>2. /\ book' = BumpSeq(b) /\ vault' = v /\ ix' = Idle /\ slot' = slot
      /\ committed' = [book |-> BumpSeq(b), vault |-> v]
  BY DEF Commit
<1>3. committed'.book = BumpSeq(b) /\ committed' \in [book : Book, vault : Vault]
  BY <1>1, <1>2 DEF Good
<1>4. Progressing(book', Idle)
  BY DEF Progressing, Idle
<1>5. slot \in Nat /\ Idle \in IxType
  BY DEF IInv, TypeOK, IxType
<1> QED BY <1>1, <1>2, <1>3, <1>4, <1>5 DEF IInv, TypeOK, Good, IxType

LEMMA ContinueInv ==
  ASSUME IInv, NEW b, Good(b), NEW i \in IxType, Progressing(b, i), Continue(b, i)
  PROVE  IInv'
BY DEF IInv, TypeOK, Good, IxType, Continue

LEMMA AbortInv ==
  ASSUME IInv, Abort
  PROVE  IInv'
<1>1. Progressing(book', Idle)
  BY DEF Progressing, Idle
<1> QED BY <1>1 DEF IInv, TypeOK, Abort

-----------------------------------------------------------------------------
(* The first state                                                         *)

LEMMA InitInv == Init => IInv
<1> SUFFICES ASSUME Init PROVE IInv
  OBVIOUS
<1>1. PICK rate \in FeeRates : rate <= MaxFeeBps /\ book = StartBook(rate)
  BY DEF Init
<1>2. ASSUME NEW n \in Links PROVE FreshNode(n) \in OrderNode
  <2>1. NIL \in Links /\ 0 \in 0 .. TickLimit /\ 0 \in SeatIds /\ "bid" \in Sides
        /\ 0 \in 0 .. FreedSeq /\ FreedSeq \in 0 .. FreedSeq /\ 0 \in Nat
    BY BookAssumption DEF NIL, Links, SeatIds, Sides
  <2>2. (IF n \in 1 .. Capacity - 1 THEN n + 1 ELSE NIL) \in Links
    BY <2>1, BookAssumption DEF Links
  <2>3. (IF n = 0 THEN 0 ELSE FreedSeq) \in 0 .. FreedSeq
    BY <2>1
  <2> QED BY <2>1, <2>2, <2>3 DEF FreshNode, OrderNode
<1>3. ASSUME NEW s \in SeatIds PROVE StartSeat(s) \in Seat
  <2>1. (IF s \in Seated THEN CHOOSE o \in Owners : TRUE ELSE Nobody) \in Owners \cup {Nobody}
    BY ProgramAssumption
  <2>2. (IF s \in Seated THEN StartFunds[s] ELSE [a \in Assets |-> 0]) \in [Assets -> Nat]
    BY ProgramAssumption
  <2>3. 0 \in Counts /\ [a \in Assets |-> 0] \in [Assets -> Nat]
    <3>1. U16Max \in Nat
      BY DEF U16Max
    <3> QED BY <3>1 DEF Counts
  <2> QED BY <2>1, <2>2, <2>3, NilIsLink DEF StartSeat, Seat
<1>4. EmptyLevel \in Level
  BY NilIsLink DEF EmptyLevel, Level
<1>5. StartBook(rate) \in Book
  <2>1. /\ [side \in Sides |-> {}] \in [Sides -> SUBSET Ring]
        /\ [l \in Ring |-> EmptyLevel] \in [Ring -> Level]
        /\ [s \in SeatIds |-> StartSeat(s)] \in [SeatIds -> Seat]
        /\ [n \in Links |-> FreshNode(n)] \in [Links -> OrderNode]
    BY <1>2, <1>3, <1>4
  <2>2. /\ StartAnchor \in Nat /\ 1 \in Links /\ Capacity \in Int /\ rate \in Nat /\ 0 \in Nat
        /\ 0 \in 0 .. FreedSeq /\ 0 \in 0 .. SeqModulus - 1
    BY BookAssumption, ProgramAssumption DEF Links
  <2> QED BY <2>1, <2>2 DEF StartBook, Book
<1>6. Header(StartBook(rate))
  BY <1>1, ProgramAssumption DEF StartBook, Header, WindowClear, LastTick
<1>7. Progressing(book, Idle) /\ Idle \in IxType
  BY DEF Progressing, Idle, IxType
<1> QED BY <1>1, <1>5, <1>6, <1>7, ProgramAssumption DEF Init, IInv, TypeOK, IxType, Vault

-----------------------------------------------------------------------------
(* Custody                                                                 *)

LEMMA ClaimSeatInv ==
  ASSUME IInv, NEW o \in Owners, ClaimSeat(o)
  PROVE  IInv'
<1> DEFINE s == CHOOSE f \in FreeSeats : \A g \in FreeSeats : f <= g
           c == SetOwner(book, s, o)
<1>1. s \in SeatIds
  <2>1. FreeSeats \subseteq SeatIds /\ SeatIds \subseteq Nat /\ FreeSeats # {}
    BY BookAssumption DEF ClaimSeat, FreeSeats, SeatIds
  <2>2. \E f \in FreeSeats : \A g \in FreeSeats : f <= g
    BY <2>1, NatLeast
  <2> QED BY <2>1, <2>2
<1>2. Commit(SetOrdersHead(c, s, NIL), vault)
  BY DEF ClaimSeat
<1> HIDE DEF s
<1>3. Kept(book, c)
  BY <1>1, InvGood, SeatSetters DEF Good
<1> HIDE DEF c
<1>4. Good(SetOrdersHead(c, s, NIL))
  BY <1>1, <1>3, InvGood, SeatSetters, NilIsLink, KeptBook, GoodKept
<1> QED BY <1>2, <1>4, CommitInv DEF IInv, TypeOK

LEMMA CloseSeatInv ==
  ASSUME IInv, NEW s \in SeatIds, CloseSeat(s)
  PROVE  IInv'
<1> DEFINE c == SetOwner(book, s, Nobody)
<1>1. Commit(SetOrdersHead(c, s, NIL), vault)
  BY DEF CloseSeat
<1>2. Kept(book, c)
  BY InvGood, SeatSetters DEF Good
<1> HIDE DEF c
<1>3. Good(SetOrdersHead(c, s, NIL))
  BY <1>2, InvGood, SeatSetters, NilIsLink, KeptBook, GoodKept
<1> QED BY <1>1, <1>3, CommitInv DEF IInv, TypeOK

\* Two legs of a seat, base first as in the code; the second leg finds the
\* free balance the first one left alone.
LEMMA TwoLegs ==
  ASSUME NEW b, Good(b), NEW s \in SeatIds, NEW x \in Int, NEW y \in Int,
         NEW a \in Assets, NEW c \in Assets, a # c,
         b.seats[s].free[a] + x >= 0, b.seats[s].free[c] + y >= 0
  PROVE  Good(AddFree(AddFree(b, s, a, x), s, c, y))
<1> DEFINE d == AddFree(b, s, a, x)
<1>1. Kept(b, d) /\ d.seats[s].free[c] = b.seats[s].free[c]
  BY AddFreeKept DEF Good
<1> HIDE DEF d
<1>2. Good(d) /\ d \in Book
  BY <1>1, GoodKept DEF Good
<1>3. Kept(d, AddFree(d, s, c, y))
  BY <1>1, <1>2, AddFreeKept
<1>4. Good(AddFree(d, s, c, y))
  BY <1>2, <1>3, GoodKept
<1> QED BY <1>4 DEF d

\* A transfer brings no more than was asked for, and never a debt.
LEMMA ReceivedType ==
  ASSUME NEW amount \in Nat, NEW x \in Received(amount)
  PROVE  x \in Nat /\ x <= amount
BY ProgramAssumption DEF Received

LEMMA DepositInv ==
  ASSUME IInv, NEW s \in SeatIds, NEW base \in DepositAmounts, NEW quote \in DepositAmounts,
         Deposit(s, base, quote)
  PROVE  IInv'
<1>1. PICK b \in Received(base), q \in Received(quote) :
        Commit(AddFree(AddFree(book, s, "base", b), s, "quote", q),
               [vault EXCEPT !["base"] = @ + b, !["quote"] = @ + q])
  BY DEF Deposit
<1>2. b \in Nat /\ q \in Nat
  BY CustodyAssumption, ReceivedType
<1>3. "base" \in Assets /\ "quote" \in Assets /\ book \in Book
  BY InvGood DEF Assets, Good
<1>4. Good(AddFree(AddFree(book, s, "base", b), s, "quote", q))
  <2>1. book.seats[s].free["base"] + b >= 0 /\ book.seats[s].free["quote"] + q >= 0
    BY <1>2, <1>3, BalanceType
  <2> QED BY <1>2, <1>3, <2>1, InvGood, TwoLegs
<1>5. [vault EXCEPT !["base"] = @ + b, !["quote"] = @ + q] \in Vault
  BY <1>2 DEF IInv, TypeOK, Vault, Assets
<1> QED BY <1>1, <1>4, <1>5, CommitInv

LEMMA WithdrawInv ==
  ASSUME IInv, NEW s \in SeatIds, NEW base \in WithdrawAmounts,
         NEW quote \in WithdrawAmounts, Withdraw(s, base, quote)
  PROVE  IInv'
<1> DEFINE baseOut  == WithdrawOut(s, "base", base)
           quoteOut == WithdrawOut(s, "quote", quote)
<1>1. "base" \in Assets /\ "quote" \in Assets /\ book \in Book
  BY InvGood DEF Assets, Good
<1>2. baseOut \in Nat /\ quoteOut \in Nat
  BY <1>1, CustodyAssumption, BalanceType DEF WithdrawOut
<1>3. /\ book.seats[s].free["base"] >= baseOut /\ book.seats[s].free["quote"] >= quoteOut
      /\ vault["base"] >= baseOut /\ vault["quote"] >= quoteOut
      /\ Commit(AddFree(AddFree(book, s, "base", -baseOut), s, "quote", -quoteOut),
                [vault EXCEPT !["base"] = @ - baseOut, !["quote"] = @ - quoteOut])
  BY DEF Withdraw
<1> HIDE DEF baseOut, quoteOut
<1>4. Good(AddFree(AddFree(book, s, "base", -baseOut), s, "quote", -quoteOut))
  <2>1. /\ book.seats[s].free["base"] + (-baseOut) >= 0
        /\ book.seats[s].free["quote"] + (-quoteOut) >= 0
        /\ -baseOut \in Int /\ -quoteOut \in Int
    BY <1>1, <1>2, <1>3, BalanceType
  <2> QED BY <1>1, <2>1, InvGood, TwoLegs
<1>5. [vault EXCEPT !["base"] = @ - baseOut, !["quote"] = @ - quoteOut] \in Vault
  BY <1>2, <1>3 DEF IInv, TypeOK, Vault, Assets
<1> QED BY <1>3, <1>4, <1>5, CommitInv

LEMMA CollectFeesInv ==
  ASSUME IInv, CollectFees
  PROVE  IInv'
<1>1. Good([book EXCEPT !.fees = 0])
  BY InvGood DEF Good, Header, Book, WindowClear, LastTick
<1>2. book.fees \in Nat /\ vault["quote"] >= book.fees
  BY InvGood DEF Good, Book, CollectFees
<1>3. [vault EXCEPT !["quote"] = @ - book.fees] \in Vault
  BY <1>2 DEF IInv, TypeOK, Vault, Assets
<1> QED BY <1>1, <1>3, CommitInv DEF CollectFees

LEMMA UpdateFeeInv ==
  ASSUME IInv, NEW rate \in FeeRates, UpdateFee(rate)
  PROVE  IInv'
<1>1. rate \in Nat /\ rate <= MaxFeeBps
  BY ProgramAssumption DEF UpdateFee
<1>2. Good([book EXCEPT !.feeBps = rate])
  BY <1>1, InvGood DEF Good, Header, Book, WindowClear, LastTick
<1> QED BY <1>2, CommitInv DEF UpdateFee, IInv, TypeOK

LEMMA CustodyInv == ASSUME IInv, CustodyNext PROVE IInv'
BY ClaimSeatInv, CloseSeatInv, DepositInv, WithdrawInv, CollectFeesInv, UpdateFeeInv
   DEF CustodyNext

-----------------------------------------------------------------------------
(* upsert_order                                                            *)

LEMMA QuoteAtType ==
  ASSUME NEW b \in Book, NEW s \in SeatIds, NEW side \in Sides, NEW tick,
         QuotesAt(b, s, side, tick) # {}
  PROVE  LET n == QuoteAt(b, s, side, tick)
         IN n \in Nodes /\ n \in Links /\ b.pool[n].side = side /\ b.pool[n].tick = tick
<1>1. QuoteAt(b, s, side, tick) \in QuotesAt(b, s, side, tick)
  BY DEF QuoteAt
<1>2. Nodes \subseteq Links
  BY DEF Nodes, Links
<1> QED BY <1>1, <1>2 DEF QuotesAt, LiveOf

\* A fresh order on book b.
LEMMA PostKept ==
  ASSUME NEW b \in Book, NEW s \in SeatIds, NEW side \in Sides, NEW tick \in 0 .. TickLimit,
         NEW lots \in Nat, NEW expiry \in Nat, CanPost(b, s, side, tick, lots)
  PROVE  Kept(b, Post(b, s, side, tick, lots, expiry))
<1> DEFINE q == QuoteAt(b, s, side, tick)
           c == Cleared(b, s, side, tick, lots)
           d == LockAndInsert(c, s, side, tick, lots, expiry)
<1>1. Kept(b, c)
  <2>1. CASE Grows(b, s, side, tick, lots)
    <3>1. q \in Links /\ Refundable(b, q)
      BY <2>1, QuoteAtType DEF CanPost, Grows
    <3>2. c = KillOrder(b, q)
      BY <2>1 DEF Cleared
    <3> HIDE DEF q, c
    <3> QED BY <3>1, <3>2, KillOrderKept
  <2>2. CASE ~Grows(b, s, side, tick, lots)
    BY <2>2, KeptSelf, SeatsKeptIsKept DEF Cleared
  <2> QED BY <2>1, <2>2
<1>2. CanInsert(c, s, side, tick, lots)
  BY DEF CanPost
<1>3. Post(b, s, side, tick, lots, expiry) = ChainInsertSorted(d, s, c.freeHead)
  BY DEF Post
<1> HIDE DEF c
<1>4. Kept(c, d) /\ c.freeHead \in Links
  <2>1. c \in Book
    BY <1>1, KeptBook
  <2> QED BY <1>2, <2>1, LockAndInsertKept DEF Book
<1> HIDE DEF d
<1> QED BY <1>1, <1>3, <1>4, ChainInsertSortedKept, KeptBook, KeptTrans

LEMMA UpsertKept ==
  ASSUME NEW b \in Book, WindowClear(b), NEW s \in SeatIds, NEW side \in Sides,
         NEW tick \in Nat, NEW lots \in Nat, NEW expiry \in Nat, NEW slide \in BOOLEAN,
         CanUpsert(b, s, side, tick, lots, slide)
  PROVE  Kept(b, Upsert(b, s, side, tick, lots, expiry, slide))
<1> DEFINE t == CheckOrSlide(b, side, tick, slide)
           q == QuoteAt(b, s, side, t)
<1>1. t \in 0 .. TickLimit
  <2>1. t # NoTick
    BY DEF CanUpsert
  <2>2. BestOf(b, Opposite(side)) = NoTick \/ InWindow(b, BestOf(b, Opposite(side)))
    BY OppositeType, BestOfInWindow
  <2>3. InWindow(b, t)
    BY <2>1, <2>2, CheckOrSlideVsInWindow DEF CheckOrSlide
  <2> HIDE DEF t
  <2> QED BY <2>3, WindowTick
<1>2. CASE Amends(b, s, side, t, lots)
  <2>1. /\ Upsert(b, s, side, tick, lots, expiry, slide) = ShrinkOrder(b, s, q, lots, expiry)
        /\ CanShrink(b, s, side, t, lots)
    BY <1>2 DEF Upsert, CanUpsert
  <2> HIDE DEF t
  <2>2. /\ q \in Links /\ b.pool[q].side = side /\ b.pool[q].tick = t
        /\ lots <= b.pool[q].lots
    BY <1>2, QuoteAtType DEF Amends
  <2>3. CanUnlock(b, s, LockedAsset(b.pool[q].side),
                  LockedAtoms(b.pool[q].side, b.pool[q].tick, b.pool[q].lots - lots))
    BY <2>1, <2>2 DEF CanShrink
  <2> HIDE DEF q
  <2> QED BY <2>1, <2>2, <2>3, ShrinkOrderKept
<1>3. CASE ~Amends(b, s, side, t, lots)
  <2>1. /\ Upsert(b, s, side, tick, lots, expiry, slide) = Post(b, s, side, t, lots, expiry)
        /\ CanPost(b, s, side, t, lots)
    BY <1>3 DEF Upsert, CanUpsert
  <2> HIDE DEF t
  <2> QED BY <1>1, <2>1, PostKept
<1> QED BY <1>2, <1>3

-----------------------------------------------------------------------------
(* PlaceLimit post-only and zero-size, Cancel                              *)

LEMMA PostOnlyInv ==
  ASSUME IInv, NEW s \in SeatIds, NEW side \in Sides, NEW tick \in InTicks,
         NEW lots \in InLots, NEW reject \in BOOLEAN, NEW expiry \in InExpiries,
         PostOnly(s, side, tick, lots, reject, expiry)
  PROVE  IInv'
<1> DEFINE c == Upsert(book, s, side, tick, lots, expiry, ~reject)
<1>1. tick \in Nat /\ lots \in Nat /\ expiry \in Nat /\ (~reject) \in BOOLEAN
  <2>1. tick \in Nat /\ lots \in Nat /\ expiry \in Nat
    BY MakerAssumption
  <2>2. (~reject) \in BOOLEAN
    OBVIOUS
  <2> QED BY <2>1, <2>2
<1>2. CanUpsert(book, s, side, tick, lots, ~reject) /\ Commit(c, vault)
  BY DEF PostOnly
<1>3. book \in Book /\ WindowClear(book)
  BY InvGood DEF Good, Header
<1>4. Kept(book, c)
  BY <1>1, <1>2, <1>3, UpsertKept
<1> HIDE DEF c
<1> QED BY <1>2, <1>4, InvGood, GoodKept, CommitInv DEF IInv, TypeOK

LEMMA CancelQuoteInv ==
  ASSUME IInv, NEW s \in SeatIds, NEW side \in Sides, NEW tick \in InTicks,
         CancelQuote(s, side, tick)
  PROVE  IInv'
<1> DEFINE n == QuoteAt(book, s, side, tick)
<1>1. n \in Links /\ Refundable(book, n) /\ Commit(KillOrder(book, n), vault)
  BY InvGood, QuoteAtType DEF CancelQuote, Good
<1> HIDE DEF n
<1>2. Kept(book, KillOrder(book, n))
  BY <1>1, InvGood, KillOrderKept DEF Good
<1> QED BY <1>1, <1>2, InvGood, GoodKept, CommitInv DEF IInv, TypeOK

LEMMA CancelInv ==
  ASSUME IInv, NEW s \in SeatIds, NEW n \in Nodes, NEW id \in CancelIds, Cancel(s, n, id)
  PROVE  IInv'
<1>1. n \in Links /\ Refundable(book, n) /\ Commit(KillOrder(book, n), vault)
  BY DEF Cancel, Nodes, Links
<1>2. Kept(book, KillOrder(book, n))
  BY <1>1, InvGood, KillOrderKept DEF Good
<1> QED BY <1>1, <1>2, InvGood, GoodKept, CommitInv DEF IInv, TypeOK

-----------------------------------------------------------------------------
(* MassQuote                                                               *)

LEMMA BeginMassQuoteInv ==
  ASSUME IInv, NEW s \in SeatIds, NEW bids \in Payloads, NEW asks \in Payloads,
         NEW expiry \in InExpiries, BeginMassQuote(s, bids, asks, expiry)
  PROVE  IInv'
<1> DEFINE best == BestOf(book, "ask")
           i    == [op |-> "MassQuote", seat |-> s, bids |-> bids, asks |-> asks,
                    expiry |-> expiry, side |-> "bid", qi |-> 0,
                    prev |-> NIL, cur |-> book.seats[s].head,
                    lastTick |-> 0, lastUsed |-> 0, opposing |-> best]
<1>1. best = NoTick \/ InWindow(book, best)
  BY InvGood, BestOfInWindow DEF Good, Sides
<1>2. best \in Nat
  BY <1>1, InvGood, WindowTick DEF NoTick, Good, Header
<1>3. Continue(book, i)
  BY DEF BeginMassQuote
<1> HIDE DEF best
<1>4. i \in MassQuoteIx
  <2>1. expiry \in Nat /\ book.seats[s].head \in Links
    BY MakerAssumption, InvGood DEF Good, Book, Seat
  <2> QED BY <1>2, <2>1, NilIsLink DEF MassQuoteIx, Sides
<1>5. Progressing(book, i)
  BY <1>1 DEF Progressing
<1> HIDE DEF i
<1> QED BY <1>3, <1>4, <1>5, InvGood, ContinueInv DEF IxType

LEMMA MergeType ==
  ASSUME IInv, Merging
  PROVE  /\ ix \in MassQuoteIx /\ ix.cur \in Links /\ ix.seat \in SeatIds
         /\ ix.side \in Sides /\ ix.expiry \in Nat /\ ix.qi \in Nat
         /\ HasQuote(ix) => /\ Quote(ix).tick \in Nat /\ Quote(ix).lots \in Nat
                            /\ Quote(ix).reject \in BOOLEAN
<1>1. ix \in MassQuoteIx
  BY IxCases DEF IInv, TypeOK, IxType, Merging
<1>2. /\ ix.cur \in Links /\ ix.seat \in SeatIds /\ ix.side \in Sides
      /\ ix.expiry \in Nat /\ ix.qi \in Nat /\ Payload(ix) \in Payloads
  BY <1>1 DEF MassQuoteIx, Payload
<1>3. ASSUME HasQuote(ix) PROVE Quote(ix) \in [tick : Nat, lots : Nat, reject : BOOLEAN]
  <2>1. Payload(ix) \in Seq([tick : Nat, lots : Nat, reject : BOOLEAN])
    BY <1>2, MakerAssumption
  <2>2. ix.qi + 1 \in 1 .. Len(Payload(ix))
    BY <1>2, <1>3, <2>1 DEF HasQuote
  <2>3. ASSUME NEW S, NEW p \in Seq(S), NEW k \in 1 .. Len(p) PROVE p[k] \in S
    OBVIOUS
  <2> QED BY <2>1, <2>2, <2>3, Zenon DEF Quote
<1> QED BY <1>1, <1>2, <1>3

LEMMA MergeCancelInv ==
  ASSUME IInv, MergeCancel
  PROVE  IInv'
<1> DEFINE c == KillOrder(book, ix.cur)
           i == [ix EXCEPT !.cur = book.pool[ix.cur].makerNext]
<1>1. Continue(c, i) /\ Refundable(book, ix.cur) /\ Merging
  BY DEF MergeCancel
<1>2. ix \in MassQuoteIx /\ ix.cur \in Links /\ book \in Book
  BY <1>1, MergeType, InvGood DEF Good
<1>3. Kept(book, c)
  BY <1>1, <1>2, KillOrderKept
<1>4. i \in MassQuoteIx /\ i.op = ix.op /\ i.opposing = ix.opposing
  BY <1>2, NodeType DEF MassQuoteIx
<1>5. Progressing(book, i)
  BY <1>1, <1>4 DEF Progressing, IInv, Merging
<1> HIDE DEF c, i
<1> QED BY <1>1, <1>3, <1>4, <1>5, InvGood, GoodKept, ContinueInv DEF IxType

LEMMA MergeKeepInv ==
  ASSUME IInv, MergeKeep
  PROVE  IInv'
<1> DEFINE q  == Quote(ix)
           nd == book.pool[ix.cur]
           c  == ShrinkOrder(book, ix.seat, ix.cur, q.lots, ix.expiry)
           i  == [ix EXCEPT !.lastUsed = q.tick, !.lastTick = q.tick,
                            !.qi = @ + 1, !.prev = ix.cur, !.cur = nd.makerNext]
<1>1. /\ Continue(c, i) /\ Merging /\ HasQuote(ix) /\ nd.tick = q.tick /\ q.lots <= nd.lots
      /\ nd.side = ix.side
      /\ CanUnlock(book, ix.seat, LockedAsset(ix.side),
                   LockedAtoms(ix.side, q.tick, nd.lots - q.lots))
  BY DEF MergeKeep, InRegion
<1>2. /\ ix \in MassQuoteIx /\ ix.cur \in Links /\ ix.seat \in SeatIds /\ book \in Book
      /\ ix.expiry \in Nat /\ q.tick \in Nat /\ q.lots \in Nat
  BY <1>1, MergeType, InvGood DEF Good
<1> HIDE DEF q
<1>3. Kept(book, c)
  BY <1>1, <1>2, ShrinkOrderKept
<1>4. i \in MassQuoteIx /\ i.op = ix.op /\ i.opposing = ix.opposing
  <2>1. nd.makerNext \in Links /\ ix.qi + 1 \in Nat
    BY <1>2, NodeType DEF MassQuoteIx
  <2> QED BY <1>2, <2>1 DEF MassQuoteIx
<1>5. Progressing(book, i)
  BY <1>1, <1>4 DEF Progressing, IInv, Merging
<1> HIDE DEF c, i
<1> QED BY <1>1, <1>3, <1>4, <1>5, InvGood, GoodKept, ContinueInv DEF IxType

\* Posting a payload quote at the cursor, on the book as it is or with the
\* quote it replaces ended.
LEMMA MassQuoteInsertInv ==
  ASSUME IInv, Merging, HasQuote(ix), NEW b, Kept(book, b), NEW next \in Links,
         NEW nextTick, MassQuoteInsert(b, next, nextTick)
  PROVE  IInv'
<1> DEFINE q    == Quote(ix)
           tick == CheckOrSlideVs(b, ix.side, q.tick, ~q.reject, ix.opposing)
           n    == b.freeHead
           c    == LockAndInsert(b, ix.seat, ix.side, tick, q.lots, ix.expiry)
           d    == ChainSplice(c, ix.seat, ix.prev, next, n)
           i    == [ix EXCEPT !.prev = n, !.cur = next, !.lastUsed = tick,
                              !.lastTick = q.tick, !.qi = @ + 1]
<1>1. CASE Abort
  BY <1>1, AbortInv
<1>2. CASE /\ tick # NoTick /\ CanInsert(b, ix.seat, ix.side, tick, q.lots)
           /\ Continue(d, i)
  <2>1. /\ ix \in MassQuoteIx /\ ix.seat \in SeatIds /\ ix.side \in Sides
        /\ ix.expiry \in Nat /\ q.tick \in Nat /\ q.lots \in Nat
        /\ ix.prev \in Links /\ ix.qi + 1 \in Nat
    BY MergeType DEF MassQuoteIx
  <2>2. (~q.reject) \in BOOLEAN
    BY MergeType
  <2> HIDE DEF q
  <2>3. Good(b) /\ b \in Book /\ WindowClear(b) /\ n \in Links
    BY InvGood, GoodKept DEF Good, Header, Book
  <2>4. ix.opposing = NoTick \/ InWindow(b, ix.opposing)
    BY InvGood, GoodKept DEF IInv, Progressing, Merging
  <2>5. tick \in 0 .. TickLimit /\ tick \in Nat
    <3>1. InWindow(b, tick)
      BY <1>2, <2>1, <2>2, <2>3, <2>4, CheckOrSlideVsInWindow
    <3> HIDE DEF tick
    <3> QED BY <2>3, <3>1, WindowTick
  <2> HIDE DEF tick
  <2>6. Kept(b, c)
    BY <1>2, <2>1, <2>3, <2>5, LockAndInsertKept
  <2> HIDE DEF n
  <2>7. Kept(c, d)
    <3> HIDE DEF c
    <3> QED BY <2>1, <2>3, <2>6, KeptBook, ChainSpliceKept
  <2>8. i \in MassQuoteIx /\ i.op = ix.op /\ i.opposing = ix.opposing
    BY <2>1, <2>3, <2>5 DEF MassQuoteIx
  <2>9. Progressing(book, i)
    BY <2>8 DEF Progressing, IInv, Merging
  <2> HIDE DEF c, d, i
  <2> QED BY <1>2, <2>6, <2>7, <2>8, <2>9, InvGood, KeptTrans, GoodKept, ContinueInv DEF IxType
<1> QED BY <1>1, <1>2 DEF MassQuoteInsert

LEMMA MergeInsertInv ==
  ASSUME IInv, MergeInsert
  PROVE  IInv'
<1>1. Merging /\ HasQuote(ix)
  BY DEF MergeInsert
<1>2. ix.cur \in Links /\ Kept(book, book)
  BY <1>1, MergeType, InvGood, KeptSelf, SeatsKeptIsKept DEF Good
<1> QED BY <1>1, <1>2, MassQuoteInsertInv DEF MergeInsert

LEMMA MergeRepostInv ==
  ASSUME IInv, MergeRepost
  PROVE  IInv'
<1>1. Merging /\ HasQuote(ix) /\ Refundable(book, ix.cur)
  BY DEF MergeRepost
<1>2. ix.cur \in Links /\ book \in Book
  BY <1>1, MergeType, InvGood DEF Good
<1>3. Kept(book, KillOrder(book, ix.cur)) /\ book.pool[ix.cur].makerNext \in Links
  BY <1>1, <1>2, KillOrderKept, NodeType
<1> QED BY <1>1, <1>3, MassQuoteInsertInv DEF MergeRepost

LEMMA MergeAsksInv ==
  ASSUME IInv, MergeAsks
  PROVE  IInv'
<1> DEFINE best == BestOf(book, "bid")
           i    == [ix EXCEPT !.side = "ask", !.qi = 0, !.lastTick = 0,
                              !.lastUsed = 0, !.opposing = best]
<1>1. Continue(book, i) /\ Merging
  BY DEF MergeAsks, MergeDone
<1>2. best = NoTick \/ InWindow(book, best)
  BY InvGood, BestOfInWindow DEF Good, Sides
<1>3. best \in Nat
  BY <1>2, InvGood, WindowTick DEF NoTick, Good, Header
<1> HIDE DEF best
<1>4. i \in MassQuoteIx /\ i.op = "MassQuote" /\ i.opposing = best
  BY <1>1, <1>3, MergeType DEF MassQuoteIx, Sides
<1>5. Progressing(book, i)
  BY <1>2, <1>4 DEF Progressing
<1> HIDE DEF i
<1> QED BY <1>1, <1>4, <1>5, InvGood, ContinueInv DEF IxType

LEMMA MergeStepInv == ASSUME IInv, MergeStep PROVE IInv'
<1>1. CASE MergeRefuse
  BY <1>1, AbortInv DEF MergeRefuse
<1>2. CASE MergeCommit
  BY <1>2, InvGood, CommitInv DEF MergeCommit, IInv, TypeOK
<1> QED BY <1>1, <1>2, MergeCancelInv, MergeKeepInv, MergeInsertInv, MergeRepostInv,
           MergeAsksInv DEF MergeStep

LEMMA MakerInv == ASSUME IInv, MakerNext PROVE IInv'
BY PostOnlyInv, CancelQuoteInv, CancelInv, BeginMassQuoteInv DEF MakerNext

-----------------------------------------------------------------------------
(* Matching                                                                *)

LEMMA Products == /\ \A x, y \in Nat : x * y \in Nat
                  /\ \A x, y \in Int : x * y \in Int
                  /\ \A x \in Int, d \in Nat \ {0} : x \div d \in Int
OBVIOUS

\* A share rounded down is at most the whole.
LEMMA ShareOfWhole ==
  ASSUME NEW n \in Nat, NEW f \in Nat, NEW d \in Nat \ {0}, f <= d
  PROVE  (n * f) \div d \in Nat /\ (n * f) \div d <= n
<1> DEFINE m == n * f
           q == m \div d
<1>1. m \in Nat /\ n * d \in Nat
  BY Products
<1>2. m <= n * d
  <2>1. PICK k \in Nat : d = f + k
    <3>1. d - f \in Nat /\ d = f + (d - f)
      OBVIOUS
    <3> QED BY <3>1
  <2>2. n * d = n * f + n * k /\ n * k \in Nat
    BY <2>1
  <2> QED BY <2>2, <1>1
<1> HIDE DEF m
<1>3. q \in Nat /\ q * d <= m
  BY <1>1
<1> HIDE DEF q
<1>4. ASSUME q > n PROVE FALSE
  <2>1. PICK k \in Nat : q = n + 1 + k
    <3>1. q - (n + 1) \in Nat /\ q = n + 1 + (q - (n + 1))
      BY <1>3, <1>4
    <3> QED BY <3>1
  <2>2. q * d = n * d + d + k * d /\ k * d \in Nat
    BY <2>1
  <2> QED BY <1>1, <1>2, <1>3, <2>2
<1> QED BY <1>3, <1>4 DEF q, m

LEMMA TakeType ==
  ASSUME IInv, Taking
  PROVE  /\ ix \in TakeIx /\ ix.side \in Sides /\ ix.limit \in Nat /\ ix.maxLots \in Nat
         /\ ix.maxQuote \in Nat /\ ix.expiry \in Nat /\ ix.minOut \in Nat /\ ix.delta \in Nat
         /\ ix.lots \in Nat /\ ix.quote \in Nat /\ ix.fee \in Nat
         /\ ix.fee <= ix.quote /\ ix.lots <= ix.maxLots
         /\ ix.kind # "Swap" => ix.seat \in SeatIds
<1>1. ix \in TakeIx
  BY IxCases DEF IInv, TypeOK, IxType, Taking
<1> QED BY <1>1 DEF TakeIx, IInv, Progressing, Taking

LEMMA BeginTakeInv ==
  ASSUME IInv, NEW kind \in {"PlaceLimit", "PlaceTake"}, NEW s \in SeatIds,
         NEW side \in Sides, NEW limit \in Nat, NEW lots \in Nat,
         NEW policy \in Policies, NEW expiry \in Nat, NEW minOut \in Nat,
         Continue(book, Take(kind, s, side, limit, lots, U64Max, policy, expiry, minOut, 0))
  PROVE  IInv'
<1> DEFINE i == Take(kind, s, side, limit, lots, U64Max, policy, expiry, minOut, 0)
<1>1. i \in TakeIx
  <2>1. U64Max \in Nat /\ policy \in {"abort", "cancel"} /\ NoTick \in Nat
    BY ProgramAssumption, TakerAssumption DEF NoTick
  <2> QED BY <2>1 DEF Take, TakeIx
<1>2. Progressing(book, i)
  BY DEF Progressing, Take
<1> HIDE DEF i
<1> QED BY <1>1, <1>2, InvGood, ContinueInv DEF i, IxType

LEMMA BeginSwapInv ==
  ASSUME IInv, NEW side \in Sides, NEW limit \in InTicks, NEW amount \in SwapAmounts,
         NEW minOut \in MinOuts, BeginSwap(side, limit, amount, minOut)
  PROVE  IInv'
<1>0. PICK delta \in Received(amount) : SwapWith(side, limit, delta, minOut)
  BY DEF BeginSwap
<1> DEFINE asset  == IF side = "bid" THEN "quote" ELSE "base"
           lotsIn == delta \div BaseLotSize
           lots   == IF side = "bid" \/ lotsIn > MaxLots THEN MaxLots ELSE lotsIn
           budget == IF side = "bid" THEN delta ELSE U64Max
           i      == Take("Swap", NoSeat, side, limit, lots, budget, "cancel", 0, minOut, delta)
<1>1. /\ vault' = [vault EXCEPT ![asset] = @ + delta] /\ ix' = i
      /\ book' = book /\ committed' = committed /\ slot' = slot
  BY <1>0 DEF SwapWith
<1>2. delta \in Nat /\ limit \in Nat /\ minOut \in Nat /\ budget \in Nat
  BY TakerAssumption, MakerAssumption, ProgramAssumption, ReceivedType
<1>3. lots \in Nat
  <2>1. lotsIn \in Nat
    BY <1>2, BookAssumption
  <2> HIDE DEF lotsIn
  <2> QED BY <2>1, BookAssumption
<1>4. vault' \in Vault
  BY <1>1, <1>2 DEF IInv, TypeOK, Vault, Assets
<1> HIDE DEF lots, budget
<1>5. i \in TakeIx
  <2>1. NoTick \in Nat
    BY DEF NoTick
  <2> QED BY <1>2, <1>3, <2>1 DEF Take, TakeIx
<1>6. Progressing(book, i)
  BY <1>3 DEF Progressing, Take
<1> HIDE DEF i
<1> QED BY <1>1, <1>4, <1>5, <1>6 DEF IInv, TypeOK

\* The order the walk looks at.
LEMMA TakeHeadType ==
  ASSUME IInv, Taking, AtOrder(ix)
  PROVE  /\ BookSide(ix) \in Sides /\ TakeHead(book, ix) \in Links
         /\ InWindow(book, TakeLevel(book, ix)) /\ TakeLevel(book, ix) \in 1 .. TickLimit
         /\ TakeLevel(book, ix) \in Nat
<1> DEFINE T == LevelsLeft(book, ix)
           t == TakeLevel(book, ix)
<1>1. BookSide(ix) \in Sides /\ book \in Book /\ WindowClear(book)
  BY TakeType, OppositeType, InvGood DEF BookSide, Good, Header
<1>2. T \subseteq book.anchor .. LastTick(book) /\ T \subseteq 0 .. TickLimit
  <2>1. book.anchor \in Nat /\ LastTick(book) \in Int /\ LastTick(book) <= TickLimit
    BY <1>1, BookAssumption DEF Book, LastTick, WindowClear
  <2>2. T \subseteq book.anchor .. LastTick(book)
    BY DEF LevelsLeft, TicksOf
  <2> HIDE DEF T
  <2> QED BY <2>1, <2>2, BookAssumption
<1>3. t = Lowest(T) \/ t = Highest(T)
  BY DEF TakeLevel
<1>4. t # NoTick
  BY DEF AtOrder
<1> HIDE DEF T, t
<1>5. InWindow(book, t)
  <2>1. /\ Highest(T) = NoTick \/ Highest(T) \in T
        /\ Lowest(T) = NoTick \/ Lowest(T) \in T
    BY <1>2, BookAssumption, HighestLowest
  <2>2. t \in T
    BY <1>3, <1>4, <2>1
  <2> QED BY <1>2, <2>2 DEF InWindow
<1>6. t \in 1 .. TickLimit /\ t \in Nat
  BY <1>1, <1>5, WindowTick
<1>7. TakeHead(book, ix) \in Links
  BY <1>1, <1>6, SlotInRing, LevelType DEF TakeHead, t
<1> QED BY <1>1, <1>5, <1>6, <1>7 DEF t

\* Ending the order at the walk's head, without a fill.
LEMMA TakeEndsInv ==
  ASSUME IInv, Taking, AtOrder(ix), Refundable(book, TakeHead(book, ix)),
         Continue(KillOrder(book, TakeHead(book, ix)),
                  [ix EXCEPT !.at = TakeLevel(book, ix)])
  PROVE  IInv'
<1> DEFINE c == KillOrder(book, TakeHead(book, ix))
           t == TakeLevel(book, ix)
           i == [ix EXCEPT !.at = t]
<1>1. Kept(book, c) /\ t \in Nat
  BY TakeHeadType, InvGood, KillOrderKept DEF Good
<1> HIDE DEF t
<1>2. /\ i \in TakeIx /\ i.op = ix.op /\ i.fee = ix.fee /\ i.quote = ix.quote
      /\ i.lots = ix.lots /\ i.maxLots = ix.maxLots /\ i.kind = ix.kind /\ i.seat = ix.seat
  <2>1. ix \in TakeIx
    BY TakeType
  <2> QED BY <1>1, <2>1 DEF TakeIx
<1>3. Progressing(book, i)
  BY <1>2, TakeType DEF Progressing, Taking
<1> HIDE DEF c, i
<1> QED BY <1>1, <1>2, <1>3, InvGood, GoodKept, ContinueInv DEF c, i, t, IxType

LEMMA FillLotsType ==
  ASSUME IInv, Taking, AtOrder(ix), FillLots(book, ix) > 0
  PROVE  /\ FillLots(book, ix) \in Nat
         /\ FillLots(book, ix) <= book.pool[TakeHead(book, ix)].lots
         /\ FillLots(book, ix) <= Remaining(ix)
<1> DEFINE lots   == book.pool[TakeHead(book, ix)].lots
           rest   == Remaining(ix)
           fill   == Least(lots, rest)
           afford == Affordable(book, ix)
<1>1. lots \in Nat /\ rest \in Int
  BY TakeHeadType, TakeType, InvGood, NodeType DEF Good, Remaining
<1>2. afford \in Int
  <2> DEFINE budget == ix.maxQuote - ix.quote - ix.fee
             whole  == FeeDenominator + book.feeBps
             capped == IF budget > U64Max \div whole THEN U64Max \div whole ELSE budget
             price  == TakeLevel(book, ix) * TickSize
  <2>1. budget \in Int
    BY TakeType
  <2>2. whole \in Nat \ {0}
    BY InvGood, ProgramAssumption DEF Good, Book
  <2>3. price \in Nat \ {0}
    <3>1. TakeLevel(book, ix) \in Nat \ {0} /\ TickSize \in Nat \ {0}
      BY TakeHeadType, BookAssumption
    <3>2. ASSUME NEW x \in Nat \ {0}, NEW y \in Nat \ {0} PROVE x * y \in Nat \ {0}
      OBVIOUS
    <3> QED BY <3>1, <3>2
  <2> HIDE DEF budget, whole, price
  <2>4. capped \in Int
    BY <2>1, <2>2, ProgramAssumption, Products
  <2>5. afford = ((capped * FeeDenominator) \div whole) \div price
    BY DEF Affordable, budget, whole, price
  <2> HIDE DEF capped, afford
  <2>6. capped * FeeDenominator \in Int
    BY <2>4, ProgramAssumption, Products
  <2>7. (capped * FeeDenominator) \div whole \in Int
    BY <2>2, <2>6, Products
  <2> QED BY <2>3, <2>5, <2>7, Products
<1>3. FillLots(book, ix) = IF ix.maxQuote = U64Max THEN fill ELSE Least(fill, afford)
  BY DEF FillLots
<1> HIDE DEF lots, rest, afford
<1>4. FillLots(book, ix) \in Nat /\ FillLots(book, ix) <= lots /\ FillLots(book, ix) <= rest
  BY <1>1, <1>2, <1>3 DEF Least
<1> QED BY <1>4 DEF lots, rest

LEMMA TakeFillInv ==
  ASSUME IInv, TakeFill
  PROVE  IInv'
<1> DEFINE tick     == TakeLevel(book, ix)
           head     == TakeHead(book, ix)
           fill     == FillLots(book, ix)
           notional == Notional(tick, fill)
           side     == BookSide(ix)
           fee      == FeeOn(book, notional)
           c        == FillOrder(book, side, tick, head, fill)
           i        == [ix EXCEPT !.at = tick, !.lots = @ + fill, !.quote = @ + notional,
                                  !.fee = @ + fee]
<1>1. /\ Taking /\ AtOrder(ix) /\ fill > 0
      /\ CanUnlock(book, book.pool[head].maker, LockedAsset(side),
                   LockedAtoms(side, tick, fill))
      /\ Continue(c, i)
  BY DEF TakeFill
<1>2. side \in Sides /\ head \in Links /\ tick \in Nat
  BY <1>1, TakeHeadType
<1>3. fill \in Nat /\ fill <= book.pool[head].lots /\ fill <= Remaining(ix)
  BY <1>1, FillLotsType
<1> HIDE DEF side, head, tick, fill
<1>4. Kept(book, c)
  BY <1>1, <1>2, <1>3, InvGood, FillOrderKept DEF Good
<1>5. notional \in Nat
  BY <1>2, <1>3, Products, BookAssumption DEF Notional
<1> HIDE DEF notional
<1>6. fee \in Nat /\ fee <= notional
  <2>1. book.feeBps \in Nat /\ book.feeBps <= FeeDenominator
    BY InvGood, ProgramAssumption DEF Good, Header, Book
  <2> QED BY <1>5, <2>1, ShareOfWhole, ProgramAssumption DEF FeeOn
<1> HIDE DEF fee
<1>7. /\ i \in TakeIx /\ i.op = ix.op /\ i.maxLots = ix.maxLots /\ i.kind = ix.kind
      /\ i.seat = ix.seat /\ i.lots = ix.lots + fill /\ i.quote = ix.quote + notional
      /\ i.fee = ix.fee + fee
  <2>1. ix \in TakeIx /\ ix.lots \in Nat /\ ix.quote \in Nat /\ ix.fee \in Nat
    BY <1>1, TakeType
  <2>2. ix.lots + fill \in Nat /\ ix.quote + notional \in Nat /\ ix.fee + fee \in Nat
    BY <1>3, <1>5, <1>6, <2>1
  <2>3. i \in TakeIx
    BY <1>2, <2>1, <2>2 DEF TakeIx
  <2>4. i.op = ix.op /\ i.maxLots = ix.maxLots /\ i.kind = ix.kind /\ i.seat = ix.seat
    BY <2>1 DEF TakeIx
  <2>5. i.lots = ix.lots + fill /\ i.quote = ix.quote + notional /\ i.fee = ix.fee + fee
    BY <2>1 DEF TakeIx
  <2> QED BY <2>3, <2>4, <2>5
<1> HIDE DEF c, i
<1>8. i.fee <= i.quote /\ i.lots <= i.maxLots
  <2>1. /\ ix.lots \in Nat /\ ix.quote \in Nat /\ ix.fee \in Nat /\ ix.maxLots \in Nat
        /\ ix.fee <= ix.quote
    BY <1>1, TakeType
  <2> QED BY <1>3, <1>5, <1>6, <1>7, <2>1 DEF Remaining
<1>9. Progressing(book, i)
  BY <1>1, <1>7, <1>8, TakeType DEF Progressing, Taking
<1> QED BY <1>1, <1>4, <1>7, <1>9, InvGood, GoodKept, ContinueInv DEF IxType

-----------------------------------------------------------------------------
(* Settling the taker                                                      *)

LEMMA AccruedGood ==
  ASSUME IInv, Taking
  PROVE  Good(Accrued(book, ix)) /\ Accrued(book, ix).seats = book.seats
<1>1. book \in Book /\ ix.fee \in Nat
  BY InvGood, TakeType DEF Good
<1>2. Accrued(book, ix) \in Book
  BY <1>1 DEF Accrued, Book
<1>3. /\ Accrued(book, ix).seats = book.seats /\ Accrued(book, ix).anchor = book.anchor
      /\ Accrued(book, ix).feeBps = book.feeBps
  BY <1>1 DEF Accrued, Book
<1> QED BY <1>2, <1>3, InvGood, GoodKept DEF Kept

\* What SeatPays checked is enough for both legs; a seller's fee comes out of
\* its proceeds.
LEMMA SettleTakerGood ==
  ASSUME IInv, Taking, ix.kind # "Swap", NEW b, Good(b), SeatPays(b, ix)
  PROVE  Good(SettleTaker(b, ix))
<1> DEFINE base  == BaseLotSize * ix.lots
           seat  == ix.seat
           free  == b.seats[seat].free
           paid  == ix.quote + ix.fee
           got   == ix.quote - ix.fee
<1>1. seat \in SeatIds /\ paid \in Nat /\ got \in Nat /\ base \in Nat
  BY TakeType, Products, BookAssumption
<1>2. "base" \in Assets /\ "quote" \in Assets
  BY DEF Assets
<1>3. free["base"] \in Nat /\ free["quote"] \in Nat
  BY <1>1, <1>2, BalanceType DEF Good
<1>4. CASE ix.side = "bid"
  <2>1. free["quote"] >= paid
    BY <1>4 DEF SeatPays
  <2>2. SettleTaker(b, ix) = AddFree(AddFree(b, seat, "quote", -paid), seat, "base", base)
    BY <1>4 DEF SettleTaker
  <2> HIDE DEF base, seat, free, paid
  <2>3. free["quote"] + (-paid) >= 0 /\ free["base"] + base >= 0
        /\ -paid \in Int /\ base \in Int
    BY <1>1, <1>3, <2>1
  <2> QED BY <1>1, <1>2, <2>2, <2>3, TwoLegs DEF free
<1>5. CASE ix.side # "bid"
  <2>1. free["base"] >= base
    BY <1>5 DEF SeatPays
  <2>2. SettleTaker(b, ix) = AddFree(AddFree(b, seat, "base", -base), seat, "quote", got)
    BY <1>5 DEF SettleTaker
  <2> HIDE DEF base, seat, free, got
  <2>3. free["base"] + (-base) >= 0 /\ free["quote"] + got >= 0
        /\ -base \in Int /\ got \in Int
    BY <1>1, <1>3, <2>1
  <2> QED BY <1>1, <1>2, <2>2, <2>3, TwoLegs DEF free
<1> QED BY <1>4, <1>5

LEMMA EndPlaceLimitInv ==
  ASSUME IInv, EndPlaceLimit
  PROVE  IInv'
<1> DEFINE acc  == Accrued(book, ix)
           paid == SettleTaker(acc, ix)
           rest == Remaining(ix)
           done == Upsert(paid, ix.seat, ix.side, ix.limit, rest, ix.expiry, FALSE)
<1>1. Taking /\ ix.kind # "Swap" /\ Good(acc) /\ vault \in Vault
  BY AccruedGood DEF EndPlaceLimit, TakeOver, IInv, TypeOK
<1>2. CASE Abort
  BY <1>2, AbortInv
<1>3. CASE SeatPays(acc, ix) /\ Commit(paid, vault)
  <2>1. Good(paid)
    BY <1>1, <1>3, SettleTakerGood
  <2> HIDE DEF paid
  <2> QED BY <1>1, <1>3, <2>1, CommitInv
<1>4. CASE /\ SeatPays(acc, ix) /\ Commit(done, vault)
           /\ CanUpsert(paid, ix.seat, ix.side, ix.limit, rest, FALSE)
  <2>1. Good(paid)
    BY <1>1, <1>4, SettleTakerGood
  <2> HIDE DEF paid
  <2>2. /\ ix.seat \in SeatIds /\ ix.side \in Sides /\ ix.limit \in Nat /\ rest \in Nat
        /\ ix.expiry \in Nat
    BY <1>1, TakeType DEF Remaining
  <2>3. Kept(paid, done)
    BY <1>4, <2>1, <2>2, UpsertKept DEF Good, Header
  <2> HIDE DEF done
  <2> QED BY <1>1, <1>4, <2>1, <2>3, GoodKept, CommitInv
<1> QED BY <1>2, <1>3, <1>4 DEF EndPlaceLimit

LEMMA EndPlaceTakeInv ==
  ASSUME IInv, EndPlaceTake
  PROVE  IInv'
<1> DEFINE acc == Accrued(book, ix)
<1>1. Taking /\ ix.kind # "Swap" /\ Good(acc) /\ vault \in Vault
  BY AccruedGood DEF EndPlaceTake, TakeOver, IInv, TypeOK
<1>2. CASE Abort
  BY <1>2, AbortInv
<1>3. CASE SeatPays(acc, ix) /\ Commit(SettleTaker(acc, ix), vault)
  BY <1>1, <1>3, SettleTakerGood, CommitInv
<1> QED BY <1>2, <1>3 DEF EndPlaceTake

LEMMA EndSwapInv ==
  ASSUME IInv, EndSwap
  PROVE  IInv'
<1> DEFINE consumed == IF ix.side = "bid" THEN ix.quote + ix.fee ELSE BaseLotSize * ix.lots
           leftover == ix.delta - consumed
           out      == Output(ix)
           inAsset  == IF ix.side = "bid" THEN "quote" ELSE "base"
           outAsset == IF ix.side = "bid" THEN "base" ELSE "quote"
           v        == [vault EXCEPT ![inAsset] = @ - leftover, ![outAsset] = @ - out]
<1>1. Taking /\ Good(Accrued(book, ix))
  BY AccruedGood DEF EndSwap, TakeOver
<1>2. CASE Abort
  BY <1>2, AbortInv
<1>3. CASE /\ vault[inAsset] >= leftover /\ vault[outAsset] >= out
           /\ Commit(Accrued(book, ix), v)
  <2>1. leftover \in Int /\ out \in Int
    BY <1>1, TakeType, Products, BookAssumption DEF Output
  <2>2. inAsset \in Assets /\ outAsset \in Assets /\ inAsset # outAsset
    BY DEF Assets
  <2> HIDE DEF leftover, out, inAsset, outAsset
  <2>3. v \in Vault
    BY <1>3, <2>1, <2>2 DEF IInv, TypeOK, Vault
  <2> HIDE DEF v
  <2> QED BY <1>1, <1>3, <2>3, CommitInv
<1> QED BY <1>2, <1>3 DEF EndSwap

LEMMA TakeStepInv == ASSUME IInv, TakeStep PROVE IInv'
<1>1. CASE TakeExpired
  BY <1>1, TakeEndsInv DEF TakeExpired
<1>2. CASE TakeOwn
  BY <1>2, TakeEndsInv, AbortInv DEF TakeOwn
<1> QED BY <1>1, <1>2, TakeFillInv, EndPlaceLimitInv, EndPlaceTakeInv, EndSwapInv
        DEF TakeStep

LEMMA TakerInv == ASSUME IInv, TakerNext PROVE IInv'
<1>1. ASSUME NEW s \in SeatIds, NEW side \in Sides, NEW limit \in InTicks, NEW lots \in InLots,
             NEW policy \in Policies, NEW expiry \in InExpiries,
             BeginPlaceLimit(s, side, limit, lots, policy, expiry)
      PROVE  IInv'
  <2>1. limit \in Nat /\ lots \in Nat /\ expiry \in Nat /\ 0 \in Nat
    BY MakerAssumption
  <2> QED BY <1>1, <2>1, BeginTakeInv DEF BeginPlaceLimit
<1>2. ASSUME NEW s \in SeatIds, NEW side \in Sides, NEW limit \in InTicks, NEW lots \in TakeLots,
             NEW minOut \in MinOuts, NEW policy \in Policies,
             BeginPlaceTake(s, side, limit, lots, minOut, policy)
      PROVE  IInv'
  <2>1. limit \in Nat /\ lots \in Nat /\ minOut \in Nat /\ 0 \in Nat
    BY MakerAssumption, TakerAssumption
  <2> QED BY <1>2, <2>1, BeginTakeInv DEF BeginPlaceTake
<1> QED BY <1>1, <1>2, BeginSwapInv DEF TakerNext

-----------------------------------------------------------------------------
(* Reanchor                                                                *)

\* Between two word-aligned ticks there is room for a word.
LEMMA AlignedStep ==
  ASSUME NEW w \in Nat \ {0}, NEW a \in Nat, NEW b \in Nat,
         a % w = 0, b % w = 0, a < b
  PROVE  /\ a + w <= b /\ (a + w) % w = 0
         /\ b - w \in Nat /\ a <= b - w /\ (b - w) % w = 0
<1> DEFINE i == a \div w
           j == b \div w
<1>1. i \in Nat /\ j \in Nat /\ a = i * w /\ b = j * w
  OBVIOUS
<1> HIDE DEF i, j
<1>2. i < j
  <2>1. ASSUME i >= j PROVE FALSE
    <3>1. PICK k \in Nat : i = j + k
      <4>1. i - j \in Nat /\ i = j + (i - j)
        BY <1>1, <2>1
      <4> QED BY <4>1
    <3>2. i * w = j * w + k * w /\ k * w \in Nat
      BY <1>1, <3>1
    <3> QED BY <1>1, <3>2
  <2> QED BY <1>1, <2>1
<1>3. PICK k \in Nat : j = i + 1 + k
  <2>1. j - (i + 1) \in Nat /\ j = i + 1 + (j - (i + 1))
    BY <1>1, <1>2
  <2> QED BY <2>1
<1>4. b = a + w + k * w /\ k * w \in Nat
  BY <1>1, <1>3
<1>5. (a + w) % w = 0
  BY <1>1
<1>6. (b - w) % w = 0
  <2>1. b - w = (j - 1) * w
    BY <1>1
  <2> QED BY <1>1, <2>1
<1> QED BY <1>4, <1>5, <1>6

LEMMA WordStartType ==
  ASSUME NEW x \in Nat
  PROVE  /\ WordStart(x) \in Nat /\ WordStart(x) <= x /\ WordStart(x) % WordTicks = 0
         /\ x >= WordTicks => WordStart(x) >= WordTicks
<1> DEFINE w == WordTicks
           i == x \div w
           r == x % w
<1>1. w \in Nat \ {0}
  BY BookAssumption
<1> HIDE DEF w
<1>2. i \in Nat /\ r \in 0 .. w - 1 /\ x = i * w + r
  BY <1>1
<1> HIDE DEF i, r
<1>3. i * w \in Nat /\ WordStart(x) = i * w
  BY <1>1, <1>2, Products DEF WordStart, w, r
<1>4. (i * w) % w = 0
  BY <1>1, <1>2
<1>5. ASSUME x >= w PROVE i * w >= w
  <2>1. i # 0
    BY <1>1, <1>2, <1>5
  <2>2. PICK k \in Nat : i = k + 1
    <3>1. i - 1 \in Nat /\ i = (i - 1) + 1
      BY <1>2, <2>1
    <3> QED BY <3>1
  <2>3. i * w = k * w + w /\ k * w \in Nat
    BY <1>1, <2>2
  <2> QED BY <1>1, <2>3
<1>6. i * w <= x
  BY <1>1, <1>2, <1>3
<1> QED BY <1>3, <1>4, <1>5, <1>6 DEF w

LEMMA IdealType ==
  ASSUME NEW target \in Nat
  PROVE  /\ Ideal(target) \in Nat /\ Ideal(target) % WordTicks = 0
         /\ Ideal(target) >= WordTicks /\ Ideal(target) + WindowTicks - 1 <= TickLimit
<1> DEFINE top       == TickLimit - (WindowTicks - 1)
           maxAnchor == WordStart(top)
           floor     == IF WordStart(target) < WordTicks THEN WordTicks ELSE WordStart(target)
<1>1. top \in Nat /\ top >= WordTicks
  BY BookAssumption
<1>2. WordTicks \in Nat \ {0} /\ WordTicks % WordTicks = 0
  BY BookAssumption
<1> HIDE DEF top
<1>3. /\ maxAnchor \in Nat /\ maxAnchor <= top /\ maxAnchor % WordTicks = 0
      /\ maxAnchor >= WordTicks
  BY <1>1, WordStartType
<1>4. floor \in Nat /\ floor >= WordTicks /\ floor % WordTicks = 0
  BY <1>2, WordStartType
<1>5. Ideal(target) = IF floor > maxAnchor THEN maxAnchor ELSE floor
  BY DEF Ideal, top
<1> HIDE DEF maxAnchor, floor
<1>6. /\ Ideal(target) \in Nat /\ Ideal(target) % WordTicks = 0
      /\ Ideal(target) >= WordTicks /\ Ideal(target) <= top
  BY <1>1, <1>2, <1>3, <1>4, <1>5
<1> QED BY <1>1, <1>6, BookAssumption DEF top

LEMMA BeginReanchorInv ==
  ASSUME IInv, NEW target \in Targets, NEW max \in MaxLevels, BeginReanchor(target, max)
  PROVE  IInv'
<1> DEFINE ideal == Ideal(target)
           i == [op |-> "Reanchor", ideal |-> ideal, max |-> max,
                 evicted |-> 0, cur |-> book.anchor, inWord |-> FALSE]
<1>1. Continue(book, i)
  BY DEF BeginReanchor
<1>2. /\ ideal \in Nat /\ ideal % WordTicks = 0 /\ ideal >= WordTicks
      /\ ideal + WindowTicks - 1 <= TickLimit /\ max \in Nat
  BY IdealType, HygieneAssumption
<1> HIDE DEF ideal
<1>3. book.anchor \in Nat /\ book.anchor % WordTicks = 0
  BY InvGood DEF Good, Header, Book
<1>4. i \in ReanchorIx
  BY <1>2, <1>3 DEF ReanchorIx
<1>5. Progressing(book, i)
  BY <1>2, <1>3 DEF Progressing
<1> HIDE DEF i
<1> QED BY <1>1, <1>4, <1>5, InvGood, ContinueInv DEF IxType

\* The window start is between where it was and where it goes.
LEMMA ReanchorType ==
  ASSUME IInv, Reanchoring
  PROVE  /\ ix \in ReanchorIx /\ ix.ideal \in Nat /\ ix.cur \in Nat /\ ix.evicted \in Nat
         /\ book.anchor \in Nat
         /\ ix.cur % WordTicks = 0 /\ ix.cur >= WordTicks
         /\ ix.cur + WindowTicks - 1 <= TickLimit
<1>1. ix \in ReanchorIx
  BY IxCases DEF IInv, TypeOK, IxType, Reanchoring
<1>2. ix.ideal \in Nat /\ ix.cur \in Nat /\ ix.evicted \in Nat
  BY <1>1 DEF ReanchorIx
<1>3. book.anchor \in Nat /\ book.anchor >= WordTicks /\ book.anchor + WindowTicks - 1 <= TickLimit
  BY InvGood DEF Good, Book, Header, WindowClear, LastTick
<1>4. /\ ix.ideal >= WordTicks /\ ix.ideal + WindowTicks - 1 <= TickLimit
      /\ ix.cur % WordTicks = 0
      /\ \/ book.anchor <= ix.cur /\ ix.cur <= ix.ideal
         \/ ix.ideal <= ix.cur /\ ix.cur <= book.anchor
  BY DEF IInv, Progressing, Reanchoring
<1> QED BY <1>1, <1>2, <1>3, <1>4, BookAssumption

LEMMA EnterWordInv ==
  ASSUME IInv, EnterWord
  PROVE  IInv'
<1> DEFINE i == [ix EXCEPT !.inWord = TRUE]
<1>1. Continue(book, i) /\ Reanchoring /\ ix.cur # ix.ideal
  BY DEF EnterWord
<1>2. /\ i \in ReanchorIx /\ i.op = ix.op /\ i.ideal = ix.ideal /\ i.cur = ix.cur
  BY <1>1, ReanchorType DEF ReanchorIx
<1>3. Progressing(book, i)
  BY <1>1, <1>2 DEF IInv, Progressing, Reanchoring
<1> HIDE DEF i
<1> QED BY <1>1, <1>2, <1>3, InvGood, ContinueInv DEF IxType

LEMMA EvictOrderInv ==
  ASSUME IInv, EvictOrder
  PROVE  IInv'
<1> DEFINE T    == WordOccupied
           head == HeadAt(book, Lowest(T))
           c    == KillOrder(book, head)
           i    == [ix EXCEPT !.evicted = @ + 1]
<1>1. Reanchoring /\ T # {} /\ Refundable(book, head) /\ Continue(c, i)
  BY DEF EvictOrder
<1>2. head \in Links
  <2>1. WordBase \in Nat
    BY <1>1, ReanchorType, BookAssumption DEF WordBase
  <2>2. T \subseteq Nat
    BY <2>1, BookAssumption DEF WordOccupied
  <2> HIDE DEF T
  <2>3. Lowest(T) \in Nat
    BY <1>1, <2>2, LowestOf
  <2>4. Slot(Lowest(T)) \in Ring
    BY <2>3, SlotInRing
  <2> QED BY <2>4, InvGood, LevelType DEF HeadAt, Good
<1> HIDE DEF head
<1>3. Kept(book, c)
  BY <1>1, <1>2, InvGood, KillOrderKept DEF Good
<1>4. /\ i \in ReanchorIx /\ i.op = ix.op /\ i.ideal = ix.ideal /\ i.cur = ix.cur
      /\ i.inWord = ix.inWord
  BY <1>1, ReanchorType DEF ReanchorIx
<1>5. Progressing(book, i)
  BY <1>1, <1>4 DEF IInv, Progressing, Reanchoring
<1> HIDE DEF c, i
<1> QED BY <1>1, <1>3, <1>4, <1>5, InvGood, GoodKept, ContinueInv DEF IxType

LEMMA LeaveWordInv ==
  ASSUME IInv, LeaveWord
  PROVE  IInv'
<1> DEFINE to == IF MovesUp THEN ix.cur + WordTicks ELSE ix.cur - WordTicks
           i  == [ix EXCEPT !.inWord = FALSE, !.cur = to]
<1>1. Continue(book, i) /\ Reanchoring /\ ix.inWord
  BY DEF LeaveWord
<1>2. /\ ix.ideal \in Nat /\ ix.cur \in Nat /\ WordTicks \in Nat \ {0}
      /\ ix.ideal % WordTicks = 0 /\ ix.cur % WordTicks = 0 /\ ix.cur # ix.ideal
      /\ IF ix.ideal > book.anchor THEN book.anchor <= ix.cur /\ ix.cur <= ix.ideal
                                   ELSE ix.ideal <= ix.cur /\ ix.cur <= book.anchor
      /\ book.anchor \in Nat
  BY <1>1, ReanchorType, BookAssumption DEF IInv, Progressing, Reanchoring
<1>3. /\ to \in Nat /\ to % WordTicks = 0
      /\ IF ix.ideal > book.anchor THEN book.anchor <= to /\ to <= ix.ideal
                                   ELSE ix.ideal <= to /\ to <= book.anchor
  <2>1. CASE MovesUp
    <3>1. ix.cur < ix.ideal /\ to = ix.cur + WordTicks /\ ix.ideal > book.anchor
      BY <1>2, <2>1 DEF MovesUp
    <3>2. ix.cur + WordTicks <= ix.ideal /\ (ix.cur + WordTicks) % WordTicks = 0
      BY <1>2, <3>1, AlignedStep
    <3> HIDE DEF to
    <3> QED BY <1>2, <3>1, <3>2
  <2>2. CASE ~MovesUp
    <3>1. ix.ideal < ix.cur /\ to = ix.cur - WordTicks /\ ~(ix.ideal > book.anchor)
      BY <1>2, <2>2 DEF MovesUp
    <3>2. /\ ix.cur - WordTicks \in Nat /\ ix.ideal <= ix.cur - WordTicks
          /\ (ix.cur - WordTicks) % WordTicks = 0
      BY <1>2, <3>1, AlignedStep
    <3> HIDE DEF to
    <3> QED BY <1>2, <3>1, <3>2
  <2> QED BY <2>1, <2>2
<1> HIDE DEF to
<1>4. /\ i \in ReanchorIx /\ i.op = ix.op /\ i.ideal = ix.ideal /\ i.cur = to /\ ~i.inWord
  BY <1>1, <1>3, ReanchorType DEF ReanchorIx
<1>5. Progressing(book, i)
  BY <1>1, <1>3, <1>4 DEF IInv, Progressing, Reanchoring
<1> HIDE DEF i
<1> QED BY <1>1, <1>4, <1>5, InvGood, ContinueInv DEF IxType

LEMMA ReanchorCommitInv ==
  ASSUME IInv, ReanchorCommit
  PROVE  IInv'
<1> DEFINE c == [book EXCEPT !.anchor = ix.cur]
<1>1. Commit(c, vault) /\ Reanchoring
  BY DEF ReanchorCommit
<1>2. c \in Book /\ c.anchor = ix.cur /\ c.feeBps = book.feeBps
  BY <1>1, ReanchorType, InvGood DEF Good, Book
<1>3. Good(c)
  BY <1>1, <1>2, ReanchorType, InvGood DEF Good, Header, WindowClear, LastTick
<1> HIDE DEF c
<1> QED BY <1>1, <1>3, CommitInv DEF IInv, TypeOK

-----------------------------------------------------------------------------
(* ReapExpired                                                             *)

LEMMA ReapType ==
  ASSUME IInv, Reaping
  PROVE  ix \in ReapIx /\ ix.side \in Sides /\ ix.cur \in Links /\ ix.reaped \in Nat
<1>1. ix \in ReapIx
  BY IxCases DEF IInv, TypeOK, IxType, Reaping
<1> QED BY <1>1 DEF ReapIx

\* Nothing is relied upon between the steps of a reap beyond its types.
LEMMA ReapContinues ==
  ASSUME IInv, NEW b, Kept(book, b), NEW i \in ReapIx, Continue(b, i)
  PROVE  IInv'
<1>1. Progressing(b, i)
  BY DEF Progressing, ReapIx
<1> QED BY <1>1, InvGood, GoodKept, ContinueInv DEF IxType

LEMMA BeginReapInv ==
  ASSUME IInv, NEW side \in Sides, NEW start \in ReapStarts, NEW max \in ReapCounts,
         BeginReap(side, start, max)
  PROVE  IInv'
<1> DEFINE tick == Clamp(start)
           i    == [op |-> "ReapExpired", side |-> side, start |-> start,
                    max |-> max, tick |-> tick, reaped |-> 0, cur |-> NIL]
<1>1. Continue(book, i)
  BY DEF BeginReap
<1>2. start \in Nat /\ max \in Nat /\ tick \in Nat
  BY HygieneAssumption, BookAssumption, InvGood DEF Clamp, LastTick, Good, Book
<1> HIDE DEF tick
<1>3. i \in ReapIx
  BY <1>2, NilIsLink DEF ReapIx
<1> HIDE DEF i
<1> QED BY <1>1, <1>3, InvGood, KeptSelf, SeatsKeptIsKept, ReapContinues DEF Good

LEMMA ReapEnterInv ==
  ASSUME IInv, ReapEnter
  PROVE  IInv'
<1> DEFINE T    == ReapLevels
           t    == Lowest(T)
           head == HeadAt(book, t)
           i    == [ix EXCEPT !.tick = t + 1, !.cur = head]
<1>1. Continue(book, i) /\ Reaping /\ T # {}
  BY DEF ReapEnter
<1>2. t \in Nat
  <2>1. book.anchor \in Nat /\ LastTick(book) \in Nat
    BY InvGood, BookAssumption DEF Good, Book, LastTick
  <2>2. T \subseteq Nat
    BY <2>1 DEF ReapLevels, TicksOf
  <2> HIDE DEF T
  <2> QED BY <1>1, <2>2, LowestOf
<1> HIDE DEF t
<1>3. head \in Links
  BY <1>2, SlotInRing, InvGood, LevelType DEF HeadAt, Good
<1> HIDE DEF head
<1>4. i \in ReapIx
  <2>1. ix \in ReapIx /\ t + 1 \in Nat
    BY <1>1, <1>2, ReapType
  <2> QED BY <1>3, <2>1 DEF ReapIx
<1> HIDE DEF i
<1> QED BY <1>1, <1>4, InvGood, KeptSelf, SeatsKeptIsKept, ReapContinues DEF Good

LEMMA ReapSkipInv ==
  ASSUME IInv, ReapSkip
  PROVE  IInv'
<1> DEFINE m == book.pool[ix.cur].next
           i == [ix EXCEPT !.cur = m]
<1>1. Continue(book, i) /\ Reaping
  BY DEF ReapSkip
<1>2. m \in Links
  BY <1>1, ReapType, InvGood, NodeType DEF Good
<1> HIDE DEF m
<1>3. i \in ReapIx
  BY <1>1, <1>2, ReapType DEF ReapIx
<1> HIDE DEF i
<1> QED BY <1>1, <1>3, InvGood, KeptSelf, SeatsKeptIsKept, ReapContinues DEF Good

LEMMA ReapKillInv ==
  ASSUME IInv, ReapKill
  PROVE  IInv'
<1> DEFINE m == book.pool[ix.cur].next
           c == KillOrder(book, ix.cur)
           i == [ix EXCEPT !.reaped = @ + 1, !.cur = m]
<1>1. Reaping /\ Refundable(book, ix.cur) /\ (Commit(c, vault) \/ Continue(c, i))
  BY DEF ReapKill
<1>2. m \in Links /\ Kept(book, c)
  BY <1>1, ReapType, InvGood, NodeType, KillOrderKept DEF Good
<1> HIDE DEF m, c
<1>3. i \in ReapIx
  <2>1. ix \in ReapIx /\ ix.reaped + 1 \in Nat
    BY <1>1, ReapType
  <2> QED BY <1>2, <2>1 DEF ReapIx
<1> HIDE DEF i
<1>4. CASE Commit(c, vault)
  BY <1>2, <1>4, InvGood, GoodKept, CommitInv DEF IInv, TypeOK
<1>5. CASE Continue(c, i)
  BY <1>2, <1>3, <1>5, ReapContinues
<1> QED BY <1>1, <1>4, <1>5

LEMMA HygieneStepInv == ASSUME IInv, HygieneStep PROVE IInv'
<1>1. CASE ReapCommit
  BY <1>1, InvGood, CommitInv DEF ReapCommit, IInv, TypeOK
<1> QED BY <1>1, EnterWordInv, EvictOrderInv, LeaveWordInv, ReanchorCommitInv, ReapEnterInv,
           ReapSkipInv, ReapKillInv DEF HygieneStep

LEMMA HygieneInv == ASSUME IInv, HygieneNext PROVE IInv'
BY BeginReanchorInv, BeginReapInv DEF HygieneNext

-----------------------------------------------------------------------------
(* The program                                                             *)

LEMMA StutterInv ==
  ASSUME IInv, UNCHANGED vars
  PROVE  IInv'
BY DEF IInv, TypeOK, vars

LEMMA NextInv ==
  ASSUME IInv, [Next]_vars
  PROVE  IInv'
<1>1. CASE Step
  BY <1>1, MergeStepInv, TakeStepInv, HygieneStepInv DEF Step
<1>2. CASE NextSlot
  BY <1>2 DEF IInv, TypeOK, NextSlot
<1>3. CASE Refused \/ UNCHANGED vars
  BY <1>3, StutterInv DEF Refused
<1> QED BY <1>1, <1>2, <1>3, CustodyInv, MakerInv, TakerInv, HygieneInv DEF Next

THEOREM IInvHolds == Spec => []IInv
<1>1. IInv /\ [Next]_vars => IInv'
  BY NextInv
<1> QED BY InitInv, <1>1, PTL DEF Spec

\* Every variable keeps its type in every reachable state of every market: no
\* balance, fee or vault goes below zero, and no link leaves the pool.
THEOREM TypeCorrect == Spec => []TypeOK
<1>1. IInv => TypeOK
  BY DEF IInv
<1> QED BY IInvHolds, <1>1, PTL

\* The window stays word aligned, a word clear of tick 0 and within the tick
\* limit, and the fee rate capped, also in the book a failure reverts to.
THEOREM WindowBounded == Spec => [](Header(book) /\ Header(committed.book))
<1>1. IInv => Header(book) /\ Header(committed.book)
  BY DEF IInv
<1> QED BY IInvHolds, <1>1, PTL

\* A take in flight never charges more fee than it traded, never fills more
\* than its size, and a merge's or a reanchor's cursors stay in the window.
THEOREM CursorsSound == Spec => []Progressing(book, ix)
<1>1. IInv => Progressing(book, ix)
  BY DEF IInv
<1> QED BY IInvHolds, <1>1, PTL

-----------------------------------------------------------------------------
(* Sums, as the properties state them: one recursive function over subsets *)

\* The sum of the values g gives the elements of a set.
SumOver(g, S) == Sum(LAMBDA s : g[s], S)

\* One unfolding of the sum, over the subsets of S.
SumBody(g, S, it) ==
  [s \in SUBSET S |-> IF s = {} THEN 0 ELSE LET x == CHOOSE x \in s : TRUE
                                            IN g[x] + it[s \ {x}]]
Summing(g, S) == CHOOSE it : it = SumBody(g, S, it)

LEMMA SumOverDef == ASSUME NEW g, NEW S PROVE SumOver(g, S) = Summing(g, S)[S]
BY Zenon DEF SumOver, Sum, MapThenSumSet, MapThenFoldSet, Summing, SumBody

\* Every atom of an asset that seats hold.
SeatTotals(b, a) == [s \in SeatIds |-> SeatTotal(b, s, a)]

LEMMA HeldIsSum ==
  ASSUME NEW b, NEW a
  PROVE  Held(b, a) = SumOver(SeatTotals(b, a), SeatIds) + IF a = "quote" THEN b.fees ELSE 0
<1> DEFINE g == SeatTotals(b, a)
           Body(it) == [s \in SUBSET SeatIds |->
                          IF s = {} THEN 0 ELSE LET x == CHOOSE x \in s : TRUE
                                                IN SeatTotal(b, x, a) + it[s \ {x}]]
<1>1. \A it : Body(it) = SumBody(g, SeatIds, it)
  <2>1. ASSUME NEW it, NEW s \in SUBSET SeatIds PROVE Body(it)[s] = SumBody(g, SeatIds, it)[s]
    <3>1. CASE s = {}
      BY <3>1 DEF SumBody
    <3>2. CASE s # {}
      <4> DEFINE x == CHOOSE x \in s : TRUE
      <4>1. x \in SeatIds
        BY <3>2
      <4>2. Body(it)[s] = SeatTotal(b, x, a) + it[s \ {x}]
        BY <3>2, Zenon
      <4>3. SumBody(g, SeatIds, it)[s] = g[x] + it[s \ {x}]
        BY <3>2, Zenon DEF SumBody
      <4>4. g[x] = SeatTotal(b, x, a)
        <5> HIDE DEF x
        <5> QED BY <4>1 DEF SeatTotals
      <4> QED BY <4>2, <4>3, <4>4
    <3> QED BY <3>1, <3>2
  <2> QED BY <2>1, Zenon DEF SumBody
<1>2. Sum(LAMBDA s : SeatTotal(b, s, a), SeatIds) = (CHOOSE it : it = Body(it))[SeatIds]
  BY Zenon DEF Sum, MapThenSumSet, MapThenFoldSet
<1>3. (CHOOSE it : it = Body(it)) = Summing(g, SeatIds)
  <2> HIDE DEF Body, g
  <2> QED BY <1>1 DEF Summing
<1> QED BY <1>2, <1>3, SumOverDef, Zenon DEF Held

\* The lots of a set of orders, as a property adds them up.
LEMMA LotsSum ==
  ASSUME NEW b, NEW S, S \subseteq Nodes
  PROVE  Sum(LAMBDA n : b.pool[n].lots, S) = SumOver([n \in Nodes |-> b.pool[n].lots], S)
<1> DEFINE g == [n \in Nodes |-> b.pool[n].lots]
           Body(it) == [s \in SUBSET S |->
                          IF s = {} THEN 0 ELSE LET x == CHOOSE x \in s : TRUE
                                                IN b.pool[x].lots + it[s \ {x}]]
<1>1. \A it : Body(it) = SumBody(g, S, it)
  <2>1. ASSUME NEW it, NEW s \in SUBSET S PROVE Body(it)[s] = SumBody(g, S, it)[s]
    <3>1. CASE s = {}
      BY <3>1 DEF SumBody
    <3>2. CASE s # {}
      <4> DEFINE x == CHOOSE x \in s : TRUE
      <4>1. x \in Nodes
        BY <3>2
      <4>2. Body(it)[s] = b.pool[x].lots + it[s \ {x}]
        BY <3>2, Zenon
      <4>3. SumBody(g, S, it)[s] = g[x] + it[s \ {x}]
        BY <3>2, Zenon DEF SumBody
      <4>4. g[x] = b.pool[x].lots
        <5> HIDE DEF x
        <5> QED BY <4>1
      <4> QED BY <4>2, <4>3, <4>4
    <3> QED BY <3>1, <3>2
  <2> QED BY <2>1, Zenon DEF SumBody
<1>2. Sum(LAMBDA n : b.pool[n].lots, S) = (CHOOSE it : it = Body(it))[S]
  BY Zenon DEF Sum, MapThenSumSet, MapThenFoldSet
<1>3. (CHOOSE it : it = Body(it)) = Summing(g, S)
  <2> HIDE DEF Body, g
  <2> QED BY <1>1 DEF Summing
<1> QED BY <1>2, <1>3, SumOverDef, Zenon

\* The locks of a set of orders, as a property adds them up.
LEMMA LocksIsSum ==
  ASSUME NEW b, NEW S, S \subseteq Nodes
  PROVE  Sum(LAMBDA n : LockedAtoms(b.pool[n].side, b.pool[n].tick, b.pool[n].lots), S) =
           SumOver([n \in Nodes |-> LockedAtoms(b.pool[n].side, b.pool[n].tick, b.pool[n].lots)], S)
<1> DEFINE g == [n \in Nodes |-> LockedAtoms(b.pool[n].side, b.pool[n].tick, b.pool[n].lots)]
           Body(it) == [s \in SUBSET S |->
                          IF s = {} THEN 0
                          ELSE LET x == CHOOSE x \in s : TRUE
                               IN LockedAtoms(b.pool[x].side, b.pool[x].tick, b.pool[x].lots) + it[s \ {x}]]
<1>1. \A it : Body(it) = SumBody(g, S, it)
  <2>1. ASSUME NEW it, NEW s \in SUBSET S PROVE Body(it)[s] = SumBody(g, S, it)[s]
    <3>1. CASE s = {}
      BY <3>1 DEF SumBody
    <3>2. CASE s # {}
      <4> DEFINE x == CHOOSE x \in s : TRUE
      <4>1. x \in Nodes
        BY <3>2
      <4>2. Body(it)[s] = LockedAtoms(b.pool[x].side, b.pool[x].tick, b.pool[x].lots) + it[s \ {x}]
        BY <3>2, Zenon
      <4>3. SumBody(g, S, it)[s] = g[x] + it[s \ {x}]
        BY <3>2, Zenon DEF SumBody
      <4>4. g[x] = LockedAtoms(b.pool[x].side, b.pool[x].tick, b.pool[x].lots)
        <5> HIDE DEF x
        <5> QED BY <4>1
      <4> QED BY <4>2, <4>3, <4>4
    <3> QED BY <3>1, <3>2
  <2> QED BY <2>1, Zenon DEF SumBody
<1>2. Sum(LAMBDA n : LockedAtoms(b.pool[n].side, b.pool[n].tick, b.pool[n].lots), S) = (CHOOSE it : it = Body(it))[S]
  BY Zenon DEF Sum, MapThenSumSet, MapThenFoldSet
<1>3. (CHOOSE it : it = Body(it)) = Summing(g, S)
  <2> HIDE DEF Body, g
  <2> QED BY <1>1 DEF Summing
<1> QED BY <1>2, <1>3, SumOverDef, Zenon

\* The lots traded of a set of orders, and what they cost, as a property adds
\* them up.
LEMMA TradedSum ==
  ASSUME NEW S, S \subseteq Nodes
  PROVE  Sum(Traded, S) = SumOver([n \in Nodes |-> Traded(n)], S)
<1> DEFINE g == [n \in Nodes |-> Traded(n)]
           Body(it) == [s \in SUBSET S |->
                          IF s = {} THEN 0 ELSE LET x == CHOOSE x \in s : TRUE
                                                IN Traded(x) + it[s \ {x}]]
<1>1. \A it : Body(it) = SumBody(g, S, it)
  <2>1. ASSUME NEW it, NEW s \in SUBSET S PROVE Body(it)[s] = SumBody(g, S, it)[s]
    <3>1. CASE s = {}
      BY <3>1 DEF SumBody
    <3>2. CASE s # {}
      <4> DEFINE x == CHOOSE x \in s : TRUE
      <4>1. x \in Nodes
        BY <3>2
      <4>2. Body(it)[s] = Traded(x) + it[s \ {x}]
        BY <3>2, Zenon
      <4>3. SumBody(g, S, it)[s] = g[x] + it[s \ {x}]
        BY <3>2, Zenon DEF SumBody
      <4>4. g[x] = Traded(x)
        <5> HIDE DEF x
        <5> QED BY <4>1
      <4> QED BY <4>2, <4>3, <4>4
    <3> QED BY <3>1, <3>2
  <2> QED BY <2>1, Zenon DEF SumBody
<1>2. Sum(Traded, S) = (CHOOSE it : it = Body(it))[S]
  BY Zenon DEF Sum, MapThenSumSet, MapThenFoldSet
<1>3. (CHOOSE it : it = Body(it)) = Summing(g, S)
  <2> HIDE DEF Body, g
  <2> QED BY <1>1 DEF Summing
<1> QED BY <1>2, <1>3, SumOverDef, Zenon

LEMMA CostSum ==
  ASSUME NEW S, S \subseteq Nodes
  PROVE  Sum(TradedFor, S) =
           SumOver([n \in Nodes |-> TradedFor(n)], S)
<1> DEFINE g == [n \in Nodes |-> TradedFor(n)]
           Body(it) == [s \in SUBSET S |->
                          IF s = {} THEN 0 ELSE LET x == CHOOSE x \in s : TRUE
                                                IN TradedFor(x) + it[s \ {x}]]
<1>1. \A it : Body(it) = SumBody(g, S, it)
  <2>1. ASSUME NEW it, NEW s \in SUBSET S PROVE Body(it)[s] = SumBody(g, S, it)[s]
    <3>1. CASE s = {}
      BY <3>1 DEF SumBody
    <3>2. CASE s # {}
      <4> DEFINE x == CHOOSE x \in s : TRUE
      <4>1. x \in Nodes
        BY <3>2
      <4>2. Body(it)[s] = TradedFor(x) + it[s \ {x}]
        BY <3>2, Zenon
      <4>3. SumBody(g, S, it)[s] = g[x] + it[s \ {x}]
        BY <3>2, Zenon DEF SumBody
      <4>4. g[x] = TradedFor(x)
        <5> HIDE DEF x
        <5> QED BY <4>1
      <4> QED BY <4>2, <4>3, <4>4
    <3> QED BY <3>1, <3>2
  <2> QED BY <2>1, Zenon DEF SumBody
<1>2. Sum(TradedFor, S) = (CHOOSE it : it = Body(it))[S]
  BY Zenon DEF Sum, MapThenSumSet, MapThenFoldSet
<1>3. (CHOOSE it : it = Body(it)) = Summing(g, S)
  <2> HIDE DEF Body, g
  <2> QED BY <1>1 DEF Summing
<1> QED BY <1>2, <1>3, SumOverDef, Zenon
=============================================================================
