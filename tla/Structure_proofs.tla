---------------------------- MODULE Structure_proofs ----------------------------
(***************************************************************************)
(* The book's structure, for every book, price, size and payload: the      *)
(* level queues and their totals, the seat chains and their locks, the     *)
(* free list and the counts are sound after every step of every            *)
(* instruction, in the middle of a merge, a walk or an eviction as well as *)
(* at its end.                                                             *)
(*                                                                         *)
(* The argument: each operation of the book is read once, as what it does  *)
(* to every node, level and seat (Ended, Entered, Alike); from there on    *)
(* the lists are argued about through what they read of a node, not        *)
(* through the writes.                                                     *)
(***************************************************************************)
EXTENDS Cross_proofs, Funds_proofs, Identity_proofs, FiniteSetTheorems

BookFields  == {"anchor", "bits", "levels", "seats", "pool", "freeHead", "freeCount", "orderSeq"}
NodeFields  == {"prev", "next", "makerPrev", "makerNext", "tick", "maker", "side", "lots", "expiry", "seq"}
LevelFields == {"head", "tail", "total"}
SeatFields  == {"owner", "head", "count", "free", "locked"}

\* What of a book the argument reads is there.
Formed(b) ==
  /\ BookFields \subseteq DOMAIN b
  /\ DOMAIN b.bits = Sides
  /\ DOMAIN b.pool = Links /\ \A k \in Links : NodeFields \subseteq DOMAIN b.pool[k]
  /\ DOMAIN b.levels = Ring /\ \A l \in Ring : LevelFields \subseteq DOMAIN b.levels[l]
  /\ DOMAIN b.seats = SeatIds /\ \A s \in SeatIds : SeatFields \subseteq DOMAIN b.seats[s]

LEMMA BookFormed == ASSUME NEW b \in Book PROVE Formed(b)
<1>1. /\ b.pool \in [Links -> OrderNode] /\ b.levels \in [Ring -> Level]
      /\ b.seats \in [SeatIds -> Seat] /\ b.bits \in [Sides -> SUBSET Ring]
  BY DEF Book
<1>2. BookFields \subseteq DOMAIN b
  BY DEF Book, BookFields
<1>3. \A k \in Links : NodeFields \subseteq DOMAIN b.pool[k]
  BY <1>1 DEF OrderNode, NodeFields
<1>4. \A l \in Ring : LevelFields \subseteq DOMAIN b.levels[l]
  BY <1>1 DEF Level, LevelFields
<1>5. \A s \in SeatIds : SeatFields \subseteq DOMAIN b.seats[s]
  BY <1>1 DEF Seat, SeatFields
<1> QED BY <1>1, <1>2, <1>3, <1>4, <1>5 DEF Formed

\* c is b but for some of its fields.
But(fields, b, c) == Formed(c) /\ \A f \in BookFields \ fields : c[f] = b[f]

\* c is b with field f of one node, of one level, of one seat, set to x.
NodeSet(b, c, n, f, x) ==
  /\ But({"pool"}, b, c)
  /\ \A k \in Links : c.pool[k] = IF k = n THEN [b.pool[k] EXCEPT ![f] = x] ELSE b.pool[k]
  /\ \A g \in NodeFields : c.pool[n][g] = IF g = f THEN x ELSE b.pool[n][g]

LevelSet(b, c, l, f, x) ==
  /\ But({"levels"}, b, c)
  /\ \A m \in Ring : c.levels[m] = IF m = l THEN [b.levels[m] EXCEPT ![f] = x] ELSE b.levels[m]
  /\ \A g \in LevelFields : c.levels[l][g] = IF g = f THEN x ELSE b.levels[l][g]

SeatSet(b, c, s, f, x) ==
  /\ But({"seats"}, b, c)
  /\ \A r \in SeatIds : c.seats[r] = IF r = s THEN [b.seats[r] EXCEPT ![f] = x] ELSE b.seats[r]
  /\ \A g \in SeatFields : c.seats[s][g] = IF g = f THEN x ELSE b.seats[s][g]

LEMMA NodeWrite ==
  ASSUME NEW b, Formed(b), NEW n \in Links, NEW f \in NodeFields, NEW x
  PROVE  NodeSet(b, [b EXCEPT !.pool = [b.pool EXCEPT ![n] = [b.pool[n] EXCEPT ![f] = x]]], n, f, x)
<1> DEFINE nd == [b.pool[n] EXCEPT ![f] = x]
           p  == [b.pool EXCEPT ![n] = nd]
           c  == [b EXCEPT !.pool = p]
<1>1. DOMAIN nd = DOMAIN b.pool[n] /\ \A g \in NodeFields : nd[g] = IF g = f THEN x ELSE b.pool[n][g]
  BY DEF Formed
<1>2. DOMAIN p = Links /\ \A k \in Links : p[k] = IF k = n THEN nd ELSE b.pool[k]
  <2> HIDE DEF nd
  <2> QED BY DEF Formed
<1>3. DOMAIN c = DOMAIN b /\ c.pool = p /\ \A g \in BookFields \ {"pool"} : c[g] = b[g]
  <2> HIDE DEF p
  <2> QED BY DEF Formed, BookFields
<1>4. \A k \in Links : k = n => nd = [b.pool[k] EXCEPT ![f] = x]
  OBVIOUS
<1> HIDE DEF c, p, nd
<1>5. But({"pool"}, b, c)
  BY <1>1, <1>2, <1>3 DEF But, Formed, BookFields
<1>6. NodeSet(b, c, n, f, x)
  BY <1>1, <1>2, <1>3, <1>4, <1>5 DEF NodeSet
<1> QED BY <1>6 DEF c, p, nd

LEMMA LevelWrite ==
  ASSUME NEW b, Formed(b), NEW l \in Ring, NEW f \in LevelFields, NEW x
  PROVE  LevelSet(b, [b EXCEPT !.levels = [b.levels EXCEPT ![l] = [b.levels[l] EXCEPT ![f] = x]]], l, f, x)
<1> DEFINE nd == [b.levels[l] EXCEPT ![f] = x]
           p  == [b.levels EXCEPT ![l] = nd]
           c  == [b EXCEPT !.levels = p]
<1>1. DOMAIN nd = DOMAIN b.levels[l] /\ \A g \in LevelFields : nd[g] = IF g = f THEN x ELSE b.levels[l][g]
  BY DEF Formed
<1>2. DOMAIN p = Ring /\ \A m \in Ring : p[m] = IF m = l THEN nd ELSE b.levels[m]
  <2> HIDE DEF nd
  <2> QED BY DEF Formed
<1>3. DOMAIN c = DOMAIN b /\ c.levels = p /\ \A g \in BookFields \ {"levels"} : c[g] = b[g]
  <2> HIDE DEF p
  <2> QED BY DEF Formed, BookFields
<1>4. \A m \in Ring : m = l => nd = [b.levels[m] EXCEPT ![f] = x]
  OBVIOUS
<1> HIDE DEF c, p, nd
<1>5. But({"levels"}, b, c)
  BY <1>1, <1>2, <1>3 DEF But, Formed, BookFields
<1>6. LevelSet(b, c, l, f, x)
  BY <1>1, <1>2, <1>3, <1>4, <1>5 DEF LevelSet
<1> QED BY <1>6 DEF c, p, nd

LEMMA SeatWrite ==
  ASSUME NEW b, Formed(b), NEW s \in SeatIds, NEW f \in SeatFields, NEW x
  PROVE  SeatSet(b, [b EXCEPT !.seats = [b.seats EXCEPT ![s] = [b.seats[s] EXCEPT ![f] = x]]], s, f, x)
<1> DEFINE nd == [b.seats[s] EXCEPT ![f] = x]
           p  == [b.seats EXCEPT ![s] = nd]
           c  == [b EXCEPT !.seats = p]
<1>1. DOMAIN nd = DOMAIN b.seats[s] /\ \A g \in SeatFields : nd[g] = IF g = f THEN x ELSE b.seats[s][g]
  BY DEF Formed
<1>2. DOMAIN p = SeatIds /\ \A r \in SeatIds : p[r] = IF r = s THEN nd ELSE b.seats[r]
  <2> HIDE DEF nd
  <2> QED BY DEF Formed
<1>3. DOMAIN c = DOMAIN b /\ c.seats = p /\ \A g \in BookFields \ {"seats"} : c[g] = b[g]
  <2> HIDE DEF p
  <2> QED BY DEF Formed, BookFields
<1>4. \A r \in SeatIds : r = s => nd = [b.seats[r] EXCEPT ![f] = x]
  OBVIOUS
<1> HIDE DEF c, p, nd
<1>5. But({"seats"}, b, c)
  BY <1>1, <1>2, <1>3 DEF But, Formed, BookFields
<1>6. SeatSet(b, c, s, f, x)
  BY <1>1, <1>2, <1>3, <1>4, <1>5 DEF SeatSet
<1> QED BY <1>6 DEF c, p, nd

LEMMA NodeWrites ==
  ASSUME NEW b, Formed(b), NEW n \in Links, NEW x
  PROVE  /\ NodeSet(b, SetPrev(b, n, x), n, "prev", x)
         /\ NodeSet(b, SetNext(b, n, x), n, "next", x)
         /\ NodeSet(b, SetMakerPrev(b, n, x), n, "makerPrev", x)
         /\ NodeSet(b, SetMakerNext(b, n, x), n, "makerNext", x)
         /\ NodeSet(b, SetTick(b, n, x), n, "tick", x)
         /\ NodeSet(b, SetMaker(b, n, x), n, "maker", x)
         /\ NodeSet(b, SetSide(b, n, x), n, "side", x)
         /\ NodeSet(b, SetLots(b, n, x), n, "lots", x)
         /\ NodeSet(b, SetExpiry(b, n, x), n, "expiry", x)
         /\ NodeSet(b, SetSeq(b, n, x), n, "seq", x)
<1>1. /\ NodeSet(b, SetPrev(b, n, x), n, "prev", x)
      /\ NodeSet(b, SetNext(b, n, x), n, "next", x)
      /\ NodeSet(b, SetMakerPrev(b, n, x), n, "makerPrev", x)
      /\ NodeSet(b, SetMakerNext(b, n, x), n, "makerNext", x)
      /\ NodeSet(b, SetTick(b, n, x), n, "tick", x)
  BY NodeWrite DEF NodeFields, SetPrev, SetNext, SetMakerPrev, SetMakerNext, SetTick
<1>2. /\ NodeSet(b, SetMaker(b, n, x), n, "maker", x)
      /\ NodeSet(b, SetSide(b, n, x), n, "side", x)
      /\ NodeSet(b, SetLots(b, n, x), n, "lots", x)
      /\ NodeSet(b, SetExpiry(b, n, x), n, "expiry", x)
      /\ NodeSet(b, SetSeq(b, n, x), n, "seq", x)
  BY NodeWrite DEF NodeFields, SetMaker, SetSide, SetLots, SetExpiry, SetSeq
<1> QED BY <1>1, <1>2

LEMMA LevelWrites ==
  ASSUME NEW b, Formed(b), NEW l \in Ring, NEW x
  PROVE  /\ LevelSet(b, SetHead(b, l, x), l, "head", x)
         /\ LevelSet(b, SetTail(b, l, x), l, "tail", x)
         /\ LevelSet(b, AddLots(b, l, x), l, "total", b.levels[l].total + x)
BY LevelWrite DEF LevelFields, SetHead, SetTail, AddLots

LEMMA SeatWrites ==
  ASSUME NEW b, Formed(b), NEW s \in SeatIds, NEW x, NEW a
  PROVE  /\ SeatSet(b, SetOwner(b, s, x), s, "owner", x)
         /\ SeatSet(b, SetOrdersHead(b, s, x), s, "head", x)
         /\ SeatSet(b, SetOrderCount(b, s, x), s, "count", x)
         /\ SeatSet(b, SetFree(b, s, a, x), s, "free", [b.seats[s].free EXCEPT ![a] = x])
         /\ SeatSet(b, SetLocked(b, s, a, x), s, "locked", [b.seats[s].locked EXCEPT ![a] = x])
BY SeatWrite DEF SeatFields, SetOwner, SetOrdersHead, SetOrderCount, SetFree, SetLocked

LEMMA ListWrites ==
  ASSUME NEW b, Formed(b), NEW x
  PROVE  /\ But({"freeHead"}, b, SetFreeHead(b, x)) /\ SetFreeHead(b, x).freeHead = x
         /\ But({"freeCount"}, b, SetFreeCount(b, x)) /\ SetFreeCount(b, x).freeCount = x
         /\ But({"orderSeq"}, b, SetOrderSeq(b, x)) /\ SetOrderSeq(b, x).orderSeq = x
         /\ But({}, b, BumpSeq(b))
<1>1. But({"freeHead"}, b, SetFreeHead(b, x)) /\ SetFreeHead(b, x).freeHead = x
  BY DEF But, Formed, BookFields, SetFreeHead
<1>2. But({"freeCount"}, b, SetFreeCount(b, x)) /\ SetFreeCount(b, x).freeCount = x
  BY DEF But, Formed, BookFields, SetFreeCount
<1>3. But({"orderSeq"}, b, SetOrderSeq(b, x)) /\ SetOrderSeq(b, x).orderSeq = x
  BY DEF But, Formed, BookFields, SetOrderSeq
<1>4. But({}, b, BumpSeq(b))
  BY DEF But, Formed, BookFields, BumpSeq
<1> QED BY <1>1, <1>2, <1>3, <1>4

LEMMA BitWrites ==
  ASSUME NEW b, Formed(b), NEW side \in Sides, NEW l
  PROVE  /\ But({"bits"}, b, SetBit(b, side, l)) /\ But({"bits"}, b, ClearBit(b, side, l))
         /\ \A d \in Sides :
              /\ SetBit(b, side, l).bits[d] = IF d = side THEN b.bits[d] \cup {l} ELSE b.bits[d]
              /\ ClearBit(b, side, l).bits[d] = IF d = side THEN b.bits[d] \ {l} ELSE b.bits[d]
<1>1. But({"bits"}, b, SetBit(b, side, l)) /\ But({"bits"}, b, ClearBit(b, side, l))
  BY DEF But, Formed, BookFields, SetBit, ClearBit
<1>2. \A d \in Sides :
              /\ SetBit(b, side, l).bits[d] = IF d = side THEN b.bits[d] \cup {l} ELSE b.bits[d]
              /\ ClearBit(b, side, l).bits[d] = IF d = side THEN b.bits[d] \ {l} ELSE b.bits[d]
  BY DEF Formed, BookFields, SetBit, ClearBit
<1> QED BY <1>1, <1>2

LEMMA ZeroLevelWrites ==
  ASSUME NEW b, Formed(b), NEW l \in Ring
  PROVE  /\ But({"levels"}, b, ZeroLevel(b, l))
         /\ \A m \in Ring : ZeroLevel(b, l).levels[m] = IF m = l THEN EmptyLevel ELSE b.levels[m]
<1>1. \A m \in Ring : ZeroLevel(b, l).levels[m] = IF m = l THEN EmptyLevel ELSE b.levels[m]
  BY DEF Formed, BookFields, ZeroLevel
<1>2. /\ DOMAIN ZeroLevel(b, l) = DOMAIN b /\ DOMAIN ZeroLevel(b, l).levels = Ring
      /\ \A g \in BookFields \ {"levels"} : ZeroLevel(b, l)[g] = b[g]
  BY DEF Formed, BookFields, ZeroLevel
<1>3. LevelFields \subseteq DOMAIN EmptyLevel
  BY DEF LevelFields, EmptyLevel
<1> QED BY <1>1, <1>2, <1>3 DEF But, Formed, BookFields

LEMMA ButTrans ==
  ASSUME NEW P, NEW Q, NEW a, NEW b, NEW c, But(P, a, b), But(Q, b, c)
  PROVE  But(P \cup Q, a, c)
BY DEF But

LEMMA ButIs ==
  ASSUME NEW P, NEW b, NEW c, But(P, b, c)
  PROVE  /\ "anchor" \notin P => c.anchor = b.anchor
         /\ "bits" \notin P => c.bits = b.bits
         /\ "levels" \notin P => c.levels = b.levels
         /\ "seats" \notin P => c.seats = b.seats
         /\ "pool" \notin P => c.pool = b.pool
         /\ "freeHead" \notin P => c.freeHead = b.freeHead
         /\ "freeCount" \notin P => c.freeCount = b.freeCount
         /\ "orderSeq" \notin P => c.orderSeq = b.orderSeq
BY DEF But, BookFields

\* The two list links of each node but n are past it.
ListPast(b, c, n) ==
  LET p == b.pool[n].prev
      m == b.pool[n].next
  IN /\ \A k \in Links :
          /\ c.pool[k].next = IF k = p /\ p # NIL THEN m ELSE b.pool[k].next
          /\ c.pool[k].prev = IF k = m /\ m # NIL THEN p ELSE b.pool[k].prev
          /\ \A g \in NodeFields \ {"prev", "next"} : c.pool[k][g] = b.pool[k][g]
     /\ c.pool[NIL] = b.pool[NIL]

\* The level's ends, without node n.
HeadPast(b, n) == LET p == b.pool[n].prev
                  IN IF p = NIL THEN b.pool[n].next ELSE b.levels[Slot(b.pool[n].tick)].head
TailPast(b, n) == LET m == b.pool[n].next
                  IN IF m = NIL THEN b.pool[n].prev ELSE b.levels[Slot(b.pool[n].tick)].tail

Linked(b, n) ==
  /\ b.pool[n].prev \in Links /\ b.pool[n].next \in Links
  /\ Slot(b.pool[n].tick) \in Ring

Bypassed(b, c, n) ==
  LET l == Slot(b.pool[n].tick)
  IN /\ But({"pool", "levels"}, b, c)
     /\ ListPast(b, c, n)
     /\ \A m \in Ring \ {l} : c.levels[m] = b.levels[m]
     /\ c.levels[l].head = HeadPast(b, n) /\ c.levels[l].tail = TailPast(b, n)
     /\ c.levels[l].total = b.levels[l].total

LEMMA FifoBypassEffect ==
  ASSUME NEW b, Formed(b), NEW n \in Links, Linked(b, n)
  PROVE  Bypassed(b, FifoBypass(b, n), n)
<1> DEFINE p == b.pool[n].prev
           m == b.pool[n].next
           l == Slot(b.pool[n].tick)
           f == IF p # NIL THEN SetNext(b, p, m) ELSE SetHead(b, l, m)
           c == IF m # NIL THEN SetPrev(f, m, p) ELSE SetTail(f, l, p)
<1>1. p \in Links /\ m \in Links /\ l \in Ring /\ NIL \in Links
  BY BookAssumption DEF Linked, Links, NIL
<1>2. c = FifoBypass(b, n)
  BY DEF FifoBypass
<1>3. CASE p # NIL
  <2>1. NodeSet(b, f, p, "next", m)
    <3>1. f = SetNext(b, p, m)
      BY <1>3
    <3> HIDE DEF f
    <3> QED BY <1>1, <3>1, NodeWrites
  <2>2. "next" \in NodeFields /\ "prev" \in NodeFields /\ "tail" \in LevelFields
    BY SMTT(30) DEF NodeFields, LevelFields
  <2> HIDE DEF f
  <2>3. /\ Formed(f) /\ f.anchor = b.anchor /\ f.bits = b.bits /\ f.levels = b.levels
        /\ f.seats = b.seats /\ f.freeHead = b.freeHead /\ f.freeCount = b.freeCount
        /\ f.orderSeq = b.orderSeq
        /\ \A k \in Links \ {p} : f.pool[k] = b.pool[k]
        /\ \A g \in NodeFields \ {"next"} : f.pool[p][g] = b.pool[p][g]
        /\ f.pool[p].next = m
    BY <1>1, <2>1 DEF NodeSet, NodeFields, But, BookFields
  <2>4. CASE m # NIL
    <3>0. c = SetPrev(f, m, p)
      BY <2>4
    <3> HIDE DEF c
    <3>1. NodeSet(f, c, m, "prev", p)
      BY SMTT(30), <1>1, <2>3, <3>0, NodeWrites
    <3>2. /\ Formed(c) /\ c.anchor = f.anchor /\ c.bits = f.bits /\ c.levels = f.levels
          /\ c.seats = f.seats /\ c.freeHead = f.freeHead /\ c.freeCount = f.freeCount
          /\ c.orderSeq = f.orderSeq
          /\ \A k \in Links \ {m} : c.pool[k] = f.pool[k]
          /\ \A g \in NodeFields \ {"prev"} : c.pool[m][g] = f.pool[m][g]
          /\ c.pool[m].prev = p
      BY <1>1, <3>1 DEF NodeSet, NodeFields, But, BookFields
    <3>3. But({"pool", "levels"}, b, c)
      BY <2>3, <3>2 DEF But, BookFields
    <3>4. ListPast(b, c, n)
      BY <1>1, <1>3, <2>2, <2>3, <2>4, <3>2 DEF ListPast
    <3>5. /\ \A k \in Ring \ {l} : c.levels[k] = b.levels[k]
          /\ c.levels[l].head = HeadPast(b, n) /\ c.levels[l].tail = TailPast(b, n)
          /\ c.levels[l].total = b.levels[l].total
      <4>1. \A k \in Ring \ {l} : c.levels[k] = b.levels[k]
        BY <2>3, <3>2
      <4>2. c.levels[l].head = HeadPast(b, n)
        BY <1>3, <2>3, <2>4, <3>2 DEF HeadPast
      <4>3. c.levels[l].tail = TailPast(b, n)
        BY <1>3, <2>3, <2>4, <3>2 DEF TailPast
      <4>4. c.levels[l].total = b.levels[l].total
        BY <2>3, <3>2
      <4> QED BY <4>1, <4>2, <4>3, <4>4
    <3> QED BY <1>2, <3>3, <3>4, <3>5 DEF Bypassed
  <2>5. CASE m = NIL
    <3>0. c = SetTail(f, l, p)
      BY <2>5
    <3> HIDE DEF c
    <3>1. LevelSet(f, c, l, "tail", p)
      BY <1>1, <2>3, <3>0, LevelWrites
    <3>2. /\ Formed(c) /\ c.anchor = f.anchor /\ c.bits = f.bits /\ c.pool = f.pool
          /\ c.seats = f.seats /\ c.freeHead = f.freeHead /\ c.freeCount = f.freeCount
          /\ c.orderSeq = f.orderSeq
          /\ \A k \in Ring \ {l} : c.levels[k] = f.levels[k]
          /\ c.levels[l].head = f.levels[l].head /\ c.levels[l].total = f.levels[l].total
          /\ c.levels[l].tail = p
      BY <1>1, <3>1 DEF LevelSet, LevelFields, But, BookFields
    <3>3. But({"pool", "levels"}, b, c)
      BY <2>3, <3>2 DEF But, BookFields
    <3>4. ListPast(b, c, n)
      BY <1>1, <1>3, <2>2, <2>3, <2>5, <3>2 DEF ListPast
    <3>5. /\ \A k \in Ring \ {l} : c.levels[k] = b.levels[k]
          /\ c.levels[l].head = HeadPast(b, n) /\ c.levels[l].tail = TailPast(b, n)
          /\ c.levels[l].total = b.levels[l].total
      <4>1. \A k \in Ring \ {l} : c.levels[k] = b.levels[k]
        BY <2>3, <3>2
      <4>2. c.levels[l].head = HeadPast(b, n)
        BY <1>3, <2>3, <2>5, <3>2 DEF HeadPast
      <4>3. c.levels[l].tail = TailPast(b, n)
        BY <1>3, <2>3, <2>5, <3>2 DEF TailPast
      <4>4. c.levels[l].total = b.levels[l].total
        BY <2>3, <3>2
      <4> QED BY <4>1, <4>2, <4>3, <4>4
    <3> QED BY <1>2, <3>3, <3>4, <3>5 DEF Bypassed
  <2> QED BY <2>4, <2>5
<1>4. CASE p = NIL
  <2>1. LevelSet(b, f, l, "head", m)
    <3>1. f = SetHead(b, l, m)
      BY <1>4
    <3> HIDE DEF f
    <3> QED BY <1>1, <3>1, LevelWrites
  <2>2. "next" \in NodeFields /\ "prev" \in NodeFields /\ "tail" \in LevelFields /\ "head" \in LevelFields
    BY DEF NodeFields, LevelFields
  <2> HIDE DEF f
  <2>3. /\ Formed(f) /\ f.anchor = b.anchor /\ f.bits = b.bits /\ f.pool = b.pool
        /\ f.seats = b.seats /\ f.freeHead = b.freeHead /\ f.freeCount = b.freeCount
        /\ f.orderSeq = b.orderSeq
        /\ \A k \in Ring \ {l} : f.levels[k] = b.levels[k]
        /\ f.levels[l].tail = b.levels[l].tail /\ f.levels[l].total = b.levels[l].total
        /\ f.levels[l].head = m
    BY <1>1, <2>1 DEF LevelSet, LevelFields, But, BookFields
  <2>4. CASE m # NIL
    <3>0. c = SetPrev(f, m, p)
      BY <2>4
    <3> HIDE DEF c
    <3>1. NodeSet(f, c, m, "prev", p)
      BY <1>1, <2>3, <3>0, NodeWrites
    <3>2. /\ Formed(c) /\ c.anchor = f.anchor /\ c.bits = f.bits /\ c.levels = f.levels
          /\ c.seats = f.seats /\ c.freeHead = f.freeHead /\ c.freeCount = f.freeCount
          /\ c.orderSeq = f.orderSeq
          /\ \A k \in Links \ {m} : c.pool[k] = f.pool[k]
          /\ \A g \in NodeFields \ {"prev"} : c.pool[m][g] = f.pool[m][g]
          /\ c.pool[m].prev = p
      BY <1>1, <3>1 DEF NodeSet, NodeFields, But, BookFields
    <3>3. But({"pool", "levels"}, b, c)
      BY <2>3, <3>2 DEF But, BookFields
    <3>4. ListPast(b, c, n)
      BY <1>1, <1>4, <2>2, <2>3, <2>4, <3>2 DEF ListPast
    <3>5. /\ \A k \in Ring \ {l} : c.levels[k] = b.levels[k]
          /\ c.levels[l].head = HeadPast(b, n) /\ c.levels[l].tail = TailPast(b, n)
          /\ c.levels[l].total = b.levels[l].total
      <4>1. \A k \in Ring \ {l} : c.levels[k] = b.levels[k]
        BY <2>3, <3>2
      <4>2. c.levels[l].head = HeadPast(b, n)
        BY <1>4, <2>3, <2>4, <3>2 DEF HeadPast
      <4>3. c.levels[l].tail = TailPast(b, n)
        BY <1>4, <2>3, <2>4, <3>2 DEF TailPast
      <4>4. c.levels[l].total = b.levels[l].total
        BY <2>3, <3>2
      <4> QED BY <4>1, <4>2, <4>3, <4>4
    <3> QED BY <1>2, <3>3, <3>4, <3>5 DEF Bypassed
  <2>5. CASE m = NIL
    <3>0. c = SetTail(f, l, p)
      BY <2>5
    <3> HIDE DEF c
    <3>1. LevelSet(f, c, l, "tail", p)
      BY <1>1, <2>3, <3>0, LevelWrites
    <3>2. /\ Formed(c) /\ c.anchor = f.anchor /\ c.bits = f.bits /\ c.pool = f.pool
          /\ c.seats = f.seats /\ c.freeHead = f.freeHead /\ c.freeCount = f.freeCount
          /\ c.orderSeq = f.orderSeq
          /\ \A k \in Ring \ {l} : c.levels[k] = f.levels[k]
          /\ c.levels[l].head = f.levels[l].head /\ c.levels[l].total = f.levels[l].total
          /\ c.levels[l].tail = p
      BY <1>1, <3>1 DEF LevelSet, LevelFields, But, BookFields
    <3>3. But({"pool", "levels"}, b, c)
      BY <2>3, <3>2 DEF But, BookFields
    <3>4. ListPast(b, c, n)
      BY <1>1, <1>4, <2>2, <2>3, <2>5, <3>2 DEF ListPast
    <3>5. /\ \A k \in Ring \ {l} : c.levels[k] = b.levels[k]
          /\ c.levels[l].head = HeadPast(b, n) /\ c.levels[l].tail = TailPast(b, n)
          /\ c.levels[l].total = b.levels[l].total
      <4>1. \A k \in Ring \ {l} : c.levels[k] = b.levels[k]
        BY <2>3, <3>2
      <4>2. c.levels[l].head = HeadPast(b, n)
        BY <1>4, <2>3, <2>5, <3>2 DEF HeadPast
      <4>3. c.levels[l].tail = TailPast(b, n)
        BY <1>4, <2>3, <2>5, <3>2 DEF TailPast
      <4>4. c.levels[l].total = b.levels[l].total
        BY <2>3, <3>2
      <4> QED BY <4>1, <4>2, <4>3, <4>4
    <3> QED BY <1>2, <3>3, <3>4, <3>5 DEF Bypassed
  <2> QED BY <2>4, <2>5
<1> QED BY <1>3, <1>4

\* Node n leaves its level.
Unlisted(b, c, side, n) ==
  LET l == Slot(b.pool[n].tick)
  IN /\ But({"pool", "levels", "bits"}, b, c)
     /\ ListPast(b, c, n)
     /\ \A m \in Ring \ {l} : c.levels[m] = b.levels[m]
     /\ IF HeadPast(b, n) = NIL
        THEN /\ c.levels[l] = EmptyLevel
             /\ \A d \in Sides : c.bits[d] = IF d = side THEN b.bits[d] \ {l} ELSE b.bits[d]
        ELSE /\ c.levels[l].head = HeadPast(b, n) /\ c.levels[l].tail = TailPast(b, n)
             /\ c.levels[l].total = b.levels[l].total - b.pool[n].lots
             /\ c.bits = b.bits

LEMMA FifoUnlinkEffect ==
  ASSUME NEW b, Formed(b), NEW n \in Links, Linked(b, n), NEW side \in Sides
  PROVE  Unlisted(b, FifoUnlink(b, side, n), side, n)
<1> DEFINE l == Slot(b.pool[n].tick)
           past == FifoBypass(b, n)
           z == ZeroLevel(past, l)
           c == FifoUnlink(b, side, n)
<1>1. l \in Ring /\ l = Slot(b.pool[n].tick)
  BY DEF Linked
<1>2. /\ But({"pool", "levels"}, b, past)
      /\ ListPast(b, past, n)
      /\ \A m \in Ring \ {l} : past.levels[m] = b.levels[m]
      /\ past.levels[l].head = HeadPast(b, n) /\ past.levels[l].tail = TailPast(b, n)
      /\ past.levels[l].total = b.levels[l].total
  BY FifoBypassEffect DEF Bypassed
<1>3. c = IF past.levels[l].head = NIL THEN ClearBit(z, side, l)
          ELSE AddLots(past, l, -b.pool[n].lots)
  BY DEF FifoUnlink
<1> HIDE DEF past, c, l
<1>4. Formed(past)
  BY <1>2 DEF But
<1>5. CASE HeadPast(b, n) = NIL
  <2>1. c = ClearBit(z, side, l)
    BY <1>2, <1>3, <1>5
  <2>2. /\ But({"levels"}, past, z)
        /\ \A m \in Ring : z.levels[m] = IF m = l THEN EmptyLevel ELSE past.levels[m]
    BY <1>1, <1>4, ZeroLevelWrites
  <2> HIDE DEF z
  <2>3. Formed(z)
    BY <2>2 DEF But
  <2>4. /\ But({"bits"}, z, c)
        /\ \A d \in Sides : c.bits[d] = IF d = side THEN z.bits[d] \ {l} ELSE z.bits[d]
    <3>1. But({"bits"}, z, ClearBit(z, side, l))
      BY <2>3, BitWrites
    <3>2. \A d \in Sides : ClearBit(z, side, l).bits[d] = IF d = side THEN z.bits[d] \ {l} ELSE z.bits[d]
      BY <2>3, BitWrites DEF Formed, BookFields, ClearBit
    <3> QED BY <2>1, <3>1, <3>2
  <2>5. But({"pool", "levels", "bits"}, b, c) /\ c.levels = z.levels /\ z.bits = b.bits /\ c.pool = past.pool
    BY <1>2, <2>2, <2>4 DEF But, BookFields
  <2>6. ListPast(b, c, n)
    BY <1>2, <2>5 DEF ListPast
  <2>7. /\ \A m \in Ring \ {l} : c.levels[m] = b.levels[m]
        /\ c.levels[l] = EmptyLevel
        /\ \A d \in Sides : c.bits[d] = IF d = side THEN b.bits[d] \ {l} ELSE b.bits[d]
    <3>1. \A m \in Ring : c.levels[m] = IF m = l THEN EmptyLevel ELSE past.levels[m]
      BY <2>2, <2>5
    <3>2. \A d \in Sides : c.bits[d] = IF d = side THEN b.bits[d] \ {l} ELSE b.bits[d]
      BY <2>4, <2>5
    <3> QED BY <1>1, <1>2, <3>1, <3>2
  <2> QED BY <1>1, <1>5, <2>5, <2>6, <2>7 DEF Unlisted, c
<1>6. CASE HeadPast(b, n) # NIL
  <2>1. c = AddLots(past, l, -b.pool[n].lots)
    BY <1>2, <1>3, <1>6
  <2>2. LevelSet(past, c, l, "total", past.levels[l].total + (-b.pool[n].lots))
    BY <1>1, <1>4, <2>1, LevelWrites
  <2>3. But({"pool", "levels", "bits"}, b, c) /\ c.bits = b.bits /\ c.pool = past.pool
    BY <1>2, <2>2 DEF LevelSet, But, BookFields
  <2>4. ListPast(b, c, n)
    BY <1>2, <2>3 DEF ListPast
  <2>5. /\ \A m \in Ring \ {l} : c.levels[m] = past.levels[m]
        /\ c.levels[l].head = past.levels[l].head /\ c.levels[l].tail = past.levels[l].tail
        /\ c.levels[l].total = past.levels[l].total + (-b.pool[n].lots)
    BY <1>1, <2>2 DEF LevelSet, LevelFields
  <2>6. c.levels[l].total = b.levels[l].total + (-b.pool[n].lots)
    BY <1>2, <2>5
  <2>7. \A m \in Ring \ {l} : c.levels[m] = b.levels[m]
    BY <1>2, <2>5
  <2> QED BY <1>1, <1>2, <1>6, <2>3, <2>4, <2>5, <2>6, <2>7 DEF Unlisted, c
<1> QED BY <1>5, <1>6

\* Node n leaves its maker's chain and returns to the free list.
ChainPast(b, c, n) ==
  LET p == b.pool[n].makerPrev
      m == b.pool[n].makerNext
  IN \A k \in Links :
       /\ c.pool[k].makerNext = IF k = p /\ p # NIL THEN m ELSE b.pool[k].makerNext
       /\ c.pool[k].makerPrev = IF k = m /\ m # NIL THEN p ELSE b.pool[k].makerPrev

FirstPast(b, n) ==
  IF b.pool[n].makerPrev = NIL THEN b.pool[n].makerNext ELSE b.seats[b.pool[n].maker].head

Chained(b, n) ==
  /\ b.pool[n].makerPrev \in Links /\ b.pool[n].makerNext \in Links
  /\ b.pool[n].maker \in SeatIds

ChainBypassed(b, c, n) ==
  LET s == b.pool[n].maker
  IN /\ But({"pool", "seats"}, b, c)
     /\ ChainPast(b, c, n)
     /\ \A k \in Links, g \in NodeFields \ {"makerPrev", "makerNext"} : c.pool[k][g] = b.pool[k][g]
     /\ c.pool[NIL] = b.pool[NIL]
     /\ \A r \in SeatIds \ {s} : c.seats[r] = b.seats[r]
     /\ c.seats[s].head = FirstPast(b, n)
     /\ \A g \in SeatFields \ {"head"} : c.seats[s][g] = b.seats[s][g]

LEMMA ChainBypassEffect ==
  ASSUME NEW b, Formed(b), NEW n \in Links, Chained(b, n)
  PROVE  ChainBypassed(b, ChainBypass(b, n), n)
<1> DEFINE p == b.pool[n].makerPrev
           m == b.pool[n].makerNext
           s == b.pool[n].maker
           f == IF p = NIL THEN SetOrdersHead(b, s, m) ELSE SetMakerNext(b, p, m)
           c == IF m = NIL THEN f ELSE SetMakerPrev(f, m, p)
<1>1. p \in Links /\ m \in Links /\ s \in SeatIds /\ NIL \in Links
  BY BookAssumption DEF Chained, Links, NIL
<1>2. c = ChainBypass(b, n)
  BY SMTT(30) DEF ChainBypass
<1>3. /\ But({"pool", "seats"}, b, f)
      /\ \A k \in Links : f.pool[k].makerNext = IF k = p /\ p # NIL THEN m ELSE b.pool[k].makerNext
      /\ \A k \in Links, g \in NodeFields \ {"makerNext"} : f.pool[k][g] = b.pool[k][g]
      /\ f.pool[NIL] = b.pool[NIL]
      /\ \A r \in SeatIds \ {s} : f.seats[r] = b.seats[r]
      /\ f.seats[s].head = FirstPast(b, n)
      /\ \A g \in SeatFields \ {"head"} : f.seats[s][g] = b.seats[s][g]
  <2>1. CASE p = NIL
    <3>1. f = SetOrdersHead(b, s, m)
      BY <2>1
    <3> HIDE DEF f
    <3>2. SeatSet(b, f, s, "head", m)
      BY <1>1, <3>1, SeatWrites
    <3>3. But({"pool", "seats"}, b, f) /\ f.pool = b.pool
      BY <3>2 DEF SeatSet, But, BookFields
    <3>4. /\ \A r \in SeatIds \ {s} : f.seats[r] = b.seats[r]
          /\ f.seats[s].head = m
          /\ \A g \in SeatFields \ {"head"} : f.seats[s][g] = b.seats[s][g]
      BY <1>1, <3>2 DEF SeatSet, SeatFields
    <3>5. f.seats[s].head = FirstPast(b, n)
      BY <2>1, <3>4 DEF FirstPast
    <3>6. \A k \in Links : f.pool[k].makerNext = IF k = p /\ p # NIL THEN m ELSE b.pool[k].makerNext
      BY <2>1, <3>3
    <3>7. /\ \A k \in Links, g \in NodeFields \ {"makerNext"} : f.pool[k][g] = b.pool[k][g]
          /\ f.pool[NIL] = b.pool[NIL]
      BY <3>3
    <3> QED BY <3>3, <3>4, <3>5, <3>6, <3>7
  <2>2. CASE p # NIL
    <3>1. f = SetMakerNext(b, p, m)
      BY <2>2
    <3> HIDE DEF f
    <3>2. NodeSet(b, f, p, "makerNext", m)
      BY <1>1, <3>1, NodeWrites
    <3>3. But({"pool", "seats"}, b, f) /\ f.seats = b.seats
      BY SMTT(30), <3>2 DEF NodeSet, But, BookFields
    <3>4. /\ \A k \in Links \ {p} : f.pool[k] = b.pool[k]
          /\ f.pool[p].makerNext = m
          /\ \A g \in NodeFields \ {"makerNext"} : f.pool[p][g] = b.pool[p][g]
      BY <1>1, <3>2 DEF NodeSet, NodeFields
    <3>5. f.seats[s].head = FirstPast(b, n)
      BY <2>2, <3>3 DEF FirstPast
    <3>6. \A k \in Links : f.pool[k].makerNext = IF k = p /\ p # NIL THEN m ELSE b.pool[k].makerNext
      BY <2>2, <3>4
    <3>7. \A k \in Links, g \in NodeFields \ {"makerNext"} : f.pool[k][g] = b.pool[k][g]
      BY <3>4
    <3>8. f.pool[NIL] = b.pool[NIL]
      BY <1>1, <2>2, <3>4
    <3>9. /\ \A r \in SeatIds \ {s} : f.seats[r] = b.seats[r]
          /\ \A g \in SeatFields \ {"head"} : f.seats[s][g] = b.seats[s][g]
      BY <3>3
    <3> QED BY <3>3, <3>5, <3>6, <3>7, <3>8, <3>9
  <2> QED BY <2>1, <2>2
<1> HIDE DEF f
<1>4. Formed(f) /\ "makerNext" \in NodeFields /\ "makerPrev" \in NodeFields
  BY <1>3 DEF But, NodeFields
<1>5. CASE m = NIL
  <2>1. c = f
    BY <1>5
  <2>2. ChainPast(b, f, n)
    <3>1. \A k \in Links : f.pool[k].makerPrev = b.pool[k].makerPrev
      BY <1>3 DEF NodeFields
    <3> QED BY <1>3, <1>5, <3>1 DEF ChainPast
  <2>3. \A k \in Links, g \in NodeFields \ {"makerPrev", "makerNext"} : f.pool[k][g] = b.pool[k][g]
    BY <1>3
  <2>4. ChainBypassed(b, f, n)
    BY <1>3, <2>2, <2>3 DEF ChainBypassed
  <2> QED BY <1>2, <2>1, <2>4
<1>6. CASE m # NIL
  <2>1. c = SetMakerPrev(f, m, p)
    BY <1>6
  <2> HIDE DEF c
  <2>2. NodeSet(f, c, m, "makerPrev", p)
    BY <1>1, <1>4, <2>1, NodeWrites
  <2>3. But({"pool", "seats"}, b, c) /\ c.seats = f.seats
    BY SMTT(30), <1>3, <2>2 DEF NodeSet, But, BookFields
  <2>4. /\ \A k \in Links \ {m} : c.pool[k] = f.pool[k]
        /\ c.pool[m].makerPrev = p
        /\ \A g \in NodeFields \ {"makerPrev"} : c.pool[m][g] = f.pool[m][g]
    BY <1>1, <2>2 DEF NodeSet, NodeFields
  <2>5. ChainPast(b, c, n)
    <3>1. \A k \in Links : f.pool[k].makerPrev = b.pool[k].makerPrev
      BY <1>3 DEF NodeFields
    <3>2. c.pool[m].makerNext = f.pool[m].makerNext
      BY <2>4 DEF NodeFields
    <3> QED BY <1>3, <1>6, <2>4, <3>1, <3>2 DEF ChainPast
  <2>6. \A k \in Links, g \in NodeFields \ {"makerPrev", "makerNext"} : c.pool[k][g] = b.pool[k][g]
    <3> SUFFICES ASSUME NEW k \in Links, NEW g \in NodeFields \ {"makerPrev", "makerNext"}
                 PROVE  c.pool[k][g] = b.pool[k][g]
      OBVIOUS
    <3>1. f.pool[k][g] = b.pool[k][g]
      BY <1>3
    <3>2. c.pool[k][g] = f.pool[k][g]
      BY <2>4
    <3> QED BY <3>1, <3>2
  <2>7. c.pool[NIL] = b.pool[NIL]
    BY <1>1, <1>3, <1>6, <2>4
  <2> QED BY <1>2, <1>3, <2>3, <2>5, <2>6, <2>7 DEF ChainBypassed
<1> QED BY <1>5, <1>6

\* The node is the free list's first, and nothing but its id, size and next
\* link changes.
Returned(b, c, n) ==
  /\ But({"pool", "freeHead", "freeCount"}, b, c)
  /\ c.freeHead = n /\ c.freeCount = b.freeCount + 1
  /\ \A k \in Links \ {n} : c.pool[k] = b.pool[k]
  /\ c.pool[n].next = b.freeHead /\ c.pool[n].seq = FreedSeq
  /\ \A g \in NodeFields \ {"next", "seq", "lots"} : c.pool[n][g] = b.pool[n][g]

LEMMA FreeNodeEffect ==
  ASSUME NEW b, Formed(b), NEW n \in Links
  PROVE  Returned(b, FreeNode(b, n), n)
<1> DEFINE b1 == SetNext(b, n, b.freeHead)
           b2 == SetSeq(b1, n, FreedSeq)
           b3 == SetLots(b2, n, 0)
           b4 == SetFreeHead(b3, n)
           c  == SetFreeCount(b4, b.freeCount + 1)
<1>1. NodeSet(b, b1, n, "next", b.freeHead)
  BY NodeWrites
<1> HIDE DEF b1
<1>2. NodeSet(b1, b2, n, "seq", FreedSeq)
  BY <1>1, NodeWrites DEF NodeSet, But
<1> HIDE DEF b2
<1>3. NodeSet(b2, b3, n, "lots", 0)
  BY <1>2, NodeWrites DEF NodeSet, But
<1> HIDE DEF b3
<1>4. But({"freeHead"}, b3, b4) /\ b4.freeHead = n
  BY <1>3, ListWrites DEF NodeSet, But
<1> HIDE DEF b4
<1>5. But({"freeCount"}, b4, c) /\ c.freeCount = b.freeCount + 1
  BY <1>4, ListWrites DEF But
<1>6. c = FreeNode(b, n)
  BY DEF FreeNode, b1, b2, b3, b4
<1> HIDE DEF c
<1>7. But({"pool", "freeHead", "freeCount"}, b, c)
  BY <1>1, <1>2, <1>3, <1>4, <1>5 DEF NodeSet, But
<1>8. c.pool = b3.pool /\ c.freeHead = n
  BY <1>4, <1>5 DEF But, BookFields
<1>9. \A k \in Links \ {n} : b3.pool[k] = b.pool[k]
  BY <1>1, <1>2, <1>3 DEF NodeSet
<1>10. b3.pool[n].next = b.freeHead /\ b3.pool[n].seq = FreedSeq
  BY <1>1, <1>2, <1>3 DEF NodeSet, NodeFields
<1>11. \A g \in NodeFields \ {"next", "seq", "lots"} : b3.pool[n][g] = b.pool[n][g]
  BY <1>1, <1>2, <1>3 DEF NodeSet
<1> QED BY <1>5, <1>6, <1>7, <1>8, <1>9, <1>10, <1>11 DEF Returned

\* c is b but for balances.
Paid(b, c) ==
  /\ But({"seats"}, b, c)
  /\ \A s \in SeatIds : /\ c.seats[s].owner = b.seats[s].owner
                        /\ c.seats[s].head = b.seats[s].head
                        /\ c.seats[s].count = b.seats[s].count

LEMMA PaidTrans == ASSUME NEW a, NEW b, NEW c, Paid(a, b), Paid(b, c) PROVE Paid(a, c)
<1>1. But({"seats"}, a, c)
  BY DEF Paid, But
<1> QED BY <1>1 DEF Paid

LEMMA BalanceWrites ==
  ASSUME NEW b, Formed(b), NEW s \in SeatIds, NEW a, NEW x
  PROVE  Paid(b, SetFree(b, s, a, x)) /\ Paid(b, SetLocked(b, s, a, x))
<1>1. \A c, f, v : f \in {"free", "locked"} /\ SeatSet(b, c, s, f, v) => Paid(b, c)
  <2> SUFFICES ASSUME NEW c, NEW f \in {"free", "locked"}, NEW v, SeatSet(b, c, s, f, v)
               PROVE  Paid(b, c)
    OBVIOUS
  <2>1. \A r \in SeatIds \ {s} : c.seats[r] = b.seats[r]
    BY DEF SeatSet
  <2>2. /\ c.seats[s].owner = b.seats[s].owner /\ c.seats[s].head = b.seats[s].head
        /\ c.seats[s].count = b.seats[s].count
    BY DEF SeatSet, SeatFields
  <2>3. But({"seats"}, b, c)
    BY DEF SeatSet
  <2> QED BY <2>1, <2>2, <2>3 DEF Paid
<1>2. SeatSet(b, SetFree(b, s, a, x), s, "free", [b.seats[s].free EXCEPT ![a] = x])
  BY SeatWrites
<1>3. SeatSet(b, SetLocked(b, s, a, x), s, "locked", [b.seats[s].locked EXCEPT ![a] = x])
  BY SeatWrites
<1> QED BY <1>1, <1>2, <1>3

LEMMA PaidFormed == ASSUME NEW b, NEW c, Paid(b, c) PROVE Formed(c)
BY DEF Paid, But

LEMMA PaymentsPaid ==
  ASSUME NEW b, Formed(b), NEW s \in SeatIds, NEW a, NEW x
  PROVE  /\ Paid(b, AddFree(b, s, a, x)) /\ Paid(b, Lock(b, s, a, x)) /\ Paid(b, Unlock(b, s, a, x))
<1>1. Paid(b, AddFree(b, s, a, x))
  BY BalanceWrites DEF AddFree
<1>2. Paid(b, Lock(b, s, a, x))
  <2> DEFINE c == SetFree(b, s, a, b.seats[s].free[a] - x)
  <2>1. Paid(b, c)
    BY BalanceWrites
  <2>2. Lock(b, s, a, x) = SetLocked(c, s, a, b.seats[s].locked[a] + x)
    BY DEF Lock
  <2> HIDE DEF c
  <2> QED BY <2>1, <2>2, BalanceWrites, PaidFormed, PaidTrans
<1>3. Paid(b, Unlock(b, s, a, x))
  <2> DEFINE c == SetLocked(b, s, a, b.seats[s].locked[a] - x)
  <2>1. Paid(b, c)
    BY BalanceWrites
  <2>2. Unlock(b, s, a, x) = SetFree(c, s, a, b.seats[s].free[a] + x)
    BY DEF Unlock
  <2> HIDE DEF c
  <2> QED BY <2>1, <2>2, BalanceWrites, PaidFormed, PaidTrans
<1> QED BY <1>1, <1>2, <1>3

LEMMA SettleMakerPaid ==
  ASSUME NEW b, Formed(b), NEW side, NEW tick, NEW n, NEW lots, b.pool[n].maker \in SeatIds
  PROVE  Paid(b, SettleMaker(b, side, tick, n, lots))
<1> DEFINE s    == b.pool[n].maker
           paid == LockedAsset(side)
           got  == LockedAsset(Opposite(side))
           c == SetLocked(b, s, paid, b.seats[s].locked[paid] - LockedAtoms(side, tick, lots))
<1>1. Paid(b, c)
  BY BalanceWrites
<1>2. SettleMaker(b, side, tick, n, lots)
        = SetFree(c, s, got, b.seats[s].free[got] + LockedAtoms(Opposite(side), tick, lots))
  BY DEF SettleMaker
<1> HIDE DEF c
<1> QED BY <1>1, <1>2, BalanceWrites, PaidFormed, PaidTrans

LEMMA OthersPaid ==
  ASSUME NEW b, Formed(b), NEW i
  PROVE  Paid(b, Accrued(b, i)) /\ Paid(b, BumpSeq(b)) /\ Paid(b, b)
<1>1. But({"seats"}, b, Accrued(b, i)) /\ Accrued(b, i).seats = b.seats
  BY DEF But, Formed, BookFields, Accrued
<1>2. But({"seats"}, b, BumpSeq(b)) /\ BumpSeq(b).seats = b.seats
  BY DEF But, Formed, BookFields, BumpSeq
<1>3. But({"seats"}, b, b)
  BY DEF But
<1> QED BY <1>1, <1>2, <1>3 DEF Paid

-----------------------------------------------------------------------------
(* The end of an order                                                     *)

\* What a node says of its order.
OrderFields == {"tick", "maker", "side", "lots", "expiry", "seq"}

\* The level and the bits without node n.
LevelEnded(b, c, n) ==
  LET l    == Slot(b.pool[n].tick)
      side == b.pool[n].side
  IN /\ \A m \in Ring \ {l} : c.levels[m] = b.levels[m]
     /\ IF HeadPast(b, n) = NIL
        THEN /\ c.levels[l] = EmptyLevel
             /\ \A d \in Sides : c.bits[d] = IF d = side THEN b.bits[d] \ {l} ELSE b.bits[d]
        ELSE /\ c.levels[l].head = HeadPast(b, n) /\ c.levels[l].tail = TailPast(b, n)
             /\ c.levels[l].total = b.levels[l].total - b.pool[n].lots
             /\ c.bits = b.bits

\* Every node without node n, which is free.
PoolEnded(b, c, n) ==
  LET p == b.pool[n].prev
      m == b.pool[n].next
  IN /\ \A k \in Links \ {n} :
          /\ c.pool[k].next = IF k = p /\ p # NIL THEN m ELSE b.pool[k].next
          /\ c.pool[k].prev = IF k = m /\ m # NIL THEN p ELSE b.pool[k].prev
          /\ \A g \in OrderFields : c.pool[k][g] = b.pool[k][g]
     /\ ChainPast(b, c, n)
     /\ c.pool[n].next = b.freeHead /\ c.pool[n].seq = FreedSeq
     /\ c.pool[NIL] = b.pool[NIL]
     /\ c.freeHead = n /\ c.freeCount = b.freeCount + 1

SeatsEnded(b, c, n) ==
  LET s == b.pool[n].maker
  IN /\ \A r \in SeatIds : c.seats[r].owner = b.seats[r].owner
     /\ \A r \in SeatIds \ {s} : /\ c.seats[r].head = b.seats[r].head
                                 /\ c.seats[r].count = b.seats[r].count
     /\ c.seats[s].head = FirstPast(b, n)
     /\ c.seats[s].count = (b.seats[s].count + U16Max) % (U16Max + 1)

Ended(b, c, n) ==
  /\ Formed(c) /\ c.anchor = b.anchor /\ c.orderSeq = b.orderSeq
  /\ LevelEnded(b, c, n) /\ PoolEnded(b, c, n) /\ SeatsEnded(b, c, n)

LEMMA UnlinkEffect ==
  ASSUME NEW b, Formed(b), NEW n \in Nodes, Linked(b, n), Chained(b, n), b.pool[n].side \in Sides,
         NEW b1, Paid(b, b1),
         NEW b3, Paid(FifoUnlink(b1, b.pool[n].side, n), b3)
  PROVE  Ended(b, ChainUnlink(b3, n), n)
<1> DEFINE side == b.pool[n].side
           l == Slot(b.pool[n].tick)
           s == b.pool[n].maker
           b2 == FifoUnlink(b1, side, n)
           b4 == ChainBypass(b3, n)
           b5 == SetOrderCount(b4, s, (b3.seats[s].count + U16Max) % (U16Max + 1))
           c  == FreeNode(b5, n)
<1>1. n \in Links /\ n # NIL /\ NIL \in Links /\ s \in SeatIds /\ l \in Ring /\ side \in Sides
  BY BookAssumption DEF Nodes, Links, NIL, Chained, Linked
<1>2. /\ Formed(b1) /\ b1.pool = b.pool /\ b1.levels = b.levels /\ b1.bits = b.bits
      /\ b1.anchor = b.anchor /\ b1.orderSeq = b.orderSeq
      /\ b1.freeHead = b.freeHead /\ b1.freeCount = b.freeCount
  BY DEF Paid, But, BookFields
<1>3. Linked(b1, n)
  BY <1>2 DEF Linked
<1>4. Unlisted(b1, b2, side, n)
  BY <1>1, <1>2, <1>3, FifoUnlinkEffect
<1> HIDE DEF b2
<1>5. Paid(b2, b3)
  BY DEF b2
<1>6. /\ ListPast(b, b3, n) /\ LevelEnded(b, b3, n) /\ Formed(b3)
      /\ b3.anchor = b.anchor /\ b3.orderSeq = b.orderSeq
      /\ b3.freeHead = b.freeHead /\ b3.freeCount = b.freeCount
      /\ \A r \in SeatIds : /\ b3.seats[r].owner = b.seats[r].owner
                            /\ b3.seats[r].head = b.seats[r].head
                            /\ b3.seats[r].count = b.seats[r].count
  <2>1. b3.pool = b2.pool /\ b3.levels = b2.levels /\ b3.bits = b2.bits
    BY <1>5 DEF Paid, But, BookFields
  <2>2. ListPast(b1, b2, n)
    BY <1>4 DEF Unlisted
  <2>3. ListPast(b, b3, n)
    BY <1>2, <2>1, <2>2 DEF ListPast
  <2>4. HeadPast(b1, n) = HeadPast(b, n) /\ TailPast(b1, n) = TailPast(b, n)
    BY <1>2 DEF HeadPast, TailPast
  <2>5. LevelEnded(b, b3, n)
    BY <1>2, <1>4, <2>1, <2>4 DEF Unlisted, LevelEnded
  <2>6. /\ Formed(b3) /\ b3.anchor = b.anchor /\ b3.orderSeq = b.orderSeq
        /\ b3.freeHead = b.freeHead /\ b3.freeCount = b.freeCount
    BY <1>2, <1>4, <1>5 DEF Unlisted, Paid, But, BookFields
  <2>7. b2.seats = b1.seats
    BY <1>4 DEF Unlisted, But, BookFields
  <2> QED BY <1>5, <2>3, <2>5, <2>6, <2>7 DEF Paid
<1>7. Chained(b3, n) /\ b3.pool[n].maker = s
      /\ b3.pool[n].makerPrev = b.pool[n].makerPrev /\ b3.pool[n].makerNext = b.pool[n].makerNext
  BY <1>1, <1>6 DEF ListPast, Chained, NodeFields
<1>8. ChainBypassed(b3, b4, n)
  BY <1>1, <1>6, <1>7, ChainBypassEffect
<1>9. ChainUnlink(b3, n) = c
  BY <1>7 DEF ChainUnlink
<1> HIDE DEF b4
<1>10. Formed(b4)
  BY <1>8 DEF ChainBypassed, But
<1>11. SeatSet(b4, b5, s, "count", (b3.seats[s].count + U16Max) % (U16Max + 1))
  BY <1>1, <1>10, SeatWrites
<1> HIDE DEF b5
<1>12. Returned(b5, c, n)
  BY <1>1, <1>11, FreeNodeEffect DEF SeatSet, But
<1> HIDE DEF c
<1>13. /\ Formed(c) /\ c.anchor = b.anchor /\ c.orderSeq = b.orderSeq
       /\ c.levels = b3.levels /\ c.bits = b3.bits /\ c.seats = b5.seats
       /\ c.freeHead = n /\ c.freeCount = b.freeCount + 1 /\ b5.pool = b4.pool
       /\ b5.freeHead = b.freeHead
  BY <1>6, <1>8, <1>11, <1>12 DEF ChainBypassed, SeatSet, Returned, But, BookFields
<1>14. LevelEnded(b, c, n)
  BY <1>6, <1>13 DEF LevelEnded
<1>15. SeatsEnded(b, c, n)
  <2>1. \A r \in SeatIds : b4.seats[r].owner = b3.seats[r].owner /\ b4.seats[r].count = b3.seats[r].count
    BY <1>7, <1>8 DEF ChainBypassed, SeatFields
  <2>2. /\ \A r \in SeatIds \ {s} : b4.seats[r].head = b3.seats[r].head
        /\ b4.seats[s].head = FirstPast(b3, n)
    BY <1>7, <1>8 DEF ChainBypassed
  <2>3. FirstPast(b3, n) = FirstPast(b, n)
    BY <1>1, <1>6, <1>7 DEF FirstPast
  <2>4. \A r \in SeatIds \ {s} : b5.seats[r] = b4.seats[r]
    BY <1>11 DEF SeatSet
  <2>5. /\ b5.seats[s].owner = b4.seats[s].owner /\ b5.seats[s].head = b4.seats[s].head
        /\ b5.seats[s].count = (b3.seats[s].count + U16Max) % (U16Max + 1)
    BY <1>11 DEF SeatSet, SeatFields
  <2>6. b5.seats[s].count = (b.seats[s].count + U16Max) % (U16Max + 1)
    BY <1>1, <1>6, <2>5
  <2>7. \A r \in SeatIds : b5.seats[r].owner = b.seats[r].owner
    BY <1>6, <2>1, <2>4, <2>5
  <2>8. \A r \in SeatIds \ {s} : /\ b5.seats[r].head = b.seats[r].head
                                 /\ b5.seats[r].count = b.seats[r].count
    BY <1>6, <2>1, <2>2, <2>4
  <2> QED BY <1>13, <2>2, <2>3, <2>5, <2>6, <2>7, <2>8 DEF SeatsEnded
<1>16. PoolEnded(b, c, n)
  <2>1. \A k \in Links \ {n} : c.pool[k] = b4.pool[k]
    BY <1>12, <1>13 DEF Returned
  <2>2. \A k \in Links, g \in NodeFields \ {"makerPrev", "makerNext"} : b4.pool[k][g] = b3.pool[k][g]
    BY <1>8 DEF ChainBypassed
  <2>3. \A k \in Links, g \in OrderFields : b4.pool[k][g] = b.pool[k][g]
    <3>1. \A k \in Links, g \in OrderFields : b3.pool[k][g] = b.pool[k][g]
      BY <1>6 DEF ListPast, OrderFields, NodeFields
    <3> QED BY <2>2, <3>1 DEF OrderFields, NodeFields
  <2>4. \A k \in Links : b4.pool[k].next = b3.pool[k].next /\ b4.pool[k].prev = b3.pool[k].prev
    BY <2>2 DEF NodeFields
  <2>5. \A k \in Links \ {n} :
          /\ c.pool[k].next = IF k = b.pool[n].prev /\ b.pool[n].prev # NIL THEN b.pool[n].next
                                                                         ELSE b.pool[k].next
          /\ c.pool[k].prev = IF k = b.pool[n].next /\ b.pool[n].next # NIL THEN b.pool[n].prev
                                                                         ELSE b.pool[k].prev
    BY <1>6, <2>1, <2>4 DEF ListPast
  <2>6. \A k \in Links \ {n} : \A g \in OrderFields : c.pool[k][g] = b.pool[k][g]
    BY <2>1, <2>3
  <2>7. ChainPast(b, c, n)
    <3>1. \A k \in Links : b3.pool[k].makerNext = b.pool[k].makerNext /\ b3.pool[k].makerPrev = b.pool[k].makerPrev
      BY <1>6 DEF ListPast, NodeFields
    <3>2. \A k \in Links : c.pool[k].makerNext = b4.pool[k].makerNext /\ c.pool[k].makerPrev = b4.pool[k].makerPrev
      BY <1>12, <1>13 DEF Returned, NodeFields
    <3>3. ChainPast(b3, b4, n)
      BY <1>8 DEF ChainBypassed
    <3>4. ChainPast(b, b4, n)
      BY <1>7, <3>1, <3>3 DEF ChainPast
    <3> QED BY <3>2, <3>4 DEF ChainPast
  <2>8. c.pool[n].next = b.freeHead /\ c.pool[n].seq = FreedSeq
    BY <1>12, <1>13 DEF Returned
  <2>9. c.pool[NIL] = b.pool[NIL]
    BY <1>1, <1>6, <1>8, <2>1 DEF ListPast, ChainBypassed
  <2> QED BY <1>13, <2>5, <2>6, <2>7, <2>8, <2>9 DEF PoolEnded
<1> QED BY <1>9, <1>13, <1>14, <1>15, <1>16 DEF Ended

\* Node n joins the level at its end.
Appended(b, c, side, tick, n, lots) ==
  LET l   == Slot(tick)
      old == l \in b.bits[side]
  IN /\ But({"pool", "levels", "bits"}, b, c)
     /\ \A k \in Links \ {n} :
          c.pool[k].next = IF old /\ k = b.levels[l].tail THEN n ELSE b.pool[k].next
     /\ \A k \in Links \ {n}, g \in NodeFields \ {"next"} : c.pool[k][g] = b.pool[k][g]
     /\ c.pool[n].next = NIL /\ c.pool[n].prev = IF old THEN b.levels[l].tail ELSE NIL
     /\ \A g \in NodeFields \ {"prev", "next"} : c.pool[n][g] = b.pool[n][g]
     /\ \A m \in Ring \ {l} : c.levels[m] = b.levels[m]
     /\ c.levels[l].head = IF old THEN b.levels[l].head ELSE n
     /\ c.levels[l].tail = n
     /\ c.levels[l].total = b.levels[l].total + lots
     /\ \A d \in Sides : c.bits[d] = IF d = side THEN b.bits[d] \cup {l} ELSE b.bits[d]
     /\ c.pool[NIL] = b.pool[NIL]

LEMMA FifoAppendEffect ==
  ASSUME NEW b, Formed(b), NEW side \in Sides, NEW tick, Slot(tick) \in Ring, NEW n \in Nodes, NEW lots,
         Slot(tick) \in b.bits[side] =>
           b.levels[Slot(tick)].tail \in Nodes \ {n}
  PROVE  Appended(b, FifoAppend(b, side, tick, n, lots), side, tick, n, lots)
<1> DEFINE l == Slot(tick)
           tail == b.levels[l].tail
           t == SetTail(b, l, n)
           longer == AddLots(t, l, lots)
<1>1. n \in Links /\ n # NIL /\ NIL \in Links /\ l \in Ring
  BY BookAssumption DEF Nodes, Links, NIL
<1>2. LevelSet(b, t, l, "tail", n)
  BY <1>1, LevelWrites
<1> HIDE DEF t
<1>3. LevelSet(t, longer, l, "total", t.levels[l].total + lots)
  BY <1>1, <1>2, LevelWrites DEF LevelSet, But
<1> HIDE DEF longer
<1>4. But({"levels"}, b, longer) /\ longer.pool = b.pool /\ longer.bits = b.bits
  BY <1>2, <1>3 DEF LevelSet, But, BookFields
<1>5. /\ \A m \in Ring \ {l} : longer.levels[m] = b.levels[m]
      /\ longer.levels[l].head = b.levels[l].head /\ longer.levels[l].tail = n
      /\ longer.levels[l].total = b.levels[l].total + lots
  <2>1. \A m \in Ring \ {l} : longer.levels[m] = b.levels[m]
    BY <1>2, <1>3 DEF LevelSet
  <2>2. t.levels[l].head = b.levels[l].head /\ t.levels[l].tail = n /\ t.levels[l].total = b.levels[l].total
    BY <1>2 DEF LevelSet, LevelFields
  <2>3. longer.levels[l].head = t.levels[l].head /\ longer.levels[l].tail = t.levels[l].tail
        /\ longer.levels[l].total = t.levels[l].total + lots
    BY <1>3 DEF LevelSet, LevelFields
  <2> QED BY <2>1, <2>2, <2>3
<1>6. Formed(longer)
  BY <1>4 DEF But
<1>7. CASE l \in b.bits[side]
  <2> DEFINE c1 == SetNext(longer, tail, n)
             c2 == SetPrev(c1, n, tail)
             c  == SetNext(c2, n, NIL)
  <2>1. c = FifoAppend(b, side, tick, n, lots)
    BY <1>7 DEF FifoAppend, longer, t
  <2>2. tail \in Links /\ tail # n /\ tail # NIL
    BY <1>1, <1>7 DEF Nodes, Links, NIL
  <2>3. NodeSet(longer, c1, tail, "next", n)
    BY <1>6, <2>2, NodeWrites
  <2> HIDE DEF c1
  <2>4. NodeSet(c1, c2, n, "prev", tail)
    BY <1>1, <2>3, NodeWrites DEF NodeSet, But
  <2> HIDE DEF c2
  <2>5. NodeSet(c2, c, n, "next", NIL)
    BY <1>1, <2>4, NodeWrites DEF NodeSet, But
  <2> HIDE DEF c, tail
  <2>6. But({"pool", "levels", "bits"}, b, c) /\ c.levels = longer.levels /\ c.bits = b.bits
    BY <1>4, <2>3, <2>4, <2>5 DEF NodeSet, But, BookFields
  <2>7. \A k \in Links \ {n} : c.pool[k] = c1.pool[k]
    BY <2>4, <2>5 DEF NodeSet
  <2>8. \A k \in Links \ {tail} : c1.pool[k] = b.pool[k]
    BY <1>4, <2>3 DEF NodeSet
  <2>9. c1.pool[tail].next = n /\ \A g \in NodeFields \ {"next"} : c1.pool[tail][g] = b.pool[tail][g]
    BY <1>4, <2>3 DEF NodeSet, NodeFields
  <2>10. c.pool[n].next = NIL /\ c.pool[n].prev = tail
    BY <2>4, <2>5 DEF NodeSet, NodeFields
  <2>11. \A g \in NodeFields \ {"prev", "next"} : c.pool[n][g] = c1.pool[n][g]
    BY <2>4, <2>5 DEF NodeSet
  <2>12. \A k \in Links \ {n} : c.pool[k].next = IF k = tail THEN n ELSE b.pool[k].next
    BY <2>7, <2>8, <2>9
  <2>13. \A k \in Links \ {n}, g \in NodeFields \ {"next"} : c.pool[k][g] = b.pool[k][g]
    BY <2>7, <2>8, <2>9
  <2>14. \A g \in NodeFields \ {"prev", "next"} : c.pool[n][g] = b.pool[n][g]
    BY <1>1, <2>2, <2>8, <2>11
  <2>15. c.pool[NIL] = b.pool[NIL]
    BY <1>1, <2>2, <2>7, <2>8
  <2>16. \A d \in Sides : c.bits[d] = IF d = side THEN b.bits[d] \cup {l} ELSE b.bits[d]
    BY <1>7, <2>6
  <2>17. Appended(b, c, side, tick, n, lots)
    BY <1>5, <1>7, <2>6, <2>10, <2>12, <2>13, <2>14, <2>15, <2>16 DEF Appended, tail
  <2> QED BY <2>1, <2>17
<1>8. CASE l \notin b.bits[side]
  <2> DEFINE c1 == SetHead(longer, l, n)
             c2 == SetPrev(c1, n, NIL)
             c3 == SetNext(c2, n, NIL)
             c  == SetBit(c3, side, l)
  <2>1. c = FifoAppend(b, side, tick, n, lots)
    BY <1>8 DEF FifoAppend, longer, t
  <2>3. LevelSet(longer, c1, l, "head", n)
    BY <1>1, <1>6, LevelWrites
  <2> HIDE DEF c1
  <2>4. NodeSet(c1, c2, n, "prev", NIL)
    BY <1>1, <2>3, NodeWrites DEF LevelSet, But
  <2> HIDE DEF c2
  <2>5. NodeSet(c2, c3, n, "next", NIL)
    BY <1>1, <2>4, NodeWrites DEF NodeSet, But
  <2> HIDE DEF c3
  <2>6. But({"bits"}, c3, c)
    BY <2>5, BitWrites DEF NodeSet, But
  <2>6a. \A d \in Sides : c.bits[d] = IF d = side THEN c3.bits[d] \cup {l} ELSE c3.bits[d]
    BY <2>5, BitWrites DEF NodeSet, But, Formed, BookFields, SetBit
  <2> HIDE DEF c
  <2>7. But({"pool", "levels", "bits"}, b, c) /\ c.levels = c1.levels /\ c3.bits = b.bits /\ c.pool = c3.pool
        /\ c1.pool = b.pool
    BY <1>4, <2>3, <2>4, <2>5, <2>6 DEF NodeSet, LevelSet, But, BookFields
  <2>8. \A k \in Links \ {n} : c.pool[k] = b.pool[k]
    BY <2>4, <2>5, <2>7 DEF NodeSet
  <2>9. c.pool[n].next = NIL /\ c.pool[n].prev = NIL
    BY <2>4, <2>5, <2>7 DEF NodeSet, NodeFields
  <2>10. \A g \in NodeFields \ {"prev", "next"} : c.pool[n][g] = b.pool[n][g]
    BY <2>4, <2>5, <2>7 DEF NodeSet
  <2>11. /\ \A m \in Ring \ {l} : c.levels[m] = longer.levels[m]
         /\ c.levels[l].head = n /\ c.levels[l].tail = longer.levels[l].tail
         /\ c.levels[l].total = longer.levels[l].total
    BY <2>3, <2>7 DEF LevelSet, LevelFields
  <2>12. \A d \in Sides : c.bits[d] = IF d = side THEN b.bits[d] \cup {l} ELSE b.bits[d]
    BY <2>6a, <2>7
  <2>13. c.pool[NIL] = b.pool[NIL]
    BY <1>1, <2>8
  <2>14. Appended(b, c, side, tick, n, lots)
    BY <1>5, <1>8, <2>7, <2>8, <2>9, <2>10, <2>11, <2>12, <2>13 DEF Appended
  <2> QED BY <2>1, <2>14
<1> QED BY <1>7, <1>8

\* Node n joins the chain of seat s between nodes p and m.
Spliced(b, c, s, p, m, n) ==
  /\ But({"pool", "seats"}, b, c)
  /\ \A k \in Links \ {n} :
       /\ c.pool[k].makerNext = IF k = p /\ p # NIL THEN n ELSE b.pool[k].makerNext
       /\ c.pool[k].makerPrev = IF k = m /\ m # NIL THEN n ELSE b.pool[k].makerPrev
  /\ c.pool[n].makerPrev = p /\ c.pool[n].makerNext = m
  /\ \A k \in Links, g \in NodeFields \ {"makerPrev", "makerNext"} : c.pool[k][g] = b.pool[k][g]
  /\ c.pool[NIL] = b.pool[NIL]
  /\ \A r \in SeatIds : c.seats[r].owner = b.seats[r].owner /\ c.seats[r].free = b.seats[r].free
                        /\ c.seats[r].locked = b.seats[r].locked
  /\ \A r \in SeatIds \ {s} : c.seats[r] = b.seats[r]
  /\ c.seats[s].head = IF p = NIL THEN n ELSE b.seats[s].head
  /\ c.seats[s].count = (b.seats[s].count + 1) % (U16Max + 1)

LEMMA ChainSpliceEffect ==
  ASSUME NEW b, Formed(b), NEW s \in SeatIds, NEW n \in Nodes,
         NEW p \in Links \ {n}, NEW m \in Links \ {n}, p = NIL \/ p # m
  PROVE  Spliced(b, ChainSplice(b, s, p, m, n), s, p, m, n)
<1> DEFINE b1 == SetMakerPrev(b, n, p)
           own == SetMakerNext(b1, n, m)
           fwd == IF p = NIL THEN SetOrdersHead(own, s, n) ELSE SetMakerNext(own, p, n)
           bwd == IF m = NIL THEN fwd ELSE SetMakerPrev(fwd, m, n)
           c == SetOrderCount(bwd, s, (b.seats[s].count + 1) % (U16Max + 1))
<1>1. n \in Links /\ n # NIL /\ NIL \in Links /\ p \in Links /\ m \in Links /\ p # n /\ m # n
  BY BookAssumption DEF Nodes, Links, NIL
<1>2. c = ChainSplice(b, s, p, m, n)
  BY DEF ChainSplice
<1>3. NodeSet(b, b1, n, "makerPrev", p)
  BY <1>1, NodeWrites
<1> HIDE DEF b1
<1>4. NodeSet(b1, own, n, "makerNext", m)
  BY <1>1, <1>3, NodeWrites DEF NodeSet, But
<1> HIDE DEF own
<1>5. /\ But({"pool"}, b, own) /\ own.seats = b.seats
      /\ \A k \in Links \ {n} : own.pool[k] = b.pool[k]
      /\ own.pool[n].makerPrev = p /\ own.pool[n].makerNext = m
      /\ \A g \in NodeFields \ {"makerPrev", "makerNext"} : own.pool[n][g] = b.pool[n][g]
  <2>1. But({"pool"}, b, own) /\ own.seats = b.seats
    BY <1>3, <1>4 DEF NodeSet, But, BookFields
  <2>2. own.pool[n].makerPrev = p /\ own.pool[n].makerNext = m
    BY <1>3, <1>4 DEF NodeSet, NodeFields
  <2>3. \A k \in Links \ {n} : own.pool[k] = b.pool[k]
    BY <1>3, <1>4 DEF NodeSet
  <2>4. \A g \in NodeFields \ {"makerPrev", "makerNext"} : own.pool[n][g] = b.pool[n][g]
    BY <1>3, <1>4 DEF NodeSet
  <2> QED BY <2>1, <2>2, <2>3, <2>4
<1>6. Formed(own)
  BY <1>5 DEF But
<1>7. /\ But({"pool", "seats"}, own, fwd)
      /\ \A k \in Links : fwd.pool[k].makerNext = IF k = p /\ p # NIL THEN n ELSE own.pool[k].makerNext
      /\ \A k \in Links, g \in NodeFields \ {"makerNext"} : fwd.pool[k][g] = own.pool[k][g]
      /\ fwd.pool[NIL] = own.pool[NIL]
      /\ \A r \in SeatIds \ {s} : fwd.seats[r] = own.seats[r]
      /\ fwd.seats[s].head = IF p = NIL THEN n ELSE own.seats[s].head
      /\ \A g \in SeatFields \ {"head"} : fwd.seats[s][g] = own.seats[s][g]
  <2>1. CASE p = NIL
    <3>1. fwd = SetOrdersHead(own, s, n)
      BY <2>1
    <3> HIDE DEF fwd
    <3>2. SeatSet(own, fwd, s, "head", n)
      BY <1>6, <3>1, SeatWrites
    <3>3. But({"pool", "seats"}, own, fwd) /\ fwd.pool = own.pool
      BY <3>2 DEF SeatSet, But, BookFields
    <3>4. \A r \in SeatIds \ {s} : fwd.seats[r] = own.seats[r]
      BY <3>2 DEF SeatSet
    <3>5. /\ fwd.seats[s].head = n
          /\ \A g \in SeatFields \ {"head"} : fwd.seats[s][g] = own.seats[s][g]
      BY <3>2 DEF SeatSet, SeatFields
    <3> QED BY <2>1, <3>3, <3>4, <3>5
  <2>2. CASE p # NIL
    <3>1. fwd = SetMakerNext(own, p, n)
      BY <2>2
    <3> HIDE DEF fwd
    <3>2. NodeSet(own, fwd, p, "makerNext", n)
      BY <1>1, <1>6, <3>1, NodeWrites
    <3>3. But({"pool", "seats"}, own, fwd) /\ fwd.seats = own.seats
      BY <3>2 DEF NodeSet, But, BookFields
    <3>4. \A k \in Links \ {p} : fwd.pool[k] = own.pool[k]
      BY <3>2 DEF NodeSet
    <3>5. /\ fwd.pool[p].makerNext = n
          /\ \A g \in NodeFields \ {"makerNext"} : fwd.pool[p][g] = own.pool[p][g]
      BY <1>1, <3>2 DEF NodeSet, NodeFields
    <3>6. fwd.pool[NIL] = own.pool[NIL]
      BY <1>1, <2>2, <3>4
    <3>7. \A k \in Links : fwd.pool[k].makerNext = IF k = p /\ p # NIL THEN n ELSE own.pool[k].makerNext
      BY <2>2, <3>4, <3>5
    <3>8. \A k \in Links, g \in NodeFields \ {"makerNext"} : fwd.pool[k][g] = own.pool[k][g]
      BY <3>4, <3>5
    <3> QED BY <2>2, <3>3, <3>6, <3>7, <3>8
  <2> QED BY <2>1, <2>2
<1> HIDE DEF fwd
<1>8. Formed(fwd)
  BY <1>7 DEF But
<1>9. /\ But({"pool"}, fwd, bwd) /\ bwd.seats = fwd.seats
      /\ \A k \in Links : bwd.pool[k].makerPrev = IF k = m /\ m # NIL THEN n ELSE fwd.pool[k].makerPrev
      /\ \A k \in Links, g \in NodeFields \ {"makerPrev"} : bwd.pool[k][g] = fwd.pool[k][g]
      /\ bwd.pool[NIL] = fwd.pool[NIL]
  <2>1. CASE m = NIL
    <3>1. bwd = fwd
      BY <2>1
    <3> HIDE DEF bwd
    <3> QED BY <1>8, <2>1, <3>1 DEF But
  <2>2. CASE m # NIL
    <3>1. bwd = SetMakerPrev(fwd, m, n)
      BY <2>2
    <3> HIDE DEF bwd
    <3>2. NodeSet(fwd, bwd, m, "makerPrev", n)
      BY <1>1, <1>8, <3>1, NodeWrites
    <3>3. But({"pool"}, fwd, bwd) /\ bwd.seats = fwd.seats
      BY <3>2 DEF NodeSet, But, BookFields
    <3>4. \A k \in Links \ {m} : bwd.pool[k] = fwd.pool[k]
      BY <3>2 DEF NodeSet
    <3>5. /\ bwd.pool[m].makerPrev = n
          /\ \A g \in NodeFields \ {"makerPrev"} : bwd.pool[m][g] = fwd.pool[m][g]
      BY <1>1, <3>2 DEF NodeSet, NodeFields
    <3>6. bwd.pool[NIL] = fwd.pool[NIL]
      BY <1>1, <2>2, <3>4
    <3>7. \A k \in Links : bwd.pool[k].makerPrev = IF k = m /\ m # NIL THEN n ELSE fwd.pool[k].makerPrev
      BY <2>2, <3>4, <3>5
    <3>8. \A k \in Links, g \in NodeFields \ {"makerPrev"} : bwd.pool[k][g] = fwd.pool[k][g]
      BY <3>4, <3>5
    <3> QED BY <3>3, <3>6, <3>7, <3>8
  <2> QED BY <2>1, <2>2
<1> HIDE DEF bwd
<1>10. SeatSet(bwd, c, s, "count", (b.seats[s].count + 1) % (U16Max + 1))
  <2>1. Formed(bwd)
    BY <1>9 DEF But
  <2> QED BY <2>1, SeatWrites
<1> HIDE DEF c
<1>11. But({"pool", "seats"}, b, c) /\ c.pool = bwd.pool
  BY <1>5, <1>7, <1>9, <1>10 DEF SeatSet, But, BookFields
<1>12. \A k \in Links, g \in NodeFields \ {"makerPrev", "makerNext"} : c.pool[k][g] = b.pool[k][g]
  <2> SUFFICES ASSUME NEW k \in Links, NEW g \in NodeFields \ {"makerPrev", "makerNext"}
               PROVE  c.pool[k][g] = b.pool[k][g]
    OBVIOUS
  <2>1. bwd.pool[k][g] = fwd.pool[k][g]
    BY <1>9
  <2>2. fwd.pool[k][g] = own.pool[k][g]
    BY <1>7
  <2>3. own.pool[k][g] = b.pool[k][g]
    BY <1>5
  <2> QED BY <1>11, <2>1, <2>2, <2>3
<1>13. \A k \in Links : c.pool[k].makerPrev = bwd.pool[k].makerPrev
                        /\ bwd.pool[k].makerNext = fwd.pool[k].makerNext
                        /\ fwd.pool[k].makerPrev = own.pool[k].makerPrev
                        /\ c.pool[k].makerNext = bwd.pool[k].makerNext
  BY <1>7, <1>9, <1>11 DEF NodeFields
<1>14. \A k \in Links \ {n} :
       /\ c.pool[k].makerNext = IF k = p /\ p # NIL THEN n ELSE b.pool[k].makerNext
       /\ c.pool[k].makerPrev = IF k = m /\ m # NIL THEN n ELSE b.pool[k].makerPrev
  BY <1>5, <1>7, <1>9, <1>13
<1>15. c.pool[n].makerPrev = p /\ c.pool[n].makerNext = m
  BY <1>1, <1>5, <1>7, <1>9, <1>13
<1>16. c.pool[NIL] = b.pool[NIL]
  BY <1>1, <1>5, <1>7, <1>9, <1>11
<1>17. /\ \A r \in SeatIds \ {s} : c.seats[r] = b.seats[r]
       /\ c.seats[s].count = (b.seats[s].count + 1) % (U16Max + 1)
       /\ \A g \in SeatFields \ {"count"} : c.seats[s][g] = bwd.seats[s][g]
       /\ \A g \in SeatFields \ {"head"} : bwd.seats[s][g] = b.seats[s][g]
       /\ bwd.seats[s].head = IF p = NIL THEN n ELSE b.seats[s].head
  <2>1. \A r \in SeatIds \ {s} : c.seats[r] = b.seats[r]
    <3>1. \A r \in SeatIds \ {s} : c.seats[r] = bwd.seats[r]
      BY <1>10 DEF SeatSet
    <3> QED BY <1>5, <1>7, <1>9, <3>1
  <2>2. /\ c.seats[s].count = (b.seats[s].count + 1) % (U16Max + 1)
        /\ \A g \in SeatFields \ {"count"} : c.seats[s][g] = bwd.seats[s][g]
    BY <1>10 DEF SeatSet, SeatFields
  <2>3. \A g \in SeatFields \ {"head"} : bwd.seats[s][g] = b.seats[s][g]
    BY <1>5, <1>7, <1>9
  <2>4. bwd.seats[s].head = IF p = NIL THEN n ELSE b.seats[s].head
    BY <1>5, <1>7, <1>9
  <2> QED BY <2>1, <2>2, <2>3, <2>4
<1>18. \A r \in SeatIds : c.seats[r].owner = b.seats[r].owner /\ c.seats[r].free = b.seats[r].free
                        /\ c.seats[r].locked = b.seats[r].locked
  BY <1>17 DEF SeatFields
<1>19. c.seats[s].head = IF p = NIL THEN n ELSE b.seats[s].head
  BY <1>17 DEF SeatFields
<1> QED BY <1>2, <1>11, <1>12, <1>14, <1>15, <1>16, <1>17, <1>18, <1>19 DEF Spliced

LEMMA BookLinked ==
  ASSUME NEW b \in Book, NEW n \in Nodes
  PROVE  Formed(b) /\ Linked(b, n) /\ Chained(b, n) /\ b.pool[n].side \in Sides
<1>1. n \in Links
  BY BookAssumption DEF Nodes, Links
<1>2. b.pool[n] \in OrderNode
  BY <1>1 DEF Book
<1>3. b.pool[n].tick \in Nat
  BY <1>2, BookAssumption DEF OrderNode
<1>4. Slot(b.pool[n].tick) \in Ring
  BY <1>3, SlotInRing
<1> QED BY <1>2, <1>4, BookFormed DEF Linked, Chained, OrderNode

\* An order that ends, whoever ends it.
LEMMA KillEnds ==
  ASSUME NEW b \in Book, NEW n \in Nodes
  PROVE  Ended(b, KillOrder(b, n), n)
<1> DEFINE nd == b.pool[n]
           b2 == FifoUnlink(b, nd.side, n)
           b3 == Unlock(b2, nd.maker, LockedAsset(nd.side), LockedAtoms(nd.side, nd.tick, nd.lots))
<1>1. Formed(b) /\ Linked(b, n) /\ Chained(b, n) /\ nd.side \in Sides
  BY BookLinked
<1>2. n \in Links
  BY BookAssumption DEF Nodes, Links
<1>3. Formed(b2)
  BY <1>1, <1>2, FifoUnlinkEffect DEF Unlisted, But
<1>4. Paid(b, b)
  BY <1>1, OthersPaid
<1>5. KillOrder(b, n) = ChainUnlink(b3, n)
  BY DEF KillOrder
<1>6. Paid(b2, b3)
  <2> HIDE DEF b2
  <2> QED BY <1>1, <1>3, PaymentsPaid DEF Chained
<1> HIDE DEF b3
<1> QED BY <1>1, <1>4, <1>5, <1>6, UnlinkEffect

LEMMA FillEnds ==
  ASSUME NEW b \in Book, NEW n \in Nodes, NEW tick, NEW lots, lots = b.pool[n].lots
  PROVE  Ended(b, FillOrder(b, b.pool[n].side, tick, n, lots), n)
<1> DEFINE side == b.pool[n].side
           b1 == SettleMaker(b, side, tick, n, lots)
           b2 == FifoUnlink(b1, side, n)
<1>1. Formed(b) /\ Linked(b, n) /\ Chained(b, n) /\ side \in Sides
  BY BookLinked
<1>2. n \in Links
  BY BookAssumption DEF Nodes, Links
<1>3. Paid(b, b1)
  BY <1>1, SettleMakerPaid DEF Chained
<1> HIDE DEF b1
<1>4. Formed(b1) /\ b1.pool = b.pool
  BY <1>3 DEF Paid, But, BookFields
<1>5. Linked(b1, n)
  BY <1>1, <1>4 DEF Linked
<1>6. Formed(b2)
  BY <1>1, <1>2, <1>4, <1>5, FifoUnlinkEffect DEF Unlisted, But
<1>7. Paid(b2, b2)
  BY <1>6, OthersPaid
<1>8. FillOrder(b, side, tick, n, lots) = ChainUnlink(b2, n)
  BY DEF FillOrder, b1
<1> HIDE DEF b2
<1>9. Paid(FifoUnlink(b1, side, n), b2)
  BY <1>7 DEF b2
<1> QED BY <1>1, <1>3, <1>8, <1>9, UnlinkEffect

\* c is b, but node n holds so many lots.
Resized(b, c, n, lots) ==
  LET l == Slot(b.pool[n].tick)
  IN /\ But({"pool", "levels", "seats"}, b, c)
     /\ \A k \in Links \ {n} : c.pool[k] = b.pool[k]
     /\ c.pool[n].lots = lots
     /\ \A g \in NodeFields \ {"lots", "expiry"} : c.pool[n][g] = b.pool[n][g]
     /\ \A m \in Ring \ {l} : c.levels[m] = b.levels[m]
     /\ c.levels[l].head = b.levels[l].head /\ c.levels[l].tail = b.levels[l].tail
     /\ c.levels[l].total = b.levels[l].total + (lots - b.pool[n].lots)
     /\ \A r \in SeatIds : /\ c.seats[r].owner = b.seats[r].owner
                           /\ c.seats[r].head = b.seats[r].head
                           /\ c.seats[r].count = b.seats[r].count

LEMMA SizingEffect ==
  ASSUME NEW b, Formed(b), NEW n \in Links, NEW l \in Ring, l = Slot(b.pool[n].tick), NEW lots, NEW x,
         NEW b1, Paid(b, b1), NEW b2, NodeSet(b1, b2, n, "lots", lots),
         NEW b3, b3 = b2 \/ \E e : NodeSet(b2, b3, n, "expiry", e)
  PROVE  x = lots - b.pool[n].lots => Resized(b, AddLots(b3, l, x), n, lots)
<1> DEFINE c == AddLots(b3, l, x)
<1>1. /\ But({"pool"}, b2, b3) /\ b3.levels = b2.levels /\ b3.seats = b2.seats
      /\ \A k \in Links \ {n} : b3.pool[k] = b2.pool[k]
      /\ \A g \in NodeFields \ {"expiry"} : b3.pool[n][g] = b2.pool[n][g]
  <2>1. CASE b3 = b2
    BY <2>1 DEF NodeSet, But
  <2>2. CASE \E e : NodeSet(b2, b3, n, "expiry", e)
    <3> PICK e : NodeSet(b2, b3, n, "expiry", e)
      BY <2>2
    <3>1. But({"pool"}, b2, b3) /\ b3.levels = b2.levels /\ b3.seats = b2.seats
      BY DEF NodeSet, But, BookFields
    <3>2. \A k \in Links \ {n} : b3.pool[k] = b2.pool[k]
      BY DEF NodeSet
    <3>3. \A g \in NodeFields \ {"expiry"} : b3.pool[n][g] = b2.pool[n][g]
      BY DEF NodeSet
    <3> QED BY <3>1, <3>2, <3>3
  <2> QED BY <2>1, <2>2
<1>2. Formed(b3)
  BY <1>1 DEF But
<1>3. LevelSet(b3, c, l, "total", b3.levels[l].total + x)
  BY <1>2, LevelWrites
<1> HIDE DEF c
<1>4. /\ But({"pool", "levels", "seats"}, b, c) /\ c.pool = b3.pool /\ b3.levels = b.levels
      /\ c.seats = b1.seats /\ b1.pool = b.pool
  BY <1>1, <1>3 DEF LevelSet, NodeSet, Paid, But, BookFields
<1>5. \A k \in Links \ {n} : c.pool[k] = b.pool[k]
  BY ZenonT(60), <1>1, <1>4 DEF NodeSet
<1>6. c.pool[n].lots = lots
  BY <1>1, <1>4 DEF NodeSet, NodeFields
<1>7. \A g \in NodeFields \ {"lots", "expiry"} : c.pool[n][g] = b.pool[n][g]
  BY <1>1, <1>4 DEF NodeSet
<1>8. \A m \in Ring \ {l} : c.levels[m] = b.levels[m]
  BY <1>3, <1>4 DEF LevelSet
<1>9. /\ c.levels[l].head = b.levels[l].head /\ c.levels[l].tail = b.levels[l].tail
      /\ c.levels[l].total = b.levels[l].total + x
  BY <1>3, <1>4 DEF LevelSet, LevelFields
<1>10. \A r \in SeatIds : /\ c.seats[r].owner = b.seats[r].owner
                          /\ c.seats[r].head = b.seats[r].head
                          /\ c.seats[r].count = b.seats[r].count
  BY <1>4 DEF Paid
<1>11. x = lots - b.pool[n].lots => Resized(b, c, n, lots)
  BY <1>4, <1>5, <1>6, <1>7, <1>8, <1>9, <1>10 DEF Resized
<1> QED BY <1>11 DEF c

LEMMA ShrinkOrderResizes ==
  ASSUME NEW b \in Book, NEW n \in Nodes, NEW s \in SeatIds, NEW lots, NEW expiry
  PROVE  Resized(b, ShrinkOrder(b, s, n, lots, expiry), n, lots)
<1> DEFINE nd == b.pool[n]
           b1 == Unlock(b, s, LockedAsset(nd.side), LockedAtoms(nd.side, nd.tick, nd.lots - lots))
           b2 == SetLots(b1, n, lots)
           b3 == SetExpiry(b2, n, expiry)
           l  == Slot(nd.tick)
           x  == lots - nd.lots
<1>1. Formed(b) /\ Linked(b, n)
  BY BookLinked
<1>2. n \in Links /\ l \in Ring
  BY <1>1, BookAssumption DEF Nodes, Links, Linked
<1>3. Paid(b, b1)
  BY <1>1, PaymentsPaid
<1>4. ShrinkOrder(b, s, n, lots, expiry) = AddLots(b3, l, x)
  BY DEF ShrinkOrder
<1> HIDE DEF b1
<1>5. NodeSet(b1, b2, n, "lots", lots)
  BY <1>2, <1>3, NodeWrites, PaidFormed
<1> HIDE DEF b2
<1>6. NodeSet(b2, b3, n, "expiry", expiry)
  BY <1>2, <1>5, NodeWrites DEF NodeSet, But
<1> HIDE DEF b3
<1>7. l = Slot(b.pool[n].tick) /\ x = lots - b.pool[n].lots
  OBVIOUS
<1> HIDE DEF x, l
<1>8. Resized(b, AddLots(b3, l, x), n, lots)
  BY <1>1, <1>2, <1>3, <1>5, <1>6, <1>7, SizingEffect
<1> QED BY <1>4, <1>8

LEMMA FillOrderResizes ==
  ASSUME NEW b \in Book, NEW n \in Nodes, NEW tick, NEW lots, lots # b.pool[n].lots,
         Slot(tick) = Slot(b.pool[n].tick), lots \in Int, b.pool[n].lots \in Int
  PROVE  Resized(b, FillOrder(b, b.pool[n].side, tick, n, lots), n, b.pool[n].lots - lots)
<1> DEFINE nd == b.pool[n]
           b1 == SettleMaker(b, nd.side, tick, n, lots)
           b2 == SetLots(b1, n, nd.lots - lots)
           l  == Slot(tick)
           x  == -lots
           left == nd.lots - lots
<1>1. Formed(b) /\ Linked(b, n) /\ Chained(b, n)
  BY BookLinked
<1>2. n \in Links /\ l \in Ring
  BY <1>1, BookAssumption DEF Nodes, Links, Linked
<1>3. Paid(b, b1)
  BY <1>1, SettleMakerPaid DEF Chained
<1>4. FillOrder(b, nd.side, tick, n, lots) = AddLots(b2, l, x)
  BY DEF FillOrder
<1> HIDE DEF b1
<1>5. NodeSet(b1, b2, n, "lots", left)
  BY <1>2, <1>3, NodeWrites, PaidFormed
<1> HIDE DEF b2
<1>6. l = Slot(b.pool[n].tick) /\ x = left - b.pool[n].lots
  OBVIOUS
<1> HIDE DEF x, l, left
<1>7. Resized(b, AddLots(b2, l, x), n, left)
  BY <1>1, <1>2, <1>3, <1>5, <1>6, SizingEffect
<1> QED BY <1>4, <1>7 DEF left

\* The free head holds a new order.
Allotted(b, c, side, tick, lots, s) ==
  LET n == b.freeHead
  IN /\ But({"pool", "freeHead", "freeCount", "orderSeq", "seats"}, b, c)
     /\ c.freeHead = b.pool[n].next /\ c.freeCount = b.freeCount - 1
     /\ c.orderSeq = NextOrderId(b) + 1
     /\ \A k \in Links \ {n} : c.pool[k] = b.pool[k]
     /\ c.pool[n].tick = tick /\ c.pool[n].maker = s /\ c.pool[n].side = side
     /\ c.pool[n].lots = lots /\ c.pool[n].seq = NextOrderId(b)
     /\ \A r \in SeatIds : /\ c.seats[r].owner = b.seats[r].owner
                           /\ c.seats[r].head = b.seats[r].head
                           /\ c.seats[r].count = b.seats[r].count

Ordered(a, n, side, tick, lots, s, expiry, id) ==
  SetSeq(SetExpiry(SetLots(SetSide(SetMaker(SetTick(a, n, tick), n, s), n, side), n, lots), n, expiry), n, id)

LEMMA OrderedEffect ==
  ASSUME NEW a, Formed(a), NEW n \in Links, NEW side, NEW tick, NEW lots, NEW s, NEW expiry, NEW id
  PROVE  LET c == Ordered(a, n, side, tick, lots, s, expiry, id)
         IN /\ But({"pool"}, a, c)
            /\ \A k \in Links \ {n} : c.pool[k] = a.pool[k]
            /\ c.pool[n].tick = tick /\ c.pool[n].maker = s /\ c.pool[n].side = side
            /\ c.pool[n].lots = lots /\ c.pool[n].seq = id
<1> DEFINE c1 == SetTick(a, n, tick)
           c2 == SetMaker(c1, n, s)
           c3 == SetSide(c2, n, side)
           c4 == SetLots(c3, n, lots)
           c5 == SetExpiry(c4, n, expiry)
           c  == SetSeq(c5, n, id)
<1>1. NodeSet(a, c1, n, "tick", tick)
  BY NodeWrites
<1> HIDE DEF c1
<1>2. NodeSet(c1, c2, n, "maker", s)
  BY <1>1, NodeWrites DEF NodeSet, But
<1> HIDE DEF c2
<1>3. NodeSet(c2, c3, n, "side", side)
  BY <1>2, NodeWrites DEF NodeSet, But
<1> HIDE DEF c3
<1>4. NodeSet(c3, c4, n, "lots", lots)
  BY <1>3, NodeWrites DEF NodeSet, But
<1> HIDE DEF c4
<1>5. NodeSet(c4, c5, n, "expiry", expiry)
  BY <1>4, NodeWrites DEF NodeSet, But
<1> HIDE DEF c5
<1>6. NodeSet(c5, c, n, "seq", id)
  BY <1>5, NodeWrites DEF NodeSet, But
<1>7. c = Ordered(a, n, side, tick, lots, s, expiry, id)
  BY DEF Ordered, c1, c2, c3, c4, c5
<1> HIDE DEF c
<1>8. But({"pool"}, a, c)
  BY <1>1, <1>2, <1>3, <1>4, <1>5, <1>6 DEF NodeSet, But
<1>9. \A k \in Links \ {n} : c.pool[k] = a.pool[k]
  <2>1. \A k \in Links \ {n} : c1.pool[k] = a.pool[k]
    BY <1>1 DEF NodeSet
  <2>2. \A k \in Links \ {n} : c2.pool[k] = c1.pool[k]
    BY <1>2 DEF NodeSet
  <2>3. \A k \in Links \ {n} : c3.pool[k] = c2.pool[k]
    BY <1>3 DEF NodeSet
  <2>4. \A k \in Links \ {n} : c4.pool[k] = c3.pool[k]
    BY <1>4 DEF NodeSet
  <2>5. \A k \in Links \ {n} : c5.pool[k] = c4.pool[k]
    BY <1>5 DEF NodeSet
  <2>6. \A k \in Links \ {n} : c.pool[k] = c5.pool[k]
    BY <1>6 DEF NodeSet
  <2> QED BY <2>1, <2>2, <2>3, <2>4, <2>5, <2>6
<1>10. c.pool[n].tick = tick /\ c.pool[n].maker = s /\ c.pool[n].side = side
  <2>1. c1.pool[n].tick = tick
    BY <1>1 DEF NodeSet, NodeFields
  <2>2. c2.pool[n].tick = c1.pool[n].tick /\ c2.pool[n].maker = s
    BY <1>2 DEF NodeSet, NodeFields
  <2>3. c3.pool[n].tick = c2.pool[n].tick /\ c3.pool[n].maker = c2.pool[n].maker /\ c3.pool[n].side = side
    BY <1>3 DEF NodeSet, NodeFields
  <2>4. c4.pool[n].tick = c3.pool[n].tick /\ c4.pool[n].maker = c3.pool[n].maker /\ c4.pool[n].side = c3.pool[n].side
    BY <1>4 DEF NodeSet, NodeFields
  <2>5. c5.pool[n].tick = c4.pool[n].tick /\ c5.pool[n].maker = c4.pool[n].maker /\ c5.pool[n].side = c4.pool[n].side
    BY <1>5 DEF NodeSet, NodeFields
  <2>6. c.pool[n].tick = c5.pool[n].tick /\ c.pool[n].maker = c5.pool[n].maker /\ c.pool[n].side = c5.pool[n].side
    BY <1>6 DEF NodeSet, NodeFields
  <2> QED BY <2>1, <2>2, <2>3, <2>4, <2>5, <2>6
<1>11. c.pool[n].lots = lots /\ c.pool[n].seq = id
  <2>1. c4.pool[n].lots = lots
    BY <1>4 DEF NodeSet, NodeFields
  <2>2. c5.pool[n].lots = c4.pool[n].lots
    BY <1>5 DEF NodeSet, NodeFields
  <2>3. c.pool[n].lots = c5.pool[n].lots /\ c.pool[n].seq = id
    BY <1>6 DEF NodeSet, NodeFields
  <2> QED BY <2>1, <2>2, <2>3
<1>12. /\ But({"pool"}, a, c)
       /\ \A k \in Links \ {n} : c.pool[k] = a.pool[k]
       /\ c.pool[n].tick = tick /\ c.pool[n].maker = s /\ c.pool[n].side = side
       /\ c.pool[n].lots = lots /\ c.pool[n].seq = id
  BY <1>8, <1>9, <1>10, <1>11
<1> QED BY <1>7, <1>12

LEMMA AllotEffect ==
  ASSUME NEW b, Formed(b), NEW b0, Paid(b, b0), b.freeHead \in Links,
         NEW side, NEW tick, NEW lots, NEW s, NEW expiry
  PROVE  Allotted(b, Ordered(SetOrderSeq(AllocNode(b0), NextOrderId(b0) + 1), b.freeHead, side, tick, lots,
                             s, expiry, NextOrderId(b0)), side, tick, lots, s)
<1> DEFINE n  == b.freeHead
           id == NextOrderId(b0)
           b1 == SetFreeHead(b0, b0.pool[b0.freeHead].next)
           b2 == SetFreeCount(b1, b0.freeCount - 1)
           a  == SetOrderSeq(b2, id + 1)
           c  == Ordered(a, n, side, tick, lots, s, expiry, id)
<1>1. /\ Formed(b0) /\ b0.freeHead = n /\ b0.pool = b.pool /\ b0.freeCount = b.freeCount
      /\ b0.orderSeq = b.orderSeq
  BY DEF Paid, But, BookFields
<1>2. id = NextOrderId(b)
  BY <1>1 DEF NextOrderId
<1>3. AllocNode(b0) = b2
  BY DEF AllocNode
<1>4. But({"freeHead"}, b0, b1) /\ b1.freeHead = b0.pool[b0.freeHead].next
  BY <1>1, ListWrites
<1> HIDE DEF b1
<1>5. But({"freeCount"}, b1, b2) /\ b2.freeCount = b0.freeCount - 1
  BY <1>4, ListWrites DEF But
<1> HIDE DEF b2
<1>6. But({"orderSeq"}, b2, a) /\ a.orderSeq = id + 1
  BY <1>5, ListWrites DEF But
<1> HIDE DEF a, id
<1>7. But({"pool"}, a, c)
  BY <1>6, OrderedEffect DEF But
<1>8. /\ \A k \in Links \ {n} : c.pool[k] = a.pool[k]
      /\ c.pool[n].tick = tick /\ c.pool[n].maker = s /\ c.pool[n].side = side
      /\ c.pool[n].lots = lots /\ c.pool[n].seq = id
  BY <1>6, OrderedEffect DEF But
<1> HIDE DEF c
<1>9. But({"pool", "freeHead", "freeCount", "orderSeq", "seats"}, b, c)
  BY <1>4, <1>5, <1>6, <1>7 DEF Paid, But
<1>10. /\ c.freeHead = b.pool[n].next /\ c.freeCount = b.freeCount - 1
       /\ c.orderSeq = id + 1 /\ a.pool = b.pool /\ c.seats = b0.seats
  BY <1>1, <1>4, <1>5, <1>6, <1>7 DEF But, BookFields
<1>11. \A r \in SeatIds : /\ c.seats[r].owner = b.seats[r].owner
                          /\ c.seats[r].head = b.seats[r].head
                          /\ c.seats[r].count = b.seats[r].count
  BY <1>10 DEF Paid
<1>12. Allotted(b, c, side, tick, lots, s)
  BY <1>2, <1>8, <1>9, <1>10, <1>11 DEF Allotted
<1> QED BY <1>3, <1>12 DEF c, a, id

-----------------------------------------------------------------------------
(* The entry of an order                                                   *)

LevelEntered(b, c, n, side, tick, lots) ==
  LET l   == Slot(tick)
      old == l \in b.bits[side]
  IN /\ \A m \in Ring \ {l} : c.levels[m] = b.levels[m]
     /\ c.levels[l].head = IF old THEN b.levels[l].head ELSE n
     /\ c.levels[l].tail = n
     /\ c.levels[l].total = b.levels[l].total + lots
     /\ \A d \in Sides : c.bits[d] = IF d = side THEN b.bits[d] \cup {l} ELSE b.bits[d]

PoolEntered(b, c, n, side, tick, lots, s, p, m) ==
  LET l   == Slot(tick)
      old == l \in b.bits[side]
  IN /\ \A k \in Links \ {n} :
          /\ c.pool[k].next = IF old /\ k = b.levels[l].tail THEN n ELSE b.pool[k].next
          /\ c.pool[k].prev = b.pool[k].prev
          /\ c.pool[k].makerNext = IF k = p /\ p # NIL THEN n ELSE b.pool[k].makerNext
          /\ c.pool[k].makerPrev = IF k = m /\ m # NIL THEN n ELSE b.pool[k].makerPrev
          /\ \A g \in OrderFields : c.pool[k][g] = b.pool[k][g]
     /\ c.pool[n].next = NIL /\ c.pool[n].prev = IF old THEN b.levels[l].tail ELSE NIL
     /\ c.pool[n].makerPrev = p /\ c.pool[n].makerNext = m
     /\ c.pool[n].tick = tick /\ c.pool[n].maker = s /\ c.pool[n].side = side
     /\ c.pool[n].lots = lots /\ c.pool[n].seq = NextOrderId(b)
     /\ c.pool[NIL] = b.pool[NIL]
     /\ c.freeHead = b.pool[n].next /\ c.freeCount = b.freeCount - 1

SeatsEntered(b, c, n, s, p) ==
  /\ \A r \in SeatIds : c.seats[r].owner = b.seats[r].owner
  /\ \A r \in SeatIds \ {s} : /\ c.seats[r].head = b.seats[r].head
                              /\ c.seats[r].count = b.seats[r].count
  /\ c.seats[s].head = IF p = NIL THEN n ELSE b.seats[s].head
  /\ c.seats[s].count = (b.seats[s].count + 1) % (U16Max + 1)

Entered(b, c, n, side, tick, lots, s, p, m) ==
  /\ Formed(c) /\ c.anchor = b.anchor /\ c.orderSeq = NextOrderId(b) + 1
  /\ LevelEntered(b, c, n, side, tick, lots)
  /\ PoolEntered(b, c, n, side, tick, lots, s, p, m)
  /\ SeatsEntered(b, c, n, s, p)

LEMMA InsertEffect ==
  ASSUME NEW b, Formed(b), NEW n \in Nodes, n = b.freeHead, NEW side \in Sides,
         NEW tick, Slot(tick) \in Ring, NEW s \in SeatIds, NEW lots, NEW expiry,
         Slot(tick) \in b.bits[side] => b.levels[Slot(tick)].tail \in Nodes \ {n},
         NEW p \in Links \ {n}, NEW m \in Links \ {n}, p = NIL \/ p # m
  PROVE  Entered(b, ChainSplice(LockAndInsert(b, s, side, tick, lots, expiry), s, p, m, n),
                 n, side, tick, lots, s, p, m)
<1> DEFINE l  == Slot(tick)
           b0 == Lock(b, s, LockedAsset(side), LockedAtoms(side, tick, lots))
           b1 == Ordered(SetOrderSeq(AllocNode(b0), NextOrderId(b0) + 1), n, side, tick, lots, s, expiry,
                         NextOrderId(b0))
           b2 == FifoAppend(b1, side, tick, n, lots)
           c  == ChainSplice(b2, s, p, m, n)
<1>1. n \in Links /\ n # NIL /\ NIL \in Links /\ l \in Ring
  BY BookAssumption DEF Nodes, Links, NIL
<1>2. Paid(b, b0)
  BY PaymentsPaid
<1>3. b0.freeHead = n
  BY <1>2 DEF Paid, But, BookFields
<1>4. LockAndInsert(b, s, side, tick, lots, expiry) = b2
  <2> HIDE DEF b0
  <2> QED BY <1>3 DEF LockAndInsert, BookInsert, Ordered, b0
<1> HIDE DEF b0
<1>5. Allotted(b, b1, side, tick, lots, s)
  BY <1>1, <1>2, AllotEffect
<1> HIDE DEF b1
<1>6. /\ Formed(b1) /\ b1.levels = b.levels /\ b1.bits = b.bits
      /\ \A k \in Links \ {n} : b1.pool[k] = b.pool[k]
  BY <1>5 DEF Allotted, But, BookFields
<1>7. Appended(b1, b2, side, tick, n, lots)
  BY <1>1, <1>6, FifoAppendEffect
<1> HIDE DEF b2
<1>8. Formed(b2)
  BY <1>7 DEF Appended, But
<1>9. Spliced(b2, c, s, p, m, n)
  BY <1>8, ChainSpliceEffect
<1> HIDE DEF c
<1>10. /\ Formed(c) /\ c.anchor = b.anchor /\ c.orderSeq = NextOrderId(b) + 1
       /\ c.levels = b2.levels /\ c.bits = b2.bits
       /\ c.freeHead = b.pool[n].next /\ c.freeCount = b.freeCount - 1
       /\ b2.seats = b1.seats
  BY <1>5, <1>7, <1>9 DEF Allotted, Appended, Spliced, But, BookFields
<1>11. LevelEntered(b, c, n, side, tick, lots)
  BY <1>6, <1>7, <1>10 DEF Appended, LevelEntered
<1>12. SeatsEntered(b, c, n, s, p)
  <2>1. \A r \in SeatIds : /\ b2.seats[r].owner = b.seats[r].owner
                           /\ b2.seats[r].head = b.seats[r].head
                           /\ b2.seats[r].count = b.seats[r].count
    BY <1>5, <1>10 DEF Allotted
  <2>2. b2.seats[s].count = b.seats[s].count
    BY <2>1
  <2> QED BY <1>9, <2>1, <2>2 DEF Spliced, SeatsEntered
<1>13. PoolEntered(b, c, n, side, tick, lots, s, p, m)
  <2>1. \A k \in Links, g \in NodeFields \ {"makerPrev", "makerNext"} : c.pool[k][g] = b2.pool[k][g]
    BY <1>9 DEF Spliced
  <2>2. \A k \in Links \ {n}, g \in NodeFields \ {"next"} : b2.pool[k][g] = b.pool[k][g]
    BY <1>6, <1>7 DEF Appended
  <2>3. \A k \in Links \ {n}, g \in OrderFields : c.pool[k][g] = b.pool[k][g]
    BY <2>1, <2>2 DEF OrderFields, NodeFields
  <2>4. \A k \in Links : c.pool[k].next = b2.pool[k].next /\ c.pool[k].prev = b2.pool[k].prev
    BY <2>1 DEF NodeFields
  <2>5. \A k \in Links \ {n} : /\ b2.pool[k].prev = b.pool[k].prev
                               /\ b2.pool[k].makerNext = b.pool[k].makerNext
                               /\ b2.pool[k].makerPrev = b.pool[k].makerPrev
    BY <2>2 DEF NodeFields
  <2>6. \A k \in Links \ {n} :
          b2.pool[k].next = IF l \in b.bits[side] /\ k = b.levels[l].tail THEN n ELSE b.pool[k].next
    BY <1>6, <1>7 DEF Appended
  <2>7. \A k \in Links \ {n} :
          /\ c.pool[k].makerNext = IF k = p /\ p # NIL THEN n ELSE b2.pool[k].makerNext
          /\ c.pool[k].makerPrev = IF k = m /\ m # NIL THEN n ELSE b2.pool[k].makerPrev
    BY <1>9 DEF Spliced
  <2>8. c.pool[n].next = NIL /\ c.pool[n].prev = IF l \in b.bits[side] THEN b.levels[l].tail ELSE NIL
    BY <1>1, <1>6, <1>7, <2>4 DEF Appended
  <2>9. c.pool[n].makerPrev = p /\ c.pool[n].makerNext = m
    BY <1>9 DEF Spliced
  <2>10. /\ c.pool[n].tick = tick /\ c.pool[n].maker = s /\ c.pool[n].side = side
         /\ c.pool[n].lots = lots /\ c.pool[n].seq = NextOrderId(b)
    <3>1. /\ c.pool[n].tick = b2.pool[n].tick /\ c.pool[n].maker = b2.pool[n].maker
          /\ c.pool[n].side = b2.pool[n].side /\ c.pool[n].lots = b2.pool[n].lots
          /\ c.pool[n].seq = b2.pool[n].seq
      BY <1>1, <2>1 DEF NodeFields
    <3>2. /\ b2.pool[n].tick = b1.pool[n].tick /\ b2.pool[n].maker = b1.pool[n].maker
          /\ b2.pool[n].side = b1.pool[n].side /\ b2.pool[n].lots = b1.pool[n].lots
          /\ b2.pool[n].seq = b1.pool[n].seq
      BY <1>7 DEF Appended, NodeFields
    <3> QED BY <1>5, <3>1, <3>2 DEF Allotted
  <2>11. c.pool[NIL] = b.pool[NIL]
    <3>1. c.pool[NIL] = b2.pool[NIL]
      BY <1>9 DEF Spliced
    <3>2. b2.pool[NIL] = b1.pool[NIL]
      BY <1>7 DEF Appended
    <3> QED BY <1>1, <1>6, <3>1, <3>2
  <2>12. \A k \in Links \ {n} :
           /\ c.pool[k].next = IF l \in b.bits[side] /\ k = b.levels[l].tail THEN n ELSE b.pool[k].next
           /\ c.pool[k].prev = b.pool[k].prev
           /\ c.pool[k].makerNext = IF k = p /\ p # NIL THEN n ELSE b.pool[k].makerNext
           /\ c.pool[k].makerPrev = IF k = m /\ m # NIL THEN n ELSE b.pool[k].makerPrev
    BY <2>4, <2>5, <2>6, <2>7
  <2> QED BY <1>10, <2>3, <2>8, <2>9, <2>10, <2>11, <2>12 DEF PoolEntered
<1>14. Entered(b, c, n, side, tick, lots, s, p, m)
  BY <1>10, <1>11, <1>12, <1>13 DEF Entered
<1> QED BY <1>4, <1>14 DEF c

\* What the argument reads of a node.
PrevOf(b, n)  == b.pool[n].prev
NextOf(b, n)  == b.pool[n].next
SideOf(b, n)  == b.pool[n].side
SlotOf(b, n)  == Slot(b.pool[n].tick)
HeadOf(b, l)  == b.levels[l].head
TailOf(b, l)  == b.levels[l].tail

\* A live order of side d at ring position l.
Rests(b, n, d, l) == n \in Live(b) /\ SideOf(b, n) = d /\ SlotOf(b, n) = l
Mates(b, n, m)    == Rests(b, m, SideOf(b, n), SlotOf(b, n))

\* What every live order has: a bit, and neighbours of its own level, those
\* behind it of a higher rank, or the level's end.
Queued(b, r, n) ==
  /\ SlotOf(b, n) \in b.bits[SideOf(b, n)]
  /\ IF PrevOf(b, n) = NIL THEN HeadOf(b, SlotOf(b, n)) = n
     ELSE /\ Mates(b, n, PrevOf(b, n)) /\ NextOf(b, PrevOf(b, n)) = n
          /\ r[PrevOf(b, n)] < r[n]
  /\ IF NextOf(b, n) = NIL THEN TailOf(b, SlotOf(b, n)) = n
     ELSE /\ Mates(b, n, NextOf(b, n)) /\ PrevOf(b, NextOf(b, n)) = n
          /\ r[n] < r[NextOf(b, n)]

\* What every bit stands for: two ends of a queue.
Served(b, d, l) ==
  /\ Rests(b, HeadOf(b, l), d, l) /\ PrevOf(b, HeadOf(b, l)) = NIL
  /\ Rests(b, TailOf(b, l), d, l) /\ NextOf(b, TailOf(b, l)) = NIL

\* The level lists, by a rank that grows along them.
LevelsAt(b, r) ==
  /\ r \in [Nodes -> Nat]
  /\ \A n \in Live(b) : Queued(b, r, n)
  /\ \A d \in Sides : \A l \in b.bits[d] : Served(b, d, l)
  /\ \A l \in Ring : l \notin b.bits["bid"] /\ l \notin b.bits["ask"] => b.levels[l] = EmptyLevel

-----------------------------------------------------------------------------
\* The operation's effect as the argument reads it.
LEMMA EndedRead ==
  ASSUME NEW b, NEW c, NEW n \in Nodes, Ended(b, c, n), FreedSeq \in Nat
  PROVE  /\ Live(c) = Live(b) \ {n}
         /\ \A k \in Nodes : k # n =>
              /\ SideOf(c, k) = SideOf(b, k) /\ SlotOf(c, k) = SlotOf(b, k)
              /\ NextOf(c, k) = IF k = PrevOf(b, n) THEN NextOf(b, n) ELSE NextOf(b, k)
              /\ PrevOf(c, k) = IF k = NextOf(b, n) THEN PrevOf(b, n) ELSE PrevOf(b, k)
<1>1. /\ \A k \in Links \ {n} :
           /\ c.pool[k].next = IF k = b.pool[n].prev /\ b.pool[n].prev # NIL THEN b.pool[n].next ELSE b.pool[k].next
           /\ c.pool[k].prev = IF k = b.pool[n].next /\ b.pool[n].next # NIL THEN b.pool[n].prev ELSE b.pool[k].prev
           /\ \A g \in OrderFields : c.pool[k][g] = b.pool[k][g]
      /\ c.pool[n].seq = FreedSeq
  BY DEF Ended, PoolEnded
<1>2. \A k \in Links \ {n} : /\ c.pool[k].seq = b.pool[k].seq /\ c.pool[k].side = b.pool[k].side
                             /\ c.pool[k].tick = b.pool[k].tick
  BY <1>1 DEF OrderFields
<1>3. Live(c) = Live(b) \ {n}
  BY <1>1, <1>2, BookAssumption DEF Live, IsLive, Nodes, Links
<1>4. \A k \in Nodes : k # NIL /\ k \in Links
  BY BookAssumption DEF Nodes, Links, NIL
<1>5. \A k \in Nodes : k # n => SideOf(c, k) = SideOf(b, k) /\ SlotOf(c, k) = SlotOf(b, k)
  BY <1>2, <1>4 DEF SideOf, SlotOf
<1>6. \A k \in Nodes : k # n => NextOf(c, k) = IF k = PrevOf(b, n) THEN NextOf(b, n) ELSE NextOf(b, k)
  BY <1>1, <1>4 DEF NextOf, PrevOf
<1>7. \A k \in Nodes : k # n => PrevOf(c, k) = IF k = NextOf(b, n) THEN PrevOf(b, n) ELSE PrevOf(b, k)
  BY <1>1, <1>4 DEF NextOf, PrevOf
<1> QED BY <1>3, <1>5, <1>6, <1>7

LEMMA EndedLevelRead ==
  ASSUME NEW b, NEW c, NEW n, Ended(b, c, n), SlotOf(b, n) \in Ring
  PROVE  LET l    == SlotOf(b, n)
             head == IF PrevOf(b, n) = NIL THEN NextOf(b, n) ELSE HeadOf(b, l)
             tail == IF NextOf(b, n) = NIL THEN PrevOf(b, n) ELSE TailOf(b, l)
         IN /\ \A m \in Ring \ {l} : c.levels[m] = b.levels[m]
            /\ IF head = NIL
               THEN /\ c.levels[l] = EmptyLevel
                    /\ \A d \in Sides : c.bits[d] = IF d = SideOf(b, n) THEN b.bits[d] \ {l} ELSE b.bits[d]
               ELSE /\ HeadOf(c, l) = head /\ TailOf(c, l) = tail /\ c.bits = b.bits
BY DEF Ended, LevelEnded, HeadPast, TailPast, SlotOf, PrevOf, NextOf, SideOf, HeadOf, TailOf

LEMMA LiveNodes == \A b : Live(b) \subseteq Nodes
BY DEF Live

\* With neither neighbour, an order is alone on its level.
LEMMA Alone ==
  ASSUME NEW b, NEW r, LevelsAt(b, r), NEW n \in Live(b), PrevOf(b, n) = NIL, NextOf(b, n) = NIL,
         NEW k, Mates(b, n, k)
  PROVE  k = n
<1> DEFINE d == SideOf(b, n)
           l == SlotOf(b, n)
           S == {r[m] : m \in {m \in Live(b) : Mates(b, n, m) /\ m # n}}
<1> SUFFICES ASSUME k # n PROVE FALSE
  OBVIOUS
<1>1. r \in [Nodes -> Nat] /\ Live(b) \subseteq Nodes
  BY LiveNodes DEF LevelsAt
<1>2. S \subseteq Nat /\ r[k] \in S
  BY <1>1 DEF Mates, Rests
<1>3. PICK x \in S : \A y \in S : x <= y
  BY <1>2, NatLeast
<1>4. PICK m \in Live(b) : Mates(b, n, m) /\ m # n /\ x = r[m]
  BY <1>3
<1>5. Queued(b, r, m) /\ Queued(b, r, n)
  BY <1>4 DEF LevelsAt
<1>6. SideOf(b, m) = d /\ SlotOf(b, m) = l
  BY <1>4 DEF Mates, Rests
<1>7. PrevOf(b, m) # NIL
  BY <1>4, <1>5, <1>6 DEF Queued
<1>8. PrevOf(b, m) # n
  BY <1>4, <1>5, <1>7, BookAssumption, <1>1 DEF Queued, Nodes, NIL
<1>9. /\ PrevOf(b, m) \in Live(b) /\ Mates(b, n, PrevOf(b, m)) /\ r[PrevOf(b, m)] < r[m]
  BY <1>5, <1>6, <1>7 DEF Queued, Mates, Rests
<1>10. r[PrevOf(b, m)] \in S
  BY <1>8, <1>9
<1> QED BY <1>1, <1>2, <1>3, <1>4, <1>9, <1>10

\* Sides and ring positions are what their names say.
Ringed(b) ==
  /\ \A d \in Sides : b.bits[d] \subseteq Ring
  /\ \A n \in Nodes : SideOf(b, n) \in Sides /\ SlotOf(b, n) \in Ring

LEMMA BookRinged == ASSUME NEW b \in Book PROVE Ringed(b)
<1>1. \A d \in Sides : b.bits[d] \subseteq Ring
  BY DEF Book
<1>2. ASSUME NEW n \in Nodes PROVE SideOf(b, n) \in Sides /\ SlotOf(b, n) \in Ring
  BY BookLinked DEF Linked, SideOf, SlotOf
<1> QED BY <1>1, <1>2 DEF Ringed

\* A ring position serves one side at a time.
LEMMA OneSide ==
  ASSUME NEW b, NEW r, LevelsAt(b, r), NEW d \in Sides, NEW e \in Sides, NEW l \in b.bits[d], l \in b.bits[e]
  PROVE  d = e
BY DEF LevelsAt, Served, Rests

\* The level lists without order n.
LEMMA LevelsEnded ==
  ASSUME NEW b, NEW r, LevelsAt(b, r), NEW n \in Live(b), Ringed(b),
         NEW c, Ended(b, c, n), NEW r2 \in [Nodes -> Nat], \A k \in Live(c) : r2[k] = r[k]
  PROVE  LevelsAt(c, r2)
<1> DEFINE p == PrevOf(b, n)
           m == NextOf(b, n)
           d == SideOf(b, n)
           l == SlotOf(b, n)
           head == IF p = NIL THEN m ELSE HeadOf(b, l)
           tail == IF m = NIL THEN p ELSE TailOf(b, l)
<1>0. Live(b) \subseteq Nodes /\ NIL \notin Nodes /\ r \in [Nodes -> Nat] /\ FreedSeq \in Nat
      /\ d \in Sides /\ SlotOf(b, n) \in Ring
  BY LiveNodes, BookAssumption DEF LevelsAt, NIL, Nodes, Ringed
<1>1. /\ Live(c) = Live(b) \ {n}
      /\ \A k \in Live(c) : SideOf(c, k) = SideOf(b, k) /\ SlotOf(c, k) = SlotOf(b, k)
      /\ \A k \in Live(c) : NextOf(c, k) = IF k = p THEN m ELSE NextOf(b, k)
      /\ \A k \in Live(c) : PrevOf(c, k) = IF k = m THEN p ELSE PrevOf(b, k)
  BY <1>0, EndedRead
<1>2. /\ \A i \in Ring \ {l} : c.levels[i] = b.levels[i]
      /\ IF head = NIL
         THEN /\ c.levels[l] = EmptyLevel
              /\ \A e \in Sides : c.bits[e] = IF e = d THEN b.bits[e] \ {l} ELSE b.bits[e]
         ELSE /\ HeadOf(c, l) = head /\ TailOf(c, l) = tail /\ c.bits = b.bits
  BY <1>0, EndedLevelRead
<1>3. Queued(b, r, n)
  BY DEF LevelsAt
<1>4. l \in b.bits[d]
  BY <1>3 DEF Queued
<1>5. p # NIL => /\ p \in Live(c) /\ SideOf(b, p) = d /\ SlotOf(b, p) = l /\ NextOf(b, p) = n /\ r[p] < r[n]
  <2> SUFFICES ASSUME p # NIL PROVE /\ p \in Live(c) /\ SideOf(b, p) = d /\ SlotOf(b, p) = l
                                    /\ NextOf(b, p) = n /\ r[p] < r[n]
    OBVIOUS
  <2>1. p \in Live(b) /\ SideOf(b, p) = d /\ SlotOf(b, p) = l /\ NextOf(b, p) = n /\ r[p] < r[n]
    BY <1>3 DEF Queued, Mates, Rests
  <2>2. p # n
    BY <1>0, <2>1
  <2> QED BY <1>1, <2>1, <2>2
<1>6. m # NIL => /\ m \in Live(c) /\ SideOf(b, m) = d /\ SlotOf(b, m) = l /\ PrevOf(b, m) = n /\ r[n] < r[m]
  <2> SUFFICES ASSUME m # NIL PROVE /\ m \in Live(c) /\ SideOf(b, m) = d /\ SlotOf(b, m) = l
                                    /\ PrevOf(b, m) = n /\ r[n] < r[m]
    OBVIOUS
  <2>1. m \in Live(b) /\ SideOf(b, m) = d /\ SlotOf(b, m) = l /\ PrevOf(b, m) = n /\ r[n] < r[m]
    BY <1>3 DEF Queued, Mates, Rests
  <2>2. m # n
    BY <1>0, <2>1
  <2> QED BY <1>1, <2>1, <2>2
<1>7. p = NIL => HeadOf(b, l) = n
  BY <1>3 DEF Queued
<1>8. m = NIL => TailOf(b, l) = n
  BY <1>3 DEF Queued
<1>9. Served(b, d, l)
  BY <1>0, <1>4 DEF LevelsAt
<1>10. /\ HeadOf(b, l) \in Live(b) /\ SideOf(b, HeadOf(b, l)) = d /\ SlotOf(b, HeadOf(b, l)) = l
       /\ PrevOf(b, HeadOf(b, l)) = NIL
       /\ TailOf(b, l) \in Live(b) /\ SideOf(b, TailOf(b, l)) = d /\ SlotOf(b, TailOf(b, l)) = l
       /\ NextOf(b, TailOf(b, l)) = NIL
  BY <1>9 DEF Served, Rests
<1>11. ASSUME head = NIL, NEW k \in Live(c) PROVE SideOf(b, k) # d \/ SlotOf(b, k) # l
  <2>1. p = NIL /\ m = NIL
    BY <1>0, <1>10, <1>11
  <2> QED BY <1>1, <1>11, <2>1, Alone DEF Mates, Rests
<1>12. ASSUME NEW k \in Live(c), SlotOf(b, k) = l PROVE SideOf(b, k) = d
  <2>1. Queued(b, r, k) /\ k \in Live(b)
    BY <1>1 DEF LevelsAt
  <2>2. l \in b.bits[SideOf(b, k)]
    BY <1>12, <2>1 DEF Queued
  <2>3. SideOf(b, k) \in Sides
    BY <1>0, <2>1 DEF Ringed
  <2> QED BY <1>0, <1>4, <2>2, <2>3, OneSide
<1>13. \A k \in Live(c) : k \in Live(b) /\ k # n /\ k \in Nodes /\ k # NIL /\ Queued(b, r, k) /\ r2[k] = r[k]
  BY <1>0, <1>1 DEF LevelsAt
<1>14. n # NIL /\ l \in Ring
  BY <1>0 DEF Ringed
<1> HIDE DEF p, m, d, l
<1>15. ASSUME NEW k \in Live(c) PROVE SlotOf(c, k) \in c.bits[SideOf(c, k)]
  <2>1. SlotOf(b, k) \in b.bits[SideOf(b, k)] /\ SideOf(b, k) \in Sides
    BY <1>0, <1>13 DEF Queued, Ringed
  <2> QED BY <1>1, <1>2, <1>11, <2>1
<1>16. ASSUME NEW k \in Live(c)
       PROVE  IF PrevOf(c, k) = NIL THEN HeadOf(c, SlotOf(c, k)) = k
              ELSE Mates(c, k, PrevOf(c, k)) /\ NextOf(c, PrevOf(c, k)) = k /\ r2[PrevOf(c, k)] < r2[k]
  <2> DEFINE q == PrevOf(b, k)
  <2>1. CASE k = m
    <3>1. k \in Nodes /\ m # NIL
      BY <1>13, <2>1
    <3>2. CASE p = NIL
      BY <1>1, <1>2, <1>6, <2>1, <3>1, <3>2
    <3>3. CASE p # NIL
      <4>1. PrevOf(c, k) = p
        BY <1>1, <2>1
      <4>2. NextOf(c, p) = k
        BY <1>1, <1>5, <2>1, <3>3
      <4>3. Mates(c, k, p)
        BY <1>1, <1>5, <1>6, <2>1, <3>1, <3>3 DEF Mates, Rests
      <4>4. r2[p] < r2[k]
        <5>1. r[p] < r[n] /\ r[n] < r[k] /\ r2[p] = r[p] /\ r2[k] = r[k] /\ p \in Nodes
          BY <1>5, <1>6, <1>13, <2>1, <3>1, <3>3
        <5>2. r[p] \in Nat /\ r[n] \in Nat /\ r[k] \in Nat
          BY <1>0, <3>1, <5>1
        <5> QED BY <5>1, <5>2
      <4> QED BY <3>3, <4>1, <4>2, <4>3, <4>4
    <3> QED BY <3>2, <3>3
  <2>2. CASE k # m /\ q = NIL
    <3>1. PrevOf(c, k) = NIL /\ HeadOf(b, SlotOf(b, k)) = k /\ SlotOf(c, k) = SlotOf(b, k)
      BY <1>1, <1>13, <2>2 DEF Queued
    <3>2. HeadOf(c, SlotOf(b, k)) = k
      <4>1. CASE SlotOf(b, k) # l
        <5>1. SlotOf(b, k) \in Ring
          BY <1>13 DEF Ringed
        <5> QED BY <1>2, <3>1, <4>1, <5>1 DEF HeadOf
      <4>2. CASE SlotOf(b, k) = l
        <5>1. p # NIL
          BY <1>7, <1>13, <3>1, <4>2
        <5>2. head = k /\ k # NIL
          BY <1>13, <3>1, <4>2, <5>1
        <5> QED BY <1>2, <4>2, <5>2
      <4> QED BY <4>1, <4>2
    <3> QED BY <3>1, <3>2
  <2>3. CASE k # m /\ q # NIL
    <3>1. PrevOf(c, k) = q
      BY <1>1, <2>3
    <3>2. Mates(b, k, q) /\ NextOf(b, q) = k /\ r[q] < r[k]
      BY <1>13, <2>3 DEF Queued
    <3>3. q # n
      BY <2>3, <3>2 DEF m
    <3>4. q \in Live(c) /\ SideOf(b, q) = SideOf(b, k) /\ SlotOf(b, q) = SlotOf(b, k)
      BY <1>1, <3>2, <3>3 DEF Mates, Rests
    <3>5. q # p
      BY <1>5, <1>13, <2>3, <3>2
    <3> HIDE DEF q
    <3>6. Mates(c, k, q) /\ NextOf(c, q) = k
      BY <1>1, <3>2, <3>4, <3>5 DEF Mates, Rests
    <3> QED BY <1>13, <2>3, <3>1, <3>2, <3>4, <3>6
  <2> QED BY <2>1, <2>2, <2>3
<1>17. ASSUME NEW k \in Live(c)
       PROVE  IF NextOf(c, k) = NIL THEN TailOf(c, SlotOf(c, k)) = k
              ELSE Mates(c, k, NextOf(c, k)) /\ PrevOf(c, NextOf(c, k)) = k /\ r2[k] < r2[NextOf(c, k)]
  <2> DEFINE q == NextOf(b, k)
  <2>1. CASE k = p
    <3>1. k \in Nodes /\ p # NIL
      BY <1>13, <2>1
    <3>2. CASE m = NIL
      <4>1. head # NIL
        BY <1>0, <1>10, <3>1
      <4> QED BY <1>1, <1>2, <1>5, <2>1, <3>1, <3>2, <4>1
    <3>3. CASE m # NIL
      <4>1. NextOf(c, k) = m
        BY <1>1, <2>1
      <4>2. PrevOf(c, m) = k
        BY <1>1, <1>6, <2>1, <3>3
      <4>3. Mates(c, k, m)
        BY <1>1, <1>5, <1>6, <2>1, <3>1, <3>3 DEF Mates, Rests
      <4>4. r2[k] < r2[m]
        <5>1. r[k] < r[n] /\ r[n] < r[m] /\ r2[m] = r[m] /\ r2[k] = r[k] /\ m \in Nodes
          BY <1>5, <1>6, <1>13, <2>1, <3>1, <3>3
        <5>2. r[m] \in Nat /\ r[n] \in Nat /\ r[k] \in Nat
          BY <1>0, <3>1, <5>1
        <5> QED BY <5>1, <5>2
      <4> QED BY <3>3, <4>1, <4>2, <4>3, <4>4
    <3> QED BY <3>2, <3>3
  <2>2. CASE k # p /\ q = NIL
    <3>1. NextOf(c, k) = NIL /\ TailOf(b, SlotOf(b, k)) = k /\ SlotOf(c, k) = SlotOf(b, k)
      BY <1>1, <1>13, <2>2 DEF Queued
    <3>2. TailOf(c, SlotOf(b, k)) = k
      <4>1. CASE SlotOf(b, k) # l
        <5>1. SlotOf(b, k) \in Ring
          BY <1>13 DEF Ringed
        <5> QED BY <1>2, <3>1, <4>1, <5>1 DEF TailOf
      <4>2. CASE SlotOf(b, k) = l
        <5>1. m # NIL
          BY <1>8, <1>13, <3>1, <4>2
        <5>2. tail = k /\ k # NIL /\ head # NIL
          BY <1>0, <1>10, <1>13, <3>1, <4>2, <5>1
        <5> QED BY <1>2, <4>2, <5>2
      <4> QED BY <4>1, <4>2
    <3> QED BY <3>1, <3>2
  <2>3. CASE k # p /\ q # NIL
    <3>1. NextOf(c, k) = q
      BY <1>1, <2>3
    <3>2. Mates(b, k, q) /\ PrevOf(b, q) = k /\ r[k] < r[q]
      BY <1>13, <2>3 DEF Queued
    <3>3. q # n
      BY <2>3, <3>2 DEF p
    <3>4. q \in Live(c) /\ SideOf(b, q) = SideOf(b, k) /\ SlotOf(b, q) = SlotOf(b, k)
      BY <1>1, <3>2, <3>3 DEF Mates, Rests
    <3>5. q # m
      BY <1>6, <1>13, <2>3, <3>2
    <3> HIDE DEF q
    <3>6. Mates(c, k, q) /\ PrevOf(c, q) = k
      BY <1>1, <3>2, <3>4, <3>5 DEF Mates, Rests
    <3> QED BY <1>13, <2>3, <3>1, <3>2, <3>4, <3>6
  <2> QED BY <2>1, <2>2, <2>3
<1>18. ASSUME NEW k \in Live(c) PROVE Queued(c, r2, k)
  BY <1>15, <1>16, <1>17 DEF Queued
<1>19. ASSUME NEW e \in Sides, NEW i \in c.bits[e] PROVE Served(c, e, i)
  <2>0. i \in b.bits[e] /\ i \in Ring
    BY <1>2 DEF Ringed
  <2>1. Served(b, e, i)
    BY <2>0 DEF LevelsAt
  <2> DEFINE h == HeadOf(b, i)
             t == TailOf(b, i)
  <2>2. /\ h \in Live(b) /\ SideOf(b, h) = e /\ SlotOf(b, h) = i /\ PrevOf(b, h) = NIL
        /\ t \in Live(b) /\ SideOf(b, t) = e /\ SlotOf(b, t) = i /\ NextOf(b, t) = NIL
    BY <2>1 DEF Served, Rests
  <2>3. CASE i # l
    <3>1. HeadOf(c, i) = h /\ TailOf(c, i) = t
      BY <1>2, <2>0, <2>3 DEF HeadOf, TailOf
    <3>2. h \in Live(c) /\ t \in Live(c)
      BY <1>1, <2>2, <2>3 DEF l
    <3> HIDE DEF h, t
    <3>3. h # m /\ t # p
      BY <1>5, <1>6, <1>13, <2>2, <2>3, <3>2
    <3> QED BY <1>1, <2>2, <3>1, <3>2, <3>3 DEF Served, Rests
  <2>4. CASE i = l
    <3>1. e = d
      BY <1>0, <1>4, <2>0, <2>4, OneSide
    <3>2. head # NIL
      BY <1>2, <2>4, <3>1
    <3>3. HeadOf(c, i) = head /\ TailOf(c, i) = tail
      BY <1>2, <2>4, <3>2
    <3>4. Rests(c, head, d, l) /\ PrevOf(c, head) = NIL
      <4>1. CASE p = NIL
        BY <1>1, <1>6, <3>2, <4>1 DEF Rests
      <4>2. CASE p # NIL
        <5>1. h # n
          BY <2>2, <4>2 DEF p
        <5>2. h \in Live(c)
          BY <1>1, <2>2, <5>1
        <5>3. h # m
          BY <1>6, <1>13, <1>14, <2>2, <5>2
        <5> QED BY <1>1, <2>2, <2>4, <3>1, <4>2, <5>2, <5>3 DEF Rests
      <4> QED BY <4>1, <4>2
    <3>5. Rests(c, tail, d, l) /\ NextOf(c, tail) = NIL
      <4>1. CASE m = NIL
        <5>1. p # NIL
          BY <3>2, <4>1
        <5> QED BY <1>1, <1>5, <4>1, <5>1 DEF Rests
      <4>2. CASE m # NIL
        <5>1. t # n
          BY <2>2, <4>2 DEF m
        <5>2. t \in Live(c)
          BY <1>1, <2>2, <5>1
        <5>3. t # p
          BY <1>5, <1>13, <1>14, <2>2, <5>2
        <5> QED BY <1>1, <2>2, <2>4, <3>1, <4>2, <5>2, <5>3 DEF Rests
      <4> QED BY <4>1, <4>2
    <3> QED BY <2>4, <3>1, <3>3, <3>4, <3>5 DEF Served
  <2> QED BY <2>3, <2>4
<1>20. ASSUME NEW i \in Ring, i \notin c.bits["bid"], i \notin c.bits["ask"]
       PROVE  c.levels[i] = EmptyLevel
  <2>1. CASE i # l
    <3>1. i \notin b.bits["bid"] /\ i \notin b.bits["ask"]
      BY <1>2, <1>20, <2>1 DEF Sides
    <3> QED BY <1>2, <2>1, <3>1 DEF LevelsAt
  <2>2. CASE i = l
    <3>1. head = NIL
      BY <1>0, <1>2, <1>4, <1>20, <2>2 DEF Sides
    <3> QED BY <1>2, <2>2, <3>1
  <2> QED BY <2>1, <2>2
<1> QED BY <1>18, <1>19, <1>20 DEF LevelsAt

LEMMA EnteredRead ==
  ASSUME NEW b, NEW c, NEW n \in Nodes, NEW side, NEW tick, NEW lots, NEW s, NEW p, NEW m,
         Entered(b, c, n, side, tick, lots, s, p, m), NextOrderId(b) # FreedSeq
  PROVE  LET l    == Slot(tick)
             tail == IF l \in b.bits[side] THEN TailOf(b, l) ELSE NIL
         IN /\ Live(c) = Live(b) \cup {n}
            /\ \A k \in Nodes : k # n =>
                 /\ SideOf(c, k) = SideOf(b, k) /\ SlotOf(c, k) = SlotOf(b, k)
                 /\ PrevOf(c, k) = PrevOf(b, k)
                 /\ NextOf(c, k) = IF k = tail THEN n ELSE NextOf(b, k)
            /\ SideOf(c, n) = side /\ SlotOf(c, n) = l
            /\ PrevOf(c, n) = tail /\ NextOf(c, n) = NIL
<1> DEFINE l    == Slot(tick)
           tail == IF l \in b.bits[side] THEN TailOf(b, l) ELSE NIL
<1>1. PoolEntered(b, c, n, side, tick, lots, s, p, m)
  BY DEF Entered
<1>2. \A k \in Links \ {n} :
        /\ c.pool[k].next = IF l \in b.bits[side] /\ k = b.levels[l].tail THEN n ELSE b.pool[k].next
        /\ c.pool[k].prev = b.pool[k].prev
        /\ \A g \in OrderFields : c.pool[k][g] = b.pool[k][g]
  BY <1>1 DEF PoolEntered
<1>3. /\ c.pool[n].next = NIL /\ c.pool[n].prev = IF l \in b.bits[side] THEN b.levels[l].tail ELSE NIL
      /\ c.pool[n].tick = tick /\ c.pool[n].side = side /\ c.pool[n].seq = NextOrderId(b)
  BY <1>1 DEF PoolEntered
<1>4. \A k \in Links \ {n} : /\ c.pool[k].seq = b.pool[k].seq /\ c.pool[k].side = b.pool[k].side
                             /\ c.pool[k].tick = b.pool[k].tick
  BY <1>2 DEF OrderFields
<1>5. \A k \in Nodes : k # NIL /\ k \in Links
  BY BookAssumption DEF Nodes, Links, NIL
<1>6. Live(c) = Live(b) \cup {n}
  BY <1>3, <1>4, <1>5 DEF Live, IsLive
<1>7. \A k \in Nodes : k # n => SideOf(c, k) = SideOf(b, k) /\ SlotOf(c, k) = SlotOf(b, k)
  BY <1>4, <1>5 DEF SideOf, SlotOf
<1>8. \A k \in Nodes : k # n => PrevOf(c, k) = PrevOf(b, k)
  BY <1>2, <1>5 DEF PrevOf
<1>9. \A k \in Nodes : k # n => NextOf(c, k) = IF k = tail THEN n ELSE NextOf(b, k)
  BY <1>2, <1>5 DEF NextOf, TailOf
<1>10. SideOf(c, n) = side /\ SlotOf(c, n) = l /\ PrevOf(c, n) = tail /\ NextOf(c, n) = NIL
  BY <1>3 DEF SideOf, SlotOf, PrevOf, NextOf, TailOf
<1> QED BY <1>6, <1>7, <1>8, <1>9, <1>10

LEMMA EnteredLive ==
  ASSUME NEW b, NEW c, NEW n \in Nodes, NEW side, NEW tick, NEW lots, NEW s, NEW p, NEW m,
         Entered(b, c, n, side, tick, lots, s, p, m), NextOrderId(b) # FreedSeq
  PROVE  Live(c) = Live(b) \cup {n}
<1>1. PoolEntered(b, c, n, side, tick, lots, s, p, m)
  BY DEF Entered
<1>2. c.pool[n].seq = NextOrderId(b) /\ \A k \in Links \ {n} : c.pool[k].seq = b.pool[k].seq
  BY <1>1 DEF PoolEntered, OrderFields
<1>3. \A k \in Nodes : k \in Links
  BY DEF Nodes, Links
<1> QED BY <1>2, <1>3 DEF Live, IsLive

LEMMA EnteredLevelRead ==
  ASSUME NEW b, NEW c, NEW n, NEW side, NEW tick, NEW lots, NEW s, NEW p, NEW m,
         Entered(b, c, n, side, tick, lots, s, p, m)
  PROVE  LET l    == Slot(tick)
         IN /\ \A k \in Ring \ {l} : c.levels[k] = b.levels[k]
            /\ HeadOf(c, l) = IF l \in b.bits[side] THEN HeadOf(b, l) ELSE n
            /\ TailOf(c, l) = n
            /\ \A d \in Sides : c.bits[d] = IF d = side THEN b.bits[d] \cup {l} ELSE b.bits[d]
BY DEF Entered, LevelEntered, HeadOf, TailOf

\* The level lists with a new order n at the back of its level.
LEMMA LevelsEntered ==
  ASSUME NEW b, NEW r, LevelsAt(b, r), Ringed(b), NEW n \in Nodes, n \notin Live(b),
         NEW side \in Sides, NEW tick, Slot(tick) \in Ring, Slot(tick) \notin b.bits[Opposite(side)],
         NextOrderId(b) # FreedSeq,
         NEW c, NEW lots, NEW s, NEW p, NEW m, Entered(b, c, n, side, tick, lots, s, p, m),
         NEW r2 \in [Nodes -> Nat], \A k \in Live(b) : r2[k] = r[k],
         Slot(tick) \in b.bits[side] => r[TailOf(b, Slot(tick))] < r2[n]
  PROVE  LevelsAt(c, r2)
<1> DEFINE l    == Slot(tick)
           tail == IF l \in b.bits[side] THEN TailOf(b, l) ELSE NIL
<1>0. Live(b) \subseteq Nodes /\ NIL \notin Nodes /\ r \in [Nodes -> Nat] /\ FreedSeq \in Nat
      /\ l \in Ring
  BY LiveNodes, BookAssumption DEF LevelsAt, NIL, Nodes
<1>1. /\ Live(c) = Live(b) \cup {n}
      /\ \A k \in Live(b) : SideOf(c, k) = SideOf(b, k) /\ SlotOf(c, k) = SlotOf(b, k)
      /\ \A k \in Live(b) : PrevOf(c, k) = PrevOf(b, k)
      /\ \A k \in Live(b) : NextOf(c, k) = IF k = tail THEN n ELSE NextOf(b, k)
      /\ SideOf(c, n) = side /\ SlotOf(c, n) = l
      /\ PrevOf(c, n) = tail /\ NextOf(c, n) = NIL
  BY <1>0, EnteredRead
<1>2. /\ \A k \in Ring \ {l} : c.levels[k] = b.levels[k]
      /\ HeadOf(c, l) = IF l \in b.bits[side] THEN HeadOf(b, l) ELSE n
      /\ TailOf(c, l) = n
      /\ \A d \in Sides : c.bits[d] = IF d = side THEN b.bits[d] \cup {l} ELSE b.bits[d]
  BY EnteredLevelRead
<1>3. ASSUME l \in b.bits[side]
      PROVE  /\ tail \in Live(b) /\ SideOf(b, tail) = side /\ SlotOf(b, tail) = l
             /\ NextOf(b, tail) = NIL /\ tail # NIL /\ r[tail] < r2[n] /\ r2[tail] = r[tail]
  <2>1. Served(b, side, l)
    BY <1>3 DEF LevelsAt
  <2>2. tail = TailOf(b, l)
    BY <1>3
  <2> HIDE DEF tail
  <2> QED BY <1>0, <1>3, <2>1, <2>2 DEF Served, Rests
<1>4. \A k \in Live(b) : k \in Nodes /\ k # n /\ k # NIL /\ Queued(b, r, k) /\ r2[k] = r[k]
  BY <1>0 DEF LevelsAt
<1>5. ASSUME NEW k \in Live(b), SlotOf(b, k) = l PROVE SideOf(b, k) = side
  <2>1. l \in b.bits[SideOf(b, k)] /\ SideOf(b, k) \in Sides
    BY <1>0, <1>4, <1>5 DEF Queued, Ringed
  <2> QED BY <2>1 DEF Sides, Opposite
<1>6. l \notin b.bits[side] => \A k \in Live(b) : SlotOf(b, k) # l
  BY <1>4, <1>5 DEF Queued
<1>7. tail = NIL <=> l \notin b.bits[side]
  BY <1>3
<1> HIDE DEF l, tail
<1>8. ASSUME NEW k \in Live(b) PROVE Queued(c, r2, k)
  <2>1. SlotOf(c, k) \in c.bits[SideOf(c, k)]
    BY <1>0, <1>1, <1>2, <1>4 DEF Queued, Ringed
  <2>2. IF PrevOf(c, k) = NIL THEN HeadOf(c, SlotOf(c, k)) = k
        ELSE /\ Mates(c, k, PrevOf(c, k)) /\ NextOf(c, PrevOf(c, k)) = k
             /\ r2[PrevOf(c, k)] < r2[k]
    <3> DEFINE q == PrevOf(b, k)
    <3>1. PrevOf(c, k) = q /\ SlotOf(c, k) = SlotOf(b, k) /\ SideOf(c, k) = SideOf(b, k)
      BY <1>1
    <3>2. CASE q = NIL
      <4>1. HeadOf(b, SlotOf(b, k)) = k
        BY <1>4, <3>2 DEF Queued
      <4>2. SlotOf(b, k) \in Ring
        BY <1>4 DEF Ringed
      <4>3. HeadOf(c, SlotOf(b, k)) = k
        BY <1>2, <1>6, <4>1, <4>2 DEF HeadOf
      <4> QED BY <3>1, <3>2, <4>3
    <3>3. CASE q # NIL
      <4>1. Mates(b, k, q) /\ NextOf(b, q) = k /\ r[q] < r[k]
        BY <1>4, <3>3 DEF Queued
      <4>2. q \in Live(b) /\ SideOf(b, q) = SideOf(b, k) /\ SlotOf(b, q) = SlotOf(b, k)
        BY <4>1 DEF Mates, Rests
      <4>3. q # tail
        BY <1>3, <1>4, <1>7, <3>3, <4>1
      <4> HIDE DEF q
      <4>4. Mates(c, k, q) /\ NextOf(c, q) = k /\ r2[q] < r2[k]
        BY <1>1, <1>4, <4>1, <4>2, <4>3 DEF Mates, Rests
      <4> QED BY <3>1, <3>3, <4>4
    <3> QED BY <3>2, <3>3
  <2>3. IF NextOf(c, k) = NIL THEN TailOf(c, SlotOf(c, k)) = k
        ELSE /\ Mates(c, k, NextOf(c, k)) /\ PrevOf(c, NextOf(c, k)) = k
             /\ r2[k] < r2[NextOf(c, k)]
    <3> DEFINE q == NextOf(b, k)
    <3>1. SlotOf(c, k) = SlotOf(b, k) /\ SideOf(c, k) = SideOf(b, k)
      BY <1>1
    <3>2. CASE k = tail
      <4>1. NextOf(c, k) = n /\ PrevOf(c, n) = k
        BY <1>1, <3>2
      <4>2. l \in b.bits[side]
        BY <1>4, <1>7, <3>2
      <4>3. SideOf(b, k) = side /\ SlotOf(b, k) = l /\ r2[k] < r2[n]
        BY <1>3, <3>2, <4>2
      <4>4. Mates(c, k, n)
        BY <1>1, <4>3 DEF Mates, Rests
      <4>5. n # NIL
        BY <1>0
      <4> QED BY <4>1, <4>3, <4>4, <4>5
    <3>3. CASE k # tail /\ q = NIL
      <4>1. TailOf(b, SlotOf(b, k)) = k /\ NextOf(c, k) = NIL
        BY <1>1, <1>4, <3>3 DEF Queued
      <4>2. SlotOf(b, k) \in Ring
        BY <1>4 DEF Ringed
      <4>3. SlotOf(b, k) # l
        <5>1. SUFFICES ASSUME SlotOf(b, k) = l PROVE FALSE
          OBVIOUS
        <5>2. l \in b.bits[side]
          BY <1>6, <5>1
        <5>3. tail = k
          BY <4>1, <5>1, <5>2 DEF tail
        <5> QED BY <3>3, <5>3
      <4>4. TailOf(c, SlotOf(b, k)) = k
        BY <1>2, <4>1, <4>2, <4>3 DEF TailOf
      <4> QED BY <3>1, <4>1, <4>4
    <3>4. CASE k # tail /\ q # NIL
      <4>1. Mates(b, k, q) /\ PrevOf(b, q) = k /\ r[k] < r[q]
        BY <1>4, <3>4 DEF Queued
      <4>2. q \in Live(b) /\ SideOf(b, q) = SideOf(b, k) /\ SlotOf(b, q) = SlotOf(b, k)
        BY <4>1 DEF Mates, Rests
      <4>3. NextOf(c, k) = q
        BY <1>1, <3>4
      <4> HIDE DEF q
      <4>4. Mates(c, k, q) /\ PrevOf(c, q) = k /\ r2[k] < r2[q]
        BY <1>1, <1>4, <4>1, <4>2 DEF Mates, Rests
      <4> QED BY <3>4, <4>3, <4>4
    <3> QED BY <3>2, <3>3, <3>4
  <2> QED BY <2>1, <2>2, <2>3 DEF Queued
<1>9. Queued(c, r2, n)
  <2>1. SlotOf(c, n) \in c.bits[SideOf(c, n)]
    BY <1>1, <1>2
  <2>2. CASE l \in b.bits[side]
    <3>1. Mates(c, n, tail) /\ NextOf(c, tail) = n /\ r2[tail] < r2[n]
      BY <1>1, <1>3, <2>2 DEF Mates, Rests
    <3> QED BY <1>1, <1>2, <1>3, <2>1, <2>2, <3>1 DEF Queued
  <2>3. CASE l \notin b.bits[side]
    BY <1>1, <1>2, <1>7, <2>1, <2>3 DEF Queued
  <2> QED BY <2>2, <2>3
<1>10. ASSUME NEW e \in Sides, NEW i \in c.bits[e] PROVE Served(c, e, i)
  <2>1. CASE i = l
    <3>1. e = side
      BY <1>2, <1>10, <2>1 DEF Sides, Opposite, l
    <3>2. Rests(c, TailOf(c, i), e, i) /\ NextOf(c, TailOf(c, i)) = NIL
      BY <1>1, <1>2, <2>1, <3>1 DEF Rests
    <3>3. Rests(c, HeadOf(c, i), e, i) /\ PrevOf(c, HeadOf(c, i)) = NIL
      <4>1. CASE l \in b.bits[side]
        <5>1. Served(b, side, l)
          BY <4>1 DEF LevelsAt
        <5> QED BY <1>1, <1>2, <2>1, <3>1, <4>1, <5>1 DEF Served, Rests
      <4>2. CASE l \notin b.bits[side]
        BY <1>1, <1>2, <1>7, <2>1, <3>1, <4>2 DEF Rests
      <4> QED BY <4>1, <4>2
    <3> QED BY <3>2, <3>3 DEF Served
  <2>2. CASE i # l
    <3>1. i \in b.bits[e] /\ i \in Ring
      BY <1>2, <1>10, <2>2 DEF Ringed
    <3>2. Served(b, e, i)
      BY <3>1 DEF LevelsAt
    <3>3. HeadOf(c, i) = HeadOf(b, i) /\ TailOf(c, i) = TailOf(b, i)
      BY <1>2, <2>2, <3>1 DEF HeadOf, TailOf
    <3>4. TailOf(b, i) # tail
      BY <1>3, <1>4, <1>7, <2>2, <3>2 DEF Served, Rests
    <3> QED BY <1>1, <3>2, <3>3, <3>4 DEF Served, Rests
  <2> QED BY <2>1, <2>2
<1>11. ASSUME NEW i \in Ring, i \notin c.bits["bid"], i \notin c.bits["ask"]
       PROVE  c.levels[i] = EmptyLevel
  <2>1. i # l /\ i \notin b.bits["bid"] /\ i \notin b.bits["ask"]
    BY <1>2, <1>11 DEF Sides
  <2> QED BY <1>2, <2>1 DEF LevelsAt
<1>12. \A k \in Live(c) : Queued(c, r2, k)
  BY <1>1, <1>8, <1>9
<1> QED BY <1>10, <1>11, <1>12 DEF LevelsAt

\* What the argument reads of a node's place in its maker's chain.
MakerOf(b, n)     == b.pool[n].maker
PlaceOf(b, n)     == IF b.pool[n].side = "bid" THEN b.pool[n].tick ELSE TickLimit + 1 + b.pool[n].tick
ChainPrevOf(b, n) == b.pool[n].makerPrev
ChainNextOf(b, n) == b.pool[n].makerNext
FirstOf(b, s)     == b.seats[s].head

\* The orders of seat s next to place x: the last before it, the first after it.
Foregoes(b, s, x, p) ==
  /\ p # NIL => p \in LiveOf(b, s) /\ PlaceOf(b, p) < x
  /\ \A k \in LiveOf(b, s) : PlaceOf(b, k) < x => p # NIL /\ PlaceOf(b, k) <= PlaceOf(b, p)

Follows(b, s, x, m) ==
  /\ m # NIL => m \in LiveOf(b, s) /\ x < PlaceOf(b, m)
  /\ \A k \in LiveOf(b, s) : x < PlaceOf(b, k) => m # NIL /\ PlaceOf(b, m) <= PlaceOf(b, k)

\* No two orders of a seat have the same place.
Distinct(b) ==
  \A s \in SeatIds : \A j, k \in LiveOf(b, s) : PlaceOf(b, j) = PlaceOf(b, k) => j = k

\* The seat chains: the links go to the neighbouring places.
ChainsAt(b) ==
  /\ Distinct(b)
  /\ \A n \in Live(b) : /\ Foregoes(b, MakerOf(b, n), PlaceOf(b, n), ChainPrevOf(b, n))
                        /\ Follows(b, MakerOf(b, n), PlaceOf(b, n), ChainNextOf(b, n))
  /\ \A s \in SeatIds : Follows(b, s, -1, FirstOf(b, s))

\* Seats and places are what their names say.
Seatwise(b) == \A n \in Nodes : MakerOf(b, n) \in SeatIds /\ PlaceOf(b, n) \in Nat

LEMMA BookSeatwise == ASSUME NEW b \in Book PROVE Seatwise(b)
<1> SUFFICES ASSUME NEW n \in Nodes PROVE MakerOf(b, n) \in SeatIds /\ PlaceOf(b, n) \in Nat
  BY DEF Seatwise
<1>1. b.pool[n].maker \in SeatIds /\ b.pool[n].tick \in 0 .. TickLimit
  <2>1. n \in Links /\ b.pool \in [Links -> OrderNode]
    BY BookAssumption DEF Nodes, Links, Book
  <2>2. b.pool[n] \in OrderNode
    BY <2>1
  <2> QED BY <2>2 DEF OrderNode
<1> QED BY <1>1, BookAssumption DEF MakerOf, PlaceOf

LEMMA LivesAre == \A b, s : LiveOf(b, s) = {n \in Live(b) : MakerOf(b, n) = s}
BY DEF LiveOf, Live, MakerOf

-----------------------------------------------------------------------------
LEMMA EndedChainRead ==
  ASSUME NEW b, NEW c, NEW n \in Nodes, Ended(b, c, n), MakerOf(b, n) \in SeatIds
  PROVE  /\ \A k \in Nodes : k # n =>
              /\ MakerOf(c, k) = MakerOf(b, k) /\ PlaceOf(c, k) = PlaceOf(b, k)
              /\ ChainNextOf(c, k) = IF k = ChainPrevOf(b, n) THEN ChainNextOf(b, n) ELSE ChainNextOf(b, k)
              /\ ChainPrevOf(c, k) = IF k = ChainNextOf(b, n) THEN ChainPrevOf(b, n) ELSE ChainPrevOf(b, k)
         /\ \A s \in SeatIds :
              FirstOf(c, s) = IF s = MakerOf(b, n) /\ ChainPrevOf(b, n) = NIL THEN ChainNextOf(b, n)
                              ELSE FirstOf(b, s)
<1>1. /\ \A k \in Links \ {n} : \A g \in OrderFields : c.pool[k][g] = b.pool[k][g]
      /\ ChainPast(b, c, n)
  BY DEF Ended, PoolEnded
<1>2. \A k \in Links \ {n} : /\ c.pool[k].maker = b.pool[k].maker /\ c.pool[k].side = b.pool[k].side
                             /\ c.pool[k].tick = b.pool[k].tick
  BY <1>1 DEF OrderFields
<1>3. \A k \in Nodes : k # NIL /\ k \in Links
  BY BookAssumption DEF Nodes, Links, NIL
<1>4. \A k \in Nodes : k # n => MakerOf(c, k) = MakerOf(b, k) /\ PlaceOf(c, k) = PlaceOf(b, k)
  BY <1>2, <1>3 DEF MakerOf, PlaceOf
<1>5. \A k \in Nodes : ChainNextOf(c, k) = IF k = ChainPrevOf(b, n) THEN ChainNextOf(b, n) ELSE ChainNextOf(b, k)
  BY <1>1, <1>3 DEF ChainNextOf, ChainPrevOf, ChainPast
<1>6. \A k \in Nodes : ChainPrevOf(c, k) = IF k = ChainNextOf(b, n) THEN ChainPrevOf(b, n) ELSE ChainPrevOf(b, k)
  BY <1>1, <1>3 DEF ChainNextOf, ChainPrevOf, ChainPast
<1>7. ASSUME NEW s \in SeatIds
      PROVE FirstOf(c, s) = IF s = MakerOf(b, n) /\ ChainPrevOf(b, n) = NIL THEN ChainNextOf(b, n)
                            ELSE FirstOf(b, s)
  BY DEF Ended, SeatsEnded, FirstPast, FirstOf, MakerOf, ChainPrevOf, ChainNextOf
<1> QED BY <1>4, <1>5, <1>6, <1>7

\* The chains without order n.
LEMMA ChainsEnded ==
  ASSUME NEW b, ChainsAt(b), Seatwise(b), NEW n \in Live(b), NEW c, Ended(b, c, n)
  PROVE  ChainsAt(c)
<1> DEFINE p == ChainPrevOf(b, n)
           m == ChainNextOf(b, n)
           s == MakerOf(b, n)
           x == PlaceOf(b, n)
<1>0. Live(b) \subseteq Nodes /\ NIL \notin Nodes /\ FreedSeq \in Nat /\ s \in SeatIds /\ x \in Nat
  BY LiveNodes, BookAssumption DEF NIL, Nodes, Seatwise
<1>1. /\ Live(c) = Live(b) \ {n}
      /\ \A k \in Live(c) : MakerOf(c, k) = MakerOf(b, k) /\ PlaceOf(c, k) = PlaceOf(b, k)
      /\ \A k \in Live(c) : ChainNextOf(c, k) = IF k = p THEN m ELSE ChainNextOf(b, k)
      /\ \A k \in Live(c) : ChainPrevOf(c, k) = IF k = m THEN p ELSE ChainPrevOf(b, k)
      /\ \A r \in SeatIds : FirstOf(c, r) = IF r = s /\ p = NIL THEN m ELSE FirstOf(b, r)
  BY <1>0, EndedRead, EndedChainRead
<1>2. \A r : LiveOf(c, r) = LiveOf(b, r) \ {n}
  BY <1>1, LivesAre
<1>3. Foregoes(b, s, x, p) /\ Follows(b, s, x, m)
  BY DEF ChainsAt
<1>4. \A k \in Live(b) : k \in Nodes /\ k # NIL /\ PlaceOf(b, k) \in Nat /\ MakerOf(b, k) \in SeatIds
  BY <1>0 DEF Seatwise
<1>5. \A r : LiveOf(b, r) = {k \in Live(b) : MakerOf(b, k) = r}
  BY LivesAre
<1>6. \A k \in LiveOf(b, s) : k = n \/ PlaceOf(b, k) < x \/ x < PlaceOf(b, k)
  <2> SUFFICES ASSUME NEW k \in LiveOf(b, s) PROVE k = n \/ PlaceOf(b, k) < x \/ x < PlaceOf(b, k)
    OBVIOUS
  <2>1. PlaceOf(b, k) = x => k = n
    BY <1>0, <1>5 DEF ChainsAt, Distinct
  <2> QED BY <1>0, <1>4, <1>5, <2>1
<1>7. n \in LiveOf(b, s)
  BY <1>5
<1> HIDE DEF p, m, s, x
<1>8. Distinct(c)
  <2> SUFFICES ASSUME NEW r \in SeatIds, NEW j \in LiveOf(c, r), NEW k \in LiveOf(c, r),
                      PlaceOf(c, j) = PlaceOf(c, k)
               PROVE  j = k
    BY DEF Distinct
  <2>1. j \in LiveOf(b, r) /\ k \in LiveOf(b, r) /\ j \in Live(c) /\ k \in Live(c)
    BY <1>1, <1>2, <1>5
  <2> QED BY <1>1, <2>1 DEF ChainsAt, Distinct
\* The neighbours of n are next to each other without it.
<1>9. p # NIL => Follows(c, s, PlaceOf(b, p), m)
  <2> SUFFICES ASSUME p # NIL PROVE Follows(c, s, PlaceOf(b, p), m)
    OBVIOUS
  <2>1. p \in LiveOf(b, s) /\ PlaceOf(b, p) < x /\ PlaceOf(b, p) \in Nat
    BY <1>3, <1>4, <1>5 DEF Foregoes
  <2>2. m # NIL => /\ m \in LiveOf(c, s) /\ PlaceOf(b, p) < PlaceOf(c, m)
    BY <1>0, <1>1, <1>2, <1>3, <1>4, <1>5, <2>1 DEF Follows, x
  <2>3. ASSUME NEW k \in LiveOf(c, s), PlaceOf(b, p) < PlaceOf(c, k)
        PROVE  m # NIL /\ PlaceOf(c, m) <= PlaceOf(c, k)
    <3>1. k \in LiveOf(b, s) /\ k # n /\ PlaceOf(c, k) = PlaceOf(b, k) /\ PlaceOf(b, k) \in Nat
      BY <1>1, <1>2, <1>4, <1>5
    <3>2. ~(PlaceOf(b, k) < x)
      BY <1>3, <2>1, <2>3, <3>1 DEF Foregoes
    <3>3. m # NIL /\ PlaceOf(b, m) <= PlaceOf(b, k)
      BY <1>3, <1>6, <3>1, <3>2 DEF Follows
    <3>4. PlaceOf(c, m) = PlaceOf(b, m)
      BY <1>1, <1>2, <1>5, <2>2, <3>3
    <3> QED BY <3>1, <3>3, <3>4
  <2> QED BY <2>2, <2>3 DEF Follows
<1>10. m # NIL => Foregoes(c, s, PlaceOf(b, m), p)
  <2> SUFFICES ASSUME m # NIL PROVE Foregoes(c, s, PlaceOf(b, m), p)
    OBVIOUS
  <2>1. m \in LiveOf(b, s) /\ x < PlaceOf(b, m) /\ PlaceOf(b, m) \in Nat
    BY <1>3, <1>4, <1>5 DEF Follows
  <2>2. p # NIL => /\ p \in LiveOf(c, s) /\ PlaceOf(c, p) < PlaceOf(b, m)
    BY <1>0, <1>1, <1>2, <1>3, <1>4, <1>5, <2>1 DEF Foregoes, x
  <2>3. ASSUME NEW k \in LiveOf(c, s), PlaceOf(c, k) < PlaceOf(b, m)
        PROVE  p # NIL /\ PlaceOf(c, k) <= PlaceOf(c, p)
    <3>1. k \in LiveOf(b, s) /\ k # n /\ PlaceOf(c, k) = PlaceOf(b, k) /\ PlaceOf(b, k) \in Nat
      BY <1>1, <1>2, <1>4, <1>5
    <3>2. ~(x < PlaceOf(b, k))
      BY <1>3, <2>1, <2>3, <3>1 DEF Follows
    <3>3. p # NIL /\ PlaceOf(b, k) <= PlaceOf(b, p)
      BY <1>3, <1>6, <3>1, <3>2 DEF Foregoes
    <3>4. PlaceOf(c, p) = PlaceOf(b, p)
      BY <1>1, <1>2, <1>5, <2>2, <3>3
    <3> QED BY <3>1, <3>3, <3>4
  <2> QED BY <2>2, <2>3 DEF Foregoes
\* Other neighbours stay neighbours.
<1>11. ASSUME NEW r \in SeatIds, NEW y, NEW q, Follows(b, r, y, q), q # n
       PROVE  Follows(c, r, y, q)
  <2>1. \A k \in LiveOf(c, r) : k \in LiveOf(b, r) /\ PlaceOf(c, k) = PlaceOf(b, k)
    BY <1>1, <1>2, <1>5
  <2>2. q # NIL => q \in LiveOf(c, r)
    BY <1>2, <1>11 DEF Follows
  <2> QED BY <1>11, <2>1, <2>2 DEF Follows
<1>12. ASSUME NEW r \in SeatIds, NEW y, NEW q, Foregoes(b, r, y, q), q # n
       PROVE  Foregoes(c, r, y, q)
  <2>1. \A k \in LiveOf(c, r) : k \in LiveOf(b, r) /\ PlaceOf(c, k) = PlaceOf(b, k)
    BY <1>1, <1>2, <1>5
  <2>2. q # NIL => q \in LiveOf(c, r)
    BY <1>2, <1>12 DEF Foregoes
  <2> QED BY <1>12, <2>1, <2>2 DEF Foregoes
<1>13. ASSUME NEW k \in Live(c)
       PROVE  Follows(c, MakerOf(c, k), PlaceOf(c, k), ChainNextOf(c, k))
  <2> DEFINE q == ChainNextOf(b, k)
             r == MakerOf(b, k)
  <2>0. k \in Live(b) /\ k # n /\ k # NIL /\ r \in SeatIds /\ PlaceOf(b, k) \in Nat
        /\ MakerOf(c, k) = r /\ PlaceOf(c, k) = PlaceOf(b, k)
    BY <1>1, <1>4
  <2>1. CASE k = p
    <3>1. r = s
      BY <1>3, <1>5, <2>0, <2>1 DEF Foregoes
    <3> QED BY <1>1, <1>9, <2>0, <2>1, <3>1
  <2>2. CASE k # p
    <3>1. Follows(b, r, PlaceOf(b, k), q)
      BY <2>0 DEF ChainsAt
    <3>2. q # n
      <4> SUFFICES ASSUME q = n PROVE FALSE
        OBVIOUS
      <4>1. n \in LiveOf(b, r) /\ PlaceOf(b, k) < x /\ n # NIL
        BY <1>4, <3>1 DEF Follows, x
      <4>2. r = s
        BY <1>5, <4>1 DEF s
      <4>3. k \in LiveOf(b, s) /\ p # NIL /\ PlaceOf(b, k) <= PlaceOf(b, p) /\ p \in LiveOf(b, s)
            /\ PlaceOf(b, p) < x /\ PlaceOf(b, p) \in Nat
        BY <1>3, <1>4, <1>5, <2>0, <4>1, <4>2 DEF Foregoes
      <4>4. ~(PlaceOf(b, k) < PlaceOf(b, p))
        BY <1>0, <3>1, <4>2, <4>3 DEF Follows, x
      <4>5. PlaceOf(b, k) = PlaceOf(b, p)
        BY <2>0, <4>3, <4>4
      <4> QED BY <1>0, <2>2, <4>3, <4>5 DEF ChainsAt, Distinct
    <3>3. ChainNextOf(c, k) = q
      BY <1>1, <2>2
    <3> HIDE DEF q, r
    <3> QED BY <1>11, <2>0, <3>1, <3>2, <3>3
  <2> QED BY <2>1, <2>2
<1>14. ASSUME NEW k \in Live(c)
       PROVE  Foregoes(c, MakerOf(c, k), PlaceOf(c, k), ChainPrevOf(c, k))
  <2> DEFINE q == ChainPrevOf(b, k)
             r == MakerOf(b, k)
  <2>0. k \in Live(b) /\ k # n /\ k # NIL /\ r \in SeatIds /\ PlaceOf(b, k) \in Nat
        /\ MakerOf(c, k) = r /\ PlaceOf(c, k) = PlaceOf(b, k)
    BY <1>1, <1>4
  <2>1. CASE k = m
    <3>1. r = s
      BY <1>3, <1>5, <2>0, <2>1 DEF Follows
    <3> QED BY <1>1, <1>10, <2>0, <2>1, <3>1
  <2>2. CASE k # m
    <3>1. Foregoes(b, r, PlaceOf(b, k), q)
      BY <2>0 DEF ChainsAt
    <3>2. q # n
      <4> SUFFICES ASSUME q = n PROVE FALSE
        OBVIOUS
      <4>1. n \in LiveOf(b, r) /\ x < PlaceOf(b, k) /\ n # NIL
        BY <1>4, <3>1 DEF Foregoes, x
      <4>2. r = s
        BY <1>5, <4>1 DEF s
      <4>3. k \in LiveOf(b, s) /\ m # NIL /\ PlaceOf(b, m) <= PlaceOf(b, k) /\ m \in LiveOf(b, s)
            /\ x < PlaceOf(b, m) /\ PlaceOf(b, m) \in Nat
        BY <1>3, <1>4, <1>5, <2>0, <4>1, <4>2 DEF Follows
      <4>4. ~(PlaceOf(b, m) < PlaceOf(b, k))
        BY <1>0, <3>1, <4>2, <4>3 DEF Foregoes, x
      <4>5. PlaceOf(b, k) = PlaceOf(b, m)
        BY <2>0, <4>3, <4>4
      <4> QED BY <1>0, <2>2, <4>3, <4>5 DEF ChainsAt, Distinct
    <3>3. ChainPrevOf(c, k) = q
      BY <1>1, <2>2
    <3> HIDE DEF q, r
    <3> QED BY <1>12, <2>0, <3>1, <3>2, <3>3
  <2> QED BY <2>1, <2>2
<1>15. ASSUME NEW r \in SeatIds PROVE Follows(c, r, -1, FirstOf(c, r))
  <2>1. Follows(b, r, -1, FirstOf(b, r))
    BY DEF ChainsAt
  <2>2. CASE r = s /\ p = NIL
    <3>1. m # NIL => m \in LiveOf(c, s) /\ -1 < PlaceOf(c, m)
      BY <1>0, <1>1, <1>2, <1>3, <1>4, <1>5 DEF Follows, x
    <3>2. ASSUME NEW k \in LiveOf(c, s) PROVE m # NIL /\ PlaceOf(c, m) <= PlaceOf(c, k)
      <4>1. k \in LiveOf(b, s) /\ k # n /\ PlaceOf(c, k) = PlaceOf(b, k)
        BY <1>1, <1>2, <1>5
      <4>2. x < PlaceOf(b, k)
        BY <1>3, <1>6, <2>2, <4>1 DEF Foregoes
      <4>3. m # NIL /\ PlaceOf(b, m) <= PlaceOf(b, k)
        BY <1>3, <4>1, <4>2 DEF Follows
      <4> QED BY <1>1, <1>2, <1>5, <3>1, <4>1, <4>3
    <3>3. Follows(c, s, -1, m)
      BY <3>1, <3>2 DEF Follows
    <3> QED BY <1>1, <2>2, <3>3
  <2>3. CASE ~(r = s /\ p = NIL)
    <3>1. FirstOf(b, r) # n
      <4> SUFFICES ASSUME FirstOf(b, r) = n PROVE FALSE
        OBVIOUS
      <4>1. n \in LiveOf(b, r) /\ n # NIL
        BY <1>4, <2>1 DEF Follows
      <4>2. r = s /\ p # NIL
        BY <1>5, <2>3, <4>1 DEF s
      <4>3. p \in LiveOf(b, s) /\ PlaceOf(b, p) < x /\ PlaceOf(b, p) \in Nat
        BY <1>3, <1>4, <1>5, <4>2 DEF Foregoes
      <4>4. x <= PlaceOf(b, p)
        BY <2>1, <4>2, <4>3 DEF Follows, x
      <4> QED BY <1>0, <4>3, <4>4
    <3> QED BY <1>1, <1>11, <2>1, <2>3, <3>1
  <2> QED BY <2>2, <2>3
<1> QED BY <1>8, <1>13, <1>14, <1>15 DEF ChainsAt

LEMMA EnteredChainRead ==
  ASSUME NEW b, NEW c, NEW n \in Nodes, NEW side, NEW tick, NEW lots, NEW s \in SeatIds, NEW p, NEW m,
         Entered(b, c, n, side, tick, lots, s, p, m)
  PROVE  /\ \A k \in Nodes : k # n =>
              /\ MakerOf(c, k) = MakerOf(b, k) /\ PlaceOf(c, k) = PlaceOf(b, k)
              /\ ChainNextOf(c, k) = IF k = p THEN n ELSE ChainNextOf(b, k)
              /\ ChainPrevOf(c, k) = IF k = m THEN n ELSE ChainPrevOf(b, k)
         /\ MakerOf(c, n) = s /\ PlaceOf(c, n) = (IF side = "bid" THEN tick ELSE TickLimit + 1 + tick)
         /\ ChainPrevOf(c, n) = p /\ ChainNextOf(c, n) = m
<1>1. /\ \A k \in Links \ {n} :
           /\ c.pool[k].makerNext = IF k = p /\ p # NIL THEN n ELSE b.pool[k].makerNext
           /\ c.pool[k].makerPrev = IF k = m /\ m # NIL THEN n ELSE b.pool[k].makerPrev
           /\ \A g \in OrderFields : c.pool[k][g] = b.pool[k][g]
      /\ c.pool[n].makerPrev = p /\ c.pool[n].makerNext = m
      /\ c.pool[n].tick = tick /\ c.pool[n].maker = s /\ c.pool[n].side = side
  BY DEF Entered, PoolEntered
<1>2. \A k \in Links \ {n} : /\ c.pool[k].maker = b.pool[k].maker /\ c.pool[k].side = b.pool[k].side
                             /\ c.pool[k].tick = b.pool[k].tick
  BY <1>1 DEF OrderFields
<1>3. \A k \in Nodes : k # NIL /\ k \in Links
  BY BookAssumption DEF Nodes, Links, NIL
<1>4. \A k \in Nodes : k # n => MakerOf(c, k) = MakerOf(b, k) /\ PlaceOf(c, k) = PlaceOf(b, k)
  BY <1>2, <1>3 DEF MakerOf, PlaceOf
<1>5. \A k \in Nodes : k # n => ChainNextOf(c, k) = IF k = p THEN n ELSE ChainNextOf(b, k)
  BY <1>1, <1>3 DEF ChainNextOf
<1>6. \A k \in Nodes : k # n => ChainPrevOf(c, k) = IF k = m THEN n ELSE ChainPrevOf(b, k)
  BY <1>1, <1>3 DEF ChainPrevOf
<1>7. /\ MakerOf(c, n) = s /\ PlaceOf(c, n) = (IF side = "bid" THEN tick ELSE TickLimit + 1 + tick)
      /\ ChainPrevOf(c, n) = p /\ ChainNextOf(c, n) = m
  BY <1>1 DEF MakerOf, PlaceOf, ChainPrevOf, ChainNextOf
<1> QED BY <1>4, <1>5, <1>6, <1>7

LEMMA EnteredFirst ==
  ASSUME NEW b, NEW c, NEW n \in Nodes, NEW side, NEW tick, NEW lots, NEW s \in SeatIds, NEW p, NEW m,
         Entered(b, c, n, side, tick, lots, s, p, m)
  PROVE  \A r \in SeatIds : FirstOf(c, r) = IF r = s /\ p = NIL THEN n ELSE FirstOf(b, r)
BY DEF Entered, SeatsEntered, FirstOf

\* The chains with a new order n between its neighbours p and m.
LEMMA ChainsEntered ==
  ASSUME NEW b, ChainsAt(b), Seatwise(b), NEW n \in Nodes, n \notin Live(b),
         NEW side \in Sides, NEW tick \in Nat, NEW lots, NEW s \in SeatIds, NEW p, NEW m, NEW c,
         Entered(b, c, n, side, tick, lots, s, p, m), NextOrderId(b) # FreedSeq,
         NEW x, x = (IF side = "bid" THEN tick ELSE TickLimit + 1 + tick),
         Foregoes(b, s, x, p), Follows(b, s, x, m), \A k \in LiveOf(b, s) : PlaceOf(b, k) # x
  PROVE  ChainsAt(c)
<1>0. Live(b) \subseteq Nodes /\ NIL \notin Nodes /\ FreedSeq \in Nat /\ x \in Nat
  BY LiveNodes, BookAssumption DEF NIL, Nodes
<1>1. /\ Live(c) = Live(b) \cup {n}
      /\ \A k \in Live(b) : MakerOf(c, k) = MakerOf(b, k) /\ PlaceOf(c, k) = PlaceOf(b, k)
      /\ \A k \in Live(b) : ChainNextOf(c, k) = IF k = p THEN n ELSE ChainNextOf(b, k)
      /\ \A k \in Live(b) : ChainPrevOf(c, k) = IF k = m THEN n ELSE ChainPrevOf(b, k)
      /\ MakerOf(c, n) = s /\ PlaceOf(c, n) = x /\ ChainPrevOf(c, n) = p /\ ChainNextOf(c, n) = m
      /\ \A r \in SeatIds : FirstOf(c, r) = IF r = s /\ p = NIL THEN n ELSE FirstOf(b, r)
  <2>1. Live(c) = Live(b) \cup {n}
    <3>1. Entered(b, c, n, side, tick, lots, s, p, m) /\ NextOrderId(b) # FreedSeq
      OBVIOUS
    <3> QED BY <3>1, EnteredLive
  <2>2. \A k \in Nodes : k # n =>
          /\ MakerOf(c, k) = MakerOf(b, k) /\ PlaceOf(c, k) = PlaceOf(b, k)
          /\ ChainNextOf(c, k) = IF k = p THEN n ELSE ChainNextOf(b, k)
          /\ ChainPrevOf(c, k) = IF k = m THEN n ELSE ChainPrevOf(b, k)
    BY EnteredChainRead
  <2>4. /\ MakerOf(c, n) = s /\ PlaceOf(c, n) = (IF side = "bid" THEN tick ELSE TickLimit + 1 + tick)
        /\ ChainPrevOf(c, n) = p /\ ChainNextOf(c, n) = m
    BY EnteredChainRead
  <2>5. \A r \in SeatIds : FirstOf(c, r) = IF r = s /\ p = NIL THEN n ELSE FirstOf(b, r)
    BY EnteredFirst
  <2>3. \A k \in Live(b) : k \in Nodes /\ k # n
    BY <1>0
  <2> QED BY <2>1, <2>2, <2>3, <2>4, <2>5
<1>2. \A r : LiveOf(b, r) = {k \in Live(b) : MakerOf(b, k) = r}
  BY LivesAre
<1>3. \A r : LiveOf(c, r) = IF r = s THEN LiveOf(b, r) \cup {n} ELSE LiveOf(b, r)
  BY <1>1, <1>2, LivesAre
<1>4. \A k \in Live(b) : /\ k \in Nodes /\ k # NIL /\ k # n
                         /\ PlaceOf(b, k) \in Nat /\ MakerOf(b, k) \in SeatIds
  BY <1>0 DEF Seatwise
<1>5. \A r : \A k \in LiveOf(b, r) : /\ k \in Live(b) /\ k \in LiveOf(c, r) /\ PlaceOf(c, k) = PlaceOf(b, k)
                                     /\ PlaceOf(b, k) \in Nat
  BY <1>1, <1>2, <1>3, <1>4
<1>6. \A k \in LiveOf(b, s) : PlaceOf(b, k) < x \/ x < PlaceOf(b, k)
  <2> SUFFICES ASSUME NEW k \in LiveOf(b, s) PROVE PlaceOf(b, k) < x \/ x < PlaceOf(b, k)
    OBVIOUS
  <2>1. PlaceOf(b, k) \in Nat /\ PlaceOf(b, k) # x
    BY <1>5
  <2> QED BY <1>0, <2>1
<1>7. n \in LiveOf(c, s) /\ n # NIL
  BY <1>0, <1>3
<1>8. Distinct(c)
  <2> SUFFICES ASSUME NEW r \in SeatIds, NEW j \in LiveOf(c, r), NEW k \in LiveOf(c, r),
                      PlaceOf(c, j) = PlaceOf(c, k)
               PROVE  j = k
    BY DEF Distinct
  <2>1. CASE j \in LiveOf(b, r) /\ k \in LiveOf(b, r)
    BY <1>5, <2>1 DEF ChainsAt, Distinct
  <2>2. CASE ~(j \in LiveOf(b, r) /\ k \in LiveOf(b, r))
    BY <1>1, <1>3, <1>5, <2>2
  <2> QED BY <2>1, <2>2
\* Neighbours that n does not part stay neighbours.
<1>9. ASSUME NEW r \in SeatIds, NEW y, NEW q, Follows(b, r, y, q),
             r = s /\ y < x => q # NIL /\ PlaceOf(b, q) <= x
      PROVE  Follows(c, r, y, q)
  <2>1. q # NIL => q \in LiveOf(c, r) /\ y < PlaceOf(c, q) /\ PlaceOf(c, q) = PlaceOf(b, q)
    BY <1>5, <1>9 DEF Follows
  <2>2. ASSUME NEW k \in LiveOf(c, r), y < PlaceOf(c, k) PROVE q # NIL /\ PlaceOf(c, q) <= PlaceOf(c, k)
    <3>1. CASE k \in LiveOf(b, r)
      BY <1>5, <1>9, <2>1, <2>2, <3>1 DEF Follows
    <3>2. CASE k \notin LiveOf(b, r)
      BY <1>1, <1>3, <1>9, <2>1, <2>2, <3>2
    <3> QED BY <3>1, <3>2
  <2> QED BY <2>1, <2>2 DEF Follows
<1>10. ASSUME NEW r \in SeatIds, NEW y, NEW q, Foregoes(b, r, y, q),
              r = s /\ x < y => q # NIL /\ x <= PlaceOf(b, q)
       PROVE  Foregoes(c, r, y, q)
  <2>1. q # NIL => q \in LiveOf(c, r) /\ PlaceOf(c, q) < y /\ PlaceOf(c, q) = PlaceOf(b, q)
    BY <1>5, <1>10 DEF Foregoes
  <2>2. ASSUME NEW k \in LiveOf(c, r), PlaceOf(c, k) < y PROVE q # NIL /\ PlaceOf(c, k) <= PlaceOf(c, q)
    <3>1. CASE k \in LiveOf(b, r)
      BY <1>5, <1>10, <2>1, <2>2, <3>1 DEF Foregoes
    <3>2. CASE k \notin LiveOf(b, r)
      BY <1>1, <1>3, <1>10, <2>1, <2>2, <3>2
    <3> QED BY <3>1, <3>2
  <2> QED BY <2>1, <2>2 DEF Foregoes
<1>11. Foregoes(c, s, x, p) /\ Follows(c, s, x, m)
  BY <1>0, <1>9, <1>10
\* n is the next of p and the previous of m.
<1>12. p # NIL => Follows(c, s, PlaceOf(b, p), n)
  <2> SUFFICES ASSUME p # NIL PROVE Follows(c, s, PlaceOf(b, p), n)
    OBVIOUS
  <2>1. p \in LiveOf(b, s) /\ PlaceOf(b, p) < x /\ PlaceOf(b, p) \in Nat
    BY <1>5 DEF Foregoes
  <2>2. ASSUME NEW k \in LiveOf(b, s), PlaceOf(b, p) < PlaceOf(b, k) PROVE x <= PlaceOf(b, k)
    <3>1. ~(PlaceOf(b, k) < x)
      BY <1>5, <2>1, <2>2 DEF Foregoes
    <3> QED BY <1>0, <1>5, <1>6, <3>1
  <2> QED BY <1>0, <1>1, <1>3, <1>5, <1>7, <2>1, <2>2 DEF Follows
<1>13. m # NIL => Foregoes(c, s, PlaceOf(b, m), n)
  <2> SUFFICES ASSUME m # NIL PROVE Foregoes(c, s, PlaceOf(b, m), n)
    OBVIOUS
  <2>1. m \in LiveOf(b, s) /\ x < PlaceOf(b, m) /\ PlaceOf(b, m) \in Nat
    BY <1>5 DEF Follows
  <2>2. ASSUME NEW k \in LiveOf(b, s), PlaceOf(b, k) < PlaceOf(b, m) PROVE PlaceOf(b, k) <= x
    <3>1. ~(x < PlaceOf(b, k))
      BY <1>5, <2>1, <2>2 DEF Follows
    <3> QED BY <1>0, <1>5, <1>6, <3>1
  <2> QED BY <1>0, <1>1, <1>3, <1>5, <1>7, <2>1, <2>2 DEF Foregoes
<1>14. ASSUME NEW k \in Live(b)
       PROVE  Follows(c, MakerOf(c, k), PlaceOf(c, k), ChainNextOf(c, k))
  <2> DEFINE q == ChainNextOf(b, k)
             r == MakerOf(b, k)
  <2>0. k # n /\ k # NIL /\ r \in SeatIds /\ PlaceOf(b, k) \in Nat /\ k \in LiveOf(b, r)
        /\ MakerOf(c, k) = r /\ PlaceOf(c, k) = PlaceOf(b, k)
    BY <1>1, <1>2, <1>4
  <2>1. CASE k = p
    <3>1. r = s
      BY <1>2, <2>0, <2>1 DEF Foregoes
    <3> QED BY <1>1, <1>12, <2>0, <2>1, <3>1
  <2>2. CASE k # p
    <3>1. Follows(b, r, PlaceOf(b, k), q)
      BY DEF ChainsAt
    <3>2. ASSUME r = s, PlaceOf(b, k) < x PROVE q # NIL /\ PlaceOf(b, q) <= x
      <4>1. p # NIL /\ PlaceOf(b, k) <= PlaceOf(b, p) /\ p \in LiveOf(b, s) /\ PlaceOf(b, p) < x
            /\ PlaceOf(b, p) \in Nat
        BY <1>5, <2>0, <3>2 DEF Foregoes
      <4>2. PlaceOf(b, k) # PlaceOf(b, p)
        BY <2>0, <2>2, <3>2, <4>1 DEF ChainsAt, Distinct
      <4>3. PlaceOf(b, k) < PlaceOf(b, p)
        BY <2>0, <4>1, <4>2
      <4>4. q # NIL /\ PlaceOf(b, q) <= PlaceOf(b, p) /\ q \in LiveOf(b, r)
        BY <3>1, <3>2, <4>1, <4>3 DEF Follows
      <4>5. PlaceOf(b, q) \in Nat
        BY <1>5, <4>4
      <4> QED BY <1>0, <4>1, <4>4, <4>5
    <3>3. ChainNextOf(c, k) = q
      BY <1>1, <2>2
    <3> HIDE DEF q, r
    <3>4. Follows(c, r, PlaceOf(b, k), q)
      BY <1>9, <2>0, <3>1, <3>2
    <3> QED BY <2>0, <3>3, <3>4
  <2> QED BY <2>1, <2>2
<1>15. ASSUME NEW k \in Live(b)
       PROVE  Foregoes(c, MakerOf(c, k), PlaceOf(c, k), ChainPrevOf(c, k))
  <2> DEFINE q == ChainPrevOf(b, k)
             r == MakerOf(b, k)
  <2>0. k # n /\ k # NIL /\ r \in SeatIds /\ PlaceOf(b, k) \in Nat /\ k \in LiveOf(b, r)
        /\ MakerOf(c, k) = r /\ PlaceOf(c, k) = PlaceOf(b, k)
    BY <1>1, <1>2, <1>4
  <2>1. CASE k = m
    <3>1. r = s
      BY <1>2, <2>0, <2>1 DEF Follows
    <3> QED BY <1>1, <1>13, <2>0, <2>1, <3>1
  <2>2. CASE k # m
    <3>1. Foregoes(b, r, PlaceOf(b, k), q)
      BY DEF ChainsAt
    <3>2. ASSUME r = s, x < PlaceOf(b, k) PROVE q # NIL /\ x <= PlaceOf(b, q)
      <4>1. m # NIL /\ PlaceOf(b, m) <= PlaceOf(b, k) /\ m \in LiveOf(b, s) /\ x < PlaceOf(b, m)
            /\ PlaceOf(b, m) \in Nat
        BY <1>5, <2>0, <3>2 DEF Follows
      <4>2. PlaceOf(b, k) # PlaceOf(b, m)
        BY <2>0, <2>2, <3>2, <4>1 DEF ChainsAt, Distinct
      <4>3. PlaceOf(b, m) < PlaceOf(b, k)
        BY <2>0, <4>1, <4>2
      <4>4. q # NIL /\ PlaceOf(b, m) <= PlaceOf(b, q) /\ q \in LiveOf(b, r)
        BY <3>1, <3>2, <4>1, <4>3 DEF Foregoes
      <4>5. PlaceOf(b, q) \in Nat
        BY <1>5, <4>4
      <4> QED BY <1>0, <4>1, <4>4, <4>5
    <3>3. ChainPrevOf(c, k) = q
      BY <1>1, <2>2
    <3> HIDE DEF q, r
    <3>4. Foregoes(c, r, PlaceOf(b, k), q)
      BY <1>10, <2>0, <3>1, <3>2
    <3> QED BY <2>0, <3>3, <3>4
  <2> QED BY <2>1, <2>2
<1>16. ASSUME NEW r \in SeatIds PROVE Follows(c, r, -1, FirstOf(c, r))
  <2>1. Follows(b, r, -1, FirstOf(b, r))
    BY DEF ChainsAt
  <2>2. CASE r = s /\ p = NIL
    <3>1. \A k \in LiveOf(b, s) : x < PlaceOf(b, k)
      BY <1>6, <2>2 DEF Foregoes
    <3>2. Follows(c, s, -1, n)
      BY <1>0, <1>1, <1>3, <1>5, <1>7, <3>1 DEF Follows
    <3> QED BY <1>1, <2>2, <3>2
  <2>3. CASE ~(r = s /\ p = NIL)
    <3>1. ASSUME r = s PROVE FirstOf(b, r) # NIL /\ PlaceOf(b, FirstOf(b, r)) <= x
      <4>1. p \in LiveOf(b, s) /\ PlaceOf(b, p) < x /\ PlaceOf(b, p) \in Nat
        BY <1>5, <2>3, <3>1 DEF Foregoes
      <4>2. /\ FirstOf(b, r) # NIL /\ PlaceOf(b, FirstOf(b, r)) <= PlaceOf(b, p)
            /\ FirstOf(b, r) \in LiveOf(b, r)
        BY <2>1, <3>1, <4>1 DEF Follows
      <4>3. PlaceOf(b, FirstOf(b, r)) \in Nat
        BY <1>5, <4>2
      <4> QED BY <1>0, <4>1, <4>2, <4>3
    <3> QED BY <1>1, <1>9, <2>1, <2>3, <3>1
  <2> QED BY <2>2, <2>3
<1>17. \A k \in Live(c) : /\ Foregoes(c, MakerOf(c, k), PlaceOf(c, k), ChainPrevOf(c, k))
                          /\ Follows(c, MakerOf(c, k), PlaceOf(c, k), ChainNextOf(c, k))
  BY <1>1, <1>11, <1>14, <1>15
<1> QED BY <1>8, <1>16, <1>17 DEF ChainsAt

Unused(b) == Nodes \ Live(b)

\* q lists the free list from its end: NIL, then the free nodes up to the head.
FreeChain(b, q, k) ==
  /\ q[0] = NIL /\ q[k] = b.freeHead
  /\ \A i \in 1 .. k : q[i] \in Unused(b) /\ NextOf(b, q[i]) = q[i - 1]
  /\ \A n \in Unused(b) : \E i \in 1 .. k : q[i] = n
  /\ \A i, j \in 1 .. k : q[i] = q[j] => i = j

FreeAt(b) ==
  /\ \E k \in Nat : \E q \in [0 .. k -> Links] : FreeChain(b, q, k)
  /\ b.freeCount = Cardinality(Unused(b))

\* Each free node is listed once, and NIL is not one of them.
LEMMA UnusedFinite == \A b : IsFiniteSet(Unused(b)) /\ Cardinality(Unused(b)) \in Nat
<1> SUFFICES ASSUME NEW b PROVE IsFiniteSet(Unused(b)) /\ Cardinality(Unused(b)) \in Nat
  OBVIOUS
<1>1. IsFiniteSet(Nodes)
  BY FS_Interval, BookAssumption DEF Nodes
<1>2. Unused(b) \subseteq Nodes
  BY DEF Unused
<1> QED BY <1>1, <1>2, FS_Subset, FS_CardinalityType

\* The free list with node n at its head.
LEMMA FreeEnded ==
  ASSUME NEW b, FreeAt(b), NEW r, LevelsAt(b, r), NEW n \in Live(b), NEW c, Ended(b, c, n)
  PROVE  FreeAt(c)
<1>0. Live(b) \subseteq Nodes /\ NIL \notin Nodes /\ FreedSeq \in Nat /\ Nodes \subseteq Links /\ NIL \in Links
  BY LiveNodes, BookAssumption DEF NIL, Nodes, Links
<1>1. /\ Live(c) = Live(b) \ {n}
      /\ \A j \in Nodes : j # n => NextOf(c, j) = IF j = PrevOf(b, n) THEN NextOf(b, n) ELSE NextOf(b, j)
  BY <1>0, EndedRead
<1>2. c.freeHead = n /\ NextOf(c, n) = b.freeHead /\ c.freeCount = b.freeCount + 1
  BY DEF Ended, PoolEnded, NextOf
<1>3. Unused(c) = Unused(b) \cup {n} /\ n \notin Unused(b)
  BY <1>0, <1>1 DEF Unused
<1>4. Cardinality(Unused(c)) = Cardinality(Unused(b)) + 1
  BY <1>3, UnusedFinite, FS_AddElement
<1>5. \A j \in Unused(b) : j # PrevOf(b, n)
  <2>1. PrevOf(b, n) = NIL \/ PrevOf(b, n) \in Live(b)
    BY DEF LevelsAt, Queued, Mates, Rests
  <2> QED BY <1>0, <2>1 DEF Unused
<1>6. \A j \in Unused(b) : NextOf(c, j) = NextOf(b, j)
  BY <1>1, <1>3, <1>5 DEF Unused
<1>7. PICK k \in Nat : \E q \in [0 .. k -> Links] : FreeChain(b, q, k)
  BY DEF FreeAt
<1>8. PICK q \in [0 .. k -> Links] : FreeChain(b, q, k)
  BY <1>7
<1> DEFINE q2 == [i \in 0 .. k + 1 |-> IF i = k + 1 THEN n ELSE q[i]]
<1>9. q2 \in [0 .. k + 1 -> Links]
  BY <1>0
<1>10. \A i \in 0 .. k : q2[i] = q[i]
  BY <1>7
<1>11. q2[k + 1] = n
  BY <1>7
<1> HIDE DEF q2
<1>12. FreeChain(c, q2, k + 1)
  <2>1. q2[0] = NIL
    BY <1>7, <1>8, <1>10 DEF FreeChain
  <2>2. ASSUME NEW i \in 1 .. k + 1 PROVE q2[i] \in Unused(c) /\ NextOf(c, q2[i]) = q2[i - 1]
    <3>1. CASE i = k + 1
      <4>1. q2[i - 1] = b.freeHead /\ q2[i] = n
        BY <1>7, <1>8, <1>10, <1>11, <3>1 DEF FreeChain
      <4> QED BY <1>2, <1>3, <4>1
    <3>2. CASE i \in 1 .. k
      <4>1. q2[i] = q[i] /\ q2[i - 1] = q[i - 1]
        BY <1>7, <1>10, <3>2
      <4>2. q[i] \in Unused(b) /\ NextOf(b, q[i]) = q[i - 1]
        BY <1>8, <3>2 DEF FreeChain
      <4> QED BY <1>3, <1>6, <4>1, <4>2
    <3> QED BY <1>7, <3>1, <3>2
  <2>3. ASSUME NEW j \in Unused(c) PROVE \E i \in 1 .. k + 1 : q2[i] = j
    <3>1. CASE j = n
      BY <1>7, <1>11, <3>1
    <3>2. CASE j \in Unused(b)
      <4>1. PICK i \in 1 .. k : q[i] = j
        BY <1>8, <3>2 DEF FreeChain
      <4>2. i \in 1 .. k + 1 /\ q2[i] = j
        BY <1>7, <1>10, <4>1
      <4> QED BY <4>2
    <3> QED BY <1>3, <3>1, <3>2
  <2>4. ASSUME NEW i \in 1 .. k + 1, NEW j \in 1 .. k + 1, q2[i] = q2[j] PROVE i = j
    <3>1. ASSUME NEW h \in 1 .. k PROVE q2[h] \in Unused(b) /\ q2[h] = q[h]
      <4>1. q2[h] = q[h]
        BY <1>7, <1>10
      <4>2. q[h] \in Unused(b)
        BY <1>8 DEF FreeChain
      <4> QED BY <4>1, <4>2
    <3>2. \A h \in 1 .. k + 1 : h \in 1 .. k \/ h = k + 1
      BY <1>7
    <3>3. CASE i \in 1 .. k /\ j \in 1 .. k
      BY <1>8, <2>4, <3>1, <3>3 DEF FreeChain
    <3>4. \A h \in 1 .. k : q2[h] # n
      BY <1>3, <3>1
    <3>5. (i = k + 1 => q2[i] = n) /\ (j = k + 1 => q2[j] = n)
      BY <1>11
    <3> QED BY <2>4, <3>2, <3>3, <3>4, <3>5
  <2> QED BY <1>2, <1>11, <2>1, <2>2, <2>3, <2>4 DEF FreeChain
<1>13. c.freeCount = Cardinality(Unused(c))
  BY <1>2, <1>4 DEF FreeAt
<1>14. k + 1 \in Nat
  BY <1>7
<1> QED BY <1>9, <1>12, <1>13, <1>14 DEF FreeAt

LEMMA EnteredNext ==
  ASSUME NEW b, NEW c, NEW n \in Nodes, NEW side, NEW tick, NEW lots, NEW s, NEW p, NEW m,
         Entered(b, c, n, side, tick, lots, s, p, m), NextOrderId(b) # FreedSeq, NEW k \in Nodes, k # n
  PROVE  NextOf(c, k) = IF k = IF Slot(tick) \in b.bits[side] THEN TailOf(b, Slot(tick)) ELSE NIL
                        THEN n ELSE NextOf(b, k)
<1>1. PoolEntered(b, c, n, side, tick, lots, s, p, m)
  BY DEF Entered
<1>2. k \in Links \ {n} /\ k # NIL
  BY BookAssumption DEF Nodes, Links, NIL
<1>3. c.pool[k].next = IF Slot(tick) \in b.bits[side] /\ k = b.levels[Slot(tick)].tail THEN n ELSE b.pool[k].next
  BY <1>1, <1>2 DEF PoolEntered
<1> QED BY <1>2, <1>3 DEF NextOf, TailOf

\* The free list without its head.
LEMMA FreeEntered ==
  ASSUME NEW b, FreeAt(b), NEW r, LevelsAt(b, r), NEW n \in Nodes, n = b.freeHead, NextOrderId(b) # FreedSeq,
         NEW side \in Sides, NEW tick, NEW lots, NEW s, NEW p, NEW m, NEW c,
         Entered(b, c, n, side, tick, lots, s, p, m)
  PROVE  FreeAt(c) /\ n \notin Live(b)
<1>0. Live(b) \subseteq Nodes /\ NIL \notin Nodes /\ FreedSeq \in Nat /\ Nodes \subseteq Links /\ NIL \in Links
  BY LiveNodes, BookAssumption DEF NIL, Nodes, Links
<1> DEFINE l    == Slot(tick)
           tail == IF l \in b.bits[side] THEN TailOf(b, l) ELSE NIL
<1>1. /\ Live(c) = Live(b) \cup {n}
      /\ \A k \in Nodes : k # n => NextOf(c, k) = IF k = tail THEN n ELSE NextOf(b, k)
  <2>1. Live(c) = Live(b) \cup {n}
    BY EnteredLive
  <2>2. ASSUME NEW k \in Nodes, k # n PROVE NextOf(c, k) = IF k = tail THEN n ELSE NextOf(b, k)
    BY <2>2, EnteredNext
  <2> QED BY <2>1, <2>2
<1>2. c.freeHead = NextOf(b, n) /\ c.freeCount = b.freeCount - 1
  BY DEF Entered, PoolEntered, NextOf
<1>3. tail = NIL \/ tail \in Live(b)
  BY DEF LevelsAt, Served, Rests
<1> HIDE DEF tail
<1>4. \A j \in Unused(b) : j # n => NextOf(c, j) = NextOf(b, j)
  BY <1>0, <1>1, <1>3 DEF Unused
<1>5. PICK k \in Nat : \E q \in [0 .. k -> Links] : FreeChain(b, q, k)
  BY DEF FreeAt
<1>6. PICK q \in [0 .. k -> Links] : FreeChain(b, q, k)
  BY <1>5
<1>7. k \in 1 .. k /\ q[k] = n
  BY <1>0, <1>5, <1>6 DEF FreeChain
<1>8. n \in Unused(b) /\ NextOf(b, n) = q[k - 1]
  BY <1>6, <1>7 DEF FreeChain
<1>9. Unused(c) = Unused(b) \ {n}
  BY <1>1 DEF Unused
<1>10. Cardinality(Unused(c)) = Cardinality(Unused(b)) - 1
  BY <1>8, <1>9, UnusedFinite, FS_RemoveElement
<1> DEFINE q2 == [i \in 0 .. k - 1 |-> q[i]]
<1>11. k - 1 \in Nat /\ q2 \in [0 .. k - 1 -> Links] /\ \A i \in 0 .. k - 1 : q2[i] = q[i]
  BY <1>5, <1>7
<1> HIDE DEF q2
<1>12. FreeChain(c, q2, k - 1)
  <2>1. q2[0] = NIL /\ q2[k - 1] = c.freeHead
    BY <1>2, <1>5, <1>6, <1>7, <1>8, <1>11 DEF FreeChain
  <2>2. ASSUME NEW i \in 1 .. k - 1 PROVE q2[i] \in Unused(c) /\ NextOf(c, q2[i]) = q2[i - 1]
    <3>1. q2[i] = q[i] /\ q2[i - 1] = q[i - 1] /\ i \in 1 .. k /\ i # k
      BY <1>5, <1>11
    <3>2. q[i] \in Unused(b) /\ NextOf(b, q[i]) = q[i - 1] /\ q[i] # n
      BY <1>6, <1>7, <3>1 DEF FreeChain
    <3> QED BY <1>4, <1>9, <3>1, <3>2
  <2>3. ASSUME NEW j \in Unused(c) PROVE \E i \in 1 .. k - 1 : q2[i] = j
    <3>1. j \in Unused(b) /\ j # n
      BY <1>9
    <3>2. PICK i \in 1 .. k : q[i] = j
      BY <1>6, <3>1 DEF FreeChain
    <3>3. i # k
      BY <1>7, <3>1, <3>2
    <3>4. i \in 1 .. k - 1
      BY <1>5, <3>2, <3>3
    <3>5. q2[i] = j
      BY <1>11, <3>2, <3>4
    <3> QED BY <3>4, <3>5
  <2>4. ASSUME NEW i \in 1 .. k - 1, NEW j \in 1 .. k - 1, q2[i] = q2[j] PROVE i = j
    <3>1. i \in 1 .. k /\ j \in 1 .. k /\ q[i] = q[j]
      BY <1>5, <1>11, <2>4
    <3> QED BY <1>6, <3>1 DEF FreeChain
  <2> QED BY <2>1, <2>2, <2>3, <2>4 DEF FreeChain
<1>13. c.freeCount = Cardinality(Unused(c))
  BY <1>2, <1>10 DEF FreeAt
<1> QED BY <1>8, <1>11, <1>12, <1>13 DEF FreeAt, Unused

TickOf(b, n)  == b.pool[n].tick
LotsOf(b, n)  == b.pool[n].lots
OwnerOf(b, s) == b.seats[s].owner
CountOf(b, s) == b.seats[s].count

\* The count of a seat's orders, as a u16.
Counted(b) == \A s \in SeatIds : CountOf(b, s) = Cardinality(LiveOf(b, s)) % (U16Max + 1)

\* Where an order may rest and whose it may be; and node 0 is as it was made.
Housed(b) ==
  /\ \A n \in Live(b) : /\ InWindow(b, TickOf(b, n)) /\ LotsOf(b, n) > 0
                        /\ OwnerOf(b, MakerOf(b, n)) # Nobody
  /\ b.pool[NIL] = FreshNode(NIL)

LEMMA LivesFinite ==
  ASSUME NEW b, NEW s
  PROVE  IsFiniteSet(LiveOf(b, s)) /\ Cardinality(LiveOf(b, s)) \in Nat /\ LiveOf(b, s) \subseteq Nodes
<1>1. IsFiniteSet(Nodes)
  BY FS_Interval, BookAssumption DEF Nodes
<1>2. LiveOf(b, s) \subseteq Nodes
  BY DEF LiveOf
<1> QED BY <1>1, <1>2, FS_Subset, FS_CardinalityType

LEMMA DownCount ==
  ASSUME NEW x \in Nat \ {0}
  PROVE  ((x % (U16Max + 1)) + U16Max) % (U16Max + 1) = (x - 1) % (U16Max + 1)
BY DEF U16Max

LEMMA UpCount ==
  ASSUME NEW x \in Nat
  PROVE  ((x % (U16Max + 1)) + 1) % (U16Max + 1) = (x + 1) % (U16Max + 1)
BY DEF U16Max

-----------------------------------------------------------------------------
(* An order ends                                                           *)

LEMMA EndedLives ==
  ASSUME NEW b, NEW n \in Live(b), Seatwise(b), NEW c, Ended(b, c, n)
  PROVE  /\ Live(c) = Live(b) \ {n} /\ \A s : LiveOf(c, s) = LiveOf(b, s) \ {n}
         /\ \A k \in Live(c) : PlaceOf(c, k) = PlaceOf(b, k) /\ MakerOf(c, k) = MakerOf(b, k)
<1>0. n \in Nodes /\ Live(b) \subseteq Nodes /\ FreedSeq \in Nat /\ MakerOf(b, n) \in SeatIds
  BY LiveNodes, BookAssumption DEF Seatwise
<1>1. Live(c) = Live(b) \ {n}
  BY <1>0, EndedRead
<1>2. \A k \in Nodes : k # n => MakerOf(c, k) = MakerOf(b, k) /\ PlaceOf(c, k) = PlaceOf(b, k)
  BY <1>0, EndedChainRead
<1>3. \A s : LiveOf(c, s) = LiveOf(b, s) \ {n}
  BY <1>0, <1>1, <1>2, LivesAre
<1> QED BY <1>0, <1>1, <1>2, <1>3

LEMMA EndedSeatRead ==
  ASSUME NEW b, NEW c, NEW n, Ended(b, c, n)
  PROVE  /\ \A r \in SeatIds : OwnerOf(c, r) = OwnerOf(b, r)
         /\ \A r \in SeatIds : CountOf(c, r) = IF r = MakerOf(b, n) THEN (CountOf(b, r) + U16Max) % (U16Max + 1)
                                               ELSE CountOf(b, r)
BY DEF Ended, SeatsEnded, OwnerOf, CountOf, MakerOf

LEMMA CountedEnded ==
  ASSUME NEW b, Counted(b), Seatwise(b), NEW n \in Live(b), NEW c, Ended(b, c, n)
  PROVE  Counted(c)
<1> SUFFICES ASSUME NEW s \in SeatIds PROVE CountOf(c, s) = Cardinality(LiveOf(c, s)) % (U16Max + 1)
  BY DEF Counted
<1>1. LiveOf(c, s) = LiveOf(b, s) \ {n}
  BY EndedLives
<1>2. n \in LiveOf(b, s) <=> MakerOf(b, n) = s
  BY LivesAre
<1>3. CountOf(b, s) = Cardinality(LiveOf(b, s)) % (U16Max + 1)
  BY DEF Counted
<1>4. CountOf(c, s) = IF s = MakerOf(b, n) THEN (CountOf(b, s) + U16Max) % (U16Max + 1) ELSE CountOf(b, s)
  BY EndedSeatRead
<1>5. CASE s = MakerOf(b, n)
  <2>1. Cardinality(LiveOf(c, s)) = Cardinality(LiveOf(b, s)) - 1
    BY <1>1, <1>2, <1>5, LivesFinite, FS_RemoveElement
  <2>2. Cardinality(LiveOf(b, s)) \in Nat /\ Cardinality(LiveOf(c, s)) \in Nat
    BY LivesFinite
  <2>3. Cardinality(LiveOf(b, s)) \in Nat \ {0}
    BY <2>1, <2>2
  <2> QED BY <1>3, <1>4, <1>5, <2>1, <2>3, DownCount
<1>6. CASE s # MakerOf(b, n)
  <2>1. LiveOf(c, s) = LiveOf(b, s)
    BY <1>1, <1>2, <1>6
  <2> QED BY <1>3, <1>4, <1>6, <2>1
<1> QED BY <1>5, <1>6

LEMMA EndedOrderRead ==
  ASSUME NEW b, NEW c, NEW n, Ended(b, c, n)
  PROVE  /\ \A k \in Links : k # n => TickOf(c, k) = TickOf(b, k) /\ LotsOf(c, k) = LotsOf(b, k)
         /\ c.pool[NIL] = b.pool[NIL] /\ c.anchor = b.anchor
<1>1. \A k \in Links \ {n} : \A g \in OrderFields : c.pool[k][g] = b.pool[k][g]
  BY DEF Ended, PoolEnded
<1>2. \A k \in Links \ {n} : c.pool[k].tick = b.pool[k].tick /\ c.pool[k].lots = b.pool[k].lots
  BY <1>1 DEF OrderFields
<1>3. c.pool[NIL] = b.pool[NIL] /\ c.anchor = b.anchor
  BY DEF Ended, PoolEnded
<1> QED BY <1>2, <1>3 DEF TickOf, LotsOf

LEMMA HousedEnded ==
  ASSUME NEW b, Housed(b), Seatwise(b), NEW n \in Live(b), NEW c, Ended(b, c, n)
  PROVE  Housed(c)
<1>1. Live(c) = Live(b) \ {n} /\ \A k \in Live(c) : MakerOf(c, k) = MakerOf(b, k)
  BY EndedLives
<1>2. \A k \in Live(b) : k \in Links /\ MakerOf(b, k) \in SeatIds
  BY LiveNodes, BookAssumption DEF Nodes, Links, Seatwise
<1>3. \A k \in Live(c) : TickOf(c, k) = TickOf(b, k) /\ LotsOf(c, k) = LotsOf(b, k)
  BY <1>1, <1>2, EndedOrderRead
<1>4. c.pool[NIL] = b.pool[NIL] /\ c.anchor = b.anchor
  BY EndedOrderRead
<1>5. \A k \in Live(c) : OwnerOf(c, MakerOf(c, k)) = OwnerOf(b, MakerOf(b, k))
  BY <1>1, <1>2, EndedSeatRead
<1> QED BY <1>1, <1>3, <1>4, <1>5 DEF Housed, InWindow, LastTick

(* An order enters                                                         *)

LEMMA EnteredLives ==
  ASSUME NEW b, Seatwise(b), NEW n \in Nodes, n \notin Live(b), NEW side, NEW tick, NEW lots,
         NEW s \in SeatIds, NEW p, NEW m, NEW c, Entered(b, c, n, side, tick, lots, s, p, m),
         NextOrderId(b) # FreedSeq
  PROVE  /\ Live(c) = Live(b) \cup {n} /\ LiveOf(c, s) = LiveOf(b, s) \cup {n}
         /\ \A r : r # s => LiveOf(c, r) = LiveOf(b, r)
         /\ \A k \in Live(b) : PlaceOf(c, k) = PlaceOf(b, k) /\ MakerOf(c, k) = MakerOf(b, k)
         /\ MakerOf(c, n) = s /\ PlaceOf(c, n) = (IF side = "bid" THEN tick ELSE TickLimit + 1 + tick)
<1>0. Live(b) \subseteq Nodes
  BY LiveNodes
<1>1. Live(c) = Live(b) \cup {n}
  BY EnteredLive
<1>2. \A k \in Nodes : k # n => MakerOf(c, k) = MakerOf(b, k) /\ PlaceOf(c, k) = PlaceOf(b, k)
  BY EnteredChainRead
<1>3. MakerOf(c, n) = s /\ PlaceOf(c, n) = (IF side = "bid" THEN tick ELSE TickLimit + 1 + tick)
  BY EnteredChainRead
<1>4. LiveOf(c, s) = LiveOf(b, s) \cup {n}
  BY <1>0, <1>1, <1>2, <1>3, LivesAre
<1>5. \A r : r # s => LiveOf(c, r) = LiveOf(b, r)
  BY <1>0, <1>1, <1>2, <1>3, LivesAre
<1> QED BY <1>0, <1>1, <1>2, <1>3, <1>4, <1>5

LEMMA EnteredMakers ==
  ASSUME NEW b, NEW n \in Nodes, n \notin Live(b), NEW side, NEW tick, NEW lots,
         NEW s \in SeatIds, NEW p, NEW m, NEW c, Entered(b, c, n, side, tick, lots, s, p, m)
  PROVE  MakerOf(c, n) = s /\ \A k \in Live(b) : MakerOf(c, k) = MakerOf(b, k)
<1>1. \A k \in Nodes : k # n => MakerOf(c, k) = MakerOf(b, k)
  BY EnteredChainRead
<1>2. MakerOf(c, n) = s
  BY EnteredChainRead
<1> QED BY <1>1, <1>2, LiveNodes

LEMMA EnteredSeatRead ==
  ASSUME NEW b, NEW c, NEW n, NEW side, NEW tick, NEW lots, NEW s \in SeatIds, NEW p, NEW m,
         Entered(b, c, n, side, tick, lots, s, p, m)
  PROVE  \A r \in SeatIds : /\ OwnerOf(c, r) = OwnerOf(b, r)
                            /\ CountOf(c, r) = IF r = s THEN (CountOf(b, r) + 1) % (U16Max + 1) ELSE CountOf(b, r)
BY DEF Entered, SeatsEntered, OwnerOf, CountOf

LEMMA CountedEntered ==
  ASSUME NEW b, Counted(b), Seatwise(b), NEW n \in Nodes, n \notin Live(b), NEW side, NEW tick, NEW lots,
         NEW s \in SeatIds, NEW p, NEW m, NEW c, Entered(b, c, n, side, tick, lots, s, p, m),
         NextOrderId(b) # FreedSeq
  PROVE  Counted(c)
<1> SUFFICES ASSUME NEW r \in SeatIds PROVE CountOf(c, r) = Cardinality(LiveOf(c, r)) % (U16Max + 1)
  BY DEF Counted
<1>1. LiveOf(c, s) = LiveOf(b, s) \cup {n} /\ (r # s => LiveOf(c, r) = LiveOf(b, r))
  BY EnteredLives
<1>2. n \notin LiveOf(b, s)
  BY LivesAre
<1>3. CountOf(b, r) = Cardinality(LiveOf(b, r)) % (U16Max + 1)
  BY DEF Counted
<1>4. CountOf(c, r) = IF r = s THEN (CountOf(b, r) + 1) % (U16Max + 1) ELSE CountOf(b, r)
  BY EnteredSeatRead
<1>5. Cardinality(LiveOf(c, s)) = Cardinality(LiveOf(b, s)) + 1
  BY <1>1, <1>2, LivesFinite, FS_AddElement
<1>6. Cardinality(LiveOf(b, s)) \in Nat
  BY LivesFinite
<1> QED BY <1>1, <1>3, <1>4, <1>5, <1>6, UpCount

LEMMA EnteredOrderRead ==
  ASSUME NEW b, NEW c, NEW n, NEW side, NEW tick, NEW lots, NEW s, NEW p, NEW m,
         Entered(b, c, n, side, tick, lots, s, p, m)
  PROVE  /\ \A k \in Links : k # n => TickOf(c, k) = TickOf(b, k) /\ LotsOf(c, k) = LotsOf(b, k)
         /\ TickOf(c, n) = tick /\ LotsOf(c, n) = lots
         /\ c.pool[NIL] = b.pool[NIL] /\ c.anchor = b.anchor
<1>1. \A k \in Links \ {n} : \A g \in OrderFields : c.pool[k][g] = b.pool[k][g]
  BY DEF Entered, PoolEntered
<1>2. \A k \in Links \ {n} : c.pool[k].tick = b.pool[k].tick /\ c.pool[k].lots = b.pool[k].lots
  BY <1>1 DEF OrderFields
<1>3. c.pool[NIL] = b.pool[NIL] /\ c.anchor = b.anchor /\ c.pool[n].tick = tick /\ c.pool[n].lots = lots
  BY DEF Entered, PoolEntered
<1> QED BY <1>2, <1>3 DEF TickOf, LotsOf

LEMMA HousedEntered ==
  ASSUME NEW b, Housed(b), Seatwise(b), NEW n \in Nodes, n \notin Live(b), NEW side, NEW tick, NEW lots,
         NEW s \in SeatIds, NEW p, NEW m, NEW c, Entered(b, c, n, side, tick, lots, s, p, m),
         NextOrderId(b) # FreedSeq, InWindow(b, tick), lots > 0, OwnerOf(b, s) # Nobody
  PROVE  Housed(c)
<1>1. /\ Live(c) = Live(b) \cup {n} /\ MakerOf(c, n) = s
      /\ \A k \in Live(b) : MakerOf(c, k) = MakerOf(b, k)
  BY EnteredLive, EnteredMakers
<1>2. \A k \in Live(b) : k \in Links /\ MakerOf(b, k) \in SeatIds
  BY LiveNodes, BookAssumption DEF Nodes, Links, Seatwise
<1>3. \A k \in Live(b) : TickOf(c, k) = TickOf(b, k) /\ LotsOf(c, k) = LotsOf(b, k)
  BY <1>1, <1>2, EnteredOrderRead
<1>4. c.pool[NIL] = b.pool[NIL] /\ c.anchor = b.anchor /\ TickOf(c, n) = tick /\ LotsOf(c, n) = lots
  BY EnteredOrderRead
<1>5. \A r \in SeatIds : OwnerOf(c, r) = OwnerOf(b, r)
  BY EnteredSeatRead
<1> QED BY <1>1, <1>2, <1>3, <1>4, <1>5 DEF Housed, InWindow, LastTick

-----------------------------------------------------------------------------
(* Steps that leave every list alone                                       *)

\* What the lists are made of is the same, whatever became of sizes, expiries,
\* balances, owners, fees and counters.
Alike(b, c) ==
  /\ \A k \in Nodes : /\ PrevOf(c, k) = PrevOf(b, k) /\ NextOf(c, k) = NextOf(b, k)
                      /\ SideOf(c, k) = SideOf(b, k) /\ TickOf(c, k) = TickOf(b, k)
                      /\ MakerOf(c, k) = MakerOf(b, k) /\ ChainPrevOf(c, k) = ChainPrevOf(b, k)
                      /\ ChainNextOf(c, k) = ChainNextOf(b, k) /\ IsLive(c, k) = IsLive(b, k)
  /\ c.bits = b.bits
  /\ \A l \in Ring : HeadOf(c, l) = HeadOf(b, l) /\ TailOf(c, l) = TailOf(b, l)
  /\ \A l \in Ring : b.levels[l] = EmptyLevel => c.levels[l] = EmptyLevel
  /\ \A s \in SeatIds : FirstOf(c, s) = FirstOf(b, s) /\ CountOf(c, s) = CountOf(b, s)
  /\ c.freeHead = b.freeHead /\ c.freeCount = b.freeCount

LEMMA AlikeLives ==
  ASSUME NEW b, NEW c, Alike(b, c)
  PROVE  /\ Live(c) = Live(b) /\ \A s : LiveOf(c, s) = LiveOf(b, s)
         /\ \A k \in Nodes : PlaceOf(c, k) = PlaceOf(b, k) /\ SlotOf(c, k) = SlotOf(b, k)
<1>1. \A k \in Nodes : /\ IsLive(c, k) = IsLive(b, k) /\ MakerOf(c, k) = MakerOf(b, k)
                       /\ SideOf(c, k) = SideOf(b, k) /\ TickOf(c, k) = TickOf(b, k)
  BY DEF Alike
<1>2. \A a, k : PlaceOf(a, k) = (IF SideOf(a, k) = "bid" THEN TickOf(a, k) ELSE TickLimit + 1 + TickOf(a, k))
  BY DEF PlaceOf, SideOf, TickOf
<1>3. \A a, k : SlotOf(a, k) = Slot(TickOf(a, k))
  BY DEF SlotOf, TickOf
<1>4. Live(c) = Live(b)
  BY <1>1 DEF Live
<1>5. \A s : LiveOf(c, s) = LiveOf(b, s)
  BY <1>1, <1>4, LivesAre, LiveNodes
<1> QED BY <1>1, <1>2, <1>3, <1>4, <1>5

LEMMA LevelsAlike ==
  ASSUME NEW b, Ringed(b), NEW r, LevelsAt(b, r), NEW c, Alike(b, c)
  PROVE  LevelsAt(c, r)
<1>0. Live(b) \subseteq Nodes /\ NIL \notin Nodes
  BY LiveNodes, BookAssumption DEF NIL, Nodes
<1>1. /\ Live(c) = Live(b)
      /\ \A k \in Nodes : /\ PrevOf(c, k) = PrevOf(b, k) /\ NextOf(c, k) = NextOf(b, k)
                          /\ SideOf(c, k) = SideOf(b, k) /\ SlotOf(c, k) = SlotOf(b, k)
      /\ c.bits = b.bits
      /\ \A l \in Ring : HeadOf(c, l) = HeadOf(b, l) /\ TailOf(c, l) = TailOf(b, l)
      /\ \A l \in Ring : b.levels[l] = EmptyLevel => c.levels[l] = EmptyLevel
  BY AlikeLives DEF Alike
<1>2. \A m \in Nodes : \A d, l : Rests(c, m, d, l) = Rests(b, m, d, l)
  BY <1>1 DEF Rests
<1>3. ASSUME NEW n \in Live(b) PROVE Queued(c, r, n)
  <2>1. Queued(b, r, n) /\ n \in Nodes
    BY <1>0 DEF LevelsAt
  <2>2. SlotOf(b, n) \in Ring
    BY <2>1 DEF Ringed
  <2>3. /\ PrevOf(b, n) # NIL => PrevOf(b, n) \in Nodes
        /\ NextOf(b, n) # NIL => NextOf(b, n) \in Nodes
    BY <1>0, <2>1 DEF Queued, Mates, Rests
  <2>4. \A m \in Nodes : Mates(c, n, m) = Mates(b, n, m)
    BY <1>1, <1>2, <2>1 DEF Mates
  <2> QED BY <1>1, <2>1, <2>2, <2>3, <2>4 DEF Queued
<1>4. ASSUME NEW d \in Sides, NEW l \in c.bits[d] PROVE Served(c, d, l)
  <2>1. Served(b, d, l) /\ l \in Ring
    BY <1>1 DEF LevelsAt, Ringed
  <2>2. HeadOf(b, l) \in Nodes /\ TailOf(b, l) \in Nodes
    BY <1>0, <2>1 DEF Served, Rests
  <2> QED BY <1>1, <1>2, <2>1, <2>2 DEF Served
<1> QED BY <1>1, <1>3, <1>4 DEF LevelsAt

LEMMA ChainsAlike ==
  ASSUME NEW b, ChainsAt(b), Seatwise(b), NEW c, Alike(b, c)
  PROVE  ChainsAt(c)
<1>1. /\ Live(c) = Live(b) /\ \A s : LiveOf(c, s) = LiveOf(b, s) /\ Live(b) \subseteq Nodes
      /\ \A s : LiveOf(b, s) \subseteq Nodes
      /\ \A k \in Nodes : /\ PlaceOf(c, k) = PlaceOf(b, k) /\ MakerOf(c, k) = MakerOf(b, k)
                          /\ ChainPrevOf(c, k) = ChainPrevOf(b, k) /\ ChainNextOf(c, k) = ChainNextOf(b, k)
      /\ \A s \in SeatIds : FirstOf(c, s) = FirstOf(b, s)
  BY AlikeLives, LiveNodes, LivesFinite DEF Alike
<1>2. \A s, x, p : Foregoes(b, s, x, p) => Foregoes(c, s, x, p)
  BY <1>1 DEF Foregoes
<1>3. \A s, x, p : Follows(b, s, x, p) => Follows(c, s, x, p)
  BY <1>1 DEF Follows
<1>4. Distinct(c)
  BY <1>1 DEF ChainsAt, Distinct
<1> QED BY <1>1, <1>2, <1>3, <1>4 DEF ChainsAt

LEMMA FreeAlike ==
  ASSUME NEW b, FreeAt(b), NEW c, Alike(b, c)
  PROVE  FreeAt(c)
<1>1. Unused(c) = Unused(b) /\ Unused(b) \subseteq Nodes
  BY AlikeLives DEF Unused
<1>2. /\ c.freeHead = b.freeHead /\ c.freeCount = b.freeCount
      /\ \A k \in Nodes : NextOf(c, k) = NextOf(b, k)
  BY DEF Alike
<1>3. \A q, k : FreeChain(b, q, k) => FreeChain(c, q, k)
  BY <1>1, <1>2 DEF FreeChain
<1> QED BY <1>1, <1>2, <1>3 DEF FreeAt

LEMMA CountedAlike ==
  ASSUME NEW b, Counted(b), NEW c, Alike(b, c)
  PROVE  Counted(c)
BY AlikeLives DEF Counted, Alike

LEMMA HousedAlike ==
  ASSUME NEW b, Housed(b), Seatwise(b), NEW c, Alike(b, c), c.anchor = b.anchor, c.pool[NIL] = b.pool[NIL],
         \A k \in Live(b) : LotsOf(c, k) > 0 /\ OwnerOf(c, MakerOf(b, k)) # Nobody
  PROVE  Housed(c)
<1>1. Live(c) = Live(b) /\ \A k \in Live(b) : MakerOf(c, k) = MakerOf(b, k) /\ TickOf(c, k) = TickOf(b, k)
  BY AlikeLives, LiveNodes DEF Alike
<1> QED BY <1>1 DEF Housed, InWindow, LastTick

(***************************************************************************)
(* The sums the book keeps: the lots of each level, and what each seat has *)
(* locked; and the order of the ages along a level.                        *)
(***************************************************************************)
\* The lots of every node, to be added up.
Sizes(b) == [n \in Nodes |-> LotsOf(b, n)]

TotalOf(b, l) == b.levels[l].total

\* The orders of side d at ring position l.
Queue(b, d, l) == {n \in Live(b) : SideOf(b, n) = d /\ SlotOf(b, n) = l}

\* Every level's total is exact.
Tallied(b) ==
  \A d \in Sides : \A l \in b.bits[d] : TotalOf(b, l) = SumOver(Sizes(b), Queue(b, d, l))

LEMMA QueueFinite ==
  \A b, d, l : IsFiniteSet(Queue(b, d, l)) /\ Queue(b, d, l) \subseteq Nodes
<1> SUFFICES ASSUME NEW b, NEW d, NEW l PROVE IsFiniteSet(Queue(b, d, l)) /\ Queue(b, d, l) \subseteq Nodes
  OBVIOUS
<1>1. IsFiniteSet(Nodes)
  BY FS_Interval, BookAssumption DEF Nodes
<1>2. Queue(b, d, l) \subseteq Nodes
  BY LiveNodes DEF Queue
<1> QED BY <1>1, <1>2, FS_Subset

LEMMA SizesNat == ASSUME NEW b \in Book PROVE \A n \in Nodes : LotsOf(b, n) \in Nat /\ Sizes(b)[n] = LotsOf(b, n)
<1> SUFFICES ASSUME NEW n \in Nodes PROVE LotsOf(b, n) \in Nat
  BY DEF Sizes
<1>1. n \in Links
  BY BookAssumption DEF Nodes, Links
<1> QED BY <1>1, NodeType DEF LotsOf

\* Lists that hold the same orders add up to the same.
LEMMA SameTally ==
  ASSUME NEW b \in Book, NEW c, NEW S, IsFiniteSet(S), S \subseteq Nodes, \A k \in S : LotsOf(c, k) = LotsOf(b, k)
  PROVE  SumOver(Sizes(c), S) = SumOver(Sizes(b), S)
<1>1. \A k \in S : Sizes(b)[k] \in Int /\ Sizes(b)[k] = Sizes(c)[k]
  BY SizesNat DEF Sizes
<1> QED BY <1>1, SumOverSame

LEMMA TalliedEnded ==
  ASSUME NEW b \in Book, NEW r, LevelsAt(b, r), Tallied(b), NEW n \in Live(b), NEW c, Ended(b, c, n)
  PROVE  Tallied(c)
<1> DEFINE d0 == SideOf(b, n)
           l0 == SlotOf(b, n)
           head == IF PrevOf(b, n) = NIL THEN NextOf(b, n) ELSE HeadOf(b, l0)
<1>1. n \in Nodes /\ Live(b) \subseteq Nodes /\ FreedSeq \in Nat /\ Nodes \subseteq Links
      /\ d0 \in Sides /\ l0 \in Ring /\ \A d \in Sides : b.bits[d] \subseteq Ring
  BY LiveNodes, BookRinged, BookAssumption DEF Ringed, Nodes, Links
<1>2. /\ Live(c) = Live(b) \ {n}
      /\ \A k \in Nodes : k # n => SideOf(c, k) = SideOf(b, k) /\ SlotOf(c, k) = SlotOf(b, k)
  BY <1>1, EndedRead
<1>3. \A k \in Nodes : k # n => LotsOf(c, k) = LotsOf(b, k)
  BY <1>1, EndedOrderRead
<1>4. /\ \A m \in Ring \ {l0} : c.levels[m] = b.levels[m]
      /\ IF head = NIL
         THEN \A d \in Sides : c.bits[d] = IF d = d0 THEN b.bits[d] \ {l0} ELSE b.bits[d]
         ELSE c.bits = b.bits
  BY <1>1, EndedLevelRead
<1>5. head # NIL => TotalOf(c, l0) = TotalOf(b, l0) - LotsOf(b, n)
  BY DEF Ended, LevelEnded, HeadPast, SlotOf, PrevOf, NextOf, HeadOf, TotalOf, LotsOf
<1>6. l0 \in b.bits[d0]
  BY DEF LevelsAt, Queued
<1> HIDE DEF d0, l0, head
<1>7. ASSUME NEW d \in Sides, NEW l \in c.bits[d]
      PROVE  TotalOf(c, l) = SumOver(Sizes(c), Queue(c, d, l))
  <2>1. l \in b.bits[d] /\ l \in Ring
    BY <1>1, <1>4
  <2>2. TotalOf(b, l) = SumOver(Sizes(b), Queue(b, d, l))
    BY <2>1 DEF Tallied
  <2>3. Queue(c, d, l) = Queue(b, d, l) \ {n}
    BY <1>1, <1>2 DEF Queue
  <2>4. SumOver(Sizes(c), Queue(c, d, l)) = SumOver(Sizes(b), Queue(c, d, l))
    <3>1. \A k \in Queue(c, d, l) : LotsOf(c, k) = LotsOf(b, k)
      BY <1>3, <2>3, QueueFinite
    <3> QED BY <3>1, SameTally, QueueFinite
  <2>5. CASE l = l0
    <3>1. d = d0
      BY <1>1, <1>6, <2>1, <2>5, OneSide
    <3>2. head # NIL
      BY <1>4, <2>5, <3>1
    <3>3. n \in Queue(b, d, l)
      BY <2>5, <3>1 DEF Queue, d0, l0
    <3>4. \A k \in Queue(b, d, l) : Sizes(b)[k] \in Nat
      BY SizesNat, QueueFinite
    <3>5. SumOver(Sizes(b), Queue(b, d, l)) = Sizes(b)[n] + SumOver(Sizes(b), Queue(b, d, l) \ {n})
      BY <3>3, <3>4, SumOverTake, QueueFinite
    <3>6. SumOver(Sizes(b), Queue(b, d, l) \ {n}) \in Int
      <4>1. IsFiniteSet(Queue(b, d, l) \ {n})
        BY QueueFinite, FS_Subset
      <4> QED BY <3>4, <4>1, SumOverInt
    <3>7. Sizes(b)[n] = LotsOf(b, n) /\ LotsOf(b, n) \in Nat
      BY <1>1, SizesNat
    <3> QED BY <1>5, <2>2, <2>3, <2>4, <2>5, <3>2, <3>5, <3>6, <3>7
  <2>6. CASE l # l0
    <3>1. TotalOf(c, l) = TotalOf(b, l)
      BY <1>4, <2>1, <2>6 DEF TotalOf
    <3>2. n \notin Queue(b, d, l)
      BY <2>6 DEF Queue, l0
    <3>3. Queue(c, d, l) = Queue(b, d, l)
      BY <2>3, <3>2
    <3> QED BY <2>2, <2>4, <3>1, <3>3
  <2> QED BY <2>5, <2>6
<1> QED BY <1>7 DEF Tallied

LEMMA TalliedEntered ==
  ASSUME NEW b \in Book, NEW r, LevelsAt(b, r), Tallied(b), NEW n \in Nodes, n \notin Live(b),
         NEW side \in Sides, NEW tick, Slot(tick) \in Ring, Slot(tick) \notin b.bits[Opposite(side)],
         NextOrderId(b) # FreedSeq, NEW lots \in Nat,
         NEW c, NEW s, NEW p, NEW m, Entered(b, c, n, side, tick, lots, s, p, m)
  PROVE  Tallied(c)
<1> DEFINE l0 == Slot(tick)
<1>1. /\ Live(b) \subseteq Nodes /\ Nodes \subseteq Links /\ \A d \in Sides : b.bits[d] \subseteq Ring
      /\ \A d \in Sides : d # side => d = Opposite(side)
  BY LiveNodes, BookRinged, BookAssumption DEF Ringed, Nodes, Links, Sides, Opposite
<1>2. /\ Live(c) = Live(b) \cup {n}
      /\ \A k \in Nodes : k # n => SideOf(c, k) = SideOf(b, k) /\ SlotOf(c, k) = SlotOf(b, k)
      /\ SideOf(c, n) = side /\ SlotOf(c, n) = l0
  BY EnteredRead
<1>3. LotsOf(c, n) = lots /\ \A k \in Nodes : k # n => LotsOf(c, k) = LotsOf(b, k)
  BY <1>1, EnteredOrderRead
<1>4. /\ \A k \in Ring \ {l0} : c.levels[k] = b.levels[k]
      /\ \A d \in Sides : c.bits[d] = IF d = side THEN b.bits[d] \cup {l0} ELSE b.bits[d]
  BY EnteredLevelRead
<1>5. TotalOf(c, l0) = TotalOf(b, l0) + lots
  BY DEF Entered, LevelEntered, TotalOf
<1>6. /\ \A k \in Live(b) : SlotOf(b, k) \in b.bits[SideOf(b, k)]
      /\ \A l \in Ring : l \notin b.bits["bid"] /\ l \notin b.bits["ask"] => b.levels[l] = EmptyLevel
  BY DEF LevelsAt, Queued
<1> HIDE DEF l0
<1>7. ASSUME NEW d \in Sides, NEW l \in c.bits[d]
      PROVE  TotalOf(c, l) = SumOver(Sizes(c), Queue(c, d, l))
  <2>1. CASE l = l0
    <3>1. d = side
      BY <1>1, <1>4, <2>1 DEF l0
    <3>2. Queue(c, d, l) = Queue(b, d, l) \cup {n} /\ n \notin Queue(b, d, l)
      BY <1>1, <1>2, <2>1, <3>1 DEF Queue
    <3>3. TotalOf(b, l) = SumOver(Sizes(b), Queue(b, d, l))
      <4>1. CASE l \in b.bits[d]
        BY <4>1 DEF Tallied
      <4>2. CASE l \notin b.bits[d]
        <5>1. Queue(b, d, l) = {}
          BY <1>6, <4>2 DEF Queue
        <5>2. l \notin b.bits["bid"] /\ l \notin b.bits["ask"]
          BY <1>1, <2>1, <3>1, <4>2 DEF Sides, l0
        <5>3. TotalOf(b, l) = 0
          BY <1>6, <2>1, <5>2 DEF TotalOf, EmptyLevel, l0
        <5>4. SumOver(Sizes(b), {}) = 0
          BY SumOverStep, FS_EmptySet
        <5> QED BY <5>1, <5>3, <5>4
      <4> QED BY <4>1, <4>2
    <3>4. SumOver(Sizes(c), Queue(b, d, l)) = SumOver(Sizes(b), Queue(b, d, l))
      <4>1. \A k \in Queue(b, d, l) : LotsOf(c, k) = LotsOf(b, k)
        BY <1>3, <3>2, QueueFinite
      <4> QED BY <4>1, SameTally, QueueFinite
    <3>5. \A k \in Queue(b, d, l) \cup {n} : Sizes(c)[k] \in Int
      BY <1>3, <3>2, SizesNat, QueueFinite DEF Sizes
    <3>6. SumOver(Sizes(c), Queue(b, d, l) \cup {n}) = Sizes(c)[n] + SumOver(Sizes(c), Queue(b, d, l))
      BY <3>2, <3>5, SumOverAdd, QueueFinite
    <3>7. SumOver(Sizes(b), Queue(b, d, l)) \in Int /\ Sizes(c)[n] = lots
      <4>1. \A k \in Queue(b, d, l) : Sizes(b)[k] \in Int
        BY SizesNat, QueueFinite
      <4> QED BY <1>3, <4>1, SumOverInt, QueueFinite DEF Sizes
    <3> QED BY <1>5, <2>1, <3>2, <3>3, <3>4, <3>6, <3>7
  <2>2. CASE l # l0
    <3>1. l \in b.bits[d] /\ l \in Ring
      BY <1>1, <1>4, <2>2
    <3>2. TotalOf(c, l) = TotalOf(b, l)
      BY <1>4, <2>2, <3>1 DEF TotalOf
    <3>3. Queue(c, d, l) = Queue(b, d, l) /\ n \notin Queue(b, d, l)
      BY <1>1, <1>2, <2>2 DEF Queue
    <3>4. SumOver(Sizes(c), Queue(b, d, l)) = SumOver(Sizes(b), Queue(b, d, l))
      <4>1. \A k \in Queue(b, d, l) : LotsOf(c, k) = LotsOf(b, k)
        BY <1>3, <3>3, QueueFinite
      <4> QED BY <4>1, SameTally, QueueFinite
    <3> QED BY <3>1, <3>2, <3>3, <3>4 DEF Tallied
  <2> QED BY <2>1, <2>2
<1> QED BY <1>7 DEF Tallied

\* An order that is sized down leaves its level's total as much smaller.
LEMMA TalliedResized ==
  ASSUME NEW b \in Book, NEW r, LevelsAt(b, r), Tallied(b), NEW n \in Live(b), NEW lots \in Nat,
         NEW c, Resized(b, c, n, lots), Live(c) = Live(b),
         \A k \in Nodes : SideOf(c, k) = SideOf(b, k) /\ SlotOf(c, k) = SlotOf(b, k)
  PROVE  Tallied(c)
<1> DEFINE l0 == SlotOf(b, n)
<1>1. n \in Nodes /\ Live(b) \subseteq Nodes /\ Nodes \subseteq Links /\ l0 \in Ring
      /\ \A d \in Sides : b.bits[d] \subseteq Ring
  BY LiveNodes, BookRinged, BookAssumption DEF Ringed, Nodes, Links
<1>2. c.bits = b.bits
  BY DEF Resized, But, BookFields
<1>3. LotsOf(c, n) = lots /\ \A k \in Nodes : k # n => LotsOf(c, k) = LotsOf(b, k)
  BY <1>1 DEF Resized, LotsOf
<1>4. /\ \A l \in Ring : l # l0 => TotalOf(c, l) = TotalOf(b, l)
      /\ TotalOf(c, l0) = TotalOf(b, l0) + (lots - LotsOf(b, n))
  BY DEF Resized, TotalOf, LotsOf, SlotOf
<1> HIDE DEF l0
<1>5. ASSUME NEW d \in Sides, NEW l \in c.bits[d]
      PROVE  TotalOf(c, l) = SumOver(Sizes(c), Queue(c, d, l))
  <2>1. l \in b.bits[d] /\ l \in Ring /\ TotalOf(b, l) = SumOver(Sizes(b), Queue(b, d, l))
    BY <1>1, <1>2 DEF Tallied
  <2>2. Queue(c, d, l) = Queue(b, d, l)
    BY <1>1 DEF Queue
  <2>3. \A k \in Queue(b, d, l) : Sizes(b)[k] \in Int /\ Sizes(c)[k] \in Int
    BY <1>3, SizesNat, QueueFinite DEF Sizes
  <2>4. CASE n \in Queue(b, d, l)
    <3>1. l = l0
      BY <2>4 DEF Queue, l0
    <3>2. \A k \in Queue(b, d, l) \ {n} : Sizes(c)[k] = Sizes(b)[k]
      BY <1>3, QueueFinite DEF Sizes
    <3>3. SumOver(Sizes(c), Queue(b, d, l)) = SumOver(Sizes(b), Queue(b, d, l)) - Sizes(b)[n] + Sizes(c)[n]
      BY <2>3, <2>4, <3>2, SumOverChange, QueueFinite
    <3>4. Sizes(b)[n] = LotsOf(b, n) /\ Sizes(c)[n] = lots /\ LotsOf(b, n) \in Nat
      BY <1>1, <1>3, SizesNat DEF Sizes
    <3>5. SumOver(Sizes(b), Queue(b, d, l)) \in Int
      BY <2>3, SumOverInt, QueueFinite
    <3> QED BY <1>4, <2>1, <2>2, <3>1, <3>3, <3>4, <3>5
  <2>5. CASE n \notin Queue(b, d, l)
    <3>1. l # l0
      <4>1. l = l0 => d = SideOf(b, n)
        <5>1. SlotOf(b, n) \in b.bits[SideOf(b, n)] /\ SideOf(b, n) \in Sides
          BY <1>1, BookRinged DEF LevelsAt, Queued, Ringed
        <5> QED BY <2>1, <5>1, OneSide DEF l0
      <4> QED BY <2>5, <4>1 DEF Queue, l0
    <3>2. SumOver(Sizes(c), Queue(b, d, l)) = SumOver(Sizes(b), Queue(b, d, l))
      <4>1. \A k \in Queue(b, d, l) : LotsOf(c, k) = LotsOf(b, k)
        BY <1>3, <2>5, QueueFinite
      <4> QED BY <4>1, SameTally, QueueFinite
    <3> QED BY <1>4, <2>1, <2>2, <3>1, <3>2
  <2> QED BY <2>4, <2>5
<1> QED BY <1>5 DEF Tallied

(* What the seats have locked                                              *)

LockedOf(b, s, a) == b.seats[s].locked[a]

\* What each node's order locks of asset a, to be added up.
LockOf(b, n, a) == IF LockedAsset(SideOf(b, n)) = a THEN LockedAtoms(SideOf(b, n), TickOf(b, n), LotsOf(b, n)) ELSE 0
LocksFor(b, a)  == [n \in Nodes |-> LockOf(b, n, a)]

\* Every seat has locked what its orders lock.
Secured(b) ==
  \A s \in SeatIds : \A a \in Assets : LockedOf(b, s, a) = SumOver(LocksFor(b, a), LiveOf(b, s))

\* What seat s has locked of asset a grows by x, and no other lock differs.
LockMoved(b, c, s, a, x) ==
  \A r \in SeatIds : \A e \in Assets :
    LockedOf(c, r, e) = LockedOf(b, r, e) + IF r = s /\ e = a THEN x ELSE 0

LEMMA LocksAre ==
  ASSUME NEW b \in Book
  PROVE  /\ \A n \in Nodes : \A a : LocksFor(b, a)[n] = LockOf(b, n, a) /\ LockOf(b, n, a) \in Int
         /\ \A s \in SeatIds : \A a \in Assets : LockedOf(b, s, a) \in Nat
<1>1. ASSUME NEW n \in Nodes, NEW a PROVE LockOf(b, n, a) \in Int
  <2>1. n \in Links
    BY BookAssumption DEF Nodes, Links
  <2>2. TickOf(b, n) \in Nat /\ LotsOf(b, n) \in Nat
    BY <2>1, NodeType, BookAssumption DEF TickOf, LotsOf
  <2>3. TickSize \in Int /\ BaseLotSize \in Int
    BY BookAssumption
  <2>4. \A x, y \in Int : x * y \in Int
    OBVIOUS
  <2>5. TickOf(b, n) * TickSize * LotsOf(b, n) \in Int /\ BaseLotSize * LotsOf(b, n) \in Int
    BY <2>2, <2>3, <2>4
  <2> QED BY <2>5 DEF LockOf, LockedAtoms, Notional
<1>2. ASSUME NEW s \in SeatIds, NEW a \in Assets PROVE LockedOf(b, s, a) \in Nat
  BY DEF Book, Seat, LockedOf
<1> QED BY <1>1, <1>2 DEF LocksFor

LEMMA SameLocks ==
  ASSUME NEW b \in Book, NEW c, NEW S, IsFiniteSet(S), S \subseteq Nodes,
         \A k \in S : SideOf(c, k) = SideOf(b, k) /\ TickOf(c, k) = TickOf(b, k) /\ LotsOf(c, k) = LotsOf(b, k)
  PROVE  \A a : SumOver(LocksFor(c, a), S) = SumOver(LocksFor(b, a), S) /\ SumOver(LocksFor(b, a), S) \in Int
<1> SUFFICES ASSUME NEW a
             PROVE  SumOver(LocksFor(c, a), S) = SumOver(LocksFor(b, a), S) /\ SumOver(LocksFor(b, a), S) \in Int
  OBVIOUS
<1>1. \A k \in S : LocksFor(b, a)[k] \in Int /\ LocksFor(b, a)[k] = LocksFor(c, a)[k]
  BY LocksAre DEF LocksFor, LockOf
<1> QED BY <1>1, SumOverSame, SumOverInt

LEMMA SecuredEnded ==
  ASSUME NEW b \in Book, Secured(b), NEW n \in Live(b), NEW c, Ended(b, c, n),
         LockMoved(b, c, MakerOf(b, n), LockedAsset(SideOf(b, n)),
                   -LockedAtoms(SideOf(b, n), TickOf(b, n), LotsOf(b, n)))
  PROVE  Secured(c)
<1>1. n \in Nodes /\ Nodes \subseteq Links /\ FreedSeq \in Nat
  BY LiveNodes, BookAssumption DEF Nodes, Links
<1>2. \A s : LiveOf(c, s) = LiveOf(b, s) \ {n}
  BY BookSeatwise, EndedLives
<1>3. \A k \in Nodes : k # n => /\ SideOf(c, k) = SideOf(b, k) /\ TickOf(c, k) = TickOf(b, k)
                                /\ LotsOf(c, k) = LotsOf(b, k)
  BY <1>1, EndedRead, EndedOrderRead
<1> SUFFICES ASSUME NEW s \in SeatIds, NEW a \in Assets
             PROVE  LockedOf(c, s, a) = SumOver(LocksFor(c, a), LiveOf(c, s))
  BY DEF Secured
<1> DEFINE x == LockOf(b, n, a)
<1>4. LockedOf(b, s, a) = SumOver(LocksFor(b, a), LiveOf(b, s)) /\ LockedOf(b, s, a) \in Nat
  BY LocksAre DEF Secured
<1>5. LockedOf(c, s, a) = LockedOf(b, s, a) - IF s = MakerOf(b, n) THEN x ELSE 0
  BY <1>1, <1>4, LocksAre DEF LockMoved, LockOf
<1>6. x \in Int /\ LocksFor(b, a)[n] = x
  BY <1>1, LocksAre
<1> HIDE DEF x
<1>7. IsFiniteSet(LiveOf(b, s)) /\ LiveOf(b, s) \subseteq Nodes /\ IsFiniteSet(LiveOf(c, s))
  BY LivesFinite
<1>8. SumOver(LocksFor(c, a), LiveOf(c, s)) = SumOver(LocksFor(b, a), LiveOf(c, s))
      /\ SumOver(LocksFor(b, a), LiveOf(c, s)) \in Int
  BY <1>2, <1>3, <1>7, SameLocks
<1>9. CASE s = MakerOf(b, n)
  <2>1. n \in LiveOf(b, s)
    BY <1>9, LivesAre
  <2>2. \A k \in LiveOf(b, s) : LocksFor(b, a)[k] \in Int
    BY <1>7, LocksAre
  <2>3. SumOver(LocksFor(b, a), LiveOf(b, s)) = LocksFor(b, a)[n] + SumOver(LocksFor(b, a), LiveOf(b, s) \ {n})
    BY <1>7, <2>1, <2>2, SumOverTake
  <2>4. LiveOf(c, s) = LiveOf(b, s) \ {n}
    BY <1>2
  <2>5. LockedOf(c, s, a) = LockedOf(b, s, a) - x
    BY <1>5, <1>9
  <2> QED BY <1>4, <1>6, <1>8, <2>3, <2>4, <2>5
<1>10. CASE s # MakerOf(b, n)
  <2>1. n \notin LiveOf(b, s)
    BY <1>10, LivesAre
  <2>2. LiveOf(c, s) = LiveOf(b, s)
    BY <1>2, <2>1
  <2> QED BY <1>4, <1>5, <1>8, <1>10, <2>2
<1> QED BY <1>9, <1>10

LEMMA SecuredEntered ==
  ASSUME NEW b \in Book, Secured(b), NEW n \in Nodes, n \notin Live(b), NextOrderId(b) # FreedSeq,
         NEW side \in Sides, NEW tick \in Nat, NEW lots \in Nat, NEW s \in SeatIds, NEW p, NEW m, NEW c,
         Entered(b, c, n, side, tick, lots, s, p, m),
         LockMoved(b, c, s, LockedAsset(side), LockedAtoms(side, tick, lots))
  PROVE  Secured(c)
<1>1. Nodes \subseteq Links /\ Live(b) \subseteq Nodes
  BY LiveNodes, BookAssumption DEF Nodes, Links
<1>2. /\ LiveOf(c, s) = LiveOf(b, s) \cup {n} /\ \A r : r # s => LiveOf(c, r) = LiveOf(b, r)
      /\ \A r : n \notin LiveOf(b, r)
  BY BookSeatwise, EnteredLives, LivesAre
<1>3. /\ \A k \in Nodes : k # n => /\ SideOf(c, k) = SideOf(b, k) /\ TickOf(c, k) = TickOf(b, k)
                                   /\ LotsOf(c, k) = LotsOf(b, k)
      /\ SideOf(c, n) = side /\ TickOf(c, n) = tick /\ LotsOf(c, n) = lots
  BY <1>1, EnteredRead, EnteredOrderRead
<1> SUFFICES ASSUME NEW r \in SeatIds, NEW a \in Assets
             PROVE  LockedOf(c, r, a) = SumOver(LocksFor(c, a), LiveOf(c, r))
  BY DEF Secured
<1> DEFINE x == LockOf(c, n, a)
<1>4. LockedOf(b, r, a) = SumOver(LocksFor(b, a), LiveOf(b, r)) /\ LockedOf(b, r, a) \in Nat
  BY LocksAre DEF Secured
<1>5. LockedOf(c, r, a) = LockedOf(b, r, a) + IF r = s THEN x ELSE 0
  BY <1>3, <1>4 DEF LockMoved, LockOf
<1>6. x \in Int /\ LocksFor(c, a)[n] = x
  <2>1. TickSize \in Int /\ BaseLotSize \in Int /\ \A y, z \in Int : y * z \in Int
    BY BookAssumption
  <2>2. tick * TickSize * lots \in Int /\ BaseLotSize * lots \in Int
    BY <2>1
  <2> QED BY <1>3, <2>2 DEF LockOf, LockedAtoms, Notional, LocksFor
<1> HIDE DEF x
<1>7. IsFiniteSet(LiveOf(b, r)) /\ LiveOf(b, r) \subseteq Nodes
  BY LivesFinite
<1>8. SumOver(LocksFor(c, a), LiveOf(b, r)) = SumOver(LocksFor(b, a), LiveOf(b, r))
      /\ SumOver(LocksFor(b, a), LiveOf(b, r)) \in Int
  <2>1. \A k \in LiveOf(b, r) : /\ SideOf(c, k) = SideOf(b, k) /\ TickOf(c, k) = TickOf(b, k)
                                /\ LotsOf(c, k) = LotsOf(b, k)
    BY <1>2, <1>3, <1>7
  <2> QED BY <1>7, <2>1, SameLocks
<1>9. CASE r = s
  <2>1. \A k \in LiveOf(b, r) \cup {n} : LocksFor(c, a)[k] \in Int
    <3>1. \A k \in LiveOf(b, r) : LocksFor(c, a)[k] = LocksFor(b, a)[k] /\ LocksFor(b, a)[k] \in Int
      BY <1>2, <1>3, <1>7, LocksAre DEF LocksFor, LockOf
    <3> QED BY <1>6, <3>1
  <2>2. SumOver(LocksFor(c, a), LiveOf(b, r) \cup {n}) = LocksFor(c, a)[n] + SumOver(LocksFor(c, a), LiveOf(b, r))
    BY <1>2, <1>7, <2>1, SumOverAdd
  <2>3. LiveOf(c, r) = LiveOf(b, r) \cup {n}
    BY <1>2, <1>9
  <2>4. LockedOf(c, r, a) = LockedOf(b, r, a) + x
    BY <1>5, <1>9
  <2> QED BY <1>4, <1>6, <1>8, <2>2, <2>3, <2>4
<1>10. CASE r # s
  BY <1>2, <1>4, <1>5, <1>8, <1>10
<1> QED BY <1>9, <1>10

\* An order that is sized down unlocks the difference.
LEMMA SecuredResized ==
  ASSUME NEW b \in Book, Secured(b), NEW n \in Live(b), NEW lots \in Nat,
         NEW c, \A s : LiveOf(c, s) = LiveOf(b, s),
         \A k \in Nodes : SideOf(c, k) = SideOf(b, k) /\ TickOf(c, k) = TickOf(b, k),
         LotsOf(c, n) = lots, \A k \in Nodes : k # n => LotsOf(c, k) = LotsOf(b, k),
         LockMoved(b, c, MakerOf(b, n), LockedAsset(SideOf(b, n)),
                   LockedAtoms(SideOf(b, n), TickOf(b, n), lots)
                   - LockedAtoms(SideOf(b, n), TickOf(b, n), LotsOf(b, n)))
  PROVE  Secured(c)
<1>1. n \in Nodes /\ Live(b) \subseteq Nodes /\ Nodes \subseteq Links
  BY LiveNodes, BookAssumption DEF Nodes, Links
<1> SUFFICES ASSUME NEW s \in SeatIds, NEW a \in Assets
             PROVE  LockedOf(c, s, a) = SumOver(LocksFor(c, a), LiveOf(c, s))
  BY DEF Secured
<1> DEFINE x == LockOf(b, n, a)
           y == LockOf(c, n, a)
<1>2. LockedOf(b, s, a) = SumOver(LocksFor(b, a), LiveOf(b, s)) /\ LockedOf(b, s, a) \in Nat
  BY LocksAre DEF Secured
<1>3. x \in Int /\ y \in Int /\ LocksFor(b, a)[n] = x /\ LocksFor(c, a)[n] = y
  <2>1. TickSize \in Int /\ BaseLotSize \in Int /\ \A j, k \in Int : j * k \in Int
    BY BookAssumption
  <2>2. n \in Links
    BY <1>1
  <2>3. TickOf(b, n) \in Int
    BY <2>2, NodeType, BookAssumption DEF TickOf
  <2>4. TickOf(b, n) * TickSize * lots \in Int /\ BaseLotSize * lots \in Int
    BY <2>1, <2>3
  <2>5. x \in Int /\ LocksFor(b, a)[n] = x
    BY <1>1, LocksAre
  <2> QED BY <1>1, <2>4, <2>5 DEF LockOf, LockedAtoms, Notional, LocksFor
<1>4. LockedOf(c, s, a) = LockedOf(b, s, a) + IF s = MakerOf(b, n) THEN y - x ELSE 0
  BY <1>1, <1>2, <1>3 DEF LockMoved, LockOf
<1> HIDE DEF x, y
<1>5. IsFiniteSet(LiveOf(b, s)) /\ LiveOf(b, s) \subseteq Nodes
  BY LivesFinite
<1>6. \A k \in LiveOf(b, s) : LocksFor(b, a)[k] \in Int
  BY <1>5, LocksAre
<1>7. \A k \in LiveOf(b, s) : k # n => LocksFor(c, a)[k] = LocksFor(b, a)[k]
  BY <1>5 DEF LocksFor, LockOf
<1>8. \A k \in LiveOf(b, s) : LocksFor(c, a)[k] \in Int
  BY <1>3, <1>6, <1>7
<1>9. CASE s = MakerOf(b, n)
  <2>1. n \in LiveOf(b, s)
    BY <1>9, LivesAre
  <2>2. SumOver(LocksFor(c, a), LiveOf(b, s)) = SumOver(LocksFor(b, a), LiveOf(b, s)) - LocksFor(b, a)[n] + LocksFor(c, a)[n]
    BY <1>5, <1>6, <1>7, <1>8, <2>1, SumOverChange
  <2>3. LockedOf(c, s, a) = LockedOf(b, s, a) + (y - x)
    BY <1>4, <1>9
  <2> QED BY <1>2, <1>3, <2>2, <2>3
<1>10. CASE s # MakerOf(b, n)
  <2>1. n \notin LiveOf(b, s)
    BY <1>10, LivesAre
  <2>2. SumOver(LocksFor(c, a), LiveOf(b, s)) = SumOver(LocksFor(b, a), LiveOf(b, s))
    BY <1>5, <1>6, <1>7, <2>1, SumOverSame
  <2>3. LockedOf(c, s, a) = LockedOf(b, s, a) + 0
    BY <1>4, <1>10
  <2> QED BY <1>2, <2>2, <2>3
<1> QED BY <1>9, <1>10

(* What each operation does to the locks                                   *)

LEMMA MovedSame ==
  ASSUME NEW a, NEW b, NEW c, NEW s, NEW e, NEW x
  PROVE  /\ SameFunds(a, b) /\ LockMoved(b, c, s, e, x) => LockMoved(a, c, s, e, x)
         /\ LockMoved(a, b, s, e, x) /\ SameFunds(b, c) => LockMoved(a, c, s, e, x)
BY DEF SameFunds, LockMoved, LockedOf

\* A balance written to.
LEMMA BalanceMoves ==
  ASSUME NEW b, Banked(b), NEW s \in SeatIds, NEW a \in Assets, NEW x \in Int,
         \A r \in SeatIds : b.seats[r].locked \in [Assets -> Int]
  PROVE  /\ \A e, y : /\ Banked(SetFree(b, s, e, y))
                      /\ \A r \in SeatIds : SetFree(b, s, e, y).seats[r].locked = b.seats[r].locked
         /\ Banked(SetLocked(b, s, a, b.seats[s].locked[a] + x))
         /\ \A r \in SeatIds : SetLocked(b, s, a, b.seats[s].locked[a] + x).seats[r].locked \in [Assets -> Int]
         /\ LockMoved(b, SetLocked(b, s, a, b.seats[s].locked[a] + x), s, a, x)
<1>1. ASSUME NEW e, NEW y
      PROVE  /\ Banked(SetFree(b, s, e, y))
             /\ \A r \in SeatIds : SetFree(b, s, e, y).seats[r].locked = b.seats[r].locked
  BY DEF SetFree, Banked
<1> DEFINE z == b.seats[s].locked[a] + x
           c == SetLocked(b, s, a, z)
<1>2. z \in Int
  OBVIOUS
<1>3. Banked(c) /\ \A r \in SeatIds : c.seats[r].locked = IF r = s THEN [b.seats[r].locked EXCEPT ![a] = z]
                                                          ELSE b.seats[r].locked
  <2> HIDE DEF z
  <2> QED BY DEF SetLocked, Banked
<1> HIDE DEF c
<1>4. \A r \in SeatIds : c.seats[r].locked \in [Assets -> Int]
  <2> HIDE DEF z
  <2> QED BY <1>2, <1>3
<1>5. LockMoved(b, c, s, a, x)
  <2> SUFFICES ASSUME NEW r \in SeatIds, NEW e \in Assets
               PROVE  LockedOf(c, r, e) = LockedOf(b, r, e) + IF r = s /\ e = a THEN x ELSE 0
    BY DEF LockMoved
  <2>1. c.seats[r].locked = IF r = s THEN [b.seats[r].locked EXCEPT ![a] = z] ELSE b.seats[r].locked
    BY <1>3
  <2>2. b.seats[r].locked \in [Assets -> Int] /\ b.seats[r].locked[e] \in Int
    OBVIOUS
  <2>3. CASE r = s /\ e = a
    BY <2>1, <2>2, <2>3 DEF LockedOf
  <2>4. CASE ~(r = s /\ e = a)
    <3>1. c.seats[r].locked[e] = b.seats[r].locked[e]
      <4> HIDE DEF z
      <4> QED BY <2>1, <2>2, <2>4
    <3> QED BY <2>2, <2>4, <3>1 DEF LockedOf
  <2> QED BY <2>3, <2>4
<1> QED BY <1>1, <1>3, <1>4, <1>5 DEF c

LEMMA LockUnlockMove ==
  ASSUME NEW b, Banked(b), NEW s \in SeatIds, NEW a \in Assets, NEW x \in Int,
         \A r \in SeatIds : b.seats[r].locked \in [Assets -> Int]
  PROVE  /\ Banked(Lock(b, s, a, x)) /\ LockMoved(b, Lock(b, s, a, x), s, a, x)
         /\ Banked(Unlock(b, s, a, x)) /\ LockMoved(b, Unlock(b, s, a, x), s, a, -x)
<1> DEFINE c == SetFree(b, s, a, b.seats[s].free[a] - x)
           d == SetLocked(b, s, a, b.seats[s].locked[a] + (-x))
<1>1. Banked(c) /\ \A r \in SeatIds : c.seats[r].locked = b.seats[r].locked
  BY BalanceMoves
<1>2. Lock(b, s, a, x) = SetLocked(c, s, a, c.seats[s].locked[a] + x)
  BY <1>1 DEF Lock
<1>3. Banked(Lock(b, s, a, x)) /\ LockMoved(c, Lock(b, s, a, x), s, a, x)
  <2> HIDE DEF c
  <2>1. \A r \in SeatIds : c.seats[r].locked \in [Assets -> Int]
    BY <1>1
  <2>2. /\ Banked(SetLocked(c, s, a, c.seats[s].locked[a] + x))
        /\ LockMoved(c, SetLocked(c, s, a, c.seats[s].locked[a] + x), s, a, x)
    BY <1>1, <2>1, BalanceMoves
  <2> QED BY <1>2, <2>2
<1>4. LockMoved(b, Lock(b, s, a, x), s, a, x)
  <2> HIDE DEF c
  <2> QED BY <1>1, <1>3 DEF LockMoved, LockedOf
<1>5. -x \in Int
  OBVIOUS
<1>6. /\ Banked(d) /\ LockMoved(b, d, s, a, -x)
      /\ \A r \in SeatIds : d.seats[r].locked \in [Assets -> Int]
  BY <1>5, BalanceMoves
<1>7. d = SetLocked(b, s, a, b.seats[s].locked[a] - x)
  <2>1. b.seats[s].locked[a] \in Int
    OBVIOUS
  <2>2. b.seats[s].locked[a] + (-x) = b.seats[s].locked[a] - x
    BY <2>1
  <2> QED BY <2>2
<1>8. Unlock(b, s, a, x) = SetFree(d, s, a, b.seats[s].free[a] + x)
  BY <1>7 DEF Unlock
<1>9. Banked(Unlock(b, s, a, x)) /\ \A r \in SeatIds : Unlock(b, s, a, x).seats[r].locked = d.seats[r].locked
  <2> HIDE DEF d
  <2>1. \A e, y : /\ Banked(SetFree(d, s, e, y))
                  /\ \A r \in SeatIds : SetFree(d, s, e, y).seats[r].locked = d.seats[r].locked
    BY <1>6, BalanceMoves
  <2> QED BY <1>8, <2>1
<1>10. LockMoved(b, Unlock(b, s, a, x), s, a, -x)
  <2> HIDE DEF d
  <2> QED BY <1>6, <1>9 DEF LockMoved, LockedOf
<1> QED BY <1>3, <1>4, <1>9, <1>10

LEMMA BookVaulted ==
  ASSUME NEW b \in Book
  PROVE  \A c : SameFunds(b, c) => Banked(c) /\ \A r \in SeatIds : c.seats[r].locked \in [Assets -> Int]
<1>1. \A r \in SeatIds : b.seats[r].locked \in [Assets -> Int]
  <2> SUFFICES ASSUME NEW r \in SeatIds PROVE b.seats[r].locked \in [Assets -> Int]
    OBVIOUS
  <2>1. b.seats[r].locked \in [Assets -> Nat]
    BY DEF Book, Seat
  <2> QED BY <2>1
<1> QED BY <1>1 DEF SameFunds

LEMMA KillOrderMoves ==
  ASSUME NEW b \in Book, NEW n \in Nodes
  PROVE  LockMoved(b, KillOrder(b, n), MakerOf(b, n), LockedAsset(SideOf(b, n)),
                   -LockedAtoms(SideOf(b, n), TickOf(b, n), LotsOf(b, n)))
<1> DEFINE s == MakerOf(b, n)
           a == LockedAsset(SideOf(b, n))
           x == LockedAtoms(SideOf(b, n), TickOf(b, n), LotsOf(b, n))
           u == FifoUnlink(b, SideOf(b, n), n)
           v == Unlock(u, s, a, x)
<1>1. n \in Links
  BY BookAssumption DEF Nodes, Links
<1>2. s \in SeatIds /\ a \in Assets /\ x \in Int
  <2>1. /\ SideOf(b, n) \in Sides /\ TickOf(b, n) \in Nat /\ LotsOf(b, n) \in Nat /\ s \in SeatIds
    BY <1>1, NodeType, BookAssumption DEF SideOf, TickOf, LotsOf, MakerOf
  <2> QED BY <2>1, LockedAtomsType
<1>3. KillOrder(b, n) = ChainUnlink(v, n)
  BY DEF KillOrder, SideOf, TickOf, LotsOf, MakerOf
<1>4. SameFunds(b, u)
  BY BookBanked, ListsSameFunds
<1> HIDE DEF s, a, x, u
<1>5. Banked(v) /\ LockMoved(u, v, s, a, -x)
  BY <1>2, <1>4, BookVaulted, LockUnlockMove
<1> HIDE DEF v
<1>6. SameFunds(v, ChainUnlink(v, n))
  <2>1. SameFunds(v, v)
    BY <1>5 DEF SameFunds
  <2> QED BY <2>1, ListsSameFunds
<1>7. LockMoved(b, ChainUnlink(v, n), s, a, -x)
  <2>1. LockMoved(b, v, s, a, -x)
    BY <1>4, <1>5, MovedSame
  <2> QED BY <1>6, <2>1, MovedSame
<1> QED BY <1>3, <1>7 DEF s, a, x

LEMMA ShrinkOrderMoves ==
  ASSUME NEW b \in Book, NEW n \in Nodes, NEW lots \in Nat, NEW expiry
  PROVE  LockMoved(b, ShrinkOrder(b, MakerOf(b, n), n, lots, expiry), MakerOf(b, n), LockedAsset(SideOf(b, n)),
                   LockedAtoms(SideOf(b, n), TickOf(b, n), lots)
                   - LockedAtoms(SideOf(b, n), TickOf(b, n), LotsOf(b, n)))
<1> DEFINE s == MakerOf(b, n)
           a == LockedAsset(SideOf(b, n))
           x == LockedAtoms(SideOf(b, n), TickOf(b, n), LotsOf(b, n) - lots)
           y == LockedAtoms(SideOf(b, n), TickOf(b, n), lots)
                - LockedAtoms(SideOf(b, n), TickOf(b, n), LotsOf(b, n))
           v == Unlock(b, s, a, x)
           w == SetExpiry(SetLots(v, n, lots), n, expiry)
<1>1. n \in Links
  BY BookAssumption DEF Nodes, Links
<1>2. /\ SideOf(b, n) \in Sides /\ TickOf(b, n) \in Nat /\ LotsOf(b, n) \in Nat /\ s \in SeatIds
      /\ a \in Assets
  BY <1>1, NodeType, BookAssumption DEF SideOf, TickOf, LotsOf, MakerOf, Sides, Assets, LockedAsset
<1>3. x \in Int /\ y = -x
  <2> DEFINE p == TickOf(b, n) * TickSize
             j == LotsOf(b, n)
  <2>1. /\ p \in Int /\ BaseLotSize \in Int /\ j \in Int /\ \A i, k \in Int : i * k \in Int
    <3>1. TickSize \in Int /\ BaseLotSize \in Int
      BY BookAssumption
    <3> QED BY <1>2, <3>1
  <2>2. x = (IF SideOf(b, n) = "bid" THEN p * (j - lots) ELSE BaseLotSize * (j - lots))
        /\ y = (IF SideOf(b, n) = "bid" THEN (p * lots) - (p * j) ELSE (BaseLotSize * lots) - (BaseLotSize * j))
    BY DEF LockedAtoms, Notional
  <2> HIDE DEF p, j, x, y
  <2>3. \A q, i, k \in Int : q * (i - k) \in Int /\ (q * k) - (q * i) = -(q * (i - k))
    OBVIOUS
  <2>4. lots \in Int
    OBVIOUS
  <2> QED BY <2>1, <2>2, <2>3, <2>4
<1>4. ShrinkOrder(b, s, n, lots, expiry) = AddLots(w, Slot(TickOf(b, n)), lots - LotsOf(b, n))
  BY DEF ShrinkOrder, SideOf, TickOf, LotsOf
<1> HIDE DEF s, a, x, y
<1>5. Banked(v) /\ LockMoved(b, v, s, a, -x)
  BY <1>2, <1>3, BookBanked, BookVaulted, LockUnlockMove
<1> HIDE DEF v
<1>6. SameFunds(v, AddLots(w, Slot(TickOf(b, n)), lots - LotsOf(b, n)))
  <2>1. SameFunds(v, v)
    BY <1>5 DEF SameFunds
  <2> QED BY <2>1, SettersSameFunds
<1>7. LockMoved(b, AddLots(w, Slot(TickOf(b, n)), lots - LotsOf(b, n)), s, a, y)
  BY <1>3, <1>5, <1>6, MovedSame
<1> QED BY <1>4, <1>7 DEF s, a, y

\* A fill at the order's own price spends its lock for the lots filled.
LEMMA FillOrderMoves ==
  ASSUME NEW b \in Book, NEW n \in Nodes, NEW side, side = SideOf(b, n), NEW tick, tick = TickOf(b, n),
         NEW lots \in Nat
  PROVE  LockMoved(b, FillOrder(b, side, tick, n, lots), MakerOf(b, n), LockedAsset(SideOf(b, n)),
                   -LockedAtoms(SideOf(b, n), TickOf(b, n), lots))
<1> DEFINE s == MakerOf(b, n)
           a == LockedAsset(side)
           x == LockedAtoms(side, tick, lots)
           d == SetLocked(b, s, a, b.seats[s].locked[a] + (-x))
           v == SettleMaker(b, side, tick, n, lots)
           c == FillOrder(b, side, tick, n, lots)
<1>1. n \in Links
  BY BookAssumption DEF Nodes, Links
<1>2. /\ side \in Sides /\ tick \in Nat /\ s \in SeatIds /\ a \in Assets /\ x \in Int /\ -x \in Int
  <2>1. side \in Sides /\ tick \in Nat /\ s \in SeatIds
    BY <1>1, NodeType, BookAssumption DEF SideOf, TickOf, MakerOf
  <2>2. a \in Assets /\ x \in Nat
    BY <2>1, LockedAtomsType
  <2> QED BY <2>1, <2>2
<1>3. b.seats[s].locked[a] \in Int /\ b.seats[s].locked[a] - x = b.seats[s].locked[a] + (-x)
  <2>1. LockedOf(b, s, a) \in Int
    <3>1. LockedOf(b, s, a) \in Nat
      BY <1>2, LocksAre
    <3> QED BY <3>1
  <2> QED BY <1>2, <2>1 DEF LockedOf
<1>4. \E e, y : v = SetFree(d, s, e, y)
  BY <1>3 DEF SettleMaker, MakerOf
<1> HIDE DEF x
<1>5. /\ Banked(d) /\ LockMoved(b, d, s, a, -x)
      /\ \A r \in SeatIds : d.seats[r].locked \in [Assets -> Int]
  BY <1>2, BookBanked, BookVaulted, BalanceMoves
<1> HIDE DEF d
<1>6. Banked(v) /\ \A r \in SeatIds : v.seats[r].locked = d.seats[r].locked
  <2> HIDE DEF v
  <2> QED BY <1>2, <1>4, <1>5, BalanceMoves
<1>7. LockMoved(b, v, s, a, -x)
  BY <1>5, <1>6 DEF LockMoved, LockedOf
<1>8. SameFunds(v, c)
  <2>1. SameFunds(v, v)
    BY <1>6 DEF SameFunds
  <2>2. c = ChainUnlink(FifoUnlink(v, side, n), n)
        \/ \E j, l, k : c = AddLots(SetLots(v, n, j), l, k)
    BY DEF FillOrder
  <2> HIDE DEF c, v
  <2> QED BY <2>1, <2>2, ListsSameFunds, SettersSameFunds
<1> HIDE DEF c, v
<1>9. LockMoved(b, c, s, a, -x)
  BY <1>7, <1>8, MovedSame
<1> QED BY <1>9 DEF c, s, a, x

LEMMA InsertMoves ==
  ASSUME NEW b \in Book, NEW side \in Sides, NEW tick \in Nat, NEW lots \in Nat, NEW s \in SeatIds, NEW expiry,
         NEW p, NEW m, NEW n
  PROVE  LockMoved(b, ChainSplice(LockAndInsert(b, s, side, tick, lots, expiry), s, p, m, n),
                   s, LockedAsset(side), LockedAtoms(side, tick, lots))
<1> DEFINE a == LockedAsset(side)
           x == LockedAtoms(side, tick, lots)
           v == Lock(b, s, a, x)
           w == LockAndInsert(b, s, side, tick, lots, expiry)
<1>1. a \in Assets /\ x \in Int
  BY LockedAtomsType
<1>2. w = BookInsert(v, side, tick, lots, s, expiry)
  BY DEF LockAndInsert
<1> HIDE DEF a, x
<1>3. Banked(v) /\ LockMoved(b, v, s, a, x)
  BY <1>1, BookBanked, BookVaulted, LockUnlockMove
<1> HIDE DEF v
<1>4. SameFunds(v, w)
  <2>1. SameFunds(v, v)
    BY <1>3 DEF SameFunds
  <2> QED BY <1>2, <2>1, ListsSameFunds
<1> HIDE DEF w
<1>5. SameFunds(v, ChainSplice(w, s, p, m, n))
  BY <1>4, ListsSameFunds
<1> QED BY <1>3, <1>5, MovedSame DEF w, a, x

(***************************************************************************)
(* A sound book: every list runs where it should, and every order is where *)
(* it may be.                                                              *)
(***************************************************************************)
SeqOf(b, n) == b.pool[n].seq

\* While ids are not reused, the rank along a level is the order's id, its own.
Dated(b, r) ==
  MaxOrderIds <= FreedSeq => \A n \in Live(b) : /\ r[n] = SeqOf(b, n) /\ r[n] < b.orderSeq
                                               /\ \A m \in Live(b) : r[m] = r[n] => m = n

\* The next id is not a used one's.
Dateable(b) == MaxOrderIds <= FreedSeq => b.orderSeq < FreedSeq

Listed(b) == \E r : LevelsAt(b, r) /\ Dated(b, r)

\* What is written in sums is what the orders add up to.
Summed(b) == Tallied(b) /\ Secured(b)

Sound(b) == Listed(b) /\ ChainsAt(b) /\ FreeAt(b) /\ Counted(b) /\ Housed(b) /\ Summed(b)

LEMMA DatedEnded ==
  ASSUME NEW b, NEW r, Dated(b, r), NEW n \in Live(b), NEW c, Ended(b, c, n)
  PROVE  Dated(c, r)
<1>1. n \in Nodes /\ FreedSeq \in Nat /\ Nodes \subseteq Links
  BY LiveNodes, BookAssumption DEF Nodes, Links
<1>2. Live(c) = Live(b) \ {n} /\ Live(c) \subseteq Nodes
  BY <1>1, EndedRead, LiveNodes
<1>3. \A k \in Links : k # n => SeqOf(c, k) = SeqOf(b, k)
  BY DEF Ended, PoolEnded, OrderFields, SeqOf
<1>4. c.orderSeq = b.orderSeq
  BY DEF Ended
<1> QED BY <1>1, <1>2, <1>3, <1>4 DEF Dated

LEMMA LiveTicks ==
  ASSUME NEW b \in Book, NEW n \in Live(b)
  PROVE  n \in Nodes /\ n \in Links /\ TickOf(b, n) \in Nat /\ LotsOf(b, n) \in Nat /\ SideOf(b, n) \in Sides
<1>1. n \in Nodes /\ n \in Links
  BY LiveNodes, BookAssumption DEF Nodes, Links
<1> QED BY <1>1, NodeType, BookAssumption DEF TickOf, LotsOf, SideOf

LEMMA SoundEnded ==
  ASSUME NEW b \in Book, Sound(b), NEW n \in Live(b), NEW c, Ended(b, c, n),
         LockMoved(b, c, MakerOf(b, n), LockedAsset(SideOf(b, n)),
                   -LockedAtoms(SideOf(b, n), TickOf(b, n), LotsOf(b, n)))
  PROVE  Sound(c)
<1>1. Ringed(b) /\ Seatwise(b)
  BY BookRinged, BookSeatwise
<1>2. PICK r : LevelsAt(b, r) /\ Dated(b, r)
  BY DEF Sound, Listed
<1>3. r \in [Nodes -> Nat]
  BY <1>2 DEF LevelsAt
<1>4. LevelsAt(c, r) /\ Dated(c, r)
  BY <1>1, <1>2, <1>3, LevelsEnded, DatedEnded
<1>5. FreeAt(c)
  BY <1>2, FreeEnded DEF Sound
<1>6. ChainsAt(c) /\ Counted(c) /\ Housed(c)
  BY <1>1, ChainsEnded, CountedEnded, HousedEnded DEF Sound
<1>7. Summed(c)
  BY <1>2, TalliedEnded, SecuredEnded DEF Sound, Summed
<1> QED BY <1>4, <1>5, <1>6, <1>7 DEF Sound, Listed

\* The rank of a new order at the back of its level.
LEMMA RankEntered ==
  ASSUME NEW b \in Book, NEW r \in [Nodes -> Nat], Dated(b, r), NEW n \in Nodes, NEW t \in Links, n \notin Live(b)
  PROVE  \E r2 \in [Nodes -> Nat] : /\ \A k \in Nodes \ {n} : r2[k] = r[k]
                                    /\ t \in Live(b) => r[t] < r2[n]
                                    /\ (MaxOrderIds <= FreedSeq) => r2[n] = b.orderSeq
<1>1. Live(b) \subseteq Nodes /\ b.orderSeq \in Nat
  BY LiveNodes, BookAssumption DEF Book
<1>2. CASE MaxOrderIds <= FreedSeq
  <2> DEFINE r2 == [r EXCEPT ![n] = b.orderSeq]
  <2>1. r2 \in [Nodes -> Nat] /\ (\A k \in Nodes \ {n} : r2[k] = r[k]) /\ r2[n] = b.orderSeq
    BY <1>1
  <2>2. t \in Live(b) => r[t] < b.orderSeq
    BY <1>2 DEF Dated
  <2> HIDE DEF r2
  <2> QED BY <2>1, <2>2
<1>3. CASE ~(MaxOrderIds <= FreedSeq)
  <2> DEFINE x  == IF t \in Nodes THEN r[t] + 1 ELSE 0
             r2 == [r EXCEPT ![n] = x]
  <2>1. x \in Nat /\ (t \in Nodes => r[t] < x)
    OBVIOUS
  <2> HIDE DEF x
  <2>2. r2 \in [Nodes -> Nat] /\ (\A k \in Nodes \ {n} : r2[k] = r[k]) /\ r2[n] = x
    BY <2>1
  <2> HIDE DEF r2
  <2> QED BY <1>1, <1>3, <2>1, <2>2
<1> QED BY <1>2, <1>3

PlaceAt(side, tick) == IF side = "bid" THEN tick ELSE TickLimit + 1 + tick

\* An order may enter: its price and its seat are sound, p and m are its neighbours.
Fits(b, side, tick, lots, s, p, m) ==
  /\ side \in Sides /\ tick \in Nat /\ lots \in Nat /\ lots > 0 /\ s \in SeatIds /\ Dateable(b)
  /\ InWindow(b, tick) /\ Slot(tick) \notin b.bits[Opposite(side)] /\ OwnerOf(b, s) # Nobody
  /\ Foregoes(b, s, PlaceAt(side, tick), p) /\ Follows(b, s, PlaceAt(side, tick), m)
  /\ \A k \in LiveOf(b, s) : PlaceOf(b, k) # PlaceAt(side, tick)

LEMMA SoundEntered ==
  ASSUME NEW b \in Book, Sound(b), NEW n \in Nodes, n = b.freeHead,
         NEW side, NEW tick, NEW lots, NEW s, NEW p, NEW m, NEW c,
         Entered(b, c, n, side, tick, lots, s, p, m), Fits(b, side, tick, lots, s, p, m),
         LockMoved(b, c, s, LockedAsset(side), LockedAtoms(side, tick, lots))
  PROVE  Sound(c)
<1> DEFINE x == PlaceAt(side, tick)
<1>0. /\ side \in Sides /\ tick \in Nat /\ lots \in Nat /\ lots > 0 /\ s \in SeatIds /\ Dateable(b)
      /\ InWindow(b, tick) /\ Slot(tick) \notin b.bits[Opposite(side)] /\ OwnerOf(b, s) # Nobody
      /\ Foregoes(b, s, x, p) /\ Follows(b, s, x, m) /\ \A k \in LiveOf(b, s) : PlaceOf(b, k) # x
      /\ x = (IF side = "bid" THEN tick ELSE TickLimit + 1 + tick)
  BY DEF Fits, PlaceAt
<1> HIDE DEF x
<1>1. Ringed(b) /\ Seatwise(b) /\ NextOrderId(b) # FreedSeq /\ Slot(tick) \in Ring
  BY <1>0, BookRinged, BookSeatwise, BookAssumption, SlotInRing DEF NextOrderId
<1>2. PICK r : LevelsAt(b, r) /\ Dated(b, r)
  BY DEF Sound, Listed
<1>3. r \in [Nodes -> Nat] /\ Live(b) \subseteq Nodes
  BY <1>2, LiveNodes DEF LevelsAt
<1>4. FreeAt(c) /\ n \notin Live(b)
  BY <1>0, <1>1, <1>2, FreeEntered DEF Sound
<1>5. PICK r2 \in [Nodes -> Nat] :
        /\ \A k \in Nodes \ {n} : r2[k] = r[k]
        /\ TailOf(b, Slot(tick)) \in Live(b) => r[TailOf(b, Slot(tick))] < r2[n]
        /\ (MaxOrderIds <= FreedSeq) => r2[n] = b.orderSeq
  <2>1. TailOf(b, Slot(tick)) \in Links
    BY <1>1, LevelType DEF TailOf
  <2> QED BY <1>2, <1>3, <1>4, <2>1, RankEntered
<1>6. Slot(tick) \in b.bits[side] => TailOf(b, Slot(tick)) \in Live(b)
  BY <1>0, <1>2 DEF LevelsAt, Served, Rests
<1>7. Slot(tick) \in b.bits[side] => r[TailOf(b, Slot(tick))] < r2[n]
  BY <1>5, <1>6
<1>8. \A k \in Live(b) : r2[k] = r[k]
  BY <1>3, <1>4, <1>5
<1>9. LevelsAt(c, r2)
  BY <1>0, <1>1, <1>2, <1>4, <1>7, <1>8, LevelsEntered
<1>10. ChainsAt(c)
  BY <1>0, <1>1, <1>4, ChainsEntered DEF Sound
<1>11. Counted(c) /\ Housed(c)
  BY <1>0, <1>1, <1>4, CountedEntered, HousedEntered DEF Sound
<1>12. Dated(c, r2)
  <2> SUFFICES ASSUME MaxOrderIds <= FreedSeq
               PROVE  \A k \in Live(c) : /\ r2[k] = SeqOf(c, k) /\ r2[k] < c.orderSeq
                                         /\ \A j \in Live(c) : r2[j] = r2[k] => j = k
    BY DEF Dated
  <2>0. Live(c) = Live(b) \cup {n}
    BY <1>1, EnteredRead
  <2>1. b.orderSeq < FreedSeq /\ b.orderSeq \in Nat /\ FreedSeq \in Nat
    BY <1>0, BookAssumption DEF Dateable, Book
  <2>2. NextOrderId(b) = b.orderSeq /\ c.orderSeq = b.orderSeq + 1
    <3>1. b.orderSeq # FreedSeq
      BY <2>1
    <3>2. c.orderSeq = NextOrderId(b) + 1
      BY DEF Entered
    <3> QED BY <3>1, <3>2 DEF NextOrderId
  <2>4. r2[n] = b.orderSeq /\ SeqOf(c, n) = b.orderSeq
    <3>1. SeqOf(c, n) = NextOrderId(b)
      BY DEF Entered, PoolEntered, SeqOf
    <3> QED BY <1>5, <2>2, <3>1
  <2>5. ASSUME NEW k \in Live(b)
        PROVE  r2[k] = SeqOf(c, k) /\ r2[k] < b.orderSeq /\ r2[k] \in Nat /\ r2[k] = r[k]
    <3>0. k # n
      BY <1>4
    <3>1. k \in Links \ {n}
      BY <3>0, LiveTicks
    <3>2. SeqOf(c, k) = SeqOf(b, k)
      BY <3>1 DEF Entered, PoolEntered, OrderFields, SeqOf
    <3>3. r[k] = SeqOf(b, k) /\ r[k] < b.orderSeq /\ r[k] \in Nat
      BY <1>2, <1>3 DEF Dated
    <3> QED BY <1>8, <3>2, <3>3
  <2>6. \A j, k \in Live(b) : r2[j] = r2[k] => j = k
    BY <1>2, <2>5 DEF Dated
  <2> QED BY <2>0, <2>1, <2>2, <2>4, <2>5, <2>6
<1>13. Summed(c)
  <2>1. Tallied(b) /\ Secured(b)
    BY DEF Sound, Summed
  <2>2. Tallied(c)
    BY <1>0, <1>1, <1>2, <1>4, <2>1, TalliedEntered
  <2>3. Secured(c)
    BY <1>0, <1>1, <1>4, <2>1, SecuredEntered
  <2> QED BY <2>2, <2>3 DEF Summed
<1> QED BY <1>4, <1>9, <1>10, <1>11, <1>12, <1>13 DEF Sound, Listed

LEMMA SoundAlike ==
  ASSUME NEW b \in Book, Sound(b), NEW c, Alike(b, c), c.anchor = b.anchor, c.pool[NIL] = b.pool[NIL],
         \A k \in Live(b) : LotsOf(c, k) > 0 /\ OwnerOf(c, MakerOf(b, k)) # Nobody,
         c.orderSeq = b.orderSeq, \A k \in Live(b) : SeqOf(c, k) = SeqOf(b, k), Summed(c)
  PROVE  Sound(c)
<1>1. Ringed(b) /\ Seatwise(b)
  BY BookRinged, BookSeatwise
<1>2. Listed(c)
  <2>1. PICK r : LevelsAt(b, r) /\ Dated(b, r)
    BY DEF Sound, Listed
  <2>2. LevelsAt(c, r)
    BY <1>1, <2>1, LevelsAlike
  <2>3. Dated(c, r)
    BY <2>1, AlikeLives DEF Dated
  <2> QED BY <2>2, <2>3 DEF Listed
<1> QED BY <1>1, <1>2, ChainsAlike, FreeAlike, CountedAlike, HousedAlike DEF Sound

\* No order, no total and no lock differs.
SameSums(b, c) ==
  /\ Live(c) = Live(b)
  /\ \A k \in Nodes : /\ SideOf(c, k) = SideOf(b, k) /\ TickOf(c, k) = TickOf(b, k)
                      /\ MakerOf(c, k) = MakerOf(b, k) /\ LotsOf(c, k) = LotsOf(b, k)
  /\ c.bits = b.bits /\ \A l \in Ring : TotalOf(c, l) = TotalOf(b, l)
  /\ \A s \in SeatIds : \A a \in Assets : LockedOf(c, s, a) = LockedOf(b, s, a)

LEMMA SummedSame ==
  ASSUME NEW b \in Book, Summed(b), NEW c, SameSums(b, c)
  PROVE  Summed(c)
<1>1. Live(b) \subseteq Nodes /\ \A d \in Sides : b.bits[d] \subseteq Ring
  BY LiveNodes, BookRinged DEF Ringed
<1>2. Live(c) = Live(b) /\ c.bits = b.bits
  BY DEF SameSums
<1>3. \A k \in Nodes : /\ SideOf(c, k) = SideOf(b, k) /\ TickOf(c, k) = TickOf(b, k)
                       /\ MakerOf(c, k) = MakerOf(b, k) /\ LotsOf(c, k) = LotsOf(b, k)
                       /\ SlotOf(c, k) = SlotOf(b, k)
  BY DEF SameSums, SlotOf, TickOf
<1>4. ASSUME NEW d \in Sides, NEW l \in c.bits[d] PROVE TotalOf(c, l) = SumOver(Sizes(c), Queue(c, d, l))
  <2>1. TotalOf(c, l) = TotalOf(b, l) /\ TotalOf(b, l) = SumOver(Sizes(b), Queue(b, d, l))
    BY <1>1, <1>2 DEF SameSums, Summed, Tallied
  <2>2. Queue(c, d, l) = Queue(b, d, l)
    BY <1>1, <1>2, <1>3 DEF Queue
  <2>3. \A k \in Queue(b, d, l) : LotsOf(c, k) = LotsOf(b, k)
    BY <1>3, QueueFinite
  <2>4. SumOver(Sizes(c), Queue(b, d, l)) = SumOver(Sizes(b), Queue(b, d, l))
    BY <2>3, SameTally, QueueFinite
  <2> QED BY <2>1, <2>2, <2>4
<1>5. ASSUME NEW s \in SeatIds, NEW a \in Assets PROVE LockedOf(c, s, a) = SumOver(LocksFor(c, a), LiveOf(c, s))
  <2>1. LiveOf(c, s) = LiveOf(b, s)
    BY <1>1, <1>2, <1>3, LivesAre
  <2>2. LockedOf(c, s, a) = SumOver(LocksFor(b, a), LiveOf(b, s))
    BY DEF SameSums, Summed, Secured
  <2>3. IsFiniteSet(LiveOf(b, s)) /\ LiveOf(b, s) \subseteq Nodes
    BY LivesFinite
  <2>4. \A k \in LiveOf(b, s) : /\ SideOf(c, k) = SideOf(b, k) /\ TickOf(c, k) = TickOf(b, k)
                                /\ LotsOf(c, k) = LotsOf(b, k)
    BY <1>3, <2>3
  <2>5. SumOver(LocksFor(c, a), LiveOf(b, s)) = SumOver(LocksFor(b, a), LiveOf(b, s))
    BY <2>3, <2>4, SameLocks
  <2> QED BY <2>1, <2>2, <2>5
<1> QED BY <1>4, <1>5 DEF Summed, Tallied, Secured

-----------------------------------------------------------------------------
\* An order that is sized down but not to nothing.
LEMMA ResizedAlike ==
  ASSUME NEW b \in Book, Sound(b), NEW n \in Live(b), NEW lots \in Nat, lots > 0, NEW c, Resized(b, c, n, lots),
         LockMoved(b, c, MakerOf(b, n), LockedAsset(SideOf(b, n)),
                   LockedAtoms(SideOf(b, n), TickOf(b, n), lots)
                   - LockedAtoms(SideOf(b, n), TickOf(b, n), LotsOf(b, n)))
  PROVE  Sound(c) /\ Alike(b, c)
<1>0. n \in Nodes /\ \A k \in Nodes : k \in Links /\ k # NIL
  BY LiveNodes, BookAssumption DEF Nodes, Links, NIL
<1>1. \A k \in Links \ {n} : c.pool[k] = b.pool[k]
  BY DEF Resized
<1>2. \A g \in NodeFields \ {"lots", "expiry"} : c.pool[n][g] = b.pool[n][g]
  BY DEF Resized
<1>3. /\ c.pool[n].prev = b.pool[n].prev /\ c.pool[n].next = b.pool[n].next
      /\ c.pool[n].makerPrev = b.pool[n].makerPrev /\ c.pool[n].makerNext = b.pool[n].makerNext
      /\ c.pool[n].tick = b.pool[n].tick /\ c.pool[n].maker = b.pool[n].maker
      /\ c.pool[n].side = b.pool[n].side /\ c.pool[n].seq = b.pool[n].seq
  BY <1>2 DEF NodeFields
<1>4. \A k \in Nodes : /\ PrevOf(c, k) = PrevOf(b, k) /\ NextOf(c, k) = NextOf(b, k)
                       /\ SideOf(c, k) = SideOf(b, k) /\ TickOf(c, k) = TickOf(b, k)
                       /\ MakerOf(c, k) = MakerOf(b, k) /\ ChainPrevOf(c, k) = ChainPrevOf(b, k)
                       /\ ChainNextOf(c, k) = ChainNextOf(b, k) /\ IsLive(c, k) = IsLive(b, k)
  <2> SUFFICES ASSUME NEW k \in Nodes
               PROVE  /\ PrevOf(c, k) = PrevOf(b, k) /\ NextOf(c, k) = NextOf(b, k)
                      /\ SideOf(c, k) = SideOf(b, k) /\ TickOf(c, k) = TickOf(b, k)
                      /\ MakerOf(c, k) = MakerOf(b, k) /\ ChainPrevOf(c, k) = ChainPrevOf(b, k)
                      /\ ChainNextOf(c, k) = ChainNextOf(b, k) /\ IsLive(c, k) = IsLive(b, k)
    OBVIOUS
  <2>1. CASE k # n
    BY <1>0, <1>1, <2>1 DEF PrevOf, NextOf, SideOf, TickOf, MakerOf, ChainPrevOf, ChainNextOf, IsLive
  <2>2. CASE k = n
    BY <1>3, <2>2 DEF PrevOf, NextOf, SideOf, TickOf, MakerOf, ChainPrevOf, ChainNextOf, IsLive
  <2> QED BY <2>1, <2>2
<1>5. /\ c.bits = b.bits /\ c.anchor = b.anchor /\ c.freeHead = b.freeHead /\ c.freeCount = b.freeCount
  BY DEF Resized, But, BookFields
<1>6. \A s \in SeatIds : /\ FirstOf(c, s) = FirstOf(b, s) /\ CountOf(c, s) = CountOf(b, s)
                         /\ OwnerOf(c, s) = OwnerOf(b, s)
  BY DEF Resized, FirstOf, CountOf, OwnerOf
<1>7. /\ \A m \in Ring : m # SlotOf(b, n) => c.levels[m] = b.levels[m]
      /\ HeadOf(c, SlotOf(b, n)) = HeadOf(b, SlotOf(b, n)) /\ TailOf(c, SlotOf(b, n)) = TailOf(b, SlotOf(b, n))
  BY DEF Resized, SlotOf, HeadOf, TailOf
<1>8. \A l \in Ring : HeadOf(c, l) = HeadOf(b, l) /\ TailOf(c, l) = TailOf(b, l)
  BY <1>7 DEF HeadOf, TailOf
<1>9. b.levels[SlotOf(b, n)] # EmptyLevel
  <2> PICK r : LevelsAt(b, r)
    BY DEF Sound, Listed
  <2>1. SlotOf(b, n) \in b.bits[SideOf(b, n)] /\ SideOf(b, n) \in Sides
    BY <1>0, BookRinged DEF LevelsAt, Queued, Ringed
  <2>2. HeadOf(b, SlotOf(b, n)) \in Nodes
    BY <2>1, LiveNodes DEF LevelsAt, Served, Rests
  <2> QED BY <1>0, <2>2 DEF HeadOf, EmptyLevel
<1>10. \A l \in Ring : b.levels[l] = EmptyLevel => c.levels[l] = EmptyLevel
  BY <1>7, <1>9
<1>11. Alike(b, c)
  BY <1>4, <1>5, <1>6, <1>8, <1>10 DEF Alike
<1>12. \A k \in Live(b) : LotsOf(c, k) > 0
  <2>1. LotsOf(c, n) > 0
    BY DEF Resized, LotsOf
  <2>2. \A k \in Nodes : k # n => LotsOf(c, k) = LotsOf(b, k)
    BY <1>0, <1>1 DEF LotsOf
  <2> QED BY <2>1, <2>2, LiveNodes DEF Sound, Housed
<1>13. \A k \in Live(b) : OwnerOf(c, MakerOf(b, k)) # Nobody
  BY <1>6, LiveNodes, BookSeatwise DEF Sound, Housed, Seatwise
<1>14. c.pool[NIL] = b.pool[NIL]
  BY <1>0, <1>1, BookAssumption DEF Links, NIL
<1>15. LotsOf(c, n) = lots /\ \A k \in Nodes : k # n => LotsOf(c, k) = LotsOf(b, k)
  BY <1>0, <1>1 DEF LotsOf, Resized
<1>16. c.orderSeq = b.orderSeq /\ \A k \in Live(b) : SeqOf(c, k) = SeqOf(b, k)
  <2>1. c.orderSeq = b.orderSeq
    BY DEF Resized, But, BookFields
  <2>2. \A k \in Nodes : SeqOf(c, k) = SeqOf(b, k)
    BY <1>0, <1>1, <1>3 DEF SeqOf
  <2> QED BY <2>1, <2>2, LiveNodes
<1>17. Summed(c)
  <2>1. /\ Live(c) = Live(b) /\ \A s : LiveOf(c, s) = LiveOf(b, s)
        /\ \A k \in Nodes : SideOf(c, k) = SideOf(b, k) /\ TickOf(c, k) = TickOf(b, k) /\ SlotOf(c, k) = SlotOf(b, k)
    BY <1>4, <1>11, AlikeLives
  <2>2. PICK r : LevelsAt(b, r)
    BY DEF Sound, Listed
  <2>3. Tallied(b) /\ Secured(b)
    BY DEF Sound, Summed
  <2>4. Tallied(c)
    BY <2>1, <2>2, <2>3, TalliedResized
  <2>5. Secured(c)
    BY <1>15, <2>1, <2>3, SecuredResized
  <2> QED BY <2>4, <2>5 DEF Summed
<1> QED BY <1>5, <1>11, <1>12, <1>13, <1>14, <1>16, <1>17, SoundAlike

\* Free balances or fees move, nothing else.
Credited(b, c) ==
  Paid(b, c) /\ \A s \in SeatIds : c.seats[s].locked = b.seats[s].locked

LEMMA CreditedTrans ==
  ASSUME NEW a, NEW b, NEW c, Credited(a, b), Credited(b, c) PROVE Credited(a, c)
BY PaidTrans DEF Credited

LEMMA CreditedFormed == ASSUME NEW b, NEW c, Credited(b, c) PROVE Formed(c)
BY PaidFormed DEF Credited

LEMMA CreditsMade ==
  ASSUME NEW b, Formed(b)
  PROVE  /\ \A s \in SeatIds : \A a, x : Credited(b, AddFree(b, s, a, x))
         /\ \A i : Credited(b, Accrued(b, i))
         /\ Credited(b, BumpSeq(b)) /\ Credited(b, b)
<1>1. ASSUME NEW s \in SeatIds, NEW a, NEW x PROVE Credited(b, AddFree(b, s, a, x))
  <2> DEFINE y == b.seats[s].free[a] + x
             c == SetFree(b, s, a, y)
  <2>1. SeatSet(b, c, s, "free", [b.seats[s].free EXCEPT ![a] = y]) /\ Paid(b, c)
    BY SeatWrites, BalanceWrites
  <2>2. c = AddFree(b, s, a, x)
    BY DEF AddFree
  <2> HIDE DEF c
  <2>3. \A r \in SeatIds : c.seats[r].locked = b.seats[r].locked
    BY <2>1 DEF SeatSet, SeatFields
  <2> QED BY <2>1, <2>2, <2>3 DEF Credited
<1>2. ASSUME NEW i PROVE Credited(b, Accrued(b, i))
  <2>1. Accrued(b, i).seats = b.seats
    BY DEF Formed, BookFields, Accrued
  <2> QED BY <2>1, OthersPaid DEF Credited
<1>3. Credited(b, BumpSeq(b)) /\ Credited(b, b)
  <2>1. BumpSeq(b).seats = b.seats
    BY DEF Formed, BookFields, BumpSeq
  <2> QED BY <2>1, OthersPaid DEF Credited
<1> QED BY <1>1, <1>2, <1>3

LEMMA CreditedSound ==
  ASSUME NEW b \in Book, Sound(b), NEW c, Credited(b, c)
  PROVE  Sound(c) /\ Alike(b, c)
<1>1. /\ c.pool = b.pool /\ c.levels = b.levels /\ c.bits = b.bits /\ c.anchor = b.anchor
      /\ c.freeHead = b.freeHead /\ c.freeCount = b.freeCount
      /\ c.orderSeq = b.orderSeq
  BY DEF Credited, Paid, But, BookFields
<1>2. \A s \in SeatIds : /\ FirstOf(c, s) = FirstOf(b, s) /\ CountOf(c, s) = CountOf(b, s)
                         /\ OwnerOf(c, s) = OwnerOf(b, s)
  BY DEF Credited, Paid, FirstOf, CountOf, OwnerOf
<1>3. Alike(b, c)
  BY <1>1, <1>2 DEF Alike, PrevOf, NextOf, SideOf, TickOf, MakerOf, ChainPrevOf, ChainNextOf, IsLive, HeadOf, TailOf
<1>4. \A k \in Live(b) : LotsOf(c, k) > 0 /\ OwnerOf(c, MakerOf(b, k)) # Nobody
  BY <1>1, <1>2, LiveNodes, BookSeatwise DEF Sound, Housed, Seatwise, LotsOf
<1>5. SameSums(b, c)
  <2>1. Live(c) = Live(b)
    BY <1>3, AlikeLives
  <2>2. \A s \in SeatIds : \A a \in Assets : LockedOf(c, s, a) = LockedOf(b, s, a)
    BY DEF Credited, LockedOf
  <2> QED BY <1>1, <2>1, <2>2 DEF SameSums, SideOf, TickOf, MakerOf, LotsOf, TotalOf
<1>6. Summed(c) /\ \A k \in Live(b) : SeqOf(c, k) = SeqOf(b, k)
  BY <1>1, <1>5, SummedSame DEF Sound, SeqOf
<1> QED BY <1>1, <1>3, <1>4, <1>6, SoundAlike

(* Where a new order goes                                                  *)

\* Sorting by side and tick is sorting by place.
LEMMA PlaceOrder ==
  ASSUME NEW b \in Book, NEW m \in Nodes, NEW k \in Nodes
  PROVE  /\ ChainBefore(b.pool[m].side, b.pool[m].tick, b.pool[k].side, b.pool[k].tick)
              <=> PlaceOf(b, m) < PlaceOf(b, k)
         /\ PlaceOf(b, m) \in Nat /\ PlaceOf(b, k) \in Nat
<1>1. m \in Links /\ k \in Links
  BY BookAssumption DEF Nodes, Links
<1>2. /\ b.pool[m].tick \in 0 .. TickLimit /\ b.pool[k].tick \in 0 .. TickLimit
      /\ b.pool[m].side \in {"bid", "ask"} /\ b.pool[k].side \in {"bid", "ask"}
  BY <1>1, NodeType DEF Sides
<1> QED BY <1>2, BookAssumption DEF ChainBefore, PlaceOf

\* The chain walk finds the last order before the new one and the first after.
LEMMA SortedSplice ==
  ASSUME NEW d \in Book, NEW s \in SeatIds, NEW n \in Nodes
  PROVE  LET others == LiveOf(d, s) \ {n}
         IN \E p, m \in {NIL} \cup others :
              /\ ChainInsertSorted(d, s, n) = ChainSplice(d, s, p, m, n)
              /\ p # NIL => PlaceOf(d, p) < PlaceOf(d, n)
              /\ \A k \in others : PlaceOf(d, k) < PlaceOf(d, n) => p # NIL /\ PlaceOf(d, k) <= PlaceOf(d, p)
              /\ m # NIL => PlaceOf(d, n) <= PlaceOf(d, m)
              /\ \A k \in others : PlaceOf(d, n) <= PlaceOf(d, k) => m # NIL /\ PlaceOf(d, m) <= PlaceOf(d, k)
<1> DEFINE Key(m, k) == ChainBefore(d.pool[m].side, d.pool[m].tick,
                                    d.pool[k].side, d.pool[k].tick)
           others == LiveOf(d, s) \ {n}
           below  == {m \in others : Key(m, n)}
           above  == others \ below
           p      == IF below = {} THEN NIL
                     ELSE CHOOSE m \in below : \A k \in below : ~Key(m, k)
           m      == IF above = {} THEN NIL
                     ELSE CHOOSE k \in above : \A j \in above : ~Key(j, k)
<1>1. below \subseteq Nodes /\ above \subseteq Nodes /\ others \subseteq Nodes /\ NIL \notin Nodes
  BY BookAssumption DEF LiveOf, Nodes, NIL
<1>2. ChainInsertSorted(d, s, n) = ChainSplice(d, s, p, m, n)
  BY DEF ChainInsertSorted
<1>3. below # {} => \E j \in below : \A k \in below : ~Key(j, k)
  <2> HIDE DEF below, above
  <2> QED BY <1>1, ChainExtremes
<1>4. above # {} => \E j \in above : \A k \in above : ~Key(k, j)
  <2> HIDE DEF below, above
  <2> QED BY <1>1, ChainExtremes
<1>5. \A j, k \in Nodes : (Key(j, k) <=> PlaceOf(d, j) < PlaceOf(d, k)) /\ PlaceOf(d, j) \in Nat
  BY PlaceOrder
<1>6. \A j \in others : IF PlaceOf(d, j) < PlaceOf(d, n) THEN j \in below ELSE j \in above
  BY <1>1, <1>5
<1>7. /\ \A j \in below : j \in others /\ PlaceOf(d, j) < PlaceOf(d, n)
      /\ \A j \in above : j \in others /\ ~(PlaceOf(d, j) < PlaceOf(d, n))
  BY <1>1, <1>5
<1>8. IF below = {} THEN p = NIL ELSE p \in below /\ \A k \in below : ~Key(p, k)
  <2> HIDE DEF Key, below
  <2> QED BY <1>3
<1>9. IF above = {} THEN m = NIL ELSE m \in above /\ \A k \in above : ~Key(k, m)
  <2> HIDE DEF Key, above
  <2> QED BY <1>4
<1> HIDE DEF p, m, below, above, Key
<1>10. /\ p \in {NIL} \cup others
       /\ p # NIL => PlaceOf(d, p) < PlaceOf(d, n)
       /\ \A k \in others : PlaceOf(d, k) < PlaceOf(d, n) => p # NIL /\ PlaceOf(d, k) <= PlaceOf(d, p)
  <2>1. CASE below = {}
    BY <1>6, <1>8, <2>1
  <2>2. CASE below # {}
    <3>1. p \in below /\ p \in Nodes /\ p # NIL /\ \A k \in below : ~(PlaceOf(d, p) < PlaceOf(d, k))
      BY <1>1, <1>5, <1>8, <2>2
    <3>2. \A k \in others : PlaceOf(d, k) \in Nat
      BY <1>1, <1>5
    <3>3. ASSUME NEW k \in others, PlaceOf(d, k) < PlaceOf(d, n) PROVE PlaceOf(d, k) <= PlaceOf(d, p)
      <4>1. ~(PlaceOf(d, p) < PlaceOf(d, k))
        BY <1>6, <3>1, <3>3
      <4>2. PlaceOf(d, k) \in Nat /\ PlaceOf(d, p) \in Nat
        BY <1>1, <1>5, <3>1
      <4> QED BY <4>1, <4>2
    <3> QED BY <1>7, <3>1, <3>3
  <2> QED BY <2>1, <2>2
<1>11. /\ m \in {NIL} \cup others
       /\ m # NIL => PlaceOf(d, n) <= PlaceOf(d, m)
       /\ \A k \in others : PlaceOf(d, n) <= PlaceOf(d, k) => m # NIL /\ PlaceOf(d, m) <= PlaceOf(d, k)
  <2>0. PlaceOf(d, n) \in Nat /\ \A k \in others : PlaceOf(d, k) \in Nat
    BY <1>1, <1>5
  <2>1. CASE above = {}
    <3>1. \A k \in others : PlaceOf(d, k) < PlaceOf(d, n)
      BY <1>6, <2>1
    <3> QED BY <1>9, <2>0, <2>1, <3>1
  <2>2. CASE above # {}
    <3>1. m \in above /\ m \in Nodes /\ m # NIL /\ \A k \in above : ~(PlaceOf(d, k) < PlaceOf(d, m))
      BY <1>1, <1>5, <1>9, <2>2
    <3>2. m \in others /\ PlaceOf(d, n) <= PlaceOf(d, m)
      BY <1>7, <2>0, <3>1
    <3>3. ASSUME NEW k \in others, PlaceOf(d, n) <= PlaceOf(d, k) PROVE PlaceOf(d, m) <= PlaceOf(d, k)
      <4>1. k \in above
        BY <1>6, <2>0, <3>3
      <4>2. PlaceOf(d, k) \in Nat /\ PlaceOf(d, m) \in Nat
        BY <2>0, <3>2
      <4> QED BY <3>1, <4>1, <4>2
    <3> QED BY <3>1, <3>2, <3>3
  <2> QED BY <2>1, <2>2
<1> QED BY <1>2, <1>10, <1>11

-----------------------------------------------------------------------------
(* Entering an order                                                       *)

LEMMA FreeHeadUnused ==
  ASSUME NEW b, FreeAt(b), b.freeHead # NIL
  PROVE  b.freeHead \in Nodes /\ b.freeHead \notin Live(b)
<1>1. PICK k \in Nat : \E q \in [0 .. k -> Links] : FreeChain(b, q, k)
  BY DEF FreeAt
<1>2. PICK q \in [0 .. k -> Links] : FreeChain(b, q, k)
  BY <1>1
<1>3. k \in 1 .. k
  BY <1>1, <1>2 DEF FreeChain
<1>4. b.freeHead \in Unused(b)
  BY <1>2, <1>3 DEF FreeChain
<1> QED BY <1>4 DEF Unused

\* An order locked for and linked in between its neighbours p and m.
LEMMA InsertSound ==
  ASSUME NEW b \in Book, Sound(b), b.freeHead # NIL, NEW side, NEW tick, NEW lots, NEW expiry, NEW s,
         NEW p, NEW m, Fits(b, side, tick, lots, s, p, m)
  PROVE  LET n == b.freeHead
             c == ChainSplice(LockAndInsert(b, s, side, tick, lots, expiry), s, p, m, n)
         IN /\ Sound(c) /\ Entered(b, c, n, side, tick, lots, s, p, m)
            /\ n \in Nodes /\ n \notin Live(b)
<1> DEFINE n == b.freeHead
           c == ChainSplice(LockAndInsert(b, s, side, tick, lots, expiry), s, p, m, n)
           x == PlaceAt(side, tick)
<1>0. /\ side \in Sides /\ tick \in Nat /\ lots \in Nat /\ s \in SeatIds /\ x \in Nat
      /\ Foregoes(b, s, x, p) /\ Follows(b, s, x, m)
  BY BookAssumption DEF Fits, PlaceAt
<1> HIDE DEF x
<1>1. n \in Nodes /\ n \notin Live(b)
  BY FreeHeadUnused DEF Sound
<1>2. Nodes \subseteq Links /\ NIL \in Links /\ NIL \notin Nodes /\ Live(b) \subseteq Nodes
      /\ LiveOf(b, s) \subseteq Live(b)
  BY LiveNodes, BookAssumption DEF Nodes, Links, NIL, LiveOf, Live
<1>3. p \in Links \ {n} /\ m \in Links \ {n}
  BY <1>0, <1>1, <1>2 DEF Foregoes, Follows
<1>4. p = NIL \/ p # m
  <2>1. p # NIL => PlaceOf(b, p) < x /\ PlaceOf(b, p) \in Nat /\ x \in Nat
    BY <1>0, <1>2, BookSeatwise DEF Foregoes, Seatwise
  <2>2. m # NIL => x < PlaceOf(b, m)
    BY <1>0 DEF Follows
  <2> QED BY <2>1, <2>2
<1>5. Slot(tick) \in Ring
  BY <1>0, SlotInRing
<1>6. Slot(tick) \in b.bits[side] => b.levels[Slot(tick)].tail \in Nodes \ {n}
  <2> PICK r : LevelsAt(b, r)
    BY DEF Sound, Listed
  <2>1. Slot(tick) \in b.bits[side] => TailOf(b, Slot(tick)) \in Live(b)
    BY <1>0 DEF LevelsAt, Served, Rests
  <2> QED BY <1>1, <1>2, <2>1 DEF TailOf
<1>7. Entered(b, c, n, side, tick, lots, s, p, m)
  BY <1>0, <1>1, <1>3, <1>4, <1>5, <1>6, BookFormed, InsertEffect
<1>8. n = b.freeHead
  OBVIOUS
<1>9. LockMoved(b, c, s, LockedAsset(side), LockedAtoms(side, tick, lots))
  BY <1>0, InsertMoves
<1> HIDE DEF c, n
<1>10. Sound(c)
  BY <1>1, <1>7, <1>8, <1>9, SoundEntered
<1> QED BY <1>1, <1>7, <1>10 DEF c, n

(***************************************************************************)
(* The operations on a sound book                                          *)
(***************************************************************************)
\* No seat has more orders than its cap.
Capped(b) == \A s \in SeatIds : Cardinality(LiveOf(b, s)) <= MaxOrdersPerSeat

\* c has no order b does not have, and every seat its owner.
Thins(b, c) ==
  /\ \A s : LiveOf(c, s) \subseteq LiveOf(b, s)
  /\ \A s \in SeatIds : OwnerOf(c, s) = OwnerOf(b, s)

LEMMA ThinsCapped == ASSUME NEW b, Capped(b), NEW c, Thins(b, c) PROVE Capped(c)
<1> SUFFICES ASSUME NEW s \in SeatIds PROVE Cardinality(LiveOf(c, s)) <= MaxOrdersPerSeat
  BY DEF Capped
<1>1. Cardinality(LiveOf(c, s)) <= Cardinality(LiveOf(b, s))
  BY LivesFinite, FS_Subset DEF Thins
<1>2. Cardinality(LiveOf(b, s)) <= MaxOrdersPerSeat
  BY DEF Capped
<1> QED BY <1>1, <1>2, LivesFinite, BookAssumption

\* A sized-down order, or money that moves, takes no owner away.
LEMMA OwnersKept ==
  ASSUME NEW b, NEW c
  PROVE  /\ \A n, lots : Resized(b, c, n, lots) => \A r \in SeatIds : OwnerOf(c, r) = OwnerOf(b, r)
         /\ Paid(b, c) => \A r \in SeatIds : OwnerOf(c, r) = OwnerOf(b, r)
<1>1. ASSUME NEW n, NEW lots, Resized(b, c, n, lots), NEW r \in SeatIds PROVE OwnerOf(c, r) = OwnerOf(b, r)
  BY <1>1 DEF Resized, OwnerOf
<1>2. ASSUME Paid(b, c), NEW r \in SeatIds PROVE OwnerOf(c, r) = OwnerOf(b, r)
  BY <1>2 DEF Paid, OwnerOf
<1> QED BY <1>1, <1>2

LEMMA KillSound ==
  ASSUME NEW b \in Book, Sound(b), NEW n \in Live(b)
  PROVE  LET c == KillOrder(b, n) IN Sound(c) /\ Ended(b, c, n) /\ Thins(b, c)
<1> DEFINE c == KillOrder(b, n)
<1>1. Ended(b, c, n)
  BY LiveNodes, KillEnds
<1>4. LockMoved(b, c, MakerOf(b, n), LockedAsset(SideOf(b, n)),
                -LockedAtoms(SideOf(b, n), TickOf(b, n), LotsOf(b, n)))
  BY LiveNodes, KillOrderMoves
<1> HIDE DEF c
<1>2. Sound(c)
  BY <1>1, <1>4, SoundEnded
<1>3. Thins(b, c)
  BY <1>1, BookSeatwise, EndedLives, EndedSeatRead DEF Thins
<1> QED BY <1>1, <1>2, <1>3 DEF c

LEMMA ShrinkSound ==
  ASSUME NEW b \in Book, Sound(b), NEW n \in Live(b), NEW s, s = MakerOf(b, n), NEW lots \in Nat, lots > 0,
         NEW expiry
  PROVE  LET c == ShrinkOrder(b, s, n, lots, expiry) IN Sound(c) /\ Alike(b, c) /\ Thins(b, c)
<1> DEFINE c == ShrinkOrder(b, s, n, lots, expiry)
<1>1. Resized(b, c, n, lots)
  <2>1. s \in SeatIds /\ n \in Nodes
    BY LiveNodes, BookSeatwise DEF Seatwise
  <2> QED BY <2>1, ShrinkOrderResizes
<1>4. LockMoved(b, c, MakerOf(b, n), LockedAsset(SideOf(b, n)),
                LockedAtoms(SideOf(b, n), TickOf(b, n), lots)
                - LockedAtoms(SideOf(b, n), TickOf(b, n), LotsOf(b, n)))
  BY LiveNodes, ShrinkOrderMoves
<1> HIDE DEF c
<1>2. Sound(c) /\ Alike(b, c)
  BY <1>1, <1>4, ResizedAlike
<1>3. \A r \in SeatIds : OwnerOf(c, r) = OwnerOf(b, r)
  BY <1>1, OwnersKept
<1> QED BY <1>2, <1>3, AlikeLives DEF c, Thins

\* The lock of the lots filled is what the lots left lock less.
LEMMA LockLess ==
  ASSUME NEW side, NEW tick \in Nat, NEW j \in Nat, NEW k \in Nat
  PROVE  -LockedAtoms(side, tick, k) = LockedAtoms(side, tick, j - k) - LockedAtoms(side, tick, j)
<1> DEFINE p == tick * TickSize
<1>1. p \in Int /\ BaseLotSize \in Int
  <2>1. TickSize \in Int /\ BaseLotSize \in Int
    BY BookAssumption
  <2>2. \A x, y \in Int : x * y \in Int
    OBVIOUS
  <2> QED BY <2>1, <2>2
<1>2. \A q \in Int : LockedAtoms(side, tick, q) = IF side = "bid" THEN p * q ELSE BaseLotSize * q
  BY DEF LockedAtoms, Notional
<1> HIDE DEF p
<1>3. \A q \in Int : -(q * k) = (q * (j - k)) - (q * j)
  OBVIOUS
<1>4. j - k \in Int /\ j \in Int /\ k \in Int
  OBVIOUS
<1> QED BY <1>1, <1>2, <1>3, <1>4

LEMMA FillSound ==
  ASSUME NEW b \in Book, Sound(b), NEW n \in Live(b), NEW side, side = SideOf(b, n), NEW tick,
         tick = TickOf(b, n), NEW lots \in Nat \ {0}, lots <= LotsOf(b, n)
  PROVE  LET c == FillOrder(b, side, tick, n, lots) IN Sound(c) /\ Thins(b, c)
<1> DEFINE c == FillOrder(b, side, tick, n, lots)
<1>0. n \in Nodes /\ LotsOf(b, n) \in Nat /\ side = b.pool[n].side /\ LotsOf(b, n) = b.pool[n].lots
  <2>1. n \in Links
    BY LiveNodes, BookAssumption DEF Nodes, Links
  <2> QED BY <2>1, NodeType, LiveNodes DEF LotsOf, SideOf
<1>3. LockMoved(b, c, MakerOf(b, n), LockedAsset(SideOf(b, n)), -LockedAtoms(SideOf(b, n), TickOf(b, n), lots))
  BY <1>0, FillOrderMoves
<1>1. CASE lots = LotsOf(b, n)
  <2>1. Ended(b, c, n)
    BY <1>0, <1>1, FillEnds
  <2> HIDE DEF c
  <2>2. Sound(c)
    BY <1>1, <1>3, <2>1, SoundEnded
  <2>3. Thins(b, c)
    BY <2>1, BookSeatwise, EndedLives, EndedSeatRead DEF Thins
  <2> QED BY <2>2, <2>3 DEF c
<1>2. CASE lots # LotsOf(b, n)
  <2> DEFINE left == LotsOf(b, n) - lots
  <2>1. Slot(tick) = Slot(b.pool[n].tick)
    BY DEF TickOf
  <2>2. Resized(b, c, n, left)
    BY <1>0, <1>2, <2>1, FillOrderResizes
  <2>3. left \in Nat /\ left > 0
    BY <1>0, <1>2
  <2>6. -LockedAtoms(SideOf(b, n), TickOf(b, n), lots)
          = LockedAtoms(SideOf(b, n), TickOf(b, n), left) - LockedAtoms(SideOf(b, n), TickOf(b, n), LotsOf(b, n))
    <3>1. TickOf(b, n) \in Nat
      BY LiveTicks
    <3> QED BY <1>0, <3>1, LockLess
  <2> HIDE DEF c, left
  <2>7. LockMoved(b, c, MakerOf(b, n), LockedAsset(SideOf(b, n)),
                  LockedAtoms(SideOf(b, n), TickOf(b, n), left) - LockedAtoms(SideOf(b, n), TickOf(b, n), LotsOf(b, n)))
    BY <1>3, <2>6
  <2>4. Sound(c) /\ Alike(b, c)
    BY <2>2, <2>3, <2>7, ResizedAlike
  <2>5. \A r \in SeatIds : OwnerOf(c, r) = OwnerOf(b, r)
    BY <2>2, OwnersKept
  <2> QED BY <2>4, <2>5, AlikeLives DEF c, Thins
<1> QED BY <1>1, <1>2

\* Money that moves.
LEMMA CreditedThins ==
  ASSUME NEW b \in Book, Sound(b), NEW c, Credited(b, c)
  PROVE  Sound(c) /\ Thins(b, c)
<1>1. Sound(c) /\ Alike(b, c)
  BY CreditedSound
<1> QED BY <1>1, OwnersKept, AlikeLives DEF Thins, Credited

-----------------------------------------------------------------------------
(* Posting a quote                                                         *)

\* The book with the new order on its level, not yet in its chain.
LEMMA AllottedLives ==
  ASSUME NEW b \in Book, Sound(b), b.freeHead # NIL, NEW side \in Sides, NEW tick \in 0 .. TickLimit,
         NEW lots \in Nat, NEW expiry \in Nat, NEW s \in SeatIds, CanInsert(b, s, side, tick, lots)
  PROVE  LET n == b.freeHead
             d == LockAndInsert(b, s, side, tick, lots, expiry)
         IN /\ d \in Book /\ n \in Nodes
            /\ LiveOf(d, s) \ {n} = LiveOf(b, s)
            /\ \A k \in LiveOf(b, s) : PlaceOf(d, k) = PlaceOf(b, k)
            /\ PlaceOf(d, n) = PlaceAt(side, tick)
<1> DEFINE n == b.freeHead
           d == LockAndInsert(b, s, side, tick, lots, expiry)
           e == ChainSplice(d, s, NIL, NIL, n)
<1>1. n \in Nodes /\ n \notin Live(b)
  BY FreeHeadUnused DEF Sound
<1>2. Nodes \subseteq Links /\ NIL \in Links /\ NIL \notin Nodes /\ Live(b) \subseteq Nodes
      /\ tick \in Nat /\ NextOrderId(b) # FreedSeq
  BY LiveNodes, BookAssumption DEF Nodes, Links, NIL, NextOrderId
<1>3. d \in Book
  BY LockAndInsertKept, KeptBook
<1>4. Slot(tick) \in Ring
  BY <1>2, SlotInRing
<1>5. Slot(tick) \in b.bits[side] => b.levels[Slot(tick)].tail \in Nodes \ {n}
  <2> PICK r : LevelsAt(b, r)
    BY DEF Sound, Listed
  <2>1. Slot(tick) \in b.bits[side] => TailOf(b, Slot(tick)) \in Live(b)
    BY DEF LevelsAt, Served, Rests
  <2> QED BY <1>1, <1>2, <2>1 DEF TailOf
<1>6. NIL \in Links \ {n}
  BY <1>1, <1>2
<1>7. Entered(b, e, n, side, tick, lots, s, NIL, NIL)
  BY <1>1, <1>4, <1>5, <1>6, BookFormed, InsertEffect
<1>8. Spliced(d, e, s, NIL, NIL, n)
  <2>1. Formed(d) /\ n \in Nodes /\ NIL \in Links \ {n} /\ (NIL = NIL \/ NIL # NIL)
    BY <1>1, <1>3, <1>6, BookFormed
  <2> HIDE DEF d, n
  <2>2. Spliced(d, ChainSplice(d, s, NIL, NIL, n), s, NIL, NIL, n)
    BY <2>1, ChainSpliceEffect
  <2> QED BY <2>2
<1> HIDE DEF d, e, n
<1>9. \A k \in Links : \A g \in NodeFields \ {"makerPrev", "makerNext"} : e.pool[k][g] = d.pool[k][g]
  BY <1>8 DEF Spliced
<1>10. \A k \in Links : /\ e.pool[k].seq = d.pool[k].seq /\ e.pool[k].maker = d.pool[k].maker
                        /\ e.pool[k].side = d.pool[k].side /\ e.pool[k].tick = d.pool[k].tick
  BY <1>9 DEF NodeFields
<1>11. LiveOf(d, s) = LiveOf(e, s)
  BY <1>2, <1>10 DEF LiveOf, IsLive
<1>12. \A k \in Nodes : PlaceOf(d, k) = PlaceOf(e, k)
  BY <1>2, <1>10 DEF PlaceOf
<1>13. /\ LiveOf(e, s) = LiveOf(b, s) \cup {n}
       /\ \A k \in Live(b) : PlaceOf(e, k) = PlaceOf(b, k)
       /\ PlaceOf(e, n) = PlaceAt(side, tick)
  <2>1. Seatwise(b)
    BY BookSeatwise
  <2>2. /\ LiveOf(e, s) = LiveOf(b, s) \cup {n}
        /\ \A k \in Live(b) : PlaceOf(e, k) = PlaceOf(b, k) /\ MakerOf(e, k) = MakerOf(b, k)
        /\ PlaceOf(e, n) = (IF side = "bid" THEN tick ELSE TickLimit + 1 + tick)
    BY <1>1, <1>2, <1>7, <2>1, EnteredLives
  <2> QED BY <2>2 DEF PlaceAt
<1>14. LiveOf(b, s) \subseteq Live(b)
  BY LivesAre
<1> QED BY <1>1, <1>2, <1>3, <1>11, <1>12, <1>13, <1>14 DEF d, n

\* A seat's count is exact: there are no more nodes than a u16 counts.
LEMMA CountIs ==
  ASSUME NEW b, Counted(b), NEW s \in SeatIds
  PROVE  CountOf(b, s) = Cardinality(LiveOf(b, s)) /\ Cardinality(LiveOf(b, s)) <= Capacity
<1>1. IsFiniteSet(Nodes) /\ Cardinality(Nodes) = Capacity
  BY FS_Interval, BookAssumption DEF Nodes
<1>2. LiveOf(b, s) \subseteq Nodes /\ Cardinality(LiveOf(b, s)) \in Nat
  BY LivesFinite
<1>3. Cardinality(LiveOf(b, s)) <= Capacity
  BY <1>1, <1>2, FS_Subset
<1>4. Cardinality(LiveOf(b, s)) % (U16Max + 1) = Cardinality(LiveOf(b, s))
  BY <1>2, <1>3, BookAssumption DEF U16Max
<1> QED BY <1>3, <1>4 DEF Counted

\* A place is a side and a tick.
LEMMA PlaceIs ==
  ASSUME NEW b \in Book, NEW k \in Nodes, NEW side \in Sides, NEW tick \in 0 .. TickLimit
  PROVE  PlaceOf(b, k) = PlaceAt(side, tick) <=> b.pool[k].side = side /\ b.pool[k].tick = tick
<1>1. b.pool[k].side \in Sides /\ b.pool[k].tick \in 0 .. TickLimit
  BY NodeType DEF Nodes, Links
<1>2. TickLimit \in Nat
  BY BookAssumption
<1> QED BY <1>1, <1>2 DEF PlaceOf, PlaceAt, Sides

\* The book a new order enters has none at its place.
LEMMA ClearedSound ==
  ASSUME NEW b \in Book, Sound(b), NEW s \in SeatIds, NEW side \in Sides, NEW tick \in 0 .. TickLimit,
         NEW lots \in Nat, ~Amends(b, s, side, tick, lots)
  PROVE  LET c == Cleared(b, s, side, tick, lots)
         IN /\ Sound(c) /\ Thins(b, c) /\ Clears(b, c)
            /\ OwnerOf(c, s) = OwnerOf(b, s) /\ c.orderSeq = b.orderSeq
            /\ \A r \in SeatIds : r # s => LiveOf(c, r) = LiveOf(b, r)
            /\ \A k \in LiveOf(c, s) : PlaceOf(c, k) # PlaceAt(side, tick)
<1>0. \A k \in LiveOf(b, s) : /\ k \in Nodes /\ k \in Live(b)
                              /\ PlaceOf(b, k) = PlaceAt(side, tick) => k \in QuotesAt(b, s, side, tick)
  BY PlaceIs, LivesAre, LivesFinite DEF QuotesAt
<1>1. CASE Grows(b, s, side, tick, lots)
  <2> DEFINE n == QuoteAt(b, s, side, tick)
             c == KillOrder(b, n)
  <2>1. n \in QuotesAt(b, s, side, tick)
    BY <1>1 DEF Grows, QuoteAt
  <2>2. n \in LiveOf(b, s) /\ n \in Live(b) /\ n \in Nodes /\ PlaceOf(b, n) = PlaceAt(side, tick)
    BY <2>1, <1>0, PlaceIs DEF QuotesAt
  <2>3. Sound(c) /\ Ended(b, c, n) /\ Thins(b, c)
    BY <2>2, KillSound
  <2>4. Clears(b, c)
    BY <2>2, KillOrderClears DEF Nodes, Links
  <2>5. Cleared(b, s, side, tick, lots) = c
    BY <1>1 DEF Cleared
  <2> HIDE DEF c, n
  <2>6. Seatwise(b)
    BY BookSeatwise
  <2>7. /\ \A r : LiveOf(c, r) = LiveOf(b, r) \ {n}
        /\ \A k \in Live(c) : PlaceOf(c, k) = PlaceOf(b, k)
    BY <2>2, <2>3, <2>6, EndedLives
  <2>8. OwnerOf(c, s) = OwnerOf(b, s) /\ c.orderSeq = b.orderSeq
    BY <2>3, EndedSeatRead DEF Ended
  <2>9. \A r \in SeatIds : r # s => LiveOf(c, r) = LiveOf(b, r)
    <3>1. \A r : r # s => n \notin LiveOf(b, r)
      BY <2>2 DEF LiveOf
    <3> QED BY <2>7, <3>1
  <2>10. \A k \in LiveOf(c, s) : PlaceOf(c, k) # PlaceAt(side, tick)
    <3> SUFFICES ASSUME NEW k \in LiveOf(c, s), PlaceOf(c, k) = PlaceAt(side, tick) PROVE FALSE
      OBVIOUS
    <3>1. k \in Live(c) /\ k \in LiveOf(b, s) /\ k # n
      BY <2>7, LivesAre
    <3>2. PlaceOf(b, k) = PlaceOf(b, n)
      BY <2>2, <2>7, <3>1
    <3>3. Distinct(b)
      BY DEF Sound, ChainsAt
    <3> QED BY <2>2, <3>1, <3>2, <3>3 DEF Distinct
  <2> QED BY <2>3, <2>4, <2>5, <2>8, <2>9, <2>10
<1>2. CASE ~Grows(b, s, side, tick, lots)
  <2>1. Cleared(b, s, side, tick, lots) = b
    BY <1>2 DEF Cleared
  <2>2. QuotesAt(b, s, side, tick) = {}
    <3> SUFFICES ASSUME QuotesAt(b, s, side, tick) # {} PROVE FALSE
      OBVIOUS
    <3>1. QuoteAt(b, s, side, tick) \in Links
      BY QuoteAtType
    <3>2. b.pool[QuoteAt(b, s, side, tick)].lots \in Nat
      BY <3>1, NodeType
    <3> QED BY <1>2, <3>2 DEF Grows, Amends
  <2>3. \A k \in LiveOf(b, s) : PlaceOf(b, k) # PlaceAt(side, tick)
    BY <1>0, <2>2
  <2>4. Clears(b, b) /\ Thins(b, b)
    BY ClearsSelf, BookWindowed DEF Thins
  <2> QED BY <2>1, <2>3, <2>4
<1> QED BY <1>1, <1>2

\* Posting at the place the walk finds.
LEMMA SortedSound ==
  ASSUME NEW c \in Book, Sound(c), NEW s \in SeatIds, NEW side \in Sides, NEW tick \in 0 .. TickLimit,
         NEW lots \in Nat \ {0}, NEW expiry \in Nat, CanInsert(c, s, side, tick, lots),
         InWindow(c, tick), Slot(tick) \notin c.bits[Opposite(side)], OwnerOf(c, s) # Nobody,
         Dateable(c), \A k \in LiveOf(c, s) : PlaceOf(c, k) # PlaceAt(side, tick)
  PROVE  LET n == c.freeHead
             f == ChainInsertSorted(LockAndInsert(c, s, side, tick, lots, expiry), s, n)
         IN Sound(f) /\ \E p, m : Entered(c, f, n, side, tick, lots, s, p, m) /\ n \in Nodes /\ n \notin Live(c)
<1> DEFINE n == c.freeHead
           d == LockAndInsert(c, s, side, tick, lots, expiry)
           x == PlaceAt(side, tick)
<1>0. n # NIL
  BY DEF CanInsert
<1>1. /\ d \in Book /\ n \in Nodes
      /\ LiveOf(d, s) \ {n} = LiveOf(c, s)
      /\ \A k \in LiveOf(c, s) : PlaceOf(d, k) = PlaceOf(c, k)
      /\ PlaceOf(d, n) = x
  BY <1>0, AllottedLives
<1>2. x \in Nat /\ tick \in Nat /\ lots > 0 /\ NIL \notin Nodes
  BY BookAssumption DEF PlaceAt, Nodes, NIL
<1>3. \A k \in LiveOf(c, s) : PlaceOf(c, k) \in Nat /\ k \in Nodes
  BY BookSeatwise, LivesFinite DEF Seatwise
<1>4. PICK p, m \in {NIL} \cup (LiveOf(d, s) \ {n}) :
              /\ ChainInsertSorted(d, s, n) = ChainSplice(d, s, p, m, n)
              /\ p # NIL => PlaceOf(d, p) < PlaceOf(d, n)
              /\ \A k \in LiveOf(d, s) \ {n} : PlaceOf(d, k) < PlaceOf(d, n) => p # NIL /\ PlaceOf(d, k) <= PlaceOf(d, p)
              /\ m # NIL => PlaceOf(d, n) <= PlaceOf(d, m)
              /\ \A k \in LiveOf(d, s) \ {n} : PlaceOf(d, n) <= PlaceOf(d, k) => m # NIL /\ PlaceOf(d, m) <= PlaceOf(d, k)
  <2> HIDE DEF d, n
  <2> QED BY <1>1, SortedSplice
<1> HIDE DEF d, n, x
<1>5. p \in {NIL} \cup LiveOf(c, s) /\ m \in {NIL} \cup LiveOf(c, s)
  BY <1>1, <1>4
<1>6. /\ p # NIL => p \in LiveOf(c, s) /\ PlaceOf(c, p) < x
      /\ \A k \in LiveOf(c, s) : PlaceOf(c, k) < x => p # NIL /\ PlaceOf(c, k) <= PlaceOf(c, p)
  BY <1>1, <1>4, <1>5
<1>7. /\ m # NIL => m \in LiveOf(c, s) /\ x <= PlaceOf(c, m)
      /\ \A k \in LiveOf(c, s) : x <= PlaceOf(c, k) => m # NIL /\ PlaceOf(c, m) <= PlaceOf(c, k)
  BY <1>1, <1>4, <1>5
<1>8. Foregoes(c, s, x, p)
  BY <1>6 DEF Foregoes
<1>9. Follows(c, s, x, m)
  <2>1. m # NIL => m \in LiveOf(c, s) /\ x < PlaceOf(c, m)
    BY <1>2, <1>3, <1>7 DEF x
  <2>2. \A k \in LiveOf(c, s) : x < PlaceOf(c, k) => m # NIL /\ PlaceOf(c, m) <= PlaceOf(c, k)
    BY <1>2, <1>3, <1>7
  <2> QED BY <2>1, <2>2 DEF Follows
<1>10. Fits(c, side, tick, lots, s, p, m)
  BY <1>2, <1>8, <1>9 DEF Fits, x
<1>11. LET e == ChainSplice(LockAndInsert(c, s, side, tick, lots, expiry), s, p, m, c.freeHead)
       IN /\ Sound(e) /\ Entered(c, e, c.freeHead, side, tick, lots, s, p, m)
          /\ c.freeHead \in Nodes /\ c.freeHead \notin Live(c)
  BY <1>0, <1>10, InsertSound DEF n
<1> QED BY <1>4, <1>11 DEF d, n

\* The orders of the book a new order entered.
LEMMA EnteredPlaces ==
  ASSUME NEW b \in Book, NEW n \in Nodes, n \notin Live(b), NEW side, NEW tick, NEW lots,
         NEW s \in SeatIds, NEW p, NEW m, NEW c, Entered(b, c, n, side, tick, lots, s, p, m)
  PROVE  /\ LiveOf(c, s) = LiveOf(b, s) \cup {n} /\ \A r : r # s => LiveOf(c, r) = LiveOf(b, r)
         /\ \A k \in Live(b) : PlaceOf(c, k) = PlaceOf(b, k)
         /\ PlaceOf(c, n) = PlaceAt(side, tick)
<1>1. Seatwise(b) /\ NextOrderId(b) # FreedSeq
  BY BookSeatwise, BookAssumption DEF NextOrderId
<1>2. /\ Live(c) = Live(b) \cup {n} /\ LiveOf(c, s) = LiveOf(b, s) \cup {n}
      /\ \A r : r # s => LiveOf(c, r) = LiveOf(b, r)
      /\ \A k \in Live(b) : PlaceOf(c, k) = PlaceOf(b, k) /\ MakerOf(c, k) = MakerOf(b, k)
      /\ MakerOf(c, n) = s /\ PlaceOf(c, n) = (IF side = "bid" THEN tick ELSE TickLimit + 1 + tick)
  BY <1>1, EnteredLives
<1> QED BY <1>2 DEF PlaceAt

\* A price that meets nothing has no bit on the other side.
LEMMA ClearSlot ==
  ASSUME NEW b, NEW side \in Sides, NEW tick \in Nat, InWindow(b, tick), Clear(b, side, tick)
  PROVE  Slot(tick) \notin b.bits[Opposite(side)]
<1> SUFFICES ASSUME Slot(tick) \in b.bits[Opposite(side)] PROVE FALSE
  OBVIOUS
<1>1. tick \in TicksOf(b, Opposite(side))
  BY DEF TicksOf, IsOccupied, InWindow
<1> QED BY <1>1 DEF Clear

\* Every seat but s has the orders it had.
Others(b, c, s) == \A r \in SeatIds : r # s => LiveOf(c, r) = LiveOf(b, r)

LEMMA PostSound ==
  ASSUME NEW b \in Book, Sound(b), Capped(b), NEW s \in SeatIds, NEW side \in Sides,
         NEW tick \in 0 .. TickLimit, InWindow(b, tick), Clear(b, side, tick), NEW lots \in Nat \ {0},
         NEW expiry \in Nat, OwnerOf(b, s) # Nobody,
         Dateable(b), ~Amends(b, s, side, tick, lots), CanPost(b, s, side, tick, lots)
  PROVE  LET f == Post(b, s, side, tick, lots, expiry) IN Sound(f) /\ Capped(f)
<1> DEFINE c == Cleared(b, s, side, tick, lots)
           n == c.freeHead
           f == ChainInsertSorted(LockAndInsert(c, s, side, tick, lots, expiry), s, n)
<1>1. /\ Sound(c) /\ Thins(b, c) /\ Clears(b, c)
      /\ OwnerOf(c, s) = OwnerOf(b, s) /\ c.orderSeq = b.orderSeq
      /\ \A r \in SeatIds : r # s => LiveOf(c, r) = LiveOf(b, r)
      /\ \A k \in LiveOf(c, s) : PlaceOf(c, k) # PlaceAt(side, tick)
  BY ClearedSound
<1>2. c \in Book /\ CanInsert(c, s, side, tick, lots) /\ CountOf(c, s) < MaxOrdersPerSeat
  <2>1. QuotesAt(b, s, side, tick) # {} => QuoteAt(b, s, side, tick) \in Links
    BY QuoteAtType
  <2>2. CASE Grows(b, s, side, tick, lots)
    <3>1. Refundable(b, QuoteAt(b, s, side, tick)) /\ QuoteAt(b, s, side, tick) \in Links
      BY <2>1, <2>2 DEF CanPost, Grows
    <3>2. KillOrder(b, QuoteAt(b, s, side, tick)) \in Book
      BY <3>1, KillOrderKept, KeptBook
    <3> QED BY <2>2, <3>2 DEF CanPost, Cleared, CountOf
  <2>3. CASE ~Grows(b, s, side, tick, lots)
    BY <2>3 DEF CanPost, Cleared, CountOf
  <2> QED BY <2>2, <2>3
<1>3. Post(b, s, side, tick, lots, expiry) = f
  BY DEF Post
<1> HIDE DEF c
<1>x. Dateable(c)
  BY <1>1 DEF Dateable
<1>4. InWindow(c, tick) /\ Clear(c, side, tick) /\ tick \in Nat
  BY <1>1, ClearsTicks DEF InWindow, LastTick, Clears
<1>5. Slot(tick) \notin c.bits[Opposite(side)]
  BY <1>4, ClearSlot
<1>6. Sound(f) /\ \E p, m : Entered(c, f, n, side, tick, lots, s, p, m) /\ n \in Nodes /\ n \notin Live(c)
  BY <1>1, <1>2, <1>x, <1>4, <1>5, SortedSound
<1> HIDE DEF f, n
<1>7. PICK p, m : Entered(c, f, n, side, tick, lots, s, p, m) /\ n \in Nodes /\ n \notin Live(c)
  BY <1>6
<1>8. c \in Book
  BY <1>2
<1>9. LiveOf(f, s) = LiveOf(c, s) \cup {n} /\ \A r : r # s => LiveOf(f, r) = LiveOf(c, r)
  <2>1. n \in Nodes /\ n \notin Live(c) /\ Entered(c, f, n, side, tick, lots, s, p, m)
    BY <1>7
  <2> QED BY <1>8, <2>1, EnteredPlaces
<1>10. Cardinality(LiveOf(c, s)) < MaxOrdersPerSeat
  BY <1>1, <1>2, CountIs DEF Sound
<1>11. Cardinality(LiveOf(f, s)) <= MaxOrdersPerSeat
  <2>1. n \notin LiveOf(c, s)
    BY <1>7, LivesAre
  <2>2. Cardinality(LiveOf(f, s)) = Cardinality(LiveOf(c, s)) + 1
    BY <1>9, <2>1, LivesFinite, FS_AddElement
  <2> QED BY <1>10, <2>2, LivesFinite, BookAssumption
<1>12. Capped(f)
  <2> SUFFICES ASSUME NEW r \in SeatIds PROVE Cardinality(LiveOf(f, r)) <= MaxOrdersPerSeat
    BY DEF Capped
  <2>1. CASE r = s
    BY <1>11, <2>1
  <2>2. CASE r # s
    BY <1>1, <1>9, <2>2 DEF Capped
  <2> QED BY <2>1, <2>2
<1> QED BY <1>3, <1>6, <1>12

LEMMA UpsertSound ==
  ASSUME NEW b \in Book, WindowClear(b), Sound(b), Capped(b), NEW s \in SeatIds, NEW side \in Sides,
         NEW tick \in Nat, NEW lots \in Nat \ {0}, NEW expiry \in Nat, NEW slide \in BOOLEAN,
         OwnerOf(b, s) # Nobody, Dateable(b), CanUpsert(b, s, side, tick, lots, slide)
  PROVE  LET f == Upsert(b, s, side, tick, lots, expiry, slide) IN Sound(f) /\ Capped(f)
<1> DEFINE opposing == BestOf(b, Opposite(side))
           t == CheckOrSlideVs(b, side, tick, slide, opposing)
<1>1. t # NoTick /\ t = CheckOrSlide(b, side, tick, slide)
  BY DEF CanUpsert, CheckOrSlide
<1>2. Bounds(b, side, opposing)
  BY BestBounds
<1>3. Opposite(side) \in Sides
  BY DEF Opposite, Sides
<1>4. opposing = NoTick \/ InWindow(b, opposing)
  BY <1>3, BestOfInWindow
<1> HIDE DEF opposing
<1>5. InWindow(b, t)
  BY <1>1, <1>4, CheckOrSlideVsInWindow
<1>6. Clear(b, side, t)
  BY <1>1, <1>2, <1>4, CheckOrSlideClear
<1> HIDE DEF t
<1>7. t \in 0 .. TickLimit
  BY <1>5, WindowTick
<1>8. CASE Amends(b, s, side, t, lots)
  <2> DEFINE n == QuoteAt(b, s, side, t)
  <2>1. n \in LiveOf(b, s)
    BY <1>8 DEF Amends, QuoteAt, QuotesAt
  <2>2. n \in Live(b) /\ s = MakerOf(b, n)
    BY <2>1, LivesAre DEF LiveOf, MakerOf
  <2> HIDE DEF n
  <2>3. Sound(ShrinkOrder(b, s, n, lots, expiry)) /\ Thins(b, ShrinkOrder(b, s, n, lots, expiry))
    BY <2>2, ShrinkSound
  <2>4. Upsert(b, s, side, tick, lots, expiry, slide) = ShrinkOrder(b, s, n, lots, expiry)
    BY <1>1, <1>8 DEF Upsert, n
  <2> QED BY <2>3, <2>4, ThinsCapped
<1>9. CASE ~Amends(b, s, side, t, lots)
  <2>1. CanPost(b, s, side, t, lots)
    BY <1>1, <1>9 DEF CanUpsert
  <2>2. Sound(Post(b, s, side, t, lots, expiry)) /\ Capped(Post(b, s, side, t, lots, expiry))
    BY <1>5, <1>6, <1>7, <1>9, <2>1, PostSound
  <2>3. Upsert(b, s, side, tick, lots, expiry, slide) = Post(b, s, side, t, lots, expiry)
    BY <1>1, <1>9 DEF Upsert
  <2> QED BY <2>2, <2>3
<1> QED BY <1>8, <1>9

(***************************************************************************)
(* The merge's cursor                                                      *)
(***************************************************************************)
\* Where the merge stands in the chain: after prev, before cur.
BaseOf(b, prev)     == IF prev = NIL THEN -1 ELSE PlaceOf(b, prev)
Behind(b, s, prev)  == {k \in LiveOf(b, s) : PlaceOf(b, k) <= BaseOf(b, prev)}
At(b, s, prev, cur) == (prev # NIL => prev \in LiveOf(b, s)) /\ Follows(b, s, BaseOf(b, prev), cur)

LEMMA BaseType ==
  ASSUME NEW b \in Book, NEW s, NEW prev, NEW cur, At(b, s, prev, cur)
  PROVE  /\ BaseOf(b, prev) \in Int
         /\ \A k \in LiveOf(b, s) : PlaceOf(b, k) \in Nat /\ k \in Nodes /\ k # NIL /\ k \in Live(b)
         /\ cur # NIL => cur \in LiveOf(b, s) /\ BaseOf(b, prev) < PlaceOf(b, cur)
<1>1. \A k \in LiveOf(b, s) : PlaceOf(b, k) \in Nat /\ k \in Nodes /\ k # NIL /\ k \in Live(b)
  BY BookSeatwise, LivesFinite, LivesAre DEF Seatwise, Nodes, NIL
<1>2. cur # NIL => cur \in LiveOf(b, s) /\ BaseOf(b, prev) < PlaceOf(b, cur)
  BY DEF At, Follows
<1> QED BY <1>1, <1>2 DEF At, BaseOf

\* The next in the chain is the next place.
LEMMA NextPlace ==
  ASSUME NEW b \in Book, Sound(b), NEW s \in SeatIds, NEW prev, NEW cur, cur # NIL, At(b, s, prev, cur)
  PROVE  /\ MakerOf(b, cur) = s /\ Follows(b, s, PlaceOf(b, cur), ChainNextOf(b, cur))
         /\ \A k \in LiveOf(b, s) : BaseOf(b, prev) < PlaceOf(b, k) /\ k # cur => PlaceOf(b, cur) < PlaceOf(b, k)
<1>1. cur \in LiveOf(b, s) /\ cur \in Live(b)
  BY BaseType
<1>2. MakerOf(b, cur) = s
  BY <1>1, LivesAre
<1>3. Follows(b, s, PlaceOf(b, cur), ChainNextOf(b, cur))
  BY <1>1, <1>2 DEF Sound, ChainsAt
<1>4. ASSUME NEW k \in LiveOf(b, s), BaseOf(b, prev) < PlaceOf(b, k), k # cur
      PROVE  PlaceOf(b, cur) < PlaceOf(b, k)
  <2>1. PlaceOf(b, cur) <= PlaceOf(b, k)
    BY <1>4 DEF At, Follows
  <2>2. PlaceOf(b, cur) # PlaceOf(b, k)
    BY <1>1, <1>4 DEF Sound, ChainsAt, Distinct
  <2> QED BY <1>1, <1>4, <2>1, <2>2, BaseType
<1> QED BY <1>2, <1>3, <1>4

\* The cursor's quote is ended.
LEMMA CursorKilled ==
  ASSUME NEW b \in Book, Sound(b), NEW s \in SeatIds, NEW prev, NEW cur, cur # NIL, At(b, s, prev, cur),
         NEW c, Ended(b, c, cur)
  PROVE  LET next == ChainNextOf(b, cur)
         IN /\ At(c, s, prev, next) /\ BaseOf(c, prev) = BaseOf(b, prev) /\ Behind(c, s, prev) \subseteq Behind(b, s, prev)
            /\ next # NIL => next \in LiveOf(b, s) /\ PlaceOf(b, cur) < PlaceOf(b, next) /\ PlaceOf(c, next) = PlaceOf(b, next)
<1> DEFINE next == ChainNextOf(b, cur)
<1>0. cur \in LiveOf(b, s) /\ cur \in Live(b) /\ BaseOf(b, prev) < PlaceOf(b, cur) /\ BaseOf(b, prev) \in Int
  BY BaseType
<1>1. \A k \in LiveOf(b, s) : PlaceOf(b, k) \in Nat /\ k \in Live(b)
  BY BaseType
<1>2. /\ LiveOf(c, s) = LiveOf(b, s) \ {cur}
      /\ \A k \in Live(c) : PlaceOf(c, k) = PlaceOf(b, k)
      /\ Live(c) = Live(b) \ {cur}
  BY <1>0, BookSeatwise, EndedLives
<1>3. Follows(b, s, PlaceOf(b, cur), next)
  BY NextPlace
<1>4. \A k \in LiveOf(b, s) : BaseOf(b, prev) < PlaceOf(b, k) /\ k # cur => PlaceOf(b, cur) < PlaceOf(b, k)
  BY NextPlace
<1> HIDE DEF next
<1>5. next # NIL => next \in LiveOf(b, s) /\ PlaceOf(b, cur) < PlaceOf(b, next) /\ next # cur
  BY <1>0, <1>1, <1>3 DEF Follows
<1>6. next # NIL => next \in LiveOf(c, s) /\ PlaceOf(c, next) = PlaceOf(b, next)
  BY <1>1, <1>2, <1>5
<1>7. prev # NIL => prev \in LiveOf(b, s) /\ prev # cur
  BY <1>0, <1>1 DEF At, BaseOf
<1>8. prev # NIL => prev \in LiveOf(c, s) /\ PlaceOf(c, prev) = PlaceOf(b, prev)
  BY <1>1, <1>2, <1>7
<1>9. BaseOf(c, prev) = BaseOf(b, prev)
  BY <1>8 DEF BaseOf
<1>10. Behind(c, s, prev) \subseteq Behind(b, s, prev)
  BY <1>1, <1>2, <1>9 DEF Behind
<1>11. next # NIL => BaseOf(b, prev) < PlaceOf(b, next)
  BY <1>0, <1>1, <1>5
<1>12. ASSUME NEW k \in LiveOf(c, s), BaseOf(c, prev) < PlaceOf(c, k)
       PROVE  next # NIL /\ PlaceOf(c, next) <= PlaceOf(c, k)
  <2>1. k \in LiveOf(b, s) /\ k # cur /\ PlaceOf(c, k) = PlaceOf(b, k)
    BY <1>1, <1>2
  <2>2. PlaceOf(b, cur) < PlaceOf(b, k)
    BY <1>4, <1>9, <1>12, <2>1
  <2>3. next # NIL /\ PlaceOf(b, next) <= PlaceOf(b, k)
    BY <1>3, <2>1, <2>2 DEF Follows
  <2> QED BY <1>6, <2>1, <2>3
<1>13. Follows(c, s, BaseOf(c, prev), next)
  BY <1>6, <1>9, <1>11, <1>12 DEF Follows
<1> QED BY <1>5, <1>6, <1>8, <1>9, <1>10, <1>13 DEF At, next

\* The cursor's quote is kept.
LEMMA CursorKept ==
  ASSUME NEW b \in Book, Sound(b), NEW s \in SeatIds, NEW prev, NEW cur, cur # NIL, At(b, s, prev, cur),
         NEW c, Alike(b, c)
  PROVE  LET next == ChainNextOf(b, cur)
         IN /\ At(c, s, cur, next) /\ BaseOf(c, cur) = PlaceOf(b, cur)
            /\ Behind(c, s, cur) \subseteq Behind(b, s, prev) \cup {cur}
            /\ next # NIL => next \in LiveOf(b, s) /\ PlaceOf(b, cur) < PlaceOf(b, next)
<1> DEFINE next == ChainNextOf(b, cur)
<1>0. cur \in LiveOf(b, s) /\ cur \in Nodes /\ BaseOf(b, prev) < PlaceOf(b, cur) /\ BaseOf(b, prev) \in Int
  BY BaseType
<1>1. \A k \in LiveOf(b, s) : PlaceOf(b, k) \in Nat /\ k \in Nodes
  BY BaseType
<1>2. LiveOf(c, s) = LiveOf(b, s) /\ \A k \in Nodes : PlaceOf(c, k) = PlaceOf(b, k)
  BY AlikeLives
<1>3. Follows(b, s, PlaceOf(b, cur), next)
  BY NextPlace
<1>4. \A k \in LiveOf(b, s) : BaseOf(b, prev) < PlaceOf(b, k) /\ k # cur => PlaceOf(b, cur) < PlaceOf(b, k)
  BY NextPlace
<1> HIDE DEF next
<1>5. next # NIL => next \in LiveOf(b, s) /\ PlaceOf(b, cur) < PlaceOf(b, next)
  BY <1>3 DEF Follows
<1>6. BaseOf(c, cur) = PlaceOf(b, cur)
  BY <1>0, <1>2 DEF BaseOf
<1>7. Follows(c, s, PlaceOf(b, cur), next)
  BY <1>1, <1>2, <1>3 DEF Follows
<1>8. Behind(c, s, cur) \subseteq Behind(b, s, prev) \cup {cur}
  <2> SUFFICES ASSUME NEW k \in Behind(c, s, cur), k # cur PROVE k \in Behind(b, s, prev)
    OBVIOUS
  <2>1. k \in LiveOf(b, s) /\ PlaceOf(b, k) <= PlaceOf(b, cur)
    BY <1>1, <1>2, <1>6 DEF Behind
  <2>2. ~(BaseOf(b, prev) < PlaceOf(b, k))
    BY <1>0, <1>1, <1>4, <2>1
  <2> QED BY <1>0, <1>1, <2>1, <2>2 DEF Behind
<1> QED BY <1>0, <1>2, <1>5, <1>6, <1>7, <1>8 DEF At, next

\* A quote between the cursor's two neighbours.
LEMMA CursorFits ==
  ASSUME NEW b \in Book, NEW s \in SeatIds, NEW prev, NEW cur, At(b, s, prev, cur),
         NEW x \in Int, BaseOf(b, prev) < x, cur # NIL => x < PlaceOf(b, cur)
  PROVE  /\ Foregoes(b, s, x, prev) /\ Follows(b, s, x, cur)
         /\ \A k \in LiveOf(b, s) : PlaceOf(b, k) # x
<1>1. \A k \in LiveOf(b, s) : PlaceOf(b, k) \in Nat
  BY BaseType
<1>2. \A k \in LiveOf(b, s) : BaseOf(b, prev) < PlaceOf(b, k) => cur # NIL /\ PlaceOf(b, cur) <= PlaceOf(b, k)
  BY DEF At, Follows
<1>3. BaseOf(b, prev) \in Int /\ (cur # NIL => cur \in LiveOf(b, s))
  BY BaseType
<1>4. \A k \in LiveOf(b, s) : BaseOf(b, prev) < PlaceOf(b, k) => cur # NIL /\ x < PlaceOf(b, k) /\ PlaceOf(b, cur) <= PlaceOf(b, k)
  BY <1>1, <1>2, <1>3
<1>5. \A k \in LiveOf(b, s) : PlaceOf(b, k) < x => ~(BaseOf(b, prev) < PlaceOf(b, k))
  BY <1>1, <1>4
<1>6. \A k \in LiveOf(b, s) : PlaceOf(b, k) < x => PlaceOf(b, k) <= BaseOf(b, prev)
  BY <1>1, <1>3, <1>5
<1>7. Foregoes(b, s, x, prev)
  <2>1. prev # NIL => prev \in LiveOf(b, s) /\ PlaceOf(b, prev) < x
    BY DEF At, BaseOf
  <2>2. \A k \in LiveOf(b, s) : PlaceOf(b, k) < x => prev # NIL /\ PlaceOf(b, k) <= PlaceOf(b, prev)
    BY <1>1, <1>6 DEF BaseOf
  <2> QED BY <2>1, <2>2 DEF Foregoes
<1>8. Follows(b, s, x, cur)
  <2>1. \A k \in LiveOf(b, s) : x < PlaceOf(b, k) => BaseOf(b, prev) < PlaceOf(b, k)
    BY <1>1, <1>3
  <2> QED BY <1>2, <1>3, <2>1 DEF Follows
<1>9. \A k \in LiveOf(b, s) : PlaceOf(b, k) # x
  BY <1>1, <1>4
<1> QED BY <1>7, <1>8, <1>9

\* A quote is placed at the cursor.
LEMMA CursorEntered ==
  ASSUME NEW b \in Book, NEW s \in SeatIds, NEW prev, NEW cur, At(b, s, prev, cur),
         NEW side \in Sides, NEW tick \in Nat, BaseOf(b, prev) < PlaceAt(side, tick),
         cur # NIL => PlaceAt(side, tick) < PlaceOf(b, cur),
         NEW n \in Nodes, n \notin Live(b), NEW lots, NEW c, Entered(b, c, n, side, tick, lots, s, prev, cur)
  PROVE  /\ At(c, s, n, cur) /\ BaseOf(c, n) = PlaceAt(side, tick)
         /\ Behind(c, s, n) \subseteq Behind(b, s, prev) \cup {n}
         /\ cur # NIL => PlaceOf(c, cur) = PlaceOf(b, cur)
<1> DEFINE x == PlaceAt(side, tick)
<1>0. x \in Int /\ n # NIL
  BY BookAssumption DEF PlaceAt, Nodes, NIL
<1>1. BaseOf(b, prev) \in Int /\ (cur # NIL => cur \in LiveOf(b, s))
  BY BaseType
<1>2. \A k \in LiveOf(b, s) : PlaceOf(b, k) \in Nat /\ k \in Live(b)
  BY BaseType
<1>4. /\ LiveOf(c, s) = LiveOf(b, s) \cup {n}
      /\ \A k \in Live(b) : PlaceOf(c, k) = PlaceOf(b, k)
      /\ PlaceOf(c, n) = x
  BY EnteredPlaces
<1>5. Follows(b, s, x, cur)
  BY <1>0, CursorFits
<1>6. \A k \in LiveOf(b, s) : PlaceOf(b, k) < x => PlaceOf(b, k) <= BaseOf(b, prev)
  <2>1. \A k \in LiveOf(b, s) : BaseOf(b, prev) < PlaceOf(b, k) => cur # NIL /\ PlaceOf(b, cur) <= PlaceOf(b, k)
    BY DEF At, Follows
  <2> HIDE DEF x
  <2>2. \A k \in LiveOf(b, s) : BaseOf(b, prev) < PlaceOf(b, k) => x < PlaceOf(b, k)
    BY <1>0, <1>1, <1>2, <2>1 DEF x
  <2> QED BY <1>0, <1>1, <1>2, <2>2
<1>7. \A k \in LiveOf(b, s) : PlaceOf(b, k) # x
  BY <1>0, CursorFits
<1> HIDE DEF x
<1>8. BaseOf(c, n) = x
  BY <1>0, <1>4 DEF BaseOf
<1>9. Follows(c, s, x, cur)
  <2>1. cur # NIL => cur \in LiveOf(c, s) /\ x < PlaceOf(c, cur)
    BY <1>2, <1>4, <1>5 DEF Follows
  <2>2. ASSUME NEW k \in LiveOf(c, s), x < PlaceOf(c, k) PROVE cur # NIL /\ PlaceOf(c, cur) <= PlaceOf(c, k)
    <3>1. k # n
      BY <1>0, <1>4, <2>2
    <3>2. k \in LiveOf(b, s) /\ x < PlaceOf(b, k) /\ PlaceOf(c, k) = PlaceOf(b, k)
      BY <1>2, <1>4, <2>2, <3>1
    <3>3. cur # NIL /\ PlaceOf(b, cur) <= PlaceOf(b, k)
      BY <1>5, <3>2 DEF Follows
    <3> QED BY <1>1, <1>2, <1>4, <3>2, <3>3
  <2> QED BY <2>1, <2>2 DEF Follows
<1>10. Behind(c, s, n) \subseteq Behind(b, s, prev) \cup {n}
  <2> SUFFICES ASSUME NEW k \in Behind(c, s, n), k # n PROVE k \in Behind(b, s, prev)
    OBVIOUS
  <2>1. k \in LiveOf(b, s) /\ PlaceOf(b, k) <= x
    BY <1>2, <1>4, <1>8 DEF Behind
  <2>2. PlaceOf(b, k) < x
    BY <1>0, <1>2, <1>7, <2>1
  <2> QED BY <1>6, <2>1, <2>2 DEF Behind
<1> QED BY <1>1, <1>2, <1>4, <1>8, <1>9, <1>10 DEF At, x

(***************************************************************************)
(* The structure at every step                                             *)
(***************************************************************************)
\* Quotes of the payload the merge has placed.
Consumed(i) == IF i.side = "bid" THEN i.qi ELSE Len(i.bids) + i.qi

\* What a merge relies on: its cursor is in the seat's chain, between what it
\* has placed and what it has yet to look at; the asks still to come lie above
\* the remembered bid; and no more was added than the payload gave.
Merges(b, i) ==
  /\ OwnerOf(b, i.seat) # Nobody
  /\ i.qi <= Len(Payload(i)) /\ Len(i.bids) + Len(i.asks) <= MaxOrdersPerSeat
  /\ At(b, i.seat, i.prev, i.cur)
  /\ i.lastUsed <= TickLimit /\ BaseOf(b, i.prev) <= PlaceAt(i.side, i.lastUsed)
  /\ i.side = "ask" /\ i.cur # NIL => SideOf(b, i.cur) = "ask" /\ i.opposing < TickOf(b, i.cur)
  /\ \A r \in SeatIds : r # i.seat => Cardinality(LiveOf(b, r)) <= MaxOrdersPerSeat
  /\ Cardinality(LiveOf(b, i.seat)) <= MaxOrdersPerSeat + Consumed(i)
  /\ Cardinality(Behind(b, i.seat, i.prev)) <= Consumed(i)

Working(b, i) ==
  /\ i.op # "MassQuote" => Capped(b)
  /\ i.op = "MassQuote" => Merges(b, i)
  /\ i.op = "Take" => i.kind = "Swap" \/ OwnerOf(b, i.seat) # Nobody
  /\ i.op = "ReapExpired" => i.cur = NIL \/ i.cur \in Live(b)

Structured == /\ Sound(book) /\ Working(book, ix)
              /\ Sound(committed.book) /\ Capped(committed.book)

\* While ids are not reused, those there are suffice for what is in flight.
SInv == /\ CrossInv /\ FreedSeq \notin CancelIds /\ Structured
        /\ MaxOrderIds <= FreedSeq => Named

LEMMA SBook == ASSUME SInv PROVE book \in Book /\ committed.book \in Book /\ IInv /\ WindowClear(book)
<1>1. IInv
  BY DEF SInv, CrossInv
<1> QED BY <1>1, InvGood DEF Good, Header

LEMMA DateRoom ==
  ASSUME SInv
  PROVE  /\ ix.op = "Take" /\ ix.kind = "PlaceLimit" => Dateable(book)
         /\ ix.op = "MassQuote" /\ MaxOrderIds <= FreedSeq => book.orderSeq + QuotesLeft(ix) <= FreedSeq
         /\ IdsLeft(1) => Dateable(book)
<1>1. book.orderSeq \in Nat /\ MaxOrderIds \in Nat /\ FreedSeq \in Nat
  BY SBook, BookAssumption, ProgramAssumption DEF Book
<1>2. IdsLeft(1) => Dateable(book)
  BY <1>1 DEF IdsLeft, Dateable
<1>3. ASSUME MaxOrderIds <= FreedSeq PROVE Room(book, ix)
  BY <1>3 DEF SInv, Named
<1>4. ix.op = "Take" /\ ix.kind = "PlaceLimit" => Dateable(book)
  BY <1>1, <1>3 DEF Room, Dateable
<1>5. ASSUME ix.op = "MassQuote", MaxOrderIds <= FreedSeq
      PROVE  book.orderSeq + QuotesLeft(ix) <= FreedSeq
  <2>1. ix \in MassQuoteIx
    BY <1>5, SBook, MergeType DEF Merging
  <2>2. QuotesLeft(ix) \in Int
    <3>1. ix.bids \in Payloads /\ ix.asks \in Payloads /\ ix.qi \in Nat
      BY <2>1 DEF MassQuoteIx
    <3>2. /\ ix.bids \in Seq([tick : Nat, lots : Nat, reject : BOOLEAN])
          /\ ix.asks \in Seq([tick : Nat, lots : Nat, reject : BOOLEAN])
      BY <3>1, MakerAssumption
    <3>3. Len(ix.bids) \in Nat /\ Len(ix.asks) \in Nat
      BY <3>2
    <3> QED BY <3>1, <3>3 DEF QuotesLeft, Payload
  <2>3. book.orderSeq + QuotesLeft(ix) <= MaxOrderIds
    BY <1>3, <1>5 DEF Room
  <2> QED BY <1>1, <1>5, <2>2, <2>3
<1> QED BY <1>2, <1>4, <1>5

LEMMA CommitsS ==
  ASSUME SInv, NEW b, Sound(BumpSeq(b)), Capped(BumpSeq(b)), NEW v, Commit(b, v)
  PROVE  Structured'
<1>1. book' = BumpSeq(b) /\ committed'.book = BumpSeq(b) /\ ix' = Idle
  BY DEF Commit
<1>2. Working(BumpSeq(b), Idle)
  BY DEF Working, Idle
<1> QED BY <1>1, <1>2 DEF Structured

LEMMA CommitS ==
  ASSUME SInv, NEW b \in Book, Sound(b), Capped(b), NEW v, Commit(b, v)
  PROVE  Structured'
<1>1. Credited(b, BumpSeq(b))
  BY BookFormed, CreditsMade
<1>2. Sound(BumpSeq(b)) /\ Capped(BumpSeq(b))
  BY <1>1, CreditedThins, ThinsCapped
<1> QED BY <1>2, CommitsS

LEMMA ContinueS ==
  ASSUME SInv, NEW b, Sound(b), NEW i, Working(b, i), Continue(b, i)
  PROVE  Structured'
<1>1. book' = b /\ ix' = i /\ committed' = committed
  BY DEF Continue
<1> QED BY <1>1 DEF Structured, SInv

LEMMA AbortS == ASSUME SInv, Abort PROVE Structured'
<1>1. book' = committed.book /\ ix' = Idle /\ committed' = committed
  BY DEF Abort
<1>2. Working(committed.book, Idle)
  BY DEF Working, Idle, Structured, SInv
<1> QED BY <1>1, <1>2 DEF Structured, SInv

LEMMA IdleCapped == ASSUME SInv, ix = Idle PROVE Capped(book)
BY DEF SInv, Structured, Working, Idle

\* A book some orders of which have ended, or money of which has moved.
LEMMA ThinsCommit ==
  ASSUME SInv, ix.op # "MassQuote", NEW b \in Book, Sound(b), Thins(book, b), NEW v, Commit(b, v)
  PROVE  Structured'
<1>1. Capped(book)
  BY DEF SInv, Structured, Working
<1>2. Capped(b)
  BY <1>1, ThinsCapped
<1> QED BY <1>2, CommitS

LEMMA CreditedCommit ==
  ASSUME SInv, ix.op # "MassQuote", NEW b, Credited(book, b), NEW v, Commit(b, v)
  PROVE  Structured'
<1>1. book \in Book /\ Sound(book) /\ Capped(book)
  BY SBook DEF SInv, Structured, Working
<1>2. Credited(b, BumpSeq(b))
  BY CreditedFormed, CreditsMade
<1>3. Credited(book, BumpSeq(b))
  BY <1>2, CreditedTrans
<1>4. Sound(BumpSeq(b)) /\ Capped(BumpSeq(b))
  BY <1>1, <1>3, CreditedThins, ThinsCapped
<1> QED BY <1>4, CommitsS

-----------------------------------------------------------------------------
(* Seats and funds                                                         *)

\* A seat without orders may change hands.
LEMMA HandOver ==
  ASSUME NEW b \in Book, Sound(b), NEW s \in SeatIds, LiveOf(b, s) = {}, NEW owner
  PROVE  LET c == SetOrdersHead(SetOwner(b, s, owner), s, NIL)
         IN Sound(c) /\ \A r : LiveOf(c, r) = LiveOf(b, r)
<1> DEFINE a == SetOwner(b, s, owner)
           c == SetOrdersHead(a, s, NIL)
<1>1. SeatSet(b, a, s, "owner", owner)
  BY BookFormed, SeatWrites
<1>2. Formed(a)
  BY <1>1 DEF SeatSet, But
<1> HIDE DEF a
<1>3. SeatSet(a, c, s, "head", NIL)
  BY <1>2, SeatWrites
<1> HIDE DEF c
<1>4. But({"seats"}, b, a) /\ But({"seats"}, a, c)
  BY <1>1, <1>3 DEF SeatSet
<1>5. But({"seats"} \cup {"seats"}, b, c)
  BY <1>4, ButTrans
<1>6. But({"seats"}, b, c)
  BY <1>5 DEF But
<1>7. /\ c.anchor = b.anchor /\ c.bits = b.bits /\ c.levels = b.levels /\ c.pool = b.pool
      /\ c.freeHead = b.freeHead /\ c.freeCount = b.freeCount /\ c.orderSeq = b.orderSeq
  BY <1>6, ButIs DEF But, BookFields
<1>8. \A r \in SeatIds : r # s => c.seats[r] = b.seats[r]
  BY <1>1, <1>3 DEF SeatSet
<1>9. c.seats[s].head = NIL /\ c.seats[s].count = b.seats[s].count
  BY <1>1, <1>3 DEF SeatSet, SeatFields
<1>10. Follows(b, s, -1, FirstOf(b, s))
  BY DEF Sound, ChainsAt
<1>11. FirstOf(b, s) = NIL
  BY <1>10 DEF Follows
<1>12. Alike(b, c)
  <2>1. \A r \in SeatIds : FirstOf(c, r) = FirstOf(b, r) /\ CountOf(c, r) = CountOf(b, r)
    BY <1>8, <1>9, <1>11 DEF FirstOf, CountOf
  <2>2. \A k \in Nodes : /\ PrevOf(c, k) = PrevOf(b, k) /\ NextOf(c, k) = NextOf(b, k)
                      /\ SideOf(c, k) = SideOf(b, k) /\ TickOf(c, k) = TickOf(b, k)
                      /\ MakerOf(c, k) = MakerOf(b, k) /\ ChainPrevOf(c, k) = ChainPrevOf(b, k)
                      /\ ChainNextOf(c, k) = ChainNextOf(b, k) /\ IsLive(c, k) = IsLive(b, k)
    BY <1>7 DEF PrevOf, NextOf, SideOf, TickOf, MakerOf, ChainPrevOf, ChainNextOf, IsLive
  <2>3. \A l \in Ring : HeadOf(c, l) = HeadOf(b, l) /\ TailOf(c, l) = TailOf(b, l)
    BY <1>7 DEF HeadOf, TailOf
  <2> QED BY <1>7, <2>1, <2>2, <2>3 DEF Alike
<1>13. \A k \in Live(b) : LotsOf(c, k) > 0 /\ OwnerOf(c, MakerOf(b, k)) # Nobody
  <2> SUFFICES ASSUME NEW k \in Live(b) PROVE LotsOf(c, k) > 0 /\ OwnerOf(c, MakerOf(b, k)) # Nobody
    OBVIOUS
  <2>1. LotsOf(b, k) > 0 /\ OwnerOf(b, MakerOf(b, k)) # Nobody
    BY DEF Sound, Housed
  <2>2. LotsOf(c, k) = LotsOf(b, k)
    BY <1>7 DEF LotsOf
  <2>3. MakerOf(b, k) \in SeatIds /\ MakerOf(b, k) # s
    BY BookSeatwise, LiveNodes, LivesAre DEF Seatwise
  <2> QED BY <1>8, <2>1, <2>2, <2>3 DEF OwnerOf
<1>14. Live(c) = Live(b) /\ \A r : LiveOf(c, r) = LiveOf(b, r)
  BY <1>12, AlikeLives
<1>15. Summed(c)
  <2>1. \A r \in SeatIds : c.seats[r].locked = b.seats[r].locked
    BY <1>1, <1>3 DEF SeatSet, SeatFields
  <2>2. \A r \in SeatIds : \A a2 \in Assets : LockedOf(c, r, a2) = LockedOf(b, r, a2)
    BY <2>1 DEF LockedOf
  <2>3. SameSums(b, c)
    BY <1>7, <1>14, <2>2 DEF SameSums, SideOf, TickOf, MakerOf, LotsOf, TotalOf
  <2> QED BY <2>3, SummedSame DEF Sound
<1>16. Sound(c)
  <2>1. \A k \in Live(b) : SeqOf(c, k) = SeqOf(b, k)
    BY <1>7 DEF SeqOf
  <2> QED BY <1>7, <1>12, <1>13, <1>15, <2>1, SoundAlike
<1> QED BY <1>14, <1>16 DEF c, a

LEMMA HandOverCommit ==
  ASSUME SInv, ix = Idle, NEW s \in SeatIds, LiveOf(book, s) = {}, NEW owner, NEW v,
         SetOrdersHead(SetOwner(book, s, owner), s, NIL) \in Book,
         Commit(SetOrdersHead(SetOwner(book, s, owner), s, NIL), v)
  PROVE  Structured'
<1> DEFINE c == SetOrdersHead(SetOwner(book, s, owner), s, NIL)
<1>1. book \in Book /\ Sound(book) /\ Capped(book)
  BY SBook, IdleCapped DEF SInv, Structured
<1>2. Sound(c) /\ \A r : LiveOf(c, r) = LiveOf(book, r)
  BY <1>1, HandOver
<1> HIDE DEF c
<1>3. Capped(c)
  BY <1>1, <1>2 DEF Capped
<1> QED BY <1>2, <1>3, CommitS DEF c

LEMMA CustodyS == ASSUME SInv, CustodyNext PROVE Structured'
<1>1. book \in Book /\ Sound(book) /\ Formed(book)
  BY SBook, BookFormed DEF SInv, Structured
<1>2. ASSUME NEW o \in Owners, ClaimSeat(o) PROVE Structured'
  <2> DEFINE s == CHOOSE f \in FreeSeats : \A g \in FreeSeats : f <= g
  <2>1. s \in FreeSeats /\ ix = Idle /\ Commit(SetOrdersHead(SetOwner(book, s, o), s, NIL), vault)
    <3>1. FreeSeats \subseteq Nat /\ FreeSeats # {}
      BY <1>2, BookAssumption DEF ClaimSeat, FreeSeats, SeatIds
    <3>2. \E f \in FreeSeats : \A g \in FreeSeats : f <= g
      BY <3>1, NatLeast
    <3> QED BY <1>2, <3>2 DEF ClaimSeat, Starts
  <2>2. s \in SeatIds /\ OwnerOf(book, s) = Nobody
    BY <2>1 DEF FreeSeats, OwnerOf
  <2> HIDE DEF s
  <2>3. LiveOf(book, s) = {}
    BY <1>1, <2>2, LivesAre DEF Sound, Housed
  <2>4. SetOrdersHead(SetOwner(book, s, o), s, NIL) \in Book
    <3>1. Kept(book, SetOwner(book, s, o))
      BY <1>1, <2>2, SeatSetters
    <3>2. SetOwner(book, s, o) \in Book
      BY <3>1, KeptBook
    <3>3. Kept(SetOwner(book, s, o), SetOrdersHead(SetOwner(book, s, o), s, NIL))
      BY <2>2, <3>2, SeatSetters, NilIsLink
    <3> QED BY <3>3, KeptBook
  <2> QED BY <2>1, <2>2, <2>3, <2>4, HandOverCommit
<1>3. ASSUME NEW s \in SeatIds, CloseSeat(s) PROVE Structured'
  <2>1. ix = Idle /\ CountOf(book, s) = 0 /\ Commit(SetOrdersHead(SetOwner(book, s, Nobody), s, NIL), vault)
    BY <1>3 DEF CloseSeat, Starts, CountOf
  <2>2. Cardinality(LiveOf(book, s)) = 0
    BY <1>1, <2>1, CountIs DEF Sound
  <2>3. LiveOf(book, s) = {}
    BY <2>2, LivesFinite, FS_EmptySet
  <2>4. SetOrdersHead(SetOwner(book, s, Nobody), s, NIL) \in Book
    <3>1. Kept(book, SetOwner(book, s, Nobody))
      BY <1>1, SeatSetters
    <3>2. SetOwner(book, s, Nobody) \in Book
      BY <3>1, KeptBook
    <3>3. Kept(SetOwner(book, s, Nobody), SetOrdersHead(SetOwner(book, s, Nobody), s, NIL))
      BY <3>2, SeatSetters, NilIsLink
    <3> QED BY <3>3, KeptBook
  <2> QED BY <2>1, <2>3, <2>4, HandOverCommit
<1>4. \A s \in SeatIds : \A x, y : Credited(book, AddFree(AddFree(book, s, "base", x), s, "quote", y))
  <2> SUFFICES ASSUME NEW s \in SeatIds, NEW x, NEW y
               PROVE Credited(book, AddFree(AddFree(book, s, "base", x), s, "quote", y))
    OBVIOUS
  <2> DEFINE c == AddFree(book, s, "base", x)
  <2>1. Credited(book, c)
    BY <1>1, CreditsMade
  <2> HIDE DEF c
  <2>2. Credited(c, AddFree(c, s, "quote", y))
    BY <2>1, CreditedFormed, CreditsMade
  <2> QED BY <2>1, <2>2, CreditedTrans DEF c
<1>5. ASSUME ix = Idle, NEW s \in SeatIds, NEW x, NEW y, NEW v,
             Commit(AddFree(AddFree(book, s, "base", x), s, "quote", y), v)
      PROVE  Structured'
  <2>1. ix.op # "MassQuote"
    BY <1>5 DEF Idle
  <2> QED BY <1>4, <1>5, <2>1, CreditedCommit
<1>6. ASSUME NEW s \in SeatIds, NEW base \in DepositAmounts, NEW quote \in DepositAmounts, Deposit(s, base, quote)
      PROVE  Structured'
  <2>1. PICK x \in Received(base), y \in Received(quote) :
          Commit(AddFree(AddFree(book, s, "base", x), s, "quote", y),
                 [vault EXCEPT !["base"] = @ + x, !["quote"] = @ + y])
    BY <1>6 DEF Deposit
  <2>2. ix = Idle
    BY <1>6 DEF Deposit, Starts
  <2> QED BY <1>5, <2>1, <2>2
<1>7. ASSUME NEW s \in SeatIds, NEW base \in WithdrawAmounts, NEW quote \in WithdrawAmounts, Withdraw(s, base, quote)
      PROVE  Structured'
  <2>1. ix = Idle /\ \E x, y, v : Commit(AddFree(AddFree(book, s, "base", x), s, "quote", y), v)
    BY <1>7 DEF Withdraw, Starts
  <2> QED BY <1>5, <2>1
<1>8. ASSUME ix = Idle, NEW b, \/ b = [book EXCEPT !.fees = 0]
                               \/ \E rate : b = [book EXCEPT !.feeBps = rate],
             NEW v, Commit(b, v)
      PROVE  Structured'
  <2>1. Credited(book, b)
    BY <1>1, <1>8 DEF Formed, Credited, Paid, But, BookFields
  <2>2. ix.op # "MassQuote"
    BY <1>8 DEF Idle
  <2> QED BY <1>8, <2>1, <2>2, CreditedCommit
<1>9. ASSUME CollectFees PROVE Structured'
  <2>1. ix = Idle /\ \E v : Commit([book EXCEPT !.fees = 0], v)
    BY <1>9 DEF CollectFees, Starts
  <2> QED BY <1>8, <2>1
<1>10. ASSUME NEW rate \in FeeRates, UpdateFee(rate) PROVE Structured'
  <2>1. ix = Idle /\ Commit([book EXCEPT !.feeBps = rate], vault)
    BY <1>10 DEF UpdateFee, Starts
  <2> QED BY <1>8, <2>1
<1> QED BY <1>2, <1>3, <1>6, <1>7, <1>9, <1>10 DEF CustodyNext

-----------------------------------------------------------------------------
(* Single orders                                                           *)

LEMMA KillCommitS ==
  ASSUME SInv, ix.op # "MassQuote", NEW n \in Live(book), Refundable(book, n), NEW v,
         Commit(KillOrder(book, n), v)
  PROVE  Structured'
<1>1. book \in Book /\ Sound(book)
  BY SBook DEF SInv, Structured
<1>2. n \in Links
  BY LiveNodes DEF Nodes, Links
<1>3. KillOrder(book, n) \in Book
  BY <1>1, <1>2, KillOrderKept, KeptBook
<1>4. Sound(KillOrder(book, n)) /\ Thins(book, KillOrder(book, n))
  BY <1>1, KillSound
<1> QED BY <1>3, <1>4, ThinsCommit

LEMMA PostOnlyS ==
  ASSUME SInv, NEW s \in SeatIds, NEW side \in Sides, NEW tick \in InTicks, NEW lots \in InLots,
         NEW reject \in BOOLEAN, NEW expiry \in InExpiries,
         PostOnly(s, side, tick, lots, reject, expiry)
  PROVE  Structured'
<1> DEFINE f == Upsert(book, s, side, tick, lots, expiry, ~reject)
<1>1. /\ ix = Idle /\ OwnerOf(book, s) # Nobody /\ CanUpsert(book, s, side, tick, lots, ~reject)
      /\ IdsLeft(1) /\ Commit(f, vault)
  BY DEF PostOnly, Starts, Signed, OwnerOf
<1>2. tick \in Nat /\ lots \in Nat \ {0} /\ lots \in Nat /\ expiry \in Nat /\ (~reject) \in BOOLEAN
  BY MakerAssumption
<1>3. book \in Book /\ WindowClear(book) /\ Sound(book) /\ Capped(book)
  BY <1>1, SBook, IdleCapped DEF SInv, Structured
<1>4. f \in Book
  BY <1>1, <1>2, <1>3, UpsertKept, KeptBook
<1>5. Sound(f) /\ Capped(f)
  <2>1. Dateable(book)
    BY <1>1, DateRoom
  <2> QED BY <1>1, <1>2, <1>3, <2>1, UpsertSound
<1> HIDE DEF f
<1> QED BY <1>1, <1>4, <1>5, CommitS

LEMMA CancelQuoteS ==
  ASSUME SInv, NEW s \in SeatIds, NEW side \in Sides, NEW tick \in InTicks, CancelQuote(s, side, tick)
  PROVE  Structured'
<1> DEFINE n == QuoteAt(book, s, side, tick)
<1>1. /\ ix = Idle /\ QuotesAt(book, s, side, tick) # {} /\ Refundable(book, n)
      /\ Commit(KillOrder(book, n), vault)
  BY DEF CancelQuote, Starts
<1>2. n \in LiveOf(book, s)
  BY <1>1 DEF QuoteAt, QuotesAt
<1>3. n \in Live(book)
  BY <1>2, LivesAre
<1>4. ix.op # "MassQuote"
  BY <1>1 DEF Idle
<1> HIDE DEF n
<1> QED BY <1>1, <1>3, <1>4, KillCommitS

LEMMA CancelS ==
  ASSUME SInv, NEW s \in SeatIds, NEW n \in Nodes, NEW id \in CancelIds, Cancel(s, n, id)
  PROVE  Structured'
<1>1. /\ ix = Idle /\ book.pool[n].seq = id /\ Refundable(book, n) /\ Commit(KillOrder(book, n), vault)
  BY DEF Cancel, Starts
<1>2. n \in Live(book)
  BY <1>1 DEF SInv, Live, IsLive
<1>3. ix.op # "MassQuote"
  BY <1>1 DEF Idle
<1> QED BY <1>1, <1>2, <1>3, KillCommitS

-----------------------------------------------------------------------------
(* The merge                                                               *)

LEMMA PayloadLen ==
  ASSUME NEW i \in MassQuoteIx
  PROVE  Len(i.bids) \in Nat /\ Len(i.asks) \in Nat /\ Len(Payload(i)) \in Nat
<1>1. i.bids \in Payloads /\ i.asks \in Payloads
  BY DEF MassQuoteIx
<1>2. /\ i.bids \in Seq([tick : Nat, lots : Nat, reject : BOOLEAN])
      /\ i.asks \in Seq([tick : Nat, lots : Nat, reject : BOOLEAN])
  BY <1>1, MakerAssumption
<1> QED BY <1>2 DEF Payload

LEMMA BeginMassQuoteS ==
  ASSUME SInv, NEW s \in SeatIds, NEW bids \in Payloads, NEW asks \in Payloads,
         NEW expiry \in InExpiries, BeginMassQuote(s, bids, asks, expiry)
  PROVE  Structured'
<1> DEFINE i == [op |-> "MassQuote", seat |-> s, bids |-> bids, asks |-> asks,
                 expiry |-> expiry, side |-> "bid", qi |-> 0,
                 prev |-> NIL, cur |-> book.seats[s].head,
                 lastTick |-> 0, lastUsed |-> 0, opposing |-> BestOf(book, "ask")]
<1>1. /\ ix = Idle /\ OwnerOf(book, s) # Nobody /\ Len(bids) + Len(asks) <= MaxOrdersPerSeat
      /\ Continue(book, i)
  BY DEF BeginMassQuote, Starts, Signed, OwnerOf
<1>2. book \in Book /\ Sound(book) /\ Capped(book)
  BY <1>1, SBook, IdleCapped DEF SInv, Structured
<1>3. /\ i.op = "MassQuote" /\ i.seat = s /\ i.bids = bids /\ i.asks = asks /\ i.side = "bid" /\ i.qi = 0
      /\ i.prev = NIL /\ i.cur = FirstOf(book, s) /\ i.lastUsed = 0
  BY DEF FirstOf
<1>4. Len(bids) \in Nat
  <2>1. bids \in Seq([tick : Nat, lots : Nat, reject : BOOLEAN])
    BY MakerAssumption
  <2> QED BY <2>1
<1> HIDE DEF i
<1>5. Follows(book, s, -1, FirstOf(book, s))
  BY <1>2 DEF Sound, ChainsAt
<1>6. At(book, s, NIL, FirstOf(book, s)) /\ BaseOf(book, NIL) = -1
  BY <1>5 DEF At, BaseOf
<1>7. Behind(book, s, NIL) = {}
  <2>1. \A k \in LiveOf(book, s) : PlaceOf(book, k) \in Nat
    BY <1>2, BookSeatwise, LivesFinite DEF Seatwise
  <2> QED BY <1>6, <2>1 DEF Behind
<1>8. Cardinality(Behind(book, s, NIL)) = 0
  BY <1>7, FS_EmptySet
<1>9. 0 <= TickLimit /\ -1 <= PlaceAt("bid", 0)
  BY BookAssumption DEF PlaceAt
<1>10. Consumed(i) = 0 /\ 0 <= Len(Payload(i))
  BY <1>3, <1>4 DEF Consumed, Payload
<1>11. Merges(book, i)
  <2>1. \A r \in SeatIds : Cardinality(LiveOf(book, r)) <= MaxOrdersPerSeat
    BY <1>2 DEF Capped
  <2>2. Cardinality(LiveOf(book, s)) <= MaxOrdersPerSeat + 0
    BY <2>1, BookAssumption, LivesFinite
  <2> QED BY <1>1, <1>3, <1>6, <1>8, <1>9, <1>10, <2>1, <2>2 DEF Merges
<1>12. Working(book, i)
  BY <1>3, <1>11 DEF Working
<1> QED BY <1>1, <1>2, <1>12, ContinueS

LEMMA MakerS == ASSUME SInv, MakerNext PROVE Structured'
BY PostOnlyS, CancelQuoteS, CancelS, BeginMassQuoteS DEF MakerNext

LEMMA MergeFacts ==
  ASSUME SInv, Merging
  PROVE  /\ book \in Book /\ Sound(book) /\ Merges(book, ix)
         /\ ix \in MassQuoteIx /\ ix.op = "MassQuote" /\ ix.seat \in SeatIds /\ ix.side \in Sides /\ ix.qi \in Nat
         /\ ix.expiry \in Nat /\ ix.cur \in Links /\ ix.prev \in Links /\ ix.opposing \in Nat /\ ix.lastUsed \in Nat
<1>1. ix \in MassQuoteIx
  BY SBook, MergeType
<1> QED BY <1>1, SBook DEF SInv, Structured, Working, Merging, MassQuoteIx

\* After an ask only asks come, higher ones.
LEMMA AskNext ==
  ASSUME NEW b \in Book, NEW j \in Nodes, NEW k \in Nodes, SideOf(b, j) = "ask", PlaceOf(b, j) < PlaceOf(b, k)
  PROVE  SideOf(b, k) = "ask" /\ TickOf(b, j) < TickOf(b, k)
<1>1. /\ b.pool[j].tick \in 0 .. TickLimit /\ b.pool[k].tick \in 0 .. TickLimit /\ b.pool[k].side \in Sides
  BY NodeType DEF Nodes, Links
<1>2. TickLimit \in Nat
  BY BookAssumption
<1> QED BY <1>1, <1>2 DEF SideOf, TickOf, PlaceOf, Sides

LEMMA Subcard ==
  ASSUME NEW b, NEW s, NEW S, NEW T, T \subseteq LiveOf(b, s), S \subseteq T
  PROVE  /\ IsFiniteSet(S) /\ IsFiniteSet(T) /\ Cardinality(S) \in Nat /\ Cardinality(T) \in Nat
         /\ Cardinality(S) <= Cardinality(T)
<1>1. IsFiniteSet(T)
  BY LivesFinite, FS_Subset
<1>2. IsFiniteSet(S) /\ Cardinality(S) <= Cardinality(T)
  BY <1>1, FS_Subset
<1> QED BY <1>1, <1>2, FS_CardinalityType

\* The cursor's quote is ended and the cursor moves on.
LEMMA MergeKilled ==
  ASSUME SInv, Merging, InRegion(ix)
  PROVE  LET c    == KillOrder(book, ix.cur)
             next == book.pool[ix.cur].makerNext
             i    == [ix EXCEPT !.cur = next]
         IN /\ Sound(c) /\ Clears(book, c) /\ Merges(c, i) /\ c.orderSeq = book.orderSeq
            /\ next # NIL => PlaceOf(book, ix.cur) < PlaceOf(c, next)
<1> DEFINE s    == ix.seat
           c    == KillOrder(book, ix.cur)
           next == book.pool[ix.cur].makerNext
           i    == [ix EXCEPT !.cur = next]
<1>1. /\ book \in Book /\ Sound(book) /\ Merges(book, ix) /\ ix \in MassQuoteIx /\ s \in SeatIds /\ ix.cur \in Links
      /\ ix.qi \in Nat
  BY MergeFacts
<1>2. ix.cur # NIL /\ SideOf(book, ix.cur) = ix.side
  BY DEF InRegion, SideOf
<1>3. At(book, s, ix.prev, ix.cur)
  BY <1>1 DEF Merges
<1>4. ix.cur \in LiveOf(book, s) /\ ix.cur \in Live(book) /\ ix.cur \in Nodes
  BY <1>1, <1>2, <1>3, BaseType
<1>5. Sound(c) /\ Ended(book, c, ix.cur) /\ Thins(book, c)
  BY <1>1, <1>4, KillSound
<1>6. Clears(book, c)
  BY <1>1, KillOrderClears
<1>7. /\ i.seat = s /\ i.side = ix.side /\ i.qi = ix.qi /\ i.bids = ix.bids /\ i.asks = ix.asks /\ i.prev = ix.prev
      /\ i.cur = next /\ i.lastUsed = ix.lastUsed /\ i.opposing = ix.opposing
  BY <1>1 DEF MassQuoteIx
<1>8. next = ChainNextOf(book, ix.cur)
  BY DEF ChainNextOf
<1> HIDE DEF c, i, s, next
<1>9. /\ At(c, s, ix.prev, next) /\ BaseOf(c, ix.prev) = BaseOf(book, ix.prev)
      /\ Behind(c, s, ix.prev) \subseteq Behind(book, s, ix.prev)
      /\ next # NIL => /\ next \in LiveOf(book, s) /\ PlaceOf(book, ix.cur) < PlaceOf(book, next)
                       /\ PlaceOf(c, next) = PlaceOf(book, next)
  BY <1>1, <1>2, <1>3, <1>5, <1>8, CursorKilled
<1>10. next # NIL => PlaceOf(book, ix.cur) < PlaceOf(c, next)
  BY <1>9
<1>11. ASSUME ix.side = "ask", next # NIL PROVE SideOf(c, next) = "ask" /\ ix.opposing < TickOf(c, next)
  <2>1. next \in Nodes /\ next \in Live(book)
    BY <1>9, <1>11, LivesFinite, LivesAre
  <2>2. SideOf(book, next) = "ask" /\ TickOf(book, ix.cur) < TickOf(book, next)
    BY <1>1, <1>2, <1>4, <1>9, <1>11, <2>1, AskNext
  <2>3. ix.opposing < TickOf(book, ix.cur)
    BY <1>1, <1>2, <1>11 DEF Merges
  <2>4. next # ix.cur
    BY <1>1, <1>4, <1>9, <1>11, <2>1, BookSeatwise DEF Seatwise
  <2>5. SideOf(c, next) = SideOf(book, next)
    BY <1>4, <1>5, <2>1, <2>4, EndedRead, BookAssumption
  <2>6. TickOf(c, next) = TickOf(book, next)
    BY <1>5, <2>1, <2>4, EndedOrderRead DEF Nodes, Links
  <2>7. ix.opposing \in Nat
    BY MergeFacts
  <2>8. TickOf(book, ix.cur) \in Nat /\ TickOf(book, next) \in Nat
    <3>1. ix.cur \in Links /\ next \in Links
      BY <1>4, <2>1 DEF Nodes, Links
    <3> QED BY <1>1, <3>1, NodeType, BookAssumption DEF TickOf
  <2> QED BY <2>2, <2>3, <2>5, <2>6, <2>7, <2>8
<1>12. Consumed(i) = Consumed(ix) /\ Payload(i) = Payload(ix)
  BY <1>7 DEF Consumed, Payload
<1>13. Consumed(ix) \in Nat /\ MaxOrdersPerSeat \in Nat
  BY <1>1, PayloadLen, BookAssumption DEF Consumed
<1>14. /\ \A r \in SeatIds : r # s => Cardinality(LiveOf(c, r)) <= MaxOrdersPerSeat
       /\ Cardinality(LiveOf(c, s)) <= MaxOrdersPerSeat + Consumed(ix)
  <2>1. \A r \in SeatIds : /\ Cardinality(LiveOf(c, r)) <= Cardinality(LiveOf(book, r))
                           /\ Cardinality(LiveOf(c, r)) \in Nat /\ Cardinality(LiveOf(book, r)) \in Nat
    BY <1>5, Subcard DEF Thins
  <2>2. /\ \A r \in SeatIds : r # s => Cardinality(LiveOf(book, r)) <= MaxOrdersPerSeat
        /\ Cardinality(LiveOf(book, s)) <= MaxOrdersPerSeat + Consumed(ix)
    BY <1>1 DEF Merges, s
  <2> QED BY <1>1, <1>13, <2>1, <2>2
<1>15. Cardinality(Behind(c, s, ix.prev)) <= Consumed(ix)
  <2>1. Behind(book, s, ix.prev) \subseteq LiveOf(book, s)
    BY DEF Behind
  <2>2. /\ Cardinality(Behind(c, s, ix.prev)) <= Cardinality(Behind(book, s, ix.prev))
        /\ Cardinality(Behind(c, s, ix.prev)) \in Nat /\ Cardinality(Behind(book, s, ix.prev)) \in Nat
    BY <1>9, <2>1, Subcard
  <2>3. Cardinality(Behind(book, s, ix.prev)) <= Consumed(ix)
    BY <1>1 DEF Merges, s
  <2> QED BY <1>13, <2>2, <2>3
<1>16. OwnerOf(c, s) # Nobody
  BY <1>1, <1>5 DEF Thins, Merges, s
<1>17. /\ ix.qi <= Len(Payload(ix)) /\ Len(ix.bids) + Len(ix.asks) <= MaxOrdersPerSeat
       /\ ix.lastUsed <= TickLimit /\ BaseOf(book, ix.prev) <= PlaceAt(ix.side, ix.lastUsed)
  BY <1>1 DEF Merges
<1>18. Merges(c, i)
  BY <1>7, <1>9, <1>11, <1>12, <1>14, <1>15, <1>16, <1>17 DEF Merges
<1>19. c.orderSeq = book.orderSeq
  BY <1>5 DEF Ended
<1> QED BY <1>5, <1>6, <1>10, <1>18, <1>19 DEF c, i, next

LEMMA OneMore ==
  ASSUME NEW S, IsFiniteSet(S), NEW n
  PROVE  Cardinality(S \cup {n}) <= Cardinality(S) + 1 /\ IsFiniteSet(S \cup {n}) /\ Cardinality(S \cup {n}) \in Nat
<1>1. Cardinality(S \cup {n}) = Cardinality(S) \/ Cardinality(S \cup {n}) = Cardinality(S) + 1
  <2>1. CASE n \in S
    <3>1. S \cup {n} = S
      BY <2>1
    <3> QED BY <3>1
  <2>2. CASE n \notin S
    BY <2>2, FS_AddElement
  <2> QED BY <2>1, <2>2
<1>2. Cardinality(S) \in Nat
  BY FS_CardinalityType
<1>3. IsFiniteSet(S \cup {n})
  BY FS_AddElement
<1>4. Cardinality(S \cup {n}) \in Nat
  BY <1>3, FS_CardinalityType
<1> QED BY <1>1, <1>2, <1>3, <1>4

LEMMA MergingContinues ==
  ASSUME SInv, NEW c, Sound(c), NEW i, i.op = "MassQuote", Merges(c, i), Continue(c, i)
  PROVE  Structured'
<1>1. Working(c, i)
  BY DEF Working
<1> QED BY <1>1, ContinueS

LEMMA MergeCancelS == ASSUME SInv, MergeCancel PROVE Structured'
<1> DEFINE c == KillOrder(book, ix.cur)
           i == [ix EXCEPT !.cur = book.pool[ix.cur].makerNext]
<1>1. Merging /\ InRegion(ix) /\ Continue(c, i)
  BY DEF MergeCancel
<1>2. Sound(c) /\ Merges(c, i)
  BY <1>1, MergeKilled
<1>3. i.op = "MassQuote"
  BY <1>1, MergeFacts DEF MassQuoteIx
<1> HIDE DEF c, i
<1> QED BY <1>1, <1>2, <1>3, MergingContinues

LEMMA MergeKeepS == ASSUME SInv, MergeKeep PROVE Structured'
<1> DEFINE q    == Quote(ix)
           s    == ix.seat
           next == book.pool[ix.cur].makerNext
           c    == ShrinkOrder(book, ix.seat, ix.cur, q.lots, ix.expiry)
           i    == [ix EXCEPT !.lastUsed = q.tick, !.lastTick = q.tick,
                              !.qi = @ + 1, !.prev = ix.cur, !.cur = next]
<1>1. /\ Merging /\ ~BadQuote(ix) /\ InRegion(ix) /\ HasQuote(ix) /\ Continue(c, i)
      /\ TickOf(book, ix.cur) = q.tick
  BY DEF MergeKeep, TickOf
<1>2. /\ book \in Book /\ Sound(book) /\ Merges(book, ix) /\ ix \in MassQuoteIx /\ s \in SeatIds /\ ix.cur \in Links
      /\ ix.qi \in Nat /\ ix.side \in Sides
  BY <1>1, MergeFacts
<1>3. q.lots \in Nat /\ q.lots > 0 /\ q.tick \in Nat
  BY <1>1, SBook, MergeType DEF BadQuote
<1>4. ix.cur # NIL /\ SideOf(book, ix.cur) = ix.side
  BY <1>1 DEF InRegion, SideOf
<1>5. At(book, s, ix.prev, ix.cur)
  BY <1>2 DEF Merges
<1>6. ix.cur \in LiveOf(book, s) /\ ix.cur \in Live(book) /\ ix.cur \in Nodes
  BY <1>2, <1>4, <1>5, BaseType
<1> HIDE DEF q
<1>7. Sound(c) /\ Alike(book, c) /\ Thins(book, c)
  <2>1. s = MakerOf(book, ix.cur)
    BY <1>6, LivesAre
  <2> QED BY <1>2, <1>3, <1>6, <2>1, ShrinkSound
<1>8. /\ i.op = "MassQuote"
      /\ i.seat = s /\ i.side = ix.side /\ i.qi = ix.qi + 1 /\ i.bids = ix.bids /\ i.asks = ix.asks /\ i.prev = ix.cur
      /\ i.cur = next /\ i.lastUsed = q.tick /\ i.opposing = ix.opposing
  BY <1>1, <1>2, MergeFacts DEF MassQuoteIx
<1>9. next = ChainNextOf(book, ix.cur)
  BY DEF ChainNextOf
<1> HIDE DEF c, i, s, next
<1>10. /\ At(c, s, ix.cur, next) /\ BaseOf(c, ix.cur) = PlaceOf(book, ix.cur)
       /\ Behind(c, s, ix.cur) \subseteq Behind(book, s, ix.prev) \cup {ix.cur}
       /\ next # NIL => next \in LiveOf(book, s) /\ PlaceOf(book, ix.cur) < PlaceOf(book, next)
  BY <1>2, <1>4, <1>5, <1>7, <1>9, CursorKept
<1>11. ASSUME ix.side = "ask", next # NIL PROVE SideOf(c, next) = "ask" /\ ix.opposing < TickOf(c, next)
  <2>1. next \in Nodes /\ next \in Live(book)
    BY <1>10, <1>11, LivesFinite, LivesAre
  <2>2. SideOf(book, next) = "ask" /\ TickOf(book, ix.cur) < TickOf(book, next)
    BY <1>2, <1>4, <1>6, <1>10, <1>11, <2>1, AskNext
  <2>3. ix.opposing < TickOf(book, ix.cur)
    BY <1>2, <1>4, <1>11 DEF Merges
  <2>4. SideOf(c, next) = SideOf(book, next) /\ TickOf(c, next) = TickOf(book, next)
    BY <1>7, <2>1 DEF Alike
  <2>5. ix.opposing \in Nat
    BY <1>1, MergeFacts
  <2>6. TickOf(book, ix.cur) \in Nat /\ TickOf(book, next) \in Nat
    <3>1. ix.cur \in Links /\ next \in Links
      BY <1>6, <2>1 DEF Nodes, Links
    <3> QED BY <1>2, <3>1, NodeType, BookAssumption DEF TickOf
  <2> QED BY <2>2, <2>3, <2>4, <2>5, <2>6
<1>12. Consumed(ix) \in Nat /\ MaxOrdersPerSeat \in Nat /\ Len(Payload(ix)) \in Nat
  BY <1>2, PayloadLen, BookAssumption DEF Consumed
<1>13. Consumed(i) = Consumed(ix) + 1 /\ Payload(i) = Payload(ix) /\ i.qi <= Len(Payload(i))
  <2>1. Payload(i) = Payload(ix)
    BY <1>8 DEF Payload
  <2>2. Len(ix.bids) \in Nat
    BY <1>2, PayloadLen
  <2> QED BY <1>1, <1>2, <1>8, <1>12, <2>1, <2>2 DEF Consumed, HasQuote
<1>14. /\ \A r \in SeatIds : r # s => Cardinality(LiveOf(c, r)) <= MaxOrdersPerSeat
       /\ Cardinality(LiveOf(c, s)) <= MaxOrdersPerSeat + Consumed(i)
  <2>1. \A r \in SeatIds : LiveOf(c, r) = LiveOf(book, r) /\ Cardinality(LiveOf(book, r)) \in Nat
    BY <1>7, AlikeLives, LivesFinite
  <2>2. /\ \A r \in SeatIds : r # s => Cardinality(LiveOf(book, r)) <= MaxOrdersPerSeat
        /\ Cardinality(LiveOf(book, s)) <= MaxOrdersPerSeat + Consumed(ix)
    BY <1>2 DEF Merges, s
  <2> QED BY <1>2, <1>12, <1>13, <2>1, <2>2
<1>15. Cardinality(Behind(c, s, ix.cur)) <= Consumed(i)
  <2> DEFINE B == Behind(book, s, ix.prev)
  <2>1. B \subseteq LiveOf(book, s) /\ B \cup {ix.cur} \subseteq LiveOf(book, s)
    BY <1>6 DEF Behind
  <2> HIDE DEF B
  <2>2. /\ Cardinality(Behind(c, s, ix.cur)) <= Cardinality(B \cup {ix.cur})
        /\ Cardinality(Behind(c, s, ix.cur)) \in Nat /\ Cardinality(B \cup {ix.cur}) \in Nat
    BY <1>10, <2>1, Subcard DEF B
  <2>3. IsFiniteSet(B) /\ Cardinality(B) \in Nat
    BY <2>1, Subcard
  <2>4. Cardinality(B \cup {ix.cur}) <= Cardinality(B) + 1
    BY <2>3, OneMore
  <2>5. Cardinality(B) <= Consumed(ix)
    BY <1>2 DEF Merges, s, B
  <2> QED BY <1>12, <1>13, <2>2, <2>3, <2>4, <2>5
<1>16. OwnerOf(c, s) # Nobody
  BY <1>2, <1>7 DEF Thins, Merges, s
<1>17. q.tick <= TickLimit /\ PlaceOf(book, ix.cur) = PlaceAt(ix.side, q.tick)
  <2>1. book.pool[ix.cur].tick \in 0 .. TickLimit /\ book.pool[ix.cur].tick = q.tick /\ book.pool[ix.cur].side = ix.side
    BY <1>1, <1>2, <1>4, NodeType DEF TickOf, SideOf
  <2> QED BY <2>1, BookAssumption DEF PlaceOf, PlaceAt
<1>18. PlaceAt(ix.side, q.tick) <= PlaceAt(ix.side, q.tick)
  BY <1>3, BookAssumption DEF PlaceAt
<1>19. Len(ix.bids) + Len(ix.asks) <= MaxOrdersPerSeat
  BY <1>2 DEF Merges
<1>20. Merges(c, i)
  BY <1>8, <1>10, <1>11, <1>13, <1>14, <1>15, <1>16, <1>17, <1>18, <1>19 DEF Merges
<1> QED BY <1>1, <1>7, <1>8, <1>20, MergingContinues

\* A slid bid comes down; a slid ask lands one above the price it slid from.
LEMMA SlideTick ==
  ASSUME NEW b, NEW side \in Sides, NEW tick \in Nat, NEW slide, NEW opposing \in Nat,
         NEW t, t = CheckOrSlideVs(b, side, tick, slide, opposing), t # NoTick
  PROVE  /\ side = "bid" => t <= tick
         /\ side = "ask" => t = tick \/ t = opposing + 1
BY DEF CheckOrSlideVs, Meets, Sides

\* The merge after it has placed a quote of its own before the cursor.
LEMMA MergeEntered ==
  ASSUME SInv, Merging, HasQuote(ix), NEW b \in Book, NEW next, Merges(b, [ix EXCEPT !.cur = next]),
         NEW tick \in 0 .. TickLimit, ix.lastUsed < tick,
         next # NIL => PlaceAt(ix.side, tick) < PlaceOf(b, next),
         NEW n \in Nodes, n \notin Live(b), NEW lots, NEW c,
         Entered(b, c, n, ix.side, tick, lots, ix.seat, ix.prev, next), NEW last
  PROVE  Merges(c, [ix EXCEPT !.prev = n, !.cur = next, !.lastUsed = tick, !.lastTick = last, !.qi = @ + 1])
<1> DEFINE s == ix.seat
           h == [ix EXCEPT !.cur = next]
           i == [ix EXCEPT !.prev = n, !.cur = next, !.lastUsed = tick, !.lastTick = last, !.qi = @ + 1]
<1>1. /\ ix \in MassQuoteIx /\ s \in SeatIds /\ ix.side \in Sides /\ ix.qi \in Nat /\ ix.lastUsed \in Nat /\ ix.opposing \in Nat
  BY MergeFacts
<1>2. /\ h.seat = s /\ h.side = ix.side /\ h.qi = ix.qi /\ h.bids = ix.bids /\ h.asks = ix.asks /\ h.prev = ix.prev
      /\ h.cur = next /\ h.lastUsed = ix.lastUsed /\ h.opposing = ix.opposing
  BY <1>1 DEF MassQuoteIx
<1>3. /\ i.seat = s /\ i.side = ix.side /\ i.qi = ix.qi + 1 /\ i.bids = ix.bids /\ i.asks = ix.asks /\ i.prev = n
      /\ i.cur = next /\ i.lastUsed = tick /\ i.opposing = ix.opposing
  BY <1>1 DEF MassQuoteIx
<1> HIDE DEF h, i, s
<1>4. /\ OwnerOf(b, s) # Nobody
      /\ Len(ix.bids) + Len(ix.asks) <= MaxOrdersPerSeat
      /\ At(b, s, ix.prev, next)
      /\ BaseOf(b, ix.prev) <= PlaceAt(ix.side, ix.lastUsed)
      /\ ix.side = "ask" /\ next # NIL => SideOf(b, next) = "ask" /\ ix.opposing < TickOf(b, next)
      /\ \A r \in SeatIds : r # s => Cardinality(LiveOf(b, r)) <= MaxOrdersPerSeat
      /\ Cardinality(LiveOf(b, s)) <= MaxOrdersPerSeat + Consumed(h)
      /\ Cardinality(Behind(b, s, ix.prev)) <= Consumed(h)
  BY <1>2 DEF Merges, h
<1>5. Consumed(h) = Consumed(ix) /\ Consumed(i) = Consumed(ix) + 1 /\ Payload(i) = Payload(ix) /\ Consumed(ix) \in Nat
      /\ i.qi <= Len(Payload(i))
  <2>1. Payload(i) = Payload(ix)
    BY <1>3 DEF Payload
  <2>2. Len(ix.bids) \in Nat /\ Len(Payload(ix)) \in Nat
    BY <1>1, PayloadLen
  <2>3. Consumed(h) = Consumed(ix)
    BY <1>2 DEF Consumed
  <2> QED BY <1>1, <1>3, <2>1, <2>2, <2>3 DEF Consumed, HasQuote
<1>6. BaseOf(b, ix.prev) < PlaceAt(ix.side, tick) /\ tick \in Nat /\ tick <= TickLimit
  <2>1. BaseOf(b, ix.prev) \in Int
    BY <1>4, BaseType
  <2>2. TickLimit \in Nat
    BY BookAssumption
  <2>3. PlaceAt(ix.side, ix.lastUsed) < PlaceAt(ix.side, tick) /\ PlaceAt(ix.side, ix.lastUsed) \in Nat
        /\ PlaceAt(ix.side, tick) \in Nat
    BY <1>1, <2>2 DEF PlaceAt
  <2> QED BY <1>4, <2>1, <2>2, <2>3
<1>7. Entered(b, c, n, ix.side, tick, lots, s, ix.prev, next)
  BY DEF s
<1>8. At(c, s, n, next) /\ BaseOf(c, n) = PlaceAt(ix.side, tick)
      /\ Behind(c, s, n) \subseteq Behind(b, s, ix.prev) \cup {n}
  BY <1>1, <1>4, <1>6, <1>7, CursorEntered
<1>9. LiveOf(c, s) = LiveOf(b, s) \cup {n} /\ \A r : r # s => LiveOf(c, r) = LiveOf(b, r)
  BY <1>1, <1>7, EnteredPlaces
<1>10. OwnerOf(c, s) = OwnerOf(b, s)
  BY <1>1, <1>7, EnteredSeatRead
<1>11. next # NIL => next # n /\ next \in Nodes
  <2>1. next # NIL => next \in LiveOf(b, s)
    BY <1>4, BaseType
  <2> QED BY <2>1, LivesAre, LivesFinite
<1>12. next # NIL => SideOf(c, next) = SideOf(b, next)
  <2>1. NextOrderId(b) # FreedSeq
    BY BookAssumption DEF NextOrderId
  <2> QED BY <1>7, <1>11, <2>1, EnteredRead
<1>13. next # NIL => TickOf(c, next) = TickOf(b, next)
  BY <1>7, <1>11, EnteredOrderRead, BookAssumption DEF Nodes, Links
<1>14. ix.side = "ask" /\ next # NIL => SideOf(c, next) = "ask" /\ ix.opposing < TickOf(c, next)
  BY <1>4, <1>12, <1>13
<1>15. /\ \A r \in SeatIds : r # s => Cardinality(LiveOf(c, r)) <= MaxOrdersPerSeat
       /\ Cardinality(LiveOf(c, s)) <= MaxOrdersPerSeat + Consumed(i)
  <2>1. Cardinality(LiveOf(c, s)) <= Cardinality(LiveOf(b, s)) + 1
    BY <1>9, LivesFinite, OneMore
  <2>2. Cardinality(LiveOf(c, s)) \in Nat /\ Cardinality(LiveOf(b, s)) \in Nat /\ MaxOrdersPerSeat \in Nat
    BY LivesFinite, BookAssumption
  <2> QED BY <1>4, <1>5, <1>9, <2>1, <2>2
<1>16. Cardinality(Behind(c, s, n)) <= Consumed(i)
  <2> DEFINE B == Behind(b, s, ix.prev)
  <2>1. B \subseteq LiveOf(b, s) /\ Behind(c, s, n) \subseteq LiveOf(c, s)
    BY DEF Behind
  <2> HIDE DEF B
  <2>2. IsFiniteSet(B) /\ Cardinality(B) \in Nat
    BY <2>1, Subcard
  <2>3. Cardinality(B \cup {n}) <= Cardinality(B) + 1 /\ IsFiniteSet(B \cup {n}) /\ Cardinality(B \cup {n}) \in Nat
    BY <2>2, OneMore
  <2>4. Cardinality(Behind(c, s, n)) <= Cardinality(B \cup {n})
    BY <1>8, <2>3, FS_Subset DEF B
  <2>5. Cardinality(Behind(c, s, n)) \in Nat
    BY <2>1, Subcard
  <2>6. Cardinality(B) <= Consumed(h)
    BY <1>4 DEF B
  <2> QED BY <1>5, <2>2, <2>3, <2>4, <2>5, <2>6
<1>17. BaseOf(c, n) <= PlaceAt(ix.side, tick)
  BY <1>6, <1>8, BookAssumption DEF PlaceAt
<1>18. Merges(c, i)
  BY <1>3, <1>4, <1>5, <1>6, <1>8, <1>9, <1>10, <1>14, <1>15, <1>16, <1>17 DEF Merges
<1> QED BY <1>18 DEF i

\* A quote the merge may post goes in between its cursor's neighbours.
LEMMA InsertEnters ==
  ASSUME SInv, Merging, HasQuote(ix), ~BadQuote(ix), NEW b, Kept(book, b), Clears(book, b), Sound(b),
         b.orderSeq = book.orderSeq, NEW next \in Links, Merges(b, [ix EXCEPT !.cur = next]), NEW tick,
         tick = CheckOrSlideVs(b, ix.side, Quote(ix).tick, ~Quote(ix).reject, ix.opposing),
         tick # NoTick, ix.lastUsed < tick, CanInsert(b, ix.seat, ix.side, tick, Quote(ix).lots),
         next # NIL => PlaceAt(ix.side, tick) < PlaceOf(b, next)
  PROVE  LET n == b.freeHead
             c == ChainSplice(LockAndInsert(b, ix.seat, ix.side, tick, Quote(ix).lots, ix.expiry),
                              ix.seat, ix.prev, next, n)
         IN /\ Sound(c) /\ Entered(b, c, n, ix.side, tick, Quote(ix).lots, ix.seat, ix.prev, next)
            /\ n \in Nodes /\ n \notin Live(b) /\ b \in Book /\ tick \in 0 .. TickLimit /\ tick \in Nat
            /\ At(b, ix.seat, ix.prev, next) /\ BaseOf(b, ix.prev) < PlaceAt(ix.side, tick)
<1> DEFINE q == Quote(ix)
           n == b.freeHead
           h == [ix EXCEPT !.cur = next]
<1>0. IInv /\ book \in Book
  BY SBook
<1>1. ix \in MassQuoteIx /\ ix.side \in Sides /\ q.tick \in Nat /\ (~q.reject) \in BOOLEAN
  BY <1>0, MergeType
<1>2. q.lots > 0 /\ q.lots \in Nat
  <2>1. q.lots \in Nat
    BY <1>0, MergeType
  <2> QED BY <2>1 DEF BadQuote
<1>3. ix.seat \in SeatIds /\ ix.lastUsed \in Nat
  BY MergeFacts
<1>4. b \in Book /\ WindowClear(b)
  BY <1>0, InvGood, GoodKept DEF Good, Header
<1>5. ix.opposing = NoTick \/ InWindow(b, ix.opposing)
  BY <1>0, InvGood, GoodKept DEF IInv, Progressing, Merging
<1>6. Bounds(b, ix.side, ix.opposing)
  BY <1>1, ClearsTicks DEF SInv, CrossInv, Crossless, Riding, Merging
<1>8. b.freeHead # NIL
  BY DEF CanInsert
<1>9. InWindow(b, tick) /\ Clear(b, ix.side, tick)
  <2> HIDE DEF q
  <2>1. tick = CheckOrSlideVs(b, ix.side, q.tick, ~q.reject, ix.opposing)
    BY DEF q
  <2> QED BY <1>1, <1>4, <1>5, <1>6, <2>1, CheckOrSlideVsInWindow, CheckOrSlideClear
<1> HIDE DEF q
<1>12. tick \in 0 .. TickLimit /\ tick \in Nat
  BY <1>4, <1>9, WindowTick
<1>13. Slot(tick) \notin b.bits[Opposite(ix.side)]
  BY <1>1, <1>9, <1>12, ClearSlot
<1>14. h.seat = ix.seat /\ h.prev = ix.prev /\ h.cur = next /\ h.lastUsed = ix.lastUsed /\ h.side = ix.side
  BY <1>1 DEF MassQuoteIx
<1>15. OwnerOf(b, ix.seat) # Nobody /\ At(b, ix.seat, ix.prev, next)
       /\ BaseOf(b, ix.prev) <= PlaceAt(ix.side, ix.lastUsed)
  <2> HIDE DEF h
  <2>1. Merges(b, h)
    BY DEF h
  <2> QED BY <1>14, <2>1 DEF Merges
<1> HIDE DEF h
<1>16. PlaceAt(ix.side, tick) \in Nat /\ BaseOf(b, ix.prev) < PlaceAt(ix.side, tick)
  <2>1. BaseOf(b, ix.prev) \in Int
    BY <1>4, <1>15, BaseType
  <2> QED BY <1>3, <1>12, <1>15, <2>1, BookAssumption DEF PlaceAt
<1>17. /\ Foregoes(b, ix.seat, PlaceAt(ix.side, tick), ix.prev) /\ Follows(b, ix.seat, PlaceAt(ix.side, tick), next)
       /\ \A k \in LiveOf(b, ix.seat) : PlaceOf(b, k) # PlaceAt(ix.side, tick)
  BY <1>3, <1>4, <1>15, <1>16, CursorFits
<1>18. Dateable(b)
  <2>1. /\ Len(ix.bids) \in Nat /\ Len(ix.asks) \in Nat /\ Len(Payload(ix)) \in Nat
        /\ ix.qi \in Nat /\ ix.qi < Len(Payload(ix))
    BY <1>1, PayloadLen, MergeFacts DEF HasQuote
  <2>2. QuotesLeft(ix) \in Nat /\ QuotesLeft(ix) > 0
    BY <2>1 DEF QuotesLeft
  <2>3. MaxOrderIds <= FreedSeq => book.orderSeq + QuotesLeft(ix) <= FreedSeq
    BY MergeFacts, DateRoom
  <2>4. book.orderSeq \in Nat /\ FreedSeq \in Nat
    BY <1>0, BookAssumption DEF Book
  <2> QED BY <2>2, <2>3, <2>4 DEF Dateable
<1>19. Fits(b, ix.side, tick, q.lots, ix.seat, ix.prev, next)
  BY <1>1, <1>2, <1>3, <1>9, <1>12, <1>13, <1>15, <1>17, <1>18 DEF Fits
<1> DEFINE c == ChainSplice(LockAndInsert(b, ix.seat, ix.side, tick, q.lots, ix.expiry), ix.seat, ix.prev, next, n)
<1>20. /\ Sound(c) /\ Entered(b, c, n, ix.side, tick, q.lots, ix.seat, ix.prev, next)
       /\ n \in Nodes /\ n \notin Live(b)
  BY <1>4, <1>8, <1>19, InsertSound
<1> HIDE DEF c, n
<1>21. /\ Sound(c) /\ Entered(b, c, n, ix.side, tick, q.lots, ix.seat, ix.prev, next)
       /\ n \in Nodes /\ n \notin Live(b) /\ b \in Book /\ tick \in 0 .. TickLimit /\ tick \in Nat
       /\ At(b, ix.seat, ix.prev, next) /\ BaseOf(b, ix.prev) < PlaceAt(ix.side, tick)
  BY <1>4, <1>12, <1>15, <1>16, <1>20
<1> QED BY <1>21 DEF c, n, q

LEMMA InsertS ==
  ASSUME SInv, Merging, HasQuote(ix), ~BadQuote(ix), NEW b, Kept(book, b), Clears(book, b), Sound(b),
         b.orderSeq = book.orderSeq, NEW next \in Links, Merges(b, [ix EXCEPT !.cur = next]), NEW nextTick,
         MassQuoteInsert(b, next, nextTick),
         LET t == CheckOrSlideVs(b, ix.side, Quote(ix).tick, ~Quote(ix).reject, ix.opposing)
         IN t # NoTick /\ t # nextTick /\ next # NIL => PlaceAt(ix.side, t) < PlaceOf(b, next)
  PROVE  Structured'
<1> DEFINE q    == Quote(ix)
           tick == CheckOrSlideVs(b, ix.side, q.tick, ~q.reject, ix.opposing)
           n    == b.freeHead
           c    == ChainSplice(LockAndInsert(b, ix.seat, ix.side, tick, q.lots, ix.expiry), ix.seat, ix.prev, next, n)
           i    == [ix EXCEPT !.prev = n, !.cur = next, !.lastUsed = tick, !.lastTick = q.tick, !.qi = @ + 1]
<1>1. CASE Abort
  BY <1>1, AbortS
<1>2. CASE /\ tick # NoTick /\ tick > ix.lastUsed /\ tick # nextTick
           /\ CanInsert(b, ix.seat, ix.side, tick, q.lots) /\ Continue(c, i)
  <2>1. i.op = "MassQuote" /\ ix.lastUsed \in Nat
    BY MergeFacts DEF MassQuoteIx
  <2>2. tick = CheckOrSlideVs(b, ix.side, Quote(ix).tick, ~Quote(ix).reject, ix.opposing)
    OBVIOUS
  <2>3. next # NIL => PlaceAt(ix.side, tick) < PlaceOf(b, next)
    BY <1>2
  <2>4. tick # NoTick /\ CanInsert(b, ix.seat, ix.side, tick, Quote(ix).lots) /\ tick > ix.lastUsed
    BY <1>2
  <2> HIDE DEF tick
  <2>5. ix.lastUsed < tick
    BY <2>4
  <2>6. /\ Sound(c) /\ Entered(b, c, n, ix.side, tick, q.lots, ix.seat, ix.prev, next)
        /\ n \in Nodes /\ n \notin Live(b) /\ b \in Book /\ tick \in 0 .. TickLimit
    BY <2>2, <2>3, <2>4, <2>5, InsertEnters
  <2> HIDE DEF c, n, q
  <2>7. Merges(c, i)
    BY <2>3, <2>5, <2>6, MergeEntered
  <2> HIDE DEF i
  <2> QED BY <1>2, <2>1, <2>6, <2>7, MergingContinues
<1> QED BY <1>1, <1>2 DEF MassQuoteInsert

\* A live order's price is one its side's bitmap shows.
LEMMA LiveTick ==
  ASSUME NEW b \in Book, Sound(b), NEW n \in Live(b)
  PROVE  TickOf(b, n) \in TicksOf(b, SideOf(b, n)) /\ SideOf(b, n) \in Sides /\ InWindow(b, TickOf(b, n))
<1>1. PICK r : LevelsAt(b, r)
  BY DEF Sound, Listed
<1>2. Slot(TickOf(b, n)) \in b.bits[SideOf(b, n)]
  BY <1>1 DEF LevelsAt, Queued, SlotOf, TickOf
<1>3. InWindow(b, TickOf(b, n))
  BY DEF Sound, Housed
<1>4. n \in Nodes
  BY LiveNodes
<1>5. TickOf(b, n) \in Nat /\ SideOf(b, n) \in Sides /\ b.anchor \in Nat /\ LastTick(b) \in Nat
  BY <1>4, NodeType, BookAssumption DEF Nodes, Links, TickOf, SideOf, Book, LastTick
<1> QED BY <1>2, <1>3, <1>5 DEF TicksOf, IsOccupied, InWindow

\* Where the cursor's quote is, as the merge reads it.
LEMMA CursorFacts ==
  ASSUME SInv, Merging, ix.cur # NIL
  PROVE  /\ ix.cur \in LiveOf(book, ix.seat) /\ ix.cur \in Live(book) /\ ix.cur \in Nodes
         /\ CurTick(ix) = TickOf(book, ix.cur) /\ CurTick(ix) \in 0 .. TickLimit
         /\ SideOf(book, ix.cur) \in Sides
         /\ PlaceOf(book, ix.cur) = PlaceAt(SideOf(book, ix.cur), CurTick(ix))
         /\ ix.side = "ask" => SideOf(book, ix.cur) = "ask" /\ ix.opposing < CurTick(ix)
<1>1. book \in Book /\ Merges(book, ix)
  BY MergeFacts
<1>2. At(book, ix.seat, ix.prev, ix.cur)
  BY <1>1 DEF Merges
<1>3. ix.cur \in LiveOf(book, ix.seat) /\ ix.cur \in Live(book) /\ ix.cur \in Nodes
  BY <1>1, <1>2, BaseType
<1>4. CurTick(ix) = TickOf(book, ix.cur)
  BY DEF CurTick, TickOf
<1>5. CurTick(ix) \in 0 .. TickLimit /\ SideOf(book, ix.cur) \in Sides
  BY <1>1, <1>3, NodeType DEF Nodes, Links, CurTick, SideOf
<1>6. PlaceOf(book, ix.cur) = PlaceAt(SideOf(book, ix.cur), CurTick(ix))
  BY DEF PlaceOf, PlaceAt, SideOf, CurTick
<1>7. ix.side = "ask" => SideOf(book, ix.cur) = "ask" /\ ix.opposing < CurTick(ix)
  BY <1>1, <1>4 DEF Merges
<1> QED BY <1>3, <1>4, <1>5, <1>6, <1>7

\* A quote that is not at the cursor goes before it.
LEMMA InsertBefore ==
  ASSUME SInv, Merging, HasQuote(ix), ix.cur # NIL, InRegion(ix) => CurTick(ix) > Quote(ix).tick, NEW t,
         t = CheckOrSlideVs(book, ix.side, Quote(ix).tick, ~Quote(ix).reject, ix.opposing), t # NoTick,
         InRegion(ix) => t # CurTick(ix)
  PROVE  PlaceAt(ix.side, t) < PlaceOf(book, ix.cur)
<1> DEFINE q == Quote(ix)
<1>1. book \in Book /\ ix.side \in Sides /\ ix.opposing \in Nat /\ IInv
  BY MergeFacts, SBook
<1>2. q.tick \in Nat /\ (~q.reject) \in BOOLEAN
  BY <1>1, MergeType
<1>3. TickLimit \in Nat
  BY BookAssumption
<1>4. /\ CurTick(ix) \in 0 .. TickLimit /\ SideOf(book, ix.cur) \in Sides
      /\ PlaceOf(book, ix.cur) = PlaceAt(SideOf(book, ix.cur), CurTick(ix))
      /\ ix.side = "ask" => SideOf(book, ix.cur) = "ask" /\ ix.opposing < CurTick(ix)
  BY CursorFacts
<1>5. InRegion(ix) <=> SideOf(book, ix.cur) = ix.side
  BY DEF InRegion, SideOf
<1>6. t = CheckOrSlideVs(book, ix.side, q.tick, ~q.reject, ix.opposing)
  OBVIOUS
<1>7. InRegion(ix) => q.tick < CurTick(ix)
  BY <1>2, <1>4
<1> HIDE DEF q
<1>8. ix.side = "bid" => t <= q.tick
  BY <1>1, <1>2, <1>6, SlideTick
<1>9. ix.side = "ask" => t = q.tick \/ t = ix.opposing + 1
  BY <1>1, <1>2, <1>6, SlideTick
<1>10. t \in Nat /\ t <= TickLimit
  <2>1. WindowClear(book) /\ (ix.opposing = NoTick \/ InWindow(book, ix.opposing))
    BY <1>1, InvGood DEF Good, Header, IInv, Progressing, Merging
  <2>2. InWindow(book, t)
    BY <1>1, <1>2, <1>6, <2>1, CheckOrSlideVsInWindow
  <2> QED BY <1>1, <2>1, <2>2, WindowTick
<1>11. CASE ix.side = "bid" /\ SideOf(book, ix.cur) = "bid"
  BY <1>2, <1>3, <1>4, <1>5, <1>7, <1>8, <1>10, <1>11 DEF PlaceAt
<1>12. CASE ix.side = "bid" /\ SideOf(book, ix.cur) = "ask"
  BY <1>3, <1>4, <1>10, <1>12 DEF PlaceAt
<1>13. CASE ix.side = "ask"
  <2>1. q.tick < CurTick(ix) /\ t # CurTick(ix) /\ ix.opposing < CurTick(ix)
    BY <1>4, <1>5, <1>7, <1>13
  <2>2. t < CurTick(ix)
    BY <1>1, <1>2, <1>4, <1>9, <1>13, <2>1
  <2> QED BY <1>3, <1>4, <1>10, <1>13, <2>2 DEF PlaceAt
<1> QED BY <1>1, <1>4, <1>11, <1>12, <1>13 DEF Sides

\* One re-posted at the cursor goes before what came after it.
LEMMA RepostBefore ==
  ASSUME SInv, Merging, HasQuote(ix), InRegion(ix), CurTick(ix) = Quote(ix).tick,
         NEW b \in Book, Kept(book, b), NEW next \in Links, next # NIL, PlaceOf(book, ix.cur) < PlaceOf(b, next), NEW t,
         t = CheckOrSlideVs(b, ix.side, Quote(ix).tick, ~Quote(ix).reject, ix.opposing), t # NoTick
  PROVE  PlaceAt(ix.side, t) < PlaceOf(b, next)
<1> DEFINE q == Quote(ix)
<1>1. book \in Book /\ ix.side \in Sides /\ ix.opposing \in Nat /\ IInv
  BY MergeFacts, SBook
<1>2. q.tick \in Nat /\ (~q.reject) \in BOOLEAN
  BY <1>1, MergeType
<1>3. TickLimit \in Nat
  BY BookAssumption
<1>4. /\ CurTick(ix) \in 0 .. TickLimit /\ PlaceOf(book, ix.cur) = PlaceAt(ix.side, CurTick(ix))
      /\ ix.side = "ask" => ix.opposing < CurTick(ix)
  <2>1. ix.cur # NIL /\ SideOf(book, ix.cur) = ix.side
    BY DEF InRegion, SideOf
  <2> QED BY <2>1, CursorFacts
<1>5. t = CheckOrSlideVs(b, ix.side, q.tick, ~q.reject, ix.opposing) /\ q.tick = CurTick(ix)
  OBVIOUS
<1> HIDE DEF q
<1>6. ix.side = "bid" => t <= q.tick
  BY <1>1, <1>2, <1>5, SlideTick
<1>7. ix.side = "ask" => t = q.tick \/ t = ix.opposing + 1
  BY <1>1, <1>2, <1>5, SlideTick
<1>8. t \in Nat
  <2>1. WindowClear(b) /\ (ix.opposing = NoTick \/ InWindow(b, ix.opposing))
    BY <1>1, InvGood, GoodKept DEF Good, Header, IInv, Progressing, Merging
  <2>2. InWindow(b, t)
    BY <1>1, <1>2, <1>5, <2>1, CheckOrSlideVsInWindow
  <2> QED BY <2>1, <2>2, WindowTick
<1>9. PlaceOf(b, next) \in Int
  <2>1. b.pool[next].tick \in Nat
    BY NodeType
  <2> QED BY <1>3, <2>1 DEF PlaceOf
<1>10. t <= CurTick(ix)
  BY <1>1, <1>4, <1>5, <1>6, <1>7, <1>8 DEF Sides
<1>11. PlaceAt(ix.side, t) <= PlaceAt(ix.side, CurTick(ix))
  BY <1>3, <1>4, <1>8, <1>10 DEF PlaceAt
<1>12. PlaceAt(ix.side, t) \in Int /\ PlaceAt(ix.side, CurTick(ix)) \in Int
  BY <1>3, <1>4, <1>8 DEF PlaceAt
<1> QED BY <1>4, <1>9, <1>11, <1>12

LEMMA MergeInsertS == ASSUME SInv, MergeInsert PROVE Structured'
<1> DEFINE nextTick == IF InRegion(ix) THEN CurTick(ix) ELSE NoTick
           q == Quote(ix)
           t == CheckOrSlideVs(book, ix.side, q.tick, ~q.reject, ix.opposing)
<1>1. /\ Merging /\ HasQuote(ix) /\ ~BadQuote(ix) /\ (InRegion(ix) => CurTick(ix) > q.tick)
      /\ MassQuoteInsert(book, ix.cur, nextTick)
  BY DEF MergeInsert
<1>2. book \in Book /\ Sound(book) /\ Merges(book, ix) /\ ix \in MassQuoteIx /\ ix.cur \in Links
  BY <1>1, MergeFacts
<1>3. [ix EXCEPT !.cur = ix.cur] = ix
  BY <1>2 DEF MassQuoteIx
<1>4. Kept(book, book) /\ Clears(book, book)
  <2>1. CrossInv
    BY DEF SInv
  <2> QED BY <1>2, <2>1, BookClears, KeptSelf, SeatsKeptIsKept
<1>5. ASSUME t # NoTick, t # nextTick, ix.cur # NIL PROVE PlaceAt(ix.side, t) < PlaceOf(book, ix.cur)
  <2>1. t = CheckOrSlideVs(book, ix.side, Quote(ix).tick, ~Quote(ix).reject, ix.opposing)
    OBVIOUS
  <2>2. InRegion(ix) => t # CurTick(ix)
    BY <1>5
  <2> HIDE DEF t
  <2> QED BY <1>1, <1>5, <2>1, <2>2, InsertBefore
<1> HIDE DEF nextTick
<1> QED BY <1>1, <1>2, <1>3, <1>4, <1>5, InsertS

LEMMA MergeRepostS == ASSUME SInv, MergeRepost PROVE Structured'
<1> DEFINE b    == KillOrder(book, ix.cur)
           next == book.pool[ix.cur].makerNext
           q    == Quote(ix)
           t    == CheckOrSlideVs(b, ix.side, q.tick, ~q.reject, ix.opposing)
<1>1. /\ Merging /\ HasQuote(ix) /\ ~BadQuote(ix) /\ InRegion(ix) /\ CurTick(ix) = q.tick /\ Refundable(book, ix.cur)
      /\ MassQuoteInsert(b, next, NoTick)
  BY DEF MergeRepost
<1>2. book \in Book /\ ix.cur \in Links
  BY <1>1, MergeFacts
<1>3. /\ Sound(b) /\ Clears(book, b) /\ Merges(b, [ix EXCEPT !.cur = next]) /\ b.orderSeq = book.orderSeq
      /\ next # NIL => PlaceOf(book, ix.cur) < PlaceOf(b, next)
  BY <1>1, MergeKilled
<1>4. Kept(book, b) /\ b \in Book /\ next \in Links
  BY <1>1, <1>2, KillOrderKept, KeptBook, NodeType
<1>5. ASSUME t # NoTick, next # NIL PROVE PlaceAt(ix.side, t) < PlaceOf(b, next)
  <2>1. t = CheckOrSlideVs(b, ix.side, Quote(ix).tick, ~Quote(ix).reject, ix.opposing)
    OBVIOUS
  <2> HIDE DEF t, b, next
  <2> QED BY <1>1, <1>3, <1>4, <1>5, <2>1, RepostBefore
<1> HIDE DEF b, next
<1> QED BY <1>1, <1>3, <1>4, <1>5, InsertS

\* The bids are merged: what is left of the chain is asks, all above the best bid.
LEMMA MergeAsksS == ASSUME SInv, MergeAsks PROVE Structured'
<1> DEFINE best == BestOf(book, "bid")
           s    == ix.seat
           i    == [ix EXCEPT !.side = "ask", !.qi = 0, !.lastTick = 0, !.lastUsed = 0, !.opposing = best]
<1>1. Merging /\ ~HasQuote(ix) /\ ~InRegion(ix) /\ ix.side = "bid" /\ Continue(book, i)
  BY DEF MergeAsks, MergeDone
<1>2. /\ book \in Book /\ Sound(book) /\ Merges(book, ix) /\ ix \in MassQuoteIx /\ ix.qi \in Nat /\ ix.lastUsed \in Nat
  BY <1>1, MergeFacts
<1>3. /\ i.op = "MassQuote" /\ i.seat = s /\ i.side = "ask" /\ i.qi = 0 /\ i.bids = ix.bids /\ i.asks = ix.asks
      /\ i.prev = ix.prev /\ i.cur = ix.cur /\ i.lastUsed = 0 /\ i.opposing = best
  BY <1>2 DEF MassQuoteIx
<1> HIDE DEF i
<1>4. /\ OwnerOf(book, s) # Nobody
      /\ ix.qi <= Len(Payload(ix)) /\ Len(ix.bids) + Len(ix.asks) <= MaxOrdersPerSeat
      /\ At(book, s, ix.prev, ix.cur) /\ ix.lastUsed <= TickLimit
      /\ BaseOf(book, ix.prev) <= PlaceAt(ix.side, ix.lastUsed)
      /\ \A r \in SeatIds : r # s => Cardinality(LiveOf(book, r)) <= MaxOrdersPerSeat
      /\ Cardinality(LiveOf(book, s)) <= MaxOrdersPerSeat + Consumed(ix)
      /\ Cardinality(Behind(book, s, ix.prev)) <= Consumed(ix)
  BY <1>2 DEF Merges
<1>5. Consumed(i) = Consumed(ix) /\ 0 <= Len(Payload(i))
  <2>1. Len(ix.bids) \in Nat /\ Len(ix.asks) \in Nat
    BY <1>2, PayloadLen
  <2>2. ix.qi = Len(ix.bids)
    BY <1>1, <1>2, <1>4, <2>1 DEF HasQuote, Payload
  <2> QED BY <1>1, <1>3, <2>1, <2>2 DEF Consumed, Payload
<1>6. 0 <= TickLimit /\ BaseOf(book, ix.prev) <= PlaceAt("ask", 0)
  <2>1. BaseOf(book, ix.prev) \in Int
    BY <1>2, <1>4, BaseType
  <2>2. TickLimit \in Nat
    BY BookAssumption
  <2> QED BY <1>1, <1>2, <1>4, <2>1, <2>2 DEF PlaceAt
<1>7. ix.cur # NIL => SideOf(book, ix.cur) = "ask" /\ best < TickOf(book, ix.cur)
  <2> SUFFICES ASSUME ix.cur # NIL PROVE SideOf(book, ix.cur) = "ask" /\ best < TickOf(book, ix.cur)
    OBVIOUS
  <2>1. ix.cur \in Live(book)
    BY <1>1, CursorFacts
  <2>2. /\ TickOf(book, ix.cur) \in TicksOf(book, SideOf(book, ix.cur)) /\ SideOf(book, ix.cur) \in Sides
        /\ InWindow(book, TickOf(book, ix.cur))
    BY <1>2, <2>1, LiveTick
  <2>3. SideOf(book, ix.cur) = "ask"
    BY <1>1, <2>2 DEF InRegion, SideOf, Sides
  <2>4. WindowClear(book)
    BY SBook
  <2>5. TickOf(book, ix.cur) \in Nat \ {0}
    <3>1. TickOf(book, ix.cur) # NoTick /\ TickOf(book, ix.cur) \in Nat
      BY <1>2, <2>2, <2>4, WindowTick
    <3> QED BY <3>1 DEF NoTick
  <2>6. best = NoTick \/ best \in TicksOf(book, "bid")
    <3>1. TicksOf(book, "bid") \subseteq 0 .. LastTick(book) /\ LastTick(book) \in Nat
      BY <1>2, BookAssumption DEF TicksOf, Book, LastTick
    <3>2. best = Highest(TicksOf(book, "bid"))
      BY DEF BestOf
    <3> QED BY <3>1, <3>2, HighestLowest
  <2>7. Apart(book)
    BY DEF SInv, CrossInv, Crossless
  <2>8. best \in TicksOf(book, "bid") => best < TickOf(book, ix.cur)
    BY <2>2, <2>3, <2>7 DEF Apart
  <2>9. best = NoTick => best < TickOf(book, ix.cur)
    BY <2>5 DEF NoTick
  <2> QED BY <2>3, <2>6, <2>8, <2>9
<1> HIDE DEF best, s
<1>8. Merges(book, i)
  BY <1>3, <1>4, <1>5, <1>6, <1>7 DEF Merges
<1> QED BY <1>1, <1>2, <1>3, <1>8, MergingContinues

\* The asks are merged: the chain holds what the payload placed and no more.
LEMMA MergeCommitS == ASSUME SInv, MergeCommit PROVE Structured'
<1> DEFINE s == ix.seat
<1>1. Merging /\ ~HasQuote(ix) /\ ~InRegion(ix) /\ ix.side = "ask" /\ Commit(book, vault)
  BY DEF MergeCommit, MergeDone
<1>2. /\ book \in Book /\ Sound(book) /\ Merges(book, ix) /\ ix \in MassQuoteIx /\ ix.qi \in Nat
  BY <1>1, MergeFacts
<1>3. /\ ix.qi <= Len(Payload(ix)) /\ Len(ix.bids) + Len(ix.asks) <= MaxOrdersPerSeat
      /\ At(book, s, ix.prev, ix.cur)
      /\ \A r \in SeatIds : r # s => Cardinality(LiveOf(book, r)) <= MaxOrdersPerSeat
      /\ Cardinality(Behind(book, s, ix.prev)) <= Consumed(ix)
  BY <1>2 DEF Merges
<1>4. ix.cur = NIL
  <2>1. ix.cur # NIL => SideOf(book, ix.cur) = "ask"
    BY <1>1, CursorFacts
  <2> QED BY <1>1, <2>1 DEF InRegion, SideOf
<1>5. Behind(book, s, ix.prev) = LiveOf(book, s)
  <2>1. BaseOf(book, ix.prev) \in Int /\ \A k \in LiveOf(book, s) : PlaceOf(book, k) \in Nat
    BY <1>2, <1>3, BaseType
  <2>2. \A k \in LiveOf(book, s) : ~(BaseOf(book, ix.prev) < PlaceOf(book, k))
    BY <1>3, <1>4 DEF At, Follows
  <2> QED BY <2>1, <2>2 DEF Behind
<1>6. Consumed(ix) <= MaxOrdersPerSeat
  <2>1. Len(ix.bids) \in Nat /\ Len(ix.asks) \in Nat
    BY <1>2, PayloadLen
  <2>2. ix.qi <= Len(ix.asks)
    BY <1>1, <1>3 DEF Payload
  <2>3. Consumed(ix) = Len(ix.bids) + ix.qi
    BY <1>1 DEF Consumed
  <2>4. MaxOrdersPerSeat \in Nat
    BY BookAssumption
  <2>5. Len(ix.bids) + Len(ix.asks) <= MaxOrdersPerSeat /\ ix.qi \in Nat
    BY <1>2, <1>3
  <2>6. \A w, x, y \in Nat, z \in Nat : w <= y /\ x + y <= z => x + w <= z
    OBVIOUS
  <2> QED BY <2>1, <2>2, <2>3, <2>4, <2>5, <2>6
<1>7. Consumed(ix) \in Int
  <2>1. Len(ix.bids) \in Nat
    BY <1>2, PayloadLen
  <2> QED BY <1>2, <2>1 DEF Consumed
<1>8. Capped(book)
  <2> SUFFICES ASSUME NEW r \in SeatIds PROVE Cardinality(LiveOf(book, r)) <= MaxOrdersPerSeat
    BY DEF Capped
  <2>1. CASE r = s
    <3>1. Cardinality(LiveOf(book, s)) <= Consumed(ix) /\ Cardinality(LiveOf(book, s)) \in Nat
      BY <1>3, <1>5, LivesFinite
    <3> QED BY <1>6, <1>7, <2>1, <3>1, BookAssumption
  <2>2. CASE r # s
    BY <1>3, <2>2
  <2> QED BY <2>1, <2>2
<1> QED BY <1>1, <1>2, <1>8, CommitS

LEMMA MergeS == ASSUME SInv, MergeStep PROVE Structured'
<1>1. CASE MergeRefuse
  BY <1>1, AbortS DEF MergeRefuse
<1> QED BY <1>1, MergeCancelS, MergeKeepS, MergeInsertS, MergeRepostS, MergeAsksS, MergeCommitS DEF MergeStep

(***************************************************************************)
(* Taking                                                                  *)
(***************************************************************************)
\* What a bit of the level's side says of the level's head.
LEMMA HeadLive ==
  ASSUME NEW b \in Book, Sound(b), NEW side \in Sides, NEW tick, IsOccupied(b, side, tick)
  PROVE  LET head == HeadAt(b, tick)
         IN head \in Live(b) /\ SideOf(b, head) = side /\ SlotOf(b, head) = Slot(tick)
<1>1. PICK r : LevelsAt(b, r)
  BY DEF Sound, Listed
<1>2. Served(b, side, Slot(tick))
  BY <1>1 DEF LevelsAt, IsOccupied
<1> QED BY <1>2 DEF Served, Rests, HeadOf, HeadAt

LEMMA TakeHeadLive ==
  ASSUME SInv, Taking, AtOrder(ix)
  PROVE  LET head == TakeHead(book, ix)
         IN /\ head \in Live(book) /\ SideOf(book, head) = BookSide(ix)
            /\ TickOf(book, head) = TakeLevel(book, ix)
<1> DEFINE T == LevelsLeft(book, ix)
           t == TakeLevel(book, ix)
<1>1. IInv /\ book \in Book /\ WindowClear(book) /\ Sound(book)
  BY SBook DEF SInv, Structured
<1>2. BookSide(ix) \in Sides
  BY <1>1, TakeHeadType
<1>3. T \subseteq 0 .. LastTick(book) /\ LastTick(book) \in Nat
  BY <1>1, BookAssumption DEF LevelsLeft, TicksOf, Book, LastTick
<1>4. t = Lowest(T) \/ t = Highest(T)
  BY DEF TakeLevel
<1>5. t # NoTick
  BY DEF AtOrder
<1> HIDE DEF T, t
<1>6. t \in T
  <2>1. /\ Highest(T) = NoTick \/ Highest(T) \in T
        /\ Lowest(T) = NoTick \/ Lowest(T) \in T
    BY <1>3, HighestLowest
  <2> QED BY <1>4, <1>5, <2>1
<1>7. IsOccupied(book, BookSide(ix), t)
  BY <1>6 DEF T, LevelsLeft, TicksOf
<1>8. /\ HeadAt(book, t) \in Live(book) /\ SideOf(book, HeadAt(book, t)) = BookSide(ix)
      /\ SlotOf(book, HeadAt(book, t)) = Slot(t)
  BY <1>1, <1>2, <1>7, HeadLive
<1>9. TickOf(book, HeadAt(book, t)) = t
  <2>1. t \in book.anchor .. LastTick(book) /\ book.anchor \in Nat /\ LastTick(book) = book.anchor + WindowTicks - 1
    BY <1>1, <1>6 DEF T, LevelsLeft, TicksOf, Book, LastTick
  <2>2. InWindow(book, TickOf(book, HeadAt(book, t)))
    BY <1>1, <1>8, LiveTick
  <2>3. Slot(TickOf(book, HeadAt(book, t))) = Slot(t)
    BY <1>8 DEF SlotOf, TickOf
  <2>4. TickOf(book, HeadAt(book, t)) \in book.anchor .. book.anchor + WindowTicks - 1
    BY <2>1, <2>2, <1>1, <1>8, LiveTicks DEF InWindow
  <2> QED BY <2>1, <2>3, <2>4, SlotApart
<1>10. TakeHead(book, ix) = HeadAt(book, t)
  BY DEF TakeHead, HeadAt, t
<1> QED BY <1>8, <1>9, <1>10 DEF t

\* A take goes on with fewer orders.
LEMMA TakeContinuesS ==
  ASSUME SInv, Taking, NEW b, Sound(b), Thins(book, b), NEW i,
         i.op = "Take", i.kind = ix.kind, i.seat = ix.seat, Continue(b, i)
  PROVE  Structured'
<1>1. Capped(book) /\ (ix.kind = "Swap" \/ OwnerOf(book, ix.seat) # Nobody)
  BY DEF SInv, Structured, Working, Taking
<1>2. Capped(b)
  BY <1>1, ThinsCapped
<1>3. ix.kind = "Swap" \/ ix.seat \in SeatIds
  BY SBook, TakeType
<1>4. i.kind = "Swap" \/ OwnerOf(b, i.seat) # Nobody
  BY <1>1, <1>3 DEF Thins
<1>5. Working(b, i)
  BY <1>2, <1>4 DEF Working
<1> QED BY <1>5, ContinueS

LEMMA TakeKillS ==
  ASSUME SInv, Taking, AtOrder(ix),
         Continue(KillOrder(book, TakeHead(book, ix)), [ix EXCEPT !.at = TakeLevel(book, ix)])
  PROVE  Structured'
<1> DEFINE i == [ix EXCEPT !.at = TakeLevel(book, ix)]
           n == TakeHead(book, ix)
<1>1. n \in Live(book) /\ book \in Book /\ Sound(book)
  BY TakeHeadLive, SBook DEF SInv, Structured
<1>2. i.op = "Take" /\ i.kind = ix.kind /\ i.seat = ix.seat
  BY SBook, TakeType DEF TakeIx
<1> HIDE DEF i, n
<1>3. Sound(KillOrder(book, n)) /\ Thins(book, KillOrder(book, n))
  BY <1>1, KillSound
<1> QED BY <1>2, <1>3, TakeContinuesS DEF i, n

LEMMA TakeFillS == ASSUME SInv, TakeFill PROVE Structured'
<1> DEFINE tick == TakeLevel(book, ix)
           head == TakeHead(book, ix)
           fill == FillLots(book, ix)
           side == BookSide(ix)
           b    == FillOrder(book, side, tick, head, fill)
           i    == [ix EXCEPT !.at = tick, !.lots = @ + fill, !.quote = @ + Notional(tick, fill),
                              !.fee = @ + FeeOn(book, Notional(tick, fill))]
<1>1. Taking /\ AtOrder(ix) /\ fill > 0 /\ Continue(b, i)
  BY DEF TakeFill
<1>2. IInv /\ book \in Book /\ Sound(book)
  BY SBook DEF SInv, Structured
<1>3. head \in Live(book) /\ side = SideOf(book, head) /\ tick = TickOf(book, head)
  BY <1>1, TakeHeadLive
<1>4. fill \in Nat \ {0} /\ fill <= LotsOf(book, head)
  BY <1>1, <1>2, FillLotsType DEF LotsOf
<1>5. i.op = "Take" /\ i.kind = ix.kind /\ i.seat = ix.seat
  BY <1>1, <1>2, TakeType DEF TakeIx
<1> HIDE DEF i, fill, side, tick, head
<1>6. Sound(b) /\ Thins(book, b)
  BY <1>2, <1>3, <1>4, FillSound
<1> HIDE DEF b
<1> QED BY <1>1, <1>5, <1>6, TakeContinuesS

\* What the taker pays and is paid is money and nothing else.
LEMMA SettledCredited ==
  ASSUME SInv, Taking
  PROVE  /\ Credited(book, Accrued(book, ix))
         /\ ix.kind # "Swap" => Credited(book, SettleTaker(Accrued(book, ix), ix))
<1> DEFINE acc == Accrued(book, ix)
<1>1. Formed(book) /\ Credited(book, acc)
  BY SBook, BookFormed, CreditsMade
<1>2. ASSUME ix.kind # "Swap" PROVE Credited(book, SettleTaker(acc, ix))
  <2>1. ix.seat \in SeatIds
    BY <1>2, SBook, TakeType
  <2>2. \A w, x, y, z : Credited(book, AddFree(AddFree(acc, ix.seat, w, x), ix.seat, y, z))
    <3> SUFFICES ASSUME NEW w, NEW x, NEW y, NEW z
                 PROVE  Credited(book, AddFree(AddFree(acc, ix.seat, w, x), ix.seat, y, z))
      OBVIOUS
    <3> HIDE DEF acc
    <3> DEFINE c == AddFree(acc, ix.seat, w, x)
    <3>1. Credited(acc, c)
      BY <1>1, <2>1, CreditedFormed, CreditsMade
    <3> HIDE DEF c
    <3>2. Credited(c, AddFree(c, ix.seat, y, z))
      BY <2>1, <3>1, CreditedFormed, CreditsMade
    <3>3. Credited(book, c)
      BY <1>1, <3>1, CreditedTrans
    <3>4. Credited(book, AddFree(c, ix.seat, y, z))
      BY <3>2, <3>3, CreditedTrans
    <3> QED BY <3>4 DEF c
  <2> HIDE DEF acc
  <2> QED BY <2>2 DEF SettleTaker
<1> QED BY <1>1, <1>2

\* What is left of a limit order rests for a seat that is held.
LEMMA EndPlaceLimitS == ASSUME SInv, EndPlaceLimit PROVE Structured'
<1> DEFINE acc  == Accrued(book, ix)
           paid == SettleTaker(acc, ix)
           rest == Remaining(ix)
           done == Upsert(paid, ix.seat, ix.side, ix.limit, rest, ix.expiry, FALSE)
<1>0. IInv /\ book \in Book /\ Sound(book)
  BY SBook DEF SInv, Structured
<1>1. Taking /\ ix.kind # "Swap" /\ Good(acc) /\ Credited(book, paid)
  BY <1>0, AccruedGood, SettledCredited DEF EndPlaceLimit, TakeOver
<1>2. CASE Abort
  BY <1>2, AbortS
<1>3. ix.op # "MassQuote"
  BY <1>1 DEF Taking
<1>4. CASE Commit(paid, vault)
  <2> HIDE DEF paid
  <2> QED BY <1>1, <1>3, <1>4, CreditedCommit
<1>5. CASE /\ SeatPays(acc, ix) /\ rest # 0 /\ Commit(done, vault)
           /\ CanUpsert(paid, ix.seat, ix.side, ix.limit, rest, FALSE)
  <2>1. paid \in Book /\ WindowClear(paid)
    BY <1>0, <1>1, <1>5, SettleTakerGood DEF Good, Header
  <2>2. rest \in Nat \ {0}
    BY <1>0, <1>1, <1>5, TakeType DEF Remaining
  <2>3. ix.seat \in SeatIds /\ ix.side \in Sides /\ ix.limit \in Nat /\ ix.expiry \in Nat /\ FALSE \in BOOLEAN
    BY <1>0, <1>1, TakeType
  <2> HIDE DEF paid, rest
  <2>4. Sound(paid) /\ Thins(book, paid)
    BY <1>0, <1>1, CreditedThins
  <2>8. Dateable(paid)
    <3>1. Dateable(book)
      BY <1>1, DateRoom DEF Taking, EndPlaceLimit
    <3>2. paid.orderSeq = book.orderSeq
      BY <1>1 DEF Credited, Paid, But, BookFields
    <3> QED BY <3>1, <3>2 DEF Dateable
  <2>5. Capped(paid) /\ OwnerOf(paid, ix.seat) # Nobody
    <3>1. Capped(book) /\ OwnerOf(book, ix.seat) # Nobody
      BY <1>1, <1>3 DEF SInv, Structured, Working, Taking
    <3>2. Capped(paid)
      BY <2>4, <3>1, ThinsCapped
    <3> QED BY <2>3, <2>4, <3>1, <3>2 DEF Thins
  <2>6. Sound(done) /\ Capped(done)
    BY <1>5, <2>1, <2>2, <2>3, <2>4, <2>5, <2>8, UpsertSound
  <2>7. done \in Book
    BY <1>5, <2>1, <2>2, <2>3, UpsertKept, KeptBook
  <2> HIDE DEF done
  <2> QED BY <1>5, <2>6, <2>7, CommitS
<1> QED BY <1>2, <1>4, <1>5 DEF EndPlaceLimit

LEMMA TakeStepS == ASSUME SInv, TakeStep PROVE Structured'
<1>1. ASSUME Taking, NEW b, Credited(book, b), NEW v, Commit(b, v) PROVE Structured'
  <2>1. ix.op # "MassQuote"
    BY <1>1 DEF Taking
  <2> QED BY <1>1, <2>1, CreditedCommit
<1>2. CASE TakeExpired
  BY <1>2, TakeKillS DEF TakeExpired
<1>3. CASE TakeOwn
  BY <1>3, TakeKillS, AbortS DEF TakeOwn
<1>4. CASE EndPlaceTake
  <2>1. Taking /\ ix.kind # "Swap"
    BY <1>4 DEF EndPlaceTake, TakeOver
  <2>2. Credited(book, SettleTaker(Accrued(book, ix), ix))
    BY <2>1, SettledCredited
  <2> QED BY <1>1, <1>4, <2>1, <2>2, AbortS DEF EndPlaceTake
<1>5. CASE EndSwap
  <2>1. Taking
    BY <1>5 DEF EndSwap, TakeOver
  <2>2. Credited(book, Accrued(book, ix))
    BY <2>1, SettledCredited
  <2> QED BY <1>1, <1>5, <2>1, <2>2, AbortS DEF EndSwap
<1> QED BY <1>2, <1>3, <1>4, <1>5, TakeFillS, EndPlaceLimitS DEF TakeStep

\* A take begins for a seat that is held, or for none.
LEMMA BeginsTakingS ==
  ASSUME SInv, ix = Idle, NEW i, i.op = "Take", i.kind = "Swap" \/ OwnerOf(book, i.seat) # Nobody,
         book' = book, committed' = committed, ix' = i
  PROVE  Structured'
<1>1. Capped(book)
  BY IdleCapped
<1>2. Working(book, i)
  BY <1>1 DEF Working
<1> QED BY <1>2 DEF SInv, Structured

LEMMA TakerS == ASSUME SInv, TakerNext PROVE Structured'
<1>1. \A kind, s, side, limit, lots, quote, policy, expiry, minOut, delta :
        LET i == Take(kind, s, side, limit, lots, quote, policy, expiry, minOut, delta)
        IN i.op = "Take" /\ i.kind = kind /\ i.seat = s
  BY DEF Take
<1>2. ASSUME NEW s \in SeatIds, NEW side \in Sides, NEW limit \in InTicks, NEW lots \in InLots,
             NEW policy \in Policies, NEW expiry \in InExpiries,
             BeginPlaceLimit(s, side, limit, lots, policy, expiry)
      PROVE  Structured'
  BY <1>1, <1>2, BeginsTakingS DEF BeginPlaceLimit, Continue, Starts, Signed, OwnerOf
<1>3. ASSUME NEW s \in SeatIds, NEW side \in Sides, NEW limit \in InTicks, NEW lots \in TakeLots,
             NEW minOut \in MinOuts, NEW policy \in Policies,
             BeginPlaceTake(s, side, limit, lots, minOut, policy)
      PROVE  Structured'
  BY <1>1, <1>3, BeginsTakingS DEF BeginPlaceTake, Continue, Starts, Signed, OwnerOf
<1>4. ASSUME NEW side \in Sides, NEW limit \in InTicks, NEW amount \in SwapAmounts,
             NEW minOut \in MinOuts, BeginSwap(side, limit, amount, minOut)
      PROVE  Structured'
  BY <1>1, <1>4, BeginsTakingS DEF BeginSwap, SwapWith, Starts
<1> QED BY <1>2, <1>3, <1>4 DEF TakerNext

(***************************************************************************)
(* Hygiene                                                                 *)
(***************************************************************************)
\* A step that ends no order and moves no money of its own.
LEMMA HygieneContinuesS ==
  ASSUME SInv, ix.op # "MassQuote", NEW b, Sound(b), Thins(book, b), NEW i, i.op = "Reanchor", Continue(b, i)
  PROVE  Structured'
<1>1. Capped(book)
  BY DEF SInv, Structured, Working
<1>2. Capped(b)
  BY <1>1, ThinsCapped
<1>3. Working(b, i)
  BY <1>2 DEF Working
<1> QED BY <1>3, ContinueS

LEMMA ReapContinuesS ==
  ASSUME SInv, ix.op # "MassQuote", NEW b, Sound(b), Thins(book, b), NEW i, i.op = "ReapExpired",
         i.cur = NIL \/ i.cur \in Live(b), Continue(b, i)
  PROVE  Structured'
<1>1. Capped(book)
  BY DEF SInv, Structured, Working
<1>2. Capped(b)
  BY <1>1, ThinsCapped
<1>3. Working(b, i)
  BY <1>2 DEF Working
<1> QED BY <1>3, ContinueS

LEMMA SelfThins == ASSUME NEW b PROVE Thins(b, b)
BY DEF Thins

LEMMA HygieneS == ASSUME SInv, HygieneNext PROVE Structured'
<1>1. Sound(book) /\ Thins(book, book)
  BY SelfThins DEF SInv, Structured
<1>2. ASSUME NEW target \in Targets, NEW max \in MaxLevels, BeginReanchor(target, max) PROVE Structured'
  <2> DEFINE i == [op |-> "Reanchor", ideal |-> Ideal(target), max |-> max,
                   evicted |-> 0, cur |-> book.anchor, inWord |-> FALSE]
  <2>1. Continue(book, i) /\ i.op = "Reanchor" /\ ix.op # "MassQuote"
    BY <1>2 DEF BeginReanchor, Starts, Idle
  <2> HIDE DEF i
  <2> QED BY <1>1, <2>1, HygieneContinuesS
<1>3. ASSUME NEW side \in Sides, NEW start \in ReapStarts, NEW max \in ReapCounts, BeginReap(side, start, max)
      PROVE  Structured'
  <2> DEFINE i == [op |-> "ReapExpired", side |-> side, start |-> start,
                   max |-> max, tick |-> Clamp(start), reaped |-> 0, cur |-> NIL]
  <2>1. Continue(book, i) /\ i.op = "ReapExpired" /\ i.cur = NIL /\ ix.op # "MassQuote"
    BY <1>3 DEF BeginReap, Starts, Idle
  <2> HIDE DEF i
  <2> QED BY <1>1, <2>1, ReapContinuesS
<1> QED BY <1>2, <1>3 DEF HygieneNext

LEMMA EvictOrderS == ASSUME SInv, EvictOrder PROVE Structured'
<1> DEFINE T == WordOccupied
           n == HeadAt(book, Lowest(T))
           i == [ix EXCEPT !.evicted = @ + 1]
<1>1. Reanchoring /\ T # {} /\ Continue(KillOrder(book, n), i)
  BY DEF EvictOrder
<1>2. IInv /\ book \in Book /\ Sound(book)
  BY SBook DEF SInv, Structured
<1>3. Lowest(T) \in T
  <2>1. WordBase \in Nat
    BY <1>1, <1>2, ReanchorType, BookAssumption DEF WordBase
  <2>2. T \subseteq Nat
    BY <2>1, BookAssumption DEF WordOccupied
  <2> HIDE DEF T
  <2> QED BY <1>1, <2>2, LowestOf
<1>4. \E side \in Sides : IsOccupied(book, side, Lowest(T))
  BY <1>3 DEF WordOccupied
<1> HIDE DEF T
<1>5. n \in Live(book)
  BY <1>2, <1>4, HeadLive
<1>6. i.op = "Reanchor" /\ ix.op # "MassQuote"
  BY <1>1, <1>2, ReanchorType DEF ReanchorIx, Reanchoring
<1> HIDE DEF n, i
<1>7. Sound(KillOrder(book, n)) /\ Thins(book, KillOrder(book, n))
  BY <1>2, <1>5, KillSound
<1> QED BY <1>1, <1>6, <1>7, HygieneContinuesS

\* The window moves over what has been emptied: every order is still in it.
LEMMA ReanchorCommitS == ASSUME SInv, ReanchorCommit PROVE Structured'
<1> DEFINE c == [book EXCEPT !.anchor = ix.cur]
<1>1. Reanchoring /\ Commit(c, vault)
  BY DEF ReanchorCommit
<1>2. IInv /\ book \in Book /\ Sound(book) /\ Capped(book)
  BY <1>1, SBook DEF SInv, Structured, Working, Reanchoring
<1>3. c \in Book /\ ix.cur \in Nat
  <2>1. ix.cur \in Nat
    BY <1>1, <1>2, ReanchorType
  <2> QED BY <1>2, <2>1 DEF Book
<1>4. /\ c.pool = book.pool /\ c.levels = book.levels /\ c.bits = book.bits /\ c.seats = book.seats
      /\ c.freeHead = book.freeHead /\ c.freeCount = book.freeCount /\ c.anchor = ix.cur
      /\ c.orderSeq = book.orderSeq
  BY <1>2 DEF Book
<1> HIDE DEF c
<1>5. Alike(book, c)
  BY <1>4 DEF Alike, PrevOf, NextOf, SideOf, TickOf, MakerOf, ChainPrevOf, ChainNextOf, IsLive, HeadOf, TailOf,
              FirstOf, CountOf
<1>6. Emptied(book, ix.cur)
  BY <1>1 DEF SInv, CrossInv, Crossless, Riding, Reanchoring
<1>7. Housed(c)
  <2> SUFFICES ASSUME NEW n \in Live(c)
               PROVE  InWindow(c, TickOf(c, n)) /\ LotsOf(c, n) > 0 /\ OwnerOf(c, MakerOf(c, n)) # Nobody
    BY <1>2, <1>4 DEF Housed, Sound
  <2>1. n \in Live(book)
    BY <1>5, AlikeLives
  <2>2. LotsOf(book, n) > 0 /\ OwnerOf(book, MakerOf(book, n)) # Nobody
    BY <1>2, <2>1 DEF Sound, Housed
  <2>3. TickOf(book, n) \in TicksOf(book, SideOf(book, n)) /\ SideOf(book, n) \in Sides
    BY <1>2, <2>1, LiveTick
  <2>4. TickOf(book, n) \in ix.cur .. ix.cur + WindowTicks - 1
    BY <1>6, <2>3 DEF Emptied
  <2>5. InWindow(c, TickOf(book, n))
    BY <1>3, <1>4, <2>4, BookAssumption DEF InWindow, LastTick
  <2> QED BY <1>4, <2>2, <2>5 DEF TickOf, LotsOf, OwnerOf, MakerOf
<1>8. Sound(c)
  <2>0. Live(c) = Live(book)
    BY <1>5, AlikeLives
  <2>1. Listed(c)
    <3>1. PICK r : LevelsAt(book, r) /\ Dated(book, r)
      BY <1>2 DEF Sound, Listed
    <3>2. LevelsAt(c, r)
      BY <1>2, <1>5, <3>1, BookRinged, LevelsAlike
    <3>3. Dated(c, r)
      BY <1>4, <2>0, <3>1 DEF Dated, SeqOf
    <3> QED BY <3>2, <3>3 DEF Listed
  <2>2. ChainsAt(c) /\ FreeAt(c) /\ Counted(c)
    BY <1>2, <1>5, BookSeatwise, ChainsAlike, FreeAlike, CountedAlike DEF Sound
  <2>3. Summed(c)
    <3>1. SameSums(book, c)
      BY <1>4, <2>0 DEF SameSums, SideOf, TickOf, MakerOf, LotsOf, TotalOf, LockedOf
    <3> QED BY <1>2, <3>1, SummedSame DEF Sound
  <2> QED BY <1>7, <2>1, <2>2, <2>3 DEF Sound
<1>9. Capped(c)
  BY <1>2, <1>5, AlikeLives DEF Capped
<1> QED BY <1>1, <1>3, <1>8, <1>9, CommitS

LEMMA ReapFacts ==
  ASSUME SInv, Reaping
  PROVE  /\ IInv /\ book \in Book /\ Sound(book) /\ ix \in ReapIx /\ ix.side \in Sides /\ ix.op # "MassQuote"
         /\ ix.cur = NIL \/ ix.cur \in Live(book)
<1>1. IInv /\ book \in Book /\ Sound(book)
  BY SBook DEF SInv, Structured
<1>2. ix \in ReapIx /\ ix.side \in Sides
  BY <1>1, ReapType
<1>3. ix.op # "MassQuote" /\ (ix.cur = NIL \/ ix.cur \in Live(book))
  BY DEF Reaping, SInv, Structured, Working
<1> QED BY <1>1, <1>2, <1>3

\* The order behind a live one on its level is live and another.
LEMMA NextLive ==
  ASSUME NEW b \in Book, Sound(b), NEW n \in Live(b)
  PROVE  LET m == b.pool[n].next IN m = NIL \/ m \in Live(b) \ {n}
<1>1. PICK r : LevelsAt(b, r)
  BY DEF Sound, Listed
<1>2. Queued(b, r, n) /\ r \in [Nodes -> Nat]
  BY <1>1 DEF LevelsAt
<1>3. ASSUME NextOf(b, n) # NIL PROVE NextOf(b, n) \in Live(b) \ {n}
  <2>1. NextOf(b, n) \in Live(b) /\ r[n] < r[NextOf(b, n)]
    BY <1>2, <1>3 DEF Queued, Mates, Rests
  <2>2. r[n] \in Nat
    BY <1>2, LiveNodes
  <2> QED BY <2>1, <2>2
<1> QED BY <1>3 DEF NextOf

LEMMA ReapEnterS == ASSUME SInv, ReapEnter PROVE Structured'
<1> DEFINE T == ReapLevels
           t == Lowest(T)
           n == HeadAt(book, t)
           i == [ix EXCEPT !.tick = t + 1, !.cur = n]
<1>1. Reaping /\ T # {} /\ Continue(book, i)
  BY DEF ReapEnter
<1>2. book \in Book /\ Sound(book) /\ ix \in ReapIx /\ ix.side \in Sides /\ ix.op # "MassQuote"
  BY <1>1, ReapFacts
<1>3. t \in T
  <2>1. T \subseteq Nat
    BY <1>2, BookAssumption DEF ReapLevels, TicksOf, Book, LastTick
  <2> HIDE DEF T
  <2> QED BY <1>1, <2>1, LowestOf
<1>4. IsOccupied(book, ix.side, t)
  BY <1>3 DEF ReapLevels, TicksOf
<1>5. i.op = "ReapExpired" /\ i.cur = n
  BY <1>2 DEF ReapIx
<1> HIDE DEF T, t, i
<1>6. n \in Live(book)
  BY <1>2, <1>4, HeadLive
<1> QED BY <1>1, <1>2, <1>5, <1>6, SelfThins, ReapContinuesS

LEMMA ReapStepS ==
  ASSUME SInv, Reaping, ix.cur # NIL
  PROVE  /\ Continue(book, [ix EXCEPT !.cur = book.pool[@].next]) => Structured'
         /\ Continue(KillOrder(book, ix.cur), [ix EXCEPT !.reaped = @ + 1, !.cur = book.pool[@].next]) => Structured'
<1> DEFINE m == book.pool[ix.cur].next
           i == [ix EXCEPT !.cur = m]
           j == [ix EXCEPT !.reaped = @ + 1, !.cur = m]
           c == KillOrder(book, ix.cur)
<1>1. book \in Book /\ Sound(book) /\ ix \in ReapIx /\ ix.op # "MassQuote" /\ ix.cur \in Live(book)
  BY ReapFacts
<1>2. m = NIL \/ m \in Live(book) \ {ix.cur}
  BY <1>1, NextLive
<1>3. i.op = "ReapExpired" /\ i.cur = m /\ j.op = "ReapExpired" /\ j.cur = m
  BY <1>1 DEF ReapIx
<1>4. [ix EXCEPT !.cur = book.pool[@].next] = i /\ [ix EXCEPT !.reaped = @ + 1, !.cur = book.pool[@].next] = j
  BY <1>1 DEF ReapIx
<1> HIDE DEF i, j
<1>5. Sound(c) /\ Ended(book, c, ix.cur) /\ Thins(book, c)
  BY <1>1, KillSound
<1> HIDE DEF c
<1>6. Live(c) = Live(book) \ {ix.cur}
  BY <1>1, <1>5, BookSeatwise, EndedLives
<1> HIDE DEF m
<1>7. Continue(book, i) => Structured'
  BY <1>1, <1>2, <1>3, SelfThins, ReapContinuesS
<1>8. Continue(c, j) => Structured'
  BY <1>1, <1>2, <1>3, <1>5, <1>6, ReapContinuesS
<1> QED BY <1>4, <1>7, <1>8 DEF c

LEMMA HygieneStepS == ASSUME SInv, HygieneStep PROVE Structured'
<1>1. Sound(book) /\ Thins(book, book) /\ book \in Book
  BY SelfThins, SBook DEF SInv, Structured
<1>2. ASSUME Reanchoring, NEW i, i.op = "Reanchor", Continue(book, i) PROVE Structured'
  <2>1. ix.op # "MassQuote"
    BY <1>2 DEF Reanchoring
  <2> QED BY <1>1, <1>2, <2>1, HygieneContinuesS
<1>3. CASE EnterWord
  <2> DEFINE i == [ix EXCEPT !.inWord = TRUE]
  <2>1. Continue(book, i) /\ Reanchoring
    BY <1>3 DEF EnterWord
  <2>2. i.op = "Reanchor"
    BY <2>1, SBook, ReanchorType DEF ReanchorIx
  <2> HIDE DEF i
  <2> QED BY <1>2, <2>1, <2>2
<1>4. CASE LeaveWord
  <2> DEFINE i == [ix EXCEPT !.inWord = FALSE, !.cur = IF MovesUp THEN @ + WordTicks ELSE @ - WordTicks]
  <2>1. Continue(book, i) /\ Reanchoring
    BY <1>4 DEF LeaveWord
  <2>2. i.op = "Reanchor"
    BY <2>1, SBook, ReanchorType DEF ReanchorIx
  <2> HIDE DEF i
  <2> QED BY <1>2, <2>1, <2>2
<1>5. CASE ReapSkip
  BY <1>5, ReapStepS DEF ReapSkip
<1>6. CASE ReapKill
  <2>1. Reaping /\ ix.cur # NIL /\ Refundable(book, ix.cur)
    BY <1>6 DEF ReapKill
  <2>2. ix.op # "MassQuote" /\ ix.cur \in Live(book)
    BY <2>1, ReapFacts
  <2>3. CASE Commit(KillOrder(book, ix.cur), vault)
    BY <2>1, <2>2, <2>3, KillCommitS
  <2>4. CASE Continue(KillOrder(book, ix.cur), [ix EXCEPT !.reaped = @ + 1, !.cur = book.pool[@].next])
    BY <2>1, <2>4, ReapStepS
  <2> QED BY <1>6, <2>3, <2>4 DEF ReapKill
<1>7. CASE ReapCommit
  <2>1. Reaping /\ Commit(book, vault)
    BY <1>7 DEF ReapCommit
  <2>2. ix.op # "MassQuote"
    BY <2>1 DEF Reaping
  <2> QED BY <1>1, <2>1, <2>2, ThinsCommit
<1> QED BY <1>3, <1>4, <1>5, <1>6, <1>7, EvictOrderS, ReanchorCommitS, ReapEnterS DEF HygieneStep

(***************************************************************************)
(* The structure from the start                                            *)
(***************************************************************************)
\* A new book's free list: every node, the first at its head.
LEMMA StartFree ==
  ASSUME NEW b, Live(b) = {}, b.freeHead = 1, b.freeCount = Capacity,
         \A n \in Nodes : NextOf(b, n) = IF n \in 1 .. Capacity - 1 THEN n + 1 ELSE NIL
  PROVE  FreeAt(b)
<1> DEFINE q == [i \in 0 .. Capacity |-> IF i = 0 THEN NIL ELSE Capacity + 1 - i]
<1>1. Capacity \in Nat \ {0} /\ Nodes = 1 .. Capacity /\ Links = 0 .. Capacity /\ NIL = 0
  BY BookAssumption DEF Nodes, Links, NIL
<1>2. q \in [0 .. Capacity -> Links]
  BY <1>1
<1>3. q[0] = NIL /\ q[Capacity] = 1 /\ \A i \in 1 .. Capacity : q[i] = Capacity + 1 - i
  BY <1>1
<1> HIDE DEF q
<1>4. Unused(b) = Nodes
  BY DEF Unused
<1>5. ASSUME NEW i \in 1 .. Capacity PROVE q[i] \in Nodes /\ NextOf(b, q[i]) = q[i - 1]
  <2>1. q[i] = Capacity + 1 - i /\ q[i] \in Nodes
    BY <1>1, <1>3
  <2>2. CASE i = 1
    BY <1>1, <1>3, <2>1, <2>2
  <2>3. CASE i # 1
    <3>1. i - 1 \in 1 .. Capacity
      BY <1>1, <2>3
    <3>2. q[i - 1] = Capacity + 1 - (i - 1)
      BY <1>3, <3>1
    <3> QED BY <1>1, <2>1, <2>3, <3>2
  <2> QED BY <2>1, <2>2, <2>3
<1>6. \A n \in Nodes : \E i \in 1 .. Capacity : q[i] = n
  <2> SUFFICES ASSUME NEW n \in Nodes PROVE \E i \in 1 .. Capacity : q[i] = n
    OBVIOUS
  <2>1. Capacity + 1 - n \in 1 .. Capacity /\ Capacity + 1 - (Capacity + 1 - n) = n
    BY <1>1
  <2> QED BY <1>3, <2>1
<1>7. \A i, j \in 1 .. Capacity : q[i] = q[j] => i = j
  BY <1>1, <1>3
<1>8. FreeChain(b, q, Capacity)
  BY <1>3, <1>4, <1>5, <1>6, <1>7 DEF FreeChain
<1>9. Cardinality(Nodes) = Capacity
  BY <1>1, FS_Interval
<1> QED BY <1>1, <1>2, <1>4, <1>8, <1>9 DEF FreeAt

LEMMA StartSound == \A rate : Sound(StartBook(rate)) /\ Capped(StartBook(rate))
<1> SUFFICES ASSUME NEW rate PROVE Sound(StartBook(rate)) /\ Capped(StartBook(rate))
  OBVIOUS
<1> DEFINE b == StartBook(rate)
<1>1. /\ b.bits = [side \in Sides |-> {}] /\ b.levels = [l \in Ring |-> EmptyLevel]
      /\ b.seats = [s \in SeatIds |-> StartSeat(s)] /\ b.pool = [n \in Links |-> FreshNode(n)]
      /\ b.freeHead = 1 /\ b.freeCount = Capacity
  BY DEF StartBook
<1> HIDE DEF b
<1>2. Nodes \subseteq Links /\ NIL \in Links /\ FreedSeq \in Nat \ {0} /\ NIL \notin Nodes /\ 0 \notin Nodes
  BY BookAssumption DEF Nodes, Links, NIL
<1>3. Live(b) = {} /\ \A s : LiveOf(b, s) = {}
  <2>1. \A n \in Nodes : b.pool[n].seq = FreedSeq
    BY <1>1, <1>2 DEF FreshNode
  <2> QED BY <2>1 DEF Live, LiveOf, IsLive
<1>4. FreeAt(b)
  <2>1. \A n \in Nodes : NextOf(b, n) = IF n \in 1 .. Capacity - 1 THEN n + 1 ELSE NIL
    BY <1>1, <1>2 DEF NextOf, FreshNode
  <2> QED BY <1>1, <1>3, <2>1, StartFree
<1>5. Listed(b)
  <2>1. [n \in Nodes |-> 0] \in [Nodes -> Nat]
    OBVIOUS
  <2>2. LevelsAt(b, [n \in Nodes |-> 0])
    BY <1>1, <1>3, <2>1 DEF LevelsAt, Ring
  <2>3. Dated(b, [n \in Nodes |-> 0])
    BY <1>3 DEF Dated
  <2> QED BY <2>2, <2>3 DEF Listed
<1>6. \A s \in SeatIds : FirstOf(b, s) = NIL /\ CountOf(b, s) = 0
  BY <1>1 DEF FirstOf, CountOf, StartSeat
<1>7. ChainsAt(b)
  BY <1>3, <1>6 DEF ChainsAt, Distinct, Follows
<1>8. Counted(b) /\ Capped(b)
  <2>1. Cardinality({}) = 0 /\ MaxOrdersPerSeat \in Nat
    BY FS_EmptySet, BookAssumption
  <2>2. 0 % (U16Max + 1) = 0
    BY DEF U16Max
  <2>3. \A s \in SeatIds : Cardinality(LiveOf(b, s)) = 0
    BY <1>3, <2>1
  <2>4. Counted(b)
    BY <1>6, <2>2, <2>3 DEF Counted
  <2>5. Capped(b)
    BY <2>1, <2>3 DEF Capped
  <2> QED BY <2>4, <2>5
<1>9. Housed(b)
  BY <1>1, <1>2, <1>3 DEF Housed
<1>10. Summed(b)
  <2>1. Tallied(b)
    BY <1>1 DEF Tallied
  <2>2. ASSUME NEW s \in SeatIds, NEW a \in Assets PROVE LockedOf(b, s, a) = SumOver(LocksFor(b, a), LiveOf(b, s))
    <3>1. LockedOf(b, s, a) = 0
      BY <1>1 DEF LockedOf, StartSeat
    <3>2. SumOver(LocksFor(b, a), {}) = 0
      BY FS_EmptySet, SumOverStep
    <3> QED BY <1>3, <3>1, <3>2
  <2> QED BY <2>1, <2>2 DEF Summed, Secured
<1> QED BY <1>4, <1>5, <1>7, <1>8, <1>9, <1>10 DEF Sound, b

LEMMA StructInit == ASSUME FreedSeq \notin CancelIds PROVE Init => SInv
<1> SUFFICES ASSUME Init PROVE SInv
  OBVIOUS
<1>1. PICK rate : book = StartBook(rate) /\ committed.book = book /\ ix = Idle
  BY DEF Init
<1>2. Sound(book) /\ Capped(book)
  BY <1>1, StartSound
<1>3. Working(book, ix)
  BY <1>1, <1>2 DEF Working, Idle
<1>4. MaxOrderIds <= FreedSeq => Named
  BY IdInit DEF IdInv
<1> QED BY <1>1, <1>2, <1>3, <1>4, CrossInit DEF SInv, Structured

LEMMA RestsS == ASSUME SInv, UNCHANGED <<book, ix, committed>> PROVE Structured'
BY DEF SInv, Structured, Working

LEMMA StructNext == ASSUME SInv, [Next]_vars PROVE SInv'
<1>1. CrossInv'
  BY CrossNext DEF SInv
<1>2. Structured'
  <2>0. CASE NextSlot \/ Refused \/ UNCHANGED vars
    <3>1. book' = book /\ ix' = ix /\ committed' = committed
      BY <2>0 DEF NextSlot, Refused, vars
    <3> QED BY <3>1, RestsS
  <2>1. CASE Step
    BY <2>1, MergeS, TakeStepS, HygieneStepS DEF Step
  <2>2. CASE CustodyNext \/ MakerNext \/ TakerNext \/ HygieneNext
    BY <2>2, CustodyS, MakerS, TakerS, HygieneS
  <2> QED BY <2>0, <2>1, <2>2 DEF Next
<1>3. ASSUME MaxOrderIds <= FreedSeq PROVE Named'
  <2>1. IdInv
    BY <1>3, SBook DEF IdInv, SInv
  <2> QED BY <2>1, IdNext DEF IdInv
<1> QED BY <1>1, <1>2, <1>3 DEF SInv

THEOREM StructureHolds == ASSUME FreedSeq \notin CancelIds PROVE Spec => []SInv
<1>1. Init => SInv
  BY StructInit
<1>2. SInv /\ [Next]_vars => SInv'
  BY StructNext
<1> QED BY <1>1, <1>2, PTL DEF Spec

-----------------------------------------------------------------------------
(* What it says                                                            *)

LEMMA SInvWindow == SInv => WindowHolds
<1> SUFFICES ASSUME SInv PROVE WindowHolds
  OBVIOUS
<1>1. book \in Book /\ Sound(book) /\ Header(book)
  BY SBook DEF SInv, Structured, CrossInv, IInv
<1>2. ASSUME NEW n \in Live(book)
      PROVE  book.pool[n].tick \in book.anchor .. LastTick(book) /\ book.pool[n].lots > 0
  <2>1. TickOf(book, n) \in TicksOf(book, SideOf(book, n)) /\ LotsOf(book, n) > 0
    BY <1>1, LiveTick DEF Sound, Housed
  <2> QED BY <2>1 DEF TicksOf, TickOf, LotsOf
<1>3. book.anchor % WordTicks = 0 /\ book.anchor >= WordTicks /\ LastTick(book) <= TickLimit
  BY <1>1 DEF Header, WindowClear
<1> QED BY <1>2, <1>3 DEF WindowHolds

LEMMA SInvCap == SInv => SeatCap
<1> SUFFICES ASSUME SInv, NEW s \in SeatIds
             PROVE  /\ ix = Idle => book.seats[s].count <= MaxOrdersPerSeat
                    /\ book.seats[s].count <= 2 * MaxOrdersPerSeat
  BY DEF SeatCap
<1>1. Counted(book) /\ book \in Book
  BY SBook DEF SInv, Structured, Sound
<1>2. book.seats[s].count = Cardinality(LiveOf(book, s))
  BY <1>1, CountIs DEF CountOf
<1>3. Cardinality(LiveOf(book, s)) \in Nat /\ MaxOrdersPerSeat \in Nat
  BY LivesFinite, BookAssumption
<1>4. CASE ix.op # "MassQuote"
  <2>1. Cardinality(LiveOf(book, s)) <= MaxOrdersPerSeat
    BY <1>4 DEF SInv, Structured, Working, Capped
  <2> QED BY <1>2, <1>3, <2>1
<1>5. CASE ix.op = "MassQuote"
  <2>1. Merges(book, ix) /\ ix \in MassQuoteIx /\ ix.qi \in Nat /\ ix # Idle
    BY <1>5, MergeFacts DEF Merging, Idle
  <2>2. Len(ix.bids) \in Nat /\ Len(ix.asks) \in Nat
    BY <2>1, PayloadLen
  <2>3. Consumed(ix) <= Len(ix.bids) + Len(ix.asks) /\ Consumed(ix) \in Nat
    <3>1. ix.qi <= Len(Payload(ix)) /\ ix.qi \in Nat
      BY <2>1 DEF Merges
    <3>2. \A w, x, y \in Nat : (y <= x => w + y <= w + x /\ w + y \in Nat) /\ (y <= w => y <= w + x)
      OBVIOUS
    <3>3. CASE ix.side = "bid"
      <4>1. ix.qi <= Len(ix.bids) /\ Consumed(ix) = ix.qi
        BY <3>1, <3>3 DEF Payload, Consumed
      <4> QED BY <2>2, <3>1, <3>2, <4>1
    <3>4. CASE ix.side # "bid"
      <4>1. ix.qi <= Len(ix.asks) /\ Consumed(ix) = Len(ix.bids) + ix.qi
        BY <3>1, <3>4 DEF Payload, Consumed
      <4> QED BY <2>2, <3>1, <3>2, <4>1
    <3> QED BY <3>3, <3>4
  <2>4. Len(ix.bids) + Len(ix.asks) <= MaxOrdersPerSeat
    BY <2>1 DEF Merges
  <2>5. Cardinality(LiveOf(book, s)) <= MaxOrdersPerSeat + Consumed(ix)
    <3>1. CASE s = ix.seat
      BY <2>1, <3>1 DEF Merges
    <3>2. CASE s # ix.seat
      <4>1. Cardinality(LiveOf(book, s)) <= MaxOrdersPerSeat
        BY <2>1, <3>2 DEF Merges
      <4> QED BY <1>3, <2>3, <4>1
    <3> QED BY <3>1, <3>2
  <2>6. \A k, m, l, c \in Nat : k <= m + c /\ c <= l /\ l <= m => k <= 2 * m
    OBVIOUS
  <2>7. Len(ix.bids) + Len(ix.asks) \in Nat
    <3>1. \A x, y \in Nat : x + y \in Nat
      OBVIOUS
    <3> QED BY <2>2, <3>1
  <2>8. Cardinality(LiveOf(book, s)) <= 2 * MaxOrdersPerSeat
    BY <1>3, <2>3, <2>4, <2>5, <2>6, <2>7
  <2>9. book.seats[s].count <= 2 * MaxOrdersPerSeat
    BY ONLY <1>2, <2>8
  <2>10. ix # Idle
    BY ONLY <2>1
  <2> QED BY ONLY <2>9, <2>10
<1> QED BY <1>4, <1>5

LEMMA SInvChains == SInv => ChainsExact
<1> SUFFICES ASSUME SInv PROVE ChainsExact
  OBVIOUS
<1>1. book \in Book /\ ChainsAt(book) /\ Counted(book)
  BY SBook DEF SInv, Structured, Sound
<1> SUFFICES ASSUME NEW s \in SeatIds
    PROVE LET O    == LiveOf(book, s)
              seat == book.seats[s]
              Before(m, n) == ChainBefore(book.pool[m].side, book.pool[m].tick,
                                          book.pool[n].side, book.pool[n].tick)
          IN /\ seat.count = Cardinality(O)
             /\ seat.head \in O \cup {NIL} /\ (seat.head = NIL <=> O = {})
             /\ \A n \in O :
                  LET p == book.pool[n].makerPrev
                      m == book.pool[n].makerNext
                  IN /\ (p = NIL <=> n = seat.head) /\ p \in O \cup {NIL}
                     /\ m # NIL => m \in O /\ book.pool[m].makerPrev = n /\ Before(n, m)
  BY DEF ChainsExact
<1> DEFINE O == LiveOf(book, s)
           P(k) == PlaceOf(book, k)
<1>2. book.seats[s].count = Cardinality(O)
  BY <1>1, CountIs DEF CountOf
<1>3. \A k \in O : P(k) \in Nat /\ k \in Nodes /\ k # NIL /\ MakerOf(book, k) = s /\ k \in Live(book)
  BY <1>1, BookSeatwise, LivesFinite, LivesAre DEF Seatwise, Nodes, NIL
<1>4. Follows(book, s, -1, FirstOf(book, s))
  BY <1>1 DEF ChainsAt
<1>5. \A k \in O : Foregoes(book, s, P(k), ChainPrevOf(book, k)) /\ Follows(book, s, P(k), ChainNextOf(book, k))
  BY <1>1, <1>3 DEF ChainsAt
<1>6. \A j, k \in O : P(j) = P(k) => j = k
  BY <1>1 DEF ChainsAt, Distinct
<1> DEFINE h == FirstOf(book, s)
<1>7. /\ h # NIL => h \in O
      /\ \A k \in O : h # NIL /\ P(h) <= P(k)
  <2>1. \A k \in O : -1 < P(k)
    BY <1>3
  <2> QED BY <1>4, <2>1 DEF Follows
<1>8. ASSUME NEW n \in O
      PROVE  /\ ChainPrevOf(book, n) = NIL <=> n = h
             /\ ChainPrevOf(book, n) \in O \cup {NIL}
             /\ ChainNextOf(book, n) # NIL =>
                  /\ ChainNextOf(book, n) \in O /\ ChainPrevOf(book, ChainNextOf(book, n)) = n
                  /\ P(n) < P(ChainNextOf(book, n))
  <2> DEFINE p == ChainPrevOf(book, n)
             m == ChainNextOf(book, n)
  <2>1. /\ p # NIL => p \in O /\ P(p) < P(n)
        /\ \A k \in O : P(k) < P(n) => p # NIL /\ P(k) <= P(p)
    BY <1>5 DEF Foregoes
  <2>2. /\ m # NIL => m \in O /\ P(n) < P(m)
        /\ \A k \in O : P(n) < P(k) => m # NIL /\ P(m) <= P(k)
    BY <1>5 DEF Follows
  <2> HIDE DEF p, m, h, P, O
  <2>3. p = NIL => n = h
    <3>1. h \in O /\ P(h) <= P(n)
      BY <1>7, <1>8
    <3>2. p = NIL => ~(P(h) < P(n))
      BY <2>1, <3>1
    <3>3. P(h) \in Nat /\ P(n) \in Nat
      BY <1>3, <1>8, <3>1
    <3>4. p = NIL => P(h) = P(n)
      BY <3>1, <3>2, <3>3
    <3> QED BY <1>6, <1>8, <3>1, <3>4
  <2>4. n = h => p = NIL
    <3>1. p # NIL => p \in O /\ P(p) < P(n) /\ P(h) <= P(p)
      BY <1>7, <2>1
    <3>2. p # NIL => P(p) \in Nat
      BY <1>3, <3>1
    <3>3. P(n) \in Nat
      BY <1>3, <1>8
    <3> QED BY <3>1, <3>2, <3>3
  <2>5. ASSUME m # NIL PROVE ChainPrevOf(book, m) = n
    <3> DEFINE j == ChainPrevOf(book, m)
    <3>1. m \in O /\ P(n) < P(m)
      BY <2>2, <2>5
    <3>2. /\ j # NIL => j \in O /\ P(j) < P(m)
          /\ \A k \in O : P(k) < P(m) => j # NIL /\ P(k) <= P(j)
      <4>1. Foregoes(book, s, P(m), ChainPrevOf(book, m))
        BY <1>5, <3>1 DEF P, O
      <4> QED BY <4>1 DEF Foregoes, P, O
    <3> HIDE DEF j
    <3>3. j \in O /\ P(n) <= P(j) /\ P(j) < P(m)
      BY <1>8, <3>1, <3>2
    <3>4. ~(P(n) < P(j))
      <4>1. P(n) < P(j) => P(m) <= P(j)
        BY <2>2, <3>3
      <4>2. P(j) \in Nat /\ P(m) \in Nat
        BY <1>3, <3>1, <3>3
      <4> QED BY <3>3, <4>1, <4>2
    <3>5. P(n) \in Nat /\ P(j) \in Nat
      BY <1>3, <1>8, <3>3
    <3>6. P(n) = P(j)
      BY <3>3, <3>4, <3>5
    <3> QED BY <1>6, <1>8, <3>3, <3>6 DEF j
  <2> QED BY <2>1, <2>2, <2>3, <2>4, <2>5 DEF p, m
<1>9. \A n, m \in Nodes : ChainBefore(book.pool[n].side, book.pool[n].tick, book.pool[m].side, book.pool[m].tick)
                            <=> P(n) < P(m)
  BY <1>1, PlaceOrder
<1>10. h = NIL <=> O = {}
  <2>1. O = {} => h = NIL
    BY <1>7
  <2> QED BY <1>7, <2>1
<1>11. h = book.seats[s].head /\ \A n : ChainPrevOf(book, n) = book.pool[n].makerPrev /\ ChainNextOf(book, n) = book.pool[n].makerNext
  BY DEF FirstOf, ChainPrevOf, ChainNextOf
<1> HIDE DEF O, P, h
<1>12. ASSUME NEW n \in O, book.pool[n].makerNext # NIL
       PROVE  ChainBefore(book.pool[n].side, book.pool[n].tick,
                          book.pool[book.pool[n].makerNext].side, book.pool[book.pool[n].makerNext].tick)
  <2>1. book.pool[n].makerNext \in O /\ P(n) < P(book.pool[n].makerNext)
    BY <1>8, <1>11, <1>12
  <2>2. n \in Nodes /\ book.pool[n].makerNext \in Nodes
    BY <1>3, <1>12, <2>1
  <2> QED BY <1>9, <2>1, <2>2
<1>13. \A n \in O : /\ (book.pool[n].makerPrev = NIL <=> n = book.seats[s].head) /\ book.pool[n].makerPrev \in O \cup {NIL}
                    /\ book.pool[n].makerNext # NIL =>
                         book.pool[n].makerNext \in O /\ book.pool[book.pool[n].makerNext].makerPrev = n
  BY <1>8, <1>11
<1>14. book.seats[s].head \in O \cup {NIL} /\ (book.seats[s].head = NIL <=> O = {})
  BY <1>7, <1>10, <1>11
<1> QED BY <1>2, <1>12, <1>13, <1>14 DEF O

-----------------------------------------------------------------------------
(* The free list's walk                                                    *)

\* A walk of the free list takes as many steps as there are free nodes.
LEMMA FreeChainLength ==
  ASSUME NEW b, NEW k \in Nat, NEW q \in [0 .. k -> Links], FreeChain(b, q, k)
  PROVE  k <= Capacity
<1>1. Capacity \in Nat /\ Nodes = 1 .. Capacity /\ Unused(b) \subseteq Nodes
  BY BookAssumption DEF Nodes, Unused
<1>2. \A i \in 1 .. k : q[i] \in Nodes
  BY <1>1 DEF FreeChain
<1>3. \A i, j \in 1 .. k : q[i] = q[j] => i = j
  BY DEF FreeChain
<1> DEFINE f == [i \in 1 .. k |-> q[i]]
<1>4. f \in Injection(1 .. k, Nodes)
  <2>1. f \in [1 .. k -> Nodes]
    BY <1>2
  <2>2. \A i, j \in 1 .. k : f[i] = f[j] => i = j
    BY <1>3
  <2> HIDE DEF f
  <2> QED BY <2>1, <2>2 DEF Injection, IsInjective
<1>5. IsFiniteSet(Nodes) /\ Cardinality(Nodes) = Capacity /\ Cardinality(1 .. k) = k
  <2>1. \A m \in Nat : IsFiniteSet(1 .. m) /\ Cardinality(1 .. m) = m
    <3> TAKE m \in Nat
    <3>1. IsFiniteSet(1 .. m) /\ Cardinality(1 .. m) = IF 1 > m THEN 0 ELSE m - 1 + 1
      BY FS_Interval
    <3>2. m = 0 => 1 > m
      OBVIOUS
    <3> QED BY <3>1
  <2> QED BY <1>1, <2>1
<1> HIDE DEF f
<1>6. Cardinality(1 .. k) <= Cardinality(Nodes)
  BY <1>4, <1>5, FS_Injection
<1> QED BY <1>5, <1>6

\* The walk FreeListExact defines exists, and is the free list read from its head.
LEMMA WalkIs ==
  ASSUME NEW b, NEW w,
         \A j \in 0 .. Capacity : w[j] = IF j = 0 THEN b.freeHead ELSE b.pool[w[j - 1]].next,
         NEW v, v[0] = b.freeHead,
         \A j \in 1 .. Capacity : v[j] = b.pool[v[j - 1]].next
  PROVE  \A j \in 0 .. Capacity : w[j] = v[j]
<1>1. Capacity \in Nat
  BY BookAssumption
<1>3. w[0] = v[0]
  BY <1>1
<1>4. ASSUME NEW j \in 1 .. Capacity, w[j - 1] = v[j - 1] PROVE w[j] = v[j]
  BY <1>1, <1>4
<1> DEFINE X == {j \in 0 .. Capacity : w[j] # v[j]}
<1>5. SUFFICES ASSUME X # {} PROVE FALSE
  OBVIOUS
<1>6. X \in SUBSET Nat
  BY <1>1
<1> HIDE DEF X
<1>7. \E m \in X : \A j \in X : m <= j
  BY <1>5, <1>6, NatLeast
<1>8. PICK m \in X : \A j \in X : m <= j
  BY <1>7
<1>9. m \in 0 .. Capacity /\ w[m] # v[m]
  BY <1>8 DEF X
<1>10. m # 0
  BY <1>3, <1>9
<1>11. m - 1 \in 0 .. Capacity /\ m \in 1 .. Capacity /\ ~(m <= m - 1)
  BY <1>1, <1>9, <1>10
<1>12. w[m - 1] = v[m - 1]
  BY <1>8, <1>11 DEF X
<1> QED BY <1>4, <1>9, <1>11, <1>12

LEMMA FreeWalk ==
  ASSUME NEW b, FreeAt(b), NextOf(b, NIL) = NIL, b.freeHead \in Links,
         NEW w, w = CHOOSE u : u = [j \in 0 .. Capacity |-> IF j = 0 THEN b.freeHead ELSE b.pool[u[j - 1]].next]
  PROVE  {w[j] : j \in 0 .. Capacity} = Unused(b) \cup {NIL}
<1>0. PICK k \in Nat : \E q \in [0 .. k -> Links] : FreeChain(b, q, k)
  BY DEF FreeAt
<1>1. PICK q \in [0 .. k -> Links] : FreeChain(b, q, k)
  BY <1>0
<1>2. k <= Capacity /\ Capacity \in Nat \ {0} /\ NIL \in Links
  BY <1>1, FreeChainLength, BookAssumption DEF Links, NIL
<1> DEFINE v == [j \in 0 .. Capacity |-> IF j <= k THEN q[k - j] ELSE NIL]
<1>3. \A j \in 0 .. k : j \in 0 .. Capacity /\ k - j \in 0 .. k /\ v[j] = q[k - j]
  BY <1>2
<1>4. \A j \in 0 .. Capacity : ~(j <= k) => v[j] = NIL
  OBVIOUS
<1>5. v \in [0 .. Capacity -> Links]
  <2>1. ASSUME NEW j \in 0 .. Capacity PROVE (IF j <= k THEN q[k - j] ELSE NIL) \in Links
    <3>1. j <= k => k - j \in 0 .. k
      BY <1>2
    <3> QED BY <1>2, <3>1
  <2> QED BY <2>1
<1>6. v[0] = b.freeHead
  <2>1. 0 \in 0 .. k /\ k - 0 = k
    OBVIOUS
  <2> QED BY <1>1, <1>3, <2>1 DEF FreeChain
<1> HIDE DEF v
<1>7. \A i \in 1 .. k : b.pool[q[i]].next = q[i - 1]
  BY <1>1 DEF FreeChain, NextOf
<1>8. q[0] = NIL /\ b.pool[NIL].next = NIL
  BY <1>1 DEF FreeChain, NextOf
<1>9. ASSUME NEW j \in 1 .. Capacity PROVE v[j] = b.pool[v[j - 1]].next
  <2>0. j - 1 \in 0 .. Capacity /\ j \in 0 .. Capacity
    BY <1>2
  <2>1. CASE j <= k
    <3>1. k - (j - 1) \in 1 .. k /\ (k - (j - 1)) - 1 = k - j /\ j - 1 \in 0 .. k /\ j \in 0 .. k
      BY <2>1
    <3>2. v[j - 1] = q[k - (j - 1)] /\ v[j] = q[k - j]
      BY <1>3, <3>1
    <3>3. b.pool[q[k - (j - 1)]].next = q[(k - (j - 1)) - 1]
      BY <1>7, <3>1
    <3> QED BY <3>1, <3>2, <3>3
  <2>2. CASE ~(j <= k)
    <3>1. v[j] = NIL
      BY <1>4, <2>0, <2>2
    <3>2. v[j - 1] = NIL
      <4>1. CASE j - 1 <= k
        <5>1. j - 1 = k /\ k \in 0 .. k /\ k - k = 0
          BY <2>2, <4>1
        <5> QED BY <1>3, <1>8, <5>1
      <4>2. CASE ~(j - 1 <= k)
        BY <1>4, <2>0, <4>2
      <4> QED BY <4>1, <4>2
    <3> QED BY <1>8, <3>1, <3>2
  <2> QED BY <2>1, <2>2
<1>10. v = [j \in 0 .. Capacity |-> IF j = 0 THEN b.freeHead ELSE b.pool[v[j - 1]].next]
  <2>1. v = [j \in 0 .. Capacity |-> v[j]]
    BY <1>5
  <2>2. \A j \in 0 .. Capacity : v[j] = IF j = 0 THEN b.freeHead ELSE b.pool[v[j - 1]].next
    <3> TAKE j \in 0 .. Capacity
    <3>1. j # 0 => j \in 1 .. Capacity
      BY SMTT(30), <1>2
    <3> QED BY <1>6, <1>9, <3>1
  <2> QED BY <2>1, <2>2
<1>11. w = [j \in 0 .. Capacity |-> IF j = 0 THEN b.freeHead ELSE b.pool[w[j - 1]].next]
  BY <1>10
<1>12. \A j \in 0 .. Capacity : w[j] = IF j = 0 THEN b.freeHead ELSE b.pool[w[j - 1]].next
  <2> DEFINE F == [j \in 0 .. Capacity |-> IF j = 0 THEN b.freeHead ELSE b.pool[w[j - 1]].next]
  <2>1. \A j \in 0 .. Capacity : F[j] = IF j = 0 THEN b.freeHead ELSE b.pool[w[j - 1]].next
    OBVIOUS
  <2>2. w = F
    BY <1>11
  <2> HIDE DEF F
  <2> QED BY <2>1, <2>2
<1>19. \A j \in 0 .. Capacity : w[j] = v[j]
  <2>1. \A j \in 1 .. Capacity : v[j] = b.pool[v[j - 1]].next
    BY <1>9
  <2> QED BY ONLY <1>6, <1>12, <2>1, WalkIs
<1>13. \A j \in 0 .. Capacity : v[j] \in Unused(b) \cup {NIL}
  <2> TAKE j \in 0 .. Capacity
  <2>1. CASE j <= k
    <3>1. j \in 0 .. k /\ (k - j = 0 \/ k - j \in 1 .. k)
      BY <2>1
    <3>2. v[j] = q[k - j]
      BY <1>3, <3>1
    <3>3. \A i \in 1 .. k : q[i] \in Unused(b)
      BY <1>1 DEF FreeChain
    <3> QED BY <1>8, <3>1, <3>2, <3>3
  <2> QED BY <1>4, <2>1
<1>14. ASSUME NEW n \in Unused(b) PROVE \E j \in 0 .. Capacity : v[j] = n
  <2>1. PICK i \in 1 .. k : q[i] = n
    BY <1>1 DEF FreeChain
  <2>2. k - i \in 0 .. k /\ k - (k - i) = i
    OBVIOUS
  <2> QED BY <1>3, <2>1, <2>2
<1>15. \E j \in 0 .. Capacity : v[j] = NIL
  <2>1. k \in 0 .. k /\ k - k = 0
    OBVIOUS
  <2> QED BY <1>3, <1>8, <2>1
<1>16. {w[j] : j \in 0 .. Capacity} = {v[j] : j \in 0 .. Capacity}
  BY <1>19
<1>17. {v[j] : j \in 0 .. Capacity} \subseteq Unused(b) \cup {NIL}
  BY <1>13
<1>18. Unused(b) \cup {NIL} \subseteq {v[j] : j \in 0 .. Capacity}
  BY <1>14, <1>15
<1> QED BY <1>16, <1>17, <1>18

LEMMA SInvFreeList == SInv => FreeListExact
<1> SUFFICES ASSUME SInv PROVE FreeListExact
  OBVIOUS
<1> DEFINE F(u) == [k \in 0 .. Capacity |-> IF k = 0 THEN book.freeHead ELSE book.pool[u[k - 1]].next]
           w == CHOOSE u : u = F(u)
<1>1. book \in Book /\ FreeAt(book) /\ book.pool[NIL] = FreshNode(NIL)
  BY SBook DEF SInv, Structured, Sound, Housed
<1>2. NextOf(book, NIL) = NIL
  <2>1. FreshNode(NIL).next = NIL
    BY BookAssumption DEF FreshNode, NIL
  <2> QED BY <1>1, <2>1 DEF NextOf
<1>3. book.freeHead \in Links
  BY <1>1 DEF Book
<1>4. {w[j] : j \in 0 .. Capacity} = Unused(book) \cup {NIL}
  BY <1>1, <1>2, <1>3, FreeWalk
<1>5. book.freeCount = Cardinality(Unused(book)) /\ Unused(book) = Nodes \ Live(book)
  BY <1>1 DEF FreeAt, Unused
<1> QED BY <1>1, <1>4, <1>5 DEF FreeListExact

-----------------------------------------------------------------------------
(* The sums the properties write                                           *)

\* The lots of a set of orders, as LevelsExact adds them up.
LEMMA SizesSum ==
  ASSUME NEW b, NEW S, S \subseteq Nodes
  PROVE  Sum(LAMBDA n : b.pool[n].lots, S) = SumOver(Sizes(b), S)
<1>1. Sizes(b) = [n \in Nodes |-> b.pool[n].lots]
  BY DEF Sizes, LotsOf
<1> QED BY <1>1, LotsSum

\* What each node's order locks, of whichever asset it locks.
Locks(b) == [n \in Nodes |-> LockedAtoms(SideOf(b, n), TickOf(b, n), LotsOf(b, n))]

\* The locks of a set of orders, as LocksExact adds them up.
LEMMA LocksSum ==
  ASSUME NEW b, NEW S, S \subseteq Nodes
  PROVE  Sum(LAMBDA n : LockedAtoms(b.pool[n].side, b.pool[n].tick, b.pool[n].lots), S) = SumOver(Locks(b), S)
<1>1. Locks(b) = [n \in Nodes |-> LockedAtoms(b.pool[n].side, b.pool[n].tick, b.pool[n].lots)]
  BY DEF Locks, SideOf, TickOf, LotsOf
<1> QED BY <1>1, LocksIsSum

\* Terms that are zero may be left out.
LEMMA SumOverWhere ==
  ASSUME NEW g, NEW S, IsFiniteSet(S), NEW R, R \subseteq S, \A x \in S : g[x] \in Int,
         \A x \in S \ R : g[x] = 0
  PROVE  SumOver(g, S) = SumOver(g, R)
<1> DEFINE X == {T \in SUBSET S : SumOver(g, T) # SumOver(g, T \cap R)}
<1>1. SUFFICES ASSUME X # {} PROVE FALSE
  <2>1. S \notin X => SumOver(g, S) = SumOver(g, S \cap R)
    OBVIOUS
  <2>2. S \cap R = R
    OBVIOUS
  <2> QED BY <2>1, <2>2
<1>2. PICK T \in X : T \subseteq S /\ \A x \in T : T \ {x} \notin X
  <2>1. X \subseteq SUBSET S
    OBVIOUS
  <2> HIDE DEF X
  <2> QED BY <1>1, <2>1, LeastSet
<1>3. SumOver(g, T) # SumOver(g, T \cap R)
  OBVIOUS
<1>4. IsFiniteSet(T) /\ IsFiniteSet(T \cap R)
  BY <1>2, FS_Subset
<1>5. T \cap R # T
  BY <1>3
<1>6. PICK x \in T : x \notin R
  BY <1>5
<1>7. SumOver(g, T) = g[x] + SumOver(g, T \ {x}) /\ g[x] = 0
  <2>1. \A v \in T : g[v] \in Int
    BY <1>2
  <2> QED BY <1>2, <1>4, <1>6, <2>1, SumOverTake
<1>8. SumOver(g, T \ {x}) = SumOver(g, (T \ {x}) \cap R)
  <2>1. T \ {x} \notin X /\ T \ {x} \in SUBSET S
    BY <1>2
  <2> QED BY <2>1
<1>9. (T \ {x}) \cap R = T \cap R
  BY <1>6
<1>10. SumOver(g, T \ {x}) \in Int
  <2>1. IsFiniteSet(T \ {x}) /\ \A v \in T \ {x} : g[v] \in Int
    BY <1>2, <1>4, FS_Subset
  <2> QED BY <2>1, SumOverInt
<1>11. SumOver(g, T) = SumOver(g, T \ {x})
  BY <1>7, <1>10
<1> QED BY <1>3, <1>8, <1>9, <1>11, Zenon

LEMMA SInvLocks == SInv => LocksExact
<1> SUFFICES ASSUME SInv, NEW s \in SeatIds, NEW a \in Assets
             PROVE  book.seats[s].locked[a] =
                      Sum(LAMBDA n : LockedAtoms(book.pool[n].side, book.pool[n].tick, book.pool[n].lots),
                          {n \in LiveOf(book, s) : LockedAsset(book.pool[n].side) = a})
  BY DEF LocksExact
<1> DEFINE S == LiveOf(book, s)
           R == {n \in S : LockedAsset(book.pool[n].side) = a}
<1>1. book \in Book /\ Secured(book)
  BY SBook DEF SInv, Structured, Sound, Summed
<1>2. IsFiniteSet(S) /\ S \subseteq Nodes /\ R \subseteq S
  BY LivesFinite
<1>3. \A n \in R : LockedAsset(SideOf(book, n)) = a
  BY DEF SideOf
<1>4. \A n \in S \ R : LockedAsset(SideOf(book, n)) # a
  BY DEF SideOf
<1>5. book.seats[s].locked[a] = SumOver(LocksFor(book, a), S)
  BY <1>1 DEF Secured, LockedOf
<1>6. Sum(LAMBDA n : LockedAtoms(book.pool[n].side, book.pool[n].tick, book.pool[n].lots), R) = SumOver(Locks(book), R)
  BY <1>2, LocksSum
<1> HIDE DEF S, R
<1>7. \A n \in Nodes : LocksFor(book, a)[n] = LockOf(book, n, a) /\ LockOf(book, n, a) \in Int
  BY <1>1, LocksAre
<1>8. SumOver(LocksFor(book, a), S) = SumOver(LocksFor(book, a), R)
  <2>1. \A n \in S : LocksFor(book, a)[n] \in Int
    BY <1>2, <1>7
  <2>2. \A n \in S \ R : LocksFor(book, a)[n] = 0
    BY <1>2, <1>4, <1>7 DEF LockOf
  <2> QED BY <1>2, <2>1, <2>2, SumOverWhere
<1>9. SumOver(LocksFor(book, a), R) = SumOver(Locks(book), R)
  <2>1. IsFiniteSet(R)
    BY <1>2, FS_Subset
  <2>2. \A n \in R : LocksFor(book, a)[n] \in Int /\ LocksFor(book, a)[n] = Locks(book)[n]
    BY <1>2, <1>3, <1>7 DEF LockOf, Locks
  <2> QED BY <2>1, <2>2, SumOverSame
<1> QED BY <1>5, <1>6, <1>8, <1>9 DEF R, S

\* The orders at a tick of the window are its ring position's.
LEMMA OrdersAre ==
  ASSUME NEW b \in Book, Sound(b), NEW side \in Sides, NEW tick \in b.anchor .. LastTick(b)
  PROVE  OrdersAt(b, side, tick) = Queue(b, side, Slot(tick))
<1>1. b.anchor \in Nat /\ LastTick(b) = b.anchor + WindowTicks - 1 /\ WindowTicks \in Nat
  BY BookAssumption DEF Book, LastTick
<1>2. ASSUME NEW n \in Live(b) PROVE SlotOf(b, n) = Slot(tick) <=> TickOf(b, n) = tick
  <2>1. InWindow(b, TickOf(b, n))
    BY LiveTick
  <2>2. SlotOf(b, n) = Slot(TickOf(b, n))
    BY DEF SlotOf, TickOf
  <2>3. TickOf(b, n) \in b.anchor .. b.anchor + WindowTicks - 1
    BY <1>1, <2>1 DEF InWindow
  <2>4. tick \in b.anchor .. b.anchor + WindowTicks - 1
    BY <1>1
  <2> QED BY <1>1, <2>2, <2>3, <2>4, SlotApart
<1> QED BY <1>2 DEF OrdersAt, Queue, SideOf, TickOf

LEMMA SInvLevels == ASSUME MaxOrderIds <= FreedSeq, SInv PROVE LevelsExact
<1> SUFFICES ASSUME NEW side \in Sides, NEW tick \in book.anchor .. LastTick(book)
    PROVE LET O == OrdersAt(book, side, tick)
              l == book.levels[Slot(tick)]
          IN /\ IsOccupied(book, side, tick) <=> O # {}
             /\ O # {} =>
                  /\ l.head \in O /\ book.pool[l.head].prev = NIL
                  /\ l.tail \in O /\ book.pool[l.tail].next = NIL
                  /\ l.total = Sum(LAMBDA n : book.pool[n].lots, O)
                  /\ \A n \in O :
                       /\ n # l.tail =>
                            LET m == book.pool[n].next
                            IN m \in O /\ book.pool[m].prev = n
                               /\ book.pool[n].seq < book.pool[m].seq
                       /\ n # l.head => book.pool[n].prev \in O
  BY DEF LevelsExact
<1> DEFINE O == OrdersAt(book, side, tick)
           l == Slot(tick)
<1>1. book \in Book /\ Sound(book) /\ Tallied(book)
  BY SBook DEF SInv, Structured, Sound, Summed
<1>2. PICK r : LevelsAt(book, r) /\ Dated(book, r)
  BY <1>1 DEF Sound, Listed
<1>3. O = Queue(book, side, l)
  BY <1>1, OrdersAre
<1> HIDE DEF O, l
<1>4. \A n : n \in O <=> Rests(book, n, side, l)
  BY <1>3 DEF Queue, Rests
<1>5. \A n \in O : Queued(book, r, n) /\ SideOf(book, n) = side /\ SlotOf(book, n) = l /\ n \in Live(book)
  BY <1>2, <1>4 DEF LevelsAt, Rests
<1>6. l \in book.bits[side] <=> O # {}
  <2>1. l \in book.bits[side] => HeadOf(book, l) \in O
    BY <1>2, <1>4 DEF LevelsAt, Served
  <2>2. \A n \in O : l \in book.bits[side]
    BY <1>5 DEF Queued
  <2> QED BY <2>1, <2>2
<1>7. ASSUME O # {}
      PROVE  /\ HeadOf(book, l) \in O /\ PrevOf(book, HeadOf(book, l)) = NIL
             /\ TailOf(book, l) \in O /\ NextOf(book, TailOf(book, l)) = NIL
             /\ TotalOf(book, l) = SumOver(Sizes(book), O)
  <2>1. Served(book, side, l) /\ l \in book.bits[side]
    BY <1>2, <1>6, <1>7 DEF LevelsAt
  <2>2. TotalOf(book, l) = SumOver(Sizes(book), O)
    BY <1>1, <1>3, <2>1 DEF Tallied
  <2> QED BY <1>4, <2>1, <2>2 DEF Served
<1>8. ASSUME NEW n \in O, n # TailOf(book, l)
      PROVE  /\ NextOf(book, n) \in O /\ PrevOf(book, NextOf(book, n)) = n
             /\ SeqOf(book, n) < SeqOf(book, NextOf(book, n))
  <2>1. NextOf(book, n) # NIL
    BY <1>5, <1>8 DEF Queued
  <2>2. Rests(book, NextOf(book, n), side, l) /\ PrevOf(book, NextOf(book, n)) = n /\ r[n] < r[NextOf(book, n)]
    BY <1>5, <2>1 DEF Queued, Mates
  <2>3. r[n] = SeqOf(book, n) /\ r[NextOf(book, n)] = SeqOf(book, NextOf(book, n))
    BY <1>2, <1>5, <2>2 DEF Dated, Rests
  <2> QED BY <1>4, <2>2, <2>3
<1>9. ASSUME NEW n \in O, n # HeadOf(book, l) PROVE PrevOf(book, n) \in O
  <2>1. PrevOf(book, n) # NIL
    BY <1>5, <1>9 DEF Queued
  <2>2. Rests(book, PrevOf(book, n), side, l)
    BY <1>5, <2>1 DEF Queued, Mates
  <2> QED BY <1>4, <2>2
<1>10. Sum(LAMBDA n : book.pool[n].lots, O) = SumOver(Sizes(book), O)
  <2>1. O \subseteq Nodes
    BY <1>3, QueueFinite
  <2> QED BY <2>1, SizesSum
<1> DEFINE lvl == book.levels[l]
<1>11. /\ lvl.head = HeadOf(book, l) /\ lvl.tail = TailOf(book, l) /\ lvl.total = TotalOf(book, l)
       /\ \A n : /\ book.pool[n].prev = PrevOf(book, n) /\ book.pool[n].next = NextOf(book, n)
                 /\ book.pool[n].seq = SeqOf(book, n)
  BY DEF HeadOf, TailOf, TotalOf, PrevOf, NextOf, SeqOf
<1>12. IsOccupied(book, side, tick) <=> l \in book.bits[side]
  BY DEF IsOccupied, l
<1> HIDE DEF lvl
<1>13. O # {} => /\ lvl.head \in O /\ book.pool[lvl.head].prev = NIL
                 /\ lvl.tail \in O /\ book.pool[lvl.tail].next = NIL
                 /\ lvl.total = Sum(LAMBDA n : book.pool[n].lots, O)
  BY <1>7, <1>10, <1>11
<1>14. ASSUME NEW n \in O
       PROVE  /\ n # lvl.tail =>
                   /\ book.pool[n].next \in O /\ book.pool[book.pool[n].next].prev = n
                   /\ book.pool[n].seq < book.pool[book.pool[n].next].seq
              /\ n # lvl.head => book.pool[n].prev \in O
  BY <1>8, <1>9, <1>11
<1> QED BY <1>6, <1>12, <1>13, <1>14 DEF O, lvl, l

-----------------------------------------------------------------------------
\* Ring aliasing (reanchor_step, check_or_slide_vs, evict_tick): after every
\* step of every instruction each live order lies in the window, and the
\* window is aligned, clear of tick 0 and within the limit.
THEOREM WindowKept == ASSUME FreedSeq \notin CancelIds PROVE Spec => []WindowHolds
BY StructureHolds, SInvWindow, PTL

\* The seat's cap (order_count, chain_splice, mass_quote): no sequence of
\* inserts, merges, fills and evictions leaves a seat above its cap, nor above
\* twice the cap while a merge is under way.
THEOREM CapKept == ASSUME FreedSeq \notin CancelIds PROVE Spec => []SeatCap
BY StructureHolds, SInvCap, PTL

\* The seat chains (chain_splice, chain_unlink, chain_insert_sorted): they run
\* through exactly the maker's live orders in order, whatever was filled,
\* reaped or evicted out of their middle and wherever the merge's cursor is.
THEOREM ChainsKept == ASSUME FreedSeq \notin CancelIds PROVE Spec => []ChainsExact
BY StructureHolds, SInvChains, PTL

\* The free list (alloc_node, free_node): it holds exactly the nodes no live
\* order uses, each once, so that no order is ever lost or overwritten.
THEOREM FreeListKept == ASSUME FreedSeq \notin CancelIds PROVE Spec => []FreeListExact
BY StructureHolds, SInvFreeList, PTL

\* Time priority and the level lists (fifo_append, fifo_unlink): while ids are
\* not reused, each price's bit is set exactly when orders rest there, and its
\* links run through exactly those, oldest first, with their lots as the total.
THEOREM LevelsKept ==
  ASSUME FreedSeq \notin CancelIds, MaxOrderIds <= FreedSeq PROVE Spec => []LevelsExact
<1>1. SInv => LevelsExact
  BY SInvLevels
<1> QED BY <1>1, StructureHolds, PTL

\* Locked funds (lock, unlock, take_from_locked): a seat has locked exactly
\* what its live orders lock, at every step, whatever was amended, partly
\* filled, cancelled, reaped or evicted.
THEOREM LocksKept == ASSUME FreedSeq \notin CancelIds PROVE Spec => []LocksExact
BY StructureHolds, SInvLocks, PTL
=============================================================================
