---------------------------- MODULE Bitmap_proofs ----------------------------
(***************************************************************************)
(* For every word size, ring and set of ticks: the two levels of a bitmap  *)
(* agree, a bitmap is the set of ring positions OrderBook.tla takes it     *)
(* for, and every scan finds what that set says.  The argument is one      *)
(* inductive invariant, types and agreement; it rests on how a position    *)
(* splits into a word and a bit.  The scans are recursive functions: that  *)
(* they have a value, and which, is shown by a least counterexample.       *)
(***************************************************************************)
EXTENDS Bitmap, WellFoundedInduction, TLAPS

IInv == TypeOK /\ SummaryExact

\* A natural number splits into a word and a bit, in one way.
LEMMA Split ==
  ASSUME NEW n \in Nat
  PROVE  /\ Leaf(n) \in Nat /\ Bit(n) \in Bits
         /\ n = Word * Leaf(n) + Bit(n)
BY BitmapAssumption DEF Leaf, Bit, Bits

\* Two positions in the same word at the same bit are one.
LEMMA SplitUnique ==
  ASSUME NEW m \in Nat, NEW n \in Nat, Leaf(m) = Leaf(n), Bit(m) = Bit(n)
  PROVE  m = n
BY Split

\* The leaf words divide evenly into summary words.
LEMMA Sizes ==
  /\ Window \in Nat \ {0} /\ SummaryWords \in Nat
  /\ LeafWords = SummaryWords * Word
BY BitmapAssumption DEF Window, SummaryWords

\* A quotient is below the number of divisors it is a multiple of.
LEMMA QuotientBound ==
  ASSUME NEW n \in Nat, NEW k \in Nat, n < Word * k
  PROVE  Leaf(n) \in 0 .. k - 1
<1>1. Leaf(n) \in Nat /\ Word * Leaf(n) <= n
  BY Split, BitmapAssumption DEF Bits
<1>2. Leaf(n) < k
  <2>1. SUFFICES ASSUME k <= Leaf(n) PROVE FALSE
    BY <1>1
  <2>2. Word * k <= Word * Leaf(n)
    BY <1>1, <2>1, BitmapAssumption
  <2> QED BY <1>1, <2>2, BitmapAssumption
<1> QED BY <1>1, <1>2

\* Every ring position has a leaf word.
LEMMA RingWords == \A q \in 0 .. Window - 1 : Leaf(q) \in 0 .. LeafWords - 1
<1> TAKE q \in 0 .. Window - 1
<1>1. q \in Nat /\ q < Word * LeafWords
  BY Sizes DEF Window
<1> QED BY <1>1, QuotientBound, BitmapAssumption

\* A tick's ring position, its leaf word, and that word's summary word exist.
LEMMA PositionInRing ==
  ASSUME NEW tick \in Nat
  PROVE  LET pos == tick % Window
         IN /\ pos \in 0 .. Window - 1
            /\ Leaf(pos) \in 0 .. LeafWords - 1 /\ Bit(pos) \in Bits
            /\ Leaf(Leaf(pos)) \in 0 .. SummaryWords - 1 /\ Bit(Leaf(pos)) \in Bits
<1> DEFINE pos == tick % Window
<1>1. pos \in 0 .. Window - 1
  BY Sizes
<1>2. Leaf(pos) \in 0 .. LeafWords - 1
  BY <1>1, RingWords
<1>3. Leaf(Leaf(pos)) \in 0 .. SummaryWords - 1
  BY <1>2, QuotientBound, BitmapAssumption, Sizes
<1> QED BY <1>1, <1>2, <1>3, Split, BitmapAssumption

LEMMA InitIInv == Init => IInv
<1> SUFFICES ASSUME Init PROVE IInv
  OBVIOUS
<1>1. TypeOK
  BY DEF Init, TypeOK
<1>2. SummaryExact
  <2> SUFFICES ASSUME NEW w \in 0 .. LeafWords - 1
               PROVE  Bit(w) \in summary[Leaf(w)] <=> leaves[w] # {}
    BY DEF SummaryExact
  <2>1. Leaf(w) \in 0 .. SummaryWords - 1
    BY QuotientBound, Sizes, BitmapAssumption
  <2> QED BY <2>1 DEF Init
<1> QED BY <1>1, <1>2 DEF IInv

\* Setting or clearing bits of leaf word w while its summary bit follows keeps
\* the levels in agreement.
LEMMA StepIInv ==
  ASSUME IInv, NEW w \in 0 .. LeafWords - 1, NEW leaf \in SUBSET Bits,
         leaves' = [leaves EXCEPT ![w] = leaf],
         leaf = {} => summary' = [summary EXCEPT ![Leaf(w)] = @ \ {Bit(w)}],
         leaf # {} => \/ summary' = [summary EXCEPT ![Leaf(w)] = @ \cup {Bit(w)}]
                      \/ summary' = summary /\ leaves[w] # {}
  PROVE  IInv'
<1>1. Leaf(w) \in 0 .. SummaryWords - 1 /\ Bit(w) \in Bits
  BY QuotientBound, Split, Sizes, BitmapAssumption
<1>2. TypeOK'
  BY <1>1 DEF IInv, TypeOK
<1>3. SummaryExact'
  <2> SUFFICES ASSUME NEW v \in 0 .. LeafWords - 1
               PROVE  Bit(v) \in summary'[Leaf(v)] <=> leaves'[v] # {}
    BY DEF SummaryExact
  <2>1. Leaf(v) \in 0 .. SummaryWords - 1
    BY QuotientBound, Sizes, BitmapAssumption
  <2>2. Bit(v) \in summary[Leaf(v)] <=> leaves[v] # {}
    BY DEF IInv, SummaryExact
  <2>3. CASE v = w
    BY <1>1, <2>2, <2>3 DEF IInv, TypeOK
  <2>4. CASE v # w
    <3>1. Leaf(v) # Leaf(w) \/ Bit(v) # Bit(w)
      BY <2>4, SplitUnique
    <3> QED BY <1>1, <2>1, <2>2, <2>4, <3>1 DEF IInv, TypeOK
  <2> QED BY <2>3, <2>4
<1> QED BY <1>2, <1>3 DEF IInv

LEMMA NextIInv == IInv /\ [Next]_vars => IInv'
<1> SUFFICES ASSUME IInv, [Next]_vars PROVE IInv'
  OBVIOUS
<1>1. CASE UNCHANGED vars
  BY <1>1 DEF IInv, TypeOK, SummaryExact, vars
<1>2. ASSUME NEW tick \in Ticks, Set(tick) PROVE IInv'
  <2> DEFINE w == Leaf(tick % Window)
             leaf == leaves[w] \cup {Bit(tick % Window)}
  <2>1. w \in 0 .. LeafWords - 1 /\ Bit(tick % Window) \in Bits
    BY PositionInRing, BitmapAssumption
  <2>2. leaf \in SUBSET Bits /\ leaf # {}
    BY <2>1 DEF IInv, TypeOK
  <2>3. leaves' = [leaves EXCEPT ![w] = leaf]
    BY <1>2 DEF Set
  <2>4. summary' = [summary EXCEPT ![Leaf(w)] = @ \cup {Bit(w)}]
    BY <1>2 DEF Set
  <2> HIDE DEF leaf
  <2> QED BY <2>1, <2>2, <2>3, <2>4, StepIInv
<1>3. ASSUME NEW tick \in Ticks, Clear(tick) PROVE IInv'
  <2> DEFINE w == Leaf(tick % Window)
             leaf == leaves[w] \ {Bit(tick % Window)}
  <2>1. w \in 0 .. LeafWords - 1
    BY PositionInRing, BitmapAssumption
  <2>2. leaf \in SUBSET Bits /\ (leaf # {} => leaves[w] # {})
    BY <2>1 DEF IInv, TypeOK
  <2>3. leaves' = [leaves EXCEPT ![w] = leaf]
    BY <1>3 DEF Clear
  <2>4. summary' = IF leaf = {} THEN [summary EXCEPT ![Leaf(w)] = @ \ {Bit(w)}]
                   ELSE summary
    BY <1>3 DEF Clear
  <2> HIDE DEF leaf
  <2> QED BY <2>1, <2>2, <2>3, <2>4, StepIInv
<1> QED BY <1>1, <1>2, <1>3 DEF Next

\* The types, and the agreement of the two levels that every scan relies on.
THEOREM BitmapCorrect == Spec => [](TypeOK /\ SummaryExact)
<1>1. Init => IInv
  BY InitIInv
<1>2. IInv /\ [Next]_vars => IInv'
  BY NextIInv
<1> QED BY <1>1, <1>2, PTL DEF Spec, IInv

-----------------------------------------------------------------------------
(* Refinement                                                              *)

\* Changing one leaf word changes the occupied positions of that word only.
LEMMA OccupiedStep ==
  ASSUME TypeOK, NEW p \in 0 .. Window - 1, NEW leaf \in SUBSET Bits,
         Leaf(p) \in 0 .. LeafWords - 1,
         leaves' = [leaves EXCEPT ![Leaf(p)] = leaf]
  PROVE  /\ leaf = leaves[Leaf(p)] \cup {Bit(p)} => Occupied' = Occupied \cup {p}
         /\ leaf = leaves[Leaf(p)] \ {Bit(p)} => Occupied' = Occupied \ {p}
<1>1. \A q \in 0 .. Window - 1 :
        /\ Leaf(q) \in 0 .. LeafWords - 1
        /\ q # p => Leaf(q) # Leaf(p) \/ Bit(q) # Bit(p)
  BY RingWords, SplitUnique, Sizes
<1>2. \A q \in 0 .. Window - 1 :
        leaves'[Leaf(q)] = IF Leaf(q) = Leaf(p) THEN leaf ELSE leaves[Leaf(q)]
  BY <1>1 DEF TypeOK
<1> QED BY <1>1, <1>2 DEF Occupied

\* A bitmap is a set of ring positions: it starts empty, and setting or
\* clearing a tick adds or removes its position and no other.
THEOREM BitmapIsOccupancy == Spec => IsOccupancy
<1>1. Init => Positions!Init
  <2> SUFFICES ASSUME Init PROVE Occupied = {}
    BY DEF Positions!Init
  <2> QED BY RingWords DEF Init, Occupied
<1>2. IInv /\ [Next]_vars => [Positions!Next]_Occupied
  <2> SUFFICES ASSUME IInv, [Next]_vars PROVE [Positions!Next]_Occupied
    OBVIOUS
  <2>1. CASE UNCHANGED vars
    BY <2>1 DEF vars, Occupied
  <2>2. ASSUME NEW tick \in Ticks, Set(tick) PROVE Positions!Set(tick)
    <3> DEFINE p == tick % Window
               leaf == leaves[Leaf(p)] \cup {Bit(p)}
    <3>1. p \in 0 .. Window - 1 /\ Leaf(p) \in 0 .. LeafWords - 1
      BY PositionInRing, BitmapAssumption
    <3>2. leaf \in SUBSET Bits
      BY <3>1, PositionInRing, BitmapAssumption DEF IInv, TypeOK
    <3>3. leaves' = [leaves EXCEPT ![Leaf(p)] = leaf]
      BY <2>2 DEF Set
    <3>4. Occupied' = Occupied \cup {p}
      BY <3>1, <3>2, <3>3, OccupiedStep DEF IInv
    <3> QED BY <3>4 DEF Positions!Set
  <2>3. ASSUME NEW tick \in Ticks, Clear(tick) PROVE Positions!Clear(tick)
    <3> DEFINE p == tick % Window
               leaf == leaves[Leaf(p)] \ {Bit(p)}
    <3>1. p \in 0 .. Window - 1 /\ Leaf(p) \in 0 .. LeafWords - 1
      BY PositionInRing, BitmapAssumption
    <3>2. leaf \in SUBSET Bits
      BY <3>1 DEF IInv, TypeOK
    <3>3. leaves' = [leaves EXCEPT ![Leaf(p)] = leaf]
      BY <2>3 DEF Clear
    <3>4. Occupied' = Occupied \ {p}
      BY <3>1, <3>2, <3>3, OccupiedStep DEF IInv
    <3> QED BY <3>4 DEF Positions!Clear
  <2> QED BY <2>1, <2>2, <2>3 DEF Next, Positions!Next
<1>3. Init => IInv
  BY InitIInv
<1>4. IInv /\ [Next]_vars => IInv'
  BY NextIInv
<1> QED BY <1>1, <1>2, <1>3, <1>4, PTL DEF Spec, IsOccupancy, Positions!Spec

-----------------------------------------------------------------------------
(* Order: by word, then by bit                                             *)

\* A set of natural numbers has a least member.
LEMMA LeastOf ==
  ASSUME NEW S, S \subseteq Nat, S # {}
  PROVE  \E m \in S : \A n \in S : m <= n
<1>1. PICK m \in S : \A n \in S : <<n, m>> \notin OpToRel(<, Nat)
  BY WFMin, NatLessThanWellFounded
<1>2. \A n \in S : ~(n < m)
  BY <1>1 DEF OpToRel
<1> QED BY <1>2

\* A bounded one has a greatest.
LEMMA GreatestOf ==
  ASSUME NEW b \in Nat, NEW S, S \subseteq 0 .. b, S # {}
  PROVE  \E m \in S : \A n \in S : n <= m
<1> DEFINE R == {r \in 0 .. b : b - r \in S}
<1>1. R \subseteq Nat
  OBVIOUS
<1>2. \A n \in S : n \in 0 .. b /\ b - n \in R
  <2>1. ASSUME NEW n \in S PROVE n \in 0 .. b /\ b - n \in R
    <3>1. n \in 0 .. b /\ b - n \in 0 .. b /\ b - (b - n) = n
      OBVIOUS
    <3> QED BY <3>1
  <2> QED BY <2>1
<1>3. R # {}
  BY <1>2
<1>4. PICK r \in R : \A q \in R : r <= q
  <2> HIDE DEF R
  <2> QED BY <1>1, <1>3, LeastOf
<1>5. r \in 0 .. b /\ b - r \in S
  OBVIOUS
<1>6. \A n \in S : n <= b - r
  <2> HIDE DEF R
  <2> QED BY <1>2, <1>4, <1>5
<1> QED BY <1>5, <1>6

\* A later word starts at least a word later.
LEMMA WordsApart ==
  ASSUME NEW v \in Int, NEW w \in Int, v < w
  PROVE  Word * v + Word <= Word * w
<1>1. w - v - 1 >= 0 /\ Word >= 0
  BY BitmapAssumption
<1>2. Word * (w - v - 1) >= 0
  BY <1>1, BitmapAssumption
<1>3. Word * (w - v - 1) = Word * w - Word * v - Word
  BY BitmapAssumption
<1> QED BY <1>2, <1>3, BitmapAssumption

\* A word and a bit make a position.
LEMMA Joined ==
  ASSUME NEW w \in Nat, NEW j \in Bits
  PROVE  /\ w * Word + j \in Nat
         /\ Leaf(w * Word + j) = w /\ Bit(w * Word + j) = j
<1> DEFINE n == w * Word + j
<1>1. n \in Nat /\ j \in 0 .. Word - 1 /\ w * Word = Word * w
  BY BitmapAssumption DEF Bits
<1>2. /\ Leaf(n) \in Nat /\ Bit(n) \in 0 .. Word - 1
      /\ n = Word * Leaf(n) + Bit(n)
  BY <1>1, Split DEF Bits
<1>3. n = Word * w + j
  BY <1>1
<1> HIDE DEF n
<1>4. Leaf(n) = w
  <2>1. CASE Leaf(n) < w
    BY <1>1, <1>2, <1>3, <2>1, WordsApart, BitmapAssumption
  <2>2. CASE w < Leaf(n)
    BY <1>1, <1>2, <1>3, <2>2, WordsApart, BitmapAssumption
  <2> QED BY <1>2, <2>1, <2>2
<1>5. Bit(n) = j
  <2>1. n = Word * w + Bit(n)
    BY <1>2, <1>4
  <2> QED BY <1>1, <1>2, <1>3, <2>1, BitmapAssumption
<1> QED BY <1>1, <1>4, <1>5 DEF n

\* Positions are ordered by word, those of a word by bit.
LEMMA ByWord ==
  ASSUME NEW m \in Nat, NEW n \in Nat
  PROVE  /\ Leaf(m) < Leaf(n) => m < n
         /\ Leaf(m) = Leaf(n) => (m <= n <=> Bit(m) <= Bit(n))
         /\ m <= n => Leaf(m) <= Leaf(n)
<1>1. /\ Leaf(m) \in Nat /\ Bit(m) \in 0 .. Word - 1 /\ m = Word * Leaf(m) + Bit(m)
      /\ Leaf(n) \in Nat /\ Bit(n) \in 0 .. Word - 1 /\ n = Word * Leaf(n) + Bit(n)
  BY Split DEF Bits
<1>2. Leaf(m) < Leaf(n) => m < n
  BY <1>1, WordsApart, BitmapAssumption
<1>3. Leaf(n) < Leaf(m) => n < m
  BY <1>1, WordsApart, BitmapAssumption
<1>4. Leaf(m) = Leaf(n) => (m <= n <=> Bit(m) <= Bit(n))
  BY <1>1, BitmapAssumption
<1> QED BY <1>1, <1>2, <1>3, <1>4

\* FirstBit and LastBit find the ends of a word that is not empty.
LEMMA EndBits ==
  ASSUME NEW word, word \subseteq Bits, word # {}
  PROVE  /\ FirstBit(word) \in word /\ \A k \in word : FirstBit(word) <= k
         /\ LastBit(word) \in word /\ \A k \in word : k <= LastBit(word)
<1>1. Word - 1 \in Nat /\ word \subseteq 0 .. Word - 1 /\ word \subseteq Nat
  BY BitmapAssumption DEF Bits
<1>2. \E j \in word : \A k \in word : j <= k
  BY <1>1, LeastOf
<1>3. \E j \in word : \A k \in word : k <= j
  BY <1>1, GreatestOf
<1>4. FirstBit(word) = CHOOSE j \in word : \A k \in word : j <= k
  BY DEF FirstBit
<1>5. LastBit(word) = CHOOSE j \in word : \A k \in word : k <= j
  BY DEF LastBit
<1> QED BY <1>2, <1>3, <1>4, <1>5

-----------------------------------------------------------------------------
(* The scans as recursions                                                 *)

\* One unfolding of a recursion over 0 .. n that stops where `stop` says, with
\* the value of `val`, and goes on with the argument of `nxt` elsewhere.
Unfold(n, stop, val, nxt, it) ==
  [w \in 0 .. n |-> IF stop[w] THEN val[w] ELSE it[nxt[w]]]

\* A recursion over 0 .. n that either stops or goes on with an argument of a
\* smaller rank has a solution.
LEMMA Recursion ==
  ASSUME NEW n \in Nat, NEW stop, NEW val, NEW nxt, NEW rank \in [0 .. n -> Nat],
         \A w \in 0 .. n : ~stop[w] => nxt[w] \in 0 .. n /\ rank[nxt[w]] < rank[w],
         \A w \in 0 .. n : rank[w] <= n
  PROVE  \E it : it = Unfold(n, stop, val, nxt, it)
<1> DEFINE Low(r) == {w \in 0 .. n : rank[w] < r}
           Value(it, w) == IF stop[w] THEN val[w] ELSE it[nxt[w]]
           Solves(it, r) == it = [w \in Low(r) |-> Value(it, w)]
           Bad == {r \in Nat : ~ \E it : Solves(it, r)}
<1>1. Bad = {}
  <2>1. SUFFICES ASSUME Bad # {} PROVE FALSE
    OBVIOUS
  <2>2. PICK r \in Bad : \A q \in Bad : r <= q
    <3>1. Bad \subseteq Nat
      OBVIOUS
    <3> HIDE DEF Bad
    <3> QED BY <2>1, <3>1, LeastOf
  <2>3. r \in Nat /\ ~ \E it : Solves(it, r)
    OBVIOUS
  <2>4. r # 0
    <3>1. ASSUME r = 0 PROVE FALSE
      <4>1. Low(r) = {}
        BY <3>1
      <4> DEFINE it == [w \in Low(r) |-> 0]
      <4>2. Solves(it, r)
        BY <4>1
      <4> QED BY <2>3, <4>2
    <3> QED BY <3>1
  <2>5. r - 1 \in Nat /\ r - 1 \notin Bad
      <3>1. r - 1 \in Nat /\ ~(r <= r - 1)
      BY <2>3, <2>4
    <3> HIDE DEF Bad
    <3> QED BY <2>2, <3>1
  <2>6. PICK it : Solves(it, r - 1)
    <3> HIDE DEF Solves
    <3> QED BY <2>5
  <2> DEFINE jt == [w \in Low(r) |-> Value(it, w)]
  <2>7. ASSUME NEW w \in Low(r), ~stop[w] PROVE nxt[w] \in Low(r - 1)
    <3>1. w \in 0 .. n /\ rank[w] < r
      OBVIOUS
    <3>2. nxt[w] \in 0 .. n /\ rank[nxt[w]] < rank[w]
      BY <2>7, <3>1
    <3>3. rank[nxt[w]] < r - 1
      BY <2>3, <3>1, <3>2
    <3> QED BY <3>2, <3>3
  <2>8. ASSUME NEW w \in Low(r - 1) PROVE w \in Low(r) /\ it[w] = jt[w]
    <3>1. w \in Low(r)
      BY <2>3
    <3>2. it[w] = Value(it, w)
      BY <2>6, Zenon
    <3> HIDE DEF Value
    <3> QED BY <3>1, <3>2
  <2>9. ASSUME NEW w \in Low(r) PROVE Value(it, w) = Value(jt, w)
    <3>1. ~stop[w] => it[nxt[w]] = jt[nxt[w]]
      <4> HIDE DEF jt, Low
      <4> QED BY <2>7, <2>8
    <3> HIDE DEF jt, Low
    <3> QED BY <3>1
  <2>10. Solves(jt, r)
    <3>1. \A w \in Low(r) : Value(it, w) = Value(jt, w)
      BY <2>9, Zenon
    <3> HIDE DEF Value, Low
    <3> QED BY <3>1
  <2> QED BY <2>3, <2>10
<1>2. n + 1 \notin Bad /\ n + 1 \in Nat
  <2> HIDE DEF Bad
  <2> QED BY <1>1
<1>3. PICK it : Solves(it, n + 1)
  <2> HIDE DEF Solves
  <2> QED BY <1>2
<1>4. Low(n + 1) = 0 .. n
  OBVIOUS
<1>5. it = Unfold(n, stop, val, nxt, it)
  BY <1>3, <1>4 DEF Unfold
<1> QED BY <1>5

\* ScanUp past its first word: the words of w's group from w on that are not
\* empty, the first of them, and that word's first position.
UpGroup(w) == {j \in summary[Leaf(w)] : j >= Bit(w)}
UpWord(w)  == Leaf(w) * Word + FirstBit(UpGroup(w))
UpEntry(w) == UpWord(w) * Word + FirstBit(leaves[UpWord(w)])

UpBody(to, it) ==
  [w \in 0 .. LeafWords |->
     IF w > Leaf(to - 1) THEN None
     ELSE IF UpGroup(w) = {} THEN it[(Leaf(w) + 1) * Word]
     ELSE Within(UpEntry(w), UpWord(w) <= Leaf(to - 1) /\ UpEntry(w) < to)]
UpScan(to) == CHOOSE it : it = UpBody(to, it)

\* ScanUp and ScanDown are their first word and then the recursion.
LEMMA ScanUpDef ==
  ASSUME NEW from, NEW to
  PROVE  LET first == {j \in leaves[Leaf(from)] : j >= Bit(from)}
             p     == Leaf(from) * Word + FirstBit(first)
         IN ScanUp(from, to) = IF from >= to THEN None
                               ELSE IF first # {} THEN Within(p, p < to)
                               ELSE UpScan(to)[Leaf(from) + 1]
BY Zenon DEF ScanUp, UpScan, UpBody, UpGroup, UpWord, UpEntry

\* ScanDown past its first word.
DownGroup(w) == {j \in summary[Leaf(w)] : j <= Bit(w)}
DownWord(w)  == Leaf(w) * Word + LastBit(DownGroup(w))
DownEntry(w) == DownWord(w) * Word + LastBit(leaves[DownWord(w)])

DownBody(downTo, it) ==
  [w \in 0 .. LeafWords |->
     IF DownGroup(w) = {}
     THEN IF Leaf(w) = 0 \/ Leaf(w) * Word - 1 < Leaf(downTo) THEN None
          ELSE it[Leaf(w) * Word - 1]
     ELSE Within(DownEntry(w), DownWord(w) >= Leaf(downTo) /\ DownEntry(w) >= downTo)]
DownScan(downTo) == CHOOSE it : it = DownBody(downTo, it)

LEMMA ScanDownDef ==
  ASSUME NEW from, NEW downTo
  PROVE  LET first == {j \in leaves[Leaf(from)] : j <= Bit(from)}
             p     == Leaf(from) * Word + LastBit(first)
         IN ScanDown(from, downTo) = IF first # {} THEN Within(p, p >= downTo)
                                     ELSE IF Leaf(from) = 0 THEN None
                                     ELSE DownScan(downTo)[Leaf(from) - 1]
BY Zenon DEF ScanDown, DownScan, DownBody, DownGroup, DownWord, DownEntry

\* The first word of the next group, and the last of the one before.
LEMMA GroupEnds ==
  ASSUME NEW w \in 0 .. LeafWords
  PROVE  /\ Leaf(w) \in Nat
         /\ w < LeafWords => /\ (Leaf(w) + 1) * Word \in 0 .. LeafWords
                             /\ w < (Leaf(w) + 1) * Word
         /\ Leaf(w) # 0 => /\ Leaf(w) * Word - 1 \in 0 .. LeafWords
                           /\ Leaf(w) * Word - 1 < w
<1>1. w \in Nat /\ Leaf(w) \in Nat /\ Bit(w) \in 0 .. Word - 1 /\ w = Word * Leaf(w) + Bit(w)
  BY Split, BitmapAssumption DEF Bits
<1>2. /\ (Leaf(w) + 1) * Word = Word * Leaf(w) + Word
      /\ Leaf(w) * Word = Word * Leaf(w)
  BY <1>1, BitmapAssumption
<1>3. w < LeafWords => /\ (Leaf(w) + 1) * Word \in 0 .. LeafWords
                       /\ w < (Leaf(w) + 1) * Word
  <2>1. SUFFICES ASSUME w < LeafWords
                 PROVE  /\ (Leaf(w) + 1) * Word \in 0 .. LeafWords
                        /\ w < (Leaf(w) + 1) * Word
    OBVIOUS
  <2>2. w < (Leaf(w) + 1) * Word
    BY <1>1, <1>2, BitmapAssumption
  <2>3. Leaf(w) \in 0 .. SummaryWords - 1
    <3>1. w \in Nat /\ SummaryWords \in Nat /\ w < Word * SummaryWords
      BY <1>1, <2>1, Sizes, BitmapAssumption
    <3> QED BY <3>1, QuotientBound
  <2>4. Word * Leaf(w) + Word <= Word * SummaryWords
    BY <2>3, WordsApart, Sizes
  <2>5. Word * SummaryWords = LeafWords
    BY Sizes, BitmapAssumption
  <2> QED BY <1>1, <1>2, <2>2, <2>4, <2>5, BitmapAssumption
<1>4. Leaf(w) # 0 => /\ Leaf(w) * Word - 1 \in 0 .. LeafWords
                     /\ Leaf(w) * Word - 1 < w
  <2>1. SUFFICES ASSUME Leaf(w) # 0
                 PROVE  /\ Leaf(w) * Word - 1 \in 0 .. LeafWords
                        /\ Leaf(w) * Word - 1 < w
    OBVIOUS
  <2>2. Word * 0 + Word <= Word * Leaf(w)
    BY <1>1, <2>1, WordsApart
  <2> QED BY <1>1, <1>2, <2>2, BitmapAssumption
<1> QED BY <1>1, <1>3, <1>4

\* ScanUp's recursion goes up, so it ends.
LEMMA UpScanSolves ==
  ASSUME NEW to \in 1 .. Window
  PROVE  UpScan(to) = UpBody(to, UpScan(to))
<1> DEFINE stop == [w \in 0 .. LeafWords |-> w > Leaf(to - 1) \/ UpGroup(w) # {}]
           val  == [w \in 0 .. LeafWords |->
                      IF w > Leaf(to - 1) THEN None
                      ELSE Within(UpEntry(w), UpWord(w) <= Leaf(to - 1) /\ UpEntry(w) < to)]
           nxt  == [w \in 0 .. LeafWords |-> (Leaf(w) + 1) * Word]
           rank == [w \in 0 .. LeafWords |-> LeafWords - w]
<1>1. LeafWords \in Nat /\ rank \in [0 .. LeafWords -> Nat]
      /\ \A w \in 0 .. LeafWords : rank[w] <= LeafWords
  BY BitmapAssumption
<1>2. Leaf(to - 1) \in 0 .. LeafWords - 1
  BY RingWords, Sizes
<1>3. ASSUME NEW w \in 0 .. LeafWords, ~stop[w]
      PROVE  nxt[w] \in 0 .. LeafWords /\ rank[nxt[w]] < rank[w]
  <2>1. w < LeafWords
    <3>1. ~(w > Leaf(to - 1))
      BY <1>3
    <3> QED BY <1>2, <3>1, BitmapAssumption
  <2>2. nxt[w] \in 0 .. LeafWords /\ w < nxt[w]
    BY <2>1, GroupEnds
  <2> HIDE DEF nxt
  <2> QED BY <2>2, BitmapAssumption
<1>4. PICK it : it = Unfold(LeafWords, stop, val, nxt, it)
  <2>1. \A w \in 0 .. LeafWords :
          ~stop[w] => nxt[w] \in 0 .. LeafWords /\ rank[nxt[w]] < rank[w]
    BY <1>3, Zenon
  <2> HIDE DEF stop, val, nxt, rank
  <2> QED BY <1>1, <2>1, Recursion
<1>5. it = UpBody(to, it)
  <2>1. ASSUME NEW w \in 0 .. LeafWords
        PROVE  (IF stop[w] THEN val[w] ELSE it[nxt[w]])
                 = IF w > Leaf(to - 1) THEN None
                   ELSE IF UpGroup(w) = {} THEN it[(Leaf(w) + 1) * Word]
                   ELSE Within(UpEntry(w), UpWord(w) <= Leaf(to - 1) /\ UpEntry(w) < to)
    BY Zenon
  <2> HIDE DEF stop, val, nxt
  <2> QED BY <1>4, <2>1 DEF UpBody, Unfold
<1> QED BY <1>5, Zenon DEF UpScan

\* ScanDown's goes down.
LEMMA DownScanSolves ==
  ASSUME NEW downTo
  PROVE  DownScan(downTo) = DownBody(downTo, DownScan(downTo))
<1> DEFINE ends(w) == Leaf(w) = 0 \/ Leaf(w) * Word - 1 < Leaf(downTo)
           stop == [w \in 0 .. LeafWords |-> DownGroup(w) # {} \/ ends(w)]
           val  == [w \in 0 .. LeafWords |->
                      IF DownGroup(w) = {} THEN None
                      ELSE Within(DownEntry(w), DownWord(w) >= Leaf(downTo) /\ DownEntry(w) >= downTo)]
           nxt  == [w \in 0 .. LeafWords |-> Leaf(w) * Word - 1]
           rank == [w \in 0 .. LeafWords |-> w]
<1>1. LeafWords \in Nat /\ rank \in [0 .. LeafWords -> Nat]
      /\ \A w \in 0 .. LeafWords : rank[w] <= LeafWords
  BY BitmapAssumption
<1>3. ASSUME NEW w \in 0 .. LeafWords, ~stop[w]
      PROVE  nxt[w] \in 0 .. LeafWords /\ rank[nxt[w]] < rank[w]
  <2>1. Leaf(w) # 0
    BY <1>3
  <2>2. nxt[w] \in 0 .. LeafWords /\ nxt[w] < w
    BY <2>1, GroupEnds
  <2> HIDE DEF nxt
  <2> QED BY <2>2
<1>4. PICK it : it = Unfold(LeafWords, stop, val, nxt, it)
  <2>1. \A w \in 0 .. LeafWords :
          ~stop[w] => nxt[w] \in 0 .. LeafWords /\ rank[nxt[w]] < rank[w]
    BY <1>3, Zenon
  <2> HIDE DEF stop, val, nxt, rank
  <2> QED BY <1>1, <2>1, Recursion
<1>5. it = DownBody(downTo, it)
  <2>1. ASSUME NEW w \in 0 .. LeafWords
        PROVE  (IF stop[w] THEN val[w] ELSE it[nxt[w]])
                 = IF DownGroup(w) = {}
                   THEN IF Leaf(w) = 0 \/ Leaf(w) * Word - 1 < Leaf(downTo) THEN None
                        ELSE it[Leaf(w) * Word - 1]
                   ELSE Within(DownEntry(w), DownWord(w) >= Leaf(downTo) /\ DownEntry(w) >= downTo)
    BY Zenon
  <2> HIDE DEF stop, val, nxt
  <2> QED BY <1>4, <2>1 DEF DownBody, Unfold
<1> QED BY <1>5, Zenon DEF DownScan

-----------------------------------------------------------------------------
(* What a scan finds                                                       *)

\* The lowest occupied position of lo .. hi - 1, and the highest of lo .. hi.
LowestIn(p, lo, hi) ==
  \/ p = None /\ \A x \in Occupied : ~(lo <= x /\ x < hi)
  \/ p \in Occupied /\ lo <= p /\ p < hi /\ \A x \in Occupied : lo <= x => p <= x
HighestIn(p, lo, hi) ==
  \/ p = None /\ \A x \in Occupied : ~(lo <= x /\ x <= hi)
  \/ p \in Occupied /\ lo <= p /\ p <= hi /\ \A x \in Occupied : x <= hi => x <= p

\* An occupied position is a bit of a leaf word.
LEMMA InWord ==
  ASSUME IInv, NEW x \in Occupied
  PROVE  /\ x \in Nat /\ x < Window /\ x = Leaf(x) * Word + Bit(x)
         /\ Leaf(x) \in 0 .. LeafWords - 1 /\ Bit(x) \in Bits /\ Bit(x) \in leaves[Leaf(x)]
<1>1. x \in 0 .. Window - 1 /\ Bit(x) \in leaves[Leaf(x)]
  BY DEF Occupied
<1>2. x \in Nat /\ x < Window
  BY <1>1, Sizes
<1>3. Leaf(x) \in 0 .. LeafWords - 1
  BY <1>1, RingWords
<1>4. Leaf(x) \in Nat /\ Bit(x) \in Bits /\ x = Word * Leaf(x) + Bit(x)
  BY <1>2, Split
<1> QED BY <1>1, <1>2, <1>3, <1>4, BitmapAssumption

\* A bit of a leaf word is an occupied position.
LEMMA OfWord ==
  ASSUME IInv, NEW w \in 0 .. LeafWords - 1, NEW j \in leaves[w]
  PROVE  /\ w * Word + j \in Occupied /\ Leaf(w * Word + j) = w /\ Bit(w * Word + j) = j
<1>1. w \in Nat /\ j \in Bits
  BY BitmapAssumption DEF IInv, TypeOK
<1> DEFINE x == w * Word + j
<1>2. x \in Nat /\ Leaf(x) = w /\ Bit(x) = j
  BY <1>1, Joined
<1>3. x < Window
  <2>1. Word * w + Word <= Word * LeafWords
    BY <1>1, WordsApart, BitmapAssumption
  <2> QED BY <1>1, <2>1, BitmapAssumption DEF Window, Bits
<1> HIDE DEF x
<1>4. x \in Occupied
  BY <1>2, <1>3, Sizes DEF Occupied
<1> QED BY <1>2, <1>4 DEF x

\* The lowest position of a word from a bit on, if that part is not empty, and
\* the highest up to one.
LEMMA WordScan ==
  ASSUME IInv, NEW w \in 0 .. LeafWords - 1, NEW b \in Nat, b < Word
  PROVE  LET up   == {j \in leaves[w] : j >= b}
             down == {j \in leaves[w] : j <= b}
             p    == w * Word + FirstBit(up)
             q    == w * Word + LastBit(down)
         IN /\ up # {} => /\ p \in Occupied /\ Leaf(p) = w /\ w * Word + b <= p
                          /\ \A x \in Occupied : w * Word + b <= x => p <= x
            /\ up = {} => \A x \in Occupied : Leaf(x) = w => x < w * Word + b
            /\ down # {} => /\ q \in Occupied /\ Leaf(q) = w /\ q <= w * Word + b
                            /\ \A x \in Occupied : x <= w * Word + b => x <= q
            /\ down = {} => \A x \in Occupied : Leaf(x) = w => w * Word + b < x
<1> DEFINE up   == {j \in leaves[w] : j >= b}
           down == {j \in leaves[w] : j <= b}
           p    == w * Word + FirstBit(up)
           q    == w * Word + LastBit(down)
           at   == w * Word + b
<1>1. leaves[w] \subseteq Bits /\ up \subseteq Bits /\ down \subseteq Bits
  BY DEF IInv, TypeOK
<1>2. b \in Bits /\ w \in Nat
  BY BitmapAssumption DEF Bits
<1>3. at \in Nat /\ Leaf(at) = w /\ Bit(at) = b
  BY <1>2, Joined
<1> HIDE DEF at
<1>4. ASSUME NEW x \in Occupied PROVE
        /\ x \in Nat /\ Bit(x) \in Bits /\ Bit(x) \in leaves[Leaf(x)]
        /\ Leaf(x) = w => Bit(x) \in leaves[w]
  BY InWord
<1>5. ASSUME up # {} PROVE /\ p \in Occupied /\ Leaf(p) = w /\ at <= p
                           /\ \A x \in Occupied : at <= x => p <= x
  <2>1. FirstBit(up) \in up /\ \A k \in up : FirstBit(up) <= k
    <3> HIDE DEF up
    <3> QED BY <1>1, <1>5, EndBits
  <2>2. FirstBit(up) \in leaves[w] /\ FirstBit(up) >= b
    BY <2>1
  <2>3. p \in Occupied /\ Leaf(p) = w /\ Bit(p) = FirstBit(up)
    BY <2>2, OfWord
  <2>4. p \in Nat
    BY <2>3, InWord
  <2> HIDE DEF p
  <2>5. at <= p
    BY <1>2, <1>3, <2>2, <2>3, <2>4, ByWord DEF Bits
  <2>6. ASSUME NEW x \in Occupied, at <= x PROVE p <= x
    <3>1. w <= Leaf(x)
      BY <1>3, <1>4, <2>6, ByWord
    <3>2. CASE w < Leaf(x)
      BY <1>4, <2>3, <2>4, <3>2, ByWord
    <3>3. CASE w = Leaf(x)
      <4>1. b <= Bit(x)
        BY <1>3, <1>4, <2>6, <3>3, ByWord
      <4>2. Bit(x) \in up
        BY <1>2, <1>4, <3>3, <4>1 DEF Bits
      <4>3. Bit(p) <= Bit(x)
        BY <2>1, <2>3, <4>2
      <4> QED BY <1>4, <2>3, <2>4, <3>3, <4>3, ByWord
    <3> QED BY <3>1, <3>2, <3>3, <1>2, InWord
  <2> QED BY <2>3, <2>5, <2>6
<1>6. ASSUME up = {}, NEW x \in Occupied, Leaf(x) = w PROVE x < at
  <2>1. Bit(x) \in leaves[w] /\ Bit(x) \in Bits
    BY <1>4, <1>6
  <2>2. ~(b <= Bit(x))
    BY <1>2, <1>6, <2>1 DEF Bits
  <2> QED BY <1>3, <1>4, <1>6, <2>2, ByWord
<1>7. ASSUME down # {} PROVE /\ q \in Occupied /\ Leaf(q) = w /\ q <= at
                             /\ \A x \in Occupied : x <= at => x <= q
  <2>1. LastBit(down) \in down /\ \A k \in down : k <= LastBit(down)
    <3> HIDE DEF down
    <3> QED BY <1>1, <1>7, EndBits
  <2>2. LastBit(down) \in leaves[w] /\ LastBit(down) <= b
    BY <2>1
  <2>3. q \in Occupied /\ Leaf(q) = w /\ Bit(q) = LastBit(down)
    BY <2>2, OfWord
  <2>4. q \in Nat
    BY <2>3, InWord
  <2> HIDE DEF q
  <2>5. q <= at
    BY <1>2, <1>3, <2>2, <2>3, <2>4, ByWord DEF Bits
  <2>6. ASSUME NEW x \in Occupied, x <= at PROVE x <= q
    <3>1. Leaf(x) <= w
      BY <1>3, <1>4, <2>6, ByWord
    <3>2. CASE Leaf(x) < w
      BY <1>4, <2>3, <2>4, <3>2, ByWord
    <3>3. CASE w = Leaf(x)
      <4>1. Bit(x) <= b
        BY <1>3, <1>4, <2>6, <3>3, ByWord
      <4>2. Bit(x) \in down
        BY <1>2, <1>4, <3>3, <4>1 DEF Bits
      <4>3. Bit(x) <= Bit(q)
        BY <2>1, <2>3, <4>2
      <4> QED BY <1>4, <2>3, <2>4, <3>3, <4>3, ByWord
    <3> QED BY <3>1, <3>2, <3>3, <1>2, InWord
  <2> QED BY <2>3, <2>5, <2>6
<1>8. ASSUME down = {}, NEW x \in Occupied, Leaf(x) = w PROVE at < x
  <2>1. Bit(x) \in leaves[w] /\ Bit(x) \in Bits
    BY <1>4, <1>8
  <2>2. ~(Bit(x) <= b)
    BY <1>2, <1>8, <2>1 DEF Bits
  <2> QED BY <1>3, <1>4, <1>8, <2>2, ByWord
<1> QED BY <1>5, <1>6, <1>7, <1>8 DEF at

\* The words that are not empty, as the summary shows them: the first of w's
\* group from w on, and the last up to w.
LEMMA GroupScan ==
  ASSUME IInv, NEW w \in 0 .. LeafWords - 1
  PROVE  /\ UpGroup(w) # {} =>
              /\ UpWord(w) \in 0 .. LeafWords - 1 /\ leaves[UpWord(w)] # {} /\ w <= UpWord(w)
              /\ \A v \in 0 .. LeafWords - 1 : leaves[v] # {} /\ w <= v => UpWord(w) <= v
         /\ UpGroup(w) = {} =>
              \A v \in 0 .. LeafWords - 1 : leaves[v] # {} /\ w <= v => (Leaf(w) + 1) * Word <= v
         /\ DownGroup(w) # {} =>
              /\ DownWord(w) \in 0 .. LeafWords - 1 /\ leaves[DownWord(w)] # {} /\ DownWord(w) <= w
              /\ \A v \in 0 .. LeafWords - 1 : leaves[v] # {} /\ v <= w => v <= DownWord(w)
         /\ DownGroup(w) = {} =>
              \A v \in 0 .. LeafWords - 1 : leaves[v] # {} /\ v <= w => v <= Leaf(w) * Word - 1
<1> DEFINE s == Leaf(w)
           up == UpGroup(w)
           down == DownGroup(w)
<1>1. \A v \in 0 .. LeafWords - 1 :
        /\ v \in Nat /\ Leaf(v) \in 0 .. SummaryWords - 1 /\ Bit(v) \in Bits
        /\ Bit(v) \in summary[Leaf(v)] <=> leaves[v] # {}
  <2> TAKE v \in 0 .. LeafWords - 1
  <2>1. v \in Nat /\ v < Word * SummaryWords
    BY Sizes, BitmapAssumption
  <2>2. Leaf(v) \in 0 .. SummaryWords - 1
    BY <2>1, Sizes, QuotientBound
  <2> QED BY <2>1, <2>2, Split DEF IInv, SummaryExact
<1>2. w \in Nat /\ s \in 0 .. SummaryWords - 1 /\ s \in Nat /\ Bit(w) \in Bits
  BY <1>1, Sizes
<1>3. up \subseteq summary[s] /\ down \subseteq summary[s] /\ summary[s] \subseteq Bits
  BY <1>2 DEF IInv, TypeOK, UpGroup, DownGroup
<1>4. ASSUME NEW j \in summary[s]
      PROVE  /\ s * Word + j \in 0 .. LeafWords - 1 /\ leaves[s * Word + j] # {}
             /\ Leaf(s * Word + j) = s /\ Bit(s * Word + j) = j
  <2> DEFINE v == s * Word + j
  <2>1. j \in Bits
    BY <1>3
  <2>2. v \in Nat /\ Leaf(v) = s /\ Bit(v) = j
    BY <1>2, <2>1, Joined
  <2>3. v < LeafWords
    <3>1. Word * s + Word <= Word * SummaryWords
      BY <1>2, WordsApart, Sizes
    <3> QED BY <1>2, <2>1, <3>1, Sizes, BitmapAssumption DEF Bits
  <2> HIDE DEF v
  <2>4. v \in 0 .. LeafWords - 1
    BY <2>2, <2>3, BitmapAssumption
  <2>5. leaves[v] # {}
    BY <1>1, <2>2, <2>4
  <2> QED BY <2>2, <2>4, <2>5 DEF v
<1>5. ASSUME NEW v \in 0 .. LeafWords - 1, leaves[v] # {}, w <= v, Leaf(v) = s
      PROVE  Bit(v) \in up
  <2>1. Bit(w) <= Bit(v)
    BY <1>1, <1>2, <1>5, ByWord
  <2> QED BY <1>1, <1>2, <1>5, <2>1 DEF UpGroup, Bits
<1>6. ASSUME NEW v \in 0 .. LeafWords - 1, leaves[v] # {}, v <= w, Leaf(v) = s
      PROVE  Bit(v) \in down
  <2>1. Bit(v) <= Bit(w)
    BY <1>1, <1>2, <1>6, ByWord
  <2> QED BY <1>1, <1>2, <1>6, <2>1 DEF DownGroup, Bits
<1>7. ASSUME up # {}
      PROVE  /\ UpWord(w) \in 0 .. LeafWords - 1 /\ leaves[UpWord(w)] # {} /\ w <= UpWord(w)
             /\ \A v \in 0 .. LeafWords - 1 : leaves[v] # {} /\ w <= v => UpWord(w) <= v
  <2>1. FirstBit(up) \in up /\ \A k \in up : FirstBit(up) <= k
    <3> HIDE DEF up
    <3> QED BY <1>3, <1>7, EndBits
  <2>2. /\ UpWord(w) \in 0 .. LeafWords - 1 /\ leaves[UpWord(w)] # {}
        /\ Leaf(UpWord(w)) = s /\ Bit(UpWord(w)) = FirstBit(up)
    BY <1>3, <1>4, <2>1 DEF UpWord
  <2>3. UpWord(w) \in Nat
    BY <1>1, <2>2
  <2>4. w <= UpWord(w)
    <3>1. Bit(w) <= FirstBit(up)
      BY <1>2, <1>3, <2>1 DEF UpGroup, Bits
    <3> QED BY <1>2, <2>2, <2>3, <3>1, ByWord
  <2>5. ASSUME NEW v \in 0 .. LeafWords - 1, leaves[v] # {}, w <= v PROVE UpWord(w) <= v
    <3>1. s <= Leaf(v)
      BY <1>1, <1>2, <2>5, ByWord
    <3>2. CASE s < Leaf(v)
      BY <1>1, <2>2, <2>3, <3>2, ByWord
    <3>3. CASE s = Leaf(v)
      <4>1. FirstBit(up) <= Bit(v)
        BY <1>5, <2>1, <2>5, <3>3
      <4> QED BY <1>1, <2>2, <2>3, <3>3, <4>1, ByWord
    <3>4. s < Leaf(v) \/ s = Leaf(v)
      BY <1>1, <1>2, <3>1
    <3> QED BY <3>2, <3>3, <3>4
  <2> QED BY <2>2, <2>4, <2>5
<1>8. ASSUME up = {}, NEW v \in 0 .. LeafWords - 1, leaves[v] # {}, w <= v
      PROVE  (s + 1) * Word <= v
  <2>1. s <= Leaf(v)
    BY <1>1, <1>2, <1>8, ByWord
  <2>2. s # Leaf(v)
    BY <1>5, <1>8
  <2>3. Word * s + Word <= Word * Leaf(v)
    BY <1>1, <1>2, <2>1, <2>2, WordsApart
  <2>4. v = Word * Leaf(v) + Bit(v) /\ Bit(v) >= 0
    BY <1>1, Split DEF Bits
  <2>5. (s + 1) * Word = Word * s + Word
    BY <1>2, BitmapAssumption
  <2>6. Leaf(v) \in Nat /\ Bit(v) \in Nat /\ Word * s \in Int /\ Word * Leaf(v) \in Int /\ Word \in Int
    BY <1>1, <1>2, BitmapAssumption DEF Bits
  <2> QED BY <2>3, <2>4, <2>5, <2>6
<1>9. ASSUME down # {}
      PROVE  /\ DownWord(w) \in 0 .. LeafWords - 1 /\ leaves[DownWord(w)] # {} /\ DownWord(w) <= w
             /\ \A v \in 0 .. LeafWords - 1 : leaves[v] # {} /\ v <= w => v <= DownWord(w)
  <2>1. LastBit(down) \in down /\ \A k \in down : k <= LastBit(down)
    <3> HIDE DEF down
    <3> QED BY <1>3, <1>9, EndBits
  <2>2. /\ DownWord(w) \in 0 .. LeafWords - 1 /\ leaves[DownWord(w)] # {}
        /\ Leaf(DownWord(w)) = s /\ Bit(DownWord(w)) = LastBit(down)
    BY <1>3, <1>4, <2>1 DEF DownWord
  <2>3. DownWord(w) \in Nat
    BY <1>1, <2>2
  <2>4. DownWord(w) <= w
    <3>1. LastBit(down) <= Bit(w)
      BY <1>2, <1>3, <2>1 DEF DownGroup, Bits
    <3> QED BY <1>2, <2>2, <2>3, <3>1, ByWord
  <2>5. ASSUME NEW v \in 0 .. LeafWords - 1, leaves[v] # {}, v <= w PROVE v <= DownWord(w)
    <3>1. Leaf(v) <= s
      BY <1>1, <1>2, <2>5, ByWord
    <3>2. CASE Leaf(v) < s
      BY <1>1, <2>2, <2>3, <3>2, ByWord
    <3>3. CASE s = Leaf(v)
      <4>1. Bit(v) <= LastBit(down)
        BY <1>6, <2>1, <2>5, <3>3
      <4> QED BY <1>1, <2>2, <2>3, <3>3, <4>1, ByWord
    <3>4. Leaf(v) < s \/ s = Leaf(v)
      BY <1>1, <1>2, <3>1
    <3> QED BY <3>2, <3>3, <3>4
  <2> QED BY <2>2, <2>4, <2>5
<1>10. ASSUME down = {}, NEW v \in 0 .. LeafWords - 1, leaves[v] # {}, v <= w
       PROVE  v <= s * Word - 1
  <2>1. Leaf(v) <= s
    BY <1>1, <1>2, <1>10, ByWord
  <2>2. s # Leaf(v)
    BY <1>6, <1>10
  <2>3. Word * Leaf(v) + Word <= Word * s
    BY <1>1, <1>2, <2>1, <2>2, WordsApart
  <2>4. v = Word * Leaf(v) + Bit(v) /\ Bit(v) <= Word - 1
    BY <1>1, Split, BitmapAssumption DEF Bits
  <2>5. s * Word = Word * s
    BY <1>2, BitmapAssumption
  <2>6. Leaf(v) \in Nat /\ Bit(v) \in Nat /\ Word * s \in Int /\ Word * Leaf(v) \in Int /\ Word \in Int
    BY <1>1, <1>2, BitmapAssumption DEF Bits
  <2> QED BY <2>3, <2>4, <2>5, <2>6
<1> QED BY <1>7, <1>8, <1>9, <1>10

\* The recursion of ScanUp finds the lowest position from word w on.
LEMMA UpScanFinds ==
  ASSUME IInv, NEW to \in 1 .. Window, NEW w \in 0 .. LeafWords
  PROVE  LowestIn(UpScan(to)[w], w * Word, to)
<1> DEFINE it == UpScan(to)
           Bad == {n \in Nat : \E v \in 0 .. LeafWords :
                                 n = LeafWords - v /\ ~LowestIn(it[v], v * Word, to)}
<1>1. it = UpBody(to, it)
  BY UpScanSolves
<1> HIDE DEF it
<1>2. SUFFICES ASSUME Bad # {} PROVE FALSE
  <2>1. LeafWords - w \in Nat
    BY BitmapAssumption
  <2>2. LeafWords - w \notin Bad
    <3> HIDE DEF Bad
    <3> QED BY <1>2
  <2>3. LowestIn(it[w], w * Word, to)
    BY <2>1, <2>2, Zenon
  <2> QED BY <2>3 DEF it
<1>3. PICK n \in Bad : \A m \in Bad : n <= m
  <2>1. Bad \subseteq Nat
    OBVIOUS
  <2> HIDE DEF Bad
  <2> QED BY <1>2, <2>1, LeastOf
<1>4. PICK v \in 0 .. LeafWords : n = LeafWords - v /\ ~LowestIn(it[v], v * Word, to)
  OBVIOUS
<1>5. ASSUME NEW u \in 0 .. LeafWords, v < u PROVE LowestIn(it[u], u * Word, to)
  <2>1. LeafWords - u \in Nat /\ ~(n <= LeafWords - u)
    BY <1>4, <1>5, BitmapAssumption
  <2>2. LeafWords - u \notin Bad
    <3> HIDE DEF Bad
    <3> QED BY <1>3, <2>1
  <2> QED BY <2>1, <2>2
<1> HIDE DEF Bad
<1>6. it[v] = IF v > Leaf(to - 1) THEN None
              ELSE IF UpGroup(v) = {} THEN it[(Leaf(v) + 1) * Word]
              ELSE Within(UpEntry(v), UpWord(v) <= Leaf(to - 1) /\ UpEntry(v) < to)
  BY <1>1 DEF UpBody
<1>7. /\ to - 1 \in Nat /\ to \in Nat /\ Leaf(to - 1) \in 0 .. LeafWords - 1
      /\ v \in Nat /\ LeafWords \in Nat
  BY RingWords, Sizes, BitmapAssumption
<1>8. /\ 0 \in Bits /\ 0 \in Nat /\ 0 < Word
      /\ \A u \in Nat : u * Word + 0 = u * Word /\ u * Word \in Nat
  BY BitmapAssumption DEF Bits
<1>9. \A x \in Occupied : /\ x \in Nat /\ Leaf(x) \in 0 .. LeafWords - 1 /\ leaves[Leaf(x)] # {}
                          /\ Bit(x) \in Nat /\ x = Leaf(x) * Word + Bit(x)
  BY InWord DEF Bits
<1>10. \A x \in Occupied : v * Word <= x => v <= Leaf(x)
  <2> TAKE x \in Occupied
  <2>1. Leaf(v * Word) = v
    BY <1>7, <1>8, Joined
  <2> QED BY <1>7, <1>8, <1>9, <2>1, ByWord
<1>11. ASSUME NEW u \in Nat, NEW x \in Occupied, u <= Leaf(x) PROVE u * Word <= x
  <2>1. Leaf(u * Word) = u /\ Bit(u * Word) = 0
    BY <1>8, Joined
  <2>2. CASE u < Leaf(x)
    <3>1. u * Word \in Nat /\ x \in Nat /\ Leaf(u * Word) < Leaf(x)
      BY <1>8, <1>9, <2>1, <2>2
    <3>2. u * Word < x
      BY <3>1, ByWord
    <3> QED BY <3>1, <3>2
  <2>3. CASE u = Leaf(x)
    BY <1>8, <1>9, <2>3
  <2> QED BY <1>9, <1>11, <2>2, <2>3
<1>12. CASE v > Leaf(to - 1)
  <2>1. \A x \in Occupied : ~(v * Word <= x /\ x < to)
    <3> SUFFICES ASSUME NEW x \in Occupied, v * Word <= x, x < to PROVE FALSE
      OBVIOUS
    <3>1. Leaf(x) <= Leaf(to - 1)
      BY <1>7, <1>9, ByWord
    <3> QED BY <1>7, <1>9, <1>10, <1>12, <3>1
  <2> QED BY <1>4, <1>6, <1>12, <2>1 DEF LowestIn
<1>13. CASE v <= Leaf(to - 1) /\ UpGroup(v) = {}
  <2> DEFINE u == (Leaf(v) + 1) * Word
  <2>1. v \in 0 .. LeafWords - 1
    BY <1>7, <1>13
  <2>2. u \in 0 .. LeafWords /\ v < u
    BY <1>7, <2>1, GroupEnds
  <2>3. ASSUME NEW x \in Occupied, v * Word <= x PROVE u * Word <= x
    <3>1. u <= Leaf(x)
      BY <1>9, <1>10, <1>13, <2>1, <2>3, GroupScan
    <3> HIDE DEF u
    <3> QED BY <1>11, <2>2, <3>1
  <2>4. ASSUME NEW x \in Occupied, u * Word <= x PROVE v * Word <= x
    <3> HIDE DEF u
    <3>1. u \in Nat
      BY <2>2
    <3>2. Leaf(u * Word) = u
      BY <1>8, <3>1, Joined
    <3>3. u <= Leaf(x)
      BY <1>8, <1>9, <2>4, <3>1, <3>2, ByWord
    <3>4. v <= Leaf(x)
      BY <1>7, <1>9, <2>2, <3>1, <3>3
    <3> QED BY <1>7, <1>11, <3>4
  <2>5. it[v] = it[u]
    BY <1>6, <1>7, <1>13
  <2> HIDE DEF u
  <2>6. LowestIn(it[u], u * Word, to)
    BY <1>5, <2>2
  <2>7. LowestIn(it[v], v * Word, to)
    BY <2>3, <2>4, <2>5, <2>6 DEF LowestIn
  <2> QED BY <1>4, <2>7
<1>14. CASE v <= Leaf(to - 1) /\ UpGroup(v) # {}
  <2> DEFINE u == UpWord(v)
             q == UpEntry(v)
  <2>1. v \in 0 .. LeafWords - 1
    BY <1>7, <1>14
  <2>2. /\ u \in 0 .. LeafWords - 1 /\ leaves[u] # {} /\ v <= u /\ u \in Nat
        /\ \A y \in 0 .. LeafWords - 1 : leaves[y] # {} /\ v <= y => u <= y
    BY <1>14, <2>1, GroupScan
  <2>3. {j \in leaves[u] : j >= 0} = leaves[u]
    BY <2>2 DEF IInv, TypeOK, Bits
  <2>4. /\ q \in Occupied /\ Leaf(q) = u /\ u * Word <= q
        /\ \A x \in Occupied : u * Word <= x => q <= x
    <3>1. q = u * Word + FirstBit(leaves[u])
      BY DEF UpEntry
    <3> HIDE DEF u, q
    <3> DEFINE up == {j \in leaves[u] : j >= 0}
               r  == u * Word + FirstBit(up)
    <3>2. up # {} => /\ r \in Occupied /\ Leaf(r) = u /\ u * Word + 0 <= r
                     /\ \A x \in Occupied : u * Word + 0 <= x => r <= x
      BY <1>8, <2>2, WordScan
    <3>3. up = leaves[u] /\ r = q
      BY <2>3, <3>1
    <3> HIDE DEF up, r
    <3> QED BY <1>8, <2>2, <3>2, <3>3
  <2>5. it[v] = Within(q, u <= Leaf(to - 1) /\ q < to)
    BY <1>6, <1>7, <1>14
  <2> HIDE DEF u, q
  <2>6. \A x \in Occupied : v * Word <= x => q <= x
    <3> SUFFICES ASSUME NEW x \in Occupied, v * Word <= x PROVE q <= x
      OBVIOUS
    <3>1. u <= Leaf(x)
      BY <1>9, <1>10, <2>2
    <3> QED BY <1>11, <2>2, <2>4, <3>1
  <2>7. v * Word <= q
    BY <1>7, <1>11, <2>2, <2>4
  <2>8. q < to => u <= Leaf(to - 1)
    BY <1>7, <1>9, <2>4, ByWord
  <2>9. LowestIn(it[v], v * Word, to)
    <3>1. CASE q < to
      BY <2>4, <2>5, <2>6, <2>7, <2>8, <3>1 DEF LowestIn, Within
    <3>2. CASE ~(q < to)
      <4>1. it[v] = None
        BY <2>5, <3>2 DEF Within
      <4>2. \A x \in Occupied : ~(v * Word <= x /\ x < to)
        BY <1>7, <1>9, <2>4, <2>6, <3>2
      <4> QED BY <4>1, <4>2 DEF LowestIn
    <3> QED BY <3>1, <3>2
  <2> QED BY <1>4, <2>9
<1> QED BY <1>7, <1>12, <1>13, <1>14

\* ScanUp finds the lowest occupied position of from .. to - 1.
LEMMA ScanUpFinds ==
  ASSUME IInv, NEW from \in 0 .. Window - 1, NEW to \in 0 .. Window
  PROVE  LowestIn(ScanUp(from, to), from, to)
<1> DEFINE w == Leaf(from)
           first == {j \in leaves[w] : j >= Bit(from)}
           p == w * Word + FirstBit(first)
<1>1. ScanUp(from, to) = IF from >= to THEN None
                         ELSE IF first # {} THEN Within(p, p < to)
                         ELSE UpScan(to)[w + 1]
  BY ScanUpDef
<1>2. from \in Nat /\ to \in Nat /\ w \in 0 .. LeafWords - 1 /\ w \in Nat /\ Bit(from) \in Nat
      /\ Bit(from) < Word /\ from = w * Word + Bit(from)
  <2>1. from \in Nat /\ to \in Nat
    BY Sizes
  <2>2. w \in 0 .. LeafWords - 1
    BY RingWords
  <2>3. w \in Nat /\ Bit(from) \in Bits /\ from = Word * w + Bit(from)
    BY <2>1, Split
  <2> HIDE DEF w
  <2>4. w * Word = Word * w
    BY <2>3, BitmapAssumption
  <2> QED BY <2>1, <2>2, <2>3, <2>4, BitmapAssumption DEF Bits
<1>3. \A x \in Occupied : x \in Nat /\ Leaf(x) \in Nat
  BY InWord
<1>4. /\ first # {} => /\ p \in Occupied /\ Leaf(p) = w /\ w * Word + Bit(from) <= p
                       /\ \A x \in Occupied : w * Word + Bit(from) <= x => p <= x
      /\ first = {} => \A x \in Occupied : Leaf(x) = w => x < w * Word + Bit(from)
  BY <1>2, WordScan
<1>5. /\ first # {} => p \in Occupied /\ from <= p /\ \A x \in Occupied : from <= x => p <= x
      /\ first = {} => \A x \in Occupied : Leaf(x) = w => x < from
  <2> HIDE DEF p, first, w
  <2> QED BY <1>2, <1>4
<1>6. CASE from >= to
  <2>1. \A x \in Occupied : ~(from <= x /\ x < to)
    BY <1>2, <1>3, <1>6
  <2> QED BY <1>1, <1>6, <2>1 DEF LowestIn
<1>7. CASE from < to /\ first # {}
  <2>1. p \in Occupied /\ from <= p /\ \A x \in Occupied : from <= x => p <= x
    BY <1>7, <1>5
  <2>2. ScanUp(from, to) = Within(p, p < to)
    BY <1>1, <1>2, <1>7
  <2> HIDE DEF p, first
  <2>3. CASE p < to
    BY <2>1, <2>2, <2>3 DEF LowestIn, Within
  <2>4. CASE ~(p < to)
    <3>1. \A x \in Occupied : ~(from <= x /\ x < to)
      BY <1>2, <1>3, <2>1, <2>4
    <3> QED BY <2>2, <2>4, <3>1 DEF LowestIn, Within
  <2> QED BY <2>3, <2>4
<1>8. CASE from < to /\ first = {}
  <2>1. \A x \in Occupied : Leaf(x) = w => x < from
    BY <1>8, <1>5
  <2>2. ScanUp(from, to) = UpScan(to)[w + 1]
    BY <1>1, <1>2, <1>8
  <2>3. w + 1 \in 0 .. LeafWords /\ w + 1 \in Nat /\ to \in 1 .. Window
    BY <1>2, <1>8, BitmapAssumption, Sizes
  <2>4. LowestIn(UpScan(to)[w + 1], (w + 1) * Word, to)
    BY <2>3, UpScanFinds
  <2>5. (w + 1) * Word \in Nat /\ Leaf((w + 1) * Word) = w + 1 /\ Bit((w + 1) * Word) = 0
    <3>1. 0 \in Bits /\ (w + 1) * Word + 0 = (w + 1) * Word
      BY <2>3, BitmapAssumption DEF Bits
    <3> QED BY <2>3, <3>1, Joined
  <2>6. ASSUME NEW x \in Occupied PROVE from <= x <=> (w + 1) * Word <= x
    <3>1. CASE Leaf(x) < w
      BY <1>2, <1>3, <2>5, <3>1, ByWord
    <3>2. CASE Leaf(x) = w
      BY <1>2, <1>3, <2>1, <2>5, <3>2, ByWord
    <3>3. CASE w < Leaf(x)
      <4>1. from < x
        BY <1>2, <1>3, <3>3, ByWord
      <4>2. w + 1 <= Leaf(x)
        BY <1>2, <1>3, <3>3
      <4>3. CASE w + 1 < Leaf(x)
        BY <1>2, <1>3, <2>5, <4>1, <4>3, ByWord
      <4>4. CASE w + 1 = Leaf(x)
        <5>1. Bit(x) >= 0
          BY InWord DEF Bits
        <5> QED BY <1>2, <1>3, <2>5, <4>1, <4>4, <5>1, ByWord
      <4> QED BY <1>2, <1>3, <4>2, <4>3, <4>4
    <3> QED BY <1>2, <1>3, <3>1, <3>2, <3>3
  <2> HIDE DEF w, first
  <2>7. from <= (w + 1) * Word
    BY <1>2, BitmapAssumption
  <2>8. ScanUp(from, to) \in Occupied => ScanUp(from, to) \in Nat
    BY <1>3
  <2> QED BY <1>2, <2>2, <2>4, <2>6 DEF LowestIn
<1> QED BY <1>2, <1>6, <1>7, <1>8

\* The recursion of ScanDown finds the highest position up to the end of word w.
LEMMA DownScanFinds ==
  ASSUME IInv, NEW downTo \in 0 .. Window - 1, NEW w \in 0 .. LeafWords - 1
  PROVE  HighestIn(DownScan(downTo)[w], downTo, w * Word + (Word - 1))
<1> DEFINE it == DownScan(downTo)
           End(v) == v * Word + (Word - 1)
           Bad == {v \in 0 .. LeafWords - 1 : ~HighestIn(it[v], downTo, End(v))}
<1>1. it = DownBody(downTo, it)
  BY DownScanSolves
<1> HIDE DEF it
<1>2. SUFFICES ASSUME Bad # {} PROVE FALSE
  <2>1. w \notin Bad
    <3> HIDE DEF Bad
    <3> QED BY <1>2
  <2> QED BY <2>1 DEF it
<1>3. PICK v \in Bad : \A u \in Bad : v <= u
  <2>1. Bad \subseteq Nat
    BY BitmapAssumption
  <2> HIDE DEF Bad
  <2> QED BY <1>2, <2>1, LeastOf
<1>4. v \in 0 .. LeafWords - 1 /\ ~HighestIn(it[v], downTo, End(v))
  OBVIOUS
<1>5. ASSUME NEW u \in 0 .. LeafWords - 1, u < v PROVE HighestIn(it[u], downTo, End(u))
  <2>1. u \notin Bad
    <3>1. ~(v <= u)
      BY <1>4, <1>5, BitmapAssumption
    <3> HIDE DEF Bad
    <3> QED BY <1>3, <3>1
  <2> QED BY <2>1
<1> HIDE DEF Bad
<1>6. /\ downTo \in Nat /\ Leaf(downTo) \in 0 .. LeafWords - 1 /\ Leaf(downTo) \in Nat
      /\ v \in Nat /\ v \in 0 .. LeafWords /\ Leaf(v) \in Nat /\ LeafWords \in Nat
  <2>1. downTo \in Nat /\ v \in Nat /\ LeafWords \in Nat
    BY <1>4, Sizes, BitmapAssumption
  <2> QED BY <1>4, <2>1, RingWords, Split
<1>7. it[v] = IF DownGroup(v) = {}
              THEN IF Leaf(v) = 0 \/ Leaf(v) * Word - 1 < Leaf(downTo) THEN None
                   ELSE it[Leaf(v) * Word - 1]
              ELSE Within(DownEntry(v), DownWord(v) >= Leaf(downTo) /\ DownEntry(v) >= downTo)
  BY <1>1, <1>6 DEF DownBody
<1>8. Word - 1 \in Bits /\ Word - 1 \in Nat /\ Word - 1 < Word
  BY BitmapAssumption DEF Bits
<1>9. \A x \in Occupied : /\ x \in Nat /\ Leaf(x) \in 0 .. LeafWords - 1 /\ Leaf(x) \in Nat
                          /\ leaves[Leaf(x)] # {} /\ Bit(x) \in Nat /\ Bit(x) <= Word - 1
  <2> TAKE x \in Occupied
  <2>1. /\ x \in Nat /\ Leaf(x) \in 0 .. LeafWords - 1 /\ leaves[Leaf(x)] # {} /\ Bit(x) \in Bits
    BY InWord
  <2> QED BY <2>1, BitmapAssumption DEF Bits
<1>10. \A u \in Nat : End(u) \in Nat /\ Leaf(End(u)) = u /\ Bit(End(u)) = Word - 1
  BY <1>8, Joined
<1> HIDE DEF End
\* A position is up to the end of word u when its word is up to u.
<1>11. \A u \in Nat, x \in Occupied : x <= End(u) <=> Leaf(x) <= u
  <2> TAKE u \in Nat, x \in Occupied
  <2>1. CASE Leaf(x) < u
    <3>1. x < End(u)
      BY <1>9, <1>10, <2>1, ByWord
    <3> QED BY <1>9, <1>10, <2>1, <3>1
  <2>2. CASE Leaf(x) = u
    <3>1. x <= End(u)
      BY <1>9, <1>10, <2>2, ByWord
    <3> QED BY <1>9, <2>2, <3>1
  <2>3. CASE u < Leaf(x)
    <3>1. End(u) < x
      BY <1>9, <1>10, <2>3, ByWord
    <3> QED BY <1>9, <1>10, <2>3, <3>1
  <2> QED BY <1>9, <2>1, <2>2, <2>3
<1>12. CASE DownGroup(v) = {}
  <2> DEFINE u == Leaf(v) * Word - 1
  <2>1. \A x \in Occupied : Leaf(x) <= v => Leaf(x) <= u
    BY <1>4, <1>9, <1>12, GroupScan
  <2>2. CASE Leaf(v) = 0 \/ u < Leaf(downTo)
    <3>1. \A x \in Occupied : ~(downTo <= x /\ x <= End(v))
      <4> SUFFICES ASSUME NEW x \in Occupied, downTo <= x, x <= End(v) PROVE FALSE
        OBVIOUS
      <4>1. Leaf(x) <= u
        BY <1>6, <1>11, <2>1
      <4>2. Leaf(downTo) <= Leaf(x)
        BY <1>6, <1>9, ByWord
      <4>3. Leaf(v) = 0 => u < 0
        BY BitmapAssumption
      <4>4. u \in Int
        BY <1>6, BitmapAssumption
      <4> HIDE DEF u
      <4> QED BY <1>6, <1>9, <2>2, <4>1, <4>2, <4>3, <4>4
    <3>2. it[v] = None
      BY <1>7, <1>12, <2>2
    <3> QED BY <1>4, <3>1, <3>2 DEF HighestIn
  <2>3. CASE ~(Leaf(v) = 0 \/ u < Leaf(downTo))
    <3>1. u \in 0 .. LeafWords /\ u < v
      BY <1>6, <2>3, GroupEnds
    <3>2. it[v] = it[u]
      BY <1>7, <1>12, <2>3
    <3> HIDE DEF u
    <3>3. u \in 0 .. LeafWords - 1 /\ u \in Nat
      BY <1>4, <3>1, BitmapAssumption
    <3>4. HighestIn(it[u], downTo, End(u))
      BY <1>5, <3>1, <3>3
    <3>5. \A x \in Occupied : x <= End(u) <=> x <= End(v)
      <4> TAKE x \in Occupied
      <4>1. (x <= End(u) <=> Leaf(x) <= u) /\ (x <= End(v) <=> Leaf(x) <= v)
        BY <1>6, <1>11, <3>3
      <4>2. Leaf(x) <= u <=> Leaf(x) <= v
        BY <1>6, <1>9, <2>1, <3>1, <3>3
      <4> QED BY <4>1, <4>2
    <3>6. HighestIn(it[v], downTo, End(v))
      BY <3>2, <3>4, <3>5 DEF HighestIn
    <3> QED BY <1>4, <3>6
  <2> QED BY <2>2, <2>3
<1>13. CASE DownGroup(v) # {}
  <2> DEFINE u == DownWord(v)
             q == DownEntry(v)
  <2>1. /\ u \in 0 .. LeafWords - 1 /\ leaves[u] # {} /\ u <= v /\ u \in Nat
        /\ \A y \in 0 .. LeafWords - 1 : leaves[y] # {} /\ y <= v => y <= u
    BY <1>4, <1>13, GroupScan
  <2>2. {j \in leaves[u] : j <= Word - 1} = leaves[u]
    BY <2>1, BitmapAssumption DEF IInv, TypeOK, Bits
  <2>3. /\ q \in Occupied /\ Leaf(q) = u /\ q <= End(u)
        /\ \A x \in Occupied : x <= End(u) => x <= q
    <3>1. q = u * Word + LastBit(leaves[u])
      BY DEF DownEntry
    <3> HIDE DEF u, q
    <3> DEFINE down == {j \in leaves[u] : j <= Word - 1}
               r    == u * Word + LastBit(down)
    <3>2. down # {} => /\ r \in Occupied /\ Leaf(r) = u /\ r <= u * Word + (Word - 1)
                       /\ \A x \in Occupied : x <= u * Word + (Word - 1) => x <= r
      BY <1>8, <2>1, WordScan
    <3>3. down = leaves[u] /\ r = q
      BY <2>2, <3>1
    <3> HIDE DEF down, r
    <3> QED BY <2>1, <3>2, <3>3 DEF End
  <2>4. it[v] = Within(q, u >= Leaf(downTo) /\ q >= downTo)
    BY <1>7, <1>13
  <2> HIDE DEF u, q
  <2>5. \A x \in Occupied : x <= End(v) => x <= q
    <3> TAKE x \in Occupied
    <3>1. (x <= End(u) <=> Leaf(x) <= u) /\ (x <= End(v) <=> Leaf(x) <= v)
      BY <1>6, <1>11, <2>1
    <3>2. Leaf(x) <= v => Leaf(x) <= u
      BY <1>9, <2>1
    <3> QED BY <2>3, <3>1, <3>2
  <2>6. q <= End(v)
    BY <1>6, <1>11, <2>1, <2>3
  <2>7. q >= downTo => u >= Leaf(downTo)
    BY <1>6, <1>9, <2>1, <2>3, ByWord
  <2>8. HighestIn(it[v], downTo, End(v))
    <3>1. CASE q >= downTo
      BY <1>6, <1>9, <2>3, <2>4, <2>5, <2>6, <2>7, <3>1 DEF HighestIn, Within
    <3>2. CASE ~(q >= downTo)
      <4>1. it[v] = None
        BY <2>4, <3>2 DEF Within
      <4>2. \A x \in Occupied : ~(downTo <= x /\ x <= End(v))
        BY <1>6, <1>9, <2>3, <2>5, <3>2
      <4> QED BY <4>1, <4>2 DEF HighestIn
    <3> QED BY <3>1, <3>2
  <2> QED BY <1>4, <2>8
<1> QED BY <1>12, <1>13

\* ScanDown finds the highest occupied position of downTo .. from.
LEMMA ScanDownFinds ==
  ASSUME IInv, NEW from \in 0 .. Window - 1, NEW downTo \in 0 .. Window - 1
  PROVE  HighestIn(ScanDown(from, downTo), downTo, from)
<1> DEFINE w == Leaf(from)
           first == {j \in leaves[w] : j <= Bit(from)}
           p == w * Word + LastBit(first)
<1>1. ScanDown(from, downTo) = IF first # {} THEN Within(p, p >= downTo)
                               ELSE IF w = 0 THEN None
                               ELSE DownScan(downTo)[w - 1]
  BY ScanDownDef
<1>2. from \in Nat /\ downTo \in Nat /\ w \in 0 .. LeafWords - 1 /\ w \in Nat /\ Bit(from) \in Nat
      /\ Bit(from) < Word /\ from = w * Word + Bit(from)
  <2>1. from \in Nat /\ downTo \in Nat
    BY Sizes
  <2>2. w \in 0 .. LeafWords - 1
    BY RingWords
  <2>3. w \in Nat /\ Bit(from) \in Bits /\ from = Word * w + Bit(from)
    BY <2>1, Split
  <2> HIDE DEF w
  <2>4. w * Word = Word * w
    BY <2>3, BitmapAssumption
  <2> QED BY <2>1, <2>2, <2>3, <2>4, BitmapAssumption DEF Bits
<1>3. \A x \in Occupied : x \in Nat /\ Leaf(x) \in Nat /\ Bit(x) \in Nat /\ Bit(x) <= Word - 1
  <2> TAKE x \in Occupied
  <2>1. x \in Nat /\ Leaf(x) \in 0 .. LeafWords - 1 /\ Bit(x) \in Bits
    BY InWord
  <2> QED BY <2>1, BitmapAssumption DEF Bits
<1>4. /\ first # {} => /\ p \in Occupied /\ Leaf(p) = w /\ p <= w * Word + Bit(from)
                       /\ \A x \in Occupied : x <= w * Word + Bit(from) => x <= p
      /\ first = {} => \A x \in Occupied : Leaf(x) = w => w * Word + Bit(from) < x
  BY <1>2, WordScan
<1>5. /\ first # {} => p \in Occupied /\ p <= from /\ \A x \in Occupied : x <= from => x <= p
      /\ first = {} => \A x \in Occupied : Leaf(x) = w => from < x
  <2> HIDE DEF p, first, w
  <2> QED BY <1>2, <1>4
<1>6. CASE first # {}
  <2>1. ScanDown(from, downTo) = Within(p, p >= downTo)
    BY <1>1, <1>6
  <2> HIDE DEF p, first
  <2>2. CASE p >= downTo
    BY <1>2, <1>3, <1>5, <1>6, <2>1, <2>2 DEF HighestIn, Within
  <2>3. CASE ~(p >= downTo)
    <3>1. \A x \in Occupied : ~(downTo <= x /\ x <= from)
      BY <1>2, <1>3, <1>5, <1>6, <2>3
    <3> QED BY <2>1, <2>3, <3>1 DEF HighestIn, Within
  <2> QED BY <2>2, <2>3
<1>7. CASE first = {} /\ w = 0
  <2>1. ASSUME NEW x \in Occupied PROVE ~(x <= from)
    <3>1. CASE Leaf(x) = 0
      BY <1>2, <1>3, <1>5, <1>7, <3>1
    <3>2. CASE Leaf(x) # 0
      <4>1. w < Leaf(x)
        BY <1>3, <1>7, <3>2
      <4> QED BY <1>2, <1>3, <4>1, ByWord
    <3> QED BY <3>1, <3>2
  <2>2. ScanDown(from, downTo) = None
    BY <1>1, <1>7
  <2> QED BY <2>1, <2>2 DEF HighestIn
<1>8. CASE first = {} /\ w # 0
  <2> DEFINE u == w - 1
             end == u * Word + (Word - 1)
  <2>1. ScanDown(from, downTo) = DownScan(downTo)[u]
    BY <1>1, <1>8
  <2>2. u \in 0 .. LeafWords - 1 /\ u \in Nat
    BY <1>2, <1>8, BitmapAssumption
  <2>3. HighestIn(DownScan(downTo)[u], downTo, end)
    BY <2>2, DownScanFinds
  <2>4. end \in Nat /\ Leaf(end) = u /\ Bit(end) = Word - 1
    <3>1. Word - 1 \in Bits
      BY BitmapAssumption DEF Bits
    <3> HIDE DEF u
    <3> QED BY <2>2, <3>1, Joined
  <2> HIDE DEF end
  <2>5. ASSUME NEW x \in Occupied PROVE x <= from <=> x <= end
    <3>1. CASE Leaf(x) < u
      BY <1>2, <1>3, <2>2, <2>4, <3>1, ByWord
    <3>2. CASE Leaf(x) = u
      BY <1>2, <1>3, <2>2, <2>4, <3>2, ByWord
    <3>3. CASE Leaf(x) = w
      BY <1>2, <1>3, <1>5, <1>8, <2>2, <2>4, <3>3, ByWord
    <3>4. CASE w < Leaf(x)
      BY <1>2, <1>3, <2>2, <2>4, <3>4, ByWord
    <3> QED BY <1>2, <1>3, <2>2, <3>1, <3>2, <3>3, <3>4
  <2> HIDE DEF w, first, u
  <2> QED BY <2>1, <2>3, <2>5 DEF HighestIn
<1> QED BY <1>6, <1>7, <1>8

-----------------------------------------------------------------------------
(* Scans in tick order, wherever the window wraps                          *)

\* The least tick of a set is its best for a scan up, the greatest for one down.
LEMMA BestLow ==
  ASSUME NEW T, T \subseteq Int, NEW e,
         (e = None /\ T = {}) \/ (e \in T /\ \A u \in T : e <= u)
  PROVE  e = Best(T, LAMBDA t, u : t <= u)
<1>1. CASE T = {}
  BY <1>1 DEF Best
<1>2. CASE T # {}
  <2>1. e \in T /\ \A u \in T : e <= u
    BY <1>2
  <2>2. ASSUME NEW f \in T, \A u \in T : f <= u PROVE f = e
    <3>1. f <= e /\ e <= f /\ e \in Int /\ f \in Int
      BY <2>1, <2>2
    <3> QED BY <3>1
  <2>3. Best(T, LAMBDA t, u : t <= u) = CHOOSE t \in T : \A u \in T : t <= u
    BY <1>2 DEF Best
  <2> QED BY <2>1, <2>2, <2>3
<1> QED BY <1>1, <1>2

LEMMA BestHigh ==
  ASSUME NEW T, T \subseteq Int, NEW e,
         (e = None /\ T = {}) \/ (e \in T /\ \A u \in T : u <= e)
  PROVE  e = Best(T, LAMBDA t, u : u <= t)
<1>1. CASE T = {}
  BY <1>1 DEF Best
<1>2. CASE T # {}
  <2>1. e \in T /\ \A u \in T : u <= e
    BY <1>2
  <2>2. ASSUME NEW f \in T, \A u \in T : u <= f PROVE f = e
    <3>1. f <= e /\ e <= f /\ e \in Int /\ f \in Int
      BY <2>1, <2>2
    <3> QED BY <3>1
  <2>3. Best(T, LAMBDA t, u : u <= t) = CHOOSE t \in T : \A u \in T : u <= t
    BY <1>2 DEF Best
  <2> QED BY <2>1, <2>2, <2>3
<1> QED BY <1>1, <1>2

\* Turns of the ring are a whole ring apart.
LEMMA TurnsApart ==
  ASSUME NEW v \in Int, NEW w \in Int, v < w
  PROVE  Window * v + Window <= Window * w
<1>1. w - v - 1 >= 0 /\ Window \in Nat
  BY Sizes
<1> HIDE DEF Window
<1>2. Window * (w - v - 1) >= 0
  BY <1>1
<1>3. Window * (w - v - 1) = Window * w - Window * v - Window
  BY <1>1
<1> QED BY <1>1, <1>2, <1>3

\* A tick is so many turns of the ring and a position, in one way.
LEMMA Turn ==
  ASSUME NEW n \in Nat
  PROVE  /\ n \div Window \in Nat /\ n % Window \in 0 .. Window - 1
         /\ n = Window * (n \div Window) + (n % Window)
<1>1. Window \in Nat \ {0}
  BY Sizes
<1> HIDE DEF Window
<1>2. n % Window \in 0 .. Window - 1
  BY <1>1
<1>3. n \div Window \in Nat
  BY <1>1
<1>4. n = Window * (n \div Window) + (n % Window)
  BY <1>1
<1> QED BY <1>2, <1>3, <1>4

LEMMA TurnUnique ==
  ASSUME NEW n \in Nat, NEW q \in Int, NEW r \in 0 .. Window - 1, n = Window * q + r
  PROVE  n % Window = r
<1> DEFINE k == n \div Window
           m == n % Window
<1>1. k \in Nat /\ m \in 0 .. Window - 1 /\ n = Window * k + m
  BY Turn, Zenon
<1>2. Window \in Nat \ {0}
  BY Sizes
<1> HIDE DEF k, m
<1>3. ~(k < q)
  BY <1>1, <1>2, TurnsApart
<1>4. ~(q < k)
  BY <1>1, <1>2, TurnsApart
<1>5. k = q
  BY <1>1, <1>3, <1>4
<1>6. n = Window * q + m
  BY <1>1, <1>5
<1>7. m = r
  BY <1>1, <1>2, <1>6
<1> QED BY <1>7 DEF m

\* The ring position d ticks above a tick, and d ticks below.
LEMMA Ahead ==
  ASSUME NEW from \in Nat, NEW d \in 0 .. Window - 1
  PROVE  LET start == from % Window
         IN (from + d) % Window = IF start + d < Window THEN start + d ELSE start + d - Window
<1> DEFINE start == from % Window
           q == from \div Window
<1>1. q \in Nat /\ start \in 0 .. Window - 1 /\ from = Window * q + start
  BY Turn, Zenon
<1>2. Window \in Nat \ {0} /\ Window * (q + 1) = Window * q + Window
  <2>1. Window \in Nat \ {0}
    BY Sizes
  <2> HIDE DEF q, Window
  <2> QED BY <1>1, <2>1
<1>3. Window * q \in Int
  BY <1>1, <1>2
<1> HIDE DEF start, q
<1>4. CASE start + d < Window
  <2>1. start + d \in 0 .. Window - 1 /\ from + d = Window * q + (start + d) /\ from + d \in Nat
    BY <1>1, <1>2, <1>3, <1>4
  <2>2. (from + d) % Window = start + d
    BY <1>1, <2>1, TurnUnique
  <2> QED BY <1>4, <2>2 DEF start
<1>5. CASE ~(start + d < Window)
  <2>1. start + d - Window \in 0 .. Window - 1 /\ from + d \in Nat
        /\ from + d = Window * (q + 1) + (start + d - Window) /\ q + 1 \in Int
    BY <1>1, <1>2, <1>3, <1>5
  <2>2. (from + d) % Window = start + d - Window
    BY <2>1, TurnUnique
  <2> QED BY <1>5, <2>2 DEF start
<1> QED BY <1>4, <1>5

LEMMA Behind ==
  ASSUME NEW from \in Nat, NEW d \in 0 .. Window - 1, d <= from
  PROVE  LET start == from % Window
         IN (from - d) % Window = IF d <= start THEN start - d ELSE start - d + Window
<1> DEFINE start == from % Window
           q == from \div Window
<1>1. q \in Nat /\ start \in 0 .. Window - 1 /\ from = Window * q + start
  BY Turn, Zenon
<1>2. Window \in Nat \ {0} /\ Window * (q - 1) = Window * q - Window
  <2>1. Window \in Nat \ {0}
    BY Sizes
  <2> HIDE DEF q, Window
  <2> QED BY <1>1, <2>1
<1>3. Window * q \in Int
  BY <1>1, <1>2
<1> HIDE DEF start, q
<1>4. CASE d <= start
  <2>1. start - d \in 0 .. Window - 1 /\ from - d = Window * q + (start - d) /\ from - d \in Nat
    BY <1>1, <1>2, <1>3, <1>4
  <2>2. (from - d) % Window = start - d
    BY <1>1, <2>1, TurnUnique
  <2> QED BY <1>4, <2>2 DEF start
<1>5. CASE ~(d <= start)
  <2>1. start - d + Window \in 0 .. Window - 1 /\ from - d \in Nat
        /\ from - d = Window * (q - 1) + (start - d + Window) /\ q - 1 \in Int
    BY <1>1, <1>2, <1>3, <1>5
  <2>2. (from - d) % Window = start - d + Window
    BY <2>1, TurnUnique
  <2> QED BY <1>5, <2>2 DEF start
<1> QED BY <1>4, <1>5

\* next_at_or_after finds the lowest occupied tick, prev_at_or_before the highest.
LEMMA NextFinds ==
  ASSUME IInv, NEW a \in Nat, NEW from \in a .. a + Window - 1
  PROVE  NextAtOrAfter(a, from)
           = Best(OccupiedTicks(from, a + Window - 1), LAMBDA t, u : t <= u)
<1> DEFINE start     == from % Window
           count     == Window - (from - a)
           segEnd    == Least(Window, start + count)
           remaining == count - (segEnd - start)
           p         == ScanUp(start, segEnd)
           wrapped   == ScanUp(0, remaining)
           last      == a + Window - 1
           T         == OccupiedTicks(from, last)
           e         == NextAtOrAfter(a, from)
<1>1. Window \in Nat \ {0} /\ from \in Nat
  BY Sizes
<1>2. start \in 0 .. Window - 1
  BY <1>1, Turn
<1>3. e = IF p # None THEN from + (p - start)
          ELSE IF remaining > 0 /\ wrapped # None THEN from + (segEnd - start) + wrapped
          ELSE None
  BY Zenon DEF NextAtOrAfter
<1>4. T = {t \in from .. last : t % Window \in Occupied}
  BY DEF OccupiedTicks
<1> HIDE DEF start, e, T
<1>5. /\ count \in 1 .. Window /\ last = from + count - 1
      /\ segEnd \in 0 .. Window /\ start < segEnd
      /\ remaining \in 0 .. Window - 1
      /\ \/ segEnd = Window /\ remaining = start + count - Window
         \/ segEnd = start + count /\ remaining = 0
  <2>1. count \in 1 .. Window /\ last = from + count - 1
    BY <1>1
  <2> HIDE DEF count
  <2>2. segEnd = IF Window <= start + count THEN Window ELSE start + count
    BY Zenon DEF Least
  <2>3. remaining = count - (segEnd - start)
    OBVIOUS
  <2> HIDE DEF segEnd, last, remaining
  <2>4. CASE Window <= start + count
    BY <1>1, <1>2, <2>1, <2>2, <2>3, <2>4
  <2>5. CASE ~(Window <= start + count)
    BY <1>1, <1>2, <2>1, <2>2, <2>3, <2>5
  <2> QED BY <2>4, <2>5
<1> HIDE DEF count, segEnd, remaining, last
<1>6. LowestIn(p, start, segEnd) /\ LowestIn(wrapped, 0, remaining)
  <2>1. 0 \in 0 .. Window - 1 /\ remaining \in 0 .. Window
    BY <1>1, <1>5
  <2> QED BY <1>2, <1>5, <2>1, ScanUpFinds
<1> HIDE DEF p, wrapped
<1>7. \A x \in Occupied : x \in 0 .. Window - 1 /\ x # None
  BY DEF Occupied, None
\* The tick d above `from` is at position start + d, or that much past the end.
<1>8. \A d \in 0 .. Window - 1 :
        (from + d) % Window = IF start + d < Window THEN start + d ELSE start + d - Window
  BY <1>1, Ahead DEF start
<1>9. ASSUME NEW t \in T
      PROVE  /\ t - from \in 0 .. count - 1 /\ t \in Nat
             /\ t % Window \in Occupied
             /\ t % Window = IF start + (t - from) < Window THEN start + (t - from)
                             ELSE start + (t - from) - Window
  <2>1. t \in from .. last /\ t % Window \in Occupied
    BY <1>4
  <2>2. t - from \in 0 .. count - 1 /\ t - from \in 0 .. Window - 1 /\ t \in Nat /\ from + (t - from) = t
    BY <1>1, <1>5, <2>1
  <2> QED BY <1>8, <2>1, <2>2
<1>10. CASE p # None
  <2>1. /\ p \in Occupied /\ p \in 0 .. Window - 1 /\ start <= p /\ p < segEnd
        /\ \A x \in Occupied : start <= x => p <= x
    BY <1>6, <1>7, <1>10 DEF LowestIn
  <2>2. e = from + (p - start)
    BY <1>3, <1>10
  <2>3. p - start \in 0 .. Window - 1 /\ start + (p - start) = p /\ p < Window /\ e \in from .. last
    BY <1>1, <1>2, <1>5, <2>1, <2>2
  <2>4. e % Window = p
    BY <1>8, <2>2, <2>3
  <2>5. e \in T
    BY <1>4, <2>1, <2>3, <2>4
  <2>6. ASSUME NEW t \in T PROVE e <= t
    <3>1. CASE start + (t - from) < Window
      <4>1. t % Window = start + (t - from) /\ t % Window \in Occupied /\ t - from >= 0
        BY <1>5, <1>9, <3>1
      <4>2. start <= start + (t - from)
        BY <1>1, <1>2, <1>9, <4>1
      <4>3. p <= start + (t - from)
        BY <2>1, <4>1, <4>2
      <4> QED BY <1>1, <1>2, <1>9, <2>1, <2>2, <4>3
    <3>2. CASE ~(start + (t - from) < Window)
      BY <1>1, <1>2, <1>9, <2>1, <2>2, <3>2
    <3> QED BY <3>1, <3>2
  <2>7. T \subseteq Int
    BY <1>9
  <2> QED BY <2>5, <2>6, <2>7, BestLow DEF e, T, last
<1>11. CASE p = None
  <2>1. \A x \in Occupied : ~(start <= x /\ x < segEnd)
    BY <1>6, <1>7, <1>11 DEF LowestIn
  \* What is left of the window lies past the end of the ring.
  <2>2. ASSUME NEW t \in T
        PROVE  /\ remaining > 0 /\ segEnd = Window
               /\ t % Window = t - from - (segEnd - start) /\ t % Window < remaining
    <3>1. ~(start <= t % Window /\ t % Window < segEnd)
      BY <1>9, <2>1
    <3>2. CASE start + (t - from) < Window
      BY <1>1, <1>2, <1>5, <1>9, <3>1, <3>2
    <3>3. CASE ~(start + (t - from) < Window)
      BY <1>1, <1>2, <1>5, <1>9, <3>1, <3>3
    <3> QED BY <3>2, <3>3
  <2>3. T \subseteq Int
    BY <1>9
  <2>4. CASE remaining > 0 /\ wrapped # None
    <3>1. /\ wrapped \in Occupied /\ wrapped \in 0 .. Window - 1 /\ wrapped < remaining
          /\ \A x \in Occupied : wrapped <= x
      BY <1>6, <1>7, <2>4 DEF LowestIn
    <3>2. e = from + (segEnd - start) + wrapped
      BY <1>3, <1>11, <2>4
    <3>3. segEnd = Window /\ remaining = start + count - Window
      BY <1>5, <2>4
    <3> DEFINE d == Window - start + wrapped
    <3>4. /\ d \in 0 .. Window - 1 /\ e = from + d /\ ~(start + d < Window)
          /\ start + d - Window = wrapped /\ e \in from .. last
      BY <1>1, <1>2, <1>5, <3>1, <3>2, <3>3
    <3> HIDE DEF d
    <3>5. e % Window = wrapped
      BY <1>8, <3>4
    <3>6. e \in T
      BY <1>4, <3>1, <3>4, <3>5
    <3>7. ASSUME NEW t \in T PROVE e <= t
      <4>1. wrapped <= t % Window
        BY <1>9, <3>1
      <4>2. t % Window = t - from - (segEnd - start)
        BY <2>2
      <4> QED BY <1>1, <1>2, <1>9, <3>1, <3>2, <3>3, <4>1, <4>2
    <3> QED BY <2>3, <3>6, <3>7, BestLow DEF e, T, last
  <2>5. CASE ~(remaining > 0 /\ wrapped # None)
    <3>1. e = None
      BY <1>3, <1>11, <2>5
    <3>2. T = {}
      <4> SUFFICES ASSUME NEW t \in T PROVE FALSE
        OBVIOUS
      <4>1. wrapped = None
        BY <2>2, <2>5
      <4>2. \A x \in Occupied : ~(0 <= x /\ x < remaining)
        BY <1>6, <1>7, <4>1 DEF LowestIn
      <4>3. t % Window \in Occupied /\ t % Window < remaining /\ 0 <= t % Window
        BY <1>7, <1>9, <2>2
      <4> QED BY <4>2, <4>3
    <3> QED BY <2>3, <3>1, <3>2, BestLow DEF e, T, last
  <2> QED BY <2>4, <2>5
<1> QED BY <1>10, <1>11

LEMMA PrevFinds ==
  ASSUME IInv, NEW a \in Nat, NEW from \in a .. a + Window - 1
  PROVE  PrevAtOrBefore(a, from) = Best(OccupiedTicks(a, from), LAMBDA t, u : u <= t)
<1> DEFINE start     == from % Window
           count     == from - a + 1
           segStart  == start + 1 - Least(count, start + 1)
           remaining == count - (start + 1 - segStart)
           p         == ScanDown(start, segStart)
           wrapped   == ScanDown(Window - 1, Window - remaining)
           T         == OccupiedTicks(a, from)
           e         == PrevAtOrBefore(a, from)
<1>1. Window \in Nat \ {0} /\ from \in Nat
  BY Sizes
<1>2. start \in 0 .. Window - 1
  BY <1>1, Turn
<1>3. e = IF p # None THEN from - (start - p)
          ELSE IF remaining > 0 /\ wrapped # None
               THEN from - (start + 1) - (Window - 1 - wrapped)
          ELSE None
  BY Zenon DEF PrevAtOrBefore
<1>4. T = {t \in a .. from : t % Window \in Occupied}
  BY DEF OccupiedTicks
<1> HIDE DEF start, e, T
<1>5. /\ count \in 1 .. Window /\ a = from - count + 1
      /\ segStart \in 0 .. Window - 1 /\ segStart <= start
      /\ remaining \in 0 .. Window - 1
      /\ \/ segStart = 0 /\ remaining = count - (start + 1)
         \/ segStart = start + 1 - count /\ remaining = 0
  <2>1. count \in 1 .. Window /\ a = from - count + 1
    BY <1>1
  <2> HIDE DEF count
  <2>2. segStart = IF count <= start + 1 THEN start + 1 - count ELSE start + 1 - (start + 1)
    BY DEF Least
  <2>3. remaining = count - (start + 1 - segStart)
    OBVIOUS
  <2> HIDE DEF segStart, remaining
  <2>4. CASE count <= start + 1
    BY <1>1, <1>2, <2>1, <2>2, <2>3, <2>4
  <2>5. CASE ~(count <= start + 1)
    BY <1>1, <1>2, <2>1, <2>2, <2>3, <2>5
  <2> QED BY <2>4, <2>5
<1> HIDE DEF count, segStart, remaining
<1>6. /\ HighestIn(p, segStart, start)
      /\ remaining > 0 => HighestIn(wrapped, Window - remaining, Window - 1)
  <2>1. Window - 1 \in 0 .. Window - 1
    BY <1>1
  <2>2. remaining > 0 => Window - remaining \in 0 .. Window - 1
    BY <1>1, <1>5
  <2> QED BY <1>2, <1>5, <2>1, <2>2, ScanDownFinds
<1> HIDE DEF p, wrapped
<1>7. \A x \in Occupied : x \in 0 .. Window - 1 /\ x # None
  BY DEF Occupied, None
\* The tick d below `from` is at position start - d, or before the end.
<1>8. \A d \in 0 .. Window - 1 :
        d <= from => (from - d) % Window = IF d <= start THEN start - d ELSE start - d + Window
  BY <1>1, Behind DEF start
<1>9. ASSUME NEW t \in T
      PROVE  /\ from - t \in 0 .. count - 1 /\ t \in Nat
             /\ t % Window \in Occupied
             /\ t % Window = IF from - t <= start THEN start - (from - t)
                             ELSE start - (from - t) + Window
  <2>1. t \in a .. from /\ t % Window \in Occupied
    BY <1>4
  <2>2. /\ from - t \in 0 .. count - 1 /\ from - t \in 0 .. Window - 1 /\ t \in Nat
        /\ from - t <= from /\ from - (from - t) = t
    BY <1>1, <1>5, <2>1
  <2> QED BY <1>8, <2>1, <2>2
<1>10. CASE p # None
  <2>1. /\ p \in Occupied /\ p \in 0 .. Window - 1 /\ segStart <= p /\ p <= start
        /\ \A x \in Occupied : x <= start => x <= p
    BY <1>6, <1>7, <1>10 DEF HighestIn
  <2>2. e = from - (start - p)
    BY <1>3, <1>10
  <2>3. /\ start - p \in 0 .. Window - 1 /\ start - p <= start /\ start - (start - p) = p
        /\ e \in a .. from /\ start - p <= from
    BY <1>1, <1>2, <1>5, <2>1, <2>2
  <2>4. e % Window = p
    BY <1>8, <2>2, <2>3
  <2>5. e \in T
    BY <1>4, <2>1, <2>3, <2>4
  <2>6. ASSUME NEW t \in T PROVE t <= e
    <3>1. CASE from - t <= start
      <4>1. t % Window = start - (from - t) /\ t % Window \in Occupied /\ from - t >= 0
        BY <1>5, <1>9, <3>1
      <4>2. start - (from - t) <= start
        BY <1>1, <1>2, <1>9, <4>1
      <4>3. start - (from - t) <= p
        BY <2>1, <4>1, <4>2
      <4> QED BY <1>1, <1>2, <1>9, <2>1, <2>2, <4>3
    <3>2. CASE ~(from - t <= start)
      BY <1>1, <1>2, <1>9, <2>1, <2>2, <3>2
    <3> QED BY <3>1, <3>2
  <2>7. T \subseteq Int
    BY <1>9
  <2> QED BY <2>5, <2>6, <2>7, BestHigh DEF e, T
<1>11. CASE p = None
  <2>1. \A x \in Occupied : ~(segStart <= x /\ x <= start)
    BY <1>6, <1>7, <1>11 DEF HighestIn
  \* What is left of the window lies before the end of the ring.
  <2>2. ASSUME NEW t \in T
        PROVE  /\ remaining > 0 /\ segStart = 0
               /\ t % Window = start - (from - t) + Window /\ Window - remaining <= t % Window
    <3>1. ~(segStart <= t % Window /\ t % Window <= start)
      BY <1>9, <2>1
    <3>2. CASE from - t <= start
      BY <1>1, <1>2, <1>5, <1>9, <3>1, <3>2
    <3>3. CASE ~(from - t <= start)
      BY <1>1, <1>2, <1>5, <1>9, <3>1, <3>3
    <3> QED BY <3>2, <3>3
  <2>3. T \subseteq Int
    BY <1>9
  <2>4. CASE remaining > 0 /\ wrapped # None
    <3>1. /\ wrapped \in Occupied /\ wrapped \in 0 .. Window - 1 /\ Window - remaining <= wrapped
          /\ \A x \in Occupied : x <= Window - 1 => x <= wrapped
      BY <1>6, <1>7, <2>4 DEF HighestIn
    <3>2. e = from - (start + 1) - (Window - 1 - wrapped)
      BY <1>3, <1>11, <2>4
    <3>3. segStart = 0 /\ remaining = count - (start + 1)
      BY <1>5, <2>4
    <3> DEFINE d == start + Window - wrapped
    <3>4. /\ d \in 0 .. Window - 1 /\ e = from - d /\ ~(d <= start) /\ d <= from
          /\ start - d + Window = wrapped /\ e \in a .. from
      BY <1>1, <1>2, <1>5, <3>1, <3>2, <3>3
    <3> HIDE DEF d
    <3>5. e % Window = wrapped
      BY <1>8, <3>4
    <3>6. e \in T
      BY <1>4, <3>1, <3>4, <3>5
    <3>7. ASSUME NEW t \in T PROVE t <= e
      <4>1. t % Window <= wrapped
        BY <1>1, <1>7, <1>9, <3>1
      <4>2. t % Window = start - (from - t) + Window
        BY <2>2
      <4> QED BY <1>1, <1>2, <1>9, <3>1, <3>2, <3>3, <4>1, <4>2
    <3> QED BY <2>3, <3>6, <3>7, BestHigh DEF e, T
  <2>5. CASE ~(remaining > 0 /\ wrapped # None)
    <3>1. e = None
      BY <1>3, <1>11, <2>5
    <3>2. T = {}
      <4> SUFFICES ASSUME NEW t \in T PROVE FALSE
        OBVIOUS
      <4>1. remaining > 0 /\ wrapped = None
        BY <2>2, <2>5
      <4>2. \A x \in Occupied : ~(Window - remaining <= x /\ x <= Window - 1)
        BY <1>6, <1>7, <4>1 DEF HighestIn
      <4>3. t % Window \in Occupied /\ Window - remaining <= t % Window /\ t % Window <= Window - 1
        BY <1>1, <1>7, <1>9, <2>2
      <4> QED BY <4>2, <4>3
    <3> QED BY <2>3, <3>1, <3>2, BestHigh DEF e, T
  <2> QED BY <2>4, <2>5
<1> QED BY <1>10, <1>11

\* word_empty looks at the leaf word of an aligned base.
LEMMA EmptyWord ==
  ASSUME IInv, NEW k \in 1 .. LeafWords
  PROVE  WordEmpty(Word * k) <=> OccupiedTicks(Word * k, Word * k + Word - 1) = {}
<1> DEFINE a == Word * k
           m == IF k = LeafWords THEN 0 ELSE k
<1>1. /\ k \in Nat /\ m \in 0 .. LeafWords - 1 /\ m \in Nat /\ Word \in Nat \ {0}
      /\ Window \in Nat \ {0} /\ LeafWords \in Nat
  BY BitmapAssumption, Sizes
<1>2. a \in Nat /\ m * Word = Word * m /\ Word * m \in Nat
  <2> HIDE DEF m
  <2> QED BY <1>1
<1>3. Word * m + Word <= Window
  <2>1. Word * m + Word <= Word * LeafWords
    <3> HIDE DEF m
    <3> QED BY <1>1, WordsApart
  <2> QED BY <2>1 DEF Window
<1>4. a % Window = Word * m
  <2>1. Word * m \in 0 .. Window - 1
    <3> HIDE DEF m
    <3> QED BY <1>1, <1>2, <1>3
  <2>2. CASE k = LeafWords
    <3>1. a = Window * 1 + 0
      BY <1>1, <2>2 DEF Window
    <3>2. 0 \in 0 .. Window - 1 /\ Word * m = 0
      BY <1>1, <2>2
    <3> HIDE DEF a
    <3>3. a % Window = 0
      BY <1>2, <3>1, <3>2, TurnUnique
    <3> QED BY <3>2, <3>3
  <2>3. CASE k # LeafWords
    <3>1. a = Window * 0 + Word * m
      BY <1>1, <1>2, <2>3
    <3> HIDE DEF a, m
    <3> QED BY <1>2, <2>1, <3>1, TurnUnique
  <2> QED BY <2>2, <2>3
<1> HIDE DEF a, m
<1>5. ASSUME NEW b \in Bits
      PROVE  (a + b) % Window = m * Word + b /\ (m * Word + b \in Occupied <=> b \in leaves[m])
  <2>1. b \in 0 .. Window - 1 /\ Word * m + b < Window /\ m * Word + b \in 0 .. Window - 1
    BY <1>1, <1>2, <1>3 DEF Bits
  <2>2. (a + b) % Window = m * Word + b
    BY <1>2, <1>4, <2>1, Ahead
  <2>3. Leaf(m * Word + b) = m /\ Bit(m * Word + b) = b
    BY <1>1, Joined
  <2> QED BY <2>1, <2>2, <2>3 DEF Occupied
<1>6. WordEmpty(a) <=> leaves[m] = {}
  <2>1. Leaf(m * Word + 0) = m
    BY <1>1, Joined DEF Bits
  <2>2. m * Word + 0 = Word * m
    BY <1>2
  <2> QED BY <1>4, <2>1, <2>2 DEF WordEmpty
<1>7. leaves[m] \subseteq Bits
  BY <1>1 DEF IInv, TypeOK
<1>8. OccupiedTicks(a, a + Word - 1) = {t \in a .. a + Word - 1 : t % Window \in Occupied}
  BY DEF OccupiedTicks
<1>9. ASSUME NEW b \in leaves[m] PROVE OccupiedTicks(a, a + Word - 1) # {}
  <2>1. b \in Bits /\ (a + b) % Window \in Occupied
    BY <1>5, <1>7
  <2>2. a + b \in a .. a + Word - 1
    BY <1>1, <1>2, <2>1 DEF Bits
  <2> QED BY <1>8, <2>1, <2>2
<1>10. ASSUME NEW t \in OccupiedTicks(a, a + Word - 1) PROVE leaves[m] # {}
  <2>1. t \in a .. a + Word - 1 /\ t % Window \in Occupied
    BY <1>8
  <2>2. t - a \in Bits /\ a + (t - a) = t
    BY <1>1, <1>2, <2>1 DEF Bits
  <2>3. t - a \in leaves[m]
    BY <1>5, <2>1, <2>2
  <2> QED BY <2>3
<1>11. WordEmpty(a) <=> OccupiedTicks(a, a + Word - 1) = {}
  BY <1>6, <1>9, <1>10
<1> QED BY <1>11 DEF a

\* Every scan of a reachable bitmap, from every tick of every aligned window
\* and wherever the window wraps, finds what the set of occupied ticks says.
THEOREM ScansAgree == Spec => []ScansExact
<1>1. IInv => ScansExact
  <2> SUFFICES ASSUME IInv, NEW k \in 1 .. LeafWords
               PROVE  LET a    == Word * k
                          last == a + Window - 1
                      IN /\ \A from \in a .. last :
                              /\ NextAtOrAfter(a, from)
                                   = Best(OccupiedTicks(from, last), LAMBDA t, u : t <= u)
                              /\ PrevAtOrBefore(a, from)
                                   = Best(OccupiedTicks(a, from), LAMBDA t, u : u <= t)
                         /\ WordEmpty(a) <=> OccupiedTicks(a, a + Word - 1) = {}
    BY DEF ScansExact
  <2> DEFINE a == Word * k
             last == a + Window - 1
  <2>1. a \in Nat
    BY BitmapAssumption
  <2>2. WordEmpty(a) <=> OccupiedTicks(a, a + Word - 1) = {}
    BY EmptyWord
  <2> HIDE DEF a
  <2>3. ASSUME NEW from \in a .. last
        PROVE  /\ NextAtOrAfter(a, from)
                    = Best(OccupiedTicks(from, last), LAMBDA t, u : t <= u)
               /\ PrevAtOrBefore(a, from)
                    = Best(OccupiedTicks(a, from), LAMBDA t, u : u <= t)
    BY <2>1, NextFinds, PrevFinds
  <2> QED BY <2>2, <2>3 DEF a
<1>2. Init => IInv
  BY InitIInv
<1>3. IInv /\ [Next]_vars => IInv'
  BY NextIInv
<1> QED BY <1>1, <1>2, <1>3, PTL DEF Spec
=============================================================================
