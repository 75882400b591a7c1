------------------------------- MODULE Bitmap --------------------------------
(***************************************************************************)
(* The two-level occupancy bitmap of one side (state.rs, Bitmap): leaf     *)
(* words of Word bits over the ring of ticks, and summary words in which   *)
(* bit w of group s says that leaf word s * Word + w is not zero.  A word  *)
(* is the set of its one bits.  The scans run over physical positions; the *)
(* window starts anywhere in the ring, so a scan in tick order is two of   *)
(* them.                                                                   *)
(***************************************************************************)
EXTENDS Integers

CONSTANTS
  Word,       \* 64: bits of a word
  LeafWords,  \* BITMAP_LEAF_WORDS
  Ticks       \* ticks the book sets and clears

ASSUME BitmapAssumption ==
  /\ Word \in Nat \ {0} /\ LeafWords \in Nat \ {0} /\ LeafWords % Word = 0
  /\ Ticks \subseteq Nat

VARIABLES
  leaves,   \* the leaf words
  summary   \* the summary words

vars == <<leaves, summary>>

Window       == Word * LeafWords       \* WINDOW_TICKS
SummaryWords == LeafWords \div Word    \* BITMAP_SUMMARY_WORDS
Bits         == 0 .. Word - 1

Leaf(pos) == pos \div Word
Bit(pos)  == pos % Word

Init ==
  /\ leaves = [w \in 0 .. LeafWords - 1 |-> {}]
  /\ summary = [s \in 0 .. SummaryWords - 1 |-> {}]

-----------------------------------------------------------------------------
(* Setting and clearing                                                    *)

\* Faulty: the summary is not touched.
SetLeafOnly(tick) ==
  /\ leaves' = [leaves EXCEPT ![Leaf(tick % Window)] = @ \cup {Bit(tick % Window)}]
  /\ UNCHANGED summary

Set(tick) ==
  LET pos == tick % Window
      w   == Leaf(pos)
  IN /\ leaves' = [leaves EXCEPT ![w] = @ \cup {Bit(pos)}]
     /\ summary' = [summary EXCEPT ![Leaf(w)] = @ \cup {Bit(w)}]

\* Faulty: the whole word is cleared with the bit.
ClearWord(tick) ==
  LET w == Leaf(tick % Window)
  IN /\ leaves' = [leaves EXCEPT ![w] = {}]
     /\ summary' = [summary EXCEPT ![Leaf(w)] = @ \ {Bit(w)}]

\* The summary bit goes with the last bit of its leaf word.
Clear(tick) ==
  LET pos  == tick % Window
      w    == Leaf(pos)
      leaf == leaves[w] \ {Bit(pos)}
  IN /\ leaves' = [leaves EXCEPT ![w] = leaf]
     /\ summary' = IF leaf = {} THEN [summary EXCEPT ![Leaf(w)] = @ \ {Bit(w)}]
                   ELSE summary

Next == \E tick \in Ticks : Set(tick) \/ Clear(tick)

Spec == Init /\ [][Next]_vars

-----------------------------------------------------------------------------
(* Scans                                                                   *)

None == -1

\* trailing_zeros, Word for an empty word; and 63 - leading_zeros, -1 for one.
FirstBit(word) == IF word = {} THEN Word
                  ELSE CHOOSE j \in word : \A k \in word : j <= k
LastBit(word)  == IF word = {} THEN -1
                  ELSE CHOOSE j \in word : \A k \in word : k <= j

Within(p, ok) == IF ok THEN p ELSE None

\* Lowest set position in from .. to - 1.  Past the first word the summary
\* finds the next non-zero leaf, a whole group of words at a time.
ScanUp(from, to) ==
  LET lastWord == Leaf(to - 1)
      first    == {j \in leaves[Leaf(from)] : j >= Bit(from)}
      p        == Leaf(from) * Word + FirstBit(first)
      scan[w \in 0 .. LeafWords] ==
        LET s    == Leaf(w)
            sm   == {j \in summary[s] : j >= Bit(w)}
            cand == s * Word + FirstBit(sm)
            q    == cand * Word + FirstBit(leaves[cand])
        IN IF w > lastWord THEN None
           ELSE IF sm = {} THEN scan[(s + 1) * Word]
           ELSE Within(q, cand <= lastWord /\ q < to)
  IN IF from >= to THEN None
     ELSE IF first # {} THEN Within(p, p < to)
     ELSE scan[Leaf(from) + 1]

\* Faulty: steps back by a group of words to its first word, not its last.
ScanDownSkips(from, downTo) ==
  LET downWord == Leaf(downTo)
      first    == {j \in leaves[Leaf(from)] : j <= Bit(from)}
      p        == Leaf(from) * Word + LastBit(first)
      scan[w \in 0 .. LeafWords] ==
        LET s    == Leaf(w)
            sm   == {j \in summary[s] : j <= Bit(w)}
            cand == s * Word + LastBit(sm)
            q    == cand * Word + LastBit(leaves[cand])
        IN IF sm = {}
           THEN IF s = 0 \/ (s - 1) * Word < downWord THEN None ELSE scan[(s - 1) * Word]
           ELSE Within(q, cand >= downWord /\ q >= downTo)
  IN IF first # {} THEN Within(p, p >= downTo)
     ELSE IF Leaf(from) = 0 THEN None
     ELSE scan[Leaf(from) - 1]

\* Highest set position in downTo .. from.
ScanDown(from, downTo) ==
  LET downWord == Leaf(downTo)
      first    == {j \in leaves[Leaf(from)] : j <= Bit(from)}
      p        == Leaf(from) * Word + LastBit(first)
      scan[w \in 0 .. LeafWords] ==
        LET s    == Leaf(w)
            sm   == {j \in summary[s] : j <= Bit(w)}
            cand == s * Word + LastBit(sm)
            q    == cand * Word + LastBit(leaves[cand])
        IN IF sm = {}
           THEN IF s = 0 \/ s * Word - 1 < downWord THEN None ELSE scan[s * Word - 1]
           ELSE Within(q, cand >= downWord /\ q >= downTo)
  IN IF first # {} THEN Within(p, p >= downTo)
     ELSE IF Leaf(from) = 0 THEN None
     ELSE scan[Leaf(from) - 1]

Least(a, b) == IF a <= b THEN a ELSE b

\* Lowest occupied tick of the window at `anchor` that is not below `from`.
NextAtOrAfter(anchor, from) ==
  LET start     == from % Window
      count     == Window - (from - anchor)
      segEnd    == Least(Window, start + count)
      remaining == count - (segEnd - start)
      p         == ScanUp(start, segEnd)
      wrapped   == ScanUp(0, remaining)
  IN IF p # None THEN from + (p - start)
     ELSE IF remaining > 0 /\ wrapped # None THEN from + (segEnd - start) + wrapped
     ELSE None

\* Highest occupied tick of the window at `anchor` that is not above `from`.
PrevAtOrBefore(anchor, from) ==
  LET start     == from % Window
      count     == from - anchor + 1
      segStart  == start + 1 - Least(count, start + 1)
      remaining == count - (start + 1 - segStart)
      p         == ScanDown(start, segStart)
      wrapped   == ScanDown(Window - 1, Window - remaining)
  IN IF p # None THEN from - (start - p)
     ELSE IF remaining > 0 /\ wrapped # None
          THEN from - (start + 1) - (Window - 1 - wrapped)
     ELSE None

WordEmpty(base) == leaves[Leaf(base % Window)] = {}

-----------------------------------------------------------------------------
(* Correctness                                                             *)

TypeOK ==
  /\ leaves \in [0 .. LeafWords - 1 -> SUBSET Bits]
  /\ summary \in [0 .. SummaryWords - 1 -> SUBSET Bits]

\* Bitmap::set and clear keep the two levels consistent: a summary bit is set
\* exactly when its leaf word is not zero.  A stale one would send a scan into
\* an empty word, or past a word that holds the best price.
SummaryExact ==
  \A w \in 0 .. LeafWords - 1 : Bit(w) \in summary[Leaf(w)] <=> leaves[w] # {}

\* The ring positions the leaves hold.
Occupied == {pos \in 0 .. Window - 1 : Bit(pos) \in leaves[Leaf(pos)]}

\* The bitmap is a set of ring positions, whatever its levels (Bitmap::get,
\* set and clear): this is all OrderBook.tla knows of it.
Positions == INSTANCE Occupancy WITH occupied <- Occupied
IsOccupancy == Positions!Spec

\* Scans in tick order (next_at_or_after, prev_at_or_before, word_empty) agree
\* with the set of occupied ticks for every word-aligned window and every start
\* in it, wherever the window wraps around the ring.
OccupiedTicks(lo, hi) == {t \in lo .. hi : t % Window \in Occupied}
Best(T, better(_, _)) == IF T = {} THEN None ELSE CHOOSE t \in T : \A u \in T : better(t, u)

ScansExact ==
  \A a \in {Word * k : k \in 1 .. LeafWords} :
    LET last == a + Window - 1
    IN /\ \A from \in a .. last :
            /\ NextAtOrAfter(a, from)
                 = Best(OccupiedTicks(from, last), LAMBDA t, u : t <= u)
            /\ PrevAtOrBefore(a, from)
                 = Best(OccupiedTicks(a, from), LAMBDA t, u : u <= t)
       /\ WordEmpty(a) <=> OccupiedTicks(a, a + Word - 1) = {}
=============================================================================
