----------------------------- MODULE MarketParams -----------------------------
(***************************************************************************)
(* The parameter checks of create_market.rs and the arithmetic they are    *)
(* there to protect.  Matching multiplies u64 quantities without checks    *)
(* (the release build has none), so a market may only exist when no price, *)
(* size and fee rate it admits can make a product leave its width.         *)
(***************************************************************************)
EXTENDS Integers

CONSTANTS
  U64Max,         \* u64::MAX
  U32Max,         \* u32::MAX
  Window,         \* WINDOW_TICKS
  Word,           \* 64
  FeeDenominator, \* FEE_DENOMINATOR
  MaxFeeBps,      \* MAX_FEE_BPS
  TickSizes, LotSizes, OrderCaps, Anchors, Rates  \* what an admin asks for

ASSUME ParamsAssumption ==
  /\ U64Max \in Nat /\ U32Max \in Nat
  /\ Word \in Nat \ {0} /\ Window \in Nat /\ Window >= Word /\ Window % Word = 0
  /\ 2 * Window <= U32Max /\ U32Max <= U64Max
  /\ FeeDenominator \in Nat \ {0} /\ MaxFeeBps \in Nat
  /\ TickSizes \subseteq 0 .. U64Max /\ LotSizes \subseteq 0 .. U64Max
  /\ OrderCaps \subseteq 0 .. U32Max /\ Anchors \subseteq 0 .. U32Max
  /\ Rates \subseteq Nat

\* CreateMarketInstructionData, what was asked for.
Params == [tickSize : TickSizes, lotSize : LotSizes, cap : OrderCaps,
           anchor : Anchors, rate : Rates]

Least(a, b) == IF a <= b THEN a ELSE b

\* Faulty: the worst case leaves the fee out.
WorstPerTickFeeless(tickSize, cap) == tickSize * cap * FeeDenominator

\* What the dearest order at tick 1 costs, fee included and scaled.
WorstPerTick(tickSize, cap) == tickSize * cap * (FeeDenominator + MaxFeeBps)

\* Faulty: the limit leaves no room above the window in u32.
TickLimitUncapped(tickSize, cap) == Least(U64Max \div WorstPerTick(tickSize, cap), U32Max)

\* The highest tick at which no order overflows, two windows short of u32::MAX.
TickLimit(tickSize, cap) ==
  Least(U64Max \div WorstPerTick(tickSize, cap), U32Max - 2 * Window)

\* Each product is computed with checked_mul before the next; the rate is
\* looked at last, by set_fee_bps.
ParamsAccepted(p) ==
  /\ p.tickSize # 0 /\ p.lotSize # 0 /\ p.cap # 0
  /\ p.anchor % Word = 0 /\ p.anchor # 0
  /\ p.tickSize * p.anchor <= U64Max
  /\ WorstPerTick(p.tickSize, p.cap) <= U64Max
  /\ p.lotSize * p.cap <= U64Max
  /\ p.anchor + Window - 1 <= U32Max
  /\ p.anchor + Window - 1 <= TickLimit(p.tickSize, p.cap)
  /\ p.rate <= MaxFeeBps
=============================================================================
