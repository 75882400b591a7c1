------------------------------ MODULE Exchange -------------------------------
(***************************************************************************)
(* What the order book promises its users, without pools, links, bitmaps   *)
(* or loops: two lines of orders in the order they will be matched, what   *)
(* every seat is worth, the fees owed and the vaults.  A step is a whole   *)
(* instruction, a relation between the market it finds, m, and the one it  *)
(* leaves, n.  ClobRefinement.tla shows that the program does nothing else.*)
(***************************************************************************)
EXTENDS Integers, Sequences, FiniteSetsExt


CONSTANTS
  SeatIds,        \* the seats of the market
  NoSeat,         \* a taker without a seat
  Owners, Nobody, \* who may own one, and nobody
  WindowTicks,    \* ticks orders may rest at, from the anchor on
  TickSize, BaseLotSize,
  FeeDenominator, MaxFeeBps

VARIABLES
  market,  \* lines by side, worth by seat and asset (free and locked atoms
           \* together), owner by seat, fees, rate, vault by asset, anchor
  slot     \* the clock

vars == <<market, slot>>

Sides  == {"bid", "ask"}
Assets == {"base", "quote"}

Opposite(side)    == IF side = "bid" THEN "ask" ELSE "bid"
Ahead(side, t, u) == IF side = "bid" THEN t > u ELSE t < u
InWindow(o, m)    == o.tick \in m.anchor .. m.anchor + WindowTicks - 1
Dead(o)           == o.expiry # 0 /\ o.expiry <= slot
Total(f(_), S)    == MapThenSumSet(f, S)

\* Everything but the named parts is as it was.
OnlyIn(parts, m, n) == \A part \in DOMAIN m \ parts : n[part] = m[part]

-----------------------------------------------------------------------------
(* What holds between any two instructions                                 *)

\* Price first; one order of a seat per price; none empty, none outside the
\* window, none of an unowned seat.
InLine(m) ==
  \A side \in Sides : \A i \in DOMAIN m.lines[side] :
    LET o == m.lines[side][i]
    IN /\ o.lots > 0 /\ InWindow(o, m) /\ m.owner[o.seat] # Nobody
       /\ \A j \in 1 .. i - 1 :
            LET p == m.lines[side][j]
            IN Ahead(side, p.tick, o.tick) \/ (p.tick = o.tick /\ p.seat # o.seat)

Uncrossed(m) ==
  (\A side \in Sides : m.lines[side] # <<>>)
    => Head(m.lines["bid"]).tick < Head(m.lines["ask"]).tick

\* What its orders would cost a seat, it has.
Covered(m) ==
  \A s \in SeatIds :
    LET Of(side) == {i \in DOMAIN m.lines[side] : m.lines[side][i].seat = s}
        Bid(i)   == m.lines["bid"][i].tick * TickSize * m.lines["bid"][i].lots
        Ask(i)   == BaseLotSize * m.lines["ask"][i].lots
    IN /\ Total(Bid, Of("bid")) <= m.worth[s]["quote"]
       /\ Total(Ask, Of("ask")) <= m.worth[s]["base"]

\* The vaults hold what the seats and the fees are worth, and nothing else.
Backed(m) ==
  \A a \in Assets : m.vault[a] = Total(LAMBDA s : m.worth[s][a], SeatIds)
                                 + IF a = "quote" THEN m.fees ELSE 0

\* An unowned seat is worth nothing.
Vacant(m) ==
  \A s \in SeatIds : m.owner[s] = Nobody => \A a \in Assets : m.worth[s][a] = 0

Sound(m) == InLine(m) /\ Uncrossed(m) /\ Covered(m) /\ Backed(m) /\ Vacant(m)

-----------------------------------------------------------------------------
(* Instructions                                                            *)

Others(line, s) == SelectSeq(line, LAMBDA o : o.seat # s)
At(line, tick)  == SelectSeq(line, LAMBDA o : o.tick = tick)

\* Seat s rearranges its own orders of a side: nobody else's move or change,
\* and each of its own keeps its turn without growing, or is last at its price.
Requeued(old, new, s) ==
  /\ Others(new, s) = Others(old, s)
  /\ \A tick \in {new[i].tick : i \in DOMAIN new} :
       LET was == At(old, tick)
           is  == At(new, tick)
       IN \A i \in {j \in DOMAIN is : is[j].seat = s} :
            \/ i = Len(is)
            \/ i <= Len(was) /\ was[i].seat = s /\ is[i].lots <= was[i].lots

\* Placing, amending and cancelling orders, one or many, moves no money.
Quote(m, n, s) ==
  /\ m.owner[s] # Nobody
  /\ \A side \in Sides : Requeued(m.lines[side], n.lines[side], s)
  /\ OnlyIn({"lines"}, m, n)

\* A line without its first k orders and `part` lots of the next.
Rest(line, k, part) ==
  LET left == SubSeq(line, k + 1, Len(line))
  IN IF part = 0 THEN left ELSE [left EXCEPT ![1].lots = @ - part]

\* Taker t, on `side`, takes the front of the other line: orders in their turn,
\* each whole except the last; the dead and t's own drop out untraded.  Makers
\* are paid their own prices, t pays at most the fee rate on top.  A taker with
\* a seat may rearrange its own orders on its own side; one without a seat
\* settles with the vaults.
Match(m, n, t, side) ==
  LET line    == m.lines[Opposite(side)]
      sign    == IF side = "bid" THEN 1 ELSE -1
      fee     == n.fees - m.fees
      Open(i) == line[i].seat # t /\ ~Dead(line[i])
  IN \E k \in 0 .. Len(line) :
     \E part \in 0 .. IF k < Len(line) /\ Open(k + 1) THEN line[k + 1].lots - 1 ELSE 0 :
       LET Traded(i) == IF i <= k THEN IF Open(i) THEN line[i].lots ELSE 0
                        ELSE IF i = k + 1 THEN part ELSE 0
           Base(S)   == sign * Total(LAMBDA i : BaseLotSize * Traded(i), S)
           Cost(S)   == sign * Total(LAMBDA i : line[i].tick * TickSize * Traded(i), S)
           all       == DOMAIN line
       IN /\ n.lines[Opposite(side)] = Rest(line, k, part)
          /\ fee >= 0 /\ fee * FeeDenominator <= sign * Cost(all) * m.rate
          /\ \A s \in SeatIds \ {t} :
               LET mine == {i \in all : line[i].seat = s}
               IN n.worth[s] = [m.worth[s] EXCEPT !["base"] = @ - Base(mine),
                                                  !["quote"] = @ + Cost(mine)]
          /\ IF t = NoSeat
             THEN /\ n.lines[side] = m.lines[side]
                  /\ n.vault = [m.vault EXCEPT !["base"] = @ - Base(all),
                                               !["quote"] = @ + Cost(all) + fee]
             ELSE /\ Requeued(m.lines[side], n.lines[side], t)
                  /\ n.worth[t] = [m.worth[t] EXCEPT !["base"] = @ + Base(all),
                                                     !["quote"] = @ - Cost(all) - fee]
                  /\ n.vault = m.vault
          /\ OnlyIn({"lines", "worth", "fees", "vault"}, m, n)

\* Dead orders of one side are dropped, some or all of them.
Reap(m, n, side) ==
  LET line == m.lines[side]
  IN /\ \E dropped \in SUBSET {i \in DOMAIN line : Dead(line[i])} :
          LET kept == SelectSeq([i \in DOMAIN line |-> i], LAMBDA i : i \notin dropped)
          IN n.lines = [m.lines EXCEPT ![side] = [i \in DOMAIN kept |-> line[kept[i]]]]
     /\ OnlyIn({"lines"}, m, n)

\* The window moves, and what it leaves is dropped.
Reanchor(m, n) ==
  /\ n.lines = [side \in Sides |-> SelectSeq(m.lines[side], LAMBDA o : InWindow(o, n))]
  /\ OnlyIn({"lines", "anchor"}, m, n)

\* A seat puts atoms in, or takes some out; the vaults follow (Backed).
Fund(m, n, s) ==
  /\ m.owner[s] # Nobody
  /\ \/ \A a \in Assets : n.worth[s][a] >= m.worth[s][a]
     \/ \A a \in Assets : n.worth[s][a] <= m.worth[s][a]
  /\ \A r \in SeatIds \ {s} : n.worth[r] = m.worth[r]
  /\ OnlyIn({"worth", "vault"}, m, n)

CollectFees(m, n) == n.fees = 0 /\ OnlyIn({"fees", "vault"}, m, n)

SetRate(m, n) == n.rate \in 0 .. MaxFeeBps /\ OnlyIn({"rate"}, m, n)

\* A seat passes from owner to owner through nobody, and so empty (Vacant).
Admit(m, n, s) ==
  /\ m.owner[s] = Nobody /\ n.owner \in {[m.owner EXCEPT ![s] = o] : o \in Owners}
  /\ OnlyIn({"owner"}, m, n)

Leave(m, n, s) ==
  /\ m.owner[s] # Nobody /\ n.owner = [m.owner EXCEPT ![s] = Nobody]
  /\ OnlyIn({"owner"}, m, n)

Allowed(m, n) ==
  /\ Sound(n)
  /\ \/ \E s \in SeatIds : Quote(m, n, s) \/ Fund(m, n, s) \/ Admit(m, n, s) \/ Leave(m, n, s)
     \/ \E t \in SeatIds \cup {NoSeat}, side \in Sides : Match(m, n, t, side)
     \/ \E side \in Sides : Reap(m, n, side)
     \/ Reanchor(m, n) \/ CollectFees(m, n) \/ SetRate(m, n)

-----------------------------------------------------------------------------
Instruction == \E m \in {market}, n \in {market'} : Allowed(m, n) /\ UNCHANGED slot
Tick        == slot' = slot + 1 /\ UNCHANGED market

Init ==
  /\ market.lines = [side \in Sides |-> <<>>]
  /\ market.fees = 0 /\ market.rate \in 0 .. MaxFeeBps
  /\ Sound(market)
  /\ slot = 0

Next == Instruction \/ Tick

Spec == Init /\ [][Next]_vars
=============================================================================
