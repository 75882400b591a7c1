------------------------------- MODULE MCClob --------------------------------
(***************************************************************************)
(* Small markets for TLC.  The window has 4 ticks in words of 2, so that a *)
(* reanchor by one word keeps half of it and reuses ring positions; a lot  *)
(* is 3 base atoms, so that base and quote amounts are told apart.         *)
(***************************************************************************)
EXTENDS ClobRefinement

Q(tick, lots)      == [tick |-> tick, lots |-> lots, reject |-> FALSE]
Strict(tick, lots) == [tick |-> tick, lots |-> lots, reject |-> TRUE]

NoPayload == {<<>>}

\* None, one or two quotes: sizes going up and down at the same tick, a quote
\* that must not slide, an unsorted payload and an empty size.
SmallPayloads ==
  {<<>>, <<Q(3, 1)>>, <<Q(4, 1)>>, <<Q(3, 2)>>, <<Strict(4, 1)>>,
   <<Q(3, 1), Q(4, 2)>>, <<Q(4, 1), Q(3, 1)>>, <<Q(5, 0)>>}

\* One quote, and two that leave the first of them out.
TwoPayloads == {<<Q(3, 1)>>, <<Q(4, 1)>>, <<>>}

\* Deposits made before the model starts, by seat.
Funds(base0, quote0, base1, quote1) ==
  [s \in SeatIds |-> [a \in Assets |->
     IF a = "base" THEN IF s = 0 THEN base0 ELSE base1
                   ELSE IF s = 0 THEN quote0 ELSE quote1]]
Total(funds) == [a \in Assets |-> funds[0][a] + funds[1][a]]

MakerFunds == Funds(6, 12, 3, 8)      \* two makers
TakerFunds == Funds(6, 0, 3, 8)       \* a seller, and a trader of both sides
NoFunds    == Funds(0, 0, 0, 0)
MakerVault == Total(MakerFunds)
TakerVault == Total(TakerFunds)
NoVault    == Total(NoFunds)
=============================================================================
