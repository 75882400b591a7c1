------------------------------- MODULE MCVenue -------------------------------
(***************************************************************************)
(* Small venues.  The parameter run has one market, any parameters and one *)
(* pair of mints, with widths scaled to 9 and 5 bits and fees to tenths,   *)
(* so that both of the tick limit's bounds, and every check, decide for    *)
(* some choice.  The account run has two markets, two wallets and mints of *)
(* every kind, and one choice of parameters.                               *)
(***************************************************************************)
EXTENDS VenueProperties, TLC

CONSTANTS m1, m2, usdc, sol, fees, seized, account

Small == 0 .. 4
Sizes == {0, 1, 2, 3, 10, 11, 12, 13, 200}

Mint(program, exts) ==
  [program |-> program, kind |-> "mint", initialized |-> TRUE, decimals |-> 6, exts |-> exts]
Ext(type, len) == [type |-> type, len |-> len]

Plain == Mint("legacy", <<>>)
Fees  == Mint("2022", <<Ext(1, 3), Ext(3, 5)>>)
Seized == Mint("2022", <<Ext(1, 3), Ext(PermanentDelegate, 32)>>)
TokenAccount == [Fees EXCEPT !.kind = "account"]

TwoMints == (usdc :> Plain) @@ (sol :> Mint("2022", <<>>))
AllMints == (usdc :> Plain) @@ (fees :> Fees) @@ (seized :> Seized) @@ (account :> TokenAccount)

\* Legal lengths, the smallest and a larger one.
OneLen  == m1 :> PoolOffset + MinPool * NodeLen
TwoLens == OneLen @@ (m2 :> PoolOffset + 100 * NodeLen)

\* Nothing tells the wallets apart.
Interchangeable == Permutations(Wallets)
=============================================================================
