------------------------------- MODULE Custody -------------------------------
(***************************************************************************)
(* Seats and funds: claim_seat.rs, close_seat.rs, deposit.rs, withdraw.rs, *)
(* and the market administration that touches the book: collect_fees.rs    *)
(* and update_fee.rs.  Each is one step: it has no loop over the book, and *)
(* when a check or a token transfer fails nothing is kept.                 *)
(***************************************************************************)
EXTENDS Program

CONSTANTS
  DepositAmounts, \* requested amounts
  WithdrawAmounts,\* requested amounts; U64Max asks for all that is free
  MaxVault        \* BOUND: no deposit raises a vault above this

ASSUME CustodyAssumption ==
  /\ DepositAmounts \subseteq Nat /\ WithdrawAmounts \subseteq Nat
  /\ MaxVault \in Nat

FreeSeats == {s \in SeatIds : book.seats[s].owner = Nobody}

\* Admission: the first free seat, to any owner, even one that has a seat.
\* Only owner and chain head are written.
ClaimSeat(owner) ==
  /\ Starts("ClaimSeat")
  /\ FreeSeats # {}
  /\ LET s == CHOOSE f \in FreeSeats : \A g \in FreeSeats : f <= g
     IN Commit(SetOrdersHead(SetOwner(book, s, owner), s, NIL), vault)

\* Faulty: looks at the free balances only.
CloseSeatHolding(s) ==
  /\ Starts("CloseSeat")
  /\ Signed(s)
  /\ \A a \in Assets : book.seats[s].free[a] = 0
  /\ Commit(SetOrdersHead(SetOwner(book, s, Nobody), s, NIL), vault)

CloseSeat(s) ==
  /\ Starts("CloseSeat")
  /\ Signed(s)
  /\ \A a \in Assets : book.seats[s].free[a] = 0 /\ book.seats[s].locked[a] = 0
  /\ book.seats[s].count = 0
  /\ Commit(SetOrdersHead(SetOwner(book, s, Nobody), s, NIL), vault)

\* Faulty: credits what was asked for.
DepositNominal(s, base, quote) ==
  /\ Starts("Deposit")
  /\ Signed(s)
  /\ vault["base"] + base <= MaxVault /\ vault["quote"] + quote <= MaxVault
  /\ \E b \in Received(base), q \in Received(quote) :
       Commit(AddFree(AddFree(book, s, "base", base), s, "quote", quote),
              [vault EXCEPT !["base"] = @ + b, !["quote"] = @ + q])

\* Credits what the vaults received, which transfer fees may make less than
\* what was asked for; a zero leg is skipped.
Deposit(s, base, quote) ==
  /\ Starts("Deposit")
  /\ Signed(s)
  /\ vault["base"] + base <= MaxVault /\ vault["quote"] + quote <= MaxVault
  /\ \E b \in Received(base), q \in Received(quote) :
       Commit(AddFree(AddFree(book, s, "base", b), s, "quote", q),
              [vault EXCEPT !["base"] = @ + b, !["quote"] = @ + q])

WithdrawOut(s, asset, amount) ==
  IF amount = U64Max THEN book.seats[s].free[asset] ELSE amount

\* The seat is debited before the vaults pay; a failing payment reverts both.
Withdraw(s, base, quote) ==
  LET baseOut  == WithdrawOut(s, "base", base)
      quoteOut == WithdrawOut(s, "quote", quote)
  IN /\ Starts("Withdraw")
     /\ Signed(s)
     /\ book.seats[s].free["base"] >= baseOut
     /\ book.seats[s].free["quote"] >= quoteOut
     /\ vault["base"] >= baseOut /\ vault["quote"] >= quoteOut
     /\ Commit(AddFree(AddFree(book, s, "base", -baseOut), s, "quote", -quoteOut),
               [vault EXCEPT !["base"] = @ - baseOut, !["quote"] = @ - quoteOut])

\* take_fees_accrued: all accrued fees leave the quote vault.
CollectFees ==
  /\ Starts("CollectFees")
  /\ vault["quote"] >= book.fees
  /\ Commit([book EXCEPT !.fees = 0], [vault EXCEPT !["quote"] = @ - book.fees])

\* set_fee_bps caps the rate.
UpdateFee(rate) ==
  /\ Starts("UpdateFee")
  /\ rate <= MaxFeeBps
  /\ Commit([book EXCEPT !.feeBps = rate], vault)

CustodyNext ==
  \/ \E o \in Owners : ClaimSeat(o)
  \/ \E s \in SeatIds : CloseSeat(s)
  \/ \E s \in SeatIds, base, quote \in DepositAmounts : Deposit(s, base, quote)
  \/ \E s \in SeatIds, base, quote \in WithdrawAmounts : Withdraw(s, base, quote)
  \/ CollectFees
  \/ \E rate \in FeeRates : UpdateFee(rate)
=============================================================================
