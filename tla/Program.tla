------------------------------- MODULE Program -------------------------------
(***************************************************************************)
(* The program's state and the way an instruction runs against it.         *)
(*                                                                         *)
(* The runtime serialises the instructions that write one market, so an    *)
(* instruction runs from its first to its last step with nothing in        *)
(* between; one whose loops take several steps is recorded in `ix`         *)
(* (its operands and its loop cursors), and every step is an action.  A    *)
(* failing instruction is reverted as a whole: book and vaults return to   *)
(* `committed`, the state the last successful instruction left.            *)
(***************************************************************************)
EXTENDS OrderBook

CONSTANTS
  Instructions,   \* the instructions sent to the market
  FeeDenominator, \* FEE_DENOMINATOR
  MaxFeeBps,      \* MAX_FEE_BPS: set_fee_bps refuses more
  FeeRates,       \* the fee rates an admin asks for (fee_bps)
  U64Max,         \* u64::MAX, the unbounded quote budget
  StartAnchor,    \* anchor_tick given to create_market
  Seated,         \* seats claimed when the model starts
  StartFunds,     \* what each of them has deposited of each asset
  StartVault,     \* what the vaults hold then: those deposits
  Withheld,       \* transfer fees the mints may withhold from a transfer
  MaxSlot,        \* BOUND: the clock stops here
  MaxOrderIds     \* BOUND: no instruction may issue an id from here on; above
                  \* FreedSeq it never binds, and ids wrap

ASSUME ProgramAssumption ==
  /\ FeeDenominator \in Nat \ {0}
  /\ MaxFeeBps \in Nat /\ MaxFeeBps < FeeDenominator
  /\ FeeRates \subseteq Nat
  /\ U64Max \in Nat
  /\ StartAnchor \in Nat /\ StartAnchor >= WordTicks
  /\ StartAnchor % WordTicks = 0 /\ StartAnchor + WindowTicks - 1 <= TickLimit
  /\ Seated \subseteq SeatIds
  /\ StartFunds \in [SeatIds -> [Assets -> Nat]] /\ StartVault \in [Assets -> Nat]
  /\ Owners # {}
  /\ MaxSlot \in Nat /\ MaxOrderIds \in Nat
  /\ Withheld \subseteq Nat

VARIABLES
  book,       \* the market account as the instruction in flight sees it
  vault,      \* atoms in the two token vaults
  ix,         \* the instruction in flight, Idle when there is none
  committed,  \* book and vaults after the last successful instruction
  slot        \* Clock::get().slot

vars == <<book, vault, ix, committed, slot>>

Idle == [op |-> "Idle"]

-----------------------------------------------------------------------------
(* Starting, finishing and failing                                         *)

Starts(name) == ix = Idle /\ name \in Instructions

\* check_seat: the instruction is signed by the owner of a claimed seat.
Signed(s) == book.seats[s].owner # Nobody

\* One loop iteration of the instruction in flight.
Continue(b, i) ==
  /\ book' = b /\ ix' = i
  /\ UNCHANGED <<vault, committed, slot>>

\* Success: every handler that changes the book bumps the change counter.
Commit(b, v) ==
  /\ book' = BumpSeq(b) /\ vault' = v /\ ix' = Idle
  /\ committed' = [book |-> BumpSeq(b), vault |-> v]
  /\ UNCHANGED slot

\* What a transfer into a vault brings: Token-2022 may withhold a fee from it,
\* and the handlers go by the vault's balance before and after.
Received(amount) == {amount - fee : fee \in {f \in Withheld : f <= amount}}

\* Failure part-way: the runtime reverts everything the instruction did.
Abort ==
  /\ book' = committed.book /\ vault' = committed.vault /\ ix' = Idle
  /\ UNCHANGED <<committed, slot>>

\* Failure before any change: accounts, operands or balances are refused.
Refused == ix = Idle /\ UNCHANGED vars

\* The cluster's clock moves between instructions.
NextSlot ==
  /\ ix = Idle /\ slot < MaxSlot
  /\ slot' = slot + 1
  /\ UNCHANGED <<book, vault, ix, committed>>

\* BOUND: the model issues at most MaxOrderIds order ids.
IdsLeft(k) == book.orderSeq + k <= MaxOrderIds

-----------------------------------------------------------------------------
(* A freshly created market (create_market), with the Seated seats claimed *)
(* and funded: every state here is reached by claims and deposits alone.   *)

\* thread_free_list: node n precedes n + 1, the last one ends the list.
FreshNode(n) ==
  [prev |-> NIL, next |-> IF n \in 1 .. Capacity - 1 THEN n + 1 ELSE NIL,
   makerPrev |-> NIL, makerNext |-> NIL, tick |-> 0, maker |-> 0, side |-> "bid",
   lots |-> 0, expiry |-> 0, seq |-> IF n = 0 THEN 0 ELSE FreedSeq]

StartSeat(s) ==
  [owner |-> IF s \in Seated THEN CHOOSE o \in Owners : TRUE ELSE Nobody,
   free |-> IF s \in Seated THEN StartFunds[s] ELSE [a \in Assets |-> 0],
   locked |-> [a \in Assets |-> 0], head |-> NIL, count |-> 0]

StartBook(rate) ==
  [anchor |-> StartAnchor,
   bits |-> [side \in Sides |-> {}],
   levels |-> [l \in Ring |-> EmptyLevel],
   seats |-> [s \in SeatIds |-> StartSeat(s)],
   pool |-> [n \in Links |-> FreshNode(n)],
   freeHead |-> 1, freeCount |-> Capacity, orderSeq |-> 0,
   feeBps |-> rate, fees |-> 0, seq |-> 0]

Init ==
  /\ \E rate \in FeeRates : rate <= MaxFeeBps /\ book = StartBook(rate)
  /\ vault = StartVault
  /\ committed = [book |-> book, vault |-> vault]
  /\ ix = Idle
  /\ slot = 0
=============================================================================
