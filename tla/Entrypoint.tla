------------------------------ MODULE Entrypoint ------------------------------
(***************************************************************************)
(* How the bytes of a call become a handler with its accounts and fields.  *)
(* The program has two ways in: entrypoint.rs reads the loader's input     *)
(* buffer at computed offsets for three maker instructions, and the        *)
(* generic walk of pinocchio with lib.rs's dispatch serves everything      *)
(* else.  Both must see the same call.  Each handler then takes its fields *)
(* from fixed offsets of the data.                                         *)
(***************************************************************************)
EXTENDS Naturals, Sequences

\* process_instruction: the handler of a discriminator, "none" of others.
Dispatch(disc) ==
  CASE disc = 0  -> "CreateMarket" [] disc = 2  -> "UpdateFee"
    [] disc = 3  -> "CollectFees"  [] disc = 4  -> "CreateConfig"
    [] disc = 5  -> "UpdateConfig" [] disc = 10 -> "ClaimSeat"
    [] disc = 11 -> "CloseSeat"    [] disc = 12 -> "Deposit"
    [] disc = 13 -> "Withdraw"     [] disc = 20 -> "MassQuote"
    [] disc = 21 -> "PlaceLimit"   [] disc = 22 -> "Cancel"
    [] disc = 30 -> "PlaceTake"    [] disc = 31 -> "Swap"
    [] disc = 40 -> "Reanchor"     [] disc = 41 -> "ReapExpired"
    [] OTHER -> "none"

-----------------------------------------------------------------------------
(* Instruction data: the length a handler insists on and where it reads    *)

Layout(len, fields) == [len |-> len, fields |-> fields]
F(field, at, width) == [field |-> field, at |-> at, width |-> width]

NoData == Layout(0, {})

CreateMarketData ==
  Layout(26, {F("tick_size", 0, 8), F("base_lot_size", 8, 8), F("anchor_tick", 16, 4),
              F("fee_bps", 20, 2), F("max_lots_per_order", 22, 4)})

UpdateFeeData == Layout(2, {F("fee_bps", 0, 2)})

CreateConfigData ==
  Layout(64, {F("seat_authority", 0, 32), F("market_authority", 32, 32)})

UpdateConfigData ==
  Layout(64, {F("seat_authority", 0, 32), F("market_authority", 32, 32)})

CloseSeatData == Layout(2, {F("seat_index", 0, 2)})

DepositData ==
  Layout(18, {F("seat_index", 0, 2), F("base_atoms", 2, 8), F("quote_atoms", 10, 8)})

WithdrawData ==
  Layout(18, {F("seat_index", 0, 2), F("base_atoms", 2, 8), F("quote_atoms", 10, 8)})

CancelData ==
  Layout(12, {F("seat_index", 0, 2), F("node_index", 2, 2), F("order_seq", 4, 8)})

PlaceLimitData ==
  Layout(16, {F("seat_index", 0, 2), F("side", 2, 1), F("tick", 3, 4), F("lots", 7, 4),
              F("expiry_slot", 11, 4), F("flags", 15, 1)})

PlaceTakeData ==
  Layout(20, {F("seat_index", 0, 2), F("side", 2, 1), F("limit_tick", 3, 4),
              F("max_lots", 7, 4), F("min_out", 11, 8), F("flags", 19, 1)})

SwapData ==
  Layout(21, {F("side", 0, 1), F("amount_in", 1, 8), F("limit_tick", 9, 4),
              F("min_out", 13, 8)})

ReanchorData == Layout(8, {F("target_anchor", 0, 4), F("max_levels", 4, 4)})

ReapExpiredData ==
  Layout(9, {F("side", 0, 1), F("start_tick", 1, 4), F("max_count", 5, 4)})

\* Quote::from_bytes, one packed quote of a payload that starts at `at`.
QuoteFields(at, k) ==
  {F("tick", at + 9 * k, 4), F("lots", at + 9 * k + 4, 4), F("flags", at + 9 * k + 8, 1)}

\* The second count sits behind the first payload, wherever that ends.
MassQuoteData(bids, asks) ==
  LET header    == 6
      bidsStart == header + 1
      asksLenAt == bidsStart + bids * 9
      asksStart == asksLenAt + 1
  IN Layout(asksStart + asks * 9,
            {F("seat_index", 0, 2), F("expiry_slot", 2, 4), F("bid_count", header, 1),
             F("ask_count", asksLenAt, 1)}
            \cup (UNION {QuoteFields(bidsStart, k) : k \in 0 .. bids - 1})
            \cup (UNION {QuoteFields(asksStart, k) : k \in 0 .. asks - 1}))

-----------------------------------------------------------------------------
(* The loader's input buffer: a count, an 8-byte record for an account     *)
(* that repeats an earlier one, a full one otherwise, then the data.  An   *)
(* input is [accts : Seq([marker, len]), ixLen, disc].                     *)

NonDup     == 255
Preamble   == 88
DataLenAt  == 80
Padding    == 10240     \* MAX_PERMITTED_DATA_INCREASE
RentEpoch  == 8

\* The loader pads a record's data to the next multiple of 8.
RecordSize(acct) ==
  IF acct.marker # NonDup THEN 8
  ELSE LET spare == acct.len + Padding
       IN Preamble + spare + ((8 - (spare % 8)) % 8) + RentEpoch

RecordAt(input, k) ==
  LET at[j \in 1 .. Len(input.accts) + 1] ==
        IF j = 1 THEN 8 ELSE at[j - 1] + RecordSize(input.accts[j - 1])
  IN at[k]

IxLenAt(input) == RecordAt(input, Len(input.accts) + 1)

Garbage == 1000000   \* read where no field starts: no marker, no discriminator

\* The word or byte at an offset of the buffer.
Peek(input, at) ==
  LET n == Len(input.accts)
  IN IF \E k \in 1 .. n : at = RecordAt(input, k)
     THEN input.accts[CHOOSE k \in 1 .. n : at = RecordAt(input, k)].marker
     ELSE IF \E k \in 1 .. n : /\ input.accts[k].marker = NonDup
                               /\ at = RecordAt(input, k) + DataLenAt
     THEN input.accts[CHOOSE k \in 1 .. n : /\ input.accts[k].marker = NonDup
                                            /\ at = RecordAt(input, k) + DataLenAt].len
     ELSE IF at = IxLenAt(input) THEN input.ixLen
     ELSE IF at = IxLenAt(input) + 8 /\ input.ixLen > 0 THEN input.disc
     ELSE Garbage

-----------------------------------------------------------------------------
(* The fast path                                                           *)

\* Faulty: records are taken to follow one another without padding.
Align8Not(v) == v

Align8(v) == v + ((8 - (v % 8)) % 8)

\* What the entrypoint finds at the offsets it computes; NoView when the shape
\* is not the makers' and the call goes to the fallback.
NoView == [handler |-> "fallback"]

FastView(input) ==
  LET a1  == 8
      dl1 == Peek(input, a1 + DataLenAt)
      a2  == Align8(a1 + Preamble + dl1 + Padding) + RentEpoch
      dl2 == Peek(input, a2 + DataLenAt)
      ix  == Align8(a2 + Preamble + dl2 + Padding) + RentEpoch
      hot == Dispatch(Peek(input, ix + 8))
  IN IF /\ Len(input.accts) = 2
        /\ Peek(input, a1) = NonDup
        /\ Peek(input, a2) = NonDup
        /\ Peek(input, ix) >= 1
        /\ hot \in {"MassQuote", "Cancel", "PlaceLimit"}
     THEN [handler |-> hot, accounts |-> <<a1, a2>>, data |-> ix + 9,
           len |-> Peek(input, ix) - 1]
     ELSE NoView

\* The fallback: deserialize's walk, a repeated account standing for the one
\* it repeats, and process_instruction on what it found.
Account(input, k) ==
  IF input.accts[k].marker = NonDup THEN RecordAt(input, k)
                                    ELSE RecordAt(input, input.accts[k].marker + 1)

GenericView(input) ==
  [handler  |-> IF input.ixLen = 0 THEN "none" ELSE Dispatch(input.disc),
   accounts |-> [k \in 1 .. Len(input.accts) |-> Account(input, k)],
   data     |-> IxLenAt(input) + 9,
   len      |-> IF input.ixLen = 0 THEN 0 ELSE input.ixLen - 1]
=============================================================================
