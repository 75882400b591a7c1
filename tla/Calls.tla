-------------------------------- MODULE Calls --------------------------------
(***************************************************************************)
(* The calls the Rust client builds (sdk/rust): per instruction its        *)
(* discriminator, the accounts in the order they are pushed, each with the *)
(* flags of its AccountMeta, and the arguments in the order they are       *)
(* serialized, each with its width in bytes.  The client is generated from *)
(* an interface file and the program is written by hand: nothing but these *)
(* lists ties the one to the other.                                        *)
(***************************************************************************)
EXTENDS Naturals, Sequences

Meta(name, signer, writable) == [name |-> name, signer |-> signer, writable |-> writable]

Read(name) == Meta(name, FALSE, FALSE)   \* AccountMeta::new_readonly(_, false)
Write(name) == Meta(name, FALSE, TRUE)   \* AccountMeta::new(_, false)
Sign(name) == Meta(name, TRUE, FALSE)    \* AccountMeta::new_readonly(_, true)
SignWrite(name) == Meta(name, TRUE, TRUE)

U(field, width) == [field |-> field, width |-> width]

-----------------------------------------------------------------------------
(* Administration                                                          *)

CreateMarketCall ==
  [disc  |-> 0,
   metas |-> <<SignWrite("market"), Read("base_mint"), Read("quote_mint"),
               Read("base_vault"), Read("quote_vault"), Read("authority"),
               Read("config")>>,
   args  |-> <<U("tick_size", 8), U("base_lot_size", 8), U("anchor_tick", 4),
               U("fee_bps", 2), U("max_lots_per_order", 4)>>]

UpdateFeeCall ==
  [disc  |-> 2,
   metas |-> <<Sign("authority"), Write("market")>>,
   args  |-> <<U("fee_bps", 2)>>]

CollectFeesCall ==
  [disc  |-> 3,
   metas |-> <<Sign("authority"), Write("market"), Write("quote_vault"),
               Write("authority_quote_ata"), Read("vault_authority"),
               Read("quote_mint"), Read("quote_token_program")>>,
   args  |-> <<>>]

CreateConfigCall ==
  [disc  |-> 4,
   metas |-> <<SignWrite("payer"), Write("config"), Sign("authority"),
               Read("system_program")>>,
   args  |-> <<U("seat_authority", 32), U("market_authority", 32)>>]

UpdateConfigCall ==
  [disc  |-> 5,
   metas |-> <<Sign("authority"), Write("config")>>,
   args  |-> <<U("seat_authority", 32), U("market_authority", 32)>>]

-----------------------------------------------------------------------------
(* Seats and funds                                                         *)

ClaimSeatCall ==
  [disc  |-> 10,
   metas |-> <<Sign("seat_authority"), Read("owner"), Read("config"), Write("market")>>,
   args  |-> <<>>]

CloseSeatCall ==
  [disc  |-> 11,
   metas |-> <<Sign("owner"), Write("market")>>,
   args  |-> <<U("seat_index", 2)>>]

DepositCall ==
  [disc  |-> 12,
   metas |-> <<Sign("owner"), Write("market"), Write("owner_base_ata"),
               Write("owner_quote_ata"), Write("base_vault"), Write("quote_vault"),
               Read("base_mint"), Read("quote_mint"), Read("base_token_program"),
               Read("quote_token_program")>>,
   args  |-> <<U("seat_index", 2), U("base_atoms", 8), U("quote_atoms", 8)>>]

\* Faulty: the vault authority is pushed before the vaults.
WithdrawCallMisplaced ==
  [disc  |-> 13,
   metas |-> <<Sign("owner"), Write("market"), Write("owner_base_ata"),
               Write("owner_quote_ata"), Read("vault_authority"), Write("base_vault"),
               Write("quote_vault"), Read("base_mint"), Read("quote_mint"),
               Read("base_token_program"), Read("quote_token_program")>>,
   args  |-> <<U("seat_index", 2), U("base_atoms", 8), U("quote_atoms", 8)>>]

WithdrawCall ==
  [disc  |-> 13,
   metas |-> <<Sign("owner"), Write("market"), Write("owner_base_ata"),
               Write("owner_quote_ata"), Write("base_vault"), Write("quote_vault"),
               Read("vault_authority"), Read("base_mint"), Read("quote_mint"),
               Read("base_token_program"), Read("quote_token_program")>>,
   args  |-> <<U("seat_index", 2), U("base_atoms", 8), U("quote_atoms", 8)>>]

-----------------------------------------------------------------------------
(* Makers, takers, hygiene                                                 *)

\* The one call written by hand: each side is a count and that many quotes of
\* tick, lots and flags, so its arguments depend on the counts.
QuoteArgs == <<U("tick", 4), U("lots", 4), U("flags", 1)>>

Quotes[k \in Nat] == IF k = 0 THEN <<>> ELSE Quotes[k - 1] \o QuoteArgs

MassQuoteCall(bids, asks) ==
  [disc  |-> 20,
   metas |-> <<Sign("owner"), Write("market")>>,
   args  |-> <<U("seat_index", 2), U("expiry_slot", 4), U("bid_count", 1)>>
             \o Quotes[bids] \o <<U("ask_count", 1)>> \o Quotes[asks]]

PlaceLimitCall ==
  [disc  |-> 21,
   metas |-> <<Sign("owner"), Write("market")>>,
   args  |-> <<U("seat_index", 2), U("side", 1), U("tick", 4), U("lots", 4),
               U("expiry_slot", 4), U("flags", 1)>>]

CancelCall ==
  [disc  |-> 22,
   metas |-> <<Sign("owner"), Write("market")>>,
   args  |-> <<U("seat_index", 2), U("node_index", 2), U("order_seq", 8)>>]

PlaceTakeCall ==
  [disc  |-> 30,
   metas |-> <<Sign("owner"), Write("market")>>,
   args  |-> <<U("seat_index", 2), U("side", 1), U("limit_tick", 4), U("max_lots", 4),
               U("min_out", 8), U("flags", 1)>>]

SwapCall ==
  [disc  |-> 31,
   metas |-> <<Sign("user"), Write("market"), Write("user_base_ata"),
               Write("user_quote_ata"), Write("base_vault"), Write("quote_vault"),
               Read("vault_authority"), Read("base_mint"), Read("quote_mint"),
               Read("base_token_program"), Read("quote_token_program")>>,
   args  |-> <<U("side", 1), U("amount_in", 8), U("limit_tick", 4), U("min_out", 8)>>]

ReanchorCall ==
  [disc  |-> 40,
   metas |-> <<Sign("market_authority"), Read("config"), Write("market")>>,
   args  |-> <<U("target_anchor", 4), U("max_levels", 4)>>]

ReapExpiredCall ==
  [disc  |-> 41,
   metas |-> <<Write("market")>>,
   args  |-> <<U("side", 1), U("start_tick", 4), U("max_count", 4)>>]

-----------------------------------------------------------------------------
(* What a built call looks like on the wire                                *)

\* Arguments are packed in order, little-endian, without padding.
At(args, k) ==
  LET off[j \in 1 .. Len(args)] == IF j = 1 THEN 0 ELSE off[j - 1] + args[j - 1].width
  IN off[k]

Spans(args) ==
  {[field |-> args[k].field, at |-> At(args, k), width |-> args[k].width] :
     k \in DOMAIN args}

Width(args) == IF args = <<>> THEN 0 ELSE At(args, Len(args)) + args[Len(args)].width
=============================================================================
