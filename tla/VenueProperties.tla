--------------------------- MODULE VenueProperties ---------------------------
(***************************************************************************)
(* What makes the accounts, authorities and entry of the program correct,  *)
(* and what the Rust client may rely on.                                   *)
(***************************************************************************)
EXTENDS Venue

Exists(m) == markets[m].version # 0
Configured(c) == configs[c] # NoConfig

-----------------------------------------------------------------------------
(* Parameters                                                              *)

\* No arithmetic of matching leaves u64 (locked_atoms, take, mass_quote): for
\* every postable tick, every size up to the cap and the rate in force, the
\* notional, its product with the rate, the notional and fee together in units
\* of 1 / FEE_DENOMINATOR, and the base amount all fit.
NoOverflow ==
  \A m \in MarketKeys : Exists(m) =>
    \A tick \in 1 .. markets[m].tickLimit, lots \in 1 .. markets[m].cap :
      LET notional == tick * markets[m].tickSize * lots
      IN /\ notional * (FeeDenominator + markets[m].feeBps) <= U64Max
         /\ markets[m].lotSize * lots <= U64Max

\* No tick arithmetic leaves u32 (check_or_slide_vs, reanchor_step): the window
\* at the start and at every anchor a reanchor may choose, those whose window
\* ends within the tick limit, lies above tick 0 with a window to spare below
\* u32::MAX, and there is such an anchor to choose.
WindowFits ==
  \A m \in MarketKeys : Exists(m) =>
    /\ markets[m].anchor >= Word
    /\ markets[m].anchor + Window - 1 <= markets[m].tickLimit
    /\ markets[m].tickLimit + Window <= U32Max

-----------------------------------------------------------------------------
(* Terms, vaults and roles                                                 *)

\* What an admin may change of a market is its fee, and what a reanchor may
\* change is its window: its mints, vaults, sizes, limits and authorities stay
\* as create_market wrote them, whatever is called on it later, create_market
\* included.
TermsFixed ==
  [][\A m \in MarketKeys : Exists(m) =>
       markets'[m] = [markets[m] EXCEPT !.feeBps = markets'[m].feeBps,
                                        !.anchor = markets'[m].anchor]]_vars

\* One vault backs one side of one market: seat ledgers of two markets, or of
\* the two sides of one, never share tokens, and each vault is owned by its
\* market's own derived authority, which alone can sign payments out of it.
VaultsApart ==
  \A m \in MarketKeys : Exists(m) =>
    /\ markets[m].baseVault # markets[m].quoteVault
    /\ \A v \in {markets[m].baseVault, markets[m].quoteVault} :
         /\ v[2] = markets[m].vaultAuthority
         /\ \A n \in MarketKeys \ {m} : Exists(n) =>
              v # markets[n].baseVault /\ v # markets[n].quoteVault

Signs(ins, key) ==
  \E k \in DOMAIN ins.accts : ins.accts[k].key = key /\ ins.accts[k].signer

\* The signatures behind the last step, whichever instruction it was.
Authorized ==
  /\ \A a \in Wallets : configs'[ConfigKey(a)] # configs[ConfigKey(a)] =>
       /\ \A ins \in CreateConfigs : CreateConfig(ins) => Signs(ins, a)
       /\ \A ins \in UpdateConfigs : UpdateConfig(ins) => Signs(ins, a)
  /\ \A m \in MarketKeys :
       /\ ~Exists(m) /\ Exists(m)' =>
            \A ins \in CreateMarkets : CreateMarket(ins) => Signs(ins, m)
       /\ Exists(m) /\ markets'[m].feeBps # markets[m].feeBps =>
            \A ins \in UpdateFees : UpdateFee(ins) => Signs(ins, markets[m].authority)
       /\ Exists(m) /\ markets'[m].anchor # markets[m].anchor =>
            \A ins \in Reanchors : Reanchor(ins) =>
              Signs(ins, configs[markets[m].config].marketAuthority)
       /\ Exists(m)' =>
            LET c == configs'[markets'[m].config]
            IN c.version = ConfigVersion /\ Zero \notin {c.seatAuthority, c.marketAuthority}

\* Who moved it signed for it: whichever instruction has just run, a config
\* changes by its own authority's signature, a market is made by its account's,
\* its fee changes by its authority's and its window by whoever is the market
\* authority of its config at that time; and a market's config always exists
\* and never delegates a role to the key nobody can sign for.
RolesHeld == [][Authorized]_vars

\* No market trades a mint whose delegate could empty its vaults, nor an account
\* that is no mint at all, however its extensions are laid out.
MintsSafe ==
  \A m \in MarketKeys : Exists(m) =>
    \A mint \in {markets[m].base, markets[m].quote} :
      /\ MintData[mint].kind = "mint" /\ MintData[mint].initialized
      /\ ~Delegated(MintData[mint])

-----------------------------------------------------------------------------
(* The client                                                              *)

\* MarketSnapshot::decode and its own constants.
SnapshotPoolOffset == 320 + 2 * ((2 + 8192 \div 64) * 8) + 8192 * 16 + 128 * 80
SnapshotDecodes(m) ==
  /\ markets[m].len >= SnapshotPoolOffset
  /\ markets[m].version = 4
  /\ markets[m].len = SnapshotPoolOffset + markets[m].capacity * 30

\* The keys a client that knows a market passes, by the names of the calls.
Known(m, o) ==
  LET h == markets[m]
      c == configs[h.config]
      OfOwner(owner) == <<Ata(owner, h.baseProgram, h.base), Ata(owner, h.quoteProgram, h.quote)>>
  IN [owner |-> o, user |-> o, market |-> m, authority |-> h.authority,
      config |-> h.config, seat_authority |-> c.seatAuthority,
      market_authority |-> c.marketAuthority,
      owner_base_ata |-> OfOwner(o)[1], owner_quote_ata |-> OfOwner(o)[2],
      user_base_ata |-> OfOwner(o)[1], user_quote_ata |-> OfOwner(o)[2],
      authority_quote_ata |-> OfOwner(h.authority)[2],
      base_vault |-> h.baseVault, quote_vault |-> h.quoteVault,
      vault_authority |-> h.vaultAuthority, base_mint |-> h.base, quote_mint |-> h.quote,
      base_token_program |-> h.baseProgram, quote_token_program |-> h.quoteProgram]

\* The handler of this name gets the call and reads each argument where the
\* client has put it.
Understood(call, handler, layout) ==
  /\ Dispatch(call.disc) = handler
  /\ Spans(call.args) = layout.fields /\ Width(call.args) = layout.len

CallsUnderstood ==
  /\ Understood(CreateMarketCall, "CreateMarket", CreateMarketData)
  /\ Understood(UpdateFeeCall, "UpdateFee", UpdateFeeData)
  /\ Understood(CollectFeesCall, "CollectFees", NoData)
  /\ Understood(CreateConfigCall, "CreateConfig", CreateConfigData)
  /\ Understood(UpdateConfigCall, "UpdateConfig", UpdateConfigData)
  /\ Understood(ClaimSeatCall, "ClaimSeat", NoData)
  /\ Understood(CloseSeatCall, "CloseSeat", CloseSeatData)
  /\ Understood(DepositCall, "Deposit", DepositData)
  /\ Understood(WithdrawCall, "Withdraw", WithdrawData)
  /\ \A bids, asks \in 0 .. 3 :
       Understood(MassQuoteCall(bids, asks), "MassQuote", MassQuoteData(bids, asks))
  /\ Understood(PlaceLimitCall, "PlaceLimit", PlaceLimitData)
  /\ Understood(CancelCall, "Cancel", CancelData)
  /\ Understood(PlaceTakeCall, "PlaceTake", PlaceTakeData)
  /\ Understood(SwapCall, "Swap", SwapData)
  /\ Understood(ReanchorCall, "Reanchor", ReanchorData)
  /\ Understood(ReapExpiredCall, "ReapExpired", ReapExpiredData)

\* Every call on a market made with the keys of its header and its config
\* passes the program's checks and the token program's.
MarketServes(m, o) ==
  LET To(call) == Built(call, Known(m, o))
  IN /\ ClaimSeatAccounts(To(ClaimSeatCall)) /\ CloseSeatAccounts(To(CloseSeatCall))
     /\ DepositAccounts(To(DepositCall)) /\ WithdrawAccounts(To(WithdrawCall))
     /\ MassQuoteAccounts(To(MassQuoteCall(1, 1)))
     /\ PlaceLimitAccounts(To(PlaceLimitCall)) /\ CancelAccounts(To(CancelCall))
     /\ PlaceTakeAccounts(To(PlaceTakeCall)) /\ SwapAccounts(To(SwapCall))
     /\ ReanchorAccounts(To(ReanchorCall)) /\ ReapExpiredAccounts(To(ReapExpiredCall))
     /\ UpdateFeeAccounts(To(UpdateFeeCall)) /\ CollectFeesAccounts(To(CollectFeesCall))

\* The client and the program agree, in every state of the venue: calls are
\* understood; a market that exists serves every call its terms and its current
\* roles allow, and is decoded by the client exactly when the program accepts
\* it; a wallet without a config can make one, one that has it can update it;
\* and an empty account of a legal length can become a market of any two
\* different mints without a delegate.
ClientsServed ==
  /\ CallsUnderstood
  /\ \A m \in MarketKeys, o \in Wallets : Exists(m) => MarketServes(m, o)
  /\ \A m \in MarketKeys : SnapshotDecodes(m) <=> MarketCheck(m)
  /\ \A a \in Wallets :
       LET keys == [payer |-> a, config |-> ConfigKey(a), authority |-> a,
                    system_program |-> "system"]
       IN IF Configured(ConfigKey(a)) THEN UpdateConfigAccounts(Built(UpdateConfigCall, keys))
          ELSE CreateConfigAccounts(Built(CreateConfigCall, keys))
  /\ \A m \in MarketKeys, c \in ConfigKeys, base, quote \in MintKeys :
       /\ ~Exists(m) /\ Configured(c) /\ base # quote
       /\ \E cap \in MinPool .. MaxPool : MarketLen[m] = PoolOffset + cap * NodeLen
       /\ \A mint \in {base, quote} :
            /\ MintData[mint].kind = "mint" /\ MintData[mint].initialized
            /\ MintData[mint].program \in {"legacy", "2022"} /\ ~Delegated(MintData[mint])
       => CreateMarketAccounts(Built(CreateMarketCall,
            [market |-> m, base_mint |-> base, quote_mint |-> quote,
             base_vault |-> Vault(m, base), quote_vault |-> Vault(m, quote),
             authority |-> c[2], config |-> c]))

-----------------------------------------------------------------------------
(* The two ways in                                                         *)

\* Two accounts of the lengths wallets, token accounts and the markets have,
\* the second possibly a repetition of the first; fewer or more; with no data
\* or at least a discriminator.
Full(len)   == [marker |-> NonDup, len |-> len]
Repeat(k)   == [marker |-> k, len |-> 0]
AccountLens == {0, 165} \cup {markets[m].len : m \in MarketKeys}
AccountLists ==
  UNION {{<<Full(x)>>, <<Full(x), Repeat(0)>>, <<Full(x), Full(x), Repeat(1)>>}
         \cup {<<Full(x), Full(y)>> : y \in AccountLens} : x \in AccountLens}
Inputs == [accts : AccountLists, ixLen : {0, 1}, disc : {0, 20, 21, 22}]

\* The entrypoint's shortcut is taken exactly for the makers' shape, and finds
\* the same handler, accounts and data as the generic walk would.
RoutesAgree ==
  \A input \in Inputs :
    LET generic == GenericView(input)
    IN FastView(input) =
         IF /\ Len(input.accts) = 2 /\ \A k \in 1 .. 2 : input.accts[k].marker = NonDup
            /\ generic.handler \in {"MassQuote", "PlaceLimit", "Cancel"}
         THEN generic ELSE NoView
=============================================================================
