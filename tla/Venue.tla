-------------------------------- MODULE Venue --------------------------------
(***************************************************************************)
(* Many markets side by side: which accounts an instruction must bring     *)
(* before its handler runs, and the handlers that write the accounts'      *)
(* terms, create_config.rs, update_config.rs, create_market.rs,            *)
(* update_fee.rs and, as far as it writes the header, reanchor.rs.  What   *)
(* the others do to the book of one market is module Clob.                 *)
(*                                                                         *)
(* Instructions arrive as the runtime delivers them: a discriminator and a *)
(* sequence of accounts, each with its key and its two flags.  A key the   *)
(* program derives is the tuple of its seeds: derivation is injective.     *)
(***************************************************************************)
EXTENDS MarketParams, Mints, Calls, Entrypoint, FiniteSets

CONSTANTS
  Wallets,       \* keys that can sign: admins, owners, users
  Zero,          \* the all-zero key, which nobody can sign for
  MarketKeys,    \* accounts clients made for markets and gave to the program
  MarketLen,     \* their lengths
  MintKeys,      \* accounts passed as mints
  MintData       \* what they hold

ASSUME VenueAssumption ==
  /\ Zero \notin Wallets
  /\ MarketLen \in [MarketKeys -> Nat]
  /\ \A mint \in MintKeys : IsTokenAccount(MintData[mint])

VARIABLES
  configs,   \* the config accounts, by the authority they are derived from
  markets    \* the market headers, by key

vars == <<configs, markets>>

MarketVersion == 4
ConfigVersion == 1

\* constants.rs: header, two bitmaps, levels and seats come before the pool.
NodeLen    == 30
BitmapLen  == 2 * 8 + 128 * 8
PoolOffset == 320 + 2 * BitmapLen + 8192 * 16 + 128 * 80
MinPool    == 64
MaxPool    == 1 + 128 * 128 + 128

-----------------------------------------------------------------------------
(* Addresses                                                               *)

ConfigKey(authority)      == <<"config", authority>>
ConfigKeys                == {ConfigKey(a) : a \in Wallets}
VaultAuthority(market)    == <<"vault", market>>
Ata(owner, program, mint) == <<"ata", owner, program, mint>>

Vault(market, mint) == Ata(VaultAuthority(market), MintData[mint].program, mint)

-----------------------------------------------------------------------------
(* Accounts of an instruction                                              *)

\* `let [a, b, ..] = accounts`: the accounts by the names the handler gives
\* them, nothing when their number differs.
Bind(ins, names) ==
  IF Len(ins.accts) # Len(names) THEN {}
  ELSE {[n \in {names[k] : k \in DOMAIN names} |->
           ins.accts[CHOOSE k \in DOMAIN names : names[k] = n]]}

\* A zeroed account is one the client created: version 0, nothing written.
Blank(key) == [version |-> 0, len |-> MarketLen[key]]

NoConfig == [version |-> 0]

\* Market::check: an account of the program's, long enough, of this version,
\* whose length is the one its recorded capacity implies.
MarketCheck(key) ==
  /\ key \in MarketKeys
  /\ markets[key].len >= PoolOffset + MinPool * NodeLen
  /\ markets[key].version = MarketVersion
  /\ markets[key].len = PoolOffset + markets[key].capacity * NodeLen

\* Config::check: no other account has a config's length.
ConfigCheck(key) == key \in ConfigKeys /\ configs[key].version = ConfigVersion

Header(acct) == markets[acct.key]
Role(acct)   == configs[acct.key]

\* TransferChecked, by the token program: both accounts hold the mint, and
\* the authority that owns the source signs, by PDA seeds or by itself.
Transferable(program, from, mint, to, authority) ==
  \E owner \in Wallets \cup {VaultAuthority(m) : m \in MarketKeys} :
    /\ from.key = Ata(authority.key, program.key, mint.key)
    /\ to.key = Ata(owner, program.key, mint.key)
    /\ from.writable /\ to.writable

-----------------------------------------------------------------------------
(* What each handler insists on                                            *)

OwnerAndMarket(ins) ==
  \E a \in Bind(ins, <<"owner", "market">>) :
    a.owner.signer /\ a.market.writable /\ MarketCheck(a.market.key)

MassQuoteAccounts(ins)  == OwnerAndMarket(ins)
PlaceLimitAccounts(ins) == OwnerAndMarket(ins)
CancelAccounts(ins)     == OwnerAndMarket(ins)
PlaceTakeAccounts(ins)  == OwnerAndMarket(ins)
CloseSeatAccounts(ins)  == OwnerAndMarket(ins)

ReapExpiredAccounts(ins) ==
  \E a \in Bind(ins, <<"market">>) : a.market.writable /\ MarketCheck(a.market.key)

ClaimSeatAccounts(ins) ==
  \E a \in Bind(ins, <<"seat_authority", "owner", "config", "market">>) :
    /\ a.seat_authority.signer /\ a.market.writable
    /\ MarketCheck(a.market.key) /\ ConfigCheck(a.config.key)
    /\ Header(a.market).config = a.config.key
    /\ Role(a.config).seatAuthority = a.seat_authority.key
    /\ a.owner.key # Zero

ReanchorAccounts(ins) ==
  \E a \in Bind(ins, <<"market_authority", "config", "market">>) :
    /\ a.market_authority.signer /\ a.market.writable
    /\ MarketCheck(a.market.key) /\ ConfigCheck(a.config.key)
    /\ Header(a.market).config = a.config.key
    /\ Role(a.config).marketAuthority = a.market_authority.key

UpdateFeeAccounts(ins) ==
  \E a \in Bind(ins, <<"authority", "market">>) :
    /\ a.authority.signer /\ a.market.writable /\ MarketCheck(a.market.key)
    /\ Header(a.market).authority = a.authority.key

\* Checked against the header: the vaults and the token programs.
VaultsMatch(a) ==
  LET h == Header(a.market)
  IN /\ a.base_vault.key = h.baseVault /\ a.quote_vault.key = h.quoteVault
     /\ a.base_token_program.key = h.baseProgram
     /\ a.quote_token_program.key = h.quoteProgram

\* A deposit's two transfers, signed by the owner, go through.
DepositAccounts(ins) ==
  \E a \in Bind(ins, <<"owner", "market", "owner_base_ata", "owner_quote_ata",
                       "base_vault", "quote_vault", "base_mint", "quote_mint",
                       "base_token_program", "quote_token_program">>) :
    /\ a.owner.signer /\ a.market.writable /\ MarketCheck(a.market.key)
    /\ VaultsMatch(a)
    /\ Transferable(a.base_token_program, a.owner_base_ata, a.base_mint,
                    a.base_vault, a.owner)
    /\ Transferable(a.quote_token_program, a.owner_quote_ata, a.quote_mint,
                    a.quote_vault, a.owner)

\* A withdrawal's are signed with the vault authority's seeds.
WithdrawAccounts(ins) ==
  \E a \in Bind(ins, <<"owner", "market", "owner_base_ata", "owner_quote_ata",
                       "base_vault", "quote_vault", "vault_authority", "base_mint",
                       "quote_mint", "base_token_program", "quote_token_program">>) :
    /\ a.owner.signer /\ a.market.writable /\ MarketCheck(a.market.key)
    /\ VaultsMatch(a)
    /\ a.vault_authority.key = Header(a.market).vaultAuthority
    /\ Transferable(a.base_token_program, a.base_vault, a.base_mint,
                    a.owner_base_ata, a.vault_authority)
    /\ Transferable(a.quote_token_program, a.quote_vault, a.quote_mint,
                    a.owner_quote_ata, a.vault_authority)

\* A swap pulls one leg from the user and pushes the other; no signature is
\* asked for here, the pull needs it.
SwapAccounts(ins) ==
  \E a \in Bind(ins, <<"user", "market", "user_base_ata", "user_quote_ata",
                       "base_vault", "quote_vault", "vault_authority", "base_mint",
                       "quote_mint", "base_token_program", "quote_token_program">>) :
    /\ a.market.writable /\ MarketCheck(a.market.key)
    /\ VaultsMatch(a)
    /\ a.vault_authority.key = Header(a.market).vaultAuthority
    /\ a.user.signer
    /\ Transferable(a.base_token_program, a.user_base_ata, a.base_mint,
                    a.base_vault, a.user)
    /\ Transferable(a.quote_token_program, a.quote_vault, a.quote_mint,
                    a.user_quote_ata, a.vault_authority)

CollectFeesAccounts(ins) ==
  \E a \in Bind(ins, <<"authority", "market", "quote_vault", "authority_quote_ata",
                       "vault_authority", "quote_mint", "quote_token_program">>) :
    /\ a.authority.signer /\ a.market.writable /\ MarketCheck(a.market.key)
    /\ Header(a.market).authority = a.authority.key
    /\ a.quote_vault.key = Header(a.market).quoteVault
    /\ a.vault_authority.key = Header(a.market).vaultAuthority
    /\ a.quote_token_program.key = Header(a.market).quoteProgram
    /\ Transferable(a.quote_token_program, a.quote_vault, a.quote_mint,
                    a.authority_quote_ata, a.vault_authority)

\* Faulty: any authority may update any config.
UpdateConfigAccountsAnyone(ins) ==
  \E a \in Bind(ins, <<"authority", "config">>) :
    a.authority.signer /\ a.config.writable /\ ConfigCheck(a.config.key)

UpdateConfigAccounts(ins) ==
  \E a \in Bind(ins, <<"authority", "config">>) :
    /\ a.authority.signer /\ a.config.writable /\ ConfigCheck(a.config.key)
    /\ Role(a.config).authority = a.authority.key

\* With the address check of process, and the system program's: it allocates
\* only what does not exist yet.
CreateConfigAccounts(ins) ==
  \E a \in Bind(ins, <<"payer", "config", "authority", "system_program">>) :
    /\ a.payer.signer /\ a.authority.signer /\ a.config.writable
    /\ a.config.key = ConfigKey(a.authority.key)
    /\ a.config.key \in ConfigKeys /\ configs[a.config.key] = NoConfig

\* Faulty: a market may be initialized over.
CanInitializeAgain(acct) ==
  LET len == markets[acct.key].len
  IN /\ acct.writable /\ acct.signer /\ acct.key \in MarketKeys
     /\ len >= PoolOffset + MinPool * NodeLen
     /\ (len - PoolOffset) % NodeLen = 0
     /\ (len - PoolOffset) \div NodeLen <= MaxPool

\* The market account: signed for by the client who made it, a whole number
\* of nodes long, and not initialized before.
CanInitialize(acct) ==
  LET len == markets[acct.key].len
  IN /\ acct.writable /\ acct.signer /\ acct.key \in MarketKeys
     /\ len >= PoolOffset + MinPool * NodeLen
     /\ (len - PoolOffset) % NodeLen = 0
     /\ (len - PoolOffset) \div NodeLen <= MaxPool
     /\ markets[acct.key].version = 0

AcceptedMints == {mint \in MintKeys : MintAccepted(MintData[mint])}

\* Faulty: one mint may be on both sides.
MintsAcceptedAlike(base, quote) == {base, quote} \subseteq AcceptedMints

\* The two mints: distinct, since both vaults derive from them.
MintsAccepted(base, quote) == base # quote /\ {base, quote} \subseteq AcceptedMints

CreateMarketAccounts(ins) ==
  \E a \in Bind(ins, <<"market", "base_mint", "quote_mint", "base_vault",
                       "quote_vault", "authority", "config">>) :
    /\ CanInitialize(a.market) /\ ConfigCheck(a.config.key)
    /\ MintsAccepted(a.base_mint.key, a.quote_mint.key)
    /\ a.base_vault.key = Vault(a.market.key, a.base_mint.key)
    /\ a.quote_vault.key = Vault(a.market.key, a.quote_mint.key)

-----------------------------------------------------------------------------
(* The handlers that write terms                                           *)

IsCall(ins, handler) == Dispatch(ins.disc) = handler

\* Neither role may be given to the key nobody can sign for.
Roles == {r \in [seat : Wallets \cup {Zero}, market : Wallets \cup {Zero}] :
            r.seat # Zero /\ r.market # Zero}

CreateConfig(ins) ==
  /\ IsCall(ins, "CreateConfig") /\ CreateConfigAccounts(ins)
  /\ \E r \in Roles :
       configs' = [configs EXCEPT ![ins.accts[2].key] =
                     [version |-> ConfigVersion, authority |-> ins.accts[3].key,
                      seatAuthority |-> r.seat, marketAuthority |-> r.market]]
  /\ UNCHANGED markets

UpdateConfig(ins) ==
  /\ IsCall(ins, "UpdateConfig") /\ UpdateConfigAccounts(ins)
  /\ \E r \in Roles :
       configs' = [configs EXCEPT ![ins.accts[2].key].seatAuthority = r.seat,
                                  ![ins.accts[2].key].marketAuthority = r.market]
  /\ UNCHANGED markets

\* The header create_market writes; the book behind it is Program's StartBook.
NewHeader(ins, p) ==
  LET market == ins.accts[1].key
      base   == ins.accts[2].key
      quote  == ins.accts[3].key
  IN [version |-> MarketVersion, len |-> markets[market].len,
      capacity |-> (markets[market].len - PoolOffset) \div NodeLen,
      base |-> base, quote |-> quote,
      baseVault |-> ins.accts[4].key, quoteVault |-> ins.accts[5].key,
      vaultAuthority |-> VaultAuthority(market),
      authority |-> ins.accts[6].key, config |-> ins.accts[7].key,
      baseProgram |-> MintData[base].program, quoteProgram |-> MintData[quote].program,
      tickSize |-> p.tickSize, lotSize |-> p.lotSize, cap |-> p.cap,
      anchor |-> p.anchor, tickLimit |-> TickLimit(p.tickSize, p.cap), feeBps |-> p.rate]

CreateMarket(ins) ==
  /\ IsCall(ins, "CreateMarket") /\ CreateMarketAccounts(ins)
  /\ \E p \in Params :
       /\ ParamsAccepted(p)
       /\ markets' = [markets EXCEPT ![ins.accts[1].key] = NewHeader(ins, p)]
  /\ UNCHANGED configs

UpdateFee(ins) ==
  /\ IsCall(ins, "UpdateFee") /\ UpdateFeeAccounts(ins)
  /\ \E rate \in Rates :
       /\ rate <= MaxFeeBps
       /\ markets' = [markets EXCEPT ![ins.accts[2].key].feeBps = rate]
  /\ UNCHANGED configs

\* Where a reanchor may leave the window; which anchor, and what is evicted
\* on the way, is module Hygiene's.
Reanchor(ins) ==
  /\ IsCall(ins, "Reanchor") /\ ReanchorAccounts(ins)
  /\ \E anchor \in Anchors :
       /\ anchor % Word = 0 /\ anchor # 0
       /\ anchor + Window - 1 <= markets[ins.accts[3].key].tickLimit
       /\ markets' = [markets EXCEPT ![ins.accts[3].key].anchor = anchor]
  /\ UNCHANGED configs

-----------------------------------------------------------------------------
(* What is sent: calls as the client builds them, for any keys in their    *)
(* places, with all of the signatures they ask for or one of them missing  *)

Built(call, keys) ==
  [disc  |-> call.disc,
   accts |-> [k \in DOMAIN call.metas |->
                [key |-> keys[call.metas[k].name],
                 signer |-> call.metas[k].signer, writable |-> call.metas[k].writable]]]

Unsigned(ins, k) ==
  [disc  |-> ins.disc,
   accts |-> [j \in DOMAIN ins.accts |-> [ins.accts[j] EXCEPT !.signer = @ /\ j # k]]]

Sent(call, K) ==
  {Unsigned(Built(call, keys), k) : keys \in K, k \in 0 .. Len(call.metas)}

CreateConfigs ==
  Sent(CreateConfigCall, [payer : Wallets, config : ConfigKeys, authority : Wallets,
                          system_program : {"system"}])

UpdateConfigs ==
  Sent(UpdateConfigCall, [authority : Wallets, config : ConfigKeys])

VaultsOf(mint) == {Vault(m, mint) : m \in MarketKeys}

MarketAccounts(base, quote) ==
  [market : MarketKeys, base_mint : {base}, quote_mint : {quote},
   base_vault : VaultsOf(base), quote_vault : VaultsOf(quote),
   authority : Wallets, config : ConfigKeys]

CreateMarkets ==
  UNION {Sent(CreateMarketCall, MarketAccounts(base, quote)) : base, quote \in MintKeys}

UpdateFees == Sent(UpdateFeeCall, [authority : Wallets, market : MarketKeys])

Reanchors ==
  Sent(ReanchorCall, [market_authority : Wallets, config : ConfigKeys,
                      market : MarketKeys])

Init ==
  /\ configs = [c \in ConfigKeys |-> NoConfig]
  /\ markets = [m \in MarketKeys |-> Blank(m)]

Next ==
  \/ \E ins \in CreateConfigs : CreateConfig(ins)
  \/ \E ins \in UpdateConfigs : UpdateConfig(ins)
  \/ \E ins \in CreateMarkets : CreateMarket(ins)
  \/ \E ins \in UpdateFees : UpdateFee(ins)
  \/ \E ins \in Reanchors : Reanchor(ins)

Spec == Init /\ [][Next]_vars
=============================================================================
