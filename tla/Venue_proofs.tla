----------------------------- MODULE Venue_proofs -----------------------------
(***************************************************************************)
(* For every set of wallets, markets, mints and parameters: a market that  *)
(* create_market accepts cannot overflow, its terms never change, no two   *)
(* markets share a vault, its mints have no delegate, who moves an         *)
(* account's terms has signed, the program serves every call its client    *)
(* builds, and its two ways in see the same call.                          *)
(*                                                                         *)
(* What the checks of create_market leave true of a market is carried by   *)
(* an inductive invariant, since its rate, its window and its config's     *)
(* roles change later.  What the recursive functions of the layouts        *)
(* compute, offsets of arguments and the walk over a mint's extensions, is *)
(* found from a solution of their equation and a least counterexample.     *)
(***************************************************************************)
EXTENDS VenueProperties, Integers, WellFoundedInduction, SequenceTheorems, TLAPS

Fields == {"version", "len", "capacity", "base", "quote", "baseVault", "quoteVault",
           "vaultAuthority", "authority", "config", "baseProgram", "quoteProgram",
           "tickSize", "lotSize", "cap", "anchor", "tickLimit", "feeBps"}

ParamsFit(h) ==
  /\ h.tickSize \in Nat \ {0} /\ h.lotSize \in Nat \ {0} /\ h.cap \in Nat \ {0}
  /\ h.anchor \in Nat /\ h.tickLimit \in Nat /\ h.feeBps \in Nat
  /\ h.tickLimit * WorstPerTick(h.tickSize, h.cap) <= U64Max
  /\ h.lotSize * h.cap <= U64Max
  /\ h.feeBps <= MaxFeeBps
  /\ h.anchor >= Word /\ h.anchor + Window - 1 <= h.tickLimit
  /\ h.tickLimit + Window <= U32Max

TermsFit(m, h) ==
  /\ h.version = MarketVersion /\ h.authority \in Wallets
  /\ h.len >= PoolOffset + MinPool * NodeLen /\ h.len = PoolOffset + h.capacity * NodeLen
  /\ h.base # h.quote /\ h.base \in AcceptedMints /\ h.quote \in AcceptedMints
  /\ h.baseProgram = MintData[h.base].program /\ h.quoteProgram = MintData[h.quote].program
  /\ h.baseVault = Vault(m, h.base) /\ h.quoteVault = Vault(m, h.quote)
  /\ h.vaultAuthority = VaultAuthority(m)

IsConfig(a) ==
  configs[ConfigKey(a)] \in {NoConfig} \cup
    [version : {ConfigVersion}, authority : {a},
     seatAuthority : Wallets, marketAuthority : Wallets]

HasConfig(h) == h.config \in ConfigKeys /\ configs[h.config].version = ConfigVersion

IInv ==
  /\ configs = [c \in ConfigKeys |-> configs[c]]
  /\ markets = [m \in MarketKeys |-> markets[m]]
  /\ \A a \in Wallets : IsConfig(a)
  /\ \A m \in MarketKeys : markets[m].len = MarketLen[m]
  /\ \A m \in MarketKeys : Exists(m) =>
       /\ markets[m] = [f \in Fields |-> markets[m][f]]
       /\ ParamsFit(markets[m]) /\ TermsFit(m, markets[m]) /\ HasConfig(markets[m])

-----------------------------------------------------------------------------
(* Arithmetic                                                              *)

\* Multiplication is monotone in both factors.
LEMMA TimesMonotone ==
  ASSUME NEW a \in Nat, NEW b \in Nat, NEW c \in Nat, NEW d \in Nat, a <= c, b <= d
  PROVE  a * b \in Nat /\ a * b <= c * d
<1>1. a * b <= c * b
  OBVIOUS
<1>2. c * b <= c * d
  OBVIOUS
<1> QED BY <1>1, <1>2

\* Division rounds down.
LEMMA DivTimes ==
  ASSUME NEW a \in Nat, NEW b \in Nat \ {0}
  PROVE  (a \div b) \in Nat /\ (a \div b) * b <= a
OBVIOUS

\* A positive multiple of the word is at least one word.
LEMMA AlignedPositive ==
  ASSUME NEW a \in Nat \ {0}, a % Word = 0
  PROVE  a >= Word
BY ParamsAssumption

-----------------------------------------------------------------------------
(* What the checks of each handler say of the accounts in order            *)

LEMMA Bound ==
  ASSUME NEW ins, NEW names, NEW a \in Bind(ins, names), NEW k \in DOMAIN names,
         \A i, j \in DOMAIN names : names[i] = names[j] => i = j
  PROVE  a[names[k]] = ins.accts[k]
<1>1. a = [n \in {names[i] : i \in DOMAIN names} |->
             ins.accts[CHOOSE i \in DOMAIN names : names[i] = n]]
  BY DEF Bind
<1>2. a[names[k]] = ins.accts[CHOOSE i \in DOMAIN names : names[i] = names[k]]
  BY <1>1
<1>3. (CHOOSE i \in DOMAIN names : names[i] = names[k]) = k
  OBVIOUS
<1> QED BY <1>2, <1>3

LEMMA CreateConfigFacts ==
  ASSUME NEW ins, CreateConfigAccounts(ins)
  PROVE  /\ ins.accts[2].key = ConfigKey(ins.accts[3].key)
         /\ ins.accts[2].key \in ConfigKeys /\ configs[ins.accts[2].key] = NoConfig
         /\ ins.accts[3].signer
<1> DEFINE names == <<"payer", "config", "authority", "system_program">>
<1>1. PICK a \in Bind(ins, names) :
        /\ a.payer.signer /\ a.authority.signer /\ a.config.writable
        /\ a.config.key = ConfigKey(a.authority.key)
        /\ a.config.key \in ConfigKeys /\ configs[a.config.key] = NoConfig
  BY DEF CreateConfigAccounts
<1>2. DOMAIN names = 1 .. 4 /\ \A i, j \in DOMAIN names : names[i] = names[j] => i = j
  OBVIOUS
<1>3. a[names[2]] = ins.accts[2] /\ a[names[3]] = ins.accts[3]
  BY <1>1, <1>2, Bound
<1>4. a.config = ins.accts[2] /\ a.authority = ins.accts[3]
  BY <1>3
<1> QED BY <1>1, <1>4

LEMMA UpdateConfigFacts ==
  ASSUME NEW ins, UpdateConfigAccounts(ins)
  PROVE  /\ ins.accts[2].key \in ConfigKeys
         /\ configs[ins.accts[2].key].version = ConfigVersion
         /\ configs[ins.accts[2].key].authority = ins.accts[1].key
         /\ ins.accts[1].signer
<1> DEFINE names == <<"authority", "config">>
<1>1. PICK a \in Bind(ins, names) :
        /\ a.authority.signer /\ a.config.writable /\ ConfigCheck(a.config.key)
        /\ Role(a.config).authority = a.authority.key
  BY DEF UpdateConfigAccounts
<1>2. DOMAIN names = 1 .. 2 /\ \A i, j \in DOMAIN names : names[i] = names[j] => i = j
  OBVIOUS
<1>3. a[names[1]] = ins.accts[1] /\ a[names[2]] = ins.accts[2]
  BY <1>1, <1>2, Bound
<1>4. a.authority = ins.accts[1] /\ a.config = ins.accts[2]
  BY <1>3
<1> QED BY <1>1, <1>4 DEF ConfigCheck, Role

LEMMA UpdateFeeFacts ==
  ASSUME NEW ins, UpdateFeeAccounts(ins)
  PROVE  /\ ins.accts[2].key \in MarketKeys
         /\ markets[ins.accts[2].key].version = MarketVersion
         /\ markets[ins.accts[2].key].authority = ins.accts[1].key
         /\ ins.accts[1].signer
<1> DEFINE names == <<"authority", "market">>
<1>1. PICK a \in Bind(ins, names) :
        /\ a.authority.signer /\ a.market.writable /\ MarketCheck(a.market.key)
        /\ Header(a.market).authority = a.authority.key
  BY DEF UpdateFeeAccounts
<1>2. DOMAIN names = 1 .. 2 /\ \A i, j \in DOMAIN names : names[i] = names[j] => i = j
  OBVIOUS
<1>3. a[names[1]] = ins.accts[1] /\ a[names[2]] = ins.accts[2]
  BY <1>1, <1>2, Bound
<1>4. a.authority = ins.accts[1] /\ a.market = ins.accts[2]
  BY <1>3
<1> QED BY <1>1, <1>4 DEF MarketCheck, Header

LEMMA ReanchorFacts ==
  ASSUME NEW ins, ReanchorAccounts(ins)
  PROVE  /\ ins.accts[3].key \in MarketKeys
         /\ markets[ins.accts[3].key].version = MarketVersion
         /\ configs[markets[ins.accts[3].key].config].marketAuthority = ins.accts[1].key
         /\ ins.accts[1].signer
<1> DEFINE names == <<"market_authority", "config", "market">>
<1>1. PICK a \in Bind(ins, names) :
        /\ a.market_authority.signer /\ a.market.writable
        /\ MarketCheck(a.market.key) /\ ConfigCheck(a.config.key)
        /\ Header(a.market).config = a.config.key
        /\ Role(a.config).marketAuthority = a.market_authority.key
  BY DEF ReanchorAccounts
<1>2. DOMAIN names = 1 .. 3 /\ \A i, j \in DOMAIN names : names[i] = names[j] => i = j
  OBVIOUS
<1>3. a[names[1]] = ins.accts[1] /\ a[names[2]] = ins.accts[2] /\ a[names[3]] = ins.accts[3]
  BY <1>1, <1>2, Bound
<1>4. /\ a.market_authority = ins.accts[1] /\ a.config = ins.accts[2]
      /\ a.market = ins.accts[3]
  BY <1>3
<1> QED BY <1>1, <1>4 DEF MarketCheck, Header, Role

LEMMA CreateMarketFacts ==
  ASSUME NEW ins, CreateMarketAccounts(ins)
  PROVE  LET market == ins.accts[1].key
             base   == ins.accts[2].key
             quote  == ins.accts[3].key
         IN /\ market \in MarketKeys /\ ins.accts[1].signer
            /\ markets[market].version = 0
            /\ markets[market].len >= PoolOffset + MinPool * NodeLen
            /\ (markets[market].len - PoolOffset) % NodeLen = 0
            /\ base # quote /\ base \in AcceptedMints /\ quote \in AcceptedMints
            /\ ins.accts[4].key = Vault(market, base)
            /\ ins.accts[5].key = Vault(market, quote)
            /\ ins.accts[7].key \in ConfigKeys
            /\ configs[ins.accts[7].key].version = ConfigVersion
<1> DEFINE names == <<"market", "base_mint", "quote_mint", "base_vault",
                      "quote_vault", "authority", "config">>
<1>1. PICK a \in Bind(ins, names) :
        /\ CanInitialize(a.market) /\ ConfigCheck(a.config.key)
        /\ MintsAccepted(a.base_mint.key, a.quote_mint.key)
        /\ a.base_vault.key = Vault(a.market.key, a.base_mint.key)
        /\ a.quote_vault.key = Vault(a.market.key, a.quote_mint.key)
  BY DEF CreateMarketAccounts
<1>2. DOMAIN names = 1 .. 7 /\ \A i, j \in DOMAIN names : names[i] = names[j] => i = j
  OBVIOUS
<1>3. \A k \in 1 .. 7 : a[names[k]] = ins.accts[k]
  BY <1>1, <1>2, Bound
<1>4. /\ a.market = ins.accts[1] /\ a.base_mint = ins.accts[2]
      /\ a.quote_mint = ins.accts[3] /\ a.base_vault = ins.accts[4]
      /\ a.quote_vault = ins.accts[5] /\ a.config = ins.accts[7]
  BY <1>3
<1> QED BY <1>1, <1>4 DEF CanInitialize, ConfigCheck, MintsAccepted

LEMMA SentAccounts ==
  ASSUME NEW call, NEW K, NEW ins \in Sent(call, K)
  PROVE  DOMAIN ins.accts = DOMAIN call.metas
<1>1. PICK keys \in K, k \in 0 .. Len(call.metas) : ins = Unsigned(Built(call, keys), k)
  BY DEF Sent
<1> DEFINE b == Built(call, keys)
<1>2. b = [disc |-> b.disc, accts |-> b.accts] /\ DOMAIN b.accts = DOMAIN call.metas
  BY DEF Built
<1> HIDE DEF b
<1>3. Unsigned(b, k).accts = [j \in DOMAIN b.accts |->
                                [b.accts[j] EXCEPT !.signer = @ /\ j # k]]
  BY DEF Unsigned
<1>4. ins = Unsigned(b, k)
  BY <1>1 DEF b
<1> QED BY <1>2, <1>3, <1>4

\* A call brings the key it was built with in each place.
LEMMA SentKeys ==
  ASSUME NEW call, NEW K, NEW ins \in Sent(call, K)
  PROVE  \E keys \in K : \A j \in DOMAIN call.metas :
           ins.accts[j].key = keys[call.metas[j].name]
<1>1. PICK keys \in K, k \in 0 .. Len(call.metas) : ins = Unsigned(Built(call, keys), k)
  BY DEF Sent
<1> DEFINE b == Built(call, keys)
<1>2. /\ DOMAIN b.accts = DOMAIN call.metas
      /\ \A j \in DOMAIN call.metas :
           b.accts[j] = [key |-> keys[call.metas[j].name],
                         signer |-> call.metas[j].signer, writable |-> call.metas[j].writable]
  BY DEF Built
<1> HIDE DEF b
<1>3. Unsigned(b, k).accts = [j \in DOMAIN b.accts |->
                                [b.accts[j] EXCEPT !.signer = @ /\ j # k]]
  BY DEF Unsigned
<1>4. ins = Unsigned(b, k)
  BY <1>1 DEF b
<1>5. ASSUME NEW j \in DOMAIN call.metas PROVE ins.accts[j].key = keys[call.metas[j].name]
  <2>1. ins.accts[j] = [b.accts[j] EXCEPT !.signer = @ /\ j # k]
    BY <1>2, <1>3, <1>4
  <2>2. PICK x : ins.accts[j] = [b.accts[j] EXCEPT !.signer = x]
    BY <2>1, Zenon
  <2>3. b.accts[j] = [key |-> keys[call.metas[j].name],
                      signer |-> call.metas[j].signer, writable |-> call.metas[j].writable]
    BY <1>2
  <2> QED BY <2>2, <2>3
<1> QED BY <1>5

\* Only the client's own wallets are named as a market's authority.
LEMMA AuthorityIs ==
  ASSUME NEW ins \in CreateMarkets
  PROVE  ins.accts[6].key \in Wallets
<1>1. PICK base \in MintKeys, quote \in MintKeys :
        ins \in Sent(CreateMarketCall, MarketAccounts(base, quote))
  BY DEF CreateMarkets
<1>2. PICK keys \in MarketAccounts(base, quote) : \A j \in DOMAIN CreateMarketCall.metas :
        ins.accts[j].key = keys[CreateMarketCall.metas[j].name]
  BY <1>1, SentKeys
<1>3. 6 \in DOMAIN CreateMarketCall.metas /\ CreateMarketCall.metas[6].name = "authority"
  BY DEF CreateMarketCall, Read, SignWrite, Meta
<1>4. keys["authority"] \in Wallets
  BY DEF MarketAccounts
<1> QED BY <1>2, <1>3, <1>4

-----------------------------------------------------------------------------
(* The invariant                                                           *)

\* A role is never the key nobody can sign for.
LEMMA RolesAreWallets ==
  ASSUME NEW r \in Roles
  PROVE  r.seat \in Wallets /\ r.market \in Wallets
BY DEF Roles

LEMMA CreateConfigInv ==
  ASSUME IInv, NEW ins, CreateConfig(ins)
  PROVE  IInv'
<1> DEFINE c == ins.accts[2].key
           authority == ins.accts[3].key
<1>1. PICK r \in Roles :
        /\ configs' = [configs EXCEPT ![c] =
             [version |-> ConfigVersion, authority |-> authority,
              seatAuthority |-> r.seat, marketAuthority |-> r.market]]
        /\ markets' = markets
  BY DEF CreateConfig
<1>2. /\ c = ConfigKey(authority) /\ c \in ConfigKeys
      /\ r.seat \in Wallets /\ r.market \in Wallets
  BY CreateConfigFacts, RolesAreWallets DEF CreateConfig
<1> HIDE DEF c, authority
<1>3. configs' = [k \in ConfigKeys |-> configs'[k]]
  BY <1>1 DEF IInv
<1>4. \A a \in Wallets : IsConfig(a)'
  <2> SUFFICES ASSUME NEW a \in Wallets PROVE IsConfig(a)'
    OBVIOUS
  <2>1. CASE ConfigKey(a) = c
    <3>1. a = authority
      BY <1>2, <2>1 DEF ConfigKey
    <3>2. configs'[c] = [version |-> ConfigVersion, authority |-> authority,
                         seatAuthority |-> r.seat, marketAuthority |-> r.market]
      BY <1>1, <1>2 DEF IInv
    <3> QED BY <1>2, <2>1, <3>1, <3>2 DEF IsConfig
  <2>2. CASE ConfigKey(a) # c
    <3>1. configs'[ConfigKey(a)] = configs[ConfigKey(a)]
      BY <1>1, <2>2 DEF IInv, ConfigKeys
    <3> QED BY <3>1 DEF IInv, IsConfig
  <2> QED BY <2>1, <2>2
<1>5. \A k \in ConfigKeys : configs[k].version = ConfigVersion =>
        configs'[k].version = ConfigVersion
  BY <1>1, <1>2 DEF IInv
<1>6. \A m \in MarketKeys : Exists(m)' =>
        HasConfig(markets[m])' /\ Exists(m)
  BY <1>1, <1>5 DEF IInv, HasConfig, Exists
<1> QED BY <1>1, <1>3, <1>4, <1>6 DEF IInv

LEMMA UpdateConfigInv ==
  ASSUME IInv, NEW ins, UpdateConfig(ins)
  PROVE  IInv'
<1> DEFINE c == ins.accts[2].key
<1>1. PICK r \in Roles :
        /\ configs' = [configs EXCEPT ![c].seatAuthority = r.seat,
                                      ![c].marketAuthority = r.market]
        /\ markets' = markets
  BY DEF UpdateConfig
<1>2. /\ c \in ConfigKeys /\ configs[c].version = ConfigVersion
      /\ r.seat \in Wallets /\ r.market \in Wallets
  BY UpdateConfigFacts, RolesAreWallets DEF UpdateConfig
<1> HIDE DEF c
<1>3. configs' = [k \in ConfigKeys |-> configs'[k]]
  BY <1>1 DEF IInv
<1>4. configs'[c] = [configs[c] EXCEPT !.seatAuthority = r.seat,
                                       !.marketAuthority = r.market]
  BY <1>1, <1>2 DEF IInv
<1>5. \A k \in ConfigKeys : k # c => configs'[k] = configs[k]
  BY <1>1 DEF IInv
<1>6. \A a \in Wallets : IsConfig(a)'
  <2> SUFFICES ASSUME NEW a \in Wallets PROVE IsConfig(a)'
    OBVIOUS
  <2>1. CASE ConfigKey(a) = c
    <3>1. configs[c] \in [version : {ConfigVersion}, authority : {a},
                          seatAuthority : Wallets, marketAuthority : Wallets]
      BY <1>2, <2>1 DEF IInv, IsConfig, NoConfig, ConfigVersion
    <3> QED BY <1>2, <1>4, <2>1, <3>1 DEF IsConfig
  <2>2. CASE ConfigKey(a) # c
    BY <1>5, <2>2 DEF IInv, IsConfig, ConfigKeys
  <2> QED BY <2>1, <2>2
<1>7. \A k \in ConfigKeys : configs[k].version = ConfigVersion =>
        configs'[k].version = ConfigVersion
  <2>1. PICK a \in Wallets : c = ConfigKey(a)
    BY <1>2 DEF ConfigKeys
  <2>2. configs[c] \in [version : {ConfigVersion}, authority : {a},
                        seatAuthority : Wallets, marketAuthority : Wallets]
    BY <1>2, <2>1 DEF IInv, IsConfig, NoConfig, ConfigVersion
  <2>3. configs'[c].version = ConfigVersion
    BY <1>4, <2>2
  <2> QED BY <1>5, <2>3
<1>8. \A m \in MarketKeys : Exists(m)' =>
        HasConfig(markets[m])' /\ Exists(m)
  BY <1>1, <1>7 DEF IInv, HasConfig, Exists
<1> QED BY <1>1, <1>3, <1>6, <1>8 DEF IInv

\* The header of an accepted market, whatever the accounts.
LEMMA NewHeaderFits ==
  ASSUME NEW ins, NEW p \in Params, ParamsAccepted(p)
  PROVE  ParamsFit(NewHeader(ins, p))
<1> DEFINE worst == WorstPerTick(p.tickSize, p.cap)
           limit == TickLimit(p.tickSize, p.cap)
<1>1. /\ p.tickSize \in Nat \ {0} /\ p.lotSize \in Nat \ {0} /\ p.cap \in Nat \ {0}
      /\ p.anchor \in Nat \ {0} /\ p.rate \in Nat
  <2>1. /\ p.tickSize \in TickSizes /\ p.lotSize \in LotSizes /\ p.cap \in OrderCaps
        /\ p.anchor \in Anchors /\ p.rate \in Rates
    BY DEF Params
  <2>2. p.tickSize # 0 /\ p.lotSize # 0 /\ p.cap # 0 /\ p.anchor # 0
    BY DEF ParamsAccepted
  <2>3. /\ TickSizes \subseteq Nat /\ LotSizes \subseteq Nat /\ OrderCaps \subseteq Nat
        /\ Anchors \subseteq Nat /\ Rates \subseteq Nat
    BY ParamsAssumption
  <2> QED BY <2>1, <2>2, <2>3
<1>2. worst \in Nat \ {0}
  <2>1. p.tickSize * p.cap \in Nat \ {0}
    BY <1>1
  <2>2. FeeDenominator + MaxFeeBps \in Nat \ {0}
    BY ParamsAssumption
  <2> QED BY <2>1, <2>2 DEF WorstPerTick
<1>3. (U64Max \div worst) \in Nat /\ (U64Max \div worst) * worst <= U64Max
  BY <1>2, DivTimes, ParamsAssumption
<1>4. limit \in Nat /\ limit <= U64Max \div worst /\ limit + Window <= U32Max
  <2> HIDE DEF worst
  <2>1. limit = Least(U64Max \div worst, U32Max - 2 * Window)
    BY DEF TickLimit, worst
  <2> QED BY <2>1, <1>3, ParamsAssumption DEF Least
<1>5. limit * worst <= U64Max
  <2> HIDE DEF limit, worst
  <2>1. limit * worst <= (U64Max \div worst) * worst
    BY <1>2, <1>3, <1>4, TimesMonotone
  <2>2. limit * worst \in Nat
    BY <1>2, <1>4, TimesMonotone
  <2> QED BY <2>1, <2>2, <1>2, <1>3, ParamsAssumption
<1>6. p.anchor >= Word
  BY <1>1, AlignedPositive DEF ParamsAccepted
<1>7. /\ p.lotSize * p.cap <= U64Max /\ p.rate <= MaxFeeBps
      /\ p.anchor + Window - 1 <= limit
  BY DEF ParamsAccepted
<1> DEFINE h == NewHeader(ins, p)
<1>8. /\ h.tickSize = p.tickSize /\ h.lotSize = p.lotSize /\ h.cap = p.cap
      /\ h.anchor = p.anchor /\ h.tickLimit = limit /\ h.feeBps = p.rate
  BY DEF NewHeader
<1> HIDE DEF limit, h
<1> QED BY <1>1, <1>4, <1>5, <1>6, <1>7, <1>8 DEF ParamsFit, h

\* A length that is a whole number of nodes is what its capacity says.
LEMMA WholeNodes ==
  ASSUME NEW len \in Nat, len >= PoolOffset + MinPool * NodeLen, (len - PoolOffset) % NodeLen = 0
  PROVE  len = PoolOffset + ((len - PoolOffset) \div NodeLen) * NodeLen
BY DEF PoolOffset, MinPool, NodeLen, BitmapLen

LEMMA CreateMarketInv ==
  ASSUME IInv, NEW ins \in CreateMarkets, CreateMarket(ins)
  PROVE  IInv'
<1> DEFINE market == ins.accts[1].key
<1>1. PICK p \in Params :
        /\ ParamsAccepted(p)
        /\ markets' = [markets EXCEPT ![market] = NewHeader(ins, p)]
        /\ configs' = configs
  BY DEF CreateMarket
<1> DEFINE h == NewHeader(ins, p)
<1>2. /\ market \in MarketKeys
      /\ markets[market].len >= PoolOffset + MinPool * NodeLen
      /\ (markets[market].len - PoolOffset) % NodeLen = 0
      /\ ins.accts[2].key # ins.accts[3].key
      /\ ins.accts[2].key \in AcceptedMints /\ ins.accts[3].key \in AcceptedMints
      /\ ins.accts[4].key = Vault(market, ins.accts[2].key)
      /\ ins.accts[5].key = Vault(market, ins.accts[3].key)
      /\ ins.accts[7].key \in ConfigKeys
      /\ configs[ins.accts[7].key].version = ConfigVersion
  BY CreateMarketFacts DEF CreateMarket
<1>3. /\ TermsFit(market, h)
      /\ h.config \in ConfigKeys /\ configs'[h.config].version = ConfigVersion
      /\ h.len = MarketLen[market]
  <2>1. ins.accts[6].key \in Wallets
    BY AuthorityIs
  <2>2. markets[market].len = MarketLen[market] /\ MarketLen[market] \in Nat
    BY <1>2, VenueAssumption DEF IInv
  <2>3. h.len >= PoolOffset + MinPool * NodeLen /\ h.len = PoolOffset + h.capacity * NodeLen
    <3>1. h.len = markets[market].len
          /\ h.capacity = (markets[market].len - PoolOffset) \div NodeLen
      BY DEF NewHeader
    <3> HIDE DEF h, market
    <3> QED BY <1>2, <2>2, <3>1, WholeNodes
  <2>4. /\ h.version = MarketVersion /\ h.authority = ins.accts[6].key
        /\ h.base = ins.accts[2].key /\ h.quote = ins.accts[3].key
        /\ h.baseVault = ins.accts[4].key /\ h.quoteVault = ins.accts[5].key
        /\ h.vaultAuthority = VaultAuthority(market) /\ h.config = ins.accts[7].key
        /\ h.baseProgram = MintData[h.base].program /\ h.quoteProgram = MintData[h.quote].program
        /\ h.len = markets[market].len
    BY SMTT(30) DEF NewHeader
  <2> HIDE DEF h, market
  <2> QED BY <1>1, <1>2, <2>1, <2>2, <2>3, <2>4 DEF TermsFit
<1>4. h = [f \in Fields |-> h[f]]
  BY DEF NewHeader, Fields
<1>5. ParamsFit(h)
  BY <1>1, NewHeaderFits
<1> HIDE DEF market, h
<1>6. /\ markets' = [m \in MarketKeys |-> markets'[m]]
      /\ markets'[market] = h
      /\ \A m \in MarketKeys : m # market => markets'[m] = markets[m]
  BY <1>1, <1>2 DEF IInv, h
<1>7. ASSUME NEW m \in MarketKeys, Exists(m)'
      PROVE  /\ markets'[m] = [f \in Fields |-> markets'[m][f]]
             /\ ParamsFit(markets'[m]) /\ TermsFit(m, markets'[m])
             /\ HasConfig(markets[m])'
  <2>1. CASE m = market
    BY <1>3, <1>4, <1>5, <1>6, <2>1 DEF HasConfig
  <2>2. CASE m # market
    BY <1>1, <1>6, <1>7, <2>2 DEF IInv, Exists, HasConfig
  <2> QED BY <2>1, <2>2
<1>8. \A m \in MarketKeys : markets'[m].len = MarketLen[m]
  BY <1>3, <1>6 DEF IInv
<1> QED BY <1>1, <1>6, <1>7, <1>8 DEF IInv, IsConfig

\* What the two handlers that touch one term of a market leave of the rest.
LEMMA TermInv ==
  ASSUME IInv, NEW market \in MarketKeys, Exists(market), NEW h,
         markets' = [markets EXCEPT ![market] = h], configs' = configs,
         h = [f \in Fields |-> h[f]], ParamsFit(h),
         \A f \in Fields : f \notin {"feeBps", "anchor"} => h[f] = markets[market][f]
  PROVE  IInv'
<1>1. /\ markets' = [m \in MarketKeys |-> markets'[m]]
      /\ markets'[market] = h
      /\ \A m \in MarketKeys : m # market => markets'[m] = markets[m]
  BY DEF IInv
<1>2. /\ h.version = markets[market].version /\ h.base = markets[market].base
      /\ h.quote = markets[market].quote /\ h.baseVault = markets[market].baseVault
      /\ h.quoteVault = markets[market].quoteVault
      /\ h.vaultAuthority = markets[market].vaultAuthority
      /\ h.config = markets[market].config /\ h.len = markets[market].len
      /\ h.capacity = markets[market].capacity /\ h.authority = markets[market].authority
      /\ h.baseProgram = markets[market].baseProgram
      /\ h.quoteProgram = markets[market].quoteProgram
  BY DEF Fields
<1>3. TermsFit(market, h) /\ HasConfig(h)'
  BY <1>2 DEF IInv, TermsFit, HasConfig
<1>4. ASSUME NEW m \in MarketKeys, Exists(m)'
      PROVE  /\ markets'[m] = [f \in Fields |-> markets'[m][f]]
             /\ ParamsFit(markets'[m]) /\ TermsFit(m, markets'[m])
             /\ HasConfig(markets[m])'
  <2>1. CASE m = market
    BY <1>1, <1>3, <2>1 DEF HasConfig
  <2>2. CASE m # market
    BY <1>1, <1>4, <2>2 DEF IInv, Exists, HasConfig
  <2> QED BY <2>1, <2>2
<1>5. \A m \in MarketKeys : markets'[m].len = MarketLen[m]
  BY <1>1, <1>2 DEF IInv
<1> QED BY <1>1, <1>4, <1>5 DEF IInv, IsConfig

LEMMA UpdateFeeInv ==
  ASSUME IInv, NEW ins, UpdateFee(ins)
  PROVE  IInv'
<1> DEFINE market == ins.accts[2].key
<1>1. PICK rate \in Rates :
        /\ rate <= MaxFeeBps
        /\ markets' = [markets EXCEPT ![market].feeBps = rate]
        /\ configs' = configs
  BY DEF UpdateFee
<1>2. market \in MarketKeys /\ Exists(market)
  BY UpdateFeeFacts DEF UpdateFee, Exists, MarketVersion
<1> HIDE DEF market
<1> DEFINE old == markets[market]
           h   == [old EXCEPT !.feeBps = rate]
<1>3. old = [f \in Fields |-> old[f]] /\ ParamsFit(old)
  BY <1>2 DEF IInv
<1>4. markets' = [markets EXCEPT ![market] = h]
  BY <1>1
<1> HIDE DEF old
<1>5. /\ h = [f \in Fields |-> h[f]]
      /\ \A f \in Fields : f # "feeBps" => h[f] = old[f]
      /\ h.feeBps = rate
  BY <1>3 DEF Fields
<1> HIDE DEF h
<1>6. /\ h.tickSize = old.tickSize /\ h.lotSize = old.lotSize /\ h.cap = old.cap
      /\ h.anchor = old.anchor /\ h.tickLimit = old.tickLimit
  BY <1>5 DEF Fields
<1>7. ParamsFit(h)
  BY <1>1, <1>3, <1>5, <1>6, ParamsAssumption DEF ParamsFit
<1> QED BY <1>1, <1>2, <1>4, <1>5, <1>7, TermInv DEF old

LEMMA ReanchorInv ==
  ASSUME IInv, NEW ins, Reanchor(ins)
  PROVE  IInv'
<1> DEFINE market == ins.accts[3].key
<1>1. PICK anchor \in Anchors :
        /\ anchor % Word = 0 /\ anchor # 0
        /\ anchor + Window - 1 <= markets[market].tickLimit
        /\ markets' = [markets EXCEPT ![market].anchor = anchor]
        /\ configs' = configs
  BY DEF Reanchor
<1>2. market \in MarketKeys /\ Exists(market)
  BY ReanchorFacts DEF Reanchor, Exists, MarketVersion
<1> HIDE DEF market
<1> DEFINE old == markets[market]
           h   == [old EXCEPT !.anchor = anchor]
<1>3. old = [f \in Fields |-> old[f]] /\ ParamsFit(old)
  BY <1>2 DEF IInv
<1>4. /\ markets' = [markets EXCEPT ![market] = h]
      /\ anchor + Window - 1 <= old.tickLimit
  BY <1>1
<1> HIDE DEF old
<1>5. /\ h = [f \in Fields |-> h[f]]
      /\ \A f \in Fields : f # "anchor" => h[f] = old[f]
      /\ h.anchor = anchor
  BY <1>3 DEF Fields
<1> HIDE DEF h
<1>6. /\ h.tickSize = old.tickSize /\ h.lotSize = old.lotSize /\ h.cap = old.cap
      /\ h.feeBps = old.feeBps /\ h.tickLimit = old.tickLimit
  BY <1>5 DEF Fields
<1>7. anchor \in Nat \ {0} /\ anchor >= Word
  BY <1>1, AlignedPositive, ParamsAssumption
<1>8. ParamsFit(h)
  BY <1>3, <1>4, <1>5, <1>6, <1>7 DEF ParamsFit
<1> QED BY <1>1, <1>2, <1>4, <1>5, <1>8, TermInv DEF old

LEMMA InitIInv == Init => IInv
BY DEF Init, IInv, IsConfig, ConfigKeys, Exists, Blank

LEMMA NextIInv == IInv /\ [Next]_vars => IInv'
<1> SUFFICES ASSUME IInv, [Next]_vars PROVE IInv'
  OBVIOUS
<1>1. CASE UNCHANGED vars
  BY <1>1 DEF vars, IInv, IsConfig, Exists, HasConfig
<1>2. CASE Next
  BY <1>2, CreateConfigInv, UpdateConfigInv, CreateMarketInv, UpdateFeeInv, ReanchorInv
     DEF Next
<1> QED BY <1>1, <1>2

LEMMA IInvHolds == Spec => []IInv
BY InitIInv, NextIInv, PTL DEF Spec

-----------------------------------------------------------------------------
(* Arithmetic never leaves its width                                       *)

\* The dearest order at the highest tick bounds every other.
LEMMA FitsNoOverflow ==
  ASSUME NEW h, ParamsFit(h), NEW tick \in 1 .. h.tickLimit, NEW lots \in 1 .. h.cap
  PROVE  /\ tick * h.tickSize * lots * (FeeDenominator + h.feeBps) <= U64Max
         /\ h.lotSize * lots <= U64Max
<1> DEFINE size == h.tickSize
           cap == h.cap
           limit == h.tickLimit
           rate == FeeDenominator + h.feeBps
           top == FeeDenominator + MaxFeeBps
<1>1. /\ size \in Nat \ {0} /\ cap \in Nat \ {0} /\ limit \in Nat
      /\ rate \in Nat /\ top \in Nat /\ rate <= top
      /\ h.lotSize \in Nat \ {0} /\ tick \in Nat /\ lots \in Nat
      /\ tick <= limit /\ lots <= cap
      /\ limit * WorstPerTick(size, cap) <= U64Max
      /\ h.lotSize * cap <= U64Max
  BY ParamsAssumption DEF ParamsFit
<1>2. limit * (size * cap * top) <= U64Max
  BY <1>1 DEF WorstPerTick
<1>3. h.lotSize * lots <= h.lotSize * cap
  BY <1>1, TimesMonotone
<1>4. h.lotSize * lots \in Nat /\ h.lotSize * cap \in Nat
  BY <1>1, TimesMonotone
<1> HIDE DEF size, cap, limit, rate, top
<1>5. tick * size * lots * rate <= limit * (size * cap * top)
  <2>1. size * lots \in Nat /\ size * lots <= size * cap /\ size * cap \in Nat
    BY <1>1, TimesMonotone
  <2>2. (size * lots) * rate \in Nat /\ (size * lots) * rate <= (size * cap) * top
    BY <1>1, <2>1, TimesMonotone
  <2>3. (size * cap) * top \in Nat
    BY <1>1, <2>1, TimesMonotone
  <2>4. tick * ((size * lots) * rate) <= limit * ((size * cap) * top)
    BY <1>1, <2>2, <2>3, TimesMonotone
  <2>5. tick * size * lots * rate = tick * ((size * lots) * rate)
    BY <1>1
  <2> QED BY <2>4, <2>5
<1>6. tick * size * lots * rate \in Nat /\ limit * (size * cap * top) \in Nat
  BY <1>1
<1> QED BY <1>1, <1>2, <1>3, <1>4, <1>5, <1>6, ParamsAssumption
        DEF size, cap, limit, rate, top

\* A market create_market accepts never overflows, at any rate set later.
THEOREM NeverOverflows == Spec => []NoOverflow
<1>1. IInv => NoOverflow
  <2> SUFFICES ASSUME IInv, NEW m \in MarketKeys, Exists(m),
                      NEW tick \in 1 .. markets[m].tickLimit, NEW lots \in 1 .. markets[m].cap
               PROVE  /\ tick * markets[m].tickSize * lots
                           * (FeeDenominator + markets[m].feeBps) <= U64Max
                      /\ markets[m].lotSize * lots <= U64Max
    BY DEF NoOverflow
  <2> QED BY FitsNoOverflow DEF IInv
<1> QED BY <1>1, IInvHolds, PTL

\* Its window fits the tick limit and leaves room below u32::MAX, wherever a
\* reanchor has moved it.
THEOREM WindowAlwaysFits == Spec => []WindowFits
<1>1. IInv => WindowFits
  BY DEF IInv, WindowFits, ParamsFit
<1> QED BY <1>1, IInvHolds, PTL

-----------------------------------------------------------------------------
(* Vaults and terms                                                        *)

\* No two sides of any markets share a vault, for any accounts passed.
THEOREM VaultsStayApart == Spec => []VaultsApart
<1>1. ASSUME IInv PROVE VaultsApart
  <2> SUFFICES ASSUME NEW m \in MarketKeys, Exists(m)
               PROVE  /\ markets[m].baseVault # markets[m].quoteVault
                      /\ \A v \in {markets[m].baseVault, markets[m].quoteVault} :
                           /\ v[2] = markets[m].vaultAuthority
                           /\ \A n \in MarketKeys \ {m} : Exists(n) =>
                                v # markets[n].baseVault /\ v # markets[n].quoteVault
    BY DEF VaultsApart
  <2>1. \A n \in MarketKeys : Exists(n) => TermsFit(n, markets[n])
    BY <1>1 DEF IInv
  <2>2. \A n, x : Vault(n, x)[2] = VaultAuthority(n) /\ Vault(n, x)[4] = x
    BY DEF Vault, Ata
  <2>3. \A n \in MarketKeys : n # m => VaultAuthority(n) # VaultAuthority(m)
    BY DEF VaultAuthority
  <2> QED BY <2>1, <2>2, <2>3 DEF TermsFit
<1> QED BY <1>1, IInvHolds, PTL

\* No step, a second create_market included, changes what a market trades.
THEOREM TermsNeverChange == Spec => TermsFixed
<1> DEFINE Kept(m) == markets'[m] = [markets[m] EXCEPT !.feeBps = markets'[m].feeBps,
                                                       !.anchor = markets'[m].anchor]
<1>1. ASSUME IInv, Next, NEW m \in MarketKeys, Exists(m)
      PROVE  Kept(m)
  <2>1. markets[m] = [f \in Fields |-> markets[m][f]] /\ m \in DOMAIN markets
    BY <1>1 DEF IInv
  <2>2. ASSUME markets'[m] = markets[m] PROVE Kept(m)
    BY <2>1, <2>2
  <2>3. ASSUME NEW ins, CreateConfig(ins) \/ UpdateConfig(ins) PROVE Kept(m)
    BY <2>2, <2>3 DEF CreateConfig, UpdateConfig
  <2>4. ASSUME NEW ins, CreateMarket(ins) PROVE Kept(m)
    <3>1. ins.accts[1].key # m
      BY <1>1, <2>4, CreateMarketFacts DEF CreateMarket, Exists
    <3> QED BY <2>1, <2>2, <2>4, <3>1 DEF CreateMarket
  <2>5. ASSUME NEW ins, UpdateFee(ins) PROVE Kept(m)
    <3>1. PICK rate \in Rates : markets' = [markets EXCEPT ![ins.accts[2].key].feeBps = rate]
      BY <2>5 DEF UpdateFee
    <3>2. CASE ins.accts[2].key = m
      <4>1. markets'[m] = [markets[m] EXCEPT !.feeBps = rate]
        BY <2>1, <3>1, <3>2
      <4> QED BY <2>1, <4>1 DEF Fields
    <3>3. CASE ins.accts[2].key # m
      BY <2>1, <2>2, <3>1, <3>3
    <3> QED BY <3>2, <3>3
  <2>6. ASSUME NEW ins, Reanchor(ins) PROVE Kept(m)
    <3>1. PICK anchor \in Anchors :
            markets' = [markets EXCEPT ![ins.accts[3].key].anchor = anchor]
      BY <2>6 DEF Reanchor
    <3>2. CASE ins.accts[3].key = m
      <4>1. markets'[m] = [markets[m] EXCEPT !.anchor = anchor]
        BY <2>1, <3>1, <3>2
      <4> QED BY <2>1, <4>1 DEF Fields
    <3>3. CASE ins.accts[3].key # m
      BY <2>1, <2>2, <3>1, <3>3
    <3> QED BY <3>2, <3>3
  <2> HIDE DEF Kept
  <2> QED BY <1>1, <2>3, <2>4, <2>5, <2>6 DEF Next
<1>2. IInv /\ [Next]_vars =>
        [\A m \in MarketKeys : Exists(m) =>
           markets'[m] = [markets[m] EXCEPT !.feeBps = markets'[m].feeBps,
                                            !.anchor = markets'[m].anchor]]_vars
  BY <1>1
<1> QED BY <1>2, IInvHolds, PTL DEF Spec, TermsFixed

-----------------------------------------------------------------------------
(* Who moved it signed for it                                              *)

LEMMA SignerOf ==
  ASSUME NEW ins, NEW k \in DOMAIN ins.accts, ins.accts[k].signer
  PROVE  Signs(ins, ins.accts[k].key)
BY DEF Signs

LEMMA CreateConfigSigned ==
  ASSUME IInv, NEW ins \in CreateConfigs, CreateConfig(ins), NEW a \in Wallets,
         configs'[ConfigKey(a)] # configs[ConfigKey(a)]
  PROVE  Signs(ins, a)
<1>1. /\ ins.accts[2].key = ConfigKey(ins.accts[3].key) /\ ins.accts[3].signer
  BY CreateConfigFacts DEF CreateConfig
<1>2. 3 \in DOMAIN ins.accts
  BY SentAccounts DEF CreateConfigs, CreateConfigCall
<1>3. PICK c : configs' = [configs EXCEPT ![ins.accts[2].key] = c]
  BY DEF CreateConfig
<1>4. ConfigKey(a) \in DOMAIN configs
  BY DEF IInv, ConfigKeys
<1>5. ConfigKey(a) = ins.accts[2].key
  BY <1>3, <1>4
<1>6. a = ins.accts[3].key
  BY <1>1, <1>5 DEF ConfigKey
<1> QED BY <1>1, <1>2, <1>6, SignerOf

LEMMA UpdateConfigSigned ==
  ASSUME IInv, NEW ins \in UpdateConfigs, UpdateConfig(ins), NEW a \in Wallets,
         configs'[ConfigKey(a)] # configs[ConfigKey(a)]
  PROVE  Signs(ins, a)
<1>1. /\ ins.accts[1].signer
      /\ configs[ins.accts[2].key].version = ConfigVersion
      /\ configs[ins.accts[2].key].authority = ins.accts[1].key
  BY UpdateConfigFacts DEF UpdateConfig
<1>2. 1 \in DOMAIN ins.accts
  BY SentAccounts DEF UpdateConfigs, UpdateConfigCall
<1>3. PICK r \in Roles :
        configs' = [configs EXCEPT ![ins.accts[2].key].seatAuthority = r.seat,
                                   ![ins.accts[2].key].marketAuthority = r.market]
  BY DEF UpdateConfig
<1>4. ConfigKey(a) \in DOMAIN configs
  BY DEF IInv, ConfigKeys
<1>5. ConfigKey(a) = ins.accts[2].key
  BY <1>3, <1>4
<1>6. a = ins.accts[1].key
  BY <1>1, <1>5 DEF IInv, IsConfig, NoConfig, ConfigVersion
<1> QED BY <1>1, <1>2, <1>6, SignerOf

LEMMA CreateMarketSigned ==
  ASSUME IInv, NEW ins \in CreateMarkets, CreateMarket(ins), NEW m \in MarketKeys,
         ~Exists(m), Exists(m)'
  PROVE  Signs(ins, m)
<1>1. ins.accts[1].signer
  BY CreateMarketFacts DEF CreateMarket
<1>2. 1 \in DOMAIN ins.accts
  <2>1. PICK base \in MintKeys, quote \in MintKeys :
          ins \in Sent(CreateMarketCall, MarketAccounts(base, quote))
    BY DEF CreateMarkets
  <2> QED BY <2>1, SentAccounts DEF CreateMarketCall
<1>3. PICK h : markets' = [markets EXCEPT ![ins.accts[1].key] = h]
  BY DEF CreateMarket
<1>4. m = ins.accts[1].key
  BY <1>3 DEF IInv, Exists
<1> QED BY <1>1, <1>2, <1>4, SignerOf

LEMMA UpdateFeeSigned ==
  ASSUME IInv, NEW ins \in UpdateFees, UpdateFee(ins), NEW m \in MarketKeys,
         Exists(m), markets'[m].feeBps # markets[m].feeBps
  PROVE  Signs(ins, markets[m].authority)
<1>1. /\ ins.accts[1].signer
      /\ markets[ins.accts[2].key].authority = ins.accts[1].key
  BY UpdateFeeFacts DEF UpdateFee
<1>2. 1 \in DOMAIN ins.accts
  BY SentAccounts DEF UpdateFees, UpdateFeeCall
<1>3. PICK rate \in Rates : markets' = [markets EXCEPT ![ins.accts[2].key].feeBps = rate]
  BY DEF UpdateFee
<1>4. m = ins.accts[2].key
  BY <1>3 DEF IInv
<1> QED BY <1>1, <1>2, <1>4, SignerOf

LEMMA ReanchorSigned ==
  ASSUME IInv, NEW ins \in Reanchors, Reanchor(ins), NEW m \in MarketKeys,
         Exists(m), markets'[m].anchor # markets[m].anchor
  PROVE  Signs(ins, configs[markets[m].config].marketAuthority)
<1>1. /\ ins.accts[1].signer
      /\ configs[markets[ins.accts[3].key].config].marketAuthority = ins.accts[1].key
  BY ReanchorFacts DEF Reanchor
<1>2. 1 \in DOMAIN ins.accts
  BY SentAccounts DEF Reanchors, ReanchorCall
<1>3. PICK anchor \in Anchors :
        markets' = [markets EXCEPT ![ins.accts[3].key].anchor = anchor]
  BY DEF Reanchor
<1>4. m = ins.accts[3].key
  BY <1>3 DEF IInv
<1> QED BY <1>1, <1>2, <1>4, SignerOf

Delegates ==
  \A m \in MarketKeys : Exists(m) =>
    LET c == configs[markets[m].config]
    IN c.version = ConfigVersion /\ Zero \notin {c.seatAuthority, c.marketAuthority}

LEMMA ConfigsDelegate == IInv => Delegates
<1> SUFFICES ASSUME IInv, NEW m \in MarketKeys, Exists(m)
             PROVE  LET c == configs[markets[m].config]
                    IN /\ c.version = ConfigVersion
                       /\ Zero \notin {c.seatAuthority, c.marketAuthority}
  BY DEF Delegates
<1>1. markets[m].config \in ConfigKeys /\ configs[markets[m].config].version = ConfigVersion
  BY DEF IInv, HasConfig
<1>2. PICK a \in Wallets : markets[m].config = ConfigKey(a)
  BY <1>1 DEF ConfigKeys
<1>3. configs[ConfigKey(a)] \in [version : {ConfigVersion}, authority : {a},
                                 seatAuthority : Wallets, marketAuthority : Wallets]
  BY <1>1, <1>2 DEF IInv, IsConfig, NoConfig, ConfigVersion
<1> QED BY <1>1, <1>2, <1>3, VenueAssumption

\* No account's terms move without the signature of whom they answer to, and
\* roles always belong to keys that can sign.
THEOREM RolesAlwaysHeld == Spec => RolesHeld
<1>1. IInv /\ Delegates' => Authorized
  <2> SUFFICES ASSUME IInv, Delegates' PROVE Authorized
    OBVIOUS
  <2>1. \A a \in Wallets : configs'[ConfigKey(a)] # configs[ConfigKey(a)] =>
          /\ \A ins \in CreateConfigs : CreateConfig(ins) => Signs(ins, a)
          /\ \A ins \in UpdateConfigs : UpdateConfig(ins) => Signs(ins, a)
    BY CreateConfigSigned, UpdateConfigSigned
  <2>2. ASSUME NEW m \in MarketKeys
        PROVE  /\ ~Exists(m) /\ Exists(m)' =>
                    \A ins \in CreateMarkets : CreateMarket(ins) => Signs(ins, m)
               /\ Exists(m) /\ markets'[m].feeBps # markets[m].feeBps =>
                    \A ins \in UpdateFees : UpdateFee(ins) => Signs(ins, markets[m].authority)
               /\ Exists(m) /\ markets'[m].anchor # markets[m].anchor =>
                    \A ins \in Reanchors : Reanchor(ins) =>
                      Signs(ins, configs[markets[m].config].marketAuthority)
    BY CreateMarketSigned, UpdateFeeSigned, ReanchorSigned
  <2> QED BY <2>1, <2>2 DEF Authorized, Delegates
<1> QED BY <1>1, ConfigsDelegate, IInvHolds, PTL DEF RolesHeld

-----------------------------------------------------------------------------
(* Recursions over data                                                    *)

\* A set of natural numbers has a least member.
LEMMA LeastOf ==
  ASSUME NEW S, S \subseteq Nat, S # {}
  PROVE  \E m \in S : \A n \in S : m <= n
<1>1. PICK m \in S : \A n \in S : <<n, m>> \notin OpToRel(<, Nat)
  BY WFMin, NatLessThanWellFounded
<1>2. \A n \in S : ~(n < m)
  BY <1>1 DEF OpToRel
<1> QED BY <1>2

\* One unfolding of a recursion over 0 .. n that stops where `stop` says, with
\* the value of `val`, and goes on with the argument of `nxt` elsewhere.
Unfold(n, stop, val, nxt, it) ==
  [w \in 0 .. n |-> IF stop[w] THEN val[w] ELSE it[nxt[w]]]

\* A recursion over 0 .. n that either stops or goes up has a solution.
LEMMA Recursion ==
  ASSUME NEW n \in Nat, NEW stop, NEW val, NEW nxt,
         \A w \in 0 .. n : ~stop[w] => nxt[w] \in 0 .. n /\ w < nxt[w]
  PROVE  \E it : it = Unfold(n, stop, val, nxt, it)
<1> DEFINE Low(r) == {w \in 0 .. n : n - w < r}
           Value(it, w) == IF stop[w] THEN val[w] ELSE it[nxt[w]]
           Solves(it, r) == it = [w \in Low(r) |-> Value(it, w)]
           Bad == {r \in Nat : ~ \E it : Solves(it, r)}
<1>1. Bad = {}
  <2>1. SUFFICES ASSUME Bad # {} PROVE FALSE
    OBVIOUS
  <2>2. PICK r \in Bad : \A q \in Bad : r <= q
    <3>1. Bad \subseteq Nat
      OBVIOUS
    <3> HIDE DEF Bad
    <3> QED BY <2>1, <3>1, LeastOf
  <2>3. r \in Nat /\ ~ \E it : Solves(it, r)
    OBVIOUS
  <2>4. r # 0
    <3>1. ASSUME r = 0 PROVE FALSE
      <4>1. Low(r) = {}
        BY <3>1
      <4> DEFINE it == [w \in Low(r) |-> 0]
      <4>2. Solves(it, r)
        BY <4>1
      <4> QED BY <2>3, <4>2
    <3> QED BY <3>1
  <2>5. r - 1 \in Nat /\ r - 1 \notin Bad
    <3>1. r - 1 \in Nat /\ ~(r <= r - 1)
      BY <2>3, <2>4
    <3> HIDE DEF Bad
    <3> QED BY <2>2, <3>1
  <2>6. PICK it : Solves(it, r - 1)
    <3> HIDE DEF Solves
    <3> QED BY <2>5
  <2> DEFINE jt == [w \in Low(r) |-> Value(it, w)]
  <2>7. ASSUME NEW w \in Low(r), ~stop[w] PROVE nxt[w] \in Low(r - 1)
    <3>1. w \in 0 .. n /\ n - w < r
      OBVIOUS
    <3>2. nxt[w] \in 0 .. n /\ w < nxt[w]
      BY <2>7, <3>1
    <3>3. n - nxt[w] < r - 1
      BY <2>3, <3>1, <3>2
    <3> QED BY <3>2, <3>3
  <2>8. ASSUME NEW w \in Low(r - 1) PROVE w \in Low(r) /\ it[w] = jt[w]
    <3>1. w \in Low(r)
      BY <2>3
    <3>2. it[w] = Value(it, w)
      BY <2>6, Zenon
    <3> HIDE DEF Value
    <3> QED BY <3>1, <3>2
  <2>9. ASSUME NEW w \in Low(r) PROVE Value(it, w) = Value(jt, w)
    <3>1. ~stop[w] => it[nxt[w]] = jt[nxt[w]]
      <4> HIDE DEF jt, Low
      <4> QED BY <2>7, <2>8
    <3> HIDE DEF jt, Low
    <3> QED BY <3>1
  <2>10. Solves(jt, r)
    <3>1. \A w \in Low(r) : Value(it, w) = Value(jt, w)
      BY <2>9, Zenon
    <3> HIDE DEF Value, Low
    <3> QED BY <3>1
  <2> QED BY <2>3, <2>10
<1>2. n + 1 \notin Bad /\ n + 1 \in Nat
  <2> HIDE DEF Bad
  <2> QED BY <1>1
<1>3. PICK it : Solves(it, n + 1)
  <2> HIDE DEF Solves
  <2> QED BY <1>2
<1>4. Low(n + 1) = 0 .. n
  OBVIOUS
<1>5. it = Unfold(n, stop, val, nxt, it)
  BY <1>3, <1>4 DEF Unfold
<1> QED BY <1>5

\* The elements of x are accumulated from b on, one by one, by an operation on
\* a set V.
Accumulates(it, n, V, op, b, x) ==
  /\ it \in [0 .. n -> V] /\ it[0] = b
  /\ \A j \in 1 .. n : it[j] = op[<<it[j - 1], x[j]>>]

\* Every finite sequence of values accumulates to something.
LEMMA Accumulation ==
  ASSUME NEW n \in Nat, NEW V, NEW op \in [V \X V -> V], NEW b \in V, NEW x \in [1 .. n -> V]
  PROVE  \E it : Accumulates(it, n, V, op, b, x)
<1> DEFINE Bad == {r \in 0 .. n : ~ \E it : Accumulates(it, r, V, op, b, x)}
<1>1. Bad = {}
  <2>1. SUFFICES ASSUME Bad # {} PROVE FALSE
    OBVIOUS
  <2>2. PICK r \in Bad : \A q \in Bad : r <= q
    <3>1. Bad \subseteq Nat
      OBVIOUS
    <3> HIDE DEF Bad
    <3> QED BY <2>1, <3>1, LeastOf
  <2>3. r \in 0 .. n /\ ~ \E it : Accumulates(it, r, V, op, b, x)
    OBVIOUS
  <2>4. r # 0
    <3>1. Accumulates([j \in 0 .. 0 |-> b], 0, V, op, b, x)
      BY DEF Accumulates
    <3> QED BY <2>3, <3>1
  <2>5. r - 1 \in 0 .. n /\ r - 1 \notin Bad
    <3>1. r - 1 \in 0 .. n /\ ~(r <= r - 1)
      BY <2>3, <2>4
    <3> HIDE DEF Bad
    <3> QED BY <2>2, <3>1
  <2>6. PICK it : Accumulates(it, r - 1, V, op, b, x)
    BY <2>5
  <2> DEFINE jt == [j \in 0 .. r |-> IF j < r THEN it[j] ELSE op[<<it[r - 1], x[r]>>]]
  <2>7. it[r - 1] \in V /\ x[r] \in V /\ it \in [0 .. r - 1 -> V]
    BY <2>3, <2>5, <2>4, <2>6 DEF Accumulates
  <2>8. op[<<it[r - 1], x[r]>>] \in V
    BY <2>7
  <2>9. jt \in [0 .. r -> V]
    BY <2>3, <2>7, <2>8
  <2>10. jt[0] = b
    BY <2>3, <2>4, <2>6 DEF Accumulates
  <2>11. ASSUME NEW j \in 1 .. r PROVE jt[j] = op[<<jt[j - 1], x[j]>>]
    <3>1. CASE j = r
      <4>1. jt[r - 1] = it[r - 1] /\ jt[r] = op[<<it[r - 1], x[r]>>]
        BY <2>3, <2>4
      <4> HIDE DEF jt
      <4> QED BY <3>1, <4>1
    <3>2. CASE j # r
      <4>1. jt[j] = it[j] /\ jt[j - 1] = it[j - 1] /\ j \in 1 .. r - 1
        BY <2>3, <3>2
      <4> HIDE DEF jt
      <4> QED BY <2>6, <4>1 DEF Accumulates
    <3> QED BY <3>1, <3>2
  <2>12. Accumulates(jt, r, V, op, b, x)
    <3> HIDE DEF jt
    <3> QED BY <2>9, <2>10, <2>11 DEF Accumulates
  <2> QED BY <2>3, <2>12
<1>2. n \notin Bad /\ n \in 0 .. n
  <2> HIDE DEF Bad
  <2> QED BY <1>1
<1> QED BY <1>2

\* There is one such function.
LEMMA AccumulationUnique ==
  ASSUME NEW n \in Nat, NEW V, NEW op, NEW b, NEW x, NEW it, NEW jt,
         Accumulates(it, n, V, op, b, x), DOMAIN jt = 0 .. n, jt[0] = b,
         \A j \in 1 .. n : jt[j] = op[<<jt[j - 1], x[j]>>]
  PROVE  \A j \in 0 .. n : jt[j] = it[j]
<1> DEFINE Bad == {j \in 0 .. n : jt[j] # it[j]}
<1>1. SUFFICES ASSUME Bad # {} PROVE FALSE
  OBVIOUS
<1>2. PICK r \in Bad : \A q \in Bad : r <= q
  <2>1. Bad \subseteq Nat
    OBVIOUS
  <2> HIDE DEF Bad
  <2> QED BY <1>1, <2>1, LeastOf
<1>3. r \in 0 .. n /\ jt[r] # it[r]
  OBVIOUS
<1>4. r # 0
  BY <1>3 DEF Accumulates
<1>5. r - 1 \in 0 .. n /\ r - 1 \notin Bad
  <2>1. r - 1 \in 0 .. n /\ ~(r <= r - 1)
    BY <1>3, <1>4
  <2> HIDE DEF Bad
  <2> QED BY <1>2, <2>1
<1>6. jt[r - 1] = it[r - 1] /\ r \in 1 .. n
  BY <1>3, <1>4, <1>5
<1>7. jt[r] = op[<<jt[r - 1], x[r]>>] /\ it[r] = op[<<it[r - 1], x[r]>>]
  BY <1>6 DEF Accumulates
<1> QED BY <1>3, <1>6, <1>7

-----------------------------------------------------------------------------
(* The entries of a token account                                          *)

Concat == [p \in Seq(Nat) \X Seq(Nat) |-> p[1] \o p[2]]

EntriesBody(exts, it) ==
  [k \in 0 .. Len(exts) |-> IF k = 0 THEN <<>> ELSE it[k - 1] \o Entry(exts[k])]
EntriesUpTo(exts) == CHOOSE it : it = EntriesBody(exts, it)

\* The bytes of all entries are the last of the partial concatenations.
LEMMA EntriesDef == ASSUME NEW exts PROVE Entries(exts) = EntriesUpTo(exts)[Len(exts)]
BY Zenon DEF Entries, EntriesUpTo, EntriesBody

\* A type and a length are numbers.
LEMMA ExtNat == ASSUME NEW e \in ExtType PROVE e.type \in Nat /\ e.len \in Nat
<1>1. \A x \in Shorts : x \in Nat
  BY DEF Shorts
<1>2. e.type \in Shorts /\ e.len \in Shorts
  BY DEF ExtType
<1> QED BY <1>1, <1>2

\* A function on 1 .. n is a sequence.
LEMMA FunctionSeq ==
  ASSUME NEW n \in Nat, NEW S, NEW g \in [1 .. n -> S]
  PROVE  g \in Seq(S) /\ Len(g) = n
OBVIOUS

\* A number is its low byte and the rest.
LEMMA Bytes ==
  ASSUME NEW n \in Nat
  PROVE  n % 256 \in Nat /\ n \div 256 \in Nat /\ n = 256 * (n \div 256) + (n % 256)
OBVIOUS

\* An entry is its type and its length, in two bytes each, and its value.
LEMMA EntryIs ==
  ASSUME NEW e \in ExtType
  PROVE  /\ Entry(e) \in Seq(Nat) /\ Len(Entry(e)) = 4 + e.len
         /\ Entry(e)[1] + 256 * Entry(e)[2] = e.type
         /\ Entry(e)[3] + 256 * Entry(e)[4] = e.len
<1> DEFINE head == <<e.type % 256, e.type \div 256, e.len % 256, e.len \div 256>>
           value == [j \in 1 .. e.len |-> IF j % 2 = 1 THEN PermanentDelegate ELSE 0]
<1>1. /\ e.type \in Nat /\ e.len \in Nat
      /\ e.type % 256 \in Nat /\ e.type \div 256 \in Nat /\
           e.type = 256 * (e.type \div 256) + (e.type % 256)
      /\ e.len % 256 \in Nat /\ e.len \div 256 \in Nat /\ e.len = 256 * (e.len \div 256) + (e.len % 256)
  <2>1. e.type \in Nat /\ e.len \in Nat
    BY ExtNat
  <2> QED BY <2>1, Bytes
<1>2. head \in Seq(Nat) /\ Len(head) = 4
  BY <1>1
<1>3. value \in Seq(Nat) /\ Len(value) = e.len
  <2>1. value \in [1 .. e.len -> Nat]
    BY <1>1 DEF PermanentDelegate
  <2> HIDE DEF value
  <2> QED BY <1>1, <2>1, FunctionSeq
<1>4. Entry(e) = head \o value
  BY DEF Entry
<1>5. head[1] = e.type % 256 /\ head[2] = e.type \div 256
      /\ head[3] = e.len % 256 /\ head[4] = e.len \div 256
  OBVIOUS
<1> HIDE DEF head, value
<1>6. /\ head \o value \in Seq(Nat) /\ Len(head \o value) = 4 + e.len
      /\ \A i \in 1 .. 4 : (head \o value)[i] = head[i]
  <2>1. /\ head \o value \in Seq(Nat) /\ Len(head \o value) = Len(head) + Len(value)
        /\ \A i \in 1 .. Len(head) + Len(value) :
             (head \o value)[i] = IF i <= Len(head) THEN head[i] ELSE value[i - Len(head)]
    BY <1>2, <1>3, ConcatProperties
  <2>2. ASSUME NEW i \in 1 .. 4 PROVE (head \o value)[i] = head[i]
    <3>1. i \in 1 .. 4 + e.len /\ i <= 4
      <4>1. e.len \in Nat
        BY <1>1
      <4> QED BY <4>1
    <3> QED BY <1>2, <1>3, <2>1, <3>1
  <2>3. Len(head \o value) = 4 + e.len
    BY <1>2, <1>3, <2>1
  <2> QED BY <2>1, <2>2, <2>3
<1>7. /\ Entry(e)[1] = e.type % 256 /\ Entry(e)[2] = e.type \div 256
      /\ Entry(e)[3] = e.len % 256 /\ Entry(e)[4] = e.len \div 256
  <2>1. 1 \in 1 .. 4 /\ 2 \in 1 .. 4 /\ 3 \in 1 .. 4 /\ 4 \in 1 .. 4
    OBVIOUS
  <2> HIDE DEF Entry
  <2>2. \A i \in 1 .. 4 : Entry(e)[i] = head[i]
    <3> DEFINE whole == head \o value
    <3>1. \A i \in 1 .. 4 : whole[i] = head[i]
      BY <1>6
    <3>2. Entry(e) = whole
      BY <1>4
    <3> HIDE DEF whole
    <3> QED BY <3>1, <3>2, Zenon
  <2>3. /\ Entry(e)[1] = head[1] /\ Entry(e)[2] = head[2]
        /\ Entry(e)[3] = head[3] /\ Entry(e)[4] = head[4]
    BY <2>1, <2>2, Zenon
  <2> QED BY <1>5, <2>3, Zenon
<1>8. /\ Entry(e)[1] + 256 * Entry(e)[2] = e.type
      /\ Entry(e)[3] + 256 * Entry(e)[4] = e.len
  <2> HIDE DEF Entry
  <2> QED BY <1>1, <1>7
<1> QED BY <1>4, <1>6, <1>8

\* The entries are concatenated one by one.
LEMMA EntriesAccumulate ==
  ASSUME NEW exts \in Seq(ExtType)
  PROVE  LET up == EntriesUpTo(exts)
         IN /\ up \in [0 .. Len(exts) -> Seq(Nat)] /\ up[0] = <<>>
            /\ \A k \in 1 .. Len(exts) : up[k] = up[k - 1] \o Entry(exts[k])
<1> DEFINE n == Len(exts)
           x == [k \in 1 .. n |-> Entry(exts[k])]
           up == EntriesUpTo(exts)
           Sol(it) == Accumulates(it, n, Seq(Nat), Concat, <<>>, x)
<1>1. n \in Nat /\ \A k \in 1 .. n : exts[k] \in ExtType
  BY ElementOfSeq, LenProperties
<1>2. x \in [1 .. n -> Seq(Nat)]
  BY <1>1, EntryIs
<1>3. Concat \in [Seq(Nat) \X Seq(Nat) -> Seq(Nat)] /\ <<>> \in Seq(Nat)
  <2>1. \A p \in Seq(Nat) \X Seq(Nat) : p[1] \o p[2] \in Seq(Nat)
    BY ConcatProperties
  <2> QED BY <2>1, EmptySeq DEF Concat
<1> HIDE DEF x, n
<1>4. PICK it : Sol(it)
  BY <1>1, <1>2, <1>3, Accumulation
<1>5. /\ it \in [0 .. n -> Seq(Nat)] /\ it[0] = <<>>
      /\ \A k \in 1 .. n : it[k] = it[k - 1] \o Entry(exts[k])
  <2>1. /\ it \in [0 .. n -> Seq(Nat)] /\ it[0] = <<>>
        /\ \A k \in 1 .. n : it[k] = Concat[<<it[k - 1], x[k]>>]
    BY <1>4 DEF Accumulates
  <2>2. ASSUME NEW k \in 1 .. n PROVE it[k] = it[k - 1] \o Entry(exts[k])
    <3>1. it[k - 1] \in Seq(Nat) /\ x[k] \in Seq(Nat) /\ x[k] = Entry(exts[k])
      BY <1>1, <1>2, <2>1 DEF x
    <3>2. Concat[<<it[k - 1], x[k]>>] = it[k - 1] \o x[k]
      BY <3>1 DEF Concat
    <3> QED BY <2>1, <3>1, <3>2
  <2> QED BY <2>1, <2>2
<1>6. it = EntriesBody(exts, it)
  <2>1. ASSUME NEW k \in 0 .. n PROVE it[k] = IF k = 0 THEN <<>> ELSE it[k - 1] \o Entry(exts[k])
    <3>1. CASE k = 0
      BY <1>5, <3>1
    <3>2. CASE k # 0
      <4>1. k \in 1 .. n
        BY <1>1, <3>2
      <4> QED BY <1>5, <3>2, <4>1
    <3> QED BY <3>1, <3>2
  <2>2. it = [k \in 0 .. n |-> it[k]]
    BY <1>5
  <2>3. it = [k \in 0 .. n |-> IF k = 0 THEN <<>> ELSE it[k - 1] \o Entry(exts[k])]
    BY <2>1, <2>2, Zenon
  <2> QED BY <2>3 DEF EntriesBody, n
<1>7. up = EntriesBody(exts, up)
  BY <1>6, Zenon DEF EntriesUpTo
<1> HIDE DEF up
<1>8. DOMAIN up = 0 .. n /\ up[0] = <<>>
  BY <1>1, <1>7 DEF EntriesBody, n
\* Any solution is that one.
<1>9. \A k \in 0 .. n : up[k] = it[k]
  <2> DEFINE Bad == {k \in 0 .. n : up[k] # it[k]}
  <2>1. SUFFICES ASSUME Bad # {} PROVE FALSE
    OBVIOUS
  <2>2. PICK r \in Bad : \A q \in Bad : r <= q
    <3>1. Bad \subseteq Nat
      BY <1>1
    <3> HIDE DEF Bad
    <3> QED BY <2>1, <3>1, LeastOf
  <2>3. r \in 0 .. n /\ up[r] # it[r]
    OBVIOUS
  <2>4. r # 0
    BY <1>5, <1>8, <2>3
  <2>5. r - 1 \in 0 .. n /\ r - 1 \notin Bad
    <3>1. r - 1 \in 0 .. n /\ ~(r <= r - 1)
      BY <1>1, <2>3, <2>4
    <3> HIDE DEF Bad
    <3> QED BY <2>2, <3>1
  <2>6. up[r - 1] = it[r - 1]
    BY <2>5
  <2>7. up[r] = up[r - 1] \o Entry(exts[r])
    BY <1>7, <2>3, <2>4 DEF EntriesBody, n
  <2>8. r \in 1 .. n
    BY <1>1, <2>3, <2>4
  <2>9. it[r] = it[r - 1] \o Entry(exts[r])
    BY <1>5, <2>8
  <2> QED BY <2>3, <2>6, <2>7, <2>9
<1>10. up = it
  <2>1. up = [k \in 0 .. n |-> up[k]]
    BY <1>7 DEF EntriesBody, n
  <2>2. it = [k \in 0 .. n |-> it[k]]
    BY <1>5
  <2> QED BY <1>9, <2>1, <2>2, Zenon
<1> QED BY <1>5, <1>10 DEF up, n

\* How the walk sees them: from one entry's place to the next, up to the end.
LEMMA EntriesLie ==
  ASSUME NEW exts \in Seq(ExtType)
  PROVE  LET up == EntriesUpTo(exts)
             at(k) == Len(up[k])
         IN /\ Entries(exts) \in Seq(Nat) /\ at(0) = 0 /\ at(Len(exts)) = Len(Entries(exts))
            /\ \A k \in 0 .. Len(exts) : at(k) \in Nat /\ at(k) <= Len(Entries(exts))
            /\ \A k \in 1 .. Len(exts) :
                 /\ at(k) = at(k - 1) + 4 + exts[k].len
                 /\ \A j \in 1 .. 4 : Entries(exts)[at(k - 1) + j] = Entry(exts[k])[j]
<1> DEFINE n == Len(exts)
           up == EntriesUpTo(exts)
           at(k) == Len(up[k])
           all == Entries(exts)
<1>1. /\ n \in Nat /\ all = up[n] /\ up \in [0 .. n -> Seq(Nat)] /\ up[0] = <<>>
      /\ \A k \in 1 .. n : up[k] = up[k - 1] \o Entry(exts[k])
      /\ \A k \in 1 .. n : exts[k] \in ExtType
  BY EntriesAccumulate, EntriesDef, ElementOfSeq, LenProperties
<1> HIDE DEF n, up, all
<1>2. \A k \in 1 .. n : Entry(exts[k]) \in Seq(Nat) /\ Len(Entry(exts[k])) = 4 + exts[k].len
                        /\ exts[k].len \in Nat
  <2> TAKE k \in 1 .. n
  <2>1. exts[k] \in ExtType
    BY <1>1
  <2>2. exts[k].len \in Nat
    BY <2>1, ExtNat
  <2> QED BY <2>1, <2>2, EntryIs
<1>3. \A k \in 0 .. n : up[k] \in Seq(Nat) /\ at(k) \in Nat
  BY <1>1, LenProperties
<1>4. ASSUME NEW k \in 1 .. n
      PROVE  /\ k - 1 \in 0 .. n /\ at(k) = at(k - 1) + 4 + exts[k].len
             /\ \A j \in 1 .. at(k - 1) : up[k][j] = up[k - 1][j]
             /\ \A j \in 1 .. 4 : up[k][at(k - 1) + j] = Entry(exts[k])[j]
  <2>1. k - 1 \in 0 .. n
    BY <1>1
  <2> DEFINE s == up[k - 1]
             t == Entry(exts[k])
  <2>2. s \in Seq(Nat) /\ t \in Seq(Nat) /\ Len(s) \in Nat /\ Len(t) = 4 + exts[k].len
        /\ exts[k].len \in Nat /\ up[k] = s \o t
    <3>1. s \in Seq(Nat) /\ Len(s) \in Nat
      BY <1>3, <2>1
    <3>2. t \in Seq(Nat) /\ Len(t) = 4 + exts[k].len /\ exts[k].len \in Nat
      BY <1>2
    <3>3. up[k] = s \o t
      BY <1>1
    <3> QED BY <3>1, <3>2, <3>3
  <2> HIDE DEF s, t
  <2>3. /\ Len(s \o t) = Len(s) + Len(t)
        /\ \A i \in 1 .. Len(s) + Len(t) : (s \o t)[i] = IF i <= Len(s) THEN s[i] ELSE t[i - Len(s)]
    BY <2>2, ConcatProperties
  <2>4. \A j \in 1 .. Len(s) : (s \o t)[j] = s[j]
    BY <2>2, <2>3
  <2>5. \A j \in 1 .. 4 : (s \o t)[Len(s) + j] = t[j]
    <3> TAKE j \in 1 .. 4
    <3>1. Len(s) + j \in 1 .. Len(s) + Len(t) /\ ~(Len(s) + j <= Len(s)) /\ Len(s) + j - Len(s) = j
      BY <2>2
    <3> QED BY <2>3, <3>1
  <2>6. /\ Len(up[k]) = Len(s) + 4 + exts[k].len
        /\ \A j \in 1 .. Len(s) : up[k][j] = s[j]
        /\ \A j \in 1 .. 4 : up[k][Len(s) + j] = t[j]
    <3>1. Len(s) + (4 + exts[k].len) = Len(s) + 4 + exts[k].len
      <4>1. Len(s) \in Nat /\ exts[k].len \in Nat
        BY <2>2
      <4> QED BY <4>1
    <3> QED BY <2>2, <2>3, <2>4, <2>5, <3>1
  <2> QED BY <2>1, <2>6 DEF s, t
\* What comes first stays where it is as more is appended.
<1>5. \A k \in 0 .. n : /\ at(k) <= at(n)
                        /\ \A j \in 1 .. at(k) : up[n][j] = up[k][j]
  <2> DEFINE Kept(k) == at(k) <= at(n) /\ \A j \in 1 .. at(k) : up[n][j] = up[k][j]
             Bad == {r \in 0 .. n : ~Kept(n - r)}
  <2>1. Bad = {}
    <3>1. SUFFICES ASSUME Bad # {} PROVE FALSE
      OBVIOUS
    <3>2. PICK r \in Bad : \A q \in Bad : r <= q
      <4>1. Bad \subseteq Nat
        OBVIOUS
      <4> HIDE DEF Bad
      <4> QED BY <3>1, <4>1, LeastOf
    <3>3. r \in 0 .. n /\ ~Kept(n - r)
      OBVIOUS
    <3>4. r # 0
      <4>1. Kept(n)
        BY <1>1, <1>3
      <4>2. n - 0 = n
        BY <1>1
      <4> HIDE DEF Kept
      <4> QED BY <3>3, <4>1, <4>2
    <3>5. r - 1 \in 0 .. n /\ r - 1 \notin Bad
      <4>1. r - 1 \in 0 .. n /\ ~(r <= r - 1)
        BY <1>1, <3>3, <3>4
      <4> HIDE DEF Bad
      <4> QED BY <3>2, <4>1
    <3> DEFINE k == n - r + 1
    <3>6. k \in 1 .. n /\ k - 1 = n - r /\ n - (r - 1) = k
      BY <1>1, <3>3, <3>4
    <3> HIDE DEF k
    <3>7. Kept(k)
      <4> HIDE DEF Kept
      <4> QED BY <3>5, <3>6
    <3>8. /\ at(k) = at(k - 1) + 4 + exts[k].len /\ at(k - 1) \in Nat /\ exts[k].len \in Nat
          /\ at(k) \in Nat /\ at(n) \in Nat
          /\ \A j \in 1 .. at(k - 1) : up[k][j] = up[k - 1][j]
      <4>1. k \in 0 .. n /\ k - 1 \in 0 .. n /\ n \in 0 .. n
        BY <1>1, <3>6
      <4>2. at(k) \in Nat /\ at(k - 1) \in Nat /\ at(n) \in Nat
        BY <1>3, <4>1
      <4>3. exts[k].len \in Nat
        BY <1>2, <3>6
      <4>4. at(k) = at(k - 1) + 4 + exts[k].len /\ \A j \in 1 .. at(k - 1) : up[k][j] = up[k - 1][j]
        BY <1>4, <3>6
      <4> QED BY <4>2, <4>3, <4>4
    <3>9. Kept(k - 1)
      <4>1. at(k - 1) <= at(k)
        BY <3>8
      <4>2. \A j \in 1 .. at(k - 1) : j \in 1 .. at(k)
        BY <3>8
      <4> QED BY <3>7, <3>8, <4>1, <4>2
    <3> QED BY <3>3, <3>6, <3>9
  <2>2. ASSUME NEW k \in 0 .. n PROVE Kept(k)
    <3>1. n - k \in 0 .. n /\ n - (n - k) = k
      BY <1>1
    <3> HIDE DEF Kept
    <3> QED BY <2>1, <3>1
  <2> QED BY <2>2
<1>6. ASSUME NEW k \in 1 .. n, NEW j \in 1 .. 4 PROVE all[at(k - 1) + j] = Entry(exts[k])[j]
  <2>1. at(k - 1) + j \in 1 .. at(k)
    <3>1. /\ at(k) = at(k - 1) + 4 + exts[k].len /\ exts[k].len \in Nat
          /\ at(k - 1) \in Nat
      BY <1>2, <1>3, <1>4
    <3> HIDE DEF at
    <3> QED BY <3>1
  <2>2. k \in 0 .. n /\ k \in 1 .. n /\ j \in 1 .. 4
    BY <1>1
  <2>3. all[at(k - 1) + j] = up[k][at(k - 1) + j]
    <3>1. \A i \in 1 .. at(k) : up[n][i] = up[k][i]
      BY <1>5, <2>2
    <3> QED BY <1>1, <2>1, <3>1
  <2>4. up[k][at(k - 1) + j] = Entry(exts[k])[j]
    BY <1>4, <2>2
  <2> QED BY <2>3, <2>4
<1>7. at(0) = 0
  BY <1>1, EmptySeq
<1>8. all \in Seq(Nat)
  BY <1>1, <1>3
<1> QED BY <1>1, <1>3, <1>4, <1>5, <1>6, <1>7, <1>8 DEF n, up, all

-----------------------------------------------------------------------------
(* The walk over them                                                      *)

U16(m, i) == Byte(m, i) + 256 * Byte(m, i + 1)

WalkBody(m, it) ==
  [i \in Nat |-> IF i + 4 > DataLen(m) THEN FALSE
                 ELSE IF U16(m, i) = PermanentDelegate THEN TRUE
                 ELSE it[i + 4 + U16(m, i + 2)]]
Walk(m) == CHOOSE it : it = WalkBody(m, it)

\* The walk is the solution of its equation at the offset it starts from.
LEMMA WalkDef ==
  ASSUME NEW m, NEW start
  PROVE  DelegateFrom(m, start) = (DataLen(m) > 82 /\ Walk(m)[start])
BY Zenon DEF DelegateFrom, Walk, WalkBody, U16

\* What an account holds is bytes, as far as it goes.
LEMMA BytesOf ==
  ASSUME NEW m, IsTokenAccount(m)
  PROVE  /\ DataLen(m) \in Nat
         /\ \A i \in Nat : i < DataLen(m) => Byte(m, i) \in Nat
<1>1. m.exts \in Seq(ExtType) /\ m.decimals \in Nat /\ m.initialized \in BOOLEAN
      /\ m.kind \in {"mint", "account"}
  BY DEF IsTokenAccount
<1>2. Entries(m.exts) \in Seq(Nat)
  BY <1>1, EntriesLie
<1> DEFINE all == Entries(m.exts)
           l == Len(all)
<1>3. l \in Nat /\ \A j \in 1 .. l : all[j] \in Nat
  <2> HIDE DEF all
  <2> QED BY <1>2, LenProperties, ElementOfSeq DEF all
<1>4. BaseLen(m) \in {82, 165}
  BY DEF BaseLen
<1>5. DataLen(m) \in Nat /\ (DataLen(m) = BaseLen(m) \/ DataLen(m) = 166 + l)
  <2> HIDE DEF all
  <2>1. DataLen(m) = BaseLen(m) \/ DataLen(m) = 166 + l
    BY DEF DataLen, all
  <2> QED BY <1>3, <1>4, <2>1
<1>6. ASSUME NEW i \in Nat, i < DataLen(m) PROVE Byte(m, i) \in Nat
  <2>1. CASE i > 165
    <3>1. i - 165 \in 1 .. l
      <4> HIDE DEF l
      <4> QED BY <1>3, <1>4, <1>5, <1>6, <2>1
    <3>2. Byte(m, i) = all[i - 165]
      BY <2>1 DEF Byte
    <3> HIDE DEF all, l
    <3> QED BY <1>3, <3>1, <3>2
  <2>2. CASE ~(i > 165)
    <3>1. Byte(m, i) \in {m.decimals, 0, 1, 2}
      <4>1. i = 44 \/ i = 45 \/ i < 165 \/ i = 165
        BY <2>2
      <4> QED BY <4>1 DEF Byte
    <3> QED BY <1>1, <3>1
  <2> QED BY <2>1, <2>2
<1> QED BY <1>5, <1>6

\* There is a walk, since every step goes forward.
LEMMA WalkIs ==
  ASSUME NEW m, IsTokenAccount(m)
  PROVE  Walk(m) = WalkBody(m, Walk(m))
<1> DEFINE n == DataLen(m)
           next(i) == i + 4 + U16(m, i + 2)
           stop == [i \in 0 .. n |-> i + 4 > n \/ U16(m, i) = PermanentDelegate \/ next(i) > n]
           val == [i \in 0 .. n |-> IF i + 4 > n THEN FALSE
                                    ELSE IF U16(m, i) = PermanentDelegate THEN TRUE ELSE FALSE]
           nxt == [i \in 0 .. n |-> next(i)]
<1>1. n \in Nat /\ \A i \in Nat : i + 4 <= n => U16(m, i) \in Nat /\ U16(m, i + 2) \in Nat
  <2>1. n \in Nat /\ \A i \in Nat : i < n => Byte(m, i) \in Nat
    BY BytesOf
  <2> HIDE DEF n
  <2>2. ASSUME NEW i \in Nat, i + 4 <= n PROVE U16(m, i) \in Nat /\ U16(m, i + 2) \in Nat
    <3>1. i < n /\ i + 1 < n /\ i + 2 < n /\ i + 2 + 1 < n
      BY <2>1, <2>2
    <3>2. Byte(m, i) \in Nat /\ Byte(m, i + 1) \in Nat /\ Byte(m, i + 2) \in Nat
          /\ Byte(m, i + 2 + 1) \in Nat
      BY <2>1, <3>1
    <3> QED BY <3>2 DEF U16
  <2> QED BY <2>1, <2>2
<1>2. \A w \in 0 .. n : ~stop[w] => nxt[w] \in 0 .. n /\ w < nxt[w]
  <2> TAKE w \in 0 .. n
  <2> HAVE ~stop[w]
  <2>1. w \in Nat /\ w + 4 <= n /\ next(w) <= n
    <3> HIDE DEF next
    <3>1. ~(w + 4 > n) /\ ~(next(w) > n)
      OBVIOUS
    <3>2. w \in Nat
      BY <1>1
    <3>3. w + 4 <= n
      <4> HIDE DEF n
      <4> QED BY <1>1, <3>1, <3>2
    <3>4. next(w) \in Nat
      BY <1>1, <3>2, <3>3 DEF next
    <3> HIDE DEF n
    <3> QED BY <1>1, <3>1, <3>2, <3>3, <3>4
  <2>2. U16(m, w + 2) \in Nat
    BY <1>1, <2>1
  <2>3. nxt[w] = next(w)
    OBVIOUS
  <2> HIDE DEF nxt, stop, n
  <2> QED BY <1>1, <2>1, <2>2, <2>3
<1> HIDE DEF stop, val, nxt
<1>3. PICK it : it = Unfold(n, stop, val, nxt, it)
  <2> HIDE DEF n
  <2> QED BY <1>1, <1>2, Recursion
<1> DEFINE f == [i \in Nat |-> IF i <= n THEN it[i] ELSE FALSE]
<1>4. ASSUME NEW i \in 0 .. n
      PROVE  it[i] = IF stop[i] THEN val[i] ELSE it[nxt[i]]
  BY <1>3 DEF Unfold
<1>5. ASSUME NEW i \in Nat
      PROVE  f[i] = IF i + 4 > n THEN FALSE
                    ELSE IF U16(m, i) = PermanentDelegate THEN TRUE ELSE f[next(i)]
  <2>1. CASE i > n
    <3>1. f[i] = FALSE /\ i + 4 > n
      <4> HIDE DEF n
      <4> QED BY <1>1, <2>1
    <3> HIDE DEF f, n
    <3> QED BY <3>1
  <2>2. CASE i <= n /\ i + 4 > n
    <3>1. i \in 0 .. n
      <4> HIDE DEF n
      <4> QED BY <1>1, <2>2
    <3>2. stop[i] /\ val[i] = FALSE
      BY <2>2, <3>1 DEF stop, val
    <3>3. f[i] = it[i]
      BY <2>2
    <3> HIDE DEF f, n
    <3> QED BY <1>4, <2>2, <3>1, <3>2, <3>3
  <2>3. CASE i + 4 <= n /\ U16(m, i) = PermanentDelegate
    <3>1. i \in 0 .. n /\ i <= n /\ ~(i + 4 > n)
      <4> HIDE DEF n
      <4> QED BY <1>1, <2>3
    <3>2. stop[i] /\ val[i] = TRUE
      BY <2>3, <3>1 DEF stop, val
    <3>3. f[i] = it[i]
      BY <3>1
    <3> HIDE DEF f, n
    <3> QED BY <1>4, <2>3, <3>1, <3>2, <3>3
  <2>4. CASE i + 4 <= n /\ U16(m, i) # PermanentDelegate /\ next(i) > n
    <3>1. i \in 0 .. n /\ i <= n /\ ~(i + 4 > n)
      <4> HIDE DEF n
      <4> QED BY <1>1, <2>4
    <3>2. stop[i] /\ val[i] = FALSE
      BY <2>4, <3>1 DEF stop, val
    <3>3. f[i] = it[i]
      BY <3>1
    <3>4. next(i) \in Nat /\ ~(next(i) <= n)
      <4>1. next(i) \in Nat
        BY <1>1, <2>4
      <4> HIDE DEF next, n
      <4> QED BY <1>1, <2>4, <4>1
    <3>5. f[next(i)] = FALSE
      <4> HIDE DEF next, n
      <4> QED BY <3>4
    <3> HIDE DEF f, n, next
    <3> QED BY <1>4, <2>4, <3>1, <3>2, <3>3, <3>5
  <2>5. CASE i + 4 <= n /\ U16(m, i) # PermanentDelegate /\ next(i) <= n
    <3>1. i \in 0 .. n /\ i <= n /\ ~(i + 4 > n)
      <4> HIDE DEF n
      <4> QED BY <1>1, <2>5
    <3>2. ~(next(i) > n) /\ next(i) \in Nat
      <4>1. next(i) \in Nat
        BY <1>1, <2>5
      <4> HIDE DEF next, n
      <4> QED BY <1>1, <2>5, <4>1
    <3>3. ~stop[i] /\ nxt[i] = next(i)
      <4> HIDE DEF next, n
      <4> QED BY <2>5, <3>1, <3>2 DEF stop, nxt
    <3>4. f[i] = it[i] /\ f[next(i)] = it[next(i)]
      <4> HIDE DEF next, n
      <4> QED BY <2>5, <3>1, <3>2
    <3> HIDE DEF f, n, next
    <3> QED BY <1>4, <2>5, <3>1, <3>3, <3>4
  <2>6. i > n \/ i <= n
    <3> HIDE DEF n
    <3> QED BY <1>1
  <2>7. i + 4 > n \/ i + 4 <= n
    <3> HIDE DEF n
    <3> QED BY <1>1
  <2>8. i + 4 <= n => next(i) > n \/ next(i) <= n
    <3>1. ASSUME i + 4 <= n PROVE next(i) \in Nat
      <4>1. U16(m, i + 2) \in Nat
        BY <1>1, <3>1
      <4> QED BY <4>1
    <3> HIDE DEF n, next
    <3> QED BY <1>1, <3>1
  <2> HIDE DEF f, n, next
  <2> QED BY <2>1, <2>2, <2>3, <2>4, <2>5, <2>6, <2>7, <2>8, Zenon
<1>6. f = WalkBody(m, f)
  <2>1. f = [i \in Nat |-> f[i]]
    OBVIOUS
  <2> HIDE DEF f
  <2>2. [i \in Nat |-> f[i]] = WalkBody(m, f)
    BY <1>5, Zenon DEF WalkBody
  <2> QED BY <2>1, <2>2
<1> HIDE DEF f
<1> QED BY <1>6, Zenon DEF Walk

\* Behind the kind come the entries.
LEMMA Beyond ==
  ASSUME NEW m, NEW a \in Nat
  PROVE  /\ Byte(m, 166 + a) = Entries(m.exts)[a + 1]
         /\ Byte(m, 166 + a + 1) = Entries(m.exts)[a + 2]
         /\ Byte(m, 166 + a + 2) = Entries(m.exts)[a + 3]
         /\ Byte(m, 166 + a + 2 + 1) = Entries(m.exts)[a + 4]
<1>1. ASSUME NEW b \in Nat, b > 165 PROVE Byte(m, b) = Entries(m.exts)[b - 165]
  BY <1>1 DEF Byte
<1>2. PICK b \in Nat : b = 166 + a
  OBVIOUS
<1>3. /\ Byte(m, b) = Entries(m.exts)[b - 165]
      /\ Byte(m, b + 1) = Entries(m.exts)[b + 1 - 165]
      /\ Byte(m, b + 2) = Entries(m.exts)[b + 2 - 165]
      /\ Byte(m, b + 2 + 1) = Entries(m.exts)[b + 2 + 1 - 165]
  <2>1. /\ b > 165 /\ b + 1 > 165 /\ b + 2 > 165 /\ b + 2 + 1 > 165
        /\ b + 1 \in Nat /\ b + 2 \in Nat /\ b + 2 + 1 \in Nat
    BY <1>2
  <2> QED BY <1>1, <2>1
<1>4. /\ b - 165 = a + 1 /\ b + 1 - 165 = a + 2 /\ b + 2 - 165 = a + 3 /\ b + 2 + 1 - 165 = a + 4
  BY <1>2
<1> QED BY <1>2, <1>3, <1>4

\* From the place of one entry on, the walk finds the delegate's type if it is
\* that of an entry not passed yet.
LEMMA WalkFinds ==
  ASSUME NEW m, IsTokenAccount(m), m.exts # <<>>
  PROVE  Walk(m)[166] <=> Delegated(m)
<1> DEFINE n == Len(m.exts)
           up == EntriesUpTo(m.exts)
           all == Entries(m.exts)
           at(k) == Len(up[k])
           w == Walk(m)
           Left(k) == \E j \in k + 1 .. n : m.exts[j].type = PermanentDelegate
           Right(k) == w[166 + at(k)] <=> Left(k)
<1>1. m.exts \in Seq(ExtType) /\ n \in Nat /\ DOMAIN m.exts = 1 .. n
  BY LenProperties DEF IsTokenAccount
<1>2. \A k \in 1 .. n : m.exts[k] \in ExtType /\ m.exts[k].type \in Nat /\ m.exts[k].len \in Nat
  BY <1>1, ElementOfSeq, ExtNat
<1>3. /\ at(0) = 0 /\ at(n) = Len(all) /\ Len(all) \in Nat
      /\ \A k \in 0 .. n : at(k) \in Nat /\ at(k) <= Len(all)
      /\ \A k \in 1 .. n : /\ at(k) = at(k - 1) + 4 + m.exts[k].len
                           /\ \A j \in 1 .. 4 : all[at(k - 1) + j] = Entry(m.exts[k])[j]
  <2>1. /\ all \in Seq(Nat) /\ at(0) = 0 /\ at(n) = Len(all)
        /\ \A k \in 0 .. n : at(k) \in Nat /\ at(k) <= Len(all)
        /\ \A k \in 1 .. n : /\ at(k) = at(k - 1) + 4 + m.exts[k].len
                             /\ \A j \in 1 .. 4 : all[at(k - 1) + j] = Entry(m.exts[k])[j]
    BY <1>1, EntriesLie
  <2>2. Len(all) \in Nat
    BY <2>1, LenProperties
  <2> HIDE DEF all, n, up
  <2> QED BY <2>1, <2>2
<1>4. DataLen(m) = 166 + Len(all)
  BY DEF DataLen
<1>5. w = WalkBody(m, w)
  BY WalkIs
<1> HIDE DEF n, up, all, at, w
<1>6. ASSUME NEW i \in Nat
      PROVE  w[i] = IF i + 4 > 166 + Len(all) THEN FALSE
                    ELSE IF U16(m, i) = PermanentDelegate THEN TRUE
                    ELSE w[i + 4 + U16(m, i + 2)]
  BY <1>4, <1>5, Zenon DEF WalkBody
\* The end of the entries is the end of the data.
<1>7. Right(n)
  <2>1. 166 + at(n) \in Nat /\ 166 + at(n) + 4 > 166 + Len(all)
    BY <1>3
  <2>2. w[166 + at(n)] = FALSE
    BY <1>6, <2>1
  <2>3. ~Left(n)
    BY <1>1
  <2> HIDE DEF Left
  <2> QED BY <2>2, <2>3
\* At an entry, what is read is its type and its length.
<1>8. ASSUME NEW k \in 1 .. n
      PROVE  LET i == 166 + at(k - 1)
             IN /\ i \in Nat /\ ~(i + 4 > 166 + Len(all))
                /\ U16(m, i) = m.exts[k].type
                /\ i + 4 + U16(m, i + 2) = 166 + at(k)
  <2> DEFINE i == 166 + at(k - 1)
             e == m.exts[k]
  <2>1. k - 1 \in 0 .. n /\ k \in 0 .. n
    BY <1>1
  <2>2. /\ at(k - 1) \in Nat /\ at(k) \in Nat /\ at(k) <= Len(all)
        /\ at(k) = at(k - 1) + 4 + e.len /\ e.len \in Nat /\ e \in ExtType
    BY <1>2, <1>3, <2>1
  <2>3. \A j \in 1 .. 4 : all[at(k - 1) + j] = Entry(e)[j]
    BY <1>3
  <2>4. /\ Byte(m, i) = all[at(k - 1) + 1] /\ Byte(m, i + 1) = all[at(k - 1) + 2]
        /\ Byte(m, i + 2) = all[at(k - 1) + 3] /\ Byte(m, i + 2 + 1) = all[at(k - 1) + 4]
    BY <2>2, Beyond DEF all
  <2>5. /\ Byte(m, i) = Entry(e)[1] /\ Byte(m, i + 1) = Entry(e)[2]
        /\ Byte(m, i + 2) = Entry(e)[3] /\ Byte(m, i + 2 + 1) = Entry(e)[4]
    <3>1. 1 \in 1 .. 4 /\ 2 \in 1 .. 4 /\ 3 \in 1 .. 4 /\ 4 \in 1 .. 4
      OBVIOUS
    <3> HIDE DEF i, e
    <3> QED BY <2>3, <2>4, <3>1
  <2>6. Entry(e)[1] + 256 * Entry(e)[2] = e.type /\ Entry(e)[3] + 256 * Entry(e)[4] = e.len
    BY <2>2, EntryIs
  <2>7. U16(m, i) = e.type /\ U16(m, i + 2) = e.len
    <3> HIDE DEF i, e
    <3> QED BY <2>5, <2>6 DEF U16
  <2>8. i \in Nat /\ ~(i + 4 > 166 + Len(all)) /\ i + 4 + e.len = 166 + at(k)
    <3>1. Len(all) \in Nat
      BY <1>3
    <3> HIDE DEF e, all
    <3> QED BY SMTT(30), <2>2, <3>1
  <2> HIDE DEF i, e
  <2>9. i \in Nat /\ ~(i + 4 > 166 + Len(all)) /\ U16(m, i) = e.type /\
          i + 4 + U16(m, i + 2) = 166 + at(k)
    BY <2>7, <2>8
  <2> QED BY <2>9 DEF i, e
<1>9. ASSUME NEW k \in 1 .. n, Right(k) PROVE Right(k - 1)
  <2> DEFINE i == 166 + at(k - 1)
  <2>1. /\ i \in Nat /\ ~(i + 4 > 166 + Len(all)) /\ U16(m, i) = m.exts[k].type
        /\ i + 4 + U16(m, i + 2) = 166 + at(k)
    BY <1>8
  <2>2. Left(k - 1) <=> (m.exts[k].type = PermanentDelegate \/ Left(k))
    <3>1. \A j : j \in k - 1 + 1 .. n <=> j = k \/ j \in k + 1 .. n
      BY <1>1
    <3> QED BY <3>1
  <2> HIDE DEF i, Left
  <2>3. w[i] = IF m.exts[k].type = PermanentDelegate THEN TRUE ELSE w[166 + at(k)]
    BY <1>6, <2>1
  <2>4. w[i] <=> (m.exts[k].type = PermanentDelegate \/ w[166 + at(k)])
    BY <2>3
  <2>5. w[i] <=> Left(k - 1)
    BY <1>9, <2>2, <2>4
  <2> QED BY <2>5 DEF i
<1> HIDE DEF Right
<1>10. Right(0)
  <2> DEFINE Bad == {r \in 0 .. n : ~Right(n - r)}
  <2>1. Bad = {}
    <3>1. SUFFICES ASSUME Bad # {} PROVE FALSE
      OBVIOUS
    <3>2. PICK r \in Bad : \A q \in Bad : r <= q
      <4>1. Bad \subseteq Nat
        BY <1>1
      <4> HIDE DEF Bad
      <4> QED BY <3>1, <4>1, LeastOf
    <3>3. r \in 0 .. n /\ ~Right(n - r)
      OBVIOUS
    <3>4. r # 0
      <4>1. n - 0 = n
        BY <1>1
      <4> QED BY <1>7, <3>3, <4>1
    <3>5. r - 1 \in 0 .. n /\ r - 1 \notin Bad
      <4>1. r - 1 \in 0 .. n /\ ~(r <= r - 1)
        BY <1>1, <3>3, <3>4
      <4> HIDE DEF Bad
      <4> QED BY <3>2, <4>1
    <3>6. Right(n - (r - 1))
      BY <3>5
    <3>7. n - (r - 1) \in 1 .. n /\ n - (r - 1) - 1 = n - r
      BY <1>1, <3>3, <3>4
    <3>8. Right(n - (r - 1) - 1)
      BY <1>9, <3>6, <3>7
    <3> QED BY <3>3, <3>7, <3>8
  <2>2. n \in 0 .. n /\ n - n = 0
    BY <1>1
  <2> QED BY <2>1, <2>2
<1>11. w[166] <=> Left(0)
  <2>1. 166 + at(0) = 166
    BY <1>3
  <2> HIDE DEF Left
  <2> QED BY <1>10, <2>1 DEF Right
<1>12. Left(0) <=> Delegated(m)
  <2>1. \A j : j \in 0 + 1 .. n <=> j \in DOMAIN m.exts
    BY <1>1
  <2> QED BY <2>1 DEF Delegated
<1> HIDE DEF Left
<1> QED BY <1>11, <1>12 DEF w

\* What create_market accepts is a mint, initialized, and no delegate holds it;
\* and every such mint of a token program is accepted.
LEMMA AcceptedAre ==
  ASSUME NEW m, IsTokenAccount(m), m.program \in {"legacy", "2022"}
  PROVE  MintAccepted(m) <=> m.kind = "mint" /\ m.initialized /\ ~Delegated(m)
<1>1. /\ m.kind \in {"mint", "account"} /\ m.initialized \in BOOLEAN /\ m.exts \in Seq(ExtType)
      /\ m.program = "legacy" => m.exts = <<>>
  BY DEF IsTokenAccount
<1>2. (Byte(m, 45) # 0) <=> m.initialized
  BY <1>1 DEF Byte
<1>3. (Byte(m, MintTlvOffset - 1) = 1) <=> m.kind = "mint"
  BY <1>1 DEF Byte, MintTlvOffset
<1>4. CASE m.exts = <<>>
  <2>1. DataLen(m) = BaseLen(m)
    BY <1>4 DEF DataLen
  <2>2. ~Delegated(m)
    BY <1>4 DEF Delegated
  <2>3. CASE m.kind = "mint"
    <3>1. DataLen(m) = 82
      BY <2>1, <2>3 DEF BaseLen
    <3>2. MintReadable(m) <=> m.initialized
      BY <1>2, <3>1 DEF MintReadable
    <3>3. ~HasPermanentDelegate(m)
      <4>1. HasPermanentDelegate(m) = (DataLen(m) > 82 /\ Walk(m)[MintTlvOffset])
        BY WalkDef DEF HasPermanentDelegate
      <4>2. ~(DataLen(m) > 82)
        BY <3>1
      <4> QED BY <4>1, <4>2, Zenon
    <3> QED BY <2>2, <2>3, <3>2, <3>3 DEF MintAccepted, KnownProgram
  <2>4. CASE m.kind = "account"
    <3>1. DataLen(m) = 165
      BY <2>1, <2>4 DEF BaseLen
    <3>2. ~MintReadable(m)
      BY <3>1 DEF MintReadable, MintTlvOffset
    <3> QED BY <2>4, <3>2 DEF MintAccepted
  <2> QED BY <1>1, <2>3, <2>4
<1>5. CASE m.exts # <<>>
  <2>1. Len(Entries(m.exts)) \in Nat /\ DataLen(m) = 166 + Len(Entries(m.exts))
    <3>1. Entries(m.exts) \in Seq(Nat)
      BY <1>1, EntriesLie
    <3> QED BY <1>5, <3>1, LenProperties DEF DataLen
  <2>2. DataLen(m) > 82 /\ DataLen(m) >= 82 /\ DataLen(m) > MintTlvOffset - 1
    BY <2>1 DEF MintTlvOffset
  <2>3. m.program = "2022"
    BY <1>1, <1>5
  <2>4. MintReadable(m) <=> m.initialized /\ m.kind = "mint"
    <3> HIDE DEF MintTlvOffset
    <3> QED BY <1>2, <1>3, <2>2, <2>3 DEF MintReadable
  <2>5. HasPermanentDelegate(m) <=> Delegated(m)
    <3>1. HasPermanentDelegate(m) = (DataLen(m) > 82 /\ Walk(m)[166])
      BY WalkDef DEF HasPermanentDelegate, MintTlvOffset
    <3>2. Walk(m)[166] <=> Delegated(m)
      BY <1>5, WalkFinds
    <3> QED BY <2>2, <3>1, <3>2
  <2> QED BY <2>3, <2>4, <2>5 DEF MintAccepted, KnownProgram
<1> QED BY <1>4, <1>5

-----------------------------------------------------------------------------
(* Mints no delegate holds                                                 *)

\* Every mint create_market accepted is one, and no delegate holds it.
LEMMA AcceptedIsSafe ==
  ASSUME NEW mint \in AcceptedMints
  PROVE  /\ MintData[mint].kind = "mint" /\ MintData[mint].initialized
         /\ ~Delegated(MintData[mint])
<1>1. IsTokenAccount(MintData[mint]) /\ MintAccepted(MintData[mint])
  BY VenueAssumption DEF AcceptedMints
<1>2. MintData[mint].program \in {"legacy", "2022"}
  BY <1>1 DEF MintAccepted, KnownProgram
<1> QED BY <1>1, <1>2, AcceptedAre

\* No market trades a mint whose delegate could empty its vaults, whatever
\* extensions its mints carry.
THEOREM MintsAlwaysSafe == Spec => []MintsSafe
<1>1. ASSUME IInv PROVE MintsSafe
  <2>1. \A m \in MarketKeys : Exists(m) =>
          markets[m].base \in AcceptedMints /\ markets[m].quote \in AcceptedMints
    BY <1>1 DEF IInv, TermsFit
  <2> QED BY <2>1, AcceptedIsSafe DEF MintsSafe
<1> QED BY <1>1, IInvHolds, PTL

-----------------------------------------------------------------------------
(* Packed arguments                                                        *)

FieldNames ==
  {"amount_in", "anchor_tick", "ask_count", "base_atoms", "base_lot_size",
   "bid_count", "expiry_slot", "fee_bps", "flags", "limit_tick", "lots",
   "market_authority", "max_count", "max_levels", "max_lots",
   "max_lots_per_order", "min_out", "node_index", "order_seq", "quote_atoms",
   "seat_authority", "seat_index", "side", "start_tick", "target_anchor",
   "tick", "tick_size"}
Arg == [field : FieldNames, width : Nat]

\* Sums of the widths, before and behind each argument.
Totals(args, it) ==
  /\ it \in [0 .. Len(args) -> Nat] /\ it[0] = 0
  /\ \A j \in 1 .. Len(args) : it[j] = it[j - 1] + args[j].width

OffBody(args, it) ==
  [j \in 1 .. Len(args) |-> IF j = 1 THEN 0 ELSE it[j - 1] + args[j - 1].width]
Off(args) == CHOOSE it : it = OffBody(args, it)

\* The offset of an argument is the solution of its equation there.
LEMMA AtDef == ASSUME NEW args, NEW k PROVE At(args, k) = Off(args)[k]
BY Zenon DEF At, Off, OffBody

\* Each argument starts behind those before it.
LEMMA Starts ==
  ASSUME NEW args \in Seq(Arg)
  PROVE  \E it : Totals(args, it) /\ \A k \in 1 .. Len(args) : At(args, k) = it[k - 1]
<1> DEFINE n == Len(args)
           x == [k \in 1 .. n |-> args[k].width]
           plus == [p \in Nat \X Nat |-> p[1] + p[2]]
           Sum(it) == Accumulates(it, n, Nat, plus, 0, x)
           off == Off(args)
<1>1. n \in Nat /\ \A k \in 1 .. n : args[k] \in Arg /\ args[k].width \in Nat
  <2>1. n \in Nat /\ \A k \in 1 .. n : args[k] \in Arg
    BY ElementOfSeq, LenProperties
  <2> QED BY <2>1 DEF Arg
<1>2. x \in [1 .. n -> Nat] /\ plus \in [Nat \X Nat -> Nat] /\ 0 \in Nat
  BY <1>1
<1> HIDE DEF n, x
<1>3. PICK it : Sum(it)
  <2> HIDE DEF plus
  <2> QED BY <1>1, <1>2, Accumulation
<1>4. /\ it \in [0 .. n -> Nat] /\ it[0] = 0
      /\ \A j \in 1 .. n : it[j] = it[j - 1] + args[j].width
  <2>1. /\ it \in [0 .. n -> Nat] /\ it[0] = 0
        /\ \A j \in 1 .. n : it[j] = plus[<<it[j - 1], x[j]>>]
    <3> HIDE DEF plus
    <3> QED BY <1>3 DEF Accumulates
  <2>2. ASSUME NEW j \in 1 .. n PROVE it[j] = it[j - 1] + args[j].width
    <3>1. j - 1 \in 0 .. n
      BY <1>1
    <3>2. it[j - 1] \in Nat /\ x[j] \in Nat /\ x[j] = args[j].width
      BY <1>2, <2>1, <3>1 DEF x
    <3>3. plus[<<it[j - 1], x[j]>>] = it[j - 1] + x[j]
      BY <3>2
    <3> QED BY <2>1, <3>2, <3>3
  <2> QED BY <2>1, <2>2
<1> HIDE DEF plus
<1> DEFINE f == [j \in 1 .. n |-> it[j - 1]]
<1>5. f = OffBody(args, f)
  <2>1. ASSUME NEW j \in 1 .. n
        PROVE  f[j] = IF j = 1 THEN 0 ELSE f[j - 1] + args[j - 1].width
    <3>1. CASE j = 1
      BY <1>4, <3>1
    <3>2. CASE j # 1
      <4>1. j - 1 \in 1 .. n
        BY <1>1, <3>2
      <4>2. f[j] = it[j - 1] /\ f[j - 1] = it[j - 1 - 1]
        BY <4>1
      <4> HIDE DEF f
      <4> QED BY <1>4, <3>2, <4>1, <4>2
    <3> QED BY <3>1, <3>2
  <2>2. f = [j \in 1 .. n |-> f[j]]
    OBVIOUS
  <2> HIDE DEF f
  <2>3. f = [j \in 1 .. n |-> IF j = 1 THEN 0 ELSE f[j - 1] + args[j - 1].width]
    BY <2>1, <2>2, Zenon
  <2> QED BY <2>3 DEF OffBody, n
<1> HIDE DEF f
<1>6. off = OffBody(args, off)
  BY <1>5, Zenon DEF Off
<1> HIDE DEF off
<1>7. \A j \in 1 .. n : off[j] = IF j = 1 THEN 0 ELSE off[j - 1] + args[j - 1].width
  BY <1>6, Zenon DEF OffBody, n
<1>8. \A j \in 1 .. n : off[j] = it[j - 1]
  <2> DEFINE Bad == {j \in 1 .. n : off[j] # it[j - 1]}
  <2>1. SUFFICES ASSUME Bad # {} PROVE FALSE
    OBVIOUS
  <2>2. PICK r \in Bad : \A q \in Bad : r <= q
    <3>1. Bad \subseteq Nat
      BY <1>1
    <3> HIDE DEF Bad
    <3> QED BY <2>1, <3>1, LeastOf
  <2>3. r \in 1 .. n /\ off[r] # it[r - 1]
    OBVIOUS
  <2>4. r # 1
    BY <1>4, <1>7, <2>3
  <2>5. r - 1 \in 1 .. n /\ r - 1 \notin Bad
    <3>1. r - 1 \in 1 .. n /\ ~(r <= r - 1)
      BY <1>1, <2>3, <2>4
    <3> HIDE DEF Bad
    <3> QED BY <2>2, <3>1
  <2>6. off[r - 1] = it[r - 1 - 1]
    BY <2>5
  <2> QED BY <1>4, <1>7, <2>3, <2>4, <2>5, <2>6
<1>9. \A k \in 1 .. n : At(args, k) = it[k - 1]
  BY <1>8, AtDef DEF off
<1>10. Totals(args, it)
  BY <1>4 DEF Totals, n
<1> QED BY <1>9, <1>10 DEF n

\* The sums are determined.
LEMMA TotalsUnique ==
  ASSUME NEW args \in Seq(Arg), NEW it, Totals(args, it), NEW n \in 0 .. Len(args), NEW jt,
         jt[0] = 0, \A j \in 1 .. n : jt[j] = jt[j - 1] + args[j].width
  PROVE  \A j \in 0 .. n : jt[j] = it[j]
<1>1. Len(args) \in Nat
  BY LenProperties
<1>2. n \in Nat /\ \A j \in 1 .. n : j \in 1 .. Len(args)
  BY <1>1
<1> DEFINE Bad == {j \in 0 .. n : jt[j] # it[j]}
<1>3. SUFFICES ASSUME Bad # {} PROVE FALSE
  OBVIOUS
<1>4. PICK r \in Bad : \A q \in Bad : r <= q
  <2>1. Bad \subseteq Nat
    BY <1>2
  <2> HIDE DEF Bad
  <2> QED BY <1>3, <2>1, LeastOf
<1>5. r \in 0 .. n /\ jt[r] # it[r]
  OBVIOUS
<1>6. r # 0
  BY <1>5 DEF Totals
<1>7. r - 1 \in 0 .. n /\ r \in 1 .. n /\ r - 1 \notin Bad
  <2>1. r - 1 \in 0 .. n /\ r \in 1 .. n /\ ~(r <= r - 1)
    BY <1>2, <1>5, <1>6
  <2> HIDE DEF Bad
  <2> QED BY <1>4, <2>1
<1>8. jt[r - 1] = it[r - 1]
  BY <1>7
<1>9. it[r] = it[r - 1] + args[r].width
  BY <1>2, <1>7 DEF Totals
<1> QED BY <1>5, <1>7, <1>8, <1>9

PackedAs(args, fields, len) ==
  args \in Seq(Arg) /\ Spans(args) = fields /\ Width(args) = len

\* What is packed is as long as its sums say.
LEMMA WidthIs ==
  ASSUME NEW args \in Seq(Arg), NEW it, Totals(args, it)
  PROVE  Width(args) = it[Len(args)] /\ \A k \in 1 .. Len(args) : At(args, k) = it[k - 1]
<1>1. Len(args) \in Nat /\ (Len(args) = 0 <=> args = <<>>)
  BY LenProperties, EmptySeq
<1>2. PICK jt : Totals(args, jt) /\ \A k \in 1 .. Len(args) : At(args, k) = jt[k - 1]
  BY Starts
<1>3. \A j \in 0 .. Len(args) : jt[j] = it[j]
  <2>1. Len(args) \in 0 .. Len(args)
    BY <1>1
  <2>2. jt[0] = 0 /\ \A j \in 1 .. Len(args) : jt[j] = jt[j - 1] + args[j].width
    BY <1>2 DEF Totals
  <2> QED BY <2>1, <2>2, TotalsUnique
<1>4. \A k \in 1 .. Len(args) : At(args, k) = it[k - 1]
  <2>1. \A k \in 1 .. Len(args) : k - 1 \in 0 .. Len(args)
    BY <1>1
  <2> QED BY <1>2, <1>3, <2>1
<1>5. CASE args = <<>>
  BY <1>1, <1>4, <1>5 DEF Width, Totals
<1>6. CASE args # <<>>
  <2>1. Len(args) \in 1 .. Len(args)
    BY <1>1, <1>6
  <2> QED BY <1>4, <1>6, <2>1 DEF Width, Totals
<1> QED BY <1>4, <1>5, <1>6

\* Nothing packed.
LEMMA PackedNone == PackedAs(<<>>, {}, 0)
BY EmptySeq DEF PackedAs, Spans, Width

\* A sequence is another with one element more.
Grown(args, more, u) ==
  /\ more \in Seq(Arg) /\ Len(more) = Len(args) + 1 /\ more[Len(args) + 1] = u
  /\ \A i \in 1 .. Len(args) : more[i] = args[i]

\* One argument more lies behind the rest.
LEMMA PackedMore ==
  ASSUME NEW args, NEW fields, NEW len, PackedAs(args, fields, len), NEW u \in Arg,
         NEW more, Grown(args, more, u)
  PROVE  PackedAs(more, fields \cup {F(u.field, len, u.width)}, len + u.width)
<1> DEFINE n == Len(args)
<1>1. args \in Seq(Arg) /\ Spans(args) = fields /\ Width(args) = len
  BY DEF PackedAs
<1>2. /\ n \in Nat /\ more \in Seq(Arg) /\ Len(more) = n + 1 /\ DOMAIN more = 1 .. n + 1
      /\ DOMAIN args = 1 .. n
      /\ \A i \in 1 .. n : more[i] = args[i]
      /\ more[n + 1] = u
  <2>1. n \in Nat /\ DOMAIN args = 1 .. n /\ DOMAIN more = 1 .. Len(more)
    BY <1>1, LenProperties DEF Grown
  <2> QED BY <2>1 DEF Grown
<1>3. u.width \in Nat
  BY DEF Arg
<1> HIDE DEF n
<1>4. PICK it : Totals(more, it)
  BY <1>2, Starts
<1>5. /\ it \in [0 .. n + 1 -> Nat] /\ it[0] = 0
      /\ \A j \in 1 .. n + 1 : it[j] = it[j - 1] + more[j].width
  BY <1>2, <1>4 DEF Totals
<1> DEFINE jt == [j \in 0 .. n |-> it[j]]
<1>6. Totals(args, jt)
  <2>1. jt \in [0 .. n -> Nat] /\ jt[0] = 0
    BY <1>2, <1>5
  <2>2. ASSUME NEW j \in 1 .. n PROVE jt[j] = jt[j - 1] + args[j].width
    <3>1. j \in 0 .. n /\ j - 1 \in 0 .. n /\ j \in 1 .. n + 1
      BY <1>2
    <3>2. jt[j] = it[j] /\ jt[j - 1] = it[j - 1]
      BY <3>1
    <3> HIDE DEF jt
    <3> QED BY <1>2, <1>5, <3>1, <3>2
  <2> HIDE DEF jt
  <2> QED BY <2>1, <2>2 DEF Totals, n
<1>7. len = jt[n] /\ \A k \in 1 .. n : At(args, k) = jt[k - 1]
  <2> HIDE DEF jt
  <2> QED BY <1>1, <1>6, WidthIs DEF n
<1>8. len = it[n] /\ \A k \in 1 .. n : At(args, k) = it[k - 1]
  <2>1. n \in 0 .. n /\ \A k \in 1 .. n : k - 1 \in 0 .. n
    BY <1>2
  <2>2. \A j \in 0 .. n : jt[j] = it[j]
    OBVIOUS
  <2> HIDE DEF jt
  <2> QED BY <1>7, <2>1, <2>2
<1>9. Width(more) = it[n + 1] /\ \A k \in 1 .. n + 1 : At(more, k) = it[k - 1]
  BY <1>2, <1>4, WidthIs
<1>10. it[n + 1] = len + u.width /\ At(more, n + 1) = len
  <2>1. n + 1 \in 1 .. n + 1 /\ n + 1 - 1 = n
    BY <1>2
  <2> QED BY <1>2, <1>5, <1>8, <1>9, <2>1
<1>11. \A k \in 1 .. n : At(more, k) = At(args, k)
  <2>1. \A k \in 1 .. n : k \in 1 .. n + 1
    BY <1>2
  <2> QED BY <1>8, <1>9, <2>1
<1> DEFINE span(s, k) == [field |-> s[k].field, at |-> At(s, k), width |-> s[k].width]
<1>12. Spans(more) = fields \cup {F(u.field, len, u.width)}
  <2>1. Spans(more) = {span(more, k) : k \in 1 .. n + 1} /\ fields = {span(args, k) : k \in 1 .. n}
    BY <1>1, <1>2 DEF Spans
  <2>2. \A k \in 1 .. n : span(more, k) = span(args, k)
    BY <1>2, <1>11
  <2>3. span(more, n + 1) = F(u.field, len, u.width)
    BY <1>2, <1>10 DEF F
  <2>4. 1 .. n + 1 = (1 .. n) \cup {n + 1}
    BY <1>2
  <2> HIDE DEF span
  <2> QED BY <2>1, <2>2, <2>3, <2>4
<1> QED BY <1>2, <1>9, <1>10, <1>12 DEF PackedAs

\* A tuple is the one before with one element more.
LEMMA Grown1 ==
  ASSUME NEW a \in Arg
  PROVE  Grown(<<>>, <<a>>, a)
<1> DEFINE args == <<>>
           more == <<a>>
<1>1. Len(args) = 0 /\ Len(more) = 1 /\ more \in Seq(Arg) /\ more[1] = a
  OBVIOUS
<1> HIDE DEF args, more
<1>2. Grown(args, more, a)
  BY <1>1 DEF Grown
<1> QED BY <1>2 DEF args, more

\* Two elements.
LEMMA Grown2 ==
  ASSUME NEW a \in Arg, NEW b \in Arg
  PROVE  Grown(<<a>>, <<a, b>>, b)
<1> DEFINE args == <<a>>
           more == <<a, b>>
<1>1. Len(args) = 1 /\ Len(more) = 2 /\ more \in Seq(Arg) /\ more[2] = b
  OBVIOUS
<1>2. more[1] = args[1]
  OBVIOUS
<1>3. \A i \in 1 .. 1 : i = 1
  OBVIOUS
<1> HIDE DEF args, more
<1>4. Grown(args, more, b)
  BY <1>1, <1>2, <1>3 DEF Grown
<1> QED BY <1>4 DEF args, more

\* Three elements.
LEMMA Grown3 ==
  ASSUME NEW a \in Arg, NEW b \in Arg, NEW c \in Arg
  PROVE  Grown(<<a, b>>, <<a, b, c>>, c)
<1> DEFINE args == <<a, b>>
           more == <<a, b, c>>
<1>1. Len(args) = 2 /\ Len(more) = 3 /\ more \in Seq(Arg) /\ more[3] = c
  OBVIOUS
<1>2. more[1] = args[1] /\ more[2] = args[2]
  OBVIOUS
<1>3. \A i \in 1 .. 2 : i = 1 \/ i = 2
  OBVIOUS
<1> HIDE DEF args, more
<1>4. Grown(args, more, c)
  BY <1>1, <1>2, <1>3 DEF Grown
<1> QED BY <1>4 DEF args, more

\* Four elements.
LEMMA Grown4 ==
  ASSUME NEW a \in Arg, NEW b \in Arg, NEW c \in Arg, NEW d \in Arg
  PROVE  Grown(<<a, b, c>>, <<a, b, c, d>>, d)
<1> DEFINE args == <<a, b, c>>
           more == <<a, b, c, d>>
<1>1. Len(args) = 3 /\ Len(more) = 4 /\ more \in Seq(Arg) /\ more[4] = d
  OBVIOUS
<1>2. more[1] = args[1] /\ more[2] = args[2] /\ more[3] = args[3]
  OBVIOUS
<1>3. \A i \in 1 .. 3 : i = 1 \/ i = 2 \/ i = 3
  OBVIOUS
<1> HIDE DEF args, more
<1>4. Grown(args, more, d)
  BY <1>1, <1>2, <1>3 DEF Grown
<1> QED BY <1>4 DEF args, more

\* Five elements.
LEMMA Grown5 ==
  ASSUME NEW a \in Arg, NEW b \in Arg, NEW c \in Arg, NEW d \in Arg, NEW e \in Arg
  PROVE  Grown(<<a, b, c, d>>, <<a, b, c, d, e>>, e)
<1> DEFINE args == <<a, b, c, d>>
           more == <<a, b, c, d, e>>
<1>1. Len(args) = 4 /\ Len(more) = 5 /\ more \in Seq(Arg) /\ more[5] = e
  OBVIOUS
<1>2. more[1] = args[1] /\ more[2] = args[2] /\ more[3] = args[3] /\ more[4] = args[4]
  OBVIOUS
<1>3. \A i \in 1 .. 4 : i = 1 \/ i = 2 \/ i = 3 \/ i = 4
  OBVIOUS
<1> HIDE DEF args, more
<1>4. Grown(args, more, e)
  BY <1>1, <1>2, <1>3 DEF Grown
<1> QED BY <1>4 DEF args, more

\* Six elements.
LEMMA Grown6 ==
  ASSUME NEW a \in Arg, NEW b \in Arg, NEW c \in Arg, NEW d \in Arg, NEW e \in Arg, NEW f \in Arg
  PROVE  Grown(<<a, b, c, d, e>>, <<a, b, c, d, e, f>>, f)
<1> DEFINE args == <<a, b, c, d, e>>
           more == <<a, b, c, d, e, f>>
<1>1. Len(args) = 5 /\ Len(more) = 6 /\ more \in Seq(Arg) /\ more[6] = f
  OBVIOUS
<1>2. more[1] = args[1] /\ more[2] = args[2] /\ more[3] = args[3] /\
        more[4] = args[4] /\ more[5] = args[5]
  OBVIOUS
<1>3. \A i \in 1 .. 5 : i = 1 \/ i = 2 \/ i = 3 \/ i = 4 \/ i = 5
  OBVIOUS
<1> HIDE DEF args, more
<1>4. Grown(args, more, f)
  BY <1>1, <1>2, <1>3 DEF Grown
<1> QED BY <1>4 DEF args, more

\* One argument more, by its name and width.
LEMMA PackedField ==
  ASSUME NEW args, NEW fields, NEW len, PackedAs(args, fields, len),
         NEW name \in FieldNames, NEW w \in Nat, NEW more, Grown(args, more, U(name, w))
  PROVE  PackedAs(more, fields \cup {F(name, len, w)}, len + w)
<1>1. U(name, w) \in Arg /\ U(name, w).field = name /\ U(name, w).width = w
  BY DEF U, Arg
<1> QED BY <1>1, PackedMore

\* A field and a width make an argument.
LEMMA ArgIs == \A name \in FieldNames, w \in Nat : U(name, w) \in Arg
BY DEF U, Arg

\* Arguments one after the other, each at an offset that is the last one's and
\* its width.
LEMMA Packed1 ==
  ASSUME NEW n1 \in FieldNames, NEW w1 \in Nat, NEW o1, o1 = w1
  PROVE  PackedAs(<<U(n1, w1)>>,
           {F(n1, 0, w1)}, o1)
<1> DEFINE args == <<>>
           more == <<U(n1, w1)>>
           fields == {}
<1>1. PackedAs(args, fields, 0)
  BY PackedNone
<1>2. Grown(args, more, U(n1, w1))
  <2>1. U(n1, w1) \in Arg
    BY ArgIs
  <2> QED BY <2>1, Grown1
<1>3. fields \cup {F(n1, 0, w1)} = {F(n1, 0, w1)} /\ 0 + w1 = o1
  OBVIOUS
<1> HIDE DEF args, more, fields
<1>4. PackedAs(more, fields \cup {F(n1, 0, w1)}, 0 + w1)
  BY <1>1, <1>2, PackedField
<1> QED BY <1>3, <1>4 DEF more

\* Two arguments.
LEMMA Packed2 ==
  ASSUME NEW n1 \in FieldNames, NEW w1 \in Nat, NEW o1, o1 = w1,
         NEW n2 \in FieldNames, NEW w2 \in Nat, NEW o2, o2 = o1 + w2
  PROVE  PackedAs(<<U(n1, w1), U(n2, w2)>>,
           {F(n1, 0, w1), F(n2, o1, w2)}, o2)
<1> DEFINE args == <<U(n1, w1)>>
           more == <<U(n1, w1), U(n2, w2)>>
           fields == {F(n1, 0, w1)}
<1>1. PackedAs(args, fields, o1)
  BY Packed1
<1>2. Grown(args, more, U(n2, w2))
  <2>1. U(n1, w1) \in Arg /\ U(n2, w2) \in Arg
    BY ArgIs
  <2> QED BY <2>1, Grown2
<1>3. fields \cup {F(n2, o1, w2)} = {F(n1, 0, w1), F(n2, o1, w2)} /\ o1 + w2 = o2
  OBVIOUS
<1> HIDE DEF args, more, fields
<1>4. PackedAs(more, fields \cup {F(n2, o1, w2)}, o1 + w2)
  BY <1>1, <1>2, PackedField
<1> QED BY <1>3, <1>4 DEF more

\* Three arguments.
LEMMA Packed3 ==
  ASSUME NEW n1 \in FieldNames, NEW w1 \in Nat, NEW o1, o1 = w1,
         NEW n2 \in FieldNames, NEW w2 \in Nat, NEW o2, o2 = o1 + w2,
         NEW n3 \in FieldNames, NEW w3 \in Nat, NEW o3, o3 = o2 + w3
  PROVE  PackedAs(<<U(n1, w1), U(n2, w2), U(n3, w3)>>,
           {F(n1, 0, w1), F(n2, o1, w2), F(n3, o2, w3)}, o3)
<1> DEFINE args == <<U(n1, w1), U(n2, w2)>>
           more == <<U(n1, w1), U(n2, w2), U(n3, w3)>>
           fields == {F(n1, 0, w1), F(n2, o1, w2)}
<1>1. PackedAs(args, fields, o2)
  BY Packed2
<1>2. Grown(args, more, U(n3, w3))
  <2>1. U(n1, w1) \in Arg /\ U(n2, w2) \in Arg /\ U(n3, w3) \in Arg
    BY ArgIs
  <2> QED BY <2>1, Grown3
<1>3. fields \cup {F(n3, o2, w3)} = {F(n1, 0, w1), F(n2, o1, w2), F(n3, o2, w3)} /\ o2 + w3 = o3
  OBVIOUS
<1> HIDE DEF args, more, fields
<1>4. PackedAs(more, fields \cup {F(n3, o2, w3)}, o2 + w3)
  BY <1>1, <1>2, PackedField
<1> QED BY <1>3, <1>4 DEF more

\* Four arguments.
LEMMA Packed4 ==
  ASSUME NEW n1 \in FieldNames, NEW w1 \in Nat, NEW o1, o1 = w1,
         NEW n2 \in FieldNames, NEW w2 \in Nat, NEW o2, o2 = o1 + w2,
         NEW n3 \in FieldNames, NEW w3 \in Nat, NEW o3, o3 = o2 + w3,
         NEW n4 \in FieldNames, NEW w4 \in Nat, NEW o4, o4 = o3 + w4
  PROVE  PackedAs(<<U(n1, w1), U(n2, w2), U(n3, w3), U(n4, w4)>>,
           {F(n1, 0, w1), F(n2, o1, w2), F(n3, o2, w3), F(n4, o3, w4)}, o4)
<1> DEFINE args == <<U(n1, w1), U(n2, w2), U(n3, w3)>>
           more == <<U(n1, w1), U(n2, w2), U(n3, w3), U(n4, w4)>>
           fields == {F(n1, 0, w1), F(n2, o1, w2), F(n3, o2, w3)}
<1>1. PackedAs(args, fields, o3)
  BY Packed3
<1>2. Grown(args, more, U(n4, w4))
  <2>1. U(n1, w1) \in Arg /\ U(n2, w2) \in Arg /\ U(n3, w3) \in Arg /\ U(n4, w4) \in Arg
    BY ArgIs
  <2> QED BY <2>1, Grown4
<1>3. fields \cup {F(n4, o3, w4)} = {F(n1, 0, w1), F(n2, o1, w2), F(n3, o2, w3),
        F(n4, o3, w4)} /\ o3 + w4 = o4
  OBVIOUS
<1> HIDE DEF args, more, fields
<1>4. PackedAs(more, fields \cup {F(n4, o3, w4)}, o3 + w4)
  BY <1>1, <1>2, PackedField
<1> QED BY <1>3, <1>4 DEF more

\* Five arguments.
LEMMA Packed5 ==
  ASSUME NEW n1 \in FieldNames, NEW w1 \in Nat, NEW o1, o1 = w1,
         NEW n2 \in FieldNames, NEW w2 \in Nat, NEW o2, o2 = o1 + w2,
         NEW n3 \in FieldNames, NEW w3 \in Nat, NEW o3, o3 = o2 + w3,
         NEW n4 \in FieldNames, NEW w4 \in Nat, NEW o4, o4 = o3 + w4,
         NEW n5 \in FieldNames, NEW w5 \in Nat, NEW o5, o5 = o4 + w5
  PROVE  PackedAs(<<U(n1, w1), U(n2, w2), U(n3, w3), U(n4, w4), U(n5, w5)>>,
           {F(n1, 0, w1), F(n2, o1, w2), F(n3, o2, w3), F(n4, o3, w4), F(n5, o4, w5)}, o5)
<1> DEFINE args == <<U(n1, w1), U(n2, w2), U(n3, w3), U(n4, w4)>>
           more == <<U(n1, w1), U(n2, w2), U(n3, w3), U(n4, w4), U(n5, w5)>>
           fields == {F(n1, 0, w1), F(n2, o1, w2), F(n3, o2, w3), F(n4, o3, w4)}
<1>1. PackedAs(args, fields, o4)
  BY Packed4
<1>2. Grown(args, more, U(n5, w5))
  <2>1. U(n1, w1) \in Arg /\ U(n2, w2) \in Arg /\ U(n3, w3) \in Arg /\
          U(n4, w4) \in Arg /\ U(n5, w5) \in Arg
    BY ArgIs
  <2> QED BY <2>1, Grown5
<1>3. fields \cup {F(n5, o4, w5)} = {F(n1, 0, w1), F(n2, o1, w2), F(n3, o2, w3),
        F(n4, o3, w4), F(n5, o4, w5)} /\ o4 + w5 = o5
  OBVIOUS
<1> HIDE DEF args, more, fields
<1>4. PackedAs(more, fields \cup {F(n5, o4, w5)}, o4 + w5)
  BY <1>1, <1>2, PackedField
<1> QED BY <1>3, <1>4 DEF more

\* Six arguments.
LEMMA Packed6 ==
  ASSUME NEW n1 \in FieldNames, NEW w1 \in Nat, NEW o1, o1 = w1,
         NEW n2 \in FieldNames, NEW w2 \in Nat, NEW o2, o2 = o1 + w2,
         NEW n3 \in FieldNames, NEW w3 \in Nat, NEW o3, o3 = o2 + w3,
         NEW n4 \in FieldNames, NEW w4 \in Nat, NEW o4, o4 = o3 + w4,
         NEW n5 \in FieldNames, NEW w5 \in Nat, NEW o5, o5 = o4 + w5,
         NEW n6 \in FieldNames, NEW w6 \in Nat, NEW o6, o6 = o5 + w6
  PROVE  PackedAs(<<U(n1, w1), U(n2, w2), U(n3, w3), U(n4, w4), U(n5, w5), U(n6, w6)>>,
           {F(n1, 0, w1), F(n2, o1, w2), F(n3, o2, w3), F(n4, o3, w4), F(n5, o4, w5), F(n6, o5, w6)}, o6)
<1> DEFINE args == <<U(n1, w1), U(n2, w2), U(n3, w3), U(n4, w4), U(n5, w5)>>
           more == <<U(n1, w1), U(n2, w2), U(n3, w3), U(n4, w4), U(n5, w5), U(n6, w6)>>
           fields == {F(n1, 0, w1), F(n2, o1, w2), F(n3, o2, w3), F(n4, o3, w4), F(n5, o4, w5)}
<1>1. PackedAs(args, fields, o5)
  BY Packed5
<1>2. Grown(args, more, U(n6, w6))
  <2>1. U(n1, w1) \in Arg /\ U(n2, w2) \in Arg /\ U(n3, w3) \in Arg /\
          U(n4, w4) \in Arg /\ U(n5, w5) \in Arg /\ U(n6, w6) \in Arg
    BY ArgIs
  <2> QED BY <2>1, Grown6
<1>3. fields \cup {F(n6, o5, w6)} = {F(n1, 0, w1), F(n2, o1, w2), F(n3, o2, w3),
        F(n4, o3, w4), F(n5, o4, w5), F(n6, o5, w6)} /\ o5 + w6 = o6
  OBVIOUS
<1> HIDE DEF args, more, fields
<1>4. PackedAs(more, fields \cup {F(n6, o5, w6)}, o5 + w6)
  BY <1>1, <1>2, PackedField
<1> QED BY <1>3, <1>4 DEF more

\* A call whose arguments are packed as its handler reads them is understood.
LEMMA PackedUnderstood ==
  ASSUME NEW call, NEW handler, NEW layout, Dispatch(call.disc) = handler,
         PackedAs(call.args, layout.fields, layout.len)
  PROVE  Understood(call, handler, layout)
BY DEF Understood, PackedAs

\* Every call but mass_quote's is understood: its handler is dispatched to and
\* reads each argument where the client has put it.
LEMMA FixedCallsUnderstood ==
  /\ Understood(CreateMarketCall, "CreateMarket", CreateMarketData)
  /\ Understood(UpdateFeeCall, "UpdateFee", UpdateFeeData)
  /\ Understood(CollectFeesCall, "CollectFees", NoData)
  /\ Understood(CreateConfigCall, "CreateConfig", CreateConfigData)
  /\ Understood(UpdateConfigCall, "UpdateConfig", UpdateConfigData)
  /\ Understood(ClaimSeatCall, "ClaimSeat", NoData)
  /\ Understood(CloseSeatCall, "CloseSeat", CloseSeatData)
  /\ Understood(DepositCall, "Deposit", DepositData)
  /\ Understood(WithdrawCall, "Withdraw", WithdrawData)
  /\ Understood(PlaceLimitCall, "PlaceLimit", PlaceLimitData)
  /\ Understood(CancelCall, "Cancel", CancelData)
  /\ Understood(PlaceTakeCall, "PlaceTake", PlaceTakeData)
  /\ Understood(SwapCall, "Swap", SwapData)
  /\ Understood(ReanchorCall, "Reanchor", ReanchorData)
  /\ Understood(ReapExpiredCall, "ReapExpired", ReapExpiredData)
<1>1. Understood(CreateMarketCall, "CreateMarket", CreateMarketData)
  <2>1. Dispatch(CreateMarketCall.disc) = "CreateMarket"
    BY DEF CreateMarketCall, Dispatch
  <2>2. PackedAs(<<U("tick_size", 8), U("base_lot_size", 8), U("anchor_tick", 4),
          U("fee_bps", 2), U("max_lots_per_order", 4)>>,
                 {F("tick_size", 0, 8), F("base_lot_size", 8, 8),
                   F("anchor_tick", 16, 4), F("fee_bps", 20, 2),
                   F("max_lots_per_order", 22, 4)}, 26)
    <3>1. "anchor_tick" \in FieldNames /\ "base_lot_size" \in FieldNames /\
            "fee_bps" \in FieldNames /\ "max_lots_per_order" \in FieldNames /\
            "tick_size" \in FieldNames /\ 2 \in Nat /\ 4 \in Nat /\ 8 \in Nat /\
            8 = 8 /\ 16 = 8 + 8 /\ 20 = 16 + 4 /\ 22 = 20 + 2 /\ 26 = 22 + 4
      BY DEF FieldNames
    <3> QED BY <3>1, Packed5, ZenonT(90)
  <2>3. PackedAs(CreateMarketCall.args, CreateMarketData.fields, CreateMarketData.len)
    BY <2>2 DEF CreateMarketCall, CreateMarketData, Layout
  <2> QED BY <2>1, <2>3, PackedUnderstood
<1>2. Understood(UpdateFeeCall, "UpdateFee", UpdateFeeData)
  <2>1. Dispatch(UpdateFeeCall.disc) = "UpdateFee"
    BY DEF UpdateFeeCall, Dispatch
  <2>2. PackedAs(<<U("fee_bps", 2)>>,
                 {F("fee_bps", 0, 2)}, 2)
    <3>1. "fee_bps" \in FieldNames /\ 2 \in Nat /\ 2 = 2
      BY DEF FieldNames
    <3> QED BY <3>1, Packed1, Zenon
  <2>3. PackedAs(UpdateFeeCall.args, UpdateFeeData.fields, UpdateFeeData.len)
    BY <2>2 DEF UpdateFeeCall, UpdateFeeData, Layout
  <2> QED BY <2>1, <2>3, PackedUnderstood
<1>3. Understood(CollectFeesCall, "CollectFees", NoData)
  <2>1. Dispatch(CollectFeesCall.disc) = "CollectFees"
    BY DEF CollectFeesCall, Dispatch
  <2>2. PackedAs(CollectFeesCall.args, NoData.fields, NoData.len)
    BY PackedNone DEF CollectFeesCall, NoData, Layout
  <2> QED BY <2>1, <2>2, PackedUnderstood
<1>4. Understood(CreateConfigCall, "CreateConfig", CreateConfigData)
  <2>1. Dispatch(CreateConfigCall.disc) = "CreateConfig"
    BY DEF CreateConfigCall, Dispatch
  <2>2. PackedAs(<<U("seat_authority", 32), U("market_authority", 32)>>,
                 {F("seat_authority", 0, 32), F("market_authority", 32, 32)}, 64)
    <3>1. "market_authority" \in FieldNames /\ "seat_authority" \in FieldNames /\
            32 \in Nat /\ 32 = 32 /\ 64 = 32 + 32
      BY DEF FieldNames
    <3> QED BY ZenonT(60), <3>1, Packed2
  <2>3. PackedAs(CreateConfigCall.args, CreateConfigData.fields, CreateConfigData.len)
    BY <2>2 DEF CreateConfigCall, CreateConfigData, Layout
  <2> QED BY <2>1, <2>3, PackedUnderstood
<1>5. Understood(UpdateConfigCall, "UpdateConfig", UpdateConfigData)
  <2>1. Dispatch(UpdateConfigCall.disc) = "UpdateConfig"
    BY DEF UpdateConfigCall, Dispatch
  <2>2. PackedAs(<<U("seat_authority", 32), U("market_authority", 32)>>,
                 {F("seat_authority", 0, 32), F("market_authority", 32, 32)}, 64)
    <3>1. "market_authority" \in FieldNames /\ "seat_authority" \in FieldNames /\
            32 \in Nat /\ 32 = 32 /\ 64 = 32 + 32
      BY DEF FieldNames
    <3> QED BY <3>1, Packed2, Zenon
  <2>3. PackedAs(UpdateConfigCall.args, UpdateConfigData.fields, UpdateConfigData.len)
    BY <2>2 DEF UpdateConfigCall, UpdateConfigData, Layout
  <2> QED BY <2>1, <2>3, PackedUnderstood
<1>6. Understood(ClaimSeatCall, "ClaimSeat", NoData)
  <2>1. Dispatch(ClaimSeatCall.disc) = "ClaimSeat"
    BY DEF ClaimSeatCall, Dispatch
  <2>2. PackedAs(ClaimSeatCall.args, NoData.fields, NoData.len)
    BY PackedNone DEF ClaimSeatCall, NoData, Layout
  <2> QED BY <2>1, <2>2, PackedUnderstood
<1>7. Understood(CloseSeatCall, "CloseSeat", CloseSeatData)
  <2>1. Dispatch(CloseSeatCall.disc) = "CloseSeat"
    BY DEF CloseSeatCall, Dispatch
  <2>2. PackedAs(<<U("seat_index", 2)>>,
                 {F("seat_index", 0, 2)}, 2)
    <3>1. "seat_index" \in FieldNames /\ 2 \in Nat /\ 2 = 2
      BY DEF FieldNames
    <3> QED BY <3>1, Packed1, Zenon
  <2>3. PackedAs(CloseSeatCall.args, CloseSeatData.fields, CloseSeatData.len)
    BY <2>2 DEF CloseSeatCall, CloseSeatData, Layout
  <2> QED BY <2>1, <2>3, PackedUnderstood
<1>8. Understood(DepositCall, "Deposit", DepositData)
  <2>1. Dispatch(DepositCall.disc) = "Deposit"
    BY DEF DepositCall, Dispatch
  <2>2. PackedAs(<<U("seat_index", 2), U("base_atoms", 8), U("quote_atoms", 8)>>,
                 {F("seat_index", 0, 2), F("base_atoms", 2, 8), F("quote_atoms", 10, 8)}, 18)
    <3>1. "base_atoms" \in FieldNames /\ "quote_atoms" \in FieldNames /\
            "seat_index" \in FieldNames /\ 2 \in Nat /\ 8 \in Nat /\ 2 = 2 /\
            10 = 2 + 8 /\ 18 = 10 + 8
      BY DEF FieldNames
    <3> QED BY <3>1, Packed3, Zenon
  <2>3. PackedAs(DepositCall.args, DepositData.fields, DepositData.len)
    BY <2>2 DEF DepositCall, DepositData, Layout
  <2> QED BY <2>1, <2>3, PackedUnderstood
<1>9. Understood(WithdrawCall, "Withdraw", WithdrawData)
  <2>1. Dispatch(WithdrawCall.disc) = "Withdraw"
    BY DEF WithdrawCall, Dispatch
  <2>2. PackedAs(<<U("seat_index", 2), U("base_atoms", 8), U("quote_atoms", 8)>>,
                 {F("seat_index", 0, 2), F("base_atoms", 2, 8), F("quote_atoms", 10, 8)}, 18)
    <3>1. "base_atoms" \in FieldNames /\ "quote_atoms" \in FieldNames /\
            "seat_index" \in FieldNames /\ 2 \in Nat /\ 8 \in Nat /\ 2 = 2 /\
            10 = 2 + 8 /\ 18 = 10 + 8
      BY DEF FieldNames
    <3> QED BY <3>1, Packed3, Zenon
  <2>3. PackedAs(WithdrawCall.args, WithdrawData.fields, WithdrawData.len)
    BY <2>2 DEF WithdrawCall, WithdrawData, Layout
  <2> QED BY <2>1, <2>3, PackedUnderstood
<1>10. Understood(PlaceLimitCall, "PlaceLimit", PlaceLimitData)
  <2>1. Dispatch(PlaceLimitCall.disc) = "PlaceLimit"
    BY DEF PlaceLimitCall, Dispatch
  <2>2. PackedAs(<<U("seat_index", 2), U("side", 1), U("tick", 4), U("lots", 4),
          U("expiry_slot", 4), U("flags", 1)>>,
                 {F("seat_index", 0, 2), F("side", 2, 1), F("tick", 3, 4),
                   F("lots", 7, 4), F("expiry_slot", 11, 4), F("flags", 15, 1)}, 16)
    <3>1. "expiry_slot" \in FieldNames /\ "flags" \in FieldNames /\
            "lots" \in FieldNames /\ "seat_index" \in FieldNames /\
            "side" \in FieldNames /\ "tick" \in FieldNames /\ 1 \in Nat /\
            2 \in Nat /\ 4 \in Nat /\ 2 = 2 /\ 3 = 2 + 1 /\ 7 = 3 + 4 /\ 11 = 7 + 4 /\
            15 = 11 + 4 /\ 16 = 15 + 1
      BY DEF FieldNames
    <3> QED BY <3>1, Packed6, ZenonT(90)
  <2>3. PackedAs(PlaceLimitCall.args, PlaceLimitData.fields, PlaceLimitData.len)
    BY <2>2 DEF PlaceLimitCall, PlaceLimitData, Layout
  <2> QED BY <2>1, <2>3, PackedUnderstood
<1>11. Understood(CancelCall, "Cancel", CancelData)
  <2>1. Dispatch(CancelCall.disc) = "Cancel"
    BY DEF CancelCall, Dispatch
  <2>2. PackedAs(<<U("seat_index", 2), U("node_index", 2), U("order_seq", 8)>>,
                 {F("seat_index", 0, 2), F("node_index", 2, 2), F("order_seq", 4, 8)}, 12)
    <3>1. "node_index" \in FieldNames /\ "order_seq" \in FieldNames /\
            "seat_index" \in FieldNames /\ 2 \in Nat /\ 8 \in Nat /\ 2 = 2 /\
            4 = 2 + 2 /\ 12 = 4 + 8
      BY DEF FieldNames
    <3> QED BY <3>1, Packed3, Zenon
  <2>3. PackedAs(CancelCall.args, CancelData.fields, CancelData.len)
    BY <2>2 DEF CancelCall, CancelData, Layout
  <2> QED BY <2>1, <2>3, PackedUnderstood
<1>12. Understood(PlaceTakeCall, "PlaceTake", PlaceTakeData)
  <2>1. Dispatch(PlaceTakeCall.disc) = "PlaceTake"
    BY DEF PlaceTakeCall, Dispatch
  <2>2. PackedAs(<<U("seat_index", 2), U("side", 1), U("limit_tick", 4),
          U("max_lots", 4), U("min_out", 8), U("flags", 1)>>,
                 {F("seat_index", 0, 2), F("side", 2, 1), F("limit_tick", 3, 4),
                   F("max_lots", 7, 4), F("min_out", 11, 8), F("flags", 19, 1)}, 20)
    <3>1. "flags" \in FieldNames /\ "limit_tick" \in FieldNames /\
            "max_lots" \in FieldNames /\ "min_out" \in FieldNames /\
            "seat_index" \in FieldNames /\ "side" \in FieldNames /\ 1 \in Nat /\
            2 \in Nat /\ 4 \in Nat /\ 8 \in Nat /\ 2 = 2 /\ 3 = 2 + 1 /\ 7 = 3 + 4 /\
            11 = 7 + 4 /\ 19 = 11 + 8 /\ 20 = 19 + 1
      BY DEF FieldNames
    <3> QED BY <3>1, Packed6, ZenonT(90)
  <2>3. PackedAs(PlaceTakeCall.args, PlaceTakeData.fields, PlaceTakeData.len)
    BY <2>2 DEF PlaceTakeCall, PlaceTakeData, Layout
  <2> QED BY <2>1, <2>3, PackedUnderstood
<1>13. Understood(SwapCall, "Swap", SwapData)
  <2>1. Dispatch(SwapCall.disc) = "Swap"
    BY DEF SwapCall, Dispatch
  <2>2. PackedAs(<<U("side", 1), U("amount_in", 8), U("limit_tick", 4), U("min_out", 8)>>,
                 {F("side", 0, 1), F("amount_in", 1, 8), F("limit_tick", 9, 4), F("min_out", 13, 8)}, 21)
    <3>1. "amount_in" \in FieldNames /\ "limit_tick" \in FieldNames /\
            "min_out" \in FieldNames /\ "side" \in FieldNames /\ 1 \in Nat /\
            4 \in Nat /\ 8 \in Nat /\ 1 = 1 /\ 9 = 1 + 8 /\ 13 = 9 + 4 /\ 21 = 13 + 8
      BY DEF FieldNames
    <3> QED BY <3>1, Packed4, Zenon
  <2>3. PackedAs(SwapCall.args, SwapData.fields, SwapData.len)
    BY <2>2 DEF SwapCall, SwapData, Layout
  <2> QED BY <2>1, <2>3, PackedUnderstood
<1>14. Understood(ReanchorCall, "Reanchor", ReanchorData)
  <2>1. Dispatch(ReanchorCall.disc) = "Reanchor"
    BY DEF ReanchorCall, Dispatch
  <2>2. PackedAs(<<U("target_anchor", 4), U("max_levels", 4)>>,
                 {F("target_anchor", 0, 4), F("max_levels", 4, 4)}, 8)
    <3>1. "max_levels" \in FieldNames /\ "target_anchor" \in FieldNames /\ 4 \in Nat /\ 4 = 4 /\ 8 = 4 + 4
      BY DEF FieldNames
    <3> QED BY <3>1, Packed2, Zenon
  <2>3. PackedAs(ReanchorCall.args, ReanchorData.fields, ReanchorData.len)
    BY <2>2 DEF ReanchorCall, ReanchorData, Layout
  <2> QED BY <2>1, <2>3, PackedUnderstood
<1>15. Understood(ReapExpiredCall, "ReapExpired", ReapExpiredData)
  <2>1. Dispatch(ReapExpiredCall.disc) = "ReapExpired"
    BY DEF ReapExpiredCall, Dispatch
  <2>2. PackedAs(<<U("side", 1), U("start_tick", 4), U("max_count", 4)>>,
                 {F("side", 0, 1), F("start_tick", 1, 4), F("max_count", 5, 4)}, 9)
    <3>1. "max_count" \in FieldNames /\ "side" \in FieldNames /\
            "start_tick" \in FieldNames /\ 1 \in Nat /\ 4 \in Nat /\ 1 = 1 /\
            5 = 1 + 4 /\ 9 = 5 + 4
      BY DEF FieldNames
    <3> QED BY <3>1, Packed3, Zenon
  <2>3. PackedAs(ReapExpiredCall.args, ReapExpiredData.fields, ReapExpiredData.len)
    BY <2>2 DEF ReapExpiredCall, ReapExpiredData, Layout
  <2> QED BY <2>1, <2>3, PackedUnderstood
<1> QED BY <1>1, <1>2, <1>3, <1>4, <1>5, <1>6, <1>7, <1>8, <1>9, <1>10, <1>11, <1>12, <1>13, <1>14, <1>15

-----------------------------------------------------------------------------
(* The quotes of a mass quote                                              *)

\* One argument appended.
LEMMA GrownBy ==
  ASSUME NEW args \in Seq(Arg), NEW u \in Arg
  PROVE  Grown(args, args \o <<u>>, u)
<1> DEFINE one == <<u>>
           more == args \o one
<1>1. one \in Seq(Arg) /\ Len(one) = 1 /\ one[1] = u
  OBVIOUS
<1> HIDE DEF one
<1>2. /\ more \in Seq(Arg) /\ Len(more) = Len(args) + 1
      /\ \A i \in 1 .. Len(args) + 1 : more[i] = IF i <= Len(args) THEN args[i] ELSE one[i - Len(args)]
  BY <1>1, ConcatProperties
<1> HIDE DEF more
<1>3. Len(args) \in Nat
  BY LenProperties
<1>4. Len(args) + 1 \in 1 .. Len(args) + 1 /\ ~(Len(args) + 1 <= Len(args))
      /\ Len(args) + 1 - Len(args) = 1
  BY <1>3
<1>5. more[Len(args) + 1] = u
  BY <1>1, <1>2, <1>4
<1>6. \A i \in 1 .. Len(args) : more[i] = args[i]
  <2>1. \A i \in 1 .. Len(args) : i \in 1 .. Len(args) + 1 /\ i <= Len(args)
    BY <1>3
  <2> QED BY <1>2, <2>1
<1>7. Grown(args, more, u)
  BY <1>2, <1>5, <1>6 DEF Grown
<1> QED BY <1>7 DEF more, one

\* A quote is a tick, lots and flags.
LEMMA QuoteArgsAre ==
  /\ QuoteArgs \in Seq(Arg) /\ Len(QuoteArgs) = 3
  /\ QuoteArgs[1] = U("tick", 4) /\ QuoteArgs[2] = U("lots", 4) /\ QuoteArgs[3] = U("flags", 1)
<1>1. U("tick", 4) \in Arg /\ U("lots", 4) \in Arg /\ U("flags", 1) \in Arg
  BY ArgIs DEF FieldNames
<1> QED BY <1>1 DEF QuoteArgs

QuotesBody(f) == [k \in Nat |-> IF k = 0 THEN <<>> ELSE f[k - 1] \o QuoteArgs]

\* There is such a function: quote after quote.
LEMMA QuotesExist == \E f : f = QuotesBody(f)
<1> DEFINE s(k) == [j \in 1 .. 3 * k |-> QuoteArgs[((j - 1) % 3) + 1]]
           f == [k \in Nat |-> s(k)]
<1>1. \A k \in Nat : s(k) \in Seq(Arg) /\ Len(s(k)) = 3 * k
  <2> SUFFICES ASSUME NEW k \in Nat PROVE s(k) \in Seq(Arg) /\ Len(s(k)) = 3 * k
    OBVIOUS
  <2>1. \A j \in 1 .. 3 * k : ((j - 1) % 3) + 1 \in 1 .. 3
    OBVIOUS
  <2>2. \A i \in 1 .. 3 : QuoteArgs[i] \in Arg
    BY QuoteArgsAre, ElementOfSeq
  <2>3. s(k) \in [1 .. 3 * k -> Arg] /\ 3 * k \in Nat
    BY <2>1, <2>2
  <2> HIDE DEF s
  <2> QED BY <2>3, FunctionSeq
<1>2. s(0) = <<>>
  OBVIOUS
<1>3. ASSUME NEW k \in Nat, k # 0
      PROVE  s(k) = s(k - 1) \o QuoteArgs
  <2>1. k - 1 \in Nat /\ 3 * (k - 1) + 3 = 3 * k
    BY <1>3
  <2> DEFINE a == s(k - 1)
             c == a \o QuoteArgs
  <2>2. a \in Seq(Arg) /\ Len(a) = 3 * (k - 1)
    BY <1>1, <2>1
  <2>3. /\ c \in Seq(Arg) /\ Len(c) = 3 * k
        /\ \A j \in 1 .. 3 * k :
             c[j] = IF j <= 3 * (k - 1) THEN a[j] ELSE QuoteArgs[j - 3 * (k - 1)]
    <3> HIDE DEF a
    <3>1. /\ c \in Seq(Arg) /\ Len(c) = Len(a) + Len(QuoteArgs)
          /\ \A j \in 1 .. Len(a) + Len(QuoteArgs) :
               c[j] = IF j <= Len(a) THEN a[j] ELSE QuoteArgs[j - Len(a)]
      BY <2>2, QuoteArgsAre, ConcatProperties
    <3>2. Len(a) + Len(QuoteArgs) = 3 * k
      BY <2>1, <2>2, QuoteArgsAre
    <3> HIDE DEF c
    <3> QED BY <2>2, <3>1, <3>2
  <2>4. ASSUME NEW j \in 1 .. 3 * k PROVE c[j] = s(k)[j]
    <3>1. s(k)[j] = QuoteArgs[((j - 1) % 3) + 1]
      OBVIOUS
    <3>2. CASE j <= 3 * (k - 1)
      <4>1. j \in 1 .. 3 * (k - 1)
        BY <2>1, <3>2
      <4>2. a[j] = QuoteArgs[((j - 1) % 3) + 1]
        BY <4>1
      <4> QED BY <2>3, <3>1, <3>2, <4>2
    <3>3. CASE ~(j <= 3 * (k - 1))
      <4>1. j - 3 * (k - 1) = ((j - 1) % 3) + 1
        BY <2>1, <3>3
      <4> HIDE DEF s, c
      <4> QED BY <2>3, <3>1, <3>3, <4>1
    <3> QED BY <3>2, <3>3
  <2>5. Len(s(k)) = 3 * k /\ s(k) \in Seq(Arg)
    BY <1>1
  <2> HIDE DEF s, c
  <2>6. c = s(k)
    BY <2>3, <2>4, <2>5, SeqEqual
  <2> QED BY <2>6 DEF c
<1>4. f = QuotesBody(f)
  <2>1. \A k \in Nat : f[k] = s(k)
    OBVIOUS
  <2>2. ASSUME NEW k \in Nat PROVE f[k] = IF k = 0 THEN <<>> ELSE f[k - 1] \o QuoteArgs
    <3>1. k # 0 => k - 1 \in Nat
      OBVIOUS
    <3> HIDE DEF s, f
    <3> QED BY <1>2, <1>3, <2>1, <3>1
  <2>3. f = [k \in Nat |-> f[k]]
    OBVIOUS
  <2> HIDE DEF f
  <2> QED BY <2>2, <2>3 DEF QuotesBody
<1> QED BY <1>4

\* One quote more, quote after quote.
LEMMA QuotesAre ==
  /\ Quotes[0] = <<>>
  /\ \A k \in Nat : Quotes[k + 1] = Quotes[k] \o QuoteArgs
<1>1. Quotes = QuotesBody(Quotes)
  <2>1. Quotes = CHOOSE f : f = QuotesBody(f)
    BY Zenon DEF Quotes, QuotesBody
  <2> QED BY <2>1, QuotesExist, Zenon
<1>2. Quotes = [k \in Nat |-> IF k = 0 THEN <<>> ELSE Quotes[k - 1] \o QuoteArgs]
  BY <1>1 DEF QuotesBody
<1> HIDE DEF Quotes
<1>3. Quotes[0] = <<>>
  BY <1>2
<1>4. ASSUME NEW k \in Nat PROVE Quotes[k + 1] = Quotes[k] \o QuoteArgs
  <2>1. k + 1 \in Nat /\ k + 1 # 0 /\ k + 1 - 1 = k
    OBVIOUS
  <2> DEFINE j == k + 1
  <2>2. j \in Nat /\ j # 0 /\ j - 1 = k
    BY <2>1
  <2> HIDE DEF j
  <2>3. Quotes[j] = IF j = 0 THEN <<>> ELSE Quotes[j - 1] \o QuoteArgs
    BY <1>2, <2>2
  <2>4. Quotes[j] = Quotes[j - 1] \o QuoteArgs
    BY <2>2, <2>3, Zenon
  <2> QED BY <2>2, <2>4, Zenon DEF j
<1> QED BY <1>3, <1>4
\* One quote more lies behind the rest.
LEMMA PackedQuote ==
  ASSUME NEW args, NEW fields, NEW len \in Nat, PackedAs(args, fields, len)
  PROVE  PackedAs(args \o QuoteArgs,
                  fields \cup {F("tick", len, 4), F("lots", len + 4, 4), F("flags", len + 8, 1)},
                  len + 9)
<1> DEFINE t == U("tick", 4)
           l == U("lots", 4)
           f == U("flags", 1)
           p == args \o <<t>>
           q == p \o <<l>>
           r == q \o <<f>>
<1>1. args \in Seq(Arg)
  BY DEF PackedAs
<1>2. t \in Arg /\ l \in Arg /\ f \in Arg
  BY ArgIs DEF FieldNames
<1>3. "tick" \in FieldNames /\ "lots" \in FieldNames /\ "flags" \in FieldNames
  BY DEF FieldNames
<1>4. Grown(args, p, t) /\ p \in Seq(Arg)
  BY <1>1, <1>2, GrownBy DEF Grown
<1>5. Grown(p, q, l) /\ q \in Seq(Arg)
  BY <1>2, <1>4, GrownBy DEF Grown
<1>6. Grown(q, r, f) /\ r \in Seq(Arg)
  BY <1>2, <1>5, GrownBy DEF Grown
<1> HIDE DEF p, q, r
<1>7. PackedAs(p, fields \cup {F("tick", len, 4)}, len + 4)
  BY <1>3, <1>4, PackedField
<1>8. PackedAs(q, fields \cup {F("tick", len, 4)} \cup {F("lots", len + 4, 4)}, len + 4 + 4)
  BY <1>3, <1>5, <1>7, PackedField
<1>9. PackedAs(r, fields \cup {F("tick", len, 4)} \cup {F("lots", len + 4, 4)}
                     \cup {F("flags", len + 4 + 4, 1)}, len + 4 + 4 + 1)
  BY <1>3, <1>6, <1>8, PackedField
<1>10. len + 4 + 4 = len + 8 /\ len + 4 + 4 + 1 = len + 9
  OBVIOUS
<1>11. r = args \o QuoteArgs
  <2> DEFINE more == args \o QuoteArgs
             n == Len(args)
  <2>1. n \in Nat
    BY <1>1, LenProperties
  <2>2. /\ more \in Seq(Arg) /\ Len(more) = n + 3
        /\ \A i \in 1 .. n + 3 : more[i] = IF i <= n THEN args[i] ELSE QuoteArgs[i - n]
    <3>1. /\ more \in Seq(Arg) /\ Len(more) = n + Len(QuoteArgs)
          /\ \A i \in 1 .. n + Len(QuoteArgs) :
               more[i] = IF i <= n THEN args[i] ELSE QuoteArgs[i - n]
      BY <1>1, QuoteArgsAre, ConcatProperties
    <3> QED BY <3>1, QuoteArgsAre
  <2>3. /\ Len(p) = n + 1 /\ p[n + 1] = t /\ \A i \in 1 .. n : p[i] = args[i]
        /\ Len(q) = n + 1 + 1 /\ q[n + 1 + 1] = l /\ \A i \in 1 .. n + 1 : q[i] = p[i]
        /\ Len(r) = n + 1 + 1 + 1 /\ r[n + 1 + 1 + 1] = f
        /\ \A i \in 1 .. n + 1 + 1 : r[i] = q[i]
    BY <1>4, <1>5, <1>6, Zenon DEF Grown
  <2> HIDE DEF n, more
  <2>4. ASSUME NEW i \in 1 .. n + 3 PROVE r[i] = more[i]
    <3>1. CASE i \in 1 .. n
      <4>1. r[i] = args[i]
        BY <2>1, <2>3, <3>1
      <4>2. i <= n
        BY <2>1, <3>1
      <4> QED BY <2>2, <4>1, <4>2
    <3>2. CASE i = n + 1
      <4>1. r[i] = t
        BY <2>1, <2>3, <3>2
      <4>2. ~(i <= n) /\ i - n = 1
        BY <2>1, <3>2
      <4> QED BY <2>2, <4>1, <4>2, QuoteArgsAre
    <3>3. CASE i = n + 2
      <4>1. r[i] = l
        BY <2>1, <2>3, <3>3
      <4>2. ~(i <= n) /\ i - n = 2
        BY <2>1, <3>3
      <4> QED BY <2>2, <4>1, <4>2, QuoteArgsAre
    <3>4. CASE i = n + 3
      <4>1. r[i] = f
        BY <2>1, <2>3, <3>4
      <4>2. ~(i <= n) /\ i - n = 3
        BY <2>1, <3>4
      <4> QED BY <2>2, <4>1, <4>2, QuoteArgsAre
    <3> QED BY <2>1, <3>1, <3>2, <3>3, <3>4
  <2>5. Len(r) = n + 3
    BY <2>1, <2>3
  <2>6. r = more
    BY <1>6, <2>2, <2>4, <2>5, SeqEqual
  <2> QED BY <2>6 DEF more
<1>12. fields \cup {F("tick", len, 4)} \cup {F("lots", len + 4, 4)} \cup {F("flags", len + 8, 1)}
         = fields \cup {F("tick", len, 4), F("lots", len + 4, 4), F("flags", len + 8, 1)}
  OBVIOUS
<1> QED BY <1>9, <1>10, <1>11, <1>12, Zenon

\* A payload of n quotes and the fields of each.
Payload(len, n) == UNION {QuoteFields(len, k) : k \in 0 .. n - 1}

\* One quote more behind a payload.
LEMMA PackedPayload ==
  ASSUME NEW args \in Seq(Arg), NEW fields, NEW len \in Nat, NEW n \in Nat, Quotes[n] \in Seq(Arg),
         PackedAs(args \o Quotes[n], fields \cup Payload(len, n), len + 9 * n)
  PROVE  /\ Quotes[n + 1] \in Seq(Arg)
         /\ PackedAs(args \o Quotes[n + 1], fields \cup Payload(len, n + 1), len + 9 * (n + 1))
<1>1. Quotes[n + 1] = Quotes[n] \o QuoteArgs
  BY QuotesAre
<1>2. Quotes[n + 1] \in Seq(Arg)
  BY <1>1, QuoteArgsAre, ConcatProperties
<1>3. (args \o Quotes[n]) \o QuoteArgs = args \o Quotes[n + 1]
  <2>1. QuoteArgs \in Seq(Arg)
    BY QuoteArgsAre
  <2>2. (args \o Quotes[n]) \o QuoteArgs = args \o (Quotes[n] \o QuoteArgs)
    <3> DEFINE q == Quotes[n]
    <3>1. q \in Seq(Arg)
      OBVIOUS
    <3> HIDE DEF q
    <3>2. (args \o q) \o QuoteArgs = args \o (q \o QuoteArgs)
      BY <2>1, <3>1, ConcatAssociative
    <3> QED BY <3>2 DEF q
  <2> QED BY <1>1, <2>2, Zenon
<1>4. len + 9 * n \in Nat /\ len + 9 * n + 9 = len + 9 * (n + 1)
  OBVIOUS
<1> DEFINE s == len + 9 * n
           three == {F("tick", s, 4), F("lots", s + 4, 4), F("flags", s + 8, 1)}
<1>5. PackedAs((args \o Quotes[n]) \o QuoteArgs, (fields \cup Payload(len, n)) \cup three, s + 9)
  <2>1. s \in Nat /\ PackedAs(args \o Quotes[n], fields \cup Payload(len, n), s)
    BY <1>4
  <2> HIDE DEF s
  <2> QED BY <2>1, PackedQuote
<1>6. three = QuoteFields(len, n)
  BY DEF QuoteFields
<1>7. Payload(len, n + 1) = Payload(len, n) \cup QuoteFields(len, n)
  <2>1. 0 .. n + 1 - 1 = (0 .. n - 1) \cup {n}
    OBVIOUS
  <2> QED BY <2>1 DEF Payload
<1>8. (fields \cup Payload(len, n)) \cup three = fields \cup Payload(len, n + 1)
  <2> HIDE DEF three
  <2> QED BY <1>6, <1>7
<1> HIDE DEF three
<1> QED BY <1>2, <1>3, <1>4, <1>5, <1>8, Zenon

\* Up to three quotes behind arguments that are packed.
LEMMA PackedQuotes ==
  ASSUME NEW args, NEW fields, NEW len \in Nat, PackedAs(args, fields, len), NEW n \in 0 .. 3
  PROVE  PackedAs(args \o Quotes[n], fields \cup Payload(len, n), len + 9 * n)
<1> DEFINE P(k) == /\ Quotes[k] \in Seq(Arg)
                   /\ PackedAs(args \o Quotes[k], fields \cup Payload(len, k), len + 9 * k)
<1>1. args \in Seq(Arg)
  BY DEF PackedAs
<1>2. P(0)
  <2>1. Quotes[0] \in Seq(Arg) /\ args \o Quotes[0] = args
    BY <1>1, QuotesAre, EmptySeq, ConcatEmptySeq
  <2>2. Payload(len, 0) = {} /\ len + 9 * 0 = len
    BY DEF Payload
  <2> QED BY <2>1, <2>2
<1>3. \A k \in Nat : P(k) => P(k + 1)
  BY <1>1, PackedPayload
<1> HIDE DEF P
<1>4. P(1) /\ P(2) /\ P(3)
  <2>1. P(0 + 1)
    BY <1>2, <1>3
  <2>2. P(1 + 1)
    BY <1>3, <2>1
  <2>3. P(2 + 1)
    BY <1>3, <2>2
  <2> QED BY <2>1, <2>2, <2>3
<1>5. n = 0 \/ n = 1 \/ n = 2 \/ n = 3
  OBVIOUS
<1>6. P(n)
  BY <1>2, <1>4, <1>5
<1> QED BY <1>6 DEF P

\* Each side's quotes are read where they are put, behind the other's.
LEMMA MassQuoteUnderstood ==
  ASSUME NEW bids \in 0 .. 3, NEW asks \in 0 .. 3
  PROVE  Understood(MassQuoteCall(bids, asks), "MassQuote", MassQuoteData(bids, asks))
<1> DEFINE head == <<U("seat_index", 2), U("expiry_slot", 4), U("bid_count", 1)>>
           first == {F("seat_index", 0, 2), F("expiry_slot", 2, 4), F("bid_count", 6, 1)}
           below == head \o Quotes[bids]
           mid == below \o <<U("ask_count", 1)>>
           at == 7 + 9 * bids
<1>1. PackedAs(head, first, 7)
  <2>1. /\ "seat_index" \in FieldNames /\ "expiry_slot" \in FieldNames
        /\ "bid_count" \in FieldNames /\ 2 \in Nat /\ 4 \in Nat /\ 1 \in Nat
        /\ 2 = 2 /\ 6 = 2 + 4 /\ 7 = 6 + 1
    BY DEF FieldNames
  <2> QED BY <2>1, Packed3, Zenon
<1> HIDE DEF head
<1>2. at \in Nat /\ at + 1 \in Nat
  OBVIOUS
<1>3. PackedAs(below, first \cup Payload(7, bids), at)
  BY <1>1, PackedQuotes
<1> HIDE DEF below, at, first
<1>4. PackedAs(mid, first \cup Payload(7, bids) \cup {F("ask_count", at, 1)}, at + 1)
  <2>1. below \in Seq(Arg)
    BY <1>3 DEF PackedAs
  <2>2. "ask_count" \in FieldNames /\ 1 \in Nat /\ U("ask_count", 1) \in Arg
    BY ArgIs DEF FieldNames
  <2>3. Grown(below, mid, U("ask_count", 1))
    BY <2>1, <2>2, GrownBy
  <2> HIDE DEF mid
  <2> QED BY <1>3, <2>2, <2>3, PackedField
<1> HIDE DEF mid
<1>5. PackedAs(mid \o Quotes[asks],
               first \cup Payload(7, bids) \cup {F("ask_count", at, 1)} \cup Payload(at + 1, asks),
               at + 1 + 9 * asks)
  BY <1>2, <1>4, PackedQuotes
<1> DEFINE call == MassQuoteCall(bids, asks)
           layout == MassQuoteData(bids, asks)
<1>6. call.args = mid \o Quotes[asks] /\ Dispatch(call.disc) = "MassQuote"
  <2>1. call.disc = 20 /\ call.args = mid \o Quotes[asks]
    BY DEF MassQuoteCall, mid, below, head
  <2> HIDE DEF call
  <2> QED BY <2>1 DEF Dispatch
<1>7. layout.len = at + 1 + 9 * asks
  BY DEF MassQuoteData, Layout, at
<1>8. layout.fields = first \cup Payload(7, bids) \cup {F("ask_count", at, 1)} \cup Payload(at + 1, asks)
  <2>1. 6 + 1 = 7 /\ 6 + 1 + bids * 9 = at /\ 6 + 1 + bids * 9 + 1 = at + 1
    BY DEF at
  <2>2. layout.fields = {F("seat_index", 0, 2), F("expiry_slot", 2, 4), F("bid_count", 6, 1),
                         F("ask_count", 6 + 1 + bids * 9, 1)}
                        \cup Payload(6 + 1, bids) \cup Payload(6 + 1 + bids * 9 + 1, asks)
    <3>1. layout = Layout(6 + 1 + bids * 9 + 1 + asks * 9,
                    {F("seat_index", 0, 2), F("expiry_slot", 2, 4), F("bid_count", 6, 1),
                     F("ask_count", 6 + 1 + bids * 9, 1)}
                    \cup (UNION {QuoteFields(6 + 1, k) : k \in 0 .. bids - 1})
                    \cup (UNION {QuoteFields(6 + 1 + bids * 9 + 1, k) : k \in 0 .. asks - 1}))
      BY DEF MassQuoteData
    <3> HIDE DEF layout
    <3>2. layout.fields =
            {F("seat_index", 0, 2), F("expiry_slot", 2, 4), F("bid_count", 6, 1),
             F("ask_count", 6 + 1 + bids * 9, 1)}
            \cup (UNION {QuoteFields(6 + 1, k) : k \in 0 .. bids - 1})
            \cup (UNION {QuoteFields(6 + 1 + bids * 9 + 1, k) : k \in 0 .. asks - 1})
      BY <3>1, Zenon DEF Layout
    <3> QED BY <3>2 DEF Payload
  <2>3. {F("seat_index", 0, 2), F("expiry_slot", 2, 4), F("bid_count", 6, 1), F("ask_count", at, 1)}
          = first \cup {F("ask_count", at, 1)}
    BY DEF first
  <2> HIDE DEF layout
  <2>4. layout.fields = (first \cup {F("ask_count", at, 1)})
                        \cup Payload(7, bids) \cup Payload(at + 1, asks)
    BY <2>1, <2>2, <2>3, Zenon
  <2> QED BY <2>4
<1> HIDE DEF call, layout
<1>9. PackedAs(call.args, layout.fields, layout.len)
  BY <1>5, <1>6, <1>7, <1>8, Zenon
<1>10. Understood(call, "MassQuote", layout)
  BY <1>6, <1>9, PackedUnderstood
<1> QED BY <1>10 DEF call, layout

\* Every call is understood.
LEMMA ClientUnderstood == CallsUnderstood
BY FixedCallsUnderstood, MassQuoteUnderstood, Zenon DEF CallsUnderstood

-----------------------------------------------------------------------------
(* The accounts a call brings                                              *)

\* A call built with some keys brings each key in the place of its name, with
\* the flags of its place.
Named(call, names, n) ==
  /\ n \in Nat /\ DOMAIN call.metas = 1 .. n /\ DOMAIN names = 1 .. n /\ Len(names) = n
  /\ \A i, j \in 1 .. n : names[i] = names[j] => i = j
  /\ \A k \in 1 .. n : call.metas[k].name = names[k]

Placed(call, keys, names, n, a) ==
  \A k \in 1 .. n : /\ a[names[k]].key = keys[names[k]]
                    /\ a[names[k]].signer = call.metas[k].signer
                    /\ a[names[k]].writable = call.metas[k].writable

LEMMA Brings ==
  ASSUME NEW call, NEW keys, NEW names, NEW n, Named(call, names, n)
  PROVE  \E a \in Bind(Built(call, keys), names) : Placed(call, keys, names, n, a)
<1> DEFINE ins == Built(call, keys)
           acct(k) == [key |-> keys[call.metas[k].name],
                       signer |-> call.metas[k].signer, writable |-> call.metas[k].writable]
           accts == [k \in 1 .. n |-> acct(k)]
<1>1. ins.accts = accts
  BY DEF Built, Named
<1>2. Len(accts) = n
  <2>1. accts \in [1 .. n -> {acct(k) : k \in 1 .. n}] /\ n \in Nat
    BY DEF Named
  <2> HIDE DEF accts
  <2> QED BY <2>1, FunctionSeq
<1>3. Bind(ins, names) # {}
  <2>1. Len(ins.accts) = Len(names)
    BY <1>1, <1>2 DEF Named
  <2> HIDE DEF ins, accts
  <2> QED BY <2>1 DEF Bind
<1>4. PICK a \in Bind(ins, names) : TRUE
  BY <1>3
<1>5. ASSUME NEW k \in 1 .. n
      PROVE  /\ a[names[k]].key = keys[names[k]]
             /\ a[names[k]].signer = call.metas[k].signer
             /\ a[names[k]].writable = call.metas[k].writable
  <2>1. a[names[k]] = ins.accts[k]
    <3> HIDE DEF ins
    <3> QED BY <1>4, Bound DEF Named
  <2>2. ins.accts[k] = acct(k) /\ call.metas[k].name = names[k]
    BY <1>1 DEF Named
  <2> QED BY <2>1, <2>2
<1> HIDE DEF ins
<1> QED BY <1>4, <1>5 DEF Placed, ins

\* The accounts of a built UpdateFee.
LEMMA UpdateFeeBrings ==
  ASSUME NEW keys
  PROVE  \E a \in Bind(Built(UpdateFeeCall, keys),
             <<"authority", "market">>) :
           /\ a.authority.key = keys.authority /\ a.authority.signer
           /\ a.market.key = keys.market /\ a.market.writable
<1> DEFINE names == <<"authority", "market">>
           call == UpdateFeeCall
<1>1. /\ DOMAIN names = 1 .. 2 /\ Len(names) = 2 /\ 2 \in Nat
      /\ \A i, j \in 1 .. 2 : names[i] = names[j] => i = j
  OBVIOUS
<1>2. /\ names[1] = "authority"
      /\ names[2] = "market"
  OBVIOUS
<1>3. /\ DOMAIN call.metas = 1 .. 2
      /\ call.metas[1] = Sign("authority")
      /\ call.metas[2] = Write("market")
  BY DEF UpdateFeeCall
<1> HIDE DEF names, call
<1>4. /\ call.metas[1].name = names[1] /\ call.metas[1].signer
      /\ call.metas[2].name = names[2] /\ call.metas[2].writable
  BY <1>2, <1>3 DEF Sign, Write, Meta
<1>5. \A k \in 1 .. 2 : k = 1 \/ k = 2
  OBVIOUS
<1>6. \A k \in 1 .. 2 : call.metas[k].name = names[k]
  BY <1>4, <1>5
<1>7. PICK a \in Bind(Built(call, keys), names) : Placed(call, keys, names, 2, a)
  <2>1. Named(call, names, 2)
    BY <1>1, <1>3, <1>6 DEF Named
  <2> QED BY <2>1, Brings, Zenon
<1>8. /\ a.authority.key = keys.authority /\ a.authority.signer
      /\ a.market.key = keys.market /\ a.market.writable
  <2>1. 1 \in 1 .. 2 /\ 2 \in 1 .. 2
    OBVIOUS
  <2> QED BY <1>2, <1>4, <1>7, <2>1 DEF Placed
<1> QED BY <1>7, <1>8 DEF names, call

\* The accounts of a built CollectFees.
LEMMA CollectFeesBrings ==
  ASSUME NEW keys
  PROVE  \E a \in Bind(Built(CollectFeesCall, keys),
             <<"authority", "market", "quote_vault", "authority_quote_ata",
               "vault_authority", "quote_mint", "quote_token_program">>) :
           /\ a.authority.key = keys.authority /\ a.authority.signer
           /\ a.market.key = keys.market /\ a.market.writable
           /\ a.quote_vault.key = keys.quote_vault /\ a.quote_vault.writable
           /\ a.authority_quote_ata.key = keys.authority_quote_ata /\ a.authority_quote_ata.writable
           /\ a.vault_authority.key = keys.vault_authority
           /\ a.quote_mint.key = keys.quote_mint
           /\ a.quote_token_program.key = keys.quote_token_program
<1> DEFINE names == <<"authority", "market", "quote_vault",
                      "authority_quote_ata", "vault_authority", "quote_mint",
                      "quote_token_program">>
           call == CollectFeesCall
<1>1. /\ DOMAIN names = 1 .. 7 /\ Len(names) = 7 /\ 7 \in Nat
      /\ \A i, j \in 1 .. 7 : names[i] = names[j] => i = j
  OBVIOUS
<1>2. /\ names[1] = "authority"
      /\ names[2] = "market"
      /\ names[3] = "quote_vault"
      /\ names[4] = "authority_quote_ata"
      /\ names[5] = "vault_authority"
      /\ names[6] = "quote_mint"
      /\ names[7] = "quote_token_program"
  OBVIOUS
<1>3. /\ DOMAIN call.metas = 1 .. 7
      /\ call.metas[1] = Sign("authority")
      /\ call.metas[2] = Write("market")
      /\ call.metas[3] = Write("quote_vault")
      /\ call.metas[4] = Write("authority_quote_ata")
      /\ call.metas[5] = Read("vault_authority")
      /\ call.metas[6] = Read("quote_mint")
      /\ call.metas[7] = Read("quote_token_program")
  BY DEF CollectFeesCall
<1> HIDE DEF names, call
<1>4. /\ call.metas[1].name = names[1] /\ call.metas[1].signer
      /\ call.metas[2].name = names[2] /\ call.metas[2].writable
      /\ call.metas[3].name = names[3] /\ call.metas[3].writable
      /\ call.metas[4].name = names[4] /\ call.metas[4].writable
      /\ call.metas[5].name = names[5]
      /\ call.metas[6].name = names[6]
      /\ call.metas[7].name = names[7]
  BY <1>2, <1>3 DEF Read, Sign, Write, Meta
<1>5. \A k \in 1 .. 7 : k = 1 \/ k = 2 \/ k = 3 \/ k = 4 \/ k = 5 \/ k = 6 \/ k = 7
  OBVIOUS
<1>6. \A k \in 1 .. 7 : call.metas[k].name = names[k]
  BY <1>4, <1>5
<1>7. PICK a \in Bind(Built(call, keys), names) : Placed(call, keys, names, 7, a)
  <2>1. Named(call, names, 7)
    BY <1>1, <1>3, <1>6 DEF Named
  <2> QED BY <2>1, Brings, Zenon
<1>8. /\ a.authority.key = keys.authority /\ a.authority.signer
      /\ a.market.key = keys.market /\ a.market.writable
      /\ a.quote_vault.key = keys.quote_vault /\ a.quote_vault.writable
      /\ a.authority_quote_ata.key = keys.authority_quote_ata /\ a.authority_quote_ata.writable
      /\ a.vault_authority.key = keys.vault_authority
      /\ a.quote_mint.key = keys.quote_mint
      /\ a.quote_token_program.key = keys.quote_token_program
  <2>1. 1 \in 1 .. 7 /\ 2 \in 1 .. 7 /\ 3 \in 1 .. 7 /\ 4 \in 1 .. 7 /\
          5 \in 1 .. 7 /\ 6 \in 1 .. 7 /\ 7 \in 1 .. 7
    OBVIOUS
  <2> QED BY <1>2, <1>4, <1>7, <2>1 DEF Placed
<1> QED BY <1>7, <1>8 DEF names, call

\* The accounts of a built CreateConfig.
LEMMA CreateConfigBrings ==
  ASSUME NEW keys
  PROVE  \E a \in Bind(Built(CreateConfigCall, keys),
             <<"payer", "config", "authority", "system_program">>) :
           /\ a.payer.key = keys.payer /\ a.payer.signer /\ a.payer.writable
           /\ a.config.key = keys.config /\ a.config.writable
           /\ a.authority.key = keys.authority /\ a.authority.signer
           /\ a.system_program.key = keys.system_program
<1> DEFINE names == <<"payer", "config", "authority", "system_program">>
           call == CreateConfigCall
<1>1. /\ DOMAIN names = 1 .. 4 /\ Len(names) = 4 /\ 4 \in Nat
      /\ \A i, j \in 1 .. 4 : names[i] = names[j] => i = j
  OBVIOUS
<1>2. /\ names[1] = "payer"
      /\ names[2] = "config"
      /\ names[3] = "authority"
      /\ names[4] = "system_program"
  OBVIOUS
<1>3. /\ DOMAIN call.metas = 1 .. 4
      /\ call.metas[1] = SignWrite("payer")
      /\ call.metas[2] = Write("config")
      /\ call.metas[3] = Sign("authority")
      /\ call.metas[4] = Read("system_program")
  BY DEF CreateConfigCall
<1> HIDE DEF names, call
<1>4. /\ call.metas[1].name = names[1] /\ call.metas[1].signer /\ call.metas[1].writable
      /\ call.metas[2].name = names[2] /\ call.metas[2].writable
      /\ call.metas[3].name = names[3] /\ call.metas[3].signer
      /\ call.metas[4].name = names[4]
  BY <1>2, <1>3 DEF Read, Sign, SignWrite, Write, Meta
<1>5. \A k \in 1 .. 4 : k = 1 \/ k = 2 \/ k = 3 \/ k = 4
  OBVIOUS
<1>6. \A k \in 1 .. 4 : call.metas[k].name = names[k]
  BY <1>4, <1>5
<1>7. PICK a \in Bind(Built(call, keys), names) : Placed(call, keys, names, 4, a)
  <2>1. Named(call, names, 4)
    BY <1>1, <1>3, <1>6 DEF Named
  <2> QED BY <2>1, Brings, Zenon
<1>8. /\ a.payer.key = keys.payer /\ a.payer.signer /\ a.payer.writable
      /\ a.config.key = keys.config /\ a.config.writable
      /\ a.authority.key = keys.authority /\ a.authority.signer
      /\ a.system_program.key = keys.system_program
  <2>1. 1 \in 1 .. 4 /\ 2 \in 1 .. 4 /\ 3 \in 1 .. 4 /\ 4 \in 1 .. 4
    OBVIOUS
  <2> QED BY <1>2, <1>4, <1>7, <2>1 DEF Placed
<1> QED BY <1>7, <1>8 DEF names, call

\* The accounts of a built UpdateConfig.
LEMMA UpdateConfigBrings ==
  ASSUME NEW keys
  PROVE  \E a \in Bind(Built(UpdateConfigCall, keys),
             <<"authority", "config">>) :
           /\ a.authority.key = keys.authority /\ a.authority.signer
           /\ a.config.key = keys.config /\ a.config.writable
<1> DEFINE names == <<"authority", "config">>
           call == UpdateConfigCall
<1>1. /\ DOMAIN names = 1 .. 2 /\ Len(names) = 2 /\ 2 \in Nat
      /\ \A i, j \in 1 .. 2 : names[i] = names[j] => i = j
  OBVIOUS
<1>2. /\ names[1] = "authority"
      /\ names[2] = "config"
  OBVIOUS
<1>3. /\ DOMAIN call.metas = 1 .. 2
      /\ call.metas[1] = Sign("authority")
      /\ call.metas[2] = Write("config")
  BY DEF UpdateConfigCall
<1> HIDE DEF names, call
<1>4. /\ call.metas[1].name = names[1] /\ call.metas[1].signer
      /\ call.metas[2].name = names[2] /\ call.metas[2].writable
  BY <1>2, <1>3 DEF Sign, Write, Meta
<1>5. \A k \in 1 .. 2 : k = 1 \/ k = 2
  OBVIOUS
<1>6. \A k \in 1 .. 2 : call.metas[k].name = names[k]
  BY <1>4, <1>5
<1>7. PICK a \in Bind(Built(call, keys), names) : Placed(call, keys, names, 2, a)
  <2>1. Named(call, names, 2)
    BY <1>1, <1>3, <1>6 DEF Named
  <2> QED BY <2>1, Brings, Zenon
<1>8. /\ a.authority.key = keys.authority /\ a.authority.signer
      /\ a.config.key = keys.config /\ a.config.writable
  <2>1. 1 \in 1 .. 2 /\ 2 \in 1 .. 2
    OBVIOUS
  <2> QED BY <1>2, <1>4, <1>7, <2>1 DEF Placed
<1> QED BY <1>7, <1>8 DEF names, call

\* The accounts of a built ClaimSeat.
LEMMA ClaimSeatBrings ==
  ASSUME NEW keys
  PROVE  \E a \in Bind(Built(ClaimSeatCall, keys),
             <<"seat_authority", "owner", "config", "market">>) :
           /\ a.seat_authority.key = keys.seat_authority /\ a.seat_authority.signer
           /\ a.owner.key = keys.owner
           /\ a.config.key = keys.config
           /\ a.market.key = keys.market /\ a.market.writable
<1> DEFINE names == <<"seat_authority", "owner", "config", "market">>
           call == ClaimSeatCall
<1>1. /\ DOMAIN names = 1 .. 4 /\ Len(names) = 4 /\ 4 \in Nat
      /\ \A i, j \in 1 .. 4 : names[i] = names[j] => i = j
  OBVIOUS
<1>2. /\ names[1] = "seat_authority"
      /\ names[2] = "owner"
      /\ names[3] = "config"
      /\ names[4] = "market"
  OBVIOUS
<1>3. /\ DOMAIN call.metas = 1 .. 4
      /\ call.metas[1] = Sign("seat_authority")
      /\ call.metas[2] = Read("owner")
      /\ call.metas[3] = Read("config")
      /\ call.metas[4] = Write("market")
  BY DEF ClaimSeatCall
<1> HIDE DEF names, call
<1>4. /\ call.metas[1].name = names[1] /\ call.metas[1].signer
      /\ call.metas[2].name = names[2]
      /\ call.metas[3].name = names[3]
      /\ call.metas[4].name = names[4] /\ call.metas[4].writable
  BY <1>2, <1>3 DEF Read, Sign, Write, Meta
<1>5. \A k \in 1 .. 4 : k = 1 \/ k = 2 \/ k = 3 \/ k = 4
  OBVIOUS
<1>6. \A k \in 1 .. 4 : call.metas[k].name = names[k]
  BY <1>4, <1>5
<1>7. PICK a \in Bind(Built(call, keys), names) : Placed(call, keys, names, 4, a)
  <2>1. Named(call, names, 4)
    BY <1>1, <1>3, <1>6 DEF Named
  <2> QED BY <2>1, Brings, Zenon
<1>8. /\ a.seat_authority.key = keys.seat_authority /\ a.seat_authority.signer
      /\ a.owner.key = keys.owner
      /\ a.config.key = keys.config
      /\ a.market.key = keys.market /\ a.market.writable
  <2>1. 1 \in 1 .. 4 /\ 2 \in 1 .. 4 /\ 3 \in 1 .. 4 /\ 4 \in 1 .. 4
    OBVIOUS
  <2> QED BY <1>2, <1>4, <1>7, <2>1 DEF Placed
<1> QED BY <1>7, <1>8 DEF names, call

\* The accounts of a built Deposit.
LEMMA DepositBrings ==
  ASSUME NEW keys
  PROVE  \E a \in Bind(Built(DepositCall, keys),
             <<"owner", "market", "owner_base_ata", "owner_quote_ata",
               "base_vault", "quote_vault", "base_mint", "quote_mint",
               "base_token_program", "quote_token_program">>) :
           /\ a.owner.key = keys.owner /\ a.owner.signer
           /\ a.market.key = keys.market /\ a.market.writable
           /\ a.owner_base_ata.key = keys.owner_base_ata /\ a.owner_base_ata.writable
           /\ a.owner_quote_ata.key = keys.owner_quote_ata /\ a.owner_quote_ata.writable
           /\ a.base_vault.key = keys.base_vault /\ a.base_vault.writable
           /\ a.quote_vault.key = keys.quote_vault /\ a.quote_vault.writable
           /\ a.base_mint.key = keys.base_mint
           /\ a.quote_mint.key = keys.quote_mint
           /\ a.base_token_program.key = keys.base_token_program
           /\ a.quote_token_program.key = keys.quote_token_program
<1> DEFINE names == <<"owner", "market", "owner_base_ata", "owner_quote_ata",
                      "base_vault", "quote_vault", "base_mint", "quote_mint",
                      "base_token_program", "quote_token_program">>
           call == DepositCall
<1>1. /\ DOMAIN names = 1 .. 10 /\ Len(names) = 10 /\ 10 \in Nat
      /\ \A i, j \in 1 .. 10 : names[i] = names[j] => i = j
  OBVIOUS
<1>2. /\ names[1] = "owner"
      /\ names[2] = "market"
      /\ names[3] = "owner_base_ata"
      /\ names[4] = "owner_quote_ata"
      /\ names[5] = "base_vault"
      /\ names[6] = "quote_vault"
      /\ names[7] = "base_mint"
      /\ names[8] = "quote_mint"
      /\ names[9] = "base_token_program"
      /\ names[10] = "quote_token_program"
  OBVIOUS
<1>3. /\ DOMAIN call.metas = 1 .. 10
      /\ call.metas[1] = Sign("owner")
      /\ call.metas[2] = Write("market")
      /\ call.metas[3] = Write("owner_base_ata")
      /\ call.metas[4] = Write("owner_quote_ata")
      /\ call.metas[5] = Write("base_vault")
      /\ call.metas[6] = Write("quote_vault")
      /\ call.metas[7] = Read("base_mint")
      /\ call.metas[8] = Read("quote_mint")
      /\ call.metas[9] = Read("base_token_program")
      /\ call.metas[10] = Read("quote_token_program")
  BY DEF DepositCall
<1> HIDE DEF names, call
<1>4. /\ call.metas[1].name = names[1] /\ call.metas[1].signer
      /\ call.metas[2].name = names[2] /\ call.metas[2].writable
      /\ call.metas[3].name = names[3] /\ call.metas[3].writable
      /\ call.metas[4].name = names[4] /\ call.metas[4].writable
      /\ call.metas[5].name = names[5] /\ call.metas[5].writable
      /\ call.metas[6].name = names[6] /\ call.metas[6].writable
      /\ call.metas[7].name = names[7]
      /\ call.metas[8].name = names[8]
      /\ call.metas[9].name = names[9]
      /\ call.metas[10].name = names[10]
  BY <1>2, <1>3 DEF Read, Sign, Write, Meta
<1>5. \A k \in 1 .. 10 : k = 1 \/ k = 2 \/ k = 3 \/ k = 4 \/ k = 5 \/ k = 6 \/
        k = 7 \/ k = 8 \/ k = 9 \/ k = 10
  OBVIOUS
<1>6. \A k \in 1 .. 10 : call.metas[k].name = names[k]
  BY <1>4, <1>5
<1>7. PICK a \in Bind(Built(call, keys), names) : Placed(call, keys, names, 10, a)
  <2>1. Named(call, names, 10)
    BY <1>1, <1>3, <1>6 DEF Named
  <2> QED BY <2>1, Brings, Zenon
<1>8. /\ a.owner.key = keys.owner /\ a.owner.signer
      /\ a.market.key = keys.market /\ a.market.writable
      /\ a.owner_base_ata.key = keys.owner_base_ata /\ a.owner_base_ata.writable
      /\ a.owner_quote_ata.key = keys.owner_quote_ata /\ a.owner_quote_ata.writable
      /\ a.base_vault.key = keys.base_vault /\ a.base_vault.writable
      /\ a.quote_vault.key = keys.quote_vault /\ a.quote_vault.writable
      /\ a.base_mint.key = keys.base_mint
      /\ a.quote_mint.key = keys.quote_mint
      /\ a.base_token_program.key = keys.base_token_program
      /\ a.quote_token_program.key = keys.quote_token_program
  <2>1. 1 \in 1 .. 10 /\ 2 \in 1 .. 10 /\ 3 \in 1 .. 10 /\ 4 \in 1 .. 10 /\
          5 \in 1 .. 10 /\ 6 \in 1 .. 10 /\ 7 \in 1 .. 10 /\ 8 \in 1 .. 10 /\
          9 \in 1 .. 10 /\ 10 \in 1 .. 10
    OBVIOUS
  <2> QED BY <1>2, <1>4, <1>7, <2>1 DEF Placed
<1> QED BY <1>7, <1>8 DEF names, call

\* The accounts of a built Withdraw.
LEMMA WithdrawBrings ==
  ASSUME NEW keys
  PROVE  \E a \in Bind(Built(WithdrawCall, keys),
             <<"owner", "market", "owner_base_ata", "owner_quote_ata",
               "base_vault", "quote_vault", "vault_authority", "base_mint",
               "quote_mint", "base_token_program", "quote_token_program">>) :
           /\ a.owner.key = keys.owner /\ a.owner.signer
           /\ a.market.key = keys.market /\ a.market.writable
           /\ a.owner_base_ata.key = keys.owner_base_ata /\ a.owner_base_ata.writable
           /\ a.owner_quote_ata.key = keys.owner_quote_ata /\ a.owner_quote_ata.writable
           /\ a.base_vault.key = keys.base_vault /\ a.base_vault.writable
           /\ a.quote_vault.key = keys.quote_vault /\ a.quote_vault.writable
           /\ a.vault_authority.key = keys.vault_authority
           /\ a.base_mint.key = keys.base_mint
           /\ a.quote_mint.key = keys.quote_mint
           /\ a.base_token_program.key = keys.base_token_program
           /\ a.quote_token_program.key = keys.quote_token_program
<1> DEFINE names == <<"owner", "market", "owner_base_ata", "owner_quote_ata",
                      "base_vault", "quote_vault", "vault_authority",
                      "base_mint", "quote_mint", "base_token_program",
                      "quote_token_program">>
           call == WithdrawCall
<1>1. /\ DOMAIN names = 1 .. 11 /\ Len(names) = 11 /\ 11 \in Nat
      /\ \A i, j \in 1 .. 11 : names[i] = names[j] => i = j
  OBVIOUS
<1>2. /\ names[1] = "owner"
      /\ names[2] = "market"
      /\ names[3] = "owner_base_ata"
      /\ names[4] = "owner_quote_ata"
      /\ names[5] = "base_vault"
      /\ names[6] = "quote_vault"
      /\ names[7] = "vault_authority"
      /\ names[8] = "base_mint"
      /\ names[9] = "quote_mint"
      /\ names[10] = "base_token_program"
      /\ names[11] = "quote_token_program"
  OBVIOUS
<1>3. /\ DOMAIN call.metas = 1 .. 11
      /\ call.metas[1] = Sign("owner")
      /\ call.metas[2] = Write("market")
      /\ call.metas[3] = Write("owner_base_ata")
      /\ call.metas[4] = Write("owner_quote_ata")
      /\ call.metas[5] = Write("base_vault")
      /\ call.metas[6] = Write("quote_vault")
      /\ call.metas[7] = Read("vault_authority")
      /\ call.metas[8] = Read("base_mint")
      /\ call.metas[9] = Read("quote_mint")
      /\ call.metas[10] = Read("base_token_program")
      /\ call.metas[11] = Read("quote_token_program")
  BY DEF WithdrawCall
<1> HIDE DEF names, call
<1>4. /\ call.metas[1].name = names[1] /\ call.metas[1].signer
      /\ call.metas[2].name = names[2] /\ call.metas[2].writable
      /\ call.metas[3].name = names[3] /\ call.metas[3].writable
      /\ call.metas[4].name = names[4] /\ call.metas[4].writable
      /\ call.metas[5].name = names[5] /\ call.metas[5].writable
      /\ call.metas[6].name = names[6] /\ call.metas[6].writable
      /\ call.metas[7].name = names[7]
      /\ call.metas[8].name = names[8]
      /\ call.metas[9].name = names[9]
      /\ call.metas[10].name = names[10]
      /\ call.metas[11].name = names[11]
  BY <1>2, <1>3 DEF Read, Sign, Write, Meta
<1>5. \A k \in 1 .. 11 : k = 1 \/ k = 2 \/ k = 3 \/ k = 4 \/ k = 5 \/ k = 6 \/
        k = 7 \/ k = 8 \/ k = 9 \/ k = 10 \/ k = 11
  OBVIOUS
<1>6. \A k \in 1 .. 11 : call.metas[k].name = names[k]
  BY <1>4, <1>5
<1>7. PICK a \in Bind(Built(call, keys), names) : Placed(call, keys, names, 11, a)
  <2>1. Named(call, names, 11)
    BY <1>1, <1>3, <1>6 DEF Named
  <2> QED BY <2>1, Brings, Zenon
<1>8. /\ a.owner.key = keys.owner /\ a.owner.signer
      /\ a.market.key = keys.market /\ a.market.writable
      /\ a.owner_base_ata.key = keys.owner_base_ata /\ a.owner_base_ata.writable
      /\ a.owner_quote_ata.key = keys.owner_quote_ata /\ a.owner_quote_ata.writable
      /\ a.base_vault.key = keys.base_vault /\ a.base_vault.writable
      /\ a.quote_vault.key = keys.quote_vault /\ a.quote_vault.writable
      /\ a.vault_authority.key = keys.vault_authority
      /\ a.base_mint.key = keys.base_mint
      /\ a.quote_mint.key = keys.quote_mint
      /\ a.base_token_program.key = keys.base_token_program
      /\ a.quote_token_program.key = keys.quote_token_program
  <2>1. 1 \in 1 .. 11 /\ 2 \in 1 .. 11 /\ 3 \in 1 .. 11 /\ 4 \in 1 .. 11 /\
          5 \in 1 .. 11 /\ 6 \in 1 .. 11 /\ 7 \in 1 .. 11 /\ 8 \in 1 .. 11 /\
          9 \in 1 .. 11 /\ 10 \in 1 .. 11 /\ 11 \in 1 .. 11
    OBVIOUS
  <2> QED BY <1>2, <1>4, <1>7, <2>1 DEF Placed
<1> QED BY <1>7, <1>8 DEF names, call

\* The accounts of a built Swap.
LEMMA SwapBrings ==
  ASSUME NEW keys
  PROVE  \E a \in Bind(Built(SwapCall, keys),
             <<"user", "market", "user_base_ata", "user_quote_ata",
               "base_vault", "quote_vault", "vault_authority", "base_mint",
               "quote_mint", "base_token_program", "quote_token_program">>) :
           /\ a.user.key = keys.user /\ a.user.signer
           /\ a.market.key = keys.market /\ a.market.writable
           /\ a.user_base_ata.key = keys.user_base_ata /\ a.user_base_ata.writable
           /\ a.user_quote_ata.key = keys.user_quote_ata /\ a.user_quote_ata.writable
           /\ a.base_vault.key = keys.base_vault /\ a.base_vault.writable
           /\ a.quote_vault.key = keys.quote_vault /\ a.quote_vault.writable
           /\ a.vault_authority.key = keys.vault_authority
           /\ a.base_mint.key = keys.base_mint
           /\ a.quote_mint.key = keys.quote_mint
           /\ a.base_token_program.key = keys.base_token_program
           /\ a.quote_token_program.key = keys.quote_token_program
<1> DEFINE names == <<"user", "market", "user_base_ata", "user_quote_ata",
                      "base_vault", "quote_vault", "vault_authority",
                      "base_mint", "quote_mint", "base_token_program",
                      "quote_token_program">>
           call == SwapCall
<1>1. /\ DOMAIN names = 1 .. 11 /\ Len(names) = 11 /\ 11 \in Nat
      /\ \A i, j \in 1 .. 11 : names[i] = names[j] => i = j
  OBVIOUS
<1>2. /\ names[1] = "user"
      /\ names[2] = "market"
      /\ names[3] = "user_base_ata"
      /\ names[4] = "user_quote_ata"
      /\ names[5] = "base_vault"
      /\ names[6] = "quote_vault"
      /\ names[7] = "vault_authority"
      /\ names[8] = "base_mint"
      /\ names[9] = "quote_mint"
      /\ names[10] = "base_token_program"
      /\ names[11] = "quote_token_program"
  OBVIOUS
<1>3. /\ DOMAIN call.metas = 1 .. 11
      /\ call.metas[1] = Sign("user")
      /\ call.metas[2] = Write("market")
      /\ call.metas[3] = Write("user_base_ata")
      /\ call.metas[4] = Write("user_quote_ata")
      /\ call.metas[5] = Write("base_vault")
      /\ call.metas[6] = Write("quote_vault")
      /\ call.metas[7] = Read("vault_authority")
      /\ call.metas[8] = Read("base_mint")
      /\ call.metas[9] = Read("quote_mint")
      /\ call.metas[10] = Read("base_token_program")
      /\ call.metas[11] = Read("quote_token_program")
  BY DEF SwapCall
<1> HIDE DEF names, call
<1>4. /\ call.metas[1].name = names[1] /\ call.metas[1].signer
      /\ call.metas[2].name = names[2] /\ call.metas[2].writable
      /\ call.metas[3].name = names[3] /\ call.metas[3].writable
      /\ call.metas[4].name = names[4] /\ call.metas[4].writable
      /\ call.metas[5].name = names[5] /\ call.metas[5].writable
      /\ call.metas[6].name = names[6] /\ call.metas[6].writable
      /\ call.metas[7].name = names[7]
      /\ call.metas[8].name = names[8]
      /\ call.metas[9].name = names[9]
      /\ call.metas[10].name = names[10]
      /\ call.metas[11].name = names[11]
  BY <1>2, <1>3 DEF Read, Sign, Write, Meta
<1>5. \A k \in 1 .. 11 : k = 1 \/ k = 2 \/ k = 3 \/ k = 4 \/ k = 5 \/ k = 6 \/
        k = 7 \/ k = 8 \/ k = 9 \/ k = 10 \/ k = 11
  OBVIOUS
<1>6. \A k \in 1 .. 11 : call.metas[k].name = names[k]
  BY <1>4, <1>5
<1>7. PICK a \in Bind(Built(call, keys), names) : Placed(call, keys, names, 11, a)
  <2>1. Named(call, names, 11)
    BY <1>1, <1>3, <1>6 DEF Named
  <2> QED BY <2>1, Brings, Zenon
<1>8. /\ a.user.key = keys.user /\ a.user.signer
      /\ a.market.key = keys.market /\ a.market.writable
      /\ a.user_base_ata.key = keys.user_base_ata /\ a.user_base_ata.writable
      /\ a.user_quote_ata.key = keys.user_quote_ata /\ a.user_quote_ata.writable
      /\ a.base_vault.key = keys.base_vault /\ a.base_vault.writable
      /\ a.quote_vault.key = keys.quote_vault /\ a.quote_vault.writable
      /\ a.vault_authority.key = keys.vault_authority
      /\ a.base_mint.key = keys.base_mint
      /\ a.quote_mint.key = keys.quote_mint
      /\ a.base_token_program.key = keys.base_token_program
      /\ a.quote_token_program.key = keys.quote_token_program
  <2>1. 1 \in 1 .. 11 /\ 2 \in 1 .. 11 /\ 3 \in 1 .. 11 /\ 4 \in 1 .. 11 /\
          5 \in 1 .. 11 /\ 6 \in 1 .. 11 /\ 7 \in 1 .. 11 /\ 8 \in 1 .. 11 /\
          9 \in 1 .. 11 /\ 10 \in 1 .. 11 /\ 11 \in 1 .. 11
    OBVIOUS
  <2> QED BY <1>2, <1>4, <1>7, <2>1 DEF Placed
<1> QED BY <1>7, <1>8 DEF names, call

\* The accounts of a built Reanchor.
LEMMA ReanchorBrings ==
  ASSUME NEW keys
  PROVE  \E a \in Bind(Built(ReanchorCall, keys),
             <<"market_authority", "config", "market">>) :
           /\ a.market_authority.key = keys.market_authority /\ a.market_authority.signer
           /\ a.config.key = keys.config
           /\ a.market.key = keys.market /\ a.market.writable
<1> DEFINE names == <<"market_authority", "config", "market">>
           call == ReanchorCall
<1>1. /\ DOMAIN names = 1 .. 3 /\ Len(names) = 3 /\ 3 \in Nat
      /\ \A i, j \in 1 .. 3 : names[i] = names[j] => i = j
  OBVIOUS
<1>2. /\ names[1] = "market_authority"
      /\ names[2] = "config"
      /\ names[3] = "market"
  OBVIOUS
<1>3. /\ DOMAIN call.metas = 1 .. 3
      /\ call.metas[1] = Sign("market_authority")
      /\ call.metas[2] = Read("config")
      /\ call.metas[3] = Write("market")
  BY DEF ReanchorCall
<1> HIDE DEF names, call
<1>4. /\ call.metas[1].name = names[1] /\ call.metas[1].signer
      /\ call.metas[2].name = names[2]
      /\ call.metas[3].name = names[3] /\ call.metas[3].writable
  BY <1>2, <1>3 DEF Read, Sign, Write, Meta
<1>5. \A k \in 1 .. 3 : k = 1 \/ k = 2 \/ k = 3
  OBVIOUS
<1>6. \A k \in 1 .. 3 : call.metas[k].name = names[k]
  BY <1>4, <1>5
<1>7. PICK a \in Bind(Built(call, keys), names) : Placed(call, keys, names, 3, a)
  <2>1. Named(call, names, 3)
    BY <1>1, <1>3, <1>6 DEF Named
  <2> QED BY <2>1, Brings, Zenon
<1>8. /\ a.market_authority.key = keys.market_authority /\ a.market_authority.signer
      /\ a.config.key = keys.config
      /\ a.market.key = keys.market /\ a.market.writable
  <2>1. 1 \in 1 .. 3 /\ 2 \in 1 .. 3 /\ 3 \in 1 .. 3
    OBVIOUS
  <2> QED BY <1>2, <1>4, <1>7, <2>1 DEF Placed
<1> QED BY <1>7, <1>8 DEF names, call

\* The accounts of a built ReapExpired.
LEMMA ReapExpiredBrings ==
  ASSUME NEW keys
  PROVE  \E a \in Bind(Built(ReapExpiredCall, keys),
             <<"market">>) :
           /\ a.market.key = keys.market /\ a.market.writable
<1> DEFINE names == <<"market">>
           call == ReapExpiredCall
<1>1. /\ DOMAIN names = 1 .. 1 /\ Len(names) = 1 /\ 1 \in Nat
      /\ \A i, j \in 1 .. 1 : names[i] = names[j] => i = j
  OBVIOUS
<1>2. /\ names[1] = "market"
  OBVIOUS
<1>3. /\ DOMAIN call.metas = 1 .. 1
      /\ call.metas[1] = Write("market")
  BY DEF ReapExpiredCall
<1> HIDE DEF names, call
<1>4. /\ call.metas[1].name = names[1] /\ call.metas[1].writable
  BY <1>2, <1>3 DEF Write, Meta
<1>5. \A k \in 1 .. 1 : k = 1
  OBVIOUS
<1>6. \A k \in 1 .. 1 : call.metas[k].name = names[k]
  BY <1>4, <1>5
<1>7. PICK a \in Bind(Built(call, keys), names) : Placed(call, keys, names, 1, a)
  <2>1. Named(call, names, 1)
    BY <1>1, <1>3, <1>6 DEF Named
  <2> QED BY <2>1, Brings, Zenon
<1>8. /\ a.market.key = keys.market /\ a.market.writable
  <2>1. 1 \in 1 .. 1
    OBVIOUS
  <2> QED BY <1>2, <1>4, <1>7, <2>1 DEF Placed
<1> QED BY <1>7, <1>8 DEF names, call

\* The accounts of a built CreateMarket.
LEMMA CreateMarketBrings ==
  ASSUME NEW keys
  PROVE  \E a \in Bind(Built(CreateMarketCall, keys),
             <<"market", "base_mint", "quote_mint", "base_vault",
               "quote_vault", "authority", "config">>) :
           /\ a.market.key = keys.market /\ a.market.signer /\ a.market.writable
           /\ a.base_mint.key = keys.base_mint
           /\ a.quote_mint.key = keys.quote_mint
           /\ a.base_vault.key = keys.base_vault
           /\ a.quote_vault.key = keys.quote_vault
           /\ a.authority.key = keys.authority
           /\ a.config.key = keys.config
<1> DEFINE names == <<"market", "base_mint", "quote_mint", "base_vault",
                      "quote_vault", "authority", "config">>
           call == CreateMarketCall
<1>1. /\ DOMAIN names = 1 .. 7 /\ Len(names) = 7 /\ 7 \in Nat
      /\ \A i, j \in 1 .. 7 : names[i] = names[j] => i = j
  OBVIOUS
<1>2. /\ names[1] = "market"
      /\ names[2] = "base_mint"
      /\ names[3] = "quote_mint"
      /\ names[4] = "base_vault"
      /\ names[5] = "quote_vault"
      /\ names[6] = "authority"
      /\ names[7] = "config"
  OBVIOUS
<1>3. /\ DOMAIN call.metas = 1 .. 7
      /\ call.metas[1] = SignWrite("market")
      /\ call.metas[2] = Read("base_mint")
      /\ call.metas[3] = Read("quote_mint")
      /\ call.metas[4] = Read("base_vault")
      /\ call.metas[5] = Read("quote_vault")
      /\ call.metas[6] = Read("authority")
      /\ call.metas[7] = Read("config")
  BY DEF CreateMarketCall
<1> HIDE DEF names, call
<1>4. /\ call.metas[1].name = names[1] /\ call.metas[1].signer /\ call.metas[1].writable
      /\ call.metas[2].name = names[2]
      /\ call.metas[3].name = names[3]
      /\ call.metas[4].name = names[4]
      /\ call.metas[5].name = names[5]
      /\ call.metas[6].name = names[6]
      /\ call.metas[7].name = names[7]
  BY <1>2, <1>3 DEF Read, SignWrite, Meta
<1>5. \A k \in 1 .. 7 : k = 1 \/ k = 2 \/ k = 3 \/ k = 4 \/ k = 5 \/ k = 6 \/ k = 7
  OBVIOUS
<1>6. \A k \in 1 .. 7 : call.metas[k].name = names[k]
  BY <1>4, <1>5
<1>7. PICK a \in Bind(Built(call, keys), names) : Placed(call, keys, names, 7, a)
  <2>1. Named(call, names, 7)
    BY <1>1, <1>3, <1>6 DEF Named
  <2> QED BY <2>1, Brings, Zenon
<1>8. /\ a.market.key = keys.market /\ a.market.signer /\ a.market.writable
      /\ a.base_mint.key = keys.base_mint
      /\ a.quote_mint.key = keys.quote_mint
      /\ a.base_vault.key = keys.base_vault
      /\ a.quote_vault.key = keys.quote_vault
      /\ a.authority.key = keys.authority
      /\ a.config.key = keys.config
  <2>1. 1 \in 1 .. 7 /\ 2 \in 1 .. 7 /\ 3 \in 1 .. 7 /\ 4 \in 1 .. 7 /\
          5 \in 1 .. 7 /\ 6 \in 1 .. 7 /\ 7 \in 1 .. 7
    OBVIOUS
  <2> QED BY <1>2, <1>4, <1>7, <2>1 DEF Placed
<1> QED BY <1>7, <1>8 DEF names, call

-----------------------------------------------------------------------------
(* What the program makes of them                                          *)

\* A call of an owner and a market passes the checks of the makers.
LEMMA OwnerServed ==
  ASSUME NEW call, NEW keys, call.metas = <<Sign("owner"), Write("market")>>,
         MarketCheck(keys.market)
  PROVE  OwnerAndMarket(Built(call, keys))
<1> DEFINE names == <<"owner", "market">>
<1>1. /\ DOMAIN names = 1 .. 2 /\ Len(names) = 2 /\ 2 \in Nat
      /\ names[1] = "owner" /\ names[2] = "market"
      /\ \A i, j \in 1 .. 2 : names[i] = names[j] => i = j
  OBVIOUS
<1>2. /\ DOMAIN call.metas = 1 .. 2
      /\ call.metas[1] = Sign("owner") /\ call.metas[2] = Write("market")
  OBVIOUS
<1>3. /\ call.metas[1].name = "owner" /\ call.metas[1].signer
      /\ call.metas[2].name = "market" /\ call.metas[2].writable
  BY <1>2 DEF Sign, Write, Meta
<1> HIDE DEF names
<1>4. \A k \in 1 .. 2 : k = 1 \/ k = 2
  OBVIOUS
<1>5. Named(call, names, 2)
  BY <1>1, <1>2, <1>3, <1>4 DEF Named
<1>6. PICK a \in Bind(Built(call, keys), names) : Placed(call, keys, names, 2, a)
  BY <1>5, Brings, Zenon
<1>7. a.owner.signer /\ a.market.writable /\ a.market.key = keys.market
  <2>1. 1 \in 1 .. 2 /\ 2 \in 1 .. 2
    OBVIOUS
  <2> QED BY <1>1, <1>3, <1>6, <2>1 DEF Placed
<1> QED BY <1>6, <1>7, Zenon DEF OwnerAndMarket, names

\* What the keys a client knows are.
LEMMA KnownAre ==
  ASSUME NEW m, NEW o
  PROVE  LET keys == Known(m, o)
             h == markets[m]
             c == configs[h.config]
         IN /\ keys.owner = o /\ keys.user = o /\ keys.market = m /\ keys.authority = h.authority
            /\ keys.config = h.config /\ keys.seat_authority = c.seatAuthority
            /\ keys.market_authority = c.marketAuthority
            /\ keys.owner_base_ata = Ata(o, h.baseProgram, h.base)
            /\ keys.owner_quote_ata = Ata(o, h.quoteProgram, h.quote)
            /\ keys.user_base_ata = Ata(o, h.baseProgram, h.base)
            /\ keys.user_quote_ata = Ata(o, h.quoteProgram, h.quote)
            /\ keys.authority_quote_ata = Ata(h.authority, h.quoteProgram, h.quote)
            /\ keys.base_vault = h.baseVault /\ keys.quote_vault = h.quoteVault
            /\ keys.vault_authority = h.vaultAuthority
            /\ keys.base_mint = h.base /\ keys.quote_mint = h.quote
            /\ keys.base_token_program = h.baseProgram
            /\ keys.quote_token_program = h.quoteProgram
BY DEF Known

\* A transfer between the accounts derived for two owners goes through.
LEMMA Transfers ==
  ASSUME NEW program, NEW from, NEW mint, NEW to, NEW authority,
         NEW owner \in Wallets \cup {VaultAuthority(n) : n \in MarketKeys},
         from.key = Ata(authority.key, program.key, mint.key),
         to.key = Ata(owner, program.key, mint.key), from.writable, to.writable
  PROVE  Transferable(program, from, mint, to, authority)
BY Zenon DEF Transferable

\* A market that exists serves every call made with the keys it tells.
LEMMA Serves ==
  ASSUME IInv, NEW m \in MarketKeys, NEW o \in Wallets, Exists(m)
  PROVE  MarketServes(m, o)
<1> DEFINE keys == Known(m, o)
           h == markets[m]
           c == configs[h.config]
<1>1. MarketCheck(m)
  BY DEF IInv, TermsFit, MarketCheck
<1>2. ConfigCheck(h.config)
  BY DEF IInv, HasConfig, ConfigCheck
<1>3. /\ keys.owner = o /\ keys.user = o /\ keys.market = m /\ keys.authority = h.authority
      /\ keys.config = h.config /\ keys.seat_authority = c.seatAuthority
      /\ keys.market_authority = c.marketAuthority
      /\ keys.owner_base_ata = Ata(o, h.baseProgram, h.base)
      /\ keys.owner_quote_ata = Ata(o, h.quoteProgram, h.quote)
      /\ keys.user_base_ata = Ata(o, h.baseProgram, h.base)
      /\ keys.user_quote_ata = Ata(o, h.quoteProgram, h.quote)
      /\ keys.authority_quote_ata = Ata(h.authority, h.quoteProgram, h.quote)
      /\ keys.base_vault = h.baseVault /\ keys.quote_vault = h.quoteVault
      /\ keys.vault_authority = h.vaultAuthority
      /\ keys.base_mint = h.base /\ keys.quote_mint = h.quote
      /\ keys.base_token_program = h.baseProgram
      /\ keys.quote_token_program = h.quoteProgram
  BY KnownAre
<1>4. /\ h.authority \in Wallets /\ h.vaultAuthority = VaultAuthority(m)
      /\ h.baseVault = Ata(VaultAuthority(m), h.baseProgram, h.base)
      /\ h.quoteVault = Ata(VaultAuthority(m), h.quoteProgram, h.quote)
  BY DEF IInv, TermsFit, Vault
<1>5. o # Zero
  BY VenueAssumption
<1> DEFINE Owners == Wallets \cup {VaultAuthority(n) : n \in MarketKeys}
<1>6. o \in Owners /\ h.authority \in Owners /\ VaultAuthority(m) \in Owners
  BY <1>4
<1> HIDE DEF keys, c, Owners
<1>7. /\ CloseSeatAccounts(Built(CloseSeatCall, keys))
      /\ MassQuoteAccounts(Built(MassQuoteCall(1, 1), keys))
      /\ PlaceLimitAccounts(Built(PlaceLimitCall, keys))
      /\ CancelAccounts(Built(CancelCall, keys))
      /\ PlaceTakeAccounts(Built(PlaceTakeCall, keys))
  <2>1. MarketCheck(keys.market)
    BY <1>1, <1>3
  <2>2. \A call \in {CloseSeatCall, MassQuoteCall(1, 1), PlaceLimitCall, CancelCall, PlaceTakeCall} :
          call.metas = <<Sign("owner"), Write("market")>>
    BY DEF CloseSeatCall, MassQuoteCall, PlaceLimitCall, CancelCall, PlaceTakeCall
  <2>3. \A call \in {CloseSeatCall, MassQuoteCall(1, 1), PlaceLimitCall, CancelCall, PlaceTakeCall} :
          OwnerAndMarket(Built(call, keys))
    BY <2>1, <2>2, OwnerServed
  <2> QED BY <2>3 DEF CloseSeatAccounts, MassQuoteAccounts, PlaceLimitAccounts, CancelAccounts,
                      PlaceTakeAccounts
<1>8. ReapExpiredAccounts(Built(ReapExpiredCall, keys))
  <2>1. PICK a \in Bind(Built(ReapExpiredCall, keys), <<"market">>) :
          a.market.key = keys.market /\ a.market.writable
    BY ReapExpiredBrings
  <2> QED BY <1>1, <1>3, <2>1, Zenon DEF ReapExpiredAccounts
<1>9. ClaimSeatAccounts(Built(ClaimSeatCall, keys))
  <2>1. PICK a \in Bind(Built(ClaimSeatCall, keys),
                        <<"seat_authority", "owner", "config", "market">>) :
          /\ a.seat_authority.key = keys.seat_authority /\ a.seat_authority.signer
          /\ a.owner.key = keys.owner
          /\ a.config.key = keys.config
          /\ a.market.key = keys.market /\ a.market.writable
    BY ClaimSeatBrings
  <2>2. /\ MarketCheck(a.market.key) /\ ConfigCheck(a.config.key)
        /\ Header(a.market).config = a.config.key
        /\ Role(a.config).seatAuthority = a.seat_authority.key
        /\ a.owner.key # Zero
    BY <1>1, <1>2, <1>3, <1>5, <2>1 DEF Header, Role, c
  <2> QED BY <2>1, <2>2, Zenon DEF ClaimSeatAccounts
<1>10. ReanchorAccounts(Built(ReanchorCall, keys))
  <2>1. PICK a \in Bind(Built(ReanchorCall, keys), <<"market_authority", "config", "market">>) :
          /\ a.market_authority.key = keys.market_authority /\ a.market_authority.signer
          /\ a.config.key = keys.config
          /\ a.market.key = keys.market /\ a.market.writable
    BY ReanchorBrings
  <2>2. /\ MarketCheck(a.market.key) /\ ConfigCheck(a.config.key)
        /\ Header(a.market).config = a.config.key
        /\ Role(a.config).marketAuthority = a.market_authority.key
    BY <1>1, <1>2, <1>3, <2>1 DEF Header, Role, c
  <2> QED BY <2>1, <2>2, Zenon DEF ReanchorAccounts
<1>11. UpdateFeeAccounts(Built(UpdateFeeCall, keys))
  <2>1. PICK a \in Bind(Built(UpdateFeeCall, keys), <<"authority", "market">>) :
          /\ a.authority.key = keys.authority /\ a.authority.signer
          /\ a.market.key = keys.market /\ a.market.writable
    BY UpdateFeeBrings
  <2>2. MarketCheck(a.market.key) /\ Header(a.market).authority = a.authority.key
    BY <1>1, <1>3, <2>1 DEF Header
  <2> QED BY <2>1, <2>2, Zenon DEF UpdateFeeAccounts
<1>12. DepositAccounts(Built(DepositCall, keys))
  <2>1. PICK a \in Bind(Built(DepositCall, keys),
                        <<"owner", "market", "owner_base_ata", "owner_quote_ata",
                          "base_vault", "quote_vault", "base_mint", "quote_mint",
                          "base_token_program", "quote_token_program">>) :
          /\ a.owner.key = keys.owner /\ a.owner.signer
          /\ a.market.key = keys.market /\ a.market.writable
          /\ a.owner_base_ata.key = keys.owner_base_ata /\ a.owner_base_ata.writable
          /\ a.owner_quote_ata.key = keys.owner_quote_ata /\ a.owner_quote_ata.writable
          /\ a.base_vault.key = keys.base_vault /\ a.base_vault.writable
          /\ a.quote_vault.key = keys.quote_vault /\ a.quote_vault.writable
          /\ a.base_mint.key = keys.base_mint /\ a.quote_mint.key = keys.quote_mint
          /\ a.base_token_program.key = keys.base_token_program
          /\ a.quote_token_program.key = keys.quote_token_program
    BY DepositBrings
  <2>2. MarketCheck(a.market.key) /\ VaultsMatch(a)
    BY <1>1, <1>3, <2>1 DEF VaultsMatch, Header
  <2>3. /\ Transferable(a.base_token_program, a.owner_base_ata, a.base_mint,
                        a.base_vault, a.owner)
        /\ Transferable(a.quote_token_program, a.owner_quote_ata, a.quote_mint,
                        a.quote_vault, a.owner)
    <3>1. /\ a.owner_base_ata.key = Ata(a.owner.key, a.base_token_program.key, a.base_mint.key)
          /\ a.base_vault.key =
               Ata(VaultAuthority(m), a.base_token_program.key, a.base_mint.key)
          /\ a.owner_quote_ata.key =
               Ata(a.owner.key, a.quote_token_program.key, a.quote_mint.key)
          /\ a.quote_vault.key =
               Ata(VaultAuthority(m), a.quote_token_program.key, a.quote_mint.key)
      BY <1>3, <1>4, <2>1
    <3> QED BY <1>6, <2>1, <3>1, Transfers DEF Owners
  <2> QED BY <2>1, <2>2, <2>3, Zenon DEF DepositAccounts
<1>13. WithdrawAccounts(Built(WithdrawCall, keys))
  <2>1. PICK a \in Bind(Built(WithdrawCall, keys),
                        <<"owner", "market", "owner_base_ata", "owner_quote_ata",
                          "base_vault", "quote_vault", "vault_authority", "base_mint",
                          "quote_mint", "base_token_program", "quote_token_program">>) :
          /\ a.owner.key = keys.owner /\ a.owner.signer
          /\ a.market.key = keys.market /\ a.market.writable
          /\ a.owner_base_ata.key = keys.owner_base_ata /\ a.owner_base_ata.writable
          /\ a.owner_quote_ata.key = keys.owner_quote_ata /\ a.owner_quote_ata.writable
          /\ a.base_vault.key = keys.base_vault /\ a.base_vault.writable
          /\ a.quote_vault.key = keys.quote_vault /\ a.quote_vault.writable
          /\ a.vault_authority.key = keys.vault_authority
          /\ a.base_mint.key = keys.base_mint /\ a.quote_mint.key = keys.quote_mint
          /\ a.base_token_program.key = keys.base_token_program
          /\ a.quote_token_program.key = keys.quote_token_program
    BY WithdrawBrings
  <2>2. /\ MarketCheck(a.market.key) /\ VaultsMatch(a)
        /\ a.vault_authority.key = Header(a.market).vaultAuthority
    BY <1>1, <1>3, <2>1 DEF VaultsMatch, Header
  <2>3. /\ Transferable(a.base_token_program, a.base_vault, a.base_mint,
                        a.owner_base_ata, a.vault_authority)
        /\ Transferable(a.quote_token_program, a.quote_vault, a.quote_mint,
                        a.owner_quote_ata, a.vault_authority)
    BY <1>3, <1>4, <1>6, <2>1, Transfers DEF Owners
  <2> QED BY <2>1, <2>2, <2>3, Zenon DEF WithdrawAccounts
<1>14. SwapAccounts(Built(SwapCall, keys))
  <2>1. PICK a \in Bind(Built(SwapCall, keys),
                        <<"user", "market", "user_base_ata", "user_quote_ata",
                          "base_vault", "quote_vault", "vault_authority", "base_mint",
                          "quote_mint", "base_token_program", "quote_token_program">>) :
          /\ a.user.key = keys.user /\ a.user.signer
          /\ a.market.key = keys.market /\ a.market.writable
          /\ a.user_base_ata.key = keys.user_base_ata /\ a.user_base_ata.writable
          /\ a.user_quote_ata.key = keys.user_quote_ata /\ a.user_quote_ata.writable
          /\ a.base_vault.key = keys.base_vault /\ a.base_vault.writable
          /\ a.quote_vault.key = keys.quote_vault /\ a.quote_vault.writable
          /\ a.vault_authority.key = keys.vault_authority
          /\ a.base_mint.key = keys.base_mint /\ a.quote_mint.key = keys.quote_mint
          /\ a.base_token_program.key = keys.base_token_program
          /\ a.quote_token_program.key = keys.quote_token_program
    BY SwapBrings
  <2>2. /\ MarketCheck(a.market.key) /\ VaultsMatch(a)
        /\ a.vault_authority.key = Header(a.market).vaultAuthority
    BY <1>1, <1>3, <2>1 DEF VaultsMatch, Header
  <2>3. /\ Transferable(a.base_token_program, a.user_base_ata, a.base_mint,
                        a.base_vault, a.user)
        /\ Transferable(a.quote_token_program, a.quote_vault, a.quote_mint,
                        a.user_quote_ata, a.vault_authority)
    <3>1. /\ a.user_base_ata.key = Ata(a.user.key, a.base_token_program.key, a.base_mint.key)
          /\ a.base_vault.key =
               Ata(VaultAuthority(m), a.base_token_program.key, a.base_mint.key)
          /\ a.quote_vault.key =
               Ata(a.vault_authority.key, a.quote_token_program.key, a.quote_mint.key)
          /\ a.user_quote_ata.key = Ata(o, a.quote_token_program.key, a.quote_mint.key)
      BY <1>3, <1>4, <2>1
    <3> QED BY <1>6, <2>1, <3>1, Transfers DEF Owners
  <2> QED BY <2>1, <2>2, <2>3, Zenon DEF SwapAccounts
<1>15. CollectFeesAccounts(Built(CollectFeesCall, keys))
  <2>1. PICK a \in Bind(Built(CollectFeesCall, keys),
                        <<"authority", "market", "quote_vault", "authority_quote_ata",
                          "vault_authority", "quote_mint", "quote_token_program">>) :
          /\ a.authority.key = keys.authority /\ a.authority.signer
          /\ a.market.key = keys.market /\ a.market.writable
          /\ a.quote_vault.key = keys.quote_vault /\ a.quote_vault.writable
          /\ a.authority_quote_ata.key = keys.authority_quote_ata
          /\ a.authority_quote_ata.writable
          /\ a.vault_authority.key = keys.vault_authority
          /\ a.quote_mint.key = keys.quote_mint
          /\ a.quote_token_program.key = keys.quote_token_program
    BY CollectFeesBrings
  <2>2. /\ MarketCheck(a.market.key)
        /\ Header(a.market).authority = a.authority.key
        /\ a.quote_vault.key = Header(a.market).quoteVault
        /\ a.vault_authority.key = Header(a.market).vaultAuthority
        /\ a.quote_token_program.key = Header(a.market).quoteProgram
    BY <1>1, <1>3, <2>1 DEF Header
  <2>3. Transferable(a.quote_token_program, a.quote_vault, a.quote_mint,
                     a.authority_quote_ata, a.vault_authority)
    BY <1>3, <1>4, <1>6, <2>1, Transfers DEF Owners
  <2> QED BY <2>1, <2>2, <2>3, Zenon DEF CollectFeesAccounts
<1> QED BY <1>7, <1>8, <1>9, <1>10, <1>11, <1>12, <1>13, <1>14, <1>15, Zenon
        DEF MarketServes, keys

\* The client decodes what the program accepts.
LEMMA DecodesAccepted ==
  ASSUME NEW m \in MarketKeys, markets[m].len \in Nat, Exists(m) => TermsFit(m, markets[m])
  PROVE  SnapshotDecodes(m) <=> MarketCheck(m)
<1>1. SnapshotPoolOffset = PoolOffset
  BY DEF SnapshotPoolOffset, PoolOffset, BitmapLen
<1>2. CASE ~Exists(m)
  BY <1>2 DEF Exists, SnapshotDecodes, MarketCheck, MarketVersion
<1>3. CASE Exists(m)
  <2>1. TermsFit(m, markets[m])
    BY <1>3
  <2>2. MarketCheck(m)
    BY <2>1 DEF TermsFit, MarketCheck
  <2>3. /\ markets[m].version = 4 /\ markets[m].len >= PoolOffset + MinPool * NodeLen
        /\ markets[m].len = PoolOffset + markets[m].capacity * 30
    BY <2>1 DEF TermsFit, MarketVersion, NodeLen
  <2>4. PoolOffset \in Nat /\ MinPool * NodeLen \in Nat
    BY DEF PoolOffset, BitmapLen, MinPool, NodeLen
  <2>5. markets[m].len >= PoolOffset
    BY <2>3, <2>4
  <2> QED BY <1>1, <2>2, <2>3, <2>5, Zenon DEF SnapshotDecodes
<1> QED BY <1>2, <1>3

\* A wallet makes its config, and updates the one it has.
LEMMA ConfigServed ==
  ASSUME IInv, NEW a \in Wallets
  PROVE  LET keys == [payer |-> a, config |-> ConfigKey(a), authority |-> a,
                      system_program |-> "system"]
         IN IF Configured(ConfigKey(a)) THEN UpdateConfigAccounts(Built(UpdateConfigCall, keys))
            ELSE CreateConfigAccounts(Built(CreateConfigCall, keys))
<1> DEFINE keys == [payer |-> a, config |-> ConfigKey(a), authority |-> a,
                    system_program |-> "system"]
<1>1. keys.config = ConfigKey(a) /\ keys.authority = a
  OBVIOUS
<1>2. ConfigKey(a) \in ConfigKeys /\ IsConfig(a)
  BY DEF IInv, ConfigKeys
<1> HIDE DEF keys
<1>3. ASSUME Configured(ConfigKey(a)) PROVE UpdateConfigAccounts(Built(UpdateConfigCall, keys))
  <2>1. PICK b \in Bind(Built(UpdateConfigCall, keys), <<"authority", "config">>) :
          /\ b.authority.key = keys.authority /\ b.authority.signer
          /\ b.config.key = keys.config /\ b.config.writable
    BY UpdateConfigBrings
  <2>2. configs[ConfigKey(a)].version = ConfigVersion /\ configs[ConfigKey(a)].authority = a
    BY <1>2, <1>3 DEF IsConfig, Configured
  <2>3. ConfigCheck(b.config.key) /\ Role(b.config).authority = b.authority.key
    BY <1>1, <1>2, <2>1, <2>2 DEF ConfigCheck, Role
  <2> QED BY <2>1, <2>3, Zenon DEF UpdateConfigAccounts
<1>4. ASSUME ~Configured(ConfigKey(a)) PROVE CreateConfigAccounts(Built(CreateConfigCall, keys))
  <2>1. PICK b \in Bind(Built(CreateConfigCall, keys),
                        <<"payer", "config", "authority", "system_program">>) :
          /\ b.payer.key = keys.payer /\ b.payer.signer
          /\ b.config.key = keys.config /\ b.config.writable
          /\ b.authority.key = keys.authority /\ b.authority.signer
    BY CreateConfigBrings
  <2>2. /\ b.config.key = ConfigKey(b.authority.key)
        /\ b.config.key \in ConfigKeys /\ configs[b.config.key] = NoConfig
    BY <1>1, <1>2, <1>4, <2>1 DEF Configured
  <2> QED BY <2>1, <2>2, Zenon DEF CreateConfigAccounts
<1> QED BY <1>3, <1>4, Zenon DEF keys

\* An empty account of a legal length becomes a market of any two mints no
\* delegate holds.
LEMMA MarketMade ==
  ASSUME IInv, NEW m \in MarketKeys, NEW c \in ConfigKeys,
         NEW base \in MintKeys, NEW quote \in MintKeys,
         ~Exists(m), Configured(c), base # quote,
         \E cap \in MinPool .. MaxPool : MarketLen[m] = PoolOffset + cap * NodeLen,
         \A mint \in {base, quote} :
           /\ MintData[mint].kind = "mint" /\ MintData[mint].initialized
           /\ MintData[mint].program \in {"legacy", "2022"} /\ ~Delegated(MintData[mint])
  PROVE  CreateMarketAccounts(Built(CreateMarketCall,
           [market |-> m, base_mint |-> base, quote_mint |-> quote,
            base_vault |-> Vault(m, base), quote_vault |-> Vault(m, quote),
            authority |-> c[2], config |-> c]))
<1> DEFINE keys == [market |-> m, base_mint |-> base, quote_mint |-> quote,
                    base_vault |-> Vault(m, base), quote_vault |-> Vault(m, quote),
                    authority |-> c[2], config |-> c]
<1>1. /\ keys.market = m /\ keys.base_mint = base /\ keys.quote_mint = quote
      /\ keys.base_vault = Vault(m, base) /\ keys.quote_vault = Vault(m, quote)
      /\ keys.config = c
  OBVIOUS
<1> HIDE DEF keys
<1>2. PICK a \in Bind(Built(CreateMarketCall, keys),
                      <<"market", "base_mint", "quote_mint", "base_vault",
                        "quote_vault", "authority", "config">>) :
        /\ a.market.key = keys.market /\ a.market.signer /\ a.market.writable
        /\ a.base_mint.key = keys.base_mint /\ a.quote_mint.key = keys.quote_mint
        /\ a.base_vault.key = keys.base_vault /\ a.quote_vault.key = keys.quote_vault
        /\ a.config.key = keys.config
  BY CreateMarketBrings
<1>3. ASSUME NEW mint \in {base, quote} PROVE mint \in AcceptedMints
  <2>1. mint \in MintKeys /\ IsTokenAccount(MintData[mint])
    BY VenueAssumption
  <2> QED BY <2>1, AcceptedAre DEF AcceptedMints
<1>4. MintsAccepted(a.base_mint.key, a.quote_mint.key)
  BY <1>1, <1>2, <1>3 DEF MintsAccepted
<1>5. ConfigCheck(a.config.key)
  <2>1. PICK w \in Wallets : c = ConfigKey(w)
    BY DEF ConfigKeys
  <2>2. configs[c].version = ConfigVersion
    BY <2>1 DEF IInv, IsConfig, Configured
  <2> QED BY <1>1, <1>2, <2>2 DEF ConfigCheck
<1>6. CanInitialize(a.market)
  <2>1. PICK cap \in MinPool .. MaxPool : MarketLen[m] = PoolOffset + cap * NodeLen
    OBVIOUS
  <2>2. markets[m].len = PoolOffset + cap * NodeLen /\ markets[m].version = 0
    BY <2>1 DEF IInv, Exists
  <2>3. /\ cap \in Nat /\ cap >= MinPool /\ cap <= MaxPool
        /\ PoolOffset \in Nat /\ NodeLen = 30
    BY DEF MinPool, MaxPool, PoolOffset, BitmapLen, NodeLen
  <2>4. /\ markets[m].len - PoolOffset = cap * 30
        /\ markets[m].len >= PoolOffset + MinPool * NodeLen
    BY <2>2, <2>3 DEF MinPool
  <2>5. (cap * 30) % 30 = 0 /\ (cap * 30) \div 30 = cap
    BY <2>3
  <2> QED BY ZenonT(60), <1>1, <1>2, <2>2, <2>3, <2>4, <2>5 DEF CanInitialize
<1>7. /\ a.base_vault.key = Vault(a.market.key, a.base_mint.key)
      /\ a.quote_vault.key = Vault(a.market.key, a.quote_mint.key)
  BY <1>1, <1>2
<1>8. CreateMarketAccounts(Built(CreateMarketCall, keys))
  BY <1>2, <1>4, <1>5, <1>6, <1>7, Zenon DEF CreateMarketAccounts
<1> QED BY <1>8 DEF keys

\* The program serves what its client builds, on every market, for every
\* wallet, mint and length.
THEOREM ClientsAlwaysServed == Spec => []ClientsServed
<1>1. ASSUME IInv PROVE ClientsServed
  <2>1. \A m \in MarketKeys, o \in Wallets : Exists(m) => MarketServes(m, o)
    BY <1>1, Serves
  <2>2. ASSUME NEW m \in MarketKeys PROVE SnapshotDecodes(m) <=> MarketCheck(m)
    <3>1. markets[m].len \in Nat /\ (Exists(m) => TermsFit(m, markets[m]))
      BY <1>1, VenueAssumption DEF IInv
    <3> QED BY <3>1, DecodesAccepted
  <2>3. \A a \in Wallets :
          LET keys == [payer |-> a, config |-> ConfigKey(a), authority |-> a,
                       system_program |-> "system"]
          IN IF Configured(ConfigKey(a)) THEN UpdateConfigAccounts(Built(UpdateConfigCall, keys))
             ELSE CreateConfigAccounts(Built(CreateConfigCall, keys))
    BY <1>1, ConfigServed
  <2>4. \A m \in MarketKeys, c \in ConfigKeys, base, quote \in MintKeys :
          /\ ~Exists(m) /\ Configured(c) /\ base # quote
          /\ \E cap \in MinPool .. MaxPool : MarketLen[m] = PoolOffset + cap * NodeLen
          /\ \A mint \in {base, quote} :
               /\ MintData[mint].kind = "mint" /\ MintData[mint].initialized
               /\ MintData[mint].program \in {"legacy", "2022"} /\ ~Delegated(MintData[mint])
          => CreateMarketAccounts(Built(CreateMarketCall,
               [market |-> m, base_mint |-> base, quote_mint |-> quote,
                base_vault |-> Vault(m, base), quote_vault |-> Vault(m, quote),
                authority |-> c[2], config |-> c]))
    BY <1>1, MarketMade
  <2> QED BY <2>1, <2>2, <2>3, <2>4, ClientUnderstood DEF ClientsServed
<1> QED BY <1>1, IInvHolds, PTL

-----------------------------------------------------------------------------
(* The two ways in                                                         *)

RecordBody(input, f) ==
  [j \in 1 .. Len(input.accts) + 1 |->
     IF j = 1 THEN 8 ELSE f[j - 1] + RecordSize(input.accts[j - 1])]
Records(input) == CHOOSE f : f = RecordBody(input, f)

\* Where a record starts is the solution of its equation there.
LEMMA RecordAtDef == ASSUME NEW input, NEW k PROVE RecordAt(input, k) = Records(input)[k]
BY Zenon DEF RecordAt, Records, RecordBody

\* A record is a multiple of 8 bytes long, and the offset arithmetic of the
\* entrypoint steps over it from any aligned start.
LEMMA SizeIs ==
  ASSUME NEW acct, acct.marker # NonDup \/ acct.len \in Nat
  PROVE  /\ RecordSize(acct) \in Nat /\ RecordSize(acct) >= 8 /\ RecordSize(acct) % 8 = 0
         /\ acct.marker = NonDup =>
              /\ RecordSize(acct) > Preamble
              /\ \A a \in Nat : a % 8 = 0 =>
                   Align8(a + Preamble + acct.len + Padding) + RentEpoch = a + RecordSize(acct)
<1>1. CASE acct.marker # NonDup
  BY <1>1 DEF RecordSize, NonDup
<1>2. CASE acct.marker = NonDup
  <2>1. acct.len \in Nat
    BY <1>2
  <2> DEFINE spare == acct.len + Padding
  <2>2. spare \in Nat
    BY <2>1 DEF Padding
  <2>3. RecordSize(acct) = 88 + spare + ((8 - (spare % 8)) % 8) + 8
    BY <1>2 DEF RecordSize, Preamble, RentEpoch
  <2>4. ASSUME NEW a \in Nat, a % 8 = 0
        PROVE  Align8(a + Preamble + acct.len + Padding) + RentEpoch = a + RecordSize(acct)
    <3>1. a + Preamble + acct.len + Padding = a + 88 + spare
      BY <2>1 DEF Preamble, Padding
    <3> HIDE DEF spare
    <3>2. (a + 88 + spare) % 8 = spare % 8
      BY <2>2, <2>4
    <3>3. Align8(a + 88 + spare) = a + 88 + spare + ((8 - (spare % 8)) % 8)
      BY <3>2, Zenon DEF Align8
    <3>4. Align8(a + Preamble + acct.len + Padding) = a + 88 + spare + ((8 - (spare % 8)) % 8)
      BY <3>1, <3>3, Zenon
    <3>5. (8 - (spare % 8)) % 8 \in Nat
      BY <2>2
    <3> QED BY <2>2, <2>3, <3>4, <3>5 DEF RentEpoch
  <2> HIDE DEF spare
  <2>5. (8 - (spare % 8)) % 8 \in Nat /\ (spare + ((8 - (spare % 8)) % 8)) % 8 = 0
    BY <2>2
  <2> QED BY <1>2, <2>2, <2>3, <2>4, <2>5 DEF Preamble
<1> QED BY <1>1, <1>2

\* Where the two records of a maker's call and its data start.
LEMMA TwoRecords ==
  ASSUME NEW input, Len(input.accts) = 2,
         \A k \in 1 .. 2 : RecordSize(input.accts[k]) \in Nat
  PROVE  /\ RecordAt(input, 1) = 8
         /\ RecordAt(input, 2) = 8 + RecordSize(input.accts[1])
         /\ IxLenAt(input) = 8 + RecordSize(input.accts[1]) + RecordSize(input.accts[2])
<1> DEFINE s == RecordSize(input.accts[1])
           t == RecordSize(input.accts[2])
           g == [j \in 1 .. 3 |-> IF j = 1 THEN 8 ELSE IF j = 2 THEN 8 + s ELSE 8 + s + t]
           f == Records(input)
<1>1. s \in Nat /\ t \in Nat
  OBVIOUS
<1>2. g = RecordBody(input, g)
  <2>1. RecordBody(input, g) = [j \in 1 .. 3 |->
          IF j = 1 THEN 8 ELSE g[j - 1] + RecordSize(input.accts[j - 1])]
    BY DEF RecordBody
  <2>2. ASSUME NEW j \in 1 .. 3
        PROVE  g[j] = IF j = 1 THEN 8 ELSE g[j - 1] + RecordSize(input.accts[j - 1])
    <3>1. CASE j = 1
      BY <3>1
    <3>2. CASE j = 2
      BY <3>2
    <3>3. CASE j = 3
      BY <3>3
    <3> QED BY <3>1, <3>2, <3>3
  <2> QED BY <2>1, <2>2
<1>3. f = RecordBody(input, f)
  BY <1>2, Zenon DEF Records
<1>4. f = [j \in 1 .. 3 |-> IF j = 1 THEN 8 ELSE f[j - 1] + RecordSize(input.accts[j - 1])]
  BY <1>3 DEF RecordBody
<1> HIDE DEF f
<1>5. f[1] = 8
  BY <1>4
<1>6. f[2] = 8 + s
  BY <1>4, <1>5
<1>7. f[3] = 8 + s + t
  BY <1>4, <1>6
<1> QED BY <1>5, <1>6, <1>7, RecordAtDef DEF f, IxLenAt

\* What Peek finds of two records at the offsets that matter.
LEMMA Peeks ==
  ASSUME NEW input, Len(input.accts) = 2,
         NEW s \in Nat, NEW t \in Nat, s > 88, t >= 8,
         RecordAt(input, 1) = 8, RecordAt(input, 2) = 8 + s, IxLenAt(input) = 8 + s + t,
         input.accts[1].marker = NonDup,
         input.accts[2].marker = NonDup => t > 88
  PROVE  /\ Peek(input, 8) = NonDup
         /\ Peek(input, 8 + DataLenAt) = input.accts[1].len
         /\ Peek(input, 8 + s) = input.accts[2].marker
         /\ input.accts[2].marker = NonDup =>
              /\ Peek(input, 8 + s + DataLenAt) = input.accts[2].len
              /\ Peek(input, 8 + s + t) = input.ixLen
              /\ Peek(input, 8 + s + t + 8) = IF input.ixLen > 0 THEN input.disc ELSE Garbage
<1> DEFINE At0(at, k) == at = RecordAt(input, k)
           Len0(at, k) == input.accts[k].marker = NonDup /\ at = RecordAt(input, k) + DataLenAt
<1>1. \A k \in 1 .. 2 : k = 1 \/ k = 2
  OBVIOUS
<1>2. Peek(input, 8) = NonDup
  <2>1. (CHOOSE k \in 1 .. 2 : At0(8, k)) = 1 /\ \E k \in 1 .. 2 : At0(8, k)
    BY <1>1
  <2> QED BY <2>1 DEF Peek
<1>3. Peek(input, 8 + DataLenAt) = input.accts[1].len
  <2>1. ~\E k \in 1 .. 2 : At0(8 + DataLenAt, k)
    BY <1>1 DEF DataLenAt
  <2>2. (CHOOSE k \in 1 .. 2 : Len0(8 + DataLenAt, k)) = 1 /\ \E k \in 1 .. 2 : Len0(8 + DataLenAt, k)
    BY <1>1 DEF DataLenAt
  <2> QED BY <2>1, <2>2 DEF Peek
<1>4. Peek(input, 8 + s) = input.accts[2].marker
  <2>1. (CHOOSE k \in 1 .. 2 : At0(8 + s, k)) = 2 /\ \E k \in 1 .. 2 : At0(8 + s, k)
    BY <1>1
  <2> QED BY <2>1 DEF Peek
<1>5. ASSUME input.accts[2].marker = NonDup
      PROVE  Peek(input, 8 + s + DataLenAt) = input.accts[2].len
  <2>1. ~\E k \in 1 .. 2 : At0(8 + s + DataLenAt, k)
    BY <1>1 DEF DataLenAt
  <2>2. /\ (CHOOSE k \in 1 .. 2 : Len0(8 + s + DataLenAt, k)) = 2
        /\ \E k \in 1 .. 2 : Len0(8 + s + DataLenAt, k)
    BY <1>1, <1>5 DEF DataLenAt
  <2> QED BY <2>1, <2>2 DEF Peek
<1>6. ASSUME input.accts[2].marker = NonDup
      PROVE  /\ Peek(input, 8 + s + t) = input.ixLen
             /\ Peek(input, 8 + s + t + 8) = IF input.ixLen > 0 THEN input.disc ELSE Garbage
  <2>1. /\ ~\E k \in 1 .. 2 : At0(8 + s + t, k) \/ Len0(8 + s + t, k)
        /\ ~\E k \in 1 .. 2 : At0(8 + s + t + 8, k) \/ Len0(8 + s + t + 8, k)
    BY <1>1, <1>6 DEF DataLenAt
  <2>2. 8 + s + t + 8 # IxLenAt(input) /\ 8 + s + t + 8 = IxLenAt(input) + 8
    OBVIOUS
  <2> QED BY <2>1, <2>2 DEF Peek
<1> QED BY <1>2, <1>3, <1>4, <1>5, <1>6
\* Inputs of two accounts start with a full one.
LEMMA InputIs ==
  ASSUME IInv, NEW input \in Inputs
  PROVE  \/ Len(input.accts) # 2
         \/ /\ Len(input.accts) = 2
            /\ input.accts[1].marker = NonDup /\ input.accts[1].len \in Nat
            /\ \/ input.accts[2].marker = NonDup /\ input.accts[2].len \in Nat
               \/ input.accts[2].marker # NonDup
<1>1. \A x \in AccountLens : x \in Nat
  BY VenueAssumption DEF IInv, AccountLens
<1>2. input.accts \in AccountLists
  BY DEF Inputs
<1>3. PICK x \in AccountLens :
        \/ input.accts = <<Full(x)>>
        \/ input.accts = <<Full(x), Repeat(0)>>
        \/ input.accts = <<Full(x), Full(x), Repeat(1)>>
        \/ \E y \in AccountLens : input.accts = <<Full(x), Full(y)>>
  BY <1>2 DEF AccountLists
<1>4. \A y : Full(y).marker = NonDup /\ Full(y).len = y
  BY DEF Full
<1>5. Repeat(0).marker # NonDup
  BY DEF Repeat, NonDup
<1> QED BY <1>1, <1>3, <1>4, <1>5

\* What the shortcut makes of two records is what the walk would.
LEMMA TwoAgree ==
  ASSUME NEW input, Len(input.accts) = 2, input.ixLen \in Nat,
         input.accts[1].marker = NonDup, input.accts[1].len \in Nat,
         input.accts[2].marker = NonDup => input.accts[2].len \in Nat
  PROVE  FastView(input) =
           IF /\ input.accts[2].marker = NonDup
              /\ GenericView(input).handler \in {"MassQuote", "PlaceLimit", "Cancel"}
           THEN GenericView(input) ELSE NoView
<1> DEFINE x == input.accts[1]
           y == input.accts[2]
           s == RecordSize(x)
           t == RecordSize(y)
<1>1. /\ s \in Nat /\ s % 8 = 0 /\ s > 88 /\ t \in Nat /\ t >= 8
      /\ y.marker = NonDup => t > 88
      /\ Align8(8 + Preamble + x.len + Padding) + RentEpoch = 8 + s
  <2>1. /\ RecordSize(x) \in Nat /\ RecordSize(x) % 8 = 0 /\ RecordSize(x) > Preamble
        /\ \A a \in Nat : a % 8 = 0 =>
             Align8(a + Preamble + x.len + Padding) + RentEpoch = a + RecordSize(x)
    BY SizeIs
  <2>2. RecordSize(y) \in Nat /\ RecordSize(y) >= 8
    BY SizeIs
  <2>3. y.marker = NonDup => RecordSize(y) > Preamble
    BY SizeIs
  <2>4. 8 \in Nat /\ 8 % 8 = 0
    OBVIOUS
  <2> QED BY <2>1, <2>2, <2>3, <2>4 DEF Preamble
<1>2. /\ RecordAt(input, 1) = 8 /\ RecordAt(input, 2) = 8 + s
      /\ IxLenAt(input) = 8 + s + t
  <2>1. \A k \in 1 .. 2 : RecordSize(input.accts[k]) \in Nat
    BY <1>1
  <2> QED BY <2>1, TwoRecords
<1> HIDE DEF s, t
<1>3. /\ Peek(input, 8) = NonDup
      /\ Peek(input, 8 + DataLenAt) = x.len
      /\ Peek(input, 8 + s) = y.marker
      /\ y.marker = NonDup =>
              /\ Peek(input, 8 + s + DataLenAt) = y.len
              /\ Peek(input, 8 + s + t) = input.ixLen
              /\ Peek(input, 8 + s + t + 8) = IF input.ixLen > 0 THEN input.disc ELSE Garbage
  BY <1>1, <1>2, Peeks
<1>4. CASE y.marker # NonDup
  <2>1. FastView(input) = NoView
    BY <1>1, <1>3, <1>4, Zenon DEF FastView
  <2> QED BY <1>4, <2>1
<1>5. CASE y.marker = NonDup
  <2>1. Align8(8 + s + Preamble + y.len + Padding) + RentEpoch = 8 + s + t
    <3>1. 8 + s \in Nat /\ (8 + s) % 8 = 0
      BY <1>1
    <3> QED BY <1>5, <3>1, SizeIs DEF t
  <2> DEFINE hot == Dispatch(Peek(input, 8 + s + t + 8))
  <2>2. FastView(input) =
          IF input.ixLen >= 1 /\ hot \in {"MassQuote", "Cancel", "PlaceLimit"}
          THEN [handler |-> hot, accounts |-> <<8, 8 + s>>, data |-> 8 + s + t + 9,
                len |-> input.ixLen - 1]
          ELSE NoView
    BY <1>1, <1>3, <1>5, <2>1, Zenon DEF FastView
  <2>3. [k \in 1 .. Len(input.accts) |-> Account(input, k)] = <<8, 8 + s>>
    BY <1>2, <1>5 DEF Account
  <2>4. CASE input.ixLen = 0
    BY <1>5, <2>2, <2>4 DEF GenericView
  <2>5. CASE input.ixLen # 0
    <3>1. input.ixLen >= 1 /\ hot = Dispatch(input.disc)
      BY <1>3, <1>5, <2>5
    <3>2. GenericView(input) =
            [handler |-> hot, accounts |-> <<8, 8 + s>>, data |-> 8 + s + t + 9,
             len |-> input.ixLen - 1]
      BY <1>2, <2>3, <2>5, <3>1, Zenon DEF GenericView
    <3> HIDE DEF hot
    <3> QED BY <1>5, <2>2, <3>1, <3>2
  <2> QED BY <2>4, <2>5
<1> QED BY <1>4, <1>5

\* The entrypoint's shortcut sees what the generic walk sees, for markets of
\* any lengths.
THEOREM RoutesAlwaysAgree == Spec => []RoutesAgree
<1>1. ASSUME IInv PROVE RoutesAgree
  <2> SUFFICES ASSUME NEW input \in Inputs
               PROVE  FastView(input) =
                        IF /\ Len(input.accts) = 2
                           /\ \A k \in 1 .. 2 : input.accts[k].marker = NonDup
                           /\ GenericView(input).handler \in {"MassQuote", "PlaceLimit", "Cancel"}
                        THEN GenericView(input) ELSE NoView
    BY DEF RoutesAgree
  <2>1. CASE Len(input.accts) # 2
    <3>1. FastView(input) = NoView
      BY <2>1, Zenon DEF FastView
    <3> QED BY <2>1, <3>1
  <2>2. CASE Len(input.accts) = 2
    <3>1. /\ input.accts[1].marker = NonDup /\ input.accts[1].len \in Nat
          /\ input.accts[2].marker = NonDup => input.accts[2].len \in Nat
      BY <1>1, <2>2, InputIs
    <3>2. input.ixLen \in Nat
      BY DEF Inputs
    <3>3. (\A k \in 1 .. 2 : input.accts[k].marker = NonDup)
            <=> input.accts[2].marker = NonDup
      BY <3>1
    <3> QED BY <2>2, <3>1, <3>2, <3>3, TwoAgree
  <2> QED BY <2>1, <2>2
<1> QED BY <1>1, IInvHolds, PTL
=============================================================================
