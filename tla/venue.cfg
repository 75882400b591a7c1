\* Accounts and authorities of two markets and mints of every kind.
SPECIFICATION Spec
CONSTANTS
  m1 = m1
  m2 = m2
  usdc = usdc
  sol = sol
  fees = fees
  seized = seized
  account = account
  U64Max = 511
  U32Max = 31
  Window = 4
  Word = 2
  FeeDenominator = 10
  MaxFeeBps = 2
  TickSizes = {1}
  LotSizes = {1}
  OrderCaps = {1}
  Anchors = {2, 4}
  Rates = {0, 1}
  Wallets = {a1, a2}
  Zero = Zero
  MarketKeys = {m1, m2}
  MarketLen <- TwoLens
  MintKeys = {usdc, fees, seized, account}
  MintData <- AllMints
SYMMETRY Interchangeable
INVARIANTS
  VaultsApart
  MintsSafe
  
  RoutesAgree
PROPERTIES
  TermsFixed
  RolesHeld
