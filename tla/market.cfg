\* Every market a small set of parameters asks for.
SPECIFICATION Spec
CONSTANTS
  m1 = m1
  m2 = m2
  usdc = usdc
  sol = sol
  fees = fees
  seized = seized
  account = account
  U64Max = 511
  U32Max = 31
  Window = 4
  Word = 2
  FeeDenominator = 10
  MaxFeeBps = 2
  TickSizes <- Sizes
  LotSizes <- Sizes
  OrderCaps <- Small
  Anchors = {0, 2, 3, 4, 16, 20, 30}
  Rates = {0, 1, 2, 3}
  Wallets = {a1}
  Zero = Zero
  MarketKeys = {m1}
  MarketLen <- OneLen
  MintKeys = {usdc, sol}
  MintData <- TwoMints
INVARIANTS
  NoOverflow
  WindowFits
