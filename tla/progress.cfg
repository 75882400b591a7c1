\* Every multi-step instruction ends, under fair scheduling of its steps.
SPECIFICATION FairSpec
CONSTANTS
  WindowTicks = 4
  WordTicks = 2
  TickLimit = 7
  TickSize = 1
  BaseLotSize = 3
  MaxLots = 2
  MaxSeats = 2
  MaxOrdersPerSeat = 2
  Capacity = 2
  FreedSeq = 99
  SeqModulus = 1
  Owners = {o1}
  Nobody = Nobody
  Instructions = {"MassQuote", "PlaceTake", "Swap", "Reanchor", "ReapExpired"}
  FeeDenominator = 10
  MaxFeeBps = 2
  FeeRates = {1}
  U64Max = 1000
  StartAnchor = 2
  Seated = {0, 1}
  StartFunds <- TakerFunds
  StartVault <- TakerVault
  Withheld = {0}
  MaxSlot = 1
  MaxOrderIds = 2
  DepositAmounts = {}
  WithdrawAmounts = {}
  MaxVault = 50
  InTicks = {3, 4}
  InLots = {1}
  InExpiries = {1}
  Payloads <- TwoPayloads
  CancelIds = {}
  TakeLots = {2}
  MinOuts = {0}
  SwapAmounts = {8}
  Policies = {"cancel"}
  Targets = {4}
  MaxLevels = {1}
  ReapStarts = {2}
  ReapCounts = {2}
PROPERTIES
  InstructionsEnd
