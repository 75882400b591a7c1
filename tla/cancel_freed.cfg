\* A cancel that quotes the id of a freed node.
SPECIFICATION Spec
CONSTANTS
  WindowTicks = 4
  WordTicks = 2
  TickLimit = 7
  TickSize = 1
  BaseLotSize = 3
  MaxLots = 2
  MaxSeats = 2
  MaxOrdersPerSeat = 2
  Capacity = 3
  FreedSeq = 99
  SeqModulus = 1
  Owners = {o1}
  Nobody = Nobody
  Instructions = {"PostOnly", "Cancel"}
  FeeDenominator = 10
  MaxFeeBps = 2
  FeeRates = {1}
  U64Max = 1000
  StartAnchor = 2
  Seated = {0, 1}
  StartFunds <- MakerFunds
  StartVault <- MakerVault
  Withheld = {0}
  MaxSlot = 0
  MaxOrderIds = 1
  DepositAmounts = {}
  WithdrawAmounts = {}
  MaxVault = 50
  InTicks = {3, 4}
  InLots = {1}
  InExpiries = {0}
  Payloads <- NoPayload
  CancelIds = {99}
  TakeLots = {}
  MinOuts = {}
  SwapAmounts = {}
  Policies = {}
  Targets = {}
  MaxLevels = {}
  ReapStarts = {}
  ReapCounts = {}
PROPERTIES
  CancelEndsLiveOrders
