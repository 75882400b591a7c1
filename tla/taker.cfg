\* Crossing limits and takes against resting, expiring and own orders.
SPECIFICATION Spec
CONSTANTS
  WindowTicks = 4
  WordTicks = 2
  TickLimit = 7
  TickSize = 1
  BaseLotSize = 3
  MaxLots = 2
  MaxSeats = 2
  MaxOrdersPerSeat = 2
  Capacity = 3
  FreedSeq = 99
  SeqModulus = 1
  Owners = {o1}
  Nobody = Nobody
  Instructions = {"PostOnly", "PlaceLimit", "PlaceTake"}
  FeeDenominator = 10
  MaxFeeBps = 2
  FeeRates = {2}
  U64Max = 1000
  StartAnchor = 2
  Seated = {0, 1}
  StartFunds <- TakerFunds
  StartVault <- TakerVault
  Withheld = {0}
  MaxSlot = 1
  MaxOrderIds = 3
  DepositAmounts = {}
  WithdrawAmounts = {}
  MaxVault = 50
  InTicks = {3, 4}
  InLots = {1, 2}
  InExpiries = {0, 1}
  Payloads <- NoPayload
  CancelIds = {}
  TakeLots = {2}
  MinOuts = {4}
  SwapAmounts = {}
  Policies = {"abort", "cancel"}
  Targets = {}
  MaxLevels = {}
  ReapStarts = {}
  ReapCounts = {}
INVARIANTS
  Uncrossed
PROPERTIES
  PriceTimePriority
  TakesAllItCan
  TradesSettle
  RestExact
  Implements
