\* Seatless exact-in swaps, budgeted by what arrived.
SPECIFICATION Spec
CONSTANTS
  WindowTicks = 4
  WordTicks = 2
  TickLimit = 7
  TickSize = 1
  BaseLotSize = 3
  MaxLots = 2
  MaxSeats = 2
  MaxOrdersPerSeat = 2
  Capacity = 3
  FreedSeq = 99
  SeqModulus = 1
  Owners = {o1}
  Nobody = Nobody
  Instructions = {"PostOnly", "Swap", "CollectFees", "UpdateFee"}
  FeeDenominator = 10
  MaxFeeBps = 2
  FeeRates = {2, 3}
  U64Max = 1000
  StartAnchor = 2
  Seated = {0, 1}
  StartFunds <- TakerFunds
  StartVault <- TakerVault
  Withheld = {0, 2}
  MaxSlot = 1
  MaxOrderIds = 3
  DepositAmounts = {}
  WithdrawAmounts = {}
  MaxVault = 50
  InTicks = {3, 4}
  InLots = {1, 2}
  InExpiries = {0, 1}
  Payloads <- NoPayload
  CancelIds = {}
  TakeLots = {}
  MinOuts = {0, 3}
  SwapAmounts = {9}
  Policies = {}
  Targets = {}
  MaxLevels = {}
  ReapStarts = {}
  ReapCounts = {}
INVARIANTS
  Conserved
PROPERTIES
  TakesAllItCan
  FeesRounded
  SwapExact
  Implements
