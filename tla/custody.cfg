\* Seats claimed, funded, quoted from, emptied and handed on.
SPECIFICATION Spec
CONSTANTS
  WindowTicks = 4
  WordTicks = 2
  TickLimit = 7
  TickSize = 1
  BaseLotSize = 3
  MaxLots = 2
  MaxSeats = 2
  MaxOrdersPerSeat = 2
  Capacity = 2
  FreedSeq = 2
  SeqModulus = 1
  Owners = {o1, o2}
  Nobody = Nobody
  Instructions = {"ClaimSeat", "CloseSeat", "Deposit", "Withdraw", "PostOnly", "CancelQuote", "PlaceTake", "CollectFees", "UpdateFee"}
  FeeDenominator = 10
  MaxFeeBps = 2
  FeeRates = {2}
  U64Max = 1000
  StartAnchor = 2
  Seated = {}
  StartFunds <- NoFunds
  StartVault <- NoVault
  Withheld = {0, 2}
  MaxSlot = 0
  MaxOrderIds = 3
  DepositAmounts = {0, 9}
  WithdrawAmounts = {0, 3, 1000}
  MaxVault = 9
  InTicks = {3}
  InLots = {2}
  InExpiries = {0}
  Payloads <- NoPayload
  CancelIds = {}
  TakeLots = {2}
  MinOuts = {0}
  SwapAmounts = {}
  Policies = {"cancel"}
  Targets = {}
  MaxLevels = {}
  ReapStarts = {}
  ReapCounts = {}
INVARIANTS
  FreeListExact
PROPERTIES
  SeatsHandedOverEmpty
  Implements
