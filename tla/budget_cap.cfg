\* A market at its tick limit, with one lot to an order and the highest rate, and
\* a budget beyond the cap: U64Max is 59 and the dearest order costs 5 * 11 / 10.
SPECIFICATION Spec
CONSTANTS
  WindowTicks = 4
  WordTicks = 2
  TickLimit = 5
  TickSize = 1
  BaseLotSize = 3
  MaxLots = 1
  MaxSeats = 2
  MaxOrdersPerSeat = 2
  Capacity = 3
  FreedSeq = 99
  SeqModulus = 1
  Owners = {o1}
  Nobody = Nobody
  Instructions = {"PostOnly", "Swap"}
  FeeDenominator = 10
  MaxFeeBps = 1
  FeeRates = {1}
  U64Max = 59
  StartAnchor = 2
  Seated = {0, 1}
  StartFunds <- TakerFunds
  StartVault <- TakerVault
  Withheld = {0}
  MaxSlot = 1
  MaxOrderIds = 1
  DepositAmounts = {}
  WithdrawAmounts = {}
  MaxVault = 59
  InTicks = {4, 5}
  InLots = {1}
  InExpiries = {0}
  Payloads <- NoPayload
  CancelIds = {}
  TakeLots = {}
  MinOuts = {0}
  SwapAmounts = {20}
  Policies = {}
  Targets = {}
  MaxLevels = {}
  ReapStarts = {}
  ReapCounts = {}
INVARIANTS
  CappingLossless
