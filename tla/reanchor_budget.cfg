\* A reanchor whose first word holds two levels.
SPECIFICATION Spec
CONSTANTS
  WindowTicks = 4
  WordTicks = 2
  TickLimit = 7
  TickSize = 1
  BaseLotSize = 3
  MaxLots = 2
  MaxSeats = 2
  MaxOrdersPerSeat = 2
  Capacity = 3
  FreedSeq = 99
  SeqModulus = 1
  Owners = {o1}
  Nobody = Nobody
  Instructions = {"PostOnly", "Reanchor"}
  FeeDenominator = 10
  MaxFeeBps = 2
  FeeRates = {1}
  U64Max = 1000
  StartAnchor = 2
  Seated = {0, 1}
  StartFunds <- TakerFunds
  StartVault <- TakerVault
  Withheld = {0}
  MaxSlot = 0
  MaxOrderIds = 2
  DepositAmounts = {}
  WithdrawAmounts = {}
  MaxVault = 50
  InTicks = {2, 3}
  InLots = {1}
  InExpiries = {0}
  Payloads <- NoPayload
  CancelIds = {}
  TakeLots = {}
  MinOuts = {}
  SwapAmounts = {}
  Policies = {}
  Targets = {4}
  MaxLevels = {1}
  ReapStarts = {}
  ReapCounts = {}
PROPERTIES
  ReanchorWithinBudget
