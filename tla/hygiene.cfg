\* Reanchors and reaps over a changing book.
SPECIFICATION Spec
CONSTANTS
  WindowTicks = 4
  WordTicks = 2
  TickLimit = 9
  TickSize = 1
  BaseLotSize = 3
  MaxLots = 2
  MaxSeats = 2
  MaxOrdersPerSeat = 3
  Capacity = 3
  FreedSeq = 99
  SeqModulus = 1
  Owners = {o1}
  Nobody = Nobody
  Instructions = {"PostOnly", "Reanchor", "ReapExpired"}
  FeeDenominator = 10
  MaxFeeBps = 2
  FeeRates = {1}
  U64Max = 1000
  StartAnchor = 2
  Seated = {0, 1}
  StartFunds <- TakerFunds
  StartVault <- TakerVault
  Withheld = {0}
  MaxSlot = 1
  MaxOrderIds = 4
  DepositAmounts = {}
  WithdrawAmounts = {}
  MaxVault = 50
  InTicks = {3, 5, 6}
  InLots = {1}
  InExpiries = {0, 1}
  Payloads <- NoPayload
  CancelIds = {}
  TakeLots = {}
  MinOuts = {}
  SwapAmounts = {}
  Policies = {}
  Targets = {0, 9}
  MaxLevels = {1, 2}
  ReapStarts = {4}
  ReapCounts = {0, 2}
INVARIANTS
  WindowHolds
PROPERTIES
  ReanchorExact
  ReapExact
  Implements
