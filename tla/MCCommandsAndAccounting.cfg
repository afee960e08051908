CONSTANTS
  a1 = a1
  k1 = k1
  k2 = k2
  k3 = k3
  o1 = o1
  NoOrder = NoOrder
  NoPayload = NoPayload
  Request = {r1, r2}
  Key = {k1, k2}
  Payload = {p1}
  Account = {a1}
  OrderRef = {o1}
  AccountOf <- MCAccountOf
  OrderOf <- MCOrderOf
  MaxCrashes = 1
  MaxIncarnations = 2
  r1 = r1
  r2 = r2
  p1 = p1
  MaxTrades = 2
  TradePrice = {10, 11}
  OpenVolume = 2
  CommissionPerLot = 1
  MarginPerLot = 3
  StartBalance = 16
  Deposit = {4}
  Withdrawal = {9}
  MaxOpenPositions = 2
  MaxMarginUsage = 90
  MaxSingleOrder = 80
  MaxSymbolMargin = 50
  MaxCommands = 3
  MaxQuotes = 3
  MaxRestarts = 1
  MaxCoefficient = 12
  MaxScale = 2
  Places = {0, 1, 2}
SYMMETRY Symmetry
SPECIFICATION PartSpec
INVARIANTS
  OneOrderPerClientOrderId
  RecordIsTrue
  
  
  DecimalsAreExact
PROPERTIES
  ImplementsIdempotentCommand
  
\* The commands of the account stop at their bound.
CHECK_DEADLOCK FALSE
