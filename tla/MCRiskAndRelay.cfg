CONSTANTS
  d1 = d1
  d2 = d2
  NoDrain = NoDrain
  Drain = {d1, d2}
  InitialBalance = 100
  DailyLossLimit = 10
  MaxLossLimit = 15
  Faults = {"crash", "failure"}
  Equity = {85, 90, 100}
  Controls = {"disable"}
  MaxValuations = 2
  MaxRevisions = 1
  MaxDays = 2
  MaxFaults = 1
  f1 = f1
  Fact = {f1}
  MaxAttempts = 2
  BatchSize = 1
  MaxSnapshot = 2
  MaxCaptures = 2
  MaxRelayFaults = 1
  MaxStops = 1
SPECIFICATION PartSpec
INVARIANTS
  StreamIsOrdered
  OneBaselinePerDay
  BreachEnforced
  BreachLeavesNoExposure
  OutboxIsTrue
PROPERTIES
  DrainsCatchUp
  
CHECK_DEADLOCK FALSE
