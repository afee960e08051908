CONSTANTS
  d1 = d1
  d2 = d2
  NoDrain = NoDrain
  Drain = {d1, d2}
  InitialBalance = 100
  DailyLossLimit = 10
  MaxLossLimit = 15
  Faults = {"crash", "failure"}
  Equity = {90, 100}
  Controls = {"pause", "resume"}
  MaxValuations = 2
  MaxRevisions = 1
  MaxDays = 1
  MaxFaults = 0
SPECIFICATION Spec
INVARIANTS
  BreachEnforced
CHECK_DEADLOCK FALSE
