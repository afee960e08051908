CONSTANTS
  d1 = d1
  d2 = d2
  NoDrain = NoDrain
  Drain = {d1, d2}
  InitialBalance = 100
  DailyLossLimit = 10
  MaxLossLimit = 15
  Faults = {"crash"}
  Equity = {90, 100}
  Controls = {}
  MaxValuations = 2
  MaxRevisions = 0
  MaxDays = 1
  MaxFaults = 1
SPECIFICATION FairSpec
PROPERTIES
  EveryEventEvaluated
CHECK_DEADLOCK FALSE
