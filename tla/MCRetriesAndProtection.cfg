CONSTANTS
  a1 = a1
  k1 = k1
  k2 = k2
  k3 = k3
  o1 = o1
  NoOrder = NoOrder
  NoPayload = NoPayload
  Request = {r1, r2}
  Key = {k3}
  Payload = {p1, p2}
  Account = {a1}
  OrderRef = {o1}
  AccountOf <- MCAccountOf
  OrderOf <- MCOrderOf
  MaxCrashes = 2
  MaxIncarnations = 2
  r1 = r1
  r2 = r2
  p1 = p1
  p2 = p2
  x1 = x1
  Position = {x1}
  Side = {"BUY", "SELL"}
  MaxPrice = 3
  Target = {1, 2, 3}
  Distance = 1
  ProtectionFaults = {"crash", "failure", "unknown"}
  MaxProtectionFaults = 1
SPECIFICATION PartSpec
INVARIANTS
  AtMostOnce
  SuccessIsTruthful
  ProtectionIsSound
PROPERTIES
  NeverStuckInProgress
  TrailingOnlyTightens
  StopsAreExecuted
\* A closed position and an idle feed may stop.
CHECK_DEADLOCK FALSE
