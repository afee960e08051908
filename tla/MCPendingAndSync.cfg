CONSTANTS
  l1 = l1
  k1 = k1
  p1 = p1
  p2 = p2
  NoCopy = NoCopy
  NoEvent = NoEvent
  NoTerms = NoTerms
  Order = {l1, k1}
  TypeOf <- MCTypeOf
  Price <- MCPrice
  Protection <- MCProtection
  Amendment <- Amendments
  Faults = {"crash", "failure", "unknown"}
  MaxFaults = 1
  Account = {1}
  MaxSyncBuffer = 1
  MaxRev = 2
  MaxSyncs = 2
  MaxChecks = 1
  MaxGrantChanges = 1
  SyncFaults = TRUE
SPECIFICATION PartSpec
INVARIANTS
  CopiesAreCurrent
  
PROPERTIES
  OrdersEndOnce
  DueOrdersEnd
  BufferDrains
\* The orders have ended, the faults are used up: the system rests.
CHECK_DEADLOCK FALSE
