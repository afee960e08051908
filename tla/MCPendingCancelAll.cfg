CONSTANTS
  l1 = l1
  s1 = s1
  k1 = k1
  p1 = p1
  p2 = p2
  NoCopy = NoCopy
  NoEvent = NoEvent
  NoTerms = NoTerms
  Order = {l1}
  TypeOf <- MCTypeOf
  Price <- MCPrice
  Protection <- MCProtection
  Amendment <- NoAmendments
  Faults = {}
  MaxFaults = 0
SPECIFICATION FairSpec
PROPERTIES
  EndedOrdersLeave
