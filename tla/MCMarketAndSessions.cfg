CONSTANTS
  StepTime = 1
  SoftAge = 0
  MaxAge = 1
  Cooldown = 1
  ConfirmTime = 1
  Tolerance = 0
  MaxGapBars = 1
  ClosedSession = {2}
  Lag = 1
  MaxPriority = 1
  MaxTicks = 2
  MaxMarketTime = 3
  r1 = r1
  r2 = r2
  k1 = k1
  NoCall = NoCall
  Caller = {r1, r2}
  Ticket = {k1}
  AccessTtl = 2
  Grace = 1
  IdleTtl = 2
  SessionTtl = 2
  TicketTtl = 1
  TouchInterval = 1
  SessionFaults = {"create", "lookup", "undo"}
  MaxSessionTime = 2
  MaxTokens = 3
  MaxSessionFaults = 1
SYMMETRY PartSymmetry
SPECIFICATION PartSpec
INVARIANTS
  
  SessionsAreSound
PROPERTIES
  RevokedIsFinal
\* The clocks of the market and of the sessions stop at their bounds.
CHECK_DEADLOCK FALSE
