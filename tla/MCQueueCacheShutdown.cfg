\* The queue is idle, not stuck, once every command has been served.
CHECK_DEADLOCK FALSE
CONSTANTS
  t1 = t1
  t2 = t2
  t3 = t3
  t4 = t4
  a1 = a1
  a2 = a2
  NoTask = NoTask
  Task = {t1, t2, t3, t4}
  Account = {a1, a2}
  AccountOf <- MCAccountOf
  HistoryKey = {"a", "b"}
  HistoryRequest = {"r1", "r2", "r3"}
  Limit = {1, 3}
  Available <- MCAvailable
  MaxEntries = 1
  MaxBars = 2
  MaxRecoveries = 1
  Work = {"w1", "w2"}
  Client = "client"
  MaxConnected = 2
SPECIFICATION PartSpec
INVARIANTS
  QueueIsSound
  DrainCoversBacklog
  CacheIsSound
  
PROPERTIES
  EverySubmittedTaskSettles
  ImplementsSerialExecution
  RequestsAreAnswered
  
