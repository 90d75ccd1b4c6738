SPECIFICATION FairSpec
CONSTANTS
  r1 = r1
  r2 = r2
  r3 = r3
  f1 = f1
  f2 = f2
  NoJob = NoJob
  Requests = {r1, r2, r3}
  Flushers = {f1}
  Capacity = 2
  MaxRestarts = 1
INVARIANTS
  TypeOK
  FlushWaits
PROPERTIES
  RecordReturns
  QueueDrains
  ImplementsLog
