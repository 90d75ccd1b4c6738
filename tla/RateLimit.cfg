SPECIFICATION FairSpec
CONSTANTS
  r1 = r1
  r2 = r2
  k1 = k1
  k2 = k2
  t1 = t1
  t2 = t2
  b1 = b1
  b2 = b2
  b3 = b3
  b4 = b4
  NoBucket = NoBucket
  NoPolicy = NoPolicy
  NoReading = NoReading
  i1 = i1
  i2 = i2
  Requests = {r1, r2}
  Keys = {k1}
  Caller <- OneCaller
  Buckets = {b1, b2, b3}
  Policies = {0, 1, 2}
  Default = 1
  MaxLimit = 2
  Introspections = {i1, i2}
  MaxWait = 1
  Origins = {TRUE, FALSE}
  Introspected = {t1, t2}
  PATLimit = 2
  Window = 2
  Capacity = 1
  MaxChanges = 2
CONSTRAINT
  OneSide
INVARIANTS
  TypeOK
  LimitHolds
PROPERTIES
  PolicySettles
  ImplementsLimiter
