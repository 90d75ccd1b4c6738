SPECIFICATION FairSpec
CONSTANTS
  u1 = u1
  f1 = f1
  f2 = f2
  f3 = f3
  w1 = w1
  w2 = w2
  NoToken = NoToken
  NoWrite = NoWrite
  Users = {u1}
  Flows = {f1, f2, f3}
  Writers = {w1, w2}
  MaxChanges = 1
  MaxRestarts = 1
CONSTRAINT
  OneSide
INVARIANTS
  TypeOK
  RenewalDropsRights
PROPERTIES
  EndedStaysEnded
  BanOnlyDelayed
  BanSettles
