SPECIFICATION Spec
CONSTANTS
  u1 = u1
  u2 = u2
  u3 = u3
  g1 = g1
  g2 = g2
  Users = {u1, u2}
  Callers = {g1, g2}
  Groups <- AllGroups
  Codes <- AllCodes
  System <- SeedGroups
  Seed <- SeedCodes
  Retired <- RetiredCodes
  GroupSets <- Memberships
  JoinSets <- Joining
  CodeSets <- Lists
SYMMETRY Symmetric
INVARIANTS
  TypeOK
  AdminRemains
  SetupOnce
  DeletedGroupConfersNothing
PROPERTIES
  UndisturbedBanKeepsAdmin
