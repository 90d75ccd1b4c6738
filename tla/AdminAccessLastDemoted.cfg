SPECIFICATION Spec
CONSTANTS
  u1 = u1
  u2 = u2
  u3 = u3
  g1 = g1
  g2 = g2
  Users = {u1, u2}
  Callers = {g1}
  Groups <- AllGroups
  Codes <- AllCodes
  System <- SeedGroups
  Seed <- SeedCodes
  Retired <- RetiredCodes
  GroupSets <- AdminOrMember
  JoinSets <- Joining
  CodeSets <- NoLists
PROPERTIES
  DemotionKeepsAdmin
