SPECIFICATION FairSpec
CONSTANTS
  u1 = u1
  u2 = u2
  c1 = c1
  c2 = c2
  profile = profile
  email = email
  k1 = k1
  k2 = k2
  x1 = x1
  x2 = x2
  x3 = x3
  r1 = r1
  r2 = r2
  NoClient = NoClient
  Scopes = {profile, email}
  Asked <- AsksAll
  Proves <- X3Wrong
  Users = {u1}
  Clients = {c1}
  ClientForms <- AllForms
  Requests = {k1}
  Subject <- SoleSubject
  Audience <- SoleAudience
  Exchanges = {x1, x3}
  Presented <- SameCode
  Revokers = {r1}
  MaxRestarts = 0
INVARIANTS
  WrongProofKeepsCode
PROPERTIES
  AllowAnswered
