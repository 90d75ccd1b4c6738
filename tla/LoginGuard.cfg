SPECIFICATION FairSpec
CONSTANTS
  a1 = a1
  a2 = a2
  a3 = a3
  ann = ann
  mail = mail
  ip1 = ip1
  Attempts = {a1, a2, a3}
  Names = {ann, mail}
  Addresses = {ip1}
  Payloads <- PayloadsOf
  AccountMax = 2
  IPMax = 3
  Window = 2
  Cap = 4
INVARIANTS
  TypeOK
  OvershootBounded
PROPERTIES
  BlockEnds
