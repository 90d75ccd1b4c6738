SPECIFICATION Spec
CONSTANTS
  r1 = r1
  r2 = r2
  r3 = r3
  t1 = t1
  i1 = i1
  edit = edit
  NoToken = NoToken
  Requests = {r1, r2}
  Legacy = {t1}
  Introspections = {i1}
  Codes = {"*", "mcp.connect", edit}
  Delegable = {"mcp.connect", edit}
  Retired = {edit}
  Grants <- GrantsOf
  Limit <- LimitOf
SYMMETRY Symmetric
INVARIANTS
  TypeOK
  QuotaHolds
PROPERTIES
  AnswerHeld
  RenamingKeepsScopes
  ImplementsCredential
CHECK_DEADLOCK FALSE
