SPECIFICATION GateFairSpec
CONSTANTS
  Calls = {c1}
  Emails = {e1}
  MaxCodes = 2
  Faults = TRUE
  Threads = {t1, t2}
  Passwords = {p1}
  UniqueEmail = FALSE
INVARIANTS
  GateTypeOK
  ResetMailsHaveAccounts
  RegisteredStays
  PurposeRespected
  RowsBounded
PROPERTY
  RequestsAnswered
  ImplementsService
