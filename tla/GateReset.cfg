SPECIFICATION GateSpec
CONSTANTS
  Calls = {c1}
  Emails = {e1}
  MaxCodes = 2
  Faults = FALSE
  Threads = {t1}
  Passwords = {p1, p2}
  UniqueEmail = TRUE
PROPERTY
  ResetTakesEffect
