SPECIFICATION Spec
CONSTANTS
  Calls = {c1, c2}
  Emails = {e1}
  MaxCodes = 3
  Faults = TRUE
INVARIANT
  MailPromise
CHECK_DEADLOCK FALSE
