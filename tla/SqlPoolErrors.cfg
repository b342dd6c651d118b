SPECIFICATION Spec
CONSTANTS
  Threads = {t1, t2, t3}
  MaxConn = 3
  Ops = {"emailExists"}
  StmtLimit = 4
  Faults = FALSE
INVARIANT
  ErrorsAreServerErrors
CHECK_DEADLOCK FALSE
