\* Stops where undefined behaviour has ended the process.
SPECIFICATION FairSpec
CONSTANTS
  Threads = {t1, t2}
  MaxConn = 1
  Ops = {"emailExists", "regUser"}
  StmtLimit = 3
  Faults = TRUE
INVARIANTS
  TypeOK
  ConnExclusive
  StmtsClosed
PROPERTIES
  CallsReturn
  ImplementsPool
CHECK_DEADLOCK FALSE
