\* Stops when the process has ended.
SPECIFICATION ProcFairSpec
CONSTANTS
  Conns = {c1, c2, c3}
  NumContexts = 5
INVARIANTS
  ProcTypeOK
  AcceptorArmed
  WritesTimed
  ConfigOutlives
  QuietStop
PROPERTIES
  AnsweredCloses
  StopEnds
CHECK_DEADLOCK FALSE
