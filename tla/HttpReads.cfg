SPECIFICATION TimedSpec
CONSTANTS
  Conns = {c1, c2}
  NumContexts = 5
PROPERTY
  ReadsTimeOut
CHECK_DEADLOCK FALSE
