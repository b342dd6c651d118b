SPECIFICATION Spec
CONSTANTS
  Threads = {t1, t2, t3}
  PoolSize = 4
  RingSizes = {1, 2, 4, 8}
PROPERTIES
  ReleasedStubKept
CHECK_DEADLOCK FALSE
