\* Stops where a slot beyond buffer_ is written, and where every stub was lost.
SPECIFICATION FairSpec
CONSTANTS
  Threads = {t1, t2, t3, t4}
  PoolSize = 4
  Width = 3
  RingSizes <- Rings
INVARIANTS
  TypeOK
  StubExclusive
  NeverNullStub
  RingInv
  NoStubLost
  NoLostWakeup
  WaitsOnlyWhenShort
  AdvanceIsMasked
PROPERTIES
  BurstDrains
  ImplementsPool
CHECK_DEADLOCK FALSE
