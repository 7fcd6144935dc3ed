CONSTANTS
  Threads = {t1, t2}
  Waiters = {w1, w2}
  Arrays = {a1}
  Fences = {f1, f2}
  HwFences = {f1}
  FenceMax = 2
  MaxDevices = 2
  OneBinder = TRUE
  Dummy = Dummy
  Null = Null
SPECIFICATION FairSpec
INVARIANTS
  TypeOK
  DummyBalance
  RefsExact
  NoDummyHooked
  SignalledByFlags
  OnlyHwFences
PROPERTIES
  BoundOnce
  WaiterReleased
