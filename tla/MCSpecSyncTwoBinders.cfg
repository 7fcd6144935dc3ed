CONSTANTS
  Threads = {t1, t2}
  Waiters = {}
  Arrays = {a1}
  Fences = {f1, f2}
  HwFences = {f1}
  FenceMax = 2
  MaxDevices = 2
  OneBinder = FALSE
  Dummy = Dummy
  Null = Null
SPECIFICATION Spec
INVARIANTS
  DummyBalance
