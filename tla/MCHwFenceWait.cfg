CONSTANTS
  f1 = f1
  f2 = f2
  a0 = a0
  a1 = a1
  a2 = a2
  a3 = a3
  c1 = c1
  c2 = c2
  Fences = {f1, f2}
  Arrays = {a1, a2, a3}
  Children <- FullChildren
  Owner <- AllOwner
  Clients = {c1, c2}
  Threads = {t1, t2}
  Slots = {s1, s2, s3, s4, s5}
  Waiters <- FullWaiters
  Resetters = {}
  OneWaiter = TRUE
  INVALID = INVALID
  JoinClient = JoinClient
  NotHw = NotHw
  None = None
SYMMETRY MCSymmetry
SPECIFICATION Spec
INVARIANTS
  TypeOK
  JoinCount
  ParentsAreLive
  NoEarlySignal
  NoWaiterForgotten
  JoinErrorKept
CHECK_DEADLOCK FALSE
