CONSTANTS
  f1 = f1
  f2 = f2
  a0 = a0
  a1 = a1
  a2 = a2
  a3 = a3
  c1 = c1
  c2 = c2
  Fences = {f1}
  Arrays = {}
  Children <- NoChildren
  Owner <- OneOwner
  Clients = {c1}
  Threads = {t1}
  Slots = {s1}
  Waiters <- AllWaiters
  Resetters = {}
  OneWaiter = TRUE
  INVALID = INVALID
  JoinClient = JoinClient
  NotHw = NotHw
  None = None
SPECIFICATION Spec
INVARIANTS
  ErrorPropagated
CHECK_DEADLOCK FALSE
