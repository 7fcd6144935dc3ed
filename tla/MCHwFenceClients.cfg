CONSTANTS
  Threads = {t1, t2}
  Ids = {c1}
  Objects = {o1, o2}
  Data = {d1}
  Capacity = 3
  MaxIter = 2
  Disciplined = TRUE
  BadId = BadId
  Null = Null
SPECIFICATION FairSpec
INVARIANTS
  TypeOK
  HandleRegistered
  RegisteredIsAllocated
  CallbackSafe
  DoorbellPending
PROPERTIES
  ErrorsTaken
