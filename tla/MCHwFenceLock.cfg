CONSTANTS
  PVM = {p1, p2, p3}
SPECIFICATION FairSpec
INVARIANTS
  Inv
  MutualExclusion
  NoLostWakeup
PROPERTIES
  RequestKept
  SvmServed
