CONSTANTS
  Threads = {t1, t2}
  Clients = {c1, c2}
  Keys <- MCKeys
  SharedKeys <- MCSharedKeys
  Size = 3
  NoClient = NoClient
SYMMETRY MCSymmetry
SPECIFICATION Spec
INVARIANTS
  TypeOK
  LookupComplete
PROPERTIES
  DuplicateSeen
  OnlyOwnerDestroys
