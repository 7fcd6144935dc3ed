CONSTANTS
  Writers = {driver, fctl}
  Payload = {m1, m2}
  Entries = 4
  NoPayload = NoPayload
  None = None
SYMMETRY WriterSymmetry
SPECIFICATION Spec
INVARIANTS
  TypeOK
  WriterOwnsSlot
PROPERTIES
  RefinesFifo
