CONSTANTS
  Handle = {h1, h2, h3, h4}
  Entries = 4
  PayloadSize = 2
  IdxStarts = {0, 1}
  Quiet = TRUE
  AppendErrors = {FALSE, TRUE}
  NoHandle = NoHandle
SYMMETRY HandleSymmetry
SPECIFICATION Spec
INVARIANTS
  TypeOK
  PublishedFirst
PROPERTIES
  RefinesTxSpec
