SPECIFICATION FairSpec
CONSTANTS
  w1 = w1
  Missing = Missing
  Malformed = Malformed
  Workers = {w1}
  CanonicalTypes <- Both
  FileStates <- ValidFiles
  Builtin <- Shipped
  MaxEdits = 1
  MaxFaults = 0
INVARIANT AuditTellsAction
\* The request threads may rest.
CHECK_DEADLOCK FALSE
