SPECIFICATION FairSpec
CONSTANTS
  w1 = w1
  Missing = Missing
  Malformed = Malformed
  Workers = {w1}
  CanonicalTypes <- Both
  FileStates <- AnyFile
  Builtin <- Shipped
  MaxEdits = 3
  MaxFaults = 1
INVARIANTS TypeOK EverySpanHandled LogNamesPolicy
PROPERTIES UnracedConverge
\* A worker does not start on a file it rejects.
CHECK_DEADLOCK FALSE
