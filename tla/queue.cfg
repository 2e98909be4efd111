SPECIFICATION FairSpec
CONSTANTS
  c1 = c1
  c2 = c2
  Nobody = Nobody
  Consumers = {c1, c2}
  LastMessage = 3
  Kind <- WithUnparseable
  AuditEvents = 1
  MaxPollRecords = 2
  MaxDays = 1
  MaxDisruptions = 2
INVARIANTS TypeOK DoneOrExplained OneDocumentPerPart
PROPERTIES EveryMessageHandled
\* The consumers are idle once the queue is empty.
CHECK_DEADLOCK FALSE
