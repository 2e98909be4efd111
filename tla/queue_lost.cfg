SPECIFICATION Spec
CONSTANTS
  c1 = c1
  c2 = c2
  Nobody = Nobody
  Consumers = {c1}
  LastMessage = 3
  Kind <- EventsAndNoObject
  AuditEvents = 1
  MaxPollRecords = 2
  MaxDays = 0
  MaxDisruptions = 0
INVARIANT CommittedIsWritten
\* The consumers are idle once the queue is empty.
CHECK_DEADLOCK FALSE
