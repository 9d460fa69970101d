SPECIFICATION RetentionSpec
CONSTANTS
  Kinds <- MCKinds
  Sizes = {1, 3}
  Ttl <- MCTtl
  TtlEphemeral = 0
  AuditBytes = 2
  AuditEntries = 2
  TopicBytes = 4
  TopicEntries = 2
  SoftBytes = 3
  HardBytes = 5
  MaxFiles = 2
  IndexSizes = {1}
  Readings <- MCReadings
  MaxMessages = 3
  MaxNow = 1
  MaxStrays = 1
INVARIANTS
  SpoolBounded
  WindowHolds
PROPERTIES
  AuditGoesLast
  OldestGoFirst
