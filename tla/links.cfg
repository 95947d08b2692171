SPECIFICATION Spec
CONSTANTS
  Readers <- RunReaders
  Writers <- RunWriters
  Replicas = {"left", "right"}
  Anonymous = "anon"
  None = "none"
  home <- RunHome
  caller <- RunCaller
  Creates <- RunCreates
  Payloads <- RunPayloads
  MaxVersion = 3
INVARIANTS
  TypeOK
  ReadsAreCurrent
  BurnLinkOnce
  AudienceRespected
  NoStaleRefill
PROPERTY FollowDestroysOnlyDueLinks
CHECK_DEADLOCK FALSE
