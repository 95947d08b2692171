SPECIFICATION Spec
CONSTANTS
  Creators <- RunCreators
  Slugs = {"a", "b"}
  Replicas = {"left", "right"}
  None = "none"
  home <- RunHome
  kind <- RunKind
  custom <- RunCustom
  MaxHashRetries = 2
INVARIANTS
  TypeOK
  OneResourcePerSlug
  NamespaceAgrees
  CheckStillHolds
PROPERTIES
  KeepsRegistry
  CreatesEnd
CHECK_DEADLOCK FALSE
