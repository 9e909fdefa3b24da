SPECIFICATION Spec
CONSTANTS
  NChecks = 3
  Retries = 3
  Waits = 4
INVARIANTS MetricsUnpacked
CHECK_DEADLOCK FALSE
