CONSTANTS
  Sessions = {s}
  MaxCerts = 1
  Faults = {}
SPECIFICATION Spec
INVARIANT BundleIsCleaned
CHECK_DEADLOCK FALSE
