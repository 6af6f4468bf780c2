CONSTANTS
  Sessions = {s, t}
  MaxCerts = 2
  Faults = {}
SPECIFICATION Spec
INVARIANT TrustSettles
