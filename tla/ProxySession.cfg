CONSTANTS
  Sessions = {s, t}
  MaxCerts = 2
  Faults = {"call", "kill", "stop"}
SPECIFICATION FairSpec
INVARIANTS ShellTrustsItsProxy CertsAccountedFor
PROPERTY ProxiesEnd
