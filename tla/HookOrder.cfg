CONSTANTS
  Procs = {p}
  MaxContainers = 2
  Commands = {"up", "rebuild", "stop", "down"}
  Overlap = FALSE
  Faults = {"kill"}
  CreateHooks = 2
  StartHooks = 1
SPECIFICATION Spec
INVARIANT PostStartAfterCreateHooks
