CONSTANTS
  Procs = {p}
  MaxContainers = 3
  Commands = {"up", "rebuild", "stop", "down", "exec"}
  Overlap = FALSE
  Faults = {"api", "kill", "exit"}
  CreateHooks = 3
  StartHooks = 2
SPECIFICATION Spec
INVARIANTS AtMostOneDevcontainer CreateHooksInOrder
PROPERTIES UpReportsTheDevcontainer ImplementsPromise
