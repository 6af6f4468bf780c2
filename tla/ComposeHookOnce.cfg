CONSTANTS
  w1 = w1
  w2 = w2
  w3 = w3
  Procs = {p}
  Workspaces = {w1}
  Base <- OneBase
  Siblings = {"db"}
  Mounts <- OwnVolumes
  External = {}
  MaxContainers = 2
  Commands = {"up", "stop"}
  Faults = {}
SPECIFICATION Spec
PROPERTY PostCreateOnce
