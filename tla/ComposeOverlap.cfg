CONSTANTS
  w1 = w1
  w2 = w2
  w3 = w3
  Procs = {p, q}
  Workspaces = {w1, w2}
  Base <- SharedBase
  Siblings = {"db"}
  Mounts <- SharedVolumes
  External = {}
  MaxContainers = 2
  Commands = {"up", "rebuild", "stop", "downVolumes"}
  Faults = {"api"}
SPECIFICATION FairSpec
PROPERTIES DownRemovesAllListed CommandsEnd
