CONSTANTS
  Procs = {p, q}
  MaxContainers = 2
  Commands = {"up", "rebuild", "stop", "down"}
  Overlap = TRUE
  Faults = {}
  CreateHooks = 2
  StartHooks = 1
SPECIFICATION FairSpec
PROPERTIES CreateHooksAtMostOnce UpReportsWholeChain RebuildReportsNewContainer DownRemovesAllListed CommandsEnd
