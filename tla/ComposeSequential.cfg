CONSTANTS
  w1 = w1
  w2 = w2
  w3 = w3
  Procs = {p}
  Workspaces = {w1, w2, w3}
  Base <- MixedBase
  Siblings = {"db"}
  Mounts <- MixedVolumes
  External = {"common"}
  MaxContainers = 4
  Commands = {"up", "rebuild", "stop", "down", "downVolumes", "ps"}
  Faults = {"api", "kill"}
SPECIFICATION Spec
INVARIANT PsShowsStack
PROPERTIES StepsStayInProject StopStopsStack DownRemovesFoundStack DownRemovesDevVolume
