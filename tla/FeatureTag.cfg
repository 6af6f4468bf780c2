SPECIFICATION Spec
CONSTANTS
    Procs = {p1}
    Features = {"loc", "loc2"}
    SourceOf <- LocalSource
    InstallOrder <- LocalOrder
    VersionOf <- Versions
    Settings = {"s1", "s2"}
    Ops = {"plain"}
    EditsMade = {"options"}
    MaxEdits = 1
    FailsAt = {}
INVARIANT TagsTellFeaturesApart
CHECK_DEADLOCK FALSE
