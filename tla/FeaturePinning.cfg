SPECIFICATION Spec
CONSTANTS
    Procs = {p1}
    Features = {"oci"}
    SourceOf <- OciSource
    InstallOrder <- OciOrder
    VersionOf <- Versions
    Settings = {"s1"}
    Ops = {"plain", "upgrade"}
    EditsMade = {"publish"}
    MaxEdits = 1
    FailsAt = {}
INVARIANT PinnedBuildsInstallThePin
CHECK_DEADLOCK FALSE
