SPECIFICATION Spec
CONSTANTS
    Procs = {p1, p2}
    Features = {"oci", "loc"}
    SourceOf <- MixedSource
    InstallOrder <- MixedOrder
    VersionOf <- Versions
    Settings = {"s1", "s2"}
    Ops = {"plain", "rebuild", "upgrade"}
    EditsMade = {"publish", "options", "recipe", "sources"}
    MaxEdits = 1
    FailsAt = {"rest", "writelock"}
SYMMETRY Symmetry
INVARIANTS PinsAreHonoured UpgradeIsCurrent InstallsWantedOptions RebuildIsCurrent FeaturesNotMixed
CHECK_DEADLOCK FALSE
