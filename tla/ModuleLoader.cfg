SPECIFICATION Spec
CONSTANTS
    Loads = {l1}
    Configs <- MCConfigs
    MaxCached = 1
INVARIANTS
    ServesAdmitted
    PolicyDecides
PROPERTIES
    TrueIsAllowDisk
    EveryLoadSettles
CHECK_DEADLOCK FALSE
