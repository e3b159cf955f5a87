SPECIFICATION Spec
CONSTANTS
    Names = {n1, n2}
    Limit = 2
    MaxVirtual = 3
INVARIANTS
    RegistryConsistent
    WrapperCanLink
    RegisteredIsImportable
PROPERTIES
    PutEvictsLeastRecent
CHECK_DEADLOCK FALSE
