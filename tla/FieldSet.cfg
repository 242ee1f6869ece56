SPECIFICATION Spec
CONSTANTS
    Unknown = Unknown
    StreamSize = 4
    RootScripts <- MCRootScripts
    SubScripts <- MCSubScripts
    SubSizes = {1, 3, 5, Unknown}
INVARIANTS
    Contiguous
    SameParse
    YieldsInOrder
CHECK_DEADLOCK FALSE
