CHECK_DEADLOCK FALSE
SPECIFICATION FairSpec
CONSTANTS
    Process = {p1, p2}
    Release = {"old", "next", "late", "last"}
    Version = {1, 2, 3, 5}
    Embedded <- MCEmbedded
    None = None
    MaxStarts = 4
INVARIANTS
    ServesItsSchema
    AppliedOnceInOrder
PROPERTIES
    StartsEnd
