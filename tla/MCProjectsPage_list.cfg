SPECIFICATION FairSpec
CONSTANTS
    Project = {p1, p2, p3, p4}
    None = None
    Unparsed = Unparsed
    MaxInt = 4
    PageSize = 2
    MaxFaults = 1
    MaxOthers = 1
INVARIANTS
    TypeOK
    ShownIsTrue
PROPERTIES
    NothingStaysBusy
