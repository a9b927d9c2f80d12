SPECIFICATION FairSpec
CONSTANTS
    User = {u1}
    Email = {e1}
    Password = {x, y}
    Tab = {t1}
    Call = {c1, c2}
    None = None
    AccessLifetime = 1
    RefreshLifetime = 2
    MaxTime = 2
    MaxFaults = 1
INVARIANTS
    TokensEarned
PROPERTIES
    NothingHangs
