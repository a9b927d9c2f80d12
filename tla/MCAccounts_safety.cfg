SPECIFICATION Spec
SYMMETRY Symmetry
CONSTANTS
    User = {u1, u2}
    Email = {e1}
    Password = {x}
    Tab = {t1, t2}
    Call = {c1, c2}
    None = None
    AccessLifetime = 1
    RefreshLifetime = 2
    MaxTime = 3
    MaxFaults = 0
INVARIANTS
    TypeOK
    ProtectedPagesGuarded
PROPERTIES
    KeepsSessions
    SessionsEnd
    OnlyLateRefreshMixes
