CONSTANTS
    p1 = p1
    p2 = p2
    u1 = u1
    u2 = u2
    a1 = a1
    a2 = a2
    h1 = h1
    h2 = h2
    Project = {p1, p2}
    User = {u1}
    Address = {a1, a2}
    Content = {"good"}
    NoRow = NoRow
    Handler = {h1, h2}
    NoRequest = NoRequest
    ValidContent <- MCValid
    NamedContent <- MCNamed
    Attempts = 2
    MaxCreates = 1
    MaxFaults = 0
SPECIFICATION Spec
PROPERTIES
    ConfirmedWritesFindTheirRow
