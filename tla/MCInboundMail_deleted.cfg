CONSTANTS
    p1 = p1
    p2 = p2
    u1 = u1
    c1 = c1
    s1 = s1
    s2 = s2
    m1 = m1
    m2 = m2
    m3 = m3
    Project = {p1, p2}
    User = {u1}
    Content = {c1}
    NoRow = NoRow
    Address <- MCAddress
    Session = {s1, s2}
    Message = {m1, m2}
    NoMessage = NoMessage
    Spelling <- MCSpelling
    NormalOf <- MCNormalOf
    OwnDomain = {1, 2}
    RcptTo <- MCRcptTo
    Oversized = {}
    Unstorable = {}
    MaxRecipients = 2
    MaxFaults = 0
SPECIFICATION Spec
PROPERTIES
    OnlyExistingProjectsGetMail
