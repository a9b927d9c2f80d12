SPECIFICATION Spec
CONSTANTS
    Visit = {v1, v2}
    Project = {p1}
    None = None
    Idle = Idle
    Sent = Sent
    Failed = Failed
    MaxMail = 1
    MaxEdits = 0
    MaxFaults = 0
INVARIANTS
    PollsOnlyWhileOpen
