SPECIFICATION FairSpec
CONSTANTS
    Visit = {v1}
    Project = {p1}
    None = None
    Idle = Idle
    Sent = Sent
    Failed = Failed
    MaxMail = 3
    MaxEdits = 2
    MaxFaults = 2
INVARIANTS
    OpenPagePolls
    DeletedPageStops
PROPERTIES
    ShownNeverGoesBack
    MailShowsUp
    NothingStaysBusy
    DeleteSettles
