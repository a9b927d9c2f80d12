SPECIFICATION Spec
CONSTANTS
    Word = {"v", "w"}
    Nothing = Nothing
    Headers <- MCHeaders
    MaxParts = 3
CHECK_DEADLOCK FALSE
INVARIANTS
    MailFindsAddress
    NoTextIsRefused
    ReadableIsKept
