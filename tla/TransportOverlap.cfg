CONSTANTS
    MaxId = 7
    Window = 3
    Loop = loop
    Senders = {loop, overlap}
    FirstIds = {7}
    Attempts = 2
    Retries = 0
    Patient = TRUE
    Requests = 2
    Events = 0
    Losses = 1
    LineSize = 2
SPECIFICATION Spec
INVARIANTS ConfirmedApplied
CHECK_DEADLOCK FALSE
