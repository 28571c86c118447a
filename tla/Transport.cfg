CONSTANTS
    MaxId = 7
    Window = 3
    Loop = loop
    Senders = {loop, overlap}
    FirstIds = {7}
    Attempts = 2
    Retries = 1
    Patient = FALSE
    Requests = 2
    Events = 1
    Losses = 1
    LineSize = 2
SPECIFICATION Spec
INVARIANTS TypeOK InOrder
CHECK_DEADLOCK FALSE
