CONSTANTS
    MaxId = 7
    Window = 3
    Loop = loop
    Senders = {loop}
    FirstIds = {7}
    Attempts = 5
    Retries = 1
    Patient = TRUE
    Requests = 2
    Events = 1
    Losses = 2
    LineSize = 2
SPECIFICATION FairSpec
PROPERTIES RequestsReliable EveryRequestConfirmed
CHECK_DEADLOCK FALSE
