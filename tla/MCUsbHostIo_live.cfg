CONSTANTS
    Requests = {r1, r2}
    Sync = {r1}
    Timed = {}
    Control = {}
    NoRequest = NoRequest
SPECIFICATION FairSpec
PROPERTIES CancelledOnlyIfAsked SenderStops SubmittedCompletes
CHECK_DEADLOCK FALSE
