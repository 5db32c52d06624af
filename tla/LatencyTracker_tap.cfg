\* Both ends send requests with the same ids, again and again, on a lossy tap; some
\* responses are taken for requests and some requests for responses.
CONSTANTS
    Ids = {1, 2}
    Requesters = {"c2s", "s2c"}
    Kinds = {"ack", "echo", "misread"}
    Lossy = TRUE
    StaleAfter = 1
    MaxTime = 3
    MaxRequests = 2
SPECIFICATION FairSpec
INVARIANTS LatencyIsOwn AnsweredIsMeasured
PROPERTY StaleIsSwept
CHECK_DEADLOCK FALSE
