\* Three connections, eleven kinds of request, a listen queue of two, one
\* signal.
CONSTANTS
    r1 = r1
    r2 = r2
    r3 = r3
    NoRequest = NoRequest
    Requests <- MCRequests
    Payloads <- MCPayloads
    Backlog = 2
    MaxSignals = 1
SPECIFICATION Spec
INVARIANT TypeOK
PROPERTY AnsweredUnlessSignalled
CHECK_DEADLOCK FALSE
