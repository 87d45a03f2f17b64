SPECIFICATION Spec
CONSTANTS
    Messages = {1, 2}
    Workers = {w1, w2}
    Clerks = {}
    NeedApproval = {}
    AsyncDocs = {}
    MaxAttempts = 2
    Limit = 2
    MaxTries = 2
    MaxReceived = 2
    Faults = {}
INVARIANT ReceivedOnce
CHECK_DEADLOCK FALSE
