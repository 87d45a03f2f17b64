SPECIFICATION FairSpec
CONSTANTS
    Messages = {1, 2}
    Workers = {w1, w2}
    Clerks = {k1}
    NeedApproval = {1}
    AsyncDocs = {2}
    MaxAttempts = 2
    Limit = 2
    MaxTries = 2
    MaxReceived = 2
    Faults = {"crash", "lost"}
INVARIANT ApprovedBeforeSent
INVARIANT SentMeansAnswered
INVARIANT DuplicatesExplained
PROPERTY DueIsSettled
PROPERTY DocsAreFinalised
CHECK_DEADLOCK FALSE
