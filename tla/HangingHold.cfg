SPECIFICATION FairSpecFromAgreed
CONSTANTS
    Terms = {t1}
    NoTerms = NoTerms
    AgreementWindow = 1
    FundingWindow = 1
    HandoffWindow = 1
    ReceiptWindow = 1
    ReleaseHold = 1
    Procs = {p1, p2}
    Offered <- MCOffered
    Commands = {"Fund", "OpenDispute", "ResolveDispute"}
    Lease = 1
    MaxVersion = 7
    MaxTime = 2
    MaxFaults = 0
PROPERTIES
    HoldingEnds
CHECK_DEADLOCK FALSE
