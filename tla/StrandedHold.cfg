SPECIFICATION SpecFromAgreed
CONSTANTS
    Terms = {t1}
    NoTerms = NoTerms
    AgreementWindow = 1
    FundingWindow = 1
    HandoffWindow = 1
    ReceiptWindow = 1
    ReleaseHold = 1
    Procs = {p1, p2}
    Offered <- MCOffered
    Commands = {"Fund", "Cancel"}
    Lease = 1
    MaxVersion = 8
    MaxTime = 1
    MaxFaults = 0
SYMMETRY Interchangeable
INVARIANTS
    HeldMoneyIsOnRecord
CHECK_DEADLOCK FALSE
