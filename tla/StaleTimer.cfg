SPECIFICATION SpecFromAgreed
CONSTANTS
    Terms = {t1}
    NoTerms = NoTerms
    AgreementWindow = 2
    FundingWindow = 2
    HandoffWindow = 2
    ReceiptWindow = 2
    ReleaseHold = 2
    Procs = {p1, p2}
    Offered <- MCOffered
    Commands = {"Fund", "Cancel", "SubmitHandoffProof", "ConfirmReceipt", "ReleaseFunds", "OpenDispute", "ResolveDispute"}
    Lease = 1
    MaxVersion = 8
    MaxTime = 3
    MaxFaults = 0
SYMMETRY Interchangeable
INVARIANTS
    RefundWaitsForHandoffWindow
CHECK_DEADLOCK FALSE
