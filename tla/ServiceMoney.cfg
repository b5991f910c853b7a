SPECIFICATION SpecFromAgreed
CONSTANTS
    Terms = {t1}
    NoTerms = NoTerms
    AgreementWindow = 1
    FundingWindow = 1
    HandoffWindow = 1
    ReceiptWindow = 1
    ReleaseHold = 1
    Procs = {p1, p2}
    Offered <- MCOffered
    Commands = {"Fund", "Cancel", "SubmitHandoffProof", "ConfirmReceipt", "ReleaseFunds", "OpenDispute", "ResolveDispute"}
    Lease = 1
    MaxVersion = 8
    MaxTime = 1
    MaxFaults = 1
SYMMETRY Interchangeable
INVARIANTS
    SystemActsOnAPassedDeadline
    CustodyIsBacked
    PayoutsAreRecorded
    SettlementFindsTheMoney
PROPERTIES
    LifecycleSteps
    KeepsCustody
CHECK_DEADLOCK FALSE
