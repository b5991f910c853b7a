SPECIFICATION Spec
CONSTANTS
    Terms = {t1}
    NoTerms = NoTerms
    AgreementWindow = 1
    FundingWindow = 1
    HandoffWindow = 1
    ReceiptWindow = 1
    ReleaseHold = 1
    Procs = {p1, p2}
    Offered <- MCOffered
    Commands = {"ProposeExtraction", "CorrectTerms", "ConfirmTerms", "Fund", "Cancel"}
    Lease = 1
    MaxVersion = 4
    MaxTime = 1
    MaxFaults = 1
SYMMETRY Interchangeable
INVARIANTS
    SealsOnTheHead
PROPERTIES
    ImplementsLifecycle
CHECK_DEADLOCK FALSE
