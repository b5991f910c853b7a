SPECIFICATION TimedSpec
CONSTANTS
    Terms = {t1}
    NoTerms = NoTerms
    AgreementWindow = 1
    FundingWindow = 1
    HandoffWindow = 1
    ReceiptWindow = 1
    ReleaseHold = 2
    MaxVersion = 6
    MaxTime = 5
    Horizon = 1
INVARIANTS
    ArmedTimerIsTheStates
    ShownReleaseIsArmed
PROPERTIES
    AwaitingEnds
    CustodyEnds
CHECK_DEADLOCK FALSE
