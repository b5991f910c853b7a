SPECIFICATION Spec
CONSTANTS
    Terms = {t1, t2}
    NoTerms = NoTerms
    AgreementWindow = 1
    FundingWindow = 1
    HandoffWindow = 1
    ReceiptWindow = 1
    ReleaseHold = 1
    MaxVersion = 8
    MaxTime = 1
SYMMETRY Readings
INVARIANTS
    TypeOK
    HeldThenSettledOnce
    BoundTermsAreConfirmed
    FreezeTakesBothParties
    ReleaseHasGrounds
    AutoConfirmedIsLabelled
PROPERTY
    BoundTermsStand
CHECK_DEADLOCK FALSE
