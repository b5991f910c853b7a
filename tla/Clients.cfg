\* A proposal, a correction and both confirmations, or the deal called off.
SPECIFICATION ClientSpec
CONSTANTS
    Terms = {t1, t2}
    NoTerms = NoTerms
    AgreementWindow = 1
    FundingWindow = 1
    HandoffWindow = 1
    ReceiptWindow = 1
    ReleaseHold = 1
    ThisDeal = ThisDeal
    OtherDeal = OtherDeal
    PlatformKey = PlatformKey
    StrangeKey = StrangeKey
    MaxVersion = 4
    MaxTime = 0
SYMMETRY Readings
INVARIANTS
    BoundTermsWereShown
    ReceiptIsAccountedFor
    ServedReceiptVerifies
    BoundTermsAreAttested
    VerifiedIsAsIssued
    SignedIsAsIssued
CHECK_DEADLOCK FALSE
