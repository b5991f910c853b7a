SPECIFICATION Spec
CONSTANTS
    Terms <- MCTerms
    NoTerms = NoTerms
    AgreementWindow = 1
    FundingWindow = 1
    HandoffWindow = 1
    ReceiptWindow = 1
    ReleaseHold = 1
    MaxSaid = 3
    MaxMishaps = 1
    Phones = {phone1, phone2}
    FirstPhone = phone1
    Prices = {price1, price2}
    Names = {name1, name2}
    MaxComing = 1
    MaxDealVersion = 4
SYMMETRY Interchangeable
INVARIANTS
    HeardIsKept
    ReadOncePerAttempt
    TapeHasTheTalk
    ActsAsShown
    OneDeviceIsLabelled
CHECK_DEADLOCK FALSE
