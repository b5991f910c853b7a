\* Two requests at a time, one fault, two readings with different names.
SPECIFICATION Spec
CONSTANTS
    Terms = {t1, t2}
    NoTerms = NoTerms
    AgreementWindow = 1
    FundingWindow = 1
    HandoffWindow = 1
    ReceiptWindow = 1
    ReleaseHold = 1
    Procs = {p, q}
    Phrases = {phrase}
    Recordings = {a1}
    NoRecording = NoRecording
    Names <- MCNames
    NoNames = NoNames
    NamesIn <- MCNamesIn
    MaxPhrases = 2
    MaxVersion = 4
    MaxFaults = 1
SYMMETRY Interchangeable
INVARIANTS
    ClosedIsProposed
    RecordingsAreStored
PROPERTIES
    ClosedSessionStands
    FrozenLabelsStand
    ReadingAttestedOnce
CHECK_DEADLOCK FALSE
