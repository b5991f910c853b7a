SPECIFICATION Spec
CONSTANTS
    DefaultCurrency = "USD"
    Codes = {"USD", "EUR", "ABC"}
    Voices = {"A", "B"}
    Utterances <- MCUtterances
    Answers <- MCAnswers
    NoTerms = NoTerms
    MaxLines = 3
INVARIANTS
    AgreedIsLastOnTable
    ProposedTermsAreWellFormed
    VoicesNameThemselves
CHECK_DEADLOCK FALSE
