\* Card numbers of 3 or 4 digits, texts of up to 6 characters, answers
\* of up to 5, 3 retries.
SPECIFICATION Spec
CONSTANTS
    Digit <- MCDigit
    Separators = {"-", "/"}
    MinCard = 3
    MaxCard = 4
    MaxScan = 6
    Identifiers <- MCIdentifiers
    Strippable <- MCStrippable
    MustBlock <- MCMustBlock
    Imperative = "v"
    Context = "w"
    Newline = "/"
    Foreign = {"f"}
    Questions <- MCQuestions
    Replies <- MCReplies
    Hints <- MCHints
    MaxRetries = 3
    MaxAnswer = 5
\* A question that has ended stays so.
CHECK_DEADLOCK FALSE
INVARIANTS
    TypeOK
    FoundIsTouched
    StripIsExact
    BoundedCall
