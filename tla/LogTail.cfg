SPECIFICATION MCSpec
CONSTANTS
    maxLinesBeforeTruncate = 2
    TornLines = TRUE
    MaxLines = 7
    Fields <- MCFields
    Numbers = {0, 7}
    NoReply = NoReply
    Word = Word
    CounterReplies <- MCCounterReplies
    ServersReplies <- MCServersReplies
CHECK_DEADLOCK FALSE
INVARIANTS
    LogTypeOK
    LinesAreSettled
    AttemptsAreSpaced
    FailuresAreLocal
    FailuresAreReported
PROPERTIES
    LinesInOrder
    LinesAreRead
