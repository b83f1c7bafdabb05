SPECIFICATION Spec
CONSTANTS
    maxLinesBeforeTruncate = 2
    TornLines = FALSE
    MaxLines = 4
CHECK_DEADLOCK FALSE
INVARIANTS
    EveryLineIsProcessed
