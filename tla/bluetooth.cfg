SPECIFICATION Spec
CONSTANTS
    Words <- MCWords
    Noise = {"NUL"}
    QueueSize = 3
    BufSize = 6
    MaxWords = 3
    MaxNoise = 1
INVARIANTS
    TypeOK
    WordsExecuteOnce
    ExecutesOnlyWhatWasSent
    LastWordWins
CHECK_DEADLOCK FALSE
