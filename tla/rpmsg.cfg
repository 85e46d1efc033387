SPECIFICATION FairSpec
CONSTANTS
    Buffers = {b1, b2}
    TxBuffers = 1
    ReplyLimit = 3
    Sizes = {0, 1}
    MaxMessages = 4
    NONE = NONE
INVARIANTS TypeOK BuffersAccounted AnswersInOrder
PROPERTIES EveryMessageAnswered
CHECK_DEADLOCK FALSE
