CONSTANTS
    Threads = {t1, t2, t3}
    Objects = {p1, p2}
    NULL = NULL
    QUEUE_SIZE = 2
SPECIFICATION FairSpec
INVARIANTS TokensAccounted
PROPERTIES ImplementsStack WaitersWokenUp
CHECK_DEADLOCK FALSE
