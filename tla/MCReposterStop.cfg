CONSTANTS
    Uuids = {u1}
    NULL = NULL
    QUEUE_SIZE = 2
    MaxMetric = 1
SPECIFICATION FairSpec
PROPERTIES StopReturnsUnless ConsumerJoins QueueDrains
CHECK_DEADLOCK FALSE
