CONSTANTS
    Uuids = {u1, u2}
    NULL = NULL
    QUEUE_SIZE = 2
    MaxMetric = 2
SPECIFICATION Spec
SYMMETRY MCSymmetry
INVARIANTS   StorageAlive ConsumerOutlivesNetwork
 
CHECK_DEADLOCK FALSE
