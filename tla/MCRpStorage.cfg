CONSTANTS
    Threads = {consumer, boss}
    Uuids = {u1, u2}
    Handles = {h1, h2, h3}
    NoHandle = NoHandle
SPECIFICATION Spec
SYMMETRY MCSymmetry
INVARIANTS OneRowPerUuid AnswersIfAlone CleanUnlessRaced
