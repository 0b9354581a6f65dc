CONSTANTS
    Generators = {g1, g2}
    Inputs = {i1, i2, bad}
    Extras = {docs, nodocs}
    Outputs = {header, source}
    Good = {i1, i2}
    MaxRuns = 2
    Absent = Absent
    Part = Part
    Empty = Empty
SPECIFICATION Spec
INVARIANTS HashTellsGlue
PROPERTIES CloseLeavesOwnGlue EveryRunEnds
CHECK_DEADLOCK FALSE
