SPECIFICATION Spec
CONSTANTS
    v1 = v1
    v2 = v2
    v3 = v3
    w1 = w1
    w2 = w2
    Series = Series
    Volumes = {v1}
    Loners = {}
    ReadableAtFirst = {v1}
    Workers = {w1, w2}
    Importer = Importer
    Gone = Gone
    NoOwner = NoOwner
    NoRun = NoRun
    NoBundle = NoBundle
    MaxRuns = 1
    MaxFaults = 1
PROPERTY NoRunHoldsTheQueue
CHECK_DEADLOCK FALSE
