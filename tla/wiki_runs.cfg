SPECIFICATION Spec
CONSTANTS
    v1 = v1
    v2 = v2
    v3 = v3
    w1 = w1
    w2 = w2
    Series = Series
    Volumes = {v1, v2, v3}
    Loners = {}
    ReadableAtFirst = {v1, v2}
    Workers = {w1, w2}
    Importer = Importer
    Gone = Gone
    NoOwner = NoOwner
    NoRun = NoRun
    NoBundle = NoBundle
    MaxRuns = 1
    MaxFaults = 1
INVARIANTS DoneMeansStored
PROPERTIES CancelIsObeyed RunsStop
CHECK_DEADLOCK FALSE
