SPECIFICATION Spec
CONSTANTS
    Files = {f1}
    Tabs = {t1, t2}
    Devices = {d1}
    MaxSaves = 3
    MaxMarks = 1
    NoOne = NoOne
SYMMETRY Symmetry
INVARIANTS CompletionsCounted PendingIsOthers
PROPERTIES TabOverwritesHeard
CHECK_DEADLOCK FALSE
