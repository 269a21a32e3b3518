SPECIFICATION Spec
CONSTANTS
    p1 = p1
    p2 = p2
    reader = reader
    NoTask = NoTask
    Tasks = {p1, p2, reader}
    Owner = reader
    Hard = 5
    DataLens = {1, 2}
    ControlLens = {1}
SYMMETRY Publishers
INVARIANTS HardBound PendingExact
PROPERTY NothingQueuedOnceGone
