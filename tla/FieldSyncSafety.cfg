\* Two phones, two instances: d1 collects o1, d2 the other four operations.
CONSTANTS
    d1 = d1  d2 = d2  w1 = w1  w2 = w2  g1 = g1
    o1 = o1  o2 = o2  o3 = o3  o4 = o4  o5 = o5
    Device = {d1, d2}
    Op = {o1, o2, o3, o4, o5}
    OpDevice <- TwoDevices
    Digest = {}
    Worker = {w1, w2}
    MaxMessages = 1
    Concluder = {d2}
    SharedQueue = {TRUE, FALSE}
    MaxBatches <- UpTo3
    Reserve = 0
    MaxAttempts = 2
    MaxFaults = 1
SPECIFICATION Spec
CONSTRAINT Bounds
INVARIANTS WellFormed AckedIsStored AckedInPlace TurnsConverge
PROPERTIES DecisionHolds CompletedIsFrozen
SYMMETRY Instances
CHECK_DEADLOCK FALSE
