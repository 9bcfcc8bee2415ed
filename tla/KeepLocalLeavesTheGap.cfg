\* One phone, four operations, two instances; passes and commands take turns.
CONSTANTS
    d1 = d1  d2 = d2  w1 = w1  w2 = w2  g1 = g1
    o1 = o1  o2 = o2  o3 = o3  o4 = o4  o5 = o5
    Device = {d1}
    Op = {o1, o2, o3, o4}
    OpDevice <- OneDevice
    Digest = {}
    Worker = {w1, w2}
    MaxMessages = 1
    Concluder = {}
    SharedQueue = {TRUE}
    MaxBatches <- UpTo4
    Reserve = 0
    MaxAttempts = 2
    MaxFaults = 1
SPECIFICATION Spec
INVARIANT KeepLocalClosesTheGap
CHECK_DEADLOCK FALSE
