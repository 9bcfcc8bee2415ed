\* One phone: two operations, a photo and a conclusion with one instance, or three
\* operations with two instances, the engine in either build.
CONSTANTS
    d1 = d1  d2 = d2  w1 = w1  w2 = w2  g1 = g1
    o1 = o1  o2 = o2  o3 = o3  o4 = o4  o5 = o5
    Device = {d1}
    Op = {o1, o2, o3}
    OpDevice <- OneDevice
    Digest = {g1}
    Worker = {w1, w2}
    MaxMessages = 1
    Concluder = {d1}
    SharedQueue = {TRUE, FALSE}
    MaxBatches <- UpTo6
    Reserve = 3
    MaxAttempts = 2
    MaxFaults = 1
SPECIFICATION FairSpec
CONSTRAINT Stories
PROPERTIES OutboxDrains ConcludedIsClosed
CHECK_DEADLOCK FALSE
