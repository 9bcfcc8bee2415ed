\* Two instances; two phones and three operations, or one phone and one photo.
CONSTANTS
    d1 = d1  d2 = d2
    o1 = o1  o2 = o2  o3 = o3
    k1 = k1  k2 = k2  k3 = k3
    w1 = w1  w2 = w2  g1 = g1
    Device = {d1, d2}
    Op = {o1, o2, o3}
    OpDevice <- MCOpDevice
    Batch = {k1, k2, k3}
    Digest = {g1}
    Worker = {w1, w2}
    Requests <- MCRequests
    MaxMessages = 1
SPECIFICATION Spec
CONSTRAINT OneStory
INVARIANTS LedgerContiguous AckIsStored OneAckPerKey ClosedWithEvidence ClosedIsPublished
SYMMETRY Instances
CHECK_DEADLOCK FALSE
PROPERTY ImplementsLedger
