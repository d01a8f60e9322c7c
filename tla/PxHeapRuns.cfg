CONSTANTS
    PageSize = 8
    DescSize = 2
    SizeofHeap = 4
    MaxHeaps = 3
    Sizes = {6}
    ObjectSizes = {3}
    Aligns = {2}
    PxObjectSize = 1
    SocketSize = 1
SPECIFICATION Spec
INVARIANTS
    HeapsSound
    BlocksApart
    SnapshotsHold
PROPERTIES
    RegionSpec
    FinalizedOnce
CHECK_DEADLOCK FALSE
