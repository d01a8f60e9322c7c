CONSTANTS
    PageSize = 8
    DescSize = 2
    SizeofHeap = 4
    MaxHeaps = 2
    Sizes = {3}
    ObjectSizes = {}
    Aligns = {1}
    PxObjectSize = 1
    SocketSize = 1
SPECIFICATION Spec
INVARIANT SnapshotSlotFree
CHECK_DEADLOCK FALSE
