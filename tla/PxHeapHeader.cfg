CONSTANTS
    PageSize = 8
    DescSize = 2
    SizeofHeap = 4
    MaxHeaps = 3
    Sizes = {3, 6}
    ObjectSizes = {}
    Aligns = {1}
    PxObjectSize = 1
    SocketSize = 1
SPECIFICATION Spec
INVARIANT HeaderHoldsSize
CHECK_DEADLOCK FALSE
