CONSTANTS
    PageSize = 8
    DescSize = 2
    SizeofHeap = 4
    MaxHeaps = 2
    Sizes = {}
    ObjectSizes = {1, 3}
    Aligns = {1}
    PxObjectSize = 1
    SocketSize = 1
SPECIFICATION Spec
INVARIANT CountsAgree
CHECK_DEADLOCK FALSE
