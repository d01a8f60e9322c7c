------------------------------- MODULE PxHeap -------------------------------
(***************************************************************************)
(* The memory of one parallel context: a chain of heaps in which blocks    *)
(* are carved off the front and never freed one by one, and snapshots the  *)
(* context is rewound to, which is how everything a callback allocated is  *)
(* dropped at once (the heap functions of src/Python/pyparallel.c).        *)
(*                                                                         *)
(* All sizes and offsets are in words of Px_PTR_ALIGN_SIZE (8) bytes.  A   *)
(* block is the extent [heap, at, len]: "at" is the word that holds the    *)
(* size, the pointer handed out is the word after it.  A context is used   *)
(* by one thread at a time, so a step is a whole call.                     *)
(***************************************************************************)
EXTENDS Integers, FiniteSets

CONSTANTS
    PageSize,    \* Px_PAGE_SIZE, also Px_DEFAULT_HEAP_SIZE
    DescSize,    \* sizeof(Heap), the descriptor of the next heap (sle_next)
    SizeofHeap,  \* Px_SIZEOF_HEAP, sizeof(Heap) rounded up to a cache line
    MaxHeaps,    \* bound: heaps a context may chain
    Sizes,       \* the sizes callers ask for
    ObjectSizes, \* the sizes of objects whose type is registered for dealloc
    Aligns,      \* the alignments callers ask for
    PxObjectSize, \* sizeof(PxObject), the entry an object is registered by
    SocketSize   \* sizeof(PxSocket)

(* The interpreter itself only passes align = 0 (8 bytes) and              *)
(* Px_MEM_ALIGN_SIZE (16 bytes).  With 8-byte words sizeof(Heap) is 22 and *)
(* Px_SIZEOF_HEAP is 24: one word for the descriptor's size header and one *)
(* for the padding of a 16-byte alignment.                                 *)
ASSUME HeapAssumption ==
    /\ DescSize \in Nat \ {0}
    /\ SizeofHeap \in Nat /\ SizeofHeap >= DescSize + 2
    /\ PageSize \in Nat /\ PageSize >= SizeofHeap
    /\ MaxHeaps \in Nat \ {0}
    /\ Sizes \subseteq Nat
    /\ ObjectSizes \subseteq Nat
    /\ Aligns \subseteq {1, 2}
    /\ PxObjectSize \in Nat
    /\ SocketSize \in Nat

VARIABLES
    mem,      \* heaps, c->h, the blocks in use, and why the process stopped
    ctxSnap,  \* c->s and c->snapshot
    startup,  \* s->startup_heap_snapshot
    busy,     \* a callback runs under a context snapshot
    calls     \* objects whose tp_dealloc the last step called

vars == <<mem, ctxSnap, startup, busy, calls>>

HeapIds == 1..MaxHeaps
Extent == [heap : HeapIds, at : Nat, len : Nat]
NULL == [heap |-> 0, at |-> 0, len |-> 0]

(* A Heap: "base" says that HeapAlloc() gave it memory; "deallocs" is      *)
(* px_deallocs, whose length is num_px_deallocs.                           *)
HeapRec == [size : Nat, base : BOOLEAN, next : Nat, allocated : Nat,
            remaining : Nat, deallocs : SUBSET Extent]
Traps == {"none", "not_reset", "no_memory", "stray", "count"}
Memory == [heaps : [HeapIds -> HeapRec], cur : HeapIds,
           live : SUBSET Extent, smashed : SUBSET Extent, trap : Traps]

(* A snapshot is a copy of *c->h; "live" and "smashed" are what the memory *)
(* held when it was taken.                                                 *)
Snapshot == [cur : HeapIds, heap : HeapRec,
             live : SUBSET Extent, smashed : SUBSET Extent]
None == [cur |-> 0]

-----------------------------------------------------------------------------
(* Sizes and states of a heap                                              *)

AlignUp(n, a) == ((n + a - 1) \div a) * a

(* Mutant: a new heap is as large as the request.                          *)
NewHeapSizeTight(needed) == needed

(* _PyParallel_NewHeapSize(): what to ask Heap_Init() for.                 *)
NewHeapSize(needed) ==
    IF needed + SizeofHeap <= PageSize THEN AlignUp(needed, PageSize)
                                       ELSE needed + SizeofHeap

(* Heap_Init(): the size it allocates for a request of n.                  *)
InitSize(n) == AlignUp(IF n < PageSize THEN PageSize ELSE n, PageSize)

(* A heap after Heap_Init(): it holds the descriptor of the next heap,     *)
(* allocated through _PyHeap_Malloc() and so behind a size header.         *)
InitialHeap(size) ==
    [size |-> size, base |-> TRUE, next |-> DescSize + 1,
     allocated |-> DescSize + 1, remaining |-> size - (DescSize + 1),
     deallocs |-> {}]

Unmade == [size |-> 0, base |-> FALSE, next |-> 0, allocated |-> 0,
           remaining |-> 0, deallocs |-> {}]

(* Mutant: h->next stays where it was.                                     *)
ResetHeapInPlace(h) == [h EXCEPT !.remaining = h.size - DescSize,
                                 !.allocated = DescSize, !.deallocs = {}]

(* _PyHeap_Reset(), which leaves out the header of the descriptor.         *)
ResetHeap(h) == [h EXCEPT !.remaining = h.size - DescSize,
                          !.allocated = DescSize, !.next = DescSize,
                          !.deallocs = {}]

(* What _PyHeap_EnsureReset() demands.                                     *)
IsReset(h) == /\ h.remaining = h.size - DescSize
              /\ h.allocated = DescSize
              /\ h.next = h.allocated
              /\ h.deallocs = {}

-----------------------------------------------------------------------------
(* _PyHeap_Malloc()                                                        *)

(* The padding loop moves the header by the running padding, so after i    *)
(* rounds it has moved 1 + 2 + ... + i words and accounts for i.           *)
Drift(i) == (i * (i + 1)) \div 2
Padding(next, a) == CHOOSE i \in 0..(a - 1) :
    /\ (next + Drift(i) + 1) % a = 0
    /\ \A j \in 0..(a - 1) : j < i => (next + Drift(j) + 1) % a # 0

(* Mutant: the header is not counted.                                      *)
RoomForData(h, n, a) == AlignUp(n, a) + Padding(h.next, a) <= h.remaining

Room(h, n, a) == AlignUp(n, a) + 1 + Padding(h.next, a) <= h.remaining

(* Mutants: the padding is left out of h->next, of h->allocated.           *)
AdvanceShort(h, len, pad) == [h EXCEPT !.next = @ + len,
    !.allocated = @ + len + pad, !.remaining = @ - (len + pad)]
AdvanceUncounted(h, len, pad) == [h EXCEPT !.next = @ + len + pad,
    !.allocated = @ + len, !.remaining = @ - (len + pad)]

Advance(h, len, pad) == [h EXCEPT !.next = @ + len + pad,
    !.allocated = @ + len + pad, !.remaining = @ - (len + pad)]

Carve(m, k, n, a) ==
    LET h == m.heaps[k]
        pad == Padding(h.next, a)
        len == AlignUp(n, a) + 1
        e == [heap |-> k, at |-> h.next + Drift(pad), len |-> len]
    IN  [ptr |-> e,
         mem |-> [m EXCEPT
            !.heaps[k] = Advance(h, len, pad),
            !.cur = k,
            !.live = @ \cup {e}]]

(* The search moves c->h along the chain while the next descriptor has a   *)
(* size, each time insisting that the heap it steps into is reset.         *)
Walked(m, k, n, a) == \A j \in m.cur..(k - 1) :
    ~Room(m.heaps[j], n, a) /\ m.heaps[j + 1].size # 0
Clean(m, k) == \A j \in (m.cur + 1)..k : IsReset(m.heaps[j])

Grown(m, k, n, a) ==
    LET size == InitSize(NewHeapSize(AlignUp(n, a) + 1))
    IN  [m EXCEPT !.heaps[k] = InitialHeap(size), !.cur = k]

(* HeapAlloc() fails after Heap_Init() has filled in the descriptor.       *)
HalfMade(m, k, n, a) ==
    LET size == InitSize(NewHeapSize(AlignUp(n, a) + 1))
    IN  [m EXCEPT !.heaps[k] = [Unmade EXCEPT !.size = size], !.cur = k - 1]

(* The outcomes of a call: the memory after it and the pointer returned.   *)
Found(m, n, a) ==
    {Carve(m, k, n, a) : k \in {j \in m.cur..MaxHeaps :
        Walked(m, j, n, a) /\ Clean(m, j) /\ Room(m.heaps[j], n, a)}}
Growable(m, n, a) == {k \in (m.cur + 1)..MaxHeaps :
    /\ Walked(m, k - 1, n, a) /\ Clean(m, k - 1)
    /\ ~Room(m.heaps[k - 1], n, a) /\ m.heaps[k].size = 0}
Grew(m, n, a) ==
    {Carve(Grown(m, k, n, a), k, n, a) : k \in {j \in Growable(m, n, a) :
        Room(Grown(m, j, n, a).heaps[j], n, a)}}
Exhausted(m, n, a) ==
    {[ptr |-> NULL, mem |-> HalfMade(m, k, n, a)] : k \in Growable(m, n, a)}
Broken(m, n, a) ==
    {[ptr |-> NULL, mem |-> [m EXCEPT !.trap = "not_reset"]] :
        k \in {j \in m.cur..MaxHeaps :
                   Walked(m, j, n, a) /\ ~Clean(m, j)}}

Allocs(m, n, a) == Found(m, n, a) \cup Grew(m, n, a)
                     \cup Exhausted(m, n, a) \cup Broken(m, n, a)

-----------------------------------------------------------------------------
(* Snapshots and _PxContext_Rewind()                                       *)

Take(m) == [cur |-> m.cur, heap |-> m.heaps[m.cur],
            live |-> m.live, smashed |-> m.smashed]

(* Mutant: the first block after the snapshot passes for one before it.    *)
BeforeOrAt(e, s) == e.heap = s.cur /\ e.at <= s.heap.next

(* Px_PTR_IN_HEAP_BEFORE_SNAPSHOT, and the heaps before the snapshot's.    *)
Before(e, s) == e.heap = s.cur /\ e.at + 1 <= s.heap.next
Kept(e, s) == e.heap < s.cur \/ Before(e, s)

(* Mutant: the snapshot's own heap is left out.                            *)
RewoundAbove(m, s) == (s.cur + 1)..m.cur

Rewound(m, s) == s.cur..m.cur
Registered(m, s) == UNION {m.heaps[k].deallocs : k \in Rewound(m, s)}
Skipped(m, s) == {o \in m.heaps[s.cur].deallocs : Before(o, s)}
(* Mutant: an object from before the snapshot is not skipped.              *)
CalledAll(m, s) == Registered(m, s)

Called(m, s) == Registered(m, s) \ Skipped(m, s)

(* _PyHeap_DeallocObjects() breaks on an object registered with a heap     *)
(* that does not hold it.                                                  *)
Stray(m, s) == \E k \in Rewound(m, s) :
    \E o \in m.heaps[k].deallocs : o.heap # k

(* The check on the number of calls runs when heaps are unwound.  The      *)
(* current heap is counted twice.  On a mismatch the heap before the       *)
(* snapshot's is consulted, which does not exist if that one is the first; *)
(* its px_deallocs_skipped is otherwise 0 and the mismatch is ignored.     *)
Expected(m, s) == Cardinality(m.heaps[m.cur].deallocs)
                    + Cardinality(Registered(m, s))
Miscount(m, s) == /\ m.cur > s.cur
                  /\ Expected(m, s) # 0
                  /\ Cardinality(Called(m, s)) # Expected(m, s)
                  /\ s.cur = 1

(* The last word of the descriptor of heap k is word DescSize of heap      *)
(* k - 1: the size header of a block carved there after a reset.           *)
OnDescriptor(e, k) == e.heap = k - 1 /\ e.at = DescSize

(* The third loop resets the heaps above, then the snapshot is copied over *)
(* the heap it was taken of.  Both write that last word.                   *)
Restored(m, s) ==
    LET live == {e \in m.live : Kept(e, s)}
    IN  [m EXCEPT
          !.heaps = [k \in HeapIds |->
              IF k = s.cur THEN s.heap
              ELSE IF k \in Rewound(m, s) THEN ResetHeap(m.heaps[k])
              ELSE m.heaps[k]],
          !.cur = s.cur,
          !.live = live,
          !.smashed = {e \in live :
              IF OnDescriptor(e, s.cur) THEN e \in s.smashed
              ELSE \/ e \in m.smashed
                   \/ m.cur > s.cur /\ OnDescriptor(e, s.cur + 1)}]

Breaks(m, s) == Stray(m, s) \/ Miscount(m, s)
Rewind(m, s) ==
    IF Stray(m, s) THEN [m EXCEPT !.trap = "stray"]
    ELSE IF Miscount(m, s) THEN [m EXCEPT !.trap = "count"]
    ELSE Restored(m, s)

-----------------------------------------------------------------------------
(* The operations on a context                                             *)

Running == mem.trap = "none"

(* new_context(): the first heap.                                          *)
Init ==
    /\ mem = [heaps |-> [k \in HeapIds |->
                            IF k = 1 THEN InitialHeap(InitSize(0)) ELSE Unmade],
              cur |-> 1, live |-> {}, smashed |-> {}, trap |-> "none"]
    /\ ctxSnap = None
    /\ startup = None
    /\ busy = FALSE
    /\ calls = {}

(* _PyHeap_Malloc(), and _PyHeap_Realloc(), which is a malloc and a copy.  *)
Malloc(n, a) ==
    /\ Running
    /\ \E out \in Allocs(mem, n, a) : mem' = out.mem
    /\ calls' = {}
    /\ UNCHANGED <<ctxSnap, startup, busy>>

(* The object o joins px_deallocs of the heap that c->h is by then.        *)
Register(m, o) == [m EXCEPT !.heaps[m.cur].deallocs = @ \cup {o}]

(* init_object() for a type with Py_TPFLAGS_PX_DEALLOC, case 1: the object *)
(* and its PxObject are one block.                                         *)
NewObject(n) ==
    /\ Running
    /\ \E out \in Allocs(mem, n, 1) :
         mem' = IF out.ptr = NULL THEN out.mem ELSE Register(out.mem, out.ptr)
    /\ calls' = {}
    /\ UNCHANGED <<ctxSnap, startup, busy>>

(* Case 2, PyObject_MALLOC() and then PyObject_INIT(): the object is one   *)
(* block, its PxObject another, which may be in the next heap.             *)
InitObject(n) ==
    /\ Running
    /\ \E one \in Allocs(mem, n, 1) :
         IF one.ptr = NULL
         THEN mem' = one.mem
         ELSE \E two \in Allocs(one.mem, PxObjectSize, 1) :
                mem' = IF two.ptr = NULL THEN two.mem
                                         ELSE Register(two.mem, one.ptr)
    /\ calls' = {}
    /\ UNCHANGED <<ctxSnap, startup, busy>>

(* _PyHeap_Free() frees nothing: it counts in the last word of *c->h.      *)
Free ==
    /\ Running
    /\ mem' = [mem EXCEPT !.smashed =
                  @ \cup {e \in mem.live : OnDescriptor(e, mem.cur)}]
    /\ calls' = {}
    /\ UNCHANGED <<ctxSnap, startup, busy>>

(* PxContext_HeapSnapshot(), before PxSocket_IOLoop() calls a callback.    *)
HeapSnapshot ==
    /\ Running /\ ~busy
    /\ ctxSnap' = Take(mem)
    /\ busy' = TRUE
    /\ calls' = {}
    /\ UNCHANGED <<mem, startup>>

(* PxContext_UpdateHeapSnapshot(): keep what the callback allocated.       *)
UpdateHeapSnapshot ==
    /\ Running /\ busy
    /\ ctxSnap' = Take(mem)
    /\ calls' = {}
    /\ UNCHANGED <<mem, startup, busy>>

(* PxContext_RollbackHeap(), when the callback's result has been sent.     *)
RollbackHeap ==
    /\ Running /\ busy
    /\ mem' = Rewind(mem, ctxSnap)
    /\ IF Breaks(mem, ctxSnap)
       THEN calls' = {} /\ UNCHANGED <<ctxSnap, busy>>
       ELSE calls' = Called(mem, ctxSnap) /\ ctxSnap' = None /\ busy' = FALSE
    /\ UNCHANGED startup

(* PxSocket_TakeStartupSnapshot(): it first allocates the two copies.      *)
TakeStartupSnapshot ==
    /\ Running /\ startup = None /\ ~busy
    /\ \E one \in Allocs(mem, SocketSize, 1) :
         IF one.ptr = NULL
         THEN /\ mem' = [one.mem EXCEPT !.trap = "no_memory"]
              /\ UNCHANGED startup
         ELSE \E two \in Allocs(one.mem, DescSize, 1) :
                IF two.ptr = NULL
                THEN /\ mem' = [two.mem EXCEPT !.trap = "no_memory"]
                     /\ UNCHANGED startup
                ELSE /\ mem' = two.mem
                     /\ startup' = Take(two.mem)
    /\ calls' = {}
    /\ UNCHANGED <<ctxSnap, busy>>

(* PxSocket_UpdateStartupSnapshot(), after client_created().               *)
UpdateStartupSnapshot ==
    /\ Running /\ startup # None /\ ~busy
    /\ startup' = Take(mem)
    /\ calls' = {}
    /\ UNCHANGED <<mem, ctxSnap, busy>>

(* PxSocket_Reuse(), or create_pxsocket() for a context that has a socket: *)
(* PxSocket_Recycle() gets here from any state of a request, and c->s is   *)
(* left as it is.                                                          *)
Reuse ==
    /\ Running /\ startup # None
    /\ mem' = Rewind(mem, startup)
    /\ IF Breaks(mem, startup)
       THEN calls' = {} /\ UNCHANGED busy
       ELSE calls' = Called(mem, startup) /\ busy' = FALSE
    /\ UNCHANGED <<ctxSnap, startup>>

Next ==
    \/ \E n \in Sizes, a \in Aligns : Malloc(n, a)
    \/ \E n \in ObjectSizes : NewObject(n) \/ InitObject(n)
    \/ Free
    \/ HeapSnapshot \/ UpdateHeapSnapshot \/ RollbackHeap
    \/ TakeStartupSnapshot \/ UpdateStartupSnapshot \/ Reuse

Spec == Init /\ [][Next]_vars

-----------------------------------------------------------------------------
(* Properties                                                              *)

(* The types of the variables.  That "remaining", a size_t, is a natural   *)
(* number says that no request is carved out of a heap with less room.     *)
TypeOK ==
    /\ mem \in Memory
    /\ ctxSnap \in Snapshot \cup {None}
    /\ startup \in Snapshot \cup {None}
    /\ busy \in BOOLEAN
    /\ calls \in SUBSET Extent

(* The three counts of a heap agree, whatever was carved, rewound and      *)
(* copied back: h->next is h->allocated past the base, and what is not     *)
(* allocated remains.                                                      *)
Accounted(h) == h.allocated + h.remaining = h.size /\ h.next = h.allocated
Accounting == \A k \in HeapIds :
    mem.heaps[k].base => Accounted(mem.heaps[k])

(* No two blocks overlap, and each lies between the descriptor at the      *)
(* front of its heap (but for the descriptor's last word) and h->next:     *)
(* neither the padding nor a rewind makes _PyHeap_Malloc() hand out memory *)
(* that is in use.                                                         *)
Disjoint(e, f) == e.heap # f.heap \/ e.at + e.len <= f.at
                                  \/ f.at + f.len <= e.at
BlocksApart ==
    /\ \A e, f \in mem.live : e # f => Disjoint(e, f)
    /\ \A e \in mem.live : /\ e.heap <= mem.cur
                           /\ DescSize <= e.at
                           /\ e.at + e.len <= mem.heaps[e.heap].next

(* A heap past the current one is as _PyHeap_Reset() leaves it, so the     *)
(* check _PyHeap_Malloc() makes before it steps into such a heap holds.    *)
AheadReset == \A k \in HeapIds :
    k > mem.cur /\ mem.heaps[k].base => IsReset(mem.heaps[k])

(* A heap that _PyHeap_Malloc() adds always has room for the request it    *)
(* was added for; otherwise it would go on adding heaps.                   *)
GrowthSuffices == \A n \in Sizes, a \in Aligns :
    Growable(mem, n, a) # {} => Grew(mem, n, a) # {}

(* The heaps of a context are sound: every count has its type and agrees   *)
(* with the others, heaps that are reused without being initialised are as *)
(* good as new, and a heap is never too small for what it was made for.    *)
HeapsSound == TypeOK /\ Accounting /\ AheadReset /\ GrowthSuffices

(* The blocks a snapshot was taken with are in use for as long as it may   *)
(* be rewound to, and their addresses alone (Px_PTR_IN_HEAP_BEFORE_...)    *)
(* tell them from those allocated since.                                   *)
Holds(s) == /\ s.live = {e \in mem.live : Kept(e, s)}
            /\ s.cur <= mem.cur
            /\ s.heap.next <= mem.heaps[s.cur].next
SnapshotsHold == /\ startup # None => Holds(startup)
                 /\ busy => Holds(ctxSnap)
                 /\ busy /\ startup # None => startup.live \subseteq ctxSnap.live

(* A context's memory is a region: see PxRegion.                           *)
RegisteredObjects == UNION {mem.heaps[k].deallocs : k \in HeapIds}
Region == INSTANCE PxRegion WITH
    live <- mem.live, objects <- RegisteredObjects,
    saved <- IF ctxSnap = None THEN {} ELSE ctxSnap.live,
    base <- IF startup = None THEN {} ELSE startup.live
RegionSpec == Region!Spec

(* tp_dealloc is called for every registered object a rewind drops and for *)
(* no other, and what stays in use stays registered.                       *)
FinalizedOnce == [][mem'.trap = "none" =>
    /\ calls' = RegisteredObjects \ mem'.live
    /\ RegisteredObjects \cap mem'.live \subseteq RegisteredObjects']_vars

-----------------------------------------------------------------------------
(* What comments and assertions of the source say and the code does not do *)

(* "Store the aligned size sizeof(size_t) bytes before the start address   *)
(* we're returning from the allocator" (_PyHeap_Malloc): the header of a   *)
(* block holds its size for as long as the block is in use.                *)
HeaderHoldsSize == mem.smashed = {}

(* "If h->sle_next->size is non-zero, it means the next heap in the list   *)
(* has already been allocated" (_PyHeap_Malloc).                           *)
SizeMeansAllocated == \A k \in HeapIds :
    mem.heaps[k].size # 0 => mem.heaps[k].base

(* "if (!Px_PTR_IN_HEAP(op, h)) __debugbreak()" (_PyHeap_DeallocObjects):  *)
(* an object is registered with the heap it is in.                         *)
RegisteredWhereItIs == \A k \in HeapIds :
    \A o \in mem.heaps[k].deallocs : o.heap = k

(* "if (actual_deallocs != expected_deallocs)" (_PxContext_Rewind): the    *)
(* count of the objects to finalize agrees with those finalized.           *)
CountsAgree == mem.trap # "count"

(* "assert(!c->s)" (PxContext_HeapSnapshot): when a callback is about to   *)
(* be called no snapshot of an earlier one is left over.                   *)
SnapshotSlotFree == ~busy => ctxSnap = None

=============================================================================
