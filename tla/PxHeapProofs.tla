---------------------------- MODULE PxHeapProofs ----------------------------
(***************************************************************************)
(* Theorems about PxHeap, for every page size, chain length and set of     *)
(* request sizes: the heap of a context is sound, it is a region           *)
(* (PxRegion), and it finalizes each registered object once.               *)
(***************************************************************************)
EXTENDS PxHeap, TLAPS

-----------------------------------------------------------------------------
(* The arithmetic of a request                                             *)

(* Px_ALIGN rounds up.                                                     *)
LEMMA AlignUpBounds ==
    ASSUME NEW n \in Nat, NEW a \in Nat \ {0}
    PROVE  AlignUp(n, a) \in Nat /\ AlignUp(n, a) >= n
<1> DEFINE x == n + a - 1
<1>1. x \in Nat
    OBVIOUS
<1>2. /\ x \div a \in Nat
      /\ x % a \in 0..(a - 1)
      /\ x = a * (x \div a) + (x % a)
    BY <1>1
<1>3. (x \div a) * a \in Nat /\ (x \div a) * a = x - (x % a)
    BY <1>1, <1>2
<1>4. QED
    BY <1>2, <1>3 DEF AlignUp

(* For the alignments the interpreter uses, 8 and 16 bytes, the padding is *)
(* at most a word and the padding loop moves the header by as much.        *)
LEMMA PaddingBounds ==
    ASSUME NEW next \in Nat, NEW a \in {1, 2}
    PROVE  /\ Padding(next, a) \in {0, 1}
           /\ Padding(next, a) <= a - 1
           /\ Drift(Padding(next, a)) = Padding(next, a)
<1> DEFINE P(i) == /\ (next + Drift(i) + 1) % a = 0
                   /\ \A j \in 0..(a - 1) : j < i => (next + Drift(j) + 1) % a # 0
<1>1. Drift(0) = 0 /\ Drift(1) = 1
    BY DEF Drift
<1>2. \E i \in 0..(a - 1) : P(i)
  <2>1. CASE a = 1
    BY <1>1, <2>1
  <2>2. CASE a = 2
    <3>1. (next + 1) % 2 = 0 \/ (next + 2) % 2 = 0
        OBVIOUS
    <3>2. CASE (next + 1) % 2 = 0
        BY <1>1, <2>2, <3>2
    <3>3. CASE (next + 1) % 2 # 0
        BY <1>1, <2>2, <3>1, <3>3
    <3>4. QED
        BY <3>2, <3>3
  <2>3. QED
    BY <2>1, <2>2
<1>3. Padding(next, a) \in 0..(a - 1)
    BY <1>2 DEF Padding
<1>4. QED
    BY <1>1, <1>3

(* A heap made for a request has room for it, its header, its padding and  *)
(* the descriptor of the next heap: why Px_SIZEOF_HEAP is added, and why   *)
(* the word by which it exceeds the descriptor and its header is needed.   *)
LEMMA NewHeapFits ==
    ASSUME NEW n \in Nat, NEW a \in {1, 2},
           NEW size, size = InitSize(NewHeapSize(AlignUp(n, a) + 1))
    PROVE  /\ size \in Nat
           /\ size > DescSize + 1
           /\ Room(InitialHeap(size), n, a)
<1> DEFINE needed == AlignUp(n, a) + 1
           asked == NewHeapSize(needed)
           padded == IF asked < PageSize THEN PageSize ELSE asked
<1>1. needed \in Nat /\ needed >= 1
    BY AlignUpBounds
<1>2. PageSize \in Nat \ {0} /\ SizeofHeap \in Nat /\ DescSize \in Nat
        /\ SizeofHeap >= DescSize + 2 /\ PageSize >= SizeofHeap
    BY HeapAssumption
<1>3. asked \in Nat /\ (needed + SizeofHeap > PageSize => asked = needed + SizeofHeap)
    BY SMTT(30), <1>1, <1>2, AlignUpBounds DEF NewHeapSize
<1>4. padded \in Nat /\ padded >= needed + SizeofHeap
    BY <1>1, <1>2, <1>3
<1>5. size = AlignUp(padded, PageSize)
    BY DEF InitSize
<1>6. size \in Nat /\ size >= padded
    BY <1>2, <1>4, <1>5, AlignUpBounds
<1>7. Padding(DescSize + 1, a) \in {0, 1}
    BY <1>2, PaddingBounds
<1>8. needed + Padding(DescSize + 1, a) <= size - (DescSize + 1)
    BY <1>1, <1>2, <1>4, <1>6, <1>7
<1>9. QED
    BY <1>1, <1>2, <1>4, <1>6, <1>7, <1>8 DEF Room, InitialHeap

-----------------------------------------------------------------------------
(* The inductive invariant                                                 *)

(* A heap that was never given memory looks it, whatever its size says, so *)
(* that the check for a reset heap stops on it.                            *)
HeapOK(h) == IF h.base THEN Accounted(h) /\ DescSize <= h.next
                       ELSE h.allocated = 0 /\ h.deallocs = {}

(* The heaps up to the current one are in use, those after it are not.     *)
ChainOK(m) == /\ \A k \in HeapIds : HeapOK(m.heaps[k])
              /\ \A k \in 1..m.cur : m.heaps[k].base
              /\ \A k \in HeapIds :
                    k > m.cur /\ m.heaps[k].base => IsReset(m.heaps[k])

(* Every block lies in the part of its heap that has been handed out, and  *)
(* no two blocks overlap.                                                  *)
BlockOK(m, e) == /\ e.heap <= m.cur
                 /\ DescSize <= e.at /\ 1 <= e.len
                 /\ e.at + e.len <= m.heaps[e.heap].next
BlocksOK(m) == /\ \A e \in m.live : BlockOK(m, e)
               /\ \A e, f \in m.live : e # f => Disjoint(e, f)

MemInv(m) == m \in Memory /\ ChainOK(m) /\ BlocksOK(m)

(* A snapshot can be rewound to: its copy of the heap is one the heap may  *)
(* have been in, and its blocks are those that its addresses tell.         *)
SnapInv(m, s) == /\ s \in Snapshot
                 /\ s.heap.base /\ HeapOK(s.heap)
                 /\ s.cur <= m.cur
                 /\ s.heap.next <= m.heaps[s.cur].next
                 /\ s.live = {e \in m.live : Kept(e, s)}
                 /\ \A e \in s.live : e.heap = s.cur => e.at + e.len <= s.heap.next

(* The startup snapshot is older than that of the callback.                *)
Older(s, t) == /\ s.live \subseteq t.live
               /\ s.cur <= t.cur
               /\ s.cur = t.cur => s.heap.next <= t.heap.next

IInv == /\ MemInv(mem)
        /\ ctxSnap \in Snapshot \cup {None}
        /\ startup \in Snapshot \cup {None}
        /\ busy \in BOOLEAN
        /\ calls \in SUBSET Extent
        /\ startup # None => SnapInv(mem, startup)
        /\ busy => ctxSnap \in Snapshot /\ SnapInv(mem, ctxSnap)
        /\ busy /\ startup # None => Older(startup, ctxSnap)

-----------------------------------------------------------------------------
(* Allocation                                                              *)

(* What every outcome of a call of _PyHeap_Malloc() has in common: nothing *)
(* in use is touched, and new blocks come after what was handed out.       *)
Extends(m, m2) ==
    /\ MemInv(m2)
    /\ m.cur <= m2.cur
    /\ m.live \subseteq m2.live
    /\ \A k \in 1..m.cur : m.heaps[k].next <= m2.heaps[k].next
    /\ \A e \in m2.live \ m.live :
          /\ m.cur <= e.heap
          /\ e.heap = m.cur => m.heaps[e.heap].next <= e.at

SameObjects(m, m2) == \A k \in HeapIds :
    m2.heaps[k].deallocs = m.heaps[k].deallocs

(* Extending a memory twice extends it.                                    *)
LEMMA ExtendsTransitive ==
    ASSUME NEW m1, NEW m2, NEW m3, MemInv(m1),
           Extends(m1, m2), Extends(m2, m3)
    PROVE  Extends(m1, m3)
<1>1. m1.cur \in HeapIds /\ m2.cur \in HeapIds /\ m3.cur \in HeapIds
    BY DEF Extends, MemInv, Memory
<1>2. /\ 1 <= m1.cur /\ m1.cur <= m2.cur /\ m2.cur <= m3.cur /\ m1.cur <= m3.cur
      /\ m1.cur \in Int /\ m2.cur \in Int /\ m3.cur \in Int
  <2>1. m1.cur <= m2.cur /\ m2.cur <= m3.cur
      BY DEF Extends
  <2>2. QED
      BY <1>1, <2>1 DEF HeapIds
<1>3. \A k \in HeapIds : m1.heaps[k].next \in Nat /\ m2.heaps[k].next \in Nat
                           /\ m3.heaps[k].next \in Nat
    BY DEF Extends, MemInv, Memory, HeapRec
<1>4. \A k \in 1..m1.cur : m1.heaps[k].next <= m3.heaps[k].next
  <2>1. ASSUME NEW k \in 1..m1.cur PROVE m1.heaps[k].next <= m3.heaps[k].next
    <3>1. k \in HeapIds /\ k \in 1..m2.cur
        BY <1>1, <1>2, HeapAssumption DEF HeapIds
    <3>2. /\ m1.heaps[k].next <= m2.heaps[k].next
          /\ m2.heaps[k].next <= m3.heaps[k].next
        BY <3>1 DEF Extends
    <3>3. QED
        BY <1>3, <3>1, <3>2
  <2>2. QED
      BY <2>1
<1>5. ASSUME NEW e \in m3.live \ m1.live
      PROVE  m1.cur <= e.heap /\ (e.heap = m1.cur => m1.heaps[e.heap].next <= e.at)
  <2>1. e \in Extent
      BY <1>5 DEF Extends, MemInv, Memory
  <2>2. e.heap \in HeapIds /\ e.at \in Nat
      BY <2>1 DEF Extent
  <2>3. CASE e \in m2.live
      BY <1>5, <2>3 DEF Extends
  <2>4. CASE e \notin m2.live
    <3>1. m2.cur <= e.heap /\ (e.heap = m2.cur => m2.heaps[e.heap].next <= e.at)
        BY <1>5, <2>4 DEF Extends
    <3>2. m1.cur <= e.heap
      <4>1. e.heap \in Int
          BY <2>2 DEF HeapIds
      <4>2. QED
          BY <3>1, <1>2, <4>1
    <3>3. ASSUME e.heap = m1.cur PROVE m1.heaps[e.heap].next <= e.at
      <4>1. e.heap = m2.cur /\ e.heap \in 1..m1.cur
          BY <3>1, <3>3, <1>2
      <4>2. m1.heaps[e.heap].next <= m2.heaps[e.heap].next
          BY <4>1 DEF Extends
      <4>3. QED
          BY <4>1, <4>2, <3>1, <1>3, <2>2
    <3>4. QED
        BY <3>2, <3>3
  <2>5. QED
      BY <2>3, <2>4
<1>6. QED
    BY <1>2, <1>4, <1>5 DEF Extends

(* A heap the search may step into was given memory.                       *)
LEMMA ResetIsMade ==
    ASSUME NEW h \in HeapRec, HeapOK(h), IsReset(h)
    PROVE  h.base
BY HeapAssumption DEF HeapOK, IsReset

(* Advancing over a block that fits keeps a heap well formed.              *)
LEMMA AdvanceType ==
    ASSUME NEW h \in HeapRec, NEW len \in Nat, NEW pad \in Nat,
           len + pad <= h.remaining
    PROVE  LET h2 == Advance(h, len, pad)
           IN  /\ h2 \in HeapRec
               /\ h2.base = h.base /\ h2.size = h.size
               /\ h2.deallocs = h.deallocs
               /\ h2.next = h.next + len + pad
               /\ h2.allocated = h.allocated + len + pad
               /\ h2.remaining = h.remaining - (len + pad)
<1>1. /\ h.next \in Nat /\ h.allocated \in Nat /\ h.remaining \in Nat
      /\ h.size \in Nat /\ h.base \in BOOLEAN /\ h.deallocs \in SUBSET Extent
    BY DEF HeapRec
<1>2. /\ h.next + len + pad \in Nat /\ h.allocated + len + pad \in Nat
      /\ h.remaining - (len + pad) \in Nat
    BY <1>1
<1>3. ASSUME NEW x \in Nat, NEW y \in Nat, NEW z \in Nat
      PROVE  [h EXCEPT !.next = x, !.allocated = y, !.remaining = z] \in HeapRec
    BY DEF HeapRec
<1>4. Advance(h, len, pad) \in HeapRec
    BY <1>2, <1>3 DEF Advance
<1>5. QED
    BY <1>4 DEF Advance, HeapRec

(* Carving a block out of a heap with room for it, past which no block     *)
(* lies.                                                                   *)
LEMMA CarveExtends ==
    ASSUME NEW m, MemInv(m), NEW k \in HeapIds, NEW n \in Nat, NEW a \in {1, 2},
           m.cur <= k, \A j \in 1..k : m.heaps[j].base, Room(m.heaps[k], n, a)
    PROVE  LET c == Carve(m, k, n, a)
           IN  /\ Extends(m, c.mem) /\ SameObjects(m, c.mem)
               /\ c.ptr \in c.mem.live \ m.live
<1> DEFINE h == m.heaps[k]
           pad == Padding(h.next, a)
           len == AlignUp(n, a) + 1
           e == [heap |-> k, at |-> h.next + Drift(pad), len |-> len]
           m2 == Carve(m, k, n, a).mem
           h2 == Advance(h, len, pad)
<1>1. m \in Memory /\ h \in HeapRec /\ m.cur \in HeapIds
    BY DEF MemInv, Memory
<1>2. h.next \in Nat /\ h.allocated \in Nat /\ h.remaining \in Nat /\ h.size \in Nat
    BY <1>1 DEF HeapRec
<1>3. pad \in {0, 1} /\ Drift(pad) = pad
    BY <1>2, PaddingBounds
<1>4. len \in Nat /\ len >= 1
    BY AlignUpBounds
<1>5. len + pad <= h.remaining
    BY <1>2, <1>3, <1>4 DEF Room
<1>6. /\ m2 = [m EXCEPT !.heaps[k] = h2, !.cur = k, !.live = @ \cup {e}]
      /\ Carve(m, k, n, a).ptr = e
    BY DEF Carve
<1>7. e \in Extent
    BY <1>2, <1>3, <1>4 DEF Extent
<1>8. h2 \in HeapRec /\ h2.base = h.base /\ h2.next = h.next + len + pad
      /\ h2.allocated = h.allocated + len + pad /\ h2.size = h.size
      /\ h2.remaining = h.remaining - (len + pad) /\ h2.deallocs = h.deallocs
    BY <1>1, <1>3, <1>4, <1>5, AdvanceType
<1>9. h.base /\ Accounted(h) /\ DescSize <= h.next
    BY DEF MemInv, ChainOK, HeapOK, HeapIds
<1>10. HeapOK(h2)
  <2>1. Accounted(h2)
      BY <1>2, <1>3, <1>4, <1>8, <1>9 DEF Accounted
  <2>2. DescSize <= h2.next
      BY <1>2, <1>3, <1>4, <1>8, <1>9, HeapAssumption
  <2>3. QED
      BY <1>8, <1>9, <2>1, <2>2 DEF HeapOK
<1>11. m2 = [heaps |-> [m.heaps EXCEPT ![k] = h2], cur |-> k,
             live |-> m.live \cup {e}, smashed |-> m.smashed, trap |-> m.trap]
    BY ZenonT(30), <1>1, <1>6 DEF Memory
<1>12. m2 \in Memory
  <2>1. [m.heaps EXCEPT ![k] = h2] \in [HeapIds -> HeapRec]
      BY <1>1, <1>8 DEF Memory
  <2>2. m.live \cup {e} \in SUBSET Extent
      BY <1>1, <1>7 DEF Memory
  <2>3. QED
      BY <1>1, <1>11, <2>1, <2>2 DEF Memory
<1>13. \A j \in HeapIds : m2.heaps[j] = IF j = k THEN h2 ELSE m.heaps[j]
    BY <1>1, <1>11 DEF Memory
<1>14. ChainOK(m2)
  <2>1. \A j \in HeapIds : HeapOK(m2.heaps[j])
      BY <1>10, <1>13 DEF MemInv, ChainOK
  <2>2. \A j \in 1..k : m2.heaps[j].base
    <3>1. \A j \in 1..k : j \in HeapIds
        BY HeapAssumption DEF HeapIds
    <3>2. QED
        BY <3>1, <1>8, <1>9, <1>13
  <2>3. ASSUME NEW j \in HeapIds, j > k, m2.heaps[j].base
        PROVE  IsReset(m2.heaps[j])
    <3>1. m2.heaps[j] = m.heaps[j] /\ j > m.cur
        BY <1>1, <1>13, <2>3 DEF HeapIds
    <3>2. QED
        BY <2>3, <3>1 DEF MemInv, ChainOK
  <2>4. QED
      BY <1>11, <2>1, <2>2, <2>3 DEF ChainOK
<1>15. \A j \in HeapIds : m.heaps[j].next \in Nat /\ m.heaps[j].next <= m2.heaps[j].next
    BY <1>1, <1>2, <1>3, <1>4, <1>8, <1>13 DEF Memory, HeapRec
<1>16. BlockOK(m2, e)
    BY <1>2, <1>3, <1>4, <1>8, <1>9, <1>11, <1>13, HeapAssumption DEF BlockOK, HeapIds
<1>17. ASSUME NEW f \in m.live
       PROVE  BlockOK(m2, f) /\ Disjoint(e, f) /\ Disjoint(f, e)
  <2>1. f \in Extent /\ BlockOK(m, f)
      BY <1>1 DEF MemInv, Memory, BlocksOK
  <2>2. f.heap \in HeapIds /\ f.at \in Nat /\ f.len \in Nat
      BY <2>1 DEF Extent
  <2>3. m2.heaps[f.heap].next \in Nat
      BY <2>2, <1>12 DEF Memory, HeapRec
  <2>4. BlockOK(m2, f)
      BY <2>1, <2>2, <2>3, <1>1, <1>11, <1>15 DEF BlockOK, HeapIds
  <2>5. f.heap = k => f.at + f.len <= e.at
      BY <2>1, <2>2, <1>2, <1>3 DEF BlockOK
  <2>6. QED
      BY <2>4, <2>5 DEF Disjoint
<1>18. BlocksOK(m2)
    BY <1>11, <1>16, <1>17 DEF MemInv, BlocksOK
<1>19. \A f \in m2.live \ m.live : m.cur <= f.heap
          /\ (f.heap = m.cur => m.heaps[f.heap].next <= f.at)
    BY <1>2, <1>3, <1>11
<1>20. QED
  <2>1. \A j \in 1..m.cur : m.heaps[j].next <= m2.heaps[j].next
      BY <1>1, <1>15, HeapAssumption DEF HeapIds
  <2>2. MemInv(m2)
      BY <1>12, <1>14, <1>18 DEF MemInv
  <2>3. SameObjects(m, m2)
      BY <1>8, <1>13 DEF SameObjects
  <2>4. e \notin m.live
    <3>1. e.heap = k /\ e.at = h.next + Drift(pad) /\ e.len = len
        OBVIOUS
    <3>2. Disjoint(e, e) => len <= 0
        BY <1>2, <1>3, <1>4, <3>1 DEF Disjoint
    <3> HIDE DEF e, len
    <3>3. QED
        BY <1>4, <1>17, <3>2
  <2> HIDE DEF m2, e
  <2>5. m2 = Carve(m, k, n, a).mem
      BY DEF m2
  <2>6. Extends(m, m2)
      BY <1>11, <1>19, <2>1, <2>2 DEF Extends
  <2>7. Carve(m, k, n, a).ptr \in m2.live \ m.live
      BY <1>6, <1>11, <2>4
  <2>8. QED
      BY <2>3, <2>5, <2>6, <2>7

(* The chain grows by heap k, which HeapAlloc() gives memory, or does not. *)
LEMMA GrowExtends ==
    ASSUME NEW m, MemInv(m), NEW k \in HeapIds, m.cur < k,
           \A j \in 1..(k - 1) : m.heaps[j].base,
           NEW h \in HeapRec, HeapOK(h), h.deallocs = {},
           NEW m2 \in Memory, m2.heaps = [m.heaps EXCEPT ![k] = h],
           m2.cur = IF h.base THEN k ELSE k - 1, m2.live = m.live
    PROVE  Extends(m, m2) /\ SameObjects(m, m2)
<1> DEFINE c == m2.cur
<1>1. m \in Memory /\ m.cur \in HeapIds
    BY DEF MemInv, Memory
<1>2. /\ m.cur \in Int /\ k \in Int /\ 1 <= m.cur /\ k <= MaxHeaps /\ MaxHeaps \in Int
      /\ c \in Int /\ m.cur <= c /\ c <= k /\ c \in HeapIds
    BY <1>1, HeapAssumption DEF HeapIds
<1>3. \A j \in HeapIds : m2.heaps[j] = IF j = k THEN h ELSE m.heaps[j]
    BY <1>1 DEF Memory
<1>5. ChainOK(m2)
  <2>1. \A j \in HeapIds : HeapOK(m2.heaps[j])
      BY <1>3 DEF MemInv, ChainOK
  <2>2. ASSUME NEW j \in 1..c PROVE m2.heaps[j].base
    <3>1. j \in HeapIds /\ (j = k \/ j \in 1..(k - 1))
        BY <1>2 DEF HeapIds
    <3>2. j = k => h.base
        BY <1>2
    <3>3. QED
        BY <1>3, <3>1, <3>2
  <2>3. ASSUME NEW j \in HeapIds, j > c, m2.heaps[j].base
        PROVE  IsReset(m2.heaps[j])
    <3>1. j # k
        BY <1>2, <1>3, <2>3
    <3>2. m2.heaps[j] = m.heaps[j] /\ j > m.cur
        BY <1>2, <1>3, <2>3, <3>1 DEF HeapIds
    <3>3. QED
        BY <2>3, <3>2 DEF MemInv, ChainOK
  <2>4. QED
      BY <1>3, <2>1, <2>2, <2>3 DEF ChainOK
<1>6. \A j \in 1..m.cur : j \in HeapIds /\ m2.heaps[j].next = m.heaps[j].next
                            /\ m.heaps[j].next \in Nat
  <2>1. \A j \in 1..m.cur : j \in HeapIds /\ j # k
      BY <1>2 DEF HeapIds
  <2>2. QED
      BY <1>1, <1>3, <2>1 DEF Memory, HeapRec
<1>7. ASSUME NEW e \in m2.live PROVE BlockOK(m2, e)
  <2>1. e \in Extent /\ BlockOK(m, e)
      BY <1>1, <1>3, <1>7 DEF MemInv, BlocksOK, Memory
  <2>2. e.heap \in 1..m.cur
      BY <1>2, <2>1 DEF BlockOK, Extent, HeapIds
  <2>3. QED
      BY <1>2, <1>3, <1>6, <2>1, <2>2 DEF BlockOK
<1>8. MemInv(m2)
    BY <1>5, <1>7 DEF MemInv, BlocksOK
<1>9. SameObjects(m, m2)
  <2>1. m.heaps[k].deallocs = {}
      BY <1>2 DEF MemInv, ChainOK, HeapOK, IsReset
  <2>2. QED
      BY <1>3, <2>1 DEF SameObjects
<1>10. QED
    BY <1>2, <1>3, <1>6, <1>8, <1>9 DEF Extends

(* Steps that leave the chain and the blocks as they are.                  *)
LEMMA SameExtends ==
    ASSUME NEW m, MemInv(m), NEW m2 \in Memory,
           m2.cur = m.cur, m2.live = m.live,
           \A k \in HeapIds :
              LET h == m.heaps[k]  h2 == m2.heaps[k]
              IN  /\ h2.size = h.size /\ h2.base = h.base /\ h2.next = h.next
                  /\ h2.allocated = h.allocated /\ h2.remaining = h.remaining
                  /\ k # m.cur => h2.deallocs = h.deallocs
    PROVE  Extends(m, m2)
<1>1. m \in Memory /\ m.cur \in HeapIds /\ m.cur \in Int
    BY DEF MemInv, Memory, HeapIds
<1>2. \A k \in 1..m.cur : k \in HeapIds
    BY <1>1, HeapAssumption DEF HeapIds
<1>3. ChainOK(m2)
  <2>1. ASSUME NEW k \in HeapIds PROVE HeapOK(m2.heaps[k])
    <3>1. k = m.cur => m.heaps[k].base
        BY <1>1 DEF MemInv, ChainOK, HeapIds
    <3>2. QED
        BY <3>1 DEF MemInv, ChainOK, HeapOK, Accounted
  <2>2. \A k \in 1..m2.cur : m2.heaps[k].base
      BY <1>2 DEF MemInv, ChainOK
  <2>3. ASSUME NEW k \in HeapIds, k > m2.cur, m2.heaps[k].base
        PROVE  IsReset(m2.heaps[k])
    <3>1. k # m.cur /\ IsReset(m.heaps[k])
        BY <1>1, <2>3 DEF MemInv, ChainOK, HeapIds
    <3>2. QED
        BY <3>1 DEF IsReset
  <2>4. QED
      BY <2>1, <2>2, <2>3 DEF ChainOK
<1>4. \A e \in m2.live : e.heap \in HeapIds
    BY <1>1 DEF Memory, Extent
<1>5. BlocksOK(m2)
    BY <1>4 DEF MemInv, BlocksOK, BlockOK
<1>6. \A k \in 1..m.cur : m.heaps[k].next <= m2.heaps[k].next
    BY <1>1, <1>2 DEF Memory, HeapRec
<1>7. QED
    BY <1>1, <1>3, <1>5, <1>6 DEF Extends, MemInv

(* The heaps the search went through were given memory.                    *)
LEMMA WalkedAreMade ==
    ASSUME NEW m, MemInv(m), NEW k \in Int, k <= MaxHeaps, Clean(m, k)
    PROVE  \A j \in 1..k : m.heaps[j].base
<1>1. m \in Memory /\ m.cur \in Int /\ MaxHeaps \in Int
    BY HeapAssumption DEF MemInv, Memory, HeapIds
<1>2. SUFFICES ASSUME NEW j \in 1..k PROVE m.heaps[j].base
    OBVIOUS
<1>3. j \in HeapIds
    BY <1>1 DEF HeapIds
<1>4. CASE j <= m.cur
  <2>1. j \in 1..m.cur
      BY <1>1, <1>3, <1>4 DEF HeapIds
  <2>2. QED
      BY <2>1 DEF MemInv, ChainOK
<1>5. CASE j > m.cur
  <2>1. j \in (m.cur + 1)..k
      BY <1>1, <1>5
  <2>2. IsReset(m.heaps[j]) /\ HeapOK(m.heaps[j]) /\ m.heaps[j] \in HeapRec
      BY <1>1, <1>3, <2>1 DEF Clean, MemInv, ChainOK, Memory
  <2>3. QED
      BY <2>2, ResetIsMade
<1>6. QED
    BY <1>1, <1>3, <1>4, <1>5 DEF HeapIds

(* Every outcome of a call of _PyHeap_Malloc() leaves what is in use as it *)
(* is.                                                                     *)
LEMMA AllocsExtend ==
    ASSUME NEW m, MemInv(m), NEW n \in Nat, NEW a \in {1, 2},
           NEW out \in Allocs(m, n, a)
    PROVE  /\ Extends(m, out.mem) /\ SameObjects(m, out.mem)
           /\ out.ptr # NULL => out.ptr \in out.mem.live \ m.live
<1> DEFINE size == InitSize(NewHeapSize(AlignUp(n, a) + 1))
<1>1. /\ m \in Memory /\ m.cur \in HeapIds /\ m.cur \in Int /\ 1 <= m.cur
      /\ MaxHeaps \in Int
    BY HeapAssumption DEF MemInv, Memory, HeapIds
<1>2. size \in Nat /\ size > DescSize + 1 /\ DescSize \in Nat
    BY NewHeapFits, HeapAssumption
<1>3. ASSUME NEW k \in Growable(m, n, a)
      PROVE  /\ k \in HeapIds /\ k \in Int /\ m.cur < k
             /\ \A j \in 1..(k - 1) : m.heaps[j].base
  <2>1. k \in (m.cur + 1)..MaxHeaps /\ Clean(m, k - 1)
      BY DEF Growable
  <2>2. k \in HeapIds /\ k \in Int /\ m.cur < k /\ k - 1 \in Int /\ k - 1 <= MaxHeaps
      BY <1>1, <2>1 DEF HeapIds
  <2>3. QED
      BY <2>1, <2>2, WalkedAreMade
<1>4. CASE out \in Found(m, n, a)
  <2>1. PICK k \in m.cur..MaxHeaps :
           /\ Clean(m, k) /\ Room(m.heaps[k], n, a) /\ out = Carve(m, k, n, a)
      BY <1>4 DEF Found
  <2>2. k \in HeapIds /\ k \in Int /\ m.cur <= k /\ k <= MaxHeaps
      BY <1>1, <2>1 DEF HeapIds
  <2>3. \A j \in 1..k : m.heaps[j].base
      BY <2>1, <2>2, WalkedAreMade
  <2>4. QED
      BY <2>1, <2>2, <2>3, CarveExtends
<1>5. CASE out \in Grew(m, n, a)
  <2>1. PICK k \in Growable(m, n, a) : out = Carve(Grown(m, k, n, a), k, n, a)
      BY <1>5 DEF Grew
  <2> DEFINE m2 == Grown(m, k, n, a)
  <2>2. InitialHeap(size) \in HeapRec /\ HeapOK(InitialHeap(size))
        /\ InitialHeap(size).base /\ InitialHeap(size).deallocs = {}
    <3>1. size - (DescSize + 1) \in Nat /\ DescSize + 1 \in Nat
          /\ DescSize <= DescSize + 1
          /\ (DescSize + 1) + (size - (DescSize + 1)) = size
        BY <1>2
    <3>2. QED
        BY <1>2, <3>1 DEF InitialHeap, HeapRec, HeapOK, Accounted
  <2>3. m2 = [m EXCEPT !.heaps[k] = InitialHeap(size), !.cur = k]
      BY DEF Grown
  <2>4. Extends(m, m2) /\ SameObjects(m, m2) /\ m2.live = m.live
    <3>1. /\ m2 \in Memory /\ m2.cur = k /\ m2.live = m.live
          /\ m2.heaps = [m.heaps EXCEPT ![k] = InitialHeap(size)]
      <4>1. [m.heaps EXCEPT ![k] = InitialHeap(size)] \in [HeapIds -> HeapRec]
          BY <1>1, <2>2 DEF Memory
      <4> HIDE DEF size
      <4>2. QED
          BY ZenonT(30), <1>1, <1>3, <2>3, <4>1 DEF Memory
    <3>2. m2.cur = IF InitialHeap(size).base THEN k ELSE k - 1
        BY <2>2, <3>1
    <3> HIDE DEF m2, size
    <3>3. QED
        BY <1>3, <2>2, <3>1, <3>2, GrowExtends
  <2>5. m2.cur = k /\ m2.heaps[k] = InitialHeap(size)
      BY <1>1, <1>3, <2>3 DEF Memory
  <2>6. MemInv(m2)
      BY <2>4 DEF Extends
  <2>7. Room(m2.heaps[k], n, a)
      BY <2>5, NewHeapFits
  <2>8. \A j \in 1..k : m2.heaps[j].base
      BY <2>5, <2>6 DEF MemInv, ChainOK
  <2>9. /\ Extends(m2, out.mem) /\ SameObjects(m2, out.mem)
        /\ out.ptr \in out.mem.live \ m2.live
      BY <1>3, <2>1, <2>5, <2>6, <2>7, <2>8, CarveExtends
  <2>10. QED
      BY <2>4, <2>9, ExtendsTransitive DEF SameObjects
<1>6. CASE out \in Exhausted(m, n, a)
  <2>1. PICK k \in Growable(m, n, a) :
           out = [ptr |-> NULL, mem |-> HalfMade(m, k, n, a)]
      BY <1>6 DEF Exhausted
  <2> DEFINE h == [Unmade EXCEPT !.size = size]
  <2>2. h \in HeapRec /\ HeapOK(h) /\ h.base = FALSE /\ h.deallocs = {}
      BY <1>2 DEF Unmade, HeapRec, HeapOK
  <2>3. out.mem = [m EXCEPT !.heaps[k] = h, !.cur = k - 1]
      BY <2>1 DEF HalfMade
  <2>4. QED
    <3>1. k - 1 \in HeapIds
        BY <1>1, <1>3 DEF HeapIds
    <3> DEFINE m2 == out.mem
    <3>2. /\ m2 \in Memory /\ m2.cur = k - 1 /\ m2.live = m.live
          /\ m2.heaps = [m.heaps EXCEPT ![k] = h]
      <4>1. [m.heaps EXCEPT ![k] = h] \in [HeapIds -> HeapRec]
          BY <1>1, <2>2 DEF Memory
      <4> HIDE DEF h
      <4>2. QED
          BY <1>1, <2>3, <3>1, <4>1 DEF Memory
    <3>3. m2.cur = IF h.base THEN k ELSE k - 1
        BY <2>2, <3>2
    <3> HIDE DEF m2, h
    <3>4. Extends(m, m2) /\ SameObjects(m, m2)
        BY <1>3, <2>2, <3>2, <3>3, GrowExtends
    <3>5. QED
        BY <2>1, <3>4 DEF m2
<1>7. CASE out \in Broken(m, n, a)
  <2>1. out.mem = [m EXCEPT !.trap = "not_reset"] /\ out.ptr = NULL
      BY <1>7 DEF Broken
  <2>2. out.mem \in Memory
      BY <1>1, <2>1 DEF Memory, Traps
  <2>3. out.mem.cur = m.cur /\ out.mem.live = m.live /\ out.mem.heaps = m.heaps
      BY <1>1, <2>1 DEF Memory
  <2>4. QED
      BY <2>1, <2>2, <2>3, SameExtends DEF SameObjects
<1>8. QED
    BY <1>4, <1>5, <1>6, <1>7 DEF Allocs

-----------------------------------------------------------------------------
(* Snapshots                                                               *)

(* A snapshot stays good while blocks are allocated.                       *)
LEMMA ExtendsKeepsSnapshot ==
    ASSUME NEW m, MemInv(m), NEW m2, Extends(m, m2), NEW s, SnapInv(m, s)
    PROVE  SnapInv(m2, s)
<1>1. /\ m \in Memory /\ m2 \in Memory /\ m.cur \in Int /\ m2.cur \in Int
      /\ s \in Snapshot /\ s.cur \in HeapIds /\ s.cur \in Int /\ 1 <= s.cur
      /\ s.heap.next \in Nat
  <2>1. m \in Memory /\ m2 \in Memory /\ s \in Snapshot
      BY DEF MemInv, Extends, SnapInv
  <2>2. m.cur \in HeapIds /\ m2.cur \in HeapIds /\ s.cur \in HeapIds
        /\ s.heap \in HeapRec
      BY <2>1 DEF Memory, Snapshot
  <2>3. QED
      BY <2>1, <2>2 DEF HeapIds, HeapRec
<1>2. s.cur <= m.cur /\ m.cur <= m2.cur
    BY DEF SnapInv, Extends
<1>3. s.cur \in 1..m.cur
    BY <1>1, <1>2
<1>4. m.heaps[s.cur].next \in Nat /\ m2.heaps[s.cur].next \in Nat
    BY <1>1 DEF Memory, HeapRec
<1>5. s.heap.next <= m2.heaps[s.cur].next
  <2>1. s.heap.next <= m.heaps[s.cur].next
      BY DEF SnapInv
  <2>2. m.heaps[s.cur].next <= m2.heaps[s.cur].next
      BY <1>3 DEF Extends
  <2>3. QED
      BY <1>1, <1>4, <2>1, <2>2
<1>6. ASSUME NEW e \in m2.live, e \notin m.live PROVE ~Kept(e, s)
  <2>1. e \in Extent /\ e.heap \in Int /\ e.at \in Nat
      BY <1>1 DEF Memory, Extent, HeapIds
  <2>2. m.cur <= e.heap /\ (e.heap = m.cur => m.heaps[e.heap].next <= e.at)
      BY <1>6 DEF Extends
  <2>3. ~(e.heap < s.cur)
      BY <1>1, <1>2, <2>1, <2>2
  <2>4. ASSUME e.heap = s.cur PROVE ~(e.at + 1 <= s.heap.next)
    <3>1. m.heaps[s.cur].next <= e.at
        BY <1>1, <1>2, <2>1, <2>2, <2>4
    <3>2. s.heap.next <= m.heaps[s.cur].next
        BY DEF SnapInv
    <3>3. QED
        BY <1>1, <1>4, <2>1, <3>1, <3>2
  <2>5. QED
      BY <2>3, <2>4 DEF Kept, Before
<1>7. s.live = {e \in m2.live : Kept(e, s)}
    BY <1>6 DEF SnapInv, Extends
<1>8. QED
    BY <1>1, <1>2, <1>5, <1>7 DEF SnapInv

(* A snapshot just taken is good, and no older than one taken before.      *)
LEMMA TakeIsGood ==
    ASSUME NEW m, MemInv(m)
    PROVE  /\ SnapInv(m, Take(m))
           /\ \A s : SnapInv(m, s) => Older(s, Take(m))
<1> DEFINE t == Take(m)
<1>1. /\ m \in Memory /\ m.cur \in HeapIds /\ m.cur \in Int /\ 1 <= m.cur
      /\ m.heaps[m.cur] \in HeapRec /\ m.heaps[m.cur].next \in Nat
  <2>1. m \in Memory /\ m.cur \in HeapIds /\ m.heaps[m.cur] \in HeapRec
      BY DEF MemInv, Memory
  <2>2. QED
      BY <2>1 DEF HeapIds, HeapRec
<1>2. t.cur = m.cur /\ t.heap = m.heaps[m.cur] /\ t.live = m.live
    BY DEF Take
<1>3. t \in Snapshot
  <2>1. m.live \in SUBSET Extent /\ m.smashed \in SUBSET Extent
      BY <1>1 DEF Memory
  <2>2. QED
      BY <1>1, <2>1 DEF Take, Snapshot
<1>4. t.heap.base /\ HeapOK(t.heap)
    BY <1>1, <1>2 DEF MemInv, ChainOK
<1>5. ASSUME NEW e \in m.live
      PROVE  Kept(e, t) /\ (e.heap = t.cur => e.at + e.len <= t.heap.next)
  <2>1. e \in Extent /\ BlockOK(m, e)
      BY <1>1 DEF MemInv, BlocksOK, Memory
  <2>2. e.heap \in Int /\ e.at \in Nat /\ e.len \in Nat
      BY <2>1 DEF Extent, HeapIds
  <2>3. e.heap = m.cur => e.at + 1 <= m.heaps[m.cur].next
      BY <1>1, <2>1, <2>2 DEF BlockOK
  <2>4. QED
      BY <1>1, <1>2, <2>1, <2>2, <2>3 DEF BlockOK, Kept, Before
<1>6. SnapInv(m, t)
    BY <1>1, <1>2, <1>3, <1>4, <1>5 DEF SnapInv
<1>7. \A s : SnapInv(m, s) => Older(s, t)
    BY <1>1, <1>2 DEF SnapInv, Older
<1>8. QED
    BY <1>6, <1>7

(* A rewind restores the memory the snapshot was taken of, and every older *)
(* snapshot is still good.                                                 *)
LEMMA RewindRestores ==
    ASSUME NEW m, MemInv(m), NEW t, SnapInv(m, t)
    PROVE  LET m2 == Restored(m, t)
           IN  /\ MemInv(m2)
               /\ m2.cur = t.cur /\ m2.live = t.live
               /\ m2.heaps[t.cur] = t.heap
               /\ \A s : SnapInv(m, s) /\ Older(s, t) => SnapInv(m2, s)
<1> DEFINE m2 == Restored(m, t)
<1>1. /\ m \in Memory /\ m.cur \in Int /\ m.cur <= MaxHeaps /\ MaxHeaps \in Int
      /\ t \in Snapshot /\ t.cur \in HeapIds /\ t.cur \in Int /\ 1 <= t.cur
      /\ t.cur <= m.cur /\ t.heap \in HeapRec /\ t.heap.base /\ HeapOK(t.heap)
    BY HeapAssumption DEF MemInv, SnapInv, Memory, Snapshot, HeapIds
<1>2. /\ m2.cur = t.cur
      /\ m2.live = t.live
      /\ m2.trap = m.trap
      /\ m2.smashed \subseteq t.live
      /\ m2.heaps = [k \in HeapIds |->
            IF k = t.cur THEN t.heap
            ELSE IF k \in Rewound(m, t) THEN ResetHeap(m.heaps[k]) ELSE m.heaps[k]]
    BY <1>1 DEF Restored, Memory, SnapInv
<1>3. \A k \in Rewound(m, t) : k \in HeapIds /\ k <= m.cur /\ m.heaps[k].base
  <2>1. \A k \in Rewound(m, t) : k \in 1..m.cur /\ k \in HeapIds
      BY <1>1 DEF Rewound, HeapIds
  <2>2. QED
      BY <1>1, <2>1 DEF MemInv, ChainOK
<1>4. \A k \in HeapIds : k \in Rewound(m, t) => ~(k > m.cur)
    BY <1>1, <1>3 DEF HeapIds
<1>5. ASSUME NEW h \in HeapRec, h.base, HeapOK(h)
      PROVE  LET r == ResetHeap(h)
             IN  r \in HeapRec /\ r.base /\ HeapOK(r) /\ IsReset(r)
  <2>1. DescSize \in Nat /\ h.size \in Nat /\ h.next \in Nat /\ h.allocated \in Nat
        /\ h.remaining \in Nat /\ h.base \in BOOLEAN
      BY HeapAssumption DEF HeapRec
  <2>2. h.size - DescSize \in Nat /\ DescSize + (h.size - DescSize) = h.size
      BY <1>5, <2>1 DEF HeapOK, Accounted
  <2>3. ResetHeap(h) \in HeapRec
    <3>1. ASSUME NEW x \in Nat, NEW y \in Nat
          PROVE  [h EXCEPT !.remaining = x, !.allocated = y, !.next = y,
                           !.deallocs = {}] \in HeapRec
        BY DEF HeapRec
    <3>2. QED
        BY <2>1, <2>2, <3>1 DEF ResetHeap
  <2>4. /\ ResetHeap(h).remaining = h.size - DescSize /\ ResetHeap(h).size = h.size
        /\ ResetHeap(h).allocated = DescSize /\ ResetHeap(h).next = DescSize
        /\ ResetHeap(h).deallocs = {} /\ ResetHeap(h).base = h.base
      BY DEF ResetHeap, HeapRec
  <2>5. QED
      BY <1>5, <2>1, <2>2, <2>3, <2>4 DEF HeapOK, Accounted, IsReset
<1>6. \A k \in HeapIds : m.heaps[k] \in HeapRec /\ HeapOK(m.heaps[k])
    BY <1>1 DEF MemInv, ChainOK, Memory
<1>7. m2 \in Memory
  <2>1. m2.heaps \in [HeapIds -> HeapRec]
      BY <1>1, <1>2, <1>3, <1>5, <1>6
  <2>2. m2.live \in SUBSET Extent /\ m2.smashed \in SUBSET Extent
      BY <1>1, <1>2 DEF Snapshot
  <2>3. ASSUME NEW hs \in [HeapIds -> HeapRec], NEW c \in HeapIds,
               NEW l \in SUBSET Extent, NEW sm \in SUBSET Extent
        PROVE  [m EXCEPT !.heaps = hs, !.cur = c, !.live = l, !.smashed = sm]
                 \in Memory
      BY <1>1 DEF Memory
  <2> DEFINE sm2 == {e \in {e \in m.live : Kept(e, t)} :
                IF OnDescriptor(e, t.cur) THEN e \in t.smashed
                ELSE \/ e \in m.smashed
                     \/ m.cur > t.cur /\ OnDescriptor(e, t.cur + 1)}
             hs2 == [k \in HeapIds |->
                IF k = t.cur THEN t.heap
                ELSE IF k \in Rewound(m, t) THEN ResetHeap(m.heaps[k])
                ELSE m.heaps[k]]
             l2 == {e \in m.live : Kept(e, t)}
  <2>4. m2 = [m EXCEPT !.heaps = hs2, !.cur = t.cur, !.live = l2, !.smashed = sm2]
      BY DEF Restored
  <2>5. hs2 \in [HeapIds -> HeapRec] /\ l2 \in SUBSET Extent
        /\ sm2 \in SUBSET Extent
    <3>1. hs2 = m2.heaps /\ l2 = t.live /\ sm2 \subseteq l2
        BY <1>2 DEF SnapInv
    <3>2. QED
        BY <1>2, <2>1, <2>2, <3>1
  <2> HIDE DEF hs2, l2, sm2, m2
  <2>6. QED
      BY <1>1, <2>3, <2>4, <2>5
<1>8. ChainOK(m2)
  <2>1. \A k \in HeapIds : HeapOK(m2.heaps[k])
      BY <1>1, <1>2, <1>3, <1>5, <1>6
  <2>2. ASSUME NEW k \in 1..m2.cur PROVE m2.heaps[k].base
    <3>1. k \in HeapIds /\ k \in 1..m.cur /\ (k = t.cur \/ k \notin Rewound(m, t))
        BY <1>1, <1>2 DEF HeapIds, Rewound
    <3>2. m.heaps[k].base
        BY <3>1 DEF MemInv, ChainOK
    <3>3. QED
        BY <1>1, <1>2, <3>1, <3>2
  <2>3. ASSUME NEW k \in HeapIds, k > m2.cur, m2.heaps[k].base
        PROVE  IsReset(m2.heaps[k])
    <3>1. k # t.cur /\ k \in Int
        BY <1>1, <1>2, <2>3 DEF HeapIds
    <3>2. CASE k \in Rewound(m, t)
        BY <1>2, <1>3, <1>5, <1>6, <3>1, <3>2
    <3>3. CASE k \notin Rewound(m, t)
      <4>1. m2.heaps[k] = m.heaps[k] /\ k > m.cur
          BY <1>1, <1>2, <2>3, <3>1, <3>3 DEF Rewound
      <4>2. QED
          BY <2>3, <4>1 DEF MemInv, ChainOK
    <3>4. QED
        BY <3>2, <3>3
  <2>4. QED
      BY <2>1, <2>2, <2>3 DEF ChainOK
<1>9. \A k \in HeapIds : k < t.cur => m2.heaps[k] = m.heaps[k]
    BY <1>1, <1>2 DEF Rewound
<1>10. ASSUME NEW e \in m2.live PROVE e \in m.live /\ BlockOK(m2, e)
  <2>1. e \in m.live /\ Kept(e, t) /\ (e.heap = t.cur => e.at + e.len <= t.heap.next)
      BY <1>2 DEF SnapInv
  <2>2. e \in Extent /\ BlockOK(m, e)
      BY <1>1, <2>1 DEF MemInv, BlocksOK, Memory
  <2>3. e.heap \in HeapIds /\ e.heap \in Int
      BY <2>2 DEF Extent, HeapIds
  <2>4. e.heap < t.cur \/ e.heap = t.cur
      BY <2>1 DEF Kept, Before
  <2>5. QED
      BY <1>1, <1>2, <1>9, <2>1, <2>2, <2>3, <2>4 DEF BlockOK
<1>11. MemInv(m2)
    BY <1>7, <1>8, <1>10 DEF MemInv, BlocksOK
<1>12. ASSUME NEW s, SnapInv(m, s), Older(s, t) PROVE SnapInv(m2, s)
  <2>1. s \in Snapshot /\ s.cur \in HeapIds /\ s.cur \in Int /\ s.cur <= t.cur
      BY <1>12 DEF SnapInv, Older, Snapshot, HeapIds
  <2>2. s.heap.next <= m2.heaps[s.cur].next
    <3>1. CASE s.cur = t.cur
        BY <1>2, <1>12, <2>1, <3>1 DEF Older
    <3>2. CASE s.cur < t.cur
        BY <1>9, <1>12, <2>1, <3>2 DEF SnapInv
    <3>3. QED
        BY <1>1, <2>1, <3>1, <3>2
  <2>3. s.live = {e \in m2.live : Kept(e, s)}
      BY <1>2, <1>10, <1>12 DEF SnapInv, Older
  <2>4. QED
      BY <1>2, <1>12, <2>1, <2>2, <2>3 DEF SnapInv
<1>13. QED
    BY <1>1, <1>2, <1>11, <1>12

-----------------------------------------------------------------------------
(* The invariant                                                           *)

(* The invariant holds of a new context.                                   *)
LEMMA InitInv == Init => IInv
<1> SUFFICES ASSUME Init PROVE IInv
    OBVIOUS
<1> DEFINE size == InitSize(0)
<1>1. /\ MaxHeaps \in Nat /\ MaxHeaps >= 1 /\ DescSize \in Nat /\ DescSize >= 1
      /\ PageSize \in Nat /\ PageSize >= DescSize + 2
    BY HeapAssumption
<1>2. size \in Nat /\ size >= PageSize
  <2>1. size = AlignUp(PageSize, PageSize)
      BY <1>1 DEF InitSize
  <2>2. QED
      BY <1>1, <2>1, AlignUpBounds
<1>3. InitialHeap(size) \in HeapRec /\ InitialHeap(size).base
      /\ HeapOK(InitialHeap(size))
  <2>1. size - (DescSize + 1) \in Nat /\ DescSize + 1 \in Nat
        /\ DescSize <= DescSize + 1 /\ (DescSize + 1) + (size - (DescSize + 1)) = size
      BY <1>1, <1>2
  <2>2. QED
      BY <1>2, <2>1 DEF InitialHeap, HeapRec, HeapOK, Accounted
<1>4. Unmade \in HeapRec /\ ~Unmade.base /\ HeapOK(Unmade)
    BY DEF Unmade, HeapRec, HeapOK
<1>5. /\ mem.heaps = [k \in HeapIds |-> IF k = 1 THEN InitialHeap(size) ELSE Unmade]
      /\ mem.cur = 1 /\ mem.live = {} /\ mem.smashed = {} /\ mem.trap = "none"
    BY DEF Init
<1>6. mem \in Memory
  <2> HIDE DEF size
  <2>1. 1 \in HeapIds
      BY <1>1 DEF HeapIds
  <2>2. [k \in HeapIds |-> IF k = 1 THEN InitialHeap(size) ELSE Unmade]
          \in [HeapIds -> HeapRec]
      BY <1>3, <1>4
  <2>3. QED
      BY <2>1, <2>2 DEF Init, Memory, Traps, size
<1>7. ChainOK(mem)
  <2>1. 1 \in HeapIds
      BY <1>1 DEF HeapIds
  <2> HIDE DEF size
  <2>2. QED
      BY <1>3, <1>4, <1>5, <2>1 DEF ChainOK
<1>8. BlocksOK(mem)
    BY <1>5 DEF BlocksOK
<1>9. QED
    BY <1>6, <1>7, <1>8 DEF Init, IInv, MemInv

(* Steps that allocate, or change nothing in use, under the snapshots the  *)
(* context has.                                                            *)
LEMMA ExtendKeepsInv ==
    ASSUME IInv, Extends(mem, mem'), calls' = {},
           UNCHANGED <<ctxSnap, startup, busy>>
    PROVE  IInv'
<1>1. MemInv(mem) /\ MemInv(mem')
    BY DEF IInv, Extends
<1>2. startup' # None => SnapInv(mem', startup')
    BY <1>1, ExtendsKeepsSnapshot DEF IInv
<1>3. busy' => ctxSnap' \in Snapshot /\ SnapInv(mem', ctxSnap')
    BY <1>1, ExtendsKeepsSnapshot DEF IInv
<1>4. QED
    BY <1>1, <1>2, <1>3 DEF IInv

(* An object is registered, the process stops, a block is smashed: none of *)
(* it moves the chain or the blocks.                                       *)
LEMMA RegisterExtends ==
    ASSUME NEW m, MemInv(m), NEW o \in Extent
    PROVE  Extends(m, Register(m, o))
<1> DEFINE m2 == Register(m, o)
           h == m.heaps[m.cur]
           h2 == [h EXCEPT !.deallocs = @ \cup {o}]
<1>1. m \in Memory /\ m.cur \in HeapIds /\ h \in HeapRec
    BY DEF MemInv, Memory
<1>2. h2 \in HeapRec /\ h2.size = h.size /\ h2.base = h.base /\ h2.next = h.next
        /\ h2.allocated = h.allocated /\ h2.remaining = h.remaining
    BY <1>1 DEF HeapRec
<1>3. m2 = [m EXCEPT !.heaps = [m.heaps EXCEPT ![m.cur] = h2]]
    BY DEF Register
<1>4. [m.heaps EXCEPT ![m.cur] = h2] \in [HeapIds -> HeapRec]
    BY <1>1, <1>2 DEF Memory
<1> HIDE DEF h2
<1>5. m2 \in Memory /\ m2.cur = m.cur /\ m2.live = m.live
        /\ m2.heaps = [m.heaps EXCEPT ![m.cur] = h2]
    BY <1>1, <1>3, <1>4 DEF Memory
<1>6. \A k \in HeapIds : m2.heaps[k] = IF k = m.cur THEN h2 ELSE m.heaps[k]
    BY <1>1, <1>5 DEF Memory
<1>7. \A k \in HeapIds :
        /\ m2.heaps[k].size = m.heaps[k].size /\ m2.heaps[k].base = m.heaps[k].base
        /\ m2.heaps[k].next = m.heaps[k].next
        /\ m2.heaps[k].allocated = m.heaps[k].allocated
        /\ m2.heaps[k].remaining = m.heaps[k].remaining
        /\ k # m.cur => m2.heaps[k].deallocs = m.heaps[k].deallocs
    BY <1>2, <1>6
<1> HIDE DEF m2
<1>8. Extends(m, m2)
    BY ZenonT(30), <1>5, <1>7, SameExtends
<1>9. QED
    BY <1>8 DEF m2

(* A trap changes no heap and no block.                                    *)
LEMMA TrapExtends ==
    ASSUME NEW m, MemInv(m), NEW t \in Traps
    PROVE  Extends(m, [m EXCEPT !.trap = t])
<1> DEFINE m2 == [m EXCEPT !.trap = t]
<1>1. m \in Memory
    BY DEF MemInv
<1>2. m2 \in Memory /\ m2.cur = m.cur /\ m2.live = m.live /\ m2.heaps = m.heaps
    BY <1>1 DEF Memory
<1> HIDE DEF m2
<1>3. Extends(m, m2)
    BY <1>2, SameExtends
<1>4. QED
    BY <1>3 DEF m2

(* Nor does overwriting a size header.                                     *)
LEMMA SmashExtends ==
    ASSUME NEW m, MemInv(m), NEW b \in SUBSET Extent
    PROVE  Extends(m, [m EXCEPT !.smashed = b])
<1> DEFINE m2 == [m EXCEPT !.smashed = b]
<1>1. m \in Memory
    BY DEF MemInv
<1>2. m2 \in Memory /\ m2.cur = m.cur /\ m2.live = m.live /\ m2.heaps = m.heaps
    BY <1>1 DEF Memory
<1> HIDE DEF m2
<1>3. Extends(m, m2)
    BY <1>2, SameExtends
<1>4. QED
    BY <1>3 DEF m2

(* A rewind to a snapshot that is good restores it or stops the process.   *)
LEMMA RewindCases ==
    ASSUME NEW m, MemInv(m), NEW s, SnapInv(m, s)
    PROVE  /\ Breaks(m, s) => Extends(m, Rewind(m, s))
           /\ ~Breaks(m, s) => Rewind(m, s) = Restored(m, s)
           /\ Called(m, s) \in SUBSET Extent
<1>1. Stray(m, s) => Extends(m, Rewind(m, s))
    BY TrapExtends DEF Rewind, Traps
<1>2. ~Stray(m, s) /\ Miscount(m, s) => Extends(m, Rewind(m, s))
    BY TrapExtends DEF Rewind, Traps
<1>3. ~Breaks(m, s) => Rewind(m, s) = Restored(m, s)
    BY DEF Rewind, Breaks
<1>4. Called(m, s) \in SUBSET Extent
  <2>1. m \in Memory /\ m.cur \in Int /\ m.cur <= MaxHeaps /\ MaxHeaps \in Int
        /\ s.cur \in Int /\ 1 <= s.cur
    <3>1. m \in Memory /\ s \in Snapshot
        BY DEF MemInv, SnapInv
    <3>2. QED
        BY <3>1, HeapAssumption DEF Memory, Snapshot, HeapIds
  <2>2. \A k \in Rewound(m, s) : k \in HeapIds
      BY <2>1 DEF Rewound, HeapIds
  <2>3. \A k \in Rewound(m, s) : m.heaps[k].deallocs \subseteq Extent
      BY <2>1, <2>2 DEF Memory, HeapRec
  <2>4. Registered(m, s) \subseteq Extent
      BY <2>3 DEF Registered
  <2>5. QED
      BY <2>4 DEF Called
<1>5. QED
    BY <1>1, <1>2, <1>3, <1>4 DEF Breaks

(* Every step keeps the invariant.                                         *)
LEMMA NextInv == IInv /\ [Next]_vars => IInv'
<1> SUFFICES ASSUME IInv, [Next]_vars PROVE IInv'
    OBVIOUS
<1>1. /\ MemInv(mem) /\ mem \in Memory
      /\ startup # None => startup \in Snapshot /\ SnapInv(mem, startup)
      /\ busy => ctxSnap \in Snapshot /\ SnapInv(mem, ctxSnap)
      /\ busy /\ startup # None => Older(startup, ctxSnap)
    BY DEF IInv, MemInv
<1>2. /\ Sizes \subseteq Nat /\ ObjectSizes \subseteq Nat /\ Aligns \subseteq {1, 2}
      /\ PxObjectSize \in Nat /\ SocketSize \in Nat /\ DescSize \in Nat
    BY HeapAssumption
<1>3. ASSUME NEW n \in Sizes, NEW a \in Aligns, Malloc(n, a) PROVE IInv'
  <2>1. Extends(mem, mem')
      BY <1>1, <1>2, <1>3, AllocsExtend DEF Malloc
  <2>2. QED
      BY <1>3, <2>1, ExtendKeepsInv DEF Malloc
<1>4. ASSUME NEW n \in ObjectSizes, NewObject(n) PROVE IInv'
  <2>1. PICK out \in Allocs(mem, n, 1) :
           mem' = IF out.ptr = NULL THEN out.mem ELSE Register(out.mem, out.ptr)
      BY <1>4 DEF NewObject
  <2>2. /\ Extends(mem, out.mem) /\ MemInv(out.mem)
        /\ out.ptr # NULL => out.ptr \in Extent
      BY <1>1, <1>2, AllocsExtend DEF Extends, MemInv, Memory
  <2>3. Extends(mem, mem')
      BY <1>1, <2>1, <2>2, RegisterExtends, ExtendsTransitive
  <2>4. QED
      BY <1>4, <2>3, ExtendKeepsInv DEF NewObject
<1>5. ASSUME NEW n \in ObjectSizes, InitObject(n) PROVE IInv'
  <2>1. PICK one \in Allocs(mem, n, 1) :
           IF one.ptr = NULL THEN mem' = one.mem
           ELSE \E two \in Allocs(one.mem, PxObjectSize, 1) :
                  mem' = IF two.ptr = NULL THEN two.mem
                                           ELSE Register(two.mem, one.ptr)
      BY <1>5 DEF InitObject
  <2>2. /\ Extends(mem, one.mem) /\ MemInv(one.mem)
        /\ one.ptr # NULL => one.ptr \in Extent
      BY <1>1, <1>2, AllocsExtend DEF Extends, MemInv, Memory
  <2>3. Extends(mem, mem')
    <3>1. CASE one.ptr = NULL
        BY <2>1, <2>2, <3>1
    <3>2. CASE one.ptr # NULL
      <4>1. PICK two \in Allocs(one.mem, PxObjectSize, 1) :
               mem' = IF two.ptr = NULL THEN two.mem
                                        ELSE Register(two.mem, one.ptr)
          BY <2>1, <3>2
      <4>2. Extends(one.mem, two.mem) /\ MemInv(two.mem)
          BY <1>2, <2>2, AllocsExtend DEF Extends
      <4>3. Extends(mem, two.mem)
          BY <1>1, <2>2, <4>2, ExtendsTransitive
      <4>4. Extends(two.mem, Register(two.mem, one.ptr))
          BY <2>2, <3>2, <4>2, RegisterExtends
      <4>5. QED
          BY <1>1, <4>1, <4>3, <4>4, ExtendsTransitive
    <3>3. QED
        BY <3>1, <3>2
  <2>4. QED
      BY <1>5, <2>3, ExtendKeepsInv DEF InitObject
<1>6. ASSUME Free PROVE IInv'
  <2>1. mem.smashed \cup {e \in mem.live : OnDescriptor(e, mem.cur)} \in SUBSET Extent
      BY <1>1 DEF Memory
  <2>2. Extends(mem, mem')
      BY <1>1, <1>6, <2>1, SmashExtends DEF Free
  <2>3. QED
      BY <1>6, <2>2, ExtendKeepsInv DEF Free
<1>7. ASSUME HeapSnapshot \/ UpdateHeapSnapshot PROVE IInv'
  <2>1. /\ mem' = mem /\ startup' = startup /\ ctxSnap' = Take(mem)
        /\ busy' \in BOOLEAN /\ calls' = {}
      BY <1>7 DEF HeapSnapshot, UpdateHeapSnapshot, IInv
  <2>2. SnapInv(mem, Take(mem)) /\ \A s : SnapInv(mem, s) => Older(s, Take(mem))
      BY <1>1, TakeIsGood
  <2>3. QED
      BY <1>1, <2>1, <2>2 DEF IInv, SnapInv
<1>8. ASSUME RollbackHeap PROVE IInv'
  <2>1. SnapInv(mem, ctxSnap) /\ mem' = Rewind(mem, ctxSnap) /\ startup' = startup
      BY <1>1, <1>8 DEF RollbackHeap
  <2>2. CASE Breaks(mem, ctxSnap)
    <3>1. Extends(mem, mem')
        BY <1>1, <2>1, <2>2, RewindCases
    <3>2. QED
        BY <1>8, <2>2, <3>1, ExtendKeepsInv DEF RollbackHeap
  <2>3. CASE ~Breaks(mem, ctxSnap)
    <3>1. /\ mem' = Restored(mem, ctxSnap)
          /\ calls' \in SUBSET Extent /\ ctxSnap' = None /\ busy' = FALSE
        BY <1>1, <1>8, <2>1, <2>3, RewindCases DEF RollbackHeap
    <3>2. MemInv(mem')
        BY <1>1, <2>1, <3>1, RewindRestores
    <3>3. startup # None => SnapInv(mem', startup)
        BY <1>1, <1>8, <2>1, <3>1, RewindRestores DEF RollbackHeap
    <3>4. QED
        BY <2>1, <3>1, <3>2, <3>3 DEF IInv
  <2>4. QED
      BY <2>2, <2>3
<1>9. ASSUME TakeStartupSnapshot PROVE IInv'
  <2>1. PICK one \in Allocs(mem, SocketSize, 1) :
           IF one.ptr = NULL
           THEN /\ mem' = [one.mem EXCEPT !.trap = "no_memory"]
                /\ startup' = startup
           ELSE \E two \in Allocs(one.mem, DescSize, 1) :
                  IF two.ptr = NULL
                  THEN /\ mem' = [two.mem EXCEPT !.trap = "no_memory"]
                       /\ startup' = startup
                  ELSE mem' = two.mem /\ startup' = Take(two.mem)
      BY <1>9 DEF TakeStartupSnapshot
  <2>2. Extends(mem, one.mem) /\ MemInv(one.mem)
      BY <1>1, <1>2, AllocsExtend DEF Extends
  <2>3. ctxSnap' = ctxSnap /\ busy' = busy /\ ~busy /\ calls' = {}
      BY <1>9 DEF TakeStartupSnapshot
  <2>4. \/ Extends(mem, mem') /\ startup' = startup
        \/ MemInv(mem') /\ startup' = Take(mem')
    <3>1. CASE one.ptr = NULL
      <4>1. Extends(one.mem, mem')
          BY <2>1, <2>2, <3>1, TrapExtends DEF Traps
      <4>2. QED
          BY <1>1, <2>1, <2>2, <3>1, <4>1, ExtendsTransitive
    <3>2. CASE one.ptr # NULL
      <4>1. PICK two \in Allocs(one.mem, DescSize, 1) :
               IF two.ptr = NULL
               THEN /\ mem' = [two.mem EXCEPT !.trap = "no_memory"]
                    /\ startup' = startup
               ELSE mem' = two.mem /\ startup' = Take(two.mem)
          BY <2>1, <3>2
      <4>2. Extends(one.mem, two.mem) /\ MemInv(two.mem)
          BY <1>2, <2>2, AllocsExtend DEF Extends
      <4>3. Extends(mem, two.mem)
          BY <1>1, <2>2, <4>2, ExtendsTransitive
      <4>4. Extends(two.mem, [two.mem EXCEPT !.trap = "no_memory"])
          BY <4>2, TrapExtends DEF Traps
      <4>5. Extends(mem, [two.mem EXCEPT !.trap = "no_memory"])
          BY <1>1, <4>3, <4>4, ExtendsTransitive
      <4>6. QED
          BY <4>1, <4>2, <4>5
    <3>3. QED
        BY <3>1, <3>2
  <2>5. CASE Extends(mem, mem') /\ startup' = startup
      BY <2>3, <2>5, ExtendKeepsInv
  <2>6. CASE MemInv(mem') /\ startup' = Take(mem')
    <3>1. SnapInv(mem', startup')
        BY <2>6, TakeIsGood
    <3>2. QED
        BY <2>3, <2>6, <3>1 DEF IInv, SnapInv
  <2>7. QED
      BY <2>4, <2>5, <2>6
<1>10. ASSUME UpdateStartupSnapshot PROVE IInv'
  <2>1. SnapInv(mem, Take(mem))
      BY <1>1, TakeIsGood
  <2>2. QED
      BY <1>1, <1>10, <2>1 DEF UpdateStartupSnapshot, IInv, SnapInv
<1>11. ASSUME Reuse PROVE IInv'
  <2>1. SnapInv(mem, startup) /\ mem' = Rewind(mem, startup)
        /\ startup' = startup /\ startup # None /\ ctxSnap' = ctxSnap
      BY <1>1, <1>11 DEF Reuse
  <2>2. CASE Breaks(mem, startup)
    <3>1. Extends(mem, mem')
        BY <1>1, <2>1, <2>2, RewindCases
    <3>2. QED
        BY <1>11, <2>2, <3>1, ExtendKeepsInv DEF Reuse
  <2>3. CASE ~Breaks(mem, startup)
    <3>1. mem' = Restored(mem, startup) /\ calls' \in SUBSET Extent /\ busy' = FALSE
        BY <1>1, <1>11, <2>1, <2>3, RewindCases DEF Reuse
    <3>2. MemInv(mem')
        BY <1>1, <2>1, <3>1, RewindRestores
    <3>3. SnapInv(mem', startup)
      <4>1. Older(startup, startup)
          BY <1>1, <2>1 DEF Older, Snapshot, HeapRec, HeapIds
      <4>2. QED
          BY <1>1, <2>1, <3>1, <4>1, RewindRestores
    <3>4. QED
        BY <1>1, <2>1, <3>1, <3>2, <3>3 DEF IInv
  <2>4. QED
      BY <2>2, <2>3
<1>12. ASSUME UNCHANGED vars PROVE IInv'
    BY <1>12 DEF vars, IInv
<1>13. QED
    BY <1>3, <1>4, <1>5, <1>6, <1>7, <1>8, <1>9, <1>10, <1>11, <1>12 DEF Next

(* Whatever a context allocates, and however often it is rewound, its heaps*)
(* and its snapshots stay consistent.                                      *)
THEOREM Invariance == Spec => []IInv
<1>1. IInv /\ [Next]_vars => IInv'
    BY NextInv
<1>2. QED
    BY <1>1, InitInv, PTL DEF Spec

(* The types of PxHeap: no heap is ever asked for more than it has left.   *)
THEOREM TypeCorrect == Spec => []TypeOK
<1>1. IInv => TypeOK
    BY DEF IInv, MemInv, TypeOK
<1>2. QED
    BY <1>1, Invariance, PTL

(* The counts of every heap agree in every reachable state.                *)
THEOREM AccountingHolds == Spec => []Accounting
<1>1. IInv => Accounting
    BY DEF IInv, MemInv, ChainOK, HeapOK, Accounting
<1>2. QED
    BY <1>1, Invariance, PTL

(* No memory in use is handed out again, whatever is rewound in between.   *)
THEOREM BlocksStayApart == Spec => []BlocksApart
<1>1. IInv => BlocksApart
    BY DEF IInv, MemInv, BlocksOK, BlockOK, BlocksApart
<1>2. QED
    BY <1>1, Invariance, PTL

(* The heaps past the current one can be allocated from.                   *)
THEOREM HeapsAheadAreReset == Spec => []AheadReset
<1>1. IInv => AheadReset
    BY DEF IInv, MemInv, ChainOK, AheadReset
<1>2. QED
    BY <1>1, Invariance, PTL

(* A snapshot holds exactly the blocks that were in use when it was taken, *)
(* for as long as the context may be rewound to it.                        *)
THEOREM SnapshotsStayGood == Spec => []SnapshotsHold
<1>1. IInv => SnapshotsHold
    BY DEF IInv, SnapInv, Older, SnapshotsHold, Holds
<1>2. QED
    BY <1>1, Invariance, PTL

(* Growing the chain never has to be repeated: the new heap has room.      *)
THEOREM GrowthAlwaysSuffices == Spec => []GrowthSuffices
<1>1. IInv => GrowthSuffices
  <2> SUFFICES ASSUME IInv, NEW n \in Sizes, NEW a \in Aligns,
                      NEW k \in Growable(mem, n, a)
               PROVE  Grew(mem, n, a) # {}
      BY DEF GrowthSuffices
  <2> DEFINE size == InitSize(NewHeapSize(AlignUp(n, a) + 1))
  <2>1. n \in Nat /\ a \in {1, 2} /\ mem \in Memory
      BY HeapAssumption DEF IInv, MemInv
  <2>2. k \in HeapIds
      BY <2>1, HeapAssumption DEF Growable, Memory, HeapIds
  <2>3. Grown(mem, k, n, a).heaps[k] = InitialHeap(size)
      BY <2>1, <2>2 DEF Grown, Memory
  <2>4. Room(Grown(mem, k, n, a).heaps[k], n, a)
      BY <2>1, <2>3, NewHeapFits
  <2>5. QED
      BY <2>4 DEF Grew
<1>2. QED
    BY <1>1, Invariance, PTL

(* The heaps of a context are sound: types, counts, heaps ahead, growth.   *)
THEOREM HeapsAreSound == Spec => []HeapsSound
BY TypeCorrect, AccountingHolds, HeapsAheadAreReset, GrowthAlwaysSuffices, PTL
   DEF HeapsSound

-----------------------------------------------------------------------------
(* The registered objects, and the region                                  *)

(* A registered object is in use, in the heap it is registered with or one *)
(* before it, and none is registered past the current heap.                *)
ObjectsOK(m) == \A k \in HeapIds : \A o \in m.heaps[k].deallocs :
    /\ o \in m.live
    /\ o.heap <= k
    /\ k <= m.cur

(* The list a snapshot copied is what its addresses tell of the list now,  *)
(* and what later heaps register is newer than the snapshot.               *)
SnapObjects(m, s) ==
    /\ s.heap.deallocs = {o \in m.heaps[s.cur].deallocs : Kept(o, s)}
    /\ \A k \in HeapIds : k > s.cur =>
          \A o \in m.heaps[k].deallocs : ~Kept(o, s)

ObjInv == /\ IInv
          /\ ObjectsOK(mem)
          /\ startup # None => SnapObjects(mem, startup)
          /\ busy => SnapObjects(mem, ctxSnap)

-----------------------------------------------------------------------------
(* Allocation                                                              *)

(* Objects are only added, to the list of the heap that is current in the  *)
(* end, and are new blocks.                                                *)
Adds(m, m2) ==
    /\ Extends(m, m2)
    /\ \A k \in HeapIds :
          /\ m.heaps[k].deallocs \subseteq m2.heaps[k].deallocs
          /\ \A o \in m2.heaps[k].deallocs \ m.heaps[k].deallocs :
                o \in m2.live \ m.live /\ k = m2.cur

(* Blocks added with the registrations as they were.                       *)
LEMMA SameObjectsAdds ==
    ASSUME NEW m, NEW m2, Extends(m, m2), SameObjects(m, m2)
    PROVE  Adds(m, m2)
BY DEF Adds, SameObjects

(* So does registering a block that was just carved.                       *)
LEMMA RegisterAdds ==
    ASSUME NEW m, MemInv(m), NEW m1, Extends(m, m1), SameObjects(m, m1),
           NEW o \in m1.live \ m.live
    PROVE  Adds(m, Register(m1, o))
<1> DEFINE m2 == Register(m1, o)
<1>1. m1 \in Memory /\ m1.cur \in HeapIds /\ MemInv(m1) /\ o \in Extent
    BY DEF Extends, MemInv, Memory
<1>2. Extends(m, m2)
  <2>1. Extends(m1, m2)
      BY <1>1, RegisterExtends
  <2> HIDE DEF m2
  <2>2. QED
      BY <2>1, ExtendsTransitive
<1>3. m2.live = m1.live /\ m2.cur = m1.cur
    BY <1>1 DEF Register, Memory
<1>4. \A k \in HeapIds : m2.heaps[k].deallocs =
         IF k = m1.cur THEN m1.heaps[k].deallocs \cup {o} ELSE m1.heaps[k].deallocs
    BY <1>1 DEF Register, Memory, HeapRec
<1> HIDE DEF m2
<1>5. Adds(m, m2)
  <2>1. ASSUME NEW k \in HeapIds
        PROVE  /\ m.heaps[k].deallocs \subseteq m2.heaps[k].deallocs
               /\ \A x \in m2.heaps[k].deallocs \ m.heaps[k].deallocs :
                     x = o /\ k = m1.cur
      BY ZenonT(30), <1>4 DEF SameObjects
  <2>2. QED
      BY <1>2, <1>3, <2>1 DEF Adds
<1>6. QED
    BY <1>5 DEF m2

(* Adding blocks keeps the registrations in order.                         *)
LEMMA AddsKeepsObjects ==
    ASSUME NEW m, MemInv(m), ObjectsOK(m), NEW m2, Adds(m, m2)
    PROVE  ObjectsOK(m2)
<1> SUFFICES ASSUME NEW k \in HeapIds, NEW o \in m2.heaps[k].deallocs
             PROVE  o \in m2.live /\ o.heap <= k /\ k <= m2.cur
    BY DEF ObjectsOK
<1>1. m.cur <= m2.cur /\ m.cur \in Int /\ m2.cur \in Int /\ MemInv(m2)
    BY DEF Adds, Extends, MemInv, Memory, HeapIds
<1>2. CASE o \in m.heaps[k].deallocs
  <2>1. o \in m.live /\ o.heap <= k /\ k <= m.cur
      BY <1>2 DEF ObjectsOK
  <2>2. o \in m2.live
      BY <2>1 DEF Adds, Extends
  <2>3. k \in Int
      BY DEF HeapIds
  <2>4. k <= m2.cur
      BY <1>1, <2>1, <2>3
  <2>5. QED
      BY <2>1, <2>2, <2>4
<1>3. CASE o \notin m.heaps[k].deallocs
  <2>1. o \in m2.live /\ k = m2.cur
      BY <1>3 DEF Adds
  <2>2. o.heap <= m2.cur
      BY <1>1, <2>1 DEF MemInv, BlocksOK, BlockOK
  <2>3. QED
      BY <1>1, <2>1, <2>2
<1>4. QED
    BY <1>2, <1>3

(* A new block is not one that a snapshot holds.                           *)
LEMMA NewIsNotKept ==
    ASSUME NEW m, MemInv(m), NEW m2, Extends(m, m2), NEW s, SnapInv(m, s),
           NEW e \in m2.live \ m.live
    PROVE  ~Kept(e, s)
<1>1. SnapInv(m2, s)
    BY ExtendsKeepsSnapshot
<1>2. s.live = {x \in m2.live : Kept(x, s)} /\ s.live = {x \in m.live : Kept(x, s)}
    BY <1>1 DEF SnapInv
<1>3. QED
    BY <1>2

(* Adding blocks keeps what a snapshot says of the objects.                *)
LEMMA AddsKeepsSnapObjects ==
    ASSUME NEW m, MemInv(m), NEW m2, Adds(m, m2),
           NEW s, SnapInv(m, s), SnapObjects(m, s)
    PROVE  SnapObjects(m2, s)
<1>1. s.cur \in HeapIds
    BY DEF SnapInv, Snapshot
<1>2. ASSUME NEW k \in HeapIds, NEW o \in m2.heaps[k].deallocs \ m.heaps[k].deallocs
      PROVE  ~Kept(o, s)
    BY NewIsNotKept DEF Adds
<1>3. s.heap.deallocs = {o \in m2.heaps[s.cur].deallocs : Kept(o, s)}
    BY <1>1, <1>2 DEF SnapObjects, Adds
<1>4. \A k \in HeapIds : k > s.cur => \A o \in m2.heaps[k].deallocs : ~Kept(o, s)
    BY <1>2 DEF SnapObjects
<1>5. QED
    BY <1>3, <1>4 DEF SnapObjects

(* A snapshot just taken.                                                  *)
LEMMA TakeObjects ==
    ASSUME NEW m, MemInv(m), ObjectsOK(m)
    PROVE  SnapObjects(m, Take(m))
<1>1. SnapInv(m, Take(m))
    BY TakeIsGood
<1>2. Take(m).cur = m.cur /\ Take(m).heap = m.heaps[m.cur] /\ Take(m).live = m.live
    BY DEF Take
<1>3. m.cur \in HeapIds /\ m.cur \in Int
    BY DEF MemInv, Memory, HeapIds
<1>4. \A o \in m.live : Kept(o, Take(m))
    BY <1>1, <1>2 DEF SnapInv
<1>5. \A k \in HeapIds : k > m.cur => m.heaps[k].deallocs = {}
    BY <1>3 DEF ObjectsOK, HeapIds
<1>6. QED
    BY <1>2, <1>3, <1>4, <1>5 DEF SnapObjects, ObjectsOK

-----------------------------------------------------------------------------
(* Rewinding                                                               *)

Objects(m) == UNION {m.heaps[k].deallocs : k \in HeapIds}

(* Where the registered objects of a heap are, relative to a snapshot.     *)
LEMMA KeptByHeap ==
    ASSUME NEW m, MemInv(m), ObjectsOK(m),
           NEW s, SnapInv(m, s), SnapObjects(m, s),
           NEW k \in HeapIds, NEW o \in m.heaps[k].deallocs
    PROVE  /\ o \in m.live /\ k <= m.cur
           /\ k < s.cur => Kept(o, s)
           /\ k = s.cur => (Kept(o, s) <=> o \in s.heap.deallocs)
           /\ k > s.cur => ~Kept(o, s)
           /\ Kept(o, s) <=> o \in s.live
<1>1. m \in Memory /\ s \in Snapshot
    BY DEF MemInv, SnapInv
<1>2. s.cur \in HeapIds /\ o \in Extent
    BY <1>1 DEF Snapshot, Memory, HeapRec
<1>3. s.cur \in Int /\ k \in Int /\ o.heap \in Int
    BY <1>2 DEF Extent, HeapIds
<1>4. o \in m.live /\ o.heap <= k /\ k <= m.cur
    BY DEF ObjectsOK
<1>5. k < s.cur => Kept(o, s)
    BY <1>3, <1>4 DEF Kept
<1>6. k = s.cur => (Kept(o, s) <=> o \in s.heap.deallocs)
    BY DEF SnapObjects
<1>7. k > s.cur => ~Kept(o, s)
    BY DEF SnapObjects
<1>8. Kept(o, s) <=> o \in s.live
    BY <1>4 DEF SnapInv
<1>9. QED
    BY <1>4, <1>5, <1>6, <1>7, <1>8

(* The lists of the heaps after a rewind.                                  *)
LEMMA RestoredObjects ==
    ASSUME NEW m, MemInv(m), NEW s, SnapInv(m, s), NEW k \in HeapIds
    PROVE  Restored(m, s).heaps[k].deallocs =
              IF k = s.cur THEN s.heap.deallocs
              ELSE IF k \in Rewound(m, s) THEN {}
              ELSE m.heaps[k].deallocs
<1>1. m \in Memory /\ m.heaps[k] \in HeapRec
    BY DEF MemInv, Memory
<1>2. Restored(m, s).heaps[k] = IF k = s.cur THEN s.heap
          ELSE IF k \in Rewound(m, s) THEN ResetHeap(m.heaps[k]) ELSE m.heaps[k]
    BY <1>1 DEF Restored, Memory
<1>3. ResetHeap(m.heaps[k]).deallocs = {}
    BY <1>1 DEF ResetHeap, HeapRec
<1>4. QED
    BY <1>2, <1>3

(* A rewind that does not stop finalizes the registered objects that the   *)
(* snapshot does not hold, and leaves those it holds registered.           *)
LEMMA RewindFinalizes ==
    ASSUME NEW m, MemInv(m), ObjectsOK(m),
           NEW s, SnapInv(m, s), SnapObjects(m, s), ~Stray(m, s)
    PROVE  /\ Called(m, s) = Objects(m) \ s.live
           /\ Objects(Restored(m, s)) = Objects(m) \cap s.live
<1> DEFINE m2 == Restored(m, s)
<1>1. s.cur \in HeapIds /\ s.cur \in Int /\ m.cur \in Int /\ s.cur <= m.cur
        /\ m.cur \in HeapIds
    BY DEF MemInv, Memory, SnapInv, Snapshot, HeapIds
<1>2. \A k \in HeapIds : k \in Int
    BY DEF HeapIds
<1>3. \A k : k \in Rewound(m, s) <=> k \in HeapIds /\ s.cur <= k /\ k <= m.cur
    BY <1>1, HeapAssumption DEF Rewound, HeapIds
<1>4. \A o \in m.heaps[s.cur].deallocs : Before(o, s) <=> Kept(o, s)
  <2>1. s.cur \in Rewound(m, s)
      BY <1>1, <1>3
  <2>2. \A o \in m.heaps[s.cur].deallocs : o.heap = s.cur
      BY <2>1 DEF Stray
  <2>3. QED
      BY <1>1, <2>2 DEF Kept, Before
<1>5. ASSUME NEW o PROVE o \in Called(m, s) <=> o \in Objects(m) \ s.live
  <2>1. ASSUME o \in Called(m, s) PROVE o \in Objects(m) \ s.live
    <3>1. PICK k \in Rewound(m, s) : o \in m.heaps[k].deallocs
        BY <2>1 DEF Called, Registered
    <3>2. k \in HeapIds /\ s.cur <= k /\ k \in Int
        BY <1>2, <1>3, <3>1
    <3>3. ~(k = s.cur /\ Kept(o, s))
        BY <1>4, <2>1, <3>1 DEF Called, Skipped
    <3>4. ~Kept(o, s)
        BY <1>1, <3>1, <3>2, <3>3, KeptByHeap
    <3>5. o \notin s.live
        BY <3>1, <3>2, <3>4, KeptByHeap
    <3>6. QED
        BY <3>1, <3>2, <3>5 DEF Objects
  <2>2. ASSUME o \in Objects(m) \ s.live PROVE o \in Called(m, s)
    <3>1. PICK k \in HeapIds : o \in m.heaps[k].deallocs
        BY <2>2 DEF Objects
    <3>2. ~Kept(o, s) /\ k <= m.cur
        BY <2>2, <3>1, KeptByHeap
    <3>3. s.cur <= k
        BY <1>1, <1>2, <3>1, <3>2, KeptByHeap
    <3>4. o \in Registered(m, s)
        BY <1>3, <3>1, <3>2, <3>3 DEF Registered
    <3>5. o \notin Skipped(m, s)
        BY <1>4, <3>2 DEF Skipped
    <3>6. QED
        BY <3>4, <3>5 DEF Called
  <2>3. QED
      BY <2>1, <2>2
<1>6. ASSUME NEW o PROVE o \in Objects(m2) <=> o \in Objects(m) \cap s.live
  <2>1. ASSUME o \in Objects(m2) PROVE o \in Objects(m) \cap s.live
    <3>1. PICK k \in HeapIds : o \in m2.heaps[k].deallocs
        BY <2>1 DEF Objects
    <3>2. CASE k = s.cur
      <4>1. o \in s.heap.deallocs
          BY <3>1, <3>2, RestoredObjects
      <4>2. o \in m.heaps[s.cur].deallocs /\ Kept(o, s)
          BY <4>1 DEF SnapObjects
      <4>3. o \in s.live
          BY <1>1, <4>2, KeptByHeap
      <4>4. QED
          BY <1>1, <4>2, <4>3 DEF Objects
    <3>3. CASE k # s.cur
      <4>1. k \notin Rewound(m, s) /\ o \in m.heaps[k].deallocs
          BY <3>1, <3>3, RestoredObjects
      <4>2. k <= m.cur
          BY <4>1, KeptByHeap
      <4>3. k < s.cur
          BY <1>1, <1>2, <1>3, <3>3, <4>1, <4>2
      <4>4. o \in s.live
          BY <4>1, <4>3, KeptByHeap
      <4>5. QED
          BY <4>1, <4>4 DEF Objects
    <3>4. QED
        BY <3>2, <3>3
  <2>2. ASSUME o \in Objects(m) \cap s.live PROVE o \in Objects(m2)
    <3>1. PICK k \in HeapIds : o \in m.heaps[k].deallocs
        BY <2>2 DEF Objects
    <3>2. Kept(o, s)
        BY <2>2, <3>1, KeptByHeap
    <3>3. k = s.cur \/ k < s.cur
        BY <1>1, <1>2, <3>1, <3>2, KeptByHeap
    <3>4. o \in m2.heaps[k].deallocs
      <4>1. CASE k = s.cur
          BY <3>1, <3>2, <4>1, KeptByHeap, RestoredObjects
      <4>2. CASE k < s.cur
        <5>1. k # s.cur /\ k \notin Rewound(m, s)
            BY <1>1, <1>2, <1>3, <4>2
        <5>2. QED
            BY <3>1, <5>1, RestoredObjects
      <4>3. QED
          BY <3>3, <4>1, <4>2
    <3>5. QED
        BY <3>4 DEF Objects
  <2>3. QED
      BY <2>1, <2>2
<1>7. QED
    BY <1>5, <1>6

(* What is known of the objects is still known after a rewind.             *)
LEMMA RewindKeepsObjects ==
    ASSUME NEW m, MemInv(m), ObjectsOK(m),
           NEW t, SnapInv(m, t), SnapObjects(m, t)
    PROVE  /\ ObjectsOK(Restored(m, t))
           /\ \A s : SnapInv(m, s) /\ SnapObjects(m, s) /\ Older(s, t)
                 => SnapObjects(Restored(m, t), s)
<1> DEFINE m2 == Restored(m, t)
<1>1. /\ m2.cur = t.cur /\ m2.live = t.live
      /\ t.cur \in HeapIds /\ t.cur \in Int /\ m.cur \in Int /\ m.cur \in HeapIds
    BY RewindRestores DEF SnapInv, Snapshot, MemInv, Memory, HeapIds
<1>2. \A k \in HeapIds : k \in Int
    BY DEF HeapIds
<1>3. \A k \in HeapIds : k > t.cur => m2.heaps[k].deallocs = {}
  <2>1. SUFFICES ASSUME NEW k \in HeapIds, k > t.cur PROVE m2.heaps[k].deallocs = {}
      OBVIOUS
  <2>2. CASE k \in Rewound(m, t)
      BY <1>1, <1>2, <2>1, <2>2, RestoredObjects
  <2>3. CASE k \notin Rewound(m, t)
    <3>1. m2.heaps[k].deallocs = m.heaps[k].deallocs /\ k > m.cur
        BY <1>1, <1>2, <2>1, <2>3, RestoredObjects DEF Rewound
    <3>2. \A o \in m.heaps[k].deallocs : k <= m.cur
        BY DEF ObjectsOK
    <3>3. QED
        BY <1>1, <1>2, <3>1, <3>2
  <2>4. QED
      BY <2>2, <2>3
<1>4. m2.heaps[t.cur].deallocs = t.heap.deallocs
    BY <1>1, RestoredObjects
<1>5. \A k \in HeapIds : k < t.cur => m2.heaps[k].deallocs = m.heaps[k].deallocs
    BY <1>1, <1>2, RestoredObjects DEF Rewound
<1>6. ASSUME NEW k \in HeapIds, NEW o \in m2.heaps[k].deallocs
      PROVE  o \in m.heaps[k].deallocs /\ k <= t.cur /\ Kept(o, t)
  <2>1. k <= t.cur
      BY <1>1, <1>2, <1>3
  <2>2. CASE k = t.cur
    <3>1. o \in t.heap.deallocs
        BY <1>4, <1>6, <2>2
    <3>2. o \in {x \in m.heaps[t.cur].deallocs : Kept(x, t)}
        BY <3>1 DEF SnapObjects
    <3>3. QED
        BY <2>1, <2>2, <3>2
  <2>3. CASE k < t.cur
      BY <1>5, <1>6, <2>1, <2>3, KeptByHeap
  <2>4. QED
      BY <1>1, <1>2, <2>1, <2>2, <2>3
<1>7. ObjectsOK(m2)
    BY <1>1, <1>6, KeptByHeap DEF ObjectsOK
<1>8. ASSUME NEW s, SnapInv(m, s), SnapObjects(m, s), Older(s, t)
      PROVE  SnapObjects(m2, s)
  <2>1. s.cur \in HeapIds /\ s.cur \in Int /\ s.cur <= t.cur
      BY <1>8 DEF SnapInv, Snapshot, Older, HeapIds
  <2>2. ASSUME NEW o \in m.heaps[s.cur].deallocs, Kept(o, s)
        PROVE  o \in m2.heaps[s.cur].deallocs
    <3>1. CASE s.cur = t.cur
      <4>1. o \in t.live
          BY <1>8, <2>1, <2>2, KeptByHeap DEF Older
      <4>2. Kept(o, t)
          BY <2>1, <4>1, KeptByHeap
      <4>3. o \in t.heap.deallocs
          BY <3>1, <4>2 DEF SnapObjects
      <4>4. QED
          BY <1>4, <3>1, <4>3
    <3>2. CASE s.cur < t.cur
        BY <1>5, <2>1, <3>2
    <3>3. QED
        BY <1>1, <2>1, <3>1, <3>2
  <2>3. s.heap.deallocs = {o \in m2.heaps[s.cur].deallocs : Kept(o, s)}
    <3>1. s.heap.deallocs = {o \in m.heaps[s.cur].deallocs : Kept(o, s)}
        BY <1>8 DEF SnapObjects
    <3>2. \A o : o \in m2.heaps[s.cur].deallocs => o \in m.heaps[s.cur].deallocs
        BY <1>6, <2>1
    <3>3. QED
        BY <2>2, <3>1, <3>2
  <2>4. \A k \in HeapIds : k > s.cur => \A o \in m2.heaps[k].deallocs : ~Kept(o, s)
      BY <1>6, <1>8 DEF SnapObjects
  <2>5. QED
      BY <2>3, <2>4 DEF SnapObjects
<1>9. QED
    BY <1>7, <1>8

-----------------------------------------------------------------------------
(* The invariant                                                           *)

(* What the theorems below need to know of a step: it allocates, takes a   *)
(* snapshot, or rewinds to one.                                            *)
LEMMA MallocAdds ==
    ASSUME IInv, NEW n \in Sizes, NEW a \in Aligns, Malloc(n, a)
    PROVE  Adds(mem, mem')
<1>1. MemInv(mem) /\ n \in Nat /\ a \in {1, 2}
    BY HeapAssumption DEF IInv
<1>2. QED
    BY <1>1, AllocsExtend, SameObjectsAdds DEF Malloc

(* The two ways to make an object add it, and no other object.             *)
LEMMA NewObjectAdds ==
    ASSUME IInv, NEW n \in ObjectSizes, NewObject(n)
    PROVE  Adds(mem, mem')
<1>1. MemInv(mem) /\ n \in Nat
    BY HeapAssumption DEF IInv
<1>2. PICK out \in Allocs(mem, n, 1) :
         mem' = IF out.ptr = NULL THEN out.mem ELSE Register(out.mem, out.ptr)
    BY DEF NewObject
<1>3. /\ Extends(mem, out.mem) /\ SameObjects(mem, out.mem)
      /\ out.ptr # NULL => out.ptr \in out.mem.live \ mem.live
    BY <1>1, AllocsExtend
<1>4. QED
    BY <1>1, <1>2, <1>3, SameObjectsAdds, RegisterAdds

(* An object whose PxObject is a block of its own is added likewise.       *)
LEMMA InitObjectAdds ==
    ASSUME IInv, NEW n \in ObjectSizes, InitObject(n)
    PROVE  Adds(mem, mem')
<1>1. MemInv(mem) /\ n \in Nat /\ PxObjectSize \in Nat
    BY HeapAssumption DEF IInv
<1>2. PICK one \in Allocs(mem, n, 1) :
         IF one.ptr = NULL THEN mem' = one.mem
         ELSE \E two \in Allocs(one.mem, PxObjectSize, 1) :
                mem' = IF two.ptr = NULL THEN two.mem
                                         ELSE Register(two.mem, one.ptr)
    BY DEF InitObject
<1>3. /\ Extends(mem, one.mem) /\ SameObjects(mem, one.mem) /\ MemInv(one.mem)
      /\ one.ptr # NULL => one.ptr \in one.mem.live \ mem.live
    BY <1>1, AllocsExtend DEF Extends
<1>4. CASE one.ptr = NULL
    BY <1>2, <1>3, <1>4, SameObjectsAdds
<1>5. CASE one.ptr # NULL
  <2>1. PICK two \in Allocs(one.mem, PxObjectSize, 1) :
           mem' = IF two.ptr = NULL THEN two.mem ELSE Register(two.mem, one.ptr)
      BY <1>2, <1>5
  <2>2. Extends(one.mem, two.mem) /\ SameObjects(one.mem, two.mem)
      BY <1>1, <1>3, AllocsExtend
  <2>3. Extends(mem, two.mem) /\ SameObjects(mem, two.mem)
      BY <1>1, <1>3, <2>2, ExtendsTransitive DEF SameObjects
  <2>4. one.ptr \in two.mem.live \ mem.live
      BY <1>3, <1>5, <2>2 DEF Extends
  <2>5. QED
      BY <1>1, <2>1, <2>3, <2>4, SameObjectsAdds, RegisterAdds
<1>6. QED
    BY <1>4, <1>5

(* A step that only smashes headers or traps adds nothing.                 *)
LEMMA ChangedElsewhereAdds ==
    ASSUME NEW m, MemInv(m), NEW m2, Extends(m, m2), m2.heaps = m.heaps
    PROVE  Adds(m, m2)
BY SameObjectsAdds DEF SameObjects

(* Free adds nothing.                                                      *)
LEMMA FreeAdds ==
    ASSUME IInv, Free
    PROVE  Adds(mem, mem')
<1>1. MemInv(mem) /\ mem \in Memory
    BY DEF IInv, MemInv
<1>2. mem.smashed \cup {e \in mem.live : OnDescriptor(e, mem.cur)} \in SUBSET Extent
    BY <1>1 DEF Memory
<1>3. Extends(mem, mem')
    BY <1>1, <1>2, SmashExtends DEF Free
<1>4. mem'.heaps = mem.heaps
    BY <1>1 DEF Free, Memory
<1>5. QED
    BY <1>1, <1>3, <1>4, ChangedElsewhereAdds

(* The copies a startup snapshot allocates are not objects.                *)
LEMMA StartupAdds ==
    ASSUME IInv, TakeStartupSnapshot
    PROVE  /\ Adds(mem, mem') /\ SameObjects(mem, mem')
           /\ startup' = startup \/ startup' = Take(mem')
<1>1. MemInv(mem) /\ SocketSize \in Nat /\ DescSize \in Nat
    BY HeapAssumption DEF IInv
<1>2. PICK one \in Allocs(mem, SocketSize, 1) :
         IF one.ptr = NULL
         THEN /\ mem' = [one.mem EXCEPT !.trap = "no_memory"]
              /\ startup' = startup
         ELSE \E two \in Allocs(one.mem, DescSize, 1) :
                IF two.ptr = NULL
                THEN /\ mem' = [two.mem EXCEPT !.trap = "no_memory"]
                     /\ startup' = startup
                ELSE mem' = two.mem /\ startup' = Take(two.mem)
    BY DEF TakeStartupSnapshot
<1>3. Extends(mem, one.mem) /\ SameObjects(mem, one.mem) /\ MemInv(one.mem)
    BY <1>1, AllocsExtend DEF Extends
<1>4. ASSUME NEW m, Extends(mem, m), SameObjects(mem, m), MemInv(m)
      PROVE  LET m2 == [m EXCEPT !.trap = "no_memory"]
             IN  Extends(mem, m2) /\ SameObjects(mem, m2)
  <2> DEFINE m2 == [m EXCEPT !.trap = "no_memory"]
  <2>1. Extends(m, m2) /\ m2.heaps = m.heaps
      BY <1>4, TrapExtends DEF Traps, MemInv, Memory
  <2> HIDE DEF m2
  <2>2. Extends(mem, m2) /\ SameObjects(mem, m2)
      BY <1>1, <1>4, <2>1, ExtendsTransitive DEF SameObjects
  <2>3. QED
      BY <2>2 DEF m2
<1>5. CASE one.ptr = NULL
    BY <1>2, <1>3, <1>4, <1>5, SameObjectsAdds
<1>6. CASE one.ptr # NULL
  <2>1. PICK two \in Allocs(one.mem, DescSize, 1) :
           IF two.ptr = NULL
           THEN /\ mem' = [two.mem EXCEPT !.trap = "no_memory"]
                /\ startup' = startup
           ELSE mem' = two.mem /\ startup' = Take(two.mem)
      BY <1>2, <1>6
  <2>2. Extends(one.mem, two.mem) /\ SameObjects(one.mem, two.mem) /\ MemInv(two.mem)
      BY <1>1, <1>3, AllocsExtend DEF Extends
  <2>3. Extends(mem, two.mem) /\ SameObjects(mem, two.mem)
      BY <1>1, <1>3, <2>2, ExtendsTransitive DEF SameObjects
  <2>4. QED
      BY <1>4, <2>1, <2>2, <2>3, SameObjectsAdds
<1>7. QED
    BY <1>5, <1>6

(* A rewind that stops the process changes nothing else.                   *)
LEMMA BreakAdds ==
    ASSUME NEW m, MemInv(m), NEW s, SnapInv(m, s), Breaks(m, s)
    PROVE  Adds(m, Rewind(m, s)) /\ SameObjects(m, Rewind(m, s))
             /\ Rewind(m, s).live = m.live
<1>1. m \in Memory
    BY DEF MemInv
<1>2. Extends(m, Rewind(m, s))
    BY RewindCases
<1>3. Rewind(m, s).heaps = m.heaps /\ Rewind(m, s).live = m.live
    BY <1>1 DEF Rewind, Breaks, Memory
<1>4. QED
    BY <1>2, <1>3, ChangedElsewhereAdds DEF SameObjects

(* A step that only adds blocks keeps the invariant.                       *)
LEMMA AddsKeepsInv ==
    ASSUME ObjInv, IInv', Adds(mem, mem'), UNCHANGED <<ctxSnap, startup, busy>>
    PROVE  ObjInv'
<1>1. MemInv(mem) /\ ObjectsOK(mem')
    BY AddsKeepsObjects DEF ObjInv, IInv
<1>2. startup' # None => SnapObjects(mem', startup')
    BY <1>1, AddsKeepsSnapObjects DEF ObjInv, IInv
<1>3. busy' => SnapObjects(mem', ctxSnap')
    BY <1>1, AddsKeepsSnapObjects DEF ObjInv, IInv
<1>4. QED
    BY <1>1, <1>2, <1>3 DEF ObjInv

(* Every step keeps the invariant.                                         *)
LEMMA ObjNext == ObjInv /\ [Next]_vars => ObjInv'
<1> SUFFICES ASSUME ObjInv, [Next]_vars PROVE ObjInv'
    OBVIOUS
<1>1. /\ IInv /\ IInv' /\ MemInv(mem) /\ ObjectsOK(mem)
      /\ startup # None => SnapInv(mem, startup) /\ SnapObjects(mem, startup)
      /\ busy => SnapInv(mem, ctxSnap) /\ SnapObjects(mem, ctxSnap)
      /\ busy /\ startup # None => Older(startup, ctxSnap)
    BY NextInv DEF ObjInv, IInv
<1>2. ASSUME NEW n \in Sizes, NEW a \in Aligns, Malloc(n, a) PROVE ObjInv'
  <2>1. UNCHANGED <<ctxSnap, startup, busy>>
      BY <1>2 DEF Malloc
  <2>2. QED
      BY <1>1, <1>2, <2>1, MallocAdds, AddsKeepsInv
<1>3. ASSUME NEW n \in ObjectSizes, NewObject(n) PROVE ObjInv'
  <2>1. UNCHANGED <<ctxSnap, startup, busy>>
      BY <1>3 DEF NewObject
  <2>2. QED
      BY <1>1, <1>3, <2>1, NewObjectAdds, AddsKeepsInv
<1>4. ASSUME NEW n \in ObjectSizes, InitObject(n) PROVE ObjInv'
  <2>1. UNCHANGED <<ctxSnap, startup, busy>>
      BY <1>4 DEF InitObject
  <2>2. QED
      BY <1>1, <1>4, <2>1, InitObjectAdds, AddsKeepsInv
<1>5. ASSUME Free PROVE ObjInv'
  <2>1. UNCHANGED <<ctxSnap, startup, busy>>
      BY <1>5 DEF Free
  <2>2. QED
      BY <1>1, <1>5, <2>1, FreeAdds, AddsKeepsInv
<1>6. ASSUME HeapSnapshot \/ UpdateHeapSnapshot PROVE ObjInv'
  <2>1. mem' = mem /\ startup' = startup /\ ctxSnap' = Take(mem)
      BY <1>6 DEF HeapSnapshot, UpdateHeapSnapshot
  <2>2. SnapObjects(mem, Take(mem))
      BY <1>1, TakeObjects
  <2>3. QED
      BY <1>1, <2>1, <2>2 DEF ObjInv
<1>7. ASSUME RollbackHeap PROVE ObjInv'
  <2>1. /\ SnapInv(mem, ctxSnap) /\ SnapObjects(mem, ctxSnap)
        /\ mem' = Rewind(mem, ctxSnap) /\ startup' = startup /\ busy
      BY <1>1, <1>7 DEF RollbackHeap
  <2>2. CASE Breaks(mem, ctxSnap)
    <3>1. Adds(mem, mem') /\ UNCHANGED <<ctxSnap, startup, busy>>
        BY <1>1, <1>7, <2>1, <2>2, BreakAdds DEF RollbackHeap
    <3>2. QED
        BY <1>1, <3>1, AddsKeepsInv
  <2>3. CASE ~Breaks(mem, ctxSnap)
    <3>1. mem' = Restored(mem, ctxSnap) /\ busy' = FALSE
        BY <1>1, <1>7, <2>1, <2>3, RewindCases DEF RollbackHeap
    <3>2. ObjectsOK(mem') /\ (startup # None => SnapObjects(mem', startup))
        BY <1>1, <2>1, <3>1, RewindKeepsObjects
    <3>3. QED
        BY <1>1, <2>1, <3>1, <3>2 DEF ObjInv
  <2>4. QED
      BY <2>2, <2>3
<1>8. ASSUME TakeStartupSnapshot PROVE ObjInv'
  <2>1. /\ Adds(mem, mem') /\ (startup' = startup \/ startup' = Take(mem'))
        /\ ctxSnap' = ctxSnap /\ busy' = busy /\ ~busy
      BY <1>1, <1>8, StartupAdds DEF TakeStartupSnapshot
  <2>2. ObjectsOK(mem') /\ MemInv(mem')
      BY <1>1, <2>1, AddsKeepsObjects DEF IInv
  <2>3. startup' = startup /\ startup # None => SnapObjects(mem', startup')
      BY <1>1, <2>1, AddsKeepsSnapObjects
  <2>4. SnapObjects(mem', Take(mem'))
      BY <2>2, TakeObjects
  <2>5. QED
      BY <1>1, <2>1, <2>2, <2>3, <2>4 DEF ObjInv
<1>9. ASSUME UpdateStartupSnapshot PROVE ObjInv'
  <2>1. SnapObjects(mem, Take(mem))
      BY <1>1, TakeObjects
  <2>2. QED
      BY <1>1, <1>9, <2>1 DEF ObjInv, UpdateStartupSnapshot
<1>10. ASSUME Reuse PROVE ObjInv'
  <2>1. /\ SnapInv(mem, startup) /\ SnapObjects(mem, startup) /\ startup # None
        /\ mem' = Rewind(mem, startup) /\ startup' = startup /\ ctxSnap' = ctxSnap
      BY <1>1, <1>10 DEF Reuse
  <2>2. CASE Breaks(mem, startup)
    <3>1. Adds(mem, mem') /\ UNCHANGED <<ctxSnap, startup, busy>>
        BY <1>1, <1>10, <2>1, <2>2, BreakAdds DEF Reuse
    <3>2. QED
        BY <1>1, <3>1, AddsKeepsInv
  <2>3. CASE ~Breaks(mem, startup)
    <3>1. mem' = Restored(mem, startup) /\ busy' = FALSE
        BY <1>1, <1>10, <2>1, <2>3, RewindCases DEF Reuse
    <3>2. startup.heap.next \in Nat /\ startup.cur \in Int
        BY <2>1 DEF SnapInv, Snapshot, HeapRec, HeapIds
    <3>3. Older(startup, startup)
        BY <3>2 DEF Older
    <3>4. ObjectsOK(mem') /\ SnapObjects(mem', startup)
        BY <1>1, <2>1, <3>1, <3>3, RewindKeepsObjects
    <3>5. QED
        BY <1>1, <2>1, <3>1, <3>4 DEF ObjInv
  <2>4. QED
      BY <2>2, <2>3
<1>11. ASSUME UNCHANGED vars PROVE ObjInv'
    BY <1>1, <1>11 DEF vars, ObjInv
<1>12. QED
    BY <1>2, <1>3, <1>4, <1>5, <1>6, <1>7, <1>8, <1>9, <1>10, <1>11 DEF Next

(* The invariant holds initially.                                          *)
LEMMA ObjInit == Init => ObjInv
<1> SUFFICES ASSUME Init PROVE ObjInv
    OBVIOUS
<1>1. IInv
    BY InitInv
<1>2. \A k \in HeapIds : mem.heaps[k].deallocs = {}
    BY DEF Init, InitialHeap, Unmade
<1>3. QED
    BY <1>1, <1>2 DEF Init, ObjInv, ObjectsOK

(* The registrations of a context are in order in every state.             *)
THEOREM ObjectsInvariance == Spec => []ObjInv
<1>1. ObjInv /\ [Next]_vars => ObjInv'
    BY ObjNext
<1>2. QED
    BY <1>1, ObjInit, PTL DEF Spec

-----------------------------------------------------------------------------
(* The heap is a region                                                    *)

(* Adding blocks adds objects only among the blocks it adds.               *)
LEMMA AddsObjects ==
    ASSUME NEW m, NEW m2, Adds(m, m2)
    PROVE  /\ m.live \subseteq m2.live
           /\ Objects(m) \subseteq Objects(m2)
           /\ Objects(m2) \ Objects(m) \subseteq m2.live \ m.live
<1>1. m.live \subseteq m2.live
    BY DEF Adds, Extends
<1>2. Objects(m) \subseteq Objects(m2)
    BY DEF Adds, Objects
<1>3. ASSUME NEW o \in Objects(m2) \ Objects(m) PROVE o \in m2.live \ m.live
  <2>1. PICK k \in HeapIds : o \in m2.heaps[k].deallocs
      BY DEF Objects
  <2>2. o \notin m.heaps[k].deallocs
      BY DEF Objects
  <2>3. QED
      BY <2>1, <2>2 DEF Adds
<1>4. QED
    BY <1>1, <1>2, <1>3

(* The registered objects of the context are those of its memory.          *)
LEMMA RegisteredIsObjects == RegisteredObjects = Objects(mem)
BY DEF RegisteredObjects, Objects

(* A step that only adds blocks is Alloc of the region.                    *)
LEMMA AddsIsAlloc ==
    ASSUME Adds(mem, mem'), calls' = {}, UNCHANGED <<ctxSnap, startup, busy>>
    PROVE  Region!Alloc
<1>1. /\ mem.live \subseteq mem'.live
      /\ RegisteredObjects \subseteq RegisteredObjects'
      /\ RegisteredObjects' \ RegisteredObjects \subseteq mem'.live \ mem.live
    BY AddsObjects DEF RegisteredObjects, Objects
<1>2. QED
    BY <1>1 DEF Region!Alloc

(* A step of the heap is a step of the region.                             *)
LEMMA RegionStep == ObjInv /\ Next => Region!Next
<1> SUFFICES ASSUME ObjInv, Next PROVE Region!Next
    OBVIOUS
<1>1. /\ IInv /\ MemInv(mem) /\ ObjectsOK(mem)
      /\ startup # None => SnapInv(mem, startup) /\ SnapObjects(mem, startup)
      /\ busy => /\ ctxSnap \in Snapshot
                 /\ SnapInv(mem, ctxSnap) /\ SnapObjects(mem, ctxSnap)
    BY DEF ObjInv, IInv
<1>2. ASSUME NEW s \in Snapshot PROVE s # None
  <2>1. s.cur # 0
      BY DEF Snapshot, HeapIds
  <2>2. QED
      BY <2>1 DEF None
<1>3. CASE \/ \E n \in Sizes, a \in Aligns : Malloc(n, a)
           \/ \E n \in ObjectSizes : NewObject(n) \/ InitObject(n)
           \/ Free
  <2>1. Adds(mem, mem') /\ calls' = {} /\ UNCHANGED <<ctxSnap, startup, busy>>
      BY <1>1, <1>3, MallocAdds, NewObjectAdds, InitObjectAdds, FreeAdds
         DEF Malloc, NewObject, InitObject, Free
  <2>2. QED
      BY <2>1, AddsIsAlloc DEF Region!Next
<1>4. CASE HeapSnapshot
  <2>1. Take(mem) # None /\ Take(mem).live = mem.live
      BY <1>1, <1>2, TakeIsGood DEF SnapInv, Take
  <2>2. Region!Begin
      BY <1>4, <2>1 DEF HeapSnapshot, Region!Begin, RegisteredObjects
  <2>3. QED
      BY <2>2 DEF Region!Next
<1>5. CASE UpdateHeapSnapshot
  <2>1. Take(mem) # None /\ Take(mem).live = mem.live
      BY <1>1, <1>2, TakeIsGood DEF SnapInv, Take
  <2>2. Region!Keep
      BY <1>5, <2>1 DEF UpdateHeapSnapshot, Region!Keep, RegisteredObjects
  <2>3. QED
      BY <2>2 DEF Region!Next
<1>6. CASE RollbackHeap
  <2>1. /\ SnapInv(mem, ctxSnap) /\ SnapObjects(mem, ctxSnap)
        /\ mem' = Rewind(mem, ctxSnap) /\ startup' = startup /\ busy
        /\ ctxSnap # None
      BY <1>1, <1>2, <1>6 DEF RollbackHeap
  <2>2. CASE Breaks(mem, ctxSnap)
    <3>1. Adds(mem, mem') /\ calls' = {} /\ UNCHANGED <<ctxSnap, startup, busy>>
        BY <1>1, <1>6, <2>1, <2>2, BreakAdds DEF RollbackHeap
    <3>2. QED
        BY <3>1, AddsIsAlloc DEF Region!Next
  <2>3. CASE ~Breaks(mem, ctxSnap)
    <3>1. /\ mem' = Restored(mem, ctxSnap) /\ busy' = FALSE /\ ctxSnap' = None
          /\ calls' = Called(mem, ctxSnap)
        BY <1>1, <1>6, <2>1, <2>3, RewindCases DEF RollbackHeap
    <3>2. mem'.live = ctxSnap.live /\ ctxSnap.live \subseteq mem.live
        BY <1>1, <2>1, <3>1, RewindRestores DEF SnapInv
    <3>3. /\ calls' = RegisteredObjects \ ctxSnap.live
          /\ RegisteredObjects' = RegisteredObjects \cap ctxSnap.live
        BY <1>1, <2>1, <2>3, <3>1, RewindFinalizes
           DEF RegisteredObjects, Objects, Breaks
    <3>4. Region!End
        BY <2>1, <3>1, <3>2, <3>3 DEF Region!End, Region!RewindTo
    <3>5. QED
        BY <3>4 DEF Region!Next
  <2>4. QED
      BY <2>2, <2>3
<1>7. CASE TakeStartupSnapshot
  <2>1. /\ Adds(mem, mem') /\ SameObjects(mem, mem') /\ calls' = {}
        /\ startup' = startup \/ startup' = Take(mem')
        /\ ctxSnap' = ctxSnap /\ busy' = busy /\ ~busy
      BY <1>1, <1>7, StartupAdds DEF TakeStartupSnapshot
  <2>2. CASE startup' = startup
      BY <2>1, <2>2, AddsIsAlloc DEF Region!Next
  <2>3. CASE startup' = Take(mem')
    <3>1. MemInv(mem')
        BY <2>1 DEF Adds, Extends
    <3>2. startup' # None /\ startup'.live = mem'.live
        BY <1>2, <2>3, <3>1, TakeIsGood DEF SnapInv, Take
    <3>3. RegisteredObjects' = RegisteredObjects
        BY <2>1 DEF SameObjects, RegisteredObjects
    <3>4. mem.live \subseteq mem'.live
        BY <2>1 DEF Adds, Extends
    <3>5. Region!Base
        BY <2>1, <3>2, <3>3, <3>4 DEF Region!Base
    <3>6. QED
        BY <3>5 DEF Region!Next
  <2>4. QED
      BY <2>1, <2>2, <2>3
<1>8. CASE UpdateStartupSnapshot
  <2>1. Take(mem) # None /\ Take(mem).live = mem.live
      BY <1>1, <1>2, TakeIsGood DEF SnapInv, Take
  <2>2. Region!Base
      BY <1>8, <2>1 DEF UpdateStartupSnapshot, Region!Base, RegisteredObjects
  <2>3. QED
      BY <2>2 DEF Region!Next
<1>9. CASE Reuse
  <2>1. /\ SnapInv(mem, startup) /\ SnapObjects(mem, startup) /\ startup # None
        /\ mem' = Rewind(mem, startup) /\ startup' = startup /\ ctxSnap' = ctxSnap
      BY <1>1, <1>9 DEF Reuse
  <2>2. CASE Breaks(mem, startup)
    <3>1. Adds(mem, mem') /\ calls' = {} /\ UNCHANGED <<ctxSnap, startup, busy>>
        BY <1>1, <1>9, <2>1, <2>2, BreakAdds DEF Reuse
    <3>2. QED
        BY <3>1, AddsIsAlloc DEF Region!Next
  <2>3. CASE ~Breaks(mem, startup)
    <3>1. /\ mem' = Restored(mem, startup) /\ busy' = FALSE
          /\ calls' = Called(mem, startup)
        BY <1>1, <1>9, <2>1, <2>3, RewindCases DEF Reuse
    <3>2. mem'.live = startup.live /\ startup.live \subseteq mem.live
        BY <1>1, <2>1, <3>1, RewindRestores DEF SnapInv
    <3>3. /\ calls' = RegisteredObjects \ startup.live
          /\ RegisteredObjects' = RegisteredObjects \cap startup.live
        BY <1>1, <2>1, <2>3, <3>1, RewindFinalizes
           DEF RegisteredObjects, Objects, Breaks
    <3>4. Region!Recycle
        BY <2>1, <3>1, <3>2, <3>3 DEF Region!Recycle, Region!RewindTo
    <3>5. QED
        BY <3>4 DEF Region!Next
  <2>4. QED
      BY <2>2, <2>3
<1>10. QED
    BY <1>3, <1>4, <1>5, <1>6, <1>7, <1>8, <1>9 DEF Next

(* The heap of a context implements a region.                              *)
THEOREM HeapIsRegion == Spec => RegionSpec
<1>1. Init => Region!Init
  <2> SUFFICES ASSUME Init PROVE Region!Init
      OBVIOUS
  <2>1. \A k \in HeapIds : mem.heaps[k].deallocs = {}
      BY DEF Init, InitialHeap, Unmade
  <2>2. RegisteredObjects = {}
      BY <2>1 DEF RegisteredObjects
  <2>3. QED
      BY <2>2 DEF Init, Region!Init
<1>2. ObjInv /\ [Next]_vars => [Region!Next]_(Region!vars)
    BY RegionStep DEF vars, Region!vars, RegisteredObjects
<1>3. QED
    BY <1>1, <1>2, ObjectsInvariance, PTL DEF Spec, RegionSpec, Region!Spec

(* Every registered object a rewind drops is finalized, once, and no other.*)
THEOREM FinalizesOnce == Spec => FinalizedOnce
<1> DEFINE A == mem'.trap = "none" =>
                  /\ calls' = RegisteredObjects \ mem'.live
                  /\ RegisteredObjects \cap mem'.live \subseteq RegisteredObjects'
<1>1. ObjInv /\ [Next]_vars => [A]_vars
  <2> SUFFICES ASSUME ObjInv, Next PROVE A
      OBVIOUS
  <2>1. RegisteredObjects \subseteq mem.live
      BY DEF ObjInv, ObjectsOK, RegisteredObjects
  <2>2. Region!Next
      BY RegionStep
  <2>3. CASE Region!Alloc \/ Region!Begin \/ Region!Keep \/ Region!Base
      BY <2>1, <2>3 DEF Region!Alloc, Region!Begin, Region!Keep, Region!Base
  <2>4. CASE Region!End \/ Region!Recycle
      BY <2>1, <2>4 DEF Region!End, Region!Recycle, Region!RewindTo
  <2>5. QED
      BY <2>2, <2>3, <2>4 DEF Region!Next
<1>2. QED
    BY <1>1, ObjectsInvariance, PTL DEF Spec, FinalizedOnce

=============================================================================
