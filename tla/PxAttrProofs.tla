---------------------------- MODULE PxAttrProofs ----------------------------
(***************************************************************************)
(* Proofs about the attributes of PxAttr, for any number of sockets,       *)
(* threads, attributes and heaps: what is assigned to the protocol lasts   *)
(* as long as it is meant to, and no heap override is left behind.         *)
(***************************************************************************)
EXTENDS PxAttr, TLAPS

-----------------------------------------------------------------------------
(* The inductive invariant                                                 *)

(* The memory of the socket is not used any more.                          *)
Away(s) == pc[s] \in {"retired", "gone", "trap"}
Connected(s) == pc[s] \in {"received", "complete", "receiving", "sending",
                           "ended"}

(* A socket runs one callback at a time.                                   *)
RunsOne ==
    /\ \A t \in Threads : runs[t] # None => pc[runs[t]] \in Kinds
    /\ \A t, u \in Threads : runs[t] = runs[u] /\ runs[t] # None => t = u

(* A socket keeps only heaps it has created, and they are destroyed with   *)
(* it.                                                                     *)
HeapsOwned ==
    /\ \A s \in Sockets :
          \A h \in {mem[s].held, mem[s].startHeld} \ {None} : h.own = s
    /\ \A h \in destroyed : Away(h.own)

(* The heap of a context is not below the snapshots that are rewound to;   *)
(* client_created() has come first.                                        *)
Levels == \A s \in Sockets :
    /\ mem[s].start <= mem[s].top /\ mem[s].snap <= mem[s].top
    /\ Connected(s) => mem[s].start <= mem[s].snap

(* What lies where no rewind takes it: below the startup snapshot, or      *)
(* between that and the snapshot of the connection, or it will once the    *)
(* callback that has assigned it returns.                                  *)
BelowStart(v) ==
    \/ pc[v.own] = "created" /\ mem[v.own].update /\ v.at < mem[v.own].top
    \/ mem[v.own].called /\ v.at < mem[v.own].start
BelowSnap(v) ==
    /\ Connected(v.own) /\ mem[v.own].start <= v.at
    /\ \/ v.at < mem[v.own].snap
       \/ pc[v.own] = "received" /\ mem[v.own].update /\ v.at < mem[v.own].top
Kept(v) ==
    v.in = "context" /\ v.lost = "no" /\ ~Away(v.own) =>
        /\ v.till = "socket" => BelowStart(v)
        /\ v.till = "connection" => BelowSnap(v)

(* A copy is made under the override of a socket.                          *)
Copying == \A t \in setting : override[t] \in Heaps

IInv == /\ TypeOK /\ RunsOne /\ HeapsOwned /\ Levels
        /\ \A a \in Attrs : Kept(attr[a])
        /\ CopiesLive /\ WholeLive /\ OverrideRemoved /\ Copying


-----------------------------------------------------------------------------
(* Types, in parts                                                         *)

Places == Kinds \cup {"new", "accepting", "receiving", "sending", "ended",
                      "retired", "gone", "trap"}
HeldRec == Heaps \cup {None}
HeapValue == [in : {"heap"}, heap : Heaps, lost : {"no", "recycled", "destroyed"}]
ContextValue == [in : {"context"}, own : Sockets, at : Nat, till : Spans,
                 lost : {"no", "rewound", "recycled", "freed"}]

LEMMA Facts ==
    ASSUME TypeOK
    PROVE  /\ \A s \in Sockets : pc[s] \in Places /\ mem[s] \in Mem
           /\ \A t \in Threads : runs[t] \in Sockets \cup {None}
                                   /\ override[t] \in HeldRec
           /\ \A a \in Attrs : attr[a] \in Value
           /\ None \notin Sockets
BY AttrAssumption DEF TypeOK, Places, HeldRec

(* The rewind of a context and the destruction of a heap change no value   *)
(* but those that lie there, and those only in what became of their memory *)
LEMMA Loses ==
    ASSUME TypeOK, NEW gone, NEW how, attr' = Lose(gone, how)
    PROVE  /\ DOMAIN attr' = Attrs
           /\ \A a \in Attrs : attr'[a] = IF a \in gone
                                  THEN [attr[a] EXCEPT !.lost = how] ELSE attr[a]
BY DEF TypeOK, Lose

LEMMA LosesTypes ==
    ASSUME TypeOK, NEW s \in Sockets, NEW to, NEW how \in {"rewound", "recycled", "freed"},
           attr' = Rewind(s, to, how)
    PROVE  attr' \in [Attrs -> Value]
<1>1. attr' = [a \in Attrs |-> IF a \in Above(s, to)
                                 THEN [attr[a] EXCEPT !.lost = how] ELSE attr[a]]
  BY DEF Rewind, Lose
<1>2. ASSUME NEW a \in Attrs, a \in Above(s, to)
      PROVE  [attr[a] EXCEPT !.lost = how] \in Value
  <2>1. attr[a] \in ContextValue
    BY <1>2 DEF Above, TypeOK, Value, ContextValue
  <2>2. [attr[a] EXCEPT !.lost = how] \in ContextValue
    BY <2>1 DEF ContextValue
  <2> QED
    BY <2>2 DEF ContextValue, Value
<1>3. \A a \in Attrs : attr[a] \in Value
  BY DEF TypeOK
<1> QED
  BY <1>1, <1>2, <1>3

LEMMA DestroyTypes ==
    ASSUME TypeOK, NEW s \in Sockets, DestroyHeld(s)
    PROVE  attr' \in [Attrs -> Value] /\ mem' \in [Sockets -> Mem]
             /\ destroyed' \subseteq Heaps
<1>1. attr' = [a \in Attrs |-> IF a \in Within(mem[s].held)
                  THEN [attr[a] EXCEPT !.lost = "destroyed"] ELSE attr[a]]
  BY DEF DestroyHeld, Lose
<1>2. ASSUME NEW a \in Attrs, a \in Within(mem[s].held)
      PROVE  [attr[a] EXCEPT !.lost = "destroyed"] \in Value
  <2>1. attr[a] \in HeapValue
    BY <1>2 DEF Within, TypeOK, Value, HeapValue
  <2>2. [attr[a] EXCEPT !.lost = "destroyed"] \in HeapValue
    BY <2>1 DEF HeapValue
  <2> QED
    BY <2>2 DEF HeapValue, Value
<1>3. attr' \in [Attrs -> Value]
  BY <1>1, <1>2 DEF TypeOK
<1>4. NoMem \in Mem
  BY DEF NoMem, Mem
<1>5. mem[s].held \in HeldRec
  BY DEF TypeOK, Mem, HeldRec
<1> QED
  BY <1>3, <1>4, <1>5 DEF DestroyHeld, TypeOK, HeldRec

-----------------------------------------------------------------------------
(* The heap override and what is assigned under it                         *)

LEMMA HeldIs ==
    ASSUME TypeOK, HeapsOwned, NEW s \in Sockets
    PROVE  HeldOf(s) \in Heaps /\ HeldOf(s).own = s
<1>1. mem[s] \in Mem
  BY DEF TypeOK
<1>2. CASE Creates(s)
  BY <1>1, <1>2 DEF HeldOf, Heaps, Mem
<1>3. CASE ~Creates(s)
  BY <1>1, <1>3 DEF HeldOf, Creates, HeapsOwned, Mem
<1> QED
  BY <1>2, <1>3

(* A heap is created for the socket, or it has one.                        *)
LEMMA CreateHolds ==
    ASSUME TypeOK, HeapsOwned, NEW s \in Sockets, CreateHeld(s)
    PROVE  /\ mem' \in [Sockets -> Mem]
           /\ \A x \in Sockets : /\ mem'[x].top = mem[x].top
                                 /\ mem'[x].snap = mem[x].snap
                                 /\ mem'[x].start = mem[x].start
                                 /\ mem'[x].startHeld = mem[x].startHeld
                                 /\ mem'[x].update = mem[x].update
                                 /\ mem'[x].called = mem[x].called
                                 /\ mem'[x].held \in {mem[x].held, HeldOf(x)}
<1>1. \A x \in Sockets : mem[x] \in Mem
  BY DEF TypeOK
<1>2. HeldOf(s) \in Heaps
  BY HeldIs
<1>3. PICK n \in Nat : n = IF Creates(s) THEN mem[s].made + 1 ELSE mem[s].made
  BY <1>1 DEF Mem
<1>4. mem' = [mem EXCEPT ![s] = [mem[s] EXCEPT !.held = HeldOf(s), !.made = n]]
  BY <1>1, <1>3 DEF CreateHeld, TypeOK, Mem
<1>5. [mem[s] EXCEPT !.held = HeldOf(s), !.made = n] \in Mem
  BY <1>1, <1>2 DEF Mem
<1>6. mem' \in [Sockets -> Mem]
  BY <1>4, <1>5 DEF TypeOK
<1>7. \A x \in Sockets \ {s} : mem'[x] = mem[x]
  BY <1>4 DEF TypeOK
<1>8. mem'[s] = [mem[s] EXCEPT !.held = HeldOf(s), !.made = n]
  BY <1>4 DEF TypeOK
<1>9. /\ mem'[s].top = mem[s].top /\ mem'[s].snap = mem[s].snap
      /\ mem'[s].start = mem[s].start /\ mem'[s].startHeld = mem[s].startHeld
      /\ mem'[s].update = mem[s].update /\ mem'[s].called = mem[s].called
      /\ mem'[s].held = HeldOf(s)
  BY <1>8, <1>1 DEF Mem
<1> QED
  BY <1>6, <1>7, <1>9


(* A step that assigns nothing and moves no snapshot.                      *)
LEMMA QuietStep ==
    ASSUME IInv, UNCHANGED <<pc, runs, destroyed, attr>>,
           mem' \in [Sockets -> Mem],
           \A x \in Sockets : /\ mem'[x].top = mem[x].top
                              /\ mem'[x].snap = mem[x].snap
                              /\ mem'[x].start = mem[x].start
                              /\ mem'[x].startHeld = mem[x].startHeld
                              /\ mem'[x].update = mem[x].update
                              /\ mem'[x].called = mem[x].called
                              /\ mem'[x].held \in {mem[x].held, HeldOf(x)},
           override' \in [Threads -> HeldRec], setting' \subseteq Threads,
           asked' \subseteq Threads, OverrideRemoved', Copying'
    PROVE  IInv'
<1>1. TypeOK /\ TypeOK'
  BY DEF IInv, TypeOK, HeldRec
<1>2. RunsOne' /\ CopiesLive' /\ WholeLive'
  BY DEF IInv, RunsOne, CopiesLive, WholeLive
<1>3. HeapsOwned'
  <2>1. \A x \in Sockets : HeldOf(x).own = x
    BY <1>1, HeldIs DEF IInv
  <2> QED
    BY <2>1 DEF IInv, HeapsOwned, Away
<1>4. Levels'
  BY DEF IInv, Levels, Connected
<1>5. ASSUME NEW a \in Attrs PROVE Kept(attr[a])'
  <2>1. attr[a].in = "context" => attr[a].own \in Sockets
    BY <1>1 DEF TypeOK, Value
  <2> QED
    BY <2>1 DEF IInv, Kept, BelowStart, BelowSnap, Away, Connected
<1> QED
  BY <1>1, <1>2, <1>3, <1>4, <1>5 DEF IInv

LEMMA OverrideStep ==
    ASSUME IInv, NEW t \in Threads,
           \/ EnableHeapOverride(t) \/ DisableHeapOverride(t)
           \/ BeginCopy(t) \/ CopyFails(t)
    PROVE  IInv'
<1>t. /\ TypeOK /\ HeapsOwned /\ OverrideRemoved /\ Copying
      /\ override \in [Threads -> HeldRec] /\ setting \subseteq Threads
      /\ asked \subseteq Threads /\ mem \in [Sockets -> Mem]
      /\ runs \in [Threads -> Sockets \cup {None}]
  BY DEF IInv, TypeOK, HeldRec
<1> DEFINE s == runs[t]
<1>1. CASE EnableHeapOverride(t)
  <2>1. s \in Sockets
    BY <1>1, <1>t DEF EnableHeapOverride, Running
  <2>2. /\ CreateHeld(s) /\ HeldOf(s) \in HeldRec
        /\ override' = [override EXCEPT ![t] = HeldOf(s)]
        /\ asked' = asked \cup {t} /\ UNCHANGED <<pc, runs, setting, destroyed, attr>>
    BY <1>1, <1>t, <2>1, HeldIs DEF EnableHeapOverride, HeldRec
  <2>3. override' \in [Threads -> HeldRec] /\ OverrideRemoved' /\ Copying'
    BY <1>t, <2>1, <2>2, HeldIs DEF OverrideRemoved, Copying
  <2> QED
    BY <1>t, <2>1, <2>2, <2>3, CreateHolds, QuietStep
<1>2. CASE BeginCopy(t)
  <2>1. s \in Sockets
    BY <1>2, <1>t DEF BeginCopy, Running
  <2>2. /\ CreateHeld(s) /\ HeldOf(s) \in HeldRec
        /\ override' = [override EXCEPT ![t] = HeldOf(s)]
        /\ setting' = setting \cup {t} /\ asked' = asked \ {t}
        /\ UNCHANGED <<pc, runs, destroyed, attr>>
    BY <1>2, <1>t, <2>1, HeldIs DEF BeginCopy, HeldRec
  <2>3. override' \in [Threads -> HeldRec] /\ OverrideRemoved' /\ Copying'
    BY <1>t, <2>1, <2>2, HeldIs DEF OverrideRemoved, Copying
  <2> QED
    BY <1>t, <2>1, <2>2, <2>3, CreateHolds, QuietStep
<1>3. CASE CopyFails(t)
  <2>1. /\ UNCHANGED <<pc, runs, destroyed, attr, mem, override>>
        /\ setting' = setting \ {t} /\ asked' = asked \cup {t}
    BY <1>3 DEF CopyFails, memory
  <2>2. OverrideRemoved' /\ Copying'
    BY <1>t, <2>1 DEF OverrideRemoved, Copying
  <2> QED
    BY <1>t, <2>1, <2>2, QuietStep
<1>4. CASE DisableHeapOverride(t) /\ ~Trap
  <2>1. /\ UNCHANGED <<pc, runs, destroyed, attr, mem, setting>>
        /\ override' = [override EXCEPT ![t] = None] /\ asked' = asked \ {t}
    BY <1>4 DEF DisableHeapOverride, memory
  <2>2. override' \in [Threads -> HeldRec] /\ OverrideRemoved' /\ Copying'
    BY <1>4, <1>t, <2>1 DEF OverrideRemoved, HeldRec, Copying, DisableHeapOverride
  <2> QED
    BY <1>t, <2>1, <2>2, QuietStep
<1>5. CASE Trap
  <2>1. /\ UNCHANGED <<destroyed, attr, mem, setting, override, asked>>
        /\ pc' = [x \in Sockets |-> "trap"] /\ runs' = [u \in Threads |-> None]
    BY <1>5 DEF Trap, memory
  <2>2. TypeOK' /\ RunsOne'
    BY <1>t, <2>1 DEF TypeOK, RunsOne
  <2>3. \A h \in Heaps : h.own \in Sockets
    BY DEF Heaps
  <2>4. HeapsOwned' /\ CopiesLive'
    BY <1>t, <2>1, <2>3 DEF IInv, HeapsOwned, CopiesLive, Away, TypeOK
  <2>5. Levels' /\ WholeLive' /\ OverrideRemoved' /\ Copying'
    BY <2>1 DEF IInv, Levels, Connected, WholeLive, OverrideRemoved, Copying
  <2>6. ASSUME NEW a \in Attrs PROVE Kept(attr[a])'
    <3>1. attr[a].in = "context" => attr[a].own \in Sockets
      BY <1>t DEF TypeOK, Value
    <3> QED
      BY <2>1, <3>1 DEF Kept, Away
  <2> QED
    BY <2>2, <2>4, <2>5, <2>6 DEF IInv
<1> QED
  BY <1>1, <1>2, <1>3, <1>4, <1>5 DEF DisableHeapOverride

(* A copy is in the heap of the thread's override, which is destroyed only *)
(* with its socket.                                                        *)
LEMMA SetCopyStep ==
    ASSUME IInv, NEW t \in Threads, NEW b \in Attrs, NEW main \in BOOLEAN,
           SetCopy(t, b, main)
    PROVE  IInv'
<1>t. /\ TypeOK /\ HeapsOwned /\ OverrideRemoved /\ Copying
      /\ override \in [Threads -> HeldRec] /\ override[t] \in Heaps
      /\ setting \subseteq Threads /\ attr \in [Attrs -> Value]
  BY DEF IInv, TypeOK, HeldRec, Copying, SetCopy
<1> DEFINE v == IF main THEN [in |-> "main"] ELSE InHeap(override[t])
<1>1. /\ UNCHANGED <<pc, runs, asked, mem, destroyed>>
      /\ attr' = [attr EXCEPT ![b] = v] /\ setting' = setting \ {t}
      /\ override' = [override EXCEPT ![t] = None]
  BY DEF SetCopy
<1>2. v \in Value /\ v.in # "context"
  BY <1>t DEF InHeap, Value
<1>3. v.in = "heap" /\ v.lost # "no" =>
          v.lost = "destroyed" /\ v.heap \in destroyed
  BY DEF InHeap
<1> HIDE DEF v
<1>4. attr' \in [Attrs -> Value] /\ attr'[b] = v
      /\ \A a \in Attrs \ {b} : attr'[a] = attr[a]
  BY <1>1, <1>2, <1>t
<1>5. TypeOK' /\ OverrideRemoved' /\ Copying'
  BY <1>1, <1>4, <1>t DEF TypeOK, OverrideRemoved, HeldRec, Copying
<1>6. RunsOne' /\ HeapsOwned' /\ Levels'
  BY <1>1 DEF IInv, RunsOne, HeapsOwned, Levels, Away, Connected
<1>7. CopiesLive' /\ WholeLive'
  BY <1>1, <1>2, <1>3, <1>4 DEF IInv, CopiesLive, WholeLive, HeapsOwned, Away
<1>8. ASSUME NEW a \in Attrs PROVE Kept(attr[a])'
  BY <1>1, <1>2, <1>4 DEF IInv, Kept, BelowStart, BelowSnap, Away, Connected
<1> QED
  BY <1>5, <1>6, <1>7, <1>8 DEF IInv


(* What is not copied lies at the top of the context, which the snapshot   *)
(* taken after the callback will include.                                  *)
LEMMA SetWholeStep ==
    ASSUME IInv, NEW t \in Threads, NEW b \in Attrs, SetWhole(t, b)
    PROVE  IInv'
<1> DEFINE s == runs[t]
           top == IF override[t] = None THEN mem[s].top + 1 ELSE mem[s].top
           v == IF override[t] = None THEN InContext(s) ELSE InHeap(override[t])
<1>t. /\ TypeOK /\ HeapsOwned /\ OverrideRemoved /\ Levels /\ Copying
      /\ s \in Sockets /\ pc[s] \in Kinds /\ mem[s] \in Mem
      /\ override \in [Threads -> HeldRec] /\ attr \in [Attrs -> Value]
      /\ mem \in [Sockets -> Mem] /\ mem[s].top \in Nat
  <2>1. s \in Sockets
    BY DEF IInv, TypeOK, SetWhole, Running
  <2> QED
    BY <2>1 DEF IInv, TypeOK, HeldRec, SetWhole, Running, RunsOne, Mem
<1>1. /\ UNCHANGED <<pc, runs, override, setting, asked, destroyed>>
      /\ attr' = [attr EXCEPT ![b] = v]
      /\ mem' = [mem EXCEPT ![s] = [mem[s] EXCEPT !.update = TRUE, !.top = top]]
  BY <1>t DEF SetWhole, Mem
<1>2. top \in Nat /\ mem[s].top <= top
  BY <1>t
<1>3. /\ v \in Value
      /\ v.in = "context" => /\ v.own = s /\ v.at = mem[s].top /\ v.at < top
                             /\ v.till = Span(pc[s]) /\ v.lost = "no"
      /\ v.in = "heap" /\ v.lost # "no" =>
            v.lost = "destroyed" /\ v.heap \in destroyed
  <2>1. CASE override[t] = None
    <3>1. v = InContext(s) /\ top = mem[s].top + 1
      BY <2>1
    <3>2. Span(pc[s]) \in Spans
      BY DEF Span, Spans
    <3>3. v \in ContextValue /\ v.in = "context"
      BY <3>1, <3>2, <1>t DEF InContext, ContextValue
    <3> QED
      BY <3>1, <3>3, <1>t DEF InContext, ContextValue, Value
  <2>2. CASE override[t] # None
    <3>1. v = InHeap(override[t]) /\ override[t] \in Heaps
      BY <2>2, <1>t DEF HeldRec
    <3> QED
      BY <3>1 DEF InHeap, Value
  <2> QED
    BY <2>1, <2>2
<1> HIDE DEF v, top
<1>4. attr' \in [Attrs -> Value] /\ attr'[b] = v
      /\ \A a \in Attrs \ {b} : attr'[a] = attr[a]
  BY <1>1, <1>3, <1>t
<1>5. /\ mem' \in [Sockets -> Mem]
      /\ \A x \in Sockets : /\ mem'[x].snap = mem[x].snap
                            /\ mem'[x].start = mem[x].start
                            /\ mem'[x].startHeld = mem[x].startHeld
                            /\ mem'[x].held = mem[x].held
                            /\ mem'[x].called = mem[x].called
                            /\ mem[x].update => mem'[x].update
                            /\ mem[x].top <= mem'[x].top
      /\ mem'[s].update /\ mem'[s].top = top
  <2>1. [mem[s] EXCEPT !.update = TRUE, !.top = top] \in Mem
    BY <1>t, <1>2 DEF Mem
  <2>2. mem' \in [Sockets -> Mem]
    BY <1>1, <1>t, <2>1
  <2>3. \A x \in Sockets \ {s} : mem'[x] = mem[x]
    BY <1>1, <1>t
  <2>4. mem'[s] = [mem[s] EXCEPT !.update = TRUE, !.top = top]
    BY <1>1, <1>t
  <2>5. \A x \in Sockets : mem[x].top \in Nat
    BY <1>t DEF Mem
  <2>6. /\ mem'[s].snap = mem[s].snap /\ mem'[s].start = mem[s].start
        /\ mem'[s].startHeld = mem[s].startHeld /\ mem'[s].held = mem[s].held
        /\ mem'[s].called = mem[s].called /\ mem'[s].update /\ mem'[s].top = top
    BY <2>4, <1>t DEF Mem
  <2> QED
    BY <1>2, <2>2, <2>3, <2>5, <2>6
<1>6. TypeOK' /\ OverrideRemoved' /\ Copying'
  BY <1>1, <1>4, <1>5, <1>t DEF TypeOK, OverrideRemoved, Copying
<1>7. RunsOne' /\ HeapsOwned'
  BY <1>1, <1>5 DEF IInv, RunsOne, HeapsOwned, Away
<1>n. \A x \in Sockets : mem[x] \in Mem /\ mem'[x] \in Mem
  BY <1>t, <1>5
<1>8. Levels'
  <2>1. \A x \in Sockets : mem[x].top \in Nat /\ mem'[x].top \in Nat
                             /\ mem[x].snap \in Nat /\ mem[x].start \in Nat
    BY <1>n DEF Mem
  <2> QED
    BY <1>1, <1>5, <1>t, <2>1 DEF Levels, Connected
<1>9. CopiesLive' /\ WholeLive'
  <2>1. CopiesLive'
    BY <1>1, <1>3, <1>4 DEF IInv, CopiesLive, HeapsOwned, Away
  <2>2. WholeLive'
    BY <1>1, <1>3, <1>4 DEF IInv, WholeLive, Span
  <2> QED
    BY <2>1, <2>2
<1>10. ASSUME NEW a \in Attrs PROVE Kept(attr[a])'
  <2>1. CASE a = b
    <3>1. v.in = "context" /\ v.till = "socket" => pc[s] = "created"
      BY <1>3, <1>t DEF Span, Kinds
    <3>2. v.in = "context" /\ v.till = "connection" => pc[s] = "received"
      BY <1>3, <1>t DEF Span, Kinds
    <3>3. mem'[s].start <= mem[s].top
      BY <1>t, <1>5 DEF Levels
    <3> QED
      BY <2>1, <3>1, <3>2, <3>3, <1>1, <1>3, <1>4, <1>5
         DEF Kept, BelowStart, BelowSnap, Connected
  <2>2. CASE a # b
    <3>1. PICK w \in Value : w = attr[a] /\ attr'[a] = w /\ Kept(w)
      BY <2>2, <1>4, <1>t DEF IInv
    <3>2. w.in = "context" => w.own \in Sockets /\ w.at \in Nat
      BY DEF Value
    <3>3. \A x \in Sockets : mem[x].top \in Nat /\ mem'[x].top \in Nat
                               /\ mem[x].snap \in Nat /\ mem[x].start \in Nat
      BY <1>n DEF Mem
    <3>4. Kept(w)'
      BY <3>1, <3>2, <3>3, <1>1, <1>5
         DEF Kept, BelowStart, BelowSnap, Connected, Away
    <3> QED
      BY <3>1, <3>4
  <2> QED
    BY <2>1, <2>2
<1> QED
  BY <1>6, <1>7, <1>8, <1>9, <1>10 DEF IInv


-----------------------------------------------------------------------------
(* Rewinds and what survives them                                          *)

Numbers(m) == m.top \in Nat /\ m.snap \in Nat /\ m.start \in Nat

LEMMA MemNumbers == \A m \in Mem : Numbers(m)
BY DEF Mem, Numbers

(* Steps that assign nothing and destroy no heap.                          *)
LEMMA RewindStep ==
    ASSUME IInv, NEW s \in Sockets, NEW to \in Nat,
           NEW how \in {"rewound", "recycled", "freed"},
           attr' = attr \/ attr' = Rewind(s, to, how),
           UNCHANGED <<override, setting, asked, destroyed>>
    PROVE  /\ attr' \in [Attrs -> Value]
           /\ OverrideRemoved' /\ Copying'
           /\ \A a \in Attrs :
                \/ attr'[a] = attr[a]
                \/ /\ attr[a].in = "context" /\ attr[a].own = s
                   /\ attr[a].lost = "no" /\ attr[a].at >= to
                   /\ attr'[a] = [attr[a] EXCEPT !.lost = how]
                   /\ attr' = Rewind(s, to, how)
<1>1. TypeOK
  BY DEF IInv
<1>2. attr' \in [Attrs -> Value]
  BY <1>1, LosesTypes DEF TypeOK
<1>3. ASSUME NEW a \in Attrs, attr' = Rewind(s, to, how)
      PROVE  \/ attr'[a] = attr[a]
             \/ /\ attr[a].in = "context" /\ attr[a].own = s
                /\ attr[a].lost = "no" /\ attr[a].at >= to
                /\ attr'[a] = [attr[a] EXCEPT !.lost = how]
                /\ attr' = Rewind(s, to, how)
  BY <1>3, <1>1, Loses DEF Rewind, Above
<1> QED
  BY <1>2, <1>3 DEF IInv, OverrideRemoved, Copying

(* A rewind that takes none of what it is to leave.                        *)
LEMMA RewoundStep ==
    ASSUME IInv, NEW s \in Sockets, NEW to \in Nat,
           NEW how \in {"rewound", "recycled", "freed"},
           attr' = attr \/ attr' = Rewind(s, to, how),
           UNCHANGED <<override, setting, asked, destroyed>>,
           TypeOK', RunsOne', HeapsOwned', Levels',
           \A h \in Heaps : Away(h.own) => Away(h.own)',
           \* what a socket keeps of the values it rewinds
           attr' = attr \/ \A v \in ContextValue :
               v.own = s /\ v.lost = "no" /\ v.at >= to /\ Kept(v) =>
                   /\ v.till = "socket" => how = "freed"
                   /\ v.till = "connection" => how # "rewound",
           \A v \in ContextValue :
               Kept(v) /\ v.lost = "no"
                 /\ ~(v.own = s /\ v.at >= to /\ attr' = Rewind(s, to, how))
                 => Kept(v)'
    PROVE  IInv'
<1>1. /\ TypeOK /\ OverrideRemoved' /\ Copying'
      /\ \A a \in Attrs : attr[a] \in Value /\ Kept(attr[a])
  BY RewindStep DEF IInv, TypeOK
<1>r. \A a \in Attrs :
          \/ attr'[a] = attr[a]
          \/ /\ attr[a].in = "context" /\ attr[a].own = s
             /\ attr[a].lost = "no" /\ attr[a].at >= to
             /\ attr'[a] = [attr[a] EXCEPT !.lost = how]
             /\ attr' = Rewind(s, to, how)
  BY RewindStep
<1>2. CopiesLive'
  <2>1. ASSUME NEW a \in Attrs, attr'[a].in = "heap", attr'[a].lost # "no"
        PROVE  attr'[a].lost = "destroyed" /\ attr'[a].heap \in destroyed
                 /\ pc'[attr'[a].heap.own] \in {"retired", "gone", "trap"}
    <3>1. attr'[a] = attr[a]
      <4>1. ([attr[a] EXCEPT !.lost = how]).in = attr[a].in
        BY <1>1 DEF Value
      <4> QED
        BY <2>1, <4>1, <1>r
    <3>2. attr[a].heap \in Heaps
      BY <2>1, <3>1, <1>1 DEF Value
    <3> QED
      BY <2>1, <3>1, <3>2 DEF IInv, CopiesLive, Away
  <2> QED
    BY <2>1 DEF CopiesLive
<1>3. WholeLive' /\ \A a \in Attrs : Kept(attr[a])'
  <2> SUFFICES ASSUME NEW a \in Attrs
               PROVE  /\ attr'[a].in = "context" =>
                           CASE attr'[a].till = "socket" -> attr'[a].lost \in {"no", "freed"}
                             [] attr'[a].till = "connection" -> attr'[a].lost # "rewound"
                             [] attr'[a].till = "callback" -> TRUE
                      /\ Kept(attr[a])'
    BY DEF WholeLive
  <2>1. PICK v \in Value : v = attr[a]
    BY <1>1
  <2>2. /\ Kept(v)
        /\ v.in = "context" => v \in ContextValue /\
              (CASE v.till = "socket" -> v.lost \in {"no", "freed"}
                 [] v.till = "connection" -> v.lost # "rewound"
                 [] v.till = "callback" -> TRUE)
    BY <2>1, <1>1 DEF IInv, WholeLive, Value, ContextValue
  <2> DEFINE rewound == attr' = Rewind(s, to, how)
             taken == v.in = "context" /\ v.own = s /\ v.lost = "no" /\ v.at >= to
  <2>3. CASE attr'[a] = v /\ ~(taken /\ rewound)
    <3>1. Kept(v)'
      <4>1. CASE v.in = "context" /\ v.lost = "no"
        BY <2>2, <2>3, <4>1
      <4> QED
        BY <4>1 DEF Kept
    <3> QED
      BY <2>2, <2>3, <3>1
  <2>4. CASE taken /\ rewound /\ attr'[a] = [v EXCEPT !.lost = how]
    <3>1. PICK w : w = [v EXCEPT !.lost = how]
      OBVIOUS
    <3>2. w.in = "context" /\ w.lost = how /\ w.till = v.till /\ w.till \in Spans
      BY <2>2, <2>4, <3>1 DEF ContextValue
    <3>3. Kept(w)'
      BY <3>2 DEF Kept
    <3>4. /\ v.till = "socket" => how = "freed"
          /\ v.till = "connection" => how # "rewound"
      <4>1. attr' # attr
        BY <2>1, <2>4, <3>1, <3>2
      <4> QED
        BY <2>2, <2>4, <4>1
    <3> QED
      BY <2>4, <3>1, <3>2, <3>3, <3>4 DEF Spans
  <2>5. ~rewound => attr'[a] = v
    BY <2>1
  <2>6. CASE rewound
    <3>1. attr' = [x \in Attrs |-> IF x \in Above(s, to)
                      THEN [attr[x] EXCEPT !.lost = how] ELSE attr[x]]
      BY <2>6 DEF Rewind, Lose
    <3>2. attr'[a] = IF taken THEN [v EXCEPT !.lost = how] ELSE v
      BY <2>1, <3>1 DEF Above
    <3> QED
      BY <2>3, <2>4, <2>6, <3>2
  <2> QED
    BY <2>3, <2>5, <2>6
<1> QED
  BY <1>1, <1>2, <1>3 DEF IInv


-----------------------------------------------------------------------------
(* The callbacks                                                           *)

(* A step of one socket leaves the others as they are.                     *)
LEMMA KeptOfOthers ==
    ASSUME NEW s \in Sockets, NEW v \in ContextValue, Kept(v), v.own # s,
           \A x \in Sockets \ {s} : mem'[x] = mem[x] /\ pc'[x] = pc[x]
    PROVE  Kept(v)'
<1>1. v.own \in Sockets
  BY DEF ContextValue
<1> QED
  BY <1>1 DEF Kept, Away, BelowStart, BelowSnap, Connected

LEMMA LevelsOfOthers ==
    ASSUME Levels, NEW s \in Sockets,
           \A x \in Sockets \ {s} : mem'[x] = mem[x] /\ pc'[x] = pc[x],
           mem'[s].start <= mem'[s].top, mem'[s].snap <= mem'[s].top,
           Connected(s)' => mem'[s].start <= mem'[s].snap
    PROVE  Levels'
<1>1. ASSUME NEW x \in Sockets, x # s
      PROVE  /\ mem'[x].start <= mem'[x].top /\ mem'[x].snap <= mem'[x].top
             /\ Connected(x)' => mem'[x].start <= mem'[x].snap
  BY <1>1 DEF Levels, Connected
<1> QED
  BY <1>1 DEF Levels

LEMMA OwnedStays ==
    ASSUME HeapsOwned, NEW s \in Sockets, TypeOK,
           \A x \in Sockets \ {s} : mem'[x] = mem[x] /\ pc'[x] = pc[x],
           mem'[s].held \in {mem[s].held, mem[s].startHeld},
           mem'[s].startHeld \in {mem[s].held, mem[s].startHeld},
           Away(s) => Away(s)', UNCHANGED destroyed
    PROVE  /\ HeapsOwned'
           /\ \A h \in Heaps : Away(h.own) => Away(h.own)'
<1>1. \A h \in Heaps : h.own \in Sockets
  BY DEF Heaps
<1>2. \A x \in Sockets : Away(x) => Away(x)'
  BY DEF Away
<1>3. \A h \in destroyed' : Away(h.own)'
  BY <1>1, <1>2 DEF HeapsOwned, TypeOK
<1>4. \A x \in Sockets :
          \A h \in {mem'[x].held, mem'[x].startHeld} \ {None} : h.own = x
  BY DEF HeapsOwned
<1> QED
  BY <1>1, <1>2, <1>3, <1>4 DEF HeapsOwned

LEMMA CallStep ==
    ASSUME IInv, NEW t \in Threads, NEW s \in Sockets, NEW k \in Kinds,
           Call(t, s, k)
    PROVE  IInv'
<1> DEFINE at == IF k = "complete" THEN mem[s].snap ELSE mem[s].top
           m == [mem[s] EXCEPT !.top = at,
                               !.snap = IF k = "created" THEN mem[s].snap ELSE at]
<1>t. /\ TypeOK /\ RunsOne /\ HeapsOwned /\ Levels
      /\ mem \in [Sockets -> Mem] /\ mem[s] \in Mem /\ Numbers(mem[s])
      /\ pc \in [Sockets -> Places] /\ runs \in [Threads -> Sockets \cup {None}]
      /\ None \notin Sockets
  BY MemNumbers, AttrAssumption DEF IInv, TypeOK, Places
<1>1. /\ runs[t] = None /\ Starts(s, k)
      /\ runs' = [runs EXCEPT ![t] = s] /\ pc' = [pc EXCEPT ![s] = k]
      /\ mem' = [mem EXCEPT ![s] = m]
      /\ attr' = IF k = "complete" THEN Rewind(s, at, "rewound") ELSE attr
      /\ UNCHANGED <<override, setting, asked, destroyed>>
  BY <1>t DEF Call, Mem
<1>2. at \in Nat /\ m \in Mem
  BY <1>t DEF Numbers, Mem
<1>3. /\ m.top = at /\ m.snap = IF k = "created" THEN mem[s].snap ELSE at
      /\ m.start = mem[s].start /\ m.held = mem[s].held
      /\ m.startHeld = mem[s].startHeld /\ m.update = mem[s].update
      /\ m.called = mem[s].called
  BY <1>t DEF Mem
<1> HIDE DEF m
<1>4. /\ mem'[s] = m /\ pc'[s] = k
      /\ \A x \in Sockets \ {s} : mem'[x] = mem[x] /\ pc'[x] = pc[x]
  BY <1>1, <1>t
<1>5. /\ k = "created" => pc[s] = "new"
      /\ k = "received" => pc[s] \in {"accepting", "receiving"}
      /\ k = "complete" => pc[s] = "sending"
      /\ k \in {"created", "received", "complete"}
  BY <1>1 DEF Starts, Kinds
<1>6. TypeOK'
  <2>1. mem' \in [Sockets -> Mem] /\ pc' \in [Sockets -> Places]
        /\ runs' \in [Threads -> Sockets \cup {None}]
    BY <1>1, <1>2, <1>t DEF Places
  <2>2. attr' \in [Attrs -> Value]
    BY <1>1, <1>2, <1>t, LosesTypes DEF TypeOK
  <2> QED
    BY <1>1, <1>t, <2>1, <2>2 DEF TypeOK, Places
<1>7. RunsOne'
  <2>1. \A u \in Threads : runs[u] # s
    BY <1>5, <1>t DEF RunsOne, Kinds
  <2>2. \A u \in Threads : runs'[u] = IF u = t THEN s ELSE runs[u]
    BY <1>1, <1>t
  <2> QED
    BY <1>4, <1>t, <2>1, <2>2 DEF RunsOne
<1>8. /\ HeapsOwned' /\ \A h \in Heaps : Away(h.own) => Away(h.own)'
  BY <1>1, <1>3, <1>4, <1>5, <1>t, OwnedStays DEF Away
<1>9. Levels'
  <2>1. /\ mem[s].start <= mem[s].top /\ mem[s].snap <= mem[s].top
        /\ k = "complete" => mem[s].start <= mem[s].snap
    BY <1>5, <1>t DEF Levels, Connected
  <2>2. /\ m.start <= m.top /\ m.snap <= m.top
        /\ k # "created" => m.start <= m.snap
    BY <1>3, <1>t, <2>1 DEF Numbers
  <2> QED
    BY <1>4, <1>5, <1>t, <2>2, LevelsOfOthers DEF Connected
<1>10. attr' = attr \/ \A v \in ContextValue :
           v.own = s /\ v.lost = "no" /\ v.at >= at /\ Kept(v) =>
               v.till # "socket" /\ v.till # "connection"
  <2> SUFFICES ASSUME k = "complete", NEW v \in ContextValue, v.own = s,
                      v.lost = "no", v.at >= mem[s].snap, Kept(v)
               PROVE  v.till # "socket" /\ v.till # "connection"
    BY <1>1
  <2>1. mem[s].start <= mem[s].snap /\ pc[s] = "sending"
    BY <1>5, <1>t DEF Levels, Connected
  <2>2. v.at \in Nat /\ v.in = "context"
    BY DEF ContextValue
  <2>3. ~(v.at < mem[s].snap) /\ ~(v.at < mem[s].start)
    BY <1>t, <2>1, <2>2 DEF Numbers
  <2> QED
    BY <2>1, <2>2, <2>3 DEF Kept, Away, BelowStart, BelowSnap
<1>11. ASSUME NEW v \in ContextValue, Kept(v), v.lost = "no" PROVE Kept(v)'
  <2>1. CASE v.own = s
    <3>1. v.at \in Nat /\ v.in = "context"
      BY DEF ContextValue
    <3>2. ~Away(s)
      BY <1>5 DEF Away
    <3>3. v.till = "socket" => mem[s].called /\ v.at < mem[s].start
      BY <1>5, <1>11, <2>1, <3>1, <3>2 DEF Kept, BelowStart
    <3>4. v.till = "connection" =>
              /\ pc[s] \in {"receiving", "sending"}
              /\ mem[s].start <= v.at /\ v.at < mem[s].snap
      BY <1>5, <1>11, <2>1, <3>1, <3>2 DEF Kept, BelowSnap, Connected
    <3>5. mem[s].snap <= mem[s].top
      BY <1>t DEF Levels
    <3>6. v.till = "connection" => /\ k \in {"received", "complete"}
                                   /\ m.start <= v.at /\ v.at < m.snap
      <4>1. CASE k = "complete"
        BY <1>3, <3>4, <4>1
      <4>2. CASE k = "received"
        <5>1. m.snap = mem[s].top /\ m.start = mem[s].start
          BY <1>3, <4>2
        <5> QED
          BY <1>t, <3>1, <3>4, <3>5, <4>2, <5>1 DEF Numbers
      <4>3. CASE k = "created"
        BY <1>5, <3>4, <4>3
      <4> QED
        BY <1>5, <4>1, <4>2, <4>3
    <3>7. v.till = "socket" => BelowStart(v)'
      BY <1>3, <1>4, <2>1, <3>3 DEF BelowStart
    <3>8. v.till = "connection" => BelowSnap(v)'
      BY <1>4, <2>1, <3>6 DEF BelowSnap, Connected
    <3> QED
      BY <3>7, <3>8 DEF Kept
  <2> QED
    BY <1>4, <1>11, <2>1, KeptOfOthers
<1> QED
  BY <1>1, <1>2, <1>6, <1>7, <1>8, <1>9, <1>10, <1>11, RewoundStep


LEMMA LeaveRuns ==
    ASSUME TypeOK, RunsOne, NEW t \in Threads, NEW next \in Places, Running(t),
           Leave(t, next)
    PROVE  /\ RunsOne' /\ runs' \in [Threads -> Sockets \cup {None}]
           /\ pc' \in [Sockets -> Places]
           /\ runs[t] \in Sockets /\ pc[runs[t]] \in Kinds
           /\ pc'[runs[t]] = next
           /\ \A x \in Sockets \ {runs[t]} : pc'[x] = pc[x]
<1>1. /\ runs[t] \in Sockets /\ pc[runs[t]] \in Kinds
      /\ pc \in [Sockets -> Places] /\ runs \in [Threads -> Sockets \cup {None}]
  BY DEF TypeOK, RunsOne, Running, Places
<1>2. /\ pc' = [pc EXCEPT ![runs[t]] = next] /\ runs' = [runs EXCEPT ![t] = None]
  BY DEF Leave
<1>3. \A u \in Threads \ {t} : runs[u] # runs[t]
  BY DEF RunsOne, Running
<1>4. /\ \A u \in Threads : runs'[u] = IF u = t THEN None ELSE runs[u]
      /\ \A x \in Sockets \ {runs[t]} : pc'[x] = pc[x]
  BY <1>1, <1>2
<1>5. RunsOne'
  <2>1. ASSUME NEW u \in Threads, runs'[u] # None
        PROVE  pc'[runs'[u]] \in Kinds
    <3>1. u # t /\ runs'[u] = runs[u] /\ runs[u] \in Sockets /\ runs[u] # runs[t]
      BY <2>1, <1>1, <1>3, <1>4
    <3> QED
      BY <2>1, <3>1, <1>4 DEF RunsOne
  <2> QED
    BY <2>1, <1>4 DEF RunsOne
<1> QED
  BY <1>1, <1>2, <1>4, <1>5

(* client_created() returns, and the startup snapshot is taken anew if it  *)
(* is to keep what was assigned.                                           *)
LEMMA CreatedStep ==
    ASSUME IInv, NEW t \in Threads, Created(t)
    PROVE  IInv'
<1> DEFINE s == runs[t]
           m == IF mem[s].update
                THEN [mem[s] EXCEPT !.update = FALSE, !.start = mem[s].top,
                                    !.startHeld = mem[s].held, !.called = TRUE]
                ELSE mem[s]
<1>t. /\ TypeOK /\ RunsOne /\ HeapsOwned /\ Levels /\ mem \in [Sockets -> Mem]
  BY DEF IInv, TypeOK
<1>1. /\ RunsOne' /\ runs' \in [Threads -> Sockets \cup {None}]
      /\ pc' \in [Sockets -> Places] /\ s \in Sockets
      /\ pc'[s] = "accepting" /\ \A x \in Sockets \ {s} : pc'[x] = pc[x]
  BY <1>t, LeaveRuns DEF Created, Places
<1>2. /\ pc[s] = "created" /\ mem' = [mem EXCEPT ![s] = m]
      /\ UNCHANGED <<override, setting, asked, destroyed, attr>>
  BY <1>t, <1>1 DEF Created, Mem
<1>3. /\ mem[s] \in Mem /\ Numbers(mem[s]) /\ m \in Mem
  BY ZenonT(30), <1>t, <1>1, MemNumbers DEF Mem
<1>4. /\ m.top = mem[s].top /\ m.snap = mem[s].snap /\ m.held = mem[s].held
      /\ m.startHeld \in {mem[s].held, mem[s].startHeld}
      /\ mem[s].update => m.called /\ m.start = mem[s].top
      /\ ~mem[s].update => m = mem[s]
  BY <1>3 DEF Mem
<1> HIDE DEF m
<1>5. mem'[s] = m /\ \A x \in Sockets \ {s} : mem'[x] = mem[x]
  BY <1>1, <1>2, <1>t
<1>6. TypeOK'
  <2>1. mem' \in [Sockets -> Mem]
    BY <1>2, <1>3, <1>t
  <2> QED
    BY <1>1, <1>2, <1>t, <2>1 DEF TypeOK, Places
<1>7. /\ HeapsOwned' /\ \A h \in Heaps : Away(h.own) => Away(h.own)'
  BY <1>1, <1>2, <1>4, <1>5, <1>t, OwnedStays DEF Away
<1>8. Levels'
  <2>1. m.start <= m.top /\ m.snap <= m.top
    BY <1>1, <1>3, <1>4, <1>t DEF Levels, Numbers
  <2> QED
    BY <1>1, <1>5, <1>t, <2>1, LevelsOfOthers DEF Connected
<1>9. ASSUME NEW v \in ContextValue, Kept(v), v.lost = "no" PROVE Kept(v)'
  <2>1. CASE v.own = s
    <3>1. v.at \in Nat /\ v.in = "context" /\ ~Away(s)
      BY <1>2 DEF ContextValue, Away
    <3>2. v.till # "connection"
      BY <1>2, <1>9, <2>1, <3>1 DEF Kept, BelowSnap, Connected
    <3>3. v.till = "socket" => \/ mem[s].update /\ v.at < mem[s].top
                               \/ mem[s].called /\ v.at < mem[s].start
      BY <1>9, <2>1, <3>1 DEF Kept, BelowStart
    <3>4. mem[s].start <= mem[s].top
      BY <1>1, <1>t DEF Levels
    <3>5. v.till = "socket" => m.called /\ v.at < m.start
      <4>1. CASE mem[s].update
        BY <1>3, <1>4, <3>1, <3>3, <3>4, <4>1 DEF Numbers
      <4>2. CASE ~mem[s].update
        BY <1>4, <3>3, <4>2
      <4> QED
        BY <4>1, <4>2
    <3> QED
      BY <1>5, <2>1, <3>2, <3>5 DEF Kept, BelowStart
  <2> QED
    BY <1>1, <1>5, <1>9, <2>1, KeptOfOthers
<1>10. 0 \in Nat /\ "freed" \in {"rewound", "recycled", "freed"}
  OBVIOUS
<1> QED
  BY <1>1, <1>2, <1>6, <1>7, <1>8, <1>9, <1>10, RewoundStep

(* Another callback returns, and what it has allocated is rewound, but for *)
(* what the new snapshot keeps.                                            *)
LEMMA ReturnedStep ==
    ASSUME IInv, NEW t \in Threads, NEW data \in BOOLEAN, Returned(t, data)
    PROVE  IInv'
<1> DEFINE s == runs[t]
           updates == pc[s] # "complete" /\ mem[s].update
           to == IF updates THEN mem[s].top ELSE mem[s].snap
           next == IF data THEN "sending" ELSE "receiving"
           m == [mem[s] EXCEPT !.update = mem[s].update /\ ~updates, !.snap = to,
                               !.top = IF data THEN mem[s].top ELSE to]
<1>t. /\ TypeOK /\ RunsOne /\ HeapsOwned /\ Levels /\ mem \in [Sockets -> Mem]
  BY DEF IInv, TypeOK
<1>1. /\ RunsOne' /\ runs' \in [Threads -> Sockets \cup {None}]
      /\ pc' \in [Sockets -> Places] /\ s \in Sockets
      /\ pc'[s] = next /\ \A x \in Sockets \ {s} : pc'[x] = pc[x]
  BY <1>t, LeaveRuns DEF Returned, Places
<1>2. /\ pc[s] \in {"received", "complete"} /\ mem' = [mem EXCEPT ![s] = m]
      /\ attr' = IF data THEN attr ELSE Rewind(s, to, "rewound")
      /\ UNCHANGED <<override, setting, asked, destroyed>>
  BY <1>t, <1>1 DEF Returned, Mem
<1>3. /\ mem[s] \in Mem /\ Numbers(mem[s]) /\ mem[s].update \in BOOLEAN
  BY <1>t, <1>1, MemNumbers DEF Mem
<1>4. /\ updates \in BOOLEAN /\ to \in Nat
      /\ (mem[s].update /\ ~updates) \in BOOLEAN
      /\ (IF data THEN mem[s].top ELSE to) \in Nat
  BY <1>3 DEF Numbers
<1>5. /\ m \in Mem /\ m.snap = to /\ m.top = IF data THEN mem[s].top ELSE to
      /\ m.start = mem[s].start /\ m.held = mem[s].held
      /\ m.startHeld = mem[s].startHeld /\ m.called = mem[s].called
  <2> HIDE DEF updates, to
  <2>1. PICK b \in BOOLEAN : b = (mem[s].update /\ ~updates)
    BY <1>4
  <2>2. PICK n \in Nat : n = IF data THEN mem[s].top ELSE to
    BY <1>4
  <2>3. m = [mem[s] EXCEPT !.update = b, !.snap = to, !.top = n]
    BY <2>1, <2>2
  <2> HIDE DEF m
  <2> QED
    BY <1>3, <1>4, <2>2, <2>3 DEF Mem
<1>6. /\ mem[s].start <= mem[s].top /\ mem[s].snap <= mem[s].top
      /\ mem[s].start <= mem[s].snap
  BY <1>1, <1>2, <1>t DEF Levels, Connected
<1>7. /\ mem[s].start <= to /\ mem[s].snap <= to /\ to <= mem[s].top
      /\ pc[s] = "received" /\ mem[s].update => to = mem[s].top
  BY <1>3, <1>6 DEF Numbers
<1> HIDE DEF m, to, updates
<1>8. mem'[s] = m /\ \A x \in Sockets \ {s} : mem'[x] = mem[x]
  BY <1>1, <1>2, <1>t
<1>9. TypeOK'
  <2>1. mem' \in [Sockets -> Mem]
    BY <1>2, <1>5, <1>t
  <2>2. attr' \in [Attrs -> Value]
    BY <1>1, <1>2, <1>t, LosesTypes DEF TypeOK
  <2> QED
    BY <1>1, <1>2, <1>t, <2>1, <2>2 DEF TypeOK, Places
<1>10. /\ HeapsOwned' /\ \A h \in Heaps : Away(h.own) => Away(h.own)'
  BY <1>1, <1>2, <1>5, <1>8, <1>t, OwnedStays DEF Away
<1>11. Levels'
  <2>1. m.start <= m.top /\ m.snap <= m.top /\ m.start <= m.snap
    BY <1>3, <1>4, <1>5, <1>6, <1>7 DEF Numbers
  <2> QED
    BY <1>1, <1>8, <1>t, <2>1, LevelsOfOthers DEF Connected
<1>12. ASSUME NEW v \in ContextValue, Kept(v), v.lost = "no", v.own = s
       PROVE  /\ v.at \in Nat /\ v.in = "context"
              /\ v.till = "socket" => mem[s].called /\ v.at < mem[s].start
              /\ v.till = "connection" => mem[s].start <= v.at /\ v.at < to
  <2>1. v.at \in Nat /\ v.in = "context" /\ ~Away(s)
    BY <1>2 DEF ContextValue, Away
  <2>2. v.till = "socket" => mem[s].called /\ v.at < mem[s].start
    BY <1>2, <1>12, <2>1 DEF Kept, BelowStart
  <2>3. v.till = "connection" =>
           /\ mem[s].start <= v.at
           /\ \/ v.at < mem[s].snap
              \/ pc[s] = "received" /\ mem[s].update /\ v.at < mem[s].top
    BY <1>12, <2>1 DEF Kept, BelowSnap
  <2> QED
    BY <1>3, <1>4, <1>7, <2>1, <2>2, <2>3 DEF Numbers
<1>13. ASSUME NEW v \in ContextValue, v.own = s, v.lost = "no", v.at >= to, Kept(v)
       PROVE  v.till # "socket" /\ v.till # "connection"
  BY <1>3, <1>4, <1>7, <1>12, <1>13 DEF Numbers
<1>14. ASSUME NEW v \in ContextValue, Kept(v), v.lost = "no" PROVE Kept(v)'
  <2>1. CASE v.own = s
    BY <1>1, <1>5, <1>8, <1>12, <1>14, <2>1
       DEF Kept, BelowStart, BelowSnap, Connected
  <2> QED
    BY <1>1, <1>8, <1>14, <2>1, KeptOfOthers
<1> QED
  BY <1>1, <1>2, <1>4, <1>9, <1>10, <1>11, <1>13, <1>14, RewoundStep


(* The heap for attributes goes, and with it what was copied there; the    *)
(* socket is of no use any more.                                           *)
LEMMA DestroyStep ==
    ASSUME IInv, NEW s \in Sockets, DestroyHeld(s),
           pc' \in [Sockets -> Places], pc'[s] = "retired",
           \A x \in Sockets \ {s} : pc'[x] = pc[x],
           runs' \in [Threads -> Sockets \cup {None}], RunsOne',
           UNCHANGED <<override, setting, asked>>
    PROVE  IInv'
<1>t. /\ TypeOK /\ HeapsOwned /\ Levels /\ CopiesLive /\ WholeLive
      /\ mem \in [Sockets -> Mem]
      /\ \A a \in Attrs : attr[a] \in Value /\ Kept(attr[a])
  BY DEF IInv, TypeOK
<1>1. TypeOK'
  BY <1>t, DestroyTypes DEF TypeOK, Places
<1>2. /\ mem'[s] = NoMem /\ \A x \in Sockets \ {s} : mem'[x] = mem[x]
      /\ destroyed' = destroyed \cup ({mem[s].held} \ {None})
  BY <1>t DEF DestroyHeld
<1>3. \A a \in Attrs : attr'[a] = IF a \in Within(mem[s].held)
                           THEN [attr[a] EXCEPT !.lost = "destroyed"] ELSE attr[a]
  BY <1>t, Loses DEF DestroyHeld
<1>4. \A h \in Heaps : Away(h.own) => Away(h.own)'
  <2>1. \A h \in Heaps : h.own \in Sockets
    BY DEF Heaps
  <2> QED
    BY <2>1 DEF Away
<1>5. mem[s].held \in Heaps => mem[s].held # None /\ mem[s].held.own = s
  BY <1>t, AttrAssumption DEF HeapsOwned
<1>6. HeapsOwned'
  <2>1. \A h \in destroyed' : Away(h.own)'
    <3>1. \A h \in destroyed : Away(h.own)'
      BY <1>t, <1>4 DEF HeapsOwned, TypeOK
    <3>2. mem[s].held # None => mem[s].held.own = s
      BY <1>t DEF HeapsOwned
    <3> QED
      BY <1>2, <3>1, <3>2 DEF Away
  <2>2. \A x \in Sockets :
            \A h \in {mem'[x].held, mem'[x].startHeld} \ {None} : h.own = x
    BY <1>t, <1>2 DEF HeapsOwned, NoMem
  <2> QED
    BY <2>1, <2>2 DEF HeapsOwned
<1>7. Levels'
  BY <1>t, <1>2, LevelsOfOthers DEF NoMem, Connected
<1>8. ASSUME NEW a \in Attrs, a \in Within(mem[s].held)
      PROVE  /\ attr'[a].in = "heap" /\ attr'[a].lost = "destroyed"
             /\ attr'[a].heap = mem[s].held /\ mem[s].held \in Heaps
  <2>1. attr[a] \in HeapValue /\ attr[a].heap = mem[s].held
    BY <1>8, <1>t DEF Within, Value, HeapValue
  <2> QED
    BY <1>3, <1>8, <2>1 DEF HeapValue
<1>9. CopiesLive'
  <2> SUFFICES ASSUME NEW a \in Attrs, attr'[a].in = "heap", attr'[a].lost # "no"
               PROVE  attr'[a].lost = "destroyed" /\ attr'[a].heap \in destroyed'
                        /\ pc'[attr'[a].heap.own] \in {"retired", "gone", "trap"}
    BY DEF CopiesLive
  <2>1. CASE a \in Within(mem[s].held)
    BY <1>2, <1>5, <1>8, <2>1
  <2>2. CASE a \notin Within(mem[s].held)
    <3>1. attr'[a] = attr[a] /\ attr[a].heap \in Heaps
      BY <1>t, <1>3, <2>2 DEF Value
    <3> QED
      BY <1>t, <1>2, <1>4, <3>1 DEF CopiesLive, Away
  <2> QED
    BY <2>1, <2>2
<1>10. ASSUME NEW a \in Attrs, attr'[a].in = "context"
       PROVE  attr'[a] = attr[a] /\ attr[a] \in ContextValue
  <2>1. attr'[a] = attr[a]
    BY <1>3, <1>8, <1>10
  <2> QED
    BY <1>t, <1>10, <2>1 DEF Value, ContextValue
<1>11. WholeLive'
  BY <1>t, <1>10 DEF WholeLive
<1>12. ASSUME NEW a \in Attrs PROVE Kept(attr[a])'
  <2>1. CASE attr'[a].in = "context"
    <3>1. PICK v \in ContextValue : v = attr[a] /\ attr'[a] = v /\ Kept(v)
      BY <1>t, <1>10, <2>1
    <3>2. Kept(v)'
      <4>1. CASE v.own = s
        BY <4>1 DEF Kept, Away
      <4>2. CASE v.own # s
        BY <1>2, <3>1, <4>2, KeptOfOthers
      <4> QED
        BY <4>1, <4>2
    <3> QED
      BY <3>1, <3>2
  <2>2. CASE attr'[a].in # "context"
    BY <2>2 DEF Kept
  <2> QED
    BY <2>1, <2>2
<1> QED
  BY <1>1, <1>6, <1>7, <1>9, <1>11, <1>12
     DEF IInv, OverrideRemoved, Copying

LEMMA RaisedStep ==
    ASSUME IInv, NEW t \in Threads, Raised(t)
    PROVE  IInv'
<1> DEFINE s == runs[t]
<1>t. /\ TypeOK /\ RunsOne /\ HeapsOwned /\ Levels /\ mem \in [Sockets -> Mem]
      /\ Running(t) /\ UNCHANGED <<override, setting, asked>>
  BY DEF IInv, TypeOK, Raised
<1>1. CASE pc[s] # "complete" /\ Leave(t, "retired") /\ DestroyHeld(s)
  <2>1. /\ RunsOne' /\ runs' \in [Threads -> Sockets \cup {None}]
        /\ pc' \in [Sockets -> Places] /\ s \in Sockets
        /\ pc'[s] = "retired" /\ \A x \in Sockets \ {s} : pc'[x] = pc[x]
    BY <1>1, <1>t, LeaveRuns DEF Places
  <2> QED
    BY <1>1, <1>t, <2>1, DestroyStep
<1>2. CASE pc[s] = "complete" /\ Leave(t, "ended") /\ UNCHANGED memory
  <2>1. /\ RunsOne' /\ runs' \in [Threads -> Sockets \cup {None}]
        /\ pc' \in [Sockets -> Places] /\ s \in Sockets
        /\ pc'[s] = "ended" /\ \A x \in Sockets \ {s} : pc'[x] = pc[x]
    BY <1>2, <1>t, LeaveRuns DEF Places
  <2>2. UNCHANGED <<mem, destroyed, attr>>
    BY <1>2 DEF memory
  <2>3. TypeOK'
    BY <1>t, <2>1, <2>2 DEF TypeOK, Places
  <2>4. /\ HeapsOwned' /\ \A h \in Heaps : Away(h.own) => Away(h.own)'
    BY <1>2, <1>t, <2>1, <2>2, OwnedStays DEF Away
  <2>5. Levels'
    BY <1>2, <1>t, <2>1, <2>2 DEF Levels, Connected
  <2>6. ASSUME NEW v \in ContextValue, Kept(v), v.lost = "no" PROVE Kept(v)'
    <3>1. CASE v.own = s
      BY <1>2, <2>1, <2>2, <2>6, <3>1
         DEF Kept, BelowStart, BelowSnap, Connected, Away
    <3> QED
      BY <2>1, <2>2, <2>6, <3>1, KeptOfOthers
  <2>7. 0 \in Nat /\ "freed" \in {"rewound", "recycled", "freed"}
    OBVIOUS
  <2> QED
    BY <1>t, <2>1, <2>2, <2>3, <2>4, <2>5, <2>6, <2>7, RewoundStep
<1> QED
  BY <1>1, <1>2 DEF Raised

-----------------------------------------------------------------------------
(* The end of a connection                                                 *)

(* What client_created() assigned lies below the startup snapshot, if that *)
(* was taken anew.                                                         *)
LEMMA ReuseStep ==
    ASSUME IInv, NEW s \in Sockets, Reuse(s)
    PROVE  IInv'
<1> DEFINE start == mem[s].start
           next == IF mem[s].called THEN "accepting" ELSE "new"
           m == [mem[s] EXCEPT !.top = start, !.snap = start, !.update = FALSE,
                               !.held = mem[s].startHeld]
<1>t. /\ TypeOK /\ RunsOne /\ HeapsOwned /\ Levels /\ mem \in [Sockets -> Mem]
      /\ pc \in [Sockets -> Places] /\ mem[s] \in Mem /\ Numbers(mem[s])
  BY MemNumbers DEF IInv, TypeOK, Places
<1>1. /\ pc[s] \in {"receiving", "sending"}
      /\ attr' = Rewind(s, start, "recycled")
      /\ mem' = [mem EXCEPT ![s] = m] /\ pc' = [pc EXCEPT ![s] = next]
      /\ UNCHANGED <<runs, override, setting, asked, destroyed>>
  BY <1>t DEF Reuse, Mem
<1>2. /\ m \in Mem /\ start \in Nat /\ m.top = start /\ m.snap = start
      /\ m.start = start /\ m.held = mem[s].startHeld
      /\ m.startHeld = mem[s].startHeld /\ m.called = mem[s].called
  BY <1>t DEF Mem
<1> HIDE DEF m
<1>3. /\ mem'[s] = m /\ pc'[s] = next
      /\ \A x \in Sockets \ {s} : mem'[x] = mem[x] /\ pc'[x] = pc[x]
  BY <1>1, <1>t
<1>4. TypeOK'
  <2>1. mem' \in [Sockets -> Mem] /\ pc' \in [Sockets -> Places]
    BY <1>1, <1>2, <1>t DEF Places
  <2>2. attr' \in [Attrs -> Value]
    BY <1>1, <1>2, <1>t, LosesTypes
  <2> QED
    BY <1>1, <1>t, <2>1, <2>2 DEF TypeOK, Places
<1>5. RunsOne'
  BY <1>1, <1>3, <1>t DEF RunsOne, Kinds, TypeOK
<1>6. /\ HeapsOwned' /\ \A h \in Heaps : Away(h.own) => Away(h.own)'
  BY <1>1, <1>2, <1>3, <1>t, OwnedStays DEF Away
<1>7. Levels'
  <2>1. m.start <= m.top /\ m.snap <= m.top /\ m.start <= m.snap
    BY <1>2
  <2> QED
    BY <1>3, <1>t, <2>1, LevelsOfOthers
<1>8. ASSUME NEW v \in ContextValue, Kept(v), v.lost = "no", v.own = s
      PROVE  /\ v.at \in Nat /\ v.in = "context"
             /\ v.till = "socket" => mem[s].called /\ v.at < start
             /\ v.till = "connection" => start <= v.at
  <2>1. v.at \in Nat /\ v.in = "context" /\ ~Away(s)
    BY <1>1 DEF ContextValue, Away
  <2> QED
    BY <1>1, <1>8, <2>1 DEF Kept, BelowStart, BelowSnap
<1>9. ASSUME NEW v \in ContextValue, v.own = s, v.lost = "no", v.at >= start, Kept(v)
      PROVE  v.till # "socket"
  BY <1>2, <1>8, <1>9
<1>10. ASSUME NEW v \in ContextValue, Kept(v), v.lost = "no",
              ~(v.own = s /\ v.at >= start /\ attr' = Rewind(s, start, "recycled"))
       PROVE  Kept(v)'
  <2>1. CASE v.own = s
    <3>1. ~(v.at >= start)
      BY <1>1, <1>10, <2>1
    <3>2. v.till # "connection"
      BY <1>2, <1>8, <1>10, <2>1, <3>1
    <3> QED
      BY <1>2, <1>3, <1>8, <1>10, <2>1, <3>2 DEF Kept, BelowStart
  <2> QED
    BY <1>3, <1>10, <2>1, KeptOfOthers
<1>11. "recycled" \in {"rewound", "recycled", "freed"}
  OBVIOUS
<1> QED
  BY <1>1, <1>2, <1>4, <1>5, <1>6, <1>7, <1>9, <1>10, <1>11, RewoundStep

LEMMA EndStep ==
    ASSUME IInv, NEW s \in Sockets, Retire(s) \/ Dealloc(s)
    PROVE  IInv'
<1>t. /\ TypeOK /\ RunsOne /\ HeapsOwned /\ Levels
      /\ pc \in [Sockets -> Places] /\ runs \in [Threads -> Sockets \cup {None}]
      /\ None \notin Sockets
  BY AttrAssumption DEF IInv, TypeOK, Places
<1>1. CASE Retire(s)
  <2>1. /\ pc[s] \in {"receiving", "sending", "ended"} /\ DestroyHeld(s)
        /\ pc' = [pc EXCEPT ![s] = "retired"]
        /\ UNCHANGED <<runs, override, setting, asked>>
    BY <1>1 DEF Retire
  <2>2. /\ pc' \in [Sockets -> Places] /\ pc'[s] = "retired"
        /\ \A x \in Sockets \ {s} : pc'[x] = pc[x]
    BY <1>t, <2>1 DEF Places
  <2>3. RunsOne'
    BY <1>t, <2>1, <2>2 DEF RunsOne, Kinds
  <2> QED
    BY <1>t, <2>1, <2>2, <2>3, DestroyStep
<1>2. CASE Dealloc(s)
  <2>1. /\ pc[s] = "retired" /\ attr' = Rewind(s, 0, "freed")
        /\ pc' = [pc EXCEPT ![s] = "gone"]
        /\ UNCHANGED <<runs, override, setting, asked, mem, destroyed>>
    BY <1>2 DEF Dealloc
  <2>2. /\ pc' \in [Sockets -> Places] /\ pc'[s] = "gone"
        /\ \A x \in Sockets \ {s} : pc'[x] = pc[x]
    BY <1>t, <2>1 DEF Places
  <2>3. RunsOne'
    BY <1>t, <2>1, <2>2 DEF RunsOne, Kinds
  <2>4. 0 \in Nat /\ "freed" \in {"rewound", "recycled", "freed"}
    OBVIOUS
  <2>5. TypeOK'
    <3>1. attr' \in [Attrs -> Value]
      BY <1>t, <2>1, <2>4, LosesTypes
    <3> QED
      BY <1>t, <2>1, <2>2, <3>1 DEF TypeOK, Places
  <2>6. /\ HeapsOwned' /\ \A h \in Heaps : Away(h.own) => Away(h.own)'
    BY <1>t, <2>1, <2>2, OwnedStays DEF Away
  <2>7. Levels'
    BY <1>t, <2>1, <2>2 DEF Levels, Connected
  <2>8. ASSUME NEW v \in ContextValue, Kept(v) PROVE Kept(v)'
    <3>1. CASE v.own = s
      BY <2>2, <3>1 DEF Kept, Away
    <3> QED
      BY <2>1, <2>2, <2>8, <3>1, KeptOfOthers
  <2> QED
    BY <2>1, <2>3, <2>4, <2>5, <2>6, <2>7, <2>8, RewoundStep
<1> QED
  BY <1>1, <1>2

-----------------------------------------------------------------------------
(* The theorems                                                            *)

LEMMA IInit == Init => IInv
<1> SUFFICES ASSUME Init PROVE IInv
  OBVIOUS
<1>1. NoMem \in Mem /\ [in |-> "none"] \in Value
  BY DEF NoMem, Mem, Value
<1>2. TypeOK
  BY <1>1 DEF Init, TypeOK
<1>3. RunsOne /\ HeapsOwned /\ OverrideRemoved /\ Copying
  BY <1>2 DEF Init, RunsOne, HeapsOwned, OverrideRemoved, Copying, NoMem
<1>4. Levels
  BY DEF Init, Levels, NoMem, Connected
<1>5. CopiesLive /\ WholeLive /\ \A a \in Attrs : Kept(attr[a])
  BY DEF Init, CopiesLive, WholeLive, Kept
<1> QED
  BY <1>2, <1>3, <1>4, <1>5 DEF IInv

LEMMA IStep == IInv /\ [Next]_vars => IInv'
<1> SUFFICES ASSUME IInv, [Next]_vars PROVE IInv'
  OBVIOUS
<1>1. CASE UNCHANGED vars
  BY <1>1 DEF vars, memory, IInv, TypeOK, RunsOne, HeapsOwned, Levels, Kept,
     BelowStart, BelowSnap, CopiesLive, WholeLive, OverrideRemoved, Copying,
     Away, Connected
<1>2. ASSUME NEW t \in Threads,
             \/ EnableHeapOverride(t) \/ DisableHeapOverride(t)
             \/ BeginCopy(t) \/ CopyFails(t)
      PROVE  IInv'
  BY <1>2, OverrideStep
<1>3. ASSUME NEW t \in Threads, NEW a \in Attrs, NEW main \in BOOLEAN,
             SetCopy(t, a, main)
      PROVE  IInv'
  BY <1>3, SetCopyStep
<1>4. ASSUME NEW t \in Threads, NEW a \in Attrs, SetWhole(t, a) PROVE IInv'
  BY <1>4, SetWholeStep
<1>5. ASSUME NEW t \in Threads, NEW s \in Sockets, NEW k \in Kinds, Call(t, s, k)
      PROVE  IInv'
  BY <1>5, CallStep
<1>6. ASSUME NEW t \in Threads, Created(t) PROVE IInv'
  BY <1>6, CreatedStep
<1>7. ASSUME NEW t \in Threads, NEW data \in BOOLEAN, Returned(t, data)
      PROVE  IInv'
  BY <1>7, ReturnedStep
<1>8. ASSUME NEW t \in Threads, Raised(t) PROVE IInv'
  BY <1>8, RaisedStep
<1>9. ASSUME NEW s \in Sockets, Reuse(s) PROVE IInv'
  BY <1>9, ReuseStep
<1>10. ASSUME NEW s \in Sockets, Retire(s) \/ Dealloc(s) PROVE IInv'
  BY <1>10, EndStep
<1>11. ASSUME NEW t \in Threads, CreateFails(t) PROVE IInv'
  BY <1>1, <1>11 DEF CreateFails
<1> QED
  BY <1>1, <1>2, <1>3, <1>4, <1>5, <1>6, <1>7, <1>8, <1>9, <1>10, <1>11
     DEF Next

(* The inductive invariant holds in every state: a callback runs on one    *)
(* thread, a heap for attributes belongs to the socket that created it and *)
(* is destroyed with it, and what is to be kept of a context lies below    *)
(* the position it is rewound to.                                          *)
THEOREM Invariance == Spec => []IInv
BY IInit, IStep, PTL DEF Spec

(* What a callback assigns to the protocol lasts as long as it is meant    *)
(* to: no rewind and no reuse of a socket takes away what was copied,      *)
(* until the socket is retired, nor what was kept in the heap of the       *)
(* context by a new snapshot.                                              *)
THEOREM AttributesLast == Spec => []ValuesLast
<1>1. IInv => ValuesLast
  BY DEF IInv, ValuesLast
<1> QED
  BY <1>1, Invariance, PTL

(* A heap override does not outlive the assignment it was set for, unless  *)
(* the program has enabled it or the copy has failed.                      *)
THEOREM OverridesRemoved == Spec => []OverrideRemoved
<1>1. IInv => OverrideRemoved
  BY DEF IInv
<1> QED
  BY <1>1, Invariance, PTL

=============================================================================
