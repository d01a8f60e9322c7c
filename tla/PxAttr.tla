------------------------------- MODULE PxAttr -------------------------------
(***************************************************************************)
(* Where the attributes of a protocol live (src/Python/pyparallel.c).  The *)
(* clients of a server share the one protocol object of the server, which  *)
(* belongs to the main thread, and their callbacks run on pool threads.    *)
(* What a callback assigns to an attribute is copied, if its type can be   *)
(* copied, to a heap the socket keeps for that, by way of the heap         *)
(* override of the thread; otherwise it stays in the heap of the context,  *)
(* and the snapshot that is rewound to after the callback is taken anew.   *)
(*                                                                         *)
(* A position in the heap of a context stands for everything a callback    *)
(* allocated up to there; PxHeap has its blocks, and PxSocketIO the ways   *)
(* of the loop from one callback to the next.                              *)
(***************************************************************************)
EXTENDS Integers, FiniteSetsExt

CONSTANTS
    Sockets,    \* the clients of the server
    Threads,    \* the threads of the pool
    Attrs,      \* the attributes assigned to
    None,       \* no heap, no socket
    MaxTop,     \* bound: what lies in the heaps of all contexts at a time
    MaxHeaps    \* bound: the heaps live sockets created for attributes

(* client_created(), connection_made() or data_received(), send_complete() *)
Kinds == {"created", "received", "complete"}

(* The heaps for attributes, each by its socket and its number.            *)
Heaps == [own : Sockets, n : Nat \ {0}]

ASSUME AttrAssumption ==
    /\ None \notin Sockets /\ None \notin Heaps
    /\ MaxTop \in Nat /\ MaxHeaps \in Nat

VARIABLES
    pc,        \* what each socket waits for, or the callback it runs
    runs,      \* the socket whose callback each thread runs
    override,  \* heap_override of each thread
    setting,   \* the threads within _PyObject_GenericSetAttr()
    asked,     \* the threads whose override no assignment is to remove
    mem,       \* of each socket: c->h, c->s, s->heap_override, flags, ...
    destroyed, \* the heaps for attributes that were destroyed
    attr       \* the attributes

memory == <<mem, destroyed, attr>>
vars == <<pc, runs, override, setting, asked, memory>>

(* top: c->h->next.  snap: where c->snapshot was taken.  held:             *)
(* s->heap_override.  made: how many heaps were created for it.  update:   *)
(* SNAPSHOT_UPDATE_SCHEDULED.  start, startHeld, called: the startup       *)
(* snapshot, called for its CALLED_CLIENT_CREATED.                         *)
Mem == [top : Nat, snap : Nat, held : Heaps \cup {None}, made : Nat,
        update : BOOLEAN,
        start : Nat, startHeld : Heaps \cup {None}, called : BOOLEAN]

NoMem == [top |-> 0, snap |-> 0, held |-> None, made |-> 0, update |-> FALSE,
          start |-> 0, startHeld |-> None, called |-> FALSE]

(* How long a value that was not copied is meant to last.                  *)
Spans == {"callback", "connection", "socket"}
Span(k) == CASE k = "created" -> "socket" [] k = "complete" -> "callback"
             [] OTHER -> "connection"

(* What an attribute refers to: nothing, an object of the main thread, or  *)
(* one that lies in a heap for attributes or at a position in the heap of  *)
(* a context, and how its memory was lost, if it was.                      *)
Value == [in : {"none", "main"}]
    \cup [in : {"heap"}, heap : Heaps, lost : {"no", "recycled", "destroyed"}]
    \cup [in : {"context"}, own : Sockets, at : Nat, till : Spans,
          lost : {"no", "rewound", "recycled", "freed"}]

Init ==
    /\ pc = [s \in Sockets |-> "new"]
    /\ runs = [t \in Threads |-> None]
    /\ override = [t \in Threads |-> None]
    /\ setting = {} /\ asked = {} /\ destroyed = {}
    /\ mem = [s \in Sockets |-> NoMem]
    /\ attr = [a \in Attrs |-> [in |-> "none"]]

-----------------------------------------------------------------------------
(* Rewinding and destroying                                                *)

Lose(gone, how) ==
    [a \in Attrs |-> IF a \in gone THEN [attr[a] EXCEPT !.lost = how]
                                   ELSE attr[a]]
Within(h) == {a \in Attrs : attr[a].in = "heap" /\ attr[a].heap = h}
Above(s, to) == {a \in Attrs : /\ attr[a].in = "context" /\ attr[a].own = s
                               /\ attr[a].lost = "no" /\ attr[a].at >= to}

(* _PxContext_Rewind(), to a position.                                     *)
Rewind(s, to, how) == Lose(Above(s, to), how)

(* Px_HEAP_DESTROY(s->heap_override), in PxSocket_Cleanup(), after which   *)
(* no callback uses the memory of the socket.                              *)
DestroyHeld(s) ==
    /\ attr' = Lose(Within(mem[s].held), "destroyed")
    /\ destroyed' = destroyed \cup ({mem[s].held} \ {None})
    /\ mem' = [mem EXCEPT ![s] = NoMem]

-----------------------------------------------------------------------------
(* The heap override                                                       *)

Running(t) == runs[t] # None
Room == MapThenSumSet(LAMBDA s : mem[s].top, Sockets) < MaxTop

(* The socket's heap, which is created when it is first needed.            *)
Creates(s) == mem[s].held = None

HeldOf(s) == IF Creates(s) THEN [own |-> s, n |-> mem[s].made + 1]
                           ELSE mem[s].held
CreateHeld(s) ==
    /\ \/ ~Creates(s)
       \/ MapThenSumSet(LAMBDA x : mem[x].made, Sockets) < MaxHeaps
    /\ mem' = [mem EXCEPT ![s].held = HeldOf(s),
                          ![s].made = IF Creates(s) THEN @ + 1 ELSE @]

(* async.enable_heap_override(): it raises if that of another socket is    *)
(* set, and has nothing to do if this one's is.                            *)
EnableHeapOverride(t) ==
    LET s == runs[t] IN
    /\ Running(t) /\ t \notin setting
    /\ override[t] = None
    /\ CreateHeld(s)
    /\ override' = [override EXCEPT ![t] = HeldOf(s)]
    /\ asked' = asked \cup {t}
    /\ UNCHANGED <<pc, runs, setting, destroyed, attr>>

(* __debugbreak() stops the process.                                       *)
Trap ==
    /\ pc' = [s \in Sockets |-> "trap"]
    /\ runs' = [t \in Threads |-> None]
    /\ UNCHANGED <<override, setting, asked, memory>>

(* async.disable_heap_override(): it traps for that of another socket.     *)
DisableHeapOverride(t) ==
    LET s == runs[t] IN
    /\ Running(t) /\ t \notin setting
    /\ override[t] # None
    /\ \/ mem[s].held # override[t] /\ Trap
       \/ /\ mem[s].held = override[t]
          /\ override' = [override EXCEPT ![t] = None]
          /\ asked' = asked \ {t}
          /\ UNCHANGED <<pc, runs, setting, memory>>

-----------------------------------------------------------------------------
(* _PyObject_GenericSetAttr()                                              *)

InHeap(h) == [in |-> "heap", heap |-> h,
              lost |-> IF h \in destroyed THEN "destroyed" ELSE "no"]
InContext(s) == [in |-> "context", own |-> s, at |-> mem[s].top,
                 till |-> Span(pc[s]), lost |-> "no"]

(* PxSocket_CopyObject(), up to the copy, for a type that has tp_copy.     *)
BeginCopy(t) ==
    LET s == runs[t] IN
    /\ Running(t) /\ t \notin setting
    /\ CreateHeld(s)
    /\ override' = [override EXCEPT ![t] = HeldOf(s)]
    /\ setting' = setting \cup {t}
    /\ asked' = asked \ {t}
    /\ UNCHANGED <<pc, runs, destroyed, attr>>

(* HeapCreate() fails in either of the two: the program sees an exception, *)
(* and the next assignment tries again.                                    *)
CreateFails(t) ==
    /\ Running(t) /\ t \notin setting
    /\ Creates(runs[t])
    /\ UNCHANGED vars

(* There is no memory for the copy: MemoryError, with the override set.    *)
CopyFails(t) ==
    /\ Running(t) /\ t \in setting
    /\ setting' = setting \ {t}
    /\ asked' = asked \cup {t}
    /\ UNCHANGED <<pc, runs, override, memory>>

(* Mutant: the override stays set.                                         *)
SetCopyKeep(t, a, main) ==
    /\ Running(t) /\ t \in setting
    /\ attr' = [attr EXCEPT ![a] = IF main THEN [in |-> "main"]
                                  ELSE InHeap(override[t])]
    /\ setting' = setting \ {t}
    /\ UNCHANGED <<pc, runs, override, asked, mem, destroyed>>

(* The attribute is set, with the override still in force, which is then   *)
(* removed, whoever had set one before.  What belongs to the main thread   *)
(* is not copied.                                                          *)
SetCopy(t, a, main) ==
    /\ Running(t) /\ t \in setting
    /\ attr' = [attr EXCEPT ![a] = IF main THEN [in |-> "main"]
                                  ELSE InHeap(override[t])]
    /\ override' = [override EXCEPT ![t] = None]
    /\ setting' = setting \ {t}
    /\ UNCHANGED <<pc, runs, asked, mem, destroyed>>

(* Mutant: no update of the snapshot is scheduled.                         *)
SetWholeUnscheduled(t, a) ==
    LET s == runs[t] IN
        /\ Running(t) /\ t \notin setting /\ Room
        /\ attr' = [attr EXCEPT ![a] = IF override[t] = None THEN InContext(s)
                                      ELSE InHeap(override[t])]
        /\ mem' = [mem EXCEPT
                     ![s].top = IF override[t] = None THEN @ + 1 ELSE @]
        /\ UNCHANGED <<pc, runs, override, setting, asked, destroyed>>

(* A value that cannot be copied, which the callback has made, stays where *)
(* it is.                                                                  *)
SetWhole(t, a) ==
    LET s == runs[t] IN
        /\ Running(t) /\ t \notin setting /\ Room
        /\ attr' = [attr EXCEPT ![a] = IF override[t] = None THEN InContext(s)
                                      ELSE InHeap(override[t])]
        /\ mem' = [mem EXCEPT ![s].update = TRUE,
                     ![s].top = IF override[t] = None THEN @ + 1 ELSE @]
        /\ UNCHANGED <<pc, runs, override, setting, asked, destroyed>>

-----------------------------------------------------------------------------
(* The callbacks                                                           *)

Starts(s, k) ==
    \/ pc[s] = "new" /\ k = "created"
    \/ pc[s] \in {"accepting", "receiving"} /\ k = "received"
    \/ pc[s] = "sending" /\ k = "complete"

(* The loop calls back.  A send that has completed was rewound before;     *)
(* client_created() has no snapshot.                                       *)
Call(t, s, k) ==
    LET at == IF k = "complete" THEN mem[s].snap ELSE mem[s].top IN
    /\ runs[t] = None /\ Starts(s, k)
    /\ runs' = [runs EXCEPT ![t] = s]
    /\ pc' = [pc EXCEPT ![s] = k]
    /\ mem' = [mem EXCEPT ![s].top = at,
                 ![s].snap = IF k = "created" THEN @ ELSE at]
    /\ attr' = IF k = "complete" THEN Rewind(s, at, "rewound") ELSE attr
    /\ UNCHANGED <<override, setting, asked, destroyed>>

Leave(t, next) ==
    /\ pc' = [pc EXCEPT ![runs[t]] = next]
    /\ runs' = [runs EXCEPT ![t] = None]

(* Mutant: _PxSocket_TakeStartupSnapshot() does not take the heap anew.    *)
CreatedKeepsHeap(t) ==
    LET s == runs[t] IN
    /\ Running(t) /\ t \notin setting /\ pc[s] = "created"
    /\ mem' = [mem EXCEPT ![s].update = FALSE,
            ![s].called = @ \/ mem[s].update,
            ![s].startHeld = IF mem[s].update THEN mem[s].held ELSE @]
    /\ Leave(t, "accepting")
    /\ UNCHANGED <<override, setting, asked, destroyed, attr>>

(* client_created() returns: PxSocket_MaybeUpdateStartupSnapshot(), after  *)
(* CALLED_CLIENT_CREATED was set.                                          *)
Created(t) ==
    LET s == runs[t] IN
    /\ Running(t) /\ t \notin setting /\ pc[s] = "created"
    /\ mem' = IF mem[s].update
              THEN [mem EXCEPT ![s].update = FALSE, ![s].start = mem[s].top,
                               ![s].startHeld = mem[s].held,
                               ![s].called = TRUE]
              ELSE mem
    /\ Leave(t, "accepting")
    /\ UNCHANGED <<override, setting, asked, destroyed, attr>>

(* Another callback returns data to send, or None, and then the heap is    *)
(* rewound at once.  Only connection_made() and data_received() are        *)
(* followed by PxSocket_MaybeUpdateSnapshot().                             *)
Returned(t, data) ==
    LET s == runs[t]
        updates == pc[s] # "complete" /\ mem[s].update
        to == IF updates THEN mem[s].top ELSE mem[s].snap
    IN  /\ Running(t) /\ t \notin setting
        /\ pc[s] \in {"received", "complete"}
        /\ mem' = [mem EXCEPT ![s].update = @ /\ ~updates, ![s].snap = to,
                              ![s].top = IF data THEN @ ELSE to]
        /\ attr' = IF data THEN attr ELSE Rewind(s, to, "rewound")
        /\ Leave(t, IF data THEN "sending" ELSE "receiving")
        /\ UNCHANGED <<override, setting, asked, destroyed>>

(* The callback raises.  The error is fatal, but for send_complete(), and  *)
(* then the socket is cleaned up at once.                                  *)
Raised(t) ==
    LET s == runs[t] IN
    /\ Running(t) /\ t \notin setting
    /\ \/ pc[s] = "complete" /\ Leave(t, "ended") /\ UNCHANGED memory
       \/ pc[s] # "complete" /\ Leave(t, "retired") /\ DestroyHeld(s)
    /\ UNCHANGED <<override, setting, asked>>

-----------------------------------------------------------------------------
(* The end of a connection                                                 *)

(* Mutant: the heap for attributes is destroyed before s is overwritten.   *)
ReuseDestroys(s) ==
    LET start == mem[s].start IN
        /\ pc[s] \in {"receiving", "sending"}
        /\ attr' = Lose(Above(s, start) \cup Within(mem[s].held), "recycled")
        /\ mem' = [mem EXCEPT ![s].top = start, ![s].snap = start,
                              ![s].update = FALSE, ![s].held = mem[s].startHeld]
        /\ pc' = [pc EXCEPT ![s] = IF mem[s].called THEN "accepting" ELSE "new"]
        /\ UNCHANGED <<runs, override, setting, asked, destroyed>>

(* PxSocket_Reuse(), or create_pxsocket() for a socket that exists: the    *)
(* startup snapshot is copied over the socket, its heap_override and its   *)
(* flags included, and the context rewound to it.  Unless the snapshot was *)
(* updated, client_created() will be called again.                         *)
Reuse(s) ==
    LET start == mem[s].start IN
    /\ pc[s] \in {"receiving", "sending"}
    /\ attr' = Rewind(s, start, "recycled")
    /\ mem' = [mem EXCEPT ![s].top = start, ![s].snap = start,
                          ![s].update = FALSE, ![s].held = mem[s].startHeld]
    /\ pc' = [pc EXCEPT ![s] = IF mem[s].called THEN "accepting" ELSE "new"]
    /\ UNCHANGED <<runs, override, setting, asked, destroyed>>

(* The server does not need the socket any more (PxSocketServer_-          *)
(* UnlinkChild()), or the main thread has printed its error.               *)
Retire(s) ==
    /\ pc[s] \in {"receiving", "sending", "ended"}
    /\ DestroyHeld(s)
    /\ pc' = [pc EXCEPT ![s] = "retired"]
    /\ UNCHANGED <<runs, override, setting, asked>>

(* run_once() takes it off px->finished: pxsocket_dealloc().               *)
Dealloc(s) ==
    /\ pc[s] = "retired"
    /\ attr' = Rewind(s, 0, "freed")
    /\ pc' = [pc EXCEPT ![s] = "gone"]
    /\ UNCHANGED <<runs, override, setting, asked, mem, destroyed>>

-----------------------------------------------------------------------------

Next ==
    \/ \E t \in Threads :
         \/ EnableHeapOverride(t) \/ DisableHeapOverride(t)
         \/ BeginCopy(t) \/ CreateFails(t) \/ CopyFails(t)
         \/ \E a \in Attrs, main \in BOOLEAN : SetCopy(t, a, main)
         \/ \E a \in Attrs : SetWhole(t, a)
         \/ \E s \in Sockets, k \in Kinds : Call(t, s, k)
         \/ Created(t) \/ Raised(t)
         \/ \E data \in BOOLEAN : Returned(t, data)
    \/ \E s \in Sockets : Reuse(s) \/ Retire(s) \/ Dealloc(s)

Spec == Init /\ [][Next]_vars

-----------------------------------------------------------------------------
(* Properties                                                              *)

(* The types of the variables; a socket runs a callback on one thread.     *)
TypeOK ==
    /\ pc \in [Sockets -> Kinds \cup {"new", "accepting", "receiving",
                  "sending", "ended", "retired", "gone", "trap"}]
    /\ runs \in [Threads -> Sockets \cup {None}]
    /\ override \in [Threads -> Heaps \cup {None}]
    /\ setting \subseteq Threads /\ asked \subseteq Threads
    /\ destroyed \subseteq Heaps
    /\ mem \in [Sockets -> Mem]
    /\ attr \in [Attrs -> Value]

(* What was copied stays readable, for every client, until the socket that *)
(* copied it is retired or fails: no rewind and no reuse of it takes the   *)
(* memory away.                                                            *)
CopiesLive == \A a \in Attrs :
    attr[a].in = "heap" /\ attr[a].lost # "no" =>
        attr[a].lost = "destroyed" /\ attr[a].heap \in destroyed
           /\ pc[attr[a].heap.own] \in {"retired", "gone", "trap"}

(* What could not be copied is not rewound with the callback that assigned *)
(* it: it lasts as long as the connection, or as long as the socket if     *)
(* client_created() assigned it.  send_complete() is not so careful.       *)
WholeLive == \A a \in Attrs :
    attr[a].in = "context" =>
        CASE attr[a].till = "socket" -> attr[a].lost \in {"no", "freed"}
          [] attr[a].till = "connection" -> attr[a].lost # "rewound"
          [] attr[a].till = "callback" -> TRUE

(* What is assigned to the shared protocol lasts as long as it is meant to.*)
ValuesLast == TypeOK /\ CopiesLive /\ WholeLive

(* No override outlives an assignment, so that a thread allocates from the *)
(* context of the callback it runs, unless the program has enabled one or  *)
(* the copy has failed.                                                    *)
OverrideRemoved == \A t \in Threads :
    override[t] # None => t \in setting \cup asked

-----------------------------------------------------------------------------
(* What comments and docs say and the code does not do                     *)

(* "Could this happen?" is the comment on a heap override that is not that *)
(* of the socket (pyparallel.c:14404).                                     *)
NoTrap == \A s \in Sockets : pc[s] # "trap"

(* "we could assign a scalar to self here ... This would allow persistence *)
(* of state between callbacks" (src/README.md).                            *)
ScalarsPersist == \A a \in Attrs : attr[a].in = "heap" => attr[a].lost = "no"

(* "... to track a higher level protocol state (like POP3)": what a        *)
(* connection assigned is there until it assigns again.                    *)
Owner(v) == IF v.in = "heap" THEN v.heap.own ELSE None
ScalarsOwn == [][\A a \in Attrs, s \in Sockets :
    Owner(attr[a]) = s /\ pc[s] \in {"receiving", "sending"} /\ pc'[s] = pc[s]
        => Owner(attr'[a]) = s]_vars

=============================================================================
