------------------------------- MODULE PxTimer -------------------------------
(***************************************************************************)
(* A timer of the async module (src/Objects/pxtimerobject.c): start(),     *)
(* stop(), shutdown() and the period on the main thread, the callback on   *)
(* threads of the pool, with its two heaps that take turns, the shutdown   *)
(* work, and what the run loop does with the errors and the completion.    *)
(***************************************************************************)
EXTENDS Integers, FiniteSets

CONSTANTS
    Pool,        \* threads of the pool
    Periodic,    \* the period is not zero
    MaxCount,    \* bound: the largest value of t->count, a LONGLONG
    MaxQueued,   \* bound: timer callbacks queued at a time
    MaxRefs,     \* references the program takes to the timer, one or more
    Handler,     \* the program has set exception_handler
    Does         \* what the program does, see Deeds

(* The function may raise, start() may be called after shutdown(), and the *)
(* program may let go of the timer after the shutdown callback, rather     *)
(* than before it.                                                         *)
Deeds == {"raise", "restart", "letGoLate"}

NoOne == "noOne"

ASSUME TimerAssumption ==
    /\ IsFiniteSet(Pool) /\ NoOne \notin Pool
    /\ Periodic \in BOOLEAN /\ Handler \in BOOLEAN
    /\ MaxCount \in Nat \ {0} /\ MaxQueued \in Nat \ {0}
    /\ MaxRefs \in Nat \ {0}
    /\ Does \subseteq Deeds

VARIABLES
    once,    \* which of start_once, stop_once and shutdown_once have run
    flags,   \* t->flags
    tp,      \* t->ptp_timer: set? callbacks queued, open?
    cb,      \* where each thread of the pool is in PxTimer_Callback()
    cs,      \* the owner of t->cs, or NoOne
    group,   \* c->h->group, 1 for the heap of the context, 2 for the timer's
    snap,    \* which of the two snapshots are set, that is, have a base
    count,   \* t->count
    data,    \* the group of the heap t->data is in, 0 for Py_None
    reader,  \* the value of t->data the main thread is copying, if it is
    work,    \* where the shutdown work is
    lists,   \* the items of c on the lists of PxState
    refs,    \* Py_REFCNT(t), is it still a parallel object, the program's
    main,    \* where the main thread is, whether it shuts the timer down,
             \* and where it goes on after that
    state    \* "alive", "freed", or "trap"

vars == <<once, flags, tp, cb, cs, group, snap, count, data, reader, work,
          lists, refs, main, state>>
heapVars == <<group, snap, count, data>>

Flags == {"START_REQUESTED", "STARTED", "STOP_REQUESTED", "STOPPED", "RUNNING",
          "SHUTDOWN_REQUESTED", "SHUTDOWN"}
Lists == {"errors", "completed_callbacks", "finished"}

(* pxtimer_alloc() and pxtimer_init(), on the main thread.                 *)
Init ==
    /\ once = {}
    /\ flags = {}
    /\ tp = [set |-> FALSE, queued |-> 0, open |-> TRUE]
    /\ cb = [p \in Pool |-> "none"]
    /\ cs = NoOne
    /\ group = 2 /\ snap = {} /\ count = 0 /\ data = 0
    /\ reader = {}
    /\ work = "none"
    /\ lists = {}
    /\ refs = [cnt |-> 2, px |-> TRUE, program |-> MaxRefs]
    /\ main = [pc |-> "user", shut |-> FALSE, next |-> "user"]
    /\ state = "alive"

Alive == state = "alive"

-----------------------------------------------------------------------------
(* The flags are changed with a read and a write, so that a change is lost *)
(* when another thread reads before it and writes after it.                *)

AtFlags == {"stopping", "locked", "ending"}

CallbackFlags(new) ==
    flags' \in {new} \cup (IF main.pc \in {"starting", "stopping"}
                           THEN {flags} ELSE {})

MainFlags(new) ==
    flags' \in {new} \cup (IF \E p \in Pool : cb[p] \in AtFlags
                           THEN {flags} ELSE {})

-----------------------------------------------------------------------------
(* The threadpool's timer (external)                                       *)

Set(t) == [t EXCEPT !.set = TRUE]

(* SetThreadpoolTimer() without a due time.  The source says that it       *)
(* triggers another callback, the system does not promise one.             *)
Unset(t) == {[t EXCEPT !.set = FALSE, !.queued = q] :
               q \in {t.queued, t.queued + 1} \cap 0..MaxQueued}

Expire ==
    /\ state # "trap" /\ tp.open /\ tp.set /\ tp.queued < MaxQueued
    /\ tp' = [tp EXCEPT !.set = Periodic, !.queued = @ + 1]
    /\ UNCHANGED <<once, flags, cb, cs, heapVars, reader, work, lists, refs,
                   main, state>>

-----------------------------------------------------------------------------
(* PxTimer_Callback(), on a thread of the pool                             *)

CbGoes(p, pc) == cb' = [cb EXCEPT ![p] = pc]
CbOnly == UNCHANGED <<once, heapVars, reader, work, lists, refs, main, state>>

EnterCallback(p) ==
    /\ cb[p] = "none" /\ tp.queued > 0
    /\ tp' = [tp EXCEPT !.queued = @ - 1]
    /\ CbGoes(p, "entered")
    /\ CbOnly /\ UNCHANGED <<flags, cs>>

TestStop(p) ==
    /\ cb[p] = "entered"
    /\ CbGoes(p, IF "STOP_REQUESTED" \in flags THEN "stopping" ELSE "trying")
    /\ CbOnly /\ UNCHANGED <<flags, tp, cs>>

RegisterStop(p) ==
    /\ cb[p] = "stopping" /\ cs = NoOne
    /\ CallbackFlags((flags \cup {"STOPPED"}) \ {"STOP_REQUESTED"})
    /\ CbGoes(p, "none")
    /\ CbOnly /\ UNCHANGED <<tp, cs>>

(* If the one before has not finished this one does nothing.               *)
TryEnter(p) ==
    /\ cb[p] = "trying"
    /\ IF cs = NoOne
       THEN cs' = p /\ CbGoes(p, "locked")
       ELSE cs' = cs /\ CbGoes(p, "none")
    /\ CbOnly /\ UNCHANGED <<flags, tp>>

(* The snapshot of the heap the function will use must not be set yet.     *)
Begin(p) ==
    /\ cb[p] = "locked"
    /\ CallbackFlags((flags \ {"START_REQUESTED"}) \cup {"STARTED", "RUNNING"})
    /\ state' = IF group \in snap THEN "trap" ELSE state
    /\ snap' = snap \cup {group}
    /\ CbGoes(p, "running")
    /\ UNCHANGED <<once, tp, cs, group, count, data, reader, work, lists, refs,
                   main>>

(* Mutant: the result is stored without data_srwlock.                      *)
StoreUnlocked(p, result) ==
    /\ cb[p] = "running"
    /\ data' = result
    /\ CbGoes(p, "stored")
    /\ UNCHANGED <<once, flags, tp, cs, group, snap, count, reader, work, lists,
                   refs, main, state>>

(* The function returns None, or an object it has made.                    *)
StoreData(p, result) ==
    /\ cb[p] = "running" /\ reader = {}
    /\ data' = result
    /\ CbGoes(p, "stored")
    /\ UNCHANGED <<once, flags, tp, cs, group, snap, count, reader, work, lists,
                   refs, main, state>>

(* Mutant: after the counter has wrapped no snapshot is expected.          *)
SwapAfresh(p) ==
    LET next == IF count = MaxCount THEN 1 ELSE count + 1
        prev == 3 - group
    IN  /\ cb[p] = "stored"
        /\ count' = next
        /\ group' = prev
        /\ state' = IF (next = 1) = (prev \in snap) THEN "trap" ELSE state
        /\ snap' = snap \ {prev}
        /\ CbGoes(p, "ending")
        /\ UNCHANGED <<once, flags, tp, cs, data, reader, work, lists, refs,
                       main>>

(* Mutant: the counter does not wrap.                                      *)
SwapUnwrapped(p) ==
    LET prev == 3 - group
    IN  /\ cb[p] = "stored"
        /\ count' = count + 1
        /\ group' = prev
        /\ state' = IF (count = 0) = (prev \in snap) THEN "trap" ELSE state
        /\ snap' = snap \ {prev}
        /\ CbGoes(p, "ending")
        /\ UNCHANGED <<once, flags, tp, cs, data, reader, work, lists, refs,
                       main>>

(* The other heap becomes the active one and is rewound, which only after  *)
(* the first run of all has nothing to rewind.                             *)
Swap(p) ==
    LET prev == 3 - group
    IN  /\ cb[p] = "stored"
        /\ count' = IF count = MaxCount THEN 1 ELSE count + 1
        /\ group' = prev
        /\ state' = IF (count = 0) = (prev \in snap) THEN "trap" ELSE state
        /\ snap' = snap \ {prev}
        /\ CbGoes(p, "ending")
        /\ UNCHANGED <<once, flags, tp, cs, data, reader, work, lists, refs,
                       main>>

(* PxTimer_EXCEPTION(): the exception is fatal, whatever exception_handler *)
(* there is.                                                               *)
Raise(p) ==
    /\ cb[p] = "running" /\ "raise" \in Does
    /\ lists' = lists \cup {"errors"}
    /\ CbGoes(p, "ending")
    /\ UNCHANGED <<once, flags, tp, cs, heapVars, reader, work, refs, main,
                   state>>

End(p) ==
    /\ cb[p] = "ending"
    /\ CallbackFlags(flags \ {"RUNNING"})
    /\ cs' = NoOne
    /\ CbGoes(p, "none")
    /\ CbOnly /\ UNCHANGED tp

-----------------------------------------------------------------------------
(* PxTimer_ShutdownWorkCallback(), on a thread of the pool                 *)

WorkOnly == UNCHANGED <<once, cb, heapVars, reader, main, state>>

(* WaitForThreadpoolTimerCallbacks(): queued callbacks are cancelled, ...  *)
CancelCallbacks ==
    /\ work = "submitted"
    /\ tp' = [tp EXCEPT !.queued = 0]
    /\ work' = "waiting"
    /\ WorkOnly /\ UNCHANGED <<flags, cs, lists, refs>>

(* Mutant: the callbacks are cancelled and not waited for.                 *)
AwaitNone ==
    /\ work = "waiting"
    /\ work' = "closing"
    /\ WorkOnly /\ UNCHANGED <<flags, tp, cs, lists, refs>>

(* ... and others waited for.                                              *)
AwaitCallbacks ==
    /\ work = "waiting" /\ \A p \in Pool : cb[p] = "none"
    /\ work' = "closing"
    /\ WorkOnly /\ UNCHANGED <<flags, tp, cs, lists, refs>>

CloseTimer ==
    /\ work = "closing" /\ cs = NoOne
    /\ tp' = [tp EXCEPT !.set = FALSE, !.open = FALSE]
    /\ refs' = [refs EXCEPT !.cnt = @ - 1, !.px = FALSE]
    /\ flags' = flags \cup {"SHUTDOWN"}
    /\ work' = "completing"
    /\ WorkOnly /\ UNCHANGED <<cs, lists>>

(* Mutant: the completion is not reported.                                 *)
CompleteSilently ==
    /\ work = "completing"
    /\ work' = "done"
    /\ WorkOnly /\ UNCHANGED <<flags, tp, cs, lists, refs>>

CallbackComplete ==
    /\ work = "completing"
    /\ lists' = lists \cup {"completed_callbacks"}
    /\ work' = "done"
    /\ WorkOnly /\ UNCHANGED <<flags, tp, cs, refs>>

-----------------------------------------------------------------------------
(* The main thread                                                         *)

MainGoes(pc) == main' = [main EXCEPT !.pc = pc]
MainOnly == UNCHANGED <<cb, cs, heapVars, work>>
Holds == Alive /\ main.pc = "user" /\ refs.program > 0 /\ reader = {}

(* pxtimer_start(), which does nothing if it has been called since the     *)
(* last stop() that did something.  There is a trap in a system call when  *)
(* the timer is closed.                                                    *)
Start ==
    /\ Holds /\ "start" \notin once
    /\ "restart" \in Does \/ "shutdown" \notin once
    /\ MainGoes("starting")
    /\ MainOnly /\ UNCHANGED <<once, flags, tp, reader, lists, refs, state>>

StartOnce ==
    /\ main.pc = "starting"
    /\ MainFlags(flags \cup {"START_REQUESTED"})
    /\ once' = (once \ {"stop"}) \cup {"start"}
    /\ tp' = IF tp.open THEN Set(tp) ELSE tp
    /\ state' = IF tp.open THEN state ELSE "trap"
    /\ MainGoes("user")
    /\ MainOnly /\ UNCHANGED <<reader, lists, refs>>

(* pxtimer_stop()                                                          *)
Stop ==
    /\ Holds /\ "stop" \notin once
    /\ MainGoes("stopping")
    /\ MainOnly /\ UNCHANGED <<once, flags, tp, reader, lists, refs, state>>

RequestStop ==
    /\ main.pc = "stopping"
    /\ MainFlags(flags \cup {"STOP_REQUESTED"})
    /\ once' = (once \ {"start"}) \cup {"stop"}
    /\ MainGoes("unsetting")
    /\ MainOnly /\ UNCHANGED <<tp, reader, lists, refs, state>>

UnsetTimer ==
    /\ main.pc = "unsetting"
    /\ IF tp.open THEN tp' \in Unset(tp) /\ state' = state
                  ELSE tp' = tp /\ state' = "trap"
    /\ MainGoes(IF main.shut THEN "submitting" ELSE "user")
    /\ MainOnly /\ UNCHANGED <<once, flags, reader, lists, refs>>

(* pxtimer_shutdown(): stops the timer, and submits the shutdown work.     *)
ShutdownTo(next) ==
    IF "shutdown" \in once
    THEN MainGoes(next) /\ UNCHANGED <<once, flags>>
    ELSE /\ once' = once \cup {"shutdown"}
         /\ MainFlags(flags \cup {"SHUTDOWN_REQUESTED"})
         /\ main' = [pc |-> IF "stop" \in once THEN "submitting"
                                                ELSE "stopping",
                     shut |-> TRUE, next |-> next]

Shutdown ==
    /\ Holds /\ "shutdown" \notin once
    /\ ShutdownTo("user")
    /\ MainOnly /\ UNCHANGED <<tp, reader, lists, refs, state>>

SubmitShutdown ==
    /\ main.pc = "submitting"
    /\ work' = "submitted"
    /\ main' = [main EXCEPT !.pc = main.next, !.shut = FALSE]
    /\ UNCHANGED <<once, flags, tp, cb, cs, heapVars, reader, lists, refs,
                   state>>

(* Mutant: a new period sets the timer whether or not it was set.          *)
SetPeriodOfAny ==
    /\ Holds
    /\ MainGoes("setting")
    /\ MainOnly /\ UNCHANGED <<once, flags, tp, reader, lists, refs, state>>

(* pxtimer_set_period() looks whether the timer is set, ...                *)
SetPeriod ==
    /\ Holds /\ tp.set
    /\ MainGoes("setting")
    /\ MainOnly /\ UNCHANGED <<once, flags, tp, reader, lists, refs, state>>

(* ... and sets it again.                                                  *)
SetAgain ==
    /\ main.pc = "setting"
    /\ tp' = IF tp.open THEN Set(tp) ELSE tp
    /\ state' = IF tp.open THEN state ELSE "trap"
    /\ MainGoes("user")
    /\ MainOnly /\ UNCHANGED <<once, flags, reader, lists, refs>>

(* pxtimer_get_data() copies the object, with data_srwlock shared.         *)
GetData ==
    /\ Holds
    /\ reader' = {data}
    /\ MainOnly /\ UNCHANGED <<once, flags, tp, lists, refs, main, state>>

GotData ==
    /\ reader # {}
    /\ reader' = {}
    /\ MainOnly /\ UNCHANGED <<once, flags, tp, lists, refs, main, state>>

(* Py_DECREF(), on the main thread: nothing if t is a parallel object.     *)
Decref(r) == IF r.px THEN r ELSE [r EXCEPT !.cnt = @ - 1]
Dead(r) == ~r.px /\ r.cnt <= 0

LetGo ==
    /\ Holds
    /\ refs.px \/ "letGoLate" \in Does
    /\ LET left == Decref([refs EXCEPT !.program = @ - 1])
       IN  /\ refs' = left
           /\ state' = IF Dead(left) THEN "freed" ELSE state
    /\ MainOnly /\ UNCHANGED <<once, flags, tp, reader, lists, main>>

(* _async_run_once(): the finished contexts, ...                           *)
RunOnce ==
    /\ Alive /\ main.pc = "user" /\ reader = {}
    /\ LET left == IF "finished" \in lists THEN Decref(refs) ELSE refs
       IN  /\ refs' = left
           /\ state' = IF Dead(left) THEN "freed" ELSE state
    /\ lists' = lists \ {"finished"}
    /\ MainGoes("errors")
    /\ MainOnly /\ UNCHANGED <<once, flags, tp, reader>>

(* Mutant: the errors are only printed.                                    *)
PrintErrors ==
    /\ Alive /\ main.pc = "errors"
    /\ lists' = lists \ {"errors"}
    /\ MainGoes("completed")
    /\ MainOnly /\ UNCHANGED <<once, flags, tp, reader, refs, state>>

(* ... the errors, which shut the timer down, ...                          *)
RunErrors ==
    /\ Alive /\ main.pc = "errors"
    /\ lists' = lists \ {"errors"}
    /\ IF "errors" \in lists
       THEN ShutdownTo("completed")
       ELSE MainGoes("completed") /\ UNCHANGED <<once, flags>>
    /\ MainOnly /\ UNCHANGED <<tp, reader, refs, state>>

(* ... and the completed contexts.                                         *)
RunCompleted ==
    /\ Alive /\ main.pc = "completed"
    /\ lists' = IF "completed_callbacks" \in lists
                THEN (lists \ {"completed_callbacks"}) \cup {"finished"}
                ELSE lists
    /\ MainGoes("user")
    /\ MainOnly /\ UNCHANGED <<once, flags, tp, reader, refs, state>>

-----------------------------------------------------------------------------

CallbackStep(p) ==
    /\ state # "trap"
    /\ \/ EnterCallback(p) \/ TestStop(p) \/ RegisterStop(p) \/ TryEnter(p)
       \/ Begin(p) \/ (\E r \in {0, group} : StoreData(p, r)) \/ Swap(p)
       \/ Raise(p) \/ End(p)

WorkStep ==
    /\ state # "trap"
    /\ CancelCallbacks \/ AwaitCallbacks \/ CloseTimer \/ CallbackComplete

MainStep ==
    \/ state # "trap" /\ (StartOnce \/ RequestStop \/ UnsetTimer
                            \/ SubmitShutdown \/ SetAgain \/ GotData)
    \/ RunOnce \/ RunErrors \/ RunCompleted

Choice == Start \/ Stop \/ Shutdown \/ SetPeriod \/ GetData \/ LetGo

Next ==
    \/ \E p \in Pool : CallbackStep(p)
    \/ WorkStep \/ MainStep \/ Choice
    \/ Expire

Spec == Init /\ [][Next]_vars

(* A timer that is set expires.  The pool runs its callbacks and the       *)
(* function returns.  The program is in run(), which goes on as long as    *)
(* the timer is there, whatever the program does between two turns of it.  *)
(* A lock that is let go again and again is given to whom waits for it.    *)
FairSpec ==
    /\ Spec
    /\ WF_vars(MainStep) /\ SF_vars(RunOnce)
    /\ WF_vars(WorkStep) /\ WF_vars(Expire)
    /\ \A p \in Pool : SF_vars(CallbackStep(p))

-----------------------------------------------------------------------------
(* Properties                                                              *)

(* The types of the variables.                                             *)
TypeOK ==
    /\ once \subseteq {"start", "stop", "shutdown"}
    /\ flags \subseteq Flags
    /\ tp \in [set : BOOLEAN, queued : 0..MaxQueued, open : BOOLEAN]
    /\ cb \in [Pool -> {"none", "entered", "trying", "running", "stored"}
                          \cup AtFlags]
    /\ cs \in Pool \cup {NoOne}
    /\ group \in 1..2 /\ snap \subseteq 1..2
    /\ count \in 0..MaxCount /\ data \in 0..2 /\ reader \subseteq 0..2
    /\ work \in {"none", "submitted", "waiting", "closing", "completing",
                 "done"}
    /\ lists \subseteq Lists
    /\ refs \in [cnt : -MaxRefs..2, px : BOOLEAN, program : 0..MaxRefs]
    /\ main \in [pc : {"user", "starting", "stopping", "unsetting",
                       "submitting", "setting", "errors", "completed"},
                 shut : BOOLEAN, next : {"user", "completed"}]
    /\ state \in {"alive", "freed", "trap"}

(* None of the __debugbreak()s of the callback is reached by functions     *)
(* that do not raise, however often they run and however they overlap: the *)
(* two snapshots take turns with the two heaps, also when t->count wraps.  *)
NoTrap == state # "trap"

(* t->data, and what a reader is copying, is in a heap that has not been   *)
(* rewound since the object was made.                                      *)
DataStays == \A d \in ({data} \cup reader) \ {0} : d \in snap

(* The two heaps of the timer are used in turn and nothing of the data is  *)
(* rewound, whichever callbacks overlap, give up or come late.             *)
HeapsTakeTurns == TypeOK /\ NoTrap /\ DataStays

(* When the timer is deallocated no callback is left, running or queued,   *)
(* and its threadpool timer is closed, also for a function that raises or  *)
(* a program that lets go late.  That the completion has been taken off    *)
(* the lists by then holds if the program lets go before the shutdown      *)
(* callback gives up the reference of the parallel object, and that no     *)
(* error is on them if the function does not raise: the code keeps neither *)
(* word otherwise (see HeldAlive and ErrorsAlive).                         *)
Quiet ==
    state = "freed" =>
        /\ \A p \in Pool : cb[p] = "none"
        /\ tp.queued = 0 /\ ~tp.open
        /\ work \in {"completing", "done"}
        /\ "letGoLate" \notin Does => work = "done" /\ lists \subseteq {"errors"}
        /\ "raise" \notin Does => "errors" \notin lists

(* Once stop() has returned no callback is added to those that were queued *)
(* or on their way to the function, whatever attributes are set: so many   *)
(* times at most the function still runs before the timer is started       *)
(* again.  (StopHolds below says that it is not run at all.)               *)
Coming == tp.queued
    + Cardinality({p \in Pool : cb[p] \in {"entered", "trying", "locked"}})
StopSettles ==
    [][once' = once /\ "stop" \in once /\ main.pc # "unsetting"
         => Coming' <= Coming]_vars

(* A timer that is shut down is deallocated in the end, its callbacks      *)
(* running or not.  (If functions raise there may be a trap before that.)  *)
ShutdownEnds == "shutdown" \in once ~> state # "alive"

(* An exception of the function, which nobody else would see, shuts the    *)
(* timer down.                                                             *)
ErrorShutsDown ==
    "errors" \in lists ~> "shutdown" \in once \/ state = "trap"

-----------------------------------------------------------------------------
(* What the source says and the code does not do                           *)

(* "shuts the timer down (a shutdown timer cannot be started again)"       *)
(* (PxTimer_Methods).                                                      *)
NoRestart == [][tp'.set => tp.set \/ "shutdown" \notin once]_vars

(* "This will synchronously trigger another timer callback, which tests    *)
(* for the flag and registers the stop, which we use to indicate that the  *)
(* timer is not and will not run again" (PxTimer_StopOnceCallback).        *)
StopHolds ==
    [][\A p \in Pool : "STOPPED" \in flags /\ "start" \notin once
         => ~(cb[p] = "locked" /\ cb'[p] = "running")]_vars

(* "indicates when the timer will be invoked" (duetime): a timer that was  *)
(* started runs, unless it is stopped or shut down.                        *)
StartRuns == tp.set ~> \/ \E p \in Pool : cb[p] = "running"
                       \/ "start" \notin once

(* "Make sure ... that the underlying snapshot struct is also empty        *)
(* (this_snapshot->base)" (PxTimer_Callback).                              *)
SnapshotEmpty == \A p \in Pool : cb[p] = "locked" => group \notin snap

(* "if set, a function that will be called if the timer encounters an      *)
(* exception during callback execution" (exception_handler): the exception *)
(* is not reported as an uncaught one.                                     *)
ExceptionHandled == Handler => "errors" \notin lists

(* "assert(PyExceptionClass_Check(...item->p1))" (_async_run_once): what   *)
(* is on px->errors still is what was put there.                           *)
ErrorsAlive == "errors" \in lists => state # "freed"

(* "The only real reason to use the reference count is to prevent the      *)
(* object from being deallocated as long as our variable is pointing to    *)
(* it" (Doc/c-api/intro.rst).                                              *)
HeldAlive == refs.program > 0 => state # "freed"

=============================================================================
