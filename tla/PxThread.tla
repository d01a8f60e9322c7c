------------------------------- MODULE PxThread -------------------------------
(***************************************************************************)
(* A thread of the async module (src/Objects/pxthreadobject.c): start(),   *)
(* suspend(), resume(), shutdown(), func, interval and data on the main    *)
(* thread, PxThread_Main() with its two heaps that take turns on a thread  *)
(* of its own, the shutdown work on a thread of the pool, and the errors   *)
(* that the run loop takes for a reason to shut the thread down.           *)
(***************************************************************************)
EXTENDS Integers, FiniteSets

CONSTANTS
    MaxCount,   \* bound: the largest value of t->count, a LONGLONG
    MaxSuspend  \* bound: calls of suspend() without effect of a resume()

ASSUME ThreadAssumption ==
    /\ MaxCount \in Nat \ {0}
    /\ MaxSuspend \in Nat \ {0}

VARIABLES
    once,      \* which of start_once and shutdown_once have run
    susp,      \* the suspend count of t->thread_handle
    func,      \* c->func is set
    interval,  \* t->interval is not zero
    pc,        \* where the thread is in PxThread_Main()
    group,     \* c->h->group, 1 for the heap of the context, 2 for the thread's
    prev,      \* the group of prev_snapshot, 0 when uninitialised
    snap,      \* which of the two snapshots are set, that is, have a base
    count,     \* t->count
    data,      \* the group of the heap t->data is in, 0 for Py_None
    reader,    \* the value of t->data the main thread is copying, if it is
    event,     \* t->shutdown_event, an auto-reset event
    work,      \* where the shutdown work is
    errors,    \* c->error is on px->errors
    main,      \* where the main thread is
    misused,   \* a function has raised, or func was changed after start()
    trap       \* the __debugbreak() that has stopped the process, if one has

heapVars == <<group, prev, snap, count, data>>
flagVars == <<once, susp, func, interval, event, misused>>
vars == <<flagVars, pc, heapVars, reader, work, errors, main, trap>>

(* pxthread_alloc(), and pxthread_init(), which makes the thread suspended.*)
Init ==
    /\ once = {} /\ susp = 1
    /\ func = FALSE /\ interval = FALSE
    /\ pc = "begin"
    /\ group = 2 /\ prev = 0 /\ snap = {} /\ count = 0 /\ data = 0
    /\ reader = {}
    /\ event = FALSE /\ work = "none" /\ errors = FALSE
    /\ main = "user"
    /\ misused = FALSE /\ trap = "none"

Runs == trap = "none"

-----------------------------------------------------------------------------
(* PxThread_Main()                                                         *)

At(place) == Runs /\ susp = 0 /\ pc = place
ThreadOnly == UNCHANGED <<once, susp, func, interval, reader, work, main>>

(* A round begins.  The snapshot of the heap the function will use must    *)
(* not be set.                                                             *)
BeginRound ==
    /\ At("begin") /\ func
    /\ prev' = 3 - group
    /\ trap' = IF group \in snap THEN "round" ELSE trap
    /\ snap' = snap \cup {group}
    /\ pc' = "running"
    /\ ThreadOnly /\ UNCHANGED <<group, count, data, event, errors, misused>>

SkipRound ==
    /\ At("begin") /\ ~func
    /\ pc' = "stored"
    /\ ThreadOnly /\ UNCHANGED <<heapVars, event, errors, misused, trap>>

(* PxThread_EXCEPTION(): the exception is fatal, whatever exception_handler*)
(* there is, and the heaps do not take turns.                              *)
Raise ==
    /\ At("running")
    /\ errors' = TRUE /\ misused' = TRUE
    /\ pc' = "ending"
    /\ ThreadOnly /\ UNCHANGED <<heapVars, event, trap>>

(* Mutant: the result is stored without data_srwlock.                      *)
LockNothing ==
    /\ At("running")
    /\ pc' = "storing"
    /\ ThreadOnly /\ UNCHANGED <<heapVars, event, errors, misused, trap>>

(* The function returns, and its result is stored with data_srwlock.       *)
LockData ==
    /\ At("running") /\ reader = {}
    /\ pc' = "storing"
    /\ ThreadOnly /\ UNCHANGED <<heapVars, event, errors, misused, trap>>

StoreData(result) ==
    /\ At("storing")
    /\ data' = result
    /\ pc' = "stored"
    /\ ThreadOnly
    /\ UNCHANGED <<group, prev, snap, count, event, errors, misused, trap>>

(* Mutant: the counter does not wrap.                                      *)
SwapUnwrapped ==
    /\ At("stored")
    /\ count' = count + 1
    /\ group' = 3 - group
    /\ pc' = IF count = 0 THEN "swappedFirst" ELSE "swapped"
    /\ ThreadOnly /\ UNCHANGED <<prev, snap, data, event, errors, misused, trap>>

(* Mutant: it wraps to the value it had before the first round.            *)
SwapAfresh ==
    /\ At("stored")
    /\ count' = IF count = MaxCount THEN 0 ELSE count + 1
    /\ group' = 3 - group
    /\ pc' = IF count = 0 THEN "swappedFirst" ELSE "swapped"
    /\ ThreadOnly /\ UNCHANGED <<prev, snap, data, event, errors, misused, trap>>

(* The other heap becomes the active one.                                  *)
Swap ==
    /\ At("stored")
    /\ count' = IF count = MaxCount THEN 1 ELSE count + 1
    /\ group' = 3 - group
    /\ pc' = IF count = 0 THEN "swappedFirst" ELSE "swapped"
    /\ ThreadOnly /\ UNCHANGED <<prev, snap, data, event, errors, misused, trap>>

(* It is rewound, which only after the first round of all has nothing to   *)
(* rewind; if func was set in the middle of the round prev_snapshot is not *)
(* the snapshot of that heap, or has no value yet: what is read through it *)
(* may then be zero or not, and rewinding to it stops the process.         *)
Rewind ==
    /\ \/ At("swappedFirst") /\ trap' \in IF prev \in snap THEN {"round"}
                                          ELSE IF prev = 0 THEN {"round", trap}
                                          ELSE {trap}
       \/ At("swapped") /\ trap' = IF prev \notin snap \/ prev # group
                                   THEN "round" ELSE trap
    /\ func
    /\ snap' = snap \ {prev}
    /\ pc' = "ending"
    /\ ThreadOnly /\ UNCHANGED <<group, prev, count, data, event, errors, misused>>

SkipRewind ==
    /\ At("swapped") \/ At("swappedFirst")
    /\ ~func
    /\ pc' = "ending"
    /\ ThreadOnly /\ UNCHANGED <<heapVars, event, errors, misused, trap>>

(* Without an interval the thread ends, ...                                *)
EndRounds ==
    /\ At("ending")
    /\ pc' = IF interval THEN "waiting" ELSE "exited"
    /\ ThreadOnly /\ UNCHANGED <<heapVars, event, errors, misused, trap>>

(* ... with one it waits for the shutdown for so long.                     *)
TimeOut ==
    /\ At("waiting") /\ ~event
    /\ pc' = "begin"
    /\ ThreadOnly /\ UNCHANGED <<heapVars, event, errors, misused, trap>>

HearShutdown ==
    /\ At("waiting") /\ event
    /\ event' = FALSE
    /\ pc' = "exited"
    /\ ThreadOnly /\ UNCHANGED <<heapVars, errors, misused, trap>>

-----------------------------------------------------------------------------
(* PxThread_ShutdownWorkCallback(), on a thread of the pool                *)

WorkOnly == UNCHANGED <<once, susp, func, interval, misused, pc, heapVars,
                        reader, errors, main>>

(* Mutant: the thread is not told.                                         *)
AwaitUntold ==
    /\ Runs /\ work = "submitted"
    /\ work' = "waiting"
    /\ WorkOnly /\ UNCHANGED <<event, trap>>

SignalShutdown ==
    /\ Runs /\ work = "submitted"
    /\ event' = TRUE
    /\ work' = "waiting"
    /\ WorkOnly /\ UNCHANGED trap

AwaitThread ==
    /\ Runs /\ work = "waiting" /\ pc = "exited"
    /\ work' = "updating"
    /\ WorkOnly /\ UNCHANGED <<event, trap>>

(* PxThread_UpdateTimes() must be called on the thread itself, and is not. *)
UpdateTimes ==
    /\ Runs /\ work = "updating"
    /\ trap' = "times"
    /\ WorkOnly /\ UNCHANGED <<event, work>>

-----------------------------------------------------------------------------
(* The main thread                                                         *)

User == Runs /\ main = "user" /\ reader = {}
MainOnly == UNCHANGED <<pc, heapVars, event, trap>>

(* pxthread_set_func() drops the function there was, if any, ...           *)
SetFunc ==
    /\ User
    /\ func' = FALSE
    /\ misused' = (misused \/ "start" \in once)
    /\ main' = "settingFunc"
    /\ MainOnly
    /\ UNCHANGED <<once, susp, interval, reader, work, errors>>

(* ... and stores the new one.                                             *)
StoreFunc ==
    /\ Runs /\ main = "settingFunc"
    /\ func' = TRUE
    /\ main' = "user"
    /\ MainOnly
    /\ UNCHANGED <<once, susp, interval, misused, reader, work, errors>>

(* pxthread_set_interval()                                                 *)
SetInterval(ms) ==
    /\ User
    /\ interval' = ms
    /\ MainOnly
    /\ UNCHANGED <<once, susp, func, misused, reader, work, errors, main>>

Resumed(n) == IF n = 0 THEN 0 ELSE n - 1

(* pxthread_start() and pxthread_resume(): whichever comes first resumes   *)
(* the thread, the others do nothing.                                      *)
Start ==
    /\ User /\ "start" \notin once
    /\ once' = once \cup {"start"}
    /\ susp' = Resumed(susp)
    /\ MainOnly
    /\ UNCHANGED <<func, interval, misused, reader, work, errors, main>>

(* If ResumeThread() fails the exception goes to px->errors, and as the    *)
(* callback of start_once says so, start() or resume() may try again.      *)
StartFails ==
    /\ User /\ "start" \notin once
    /\ errors' = TRUE
    /\ MainOnly
    /\ UNCHANGED <<once, susp, func, interval, misused, reader, work, main>>

(* pxthread_suspend(), wherever the thread is; one that has ended cannot be*)
(* suspended.                                                              *)
Suspend ==
    /\ User /\ pc # "exited" /\ susp < MaxSuspend
    /\ susp' = susp + 1
    /\ MainOnly
    /\ UNCHANGED <<once, func, interval, misused, reader, work, errors, main>>

(* pxthread_shutdown()                                                     *)
ShutdownOnce ==
    IF "shutdown" \in once
    THEN UNCHANGED <<once, work>>
    ELSE once' = once \cup {"shutdown"} /\ work' = "submitted"

Shutdown ==
    /\ User /\ "shutdown" \notin once
    /\ ShutdownOnce
    /\ MainOnly
    /\ UNCHANGED <<susp, func, interval, misused, reader, errors, main>>

(* pxthread_get_data() waits for data_srwlock, ...                         *)
GetData ==
    /\ User
    /\ main' = "gettingData"
    /\ MainOnly
    /\ UNCHANGED <<once, susp, func, interval, misused, reader, work, errors>>

(* ... copies the object, and lets the lock go.                            *)
LockShared ==
    /\ Runs /\ main = "gettingData" /\ pc # "storing"
    /\ reader' = {data}
    /\ main' = "user"
    /\ MainOnly
    /\ UNCHANGED <<once, susp, func, interval, misused, work, errors>>

GotData ==
    /\ Runs /\ reader # {}
    /\ reader' = {}
    /\ MainOnly
    /\ UNCHANGED <<once, susp, func, interval, misused, work, errors, main>>

(* Mutant: the errors are only printed.                                    *)
PrintErrors ==
    /\ User
    /\ errors' = FALSE
    /\ MainOnly
    /\ UNCHANGED <<once, susp, func, interval, misused, reader, work, main>>

(* _async_run_once() prints uncaught errors and shuts the thread down.     *)
RunErrors ==
    /\ User /\ errors
    /\ errors' = FALSE
    /\ ShutdownOnce
    /\ MainOnly
    /\ UNCHANGED <<susp, func, interval, misused, reader, main>>

-----------------------------------------------------------------------------

ThreadStep ==
    \/ BeginRound \/ SkipRound \/ Raise \/ LockData
    \/ \E result \in {0, group} : StoreData(result)
    \/ Swap \/ Rewind \/ SkipRewind \/ EndRounds \/ TimeOut \/ HearShutdown
WorkStep == SignalShutdown \/ AwaitThread \/ UpdateTimes
MainStep == StoreFunc \/ LockShared \/ GotData \/ RunErrors
Choice == \/ SetFunc \/ (\E ms \in BOOLEAN : SetInterval(ms)) \/ Start
          \/ StartFails \/ Suspend \/ Shutdown \/ GetData

Next == ThreadStep \/ WorkStep \/ MainStep \/ Choice

Spec == Init /\ [][Next]_vars

(* The system runs a thread that is not suspended and the work of the pool.*)
(* The function returns.  The program is in run() again and again, and the *)
(* lock on the data is given to a reader in the end.                       *)
FairSpec ==
    /\ Spec
    /\ SF_vars(ThreadStep) /\ WF_vars(WorkStep)
    /\ WF_vars(StoreFunc) /\ SF_vars(LockShared) /\ WF_vars(GotData)
    /\ SF_vars(RunErrors)

-----------------------------------------------------------------------------
(* Properties                                                              *)

(* The types of the variables.                                             *)
TypeOK ==
    /\ once \subseteq {"start", "shutdown"} /\ susp \in 0..MaxSuspend
    /\ func \in BOOLEAN /\ interval \in BOOLEAN
    /\ pc \in {"begin", "running", "storing", "stored", "swappedFirst",
               "swapped", "ending", "waiting", "exited"}
    /\ group \in 1..2 /\ prev \in 0..2 /\ snap \subseteq 1..2
    /\ count \in 0..MaxCount /\ data \in 0..2
    /\ reader \subseteq 0..2 /\ Cardinality(reader) <= 1
    /\ event \in BOOLEAN
    /\ work \in {"none", "submitted", "waiting", "updating"}
    /\ errors \in BOOLEAN /\ main \in {"user", "settingFunc", "gettingData"}
    /\ misused \in BOOLEAN /\ trap \in {"none", "round", "times"}

(* None of the __debugbreak()s of a round is reached by functions that do  *)
(* not raise, set before the thread is started: the two snapshots take    *)
(* turns with the two heaps, wherever the thread is suspended, however     *)
(* often the interval is changed, and also when t->count wraps.            *)
RoundsSound == trap = "round" => misused

(* With such functions t->data, and what a reader is copying, is in a heap *)
(* that has not been rewound since the object was made.                    *)
DataStays == ~misused => \A d \in ({data} \cup reader) \ {0} : d \in snap

(* The two heaps of the thread are used in turn and nothing of the data is *)
(* rewound, wherever the thread is suspended.                              *)
HeapsTakeTurns == TypeOK /\ RoundsSound /\ DataStays

(* A shutdown ends a thread that waits for its interval or will do so, and *)
(* the event that tells it is not lost to an earlier wait, unless the      *)
(* thread never runs again because it is suspended.                        *)
ShutdownHeard == work = "waiting" ~> pc = "exited" \/ susp > 0 \/ ~Runs

(* An exception of the function, which nobody else would see, shuts the    *)
(* thread down, and so does a start() that failed, unless the thread was   *)
(* suspended: with data_srwlock, for which the main thread may wait.       *)
ErrorShutsDown == errors ~> "shutdown" \in once \/ susp > 0 \/ ~Runs

-----------------------------------------------------------------------------
(* What the source says and the code does not do                           *)

(* "if (t->thread_id != GetCurrentThreadId()) __debugbreak();"             *)
(* (PxThread_UpdateTimes).                                                 *)
TimesOnThread == trap # "times"

(* "when accessed, a read-lock is automatically obtained" (data): reading  *)
(* the data comes to an end.                                               *)
DataRead == main = "gettingData" ~> main = "user" \/ ~Runs

=============================================================================
