-------------------------------- MODULE PyGil --------------------------------
(***************************************************************************)
(* The global interpreter lock of the main thread and the other ordinary   *)
(* threads of Python (src/Python/ceval_gil.h), on the condition variables  *)
(* that src/Python/condvar.h makes of semaphores, and the checks of the    *)
(* bytecode loop (src/Python/ceval.c): requests to drop the lock and       *)
(* pending calls.  Parallel threads never take the lock; they compare      *)
(* their ids with the one its holder leaves in Py_MainThreadId.            *)
(***************************************************************************)
EXTENDS Integers, FiniteSets

CONSTANTS
    Threads,       \* the threads of Python
    Main,          \* the one that makes the pending calls
    NoThread,      \* a value for no thread
    Calls,         \* calls of Py_AddPendingCall(), each by a thread of its own
    NPENDINGCALLS  \* the slots of the ring of pending calls

ASSUME GilAssumption ==
    /\ Main \in Threads /\ NoThread \notin Threads
    /\ Main \notin Calls /\ NoThread \notin Calls
    /\ IsFiniteSet(Threads)
    /\ NPENDINGCALLS \in Nat \ {0, 1}

VARIABLES
    pc,        \* where each thread is
    again,     \* the threads that take the lock as soon as they dropped it
    locked,    \* gil_locked
    holder,    \* gil_last_holder
    switched,  \* the threads for which gil_switch_number # saved_switchnum
    mutex,     \* the owner of gil_mutex
    cond,      \* gil_cond and switch_cond
    request,   \* gil_drop_request
    todo,      \* pendingcalls_to_do
    breaker,   \* eval_breaker
    computed,  \* what each thread that computes eval_breaker will store
    switchMx,  \* the owner of switch_mutex
    mainId,    \* Py_MainThreadId
    lock,      \* the owner of pending_lock: Main, a call, or NoThread
    slots,     \* pendingcalls: the call each slot was last used for
    first,     \* pendingfirst
    last,      \* pendinglast
    call,      \* what has become of each call
    busy       \* how many calls Py_MakePendingCalls() has begun, 0 if not busy

gilVars == <<again, locked, holder, switched, mutex, cond, mainId>>
flagVars == <<request, todo, breaker, computed>>
ringVars == <<slots, first, last>>
callVars == <<lock, ringVars, call, busy>>
vars == <<pc, gilVars, flagVars, switchMx, callVars>>

Conds == {"gil", "switch"}
Slots == 0..NPENDINGCALLS - 1

(* create_gil(), and PyEval_InitThreads() on the main thread.              *)
Init ==
    /\ pc = [t \in Threads |-> IF t = Main THEN "has" ELSE "idle"]
    /\ again = {}
    /\ locked = TRUE /\ holder = Main /\ switched = {}
    /\ mutex = NoThread /\ switchMx = NoThread
    /\ cond = [c \in Conds |-> [sem |-> 0, waiting |-> 0]]
    /\ request = FALSE /\ todo = FALSE /\ breaker = FALSE
    /\ computed = [t \in Threads |-> FALSE]
    /\ mainId = Main
    /\ slots = [i \in Slots |-> NoThread] /\ first = 0 /\ last = 0
    /\ lock = NoThread /\ busy = 0
    /\ call = [k \in Calls |-> "new"]

Goes(t, place) == pc' = [pc EXCEPT ![t] = place]

-----------------------------------------------------------------------------
(* The condition variables                                                 *)

(* Mutant: the semaphore is taken for an event.                            *)
SignalOnce(v) == IF v.waiting > 0
                 THEN [sem |-> 1, waiting |-> v.waiting - 1]
                 ELSE v

(* PyCOND_SIGNAL(): nothing if no one seems to wait.                       *)
Signal(v) == IF v.waiting > 0
             THEN [sem |-> v.sem + 1, waiting |-> v.waiting - 1]
             ELSE v

StartWait(v) == [v EXCEPT !.waiting = @ + 1]
EndWait(v) == [v EXCEPT !.sem = @ - 1]
(* Mutant: the waiter that has timed out stays counted.                    *)
GiveUpCounted(v) == v

GiveUp(v) == [v EXCEPT !.waiting = @ - 1]

-----------------------------------------------------------------------------
(* take_gil()                                                              *)

(* A thread wants to run Python code (PyEval_RestoreThread()).             *)
Want(t) ==
    /\ pc[t] = "idle"
    /\ Goes(t, "taking")
    /\ UNCHANGED <<gilVars, flagVars, switchMx, callVars>>

(* Mutant: the wait starts without saved_switchnum.                        *)
WaitUnsaved(t, v) ==
    /\ cond' = [cond EXCEPT !["gil"] = IF locked THEN StartWait(v) ELSE v]
    /\ switched' = switched
    /\ mutex' = IF locked THEN NoThread ELSE t
    /\ Goes(t, IF locked THEN "waiting" ELSE "ready")

(* "while (gil_locked)": with gil_mutex, wait for a signal or go on.       *)
WaitOrGo(t, v) ==
    IF locked
    THEN /\ cond' = [cond EXCEPT !["gil"] = StartWait(v)]
         /\ switched' = switched \ {t}
         /\ mutex' = NoThread
         /\ Goes(t, "waiting")
    ELSE /\ cond' = [cond EXCEPT !["gil"] = v]
         /\ switched' = switched
         /\ mutex' = t
         /\ Goes(t, "ready")

LockGil(t) ==
    /\ pc[t] = "taking" /\ mutex = NoThread
    /\ WaitOrGo(t, cond["gil"])
    /\ UNCHANGED <<again, locked, holder, mainId, flagVars, switchMx, callVars>>

(* WaitForSingleObject() of the semaphore of gil_cond ...                  *)
Woken(t) ==
    /\ pc[t] = "waiting" /\ cond["gil"].sem > 0
    /\ cond' = [cond EXCEPT !["gil"] = EndWait(@)]
    /\ Goes(t, "woken")
    /\ UNCHANGED <<again, locked, holder, switched, mutex, mainId, flagVars,
                   switchMx, callVars>>

(* ... for INTERVAL.                                                       *)
TimedOut(t) ==
    /\ pc[t] = "waiting" /\ cond["gil"].sem = 0
    /\ Goes(t, "late")
    /\ UNCHANGED <<gilVars, flagVars, switchMx, callVars>>

(* Mutant: a signal is taken for the lock.                                 *)
LockSignalled(t) ==
    /\ pc[t] \in {"woken", "late"} /\ mutex = NoThread
    /\ IF pc[t] = "woken"
       THEN /\ mutex' = t /\ Goes(t, "ready")
            /\ UNCHANGED <<cond, switched>>
       ELSE WaitOrGo(t, GiveUp(cond["gil"]))
    /\ UNCHANGED <<again, locked, holder, mainId, flagVars, switchMx, callVars>>

(* If nobody has got the lock in that time its holder is asked to drop it. *)
LockAgain(t) ==
    LET late == pc[t] = "late"
        v == IF late THEN GiveUp(cond["gil"]) ELSE cond["gil"]
        ask == late /\ locked /\ t \notin switched
    IN  /\ pc[t] \in {"woken", "late"} /\ mutex = NoThread
        /\ request' = (request \/ ask)
        /\ breaker' = (breaker \/ ask)
        /\ WaitOrGo(t, v)
        /\ UNCHANGED <<again, locked, holder, mainId, todo, computed, switchMx,
                       callVars>>

(* Mutant: the id that is there is kept.                                   *)
NoteFirstId(t) ==
    /\ pc[t] = "ready" /\ switchMx = NoThread
    /\ switchMx' = t
    /\ mainId' = mainId
    /\ Goes(t, "noted")
    /\ UNCHANGED <<again, locked, holder, switched, mutex, cond, flagVars,
                   callVars>>

(* With both mutexes: the thread's id is noted ...                         *)
NoteId(t) ==
    /\ pc[t] = "ready" /\ switchMx = NoThread
    /\ switchMx' = t
    /\ mainId' = t
    /\ Goes(t, "noted")
    /\ UNCHANGED <<again, locked, holder, switched, mutex, cond, flagVars,
                   callVars>>

(* Mutant: switch_cond is not signalled.                                   *)
TakeSilently(t) ==
    /\ pc[t] = "noted"
    /\ locked' = TRUE /\ holder' = t /\ switchMx' = NoThread
    /\ switched' = IF holder = t THEN switched ELSE Threads
    /\ Goes(t, "taken")
    /\ UNCHANGED <<again, mutex, cond, mainId, flagVars, callVars>>

(* ... before the lock is taken and whoever waits for the switch signalled.*)
TakeGil(t) ==
    /\ pc[t] = "noted"
    /\ locked' = TRUE
    /\ holder' = t
    /\ switched' = IF holder = t THEN switched ELSE Threads
    /\ cond' = [cond EXCEPT !["switch"] = Signal(@)]
    /\ switchMx' = NoThread
    /\ Goes(t, "taken")
    /\ UNCHANGED <<again, mutex, mainId, flagVars, callVars>>

(* RESET_GIL_DROP_REQUEST(), up to the store of eval_breaker.              *)
ResetRequest(t) ==
    /\ request' = FALSE
    /\ computed' = [computed EXCEPT ![t] = todo]
    /\ UNCHANGED <<todo, breaker>>

TestReset(t) ==
    /\ pc[t] = "taken" /\ request
    /\ ResetRequest(t)
    /\ Goes(t, "storing")
    /\ UNCHANGED <<gilVars, switchMx, callVars>>

StoreBreaker(t) ==
    /\ pc[t] = "storing"
    /\ breaker' = computed[t]
    /\ mutex' = NoThread
    /\ Goes(t, "has")
    /\ UNCHANGED <<again, locked, holder, switched, cond, mainId, request, todo,
                   computed, switchMx, callVars>>

UnlockGil(t) ==
    /\ pc[t] = "taken" /\ ~request
    /\ mutex' = NoThread
    /\ Goes(t, "has")
    /\ UNCHANGED <<again, locked, holder, switched, cond, mainId, flagVars,
                   switchMx, callVars>>

-----------------------------------------------------------------------------
(* drop_gil()                                                              *)

(* PyEval_SaveThread(): the thread blocks, or ends.                        *)
Release(t) ==
    /\ pc[t] = "has"
    /\ Goes(t, "dropping")
    /\ UNCHANGED <<gilVars, flagVars, switchMx, callVars>>

(* The bytecode loop finds eval_breaker set and has, on this thread and at *)
(* this time, no pending calls to make.                                    *)
Check(t) ==
    /\ pc[t] = "has" /\ breaker
    /\ ~(t = Main /\ todo /\ busy = 0)
    /\ Goes(t, "checked")
    /\ UNCHANGED <<gilVars, flagVars, switchMx, callVars>>

(* After that, and after pending calls, it "gives another thread a chance" *)
(* if there is a request, whatever eval_breaker is by now, ...             *)
Yield(t) ==
    /\ pc[t] = "checked" /\ request
    /\ again' = again \cup {t}
    /\ Goes(t, "dropping")
    /\ UNCHANGED <<locked, holder, switched, mutex, cond, mainId, flagVars,
                   switchMx, callVars>>

(* ... and goes on if there is none.                                       *)
CarryOn(t) ==
    /\ pc[t] = "checked" /\ ~request
    /\ Goes(t, "has")
    /\ UNCHANGED <<gilVars, flagVars, switchMx, callVars>>

(* Mutant: there is no last holder once the lock is free.                  *)
DropToNobody(t) ==
    /\ pc[t] = "dropping" /\ mutex = NoThread
    /\ holder' = NoThread /\ locked' = FALSE
    /\ cond' = [cond EXCEPT !["gil"] = Signal(@)]
    /\ Goes(t, "dropped")
    /\ UNCHANGED <<again, switched, mutex, mainId, flagVars, switchMx, callVars>>

DropGil(t) ==
    /\ pc[t] = "dropping" /\ mutex = NoThread
    /\ holder' = t
    /\ locked' = FALSE
    /\ cond' = [cond EXCEPT !["gil"] = Signal(@)]
    /\ Goes(t, "dropped")
    /\ UNCHANGED <<again, switched, mutex, mainId, flagVars, switchMx, callVars>>

(* What follows drop_gil().                                                *)
Return(t) ==
    /\ Goes(t, IF t \in again THEN "taking" ELSE "idle")
    /\ again' = again \ {t}

TestRequest(t) ==
    /\ pc[t] = "dropped"
    /\ IF request
       THEN Goes(t, "switching") /\ again' = again
       ELSE Return(t)
    /\ UNCHANGED <<locked, holder, switched, mutex, cond, mainId, flagVars,
                   switchMx, callVars>>

TestSwitch(t) ==
    /\ pc[t] = "switching" /\ switchMx = NoThread
    /\ IF holder = t
       THEN /\ switchMx' = t
            /\ ResetRequest(t)
            /\ Goes(t, "resetting") /\ again' = again
       ELSE Return(t) /\ UNCHANGED <<flagVars, switchMx>>
    /\ UNCHANGED <<locked, holder, switched, mutex, cond, mainId, callVars>>

(* Mutant: the wait keeps switch_mutex.                                    *)
AwaitWithMutex(t) ==
    /\ pc[t] = "resetting"
    /\ breaker' = computed[t]
    /\ cond' = [cond EXCEPT !["switch"] = StartWait(@)]
    /\ Goes(t, "awaiting")
    /\ UNCHANGED <<again, locked, holder, switched, mutex, mainId, request, todo,
                   computed, switchMx, callVars>>

AwaitSwitch(t) ==
    /\ pc[t] = "resetting"
    /\ breaker' = computed[t]
    /\ cond' = [cond EXCEPT !["switch"] = StartWait(@)]
    /\ switchMx' = NoThread
    /\ Goes(t, "awaiting")
    /\ UNCHANGED <<again, locked, holder, switched, mutex, mainId, request, todo,
                   computed, callVars>>

(* The wait is over with the first signal, whoever it was meant for.       *)
Switched(t) ==
    /\ pc[t] = "awaiting" /\ cond["switch"].sem > 0 /\ switchMx = NoThread
    /\ cond' = [cond EXCEPT !["switch"] = EndWait(@)]
    /\ Return(t)
    /\ UNCHANGED <<locked, holder, switched, mutex, mainId, flagVars, switchMx,
                   callVars>>

-----------------------------------------------------------------------------
(* Pending calls                                                           *)

(* (i + 1) % NPENDINGCALLS, for the index of a slot.                       *)
NextSlot(i) == IF i + 1 = NPENDINGCALLS THEN 0 ELSE i + 1

(* Put(k) stores the call and moves pendinglast.                           *)
Put(k) ==
    /\ slots' = [slots EXCEPT ![last] = k]
    /\ last' = NextSlot(last)
    /\ call' = [call EXCEPT ![k] = "queued"]

(* Mutant: the ring is used to its last slot.                              *)
AddToFull(k) ==
    /\ call[k] = "new" /\ lock = NoThread
    /\ lock' = k
    /\ Put(k)
    /\ UNCHANGED <<pc, gilVars, flagVars, switchMx, first, busy>>

(* Py_AddPendingCall(), which tries for the lock a limited number of times *)
(* and keeps a slot free: when the ring is full the next one is the first. *)
AddPendingCall(k) ==
    /\ call[k] = "new"
    /\ lock' = IF lock = NoThread THEN k ELSE lock
    /\ IF lock # NoThread \/ NextSlot(last) = first
       THEN call' = [call EXCEPT ![k] = "refused"] /\ UNCHANGED <<slots, last>>
       ELSE Put(k)
    /\ UNCHANGED <<pc, gilVars, flagVars, switchMx, first, busy>>

(* SIGNAL_PENDING_CALLS(), also if the ring is full.                       *)
SignalCalls(k) ==
    /\ lock = k
    /\ todo' = TRUE /\ breaker' = TRUE
    /\ lock' = NoThread
    /\ UNCHANGED <<pc, gilVars, request, computed, switchMx, ringVars, call,
                   busy>>

(* Py_MakePendingCalls(), which the bytecode loop of the main thread calls *)
(* but not from within one of the calls.                                   *)
MakePendingCalls ==
    /\ pc[Main] = "has" /\ breaker /\ todo /\ busy = 0
    /\ Goes(Main, "popping")
    /\ UNCHANGED <<gilVars, flagVars, switchMx, callVars>>

(* Mutant: the flag is cleared whatever the ring still holds.              *)
PopAndClear ==
    /\ pc[Main] = "popping" /\ lock = NoThread
    /\ lock' = Main
    /\ first' = IF first = last THEN first ELSE NextSlot(first)
    /\ call' = IF first = last THEN call
               ELSE [call EXCEPT ![slots[first]] = "popped"]
    /\ todo' = FALSE
    /\ computed' = [computed EXCEPT ![Main] = request]
    /\ Goes(Main, "popped")
    /\ UNCHANGED <<gilVars, request, breaker, switchMx, slots, last, busy>>

(* With pending_lock: the first call is taken off the ring, and the flag   *)
(* says if there are more.                                                 *)
PopCall ==
    LET empty == first = last
        next == IF empty THEN first ELSE NextSlot(first)
    IN  /\ pc[Main] = "popping" /\ lock = NoThread
        /\ lock' = Main
        /\ first' = next
        /\ call' = IF empty THEN call
                   ELSE [call EXCEPT ![slots[first]] = "popped"]
        /\ todo' = (next # last)
        /\ computed' = [computed EXCEPT ![Main] = request \/ next # last]
        /\ Goes(Main, "popped")
        /\ UNCHANGED <<gilVars, request, breaker, switchMx, slots, last, busy>>

Popped == {k \in Calls : call[k] = "popped"}

(* The call, if there was one, is made after the lock was released.        *)
BeginCall ==
    /\ pc[Main] = "popped"
    /\ breaker' = computed[Main]
    /\ lock' = NoThread
    /\ busy' = IF Popped = {} THEN 0 ELSE busy + 1
    /\ call' = [k \in Calls |-> IF k \in Popped THEN "running" ELSE call[k]]
    /\ Goes(Main, IF Popped = {} THEN "checked" ELSE "has")
    /\ UNCHANGED <<gilVars, request, todo, computed, switchMx, ringVars>>

(* Mutant: "busy" is left as it is, so that calls are taken to be made.    *)
EndBusy(result) ==
    /\ pc[Main] = "has" /\ busy > 0
    /\ call' = [k \in Calls |-> IF call[k] = "running" THEN "made"
                                ELSE call[k]]
    /\ Goes(Main, IF result < 0 THEN "has"
                  ELSE IF result # 0 \/ busy = NPENDINGCALLS THEN "checked"
                  ELSE "popping")
    /\ UNCHANGED <<gilVars, flagVars, switchMx, lock, ringVars, busy>>

(* A call may run Python code, and release the lock in between.  The next  *)
(* one follows, unless its result is not zero or they were as many as the  *)
(* ring has slots.  A negative result is an exception for the bytecode.    *)
EndCall(result) ==
    LET over == result # 0 \/ busy = NPENDINGCALLS
    IN  /\ pc[Main] = "has" /\ busy > 0
        /\ call' = [k \in Calls |-> IF call[k] = "running" THEN "made"
                                    ELSE call[k]]
        /\ busy' = IF over THEN 0 ELSE busy
        /\ Goes(Main, IF result < 0 THEN "has"
                      ELSE IF over THEN "checked" ELSE "popping")
        /\ UNCHANGED <<gilVars, flagVars, switchMx, lock, ringVars>>

-----------------------------------------------------------------------------

TakeStep(t) ==
    \/ LockGil(t) \/ Woken(t) \/ TimedOut(t) \/ LockAgain(t)
    \/ NoteId(t) \/ TakeGil(t)
    \/ TestReset(t) \/ StoreBreaker(t) \/ UnlockGil(t)
DropStep(t) ==
    \/ DropGil(t) \/ TestRequest(t) \/ TestSwitch(t) \/ AwaitSwitch(t)
    \/ Switched(t)
MakeStep ==
    \/ MakePendingCalls \/ PopCall \/ BeginCall
    \/ \E result \in {-1, 0, 1} : EndCall(result)

ThreadStep(t) ==
    \/ TakeStep(t) \/ DropStep(t) \/ Check(t) \/ Yield(t) \/ CarryOn(t)
    \/ t = Main /\ MakeStep

Next ==
    \/ \E t \in Threads : ThreadStep(t) \/ Want(t) \/ Release(t)
    \/ \E k \in Calls : AddPendingCall(k) \/ SignalCalls(k)

Spec == Init /\ [][Next]_vars

(* A thread that waits for a mutex or a semaphore that is released again   *)
(* and again gets it, the wait for the lock has its limit, the bytecode    *)
(* loop gets to its next check and the pending calls return.  Nobody has   *)
(* to want the lock or to release it.                                      *)
Fairness ==
    /\ \A t \in Threads : SF_vars(ThreadStep(t))
    /\ SF_vars(MakeStep)
    /\ \A k \in Calls : WF_vars(SignalCalls(k))

FairSpec == Spec /\ Fairness

-----------------------------------------------------------------------------
(* Properties                                                              *)

Taking == {"ready", "noted", "taken", "storing"}
Making == {"popping", "popped"}
Running == {"has", "checked", "dropping"} \cup Making
Dropping == {"dropped", "switching", "resetting", "awaiting"}
Waiting == {"waiting", "woken", "late"}

(* The types of the variables.                                             *)
TypeOK ==
    /\ pc \in [Threads -> {"idle", "taking"} \cup Waiting \cup Taking
                             \cup Running \cup Dropping]
    /\ again \subseteq Threads /\ switched \subseteq Threads
    /\ locked \in BOOLEAN /\ holder \in Threads
    /\ mutex \in Threads \cup {NoThread}
    /\ switchMx \in Threads \cup {NoThread}
    /\ cond \in [Conds -> [sem : Nat, waiting : Int]]
    /\ request \in BOOLEAN /\ todo \in BOOLEAN /\ breaker \in BOOLEAN
    /\ computed \in [Threads -> BOOLEAN]
    /\ mainId \in Threads
    /\ lock \in Calls \cup {Main, NoThread}
    /\ slots \in [Slots -> Calls \cup {NoThread}]
    /\ first \in Slots /\ last \in Slots
    /\ call \in [Calls -> {"new", "refused", "queued", "popped", "running",
                           "made"}]
    /\ busy \in 0..NPENDINGCALLS

(* Only one thread runs Python code, and Py_MainThreadId is its id: what   *)
(* it does it never takes for the work of a parallel thread, and while it  *)
(* runs no other ordinary thread passes for the main thread.               *)
Inside(t) == pc[t] \in Running \cup {"taken", "storing"}
OneHolder ==
    /\ \A t \in Threads : Inside(t) => locked /\ holder = t /\ mainId = t
    /\ locked => \E t \in Threads : Inside(t)

(* The variables have their types, the semaphores no negative count, and   *)
(* one thread at most has the lock.                                        *)
GilSound == TypeOK /\ OneHolder

(* The count of each semaphore and "waiting" add up to the threads that    *)
(* wait or have given up and not yet said so: the race of a timeout with a *)
(* signal leaves at worst a signal too many, never one too few, and the    *)
(* count never exceeds the number of threads.                              *)
At(places) == {t \in Threads : pc[t] \in places}
WaitersOf(c) == IF c = "gil" THEN At({"waiting", "late"})
                             ELSE At({"awaiting"})
Counted == \A c \in Conds :
    /\ cond[c].sem + cond[c].waiting = Cardinality(WaitersOf(c))
    /\ cond[c].sem <= Cardinality(Threads)

(* No wakeup is lost: if the lock is free and a thread waits for it, there *)
(* is a signal to take or another thread about to look at the lock.        *)
NoLostWakeup ==
    ~locked /\ At({"waiting"}) # {} =>
        \/ cond["gil"].sem > 0
        \/ At({"woken", "late", "ready", "noted"}) # {}

(* A pending call in the ring is known to pendingcalls_to_do, or the       *)
(* thread that has put it there has yet to say so.                         *)
CallsSignalled == first # last => todo \/ lock \in Calls

(* The slots that hold calls that are yet to be made.                      *)
InUse == {i \in Slots : IF first <= last THEN first <= i /\ i < last
                                         ELSE first <= i \/ i < last}

(* A call is in one slot of the ring from the moment it was accepted until *)
(* the main thread takes it off, wherever the ring wraps, and at most one  *)
(* at a time is being made, by the thread that holds the lock.             *)
CallsKept ==
    /\ \A k \in Calls : call[k] = "queued" <=>
         Cardinality({i \in InUse : slots[i] = k}) = 1
    /\ Cardinality({k \in Calls : call[k] \in {"popped", "running"}}) <= 1

(* A call that was accepted is on the ring until it is taken off to be     *)
(* made, and whoever looks at pendingcalls_to_do knows.                    *)
CallsHeld == CallsSignalled /\ CallsKept

(* Who holds the lock while another thread wants it drops it in the end,   *)
(* although the computation of eval_breaker can lose the request.          *)
Wants(t) == pc[t] \in {"taking", "ready", "noted"} \cup Waiting
Yields == \A t \in Threads :
    Inside(t) /\ (\E u \in Threads : Wants(u)) ~> ~Inside(t)

(* A free lock that a thread wants is taken by one.                        *)
FreeIsTaken == ~locked /\ (\E t \in Threads : Wants(t)) ~> locked

(* drop_gil() returns: who waits for the switch is not left behind, even   *)
(* if another thread takes the signal meant for it.                        *)
DropReturns == \A t \in Threads : pc[t] \in Dropping ~> pc[t] \notin Dropping

(* The lock goes from thread to thread, and none is stuck in between.      *)
LockMoves == Yields /\ FreeIsTaken /\ DropReturns

(* The calls that were accepted are made, if only the main thread finds    *)
(* eval_breaker set again and again.                                       *)
Accepted == {k \in Calls : call[k] \in {"queued", "popped", "running"}}
CallsMade == []<>(pc[Main] = "has" /\ breaker) =>
    (Accepted # {} ~> Accepted = {})

-----------------------------------------------------------------------------
(* What comments and docs say and the code does not do                     *)

(* "When a thread releases the GIL and gil_drop_request is set, that       *)
(* thread ensures that another GIL-awaiting thread gets scheduled"         *)
(* (ceval_gil.h).                                                          *)
SwitchForced ==
    [][\A t \in Threads : pc[t] = "awaiting" /\ pc'[t] # "awaiting"
         => holder # t]_vars

(* "When successfully queued, func will be *eventually* called from the    *)
(* main interpreter thread" (Doc/c-api/init.rst), which here runs bytecode *)
(* all the time.                                                           *)
MainRuns == <>[](pc[Main] = "has")
CallsEventuallyMade == MainRuns => (Accepted # {} ~> Accepted = {})

=============================================================================
