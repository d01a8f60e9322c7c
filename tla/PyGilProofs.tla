----------------------------- MODULE PyGilProofs -----------------------------
(***************************************************************************)
(* Proofs about the global interpreter lock of PyGil, for any number of    *)
(* threads and of pending calls: there is one holder, whose id is the one  *)
(* parallel threads compare with, the semaphores account for who waits, no *)
(* wakeup is lost and every pending call is signalled.                     *)
(***************************************************************************)
EXTENDS PyGil, TLAPS, FiniteSetTheorems

CondType == [sem : Nat, waiting : Int]

(* The operations of a condition variable keep its type.                   *)
LEMMA CondTypes ==
    ASSUME NEW v \in CondType
    PROVE  /\ Signal(v) \in CondType
           /\ StartWait(v) \in CondType
           /\ GiveUp(v) \in CondType
           /\ v.sem > 0 => EndWait(v) \in CondType
<1>1. v.sem \in Nat /\ v.waiting \in Int
  BY DEF CondType
<1>2. Signal(v) \in CondType
  BY <1>1 DEF CondType, Signal
<1>3. StartWait(v) = [v EXCEPT !.waiting = v.waiting + 1]
  BY DEF StartWait
<1>4. GiveUp(v) = [v EXCEPT !.waiting = v.waiting - 1]
  BY DEF GiveUp
<1>5. EndWait(v) = [v EXCEPT !.sem = v.sem - 1]
  BY DEF EndWait
<1> QED
  BY <1>1, <1>2, <1>3, <1>4, <1>5 DEF CondType

(* Only the main thread makes pending calls, and while it takes the next   *)
(* one off the ring it has begun fewer than the ring has slots.            *)
OnlyMainMakes ==
    /\ \A t \in Threads : pc[t] \in Making => t = Main
    /\ pc[Main] \in Making => busy < NPENDINGCALLS

Typed == TypeOK /\ OnlyMainMakes

LEMMA TypedInit == Init => Typed
<1> SUFFICES ASSUME Init PROVE Typed
  OBVIOUS
<1> USE GilAssumption DEF Init
<1>1. cond \in [Conds -> [sem : Nat, waiting : Int]]
  OBVIOUS
<1>2. OnlyMainMakes
  BY DEF OnlyMainMakes, Making
<1>3. pc \in [Threads -> {"idle", "has"}]
  OBVIOUS
<1>4. slots \in [Slots -> Calls \cup {NoThread}] /\ 0 \in Slots
  BY DEF Slots
<1>5. /\ call \in [Calls -> {"new"}]
      /\ computed \in [Threads -> BOOLEAN]
      /\ busy \in 0..NPENDINGCALLS
  OBVIOUS
<1> QED
  BY <1>1, <1>2, <1>3, <1>4, <1>5 DEF Typed, TypeOK, Running

(* The index of the slot after a slot is one of another slot.              *)
LEMMA NextIsSlot ==
    \A i \in Slots : NextSlot(i) \in Slots /\ NextSlot(i) # i
BY GilAssumption DEF Slots, NextSlot

(* A thread that goes on, but not to a pending call, which is what taking  *)
(* and dropping the lock are made of.                                      *)
Apart == {"idle", "taking"} \cup Waiting \cup Taking \cup Dropping
LEMMA GoesApart ==
    ASSUME Typed, NEW t \in Threads, NEW place \in Apart, Goes(t, place),
           busy' = busy
    PROVE  /\ pc' \in [Threads -> {"idle", "taking"} \cup Waiting \cup Taking
                                    \cup Running \cup Dropping]
           /\ OnlyMainMakes'
<1> USE DEF Typed, TypeOK, Goes, Apart, Running
<1>1. pc' \in [Threads -> {"idle", "taking"} \cup Waiting \cup Taking
                          \cup Running \cup Dropping]
  OBVIOUS
<1>2. place \notin Making
  BY DEF Waiting, Taking, Dropping, Making
<1>3. \A u \in Threads : pc'[u] \in Making => pc[u] \in Making
  BY <1>2
<1> QED
  BY <1>1, <1>3, GilAssumption DEF OnlyMainMakes

LEMMA TypedStep == Typed /\ [Next]_vars => Typed'
<1> SUFFICES ASSUME Typed, [Next]_vars PROVE Typed'
  OBVIOUS
<1>c. /\ cond \in [Conds -> CondType]
      /\ cond["gil"] \in CondType /\ cond["switch"] \in CondType
  BY DEF Typed, TypeOK, CondType, Conds
<1> USE GilAssumption DEF Typed, TypeOK, OnlyMainMakes, Goes, Making, Running,
        Taking, Dropping, Waiting
<1>1. ASSUME NEW t \in Threads, TakeStep(t) PROVE Typed'
  <2>1. CASE LockGil(t)
    <3>1. cond' \in [Conds -> CondType]
      BY <1>c, <2>1, CondTypes DEF LockGil, WaitOrGo, Conds
    <3>2. QED
      <4>1. PICK place \in {"waiting", "ready"} : Goes(t, place)
        BY <2>1 DEF LockGil, WaitOrGo
      <4>2. busy' = busy /\ place \in Apart
        BY <2>1 DEF LockGil, callVars, Apart
      <4> HIDE DEF Goes, OnlyMainMakes
      <4> QED
        BY <2>1, <3>1, <4>1, <4>2, GoesApart
           DEF LockGil, WaitOrGo, CondType, flagVars, callVars, ringVars
  <2>2. CASE Woken(t)
    <3>1. cond' \in [Conds -> CondType]
      BY <1>c, <2>2, CondTypes DEF Woken, Conds
    <3>2. QED
      BY <2>2, <3>1 DEF Woken, CondType, flagVars, callVars, ringVars
  <2>3. CASE TimedOut(t)
    BY <2>3 DEF TimedOut, gilVars, flagVars, callVars, ringVars
  <2>4. CASE LockAgain(t)
    <3>1. cond' \in [Conds -> CondType]
      BY <1>c, <2>4, CondTypes DEF LockAgain, WaitOrGo, Conds
    <3>2. QED
      <4>1. PICK place \in {"waiting", "ready"} : Goes(t, place)
        BY <2>4 DEF LockAgain, WaitOrGo
      <4>2. busy' = busy /\ place \in Apart
        BY <2>4 DEF LockAgain, callVars, Apart
      <4> HIDE DEF Goes, OnlyMainMakes
      <4> QED
        BY <2>4, <3>1, <4>1, <4>2, GoesApart
           DEF LockAgain, WaitOrGo, CondType, callVars, ringVars
  <2>5. CASE TakeGil(t)
    <3>1. cond' \in [Conds -> CondType]
      BY <1>c, <2>5, CondTypes DEF TakeGil, Conds
    <3>2. QED
      BY <2>5, <3>1 DEF TakeGil, flagVars, callVars, ringVars, CondType
  <2>6. CASE NoteId(t)
    <3>1. Goes(t, "noted") /\ busy' = busy /\ "noted" \in Apart
      BY <2>6 DEF NoteId, callVars, Apart
    <3> HIDE DEF Goes, OnlyMainMakes
    <3> QED
      BY <2>6, <3>1, GoesApart DEF NoteId, flagVars, callVars, ringVars
  <2>7. CASE StoreBreaker(t)
    BY <2>7 DEF StoreBreaker, callVars, ringVars
  <2>8. CASE UnlockGil(t)
    BY <2>8 DEF UnlockGil, flagVars, callVars, ringVars
  <2>9. CASE TestReset(t)
    BY <2>9 DEF TestReset, ResetRequest, gilVars, flagVars, callVars,
                ringVars
  <2> QED
    BY <1>1, <2>1, <2>2, <2>3, <2>4, <2>5, <2>6, <2>7, <2>8, <2>9
       DEF TakeStep
<1>2. ASSUME NEW t \in Threads, DropStep(t) PROVE Typed'
  <2>1. CASE DropGil(t)
    <3>1. cond' \in [Conds -> CondType]
      BY <1>c, <2>1, CondTypes DEF DropGil, Conds
    <3>2. QED
      BY <2>1, <3>1 DEF DropGil, flagVars, callVars, ringVars, CondType
  <2>2. CASE TestRequest(t)
    <3>1. PICK place \in {"switching", "taking", "idle"} : Goes(t, place)
      BY <2>2 DEF TestRequest, Return
    <3>2. busy' = busy /\ place \in Apart
      BY <2>2 DEF TestRequest, callVars, Apart
    <3> HIDE DEF Goes, OnlyMainMakes
    <3> QED
      BY <2>2, <3>1, <3>2, GoesApart
         DEF TestRequest, Return, flagVars, callVars, ringVars
  <2>3. CASE TestSwitch(t)
    <3>1. PICK place \in {"resetting", "taking", "idle"} : Goes(t, place)
      BY <2>3 DEF TestSwitch, Return
    <3>2. busy' = busy /\ place \in Apart
      BY <2>3 DEF TestSwitch, callVars, Apart
    <3>3. /\ again' \subseteq Threads
          /\ switchMx' \in Threads \cup {NoThread}
      BY <2>3 DEF TestSwitch, Return
    <3>4. /\ request' \in BOOLEAN
          /\ computed' \in [Threads -> BOOLEAN]
      <4>1. ResetRequest(t) \/ UNCHANGED flagVars
        BY <2>3 DEF TestSwitch
      <4>2. CASE ResetRequest(t)
        <5>1. request' = FALSE /\ computed' = [computed EXCEPT ![t] = todo]
          BY <4>2 DEF ResetRequest
        <5>2. computed \in [Threads -> BOOLEAN] /\ todo \in BOOLEAN
          OBVIOUS
        <5> HIDE DEF Typed
        <5> QED
          BY <5>1, <5>2
      <4>3. CASE UNCHANGED flagVars
        BY <4>3 DEF flagVars
      <4> QED
        BY <4>1, <4>2, <4>3
    <3>5. UNCHANGED <<locked, holder, switched, mutex, cond, mainId, todo,
                      breaker, lock, slots, first, last, call>>
      BY <2>3 DEF TestSwitch, ResetRequest, flagVars, callVars, ringVars
    <3> HIDE DEF Goes, OnlyMainMakes
    <3> QED
      BY <3>1, <3>2, <3>3, <3>4, <3>5, GoesApart
  <2>4. CASE AwaitSwitch(t)
    <3>1. cond' \in [Conds -> CondType]
      BY <1>c, <2>4, CondTypes DEF AwaitSwitch, Conds
    <3>2. QED
      BY <2>4, <3>1 DEF AwaitSwitch, callVars, ringVars, CondType
  <2>5. CASE Switched(t)
    <3>1. cond' \in [Conds -> CondType]
      BY <1>c, <2>5, CondTypes DEF Switched, Conds
    <3>2. QED
      BY <2>5, <3>1 DEF Switched, Return, flagVars, callVars, ringVars,
                  CondType
  <2> QED
    BY <1>2, <2>1, <2>2, <2>3, <2>4, <2>5 DEF DropStep
<1>3. ASSUME NEW t \in Threads,
             Check(t) \/ Yield(t) \/ CarryOn(t) \/ Want(t) \/ Release(t)
      PROVE Typed'
  <2>1. CASE Check(t) \/ CarryOn(t) \/ Want(t) \/ Release(t)
    BY Z3T(30), <2>1 DEF Check, CarryOn, Want, Release, gilVars, flagVars,
                         callVars, ringVars
  <2>2. CASE Yield(t)
    BY Z3T(30), <2>2 DEF Yield, gilVars, flagVars, callVars, ringVars
  <2> QED
    BY <1>3, <2>1, <2>2
<1>4. ASSUME MakeStep PROVE Typed'
  <2>1. CASE MakePendingCalls
    BY <2>1 DEF MakePendingCalls, gilVars, flagVars, callVars, ringVars
  <2>2. CASE PopCall
    <3>1. first' \in Slots
      BY <2>2, NextIsSlot DEF PopCall
    <3> QED
      BY <2>2, <3>1 DEF PopCall, gilVars
  <2>3. CASE BeginCall
    BY <2>3 DEF BeginCall, gilVars, ringVars
  <2>4. ASSUME NEW result \in {-1, 0, 1}, EndCall(result) PROVE Typed'
    BY <2>4 DEF EndCall, gilVars, flagVars, ringVars
  <2> QED
    BY <1>4, <2>1, <2>2, <2>3, <2>4 DEF MakeStep
<1>5. ASSUME NEW k \in Calls, AddPendingCall(k) \/ SignalCalls(k)
      PROVE Typed'
  <2>1. CASE AddPendingCall(k)
    <3>1. slots' \in [Slots -> Calls \cup {NoThread}] /\ last' \in Slots
      BY <2>1, NextIsSlot DEF AddPendingCall, Put
    <3>2. call' \in [Calls -> {"new", "refused", "queued", "popped", "running",
                             "made"}]
      BY <2>1 DEF AddPendingCall, Put
    <3>3. lock' \in Calls \cup {Main, NoThread}
      BY <2>1 DEF AddPendingCall
    <3>4. UNCHANGED <<pc, gilVars, flagVars, switchMx, first, busy>>
      BY <2>1 DEF AddPendingCall
    <3>5. QED
      BY <3>1, <3>2, <3>3, <3>4 DEF gilVars, flagVars
  <2>2. CASE SignalCalls(k)
    BY <2>2 DEF SignalCalls, gilVars, ringVars
  <2> QED
    BY <1>5, <2>1, <2>2
<1>6. CASE UNCHANGED vars
  BY <1>6 DEF vars, gilVars, flagVars, callVars, ringVars
<1> QED
  BY <1>1, <1>2, <1>3, <1>4, <1>5, <1>6 DEF Next, ThreadStep

(* The types hold, in particular a semaphore never counts below zero and   *)
(* no more calls are made at a time than the ring has slots.               *)
THEOREM TypeCorrect == Spec => []TypeOK
<1>1. Spec => []Typed
  BY TypedInit, TypedStep, PTL DEF Spec
<1> QED
  BY <1>1, PTL DEF Typed

-----------------------------------------------------------------------------
(* Who takes the lock has gil_mutex from the moment it finds the lock free *)
(* until the lock is its own.                                              *)
TakersHaveMutex == \A t \in Threads : pc[t] \in Taking <=> mutex = t
ReadyMeansFree ==
    \A t \in Threads : /\ pc[t] \in {"ready", "noted"} => ~locked
                       /\ pc[t] = "noted" => mainId = t
LockSound == OneHolder /\ TakersHaveMutex /\ ReadyMeansFree

LEMMA LockInit == Init => LockSound
<1> SUFFICES ASSUME Init PROVE LockSound
  OBVIOUS
<1> USE GilAssumption DEF Init
<1>1. pc = [t \in Threads |-> IF t = Main THEN "has" ELSE "idle"]
  OBVIOUS
<1>2. pc[Main] = "has" /\ \A t \in Threads \ {Main} : pc[t] = "idle"
  BY <1>1
<1> QED
  BY <1>2 DEF LockSound, OneHolder, TakersHaveMutex, ReadyMeansFree, Inside,
     Taking, Running, Making

LEMMA LockStep == Typed /\ LockSound /\ [Next]_vars => LockSound'
<1> SUFFICES ASSUME Typed, LockSound, [Next]_vars PROVE LockSound'
  OBVIOUS
<1> USE GilAssumption DEF Typed, TypeOK, LockSound, OneHolder, TakersHaveMutex,
        ReadyMeansFree, Inside, Goes, Taking, Making, Running, Dropping,
        Waiting
<1>1. ASSUME NEW t \in Threads, TakeStep(t) PROVE LockSound'
  <2>1. CASE LockGil(t)
    BY <2>1 DEF LockGil, WaitOrGo
  <2>2. CASE Woken(t) \/ TimedOut(t)
    BY <2>2 DEF Woken, TimedOut, gilVars
  <2>3. CASE LockAgain(t)
    BY <2>3 DEF LockAgain, WaitOrGo
  <2>4. CASE NoteId(t) \/ TakeGil(t)
    BY <2>4 DEF NoteId, TakeGil
  <2>5. CASE TestReset(t)
    BY <2>5 DEF TestReset, gilVars
  <2>6. CASE StoreBreaker(t) \/ UnlockGil(t)
    BY <2>6 DEF StoreBreaker, UnlockGil
  <2> QED
    BY <1>1, <2>1, <2>2, <2>3, <2>4, <2>5, <2>6 DEF TakeStep
<1>2. ASSUME NEW t \in Threads, DropStep(t) PROVE LockSound'
  <2>1. CASE DropGil(t)
    BY <2>1 DEF DropGil
  <2>2. CASE TestRequest(t) \/ TestSwitch(t)
    BY <2>2 DEF TestRequest, TestSwitch, Return
  <2>3. CASE AwaitSwitch(t) \/ Switched(t)
    BY <2>3 DEF AwaitSwitch, Switched, Return
  <2> QED
    BY <1>2, <2>1, <2>2, <2>3 DEF DropStep
<1>3. ASSUME NEW t \in Threads,
             Check(t) \/ Yield(t) \/ CarryOn(t) \/ Want(t) \/ Release(t)
      PROVE LockSound'
  BY <1>3 DEF Check, Yield, CarryOn, Want, Release, gilVars
<1>4. ASSUME MakeStep PROVE LockSound'
  BY <1>4 DEF MakeStep, MakePendingCalls, PopCall, BeginCall, EndCall, gilVars
<1>5. ASSUME NEW k \in Calls, AddPendingCall(k) \/ SignalCalls(k)
      PROVE LockSound'
  BY <1>5 DEF AddPendingCall, SignalCalls, gilVars
<1>6. CASE UNCHANGED vars
  BY <1>6 DEF vars, gilVars
<1> QED
  BY <1>1, <1>2, <1>3, <1>4, <1>5, <1>6 DEF Next, ThreadStep

LEMMA TypedAndLock == Spec => [](Typed /\ LockSound)
<1>1. Init => Typed /\ LockSound
  BY TypedInit, LockInit
<1>2. Typed /\ LockSound /\ [Next]_vars => (Typed /\ LockSound)'
  BY TypedStep, LockStep
<1> QED
  BY <1>1, <1>2, PTL DEF Spec

(* At most one thread runs Python code, and Py_MainThreadId is its id.     *)
THEOREM HolderIsAlone == Spec => []OneHolder
BY TypedAndLock, PTL DEF LockSound

(* Both, with the types: at any time the lock is that of one thread that   *)
(* the lock, the last holder and Py_MainThreadId agree on.                 *)
THEOREM GilIsSound == Spec => []GilSound
BY TypeCorrect, HolderIsAlone, PTL DEF GilSound

-----------------------------------------------------------------------------
(* The count and "waiting" of a condition variable v, whose waiters are S. *)
CountOf(v, S) == /\ v.sem + v.waiting = Cardinality(S)
                 /\ v.sem <= Cardinality(Threads)

LEMMA ThreadSets ==
    ASSUME NEW S \in SUBSET Threads
    PROVE  /\ IsFiniteSet(S) /\ Cardinality(S) \in Nat
           /\ Cardinality(S) <= Cardinality(Threads)
           /\ Cardinality(Threads) \in Nat
BY GilAssumption, FS_Subset, FS_CardinalityType

LEMMA CountJoins ==
    ASSUME NEW v \in CondType, NEW S \in SUBSET Threads, CountOf(v, S),
           NEW t \in Threads, t \notin S
    PROVE  CountOf(StartWait(v), S \cup {t})
<1>1. Cardinality(S \cup {t}) = Cardinality(S) + 1
  BY ThreadSets, FS_AddElement
<1>2. StartWait(v) = [v EXCEPT !.waiting = v.waiting + 1]
  BY DEF StartWait
<1> QED
  BY <1>1, <1>2, ThreadSets DEF CountOf, CondType

LEMMA CountLeaves ==
    ASSUME NEW v \in CondType, NEW S \in SUBSET Threads, CountOf(v, S),
           NEW t \in S
    PROVE  /\ CountOf(GiveUp(v), S \ {t})
           /\ CountOf(EndWait(v), S \ {t})
<1>1. Cardinality(S \ {t}) = Cardinality(S) - 1
  BY ThreadSets, FS_RemoveElement
<1>2. GiveUp(v) = [v EXCEPT !.waiting = v.waiting - 1]
  BY DEF GiveUp
<1>3. EndWait(v) = [v EXCEPT !.sem = v.sem - 1]
  BY DEF EndWait
<1> QED
  BY <1>1, <1>2, <1>3, ThreadSets DEF CountOf, CondType

LEMMA CountSignalled ==
    ASSUME NEW v \in CondType, NEW S \in SUBSET Threads, CountOf(v, S)
    PROVE  CountOf(Signal(v), S)
BY ThreadSets DEF CountOf, CondType, Signal

InGil == At({"waiting", "late"})
InSwitch == At({"awaiting"})
Counts == CountOf(cond["gil"], InGil) /\ CountOf(cond["switch"], InSwitch)

LEMMA CountsMeanCounted == Counts <=> Counted
<1>1. WaitersOf("gil") = InGil /\ WaitersOf("switch") = InSwitch
  BY DEF WaitersOf, InGil, InSwitch
<1> QED
  BY <1>1 DEF Counts, Counted, CountOf, Conds

LEMMA CountsInit == Init => Counts
<1> SUFFICES ASSUME Init PROVE Counts
  OBVIOUS
<1>1. InGil = {} /\ InSwitch = {}
  BY DEF Init, InGil, InSwitch, At
<1>2. \A c \in Conds : cond[c].sem = 0 /\ cond[c].waiting = 0
  BY DEF Init
<1> QED
  BY <1>1, <1>2, FS_EmptySet, ThreadSets DEF Counts, CountOf, Conds

(* A step that only moves a thread between places outside both waits.      *)
LEMMA Elsewhere ==
    ASSUME Typed, Counts, UNCHANGED cond, NEW t \in Threads,
           pc[t] \notin {"waiting", "late", "awaiting"},
           \A u \in Threads \ {t} : pc'[u] = pc[u],
           pc'[t] \notin {"waiting", "late", "awaiting"}
    PROVE  Counts'
<1>1. InGil' = InGil /\ InSwitch' = InSwitch
  BY DEF InGil, InSwitch, At
<1> QED
  BY <1>1 DEF Counts

LEMMA CountsStep == Typed /\ Counts /\ [Next]_vars => Counts'
<1> SUFFICES ASSUME Typed, Counts, [Next]_vars PROVE Counts'
  OBVIOUS
<1>c. /\ cond \in [Conds -> CondType] /\ pc = [t \in Threads |-> pc[t]]
      /\ cond["gil"] \in CondType /\ cond["switch"] \in CondType
      /\ InGil \in SUBSET Threads /\ InSwitch \in SUBSET Threads
  BY DEF Typed, TypeOK, CondType, Conds, InGil, InSwitch, At
<1>1. ASSUME NEW t \in Threads, LockGil(t) PROVE Counts'
  <2>1. CASE locked
    <3>1. InGil' = InGil \cup {t} /\ InSwitch' = InSwitch /\ t \notin InGil
      BY <1>1, <2>1, <1>c DEF LockGil, WaitOrGo, Goes, InGil, InSwitch, At
    <3>2. cond' = [cond EXCEPT !["gil"] = StartWait(cond["gil"])]
      BY <1>1, <2>1 DEF LockGil, WaitOrGo
    <3>3. CountOf(StartWait(cond["gil"]), InGil \cup {t})
      BY <3>1, <1>c, CountJoins DEF Counts
    <3> QED
      BY <3>1, <3>2, <3>3, <1>c DEF Counts, Conds
  <2>2. CASE ~locked
    <3>1. cond' = [cond EXCEPT !["gil"] = cond["gil"]]
      BY <1>1, <2>2 DEF LockGil, WaitOrGo
    <3>2. UNCHANGED cond
      BY <3>1, <1>c DEF Conds
    <3> QED
      BY <1>1, <2>2, <3>2, <1>c, Elsewhere DEF LockGil, WaitOrGo, Goes
  <2> QED
    BY <2>1, <2>2
<1>2. ASSUME NEW t \in Threads, Woken(t) PROVE Counts'
  <2>1. InGil' = InGil \ {t} /\ InSwitch' = InSwitch /\ t \in InGil
    BY <1>2, <1>c DEF Woken, Goes, InGil, InSwitch, At
  <2>2. cond' = [cond EXCEPT !["gil"] = EndWait(cond["gil"])]
    BY <1>2 DEF Woken
  <2>3. CountOf(EndWait(cond["gil"]), InGil \ {t})
    BY <2>1, <1>c, CountLeaves DEF Counts
  <2> QED
    BY <2>1, <2>2, <2>3, <1>c DEF Counts, Conds
<1>3. ASSUME NEW t \in Threads, TimedOut(t) PROVE Counts'
  <2>1. InGil' = InGil /\ InSwitch' = InSwitch
    BY <1>3, <1>c DEF TimedOut, Goes, InGil, InSwitch, At
  <2> QED
    BY <1>3, <2>1 DEF TimedOut, gilVars, Counts
<1>4. ASSUME NEW t \in Threads, LockAgain(t) PROVE Counts'
  <2> DEFINE late == pc[t] = "late"
             v == IF late THEN GiveUp(cond["gil"]) ELSE cond["gil"]
  <2>1. v \in CondType /\ CountOf(v, InGil \ {t})
    <3>1. CASE late
      BY <3>1, <1>c, CondTypes, CountLeaves DEF Counts, InGil, At
    <3>2. CASE ~late
      <4>1. InGil \ {t} = InGil
        BY <3>2, <1>4 DEF LockAgain, InGil, At
      <4> QED
        BY <4>1, <3>2, <1>c DEF Counts
    <3> QED
      BY <3>1, <3>2
  <2>2. WaitOrGo(t, v) /\ pc[t] \in {"woken", "late"}
    BY <1>4 DEF LockAgain
  <2>3. InSwitch' = InSwitch
    BY <2>2, <1>c DEF WaitOrGo, Goes, InSwitch, At
  <2>4. CASE locked
    <3>1. InGil' = (InGil \ {t}) \cup {t}
      BY <2>2, <2>4, <1>c DEF WaitOrGo, Goes, InGil, At
    <3>2. CountOf(StartWait(v), (InGil \ {t}) \cup {t})
      <4>1. InGil \ {t} \in SUBSET Threads
        BY <1>c
      <4> HIDE DEF v
      <4> QED
        BY <4>1, <2>1, CountJoins
    <3>3. cond' = [cond EXCEPT !["gil"] = StartWait(v)]
      BY <2>2, <2>4 DEF WaitOrGo
    <3> HIDE DEF v
    <3> QED
      BY <2>3, <3>1, <3>2, <3>3, <1>c DEF Counts, Conds
  <2>5. CASE ~locked
    <3>1. InGil' = InGil \ {t}
      BY <2>2, <2>5, <1>c DEF WaitOrGo, Goes, InGil, At
    <3>2. cond' = [cond EXCEPT !["gil"] = v]
      BY <2>2, <2>5 DEF WaitOrGo
    <3> HIDE DEF v
    <3> QED
      BY <2>1, <2>3, <3>1, <3>2, <1>c DEF Counts, Conds
  <2> QED
    BY <2>4, <2>5
<1>5. ASSUME NEW t \in Threads, TakeGil(t) PROVE Counts'
  <2>1. InGil' = InGil /\ InSwitch' = InSwitch
    BY <1>5, <1>c DEF TakeGil, Goes, InGil, InSwitch, At
  <2>2. cond' = [cond EXCEPT !["switch"] = Signal(cond["switch"])]
    BY <1>5 DEF TakeGil
  <2>3. CountOf(Signal(cond["switch"]), InSwitch)
    BY <1>c, CountSignalled DEF Counts
  <2> QED
    BY <2>1, <2>2, <2>3, <1>c DEF Counts, Conds
<1>6. ASSUME NEW t \in Threads, DropGil(t) PROVE Counts'
  <2>1. InGil' = InGil /\ InSwitch' = InSwitch
    BY <1>6, <1>c DEF DropGil, Goes, InGil, InSwitch, At
  <2>2. cond' = [cond EXCEPT !["gil"] = Signal(cond["gil"])]
    BY <1>6 DEF DropGil
  <2>3. CountOf(Signal(cond["gil"]), InGil)
    BY <1>c, CountSignalled DEF Counts
  <2> QED
    BY <2>1, <2>2, <2>3, <1>c DEF Counts, Conds
<1>7. ASSUME NEW t \in Threads, AwaitSwitch(t) PROVE Counts'
  <2>1. InGil' = InGil /\ InSwitch' = InSwitch \cup {t} /\ t \notin InSwitch
    BY <1>7, <1>c DEF AwaitSwitch, Goes, InGil, InSwitch, At
  <2>2. cond' = [cond EXCEPT !["switch"] = StartWait(cond["switch"])]
    BY <1>7 DEF AwaitSwitch
  <2>3. CountOf(StartWait(cond["switch"]), InSwitch \cup {t})
    BY <2>1, <1>c, CountJoins DEF Counts
  <2> QED
    BY <2>1, <2>2, <2>3, <1>c DEF Counts, Conds
<1>8. ASSUME NEW t \in Threads, Switched(t) PROVE Counts'
  <2>1. InGil' = InGil /\ InSwitch' = InSwitch \ {t} /\ t \in InSwitch
    BY <1>8, <1>c DEF Switched, Return, Goes, InGil, InSwitch, At
  <2>2. cond' = [cond EXCEPT !["switch"] = EndWait(cond["switch"])]
    BY <1>8 DEF Switched
  <2>3. CountOf(EndWait(cond["switch"]), InSwitch \ {t})
    BY <2>1, <1>c, CountLeaves DEF Counts
  <2> QED
    BY <2>1, <2>2, <2>3, <1>c DEF Counts, Conds
<1>9. ASSUME NEW t \in Threads,
             NoteId(t) \/ TestReset(t) \/ StoreBreaker(t) \/ UnlockGil(t)
      PROVE Counts'
  BY <1>9, <1>c, Elsewhere DEF NoteId, TestReset, StoreBreaker, UnlockGil,
              Goes,
              gilVars
<1>10. ASSUME NEW t \in Threads, TestRequest(t) \/ TestSwitch(t) PROVE Counts'
  BY <1>10, <1>c, Elsewhere DEF TestRequest, TestSwitch, Return, Goes
<1>11. ASSUME NEW t \in Threads,
             Check(t) \/ Yield(t) \/ CarryOn(t) \/ Want(t) \/ Release(t)
       PROVE Counts'
  BY <1>11, <1>c, Elsewhere DEF Check, Yield, CarryOn, Want, Release, Goes,
              gilVars
<1>12. ASSUME MakeStep PROVE Counts'
  <2>1. /\ pc[Main] \notin {"waiting", "late", "awaiting"}
        /\ \A u \in Threads \ {Main} : pc'[u] = pc[u]
        /\ pc'[Main] \notin {"waiting", "late", "awaiting"}
        /\ UNCHANGED cond
    BY <1>12, <1>c, GilAssumption DEF MakeStep, MakePendingCalls, PopCall,
       BeginCall, EndCall, Goes, gilVars
  <2> QED
    BY <2>1, GilAssumption, Elsewhere
<1>13. ASSUME NEW k \in Calls, AddPendingCall(k) \/ SignalCalls(k)
       PROVE Counts'
  <2>1. UNCHANGED <<pc, cond>>
    BY <1>13 DEF AddPendingCall, SignalCalls, gilVars
  <2> QED
    BY <2>1 DEF Counts, InGil, InSwitch, At
<1>14. CASE UNCHANGED vars
  BY <1>14 DEF vars, gilVars, Counts, InGil, InSwitch, At
<1> QED
  BY <1>1, <1>2, <1>3, <1>4, <1>5, <1>6, <1>7, <1>8, <1>9, <1>10, <1>11, <1>12,
     <1>13, <1>14 DEF Next, ThreadStep, TakeStep, DropStep

(* The semaphores and "waiting" account for every thread that waits.       *)
THEOREM WaitersCounted == Spec => []Counted
<1>1. Spec => [](Typed /\ Counts)
  BY TypedInit, TypedStep, CountsInit, CountsStep, PTL DEF Spec
<1> QED
  BY <1>1, CountsMeanCounted, PTL

-----------------------------------------------------------------------------
(* At a drop either somebody is counted as waiting, and signalled, or the  *)
(* count shows that the signal was given before.                           *)
LEMMA DropSignals ==
    ASSUME Typed, Counts, At({"waiting"}) # {}
    PROVE  Signal(cond["gil"]).sem > 0
<1>1. cond["gil"] \in CondType
  BY DEF Typed, TypeOK, CondType, Conds
<1>2. InGil # {} /\ InGil \in SUBSET Threads
  BY DEF InGil, At
<1>3. Cardinality(InGil) > 0
  BY <1>2, ThreadSets, FS_EmptySet
<1> QED
  BY <1>1, <1>3 DEF Counts, CountOf, CondType, Signal

LEMMA WakeupInit == Init => NoLostWakeup
BY DEF Init, NoLostWakeup

LEMMA WakeupStep ==
    Typed /\ Counts /\ NoLostWakeup /\ [Next]_vars => NoLostWakeup'
<1> SUFFICES ASSUME Typed, Counts, NoLostWakeup, [Next]_vars
             PROVE  NoLostWakeup'
  OBVIOUS
<1>c. pc = [t \in Threads |-> pc[t]] /\ "gil" \in Conds /\ "switch" \in Conds
      /\ cond = [c \in Conds |-> cond[c]]
  BY DEF Typed, TypeOK, Conds
<1>1. ASSUME NEW t \in Threads, LockGil(t) PROVE NoLostWakeup'
  <2>1. CASE locked
    BY <1>1, <2>1 DEF LockGil, WaitOrGo, NoLostWakeup
  <2>2. CASE ~locked
    BY <1>1, <2>2, <1>c DEF LockGil, WaitOrGo, Goes, NoLostWakeup, At
  <2> QED
    BY <2>1, <2>2
<1>2. ASSUME NEW t \in Threads, Woken(t) \/ TimedOut(t) PROVE NoLostWakeup'
  <2>1. pc'[t] \in {"woken", "late"}
    BY <1>2, <1>c DEF Woken, TimedOut, Goes
  <2> QED
    BY <2>1 DEF NoLostWakeup, At
<1>3. ASSUME NEW t \in Threads, LockAgain(t) PROVE NoLostWakeup'
  <2>1. CASE locked
    BY <1>3, <2>1 DEF LockAgain, WaitOrGo, NoLostWakeup
  <2>2. CASE ~locked
    <3>1. pc'[t] = "ready"
      BY <1>3, <2>2, <1>c DEF LockAgain, WaitOrGo, Goes
    <3> QED
      BY <3>1 DEF NoLostWakeup, At
  <2> QED
    BY <2>1, <2>2
<1>4. ASSUME NEW t \in Threads, TakeGil(t) PROVE NoLostWakeup'
  BY <1>4 DEF TakeGil, NoLostWakeup
<1>5. ASSUME NEW t \in Threads, DropGil(t) PROVE NoLostWakeup'
  <2>1. At({"waiting"})' = At({"waiting"})
    BY <1>5, <1>c DEF DropGil, Goes, At
  <2>2. cond'["gil"] = Signal(cond["gil"])
    BY <1>5, <1>c DEF DropGil
  <2> QED
    BY <2>1, <2>2, DropSignals DEF NoLostWakeup
<1>6. ASSUME UNCHANGED locked, cond'["gil"] = cond["gil"],
             At({"waiting"})' = At({"waiting"}),
             At({"woken", "late", "ready", "noted"})'
               = At({"woken", "late", "ready", "noted"})
      PROVE  NoLostWakeup'
  BY <1>6 DEF NoLostWakeup
<1>7. ASSUME NEW t \in Threads,
             NoteId(t) \/ TestReset(t) \/ StoreBreaker(t) \/ UnlockGil(t)
      PROVE NoLostWakeup'
  BY <1>6, <1>7, <1>c DEF NoteId, TestReset, StoreBreaker, UnlockGil, Goes,
              gilVars, At
<1>8. ASSUME NEW t \in Threads, TestRequest(t) \/ TestSwitch(t)
      PROVE NoLostWakeup'
  BY <1>6, <1>8, <1>c DEF TestRequest, TestSwitch, Return, Goes, At
<1>9. ASSUME NEW t \in Threads, AwaitSwitch(t) \/ Switched(t)
      PROVE NoLostWakeup'
  BY <1>6, <1>9, <1>c DEF AwaitSwitch, Switched, Return, Goes, At
<1>10. ASSUME NEW t \in Threads,
             Check(t) \/ Yield(t) \/ CarryOn(t) \/ Want(t) \/ Release(t)
       PROVE NoLostWakeup'
  BY <1>6, <1>10, <1>c DEF Check, Yield, CarryOn, Want, Release, Goes,
              gilVars, At
<1>11. ASSUME MakeStep PROVE NoLostWakeup'
  <2>1. /\ pc[Main] \in {"has", "checked", "popping", "popped"}
        /\ pc'[Main] \in {"has", "checked", "popping", "popped"}
        /\ \A u \in Threads \ {Main} : pc'[u] = pc[u]
        /\ UNCHANGED <<locked, cond>>
    BY <1>11, <1>c, GilAssumption DEF MakeStep, MakePendingCalls, PopCall,
       BeginCall, EndCall, Goes, gilVars
  <2> QED
    BY <2>1, <1>6, GilAssumption DEF At
<1>12. ASSUME NEW k \in Calls, AddPendingCall(k) \/ SignalCalls(k)
       PROVE NoLostWakeup'
  <2>1. UNCHANGED <<pc, locked, cond>>
    BY <1>12 DEF AddPendingCall, SignalCalls, gilVars
  <2> QED
    BY <2>1 DEF NoLostWakeup, At
<1>13. CASE UNCHANGED vars
  BY <1>13 DEF vars, gilVars, NoLostWakeup, At
<1> QED
  BY <1>1, <1>2, <1>3, <1>4, <1>5, <1>7, <1>8, <1>9, <1>10, <1>11, <1>12,
     <1>13 DEF Next, ThreadStep, TakeStep, DropStep

(* If the lock is free and a thread waits for it, a signal is there or     *)
(* another thread is about to look at the lock.                            *)
THEOREM NoWakeupLost == Spec => []NoLostWakeup
<1>1. Init => Typed /\ Counts /\ NoLostWakeup
  BY TypedInit, CountsInit, WakeupInit
<1>2. Typed /\ Counts /\ NoLostWakeup /\ [Next]_vars
        => (Typed /\ Counts /\ NoLostWakeup)'
  BY TypedStep, CountsStep, WakeupStep
<1> QED
  BY <1>1, <1>2, PTL DEF Spec

-----------------------------------------------------------------------------
(* pending_lock is the main thread's while it takes a call off the ring.   *)
MainHasLock == lock = Main <=> pc[Main] = "popped"
Signalled == MainHasLock /\ CallsSignalled

LEMMA SignalledStep == Typed /\ Signalled /\ [Next]_vars => Signalled'
<1> SUFFICES ASSUME Typed, Signalled, [Next]_vars PROVE Signalled'
  OBVIOUS
<1> USE GilAssumption DEF Signalled, MainHasLock, CallsSignalled
<1>c. /\ pc = [t \in Threads |-> pc[t]]
      /\ lock \in Calls \cup {Main, NoThread} /\ todo \in BOOLEAN
      /\ \A t \in Threads : pc[t] \in Making => t = Main
  BY DEF Typed, TypeOK, OnlyMainMakes
<1>1. ASSUME UNCHANGED <<todo, lock, ringVars>>,
             pc'[Main] = "popped" <=> pc[Main] = "popped"
      PROVE  Signalled'
  BY <1>1 DEF ringVars
<1>2. ASSUME NEW t \in Threads, TakeStep(t) PROVE Signalled'
  <2>1. UNCHANGED <<todo, lock, ringVars>>
    BY <1>2 DEF TakeStep, LockGil, Woken, TimedOut, LockAgain, NoteId, TakeGil,
       TestReset, StoreBreaker, UnlockGil, ResetRequest, callVars, ringVars,
       flagVars
  <2>2. pc[t] # "popped" /\ pc'[t] # "popped"
        /\ \A u \in Threads \ {t} : pc'[u] = pc[u]
    BY <1>2, <1>c DEF TakeStep, LockGil, Woken, TimedOut, LockAgain, NoteId,
                TakeGil,
       TestReset, StoreBreaker, UnlockGil, WaitOrGo, Goes
  <2> QED
    BY <2>1, <2>2, <1>1
<1>3. ASSUME NEW t \in Threads,
             DropStep(t) \/ Check(t) \/ Yield(t) \/ CarryOn(t) \/ Want(t)
               \/ Release(t)
      PROVE Signalled'
  <2>1. UNCHANGED <<todo, lock, ringVars>>
    BY <1>3 DEF DropStep, DropGil, TestRequest, TestSwitch, AwaitSwitch,
       Switched, Check, Yield, CarryOn, Want, Release, ResetRequest,
       callVars, ringVars, flagVars
  <2>2. pc[t] # "popped" /\ pc'[t] # "popped"
        /\ \A u \in Threads \ {t} : pc'[u] = pc[u]
    BY <1>3, <1>c DEF DropStep, DropGil, TestRequest, TestSwitch, AwaitSwitch,
       Switched, Check, Yield, CarryOn, Want, Release, Return, Goes
  <2> QED
    BY <2>1, <2>2, <1>1
<1>4. CASE MakePendingCalls
  BY <1>4, <1>c, <1>1 DEF MakePendingCalls, Goes, flagVars, callVars, ringVars
<1>5. CASE PopCall
  BY <1>5, <1>c DEF PopCall, Goes
<1>6. CASE BeginCall
  BY <1>6, <1>c DEF BeginCall, Goes, ringVars
<1>7. ASSUME NEW result \in {-1, 0, 1}, EndCall(result) PROVE Signalled'
  BY <1>7, <1>c, <1>1 DEF EndCall, Goes, flagVars
<1>8. ASSUME NEW k \in Calls, AddPendingCall(k) PROVE Signalled'
  BY <1>8 DEF AddPendingCall, Put, flagVars
<1>9. ASSUME NEW k \in Calls, SignalCalls(k) PROVE Signalled'
  BY <1>9 DEF SignalCalls, ringVars
<1>10. CASE UNCHANGED vars
  BY <1>10, <1>1 DEF vars, flagVars, callVars, ringVars
<1> QED
  BY <1>2, <1>3, <1>4, <1>5, <1>6, <1>7, <1>8, <1>9, <1>10
     DEF Next, ThreadStep, MakeStep

(* A call on the ring is known to pendingcalls_to_do, or about to be.      *)
THEOREM PendingCallsSignalled == Spec => []CallsSignalled
<1>1. Init => Typed /\ Signalled
  BY TypedInit, GilAssumption DEF Init, Signalled, MainHasLock, CallsSignalled
<1>2. Typed /\ Signalled /\ [Next]_vars => (Typed /\ Signalled)'
  BY TypedStep, SignalledStep
<1> QED
  BY <1>1, <1>2, PTL DEF Spec, Signalled

-----------------------------------------------------------------------------
(* The calls on the ring are those that were accepted, each once.          *)
OnRing(k) == \E i \in InUse : slots[i] = k
RingIsQueued ==
    /\ \A i \in InUse : slots[i] \in Calls
    /\ \A i, j \in InUse : slots[i] = slots[j] => i = j
    /\ \A k \in Calls : call[k] = "queued" <=> OnRing(k)

(* There is one call at a time between the ring and its end.               *)
Current == {k \in Calls : call[k] \in {"popped", "running"}}
OneCurrent ==
    /\ \A k, l \in Current : k = l
    /\ \A k \in Calls : call[k] = "popped" => pc[Main] = "popped"
    /\ \A k \in Calls : call[k] = "running" => busy > 0 /\ pc[Main] \notin Making

Kept == RingIsQueued /\ OneCurrent

LEMMA KeptFromParts ==
    ASSUME RingIsQueued, OneCurrent
    PROVE  CallsKept
<1>1. ASSUME NEW k \in Calls
      PROVE  call[k] = "queued"
               <=> Cardinality({i \in InUse : slots[i] = k}) = 1
  <2> DEFINE S == {i \in InUse : slots[i] = k}
  <2>1. CASE OnRing(k)
    <3>1. PICK i \in InUse : slots[i] = k
      BY <2>1 DEF OnRing
    <3>2. S = {i}
      BY <3>1 DEF RingIsQueued
    <3>3. Cardinality(S) = 1
      BY <3>2, FS_Singleton
    <3> QED
      BY <3>3, <2>1 DEF RingIsQueued
  <2>2. CASE ~OnRing(k)
    <3>1. S = {}
      BY <2>2 DEF OnRing
    <3>2. Cardinality(S) = 0
      BY <3>1, FS_EmptySet
    <3> QED
      BY <3>2, <2>2 DEF RingIsQueued
  <2> QED
    BY <2>1, <2>2
<1>2. Cardinality(Current) <= 1
  <2>1. CASE Current = {}
    BY <2>1, FS_EmptySet
  <2>2. CASE Current # {}
    <3>1. PICK k \in Current : TRUE
      BY <2>2
    <3>2. Current = {k}
      BY <3>1 DEF OneCurrent
    <3>3. Cardinality(Current) = 1
      BY <3>2, FS_Singleton
    <3> QED
      BY <3>3
  <2> QED
    BY <2>1, <2>2
<1> QED
  BY <1>1, <1>2 DEF CallsKept, RingIsQueued, Current

(* The slot before pendingfirst is never in use: the one at pendinglast    *)
(* gets in use unless it is that slot, ...                                 *)
LEMMA LastGetsInUse ==
    ASSUME first \in Slots, last \in Slots, NextSlot(last) # first,
           first' = first, last' = NextSlot(last)
    PROVE  last \notin InUse /\ InUse' = InUse \cup {last}
<1>1. /\ first \in Int /\ last \in Int /\ NPENDINGCALLS \in Int
      /\ 0 <= first /\ first < NPENDINGCALLS
      /\ 0 <= last /\ last < NPENDINGCALLS
  BY GilAssumption DEF Slots
<1>2. last \notin InUse
  BY <1>1 DEF InUse
<1>3. ASSUME NEW i \in Slots PROVE i \in InUse' <=> i \in InUse \/ i = last
  <2>1. i \in Int /\ 0 <= i /\ i < NPENDINGCALLS
    BY <1>1 DEF Slots
  <2>2. CASE last + 1 = NPENDINGCALLS
    <3>1. last' = 0
      BY <2>2 DEF NextSlot
    <3> QED
      BY <1>1, <2>1, <2>2, <3>1 DEF InUse, NextSlot
  <2>3. CASE last + 1 # NPENDINGCALLS
    <3>1. last' = last + 1
      BY <2>3 DEF NextSlot
    <3> QED
      BY <1>1, <2>1, <2>3, <3>1 DEF InUse, NextSlot
  <2> QED
    BY <2>2, <2>3
<1> QED
  BY <1>2, <1>3 DEF InUse

(* ... and the one at pendingfirst is in use unless the ring is empty.     *)
LEMMA FirstIsInUse ==
    ASSUME first \in Slots, last \in Slots, first # last,
           first' = NextSlot(first), last' = last
    PROVE  first \in InUse /\ InUse' = InUse \ {first}
<1>1. /\ first \in Int /\ last \in Int /\ NPENDINGCALLS \in Int
      /\ 0 <= first /\ first < NPENDINGCALLS
      /\ 0 <= last /\ last < NPENDINGCALLS
  BY GilAssumption DEF Slots
<1>2. first \in InUse
  BY <1>1 DEF InUse
<1>3. ASSUME NEW i \in Slots PROVE i \in InUse' <=> i \in InUse /\ i # first
  <2>1. i \in Int /\ 0 <= i /\ i < NPENDINGCALLS
    BY <1>1 DEF Slots
  <2>2. CASE first + 1 = NPENDINGCALLS
    <3>1. first' = 0
      BY <2>2 DEF NextSlot
    <3> QED
      BY <1>1, <2>1, <2>2, <3>1 DEF InUse
  <2>3. CASE first + 1 # NPENDINGCALLS
    <3>1. first' = first + 1
      BY <2>3 DEF NextSlot
    <3> QED
      BY <1>1, <2>1, <2>3, <3>1 DEF InUse
  <2> QED
    BY <2>2, <2>3
<1> QED
  BY <1>2, <1>3 DEF InUse

LEMMA RingPut ==
    ASSUME Typed, RingIsQueued, NEW k \in Calls, call[k] = "new",
           NextSlot(last) # first, Put(k), first' = first
    PROVE  RingIsQueued'
<1>1. /\ first \in Slots /\ last \in Slots
      /\ \A l \in Calls : call'[l] = IF l = k THEN "queued" ELSE call[l]
      /\ \A i \in Slots : slots'[i] = IF i = last THEN k ELSE slots[i]
      /\ last' = NextSlot(last)
  BY DEF Typed, TypeOK, Put
<1>2. last \notin InUse /\ InUse' = InUse \cup {last} /\ InUse \subseteq Slots
  BY <1>1, LastGetsInUse DEF InUse
<1>3. slots'[last] = k /\ \A i \in InUse : slots'[i] = slots[i]
  BY <1>1, <1>2
<1>4. ~OnRing(k)
  BY DEF RingIsQueued
<1>5. \A i, j \in InUse' : slots'[i] = slots'[j] => i = j
  BY <1>2, <1>3, <1>4 DEF RingIsQueued, OnRing
<1>6. \A l \in Calls : OnRing(l)' <=> OnRing(l) \/ l = k
  BY <1>2, <1>3 DEF OnRing
<1>7. \A i \in InUse' : slots'[i] \in Calls
  BY <1>2, <1>3 DEF RingIsQueued
<1> QED
  BY <1>1, <1>5, <1>6, <1>7 DEF RingIsQueued

LEMMA RingTaken ==
    ASSUME Typed, RingIsQueued, first # last, first' = NextSlot(first),
           UNCHANGED <<slots, last>>,
           call' = [call EXCEPT ![slots[first]] = "popped"]
    PROVE  RingIsQueued' /\ slots[first] \in Calls
<1>1. first \in Slots /\ last \in Slots
  BY DEF Typed, TypeOK
<1>2. first \in InUse /\ InUse' = InUse \ {first}
  BY <1>1, FirstIsInUse
<1>3. slots[first] \in Calls
  BY <1>2 DEF RingIsQueued
<1>4. \A l \in Calls : call'[l] = IF l = slots[first] THEN "popped" ELSE call[l]
  BY <1>3 DEF Typed, TypeOK
<1>5. \A l \in Calls : OnRing(l)' <=> OnRing(l) /\ l # slots[first]
  BY <1>2 DEF OnRing, RingIsQueued
<1>6. /\ \A i \in InUse' : slots'[i] \in Calls
      /\ \A i, j \in InUse' : slots'[i] = slots'[j] => i = j
  BY <1>2 DEF RingIsQueued
<1> QED
  BY <1>3, <1>4, <1>5, <1>6 DEF RingIsQueued

LEMMA KeptStep ==
    Typed /\ Kept /\ [Next]_vars => Kept'
<1> SUFFICES ASSUME Typed, Kept, [Next]_vars PROVE Kept'
  OBVIOUS
<1>k. RingIsQueued /\ OneCurrent
  BY DEF Kept
<1>c. /\ pc = [t \in Threads |-> pc[t]] /\ call = [k \in Calls |-> call[k]]
      /\ busy \in Nat
      /\ \A t \in Threads : pc[t] \in Making => t = Main
      /\ Main \in Threads
  BY GilAssumption DEF Typed, TypeOK, OnlyMainMakes
<1>0. ASSUME UNCHANGED <<ringVars, call, busy>>, pc'[Main] = pc[Main]
      PROVE  Kept'
  BY <1>0 DEF Kept, RingIsQueued, OnRing, InUse, ringVars, OneCurrent, Current
<1>1. ASSUME UNCHANGED <<ringVars, call, busy>>, NEW t \in Threads,
             pc[t] \notin Making, pc'[t] \notin Making,
             \A u \in Threads \ {t} : pc'[u] = pc[u]
      PROVE  Kept'
  BY <1>1, <1>c DEF Kept, RingIsQueued, OnRing, InUse, ringVars, OneCurrent,
              Current, Making
<1>2. ASSUME NEW t \in Threads, TakeStep(t)
      PROVE  Kept'
  <2>1. UNCHANGED <<ringVars, call, busy>>
    BY <1>2 DEF TakeStep, LockGil, Woken, TimedOut, LockAgain, NoteId, TakeGil,
       TestReset, StoreBreaker, UnlockGil, callVars, ringVars
  <2>2. pc[t] \notin Making /\ pc'[t] \notin Making
        /\ \A u \in Threads \ {t} : pc'[u] = pc[u]
    BY <1>2, <1>c DEF TakeStep, LockGil, Woken, TimedOut, LockAgain, NoteId,
                TakeGil,
       TestReset, StoreBreaker, UnlockGil, WaitOrGo, Goes, Making
  <2> QED
    BY <2>1, <2>2, <1>1
<1>3. ASSUME NEW t \in Threads,
             DropStep(t) \/ Check(t) \/ Yield(t) \/ CarryOn(t) \/ Want(t)
               \/ Release(t)
      PROVE  Kept'
  <2>1. UNCHANGED <<ringVars, call, busy>>
    BY <1>3 DEF DropStep, DropGil, TestRequest, TestSwitch, AwaitSwitch,
       Switched, Check, Yield, CarryOn, Want, Release, callVars, ringVars
  <2>2. pc[t] \notin Making /\ pc'[t] \notin Making
        /\ \A u \in Threads \ {t} : pc'[u] = pc[u]
    BY <1>3, <1>c DEF DropStep, DropGil, TestRequest, TestSwitch, AwaitSwitch,
       Switched, Check, Yield, CarryOn, Want, Release, Return, Goes, Making
  <2> QED
    BY <2>1, <2>2, <1>1
<1>4. CASE MakePendingCalls
  <2>1. pc[Main] = "has" /\ busy = 0 /\ UNCHANGED <<ringVars, call, busy>>
    BY <1>4 DEF MakePendingCalls, callVars, ringVars
  <2>2. \A k \in Calls : call[k] \notin {"popped", "running"}
    BY <1>k, <2>1 DEF OneCurrent
  <2> QED
    BY <2>1, <2>2 DEF Kept, RingIsQueued, OnRing, InUse, ringVars,
                OneCurrent, Current
<1>5. CASE PopCall
  <2>1. /\ pc[Main] = "popping" /\ pc'[Main] = "popped"
        /\ UNCHANGED <<slots, last, busy>>
    BY <1>5, <1>c DEF PopCall, Goes
  <2>2. \A k \in Calls : call[k] \notin {"popped", "running"}
    BY <1>k, <2>1 DEF OneCurrent, Making
  <2>3. CASE first = last
    <3>1. UNCHANGED <<slots, first, last, call>>
      BY <1>5, <2>3 DEF PopCall
    <3>2. RingIsQueued'
      BY <1>k, <3>1 DEF RingIsQueued, OnRing, InUse
    <3> QED
      BY <3>1, <3>2, <2>1, <2>2 DEF Kept, OneCurrent, Current
  <2>4. CASE first # last
    <3>1. /\ first' = NextSlot(first)
          /\ call' = [call EXCEPT ![slots[first]] = "popped"]
      BY <1>5, <2>4 DEF PopCall
    <3>2. RingIsQueued' /\ slots[first] \in Calls
      BY <1>k, <2>1, <3>1, <2>4, RingTaken
    <3>3. \A k \in Calls : call'[k] = IF k = slots[first] THEN "popped"
                                      ELSE call[k]
      BY <3>1, <1>c
    <3> QED
      BY <1>k, <3>2, <3>3, <2>1, <2>2 DEF Kept, OneCurrent, Current
  <2> QED
    BY <2>3, <2>4
<1>6. CASE BeginCall
  <2>1. /\ pc[Main] = "popped" /\ pc'[Main] \in {"has", "checked"}
        /\ UNCHANGED ringVars
        /\ busy' = IF Popped = {} THEN 0 ELSE busy + 1
        /\ \A k \in Calls : call'[k] = IF call[k] = "popped" THEN "running"
                                       ELSE call[k]
    BY <1>6, <1>c DEF BeginCall, Goes, Popped
  <2>2. \A k \in Calls : call[k] # "running"
    BY <1>k, <2>1 DEF OneCurrent, Making
  <2>3. \A k \in Calls : call'[k] = "running" => busy' > 0
    <3>1. ASSUME NEW k \in Calls, call'[k] = "running" PROVE Popped # {}
      BY <3>1, <2>1, <2>2 DEF Popped
    <3> QED
      BY <3>1, <2>1, <1>c
  <2> QED
    BY <2>1, <2>2, <2>3 DEF Kept, RingIsQueued, OnRing, InUse, ringVars,
                OneCurrent, Current, Making
<1>7. ASSUME NEW result \in {-1, 0, 1}, EndCall(result)
      PROVE  Kept'
  <2>1. /\ pc[Main] = "has" /\ UNCHANGED ringVars
        /\ \A k \in Calls : call'[k] = IF call[k] = "running" THEN "made"
                                       ELSE call[k]
    BY <1>7 DEF EndCall
  <2>2. \A k \in Calls : call[k] # "popped" /\ call'[k] \notin {"popped", "running"}
    BY <1>k, <2>1 DEF OneCurrent
  <2> QED
    BY <2>1, <2>2 DEF Kept, RingIsQueued, OnRing, InUse, ringVars,
                OneCurrent, Current
<1>8. ASSUME NEW k \in Calls, AddPendingCall(k)
      PROVE  Kept'
  <2>1. /\ call[k] = "new" /\ UNCHANGED <<pc, busy, first>>
    BY <1>8 DEF AddPendingCall
  <2>2. CASE call' = [call EXCEPT ![k] = "refused"] /\ UNCHANGED <<slots, last>>
    <3>1. \A l \in Calls : call'[l] = IF l = k THEN "refused" ELSE call[l]
      BY <2>2, <1>c
    <3>2. RingIsQueued'
      BY <1>k, <2>1, <2>2, <3>1 DEF RingIsQueued, OnRing, InUse
    <3> QED
      BY <1>k, <3>1, <3>2, <2>1 DEF Kept, OneCurrent, Current
  <2>3. CASE NextSlot(last) # first /\ Put(k)
    <3>1. \A l \in Calls : call'[l] = IF l = k THEN "queued" ELSE call[l]
      BY <2>3, <1>c DEF Put
    <3>2. RingIsQueued'
      BY <1>k, <2>1, <2>3, RingPut
    <3> QED
      BY <1>k, <3>1, <3>2, <2>1 DEF Kept, OneCurrent, Current
  <2> QED
    BY <1>8, <2>2, <2>3 DEF AddPendingCall
<1>9. ASSUME NEW k \in Calls, SignalCalls(k)
      PROVE  Kept'
  BY <1>9, <1>0 DEF SignalCalls, ringVars
<1>10. CASE UNCHANGED vars
  BY <1>10, <1>0 DEF vars, callVars, ringVars
<1> QED
  BY <1>2, <1>3, <1>4, <1>5, <1>6, <1>7, <1>8, <1>9, <1>10
     DEF Next, ThreadStep, MakeStep

(* No pending call is lost, repeated or made while another one is,         *)
(* wherever the ring wraps.                                                *)
THEOREM PendingCallsKept == Spec => []CallsKept
<1>1. Init => Typed /\ Kept
  <2> SUFFICES ASSUME Init PROVE Kept
    BY TypedInit
  <2>1. /\ first = 0 /\ last = 0 /\ InUse = {}
        /\ \A k \in Calls : call[k] = "new"
    BY DEF Init, InUse, Slots
  <2> QED
    BY <2>1, GilAssumption DEF Kept, RingIsQueued, OnRing, InUse, ringVars,
                OneCurrent, Current
<1>2. Typed /\ Kept /\ [Next]_vars => (Typed /\ Kept)'
  BY TypedStep, KeptStep
<1>3. Typed /\ Kept => CallsKept
  BY KeptFromParts DEF Kept, Typed, TypeOK
<1> QED
  BY <1>1, <1>2, <1>3, PTL DEF Spec

(* A call that was accepted stays on the ring until it is taken off to be  *)
(* made, and pendingcalls_to_do says so.                                   *)
THEOREM PendingCallsHeld == Spec => []CallsHeld
BY PendingCallsSignalled, PendingCallsKept, PTL DEF CallsHeld

=============================================================================
