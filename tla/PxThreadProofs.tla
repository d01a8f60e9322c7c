---------------------------- MODULE PxThreadProofs ----------------------------
(***************************************************************************)
(* Proofs about the thread of PxThread: its two heaps take turns, and what *)
(* its data refers to is never rewound, wherever the thread is suspended,  *)
(* however often it is, and whatever value t->count wraps at.              *)
(***************************************************************************)
EXTENDS PxThread, TLAPS, FiniteSetTheorems

(* A reader copies what t->data is, which nobody replaces meanwhile.       *)
ReaderReads ==
    /\ reader = {} \/ reader = {data}
    /\ pc = "storing" => reader = {}

(* Types, but for the cardinality, which follows from ReaderReads.         *)
HeapTypes ==
    /\ group \in 1..2 /\ prev \in 0..2 /\ snap \subseteq 1..2
    /\ count \in 0..MaxCount /\ data \in 0..2

FlagTypes ==
    /\ func \in BOOLEAN /\ interval \in BOOLEAN /\ event \in BOOLEAN
    /\ errors \in BOOLEAN /\ misused \in BOOLEAN

PlaceTypes ==
    /\ once \subseteq {"start", "shutdown"}
    /\ pc \in {"begin", "running", "storing", "stored", "swappedFirst",
               "swapped", "ending", "waiting", "exited"}
    /\ work \in {"none", "submitted", "waiting", "updating"}
    /\ main \in {"user", "settingFunc", "gettingData"}
    /\ trap \in {"none", "round", "times"}

Typed == /\ HeapTypes /\ FlagTypes /\ PlaceTypes /\ ReaderReads
         /\ susp \in 0..MaxSuspend

(* Nothing happens on the thread before it is started.                     *)
NotStarted ==
    "start" \notin once =>
        /\ susp > 0 /\ pc = "begin"
        /\ group = 2 /\ snap = {} /\ count = 0 /\ data = 0

(* No function was set, so that rounds do nothing but change heaps.        *)
EmptyRounds == ~func => snap = {} /\ data = 0 /\ pc \notin {"running", "storing"}

Resting == {"begin", "ending", "waiting", "exited"}

(* Between rounds the heap that is not the active one holds the result of  *)
(* the last round and its snapshot; in a round the heap that is used has a *)
(* snapshot as well, until the one of the round before is rewound.         *)
RoundsTakeTurns ==
    func =>
        /\ pc \in Resting /\ count = 0 => group = 2 /\ snap = {} /\ data = 0
        /\ pc \in Resting /\ count > 0 => snap = {3 - group}
        /\ pc \in {"running", "storing", "stored"} =>
              /\ prev = 3 - group
              /\ snap = IF count = 0 THEN {group} ELSE {1, 2}
        /\ pc \in {"running", "storing"} => data \in {0, 3 - group}
                                            /\ (count = 0 => data = 0)
        /\ pc = "stored" => data \in {0, group}
        /\ pc = "swappedFirst" => prev = group /\ snap = {3 - group}
        /\ pc = "swapped" => prev = group /\ snap = {1, 2}
        /\ pc \in {"swapped", "swappedFirst"} => count > 0
        /\ pc \in Resting \cup {"swapped", "swappedFirst"} =>
              data \in {0, 3 - group}

(* What holds of a thread whose function neither raises nor is changed     *)
(* after start().                                                          *)
ProperUse ==
    /\ trap # "round"
    /\ "start" \in once => main # "settingFunc"
    /\ NotStarted /\ EmptyRounds /\ RoundsTakeTurns

IInv == Typed /\ (~misused => ProperUse)

-----------------------------------------------------------------------------

LEMMA InvInit == Init => IInv
<1> SUFFICES ASSUME Init PROVE IInv
  OBVIOUS
<1>1. susp \in 0..MaxSuspend /\ count \in 0..MaxCount
  BY ThreadAssumption DEF Init
<1>2. group \in 1..2 /\ prev \in 0..2 /\ data \in 0..2
  BY DEF Init
<1>3. Typed
  BY <1>1, <1>2 DEF Init, Typed, HeapTypes, FlagTypes, PlaceTypes, ReaderReads
<1>4. ~func /\ susp > 0
  BY DEF Init
<1>5. ProperUse
  BY <1>4 DEF Init, ProperUse, NotStarted, EmptyRounds, RoundsTakeTurns
<1> QED
  BY <1>3, <1>5 DEF IInv

(* The types, one step at a time.                                          *)
LEMMA HeapTypesStep == HeapTypes /\ [Next]_vars => HeapTypes'
<1> SUFFICES ASSUME HeapTypes, [Next]_vars PROVE HeapTypes'
  OBVIOUS
<1> USE DEF HeapTypes, heapVars
<1>1. CASE BeginRound
  BY <1>1 DEF BeginRound
<1>2. CASE UNCHANGED heapVars
  BY <1>2
<1>3. ASSUME NEW result \in {0, group}, StoreData(result) PROVE HeapTypes'
  BY <1>3 DEF StoreData
<1>4. CASE Swap
  BY <1>4, ThreadAssumption DEF Swap
<1>5. CASE Rewind
  BY <1>5 DEF Rewind
<1>6. CASE SkipRound \/ Raise \/ LockData \/ SkipRewind \/ EndRounds \/ TimeOut
           \/ HearShutdown
  BY <1>2, <1>6 DEF SkipRound, Raise, LockData, SkipRewind, EndRounds, TimeOut,
                    HearShutdown
<1>7. CASE WorkStep \/ MainStep \/ Choice
  BY <1>2, <1>7
     DEF WorkStep, SignalShutdown, AwaitThread, UpdateTimes, WorkOnly, MainStep,
         Choice, StoreFunc, LockShared, GotData, RunErrors, SetFunc,
         SetInterval, Start, StartFails, Suspend, Shutdown,
       GetData, MainOnly
<1>8. CASE UNCHANGED vars
  BY <1>2, <1>8 DEF vars
<1> QED
  BY <1>1, <1>3, <1>4, <1>5, <1>6, <1>7, <1>8 DEF Next, ThreadStep

LEMMA FlagTypesStep == FlagTypes /\ [Next]_vars => FlagTypes'
BY Zenon
   DEF FlagTypes, Next, ThreadStep, BeginRound, SkipRound, Raise, LockData,
       StoreData, Swap, Rewind, SkipRewind, EndRounds, TimeOut, HearShutdown,
       ThreadOnly, WorkStep, SignalShutdown, AwaitThread, UpdateTimes,
       WorkOnly, MainStep, Choice, StoreFunc, LockShared, GotData, RunErrors,
       SetFunc, SetInterval, Start, StartFails, Suspend, Shutdown,
       GetData, MainOnly, vars,
       flagVars

LEMMA PlaceTypesStep == PlaceTypes /\ [Next]_vars => PlaceTypes'
BY ZenonT(30) DEF PlaceTypes, Next, ThreadStep, BeginRound, SkipRound, Raise, LockData,
       StoreData, Swap, Rewind, SkipRewind, EndRounds, TimeOut, HearShutdown,
       ThreadOnly, WorkStep, SignalShutdown, AwaitThread, UpdateTimes,
       WorkOnly, MainStep, Choice, StoreFunc, LockShared, GotData, RunErrors,
       SetFunc, SetInterval, Start, StartFails, Suspend, Shutdown, ShutdownOnce,
       GetData,
       MainOnly, vars, flagVars

LEMMA TypedStep == Typed /\ [Next]_vars => Typed'
<1> SUFFICES ASSUME Typed, [Next]_vars PROVE Typed'
  OBVIOUS
<1>1. HeapTypes' /\ FlagTypes' /\ PlaceTypes'
  BY HeapTypesStep, FlagTypesStep, PlaceTypesStep DEF Typed
<1>2. susp' \in 0..MaxSuspend
  BY ThreadAssumption
     DEF Typed, Next, ThreadStep, BeginRound, SkipRound, Raise, LockData,
       StoreData, Swap, Rewind, SkipRewind, EndRounds, TimeOut, HearShutdown,
       ThreadOnly, WorkStep, SignalShutdown, AwaitThread, UpdateTimes,
       WorkOnly, MainStep, Choice, StoreFunc, LockShared, GotData, RunErrors,
       SetFunc, SetInterval, Start, StartFails, Suspend, Shutdown,
       GetData, MainOnly, vars,
       flagVars, Resumed
<1>3. ReaderReads'
  <2>1. data' = data \/ pc = "storing"
    BY DEF Next, ThreadStep, BeginRound, SkipRound, Raise, LockData,
       StoreData, Swap, Rewind, SkipRewind, EndRounds, TimeOut, HearShutdown,
       WorkStep, SignalShutdown, AwaitThread, UpdateTimes,
       WorkOnly, MainStep, Choice, StoreFunc, LockShared, GotData, RunErrors,
       SetFunc, SetInterval, Start, StartFails, Suspend, Shutdown,
       GetData, MainOnly, vars,
       heapVars, At
  <2>2. \/ reader' = reader \/ reader' = {}
        \/ reader' = {data} /\ pc # "storing" /\ pc' = pc
    BY DEF Next, ThreadStep, BeginRound, SkipRound, Raise, LockData,
       StoreData, Swap, Rewind, SkipRewind, EndRounds, TimeOut, HearShutdown,
       ThreadOnly, WorkStep, SignalShutdown, AwaitThread, UpdateTimes,
       WorkOnly, MainStep, Choice, StoreFunc, LockShared, GotData, RunErrors,
       SetFunc, SetInterval, Start, StartFails, Suspend, Shutdown,
       GetData, MainOnly, vars
  <2>3. pc' = "storing" => pc = "storing" \/ (reader = {} /\ reader' = reader)
    BY DEF Next, ThreadStep, BeginRound, SkipRound, Raise, LockData,
       StoreData, Swap, Rewind, SkipRewind, EndRounds, TimeOut, HearShutdown,
       ThreadOnly, WorkStep, SignalShutdown, AwaitThread, UpdateTimes,
       WorkOnly, MainStep, Choice, StoreFunc, LockShared, GotData, RunErrors,
       SetFunc, SetInterval, Start, StartFails, Suspend, Shutdown,
       GetData, MainOnly, vars
  <2> QED
    BY <2>1, <2>2, <2>3 DEF Typed, ReaderReads
<1> QED
  BY <1>1, <1>2, <1>3 DEF Typed

(* The turns of the heaps.  The thread takes a step only once started, so  *)
(* that its function is what it was when it was.                           *)
LEMMA ProperUseStep ==
    Typed /\ ProperUse /\ ~misused' /\ ~misused /\ [Next]_vars => ProperUse'
<1> SUFFICES ASSUME Typed, ProperUse, ~misused', ~misused, [Next]_vars
             PROVE ProperUse'
  OBVIOUS
<1> USE ThreadAssumption DEF heapVars
<1>0. /\ group \in {1, 2} /\ 3 - group \in {1, 2} /\ 3 - group # group
      /\ {group, 3 - group} = {1, 2}
      /\ count \in Nat
  BY DEF Typed, HeapTypes
<1> DEFINE Turns == "start" \in once /\ EmptyRounds /\ RoundsTakeTurns
<1>a. ASSUME ThreadOnly, Turns, Turns', trap' # "round" PROVE ProperUse'
  BY <1>a DEF ThreadOnly, ProperUse, NotStarted
<1>b. ASSUME NEW place, At(place) PROVE Turns /\ trap # "round"
  BY <1>b DEF At, Runs, ProperUse, NotStarted
<1>1. CASE BeginRound
  <2>1. Turns /\ At("begin") /\ func
    BY <1>1, <1>b DEF BeginRound
  <2>2. group \notin snap /\ trap' # "round"
    BY <1>0, <1>1, <1>b, <2>1 DEF RoundsTakeTurns, Resting, BeginRound, At
  <2>3. snap' = IF count = 0 THEN {group} ELSE {1, 2}
    BY <1>0, <1>1, <2>1 DEF RoundsTakeTurns, Resting, BeginRound, At
  <2> QED
    BY <1>0, <1>1, <1>a, <2>1, <2>2, <2>3
       DEF RoundsTakeTurns, Resting, EmptyRounds, BeginRound, ThreadOnly, At
<1>2. CASE SkipRound
  BY <1>2, <1>a, <1>b
     DEF RoundsTakeTurns, Resting, EmptyRounds, SkipRound, ThreadOnly, At
<1>3. CASE Raise
  BY <1>3 DEF Raise
<1>4. CASE LockData
  BY <1>4, <1>a, <1>b
     DEF RoundsTakeTurns, Resting, EmptyRounds, LockData, ThreadOnly, At
<1>5. ASSUME NEW result \in {0, group}, StoreData(result) PROVE ProperUse'
  BY <1>0, <1>5, <1>a, <1>b
     DEF RoundsTakeTurns, Resting, EmptyRounds, StoreData, ThreadOnly, At
<1>6. CASE Swap
  <2>1. Turns /\ At("stored")
    BY <1>6, <1>b DEF Swap
  <2>2. /\ func' = func /\ snap' = snap /\ prev' = prev /\ data' = data
        /\ group' = 3 - group /\ 3 - group' = group /\ trap' # "round"
        /\ pc' = IF count = 0 THEN "swappedFirst" ELSE "swapped"
        /\ count' > 0 /\ "start" \in once'
    BY <1>0, <1>6, <1>b, <2>1 DEF Swap, ThreadOnly
  <2>3. func => prev = group' /\ data \in {0, 3 - group'}
    BY <2>1, <2>2 DEF RoundsTakeTurns, At
  <2>4. func => snap = IF count = 0 THEN {3 - group'} ELSE {1, 2}
    BY <2>1, <2>2 DEF RoundsTakeTurns, At
  <2> QED
    BY <1>6, <1>a, <2>1, <2>2, <2>3, <2>4
       DEF RoundsTakeTurns, Resting, EmptyRounds, Swap
<1>7. CASE Rewind
  <2>1. Turns /\ (At("swappedFirst") \/ At("swapped")) /\ func
    BY <1>7, <1>b DEF Rewind
  <2>2. prev = group /\ snap' = {3 - group} /\ trap' # "round"
    BY <1>0, <1>7, <1>b, <2>1 DEF RoundsTakeTurns, Rewind, At
  <2>3. count > 0
    BY <2>1 DEF RoundsTakeTurns, At
  <2> QED
    BY <1>0, <1>7, <1>a, <2>1, <2>2, <2>3
       DEF RoundsTakeTurns, Resting, EmptyRounds, Rewind, ThreadOnly, At
<1>8. CASE SkipRewind
  BY <1>8, <1>a, <1>b
     DEF RoundsTakeTurns, Resting, EmptyRounds, SkipRewind, ThreadOnly, At
<1>9. CASE EndRounds \/ TimeOut \/ HearShutdown
  BY <1>9, <1>a, <1>b
     DEF RoundsTakeTurns, Resting, EmptyRounds, EndRounds, TimeOut,
         HearShutdown, ThreadOnly, At
<1>10. CASE WorkStep
  BY <1>10
     DEF WorkStep, SignalShutdown, AwaitThread, UpdateTimes, WorkOnly,
         ProperUse, NotStarted, RoundsTakeTurns, Resting, EmptyRounds
<1>11. CASE SetFunc \/ StoreFunc
  <2>1. /\ "start" \notin once /\ once' = once /\ susp' = susp
        /\ pc' = pc /\ group' = group /\ snap' = snap /\ count' = count
        /\ data' = data /\ trap' = trap
    BY <1>11 DEF SetFunc, StoreFunc, MainOnly, User, ProperUse
  <2>2. /\ susp > 0 /\ pc = "begin" /\ group = 2 /\ snap = {}
        /\ count = 0 /\ data = 0
    BY <2>1 DEF ProperUse, NotStarted
  <2> QED
    BY <2>1, <2>2
       DEF ProperUse, NotStarted, RoundsTakeTurns, Resting, EmptyRounds
<1>12. CASE (\E ms \in BOOLEAN : SetInterval(ms)) \/ Start \/ StartFails
           \/ Suspend
  BY <1>12
     DEF SetInterval, Start, StartFails, Suspend, MainOnly, User, Typed,
         ProperUse, NotStarted, RoundsTakeTurns, Resting, EmptyRounds
<1>13. CASE Shutdown \/ RunErrors
  BY <1>13
     DEF Shutdown, RunErrors, ShutdownOnce, MainOnly, User,
         ProperUse, NotStarted, RoundsTakeTurns, Resting, EmptyRounds
<1>14. CASE GetData \/ LockShared \/ GotData \/ UNCHANGED vars
  BY <1>14
     DEF GetData, LockShared, GotData, MainOnly, User, vars, flagVars,
         ProperUse, NotStarted, RoundsTakeTurns, Resting, EmptyRounds
<1> QED
  BY <1>1, <1>2, <1>3, <1>4, <1>5, <1>6, <1>7, <1>8, <1>9, <1>10, <1>11,
     <1>12, <1>13, <1>14
     DEF Next, ThreadStep, MainStep, Choice

LEMMA InvStep == IInv /\ [Next]_vars => IInv'
<1> SUFFICES ASSUME IInv, [Next]_vars PROVE IInv'
  OBVIOUS
<1>1. Typed'
  BY TypedStep DEF IInv
<1>2. ASSUME ~misused' PROVE ~misused
  BY <1>2, Zenon
     DEF Next, ThreadStep, BeginRound, SkipRound, Raise, LockData, StoreData,
       Swap, Rewind, SkipRewind, EndRounds, TimeOut, HearShutdown, WorkStep,
       SignalShutdown, AwaitThread, UpdateTimes, WorkOnly, MainStep, Choice,
       StoreFunc, LockShared, GotData, RunErrors, SetFunc, SetInterval, Start,
       StartFails, Suspend, Shutdown, GetData, vars, flagVars
<1> QED
  BY <1>1, <1>2, ProperUseStep DEF IInv

-----------------------------------------------------------------------------

(* The inductive invariant holds in every reachable state, for every bound *)
(* of the counter and of the calls of suspend().                           *)
THEOREM Invariance == Spec => []IInv
BY InvInit, InvStep, PTL DEF Spec

(* The types of the variables.                                             *)
THEOREM TypeCorrect == Spec => []TypeOK
<1>1. IInv => TypeOK
  <2> SUFFICES ASSUME IInv PROVE TypeOK
    OBVIOUS
  <2>1. data \in 0..2 /\ (reader = {} \/ reader = {data})
    BY DEF IInv, Typed, ReaderReads, HeapTypes
  <2>2. Cardinality({}) = 0 /\ Cardinality({data}) = 1
    BY FS_EmptySet, FS_Singleton
  <2>3. reader \subseteq 0..2 /\ Cardinality(reader) <= 1
    BY <2>1, <2>2
  <2> QED
    BY <2>3 DEF IInv, Typed, HeapTypes, FlagTypes, PlaceTypes, TypeOK
<1> QED
  BY <1>1, Invariance, PTL

(* A function that does not raise and is set before start() never meets    *)
(* the __debugbreak()s of PxThread_Main(): the heaps and their snapshots   *)
(* take turns in every interleaving with suspend() and a new interval.     *)
THEOREM RoundsAreSound == Spec => []RoundsSound
<1>1. IInv => RoundsSound
  BY DEF IInv, ProperUse, RoundsSound
<1> QED
  BY <1>1, Invariance, PTL

(* t->data and what pxthread_get_data() copies of it are in a heap that is *)
(* not rewound while they are there.                                       *)
THEOREM DataIsKept == Spec => []DataStays
<1>1. IInv => DataStays
  <2> SUFFICES ASSUME IInv, ~misused, data # 0 PROVE data \in snap
    BY DEF IInv, Typed, ReaderReads, DataStays
  <2>1. /\ group \in {1, 2} /\ data \in {1, 2} /\ 3 - group # group
        /\ {group, 3 - group} = {1, 2} /\ count \in Nat
    BY DEF IInv, Typed, HeapTypes
  <2>2. func /\ RoundsTakeTurns
    BY DEF IInv, ProperUse, EmptyRounds
  <2>3. CASE pc \in Resting
    BY <2>1, <2>2, <2>3 DEF RoundsTakeTurns, Resting
  <2>4. CASE pc \in {"running", "storing", "stored"}
    BY <2>1, <2>2, <2>4 DEF RoundsTakeTurns
  <2>5. CASE pc \in {"swapped", "swappedFirst"}
    BY <2>1, <2>2, <2>5 DEF RoundsTakeTurns
  <2> QED
    BY <2>3, <2>4, <2>5 DEF IInv, Typed, PlaceTypes, Resting
<1> QED
  BY <1>1, Invariance, PTL

(* The three above together: the heaps of a thread take turns.             *)
THEOREM ThreadHeapsTakeTurns == Spec => []HeapsTakeTurns
BY TypeCorrect, RoundsAreSound, DataIsKept, PTL DEF HeapsTakeTurns

=============================================================================
