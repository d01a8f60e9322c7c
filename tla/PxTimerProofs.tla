---------------------------- MODULE PxTimerProofs ----------------------------
(***************************************************************************)
(* Proofs about the timer of PxTimer, for any number of threads of the     *)
(* pool, queued callbacks and references, and whatever value t->count      *)
(* wraps at: the heaps take turns, the data is kept and the timer is freed *)
(* when no callback is left.  None of them is about programs that start    *)
(* the timer again after its shutdown, and what they say of the heaps is   *)
(* about functions that do not raise: the code does not keep its word to   *)
(* others.                                                                 *)
(***************************************************************************)
EXTENDS PxTimer, FiniteSetTheorems, TLAPS

-----------------------------------------------------------------------------
(* Types                                                                   *)

HeapTypes ==
    /\ group \in 1..2 /\ snap \subseteq 1..2
    /\ count \in 0..MaxCount /\ data \in 0..2
    /\ reader = {} \/ reader = {data}

PlaceTypes ==
    /\ once \subseteq {"start", "stop", "shutdown"}
    /\ flags \subseteq Flags
    /\ cb \in [Pool -> {"none", "entered", "trying", "running", "stored"}
                          \cup AtFlags]
    /\ cs \in Pool \cup {NoOne}
    /\ work \in {"none", "submitted", "waiting", "closing", "completing",
                 "done"}
    /\ lists \subseteq Lists
    /\ state \in {"alive", "freed", "trap"}

RecordTypes ==
    /\ tp \in [set : BOOLEAN, queued : 0..MaxQueued, open : BOOLEAN]
    /\ refs \in [cnt : Int, px : BOOLEAN, program : 0..MaxRefs]
    /\ main \in [pc : {"user", "starting", "stopping", "unsetting",
                       "submitting", "setting", "errors", "completed"},
                 shut : BOOLEAN, next : {"user", "completed"}]

Typed == HeapTypes /\ PlaceTypes /\ RecordTypes

LEMMA TypedInit == Init => Typed
<1> SUFFICES ASSUME Init PROVE Typed
  OBVIOUS
<1>1. HeapTypes
  BY TimerAssumption DEF Init, HeapTypes
<1>2. PlaceTypes
  BY DEF Init, PlaceTypes
<1>3. RecordTypes
  BY TimerAssumption DEF Init, RecordTypes
<1> QED
  BY <1>1, <1>2, <1>3 DEF Typed

LEMMA HeapTypesStep == HeapTypes /\ [Next]_vars => HeapTypes'
<1> SUFFICES ASSUME HeapTypes, [Next]_vars PROVE HeapTypes'
  OBVIOUS
<1> USE DEF HeapTypes, heapVars
<1>1. ASSUME NEW p \in Pool, Begin(p) PROVE HeapTypes'
  BY <1>1 DEF Begin
<1>2. ASSUME NEW p \in Pool, NEW r \in {0, group}, StoreData(p, r)
      PROVE HeapTypes'
  BY <1>2 DEF StoreData
<1>3. ASSUME NEW p \in Pool, Swap(p) PROVE HeapTypes'
  BY <1>3, TimerAssumption DEF Swap
<1>4. ASSUME UNCHANGED <<heapVars, reader>> PROVE HeapTypes'
  BY <1>4
<1>5. ASSUME NEW p \in Pool,
             EnterCallback(p) \/ TestStop(p) \/ RegisterStop(p) \/ TryEnter(p)
               \/ Raise(p) \/ End(p)
      PROVE HeapTypes'
  BY <1>4, <1>5 DEF EnterCallback, TestStop, RegisterStop, TryEnter, Raise, End,
                    CbOnly
<1>6. CASE WorkStep \/ Expire
  BY <1>4, <1>6 DEF WorkStep, CancelCallbacks, AwaitCallbacks, CloseTimer,
                    CallbackComplete, WorkOnly, Expire
<1>7. CASE GetData \/ GotData
  BY <1>7 DEF GetData, GotData, MainOnly
<1>8. CASE StartOnce \/ RequestStop \/ UnsetTimer \/ SubmitShutdown \/ SetAgain
           \/ RunOnce \/ RunErrors \/ RunCompleted
  BY <1>4, <1>8 DEF StartOnce, RequestStop, UnsetTimer, SubmitShutdown, SetAgain,
                    RunOnce, RunErrors, RunCompleted, MainOnly
<1>9. CASE Start \/ Stop \/ Shutdown \/ SetPeriod \/ LetGo
  BY <1>4, <1>9 DEF Start, Stop, Shutdown, SetPeriod, LetGo, MainOnly
<1>10. CASE UNCHANGED vars
  BY <1>4, <1>10 DEF vars
<1> QED
  BY <1>1, <1>2, <1>3, <1>5, <1>6, <1>7, <1>8, <1>9, <1>10
     DEF Next, CallbackStep, MainStep, Choice

LEMMA PlaceTypesStep == PlaceTypes /\ [Next]_vars => PlaceTypes'
<1> SUFFICES ASSUME PlaceTypes, [Next]_vars PROVE PlaceTypes'
  OBVIOUS
<1> USE DEF PlaceTypes, Flags, AtFlags, Lists
<1>1. ASSUME NEW p \in Pool, EnterCallback(p) \/ TestStop(p) \/ RegisterStop(p)
                               \/ TryEnter(p)
      PROVE PlaceTypes'
  BY <1>1 DEF EnterCallback, TestStop, RegisterStop, TryEnter, CbGoes, CbOnly,
              CallbackFlags
<1>2. ASSUME NEW p \in Pool, Begin(p) \/ Raise(p) \/ End(p)
      PROVE PlaceTypes'
  BY <1>2 DEF Begin, Raise, End, CbGoes, CbOnly, CallbackFlags
<1>3. ASSUME NEW p \in Pool, Swap(p) \/ \E r \in {0, group} : StoreData(p, r)
      PROVE PlaceTypes'
  BY <1>3 DEF StoreData, Swap, CbGoes
<1>4. CASE WorkStep \/ Expire
  BY <1>4 DEF WorkStep, CancelCallbacks, AwaitCallbacks, CloseTimer,
              CallbackComplete, WorkOnly, Expire
<1>5. CASE StartOnce \/ RequestStop \/ UnsetTimer
  BY <1>5 DEF StartOnce, RequestStop, UnsetTimer, MainFlags, MainOnly
<1>6. CASE SubmitShutdown \/ SetAgain \/ GotData
  BY <1>6 DEF SubmitShutdown, SetAgain, GotData, MainOnly
<1>7. CASE RunOnce \/ RunErrors \/ RunCompleted
  BY <1>7 DEF RunOnce, RunErrors, RunCompleted, ShutdownTo, MainFlags, MainOnly
<1>8. CASE Choice
  BY <1>8 DEF Choice, Start, Stop, Shutdown, SetPeriod, GetData, LetGo,
              ShutdownTo, MainFlags, MainOnly
<1>9. CASE UNCHANGED vars
  BY <1>9 DEF vars
<1> QED
  BY <1>1, <1>2, <1>3, <1>4, <1>5, <1>6, <1>7, <1>8, <1>9
     DEF Next, CallbackStep, MainStep

TimerRecords == [set : BOOLEAN, queued : 0..MaxQueued, open : BOOLEAN]
RefRecords == [cnt : Int, px : BOOLEAN, program : 0..MaxRefs]
MainRecords == [pc : {"user", "starting", "stopping", "unsetting",
                      "submitting", "setting", "errors", "completed"},
                shut : BOOLEAN, next : {"user", "completed"}]

(* What the actions put in place of the fields of a record.                *)
LEMMA TimerFields ==
    ASSUME NEW t \in TimerRecords,
           NEW s \in BOOLEAN, NEW o \in BOOLEAN, NEW q \in 0..MaxQueued
    PROVE  /\ [t EXCEPT !.set = s, !.queued = q] \in TimerRecords
           /\ [t EXCEPT !.set = s, !.open = o] \in TimerRecords
BY Zenon DEF TimerRecords

LEMMA RefFields ==
    ASSUME NEW r \in RefRecords, NEW b \in BOOLEAN, NEW n \in Int,
           NEW k \in 0..MaxRefs
    PROVE  /\ [r EXCEPT !.cnt = n, !.px = b] \in RefRecords
           /\ [r EXCEPT !.program = k] \in RefRecords
BY Zenon DEF RefRecords

LEMMA RefCount ==
    ASSUME NEW r \in RefRecords, NEW n \in Int
    PROVE  [r EXCEPT !.cnt = n] \in RefRecords
BY Zenon DEF RefRecords

LEMMA RecordTypesStep == RecordTypes /\ [Next]_vars => RecordTypes'
<1> SUFFICES ASSUME RecordTypes, [Next]_vars PROVE RecordTypes'
  OBVIOUS
<1> USE TimerAssumption DEF RecordTypes
<1>1. ASSUME NEW p \in Pool, EnterCallback(p) PROVE RecordTypes'
  BY <1>1 DEF EnterCallback, CbOnly
<1>2. ASSUME UNCHANGED <<tp, refs, main>> PROVE RecordTypes'
  BY <1>2
<1>3. ASSUME NEW p \in Pool,
             TestStop(p) \/ RegisterStop(p) \/ TryEnter(p) \/ Begin(p)
               \/ (\E r \in {0, group} : StoreData(p, r)) \/ Swap(p)
               \/ Raise(p) \/ End(p)
      PROVE RecordTypes'
  BY <1>2, <1>3 DEF TestStop, RegisterStop, TryEnter, Begin, StoreData, Swap,
                    Raise, End, CbOnly
<1>4. CASE CancelCallbacks \/ AwaitCallbacks \/ CallbackComplete
  BY <1>4 DEF CancelCallbacks, AwaitCallbacks, CallbackComplete, WorkOnly
<1>5. CASE CloseTimer
  <2>1. /\ tp' = [tp EXCEPT !.set = FALSE, !.open = FALSE]
        /\ refs' = [refs EXCEPT !.cnt = refs.cnt - 1, !.px = FALSE]
        /\ main' = main
    BY <1>5 DEF CloseTimer, WorkOnly
  <2>2. tp.queued \in 0..MaxQueued /\ refs.cnt - 1 \in Int
    OBVIOUS
  <2> QED
    BY <2>1, <2>2, TimerFields, RefFields, ZenonT(30) DEF TimerRecords, RefRecords
<1>6. CASE Expire
  <2>1. /\ tp' = [tp EXCEPT !.set = Periodic, !.queued = tp.queued + 1]
        /\ refs' = refs /\ main' = main /\ tp.queued < MaxQueued
    BY <1>6 DEF Expire
  <2>2. tp.queued + 1 \in 0..MaxQueued
    BY <2>1
  <2> QED
    BY <2>1, <2>2, TimerFields, Zenon DEF TimerRecords
<1>7. CASE StartOnce \/ RequestStop \/ SetAgain
  BY ZenonT(30), <1>7 DEF StartOnce, RequestStop, SetAgain, Set, MainGoes, MainOnly
<1>8. CASE UnsetTimer
  <2>1. refs' \in RefRecords
    BY <1>8 DEF UnsetTimer, RefRecords
  <2>2. main' \in MainRecords
    BY <1>8 DEF UnsetTimer, MainGoes, MainRecords
  <2>3. tp' = tp \/ \E q \in 0..MaxQueued :
                       tp' = [tp EXCEPT !.set = FALSE, !.queued = q]
    BY <1>8 DEF UnsetTimer, Unset
  <2>4. tp' \in TimerRecords
    <3>1. CASE tp' = tp
      BY <3>1 DEF TimerRecords
    <3>2. CASE tp' # tp
      <4>1. PICK q \in 0..MaxQueued :
              tp' = [tp EXCEPT !.set = FALSE, !.queued = q]
        BY <2>3, <3>2
      <4>2. tp \in TimerRecords /\ FALSE \in BOOLEAN
        BY DEF TimerRecords
      <4> QED
        BY <4>1, <4>2, TimerFields, Zenon
    <3> QED
      BY <3>1, <3>2
  <2> QED
    BY <2>1, <2>2, <2>4 DEF TimerRecords, RefRecords, MainRecords
<1>9. CASE SubmitShutdown \/ GotData
  BY <1>9 DEF SubmitShutdown, GotData, MainOnly
<1>10. CASE RunOnce \/ RunCompleted
  BY <1>10 DEF RunOnce, RunCompleted, Decref, MainGoes, MainOnly
<1>11. CASE RunErrors \/ Shutdown
  <2>1. tp' = tp /\ refs' = refs
    BY <1>11 DEF RunErrors, Shutdown, MainOnly
  <2>2. \E next \in {"user", "completed"} :
          \/ main' = [main EXCEPT !.pc = next]
          \/ \E place \in {"submitting", "stopping"} :
                main' = [pc |-> place, shut |-> TRUE, next |-> next]
    BY <1>11 DEF RunErrors, Shutdown, ShutdownTo, MainGoes
  <2>3. main' \in MainRecords
    <3>1. PICK next \in {"user", "completed"} :
            \/ main' = [main EXCEPT !.pc = next]
            \/ \E place \in {"submitting", "stopping"} :
                  main' = [pc |-> place, shut |-> TRUE, next |-> next]
      BY <2>2
    <3>2. CASE main' = [main EXCEPT !.pc = next]
      BY <3>2 DEF MainRecords
    <3>3. CASE main' # [main EXCEPT !.pc = next]
      <4>1. PICK place \in {"submitting", "stopping"} :
              main' = [pc |-> place, shut |-> TRUE, next |-> next]
        BY <3>1, <3>3
      <4> QED
        BY <4>1 DEF MainRecords
    <3> QED
      BY <3>2, <3>3
  <2> QED
    BY <2>1, <2>3 DEF MainRecords
<1>12. CASE Start \/ Stop \/ SetPeriod \/ GetData
  BY <1>12 DEF Start, Stop, SetPeriod, GetData, MainGoes, MainOnly
<1>13. CASE LetGo
  <2> DEFINE left == [refs EXCEPT !.program = refs.program - 1]
  <2>1. /\ tp' = tp /\ main' = main /\ refs' = Decref(left)
        /\ refs.program > 0
    BY <1>13 DEF LetGo, Holds, MainOnly
  <2>2. refs.program - 1 \in 0..MaxRefs
    BY <2>1
  <2>3. refs \in RefRecords
    BY DEF RefRecords
  <2>4. left \in RefRecords
    BY <2>2, <2>3, RefFields, Zenon
  <2>5. left.cnt - 1 \in Int
    BY <2>4 DEF RefRecords
  <2>6. refs' = left \/ refs' = [left EXCEPT !.cnt = left.cnt - 1]
    BY <2>1 DEF Decref
  <2> HIDE DEF left
  <2>7. refs' \in RefRecords
    BY <2>4, <2>5, <2>6, RefCount, SMTT(30)
  <2> QED
    BY <2>1, <2>7 DEF RefRecords
<1>14. CASE UNCHANGED vars
  BY <1>2, <1>14 DEF vars
<1> QED
  BY <1>1, <1>3, <1>4, <1>5, <1>6, <1>7, <1>8, <1>9, <1>10, <1>11, <1>12, <1>13,
     <1>14
     DEF Next, CallbackStep, WorkStep, MainStep, Choice

LEMMA TypedStep == Typed /\ [Next]_vars => Typed'
BY HeapTypesStep, PlaceTypesStep, RecordTypesStep DEF Typed

-----------------------------------------------------------------------------
(* The invariant                                                           *)

(* t->cs is owned by the one callback that has got it.                     *)
Locked == {"locked", "running", "stored", "ending"}
LockHeld == \A p \in Pool : cb[p] \in Locked <=> cs = p

(* Between two runs the heap that is not the active one holds the result of*)
(* the last run and its snapshot.                                          *)
Rest ==
    /\ count = 0 => group = 2 /\ snap = {} /\ data = 0
    /\ count > 0 => snap = {3 - group}
    /\ data \in {0, 3 - group}

(* In a run the active heap has a snapshot as well, ...                    *)
InUse == snap = IF count = 0 THEN {group} ELSE {1, 2}

HeapsTurn ==
    /\ (\A p \in Pool : cb[p] \notin {"running", "stored"}) => Rest
    /\ \A p \in Pool :
          /\ cb[p] = "running" => InUse /\ data \in {0, 3 - group}
                                  /\ (count = 0 => data = 0)
          /\ cb[p] = "stored" => InUse /\ data \in {0, group}

(* The timer is open until the shutdown work closes it, ...                *)
Open == work \notin {"completing", "done"}

(* ... a stop unsets it, after which only start() sets it again, ...       *)
StopUnsets ==
    /\ "stop" \in once /\ main.pc # "unsetting" => ~tp.set
    /\ main.pc = "setting" => "stop" \notin once
    /\ main.pc = "stopping" => "stop" \notin once
    /\ main.pc \in {"unsetting", "submitting"} => "stop" \in once

(* ... and a shutdown, which is done once, stops it first.                 *)
ShutOnce ==
    /\ main.shut => /\ "shutdown" \in once /\ work = "none"
                    /\ main.pc \in {"stopping", "unsetting", "submitting"}
    /\ main.pc = "submitting" => main.shut
    /\ "shutdown" \in once /\ ~main.shut =>
          "stop" \in once /\ main.pc \in {"user", "errors", "completed"}
    /\ work # "none" => "shutdown" \in once /\ ~main.shut
    /\ tp.open <=> Open

(* Who waits for the callbacks finds none, and none comes after them.      *)
Drained ==
    /\ work \in {"waiting", "closing", "completing", "done"} => tp.queued = 0
    /\ work \in {"closing", "completing", "done"} =>
          \A p \in Pool : cb[p] = "none"

(* The run loop gives up the last reference with the completion, unless    *)
(* the program did so before it.                                           *)
Counted ==
    /\ refs.px <=> Open
    /\ lists \ {"errors"} \in {{}, {"completed_callbacks"}, {"finished"}}
    /\ lists \subseteq {"errors"} \/ work = "done"
    /\ "errors" \in lists => "raise" \in Does
    /\ state = "alive" => refs.cnt = IF refs.px THEN 2 ELSE 1
    /\ state = "freed" => ~Open /\ refs.cnt = 0
    /\ state = "freed" /\ "letGoLate" \notin Does
          => work = "done" /\ lists \subseteq {"errors"}

(* These hold whatever the function does, ...                              *)
EndInv == Typed /\ StopUnsets /\ ShutOnce /\ Drained /\ Counted

(* ... and these if it does not raise.                                     *)
IInv == EndInv /\ LockHeld /\ HeapsTurn /\ state # "trap"

LEMMA InvInit == Init => IInv /\ EndInv
<1> SUFFICES ASSUME Init PROVE IInv
  BY DEF IInv
<1>1. LockHeld
  BY TimerAssumption DEF Init, LockHeld, Locked
<1>2. HeapsTurn
  BY DEF Init, HeapsTurn, Rest
<1>3. StopUnsets /\ ShutOnce
  BY DEF Init, StopUnsets, ShutOnce, Open
<1>4. Drained /\ Counted
  BY DEF Init, Drained, Counted, Open
<1> QED
  BY <1>1, <1>2, <1>3, <1>4, TypedInit DEF EndInv, IInv, Init

(* What the steps of others leave alone.                                   *)
LEMMA Others ==
    ASSUME [Next]_vars
    PROVE  \/ \E p \in Pool : CallbackStep(p)
           \/ UNCHANGED <<cb, cs, heapVars>>
BY DEF Next, WorkStep, CancelCallbacks, AwaitCallbacks, CloseTimer,
       CallbackComplete, WorkOnly, MainStep, StartOnce, RequestStop, UnsetTimer,
       SubmitShutdown, SetAgain, GotData, RunOnce, RunErrors, RunCompleted,
       Choice, Start, Stop, Shutdown, SetPeriod, GetData, LetGo, MainOnly,
       Expire, vars, heapVars

LEMMA LockStep == Typed /\ LockHeld /\ [Next]_vars => LockHeld'
<1> SUFFICES ASSUME Typed, LockHeld, [Next]_vars PROVE LockHeld'
  OBVIOUS
<1>0. cb \in [Pool -> {"none", "entered", "trying", "running", "stored"}
                        \cup AtFlags] /\ NoOne \notin Pool
  BY TimerAssumption DEF Typed, PlaceTypes
<1>1. CASE UNCHANGED <<cb, cs, heapVars>>
  BY <1>1 DEF LockHeld
<1>2. ASSUME NEW p \in Pool, CallbackStep(p) PROVE LockHeld'
  <2>1. CASE EnterCallback(p) \/ TestStop(p) \/ RegisterStop(p)
    BY <1>0, <2>1 DEF EnterCallback, TestStop, RegisterStop, CbGoes, LockHeld,
                      Locked
  <2>2. CASE TryEnter(p)
    BY <1>0, <2>2 DEF TryEnter, CbGoes, LockHeld, Locked
  <2>3. CASE Begin(p) \/ Swap(p) \/ Raise(p) \/ \E r \in {0, group} : StoreData(p, r)
    BY <1>0, <2>3 DEF Begin, Swap, Raise, StoreData, CbGoes, LockHeld, Locked
  <2>4. CASE End(p)
    BY <1>0, <2>4 DEF End, CbGoes, LockHeld, Locked
  <2> QED
    BY <1>2, <2>1, <2>2, <2>3, <2>4 DEF CallbackStep
<1> QED
  BY <1>1, <1>2, Others

(* A run begins and ends with the turns of the heaps, and meets no trap.   *)
LEMMA HeapsStep ==
    Typed /\ LockHeld /\ HeapsTurn /\ "raise" \notin Does /\ [Next]_vars
        => /\ HeapsTurn'
           /\ \A p \in Pool : CallbackStep(p) => state' = state
<1> SUFFICES ASSUME Typed, LockHeld, HeapsTurn, "raise" \notin Does,
                    [Next]_vars
             PROVE  /\ HeapsTurn'
                    /\ \A p \in Pool : CallbackStep(p) => state' = state
  OBVIOUS
<1>0. /\ cb \in [Pool -> {"none", "entered", "trying", "running", "stored"}
                           \cup AtFlags]
      /\ group \in {1, 2} /\ 3 - group \in {1, 2} /\ 3 - group # group
      /\ {group, 3 - group} = {1, 2}
      /\ count \in Nat /\ NoOne \notin Pool
  BY TimerAssumption DEF Typed, PlaceTypes, HeapTypes
<1>1. ASSUME NEW p \in Pool, cb[p] \in Locked,
             NEW q \in Pool, q # p
      PROVE  cb[q] \notin Locked
  BY <1>1 DEF LockHeld
<1>2. ASSUME UNCHANGED <<cb, cs, heapVars>> PROVE HeapsTurn'
  BY <1>2 DEF HeapsTurn, Rest, InUse, heapVars
<1>3. ASSUME NEW p \in Pool, CallbackStep(p)
      PROVE  HeapsTurn' /\ state' = state
  <2>1. CASE EnterCallback(p) \/ TestStop(p) \/ RegisterStop(p) \/ TryEnter(p)
             \/ End(p)
    <3>1. /\ UNCHANGED heapVars /\ state' = state
          /\ \A q \in Pool : cb'[q] \in {"running", "stored"} => cb'[q] = cb[q]
          /\ cb[p] \notin {"running", "stored"}
          /\ \A q \in Pool \ {p} : cb'[q] = cb[q]
      BY <1>0, <2>1 DEF EnterCallback, TestStop, RegisterStop, TryEnter, End,
                        CbGoes, CbOnly
    <3> QED
      BY <3>1 DEF HeapsTurn, Rest, InUse, heapVars
  <2>2. CASE Begin(p)
    <3>1. /\ cb[p] = "locked" /\ cb' = [cb EXCEPT ![p] = "running"]
          /\ \A q \in Pool : cb[q] \notin {"running", "stored"}
      BY <1>1, <2>2 DEF Begin, CbGoes, Locked
    <3>2. Rest
      BY <3>1 DEF HeapsTurn
    <3>3. group \notin snap
      BY <1>0, <3>2 DEF Rest
    <3>4. /\ group' = group /\ count' = count /\ data' = data
          /\ snap' = snap \cup {group} /\ state' = state
      BY <2>2, <3>3 DEF Begin
    <3>5. /\ snap' = IF count = 0 THEN {group} ELSE {1, 2}
          /\ data \in {0, 3 - group} /\ (count = 0 => data = 0)
      BY <1>0, <3>2, <3>4 DEF Rest
    <3>6. \A q \in Pool : cb'[q] # "stored" /\ cb'[p] = "running"
      BY <1>0, <3>1
    <3> QED
      BY <3>4, <3>5, <3>6 DEF HeapsTurn, InUse
  <2>3. ASSUME NEW r \in {0, group}, StoreData(p, r)
        PROVE  HeapsTurn' /\ state' = state
    <3>1. /\ cb[p] = "running" /\ cb' = [cb EXCEPT ![p] = "stored"]
          /\ group' = group /\ count' = count /\ snap' = snap /\ data' = r
          /\ state' = state
      BY <2>3 DEF StoreData, CbGoes
    <3>2. InUse
      BY <3>1 DEF HeapsTurn
    <3>3. \A q \in Pool : cb'[q] # "running" /\ cb'[p] = "stored"
      BY <1>0, <1>1, <3>1 DEF Locked
    <3> QED
      BY <3>1, <3>2, <3>3 DEF HeapsTurn, InUse
  <2>4. CASE Swap(p)
    <3>1. /\ cb[p] = "stored" /\ cb' = [cb EXCEPT ![p] = "ending"]
          /\ group' = 3 - group /\ snap' = snap \ {3 - group} /\ data' = data
          /\ count' > 0
          /\ state' = IF (count = 0) = (3 - group \in snap) THEN "trap"
                                                            ELSE state
      BY <1>0, <2>4, TimerAssumption DEF Swap, CbGoes
    <3>2. InUse /\ data \in {0, group}
      BY <3>1 DEF HeapsTurn
    <3>3. snap' = {group} /\ state' = state
      BY <1>0, <3>1, <3>2 DEF InUse
    <3>4. \A q \in Pool : cb'[q] \notin {"running", "stored"}
      BY <1>0, <1>1, <3>1 DEF Locked
    <3>5. 3 - group' = group
      BY <1>0, <3>1
    <3> QED
      BY <3>1, <3>2, <3>3, <3>4, <3>5 DEF HeapsTurn, Rest
  <2>5. ~Raise(p)
    BY DEF Raise
  <2> QED
    BY <1>3, <2>1, <2>2, <2>3, <2>4, <2>5 DEF CallbackStep
<1> QED
  BY <1>2, <1>3, Others

(* The timer stays unset once it was stopped, and one shutdown is made.    *)
LEMMA ShutdownStep ==
    Typed /\ StopUnsets /\ ShutOnce /\ "restart" \notin Does /\ [Next]_vars
        => StopUnsets' /\ ShutOnce'
<1> SUFFICES ASSUME Typed, StopUnsets, ShutOnce, "restart" \notin Does,
                    [Next]_vars
             PROVE  StopUnsets' /\ ShutOnce'
  OBVIOUS
<1> USE DEF StopUnsets, ShutOnce, Open
<1>0. RecordTypes
  BY DEF Typed
<1>1. ASSUME UNCHANGED <<once, main, work>>, tp'.set => tp.set, tp'.open = tp.open
      PROVE  StopUnsets' /\ ShutOnce'
  BY <1>1
<1>2. ASSUME NEW p \in Pool, CallbackStep(p) PROVE StopUnsets' /\ ShutOnce'
  <2>1. CASE EnterCallback(p)
    BY <1>0, <1>1, <2>1 DEF EnterCallback, CbOnly, RecordTypes
  <2>2. CASE ~EnterCallback(p)
    <3>1. UNCHANGED <<once, main, work, tp>>
      BY <1>2, <2>2 DEF CallbackStep, TestStop, RegisterStop, TryEnter, Begin,
                        StoreData, Swap, Raise, End, CbOnly
    <3> QED
      BY <1>1, <3>1
  <2> QED
    BY <2>1, <2>2
<1>3. CASE Expire
  BY <1>0, <1>1, <1>3 DEF Expire, RecordTypes
<1>4. CASE CancelCallbacks
  BY <1>0, <1>4 DEF CancelCallbacks, WorkOnly, RecordTypes
<1>5. CASE AwaitCallbacks \/ CallbackComplete
  BY <1>5 DEF AwaitCallbacks, CallbackComplete, WorkOnly
<1>6. CASE CloseTimer
  BY <1>0, <1>6 DEF CloseTimer, WorkOnly, RecordTypes
<1>7. CASE StartOnce
  BY <1>0, <1>7 DEF StartOnce, Set, MainGoes, MainOnly, RecordTypes
<1>8. CASE RequestStop
  BY <1>0, <1>8 DEF RequestStop, MainGoes, MainOnly, RecordTypes
<1>9. CASE UnsetTimer
  <2>1. /\ tp.open /\ work = "none" /\ UNCHANGED <<once, work>>
        /\ main.pc = "unsetting"
        /\ main' = [main EXCEPT !.pc = IF main.shut THEN "submitting"
                                                    ELSE "user"]
    BY <1>9 DEF UnsetTimer, MainGoes, MainOnly
  <2>2. PICK q \in 0..MaxQueued : tp' = [tp EXCEPT !.set = FALSE, !.queued = q]
    BY <1>9, <2>1 DEF UnsetTimer, Unset
  <2>3. ~tp'.set /\ tp'.open = tp.open
    BY <1>0, <2>2 DEF RecordTypes
  <2>4. /\ main'.pc = IF main.shut THEN "submitting" ELSE "user"
        /\ main'.shut = main.shut
    BY <1>0, <2>1 DEF RecordTypes
  <2> QED
    BY <2>1, <2>3, <2>4
<1>10. CASE SubmitShutdown
  BY <1>0, <1>10 DEF SubmitShutdown, RecordTypes
<1>11. CASE SetAgain
  BY <1>0, <1>11 DEF SetAgain, Set, MainGoes, MainOnly, RecordTypes
<1>12. CASE GotData \/ GetData \/ LetGo
  BY <1>12 DEF GotData, GetData, LetGo, MainOnly
<1>13. CASE RunOnce \/ RunCompleted
  BY <1>0, <1>13 DEF RunOnce, RunCompleted, MainGoes, MainOnly, RecordTypes
<1>14. CASE RunErrors \/ Shutdown
  BY <1>0, <1>14 DEF RunErrors, Shutdown, ShutdownTo, Holds, MainGoes, MainOnly,
                     RecordTypes
<1>15. CASE Start \/ Stop \/ SetPeriod
  BY <1>0, <1>15 DEF Start, Stop, SetPeriod, Holds, MainGoes, MainOnly,
                     RecordTypes
<1>16. CASE UNCHANGED vars
  BY <1>1, <1>16 DEF vars
<1> QED
  BY <1>2, <1>3, <1>4, <1>5, <1>6, <1>7, <1>8, <1>9, <1>10, <1>11, <1>12,
     <1>13, <1>14, <1>15, <1>16
     DEF Next, WorkStep, MainStep, Choice

(* No callback is queued again for a shutdown that waits for them.         *)
LEMMA DrainedStep ==
    Typed /\ StopUnsets /\ ShutOnce /\ Drained /\ [Next]_vars => Drained'
<1> SUFFICES ASSUME Typed, StopUnsets, ShutOnce, Drained, [Next]_vars
             PROVE  Drained'
  OBVIOUS
<1> USE DEF Drained
<1>0. RecordTypes /\ cb \in [Pool -> {"none", "entered", "trying", "running",
                                      "stored"} \cup AtFlags]
  BY DEF Typed, PlaceTypes
<1>1. ASSUME UNCHANGED <<cb, work>>, tp'.queued = tp.queued PROVE Drained'
  BY <1>1
<1>2. ASSUME NEW p \in Pool, CallbackStep(p) PROVE Drained'
  <2>1. work' = work /\ (tp' = tp \/ (tp.queued > 0 /\ cb[p] = "none"))
    BY <1>2 DEF CallbackStep, EnterCallback, TestStop, RegisterStop, TryEnter,
                Begin, StoreData, Swap, Raise, End, CbOnly
  <2>2. tp' = tp => cb[p] # "none"
    BY <1>0, <1>2 DEF CallbackStep, EnterCallback, TestStop, RegisterStop,
                TryEnter, Begin, StoreData, Swap, Raise, End, RecordTypes
  <2> QED
    BY <1>0, <2>1, <2>2 DEF RecordTypes
<1>3. CASE Expire
  <2>1. work = "none" \/ work = "submitted"
    BY <1>3 DEF Expire, StopUnsets, ShutOnce
  <2> QED
    BY <1>3, <2>1 DEF Expire
<1>4. CASE CancelCallbacks
  BY <1>0, <1>4 DEF CancelCallbacks, WorkOnly, RecordTypes
<1>5. CASE AwaitCallbacks \/ CallbackComplete
  BY <1>5 DEF AwaitCallbacks, CallbackComplete, WorkOnly
<1>6. CASE CloseTimer
  BY <1>0, <1>6 DEF CloseTimer, WorkOnly, RecordTypes
<1>7. CASE StartOnce \/ SetAgain
  BY <1>0, <1>1, <1>7 DEF StartOnce, SetAgain, Set, MainOnly, RecordTypes
<1>8. CASE UnsetTimer
  BY <1>8 DEF UnsetTimer, MainOnly, ShutOnce
<1>9. CASE SubmitShutdown
  BY <1>9 DEF SubmitShutdown
<1>10. CASE RequestStop \/ GotData \/ RunOnce \/ RunErrors \/ RunCompleted
  BY <1>1, <1>10 DEF RequestStop, GotData, RunOnce, RunErrors, RunCompleted,
                     MainOnly
<1>11. CASE Choice
  BY <1>1, <1>11 DEF Choice, Start, Stop, Shutdown, SetPeriod, GetData, LetGo,
                     MainOnly
<1>12. CASE UNCHANGED vars
  BY <1>1, <1>12 DEF vars
<1> QED
  BY <1>2, <1>3, <1>4, <1>5, <1>6, <1>7, <1>8, <1>9, <1>10, <1>11, <1>12
     DEF Next, WorkStep, MainStep

(* The references and the items of the timer on the lists: the completion  *)
(* is taken for the last reference, once.                                  *)
LEMMA CountedStep ==
    Typed /\ StopUnsets /\ ShutOnce /\ Drained /\ Counted /\ [Next]_vars
        => Counted'
<1> SUFFICES ASSUME Typed, StopUnsets, ShutOnce, Drained, Counted, [Next]_vars
             PROVE  Counted'
  OBVIOUS
<1> USE DEF Counted, Open
<1>0. RecordTypes
  BY DEF Typed
<1>1. ASSUME UNCHANGED <<refs, lists, work>>, state' \in {state, "trap"}
      PROVE  Counted'
  BY <1>1
<1>2. ASSUME NEW p \in Pool, CallbackStep(p) PROVE Counted'
  <2>1. CASE Raise(p)
    BY <2>1 DEF Raise
  <2>2. CASE ~Raise(p)
    <3>1. UNCHANGED <<refs, lists, work>> /\ state' \in {state, "trap"}
      BY <1>2, <2>2 DEF CallbackStep, EnterCallback, TestStop, RegisterStop,
                  TryEnter, Begin, StoreData, Swap, End, CbOnly
    <3> QED
      BY <1>1, <3>1
  <2> QED
    BY <2>1, <2>2
<1>3. CASE Expire \/ CancelCallbacks \/ AwaitCallbacks
  BY <1>3 DEF Expire, CancelCallbacks, AwaitCallbacks, WorkOnly
<1>4. CASE CloseTimer
  BY <1>0, <1>4 DEF CloseTimer, WorkOnly, RecordTypes
<1>5. CASE CallbackComplete
  BY <1>5 DEF CallbackComplete, WorkOnly
<1>6. CASE StartOnce \/ RequestStop \/ UnsetTimer \/ SetAgain
  <2>1. UNCHANGED <<refs, lists, work>> /\ state' \in {state, "trap"}
    BY <1>6 DEF StartOnce, RequestStop, UnsetTimer, SetAgain, MainOnly
  <2> QED
    BY <1>1, <2>1
<1>7. CASE SubmitShutdown
  BY <1>7 DEF SubmitShutdown, ShutOnce
<1>8. CASE GetData \/ GotData
  BY <1>1, <1>8 DEF GetData, GotData, MainOnly
<1>9. CASE LetGo
  <2> DEFINE left == [refs EXCEPT !.program = refs.program - 1]
  <2>1. /\ refs.px \/ "letGoLate" \in Does
        /\ state = "alive" /\ UNCHANGED <<lists, work>>
        /\ refs' = Decref(left)
        /\ state' = IF Dead(Decref(left)) THEN "freed" ELSE state
    BY <1>9 DEF LetGo, Holds, Alive, MainOnly
  <2>2. left.px = refs.px /\ left.cnt = refs.cnt
    BY <1>0 DEF RecordTypes
  <2>3. CASE refs.px
    <3>1. Decref(left) = left /\ ~Dead(left)
      BY <2>2, <2>3 DEF Decref, Dead
    <3> QED
      BY <2>1, <2>2, <3>1
  <2>4. CASE ~refs.px
    <3>0. left.cnt = 1 /\ left.cnt - 1 = 0 /\ ~left.px
      BY <2>1, <2>2, <2>4
    <3> HIDE DEF left
    <3>1. Decref(left) = [left EXCEPT !.cnt = 0]
      BY <3>0 DEF Decref
    <3>2. Decref(left).cnt = 0 /\ ~Decref(left).px
      <4> USE DEF left
      <4>1. left \in [cnt : Int, px : BOOLEAN, program : Int]
        BY <1>0, <2>2 DEF RecordTypes
      <4> HIDE DEF left
      <4> QED
        BY <3>0, <3>1, <4>1
    <3> QED
      BY <2>1, <2>4, <3>2 DEF Dead
  <2> QED
    BY <2>3, <2>4
<1>10. CASE RunOnce
  <2> DEFINE left == IF "finished" \in lists THEN Decref(refs) ELSE refs
  <2>1. /\ state = "alive" /\ work' = work
        /\ refs' = left /\ state' = IF Dead(left) THEN "freed" ELSE state
        /\ lists' = lists \ {"finished"}
    BY <1>10 DEF RunOnce, Alive, MainOnly
  <2>2. CASE "finished" \in lists
    <3>1. /\ lists' \subseteq {"errors"} /\ work = "done"
          /\ ~refs.px /\ refs.cnt = 1
      BY <2>1, <2>2
    <3>2. left = [refs EXCEPT !.cnt = 0]
      BY <2>2, <3>1 DEF Decref
    <3>3. left.cnt = 0 /\ ~left.px
      BY <1>0, <3>1, <3>2 DEF RecordTypes
    <3> QED
      BY <2>1, <3>1, <3>3 DEF Dead
  <2>3. CASE "finished" \notin lists
    BY <2>1, <2>3 DEF Dead
  <2> QED
    BY <2>2, <2>3
<1>11. CASE RunErrors
  BY <1>11 DEF RunErrors, Alive, MainOnly
<1>12. CASE RunCompleted
  BY <1>12 DEF RunCompleted, Alive, MainOnly
<1>13. CASE Start \/ Stop \/ Shutdown \/ SetPeriod
  BY <1>1, <1>13 DEF Start, Stop, Shutdown, SetPeriod, MainOnly
<1>14. CASE UNCHANGED vars
  BY <1>1, <1>14 DEF vars
<1> QED
  BY <1>2, <1>3, <1>4, <1>5, <1>6, <1>7, <1>8, <1>9, <1>10, <1>11, <1>12,
     <1>13, <1>14
     DEF Next, WorkStep, MainStep, Choice

(* Only a closed timer that is set again, and the turns of the heaps, could*)
(* stop the process.                                                       *)
LEMMA NoTrapStep ==
    ShutOnce /\ state # "trap" /\ [Next]_vars
      /\ (\A p \in Pool : CallbackStep(p) => state' = state)
        => state' # "trap"
<1> SUFFICES ASSUME ShutOnce, state # "trap", [Next]_vars,
                    \A p \in Pool : CallbackStep(p) => state' = state
             PROVE  state' # "trap"
  OBVIOUS
<1>1. CASE StartOnce \/ UnsetTimer \/ SetAgain
  <2>1. tp.open
    BY <1>1 DEF StartOnce, UnsetTimer, SetAgain, ShutOnce, Open
  <2> QED
    BY <1>1, <2>1 DEF StartOnce, UnsetTimer, SetAgain
<1>2. CASE WorkStep \/ Expire \/ UNCHANGED vars
  BY <1>2 DEF WorkStep, CancelCallbacks, AwaitCallbacks, CloseTimer,
              CallbackComplete, WorkOnly, Expire, vars
<1>3. CASE RequestStop \/ SubmitShutdown \/ GotData \/ RunOnce \/ RunErrors
           \/ RunCompleted
  BY <1>3 DEF RequestStop, SubmitShutdown, GotData, RunOnce, RunErrors,
              RunCompleted, MainOnly
<1>4. CASE Choice
  BY <1>4 DEF Choice, Start, Stop, Shutdown, SetPeriod, GetData, LetGo, MainOnly
<1> QED
  BY <1>1, <1>2, <1>3, <1>4 DEF Next, MainStep

LEMMA EndInvStep == EndInv /\ "restart" \notin Does /\ [Next]_vars => EndInv'
BY TypedStep, ShutdownStep, DrainedStep, CountedStep DEF EndInv

LEMMA InvStep ==
    IInv /\ Does \cap {"raise", "restart"} = {} /\ [Next]_vars => IInv'
<1> SUFFICES ASSUME IInv, "raise" \notin Does, "restart" \notin Does,
                    [Next]_vars
             PROVE  IInv'
  OBVIOUS
<1>1. HeapsTurn' /\ \A p \in Pool : CallbackStep(p) => state' = state
  BY HeapsStep DEF IInv, EndInv
<1> QED
  BY <1>1, EndInvStep, LockStep, NoTrapStep DEF IInv, EndInv

-----------------------------------------------------------------------------

(* How a timer ends, whether or not its function raises and its program    *)
(* lets go of it before the shutdown callback, if it is not started again  *)
(* after its shutdown.                                                     *)
THEOREM EndInvariance ==
    ASSUME "restart" \notin Does
    PROVE  Spec => []EndInv
<1>1. EndInv /\ [Next]_vars => EndInv'
  BY EndInvStep
<1> QED
  BY <1>1, InvInit, PTL DEF Spec

(* The inductive invariant holds in every reachable state of a timer whose *)
(* function does not raise and that is not started again after its         *)
(* shutdown.                                                               *)
THEOREM Invariance ==
    ASSUME Does \cap {"raise", "restart"} = {}
    PROVE  Spec => []IInv
<1>1. IInv /\ [Next]_vars => IInv'
  BY InvStep
<1> QED
  BY <1>1, InvInit, PTL DEF Spec

(* The two heaps take turns and t->data stays, however callbacks overlap,  *)
(* give up on the lock or come late: PxTimer_Callback() meets none of its  *)
(* __debugbreak()s.                                                        *)
THEOREM TimerHeapsTakeTurns ==
    ASSUME Does \cap {"raise", "restart"} = {}
    PROVE  Spec => []HeapsTakeTurns
<1>1. IInv => TypeOK
  <2> SUFFICES ASSUME IInv PROVE TypeOK
    OBVIOUS
  <2>1. refs.cnt \in -MaxRefs..2
    BY TimerAssumption DEF IInv, EndInv, Counted, Typed, PlaceTypes
  <2>2. refs \in [cnt : -MaxRefs..2, px : BOOLEAN, program : 0..MaxRefs]
    BY <2>1 DEF IInv, EndInv, Typed, RecordTypes
  <2>3. reader \subseteq 0..2
    BY DEF IInv, EndInv, Typed, HeapTypes
  <2> QED
    BY <2>2, <2>3
       DEF IInv, EndInv, Typed, HeapTypes, PlaceTypes, RecordTypes, TypeOK
<1>2. IInv => DataStays
  <2> SUFFICES ASSUME IInv, data # 0 PROVE data \in snap
    BY DEF IInv, EndInv, Typed, HeapTypes, DataStays
  <2>1. /\ group \in {1, 2} /\ data \in {1, 2} /\ 3 - group \in {1, 2}
        /\ count \in Nat /\ HeapsTurn
    BY DEF IInv, EndInv, Typed, HeapTypes
  <2>2. CASE \A p \in Pool : cb[p] \notin {"running", "stored"}
    BY <2>1, <2>2 DEF HeapsTurn, Rest
  <2>3. ASSUME NEW p \in Pool, cb[p] \in {"running", "stored"}
        PROVE  data \in snap
    BY <2>1, <2>3 DEF HeapsTurn, InUse
  <2> QED
    BY <2>2, <2>3
<1>3. IInv => NoTrap
  BY DEF IInv, EndInv, NoTrap
<1> QED
  BY <1>1, <1>2, <1>3, Invariance, PTL DEF HeapsTakeTurns

(* No callback is left, running or queued, when the timer is deallocated,  *)
(* also of a function that raises or a program that lets go late; who does *)
(* neither leaves nothing of it on the lists.                              *)
THEOREM FreedWhenQuiet ==
    ASSUME "restart" \notin Does
    PROVE  Spec => []Quiet
<1>1. EndInv => Quiet
  BY DEF EndInv, Counted, Drained, ShutOnce, Open, Quiet
<1> QED
  BY <1>1, EndInvariance, PTL

-----------------------------------------------------------------------------
(* What a stop leaves to come                                              *)

(* The callbacks that have been entered and may get to the function.       *)
OnTheirWay == {p \in Pool : cb[p] \in {"entered", "trying", "locked"}}

(* There are no more of them when some have left.                          *)
LEMMA FewerOnTheirWay ==
    ASSUME OnTheirWay' \subseteq OnTheirWay
    PROVE  /\ Cardinality(OnTheirWay') \in Nat
           /\ Cardinality(OnTheirWay) \in Nat
           /\ Cardinality(OnTheirWay') <= Cardinality(OnTheirWay)
<1>1. IsFiniteSet(OnTheirWay) /\ OnTheirWay \subseteq Pool
  BY TimerAssumption, FS_Subset DEF OnTheirWay
<1>2. IsFiniteSet(OnTheirWay')
  BY <1>1, FS_Subset
<1> QED
  BY <1>1, <1>2, FS_Subset, FS_CardinalityType

(* A callback comes from the queue, so that there are as many as before.   *)
LEMMA EnteringCountsOnce ==
    ASSUME Typed, NEW p \in Pool, EnterCallback(p)
    PROVE  Coming' <= Coming
<1>1. /\ cb[p] = "none" /\ cb' = [cb EXCEPT ![p] = "entered"]
      /\ tp.queued > 0 /\ tp' = [tp EXCEPT !.queued = tp.queued - 1]
      /\ tp \in [set : BOOLEAN, queued : 0..MaxQueued, open : BOOLEAN]
      /\ DOMAIN cb = Pool
  BY DEF EnterCallback, CbGoes, Typed, PlaceTypes, RecordTypes
<1>2. OnTheirWay' = OnTheirWay \cup {p} /\ p \notin OnTheirWay
  BY <1>1 DEF OnTheirWay
<1>3. IsFiniteSet(OnTheirWay)
  BY TimerAssumption, FS_Subset DEF OnTheirWay
<1>4. /\ Cardinality(OnTheirWay') = Cardinality(OnTheirWay) + 1
      /\ Cardinality(OnTheirWay) \in Nat
  BY <1>2, <1>3, FS_AddElement, FS_CardinalityType
<1>5. tp'.queued = tp.queued - 1 /\ tp.queued \in Nat
  BY <1>1, TimerAssumption
<1> QED
  BY <1>4, <1>5 DEF Coming, OnTheirWay

(* A stopped timer does not expire, and nothing but start(), or the stop   *)
(* when it unsets the timer, adds to what is to come.                      *)
LEMMA SettlesStep ==
    ASSUME EndInv, [Next]_vars, once' = once, "stop" \in once,
           main.pc # "unsetting"
    PROVE  Coming' <= Coming
<1>0. /\ Typed /\ RecordTypes /\ ~tp.set /\ tp.queued \in Nat
      /\ tp \in [set : BOOLEAN, queued : 0..MaxQueued, open : BOOLEAN]
      /\ cb \in [Pool -> {"none", "entered", "trying", "running", "stored"}
                            \cup AtFlags]
  BY TimerAssumption DEF EndInv, Typed, PlaceTypes, RecordTypes, StopUnsets
<1>1. ASSUME tp'.queued \in Nat, tp'.queued <= tp.queued,
             OnTheirWay' \subseteq OnTheirWay
      PROVE  Coming' <= Coming
  BY <1>0, <1>1, FewerOnTheirWay DEF Coming, OnTheirWay
<1>2. ASSUME NEW p \in Pool, CallbackStep(p), ~EnterCallback(p)
      PROVE  Coming' <= Coming
  <2>1. /\ tp' = tp
        /\ \/ \E pc \in {"stopping", "none", "running", "stored", "ending"} :
                 cb' = [cb EXCEPT ![p] = pc]
           \/ cb[p] = "entered" /\ cb' = [cb EXCEPT ![p] = "trying"]
           \/ cb[p] = "trying" /\ cb' = [cb EXCEPT ![p] = "locked"]
    <3>1. CASE TestStop(p) \/ TryEnter(p)
      BY <3>1 DEF TestStop, TryEnter, CbGoes, CbOnly
    <3>2. CASE RegisterStop(p) \/ Begin(p) \/ Swap(p) \/ Raise(p) \/ End(p)
      BY <3>2 DEF RegisterStop, Begin, Swap, Raise, End, CbGoes, CbOnly
    <3>3. ASSUME NEW r \in {0, group}, StoreData(p, r)
          PROVE  tp' = tp /\ cb' = [cb EXCEPT ![p] = "stored"]
      BY <3>3 DEF StoreData, CbGoes
    <3> QED
      BY <1>2, <3>1, <3>2, <3>3 DEF CallbackStep
  <2>2. OnTheirWay' \subseteq OnTheirWay
    BY <1>0, <2>1 DEF OnTheirWay
  <2> QED
    BY <1>0, <1>1, <2>1, <2>2
<1>3. ASSUME UNCHANGED cb, tp'.queued \in Nat, tp'.queued <= tp.queued
      PROVE  Coming' <= Coming
  BY <1>1, <1>3 DEF OnTheirWay
<1>4. ~Expire
  BY <1>0 DEF Expire
<1>5. CASE WorkStep
  <2>1. CASE CancelCallbacks
    BY <1>0, <1>3, <2>1 DEF CancelCallbacks, WorkOnly
  <2>2. CASE CloseTimer
    BY <1>0, <1>3, <2>2 DEF CloseTimer, WorkOnly
  <2>3. CASE AwaitCallbacks \/ CallbackComplete
    BY <1>0, <1>3, <2>3 DEF AwaitCallbacks, CallbackComplete, WorkOnly
  <2> QED
    BY <1>5, <2>1, <2>2, <2>3 DEF WorkStep
<1>6. CASE MainStep
  <2>1. ~StartOnce /\ ~UnsetTimer
    BY DEF StartOnce, UnsetTimer
  <2>2. CASE SetAgain
    BY <1>0, <1>3, <2>2 DEF SetAgain, Set, MainOnly
  <2>3. CASE RequestStop \/ SubmitShutdown \/ GotData
    BY <1>0, <1>3, <2>3 DEF RequestStop, SubmitShutdown, GotData, MainOnly
  <2>4. CASE RunOnce \/ RunErrors \/ RunCompleted
    BY <1>0, <1>3, <2>4 DEF RunOnce, RunErrors, RunCompleted, MainOnly
  <2> QED
    BY <1>6, <2>1, <2>2, <2>3, <2>4 DEF MainStep
<1>7. CASE Choice
  BY <1>0, <1>3, <1>7 DEF Choice, Start, Stop, Shutdown, SetPeriod, GetData,
     LetGo, MainOnly
<1>8. CASE UNCHANGED vars
  BY <1>0, <1>3, <1>8 DEF vars
<1> QED
  BY <1>0, <1>2, <1>4, <1>5, <1>6, <1>7, <1>8, EnteringCountsOnce DEF Next

(* Once stop() has returned, no callback is added to those that were       *)
(* queued or on their way to the function, until start() is called.        *)
THEOREM StopIsFinal ==
    ASSUME "restart" \notin Does
    PROVE  Spec => StopSettles
<1>1. EndInv /\ [Next]_vars
         => [once' = once /\ "stop" \in once /\ main.pc # "unsetting"
                => Coming' <= Coming]_vars
  BY SettlesStep
<1> QED
  BY <1>1, EndInvariance, PTL DEF Spec, StopSettles

=============================================================================
