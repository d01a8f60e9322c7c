--------------------------- MODULE PxRunLoopProofs ---------------------------
(***************************************************************************)
(* Proofs about the event loop of PxRunLoop, for any number of contexts    *)
(* and of calls, with every kind of call and of end, interrupts, time-outs *)
(* and exceptions: the main thread never sleeps on something to do; an end *)
(* is reported once; the counters count; a caller that waits is served, and *)
(* its item outlives its wait; and a call is what PxCall promises.         *)
(***************************************************************************)
EXTENDS PxRunLoop, SequenceTheorems, FiniteSetTheorems, TLAPS

-----------------------------------------------------------------------------
(* Sequences without repetitions, and what the operations of a list do to  *)
(* the set of its elements                                                 *)

NoTwice(s) == \A j, k \in DOMAIN s : s[j] = s[k] => j = k

(* A push adds the element.                                                *)
LEMMA PushedItems ==
    ASSUME NEW T, NEW s \in Seq(T), NEW e \in T
    PROVE  /\ Cons(e, s) \in Seq(T)
           /\ ToSet(Cons(e, s)) = ToSet(s) \cup {e}
           /\ NoTwice(s) /\ e \notin ToSet(s) => NoTwice(Cons(e, s))
<1> DEFINE t == Cons(e, s)
<1>1. /\ t \in Seq(T) /\ Len(t) = Len(s) + 1 /\ Len(s) \in Nat
      /\ DOMAIN t = 1..Len(s) + 1 /\ DOMAIN s = 1..Len(s)
      /\ t[1] = e /\ \A k \in 1..Len(s) : t[k + 1] = s[k]
  BY DEF Cons
<1> HIDE DEF t
<1>2. \A k \in DOMAIN t : k = 1 \/ (k - 1 \in DOMAIN s /\ t[k] = s[k - 1])
  <2> SUFFICES ASSUME NEW k \in DOMAIN t, k # 1
               PROVE  k - 1 \in DOMAIN s /\ t[k] = s[k - 1]
    OBVIOUS
  <2>1. k - 1 \in 1..Len(s) /\ (k - 1) + 1 = k
    BY <1>1
  <2> QED
    BY <1>1, <2>1
<1>3. ToSet(t) = ToSet(s) \cup {e}
  <2>1. ToSet(t) \subseteq ToSet(s) \cup {e}
    BY <1>1, <1>2 DEF ToSet
  <2>2. ASSUME NEW k \in DOMAIN s PROVE s[k] \in ToSet(t)
    <3>1. k + 1 \in DOMAIN t /\ t[k + 1] = s[k]
      BY <1>1
    <3> QED
      BY <3>1 DEF ToSet
  <2>3. e \in ToSet(t)
    BY <1>1 DEF ToSet
  <2> QED
    BY <2>1, <2>2, <2>3 DEF ToSet
<1>4. ASSUME NoTwice(s), e \notin ToSet(s) PROVE NoTwice(t)
  <2> SUFFICES ASSUME NEW j \in DOMAIN t, NEW k \in DOMAIN t, t[j] = t[k]
               PROVE  j = k
    BY DEF NoTwice
  <2>1. \A h \in DOMAIN s : s[h] # e
    BY <1>4 DEF ToSet
  <2>2. CASE j = 1 \/ k = 1
    BY <2>1, <2>2, <1>1, <1>2
  <2>3. CASE j # 1 /\ k # 1
    <3>1. j - 1 = k - 1
      BY <2>3, <1>2, <1>4 DEF NoTwice
    <3> QED
      BY <3>1, <1>1
  <2> QED
    BY <2>2, <2>3
<1> QED
  BY <1>1, <1>3, <1>4 DEF t

(* A pop takes the front.                                                  *)
LEMMA PoppedItems ==
    ASSUME NEW T, NEW s \in Seq(T), s # <<>>
    PROVE  /\ Head(s) \in T /\ Tail(s) \in Seq(T) /\ Head(s) \in ToSet(s)
           /\ NoTwice(s) => /\ ToSet(Tail(s)) = ToSet(s) \ {Head(s)}
                            /\ NoTwice(Tail(s))
<1> DEFINE t == Tail(s)
<1>1. /\ t \in Seq(T) /\ Len(s) \in Nat /\ Len(s) > 0
      /\ DOMAIN t = 1..Len(s) - 1 /\ DOMAIN s = 1..Len(s)
      /\ Head(s) = s[1] /\ \A k \in 1..Len(s) - 1 : t[k] = s[k + 1]
  BY EmptySeq
<1>2. Head(s) \in T /\ Head(s) \in ToSet(s)
  BY <1>1 DEF ToSet
<1> HIDE DEF t
<1>3. \A k \in DOMAIN s : k = 1 \/ (k - 1 \in DOMAIN t /\ s[k] = t[k - 1])
  <2> SUFFICES ASSUME NEW k \in DOMAIN s, k # 1
               PROVE  k - 1 \in DOMAIN t /\ s[k] = t[k - 1]
    OBVIOUS
  <2>1. k - 1 \in 1..Len(s) - 1 /\ (k - 1) + 1 = k
    BY <1>1
  <2> QED
    BY <1>1, <2>1
<1>4. ASSUME NoTwice(s) PROVE ToSet(t) = ToSet(s) \ {Head(s)} /\ NoTwice(t)
  <2>1. ASSUME NEW k \in DOMAIN t
        PROVE  k + 1 \in DOMAIN s /\ k + 1 # 1 /\ t[k] = s[k + 1]
    BY <1>1
  <2>2. ToSet(t) \subseteq ToSet(s) \ {Head(s)}
    BY <2>1, <1>1, <1>4 DEF ToSet, NoTwice
  <2>3. ToSet(s) \ {Head(s)} \subseteq ToSet(t)
    BY <1>1, <1>3 DEF ToSet
  <2>4. ASSUME NEW j \in DOMAIN t, NEW k \in DOMAIN t, t[j] = t[k]
        PROVE  j = k
    <3>1. j + 1 = k + 1
      BY <2>1, <2>4, <1>4 DEF NoTwice
    <3> QED
      BY <3>1, <1>1
  <2> QED
    BY <2>2, <2>3, <2>4 DEF NoTwice
<1> QED
  BY <1>1, <1>2, <1>4 DEF t

(* A transfer of each element of a to b in turn.                           *)
LEMMA TransferredItems ==
    ASSUME NEW T, NEW a \in Seq(T), NEW b \in Seq(T)
    PROVE  /\ Reverse(a) \o b \in Seq(T)
           /\ ToSet(Reverse(a) \o b) = ToSet(a) \cup ToSet(b)
           /\ NoTwice(a) /\ NoTwice(b) /\ ToSet(a) \cap ToSet(b) = {}
                 => NoTwice(Reverse(a) \o b)
<1> DEFINE r == Reverse(a)
           t == r \o b
           m == Len(a)
           n == Len(b)
<1>1. /\ m \in Nat /\ n \in Nat /\ DOMAIN a = 1..m /\ DOMAIN b = 1..n
      /\ r \in Seq(T) /\ Len(r) = m
      /\ \A k \in 1..m : r[k] = a[m - k + 1]
  <2>1. m \in Nat /\ n \in Nat /\ DOMAIN a = 1..m /\ DOMAIN b = 1..n
    OBVIOUS
  <2>2. r \in [1..m -> T]
    BY <2>1 DEF Reverse
  <2>3. r \in Seq(T)
    BY <2>1, <2>2
  <2> QED
    BY <2>1, <2>2, <2>3 DEF Reverse
<1> HIDE DEF r
<1>2. /\ t \in Seq(T) /\ Len(t) = m + n /\ DOMAIN t = 1..m + n
      /\ \A k \in 1..m + n : t[k] = IF k <= m THEN r[k] ELSE b[k - m]
  <2>1. /\ t \in Seq(T) /\ Len(t) = Len(r) + n
        /\ \A k \in 1..Len(r) + n :
              t[k] = IF k <= Len(r) THEN r[k] ELSE b[k - Len(r)]
    BY ZenonT(60), <1>1, ConcatProperties
  <2> QED
    BY <1>1, <2>1
<1> HIDE DEF t, m, n
(* Where an element of the result comes from.                              *)
<1>3. ASSUME NEW k \in DOMAIN t
      PROVE  \/ k <= m /\ m - k + 1 \in DOMAIN a /\ t[k] = a[m - k + 1]
             \/ ~(k <= m) /\ k - m \in DOMAIN b /\ t[k] = b[k - m]
  <2>1. k \in Int /\ 1 <= k /\ k <= m + n
    BY <1>1, <1>2
  <2>2. CASE k <= m
    BY <2>1, <2>2, <1>1, <1>2
  <2>3. CASE ~(k <= m)
    BY <2>1, <2>3, <1>1, <1>2
  <2> QED
    BY <2>2, <2>3
<1>4. ToSet(t) = ToSet(a) \cup ToSet(b)
  <2>1. ToSet(t) \subseteq ToSet(a) \cup ToSet(b)
    BY <1>3 DEF ToSet
  <2>2. ASSUME NEW j \in DOMAIN a PROVE a[j] \in ToSet(t)
    <3>1. /\ m - j + 1 \in 1..m /\ m - j + 1 \in DOMAIN t
          /\ m - (m - j + 1) + 1 = j
      BY <1>1, <1>2
    <3>2. t[m - j + 1] = a[j]
      BY <3>1, <1>1, <1>2
    <3> QED
      BY <3>1, <3>2 DEF ToSet
  <2>3. ASSUME NEW j \in DOMAIN b PROVE b[j] \in ToSet(t)
    <3>1. m + j \in DOMAIN t /\ ~(m + j <= m) /\ (m + j) - m = j
      BY <1>1, <1>2
    <3>2. t[m + j] = b[j]
      BY <3>1, <1>2
    <3> QED
      BY <3>1, <3>2 DEF ToSet
  <2> QED
    BY <2>1, <2>2, <2>3 DEF ToSet
<1>5. ASSUME NoTwice(a), NoTwice(b), ToSet(a) \cap ToSet(b) = {}
      PROVE  NoTwice(t)
  <2> SUFFICES ASSUME NEW j \in DOMAIN t, NEW k \in DOMAIN t, t[j] = t[k]
               PROVE  j = k
    BY DEF NoTwice
  <2>0. j \in Int /\ k \in Int
    BY <1>2
  <2>1. CASE j <= m /\ k <= m
    <3>1. m - j + 1 = m - k + 1
      BY <2>1, <1>3, <1>5 DEF NoTwice
    <3> QED
      BY <3>1, <2>0, <1>1
  <2>2. CASE ~(j <= m) /\ ~(k <= m)
    <3>1. j - m = k - m
      BY <2>2, <1>3, <1>5 DEF NoTwice
    <3> QED
      BY <3>1, <2>0, <1>1
  <2>3. CASE (j <= m) # (k <= m)
    BY <2>3, <1>3, <1>5 DEF ToSet
  <2> QED
    BY <2>1, <2>2, <2>3
<1> QED
  BY <1>2, <1>4, <1>5 DEF t, r

-----------------------------------------------------------------------------
(* The items                                                               *)

(* The places of the main thread with an item in its hands.                *)
Handling == {"popped", "uncounted", "got", "called", "stored"}
USE DEF Handling

On(l) == ToSet(lists[l])
IsEnd(i) == i.kind \in Outcomes
IsCall(i) == i.kind \in {"wait", "nowait"}

(* The items of calls the main thread still has to deal with.              *)
Held == On("incoming") \cup ({main.item} \ {NULL})

(* The types, except that the counters may be negative.                    *)
Types ==
    /\ lists \in [Lists -> Seq(Item)]
    /\ wakeup \in BOOLEAN
    /\ ctx \in [Contexts -> CtxRec]
    /\ counts \in [Counters -> Int]
    /\ main \in MainRec
    /\ rewound \subseteq Item

(* Which items are on which list, and none twice.                          *)
ListsSorted ==
    /\ \A l \in Lists : NoTwice(lists[l])
    /\ \A l \in Lists : \A i \in On(l) : IF l = "incoming" THEN IsCall(i)
                                                         ELSE IsEnd(i)
    /\ \A i \in On("completed_errbacks") : i.ctx \in Works

(* Where the main thread is says whether it has an item in its hands, and  *)
(* errors it is printing.                                                  *)
MainPlace ==
    /\ main.item # NULL <=> main.pc \in Handling
    /\ main.item # NULL => IsCall(main.item) /\ main.item \notin On("incoming")
    /\ main.pc = "stored" =>
          /\ main.item.kind = "wait"
          /\ ctx[main.item.ctx].answer = main.item.n
    /\ lists["taken"] # <<>> <=> main.pc = "printing"

(* The end of a context is reported once.                                  *)
EndsUnique == \A l, m \in Lists : \A i \in On(l), j \in On(m) :
    IsEnd(i) /\ IsEnd(j) /\ i.ctx = j.ctx => l = m /\ i = j
Reported(c) == \E l \in Lists : \E i \in On(l) : i.ctx = c /\ IsEnd(i)
EndsKnown == \A c \in Contexts :
    Reported(c) <=> ctx[c].at \in {"signalling", "ended"}

(* A callback that makes a call, or has made one.                          *)
Made(c) ==
    /\ ctx[c].at \in {"calling", "signallingCall", "waiting"} =>
          ctx[c].kind \in {"wait", "nowait"} /\ ctx[c].n > 0
    /\ ctx[c].at = "waiting" => ctx[c].kind = "wait"
    /\ c \in Sockets => ctx[c].outcome = "errors"
    /\ ctx[c].at \in {"new", "submitting", "queued", "starting"} => c \in Works
CallsMade == \A c \in Contexts : Made(c)

(* The item of a call was made by a callback that is not over, and is not  *)
(* that of the next call; who waits for it has not been woken.             *)
Owned(i) ==
    /\ ctx[i.ctx].at \notin {"new", "submitting", "queued", "starting", "idle",
                             "freed", "freedEarly"}
    /\ i.n <= ctx[i.ctx].n
    /\ ctx[i.ctx].at = "calling" => i.n < ctx[i.ctx].n
    /\ i.kind = "wait" =>
          /\ ctx[i.ctx].at \in {"signallingCall", "waiting"}
          /\ ctx[i.ctx].kind = "wait" /\ i.n = ctx[i.ctx].n
          /\ ~ctx[i.ctx].event
CallsHeld == \A i \in Held : Owned(i)

(* Who waits has an item with the main thread, or its event is set and its *)
(* result stored.                                                          *)
Served(c) ==
    /\ ctx[c].at \in {"signallingCall", "waiting"} /\ ctx[c].kind = "wait"
          /\ ~ctx[c].event
          => CallItem(c) \in Held
    /\ ctx[c].event => /\ ctx[c].at \in {"signallingCall", "waiting"}
                       /\ ctx[c].kind = "wait"
                       /\ ctx[c].answer = ctx[c].n
CallersServed == \A c \in Contexts : Served(c)

(* A socket whose context is finished has no call left: px->incoming was   *)
(* empty when px->completed_callbacks was flushed.                         *)
FinishedAreQuiet == \A i \in On("finished") :
    i.ctx \in Sockets => \A j \in Held : j.ctx # i.ctx

Order ==
    /\ ListsSorted /\ MainPlace /\ EndsUnique /\ EndsKnown
    /\ CallsMade /\ CallsHeld /\ CallersServed /\ FinishedAreQuiet
OrderInv == Types /\ (Running => Order) /\ WaitedItemsLast

-----------------------------------------------------------------------------
(* What the steps do to the lists                                          *)

LEMMA Facts == Types =>
    /\ \A l \in Lists : lists[l] \in Seq(Item) /\ On(l) \subseteq Item
    /\ \A i \in Item : i.ctx \in Contexts /\ i # NULL
                         /\ (IsCall(i) <=> ~IsEnd(i))
                         /\ (IsEnd(i) => i.n = 0)
                         /\ (IsCall(i) => i.n \in 1..MaxCalls)
    /\ Works \cap Sockets = {}
<1> SUFFICES ASSUME Types PROVE Facts!2
  OBVIOUS
<1>1. ASSUME NEW l \in Lists PROVE lists[l] \in Seq(Item) /\ On(l) \subseteq Item
  <2>1. lists[l] \in Seq(Item)
    BY DEF Types
  <2>2. \A k \in DOMAIN lists[l] : lists[l][k] \in Item
    BY <2>1
  <2> QED
    BY <2>1, <2>2 DEF On, ToSet
<1>2. ASSUME NEW i \in Item
      PROVE  /\ i.ctx \in Contexts /\ i # NULL /\ (IsCall(i) <=> ~IsEnd(i))
             /\ (IsEnd(i) => i.n = 0) /\ (IsCall(i) => i.n \in 1..MaxCalls)
  BY DEF Item, NULL, IsCall, IsEnd, Outcomes
<1> QED
  BY <1>1, <1>2, RunLoopAssumption

LEMMA PushOn ==
    ASSUME Types, NEW l \in Lists, NEW i \in Item, lists' = Push(lists, l, i)
    PROVE  /\ lists' \in [Lists -> Seq(Item)]
           /\ On(l)' = On(l) \cup {i}
           /\ \A m \in Lists \ {l} : lists'[m] = lists[m]
           /\ i \notin On(l) /\ NoTwice(lists[l]) => NoTwice(lists'[l])
<1>1. lists' = [lists EXCEPT ![l] = Cons(i, lists[l])]
  BY DEF Push
<1>2. lists \in [Lists -> Seq(Item)] /\ lists[l] \in Seq(Item)
  BY DEF Types
<1> QED
  BY <1>1, <1>2, PushedItems DEF On

LEMMA TransferOn ==
    ASSUME Types, NEW l \in Lists \ {"finished"}, lists' = TransferAll(lists, l)
    PROVE  /\ lists' \in [Lists -> Seq(Item)]
           /\ lists'[l] = <<>> /\ On(l)' = {}
           /\ On("finished")' = On(l) \cup On("finished")
           /\ \A m \in Lists \ {l, "finished"} : lists'[m] = lists[m]
           /\ NoTwice(lists[l]) /\ NoTwice(lists["finished"])
                 /\ On(l) \cap On("finished") = {}
                 => NoTwice(lists'["finished"])
<1>1. lists \in [Lists -> Seq(Item)] /\ "finished" \in Lists
  BY DEF Types, Lists
<1>2. /\ lists'[l] = <<>>
      /\ lists'["finished"] = Reverse(lists[l]) \o lists["finished"]
      /\ \A m \in Lists \ {l, "finished"} : lists'[m] = lists[m]
      /\ lists' = [lists EXCEPT ![l] = <<>>,
                     !["finished"] = Reverse(lists[l]) \o lists["finished"]]
  BY <1>1 DEF TransferAll
<1>3. On(l)' = {}
  BY <1>2 DEF On, ToSet
<1>4. lists[l] \in Seq(Item) /\ lists["finished"] \in Seq(Item) /\ <<>> \in Seq(Item)
  BY <1>1
<1>5. /\ lists'["finished"] \in Seq(Item)
      /\ On("finished")' = On(l) \cup On("finished")
  BY <1>2, <1>4, TransferredItems DEF On
<1>6. lists' \in [Lists -> Seq(Item)]
  BY <1>1, <1>2, <1>4, <1>5
<1> QED
  BY <1>2, <1>3, <1>4, <1>5, <1>6, TransferredItems DEF On

LEMMA PopOn ==
    ASSUME Types, NEW l \in Lists, lists[l] # <<>>,
           lists' = [lists EXCEPT ![l] = Tail(@)]
    PROVE  /\ lists' \in [Lists -> Seq(Item)]
           /\ Head(lists[l]) \in Item /\ Head(lists[l]) \in On(l)
           /\ \A m \in Lists \ {l} : lists'[m] = lists[m]
           /\ NoTwice(lists[l]) => /\ NoTwice(lists'[l])
                                   /\ On(l)' = On(l) \ {Head(lists[l])}
<1>1. lists \in [Lists -> Seq(Item)] /\ lists[l] \in Seq(Item)
  BY DEF Types
<1>2. lists'[l] = Tail(lists[l]) /\ \A m \in Lists \ {l} : lists'[m] = lists[m]
  BY <1>1
<1> QED
  BY <1>1, <1>2, PoppedItems DEF On

LEMMA EmptyOn ==
    ASSUME Types, NEW l \in Lists
    PROVE  lists[l] = <<>> <=> On(l) = {}
<1>1. lists[l] \in Seq(Item)
  BY DEF Types
<1>2. lists[l] = <<>> => On(l) = {}
  BY DEF On, ToSet
<1>3. lists[l] # <<>> => On(l) # {}
  BY <1>1, PoppedItems DEF On
<1> QED
  BY <1>2, <1>3

-----------------------------------------------------------------------------
(* Types                                                                   *)

LEMMA TypesInit == Init => Types
<1> SUFFICES ASSUME Init PROVE Types
  OBVIOUS
<1>1. lists \in [Lists -> Seq(Item)]
  BY DEF Init
<1>2. ctx \in [Contexts -> CtxRec]
  BY RunLoopAssumption DEF Init, CtxRec, Places, Outcomes
<1>3. main \in MainRec
  BY DEF Init, MainRec
<1>4. counts \in [Counters -> Int]
  BY DEF Init
<1>5. wakeup \in BOOLEAN /\ rewound \subseteq Item
  BY DEF Init
<1> QED
  BY <1>1, <1>2, <1>3, <1>4, <1>5 DEF Types

LEMMA CallItemType ==
    ASSUME Types, CallsMade, NEW c \in Contexts,
           ctx[c].at \in {"calling", "signallingCall", "waiting"}
    PROVE  /\ CallItem(c) \in Item /\ IsCall(CallItem(c))
           /\ CallItem(c).ctx = c /\ CallItem(c).kind = ctx[c].kind
           /\ CallItem(c).n = ctx[c].n
<1>1. ctx[c] \in CtxRec
  BY DEF Types
<1>2. ctx[c].kind \in {"wait", "nowait"} /\ ctx[c].n \in 1..MaxCalls
  BY <1>1, RunLoopAssumption DEF CallsMade, Made, CtxRec
<1> QED
  BY <1>2 DEF CallItem, Item, IsCall

LEMMA EndItemType ==
    ASSUME NEW c \in Contexts, NEW o \in Outcomes
    PROVE  /\ EndItem(c, o) \in Item /\ IsEnd(EndItem(c, o))
           /\ EndItem(c, o).ctx = c /\ EndItem(c, o).kind = o
BY DEF EndItem, Item, IsEnd

LEMMA TypesOfCallbacks ==
    ASSUME Types, CallsMade, NEW c \in Contexts, CallbackStep(c)
    PROVE  Types'
<1> USE DEF Types
<1>c. ctx[c] \in CtxRec
  OBVIOUS
<1>1. CASE StartWork(c) \/ CountWork(c) \/ SignalCall(c) \/ UncountCall(c)
             \/ SignalMain(c)
  <2>1. \A place \in Places : [ctx[c] EXCEPT !.at = place] \in CtxRec
    BY <1>c DEF CtxRec
  <2> QED
    <3>1. CASE StartWork(c) \/ CountWork(c) \/ UncountCall(c)
      <4>1. counts' \in [Counters -> Int]
        BY <3>1 DEF StartWork, CountWork, UncountCall, Counters
      <4>2. ctx' \in [Contexts -> CtxRec]
        BY <3>1, <2>1 DEF StartWork, CountWork, UncountCall, Goes, Places
      <4> QED
        BY <3>1, <4>1, <4>2 DEF StartWork, CountWork, UncountCall
    <3>2. CASE SignalCall(c)
      BY <3>2, <2>1 DEF SignalCall, Goes, Places
    <3>3. CASE SignalMain(c)
      BY <3>3, <2>1 DEF SignalMain, Goes, Places
    <3> QED
      BY <1>1, <3>1, <3>2, <3>3
<1>2. ASSUME NEW kind \in CallKinds, MakeCall(c, kind) PROVE Types'
  <2>1. ctx'[c] \in CtxRec
    <3>0. ctx[c].n + 1 \in 0..MaxCalls /\ kind \in {"none", "wait", "nowait"}
      BY <1>2, <1>c, RunLoopAssumption DEF MakeCall, CtxRec
    <3>1. CASE kind = "wait"
      <4>1. ctx'[c] = [ctx[c] EXCEPT !.at = "calling", !.kind = kind,
                         !.n = ctx[c].n + 1, !.decref = TRUE]
        BY <1>2, <3>1 DEF MakeCall
      <4> QED
        BY <4>1, <3>0, <1>c DEF CtxRec, Places
    <3>2. CASE kind # "wait"
      <4>1. ctx'[c] = [ctx[c] EXCEPT !.at = "calling", !.kind = kind,
                         !.n = ctx[c].n + 1]
        BY <1>2, <3>2 DEF MakeCall
      <4> QED
        BY <4>1, <3>0, <1>c DEF CtxRec, Places
    <3> QED
      BY <3>1, <3>2
  <2>2. ctx' = [ctx EXCEPT ![c] = ctx'[c]]
    BY <1>2 DEF MakeCall
  <2> QED
    BY <1>2, <2>1, <2>2 DEF MakeCall, Counters, Pending
<1>3. CASE PushCall(c)
  <2>1. [ctx[c] EXCEPT !.at = "signallingCall"] \in CtxRec
    BY <1>c DEF CtxRec, Places
  <2>2. CallItem(c) \in Item
    BY <1>3, CallItemType DEF PushCall
  <2>3. lists' \in [Lists -> Seq(Item)]
    BY <1>3, <2>2, PushOn DEF PushCall, Lists
  <2> QED
    BY <1>3, <2>1, <2>3 DEF PushCall, Goes
<1>4. CASE Resume(c)
  <2>1. ctx'[c] \in CtxRec
    BY <1>4, <1>c DEF Resume, CtxRec, Places
  <2>2. ctx' = [ctx EXCEPT ![c] = ctx'[c]]
    BY <1>4 DEF Resume
  <2> QED
    BY <1>4, <2>1, <2>2 DEF Resume
<1>5. ASSUME NEW o \in Outcomes, EndWork(c, o) PROVE Types'
  <2>1. ctx'[c] \in CtxRec
    BY <1>5, <1>c DEF EndWork, CtxRec, Places
  <2>2. ctx' = [ctx EXCEPT ![c] = ctx'[c]]
    BY <1>5 DEF EndWork
  <2> QED
    BY <1>5, <2>1, <2>2 DEF EndWork, Counters
<1>6. CASE EndCallback(c)
  <2>1. [ctx[c] EXCEPT !.at = "idle"] \in CtxRec
    BY <1>c DEF CtxRec, Places
  <2>2. rewound' \subseteq Item /\ main' \in MainRec
    <3>1. ToSet(lists["incoming"]) \subseteq Item
      BY Facts DEF On, Lists
    <3>2. main.item \in Item \cup {NULL}
      BY DEF MainRec
    <3>3. rewound' \subseteq Item
      BY <1>6, <3>1, <3>2 DEF EndCallback
    <3>4. main' \in MainRec
      BY <1>6 DEF EndCallback, MainRec
    <3> QED
      BY <3>3, <3>4
  <2> QED
    BY <1>6, <2>1, <2>2 DEF EndCallback, Goes
<1>7. CASE Report(c)
  <2>1. [ctx[c] EXCEPT !.at = "signalling"] \in CtxRec
    BY <1>c DEF CtxRec, Places
  <2>2. ctx[c].outcome \in Outcomes
    BY <1>c DEF CtxRec
  <2>3. lists' \in [Lists -> Seq(Item)]
    BY <1>7, <2>2, PushOn, EndItemType DEF Report, Lists
  <2> QED
    BY <1>7, <2>1, <2>3 DEF Report, Goes
<1> QED
  BY <1>1, <1>2, <1>3, <1>4, <1>5, <1>6, <1>7 DEF CallbackStep

LEMMA TypesOfMain ==
    ASSUME Types, MainPlace, MainStep
    PROVE  Types'
<1> USE DEF Types
<1>m. /\ main.item \in Item \cup {NULL} /\ NULL \in Item \cup {NULL}
      /\ main.item # NULL => main.item.ctx \in Contexts
  BY Facts DEF MainRec
<1>1. CASE RunLoop \/ Woken \/ TimedOut
  BY <1>1 DEF RunLoop, Woken, TimedOut, MainGoes, MainRec
<1>2. CASE FlushFinished
  <2>1. main' \in MainRec /\ lists' \in [Lists -> Seq(Item)]
    <3>1. /\ main'.processed \in BOOLEAN
          /\ main' = [main EXCEPT !.pc = main'.pc, !.processed = main'.processed]
          /\ main'.pc \in {"errors", "trap"}
      BY <1>2 DEF FlushFinished, MainRec
    <3>2. <<>> \in Seq(Item)
      OBVIOUS
    <3> QED
      BY <1>2, <3>1, <3>2 DEF FlushFinished, MainRec
  <2>2. ASSUME NEW d \in Contexts PROVE ctx'[d] \in CtxRec
    <3>1. ctx[d] \in CtxRec
      OBVIOUS
    <3> QED
      BY <1>2, <3>1 DEF FlushFinished, CtxRec, Places
  <2>3. DOMAIN ctx' = Contexts /\ ctx' = [d \in Contexts |-> ctx'[d]]
    BY <1>2 DEF FlushFinished
  <2> QED
    BY <1>2, <2>1, <2>2, <2>3 DEF FlushFinished
<1>3. CASE FlushErrors
  <2>1. main' \in MainRec
    BY <1>3 DEF FlushErrors, MainGoes, MainRec
  <2>2. lists["errors"] \in Seq(Item) /\ <<>> \in Seq(Item)
    BY DEF Lists, Outcomes
  <2>3. lists' \in [Lists -> Seq(Item)]
    BY <1>3, <2>2 DEF FlushErrors
  <2> QED
    BY <1>3, <2>1, <2>3 DEF FlushErrors
<1>4. CASE PrintError
  <2> DEFINE rest == [lists EXCEPT !["taken"] = Tail(lists["taken"])]
             i == Head(lists["taken"])
  <2>1. main' \in MainRec
    BY <1>4 DEF PrintError, MainGoes, MainRec
  <2>2. lists["taken"] # <<>> /\ "taken" \in Lists
    BY <1>4 DEF PrintError, MainPlace, Lists
  <2>3. i \in Item /\ i.ctx \in Contexts /\ rest \in [Lists -> Seq(Item)]
    BY <2>2, PoppedItems, Facts
  <2>4. EndItem(i.ctx, "completed_callbacks") \in Item
    BY <2>3, EndItemType DEF Outcomes
  <2>5. lists' = [rest EXCEPT !["finished"] = Cons(i, rest["finished"])]
          \/ lists' = [rest EXCEPT !["completed_callbacks"] =
                 Cons(EndItem(i.ctx, "completed_callbacks"),
                      rest["completed_callbacks"])]
    BY <1>4 DEF PrintError, Push, Unlink
  <2> HIDE DEF rest, i
  <2>6. rest["finished"] \in Seq(Item) /\ rest["completed_callbacks"] \in Seq(Item)
    BY <2>3 DEF Lists, Outcomes
  <2>7. lists' \in [Lists -> Seq(Item)]
    <3>1. /\ Cons(i, rest["finished"]) \in Seq(Item)
          /\ Cons(EndItem(i.ctx, "completed_callbacks"),
                  rest["completed_callbacks"]) \in Seq(Item)
      BY <2>3, <2>4, <2>6, PushedItems
    <3> QED
      BY <2>3, <2>5, <3>1
  <2> QED
    BY <1>4, <2>1, <2>7 DEF PrintError
<1>5. CASE PopIncoming
  <2>1. lists["incoming"] # <<>> /\ "incoming" \in Lists
    BY <1>5 DEF PopIncoming, Lists
  <2>2. Head(lists["incoming"]) \in Item /\ Tail(lists["incoming"]) \in Seq(Item)
    BY <2>1, PoppedItems
  <2>3. main' \in MainRec
    BY <1>5, <2>2 DEF PopIncoming, MainRec
  <2>4. lists' = [lists EXCEPT !["incoming"] = Tail(lists["incoming"])]
    BY <1>5 DEF PopIncoming
  <2>5. lists' \in [Lists -> Seq(Item)]
    BY <2>2, <2>4
  <2> QED
    BY <1>5, <2>3, <2>5 DEF PopIncoming
<1>6. CASE (\E ok \in BOOLEAN : CallFunction(ok)) \/ DropResult
  <2>1. ASSUME NEW ok \in BOOLEAN, CallFunction(ok) PROVE Types'
    BY <2>1 DEF CallFunction, MainRec
  <2>2. CASE DropResult
    <3>1. main' \in MainRec
      BY <2>2, <1>m DEF DropResult, MainRec
    <3> QED
      BY <2>2, <3>1 DEF DropResult, Counters
  <2> QED
    BY <1>6, <2>1, <2>2
<1>7. CASE StoreResult
  <2>1. main.item \in Item /\ main.item.ctx \in Contexts /\ main.item.n \in 1..MaxCalls
    BY <1>7, <1>m, Facts DEF StoreResult, MainPlace
  <2>2. ctx[main.item.ctx] \in CtxRec
    BY <2>1
  <2>3. ctx'[main.item.ctx] \in CtxRec
    <3>1. ctx'[main.item.ctx] =
             [ctx[main.item.ctx] EXCEPT !.answer = main.item.n, !.decref = FALSE]
      BY <1>7, <2>1 DEF StoreResult
    <3>2. main.item.n \in 0..MaxCalls
      BY <2>1, RunLoopAssumption
    <3> QED
      BY <2>2, <3>1, <3>2 DEF CtxRec
  <2>4. ctx' = [ctx EXCEPT ![main.item.ctx] = ctx'[main.item.ctx]]
    BY <1>7, <2>1 DEF StoreResult
  <2> QED
    BY <1>7, <2>3, <2>4 DEF StoreResult, MainGoes, MainRec
<1>8. CASE WakeCaller
  <2>1. main.item.ctx \in Contexts
    BY <1>8, <1>m DEF WakeCaller, MainPlace
  <2>2. [ctx[main.item.ctx] EXCEPT !.event = TRUE] \in CtxRec
    BY ZenonT(30), <2>1 DEF CtxRec
  <2> QED
    BY <1>8, <2>2 DEF WakeCaller, MainRec
<1>9. CASE FlushCallbacks
  <2>1. lists' \in [Lists -> Seq(Item)]
    BY <1>9, TransferOn DEF FlushCallbacks, Lists, Outcomes
  <2> QED
    BY <1>9, <2>1 DEF FlushCallbacks, MainRec
<1>10. CASE FlushErrbacks
  <2>1. lists' \in [Lists -> Seq(Item)]
    BY <1>10, TransferOn DEF FlushErrbacks, Lists, Outcomes
  <2> QED
    BY <1>10, <2>1 DEF FlushErrbacks, MainGoes, MainRec
<1>11. CASE UncountPending \/ CountInflight
  <2>1. counts' \in [Counters -> Int]
    BY <1>11 DEF UncountPending, CountInflight, Counters, Pending, Inflight
  <2> QED
    BY <1>11, <2>1 DEF UncountPending, CountInflight, MainGoes, MainRec
<1> QED
  BY <1>1, <1>2, <1>3, <1>4, <1>5, <1>6, <1>7, <1>8, <1>9, <1>10, <1>11
     DEF MainStep

LEMMA TypesOfChoice ==
    ASSUME Types, Choice
    PROVE  Types'
<1> USE DEF Types
<1>1. ASSUME NEW c \in Contexts,
             SubmitWork(c) \/ StartCallback(c) \/ RefuseCall(c)
               \/ FailCallback(c) \/ AbandonSocket(c)
      PROVE  Types'
  <2>0. 0 \in 0..MaxCalls
    BY RunLoopAssumption
  <2>1. ctx[c] \in CtxRec
    OBVIOUS
  <2>2. ctx'[c] \in CtxRec
    <3>1. CASE SubmitWork(c) \/ AbandonSocket(c)
      <4>1. \/ ctx'[c] = [ctx[c] EXCEPT !.at = "submitting"]
            \/ ctx'[c] = [ctx[c] EXCEPT !.at = "abandoned"]
        BY <3>1 DEF SubmitWork, AbandonSocket, Goes
      <4> QED
        BY <2>1, <4>1 DEF CtxRec, Places
    <3>2. CASE StartCallback(c)
      <4>1. ctx'[c] = [ctx[c] EXCEPT !.at = "running", !.kind = "none",
                                     !.n = 0, !.answer = 0]
        BY <3>2 DEF StartCallback
      <4> QED
        BY <2>1, <4>1, <2>0 DEF CtxRec, Places
    <3>3. CASE RefuseCall(c)
      <4>1. ctx'[c] = [ctx[c] EXCEPT !.decref = TRUE]
        BY <3>3 DEF RefuseCall
      <4> QED
        BY <2>1, <4>1 DEF CtxRec
    <3>4. CASE FailCallback(c)
      <4>1. ctx'[c] = [ctx[c] EXCEPT !.at = "reporting", !.outcome = "errors"]
        BY <3>4 DEF FailCallback
      <4> QED
        BY <2>1, <4>1 DEF CtxRec, Places, Outcomes
    <3> QED
      BY <1>1, <3>1, <3>2, <3>3, <3>4
  <2>3. ctx' = [ctx EXCEPT ![c] = ctx'[c]]
    BY <1>1 DEF SubmitWork, StartCallback, RefuseCall, FailCallback,
                AbandonSocket, Goes
  <2>4. counts' \in [Counters -> Int]
    BY <1>1 DEF SubmitWork, StartCallback, RefuseCall, FailCallback,
                AbandonSocket, Counters
  <2> QED
    BY <1>1, <2>2, <2>3, <2>4
       DEF SubmitWork, StartCallback, RefuseCall, FailCallback, AbandonSocket
<1>2. CASE Run \/ RunAgain \/ Interrupt
  BY <1>2 DEF Run, RunAgain, Interrupt, MainGoes, MainRec
<1> QED
  BY <1>1, <1>2 DEF Choice

LEMMA TypesOfSubmit ==
    ASSUME Types, NEW c \in Contexts, SubmitStep(c)
    PROVE  Types'
<1> USE DEF Types
<1>1. \A place \in {"queued", "freed"} : [ctx[c] EXCEPT !.at = place] \in CtxRec
  BY DEF CtxRec, Places
<1>2. ctx' \in [Contexts -> CtxRec]
  BY <1>1 DEF SubmitStep, QueueWork, RefuseWork, Goes
<1>3. counts' \in [Counters -> Int]
  BY DEF SubmitStep, QueueWork, RefuseWork, Counters
<1> QED
  BY <1>2, <1>3 DEF SubmitStep, QueueWork, RefuseWork

-----------------------------------------------------------------------------
(* The steps of a callback that touch no list                              *)

(* The main thread and the lists stay as they are: what is to be shown is  *)
(* about the context and its items only.                                   *)
Quiet(c) ==
    /\ UNCHANGED <<lists, main>>
    /\ \A d \in Contexts \ {c} : ctx'[d] = ctx[d]
    /\ ctx'[c].at \in {"signalling", "ended"}
         <=> ctx[c].at \in {"signalling", "ended"}
    /\ Made(c)' /\ Served(c)'
    /\ \A i \in Held : i.ctx = c => /\ Owned(i)'
                                    /\ ctx'[c].answer = ctx[c].answer

LEMMA QuietStep ==
    ASSUME Types, Order, NEW c \in Contexts, Quiet(c)
    PROVE  Order'
<1> USE DEF Order, Quiet
<1>1. ListsSorted' /\ EndsUnique' /\ FinishedAreQuiet'
  BY DEF ListsSorted, EndsUnique, FinishedAreQuiet, On, Held
<1>2. MainPlace'
  <2>1. main.item # NULL => main.item \in Held /\ main.item.ctx \in Contexts
    BY Facts DEF Types, MainRec, Held
  <2>2. main.item # NULL => ctx'[main.item.ctx].answer = ctx[main.item.ctx].answer
    BY <2>1
  <2> QED
    BY <2>2 DEF MainPlace, On
<1>3. EndsKnown'
  BY DEF EndsKnown, Reported, On
<1>4. CallsMade'
  BY DEF CallsMade, Made
<1>5. CallsHeld'
  <2>1. \A i \in Held : i.ctx \in Contexts
    BY Facts DEF Held, Types, MainRec, Lists
  <2> QED
    BY <2>1 DEF CallsHeld, Held, On, Owned
<1>6. CallersServed'
  BY DEF CallersServed, Served, CallItem, Held, On
<1> QED
  BY <1>1, <1>2, <1>3, <1>4, <1>5, <1>6

LEMMA HeldTypes ==
    ASSUME Types, ListsSorted, MainPlace
    PROVE  \A i \in Held : i \in Item /\ IsCall(i) /\ i.ctx \in Contexts
                             /\ i.n \in 1..MaxCalls
BY Facts DEF Held, Types, MainRec, Lists, ListsSorted, MainPlace

LEMMA QuietCallbacks ==
    ASSUME Types, Order, NEW c \in Contexts,
           \/ QueueWork(c) \/ RefuseWork(c) \/ StartWork(c) \/ CountWork(c)
           \/ SignalCall(c) \/ SignalMain(c) \/ Resume(c) \/ UncountCall(c)
           \/ \E kind \in CallKinds : MakeCall(c, kind)
           \/ \E o \in Outcomes : EndWork(c, o)
    PROVE  Order'
<1> USE DEF Order
<1>t. /\ ctx[c] \in CtxRec /\ ctx[c].n \in Int /\ DOMAIN ctx = Contexts
      /\ Made(c) /\ Served(c) /\ \A i \in Held : Owned(i) /\ i.n \in Int
  BY HeldTypes DEF Types, CtxRec, CallsMade, CallersServed, CallsHeld
<1> SUFFICES Quiet(c)
  BY QuietStep
<1> USE DEF Quiet, CtxRec, Made, Served, Owned
<1>1. CASE StartWork(c) \/ CountWork(c) \/ UncountCall(c)
  BY <1>1, <1>t DEF StartWork, CountWork, UncountCall, Goes
<1>2. CASE SignalCall(c)
  BY <1>2, <1>t DEF SignalCall, Goes, Held, On, CallItem
<1>3. CASE SignalMain(c)
  BY <1>3, <1>t DEF SignalMain, Goes
<1>4. CASE Resume(c)
  BY <1>4, <1>t DEF Resume
<1>5. ASSUME NEW kind \in CallKinds, MakeCall(c, kind)
      PROVE  Quiet(c)
  <2>1. /\ ctx[c].at = "running" /\ ctx'[c].at = "calling"
        /\ ctx'[c].n = ctx[c].n + 1 /\ ctx'[c].kind = kind
        /\ ctx'[c].outcome = ctx[c].outcome /\ ctx'[c].answer = ctx[c].answer
        /\ ctx'[c].event = ctx[c].event /\ UNCHANGED <<lists, main>>
        /\ \A d \in Contexts \ {c} : ctx'[d] = ctx[d]
    BY <1>5, <1>t DEF MakeCall
  <2> QED
    BY <2>1, <1>t, RunLoopAssumption
<1>6. ASSUME NEW o \in Outcomes, EndWork(c, o)
      PROVE  Quiet(c)
  BY ZenonT(30), <1>6, <1>t, RunLoopAssumption DEF EndWork
<1>7. CASE QueueWork(c) \/ RefuseWork(c)
  BY <1>7, <1>t DEF QueueWork, RefuseWork, Goes
<1> QED
  BY <1>1, <1>2, <1>3, <1>4, <1>5, <1>6, <1>7

LEMMA QuietChoices ==
    ASSUME Types, Order, NEW c \in Contexts,
           \/ SubmitWork(c) \/ StartCallback(c) \/ RefuseCall(c)
           \/ FailCallback(c) \/ AbandonSocket(c)
    PROVE  Order'
<1> USE DEF Order
<1>t. /\ ctx[c] \in CtxRec /\ ctx[c].n \in Int /\ DOMAIN ctx = Contexts
      /\ Made(c) /\ Served(c) /\ \A i \in Held : Owned(i) /\ i.n \in Int
      /\ Works \cap Sockets = {}
  BY HeldTypes, Facts DEF Types, CtxRec, CallsMade, CallersServed, CallsHeld
<1> SUFFICES Quiet(c)
  BY QuietStep
<1> USE DEF Quiet, CtxRec, Made, Served, Owned
<1>1. CASE SubmitWork(c)
  BY <1>1, <1>t DEF SubmitWork, Goes
<1>2. CASE StartCallback(c)
  BY <1>2, <1>t DEF StartCallback
<1>3. CASE RefuseCall(c)
  BY <1>3, <1>t DEF RefuseCall
<1>4. CASE FailCallback(c)
  BY <1>4, <1>t DEF FailCallback
<1>5. CASE AbandonSocket(c)
  BY <1>5, <1>t DEF AbandonSocket, Goes
<1> QED
  BY <1>1, <1>2, <1>3, <1>4, <1>5

-----------------------------------------------------------------------------
(* The steps of a callback that touch a list                               *)

LEMMA OrderOfPushCall ==
    ASSUME Types, Order, NEW c \in Contexts, PushCall(c)
    PROVE  Order'
<1> USE DEF Order
<1>0. PICK i \in Item : i = CallItem(c)
  BY CallItemType DEF PushCall
<1>1. /\ i \in Item /\ IsCall(i) /\ i.ctx = c /\ i.kind = ctx[c].kind
      /\ i.n = ctx[c].n /\ i # NULL /\ ~IsEnd(i) /\ "incoming" \in Lists
  BY <1>0, CallItemType, Facts DEF PushCall, Lists
<1>2. /\ ctx[c].at = "calling" /\ ctx' = [ctx EXCEPT ![c].at = "signallingCall"]
      /\ lists' = Push(lists, "incoming", i) /\ UNCHANGED main
  BY <1>0 DEF PushCall, Goes
<1>3. i \notin Held
  BY <1>1, <1>2, HeldTypes DEF CallsHeld, Owned, Types, CtxRec
<1>4. /\ On("incoming")' = On("incoming") \cup {i} /\ Held' = Held \cup {i}
      /\ \A m \in Lists \ {"incoming"} : lists'[m] = lists[m] /\ On(m)' = On(m)
      /\ NoTwice(lists'["incoming"])
  BY <1>1, <1>2, <1>3, PushOn DEF On, Held, ListsSorted
<1>5. /\ ctx'[c] = [ctx[c] EXCEPT !.at = "signallingCall"] /\ ctx[c] \in CtxRec
      /\ \A d \in Contexts \ {c} : ctx'[d] = ctx[d]
  BY <1>2 DEF Types
<1>6. /\ ctx'[c].at = "signallingCall" /\ ctx'[c].kind = ctx[c].kind
      /\ ctx'[c].n = ctx[c].n /\ ctx'[c].event = ctx[c].event
      /\ ctx'[c].answer = ctx[c].answer /\ ctx'[c].outcome = ctx[c].outcome
      /\ ctx[c].n \in Int
  BY <1>5 DEF CtxRec
<1>7. ListsSorted'
  BY <1>1, <1>4 DEF ListsSorted, Lists, Outcomes
<1>8. MainPlace'
  <2>1. main.item # NULL => main.item \in Held /\ main.item.ctx \in Contexts
    BY HeldTypes DEF Held
  <2>2. main.item # NULL => ctx'[main.item.ctx].answer = ctx[main.item.ctx].answer
    BY <2>1, <1>5, <1>6
  <2>3. lists'["taken"] = lists["taken"]
    BY <1>4 DEF Lists
  <2> QED
    BY <2>1, <2>2, <2>3, <1>2, <1>3, <1>4 DEF MainPlace
<1>9. EndsUnique'
  BY <1>1, <1>4 DEF EndsUnique
<1>10. EndsKnown'
  BY <1>1, <1>2, <1>4, <1>5, <1>6 DEF EndsKnown, Reported
<1>11. CallsMade'
  BY <1>2, <1>5, <1>6 DEF CallsMade, Made
<1>12. CallsHeld'
  <2>1. Owned(i)'
    BY <1>1, <1>2, <1>6 DEF Owned, CallersServed, Served
  <2>2. ASSUME NEW j \in Held PROVE Owned(j)'
    <3>1. Owned(j) /\ j.ctx \in Contexts /\ j.n \in Int
      BY HeldTypes DEF CallsHeld
    <3> QED
      BY <3>1, <1>2, <1>5, <1>6 DEF Owned
  <2> QED
    BY <2>1, <2>2, <1>4 DEF CallsHeld
<1>13. CallersServed'
  <2>1. CallItem(c)' = i
    BY <1>0, <1>6 DEF CallItem
  <2>2. \A d \in Contexts \ {c} : CallItem(d)' = CallItem(d)
    BY <1>5 DEF CallItem
  <2>3. Served(c)'
    BY <2>1, <1>2, <1>4, <1>6 DEF CallersServed, Served
  <2>4. ASSUME NEW d \in Contexts \ {c} PROVE Served(d)'
    BY <2>2, <1>4, <1>5 DEF CallersServed, Served
  <2> QED
    BY <2>3, <2>4 DEF CallersServed
<1>14. FinishedAreQuiet'
  <2>1. "finished" \in Lists \ {"incoming"}
    BY DEF Lists
  <2>2. ASSUME NEW j \in On("finished") PROVE j.ctx # c
    <3>1. IsEnd(j) /\ j.ctx \in Contexts
      BY <2>1, Facts DEF ListsSorted
    <3>2. Reported(j.ctx)
      BY <2>1, <3>1 DEF Reported
    <3> QED
      BY <3>1, <3>2, <1>2 DEF EndsKnown
  <2> QED
    BY <2>1, <2>2, <1>1, <1>4 DEF FinishedAreQuiet
<1> QED
  BY <1>7, <1>8, <1>9, <1>10, <1>11, <1>12, <1>13, <1>14

LEMMA OrderOfReport ==
    ASSUME Types, Order, NEW c \in Contexts, Report(c)
    PROVE  Order'
<1> USE DEF Order
<1>o. PICK o \in Outcomes : o = ctx[c].outcome
  BY DEF Types, CtxRec
<1>i. PICK i \in Item : i = EndItem(c, o)
  BY EndItemType
<1>1. ctx[c] \in CtxRec /\ o \in Outcomes /\ Outcomes \subseteq Lists
      /\ o \notin {"incoming", "finished", "taken"}
  BY DEF Types, CtxRec, Lists, Outcomes
<1>2. /\ i \in Item /\ IsEnd(i) /\ i.ctx = c /\ ~IsCall(i)
  BY <1>i, EndItemType, Facts
<1>3. /\ ctx[c].at = "reporting" /\ ctx' = [ctx EXCEPT ![c].at = "signalling"]
      /\ lists' = Push(lists, o, i) /\ UNCHANGED main
  BY <1>o, <1>i DEF Report, Goes
<1>4. ~Reported(c)
  BY <1>3 DEF EndsKnown
<1>5. i \notin On(o)
  BY <1>1, <1>2, <1>4 DEF Reported
<1>6. /\ On(o)' = On(o) \cup {i}
      /\ \A m \in Lists \ {o} : lists'[m] = lists[m] /\ On(m)' = On(m)
      /\ NoTwice(lists'[o]) /\ Held' = Held
  BY <1>1, <1>2, <1>3, <1>5, PushOn DEF On, Held, ListsSorted, Lists
<1>7. /\ ctx'[c] = [ctx[c] EXCEPT !.at = "signalling"]
      /\ \A d \in Contexts \ {c} : ctx'[d] = ctx[d]
  BY <1>3 DEF Types
<1>8. /\ ctx'[c].at = "signalling" /\ ctx'[c].kind = ctx[c].kind
      /\ ctx'[c].n = ctx[c].n /\ ctx'[c].event = ctx[c].event
      /\ ctx'[c].answer = ctx[c].answer /\ ctx'[c].outcome = ctx[c].outcome
      /\ ctx[c].n \in Int
  BY <1>1, <1>7 DEF CtxRec
<1>9. ListsSorted'
  <2>1. o = "completed_errbacks" => c \in Works
    BY <1>o DEF CallsMade, Made, Contexts
  <2> QED
    BY <2>1, <1>1, <1>2, <1>6 DEF ListsSorted, Lists, Outcomes
<1>10. MainPlace'
  <2>1. main.item # NULL => main.item.ctx \in Contexts
    BY HeldTypes DEF Held
  <2>2. main.item # NULL => ctx'[main.item.ctx].answer = ctx[main.item.ctx].answer
    BY <2>1, <1>7, <1>8
  <2>3. lists'["taken"] = lists["taken"] /\ On("incoming")' = On("incoming")
    BY <1>1, <1>6 DEF Lists
  <2> QED
    BY <2>2, <2>3, <1>3 DEF MainPlace
<1>11. EndsUnique'
  <2>1. ASSUME NEW l \in Lists, NEW j \in On(l)', IsEnd(j)
        PROVE  (j \in On(l) /\ j.ctx # c) \/ (j = i /\ l = o)
    <3>2. j \in On(l) => j.ctx # c
      BY <2>1, <1>4 DEF Reported
    <3>1. j \in On(l) \/ (j = i /\ l = o)
      <4>1. CASE l = o
        BY <2>1, <4>1, <1>6
      <4>2. CASE l # o
        BY <2>1, <4>2, <1>6
      <4> QED
        BY <4>1, <4>2
    <3> QED
      BY <2>1, <3>1, <3>2
  <2> QED
    BY <2>1, <1>2 DEF EndsUnique
<1>12. EndsKnown'
  <2>1. ASSUME NEW d \in Contexts PROVE Reported(d)' <=> Reported(d) \/ d = c
    BY <1>1, <1>2, <1>6 DEF Reported
  <2> QED
    BY <2>1, <1>3, <1>7, <1>8 DEF EndsKnown
<1>13. CallsMade'
  BY <1>3, <1>7, <1>8 DEF CallsMade, Made
<1>14. CallsHeld'
  <2> SUFFICES ASSUME NEW j \in Held PROVE Owned(j)'
    BY <1>6 DEF CallsHeld
  <2>1. Owned(j) /\ j.ctx \in Contexts
    BY HeldTypes DEF CallsHeld
  <2> QED
    BY <2>1, <1>3, <1>7, <1>8 DEF Owned
<1>15. CallersServed'
  BY <1>3, <1>6, <1>7, <1>8 DEF CallersServed, Served, CallItem
<1>16. FinishedAreQuiet'
  BY <1>1, <1>6 DEF FinishedAreQuiet, Lists
<1> QED
  BY <1>9, <1>10, <1>11, <1>12, <1>13, <1>14, <1>15, <1>16

(* A heap is rewound with the item of a call in it only if nobody waits    *)
(* for that call.                                                          *)
LEMMA OrderOfEndCallback ==
    ASSUME Types, Order, NEW c \in Contexts, EndCallback(c)
    PROVE  WaitedItemsLast' /\ (Running' => Order')
<1> USE DEF Order
<1>1. /\ rewound' = {i \in Held : i.ctx = c}
      /\ ctx[c].at = "running" /\ ctx' = [ctx EXCEPT ![c].at = "idle"]
      /\ main' = IF rewound' = {} THEN main ELSE [main EXCEPT !.pc = "trap"]
      /\ UNCHANGED lists /\ c \in Sockets
  BY DEF EndCallback, Goes, Held, On
<1>2. WaitedItemsLast'
  BY <1>1 DEF WaitedItemsLast, CallsHeld, Owned
<1>3. ASSUME Running' PROVE Order'
  <2>1. UNCHANGED main /\ \A i \in Held : i.ctx # c
    BY <1>1, <1>3 DEF Running, Types, MainRec
  <2>2. /\ ctx'[c] = [ctx[c] EXCEPT !.at = "idle"] /\ ctx[c] \in CtxRec
        /\ \A d \in Contexts \ {c} : ctx'[d] = ctx[d]
    BY <1>1 DEF Types
  <2>3. Made(c) /\ Served(c) /\ Works \cap Sockets = {}
    BY Facts DEF CallsMade, CallersServed
  <2>4. Quiet(c)
    BY <1>1, <2>1, <2>2, <2>3 DEF Quiet, CtxRec, Made, Served
  <2> QED
    BY <2>4, QuietStep
<1> QED
  BY <1>2, <1>3

-----------------------------------------------------------------------------
(* The steps of the main thread                                            *)

(* A step that moves the main thread only, between places where it has     *)
(* nothing in its hands.                                                   *)
LEMMA OrderOfMoves ==
    ASSUME Types, Order, UNCHANGED <<lists, ctx>>, main.item = NULL,
           main'.item = NULL, main.pc # "printing",
           main'.pc \notin Handling \cup {"printing"}
    PROVE  Order'
<1> USE DEF Order
<1>1. Held' = Held
  BY DEF Held, On
<1>2. MainPlace'
  BY DEF MainPlace, On
<1> QED
  BY <1>1, <1>2 DEF ListsSorted, EndsUnique, EndsKnown, Reported, CallsMade,
     Made, CallsHeld, Owned, CallersServed, Served, CallItem, FinishedAreQuiet,
     On

LEMMA OrderOfTurns ==
    ASSUME Types, Order,
           Run \/ RunAgain \/ Interrupt \/ RunLoop \/ Woken \/ TimedOut
    PROVE  Order'
<1>1. /\ UNCHANGED <<lists, ctx>> /\ main'.item = main.item
      /\ main.pc \notin Handling \cup {"printing"}
      /\ main'.pc \notin Handling \cup {"printing"}
  BY DEF Run, RunAgain, Interrupt, RunLoop, Woken, TimedOut, MainGoes, Types,
         MainRec
<1> QED
  BY <1>1, OrderOfMoves DEF Order, MainPlace

(* A socket that is deallocated had its only item on px->finished, and no  *)
(* call any more.                                                          *)
LEMMA OrderOfFlushFinished ==
    ASSUME Types, Order, FlushFinished, Running'
    PROVE  Order'
<1> USE DEF Order
<1> DEFINE cs == {i.ctx : i \in On("finished")}
<1>f. "finished" \in Lists /\ "taken" \in Lists /\ "incoming" \in Lists
  BY DEF Lists
<1>1. /\ main.pc = "finished" /\ main.item = NULL
      /\ ctx' = [c \in Contexts |-> IF c \in cs \cap Sockets
             THEN [ctx[c] EXCEPT !.at =
                     IF ctx[c].at = "signalling" THEN "freedEarly" ELSE "freed"]
             ELSE ctx[c]]
      /\ lists' = [lists EXCEPT !["finished"] = <<>>]
  <2>1. main.pc = "finished" /\ main.item = NULL
    BY DEF FlushFinished, MainPlace
  <2> QED
    BY <2>1 DEF FlushFinished, On
<1>2. main'.pc = "errors" /\ main'.item = NULL /\ cs \cap Works = {}
  <2>1. /\ main'.pc = IF cs \cap Works = {} THEN "errors" ELSE "trap"
        /\ main'.item = main.item
    BY DEF FlushFinished, On, Types, MainRec
  <2> QED
    BY <2>1, <1>1 DEF Running
<1>3. cs \subseteq Contexts
  BY <1>f, Facts
<1>4. \A c \in cs : c \in Sockets /\ Reported(c)
  <2>1. \A c \in cs : c \in Sockets
    BY <1>2, <1>3 DEF Contexts
  <2>2. ASSUME NEW i \in On("finished") PROVE Reported(i.ctx)
    BY <1>f DEF Reported, ListsSorted
  <2> QED
    BY <2>1, <2>2
<1> HIDE DEF cs
<1>5. ASSUME NEW c \in Contexts
      PROVE  /\ ctx[c] \in CtxRec
             /\ c \in cs => /\ ctx[c].at \in {"signalling", "ended"}
                            /\ ctx'[c].at \in {"freed", "freedEarly"}
             /\ c \notin cs => ctx'[c] = ctx[c]
             /\ ctx'[c].kind = ctx[c].kind /\ ctx'[c].n = ctx[c].n
             /\ ctx'[c].event = ctx[c].event
             /\ ctx'[c].answer = ctx[c].answer
             /\ ctx'[c].outcome = ctx[c].outcome
  <2>1. ctx[c] \in CtxRec
    BY DEF Types
  <2>2. c \in cs => ctx[c].at \in {"signalling", "ended"}
    BY <1>4 DEF EndsKnown
  <2>3. ctx'[c] = IF c \in cs
           THEN [ctx[c] EXCEPT !.at =
                   IF ctx[c].at = "signalling" THEN "freedEarly" ELSE "freed"]
           ELSE ctx[c]
    BY <1>1, <1>4
  <2> QED
    BY <2>1, <2>2, <2>3 DEF CtxRec
<1>6. /\ lists'["finished"] = <<>> /\ On("finished")' = {}
      /\ \A m \in Lists \ {"finished"} : lists'[m] = lists[m] /\ On(m)' = On(m)
      /\ Held' = Held
  <2>1. /\ lists'["finished"] = <<>>
        /\ \A m \in Lists \ {"finished"} : lists'[m] = lists[m]
    BY <1>1, <1>f DEF Types
  <2> QED
    BY <2>1, <1>1, <1>2, <1>f DEF On, ToSet, Held
<1>7. ListsSorted'
  <2>1. NoTwice(<<>>)
    BY DEF NoTwice
  <2>2. "completed_errbacks" \in Lists \ {"finished"}
    BY DEF Lists, Outcomes
  <2> QED
    BY <2>1, <2>2, <1>6 DEF ListsSorted
<1>8. MainPlace'
  BY <1>1, <1>2, <1>6, <1>f DEF MainPlace
<1>9. EndsUnique'
  <2>1. \A l \in Lists : On(l)' \subseteq On(l)
    BY <1>6
  <2> QED
    BY <2>1 DEF EndsUnique
<1>10. EndsKnown'
  <2>1. ASSUME NEW c \in cs PROVE ~Reported(c)'
    <3> SUFFICES ASSUME NEW m \in Lists, NEW j \in On(m)', j.ctx = c, IsEnd(j)
                 PROVE  FALSE
      BY DEF Reported
    <3>1. m # "finished" /\ j \in On(m)
      BY <1>6
    <3>2. PICK i \in On("finished") : i.ctx = c
      BY DEF cs
    <3>3. IsEnd(i)
      BY <1>f DEF ListsSorted
    <3> QED
      BY <3>1, <3>2, <3>3, <1>f DEF EndsUnique
  <2>2. ASSUME NEW c \in Contexts \ cs PROVE Reported(c)' <=> Reported(c)
    <3>1. \A j \in On("finished") : j.ctx # c
      BY DEF cs
    <3> QED
      BY <3>1, <1>6 DEF Reported
  <2> QED
    BY <2>1, <2>2, <1>5 DEF EndsKnown
<1>11. CallsMade'
  BY <1>5 DEF CallsMade, Made
<1>12. CallsHeld'
  <2> SUFFICES ASSUME NEW j \in Held PROVE Owned(j)'
    BY <1>6 DEF CallsHeld
  <2>1. Owned(j) /\ j.ctx \in Contexts
    BY HeldTypes DEF CallsHeld
  <2>2. j.ctx \notin cs
    BY <1>4 DEF FinishedAreQuiet, cs
  <2> QED
    BY <2>1, <2>2, <1>5 DEF Owned
<1>13. CallersServed'
  BY <1>5, <1>6 DEF CallersServed, Served, CallItem
<1>14. FinishedAreQuiet'
  BY <1>6 DEF FinishedAreQuiet
<1> QED
  BY <1>7, <1>8, <1>9, <1>10, <1>11, <1>12, <1>13, <1>14

(* The report of an end moves from one list to another, perhaps as another *)
(* of the three items of its context.                                      *)
LEMMA EndsMove ==
    ASSUME Types, Order, UNCHANGED ctx,
           NEW l \in Lists \ {"incoming"},
           NEW m \in Lists \ {l, "incoming", "completed_errbacks"},
           \A k \in Lists \ {l, m} : lists'[k] = lists[k],
           NoTwice(lists'[l]), NoTwice(lists'[m]), On(l)' \subseteq On(l),
           \A j \in On(m)' : IsEnd(j),
           \A j \in On(m)' : j \notin On(m) =>
               \E i \in On(l) : /\ i \notin On(l)' /\ i.ctx = j.ctx
                                /\ \A h \in On(m)' \ On(m) :
                                     h.ctx = j.ctx => h = j,
           \A i \in On(l) : i \in On(l)' \/ \E j \in On(m)' : j.ctx = i.ctx,
           On(m) \subseteq On(m)'
    PROVE  ListsSorted' /\ EndsUnique' /\ EndsKnown'
<1> USE DEF Order
<1>1. \A k \in Lists \ {l, m} : On(k)' = On(k)
  BY DEF On
<1>2. ListsSorted'
  <2>1. "completed_errbacks" \in Lists
    BY DEF Lists, Outcomes
  <2>2. \A i \in On("completed_errbacks")' : i.ctx \in Works
    BY <2>1, <1>1 DEF ListsSorted
  <2> QED
    BY <2>2, <1>1 DEF ListsSorted
(* Where the report was that is now on the list k.                         *)
<1>3. ASSUME NEW k \in Lists, NEW j \in On(k)', IsEnd(j)
      PROVE  \/ j \in On(k)
             \/ /\ k = m /\ j \notin On(m)
                /\ \E i \in On(l) : IsEnd(i) /\ i.ctx = j.ctx /\ i \notin On(l)'
                /\ \A h \in On(m)' \ On(m) : h.ctx = j.ctx => h = j
  BY <1>1, <1>3 DEF ListsSorted
<1>4. EndsUnique'
  <2> SUFFICES ASSUME NEW a \in Lists, NEW b \in Lists, NEW i \in On(a)',
                      NEW j \in On(b)', IsEnd(i), IsEnd(j), i.ctx = j.ctx
               PROVE  a = b /\ i = j
    BY DEF EndsUnique
  <2>1. CASE i \in On(a) /\ j \in On(b)
    BY <2>1 DEF EndsUnique
  <2>2. CASE i \notin On(a) /\ j \notin On(b)
    BY <2>2, <1>3
  <2>3. CASE i \in On(a) /\ j \notin On(b)
    <3>1. PICK h \in On(l) : IsEnd(h) /\ h.ctx = j.ctx /\ h \notin On(l)'
      BY <2>3, <1>3
    <3>2. a = l /\ i = h
      BY <3>1, <2>3 DEF EndsUnique
    <3> QED
      BY <3>1, <3>2
  <2>4. CASE i \notin On(a) /\ j \in On(b)
    <3>1. PICK h \in On(l) : IsEnd(h) /\ h.ctx = i.ctx /\ h \notin On(l)'
      BY <2>4, <1>3
    <3>2. b = l /\ j = h
      BY <3>1, <2>4 DEF EndsUnique
    <3> QED
      BY <3>1, <3>2
  <2> QED
    BY <2>1, <2>2, <2>3, <2>4
<1>5. EndsKnown'
  <2>1. ASSUME NEW c \in Contexts, Reported(c) PROVE Reported(c)'
    <3>1. PICK k \in Lists : \E i \in On(k) : i.ctx = c /\ IsEnd(i)
      BY <2>1 DEF Reported
    <3>2. PICK i \in On(k) : i.ctx = c /\ IsEnd(i)
      BY <3>1
    <3>3. CASE k = l /\ i \notin On(l)'
      BY <3>2, <3>3 DEF Reported
    <3>4. CASE ~(k = l /\ i \notin On(l)')
      <4>1. i \in On(k)'
        BY <3>2, <3>4, <1>1
      <4> QED
        BY <4>1, <3>2 DEF Reported
    <3> QED
      BY <3>3, <3>4
  <2>2. ASSUME NEW c \in Contexts, Reported(c)' PROVE Reported(c)
    <3>1. PICK k \in Lists : \E i \in On(k)' : i.ctx = c /\ IsEnd(i)
      BY <2>2 DEF Reported
    <3>2. PICK i \in On(k)' : i.ctx = c /\ IsEnd(i)
      BY <3>1
    <3> QED
      BY <3>2, <1>3 DEF Reported
  <2> QED
    BY <2>1, <2>2 DEF EndsKnown
<1> QED
  BY <1>2, <1>4, <1>5

LEMMA CallsStay ==
    ASSUME Order, UNCHANGED ctx, Held' = Held
    PROVE  CallsMade' /\ CallsHeld' /\ CallersServed'
BY DEF Order, CallsMade, Made, CallsHeld, Owned, CallersServed, Served,
       CallItem

LEMMA OrderOfFlushErrors ==
    ASSUME Types, Order, FlushErrors
    PROVE  Order'
<1> USE DEF Order
<1>l. {"errors", "taken", "incoming", "finished"} \subseteq Lists
  BY DEF Lists, Outcomes
<1>1. /\ main.pc = "errors" /\ main.item = NULL /\ lists["taken"] = <<>>
      /\ main'.item = NULL
      /\ main'.pc = IF lists["errors"] = <<>> THEN "incoming" ELSE "printing"
      /\ UNCHANGED ctx
  BY DEF FlushErrors, MainGoes, MainPlace, Types, MainRec
<1>2. /\ lists'["errors"] = <<>> /\ lists'["taken"] = lists["errors"]
      /\ \A k \in Lists \ {"errors", "taken"} : lists'[k] = lists[k]
  BY <1>l DEF FlushErrors, Types
<1>3. /\ On("errors")' = {} /\ On("taken") = {} /\ On("taken")' = On("errors")
      /\ On("incoming")' = On("incoming") /\ On("finished")' = On("finished")
      /\ Held' = Held /\ NoTwice(<<>>)
  BY <1>l, <1>1, <1>2 DEF On, ToSet, Held, NoTwice
<1>4. ListsSorted' /\ EndsUnique' /\ EndsKnown'
  <2>1. "errors" \in Lists \ {"incoming"}
        /\ "taken" \in Lists \ {"errors", "incoming", "completed_errbacks"}
    BY <1>l
  <2>2. NoTwice(lists'["taken"]) /\ NoTwice(lists'["errors"])
    BY <1>l, <1>2, <1>3 DEF ListsSorted
  <2>3. \A j \in On("taken")' : IsEnd(j)
    BY <1>l, <1>3 DEF ListsSorted
  <2>4. \A j \in On("taken")' : j \notin On("taken") =>
           \E i \in On("errors") : /\ i \notin On("errors")' /\ i.ctx = j.ctx
                                   /\ \A h \in On("taken")' \ On("taken") :
                                        h.ctx = j.ctx => h = j
    BY <1>l, <1>3, <2>3 DEF EndsUnique
  <2> QED
    BY <1>1, <1>2, <1>3, <2>1, <2>2, <2>3, <2>4, EndsMove
<1>5. MainPlace'
  BY <1>1, <1>2, <1>3 DEF MainPlace
<1>6. CallsMade' /\ CallsHeld' /\ CallersServed' /\ FinishedAreQuiet'
  BY <1>1, <1>3, CallsStay DEF FinishedAreQuiet
<1> QED
  BY <1>4, <1>5, <1>6

LEMMA OrderOfPrintError ==
    ASSUME Types, Order, PrintError
    PROVE  Order'
<1> USE DEF Order
<1>l. /\ {"taken", "incoming", "finished", "completed_callbacks"} \subseteq Lists
      /\ "completed_callbacks" \in Outcomes
  BY DEF Lists, Outcomes
<1>1. /\ main.pc = "printing" /\ main.item = NULL /\ lists["taken"] # <<>>
      /\ UNCHANGED ctx
  BY DEF PrintError, MainPlace
<1>2. /\ lists["taken"] \in Seq(Item) /\ NoTwice(lists["taken"])
      /\ Tail(lists["taken"]) \in Seq(Item)
      /\ lists \in [Lists -> Seq(Item)]
  BY <1>l, <1>1, PoppedItems DEF Types, ListsSorted
<1>3. PICK i \in Item : /\ i = Head(lists["taken"]) /\ i \in On("taken") /\ IsEnd(i)
                        /\ i.ctx \in Contexts
                        /\ ToSet(Tail(lists["taken"])) = On("taken") \ {i}
                        /\ NoTwice(Tail(lists["taken"]))
  BY <1>l, <1>1, <1>2, PoppedItems, Facts DEF On, ListsSorted
<1>4. PICK m \in {"finished", "completed_callbacks"}, j \in Item :
        /\ j.ctx = i.ctx /\ IsEnd(j) /\ (m = "finished" => i.ctx \in Works)
        /\ lists' = Push([lists EXCEPT !["taken"] = Tail(lists["taken"])], m, j)
  <2>1. CASE i.ctx \in Works /\ lists' =
              Push([lists EXCEPT !["taken"] = Tail(lists["taken"])], "finished", i)
    BY <2>1, <1>3
  <2>2. CASE lists' = Unlink([lists EXCEPT !["taken"] = Tail(lists["taken"])], i.ctx)
    BY <2>2, <1>l, <1>3, EndItemType DEF Unlink
  <2> QED
    BY <1>3, <2>1, <2>2 DEF PrintError
<1>5. /\ lists'["taken"] = Tail(lists["taken"])
      /\ lists'[m] = Cons(j, lists[m])
      /\ \A k \in Lists \ {"taken", m} : lists'[k] = lists[k]
  BY <1>l, <1>2, <1>4 DEF Push
<1>6. j \notin On(m)
  BY <1>l, <1>3, <1>4 DEF EndsUnique
<1>7. /\ On("taken")' = On("taken") \ {i} /\ NoTwice(lists'["taken"])
      /\ On(m)' = On(m) \cup {j} /\ NoTwice(lists'[m])
  <2>1. lists[m] \in Seq(Item) /\ NoTwice(lists[m])
    BY <1>l, <1>2 DEF ListsSorted
  <2> QED
    BY SMTT(30), <2>1, <1>3, <1>5, <1>6, PushedItems DEF On
<1>8. /\ On("incoming")' = On("incoming") /\ main'.item = NULL /\ Held' = Held
      /\ main'.pc = IF lists'["taken"] = <<>> THEN "incoming" ELSE "printing"
  <2>1. main'.item = NULL
    BY <1>1 DEF PrintError, MainGoes, Types, MainRec
  <2>2. main'.pc = IF [lists EXCEPT !["taken"] = Tail(lists["taken"])]["taken"] = <<>>
                   THEN "incoming" ELSE "printing"
    BY DEF PrintError, MainGoes, Types, MainRec
  <2>3. On("incoming")' = On("incoming")
    BY <1>l, <1>5 DEF On
  <2> QED
    BY <2>1, <2>2, <2>3, <1>l, <1>1, <1>2, <1>5 DEF Held
<1>9. ListsSorted' /\ EndsUnique' /\ EndsKnown'
  <2>1. "taken" \in Lists \ {"incoming"}
        /\ m \in Lists \ {"taken", "incoming", "completed_errbacks"}
    BY <1>l
  <2>2. \A h \in On(m)' : IsEnd(h)
    BY <1>l, <1>4, <1>7 DEF ListsSorted
  <2>3. /\ \A h \in On(m)' \ On(m) : h = j
        /\ \A h \in On(m)' : h \notin On(m) =>
             \E g \in On("taken") : /\ g \notin On("taken")' /\ g.ctx = h.ctx
                                    /\ \A f \in On(m)' \ On(m) :
                                         f.ctx = h.ctx => f = h
    BY <1>3, <1>4, <1>6, <1>7
  <2>4. /\ \A g \in On("taken") : g \in On("taken")' \/ \E h \in On(m)' : h.ctx = g.ctx
        /\ On("taken")' \subseteq On("taken") /\ On(m) \subseteq On(m)'
    BY <1>3, <1>4, <1>7
  <2> QED
    BY <1>1, <1>5, <1>7, <2>1, <2>2, <2>3, <2>4, EndsMove
<1>10. MainPlace'
  BY <1>8 DEF MainPlace
<1>11. CallsMade' /\ CallsHeld' /\ CallersServed'
  BY <1>1, <1>8, CallsStay
<1>12. FinishedAreQuiet'
  <2>1. ASSUME NEW h \in On("finished")', h.ctx \in Sockets
        PROVE  h \in On("finished")
    BY <2>1, <1>l, <1>4, <1>5, <1>7, Facts DEF On
  <2> QED
    BY <2>1, <1>8 DEF FinishedAreQuiet
<1> QED
  BY <1>9, <1>10, <1>11, <1>12

(* The contexts of a list that is flushed to px->finished, when that list  *)
(* has no socket or the main thread no call.                               *)
LEMMA OrderOfFlush ==
    ASSUME Types, Order, NEW l \in {"completed_callbacks", "completed_errbacks"},
           lists' = TransferAll(lists, l), UNCHANGED ctx,
           main.item = NULL, main'.item = NULL, main.pc # "printing",
           main'.pc \notin Handling \cup {"printing"},
           l = "completed_errbacks" \/ On("incoming") = {}
    PROVE  Order'
<1> USE DEF Order
<1>l. /\ {l, "taken", "incoming", "finished"} \subseteq Lists
      /\ l \in Lists \ {"finished", "incoming"}
      /\ "finished" \in Lists \ {l, "incoming", "completed_errbacks"}
  BY DEF Lists, Outcomes
<1>1. \A i \in On(l) : IsEnd(i)
  BY <1>l DEF ListsSorted
<1>2. On(l) \cap On("finished") = {}
  BY <1>l, <1>1 DEF EndsUnique
<1>3. /\ lists'[l] = <<>> /\ On(l)' = {}
      /\ On("finished")' = On(l) \cup On("finished")
      /\ \A k \in Lists \ {l, "finished"} : lists'[k] = lists[k]
      /\ NoTwice(lists'["finished"])
  BY <1>l, <1>2, TransferOn DEF ListsSorted
<1>4. /\ On("incoming")' = On("incoming") /\ Held' = Held
      /\ lists'["taken"] = lists["taken"] /\ NoTwice(lists'[l])
  BY <1>l, <1>3 DEF On, Held, NoTwice
<1>5. ListsSorted' /\ EndsUnique' /\ EndsKnown'
  <2>1. \A h \in On("finished")' : IsEnd(h)
    BY <1>l, <1>1, <1>3 DEF ListsSorted
  <2>2. \A j \in On("finished")' : j \notin On("finished") =>
           \E i \in On(l) : /\ i \notin On(l)' /\ i.ctx = j.ctx
                            /\ \A h \in On("finished")' \ On("finished") :
                                 h.ctx = j.ctx => h = j
    BY <1>l, <1>1, <1>3 DEF EndsUnique
  <2>3. /\ \A g \in On(l) : g \in On(l)' \/ \E h \in On("finished")' : h.ctx = g.ctx
        /\ On(l)' \subseteq On(l) /\ On("finished") \subseteq On("finished")'
    BY <1>3
  <2> QED
    BY <1>l, <1>3, <1>4, <2>1, <2>2, <2>3, EndsMove
<1>6. MainPlace'
  BY <1>4 DEF MainPlace
<1>7. CallsMade' /\ CallsHeld' /\ CallersServed'
  BY <1>4, CallsStay
<1>8. FinishedAreQuiet'
  <2>1. CASE l = "completed_errbacks"
    BY <2>1, <1>3, <1>4, Facts DEF FinishedAreQuiet, ListsSorted
  <2>2. CASE On("incoming") = {}
    BY <2>2, <1>4 DEF FinishedAreQuiet, Held
  <2> QED
    BY <2>1, <2>2
<1> QED
  BY <1>5, <1>6, <1>7, <1>8

LEMMA OrderOfFlushes ==
    ASSUME Types, Order, FlushCallbacks \/ FlushErrbacks
    PROVE  Order'
<1>1. CASE FlushCallbacks
  <2>1. /\ main.pc = "incoming" /\ main'.pc = "errbacks" /\ main'.item = main.item
        /\ On("incoming") = {} /\ UNCHANGED ctx
        /\ lists' = TransferAll(lists, "completed_callbacks")
    BY <1>1 DEF FlushCallbacks, Types, MainRec, On, ToSet
  <2> QED
    BY <2>1, OrderOfFlush DEF Order, MainPlace
<1>2. CASE FlushErrbacks
  <2>1. /\ main.pc = "errbacks" /\ main'.pc \in {"run", "wait"}
        /\ main'.item = main.item /\ UNCHANGED ctx
        /\ lists' = TransferAll(lists, "completed_errbacks")
    BY <1>2 DEF FlushErrbacks, MainGoes, Types, MainRec
  <2> QED
    BY <2>1, OrderOfFlush DEF Order, MainPlace
<1> QED
  BY <1>1, <1>2

LEMMA OrderOfPopIncoming ==
    ASSUME Types, Order, PopIncoming
    PROVE  Order'
<1> USE DEF Order
<1>l. {"incoming", "taken", "finished", "completed_errbacks"} \subseteq Lists
  BY DEF Lists, Outcomes
<1>1. PICK i \in Item : i = Head(lists["incoming"])
  BY <1>l, PopOn DEF PopIncoming
<1>2. /\ i \in On("incoming") /\ On("incoming")' = On("incoming") \ {i}
      /\ NoTwice(lists'["incoming"])
      /\ \A k \in Lists \ {"incoming"} : lists'[k] = lists[k] /\ On(k)' = On(k)
  BY <1>l, <1>1, PopOn DEF PopIncoming, On, ListsSorted
<1>3. /\ main.pc = "incoming" /\ main.item = NULL /\ UNCHANGED ctx
      /\ main'.pc = "popped" /\ main'.item = i
  BY <1>1 DEF PopIncoming, MainPlace, Types, MainRec
<1>4. i # NULL /\ IsCall(i) /\ ~IsEnd(i)
  BY <1>l, <1>2, Facts DEF ListsSorted
<1>5. Held' = Held
  BY <1>2, <1>3, <1>4 DEF Held
<1>6. ListsSorted'
  BY <1>l, <1>2 DEF ListsSorted
<1>7. EndsUnique'
  BY <1>2 DEF EndsUnique
<1>8. EndsKnown'
  <2>1. ASSUME NEW c \in Contexts PROVE Reported(c)' <=> Reported(c)
    BY <1>l, <1>2, <1>4 DEF Reported
  <2> QED
    BY <2>1, <1>3 DEF EndsKnown
<1>9. MainPlace'
  BY <1>l, <1>2, <1>3, <1>4 DEF MainPlace
<1>10. CallsMade' /\ CallsHeld' /\ CallersServed' /\ FinishedAreQuiet'
  BY <1>l, <1>2, <1>3, <1>5, CallsStay DEF FinishedAreQuiet
<1> QED
  BY <1>6, <1>7, <1>8, <1>9, <1>10

LEMMA ListsStay ==
    ASSUME Order, UNCHANGED lists
    PROVE  /\ ListsSorted' /\ EndsUnique' /\ \A l \in Lists : On(l)' = On(l)
           /\ On("incoming")' = On("incoming") /\ On("finished")' = On("finished")
           /\ \A c \in Contexts : Reported(c)' <=> Reported(c)
BY DEF Order, ListsSorted, EndsUnique, Reported, On

(* The steps between the pop and the end of the function: the item stays   *)
(* in the hands of the main thread.                                        *)
LEMMA OrderOfHandling ==
    ASSUME Types, Order,
           \/ UncountPending \/ CountInflight
           \/ \E ok \in BOOLEAN : CallFunction(ok)
    PROVE  Order'
<1> USE DEF Order
<1>1. /\ main.pc \in {"popped", "uncounted", "got"} /\ main'.item = main.item
      /\ main'.pc \in {"uncounted", "got", "called"} /\ UNCHANGED <<lists, ctx>>
  <2>1. CASE UncountPending \/ CountInflight
    BY <2>1 DEF UncountPending, CountInflight, MainGoes, Types, MainRec
  <2>2. CASE \E ok \in BOOLEAN : CallFunction(ok)
    BY <2>2 DEF CallFunction, Types, MainRec
  <2> QED
    BY <2>1, <2>2
<1>2. Held' = Held
  BY <1>1 DEF Held, On
<1>3. MainPlace'
  BY <1>1 DEF MainPlace, On
<1> QED
  BY <1>1, <1>2, <1>3, ListsStay, CallsStay DEF EndsKnown, FinishedAreQuiet

LEMMA OrderOfDropResult ==
    ASSUME Types, Order, DropResult
    PROVE  Order'
<1> USE DEF Order
<1>1. /\ main.pc = "called" /\ main.item.kind = "nowait" /\ main'.item = NULL
      /\ main'.pc \in {"left", "incoming"} /\ UNCHANGED <<lists, ctx>>
  BY DEF DropResult, Types, MainRec
<1>2. Held' = Held \ {main.item}
  BY <1>1 DEF Held, On, MainPlace
<1>3. MainPlace'
  BY <1>1 DEF MainPlace
<1>4. EndsKnown' /\ FinishedAreQuiet' /\ CallsMade'
  BY <1>1, <1>2, ListsStay DEF EndsKnown, FinishedAreQuiet, CallsMade, Made
<1>5. CallsHeld'
  BY <1>1, <1>2 DEF CallsHeld, Owned
<1>6. CallersServed'
  <2> SUFFICES ASSUME NEW c \in Contexts PROVE Served(c)'
    BY DEF CallersServed
  <2>1. Served(c) /\ CallItem(c)' = CallItem(c)
    BY <1>1 DEF CallersServed, CallItem
  <2>2. ctx[c].kind = "wait" => CallItem(c) # main.item
    BY <1>1 DEF CallItem
  <2> QED
    BY <2>1, <2>2, <1>1, <1>2 DEF Served
<1> QED
  BY <1>1, <1>3, <1>4, <1>5, <1>6, ListsStay

LEMMA OrderOfStoreResult ==
    ASSUME Types, Order, StoreResult
    PROVE  Order'
<1> USE DEF Order
<1>1. PICK c \in Contexts : c = main.item.ctx /\ main.item \in Held
                            /\ main.item \in Item /\ Owned(main.item)
  BY HeldTypes DEF StoreResult, MainPlace, Held, CallsHeld
<1>2. /\ main.pc = "called" /\ main.item.kind = "wait" /\ main'.pc = "stored"
      /\ main'.item = main.item /\ UNCHANGED lists
  BY DEF StoreResult, MainGoes, Types, MainRec
<1>3. /\ ctx[c] \in CtxRec
      /\ ctx'[c] = [ctx[c] EXCEPT !.answer = main.item.n, !.decref = FALSE]
      /\ \A d \in Contexts \ {c} : ctx'[d] = ctx[d]
  BY <1>1 DEF StoreResult, Types
<1>4. /\ ctx'[c].answer = main.item.n
      /\ \A d \in Contexts : /\ ctx'[d].at = ctx[d].at /\ ctx'[d].kind = ctx[d].kind
                             /\ ctx'[d].n = ctx[d].n
                             /\ ctx'[d].event = ctx[d].event
                             /\ ctx'[d].outcome = ctx[d].outcome
      /\ ~ctx[c].event
  BY ZenonT(60), <1>1, <1>2, <1>3 DEF CtxRec, Owned
<1>5. Held' = Held /\ \A d \in Contexts : CallItem(d)' = CallItem(d)
  BY <1>2, <1>4 DEF Held, On, CallItem
<1>6. MainPlace'
  BY <1>1, <1>2, <1>4, ListsStay DEF MainPlace
<1>7. EndsKnown' /\ FinishedAreQuiet' /\ CallsMade'
  BY <1>2, <1>4, <1>5, ListsStay DEF EndsKnown, FinishedAreQuiet, CallsMade,
              Made
<1>8. CallsHeld'
  <2> SUFFICES ASSUME NEW i \in Held PROVE Owned(i)'
    BY <1>5 DEF CallsHeld
  <2>1. i.ctx \in Contexts /\ Owned(i)
    BY HeldTypes DEF CallsHeld
  <2> QED
    BY <2>1, <1>4 DEF Owned
<1>9. CallersServed'
  <2> SUFFICES ASSUME NEW d \in Contexts PROVE Served(d)'
    BY DEF CallersServed
  <2>1. Served(d)
    BY DEF CallersServed
  <2>2. ctx[d].event => ctx'[d].answer = ctx[d].answer
    BY <1>3, <1>4
  <2> QED
    BY <2>1, <2>2, <1>4, <1>5 DEF Served
<1> QED
  BY <1>2, <1>6, <1>7, <1>8, <1>9, ListsStay

LEMMA OrderOfWakeCaller ==
    ASSUME Types, Order, WakeCaller
    PROVE  Order'
<1> USE DEF Order
<1>1. PICK c \in Contexts, i \in Item :
          /\ i = main.item /\ c = i.ctx /\ i \in Held /\ Owned(i)
          /\ i.kind = "wait" /\ ctx[c].answer = i.n /\ i \notin On("incoming")
          /\ i # NULL
  BY HeldTypes DEF WakeCaller, MainPlace, Held, CallsHeld
<1>2. /\ main.pc = "stored" /\ main'.pc = "incoming" /\ main'.item = NULL
      /\ UNCHANGED lists
  BY DEF WakeCaller, Types, MainRec
<1>3. /\ ctx[c] \in CtxRec /\ ctx'[c] = [ctx[c] EXCEPT !.event = TRUE]
      /\ \A d \in Contexts \ {c} : ctx'[d] = ctx[d]
  BY <1>1 DEF WakeCaller, Types
<1>4. /\ ctx'[c].event
      /\ \A d \in Contexts : /\ ctx'[d].at = ctx[d].at /\ ctx'[d].kind = ctx[d].kind
                             /\ ctx'[d].n = ctx[d].n
                             /\ ctx'[d].answer = ctx[d].answer
                             /\ ctx'[d].outcome = ctx[d].outcome
  BY <1>3 DEF CtxRec
<1>5. Held' = Held \ {i} /\ \A d \in Contexts : CallItem(d)' = CallItem(d)
  BY <1>1, <1>2, <1>4 DEF Held, On, CallItem
<1>6. MainPlace'
  BY <1>2, ListsStay DEF MainPlace
<1>7. EndsKnown' /\ FinishedAreQuiet' /\ CallsMade'
  BY <1>2, <1>4, <1>5, ListsStay DEF EndsKnown, FinishedAreQuiet, CallsMade,
              Made
(* The caller had one item, and it is done with.                           *)
<1>8. \A j \in Held' : j.ctx = c => j.kind # "wait"
  <2> SUFFICES ASSUME NEW j \in Held', j.ctx = c, j.kind = "wait" PROVE FALSE
    OBVIOUS
  <2>1. j \in Item /\ Owned(j) /\ j # i
    BY <1>5, HeldTypes DEF CallsHeld
  <2>2. i.n = j.n /\ i.kind = j.kind /\ i.ctx = j.ctx
    BY <2>1, <1>1 DEF Owned
  <2> QED
    BY <2>1, <2>2 DEF Item
<1>9. CallsHeld'
  <2> SUFFICES ASSUME NEW j \in Held' PROVE Owned(j)'
    BY DEF CallsHeld
  <2>1. j.ctx \in Contexts /\ Owned(j)
    BY <1>5, HeldTypes DEF CallsHeld
  <2> QED
    BY <2>1, <1>3, <1>4, <1>8 DEF Owned
<1>10. CallersServed'
  <2> SUFFICES ASSUME NEW d \in Contexts PROVE Served(d)'
    BY DEF CallersServed
  <2>1. Served(d)
    BY DEF CallersServed
  <2>2. CASE d = c
    BY <2>2, <1>1, <1>4 DEF Served, Owned
  <2>3. CASE d # c
    <3>1. CallItem(d) # i
      BY <2>3, <1>1 DEF CallItem
    <3> QED
      BY <2>1, <2>3, <3>1, <1>3, <1>5 DEF Served
  <2> QED
    BY <2>2, <2>3
<1> QED
  BY <1>2, <1>6, <1>7, <1>9, <1>10, ListsStay

-----------------------------------------------------------------------------
(* The order holds always                                                  *)

LEMMA OrderInit == Init => OrderInv
<1> SUFFICES ASSUME Init PROVE OrderInv
  OBVIOUS
<1>1. Types
  BY TypesInit
<1>2. /\ \A l \in Lists : lists[l] = <<>> /\ On(l) = {}
      /\ main.item = NULL /\ main.pc = "user" /\ rewound = {} /\ Held = {}
  <2>1. \A l \in Lists : lists[l] = <<>>
    BY DEF Init
  <2>2. "incoming" \in Lists
    BY DEF Lists
  <2> QED
    BY <2>1, <2>2 DEF Init, On, ToSet, Held
<1>3. \A c \in Contexts :
        /\ ctx[c].at = IF c \in Works THEN "new" ELSE "idle"
        /\ ctx[c].outcome = "errors" /\ ~ctx[c].event
  BY DEF Init
<1>4. ListsSorted /\ MainPlace /\ EndsUnique /\ FinishedAreQuiet
  <2>1. NoTwice(<<>>)
    BY DEF NoTwice
  <2>2. {"completed_errbacks", "taken", "finished"} \subseteq Lists
    BY DEF Lists, Outcomes
  <2> QED
    BY <2>1, <2>2, <1>2
       DEF ListsSorted, MainPlace, EndsUnique, FinishedAreQuiet
<1>5. EndsKnown
  BY <1>2, <1>3 DEF EndsKnown, Reported
<1>6. CallsMade /\ CallsHeld /\ CallersServed
  BY <1>2, <1>3 DEF CallsMade, Made, CallsHeld, CallersServed, Served
<1> QED
  BY <1>1, <1>2, <1>4, <1>5, <1>6 DEF OrderInv, Order, WaitedItemsLast

LEMMA OrderOfMain ==
    ASSUME Types, Order, MainStep, Running'
    PROVE  Order'
<1>1. CASE \/ UncountPending \/ CountInflight
           \/ \E ok \in BOOLEAN : CallFunction(ok)
  BY <1>1, OrderOfHandling
<1>2. CASE FlushFinished
  BY <1>2, OrderOfFlushFinished
<1> QED
  BY <1>1, <1>2, OrderOfTurns, OrderOfFlushErrors, OrderOfPrintError,
     OrderOfPopIncoming, OrderOfStoreResult, OrderOfWakeCaller,
     OrderOfDropResult, OrderOfFlushes DEF MainStep

LEMMA OrderOfChoice ==
    ASSUME Types, Order, Choice
    PROVE  Order'
BY QuietChoices, OrderOfTurns DEF Choice

(* Every callback but the end of one leaves rewound as it is, and the main *)
(* thread where it is.                                                     *)
LEMMA OrderOfCallback ==
    ASSUME Types, Order, WaitedItemsLast, NEW c \in Contexts, CallbackStep(c)
    PROVE  WaitedItemsLast' /\ (Running' => Order')
<1>1. CASE EndCallback(c)
  BY <1>1, OrderOfEndCallback
<1>2. CASE PushCall(c)
  BY <1>2, OrderOfPushCall DEF PushCall, WaitedItemsLast
<1>3. CASE Report(c)
  BY <1>3, OrderOfReport DEF Report, WaitedItemsLast
<1>4. ASSUME \/ StartWork(c) \/ CountWork(c) \/ SignalCall(c) \/ SignalMain(c)
             \/ Resume(c) \/ UncountCall(c)
             \/ \E kind \in CallKinds : MakeCall(c, kind)
             \/ \E o \in Outcomes : EndWork(c, o)
      PROVE  WaitedItemsLast' /\ (Running' => Order')
  <2>1. UNCHANGED rewound
    BY <1>4 DEF StartWork, CountWork, SignalCall, SignalMain, Resume,
                UncountCall, MakeCall, EndWork
  <2> QED
    BY <1>4, <2>1, QuietCallbacks DEF WaitedItemsLast
<1> QED
  BY <1>1, <1>2, <1>3, <1>4 DEF CallbackStep

(* Nothing happens after a __debugbreak().                                 *)
LEMMA Stopped ==
    ASSUME Next
    PROVE  Running
BY DEF Next, MainStep, Choice, CallbackStep, SubmitStep, Running, RunLoop,
       FlushFinished, FlushErrors, PrintError, PopIncoming, UncountPending,
       CountInflight, CallFunction, StoreResult, WakeCaller, DropResult,
       FlushCallbacks, FlushErrbacks, Woken, TimedOut

LEMMA OrderStep == OrderInv /\ [Next]_vars => OrderInv'
<1> SUFFICES ASSUME OrderInv, [Next]_vars PROVE OrderInv'
  OBVIOUS
<1> USE DEF OrderInv
<1>1. CASE UNCHANGED vars
  BY <1>1 DEF vars, Types, Running, Order, WaitedItemsLast, ListsSorted,
     MainPlace, EndsUnique, EndsKnown, Reported, CallsMade, Made, CallsHeld,
     Owned, CallersServed, Served, CallItem, FinishedAreQuiet, Held, On
<1>2. CASE Next
  <2>0. Order
    BY <1>2, Stopped
  <2>1. CASE MainStep
    <3>1. UNCHANGED rewound
      BY <2>1 DEF MainStep, RunLoop, FlushFinished, FlushErrors, PrintError,
         PopIncoming, UncountPending, CountInflight, CallFunction,
         StoreResult, WakeCaller, DropResult, FlushCallbacks, FlushErrbacks,
         Woken, TimedOut
    <3> QED
      BY <2>0, <2>1, <3>1, OrderOfMain, TypesOfMain DEF Order, WaitedItemsLast
  <2>2. ASSUME NEW c \in Contexts, CallbackStep(c) PROVE OrderInv'
    BY <2>0, <2>2, OrderOfCallback, TypesOfCallbacks DEF Order
  <2>3. CASE Choice
    <3>1. UNCHANGED rewound
      BY <2>3 DEF Choice, SubmitWork, StartCallback, RefuseCall, FailCallback,
         AbandonSocket, Run, RunAgain, Interrupt
    <3> QED
      BY <2>0, <2>3, <3>1, OrderOfChoice, TypesOfChoice DEF WaitedItemsLast
  <2>4. ASSUME NEW c \in Contexts, SubmitStep(c) PROVE OrderInv'
    <3>1. UNCHANGED rewound
      BY <2>4 DEF SubmitStep, QueueWork, RefuseWork
    <3> QED
      BY <2>0, <2>4, <3>1, QuietCallbacks, TypesOfSubmit
         DEF SubmitStep, WaitedItemsLast
  <2> QED
    BY <1>2, <2>1, <2>2, <2>3, <2>4 DEF Next
<1> QED
  BY <1>1, <1>2

THEOREM Ordered == Spec => []OrderInv
BY OrderInit, OrderStep, PTL DEF Spec

-----------------------------------------------------------------------------
(* No wakeup is lost                                                       *)

(* The lists the main thread has been through since it last took           *)
(* px->wakeup, or began a turn: it will not look at them again before it   *)
(* waits.  The calls it is working on keep it at px->incoming.             *)
Passed ==
    IF main.pc \in {"printing", "incoming"} \cup Handling
    THEN {"errors"}
    ELSE IF main.pc = "errbacks"
    THEN {"errors", "incoming", "completed_callbacks"}
    ELSE IF main.pc = "wait" THEN Lists \ {"finished", "taken"}
    ELSE {}

(* px->wakeup is set, or a thread that has pushed an item is about to.     *)
Signalled == wakeup \/ \E c \in Contexts :
                          ctx[c].at \in {"signalling", "signallingCall"}

(* Whoever pushed on a list the main thread has been through has set       *)
(* px->wakeup after that, or will.                                         *)
PassedSignalled == \A l \in Passed : lists[l] # <<>> => Signalled

(* A step of a thread of the pool leaves the main thread where it is,      *)
(* unless it traps it; what it pushes it signals.                          *)
LEMMA PassedOfCallbacks ==
    ASSUME Types, PassedSignalled, NEW c \in Contexts, CallbackStep(c)
    PROVE  PassedSignalled'
<1> USE DEF PassedSignalled, Passed, Signalled
<1>t. DOMAIN ctx = Contexts /\ ctx[c] \in CtxRec /\ main \in MainRec
  BY DEF Types
<1>1. CASE StartWork(c) \/ CountWork(c) \/ UncountCall(c)
  BY <1>1, <1>t DEF StartWork, CountWork, UncountCall, Goes, CtxRec
<1>2. CASE \E kind \in CallKinds : MakeCall(c, kind)
  BY <1>2, <1>t DEF MakeCall
<1>3. CASE PushCall(c) \/ Report(c)
  <2>1. /\ ctx'[c].at \in {"signalling", "signallingCall"}
        /\ UNCHANGED <<wakeup, main>>
    BY <1>3, <1>t DEF PushCall, Report, Goes, CtxRec
  <2> QED
    BY <2>1
<1>4. CASE SignalCall(c) \/ SignalMain(c)
  BY <1>4 DEF SignalCall, SignalMain
<1>5. CASE Resume(c)
  BY <1>5, <1>t DEF Resume, CtxRec
<1>6. CASE \E o \in Outcomes : EndWork(c, o)
  BY <1>6, <1>t DEF EndWork, CtxRec
<1>7. CASE EndCallback(c)
  BY <1>7, <1>t DEF EndCallback, Goes, CtxRec, MainRec
<1> QED
  BY <1>1, <1>2, <1>3, <1>4, <1>5, <1>6, <1>7 DEF CallbackStep

LEMMA PassedOfMain ==
    ASSUME Types, PassedSignalled, MainStep
    PROVE  PassedSignalled'
<1> USE DEF PassedSignalled, Passed, Signalled, MainGoes
<1>t. lists \in [Lists -> Seq(Item)] /\ main \in MainRec
  BY DEF Types
<1>1. CASE RunLoop \/ Woken \/ TimedOut \/ FlushFinished
  <2>1. main'.pc \in {"user", "finished", "errors", "run", "trap"}
    BY <1>1, <1>t DEF RunLoop, Woken, TimedOut, FlushFinished, MainRec
  <2>2. Passed' = {}
    BY <2>1
  <2> QED
    BY <2>2
(* px->errors is empty at the moment it is taken.                          *)
<1>2. CASE FlushErrors
  <2>1. main'.pc \in {"printing", "incoming"} /\ lists'["errors"] = <<>>
    BY <1>2, <1>t DEF FlushErrors, MainRec, Lists, Outcomes
  <2> QED
    BY <2>1
<1>3. CASE PrintError
  <2>1. /\ main.pc = "printing" /\ main'.pc \in {"printing", "incoming"}
        /\ lists'["errors"] = lists["errors"] /\ UNCHANGED ctx
        /\ (UNCHANGED wakeup \/ wakeup' = TRUE)
    BY <1>3, <1>t DEF PrintError, Unlink, Push, MainRec, Lists, Outcomes
  <2> QED
    BY <2>1
<1>4. CASE PopIncoming
  <2>1. /\ main.pc = "incoming" /\ main'.pc = "popped"
        /\ lists'["errors"] = lists["errors"]
        /\ UNCHANGED <<wakeup, ctx>>
    BY <1>4, <1>t DEF PopIncoming, Lists, Outcomes, MainRec
  <2> QED
    BY <2>1
<1>5. CASE \/ (\E ok \in BOOLEAN : CallFunction(ok)) \/ DropResult
           \/ UncountPending \/ CountInflight
  <2>1. /\ main.pc \in Handling
        /\ main'.pc \in Handling \cup {"left", "incoming"}
        /\ UNCHANGED <<lists, wakeup, ctx>>
    BY <1>5, <1>t DEF CallFunction, DropResult, UncountPending, CountInflight,
                      MainRec
  <2> QED
    BY <2>1
<1>6. CASE StoreResult \/ WakeCaller
  <2>1. /\ main.pc \in {"called", "stored"}
        /\ main'.pc \in {"stored", "incoming"}
        /\ UNCHANGED <<lists, wakeup>>
    BY <1>6, <1>t DEF StoreResult, WakeCaller, MainRec
  <2>2. ASSUME NEW c \in Contexts PROVE ctx'[c].at = ctx[c].at
    <3>1. DOMAIN ctx = Contexts /\ ctx[c] \in CtxRec
      BY DEF Types
    <3>2. CASE StoreResult
      BY <3>1, <3>2 DEF StoreResult, CtxRec
    <3>3. CASE WakeCaller
      BY <3>1, <3>3 DEF WakeCaller, CtxRec
    <3> QED
      BY <1>6, <3>2, <3>3
  <2> QED
    BY <2>1, <2>2
(* px->incoming is empty when the main thread leaves it, and a list it     *)
(* flushes is empty at that moment.                                        *)
<1>7. CASE FlushCallbacks
  <2>1. /\ main.pc = "incoming" /\ main'.pc = "errbacks"
        /\ lists'["errors"] = lists["errors"]
        /\ lists'["incoming"] = <<>>
        /\ lists'["completed_callbacks"] = <<>>
        /\ UNCHANGED <<wakeup, ctx>>
    BY <1>7, <1>t DEF FlushCallbacks, TransferAll, Lists, Outcomes, MainRec
  <2> QED
    BY <2>1
<1>8. CASE FlushErrbacks
  <2>1. /\ main.pc = "errbacks" /\ main'.pc \in {"run", "wait"}
        /\ \A l \in {"errors", "incoming", "completed_callbacks"} :
              lists'[l] = lists[l]
        /\ lists'["completed_errbacks"] = <<>>
        /\ UNCHANGED <<wakeup, ctx>>
    BY <1>8, <1>t DEF FlushErrbacks, TransferAll, Lists, Outcomes, MainRec
  <2> QED
    BY <2>1 DEF Lists, Outcomes
<1> QED
  BY <1>1, <1>2, <1>3, <1>4, <1>5, <1>6, <1>7, <1>8 DEF MainStep

(* What the program and the network choose to do.                          *)
LEMMA PassedOfChoice ==
    ASSUME Types, PassedSignalled,
           Choice \/ \E c \in Contexts : SubmitStep(c)
    PROVE  PassedSignalled'
<1> USE DEF PassedSignalled, Passed, Signalled
<1>1. ASSUME NEW c \in Contexts,
             \/ SubmitWork(c) \/ StartCallback(c) \/ RefuseCall(c)
             \/ FailCallback(c) \/ AbandonSocket(c) \/ SubmitStep(c)
      PROVE  PassedSignalled'
  <2>1. DOMAIN ctx = Contexts /\ ctx[c] \in CtxRec
    BY DEF Types
  <2>2. /\ \A d \in Contexts :
              ctx[d].at \in {"signalling", "signallingCall"}
                => ctx'[d].at = ctx[d].at
        /\ UNCHANGED <<lists, wakeup, main>>
    BY <1>1, <2>1 DEF SubmitWork, StartCallback, RefuseCall, FailCallback,
       AbandonSocket, SubmitStep, QueueWork, RefuseWork, Goes, CtxRec
  <2> QED
    BY <2>2
<1>2. CASE Run \/ RunAgain \/ Interrupt
  <2>1. main'.pc \in {"run", "left"}
    BY <1>2 DEF Run, RunAgain, Interrupt, MainGoes, Types, MainRec
  <2> QED
    BY <2>1
<1> QED
  BY <1>1, <1>2 DEF Choice

(* The main thread waits with something to do only if px->wakeup is set or *)
(* about to be: run_once() empties px->incoming last of what it pops, and  *)
(* every _push_item() comes before its SetEvent().                         *)
THEOREM MainIsWoken == Spec => []NoLostWakeup
<1>1. Init => PassedSignalled
  BY DEF Init, PassedSignalled, Passed
<1>2. OrderInv /\ PassedSignalled /\ [Next]_vars => PassedSignalled'
  <2> SUFFICES ASSUME OrderInv, PassedSignalled, [Next]_vars
               PROVE  PassedSignalled'
    OBVIOUS
  <2>1. CASE UNCHANGED vars
    BY <2>1 DEF vars, PassedSignalled, Passed, Signalled
  <2>2. CASE Next
    BY <2>2, PassedOfMain, PassedOfCallbacks, PassedOfChoice DEF Next, OrderInv
  <2> QED
    BY <2>1, <2>2
<1>3. OrderInv /\ PassedSignalled => NoLostWakeup
  <2> SUFFICES ASSUME OrderInv, PassedSignalled, main.pc = "wait"
               PROVE  NoLostWakeup
    BY DEF NoLostWakeup
  <2>1. lists["taken"] = <<>>
    BY DEF OrderInv, Running, Order, MainPlace
  <2> QED
    BY <2>1 DEF PassedSignalled, Passed, Signalled, NoLostWakeup
<1> QED
  BY <1>1, <1>2, <1>3, Ordered, PTL DEF Spec

-----------------------------------------------------------------------------
(* Every end is reported once, every caller served, no freed item used     *)

(* Where an item is, place by place.                                       *)
LEMMA PositionsAre ==
    ASSUME NEW i, i # NULL
    PROVE  \A p : p \in Positions(i) <=>
             \/ \E l \in Lists : \E k \in DOMAIN lists[l] :
                                    lists[l][k] = i /\ p = <<l, k>>
             \/ main.item = i /\ p = <<"main", 0>>
<1> DEFINE at(l) == {<<l,
k>> : k \in {j \in DOMAIN lists[l] : lists[l][j] = i}}
           hand == IF main.item = i THEN {<<"main", 0>>} ELSE {}
<1>1. Positions(i) = (UNION {at(l) : l \in Lists}) \cup hand
  BY DEF Positions
<1>2. \A p : p \in UNION {at(l) : l \in Lists} <=> \E l \in Lists : p \in at(l)
  OBVIOUS
<1>3. \A l, p : p \in at(l) <=>
          \E k \in DOMAIN lists[l] : lists[l][k] = i /\ p = <<l, k>>
  OBVIOUS
<1>4. \A p : p \in hand <=> main.item = i /\ p = <<"main", 0>>
  OBVIOUS
<1> HIDE DEF at, hand
<1> QED
  BY <1>1, <1>2, <1>3, <1>4

LEMMA NoPositions ==
    ASSUME NEW i, i # NULL, \A l \in Lists : i \notin On(l), main.item # i
    PROVE  Positions(i) = {}
BY PositionsAre DEF On, ToSet

(* Items of which one is on one list, once.                                *)
LEMMA OnceOnList ==
    ASSUME NEW items, NEW l \in Lists, NEW i \in On(l), i \in items,
           NoTwice(lists[l]), main.item \notin items, NULL \notin items,
           \A m \in Lists : \A j \in On(m) \cap items : m = l /\ j = i
    PROVE  Once(items)
<1>1. PICK k \in DOMAIN lists[l] : lists[l][k] = i
  BY DEF On, ToSet
<1>2. \A m \in Lists : \A h \in DOMAIN lists[m] : lists[m][h] \in On(m)
  BY DEF On, ToSet
<1>3. ASSUME NEW j \in items, NEW p \in Positions(j) PROVE p = <<l, k>>
  <2>0. PICK m \in Lists : \E h \in DOMAIN lists[m] :
                              lists[m][h] = j /\ p = <<m, h>>
    BY <1>3, PositionsAre
  <2>1. PICK h \in DOMAIN lists[m] : lists[m][h] = j /\ p = <<m, h>>
    BY <2>0
  <2>2. m = l /\ j = i
    BY <1>2, <2>1
  <2>3. h = k
    BY <1>1, <2>1, <2>2 DEF NoTwice
  <2> QED
    BY <2>1, <2>2, <2>3
<1>4. <<l, k>> \in Positions(i)
  BY <1>1, PositionsAre
<1>5. UNION {Positions(j) : j \in items} = {<<l, k>>}
  BY <1>3, <1>4
<1> QED
  BY <1>5, FS_Singleton DEF Once

(* The item in the hands of the main thread, when it is on no list.        *)
LEMMA OnceInHand ==
    ASSUME NEW i, i # NULL, main.item = i, \A l \in Lists : i \notin On(l)
    PROVE  Once({i})
<1>1. Positions(i) = {<<"main", 0>>}
  BY PositionsAre DEF On, ToSet
<1>2. UNION {Positions(j) : j \in {i}} = {<<"main", 0>>}
  BY <1>1
<1> QED
  BY <1>2, FS_Singleton DEF Once

LEMMA NotOnce ==
    ASSUME NEW i, Positions(i) = {}
    PROVE  ~Once({i})
<1>1. UNION {Positions(j) : j \in {i}} = {}
  OBVIOUS
<1> QED
  BY <1>1, FS_EmptySet DEF Once

LEMMA OrderReportsOnce == OrderInv => EndReportedOnce
<1> SUFFICES ASSUME OrderInv, Running, NEW c \in Contexts
             PROVE  LET ends == {EndItem(c, o) : o \in Outcomes}
                    IN  IF ctx[c].at \in {"signalling", "ended"}
                        THEN Once(ends)
                        ELSE \A i \in ends : Positions(i) = {}
  BY DEF EndReportedOnce
<1> DEFINE ends == {EndItem(c, o) : o \in Outcomes}
<1> USE DEF OrderInv, Order
<1>1. \A i \in Item : i \in ends <=> i.ctx = c /\ IsEnd(i)
  BY EndItemType DEF EndItem, Item, IsEnd, Outcomes
<1>2. ends \subseteq Item /\ NULL \notin ends
  BY EndItemType, Facts
<1> HIDE DEF ends
<1>3. \A l \in Lists : On(l) \subseteq Item
  BY Facts
<1>4. main.item \notin ends
  BY <1>1, <1>2, Facts DEF MainPlace
<1>5. CASE ctx[c].at \in {"signalling", "ended"}
  <2>0. PICK l \in Lists : \E i \in On(l) : i.ctx = c /\ IsEnd(i)
    BY <1>5 DEF EndsKnown, Reported
  <2>1. PICK i \in On(l) : i.ctx = c /\ IsEnd(i)
    BY <2>0
  <2>2. \A m \in Lists : \A j \in On(m) \cap ends : m = l /\ j = i
    BY <1>1, <1>3, <2>1 DEF EndsUnique
  <2>3. i \in ends /\ NoTwice(lists[l])
    BY <1>1, <1>3, <2>1 DEF ListsSorted
  <2> QED
    BY <1>2, <1>4, <1>5, <2>2, <2>3, OnceOnList DEF ends
<1>6. CASE ctx[c].at \notin {"signalling", "ended"}
  <2>1. \A l \in Lists : \A i \in ends : i \notin On(l)
    BY <1>1, <1>2, <1>6 DEF EndsKnown, Reported
  <2> QED
    BY <1>2, <1>4, <1>6, <2>1, NoPositions DEF ends
<1> QED
  BY <1>5, <1>6

(* No report is lost and none is made twice, by the threads that report    *)
(* the end of a context, the errors the main thread prints and the lists   *)
(* it flushes.                                                             *)
THEOREM EndsReportedOnce == Spec => []EndReportedOnce
BY Ordered, OrderReportsOnce, PTL

LEMMA OrderServes == OrderInv => WaiterServed
<1> SUFFICES ASSUME OrderInv, Running, NEW c \in Contexts,
                    ctx[c].at = "waiting" \/ ctx[c].event
             PROVE  /\ ctx[c].at = "waiting" =>
                          (Once({CallItem(c)}) <=> ~ctx[c].event)
                    /\ ctx[c].event =>
                          /\ ctx[c].at \in {"signallingCall", "waiting"}
                          /\ ctx[c].answer = ctx[c].n
                          /\ Positions(CallItem(c)) = {}
  BY DEF WaiterServed
<1> USE DEF OrderInv, Order
<1>1. /\ ctx[c].at \in {"signallingCall", "waiting"} /\ ctx[c].kind = "wait"
      /\ ctx[c].event => ctx[c].answer = ctx[c].n
  BY DEF CallsMade, Made, CallersServed, Served
<1>2. PICK i \in Item : i = CallItem(c)
  BY <1>1, CallItemType
<1>3. i.ctx = c /\ i.kind = "wait" /\ IsCall(i) /\ ~IsEnd(i) /\ i # NULL
  BY <1>1, <1>2, CallItemType, Facts
<1>4. \A l \in Lists : i \in On(l) => l = "incoming"
  BY <1>3 DEF ListsSorted
<1>5. CASE ctx[c].event
  <2>1. i \notin Held
    BY <1>3, <1>5 DEF CallsHeld, Owned
  <2>2. Positions(i) = {}
    BY <1>3, <1>4, <2>1, NoPositions DEF Held
  <2> QED
    BY <1>1, <1>2, <1>5, <2>2, NotOnce
<1>6. CASE ~ctx[c].event
  <2>1. i \in Held
    BY <1>1, <1>2, <1>6 DEF CallersServed, Served
  <2>2. CASE i \in On("incoming")
    <3>1. "incoming" \in Lists /\ NoTwice(lists["incoming"]) /\ main.item # i
      BY <1>3, <2>2 DEF Lists, ListsSorted, MainPlace
    <3>2. \A m \in Lists : \A j \in On(m) \cap {i} : m = "incoming" /\ j = i
      BY <1>4
    <3>3. main.item \notin {i} /\ NULL \notin {i} /\ i \in {i}
      BY <1>3, <3>1
    <3>4. Once({i})
      BY <2>2, <3>1, <3>2, <3>3, OnceOnList
    <3> QED
      BY <1>2, <1>6, <3>4
  <2>3. CASE main.item = i
    <3>1. i \notin On("incoming")
      BY <1>3, <2>3 DEF MainPlace
    <3> QED
      BY <1>2, <1>3, <1>4, <1>6, <2>3, <3>1, OnceInHand
  <2> QED
    BY <2>1, <2>2, <2>3 DEF Held
<1> QED
  BY <1>5, <1>6

LEMMA OrderFreesLast == OrderInv => NoFreedItem
<1> SUFFICES ASSUME OrderInv, Running, NEW c \in Where({"freed", "freedEarly"}),
                    NEW i \in (UNION {ToSet(lists[l]) : l \in Lists})
                                \cup ({main.item} \ {NULL}),
                    i.ctx = c
             PROVE  FALSE
  BY DEF NoFreedItem
<1> USE DEF OrderInv, Order
<1>1. c \in Contexts /\ ctx[c].at \in {"freed", "freedEarly"}
  BY DEF Where
<1>2. CASE i \in Held
  BY <1>1, <1>2 DEF CallsHeld, Owned
<1>3. ASSUME NEW l \in Lists \ {"incoming"}, i \in On(l) PROVE FALSE
  BY <1>1, <1>3 DEF ListsSorted, EndsKnown, Reported
<1>4. i \in Held \/ \E l \in Lists : i \in On(l)
  BY DEF Held, On
<1> QED
  BY <1>2, <1>3, <1>4 DEF Held

-----------------------------------------------------------------------------
(* The counters                                                            *)

(* The sets the counters count, and what the main thread adds to them.     *)
Queued == Where({"submitting", "queued"})
Busy == Works \cap
    Where({"running", "calling", "signallingCall", "waiting", "resumed"})
Kinds == {"wait", "nowait"}
CallsOf == [kind \in Kinds |-> {i \in On("incoming") : i.kind = kind}]
Calling == [kind \in Kinds |-> {c \in Where({"calling"}) : ctx[c].kind = kind}]
Answered == {c \in Contexts : ctx[c].event \/ ctx[c].at = "resumed"}
Popped(kind) == HasItem(kind, {"popped"})
Begun(kind) == HasItem(kind, InFlight)

PendingAre(kind) == counts[Pending(kind)] =
    Cardinality(CallsOf[kind]) + Popped(kind) + Cardinality(Calling[kind])
Tally ==
    /\ counts["pending"] = Cardinality(Queued)
    /\ counts["inflight"] = Cardinality(Busy)
    /\ PendingAre("wait") /\ PendingAre("nowait")
    /\ counts["sync_nowait_inflight"] = Begun("nowait")
    /\ counts["sync_wait_inflight"] = Begun("wait") + Cardinality(Answered)

(* When the main thread has stopped in the middle of a call the place where*)
(* it stopped is not known any more, and the counters stay as they are.    *)
TallyInv == counts \in [Counters -> Nat] /\ (Running => Tally)

USE DEF Kinds

LEMMA TallyIs == (Running => Tally) <=> CountersAgree
<1>1. \A kind \in Kinds : CallsOf[kind] = {i \in ToSet(lists["incoming"]) : i.kind = kind}
  BY DEF CallsOf, On
<1>2. PendingAre("wait") /\ PendingAre("nowait") <=>
        \A kind \in {"wait", "nowait"} :
           counts[Pending(kind)] = Calls(kind) + HasItem(kind, {"popped"}) +
              Cardinality({c \in Where({"calling"}) : ctx[c].kind = kind})
  BY <1>1 DEF PendingAre, Calls, Calling, Popped
<1> QED
  BY <1>2 DEF Tally, CountersAgree, Queued, Busy, Begun, Answered

(* They are finite.                                                        *)
LEMMA CountedSets ==
    ASSUME Types
    PROVE  /\ \A S \in SUBSET Contexts : IsFiniteSet(S) /\ Cardinality(S) \in Nat
           /\ \A S \in SUBSET On("incoming") :
                 IsFiniteSet(S) /\ Cardinality(S) \in Nat
           /\ Queued \subseteq Contexts /\ Busy \subseteq Contexts
           /\ Answered \subseteq Contexts
           /\ \A kind \in Kinds : /\ Calling[kind] \subseteq Contexts
                        /\ CallsOf[kind] \subseteq On("incoming")
<1>1. IsFiniteSet(Contexts)
  BY RunLoopAssumption, FS_Union DEF Contexts
<1>2. IsFiniteSet(On("incoming"))
  <2> DEFINE s == lists["incoming"]
  <2>1. s \in Seq(Item)
    BY DEF Types, Lists
  <2>2. s \in [1..Len(s) -> ToSet(s)] /\ Len(s) \in Nat
    BY <2>1 DEF ToSet
  <2>3. s \in Surjection(1..Len(s), ToSet(s))
    <3>1. \A e \in ToSet(s) : \E k \in 1..Len(s) : s[k] = e
      BY <2>1 DEF ToSet
    <3> QED
      BY <2>2, <3>1 DEF Surjection
  <2>4. IsFiniteSet(1..Len(s))
    BY <2>2, FS_Interval
  <2> HIDE DEF s
  <2> QED
    BY <2>3, <2>4, FS_Surjection DEF On, s
<1>3. /\ Queued \subseteq Contexts /\ Busy \subseteq Contexts
      /\ Answered \subseteq Contexts
      /\ \A kind \in Kinds : /\ Calling[kind] \subseteq Contexts
                   /\ CallsOf[kind] \subseteq On("incoming")
  BY DEF Queued, Busy, Answered, Calling, CallsOf, Where
<1> QED
  BY <1>1, <1>2, <1>3, FS_Subset, FS_CardinalityType

(* The main thread has one item in its hands, of one kind, or none.        *)
LEMMA HandIs ==
    ASSUME NEW k \in Kinds
    PROVE  /\ Popped(k) = IF main.pc = "popped" /\ main.item.kind = k THEN 1 ELSE 0
           /\ Begun(k) = IF main.pc \in {"got", "called", "stored"}
                            /\ main.item.kind = k THEN 1 ELSE 0
           /\ Popped(k)' =
                 IF main'.pc = "popped" /\ main'.item.kind = k THEN 1 ELSE 0
           /\ Begun(k)' = IF main'.pc \in {"got", "called", "stored"}
                             /\ main'.item.kind = k THEN 1 ELSE 0
           /\ {Popped(k), Begun(k), Popped(k)', Begun(k)'} \subseteq {0, 1}
BY DEF Popped, Begun, HasItem, InFlight

LEMMA Joins ==
    ASSUME NEW S, IsFiniteSet(S), Cardinality(S) \in Nat, NEW x, x \notin S
    PROVE  Cardinality(S \cup {x}) = Cardinality(S) + 1
BY FS_AddElement

LEMMA Leaves ==
    ASSUME NEW S, IsFiniteSet(S), Cardinality(S) \in Nat, NEW x, x \in S
    PROVE  Cardinality(S \ {x}) = Cardinality(S) - 1
BY FS_RemoveElement

(* A step that moves nobody into a set or out of it.                       *)
LEMMA TallyStays ==
    ASSUME Tally, UNCHANGED counts, On("incoming")' = On("incoming"),
           \A k \in Kinds : UNCHANGED <<Popped(k), Begun(k)>>,
           \A c \in Contexts :
              /\ ctx'[c].at \in {"submitting", "queued"}
                   <=> ctx[c].at \in {"submitting", "queued"}
              /\ ctx'[c].at = "calling" <=> ctx[c].at = "calling"
              /\ ctx[c].at = "calling" => ctx'[c].kind = ctx[c].kind
              /\ c \in Works =>
                   (ctx'[c].at \in {"running", "calling", "signallingCall",
                                    "waiting", "resumed"}
                      <=> ctx[c].at \in {"running", "calling", "signallingCall",
                                         "waiting", "resumed"})
              /\ ctx'[c].event \/ ctx'[c].at = "resumed"
                   <=> ctx[c].event \/ ctx[c].at = "resumed"
    PROVE  Tally'
<1>1. Queued' = Queued /\ Busy' = Busy /\ Answered' = Answered
  BY DEF Queued, Busy, Answered, Where, Contexts
<1>2. \A kind \in Kinds : Calling'[kind] = Calling[kind]
  BY DEF Calling, Where
<1>3. \A kind \in Kinds : CallsOf'[kind] = CallsOf[kind]
  BY DEF CallsOf
<1> QED
  BY <1>1, <1>2, <1>3 DEF Tally, PendingAre

(* The steps of the callbacks and of the program that leave the sets alone *)
LEMMA TallyOfOthers ==
    ASSUME Types, Order, Tally, Running', NEW c \in Contexts,
           \/ StartCallback(c) \/ RefuseCall(c) \/ FailCallback(c)
           \/ AbandonSocket(c) \/ SignalCall(c) \/ SignalMain(c)
           \/ EndCallback(c) \/ Report(c) \/ QueueWork(c) \/ Resume(c)
    PROVE  Tally'
<1>t. DOMAIN ctx = Contexts /\ ctx[c] \in CtxRec /\ Works \cap Sockets = {}
  BY Facts DEF Types
<1>1. UNCHANGED <<counts, main>>
  BY DEF StartCallback, RefuseCall, FailCallback, AbandonSocket, SignalCall,
         SignalMain, EndCallback, Report, QueueWork, Resume, Types, MainRec,
         Running
<1>2. On("incoming")' = On("incoming")
  <2>1. CASE Report(c)
    <3>1. PICK o \in Outcomes : o = ctx[c].outcome
      BY <1>t DEF CtxRec
    <3> QED
      BY <2>1, <3>1 DEF Report, Push, On, Types, Lists, Outcomes
  <2> QED
    BY <2>1 DEF StartCallback, RefuseCall, FailCallback, AbandonSocket,
                SignalCall, SignalMain, EndCallback, QueueWork, Resume, On
<1>3. /\ \A d \in Contexts \ {c} : ctx'[d] = ctx[d]
      /\ ctx'[c].at \in {"submitting", "queued"}
           <=> ctx[c].at \in {"submitting", "queued"}
      /\ ctx'[c].at # "calling" /\ ctx[c].at # "calling"
      /\ c \in Works =>
           (ctx'[c].at \in {"running", "calling", "signallingCall",
                            "waiting", "resumed"}
              <=> ctx[c].at \in {"running", "calling", "signallingCall",
                                 "waiting", "resumed"})
      /\ ctx'[c].event \/ ctx'[c].at = "resumed"
           <=> ctx[c].event \/ ctx[c].at = "resumed"
  <2> USE DEF CtxRec, Goes
  <2>1. CASE StartCallback(c)
    BY <2>1, <1>t DEF StartCallback
  <2>2. CASE RefuseCall(c)
    BY <2>2, <1>t DEF RefuseCall
  <2>3. CASE FailCallback(c)
    BY <2>3, <1>t DEF FailCallback
  <2>4. CASE AbandonSocket(c)
    BY <2>4, <1>t DEF AbandonSocket
  <2>5. CASE SignalCall(c)
    BY <2>5, <1>t DEF SignalCall
  <2>6. CASE SignalMain(c)
    BY <2>6, <1>t DEF SignalMain
  <2>7. CASE EndCallback(c)
    BY <2>7, <1>t DEF EndCallback
  <2>8. CASE Report(c)
    BY <2>8, <1>t DEF Report
  <2>9. CASE QueueWork(c)
    BY <2>9, <1>t DEF QueueWork
  <2>10. CASE Resume(c)
    BY <2>10, <1>t DEF Resume
  <2> QED
    BY <2>1, <2>2, <2>3, <2>4, <2>5, <2>6, <2>7, <2>8, <2>9, <2>10
<1>4. \A k \in Kinds : UNCHANGED <<Popped(k), Begun(k)>>
  BY <1>1 DEF Popped, Begun, HasItem
<1> QED
  BY <1>1, <1>2, <1>3, <1>4, TallyStays

(* A context joins one of the sets of contexts, or leaves it.              *)
LEMMA TallyOfWork ==
    ASSUME Types, Order, Tally, NEW c \in Contexts,
           \/ SubmitWork(c) \/ RefuseWork(c) \/ StartWork(c) \/ CountWork(c)
           \/ \E o \in Outcomes : EndWork(c, o)
    PROVE  Tally'
<1> USE DEF Order
<1>t. /\ DOMAIN ctx = Contexts /\ ctx[c] \in CtxRec /\ counts \in [Counters -> Int]
      /\ c \in Works
  BY DEF Types, SubmitWork, RefuseWork, StartWork, CountWork, EndWork,
         CallsMade, Made
<1>1. /\ UNCHANGED <<lists, main>> /\ \A d \in Contexts \ {c} : ctx'[d] = ctx[d]
      /\ ctx'[c].event = ctx[c].event
      /\ {ctx'[c].at, ctx[c].at} \cap {"calling", "resumed"} = {}
  <2>1. CASE SubmitWork(c) \/ RefuseWork(c) \/ StartWork(c) \/ CountWork(c)
    BY <2>1, <1>t DEF SubmitWork, RefuseWork, StartWork, CountWork, Goes,
                CtxRec
  <2>2. ASSUME NEW o \in Outcomes, EndWork(c, o)
        PROVE  /\ UNCHANGED <<lists, main>>
               /\ \A d \in Contexts \ {c} : ctx'[d] = ctx[d]
               /\ ctx'[c].event = ctx[c].event
               /\ {ctx'[c].at, ctx[c].at} \cap {"calling", "resumed"} = {}
    BY <2>2, <1>t DEF EndWork, CtxRec
  <2> QED
    BY <2>1, <2>2
<1>2. /\ Answered' = Answered
      /\ \A k \in Kinds : /\ Calling'[k] = Calling[k] /\ CallsOf'[k] = CallsOf[k]
                          /\ Popped(k)' = Popped(k) /\ Begun(k)' = Begun(k)
  <2>1. Answered' = Answered
    BY <1>1 DEF Answered, Where
  <2>2. ASSUME NEW k \in Kinds
        PROVE  Calling'[k] = Calling[k] /\ CallsOf'[k] = CallsOf[k]
    <3>1. Calling'[k] = Calling[k]
      BY <1>1 DEF Calling, Where
    <3>2. CallsOf'[k] = CallsOf[k]
      BY <1>1 DEF CallsOf, On
    <3> QED
      BY <3>1, <3>2
  <2>3. ASSUME NEW k \in Kinds
        PROVE  Popped(k)' = Popped(k) /\ Begun(k)' = Begun(k)
    BY <1>1 DEF Popped, Begun, HasItem
  <2> QED
    BY <2>1, <2>2, <2>3
<1> USE DEF CtxRec, Counters
<1>3. CASE SubmitWork(c)
  <2>1. /\ counts' = [counts EXCEPT !["pending"] = counts["pending"] + 1]
        /\ ctx[c].at = "new" /\ ctx'[c].at = "submitting"
    BY <1>3, <1>t DEF SubmitWork, Goes
  <2>2. Queued' = Queued \cup {c} /\ c \notin Queued /\ Busy' = Busy
    BY <1>1, <1>t, <2>1 DEF Queued, Busy, Where
  <2>3. Cardinality(Queued') = Cardinality(Queued) + 1
    BY <2>2, Joins, CountedSets
  <2> QED
    BY <1>t, <1>2, <2>1, <2>2, <2>3 DEF Tally, PendingAre, Pending
<1>4. CASE RefuseWork(c) \/ StartWork(c)
  <2>1. /\ counts' = [counts EXCEPT !["pending"] = counts["pending"] - 1]
        /\ ctx[c].at \in {"submitting", "queued"}
        /\ ctx'[c].at \in {"freed", "starting"}
    BY <1>4, <1>t DEF RefuseWork, StartWork, Goes
  <2>2. Queued' = Queued \ {c} /\ c \in Queued /\ Busy' = Busy
    BY <1>1, <1>t, <2>1 DEF Queued, Busy, Where
  <2>3. Cardinality(Queued') = Cardinality(Queued) - 1
    BY <2>2, Leaves, CountedSets
  <2> QED
    BY <1>t, <1>2, <2>1, <2>2, <2>3 DEF Tally, PendingAre, Pending
<1>5. CASE CountWork(c)
  <2>1. /\ counts' = [counts EXCEPT !["inflight"] = counts["inflight"] + 1]
        /\ ctx[c].at = "starting" /\ ctx'[c].at = "running"
    BY <1>5, <1>t DEF CountWork, Goes
  <2>2. Queued' = Queued /\ Busy' = Busy \cup {c} /\ c \notin Busy
    BY <1>1, <1>t, <2>1 DEF Queued, Busy, Where
  <2>3. Cardinality(Busy') = Cardinality(Busy) + 1
    BY <2>2, Joins, CountedSets
  <2> QED
    BY <1>t, <1>2, <2>1, <2>2, <2>3 DEF Tally, PendingAre, Pending
<1>6. ASSUME NEW o \in Outcomes, EndWork(c, o) PROVE Tally'
  <2>1. /\ counts' = [counts EXCEPT !["inflight"] = counts["inflight"] - 1]
        /\ ctx[c].at = "running" /\ ctx'[c].at = "reporting"
    BY <1>6, <1>t DEF EndWork
  <2>2. Queued' = Queued /\ Busy' = Busy \ {c} /\ c \in Busy
    BY <1>1, <1>t, <2>1 DEF Queued, Busy, Where
  <2>3. Cardinality(Busy') = Cardinality(Busy) - 1
    BY <2>2, Leaves, CountedSets
  <2> QED
    BY <1>t, <1>2, <2>1, <2>2, <2>3 DEF Tally, PendingAre, Pending
<1> QED
  BY <1>3, <1>4, <1>5, <1>6

(* The counters of pending calls change by as much as the two sets and the *)
(* hands of the main thread together.                                      *)
LEMMA PendingMoves ==
    ASSUME Types, Tally, NEW k \in Kinds, NEW dc \in Int, NEW dp \in Int,
           NEW dm \in Int,
           counts'[Pending(k)] = counts[Pending(k)] + dc + dp + dm,
           Cardinality(CallsOf'[k]) = Cardinality(CallsOf[k]) + dc,
           Popped(k)' = Popped(k) + dp,
           Cardinality(Calling'[k]) = Cardinality(Calling[k]) + dm
    PROVE  PendingAre(k)'
<1>1. Cardinality(CallsOf[k]) \in Nat /\ Cardinality(Calling[k]) \in Nat
  BY CountedSets
<1>2. Popped(k) \in {0, 1}
  BY HandIs
<1>3. counts[Pending(k)] =
         Cardinality(CallsOf[k]) + Popped(k) + Cardinality(Calling[k])
  BY DEF Tally, PendingAre
<1> HIDE DEF Kinds
<1>4. counts'[Pending(k)] =
         Cardinality(CallsOf'[k]) + Popped(k)' + Cardinality(Calling'[k])
  BY <1>1, <1>2, <1>3
<1> QED
  BY <1>4 DEF PendingAre, Pending

(* A call is made, its item pushed, and the caller that was resumed done.  *)
LEMMA TallyOfCall ==
    ASSUME Types, Order, Tally, NEW c \in Contexts,
           \/ \E kind \in CallKinds : MakeCall(c, kind)
           \/ PushCall(c) \/ UncountCall(c)
    PROVE  Tally'
<1> USE DEF Order
<1>t. DOMAIN ctx = Contexts /\ ctx[c] \in CtxRec /\ counts \in [Counters -> Int]
  BY DEF Types
<1>1. /\ UNCHANGED main
      /\ \A d \in Contexts \ {c} : ctx'[d] = ctx[d]
      /\ ctx'[c].at \in {"running", "calling", "signallingCall"}
      /\ ctx[c].at \in {"running", "calling", "resumed"}
  <2>1. CASE PushCall(c)
    BY <2>1, <1>t DEF PushCall, Goes
  <2>3. CASE UncountCall(c)
    BY <2>3, <1>t DEF UncountCall, Goes
  <2>2. ASSUME NEW kind \in CallKinds, MakeCall(c, kind)
        PROVE  /\ UNCHANGED main
               /\ \A d \in Contexts \ {c} : ctx'[d] = ctx[d]
               /\ ctx'[c].at = "calling" /\ ctx[c].at = "running"
    BY <2>2, <1>t DEF MakeCall, CtxRec
  <2> QED
    BY <2>1, <2>2, <2>3
<1>2. /\ Queued' = Queued /\ Busy' = Busy
      /\ \A k \in Kinds : Popped(k)' = Popped(k) /\ Begun(k)' = Begun(k)
  BY <1>1 DEF Queued, Busy, Popped, Begun, HasItem, Where, Contexts
<1> USE DEF Counters
<1>3. ASSUME NEW kind \in CallKinds, MakeCall(c, kind) PROVE Tally'
  <2>1. /\ counts' = [counts EXCEPT ![Pending(kind)] = counts[Pending(kind)] + 1]
        /\ ctx[c].at = "running" /\ ctx'[c].at = "calling" /\ UNCHANGED lists
        /\ ctx'[c].kind = kind /\ ctx'[c].event = ctx[c].event
        /\ kind \in {"wait", "nowait"}
    BY <1>3, <1>t, RunLoopAssumption DEF MakeCall, CtxRec
  <2>2. /\ Answered' = Answered /\ \A k \in Kinds : CallsOf'[k] = CallsOf[k]
        /\ Calling'[kind] = Calling[kind] \cup {c} /\ c \notin Calling[kind]
        /\ \A k \in Kinds : k # kind => Calling'[k] = Calling[k]
    BY <1>1, <2>1 DEF Answered, CallsOf, Calling, On, Where
  <2>3. Cardinality(Calling'[kind]) = Cardinality(Calling[kind]) + 1
    BY <2>1, <2>2, Joins, CountedSets
  <2>4. ASSUME NEW k \in Kinds PROVE PendingAre(k)'
    <3> DEFINE d == IF k = kind THEN 1 ELSE 0
    <3>0. /\ Cardinality(CallsOf[k]) \in Nat /\ Cardinality(Calling[k]) \in Nat
          /\ counts[Pending(k)] \in Int /\ Popped(k) \in {0, 1}
      BY <1>t, CountedSets, HandIs DEF Pending
    <3>1. counts'[Pending(k)] = counts[Pending(k)] + 0 + 0 + d
      BY <1>t, <2>1, <3>0 DEF Pending
    <3>2. Cardinality(Calling'[k]) = Cardinality(Calling[k]) + d
      <4>1. CASE k = kind
        BY <4>1, <2>3
      <4>2. CASE k # kind
        <5>1. Calling'[k] = Calling[k]
          BY <4>2, <2>2
        <5> HIDE DEF Calling
        <5> QED
          BY <4>2, <5>1, <3>0
      <4> QED
        BY <4>1, <4>2
    <3>3. /\ Cardinality(CallsOf'[k]) = Cardinality(CallsOf[k]) + 0
          /\ Popped(k)' = Popped(k) + 0 /\ d \in Int
      BY <1>2, <2>2, <3>0
    <3> HIDE DEF d
    <3> QED
      BY <3>1, <3>2, <3>3, PendingMoves
  <2>5. \A k \in {"pending", "inflight", "sync_wait_inflight",
                  "sync_nowait_inflight"} : counts'[k] = counts[k]
    BY <1>t, <2>1 DEF Pending
  <2> QED
    BY <1>2, <2>2, <2>4, <2>5 DEF Tally
<1>4. CASE PushCall(c)
  <2>i. PICK i \in Item : i = CallItem(c)
    BY <1>4, CallItemType DEF PushCall
  <2>1. /\ UNCHANGED counts /\ ctx[c].at = "calling"
        /\ ctx'[c].at = "signallingCall" /\ lists' = Push(lists, "incoming", i)
        /\ ctx'[c].event = ctx[c].event
    BY <1>4, <1>t, <2>i DEF PushCall, Goes, CtxRec
  <2>2. i.kind = ctx[c].kind /\ i.kind \in {"wait", "nowait"} /\ i.n = ctx[c].n
        /\ i.ctx = c /\ ctx[c].n \in Int
    BY <2>i, <2>1, <1>t, CallItemType DEF IsCall, CtxRec
  <2>3. i \notin On("incoming")
    <3>1. ~Owned(i)
      BY <2>1, <2>2 DEF Owned
    <3> QED
      BY <3>1 DEF CallsHeld, Held
  <2>4. On("incoming")' = On("incoming") \cup {i}
    BY <2>1, PushOn DEF Lists
  <2>5. /\ CallsOf'[i.kind] = CallsOf[i.kind] \cup {i} /\ i \notin CallsOf[i.kind]
        /\ Calling'[i.kind] = Calling[i.kind] \ {c} /\ c \in Calling[i.kind]
        /\ \A k \in Kinds : k # i.kind => /\ CallsOf'[k] = CallsOf[k]
                                /\ Calling'[k] = Calling[k]
        /\ Answered' = Answered
    BY <1>1, <2>1, <2>2, <2>3, <2>4 DEF CallsOf, Calling, Answered, Where
  <2>6. /\ Cardinality(CallsOf'[i.kind]) = Cardinality(CallsOf[i.kind]) + 1
        /\ Cardinality(Calling'[i.kind]) = Cardinality(Calling[i.kind]) - 1
    BY <2>2, <2>5, Joins, Leaves, CountedSets
  <2>7. ASSUME NEW k \in Kinds PROVE PendingAre(k)'
    <3> DEFINE d == IF k = i.kind THEN 1 ELSE 0
               e == IF k = i.kind THEN -1 ELSE 0
    <3>0. /\ Cardinality(CallsOf[k]) \in Nat /\ Cardinality(Calling[k]) \in Nat
          /\ counts[Pending(k)] \in Int /\ Popped(k) \in {0, 1}
      BY <1>t, CountedSets, HandIs DEF Pending
    <3>1. counts'[Pending(k)] = counts[Pending(k)] + d + 0 + e
      BY <2>1, <3>0 DEF Pending
    <3>2. /\ Cardinality(CallsOf'[k]) = Cardinality(CallsOf[k]) + d
          /\ Cardinality(Calling'[k]) = Cardinality(Calling[k]) + e
      <4> HIDE DEF Kinds
      <4>1. CASE k = i.kind
        BY <2>6, <3>0, <4>1
      <4>2. CASE k # i.kind
        BY <2>5, <3>0, <4>2
      <4> QED
        BY <4>1, <4>2
    <3>3. Popped(k)' = Popped(k) + 0 /\ d \in Int /\ e \in Int
      BY <1>2, <3>0
    <3> HIDE DEF d, e
    <3> QED
      BY <3>1, <3>2, <3>3, PendingMoves
  <2> QED
    BY <1>2, <2>1, <2>5, <2>7 DEF Tally
<1>5. CASE UncountCall(c)
  <2>1. /\ counts' = [counts EXCEPT !["sync_wait_inflight"] =
                                      counts["sync_wait_inflight"] - 1]
        /\ ctx[c].at = "resumed" /\ ctx'[c].at = "running" /\ UNCHANGED lists
        /\ ~ctx[c].event /\ ~ctx'[c].event
    BY <1>5, <1>t DEF UncountCall, Goes, CtxRec, CallersServed, Served
  <2>2. /\ Answered' = Answered \ {c} /\ c \in Answered
        /\ \A k \in Kinds : CallsOf'[k] = CallsOf[k] /\ Calling'[k] = Calling[k]
    BY <1>1, <2>1 DEF Answered, CallsOf, Calling, On, Where
  <2>3. Cardinality(Answered') = Cardinality(Answered) - 1
    BY <2>2, Leaves, CountedSets
  <2>4. Begun("wait") \in {0, 1} /\ Cardinality(Answered) \in Nat
    BY HandIs, CountedSets
  <2> QED
    BY <1>t, <1>2, <2>1, <2>2, <2>3, <2>4 DEF Tally, PendingAre, Pending
<1> QED
  BY <1>3, <1>4, <1>5

(* The main thread takes an item, ...                                      *)
LEMMA TallyOfPopIncoming ==
    ASSUME Types, Order, Tally, PopIncoming
    PROVE  Tally'
<1> USE DEF Order
<1>t. counts \in [Counters -> Int] /\ "incoming" \in Lists
  BY DEF Types, Lists
<1>1. PICK i \in Item : i = Head(lists["incoming"])
  BY <1>t, PopOn DEF PopIncoming
<1>2. /\ i \in On("incoming") /\ On("incoming")' = On("incoming") \ {i}
      /\ IsCall(i) /\ i.kind \in Kinds
  BY <1>t, <1>1, PopOn DEF PopIncoming, ListsSorted, IsCall
<1>3. /\ main.pc = "incoming" /\ main'.pc = "popped" /\ main'.item = i
      /\ UNCHANGED <<ctx, counts>>
  BY <1>1 DEF PopIncoming, Types, MainRec
<1>4. /\ Queued' = Queued /\ Busy' = Busy /\ Answered' = Answered
      /\ \A k \in Kinds : Calling'[k] = Calling[k]
      /\ \A k \in Kinds : k # i.kind => CallsOf'[k] = CallsOf[k]
      /\ CallsOf'[i.kind] = CallsOf[i.kind] \ {i} /\ i \in CallsOf[i.kind]
  BY <1>2, <1>3 DEF Queued, Busy, Answered, Calling, CallsOf, Where
<1>5. Cardinality(CallsOf'[i.kind]) = Cardinality(CallsOf[i.kind]) - 1
  BY <1>2, <1>4, Leaves, CountedSets
<1>6. \A k \in Kinds : /\ Begun(k) = 0 /\ Begun(k)' = 0 /\ Popped(k) = 0
                       /\ Popped(k)' = IF k = i.kind THEN 1 ELSE 0
  BY <1>3, HandIs
<1>7. ASSUME NEW k \in Kinds PROVE PendingAre(k)'
  <2> DEFINE d == IF k = i.kind THEN -1 ELSE 0
             e == IF k = i.kind THEN 1 ELSE 0
  <2>0. /\ Cardinality(CallsOf[k]) \in Nat /\ Cardinality(Calling[k]) \in Nat
        /\ counts[Pending(k)] \in Int
    BY <1>t, CountedSets DEF Pending, Counters
  <2>1. counts'[Pending(k)] = counts[Pending(k)] + d + e + 0
    BY <1>3, <2>0 DEF Pending
  <2>2. Cardinality(CallsOf'[k]) = Cardinality(CallsOf[k]) + d
    <3> HIDE DEF Kinds
    <3>1. CASE k = i.kind
      BY <1>5, <2>0, <3>1
    <3>2. CASE k # i.kind
      BY <1>4, <2>0, <3>2
    <3> QED
      BY <3>1, <3>2
  <2>3. /\ Cardinality(Calling'[k]) = Cardinality(Calling[k]) + 0
        /\ Popped(k)' = Popped(k) + e /\ d \in Int /\ e \in Int
    BY <1>4, <1>6, <2>0
  <2> HIDE DEF d, e
  <2> QED
    BY <2>1, <2>2, <2>3, PendingMoves
<1> QED
  BY <1>3, <1>4, <1>6, <1>7 DEF Tally

(* ... changes its counters one after the other, ...                       *)
LEMMA TallyOfCounts ==
    ASSUME Types, Order, Tally, UncountPending \/ CountInflight
    PROVE  Tally'
<1> USE DEF Order
<1>t. counts \in [Counters -> Int]
  BY DEF Types
<1>1. UNCHANGED <<lists, ctx>> /\ main'.item = main.item /\ main.item.kind \in Kinds
  BY DEF UncountPending, CountInflight, MainGoes, Types, MainRec, MainPlace,
         IsCall
<1>2. /\ Queued' = Queued /\ Busy' = Busy /\ Answered' = Answered
      /\ \A k \in Kinds : Calling'[k] = Calling[k] /\ CallsOf'[k] = CallsOf[k]
  BY <1>1 DEF Queued, Busy, Answered, Calling, CallsOf, Where, On
<1>3. CASE UncountPending
  <2>1. /\ main.pc = "popped" /\ main'.pc = "uncounted"
        /\ counts' = [counts EXCEPT ![Pending(main.item.kind)] =
                        counts[Pending(main.item.kind)] - 1]
    BY <1>3 DEF UncountPending, MainGoes, Types, MainRec
  <2>2. \A k \in Kinds : /\ Begun(k) = 0 /\ Begun(k)' = 0 /\ Popped(k)' = 0
                         /\ Popped(k) = IF main.item.kind = k THEN 1 ELSE 0
    BY <2>1, HandIs
  <2>3. ASSUME NEW k \in Kinds PROVE PendingAre(k)'
    <3> DEFINE e == IF main.item.kind = k THEN -1 ELSE 0
    <3>0. /\ Cardinality(CallsOf[k]) \in Nat /\ Cardinality(Calling[k]) \in Nat
          /\ counts[Pending(k)] \in Int
      BY <1>t, CountedSets DEF Pending, Counters
    <3>1. counts'[Pending(k)] = counts[Pending(k)] + 0 + e + 0
      BY <1>t, <1>1, <2>1, <3>0 DEF Pending, Counters
    <3>2. /\ Cardinality(CallsOf'[k]) = Cardinality(CallsOf[k]) + 0
          /\ Cardinality(Calling'[k]) = Cardinality(Calling[k]) + 0
          /\ Popped(k)' = Popped(k) + e /\ e \in Int
      BY <1>2, <2>2, <3>0
    <3> HIDE DEF e
    <3> QED
      BY <3>1, <3>2, PendingMoves
  <2>4. \A k \in {"pending", "inflight", "sync_wait_inflight",
                  "sync_nowait_inflight"} : counts'[k] = counts[k]
    BY <1>t, <2>1 DEF Pending, Counters
  <2> QED
    BY <1>2, <2>2, <2>3, <2>4 DEF Tally
<1>4. CASE CountInflight
  <2>1. /\ main.pc = "uncounted" /\ main'.pc = "got"
        /\ counts' = [counts EXCEPT ![Inflight(main.item.kind)] =
                        counts[Inflight(main.item.kind)] + 1]
    BY <1>4 DEF CountInflight, MainGoes, Types, MainRec
  <2>2. \A k \in Kinds : /\ Begun(k) = 0 /\ Popped(k) = 0 /\ Popped(k)' = 0
                         /\ Begun(k)' = IF main.item.kind = k THEN 1 ELSE 0
    BY <1>1, <2>1, HandIs
  <2>3. \A k \in {"pending", "inflight", "sync_wait_pending",
                  "sync_nowait_pending"} : counts'[k] = counts[k]
    BY <1>t, <2>1 DEF Inflight, Counters
  <2>4. \A k \in Kinds : counts'[Inflight(k)] =
            counts[Inflight(k)] + (IF main.item.kind = k THEN 1 ELSE 0)
    BY <1>t, <1>1, <2>1 DEF Inflight, Counters
  <2>5. PendingAre("wait")' /\ PendingAre("nowait")'
    BY <1>2, <2>2, <2>3 DEF Tally, PendingAre, Pending
  <2>6. Cardinality(Answered) \in Nat
    BY CountedSets
  <2> QED
    BY <1>2, <2>2, <2>3, <2>4, <2>5, <2>6 DEF Tally, Inflight
<1> QED
  BY <1>3, <1>4

(* ... and is done with the item, and so may be the caller.                *)
LEMMA TallyOfDone ==
    ASSUME Types, Order, Tally, WakeCaller \/ DropResult
    PROVE  Tally'
<1> USE DEF Order
<1>t. counts \in [Counters -> Int] /\ DOMAIN ctx = Contexts
  BY DEF Types
<1>1. /\ main.pc \in {"called", "stored"} /\ main'.pc \in {"left", "incoming"}
      /\ UNCHANGED lists /\ main.item \in Held /\ main.item.ctx \in Contexts
  <2>1. /\ main.pc \in {"called", "stored"} /\ main'.pc \in {"left", "incoming"}
        /\ UNCHANGED lists
    BY DEF WakeCaller, DropResult, Types, MainRec
  <2>2. main.item # NULL /\ main.item \in Held
    BY <2>1 DEF MainPlace, Held
  <2> QED
    BY <2>1, <2>2, HeldTypes
<1>2. \A k \in Kinds : /\ CallsOf'[k] = CallsOf[k] /\ Popped(k)' = Popped(k)
                       /\ Begun(k)' = 0
                       /\ Begun(k) = IF main.item.kind = k THEN 1 ELSE 0
  BY <1>1, HandIs DEF CallsOf, On
<1>3. CASE WakeCaller
  <2>1. PICK c \in Contexts : c = main.item.ctx
    BY <1>1
  <2>2. /\ ctx[c] \in CtxRec /\ ctx'[c] = [ctx[c] EXCEPT !.event = TRUE]
        /\ \A d \in Contexts \ {c} : ctx'[d] = ctx[d]
        /\ UNCHANGED counts /\ main.item.kind = "wait" /\ ~ctx[c].event
        /\ ctx[c].at # "resumed"
    BY <1>1, <1>3, <1>t, <2>1
       DEF WakeCaller, Types, MainPlace, CallsHeld, Owned
  <2>3. /\ ctx'[c].event /\ ctx'[c].at = ctx[c].at /\ ctx'[c].kind = ctx[c].kind
    BY <2>2 DEF CtxRec
  <2>d. \A d \in Contexts : ctx'[d].at = ctx[d].at /\ ctx'[d].kind = ctx[d].kind
    BY <2>2, <2>3
  <2>4. /\ Queued' = Queued /\ Busy' = Busy /\ \A k \in Kinds : Calling'[k] = Calling[k]
        /\ Answered' = Answered \cup {c} /\ c \notin Answered
    <3>1. Queued' = Queued /\ Busy' = Busy
      BY <2>d DEF Queued, Busy, Where, Contexts
    <3>2. \A k \in Kinds : Calling'[k] = Calling[k]
      BY <2>d DEF Calling, Where
    <3>3. Answered' = Answered \cup {c} /\ c \notin Answered
      BY <2>2, <2>3 DEF Answered
    <3> QED
      BY <3>1, <3>2, <3>3
  <2>5. /\ Cardinality(Answered') = Cardinality(Answered) + 1
        /\ Cardinality(Answered) \in Nat
    BY <2>4, Joins, CountedSets
  <2> QED
    BY <1>t, <1>2, <2>2, <2>4, <2>5 DEF Tally, PendingAre, Counters
<1>4. CASE DropResult
  <2>1. /\ main.item.kind = "nowait" /\ UNCHANGED ctx
        /\ counts' = [counts EXCEPT !["sync_nowait_inflight"] =
                                      counts["sync_nowait_inflight"] - 1]
    BY <1>4 DEF DropResult
  <2>2. /\ Queued' = Queued /\ Busy' = Busy /\ \A k \in Kinds : Calling'[k] = Calling[k]
        /\ Answered' = Answered
    BY <2>1 DEF Queued, Busy, Calling, Answered, Where
  <2> QED
    BY <1>t, <1>2, <2>1, <2>2 DEF Tally, PendingAre, Counters, Pending
<1> QED
  BY <1>3, <1>4

(* The other steps of the main thread leave the sets alone.                *)
LEMMA TallyOfTurns ==
    ASSUME Types, Order, Tally,
           \/ Run \/ RunAgain \/ Interrupt \/ RunLoop \/ Woken \/ TimedOut
           \/ FlushErrors \/ PrintError \/ FlushCallbacks \/ FlushErrbacks
           \/ \E ok \in BOOLEAN : CallFunction(ok)
    PROVE  Tally'
<1>t. lists \in [Lists -> Seq(Item)] /\ main \in MainRec
  BY DEF Types
<1>1. /\ UNCHANGED <<ctx, counts>> /\ main'.item = main.item
      /\ \/ main.pc \notin Handling /\ main'.pc \notin Handling
         \/ main.pc = "got" /\ main'.pc = "called"
  BY <1>t DEF Run, RunAgain, Interrupt, RunLoop, Woken, TimedOut, FlushErrors,
         PrintError, FlushCallbacks, FlushErrbacks, CallFunction, MainGoes,
         MainRec
<1>2. lists'["incoming"] = lists["incoming"]
  <2>1. CASE FlushErrors
    BY <2>1, <1>t DEF FlushErrors, Lists, Outcomes
  <2>2. CASE PrintError
    BY <2>2, <1>t DEF PrintError, Unlink, Push, Lists, Outcomes
  <2>3. CASE FlushCallbacks \/ FlushErrbacks
    BY <2>3, <1>t DEF FlushCallbacks, FlushErrbacks, TransferAll, Lists,
                Outcomes
  <2> QED
    BY <2>1, <2>2, <2>3
       DEF Run, RunAgain, Interrupt, RunLoop, Woken, TimedOut, CallFunction
<1>3. On("incoming")' = On("incoming")
  BY <1>2 DEF On
<1>4. \A k \in Kinds : UNCHANGED <<Popped(k), Begun(k)>>
  BY <1>1, HandIs
<1> QED
  BY <1>1, <1>3, <1>4, TallyStays

LEMMA TallyOfStores ==
    ASSUME Types, Order, Tally, StoreResult \/ FlushFinished
    PROVE  Tally'
<1> USE DEF Order
<1>1. /\ UNCHANGED counts /\ main'.item = main.item
      /\ On("incoming")' = On("incoming")
      /\ \/ main.pc \notin Handling /\ main'.pc \notin Handling
         \/ main.pc = "called" /\ main'.pc = "stored"
  BY DEF StoreResult, FlushFinished, MainGoes, Types, MainRec, On, Lists
<1>2. ASSUME NEW c \in Contexts
      PROVE  /\ ctx'[c].event = ctx[c].event /\ ctx'[c].kind = ctx[c].kind
             /\ \/ ctx'[c].at = ctx[c].at
                \/ /\ ctx[c].at \in {"signalling", "ended"}
                   /\ ctx'[c].at \in {"freed", "freedEarly"}
  <2>1. ctx[c] \in CtxRec /\ DOMAIN ctx = Contexts
    BY DEF Types
  <2>2. CASE StoreResult
    BY <2>1, <2>2 DEF StoreResult, CtxRec
  <2>3. CASE FlushFinished
    <3> DEFINE cs == {i.ctx : i \in On("finished")}
    <3>1. ctx'[c] = IF c \in cs \cap Sockets
             THEN [ctx[c] EXCEPT !.at =
                     IF ctx[c].at = "signalling" THEN "freedEarly" ELSE "freed"]
             ELSE ctx[c]
      BY <2>3 DEF FlushFinished, On
    <3>2. c \in cs => ctx[c].at \in {"signalling", "ended"}
      <4>1. "finished" \in Lists /\ "finished" # "incoming"
        BY DEF Lists
      <4>2. c \in cs => Reported(c)
        BY <4>1 DEF Reported, ListsSorted
      <4> QED
        BY <4>2 DEF EndsKnown
    <3> HIDE DEF cs
    <3> QED
      BY <2>1, <3>1, <3>2 DEF CtxRec
  <2> QED
    BY <2>2, <2>3
<1>3. ASSUME NEW c \in Contexts
      PROVE  /\ \A place \in {"submitting", "queued", "calling", "running",
                              "signallingCall", "waiting", "resumed"} :
                   ctx'[c].at = place <=> ctx[c].at = place
             /\ ctx'[c].kind = ctx[c].kind /\ ctx'[c].event = ctx[c].event
  BY <1>2
<1>4. \A k \in Kinds : UNCHANGED <<Popped(k), Begun(k)>>
  BY <1>1, HandIs
<1> QED
  BY <1>1, <1>3, <1>4, TallyStays

LEMMA NeverNegative == Types /\ Tally => counts \in [Counters -> Nat]
<1> SUFFICES ASSUME Types, Tally PROVE counts \in [Counters -> Nat]
  OBVIOUS
<1>1. counts \in [Counters -> Int]
  BY DEF Types
<1>2. /\ Cardinality(Queued) \in Nat /\ Cardinality(Busy) \in Nat
      /\ Cardinality(Answered) \in Nat
      /\ \A k \in Kinds : Cardinality(Calling[k]) \in Nat /\ Cardinality(CallsOf[k]) \in Nat
  BY CountedSets
<1>3. \A k \in Kinds : Popped(k) \in Nat /\ Begun(k) \in Nat
  BY HandIs
<1>4. \A k \in Counters : counts[k] \in Nat
  BY <1>2, <1>3 DEF Tally, PendingAre, Pending, Counters
<1> QED
  BY <1>1, <1>4

LEMMA TallyStep == OrderInv /\ OrderInv' /\ TallyInv /\ [Next]_vars => TallyInv'
<1> SUFFICES ASSUME OrderInv, OrderInv', TallyInv, [Next]_vars PROVE TallyInv'
  OBVIOUS
<1>1. CASE UNCHANGED vars
  <2>1. ASSUME Tally PROVE Tally'
    <3>1. \A k \in Kinds : UNCHANGED <<Popped(k), Begun(k)>>
      BY <1>1 DEF vars, Popped, Begun, HasItem
    <3> QED
      BY <1>1, <2>1, <3>1, TallyStays DEF vars, On
  <2> QED
    BY <1>1, <2>1 DEF TallyInv, vars, Running
<1>2. CASE Next
  <2>1. Types /\ Order /\ Tally
    BY <1>2, Stopped DEF OrderInv, TallyInv
  <2>2. ASSUME Running' PROVE Tally'
    <3>1. CASE MainStep
      BY <2>1, <3>1, TallyOfPopIncoming, TallyOfCounts, TallyOfDone,
         TallyOfTurns, TallyOfStores DEF MainStep
    <3>2. ASSUME NEW c \in Contexts, CallbackStep(c) \/ SubmitStep(c) PROVE Tally'
      BY <2>1, <2>2, <3>2, TallyOfOthers, TallyOfWork, TallyOfCall
         DEF CallbackStep, SubmitStep
    <3>3. CASE Choice
      BY <2>1, <2>2, <3>3, TallyOfOthers, TallyOfWork, TallyOfTurns DEF Choice
    <3> QED
      BY <1>2, <3>1, <3>2, <3>3 DEF Next
  <2>3. ASSUME ~Running' PROVE UNCHANGED counts
    <3>1. main.pc # "trap" /\ main'.pc = "trap" /\ main \in MainRec
      BY <1>2, <2>1, <2>3, Stopped DEF Running, Types
    <3>2. ASSUME MainStep PROVE UNCHANGED counts
      BY <3>1, <3>2 DEF MainStep, MainGoes, MainRec, RunLoop, FlushFinished,
         FlushErrors, PrintError, PopIncoming, UncountPending, CountInflight,
         CallFunction, StoreResult, WakeCaller, DropResult, FlushCallbacks,
         FlushErrbacks, Woken, TimedOut
    <3>3. ASSUME NEW c \in Contexts, CallbackStep(c) \/ SubmitStep(c)
          PROVE  UNCHANGED counts
      BY <3>1, <3>3 DEF CallbackStep, SubmitStep, QueueWork, RefuseWork,
         StartWork, CountWork, MakeCall, PushCall, SignalCall, Resume,
         UncountCall, EndWork, EndCallback, Report, SignalMain
    <3>4. ASSUME Choice PROVE UNCHANGED counts
      BY <3>1, <3>4 DEF Choice, SubmitWork, StartCallback, RefuseCall,
         FailCallback, AbandonSocket, Run, RunAgain, Interrupt, MainGoes
    <3> QED
      BY <1>2, <3>2, <3>3, <3>4 DEF Next
  <2>4. Types'
    BY DEF OrderInv
  <2>5. (Types /\ Tally => counts \in [Counters -> Nat])'
    BY NeverNegative, PTL
  <2> QED
    BY <2>2, <2>3, <2>4, <2>5 DEF TallyInv
<1> QED
  BY <1>1, <1>2

LEMMA TallyInit == Init => TallyInv
<1> SUFFICES ASSUME Init PROVE TallyInv
  OBVIOUS
<1>1. On("incoming") = {} /\ main.pc = "user"
  BY DEF Init, On, ToSet, Lists
<1>2. /\ Queued = {} /\ Busy = {} /\ Answered = {}
      /\ \A k \in Kinds : /\ Calling[k] = {} /\ CallsOf[k] = {}
                          /\ Popped(k) = 0 /\ Begun(k) = 0
  BY <1>1, RunLoopAssumption, HandIs
     DEF Init, Queued, Busy, Answered, Calling, CallsOf, Where
<1>3. counts = [k \in Counters |-> 0]
  BY DEF Init
<1>4. Tally
  BY <1>2, <1>3, FS_EmptySet DEF Tally, PendingAre, Pending, Counters
<1> QED
  BY <1>3, <1>4 DEF TallyInv

LEMMA TallyHolds == Spec => []TallyInv
BY Ordered, TallyInit, TallyStep, PTL DEF Spec

(* The counters of PxState count what they are named for, between any two  *)
(* of their changes and however the callbacks and the main thread          *)
(* interleave.                                                             *)
THEOREM CountersCount == Spec => []CountersAgree
BY TallyHolds, TallyIs, PTL DEF TallyInv

(* The items of the lists serve who waits for them, and none is used when  *)
(* its memory is gone: neither the deallocation of a socket nor the rewind *)
(* at the end of a callback takes the item of a call that is waited for.   *)
THEOREM ItemsAreSound == Spec => []ItemsSound
<1>1. OrderInv /\ TallyInv => ItemsSound
  BY OrderServes, OrderFreesLast
     DEF ItemsSound, OrderInv, TallyInv, Types, TypeOK
<1> QED
  BY <1>1, Ordered, TallyHolds, PTL

-----------------------------------------------------------------------------
(* The calls that are waited for, as PxCall has them                       *)

CallPhases == [c \in Contexts |-> Phase(c)]
Waits(c) == ctx[c].kind = "wait"
              /\ ctx[c].at \in {"calling", "signallingCall", "waiting"}
InCall == main.item # NULL /\ main.pc \in {"called", "stored", "trap"}

LEMMA PhaseIs ==
    ASSUME NEW c \in Contexts
    PROVE  /\ ~Waits(c) => CallPhases[c] = "none"
           /\ Waits(c) /\ ctx[c].event => CallPhases[c] = "answered"
           /\ Waits(c) /\ ~ctx[c].event =>
                 CallPhases[c] = IF main.item = CallItem(c) /\ InCall
                                 THEN "called" ELSE "asked"
<1>1. Waits(c) => CallItem(c) # NULL
  BY DEF Waits, CallItem, NULL
<1> QED
  BY <1>1 DEF CallPhases, Phase, Waits, InCall

LEMMA NextPhaseIs ==
    ASSUME NEW c \in Contexts
    PROVE  /\ ~Waits(c)' => CallPhases'[c] = "none"
           /\ Waits(c)' /\ ctx'[c].event => CallPhases'[c] = "answered"
           /\ Waits(c)' /\ ~ctx'[c].event =>
                 CallPhases'[c] = IF main'.item = CallItem(c)' /\ InCall'
                                  THEN "called" ELSE "asked"
<1>1. Waits(c)' => CallItem(c)' # NULL
  BY DEF Waits, CallItem, NULL
<1> QED
  BY <1>1 DEF CallPhases, Phase, Waits, InCall

(* What of a context its phase depends on.                                 *)
SameCall(c) ==
    /\ ctx'[c].kind = ctx[c].kind /\ ctx'[c].n = ctx[c].n
    /\ ctx'[c].event = ctx[c].event
    /\ \/ ctx'[c].at = ctx[c].at
       \/ {ctx[c].at, ctx'[c].at} \subseteq {"calling", "signallingCall", "waiting"}

LEMMA SamePhase ==
    ASSUME NEW c \in Contexts, SameCall(c) \/ (~Waits(c) /\ ~Waits(c)'),
           Waits(c) => ((main'.item = CallItem(c) /\ InCall')
                          <=> (main.item = CallItem(c) /\ InCall))
    PROVE  CallPhases'[c] = CallPhases[c]
<1>1. CASE ~Waits(c) /\ ~Waits(c)'
  BY <1>1, PhaseIs, NextPhaseIs
<1>2. CASE SameCall(c)
  <2>1. (Waits(c)' <=> Waits(c)) /\ CallItem(c)' = CallItem(c)
    BY <1>2 DEF SameCall, Waits, CallItem
  <2>2. CASE ~Waits(c)
    BY <2>1, <2>2, PhaseIs, NextPhaseIs
  <2>3. CASE Waits(c) /\ ctx[c].event
    BY <1>2, <2>1, <2>3, PhaseIs, NextPhaseIs DEF SameCall
  <2>4. CASE Waits(c) /\ ~ctx[c].event
    BY <1>2, <2>1, <2>4, PhaseIs, NextPhaseIs DEF SameCall
  <2> QED
    BY <2>2, <2>3, <2>4
<1> QED
  BY <1>1, <1>2

LEMMA PhasesStay ==
    ASSUME \A c \in Contexts : CallPhases'[c] = CallPhases[c]
    PROVE  UNCHANGED CallPhases
BY DEF CallPhases

LEMMA PhaseMoves ==
    ASSUME NEW c \in Contexts, NEW from, NEW to,
           CallPhases[c] = from, CallPhases'[c] = to,
           \A d \in Contexts \ {c} : CallPhases'[d] = CallPhases[d]
    PROVE  Call!Moves(c, from, to)
<1>1. CallPhases' = [CallPhases EXCEPT ![c] = to]
  BY DEF CallPhases
<1> QED
  BY <1>1 DEF Call!Moves, CallPhases

(* Between two items, or none, in the hands of the main thread a context   *)
(* that does not wait stays as it is.                                      *)
LEMMA QuietPhases ==
    ASSUME \A c \in Contexts : SameCall(c) \/ (~Waits(c) /\ ~Waits(c)'),
           \/ UNCHANGED main
           \/ main.item = NULL /\ main'.item = NULL
           \/ /\ main'.item = main.item /\ main.pc = "called"
              /\ main'.pc = "stored"
    PROVE  UNCHANGED CallPhases
<1>1. ASSUME NEW c \in Contexts PROVE CallPhases'[c] = CallPhases[c]
  <2>1. Waits(c) => CallItem(c) # NULL
    BY DEF Waits, CallItem, NULL
  <2> QED
    BY <2>1, SamePhase DEF InCall
<1> QED
  BY <1>1, PhasesStay


LEMMA PhasesOfCallbacks ==
    ASSUME Types, Order, NEW c \in Contexts,
           \/ QueueWork(c) \/ RefuseWork(c) \/ StartWork(c) \/ CountWork(c)
           \/ PushCall(c) \/ SignalCall(c) \/ UncountCall(c)
           \/ (\E o \in Outcomes : EndWork(c, o)) \/ Report(c) \/ SignalMain(c)
           \/ SubmitWork(c) \/ StartCallback(c) \/ RefuseCall(c)
           \/ FailCallback(c) \/ AbandonSocket(c)
    PROVE  UNCHANGED CallPhases
<1> USE DEF Order, Goes, SameCall, Waits
<1>t. DOMAIN ctx = Contexts /\ ctx[c] \in CtxRec /\ Made(c)
  BY DEF Types, CallsMade
<1>1. UNCHANGED main /\ \A d \in Contexts \ {c} : ctx'[d] = ctx[d]
  <2>1. UNCHANGED main
    BY DEF QueueWork, RefuseWork, StartWork, CountWork, PushCall, SignalCall,
           UncountCall, EndWork, Report, SignalMain, SubmitWork, StartCallback,
           RefuseCall, FailCallback, AbandonSocket
  <2>2. PICK r : ctx' = [ctx EXCEPT ![c] = r]
    <3>1. CASE StartWork(c) \/ PushCall(c) \/ SignalCall(c) \/ Report(c)
                 \/ SignalMain(c) \/ SubmitWork(c) \/ AbandonSocket(c)
                 \/ QueueWork(c) \/ RefuseWork(c) \/ CountWork(c)
                 \/ UncountCall(c)
      BY <3>1 DEF StartWork, PushCall, SignalCall, Report, SignalMain,
                  SubmitWork, AbandonSocket, QueueWork, RefuseWork, CountWork,
                  UncountCall
    <3>2. ASSUME NEW o \in Outcomes, EndWork(c, o)
          PROVE  \E r : ctx' = [ctx EXCEPT ![c] = r]
      BY <3>2 DEF EndWork
    <3>3. CASE StartCallback(c)
      BY <3>3 DEF StartCallback
    <3>4. CASE RefuseCall(c)
      BY <3>4 DEF RefuseCall
    <3>5. CASE FailCallback(c)
      BY <3>5 DEF FailCallback
    <3> QED
      BY <3>1, <3>2, <3>3, <3>4, <3>5
  <2> QED
    BY <2>1, <2>2, <1>t
<1>2. SameCall(c) \/ (~Waits(c) /\ ~Waits(c)')
  <2> USE DEF CtxRec
  <2>1. CASE \/ SubmitWork(c) \/ QueueWork(c) \/ RefuseWork(c) \/ StartWork(c)
             \/ CountWork(c) \/ UncountCall(c)
    BY <2>1, <1>t DEF SubmitWork, QueueWork, RefuseWork, StartWork, CountWork,
                      UncountCall
  <2>2. CASE PushCall(c)
    BY <2>2, <1>t DEF PushCall
  <2>3. CASE SignalCall(c)
    BY <2>3, <1>t DEF SignalCall
  <2>4. ASSUME NEW o \in Outcomes, EndWork(c, o)
        PROVE  SameCall(c) \/ (~Waits(c) /\ ~Waits(c)')
    BY <2>4, <1>t DEF EndWork
  <2>5. CASE Report(c)
    BY <2>5, <1>t DEF Report
  <2>6. CASE SignalMain(c)
    BY <2>6, <1>t DEF SignalMain
  <2>7. CASE StartCallback(c)
    BY <2>7, <1>t DEF StartCallback
  <2>8. CASE RefuseCall(c)
    BY <2>8, <1>t DEF RefuseCall
  <2>9. CASE FailCallback(c) \/ AbandonSocket(c)
    BY ZenonT(30), <2>9, <1>t DEF FailCallback, AbandonSocket
  <2> QED
    BY <2>1, <2>2, <2>3, <2>4, <2>5, <2>6, <2>7, <2>8, <2>9
<1> HIDE DEF SameCall, Waits
<1>3. \A d \in Contexts : SameCall(d) \/ (~Waits(d) /\ ~Waits(d)')
  <2>1. \A d \in Contexts \ {c} : SameCall(d)
    BY <1>1 DEF SameCall
  <2> QED
    BY <1>2, <2>1
<1> QED
  BY <1>1, <1>3, QuietPhases

(* A call is asked for when it is counted, ...                             *)
LEMMA PhasesOfMakeCall ==
    ASSUME Types, Order, NEW c \in Contexts, NEW kind \in CallKinds,
           MakeCall(c, kind)
    PROVE  [Call!Next]_CallPhases
<1> USE DEF Order
<1>t. DOMAIN ctx = Contexts /\ ctx[c] \in CtxRec /\ Served(c) /\ ctx[c].n \in Int
  BY DEF Types, CallersServed, CtxRec
<1>1. /\ UNCHANGED <<main, lists>> /\ \A d \in Contexts \ {c} : ctx'[d] = ctx[d]
  BY DEF MakeCall
<1>2. /\ ctx[c].at = "running" /\ ctx'[c].at = "calling"
      /\ ctx'[c].kind = kind /\ ctx'[c].n = ctx[c].n + 1
      /\ ~ctx[c].event /\ ctx'[c].event = ctx[c].event
  BY <1>t DEF MakeCall, CtxRec, Served
<1>3. \A d \in Contexts \ {c} : SameCall(d)
  BY <1>1 DEF SameCall
<1>4. CASE kind # "wait"
  BY <1>1, <1>2, <1>3, <1>4, QuietPhases DEF Waits
<1>5. CASE kind = "wait"
  <2>1. main.item # CallItem(c)'
    <3>1. main.item # NULL => Owned(main.item) /\ main.item.n \in Int
      BY HeldTypes DEF CallsHeld, Held
    <3>2. CallItem(c)'.ctx = c /\ CallItem(c)'.n = ctx[c].n + 1
      BY <1>2 DEF CallItem
    <3>3. CallItem(c)' # NULL
      BY <1>2, <1>5 DEF CallItem, NULL
    <3> QED
      BY <3>1, <3>2, <3>3, <1>t DEF Owned
  <2>2. CallPhases[c] = "none" /\ CallPhases'[c] = "asked"
    BY <1>1, <1>2, <1>5, <2>1, PhaseIs, NextPhaseIs DEF Waits
  <2>3. \A d \in Contexts \ {c} : CallPhases'[d] = CallPhases[d]
    BY <1>1, <1>3, SamePhase DEF InCall
  <2>4. Call!Ask(c)
    BY <2>2, <2>3, PhaseMoves DEF Call!Ask
  <2> QED
    BY <2>4 DEF Call!Next
<1> QED
  BY <1>4, <1>5

(* ... and the caller resumed only when its event is set.                  *)
LEMMA PhasesOfResume ==
    ASSUME Types, Order, NEW c \in Contexts, Resume(c)
    PROVE  [Call!Next]_CallPhases
<1>t. DOMAIN ctx = Contexts /\ ctx[c] \in CtxRec
  BY DEF Types
<1>1. /\ UNCHANGED main /\ \A d \in Contexts \ {c} : SameCall(d)
      /\ Waits(c) /\ ctx[c].event /\ ~Waits(c)'
  BY <1>t DEF Resume, SameCall, Waits, CtxRec, Order, CallsMade, Made
<1>2. CallPhases[c] = "answered" /\ CallPhases'[c] = "none"
  BY <1>1, PhaseIs, NextPhaseIs
<1>3. \A d \in Contexts \ {c} : CallPhases'[d] = CallPhases[d]
  BY <1>1, SamePhase DEF InCall
<1>4. Call!Resume(c)
  BY <1>2, <1>3, PhaseMoves DEF Call!Resume
<1> QED
  BY <1>4 DEF Call!Next

(* The function of an item the main thread has begins: when it is called,  *)
(* or when the main thread has stopped before it.                          *)
LEMMA PhasesOfBegin ==
    ASSUME Types, Order, main.pc \in {"popped", "uncounted", "got"},
           main'.item = main.item,
           main'.pc \in {"called", "trap"},
           \A c \in Contexts : SameCall(c) \/ (~Waits(c) /\ ~Waits(c)')
    PROVE  [Call!Next]_CallPhases
<1> USE DEF Order
<1>1. PICK i \in Item : /\ i = main.item /\ i \in Held /\ i.ctx \in Contexts
                        /\ i # NULL /\ IsCall(i) /\ Owned(i)
  BY HeldTypes DEF MainPlace, Held, CallsHeld
<1>2. ~InCall /\ InCall'
  BY <1>1 DEF InCall
<1>3. \A c \in Contexts : CallPhases[c] # "called"
  BY <1>2, PhaseIs
<1>4. \A c \in Contexts : c # i.ctx => CallPhases'[c] = CallPhases[c]
  <2>1. \A c \in Contexts : c # i.ctx => CallItem(c) # i
    BY DEF CallItem
  <2> QED
    BY <1>1, <2>1, SamePhase
<1>5. CASE i.kind = "wait"
  <2> DEFINE c == i.ctx
  <2>1. Waits(c) /\ ~ctx[c].event /\ CallItem(c) = i
    BY <1>1, <1>5 DEF Owned, Waits, CallItem, Item, Outcomes
  <2>2. SameCall(c) /\ Waits(c)' /\ CallItem(c)' = i /\ ~ctx'[c].event
    BY <1>1, <2>1 DEF SameCall, Waits, CallItem
  <2>3. CallPhases[c] = "asked" /\ CallPhases'[c] = "called"
    BY <1>1, <1>2, <2>1, <2>2, PhaseIs, NextPhaseIs
  <2> HIDE DEF c
  <2>4. Call!Moves(c, "asked", "called")
    BY <1>1, <1>4, <2>3, PhaseMoves DEF c
  <2>5. Call!Begin(c)
    BY <1>3, <2>4 DEF Call!Begin, CallPhases
  <2> QED
    BY <1>1, <2>5 DEF Call!Next, c
<1>6. CASE i.kind # "wait"
  <2>1. \A c \in Contexts : Waits(c) => CallItem(c) # i
    BY <1>6 DEF Waits, CallItem
  <2>2. \A c \in Contexts : CallPhases'[c] = CallPhases[c]
    BY <1>1, <2>1, SamePhase
  <2> QED
    BY <2>2, PhasesStay
<1> QED
  BY <1>5, <1>6

LEMMA PhasesOfEndCallback ==
    ASSUME Types, Order, NEW c \in Contexts, EndCallback(c)
    PROVE  [Call!Next]_CallPhases
<1> USE DEF Order
<1>1. /\ main'.item = main.item
      /\ main' = main \/ main'.pc = "trap"
      /\ ctx[c].at = "running" /\ ctx' = [ctx EXCEPT ![c].at = "idle"]
  BY DEF EndCallback, Goes, Types, MainRec
<1>2. \A d \in Contexts : SameCall(d) \/ (~Waits(d) /\ ~Waits(d)')
  <2>1. DOMAIN ctx = Contexts /\ ctx[c] \in CtxRec
    BY DEF Types
  <2>2. \A d \in Contexts \ {c} : SameCall(d)
    BY <1>1 DEF SameCall
  <2>3. ~Waits(c) /\ ~Waits(c)'
    BY <1>1, <2>1 DEF Waits, CtxRec
  <2> QED
    BY <2>2, <2>3
<1>3. CASE main' = main \/ main.item = NULL
  BY <1>1, <1>2, <1>3, QuietPhases
<1>4. CASE main'.pc = "trap" /\ main.pc \in {"popped", "uncounted", "got"}
  BY <1>1, <1>2, <1>4, PhasesOfBegin
<1>5. CASE main'.pc = "trap" /\ main.pc \in {"called", "stored"}
  <2>1. InCall' <=> InCall
    BY <1>1, <1>5 DEF InCall
  <2>2. \A d \in Contexts : CallPhases'[d] = CallPhases[d]
    BY <1>1, <1>2, <2>1, SamePhase
  <2> QED
    BY <2>2, PhasesStay
<1> QED
  BY <1>1, <1>3, <1>4, <1>5 DEF MainPlace

LEMMA PhasesOfWakeCaller ==
    ASSUME Types, Order, WakeCaller
    PROVE  [Call!Next]_CallPhases
<1> USE DEF Order
<1>1. PICK i \in Item : /\ i = main.item /\ i.ctx \in Contexts /\ i # NULL
                        /\ Owned(i) /\ i.kind = "wait"
  BY HeldTypes DEF WakeCaller, MainPlace, Held, CallsHeld
<1> DEFINE c == i.ctx
<1>2. /\ main.pc = "stored" /\ main'.pc = "incoming" /\ main'.item = NULL
      /\ ctx'[c] = [ctx[c] EXCEPT !.event = TRUE] /\ ctx[c] \in CtxRec
      /\ \A d \in Contexts \ {c} : ctx'[d] = ctx[d]
  BY <1>1 DEF WakeCaller, Types, MainRec
<1>3. Waits(c) /\ ~ctx[c].event /\ CallItem(c) = i
  BY <1>1 DEF Owned, Waits, CallItem, Item, Outcomes
<1>4. Waits(c)' /\ ctx'[c].event
  BY <1>2, <1>3 DEF Waits, CtxRec
<1>5. InCall /\ ~InCall'
  BY <1>1, <1>2 DEF InCall
<1>6. CallPhases[c] = "called" /\ CallPhases'[c] = "answered"
  BY <1>1, <1>3, <1>4, <1>5, PhaseIs, NextPhaseIs
<1>7. \A d \in Contexts \ {c} : CallPhases'[d] = CallPhases[d]
  <2>1. \A d \in Contexts \ {c} : SameCall(d) /\ CallItem(d) # i
    BY <1>2 DEF SameCall, CallItem
  <2> QED
    BY <1>1, <1>5, <2>1, SamePhase
<1> HIDE DEF c
<1>8. Call!Answer(c)
  BY <1>1, <1>6, <1>7, PhaseMoves DEF Call!Answer, c
<1> QED
  BY <1>1, <1>8 DEF Call!Next, c

LEMMA PhasesOfMain ==
    ASSUME Types, Order,
           \/ Run \/ RunAgain \/ Interrupt \/ RunLoop \/ Woken \/ TimedOut
           \/ FlushErrors \/ PrintError \/ FlushCallbacks \/ FlushErrbacks
           \/ FlushFinished \/ StoreResult \/ PopIncoming \/ UncountPending
           \/ CountInflight \/ DropResult
    PROVE  UNCHANGED CallPhases
<1> USE DEF Order
<1>t. main \in MainRec /\ DOMAIN ctx = Contexts
  BY DEF Types
<1>1. CASE \/ Run \/ RunAgain \/ Interrupt \/ RunLoop \/ Woken \/ TimedOut
           \/ FlushErrors \/ PrintError \/ FlushCallbacks \/ FlushErrbacks
  <2>1. /\ UNCHANGED ctx /\ main'.item = main.item
        /\ main.pc \notin Handling
    BY <1>1, <1>t DEF Run, RunAgain, Interrupt, RunLoop, Woken, TimedOut,
       FlushErrors, PrintError, FlushCallbacks, FlushErrbacks, MainGoes,
       MainRec
  <2> QED
    BY <2>1, QuietPhases DEF MainPlace, SameCall
<1>2. CASE FlushFinished
  <2>1. main.item = NULL /\ main'.item = NULL
    BY <1>2, <1>t DEF FlushFinished, MainPlace, MainRec
  <2>2. ASSUME NEW c \in Contexts
        PROVE  SameCall(c) \/ (~Waits(c) /\ ~Waits(c)')
    <3> DEFINE cs == {i.ctx : i \in On("finished")}
    <3>1. ctx'[c] = IF c \in cs \cap Sockets
             THEN [ctx[c] EXCEPT !.at =
                     IF ctx[c].at = "signalling" THEN "freedEarly" ELSE "freed"]
             ELSE ctx[c]
      BY <1>2 DEF FlushFinished, On
    <3>2. c \in cs => ctx[c].at \in {"signalling", "ended"}
      <4>1. "finished" \in Lists /\ "finished" # "incoming"
        BY DEF Lists
      <4>2. c \in cs => Reported(c)
        BY <4>1 DEF Reported, ListsSorted
      <4> QED
        BY <4>2 DEF EndsKnown
    <3>3. ctx[c] \in CtxRec
      BY DEF Types
    <3> HIDE DEF cs
    <3> QED
      BY <3>1, <3>2, <3>3 DEF CtxRec, SameCall, Waits
  <2> QED
    BY <2>1, <2>2, QuietPhases
<1>3. CASE StoreResult
  <2>1. /\ main.pc = "called" /\ main'.pc = "stored" /\ main'.item = main.item
    BY <1>3, <1>t DEF StoreResult, MainGoes, MainRec
  <2>2. ASSUME NEW c \in Contexts PROVE SameCall(c)
    <3>1. ctx[c] \in CtxRec
      BY DEF Types
    <3> QED
      BY <1>3, <1>t, <3>1 DEF StoreResult, CtxRec, SameCall
  <2> QED
    BY <2>1, <2>2, QuietPhases
<1>4. CASE PopIncoming \/ UncountPending \/ CountInflight
  <2>1. ~InCall /\ ~InCall' /\ UNCHANGED ctx
    BY <1>4, <1>t DEF PopIncoming, UncountPending, CountInflight, MainGoes,
                      InCall, MainRec
  <2>2. \A c \in Contexts : CallPhases'[c] = CallPhases[c]
    BY <2>1, SamePhase DEF SameCall
  <2> QED
    BY <2>2, PhasesStay
<1>5. CASE DropResult
  <2>1. /\ main.item.kind = "nowait" /\ UNCHANGED ctx /\ ~InCall'
    BY <1>5, <1>t DEF DropResult, InCall, MainRec
  <2>2. \A c \in Contexts : Waits(c) => CallItem(c) # main.item
    BY <2>1 DEF Waits, CallItem
  <2>3. \A c \in Contexts : CallPhases'[c] = CallPhases[c]
    BY <2>1, <2>2, SamePhase DEF SameCall
  <2> QED
    BY <2>3, PhasesStay
<1> QED
  BY <1>1, <1>2, <1>3, <1>4, <1>5

(* Every step of the run loop and its callbacks is one of PxCall, or none. *)
LEMMA CallStep == OrderInv /\ [Next]_vars => [Call!Next]_CallPhases
<1> SUFFICES ASSUME OrderInv, [Next]_vars PROVE [Call!Next]_CallPhases
  OBVIOUS
<1>1. CASE UNCHANGED vars
  BY <1>1 DEF vars, CallPhases, Phase, CallItem
<1>2. CASE Next
  <2>1. Types /\ Order
    BY <1>2, Stopped DEF OrderInv
  <2>2. CASE \E ok \in BOOLEAN : CallFunction(ok)
    <3>1. /\ main.pc = "got" /\ main'.pc = "called" /\ main'.item = main.item
          /\ UNCHANGED ctx
      BY <2>1, <2>2 DEF CallFunction, Types, MainRec
    <3> QED
      BY <2>1, <3>1, PhasesOfBegin DEF SameCall
  <2>3. CASE MainStep
    BY <2>1, <2>2, <2>3, PhasesOfMain, PhasesOfWakeCaller DEF MainStep
  <2>4. ASSUME NEW c \in Contexts, CallbackStep(c)
        PROVE  [Call!Next]_CallPhases
    BY <2>1, <2>4, PhasesOfCallbacks, PhasesOfMakeCall, PhasesOfResume,
       PhasesOfEndCallback DEF CallbackStep
  <2>5. CASE Choice
    BY <2>1, <2>5, PhasesOfCallbacks, PhasesOfMain DEF Choice
  <2>6. ASSUME NEW c \in Contexts, SubmitStep(c)
        PROVE  [Call!Next]_CallPhases
    BY <2>1, <2>6, PhasesOfCallbacks DEF SubmitStep
  <2> QED
    BY <1>2, <2>3, <2>4, <2>5, <2>6 DEF Next
<1> QED
  BY <1>1, <1>2

(* The lists, the event and the loop of the main thread implement PxCall:  *)
(* the function of a caller that waits is called once, one at a time, and  *)
(* the caller goes on when that call is over, not before.                  *)
THEOREM CallImplements == Spec => CallSpec
<1>1. Init => Call!Init
  BY DEF Init, Call!Init, Phase
<1>2. OrderInv /\ [Next]_vars => [Call!Next]_[c \in Contexts |-> Phase(c)]
  BY CallStep DEF CallPhases
<1> QED
  BY <1>1, <1>2, Ordered, PTL DEF Spec, CallSpec, Call!Spec

=============================================================================
