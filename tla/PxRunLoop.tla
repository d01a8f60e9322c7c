------------------------------ MODULE PxRunLoop ------------------------------
(***************************************************************************)
(* The main thread's event loop, run() and run_once(), and the callbacks   *)
(* of the thread pool that report to it: completed work, uncaught errors,  *)
(* and the calls a parallel callback asks the main thread to make, with or *)
(* without waiting for the result (src/Python/pyparallel.c).               *)
(*                                                                         *)
(* They share interlocked singly linked lists: a push puts an item in      *)
(* front, a pop takes the front, a flush takes everything.  A list is the  *)
(* sequence of its items, front first.                                     *)
(***************************************************************************)
EXTENDS Integers, SequencesExt

CONSTANTS
    Works,       \* contexts made by submit_work(), run once
    Sockets,     \* contexts of accepted sockets, whose callbacks recur
    CallKinds,   \* which of "wait" and "nowait" the callbacks use
    MaxCalls,    \* bound: calls of one callback to the main thread
    Registered   \* px->num_contexts is not zero: there is a server, say

ASSUME RunLoopAssumption ==
    /\ Works \cap Sockets = {}
    /\ IsFiniteSet(Works) /\ IsFiniteSet(Sockets)
    /\ CallKinds \subseteq {"wait", "nowait"}
    /\ MaxCalls \in Nat
    /\ Registered \in BOOLEAN

VARIABLES
    lists,    \* the lists of PxState, and the errors it is printing ("taken")
    wakeup,   \* px->wakeup, an auto-reset event
    ctx,      \* the contexts: see CtxRec
    counts,   \* the pending and inflight counters of PxState
    main,     \* the main thread: see MainRec
    rewound   \* items in memory a rewind took while the main thread has them

vars == <<lists, wakeup, ctx, counts, main, rewound>>

Contexts == Works \cup Sockets
Outcomes == {"errors", "completed_callbacks", "completed_errbacks"}
Lists == Outcomes \cup {"incoming", "finished", "taken"}

(* An item is c->error, c->callback_completed or c->errback_completed      *)
(* (named by the list it is meant for), or the item of c's n-th call.      *)
Item == [ctx : Contexts, kind : Outcomes, n : {0}]
          \cup [ctx : Contexts, kind : {"wait", "nowait"}, n : 1..MaxCalls]
NULL == [kind |-> "NULL"]

(* A context: where it is, the list its end is reported to, the call it    *)
(* makes or made last, whether c->decref is set, the last of its calls the *)
(* main thread stored a result for, and the event it waits for (item->p4). *)
Places == {"new", "submitting", "queued", "starting", "idle", "running",
           "calling", "signallingCall", "waiting", "resumed", "reporting",
           "signalling", "ended", "abandoned", "freed", "freedEarly"}
CtxRec == [at : Places, outcome : Outcomes,
           kind : {"none", "wait", "nowait"}, n : 0..MaxCalls,
           decref : BOOLEAN, answer : 0..MaxCalls, event : BOOLEAN]

(* The main thread: where it is, the item in its hands, whether run_once() *)
(* has processed anything yet, and whether the last function returned.     *)
MainRec == [pc : {"user", "run", "finished", "errors", "printing",
                  "incoming", "popped", "uncounted", "got", "called",
                  "stored", "errbacks", "wait", "left", "trap"},
            item : Item \cup {NULL}, processed : BOOLEAN, ok : BOOLEAN]

CallItem(c) == [ctx |-> c, kind |-> ctx[c].kind, n |-> ctx[c].n]
EndItem(c, l) == [ctx |-> c, kind |-> l, n |-> 0]

Counters == {"pending", "inflight", "sync_wait_pending", "sync_wait_inflight",
             "sync_nowait_pending", "sync_nowait_inflight"}
Pending(kind) == IF kind = "wait" THEN "sync_wait_pending"
                                  ELSE "sync_nowait_pending"
Inflight(kind) == IF kind = "wait" THEN "sync_wait_inflight"
                                   ELSE "sync_nowait_inflight"

Init ==
    /\ lists = [l \in Lists |-> <<>>]
    /\ wakeup = FALSE
    /\ ctx = [c \in Contexts |->
                [at |-> IF c \in Works THEN "new" ELSE "idle",
                 outcome |-> "errors", kind |-> "none", n |-> 0,
                 decref |-> FALSE, answer |-> 0, event |-> FALSE]]
    /\ counts = [k \in Counters |-> 0]
    /\ main = [pc |-> "user", item |-> NULL, processed |-> FALSE, ok |-> TRUE]
    /\ rewound = {}

-----------------------------------------------------------------------------
(* The lists                                                               *)

Push(s, l, i) == [s EXCEPT ![l] = Cons(i, @)]

(* PxList_Transfer() of each item of the list l in turn, to px->finished.  *)
TransferAll(s, l) ==
    [s EXCEPT ![l] = <<>>, !["finished"] = Reverse(s[l]) \o @]

-----------------------------------------------------------------------------
(* The callbacks, on threads of the pool                                   *)

Goes(c, place) == ctx' = [ctx EXCEPT ![c].at = place]

(* The main thread is in submit_work() of a context, and does nothing else *)
(* until it returns.                                                       *)
Submitting == \E c \in Works : ctx[c].at = "submitting"

(* submit_work(), from the main thread, or from a function the main thread *)
(* was asked to call, counts the work, ...                                 *)
SubmitWork(c) ==
    /\ c \in Works /\ ctx[c].at = "new" /\ ~Submitting
    /\ main.pc \in {"user", "left", "got"}
    /\ counts' = [counts EXCEPT !["pending"] = @ + 1]
    /\ Goes(c, "submitting")
    /\ UNCHANGED <<lists, wakeup, main, rewound>>

(* ... and gives it to the pool, ...                                       *)
QueueWork(c) ==
    /\ ctx[c].at = "submitting"
    /\ Goes(c, "queued")
    /\ UNCHANGED <<lists, wakeup, counts, main, rewound>>

(* Mutant: work that is refused stays counted.                             *)
RefuseCounted(c) ==
    /\ ctx[c].at = "submitting"
    /\ Goes(c, "freed")
    /\ UNCHANGED <<lists, wakeup, counts, main, rewound>>

(* ... which may refuse it: then it is not counted any more, and freed.    *)
RefuseWork(c) ==
    /\ ctx[c].at = "submitting"
    /\ counts' = [counts EXCEPT !["pending"] = @ - 1]
    /\ Goes(c, "freed")
    /\ UNCHANGED <<lists, wakeup, main, rewound>>

(* _PyParallel_WorkCallback() starts on a thread of the pool: the work is  *)
(* not pending any more ...                                                *)
StartWork(c) ==
    /\ ctx[c].at = "queued"
    /\ counts' = [counts EXCEPT !["pending"] = @ - 1]
    /\ Goes(c, "starting")
    /\ UNCHANGED <<lists, wakeup, main, rewound>>

(* ... and then in flight.                                                 *)
CountWork(c) ==
    /\ ctx[c].at = "starting"
    /\ counts' = [counts EXCEPT !["inflight"] = @ + 1]
    /\ Goes(c, "running")
    /\ UNCHANGED <<lists, wakeup, main, rewound>>

(* PxSocket_IOLoop() calls a callback of the protocol, with the heap as it *)
(* was before the last one.                                                *)
StartCallback(c) ==
    /\ c \in Sockets /\ ctx[c].at = "idle"
    /\ ctx' = [ctx EXCEPT ![c] = [@ EXCEPT !.at = "running", !.kind = "none",
                                           !.n = 0, !.answer = 0]]
    /\ UNCHANGED <<lists, wakeup, counts, main, rewound>>

(* _call_from_main_thread() makes an item, and for a caller that waits     *)
(* c->decref; then its arguments may be refused, ...                       *)
RefuseCall(c) ==
    /\ ctx[c].at = "running" /\ ~ctx[c].decref
    /\ "wait" \in CallKinds
    /\ ctx' = [ctx EXCEPT ![c].decref = TRUE]
    /\ UNCHANGED <<lists, wakeup, counts, main, rewound>>

(* ... or the call is counted, ...                                         *)
MakeCall(c, kind) ==
    /\ ctx[c].at = "running" /\ ctx[c].n < MaxCalls
    /\ LET r == [ctx[c] EXCEPT !.at = "calling", !.kind = kind, !.n = @ + 1]
       IN  ctx' = [ctx EXCEPT ![c] =
                     IF kind = "wait" THEN [r EXCEPT !.decref = TRUE] ELSE r]
    /\ counts' = [counts EXCEPT ![Pending(kind)] = @ + 1]
    /\ UNCHANGED <<lists, wakeup, main, rewound>>

(* ... its item is pushed, ...                                             *)
PushCall(c) ==
    /\ ctx[c].at = "calling"
    /\ lists' = Push(lists, "incoming", CallItem(c))
    /\ Goes(c, "signallingCall")
    /\ UNCHANGED <<wakeup, counts, main, rewound>>

(* Mutant: only a caller that waits wakes the main thread.                 *)
SignalOnlyToWait(c) ==
    /\ ctx[c].at = "signallingCall"
    /\ wakeup' = (wakeup \/ ctx[c].kind = "wait")
    /\ Goes(c, IF ctx[c].kind = "wait" THEN "waiting" ELSE "running")
    /\ UNCHANGED <<lists, counts, main, rewound>>

(* ... and the main thread is woken.                                       *)
SignalCall(c) ==
    /\ ctx[c].at = "signallingCall"
    /\ wakeup' = TRUE
    /\ Goes(c, IF ctx[c].kind = "wait" THEN "waiting" ELSE "running")
    /\ UNCHANGED <<lists, counts, main, rewound>>

(* WaitForSingleObject(item->p4) returns, ...                              *)
Resume(c) ==
    /\ ctx[c].at = "waiting" /\ ctx[c].event
    /\ ctx' = [ctx EXCEPT ![c] = [@ EXCEPT !.at = "resumed", !.event = FALSE]]
    /\ UNCHANGED <<lists, wakeup, counts, main, rewound>>

(* ... and the call is not in flight any more.                             *)
UncountCall(c) ==
    /\ ctx[c].at = "resumed"
    /\ counts' = [counts EXCEPT !["sync_wait_inflight"] = @ - 1]
    /\ Goes(c, "running")
    /\ UNCHANGED <<lists, wakeup, main, rewound>>

(* The function, and the callback or the errback given with it, are done,  *)
(* with or without an error nobody handled.                                *)
EndWork(c, o) ==
    /\ c \in Works /\ ctx[c].at = "running"
    /\ ctx' = [ctx EXCEPT ![c] = [@ EXCEPT !.at = "reporting", !.outcome = o]]
    /\ counts' = [counts EXCEPT !["inflight"] = @ - 1]
    /\ UNCHANGED <<lists, wakeup, main, rewound>>

(* A callback of a socket raises, PxSocket_HandleException(), and there is *)
(* an exception_handler, which is content.  Nothing happens to the socket  *)
(* any more, not even a send or a receive.                                 *)
AbandonSocket(c) ==
    /\ c \in Sockets /\ ctx[c].at = "running"
    /\ Goes(c, "abandoned")
    /\ UNCHANGED <<lists, wakeup, counts, main, rewound>>

(* Or there is none, or it fails.                                          *)
FailCallback(c) ==
    /\ c \in Sockets /\ ctx[c].at = "running"
    /\ ctx' = [ctx EXCEPT ![c] =
                 [@ EXCEPT !.at = "reporting", !.outcome = "errors"]]
    /\ UNCHANGED <<lists, wakeup, counts, main, rewound>>

(* Mutant: a second report is made.                                        *)
ReportTwice(c) ==
    /\ ctx[c].at = "reporting"
    /\ lists' = Push(Push(lists, ctx[c].outcome, EndItem(c, ctx[c].outcome)),
                     "completed_callbacks", EndItem(c, "completed_callbacks"))
    /\ Goes(c, "signalling")
    /\ UNCHANGED <<wakeup, counts, main, rewound>>

Report(c) ==
    /\ ctx[c].at = "reporting"
    /\ lists' = Push(lists, ctx[c].outcome, EndItem(c, ctx[c].outcome))
    /\ Goes(c, "signalling")
    /\ UNCHANGED <<wakeup, counts, main, rewound>>

(* The end of the callback.  A socket may have been deallocated before it  *)
(* ("freedEarly"); what PxSocket_IOCallback() still does with it is in a  *)
(* __try whose __except takes any exception.                               *)
SignalMain(c) ==
    /\ ctx[c].at \in {"signalling", "freedEarly"}
    /\ wakeup' = TRUE
    /\ Goes(c, IF ctx[c].at = "signalling" THEN "ended" ELSE "freed")
    /\ UNCHANGED <<lists, counts, main, rewound>>

(* A callback of a socket returns, its result is sent and the heap is      *)
(* rewound.  If the main thread has yet to use an item that was there, no  *)
(* telling what it will do.                                                *)
EndCallback(c) ==
    /\ c \in Sockets /\ ctx[c].at = "running"
    /\ rewound' = {i \in ToSet(lists["incoming"]) \cup ({main.item} \ {NULL}) :
                      i.ctx = c}
    /\ main' = IF rewound' = {} THEN main ELSE [main EXCEPT !.pc = "trap"]
    /\ Goes(c, "idle")
    /\ UNCHANGED <<lists, wakeup, counts>>

-----------------------------------------------------------------------------
(* The main thread                                                         *)

MainGoes(pc) == main' = [main EXCEPT !.pc = pc]

Run ==
    /\ main.pc = "user" /\ ~Submitting
    /\ MainGoes("run")
    /\ UNCHANGED <<lists, wakeup, ctx, counts, rewound>>

(* run(): "while (px->num_contexts)".                                      *)
RunLoop ==
    /\ main.pc = "run"
    /\ main' = [main EXCEPT !.pc = IF Registered THEN "finished" ELSE "user",
                            !.processed = FALSE]
    /\ UNCHANGED <<lists, wakeup, ctx, counts, rewound>>

(* After run() has passed on an exception the program may call it again.   *)
RunAgain ==
    /\ main.pc = "left" /\ ~Submitting
    /\ MainGoes("run")
    /\ UNCHANGED <<lists, wakeup, ctx, counts, rewound>>

(* Ctrl-C, which run_once() looks for on entry and at "start".             *)
Interrupt ==
    /\ main.pc \in {"finished", "errors"}
    /\ MainGoes("left")
    /\ UNCHANGED <<lists, wakeup, ctx, counts, rewound>>

(* The finished contexts: a socket is deallocated, and a context without   *)
(* io_obj, which is what submit_work() makes, is a __debugbreak().         *)
FlushFinished ==
    /\ main.pc = "finished"
    /\ LET cs == {i.ctx : i \in ToSet(lists["finished"])}
       IN  /\ main' = [main EXCEPT
                !.pc = IF cs \cap Works = {} THEN "errors" ELSE "trap",
                !.processed = cs # {}]
           /\ ctx' = [c \in Contexts |->
                IF c \in cs \cap Sockets
                THEN [ctx[c] EXCEPT !.at =
                        IF @ = "signalling" THEN "freedEarly" ELSE "freed"]
                ELSE ctx[c]]
    /\ lists' = [lists EXCEPT !["finished"] = <<>>]
    /\ UNCHANGED <<wakeup, counts, rewound>>

(* Uncaught errors: the main thread takes what there is, ...               *)
FlushErrors ==
    /\ main.pc = "errors"
    /\ lists' = [lists EXCEPT !["errors"] = <<>>,
                             !["taken"] = lists["errors"]]
    /\ MainGoes(IF lists["errors"] = <<>> THEN "incoming" ELSE "printing")
    /\ UNCHANGED <<wakeup, ctx, counts, rewound>>

(* Mutant: the context of a failed socket is not completed.                *)
UnlinkOnly(s, c) == s

(* PxSocketServer_UnlinkChild() of a failed socket completes its context.  *)
Unlink(s, c) ==
    Push(s, "completed_callbacks", EndItem(c, "completed_callbacks"))

(* ... prints one after the other, and is done with work, and unlinks a    *)
(* socket, whose context it will come across again.                        *)
PrintError ==
    /\ main.pc = "printing"
    /\ LET i == Head(lists["taken"])
           rest == [lists EXCEPT !["taken"] = Tail(@)]
       IN  /\ \/ /\ i.ctx \in Works
                 /\ lists' = Push(rest, "finished", i)
                 /\ UNCHANGED wakeup
              \/ /\ i.ctx \in Sockets
                 /\ lists' = Unlink(rest, i.ctx)
                 /\ wakeup' = TRUE
           /\ MainGoes(IF rest["taken"] = <<>> THEN "incoming" ELSE "printing")
    /\ UNCHANGED <<ctx, counts, rewound>>

(* A call to make is popped, ...                                           *)
PopIncoming ==
    /\ main.pc = "incoming" /\ lists["incoming"] # <<>>
    /\ main' = [main EXCEPT !.pc = "popped", !.item = Head(lists["incoming"])]
    /\ lists' = [lists EXCEPT !["incoming"] = Tail(@)]
    /\ UNCHANGED <<wakeup, ctx, counts, rewound>>

(* ... is not pending any more, ...                                        *)
UncountPending ==
    /\ main.pc = "popped"
    /\ counts' = [counts EXCEPT ![Pending(main.item.kind)] = @ - 1]
    /\ MainGoes("uncounted")
    /\ UNCHANGED <<lists, wakeup, ctx, rewound>>

(* ... is in flight, ...                                                   *)
CountInflight ==
    /\ main.pc = "uncounted"
    /\ counts' = [counts EXCEPT ![Inflight(main.item.kind)] = @ + 1]
    /\ MainGoes("got")
    /\ UNCHANGED <<lists, wakeup, ctx, rewound>>

(* ... and its function is called.                                         *)
CallFunction(ok) ==
    /\ main.pc = "got" /\ ~Submitting
    /\ main' = [main EXCEPT !.pc = "called", !.ok = ok, !.processed = TRUE]
    /\ UNCHANGED <<lists, wakeup, ctx, counts, rewound>>

(* Mutant: the caller is woken before its result is there.                 *)
StoreAndWake ==
    /\ main.pc = "called" /\ main.item.kind = "wait"
    /\ ctx' = [ctx EXCEPT ![main.item.ctx].event = TRUE]
    /\ MainGoes("stored")
    /\ UNCHANGED <<lists, wakeup, counts, rewound>>

(* The result, or the exception, is stored for a caller that waits, ...    *)
StoreResult ==
    /\ main.pc = "called" /\ main.item.kind = "wait"
    /\ ctx' = [ctx EXCEPT ![main.item.ctx] =
                 [@ EXCEPT !.answer = main.item.n, !.decref = FALSE]]
    /\ MainGoes("stored")
    /\ UNCHANGED <<lists, wakeup, counts, rewound>>

(* Mutant: a caller whose function raised is not woken.                    *)
WakeIfDone ==
    /\ main.pc = "stored"
    /\ ctx' = [ctx EXCEPT ![main.item.ctx].event = main.ok]
    /\ main' = [main EXCEPT !.pc = "incoming", !.item = NULL]
    /\ UNCHANGED <<lists, wakeup, counts, rewound>>

(* ... and only then is the caller woken.                                  *)
WakeCaller ==
    /\ main.pc = "stored"
    /\ ctx' = [ctx EXCEPT ![main.item.ctx].event = TRUE]
    /\ main' = [main EXCEPT !.pc = "incoming", !.item = NULL]
    /\ UNCHANGED <<lists, wakeup, counts, rewound>>

(* Mutant: the call in flight is not uncounted.                            *)
DropUncounted ==
    /\ main.pc = "called" /\ main.item.kind = "nowait"
    /\ main' = [main EXCEPT !.item = NULL,
          !.pc = IF ~main.ok /\ main.item.ctx \in Works THEN "left"
                                                        ELSE "incoming"]
    /\ UNCHANGED <<lists, wakeup, ctx, counts, rewound>>

(* Mutant: the counter of the other kind of call is used.                  *)
DropMiscounted ==
    /\ main.pc = "called" /\ main.item.kind = "nowait"
    /\ counts' = [counts EXCEPT !["sync_wait_inflight"] = @ - 1]
    /\ main' = [main EXCEPT !.item = NULL,
          !.pc = IF ~main.ok /\ main.item.ctx \in Works THEN "left"
                                                        ELSE "incoming"]
    /\ UNCHANGED <<lists, wakeup, ctx, rewound>>

(* An exception nobody waits for leaves run_once() if it is work's.        *)
DropResult ==
    /\ main.pc = "called" /\ main.item.kind = "nowait"
    /\ counts' = [counts EXCEPT !["sync_nowait_inflight"] = @ - 1]
    /\ main' = [main EXCEPT !.item = NULL,
          !.pc = IF ~main.ok /\ main.item.ctx \in Works THEN "left"
                                                        ELSE "incoming"]
    /\ UNCHANGED <<lists, wakeup, ctx, rewound>>

(* Mutant: calls may be left for the next time.                            *)
FlushEarly ==
    /\ main.pc = "incoming"
    /\ lists' = TransferAll(lists, "completed_callbacks")
    /\ main' = [main EXCEPT !.pc = "errbacks",
                  !.processed = @ \/ lists["completed_callbacks"] # <<>>]
    /\ UNCHANGED <<wakeup, ctx, counts, rewound>>

(* No more calls: the two lists of completed contexts.                     *)
FlushCallbacks ==
    /\ main.pc = "incoming" /\ lists["incoming"] = <<>>
    /\ lists' = TransferAll(lists, "completed_callbacks")
    /\ main' = [main EXCEPT !.pc = "errbacks",
                  !.processed = @ \/ lists["completed_callbacks"] # <<>>]
    /\ UNCHANGED <<wakeup, ctx, counts, rewound>>

(* run_once() waits only if it has done nothing.                           *)
FlushErrbacks ==
    /\ main.pc = "errbacks"
    /\ lists' = TransferAll(lists, "completed_errbacks")
    /\ MainGoes(IF main.processed \/ lists["completed_errbacks"] # <<>>
                THEN "run" ELSE "wait")
    /\ UNCHANGED <<wakeup, ctx, counts, rewound>>

Woken ==
    /\ main.pc = "wait" /\ wakeup
    /\ wakeup' = FALSE
    /\ MainGoes("errors")
    /\ UNCHANGED <<lists, ctx, counts, rewound>>

(* WAIT_TIMEOUT, after 500 ms.                                             *)
TimedOut ==
    /\ main.pc = "wait"
    /\ MainGoes("run")
    /\ UNCHANGED <<lists, wakeup, ctx, counts, rewound>>

-----------------------------------------------------------------------------

Running == main.pc # "trap"

CallbackStep(c) ==
    /\ Running
    /\ \/ StartWork(c) \/ CountWork(c)
       \/ \E kind \in CallKinds : MakeCall(c, kind)
       \/ PushCall(c) \/ SignalCall(c)
       \/ Resume(c) \/ UncountCall(c)
       \/ \E o \in Outcomes : EndWork(c, o)
       \/ EndCallback(c)
       \/ Report(c) \/ SignalMain(c)

SubmitStep(c) == Running /\ (QueueWork(c) \/ RefuseWork(c))

MainStep ==
    \/ RunLoop \/ FlushFinished \/ FlushErrors \/ PrintError
    \/ PopIncoming \/ UncountPending \/ CountInflight
    \/ \E ok \in BOOLEAN : CallFunction(ok)
    \/ StoreResult \/ WakeCaller \/ DropResult
    \/ FlushCallbacks \/ FlushErrbacks \/ Woken \/ TimedOut

(* What nobody has to do: submit work, send a socket more data, make a     *)
(* call the wrong way, raise, call run(), press Ctrl-C.                    *)
Choice ==
    /\ Running
    /\ \/ \E c \in Contexts : \/ SubmitWork(c) \/ StartCallback(c)
                              \/ RefuseCall(c) \/ FailCallback(c)
                              \/ AbandonSocket(c)
       \/ Run \/ RunAgain \/ Interrupt

Next ==
    \/ MainStep \/ Choice
    \/ \E c \in Contexts : CallbackStep(c) \/ SubmitStep(c)

Spec == Init /\ [][Next]_vars

(* run() goes on, and so do the threads of the pool, which the system      *)
(* schedules; submit_work(), the functions and the callbacks return.       *)
Fairness ==
    /\ WF_vars(MainStep)
    /\ \A c \in Contexts : WF_vars(CallbackStep(c)) /\ WF_vars(SubmitStep(c))

FairSpec == Spec /\ Fairness

-----------------------------------------------------------------------------
(* Properties                                                              *)

(* The types of the variables.                                             *)
TypeOK ==
    /\ lists \in [Lists -> Seq(Item)]
    /\ wakeup \in BOOLEAN
    /\ ctx \in [Contexts -> CtxRec]
    /\ counts \in [Counters -> Nat]
    /\ main \in MainRec
    /\ rewound \subseteq Item

(* Where an item is: the positions it has on the lists, and the hands of   *)
(* the main thread.                                                        *)
Positions(i) ==
    (UNION {{<<l, k>> : k \in {j \in DOMAIN lists[l] : lists[l][j] = i}} :
              l \in Lists})
      \cup (IF main.item = i THEN {<<"main", 0>>} ELSE {})
Once(items) == Cardinality(UNION {Positions(i) : i \in items}) = 1

(* No report is lost and none is made twice: from the moment a context has *)
(* reported its end until the main thread disposes of it, exactly one item *)
(* of the three it has for that is on exactly one list.                    *)
EndReportedOnce == Running => \A c \in Contexts :
    LET ends == {EndItem(c, o) : o \in Outcomes}
    IN  IF ctx[c].at \in {"signalling", "ended"}
        THEN Once(ends)
        ELSE \A i \in ends : Positions(i) = {}

(* A caller that waits will be woken by the right result: its item is on   *)
(* px->incoming or in the main thread's hands, or its event is set, one of *)
(* the three, and in the last case the result is that of this call.        *)
WaiterServed == Running => \A c \in Contexts :
    /\ ctx[c].at = "waiting" => (Once({CallItem(c)}) <=> ~ctx[c].event)
    /\ ctx[c].event => /\ ctx[c].at \in {"signallingCall", "waiting"}
                       /\ ctx[c].answer = ctx[c].n
                       /\ Positions(CallItem(c)) = {}

(* The main thread waits with something to do only if px->wakeup is set or *)
(* about to be.                                                            *)
NoLostWakeup ==
    /\ main.pc = "wait"
    /\ \E l \in Lists \ {"finished"} : lists[l] # <<>>
    => wakeup \/ \E c \in Contexts :
                   ctx[c].at \in {"signalling", "signallingCall"}

(* The counters say what they are named for, between any two of their      *)
(* changes: work is pending from the call of submit_work() to the first    *)
(* statement of its callback, and in flight from the second to its end.    *)
(* So is a call to the main thread, from before its item is pushed until   *)
(* the main thread, or the caller that waited, is through with it.         *)
Calls(kind) == Cardinality({i \in ToSet(lists["incoming"]) : i.kind = kind})
Where(places) == {c \in Contexts : ctx[c].at \in places}
HasItem(kind, pcs) == IF main.pc \in pcs /\ main.item.kind = kind THEN 1 ELSE 0
InFlight == {"got", "called", "stored"}
CountersAgree == Running =>
    /\ counts["pending"] = Cardinality(Where({"submitting", "queued"}))
    /\ counts["inflight"] = Cardinality(Works \cap
         Where({"running", "calling", "signallingCall", "waiting", "resumed"}))
    /\ \A kind \in {"wait", "nowait"} :
         counts[Pending(kind)] = Calls(kind) + HasItem(kind, {"popped"}) +
            Cardinality({c \in Where({"calling"}) : ctx[c].kind = kind})
    /\ counts["sync_nowait_inflight"] = HasItem("nowait", InFlight)
    /\ counts["sync_wait_inflight"] = HasItem("wait", InFlight) +
         Cardinality({c \in Contexts : ctx[c].event \/ ctx[c].at = "resumed"})

(* A socket is deallocated, and its context with the memory of its items,  *)
(* when no list and no one else has an item of it any more.                *)
NoFreedItem == Running => \A c \in Where({"freed", "freedEarly"}) :
    \A i \in (UNION {ToSet(lists[l]) : l \in Lists})
               \cup ({main.item} \ {NULL}) : i.ctx # c

(* The end of a callback never takes the item of a call it waited for from *)
(* under the main thread: when the caller goes on, the main thread has no  *)
(* more use for the item.                                                  *)
WaitedItemsLast == \A i \in rewound : i.kind # "wait"

(* What the items of the lists are for: who waits is served, and no item   *)
(* is used when its memory is gone.                                        *)
ItemsSound == TypeOK /\ WaiterServed /\ NoFreedItem /\ WaitedItemsLast

(* A caller that waits is resumed, if only the main thread is not kept in  *)
(* its loop over px->incoming for ever by newer calls: the list is last    *)
(* in, first out.                                                          *)
Handles == {"incoming", "popped", "uncounted"} \cup InFlight
LoopEnds == []<>(main.pc \notin Handles)
Gone == main.pc \in {"left", "trap", "user"}
WaitersResume == LoopEnds => \A c \in Contexts :
    ctx[c].at = "waiting" ~> ctx[c].at # "waiting" \/ Gone

(* Under the same condition work whose end was reported gets to            *)
(* px->finished, and a socket that failed is deallocated.                  *)
EndsAreProcessed == LoopEnds => \A c \in Contexts :
    ctx[c].at = "ended" ~> \/ Gone \/ ctx[c].at \in {"freed", "freedEarly"}
                           \/ \E i \in ToSet(lists["finished"]) :
                                i.ctx = c /\ c \in Works

(* Nobody who has something on a list is left behind.                      *)
AllServed == WaitersResume /\ EndsAreProcessed

(* What becomes of the call of a callback that waits.  When the main       *)
(* thread has stopped at a __debugbreak() the call in its hands stays.     *)
Phase(c) ==
    IF ~(ctx[c].kind = "wait"
         /\ ctx[c].at \in {"calling", "signallingCall", "waiting"})
    THEN "none"
    ELSE IF ctx[c].event THEN "answered"
    ELSE IF main.item = CallItem(c) /\ main.pc \in {"called", "stored", "trap"}
    THEN "called"
    ELSE "asked"

Call == INSTANCE PxCall
        WITH Callers <- Contexts, phase <- [c \in Contexts |-> Phase(c)]

(* The lists, the event and the loop of the main thread implement a call   *)
(* that is made once, alone, and answered when it is over.                 *)
CallSpec == Call!Spec

-----------------------------------------------------------------------------
(* What tests, comments and assertions of the source say and the code does *)
(* not do                                                                  *)

(* "if (!c->io_obj) ... __debugbreak()" (_async_run_once): every context   *)
(* on px->finished has an io_obj, which those of submit_work() lack.       *)
FinishedHasObject == \A i \in ToSet(lists["finished"]) : i.ctx \in Sockets

(* "async.run(); self.assertEqual(async.active_contexts(), 0)"             *)
(* (test_primitives.py): when run() returns, the work is done.             *)
NoWorkLeft ==
    [][main.pc = "run" /\ main'.pc = "user" =>
         Where({"queued", "starting", "running", "calling", "waiting"})
           = {}]_vars

(* "assert(c->decref == NULL)" (_call_from_main_thread): no call is made   *)
(* while c->decref is still set from an earlier one.                       *)
DecrefFree == \A c \in Contexts : ctx[c].at = "running" => ~ctx[c].decref

(* "The parallel environment knows how to avoid disturbing the former"     *)
(* (README.md, of the main thread): what a callback has given the main     *)
(* thread to do is not taken back before it is done.                       *)
CallsOutlive == rewound = {}

=============================================================================
