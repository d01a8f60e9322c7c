# PyParallel in TLA+

Specifications of the parts of PyParallel that are PyParallel's own: what
`src/Python/pyparallel.c` and its neighbours add to CPython 3.3.5 so that
callbacks run in parallel on threads of the Windows thread pool while the main
thread, which holds the GIL, runs `_async_run_once()`. They are TLA+ modules
checked by TLC on small instances, and theorems about eight parts, the memory of
a context, the GIL, timers, threads, the run loop, the I/O loop of a socket, the
server and the attributes of shared objects, that TLAPS has checked for every value of the constants.

    tlc -config PxHeapRuns.cfg PxHeap         # any run: the config and its module
    tlapm PxHeapProofs.tla                    # the proofs
    tlapm PyGilProofs.tla
    tlapm PxTimerProofs.tla
    tlapm PxThreadProofs.tla
    tlapm PxRunLoopProofs.tla
    tlapm PxSocketIOProofs.tla
    tlapm PxServerProofs.tla
    tlapm PxAttrProofs.tla

`PROJECT.json` holds the same information for tools: the parts, the runs, the
mutants (a plausible bug for each property, with which TLC finds the property
violated), the lines of the source each definition stands for, the hazards and
the theorems.

## 1. The system

A *context* is the memory and the bookkeeping of one piece of parallel work:
work submitted with `submit_work()`, a socket, a timer, a thread. Its callbacks
run on threads of the pool; they may only read objects of the main thread, and
everything they allocate comes from the context's own heap, which is rewound
when the callback ends. They reach the main thread by pushing items onto the
lists of the one `PxState` (`px`) and setting `px->wakeup`.

| part | state | operations | talks to |
|---|---|---|---|
| context heap: `_PyHeap_*`, `_PxContext_Rewind()`, `PxContext_*Heap*()`, `PxSocket_*Startup*()` | a chain of `Heap`s, `c->h`, registered objects, `c->s`, the startup snapshot of a socket | allocate, create and register objects, take, update and roll back a snapshot, recycle | every callback |
| run loop: `_async_run_once()`, `_call_from_main_thread()`, `submit_work()` and its callback, `PxList` | `px->incoming`, `completed_callbacks`, `completed_errbacks`, `errors`, `finished`, `px->wakeup`, `*_pending` and `*_inflight` counters, `c->decref` | submit, call, push, pop, wait, process | all callbacks |
| timers: `pxtimerobject.c` | the pool's timer, `t->flags`, three once-callbacks, `t->cs`, two heaps that take turns with `t->count`, two snapshots, `t->data` | `start()`, `stop()`, `shutdown()`, the period, `data`, the pool's callback, the shutdown work | run loop, heap |
| socket I/O: `PxSocket_IOLoop()` and the callbacks that enter it | per socket: the operation under way and the last and next one, `was_*` flags, receive and send buffers, snapshots, `c->error`, the protocol | accept, connect, resolve, send, receive, send a file, wait for the rate limit, disconnect, recycle | heap, run loop, server, peer |
| socket server: `PxSocketServer_Start()` and its helpers | six wait handles, `accepts_posted`, `accepts_sem`, the list of children with `children_cs`, shutdown flags | post accepts, create, link, recycle, retire and unlink children, top up, react to memory, shut down | socket I/O, run loop, clients |
| threads: `pxthreadobject.c` | a thread and its suspend count, two once-callbacks, an event, two heaps that take turns with `t->count`, `t->data` | `start()`, `suspend()`, `resume()`, `shutdown()`, `func`, `interval`, `data`, the rounds of the thread, the shutdown work | run loop, heap |
| the GIL and thread identity: `ceval_gil.h`, `condvar.h`, parts of `ceval.c` | `gil_locked`, the last holder, two condition variables made of semaphores, `gil_drop_request`, `eval_breaker`, the ring of pending calls, `Py_MainThreadId` | take, drop, request, add and make pending calls | everything |
| attributes of main-thread objects: `_PyObject_GenericSetAttr()`, heap overrides | `heap_override` of each pool thread, `s->heap_override`, the flag that schedules a snapshot update | assign, enable and disable an override | heap, socket I/O |
| TLS heap | one heap per thread | allocate, rewind | nothing but `thread_seq_id` |
| protected objects, locks, events | an `SRWLOCK` or event per object | one Windows call each | main thread and callbacks |
| persistence, asynchronous file I/O, Python packages (`async`, `parallel`, `px`), CPython, vendored packages | see `PROJECT.json` | | |

What makes each part correct, and what is hard about it:

* **Context heap.** Blocks in use never overlap and stay within their heap; a
  rewind restores exactly what the snapshot saw and leaves every later heap as
  a reset does, because the allocator walks into it again without initialising
  it; every object whose type asked for it is finalized once, by the rewind
  that drops it. Hard: the current heap may change inside one call; snapshots
  nest (startup under callback); the accounting uses unsigned subtraction at
  the exact end of a heap; `HeapAlloc()` may fail half-way.
* **Run loop.** No report is lost or processed twice, a caller that waits is
  woken with the result of its own call, the main thread never sleeps with work
  in hand, and no item is used after its context is freed. Hard: the items lie
  in the memory of the contexts that report; a push and the signal after it
  are two steps; three parties take part in a waiting call; an error leaves
  the loop early.
* **Timers.** The two heaps never clash however callbacks overlap; `t->data`
  stays valid until it is replaced; a shutdown waits for every callback and
  ends. Hard: one callback may be queued behind another, a late one gives up
  on the lock, flags are tested outside it and changed without an atomic
  operation, references are taken at the transition from parallel object to
  ordinary one.
* **Socket I/O.** The protocol gets what the peer sent, in order and all of it;
  replies go out once and in order; the memory of a callback is given back
  before the next; a recycled socket knows nothing of its last connection; a
  peer that goes away is let go of. Hard: every operation completes at once,
  later, or with an error, each with cleanup of its own; a 2 000-line function
  of gotos; fields that outlive the rewind of what they point to.
* **Socket server.** Clients are accepted, the number of posted accepts is kept
  up, children are unlinked and freed only when nobody uses them, and a
  shutdown takes place. Hard: the server's thread, the pool and the main
  thread share the list and the counters; an event is reset after the work it
  asked for was submitted; the children's locks and the list's are taken in
  different orders.

* **Threads.** The same two heaps as a timer's, on a thread that the program
  may suspend between any two steps; a shutdown is heard. Hard: the event that
  tells it is auto-reset, the function may be replaced while it is needed, an
  exception is seen only by the run loop.
* **GIL.** One thread runs Python code, and `Py_MainThreadId`, with which every
  allocation decides whether it is parallel, is that thread's; a wakeup is never
  lost; who wants the lock gets it; pending calls are made. Hard: condition
  variables made of a semaphore and a count, where a timeout races with a
  signal; `eval_breaker` is computed from flags that others set meanwhile.
* **Attributes.** The clients of a server share one protocol object of the main
  thread; what a callback assigns to it must not lie in memory that a rewind
  takes. Hard: the memory belongs to the socket, whose life is not the
  object's; the override belongs to the thread, which then runs the callbacks
  of other sockets.

The hazards, each at the line where it bites and with the properties that
watch it, are listed in `PROJECT.json`.

## 2. The modules

| module | models | state | one action per |
|---|---|---|---|
| `PxHeap` | the context heap | `mem` (heaps, `c->h`, live blocks), `ctxSnap`, `startup`, `busy`, `calls` | allocator or snapshot function |
| `PxRegion` | what the heap promises: a region | `live`, `objects`, `saved`, `base`, `busy`, `calls` | abstract operation |
| `PxHeapProofs` | theorems, also that the heap is a region | | |
| `PxCall` | what a waiting call to the main thread promises | `phase` | phase of a call |
| `PxRunLoop` | run loop, work callbacks, calls; implements `PxCall` | `lists`, `wakeup`, `ctx`, `counts`, `main`, `rewound` | step of the main thread or a callback between two accesses to shared state |
| `PxTimer` | timers | `flags`, `once`, `tp`, `cb`, `cs`, `group`, `snap`, `count`, `data`, `work`, `lists`, `refs`, ... | the same |
| `PxConnection` | what a connection is to the protocol and the peer | `phase`, `sent`, `made`, `handed`, `said`, `got`, ... | abstract operation |
| `PxSocketIO`, `MCPxSocketIO` | one socket, its peer and its protocol; implements `PxConnection` | `pc` (the label of the loop), `sock`, `mem`, `conn`, `proto` | label and outcome, completion, act of the peer |
| `PxServer` | the server and its children | `srv`, `net`, `ev`, `work`, `child`, `live`, `links`, `counts`, `stop`, `shut`, `main`, `memory` | step between two accesses to shared state |
| `PxThread` | threads | `pc`, `susp`, `group`, `snap`, `count`, `data`, `event`, `work`, ... | step between two accesses to shared state |
| `PyGil` | the GIL, its condition variables, pending calls | `pc`, `locked`, `holder`, `cond`, `request`, `breaker`, `slots`, `first`, `last`, `mainId`, ... | step between two accesses to shared state |
| `PyGilProofs`, `PxTimerProofs`, `PxThreadProofs`, `PxRunLoopProofs`, `PxSocketIOProofs`, `PxServerProofs`, `PxAttrProofs` | theorems | | |
| `PxAttr`, `MCPxAttr` | assigned attributes and heap overrides | `override`, `mem`, `attr`, `pc`, `runs`, ... | callback's beginning and end, assignment, override call, end of a connection |

**`PxHeap`.** A size is a number of 8-byte words. A block is the extent
`[heap, at, len]`, header included. `Malloc`, `NewObject`, `InitObject`,
`Free`, `HeapSnapshot`, `UpdateHeapSnapshot`, `RollbackHeap`,
`TakeStartupSnapshot`, `UpdateStartupSnapshot` and `Reuse` are the functions of
those names (`_PyHeap_Malloc()`, `PxContext_HeapSnapshot()`, ...), each a whole
call: one thread uses a context at a time. `Padding` and `Drift` are the
padding loop of `_PyHeap_Malloc()`; `InitSize` and `NewHeapSize` the two
roundings; `Restored` what `_PxContext_Rewind()` leaves. `__debugbreak()` is
`mem.trap`, after which nothing happens. `smashed` marks blocks whose size
header another structure has overwritten. Left out: alignments of 32 and more
(no caller passes one), the wrap of `num_px_deallocs` (a short), and freeing the whole heap with its
context.

**`PxRegion`** knows no heaps, only sets of blocks: they are added, leave all
together, and the ones to be finalized are finalized when they leave.
`RegionSpec` in `PxHeap` is the refinement.

**`PxRunLoop`.** A context is in one of the places of `Places`; its end is
reported on one of three lists, and a call's item goes from `lists["incoming"]`
through the main thread's hands (`main.item`) to the waiting caller's event.
`lists["taken"]` is what `_async_run_once()` has flushed from `px->errors` and
has yet to print (`PrintError`, one at a time).
`MainStep` is `run()` and `_async_run_once()`, in its order: finished, errors,
incoming, errbacks, wait. `CallbackStep` is the pool's thread: run, call (with
or without waiting, with an argument check that may fail), push, signal, wait,
end. A counter is changed by an interlocked operation, which is a step of its
own: the place `"starting"` of a context is between the two of
`_PyParallel_WorkCallback()`, `main.pc` goes from `"popped"` by `"uncounted"` to
`"got"` around those of a call, and `"resumed"` is before that of a caller that
has waited. `SubmitWork` counts the work, `QueueWork` gives it to the pool and
`RefuseWork` is the error path of `submit_work()`; until one of the two has
happened the main thread does nothing else (`Submitting`). The interlocked list is a sequence whose front is the last push. `CallSpec`
is the refinement: a waiting call, seen through `Phase`, is asked, made once and
alone, answered and only then resumed. Left out: `submit_work()` called
by a callback, which runs the work on the spot, `submit_wait()`, which stops
the process when it is called, `submit_timer()`, which does nothing, and the
write-io lists, which nothing reaches (section 5).

**`PxTimer`.** `start`, `stop` and `shutdown` are taken apart at the points
where another thread can come in: the flags, the once-callback, the setting of
the pool's timer. Changing `t->flags` is a read and a write, and
`CallbackFlags` lets a change be lost to a concurrent one. A callback goes
entered, (trying), locked, running, stored, ending. `RunOnce` is the run
loop's part: errors and completion.

**`PxSocketIO`.** `pc` is the next label of `PxSocket_IOLoop()`; an action is
one path from label to label, "waiting" when an operation is under way. The
loop runs with `s->cs` held, so only the peer interleaves with it. A *protocol*
is a record: the callbacks it has, what each may return, and what may go wrong.
`mem.held` tells which field points to the context's snapshot, `mem.sb` whether
`s->sbuf` still points to live memory. It is the build users run: `assert()`
and `Py_DEBUG` code are not there. `Connection` maps the state to that of
`PxConnection`, which knows neither labels nor operations nor memory: a chunk is
handed over only when the peer has every reply given before, a reply follows a
call, and the end of a connection leaves nothing behind. Left out: `lines_received()` and UDP (not
implemented), asynchronous calls from a callback, partial synchronous sends,
formatting of HTTP, and the server's counters.

**`PxServer`.** `srv.at` is where `PxSocketServer_Start()` is; a child is in
one of the places of `Where`, split where another thread can intervene: between
`AcceptEx()` and the increment of `accepts_posted`, between the copy of the
socket and its restoration under `children_cs`, between the test for the
shutdown and the lock. `links` holds the two pointers of every `LIST_ENTRY`, so
that the unlinking and the checks of `CheckListEntry()` do what the code does
to a list two threads disagree on; a failed check is `stop.trap`. The kernel's
side of accepting (a client goes to a posted accept or waits, `FD_ACCEPT` is
signalled and re-armed by `AcceptEx()`) is external. Left out: a `Start()` that
fails before it waits, counters that are only shown, writes through the links
of a freed child, slowloris protection (commented out in the source).

**`PxThread`.** `pc` is where `PxThread_Main()` is; every step of the thread
needs a suspend count of 0, so `suspend()` may stop it anywhere, inside the lock
of its data too. `resume()` uses the same once-callback as `start()`, so it
never resumes a thread that was started. `SetFunc` and `StoreFunc` are the two
halves of a change of `func`: the old one is released before the new one is
stored. A `ResumeThread()` that fails (`StartFails`) leaves `start()` to be
called again. The shutdown work signals the event, waits for the thread and calls
`PxThread_UpdateTimes()`, which stops the process on any thread but the thread
itself, so nothing after it is modelled. Left out: the scheduling class
(multimedia characteristics), iterators as results (a `__debugbreak()`), and
what a function does that is freed while it runs (`misused` records that the
program has gone that way).

**`PyGil`.** `pc` of a thread follows `take_gil()` and `drop_gil()` from one
access to shared state to the next. `cond` is `PyCOND_T` as `condvar.h` emulates
it: a semaphore and a count, with `GiveUp` for a wait that times out and only
later gets the mutex back to say so. `COMPUTE_EVAL_BREAKER()` is taken apart into
its loads (`computed`) and its store (`StoreBreaker`). `gil_switch_number` and
the copies threads keep of it are the set `switched` of threads that have seen
it change. Each call of `Py_AddPendingCall()` is an actor of its own, since any
thread may make one without the GIL. A thread in `has` runs bytecode; whether a
step of it finds `eval_breaker` set is a choice (`Check`, `MakePendingCalls`),
and the request of another thread is looked at after that, without a second look
at `eval_breaker` (`Yield`, `CarryOn`). The ring is an array with two indexes
that wrap (`slots`, `first`, `last`). `take_gil()` notes the id of the thread
(`NoteId`) before it stores `gil_locked` (`TakeGil`). Left out: asynchronous
exceptions, `fork()`, the end of the interpreter (`_Py_Finalizing` is never set
in this build), and `_PyParallel_AcquireGIL()`, which begins with a
`__debugbreak()`.

**`PxAttr`.** A position in a context's heap stands for all that was allocated
up to there. An assignment is `BeginCopy` (the override is set and the value
copied to the socket's own heap) and `SetCopy`, `CopyFails`, or `SetWhole` for a
type that is not copied; `CreateFails` is a copy for which no heap can be made; other sockets run in between. `attr` says where the
value lies, `lost` how its memory went, and `till` how long the code means it to
last, which is a bookkeeping of the model. What rewinds, `PxSocket_Reuse()`, retirement and
`pxsocket_dealloc()` do to that memory is `Lose`. Left out: the dictionary of
the instance as an object of its own (the first assignment makes it, in the
memory of whoever assigns first), two threads in it at a time (the locks that
should prevent it are commented out), timers and threads (the assignment is a
`__debugbreak()`), the answer 500 of `http11`.

**Composition.** The modules meet at narrow interfaces, and each stands in for
its neighbours by their interface: `PxSocketIO` sees the heap as "who holds the
snapshot" and leaves to `PxServer` what comes before accept and after recycle;
`PxServer` sees a connection as accepted, then ended or failed; `PxRunLoop`
sees a socket as a context whose callbacks recur, call and fail. `PxHeap`
implements `PxRegion`, `PxRunLoop` implements `PxCall`, and `PxSocketIO`
implements `PxConnection`. A module composing sockets with the run loop is planned.

## 3. The runs

Deadlock is not checked in any run: a program may stop (it has ended, every
bound is used up, or a `__debugbreak()` has stopped it).

| run | module, config | asks |
|---|---|---|
| `heap_runs` | `PxHeap`, `PxHeapRuns` | do the accounting, the separation of blocks, the state of heaps ahead and the snapshots hold through any legal sequence of calls; is the heap a region, is every object finalized once? |
| `loop_calls` | `PxRunLoop`, `PxRunLoopCalls` | are reports, calls, counters and wake-ups right in every interleaving; does a waiting caller resume with its item intact, is a reported end processed, is a call what `PxCall` promises? |
| `timer_runs` | `PxTimer`, `PxTimerRuns` | do two callbacks at a time keep the heaps, the data and the deallocation safe, whenever the program lets go, and how often may a stopped timer still run? |
| `timer_live` | `PxTimer`, `PxTimerLive` | does a shutdown end, and not before the callbacks, does an exception shut the timer down? |
| `io_sound` | `MCPxSocketIO`, `PxSocketIORuns` | order, answers, memory, progress for twelve protocols; is a connection what `PxConnection` says? |
| `server_accepts` | `PxServer`, `PxServerAccepts` | are accepts counted and kept up, are clients accepted? |
| `server_stops` | `PxServer`, `PxServerStops` | does a shutdown event lead to a shutdown, and is nothing created after it? |
| `server_trap` | `PxServer`, `PxServerTrap` | the list of children passes its checks: **violated** |
| `gil_switch` | `PyGil`, `PyGilSwitch` | is one thread inside, is no waiter lost or miscounted, does a holder yield, is a free lock taken, does `drop_gil()` return? |
| `gil_calls` | `PyGil`, `PyGilCalls` | are pending calls kept, signalled and made? |
| `thread_runs` | `PxThread`, `PxThreadRuns` | do the heaps take turns and the data stay wherever the thread is suspended; is a shutdown heard, does an error cause one? |
| `attr_runs` | `MCPxAttr`, `PxAttrRuns` | does what was assigned live as long as the code means it to, and is every override removed? |

Several properties of a run are conjunctions that gather what belongs together
under one name, each part a definition of its own with its own comment, and each
with a mutant of the code that breaks it: `HeapsSound` (types, accounting, heaps
ahead, growth), `ItemsSound` and `AllServed` (the items of calls and of ended
contexts; that they are processed), `HeapsTakeTurns` of timers and threads,
`CountsSound`, `GilSound`, `CallsHeld` and `LockMoves`, `ValuesLast`, `LoopSound`,
`Exchanged` and `StartsAfresh`. The counterexample of a failing run tells which
part it is.

**Bounds.**

* `heap_runs`: pages of 8 words, a descriptor of 2, `Px_SIZEOF_HEAP` 4 (the
  same slack of two words as the real 22 and 24), 3 heaps, requests of 6 words
  and objects of 3 and 1, aligned to 16 bytes. A request fits a page of its own
  or an enlarged one, an object and its registration may end up in different
  heaps, and three heaps give a rewind over a heap in between and the walk back
  into reset heaps. The proofs cover every other size.
* `loop_calls`: one work context, which the pool may refuse, and one socket,
  each with one call of either kind per callback. Two contexts are enough for every pairwise interleaving;
  a socket's callbacks recur, so calls follow each other.
* `timer_runs`: two threads, up to two queued callbacks, a counter that wraps
  after 2, so that both heaps are reused in both orders.
* `timer_live`: one thread, up to two queued callbacks, a function that may raise, a
  program that may let go late.
* `io_sound`: up to 3 connections of a socket (accepted, recycled, and
  recycled again, after which nothing new can be left over), 3 chunks (with
  the accept, found by a synchronous receive, found later) and 4 replies. The
  protocols of `MCPxSocketIO` are those of the examples and tests. What is
  known to go wrong is kept out of them and shown by the configs of section 6:
  each of the twelve is `Careful` (`CarefulAssumption`), and the theorems of
  section 4 cover every other protocol that is.
* `server_accepts`: target 2 (so the first loop posts one), two contexts, three
  clients. Two clients do not reach the case where `fd_accept` is reset after
  the next client has signalled it; three do. One `AcceptEx()` may fail at
  once. `QuietTimeouts` is 1 for the code's 5, `Width` 16 for 2^32, one
  submission may wait for the pool at a time (two in `server_stops`). Protocols
  may raise, since it is then that topping up is needed: a child that fails is
  not recycled.
* `server_stops`: one client, everything in `Mishaps` may happen.
* `server_trap`: three contexts, as two neighbours are needed.
* `gil_switch`: three threads: one that holds the lock, two that wait for it,
  so that a signal can go to the wrong one. No calls.
* `gil_calls`: two threads, three calls, a ring of three slots, which holds two:
  the third call finds it full, or fills the last slot, after which `pendinglast`
  wraps; `pendingfirst` wraps when that call is made.
* `thread_runs`: a counter that wraps after 3, so that either heap is active
  when it does, and two suspensions at a time.
* `attr_runs`: two sockets on two threads, one attribute; two positions in
  their heaps and two heaps for attributes, in all: enough for one of each per
  socket, or two generations of one socket's.

**Fairness.** `Spec` has none; `FairSpec` assumes what Windows and the code
provide. `PxRunLoop`: the main thread goes on in `run()`, every submitted piece
of work and every running callback goes on. `WaitersResume` and
`EndsAreProcessed` carry the premise `LoopEnds`: `px->incoming` is last in,
first out, so calls that never stop coming starve an old one; the properties say
what holds if they do not keep the main thread in that loop for ever. `PxTimer`:
weak fairness of the main thread, the shutdown work and the expiry of the timer;
strong fairness of each pool thread, which competes for a lock, and of the run
loop's step, which alternates with the program's. `PxSocketIO`: the loop and
operations under way go on; nothing is assumed of the peer. `PxServer`: the
server's thread, the pool, the run loop and the shutdown work go on, and a
client that is connected ends its connection; nothing is assumed of arrivals,
memory or `shutdown()`. `PyGil`: strong fairness of each thread that takes or
drops the lock, since it competes for mutexes others take again and again, and
weak fairness of who has queued a call and has yet to signal it; a thread that
runs bytecode gets to its next check and sees `eval_breaker` if it is set, but
nobody has to want the lock or to release it. `CallsMade` therefore has a
premise: the main thread finds `eval_breaker` set again and again. `PxThread`:
the thread goes on whenever it is not suspended, the pool's work and the main
thread's second halves go on, a reader gets the lock in the end and the run loop
its turn; nobody is made to resume. `PxAttr` has no liveness. A trapped process
does nothing more in any of them.

## 4. What is proved

**The heap.** `PxHeapProofs`, from `HeapAssumption` alone: a descriptor of at least one word, `Px_SIZEOF_HEAP` at least two words
more, a page that holds it, alignments of one or two words. Page size, request
sizes, object sizes and the length of the chain are arbitrary.

| theorem | says |
|---|---|
| `Invariance` | `IInv` holds in every reachable state |
| `TypeCorrect` | `TypeOK`: in particular `remaining`, a `size_t`, never wraps |
| `AccountingHolds` | `allocated + remaining = size` and `next = allocated` |
| `BlocksStayApart` | live blocks are disjoint and below `h->next` |
| `HeapsAheadAreReset` | heaps past `c->h` pass `_PyHeap_EnsureReset()` |
| `SnapshotsStayGood` | what a snapshot saw is still there when it is rewound to |
| `GrowthAlwaysSuffices` | a new heap has room for the request it was made for |
| `HeapsAreSound` | the four above but for the blocks: `HeapsSound`, which `heap_runs` checks |
| `ObjectsInvariance` | `ObjInv` holds in every reachable state |
| `HeapIsRegion` | `Spec => RegionSpec`: the heap implements the region |
| `FinalizesOnce` | a rewind finalizes the registered objects it drops, and no other |

The properties are not inductive by themselves. That blocks stay apart after a
rewind depends on the snapshot's copy of `h->next` lying past every block it
saw; that a recycle leaves a sound heap depends on the startup snapshot being
*older* than the callback's. `IInv` adds this: `MemInv` (heaps up to `c->h`
consistent, heaps past it reset or never made, blocks apart), `SnapInv` for
each snapshot that may be rewound to (its copy of the heap is a state that heap
has been in, its blocks are those its addresses tell), and `Older`. `ObjInv`
adds that registered objects are live and in the heap of their list or one
before it (`init_object()` registers some with the wrong heap, see section 6,
which is why it is "or one before"), and that a snapshot's list is the one its
addresses tell (`SnapObjects`).

The proof of a step goes by what the allocating actions have in common: each
*extends* the memory (`Extends`: heaps are kept, blocks are added past
`h->next`), so the lemmas `CarveExtends`, `GrowExtends` and `AllocsExtend`
reduce them to `ExtendKeepsInv`. `TakeIsGood` and `RewindRestores` cover
snapshots and rewinds. `NewHeapFits` is the arithmetic: why `Px_SIZEOF_HEAP` is
added to a large request, and why its word of padding is needed. The refinement
uses the same split (`AddsIsAlloc`, `RewindFinalizes`, `RegionStep`).

**The GIL.** `PyGilProofs`, from `GilAssumption` alone: the threads are finitely
many and the ring has at least two slots. The number of threads, of calls and of
slots is arbitrary.

| theorem | says |
|---|---|
| `TypeCorrect` | `TypeOK` |
| `HolderIsAlone` | `OneHolder`: one thread is inside, it is the last holder, `Py_MainThreadId` is its id |
| `GilIsSound` | both: `GilSound`, which `gil_switch` checks |
| `WaitersCounted` | semaphore and count of a condition variable add up to its waiters |
| `NoWakeupLost` | a free lock with a waiter has a signal, or a thread about to look |
| `PendingCallsSignalled` | a call on the ring is known, or about to be |
| `PendingCallsKept` | an accepted call is on the ring once, wherever the ring wraps, and calls are made one at a time |
| `PendingCallsHeld` | both: `CallsHeld`, which `gil_calls` checks |

Types need `OnlyMainMakes` (no other thread is making calls). One holder needs
`TakersHaveMutex` (who is about to set `gil_locked` holds `gil_mutex`, so there
is one such thread) and `ReadyMeansFree` (and has seen the lock free, which
nobody else can change meanwhile). The counts are an equation between numbers
and the cardinality of a set of threads, so each step is shown to move one
thread in or out of the set or none (`CountJoins`, `CountLeaves`,
`CountSignalled`, `Elsewhere`). That no wakeup is lost follows from `Counts`:
`DropSignals` shows that a drop with a waiter leaves a signal. That calls are
kept needs `RingIsQueued` (the slots in use have no duplicates and hold exactly
the calls that are queued). `LastGetsInUse` and `FirstIsInUse` say which slots
are in use when an index moves, wherever it wraps; `RingPut` and `RingTaken` what
that does to the ring. It also needs
`OneCurrent` (`busy` and the place of the main thread say which call is being
made).

**Timers and threads.** `PxTimerProofs`, from `TimerAssumption` and for programs
that do not call `start()` after `shutdown()`; what is said of the heaps is for
functions that do not raise (what happens otherwise is in section 6).
`PxThreadProofs`, from `ThreadAssumption`. The number of the pool's threads, of queued callbacks,
of references and of suspensions is arbitrary, and so is the value at which
`t->count` wraps.

| theorem | says |
|---|---|
| `TimerHeapsTakeTurns` | `HeapsTakeTurns`: types, no `__debugbreak()`, the data is not rewound, if the function does not raise |
| `FreedWhenQuiet` | `Quiet`: a timer is freed when no callback of it is left and its threadpool timer is closed, whatever the function does and whenever the program lets go; nothing of it is on the lists of the run loop if the program lets go before the shutdown callback does and the function does not raise |
| `StopIsFinal` | `StopSettles`: a stopped timer has no more callbacks to come than it had |
| `RoundsAreSound` | `RoundsSound`: no `__debugbreak()` in a round of a thread that is used properly |
| `DataIsKept` | `DataStays` of a thread |
| `ThreadHeapsTakeTurns` | both, with the types: `HeapsTakeTurns` |

Both invariants say which snapshots are set at each place of a run: between
runs the heap that is not the active one has the only snapshot (`Rest`,
`RoundsTakeTurns`), which is why a counter that wraps to 1, not to 0, is
right. For a timer it takes the lock as well (`LockHeld`: one callback at a
time is between the two heaps). That the timer is freed in time takes four
steps: a stop unsets the timer for good (`StopUnsets`), a shutdown is made once
and stops it first (`ShutOnce`), so that callbacks that were waited for do not
come back (`Drained`), and the completion is the last reference unless the
program gave that up before (`Counted`). None of the four needs the function
not to raise, which is why `EndInv` is apart from `IInv`.
`StopSettles` is an action property: with `StopUnsets` the timer cannot expire,
and a callback that is entered leaves the queue (`EnteringCountsOnce`), so that
the sum of both never grows; for this the pool has to be finite. For
a thread the invariant holds until the program changes the function of a thread
that was started or the function raises (`misused`), and before `start()`
nothing has happened (`NotStarted`).

**The run loop.** `PxRunLoopProofs`, from `RunLoopAssumption` (finitely many
contexts of work and of sockets, which differ), for any number of contexts and
calls, all kinds of calls and of ends, interrupts, time-outs and exceptions:

| theorem | says |
|---|---|
| `Ordered` | `OrderInv` holds in every reachable state |
| `MainIsWoken` | `NoLostWakeup`: the main thread does not sleep on something to do |
| `EndsReportedOnce` | `EndReportedOnce`: an end is on one list, once |
| `CountersCount` | `CountersAgree`: the counters of `PxState` count |
| `ItemsAreSound` | `ItemsSound`: types, waiting callers, no item used after its memory |
| `CallImplements` | `Spec => CallSpec`: the run loop implements `PxCall` |

`OrderInv` says which item is where. `ListsSorted`: each list has items of its
own kind, none twice. `MainPlace`: the place of the main thread tells whether it
has an item in its hands or errors yet to print. `EndsUnique` and `EndsKnown`:
one item reports an end, from the report until the main thread disposes of it.
`CallsHeld`: an item on `px->incoming` or in hand belongs to a callback that is
not over, and who waits for it has not been woken; `CallersServed` is the
converse. `FinishedAreQuiet` is why a socket may be deallocated: the report of
its end reaches `px->finished` after `px->incoming` was emptied. What counts as
"once" is a cardinality of positions, so `OnceOnList` and `OnceInHand` lead
from lists without repetitions to it; `PushedItems`, `PoppedItems` and
`TransferredItems` say what the operations of a list do to its elements.

`NoLostWakeup` speaks of one place, the wait; its invariant
(`PassedSignalled`) of every place of a turn: a list the main
thread has been through and will not see again before it waits is empty, or
whoever pushed on it has set `px->wakeup` since or is about to. It holds because
`Woken` leads back to the first list, and because a list is empty when the main
thread leaves it. The counters are equations (`Tally`) between a number and the
cardinality of a set of contexts or items, and what the main thread has popped
and not yet counted (`HandIs`), so each step is shown to move one element or
none (`PendingMoves`); they hold until the main thread is trapped, when the
item in its hands stays where it was (`TallyInv`). In the refinement `Phase` of every context but at most one is
left alone by a step (`QuietPhases`), and the steps that move one are the four of
`PxCall`. A trap is final, so all but the types is claimed of a process that
runs.

**The I/O loop.** `PxSocketIOProofs`, from `ProtocolAssumption` and
`BoundAssumption` (a protocol is one of `Protocol`, a socket has at least one
connection), for any number of connections, chunks and replies, and for any set
of protocols each of which is `Careful`:

| theorem | says |
|---|---|
| `Invariance` | `SInv` holds in every reachable state |
| `AlwaysSound` | `LoopSound`: types, no `__debugbreak()`, no rollback to a snapshot that is not there |
| `AlwaysExchanged` | `Exchanged`: the protocol gets what was sent, in order (`Received`), and the peer every reply, once and in order (`Answered`) |
| `AlwaysReleased` | `Released`: nothing is kept while the loop waits |
| `AlwaysAfresh` | `StartsAfresh`: `connection_made()` and errors belong to their own connection |
| `ConnectionImplements` | `Spec => ConnectionSpec`: the loop implements `PxConnection` |

`Careful` is a hypothesis about protocols, not about the peer or the system:
without it the first four properties are false, and each of its conditions
excludes something section 6 reports (one of the protocols it excludes breaks
one of the four).
They are, in order: no replies
from a buffer of their own by a protocol that also answers from the receive
buffer (9751); no closing after the data `connection_made()` returned (9465);
a peer that neither resets nor fails where `next_bytes_to_send` is static
(9598), where `data_received()` returns tuples (9687) or where an HTTP
request may raise (9793); nothing but resets where files are sent (10605); for a
client, no error of `GetAddrInfoExW()` or `ConnectEx()` the code has only a
`__debugbreak()` for (8864, 8990); and, for a server, no attribute that is kept from `client_created()` (8710), no error
of `DisconnectEx()` (1499), not both initial bytes and `connection_made()`
(9349), and nothing to send from `connection_made()` (10010). The protocols of
`MCPxSocketIO` satisfy it and have every feature between them, so it excludes
no part of the loop.

`SInv` is an annotation of the program: `Annotated` has one assertion for each
label of `PxSocket_IOLoop()` and each operation it waits for, over what holds
everywhere (`Always`). An assertion says what is owed at that place: whether the
reply on its way has been delivered (`Owing`, `Paid`), whether the chunk in the
receive buffer has been handed over and those on the wire follow it (`Unread`,
`AllRead`), which field holds the snapshot and which pointer of which buffer is
live (`InSbuf`, `InRbuf`, `InMany`, `InNext`, `OldSbuf`), whether an error may
be pending. `Received` and `Answered` are the assertions at the waits. That the loop
meets no trap is not an assertion about the traps but about the labels before
them: `OldSbuf` says why the completion of a send takes the right buffer for the
one that was sent, `Kept` what a snapshot is doing in the receive buffer when a
socket is recycled. There is one lemma for each action
(`DoAcceptStep`, ...), which leads from the assertion at its label to those at
the labels it may go to.

The refinement has one lemma for each kind of step of `PxConnection`
(`HandMoves`, `DeliverMoves`, ...); everything else in the loop changes nothing a
connection is, but for the wire (`QuietMoves`). The assertions give each step
its guard: `Paid` at `process_data_received:` and `send_completed:` that it is
the protocol's turn, `Owing` at the sends that one reply is due, `Unread` that
the chunk is the next one and was sent. The last is why `Hears` says, of a
connection that was reset too, that no more chunks were taken than sent.

**The server.** `PxServerProofs`, from `ServerAssumption`: the children are
finitely many and none of the values that stand for no child, the target is
positive, and the counter, which is unsigned, is wide enough to tell as many
numbers apart as there are children and one more. Target, arrivals, failed
accepts, submissions and mishaps are arbitrary.

| theorem | says |
|---|---|
| `Invariance` | `IInv` holds in every reachable state |
| `AcceptsAreCounted` | `CountsSound`: types, and `accepts_posted` counts what is posted |
| `NothingCreatedLate` | `NoneCreatedLate`: no work is left that would create a child of a server being torn down |

An `AcceptEx()` that fails at once is taken off `accepts_posted` when its socket
is recycled without having been added, so the counter may fall below zero and
wrap; `Counted` therefore speaks of it modulo `Width`, with the failed accepts on
the other side, until the server stops. Each step moves one child between the
places that count, or none, and `WidthCounts` is the arithmetic. `Failing` is
needed with it: a child the run loop unlinks is not posted.
`NoneCreatedLate` needs `ShutdownOrder`: the shutdown begins only when the
server's thread has ended, the listening socket is open until then, and the
work is cancelled first. Not proved, because it does not hold, is that the links
of the list stay good (`server_trap`).

**Attributes.** `PxAttrProofs`, from `AttrAssumption` (the value for no socket
and no heap is neither), for any number of sockets, threads and attributes, of
allocations and of heaps.

| theorem | says |
|---|---|
| `Invariance` | `IInv` holds in every reachable state |
| `AttributesLast` | `ValuesLast`: types; copies live as long as their socket, the rest as long as the connection or socket |
| `OverridesRemoved` | `OverrideRemoved`: an override is gone with the assignment |

That a copy lives needs `HeapsOwned`: a socket keeps only heaps it created,
also through the startup snapshot that is copied back over it, and a heap that
was destroyed belongs to a socket that is not used any more. That what was not
copied lives needs `Levels` (the startup snapshot is not above the snapshot of
the callback, nor that above the top of the heap, once `client_created()` has
run) and `Kept`: what is meant to last lies below the position that is rewound
to, or above it with the update of the snapshot scheduled, in the callback that
assigned it (`BelowStart`, `BelowSnap`). `RewoundStep` gathers what every rewind
has to show. For a callback of one socket to leave the memory of another alone
takes `RunsOne`: a socket runs on one thread at a time.

Every invariant and action property that a run is to pass is proved. Only
model-checked: every liveness property
(liveness under fairness and `ENABLED` are out of the proof system's reach, and
so is induction over data, so nothing is claimed about the padding loop for
alignments other than the two listed).

## 5. What is not modelled

What follows is in the source but does nothing when it is called, or stops the
process at once; a model of it would say nothing of the program.

* `protect()` and the reader-writer locks: no object ever gets
  `Py_PXFLAGS_RWLOCK` (the lines that set it, 2570 and 2582, are commented
  out, and so are the calls that would take the locks).
* `submit_wait()` and events: `SetThreadpoolWait()` is commented out and a
  `__debugbreak()` put in its place (7022). `signal()`, `wait()` and
  `signal_and_wait()` are commented out too.
* `submit_timer()`, `submit_io()`, `submit_read_io()`, `submit_server()`,
  `submit_client()`, `submit_class()`: return `NULL` without doing anything.
* Asynchronous writes: `submit_write_io()` refuses an object that is not
  protected, which none is; the completion would call a function of `NULL`.
* Persistence: `Px_TryPersist()` returns at its first statement.
* The xlist of Python programs: `push()` is a `__debugbreak()`, `pop()` finds
  nothing.
* The TLS heap: used by `thread_seq_id` only; the operations that were to use it
  stop the process. It is the allocator of `PxHeap`.

The Python packages are sequential string handling on top; the interpreter,
apart from what `PyGil` has of it, and the vendored packages are not
PyParallel's.

## 6. Where code and words differ

One difference is a run: `server_trap`. The others met on the way are shown by
TLC with the config named here; where that config is of a run, or of another
property, its `INVARIANTS` and `PROPERTIES` give way to the property in
question. The properties are defined at the end of their modules, under the
words they are taken from. Line numbers are of `src/Python/pyparallel.c` where
no file is named.

| module, config | property violated | what happens |
|---|---|---|
| `PxHeap`, `PxHeapHeader` | `HeaderHoldsSize` | (922) \_PyHeap\_Reset() and \_PyHeap\_Malloc() let the first block carved from a heap put its size header in the last word of the Heap descriptor that lies at the front of the page, which Free() and the copy of a snapshot write again; the comment at 3568 says "Store the aligned size sizeof(size\_t) bytes before the \"start\" address we're returning from the allocator." |
| `PxHeap`, `PxHeapNoMemory` | `SizeMeansAllocated` | (3317) Heap\_Init() sets h->size before HeapAlloc() and leaves it set when HeapAlloc() fails; the comment at 3576 says "If h->sle\_next->size is non-zero, it means the next heap in the list has already been allocated." |
| `PxHeap`, `PxHeapCount` | `RegisteredWhereItIs` | (3840) init\_object() registers an object with c->h after allocating its PxObject, which may have stepped to the next heap; \_PyHeap\_DeallocObjects() asserts at 1068 "if (!Px\_PTR\_IN\_HEAP(op, h)) \_\_debugbreak();". |
| `PxHeap`, `PxHeapCount` | `CountsAgree` | (1166) \_PxContext\_Rewind() compares the finalized objects with the difference of the two counts, which is wrong when the snapshot and the objects are in different heaps; the assertion is 1212 "if (actual\_deallocs != expected\_deallocs)". |
| `PxHeap`, `PxHeapSlot` | `SnapshotSlotFree` | (1299) PxSocket\_Reuse() rewinds to the startup snapshot and leaves c->s as it was; PxContext\_HeapSnapshot() asserts at 791 "assert(!c->s);". |
| `PxRunLoop`, `PxRunLoopObject` | `FinishedHasObject` | (6073) The work callback pushes its context, which has no io\_obj, on completed\_callbacks (4864), from where it gets to px->finished; run\_once() stops the process for it: 6073 "if (!c->io\_obj) { ... \_\_debugbreak(); }". |
| `PxRunLoop`, `PxRunLoopReturn` | `NoWorkLeft` | (6950) run() goes on while px->num\_contexts is not zero, and submit\_work() never registers its context, so run() returns with the work undone; src/Lib/async/test/test\_primitives.py:465 says, after async.run(), "self.assertEqual(async.active\_contexts(), 0)". |
| `PxRunLoop`, `PxRunLoopDecref` | `DecrefFree` | (7342) call\_from\_main\_thread\_and\_wait() leaves c->decref set when its argument check fails, and the function may go on and call again; 7341 asserts "assert(c->decref == NULL);". |
| `PxRunLoop`, `PxRunLoopRewound` | `CallsOutlive` | (7330) The item of a call that is not waited for is allocated in the heap of the context, which the end of the socket callback rewinds while the main thread has yet to take the item; src/README.md:124 says "the parallel environment knows how to avoid disturbing the former", the main thread. |
| `PxTimer`, `PxTimerRestart` | `NoRestart` | (src/Objects/pxtimerobject.c:413) start() does not look at the shutdown, and stop() has re-initialised start\_once; src/Objects/pxtimerobject.c:838 says "shuts the timer down (a shutdown timer cannot be started again)". |
| `PxTimer`, `PxTimerStop` | `StopHolds` | (src/Objects/pxtimerobject.c:85) A callback that has already looked at STOP\_REQUESTED, or that was queued behind the one that registers the stop, runs the function afterwards; src/Objects/pxtimerobject.c:233 says "This will synchronously trigger another timer callback, which tests for the flag and registers the stop, which we use to indicate that the timer is not and will not run again." |
| `PxTimer`, `PxTimerStart` | `StartRuns` | (src/Objects/pxtimerobject.c:85) Unsetting the timer queues no callback, so STOP\_REQUESTED stays set, and the one callback of a one-shot timer that is started again is taken for the answer to the stop; src/Objects/pxtimerobject.c:743 says the duetime "indicates when the timer will be invoked". |
| `PxTimer`, `PxTimerSnapshot` | `SnapshotEmpty` | (src/Objects/pxtimerobject.c:137) When the function raises, PxTimer\_Callback() goes to its end without rewinding, so the snapshot stays set; src/Objects/pxtimerobject.c:125 says "Make sure the context's snapshot pointer (c->s) is empty, and that the underlying snapshot struct is also empty (this\_snapshot->base)." |
| `PxTimer`, `PxTimerHandler` | `ExceptionHandled` | (src/Objects/pxtimerobject.c:137) PxTimer\_EXCEPTION always passes fatal = 1 (src/Include/pxtimerobject.h:20), which puts the exception on the list of uncaught errors and never calls the handler; src/Objects/pxtimerobject.c:777 says of exception\_handler "if set, a function that will be called if the timer encounters an exception during callback execution". |
| `PxTimer`, `PxTimerErrors` | `ErrorsAlive` | (src/Objects/pxtimerobject.c:42) The shutdown work waits for a running callback that raises: its error is on px->errors when the completion gets to px->finished and the timer and its heaps are freed, and run\_once() flushes the finished contexts before the errors; 6126 asserts "assert(PyExceptionClass\_Check((PyObject *)item->p1));" of what it then reads. |
| `PxTimer`, `PxTimerHeld` | `HeldAlive` | (src/Objects/pxtimerobject.c:50) The shutdown work takes one from Py\_REFCNT(t) and run\_once() another, and references taken while the timer is a parallel object were not counted, so the timer is freed while the program holds it; src/Doc/c-api/intro.rst:147 says "The only real reason to use the reference count is to prevent the object from being deallocated as long as our variable is pointing to it." |
| `MCPxSocketIO`, `PxSocketIOFirst` | `Received` | (10010) When connection\_made() of a server returns something to send, last\_io\_op is no longer ACCEPT after the send, so try\_recv: goes to do\_recv:, which reads into the buffer that holds the chunk AcceptEx() delivered; the comment at 10012 says "This code path will cover a newly connected client that's just sent some data." The run shows the loop waiting for the second chunk while the first was never given to data\_received(), with the protocol of the first example of src/README.md:36. |
| `MCPxSocketIO`, `PxSocketIOError` | `ErrorIsOwn` | (9793) When sending the answer 500 fails, the socket is recycled with c->error still set, and the first send of the next connection ends it with the exception of the old one; the comment at 9797 says "This will be set when an error occurred during data\_received(), http11 is True, and our 500 response send completed." |
| `MCPxSocketIO`, `PxSocketIODisconnect` with `Protocols <- StaticReset` | `NoTrap` | (9598) When sending a static next\_bytes\_to\_send fails because the peer has reset the connection, PxContext\_RollbackHeap() is called with a snapshot of NULL; the comment at 9583 says "snapshot won't be set if we've just sent static "next bytes"." |
| `MCPxSocketIO`, `PxSocketIODisconnect` with `Protocols <- Keepers` | `NoTrap` | (8710) The startup snapshot that is updated after client\_created() has next\_io\_op = ACCEPT in it, PxSocket\_Reuse() restores it, and the completion of the next AcceptEx() posts AcceptEx() again; the comment at 9174 says "Overlapped accept initiated successfully, a completion packet will be posted when a new client connects." |
| `MCPxSocketIO`, `PxSocketIODisconnect` with `Protocols <- Greeting` | `NoTrap` | (9751) After something was sent from a buffer of its own, s->sbuf points to memory that was rewound, and the completion of a send from the receive buffer takes it for the buffer that was sent; the comment at 9757 asks "Do we need to post multiple sends here?" before it stops the process. |
| `MCPxSocketIO`, `PxSocketIOHandler` | `ConnectionEnds` | (10811) PxSocket\_EXCEPTION() with an exception\_handler() leaves the socket without an operation under way: nobody ever closes or recycles it. |
| `MCPxSocketIO`, `PxSocketIOGreeting` | `Answered` | (9465) connection\_made() that calls transport.close() and returns data: the data is not sent; data\_received() and send\_complete() send it first. |
| `MCPxSocketIO`, `PxSocketIODisconnect` | `NoTrap` | (1499) DisconnectEx() that completes with an error runs into the test of s->wsa\_error in PxSocket\_Recycle(); the comment at 9283 says "just recycle the socket for now without bothering to check for errors and whatnot." |
| `MCPxSocketIO`, `PxSocketIOMade` | `MadeFirst` | (9349) A server with initial\_bytes\_to\_send never calls connection\_made(). |
| `PxServer`, `PxServerStops` | `StopsWhenAsked` | (13411) Low memory shuts the server down: the wait it goes on with names three handles from the middle of wait\_handles, the third of them behind its end, and fails; the address of a handle is then waited for in its place. 13409 says "Only wait on shutdown and high memory events." |
| `PxServer`, `PxServerStops` | `ShutdownHeard` | (13583) shutdown() called before PxSocketServer\_Start() has run finds neither s->shutdown nor a parent, and does nothing. |
| `PxServer`, `PxServerStops` | `ServerFreed` | (6605) PxSocket\_CleanupChildren() holds children\_cs and tries the lock of a child whose thread waits for children\_cs to be recycled or unlinked; 6609 says "This seems rife for an infinite loop at some point." |
| `PxServer`, `PxServerTrap` | `ListSound` | (1336) The list of children is broken by the same race before a check finds it. |
| `PxServer`, `PxServerStops` | `NoneFreedInUse` | (6631) PxSocket\_CleanupChildren() frees a child whose thread is between the test for the shutdown (11880) and the lock, or whose error the main thread has yet to print and unlink. |
| `PxServer`, `PxServerRetired` | `RetiredOnlyIfNotNeeded` | (12839) ReleaseSemaphore() gets the address of the handle and always fails, so after target\_accepts\_posted recycled connections every child is retired whatever the number of accepts posted; src/Python/pyparallel\_private.h:1220 says "Number of sockets that were active at then one point, and then free'd up after completion because the server didn't have any outstanding accepts needed." |
| `PxServer`, `PxServerRefused` | `AcceptsExact` | (1413) An AcceptEx() that fails at once leaves was\_accepting set, for which PxSocket\_Recycle() lowers accepts\_posted, which it did not raise; at zero the count wraps and the server no longer tops accepts up. src/Python/pyparallel\_private.h:1202 says "Number of AcceptEx() calls posted that haven't yet been accepted." |
| `PxServer`, `PxServerOutlives` | `ParentOutlives` | (6604) A child that a broken list has lost is not waited for, and its callback goes on with a parent that is freed. |
| `PyGil`, `PyGilEventually` | `CallsEventuallyMade` | (src/Python/ceval.c:236) COMPUTE\_EVAL\_BREAKER() loads pendingcalls\_to\_do and stores eval\_breaker in two steps, and take\_gil() does so while Py\_AddPendingCall() may signal in between: eval\_breaker ends up 0 with a call on the ring, and a main thread that runs bytecode without giving the GIL up never looks; src/Doc/c-api/init.rst:922 says "When successfully queued, *func* will be *eventually* called from the main interpreter thread". |
| `PyGil`, `PyGilSwitch` | `SwitchForced` | (src/Python/ceval_gil.h:204) drop\_gil() waits for the switch once, without a loop: a signal left over from another thread, or meant for one, ends the wait before anybody else has had the GIL; src/Python/ceval\_gil.h:48 says "When a thread releases the GIL and gil\_drop\_request is set, that thread ensures that another GIL-awaiting thread gets scheduled." |
| `PxThread`, `PxThreadRuns` | `TimesOnThread` | (src/Objects/pxthreadobject.c:333) PxThread\_ShutdownWorkCallback() runs on the pool and calls PxThread\_UpdateTimes() when the thread has ended; src/Objects/pxthreadobject.c:332 checks "if (t->thread\_id != GetCurrentThreadId()) \_\_debugbreak();", so every shutdown that succeeds stops the process. |
| `PxThread`, `PxThreadRuns` | `DataRead` | (src/Objects/pxthreadobject.c:455) suspend() may stop the thread while it holds data\_srwlock exclusively, and the main thread then waits for the data, with the GIL, for ever; the doc string of data says that "a read-lock is automatically obtained". |
| `MCPxAttr`, `PxAttrRuns` | `NoTrap` | (14404) The override a callback enables stays on the thread when it returns without disabling it, and the socket whose callback runs there next finds it in disable\_heap\_override(); the comment at 14404 asks "Could this happen?" before it stops the process. |
| `MCPxAttr`, `PxAttrRuns` | `ScalarsPersist` | (11054) A copy lies in s->heap\_override of the socket that assigned it, which is destroyed with that socket while the protocol, shared with all other clients, refers to it; src/README.md:101 says of a scalar assigned to self "This would allow persistence of state between callbacks". |
| `MCPxAttr`, `PxAttrRuns` | `ScalarsOwn` | (11287) All children get the one protocol object of the server, so an attribute assigned for one connection is overwritten by the next; src/README.md:102 says that it could "be used to track a higher level protocol state (like POP3)". |

Met while reading, without a config of its own (lines of
`src/Python/pyparallel.c`):

* An error of `GetAddrInfoExW()` the code has a case for stops the process
  (8990), and so does one of `ConnectEx()` other than a refused connection
  (8864 to 8885): they are stubs.
* A client without initial bytes is disconnected right after `ConnectEx()`
  (8925): zero bytes transferred are taken for the end of the connection.
* `AcceptEx()` waits for data, so a greeting of `connection_made()` goes out
  only once the client has spoken.
* The answer 500 of `http11` assigns `item->p2` twice (10375, 10376).
* A failed send of several buffers reads through an `sbuf` of NULL (9687); empty
  buffers and buffers that start with a NUL stop the process (9651 to 9655).
* A partial synchronous send goes on from a wrong offset (9545).
* `OTHER_ASYNC_SCHEDULED` is never cleared; an error of a file transfer other
  than a reset stops the process (10605).
* A `Start()` that fails early submits work through a handle of NULL.
* A pending operation in the `WSAEINVAL` path of `AcceptEx()` sets a flag that
  stops the process in the I/O callback.
* `SetEvent(&s->low_memory)` passes the address of the handle (13033).
* The number of accepts is four for each processor; the comment at
  `src/Python/pyparallel_private.h:1154` says two.
* The times of a thread are updated on the pool, which stops the process, so a
  thread that is shut down never gets to `px->finished`; `PxThread_STARTED` is
  never set; `resume()` shares the once-callback of `start()` and so does
  nothing for a thread that was started
  (`src/Objects/pxthreadobject.c`, 384 to 435).
* `func` of a thread is released before the new one is stored, while the thread
  may run it (`src/Objects/pxthreadobject.c:590`).
* `PxSocket_CleanupChildren()` destroys `s->heap_override` of the server in the
  loop over its children (6633), whose own are never destroyed there.
* `PxSocket_Reuse()` rewinds `s->heap_override` to what it was in the startup
  snapshot without destroying the heap made since: each connection that assigns
  leaks one, and only the leak keeps the copies alive.
* An assignment removes the heap override of the thread, also one the program
  has enabled; a copy that fails leaves it set (2036).
* `_PyParallel_AcquireGIL()` begins with a `__debugbreak()`.
* A `submit_work()` that cannot be submitted drops references it has not taken
  (6884).

## 7. Plan

The order was: the heap first, since everything else depends on it; then the
run loop every callback reports to; timers; the I/O loop; the server; the GIL,
threads and the attributes of shared objects. What is left, in order:

1. A module that composes sockets and the run loop, so that the end of a
   callback's memory and the life of its items are seen together.
