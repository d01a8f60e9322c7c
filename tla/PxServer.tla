------------------------------- MODULE PxServer -------------------------------
(***************************************************************************)
(* A listening socket and its children (src/Python/pyparallel.c): the      *)
(* thread PxSocketServer_Start() keeps for waiting, the work that creates  *)
(* client sockets and posts AcceptEx(), the accounting of accepts, the     *)
(* recycling of children, the list of children under children_cs, what     *)
(* the run loop does with failed and retired children, and the shutdown.   *)
(* What happens on a connection between its accept and its end is the      *)
(* subject of PxSocketIO.                                                  *)
(***************************************************************************)
EXTENDS Integers, FiniteSets

CONSTANTS
    Children,       \* contexts that fit into memory; bound
    Target,         \* s->target_accepts_posted, four for each processor
    Width,          \* values of an unsigned long, 2^32
    QuietTimeouts,  \* timeouts of one second before accepts are topped up, 5
    MaxArrivals,    \* bound: clients that connect
    MaxRefused,     \* bound: calls of AcceptEx() that fail at once
    MaxWork,        \* bound: submissions the pool has not run yet
    May             \* what may happen to the server, see Mishaps

(* Someone asks for the shutdown; memory runs low; a protocol raises.      *)
Mishaps == {"ask", "low", "raise"}

NoOne == "noOne"
Head == "children"
Nothing == "nothing"

ASSUME ServerAssumption ==
    /\ IsFiniteSet(Children) /\ Children \cap {NoOne, Head, Nothing} = {}
    /\ Target \in Nat \ {0} /\ Width \in Nat /\ Width > Cardinality(Children)
    /\ {QuietTimeouts, MaxArrivals, MaxRefused, MaxWork} \subseteq Nat
    /\ May \subseteq Mishaps

VARIABLES
    srv,      \* PxSocketServer_Start(): where it is, a loop's count, low_memory_wait
    net,      \* the listening socket: open?, clients that wait, clients so far,
              \* is FD_ACCEPT armed, AcceptEx() calls that failed at once
    ev,       \* the events and the notification that are signalled
    work,     \* submissions of preallocate_children_tp_work not yet run
    child,    \* where each context is, has its accept a client, is a thread
              \* in IOCallback() waiting for its lock, the links it has copied
    live,     \* contexts that are allocated
    links,    \* child_entry of each child and the list head: Flink, Blink
    counts,   \* s->accepts_posted and the count of accepts_sem
    stop,     \* s->shutdown_count, s->shutting_down, ready_for_dealloc, and
              \* has a check or a NULL in the list stopped the process
    shut,     \* where PxSocketServer_ShutdownCallback() is
    main,     \* px->errors, the child the run loop unlinks, asked to stop?
    memory    \* has memory been low: "fine", "low", "over"

vars == <<srv, net, ev, work, child, live, links, counts, stop, shut, main,
          memory>>

(* client_connected and free_children are left out: the case of the one     *)
(* only counts, and nothing signals the other.                             *)
Events == {"fd_accept", "low_memory", "shutdown"}

Init ==
    /\ srv = [at |-> "start", n |-> 0, quiet |-> 0, low |-> FALSE]
    /\ net = [open |-> FALSE, waiting |-> 0, came |-> 0, armed |-> TRUE,
              refused |-> 0]
    /\ ev = {}
    /\ work = 0
    /\ child = [c \in Children |->
                    [at |-> "none", got |-> FALSE, inside |-> FALSE,
                     old |-> <<Nothing, Nothing>>]]
    /\ live = {}
    /\ links = [x \in Children \union {Head} |->
                    IF x = Head THEN <<Head, Head>> ELSE <<Nothing, Nothing>>]
    /\ counts = [accepts |-> 0, sem |-> Target]
    /\ stop = [count |-> FALSE, down |-> FALSE, ready |-> FALSE, trap |-> FALSE]
    /\ shut = "none"
    /\ main = [errors |-> {}, unlinks |-> NoOne, asked |-> FALSE]
    /\ memory = "fine"

-----------------------------------------------------------------------------
(* The list of children, a LIST_ENTRY list.  What a write through a stale  *)
(* pointer does to the memory of a freed child is not modelled.            *)

Set(l, x, i, y) == [l EXCEPT ![x][i] = y]

(* CheckListEntry(): a list that fails it stops the process.               *)
CheckListEntry(l, x) ==
    /\ Nothing \notin {l[x][1], l[x][2]}
    /\ l[l[x][1]][2] = x /\ l[l[x][2]][1] = x

InsertHeadList(l, c) ==
    LET next == l[Head][1]
    IN  Set([l EXCEPT ![c] = <<next, Head>>, ![Head][1] = c], next, 2, c)

InsertTailList(l, c) ==
    LET prev == l[Head][2]
    IN  Set([l EXCEPT ![c] = <<Head, prev>>, ![Head][2] = c], prev, 1, c)

(* RemoveEntryList(), also for what RemoveHeadList() does to a sound head. *)
RemoveEntryList(l, c) ==
    [Set(Set(l, l[c][2], 1, l[c][1]), l[c][1], 2, l[c][2])
        EXCEPT ![c] = <<Nothing, Nothing>>]

(* The list is changed if it passes its check, or the process stops.       *)
Checked(ok, l) ==
    IF ok THEN links' = l /\ stop' = stop
          ELSE links' = links /\ stop' = [stop EXCEPT !.trap = TRUE]

UnlinkEntry(c) ==
    Checked(Nothing \notin {links[c][1], links[c][2]},
            RemoveEntryList(links, c))

(* children_cs: PxSocket_CleanupChildren() holds it from its first step to *)
(* its last; every other holder lets go of it within a step.               *)
ListFree == shut # "children"

(* The states in which a thread holds child->cs.                           *)
Locked == {"posting", "counting", "closing", "refused", "copied", "unlinking"}

Stopping == stop.count \/ stop.down

-----------------------------------------------------------------------------
(* PxSocketServer_Start()                                                  *)

At(where) == srv' = [srv EXCEPT !.at = where]

(* The events and the semaphore are made, the socket is bound and listens. *)
Start ==
    /\ srv.at = "start"
    /\ srv' = [srv EXCEPT !.at = "post", !.n = Target]
    /\ net' = [net EXCEPT !.open = TRUE]
    /\ UNCHANGED <<ev, work, child, live, links, counts, stop, shut, main,
                   memory>>

(* while (--s->num_accepts_to_post)                                        *)
PostAccepts ==
    /\ srv.at = "post" /\ (srv.n = 1 \/ work < MaxWork)
    /\ srv' = [srv EXCEPT !.n = srv.n - 1,
                          !.at = IF srv.n = 1 THEN "wait" ELSE "post"]
    /\ work' = IF srv.n = 1 THEN work ELSE work + 1
    /\ UNCHANGED <<net, ev, child, live, links, counts, stop, shut, main,
                   memory>>

(* WaitForMultipleObjects() returns the first handle that is signalled.    *)
Signalled(e, before) ==
    srv.at = "wait" /\ ~srv.low /\ e \in ev /\ ev \intersect before = {}

(* case WAIT_OBJECT_0: the work is submitted, the event reset after that.  *)
FdAccept ==
    /\ Signalled("fd_accept", {}) /\ work < MaxWork
    /\ work' = work + 1
    /\ At("reset")
    /\ UNCHANGED <<net, ev, child, live, links, counts, stop, shut, main,
                   memory>>

ResetFdAccept ==
    /\ srv.at = "reset"
    /\ ev' = ev \ {"fd_accept"}
    /\ At("wait")
    /\ UNCHANGED <<net, work, child, live, links, counts, stop, shut, main,
                   memory>>

(* case WAIT_OBJECT_0 + 3: low_memory_wait is set.                         *)
LowMemory ==
    /\ Signalled("low_memory", {"fd_accept"})
    /\ srv' = [srv EXCEPT !.low = TRUE]
    /\ UNCHANGED <<net, ev, work, child, live, links, counts, stop, shut, main,
                   memory>>

(* Mutant: the wait in low memory is tried again when it fails.            *)
LowMemoryAgain ==
    /\ srv.at = "wait" /\ srv.low
    /\ At("wait")
    /\ UNCHANGED <<net, ev, work, child, live, links, counts, stop, shut, main,
                   memory>>

(* The wait in low memory: the third of the three handles lies behind the  *)
(* end of wait_handles, so WAIT_FAILED; there, the address of a handle is  *)
(* waited for in place of the handle, which fails too: goto shutdown.      *)
LowMemoryWait ==
    /\ srv.at = "wait" /\ srv.low
    /\ At("stop")
    /\ UNCHANGED <<net, ev, work, child, live, links, counts, stop, shut, main,
                   memory>>

(* case WAIT_OBJECT_0 + 4                                                  *)
ShutdownEvent ==
    /\ Signalled("shutdown", Events \ {"shutdown"})
    /\ ev' = ev \ {"shutdown"}
    /\ stop' = [stop EXCEPT !.count = TRUE]
    /\ At("stop")
    /\ UNCHANGED <<net, work, child, live, links, counts, shut, main, memory>>

(* case WAIT_TIMEOUT; wait_timeout_count is never set back.                *)
Timeout ==
    /\ srv.at = "wait" /\ ~srv.low /\ ev = {}
    /\ srv' = IF srv.quiet = QuietTimeouts
                THEN [srv EXCEPT !.at = "topUp", !.n = 0]
                ELSE [srv EXCEPT !.quiet = srv.quiet + 1]
    /\ UNCHANGED <<net, ev, work, child, live, links, counts, stop, shut, main,
                   memory>>

(* Mutant: accepts are topped up only when none is posted.                 *)
TopUpNone ==
    /\ srv.at = "topUp"
    /\ \/ /\ counts.accepts = 0
          /\ work < MaxWork
          /\ work' = work + 1
          /\ srv' = [srv EXCEPT !.n = srv.n + 1,
                                !.at = IF srv.n + 1 = Target
                                         THEN "wait" ELSE "topUp"]
       \/ /\ counts.accepts > 0
          /\ At("wait")
          /\ work' = work
    /\ UNCHANGED <<net, ev, child, live, links, counts, stop, shut, main,
                   memory>>

(* Mutant: accepts are never topped up.                                    *)
TopUpNever ==
    /\ srv.at = "topUp"
    /\ At("wait")
    /\ UNCHANGED <<net, ev, work, child, live, links, counts, stop, shut, main,
                   memory>>

(* One turn of the loop while (s->accepts_posted < target_accepts_posted). *)
TopUp ==
    /\ srv.at = "topUp"
    /\ \/ /\ counts.accepts < Target
          /\ work < MaxWork
          /\ work' = work + 1
          /\ srv' = [srv EXCEPT !.n = srv.n + 1,
                                !.at = IF srv.n + 1 = Target
                                         THEN "wait" ELSE "topUp"]
       \/ /\ counts.accepts >= Target
          /\ At("wait")
          /\ work' = work
    /\ UNCHANGED <<net, ev, child, live, links, counts, stop, shut, main,
                   memory>>

(* Mutant: Start() goes on waiting after the shutdown.                     *)
ShutdownAndWait ==
    /\ srv.at = "stop"
    /\ stop' = [stop EXCEPT !.down = TRUE]
    /\ shut' = "queued"
    /\ srv' = [srv EXCEPT !.at = "wait", !.low = FALSE]
    /\ UNCHANGED <<net, ev, work, child, live, links, counts, main, memory>>

(* PxSocketServer_Shutdown(), at the label shutdown of Start().            *)
Shutdown ==
    /\ srv.at = "stop"
    /\ stop' = [stop EXCEPT !.down = TRUE]
    /\ shut' = "queued"
    /\ At("ended")
    /\ UNCHANGED <<net, ev, work, child, live, links, counts, main, memory>>

ServerStep ==
    \/ Start \/ PostAccepts \/ FdAccept \/ ResetFdAccept
    \/ LowMemory \/ LowMemoryWait \/ ShutdownEvent \/ Timeout \/ TopUp
    \/ Shutdown

-----------------------------------------------------------------------------
(* The children                                                            *)

Becomes(c, where) == child' = [child EXCEPT ![c].at = where]

(* PxSocketServer_CreateClientSocket(), up to the list.                    *)
CreateClientSocket(c) ==
    /\ work > 0 /\ child[c].at = "none"
    /\ work' = work - 1
    /\ live' = live \union {c}
    /\ Becomes(c, "linking")
    /\ UNCHANGED <<srv, net, ev, links, counts, stop, shut, main, memory>>

(* There is no memory for a context: SetEvent() is called with the address *)
(* of the handle, and nothing is signalled.                                *)
CreateFails ==
    /\ work > 0
    /\ memory = "low" \/ \A c \in Children : child[c].at # "none"
    /\ work' = work - 1
    /\ UNCHANGED <<srv, net, ev, child, live, links, counts, stop, shut, main,
                   memory>>

LinkChild(c) ==
    /\ child[c].at = "linking" /\ ListFree
    /\ Checked(CheckListEntry(links, Head), InsertHeadList(links, c))
    /\ Becomes(c, "posting")
    /\ UNCHANGED <<srv, net, ev, work, live, counts, shut, main, memory>>

(* do_accept: AcceptEx() takes a client that waits, if there is one, and   *)
(* arms FD_ACCEPT again, which is signalled at once if more of them wait.  *)
AcceptEx(c) ==
    LET more == net.waiting > 1 IN
    /\ child[c].at = "posting" /\ net.open
    /\ child' = [child EXCEPT ![c].at = "counting", ![c].got = net.waiting > 0]
    /\ net' = [net EXCEPT !.waiting = IF @ > 0 THEN @ - 1 ELSE 0,
                          !.armed = ~more]
    /\ ev' = IF more THEN ev \union {"fd_accept"} ELSE ev
    /\ UNCHANGED <<srv, work, live, links, counts, stop, shut, main, memory>>

(* WSAECONNRESET and the like, or WSAENOTSOCK once the server is closed:   *)
(* the socket is recycled with was_accepting set.                          *)
AcceptExFails(c) ==
    /\ child[c].at = "posting"
    /\ net.open => net.refused < MaxRefused
    /\ Becomes(c, "refused")
    /\ net' = IF net.open THEN [net EXCEPT !.refused = @ + 1] ELSE net
    /\ UNCHANGED <<srv, ev, work, live, links, counts, stop, shut, main,
                   memory>>

CountAccept(c) ==
    /\ child[c].at = "counting"
    /\ counts' = [counts EXCEPT !.accepts = (@ + 1) % Width]
    /\ Becomes(c, "posted")
    /\ UNCHANGED <<srv, net, ev, work, live, links, stop, shut, main, memory>>

(* PxSocket_IOCallback() as far as the lock of the child: the completion   *)
(* is dropped when the server is shutting down.                            *)
IOCallback(c) ==
    /\ ~child[c].inside
    /\ \/ child[c].got /\ child[c].at \in {"counting", "posted"}
       \/ child[c].at = "connected"
    /\ child' = [child EXCEPT
                    ![c].got = FALSE,
                    ![c].inside = ~Stopping,
                    ![c].at = IF Stopping /\ @ = "connected"
                                THEN "idle" ELSE @]
    /\ UNCHANGED <<srv, net, ev, work, live, links, counts, stop, shut, main,
                   memory>>

(* Mutant: a client that is gone again is recycled before the count.       *)
AcceptedUncounted(c) ==
    /\ child[c].inside /\ child[c].at = "posted"
    /\ \E there \in BOOLEAN :
        /\ child' = [child EXCEPT ![c].inside = FALSE,
                                  ![c].at = IF there THEN "connected"
                                            ELSE "closing"]
        /\ counts' = [counts EXCEPT !.accepts = IF there THEN (@ - 1) % Width
                                                ELSE @]
    /\ UNCHANGED <<srv, net, ev, work, live, links, stop, shut, main, memory>>

(* overlapped_acceptex_callback: the client is there, or it is gone again, *)
(* and the socket is recycled.                                             *)
Accepted(c) ==
    /\ child[c].inside /\ child[c].at = "posted"
    /\ counts' = [counts EXCEPT !.accepts = (@ - 1) % Width]
    /\ \E there \in BOOLEAN :
        child' = [child EXCEPT ![c].inside = FALSE,
                               ![c].at = IF there THEN "connected"
                                         ELSE "closing"]
    /\ UNCHANGED <<srv, net, ev, work, live, links, stop, shut, main, memory>>

(* The connection ends: with a call of PxSocket_Recycle(), or with an      *)
(* error of the protocol, which is put on px->errors.                      *)
Ends(c) ==
    /\ child[c].inside /\ child[c].at = "connected"
    /\ \/ /\ child' = [child EXCEPT ![c].inside = FALSE, ![c].at = "closing"]
          /\ main' = main
       \/ /\ "raise" \in May
          /\ child' = [child EXCEPT ![c].inside = FALSE, ![c].at = "failed"]
          /\ main' = [main EXCEPT !.errors = @ \union {c}]
    /\ UNCHANGED <<srv, net, ev, work, live, links, counts, stop, shut, memory>>

(* Mutant: the count is not kept within its width.                         *)
RecycleBelowZero(c) ==
    /\ child[c].at \in {"closing", "refused"} /\ ~stop.down
    /\ counts' = [counts EXCEPT
                    !.accepts = IF child[c].at = "refused" THEN @ - 1 ELSE @]
    /\ Becomes(c, "unlinking")
    /\ UNCHANGED <<srv, net, ev, work, live, links, stop, shut, main, memory>>

(* PxSocket_Recycle(), up to the copy of the socket in PxSocket_Reuse() or *)
(* create_pxsocket().  accepts_sem is never released: PxSocketServer_      *)
(* UnlinkChild() calls ReleaseSemaphore() with the address of the handle.  *)
Recycle(c) ==
    /\ child[c].at \in {"closing", "refused"}
    /\ IF stop.down
         THEN /\ Becomes(c, "idle")
              /\ counts' = counts
         ELSE /\ counts' = [accepts |-> IF child[c].at = "refused"
                                          THEN (counts.accepts - 1) % Width
                                          ELSE counts.accepts,
                            sem |-> IF counts.sem = 0 THEN 0
                                      ELSE counts.sem - 1]
              /\ IF counts.sem = 0
                   THEN Becomes(c, "unlinking")
                   ELSE child' = [child EXCEPT ![c].at = "copied",
                                               ![c].old = links[c]]
    /\ UNCHANGED <<srv, net, ev, work, live, links, stop, shut, main, memory>>

(* The startup snapshot is copied over the socket and the links back.      *)
Restore(c) ==
    /\ child[c].at = "copied" /\ ListFree
    /\ links' = [links EXCEPT ![c] = child[c].old]
    /\ child' = [child EXCEPT ![c].at = "posting",
                              ![c].old = <<Nothing, Nothing>>]
    /\ UNCHANGED <<srv, net, ev, work, live, counts, stop, shut, main, memory>>

(* PxSocketServer_UnlinkChild() by the callback of the child.              *)
UnlinkChild(c) ==
    /\ child[c].at = "unlinking" /\ ListFree
    /\ UnlinkEntry(c)
    /\ Becomes(c, "retired")
    /\ UNCHANGED <<srv, net, ev, work, live, counts, shut, main, memory>>

(* The thread that creates c or acts on a completion of it.                *)
ChildStep(c) ==
    /\ c \in live
    /\ \/ LinkChild(c) \/ AcceptEx(c) \/ AcceptExFails(c) \/ CountAccept(c)
       \/ IOCallback(c) \/ Accepted(c) \/ Ends(c) \/ Recycle(c) \/ Restore(c)
       \/ UnlinkChild(c)

Create == (\E c \in Children : CreateClientSocket(c)) \/ CreateFails

-----------------------------------------------------------------------------
(* The run loop                                                            *)

(* A client socket on px->errors: PxSocketServer_UnlinkChild() is called   *)
(* without the lock of the child.                                          *)
TakeError(c) ==
    /\ main.unlinks = NoOne /\ c \in main.errors /\ c \in live
    /\ main' = [main EXCEPT !.errors = @ \ {c}, !.unlinks = c]
    /\ UNCHANGED <<srv, net, ev, work, child, live, links, counts, stop, shut,
                   memory>>

UnlinkFailed ==
    LET c == main.unlinks IN
    /\ c \in live /\ ListFree
    /\ UnlinkEntry(c)
    /\ Becomes(c, "retired")
    /\ main' = [main EXCEPT !.unlinks = NoOne]
    /\ UNCHANGED <<srv, net, ev, work, live, counts, shut, memory>>

(* px->finished: pxsocket_dealloc().                                       *)
Dealloc(c) ==
    /\ main.unlinks = NoOne /\ child[c].at = "retired"
    /\ live' = live \ {c}
    /\ Becomes(c, "none")
    /\ UNCHANGED <<srv, net, ev, work, links, counts, stop, shut, main, memory>>

MainStep ==
    UnlinkFailed \/ \E c \in Children : TakeError(c) \/ Dealloc(c)

-----------------------------------------------------------------------------
(* PxSocketServer_ShutdownCallback()                                       *)

Frozen == <<srv, ev, counts, main, memory>>

(* The listening socket is closed, the submissions not yet run cancelled,  *)
(* and PxSocket_CleanupChildren() takes children_cs.                       *)
BeginShutdown ==
    /\ shut = "queued"
    /\ shut' = "children"
    /\ net' = [net EXCEPT !.open = FALSE, !.waiting = 0]
    /\ work' = 0
    /\ UNCHANGED <<child, live, links, stop>> /\ UNCHANGED Frozen

(* One turn of the loop: a child whose lock is taken goes to the end of    *)
(* the list, any other is destroyed with its context.                      *)
CleanupChild ==
    LET c == links[Head][1]
        busy == child[c].at \in Locked
        rest == RemoveEntryList(links, c)
    IN
    /\ shut = "children" /\ c # Head
    /\ IF CheckListEntry(links, Head) /\ links[c][1] # Nothing
         THEN /\ links' = IF busy THEN InsertTailList(rest, c) ELSE rest
              /\ live' = IF busy THEN live ELSE live \ {c}
              /\ IF busy THEN child' = child ELSE Becomes(c, "destroyed")
              /\ stop' = stop
         ELSE /\ stop' = [stop EXCEPT !.trap = TRUE]
              /\ UNCHANGED <<links, live, child>>
    /\ UNCHANGED <<net, work, shut>> /\ UNCHANGED Frozen

ChildrenGone ==
    /\ shut = "children" /\ links[Head][1] = Head
    /\ shut' = IF CheckListEntry(links, Head) THEN "close" ELSE shut
    /\ stop' = IF CheckListEntry(links, Head)
                 THEN [stop EXCEPT !.ready = TRUE]
                 ELSE [stop EXCEPT !.trap = TRUE]
    /\ UNCHANGED <<net, work, child, live, links>> /\ UNCHANGED Frozen

(* CloseThreadpoolCleanupGroupMembers() returns when no callback of the    *)
(* group runs, and by now only those that create children are left; the    *)
(* server is deallocated.                                                  *)
EndShutdown ==
    /\ shut = "close"
    /\ \A c \in live : child[c].at \notin Locked \union {"linking"}
    /\ shut' = "freed"
    /\ UNCHANGED <<net, work, child, live, links, stop>> /\ UNCHANGED Frozen

ShutdownStep == BeginShutdown \/ CleanupChild \/ ChildrenGone \/ EndShutdown

-----------------------------------------------------------------------------
(* The surroundings                                                        *)

(* A client connects: an accept that is posted gets it, or it waits and    *)
(* FD_ACCEPT is signalled, unless that happened since the last AcceptEx(). *)
Arrive ==
    LET takers == {c \in live : child[c].at \in {"counting", "posted"}
                                    /\ ~child[c].got /\ ~child[c].inside} IN
    /\ net.open /\ net.came < MaxArrivals
    /\ \/ \E c \in takers :
            /\ child' = [child EXCEPT ![c].got = TRUE]
            /\ net' = [net EXCEPT !.came = @ + 1]
            /\ ev' = ev
       \/ /\ takers = {}
          /\ net' = [net EXCEPT !.came = @ + 1, !.waiting = @ + 1,
                                !.armed = FALSE]
          /\ ev' = IF net.armed THEN ev \union {"fd_accept"} ELSE ev
          /\ child' = child
    /\ UNCHANGED <<srv, work, live, links, counts, stop, shut, main, memory>>

(* shutdown() of the server or of a child of it; without the event, which  *)
(* Start() makes and the shutdown closes, nothing is signalled.            *)
AskForShutdown ==
    /\ "ask" \in May /\ ~main.asked
    /\ main' = [main EXCEPT !.asked = TRUE]
    /\ ev' = IF srv.at = "start" \/ shut # "none" THEN ev
             ELSE ev \union {"shutdown"}
    /\ UNCHANGED <<srv, net, work, child, live, links, counts, stop, shut,
                   memory>>

(* LowMemoryResourceNotification is signalled for as long as memory is low.*)
MemoryChanges ==
    /\ "low" \in May /\ memory # "over"
    /\ memory' = IF memory = "fine" THEN "low" ELSE "over"
    /\ ev' = IF memory = "fine" THEN ev \union {"low_memory"}
             ELSE ev \ {"low_memory"}
    /\ UNCHANGED <<srv, net, work, child, live, links, counts, stop, shut,
                   main>>

Next ==
    /\ ~stop.trap
    /\ \/ ServerStep \/ Create \/ MainStep \/ ShutdownStep
       \/ \E c \in Children : ChildStep(c)
       \/ Arrive \/ AskForShutdown \/ MemoryChanges

Spec == Init /\ [][Next]_vars

(* Threads of the pool and the run loop go on; a client that is connected  *)
(* ends its connection some time.  Nothing is assumed of arrivals, of the  *)
(* memory and of shutdown().                                               *)
FairSpec ==
    /\ Spec
    /\ WF_vars(~stop.trap /\ ServerStep) /\ WF_vars(~stop.trap /\ Create)
    /\ WF_vars(~stop.trap /\ MainStep) /\ WF_vars(~stop.trap /\ ShutdownStep)
    /\ \A c \in Children : WF_vars(~stop.trap /\ ChildStep(c))

-----------------------------------------------------------------------------
(* Properties                                                              *)

Where == {"none", "linking", "posting", "counting", "posted", "connected",
          "closing", "refused", "copied", "unlinking", "retired", "failed",
          "idle", "destroyed"}
Entries == Children \union {Head, Nothing}

(* The types of the variables: accepts_posted stays within its width, no   *)
(* more clients wait than have come.                                       *)
TypeOK ==
    /\ srv \in [at : {"start", "post", "wait", "reset", "topUp", "stop", "ended"},
               n : 0..Target, quiet : 0..QuietTimeouts, low : BOOLEAN]
    /\ net \in [open : BOOLEAN, waiting : 0..MaxArrivals, came : 0..MaxArrivals,
               armed : BOOLEAN, refused : 0..MaxRefused]
    /\ net.waiting <= net.came
    /\ ev \subseteq Events /\ work \in 0..MaxWork
    /\ child \in [Children -> [at : Where, got : BOOLEAN, inside : BOOLEAN,
                               old : Entries \X Entries]]
    /\ live \subseteq Children
    /\ links \in [Children \union {Head} -> Entries \X Entries]
    /\ counts \in [accepts : 0..(Width - 1), sem : 0..Target]
    /\ stop \in [count : BOOLEAN, down : BOOLEAN, ready : BOOLEAN,
                trap : BOOLEAN]
    /\ shut \in {"none", "queued", "children", "close", "freed"}
    /\ main \in [errors : SUBSET Children, unlinks : Children \union {NoOne},
                asked : BOOLEAN]
    /\ memory \in {"fine", "low", "over"}

(* s->accepts_posted is the number of accepts that are posted and not yet  *)
(* taken up by their callback, whatever the order of posting, completion   *)
(* and counting -- less one for each AcceptEx() that failed at once, which *)
(* PxSocket_Recycle() takes off the count without its having been added.   *)
AcceptsCounted ==
    LET here(where) == Cardinality({c \in live : child[c].at = where}) IN
    ~Stopping =>
        counts.accepts =
            (here("posted") - net.refused + here("refused")) % Width

(* The count of accepts is right, modulo its width, and whatever else the  *)
(* server keeps is of its type.                                            *)
CountsSound == TypeOK /\ AcceptsCounted

(* The server is shut down, an AcceptEx() has failed at once, or a broken  *)
(* list has stopped the process.                                           *)
Over == Stopping \/ net.refused > 0 \/ stop.trap

(* A client that waits is accepted in the end, although FD_ACCEPT may be   *)
(* reset after the accept it asked for is already done.                    *)
ClientAccepted == net.waiting > 0 ~> net.waiting = 0 \/ Over

(* private.h: "Target number of posted AcceptEx() calls the server will    *)
(* try and maintain": again and again that many are posted, although the   *)
(* first loop posts one less and children are retired for good.            *)
TargetMaintained == []<>(counts.accepts >= Target \/ Over)

(* A shutdown event that is signalled is acted upon, although fd_accept    *)
(* and low_memory come before it.                                          *)
ShutdownStarts == "shutdown" \in ev ~> stop.down \/ stop.trap

(* PxSocketServer_Start() has left its loop before the shutdown work, so   *)
(* nothing is submitted to a server that is torn down, and no context is   *)
(* created for one that is gone.                                           *)
NoneCreatedLate ==
    shut \in {"children", "close", "freed"} => work = 0

(* No thread is in a callback of a child, and the run loop unlinks none,   *)
(* once the server they reach through s->parent is deallocated.            *)
ParentOutlives ==
    shut = "freed" =>
        /\ \A c \in live : ~child[c].inside /\ child[c].at \notin Locked
        /\ main.unlinks \notin live

(* The server stops only when it was asked to.                             *)
StopsWhenAsked == stop.down => main.asked

(* A shutdown that was asked for takes place.                              *)
ShutdownHeard == main.asked ~> stop.down \/ stop.trap

(* The shutdown comes to an end.                                           *)
ServerFreed == stop.down ~> shut = "freed" \/ stop.trap

(* The list of children passes its checks and has no entry of NULL.        *)
NoListTrap == ~stop.trap

(* The list of children is a list of the children that are linked.         *)
ListSound ==
    LET linked == {x \in Children : links[x] # <<Nothing, Nothing>>}
    IN  ListFree =>
            \A x \in linked \union {Head} :
                /\ CheckListEntry(links, x)
                /\ {links[x][1], links[x][2]} \subseteq live \union {Head}

(* A context is not freed while a thread is in a callback of it, or the    *)
(* run loop has an error of it.                                            *)
NoneFreedInUse ==
    \A c \in Children :
        child[c].inside \/ c \in main.errors \/ c = main.unlinks => c \in live

(* private.h: children are retired "because the server didn't have any     *)
(* outstanding accepts needed".                                            *)
RetiredOnlyIfNotNeeded ==
    [][\A c \in Children :
        child[c].at \in {"closing", "refused"} /\ child'[c].at = "unlinking"
            => counts.accepts >= Target]_vars

(* s->accepts_posted is the number of accepts that are posted.             *)
AcceptsExact ==
    ~Stopping =>
        counts.accepts = Cardinality({c \in live : child[c].at = "posted"})

=============================================================================
