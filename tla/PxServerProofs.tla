---------------------------- MODULE PxServerProofs ----------------------------
(***************************************************************************)
(* Proofs about the listening socket of PxServer, for any number of        *)
(* children, clients, failed accepts and pieces of work, with low memory,  *)
(* protocols that raise and a shutdown at any time: the count of posted    *)
(* accepts is right, and nothing is created for a server that is gone.     *)
(***************************************************************************)
EXTENDS PxServer, FiniteSetTheorems, TLAPS

-----------------------------------------------------------------------------
(* The inductive invariant                                                 *)

(* The thread of the server in its two loops; before it listens there is   *)
(* nothing.                                                                *)
Loops ==
    /\ srv.at = "post" => srv.n > 0
    /\ srv.at = "topUp" => srv.n < Target
Unstarted == srv.at = "start" =>
    /\ work = 0 /\ live = {} /\ shut = "none"
    /\ counts.accepts = 0 /\ net.refused = 0

(* The shutdown begins when the thread of the server has ended, and closes *)
(* the listening socket and cancels the work before anything else.         *)
ShutdownOrder ==
    /\ shut # "none" => stop.down /\ srv.at = "ended"
    /\ shut = "none" => (net.open <=> srv.at # "start")
    /\ NoneCreatedLate

(* A child the run loop has an error of has failed, or was destroyed.      *)
Failing ==
    /\ \A c \in main.errors \union ({main.unlinks} \ {NoOne}) :
          child[c].at \in {"failed", "destroyed"}
    /\ main.unlinks \notin main.errors
    /\ \A c \in live : child[c].at # "destroyed"

(* The accepts that are posted, and the failed ones that are not off the   *)
(* count yet.                                                              *)
Posted == {c \in live : child[c].at = "posted"}
Refused == {c \in live : child[c].at = "refused"}
Difference == Cardinality(Posted) - net.refused + Cardinality(Refused)
Counted == ~Stopping => counts.accepts = Difference % Width

IInv == TypeOK /\ Loops /\ Unstarted /\ ShutdownOrder /\ Failing /\ Counted


-----------------------------------------------------------------------------
(* The list of children                                                    *)

Links == [Children \union {Head} -> Entries \X Entries]

LEMMA SetKeeps ==
    ASSUME NEW l \in Links, NEW x, NEW i \in {1, 2}, NEW y \in Entries
    PROVE  Set(l, x, i, y) \in Links
<1>1. ASSUME NEW p \in Entries \X Entries
      PROVE  [p EXCEPT ![i] = y] \in Entries \X Entries
  <2>1. CASE i = 1
    BY <2>1
  <2>2. CASE i = 2
    BY <2>2
  <2> QED
    BY <2>1, <2>2
<1> QED
  BY <1>1 DEF Set, Links

LEMMA EntryOf ==
    ASSUME NEW l \in Links, NEW x \in Children \union {Head}
    PROVE  l[x][1] \in Entries /\ l[x][2] \in Entries
<1>1. l[x] \in Entries \X Entries
  BY DEF Links
<1> QED
  BY <1>1

LEMMA InsertKeeps ==
    ASSUME NEW l \in Links, NEW c \in Children
    PROVE  InsertHeadList(l, c) \in Links /\ InsertTailList(l, c) \in Links
<1>1. l[Head][1] \in Entries /\ l[Head][2] \in Entries
  BY EntryOf
<1>2. Head \in Entries /\ c \in Entries
  BY DEF Entries
<1>3. /\ [l EXCEPT ![c] = <<l[Head][1], Head>>] \in Links
      /\ [l EXCEPT ![c] = <<Head, l[Head][2]>>] \in Links
  BY <1>1, <1>2 DEF Links
<1>4. /\ [l EXCEPT ![c] = <<l[Head][1], Head>>, ![Head][1] = c] \in Links
      /\ [l EXCEPT ![c] = <<Head, l[Head][2]>>, ![Head][2] = c] \in Links
  BY <1>2, <1>3, SetKeeps DEF Set
<1> QED
  BY <1>2, <1>4, SetKeeps DEF InsertHeadList, InsertTailList

LEMMA RemoveKeeps ==
    ASSUME NEW l \in Links, NEW c \in Children
    PROVE  RemoveEntryList(l, c) \in Links
<1>1. l[c][1] \in Entries /\ l[c][2] \in Entries
  BY EntryOf
<1>2. Set(Set(l, l[c][2], 1, l[c][1]), l[c][1], 2, l[c][2]) \in Links
  BY <1>1, SetKeeps
<1>3. <<Nothing, Nothing>> \in Entries \X Entries
  BY DEF Entries
<1> QED
  BY <1>2, <1>3 DEF RemoveEntryList, Links

-----------------------------------------------------------------------------
(* The types                                                               *)

SrvRec == [at : {"start", "post", "wait", "reset", "topUp", "stop", "ended"},
           n : 0..Target, quiet : 0..QuietTimeouts, low : BOOLEAN]
NetRec == [open : BOOLEAN, waiting : 0..MaxArrivals, came : 0..MaxArrivals,
           armed : BOOLEAN, refused : 0..MaxRefused]
ChildRec == [at : Where, got : BOOLEAN, inside : BOOLEAN,
             old : Entries \X Entries]
MainRec == [errors : SUBSET Children, unlinks : Children \union {NoOne},
            asked : BOOLEAN]
StopRec == [count : BOOLEAN, down : BOOLEAN, ready : BOOLEAN, trap : BOOLEAN]


LEMMA ServerTypes == TypeOK /\ Loops /\ ServerStep => TypeOK' /\ Loops'
<1> SUFFICES ASSUME TypeOK, Loops, ServerStep PROVE TypeOK' /\ Loops'
  OBVIOUS
<1>n. Target \in Nat \ {0} /\ QuietTimeouts \in Nat /\ MaxWork \in Nat
  BY ServerAssumption
<1>t. /\ srv \in SrvRec /\ net \in NetRec /\ stop \in StopRec
      /\ work \in 0..MaxWork /\ ev \subseteq Events
  BY DEF TypeOK, SrvRec, NetRec, StopRec
<1>a. /\ Target \in 0..Target /\ Target > 0 /\ 0 \in 0..Target
      /\ \A n \in 0..Target : n > 0 => n - 1 \in 0..Target /\ (n # 1 => n - 1 > 0)
      /\ \A n \in 0..Target : n < Target => n + 1 \in 0..Target
                                    /\ (n + 1 # Target => n + 1 < Target)
      /\ \A n \in 0..QuietTimeouts : n # QuietTimeouts => n + 1 \in 0..QuietTimeouts
  BY <1>n
<1>s. srv' \in SrvRec /\ Loops'
  <2>1. CASE Start
    <3>1. srv' = [srv EXCEPT !.at = "post", !.n = Target]
      BY <2>1 DEF Start
    <3> QED
      BY <1>t, <1>a, <3>1 DEF Loops, SrvRec
  <2>2. CASE PostAccepts
    <3>1. /\ srv.at = "post"
          /\ srv' = [srv EXCEPT !.n = srv.n - 1,
                                !.at = IF srv.n = 1 THEN "wait" ELSE "post"]
      BY <2>2 DEF PostAccepts
    <3>2. srv.n > 0 /\ srv.n \in 0..Target
      BY <1>t, <3>1 DEF Loops, SrvRec
    <3>3. srv.n - 1 \in 0..Target /\ (srv.n # 1 => srv.n - 1 > 0)
      BY <1>a, <3>2
    <3>4. CASE srv.n = 1
      BY <1>t, <3>1, <3>3, <3>4 DEF Loops, SrvRec
    <3>5. CASE srv.n # 1
      BY <1>t, <3>1, <3>3, <3>5 DEF Loops, SrvRec
    <3> QED
      BY <3>4, <3>5
  <2>3. CASE FdAccept \/ ResetFdAccept \/ LowMemoryWait \/ ShutdownEvent \/ Shutdown
    BY <1>t, <1>n, <2>3 DEF FdAccept, ResetFdAccept, LowMemoryWait,
         ShutdownEvent, Shutdown, At, Loops, SrvRec
  <2>4. CASE LowMemory
    BY <1>t, <1>n, <2>4 DEF LowMemory, Signalled, Loops, SrvRec
  <2>5. CASE Timeout
    <3>1. /\ srv.at = "wait" /\ srv.quiet \in 0..QuietTimeouts
          /\ srv' = IF srv.quiet = QuietTimeouts
                      THEN [srv EXCEPT !.at = "topUp", !.n = 0]
                      ELSE [srv EXCEPT !.quiet = srv.quiet + 1]
      BY <1>t, <2>5 DEF Timeout, SrvRec
    <3>2. CASE srv.quiet = QuietTimeouts
      BY <1>t, <1>a, <3>1, <3>2 DEF Loops, SrvRec
    <3>3. CASE srv.quiet # QuietTimeouts
      BY <1>t, <1>a, <3>1, <3>3 DEF Loops, SrvRec
    <3> QED
      BY <3>2, <3>3
  <2>6. CASE TopUp
    <3>1. /\ srv.at = "topUp"
          /\ \/ srv' = [srv EXCEPT !.n = srv.n + 1,
                                   !.at = IF srv.n + 1 = Target
                                            THEN "wait" ELSE "topUp"]
             \/ srv' = [srv EXCEPT !.at = "wait"]
      BY <2>6 DEF TopUp, At
    <3>2. /\ srv.n \in 0..Target /\ srv.n + 1 \in 0..Target
          /\ srv.n + 1 # Target => srv.n + 1 < Target
      BY <1>t, <1>a, <3>1 DEF Loops, SrvRec
    <3>3. CASE srv' = [srv EXCEPT !.at = "wait"]
      BY <1>t, <3>3 DEF Loops, SrvRec
    <3>4. CASE srv' = [srv EXCEPT !.n = srv.n + 1, !.at = "wait"]
      BY <1>t, <3>2, <3>4 DEF Loops, SrvRec
    <3>5. CASE /\ srv' = [srv EXCEPT !.n = srv.n + 1, !.at = "topUp"]
               /\ srv.n + 1 # Target
      BY <1>t, <3>2, <3>5 DEF Loops, SrvRec
    <3> QED
      BY <3>1, <3>3, <3>4, <3>5
  <2> QED
    BY <2>1, <2>2, <2>3, <2>4, <2>5, <2>6 DEF ServerStep
<1>1. work' \in 0..MaxWork
  BY <1>t, <1>n DEF ServerStep, Start, PostAccepts, FdAccept, ResetFdAccept,
       LowMemory, LowMemoryWait, ShutdownEvent, Timeout, TopUp, Shutdown
<1>2. ev' \subseteq Events
  BY <1>t DEF ServerStep, Start, PostAccepts, FdAccept, ResetFdAccept,
       LowMemory, LowMemoryWait, ShutdownEvent, Timeout, TopUp, Shutdown
<1>3. stop' \in StopRec /\ shut' \in {shut, "queued"}
  BY <1>t DEF ServerStep, Start, PostAccepts, FdAccept, ResetFdAccept,
       LowMemory, LowMemoryWait, ShutdownEvent, Timeout, TopUp, Shutdown,
       StopRec
<1>4. net' \in NetRec /\ net'.waiting = net.waiting /\ net'.came = net.came
  BY <1>t DEF ServerStep, Start, PostAccepts, FdAccept, ResetFdAccept,
       LowMemory, LowMemoryWait, ShutdownEvent, Timeout, TopUp, Shutdown,
       NetRec
<1>5. UNCHANGED <<child, live, links, counts, main, memory>>
  BY DEF ServerStep, Start, PostAccepts, FdAccept, ResetFdAccept,
       LowMemory, LowMemoryWait, ShutdownEvent, Timeout, TopUp, Shutdown
<1> QED
  BY <1>s, <1>1, <1>2, <1>3, <1>4, <1>5 DEF TypeOK, SrvRec, NetRec, StopRec

(* The children, the run loop and the shutdown change the list of children *)
(* by an insertion or a removal, or stop the process.                      *)
LEMMA CheckedTypes ==
    ASSUME links \in Links, stop \in StopRec, NEW ok \in BOOLEAN, NEW l,
           ok => l \in Links, Checked(ok, l)
    PROVE  links' \in Links /\ stop' \in StopRec
BY DEF Checked, StopRec

LEMMA ChildTypes ==
    ASSUME TypeOK, NEW c \in Children, CreateClientSocket(c) \/ ChildStep(c)
    PROVE  TypeOK'
<1>n. Target \in Nat \ {0} /\ Width \in Nat \ {0} /\ MaxRefused \in Nat
      /\ MaxWork \in Nat /\ MaxArrivals \in Nat
  <2>1. Cardinality(Children) \in Nat
    BY ServerAssumption, FS_CardinalityType
  <2> QED
    BY <2>1, ServerAssumption
<1>t. /\ child \in [Children -> ChildRec] /\ child[c] \in ChildRec
      /\ links \in Links /\ stop \in StopRec /\ net \in NetRec
      /\ work \in 0..MaxWork /\ live \subseteq Children /\ ev \subseteq Events
      /\ counts \in [accepts : 0..(Width - 1), sem : 0..Target]
      /\ net.waiting <= net.came
  BY DEF TypeOK, ChildRec, Links, StopRec, NetRec
<1>e. <<Nothing, Nothing>> \in Entries \X Entries /\ links[c] \in Entries \X Entries
  BY <1>t DEF Entries, Links
<1>m. \A n \in Int : n % Width \in 0..(Width - 1)
  BY <1>n
<1>1. CASE CreateClientSocket(c)
  <2>1. child' \in [Children -> ChildRec]
    BY <1>1, <1>t DEF CreateClientSocket, Becomes, ChildRec, Where
  <2>2. work' \in 0..MaxWork /\ live' \subseteq Children
    BY <1>1, <1>t, <1>n DEF CreateClientSocket
  <2> QED
    BY <1>1, <2>1, <2>2 DEF CreateClientSocket, TypeOK, ChildRec
<1>2. CASE LinkChild(c)
  <2>1. child' \in [Children -> ChildRec]
    BY <1>2, <1>t DEF LinkChild, Becomes, ChildRec, Where
  <2>2. CheckListEntry(links, Head) \in BOOLEAN
    BY DEF CheckListEntry
  <2>3. links' \in Links /\ stop' \in StopRec
    BY <1>2, <1>t, <2>2, InsertKeeps, CheckedTypes DEF LinkChild
  <2> QED
    BY <1>2, <2>1, <2>3 DEF LinkChild, TypeOK, ChildRec, Links, StopRec
<1>3. CASE AcceptEx(c)
  <2>1. child' \in [Children -> ChildRec]
    <3> DEFINE b == net.waiting > 0
    <3>1. b \in BOOLEAN
      OBVIOUS
    <3>2. child' = [child EXCEPT ![c].at = "counting", ![c].got = b]
      BY <1>3 DEF AcceptEx
    <3> HIDE DEF b
    <3> QED
      BY <3>1, <3>2, <1>t DEF ChildRec, Where
  <2>2. net' \in NetRec /\ net'.waiting <= net'.came
    <3>1. /\ net.waiting \in 0..MaxArrivals /\ net.came \in 0..MaxArrivals
          /\ net' = [net EXCEPT
                        !.waiting = IF net.waiting > 0 THEN net.waiting - 1 ELSE 0,
                        !.armed = ~(net.waiting > 1)]
      BY <1>3, <1>t DEF AcceptEx, NetRec
    <3>2. PICK n \in 0..MaxArrivals :
              /\ n = IF net.waiting > 0 THEN net.waiting - 1 ELSE 0
              /\ n <= net.came
      BY <1>n, <1>t, <3>1
    <3> QED
      BY <1>t, <3>1, <3>2 DEF NetRec
  <2>3. ev' \subseteq Events
    BY <1>3, <1>t DEF AcceptEx, Events
  <2> QED
    BY <1>3, <2>1, <2>2, <2>3 DEF AcceptEx, TypeOK, ChildRec, NetRec
<1>4. CASE AcceptExFails(c)
  <2>1. child' \in [Children -> ChildRec]
    BY <1>4, <1>t DEF AcceptExFails, Becomes, ChildRec, Where
  <2>2. net' \in NetRec /\ net'.waiting <= net'.came
    BY <1>4, <1>t, <1>n DEF AcceptExFails, NetRec
  <2> QED
    BY <1>4, <2>1, <2>2 DEF AcceptExFails, TypeOK, ChildRec, NetRec
<1>5. CASE CountAccept(c)
  <2>1. child' \in [Children -> ChildRec]
    BY <1>5, <1>t DEF CountAccept, Becomes, ChildRec, Where
  <2>2. counts' \in [accepts : 0..(Width - 1), sem : 0..Target]
    BY <1>5, <1>t, <1>m DEF CountAccept
  <2> QED
    BY <1>5, <2>1, <2>2 DEF CountAccept, TypeOK, ChildRec
<1>6. CASE IOCallback(c)
  <2>1. child' \in [Children -> ChildRec]
    BY <1>6, <1>t DEF IOCallback, Stopping, ChildRec, Where, StopRec
  <2> QED
    BY <1>6, <2>1 DEF IOCallback, TypeOK, ChildRec
<1>7. CASE Accepted(c)
  <2>1. child' \in [Children -> ChildRec]
    BY <1>7, <1>t DEF Accepted, ChildRec, Where
  <2>2. counts' \in [accepts : 0..(Width - 1), sem : 0..Target]
    BY <1>7, <1>t, <1>m DEF Accepted
  <2> QED
    BY <1>7, <2>1, <2>2 DEF Accepted, TypeOK, ChildRec
<1>8. CASE Ends(c)
  <2>1. child' \in [Children -> ChildRec]
    BY <1>8, <1>t DEF Ends, ChildRec, Where
  <2> QED
    BY <1>8, <2>1 DEF Ends, TypeOK, ChildRec
<1>9. CASE Recycle(c)
  <2>1. child' \in [Children -> ChildRec]
    BY SMTT(30), <1>9, <1>t, <1>e DEF Recycle, Becomes, ChildRec, Where
  <2>2. counts' \in [accepts : 0..(Width - 1), sem : 0..Target]
    BY <1>9, <1>t, <1>n, <1>m DEF Recycle
  <2> QED
    BY <1>9, <2>1, <2>2 DEF Recycle, TypeOK, ChildRec
<1>10. CASE Restore(c)
  <2>1. child' \in [Children -> ChildRec]
    BY <1>10, <1>t, <1>e DEF Restore, ChildRec, Where
  <2>2. links' \in Links
    BY <1>10, <1>t DEF Restore, ChildRec, Links
  <2> QED
    BY <1>10, <2>1, <2>2 DEF Restore, TypeOK, ChildRec, Links
<1>11. CASE UnlinkChild(c)
  <2>1. child' \in [Children -> ChildRec]
    BY <1>11, <1>t DEF UnlinkChild, Becomes, ChildRec, Where
  <2>2. links' \in Links /\ stop' \in StopRec
    BY <1>11, <1>t, RemoveKeeps, CheckedTypes DEF UnlinkChild, UnlinkEntry
  <2> QED
    BY <1>11, <2>1, <2>2 DEF UnlinkChild, TypeOK, ChildRec, Links, StopRec
<1> QED
  BY <1>1, <1>2, <1>3, <1>4, <1>5, <1>6, <1>7, <1>8, <1>9, <1>10, <1>11 DEF ChildStep


LEMMA OtherTypes ==
    ASSUME TypeOK, Failing,
           CreateFails \/ MainStep \/ ShutdownStep \/ Arrive
              \/ AskForShutdown \/ MemoryChanges
    PROVE  TypeOK'
<1>n. MaxWork \in Nat /\ MaxArrivals \in Nat
  BY ServerAssumption
<1>t. /\ child \in [Children -> ChildRec]
      /\ links \in Links /\ stop \in StopRec /\ net \in NetRec
      /\ work \in 0..MaxWork /\ live \subseteq Children /\ ev \subseteq Events
      /\ main \in MainRec /\ main.errors \subseteq Children
      /\ net.waiting <= net.came
  BY DEF TypeOK, ChildRec, Links, StopRec, NetRec, MainRec
<1>b. \A c \in Children, where \in Where :
          Becomes(c, where) => child' \in [Children -> ChildRec]
  BY <1>t DEF Becomes, ChildRec
<1>1. CASE CreateFails
  <2>1. work' \in 0..MaxWork
    BY <1>1, <1>t, <1>n DEF CreateFails
  <2> QED
    BY <1>1, <2>1 DEF CreateFails, TypeOK
<1>2. CASE \E c \in Children : TakeError(c)
  <2>1. PICK c \in Children : TakeError(c)
    BY <1>2
  <2>2. main' = [main EXCEPT !.errors = main.errors \ {c}, !.unlinks = c]
    BY <2>1 DEF TakeError
  <2>3. main' \in MainRec
    BY <2>2, <1>t DEF MainRec
  <2> QED
    BY <2>1, <2>3 DEF TakeError, TypeOK, MainRec
<1>3. CASE \E c \in Children : Dealloc(c)
  <2>1. child' \in [Children -> ChildRec] /\ live' \subseteq Children
    BY <1>3, <1>t, <1>b DEF Dealloc, Where
  <2> QED
    BY <1>3, <2>1 DEF Dealloc, TypeOK, ChildRec
<1>4. CASE UnlinkFailed
  <2> DEFINE c == main.unlinks
  <2>1. c \in Children
    BY <1>4, <1>t DEF UnlinkFailed
  <2>2. child' \in [Children -> ChildRec]
    BY <1>4, <2>1, <1>b DEF UnlinkFailed, Where
  <2>3. links' \in Links /\ stop' \in StopRec
    BY <1>4, <1>t, <2>1, RemoveKeeps, CheckedTypes DEF UnlinkFailed, UnlinkEntry
  <2> QED
    BY ZenonT(60), <1>4, <2>2, <2>3 DEF UnlinkFailed, TypeOK, ChildRec, Links, StopRec
<1>5. CASE BeginShutdown
  <2>1. /\ net' \in NetRec /\ net'.waiting = 0 /\ net'.came = net.came
        /\ work' \in 0..MaxWork
    <3>1. 0 \in 0..MaxArrivals /\ 0 \in 0..MaxWork
      BY <1>n
    <3>2. net' = [net EXCEPT !.open = FALSE, !.waiting = 0] /\ work' = 0
      BY <1>5 DEF BeginShutdown
    <3> QED
      BY <3>1, <3>2, <1>t DEF NetRec
  <2> QED
    BY <1>5, <2>1, <1>n, <1>t DEF BeginShutdown, Frozen, TypeOK, NetRec
<1>6. CASE CleanupChild
  <2> DEFINE c == links[Head][1]
             rest == RemoveEntryList(links, c)
  <2>1. CASE stop' = [stop EXCEPT !.trap = TRUE] /\ UNCHANGED <<links, live, child>>
    BY ZenonT(60), <1>6, <2>1, <1>t DEF CleanupChild, Frozen, TypeOK, StopRec
  <2>2. CASE CheckListEntry(links, Head) /\ links[c][1] # Nothing
    <3>1. c \in Children
      <4>1. c \in Entries
        BY <1>t, EntryOf
      <4> QED
        BY <4>1, <1>6, <2>2 DEF CleanupChild, CheckListEntry, Entries
    <3>2. rest \in Links /\ InsertTailList(rest, c) \in Links
      BY <1>t, <3>1, RemoveKeeps, InsertKeeps
    <3>3. links' \in Links /\ live' \subseteq Children /\ stop' = stop
      BY <1>6, <1>t, <2>2, <3>2 DEF CleanupChild
    <3>4. child' \in [Children -> ChildRec]
      BY <1>6, <1>t, <1>b, <2>2, <3>1 DEF CleanupChild, Where
    <3> QED
      BY <1>6, <3>3, <3>4 DEF CleanupChild, Frozen, TypeOK, ChildRec, Links
  <2> QED
    BY <1>6, <2>1, <2>2 DEF CleanupChild
<1>7. CASE ChildrenGone
  BY ZenonT(60), <1>7, <1>t DEF ChildrenGone, Frozen, TypeOK, StopRec
<1>8. CASE EndShutdown
  BY <1>8 DEF EndShutdown, Frozen, TypeOK
<1>9. CASE Arrive
  <2>1. net' \in NetRec /\ net'.waiting <= net'.came
    <3>1. /\ net.came \in Nat /\ net.came + 1 \in 0..MaxArrivals
          /\ net.waiting \in Nat /\ net.waiting + 1 <= net.came + 1
          /\ net.waiting + 1 \in 0..MaxArrivals
          /\ net.waiting <= net.came + 1
      BY <1>9, <1>t, <1>n DEF Arrive, NetRec
    <3> QED
      BY <1>9, <1>t, <3>1 DEF Arrive, NetRec
  <2>2. child' \in [Children -> ChildRec]
    <3>1. CASE UNCHANGED child
      BY <3>1, <1>t
    <3>2. CASE \E c \in live : child' = [child EXCEPT ![c].got = TRUE]
      BY ZenonT(60), <3>2, <1>t DEF ChildRec
    <3> QED
      BY <1>9, <3>1, <3>2 DEF Arrive
  <2>3. ev' \subseteq Events
    BY <1>9, <1>t DEF Arrive, Events
  <2> QED
    BY <1>9, <2>1, <2>2, <2>3 DEF Arrive, TypeOK, ChildRec, NetRec
<1>10. CASE AskForShutdown
  <2>1. ev' \subseteq Events
    BY <1>10, <1>t DEF AskForShutdown, Events
  <2>2. main' = [main EXCEPT !.asked = TRUE]
    BY <1>10 DEF AskForShutdown
  <2>3. main' \in MainRec
    BY <2>2, <1>t DEF MainRec
  <2>4. UNCHANGED <<srv, net, work, child, live, links, counts, stop, shut,
                    memory>>
    BY <1>10 DEF AskForShutdown
  <2> QED
    BY <2>1, <2>3, <2>4 DEF TypeOK, MainRec
<1>11. CASE MemoryChanges
  <2>1. ev' \subseteq Events /\ memory' \in {"low", "over"}
    BY <1>11, <1>t DEF MemoryChanges, Events
  <2> QED
    BY <1>11, <2>1 DEF MemoryChanges, TypeOK
<1> QED
  BY <1>1, <1>2, <1>3, <1>4, <1>5, <1>6, <1>7, <1>8, <1>9, <1>10, <1>11
     DEF MainStep, ShutdownStep


-----------------------------------------------------------------------------
(* The order of start and shutdown                                         *)

(* Only the thread of the server changes its place and its loops.          *)
LEMMA SrvStays == Next => ServerStep \/ UNCHANGED srv
BY DEF Next, Create, CreateClientSocket, CreateFails, MainStep, UnlinkFailed,
     TakeError, Dealloc, ShutdownStep, BeginShutdown, CleanupChild,
     ChildrenGone, EndShutdown, Frozen, ChildStep, LinkChild, AcceptEx,
     AcceptExFails, CountAccept, IOCallback, Accepted, Ends, Recycle, Restore,
     UnlinkChild, Arrive, AskForShutdown, MemoryChanges

(* Only the shutdown closes the socket, and only the thread of the server  *)
(* opens it.                                                               *)
LEMMA OpenStays ==
    TypeOK /\ Next => Start \/ BeginShutdown \/ net'.open = net.open
BY ZenonT(60) DEF TypeOK, Next, ServerStep, PostAccepts, FdAccept, ResetFdAccept, LowMemory,
     LowMemoryWait, ShutdownEvent, Timeout, TopUp, Shutdown,
     Create, CreateClientSocket, CreateFails, MainStep, UnlinkFailed,
     TakeError, Dealloc, ShutdownStep, CleanupChild,
     ChildrenGone, EndShutdown, Frozen, ChildStep, LinkChild, AcceptEx,
     AcceptExFails, CountAccept, IOCallback, Accepted, Ends, Recycle, Restore,
     UnlinkChild, Arrive, AskForShutdown, MemoryChanges

LEMMA ShutStays ==
    Next => Shutdown \/ ShutdownStep \/ UNCHANGED shut
BY DEF Next, ServerStep, Start, PostAccepts, FdAccept, ResetFdAccept,
     LowMemory, LowMemoryWait, ShutdownEvent, Timeout, TopUp,
     Create, CreateClientSocket, CreateFails, MainStep, UnlinkFailed,
     TakeError, Dealloc, ChildStep, LinkChild, AcceptEx,
     AcceptExFails, CountAccept, IOCallback, Accepted, Ends, Recycle, Restore,
     UnlinkChild, Arrive, AskForShutdown, MemoryChanges

LEMMA WorkGrows ==
    TypeOK /\ Next => PostAccepts \/ FdAccept \/ TopUp \/ work' = work
                        \/ (work > 0 /\ work' = work - 1) \/ work' = 0
BY DEF Next, ServerStep, Start, ResetFdAccept,
     LowMemory, LowMemoryWait, ShutdownEvent, Timeout, Shutdown,
     Create, CreateClientSocket, CreateFails, MainStep, UnlinkFailed,
     TakeError, Dealloc, ShutdownStep, BeginShutdown, CleanupChild,
     ChildrenGone, EndShutdown, Frozen, ChildStep, LinkChild, AcceptEx,
     AcceptExFails, CountAccept, IOCallback, Accepted, Ends, Recycle, Restore,
     UnlinkChild, Arrive, AskForShutdown, MemoryChanges

(* A shutdown is not taken back.                                           *)
LEMMA DownStays ==
    TypeOK /\ Next => (stop.down => stop'.down) /\ (Stopping => Stopping')
BY ZenonT(60) DEF TypeOK, Stopping, Checked, UnlinkEntry, Next, ServerStep, Start,
     PostAccepts, FdAccept, ResetFdAccept,
     LowMemory, LowMemoryWait, ShutdownEvent, Timeout, TopUp, Shutdown,
     Create, CreateClientSocket, CreateFails, MainStep, UnlinkFailed,
     TakeError, Dealloc, ShutdownStep, BeginShutdown, CleanupChild,
     ChildrenGone, EndShutdown, Frozen, ChildStep, LinkChild, AcceptEx,
     AcceptExFails, CountAccept, IOCallback, Accepted, Ends, Recycle, Restore,
     UnlinkChild, Arrive, AskForShutdown, MemoryChanges


LEMMA ShutdownOrderStep ==
    TypeOK /\ ShutdownOrder /\ Unstarted /\ Next => ShutdownOrder'
<1> SUFFICES ASSUME TypeOK, ShutdownOrder, Unstarted, Next PROVE ShutdownOrder'
  OBVIOUS
<1>t. /\ srv \in SrvRec /\ stop \in StopRec /\ net \in NetRec /\ work \in 0..MaxWork
      /\ shut \in {"none", "queued", "children", "close", "freed"}
  BY DEF TypeOK, SrvRec, StopRec, NetRec
<1>1. CASE srv.at = "ended"
  <2>1. ~ServerStep
    BY <1>1 DEF ServerStep, Start, PostAccepts, FdAccept, ResetFdAccept,
         LowMemory, LowMemoryWait, ShutdownEvent, Timeout, TopUp, Shutdown,
         Signalled
  <2>2. /\ UNCHANGED srv
        /\ ~Start /\ ~PostAccepts /\ ~FdAccept /\ ~TopUp /\ ~Shutdown
    BY <2>1, SrvStays DEF ServerStep
  <2>3. shut # "none" /\ work = 0 => work' = 0
    BY <2>2, WorkGrows
  <2>4. CASE ShutdownStep
    BY <1>1, <1>t, <2>2, <2>3, <2>4, DownStays, OpenStays
       DEF ShutdownOrder, NoneCreatedLate, ShutdownStep, BeginShutdown,
           CleanupChild, ChildrenGone, EndShutdown, NetRec
  <2>5. CASE ~ShutdownStep
    <3>1. UNCHANGED shut /\ net'.open = net.open
      BY <2>2, <2>5, ShutStays, OpenStays DEF ShutdownStep
    <3> QED
      BY <1>1, <2>2, <2>3, <3>1, DownStays DEF ShutdownOrder, NoneCreatedLate
  <2> QED
    BY <2>4, <2>5
<1>2. CASE srv.at # "ended"
  <2>1. shut = "none"
    BY <1>2 DEF ShutdownOrder
  <2>2. ~ShutdownStep
    BY <2>1 DEF ShutdownStep, BeginShutdown, CleanupChild, ChildrenGone,
         EndShutdown
  <2>3. CASE Shutdown
    BY <1>t, <2>1, <2>3 DEF Shutdown, At, ShutdownOrder, NoneCreatedLate,
         SrvRec, StopRec
  <2>4. CASE ~Shutdown
    <3>1. shut' = "none"
      BY <2>1, <2>2, <2>4, ShutStays
    <3>2. CASE Start
      BY <3>1, <3>2, <1>t DEF Start, SrvRec, NetRec, ShutdownOrder,
           NoneCreatedLate
    <3>3. CASE ~Start
      <4>1. net'.open = net.open
        BY <2>2, <3>3, OpenStays DEF ShutdownStep
      <4>2. srv'.at = "start" <=> srv.at = "start"
        <5>1. CASE ServerStep
          BY <5>1, <3>3, <1>t DEF ServerStep, PostAccepts, FdAccept,
             ResetFdAccept, LowMemory, LowMemoryWait, ShutdownEvent, Timeout,
             TopUp, Shutdown, Signalled, At, SrvRec
        <5> QED
          BY <5>1, SrvStays
      <4> QED
        BY <2>1, <3>1, <4>1, <4>2 DEF ShutdownOrder, NoneCreatedLate
    <3> QED
      BY <3>2, <3>3
  <2> QED
    BY <2>3, <2>4
<1> QED
  BY <1>1, <1>2


(* Before the server is started nothing happens to it.                     *)
LEMMA UnstartedStep ==
    TypeOK /\ ShutdownOrder /\ Unstarted /\ Next => Unstarted'
<1> SUFFICES ASSUME TypeOK, ShutdownOrder, Unstarted, Next, srv'.at = "start"
             PROVE  Unstarted'
  BY DEF Unstarted
<1>t. srv \in SrvRec
  BY DEF TypeOK, SrvRec
<1>1. ~ServerStep
  BY <1>t DEF ServerStep, Start, PostAccepts, FdAccept, ResetFdAccept,
       LowMemory, LowMemoryWait, ShutdownEvent, Timeout, TopUp, Shutdown,
       Signalled, At, SrvRec
<1>2. /\ srv.at = "start" /\ work = 0 /\ live = {} /\ shut = "none"
      /\ counts.accepts = 0 /\ net.refused = 0 /\ ~net.open
  BY <1>1, SrvStays DEF Unstarted, ShutdownOrder
<1>3. /\ ~Create /\ ~ShutdownStep /\ ~Arrive /\ ~UnlinkFailed
      /\ \A c \in Children : ~ChildStep(c) /\ ~TakeError(c)
  BY <1>2 DEF Create, CreateClientSocket, CreateFails, ShutdownStep,
       BeginShutdown, CleanupChild, ChildrenGone, EndShutdown, Arrive,
       UnlinkFailed, ChildStep, TakeError
<1> QED
  BY <1>1, <1>2, <1>3 DEF Next, MainStep, Dealloc, AskForShutdown,
       MemoryChanges, Unstarted

-----------------------------------------------------------------------------
(* The children that fail                                                  *)

LEMMA FailingOfChild ==
    ASSUME TypeOK, Failing, NEW d \in Children,
           CreateClientSocket(d) \/ ChildStep(d)
    PROVE  Failing'
<1>t. child \in [Children -> ChildRec] /\ main \in MainRec /\ live \subseteq Children
      /\ child[d] \in ChildRec /\ NoOne \notin Children
  BY ServerAssumption DEF TypeOK, ChildRec, MainRec
<1>1. \A c \in Children \ {d} : child'[c] = child[c]
  BY <1>t DEF CreateClientSocket, ChildStep, LinkChild, AcceptEx, AcceptExFails,
     CountAccept, IOCallback, Accepted, Ends, Recycle, Restore, UnlinkChild, Becomes
<1>2. /\ child[d].at \notin {"failed", "destroyed"} /\ child'[d].at # "destroyed"
  BY <1>t DEF CreateClientSocket, ChildStep, LinkChild, AcceptEx, AcceptExFails,
     CountAccept, IOCallback, Accepted, Ends, Recycle, Restore, UnlinkChild,
     Becomes, ChildRec
<1>3. \/ main' = main
      \/ /\ main' = [main EXCEPT !.errors = main.errors \union {d}]
         /\ child'[d].at = "failed"
  BY <1>t DEF CreateClientSocket, ChildStep, LinkChild, AcceptEx, AcceptExFails,
     CountAccept, IOCallback, Accepted, Ends, Recycle, Restore, UnlinkChild,
     Becomes, ChildRec
<1>4. live' \subseteq live \union {d}
  BY DEF CreateClientSocket, ChildStep, LinkChild, AcceptEx, AcceptExFails,
     CountAccept, IOCallback, Accepted, Ends, Recycle, Restore, UnlinkChild
<1>5. /\ main'.unlinks = main.unlinks /\ main.unlinks # d
      /\ main'.errors = main.errors \/ (main'.errors = main.errors \union {d}
                                          /\ child'[d].at = "failed")
      /\ d \notin main.errors
  BY <1>t, <1>2, <1>3 DEF MainRec, Failing
<1>6. \A c \in main'.errors \union ({main'.unlinks} \ {NoOne}) :
          child'[c].at \in {"failed", "destroyed"}
  BY <1>t, <1>1, <1>5 DEF Failing, MainRec
<1>7. \A c \in live' : child'[c].at # "destroyed"
  BY <1>t, <1>1, <1>2, <1>4 DEF Failing
<1> QED
  BY <1>5, <1>6, <1>7 DEF Failing

LEMMA FailingStep == TypeOK /\ Failing /\ Next => Failing'
<1> SUFFICES ASSUME TypeOK, Failing, Next PROVE Failing'
  OBVIOUS
<1>t. /\ child \in [Children -> ChildRec] /\ main \in MainRec
      /\ live \subseteq Children /\ NoOne \notin Children
      /\ main.errors \subseteq Children
  BY ServerAssumption DEF TypeOK, ChildRec, MainRec
<1>1. CASE UNCHANGED <<child, live, main>>
  BY <1>1 DEF Failing
<1>2. CASE \E d \in Children : CreateClientSocket(d) \/ ChildStep(d)
  BY <1>2, FailingOfChild
<1>3. CASE \E c \in Children : TakeError(c)
  <2>1. PICK c \in Children : TakeError(c)
    BY <1>3
  <2>2. /\ main' = [main EXCEPT !.errors = main.errors \ {c}, !.unlinks = c]
        /\ c \in main.errors /\ UNCHANGED <<child, live>>
    BY <2>1 DEF TakeError
  <2>3. main'.errors = main.errors \ {c} /\ main'.unlinks = c
    BY <1>t, <2>2 DEF MainRec
  <2> QED
    BY <2>2, <2>3 DEF Failing
<1>4. CASE UnlinkFailed
  <2> DEFINE c == main.unlinks
  <2>1. /\ c \in Children /\ child' = [child EXCEPT ![c].at = "retired"]
        /\ c \notin main.errors /\ main' = [main EXCEPT !.unlinks = NoOne]
        /\ UNCHANGED live
    BY <1>4, <1>t DEF UnlinkFailed, Becomes, Failing
  <2>2. main'.errors = main.errors /\ main'.unlinks = NoOne
    BY <1>t, <2>1 DEF MainRec
  <2>3. child'[c].at = "retired" /\ \A d \in Children \ {c} : child'[d] = child[d]
    BY <1>t, <2>1 DEF ChildRec
  <2> QED
    BY <1>t, <2>1, <2>2, <2>3 DEF Failing
<1>5. CASE \E c \in Children : Dealloc(c)
  <2>1. PICK c \in Children : Dealloc(c)
    BY <1>5
  <2>2. /\ child[c].at = "retired" /\ child' = [child EXCEPT ![c].at = "none"]
        /\ live' = live \ {c} /\ UNCHANGED main
    BY <2>1 DEF Dealloc, Becomes
  <2>3. /\ child'[c].at = "none" /\ \A d \in Children \ {c} : child'[d] = child[d]
        /\ c \notin main.errors /\ c # main.unlinks
    BY <1>t, <2>1, <2>2 DEF ChildRec, Failing
  <2> QED
    BY <1>t, <2>2, <2>3 DEF Failing
<1>6. CASE CleanupChild
  <2> DEFINE c == links[Head][1]
  <2>1. CASE UNCHANGED <<child, live>>
    BY <1>6, <2>1 DEF CleanupChild, Frozen, Failing
  <2>2. CASE Becomes(c, "destroyed") /\ live' = live \ {c}
    <3>1. \A d \in Children \ {c} : child'[d] = child[d]
      BY <1>t, <2>2 DEF Becomes
    <3>2. c \in Children => child'[c].at = "destroyed"
      BY <1>t, <2>2 DEF Becomes, ChildRec
    <3>3. UNCHANGED main
      BY <1>6 DEF CleanupChild, Frozen
    <3> QED
      BY <1>t, <2>2, <3>1, <3>2, <3>3 DEF Failing, MainRec
  <2> QED
    BY <1>6, <2>1, <2>2 DEF CleanupChild
<1>7. CASE Arrive
  <2>1. UNCHANGED <<live, main>> /\ \A c \in Children : child'[c].at = child[c].at
    BY <1>7, <1>t DEF Arrive, ChildRec
  <2> QED
    BY <1>t, <2>1 DEF Failing, MainRec
<1>8. CASE AskForShutdown
  <2>1. UNCHANGED <<child, live>> /\ main' = [main EXCEPT !.asked = TRUE]
    BY <1>8 DEF AskForShutdown
  <2>2. main'.errors = main.errors /\ main'.unlinks = main.unlinks
    BY <1>t, <2>1 DEF MainRec
  <2> QED
    BY <2>1, <2>2 DEF Failing
<1>9. CASE ServerStep \/ CreateFails \/ BeginShutdown \/ ChildrenGone
             \/ EndShutdown \/ MemoryChanges
  BY <1>9, <1>1 DEF ServerStep, Start, PostAccepts, FdAccept, ResetFdAccept,
     LowMemory, LowMemoryWait, ShutdownEvent, Timeout, TopUp, Shutdown,
     CreateFails, BeginShutdown, ChildrenGone, EndShutdown, Frozen,
     MemoryChanges
<1> QED
  BY <1>2, <1>3, <1>4, <1>5, <1>6, <1>7, <1>8, <1>9
     DEF Next, Create, MainStep, ShutdownStep


-----------------------------------------------------------------------------
(* The count                                                               *)

(* Counting within a width.                                                *)
LEMMA WidthCounts ==
    ASSUME NEW n \in Int
    PROVE  /\ ((n % Width) + 1) % Width = (n + 1) % Width
           /\ ((n % Width) - 1) % Width = (n - 1) % Width
<1>n. Width \in Nat /\ Width > 0
  <2>1. Cardinality(Children) \in Nat
    BY ServerAssumption, FS_CardinalityType
  <2> QED
    BY <2>1, ServerAssumption
<1>1. PICK q \in Int : n = q * Width + (n % Width)
  BY <1>n
<1>2. n % Width \in 0..(Width - 1)
  BY <1>n
<1>3. \A p \in Int, r \in 0..(Width - 1) : (p * Width + r) % Width = r
  BY <1>n
<1> DEFINE r == n % Width
<1>4. (r + 1) % Width = (n + 1) % Width
  <2>1. CASE r = Width - 1
    <3>1. n + 1 = (q + 1) * Width + 0 /\ r + 1 = 1 * Width + 0
      BY <1>1, <1>2, <2>1, <1>n
    <3>2. (n + 1) % Width = 0 /\ (r + 1) % Width = 0
      BY <3>1, <1>3, <1>n
    <3> QED
      BY <3>2
  <2>2. CASE r # Width - 1
    <3>1. r + 1 \in 0..(Width - 1)
      BY <1>2, <2>2, <1>n
    <3>2. n + 1 = q * Width + (r + 1) /\ r + 1 = 0 * Width + (r + 1)
      BY <1>1, <1>2, <1>n
    <3>3. (n + 1) % Width = r + 1 /\ (r + 1) % Width = r + 1
      BY <3>1, <3>2, <1>3
    <3> QED
      BY <3>3
  <2> QED
    BY <2>1, <2>2
<1>5. (r - 1) % Width = (n - 1) % Width
  <2>1. CASE r = 0
    <3>1. n - 1 = (q - 1) * Width + (Width - 1) /\ r - 1 = (-1) * Width + (Width - 1)
      BY <1>1, <1>2, <2>1, <1>n
    <3>2. Width - 1 \in 0..(Width - 1) /\ q - 1 \in Int /\ -1 \in Int
      BY <1>n
    <3>3. (n - 1) % Width = Width - 1 /\ (r - 1) % Width = Width - 1
      BY <3>1, <3>2, <1>3
    <3> QED
      BY <3>3
  <2>2. CASE r # 0
    <3>1. r - 1 \in 0..(Width - 1)
      BY <1>2, <2>2, <1>n
    <3>2. n - 1 = q * Width + (r - 1) /\ r - 1 = 0 * Width + (r - 1)
      BY <1>1, <1>2, <1>n
    <3>3. (n - 1) % Width = r - 1 /\ (r - 1) % Width = r - 1
      BY <3>1, <3>2, <1>3
    <3> QED
      BY <3>3
  <2> QED
    BY <2>1, <2>2
<1> QED
  BY <1>4, <1>5

LEMMA CountTypes ==
    ASSUME TypeOK
    PROVE  /\ IsFiniteSet(Posted) /\ Cardinality(Posted) \in Nat
           /\ IsFiniteSet(Refused) /\ Cardinality(Refused) \in Nat
           /\ net.refused \in Nat /\ Difference \in Int
<1>1. /\ IsFiniteSet(Children) /\ Posted \subseteq Children
      /\ Refused \subseteq Children
  BY ServerAssumption DEF TypeOK, Posted, Refused
<1>2. net.refused \in Nat
  <2>1. MaxRefused \in Nat
    BY ServerAssumption
  <2> QED
    BY <2>1 DEF TypeOK
<1>3. /\ IsFiniteSet(Posted) /\ IsFiniteSet(Refused)
  BY <1>1, FS_Subset
<1>4. Cardinality(Posted) \in Nat /\ Cardinality(Refused) \in Nat
  BY <1>3, FS_CardinalityType
<1> QED
  BY <1>2, <1>3, <1>4 DEF Difference

(* A step that lets nobody post or fail, and counts nothing.               *)
LEMMA CountStays ==
    ASSUME Counted, counts'.accepts = counts.accepts, net'.refused = net.refused,
           Stopping => Stopping',
           \A c \in Children :
              /\ c \in Posted <=> c \in live' /\ child'[c].at = "posted"
              /\ c \in Refused <=> c \in live' /\ child'[c].at = "refused",
           live \subseteq Children, live' \subseteq Children
    PROVE  Counted'
<1>1. Posted' = Posted /\ Refused' = Refused
  BY DEF Posted, Refused
<1> QED
  BY <1>1 DEF Counted, Difference


LEMMA CountOfChild ==
    ASSUME TypeOK, Unstarted, ShutdownOrder, Counted, ~Stopping,
           NEW c \in Children, ChildStep(c)
    PROVE  Counted'
<1>t. /\ child \in [Children -> ChildRec] /\ child[c] \in ChildRec
      /\ live \subseteq Children /\ c \in live /\ net \in NetRec
      /\ counts \in [accepts : 0..(Width - 1), sem : 0..Target]
      /\ counts.accepts = Difference % Width
      /\ counts.accepts \in Int
      /\ ~stop.down
  <2>1. Cardinality(Children) \in Nat
    BY ServerAssumption, FS_CardinalityType
  <2> QED
    BY <2>1, ServerAssumption
       DEF TypeOK, ChildRec, NetRec, ChildStep, Counted, Stopping
<1>o. net.open
  BY <1>t DEF Unstarted, ShutdownOrder
<1>f. /\ IsFiniteSet(Posted) /\ Cardinality(Posted) \in Nat
      /\ IsFiniteSet(Refused) /\ Cardinality(Refused) \in Nat
      /\ net.refused \in Nat /\ Difference \in Int
  BY CountTypes
<1>w. /\ (counts.accepts + 1) % Width = (Difference + 1) % Width
      /\ (counts.accepts - 1) % Width = (Difference - 1) % Width
  BY <1>t, <1>f, WidthCounts
<1>1. \A d \in Children \ {c} : child'[d] = child[d]
  BY <1>t DEF ChildStep, LinkChild, AcceptEx, AcceptExFails,
     CountAccept, IOCallback, Accepted, Ends, Recycle, Restore, UnlinkChild, Becomes
<1>2. live' = live
  BY DEF ChildStep, LinkChild, AcceptEx, AcceptExFails,
     CountAccept, IOCallback, Accepted, Ends, Recycle, Restore, UnlinkChild
<1>3. /\ Posted \ {c} = Posted' \ {c} /\ Refused \ {c} = Refused' \ {c}
      /\ c \in Posted <=> child[c].at = "posted"
      /\ c \in Refused <=> child[c].at = "refused"
      /\ c \in Posted' <=> child'[c].at = "posted"
      /\ c \in Refused' <=> child'[c].at = "refused"
  BY <1>1, <1>2, <1>t DEF Posted, Refused
<1>4. CASE CountAccept(c)
  <2>1. /\ child[c].at = "counting" /\ child'[c].at = "posted"
        /\ counts'.accepts = (counts.accepts + 1) % Width /\ UNCHANGED net
    BY <1>4, <1>t DEF CountAccept, Becomes, ChildRec
  <2>2. Posted' = Posted \union {c} /\ Refused' = Refused /\ c \notin Posted
    <3>1. c \notin Posted /\ c \notin Refused /\ c \in Posted' /\ c \notin Refused'
      BY <1>3, <2>1
    <3> QED
      BY <1>3, <3>1
  <2>3. Cardinality(Posted') = Cardinality(Posted) + 1
    BY <1>f, <2>2, FS_AddElement
  <2>4. Difference' = Difference + 1
    BY <1>f, <2>1, <2>2, <2>3 DEF Difference
  <2> QED
    BY <1>w, <2>1, <2>4 DEF Counted
<1>5. CASE Accepted(c)
  <2>1. /\ child[c].at = "posted" /\ child'[c].at \in {"connected", "closing"}
        /\ counts'.accepts = (counts.accepts - 1) % Width /\ UNCHANGED net
    BY <1>5, <1>t DEF Accepted, ChildRec
  <2>2. Posted' = Posted \ {c} /\ Refused' = Refused /\ c \in Posted
    BY <1>3, <2>1
  <2>3. Cardinality(Posted') = Cardinality(Posted) - 1
    BY <1>f, <2>2, FS_RemoveElement
  <2>4. Difference' = Difference - 1
    BY <1>f, <2>1, <2>2, <2>3 DEF Difference
  <2> QED
    BY <1>w, <2>1, <2>4 DEF Counted
<1>6. CASE AcceptExFails(c)
  <2>1. /\ child[c].at = "posting" /\ child'[c].at = "refused"
        /\ UNCHANGED counts /\ net' = [net EXCEPT !.refused = net.refused + 1]
    BY <1>6, <1>t, <1>o DEF AcceptExFails, Becomes, ChildRec
  <2>2. net'.refused = net.refused + 1
    BY <1>t, <2>1 DEF NetRec
  <2>3. Posted' = Posted /\ Refused' = Refused \union {c} /\ c \notin Refused
    BY <1>3, <2>1
  <2>4. Cardinality(Refused') = Cardinality(Refused) + 1
    BY <1>f, <2>3, FS_AddElement
  <2>5. Difference' = Difference
    BY <1>f, <2>2, <2>3, <2>4 DEF Difference
  <2> QED
    BY <1>t, <2>1, <2>5 DEF Counted
<1>7. CASE Recycle(c)
  <2>1. /\ child'[c].at \in {"unlinking", "copied"} /\ UNCHANGED net
        /\ child[c].at \in {"closing", "refused"}
        /\ counts'.accepts = IF child[c].at = "refused"
                               THEN (counts.accepts - 1) % Width
                               ELSE counts.accepts
    BY <1>7, <1>t DEF Recycle, Becomes, ChildRec
  <2>2. CASE child[c].at = "closing"
    <3>1. Posted' = Posted /\ Refused' = Refused
      BY <1>3, <2>1, <2>2
    <3> QED
      BY <1>t, <2>1, <2>2, <3>1 DEF Counted, Difference
  <2>3. CASE child[c].at = "refused"
    <3>1. Posted' = Posted /\ Refused' = Refused \ {c} /\ c \in Refused
      BY <1>3, <2>1, <2>3
    <3>2. Cardinality(Refused') = Cardinality(Refused) - 1
      BY <1>f, <3>1, FS_RemoveElement
    <3>3. Difference' = Difference - 1
      BY <1>f, <2>1, <3>1, <3>2 DEF Difference
    <3> QED
      BY <1>w, <2>1, <2>3, <3>3 DEF Counted
  <2> QED
    BY <2>1, <2>2, <2>3
<1>8. CASE \/ LinkChild(c) \/ AcceptEx(c) \/ IOCallback(c) \/ Ends(c)
           \/ Restore(c) \/ UnlinkChild(c)
  <2>1. /\ child[c].at = "posted" <=> child'[c].at = "posted"
        /\ child[c].at = "refused" <=> child'[c].at = "refused"
    BY <1>8, <1>t DEF LinkChild, AcceptEx, IOCallback, Ends, Restore,
       UnlinkChild, Becomes, ChildRec, Stopping
  <2>2. UNCHANGED counts /\ net'.refused = net.refused
    BY <1>8, <1>t DEF LinkChild, AcceptEx, IOCallback, Ends, Restore,
       UnlinkChild, NetRec
  <2>3. \A d \in Children :
           /\ d \in Posted <=> d \in live' /\ child'[d].at = "posted"
           /\ d \in Refused <=> d \in live' /\ child'[d].at = "refused"
    BY <1>1, <1>2, <2>1 DEF Posted, Refused
  <2> QED
    BY <1>2, <1>t, <2>2, <2>3, CountStays
<1> QED
  BY <1>4, <1>5, <1>6, <1>7, <1>8 DEF ChildStep

LEMMA CountStep ==
    TypeOK /\ Unstarted /\ ShutdownOrder /\ Failing /\ Counted /\ Next => Counted'
<1> SUFFICES ASSUME TypeOK, Unstarted, ShutdownOrder, Failing, Counted, Next
             PROVE  Counted'
  OBVIOUS
<1>1. CASE Stopping
  BY <1>1, DownStays DEF Counted
<1>2. CASE ~Stopping
  <2>t. /\ child \in [Children -> ChildRec] /\ live \subseteq Children
        /\ net \in NetRec /\ main \in MainRec /\ shut = "none"
    BY <1>2 DEF TypeOK, ChildRec, NetRec, MainRec, ShutdownOrder, Stopping
  <2>1. CASE \E c \in Children : ChildStep(c)
    BY <1>2, <2>1, CountOfChild
  <2>2. CASE Create
    <3>1. UNCHANGED <<counts, net>> /\ live' \subseteq Children
      BY <2>2, <2>t DEF Create, CreateClientSocket, CreateFails
    <3>2. \A d \in Children :
             /\ d \in Posted <=> d \in live' /\ child'[d].at = "posted"
             /\ d \in Refused <=> d \in live' /\ child'[d].at = "refused"
      BY <2>2, <2>t DEF Create, CreateClientSocket, CreateFails, Becomes,
         Posted, Refused, ChildRec
    <3> QED
      BY <1>2, <2>t, <3>1, <3>2, CountStays
  <2>3. CASE MainStep
    <3>1. UNCHANGED <<counts, net>> /\ live' \subseteq Children
      BY <2>3, <2>t DEF MainStep, UnlinkFailed, TakeError, Dealloc
    <3>2. \A d \in Children :
             /\ d \in Posted <=> d \in live' /\ child'[d].at = "posted"
             /\ d \in Refused <=> d \in live' /\ child'[d].at = "refused"
      <4>1. CASE UnlinkFailed
        <5> DEFINE c == main.unlinks
        <5>1. c \in Children /\ child[c].at \notin {"posted", "refused"}
          BY <4>1, <2>t, ServerAssumption DEF UnlinkFailed, Failing
        <5>2. child'[c].at = "retired" /\ live' = live
          BY <4>1, <5>1, <2>t DEF UnlinkFailed, Becomes, ChildRec
        <5>3. \A d \in Children \ {c} : child'[d] = child[d]
          BY <4>1, <2>t DEF UnlinkFailed, Becomes
        <5> QED
          BY <5>1, <5>2, <5>3 DEF Posted, Refused
      <4>2. CASE \E c \in Children : TakeError(c)
        BY <4>2 DEF TakeError, Posted, Refused
      <4>3. CASE \E c \in Children : Dealloc(c)
        BY <4>3, <2>t DEF Dealloc, Becomes, Posted, Refused, ChildRec
      <4> QED
        BY <2>3, <4>1, <4>2, <4>3 DEF MainStep
    <3> QED
      BY <1>2, <2>t, <3>1, <3>2, CountStays
  <2>4. CASE Arrive
    <3>1. UNCHANGED <<counts, live>> /\ net'.refused = net.refused
      BY <2>4, <2>t DEF Arrive, NetRec
    <3>2. \A d \in Children : child'[d].at = child[d].at
      BY <2>4, <2>t DEF Arrive, ChildRec
    <3> QED
      BY <1>2, <2>t, <3>1, <3>2, CountStays DEF Posted, Refused
  <2>5. CASE ServerStep \/ AskForShutdown \/ MemoryChanges
    <3>1. UNCHANGED <<counts, live, child>> /\ net'.refused = net.refused
      BY <2>5, <2>t DEF ServerStep, Start, PostAccepts, FdAccept, ResetFdAccept,
         LowMemory, LowMemoryWait, ShutdownEvent, Timeout, TopUp, Shutdown,
         AskForShutdown, MemoryChanges, NetRec
    <3> QED
      BY <1>2, <2>t, <3>1, CountStays DEF Posted, Refused
  <2>6. ~ShutdownStep
    BY <2>t DEF ShutdownStep, BeginShutdown, CleanupChild, ChildrenGone,
       EndShutdown
  <2> QED
    BY <2>1, <2>2, <2>3, <2>4, <2>5, <2>6 DEF Next
<1> QED
  BY <1>1, <1>2

-----------------------------------------------------------------------------
(* The theorems                                                            *)

LEMMA IInit == Init => IInv
<1> SUFFICES ASSUME Init PROVE IInv
  OBVIOUS
<1>n. /\ Target \in Nat \ {0} /\ Width \in Nat \ {0} /\ MaxRefused \in Nat
      /\ MaxWork \in Nat /\ MaxArrivals \in Nat /\ QuietTimeouts \in Nat
      /\ NoOne \notin Children /\ Head \notin Children
  <2>1. Cardinality(Children) \in Nat
    BY ServerAssumption, FS_CardinalityType
  <2> QED
    BY <2>1, ServerAssumption
<1>1. /\ 0 \in 0..Target /\ Target \in 0..Target /\ 0 \in 0..QuietTimeouts
      /\ 0 \in 0..MaxArrivals /\ 0 \in 0..MaxRefused /\ 0 \in 0..MaxWork
      /\ 0 \in 0..(Width - 1) /\ 0 % Width = 0
  BY <1>n
<1>2. srv \in SrvRec /\ net \in NetRec /\ net.waiting <= net.came
  BY <1>1 DEF Init, SrvRec, NetRec
<1>3. child \in [Children -> ChildRec]
  BY DEF Init, ChildRec, Where, Entries
<1>4. links \in Links
  BY DEF Init, Links, Entries
<1>5. /\ counts \in [accepts : 0..(Width - 1), sem : 0..Target]
      /\ stop \in StopRec /\ main \in MainRec
  BY <1>1 DEF Init, StopRec, MainRec
<1>6. TypeOK
  BY <1>1, <1>2, <1>3, <1>4, <1>5 DEF Init, TypeOK, SrvRec, NetRec, ChildRec,
     Links, StopRec, MainRec
<1>7. Posted = {} /\ Refused = {}
  BY DEF Init, Posted, Refused
<1>8. Cardinality(Posted) = 0 /\ Cardinality(Refused) = 0 /\ net.refused = 0
  BY <1>7, FS_EmptySet DEF Init
<1>9. Difference = 0
  BY <1>8 DEF Difference
<1> QED
  BY <1>1, <1>6, <1>9 DEF Init, IInv, Loops, Unstarted, ShutdownOrder,
     NoneCreatedLate, Failing, Counted

LEMMA IStep == IInv /\ [Next]_vars => IInv'
<1> SUFFICES ASSUME IInv, [Next]_vars PROVE IInv'
  OBVIOUS
<1>1. CASE UNCHANGED vars
  BY <1>1 DEF vars, IInv, TypeOK, Loops, Unstarted, ShutdownOrder,
     NoneCreatedLate, Failing, Counted, Stopping, Difference, Posted, Refused
<1>2. CASE Next
  <2>1. TypeOK' /\ Loops'
    <3>1. CASE ServerStep
      BY <3>1, ServerTypes DEF IInv
    <3>2. CASE ~ServerStep
      <4>1. TypeOK'
        BY <1>2, <3>2, ChildTypes, OtherTypes DEF IInv, Next, Create
      <4>2. Loops'
        BY <1>2, <3>2, SrvStays DEF IInv, Loops
      <4> QED
        BY <4>1, <4>2
    <3> QED
      BY <3>1, <3>2
  <2>2. Unstarted' /\ ShutdownOrder'
    BY <1>2, UnstartedStep, ShutdownOrderStep DEF IInv
  <2>3. Failing' /\ Counted'
    BY <1>2, FailingStep, CountStep DEF IInv
  <2> QED
    BY <2>1, <2>2, <2>3 DEF IInv
<1> QED
  BY <1>1, <1>2

(* The thread of the server, its children, the run loop and the shutdown   *)
(* keep the invariant, however they interleave.                            *)
THEOREM Invariance == Spec => []IInv
BY IInit, IStep, PTL DEF Spec

LEMMA CountedIsSound == IInv => CountsSound
<1> SUFFICES ASSUME IInv PROVE CountsSound
  OBVIOUS
<1>1. /\ TypeOK
      /\ ~Stopping => counts.accepts =
            (Cardinality(Posted) - net.refused + Cardinality(Refused)) % Width
  BY DEF IInv, Counted, Difference
<1> QED
  BY <1>1 DEF CountsSound, AcceptsCounted, Posted, Refused

(* s->accepts_posted is the number of accepts that are posted, less one    *)
(* for each that failed at once, for any number of children and whatever   *)
(* the order of AcceptEx(), its completion and the count.                  *)
THEOREM AcceptsAreCounted == Spec => []CountsSound
BY Invariance, CountedIsSound, PTL

(* When the shutdown takes the children, the thread of the server has left *)
(* its loop and the submissions are cancelled: no child is created for a   *)
(* server that is torn down.                                               *)
THEOREM NothingCreatedLate == Spec => []NoneCreatedLate
<1>1. IInv => NoneCreatedLate
  BY DEF IInv, ShutdownOrder
<1> QED
  BY <1>1, Invariance, PTL

=============================================================================
