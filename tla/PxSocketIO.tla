----------------------------- MODULE PxSocketIO -----------------------------
(***************************************************************************)
(* One accept socket or client socket of PyParallel and the peer at the    *)
(* other end: PxSocket_IOLoop(), the callbacks that enter it, and what     *)
(* PxSocket_Recycle() does with the socket when its connection is over.    *)
(*                                                                         *)
(* pc is the label of PxSocket_IOLoop() that comes next, "waiting" when    *)
(* the function has returned and an operation is under way, or where the   *)
(* socket has gone.  The loop runs with s->cs held, so only the peer takes *)
(* steps in between.  A chunk is what one WSARecv() returns, a reply what  *)
(* one send takes; both are numbered from 1 for each connection.           *)
(*                                                                         *)
(* This is the build users run: assert() and Py_DEBUG code are left out,   *)
(* __debugbreak() is the pc "trap".                                        *)
(***************************************************************************)
EXTENDS Naturals, Sequences, FiniteSets

CONSTANTS
    Protocols,    \* the protocols to choose from: a subset of Protocol
    MaxConns,     \* connections of an accept socket,
    MaxChunks,    \* chunks the peer sends
    MaxReplies    \* and replies callbacks give in one connection

Features ==
    {"client",            \* a client socket, by address
     "resolve",           \* whose host is yet to be resolved
     "connection_made", "data_received", "send_complete", "client_created",
     "keeps",             \* client_created() sets an attribute that cannot
                          \* be copied: SNAPSHOT_UPDATE_SCHEDULED
     "initial", "initial callable",  \* initial_bytes_to_send
     "next", "next callable",        \* next_bytes_to_send
     "rate_limit", "http11", "exception_handler"}

(* A callback returns None, one object or a tuple of two or more to send,  *)
(* or None after transport.sendfile(); it may have called                  *)
(* transport.close() before that; or it raises, as it does when it returns *)
(* what cannot be sent.                                                    *)
Results == {"none", "one", "many", "file", "raise",
            "close", "one close", "file close"}

(* The peer resets the connection; DisconnectEx() completes with an error; *)
(* AcceptEx() or ConnectEx() fails; a call fails with an error that is not *)
(* among those the code recycles the socket for; a client's host is not    *)
(* found or out of reach in a way the code has only a __debugbreak() for.  *)
Faults == {"reset", "disconnect", "accept", "other", "unforeseen"}

(* A protocol class, what its connection_made(), data_received() and       *)
(* send_complete() may do, and what may go wrong while it is in use.       *)
Protocol == [has : SUBSET Features, made : SUBSET Results,
             data : SUBSET Results, sent : SUBSET Results,
             faults : SUBSET Faults]

ASSUME ProtocolAssumption ==
    /\ Protocols \subseteq Protocol
    /\ \A p \in Protocols :
          /\ "next callable" \in p.has => "next" \in p.has
          /\ "initial callable" \in p.has => "initial" \in p.has
          /\ "resolve" \in p.has => "client" \in p.has
          /\ "keeps" \in p.has => "client_created" \in p.has
ASSUME BoundAssumption == /\ {MaxConns, MaxChunks, MaxReplies} \subseteq Nat
                          /\ MaxConns > 0

Ops == {"none", "accept", "connect", "resolve", "send", "sendfile", "recv",
        "ratelimit", "disconnect"}

VARIABLES
    proto,  \* the protocol of the socket
    pc,
    sock,   \* the fields of the PxSocket, and c->error
    mem,    \* who holds &c->snapshot, and the buffers
    conn    \* the connection, as the peer and the callbacks have seen it

vars == <<proto, pc, sock, mem, conn>>

(* held: which field has the address of c->snapshot: rbuf->snapshot,       *)
(* s->sbuf->snapshot, s->send_snapshot, ...; all of them have the same     *)
(* address.  sb: s->sbuf, which may point to memory that was rewound.      *)
(* buf: the local variable sbuf.  many: s->num_send_buffers > 1.  chunk:   *)
(* what is in the receive buffer.                                          *)
Owners == {"rbuf", "sbuf", "send", "sendfile", "connectex"}
Mem == [held : SUBSET Owners, sb : {"none", "live", "stale", "rbuf"},
        buf : {"none", "rbuf", "sbuf"}, many : BOOLEAN, chunk : 0..MaxChunks]

(* was: the was_ flags.  recv: s->recv_id > 0.  err: s->wsa_error.  error: *)
(* the connection whose exception c->error holds, or 0.  startup: what the *)
(* startup snapshot of the socket has in it.                               *)
SockFlags == {"created", "made", "close", "sendfile"}
Sock == [op : Ops, last : Ops, next : Ops,
         was : SUBSET {"accepting", "connecting", "connected",
                       "disconnecting"},
         reused : BOOLEAN, flags : SUBSET SockFlags,
         recv : BOOLEAN, err : BOOLEAN, error : 0..MaxConns,
         startup : [next : Ops, flags : SUBSET SockFlags]]

(* n: how many connections there have been.  sent, wire: what the peer has *)
(* sent and the socket has not read.  made: the calls of connection_made().*)
(* data: the chunks that were processed.  said, got: the replies of the    *)
(* protocol, and those the peer got.                                       *)
Conn == [n : 0..MaxConns, state : {"none", "open", "closed", "reset", "down"},
         sent : 0..MaxChunks, wire : Seq(1..MaxChunks), made : Nat,
         data : Seq(1..MaxChunks), said : Nat, got : Seq(Nat)]
NoConn(n) == [n |-> n, state |-> "none", sent |-> 0, wire |-> <<>>, made |-> 0,
              data |-> <<>>, said |-> 0, got |-> <<>>]

Fresh(start, error) ==
    [op |-> "none", last |-> "none", next |-> start.next, was |-> {},
     reused |-> FALSE, flags |-> start.flags, recv |-> FALSE,
     err |-> FALSE, error |-> error, startup |-> start]

Has(feature) == feature \in proto.has
May(fault) == fault \in proto.faults
Client == Has("client")
HasInitial == Has("initial")
CanRecv == proto.has \cap {"data_received", "next", "http11"} # {}

(* The startup snapshot of the socket is taken before next_io_op is set.   *)
Init ==
    /\ proto \in Protocols
    /\ pc = "new"
    /\ sock = [Fresh([next |-> "none", flags |-> {}], 0) EXCEPT
                 !.next = IF Client THEN "connect" ELSE "accept"]
    /\ mem = [held |-> {}, sb |-> "none", buf |-> "none", many |-> FALSE,
              chunk |-> 0]
    /\ conn = NoConn(0)

-----------------------------------------------------------------------------
(* Pieces of PxSocket_IOLoop()                                             *)

At(label) == pc = label
Goto(label) == pc' = label
Waiting(op) == pc = "waiting" /\ sock.op = op

(* __debugbreak(), or a null pointer read.                                 *)
Trap == Goto("trap") /\ UNCHANGED <<proto, sock, mem, conn>>

(* PxSocket_FATAL(), ..._WSAERROR(): the exception goes to px->errors.     *)
Fatal == Goto("errors")

(* PxSocket_EXCEPTION(): exception_handler(), if there is one, is all that *)
(* happens; nobody else takes the socket.                                  *)
Exception == Goto(IF Has("exception_handler") THEN "abandoned"
                                                   ELSE "errors")

(* "goto end" with an operation under way.                                 *)
Begin(s, op) == /\ sock' = [s EXCEPT !.op = op, !.err = FALSE]
                /\ Goto("waiting")

Resets == conn.state = "reset"
Usable == conn.state \in {"open", "closed"}

(* A call fails at once, or completes with an error: the socket is         *)
(* recycled for the errors a peer can cause, given up for any other.       *)
CallFails == \/ Resets /\ Goto("recycle")
             \/ (conn.state = "down" \/ May("other")) /\ Fatal

(* The top of PxSocket_IOLoop(), which calls client_created() before it    *)
(* looks at anything.                                                      *)
Enter(s) ==
    LET t == [s EXCEPT !.last = s.op, !.op = "none"]
        u == [t EXCEPT !.flags = @ \cup {"created"}]
    IN  IF ~Has("client_created") \/ "created" \in t.flags THEN t
        ELSE IF Has("keeps")
             THEN [u EXCEPT !.startup = [next |-> u.next, flags |-> u.flags]]
             ELSE u

(* PxContext_HeapSnapshot() and PxContext_RollbackHeap(): one struct, in   *)
(* the context, whoever holds its address.  The send paths that roll back  *)
(* a buffer then drop the same address from the receive buffer.            *)
Snap(m, owner) == [m EXCEPT !.held = @ \cup {owner}]
Rollback(m, owners) ==
    [m EXCEPT !.held = @ \ owners, !.sb = IF @ = "live" THEN "stale" ELSE @]
RollbackOf(m, owner, owners) ==
    IF owner \in m.held THEN Rollback(m, owners \cup {owner}) ELSE m

(* PxSocket_NEW_SBUF()                                                     *)
NewSbuf(m) == [Snap(m, "sbuf") EXCEPT !.sb = "live", !.buf = "sbuf"]

(* Handing a reply to the peer                                             *)
Reply(c) == [c EXCEPT !.said = @ + 1]
CanReply == conn.said < MaxReplies
Delivered(c) == [c EXCEPT !.got = Append(@, c.said)]

What(r) == CASE r \in {"none", "close"} -> "none"
             [] r \in {"file", "file close"} -> "file"
             [] r \in {"one", "one close"} -> "one"
             [] OTHER -> r
CallsOf(results) ==
    {r \in results : What(r) \in {"one", "many", "file"} => CanReply}

(* transport.close() and transport.sendfile()                              *)
Flagged(s, r) ==
    [s EXCEPT !.flags = @ \cup
        (IF r \in {"close", "one close", "file close"} THEN {"close"} ELSE {})
        \cup (IF What(r) = "file" THEN {"sendfile"} ELSE {})]

(* Mutant: send_complete() closes like connection_made().                  *)
AfterCallCloses(r, c, failed) ==
    CASE What(r) = "none" ->
           mem' = Rollback(mem, {}) /\ conn' = c /\ Goto("try_recv")
      [] What(r) = "file" ->
           /\ mem' = Snap(mem, "sendfile") /\ conn' = Reply(c)
           /\ Goto("do_sendfile")
      [] What(r) = "one" ->
           /\ mem' = NewSbuf(mem) /\ conn' = Reply(c)
           /\ Goto(IF r = "one close" THEN "do_disconnect" ELSE "do_send")
      [] OTHER -> mem' = mem /\ conn' = c /\ failed

(* What comes after connection_made() or send_complete(), which are called *)
(* with the local variable snapshot set; c is the connection.              *)
AfterCall(r, c, failed) ==
    CASE What(r) = "none" ->
           mem' = Rollback(mem, {}) /\ conn' = c /\ Goto("try_recv")
      [] What(r) = "file" ->
           /\ mem' = Snap(mem, "sendfile") /\ conn' = Reply(c)
           /\ Goto("do_sendfile")
      [] What(r) = "one" ->
           /\ mem' = NewSbuf(mem) /\ conn' = Reply(c)
           /\ Goto(IF At("connection_made") /\ r = "one close"
                   THEN "do_disconnect" ELSE "do_send")
      [] OTHER -> mem' = mem /\ conn' = c /\ failed

-----------------------------------------------------------------------------
(* A new socket                                                            *)

(* The first call of the loop, from PxSocketServer_CreateClientSocket() or *)
(* PxSocket_Connect().                                                     *)
FirstEntry ==
    /\ At("new")
    /\ sock' = [Enter(sock) EXCEPT !.next = "none"]
    /\ Goto(IF Client THEN "do_connect" ELSE "do_accept")
    /\ UNCHANGED <<proto, mem, conn>>

(* PxSocket_InitInitialBytes() and PxSocket_InitNextBytes(): a client      *)
(* keeps the snapshot for as long as it connects.                          *)
InitBytes(m) ==
    IF proto.has \cap {"initial", "next"} = {} THEN m
    ELSE IF Client THEN Snap(m, "connectex") ELSE Rollback(m, {})

(* do_accept:.  AcceptEx() refuses a socket that is connected.             *)
DoAccept ==
    /\ At("do_accept")
    /\ LET s == [sock EXCEPT !.was = @ \cup {"accepting"}]
       IN  \/ conn.state # "none" /\ Trap
           \/ /\ conn.state = "none"
              /\ mem' = InitBytes(mem)
              /\ \/ Begin(s, "accept")
                 \/ /\ May("accept")
                    /\ sock' = [s EXCEPT !.op = "accept"]
                    /\ Goto("recycle") \/ Fatal
                 \/ /\ Has("initial callable") /\ "raise" \in proto.made
                    /\ Fatal /\ UNCHANGED sock
              /\ UNCHANGED <<proto, conn>>

(* do_getaddrinfoex:.  If the answer is there at once the loop runs on as  *)
(* if it had been told of it; sock.last tells that there is an address.    *)
(* For most errors of GetAddrInfoExW() there is only a __debugbreak().     *)
Resolve ==
    /\ \/ Begin(sock, "resolve")
       \/ /\ sock' = [sock EXCEPT !.op = "resolve", !.last = "resolve"]
          /\ Goto("do_connect")
       \/ Fatal /\ UNCHANGED sock
       \/ May("unforeseen") /\ Goto("trap") /\ UNCHANGED sock
    /\ UNCHANGED mem

(* do_connect:, with an address                                            *)
Connect ==
    LET s == [sock EXCEPT !.was = @ \cup {"connecting"}]
    IN  /\ mem' = InitBytes(mem)
        /\ \/ Begin(s, "connect")
           \/ /\ May("accept")
              /\ sock' = [s EXCEPT !.op = "connect"]
              /\ Goto("recycle") \/ Fatal
           \/ /\ Has("initial callable") /\ "raise" \in proto.made
              /\ Fatal /\ UNCHANGED sock

DoConnect ==
    /\ At("do_connect")
    /\ IF Has("resolve") /\ sock.last # "resolve" THEN Resolve ELSE Connect
    /\ UNCHANGED <<proto, conn>>

(* overlapped_getaddrinfoex_callback:                                      *)
Resolved ==
    /\ Waiting("resolve")
    /\ sock' = Enter(sock)
    /\ Goto("do_connect") \/ Fatal
    /\ UNCHANGED <<proto, mem, conn>>

(* overlapped_connectex_callback: the initial bytes have gone with the     *)
(* connection request; without them the connection is taken for closed.    *)
(* A refusal is reported; the errors nobody has seen yet break into the    *)
(* debugger.  If setsockopt() fails the snapshot is not rolled back.       *)
Connected ==
    /\ Waiting("connect")
    /\ LET s == [Enter(sock) EXCEPT !.was = @ \ {"connecting"}]
           open == [NoConn(1) EXCEPT !.state = "open"]
           rolled == RollbackOf(mem, "connectex", {})
       IN  \/ /\ HasInitial
              /\ sock' = [s EXCEPT !.was = @ \cup {"connected"}]
              /\ mem' = rolled /\ conn' = Delivered(Reply(open))
              /\ Goto("start")
           \/ /\ ~HasInitial
              /\ sock' = s /\ mem' = rolled /\ conn' = open
              /\ Goto("do_disconnect")
           \/ /\ sock' = [s EXCEPT !.err = TRUE] /\ mem' = rolled
              /\ Fatal /\ UNCHANGED conn
           \/ sock' = s /\ Fatal /\ UNCHANGED <<mem, conn>>
           \/ /\ May("unforeseen")
              /\ sock' = s /\ Goto("trap") /\ UNCHANGED <<mem, conn>>
    /\ UNCHANGED proto

(* overlapped_acceptex_callback: the first chunk comes with the            *)
(* connection, unless there are initial bytes to send.                     *)
AcceptDone(s) ==
    LET took == ~HasInitial /\ conn.wire # <<>>
    IN  \/ /\ Resets \/ May("other")
           /\ sock' = [s EXCEPT !.err = TRUE]
           /\ Goto("recycle") /\ UNCHANGED <<mem, conn>>
        \/ /\ Usable /\ ~HasInitial /\ ~took
           /\ sock' = s
           /\ Goto("do_disconnect") /\ UNCHANGED <<mem, conn>>
        \/ /\ Usable /\ (HasInitial \/ took)
           /\ sock' = [s EXCEPT !.was = @ \cup {"connected"}]
           /\ mem' = IF took THEN [mem EXCEPT !.chunk = Head(conn.wire)]
                             ELSE mem
           /\ conn' = IF took THEN [conn EXCEPT !.wire = Tail(@)] ELSE conn
           /\ Goto("start") \/ (May("other") /\ Fatal)

(* PxSocket_IOCallback() for AcceptEx().  The loop goes by s->next_io_op,  *)
(* if that is set, and by the operation under way otherwise.               *)
Acceptable == \/ conn.wire # <<>> \/ conn.state \in {"closed", "reset"}
              \/ HasInitial /\ conn.state = "open"
Accepted ==
    /\ Waiting("accept") /\ Acceptable
    /\ \/ /\ sock.next = "accept"
          /\ sock' = [Enter(sock) EXCEPT !.next = "none"]
          /\ Goto("do_accept") /\ UNCHANGED <<mem, conn>>
       \/ /\ sock.next = "none"
          /\ AcceptDone([Enter(sock) EXCEPT !.was = @ \ {"accepting"}])
    /\ UNCHANGED proto

-----------------------------------------------------------------------------
(* start: and connection_made                                              *)

(* The shutdown() of the direction the protocol does not use may fail.     *)
Start ==
    /\ At("start")
    /\ \/ ~CanRecv /\ CallFails /\ UNCHANGED <<sock, mem, conn>>
       \/ /\ HasInitial /\ ~Client
          /\ \/ mem' = NewSbuf(mem) /\ conn' = Reply(conn) /\ Goto("do_send")
             \/ /\ Has("initial callable") /\ "raise" \in proto.made
                /\ Exception /\ UNCHANGED <<mem, conn>>
          /\ UNCHANGED sock
       \/ /\ ~HasInitial \/ Client
          /\ Goto(IF Has("connection_made") /\ "made" \notin sock.flags
                  THEN "connection_made" ELSE "try_recv")
          /\ UNCHANGED <<sock, mem, conn>>
    /\ UNCHANGED proto

(* definitely_do_connection_made:                                          *)
ConnectionMade ==
    /\ At("connection_made")
    /\ \E r \in CallsOf(proto.made) :
          /\ sock' = [Flagged(sock, r) EXCEPT !.flags = @ \cup {"made"}]
          /\ AfterCall(r, [conn EXCEPT !.made = @ + 1], Fatal)
    /\ UNCHANGED proto

-----------------------------------------------------------------------------
(* do_send:                                                                *)

(* Mutant: the synchronous send leaves s->last_io_op as it was.            *)
SendNowUnnoted ==
    /\ At("do_send") /\ ~mem.many /\ Usable
    /\ sock' = [sock EXCEPT !.op = "none"]
    /\ mem' = [RollbackOf(mem, mem.buf, {"rbuf"}) EXCEPT !.buf = "none"]
    /\ conn' = Delivered(conn)
    /\ Goto("send_completed")
    /\ UNCHANGED proto

(* try_synchronous_send: succeeds.  A static next_bytes_to_send has no     *)
(* snapshot.                                                               *)
SendNow ==
    /\ At("do_send") /\ ~mem.many /\ Usable
    /\ sock' = [sock EXCEPT !.last = "send", !.op = "none"]
    /\ mem' = [RollbackOf(mem, mem.buf, {"rbuf"}) EXCEPT !.buf = "none"]
    /\ conn' = Delivered(conn)
    /\ Goto("send_completed")
    /\ UNCHANGED proto

(* Mutant: the completion of the send is not waited for.                   *)
SendLaterUnawaited ==
    /\ At("do_send") /\ Usable
    /\ Goto("send_completed")
    /\ sock' = [sock EXCEPT !.last = "send", !.op = "none"]
    /\ mem' = [mem EXCEPT !.many = @ /\ mem.buf = "none", !.buf = "none"]
    /\ UNCHANGED <<proto, conn>>

(* do_async_send: starts.                                                  *)
SendLater ==
    /\ At("do_send") /\ Usable
    /\ Begin(sock, "send")
    /\ mem' = [mem EXCEPT !.many = @ /\ mem.buf = "none", !.buf = "none"]
    /\ UNCHANGED <<proto, conn>>

(* Either fails, and rolls back sbuf->snapshot, without a look at whether  *)
(* there is an sbuf with a snapshot.                                       *)
SendFails ==
    /\ At("do_send") /\ (~Usable \/ May("other"))
    /\ \/ mem.buf \notin mem.held /\ Trap
       \/ /\ mem.buf \in mem.held
          /\ mem' = [Rollback(mem, {mem.buf}) EXCEPT !.buf = "none"]
          /\ sock' = [sock EXCEPT !.op = "send"]
          /\ CallFails
          /\ UNCHANGED <<proto, conn>>

(* overlapped_send_callback: which buffer was sent follows from s->sbuf.   *)
SentBuffer == IF mem.many THEN "send"
              ELSE IF mem.sb \in {"none", "rbuf"} THEN "rbuf" ELSE "sbuf"
(* Mutant: rbuf->snapshot is not compared with the snapshot rolled back.   *)
SendDoneKeepingRbuf ==
    /\ Waiting("send") /\ Usable
    /\ \/ ~mem.many /\ mem.sb = "stale" /\ Trap
       \/ /\ mem.many \/ mem.sb # "stale"
          /\ sock' = Enter(sock)
          /\ mem' = RollbackOf(mem, SentBuffer, {})
          /\ conn' = Delivered(conn)
          /\ Goto("send_completed")
          /\ UNCHANGED proto

SendDone ==
    /\ Waiting("send") /\ Usable
    /\ \/ ~mem.many /\ mem.sb = "stale" /\ Trap
       \/ SentBuffer \notin mem.held /\ "rbuf" \in mem.held /\ Trap
       \/ /\ mem.many \/ mem.sb # "stale"
          /\ SentBuffer \in mem.held \/ "rbuf" \notin mem.held
          /\ sock' = Enter(sock)
          /\ mem' = RollbackOf(mem, SentBuffer, {"rbuf"})
          /\ conn' = Delivered(conn)
          /\ Goto("send_completed")
          /\ UNCHANGED proto

(* With an error the snapshots stay as they are.                           *)
SendFailed ==
    /\ Waiting("send") /\ (Resets \/ May("other"))
    /\ sock' = [Enter(sock) EXCEPT !.err = TRUE]
    /\ Goto("recycle")
    /\ UNCHANGED <<proto, mem, conn>>

(* Mutant: c->error is not looked at.                                      *)
SendCompletedBlindly ==
    /\ At("send_completed")
    /\ \/ /\ ~Has("send_complete")
          /\ Goto("try_recv") /\ UNCHANGED <<sock, mem, conn>>
       \/ /\ Has("send_complete")
          /\ \E r \in CallsOf(proto.sent) :
                /\ sock' = Flagged(sock, r)
                /\ AfterCall(r, conn, Exception)
    /\ UNCHANGED proto

(* send_completed:                                                         *)
SendCompleted ==
    /\ At("send_completed")
    /\ \/ sock.error # 0 /\ Fatal /\ UNCHANGED <<sock, mem, conn>>
       \/ /\ sock.error = 0 /\ ~Has("send_complete")
          /\ Goto("try_recv") /\ UNCHANGED <<sock, mem, conn>>
       \/ /\ sock.error = 0 /\ Has("send_complete")
          /\ \E r \in CallsOf(proto.sent) :
                /\ sock' = Flagged(sock, r)
                /\ AfterCall(r, conn, Exception)
    /\ UNCHANGED proto

(* do_sendfile:  With the transport closed the file takes the connection   *)
(* down with it.                                                           *)
DoSendfile ==
    /\ At("do_sendfile")
    /\ \/ Usable /\ Begin(sock, "sendfile") /\ UNCHANGED mem
       \/ /\ ~Usable \/ May("other")
          /\ sock' = [sock EXCEPT !.op = "sendfile"]
          /\ mem' = Rollback(mem, {"sendfile"})
          /\ CallFails
    /\ UNCHANGED <<proto, conn>>

(* Mutant: the heap is not rolled back after the file.                     *)
SendfileDoneHolding ==
    /\ Waiting("sendfile") /\ Usable
    /\ sock' = [Enter(sock) EXCEPT !.flags = @ \ {"sendfile"}]
    /\ mem' = mem
    /\ conn' = [Delivered(conn) EXCEPT
                  !.state = IF "close" \in sock.flags THEN "down" ELSE @]
    /\ Goto("send_completed")
    /\ UNCHANGED proto

(* overlapped_sendfile_callback:                                           *)
SendfileDone ==
    /\ Waiting("sendfile") /\ Usable
    /\ sock' = [Enter(sock) EXCEPT !.flags = @ \ {"sendfile"}]
    /\ mem' = Rollback(mem, {"sendfile"})
    /\ conn' = [Delivered(conn) EXCEPT
                  !.state = IF "close" \in sock.flags THEN "down" ELSE @]
    /\ Goto("send_completed")
    /\ UNCHANGED proto

SendfileFailed ==
    /\ Waiting("sendfile")
    /\ \/ /\ Resets
          /\ sock' = [Enter(sock) EXCEPT !.err = TRUE]
          /\ mem' = Rollback(mem, {"sendfile"})
          /\ Goto("recycle")
          /\ UNCHANGED <<proto, conn>>
       \/ May("other") /\ Trap

-----------------------------------------------------------------------------
(* try_recv: and do_recv:                                                  *)

(* Mutant: a connected client is thought to have data, too.                *)
TryRecvClient ==
    /\ At("try_recv")
    /\ Goto(IF "close" \in sock.flags \/ ~CanRecv THEN "do_disconnect"
            ELSE IF sock.last \in {"accept", "connect"}
                 THEN "process_data_received"
            ELSE "do_recv")
    /\ UNCHANGED <<proto, sock, mem, conn>>

TryRecv ==
    /\ At("try_recv")
    /\ Goto(IF "close" \in sock.flags \/ ~CanRecv THEN "do_disconnect"
            ELSE IF sock.last = "accept" THEN "process_data_received"
            ELSE "do_recv")
    /\ UNCHANGED <<proto, sock, mem, conn>>

Limited == Has("rate_limit") /\ sock.recv /\ sock.last # "ratelimit"
StartRateLimit ==
    /\ At("do_recv") /\ Limited
    /\ Begin(sock, "ratelimit")
    /\ UNCHANGED <<proto, mem, conn>>
(* Mutant: the timer's callback does not note what has happened.           *)
RateLimitDoneUnnoted ==
    /\ Waiting("ratelimit")
    /\ sock' = [sock EXCEPT !.op = "none"]
    /\ Goto("try_recv")
    /\ UNCHANGED <<proto, mem, conn>>

RateLimitDone ==
    /\ Waiting("ratelimit")
    /\ sock' = Enter(sock)
    /\ Goto("try_recv")
    /\ UNCHANGED <<proto, mem, conn>>

(* Mutant: nothing received is no reason to disconnect.                    *)
ReceiveOn(s) ==
    /\ sock' = s
    /\ \/ /\ Usable /\ conn.wire # <<>>
          /\ mem' = [mem EXCEPT !.chunk = Head(conn.wire)]
          /\ conn' = [conn EXCEPT !.wire = Tail(@)]
          /\ Goto("process_data_received")
       \/ /\ conn.state = "closed" /\ conn.wire = <<>>
          /\ Goto("do_recv")
          /\ UNCHANGED <<mem, conn>>
    /\ UNCHANGED proto

(* What WSARecv() returned: a chunk, or nothing.                           *)
Receive(s) ==
    /\ sock' = s
    /\ \/ /\ Usable /\ conn.wire # <<>>
          /\ mem' = [mem EXCEPT !.chunk = Head(conn.wire)]
          /\ conn' = [conn EXCEPT !.wire = Tail(@)]
          /\ Goto("process_data_received")
       \/ /\ conn.state = "closed" /\ conn.wire = <<>>
          /\ Goto("do_disconnect")
          /\ UNCHANGED <<mem, conn>>
    /\ UNCHANGED proto

(* try_synchronous_recv: and do_async_recv:                                *)
RecvNow == /\ At("do_recv") /\ ~Limited /\ "rbuf" \notin mem.held
           /\ Receive([sock EXCEPT !.last = "recv", !.recv = TRUE])
RecvLater ==
    /\ At("do_recv") /\ ~Limited /\ "rbuf" \notin mem.held /\ Usable
    /\ Begin([sock EXCEPT !.recv = TRUE], "recv")
    /\ UNCHANGED <<proto, mem, conn>>
RecvFails ==
    /\ At("do_recv") /\ ~Limited
    /\ \/ "rbuf" \in mem.held /\ Trap
       \/ /\ "rbuf" \notin mem.held
          /\ CallFails /\ UNCHANGED <<proto, sock, mem, conn>>

(* overlapped_recv_callback:                                               *)
RecvDone == Waiting("recv") /\ Receive(Enter(sock))
RecvFailed ==
    /\ Waiting("recv") /\ (Resets \/ May("other"))
    /\ sock' = [Enter(sock) EXCEPT !.err = TRUE]
    /\ mem' = RollbackOf(mem, "rbuf", {})
    /\ Goto("recycle")
    /\ UNCHANGED <<proto, conn>>

-----------------------------------------------------------------------------
(* process_data_received:                                                  *)

Processed == [conn EXCEPT !.data = Append(@, mem.chunk)]

(* next_bytes_to_send is the answer to whatever was received.              *)
NextBytes ==
    /\ At("process_data_received") /\ Has("next")
    /\ \/ /\ mem' = IF Has("next callable") THEN NewSbuf(mem)
                    ELSE [mem EXCEPT !.buf = "rbuf", !.sb = "rbuf"]
          /\ conn' = Reply(Processed)
          /\ Goto("do_send")
       \/ /\ Has("next callable") /\ "raise" \in proto.data
          /\ Exception /\ UNCHANGED <<mem, conn>>
    /\ UNCHANGED <<proto, sock>>

(* An object is sent from the receive buffer, which keeps the snapshot; so *)
(* is the answer 500 or 501 of the HTTP server.                            *)
Answer(m) == [Snap(m, "rbuf") EXCEPT !.buf = "rbuf", !.many = FALSE]
DataReceived ==
    /\ At("process_data_received") /\ ~Has("next")
    /\ Has("data_received")
    /\ \E r \in CallsOf(proto.data) :
          LET s == Flagged(sock, r)
              internalError == r = "raise" /\ Has("http11")
          IN  /\ sock' = IF internalError THEN [s EXCEPT !.error = conn.n]
                                          ELSE s
              /\ CASE What(r) = "none" ->
                        /\ mem' = Rollback(mem, {"rbuf"})
                        /\ conn' = Processed
                        /\ Goto(IF "close" \in s.flags THEN "do_disconnect"
                                                       ELSE "do_recv")
                   [] What(r) = "file" ->
                        /\ mem' = [mem EXCEPT !.held = (@ \ {"rbuf"})
                                                        \cup {"sendfile"}]
                        /\ conn' = Reply(Processed)
                        /\ Goto("do_sendfile")
                   [] What(r) = "many" ->
                        /\ mem' = [mem EXCEPT !.held = @ \cup {"rbuf", "send"},
                                              !.many = TRUE]
                        /\ conn' = Reply(Processed) /\ Goto("do_send")
                   [] What(r) = "one" \/ internalError ->
                        /\ mem' = Answer(mem) /\ conn' = Reply(Processed)
                        /\ Goto("do_send")
                   [] OTHER -> /\ mem' = Snap(mem, "rbuf")
                               /\ conn' = Processed
                               /\ Fatal \/ Exception
    /\ UNCHANGED proto

(* 501 Not Implemented                                                     *)
NotImplemented ==
    /\ At("process_data_received")
    /\ proto.has \cap {"next", "data_received"} = {} /\ Has("http11")
    /\ mem' = Answer(mem) /\ conn' = Reply(Processed)
    /\ Goto("do_send")
    /\ UNCHANGED <<proto, sock>>

-----------------------------------------------------------------------------
(* do_disconnect: and PxSocket_Recycle()                                   *)

DoDisconnect ==
    /\ At("do_disconnect")
    /\ LET s == [sock EXCEPT !.was = (@ \ {"connected"}) \cup {"disconnecting"}]
       IN  \/ /\ conn.state # "down"
              /\ Begin([s EXCEPT !.reused = TRUE], "disconnect")
           \/ /\ sock' = [s EXCEPT !.reused = FALSE, !.op = "disconnect"]
              /\ \/ conn.state \in {"reset", "down"} /\ Goto("recycle")
                 \/ May("other") /\ Fatal
    /\ UNCHANGED <<proto, mem, conn>>

(* overlapped_disconnectex_callback: does not look at errors.              *)
DisconnectDone ==
    /\ Waiting("disconnect")
    /\ \E failed \in {FALSE, May("disconnect")} :
          sock' = [Enter(sock) EXCEPT !.err = failed]
    /\ Goto("recycle")
    /\ UNCHANGED <<proto, mem, conn>>

(* Mutant: the flags of the old connection are kept.                       *)
RenewKeepingFlags ==
    /\ sock' = [Fresh(sock.startup, sock.error) EXCEPT !.flags = sock.flags]
    /\ mem' = [held |-> mem.held \cap {"rbuf"}, sb |-> "none", buf |-> "none",
               many |-> FALSE, chunk |-> 0]
    /\ conn' = NoConn(conn.n)
    /\ Goto("do_accept")
    /\ UNCHANGED proto

(* PxSocket_Reuse() and the recycling create_pxsocket(): the socket is as  *)
(* its startup snapshot has it, the heap too.                              *)
Renew ==
    /\ sock' = Fresh(sock.startup, sock.error)
    /\ mem' = [held |-> mem.held \cap {"rbuf"}, sb |-> "none", buf |-> "none",
               many |-> FALSE, chunk |-> 0]
    /\ conn' = NoConn(conn.n)
    /\ Goto("do_accept")
    /\ UNCHANGED proto

(* What the code tests before it recycles                                  *)
Recyclable ==
    /\ Cardinality(sock.was) <= 1
    /\ ~Client /\ sock.reused => sock.last = "disconnect" /\ ~sock.err
    /\ ~Client /\ ~sock.reused => sock.last # "disconnect" \/ sock.err

Recycle ==
    /\ At("recycle")
    /\ \/ ~Recyclable /\ Trap
       \/ /\ Recyclable
          /\ Goto(IF Client THEN "complete" ELSE "retired")
          /\ UNCHANGED <<proto, sock, mem, conn>>
       \/ Recyclable /\ ~Client /\ Renew

-----------------------------------------------------------------------------
(* The peer                                                                *)

PeerConnect ==
    /\ Waiting("accept") /\ conn.state = "none" /\ conn.n < MaxConns
    /\ conn' = [NoConn(conn.n + 1) EXCEPT !.state = "open"]
    /\ UNCHANGED <<proto, pc, sock, mem>>
PeerSend ==
    /\ conn.state = "open" /\ conn.sent < MaxChunks
    /\ conn' = [conn EXCEPT !.sent = @ + 1, !.wire = Append(@, conn.sent + 1)]
    /\ UNCHANGED <<proto, pc, sock, mem>>
PeerClose ==
    /\ conn.state = "open"
    /\ conn' = [conn EXCEPT !.state = "closed"]
    /\ UNCHANGED <<proto, pc, sock, mem>>
PeerReset ==
    /\ Usable /\ May("reset")
    /\ conn' = [conn EXCEPT !.state = "reset", !.wire = <<>>]
    /\ UNCHANGED <<proto, pc, sock, mem>>

Step ==
    \/ FirstEntry \/ DoAccept \/ DoConnect \/ Resolved \/ Connected
    \/ Accepted \/ Start \/ ConnectionMade
    \/ SendNow \/ SendLater \/ SendFails \/ SendDone \/ SendFailed
    \/ SendCompleted \/ DoSendfile \/ SendfileDone \/ SendfileFailed
    \/ TryRecv \/ StartRateLimit \/ RateLimitDone
    \/ RecvNow \/ RecvLater \/ RecvFails \/ RecvDone \/ RecvFailed
    \/ NextBytes \/ DataReceived \/ NotImplemented
    \/ DoDisconnect \/ DisconnectDone \/ Recycle

Next == Step \/ PeerConnect \/ PeerSend \/ PeerClose \/ PeerReset
Spec == Init /\ [][Next]_vars

(* The thread pool delivers every completion and runs the loop on.  The    *)
(* peer need not do anything.                                              *)
FairSpec == Spec /\ WF_vars(Step)

-----------------------------------------------------------------------------
(* Correctness                                                             *)

Labels ==
    {"new", "waiting", "do_accept", "do_connect", "start", "connection_made",
     "do_send", "send_completed", "do_sendfile", "try_recv", "do_recv",
     "process_data_received", "do_disconnect", "recycle"}
Ended == {"complete", "retired", "errors"}
Gone == Ended \cup {"abandoned", "trap"}

TypeOK ==
    /\ proto \in Protocols /\ pc \in Labels \cup Gone
    /\ sock \in Sock /\ mem \in Mem /\ conn \in Conn

(* The loop runs into none of its __debugbreak()s, and never rolls back to *)
(* a snapshot that is not there, whatever the callbacks return and however *)
(* the peer behaves (PxSocket_IOLoop(), PxSocket_Recycle()).               *)
NoTrap == pc # "trap"

(* The loop is at a label of its own with fields that belong there.        *)
LoopSound == TypeOK /\ NoTrap

UpTo(k) == [i \in 1..k |-> i]

(* The protocol is given what the peer sent in the order it was sent, and  *)
(* all of it by the time the loop waits for more: the chunk AcceptEx()     *)
(* brings along, what a synchronous WSARecv() finds and what an overlapped *)
(* one does (try_recv: to process_data_received:).                         *)
Received ==
    /\ conn.data = UpTo(Len(conn.data))
    /\ Waiting("recv") /\ Usable => Len(conn.data) + Len(conn.wire) = conn.sent

(* Every reply has reached the peer, once and in order, by the time the    *)
(* loop waits for the peer again or closes the connection on its own       *)
(* account (do_send: and the completion callbacks).                        *)
Answered ==
    \/ conn.state = "reset"
    \/ pc # "waiting" \/ sock.op \notin {"recv", "ratelimit", "disconnect"}
    \/ conn.got = UpTo(conn.said)

(* Both directions of a connection are in order, and complete when the     *)
(* loop returns to wait (do_recv: and do_disconnect:).                     *)
Exchanged == Received /\ Answered

(* While the loop waits for the peer, no memory of an earlier callback is  *)
(* kept: whoever held the snapshot has rolled the heap back.               *)
Released == pc = "waiting" /\ sock.op \in {"recv", "ratelimit"}
               => mem.held = {}

(* connection_made() is called once for a connection, before its first     *)
(* data_received(), and never for one that is not there any more.          *)
MadeFirst ==
    /\ conn.made <= 1
    /\ Has("connection_made") /\ conn.data # <<>> => conn.made = 1
    /\ conn.made = 1 => conn.state # "none"

(* The exception an HTTP request of one connection raised is reported, if  *)
(* at all, for that connection (the comment at send_completed:).           *)
ErrorIsOwn ==
    pc = "send_completed" /\ sock.error # 0 => sock.error = conn.n

(* A recycled socket starts afresh: callbacks and errors are those of the  *)
(* connection they belong to.                                              *)
StartsAfresh == MadeFirst /\ ErrorIsOwn

(* The connection as PxConnection has it: a shutdown() of the socket that  *)
(* took the connection down is an end like others.                         *)
Phase == IF conn.state = "down" THEN "closed" ELSE conn.state

Connection == INSTANCE PxConnection
              WITH greets <- Has("connection_made"), number <- conn.n,
                   phase <- Phase, sent <- conn.sent, made <- conn.made,
                   handed <- conn.data, said <- conn.said, got <- conn.got

(* The labels, buffers, snapshots and completions of the loop implement a  *)
(* connection on which the protocol and the peer take turns: no callback   *)
(* says anything before the peer has what was said before it.              *)
ConnectionSpec == Connection!Spec

(* What a protocol must leave alone for all of this to hold; there is a    *)
(* protocol to break the properties below for each of the conditions.      *)
OneObject == {"one", "one close"}
AFile == {"file", "file close"}
Calls(p, callback, results, some) ==
    callback \in p.has /\ results \cap some # {}
Server(p) == "client" \notin p.has
Steady(p) == p.faults \cap {"reset", "other"} = {}

(* Replies in buffers of their own, and in the receive buffer              *)
NewSbufs(p) ==
    \/ "initial" \in p.has /\ Server(p)
    \/ Calls(p, "connection_made", p.made, OneObject)
    \/ Calls(p, "send_complete", p.sent, OneObject)
    \/ "next callable" \in p.has
InternalErrors(p) == {"data_received", "http11"} \subseteq p.has
                        /\ "next" \notin p.has /\ "raise" \in p.data
Receives(p, some) ==
    "next" \notin p.has /\ Calls(p, "data_received", p.data, some)
Answers(p) ==
    \/ Receives(p, OneObject) \/ InternalErrors(p)
    \/ p.has \cap {"next", "data_received"} = {} /\ "http11" \in p.has
SendsFiles(p) == \/ Calls(p, "connection_made", p.made, AFile)
                 \/ Calls(p, "send_complete", p.sent, AFile)
                 \/ Receives(p, AFile)

Careful(p) ==
    /\ ~(NewSbufs(p) /\ Answers(p))
    /\ ~Calls(p, "connection_made", p.made, {"one close"})
    /\ "next" \in p.has /\ "next callable" \notin p.has => Steady(p)
    /\ Receives(p, {"many"}) \/ InternalErrors(p) => Steady(p)
    /\ SendsFiles(p) => "other" \notin p.faults
    /\ ~Server(p) => "unforeseen" \notin p.faults
    /\ Server(p) =>
          /\ "keeps" \notin p.has /\ "disconnect" \notin p.faults
          /\ ~({"initial", "connection_made"} \subseteq p.has)
          /\ ~Calls(p, "connection_made", p.made, OneObject \cup AFile)

(* When the peer has closed or reset the connection, the socket lets go of *)
(* it, whatever it was doing (eof_received: and the error paths).          *)
ConnectionEnds ==
    \A k \in 1..MaxConns :
        conn.n = k /\ conn.state \in {"closed", "reset"}
            ~> conn.state = "none" \/ conn.n # k \/ pc \in Ended

(* A chunk the peer has sent reaches the protocol unless the connection    *)
(* goes first (the recv loop, with or without a rate limit).               *)
ChunksArrive ==
    \A k \in 1..MaxConns, i \in 1..MaxChunks :
        conn.n = k /\ conn.sent >= i
            ~> \/ Len(conn.data) >= i \/ conn.n # k
               \/ conn.state # "open" \/ "close" \in sock.flags
               \/ pc \in Ended

=============================================================================
