-------------------------- MODULE PxSocketIOProofs --------------------------
(***************************************************************************)
(* Proofs about PxSocketIO, for any set of protocols that are careful and  *)
(* any number of connections, chunks and replies: the loop meets none of   *)
(* its __debugbreak()s, what the peer sends is received and what the       *)
(* protocol says is sent in order, nothing is kept while the loop waits,   *)
(* and a recycled socket starts afresh.                                    *)
(*                                                                         *)
(* The invariant is an assertion for each label of PxSocket_IOLoop() and   *)
(* each operation it waits for, and every action takes the assertion of    *)
(* the place it starts from to that of the place it ends at.               *)
(***************************************************************************)
EXTENDS PxSocketIO, FiniteSetTheorems, SequenceTheorems, TLAPS

-----------------------------------------------------------------------------
(* What holds wherever the socket is                                       *)

OneWas == \A v, w \in sock.was : v = w
Startup == Client \/ sock.startup = [next |-> "none", flags |-> {}]
States == /\ conn.state = "none" => conn = NoConn(conn.n)
          /\ conn.state = "down" => "close" \in sock.flags
          /\ conn.state = "reset" => May("reset")
          /\ Client /\ conn.state = "none" => conn.n = 0
Made == /\ conn.made = IF "made" \in sock.flags THEN 1 ELSE 0
        /\ Has("connection_made") /\ conn.data # <<>> => conn.made = 1
InOrder == conn.data = UpTo(Len(conn.data))
Many == mem.many => ~Has("next")
Always == OneWas /\ Startup /\ States /\ Made /\ InOrder /\ Many

-----------------------------------------------------------------------------
(* What holds at a label, in pieces                                        *)

(* The operation, and the connection that it belongs to                    *)
Running == /\ sock.next = "none" /\ ~sock.reused
           /\ sock.last # "disconnect"
NoError == sock.error = 0
Apart == Running /\ NoError /\ sock.was = {} /\ conn.state = "none"
Joined == Running /\ sock.was \subseteq {"connected"} /\ conn.state # "none"
MadeDone == Has("connection_made") => conn.made = 1
Listens == MadeDone /\ "close" \notin sock.flags
First == sock.last = IF Client THEN "connect" ELSE "accept"

(* The next k chunks have been taken from the wire, or all replies but the *)
(* last have been delivered, or all.                                       *)
Hears(k) == /\ k <= conn.sent
            /\ conn.state # "reset" =>
                  /\ k + Len(conn.wire) = conn.sent
                  /\ \A i \in 1..Len(conn.wire) : conn.wire[i] = k + i
Unread == mem.chunk = Len(conn.data) + 1 /\ Hears(Len(conn.data) + 1)
AllRead == Hears(Len(conn.data))
Owing == conn.said > 0 /\ conn.got = UpTo(conn.said - 1)
Paid == conn.got = UpTo(conn.said)

(* The snapshot a reply in the receive buffer leaves behind, s->sbuf of an *)
(* earlier reply, and what a reply on its way holds                        *)
Kept == /\ mem.held \subseteq {"rbuf"}
        /\ "rbuf" \in mem.held => Answers(proto) /\ ~Client
KeptAnswer == "rbuf" \in mem.held => Answers(proto)
NoSbuf == mem.sb = "none" /\ mem.buf = "none" /\ ~mem.many
OldSbuf == /\ mem.buf = "none"
           /\ mem.sb \in {"none", "stale", "rbuf"}
           /\ mem.sb = "stale" => NewSbufs(proto)
           /\ mem.sb = "rbuf" => Has("next")
Steadily == Steady(proto) /\ conn.state # "down"
InSbuf == mem.held = {"sbuf"} /\ mem.sb = "live" /\ NewSbufs(proto)
InRbuf == /\ mem.held = {"rbuf"} /\ mem.sb = "none" /\ ~mem.many
          /\ Answers(proto)
InMany == /\ mem.held = {"rbuf", "send"} /\ mem.many /\ mem.buf = "none"
          /\ mem.sb \in {"none", "stale"} /\ Steadily
          /\ mem.sb = "stale" => NewSbufs(proto)
InNext == /\ mem.held = {} /\ mem.sb = "rbuf" /\ ~mem.many
          /\ Has("next") /\ Steadily
OwnError == sock.error # 0 => sock.error = conn.n /\ Steadily

-----------------------------------------------------------------------------
(* The labels                                                              *)

AtNew == /\ ~sock.reused /\ sock.op = "none" /\ NoError
         /\ sock.was = {} /\ conn.state = "none"
         /\ NoSbuf /\ mem.held = {}
         /\ sock.startup = [next |-> "none", flags |-> {}]
AtAccept == Apart /\ ~Client /\ Kept /\ NoSbuf
AtConnect == Apart /\ Client /\ mem.held = {} /\ NoSbuf
Accepting == /\ Running /\ NoError /\ sock.was \subseteq {"accepting"}
             /\ ~Client /\ Kept /\ NoSbuf
             /\ conn.data = <<>> /\ conn.made = 0 /\ AllRead /\ Paid
Connecting == /\ Running /\ NoError /\ sock.was \subseteq {"connecting"}
              /\ Client /\ mem.held \subseteq {"connectex"} /\ NoSbuf
              /\ conn.state = "none"
AtStart == /\ Joined /\ NoError /\ First /\ Paid /\ Kept /\ NoSbuf
           /\ conn.made = 0 /\ conn.data = <<>>
           /\ IF Client \/ HasInitial THEN AllRead ELSE Unread
AtMade == AtStart /\ Has("connection_made") /\ (Client \/ ~HasInitial)
AtTryRecv == /\ Joined /\ NoError /\ MadeDone /\ Paid /\ OldSbuf
             /\ IF sock.last = "accept" THEN ~Client /\ Kept /\ Unread
                                        ELSE mem.held = {} /\ AllRead
ToRecv == /\ Joined /\ NoError /\ Listens /\ Paid /\ AllRead
          /\ mem.held = {} /\ OldSbuf
AtProcess == Joined /\ NoError /\ Listens /\ Paid /\ Unread /\ Kept /\ OldSbuf
ToSend == Joined /\ MadeDone /\ Owing /\ AllRead /\ OwnError
AtSend == /\ ToSend
          /\ \/ InSbuf /\ mem.buf = "sbuf"
             \/ InRbuf /\ mem.buf = "rbuf"
             \/ InMany
             \/ InNext /\ mem.buf = "rbuf"
Sending == /\ ToSend /\ mem.buf = "none"
           /\ (InSbuf /\ ~mem.many) \/ InRbuf \/ InMany \/ InNext
ToSendfile == /\ Joined /\ NoError /\ MadeDone /\ Owing /\ AllRead
              /\ mem.held = {"sendfile"} /\ OldSbuf /\ ~May("other")
AtSent == /\ Joined /\ MadeDone /\ Paid /\ AllRead
          /\ mem.held = {} /\ OldSbuf
          /\ sock.last \in {"send", "sendfile"}
          /\ sock.error # 0 => sock.error = conn.n
AtDisconnect == Joined /\ NoError /\ Paid /\ KeptAnswer
Disconnecting == /\ sock.next = "none" /\ sock.reused /\ NoError /\ Paid
                 /\ conn.state # "none" /\ KeptAnswer
AtRecycle == /\ sock.next = "none" /\ NoError /\ KeptAnswer
             /\ sock.reused <=> sock.last = "disconnect"
             /\ sock.reused => ~sock.err \/ Client

Annotated ==
    /\ At("new") => AtNew
    /\ At("do_accept") => AtAccept
    /\ At("do_connect") \/ Waiting("resolve") => AtConnect
    /\ Waiting("accept") => Accepting
    /\ Waiting("connect") => Connecting
    /\ At("start") => AtStart
    /\ At("connection_made") => AtMade
    /\ At("try_recv") => AtTryRecv
    /\ At("do_recv") \/ Waiting("recv") \/ Waiting("ratelimit") => ToRecv
    /\ At("process_data_received") => AtProcess
    /\ At("do_send") => AtSend
    /\ Waiting("send") => Sending
    /\ At("do_sendfile") \/ Waiting("sendfile") => ToSendfile
    /\ At("send_completed") => AtSent
    /\ At("do_disconnect") => AtDisconnect
    /\ Waiting("disconnect") => Disconnecting
    /\ At("recycle") => AtRecycle
    /\ NoTrap

SInv == TypeOK /\ Always /\ Annotated
-----------------------------------------------------------------------------
(* Lemmas about the operators of the model                                 *)

(* What entering the loop changes: the operation is over and noted, and    *)
(* client_created() has been called.                                       *)
LEMMA EnterFacts ==
    ASSUME NEW s \in Sock
    PROVE  LET t == Enter(s)
           IN  /\ t \in Sock /\ t.last = s.op /\ t.op = "none"
               /\ t.next = s.next /\ t.was = s.was /\ t.reused = s.reused
               /\ t.recv = s.recv /\ t.err = s.err /\ t.error = s.error
               /\ t.flags = s.flags \/ t.flags = s.flags \cup {"created"}
               /\ ~Has("keeps") => t.startup = s.startup
<1> DEFINE t == [s EXCEPT !.last = s.op, !.op = "none"]
           u == [t EXCEPT !.flags = @ \cup {"created"}]
           v == [u EXCEPT !.startup = [next |-> u.next, flags |-> u.flags]]
<1>1. /\ t \in Sock /\ t.last = s.op /\ t.op = "none" /\ t.next = s.next
      /\ t.was = s.was /\ t.reused = s.reused /\ t.recv = s.recv
      /\ t.err = s.err /\ t.error = s.error /\ t.flags = s.flags
      /\ t.startup = s.startup
    BY DEF Sock, Ops
<1>2. /\ u \in Sock /\ u.last = s.op /\ u.op = "none" /\ u.next = s.next
      /\ u.was = s.was /\ u.reused = s.reused /\ u.recv = s.recv
      /\ u.err = s.err /\ u.error = s.error
      /\ u.flags = s.flags \cup {"created"} /\ u.startup = s.startup
    <2> HIDE DEF t
    <2> QED
        BY <1>1 DEF Sock, SockFlags
<1>3. /\ v \in Sock /\ v.last = s.op /\ v.op = "none" /\ v.next = s.next
      /\ v.was = s.was /\ v.reused = s.reused /\ v.recv = s.recv
      /\ v.err = s.err /\ v.error = s.error
      /\ v.flags = s.flags \cup {"created"}
    <2> HIDE DEF t, u
    <2> QED
        BY <1>2 DEF Sock
<1>4. Enter(s) = IF ~Has("client_created") \/ "created" \in t.flags THEN t
                 ELSE IF Has("keeps") THEN v ELSE u
    BY DEF Enter
<1> HIDE DEF t, u, v
<1> QED
    BY <1>1, <1>2, <1>3, <1>4

(* The replies that were given, and one more                               *)
LEMMA UpToFacts ==
    ASSUME NEW k \in Nat
    PROVE  /\ UpTo(k) \in Seq(Nat) /\ Len(UpTo(k)) = k
           /\ Append(UpTo(k), k + 1) = UpTo(k + 1)
<1>1. UpTo(k) \in Seq(Nat) /\ Len(UpTo(k)) = k
    BY DEF UpTo
<1>2. UpTo(k + 1) \in Seq(Nat) /\ Len(UpTo(k + 1)) = k + 1
    BY DEF UpTo
<1>3. /\ Append(UpTo(k), k + 1) \in Seq(Nat)
      /\ Len(Append(UpTo(k), k + 1)) = k + 1
    BY <1>1
<1>4. \A i \in 1..(k + 1) : Append(UpTo(k), k + 1)[i] = UpTo(k + 1)[i]
    BY <1>1 DEF UpTo
<1> QED
    BY <1>2, <1>3, <1>4

(* Giving a reply, delivering it, handing a chunk to the protocol          *)
LEMMA ReplyFacts ==
    ASSUME NEW c \in Conn
    PROVE  LET d == Reply(c)
           IN  /\ d \in Conn /\ d.said = c.said + 1 /\ d.got = c.got
               /\ d.n = c.n /\ d.state = c.state /\ d.sent = c.sent
               /\ d.wire = c.wire /\ d.made = c.made /\ d.data = c.data
<1> DEFINE k == c.said + 1
           d == [c EXCEPT !.said = k]
<1>1. k \in Nat
    BY DEF Conn
<1>2. Reply(c) = d
    BY DEF Reply
<1> HIDE DEF k
<1>3. /\ d \in Conn /\ d.said = k /\ d.got = c.got /\ d.n = c.n
      /\ d.state = c.state /\ d.sent = c.sent /\ d.wire = c.wire
      /\ d.made = c.made /\ d.data = c.data
    BY <1>1 DEF Conn
<1> HIDE DEF d
<1> QED
    BY <1>2, <1>3 DEF k

(* The peer has got the latest reply.                                      *)
LEMMA DeliveredFacts ==
    ASSUME NEW c \in Conn
    PROVE  LET d == Delivered(c)
           IN  /\ d \in Conn /\ d.got = Append(c.got, c.said)
               /\ d.said = c.said /\ d.n = c.n /\ d.state = c.state
               /\ d.sent = c.sent /\ d.wire = c.wire /\ d.made = c.made
               /\ d.data = c.data
               /\ c.said > 0 /\ c.got = UpTo(c.said - 1)
                     => d.got = UpTo(d.said)
<1> DEFINE g == Append(c.got, c.said)
           d == [c EXCEPT !.got = g]
<1>1. g \in Seq(Nat)
    BY DEF Conn
<1>2. Delivered(c) = d
    BY DEF Delivered
<1> HIDE DEF g
<1>3. /\ d \in Conn /\ d.got = g /\ d.said = c.said /\ d.n = c.n
      /\ d.state = c.state /\ d.sent = c.sent /\ d.wire = c.wire
      /\ d.made = c.made /\ d.data = c.data
    BY <1>1 DEF Conn
<1>4. ASSUME c.said > 0, c.got = UpTo(c.said - 1)
      PROVE  g = UpTo(c.said)
    <2>1. c.said - 1 \in Nat /\ (c.said - 1) + 1 = c.said
        BY <1>4 DEF Conn
    <2> QED
        BY <1>4, <2>1, UpToFacts DEF g
<1> HIDE DEF d
<1> QED
    BY <1>2, <1>3, <1>4 DEF g

(* The chunk in the receive buffer has been handed to the protocol.        *)
LEMMA ProcessedFacts ==
    ASSUME conn \in Conn, mem \in Mem, mem.chunk = Len(conn.data) + 1, InOrder
    PROVE  LET d == Processed
           IN  /\ d \in Conn /\ d.said = conn.said /\ d.got = conn.got
               /\ d.n = conn.n /\ d.state = conn.state
               /\ d.sent = conn.sent /\ d.wire = conn.wire
               /\ d.made = conn.made /\ d.data = UpTo(mem.chunk)
               /\ Len(d.data) = mem.chunk /\ d.data # <<>>
<1> DEFINE w == Append(conn.data, mem.chunk)
           d == [conn EXCEPT !.data = w]
<1>1. mem.chunk \in 1..MaxChunks /\ mem.chunk \in Nat
      /\ Len(conn.data) \in Nat /\ conn.data \in Seq(1..MaxChunks)
    BY DEF Mem, Conn
<1>2. w \in Seq(1..MaxChunks) /\ Len(w) = mem.chunk
    BY <1>1
<1>3. w = UpTo(mem.chunk)
    BY <1>1, UpToFacts DEF InOrder
<1>4. Processed = d
    BY DEF Processed
<1> HIDE DEF w
<1>5. /\ d \in Conn /\ d.said = conn.said /\ d.got = conn.got
      /\ d.n = conn.n /\ d.state = conn.state /\ d.sent = conn.sent
      /\ d.wire = conn.wire /\ d.made = conn.made /\ d.data = w
    BY <1>2 DEF Conn
<1>6. w # <<>>
    BY <1>1, <1>2
<1> HIDE DEF d
<1> QED
    BY <1>2, <1>3, <1>4, <1>5, <1>6

(* Snapshots                                                               *)
LEMMA SnapFacts ==
    ASSUME NEW m \in Mem, NEW o \in Owners
    PROVE  /\ Snap(m, o) \in Mem /\ Snap(m, o).held = m.held \cup {o}
           /\ Snap(m, o).sb = m.sb /\ Snap(m, o).buf = m.buf
           /\ Snap(m, o).many = m.many /\ Snap(m, o).chunk = m.chunk
BY DEF Snap, Mem

(* A buffer of its own holds the snapshot.                                 *)
LEMMA NewSbufFacts ==
    ASSUME NEW m \in Mem
    PROVE  LET n == NewSbuf(m)
           IN  /\ n \in Mem /\ n.held = m.held \cup {"sbuf"} /\ n.sb = "live"
               /\ n.buf = "sbuf" /\ n.many = m.many /\ n.chunk = m.chunk
BY DEF NewSbuf, Snap, Mem, Owners

(* The heap is rolled back: s->sbuf, if it was in use, is stale.           *)
LEMMA RollbackFacts ==
    ASSUME NEW m \in Mem, NEW owners
    PROVE  LET n == Rollback(m, owners)
           IN  /\ n \in Mem /\ n.held = m.held \ owners
               /\ n.sb = IF m.sb = "live" THEN "stale" ELSE m.sb
               /\ n.buf = m.buf /\ n.many = m.many /\ n.chunk = m.chunk
BY DEF Rollback, Mem

(* What a callback returned, and what it did before                        *)
LEMMA WhatFacts ==
    ASSUME NEW r \in Results
    PROVE  /\ What(r) \in {"none", "file", "one", "many", "raise"}
           /\ What(r) = "none" <=> r \in {"none", "close"}
           /\ What(r) = "file" <=> r \in AFile
           /\ What(r) = "one" <=> r \in OneObject
           /\ What(r) = "many" <=> r = "many"
           /\ What(r) = "raise" <=> r = "raise"
BY DEF What, Results, AFile, OneObject

(* transport.close() and transport.sendfile() only set their flags.        *)
LEMMA FlaggedFacts ==
    ASSUME NEW s \in Sock, NEW r \in Results
    PROVE  LET t == Flagged(s, r)
           IN  /\ t \in Sock /\ t.last = s.last /\ t.op = s.op
               /\ t.next = s.next /\ t.was = s.was /\ t.reused = s.reused
               /\ t.recv = s.recv /\ t.err = s.err /\ t.error = s.error
               /\ t.startup = s.startup
               /\ "made" \in t.flags <=> "made" \in s.flags
               /\ "close" \in s.flags => "close" \in t.flags
               /\ "close" \in t.flags => \/ "close" \in s.flags
                      \/ r \in {"close", "one close", "file close"}
<1> DEFINE f == s.flags \cup
                 ((IF r \in {"close", "one close", "file close"}
                   THEN {"close"} ELSE {})
                  \cup (IF What(r) = "file" THEN {"sendfile"} ELSE {}))
           t == [s EXCEPT !.flags = f]
<1>1. /\ f \in SUBSET SockFlags
      /\ "made" \in f <=> "made" \in s.flags
      /\ "close" \in s.flags => "close" \in f
      /\ "close" \in f => \/ "close" \in s.flags
                          \/ r \in {"close", "one close", "file close"}
    BY DEF SockFlags, Sock
<1>2. Flagged(s, r) = t
    BY DEF Flagged
<1> HIDE DEF f
<1>3. /\ t \in Sock /\ t.last = s.last /\ t.op = s.op
      /\ t.next = s.next /\ t.was = s.was /\ t.reused = s.reused
      /\ t.recv = s.recv /\ t.err = s.err /\ t.error = s.error
      /\ t.startup = s.startup /\ t.flags = f
    BY <1>1 DEF Sock
<1> HIDE DEF t
<1> QED
    BY <1>1, <1>2, <1>3

(* No connection: nothing was sent or received.                            *)
LEMMA NoConnFacts ==
    ASSUME Always, conn.state = "none"
    PROVE  /\ conn.data = <<>> /\ conn.wire = <<>> /\ conn.made = 0
           /\ conn.said = 0 /\ conn.got = <<>> /\ conn.sent = 0
           /\ AllRead /\ Paid
<1>1. conn = NoConn(conn.n)
    BY DEF Always, States
<1>2. /\ conn.data = <<>> /\ conn.wire = <<>> /\ conn.made = 0
      /\ conn.said = 0 /\ conn.got = <<>> /\ conn.sent = 0
    BY <1>1 DEF NoConn
<1>3. <<>> = UpTo(0)
    BY DEF UpTo
<1> QED
    BY <1>2, <1>3 DEF AllRead, Hears, Paid

(* Only a client keeps the snapshot taken for the initial bytes.           *)
LEMMA InitBytesFacts ==
    ASSUME mem \in Mem, mem.sb = "none"
    PROVE  LET n == InitBytes(mem)
           IN  /\ n \in Mem /\ n.sb = "none" /\ n.buf = mem.buf
               /\ n.many = mem.many /\ n.chunk = mem.chunk
               /\ \/ n.held = mem.held
                  \/ Client /\ n.held = mem.held \cup {"connectex"}
<1> DEFINE a == Snap(mem, "connectex")
           b == Rollback(mem, {})
<1>1. /\ a \in Mem /\ a.held = mem.held \cup {"connectex"}
      /\ a.sb = mem.sb /\ a.buf = mem.buf /\ a.many = mem.many
      /\ a.chunk = mem.chunk
    BY SnapFacts DEF Owners
<1>2. /\ b \in Mem /\ b.held = mem.held \ {}
      /\ b.sb = "none" /\ b.buf = mem.buf /\ b.many = mem.many
      /\ b.chunk = mem.chunk
    BY RollbackFacts
<1>3. \/ InitBytes(mem) = mem
      \/ InitBytes(mem) = a /\ Client
      \/ InitBytes(mem) = b
    BY DEF InitBytes
<1>4. mem.held \ {} = mem.held
    OBVIOUS
<1> HIDE DEF a, b
<1> QED
    BY <1>1, <1>2, <1>3, <1>4

(* An operation is begun, or tried in vain.                                *)
Began(s, op) == [s EXCEPT !.op = op, !.err = FALSE]
Tried(s, op) == [s EXCEPT !.op = op]

(* Nothing else changes.                                                   *)
LEMMA OpFacts ==
    ASSUME NEW s \in Sock, NEW op \in Ops
    PROVE  \A t \in {Began(s, op), Tried(s, op)} :
              /\ t \in Sock /\ t.op = op /\ t.last = s.last
              /\ t.next = s.next /\ t.was = s.was /\ t.reused = s.reused
              /\ t.flags = s.flags /\ t.recv = s.recv /\ t.error = s.error
              /\ t.startup = s.startup
<1>1. LET t == [s EXCEPT !.op = op, !.err = FALSE]
      IN  /\ t \in Sock /\ t.op = op /\ t.last = s.last
          /\ t.next = s.next /\ t.was = s.was /\ t.reused = s.reused
          /\ t.flags = s.flags /\ t.recv = s.recv /\ t.error = s.error
          /\ t.startup = s.startup
    BY DEF Sock
<1>2. LET t == [s EXCEPT !.op = op]
      IN  /\ t \in Sock /\ t.op = op /\ t.last = s.last
          /\ t.next = s.next /\ t.was = s.was /\ t.reused = s.reused
          /\ t.flags = s.flags /\ t.recv = s.recv /\ t.error = s.error
          /\ t.startup = s.startup
    BY DEF Sock
<1> QED
    BY <1>1, <1>2 DEF Began, Tried

(* A chunk is taken from the wire.                                         *)
LEMMA TakeFacts ==
    ASSUME conn \in Conn, mem \in Mem, conn.state # "reset",
           conn.wire # <<>>, AllRead,
           mem' = [mem EXCEPT !.chunk = Head(conn.wire)],
           conn' = [conn EXCEPT !.wire = Tail(@)]
    PROVE  /\ mem' \in Mem /\ mem'.held = mem.held /\ mem'.sb = mem.sb
           /\ mem'.buf = mem.buf /\ mem'.many = mem.many
           /\ conn' \in Conn /\ conn'.n = conn.n /\ conn'.state = conn.state
           /\ conn'.sent = conn.sent /\ conn'.made = conn.made
           /\ conn'.data = conn.data /\ conn'.said = conn.said
           /\ conn'.got = conn.got
           /\ Unread'
<1> DEFINE w == conn.wire
           k == Len(conn.data)
<1>1. /\ w \in Seq(1..MaxChunks) /\ w # <<>> /\ k \in Nat
      /\ k + Len(w) = conn.sent /\ \A i \in 1..Len(w) : w[i] = k + i
    BY DEF Conn, AllRead, Hears
<1> HIDE DEF w, k
<1>2. /\ Head(w) \in 1..MaxChunks /\ Head(w) = k + 1
      /\ Tail(w) \in Seq(1..MaxChunks) /\ Len(Tail(w)) = Len(w) - 1
      /\ Len(w) \in Nat /\ Len(w) > 0
      /\ \A i \in 1..Len(Tail(w)) : Tail(w)[i] = w[i + 1]
    <2>1. /\ Head(w) \in 1..MaxChunks
          /\ Tail(w) \in Seq(1..MaxChunks) /\ Len(Tail(w)) = Len(w) - 1
          /\ \A i \in 1..Len(Tail(w)) : Tail(w)[i] = w[i + 1]
        BY <1>1, HeadTailProperties
    <2>2. Len(w) \in Nat /\ Len(w) > 0 /\ Head(w) = w[1]
        BY <1>1
    <2> QED
        BY <1>1, <2>1, <2>2
<1>3. /\ mem' \in Mem /\ mem'.held = mem.held /\ mem'.sb = mem.sb
      /\ mem'.buf = mem.buf /\ mem'.many = mem.many /\ mem'.chunk = k + 1
    <2> DEFINE c == Head(w)
    <2>1. mem' = [mem EXCEPT !.chunk = c] /\ c \in 0..MaxChunks
        BY <1>2, BoundAssumption DEF w
    <2> HIDE DEF c
    <2>2. /\ mem' \in Mem /\ mem'.held = mem.held /\ mem'.sb = mem.sb
          /\ mem'.buf = mem.buf /\ mem'.many = mem.many /\ mem'.chunk = c
        BY <2>1 DEF Mem
    <2> QED
        BY <1>2, <2>2 DEF c
<1>4. /\ conn' \in Conn /\ conn'.n = conn.n /\ conn'.state = conn.state
      /\ conn'.sent = conn.sent /\ conn'.made = conn.made
      /\ conn'.data = conn.data /\ conn'.said = conn.said
      /\ conn'.got = conn.got /\ conn'.wire = Tail(w)
    <2> DEFINE t == Tail(w)
    <2>1. conn' = [conn EXCEPT !.wire = t] /\ t \in Seq(1..MaxChunks)
        BY <1>2 DEF w
    <2> HIDE DEF t
    <2>2. /\ conn' \in Conn /\ conn'.n = conn.n /\ conn'.state = conn.state
          /\ conn'.sent = conn.sent /\ conn'.made = conn.made
          /\ conn'.data = conn.data /\ conn'.said = conn.said
          /\ conn'.got = conn.got /\ conn'.wire = t
        BY <2>1 DEF Conn
    <2> QED
        BY <2>2 DEF t
<1>5. /\ mem'.chunk = k + 1 /\ Len(conn'.data) = k
      /\ k + 1 + Len(conn'.wire) = conn'.sent
      /\ \A i \in 1..Len(conn'.wire) : conn'.wire[i] = k + 1 + i
    <2>1. Len(conn'.data) = k /\ k + 1 + Len(Tail(w)) = conn.sent
        BY <1>1, <1>2, <1>4 DEF k
    <2>2. ASSUME NEW i \in 1..Len(Tail(w))
          PROVE  Tail(w)[i] = k + 1 + i
        <3>1. i + 1 \in 1..Len(w)
            BY <1>2
        <3> QED
            BY <1>1, <1>2, <3>1
    <2> QED
        BY <1>3, <1>4, <2>1, <2>2
<1>6. k + 1 <= conn'.sent
    <2>1. Len(conn'.wire) \in Nat /\ conn'.sent \in Nat
        BY <1>4 DEF Conn
    <2> QED
        BY <1>1, <1>5, <2>1
<1> QED
    BY <1>3, <1>4, <1>5, <1>6 DEF Unread, Hears

(* A new reply is owed to the peer until it is delivered.                  *)
LEMMA OwedFacts ==
    ASSUME NEW c \in Conn, c.got = UpTo(c.said), conn' = Reply(c)
    PROVE  Owing'
<1>1. /\ conn'.said = c.said + 1 /\ conn'.got = UpTo(c.said)
      /\ c.said \in Nat
    BY ReplyFacts DEF Conn
<1>2. conn'.said - 1 = c.said /\ conn'.said > 0
    BY <1>1
<1> QED
    BY <1>1, <1>2 DEF Owing

(* A rollback by way of an owner does something only if it is one.         *)
LEMMA RollbackOfFacts ==
    ASSUME NEW m \in Mem, NEW o, NEW owners
    PROVE  LET n == RollbackOf(m, o, owners)
           IN  /\ n \in Mem /\ n.buf = m.buf /\ n.many = m.many
               /\ n.chunk = m.chunk
               /\ IF o \in m.held
                  THEN /\ n.held = m.held \ (owners \cup {o})
                       /\ n.sb = IF m.sb = "live" THEN "stale" ELSE m.sb
                  ELSE n.held = m.held /\ n.sb = m.sb
<1>1. CASE o \in m.held
    <2>1. RollbackOf(m, o, owners) = Rollback(m, owners \cup {o})
        BY <1>1 DEF RollbackOf
    <2> QED
        BY <1>1, <2>1, RollbackFacts
<1>2. CASE o \notin m.held
    BY <1>2 DEF RollbackOf
<1> QED
    BY <1>1, <1>2

(* A server's startup snapshot stays what it was when the loop is entered. *)
LEMMA EnterKeeps ==
    ASSUME TypeOK, Always, Careful(proto)
    PROVE  LET t == Enter(sock)
           IN  /\ t \in Sock /\ t.last = sock.op /\ t.next = sock.next
               /\ t.was = sock.was /\ t.reused = sock.reused
               /\ t.error = sock.error
               /\ "made" \in t.flags <=> "made" \in sock.flags
               /\ "close" \in t.flags <=> "close" \in sock.flags
               /\ Client \/ t.startup = [next |-> "none", flags |-> {}]
<1> DEFINE t == Enter(sock)
<1>1. sock \in Sock
    BY DEF TypeOK
<1>2. /\ t \in Sock /\ t.last = sock.op /\ t.next = sock.next
      /\ t.was = sock.was /\ t.reused = sock.reused
      /\ t.error = sock.error
      /\ t.flags = sock.flags \/ t.flags = sock.flags \cup {"created"}
      /\ ~Has("keeps") => t.startup = sock.startup
    BY <1>1, EnterFacts
<1>3. Client \/ ~Has("keeps")
    BY DEF Careful, Server, Client, Has
<1> HIDE DEF t
<1> QED
    BY <1>2, <1>3 DEF t, Always, Startup

(* The same for an operation that completes with an error.                 *)
LEMMA EnterFails ==
    ASSUME TypeOK, Always, Careful(proto),
           sock' = [Enter(sock) EXCEPT !.err = TRUE]
    PROVE  /\ sock' \in Sock /\ sock'.last = sock.op /\ sock'.next = sock.next
           /\ sock'.was = sock.was /\ sock'.reused = sock.reused
           /\ sock'.error = sock.error
           /\ "made" \in sock'.flags <=> "made" \in sock.flags
           /\ "close" \in sock'.flags <=> "close" \in sock.flags
           /\ Client \/ sock'.startup = [next |-> "none", flags |-> {}]
<1> DEFINE t == Enter(sock)
<1>1. /\ t \in Sock /\ t.last = sock.op /\ t.next = sock.next
      /\ t.was = sock.was /\ t.reused = sock.reused
      /\ t.error = sock.error
      /\ "made" \in t.flags <=> "made" \in sock.flags
      /\ "close" \in t.flags <=> "close" \in sock.flags
      /\ Client \/ t.startup = [next |-> "none", flags |-> {}]
    BY EnterKeeps
<1>2. sock' = [t EXCEPT !.err = TRUE]
    OBVIOUS
<1> HIDE DEF t
<1> QED
    BY <1>1, <1>2 DEF Sock

-----------------------------------------------------------------------------
(* A new socket                                                            *)

(* The first call of the loop, for a new socket, keeps the invariant.      *)
LEMMA FirstEntryStep ==
    ASSUME SInv, Careful(proto), FirstEntry
    PROVE  SInv'
<1> DEFINE t == Enter(sock)
<1>1. /\ pc = "new" /\ proto' = proto /\ mem' = mem /\ conn' = conn
      /\ pc' = IF Client THEN "do_connect" ELSE "do_accept"
      /\ sock' = [t EXCEPT !.next = "none"]
      /\ TypeOK /\ Always /\ AtNew
    BY DEF FirstEntry, At, Goto, SInv, Annotated
<1>2. /\ t \in Sock /\ t.last = "none" /\ t.was = {} /\ ~t.reused
      /\ t.error = 0
      /\ "made" \in t.flags <=> "made" \in sock.flags
      /\ ~Client => t.startup = sock.startup
    <2>1. sock \in Sock /\ (~Client => ~Has("keeps"))
        BY <1>1 DEF TypeOK, Careful, Client, Has, Server
    <2>2. /\ t \in Sock /\ t.last = sock.op /\ t.was = sock.was
          /\ t.reused = sock.reused /\ t.error = sock.error
          /\ t.flags = sock.flags \/ t.flags = sock.flags \cup {"created"}
          /\ ~Has("keeps") => t.startup = sock.startup
        BY <2>1, EnterFacts
    <2> QED
        BY <1>1, <2>1, <2>2 DEF AtNew, NoError
<1> HIDE DEF t
<1>3. /\ sock' \in Sock /\ sock'.last = "none" /\ sock'.was = {}
      /\ ~sock'.reused /\ sock'.error = 0 /\ sock'.next = "none"
      /\ "made" \in sock'.flags <=> "made" \in sock.flags
      /\ ~Client => sock'.startup = sock.startup
    BY <1>1, <1>2 DEF Sock, Ops
<1>4. Always'
    BY <1>1, <1>3 DEF Always, OneWas, Startup, States, Made, InOrder, Many,
       AtNew, Client, Has, May, NoConn
<1>5. Apart'
    BY <1>1, <1>3 DEF Apart, Running, NoError, AtNew
<1>6. IF Client THEN AtConnect' ELSE AtAccept'
    BY <1>1, <1>5 DEF AtConnect, AtAccept, AtNew, NoSbuf, Kept, Client, Has
<1> QED
    BY <1>1, <1>3, <1>4, <1>6
       DEF SInv, TypeOK, Annotated, At, Waiting, NoTrap, Labels

(* do_accept: posts AcceptEx() for a socket that is not connected.         *)
LEMMA DoAcceptStep ==
    ASSUME SInv, DoAccept
    PROVE  SInv'
<1> DEFINE s == [sock EXCEPT !.was = @ \cup {"accepting"}]
<1>1. /\ pc = "do_accept" /\ proto' = proto /\ TypeOK /\ Always /\ AtAccept
      /\ conn.state = "none" /\ conn' = conn /\ mem' = InitBytes(mem)
      /\ \/ sock' = Began(s, "accept")
                /\ pc' = "waiting"
         \/ sock' = Tried(s, "accept") /\ pc' \in {"recycle", "errors"}
         \/ sock' = sock /\ pc' = "errors"
    BY DEF DoAccept, Began, Tried, At, Goto, Fatal, Begin, SInv, Annotated,
       AtAccept, Apart
<1>2. /\ s \in Sock /\ s.was = {"accepting"} /\ s.next = sock.next
      /\ s.last = sock.last /\ s.reused = sock.reused
      /\ s.flags = sock.flags /\ s.error = sock.error
      /\ s.startup = sock.startup
    BY <1>1 DEF TypeOK, Sock, AtAccept, Apart
<1> HIDE DEF s
<1>3. /\ sock' \in Sock /\ sock'.was \subseteq {"accepting"}
      /\ sock'.next = sock.next /\ sock'.last = sock.last
      /\ sock'.reused = sock.reused /\ sock'.flags = sock.flags
      /\ sock'.error = sock.error /\ sock'.startup = sock.startup
      /\ pc' = "waiting" => sock'.op = "accept"
    BY <1>1, <1>2, OpFacts DEF Ops, TypeOK, AtAccept, Apart
<1>4. /\ mem' \in Mem /\ mem'.held = mem.held /\ mem'.sb = mem.sb
      /\ mem'.buf = mem.buf /\ mem'.many = mem.many
    BY <1>1, InitBytesFacts DEF TypeOK, AtAccept, NoSbuf
<1>5. Always'
    BY <1>1, <1>3, <1>4 DEF Always, OneWas, Startup, States, Made, InOrder,
       Many, Client, Has, May
<1>6. Accepting'
    BY <1>1, <1>3, <1>4, NoConnFacts DEF AtAccept, Apart, Accepting, Running,
       NoError, Kept, NoSbuf, Client, Has, AllRead, Hears, Paid
<1>7. AtRecycle'
    BY <1>1, <1>3, <1>4 DEF AtAccept, Apart, AtRecycle, Running, NoError,
       Kept, KeptAnswer
<1> QED
    BY <1>1, <1>3, <1>4, <1>5, <1>6, <1>7
       DEF SInv, TypeOK, Annotated, At, Waiting, NoTrap, Labels, Gone, Ended

(* do_connect: starts to resolve the host, or to connect.                  *)
LEMMA DoConnectStep ==
    ASSUME SInv, Careful(proto), DoConnect
    PROVE  SInv'
<1> DEFINE s == [sock EXCEPT !.was = @ \cup {"connecting"}]
           r == [sock EXCEPT !.op = "resolve", !.last = "resolve"]
<1>1. /\ pc = "do_connect" /\ proto' = proto /\ conn' = conn
      /\ TypeOK /\ Always /\ AtConnect
      /\ \/ /\ mem' = mem
            /\ \/ sock' = Began(sock, "resolve") /\ pc' = "waiting"
               \/ sock' = r /\ pc' = "do_connect"
               \/ sock' = sock /\ pc' = "errors"
         \/ /\ mem' = InitBytes(mem)
            /\ \/ sock' = Began(s, "connect") /\ pc' = "waiting"
               \/ sock' = Tried(s, "connect")
                     /\ pc' \in {"recycle", "errors"}
               \/ sock' = sock /\ pc' = "errors"
    <2>1. pc = "do_connect" /\ TypeOK /\ Always /\ AtConnect
        BY DEF DoConnect, At, SInv, Annotated
    <2>2. ~May("unforeseen")
        BY <2>1 DEF AtConnect, Careful, Server, Client, Has, May
    <2>3. CASE Resolve
        BY <2>1, <2>2, <2>3
           DEF DoConnect, Resolve, Began, Goto, Fatal, Begin
    <2>4. CASE Connect
        BY <2>1, <2>4 DEF DoConnect, Connect, Began, Tried, Goto, Fatal, Begin
    <2> QED
        BY <2>3, <2>4 DEF DoConnect
<1>2. /\ s \in Sock /\ s.was = {"connecting"} /\ s.next = sock.next
      /\ s.last = sock.last /\ s.reused = sock.reused
      /\ s.flags = sock.flags /\ s.error = sock.error
      /\ s.startup = sock.startup
    BY <1>1 DEF TypeOK, Sock, AtConnect, Apart
<1> HIDE DEF s
<1>r. /\ r \in Sock /\ r.op = "resolve" /\ r.was = sock.was
      /\ r.next = sock.next /\ r.last = "resolve"
      /\ r.reused = sock.reused /\ r.flags = sock.flags
      /\ r.error = sock.error /\ r.startup = sock.startup
    BY <1>1 DEF TypeOK, Sock, Ops
<1> HIDE DEF r
<1>3. /\ sock' \in Sock /\ sock'.was \subseteq {"connecting"}
      /\ sock'.next = sock.next /\ sock'.last \in {sock.last, "resolve"}
      /\ sock'.reused = sock.reused /\ sock'.flags = sock.flags
      /\ sock'.error = sock.error /\ sock'.startup = sock.startup
      /\ pc' = "waiting" => \/ sock'.op = "connect"
                            \/ /\ sock'.op = "resolve" /\ mem' = mem
                               /\ sock'.was = {}
      /\ pc' = "do_connect" => mem' = mem /\ sock'.was = {}
    BY <1>1, <1>2, <1>r, OpFacts DEF Ops, TypeOK, AtConnect, Apart
<1>4. /\ mem' \in Mem /\ mem'.held \subseteq {"connectex"} 
      /\ mem'.sb = mem.sb /\ mem'.buf = mem.buf /\ mem'.many = mem.many
    BY <1>1, InitBytesFacts DEF TypeOK, AtConnect, NoSbuf
<1>5. Always'
    BY <1>1, <1>3, <1>4 DEF Always, OneWas, Startup, States, Made, InOrder,
       Many, Client, Has, May
<1>6. Connecting'
    BY <1>1, <1>3, <1>4 DEF AtConnect, Apart, Connecting, Running,
       NoError, NoSbuf, Client, Has
<1>7. sock'.was = {} /\ mem' = mem => AtConnect'
    BY <1>1, <1>3 DEF AtConnect, Apart, Running, NoError, NoSbuf, Client, Has
<1>8. AtRecycle'
    BY <1>1, <1>3, <1>4 DEF AtConnect, Apart, AtRecycle, Running, NoError,
       KeptAnswer
<1> QED
    BY <1>1, <1>3, <1>4, <1>5, <1>6, <1>7, <1>8
       DEF SInv, TypeOK, Annotated, At, Waiting, NoTrap, Labels, Gone, Ended

(* The host has been resolved, or cannot be.                               *)
LEMMA ResolvedStep ==
    ASSUME SInv, Resolved
    PROVE  SInv'
<1>1. /\ pc = "waiting" /\ sock.op = "resolve"
      /\ pc' \in {"do_connect", "errors"}
      /\ proto' = proto /\ mem' = mem /\ conn' = conn /\ sock' = Enter(sock)
      /\ TypeOK /\ Always /\ AtConnect
    BY DEF Resolved, Waiting, Goto, Fatal, SInv, Annotated
<1>2. /\ sock' \in Sock /\ sock'.last = "resolve" /\ sock'.next = sock.next
      /\ sock'.was = sock.was /\ sock'.reused = sock.reused
      /\ sock'.error = sock.error
      /\ "made" \in sock'.flags <=> "made" \in sock.flags
    BY <1>1, EnterFacts DEF TypeOK
<1>3. Always'
    BY <1>1, <1>2 DEF Always, OneWas, Startup, States, Made, InOrder, Many,
       AtConnect, Apart, Client, Has, May
<1>4. AtConnect'
    BY <1>1, <1>2 DEF AtConnect, Apart, Running, NoError, NoSbuf, Client, Has
<1> QED
    BY <1>1, <1>2, <1>3, <1>4
       DEF SInv, TypeOK, Annotated, At, Waiting, NoTrap, Labels, Gone, Ended

(* ConnectEx() has completed: the initial bytes are the first reply.       *)
LEMMA ConnectedStep ==
    ASSUME SInv, Careful(proto), Connected
    PROVE  SInv'
<1> DEFINE e == Enter(sock)
           s == [e EXCEPT !.was = @ \ {"connecting"}]
           u == [s EXCEPT !.was = @ \cup {"connected"}]
           f == [s EXCEPT !.err = TRUE]
           open == [NoConn(1) EXCEPT !.state = "open"]
<1>1. /\ pc = "waiting" /\ sock.op = "connect" /\ proto' = proto
      /\ \/ pc' = "errors" /\ mem' = mem
         \/ mem' = RollbackOf(mem, "connectex", {})
      /\ \/ sock' = u /\ conn' = Delivered(Reply(open)) /\ pc' = "start"
                /\ HasInitial
         \/ sock' = s /\ conn' = open /\ pc' = "do_disconnect"
         \/ sock' \in {s, f} /\ conn' = conn /\ pc' = "errors"
      /\ TypeOK /\ Always /\ Connecting
    <2>1. /\ pc = "waiting" /\ sock.op = "connect"
          /\ TypeOK /\ Always /\ Connecting
        BY DEF Connected, Waiting, SInv, Annotated
    <2>2. ~May("unforeseen")
        BY <2>1 DEF Connecting, Careful, Server, Client, Has, May
    <2> QED
        BY <2>1, <2>2 DEF Connected, Goto, Fatal
<1>2. /\ e \in Sock /\ e.last = "connect" /\ e.next = "none" /\ ~e.reused
      /\ e.was \subseteq {"connecting"} /\ e.error = 0
      /\ "made" \in e.flags <=> "made" \in sock.flags
    <2>1. sock \in Sock
        BY <1>1 DEF TypeOK
    <2> QED
        BY <1>1, <2>1, EnterFacts DEF Connecting, Running, NoError
<1> HIDE DEF e
<1>3. /\ s \in Sock /\ s.last = "connect" /\ s.next = "none" /\ ~s.reused
      /\ s.was = {} /\ s.error = 0
      /\ "made" \in s.flags <=> "made" \in sock.flags
    BY <1>2 DEF Sock
<1> HIDE DEF s
<1>f. /\ f \in Sock /\ f.was = {} /\ f.startup = s.startup
      /\ "made" \in f.flags <=> "made" \in sock.flags
    BY <1>3 DEF Sock
<1> HIDE DEF f
<1>4. /\ u \in Sock /\ u.last = "connect" /\ u.next = "none" /\ ~u.reused
      /\ u.was = {"connected"} /\ u.error = 0
      /\ "made" \in u.flags <=> "made" \in sock.flags
    BY <1>3 DEF Sock
<1> HIDE DEF u
<1>5. /\ mem' \in Mem /\ mem'.sb = "none"
      /\ mem'.buf = "none" /\ ~mem'.many
      /\ mem'.held = {} \/ pc' = "errors"
    <2>1. mem \in Mem /\ mem.held \subseteq {"connectex"} /\ NoSbuf
        BY <1>1 DEF TypeOK, Connecting
    <2>2. CASE /\ mem' = RollbackOf(mem, "connectex", {})
               /\ "connectex" \in mem.held
        <3>1. mem' = Rollback(mem, {"connectex"})
            BY <2>2 DEF RollbackOf
        <3> QED
            BY <2>1, <3>1, RollbackFacts DEF NoSbuf
    <2>3. CASE /\ mem' = RollbackOf(mem, "connectex", {})
               /\ "connectex" \notin mem.held
        BY <2>1, <2>3 DEF RollbackOf, NoSbuf
    <2>4. CASE pc' = "errors" /\ mem' = mem
        BY <2>1, <2>4 DEF NoSbuf
    <2> QED
        BY <1>1, <2>2, <2>3, <2>4
<1>6. /\ open \in Conn /\ open.n = 1 /\ open.state = "open" /\ open.sent = 0
      /\ open.wire = <<>> /\ open.made = 0 /\ open.data = <<>>
      /\ open.said = 0 /\ open.got = <<>>
    <2>1. 1 \in 0..MaxConns /\ 0 \in 0..MaxChunks
          /\ <<>> \in Seq(1..MaxChunks) /\ <<>> \in Seq(Nat)
        BY BoundAssumption
    <2>2. open = [n |-> 1, state |-> "open", sent |-> 0, wire |-> <<>>,
                  made |-> 0, data |-> <<>>, said |-> 0, got |-> <<>>]
        BY DEF NoConn
    <2> HIDE DEF open
    <2> QED
        BY <2>1, <2>2 DEF Conn
<1> HIDE DEF open
<1>7. <<>> = UpTo(0)
    BY DEF UpTo
<1>8. LET c == Delivered(Reply(open))
      IN  /\ c \in Conn /\ c.state = "open" /\ c.sent = 0
          /\ c.wire = <<>> /\ c.made = 0 /\ c.data = <<>>
          /\ c.got = UpTo(c.said)
    <2> DEFINE r == Reply(open)
    <2>1. /\ r \in Conn /\ r.n = 1 /\ r.state = "open" /\ r.sent = 0
          /\ r.wire = <<>> /\ r.made = 0 /\ r.data = <<>>
          /\ r.said = 1 /\ r.got = UpTo(0)
        BY <1>6, <1>7, ReplyFacts
    <2> HIDE DEF r
    <2>2. r.got = UpTo(r.said - 1)
        BY <2>1
    <2> QED
        BY <2>1, <2>2, DeliveredFacts DEF r
<1>9. /\ conn.made = 0 /\ "made" \notin sock.flags /\ conn \in Conn
      /\ conn.state = "none" /\ conn = NoConn(conn.n)
    BY <1>1, NoConnFacts DEF Always, Made, Connecting, TypeOK, States
<1>10. /\ conn' \in Conn /\ conn'.made = 0 /\ conn'.data = <<>>
       /\ conn' = conn \/ conn'.state = "open"
    BY <1>1, <1>6, <1>8, <1>9 DEF NoConn
<1>11. Always'
    BY <1>1, <1>3, <1>f, <1>4, <1>5, <1>7, <1>9, <1>10
       DEF Always, OneWas, Startup, States, Made, InOrder, Many, Client, Has,
           May, Connecting
<1>12. ASSUME pc' = "start"
       PROVE  AtStart'
    <2>1. /\ conn'.state = "open" /\ conn'.sent = 0 /\ conn'.made = 0
          /\ Len(conn'.wire) = 0 /\ Len(conn'.data) = 0 /\ conn'.data = <<>>
          /\ Paid'
        BY <1>1, <1>8, <1>12 DEF Paid
    <2>2. AllRead'
        BY <2>1 DEF AllRead, Hears
    <2>3. Joined' /\ NoError' /\ First' /\ Kept' /\ NoSbuf' /\ Client'
        BY <1>1, <1>4, <1>5, <1>12, <2>1 DEF Joined, Running, NoError, First,
           Kept, NoSbuf, Connecting, Client, Has
    <2> QED
        BY <2>1, <2>2, <2>3 DEF AtStart
<1>13. pc' = "do_disconnect" => AtDisconnect'
    BY <1>1, <1>3, <1>5, <1>6, <1>7 DEF AtDisconnect, Joined, Running,
       NoError, Paid, KeptAnswer
<1> QED
    BY <1>1, <1>3, <1>f, <1>4, <1>5, <1>10, <1>11, <1>12, <1>13
       DEF SInv, TypeOK, Annotated, At, Waiting, NoTrap, Labels, Gone, Ended

(* AcceptEx() has completed.  s->next_io_op is not set any more: only a    *)
(* startup snapshot with ACCEPT in it could have set it.                   *)
LEMMA AcceptedStep ==
    ASSUME SInv, Careful(proto), Accepted
    PROVE  SInv'
<1> DEFINE e == Enter(sock)
           s == [e EXCEPT !.was = @ \ {"accepting"}]
           took == ~HasInitial /\ conn.wire # <<>>
<1>1. /\ pc = "waiting" /\ sock.op = "accept" /\ proto' = proto
      /\ Acceptable /\ AcceptDone(s)
      /\ TypeOK /\ Always /\ Accepting
    BY DEF Accepted, Waiting, SInv, Annotated, Accepting, Running
<1>2. /\ e \in Sock /\ e.last = "accept" /\ e.next = "none" /\ ~e.reused
      /\ e.was \subseteq {"accepting"} /\ e.error = 0
      /\ "made" \in e.flags <=> "made" \in sock.flags
      /\ "close" \in sock.flags => "close" \in e.flags
      /\ ~Has("keeps") => e.startup = sock.startup
    <2>1. sock \in Sock
        BY <1>1 DEF TypeOK
    <2> QED
        BY <1>1, <2>1, EnterFacts DEF Accepting, Running, NoError
<1> HIDE DEF e
<1>3. /\ s \in Sock /\ s.last = "accept" /\ s.next = "none" /\ ~s.reused
      /\ s.was = {} /\ s.error = 0
      /\ "made" \in s.flags <=> "made" \in sock.flags
      /\ "close" \in sock.flags => "close" \in s.flags
      /\ s.startup = sock.startup
    <2>1. ~Has("keeps")
        BY <1>1 DEF Careful, Server, Accepting, Client, Has
    <2> QED
        BY <1>2, <2>1 DEF Sock
<1> HIDE DEF s
<1>4. ASSUME conn.state = "reset" \/ May("other"),
             sock' = [s EXCEPT !.err = TRUE], pc' = "recycle",
             mem' = mem, conn' = conn
      PROVE  SInv'
    <2>1. /\ sock' \in Sock /\ sock'.last = "accept" /\ sock'.next = "none"
          /\ ~sock'.reused /\ sock'.was = {} /\ sock'.error = 0
          /\ sock'.flags = s.flags /\ sock'.startup = s.startup
        BY <1>3, <1>4 DEF Sock
    <2>2. Always'
        BY <1>1, <1>3, <1>4, <2>1 DEF Always, OneWas, Startup, States, Made,
           InOrder, Many, Client, Has, May
    <2>3. AtRecycle'
        BY <1>1, <1>4, <2>1 DEF AtRecycle, NoError, KeptAnswer, Accepting, Kept
    <2> QED
        BY <1>1, <1>4, <2>1, <2>2, <2>3
           DEF SInv, TypeOK, Annotated, At, Waiting, NoTrap, Labels
<1>5. ASSUME Usable, sock' = s, pc' = "do_disconnect", mem' = mem, conn' = conn
      PROVE  SInv'
    <2>1. Always'
        BY <1>1, <1>3, <1>5 DEF Always, OneWas, Startup, States, Made,
           InOrder, Many, Client, Has, May
    <2>2. AtDisconnect'
        BY <1>1, <1>3, <1>5 DEF AtDisconnect, Joined, Running, NoError, Paid,
           KeptAnswer, Accepting, Kept, Usable
    <2> QED
        BY <1>1, <1>3, <1>5, <2>1, <2>2
           DEF SInv, TypeOK, Annotated, At, Waiting, NoTrap, Labels
<1>6. ASSUME Usable, HasInitial \/ took,
             sock' = [s EXCEPT !.was = @ \cup {"connected"}],
             mem' = IF took THEN [mem EXCEPT !.chunk = Head(conn.wire)]
                            ELSE mem,
             conn' = IF took THEN [conn EXCEPT !.wire = Tail(@)] ELSE conn,
             pc' \in {"start", "errors"}
      PROVE  SInv'
    <2>1. /\ sock' \in Sock /\ sock'.last = "accept" /\ sock'.next = "none"
          /\ ~sock'.reused /\ sock'.was = {"connected"} /\ sock'.error = 0
          /\ sock'.flags = s.flags /\ sock'.startup = s.startup
        BY <1>3, <1>6 DEF Sock
    <2>2. /\ mem' \in Mem /\ mem'.held = mem.held /\ mem'.sb = mem.sb
          /\ mem'.buf = mem.buf /\ mem'.many = mem.many
          /\ conn' \in Conn /\ conn'.state = conn.state
          /\ conn'.made = 0 /\ conn'.data = <<>> /\ conn'.said = conn.said
          /\ conn'.got = conn.got
          /\ IF took THEN Unread' ELSE HasInitial /\ AllRead'
        <3>1. CASE took
            <4>1. conn.state # "reset" /\ AllRead
                BY <1>1, <1>6 DEF Usable, Accepting
            <4> QED
                BY <1>1, <1>6, <3>1, <4>1, TakeFacts DEF Accepting, TypeOK
        <3>2. CASE ~took
            BY <1>1, <1>6, <3>2 DEF Accepting, TypeOK, AllRead, Hears
        <3> QED
            BY <3>1, <3>2
    <2> HIDE DEF took
    <2>3. Always'
        BY <1>1, <1>3, <1>6, <2>1, <2>2 DEF Always, OneWas, Startup, States,
           Made, InOrder, Many, Client, Has, May, Usable, Accepting
    <2>4. AtStart'
        <3>1. Joined' /\ NoError' /\ First' /\ Kept' /\ NoSbuf' /\ Paid'
            BY <1>1, <1>6, <2>1, <2>2 DEF Joined, Running, NoError, First,
               Kept, NoSbuf, Accepting, Client, Has, Usable, Paid
        <3>2. ~Client' /\ (HasInitial' <=> HasInitial)
            BY <1>1 DEF Accepting, Client, HasInitial, Has
        <3> QED
            BY <2>2, <3>1, <3>2 DEF AtStart, took
    <2> QED
        BY <1>1, <1>6, <2>1, <2>2, <2>3, <2>4
           DEF SInv, TypeOK, Annotated, At, Waiting, NoTrap, Labels, Gone,
               Ended
<1> QED
    BY <1>1, <1>4, <1>5, <1>6 DEF AcceptDone, Resets, Goto, Fatal

-----------------------------------------------------------------------------
(* start: and connection_made                                              *)

(* start: goes to connection_made(), the initial bytes, or on to receive.  *)
LEMMA StartStep ==
    ASSUME SInv, Careful(proto), Start
    PROVE  SInv'
<1>1. /\ pc = "start" /\ proto' = proto /\ sock' = sock
      /\ TypeOK /\ Always /\ AtStart
    BY DEF Start, At, SInv, Annotated
<1>2. ASSUME pc' \in {"recycle", "errors", "abandoned"},
             mem' = mem, conn' = conn
      PROVE  SInv'
    <2>1. Always'
        BY <1>1, <1>2 DEF Always, OneWas, Startup, States, Made, InOrder,
           Many, Client, Has, May
    <2>2. AtRecycle'
        BY <1>1, <1>2 DEF AtRecycle, NoError, KeptAnswer, AtStart, Kept,
           Joined, Running
    <2> QED
        BY <1>1, <1>2, <2>1, <2>2
           DEF SInv, TypeOK, Annotated, At, Waiting, NoTrap, Labels, Gone,
               Ended
<1>3. ASSUME HasInitial, ~Client, mem' = NewSbuf(mem), conn' = Reply(conn),
             pc' = "do_send"
      PROVE  SInv'
    <2>1. /\ NewSbufs(proto) /\ ~Answers(proto) /\ ~Has("connection_made")
        BY <1>3 DEF NewSbufs, Careful, Server, HasInitial, Client, Has
    <2>2. /\ mem' \in Mem /\ mem'.held = {"sbuf"} /\ mem'.sb = "live"
          /\ mem'.buf = "sbuf" /\ ~mem'.many
        BY <1>1, <1>3, <2>1, NewSbufFacts DEF TypeOK, AtStart, Kept, NoSbuf
    <2>3. /\ conn' \in Conn /\ conn'.n = conn.n /\ conn'.state = conn.state
          /\ conn'.sent = conn.sent /\ conn'.wire = conn.wire
          /\ conn'.made = conn.made /\ conn'.data = conn.data /\ Owing'
        BY <1>1, <1>3, ReplyFacts, OwedFacts DEF TypeOK, AtStart, Paid
    <2>4. Always'
        BY <1>1, <2>2, <2>3 DEF Always, OneWas, Startup, States, Made,
           InOrder, Many, Client, Has, May, AtStart, Joined
    <2>5. AtSend'
        BY <1>1, <1>3, <2>1, <2>2, <2>3 DEF AtSend, ToSend, AtStart, Joined,
           Running, NoError, MadeDone, OwnError, AllRead, Hears, InSbuf, Has
    <2> QED
        BY <1>1, <1>3, <2>2, <2>3, <2>4, <2>5
           DEF SInv, TypeOK, Annotated, At, Waiting, NoTrap, Labels
<1>4. ASSUME ~HasInitial \/ Client, mem' = mem, conn' = conn,
             pc' = IF Has("connection_made") /\ "made" \notin sock.flags
                   THEN "connection_made" ELSE "try_recv"
      PROVE  SInv'
    <2>1. Always' /\ AtStart'
        BY <1>1, <1>4 DEF Always, OneWas, Startup, States, Made, InOrder,
           Many, Client, Has, May, AtStart, Joined, Running, NoError, First,
           Paid, Kept, NoSbuf, HasInitial, AllRead, Unread, Hears
    <2>2. pc' = "connection_made" => AtMade'
        BY <1>1, <1>4, <2>1 DEF AtMade, Client, HasInitial, Has
    <2>3. pc' = "try_recv" => AtTryRecv'
        <3>1. "made" \notin sock.flags
            BY <1>1 DEF AtStart, Always, Made
        <3>2. IF Client THEN AllRead /\ mem.held = {} /\ sock.last = "connect"
                        ELSE Unread /\ sock.last = "accept"
            BY <1>1, <1>4 DEF AtStart, First, Kept
        <3> QED
            BY <1>1, <1>4, <3>1, <3>2 DEF AtStart, AtTryRecv, Joined, Running,
               NoError, MadeDone, Paid, OldSbuf, NoSbuf, Kept, Unread,
               AllRead, Hears, Client, Has
    <2> QED
        BY <1>1, <1>4, <2>1, <2>2, <2>3
           DEF SInv, TypeOK, Annotated, At, Waiting, NoTrap, Labels
<1> QED
    BY <1>1, <1>2, <1>3, <1>4 DEF Start, CallFails, Fatal, Exception, Goto

(* connection_made() is called once.  What a server's may not return would *)
(* lose the chunk AcceptEx() brought along.                                *)
LEMMA ConnectionMadeStep ==
    ASSUME SInv, Careful(proto), ConnectionMade
    PROVE  SInv'
<1> DEFINE c == [conn EXCEPT !.made = @ + 1]
<1>1. /\ pc = "connection_made" /\ proto' = proto
      /\ TypeOK /\ Always /\ AtMade /\ proto.made \subseteq Results
    BY ProtocolAssumption
       DEF ConnectionMade, At, SInv, Annotated, TypeOK, Protocol
<1>2. PICK r \in CallsOf(proto.made) :
          /\ sock' = [Flagged(sock, r) EXCEPT !.flags = @ \cup {"made"}]
          /\ AfterCall(r, c, Fatal)
    BY DEF ConnectionMade
<1>3. /\ r \in Results /\ r \in proto.made /\ r # "one close"
      /\ What(r) \in {"one", "file"} => Client
    BY <1>1, <1>2, WhatFacts DEF CallsOf, Careful, Calls, AtMade, Server,
       Client, Has, OneObject, AFile
<1>4. /\ c \in Conn /\ c.made = 1 /\ c.n = conn.n /\ c.state = conn.state
      /\ c.sent = conn.sent /\ c.wire = conn.wire /\ c.data = conn.data
      /\ c.said = conn.said /\ c.got = conn.got
    <2> DEFINE k == conn.made + 1
    <2>1. k = 1 /\ k \in Nat /\ c = [conn EXCEPT !.made = k]
        BY <1>1 DEF AtMade, AtStart
    <2> HIDE DEF k
    <2> QED
        BY <1>1, <2>1 DEF TypeOK, Conn
<1> HIDE DEF c
<1>5. /\ sock' \in Sock /\ sock'.last = sock.last /\ sock'.op = sock.op
      /\ sock'.next = sock.next /\ sock'.was = sock.was
      /\ sock'.reused = sock.reused /\ sock'.error = sock.error
      /\ sock'.startup = sock.startup /\ "made" \in sock'.flags
      /\ "close" \in sock.flags => "close" \in sock'.flags
    <2> DEFINE t == Flagged(sock, r)
    <2>1. /\ t \in Sock /\ t.last = sock.last /\ t.op = sock.op
          /\ t.next = sock.next /\ t.was = sock.was
          /\ t.reused = sock.reused /\ t.error = sock.error
          /\ t.startup = sock.startup
          /\ "close" \in sock.flags => "close" \in t.flags
        BY <1>1, <1>3, FlaggedFacts DEF TypeOK
    <2>2. sock' = [t EXCEPT !.flags = @ \cup {"made"}]
        BY <1>2
    <2> HIDE DEF t
    <2> QED
        BY <2>1, <2>2 DEF Sock, SockFlags
<1>6. ASSUME conn' \in Conn, conn'.made = c.made, conn'.n = c.n,
             conn'.state = c.state, conn'.data = c.data,
             mem' \in Mem, mem'.many = mem.many
      PROVE  Always' /\ Joined' /\ NoError' /\ MadeDone'
    <2>1. Always'
        BY <1>1, <1>4, <1>5, <1>6 DEF Always, OneWas, Startup, States, Made,
           InOrder, Many, Client, Has, May, AtMade, AtStart, Joined
    <2>2. Joined' /\ NoError' /\ MadeDone'
        BY <1>1, <1>4, <1>5, <1>6 DEF Joined, Running, NoError, MadeDone,
           AtMade, AtStart
    <2> QED
        BY <2>1, <2>2
<1>7. Joined /\ NoError /\ First /\ Paid /\ Kept /\ NoSbuf
      /\ Has("connection_made") /\ conn.data = <<>> /\ mem \in Mem
    BY <1>1 DEF AtMade, AtStart, TypeOK
<1>8. Client => AllRead /\ mem.held = {}
    BY <1>1 DEF AtMade, AtStart, Kept
<1>9. CASE What(r) = "none"
    <2>1. mem' = Rollback(mem, {}) /\ conn' = c /\ pc' = "try_recv"
        BY <1>2, <1>9 DEF AfterCall, Goto
    <2>2. mem.held \ {} = mem.held
        OBVIOUS
    <2>3. /\ mem' \in Mem /\ mem'.held = mem.held /\ mem'.sb = "none"
          /\ mem'.buf = "none" /\ ~mem'.many /\ mem'.many = mem.many
          /\ mem'.chunk = mem.chunk
        BY ZenonT(60), <1>7, <2>1, <2>2, RollbackFacts DEF NoSbuf
    <2>4. Always' /\ Joined' /\ NoError' /\ MadeDone'
        BY <1>4, <1>6, <2>1, <2>3
    <2>5. IF Client THEN AllRead /\ mem.held = {} /\ sock.last = "connect"
                    ELSE Unread /\ sock.last = "accept"
        BY <1>1, <1>8 DEF AtMade, AtStart, First
    <2>6. AtTryRecv'
        <3>1. Paid' /\ OldSbuf' /\ Kept'
            BY <1>1, <1>4, <1>7, <2>1, <2>3 DEF Paid, OldSbuf, Kept, Client,
               Has
        <3>2. IF Client THEN AllRead' /\ mem'.held = {}
                        ELSE Unread'
            BY <1>4, <2>1, <2>3, <2>5 DEF AllRead, Unread, Hears
        <3>3. /\ Client' <=> Client
              /\ sock'.last = IF Client THEN "connect" ELSE "accept"
            BY <1>1, <1>5, <2>5 DEF Client, Has
        <3> QED
            BY <2>4, <3>1, <3>2, <3>3 DEF AtTryRecv
    <2> QED
        BY <1>1, <1>4, <1>5, <2>1, <2>3, <2>4, <2>6
           DEF SInv, TypeOK, Annotated, At, Waiting, NoTrap, Labels
<1>10. CASE What(r) = "file"
    <2>1. /\ mem' = Snap(mem, "sendfile") /\ conn' = Reply(c)
          /\ pc' = "do_sendfile"
        BY <1>2, <1>10 DEF AfterCall, Goto
    <2>2. ~May("other") /\ Client
        BY <1>3, <1>7, <1>10, WhatFacts
           DEF Careful, SendsFiles, Calls, May, Has
    <2>3. /\ mem' \in Mem /\ mem'.held = {"sendfile"} /\ mem'.sb = "none"
          /\ mem'.buf = "none" /\ mem'.many = mem.many
        BY <1>7, <1>8, <2>1, <2>2, SnapFacts DEF NoSbuf, Owners
    <2>4. /\ conn' \in Conn /\ conn'.n = c.n /\ conn'.state = c.state
          /\ conn'.sent = c.sent /\ conn'.wire = c.wire
          /\ conn'.made = c.made /\ conn'.data = c.data /\ Owing'
        BY <1>4, <1>7, <2>1, ReplyFacts, OwedFacts DEF Paid
    <2>5. Always' /\ Joined' /\ NoError' /\ MadeDone'
        BY <1>6, <2>3, <2>4
    <2>6. AllRead'
        BY <1>4, <1>8, <2>2, <2>4 DEF AllRead, Hears
    <2>7. ToSendfile'
        BY <1>1, <2>2, <2>3, <2>4, <2>5, <2>6
           DEF ToSendfile, OldSbuf, Has, May
    <2> QED
        BY <1>1, <1>5, <2>1, <2>3, <2>4, <2>5, <2>7
           DEF SInv, TypeOK, Annotated, At, Waiting, NoTrap, Labels
<1>11. CASE What(r) = "one"
    <2>1. mem' = NewSbuf(mem) /\ conn' = Reply(c) /\ pc' = "do_send"
        BY <1>2, <1>3, <1>11 DEF AfterCall, Goto
    <2>2. NewSbufs(proto) /\ Client
        BY <1>3, <1>7, <1>11, WhatFacts DEF NewSbufs, Calls, Has
    <2>3. /\ mem' \in Mem /\ mem'.held = {"sbuf"} /\ mem'.sb = "live"
          /\ mem'.buf = "sbuf" /\ mem'.many = mem.many
        BY <1>7, <1>8, <2>1, <2>2, NewSbufFacts
    <2>4. /\ conn' \in Conn /\ conn'.n = c.n /\ conn'.state = c.state
          /\ conn'.sent = c.sent /\ conn'.wire = c.wire
          /\ conn'.made = c.made /\ conn'.data = c.data /\ Owing'
        BY <1>4, <1>7, <2>1, ReplyFacts, OwedFacts DEF Paid
    <2>5. Always' /\ Joined' /\ NoError' /\ MadeDone'
        BY <1>6, <2>3, <2>4
    <2>6. AllRead'
        BY <1>4, <1>8, <2>2, <2>4 DEF AllRead, Hears
    <2>7. AtSend'
        BY <1>1, <2>2, <2>3, <2>4, <2>5, <2>6
           DEF AtSend, ToSend, OwnError, NoError, InSbuf
    <2> QED
        BY <1>1, <1>5, <2>1, <2>3, <2>4, <2>5, <2>7
           DEF SInv, TypeOK, Annotated, At, Waiting, NoTrap, Labels
<1>12. CASE What(r) \notin {"none", "file", "one"}
    <2>1. mem' = mem /\ conn' = c /\ pc' = "errors"
        BY <1>2, <1>12 DEF AfterCall, Fatal, Goto
    <2>2. Always'
        BY <1>4, <1>6, <1>7, <2>1
    <2> QED
        BY <1>1, <1>4, <1>5, <1>7, <2>1, <2>2
           DEF SInv, TypeOK, Annotated, At, Waiting, NoTrap, Gone, Ended
<1> QED
    BY <1>9, <1>10, <1>11, <1>12

-----------------------------------------------------------------------------
(* do_send: to send_completed:                                             *)

(* Nothing fails where the snapshots or the error are not up to it.        *)
LEMMA SteadilyFacts ==
    ASSUME TypeOK, Always, Joined, Steadily
    PROVE  Usable /\ ~Resets /\ ~May("other")
<1>1. conn.state \in {"none", "open", "closed", "reset", "down"}
    BY DEF TypeOK, Conn
<1> QED
    BY <1>1 DEF Steadily, Steady, Always, States, Joined, Usable, Resets, May

(* A send that succeeds at once delivers the reply and rolls back.         *)
LEMMA SendNowStep ==
    ASSUME SInv, SendNow
    PROVE  SInv'
<1>1. /\ pc = "do_send" /\ pc' = "send_completed" /\ proto' = proto
      /\ ~mem.many /\ TypeOK /\ Always /\ AtSend
      /\ sock' = [sock EXCEPT !.last = "send", !.op = "none"]
      /\ conn' = Delivered(conn)
    BY DEF SendNow, At, Goto, SInv, Annotated
<1>2. /\ sock' \in Sock /\ sock'.last = "send" /\ sock'.next = sock.next
      /\ sock'.was = sock.was /\ sock'.reused = sock.reused
      /\ sock'.flags = sock.flags /\ sock'.error = sock.error
      /\ sock'.startup = sock.startup
    BY <1>1 DEF TypeOK, Sock, Ops
<1>3. /\ conn' \in Conn /\ conn'.n = conn.n /\ conn'.state = conn.state
      /\ conn'.sent = conn.sent /\ conn'.wire = conn.wire
      /\ conn'.made = conn.made /\ conn'.data = conn.data /\ Paid'
    BY <1>1, DeliveredFacts DEF TypeOK, AtSend, ToSend, Owing, Paid
<1>4. /\ mem' \in Mem /\ mem'.held = {} /\ mem'.buf = "none" /\ OldSbuf'
      /\ ~mem'.many
    <2> DEFINE m == RollbackOf(mem, mem.buf, {"rbuf"})
    <2>1. mem' = [m EXCEPT !.buf = "none"] /\ mem \in Mem
        BY <1>1 DEF SendNow, TypeOK
    <2>2. /\ m \in Mem /\ m.many = mem.many
          /\ IF mem.buf \in mem.held
             THEN /\ m.held = mem.held \ ({"rbuf"} \cup {mem.buf})
                  /\ m.sb = IF mem.sb = "live" THEN "stale" ELSE mem.sb
             ELSE m.held = mem.held /\ m.sb = mem.sb
        BY <2>1, RollbackOfFacts
    <2> HIDE DEF m
    <2>3. /\ mem' \in Mem /\ mem'.held = m.held /\ mem'.sb = m.sb
          /\ mem'.many = m.many /\ mem'.buf = "none"
        BY <2>1, <2>2 DEF Mem
    <2>4. \/ InSbuf /\ mem.buf = "sbuf"
          \/ InRbuf /\ mem.buf = "rbuf"
          \/ InNext /\ mem.buf = "rbuf"
        BY <1>1 DEF AtSend, InMany
    <2>5. /\ m.held = {} /\ m.sb \in {"none", "stale", "rbuf"}
          /\ m.sb = "stale" => NewSbufs(proto)
          /\ m.sb = "rbuf" => Has("next")
        BY <2>2, <2>4 DEF InSbuf, InRbuf, InNext
    <2> QED
        BY <1>1, <2>2, <2>3, <2>5 DEF OldSbuf, Has
<1>5. Always'
    BY <1>1, <1>2, <1>3, <1>4 DEF Always, OneWas, Startup, States, Made,
       InOrder, Many, Client, Has, May, AtSend, ToSend, Joined
<1>6. AtSent'
    BY ZenonT(30), <1>1, <1>2, <1>3, <1>4
       DEF AtSent, AtSend, ToSend, Joined, Running, MadeDone, AllRead, Hears,
           OwnError, Has
<1> QED
    BY <1>1, <1>2, <1>3, <1>4, <1>5, <1>6
       DEF SInv, TypeOK, Annotated, At, Waiting, NoTrap, Labels

(* A send that is pending keeps its buffer and the snapshot.               *)
LEMMA SendLaterStep ==
    ASSUME SInv, SendLater
    PROVE  SInv'
<1>1. /\ pc = "do_send" /\ pc' = "waiting" /\ proto' = proto /\ conn' = conn
      /\ TypeOK /\ Always /\ AtSend /\ sock' = Began(sock, "send")
      /\ mem' = [mem EXCEPT !.many = @ /\ mem.buf = "none", !.buf = "none"]
    BY DEF SendLater, Began, Begin, At, Goto, SInv, Annotated
<1>2. /\ sock' \in Sock /\ sock'.op = "send" /\ sock'.last = sock.last
      /\ sock'.next = sock.next /\ sock'.was = sock.was
      /\ sock'.reused = sock.reused /\ sock'.flags = sock.flags
      /\ sock'.error = sock.error /\ sock'.startup = sock.startup
    BY <1>1, OpFacts DEF TypeOK, Ops
<1>3. /\ mem' \in Mem /\ mem'.held = mem.held /\ mem'.sb = mem.sb
      /\ mem'.buf = "none" /\ mem'.many <=> mem.many /\ mem.buf = "none"
    BY <1>1 DEF TypeOK, Mem
<1>4. Always'
    BY <1>1, <1>2, <1>3 DEF Always, OneWas, Startup, States, Made, InOrder,
       Many, Client, Has, May
<1>5. ToSend'
    BY <1>1, <1>2 DEF AtSend, ToSend, Joined, Running, MadeDone, Owing,
       AllRead, Hears, OwnError, Steadily, Has
<1>6. Sending'
    BY <1>1, <1>3, <1>5 DEF Sending, AtSend, InSbuf, InRbuf, InMany, InNext,
       Steadily, Has
<1> QED
    BY <1>1, <1>2, <1>3, <1>4, <1>6
       DEF SInv, TypeOK, Annotated, At, Waiting, NoTrap, Labels

(* A send that fails: the peer has reset the connection, and the reply is  *)
(* in a buffer with a snapshot to roll back to.                            *)
LEMMA SendFailsStep ==
    ASSUME SInv, SendFails
    PROVE  SInv'
<1>1. /\ pc = "do_send" /\ TypeOK /\ Always /\ AtSend /\ Joined
      /\ ~Usable \/ May("other")
    BY DEF SendFails, At, SInv, Annotated, AtSend, ToSend
<1>2. /\ ~Steadily /\ sock.error = 0
      /\ \/ InSbuf /\ mem.buf = "sbuf"
         \/ InRbuf /\ mem.buf = "rbuf"
    BY <1>1, SteadilyFacts DEF AtSend, ToSend, OwnError, InMany, InNext
<1>3. mem.buf \in mem.held /\ mem.held = {mem.buf}
    BY <1>2 DEF InSbuf, InRbuf
<1>4. /\ proto' = proto /\ conn' = conn /\ sock' = Tried(sock, "send")
      /\ mem' = [Rollback(mem, {mem.buf}) EXCEPT !.buf = "none"]
      /\ pc' \in {"recycle", "errors"}
    BY <1>3 DEF SendFails, Tried, CallFails, Fatal, Goto
<1>5. /\ sock' \in Sock /\ sock'.last = sock.last /\ sock'.next = sock.next
      /\ sock'.was = sock.was /\ sock'.reused = sock.reused
      /\ sock'.flags = sock.flags /\ sock'.error = sock.error
      /\ sock'.startup = sock.startup
    BY <1>1, <1>4, OpFacts DEF TypeOK, Ops
<1>6. mem' \in Mem /\ mem'.held = {} /\ mem'.many = mem.many
    <2> DEFINE m == Rollback(mem, {mem.buf})
    <2>1. m \in Mem /\ m.held = mem.held \ {mem.buf} /\ m.many = mem.many
        BY <1>1, RollbackFacts DEF TypeOK
    <2>2. mem' = [m EXCEPT !.buf = "none"]
        BY <1>4
    <2> HIDE DEF m
    <2> QED
        BY <1>3, <2>1, <2>2 DEF Mem
<1>7. Always'
    BY <1>1, <1>4, <1>5, <1>6 DEF Always, OneWas, Startup, States, Made,
       InOrder, Many, Client, Has, May
<1>8. AtRecycle'
    BY <1>1, <1>2, <1>5, <1>6 DEF AtRecycle, NoError, KeptAnswer, Joined,
       Running
<1> QED
    BY <1>1, <1>4, <1>5, <1>6, <1>7, <1>8
       DEF SInv, TypeOK, Annotated, At, Waiting, NoTrap, Labels, Gone, Ended

(* A pending send has completed: the buffer the callback takes for the one *)
(* that was sent is the one that was.                                      *)
LEMMA SendDoneStep ==
    ASSUME SInv, Careful(proto), SendDone
    PROVE  SInv'
<1>1. /\ pc = "waiting" /\ sock.op = "send" /\ TypeOK /\ Always /\ Sending
    BY DEF SendDone, Waiting, SInv, Annotated
<1>2. /\ mem.many \/ mem.sb # "stale"
      /\ IF SentBuffer \in mem.held
         THEN mem.held \ ({"rbuf"} \cup {SentBuffer}) = {}
         ELSE mem.held = {} /\ mem.sb = "rbuf" /\ Has("next")
    BY <1>1 DEF SentBuffer, Sending, InSbuf, InRbuf, InMany, InNext
<1>3. /\ pc' = "send_completed" /\ proto' = proto /\ sock' = Enter(sock)
      /\ mem' = RollbackOf(mem, SentBuffer, {"rbuf"})
      /\ conn' = Delivered(conn)
    BY <1>2 DEF SendDone, Goto, Trap
<1>4. /\ sock' \in Sock /\ sock'.last = "send" /\ sock'.next = sock.next
      /\ sock'.was = sock.was /\ sock'.reused = sock.reused
      /\ sock'.error = sock.error
      /\ "made" \in sock'.flags <=> "made" \in sock.flags
      /\ "close" \in sock'.flags <=> "close" \in sock.flags
      /\ Client \/ sock'.startup = [next |-> "none", flags |-> {}]
    BY <1>1, <1>3, EnterKeeps
<1>5. /\ conn' \in Conn /\ conn'.n = conn.n /\ conn'.state = conn.state
      /\ conn'.sent = conn.sent /\ conn'.wire = conn.wire
      /\ conn'.made = conn.made /\ conn'.data = conn.data /\ Paid'
    BY <1>1, <1>3, DeliveredFacts DEF TypeOK, Sending, ToSend, Owing, Paid
<1>6. /\ mem' \in Mem /\ mem'.held = {} /\ mem'.many = mem.many
      /\ mem'.buf = "none"
      /\ mem'.sb = IF mem.sb = "live" THEN "stale" ELSE mem.sb
    BY <1>1, <1>2, <1>3, RollbackOfFacts DEF TypeOK, Sending
<1>7. OldSbuf'
    BY <1>1, <1>2, <1>3, <1>6
       DEF OldSbuf, Sending, InSbuf, InRbuf, InMany, InNext, Has
<1>8. Always'
    BY <1>1, <1>3, <1>4, <1>5, <1>6 DEF Always, OneWas, Startup, States,
       Made, InOrder, Many, Client, Has, May, Sending, ToSend, Joined
<1>9. AtSent'
    BY ZenonT(30), <1>1, <1>3, <1>4, <1>5, <1>6, <1>7
       DEF AtSent, Sending, ToSend, Joined, Running, MadeDone, AllRead, Hears,
           OwnError, Has
<1> QED
    BY <1>1, <1>3, <1>4, <1>5, <1>6, <1>8, <1>9
       DEF SInv, TypeOK, Annotated, At, Waiting, NoTrap, Labels

(* A pending send has completed with an error.                             *)
LEMMA SendFailedStep ==
    ASSUME SInv, Careful(proto), SendFailed
    PROVE  SInv'
<1>1. /\ pc = "waiting" /\ sock.op = "send" /\ TypeOK /\ Always /\ Sending
      /\ Resets \/ May("other")
      /\ pc' = "recycle" /\ proto' = proto /\ mem' = mem /\ conn' = conn
      /\ sock' = [Enter(sock) EXCEPT !.err = TRUE]
    BY DEF SendFailed, Waiting, Goto, SInv, Annotated
<1>2. sock.error = 0 /\ ("rbuf" \in mem.held => Answers(proto))
    BY <1>1, SteadilyFacts
       DEF Sending, ToSend, OwnError, InSbuf, InRbuf, InMany, InNext
<1>3. /\ sock' \in Sock /\ sock'.last = "send" /\ sock'.next = sock.next
      /\ sock'.was = sock.was /\ sock'.reused = sock.reused
      /\ sock'.error = sock.error
      /\ "made" \in sock'.flags <=> "made" \in sock.flags
      /\ "close" \in sock'.flags <=> "close" \in sock.flags
      /\ Client \/ sock'.startup = [next |-> "none", flags |-> {}]
    BY <1>1, EnterFails
<1>4. Always'
    BY <1>1, <1>3 DEF Always, OneWas, Startup, States, Made, InOrder, Many,
       Client, Has, May
<1>5. AtRecycle'
    BY <1>1, <1>2, <1>3 DEF AtRecycle, NoError, KeptAnswer, Sending, ToSend,
       Joined, Running
<1> QED
    BY <1>1, <1>3, <1>4, <1>5
       DEF SInv, TypeOK, Annotated, At, Waiting, NoTrap, Labels

(* send_completed: raises the error of an HTTP request, calls              *)
(* send_complete() or goes on.                                             *)
LEMMA SendCompletedStep ==
    ASSUME SInv, Careful(proto), SendCompleted
    PROVE  SInv'
<1>1. /\ pc = "send_completed" /\ proto' = proto
      /\ TypeOK /\ Always /\ AtSent /\ proto.sent \subseteq Results
      /\ mem \in Mem /\ sock \in Sock /\ conn \in Conn
    BY ProtocolAssumption
       DEF SendCompleted, At, SInv, Annotated, TypeOK, Protocol
<1>2. ASSUME sock' \in Sock, sock'.last = sock.last, sock'.next = sock.next,
             sock'.was = sock.was, sock'.reused = sock.reused,
             sock'.error = sock.error, sock'.startup = sock.startup,
             "made" \in sock'.flags <=> "made" \in sock.flags,
             "close" \in sock.flags => "close" \in sock'.flags,
             conn' = conn \/ conn' = Reply(conn), mem'.many = mem.many
      PROVE  /\ conn' \in Conn /\ Always' /\ Joined' /\ MadeDone'
             /\ AllRead' /\ (NoError => NoError')
    <2>1. /\ conn' \in Conn /\ conn'.n = conn.n /\ conn'.state = conn.state
          /\ conn'.sent = conn.sent /\ conn'.wire = conn.wire
          /\ conn'.made = conn.made /\ conn'.data = conn.data
        BY <1>1, <1>2, ReplyFacts
    <2>2. Always'
        BY <1>1, <1>2, <2>1 DEF Always, OneWas, Startup, States, Made,
           InOrder, Many, Client, Has, May, AtSent, Joined
    <2>3. Joined' /\ MadeDone' /\ AllRead' /\ (NoError => NoError')
        BY <1>1, <1>2, <2>1 DEF Joined, Running, MadeDone, AllRead, Hears,
           NoError, AtSent, Has
    <2> QED
        BY <2>1, <2>2, <2>3
<1>3. ASSUME sock' = sock, mem' = mem, conn' = conn,
             pc' \in {"errors", "try_recv"},
             pc' = "try_recv" => NoError
      PROVE  SInv'
    <2>1. Always' /\ Joined' /\ MadeDone' /\ AllRead' /\ (NoError => NoError')
        BY <1>1, <1>2, <1>3
    <2>2. pc' = "try_recv" => AtTryRecv'
        BY <1>1, <1>3, <2>1 DEF AtTryRecv, AtSent, Paid, OldSbuf, Has
    <2> QED
        BY <1>1, <1>3, <2>1, <2>2 DEF SInv, TypeOK, Annotated, At, Waiting,
           NoTrap, Labels, Gone, Ended
<1>4. ASSUME NoError, Has("send_complete"), NEW r \in CallsOf(proto.sent),
             sock' = Flagged(sock, r), AfterCall(r, conn, Exception)
      PROVE  SInv'
    <2>1. r \in Results /\ r \in proto.sent
        BY <1>1, <1>4 DEF CallsOf
    <2>2. /\ sock' \in Sock /\ sock'.last = sock.last
          /\ sock'.next = sock.next /\ sock'.was = sock.was
          /\ sock'.reused = sock.reused /\ sock'.error = sock.error
          /\ sock'.startup = sock.startup
          /\ "made" \in sock'.flags <=> "made" \in sock.flags
          /\ "close" \in sock.flags => "close" \in sock'.flags
        BY <1>1, <1>4, <2>1, FlaggedFacts
    <2>3. /\ mem.held = {} /\ OldSbuf /\ Paid
          /\ sock.last \in {"send", "sendfile"}
        BY <1>1 DEF AtSent
    <2>4. CASE What(r) = "none"
        <3>1. mem' = Rollback(mem, {}) /\ conn' = conn /\ pc' = "try_recv"
            BY <1>4, <2>4 DEF AfterCall, Goto
        <3>2. /\ mem' \in Mem /\ mem'.held = {} /\ mem'.sb = mem.sb
              /\ mem'.buf = mem.buf /\ mem'.many = mem.many
            BY <1>1, <2>3, <3>1, RollbackFacts DEF OldSbuf
        <3>3. Always' /\ Joined' /\ MadeDone' /\ AllRead' /\ NoError'
            BY <1>2, <1>4, <2>2, <3>1, <3>2
        <3>4. AtTryRecv'
            BY <1>1, <2>2, <2>3, <3>1, <3>2, <3>3
               DEF AtTryRecv, Paid, OldSbuf, Has
        <3> QED
            BY <1>1, <2>2, <3>1, <3>2, <3>3, <3>4
               DEF SInv, TypeOK, Annotated, At, Waiting, NoTrap, Labels
    <2>5. CASE What(r) = "file"
        <3>1. /\ mem' = Snap(mem, "sendfile") /\ conn' = Reply(conn)
              /\ pc' = "do_sendfile"
            BY <1>4, <2>5 DEF AfterCall, Goto
        <3>2. /\ mem' \in Mem /\ mem'.held = {"sendfile"} /\ mem'.sb = mem.sb
              /\ mem'.buf = mem.buf /\ mem'.many = mem.many
            BY <1>1, <2>3, <3>1, SnapFacts DEF Owners
        <3>3. /\ conn' \in Conn /\ Always' /\ Joined' /\ MadeDone' /\ AllRead'
              /\ NoError' /\ Owing'
            BY <1>1, <1>2, <1>4, <2>2, <2>3, <3>1, <3>2, OwedFacts DEF Paid
        <3>4. ~May("other")
            BY <1>4, <2>1, <2>5, WhatFacts
               DEF Careful, SendsFiles, Calls, May, Has
        <3>5. ToSendfile'
            BY <1>1, <2>3, <3>2, <3>3, <3>4 DEF ToSendfile, OldSbuf, Has, May
        <3> QED
            BY <1>1, <2>2, <3>1, <3>2, <3>3, <3>5
               DEF SInv, TypeOK, Annotated, At, Waiting, NoTrap, Labels
    <2>6. CASE What(r) = "one"
        <3>1. mem' = NewSbuf(mem) /\ conn' = Reply(conn) /\ pc' = "do_send"
            BY <1>1, <1>4, <2>6 DEF AfterCall, At, Goto
        <3>2. /\ mem' \in Mem /\ mem'.held = {"sbuf"} /\ mem'.sb = "live"
              /\ mem'.buf = "sbuf" /\ mem'.many = mem.many
            BY <1>1, <2>3, <3>1, NewSbufFacts
        <3>3. /\ conn' \in Conn /\ Always' /\ Joined' /\ MadeDone' /\ AllRead'
              /\ NoError' /\ Owing'
            BY <1>1, <1>2, <1>4, <2>2, <2>3, <3>1, <3>2, OwedFacts DEF Paid
        <3>4. NewSbufs(proto)
            BY <1>4, <2>1, <2>6, WhatFacts DEF NewSbufs, Calls, Has
        <3>5. AtSend'
            BY <1>1, <3>2, <3>3, <3>4
               DEF AtSend, ToSend, InSbuf, OwnError, NoError
        <3> QED
            BY <1>1, <2>2, <3>1, <3>2, <3>3, <3>5
               DEF SInv, TypeOK, Annotated, At, Waiting, NoTrap, Labels
    <2>7. CASE What(r) \notin {"none", "file", "one"}
        <3>1. /\ mem' = mem /\ conn' = conn
              /\ pc' \in {"abandoned", "errors"}
            BY <1>4, <2>7 DEF AfterCall, Exception, Goto
        <3>2. Always'
            BY <1>2, <2>2, <3>1
        <3> QED
            BY <1>1, <2>2, <3>1, <3>2
               DEF SInv, TypeOK, Annotated, At, Waiting, NoTrap, Gone, Ended
    <2> QED
        BY <2>4, <2>5, <2>6, <2>7
<1> QED
    BY <1>3, <1>4 DEF SendCompleted, NoError, Fatal, Goto

-----------------------------------------------------------------------------
(* do_sendfile:                                                            *)

(* do_sendfile: TransmitFile() succeeds, is pending or fails.              *)
LEMMA DoSendfileStep ==
    ASSUME SInv, DoSendfile
    PROVE  SInv'
<1>1. /\ pc = "do_sendfile" /\ TypeOK /\ Always /\ ToSendfile
      /\ proto' = proto /\ conn' = conn
      /\ \/ /\ sock' = Began(sock, "sendfile") /\ mem' = mem
            /\ pc' = "waiting"
         \/ /\ sock' = Tried(sock, "sendfile")
            /\ mem' = Rollback(mem, {"sendfile"})
            /\ pc' \in {"recycle", "errors"}
    BY DEF DoSendfile, Began, Tried, Begin, CallFails, Fatal, At, Goto, SInv,
           Annotated
<1>2. /\ sock' \in Sock /\ sock'.op = "sendfile" /\ sock'.last = sock.last
      /\ sock'.next = sock.next /\ sock'.was = sock.was
      /\ sock'.reused = sock.reused /\ sock'.flags = sock.flags
      /\ sock'.error = sock.error /\ sock'.startup = sock.startup
    BY <1>1, OpFacts DEF TypeOK, Ops
<1>3. mem' \in Mem /\ mem'.many = mem.many /\ "rbuf" \notin mem'.held
    BY <1>1, RollbackFacts DEF TypeOK, ToSendfile
<1>4. Always'
    BY <1>1, <1>2, <1>3 DEF Always, OneWas, Startup, States, Made, InOrder,
       Many, Client, Has, May
<1>5. mem' = mem => ToSendfile'
    BY <1>1, <1>2 DEF ToSendfile, Joined, Running, NoError, MadeDone, Owing,
       AllRead, Hears, OldSbuf, Has, May
<1>6. AtRecycle'
    BY <1>1, <1>2, <1>3 DEF AtRecycle, NoError, KeptAnswer, ToSendfile,
       Joined, Running
<1> QED
    BY <1>1, <1>2, <1>3, <1>4, <1>5, <1>6
       DEF SInv, TypeOK, Annotated, At, Waiting, NoTrap, Labels, Gone, Ended

(* A pending TransmitFile() has completed.                                 *)
LEMMA SendfileDoneStep ==
    ASSUME SInv, Careful(proto), SendfileDone
    PROVE  SInv'
<1> DEFINE t == Enter(sock)
           c == Delivered(conn)
           state == IF "close" \in sock.flags THEN "down" ELSE c.state
<1>1. /\ pc = "waiting" /\ sock.op = "sendfile" /\ pc' = "send_completed"
      /\ proto' = proto /\ TypeOK /\ Always /\ ToSendfile /\ Usable
      /\ sock' = [t EXCEPT !.flags = @ \ {"sendfile"}]
      /\ mem' = Rollback(mem, {"sendfile"})
      /\ conn' = [c EXCEPT !.state = state]
    BY DEF SendfileDone, Waiting, Goto, SInv, Annotated
<1>2. /\ t \in Sock /\ t.last = "sendfile" /\ t.next = sock.next
      /\ t.was = sock.was /\ t.reused = sock.reused /\ t.error = sock.error
      /\ "made" \in t.flags <=> "made" \in sock.flags
      /\ "close" \in t.flags <=> "close" \in sock.flags
      /\ Client \/ t.startup = [next |-> "none", flags |-> {}]
    BY <1>1, EnterKeeps
<1>3. /\ c \in Conn /\ c.n = conn.n /\ c.state = conn.state
      /\ c.sent = conn.sent /\ c.wire = conn.wire /\ c.made = conn.made
      /\ c.data = conn.data /\ c.got = UpTo(c.said)
    BY <1>1, DeliveredFacts DEF TypeOK, ToSendfile, Owing
<1>4. /\ state \in {"open", "closed", "down"}
      /\ state = "down" => "close" \in sock.flags
    BY <1>1, <1>3 DEF Usable
<1> HIDE DEF t, c, state
<1>5. /\ sock' \in Sock /\ sock'.last = "sendfile" /\ sock'.next = sock.next
      /\ sock'.was = sock.was /\ sock'.reused = sock.reused
      /\ sock'.error = sock.error /\ sock'.startup = t.startup
      /\ "made" \in sock'.flags <=> "made" \in sock.flags
      /\ "close" \in sock'.flags <=> "close" \in sock.flags
    BY <1>1, <1>2 DEF Sock
<1>6. /\ conn' \in Conn /\ conn'.n = conn.n /\ conn'.state = state
      /\ conn'.sent = conn.sent /\ conn'.wire = conn.wire
      /\ conn'.made = conn.made /\ conn'.data = conn.data /\ Paid'
    BY <1>1, <1>3, <1>4 DEF Conn, Paid
<1>7. /\ mem' \in Mem /\ mem'.held = {} /\ mem'.many = mem.many
      /\ mem'.buf = mem.buf /\ mem'.sb = mem.sb
    BY <1>1, RollbackFacts DEF TypeOK, ToSendfile, OldSbuf
<1>8. Always'
    BY <1>1, <1>2, <1>4, <1>5, <1>6, <1>7 DEF Always, OneWas, Startup, States,
       Made, InOrder, Many, Client, Has, May
<1>9. AtSent'
    <2>1. AllRead'
        BY <1>1, <1>6 DEF AllRead, Hears, ToSendfile, Usable
    <2> QED
        BY <1>1, <1>4, <1>5, <1>6, <1>7, <2>1 DEF AtSent, ToSendfile, Joined,
           Running, NoError, MadeDone, OldSbuf, Has
<1> QED
    BY <1>1, <1>5, <1>6, <1>7, <1>8, <1>9
       DEF SInv, TypeOK, Annotated, At, Waiting, NoTrap, Labels

(* A pending TransmitFile() has completed with an error.                   *)
LEMMA SendfileFailedStep ==
    ASSUME SInv, Careful(proto), SendfileFailed
    PROVE  SInv'
<1>1. /\ pc = "waiting" /\ sock.op = "sendfile" /\ pc' = "recycle"
      /\ proto' = proto /\ conn' = conn /\ TypeOK /\ Always /\ ToSendfile
      /\ sock' = [Enter(sock) EXCEPT !.err = TRUE]
      /\ mem' = Rollback(mem, {"sendfile"})
    BY DEF SendfileFailed, ToSendfile, Waiting, Goto, SInv, Annotated
<1>2. /\ sock' \in Sock /\ sock'.last = "sendfile" /\ sock'.next = sock.next
      /\ sock'.was = sock.was /\ sock'.reused = sock.reused
      /\ sock'.error = sock.error
      /\ "made" \in sock'.flags <=> "made" \in sock.flags
      /\ "close" \in sock'.flags <=> "close" \in sock.flags
      /\ Client \/ sock'.startup = [next |-> "none", flags |-> {}]
    BY <1>1, EnterFails
<1>3. mem' \in Mem /\ mem'.many = mem.many /\ mem'.held = {}
    BY <1>1, RollbackFacts DEF TypeOK, ToSendfile
<1>4. Always'
    BY <1>1, <1>2, <1>3 DEF Always, OneWas, Startup, States, Made, InOrder,
       Many, Client, Has, May
<1>5. AtRecycle'
    BY <1>1, <1>2, <1>3 DEF AtRecycle, NoError, KeptAnswer, ToSendfile,
       Joined, Running
<1> QED
    BY <1>1, <1>2, <1>3, <1>4, <1>5
       DEF SInv, TypeOK, Annotated, At, Waiting, NoTrap, Labels

-----------------------------------------------------------------------------
(* try_recv: and do_recv:                                                  *)

(* try_recv: knows whether there is a chunk from AcceptEx().               *)
LEMMA TryRecvStep ==
    ASSUME SInv, TryRecv
    PROVE  SInv'
<1>1. /\ pc = "try_recv" /\ proto' = proto /\ sock' = sock /\ mem' = mem
      /\ conn' = conn /\ TypeOK /\ Always /\ AtTryRecv
      /\ pc' = IF "close" \in sock.flags \/ ~CanRecv THEN "do_disconnect"
               ELSE IF sock.last = "accept" THEN "process_data_received"
               ELSE "do_recv"
    BY DEF TryRecv, At, Goto, SInv, Annotated
<1>2. Always' /\ Joined' /\ NoError' /\ MadeDone' /\ Paid' /\ OldSbuf'
    BY <1>1 DEF AtTryRecv, Always, OneWas, Startup, States, Made, InOrder,
       Many, Joined, Running, NoError, MadeDone, Paid, OldSbuf, Client, Has,
       May
<1>3. pc' = "do_disconnect" => AtDisconnect'
    BY <1>1, <1>2 DEF AtDisconnect, AtTryRecv, KeptAnswer, Kept
<1>4. pc' = "process_data_received" => AtProcess'
    BY <1>1, <1>2 DEF AtProcess, AtTryRecv, Listens, Unread, Hears, Kept,
       Client, Has
<1>5. pc' = "do_recv" => ToRecv'
    BY <1>1, <1>2 DEF ToRecv, AtTryRecv, Listens, AllRead, Hears
<1> QED
    BY <1>1, <1>2, <1>3, <1>4, <1>5
       DEF SInv, TypeOK, Annotated, At, Waiting, NoTrap, Labels

(* The timer of the rate limit is set, or goes off.                        *)
LEMMA RateLimitStep ==
    ASSUME SInv, Careful(proto), StartRateLimit \/ RateLimitDone
    PROVE  SInv'
<1>1. /\ proto' = proto /\ mem' = mem /\ conn' = conn
      /\ TypeOK /\ Always /\ ToRecv /\ mem \in Mem /\ conn \in Conn
      /\ \/ sock' = Began(sock, "ratelimit") /\ pc' = "waiting"
         \/ /\ sock.op = "ratelimit"
            /\ sock' = Enter(sock) /\ pc' = "try_recv"
    BY DEF StartRateLimit, RateLimitDone, Began, Begin, At, Waiting, Goto,
       SInv, TypeOK, Annotated
<1>2. /\ sock' \in Sock /\ sock'.next = sock.next
      /\ sock'.was = sock.was /\ sock'.reused = sock.reused
      /\ sock'.error = sock.error
      /\ "made" \in sock'.flags <=> "made" \in sock.flags
      /\ "close" \in sock'.flags <=> "close" \in sock.flags
      /\ Client \/ sock'.startup = [next |-> "none", flags |-> {}]
      /\ IF pc' = "waiting" THEN /\ sock'.op = "ratelimit"
                                 /\ sock'.last = sock.last
                            ELSE sock'.last = "ratelimit"
    BY <1>1, EnterKeeps, OpFacts DEF TypeOK, Ops, Always, Startup
<1>3. Always'
    BY <1>1, <1>2 DEF Always, OneWas, Startup, States, Made, InOrder, Many,
       Client, Has, May
<1>4. ToRecv'
    BY <1>1, <1>2 DEF ToRecv, Joined, Running, NoError, Listens, MadeDone,
       Paid, AllRead, Hears, OldSbuf, Has
<1>5. pc' = "try_recv" => AtTryRecv'
    BY <1>1, <1>2, <1>4 DEF AtTryRecv, ToRecv, Listens
<1> QED
    BY <1>1, <1>2, <1>3, <1>4, <1>5
       DEF SInv, TypeOK, Annotated, At, Waiting, NoTrap, Labels

(* A receive that succeeds                                                 *)
LEMMA ReceiveStep ==
    ASSUME TypeOK, Always, ToRecv, NEW s \in Sock, Receive(s),
           s.next = "none", ~s.reused, s.last # "disconnect",
           s.was = sock.was, s.error = 0,
           "made" \in s.flags <=> "made" \in sock.flags,
           "close" \in s.flags <=> "close" \in sock.flags,
           Client \/ s.startup = [next |-> "none", flags |-> {}]
    PROVE  SInv'
<1>1. sock' = s /\ proto' = proto /\ mem \in Mem /\ conn \in Conn
    BY DEF Receive, TypeOK
<1>2. ASSUME conn.wire # <<>>, mem' = [mem EXCEPT !.chunk = Head(conn.wire)],
             conn' = [conn EXCEPT !.wire = Tail(@)], Usable,
             pc' = "process_data_received"
      PROVE  SInv'
    <2>1. /\ mem' \in Mem /\ mem'.held = mem.held /\ mem'.sb = mem.sb
          /\ mem'.buf = mem.buf /\ mem'.many = mem.many
          /\ conn' \in Conn /\ conn'.n = conn.n /\ conn'.state = conn.state
          /\ conn'.sent = conn.sent /\ conn'.made = conn.made
          /\ conn'.data = conn.data /\ conn'.said = conn.said
          /\ conn'.got = conn.got /\ Unread'
        BY <1>1, <1>2, TakeFacts DEF ToRecv, Usable
    <2>2. Always'
        BY <1>1, <2>1 DEF Always, OneWas, Startup, States, Made, InOrder, Many,
           Client, Has, May, ToRecv, Joined
    <2>3. AtProcess'
        BY <1>1, <2>1 DEF AtProcess, ToRecv, Joined, Running, NoError, Listens,
           MadeDone, Paid, Kept, OldSbuf, Has
    <2> QED
        BY <1>1, <1>2, <2>1, <2>2, <2>3
           DEF SInv, TypeOK, Annotated, At, Waiting, NoTrap, Labels
<1>3. ASSUME mem' = mem, conn' = conn, pc' = "do_disconnect"
      PROVE  SInv'
    <2>1. Always'
        BY <1>1, <1>3 DEF Always, OneWas, Startup, States, Made, InOrder, Many,
           Client, Has, May
    <2>2. AtDisconnect'
        BY <1>1, <1>3 DEF AtDisconnect, ToRecv, Joined, Running, NoError, Paid,
           KeptAnswer
    <2> QED
        BY <1>1, <1>3, <2>1, <2>2
           DEF SInv, TypeOK, Annotated, At, Waiting, NoTrap, Labels
<1> QED
    BY <1>2, <1>3 DEF Receive, Goto

(* A receive that returns at once.                                         *)
LEMMA RecvNowStep ==
    ASSUME SInv, RecvNow
    PROVE  SInv'
<1> DEFINE s == [sock EXCEPT !.last = "recv", !.recv = TRUE]
<1>1. TypeOK /\ Always /\ ToRecv /\ Receive(s)
    BY DEF RecvNow, At, SInv, Annotated
<1>2. /\ s \in Sock /\ s.next = sock.next /\ s.reused = sock.reused
      /\ s.last = "recv" /\ s.was = sock.was /\ s.error = sock.error
      /\ s.flags = sock.flags /\ s.startup = sock.startup
    BY <1>1 DEF TypeOK, Sock, Ops
<1> HIDE DEF s
<1>3. /\ s.next = "none" /\ ~s.reused /\ s.error = 0
      /\ Client \/ s.startup = [next |-> "none", flags |-> {}]
    BY <1>1, <1>2 DEF ToRecv, Joined, Running, NoError, Always, Startup
<1> QED
    BY <1>1, <1>2, <1>3, ReceiveStep

(* A pending receive has completed.                                        *)
LEMMA RecvDoneStep ==
    ASSUME SInv, Careful(proto), RecvDone
    PROVE  SInv'
<1> DEFINE s == Enter(sock)
<1>1. TypeOK /\ Always /\ ToRecv /\ Receive(s) /\ sock.op = "recv"
    BY DEF RecvDone, Waiting, SInv, Annotated
<1>2. /\ s \in Sock /\ s.last = "recv" /\ s.next = sock.next
      /\ s.was = sock.was /\ s.reused = sock.reused /\ s.error = sock.error
      /\ "made" \in s.flags <=> "made" \in sock.flags
      /\ "close" \in s.flags <=> "close" \in sock.flags
      /\ Client \/ s.startup = [next |-> "none", flags |-> {}]
    BY <1>1, EnterKeeps
<1> HIDE DEF s
<1>3. s.next = "none" /\ ~s.reused /\ s.error = 0
    BY <1>1, <1>2 DEF ToRecv, Joined, Running, NoError
<1> QED
    BY <1>1, <1>2, <1>3, ReceiveStep

(* A receive that is pending: nothing is held while the loop waits.        *)
LEMMA RecvLaterStep ==
    ASSUME SInv, RecvLater
    PROVE  SInv'
<1> DEFINE s == [sock EXCEPT !.recv = TRUE]
<1>1. /\ pc = "do_recv" /\ pc' = "waiting" /\ proto' = proto /\ mem' = mem
      /\ conn' = conn /\ sock' = Began(s, "recv")
      /\ TypeOK /\ Always /\ ToRecv
    BY DEF RecvLater, Began, Begin, At, Goto, SInv, Annotated
<1>2. /\ s \in Sock /\ s.next = sock.next /\ s.reused = sock.reused
      /\ s.last = sock.last /\ s.was = sock.was /\ s.error = sock.error
      /\ s.flags = sock.flags /\ s.startup = sock.startup
    BY <1>1 DEF TypeOK, Sock
<1> HIDE DEF s
<1>3. /\ sock' \in Sock /\ sock'.op = "recv" /\ sock'.last = sock.last
      /\ sock'.next = sock.next /\ sock'.was = sock.was
      /\ sock'.reused = sock.reused /\ sock'.flags = sock.flags
      /\ sock'.error = sock.error /\ sock'.startup = sock.startup
    BY <1>1, <1>2, OpFacts DEF Ops
<1>4. Always'
    BY <1>1, <1>3 DEF Always, OneWas, Startup, States, Made, InOrder, Many,
       Client, Has, May
<1>5. ToRecv'
    BY <1>1, <1>3 DEF ToRecv, Joined, Running, NoError, Listens, MadeDone,
       Paid, AllRead, Hears, OldSbuf, Has
<1> QED
    BY <1>1, <1>3, <1>4, <1>5
       DEF SInv, TypeOK, Annotated, At, Waiting, NoTrap, Labels

(* A receive that fails.  No earlier snapshot is in the receive buffer.    *)
LEMMA RecvFailsStep ==
    ASSUME SInv, RecvFails
    PROVE  SInv'
<1>1. /\ pc' \in {"recycle", "errors"} /\ proto' = proto /\ sock' = sock
      /\ mem' = mem /\ conn' = conn /\ TypeOK /\ Always /\ ToRecv
    BY DEF RecvFails, CallFails, Fatal, At, Goto, SInv, Annotated, ToRecv
<1>2. Always'
    BY <1>1 DEF Always, OneWas, Startup, States, Made, InOrder, Many, Client,
       Has, May
<1>3. AtRecycle'
    BY <1>1 DEF AtRecycle, NoError, KeptAnswer, ToRecv, Joined, Running
<1> QED
    BY <1>1, <1>2, <1>3 DEF SInv, TypeOK, Annotated, At, Waiting, NoTrap,
       Labels, Gone, Ended

(* A pending receive has completed with an error.                          *)
LEMMA RecvFailedStep ==
    ASSUME SInv, Careful(proto), RecvFailed
    PROVE  SInv'
<1>1. /\ pc = "waiting" /\ sock.op = "recv" /\ pc' = "recycle"
      /\ proto' = proto /\ mem' = mem /\ conn' = conn
      /\ TypeOK /\ Always /\ ToRecv
      /\ sock' = [Enter(sock) EXCEPT !.err = TRUE]
    BY DEF RecvFailed, RollbackOf, ToRecv, Waiting, Goto, SInv, Annotated
<1>2. /\ sock' \in Sock /\ sock'.last = "recv" /\ sock'.next = sock.next
      /\ sock'.was = sock.was /\ sock'.reused = sock.reused
      /\ sock'.error = sock.error
      /\ "made" \in sock'.flags <=> "made" \in sock.flags
      /\ "close" \in sock'.flags <=> "close" \in sock.flags
      /\ Client \/ sock'.startup = [next |-> "none", flags |-> {}]
    BY <1>1, EnterFails
<1>3. Always'
    BY <1>1, <1>2 DEF Always, OneWas, Startup, States, Made, InOrder, Many,
       Client, Has, May
<1>4. AtRecycle'
    BY <1>1, <1>2 DEF AtRecycle, NoError, KeptAnswer, ToRecv, Joined, Running
<1> QED
    BY <1>1, <1>2, <1>3, <1>4
       DEF SInv, TypeOK, Annotated, At, Waiting, NoTrap, Labels

-----------------------------------------------------------------------------
(* process_data_received:                                                  *)

(* The chunk has been handed to the protocol, and perhaps answered.        *)
LEMMA ProcessFacts ==
    ASSUME TypeOK, Always, AtProcess, proto' = proto,
           conn' \in {Processed, Reply(Processed)},
           sock'.next = sock.next, sock'.reused = sock.reused,
           sock'.last = sock.last, sock'.was = sock.was,
           sock'.startup = sock.startup,
           "made" \in sock'.flags <=> "made" \in sock.flags,
           mem'.many => ~Has("next")
    PROVE  /\ conn' \in Conn /\ conn'.n = conn.n /\ conn'.state = conn.state
           /\ Always' /\ Joined' /\ MadeDone' /\ AllRead'
           /\ conn' = Processed => Paid'
           /\ conn' = Reply(Processed) => Owing'
           /\ conn.state # "down"
<1> DEFINE p == Processed
<1>1. /\ sock \in Sock /\ mem \in Mem /\ conn \in Conn
      /\ mem.chunk = Len(conn.data) + 1 /\ InOrder /\ MadeDone /\ Paid
      /\ conn.state # "down"
    BY DEF TypeOK, AtProcess, Unread, Always, Listens, States
<1>2. /\ p \in Conn /\ p.said = conn.said /\ p.got = conn.got
      /\ p.n = conn.n /\ p.state = conn.state /\ p.sent = conn.sent
      /\ p.wire = conn.wire /\ p.made = conn.made
      /\ p.data = UpTo(mem.chunk) /\ Len(p.data) = mem.chunk
      /\ p.data # <<>>
    BY <1>1, ProcessedFacts
<1>3. p.got = UpTo(p.said)
    BY <1>1, <1>2 DEF Paid
<1>4. conn' = p \/ conn' = Reply(p)
    OBVIOUS
<1> HIDE DEF p
<1>5. /\ conn' \in Conn /\ conn'.n = conn.n /\ conn'.state = conn.state
      /\ conn'.sent = conn.sent /\ conn'.wire = conn.wire
      /\ conn'.made = conn.made
      /\ conn'.data = UpTo(mem.chunk) /\ Len(conn'.data) = mem.chunk
    BY <1>2, <1>4, ReplyFacts
<1>6. Joined' /\ MadeDone'
    BY <1>1, <1>5 DEF Joined, Running, MadeDone, AtProcess, Has
<1>7. AllRead'
    BY <1>1, <1>5 DEF AllRead, Hears, AtProcess, Unread
<1>8. Always'
    <2>1. "close" \notin sock.flags /\ conn.state # "none"
        BY DEF AtProcess, Listens, Joined
    <2> QED
        BY <1>1, <1>5, <2>1 DEF Always, OneWas, Startup, States, Made,
           InOrder, Many, MadeDone, Client, Has, May
<1>9. conn' = p => Paid'
    BY <1>3 DEF Paid
<1>10. conn' = Reply(p) => Owing'
    BY <1>2, <1>3, OwedFacts
<1> QED
    BY <1>1, <1>5, <1>6, <1>7, <1>8, <1>9, <1>10 DEF p

(* next_bytes_to_send answers the chunk.                                   *)
LEMMA NextBytesStep ==
    ASSUME SInv, Careful(proto), NextBytes
    PROVE  SInv'
<1>1. /\ pc = "process_data_received" /\ TypeOK /\ Always /\ AtProcess
      /\ Has("next") /\ proto' = proto /\ sock' = sock /\ mem \in Mem
    BY DEF NextBytes, At, SInv, TypeOK, Annotated
<1>2. mem.held = {} /\ ~mem.many
    BY <1>1 DEF AtProcess, Kept, Answers, InternalErrors, Receives, Always,
       Many, Has
<1>3. ASSUME mem' = IF Has("next callable") THEN NewSbuf(mem)
                    ELSE [mem EXCEPT !.buf = "rbuf", !.sb = "rbuf"],
             conn' = Reply(Processed), pc' = "do_send"
      PROVE  SInv'
    <2>1. /\ mem' \in Mem /\ ~mem'.many
          /\ IF Has("next callable")
             THEN mem'.held = {"sbuf"} /\ mem'.sb = "live" /\ mem'.buf = "sbuf"
             ELSE mem'.held = {} /\ mem'.sb = "rbuf" /\ mem'.buf = "rbuf"
        <3>1. CASE Has("next callable")
            BY <1>1, <1>2, <1>3, <3>1, NewSbufFacts
        <3>2. CASE ~Has("next callable")
            BY <1>1, <1>2, <1>3, <3>2 DEF Mem
        <3> QED
            BY <3>1, <3>2
    <2>2. /\ conn' \in Conn /\ conn'.state = conn.state /\ conn.state # "down"
          /\ Always' /\ Joined' /\ MadeDone' /\ AllRead' /\ Owing'
        BY <1>1, <1>3, <2>1, ProcessFacts
    <2>3. ToSend'
        BY <1>1, <2>2 DEF ToSend, OwnError, NoError, AtProcess
    <2>4. Has("next callable") => InSbuf'
        BY <1>1, <2>1 DEF InSbuf, NewSbufs, Has
    <2>5. ~Has("next callable") => InNext'
        BY <1>1, <2>1, <2>2 DEF InNext, Steadily, Careful, Has
    <2>6. AtSend'
        BY <2>1, <2>3, <2>4, <2>5 DEF AtSend
    <2> QED
        BY <1>1, <1>3, <2>1, <2>2, <2>6
           DEF SInv, TypeOK, Annotated, At, Waiting, NoTrap, Labels
<1>4. ASSUME mem' = mem, conn' = conn, pc' \in {"abandoned", "errors"}
      PROVE  SInv'
    BY <1>1, <1>4 DEF Always, OneWas, Startup, States, Made, InOrder, Many,
       Client, Has, May, SInv, TypeOK, Annotated, At, Waiting, NoTrap, Gone,
       Ended
<1> QED
    BY <1>3, <1>4 DEF NextBytes, Exception, Goto

(* A reply in the receive buffer, which has no sbuf to be mistaken for it  *)
LEMMA AnswerFacts ==
    ASSUME TypeOK, AtProcess, Answers(proto), Careful(proto), proto' = proto,
           mem' = Answer(mem)
    PROVE  mem' \in Mem /\ InRbuf' /\ mem'.buf = "rbuf" /\ ~mem'.many
<1> DEFINE m == Snap(mem, "rbuf")
<1>1. /\ mem \in Mem /\ mem.held \subseteq {"rbuf"}
      /\ ~NewSbufs(proto) /\ ~Has("next")
    BY DEF TypeOK, AtProcess, Kept, Careful, Answers, InternalErrors, Receives,
           Has
<1>2. mem.sb = "none"
    BY <1>1 DEF AtProcess, OldSbuf
<1>3. /\ m \in Mem /\ m.held = {"rbuf"} /\ m.sb = "none"
    BY <1>1, <1>2, SnapFacts DEF Owners
<1>4. mem' = [m EXCEPT !.buf = "rbuf", !.many = FALSE]
    BY DEF Answer
<1> HIDE DEF m
<1>5. /\ mem' \in Mem /\ mem'.held = {"rbuf"} /\ mem'.sb = "none"
      /\ mem'.buf = "rbuf" /\ ~mem'.many
    BY <1>3, <1>4 DEF Mem
<1> QED
    BY <1>5 DEF InRbuf

(* The answer 501 is a reply like others.                                  *)
LEMMA NotImplementedStep ==
    ASSUME SInv, Careful(proto), NotImplemented
    PROVE  SInv'
<1>1. /\ pc = "process_data_received" /\ pc' = "do_send"
      /\ TypeOK /\ Always /\ AtProcess /\ Answers(proto)
      /\ proto' = proto /\ sock' = sock /\ mem' = Answer(mem)
      /\ conn' = Reply(Processed)
    BY DEF NotImplemented, At, Goto, SInv, Annotated, Answers, Has
<1>2. mem' \in Mem /\ InRbuf' /\ mem'.buf = "rbuf" /\ ~mem'.many
    BY <1>1, AnswerFacts
<1>3. /\ conn' \in Conn /\ Always' /\ Joined' /\ MadeDone' /\ AllRead'
      /\ Owing'
    BY <1>1, <1>2, ProcessFacts
<1>4. AtSend'
    BY <1>1, <1>2, <1>3 DEF AtSend, ToSend, OwnError, NoError, AtProcess
<1> QED
    BY <1>1, <1>2, <1>3, <1>4
       DEF SInv, TypeOK, Annotated, At, Waiting, NoTrap, Labels

(* data_received() is called; whatever it returns is sent from where it    *)
(* can be rolled back, or the socket is given up.                          *)
LEMMA DataReceivedStep ==
    ASSUME SInv, Careful(proto), DataReceived
    PROVE  SInv'
<1>1. /\ pc = "process_data_received" /\ TypeOK /\ Always /\ AtProcess
      /\ ~Has("next") /\ Has("data_received") /\ proto' = proto
      /\ proto.data \subseteq Results
      /\ mem \in Mem /\ sock \in Sock /\ conn \in Conn
    BY ProtocolAssumption
       DEF DataReceived, At, SInv, Annotated, TypeOK, Protocol
<1>2. PICK r \in CallsOf(proto.data) :
          LET s == Flagged(sock, r)
              internalError == r = "raise" /\ Has("http11")
          IN  /\ sock' = IF internalError THEN [s EXCEPT !.error = conn.n]
                                          ELSE s
              /\ CASE What(r) = "none" ->
                        /\ mem' = Rollback(mem, {"rbuf"})
                        /\ conn' = Processed
                        /\ Goto(IF "close" \in s.flags THEN "do_disconnect"
                                                       ELSE "do_recv")
                   [] What(r) = "file" ->
                        /\ mem' = [mem EXCEPT !.held = (@ \ {"rbuf"})
                                                        \cup {"sendfile"}]
                        /\ conn' = Reply(Processed)
                        /\ Goto("do_sendfile")
                   [] What(r) = "many" ->
                        /\ mem' = [mem EXCEPT !.held = @ \cup {"rbuf", "send"},
                                              !.many = TRUE]
                        /\ conn' = Reply(Processed) /\ Goto("do_send")
                   [] What(r) = "one" \/ internalError ->
                        /\ mem' = Answer(mem) /\ conn' = Reply(Processed)
                        /\ Goto("do_send")
                   [] OTHER -> /\ mem' = Snap(mem, "rbuf")
                               /\ conn' = Processed
                               /\ Fatal \/ Exception
    BY DEF DataReceived
<1> DEFINE s == Flagged(sock, r)
           internal == r = "raise" /\ Has("http11")
<1>3. r \in Results /\ r \in proto.data /\ (r = "raise" => What(r) = "raise")
    BY <1>1, <1>2 DEF CallsOf, What
<1>4. /\ s \in Sock /\ s.last = sock.last /\ s.next = sock.next
      /\ s.was = sock.was /\ s.reused = sock.reused /\ s.error = 0
      /\ s.startup = sock.startup
      /\ "made" \in s.flags <=> "made" \in sock.flags
    BY <1>1, <1>3, FlaggedFacts DEF AtProcess, NoError
<1>5. sock' = IF internal THEN [s EXCEPT !.error = conn.n] ELSE s
    BY <1>2
<1> HIDE DEF s
<1>6. /\ sock' \in Sock /\ sock'.last = sock.last /\ sock'.next = sock.next
      /\ sock'.was = sock.was /\ sock'.reused = sock.reused
      /\ sock'.startup = sock.startup /\ sock'.flags = s.flags
      /\ "made" \in sock'.flags <=> "made" \in sock.flags
      /\ sock'.error # 0 => internal /\ sock'.error = conn.n
    BY <1>1, <1>4, <1>5 DEF Sock, Conn
<1>7. /\ mem.held \subseteq {"rbuf"} /\ mem.buf = "none"
      /\ mem.sb \in {"none", "stale"} /\ (mem.sb = "stale" => NewSbufs(proto))
    BY <1>1 DEF AtProcess, Kept, OldSbuf
<1>8. CASE What(r) = "none"
    <2>1. /\ mem' = Rollback(mem, {"rbuf"}) /\ conn' = Processed
          /\ pc' = IF "close" \in s.flags THEN "do_disconnect" ELSE "do_recv"
        BY <1>2, <1>3, <1>8 DEF Goto, s
    <2>2. /\ mem' \in Mem /\ mem'.held = {} /\ mem'.sb = mem.sb
          /\ mem'.buf = "none"
        BY <1>1, <1>7, <2>1, RollbackFacts
    <2>3. /\ conn' \in Conn /\ Always' /\ Joined' /\ MadeDone' /\ AllRead'
          /\ Paid'
        BY <1>1, <1>6, <2>1, ProcessFacts
    <2>4. NoError'
        BY <1>3, <1>6, <1>8, WhatFacts DEF NoError
    <2>5. pc' = "do_recv" => ToRecv'
        BY <1>1, <1>6, <1>7, <2>1, <2>2, <2>3, <2>4
           DEF ToRecv, Listens, OldSbuf
    <2>6. AtDisconnect'
        BY <2>2, <2>3, <2>4 DEF AtDisconnect, KeptAnswer
    <2> QED
        BY <1>1, <1>6, <2>1, <2>2, <2>3, <2>5, <2>6
           DEF SInv, TypeOK, Annotated, At, Waiting, NoTrap, Labels
<1>9. CASE What(r) = "file"
    <2>1. /\ mem' = [mem EXCEPT !.held = (@ \ {"rbuf"}) \cup {"sendfile"}]
          /\ conn' = Reply(Processed) /\ pc' = "do_sendfile"
        BY <1>2, <1>3, <1>9 DEF Goto
    <2>2. /\ mem' \in Mem /\ mem'.held = {"sendfile"} /\ mem'.sb = mem.sb
          /\ mem'.buf = "none"
        BY <1>1, <1>7, <2>1 DEF Mem, Owners
    <2>3. /\ conn' \in Conn /\ Always' /\ Joined' /\ MadeDone' /\ AllRead'
          /\ Owing'
        BY <1>1, <1>6, <2>1, ProcessFacts
    <2>4. NoError'
        BY <1>3, <1>6, <1>9, WhatFacts DEF NoError
    <2>5. ~May("other")
        BY <1>1, <1>3, <1>9, WhatFacts
           DEF Careful, SendsFiles, Receives, Calls, May, Has
    <2>6. ToSendfile'
        BY <1>1, <1>7, <2>2, <2>3, <2>4, <2>5
           DEF ToSendfile, OldSbuf, May
    <2> QED
        BY <1>1, <1>6, <2>1, <2>2, <2>3, <2>6
           DEF SInv, TypeOK, Annotated, At, Waiting, NoTrap, Labels
<1>10. CASE What(r) = "many"
    <2>1. /\ mem' = [mem EXCEPT !.held = @ \cup {"rbuf", "send"},
                                !.many = TRUE]
          /\ conn' = Reply(Processed) /\ pc' = "do_send"
        BY <1>2, <1>3, <1>10 DEF Goto
    <2>2. /\ mem' \in Mem /\ mem'.held = {"rbuf", "send"} /\ mem'.sb = mem.sb
          /\ mem'.buf = "none" /\ mem'.many
        BY <1>1, <1>7, <2>1 DEF Mem, Owners
    <2>3. /\ conn' \in Conn /\ Always' /\ Joined' /\ MadeDone' /\ AllRead'
          /\ Owing' /\ conn'.state # "down"
        BY <1>1, <1>6, <2>1, ProcessFacts
    <2>4. sock'.error = 0
        BY <1>3, <1>6, <1>10, WhatFacts
    <2>5. Steady(proto)
        BY <1>1, <1>3, <1>10, WhatFacts DEF Careful, Receives, Calls, Has
    <2>6. AtSend'
        BY <1>1, <1>7, <2>2, <2>3, <2>4, <2>5
           DEF AtSend, ToSend, OwnError, InMany, Steadily
    <2> QED
        BY <1>1, <1>6, <2>1, <2>2, <2>3, <2>6
           DEF SInv, TypeOK, Annotated, At, Waiting, NoTrap, Labels
<1>11. CASE What(r) = "one" \/ internal
    <2>1. What(r) \notin {"none", "file", "many"}
        BY <1>3, <1>11, WhatFacts
    <2>2. /\ mem' = Answer(mem) /\ conn' = Reply(Processed)
          /\ pc' = "do_send"
        BY <1>2, <1>11, <2>1 DEF Goto
    <2>3. Answers(proto) /\ (internal => InternalErrors(proto))
        BY <1>1, <1>3, <1>11, WhatFacts
           DEF Answers, InternalErrors, Receives, Calls, Has
    <2>4. mem' \in Mem /\ InRbuf' /\ mem'.buf = "rbuf" /\ ~mem'.many
        BY <1>1, <2>2, <2>3, AnswerFacts
    <2>5. /\ conn' \in Conn /\ Always' /\ Joined' /\ MadeDone' /\ AllRead'
          /\ Owing' /\ conn'.state # "down" /\ conn'.n = conn.n
        BY <1>1, <1>6, <2>2, <2>4, ProcessFacts
    <2>6. OwnError'
        BY <1>1, <1>6, <2>3, <2>5 DEF OwnError, Steadily, Careful
    <2>7. AtSend'
        BY <2>4, <2>5, <2>6 DEF AtSend, ToSend
    <2> QED
        BY <1>1, <1>6, <2>2, <2>4, <2>5, <2>7
           DEF SInv, TypeOK, Annotated, At, Waiting, NoTrap, Labels
<1>12. CASE What(r) \notin {"none", "file", "many", "one"} /\ ~internal
    <2>1. /\ mem' = Snap(mem, "rbuf") /\ conn' = Processed
          /\ pc' \in {"errors", "abandoned"}
        BY <1>2, <1>12 DEF Fatal, Exception, Goto
    <2>2. mem' \in Mem
        BY <1>1, <2>1, SnapFacts DEF Owners
    <2>3. conn' \in Conn /\ Always'
        BY <1>1, <1>6, <2>1, ProcessFacts
    <2> QED
        BY <1>1, <1>6, <2>1, <2>2, <2>3
           DEF SInv, TypeOK, Annotated, At, Waiting, NoTrap, Gone, Ended
<1> QED
    BY <1>8, <1>9, <1>10, <1>11, <1>12

-----------------------------------------------------------------------------
(* do_disconnect: and PxSocket_Recycle()                                   *)

(* do_disconnect: DisconnectEx() is pending, or not to be had.             *)
LEMMA DoDisconnectStep ==
    ASSUME SInv, DoDisconnect
    PROVE  SInv'
<1> DEFINE s == [sock EXCEPT
                    !.was = (@ \ {"connected"}) \cup {"disconnecting"}]
           t == [s EXCEPT !.reused = TRUE]
           f == [s EXCEPT !.reused = FALSE]
<1>1. /\ pc = "do_disconnect" /\ TypeOK /\ Always /\ AtDisconnect
      /\ proto' = proto /\ mem' = mem /\ conn' = conn
      /\ \/ sock' = Began(t, "disconnect") /\ pc' = "waiting"
         \/ sock' = Tried(f, "disconnect") /\ pc' \in {"recycle", "errors"}
    BY DEF DoDisconnect, Began, Tried, Begin, Fatal, At, Goto, SInv, Annotated
<1>2. /\ s \in Sock /\ s.was = {"disconnecting"} /\ s.next = "none"
      /\ s.last = sock.last /\ s.error = 0 /\ s.flags = sock.flags
      /\ s.startup = sock.startup
    BY <1>1 DEF TypeOK, Sock, AtDisconnect, Joined, Running, NoError
<1> HIDE DEF s
<1>3. \A x \in {t, f} :
          /\ x \in Sock /\ x.was = {"disconnecting"} /\ x.next = "none"
          /\ x.last = sock.last /\ x.error = 0 /\ x.flags = sock.flags
          /\ x.startup = sock.startup
    BY ZenonT(30), <1>2 DEF Sock
<1>4. t.reused /\ ~f.reused
    BY <1>2 DEF Sock
<1> HIDE DEF t, f
<1>5. /\ sock' \in Sock /\ sock'.was = {"disconnecting"}
      /\ sock'.next = "none" /\ sock'.last = sock.last /\ sock'.error = 0
      /\ sock'.flags = sock.flags /\ sock'.startup = sock.startup
      /\ sock'.op = "disconnect"
      /\ IF pc' = "waiting" THEN sock'.reused ELSE ~sock'.reused
    BY <1>1, <1>3, <1>4, OpFacts DEF Ops
<1>6. Always'
    BY <1>1, <1>5 DEF Always, OneWas, Startup, States, Made, InOrder, Many,
       Client, Has, May
<1>7. pc' = "waiting" => Disconnecting'
    BY <1>1, <1>5 DEF Disconnecting, AtDisconnect, Joined, NoError, Paid,
       KeptAnswer
<1>8. pc' = "recycle" => AtRecycle'
    BY <1>1, <1>5 DEF AtRecycle, AtDisconnect, Joined, Running, NoError,
       KeptAnswer
<1> QED
    BY <1>1, <1>5, <1>6, <1>7, <1>8
       DEF SInv, TypeOK, Annotated, At, Waiting, NoTrap, Labels, Gone, Ended

(* DisconnectEx() has completed, for a server without an error.            *)
LEMMA DisconnectDoneStep ==
    ASSUME SInv, Careful(proto), DisconnectDone
    PROVE  SInv'
<1> DEFINE t == Enter(sock)
<1> HIDE DEF t
<1>1. /\ pc = "waiting" /\ sock.op = "disconnect" /\ pc' = "recycle"
      /\ TypeOK /\ Always /\ Disconnecting
      /\ proto' = proto /\ mem' = mem /\ conn' = conn
    BY DEF DisconnectDone, Waiting, Goto, SInv, Annotated
<1>2. \E failed : /\ failed \in BOOLEAN
                  /\ sock' = [t EXCEPT !.err = failed]
                  /\ failed => Client
    <2>1. PICK failed \in {FALSE, May("disconnect")} :
              sock' = [t EXCEPT !.err = failed]
        BY DEF DisconnectDone, t
    <2>2. May("disconnect") => Client
        BY DEF May, Careful, Server, Client, Has
    <2>3. CASE failed = FALSE
        BY <2>1, <2>3
    <2>4. CASE failed # FALSE
        <3> DEFINE may == May("disconnect")
        <3>1. may \in BOOLEAN /\ (may => Client)
            <4>1. may \in BOOLEAN
                BY DEF May
            <4> QED
                BY <2>2, <4>1, Zenon
        <3>2. failed = may
            BY <2>1, <2>4, Zenon
        <3> HIDE DEF may
        <3>3. failed \in BOOLEAN
            BY <3>1, <3>2, Zenon
        <3>4. failed = TRUE /\ Client
            BY <2>4, <3>1, <3>2, Zenon
        <3> QED
            BY <2>1, <3>4
    <2> QED
        BY <2>3, <2>4
<1>3. /\ t \in Sock /\ t.last = "disconnect" /\ t.next = sock.next
      /\ t.was = sock.was /\ t.reused = sock.reused /\ t.error = sock.error
      /\ "made" \in t.flags <=> "made" \in sock.flags
      /\ "close" \in t.flags <=> "close" \in sock.flags
      /\ Client \/ t.startup = [next |-> "none", flags |-> {}]
    BY <1>1, EnterKeeps DEF t
<1>4. PICK failed : /\ failed \in BOOLEAN
                    /\ sock' = [t EXCEPT !.err = failed]
                    /\ failed => Client
    BY <1>2, Zenon
<1>5. /\ sock' \in Sock /\ sock'.last = "disconnect"
      /\ sock'.next = sock.next /\ sock'.was = sock.was
      /\ sock'.reused = sock.reused /\ sock'.error = sock.error
      /\ sock'.startup = t.startup /\ (sock'.err => Client)
      /\ "made" \in sock'.flags <=> "made" \in sock.flags
      /\ "close" \in sock'.flags <=> "close" \in sock.flags
    <2>1. sock' = [t EXCEPT !.err = failed] /\ failed \in BOOLEAN
        BY <1>4, Zenon
    <2>2. sock' \in Sock
        BY <1>3, <2>1 DEF Sock
    <2>3. /\ sock'.last = t.last /\ sock'.next = t.next /\ sock'.was = t.was
          /\ sock'.reused = t.reused /\ sock'.error = t.error
          /\ sock'.startup = t.startup /\ sock'.flags = t.flags
        BY <1>3, <2>1 DEF Sock
    <2>4. sock'.err => Client
        <3>1. CASE failed = FALSE
            <4>1. sock' = [t EXCEPT !.err = FALSE]
                BY <2>1, <3>1
            <4> QED
                BY <1>3, <4>1 DEF Sock
        <3>2. CASE failed = TRUE
            BY <1>4, <3>2, Zenon
        <3> QED
            BY <2>1, <3>1, <3>2
    <2> QED
        BY <1>3, <2>2, <2>3, <2>4, Zenon
<1>6. Always'
    BY <1>1, <1>3, <1>5 DEF Always, OneWas, Startup, States, Made, InOrder,
       Many, Client, Has, May
<1>7. AtRecycle'
    BY <1>1, <1>5 DEF AtRecycle, Disconnecting, NoError, KeptAnswer,
       Client, Has
<1> QED
    BY <1>1, <1>5, <1>6, <1>7
       DEF SInv, TypeOK, Annotated, At, Waiting, NoTrap, Labels

(* The tests before a socket is recycled succeed.                          *)
LEMMA RecyclableFacts ==
    ASSUME Always, AtRecycle
    PROVE  Recyclable
<1>1. Cardinality(sock.was) <= 1
    <2>1. CASE sock.was = {}
        BY <2>1, FS_EmptySet
    <2>2. CASE sock.was # {}
        <3>1. PICK w : w \in sock.was
            BY <2>2
        <3>2. sock.was = {w}
            BY <3>1 DEF Always, OneWas
        <3>3. Cardinality({w}) = 1
            BY FS_Singleton
        <3> QED
            BY <3>2, <3>3
    <2> QED
        BY <2>1, <2>2
<1> QED
    BY <1>1 DEF Recyclable, AtRecycle

(* The socket is renewed, retired or complete: no connection is left.      *)
LEMMA RecycleStep ==
    ASSUME SInv, Recycle
    PROVE  SInv'
<1>1. pc = "recycle" /\ TypeOK /\ Always /\ AtRecycle /\ Recyclable
    BY RecyclableFacts DEF Recycle, At, SInv, Annotated
<1>2. ASSUME UNCHANGED <<proto, sock, mem, conn>>,
             pc' \in {"complete", "retired"}
      PROVE  SInv'
    BY <1>1, <1>2 DEF Always, OneWas, Startup, States, Made, InOrder, Many,
       Client, Has, May, SInv, TypeOK, Annotated, At, Waiting, NoTrap, Gone,
       Ended
<1>3. ASSUME ~Client, Renew
      PROVE  SInv'
    <2> DEFINE start == sock.startup
    <2>1. /\ proto' = proto /\ pc' = "do_accept"
          /\ sock' = Fresh(start, 0) /\ conn' = NoConn(conn.n)
          /\ mem' = [held |-> mem.held \cap {"rbuf"}, sb |-> "none",
                     buf |-> "none", many |-> FALSE, chunk |-> 0]
        BY <1>1, <1>3 DEF Renew, Goto, AtRecycle, NoError
    <2>2. start = [next |-> "none", flags |-> {}]
        BY <1>1, <1>3 DEF Always, Startup
    <2> HIDE DEF start
    <2>3. /\ sock' \in Sock /\ sock'.last = "none" /\ sock'.next = "none"
          /\ sock'.was = {} /\ ~sock'.reused /\ sock'.error = 0
          /\ sock'.flags = {} /\ sock'.startup = start
        <3>1. 0 \in 0..MaxConns
            BY BoundAssumption
        <3> QED
            BY <2>1, <2>2, <3>1 DEF Fresh, Sock, Ops, SockFlags
    <2>4. /\ conn' \in Conn /\ conn'.state = "none" /\ conn'.made = 0
          /\ conn'.data = <<>> /\ conn'.n = conn.n
        <3>1. /\ conn.n \in 0..MaxConns /\ 0 \in 0..MaxChunks
              /\ <<>> \in Seq(1..MaxChunks) /\ <<>> \in Seq(Nat)
            BY <1>1, BoundAssumption DEF TypeOK, Conn
        <3> QED
            BY <2>1, <3>1 DEF NoConn, Conn
    <2>5. /\ mem' \in Mem /\ mem'.held = mem.held \cap {"rbuf"} /\ NoSbuf'
        <3>1. 0 \in 0..MaxChunks /\ mem.held \subseteq Owners
            BY <1>1, BoundAssumption DEF TypeOK, Mem
        <3> QED
            BY <2>1, <3>1 DEF Mem, NoSbuf
    <2>6. <<>> = UpTo(0)
        BY DEF UpTo
    <2>7. Always'
        BY <1>3, <2>1, <2>2, <2>3, <2>4, <2>5, <2>6 DEF Always, OneWas,
           Startup, States, Made, InOrder, Many, NoSbuf, Client, Has
    <2>8. AtAccept'
        BY <1>1, <1>3, <2>1, <2>3, <2>4, <2>5 DEF AtAccept, Apart, Running,
           NoError, Kept, AtRecycle, KeptAnswer, Client, Has
    <2> QED
        BY <1>1, <2>1, <2>3, <2>4, <2>5, <2>7, <2>8
           DEF SInv, TypeOK, Annotated, At, Waiting, NoTrap, Labels
<1> QED
    BY <1>1, <1>2, <1>3 DEF Recycle, Goto

-----------------------------------------------------------------------------
(* The peer                                                                *)

(* Whatever an open connection is doing, it does not mind what the peer    *)
(* does, if what is on the wire stays in order.                            *)
LEMMA PeerFacts ==
    ASSUME SInv, UNCHANGED <<proto, pc, sock, mem>>, Usable, conn' \in Conn,
           conn'.n = conn.n, conn'.made = conn.made, conn'.data = conn.data,
           conn'.said = conn.said, conn'.got = conn.got,
           conn'.state \in {"open", "closed", "reset"},
           conn'.state = "reset" => May("reset"),
           \A k \in Nat : Hears(k) => Hears(k)'
    PROVE  SInv'
<1>1. TypeOK /\ Always /\ Annotated /\ conn.state \in {"open", "closed"}
    BY DEF SInv, Usable
<1>2. Len(conn.data) \in Nat
    BY <1>1 DEF TypeOK, Conn
<1>3. (AllRead => AllRead') /\ (Unread => Unread')
    BY <1>2 DEF AllRead, Unread
<1>4. Always'
    BY <1>1 DEF Always, OneWas, Startup, States, Made, InOrder, Many, Client,
       Has, May
<1>5. /\ Joined => Joined'
      /\ NoError => NoError'
      /\ MadeDone => MadeDone'
      /\ Listens => Listens'
      /\ Paid => Paid'
      /\ Owing => Owing'
      /\ Kept => Kept'
      /\ OldSbuf => OldSbuf'
      /\ OwnError => OwnError'
    BY <1>1 DEF Joined, Running, NoError, MadeDone, Listens, Paid, Owing, Kept,
       OldSbuf, OwnError, Steadily, Client, Has
<1>6. /\ InSbuf => InSbuf'
      /\ InRbuf => InRbuf'
      /\ InMany => InMany'
      /\ InNext => InNext'
    BY <1>1 DEF InSbuf, InRbuf, InMany, InNext, Steadily, Has
<1>7. ~At("new") /\ ~At("do_accept") /\ ~At("do_connect")
      /\ ~Waiting("resolve") /\ ~Waiting("connect")
    BY <1>1 DEF Annotated, AtNew, AtAccept, AtConnect, Connecting, Apart
<1>8. Accepting => Accepting'
    BY <1>3, <1>5 DEF Accepting, Running, NoSbuf, Client, Has
<1>9. (AtStart => AtStart') /\ (AtMade => AtMade')
    BY <1>3, <1>5 DEF AtStart, AtMade, First, NoSbuf, HasInitial, Client, Has
<1>10. (AtTryRecv => AtTryRecv') /\ (ToRecv => ToRecv')
       /\ (AtProcess => AtProcess')
    BY <1>3, <1>5 DEF AtTryRecv, ToRecv, AtProcess, Client, Has
<1>11. (AtSend => AtSend') /\ (Sending => Sending')
    BY <1>3, <1>5, <1>6 DEF AtSend, Sending, ToSend
<1>12. (ToSendfile => ToSendfile') /\ (AtSent => AtSent')
    BY <1>3, <1>5 DEF ToSendfile, AtSent, May
<1>13. /\ AtDisconnect => AtDisconnect'
       /\ Disconnecting => Disconnecting'
       /\ AtRecycle => AtRecycle'
    BY <1>1, <1>5 DEF AtDisconnect, Disconnecting, AtRecycle, KeptAnswer,
       Client, Has
<1>14. Annotated'
    BY <1>1, <1>7, <1>8, <1>9, <1>10, <1>11, <1>12, <1>13
       DEF Annotated, At, Waiting, NoTrap
<1> QED
    BY <1>1, <1>4, <1>14 DEF SInv, TypeOK

(* The peer sends a chunk.                                                 *)
LEMMA PeerSendStep ==
    ASSUME SInv, PeerSend
    PROVE  SInv'
<1> DEFINE w == Append(conn.wire, conn.sent + 1)
           k == conn.sent + 1
<1>1. /\ UNCHANGED <<proto, pc, sock, mem>> /\ conn.state = "open"
      /\ conn.sent < MaxChunks /\ conn \in Conn
      /\ conn' = [conn EXCEPT !.sent = k, !.wire = w]
    BY DEF PeerSend, SInv, TypeOK
<1>2. /\ k \in 1..MaxChunks /\ conn.sent \in Nat
      /\ conn.wire \in Seq(1..MaxChunks)
      /\ w \in Seq(1..MaxChunks) /\ Len(w) = Len(conn.wire) + 1
      /\ \A i \in 1..Len(w) :
            w[i] = IF i = Len(w) THEN k ELSE conn.wire[i]
    BY <1>1, BoundAssumption DEF Conn
<1> HIDE DEF w, k
<1>3. /\ conn' \in Conn /\ conn'.n = conn.n /\ conn'.made = conn.made
      /\ conn'.data = conn.data /\ conn'.said = conn.said
      /\ conn'.got = conn.got /\ conn'.state = "open"
      /\ conn'.sent = k /\ conn'.wire = w
    <2>1. k \in 0..MaxChunks
        BY <1>2
    <2> QED
        BY <1>1, <1>2, <2>1 DEF Conn
<1>4. ASSUME NEW j \in Nat, Hears(j)
      PROVE  Hears(j)'
    <2>1. /\ j + Len(conn.wire) = conn.sent
          /\ \A i \in 1..Len(conn.wire) : conn.wire[i] = j + i
        BY <1>1, <1>4 DEF Hears
    <2>2. j + Len(w) = k
        BY <1>2, <2>1 DEF k
    <2>3. ASSUME NEW i \in 1..Len(w)
          PROVE  w[i] = j + i
        BY SMTT(30), <1>2, <2>1, <2>2
    <2> QED
        BY <1>3, <2>2, <2>3 DEF Hears
<1> QED
    BY <1>1, <1>3, <1>4, PeerFacts DEF Usable

(* The peer closes its end.                                                *)
LEMMA PeerCloseStep ==
    ASSUME SInv, PeerClose
    PROVE  SInv'
<1>1. /\ UNCHANGED <<proto, pc, sock, mem>> /\ conn.state = "open"
      /\ conn' = [conn EXCEPT !.state = "closed"] /\ conn \in Conn
    BY DEF PeerClose, SInv, TypeOK
<1>2. /\ conn' \in Conn /\ conn'.n = conn.n /\ conn'.made = conn.made
      /\ conn'.data = conn.data /\ conn'.said = conn.said
      /\ conn'.got = conn.got /\ conn'.state = "closed"
      /\ conn'.sent = conn.sent /\ conn'.wire = conn.wire
    BY <1>1 DEF Conn
<1>3. \A k \in Nat : Hears(k) => Hears(k)'
    BY <1>1, <1>2 DEF Hears
<1> QED
    BY <1>1, <1>2, <1>3, PeerFacts DEF Usable

(* The peer resets the connection; nothing it sent can be received.        *)
LEMMA PeerResetStep ==
    ASSUME SInv, PeerReset
    PROVE  SInv'
<1>1. /\ UNCHANGED <<proto, pc, sock, mem>> /\ Usable /\ May("reset")
      /\ conn' = [conn EXCEPT !.state = "reset", !.wire = <<>>]
      /\ conn \in Conn
    BY DEF PeerReset, SInv, TypeOK
<1>2. /\ conn' \in Conn /\ conn'.n = conn.n /\ conn'.made = conn.made
      /\ conn'.data = conn.data /\ conn'.said = conn.said
      /\ conn'.got = conn.got /\ conn'.state = "reset"
      /\ conn'.sent = conn.sent
    <2>1. <<>> \in Seq(1..MaxChunks)
        OBVIOUS
    <2> QED
        BY <1>1, <2>1 DEF Conn
<1>3. \A k \in Nat : Hears(k) => Hears(k)'
    BY <1>2 DEF Hears
<1> QED
    BY <1>1, <1>2, <1>3, PeerFacts

(* A peer connects to a socket that waits in AcceptEx().                   *)
LEMMA PeerConnectStep ==
    ASSUME SInv, PeerConnect
    PROVE  SInv'
<1> DEFINE k == conn.n + 1
<1>1. /\ UNCHANGED <<proto, pc, sock, mem>> /\ pc = "waiting"
      /\ sock.op = "accept" /\ conn.state = "none" /\ k \in 0..MaxConns
      /\ conn' = [NoConn(k) EXCEPT !.state = "open"]
      /\ TypeOK /\ Always /\ Accepting
    BY BoundAssumption
       DEF PeerConnect, Waiting, SInv, Annotated, TypeOK, Conn
<1> HIDE DEF k
<1>2. /\ conn' \in Conn /\ conn'.state = "open" /\ conn'.sent = 0
      /\ conn'.wire = <<>> /\ conn'.made = 0 /\ conn'.data = <<>>
      /\ conn'.said = 0 /\ conn'.got = <<>> /\ conn'.data = UpTo(0)
      /\ Len(conn'.data) = 0
    <2>1. /\ 0 \in 0..MaxChunks /\ <<>> \in Seq(1..MaxChunks)
          /\ <<>> \in Seq(Nat)
        BY BoundAssumption
    <2>2. conn' = [n |-> k, state |-> "open", sent |-> 0, wire |-> <<>>,
                   made |-> 0, data |-> <<>>, said |-> 0, got |-> <<>>]
        BY <1>1 DEF NoConn
    <2>3. /\ conn'.state = "open" /\ conn'.sent = 0
          /\ conn'.wire = <<>> /\ conn'.made = 0 /\ conn'.data = <<>>
          /\ conn'.said = 0 /\ conn'.got = <<>>
        BY <2>2
    <2>4. conn' \in Conn
        <3>1. /\ "open" \in {"none", "open", "closed", "reset", "down"}
              /\ 0 \in Nat
            OBVIOUS
        <3>2. [n |-> k, state |-> "open", sent |-> 0, wire |-> <<>>,
               made |-> 0, data |-> <<>>, said |-> 0, got |-> <<>>] \in Conn
            BY <1>1, <2>1, <3>1 DEF Conn
        <3> QED
            BY <2>2, <3>2
    <2>5. <<>> = UpTo(0) /\ Len(<<>>) = 0
        BY DEF UpTo
    <2> QED
        BY <2>3, <2>4, <2>5
<1>3. /\ <<>> = UpTo(0) /\ conn.made = 0
      /\ Len(conn'.wire) = 0 /\ 1..0 = {}
    BY <1>1, <1>2 DEF UpTo, Accepting
<1>4. Always'
    BY <1>1, <1>2, <1>3 DEF Always, OneWas, Startup, States, Made, InOrder,
       Many, Client, Has, May
<1>5. Accepting'
    <2>1. /\ sock.next = "none" /\ ~sock.reused /\ sock.last # "disconnect"
          /\ sock.error = 0 /\ sock.was \subseteq {"accepting"}
          /\ ~Client /\ Kept /\ NoSbuf
        BY <1>1 DEF Accepting, Running, NoError
    <2>2. ~Client' /\ Kept' /\ NoSbuf'
        BY <1>1, <2>1 DEF Client, Has, Kept, NoSbuf
    <2>3. Running' /\ NoError' /\ sock'.was \subseteq {"accepting"}
        BY <1>1, <2>1 DEF Running, NoError
    <2>4. AllRead'
        BY <1>2, <1>3 DEF AllRead, Hears
    <2>5. Paid'
        BY <1>2, <1>3 DEF Paid
    <2> QED
        BY <1>2, <2>2, <2>3, <2>4, <2>5 DEF Accepting
<1> QED
    BY <1>1, <1>2, <1>4, <1>5
       DEF SInv, TypeOK, Annotated, At, Waiting, NoTrap

-----------------------------------------------------------------------------
(* The theorems                                                            *)

(* A new socket satisfies the invariant.                                   *)
LEMMA InitStep ==
    ASSUME Init
    PROVE  SInv
<1> DEFINE n == IF Client THEN "connect" ELSE "accept"
           none == [next |-> "none", flags |-> {}]
<1>1. n \in Ops
    BY DEF Ops
<1> HIDE DEF n
<1>2. /\ proto \in Protocols /\ pc = "new" /\ conn = NoConn(0)
      /\ sock = [Fresh(none, 0) EXCEPT !.next = n]
      /\ mem = [held |-> {}, sb |-> "none", buf |-> "none", many |-> FALSE,
                chunk |-> 0]
    BY DEF Init, n
<1>3. /\ 0 \in 0..MaxConns /\ 0 \in 0..MaxChunks /\ 0 \in Nat
      /\ <<>> \in Seq(1..MaxChunks) /\ <<>> \in Seq(Nat)
      /\ Len(<<>>) = 0 /\ <<>> = UpTo(0)
    BY BoundAssumption DEF UpTo
<1>4. sock = [op |-> "none", last |-> "none", next |-> n, was |-> {},
              reused |-> FALSE, flags |-> {}, recv |-> FALSE, err |-> FALSE,
              error |-> 0, startup |-> none]
    BY <1>2 DEF Fresh
<1>5. none \in [next : Ops, flags : SUBSET SockFlags]
    BY DEF Ops
<1> HIDE DEF none
<1>6. sock \in Sock
    BY <1>1, <1>3, <1>4, <1>5 DEF Sock, Ops
<1>7. mem \in Mem
    BY <1>2, <1>3 DEF Mem
<1>8. conn = [n |-> 0, state |-> "none", sent |-> 0, wire |-> <<>>, made |-> 0,
              data |-> <<>>, said |-> 0, got |-> <<>>]
    BY <1>2 DEF NoConn
<1>9. conn \in Conn
    BY <1>3, <1>8 DEF Conn
<1>10. TypeOK
    BY <1>2, <1>6, <1>7, <1>9 DEF TypeOK, Labels
<1>11. /\ conn.state = "none" /\ conn = NoConn(conn.n) /\ conn.made = 0
       /\ conn.data = <<>> /\ conn.n = 0
    BY <1>2, <1>8
<1>12. /\ ~sock.reused /\ sock.op = "none" /\ sock.error = 0 /\ sock.was = {}
       /\ sock.startup = none /\ sock.flags = {}
    BY <1>4
<1>13. Always
    BY <1>2, <1>3, <1>11, <1>12
       DEF Always, OneWas, Startup, States, Made, InOrder, Many, none
<1>14. AtNew
    BY <1>2, <1>11, <1>12 DEF AtNew, NoError, NoSbuf, none
<1> QED
    BY <1>2, <1>10, <1>13, <1>14
       DEF SInv, Annotated, At, Waiting, NoTrap

(* Every step of the loop and of the callbacks that enter it keeps it.     *)
LEMMA StepKeeps ==
    ASSUME SInv, Careful(proto), Step
    PROVE  SInv'
<1>1. CASE FirstEntry \/ DoAccept \/ DoConnect \/ Resolved \/ Connected
    BY <1>1, FirstEntryStep, DoAcceptStep, DoConnectStep, ResolvedStep,
       ConnectedStep
<1>2. CASE Accepted \/ Start \/ ConnectionMade
    BY <1>2, AcceptedStep, StartStep, ConnectionMadeStep
<1>3. CASE SendNow \/ SendLater \/ SendFails \/ SendDone \/ SendFailed
    BY <1>3, SendNowStep, SendLaterStep, SendFailsStep, SendDoneStep,
       SendFailedStep
<1>4. CASE \/ SendCompleted \/ DoSendfile \/ SendfileDone \/ SendfileFailed
           \/ TryRecv
    BY <1>4, SendCompletedStep, DoSendfileStep, SendfileDoneStep,
       SendfileFailedStep, TryRecvStep
<1>5. CASE StartRateLimit \/ RateLimitDone
    BY <1>5, RateLimitStep
<1>6. CASE RecvNow \/ RecvLater \/ RecvFails \/ RecvDone \/ RecvFailed
    BY <1>6, RecvNowStep, RecvLaterStep, RecvFailsStep, RecvDoneStep,
       RecvFailedStep
<1>7. CASE \/ NextBytes \/ DataReceived \/ NotImplemented \/ DoDisconnect
           \/ DisconnectDone \/ Recycle
    BY <1>7, NextBytesStep, DataReceivedStep, NotImplementedStep,
       DoDisconnectStep, DisconnectDoneStep, RecycleStep
<1> QED
    BY <1>1, <1>2, <1>3, <1>4, <1>5, <1>6, <1>7 DEF Step

(* So does a step that changes nothing.                                    *)
LEMMA StutterKeeps ==
    ASSUME SInv, UNCHANGED vars
    PROVE  SInv'
<1>1. /\ proto' = proto /\ pc' = pc /\ sock' = sock /\ mem' = mem
      /\ conn' = conn
    BY DEF vars
<1>2. TypeOK'
    BY <1>1 DEF SInv, TypeOK
<1>3. Always'
    BY <1>1 DEF SInv, Always, OneWas, Startup, States, Made, InOrder, Many,
       Client, Has, May
<1>4. /\ UNCHANGED <<AtNew, AtAccept, AtConnect, Accepting, Connecting>>
      /\ UNCHANGED <<AtStart, AtMade, AtTryRecv, ToRecv, AtProcess>>
    BY <1>1 DEF AtNew, AtAccept, AtConnect, Accepting, Connecting, AtStart,
       AtMade, AtTryRecv, ToRecv, AtProcess, Apart, Joined, Running, NoError,
       MadeDone, Listens, First, Hears, Unread, AllRead, Paid, Kept, NoSbuf,
       OldSbuf, Client, Has, HasInitial
<1>5. UNCHANGED <<AtSend, Sending, ToSendfile, AtSent>>
    BY <1>1 DEF AtSend, Sending, ToSend, ToSendfile, AtSent, Joined, Running,
       NoError, MadeDone, Hears, AllRead, Owing, Paid, OldSbuf, Steadily,
       InSbuf, InRbuf, InMany, InNext, OwnError, Client, Has, May
<1>6. UNCHANGED <<AtDisconnect, Disconnecting, AtRecycle>>
    BY <1>1 DEF AtDisconnect, Disconnecting, AtRecycle, Joined, Running,
       NoError, Paid, KeptAnswer, Client, Has
<1>7. Annotated'
    BY <1>1, <1>4, <1>5, <1>6 DEF SInv, Annotated, At, Waiting, NoTrap
<1> QED
    BY <1>2, <1>3, <1>7 DEF SInv

(* Every step of careful protocols and their peers keeps it.               *)
LEMMA NextKeeps ==
    ASSUME SInv, \A p \in Protocols : Careful(p), [Next]_vars
    PROVE  SInv'
<1>1. Careful(proto)
    BY DEF SInv, TypeOK
<1> QED
    BY <1>1, StepKeeps, StutterKeeps, PeerConnectStep, PeerSendStep,
       PeerCloseStep, PeerResetStep DEF Next

(* At each label of PxSocket_IOLoop(), and in each wait, the socket, its   *)
(* buffers and its connection are as the assertion for that label says,    *)
(* whatever careful protocols there are.                                   *)
THEOREM Invariance ==
    ASSUME \A p \in Protocols : Careful(p)
    PROVE  Spec => []SInv
<1>1. Init => SInv
    BY InitStep
<1>2. SInv /\ [Next]_vars => SInv'
    BY NextKeeps
<1> QED
    BY <1>1, <1>2, PTL DEF Spec

(* The loop runs into none of its __debugbreak()s and never rolls back to  *)
(* a snapshot that is not there, for any number of connections, chunks and *)
(* replies.                                                                *)
THEOREM AlwaysSound ==
    ASSUME \A p \in Protocols : Careful(p)
    PROVE  Spec => []LoopSound
<1>1. SInv => LoopSound
    BY DEF SInv, Annotated, LoopSound
<1> QED
    BY <1>1, Invariance, PTL

(* The protocol is given the chunks of the peer in order, and all of them  *)
(* by the time the loop waits for more.                                    *)
THEOREM AlwaysReceived ==
    ASSUME \A p \in Protocols : Careful(p)
    PROVE  Spec => []Received
<1>1. ASSUME SInv
      PROVE  Received
    <2>1. conn.data = UpTo(Len(conn.data))
        BY <1>1 DEF SInv, Always, InOrder
    <2>2. ASSUME Waiting("recv"), Usable
          PROVE  Len(conn.data) + Len(conn.wire) = conn.sent
        <3>1. ToRecv
            BY <1>1, <2>2 DEF SInv, Annotated
        <3> QED
            BY <2>2, <3>1 DEF ToRecv, AllRead, Hears, Usable
    <2> QED
        BY <2>1, <2>2 DEF Received
<1> QED
    BY <1>1, Invariance, PTL

(* Every reply has reached the peer, once and in order, by the time the    *)
(* loop waits for the peer or disconnects, unless the peer has reset the   *)
(* connection.                                                             *)
THEOREM AlwaysAnswered ==
    ASSUME \A p \in Protocols : Careful(p)
    PROVE  Spec => []Answered
<1>1. ASSUME SInv
      PROVE  Answered
    <2>1. Waiting("recv") \/ Waiting("ratelimit") => Paid
        BY <1>1 DEF SInv, Annotated, ToRecv
    <2>2. Waiting("disconnect") => Paid
        BY <1>1 DEF SInv, Annotated, Disconnecting
    <2> QED
        BY <2>1, <2>2 DEF Answered, Waiting, Paid
<1> QED
    BY <1>1, Invariance, PTL

(* No memory of an earlier callback is kept while the loop waits for the   *)
(* peer to send something.                                                 *)
THEOREM AlwaysReleased ==
    ASSUME \A p \in Protocols : Careful(p)
    PROVE  Spec => []Released
<1>1. SInv => Released
    BY DEF SInv, Annotated, ToRecv, Released, Waiting
<1> QED
    BY <1>1, Invariance, PTL

(* connection_made() is called at most once for each connection of a       *)
(* socket and before any of its data, and no error of an earlier           *)
(* connection is reported.                                                 *)
THEOREM AlwaysAfresh ==
    ASSUME \A p \in Protocols : Careful(p)
    PROVE  Spec => []StartsAfresh
<1>1. ASSUME SInv
      PROVE  StartsAfresh
    <2>1. conn.made \in {0, 1}
        BY <1>1 DEF SInv, Always, Made
    <2>2. conn.state = "none" => conn.made = 0
        BY <1>1 DEF SInv, Always, States, NoConn
    <2>3. MadeFirst
        BY <1>1, <2>1, <2>2 DEF SInv, Always, Made, MadeFirst
    <2>4. ErrorIsOwn
        BY <1>1 DEF SInv, Annotated, At, AtSent, ErrorIsOwn
    <2> QED
        BY <2>3, <2>4 DEF StartsAfresh
<1> QED
    BY <1>1, Invariance, PTL

(* Both at once, as the run has it                                         *)
THEOREM AlwaysExchanged ==
    ASSUME \A p \in Protocols : Careful(p)
    PROVE  Spec => []Exchanged
<1>1. Received /\ Answered => Exchanged
    BY DEF Exchanged
<1> QED
    BY <1>1, AlwaysReceived, AlwaysAnswered, PTL

-----------------------------------------------------------------------------
(* The loop implements PxConnection                                        *)

ConnectionMoves == Connection!Next \/ UNCHANGED Connection!vars

(* What a connection is, all but the wire                                  *)
Dialog(c) == <<c.sent, c.made, c.data, c.said, c.got>>
Untouched == /\ proto' = proto /\ conn'.n = conn.n
             /\ conn'.state = conn.state /\ Dialog(conn') = Dialog(conn)

(* What is on its way does not concern the two who talk.                   *)
LEMMA UntouchedMoves ==
    ASSUME Untouched
    PROVE  ConnectionMoves
<1>1. Phase' = Phase /\ Has("connection_made")' = Has("connection_made")
    BY DEF Untouched, Phase, Has
<1> QED
    BY <1>1 DEF Untouched, Dialog, ConnectionMoves, Connection!vars

(* The numbers of the replies are those of PxConnection.                   *)
LEMMA AllOfFacts ==
    ASSUME NEW k
    PROVE  Connection!AllOf(k) = UpTo(k)
BY DEF Connection!AllOf, UpTo

(* A socket that has a connection is in a phase of PxConnection.           *)
LEMMA PhaseFacts ==
    /\ conn.state # "none" => Phase # "none"
    /\ conn.state = "none" => Phase = "none"
    /\ Usable => Phase = conn.state /\ Phase \in {"open", "closed"}
    /\ conn'.state = conn.state => Phase' = Phase
    /\ conn'.state \in {"none", "open", "closed", "reset"}
          => Phase' = conn'.state
    /\ conn'.state = "down" => Phase' = "closed"
BY DEF Phase, Usable

(* Most of the loop, and the arrival of a chunk                            *)
LEMMA QuietMoves ==
    ASSUME SInv,
           \/ FirstEntry \/ DoAccept \/ DoConnect \/ Resolved \/ Accepted
           \/ SendLater \/ SendFails \/ SendFailed
           \/ DoSendfile \/ SendfileFailed \/ TryRecv
           \/ StartRateLimit \/ RateLimitDone
           \/ RecvNow \/ RecvLater \/ RecvFails \/ RecvDone \/ RecvFailed
           \/ DoDisconnect \/ DisconnectDone
    PROVE  ConnectionMoves
<1>1. conn \in Conn
    BY DEF SInv, TypeOK
<1>2. ASSUME UNCHANGED <<proto, conn>>
      PROVE  Untouched
    BY <1>2 DEF Untouched, Dialog
<1>3. ASSUME proto' = proto, conn' = [conn EXCEPT !.wire = Tail(@)]
      PROVE  Untouched
    BY <1>1, <1>3 DEF Untouched, Dialog, Conn
<1>4. CASE FirstEntry \/ DoAccept \/ DoConnect \/ Resolved
    <2>1. UNCHANGED <<proto, conn>>
        BY <1>4 DEF FirstEntry, DoAccept, DoConnect, Resolve, Connect,
           Resolved, Trap
    <2> QED
        BY <1>2, <2>1, UntouchedMoves
<1>5. CASE Accepted
    <2>1. /\ proto' = proto
          /\ conn' = conn \/ conn' = [conn EXCEPT !.wire = Tail(@)]
        BY <1>5 DEF Accepted, AcceptDone
    <2> QED
        BY <1>2, <1>3, <2>1, UntouchedMoves
<1>6. CASE \/ SendLater \/ SendFails \/ SendFailed \/ DoSendfile
           \/ SendfileFailed \/ TryRecv
    <2>1. UNCHANGED <<proto, conn>>
        BY <1>6 DEF SendLater, SendFails, SendFailed, DoSendfile,
           SendfileFailed, TryRecv, Trap
    <2> QED
        BY <1>2, <2>1, UntouchedMoves
<1>7. CASE RecvNow \/ RecvDone
    <2>1. /\ proto' = proto
          /\ conn' = conn \/ conn' = [conn EXCEPT !.wire = Tail(@)]
        BY <1>7 DEF RecvNow, RecvDone, Receive
    <2> QED
        BY <1>2, <1>3, <2>1, UntouchedMoves
<1>8. CASE \/ StartRateLimit \/ RateLimitDone \/ RecvLater \/ RecvFails
           \/ RecvFailed \/ DoDisconnect \/ DisconnectDone
    <2>1. UNCHANGED <<proto, conn>>
        BY <1>8 DEF StartRateLimit, RateLimitDone, RecvLater, RecvFails,
           RecvFailed, DoDisconnect, DisconnectDone, Trap
    <2> QED
        BY <1>2, <2>1, UntouchedMoves
<1> QED
    BY <1>4, <1>5, <1>6, <1>7, <1>8

(* The protocol is handed the next chunk, and says something or not.       *)
LEMMA HandMoves ==
    ASSUME SInv, At("process_data_received"), proto' = proto,
           conn' = Processed \/ conn' = Reply(Processed)
    PROVE  ConnectionMoves
<1>1. /\ AtProcess /\ conn \in Conn /\ mem \in Mem /\ InOrder
    BY DEF SInv, TypeOK, Always, Annotated
<1>2. mem.chunk = Len(conn.data) + 1 /\ mem.chunk <= conn.sent
    BY <1>1 DEF AtProcess, Unread, Hears
<1>3. /\ conn'.said \in {conn.said, conn.said + 1} /\ conn'.got = conn.got
      /\ conn'.n = conn.n /\ conn'.state = conn.state
      /\ conn'.sent = conn.sent /\ conn'.made = conn.made
      /\ conn'.data = UpTo(mem.chunk)
    BY <1>1, <1>2, ProcessedFacts, ReplyFacts
<1>4. Append(conn.data, Len(conn.data) + 1) = UpTo(mem.chunk)
    <2>1. Len(conn.data) \in Nat
        BY <1>1 DEF Conn
    <2> QED
        BY <1>1, <1>2, <2>1, UpToFacts DEF InOrder
<1>5. Len(conn.data) < conn.sent
    BY <1>1, <1>2 DEF Conn
<1>6. /\ conn.state # "none" /\ conn.got = UpTo(conn.said)
      /\ Has("connection_made") => conn.made = 1
    BY <1>1 DEF AtProcess, Joined, Listens, MadeDone, Paid
<1>7. Connection!InTurn
    BY <1>6, PhaseFacts, AllOfFacts DEF Connection!InTurn, Connection!Paid
<1>8. UNCHANGED <<Has("connection_made"), Phase>>
    BY <1>3, PhaseFacts DEF Has
<1>9. Connection!Hand
    BY <1>3, <1>4, <1>5, <1>7, <1>8 DEF Connection!Hand, Connection!MaySay
<1> QED
    BY <1>9 DEF ConnectionMoves, Connection!Next

(* The peer gets what was said last, and with a file perhaps the end.      *)
LEMMA DeliverMoves ==
    ASSUME SInv, Usable, Owing, proto' = proto,
           \/ conn' = Delivered(conn)
           \/ conn' = [Delivered(conn) EXCEPT !.state = "down"]
    PROVE  ConnectionMoves
<1>1. conn \in Conn
    BY DEF SInv, TypeOK
<1>2. /\ Delivered(conn) \in Conn
      /\ Delivered(conn).got = UpTo(conn.said)
      /\ Delivered(conn).said = conn.said /\ Delivered(conn).n = conn.n
      /\ Delivered(conn).state = conn.state
      /\ Delivered(conn).sent = conn.sent
      /\ Delivered(conn).made = conn.made
      /\ Delivered(conn).data = conn.data
    BY <1>1, DeliveredFacts DEF Owing
<1>3. /\ conn'.said = conn.said /\ conn'.got = UpTo(conn.said)
      /\ conn'.n = conn.n /\ conn'.state \in {conn.state, "down"}
      /\ conn'.sent = conn.sent /\ conn'.made = conn.made
      /\ conn'.data = conn.data
    BY <1>2 DEF Conn
<1>4. Phase \in {"open", "closed"} /\ Phase' \in {Phase, "closed"}
    BY <1>3, PhaseFacts
<1>5. Connection!Deliver
    BY <1>3, <1>4, AllOfFacts DEF Connection!Deliver, Owing, Has
<1> QED
    BY <1>5 DEF ConnectionMoves, Connection!Next

(* A reply has been sent or a file, at once or after a while.              *)
LEMMA SentMoves ==
    ASSUME SInv, SendNow \/ SendDone \/ SendfileDone
    PROVE  ConnectionMoves
<1>1. CASE SendNow
    BY <1>1, DeliverMoves
       DEF SendNow, SInv, Annotated, At, AtSend, ToSend
<1>2. CASE SendDone
    <2>1. CASE UNCHANGED <<proto, conn>>
        BY <2>1, UntouchedMoves DEF Untouched, Dialog
    <2>2. CASE proto' = proto /\ conn' = Delivered(conn)
        BY <1>2, <2>2, DeliverMoves
           DEF SendDone, SInv, Annotated, Sending, ToSend
    <2> QED
        BY <1>2, <2>1, <2>2 DEF SendDone, Trap
<1>3. CASE SendfileDone
    <2>1. Usable /\ Owing /\ proto' = proto /\ conn \in Conn
        BY <1>3 DEF SendfileDone, SInv, TypeOK, Annotated, ToSendfile
    <2>2. \/ conn' = Delivered(conn)
          \/ conn' = [Delivered(conn) EXCEPT !.state = "down"]
        <3> DEFINE d == Delivered(conn)
                   s == IF "close" \in sock.flags THEN "down" ELSE d.state
        <3>1. d \in Conn
            BY <2>1, DeliveredFacts
        <3>2. conn' = [d EXCEPT !.state = s]
            BY <1>3 DEF SendfileDone
        <3>3. s = "down" \/ s = d.state
            OBVIOUS
        <3> HIDE DEF d, s
        <3>4. [d EXCEPT !.state = d.state] = d
            BY <3>1 DEF Conn
        <3> QED
            BY <3>2, <3>3, <3>4 DEF d
    <2> QED
        BY <2>1, <2>2, DeliverMoves
<1> QED
    BY <1>1, <1>2, <1>3

(* connection_made() is called once, when the peer has what was said with  *)
(* the request to connect.                                                 *)
LEMMA MakeMoves ==
    ASSUME SInv, ConnectionMade
    PROVE  ConnectionMoves
<1> DEFINE c == [conn EXCEPT !.made = @ + 1]
<1>1. /\ proto' = proto /\ AtMade /\ conn \in Conn
      /\ proto.made \subseteq Results
    BY ProtocolAssumption
       DEF ConnectionMade, At, SInv, Annotated, TypeOK, Protocol
<1>2. conn' = c \/ conn' = Reply(c)
    BY DEF ConnectionMade, AfterCall
<1>3. /\ c \in Conn /\ c.made = 1 /\ c.n = conn.n /\ c.state = conn.state
      /\ c.sent = conn.sent /\ c.data = conn.data
      /\ c.said = conn.said /\ c.got = conn.got
    <2> DEFINE k == conn.made + 1
    <2>1. k = 1 /\ k \in Nat /\ c = [conn EXCEPT !.made = k]
        BY <1>1 DEF AtMade, AtStart
    <2> HIDE DEF k
    <2> QED
        BY <1>1, <2>1 DEF Conn
<1> HIDE DEF c
<1>4. /\ conn'.made = 1 /\ conn'.n = conn.n /\ conn'.state = conn.state
      /\ conn'.sent = conn.sent /\ conn'.data = conn.data
      /\ conn'.said \in {conn.said, conn.said + 1} /\ conn'.got = conn.got
    BY <1>2, <1>3, ReplyFacts
<1>5. /\ conn.state # "none" /\ conn.got = UpTo(conn.said)
      /\ conn.made = 0 /\ conn.data = <<>> /\ Has("connection_made")
    BY <1>1 DEF AtMade, AtStart, Joined, Paid
<1>6. UNCHANGED <<Has("connection_made"), Phase>>
    BY <1>1, <1>4, PhaseFacts DEF Has
<1>7. Connection!Make
    BY <1>4, <1>5, <1>6, PhaseFacts, AllOfFacts
       DEF Connection!Make, Connection!MaySay, Connection!Paid
<1> QED
    BY <1>7 DEF ConnectionMoves, Connection!Next

(* A reply to nothing in particular                                        *)
LEMMA SayMoves ==
    ASSUME conn \in Conn, Joined, MadeDone, Paid, proto' = proto,
           conn' = Reply(conn)
    PROVE  ConnectionMoves
<1>1. /\ conn'.said = conn.said + 1 /\ conn'.got = conn.got
      /\ conn'.n = conn.n /\ conn'.state = conn.state
      /\ conn'.sent = conn.sent /\ conn'.made = conn.made
      /\ conn'.data = conn.data
    BY ReplyFacts
<1>2. UNCHANGED <<Has("connection_made"), Phase>>
    BY <1>1, PhaseFacts DEF Has
<1>3. Connection!InTurn
    BY PhaseFacts, AllOfFacts
       DEF Connection!InTurn, Connection!Paid, Joined, MadeDone, Paid
<1>4. Connection!Say
    BY <1>1, <1>2, <1>3 DEF Connection!Say
<1> QED
    BY <1>4 DEF ConnectionMoves, Connection!Next

(* The initial bytes of a server, which has no connection_made() then, and *)
(* send_complete()                                                         *)
LEMMA TurnMoves ==
    ASSUME SInv, Careful(proto), Start \/ SendCompleted
    PROVE  ConnectionMoves
<1>1. conn \in Conn
    BY DEF SInv, TypeOK
<1>2. CASE UNCHANGED <<proto, conn>>
    BY <1>2, UntouchedMoves DEF Untouched, Dialog
<1>3. CASE Start
    <2>1. AtStart /\ proto' = proto
        BY <1>3 DEF Start, SInv, Annotated
    <2>2. conn' = conn \/ (HasInitial /\ ~Client /\ conn' = Reply(conn))
        BY <1>3 DEF Start
    <2>3. HasInitial /\ ~Client => MadeDone
        BY DEF Careful, Server, MadeDone, HasInitial, Client, Has
    <2> QED
        BY <1>1, <1>2, <2>1, <2>2, <2>3, SayMoves DEF AtStart
<1>4. CASE SendCompleted
    <2>1. AtSent /\ proto' = proto
        BY <1>4 DEF SendCompleted, SInv, Annotated
    <2>2. conn' = conn \/ conn' = Reply(conn)
        BY <1>4 DEF SendCompleted, AfterCall
    <2> QED
        BY <1>1, <1>2, <2>1, <2>2, SayMoves DEF AtSent
<1> QED
    BY <1>3, <1>4

(* A connection begins, for a client with the initial bytes said and got,  *)
(* for a server without a word.                                            *)
LEMMA ConnectMoves ==
    ASSUME SInv, Connected \/ PeerConnect
    PROVE  ConnectionMoves
<1> DEFINE open == [NoConn(conn.n + 1) EXCEPT !.state = "open"]
<1>1. conn \in Conn /\ conn.n \in Nat /\ Always /\ proto' = proto
    BY DEF SInv, TypeOK, Conn, Connected, PeerConnect
<1>2. /\ open = [n |-> conn.n + 1, state |-> "open", sent |-> 0,
                wire |-> <<>>, made |-> 0, data |-> <<>>, said |-> 0,
                got |-> <<>>]
    BY DEF NoConn
<1>3. CASE conn' = conn
    BY <1>1, <1>3, UntouchedMoves DEF Untouched, Dialog
<1>4. /\ conn.state = "none"
      /\ conn' # conn => \/ conn' = open
                         \/ conn' = Delivered(Reply(open))
    <2>1. CASE Connected
        <3>1. Connecting /\ conn.n = 0
            BY <1>1, <2>1
               DEF Connected, SInv, Annotated, Connecting, Always, States
        <3>2. open = [NoConn(1) EXCEPT !.state = "open"]
            BY <3>1
        <3> HIDE DEF open
        <3> QED
            BY <2>1, <3>1, <3>2 DEF Connected, Connecting
    <2>2. CASE PeerConnect
        BY <2>2 DEF PeerConnect
    <2> QED
        BY <2>1, <2>2
<1>5. /\ <<>> = UpTo(0) /\ Append(<<>>, 1) = UpTo(1)
    BY UpToFacts DEF UpTo
<1>6. ASSUME conn' # conn
      PROVE  /\ conn'.n = conn.n + 1 /\ conn'.state = "open"
             /\ conn'.sent = 0 /\ conn'.made = 0 /\ conn'.data = <<>>
             /\ conn'.said \in {0, 1} /\ conn'.got = UpTo(conn'.said)
    <2>1. CASE conn' = open
        BY <1>2, <1>5, <2>1
    <2>2. CASE conn' = Delivered(Reply(open))
        <3> HIDE DEF open
        <3>1. open.said + 1 = 1
            BY <1>2
        <3>2. Reply(open) = [open EXCEPT !.said = 1]
            BY <3>1 DEF Reply
        <3>3. Reply(open) = [n |-> conn.n + 1, state |-> "open", sent |-> 0,
                             wire |-> <<>>, made |-> 0, data |-> <<>>,
                             said |-> 1, got |-> <<>>]
            BY <1>2, <3>2
        <3>4. Delivered(Reply(open)) =
                  [n |-> conn.n + 1, state |-> "open", sent |-> 0,
                   wire |-> <<>>, made |-> 0, data |-> <<>>, said |-> 1,
                   got |-> Append(<<>>, 1)]
            BY <3>3 DEF Delivered
        <3> QED
            BY <1>5, <2>2, <3>4
    <2> QED
        BY <1>4, <1>6, <2>1, <2>2
<1>7. ASSUME conn' # conn
      PROVE  Connection!Connect
    <2>1. Phase = "none" /\ Phase' = "open"
        BY <1>4, <1>6, <1>7, PhaseFacts
    <2>2. conn.sent = 0 /\ conn.made = 0 /\ conn.data = <<>>
        BY <1>1, <1>4, NoConnFacts
    <2> QED
        BY <1>1, <1>6, <1>7, <2>1, <2>2, AllOfFacts
           DEF Connection!Connect, Has
<1> QED
    BY <1>3, <1>7 DEF ConnectionMoves, Connection!Next

(* The peer sends, closes or resets.                                       *)
LEMMA PeerMoves ==
    ASSUME SInv, PeerSend \/ PeerClose \/ PeerReset
    PROVE  ConnectionMoves
<1>1. conn \in Conn /\ proto' = proto
    BY DEF SInv, TypeOK, PeerSend, PeerClose, PeerReset
<1>2. CASE PeerSend
    <2>1. /\ conn'.sent = conn.sent + 1 /\ conn'.n = conn.n
          /\ conn'.state = conn.state /\ conn'.made = conn.made
          /\ conn'.data = conn.data /\ conn'.said = conn.said
          /\ conn'.got = conn.got
        BY <1>1, <1>2 DEF PeerSend, Conn
    <2>2. Phase = "open" /\ Phase' = Phase
        BY <1>2, <2>1, PhaseFacts DEF PeerSend, Usable
    <2>3. Connection!PeerSends
        BY <1>1, <2>1, <2>2 DEF Connection!PeerSends, Has
    <2> QED
        BY <2>3 DEF ConnectionMoves, Connection!Next
<1>3. CASE PeerClose \/ PeerReset
    <2>1. /\ UNCHANGED <<conn.n, conn.sent, conn.made, conn.data>>
          /\ UNCHANGED <<conn.said, conn.got>>
          /\ \/ conn.state = "open" /\ conn'.state = "closed"
             \/ Usable /\ conn'.state = "reset"
        BY <1>1, <1>3 DEF PeerClose, PeerReset, Conn
    <2>2. \/ Phase = "open" /\ Phase' = "closed"
          \/ Phase \in {"open", "closed"} /\ Phase' = "reset"
        BY <2>1, PhaseFacts DEF Usable
    <2>3. Connection!PeerEnds
        BY <1>1, <2>1, <2>2
           DEF Connection!PeerEnds, Connection!dialog, Has
    <2> QED
        BY <2>3 DEF ConnectionMoves, Connection!Next
<1> QED
    BY <1>2, <1>3

(* The socket is renewed: nothing is left of the connection.               *)
LEMMA EndMoves ==
    ASSUME SInv, Recycle
    PROVE  ConnectionMoves
<1>1. proto' = proto /\ (conn' = conn \/ conn' = NoConn(conn.n))
    BY DEF Recycle, Renew, Trap
<1>2. CASE conn' = conn
    BY <1>1, <1>2, UntouchedMoves DEF Untouched, Dialog
<1>3. CASE conn' = NoConn(conn.n) /\ conn' # conn
    <2>1. conn.state # "none"
        BY <1>3 DEF SInv, Always, States
    <2>2. /\ conn'.n = conn.n /\ conn'.state = "none" /\ conn'.sent = 0
          /\ conn'.made = 0 /\ conn'.data = <<>> /\ conn'.said = 0
          /\ conn'.got = <<>>
        BY <1>3 DEF NoConn
    <2>3. Connection!End
        BY <1>1, <2>1, <2>2, PhaseFacts
           DEF Connection!End, Connection!Silent, Has
    <2> QED
        BY <2>3 DEF ConnectionMoves, Connection!Next
<1> QED
    BY <1>1, <1>2, <1>3

(* process_data_received: always hands the chunk over, unless              *)
(* next_bytes_to_send() raises.                                            *)
LEMMA ProcessMoves ==
    ASSUME SInv, NextBytes \/ DataReceived \/ NotImplemented
    PROVE  ConnectionMoves
<1>1. At("process_data_received") /\ proto' = proto
    BY DEF NextBytes, DataReceived, NotImplemented
<1>2. conn' \in {conn, Processed, Reply(Processed)}
    BY DEF NextBytes, DataReceived, NotImplemented
<1>3. CASE conn' = conn
    BY <1>1, <1>3, UntouchedMoves DEF Untouched, Dialog
<1> QED
    BY <1>1, <1>2, <1>3, HandMoves

(* Every step of the socket and the peer is one of PxConnection, or none.  *)
LEMMA ConnectionStep ==
    ASSUME SInv, \A p \in Protocols : Careful(p), [Next]_vars
    PROVE  ConnectionMoves
<1>1. Careful(proto)
    BY DEF SInv, TypeOK
<1>2. CASE UNCHANGED vars
    BY <1>2, UntouchedMoves DEF vars, Untouched, Dialog
<1>3. CASE Step
    BY <1>1, <1>3, QuietMoves, ConnectMoves, TurnMoves, MakeMoves, SentMoves,
       ProcessMoves, EndMoves DEF Step
<1>4. CASE PeerConnect \/ PeerSend \/ PeerClose \/ PeerReset
    BY <1>4, ConnectMoves, PeerMoves
<1> QED
    BY <1>2, <1>3, <1>4 DEF Next

(* PxSocket_IOLoop(), with its operations, buffers and snapshots,          *)
(* implements PxConnection: the protocol and the peer take turns, in every *)
(* connection anew, whatever careful protocols there are.                  *)
THEOREM ConnectionImplements ==
    ASSUME \A p \in Protocols : Careful(p)
    PROVE  Spec => ConnectionSpec
<1>1. Init => Connection!Init
    <2> SUFFICES ASSUME Init PROVE Connection!Init
        OBVIOUS
    <2>1. /\ conn = [n |-> 0, state |-> "none", sent |-> 0, wire |-> <<>>,
                     made |-> 0, data |-> <<>>, said |-> 0, got |-> <<>>]
        BY DEF Init, NoConn
    <2>2. Has("connection_made") \in BOOLEAN
        BY DEF Has
    <2> QED
        BY <2>1, <2>2, PhaseFacts DEF Connection!Init, Connection!Silent
<1>2. SInv /\ [Next]_vars => [Connection!Next]_(Connection!vars)
    BY ConnectionStep DEF ConnectionMoves
<1> QED
    BY <1>1, <1>2, Invariance, PTL DEF Spec, ConnectionSpec, Connection!Spec
=============================================================================
