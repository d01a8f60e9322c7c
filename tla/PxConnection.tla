----------------------------- MODULE PxConnection -----------------------------
(***************************************************************************)
(* What PyParallel promises the protocol and the peer of a connection      *)
(* (src/Python/pyparallel.c): the protocol is handed what the peer sends   *)
(* in order, and it is the protocol's turn only when the peer has what it  *)
(* said before.  connection_made() comes first, if the protocol has it,    *)
(* and nothing is left of a connection when the next one begins.  How the  *)
(* operations complete, and whose memory is used for it, is left open.     *)
(***************************************************************************)
EXTENDS Naturals, Sequences

VARIABLES
    greets,  \* does the protocol have connection_made()?
    number,  \* how many connections there have been
    phase,   \* what has become of the present one
    sent,    \* the chunks the peer has sent,
    made,    \* the calls of connection_made(),
    handed,  \* the chunks the protocol was handed,
    said,    \* how many replies it has given,
    got      \* and the replies the peer has got

vars == <<greets, number, phase, sent, made, handed, said, got>>
dialog == <<sent, made, handed, said, got>>

AllOf(k) == [i \in 1..k |-> i]

(* Nothing has been sent, handed or said.                                  *)
Silent == sent = 0 /\ made = 0 /\ handed = <<>> /\ said = 0 /\ got = <<>>

Init == greets \in BOOLEAN /\ number = 0 /\ phase = "none" /\ Silent

(* The peer has everything that was said.                                  *)
Paid == got = AllOf(said)
InTurn == phase # "none" /\ Paid /\ (greets => made = 1)

(* A client may say something with the request to connect.                 *)
Connect ==
    /\ phase = "none" /\ phase' = "open" /\ number' = number + 1
    /\ said' \in {0, 1} /\ got' = AllOf(said')
    /\ UNCHANGED <<greets, sent, made, handed>>

PeerSends ==
    /\ phase = "open" /\ sent' = sent + 1
    /\ UNCHANGED <<greets, number, phase, made, handed, said, got>>

PeerEnds ==
    /\ \/ phase = "open" /\ phase' = "closed"
       \/ phase \in {"open", "closed"} /\ phase' = "reset"
    /\ UNCHANGED <<greets, number, dialog>>

(* The protocol may say something whenever it is called.                   *)
MaySay == said' \in {said, said + 1}

(* connection_made()                                                       *)
Make ==
    /\ greets /\ phase # "none" /\ Paid
    /\ made = 0 /\ handed = <<>>
    /\ made' = 1 /\ MaySay
    /\ UNCHANGED <<greets, number, phase, sent, handed, got>>

(* The next chunk                                                          *)
Hand ==
    /\ InTurn /\ Len(handed) < sent
    /\ handed' = Append(handed, Len(handed) + 1) /\ MaySay
    /\ UNCHANGED <<greets, number, phase, sent, made, got>>

(* send_complete(), or the initial bytes of a server                       *)
Say ==
    /\ InTurn /\ said' = said + 1
    /\ UNCHANGED <<greets, number, phase, sent, made, handed, got>>

(* The peer gets the latest reply, and perhaps the end of the connection   *)
(* with it.                                                                *)
Deliver ==
    /\ phase \in {"open", "closed"} /\ phase' \in {phase, "closed"}
    /\ said > 0 /\ got = AllOf(said - 1) /\ got' = AllOf(said)
    /\ UNCHANGED <<greets, number, sent, made, handed, said>>

(* The connection is over, for whatever reason.                            *)
End ==
    /\ phase # "none" /\ phase' = "none"
    /\ Silent'
    /\ UNCHANGED <<greets, number>>

Next ==
    \/ Connect \/ PeerSends \/ PeerEnds
    \/ Make \/ Hand \/ Say \/ Deliver \/ End

Spec == Init /\ [][Next]_vars

=============================================================================
