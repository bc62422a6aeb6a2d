--------------------------- MODULE MCConversations ---------------------------
(***************************************************************************)
(* Both tables with more conversations than either holds: one seen in both *)
(* directions from its handshake on, one of a host with itself, one of a   *)
(* single frame, and two ARP frames that only the tracker lists.           *)
(***************************************************************************)
EXTENDS Conversations

Tcp(src, dst, sport, dport, flags, length) ==
    [src |-> src, dst |-> dst, sport |-> sport, dport |-> dport, ipProto |-> "TCP",
     app |-> "TCP", flags |-> flags, length |-> length]

Handshake == {Tcp(2, 1, 7, 8, {"SYN"}, 60), Tcp(1, 2, 8, 7, {"SYN", "ACK"}, 60)}
Data == Tcp(2, 1, 7, 8, {"ACK", "PSH"}, 61)
Hairpin(a, b) == [Tcp(3, 3, a, b, {}, 50) EXCEPT !.ipProto = "UDP", !.app = "DNS"]
Arp(src, dst) == [Tcp(src, dst, 0, 0, {}, 42) EXCEPT !.ipProto = "", !.app = "ARP"]
Reset == Tcp(2, 3, 9, 9, {"RST", "ACK"}, 60)

EightFrames ==
    Handshake \cup {Data, Hairpin(7, 8), Hairpin(8, 7), Arp(1, 2), Arp(3, 2), Reset}
=============================================================================
