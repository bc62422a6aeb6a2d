------------------------------ MODULE Dissector ------------------------------
(***************************************************************************)
(* Dissector.Dissect: one packet of a capture becomes a Frame.  The link   *)
(* header, VLAN tags, the network header, the transport header and the     *)
(* application payload are read one after the other; each reader returns   *)
(* early when the bytes run out, and the frame then keeps the layers that  *)
(* were read.  Nothing here looks at IPv4's total length or fragment       *)
(* offset, IPv6's payload length or UDP's length: a payload always reaches *)
(* to the end of the captured bytes.                                       *)
(***************************************************************************)
EXTENDS TlsRecords, DnsMessage

CONSTANTS
    HeaderWords,    \* the header lengths, in words of 4 bytes, that IPv4 and TCP may claim
    DhcpFixed,      \* bytes of a DHCP message in front of its options (240)
    MaxH2Frames     \* HTTP/2 frames shown of one payload (16)

ASSUME DissectorAssumption ==
    HeaderWords \subseteq 0 .. 15 /\ DhcpFixed \in Nat /\ MaxH2Frames \in Nat

VARIABLES
    hdrLen,         \* hdrLen of dissectTCP
    service,        \* what the two ports stand for
    h2              \* HTTP/2 frames read

dissectorVars == <<packetVars, tls, dns, hdrLen, service, h2>>

\* What most steps leave alone.
inner == <<tls, dns, hdrLen, service, h2>>
cursors == <<cur, end, known>>
fixed == <<size, link>>

EtherTypes == {"vlan", "ipv4", "ipv6", "arp", "lldp", "other"}
IpProtocols == {"ICMP", "ICMPv6", "TCP", "UDP", "GRE", "ESP", "IPv6", "other"}
OptionKinds == {"EOL", "NOP", "WS", "other"}
TcpServices == {"https", "http", "other"}
UdpServices == {"dns", "mdns", "dhcp", "ntp", "other"}

Left == size - pos

DissectorInit ==
    /\ PacketInit
    /\ tls = IdleTls /\ dns = IdleDns
    /\ hdrLen = 0 /\ service = "" /\ h2 = 0

\* What each reader must find before it reads.
Needs ==
    [ethernet |-> 14, vlan |-> 4, sll |-> 16, sll2 |-> 20, arp |-> 28, ipv4 |-> 20,
     ipv6 |-> 40, ICMP |-> 8, ICMPv6 |-> 4, TCP |-> 20, UDP |-> 8]

Reads(reader) == at = reader /\ Left >= Needs[reader]

\* A reader that finds less returns.
TooShort ==
    /\ at \in DOMAIN Needs /\ Left < Needs[at]
    /\ at' = "finish"
    /\ UNCHANGED <<fixed, pos, cursors, frameVars, inner>>

-----------------------------------------------------------------------------
(* Dissect chooses by the link type.                                       *)
Dissect ==
    /\ at = "dissect"
    /\ \/ link = "ethernet" /\ at' = "ethernet" /\ UNCHANGED layers
       \/ link = "sll" /\ at' = "sll" /\ UNCHANGED layers
       \/ link = "sll2" /\ at' = "sll2" /\ UNCHANGED layers
       \/ /\ link = "raw"
          /\ \/ size > 0 /\ at' \in {"ipv4", "ipv6"}
             \/ at' = "finish"
          /\ UNCHANGED layers
       \/ /\ link \notin {"ethernet", "sll", "sll2", "raw"}
          /\ AddLayer("Raw", 0, size)
          /\ at' = "finish"
    /\ UNCHANGED <<fixed, pos, cursors, protocol, ipProto, meta, tags, inner>>

\* After a link header or a tag: what its type says comes next.
ByEtherType(type) ==
    CASE type = "lldp" -> "lldp"
      [] type = "other" -> "payload"
      [] OTHER -> type

Ethernet ==
    /\ Reads("ethernet")
    /\ \E type \in EtherTypes : Proceed(ByEtherType(type), pos + 12, size)
    /\ AddLayer("Ethernet", pos, 14)
    /\ pos' = pos + 14
    /\ UNCHANGED <<fixed, cursors, protocol, ipProto, meta, tags, inner>>

Vlan ==
    /\ Reads("vlan")
    /\ \E type \in EtherTypes : at' = ByEtherType(type)
    /\ AddLayer("VLAN", pos, 4)
    /\ pos' = pos + 4
    /\ meta' = meta \cup {"vlan"}
    /\ UNCHANGED <<fixed, cursors, protocol, ipProto, tags, inner>>

\* dissectEthernet's last two cases; only the first names the frame.
OtherEtherType ==
    /\ at \in {"lldp", "payload"}
    /\ LastLayer(IF at = "lldp" THEN "LLDP" ELSE "Payload", IF at = "lldp" THEN "LLDP" ELSE protocol)
    /\ UNCHANGED <<fixed, pos, cursors, ipProto, meta, tags, inner>>

\* The two cooked headers know three types and add nothing for another one.
Cooked ==
    /\ Reads("sll") \/ Reads("sll2")
    /\ LET need == IF at = "sll" THEN 16 ELSE 20
       IN  /\ \E next \in {"ipv4", "ipv6", "arp", "finish"} :
                Proceed(next, pos + (IF at = "sll2" THEN 12 ELSE 0), size)
           /\ AddLayer(IF at = "sll" THEN "Linux SLL" ELSE "Linux SLL2", pos, need)
           /\ pos' = pos + need
    /\ UNCHANGED <<fixed, cursors, protocol, ipProto, meta, tags, inner>>

Arp ==
    /\ Reads("arp")
    /\ AddLayer("ARP", pos, 28)
    /\ protocol' = "ARP"
    /\ meta' = meta \cup {"arp_op"}
    /\ Proceed("finish", pos + 28, size)
    /\ UNCHANGED <<fixed, pos, cursors, ipProto, tags, inner>>

-----------------------------------------------------------------------------
(* IPv4, IPv6 and dispatchIP.                                              *)
IpHeader(name, n, read) ==
    /\ \E proto \in IpProtocols :
         /\ ipProto' = proto
         /\ Proceed(IF proto \in {"ICMP", "ICMPv6", "TCP", "UDP"} THEN proto ELSE "otherIp", read, size)
    /\ AddLayer(name, pos, n)
    /\ pos' = pos + n
    /\ meta' = meta \cup {"ip"}
    /\ UNCHANGED <<fixed, cursors, protocol, tags, inner>>

IPv4 ==
    /\ Reads("ipv4")
    /\ \E words \in HeaderWords :
         LET ihl == 4 * words
         IN  IF ihl < 20 \/ pos + ihl > size
             THEN at' = "finish" /\ UNCHANGED <<fixed, pos, cursors, frameVars, inner>>
             ELSE IpHeader("IPv4", ihl, pos + 20)

IPv6 ==
    /\ Reads("ipv6")
    /\ IpHeader("IPv6", 40, pos + 40)

OtherIp ==
    /\ at = "otherIp"
    /\ LastLayer(ipProto, ipProto)
    /\ UNCHANGED <<fixed, pos, cursors, ipProto, meta, tags, inner>>

Icmp ==
    /\ Reads("ICMP") \/ Reads("ICMPv6")
    /\ AddLayer(at, pos, Left)
    /\ protocol' = at
    /\ Proceed("finish", pos + 2, size)
    /\ UNCHANGED <<fixed, pos, cursors, ipProto, meta, tags, inner>>

-----------------------------------------------------------------------------
(* TCP: its options are walked before its layer is added.                  *)
\* Bug: a header that claims more than was captured keeps its claim.
TcpUnreset ==
    /\ Reads("TCP")
    /\ service' \in TcpServices
    /\ \E words \in HeaderWords : hdrLen' = IF 4 * words < 20 THEN 20 ELSE 4 * words
    /\ cur' = pos + 20 /\ end' = Min2(pos + hdrLen', size)
    /\ Proceed(IF hdrLen' > 20 THEN "option" ELSE "segment", pos + 20, size)
    /\ UNCHANGED <<fixed, pos, known, frameVars, tls, dns, h2>>

Tcp ==
    /\ Reads("TCP")
    /\ service' \in TcpServices
    /\ \E words \in HeaderWords :
         hdrLen' = IF 4 * words < 20 \/ pos + 4 * words > size THEN 20 ELSE 4 * words
    /\ cur' = pos + 20 /\ end' = pos + hdrLen'
    /\ Proceed(IF hdrLen' > 20 THEN "option" ELSE "segment", pos + 20, size)
    /\ UNCHANGED <<fixed, pos, known, frameVars, tls, dns, h2>>

\* One turn of parseTCPOptions; [cur, end) is what is left of the options.  A
\* window scale is read without a look at the length that was claimed for it.
TcpOption ==
    /\ at = "option"
    /\ \/ /\ cur >= end
          /\ at' = "segment" /\ UNCHANGED cur
       \/ /\ cur < end
          /\ \E kind \in OptionKinds :
               \/ /\ kind = "EOL" \/ (kind # "NOP" /\ cur + 1 >= end)
                  /\ at' = "segment" /\ UNCHANGED cur
               \/ /\ kind = "NOP"
                  /\ cur' = cur + 1 /\ UNCHANGED at
               \/ /\ kind \notin {"EOL", "NOP"} /\ cur + 1 < end
                  /\ \E length \in Claims(end - cur) :
                       IF length < 2 \/ cur + length > end
                       THEN at' = "segment" /\ UNCHANGED cur
                       ELSE /\ cur' = cur + length
                            /\ Proceed("option", cur + (IF kind = "WS" THEN 3 ELSE 2), end)
    /\ UNCHANGED <<fixed, pos, end, known, frameVars, inner>>

Segment ==
    /\ at = "segment"
    /\ AddLayer("TCP", pos, hdrLen)
    /\ meta' = meta \cup {"sport", "dport", "tcp_flags"}
    /\ protocol' = "TCP"
    /\ pos' = pos + hdrLen
    /\ at' = IF pos' >= size THEN "finish" ELSE "appTcp"
    /\ UNCHANGED <<fixed, cursors, ipProto, tags, inner>>

\* dissectAppTCP: what the payload looks like, then what the ports stand for.
\* A TLS record and an HTTP/2 frame must claim a length near what is left.
AppTcp ==
    /\ at = "appTcp"
    /\ \/ /\ Left >= 5
          /\ \E type \in ContentTypes, length \in Claims(Left - 5) \ {0} :
               known' = Noted(Noted(Unread, pos, type), pos + 3, length)
          /\ tls' = [IdleTls EXCEPT !.rec = pos]
          /\ at' = "record"
          /\ UNCHANGED <<cur, h2>>
       \/ /\ Left >= 9
          /\ at' = "http2" /\ cur' = pos /\ h2' = 0
          /\ UNCHANGED <<known, tls>>
       \/ /\ Left >= 24       \* the connection preface
          /\ at' = "http2" /\ cur' = pos + 24 /\ h2' = 1
          /\ UNCHANGED <<known, tls>>
       \/ /\ Left >= 4 /\ at' \in {"http", "ssh"}
          /\ UNCHANGED <<cur, known, h2, tls>>
       \/ /\ at' = "tcpData"
          /\ UNCHANGED <<cur, known, h2, tls>>
    /\ UNCHANGED <<fixed, pos, end, frameVars, dns, hdrLen, service>>

Http ==
    /\ at = "http"
    /\ LastLayer("HTTP", "HTTP")
    /\ \E first \in {{"http_method", "http_path"}, {"http_status"}},
         headers \in SUBSET {"http_host", "http_ua"} : meta' = meta \cup first \cup headers
    /\ tags' = tags \cup {"web"}
    /\ UNCHANGED <<fixed, pos, cursors, ipProto, inner>>

Http2Frame ==
    /\ at = "http2"
    /\ IF cur + 9 <= size /\ h2 < MaxH2Frames
       THEN \E length \in Claims(size - cur - 9) :
              /\ h2' = h2 + 1
              /\ cur' = IF cur + 9 + length > size THEN size ELSE cur + 9 + length
              /\ Proceed(IF cur + 9 + length > size THEN "http2Done" ELSE "http2", cur + 9, size)
       ELSE at' = "http2Done" /\ UNCHANGED <<cur, h2>>
    /\ UNCHANGED <<fixed, pos, end, known, frameVars, tls, dns, hdrLen, service>>

Http2Done ==
    /\ at = "http2Done"
    /\ LastLayer("HTTP/2", "HTTP/2")
    /\ meta' = meta \cup {"http2"}
    /\ tags' = tags \cup {"web", "h2"}
    /\ UNCHANGED <<fixed, pos, cursors, ipProto, inner>>

Ssh ==
    /\ at = "ssh"
    /\ LastLayer("SSH", "SSH")
    /\ tags' = tags \cup {"encrypted"}
    /\ UNCHANGED <<fixed, pos, cursors, ipProto, meta, inner>>

\* A payload that looks like nothing known is named by its ports.
TcpData ==
    /\ at = "tcpData"
    /\ LET name == CASE service = "https" -> "TLS" [] service = "http" -> "HTTP" [] OTHER -> ""
       IN  /\ LastLayer(IF name = "" THEN "Data" ELSE name \o "?", IF name = "" THEN protocol ELSE name)
           /\ tags' = tags \cup (IF name = "TLS" THEN {"encrypted"} ELSE {})
    /\ UNCHANGED <<fixed, pos, cursors, ipProto, meta, inner>>

-----------------------------------------------------------------------------
(* UDP.                                                                    *)
Udp ==
    /\ Reads("UDP")
    /\ service' \in UdpServices
    /\ AddLayer("UDP", pos, 8)
    /\ meta' = meta \cup {"sport", "dport"}
    /\ protocol' = "UDP"
    /\ pos' = pos + 8
    /\ at' = IF pos' >= size THEN "finish" ELSE "appUdp"
    /\ UNCHANGED <<fixed, cursors, ipProto, tags, tls, dns, hdrLen, h2>>

\* dissectAppUDP: the ports first, then a guess.  Whatever is longer than a
\* DNS header and does not begin like QUIC is read as DNS.
AppUdp ==
    /\ at = "appUdp"
    /\ CASE service \in {"dns", "mdns"} -> at' = "dns"
         [] service = "dhcp" -> at' = "dhcp"
         [] service = "ntp" -> at' = "ntp"
         [] OTHER -> \/ Left >= 5 /\ at' = "quic"
                     \/ at' = IF Left > 12 THEN "dns" ELSE "udpData"
    /\ dns' = [IdleDns EXCEPT !.mdns = (service = "mdns")]
    /\ UNCHANGED <<fixed, pos, cursors, frameVars, tls, hdrLen, service, h2>>

\* NTP, QUIC and what is left take the payload as it is.
UdpPayload ==
    /\ \/ at = "ntp" /\ LastLayer("NTP", "NTP") /\ UNCHANGED tags
       \/ at = "quic" /\ LastLayer("QUIC", "QUIC") /\ tags' = tags \cup {"encrypted", "http3"}
       \/ at = "udpData" /\ LastLayer("Data", protocol) /\ UNCHANGED tags
    /\ UNCHANGED <<fixed, pos, cursors, ipProto, meta, inner>>

\* dissectDHCP: the options are read behind a fixed part.
Dhcp ==
    /\ at = "dhcp"
    /\ cur' = pos + DhcpFixed
    /\ \/ Left > DhcpFixed /\ at' = "dhcpOption"
       \/ at' = "dhcpDone"
    /\ UNCHANGED <<fixed, pos, end, known, frameVars, inner>>

DhcpOption ==
    /\ at = "dhcpOption"
    /\ \/ at' = "dhcpDone" /\ UNCHANGED cur          \* the end code, or no room for a length
       \/ cur < size /\ cur' = cur + 1 /\ UNCHANGED at
       \/ /\ cur + 1 < size
          /\ \E length \in Claims(size - cur - 2) :
               IF cur + 2 + length > size
               THEN at' = "dhcpDone" /\ UNCHANGED cur
               ELSE /\ cur' = cur + 2 + length
                    /\ Proceed("dhcpOption", cur + 2 + (IF length = 1 THEN 1 ELSE 0), size)
    /\ UNCHANGED <<fixed, pos, end, known, frameVars, inner>>

DhcpDone ==
    /\ at = "dhcpDone"
    /\ LastLayer("DHCP", "DHCP")
    /\ UNCHANGED <<fixed, pos, cursors, ipProto, meta, tags, inner>>

-----------------------------------------------------------------------------
DissectorNext ==
    \/ Dissect \/ TooShort \/ Ethernet \/ Vlan \/ OtherEtherType \/ Cooked \/ Arp
    \/ IPv4 \/ IPv6 \/ OtherIp \/ Icmp
    \/ Tcp \/ TcpOption \/ Segment \/ AppTcp
    \/ Http \/ Http2Frame \/ Http2Done \/ Ssh \/ TcpData
    \/ Udp \/ AppUdp \/ UdpPayload \/ Dhcp \/ DhcpOption \/ DhcpDone
    \/ TlsNext /\ UNCHANGED <<dns, hdrLen, service, h2>>
    \/ DnsNext /\ UNCHANGED <<tls, hdrLen, service, h2>>
    \/ Finish /\ UNCHANGED inner

DissectorSpec ==
    DissectorInit /\ [][DissectorNext]_dissectorVars /\ WF_dissectorVars(DissectorNext)

-----------------------------------------------------------------------------
(* What a dissection promises.                                             *)

\* Every reader checks what is left before it indexes the packet (decode/*.go),
\* except one: parseTCPOptions (tcpudp.go:112) reads the value of a window
\* scale that ends the options and claims to have no value.
PanicOnlyAtLastOption ==
    at = "panic" =>
        /\ ipProto = "TCP" /\ layers[Len(layers)].name \in {"IPv4", "IPv6"}
        /\ hdrLen > 20 /\ end = pos + hdrLen /\ cur = end

\* The layers tile the packet in the order the page draws them over the hex
\* dump: each begins where the one before it ended, none reaches behind the
\* captured bytes, only the last may be empty, and an application's reaches
\* the end (the offsets that the dissectX functions hand on to each other).
LayersTile ==
    /\ \A i \in 1 .. Len(layers) :
         /\ layers[i].off = IF i = 1 THEN 0 ELSE layers[i - 1].off + layers[i - 1].len
         /\ layers[i].off + layers[i].len <= size
         /\ i < Len(layers) => layers[i].len > 0
    /\ at = "done" /\ protocol \in {"TLS", "HTTP", "HTTP/2", "SSH", "DNS", "mDNS", "QUIC", "DHCP"} =>
         layers[Len(layers)].off + layers[Len(layers)].len = size

\* A payload gets one fingerprint for every ClientHello that is shown in full,
\* though the two functions walk the message apart and the record loop looks
\* at a handshake type that an earlier record may have left (tls.go:56-61).
Ja3PerHello == at \in {"finish", "done"} => tls.prints = tls.shown

\* Whatever its names point at, an entry of a DNS message takes the reader
\* forward and not behind the message (dns.go:44, :59).
EntriesAdvance ==
    [][at = "named" /\ dns'.i > dns.i => dns.entry < cur' /\ cur' <= size]_dissectorVars

\* A dissection ends: no packet holds up the only goroutine that reads the
\* capture, also not one whose names point at each other.
DissectionEnds == <>(at \in {"done", "panic"})
=============================================================================
