----------------------------- MODULE DnsMessage -----------------------------
(***************************************************************************)
(* dissectDNS: the questions and the answers of one message, and the names *)
(* in them.  A name is labels, each behind its length, up to a zero; a     *)
(* length with its two top bits set is a pointer to where the name goes    *)
(* on, anywhere in the message, also in front of itself.  readDNSName      *)
(* follows at most MaxVisited lengths and returns where the reader goes    *)
(* on: behind the name, or behind its first pointer.                       *)
(***************************************************************************)
EXTENDS Packet

CONSTANTS
    MaxVisited,     \* lengths that readDNSName looks at for one name (64)
    Counts,         \* the numbers of questions and of answers that a header may claim
    Lengths,        \* the bytes that may be found where a name has a label's length
    Pointers,       \* the second bytes that a pointer may have
    RecordTypes     \* the low byte of the types that an answer may have

ASSUME DnsAssumption ==
    /\ MaxVisited \in Nat /\ Counts \subseteq Nat
    /\ Lengths \subseteq Nat /\ Pointers \subseteq Nat /\ RecordTypes \subseteq Nat

VARIABLE dns
\* base      where the message begins (offsets in it are counted from here)
\* qd, an    the claimed numbers of questions and answers
\* i         the loop's counter
\* mdns      the port is 5353
\* part      "question", "answer", or "data" for a name in an answer's data
\* entry     where the entry that is read begins
\* visited, start, jumped    readDNSName's variables of these names
\* next      where the next entry begins, once an answer's header is read

IdleDns == [base |-> 0, qd |-> 0, an |-> 0, i |-> 0, mdns |-> FALSE, part |-> "",
            entry |-> 0, visited |-> 0, start |-> 0, jumped |-> FALSE, next |-> 0]

Pointer == 192      \* the bits that mark a pointer; its six others are zero here
NameTypes == {2, 5, 12}
MailType == 15

dnsRest == <<size, link, pos, end, layers, protocol, ipProto, tags>>

\* Two bytes at offset o of the message, the high one from hi, the low one from lo.
Pairs(o, hi, lo) == {<<h, l>> : h \in Field(o, hi), l \in Field(o + 1, lo)}
Number(p) == 256 * p[1] + p[2]
Know(map, o, p) == Noted(Noted(map, o, p[1]), o + 1, p[2])

-----------------------------------------------------------------------------
DnsHeader ==
    /\ at = "dns"
    /\ IF size - pos < 12
       THEN at' = "finish" /\ UNCHANGED <<cur, known, dns>>
       ELSE \E qd, an \in Counts :
              /\ dns' = [IdleDns EXCEPT !.base = pos, !.qd = qd, !.an = an, !.mdns = dns.mdns,
                                        !.part = "question"]
              /\ known' = Noted(Noted(Noted(Noted(Unread, pos + 4, 0), pos + 5, qd), pos + 6, 0), pos + 7, an)
              /\ cur' = pos + 12
              /\ at' = "entry"
    /\ UNCHANGED <<meta, dnsRest>>

\* The heads of the two loops.
Entry ==
    /\ at = "entry"
    /\ LET wanted == IF dns.part = "question" THEN dns.qd ELSE dns.an
       IN  IF dns.i < wanted /\ cur < size
           THEN /\ at' = "name"
                /\ dns' = [dns EXCEPT !.entry = cur, !.visited = 0, !.start = cur, !.jumped = FALSE]
           ELSE /\ at' = IF dns.part = "question" THEN "entry" ELSE "dnsDone"
                /\ dns' = [dns EXCEPT !.part = "answer", !.i = 0]
    /\ UNCHANGED <<cur, known, meta, dnsRest>>

\* A name's length was looked at.
Looked == [dns EXCEPT !.visited = @ + 1]

\* Bug: the reader goes on behind the last pointer of a name, not the first.
FollowedFromLast == [Looked EXCEPT !.jumped = TRUE, !.start = cur + 2]

\* Bug: only labels count as visited.
FollowedFree ==
    [dns EXCEPT !.jumped = TRUE, !.start = IF dns.jumped THEN @ ELSE cur + 2]

\* A pointer was: the reader will go on behind the first one of the name.
Followed ==
    [Looked EXCEPT !.jumped = TRUE, !.start = IF dns.jumped THEN @ ELSE cur + 2]

\* One turn of the loop of readDNSName.
Name ==
    /\ at = "name"
    /\ IF ~(cur < size /\ dns.visited < MaxVisited)
       THEN at' = "named" /\ UNCHANGED <<cur, known, dns>>
       ELSE \E length \in Field(cur, Lengths) :
              \/ /\ length = 0
                 /\ known' = Noted(known, cur, length)
                 /\ cur' = cur + 1
                 /\ Proceed("named", cur + 1, size)
                 /\ dns' = Looked
              \/ /\ length = Pointer /\ cur + 1 >= size
                 /\ known' = Noted(known, cur, length)
                 /\ Proceed("named", cur + 1, size)
                 /\ dns' = Looked
                 /\ UNCHANGED cur
              \/ /\ length = Pointer /\ cur + 1 < size
                 /\ \E to \in Field(cur + 1, Pointers) :
                      /\ known' = Know(known, cur, <<length, to>>)
                      /\ cur' = dns.base + to
                      /\ Proceed("name", cur + 1, size)
                      /\ dns' = Followed
              \/ /\ length \notin {0, Pointer}
                 /\ known' = Noted(known, cur, length)
                 /\ cur' = IF cur + 1 + length > size THEN cur + 1 ELSE cur + 1 + length
                 /\ Proceed(IF cur + 1 + length > size THEN "named" ELSE "name", cur + 1, size)
                 /\ dns' = Looked
    /\ UNCHANGED <<meta, dnsRest>>

\* What readDNSName returns as the position behind the name.
NameEnd == IF dns.jumped THEN dns.start ELSE cur

Question ==
    /\ at = "named" /\ dns.part = "question"
    /\ IF NameEnd + 4 > size
       THEN /\ dns' = [dns EXCEPT !.part = "answer", !.i = 0]
            /\ cur' = dns.entry
            /\ UNCHANGED meta
       ELSE /\ dns' = [dns EXCEPT !.i = @ + 1]
            /\ cur' = NameEnd + 4
            /\ meta' = meta \cup {"dns_qry"}
    /\ at' = "entry"
    /\ UNCHANGED <<known, dnsRest>>

\* The header of an answer, and formatDNSRdata for its data.
Answer ==
    /\ at = "named" /\ dns.part = "answer"
    /\ LET head == NameEnd
       IN  IF head + 10 > size
           THEN at' = "dnsDone" /\ UNCHANGED <<cur, known, meta, dns>>
           ELSE \E type \in Pairs(head, {0}, RecordTypes), length \in Pairs(head + 8, {0}, Claims(size - head - 10)) :
                  LET data == head + 10
                      skip == IF Number(type) = MailType THEN 2 ELSE 0
                      named == \/ Number(type) \in NameTypes
                               \/ Number(type) = MailType /\ Number(length) >= 3
                  IN  /\ known' = Know(Know(known, head, type), head + 8, length)
                      /\ IF data + Number(length) > size
                         THEN at' = "dnsDone" /\ UNCHANGED <<cur, meta, dns>>
                         ELSE IF named
                         THEN /\ at' = "name"
                              /\ cur' = data + skip
                              /\ dns' = [dns EXCEPT !.part = "data", !.visited = 0, !.jumped = FALSE,
                                                    !.next = data + Number(length)]
                              /\ UNCHANGED meta
                         ELSE /\ at' = "entry"
                              /\ cur' = data + Number(length)
                              /\ dns' = [dns EXCEPT !.i = @ + 1]
                              /\ meta' = meta \cup {"dns_ans"}
    /\ UNCHANGED dnsRest

\* A name in an answer's data does not move the reader.
AnswerNamed ==
    /\ at = "named" /\ dns.part = "data"
    /\ at' = "entry"
    /\ cur' = dns.next
    /\ dns' = [dns EXCEPT !.part = "answer", !.i = @ + 1]
    /\ meta' = meta \cup {"dns_ans"}
    /\ UNCHANGED <<known, dnsRest>>

DnsDone ==
    /\ at = "dnsDone"
    /\ LET name == IF dns.mdns THEN "mDNS" ELSE "DNS" IN LastLayer(name, name)
    /\ tags' = tags \cup {"name-resolution"}
    /\ known' = Unread /\ cur' = 0 /\ dns' = IdleDns
    /\ UNCHANGED <<size, link, pos, end, ipProto, meta>>

DnsNext == DnsHeader \/ Entry \/ Name \/ Question \/ Answer \/ AnswerNamed \/ DnsDone
=============================================================================
