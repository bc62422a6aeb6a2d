-------------------------- MODULE ConversationProofs --------------------------
(***************************************************************************)
(* For every set of frames and all limits: both tables of conversations    *)
(* keep their types, are FIFO, push out only their oldest entries, count   *)
(* the frames of their entries, and agree with each other; a session       *)
(* attributes each of its bytes to one side and lists its first frames.    *)
(***************************************************************************)
EXTENDS Conversations, FiniteSetTheorems, SequenceTheorems, TLAPS

-----------------------------------------------------------------------------
(* A bounded table with its order, the history of its entries, and the     *)
(* number no below which all its entries were made.                        *)

TableInv(table, order, born, limit, no) ==
    /\ IsFiniteSet(DOMAIN table)
    /\ order \in Seq(Keys)
    /\ Fifo(table, order, limit)
    /\ DOMAIN table \subseteq DOMAIN born
    /\ \A k \in DOMAIN table : born[k] = table[k].first
    /\ \A k \in DOMAIN born : born[k] \in Nat /\ born[k] < no
    /\ OldestPushedOut(table, born, limit)

\* When an entry was made; as operators, so that the lemmas apply to any record.
BornAt(c, no) == c.first = no
SameBirth(c, d) == c.first = d.first

\* No conversation is twice in the order: its entries are sorted by first.
LEMMA OrderIsInjective ==
    ASSUME NEW table, NEW order \in Seq(Keys), NEW limit \in Nat,
           Fifo(table, order, limit),
           \A k \in DOMAIN table : table[k].first \in Nat
    PROVE  \A i, j \in 1 .. Len(order) : order[i] = order[j] => i = j
<1> TAKE i, j \in 1 .. Len(order)
<1>1. order[i] \in DOMAIN table /\ order[j] \in DOMAIN table
  BY DEF Fifo
<1>2. table[order[i]].first \in Nat /\ table[order[j]].first \in Nat /\ i \in Nat /\ j \in Nat
  BY <1>1
<1>3. /\ i < j => table[order[i]].first < table[order[j]].first
      /\ j < i => table[order[j]].first < table[order[i]].first
  BY DEF Fifo
<1> QED BY <1>2, <1>3

\* What the order is after an entry: without its head if the table was full,
\* and with the new key at its end.
LEMMA OrderAfterEntry ==
    ASSUME NEW order \in Seq(Keys), NEW k \in Keys, NEW full \in BOOLEAN,
           full => Len(order) > 0,
           NEW o, o = Append(IF full THEN Tail(order) ELSE order, k)
    PROVE  /\ o \in Seq(Keys)
           /\ full => /\ Len(o) = Len(order)
                      /\ \A i \in 1 .. Len(o) - 1 : o[i] = order[i + 1]
           /\ ~full => /\ Len(o) = Len(order) + 1
                       /\ \A i \in 1 .. Len(o) - 1 : o[i] = order[i]
           /\ o[Len(o)] = k
<1>1. CASE full
  <2>1. order # <<>>
    BY <1>1
  <2>2. /\ Tail(order) \in Seq(Keys) /\ Len(Tail(order)) = Len(order) - 1
        /\ \A i \in 1 .. Len(order) - 1 : Tail(order)[i] = order[i + 1]
    BY <2>1, HeadTailProperties
  <2> DEFINE q == Tail(order)
  <2>3. /\ q \in Seq(Keys) /\ Len(q) = Len(order) - 1 /\ o = Append(q, k)
        /\ \A i \in 1 .. Len(order) - 1 : q[i] = order[i + 1]
    BY <2>2, <1>1
  <2> HIDE DEF q
  <2>4. /\ o \in Seq(Keys) /\ Len(o) = Len(q) + 1 /\ o[Len(q) + 1] = k
        /\ \A i \in 1 .. Len(q) : o[i] = q[i]
    <3>1. q \in Seq(Keys) /\ o = Append(q, k)
      BY <2>3
    <3>2. /\ Append(q, k) \in Seq(Keys) /\ Len(Append(q, k)) = Len(q) + 1
          /\ Append(q, k)[Len(q) + 1] = k
          /\ \A i \in 1 .. Len(q) : Append(q, k)[i] = q[i]
      BY <3>1, AppendProperties
    <3> QED BY <3>1, <3>2, Zenon
  <2> QED BY <1>1, <2>3, <2>4
<1>2. CASE ~full
  <2>1. o = Append(order, k)
    BY <1>2
  <2>2. /\ o \in Seq(Keys) /\ Len(o) = Len(order) + 1 /\ o[Len(order) + 1] = k
        /\ \A i \in 1 .. Len(order) : o[i] = order[i]
    BY <2>1, AppendProperties
  <2> QED BY <1>2, <2>2
<1> QED BY <1>1, <1>2

-----------------------------------------------------------------------------
(* An Observe that finds no entry for its key makes one.                   *)
LEMMA NewEntry ==
    ASSUME NEW table, NEW order, NEW born, NEW limit \in Nat \ {0}, NEW no \in Nat,
           TableInv(table, order, born, limit, no),
           NEW k \in Keys, k \notin DOMAIN table,
           NEW c, BornAt(c, no),
           NEW t, t = WithEntry(table, order, limit, k, c),
           NEW o, o = OrderWithEntry(table, order, limit, k),
           NEW b, b = Born(born, table, k, no)
    PROVE  /\ TableInv(t, o, b, limit, no + 1)
           /\ k \in DOMAIN t /\ t[k] = c
           /\ \A j \in DOMAIN t \ {k} : j \in DOMAIN table /\ t[j] = table[j]
<1>0. c.first = no
  BY DEF BornAt
<1> DEFINE full == Full(table, limit)
           out == PushedOut(table, order, limit)
<1>1. /\ IsFiniteSet(DOMAIN table) /\ order \in Seq(Keys) /\ Len(order) \in Nat
      /\ Cardinality(DOMAIN table) = Len(order) /\ Len(order) <= limit
      /\ \A i \in 1 .. Len(order) : order[i] \in DOMAIN table
      /\ \A j \in DOMAIN table : \E i \in 1 .. Len(order) : j = order[i]
      /\ \A i, j \in 1 .. Len(order) : i < j => table[order[i]].first < table[order[j]].first
      /\ \A j \in DOMAIN table : table[j].first \in Nat /\ table[j].first < no
  <2>1. \A j \in DOMAIN table : table[j].first \in Nat /\ table[j].first < no
    BY DEF TableInv
  <2>2. order \in Seq(Keys) /\ Len(order) \in Nat
    BY LenProperties DEF TableInv
  <2> QED BY <2>1, <2>2 DEF TableInv, Fifo
<1>2. \A i, j \in 1 .. Len(order) : order[i] = order[j] => i = j
  BY <1>1, OrderIsInjective DEF TableInv
<1>3. /\ full <=> Len(order) = limit
      /\ full => Len(order) > 0 /\ order[1] \in DOMAIN table
      /\ out = IF full THEN {order[1]} ELSE {}
      /\ full \in BOOLEAN
  BY <1>1 DEF Full, PushedOut
<1> HIDE DEF full, out
<1>4. /\ DOMAIN t = (DOMAIN table \ out) \cup {k}
      /\ t[k] = c
      /\ \A j \in DOMAIN t \ {k} : j \in DOMAIN table /\ t[j] = table[j]
  BY DEF WithEntry, Put, Without, out
<1>5. o = Append(IF full THEN Tail(order) ELSE order, k)
  BY DEF OrderWithEntry, full
<1>6. /\ o \in Seq(Keys)
      /\ full => /\ Len(o) = Len(order)
                 /\ \A i \in 1 .. Len(o) - 1 : o[i] = order[i + 1]
      /\ ~full => /\ Len(o) = Len(order) + 1
                  /\ \A i \in 1 .. Len(o) - 1 : o[i] = order[i]
      /\ o[Len(o)] = k
  BY <1>1, <1>3, <1>5, OrderAfterEntry
<1>7. /\ IsFiniteSet(DOMAIN t)
      /\ Cardinality(DOMAIN t) = Len(o) /\ Len(o) <= limit /\ Len(o) \in Nat \ {0}
  <2>1. CASE full
    <3>1. /\ IsFiniteSet(DOMAIN table \ {order[1]})
          /\ Cardinality(DOMAIN table \ {order[1]}) = Len(order) - 1
      <4>1. IsFiniteSet(DOMAIN table) /\ Cardinality(DOMAIN table) = Len(order)
        BY <1>1
      <4>2. order[1] \in DOMAIN table
        BY <1>3, <2>1
      <4> DEFINE D == DOMAIN table
                 out1 == order[1]
      <4> HIDE DEF D, out1
      <4>3. IsFiniteSet(D) /\ out1 \in D
        BY <4>1, <4>2 DEF D, out1
      <4>4. IsFiniteSet(D \ {out1}) /\ Cardinality(D \ {out1}) = Cardinality(D) - 1
        BY <4>3, FS_RemoveElement
      <4> QED BY <4>1, <4>4 DEF D, out1
    <3>2. /\ IsFiniteSet((DOMAIN table \ {order[1]}) \cup {k})
          /\ Cardinality((DOMAIN table \ {order[1]}) \cup {k}) = Len(order) - 1 + 1
      <4> DEFINE D == DOMAIN table \ {order[1]}
      <4>1. IsFiniteSet(D) /\ Cardinality(D) = Len(order) - 1 /\ k \notin D
        BY <3>1
      <4> HIDE DEF D
      <4>2. IsFiniteSet(D \cup {k}) /\ Cardinality(D \cup {k}) = Cardinality(D) + 1
        BY <4>1, FS_AddElement
      <4>3. IsFiniteSet(D \cup {k}) /\ Cardinality(D \cup {k}) = Len(order) - 1 + 1
        BY <4>1, <4>2
      <4> QED BY <4>3 DEF D
    <3>3. DOMAIN t = (DOMAIN table \ {order[1]}) \cup {k}
      BY <1>3, <1>4, <2>1
    <3> QED BY <1>1, <1>3, <1>6, <2>1, <3>2, <3>3
  <2>2. CASE ~full
    <3>1. /\ IsFiniteSet(DOMAIN table \cup {k})
          /\ Cardinality(DOMAIN table \cup {k}) = Len(order) + 1
      <4> DEFINE D == DOMAIN table
      <4>1. IsFiniteSet(D) /\ Cardinality(D) = Len(order) /\ k \notin D
        BY <1>1
      <4> HIDE DEF D
      <4>2. IsFiniteSet(D \cup {k}) /\ Cardinality(D \cup {k}) = Cardinality(D) + 1
        BY <4>1, FS_AddElement
      <4>3. IsFiniteSet(D \cup {k}) /\ Cardinality(D \cup {k}) = Len(order) + 1
        BY <4>1, <4>2
      <4> QED BY <4>3 DEF D
    <3>2. DOMAIN t = DOMAIN table \cup {k}
      BY <1>3, <1>4, <2>2
    <3> QED BY <1>1, <1>3, <1>6, <2>2, <3>1, <3>2
  <2> QED BY <2>1, <2>2
<1>8. /\ \A i \in 1 .. Len(o) : o[i] \in DOMAIN t
      /\ \A j \in DOMAIN t : \E i \in 1 .. Len(o) : j = o[i]
  <2>1. \A i \in 1 .. Len(o) : o[i] \in DOMAIN t
    <3> TAKE i \in 1 .. Len(o)
    <3>1. CASE i = Len(o)
      BY <1>4, <1>6, <3>1
    <3>2. CASE i # Len(o) /\ full
      <4>1. i + 1 \in 1 .. Len(order) /\ o[i] = order[i + 1] /\ i + 1 # 1
        BY <1>6, <1>7, <3>2
      <4>2. order[i + 1] \in DOMAIN table /\ order[i + 1] # order[1]
        BY <1>1, <1>2, <1>3, <3>2, <4>1
      <4> QED BY <1>3, <1>4, <3>2, <4>1, <4>2
    <3>3. CASE i # Len(o) /\ ~full
      <4>1. i \in 1 .. Len(order) /\ o[i] = order[i]
        BY <1>1, <1>6, <1>7, <3>3
      <4> QED BY <1>1, <1>3, <1>4, <3>3, <4>1
    <3> QED BY <3>1, <3>2, <3>3
  <2>2. \A j \in DOMAIN t : \E i \in 1 .. Len(o) : j = o[i]
    <3> TAKE j \in DOMAIN t
    <3>1. CASE j = k
      BY <1>6, <1>7, <3>1
    <3>2. CASE j # k
      <4>1. j \in DOMAIN table /\ j \notin out
        BY <1>4, <3>2
      <4>2. PICK n \in 1 .. Len(order) : j = order[n]
        BY <1>1, <4>1
      <4>3. CASE full
        <5>1. n # 1
          BY <1>3, <4>1, <4>2, <4>3
        <5>2. n - 1 \in 1 .. Len(o) - 1 /\ o[n - 1] = order[(n - 1) + 1] /\ (n - 1) + 1 = n
          BY <1>1, <1>6, <1>7, <4>3, <5>1
        <5> QED BY <4>2, <5>2, <1>7
      <4>4. CASE ~full
        BY <1>1, <1>6, <4>2, <4>4
      <4> QED BY <4>3, <4>4
    <3> QED BY <3>1, <3>2
  <2> QED BY <2>1, <2>2
<1>9. \A i, j \in 1 .. Len(o) : i < j => t[o[i]].first < t[o[j]].first
  <2> DEFINE from(i) == IF full THEN i + 1 ELSE i
  <2>1. \A i \in 1 .. Len(o) - 1 :
           /\ from(i) \in 1 .. Len(order) /\ o[i] = order[from(i)]
           /\ o[i] \in DOMAIN table /\ o[i] # k /\ t[o[i]] = table[o[i]]
    <3> TAKE i \in 1 .. Len(o) - 1
    <3>1. from(i) \in 1 .. Len(order) /\ o[i] = order[from(i)]
      BY <1>1, <1>6, <1>7
    <3>2. o[i] \in DOMAIN table /\ i \in 1 .. Len(o)
      BY <1>1, <1>7, <3>1
    <3>3. o[i] \in DOMAIN t
      BY <1>8, <3>2
    <3> QED BY <1>4, <3>1, <3>2, <3>3
  <2>2. \A i, j \in 1 .. Len(o) - 1 : i < j => from(i) < from(j)
    BY <1>7
  <2> HIDE DEF from
  <2> TAKE i, j \in 1 .. Len(o)
  <2> HAVE i < j
  <2>3. i \in 1 .. Len(o) - 1
    BY <1>7
  <2>4. CASE j = Len(o)
    <3>1. t[o[j]] = c
      BY <1>4, <1>6, <2>4
    <3>2. t[o[i]] = table[o[i]] /\ table[o[i]].first < no /\ table[o[i]].first \in Nat
      BY <1>1, <2>1, <2>3
    <3>3. t[o[j]].first = no
      BY <1>0, <3>1
    <3>4. t[o[i]].first = table[o[i]].first
      BY <3>2
    <3> QED BY <3>2, <3>3, <3>4
  <2>5. CASE j # Len(o)
    <3>1. j \in 1 .. Len(o) - 1
      BY <1>7, <2>5
    <3>2. from(i) \in 1 .. Len(order) /\ from(j) \in 1 .. Len(order) /\ from(i) < from(j)
      BY <2>1, <2>2, <2>3, <3>1
    <3>3. table[order[from(i)]].first < table[order[from(j)]].first
      BY <1>1, <3>2
    <3>4. /\ t[o[i]] = table[order[from(i)]] /\ t[o[j]] = table[order[from(j)]]
      BY <2>1, <2>3, <3>1
    <3> QED BY <3>3, <3>4
  <2> QED BY <2>4, <2>5
<1>10. Fifo(t, o, limit)
  BY <1>7, <1>8, <1>9 DEF Fifo
<1>11. /\ DOMAIN b = DOMAIN born \cup {k} /\ b[k] = no
       /\ \A j \in DOMAIN born \ {k} : b[j] = born[j]
  BY DEF Born, Put
<1>12. /\ DOMAIN t \subseteq DOMAIN b
       /\ \A j \in DOMAIN t : b[j] = t[j].first
       /\ \A j \in DOMAIN b : b[j] \in Nat /\ b[j] < no + 1
  BY <1>0, <1>4, <1>11 DEF TableInv
<1>13. OldestPushedOut(t, b, limit)
  <2> SUFFICES ASSUME NEW j \in DOMAIN b \ DOMAIN t
               PROVE  /\ Cardinality(DOMAIN t) = limit
                      /\ \A i \in DOMAIN t : b[j] < t[i].first
    BY DEF OldestPushedOut
  <2>1. j # k /\ j \in DOMAIN born /\ b[j] = born[j] /\ born[j] \in Nat /\ born[j] < no
    BY <1>4, <1>11 DEF TableInv
  <2>2. CASE j \notin DOMAIN table
    <3>1. Len(order) = limit /\ \A i \in DOMAIN table : born[j] < table[i].first
      BY <1>1, <2>1, <2>2 DEF TableInv, OldestPushedOut
    <3> QED BY <1>0, <1>3, <1>4, <1>6, <1>7, <2>1, <3>1
  <2>3. CASE j \in DOMAIN table
    <3>1. full /\ j = order[1]
      BY <1>3, <1>4, <2>1, <2>3
    <3>2. born[j] = table[order[1]].first
      BY <2>3, <3>1 DEF TableInv
    <3>3. \A i \in DOMAIN t \ {k} : born[j] < t[i].first
      <4> TAKE i \in DOMAIN t \ {k}
      <4>1. i \in DOMAIN table /\ t[i] = table[i] /\ i # order[1]
        BY <1>3, <1>4, <3>1
      <4>2. PICK n \in 1 .. Len(order) : i = order[n]
        BY <1>1, <4>1
      <4>3. 1 \in 1 .. Len(order) /\ 1 < n
        BY <1>1, <1>3, <3>1, <4>1, <4>2
      <4> QED BY <1>1, <3>2, <4>1, <4>2, <4>3
    <3> QED BY <1>0, <1>3, <1>4, <1>6, <1>7, <2>1, <3>1, <3>3
  <2> QED BY <2>2, <2>3
<1> QED BY <1>4, <1>6, <1>7, <1>10, <1>12, <1>13 DEF TableInv

-----------------------------------------------------------------------------
(* Counting a frame in an entry keeps the entry's birth, and the table.    *)
LEMMA CountedEntry ==
    ASSUME NEW table, NEW order, NEW born, NEW limit \in Nat \ {0}, NEW no \in Nat,
           TableInv(table, order, born, limit, no),
           NEW k \in DOMAIN table, NEW c, SameBirth(c, table[k])
    PROVE  /\ TableInv(Put(table, k, c), order, born, limit, no)
           /\ DOMAIN Put(table, k, c) = DOMAIN table
           /\ Put(table, k, c)[k] = c
           /\ \A j \in DOMAIN table \ {k} : Put(table, k, c)[j] = table[j]
<1> DEFINE t == Put(table, k, c)
<1>1. /\ DOMAIN t = DOMAIN table /\ t[k] = c
      /\ \A j \in DOMAIN table \ {k} : t[j] = table[j]
  BY DEF Put
<1> HIDE DEF t
<1>2. \A j \in DOMAIN table : t[j].first = table[j].first
  BY <1>1 DEF SameBirth
<1>3. Fifo(t, order, limit)
  <2>1. \A i \in 1 .. Len(order) : order[i] \in DOMAIN table
    BY DEF TableInv, Fifo
  <2> QED BY <1>1, <1>2, <2>1 DEF TableInv, Fifo
<1>4. OldestPushedOut(t, born, limit)
  BY <1>1, <1>2 DEF TableInv, OldestPushedOut
<1>5. TableInv(t, order, born, limit, no)
  BY <1>1, <1>2, <1>3, <1>4 DEF TableInv
<1> QED BY <1>1, <1>5 DEF t

\* What an Observe does at frame no: find or make the entry new of key k, and
\* replace it by c.
Observing(table, order, born, limit, no, k, new, c) ==
    /\ TableInv(table, order, born, limit, no)
    /\ limit \in Nat \ {0} /\ no \in Nat /\ k \in Keys
    /\ BornAt(new, no)
    /\ SameBirth(c, WithEntry(table, order, limit, k, new)[k])

\* A whole Observe, with an entry for the key already or not.
LEMMA ObservedEntry ==
    ASSUME NEW table, NEW order, NEW born, NEW limit, NEW no, NEW k, NEW new, NEW c,
           Observing(table, order, born, limit, no, k, new, c),
           NEW t, t = WithEntry(table, order, limit, k, new),
           NEW u, u = Put(t, k, c),
           NEW o, o = OrderWithEntry(table, order, limit, k),
           NEW b, b = Born(born, table, k, no)
    PROVE  /\ TableInv(u, o, b, limit, no + 1)
           /\ k \in DOMAIN u /\ u[k] = c
           /\ \A j \in DOMAIN u \ {k} : j \in DOMAIN table /\ u[j] = table[j]
<1>0. /\ TableInv(table, order, born, limit, no)
      /\ limit \in Nat \ {0} /\ no \in Nat /\ k \in Keys
      /\ BornAt(new, no) /\ SameBirth(c, t[k])
  BY DEF Observing
<1>1. CASE k \in DOMAIN table
  <2>1. t = table /\ o = order /\ b = born
    BY <1>1 DEF WithEntry, OrderWithEntry, Born
  <2>2. TableInv(t, o, b, limit, no + 1) /\ k \in DOMAIN t
    BY <1>0, <1>1, <2>1 DEF TableInv
  <2>3. no + 1 \in Nat
    BY <1>0
  <2>4. /\ TableInv(u, o, b, limit, no + 1)
        /\ DOMAIN u = DOMAIN t /\ u[k] = c
        /\ \A j \in DOMAIN t \ {k} : u[j] = t[j]
    BY <1>0, <2>2, <2>3, CountedEntry
  <2> QED BY <1>1, <2>1, <2>4
<1>2. CASE k \notin DOMAIN table
  <2>1. /\ TableInv(t, o, b, limit, no + 1)
        /\ k \in DOMAIN t /\ t[k] = new
        /\ \A j \in DOMAIN t \ {k} : j \in DOMAIN table /\ t[j] = table[j]
    BY <1>0, <1>2, NewEntry
  <2>2. TableInv(t, o, b, limit, no + 1) /\ k \in DOMAIN t /\ no + 1 \in Nat
    BY <1>0, <2>1
  <2>3. /\ TableInv(u, o, b, limit, no + 1)
        /\ DOMAIN u = DOMAIN t /\ u[k] = c
        /\ \A j \in DOMAIN t \ {k} : u[j] = t[j]
    BY <1>0, <2>2, CountedEntry
  <2> QED BY <1>2, <2>1, <2>3
<1> QED BY <1>1, <1>2

-----------------------------------------------------------------------------
(* The inductive invariant of both tables.                                 *)

\* The number no entry of the player has reached: the frame that only the
\* tracker has observed is not among them.
PlayerNo == IF current THEN Len(seen) ELSE Len(seen) + 1

\* A session is between the two addresses of its key.
EndsOfKey(a, b, k) == (a = k[2] /\ b = k[4]) \/ (a = k[4] /\ b = k[2])

ConvInv ==
    /\ ConvTypeOK
    /\ current => Len(seen) > 0
    /\ TableInv(flows, flowOrder, flowBorn, TrackerLimit, Len(seen) + 1)
    /\ TableInv(sessions, sessionOrder, sessionBorn, PlayerLimit, PlayerNo)
    /\ \A k \in DOMAIN sessions : EndsOfKey(sessions[k].src, sessions[k].dst, k)
    /\ BytesOnOneSide

\* flowKey names the two addresses of its frame.
LEMMA KeyHasEnds == \A f \in Frames : KeyOf(f) \in Keys /\ EndsOfKey(f.src, f.dst, KeyOf(f))
  BY DEF KeyOf, Keys, EndsOfKey

\* An empty table is a table.
LEMMA EmptyTable ==
    ASSUME NEW limit \in Nat \ {0}, NEW no \in Nat
    PROVE  TableInv(Empty, <<>>, Empty, limit, no)
<1>1. DOMAIN Empty = {} /\ Len(<<>>) = 0 /\ <<>> \in Seq(Keys) /\ 1 .. 0 = {}
  BY EmptySeq DEF Empty
<1>2. IsFiniteSet(DOMAIN Empty) /\ Cardinality(DOMAIN Empty) = 0
  BY <1>1, FS_EmptySet
<1>3. Fifo(Empty, <<>>, limit)
  BY <1>1, <1>2 DEF Fifo
<1> QED BY <1>1, <1>2, <1>3 DEF TableInv, OldestPushedOut

LEMMA ConvInitEstablishesInv == ConvInit => ConvInv
<1> SUFFICES ASSUME ConvInit PROVE ConvInv
  OBVIOUS
<1>1. TrackerLimit \in Nat \ {0} /\ PlayerLimit \in Nat \ {0}
  BY LimitsAssumption
<1>2. Len(seen) = 0 /\ Len(seen) + 1 = 1 /\ PlayerNo = 1 /\ ~current
  BY EmptySeq DEF ConvInit, PlayerNo
<1>3. /\ TableInv(flows, flowOrder, flowBorn, TrackerLimit, Len(seen) + 1)
      /\ TableInv(sessions, sessionOrder, sessionBorn, PlayerLimit, PlayerNo)
  BY <1>1, <1>2, EmptyTable DEF ConvInit
<1>4. DOMAIN flows = {} /\ DOMAIN sessions = {}
  BY DEF ConvInit, Empty
<1>5. seen \in Seq(Frames) /\ flowOrder \in Seq(Keys) /\ sessionOrder \in Seq(Keys)
  BY EmptySeq DEF ConvInit
<1> QED BY <1>2, <1>3, <1>4, <1>5 DEF ConvInv, ConvTypeOK, BytesOnOneSide, ConvInit

\* What counting makes of a well-typed entry.
LEMMA CountFlowType ==
    ASSUME NEW c \in FlowType, NEW f \in Frames, NEW no \in Nat
    PROVE  CountFlow(c, f, no) \in FlowType /\ SameBirth(CountFlow(c, f, no), c)
<1>1. f.length \in Nat /\ f.flags \in SUBSET Flags
  BY FramesAssumption DEF FrameType
<1>2. c.packets + 1 \in Nat /\ c.bytes + f.length \in Nat /\ c.flags \cup f.flags \in SUBSET Flags
  BY <1>1 DEF FlowType
<1> DEFINE app == IF f.app \in SessionApps \cup {"SSH"} THEN f.app ELSE c.app
<1>3. app \in AppNames
  BY DEF FlowType, AppNames
<1>4. CountFlow(c, f, no) =
        [c EXCEPT !.packets = c.packets + 1, !.bytes = c.bytes + f.length, !.last = no,
                  !.flags = c.flags \cup f.flags, !.app = app]
  BY DEF CountFlow, FlowType
<1> HIDE DEF app
<1> QED BY <1>2, <1>3, <1>4 DEF FlowType, SameBirth

LEMMA CountSessionType ==
    ASSUME NEW s \in SessionType, NEW f \in Frames, NEW no \in Nat
    PROVE  /\ CountSession(s, f, no) \in SessionType
           /\ SameBirth(CountSession(s, f, no), s)
           /\ CountSession(s, f, no).src = s.src
           /\ CountSession(s, f, no).dst = s.dst
<1>1. f.length \in Nat
  BY FramesAssumption DEF FrameType
<1> DEFINE side == Side(s, f)
           ev == [frame |-> no, kind |-> Classify(f), dir |-> side]
           nos == IF RoomFor(s.frameNos, MaxFr) THEN Append(s.frameNos, no) ELSE s.frameNos
           evs == IF Classify(f) # "" /\ RoomFor(s.events, MaxEv)
                  THEN Append(s.events, ev) ELSE s.events
           app == IF f.app \in SessionApps \cup {"SSH", "DHCP"} THEN f.app ELSE s.app
           client == IF side = "c2s" THEN s.clientBytes + f.length ELSE s.clientBytes
           server == IF side = "s2c" THEN s.serverBytes + f.length ELSE s.serverBytes
<1>2. ev \in EventType
  BY DEF Side, Classify, EventType
<1>3. nos \in Seq(Nat) /\ evs \in Seq(EventType)
  <2> HIDE DEF ev
  <2> QED BY <1>2, AppendProperties DEF SessionType
<1>4. app \in AppNames /\ client \in Nat /\ server \in Nat
  <2>1. s.app \in AppNames /\ s.clientBytes \in Nat /\ s.serverBytes \in Nat
    BY DEF SessionType
  <2> HIDE DEF side, ev, nos, evs
  <2>2. app \in AppNames
    BY <2>1 DEF AppNames
  <2>3. client \in Nat /\ server \in Nat
    BY <1>1, <2>1
  <2> QED BY <2>2, <2>3
<1>5. CountSession(s, f, no) =
        [s EXCEPT !.packets = s.packets + 1, !.bytes = s.bytes + f.length, !.last = no,
                  !.app = app, !.frameNos = nos, !.clientBytes = client,
                  !.serverBytes = server, !.events = evs]
  BY DEF CountSession, SessionType
<1> HIDE DEF nos, evs, app, client, server
<1>6. s.packets + 1 \in Nat /\ s.bytes + f.length \in Nat
  BY <1>1 DEF SessionType
<1> DEFINE s2 == [s EXCEPT !.packets = s.packets + 1, !.bytes = s.bytes + f.length, !.last = no,
                            !.app = app, !.frameNos = nos, !.clientBytes = client,
                            !.serverBytes = server, !.events = evs]
<1>7. s2 \in SessionType
  BY <1>3, <1>4, <1>6 DEF SessionType
<1>8. SameBirth(s2, s) /\ s2.src = s.src /\ s2.dst = s.dst
  BY DEF SessionType, SameBirth
<1>9. CountSession(s, f, no) = s2
  BY <1>5
<1> HIDE DEF s2
<1> QED BY <1>7, <1>8, <1>9

\* A frame of a session adds its length to one of its sides.
LEMMA CountSessionBytes ==
    ASSUME NEW s \in SessionType, NEW f \in Frames, NEW no \in Nat, NEW k,
           EndsOfKey(s.src, s.dst, k), EndsOfKey(f.src, f.dst, k),
           s.clientBytes + s.serverBytes = s.bytes
    PROVE  CountSession(s, f, no).clientBytes + CountSession(s, f, no).serverBytes
             = CountSession(s, f, no).bytes
<1>1. f.length \in Nat /\ s.clientBytes \in Nat /\ s.serverBytes \in Nat /\ s.bytes \in Nat
  BY FramesAssumption DEF FrameType, SessionType
<1>2. Side(s, f) = "c2s" \/ Side(s, f) = "s2c"
  BY DEF Side, EndsOfKey
<1>3. /\ CountSession(s, f, no).bytes = s.bytes + f.length
      /\ CountSession(s, f, no).clientBytes =
            IF Side(s, f) = "c2s" THEN s.clientBytes + f.length ELSE s.clientBytes
      /\ CountSession(s, f, no).serverBytes =
            IF Side(s, f) = "s2c" THEN s.serverBytes + f.length ELSE s.serverBytes
  BY DEF CountSession, SessionType
<1> QED BY <1>1, <1>2, <1>3

-----------------------------------------------------------------------------
LEMMA TrackerStep ==
    ASSUME ConvInv, NEW f \in Frames, TrackerObserve(f)
    PROVE  ConvInv'
<1> DEFINE no == Len(seen) + 1
           k == KeyOf(f)
           t == WithEntry(flows, flowOrder, TrackerLimit, k, NewFlow(f, no))
           c == CountFlow(t[k], f, no)
<1>1. no \in Nat /\ k \in Keys /\ TrackerLimit \in Nat \ {0} /\ Len(seen) \in Nat
  BY KeyHasEnds, LimitsAssumption, LenProperties DEF ConvInv, ConvTypeOK
<1>2. NewFlow(f, no) \in FlowType /\ BornAt(NewFlow(f, no), no)
  <2>1. f.src \in Nat /\ f.dst \in Nat
    BY FramesAssumption DEF FrameType
  <2> QED BY <1>1, <2>1 DEF NewFlow, FlowType, AppNames, BornAt
<1>3. t[k] = IF k \in DOMAIN flows THEN flows[k] ELSE NewFlow(f, no)
  BY DEF WithEntry, Put
<1>4. t[k] \in FlowType
  BY <1>2, <1>3 DEF ConvInv, ConvTypeOK
<1>5. c \in FlowType /\ SameBirth(c, t[k])
  BY <1>1, <1>4, CountFlowType
<1>6. /\ flows' = Put(t, k, c)
      /\ flowOrder' = OrderWithEntry(flows, flowOrder, TrackerLimit, k)
      /\ flowBorn' = Born(flowBorn, flows, k, no)
      /\ seen' = Append(seen, f) /\ current' = TRUE /\ ~current
      /\ UNCHANGED playerVars
  BY DEF TrackerObserve
<1>7. TableInv(flows, flowOrder, flowBorn, TrackerLimit, no)
  BY DEF ConvInv
<1> HIDE DEF no, k, c
<1>8. /\ TableInv(flows', flowOrder', flowBorn', TrackerLimit, no + 1)
      /\ k \in DOMAIN flows' /\ flows'[k] = c
      /\ \A j \in DOMAIN flows' \ {k} : j \in DOMAIN flows /\ flows'[j] = flows[j]
  <2> DEFINE new == NewFlow(f, no)
  <2>1. /\ t = WithEntry(flows, flowOrder, TrackerLimit, k, new)
        /\ flows' = Put(t, k, c)
        /\ flowOrder' = OrderWithEntry(flows, flowOrder, TrackerLimit, k)
        /\ flowBorn' = Born(flowBorn, flows, k, no)
    BY <1>6
  <2>2. BornAt(new, no) /\ SameBirth(c, t[k])
    BY <1>2, <1>5
  <2>3. Observing(flows, flowOrder, flowBorn, TrackerLimit, no, k, new, c)
    BY <1>1, <1>7, <2>1, <2>2 DEF Observing
  <2> HIDE DEF t, new
  <2> QED BY <2>1, <2>3, ObservedEntry
<1>9. seen' \in Seq(Frames) /\ Len(seen') = no /\ Len(seen') > 0 /\ PlayerNo' = no /\ PlayerNo = no
  <2>1. seen' \in Seq(Frames) /\ Len(seen') = Len(seen) + 1
    BY <1>6, AppendProperties DEF ConvInv, ConvTypeOK
  <2> QED BY <1>1, <1>6, <2>1 DEF PlayerNo, no
<1>10. ConvTypeOK'
  <2>1. flowOrder' \in Seq(Keys) /\ DOMAIN flows' \subseteq Keys
    BY <1>1, <1>8 DEF TableInv, ConvInv, ConvTypeOK
  <2>2. \A j \in DOMAIN flows' : flows'[j] \in FlowType
    BY <1>5, <1>8 DEF ConvInv, ConvTypeOK
  <2> QED BY <1>6, <1>9, <2>1, <2>2 DEF ConvInv, ConvTypeOK, playerVars
<1>11. TableInv(sessions', sessionOrder', sessionBorn', PlayerLimit, PlayerNo')
  BY <1>6, <1>9 DEF ConvInv, playerVars
<1>12. /\ \A j \in DOMAIN sessions' : EndsOfKey(sessions'[j].src, sessions'[j].dst, j)
       /\ BytesOnOneSide'
  BY <1>6 DEF ConvInv, BytesOnOneSide, playerVars
<1> QED BY <1>8, <1>9, <1>10, <1>11, <1>12 DEF ConvInv

LEMMA PlayerStep ==
    ASSUME ConvInv, PlayerObserve
    PROVE  ConvInv'
<1> DEFINE no == Len(seen)
           f == seen[no]
           k == KeyOf(f)
           t == WithEntry(sessions, sessionOrder, PlayerLimit, k, NewSession(f, no))
           s == CountSession(t[k], f, no)
<1>1. /\ no \in Nat /\ no > 0 /\ f \in Frames /\ PlayerLimit \in Nat \ {0}
      /\ current /\ current' = FALSE /\ seen' = seen /\ PlayerNo = no /\ PlayerNo' = no + 1
  BY LimitsAssumption, LenProperties, ElementOfSeq DEF ConvInv, ConvTypeOK, PlayerObserve, PlayerNo
<1>2. /\ UNCHANGED trackerVars
      /\ TableInv(flows', flowOrder', flowBorn', TrackerLimit, Len(seen') + 1)
  BY <1>1 DEF ConvInv, PlayerObserve, trackerVars
<1>3. CASE Playable(f)
  <2>1. /\ sessions' = Put(t, k, s)
        /\ sessionOrder' = OrderWithEntry(sessions, sessionOrder, PlayerLimit, k)
        /\ sessionBorn' = Born(sessionBorn, sessions, k, no)
    BY <1>3 DEF PlayerObserve
  <2>2. k \in Keys /\ EndsOfKey(f.src, f.dst, k)
    BY <1>1, KeyHasEnds
  <2> HIDE DEF no, f, k
  <2>3. /\ NewSession(f, no) \in SessionType /\ BornAt(NewSession(f, no), no)
        /\ NewSession(f, no).src = f.src /\ NewSession(f, no).dst = f.dst
        /\ NewSession(f, no).clientBytes + NewSession(f, no).serverBytes = NewSession(f, no).bytes
    <3>1. <<>> \in Seq(Nat) /\ <<>> \in Seq(EventType)
      BY EmptySeq
    <3>2. f.src \in Nat /\ f.dst \in Nat
      BY <1>1, FramesAssumption DEF FrameType
    <3> QED BY <1>1, <3>1, <3>2 DEF NewSession, SessionType, AppNames, BornAt
  <2>4. t[k] = IF k \in DOMAIN sessions THEN sessions[k] ELSE NewSession(f, no)
    BY DEF WithEntry, Put
  <2>5. /\ t[k] \in SessionType /\ EndsOfKey(t[k].src, t[k].dst, k)
        /\ t[k].clientBytes + t[k].serverBytes = t[k].bytes
    BY <2>2, <2>3, <2>4 DEF ConvInv, ConvTypeOK, BytesOnOneSide
  <2> HIDE DEF t
  <2>6. /\ s \in SessionType /\ SameBirth(s, t[k]) /\ s.src = t[k].src /\ s.dst = t[k].dst
        /\ s.clientBytes + s.serverBytes = s.bytes
    BY <1>1, <2>2, <2>5, CountSessionType, CountSessionBytes
  <2> HIDE DEF s
  <2>7. /\ TableInv(sessions', sessionOrder', sessionBorn', PlayerLimit, no + 1)
        /\ k \in DOMAIN sessions' /\ sessions'[k] = s
        /\ \A j \in DOMAIN sessions' \ {k} : j \in DOMAIN sessions /\ sessions'[j] = sessions[j]
    <3> DEFINE new == NewSession(f, no)
    <3>1. t = WithEntry(sessions, sessionOrder, PlayerLimit, k, new)
      BY DEF t
    <3>2. TableInv(sessions, sessionOrder, sessionBorn, PlayerLimit, no)
      BY <1>1 DEF ConvInv, no
    <3>3. BornAt(new, no) /\ SameBirth(s, t[k])
      BY <2>3, <2>6
    <3>4. Observing(sessions, sessionOrder, sessionBorn, PlayerLimit, no, k, new, s)
      BY <1>1, <2>2, <3>1, <3>2, <3>3 DEF Observing, no
    <3> HIDE DEF new
    <3> QED BY <2>1, <3>1, <3>4, ObservedEntry
  <2>8. ConvTypeOK'
    <3>1. sessionOrder' \in Seq(Keys) /\ DOMAIN sessions' \subseteq Keys
      BY <2>2, <2>7 DEF TableInv, ConvInv, ConvTypeOK
    <3>2. \A j \in DOMAIN sessions' : sessions'[j] \in SessionType
      BY <2>6, <2>7 DEF ConvInv, ConvTypeOK
    <3> QED BY <1>1, <1>2, <3>1, <3>2 DEF ConvInv, ConvTypeOK, trackerVars
  <2>9. \A j \in DOMAIN sessions' : EndsOfKey(sessions'[j].src, sessions'[j].dst, j)
    BY <2>5, <2>6, <2>7 DEF ConvInv
  <2>10. BytesOnOneSide'
    BY <2>6, <2>7 DEF ConvInv, BytesOnOneSide
  <2> QED BY <1>1, <1>2, <2>7, <2>8, <2>9, <2>10 DEF ConvInv
<1>4. CASE ~Playable(f)
  <2>1. UNCHANGED playerVars
    BY <1>4 DEF PlayerObserve
  <2>2. TableInv(sessions', sessionOrder', sessionBorn', PlayerLimit, no + 1)
    BY <1>1, <2>1 DEF ConvInv, TableInv, playerVars
  <2> HIDE DEF no, f
  <2>3. ConvTypeOK' /\ BytesOnOneSide'
    BY <1>1, <1>2, <2>1 DEF ConvInv, ConvTypeOK, BytesOnOneSide, playerVars, trackerVars
  <2>4. \A j \in DOMAIN sessions' : EndsOfKey(sessions'[j].src, sessions'[j].dst, j)
    BY <2>1 DEF ConvInv, playerVars
  <2> QED BY <1>1, <1>2, <2>2, <2>3, <2>4 DEF ConvInv
<1> QED BY <1>3, <1>4

-----------------------------------------------------------------------------
(* The theorems.                                                           *)

\* The parts together are inductive.
THEOREM ConvInvariance == ConvSpec => []ConvInv
<1>1. ConvInv /\ [ConvNext]_convVars => ConvInv'
  <2> SUFFICES ASSUME ConvInv, [ConvNext]_convVars PROVE ConvInv'
    OBVIOUS
  <2>1. ASSUME NEW f \in Frames, TrackerObserve(f) PROVE ConvInv'
    BY <2>1, TrackerStep
  <2>2. CASE PlayerObserve
    BY <2>2, PlayerStep
  <2>3. CASE UNCHANGED convVars
    BY <2>3 DEF convVars, trackerVars, playerVars, ConvInv, ConvTypeOK, TableInv, Fifo,
                OldestPushedOut, PlayerNo, BytesOnOneSide
  <2> QED BY <2>1, <2>2, <2>3 DEF ConvNext
<1> QED BY <1>1, ConvInitEstablishesInv, PTL DEF ConvSpec

\* No field of the two tables leaves its type.
THEOREM ConvTyping == ConvSpec => []ConvTypeOK
<1>1. ConvInv => ConvTypeOK
  BY DEF ConvInv
<1> QED BY <1>1, ConvInvariance, PTL

\* Each table and its order list the same conversations, oldest first, at most
\* as many as its limit, for all limits.
THEOREM ConvTablesAreFifo == ConvSpec => []TablesAreFifo
<1>1. ConvInv => TablesAreFifo
  BY DEF ConvInv, TableInv, TablesAreFifo
<1> QED BY <1>1, ConvInvariance, PTL

\* What is not listed any more was older than all that is.
THEOREM ConvPushedOutAreOldest == ConvSpec => []PushedOutAreOldest
<1>1. ConvInv => PushedOutAreOldest
  BY DEF ConvInv, TableInv, PushedOutAreOldest
<1> QED BY <1>1, ConvInvariance, PTL

\* Every byte of a session is attributed to one of its two sides.
THEOREM ConvBytesOnOneSide == ConvSpec => []BytesOnOneSide
<1>1. ConvInv => BytesOnOneSide
  BY DEF ConvInv
<1> QED BY <1>1, ConvInvariance, PTL

-----------------------------------------------------------------------------
(* What an entry has counted.                                              *)

\* What frame i adds to the bytes of k.
LengthIn(log, k, i) == IF KeyOf(log[i]) = k THEN log[i].length ELSE 0

\* sum gives the bytes of k from frame number first up to each frame.
PartialSums(log, k, first, to, sum) ==
    sum = [i \in first - 1 .. to |->
              IF i < first THEN 0 ELSE sum[i - 1] + LengthIn(log, k, i)]

\* bytes is the sum of the lengths of the frames of k from number first to number
\* to.  That there are partial sums, and that all end in bytes, is proved along with
\* the rest of the invariant: a recursive function has its value by this.
SumsTo(log, k, first, to, bytes) ==
    /\ \E sum : PartialSums(log, k, first, to, sum)
    /\ \A sum : PartialSums(log, k, first, to, sum) => sum[to] = bytes

FlagsIn(log, S) == UNION {log[i].flags : i \in S}

FlowTotals(c, k, log, to) ==
    /\ c.packets = Cardinality(FramesIn(log, k, c.first, to))
    /\ c.flags = FlagsIn(log, FramesIn(log, k, c.first, to))
    /\ SumsTo(log, k, c.first, to, c.bytes)

LatestIs(no, S) == no \in S /\ \A i \in S : i <= no

\* An entry was made for a frame of its conversation.
EnteredBy(c, k, log, to) == c.first \in 1 .. to /\ KeyOf(log[c.first]) = k

SessionTotals(s, k, log, to) ==
    /\ s.packets = Cardinality(FramesIn(log, k, s.first, to))
    /\ ListsFirst(s.frameNos, FramesIn(log, k, s.first, to), MaxFr)
    /\ ListsFirst(EventFrames(s), BeatsIn(log, FramesIn(log, k, s.first, to)), MaxEv)

\* What the player has still to count in k.
LagBytes(k) ==
    IF current /\ KeyOf(seen[Len(seen)]) = k THEN seen[Len(seen)].length ELSE 0

CountInv ==
    /\ \A k \in DOMAIN flows :
          /\ EnteredBy(flows[k], k, seen, Len(seen))
          /\ FlowTotals(flows[k], k, seen, Len(seen))
          /\ LatestIs(flows[k].last, FramesIn(seen, k, flows[k].first, Len(seen)))
    /\ \A k \in DOMAIN sessions :
          /\ EnteredBy(sessions[k], k, seen, PlayerNo - 1)
          /\ Playable(seen[sessions[k].first])
          /\ SessionTotals(sessions[k], k, seen, PlayerNo - 1)
    /\ \A k \in DOMAIN flows \cap DOMAIN sessions :
          flows[k].first = sessions[k].first => flows[k].bytes = sessions[k].bytes + LagBytes(k)

\* The frames of one conversation are all IP or none is.
LEMMA PlayableByKey ==
    ASSUME NEW f \in Frames, NEW g \in Frames, KeyOf(f) = KeyOf(g), Playable(g)
    PROVE  Playable(f)
<1>1. KeyOf(f)[1] = KeyOf(g)[1]
  OBVIOUS
<1>2. \A h \in Frames : KeyOf(h)[1] = IF h.ipProto = "" THEN h.app ELSE h.ipProto
  BY DEF KeyOf
<1>3. \A h \in Frames : Playable(h) <=> h.ipProto # ""
  BY FramesAssumption DEF Playable
<1> QED BY <1>1, <1>2, <1>3, FramesAssumption

\* The frames up to the next one.
LEMMA NextFrame ==
    ASSUME NEW log, NEW k, NEW first \in Nat, NEW no \in Nat, first <= no
    PROVE  FramesIn(log, k, first, no) =
             FramesIn(log, k, first, no - 1) \cup (IF KeyOf(log[no]) = k THEN {no} ELSE {})
<1>1. first .. no = (first .. no - 1) \cup {no}
  OBVIOUS
<1> QED BY <1>1 DEF FramesIn

LEMMA NoFrames ==
    ASSUME NEW log, NEW k, NEW no \in Nat
    PROVE  FramesIn(log, k, no + 1, no) = {}
<1>1. no + 1 .. no = {}
  OBVIOUS
<1> QED BY <1>1 DEF FramesIn

LEMMA FramesAreFinite ==
    ASSUME NEW log, NEW k, NEW first \in Nat, NEW to \in Int
    PROVE  /\ FramesIn(log, k, first, to) \subseteq first .. to
           /\ IsFiniteSet(FramesIn(log, k, first, to))
<1>1. FramesIn(log, k, first, to) \subseteq first .. to
  BY DEF FramesIn
<1>2. IsFiniteSet(first .. to)
  BY FS_Interval
<1> QED BY <1>1, <1>2, FS_Subset

\* A longer history has the same frames where the shorter one ended.
SameUpTo(longer, log, n) == \A i \in 1 .. n : longer[i] = log[i]

LEMMA HistoryGrows ==
    ASSUME NEW log \in Seq(Frames), NEW f \in Frames, NEW longer, longer = Append(log, f)
    PROVE  /\ Len(log) \in Nat /\ Len(longer) = Len(log) + 1 /\ longer[Len(log) + 1] = f
           /\ SameUpTo(longer, log, Len(log))
<1>1. Len(Append(log, f)) = Len(log) + 1 /\ Append(log, f)[Len(log) + 1] = f
      /\ \A i \in 1 .. Len(log) : Append(log, f)[i] = log[i]
  BY AppendProperties
<1> QED BY <1>1, LenProperties DEF SameUpTo

LEMMA SameFrames ==
    ASSUME NEW log, NEW longer, NEW n \in Nat, SameUpTo(longer, log, n),
           NEW k, NEW first \in Nat \ {0}
    PROVE  /\ FramesIn(longer, k, first, n) = FramesIn(log, k, first, n)
           /\ \A S \in SUBSET (1 .. n) : FlagsIn(longer, S) = FlagsIn(log, S)
           /\ \A S \in SUBSET (1 .. n) : BeatsIn(longer, S) = BeatsIn(log, S)
<1>1. \A i \in first .. n : longer[i] = log[i]
  BY DEF SameUpTo
<1>2. FramesIn(longer, k, first, n) = FramesIn(log, k, first, n)
  BY <1>1 DEF FramesIn
<1>3. ASSUME NEW S \in SUBSET (1 .. n)
      PROVE  FlagsIn(longer, S) = FlagsIn(log, S) /\ BeatsIn(longer, S) = BeatsIn(log, S)
  <2>1. \A i \in S : longer[i] = log[i]
    BY DEF SameUpTo
  <2>2. BeatsIn(longer, S) = BeatsIn(log, S)
    BY <2>1 DEF BeatsIn
  <2>3. {longer[i].flags : i \in S} = {log[i].flags : i \in S}
    BY <2>1
  <2> QED BY <2>2, <2>3 DEF FlagsIn
<1> QED BY <1>2, <1>3

\* The sum of the frames so far.
LEMMA SumStarts ==
    ASSUME NEW log, NEW k, NEW no \in Nat
    PROVE  SumsTo(log, k, no + 1, no, 0)
<1>1. (no + 1) - 1 = no /\ no .. no = {no} /\ no < no + 1
  OBVIOUS
<1>2. PartialSums(log, k, no + 1, no, [i \in {no} |-> 0])
  BY <1>1 DEF PartialSums
<1>3. ASSUME NEW sum, PartialSums(log, k, no + 1, no, sum)
      PROVE  sum[no] = 0
  BY <1>1, <1>3 DEF PartialSums
<1> QED BY <1>2, <1>3 DEF SumsTo

LEMMA SumGrows ==
    ASSUME NEW log, NEW longer, NEW k, NEW first \in Nat \ {0}, NEW to \in Nat, first <= to + 1,
           SameUpTo(longer, log, to),
           NEW bytes \in Nat, SumsTo(log, k, first, to, bytes),
           NEW more \in Nat, more = LengthIn(longer, k, to + 1)
    PROVE  SumsTo(longer, k, first, to + 1, bytes + more)
<1>1. \A i \in first .. to : LengthIn(longer, k, i) = LengthIn(log, k, i)
  BY DEF SameUpTo, LengthIn
<1>2. \E sum : PartialSums(longer, k, first, to + 1, sum)
  <2>1. PICK sum : PartialSums(log, k, first, to, sum)
    BY DEF SumsTo
  <2> DEFINE new == [i \in first - 1 .. to + 1 |-> IF i = to + 1 THEN bytes + more ELSE sum[i]]
  <2>2. sum[to] = bytes
    BY <2>1 DEF SumsTo
  <2>3. \A i \in first - 1 .. to :
           sum[i] = IF i < first THEN 0 ELSE sum[i - 1] + LengthIn(log, k, i)
    BY <2>1 DEF PartialSums
  <2>4. ASSUME NEW i \in first - 1 .. to + 1
        PROVE  new[i] = IF i < first THEN 0 ELSE new[i - 1] + LengthIn(longer, k, i)
    <3>1. CASE i = to + 1
      <4>1. ~(i < first) /\ i - 1 = to /\ to \in first - 1 .. to + 1 /\ to # to + 1
        BY <3>1
      <4>2. new[i] = bytes + more /\ new[to] = bytes
        BY <2>2, <3>1, <4>1
      <4> QED BY <3>1, <4>1, <4>2
    <3>2. CASE i # to + 1 /\ i < first
      <4>1. i \in first - 1 .. to
        BY <3>2
      <4> QED BY <2>3, <3>2, <4>1
    <3>3. CASE i # to + 1 /\ ~(i < first)
      <4>1. i \in first .. to /\ i - 1 \in first - 1 .. to + 1 /\ i - 1 # to + 1
        BY <3>3
      <4>2. new[i] = sum[i] /\ new[i - 1] = sum[i - 1]
        BY <3>3, <4>1
      <4>3. sum[i] = sum[i - 1] + LengthIn(log, k, i)
        BY <2>3, <3>3, <4>1
      <4> QED BY <1>1, <3>3, <4>1, <4>2, <4>3
    <3> QED BY <3>1, <3>2, <3>3
  <2>5. new = [i \in first - 1 .. to + 1 |->
                  IF i < first THEN 0 ELSE new[i - 1] + LengthIn(longer, k, i)]
    BY <2>4
  <2> HIDE DEF new
  <2> QED BY <2>5 DEF PartialSums
<1>3. ASSUME NEW sum, PartialSums(longer, k, first, to + 1, sum)
      PROVE  sum[to + 1] = bytes + more
  <2> DEFINE old == [i \in first - 1 .. to |-> sum[i]]
  <2>1. \A i \in first - 1 .. to + 1 :
           sum[i] = IF i < first THEN 0 ELSE sum[i - 1] + LengthIn(longer, k, i)
    BY <1>3 DEF PartialSums
  <2>2. ASSUME NEW i \in first - 1 .. to
        PROVE  old[i] = IF i < first THEN 0 ELSE old[i - 1] + LengthIn(log, k, i)
    <3>1. i \in first - 1 .. to + 1 /\ old[i] = sum[i]
      OBVIOUS
    <3>2. CASE i < first
      BY <2>1, <3>1, <3>2
    <3>3. CASE ~(i < first)
      <4>1. i \in first .. to /\ i - 1 \in first - 1 .. to
        BY <3>3
      <4>2. old[i - 1] = sum[i - 1]
        BY <4>1
      <4> QED BY <1>1, <2>1, <3>1, <3>3, <4>1, <4>2
    <3> QED BY <3>2, <3>3
  <2>3. old = [i \in first - 1 .. to |->
                  IF i < first THEN 0 ELSE old[i - 1] + LengthIn(log, k, i)]
    BY <2>2
  <2>4. to \in first - 1 .. to /\ to + 1 \in first - 1 .. to + 1 /\ ~(to + 1 < first)
    OBVIOUS
  <2>5. old[to] = sum[to]
    BY <2>4
  <2> HIDE DEF old
  <2>6. old[to] = bytes
    BY <2>3 DEF PartialSums, SumsTo
  <2>7. sum[to + 1] = sum[(to + 1) - 1] + LengthIn(longer, k, to + 1)
    BY <2>1, <2>4
  <2>8. (to + 1) - 1 = to
    OBVIOUS
  <2> QED BY <2>5, <2>6, <2>7, <2>8
<1> QED BY <1>2, <1>3 DEF SumsTo

\* What the sum is, for one frame.
LEMMA SumOfOne ==
    ASSUME NEW log, NEW k, NEW no \in Nat \ {0}, NEW bytes, SumsTo(log, k, no, no, bytes),
           NEW more \in Nat, more = LengthIn(log, k, no)
    PROVE  bytes = more
<1>1. PICK sum : PartialSums(log, k, no, no, sum)
  BY DEF SumsTo
<1>2. no - 1 \in no - 1 .. no /\ no \in no - 1 .. no /\ no - 1 < no /\ ~(no < no)
  OBVIOUS
<1>3. sum[no - 1] = 0 /\ sum[no] = sum[no - 1] + LengthIn(log, k, no)
  BY <1>1, <1>2 DEF PartialSums
<1>4. sum[no] = bytes
  BY <1>1 DEF SumsTo
<1> QED BY <1>3, <1>4

\* A list of the first elements of a set stays one when the set gets a greater
\* element: there is room for it, or the list has its max elements.
LEMMA ListGrows ==
    ASSUME NEW q \in Seq(Nat), NEW S \in SUBSET Nat, IsFiniteSet(S), NEW max \in Nat,
           ListsFirst(q, S, max),
           NEW n \in Nat, \A i \in S : i < n,
           NEW r, r = IF Len(q) < max THEN Append(q, n) ELSE q
    PROVE  ListsFirst(r, S \cup {n}, max)
<1> DEFINE T == S \cup {n}
<1>1. /\ Cardinality(S) \in Nat /\ IsFiniteSet(T) /\ Cardinality(T) = Cardinality(S) + 1
  <2>1. n \notin S
    OBVIOUS
  <2> QED BY <2>1, FS_AddElement, FS_CardinalityType
<1>2. /\ Len(q) \in Nat /\ Len(q) = IF Cardinality(S) < max THEN Cardinality(S) ELSE max
      /\ \A i \in 1 .. Len(q) : q[i] \in S /\ Cardinality({j \in S : j <= q[i]}) = i
  BY LenProperties DEF ListsFirst
<1>3. \A i \in 1 .. Len(q) : q[i] \in T /\ {j \in T : j <= q[i]} = {j \in S : j <= q[i]}
  <2> TAKE i \in 1 .. Len(q)
  <2>1. q[i] \in S /\ q[i] \in Nat /\ q[i] < n
    BY <1>2
  <2>2. \A j \in T : j <= q[i] => j \in S
    BY <2>1
  <2> QED BY <2>1, <2>2
<1> HIDE DEF T
<1>4. CASE Len(q) < max
  <2>1. Append(q, n) \in Seq(Nat) /\ Len(Append(q, n)) = Len(q) + 1 /\ Append(q, n)[Len(q) + 1] = n
        /\ \A i \in 1 .. Len(q) : Append(q, n)[i] = q[i]
    BY AppendProperties
  <2>2. r = Append(q, n)
    BY <1>4
  <2>3. /\ Len(r) = Len(q) + 1 /\ r[Len(q) + 1] = n
        /\ \A i \in 1 .. Len(q) : r[i] = q[i]
    BY <2>1, <2>2
  <2>4. Len(r) = IF Cardinality(T) < max THEN Cardinality(T) ELSE max
    BY <1>1, <1>2, <1>4, <2>3
  <2>5. n \in T /\ {j \in T : j <= n} = T
    <3>1. n \in T /\ \A j \in T : j <= n
      BY DEF T
    <3> QED BY <3>1
  <2>6. \A i \in 1 .. Len(r) : r[i] \in T /\ Cardinality({j \in T : j <= r[i]}) = i
    <3> TAKE i \in 1 .. Len(r)
    <3>1. CASE i = Len(q) + 1
      <4>1. r[i] = n /\ {j \in T : j <= r[i]} = T
        BY <2>3, <2>5, <3>1
      <4>2. Cardinality(T) = i
        BY <1>1, <1>2, <1>4, <3>1
      <4> QED BY <2>5, <4>1, <4>2
    <3>2. CASE i # Len(q) + 1
      <4>1. i \in 1 .. Len(q) /\ r[i] = q[i]
        BY <1>2, <2>3, <3>2
      <4> QED BY <1>2, <1>3, <4>1
    <3> QED BY <3>1, <3>2
  <2> QED BY <2>4, <2>6 DEF ListsFirst, T
<1>5. CASE ~(Len(q) < max)
  <2>1. r = q
    BY <1>5
  <2>2. Len(q) = IF Cardinality(T) < max THEN Cardinality(T) ELSE max
    BY <1>1, <1>2, <1>5
  <2> QED BY <1>2, <1>3, <2>1, <2>2 DEF ListsFirst, T
<1> QED BY <1>4, <1>5

LEMMA NothingListed ==
    ASSUME NEW max \in Nat
    PROVE  ListsFirst(<<>>, {}, max)
<1>1. Len(<<>>) = 0 /\ 1 .. 0 = {}
  OBVIOUS
<1>2. Cardinality({}) = 0
  BY FS_EmptySet
<1> QED BY <1>1, <1>2 DEF ListsFirst

\* The frame numbers of the beats are a sequence, and grow with the beats.
LEMMA EventFramesType ==
    ASSUME NEW s \in SessionType
    PROVE  /\ EventFrames(s) \in Seq(Nat) /\ Len(EventFrames(s)) = Len(s.events)
           /\ \A i \in 1 .. Len(s.events) : EventFrames(s)[i] = s.events[i].frame
<1>1. /\ s.events \in Seq(EventType) /\ Len(s.events) \in Nat /\ DOMAIN s.events = 1 .. Len(s.events)
      /\ \A i \in 1 .. Len(s.events) : s.events[i] \in EventType
  <2>1. s.events \in Seq(EventType)
    BY DEF SessionType
  <2> DEFINE evs == s.events
  <2> HIDE DEF evs
  <2>2. evs \in Seq(EventType)
    BY <2>1 DEF evs
  <2>3. Len(evs) \in Nat /\ DOMAIN evs = 1 .. Len(evs) /\ \A i \in 1 .. Len(evs) : evs[i] \in EventType
    BY <2>2, LenProperties, ElementOfSeq
  <2> QED BY <2>1, <2>3 DEF evs
<1>2. \A i \in 1 .. Len(s.events) : s.events[i].frame \in Nat
  BY <1>1 DEF EventType
<1>3. EventFrames(s) = [i \in 1 .. Len(s.events) |-> s.events[i].frame]
  BY <1>1 DEF EventFrames
<1> DEFINE n == Len(s.events)
           q == EventFrames(s)
<1>4. n \in Nat /\ q \in [1 .. n -> Nat] /\ \A i \in 1 .. n : q[i] = s.events[i].frame
  BY <1>1, <1>2, <1>3
<1> HIDE DEF n, q
<1>5. q \in Seq(Nat) /\ Len(q) = n
  BY <1>4, SeqDef
<1> QED BY <1>4, <1>5 DEF n, q

LEMMA EventFramesGrow ==
    ASSUME NEW s \in SessionType, NEW t \in SessionType, NEW ev \in EventType,
           t.events = Append(s.events, ev)
    PROVE  EventFrames(t) = Append(EventFrames(s), ev.frame)
<1> DEFINE new == Append(EventFrames(s), ev.frame)
<1>1. s.events \in Seq(EventType) /\ ev.frame \in Nat
  BY DEF SessionType, EventType
<1>2. /\ Len(t.events) = Len(s.events) + 1 /\ Len(s.events) \in Nat
      /\ t.events[Len(s.events) + 1] = ev
      /\ \A i \in 1 .. Len(s.events) : t.events[i] = s.events[i]
  <2> DEFINE evs == s.events
             more == t.events
  <2>1. evs \in Seq(EventType) /\ more = Append(evs, ev)
    BY <1>1
  <2> HIDE DEF evs, more
  <2>2. /\ Len(more) = Len(evs) + 1 /\ Len(evs) \in Nat /\ more[Len(evs) + 1] = ev
        /\ \A i \in 1 .. Len(evs) : more[i] = evs[i]
    BY <2>1, AppendProperties, LenProperties
  <2> QED BY <2>2 DEF evs, more
<1>3. /\ EventFrames(s) \in Seq(Nat) /\ Len(EventFrames(s)) = Len(s.events)
      /\ \A i \in 1 .. Len(s.events) : EventFrames(s)[i] = s.events[i].frame
      /\ EventFrames(t) \in Seq(Nat) /\ Len(EventFrames(t)) = Len(t.events)
      /\ \A i \in 1 .. Len(t.events) : EventFrames(t)[i] = t.events[i].frame
  BY EventFramesType
<1> DEFINE q == EventFrames(s)
           no == ev.frame
<1>4. q \in Seq(Nat) /\ no \in Nat /\ Len(q) = Len(s.events) /\ new = Append(q, no)
  BY <1>1, <1>3
<1>5. new \in Seq(Nat) /\ Len(new) = Len(s.events) + 1 /\ new[Len(s.events) + 1] = ev.frame
      /\ \A i \in 1 .. Len(s.events) : new[i] = s.events[i].frame
  <2> HIDE DEF q, no, new
  <2>1. /\ Append(q, no) \in Seq(Nat) /\ Len(Append(q, no)) = Len(q) + 1
        /\ Append(q, no)[Len(q) + 1] = no /\ \A i \in 1 .. Len(q) : Append(q, no)[i] = q[i]
    BY <1>4, AppendProperties
  <2> QED BY <1>3, <1>4, <2>1 DEF q, no
<1> HIDE DEF new, q, no
<1>6. \A i \in 1 .. Len(new) : new[i] = EventFrames(t)[i]
  <2> TAKE i \in 1 .. Len(new)
  <2>1. CASE i = Len(s.events) + 1
    BY <1>2, <1>3, <1>5, <2>1
  <2>2. CASE i # Len(s.events) + 1
    <3>1. i \in 1 .. Len(s.events) /\ i \in 1 .. Len(t.events)
      BY <1>2, <1>5, <2>2
    <3> QED BY <1>2, <1>3, <1>5, <3>1
  <2> QED BY <2>1, <2>2
<1>7. new = EventFrames(t)
  BY <1>2, <1>3, <1>5, <1>6, SeqEqual
<1> QED BY <1>7 DEF new

-----------------------------------------------------------------------------
(* What counting a frame makes of an entry that has counted the frames     *)
(* before it.                                                              *)

LEMMA CountFlowFields ==
    ASSUME NEW c \in FlowType, NEW f \in Frames, NEW no \in Nat,
           NEW d, d = CountFlow(c, f, no)
    PROVE  /\ d.first = c.first /\ d.last = no /\ d.packets = c.packets + 1
           /\ d.bytes = c.bytes + f.length /\ d.flags = c.flags \cup f.flags
  BY DEF CountFlow, FlowType

\* The frames of a conversation up to the next frame of the history.
Stepped(old, longer, log, k, first, to) ==
    /\ IsFiniteSet(old) /\ old \subseteq 1 .. to /\ old \subseteq Nat
    /\ to + 1 \notin old /\ \A i \in old : i <= to + 1 /\ i < to + 1
    /\ FramesIn(longer, k, first, to + 1) =
         old \cup (IF KeyOf(longer[to + 1]) = k THEN {to + 1} ELSE {})
    /\ FlagsIn(longer, old) = FlagsIn(log, old)
    /\ BeatsIn(longer, old) = BeatsIn(log, old)

LEMMA FramesStep ==
    ASSUME NEW log, NEW longer, NEW k, NEW first \in Nat \ {0}, NEW to \in Nat, first <= to + 1,
           SameUpTo(longer, log, to),
           NEW old, old = FramesIn(log, k, first, to)
    PROVE  Stepped(old, longer, log, k, first, to)
<1>1. old \subseteq first .. to /\ IsFiniteSet(old)
  BY FramesAreFinite
<1>2. old \subseteq 1 .. to /\ old \subseteq Nat /\ to + 1 \notin old
      /\ \A i \in old : i <= to + 1 /\ i < to + 1
  BY <1>1
<1>3. FramesIn(longer, k, first, to + 1) =
        old \cup (IF KeyOf(longer[to + 1]) = k THEN {to + 1} ELSE {})
  <2> DEFINE n == to + 1
  <2>1. n \in Nat /\ first \in Nat /\ first <= n /\ n - 1 = to
    OBVIOUS
  <2>2. FramesIn(longer, k, first, to) = old
    BY SameFrames
  <2> HIDE DEF n
  <2>3. FramesIn(longer, k, first, n) =
          FramesIn(longer, k, first, n - 1) \cup (IF KeyOf(longer[n]) = k THEN {n} ELSE {})
    BY <2>1, NextFrame
  <2> QED BY <2>1, <2>2, <2>3 DEF n
<1>4. FlagsIn(longer, old) = FlagsIn(log, old) /\ BeatsIn(longer, old) = BeatsIn(log, old)
  <2>1. old \in SUBSET (1 .. to)
    BY <1>2
  <2> QED BY <2>1, SameFrames
<1> QED BY <1>1, <1>2, <1>3, <1>4 DEF Stepped

\* The flow of the frame at to + 1.
LEMMA FlowCounts ==
    ASSUME NEW c \in FlowType, NEW f \in Frames, NEW k, KeyOf(f) = k,
           NEW log, NEW longer, NEW to \in Nat, SameUpTo(longer, log, to), longer[to + 1] = f,
           c.first \in 1 .. to + 1, FlowTotals(c, k, log, to),
           NEW d, d = CountFlow(c, f, to + 1)
    PROVE  /\ d.first = c.first
           /\ FlowTotals(d, k, longer, to + 1)
           /\ LatestIs(d.last, FramesIn(longer, k, d.first, to + 1))
<1> DEFINE first == c.first
           old == FramesIn(log, k, first, to)
           new == FramesIn(longer, k, first, to + 1)
<1>1. /\ d.first = first /\ d.last = to + 1 /\ d.packets = c.packets + 1
      /\ d.bytes = c.bytes + f.length /\ d.flags = c.flags \cup f.flags
  <2>1. to + 1 \in Nat
    OBVIOUS
  <2> QED BY <2>1, CountFlowFields
<1>2. f.length \in Nat /\ c.bytes \in Nat /\ first \in Nat \ {0} /\ first <= to + 1
  <2>1. f.length \in Nat
    BY FramesAssumption DEF FrameType
  <2>2. c.bytes \in Nat
    BY DEF FlowType
  <2>3. first \in Nat \ {0} /\ first <= to + 1
    OBVIOUS
  <2> QED BY <2>1, <2>2, <2>3
<1>3. c.packets = Cardinality(old) /\ c.flags = FlagsIn(log, old) /\ SumsTo(log, k, first, to, c.bytes)
  BY DEF FlowTotals
<1> HIDE DEF first, new
<1>4. Stepped(old, longer, log, k, first, to)
  <2>1. old = FramesIn(log, k, first, to)
    OBVIOUS
  <2> HIDE DEF old
  <2> QED BY <1>2, <2>1, FramesStep
<1>5. new = old \cup {to + 1}
  BY <1>4 DEF new, Stepped
<1>6. FlagsIn(longer, old) = FlagsIn(log, old)
  BY <1>4 DEF Stepped
<1> HIDE DEF old
<1>7. IsFiniteSet(old) /\ to + 1 \notin old /\ \A i \in old : i <= to + 1
  BY <1>4 DEF Stepped
<1>8. Cardinality(new) = Cardinality(old) + 1
  <2> DEFINE n == to + 1
  <2>1. n \notin old /\ new = old \cup {n}
    BY <1>5, <1>7
  <2> HIDE DEF n
  <2> QED BY <1>7, <2>1, FS_AddElement
<1>9. FlagsIn(longer, new) = FlagsIn(longer, old) \cup f.flags
  BY <1>5 DEF FlagsIn
<1>10. SumsTo(longer, k, first, to + 1, c.bytes + f.length)
  <2> DEFINE more == f.length
             bytes == c.bytes
  <2>1. more \in Nat /\ bytes \in Nat /\ SumsTo(log, k, first, to, bytes)
        /\ more = LengthIn(longer, k, to + 1)
    BY <1>2, <1>3 DEF LengthIn
  <2> HIDE DEF more, bytes
  <2>2. SumsTo(longer, k, first, to + 1, bytes + more)
    BY <1>2, <2>1, SumGrows
  <2> QED BY <2>2 DEF more, bytes
<1>11. LatestIs(to + 1, new)
  BY <1>5, <1>7 DEF LatestIs
<1>12. d.packets = Cardinality(new) /\ d.flags = FlagsIn(longer, new)
  BY <1>1, <1>3, <1>6, <1>8, <1>9
<1> QED BY <1>1, <1>10, <1>11, <1>12 DEF FlowTotals, first, new

\* The other flows.
LEMMA FlowKept ==
    ASSUME NEW c \in FlowType, NEW k,
           NEW log, NEW longer, NEW to \in Nat, SameUpTo(longer, log, to),
           KeyOf(longer[to + 1]) # k,
           c.first \in 1 .. to + 1, FlowTotals(c, k, log, to)
    PROVE  /\ FlowTotals(c, k, longer, to + 1)
           /\ FramesIn(longer, k, c.first, to + 1) = FramesIn(log, k, c.first, to)
<1> DEFINE first == c.first
           old == FramesIn(log, k, first, to)
           new == FramesIn(longer, k, first, to + 1)
<1>2. c.bytes \in Nat /\ first \in Nat \ {0} /\ first <= to + 1
  BY DEF FlowType
<1>3. c.packets = Cardinality(old) /\ c.flags = FlagsIn(log, old) /\ SumsTo(log, k, first, to, c.bytes)
  BY DEF FlowTotals
<1> HIDE DEF first, new
<1>4. Stepped(old, longer, log, k, first, to)
  <2>1. old = FramesIn(log, k, first, to)
    OBVIOUS
  <2> HIDE DEF old
  <2> QED BY <1>2, <2>1, FramesStep
<1>5. new = old
  BY <1>4 DEF new, Stepped
<1>6. FlagsIn(longer, old) = FlagsIn(log, old)
  BY <1>4 DEF Stepped
<1>10. SumsTo(longer, k, first, to + 1, c.bytes)
  <2> DEFINE more == 0
             bytes == c.bytes
  <2>1. more \in Nat /\ bytes \in Nat /\ SumsTo(log, k, first, to, bytes) /\ bytes + more = bytes
        /\ more = LengthIn(longer, k, to + 1)
    BY <1>2, <1>3 DEF LengthIn
  <2> HIDE DEF more, bytes
  <2>2. SumsTo(longer, k, first, to + 1, bytes + more)
    BY <1>2, <2>1, SumGrows
  <2> QED BY <2>1, <2>2 DEF bytes
<1> HIDE DEF old, new
<1>12. c.packets = Cardinality(new) /\ c.flags = FlagsIn(longer, new)
  BY <1>3, <1>5, <1>6
<1> QED BY <1>5, <1>10, <1>12 DEF FlowTotals, first, old, new

\* The lists of a session after a frame.
LongerIf(room, q, n) == IF room THEN Append(q, n) ELSE q

SessionAfter(t, s, f, no) ==
    /\ t.first = s.first /\ t.packets = s.packets + 1 /\ t.bytes = s.bytes + f.length
    /\ t.frameNos = LongerIf(Len(s.frameNos) < MaxFr, s.frameNos, no)
    /\ EventFrames(t) =
         LongerIf(Classify(f) # "" /\ Len(EventFrames(s)) < MaxEv, EventFrames(s), no)

LEMMA CountSessionFields ==
    ASSUME NEW s \in SessionType, NEW f \in Frames, NEW no \in Nat,
           NEW t, t = CountSession(s, f, no)
    PROVE  SessionAfter(t, s, f, no)
<1>1. t \in SessionType
  BY CountSessionType
<1> DEFINE ev == [frame |-> no, kind |-> Classify(f), dir |-> Side(s, f)]
<1>2. ev \in EventType /\ ev.frame = no
  BY DEF Side, Classify, EventType
<1>3. /\ t.first = s.first /\ t.packets = s.packets + 1 /\ t.bytes = s.bytes + f.length
      /\ t.frameNos = IF RoomFor(s.frameNos, MaxFr) THEN Append(s.frameNos, no) ELSE s.frameNos
      /\ t.events = IF Classify(f) # "" /\ RoomFor(s.events, MaxEv)
                    THEN Append(s.events, ev) ELSE s.events
  BY DEF CountSession, SessionType
<1> HIDE DEF ev
<1>4. Len(EventFrames(s)) = Len(s.events)
  BY EventFramesType
<1>5. CASE Classify(f) # "" /\ Len(s.events) < MaxEv
  <2>1. t.events = Append(s.events, ev)
    BY <1>3, <1>5 DEF RoomFor
  <2>2. EventFrames(t) = Append(EventFrames(s), no)
    BY <1>1, <1>2, <2>1, EventFramesGrow
  <2> QED BY <1>1, <1>3, <1>4, <1>5, <2>2 DEF LongerIf, RoomFor, SessionAfter
<1>6. CASE ~(Classify(f) # "" /\ Len(s.events) < MaxEv)
  <2>1. t.events = s.events
    BY <1>3, <1>6 DEF RoomFor
  <2>2. EventFrames(t) = EventFrames(s)
    BY <2>1 DEF EventFrames
  <2> QED BY <1>1, <1>3, <1>4, <1>6, <2>2 DEF LongerIf, RoomFor, SessionAfter
<1> QED BY <1>5, <1>6

\* What SessionTotals says of one list, for the frames S of the session that it
\* may hold.
LEMMA ListStep ==
    ASSUME NEW q \in Seq(Nat), NEW S \in SUBSET Nat, IsFiniteSet(S), NEW max \in Nat,
           ListsFirst(q, S, max), NEW n \in Nat, \A i \in S : i < n,
           NEW hit \in BOOLEAN,
           NEW r, r = LongerIf(hit /\ Len(q) < max, q, n),
           NEW T, T = S \cup (IF hit THEN {n} ELSE {})
    PROVE  ListsFirst(r, T, max)
<1>1. CASE hit
  <2>1. r = (IF Len(q) < max THEN Append(q, n) ELSE q) /\ T = S \cup {n}
    BY <1>1 DEF LongerIf
  <2>2. ListsFirst(r, S \cup {n}, max)
    BY <2>1, ListGrows
  <2> QED BY <2>1, <2>2
<1>2. CASE ~hit
  <2>1. r = q /\ T = S
    BY <1>2 DEF LongerIf
  <2> QED BY <2>1
<1> QED BY <1>1, <1>2

\* The session of the frame at to + 1.
LEMMA SessionCounts ==
    ASSUME NEW s \in SessionType, NEW f \in Frames, NEW k, KeyOf(f) = k,
           NEW log, NEW to \in Nat, log[to + 1] = f,
           s.first \in 1 .. to + 1, SessionTotals(s, k, log, to),
           NEW t, t = CountSession(s, f, to + 1)
    PROVE  t.first = s.first /\ t.bytes = s.bytes + f.length /\ SessionTotals(t, k, log, to + 1)
<1> DEFINE first == s.first
           old == FramesIn(log, k, first, to)
           new == FramesIn(log, k, first, to + 1)
           n == to + 1
<1>1. /\ t.first = first /\ t.packets = s.packets + 1 /\ t.bytes = s.bytes + f.length
      /\ t.frameNos = LongerIf(Len(s.frameNos) < MaxFr, s.frameNos, n)
      /\ EventFrames(t) =
           LongerIf(Classify(f) # "" /\ Len(EventFrames(s)) < MaxEv, EventFrames(s), n)
  <2>1. n \in Nat /\ t = CountSession(s, f, n)
    OBVIOUS
  <2> HIDE DEF n
  <2>2. SessionAfter(t, s, f, n)
    BY <2>1, CountSessionFields
  <2> QED BY <2>2 DEF SessionAfter
<1>2. first \in Nat \ {0} /\ first <= to + 1 /\ n \in Nat
  OBVIOUS
<1>3. /\ s.packets = Cardinality(old) /\ ListsFirst(s.frameNos, old, MaxFr)
      /\ ListsFirst(EventFrames(s), BeatsIn(log, old), MaxEv)
  BY DEF SessionTotals
<1>4. s.frameNos \in Seq(Nat)
  BY DEF SessionType
<1>5. EventFrames(s) \in Seq(Nat)
  BY EventFramesType
<1>6. Stepped(old, log, log, k, first, to)
  <2>1. old = FramesIn(log, k, first, to) /\ SameUpTo(log, log, to)
    BY DEF SameUpTo
  <2> HIDE DEF old, first
  <2> QED BY <1>2, <2>1, FramesStep
<1>7. /\ IsFiniteSet(old) /\ old \in SUBSET Nat /\ n \notin old /\ \A i \in old : i < n
      /\ new = old \cup {n}
  BY <1>6 DEF Stepped
<1> HIDE DEF first, old, new
<1>8. Cardinality(new) = Cardinality(old) + 1
  <2> HIDE DEF n
  <2> QED BY <1>7, FS_AddElement
<1>9. ListsFirst(t.frameNos, new, MaxFr)
  <2> DEFINE q == s.frameNos
             r == t.frameNos
             hit == TRUE
  <2>1. /\ q \in Seq(Nat) /\ ListsFirst(q, old, MaxFr) /\ MaxFr \in Nat
        /\ r = LongerIf(Len(q) < MaxFr, q, n) /\ hit
    BY <1>1, <1>3, <1>4, LimitsAssumption
  <2> HIDE DEF q, r, n, hit
  <2>3. /\ r = LongerIf(hit /\ Len(q) < MaxFr, q, n) /\ hit \in BOOLEAN
        /\ new = old \cup (IF hit THEN {n} ELSE {})
    BY <1>7, <2>1 DEF LongerIf
  <2>2. ListsFirst(r, new, MaxFr)
    BY <1>2, <1>7, <2>1, <2>3, ListStep
  <2> QED BY <2>2 DEF r
<1>10. ListsFirst(EventFrames(t), BeatsIn(log, new), MaxEv)
  <2> DEFINE q == EventFrames(s)
             r == EventFrames(t)
             S == BeatsIn(log, old)
             T == BeatsIn(log, new)
             hit == Classify(f) # ""
  <2>1. q \in Seq(Nat) /\ ListsFirst(q, S, MaxEv) /\ r = LongerIf(hit /\ Len(q) < MaxEv, q, n)
        /\ MaxEv \in Nat /\ hit \in BOOLEAN
    BY <1>1, <1>3, <1>5, LimitsAssumption
  <2>2. S \subseteq old
    BY DEF BeatsIn
  <2>3. IsFiniteSet(S) /\ S \in SUBSET Nat /\ \A i \in S : i < n
    <3>1. IsFiniteSet(S)
      <4> HIDE DEF S
      <4> QED BY <1>7, <2>2, FS_Subset
    <3> QED BY <1>7, <2>2, <3>1
  <2>4. T = S \cup (IF hit THEN {n} ELSE {})
    <3>1. log[n] = f
      OBVIOUS
    <3> HIDE DEF n
    <3> QED BY <1>7, <3>1 DEF BeatsIn
  <2> HIDE DEF q, r, S, T, hit, n
  <2>5. ListsFirst(r, T, MaxEv)
    BY <1>2, <2>1, <2>3, <2>4, ListStep
  <2> QED BY <2>5 DEF r, T
<1>11. t.packets = Cardinality(new)
  BY <1>1, <1>3, <1>8
<1> QED BY <1>1, <1>9, <1>10, <1>11 DEF SessionTotals, first, new

\* The other sessions, and every session when only the tracker counts.
LEMMA SessionKept ==
    ASSUME NEW s \in SessionType, NEW k,
           NEW log, NEW longer, NEW to \in Nat, SameUpTo(longer, log, to),
           s.first \in 1 .. to + 1, SessionTotals(s, k, log, to)
    PROVE  /\ SessionTotals(s, k, longer, to)
           /\ KeyOf(longer[to + 1]) # k => SessionTotals(s, k, longer, to + 1)
<1> DEFINE first == s.first
           old == FramesIn(log, k, first, to)
<1>1. first \in Nat \ {0} /\ first <= to + 1
  OBVIOUS
<1>2. Stepped(old, longer, log, k, first, to) /\ FramesIn(longer, k, first, to) = old
  <2>1. old = FramesIn(log, k, first, to)
    OBVIOUS
  <2> HIDE DEF old, first
  <2>2. Stepped(old, longer, log, k, first, to)
    BY <1>1, <2>1, FramesStep
  <2>3. FramesIn(longer, k, first, to) = old
    BY <1>1, <2>1, SameFrames
  <2> QED BY <2>2, <2>3
<1>3. /\ s.packets = Cardinality(old) /\ ListsFirst(s.frameNos, old, MaxFr)
      /\ ListsFirst(EventFrames(s), BeatsIn(log, old), MaxEv)
  BY DEF SessionTotals
<1> HIDE DEF old, first
<1>4. BeatsIn(longer, old) = BeatsIn(log, old)
  BY <1>2 DEF Stepped
<1>5. KeyOf(longer[to + 1]) # k => FramesIn(longer, k, first, to + 1) = old
  BY <1>2 DEF Stepped
<1> QED BY <1>2, <1>3, <1>4, <1>5 DEF SessionTotals, first

\* An Observe changes the entry of its key and may drop another one.
LEMMA EntryEffect ==
    ASSUME NEW table, NEW order, NEW limit, NEW k, NEW new, NEW c,
           NEW t, t = WithEntry(table, order, limit, k, new), NEW u, u = Put(t, k, c)
    PROVE  /\ t[k] = IF k \in DOMAIN table THEN table[k] ELSE new
           /\ k \in DOMAIN u /\ u[k] = c
           /\ \A j \in DOMAIN u \ {k} : j \in DOMAIN table /\ u[j] = table[j]
  BY DEF WithEntry, Put, Without

LEMMA TrackerCounts ==
    ASSUME ConvInv, CountInv, NEW f \in Frames, TrackerObserve(f)
    PROVE  CountInv'
<1> DEFINE to == Len(seen)
           no == to + 1
           k == KeyOf(f)
           new == NewFlow(f, no)
           t == WithEntry(flows, flowOrder, TrackerLimit, k, new)
           c == t[k]
           d == CountFlow(c, f, no)
<1>1. /\ seen \in Seq(Frames) /\ to \in Nat /\ no \in Nat /\ no - 1 = to
      /\ seen' = Append(seen, f) /\ current' = TRUE /\ ~current
      /\ sessions' = sessions
  BY LenProperties DEF ConvInv, ConvTypeOK, TrackerObserve, playerVars
<1>2. Len(seen') = no /\ seen'[no] = f /\ SameUpTo(seen', seen, to)
  BY <1>1, HistoryGrows
<1>3. PlayerNo = no /\ PlayerNo' = no /\ PlayerNo - 1 = to
  BY <1>1, <1>2 DEF PlayerNo
<1>4. /\ c = IF k \in DOMAIN flows THEN flows[k] ELSE new
      /\ flows'[k] = d
      /\ \A j \in DOMAIN flows' \ {k} : j \in DOMAIN flows /\ flows'[j] = flows[j]
  <2>1. t = WithEntry(flows, flowOrder, TrackerLimit, k, new) /\ flows' = Put(t, k, d)
    BY DEF TrackerObserve
  <2> HIDE DEF t, d, new, k
  <2> QED BY <2>1, EntryEffect
<1>5. new \in FlowType /\ new.first = no /\ FlowTotals(new, k, seen, to)
  <2>1. f.src \in Nat /\ f.dst \in Nat
    BY FramesAssumption DEF FrameType
  <2>2. new \in FlowType
    BY <1>1, <2>1 DEF NewFlow, FlowType, AppNames
  <2>3. new.first = no /\ new.packets = 0 /\ new.flags = {} /\ new.bytes = 0
    BY DEF NewFlow
  <2>4. FramesIn(seen, k, no, to) = {}
    <3> HIDE DEF k, to
    <3> QED BY <1>1, NoFrames
  <2>5. SumsTo(seen, k, no, to, 0)
    <3> HIDE DEF k, to
    <3> QED BY <1>1, SumStarts
  <2> HIDE DEF new, no, to, k
  <2>6. FlagsIn(seen, {}) = {} /\ Cardinality({}) = 0
    BY FS_EmptySet DEF FlagsIn
  <2> QED BY <2>2, <2>3, <2>4, <2>5, <2>6 DEF FlowTotals
<1>6. ASSUME NEW j \in DOMAIN flows
      PROVE  /\ flows[j] \in FlowType /\ EnteredBy(flows[j], j, seen, to)
             /\ FlowTotals(flows[j], j, seen, to)
             /\ LatestIs(flows[j].last, FramesIn(seen, j, flows[j].first, to))
  BY DEF ConvInv, ConvTypeOK, CountInv
<1>7. ASSUME NEW g, NEW j, EnteredBy(g, j, seen, to)
      PROVE  EnteredBy(g, j, seen', no) /\ g.first \in 1 .. to + 1
  <2>1. g.first \in 1 .. to /\ KeyOf(seen[g.first]) = j
    BY <1>7 DEF EnteredBy
  <2>2. seen'[g.first] = seen[g.first]
    BY <1>2, <2>1 DEF SameUpTo
  <2>3. g.first \in 1 .. no
    BY <1>1, <2>1
  <2> QED BY <1>1, <2>1, <2>2, <2>3 DEF EnteredBy
<1>8. /\ c \in FlowType /\ c.first \in 1 .. to + 1 /\ FlowTotals(c, k, seen, to)
      /\ KeyOf(seen'[c.first]) = k
  <2>1. CASE k \in DOMAIN flows
    <3>1. c = flows[k]
      BY <1>4, <2>1
    <3> QED BY <1>6, <1>7, <2>1, <3>1 DEF EnteredBy
  <2>2. CASE k \notin DOMAIN flows
    <3>1. c = new
      BY <1>4, <2>2
    <3>2. no \in 1 .. to + 1 /\ KeyOf(seen'[no]) = k
      BY <1>1, <1>2
    <3> HIDE DEF new, no, to
    <3> QED BY <1>5, <3>1, <3>2
  <2> QED BY <2>1, <2>2
<1> HIDE DEF c, t, new
<1>9. d.first = c.first /\ FlowTotals(d, k, seen', no)
      /\ LatestIs(d.last, FramesIn(seen', k, d.first, no))
  <2>1. d = CountFlow(c, f, to + 1) /\ KeyOf(f) = k /\ seen'[to + 1] = f
    BY <1>2
  <2> DEFINE longer == seen'
             log == seen
  <2>2. SameUpTo(longer, log, to) /\ longer[to + 1] = f /\ FlowTotals(c, k, log, to)
    BY <1>2, <1>8
  <2> HIDE DEF d, k, to, longer, log
  <2>3. /\ d.first = c.first
        /\ FlowTotals(d, k, longer, to + 1)
        /\ LatestIs(d.last, FramesIn(longer, k, d.first, to + 1))
    BY <1>1, <1>8, <2>1, <2>2, FlowCounts
  <2> QED BY <2>3 DEF longer
<1>10. ASSUME NEW j \in DOMAIN flows'
       PROVE  /\ EnteredBy(flows'[j], j, seen', no)
              /\ FlowTotals(flows'[j], j, seen', no)
              /\ LatestIs(flows'[j].last, FramesIn(seen', j, flows'[j].first, no))
  <2>1. CASE j = k
    <3>1. EnteredBy(d, k, seen', no)
      BY <1>8, <1>9 DEF EnteredBy
    <3> QED BY <1>4, <1>9, <2>1, <3>1
  <2>2. CASE j # k
    <3>1. j \in DOMAIN flows /\ flows'[j] = flows[j]
      BY <1>4, <1>10, <2>2
    <3>2. /\ flows[j] \in FlowType /\ EnteredBy(flows[j], j, seen, to)
          /\ FlowTotals(flows[j], j, seen, to)
          /\ LatestIs(flows[j].last, FramesIn(seen, j, flows[j].first, to))
      BY <1>6, <3>1
    <3>3. EnteredBy(flows[j], j, seen', no) /\ flows[j].first \in 1 .. to + 1
      BY <1>7, <3>2
    <3> DEFINE g == flows[j]
               longer == seen'
               log == seen
    <3>4. KeyOf(longer[to + 1]) # j /\ SameUpTo(longer, log, to)
      BY <1>2, <2>2
    <3> HIDE DEF g, longer, log, to
    <3>5. g \in FlowType /\ g.first \in 1 .. to + 1 /\ FlowTotals(g, j, log, to)
      BY <3>2, <3>3 DEF g, log
    <3>6. /\ FlowTotals(g, j, longer, to + 1)
          /\ FramesIn(longer, j, g.first, to + 1) = FramesIn(log, j, g.first, to)
      BY <1>1, <3>4, <3>5, FlowKept
    <3> QED BY <3>1, <3>2, <3>3, <3>6 DEF g, longer, log
  <2> QED BY <2>1, <2>2
<1>11. ASSUME NEW j \in DOMAIN sessions
       PROVE  /\ EnteredBy(sessions[j], j, seen', to)
              /\ Playable(seen'[sessions[j].first])
              /\ SessionTotals(sessions[j], j, seen', to)
  <2>1. /\ sessions[j] \in SessionType /\ EnteredBy(sessions[j], j, seen, to)
        /\ Playable(seen[sessions[j].first]) /\ SessionTotals(sessions[j], j, seen, to)
    BY <1>3 DEF ConvInv, ConvTypeOK, CountInv
  <2>2. /\ sessions[j].first \in 1 .. to /\ KeyOf(seen[sessions[j].first]) = j
        /\ seen'[sessions[j].first] = seen[sessions[j].first]
    BY <1>2, <2>1 DEF EnteredBy, SameUpTo
  <2>3. EnteredBy(sessions[j], j, seen', to) /\ Playable(seen'[sessions[j].first])
    BY <2>1, <2>2 DEF EnteredBy
  <2> DEFINE g == sessions[j]
             longer == seen'
             log == seen
  <2>4. SameUpTo(longer, log, to) /\ g \in SessionType /\ SessionTotals(g, j, log, to)
    BY <1>2, <2>1
  <2>5. g.first \in 1 .. to + 1
    BY <1>7, <2>1
  <2> HIDE DEF g, longer, log, to
  <2>6. SessionTotals(g, j, longer, to)
    BY <1>1, <2>4, <2>5, SessionKept
  <2> QED BY <2>3, <2>6 DEF g, longer
<1>12. ASSUME NEW j \in DOMAIN flows' \cap DOMAIN sessions,
              flows'[j].first = sessions[j].first
       PROVE  flows'[j].bytes = sessions[j].bytes + LagBytes(j)'
  <2>1. LagBytes(j)' = IF k = j THEN f.length ELSE 0
    BY <1>1, <1>2 DEF LagBytes
  <2>2. LagBytes(j) = 0
    BY <1>1 DEF LagBytes
  <2>3. sessions[j].bytes \in Nat /\ sessions[j].first \in 1 .. to
    <3>1. sessions[j] \in SessionType /\ EnteredBy(sessions[j], j, seen, to)
      BY <1>3 DEF ConvInv, ConvTypeOK, CountInv
    <3> QED BY <3>1 DEF SessionType, EnteredBy
  <2>4. CASE j = k
    <3>1. c.first = sessions[j].first
      BY <1>4, <1>9, <1>12, <2>4
    <3>2. c.first # no
      BY <1>1, <2>3, <3>1
    <3>3. k \in DOMAIN flows /\ c = flows[k]
      BY <1>4, <1>5, <3>2
    <3>4. flows[k].bytes = sessions[k].bytes + 0
      BY <1>12, <2>2, <2>4, <3>1, <3>3 DEF CountInv
    <3>5. d.bytes = c.bytes + f.length
      <4> HIDE DEF no
      <4> QED BY <1>1, <1>8, CountFlowFields
    <3>6. f.length \in Nat
      BY FramesAssumption DEF FrameType
    <3>7. flows'[j].bytes = sessions[j].bytes + f.length
      BY <1>4, <2>3, <2>4, <3>3, <3>4, <3>5, <3>6
    <3> QED BY <2>1, <2>4, <3>7
  <2>5. CASE j # k
    <3>1. j \in DOMAIN flows /\ flows'[j] = flows[j]
      BY <1>4, <1>12, <2>5
    <3>2. flows[j].bytes = sessions[j].bytes + LagBytes(j)
      BY <1>12, <3>1 DEF CountInv
    <3> QED BY <2>1, <2>2, <2>5, <3>1, <3>2
  <2> QED BY <2>4, <2>5
<1>13. PlayerNo' - 1 = to /\ Len(seen') = no
  BY <1>1, <1>2, <1>3
<1> HIDE DEF to, no
<1> QED BY <1>1, <1>10, <1>11, <1>12, <1>13 DEF CountInv

LEMMA PlayerCounts ==
    ASSUME ConvInv, CountInv, PlayerObserve
    PROVE  CountInv'
<1> DEFINE no == Len(seen)
           to == no - 1
           f == seen[no]
           k == KeyOf(f)
           new == NewSession(f, no)
           t == WithEntry(sessions, sessionOrder, PlayerLimit, k, new)
           s == t[k]
           r == CountSession(s, f, no)
<1>1. /\ no \in Nat /\ to \in Nat /\ no = to + 1 /\ f \in Frames /\ seen \in Seq(Frames)
      /\ current /\ current' = FALSE /\ seen' = seen /\ flows' = flows
      /\ PlayerNo - 1 = to /\ PlayerNo' - 1 = no
  BY LenProperties, ElementOfSeq DEF ConvInv, ConvTypeOK, PlayerObserve, PlayerNo, trackerVars
<1>2. ASSUME NEW j \in DOMAIN flows
      PROVE  /\ EnteredBy(flows[j], j, seen, no) /\ FlowTotals(flows[j], j, seen, no)
             /\ LatestIs(flows[j].last, FramesIn(seen, j, flows[j].first, no))
             /\ flows[j] \in FlowType
  BY DEF CountInv, ConvInv, ConvTypeOK
<1>3. ASSUME NEW j \in DOMAIN sessions
      PROVE  /\ EnteredBy(sessions[j], j, seen, to) /\ Playable(seen[sessions[j].first])
             /\ SessionTotals(sessions[j], j, seen, to)
             /\ sessions[j] \in SessionType /\ sessions[j].bytes \in Nat
             /\ sessions[j].first \in 1 .. to + 1 /\ sessions[j].first \in 1 .. no
             /\ seen[sessions[j].first] \in Frames
  <2>1. /\ EnteredBy(sessions[j], j, seen, to) /\ Playable(seen[sessions[j].first])
        /\ SessionTotals(sessions[j], j, seen, to) /\ sessions[j] \in SessionType
    BY <1>1 DEF CountInv, ConvInv, ConvTypeOK
  <2>2. sessions[j].first \in 1 .. to
    BY <2>1 DEF EnteredBy
  <2>3. sessions[j].bytes \in Nat
    BY <2>1 DEF SessionType
  <2>4. sessions[j].first \in 1 .. to + 1 /\ sessions[j].first \in 1 .. no
    BY <1>1, <2>2
  <2>5. seen[sessions[j].first] \in Frames
    BY <1>1, <2>4, ElementOfSeq
  <2> QED BY <2>1, <2>3, <2>4, <2>5
<1>4. ASSUME NEW j \in DOMAIN sessions, k # j
      PROVE  /\ EnteredBy(sessions[j], j, seen, no) /\ Playable(seen[sessions[j].first])
             /\ SessionTotals(sessions[j], j, seen, no)
  <2> DEFINE g == sessions[j]
             log == seen
  <2>1. /\ g \in SessionType /\ g.first \in 1 .. to + 1 /\ SessionTotals(g, j, log, to)
        /\ SameUpTo(log, log, to) /\ KeyOf(log[to + 1]) # j
    BY <1>1, <1>3, <1>4 DEF SameUpTo
  <2>2. SessionTotals(sessions[j], j, seen, no)
    <3> HIDE DEF g, log, to, no
    <3>1. SessionTotals(g, j, log, to + 1)
      BY <1>1, <2>1, SessionKept
    <3> QED BY <1>1, <3>1 DEF g, log
  <2>3. EnteredBy(sessions[j], j, seen, no)
    BY <1>3 DEF EnteredBy
  <2> QED BY <1>3, <2>2, <2>3
<1>5. ASSUME NEW j \in DOMAIN flows
      PROVE  LagBytes(j) = (IF k = j THEN f.length ELSE 0) /\ LagBytes(j)' = 0
  BY <1>1 DEF LagBytes
<1>6. CASE Playable(f)
  <2>1. /\ s = IF k \in DOMAIN sessions THEN sessions[k] ELSE new
        /\ sessions'[k] = r
        /\ \A j \in DOMAIN sessions' \ {k} : j \in DOMAIN sessions /\ sessions'[j] = sessions[j]
    <3>1. /\ t = WithEntry(sessions, sessionOrder, PlayerLimit, k, new)
          /\ sessions' = Put(t, k, r)
      BY <1>6 DEF PlayerObserve
    <3> HIDE DEF t, r, new, k
    <3> QED BY <3>1, EntryEffect
  <2>2. new \in SessionType /\ new.first = no /\ new.bytes = 0 /\ SessionTotals(new, k, seen, to)
    <3>1. <<>> \in Seq(Nat) /\ <<>> \in Seq(EventType)
      BY EmptySeq
    <3>2. f.src \in Nat /\ f.dst \in Nat
      BY <1>1, FramesAssumption DEF FrameType
    <3>3. new \in SessionType
      BY <1>1, <3>1, <3>2 DEF NewSession, SessionType, AppNames
    <3>4. /\ new.first = no /\ new.packets = 0 /\ new.bytes = 0 /\ new.frameNos = <<>>
          /\ new.events = <<>>
      BY DEF NewSession
    <3>5. FramesIn(seen, k, no, to) = {}
      <4> HIDE DEF k, to, no
      <4> QED BY <1>1, NoFrames
    <3>6. EventFrames(new) = <<>>
      <4> HIDE DEF new
      <4>1. EventFrames(new) \in Seq(Nat) /\ Len(EventFrames(new)) = Len(new.events)
        BY <3>3, EventFramesType
      <4>2. Len(EventFrames(new)) = 0
        BY <3>4, <4>1
      <4> QED BY <4>1, <4>2, EmptySeq
    <3> HIDE DEF new, no, to, k
    <3>7. BeatsIn(seen, {}) = {} /\ Cardinality({}) = 0
      BY FS_EmptySet DEF BeatsIn
    <3>8. ListsFirst(<<>>, {}, MaxFr) /\ ListsFirst(<<>>, {}, MaxEv)
      BY LimitsAssumption, NothingListed
    <3> QED BY <3>3, <3>4, <3>5, <3>6, <3>7, <3>8 DEF SessionTotals
  <2>3. /\ s \in SessionType /\ s.first \in 1 .. to + 1 /\ SessionTotals(s, k, seen, to)
        /\ KeyOf(seen[s.first]) = k /\ Playable(seen[s.first])
    <3>1. CASE k \in DOMAIN sessions
      <4>1. s = sessions[k]
        BY <2>1, <3>1
      <4> HIDE DEF s, k, to, no
      <4> QED BY <1>3, <3>1, <4>1 DEF EnteredBy
    <3>2. CASE k \notin DOMAIN sessions
      <4>1. s = new
        BY <2>1, <3>2
      <4>2. no \in 1 .. to + 1 /\ KeyOf(seen[no]) = k /\ Playable(seen[no])
        BY <1>1, <1>6
      <4> HIDE DEF new, no, to, s, k
      <4> QED BY <2>2, <4>1, <4>2
    <3> QED BY <3>1, <3>2
  <2> HIDE DEF s, t, new
  <2>4. r.first = s.first /\ r.bytes = s.bytes + f.length /\ SessionTotals(r, k, seen, no)
    <3> DEFINE log == seen
    <3>1. r = CountSession(s, f, to + 1) /\ KeyOf(f) = k /\ log[to + 1] = f
          /\ SessionTotals(s, k, log, to)
      BY <1>1, <2>3
    <3> HIDE DEF r, k, f, to, no, log
    <3>2. r.first = s.first /\ r.bytes = s.bytes + f.length /\ SessionTotals(r, k, log, to + 1)
      BY <1>1, <2>3, <3>1, SessionCounts
    <3> QED BY <1>1, <3>2 DEF log
  <2>5. ASSUME NEW j \in DOMAIN sessions'
        PROVE  /\ EnteredBy(sessions'[j], j, seen, no) /\ Playable(seen[sessions'[j].first])
               /\ SessionTotals(sessions'[j], j, seen, no)
    <3>1. CASE j = k
      <4>1. EnteredBy(r, k, seen, no) /\ Playable(seen[r.first])
        BY <1>1, <2>3, <2>4 DEF EnteredBy
      <4> QED BY <2>1, <2>4, <3>1, <4>1
    <3>2. CASE j # k
      BY <1>4, <2>1, <2>5, <3>2
    <3> QED BY <3>1, <3>2
  <2>6. ASSUME NEW j \in DOMAIN flows \cap DOMAIN sessions', flows[j].first = sessions'[j].first
        PROVE  flows[j].bytes = sessions'[j].bytes
    <3>1. CASE j = k
      <4>1. flows[k].first = s.first /\ k \in DOMAIN flows
        BY <2>1, <2>4, <2>6, <3>1
      <4>2. f.length \in Nat
        BY <1>1, FramesAssumption DEF FrameType
      <4>3. CASE k \in DOMAIN sessions
        <5>1. s = sessions[k]
          BY <2>1, <4>3
        <5>2. flows[k].bytes = sessions[k].bytes + LagBytes(k)
          BY <4>1, <4>3, <5>1 DEF CountInv
        <5>3. flows[k].bytes = s.bytes + f.length
          BY <1>5, <4>1, <5>1, <5>2
        <5> QED BY <2>1, <2>4, <3>1, <5>3
      <4>4. CASE k \notin DOMAIN sessions
        <5>1. s = new
          BY <2>1, <4>4
        <5>2. s.first = no /\ s.bytes = 0
          BY <2>2, <5>1
        <5>3. SumsTo(seen, k, no, no, flows[k].bytes)
          BY <1>2, <4>1, <5>2 DEF FlowTotals
        <5>4. LengthIn(seen, k, no) = f.length /\ no \in Nat \ {0}
          BY <1>1 DEF LengthIn
        <5>7. flows[k].bytes = f.length
          BY <4>2, <5>3, <5>4, SumOfOne
        <5>8. r.bytes = f.length
          BY <2>4, <4>2, <5>2
        <5> QED BY <2>1, <3>1, <5>7, <5>8
      <4> QED BY <4>3, <4>4
    <3>2. CASE j # k
      <4>1. j \in DOMAIN sessions /\ sessions'[j] = sessions[j]
        BY <2>1, <2>6, <3>2
      <4>2. flows[j].bytes = sessions[j].bytes + LagBytes(j)
        BY <2>6, <4>1 DEF CountInv
      <4>3. LagBytes(j) = 0
        BY <1>5, <2>6, <3>2
      <4>4. sessions[j].bytes \in Nat
        BY <1>3, <4>1
      <4> QED BY <4>1, <4>2, <4>3, <4>4
    <3> QED BY <3>1, <3>2
  <2>7. ASSUME NEW j \in DOMAIN flows \cap DOMAIN sessions', flows[j].first = sessions'[j].first
        PROVE  flows[j].bytes = sessions'[j].bytes + LagBytes(j)'
    <3>1. flows[j].bytes \in Nat
      BY <1>2 DEF FlowType
    <3>2. flows[j].bytes = sessions'[j].bytes /\ LagBytes(j)' = 0
      BY <1>5, <2>6, <2>7
    <3> QED BY <3>1, <3>2
  <2> HIDE DEF no, to, f, k, r
  <2> QED BY <1>1, <1>2, <2>5, <2>7 DEF CountInv, no
<1>7. CASE ~Playable(f)
  <2>1. sessions' = sessions
    BY <1>7 DEF PlayerObserve, playerVars
  <2>2. ASSUME NEW j \in DOMAIN sessions PROVE j # k
    <3>1. /\ seen[sessions[j].first] \in Frames /\ Playable(seen[sessions[j].first])
          /\ KeyOf(seen[sessions[j].first]) = j
      BY <1>3 DEF EnteredBy
    <3> DEFINE g == seen[sessions[j].first]
    <3>2. g \in Frames /\ Playable(g) /\ KeyOf(g) = j
      BY <3>1
    <3> HIDE DEF g, f
    <3> QED BY <1>1, <1>7, <3>2, PlayableByKey
  <2>3. ASSUME NEW j \in DOMAIN flows \cap DOMAIN sessions, flows[j].first = sessions[j].first
        PROVE  flows[j].bytes = sessions[j].bytes + LagBytes(j)'
    <3>1. flows[j].bytes = sessions[j].bytes + LagBytes(j)
      BY <2>3 DEF CountInv
    <3>2. LagBytes(j) = 0 /\ LagBytes(j)' = 0
      BY <1>5, <2>2, <2>3
    <3> QED BY <3>1, <3>2
  <2> HIDE DEF to, f, k
  <2> QED BY <1>1, <1>2, <1>4, <2>1, <2>2, <2>3 DEF CountInv
<1> QED BY <1>6, <1>7

-----------------------------------------------------------------------------
(* What follows from the counts.                                           *)

LEMMA CountsAreFrames ==
    ASSUME ConvInv, CountInv
    PROVE  FlowCounters /\ TimelineIsPrefix
<1>1. FlowCounters
  <2> SUFFICES ASSUME NEW k \in DOMAIN flows
               PROVE  LET mine == FramesOf(k, flows[k].first, Len(seen))
                      IN  /\ flows[k].packets = Cardinality(mine)
                          /\ flows[k].flags = UNION {seen[i].flags : i \in mine}
                          /\ flows[k].last = Max(mine)
    BY DEF FlowCounters
  <2> DEFINE mine == FramesOf(k, flows[k].first, Len(seen))
  <2>1. /\ flows[k].packets = Cardinality(mine)
        /\ flows[k].flags = UNION {seen[i].flags : i \in mine}
        /\ LatestIs(flows[k].last, mine)
    BY DEF CountInv, FlowTotals, FlagsIn, FramesOf
  <2>2. mine \subseteq Int
    <3>1. Len(seen) \in Nat
      BY LenProperties DEF ConvInv, ConvTypeOK
    <3>2. flows[k] \in FlowType
      BY DEF ConvInv, ConvTypeOK
    <3>3. flows[k].first \in Nat
      BY <3>2 DEF FlowType
    <3> QED BY <3>1, <3>3 DEF FramesOf, FramesIn
  <2> DEFINE last == flows[k].last
  <2> HIDE DEF mine, last
  <2>3. last \in mine /\ \A i \in mine : i <= last
    BY <2>1 DEF LatestIs, last
  <2>4. \A m \in mine : (\A i \in mine : m >= i) => m = last
    BY <2>2, <2>3
  <2>5. \E m \in mine : \A i \in mine : m >= i
    BY <2>2, <2>3
  <2>6. Max(mine) = last
    BY <2>4, <2>5 DEF Max
  <2> QED BY <2>1, <2>6 DEF mine, last
<1>2. PlayerNo - 1 = Len(seen) - (IF current THEN 1 ELSE 0)
  <2>1. Len(seen) \in Nat
    BY LenProperties DEF ConvInv, ConvTypeOK
  <2> QED BY <2>1 DEF PlayerNo
<1>3. TimelineIsPrefix
  BY <1>2 DEF CountInv, SessionTotals, TimelineIsPrefix, FramesOf
<1> QED BY <1>1, <1>3

\* Two tables that count the frames of k from different frames on differ by the
\* frames between.
LEMMA EarlierHasMore ==
    ASSUME NEW log, NEW k, NEW a \in Nat, NEW b \in Nat, NEW x \in Nat, NEW y \in Nat,
           a < b, a <= y, x <= y, KeyOf(log[a]) = k
    PROVE  Cardinality(FramesIn(log, k, b, x)) < Cardinality(FramesIn(log, k, a, y))
<1> DEFINE S == FramesIn(log, k, b, x)
           T == FramesIn(log, k, a, y)
<1>1. S \subseteq T /\ a \in T /\ a \notin S
  BY DEF FramesIn
<1>2. IsFiniteSet(S) /\ IsFiniteSet(T)
  BY FramesAreFinite
<1> HIDE DEF S, T
<1>3. Cardinality(S) <= Cardinality(T) /\ (Cardinality(S) = Cardinality(T) => S = T)
      /\ Cardinality(S) \in Nat /\ Cardinality(T) \in Nat
  BY <1>1, <1>2, FS_Subset, FS_CardinalityType
<1> QED BY <1>1, <1>3 DEF S, T

LEMMA CountsAgree ==
    ASSUME ConvInv, CountInv
    PROVE  TablesAgree
<1> SUFFICES ASSUME NEW k \in DOMAIN flows \cap DOMAIN sessions
             PROVE  LET f == flows[k]
                        s == sessions[k]
                        lag == IF current /\ KeyOf(seen[Len(seen)]) = k THEN 1 ELSE 0
                    IN  /\ f.first = s.first => /\ f.packets = s.packets + lag
                                                /\ lag = 0 => f.bytes = s.bytes
                        /\ f.first < s.first => f.packets > s.packets + lag
                        /\ f.first > s.first => f.packets < s.packets + lag
  BY DEF TablesAgree
<1> DEFINE a == flows[k].first
           b == sessions[k].first
           no == Len(seen)
           to == PlayerNo - 1
           lag == IF current /\ KeyOf(seen[Len(seen)]) = k THEN 1 ELSE 0
           mineF == FramesIn(seen, k, a, to)
           mineS == FramesIn(seen, k, b, to)
<1>1. /\ flows[k].packets = Cardinality(FramesIn(seen, k, a, no))
      /\ sessions[k].packets = Cardinality(mineS)
      /\ EnteredBy(flows[k], k, seen, no) /\ EnteredBy(sessions[k], k, seen, to)
      /\ a = b => flows[k].bytes = sessions[k].bytes + LagBytes(k)
  BY DEF CountInv, FlowTotals, SessionTotals
<1>2. no \in Nat /\ to \in Nat /\ no = (IF current THEN to + 1 ELSE to) /\ current \in BOOLEAN
  <2>1. no \in Nat /\ current \in BOOLEAN /\ (current => no > 0)
    BY LenProperties DEF ConvInv, ConvTypeOK
  <2> HIDE DEF no
  <2> QED BY <2>1 DEF PlayerNo, no
<1>3. a \in 1 .. no /\ b \in 1 .. to /\ KeyOf(seen[a]) = k /\ KeyOf(seen[b]) = k
  BY <1>1 DEF EnteredBy
<1>4. lag = 0 => LagBytes(k) = 0
  BY DEF LagBytes
<1>5. sessions[k].bytes \in Nat
  <2>1. sessions[k] \in SessionType
    BY DEF ConvInv, ConvTypeOK
  <2> QED BY <2>1 DEF SessionType
<1> HIDE DEF a, b, to
<1>6. /\ IsFiniteSet(mineF) /\ IsFiniteSet(mineS)
      /\ Cardinality(mineF) \in Nat /\ Cardinality(mineS) \in Nat
  <2>1. a \in Nat /\ b \in Nat /\ to \in Nat
    BY <1>2, <1>3
  <2>2. IsFiniteSet(mineF)
    BY <2>1, FramesAreFinite
  <2>3. IsFiniteSet(mineS)
    BY <2>1, FramesAreFinite
  <2> HIDE DEF mineF, mineS
  <2> QED BY <2>2, <2>3, FS_CardinalityType
<1>7. flows[k].packets = Cardinality(mineF) + lag
  <2>1. CASE current
    <3>1. no = to + 1 /\ a \in Nat \ {0} /\ a <= to + 1
      BY <1>2, <1>3, <2>1
    <3>2. Stepped(mineF, seen, seen, k, a, to)
      <4> DEFINE log == seen
      <4>1. SameUpTo(log, log, to) /\ mineF = FramesIn(log, k, a, to)
        BY DEF SameUpTo
      <4> HIDE DEF log, mineF
      <4>2. Stepped(mineF, log, log, k, a, to)
        BY <1>2, <3>1, <4>1, FramesStep
      <4> QED BY <4>2 DEF log
    <3> HIDE DEF mineF
    <3>3. /\ to + 1 \notin mineF
          /\ FramesIn(seen, k, a, to + 1) =
               mineF \cup (IF KeyOf(seen[to + 1]) = k THEN {to + 1} ELSE {})
      BY <3>2 DEF Stepped
    <3>4. CASE KeyOf(seen[no]) = k
      <4>1. lag = 1 /\ FramesIn(seen, k, a, no) = mineF \cup {no} /\ no \notin mineF
        BY <2>1, <3>1, <3>3, <3>4
      <4>2. Cardinality(mineF \cup {no}) = Cardinality(mineF) + 1
        <5> HIDE DEF no
        <5> QED BY <1>6, <4>1, FS_AddElement
      <4> QED BY <1>1, <4>1, <4>2
    <3>5. CASE KeyOf(seen[no]) # k
      <4>1. lag = 0 /\ FramesIn(seen, k, a, no) = mineF
        BY <2>1, <3>1, <3>3, <3>5
      <4> QED BY <1>1, <1>6, <4>1
    <3> QED BY <3>4, <3>5
  <2>2. CASE ~current
    <3>1. lag = 0 /\ no = to
      BY <1>2, <2>2
    <3> QED BY <1>1, <1>6, <3>1
  <2> QED BY <1>2, <2>1, <2>2
<1>8. a < b => Cardinality(mineS) < Cardinality(mineF)
  <2> HAVE a < b
  <2> DEFINE log == seen
  <2>1. a \in Nat /\ b \in Nat /\ a <= to /\ to <= to /\ KeyOf(log[a]) = k
    BY <1>2, <1>3
  <2> HIDE DEF log
  <2>2. Cardinality(FramesIn(log, k, b, to)) < Cardinality(FramesIn(log, k, a, to))
    BY <1>2, <2>1, EarlierHasMore
  <2> QED BY <2>2 DEF log
<1>9. a > b => Cardinality(mineF) < Cardinality(mineS)
  <2> HAVE a > b
  <2> DEFINE log == seen
  <2>1. a \in Nat /\ b \in Nat /\ b <= to /\ b < a /\ to <= to /\ KeyOf(log[b]) = k
    BY <1>2, <1>3
  <2> HIDE DEF log
  <2>2. Cardinality(FramesIn(log, k, a, to)) < Cardinality(FramesIn(log, k, b, to))
    BY <1>2, <2>1, EarlierHasMore
  <2> QED BY <2>2 DEF log
<1> DEFINE f == flows[k]
           s == sessions[k]
           cf == Cardinality(mineF)
           cs == Cardinality(mineS)
<1>10. f.packets = cf + lag /\ s.packets = cs /\ lag \in Nat /\ cf \in Nat /\ cs \in Nat
  BY <1>1, <1>6, <1>7
<1>11. a = b => f.bytes = s.bytes + LagBytes(k)
  BY <1>1
<1>12. a = b => cf = cs
  OBVIOUS
<1> HIDE DEF cf, cs, lag
<1>13. /\ a = b => f.packets = s.packets + lag
       /\ a < b => f.packets > s.packets + lag
       /\ a > b => f.packets < s.packets + lag
  BY <1>8, <1>9, <1>10, <1>12 DEF cf, cs
<1>14. a = b /\ lag = 0 => f.bytes = s.bytes
  BY <1>4, <1>5, <1>11 DEF lag
<1> QED BY <1>13, <1>14 DEF a, b, lag

\* The parts together are inductive, given the first invariant.
THEOREM ConvCounts == ConvSpec => []CountInv
<1>1. ConvInit => CountInv
  BY DEF ConvInit, Empty, CountInv
<1>2. ConvInv /\ CountInv /\ [ConvNext]_convVars => CountInv'
  <2> SUFFICES ASSUME ConvInv, CountInv, [ConvNext]_convVars PROVE CountInv'
    OBVIOUS
  <2>1. ASSUME NEW f \in Frames, TrackerObserve(f) PROVE CountInv'
    BY <2>1, TrackerCounts
  <2>2. CASE PlayerObserve
    BY <2>2, PlayerCounts
  <2>3. CASE UNCHANGED convVars
    BY <2>3 DEF convVars, trackerVars, playerVars, CountInv, PlayerNo, LagBytes
  <2> QED BY <2>1, <2>2, <2>3 DEF ConvNext
<1> QED BY <1>1, <1>2, ConvInvariance, PTL DEF ConvSpec

\* The recursive sum is the bytes that a flow has counted.
LEMMA BytesAreSince ==
    ASSUME NEW k, NEW first, NEW bytes, SumsTo(seen, k, first, Len(seen), bytes)
    PROVE  BytesSince(k, first) = bytes
<1> DEFINE sum == CHOOSE g : PartialSums(seen, k, first, Len(seen), g)
<1>1. PartialSums(seen, k, first, Len(seen), sum)
  BY DEF SumsTo
<1>2. BytesSince(k, first) = sum[Len(seen)]
  BY DEF BytesSince, PartialSums, LengthIn
<1> QED BY <1>1, <1>2 DEF SumsTo

\* Packets, bytes, flags and time of a flow are those of its frames since it was
\* entered.
THEOREM ConvFlowCountsItsFrames == ConvSpec => []FlowCountsItsFrames
<1>1. ConvInv /\ CountInv => FlowCounters
  BY CountsAreFrames
<1>2. CountInv => FlowBytes
  BY BytesAreSince DEF CountInv, FlowTotals, FlowBytes
<1> QED BY <1>1, <1>2, ConvInvariance, ConvCounts, PTL DEF FlowCountsItsFrames

\* A session keeps the numbers of its first frames and its first beats, in order,
\* for all caps.
THEOREM ConvTimelineIsPrefix == ConvSpec => []TimelineIsPrefix
<1>1. ConvInv /\ CountInv => TimelineIsPrefix
  BY CountsAreFrames
<1> QED BY <1>1, ConvInvariance, ConvCounts, PTL

\* The two tables differ in a conversation only by the frames that one of them
\* has seen before the other entered it, whatever their limits.
THEOREM ConvTablesAgree == ConvSpec => []TablesAgree
<1>1. ConvInv /\ CountInv => TablesAgree
  BY CountsAgree
<1> QED BY <1>1, ConvInvariance, ConvCounts, PTL
=============================================================================
