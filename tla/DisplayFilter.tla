---------------------------- MODULE DisplayFilter ----------------------------
(***************************************************************************)
(* filter.Match: whether a frame passes a display filter.  The code splits *)
(* the text of the filter again and again, at the operators outside of     *)
(* parentheses; here the text is a sequence of words with one space        *)
(* between them, where a condition (the name of a protocol, or a field     *)
(* compared with a value) is one word.                                     *)
(*                                                                         *)
(* What a filter should mean is defined on its syntax tree, as an operator *)
(* has to be: or binds weaker than and, and weaker than not.               *)
(***************************************************************************)
EXTENDS Integers, Sequences, SequencesExt

CONSTANT Conditions     \* what each word that is a condition says

OrWords == {"or", "||"}
AndWords == {"and", "&&"}
NotWords == {"not", "!"}

-----------------------------------------------------------------------------
(* One condition.  A frame has a length, the names of its protocol and     *)
(* layers, and what was decoded by key: numbers, or sets of words.         *)

Named(name) == [op |-> "", name |-> name]
Compared(field, op, value) == [op |-> op, field |-> field, value |-> value]

Absent == -1            \* the empty string, which is no number either

MetaOf(f, key) == IF key \in DOMAIN f.meta THEN f.meta[key] ELSE Absent

\* Several fields have more than one name.
KeyOf(field) ==
    CASE field \in {"tcp.srcport", "udp.srcport", "sport"} -> "sport"
      [] field \in {"tcp.dstport", "udp.dstport", "dport"} -> "dport"
      [] field \in {"dns.qry.name", "dns.qry"} -> "dns_qry"
      [] field \in {"tls.sni", "sni"} -> "sni"
      [] OTHER -> field

\* A port without a side is both ports.
Resolve(f, field) ==
    CASE field \in {"frame.len", "len", "length"} -> <<f.length>>
      [] field \in {"tcp.port", "udp.port", "port"} -> <<MetaOf(f, "sport"), MetaOf(f, "dport")>>
      [] OTHER -> <<MetaOf(f, KeyOf(field))>>

\* A name: the words it contains.
ResolveText(f, field) == IF KeyOf(field) \in DOMAIN f.meta THEN f.meta[KeyOf(field)] ELSE {}

Order(op, x, y) == CASE op = ">" -> x > y [] op = ">=" -> x >= y
                     [] op = "<" -> x < y [] op = "<=" -> x <= y

\* Of the two ports only the first can be ordered: toFloat.  Numbers are compared,
\* names contain words.
Compare(f, field, op, value) ==
    LET values == Resolve(f, field)
    IN  CASE op = "contains"    -> value \in ResolveText(f, field)
          [] op \in {"==", "="} -> \E i \in DOMAIN values : values[i] = value
          [] op = "!="          -> \A i \in DOMAIN values : values[i] # value
          [] OTHER              -> values[1] # Absent /\ Order(op, values[1], value)

Alias(name) == CASE name \in {"ip", "ipv4"} -> "ipv4"
                 [] name \in {"h2", "http2"} -> "http/2"
                 [] OTHER -> name

HasProtocol(f, name) == {name, Alias(name)} \cap f.layers # {}

Holds(f, c) ==
    IF c.op = "" THEN HasProtocol(f, c.name) \/ c.name \in DOMAIN f.meta
                 ELSE Compare(f, c.field, c.op, c.value)

-----------------------------------------------------------------------------
(* Conditions and operators.                                               *)

Before(e, i, w) == Len(SelectSeq(SubSeq(e, 1, i - 1), LAMBDA x : x = w))

\* Bug: parentheses are not looked at.
TopLevelFlat(e, i) == TRUE

\* depth == 0
TopLevel(e, i) == Before(e, i, "(") = Before(e, i, ")")

\* splitTop: the parts of e between the separators at its top level.
SplitTop(e, sep) ==
    LET cuts == SelectSeq([i \in 1..Len(e) |-> i], LAMBDA i : e[i] = sep /\ TopLevel(e, i))
        ends == Append(cuts, Len(e) + 1)
    IN  [k \in 1..Len(ends) |-> SubSeq(e, IF k = 1 THEN 1 ELSE ends[k-1] + 1, ends[k] - 1)]

\* evalOr and evalAnd look for the second spelling if the first is not there.
SplitEither(e, sep, other) ==
    IF Len(SplitTop(e, sep)) = 1 THEN SplitTop(e, other) ELSE SplitTop(e, sep)

RECURSIVE EvalOr(_, _)

\* evalAtom: parentheses, one condition, or a text that is neither.  Such a text
\* is the name of no protocol; one with a comparison in it would be compared
\* somehow, but no filter below gets there.
EvalAtom(f, e) ==
    IF e # <<>> /\ Head(e) = "(" /\ Last(e) = ")"
    THEN EvalOr(f, SubSeq(e, 2, Len(e) - 1))
    ELSE Len(e) = 1 /\ e[1] \in DOMAIN Conditions /\ Holds(f, Conditions[e[1]])

EvalNot(f, e) ==
    IF e # <<>> /\ (Head(e) = "!" \/ (Head(e) = "not" /\ Len(e) > 1))
    THEN ~EvalAtom(f, Tail(e))
    ELSE EvalAtom(f, e)

EvalAnd(f, e) ==
    LET parts == SplitEither(e, "and", "&&") IN \A k \in DOMAIN parts : EvalNot(f, parts[k])

EvalOr(f, e) ==
    LET parts == SplitEither(e, "or", "||") IN \E k \in DOMAIN parts : EvalAnd(f, parts[k])

FilterMatch(f, e) == e = <<>> \/ EvalOr(f, e)

-----------------------------------------------------------------------------
(* Syntax trees, how they are written and what they mean.                  *)

Leaf(c) == [op |-> "", word |-> c]
Negation(w, t) == [op |-> "not", word |-> w, arg |-> t]
Binary(op, w, t, u) == [op |-> op, word |-> w, left |-> t, right |-> u]

Trees[n \in Nat] ==
    IF n = 0 THEN {Leaf(c) : c \in DOMAIN Conditions}
    ELSE LET T == Trees[n-1] IN
         T \cup {Negation(w, t) : w \in NotWords, t \in T}
           \cup {Binary("and", w, t, u) : w \in AndWords, t \in T, u \in T}
           \cup {Binary("or", w, t, u) : w \in OrWords, t \in T, u \in T}

Strength(t) == CASE t.op = "or" -> 1 [] t.op = "and" -> 2 [] t.op = "not" -> 3 [] t.op = "" -> 4

\* A negation that is negated, and an operator beside itself spelled differently,
\* are understood in parentheses only: filter.go:27-62.
Doubled(t, u) == u.op = t.op /\ (t.op = "not" \/ u.word # t.word)

RECURSIVE Written(_)

\* u as an operand of t.
Operand(t, u) ==
    IF Strength(u) < Strength(t) \/ Doubled(t, u) THEN <<"(">> \o Written(u) \o <<")">>
                                                  ELSE Written(u)

Written(t) ==
    CASE t.op = ""    -> <<t.word>>
      [] t.op = "not" -> <<t.word>> \o Operand(t, t.arg)
      [] OTHER        -> Operand(t, t.left) \o <<t.word>> \o Operand(t, t.right)

\* A comparison is of any of the values of a field, and != is the negation of ==.
ValuesOf(f, field) == {v \in {Resolve(f, field)[i] : i \in DOMAIN Resolve(f, field)} : v # Absent}

Says(f, c) ==
    CASE c.op = ""   -> c.name \in f.layers
      [] c.op = "==" -> c.value \in ValuesOf(f, c.field)
      [] c.op = "!=" -> c.value \notin ValuesOf(f, c.field)
      [] c.op = ">"  -> \E v \in ValuesOf(f, c.field) : v > c.value
      [] c.op = "contains" -> \E key \in {KeyOf(c.field)} \cap DOMAIN f.meta : c.value \in f.meta[key]

RECURSIVE Means(_, _)

Means(f, t) ==
    CASE t.op = ""    -> Says(f, Conditions[t.word])
      [] t.op = "not" -> ~Means(f, t.arg)
      [] t.op = "and" -> Means(f, t.left) /\ Means(f, t.right)
      [] t.op = "or"  -> Means(f, t.left) \/ Means(f, t.right)

AllFilters == Trees[2]
=============================================================================
