------------------------------ MODULE MCReports ------------------------------
(***************************************************************************)
(* Three frames of three hosts, shown by the filter or hidden, and one     *)
(* handler (handlers do not disturb each other).  Every list has room for  *)
(* one key, of the three there are.                                        *)
(***************************************************************************)
EXTENDS Reports, DisplayFilter

CONSTANT h1

OneHandler == {h1}

Frame(src, dst, raises, layers, meta, length) ==
    [src |-> src, dst |-> dst, raises |-> raises, layers |-> layers, meta |-> meta,
     length |-> length, key |-> [hosts |-> {src, dst}, ip |-> "ipv4" \in layers]]

\* A long segment of a web connection, a short one of another that opens it the
\* other way round, and a frame with neither ports nor a name in it.
ThreeFrames ==
    {Frame("a", "b", TRUE, {"tcp", "ipv4"},
           ("sport" :> 50 @@ "dport" :> 443 @@ "sni" :> {"google"}), 200),
     Frame("b", "c", TRUE, {"tcp", "ipv4"}, ("sport" :> 443 @@ "dport" :> 50), 60),
     Frame("c", "b", FALSE, {"arp"}, [k \in {} |-> 0], 60)}

FourConditions ==
    "tcp" :> Named("tcp") @@ "tcp.port!=443" :> Compared("tcp.port", "!=", 443)
        @@ "len>60" :> Compared("len", ">", 60)
        @@ "tls.sni_contains_google" :> Compared("tls.sni", "contains", "google")

TwoFilters == {<<>>, <<"not", "len>60">>}

\* One stored frame, and no handler, are enough to look at what a filter selects.
OneStored ==
    /\ ended /\ Len(ingested) = 1 /\ ahead = <<>> /\ connectedAt = -1
    /\ \A h \in Handlers : kind[h] = NoReport

\* Engine.Filtered, which answers /api/packets: repeated splitting of the text of a
\* filter agrees with its syntax tree, whatever the nesting and the spellings, if every
\* operand is in parentheses that binds weaker than its operator, that is a negation
\* negated once more, or that has the same operator in its other spelling
\* (filter.go:24-95, 234-262, engine.go:152-163).
FilterAsGrammar ==
    OneStored =>
        \A t \in AllFilters : \A n \in 1..seen["store"] :
            FilterMatch(ingested[n], Written(t)) = Means(ingested[n], t)
=============================================================================
