--------------------------- MODULE MCDeserializer ---------------------------
(* A table of tagged values, one with a second tag under the first, a table *)
(* with a table in it, and one with a number getInt cannot return.          *)
EXTENDS Deserializer, TLC

Leaf(kind) == [kind |-> kind, tag |-> 5, entries |-> <<>>]
E(k, n) == [key |-> k, val |-> n]
Tagged(t, n) == [kind |-> "tagged", tag |-> t, entries |-> <<E("", n)>>]
Table2(kind, entries) == [kind |-> kind, tag |-> 5, entries |-> entries]

MCDoc == "one" :> Leaf("scalar") @@ "odd" :> Leaf("odd") @@ "huge" :> Leaf("huge")
    @@ "five" :> Tagged(5, "one") @@ "six" :> Tagged(6, "five")
    @@ "list" :> Table2("array", <<E("", "five"), E("", "six"), E("", "odd")>>)
    @@ "map" :> Table2("object", <<E("a", "inner"), E("b", "six")>>)
    @@ "inner" :> Table2("array", <<E("", "one"), E("", "five")>>)
    @@ "over" :> Table2("array", <<E("", "five"), E("", "huge")>>)
=============================================================================
