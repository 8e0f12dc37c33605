----------------------------- MODULE MCRoundTrip -----------------------------
(* Tables of up to three entries with every kind of key, in every order and   *)
(* with every cursor, tables in tables, objects, and a list of eleven, the     *)
(* shortest that texts order differently.                                     *)
EXTENDS RoundTrip

MCOrder == <<"~hidden", " ", "-1", "0", "1", "10", "2", "3", "4", "5", "6", "7",
             "8", "9", "a">>
MCIntOf == [t \in {"-1", "0", "1", "10", "2", "3", "4", "5", "6", "7", "8", "9"} |->
    CASE t = "-1" -> -1 [] t = "0" -> 0 [] t = "1" -> 1 [] t = "10" -> 10
      [] t = "2" -> 2 [] t = "3" -> 3 [] t = "4" -> 4 [] t = "5" -> 5
      [] t = "6" -> 6 [] t = "7" -> 7 [] t = "8" -> 8 [] t = "9" -> 9]

ScalarValue(kind, n) == [p \in {<<>>} |-> Node(kind, n, <<>>, 0)]
\* The table whose i-th entry has key keys[i] and holds the value vals[i].
Table(kind, keys, vals, c) ==
    [p \in {<<>>} \cup UNION {{<<i>> \o q : q \in DOMAIN vals[i]} : i \in DOMAIN vals} |->
        IF p = <<>>
        THEN Node(kind, 0, [i \in DOMAIN vals |-> [key |-> keys[i], at |-> i]], c)
        ELSE vals[Head(p)][Tail(p)]]

Scalar == {ScalarValue("null", 0), ScalarValue("true", 0), ScalarValue("long", 0),
           ScalarValue("long", 3), ScalarValue("long", -1), ScalarValue("long", -4),
           ScalarValue("double", 0), ScalarValue("string", 0)}
ArrayKeys == {IntKey(n) : n \in {-1, 0, 1, 2, 10}} \cup {NameKey(t) : t \in {" ", "a"}}
PropertyKeys == {NameKey(t) : t \in {"~hidden", "0", "2", "10", "a"}}
FewKeys == {IntKey(0), IntKey(1), NameKey("a")}

\* The tables with these keys, the i-th value one of vals[i].
Every(kind, keys, vals) ==
    {Table(kind, k, v, c) :
        k \in {s \in [DOMAIN vals -> keys] : IsInjective(s)},
        v \in {s \in [DOMAIN vals -> UNION Range(vals)] : \A i \in DOMAIN s : s[i] \in vals[i]},
        c \in 0..Len(vals)}
LongIs(n) == {ScalarValue("long", n)}
Empty(kind) == Table(kind, <<>>, <<>>, 0)

Inner == Every("array", FewKeys, <<LongIs(1), {ScalarValue("double", 0), ScalarValue("long", 2)}>>)
            \cup Every("plain", {NameKey("2"), NameKey("a")}, <<LongIs(-1)>>)
            \cup {Empty("array")}
Eleven(c) == Table("array", [i \in 1..11 |-> IntKey(i - 1)],
                   [i \in 1..11 |-> ScalarValue("long", i % 3)], c)

MCValues ==
    Scalar
    \cup {Empty("array"), Empty("plain"), Eleven(0), Eleven(1), Eleven(11)}
    \cup Every("array", ArrayKeys, <<Scalar>>)
    \cup Every("array", ArrayKeys, <<Scalar, LongIs(2)>>)
    \cup Every("array", ArrayKeys, <<LongIs(1), LongIs(2), LongIs(2)>>)
    \cup Every("plain", PropertyKeys, <<Scalar>>)
    \cup Every("plain", PropertyKeys, <<LongIs(1), LongIs(2)>>)
    \cup Every("array", FewKeys, <<Inner, LongIs(2)>>)
    \cup {Table("array", <<IntKey(0)>>, <<Eleven(c)>>, 1) : c \in 0..1}
=============================================================================
