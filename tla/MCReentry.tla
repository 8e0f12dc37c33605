------------------------------ MODULE MCReentry -----------------------------
(* Every body of toVPack of up to MaxWords steps and of getTagId of up to   *)
(* MaxTagWords, among the steps nested calls of TypeMapper::serialize and   *)
(* clear(), and every place to put such a value: alone, in a list, under a  *)
(* key.  A value is named by what it is.                                    *)
EXTENDS SerializerDoc, HeapNotation

CONSTANTS MaxWords, MaxTagWords

Words == {"open", "close", "add", "nest", "clear", "throw"}
Bodies(n) == UNION {[1..k -> Words] : k \in 0..n}

Two == <<"two">>
Pair == <<"pair">>
Good == <<"good">>
Step1(w) == CASE w = "open" -> Open("array", Two)
              [] w = "close" -> Close(Two)
              [] w = "add" -> AddValue(0, Two)
              [] w = "nest" -> Call(Pair)
              [] w = "clear" -> Clear(Two)
              [] w = "throw" -> Throw(Two)

\* A name: where the value is, which of its callbacks has the body, the body.
Places == {"alone", "list", "key"}
Methods == {"toVPack", "getTagId"}

Steps(v) == LET body == SubSeq(v, 3, Len(v)) IN [i \in DOMAIN body |-> Step1(body[i])]
Alone(v) == [v EXCEPT ![1] = "alone"]
NodeOf(v) ==
    CASE v = Two -> Long(2)
      [] v = Pair -> Array(<<At(0, Two), At(1, Good)>>)
      [] v = Good -> Callback("mapped", 7, <<AddValue(0, Two)>>)
      [] v[1] = "alone" /\ v[2] = "toVPack" -> Callback("serializable", 5, Steps(v))
      [] v[1] = "alone" /\ v[2] = "getTagId" -> Asking(5, Steps(v), <<AddValue(0, Two)>>)
      [] v[1] = "list" -> Array(<<At(0, Alone(v)), At(1, Two)>>)
      [] v[1] = "key" -> Array(<<Named("a", Alone(v)), Named("b", Two)>>)

Bodied(m, n) == {<<s, m>> \o p : s \in Places, p \in Bodies(n)}
MCHeap == [v \in {Two, Pair, Good} \cup Bodied("toVPack", MaxWords)
                 \cup Bodied("getTagId", MaxTagWords) |-> NodeOf(v)]
MCScriptOps == {Call(v) : v \in DOMAIN MCHeap}
=============================================================================
