------------------------------ MODULE MCCalls -------------------------------
(* TypeMapper::serialize called by a script on a catalogue of values: every *)
(* kind of node, nested, honest and not.                                    *)
EXTENDS SerializerDoc, HeapNotation

MCHeap ==
    "nil"   :> Blank("null")
 @@ "minus" :> Long(-1)
 @@ "two"   :> Long(2)
 @@ "text"  :> Text("t")
 @@ "res"   :> Blank("unsupported")
 @@ "void"  :> Array(<<>>)
 @@ "list"  :> Array(<<At(0, "minus"), At(1, "text"), At(2, "void")>>)
 @@ "map"   :> Array(<<At(7, "two"), Named("a", "list"), Named("b", "nil")>>)
 @@ "gap"   :> Array(<<At(0, "two"), At(1, "res"), At(2, "text")>>)
 @@ "hole"  :> Array(<<Named("a", "res"), Named("b", "two")>>)
 @@ "moved" :> [Array(<<At(0, "two"), At(1, "text")>>) EXCEPT !.cursor = 0]
 @@ "obj"   :> Table("plain", 0, <<Named("p", "map"), Named("q", "error")>>)
 @@ "tobj"  :> Table("plain", 9, <<Named("p", "list")>>)
 @@ "error" :> Callback("serializable", 5,
                 <<Open("object", "text"), AddObjectValue("message", 0, "text"), Close("text")>>)
 @@ "wrap"  :> Callback("mapped", 7, <<AddValue(3, "error")>>)
 @@ "many"  :> Callback("mapped", 0,
                 <<Open("array", "nil"), AddValue(0, "error"), AddValue(4, "tobj"), Close("nil")>>)
 @@ "noid"  :> Asking(6, <<Throw("nil")>>, <<AddValue(0, "two")>>)
 @@ "slow"  :> Asking(6, <<AddValue(0, "two"), Clear("nil")>>, <<AddValue(0, "error")>>)
 @@ "boom"  :> Callback("serializable", 5, <<Open("array", "nil"), Throw("nil"), Close("nil")>>)
 @@ "late"  :> Callback("mapped", 5, <<AddValue(0, "two"), Throw("nil")>>)
 @@ "open"  :> Callback("serializable", 5, <<Open("array", "nil")>>)
 @@ "mute"  :> Callback("serializable", 5, <<>>)
 @@ "bare"  :> Callback("mapped", 5, <<Open("object", "nil"), AddValue(0, "nil"), Close("nil")>>)
 @@ "deep"  :> Array(<<Named("a", "many"), Named("b", "obj"), Named("c", "wrap")>>)
 @@ "bad1"  :> Array(<<At(0, "wrap"), At(1, "boom"), At(2, "error")>>)
 @@ "bad2"  :> Array(<<Named("x", "noid"), Named("y", "obj"), Named("z", "slow")>>)
 @@ "bad3"  :> Array(<<At(0, "late"), At(1, "many"), At(2, "mute"), At(3, "two")>>)
 @@ "bad4"  :> Array(<<At(0, "list"), At(1, "open"), At(2, "bare"), At(3, "two")>>)

MCScriptOps == {Call(v) : v \in DOMAIN MCHeap}
=============================================================================
