------------------------------- MODULE MCUser -------------------------------
(* A script that fills a builder of its own, with values that have callbacks *)
(* at every depth, and calls TypeMapper::serialize in between.              *)
EXTENDS SerializerDoc, HeapNotation

MCHeap ==
    "two"   :> Long(2)
 @@ "text"  :> Text("t")
 @@ "error" :> Callback("serializable", 5,
                 <<Open("object", "text"), AddObjectValue("m", 0, "text"), Close("text")>>)
 @@ "inner" :> Callback("mapped", 0, <<AddValue(3, "list")>>)
 @@ "list"  :> Array(<<At(0, "error"), At(1, "two")>>)
 @@ "map"   :> Array(<<Named("a", "inner"), Named("b", "two")>>)
 @@ "boom"  :> Callback("serializable", 5, <<AddValue(0, "list"), Throw("two")>>)
 @@ "again" :> Callback("mapped", 6, <<Call("list"), AddValue(0, "two")>>)
 @@ "asks"  :> Asking(5, <<AddValue(0, "list")>>, <<AddValue(0, "two")>>)

MCScriptOps ==
    {Open(k, "two") : k \in Container} \cup {Close("two"), Clear("two")}
    \cup {AddValue(t, v) : t \in {0, 4}, v \in {"two", "error", "map", "again", "boom", "asks"}}
    \cup {AddObjectValue("k", 0, v) : v \in {"two", "list", "inner"}}
    \cup {Call("list"), Call("map")}
=============================================================================
