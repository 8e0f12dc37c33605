--------------------------- MODULE SerializerDoc ----------------------------
(* The document a PHP value stands for, defined by recursion over the       *)
(* value, and the properties of Serializer that are stated with it.         *)
EXTENDS Serializer, SequencesExt

\* A PHP table as its writer sees it: an object when some key is a string or
\* there is nothing in it, an array of the values otherwise.
TableIsObject(n) ==
    n.entries = <<>> \/ \E i \in DOMAIN n.entries : ~n.entries[i].key.long

TagDoc(tag) == IF tag = 0 THEN <<>> ELSE << <<"tag", tag>> >>
KeyDoc(key) == IF key = NoKey THEN <<>> ELSE << <<"str", key[1]>> >>
OpenDoc(kind) == << <<"open", kind>> >>
CloseDoc == << <<"close">> >>

ScalarDoc(n) ==
    IF n.kind = "long" THEN << <<"uint", IF n.n < 0 THEN n.n + LongMod ELSE n.n>> >>
    ELSE << Atom(n) >>

\* The values inside a value: those of its table, those its callback adds.
Parts(v) == {Heap[v].entries[i].val : i \in DOMAIN Heap[v].entries}
            \cup {o.val : o \in {p \in Range(Heap[v].prog) : p.op = "add"}}
\* Values are finitely deep: on one that contains itself the recursion of the
\* code, and the document it would write, have no end.
Depth[v \in Value] == 1 + Max({0} \cup {Depth[w] : w \in Parts(v)})
ASSUME NestingAssumption ==
    \A v \in Value : Depth[v] \in Nat /\ \A w \in Parts(v) : Depth[w] < Depth[v]

\* The document of one entry of a table and of one step of a callback, where
\* doc has the documents of the values.
EntryDoc(doc, n, i) ==
    (IF TableIsObject(n) THEN << <<"str", n.entries[i].key.s>> >> ELSE <<>>)
    \o doc[n.entries[i].val]
OpDoc(doc, o) == CASE o.op = "open" -> OpenDoc(o.kind)
                   [] o.op = "close" -> CloseDoc
                   [] o.op = "add" -> KeyDoc(o.key) \o TagDoc(o.tag) \o doc[o.val]
                   [] OTHER -> <<>>
TableDoc(doc, n) ==
    OpenDoc(IF TableIsObject(n) THEN "object" ELSE "array")
    \o FlattenSeq([i \in DOMAIN n.entries |-> EntryDoc(doc, n, i)])
    \o CloseDoc
BodyDoc(doc, n) == FlattenSeq([i \in DOMAIN n.prog |-> OpDoc(doc, n.prog[i])])

NodeDoc(doc, n) ==
    CASE n.kind \in Scalars -> ScalarDoc(n)
      [] n.kind = "array" -> TableDoc(doc, n)
      [] n.kind = "plain" -> TagDoc(n.tag) \o TableDoc(doc, n)
      [] n.kind \in {"serializable", "mapped"} -> TagDoc(n.tag) \o BodyDoc(doc, n)
      [] OTHER -> <<>>

\* The document of every value, callbacks included.
Doc[v \in Value] == NodeDoc(Doc, Heap[v])

\* A callback body that writes one value and nothing else: one addValue, or
\* a container it opens, fills and closes.
OneValue(p) ==
    \/ Len(p) = 1 /\ p[1].op = "add" /\ p[1].key = NoKey
    \/ /\ Len(p) >= 2 /\ p[1].op = "open" /\ p[Len(p)].op = "close"
       /\ \A i \in 2..(Len(p) - 1) :
            p[i].op = "add" /\ (p[i].key = NoKey <=> p[1].kind = "array")

\* The values the extension is meant for: no resource anywhere, every array
\* with its cursor at the start, every callback body in the style of the
\* examples: one value, written to the builder it was given, and a getTagId
\* that only returns the tag.
NodeHonest(honest, n) ==
    CASE n.kind \in Scalars -> TRUE
      [] n.kind \in {"array", "plain"} ->
           /\ n.cursor = (IF n.entries = <<>> THEN 0 ELSE 1)
           /\ \A i \in DOMAIN n.entries : honest[n.entries[i].val]
      [] n.kind \in {"serializable", "mapped"} ->
           /\ n.kind = "serializable" => n.getTagId = <<>>
           /\ OneValue(n.prog)
           /\ \A i \in DOMAIN n.prog :
                /\ n.prog[i].on = "given"
                /\ n.prog[i].op = "add" => honest[n.prog[i].val]
      [] OTHER -> FALSE
Honest[v \in Value] == NodeHonest(Honest, Heap[v])
Clean == {v \in Value : Honest[v]}

-----------------------------------------------------------------------------
\* A call of TypeMapper::serialize on an honest value that returns returns
\* the document of that value: whatever earlier calls, failed ones and those
\* it is nested in among them, and additions to other builders left in the
\* builder the mapper shares.
Faithful ==
    ret.ok /\ Honest[ret.val] => ret.doc = Doc[ret.val]

\* A call that a callback re-entered, and that returns all the same, returns
\* the document of the nested call, or rubbish, and never its own: the
\* nested call cleared the builder both of them write to.
Whole(doc) == doc # NoneDoc /\ doc # Garbage
NestedWins ==
    ret.ok /\ ret.last # <<>> /\ Whole(ret.last[1])
        => ret.doc \in {ret.last[1], Garbage}

\* Callbacks that do not call TypeMapper::serialize.
CallsFromScript ==
    \A v \in Value : /\ \A i \in DOMAIN Heap[v].prog : Heap[v].prog[i].op # "serialize"
                     /\ \A i \in DOMAIN Heap[v].getTagId : Heap[v].getTagId[i].op # "serialize"
\* Seen from a script whose callbacks are such, TypeMapper::serialize is
\* MapperCall: the outermost call is the one in progress.
Calls == {i \in DOMAIN stk : stk[i].f = "mapper"}
Promise == INSTANCE MapperCall WITH
    call <- IF Calls = {} THEN <<>>
            ELSE << stk[CHOOSE i \in Calls : \A j \in Calls : i <= j].val >>,
    answer <- IF ret = NoCall THEN [val |-> <<>>, doc |-> <<>>, ok |-> FALSE]
              ELSE [val |-> ret.val, doc |-> ret.doc, ok |-> ret.ok]
KeepsPromise == Promise!Spec
=============================================================================
