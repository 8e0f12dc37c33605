---------------------------- MODULE VPackBuilder ----------------------------
(* The velocypack Builder, as this extension uses it.  The library is not   *)
(* part of the repository (src/velocypack is an empty submodule), so the    *)
(* module is a contract: what every call the extension makes writes, when   *)
(* it throws, and which states the library leaves unspecified.              *)
(*                                                                          *)
(* A document is a sequence of tokens.  A builder is a record:              *)
(*   st      "good"  the operations so far are a prefix of a document       *)
(*           "threw" the last operation threw a C++ exception               *)
(*           "bad"   the library promises nothing until the next clear()    *)
(*   toks    the tokens written                                             *)
(*   open    the kinds of the open containers, outermost first              *)
(*   keyed   an object key was written and still waits for its value        *)
(*   tagged  a tag was written and still waits for its value                *)
EXTENDS Integers, Sequences, FiniteSets

\* A key argument is <<>> for nullptr and <<text>> for a name.
NoKey == <<>>
KeyArg == {NoKey} \cup [1..1 -> STRING]

Container == {"array", "object"}
Token == ({"tag", "uint"} \X Int) \cup ({"str", "double"} \X STRING)
         \cup ({"const"} \X {"null", "false", "true"}) \cup ({"open"} \X Container)
         \cup {<<"close">>, <<"none">>, <<"garbage">>}

Document == Seq(Token)
Builder == [st : {"good", "bad"}, toks : Document, open : Seq(Container),
            keyed : BOOLEAN, tagged : BOOLEAN]

Fresh == [st |-> "good", toks |-> <<>>, open |-> <<>>,
          keyed |-> FALSE, tagged |-> FALSE]
Failed(s) == [Fresh EXCEPT !.st = s]

InObject(b) == b.open # <<>> /\ b.open[Len(b.open)] = "object"
WantsKey(b) == InObject(b) /\ ~b.keyed

\* The key part of addTagged(key, keyLen, tag, value).
WriteKey(b, key) ==
    IF b.st # "good" \/ key = NoKey THEN b
    ELSE IF b.open = <<>> \/ b.tagged THEN Failed("bad")
    ELSE IF ~WantsKey(b) THEN Failed("threw")
    ELSE [b EXCEPT !.toks = Append(@, <<"str", key[1]>>), !.keyed = TRUE]

\* The tag part of addTagged: tag 0 writes nothing.
WriteTag(b, tag) ==
    IF b.st # "good" \/ tag = 0 THEN b
    ELSE IF WantsKey(b) THEN Failed("bad")
    ELSE [b EXCEPT !.toks = Append(@, <<"tag", tag>>), !.tagged = TRUE]

\* The value part for a scalar: a string where a key is due becomes the key.
WriteAtom(b, tok) ==
    IF b.st # "good" THEN b
    ELSE IF WantsKey(b) /\ tok[1] # "str" THEN Failed("threw")
    ELSE [b EXCEPT !.toks = Append(@, tok), !.keyed = WantsKey(b), !.tagged = FALSE]

OpenContainer(b, kind) ==
    IF b.st # "good" THEN b
    ELSE IF WantsKey(b) THEN Failed("threw")
    ELSE [b EXCEPT !.toks = Append(@, <<"open", kind>>), !.open = Append(@, kind),
                   !.keyed = FALSE, !.tagged = FALSE]

CloseContainer(b) ==
    IF b.st # "good" THEN b
    ELSE IF b.open = <<>> THEN Failed("threw")
    ELSE IF b.keyed \/ b.tagged THEN Failed("bad")
    ELSE [b EXCEPT !.toks = Append(@, <<"close">>),
                   !.open = SubSeq(@, 1, Len(@) - 1)]

\* Whether the call that led to b throws: a builder the library promises
\* nothing about may do either.
Throws(b) == CASE b.st = "good" -> {FALSE}
               [] b.st = "threw" -> {TRUE}
               [] OTHER -> BOOLEAN
\* The builder after that call.
Settled(b) == IF b.st = "good" THEN b ELSE Failed("bad")

-----------------------------------------------------------------------------
\* slice() returns the first value in the buffer: the shortest prefix that is
\* a complete value.  An empty buffer holds the None slice.
NoneDoc == << <<"none">> >>
Garbage == << <<"garbage">> >>

Opened(toks, i) == Cardinality({j \in 1..i : toks[j][1] = "open"})
Closed(toks, i) == Cardinality({j \in 1..i : toks[j][1] = "close"})
\* The positions at which a complete value ends.
Ends(toks) == {i \in DOMAIN toks : toks[i][1] # "tag" /\ Opened(toks, i) = Closed(toks, i)}
FirstValue(toks) ==
    IF toks = <<>> THEN NoneDoc
    ELSE IF Ends(toks) = {} THEN Garbage
    ELSE SubSeq(toks, 1, CHOOSE i \in Ends(toks) : \A j \in Ends(toks) : i <= j)

\* Whether slice() may throw BuilderNotSealed, and what it returns otherwise.
SliceThrows(b) == IF b.st = "good" THEN {b.open # <<>>} ELSE BOOLEAN
SliceDoc(b) == IF b.st = "good" /\ b.open = <<>> /\ ~b.tagged
               THEN FirstValue(b.toks) ELSE Garbage
=============================================================================
