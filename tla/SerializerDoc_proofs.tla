------------------------ MODULE SerializerDoc_proofs ------------------------
(* For every heap of values: what a call of TypeMapper::serialize returns.  *)
EXTENDS SerializerDoc, Serializer_proofs

-----------------------------------------------------------------------------
(* Calls that a callback re-entered.                                        *)

\* c is b with more written, unless the library promises nothing about it.
Extends(b, c) ==
    c.st = "good" => b.st = "good" /\ \E w \in Document : c.toks = b.toks \o w
\* doc is the first value in builder b, if the library promises anything.
HoldsFirst(b, doc) ==
    b.st = "good" => b.toks # <<>> /\ Ends(b.toks) # {} /\ FirstValue(b.toks) = doc
\* The document of the nested call that touched the mapper's builder last is
\* the first value in it, as long as it is any value.
Wins(s, b) ==
    \A i \in 1..Len(s) :
        s[i].last # <<>> /\ Whole(s[i].last[1]) => HoldsFirst(b, s[i].last[1])
WinsInv == Inv /\ Wins(stk, bld["mapper"]) /\ NestedWins

\* Writing after the first value does not change it.
LEMMA FirstValueStays ==
    ASSUME NEW toks \in Document, NEW w \in Document, toks # <<>>, Ends(toks) # {}
    PROVE  LET more == toks \o w
           IN  more # <<>> /\ Ends(more) # {} /\ FirstValue(more) = FirstValue(toks)
<1> DEFINE more == toks \o w
           least(S) == CHOOSE i \in S : \A j \in S : i <= j
<1>1. /\ more \in Document /\ Len(toks) \in Nat /\ Len(more) \in Nat /\ Len(toks) <= Len(more)
      /\ DOMAIN toks = 1..Len(toks) /\ DOMAIN more = 1..Len(more)
      /\ \A i \in 1..Len(toks) : more[i] = toks[i]
  BY DEF Document
<1>2. more # <<>>
  <2>1. Len(toks) # 0
    BY EmptySeq DEF Document
  <2> QED BY <1>1, <2>1
<1> HIDE DEF more
<1>3. ASSUME NEW i \in 1..Len(toks)
      PROVE  Opened(more, i) = Opened(toks, i) /\ Closed(more, i) = Closed(toks, i)
  <2>1. \A j \in 1..i : more[j] = toks[j]
    BY <1>1
  <2>2. \A kind : {j \in 1..i : more[j][1] = kind} = {j \in 1..i : toks[j][1] = kind}
    BY <2>1
  <2> QED BY <2>2 DEF Opened, Closed
<1>4. \A i \in 1..Len(toks) : i \in Ends(more) <=> i \in Ends(toks)
  BY <1>1, <1>3 DEF Ends
<1>5. Ends(toks) \subseteq 1..Len(toks) /\ Ends(more) \subseteq 1..Len(more)
  BY <1>1 DEF Ends
<1>6. PICK k \in Ends(toks) : \A j \in Ends(toks) : k <= j
  <2>1. Ends(toks) \in SUBSET Nat
    BY <1>1, <1>5
  <2> QED BY <2>1, NatMin
<1>7. k \in Ends(more) /\ \A j \in Ends(more) : k <= j
  BY <1>1, <1>4, <1>5, <1>6
<1>8. least(Ends(toks)) = k
  <2>1. \A i \in Ends(toks) : (\A j \in Ends(toks) : i <= j) => i = k
    BY <1>1, <1>5, <1>6
  <2> QED BY <1>6, <2>1
<1>9. least(Ends(more)) = k
  <2>1. \A i \in Ends(more) : (\A j \in Ends(more) : i <= j) => i = k
    BY <1>1, <1>5, <1>7
  <2> QED BY <1>7, <2>1
<1>10. SubSeq(more, 1, k) = SubSeq(toks, 1, k)
  <2>1. k \in 1..Len(toks)
    BY <1>5, <1>6
  <2> QED BY <1>1, <2>1 DEF Document
<1>11. FirstValue(more) = SubSeq(more, 1, k)
  BY <1>2, <1>7, <1>9 DEF FirstValue
<1>12. FirstValue(toks) = SubSeq(toks, 1, k)
  BY <1>8 DEF FirstValue
<1> QED BY <1>2, <1>7, <1>10, <1>11, <1>12 DEF more

LEMMA ExtendsHolds ==
    ASSUME NEW b \in AnyBuilder, NEW c \in AnyBuilder, Extends(b, c),
           NEW doc, HoldsFirst(b, doc)
    PROVE  HoldsFirst(c, doc)
<1> SUFFICES ASSUME c.st = "good" 
             PROVE  c.toks # <<>> /\ Ends(c.toks) # {} /\ FirstValue(c.toks) = doc
  BY DEF HoldsFirst
<1>1. PICK w \in Document : c.toks = b.toks \o w
  BY DEF Extends
<1>2. b.toks \in Document /\ b.toks # <<>> /\ Ends(b.toks) # {} /\ FirstValue(b.toks) = doc
  BY DEF AnyBuilder, Extends, HoldsFirst
<1> QED BY <1>1, <1>2, FirstValueStays

LEMMA ExtendsTwice ==
    ASSUME NEW a \in AnyBuilder, NEW b \in AnyBuilder, NEW c \in AnyBuilder,
           Extends(a, b), Extends(b, c)
    PROVE  Extends(a, c)
<1> SUFFICES ASSUME c.st = "good"
             PROVE  a.st = "good" /\ \E w \in Document : c.toks = a.toks \o w
  BY DEF Extends
<1>1. PICK v \in Document, w \in Document : b.toks = a.toks \o v /\ c.toks = b.toks \o w
  BY DEF Extends
<1>2. a.toks \in Document /\ v \o w \in Document
  BY DEF AnyBuilder, Document
<1>3. c.toks = a.toks \o (v \o w)
  <2>1. \A x, y, z \in Seq(Token) : (x \o y) \o z = x \o (y \o z)
    BY ConcatAssociative
  <2>2. a.toks \in Seq(Token) /\ v \in Seq(Token) /\ w \in Seq(Token)
    BY <1>2 DEF Document
  <2>3. (a.toks \o v) \o w = a.toks \o (v \o w)
    BY <2>1, <2>2, Zenon
  <2> QED BY <1>1, <2>3
<1> QED BY <1>2, <1>3 DEF Extends

LEMMA ExtendsSelf == ASSUME NEW b \in AnyBuilder PROVE Extends(b, b)
<1>1. <<>> \in Document /\ b.toks = b.toks \o <<>>
  BY DEF AnyBuilder, Document
<1> QED BY <1>1 DEF Extends

LEMMA ExtendsByOne ==
    ASSUME NEW b \in AnyBuilder, NEW c \in AnyBuilder, NEW tok \in Token,
           b.st = "good", c.toks = Append(b.toks, tok)
    PROVE  Extends(b, c)
<1>1. <<tok>> \in Document /\ Append(b.toks, tok) = b.toks \o <<tok>>
  BY AppendIsConcat DEF AnyBuilder, Document
<1> QED BY <1>1 DEF Extends

\* Every operation that writes extends the builder, or breaks it.
LEMMA WritesExtend ==
    ASSUME NEW b \in AnyBuilder
    PROVE  /\ \A key \in KeyArg : Extends(b, WriteKey(b, key))
           /\ \A tag \in Int : Extends(b, WriteTag(b, tag))
           /\ \A tok \in Token : Extends(b, WriteAtom(b, tok))
           /\ \A kind \in Container : Extends(b, OpenContainer(b, kind))
           /\ Extends(b, CloseContainer(b))
           /\ Extends(b, Settled(b))
<1>1. \A s : s # "good" => Extends(b, Failed(s))
  BY DEF Extends, Failed, Fresh
<1>2. ASSUME NEW key \in KeyArg PROVE Extends(b, WriteKey(b, key))
  <2>1. CASE b.st # "good" \/ key = NoKey
    BY <2>1, ExtendsSelf DEF WriteKey
  <2>2. CASE b.st = "good" /\ key # NoKey /\ (b.open = <<>> \/ b.tagged \/ ~WantsKey(b))
    <3>1. WriteKey(b, key) \in {Failed("bad"), Failed("threw")}
      BY <2>2 DEF WriteKey
    <3> QED BY <3>1, <1>1
  <2>3. CASE b.st = "good" /\ key # NoKey /\ ~(b.open = <<>> \/ b.tagged \/ ~WantsKey(b))
    <3>1. WriteKey(b, key).toks = Append(b.toks, <<"str", key[1]>>)
      BY <2>3 DEF WriteKey, AnyBuilder
    <3>2. <<"str", key[1]>> \in Token
      <4>1. key[1] \in STRING
        BY <2>3 DEF KeyArg
      <4> QED BY <4>1 DEF Token
    <3> QED BY <2>3, <3>1, <3>2, WriteKeyType, ExtendsByOne
  <2> QED BY <2>1, <2>2, <2>3
<1>3. ASSUME NEW tag \in Int PROVE Extends(b, WriteTag(b, tag))
  <2>1. CASE b.st # "good" \/ tag = 0
    BY <2>1, ExtendsSelf DEF WriteTag
  <2>2. CASE b.st = "good" /\ tag # 0 /\ WantsKey(b)
    BY <2>2, <1>1 DEF WriteTag
  <2>3. CASE b.st = "good" /\ tag # 0 /\ ~WantsKey(b)
    <3>1. WriteTag(b, tag).toks = Append(b.toks, <<"tag", tag>>)
      BY <2>3 DEF WriteTag, AnyBuilder
    <3>2. <<"tag", tag>> \in Token
      BY DEF Token
    <3> QED BY <2>3, <3>1, <3>2, WriteTagType, ExtendsByOne
  <2> QED BY <2>1, <2>2, <2>3
<1>4. ASSUME NEW tok \in Token PROVE Extends(b, WriteAtom(b, tok))
  <2>1. CASE b.st # "good"
    BY <2>1, ExtendsSelf DEF WriteAtom
  <2>2. CASE b.st = "good" /\ WantsKey(b) /\ tok[1] # "str"
    BY <2>2, <1>1 DEF WriteAtom
  <2>3. CASE b.st = "good" /\ ~(WantsKey(b) /\ tok[1] # "str")
    <3>1. WriteAtom(b, tok).toks = Append(b.toks, tok)
      BY <2>3 DEF WriteAtom, AnyBuilder
    <3> QED BY <2>3, <3>1, WriteAtomType, ExtendsByOne
  <2> QED BY <2>1, <2>2, <2>3
<1>5. ASSUME NEW kind \in Container PROVE Extends(b, OpenContainer(b, kind))
  <2>1. CASE b.st # "good"
    BY <2>1, ExtendsSelf DEF OpenContainer
  <2>2. CASE b.st = "good" /\ WantsKey(b)
    BY <2>2, <1>1 DEF OpenContainer
  <2>3. CASE b.st = "good" /\ ~WantsKey(b)
    <3>1. OpenContainer(b, kind).toks = Append(b.toks, <<"open", kind>>)
      BY <2>3 DEF OpenContainer, AnyBuilder
    <3>2. <<"open", kind>> \in Token
      BY DEF Token
    <3> QED BY <2>3, <3>1, <3>2, OpenContainerType, ExtendsByOne
  <2> QED BY <2>1, <2>2, <2>3
<1>6. Extends(b, CloseContainer(b))
  <2>1. CASE b.st # "good"
    BY <2>1, ExtendsSelf DEF CloseContainer
  <2>2. CASE b.st = "good" /\ (b.open = <<>> \/ b.keyed \/ b.tagged)
    <3>1. CloseContainer(b) \in {Failed("bad"), Failed("threw")}
      BY <2>2 DEF CloseContainer
    <3> QED BY <3>1, <1>1
  <2>3. CASE b.st = "good" /\ ~(b.open = <<>> \/ b.keyed \/ b.tagged)
    <3>1. CloseContainer(b).toks = Append(b.toks, <<"close">>)
      BY <2>3 DEF CloseContainer, AnyBuilder
    <3>2. <<"close">> \in Token
      BY DEF Token
    <3> QED BY <2>3, <3>1, <3>2, CloseContainerType, ExtendsByOne
  <2> QED BY <2>1, <2>2, <2>3
<1>7. Extends(b, Settled(b))
  BY <1>1, ExtendsSelf DEF Settled
<1> QED BY <1>2, <1>3, <1>4, <1>5, <1>6, <1>7

\* Serialize only extends the builder.
LEMMA SerializeExtends ==
    ASSUME NEW v \in Value, NEW key \in KeyArg, NEW b \in AnyBuilder, NEW d \in Buffer
    PROVE  Extends(b, Serialize(v, key, b, d).b)
<1> DEFINE n == Heap[v]
           r == Serialize(v, key, b, d)
<1>1. /\ n.kind \in Kind /\ n.n \in Int /\ n.s \in STRING /\ n.tag \in Int
  BY HeapAssumption
<1>2. WriteKey(b, key) \in AnyBuilder /\ Extends(b, WriteKey(b, key))
  BY WriteKeyType, WritesExtend
<1>3. Header(b, key, n.tag) \in AnyBuilder /\ Extends(b, Header(b, key, n.tag))
  BY <1>1, <1>2, WriteTagType, WritesExtend, ExtendsTwice DEF Header
<1>4. Shape(n) \in Container
  BY DEF Shape, Container
<1>5. CASE n.kind \in Scalars
  <2>1. Atom(n) \in Token
    <3>1. n.n % LongMod \in Int
      BY <1>1, LongAssumption
    <3> QED BY <1>1, <1>5, <3>1 DEF Atom, Token, Scalars
  <2>2. r.b = WriteAtom(WriteKey(b, key), Atom(n))
    BY <1>5 DEF Serialize, Scalars, TagKnown
  <2> QED BY <2>1, <2>2, <1>2, WriteAtomType, WritesExtend, ExtendsTwice
<1>6. CASE n.kind = "array"
  <2>1. r.b = OpenContainer(WriteKey(b, key), Shape(n))
    BY <1>6 DEF Serialize, Scalars, TagKnown
  <2> QED BY <2>1, <1>2, <1>4, OpenContainerType, WritesExtend, ExtendsTwice
<1>7. CASE n.kind = "plain"
  <2>1. r.b = OpenContainer(Header(b, key, n.tag), Shape(n))
    BY <1>7 DEF Serialize, Scalars, TagKnown
  <2> QED BY <2>1, <1>3, <1>4, OpenContainerType, WritesExtend, ExtendsTwice
<1>8. CASE TagKnown(n)
  <2>1. r.b = Header(b, key, n.tag)
    BY <1>8 DEF Serialize, Scalars, TagKnown
  <2> QED BY <2>1, <1>3
<1>9. CASE n.kind \in {"serializable", "mapped", "unsupported"} /\ ~TagKnown(n)
  <2>1. r.b = b
    BY <1>9 DEF Serialize, Scalars, TagKnown
  <2> QED BY <2>1, ExtendsSelf
<1> QED BY <1>1, <1>5, <1>6, <1>7, <1>8, <1>9 DEF Kind

\* Every history of t is one of s, or new.
Inherits(t, s) ==
    \A i \in 1..Len(t) : t[i].last = <<>> \/ \E j \in 1..Len(s) : t[i].last = s[j].last

LEMMA InheritsWins ==
    ASSUME NEW s, NEW t, NEW b, Inherits(t, s), Wins(s, b)
    PROVE  Wins(t, b)
BY DEF Inherits, Wins

LEMMA AdvanceHistory ==
    ASSUME NEW s \in Stack, s # <<>>
    PROVE  /\ Len(Advance(s)) = Len(s)
           /\ \A i \in 1..Len(s) : Advance(s)[i] = IF i = Len(s) THEN [s[i] EXCEPT !.pc = @ + 1]
                                                                ELSE s[i]
           /\ Inherits(Advance(s), s)
<1>1. Len(s) \in 1..Len(s)
  BY DEF Stack
<1>2. s[Len(s)] \in Activation
  BY <1>1 DEF Stack
<1> DEFINE e == [s[Len(s)] EXCEPT !.pc = @ + 1]
<1>3. e \in Activation /\ e.last = s[Len(s)].last
  BY <1>2 DEF Activation
<1>4. Advance(s) = [s EXCEPT ![Len(s)] = e]
  BY DEF Advance
<1> HIDE DEF e
<1>5. /\ Len(Advance(s)) = Len(s)
      /\ \A j \in 1..Len(s) : Advance(s)[j] = IF j = Len(s) THEN e ELSE s[j]
  BY <1>1, <1>3, <1>4, ExceptSeq DEF Stack
<1>6. Inherits(Advance(s), s)
  BY <1>3, <1>5 DEF Inherits
<1> QED BY <1>5, <1>6 DEF e

\* Disturb and Nested forget what was nested before.
LEMMA NewHistory ==
    ASSUME NEW s \in Stack, NEW i \in 1..Len(s), NEW doc
    PROVE  /\ Disturb(s)[i].last = <<>>
           /\ Nested(s, doc)[i].last = <<doc>>
<1>1. DOMAIN s = 1..Len(s) /\ s[i] \in Activation
  BY DEF Stack
<1> DEFINE e(l) == [s[i] EXCEPT !.last = l]
<1>2. \A l : e(l).last = l
  BY <1>1 DEF Activation
<1>3. Disturb(s)[i] = e(<<>>) /\ Nested(s, doc)[i] = e(<<doc>>)
  BY <1>1 DEF Disturb, Nested
<1> HIDE DEF e
<1> QED BY <1>2, <1>3

\* A call into builder d that leaves b: wherever the nested documents are in
\* b, they are in the builder afterwards.
LEMMA EnterWins ==
    ASSUME Inv, NestedWins, NEW d \in Buffer, NEW b \in AnyBuilder,
           NEW s \in Stack, s # <<>>, Nesting(s),
           NEW call, call = <<>> \/ \E fr \in Activation : Fits(s, fr) /\ fr.last = <<>> /\ call = <<fr>>,
           Enter(d, b, call, s),
           IF d = "mapper" THEN Wins(s, b) ELSE Wins(s, bld["mapper"])
    PROVE  Wins(stk', bld'["mapper"]) /\ NestedWins'
<1> USE DEF Buffer
<1>1. PICK throws \in Throws(b) :
        /\ bld' = [bld EXCEPT ![d] = Settled(b)]
        /\ stk' = IF throws THEN Disturb(Unwound(s)) ELSE s \o call
        /\ ret' = IF throws /\ UserLevel(s) < Len(s) /\ s[UserLevel(s) + 1].f = "mapper"
                  THEN Refused(s[UserLevel(s) + 1].val) ELSE ret
  BY DEF Enter
<1>2. Wins(s, bld'["mapper"])
  <2>1. CASE d = "mapper"
    <3>1. Extends(b, Settled(b)) /\ Settled(b) \in AnyBuilder
      BY WritesExtend, SettledType DEF Builder, AnyBuilder
    <3>2. bld'["mapper"] = Settled(b)
      BY <1>1, <2>1 DEF Inv, TypeOK
    <3>3. Wins(s, b)
      BY <2>1
    <3> QED BY <3>1, <3>2, <3>3, ExtendsHolds DEF Wins
  <2>2. CASE d = "user"
    BY <1>1, <2>2 DEF Inv, TypeOK
  <2> QED BY <2>1, <2>2
<1> DEFINE t == IF throws THEN Unwound(s) ELSE s \o call
<1>3. t \in Stack /\ t # <<>> /\ Nesting(t) /\ Inherits(t, s)
  <2>1. CASE throws
    BY <2>1, UnwoundType DEF Inherits, PartOf
  <2>2. CASE ~throws /\ call = <<>>
    BY <2>2, ConcatEmptySeq DEF Stack, Inherits
  <2>3. CASE ~throws /\ call # <<>>
    <3>1. PICK fr \in Activation : Fits(s, fr) /\ fr.last = <<>> /\ call = <<fr>>
      BY <2>3
    <3>2. s \o <<fr>> \in Stack /\ \A i \in 1..Len(s \o <<fr>>) :
            (s \o <<fr>>)[i] = fr \/ (i \in 1..Len(s) /\ (s \o <<fr>>)[i] = s[i])
      BY DEF Stack
    <3>3. s \o <<fr>> # <<>> /\ Nesting(s \o <<fr>>)
      BY <3>1, PushType
    <3> QED BY <2>3, <3>1, <3>2, <3>3 DEF Inherits
  <2> QED BY <2>1, <2>2, <2>3
<1>4. Wins(t, bld'["mapper"])
  BY <1>2, <1>3, InheritsWins
<1>5. stk' = t \/ stk' = Disturb(t)
  BY <1>1
<1> HIDE DEF t
<1>6. Len(Disturb(t)) = Len(t)
  BY <1>3, DisturbType DEF SameFrames
<1>7. Wins(stk', bld'["mapper"])
  BY <1>3, <1>4, <1>5, <1>6, NewHistory DEF Wins
<1>8. NestedWins'
  BY <1>1 DEF NestedWins, Refused, NoCall, Whole
<1> QED BY <1>7, <1>8

\* The activations that serialize may leave behind.
LEMMA SerializeCalls ==
    ASSUME NEW v \in Value, NEW key, NEW b, NEW d
    PROVE  Serialize(v, key, b, d).call
             \in {<<>>, <<HashFrame(v, d)>>, <<CallbackFrame(v, d)>>, <<ValueFrame(v, key, d)>>}
<1>1. Heap[v].kind \in Kind
  BY HeapAssumption
<1> QED BY <1>1 DEF Serialize, Kind, Scalars, TagKnown

LEMMA NewFrames ==
    ASSUME NEW v, NEW key, NEW d,
           NEW fr \in {HashFrame(v, d), CallbackFrame(v, d), ValueFrame(v, key, d)}
    PROVE  fr.last = <<>> /\ fr.f # "mapper"
BY DEF HashFrame, CallbackFrame, ValueFrame, Frame

\* So does a call of serialize.
LEMMA AddWins ==
    ASSUME Inv, NestedWins, NEW v \in Value, NEW key \in KeyArg, NEW b \in AnyBuilder,
           NEW d \in Buffer, NEW s \in Stack, s # <<>>, Nesting(s),
           s[Len(s)].f # "user" => d = s[Len(s)].d,
           Add(v, key, b, d, s),
           IF d = "mapper" THEN Wins(s, b) ELSE Wins(s, bld["mapper"])
    PROVE  Wins(stk', bld'["mapper"]) /\ NestedWins'
<1> DEFINE r == Serialize(v, key, b, d)
<1>1. /\ r.b \in AnyBuilder
      /\ r.call = <<>> \/ \E fr \in Activation : Fits(s, fr) /\ r.call = <<fr>>
  BY SerializeType DEF Inv
<1>2. r.call \in {<<>>, <<HashFrame(v, d)>>, <<CallbackFrame(v, d)>>, <<ValueFrame(v, key, d)>>}
  BY SerializeCalls
<1>3. \A fr : r.call = <<fr>> => fr.last = <<>>
  BY <1>2, NewFrames
<1>4. Extends(b, r.b)
  BY SerializeExtends
<1>5. IF d = "mapper" THEN Wins(s, r.b) ELSE Wins(s, bld["mapper"])
  BY <1>1, <1>4, ExtendsHolds DEF Wins
<1>6. Enter(d, r.b, r.call, s)
  BY DEF Add
<1>7. r.call = <<>> \/ \E fr \in Activation : Fits(s, fr) /\ fr.last = <<>> /\ r.call = <<fr>>
  BY <1>1, <1>3
<1> HIDE DEF r
<1> QED BY <1>1, <1>5, <1>6, <1>7, EnterWins

LEMMA InitWins == Init => WinsInv
<1> SUFFICES ASSUME Init PROVE WinsInv
  OBVIOUS
<1>1. Inv
  BY InitInv
<1>2. Wins(stk, bld["mapper"])
  BY DEF Init, Wins, Frame
<1>3. NestedWins
  BY DEF Init, NestedWins, NoCall
<1> QED BY <1>1, <1>2, <1>3 DEF WinsInv

LEMMA NextWins == WinsInv /\ [Next]_vars => WinsInv'
<1> SUFFICES ASSUME WinsInv, [Next]_vars PROVE Wins(stk', bld'["mapper"]) /\ NestedWins'
  BY NextInv DEF WinsInv
<1> USE DEF Buffer
<1>0. /\ Inv /\ NestedWins /\ Wins(stk, bld["mapper"])
      /\ bld \in [Buffer -> Builder]
      /\ \A d \in Buffer : bld[d] \in Builder /\ bld[d] \in AnyBuilder
  BY DEF WinsInv, Inv, TypeOK, Builder, AnyBuilder
<1>a. Wins(Advance(stk), bld["mapper"])
  BY <1>0, StackInv, AdvanceHistory, InheritsWins
<1>b. \A d \in Buffer, c \in AnyBuilder : Extends(bld[d], c) =>
        IF d = "mapper" THEN Wins(Advance(stk), c) ELSE Wins(Advance(stk), bld["mapper"])
  BY <1>0, <1>a, ExtendsHolds DEF Wins
<1>c. Wins(Below(stk), bld["mapper"]) /\ (Len(stk) > 1 => Below(stk) \in Stack)
  <2>1. CASE Len(stk) > 1
    BY <1>0, <2>1, StackInv, BelowType DEF PartOf, Wins
  <2>2. CASE ~(Len(stk) > 1)
    <3>1. Len(Below(stk)) = 0
      BY <1>0, <2>2, StackInv DEF Below, Stack
    <3> QED BY <2>2, <3>1 DEF Wins
  <2> QED BY <2>1, <2>2
<1>d. \A s \in Stack : s # <<>> /\ Nesting(s) => \A b : Wins(Disturb(s), b)
  BY DisturbType, NewHistory DEF Wins, SameFrames
<1>1. CASE UserOpen
  <2>1. PICK o \in NextOps :
          Enter(Target(o), OpenContainer(bld[Target(o)], o.kind), <<>>, Advance(stk))
    BY <1>1 DEF UserOpen
  <2> DEFINE c == OpenContainer(bld[Target(o)], o.kind)
  <2>2. c \in AnyBuilder /\ Extends(bld[Target(o)], c) /\ Target(o) \in Buffer
    BY <1>0, NextOpsType, OpenContainerType, WritesExtend DEF Op
  <2> HIDE DEF c
  <2> QED BY <1>0, <1>b, <2>1, <2>2, StackInv, EnterWins DEF c
<1>2. CASE UserClose
  <2>1. PICK o \in NextOps :
          Enter(Target(o), CloseContainer(bld[Target(o)]), <<>>, Advance(stk))
    BY <1>2 DEF UserClose
  <2> DEFINE c == CloseContainer(bld[Target(o)])
  <2>2. c \in AnyBuilder /\ Extends(bld[Target(o)], c) /\ Target(o) \in Buffer
    BY <1>0, NextOpsType, CloseContainerType, WritesExtend
  <2> HIDE DEF c
  <2> QED BY <1>0, <1>b, <2>1, <2>2, StackInv, EnterWins DEF c
<1>3. CASE UserClear
  <2>1. PICK o \in NextOps :
          /\ bld' = [bld EXCEPT ![Target(o)] = Fresh]
          /\ stk' = IF Target(o) = "mapper" THEN Disturb(Advance(stk)) ELSE Advance(stk)
    BY <1>3 DEF UserClear
  <2>2. Target(o) \in Buffer
    BY <1>0, NextOpsType
  <2>3. Wins(stk', bld'["mapper"])
    <3>1. CASE Target(o) = "mapper"
      BY <1>0, <1>d, <2>1, <3>1, StackInv
    <3>2. CASE Target(o) = "user"
      BY <1>0, <1>a, <2>1, <3>2
    <3> QED BY <2>2, <3>1, <3>2
  <2> QED BY <1>0, <1>3, <2>3 DEF UserClear, NestedWins
<1>4. CASE UserAdd
  <2>1. PICK o \in NextOps :
          Add(o.val, NoKey, Header(bld[Target(o)], o.key, o.tag), Target(o), Advance(stk))
    BY <1>4 DEF UserAdd
  <2>2. Top.f = "user"
    BY <1>4 DEF UserAdd, Running
  <2>3. o.val \in Value /\ o.key \in KeyArg /\ o.tag \in Int /\ Target(o) \in Buffer
    BY <1>0, NextOpsType DEF Op
  <2> DEFINE c == Header(bld[Target(o)], o.key, o.tag)
  <2>4. c \in AnyBuilder /\ Extends(bld[Target(o)], c)
    BY <1>0, <2>3, WriteKeyType, WriteTagType, WritesExtend, ExtendsTwice DEF Header
  <2>5. NoKey \in KeyArg
    BY DEF KeyArg
  <2> HIDE DEF c
  <2> QED BY <1>0, <1>b, <2>1, <2>2, <2>3, <2>4, <2>5, StackInv, AddWins DEF c
<1>5. CASE UserSerialize
  <2> DEFINE t == Disturb(Advance(stk))
             fr(o) == Frame("mapper", o.val, "mapper")
  <2>1. PICK o \in NextOps : Add(o.val, NoKey, Fresh, "mapper", Append(t, fr(o)))
    BY <1>5 DEF UserSerialize
  <2>2. o.val \in Value /\ NoKey \in KeyArg /\ "mapper" \in Buffer /\ Fresh \in AnyBuilder
    BY <1>0, NextOpsType, FreshType DEF Op, KeyArg
  <2>3. /\ t \in Stack /\ t # <<>> /\ Nesting(t)
        /\ t[Len(t)].f = "user"
    <3>1. Top.f = "user"
      BY <1>5 DEF UserSerialize, Running
    <3>2. t \in Stack /\ t # <<>> /\ Nesting(t) /\ SameFrames(Advance(stk), t)
      BY <1>0, StackInv, DisturbType
    <3>3. Len(Advance(stk)) \in 1..Len(Advance(stk))
      BY <1>0, StackInv DEF Stack
    <3> QED BY <1>0, <3>1, <3>2, <3>3, StackInv DEF SameFrames
  <2>4. fr(o) \in Activation /\ fr(o).f = "mapper" /\ fr(o).d = "mapper" /\ fr(o).val = o.val
        /\ fr(o).last = <<>>
    BY <2>2, FrameType DEF Frame
  <2>5. Fits(t, fr(o))
    BY <2>2, <2>3, <2>4 DEF Fits
  <2>6. Wins(t, Fresh)
    BY <1>0, <1>d, StackInv
  <2> DEFINE s == Append(t, fr(o))
  <2>7. s \in Stack /\ s # <<>> /\ Nesting(s) /\ s[Len(s)] = fr(o) /\ Wins(s, Fresh)
    <3> HIDE DEF t, fr
    <3>1. s \in Stack /\ s # <<>> /\ Nesting(s)
      BY <2>3, <2>4, <2>5, PushType
    <3>2. s[Len(s)] = fr(o) /\ Len(s) = Len(t) + 1 /\ \A i \in 1..Len(t) : s[i] = t[i]
      BY <2>3, <2>4, AppendProperties DEF Stack
    <3>3. Wins(s, Fresh)
      <4>1. \A i \in 1..Len(s) : i \in 1..Len(t) \/ s[i] = fr(o)
        BY <2>3, <3>2 DEF Stack
      <4> QED BY <2>4, <2>6, <3>2, <4>1 DEF Wins
    <3> QED BY <3>1, <3>2, <3>3
  <2>8. s[Len(s)].d = "mapper"
    BY <2>4, <2>7
  <2> HIDE DEF s, t, fr
  <2>9. Add(o.val, NoKey, Fresh, "mapper", s)
    BY <2>1 DEF s
  <2> QED BY <1>0, <2>2, <2>7, <2>8, <2>9, AddWins
<1>6. CASE UserThrow
  BY <1>0, <1>6, <1>d, StackInv DEF UserThrow, NestedWins
<1>7. CASE UserCatch
  BY <1>0, <1>7 DEF UserCatch, NestedWins
<1>8. CASE UserPropagate
  BY <1>0, <1>8, <1>c DEF UserPropagate, NestedWins
<1>9. CASE UserReturn
  BY <1>0, <1>9, <1>c DEF UserReturn, NestedWins
<1>10. ASSUME Top.f # "user"
       PROVE  /\ Len(stk) > 1 /\ Top.val \in Value
              /\ Below(stk) \in Stack /\ Below(stk) # <<>> /\ Nesting(Below(stk))
  BY <1>0, <1>10, CppBelow
<1>11. CASE HashNext
  <2> DEFINE n == Heap[Top.val]
             e == n.entries[Top.pc]
  <2>1. /\ Top.pc <= Len(n.entries) /\ Top.f = "hash"
        /\ Add(e.val, EntryKey(n, Top.pc), bld[Top.d], Top.d, Advance(stk))
    BY <1>11 DEF HashNext
  <2>2. Top.val \in Value /\ Top.d \in Buffer /\ Top.pc \in Nat \ {0}
    BY <1>0, <2>1, <1>10, StackInv DEF Activation
  <2>3. e.val \in Value /\ EntryKey(n, Top.pc) \in KeyArg
    BY <2>1, <2>2, EntryType
  <2>4. IF Top.d = "mapper" THEN Wins(Advance(stk), bld[Top.d])
                            ELSE Wins(Advance(stk), bld["mapper"])
    BY <1>a, <2>2
  <2> HIDE DEF n, e
  <2> QED BY <1>0, <2>1, <2>2, <2>3, <2>4, StackInv, AddWins
<1>12. CASE HashClose
  <2>1. Enter(Top.d, CloseContainer(bld[Top.d]), <<>>, Below(stk)) /\ Top.f = "hash"
    BY <1>12 DEF HashClose
  <2>2. Top.d \in Buffer
    BY <1>0, StackInv DEF Activation
  <2> DEFINE c == CloseContainer(bld[Top.d])
  <2>3. c \in AnyBuilder /\ Extends(bld[Top.d], c)
    BY <1>0, <2>2, CloseContainerType, WritesExtend
  <2> HIDE DEF c
  <2>4. IF Top.d = "mapper" THEN Wins(Below(stk), c) ELSE Wins(Below(stk), bld["mapper"])
    BY <1>0, <1>c, <2>2, <2>3, ExtendsHolds DEF Wins
  <2> QED BY <1>0, <1>10, <2>1, <2>2, <2>3, <2>4, EnterWins DEF c
<1>15. CASE TagIdCall
  <2> DEFINE t == Advance(stk)
             fr == CallbackFrame(Top.val, Top.d)
  <2>1. Top.f = "value" /\ stk' = Append(t, fr) /\ bld' = bld /\ ret' = ret
    BY <1>15 DEF TagIdCall
  <2>2. fr \in Activation /\ fr.last = <<>> /\ t \in Stack
    BY <1>0, <1>10, <2>1, CallbackFits, NewFrames, StackInv
  <2> HIDE DEF t, fr
  <2>3. \A i \in 1..Len(stk') : stk'[i] = fr \/ (i \in 1..Len(t) /\ stk'[i] = t[i])
    BY <2>1, <2>2, AppendProperties DEF Stack
  <2>4. Wins(stk', bld["mapper"])
    BY <1>a, <2>2, <2>3 DEF Wins, t
  <2> QED BY <1>0, <2>1, <2>4 DEF NestedWins
<1>16. CASE TagIdFails
  BY <1>0, <1>16, <1>c DEF TagIdFails, NestedWins
<1>17. CASE TagIdReturn
  <2> DEFINE c == Header(bld[Top.d], Top.key, Heap[Top.val].tag)
             fr == CallbackFrame(Top.val, Top.d)
  <2>1. Enter(Top.d, c, <<fr>>, Below(stk)) /\ Top.f = "value"
    BY <1>17 DEF TagIdReturn
  <2>2. Top.d \in Buffer /\ Top.key \in KeyArg /\ Heap[Top.val].tag \in Int
    BY <1>0, <1>10, <2>1, StackInv, HeapAssumption DEF Activation
  <2>3. c \in AnyBuilder /\ Extends(bld[Top.d], c)
    <3> DEFINE b == bld[Top.d]
               e == WriteKey(b, Top.key)
    <3>1. b \in AnyBuilder /\ e \in AnyBuilder /\ Extends(b, e)
      BY <1>0, <2>2, WriteKeyType, WritesExtend
    <3>2. c = WriteTag(e, Heap[Top.val].tag)
      BY DEF Header
    <3> HIDE DEF b, e, c
    <3>3. c \in AnyBuilder /\ Extends(e, c)
      BY <2>2, <3>1, <3>2, WriteTagType, WritesExtend
    <3>4. Extends(b, c)
      BY <3>1, <3>3, ExtendsTwice
    <3> QED BY <3>3, <3>4 DEF b
  <2>4. fr \in Activation /\ Fits(Below(stk), fr) /\ fr.last = <<>>
    BY <1>10, <2>1, CallbackFits, NewFrames
  <2> HIDE DEF c, fr
  <2>5. IF Top.d = "mapper" THEN Wins(Below(stk), c) ELSE Wins(Below(stk), bld["mapper"])
    BY <1>0, <1>c, <2>2, <2>3, ExtendsHolds DEF Wins
  <2> QED BY <1>0, <1>10, <2>1, <2>2, <2>3, <2>4, <2>5, EnterWins
<1>13. CASE MapperReturn
  <2> DEFINE doc == SliceDoc(bld["mapper"])
  <2>1. Top.f = "mapper" /\ bld' = bld
    BY <1>13 DEF MapperReturn
  <2>2. Whole(doc) => HoldsFirst(bld["mapper"], doc)
    BY DEF SliceDoc, FirstValue, HoldsFirst, Whole
  <2>3. \A s \in Stack : s # <<>> /\ Nesting(s) => Wins(Nested(s, doc), bld["mapper"])
    <3>1. doc \in Document
      BY <1>0, SliceDocType
    <3> HIDE DEF doc
    <3> QED BY <2>2, <3>1, NestedType, NewHistory DEF Wins, SameFrames
  <2>4. Wins(stk', bld'["mapper"])
    BY <1>10, <1>13, <1>d, <2>1, <2>3 DEF MapperReturn
  <2>5. NestedWins'
    <3>1. CASE ret' = Refused(Top.val)
      BY <3>1 DEF NestedWins, Refused, NoCall
    <3>2. CASE ret' = Answer(Top, doc)
      <4>1. ret'.last = Top.last /\ ret'.doc = doc
        BY <3>2 DEF Answer
      <4>2. Len(stk) \in 1..Len(stk)
        BY <1>0, StackInv
      <4>3. Top.last # <<>> /\ Whole(Top.last[1])
              => HoldsFirst(bld["mapper"], Top.last[1])
        BY <1>0, <4>2 DEF Wins, Top
      <4>4. ASSUME NEW w, HoldsFirst(bld["mapper"], w) PROVE doc \in {w, Garbage}
        BY <4>4 DEF HoldsFirst, SliceDoc
      <4> HIDE DEF doc
      <4> QED BY <4>1, <4>3, <4>4 DEF NestedWins
    <3> QED BY <1>13, <3>1, <3>2 DEF MapperReturn
  <2> QED BY <2>4, <2>5
<1>14. CASE UNCHANGED vars
  BY <1>0, <1>14 DEF vars, NestedWins
<1> QED
  BY <1>1, <1>2, <1>3, <1>4, <1>5, <1>6, <1>7, <1>8, <1>9, <1>11, <1>12, <1>13, <1>14,
     <1>15, <1>16, <1>17
  DEF Next, Step, Php, Cpp, ScriptEnd

\* A call that a callback re-entered, and that returns all the same, returns
\* the document of the nested call or rubbish: TypeMapper::serialize clears
\* the builder that its callers still write to.
THEOREM ReentryLoses == Spec => []NestedWins
<1> QED BY InitWins, NextWins, PTL DEF Spec, WinsInv

-----------------------------------------------------------------------------
(* The documents of values: the equation that defines Doc has one solution. *)
Docs == [Value -> Document]
PartsOf == [v \in Value |-> Parts(v)]
Tabular == {"array", "plain"}
Called == {"serializable", "mapped"}

LEMMA NodeType ==
    ASSUME NEW v \in Value
    PROVE  LET n == Heap[v]
           IN  /\ n.kind \in Scalars \cup Tabular \cup Called \cup {"unsupported"}
               /\ n.n \in Int /\ n.s \in STRING /\ n.tag \in Int
               /\ n.entries \in Seq([key : Key, val : Value]) /\ n.prog \in Seq(Op)
               /\ Len(n.entries) \in Nat /\ DOMAIN n.entries = 1..Len(n.entries)
               /\ Len(n.prog) \in Nat /\ DOMAIN n.prog = 1..Len(n.prog)
               /\ \A i \in 1..Len(n.entries) :
                    /\ n.entries[i].key \in Key /\ n.entries[i].val \in Value
                    /\ n.entries[i].val \in Parts(v)
               /\ \A i \in 1..Len(n.prog) :
                    /\ n.prog[i] \in Op
                    /\ n.prog[i].op = "add" => n.prog[i].val \in Parts(v)
<1> DEFINE n == Heap[v]
           E == [key : Key, val : Value]
<1>1. /\ n.kind \in Kind /\ n.n \in Int /\ n.s \in STRING /\ n.tag \in Int
      /\ n.entries \in Seq(E) /\ n.prog \in Seq(Op)
  BY HeapAssumption
<1>2. n.kind \in Scalars \cup Tabular \cup Called \cup {"unsupported"}
  BY <1>1 DEF Kind, Tabular, Called
<1>3. /\ Len(n.entries) \in Nat /\ DOMAIN n.entries = 1..Len(n.entries)
      /\ \A i \in 1..Len(n.entries) : n.entries[i] \in E
  <2> HIDE DEF n, E
  <2> QED BY <1>1, LenProperties, ElementOfSeq
<1>4. /\ Len(n.prog) \in Nat /\ DOMAIN n.prog = 1..Len(n.prog)
      /\ \A i \in 1..Len(n.prog) : n.prog[i] \in Op
  <2> HIDE DEF n
  <2> QED BY <1>1, LenProperties, ElementOfSeq
<1>5. \A i \in 1..Len(n.entries) :
        /\ n.entries[i].key \in Key /\ n.entries[i].val \in Value
        /\ n.entries[i].val \in Parts(v)
  BY <1>3 DEF Parts
<1>6. \A i \in 1..Len(n.prog) : n.prog[i].op = "add" => n.prog[i].val \in Parts(v)
  BY <1>4 DEF Parts, Range
<1> QED BY <1>1, <1>2, <1>3, <1>4, <1>5, <1>6

LEMMA PartsFounded == PartsOf \in [Value -> SUBSET Value] /\ Founded(Value, PartsOf)
<1>1. ASSUME NEW v \in Value PROVE Parts(v) \subseteq Value
  <2>1. \A i \in DOMAIN Heap[v].entries : Heap[v].entries[i].val \in Value
    BY NodeType
  <2>2. \A o \in Range(Heap[v].prog) : o.val \in Value
    BY NodeType DEF Range, Op
  <2> QED BY <2>1, <2>2 DEF Parts
<1>2. ASSUME NEW S \in SUBSET Value, S # {} PROVE \E v \in S : PartsOf[v] \cap S = {}
  <2> DEFINE K == {Depth[v] : v \in S}
  <2>1. K \in SUBSET Nat /\ K # {}
    BY <1>2, NestingAssumption
  <2>2. PICK k \in K : \A j \in K : k <= j
    <3> HIDE DEF K
    <3> QED BY <2>1, NatMin
  <2>3. PICK v \in S : Depth[v] = k
    BY <2>2
  <2>4. \A w \in Parts(v) : Depth[w] < k /\ Depth[w] \in Nat
    BY <1>1, <2>3, NestingAssumption
  <2>5. \A w \in Parts(v) : w \notin S
    BY <2>1, <2>2, <2>4
  <2> QED BY <2>5 DEF PartsOf
<1> QED BY <1>1, <1>2 DEF PartsOf, Founded

LEMMA DocConcat ==
    ASSUME NEW a \in Document, NEW b \in Document
    PROVE  a \o b \in Document
BY DEF Document

LEMMA SmallDocs ==
    /\ <<>> \in Document /\ CloseDoc \in Document
    /\ \A kind \in Container : OpenDoc(kind) \in Document
    /\ \A tag \in Int : TagDoc(tag) \in Document
    /\ \A key \in KeyArg : KeyDoc(key) \in Document
    /\ \A s \in STRING : << <<"str", s>> >> \in Document
<1>1. \A t \in Token : <<t>> \in Document
  BY DEF Document
<1>2. <<"close">> \in Token /\ \A kind \in Container : <<"open", kind>> \in Token
  BY DEF Token
<1>3. \A s \in STRING : <<"str", s>> \in Token
  BY DEF Token
<1>4. \A tag \in Int : <<"tag", tag>> \in Token
  BY DEF Token
<1>5. \A key \in KeyArg : key # NoKey => key[1] \in STRING
  BY DEF KeyArg
<1>6. <<>> \in Document
  BY DEF Document
<1> QED BY <1>1, <1>2, <1>3, <1>4, <1>5, <1>6 DEF CloseDoc, OpenDoc, TagDoc, KeyDoc

\* A scalar is one token, and the token is the one the code writes.
LEMMA ScalarToken ==
    ASSUME NEW v \in Value, Heap[v].kind \in Scalars
    PROVE  ScalarDoc(Heap[v]) = <<Atom(Heap[v])>> /\ Atom(Heap[v]) \in Token
<1> DEFINE n == Heap[v]
<1>1. CASE n.kind = "long"
  <2>1. /\ LongMod \in Nat \ {0} /\ -LongMod <= 2 * n.n /\ 2 * n.n < LongMod /\ n.n \in Int
    BY LongAssumption, NodeType
  <2>2. \A k \in Int, m \in Nat \ {0} : -m <= 2 * k /\ 2 * k < m =>
            k % m = (IF k < 0 THEN k + m ELSE k) /\ k % m \in Int
    <3> SUFFICES ASSUME NEW k \in Int, NEW m \in Nat \ {0}, -m <= 2 * k, 2 * k < m
                 PROVE  k % m = (IF k < 0 THEN k + m ELSE k) /\ k % m \in Int
      OBVIOUS
    <3>1. CASE k < 0
      <4>1. k + m \in 0..(m - 1) /\ k = -1 * m + (k + m)
        BY <3>1
      <4> QED BY <3>1, <4>1
    <3>2. CASE ~(k < 0)
      BY <3>2
    <3> QED BY <3>1, <3>2
  <2> HIDE DEF n
  <2>3. n.n % LongMod = (IF n.n < 0 THEN n.n + LongMod ELSE n.n) /\ n.n % LongMod \in Int
    BY <2>1, <2>2
  <2> QED BY <1>1, <2>3 DEF Atom, ScalarDoc, Token, n
<1>2. CASE n.kind # "long"
  <2>1. n.s \in STRING /\ n.kind \in {"null", "false", "true", "double", "string"}
    BY <1>2, NodeType DEF Scalars
  <2> QED BY <2>1 DEF Atom, ScalarDoc, Token
<1> QED BY <1>1, <1>2

EntryText(D, n, k) == FlattenSeq([i \in 1..k |-> EntryDoc(D, n, i)])
BodyText(D, n, k) == FlattenSeq([i \in 1..k |-> OpDoc(D, n.prog[i])])

LEMMA StepDocType ==
    ASSUME NEW D \in Docs, NEW v \in Value
    PROVE  /\ \A i \in 1..Len(Heap[v].entries) : EntryDoc(D, Heap[v], i) \in Document
           /\ \A i \in 1..Len(Heap[v].prog) : OpDoc(D, Heap[v].prog[i]) \in Document
<1> DEFINE n == Heap[v]
<1>1. ASSUME NEW i \in 1..Len(n.entries) PROVE EntryDoc(D, n, i) \in Document
  <2>1. n.entries[i].key.s \in STRING /\ n.entries[i].val \in Value
    BY NodeType DEF Key
  <2>2. D[n.entries[i].val] \in Document
    BY <2>1 DEF Docs
  <2> DEFINE k == IF TableIsObject(n) THEN << <<"str", n.entries[i].key.s>> >> ELSE <<>>
  <2>3. k \in Document
    BY <2>1, SmallDocs
  <2>4. EntryDoc(D, n, i) = k \o D[n.entries[i].val]
    BY DEF EntryDoc
  <2> HIDE DEF k
  <2> QED BY <2>2, <2>3, <2>4, DocConcat
<1>2. ASSUME NEW i \in 1..Len(n.prog) PROVE OpDoc(D, n.prog[i]) \in Document
  <2> DEFINE o == n.prog[i]
  <2>1. o \in Op
    BY NodeType
  <2> HIDE DEF o
  <2>2. o.val \in Value /\ o.key \in KeyArg /\ o.tag \in Int /\ o.kind \in Container
    BY <2>1 DEF Op
  <2>3. KeyDoc(o.key) \in Document /\ TagDoc(o.tag) \in Document /\ D[o.val] \in Document
    BY <2>2, SmallDocs DEF Docs
  <2>4. KeyDoc(o.key) \o TagDoc(o.tag) \o D[o.val] \in Document
    BY <2>3, DocConcat
  <2>5. OpDoc(D, o) \in Document
    BY <2>2, <2>4, SmallDocs DEF OpDoc
  <2> QED BY <2>5 DEF o
<1> QED BY <1>1, <1>2

\* The documents of tables and callbacks, one entry or step at a time.
LEMMA EntryTextStep ==
    ASSUME NEW D \in Docs, NEW v \in Value
    PROVE  LET n == Heap[v]
           IN  /\ EntryText(D, n, 0) = <<>>
               /\ \A k \in 0..Len(n.entries) : EntryText(D, n, k) \in Document
               /\ \A k \in 1..Len(n.entries) :
                    EntryText(D, n, k) = EntryText(D, n, k - 1) \o EntryDoc(D, n, k)
               /\ TableDoc(D, n) = OpenDoc(IF TableIsObject(n) THEN "object" ELSE "array")
                                   \o EntryText(D, n, Len(n.entries)) \o CloseDoc
<1> DEFINE n == Heap[v]
           l == Len(n.entries)
           h == [i \in 1..l |-> EntryDoc(D, n, i)]
<1>1. l \in Nat /\ DOMAIN n.entries = 1..l
  BY NodeType
<1>2. h \in [1..l -> Seq(Token)]
  BY StepDocType DEF Document
<1>3. \A k \in 0..l : [i \in 1..k |-> h[i]] = [i \in 1..k |-> EntryDoc(D, n, i)]
  BY <1>1
<1>4. /\ FlattenSeq([i \in 1..0 |-> h[i]]) = <<>>
      /\ \A k \in 0..l : FlattenSeq([i \in 1..k |-> h[i]]) \in Seq(Token)
      /\ \A k \in 1..l : FlattenSeq([i \in 1..k |-> h[i]])
                           = FlattenSeq([i \in 1..(k - 1) |-> h[i]]) \o h[k]
  <2> HIDE DEF l, h, n
  <2> QED BY <1>1, <1>2, Concatenation
<1>5. \A k \in 0..l : EntryText(D, n, k) = FlattenSeq([i \in 1..k |-> h[i]])
  BY <1>3 DEF EntryText
<1>6. \A k \in 1..l : h[k] = EntryDoc(D, n, k) /\ k \in 0..l /\ k - 1 \in 0..l
  BY <1>1
<1>7. 0 \in 0..l
  BY <1>1
<1>8. TableDoc(D, n) = OpenDoc(IF TableIsObject(n) THEN "object" ELSE "array")
                                   \o EntryText(D, n, l) \o CloseDoc
  BY <1>1 DEF TableDoc, EntryText
<1> HIDE DEF h, l, n
<1>9. /\ EntryText(D, n, 0) = <<>>
      /\ \A k \in 0..l : EntryText(D, n, k) \in Document
      /\ \A k \in 1..l : EntryText(D, n, k) = EntryText(D, n, k - 1) \o EntryDoc(D, n, k)
  BY <1>4, <1>5, <1>6, <1>7 DEF Document
<1> QED BY <1>8, <1>9 DEF l, n

LEMMA BodyTextStep ==
    ASSUME NEW D \in Docs, NEW v \in Value
    PROVE  LET n == Heap[v]
           IN  /\ BodyText(D, n, 0) = <<>>
               /\ \A k \in 0..Len(n.prog) : BodyText(D, n, k) \in Document
               /\ \A k \in 1..Len(n.prog) :
                    BodyText(D, n, k) = BodyText(D, n, k - 1) \o OpDoc(D, n.prog[k])
               /\ BodyDoc(D, n) = BodyText(D, n, Len(n.prog))
<1> DEFINE n == Heap[v]
           l == Len(n.prog)
           h == [i \in 1..l |-> OpDoc(D, n.prog[i])]
<1>1. l \in Nat /\ DOMAIN n.prog = 1..l
  BY NodeType
<1>2. h \in [1..l -> Seq(Token)]
  BY StepDocType DEF Document
<1>3. \A k \in 0..l : [i \in 1..k |-> h[i]] = [i \in 1..k |-> OpDoc(D, n.prog[i])]
  BY <1>1
<1>4. /\ FlattenSeq([i \in 1..0 |-> h[i]]) = <<>>
      /\ \A k \in 0..l : FlattenSeq([i \in 1..k |-> h[i]]) \in Seq(Token)
      /\ \A k \in 1..l : FlattenSeq([i \in 1..k |-> h[i]])
                           = FlattenSeq([i \in 1..(k - 1) |-> h[i]]) \o h[k]
  <2> HIDE DEF l, h, n
  <2> QED BY <1>1, <1>2, Concatenation
<1>5. \A k \in 0..l : BodyText(D, n, k) = FlattenSeq([i \in 1..k |-> h[i]])
  BY <1>3 DEF BodyText
<1>6. \A k \in 1..l : h[k] = OpDoc(D, n.prog[k]) /\ k \in 0..l /\ k - 1 \in 0..l
  BY <1>1
<1>7. 0 \in 0..l
  BY <1>1
<1>8. BodyDoc(D, n) = BodyText(D, n, l)
  BY <1>1 DEF BodyDoc, BodyText
<1> HIDE DEF h, l, n
<1>9. /\ BodyText(D, n, 0) = <<>>
      /\ \A k \in 0..l : BodyText(D, n, k) \in Document
      /\ \A k \in 1..l : BodyText(D, n, k) = BodyText(D, n, k - 1) \o OpDoc(D, n.prog[k])
  BY <1>4, <1>5, <1>6, <1>7 DEF Document
<1> QED BY <1>8, <1>9 DEF l, n

DocFrom(D, v) == NodeDoc(D, Heap[v])

LEMMA DocCases ==
    ASSUME NEW D, NEW v \in Value
    PROVE  LET n == Heap[v]
           IN  /\ n.kind \in Scalars => DocFrom(D, v) = ScalarDoc(n)
               /\ n.kind = "array" => DocFrom(D, v) = TableDoc(D, n)
               /\ n.kind = "plain" => DocFrom(D, v) = TagDoc(n.tag) \o TableDoc(D, n)
               /\ n.kind \in Called => DocFrom(D, v) = TagDoc(n.tag) \o BodyDoc(D, n)
               /\ n.kind = "unsupported" => DocFrom(D, v) = <<>>
BY NodeType DEF DocFrom, NodeDoc, Scalars, Called, Tabular

LEMMA DocFromType ==
    ASSUME NEW D \in Docs, NEW v \in Value
    PROVE  DocFrom(D, v) \in Document
<1> DEFINE n == Heap[v]
<1>1. n.kind \in Scalars => ScalarDoc(n) \in Document
  <2>1. \A t \in Token : <<t>> \in Document
    BY DEF Document
  <2> QED BY <2>1, ScalarToken
<1>2. TableDoc(D, n) \in Document
  <2> DEFINE a == OpenDoc(IF TableIsObject(n) THEN "object" ELSE "array")
             t == EntryText(D, n, Len(n.entries))
  <2>1. a \in Document
    BY SmallDocs DEF Container
  <2>2. t \in Document
    BY NodeType, EntryTextStep
  <2>3. TableDoc(D, n) = a \o t \o CloseDoc
    BY EntryTextStep
  <2> HIDE DEF a, t
  <2> QED BY <2>1, <2>2, <2>3, SmallDocs, DocConcat
<1>3. BodyDoc(D, n) \in Document
  BY NodeType, BodyTextStep
<1>4. TagDoc(n.tag) \in Document
  BY NodeType, SmallDocs
<1>5. TagDoc(n.tag) \o TableDoc(D, n) \in Document /\ TagDoc(n.tag) \o BodyDoc(D, n) \in Document
  BY <1>2, <1>3, <1>4, DocConcat
<1>6. n.kind \in Scalars \cup Tabular \cup Called \cup {"unsupported"}
  BY NodeType
<1>7. <<>> \in Document
  BY SmallDocs
<1> QED BY <1>1, <1>2, <1>3, <1>5, <1>6, <1>7, DocCases DEF Tabular

LEMMA DocFromParts ==
    ASSUME NEW D, NEW E, NEW v \in Value, \A w \in PartsOf[v] : D[w] = E[w]
    PROVE  DocFrom(D, v) = DocFrom(E, v)
<1> DEFINE n == Heap[v]
<1>1. \A w \in Parts(v) : D[w] = E[w]
  BY DEF PartsOf
<1>2. \A i \in DOMAIN n.entries : EntryDoc(D, n, i) = EntryDoc(E, n, i)
  BY <1>1, NodeType DEF EntryDoc
<1>3. \A i \in DOMAIN n.prog : OpDoc(D, n.prog[i]) = OpDoc(E, n.prog[i])
  BY <1>1, NodeType DEF OpDoc
<1>4. TableDoc(D, n) = TableDoc(E, n)
  BY <1>2 DEF TableDoc
<1>5. BodyDoc(D, n) = BodyDoc(E, n)
  BY <1>3 DEF BodyDoc
<1>6. n.kind \in Scalars \cup Tabular \cup Called \cup {"unsupported"}
  BY NodeType
<1> QED BY <1>4, <1>5, <1>6, DocCases DEF Tabular

\* Doc is the function that its equation defines.
LEMMA DocNode ==
    Doc \in Docs /\ \A v \in Value : Doc[v] = DocFrom(Doc, v)
<1> DEFINE g == [v \in Value |-> [f \in Docs |-> DocFrom(f, v)]]
<1>1. g \in [Value -> [Docs -> Document]]
  BY DocFromType
<1>2. Recursive(Value, Document, PartsOf, g)
  <2>1. Document # {} /\ Docs = [Value -> Document]
    BY SmallDocs DEF Docs
  <2>2. FromParts(Value, Document, PartsOf, g)
    BY DocFromParts DEF FromParts, Docs
  <2> HIDE DEF g
  <2> QED BY <1>1, <2>1, <2>2, PartsFounded DEF Recursive
<1>3. PICK f \in Docs : \A v \in Value : f[v] = g[v][f]
  <2> HIDE DEF g
  <2> QED BY <1>2, Recursion DEF Docs
<1>4. \A v \in Value : f[v] = DocFrom(f, v)
  BY <1>3
<1> DEFINE Solves(e) == e = [v \in Value |-> DocFrom(e, v)]
<1>5. Solves(f)
  BY <1>4 DEF Docs
<1>6. Doc = CHOOSE e : Solves(e)
  BY DEF Doc, DocFrom
<1>7. Solves(Doc)
  <2> HIDE DEF Solves
  <2> QED BY <1>5, <1>6
<1> DEFINE d == Doc
<1> HIDE DEF d
<1>8. d = [v \in Value |-> DocFrom(d, v)]
  BY <1>7 DEF d
<1>9. \A v \in Value : d[v] = DocFrom(d, v)
  BY <1>8
<1>10. \A v \in Value : d[v] = f[v]
  <2>1. ASSUME NEW v \in Value, \A w \in PartsOf[v] : d[w] = f[w] PROVE d[v] = f[v]
    BY <1>4, <1>9, <2>1, DocFromParts
  <2> QED BY <2>1, PartsFounded, Agree
<1>11. d = f
  BY <1>8, <1>10 DEF Docs
<1> QED BY <1>9, <1>11 DEF d

\* The same of Honest.
HonestFrom(H, v) == NodeHonest(H, Heap[v])

LEMMA HonestNode ==
    Honest \in [Value -> BOOLEAN] /\ \A v \in Value : Honest[v] = HonestFrom(Honest, v)
<1> DEFINE F == [Value -> BOOLEAN]
           g == [v \in Value |-> [f \in F |-> HonestFrom(f, v)]]
<1>1. \A H, v : HonestFrom(H, v) \in BOOLEAN
  BY DEF HonestFrom, NodeHonest
<1>2. ASSUME NEW v \in Value, NEW H, NEW J, \A w \in PartsOf[v] : H[w] = J[w]
      PROVE  HonestFrom(H, v) = HonestFrom(J, v)
  <2>1. \A w \in Parts(v) : H[w] = J[w]
    BY <1>2 DEF PartsOf
  <2>2. \A i \in DOMAIN Heap[v].entries :
          H[Heap[v].entries[i].val] = J[Heap[v].entries[i].val]
    BY <2>1, NodeType
  <2>3. \A i \in DOMAIN Heap[v].prog : Heap[v].prog[i].op = "add" =>
          H[Heap[v].prog[i].val] = J[Heap[v].prog[i].val]
    BY <2>1, NodeType
  <2> QED BY <2>2, <2>3 DEF HonestFrom, NodeHonest
<1>3. g \in [Value -> [F -> BOOLEAN]]
  BY <1>1
<1>4. Recursive(Value, BOOLEAN, PartsOf, g)
  <2>1. FromParts(Value, BOOLEAN, PartsOf, g)
    BY <1>2 DEF FromParts
  <2> HIDE DEF g
  <2> QED BY <1>3, <2>1, PartsFounded DEF Recursive
<1>5. PICK f \in F : \A v \in Value : f[v] = g[v][f]
  <2> HIDE DEF g
  <2> QED BY <1>4, Recursion
<1>6. \A v \in Value : f[v] = HonestFrom(f, v)
  BY <1>5
<1> DEFINE Solves(e) == e = [v \in Value |-> HonestFrom(e, v)]
<1>7. Solves(f)
  BY <1>6
<1>8. Honest = CHOOSE e : Solves(e)
  BY DEF Honest, HonestFrom
<1>9. Solves(Honest)
  <2> HIDE DEF Solves
  <2> QED BY <1>7, <1>8
<1> DEFINE h == Honest
<1> HIDE DEF h
<1>10. h = [v \in Value |-> HonestFrom(h, v)]
  BY <1>9 DEF h
<1>11. \A v \in Value : h[v] = HonestFrom(h, v)
  BY <1>10
<1> QED BY <1>1, <1>10, <1>11 DEF h

-----------------------------------------------------------------------------
(* What an honest value writes after its header, one step at a time: an     *)
(* array or object opens, adds its entries and closes, as a callback does.  *)
TheStep(op, kind, key, v) ==
    [op |-> op, on |-> "given", kind |-> kind, key |-> key, tag |-> 0, val |-> v]
Steps(v) ==
    LET n == Heap[v]
        l == Len(n.entries)
    IN  IF n.kind \in Tabular
        THEN [k \in 1..(l + 2) |->
                IF k = 1 THEN TheStep("open", Shape(n), NoKey, v)
                ELSE IF k = l + 2 THEN TheStep("close", Shape(n), NoKey, v)
                ELSE TheStep("add", Shape(n), EntryKey(n, k - 1), n.entries[k - 1].val)]
        ELSE n.prog
HeadTag(v) == IF Heap[v].kind = "array" THEN 0 ELSE Heap[v].tag
\* The document after the header and k steps.
Text(v, k) ==
    LET n == Heap[v]
        l == Len(n.entries)
    IN  IF n.kind \notin Tabular THEN TagDoc(n.tag) \o BodyText(Doc, n, k)
        ELSE IF k = 0 THEN TagDoc(HeadTag(v))
        ELSE IF k <= l + 1
             THEN TagDoc(HeadTag(v)) \o OpenDoc(Shape(n)) \o EntryText(Doc, n, k - 1)
        ELSE Doc[v]

Compound(v) == v \in Value /\ Honest[v] /\ Heap[v].kind \in Tabular \cup Called

LEMMA HonestCases ==
    ASSUME NEW v \in Value, Honest[v]
    PROVE  LET n == Heap[v]
           IN  /\ n.kind \in Scalars \cup Tabular \cup Called
               /\ n.kind \in Tabular => /\ n.cursor = (IF n.entries = <<>> THEN 0 ELSE 1)
                                        /\ \A i \in 1..Len(n.entries) : Honest[n.entries[i].val]
               /\ n.kind \in Called => /\ n.kind = "serializable" => n.getTagId = <<>>
                                       /\ OneValue(n.prog)
                                       /\ \A i \in 1..Len(n.prog) :
                                            /\ n.prog[i].on = "given"
                                            /\ n.prog[i].op = "add" => Honest[n.prog[i].val]
<1>1. NodeHonest(Honest, Heap[v])
  BY HonestNode DEF HonestFrom
<1> QED BY <1>1, NodeType DEF NodeHonest, Tabular, Called, Scalars

LEMMA DocConcatAssoc ==
    ASSUME NEW a \in Document, NEW b \in Document, NEW c \in Document
    PROVE  (a \o b) \o c = a \o (b \o c)
BY ConcatAssociative DEF Document
LEMMA DocConcatEmpty ==
    ASSUME NEW a \in Document PROVE a \o <<>> = a /\ <<>> \o a = a
BY ConcatEmptySeq DEF Document

\* The steps of a table.
LEMMA TableSteps ==
    ASSUME NEW v \in Value, Heap[v].kind \in Tabular
    PROVE  LET n == Heap[v]
               l == Len(n.entries)
           IN  /\ Steps(v)[1].op = "open" /\ Steps(v)[1].kind = Shape(n)
               /\ Steps(v)[l + 2].op = "close"
               /\ \A i \in 1..l : /\ Steps(v)[i + 1].op = "add"
                                 /\ Steps(v)[i + 1].key = EntryKey(n, i)
                                 /\ Steps(v)[i + 1].tag = 0
                                 /\ Steps(v)[i + 1].val = n.entries[i].val
<1> DEFINE n == Heap[v]
           l == Len(n.entries)
<1>1. l \in Nat
  BY NodeType
<1>2. \A i \in 1..l : i + 1 \in 1..(l + 2) /\ i + 1 # 1 /\ i + 1 # l + 2 /\ (i + 1) - 1 = i
  BY <1>1
<1>3. /\ Steps(v)[1] = TheStep("open", Shape(n), NoKey, v)
      /\ Steps(v)[l + 2] = TheStep("close", Shape(n), NoKey, v)
      /\ \A i \in 1..l :
           Steps(v)[i + 1] = TheStep("add", Shape(n), EntryKey(n, i), n.entries[i].val)
  BY <1>1, <1>2 DEF Steps
<1>4. \A op, kind, key, w : LET o == TheStep(op, kind, key, w)
                          IN  o.op = op /\ o.kind = kind /\ o.key = key /\ o.tag = 0 /\ o.val = w
  BY DEF TheStep
<1> HIDE DEF n, l
<1>5. /\ Steps(v)[1].op = "open" /\ Steps(v)[1].kind = Shape(n)
      /\ Steps(v)[l + 2].op = "close"
      /\ \A i \in 1..l : /\ Steps(v)[i + 1].op = "add"
                         /\ Steps(v)[i + 1].key = EntryKey(n, i)
                         /\ Steps(v)[i + 1].tag = 0
                         /\ Steps(v)[i + 1].val = n.entries[i].val
  BY <1>3, <1>4
<1> QED BY <1>5 DEF n, l

\* A table with its cursor at the start is written as its writer sees it.
LEMMA ShapeSeen ==
    ASSUME NEW v \in Value, Honest[v], Heap[v].kind \in Tabular
    PROVE  /\ IsObject(Heap[v]) = TableIsObject(Heap[v])
           /\ Shape(Heap[v]) = IF TableIsObject(Heap[v]) THEN "object" ELSE "array"
           /\ \A i \in 1..Len(Heap[v].entries) :
                EntryDoc(Doc, Heap[v], i) = OpDoc(Doc, Steps(v)[i + 1])
<1> DEFINE n == Heap[v]
           l == Len(n.entries)
<1>1. /\ l \in Nat /\ DOMAIN n.entries = 1..l /\ n.entries \in Seq([key : Key, val : Value])
      /\ n.cursor = (IF n.entries = <<>> THEN 0 ELSE 1)
  BY NodeType, HonestCases
<1>2. n.entries = <<>> <=> l = 0
  BY <1>1, EmptySeq
<1>3. IsObject(n) = TableIsObject(n)
  <2>1. CASE n.entries = <<>>
    BY <1>1, <2>1 DEF IsObject, TableIsObject
  <2>2. CASE n.entries # <<>>
    <3>1. 1 \in 1..l /\ \A i \in 1..l : i = 1 \/ i \in 2..l
      BY <1>1, <1>2, <2>2
    <3>2. 2..l \subseteq 1..l
      BY <1>1
    <3>3. n.cursor = 1
      BY <1>1, <2>2
    <3>4. IsObject(n) <=> ~n.entries[1].key.long \/ \E i \in 2..l : ~n.entries[i].key.long
      BY <3>3 DEF IsObject
    <3>5. TableIsObject(n) <=> \E i \in 1..l : ~n.entries[i].key.long
      BY <1>1, <2>2 DEF TableIsObject
    <3>6. IsObject(n) <=> TableIsObject(n)
      <4> HIDE DEF l, n
      <4> QED BY <3>1, <3>2, <3>4, <3>5, Zenon
    <3> QED BY <3>6 DEF IsObject, TableIsObject
  <2> QED BY <2>1, <2>2
<1>4. Shape(n) = IF TableIsObject(n) THEN "object" ELSE "array"
  BY <1>3 DEF Shape
<1>5. ASSUME NEW i \in 1..l PROVE EntryDoc(Doc, n, i) = OpDoc(Doc, Steps(v)[i + 1])
  <2>1. /\ Steps(v)[i + 1].op = "add" /\ Steps(v)[i + 1].key = EntryKey(n, i)
        /\ Steps(v)[i + 1].tag = 0 /\ Steps(v)[i + 1].val = n.entries[i].val
    BY TableSteps
  <2> DEFINE d == Doc[n.entries[i].val]
  <2>2. n.entries[i].val \in Value /\ n.entries[i].key.s \in STRING
    BY NodeType DEF Key
  <2>3. d \in Document
    BY <2>2, DocNode DEF Docs
  <2>4. OpDoc(Doc, Steps(v)[i + 1]) = KeyDoc(EntryKey(n, i)) \o TagDoc(0) \o d
    BY <2>1 DEF OpDoc
  <2>5. KeyDoc(EntryKey(n, i)) =
          IF TableIsObject(n) THEN << <<"str", n.entries[i].key.s>> >> ELSE <<>>
    BY <1>3 DEF KeyDoc, EntryKey, NoKey
  <2>6. KeyDoc(EntryKey(n, i)) \in Document
    BY <2>2, <2>5, SmallDocs
  <2>7. EntryDoc(Doc, n, i) = KeyDoc(EntryKey(n, i)) \o d
    BY <2>5 DEF EntryDoc
  <2>8. KeyDoc(EntryKey(n, i)) \o TagDoc(0) = KeyDoc(EntryKey(n, i))
    BY <2>6, DocConcatEmpty DEF TagDoc
  <2> QED BY <2>4, <2>7, <2>8
<1> QED BY <1>3, <1>4, <1>5

\* The steps of an honest value write one value; and their documents, one
\* after the other, are its document.
LEMMA StepsType ==
    ASSUME NEW v, Compound(v)
    PROVE  /\ Steps(v) \in Seq(Op) /\ Len(Steps(v)) \in Nat /\ Len(Steps(v)) >= 1
           /\ OneValue(Steps(v))
           /\ \A k \in 1..Len(Steps(v)) :
                /\ Steps(v)[k] \in Op
                /\ Steps(v)[k].op = "add" => Honest[Steps(v)[k].val]
           /\ Heap[v].kind \in Tabular => Len(Steps(v)) = Len(Heap[v].entries) + 2
           /\ HeadTag(v) \in Int
<1> USE DEF Compound
<1> DEFINE n == Heap[v]
           l == Len(n.entries)
<1>0. HeadTag(v) \in Int
  BY NodeType DEF HeadTag
<1>1. CASE n.kind \in Called
  <2>1. Steps(v) = n.prog
    BY <1>1 DEF Steps, Tabular, Called
  <2>2. Len(n.prog) >= 1
    BY <1>1, NodeType, HonestCases DEF OneValue
  <2>3. n.kind \notin Tabular
    BY <1>1 DEF Tabular, Called
  <2> QED BY <1>0, <1>1, <2>1, <2>2, <2>3, NodeType, HonestCases
<1>2. CASE n.kind \in Tabular
  <2>1. l \in Nat /\ \A i \in 1..l : n.entries[i].val \in Value /\ n.entries[i].key.s \in STRING
    BY NodeType DEF Key
  <2>2. Shape(n) \in Container
    BY DEF Shape, Container
  <2>3. ASSUME NEW k \in 1..(l + 2) PROVE Steps(v)[k] \in Op
    <3>1. k = 1 \/ k = l + 2 \/ (k - 1 \in 1..l)
      BY <2>1
    <3>2. ASSUME NEW op \in {"open", "close", "add"}, NEW key \in KeyArg, NEW w \in Value
          PROVE  TheStep(op, Shape(n), key, w) \in Op
      BY <2>2 DEF TheStep, Op
    <3>3. NoKey \in KeyArg /\ \A i \in 1..l : EntryKey(n, i) \in KeyArg
      BY <2>1 DEF EntryKey, KeyArg
    <3> QED BY <1>2, <2>1, <3>1, <3>2, <3>3 DEF Steps
  <2>4. Steps(v) \in Seq(Op) /\ Len(Steps(v)) = l + 2
    <3>1. Steps(v) \in [1..(l + 2) -> Op]
      BY <1>2, <2>3 DEF Steps
    <3>2. l + 2 \in Nat
      BY <2>1
    <3> HIDE DEF l
    <3> QED BY <3>1, <3>2, FunctionIsSeq
  <2>5. /\ Steps(v)[1].op = "open" /\ Steps(v)[1].kind = Shape(n)
        /\ Steps(v)[l + 2].op = "close"
        /\ \A k \in 2..(l + 1) : /\ Steps(v)[k].op = "add"
                                 /\ Steps(v)[k].key = EntryKey(n, k - 1)
                                 /\ Steps(v)[k].val = n.entries[k - 1].val
    <3>1. \A k \in 2..(l + 1) : k - 1 \in 1..l /\ (k - 1) + 1 = k
      BY <2>1
    <3>2. /\ Steps(v)[1].op = "open" /\ Steps(v)[1].kind = Shape(n)
          /\ Steps(v)[l + 2].op = "close"
          /\ \A i \in 1..l : /\ Steps(v)[i + 1].op = "add"
                             /\ Steps(v)[i + 1].key = EntryKey(n, i)
                             /\ Steps(v)[i + 1].val = n.entries[i].val
      BY <1>2, TableSteps
    <3> HIDE DEF l, n
    <3>3. ASSUME NEW k \in 2..(l + 1)
          PROVE  /\ Steps(v)[k].op = "add" /\ Steps(v)[k].key = EntryKey(n, k - 1)
                 /\ Steps(v)[k].val = n.entries[k - 1].val
      <4> DEFINE i == k - 1
      <4>1. i \in 1..l /\ i + 1 = k
        BY <3>1
      <4> HIDE DEF i
      <4>2. Steps(v)[k].op = "add" /\ Steps(v)[k].key = EntryKey(n, i)
            /\ Steps(v)[k].val = n.entries[i].val
        BY <3>2, <4>1
      <4> QED BY <4>2 DEF i
    <3> QED BY <3>2, <3>3
  <2>6. \A i \in 1..l : EntryKey(n, i) = NoKey <=> Shape(n) = "array"
    BY DEF EntryKey, Shape, NoKey
  <2>7. \A k \in 2..(l + 1) : k - 1 \in 1..l
    BY <2>1
  <2>8. OneValue(Steps(v))
    <3>2. \A k \in 2..(l + 1) :
            Steps(v)[k].op = "add" /\ (Steps(v)[k].key = NoKey <=> Shape(n) = "array")
      <4> HIDE DEF l, n
      <4> QED BY <2>5, <2>6, <2>7
    <3>3. Len(Steps(v)) >= 2 /\ Len(Steps(v)) - 1 = l + 1
      BY <2>1, <2>4
    <3> HIDE DEF l, n
    <3> QED BY <2>4, <2>5, <3>2, <3>3 DEF OneValue
  <2>9. ASSUME NEW k \in 1..(l + 2), Steps(v)[k].op = "add" PROVE Honest[Steps(v)[k].val]
    <3>1. k \in 2..(l + 1)
      <4>1. k # 1 /\ k # l + 2
        BY <2>5, <2>9
      <4> QED BY <2>1, <4>1
    <3>2. Steps(v)[k].val = n.entries[k - 1].val /\ k - 1 \in 1..l
      BY <2>5, <2>7, <3>1
    <3> QED BY <1>2, <3>2, HonestCases
  <2> QED BY <1>0, <2>1, <2>3, <2>4, <2>8, <2>9
<1> QED BY <1>1, <1>2

LEMMA TextStep ==
    ASSUME NEW v, Compound(v)
    PROVE  /\ \A k \in 0..Len(Steps(v)) : Text(v, k) \in Document
           /\ Text(v, 0) = TagDoc(HeadTag(v))
           /\ \A k \in 1..Len(Steps(v)) : Text(v, k) = Text(v, k - 1) \o OpDoc(Doc, Steps(v)[k])
           /\ Text(v, Len(Steps(v))) = Doc[v]
<1> USE DEF Compound
<1> DEFINE n == Heap[v]
           l == Len(n.entries)
           tag == TagDoc(HeadTag(v))
<1>1. Doc \in Docs /\ Doc[v] = DocFrom(Doc, v) /\ Doc[v] \in Document
  BY DocNode DEF Docs
<1>2. tag \in Document
  BY StepsType, SmallDocs
<1>3. CASE n.kind \in Called
  <2>1. Steps(v) = n.prog /\ HeadTag(v) = n.tag /\ n.kind \notin Tabular
    BY <1>3 DEF Steps, HeadTag, Tabular, Called
  <2>2. \A k : Text(v, k) = tag \o BodyText(Doc, n, k)
    BY <2>1 DEF Text
  <2>3. Doc[v] = tag \o BodyDoc(Doc, n)
    BY <1>1, <1>3, <2>1, DocCases
  <2>4. \A i \in 1..Len(n.prog) : OpDoc(Doc, n.prog[i]) \in Document
    BY <1>1, StepDocType
  <2>5. /\ BodyText(Doc, n, 0) = <<>>
        /\ \A k \in 0..Len(n.prog) : BodyText(Doc, n, k) \in Document
        /\ \A k \in 1..Len(n.prog) :
             BodyText(Doc, n, k) = BodyText(Doc, n, k - 1) \o OpDoc(Doc, n.prog[k])
        /\ BodyDoc(Doc, n) = BodyText(Doc, n, Len(n.prog))
    BY <1>1, BodyTextStep
  <2>6. Len(n.prog) \in Nat
    BY NodeType
  <2>7. ASSUME NEW k \in 1..Len(n.prog)
        PROVE  Text(v, k) = Text(v, k - 1) \o OpDoc(Doc, n.prog[k])
    <3> DEFINE x == BodyText(Doc, n, k - 1)
               y == OpDoc(Doc, n.prog[k])
    <3>1. x \in Document /\ y \in Document
      BY <2>4, <2>5, <2>6
    <3>2. Text(v, k) = tag \o (x \o y) /\ Text(v, k - 1) = tag \o x
      BY <2>2, <2>5
    <3> HIDE DEF n, tag, x, y
    <3>3. (tag \o x) \o y = tag \o (x \o y)
      BY <1>2, <3>1, DocConcatAssoc
    <3> QED BY <3>2, <3>3 DEF y
  <2>8. Text(v, 0) = tag
    BY <1>2, <2>2, <2>5, DocConcatEmpty
  <2>9. \A k \in 0..Len(n.prog) : Text(v, k) \in Document
    BY <1>2, <2>2, <2>5, DocConcat
  <2> QED BY <2>1, <2>2, <2>3, <2>5, <2>7, <2>8, <2>9
<1>4. CASE n.kind \in Tabular
  <2> DEFINE a == OpenDoc(Shape(n))
             e(k) == EntryText(Doc, n, k)
  <2>1. l \in Nat /\ Len(Steps(v)) = l + 2
    BY <1>4, NodeType, StepsType
  <2>2. a \in Document /\ CloseDoc \in Document
    BY SmallDocs DEF Shape, Container
  <2>3. /\ e(0) = <<>>
        /\ \A k \in 0..l : e(k) \in Document
        /\ \A k \in 1..l : e(k) = e(k - 1) \o EntryDoc(Doc, n, k)
        /\ TableDoc(Doc, n) = a \o e(l) \o CloseDoc
    BY <1>1, <1>4, EntryTextStep, ShapeSeen
  <2>4. \A k \in 1..l : EntryDoc(Doc, n, k) \in Document
                        /\ EntryDoc(Doc, n, k) = OpDoc(Doc, Steps(v)[k + 1])
    BY <1>1, <1>4, StepDocType, ShapeSeen
  <2>5. OpDoc(Doc, Steps(v)[1]) = a /\ OpDoc(Doc, Steps(v)[l + 2]) = CloseDoc
    BY <1>4, TableSteps DEF OpDoc
  <2>6. /\ Text(v, 0) = tag /\ Text(v, l + 2) = Doc[v]
        /\ \A k \in 1..(l + 1) : Text(v, k) = tag \o a \o e(k - 1)
    BY <1>4, <2>1 DEF Text
  <2>7. Doc[v] = tag \o TableDoc(Doc, n)
    <3>1. CASE n.kind = "array"
      <4>1. tag = <<>>
        BY <3>1 DEF HeadTag, TagDoc
      <4>2. Doc[v] = TableDoc(Doc, n)
        BY <1>1, <3>1, DocCases
      <4> QED BY <1>1, <4>1, <4>2, DocConcatEmpty
    <3>2. CASE n.kind = "plain"
      BY <1>1, <3>2, DocCases DEF HeadTag
    <3> QED BY <1>4, <3>1, <3>2 DEF Tabular
  <2>8. \A k \in 1..(l + 1) : k - 1 \in 0..l
    BY <2>1
  <2> HIDE DEF a, e, l, tag, n
  <2>9. \A k \in 0..(l + 2) : Text(v, k) \in Document
    <3>1. \A k \in 0..(l + 2) : k = 0 \/ k = l + 2 \/ k \in 1..(l + 1)
      BY <2>1
    <3>2. tag \o a \in Document
      BY <1>2, <2>2, DocConcat
    <3>3. \A k \in 1..(l + 1) : tag \o a \o e(k - 1) \in Document
      BY <2>3, <2>8, <3>2, DocConcat
    <3> QED BY <1>1, <1>2, <2>6, <3>1, <3>3
  <2>10. ASSUME NEW k \in 1..(l + 2)
         PROVE  Text(v, k) = Text(v, k - 1) \o OpDoc(Doc, Steps(v)[k])
    <3>1. CASE k = 1
      <4>1. Text(v, 1) = tag \o a \o e(0) /\ Text(v, 0) = tag
        BY <2>1, <2>6
      <4>2. Text(v, 1) = tag \o a
        BY <1>2, <2>2, <2>3, <4>1, DocConcat, DocConcatEmpty
      <4> QED BY <2>5, <3>1, <4>1, <4>2
    <3>2. CASE k \in 2..(l + 1)
      <4> DEFINE j == k - 1
      <4>1. j \in 1..l /\ j \in 1..(l + 1) /\ k \in 1..(l + 1) /\ j - 1 \in 0..l /\ j + 1 = k
        BY <2>1, <3>2
      <4>2. Text(v, k) = tag \o a \o (e(j - 1) \o OpDoc(Doc, Steps(v)[k]))
        BY <2>3, <2>4, <2>6, <4>1
      <4>3. Text(v, j) = tag \o a \o e(j - 1) /\ OpDoc(Doc, Steps(v)[k]) \in Document
        BY <2>4, <2>6, <4>1
      <4>4. tag \o a \in Document /\ e(j - 1) \in Document
        BY <1>2, <2>2, <2>3, <4>1, DocConcat
      <4> HIDE DEF j
      <4>5. Text(v, k) = Text(v, j) \o OpDoc(Doc, Steps(v)[k])
        BY <4>2, <4>3, <4>4, DocConcatAssoc
      <4> QED BY <4>5 DEF j
    <3>3. CASE k = l + 2
      <4>1. Text(v, l + 1) = tag \o a \o e(l) /\ l + 2 - 1 = l + 1 /\ l \in 0..l
        BY <2>1, <2>6
      <4>2. Text(v, l + 2) = tag \o (a \o e(l) \o CloseDoc)
        BY <2>3, <2>6, <2>7
      <4>3. e(l) \in Document /\ a \o e(l) \in Document /\ tag \o a \in Document
        BY <1>2, <2>2, <2>3, <4>1, DocConcat
      <4>4. tag \o (a \o e(l) \o CloseDoc) = (tag \o (a \o e(l))) \o CloseDoc
        BY <1>2, <2>2, <4>3, DocConcatAssoc
      <4>5. tag \o (a \o e(l)) = tag \o a \o e(l)
        BY <1>2, <2>2, <4>3, DocConcatAssoc
      <4>6. k - 1 = l + 1
        BY <2>1, <3>3
      <4>7. Text(v, l + 2) = Text(v, l + 1) \o OpDoc(Doc, Steps(v)[l + 2])
        BY <2>5, <4>1, <4>2, <4>4, <4>5
      <4> QED BY <3>3, <4>6, <4>7
    <3>4. k = 1 \/ k \in 2..(l + 1) \/ k = l + 2
      BY <2>1
    <3> QED BY <3>1, <3>2, <3>3, <3>4
  <2> QED BY <2>1, <2>6, <2>9, <2>10 DEF tag
<1> QED BY <1>3, <1>4

-----------------------------------------------------------------------------
(* The document of an honest value is one value, and ends where it ends.    *)
TokensOf(w, x, i) == {j \in 1..i : w[j][1] = x}

LEMMA CountTokens ==
    ASSUME NEW a \in Document, NEW b \in Document, NEW x, NEW i \in 0..Len(b)
    PROVE  LET n(w, k) == Cardinality(TokensOf(w, x, k))
           IN  /\ n(b, i) \in Nat /\ n(a, Len(a)) \in Nat
               /\ n(a \o b, Len(a) + i) = n(a, Len(a)) + n(b, i)
<1> DEFINE c == a \o b
           l == Len(a)
           A == TokensOf(a, x, l)
           B == TokensOf(b, x, i)
           M == {l + j : j \in B}
<1>1. l \in Nat /\ i \in Nat /\ Len(b) \in Nat
  BY DEF Document
<1>2. \A j \in 1..l : c[j] = a[j]
  BY DEF Document
<1>3. \A j \in 1..i : c[l + j] = b[j]
  BY <1>1 DEF Document
<1>4. TokensOf(c, x, l + i) = A \cup M
  <2>1. ASSUME NEW j \in 1..(l + i) PROVE c[j][1] = x <=> j \in A \cup M
    <3>1. CASE j \in 1..l
      <4>1. j \notin M
        BY <1>1, <3>1 DEF TokensOf
      <4> QED BY <1>2, <3>1, <4>1 DEF TokensOf
    <3>2. CASE j \notin 1..l
      <4> DEFINE k == j - l
      <4>1. k \in 1..i /\ l + k = j
        BY <1>1, <3>2
      <4>2. c[j] = b[k] /\ j \notin A
        BY <1>3, <3>2, <4>1 DEF TokensOf
      <4>3. j \in M <=> k \in B
        <5>1. \A m \in B : m \in Int
          BY DEF TokensOf
        <5>2. \A m \in B : l + m = j => m = k
          BY <1>1, <4>1, <5>1
        <5> QED BY <4>1, <5>2
      <4> HIDE DEF k, c, A, M
      <4> QED BY <4>1, <4>2, <4>3 DEF TokensOf
    <3> QED BY <3>1, <3>2
  <2>2. A \subseteq 1..(l + i) /\ M \subseteq 1..(l + i)
    BY <1>1 DEF TokensOf
  <2> HIDE DEF c, A, M
  <2> QED BY <2>1, <2>2 DEF TokensOf
<1>5. IsFiniteSet(A) /\ IsFiniteSet(B)
  <2>1. IsFiniteSet(1..l) /\ IsFiniteSet(1..i)
    BY <1>1, FS_Interval
  <2>2. A \in SUBSET (1..l) /\ B \in SUBSET (1..i)
    BY DEF TokensOf
  <2> HIDE DEF A, B
  <2> QED BY <2>1, <2>2, FS_Subset
<1>6. IsFiniteSet(M) /\ Cardinality(M) = Cardinality(B)
  <2> DEFINE f == [j \in B |-> l + j]
  <2>1. \A j \in B : j \in Int
    BY DEF TokensOf
  <2>2. f \in Bijection(B, M)
    <3>1. \A p, q \in B : f[p] = f[q] => p = q
      BY <1>1, <2>1
    <3>2. f \in [B -> M] /\ \A m \in M : \E j \in B : f[j] = m
      OBVIOUS
    <3> HIDE DEF f, M, B
    <3> QED BY <3>1, <3>2 DEF Bijection, Injection, Surjection, IsInjective
  <2>3. ExistsBijection(B, M)
    BY <2>2 DEF ExistsBijection
  <2> HIDE DEF M, B
  <2> QED BY <1>5, <2>3, FS_Bijection
<1>7. A \cap M = {}
  BY <1>1 DEF TokensOf
<1>8. Cardinality(A) \in Nat /\ Cardinality(B) \in Nat
  BY <1>5, FS_CardinalityType
<1>9. Cardinality(A \cup M) = Cardinality(A) + Cardinality(B)
  <2> HIDE DEF A, B, M
  <2>1. Cardinality(A \cup M) = Cardinality(A) + Cardinality(M) - Cardinality(A \cap M)
    BY <1>5, <1>6, FS_Union
  <2>2. Cardinality(A \cap M) = 0
    BY <1>7, FS_EmptySet
  <2> QED BY <1>6, <1>8, <2>1, <2>2
<1> QED BY <1>4, <1>8, <1>9

\* The containers open after i tokens.
Level(w, i) == Opened(w, i) - Closed(w, i)
LEMMA LevelConcat ==
    ASSUME NEW a \in Document, NEW b \in Document
    PROVE  /\ \A i \in 0..Len(b) : Level(b, i) \in Int
                                   /\ Level(a \o b, Len(a) + i) = Level(a, Len(a)) + Level(b, i)
           /\ \A i \in 0..Len(a) : Level(a \o b, i) = Level(a, i)
<1>1. Len(a) \in Nat /\ Len(b) \in Nat /\ \A i \in 1..Len(a) : (a \o b)[i] = a[i]
  BY DEF Document
<1>2. ASSUME NEW i \in 0..Len(b)
      PROVE  Level(b, i) \in Int /\ Level(a \o b, Len(a) + i) = Level(a, Len(a)) + Level(b, i)
  <2>1. \A w, k : Opened(w, k) = Cardinality(TokensOf(w, "open", k))
                  /\ Closed(w, k) = Cardinality(TokensOf(w, "close", k))
    BY DEF Opened, Closed, TokensOf
  <2> QED BY <2>1, CountTokens DEF Level
<1>3. ASSUME NEW i \in 0..Len(a) PROVE Level(a \o b, i) = Level(a, i)
  <2>1. \A x : {j \in 1..i : (a \o b)[j][1] = x} = {j \in 1..i : a[j][1] = x}
    BY <1>1
  <2> QED BY <2>1 DEF Level, Opened, Closed
<1> QED BY <1>2, <1>3

\* At a token that ends nothing, or in a document with no token.
LEMMA SmallLevels ==
    /\ \A w : Level(w, 0) = 0
    /\ \A t \in Token : Level(<<t>>, 1) = (CASE t[1] = "open" -> 1 [] t[1] = "close" -> -1 [] OTHER -> 0)
<1>1. \A w, x : TokensOf(w, x, 0) = {}
  BY DEF TokensOf
<1>2. ASSUME NEW w PROVE Level(w, 0) = 0
  BY <1>1, FS_EmptySet DEF Level, Opened, Closed, TokensOf
<1>3. ASSUME NEW t \in Token
      PROVE  Level(<<t>>, 1) = (CASE t[1] = "open" -> 1 [] t[1] = "close" -> -1 [] OTHER -> 0)
  <2>1. \A x : {j \in 1..1 : <<t>>[j][1] = x} = IF t[1] = x THEN {1} ELSE {}
    BY SMT
  <2>2. Cardinality({1}) = 1 /\ Cardinality({}) = 0
    BY FS_Singleton, FS_EmptySet
  <2>3. Opened(<<t>>, 1) = (IF t[1] = "open" THEN 1 ELSE 0)
    BY <2>1, <2>2 DEF Opened
  <2>4. Closed(<<t>>, 1) = (IF t[1] = "close" THEN 1 ELSE 0)
    BY <2>1, <2>2 DEF Closed
  <2> QED BY <2>3, <2>4 DEF Level
<1> QED BY <1>2, <1>3

\* Ends, by levels.
LEMMA EndsLevel ==
    ASSUME NEW w \in Document
    PROVE  \A i : i \in Ends(w) <=> i \in 1..Len(w) /\ w[i][1] # "tag" /\ Level(w, i) = 0
<1>1. DOMAIN w = 1..Len(w) /\ Len(w) \in Nat
  BY DEF Document
<1>2. ASSUME NEW i \in 1..Len(w)
      PROVE  Level(w, i) = 0 <=> Opened(w, i) = Closed(w, i)
  <2>1. \A x : Cardinality(TokensOf(w, x, i)) \in Nat
    BY <1>1, CountTokens
  <2>2. Opened(w, i) \in Nat /\ Closed(w, i) \in Nat
    BY <2>1 DEF Opened, Closed, TokensOf
  <2> QED BY <2>2 DEF Level
<1> QED BY <1>1, <1>2 DEF Ends

\* Neutral: opens before it closes, and closes what it opens.
Neutral(d) ==
    /\ d \in Document
    /\ \A i \in 0..Len(d) : Level(d, i) >= 0
    /\ Level(d, Len(d)) = 0
\* A neutral document that is one value, whose last token ends it.
Complete(d) == Neutral(d) /\ Ends(d) = {Len(d)}
\* A document in the middle of a value.
Unfinished(d) ==
    /\ d \in Document
    /\ \A i \in 0..Len(d) : Level(d, i) >= 0
    /\ Level(d, Len(d)) = 1
    /\ Ends(d) = {}
\* Tags, and no value yet.
OnlyTags(d) == d \in Document /\ \A i \in 1..Len(d) : d[i][1] = "tag"

\* The ends of a concatenation.
LEMMA EndsConcat ==
    ASSUME NEW a \in Document, NEW b \in Document
    PROVE  /\ a \o b \in Document /\ Len(a \o b) = Len(a) + Len(b)
           /\ Len(a) \in Nat /\ Len(b) \in Nat
           /\ \A i \in 1..Len(a) : i \in Ends(a \o b) <=> i \in Ends(a)
           /\ \A i \in 1..Len(b) : Len(a) + i \in Ends(a \o b) <=>
                b[i][1] # "tag" /\ Level(a, Len(a)) + Level(b, i) = 0
           /\ \A k \in Ends(a \o b) : k \in 1..Len(a) \/ \E i \in 1..Len(b) : k = Len(a) + i
           /\ \A k \in 0..Len(a \o b) : k \in 0..Len(a) \/ \E i \in 1..Len(b) : k = Len(a) + i
<1>1. /\ a \o b \in Document /\ Len(a \o b) = Len(a) + Len(b)
      /\ Len(a) \in Nat /\ Len(b) \in Nat
      /\ \A i \in 1..Len(a) : (a \o b)[i] = a[i]
      /\ \A i \in 1..Len(b) : (a \o b)[Len(a) + i] = b[i]
  BY DEF Document
<1>2. \A k \in 0..(Len(a) + Len(b)) : k \in 0..Len(a) \/ \E i \in 1..Len(b) : k = Len(a) + i
  <2>1. \A k \in 0..(Len(a) + Len(b)) : k \in 0..Len(a) \/ (k - Len(a) \in 1..Len(b) /\ k = Len(a) + (k - Len(a)))
    BY <1>1
  <2> QED BY <2>1
<1>3. \A i \in 1..Len(a) : i \in 1..(Len(a) + Len(b)) /\ i \in 0..Len(a)
  BY <1>1
<1>4. \A i \in 1..Len(b) : Len(a) + i \in 1..(Len(a) + Len(b)) /\ i \in 0..Len(b)
  BY <1>1
<1> DEFINE c == a \o b
<1>5. /\ \A i : i \in Ends(c) <=> i \in 1..Len(c) /\ c[i][1] # "tag" /\ Level(c, i) = 0
      /\ \A i : i \in Ends(a) <=> i \in 1..Len(a) /\ a[i][1] # "tag" /\ Level(a, i) = 0
  BY <1>1, EndsLevel
<1>6. /\ \A i \in 0..Len(a) : Level(c, i) = Level(a, i)
      /\ \A i \in 0..Len(b) : Level(c, Len(a) + i) = Level(a, Len(a)) + Level(b, i)
  BY LevelConcat
<1>7. /\ c \in Document /\ Len(c) = Len(a) + Len(b)
      /\ \A i \in 1..Len(a) : c[i] = a[i]
      /\ \A i \in 1..Len(b) : c[Len(a) + i] = b[i]
  BY <1>1
<1> HIDE DEF c
<1>8. \A k \in 1..(Len(a) + Len(b)) : k \in 0..(Len(a) + Len(b)) /\ (k \in 0..Len(a) => k \in 1..Len(a))
  BY <1>1
<1>9. \A i \in 1..Len(a) : i \in Ends(c) <=> i \in Ends(a)
  BY <1>3, <1>5, <1>6, <1>7
<1>10. \A i \in 1..Len(b) : Len(a) + i \in Ends(c) <=>
         b[i][1] # "tag" /\ Level(a, Len(a)) + Level(b, i) = 0
  BY <1>4, <1>5, <1>6, <1>7
<1>11. \A k \in Ends(c) : k \in 1..Len(a) \/ \E i \in 1..Len(b) : k = Len(a) + i
  BY <1>2, <1>5, <1>7, <1>8
<1> QED BY <1>1, <1>2, <1>7, <1>9, <1>10, <1>11 DEF c

LEMMA NeutralConcat ==
    ASSUME NEW a, NEW b, Neutral(a), Neutral(b)
    PROVE  Neutral(a \o b)
<1>1. a \in Document /\ b \in Document
  BY DEF Neutral
<1>2. /\ a \o b \in Document /\ Len(a \o b) = Len(a) + Len(b) /\ Len(a) \in Nat /\ Len(b) \in Nat
      /\ \A k \in 0..Len(a \o b) : k \in 0..Len(a) \/ \E i \in 1..Len(b) : k = Len(a) + i
  BY <1>1, EndsConcat
<1>3. /\ \A i \in 0..Len(b) : Level(b, i) \in Int /\ Level(a \o b, Len(a) + i) = Level(b, i)
      /\ \A i \in 0..Len(a) : Level(a \o b, i) = Level(a, i)
  BY <1>1, LevelConcat DEF Neutral
<1>4. \A k \in 0..Len(a \o b) : Level(a \o b, k) >= 0
  <2>1. \A i \in 1..Len(b) : i \in 0..Len(b)
    BY <1>2
  <2> QED BY <1>2, <1>3, <2>1 DEF Neutral
<1>5. Level(a \o b, Len(a) + Len(b)) = 0
  BY <1>2, <1>3 DEF Neutral
<1> QED BY <1>2, <1>4, <1>5 DEF Neutral

LEMMA OnlyTagsNeutral ==
    ASSUME NEW a, OnlyTags(a)
    PROVE  Neutral(a) /\ Ends(a) = {} /\ \A i \in 0..Len(a) : Level(a, i) = 0
<1>1. a \in Document /\ Len(a) \in Nat
  BY DEF OnlyTags, Document
<1>2. ASSUME NEW i \in 0..Len(a) PROVE Level(a, i) = 0
  <2>1. TokensOf(a, "open", i) = {} /\ TokensOf(a, "close", i) = {}
    BY <1>1 DEF TokensOf, OnlyTags
  <2>2. Opened(a, i) = Cardinality({}) /\ Closed(a, i) = Cardinality({})
    BY <2>1 DEF Opened, Closed, TokensOf
  <2> QED BY <2>2, FS_EmptySet DEF Level
<1>3. Ends(a) = {}
  BY <1>1, EndsLevel DEF OnlyTags
<1> QED BY <1>1, <1>2, <1>3 DEF Neutral

\* Tags in front of a value belong to it.
LEMMA TagsInFront ==
    ASSUME NEW a, NEW b, OnlyTags(a), Complete(b)
    PROVE  Complete(a \o b)
<1>1. a \in Document /\ b \in Document /\ Neutral(a) /\ Level(a, Len(a)) = 0
  <2>1. Len(a) \in 0..Len(a)
    BY DEF OnlyTags, Document
  <2> QED BY <2>1, OnlyTagsNeutral DEF OnlyTags, Complete, Neutral
<1>2. Neutral(a \o b)
  BY <1>1, NeutralConcat DEF Complete
<1> DEFINE c == a \o b
<1>3. /\ Len(c) = Len(a) + Len(b) /\ Len(a) \in Nat /\ Len(b) \in Nat
      /\ \A i \in 1..Len(a) : i \in Ends(c) <=> i \in Ends(a)
      /\ \A i \in 1..Len(b) : Len(a) + i \in Ends(c) <=>
           b[i][1] # "tag" /\ Level(a, Len(a)) + Level(b, i) = 0
      /\ \A k \in Ends(c) : k \in 1..Len(a) \/ \E i \in 1..Len(b) : k = Len(a) + i
  BY <1>1, EndsConcat
<1>4. Ends(a) = {}
  BY OnlyTagsNeutral
<1>5. Len(b) \in 1..Len(b) /\ \A i : i \in Ends(b) <=> i = Len(b)
  BY <1>1, EndsLevel DEF Complete
<1>6. \A i \in 1..Len(b) : Level(b, i) \in Int
  <2>1. \A i \in 1..Len(b) : i \in 0..Len(b)
    BY <1>3
  <2> QED BY <1>1, <2>1, LevelConcat
<1> HIDE DEF c
<1>7. \A i \in 1..Len(b) : Len(a) + i \in Ends(c) <=> i = Len(b)
  <2>1. \A i \in 1..Len(b) : Level(a, Len(a)) + Level(b, i) = Level(b, i)
    BY <1>1, <1>6
  <2>2. \A i \in 1..Len(b) : Len(a) + i \in Ends(c) <=> i \in Ends(b)
    BY <1>1, <1>3, <2>1, EndsLevel
  <2> QED BY <1>5, <2>2
<1>8. Ends(c) = {Len(c)}
  <2>1. \A k \in Ends(c) : k = Len(c)
    BY <1>3, <1>4, <1>7
  <2>2. Len(c) \in Ends(c)
    BY <1>3, <1>5, <1>7
  <2> QED BY <2>1, <2>2
<1> QED BY <1>2, <1>8 DEF Complete, c

LEMMA OpenUnfinished ==
    ASSUME NEW a, OnlyTags(a), NEW kind \in Container
    PROVE  Unfinished(a \o OpenDoc(kind))
<1> DEFINE b == OpenDoc(kind)
           c == a \o b
<1>1. a \in Document /\ Level(a, Len(a)) = 0 /\ Ends(a) = {} /\ \A i \in 0..Len(a) : Level(a, i) = 0
  <2>1. Len(a) \in 0..Len(a)
    BY DEF OnlyTags, Document
  <2> QED BY <2>1, OnlyTagsNeutral DEF OnlyTags, Neutral
<1>2. b \in Document /\ Len(b) = 1 /\ Level(b, 1) = 1
  <2>1. <<"open", kind>> \in Token /\ <<"open", kind>>[1] = "open"
    BY DEF Token
  <2>2. Level(b, 1) = 1
    BY <2>1, SmallLevels DEF OpenDoc
  <2> QED BY <2>2, SmallDocs DEF OpenDoc
<1> HIDE DEF b
<1>3. /\ c \in Document /\ Len(c) = Len(a) + Len(b) /\ Len(a) \in Nat /\ Len(b) \in Nat
      /\ \A i \in 1..Len(a) : i \in Ends(c) <=> i \in Ends(a)
      /\ \A i \in 1..Len(b) : Len(a) + i \in Ends(c) <=>
           b[i][1] # "tag" /\ Level(a, Len(a)) + Level(b, i) = 0
      /\ \A k \in Ends(c) : k \in 1..Len(a) \/ \E i \in 1..Len(b) : k = Len(a) + i
      /\ \A k \in 0..Len(c) : k \in 0..Len(a) \/ \E i \in 1..Len(b) : k = Len(a) + i
  <2>1. a \in Document /\ b \in Document
    BY <1>1, <1>2
  <2> HIDE DEF c
  <2> QED BY <2>1, EndsConcat DEF c
<1>4. /\ Level(c, Len(a) + 1) = 1
      /\ \A i \in 0..Len(a) : Level(c, i) = 0
  <2>1. 1 \in 0..Len(b)
    BY <1>2
  <2>2. /\ \A i \in 0..Len(b) : Level(c, Len(a) + i) = Level(a, Len(a)) + Level(b, i)
        /\ \A i \in 0..Len(a) : Level(c, i) = Level(a, i)
    BY <1>1, <1>2, LevelConcat
  <2> HIDE DEF c
  <2> QED BY <1>1, <1>2, <2>1, <2>2
<1> HIDE DEF c
<1>5. \A i \in 1..Len(b) : i = 1
  BY <1>2
<1>6. Ends(c) = {}
  BY <1>1, <1>2, <1>3, <1>5
<1>7. \A k \in 0..Len(c) : Level(c, k) >= 0
  BY <1>3, <1>4, <1>5
<1> QED BY <1>2, <1>3, <1>4, <1>6, <1>7 DEF Unfinished, b, c

LEMMA UnfinishedConcat ==
    ASSUME NEW a, NEW b, Unfinished(a), Neutral(b)
    PROVE  Unfinished(a \o b)
<1> DEFINE c == a \o b
<1>1. a \in Document /\ b \in Document /\ Level(a, Len(a)) = 1 /\ Ends(a) = {}
  BY DEF Unfinished, Neutral
<1>2. /\ c \in Document /\ Len(c) = Len(a) + Len(b) /\ Len(a) \in Nat /\ Len(b) \in Nat
      /\ \A i \in 1..Len(a) : i \in Ends(c) <=> i \in Ends(a)
      /\ \A i \in 1..Len(b) : Len(a) + i \in Ends(c) <=>
           b[i][1] # "tag" /\ Level(a, Len(a)) + Level(b, i) = 0
      /\ \A k \in Ends(c) : k \in 1..Len(a) \/ \E i \in 1..Len(b) : k = Len(a) + i
      /\ \A k \in 0..Len(c) : k \in 0..Len(a) \/ \E i \in 1..Len(b) : k = Len(a) + i
  BY <1>1, EndsConcat
<1>3. /\ \A i \in 0..Len(b) : Level(b, i) \in Int /\ Level(c, Len(a) + i) = 1 + Level(b, i)
      /\ \A i \in 0..Len(a) : Level(c, i) = Level(a, i)
  BY <1>1, LevelConcat
<1>4. \A i \in 1..Len(b) : i \in 0..Len(b)
  BY <1>2
<1> HIDE DEF c
<1>5. Ends(c) = {}
  <2>1. \A i \in 1..Len(b) : Level(a, Len(a)) + Level(b, i) # 0
    BY <1>1, <1>3, <1>4 DEF Neutral
  <2> QED BY <1>1, <1>2, <2>1
<1>6. \A k \in 0..Len(c) : Level(c, k) >= 0
  BY <1>2, <1>3, <1>4 DEF Neutral, Unfinished
<1>7. Level(c, Len(c)) = 1
  BY <1>2, <1>3 DEF Neutral
<1> QED BY <1>2, <1>5, <1>6, <1>7 DEF Unfinished, c

LEMMA CloseCompletes ==
    ASSUME NEW a, Unfinished(a)
    PROVE  Complete(a \o CloseDoc)
<1> DEFINE b == CloseDoc
           c == a \o b
<1>1. a \in Document /\ Level(a, Len(a)) = 1 /\ Ends(a) = {}
  BY DEF Unfinished
<1>2. b \in Document /\ Len(b) = 1 /\ Level(b, 1) = -1 /\ b[1][1] = "close"
  <2>1. <<"close">> \in Token /\ <<"close">>[1] = "close"
    BY DEF Token
  <2>2. Level(b, 1) = -1
    BY <2>1, SmallLevels DEF CloseDoc
  <2> QED BY <2>2, SmallDocs DEF CloseDoc
<1> HIDE DEF b
<1>3. /\ c \in Document /\ Len(c) = Len(a) + Len(b) /\ Len(a) \in Nat /\ Len(b) \in Nat
      /\ \A i \in 1..Len(a) : i \in Ends(c) <=> i \in Ends(a)
      /\ \A i \in 1..Len(b) : Len(a) + i \in Ends(c) <=>
           b[i][1] # "tag" /\ Level(a, Len(a)) + Level(b, i) = 0
      /\ \A k \in Ends(c) : k \in 1..Len(a) \/ \E i \in 1..Len(b) : k = Len(a) + i
      /\ \A k \in 0..Len(c) : k \in 0..Len(a) \/ \E i \in 1..Len(b) : k = Len(a) + i
  BY <1>1, <1>2, EndsConcat
<1>4. /\ Level(c, Len(a) + 1) = 0
      /\ \A i \in 0..Len(a) : Level(c, i) = Level(a, i)
  <2>1. 1 \in 0..Len(b)
    BY <1>2
  <2>2. /\ \A i \in 0..Len(b) : Level(c, Len(a) + i) = Level(a, Len(a)) + Level(b, i)
        /\ \A i \in 0..Len(a) : Level(c, i) = Level(a, i)
    BY <1>1, <1>2, LevelConcat
  <2> HIDE DEF c
  <2> QED BY <1>1, <1>2, <2>1, <2>2
<1> HIDE DEF c
<1>5. \A i \in 1..Len(b) : i = 1
  BY <1>2
<1>6. Ends(c) = {Len(c)}
  <2>1. 1 \in 1..Len(b) /\ Len(a) + 1 \in Ends(c)
    BY <1>1, <1>2, <1>3
  <2> QED BY <1>1, <1>2, <1>3, <1>5, <2>1
<1>7. \A k \in 0..Len(c) : Level(c, k) >= 0
  BY <1>3, <1>4, <1>5 DEF Unfinished
<1> QED BY <1>2, <1>3, <1>4, <1>6, <1>7 DEF Neutral, Complete, b, c

LEMMA HeadersNeutral ==
    /\ \A tag \in Int : OnlyTags(TagDoc(tag))
    /\ \A key \in KeyArg : Neutral(KeyDoc(key))
<1>1. ASSUME NEW tag \in Int PROVE OnlyTags(TagDoc(tag))
  BY SmallDocs DEF OnlyTags, TagDoc
<1>2. ASSUME NEW key \in KeyArg PROVE Neutral(KeyDoc(key))
  <2>1. KeyDoc(key) \in Document
    BY SmallDocs
  <2>2. CASE key = NoKey
    <3>1. KeyDoc(key) = <<>> /\ Len(KeyDoc(key)) = 0
      BY <2>2 DEF KeyDoc
    <3> QED BY <2>1, <3>1, SmallLevels DEF Neutral
  <2>3. CASE key # NoKey
    <3> DEFINE t == <<"str", key[1]>>
    <3>1. t \in Token /\ t[1] = "str"
      <4>1. key[1] \in STRING
        BY <2>3 DEF KeyArg
      <4> QED BY <4>1 DEF Token
    <3>2. KeyDoc(key) = <<t>>
      BY <2>3 DEF KeyDoc
    <3> HIDE DEF t
    <3>3. Level(<<t>>, 0) = 0 /\ Level(<<t>>, 1) = 0 /\ Len(<<t>>) = 1
      BY <3>1, SmallLevels
    <3>4. \A i \in 0..1 : i = 0 \/ i = 1
      OBVIOUS
    <3> QED BY <2>1, <3>2, <3>3, <3>4 DEF Neutral
  <2> QED BY <2>2, <2>3
<1> QED BY <1>1, <1>2

\* A scalar is complete.
LEMMA ScalarComplete ==
    ASSUME NEW v \in Value, Heap[v].kind \in Scalars
    PROVE  Complete(ScalarDoc(Heap[v]))
<1> DEFINE t == Atom(Heap[v])
           d == <<t>>
<1>1. ScalarDoc(Heap[v]) = d /\ t \in Token
  BY ScalarToken
<1>2. t[1] \in {"uint", "str", "double", "const"}
  BY DEF Atom
<1> HIDE DEF t
<1>3. d \in Document /\ Len(d) = 1 /\ d[1] = t
  BY <1>1 DEF Document
<1>4. Level(d, 0) = 0 /\ Level(d, 1) = 0
  BY <1>1, <1>2, SmallLevels
<1>5. \A i \in 0..1 : i = 0 \/ i = 1
  OBVIOUS
<1> HIDE DEF d
<1>6. Neutral(d)
  BY <1>3, <1>4, <1>5 DEF Neutral
<1>7. Ends(d) = {1}
  BY <1>2, <1>3, <1>4, EndsLevel
<1> QED BY <1>1, <1>3, <1>6, <1>7 DEF Complete

\* A value is complete if those it contains are.
LEMMA StepsComplete ==
    ASSUME NEW v, Compound(v),
           \A k \in 1..Len(Steps(v)) : Steps(v)[k].op = "add" => Complete(Doc[Steps(v)[k].val])
    PROVE  Complete(Doc[v])
<1> DEFINE L == Len(Steps(v))
           o(k) == Steps(v)[k]
<1>1. /\ L \in Nat /\ L >= 1 /\ OneValue(Steps(v)) /\ HeadTag(v) \in Int
      /\ \A k \in 1..L : o(k) \in Op
  BY StepsType
<1>2. /\ Text(v, 0) = TagDoc(HeadTag(v))
      /\ \A k \in 1..L : Text(v, k) = Text(v, k - 1) \o OpDoc(Doc, o(k))
      /\ Text(v, L) = Doc[v]
  BY TextStep
<1>3. OnlyTags(Text(v, 0))
  BY <1>1, <1>2, HeadersNeutral
<1>4. ASSUME NEW k \in 1..L, o(k).op = "add"
      PROVE  /\ OnlyTags(TagDoc(o(k).tag)) /\ Neutral(KeyDoc(o(k).key)) /\ Complete(Doc[o(k).val])
             /\ OpDoc(Doc, o(k)) = KeyDoc(o(k).key) \o TagDoc(o(k).tag) \o Doc[o(k).val]
  <2>1. o(k).tag \in Int /\ o(k).key \in KeyArg
    BY <1>1 DEF Op
  <2> QED BY <1>4, <2>1, HeadersNeutral DEF OpDoc
<1>5. CASE L = 1 /\ o(1).op = "add" /\ o(1).key = NoKey
  <2> DEFINE t == TagDoc(o(1).tag)
             d == Doc[o(1).val]
  <2>0. 1 \in 1..L /\ 1 - 1 = 0
    BY <1>5
  <2>1. OnlyTags(t) /\ Complete(d) /\ OpDoc(Doc, o(1)) = KeyDoc(NoKey) \o t \o d
    BY <1>4, <1>5, <2>0
  <2>2. KeyDoc(NoKey) \o t = t
    <3>1. t \in Document
      BY <2>1 DEF OnlyTags
    <3> QED BY <3>1, DocConcatEmpty DEF KeyDoc
  <2>3. Doc[v] = Text(v, 0) \o (t \o d)
    <3>1. Doc[v] = Text(v, 1) /\ Text(v, 1) = Text(v, 0) \o OpDoc(Doc, o(1))
      BY <1>2, <1>5, <2>0
    <3> HIDE DEF t, d, o
    <3> QED BY <2>1, <2>2, <3>1
  <2> HIDE DEF t, d
  <2> QED BY <1>3, <2>1, <2>3, TagsInFront
<1>6. CASE /\ L >= 2 /\ o(1).op = "open" /\ o(L).op = "close"
           /\ \A k \in 2..(L - 1) : o(k).op = "add"
  <2>1. Unfinished(Text(v, 1))
    <3>1. o(1).kind \in Container /\ 1 \in 1..L
      BY <1>1 DEF Op
    <3>2. Text(v, 1) = Text(v, 0) \o OpenDoc(o(1).kind)
      <4>1. 1 - 1 = 0 /\ OpDoc(Doc, o(1)) = OpenDoc(o(1).kind)
        BY <1>6 DEF OpDoc
      <4> HIDE DEF o
      <4> QED BY <1>2, <3>1, <4>1
    <3> QED BY <1>3, <3>1, <3>2, OpenUnfinished
  <2>2. ASSUME NEW k \in 2..(L - 1), Unfinished(Text(v, k - 1)) PROVE Unfinished(Text(v, k))
    <3>1. k \in 1..L
      BY <1>1
    <3>2. Neutral(TagDoc(o(k).tag)) /\ Neutral(KeyDoc(o(k).key)) /\ Neutral(Doc[o(k).val])
      BY <1>4, <1>6, <3>1, OnlyTagsNeutral DEF Complete
    <3>3. Neutral(OpDoc(Doc, o(k)))
      BY <1>4, <1>6, <3>1, <3>2, NeutralConcat
    <3> QED BY <1>2, <2>2, <3>1, <3>3, UnfinishedConcat
  <2>3. ASSUME NEW k \in 1..(L - 1) PROVE Unfinished(Text(v, k))
    <3> DEFINE S == {j \in 1..(L - 1) : ~Unfinished(Text(v, j))}
    <3>1. SUFFICES ASSUME S # {} PROVE FALSE
      OBVIOUS
    <3>2. PICK j \in S : \A i \in S : j <= i
      <4>1. S \in SUBSET Nat
        BY <1>1
      <4> HIDE DEF S
      <4> QED BY <3>1, <4>1, NatMin
    <3>3. j # 1
      BY <2>1, <3>2
    <3>4. j \in 2..(L - 1) /\ j - 1 \in 1..(L - 1) /\ ~(j <= j - 1)
      BY <1>1, <3>2, <3>3
    <3>5. Unfinished(Text(v, j - 1))
      BY <3>2, <3>4
    <3> QED BY <2>2, <3>2, <3>4, <3>5
  <2>4. L \in 1..L /\ L - 1 \in 1..(L - 1)
    BY <1>1, <1>6
  <2>5. Doc[v] = Text(v, L - 1) \o CloseDoc
    BY <1>2, <1>6, <2>4 DEF OpDoc
  <2> QED BY <2>3, <2>4, <2>5, CloseCompletes
<1> QED BY <1>1, <1>5, <1>6 DEF OneValue

\* The values it adds are parts of it.
LEMMA StepInside ==
    ASSUME NEW v, Compound(v), NEW k \in 1..Len(Steps(v)), Steps(v)[k].op = "add"
    PROVE  Steps(v)[k].val \in Parts(v)
<1> USE DEF Compound
<1> DEFINE n == Heap[v]
           l == Len(n.entries)
<1>1. CASE n.kind \in Called
  <2>1. Steps(v) = n.prog
    BY <1>1 DEF Steps, Tabular, Called
  <2> QED BY <2>1, NodeType
<1>2. CASE n.kind \in Tabular
  <2>1. Len(Steps(v)) = l + 2 /\ l \in Nat
    BY <1>2, StepsType, NodeType
  <2>2. Steps(v)[1].op = "open" /\ Steps(v)[l + 2].op = "close"
    BY <1>2, TableSteps
  <2>3. k # 1 /\ k # l + 2
    BY <2>2
  <2> DEFINE i == k - 1
  <2>4. i \in 1..l /\ i + 1 = k
    BY <2>1, <2>3
  <2> HIDE DEF i
  <2>5. Steps(v)[k].val = n.entries[i].val
    BY <1>2, <2>4, TableSteps
  <2> QED BY <2>4, <2>5, NodeType
<1> QED BY <1>1, <1>2

\* The document of an honest value is one value.
LEMMA HonestComplete == \A v \in Value : Honest[v] => Complete(Doc[v])
<1> DEFINE S == {v \in Value : Honest[v] /\ ~Complete(Doc[v])}
<1>1. SUFFICES ASSUME S # {} PROVE FALSE
  OBVIOUS
<1>2. PICK v \in S : PartsOf[v] \cap S = {}
  <2>1. S \in SUBSET Value
    OBVIOUS
  <2> HIDE DEF S
  <2> QED BY <1>1, <2>1, PartsFounded DEF Founded
<1>3. v \in Value /\ Honest[v] /\ ~Complete(Doc[v])
  BY <1>2
<1>4. CASE Heap[v].kind \in Scalars
  <2>1. Doc[v] = ScalarDoc(Heap[v])
    BY <1>3, <1>4, DocNode, DocCases
  <2> QED BY <1>3, <1>4, <2>1, ScalarComplete
<1>5. CASE Heap[v].kind \in Tabular \cup Called
  <2>1. Compound(v)
    BY <1>3, <1>5 DEF Compound
  <2>2. ASSUME NEW k \in 1..Len(Steps(v)), Steps(v)[k].op = "add"
        PROVE  Complete(Doc[Steps(v)[k].val])
    <3>1. Honest[Steps(v)[k].val] /\ Steps(v)[k].val \in Value
      BY <2>1, <2>2, StepsType DEF Op
    <3>2. Steps(v)[k].val \in Parts(v)
      BY <2>1, <2>2, StepInside
    <3> QED BY <1>2, <1>3, <3>1, <3>2 DEF PartsOf
  <2> QED BY <1>3, <2>1, <2>2, StepsComplete
<1> QED BY <1>3, <1>4, <1>5, HonestCases

\* slice() on a builder that holds the document of an honest value, and
\* nothing else, returns it.
LEMMA HonestFirst ==
    ASSUME NEW v \in Value, Honest[v]
    PROVE  FirstValue(Doc[v]) = Doc[v]
<1> DEFINE d == Doc[v]
<1>1. d \in Document /\ Ends(d) = {Len(d)}
  BY HonestComplete DEF Complete, Neutral
<1> HIDE DEF d
<1>2. Len(d) \in 1..Len(d)
  BY <1>1, EndsLevel
<1>3. d # <<>>
  BY <1>1, <1>2 DEF Document
<1>4. (CHOOSE i \in Ends(d) : \A j \in Ends(d) : i <= j) = Len(d)
  <2>1. \A i : (i \in Ends(d) /\ \A j \in Ends(d) : i <= j) <=> i = Len(d)
    BY <1>1, <1>2
  <2> QED BY <2>1
<1>5. FirstValue(d) = SubSeq(d, 1, Len(d))
  BY <1>1, <1>3, <1>4 DEF FirstValue
<1> QED BY <1>1, <1>2, <1>5 DEF d, Document

-----------------------------------------------------------------------------
(* The builder while an honest value is being written to it.                *)
Ready(b) == b \in AnyBuilder /\ b.st = "good" /\ ~WantsKey(b)
\* b with the document d of one value more.
Wrote(b, d) ==
    [st |-> "good", toks |-> b.toks \o d, open |-> b.open, keyed |-> FALSE, tagged |-> FALSE]
\* Between the first and the last step of a container.
Inside(v, k) == Steps(v)[1].op = "open" /\ 1 <= k /\ k < Len(Steps(v))
\* b after the header of v and k of its steps.
Now(b, v, k) ==
    [st |-> "good", toks |-> b.toks \o Text(v, k),
     open |-> IF Inside(v, k) THEN Append(b.open, Steps(v)[1].kind) ELSE b.open,
     keyed |-> IF k = 0 THEN b.keyed ELSE FALSE,
     tagged |-> IF k # 0 THEN FALSE ELSE IF HeadTag(v) # 0 THEN TRUE ELSE b.tagged]

\* Two builders with the same fields are one.
LEMMA SameBuilder ==
    ASSUME NEW b \in AnyBuilder, NEW c \in AnyBuilder, b.st = c.st, b.toks = c.toks,
           b.open = c.open, b.keyed = c.keyed, b.tagged = c.tagged
    PROVE  b = c
BY DEF AnyBuilder

\* The calls of the library on a builder that a value may be added to.
LEMMA AppendDoc ==
    ASSUME NEW d \in Document, NEW tok \in Token
    PROVE  Append(d, tok) = d \o <<tok>> /\ <<tok>> \in Document
BY DEF Document

LEMMA KeyWrites ==
    ASSUME NEW b \in AnyBuilder, b.st = "good", NEW key \in KeyArg,
           IF key = NoKey THEN ~WantsKey(b) ELSE WantsKey(b) /\ ~b.tagged
    PROVE  LET c == WriteKey(b, key)
           IN  /\ Ready(c) /\ c.toks = b.toks \o KeyDoc(key) /\ c.open = b.open
               /\ c.keyed = (IF key = NoKey THEN b.keyed ELSE TRUE)
               /\ c.tagged = b.tagged
<1>1. CASE key = NoKey
  <2>1. WriteKey(b, key) = b /\ KeyDoc(key) = <<>>
    BY <1>1 DEF WriteKey, KeyDoc
  <2>2. b.toks \in Document
    BY DEF AnyBuilder
  <2>3. b.toks \o <<>> = b.toks
    BY <2>2, DocConcatEmpty
  <2>4. (IF key = NoKey THEN b.keyed ELSE TRUE) = b.keyed
    BY <1>1
  <2> QED BY <1>1, <2>1, <2>3, <2>4 DEF Ready
<1>2. CASE key # NoKey
  <2> DEFINE tok == <<"str", key[1]>>
             c == [b EXCEPT !.toks = Append(@, tok), !.keyed = TRUE]
  <2>1. b.open # <<>> /\ WantsKey(b) /\ ~b.tagged
    BY <1>2 DEF WantsKey, InObject
  <2>2. WriteKey(b, key) = c /\ KeyDoc(key) = <<tok>>
    BY <1>2, <2>1 DEF WriteKey, KeyDoc
  <2>3. tok \in Token
    BY <1>2 DEF KeyArg, Token, NoKey
  <2>4. b.toks \in Document
    BY DEF AnyBuilder
  <2>5. Append(b.toks, tok) = b.toks \o <<tok>> /\ Append(b.toks, tok) \in Document
    BY <2>3, <2>4, AppendDoc, AppendToken
  <2> HIDE DEF tok
  <2>6. /\ c \in AnyBuilder /\ c.st = "good" /\ c.toks = Append(b.toks, tok) /\ c.open = b.open
        /\ c.keyed = TRUE /\ c.tagged = b.tagged
    BY <2>5 DEF AnyBuilder
  <2> HIDE DEF c
  <2>7. Ready(c)
    BY <2>6 DEF Ready, WantsKey
  <2> QED BY <1>2, <2>2, <2>5, <2>6, <2>7
<1> QED BY <1>1, <1>2

LEMMA HeaderWrites ==
    ASSUME NEW b \in AnyBuilder, b.st = "good", NEW key \in KeyArg, NEW tag \in Int,
           IF key = NoKey THEN ~WantsKey(b) ELSE WantsKey(b) /\ ~b.tagged
    PROVE  LET c == Header(b, key, tag)
           IN  /\ Ready(c) /\ c.toks = b.toks \o (KeyDoc(key) \o TagDoc(tag)) /\ c.open = b.open
               /\ c.keyed = (IF key = NoKey THEN b.keyed ELSE TRUE)
               /\ c.tagged = (IF tag = 0 THEN b.tagged ELSE TRUE)
<1> DEFINE a == WriteKey(b, key)
           c == Header(b, key, tag)
<1>1. /\ Ready(a) /\ a.toks = b.toks \o KeyDoc(key) /\ a.open = b.open
      /\ a.keyed = (IF key = NoKey THEN b.keyed ELSE TRUE)
      /\ a.tagged = b.tagged
  BY KeyWrites
<1>2. /\ b.toks \in Document /\ a.toks \in Document
      /\ KeyDoc(key) \in Document /\ TagDoc(tag) \in Document
  BY <1>1, SmallDocs DEF AnyBuilder, Ready
<1>3. c = WriteTag(a, tag)
  BY DEF Header
<1> HIDE DEF a, c
<1>4. a.toks \o TagDoc(tag) = b.toks \o (KeyDoc(key) \o TagDoc(tag))
  <2>1. (b.toks \o KeyDoc(key)) \o TagDoc(tag) = b.toks \o (KeyDoc(key) \o TagDoc(tag))
    BY <1>2, DocConcatAssoc
  <2> QED BY <1>1, <2>1
<1>5. CASE tag = 0
  <2>1. c = a /\ TagDoc(tag) = <<>>
    BY <1>3, <1>5 DEF WriteTag, TagDoc
  <2>2. a.toks \o <<>> = a.toks
    BY <1>2, DocConcatEmpty
  <2> QED BY <1>1, <1>4, <1>5, <2>1, <2>2 DEF c
<1>6. CASE tag # 0
  <2> DEFINE tok == <<"tag", tag>>
             e == [a EXCEPT !.toks = Append(@, tok), !.tagged = TRUE]
  <2>1. c = e /\ TagDoc(tag) = <<tok>>
    BY <1>1, <1>3, <1>6 DEF WriteTag, TagDoc, Ready
  <2>2. tok \in Token
    BY DEF Token
  <2>3. Append(a.toks, tok) = a.toks \o <<tok>> /\ Append(a.toks, tok) \in Document
    BY <1>2, <2>2, AppendDoc, AppendToken
  <2> HIDE DEF tok
  <2>4. /\ e \in AnyBuilder /\ e.st = "good" /\ e.toks = Append(a.toks, tok) /\ e.open = a.open
        /\ e.keyed = a.keyed /\ e.tagged = TRUE
    BY <1>1, <2>3 DEF AnyBuilder, Ready
  <2> HIDE DEF e
  <2>5. Ready(e)
    BY <1>1, <2>4 DEF Ready, WantsKey, InObject
  <2> QED BY <1>1, <1>4, <1>6, <2>1, <2>3, <2>4, <2>5 DEF c
<1> QED BY <1>5, <1>6

LEMMA ValueWrites ==
    ASSUME NEW b, Ready(b)
    PROVE  /\ \A tok \in Token : WriteAtom(b, tok) = Wrote(b, <<tok>>)
           /\ \A kind \in Container :
                LET c == OpenContainer(b, kind)
                IN  /\ c \in AnyBuilder /\ c.st = "good" /\ c.toks = b.toks \o OpenDoc(kind)
                    /\ c.open = Append(b.open, kind) /\ c.keyed = FALSE /\ c.tagged = FALSE
<1>1. b \in AnyBuilder /\ b.st = "good" /\ ~WantsKey(b) /\ b.toks \in Document
      /\ b.open \in Seq(Container)
  BY DEF Ready, AnyBuilder
<1>2. ASSUME NEW tok \in Token PROVE WriteAtom(b, tok) = Wrote(b, <<tok>>)
  <2> DEFINE c == [b EXCEPT !.toks = Append(@, tok), !.keyed = WantsKey(b), !.tagged = FALSE]
             e == [b EXCEPT !.toks = Append(@, tok), !.keyed = FALSE, !.tagged = FALSE]
  <2>1. WriteAtom(b, tok) = c
    BY <1>1 DEF WriteAtom
  <2>2. WantsKey(b) = FALSE
    BY <1>1 DEF WantsKey
  <2>3. c = e
    BY <2>2, Zenon
  <2>4. Append(b.toks, tok) = b.toks \o <<tok>>
    BY <1>1, AppendDoc
  <2>5. e = Wrote(b, <<tok>>)
    <3> DEFINE w == Wrote(b, <<tok>>)
    <3>1. Append(b.toks, tok) \in Document
      BY <1>1, AppendToken
    <3>2. /\ e \in AnyBuilder /\ e.st = "good" /\ e.toks = b.toks \o <<tok>> /\ e.open = b.open
          /\ e.keyed = FALSE /\ e.tagged = FALSE
      BY <1>1, <2>4, <3>1 DEF AnyBuilder
    <3>3. /\ w \in AnyBuilder /\ w.st = "good" /\ w.toks = b.toks \o <<tok>> /\ w.open = b.open
          /\ w.keyed = FALSE /\ w.tagged = FALSE
      BY <1>1, <2>4, <3>1 DEF Wrote, AnyBuilder
    <3> HIDE DEF e, w
    <3>4. e = w
      BY <3>2, <3>3, SameBuilder
    <3> QED BY <3>4 DEF w
  <2> QED BY <2>1, <2>3, <2>5
<1>3. ASSUME NEW kind \in Container
      PROVE  LET c == OpenContainer(b, kind)
             IN  /\ c \in AnyBuilder /\ c.st = "good" /\ c.toks = b.toks \o OpenDoc(kind)
                 /\ c.open = Append(b.open, kind) /\ c.keyed = FALSE /\ c.tagged = FALSE
  <2> DEFINE tok == <<"open", kind>>
             c == [b EXCEPT !.toks = Append(@, tok), !.open = Append(@, kind),
                            !.keyed = FALSE, !.tagged = FALSE]
  <2>1. OpenContainer(b, kind) = c
    BY <1>1 DEF OpenContainer
  <2>2. tok \in Token
    BY DEF Token
  <2>3. Append(b.toks, tok) = b.toks \o OpenDoc(kind) /\ Append(b.toks, tok) \in Document
    BY <1>1, <2>2, AppendDoc, AppendToken DEF OpenDoc
  <2>4. Append(b.open, kind) \in Seq(Container)
    BY <1>1
  <2> HIDE DEF tok
  <2>5. /\ c \in AnyBuilder /\ c.st = "good" /\ c.toks = Append(b.toks, tok)
        /\ c.open = Append(b.open, kind) /\ c.keyed = FALSE /\ c.tagged = FALSE
    BY <1>1, <2>3, <2>4 DEF AnyBuilder
  <2> HIDE DEF c
  <2> QED BY <2>1, <2>3, <2>5
<1> QED BY <1>2, <1>3

LEMMA CloseWrites ==
    ASSUME NEW b \in AnyBuilder, b.st = "good", NEW open \in Seq(Container), NEW kind \in Container,
           b.open = Append(open, kind), b.keyed = FALSE, b.tagged = FALSE
    PROVE  LET c == CloseContainer(b)
           IN  /\ c \in AnyBuilder /\ c.st = "good" /\ c.toks = b.toks \o CloseDoc
               /\ c.open = open /\ c.keyed = FALSE /\ c.tagged = FALSE
<1> DEFINE tok == <<"close">>
           c == [b EXCEPT !.toks = Append(@, tok), !.open = SubSeq(@, 1, Len(@) - 1)]
<1>1. b.open # <<>> /\ SubSeq(b.open, 1, Len(b.open) - 1) = open
  <2> DEFINE o == Append(open, kind)
  <2>1. o \in Seq(Container) /\ Len(o) = Len(open) + 1 /\ Len(open) \in Nat
        /\ \A i \in 1..Len(open) : o[i] = open[i]
    OBVIOUS
  <2> HIDE DEF o
  <2>2. SubSeq(o, 1, Len(o) - 1) = open
    BY <2>1
  <2> QED BY <2>1, <2>2 DEF o
<1>2. CloseContainer(b) = c
  BY <1>1 DEF CloseContainer
<1>3. tok \in Token /\ b.toks \in Document
  BY DEF Token, AnyBuilder
<1>4. Append(b.toks, tok) = b.toks \o CloseDoc /\ Append(b.toks, tok) \in Document
  BY <1>3, AppendDoc, AppendToken DEF CloseDoc
<1> HIDE DEF tok
<1>5. /\ c \in AnyBuilder /\ c.st = "good" /\ c.toks = Append(b.toks, tok)
      /\ c.open = open /\ c.keyed = FALSE /\ c.tagged = FALSE
  BY <1>1, <1>4 DEF AnyBuilder
<1> HIDE DEF c
<1> QED BY <1>2, <1>4, <1>5

\* The steps of an honest value: one addValue, or a container it opens,
\* fills and closes.
LEMMA StepCases ==
    ASSUME NEW v, Compound(v), NEW k \in 1..Len(Steps(v))
    PROVE  LET o == Steps(v)[k]
               L == Len(Steps(v))
           IN  /\ o.op \in {"open", "close", "add"} /\ o.kind \in Container /\ o.key \in KeyArg
               /\ o.tag \in Int /\ o.val \in Value /\ L \in Nat
               /\ o.op = "open" => k = 1 /\ 2 <= L
               /\ o.op = "close" => k = L /\ 2 <= k /\ Steps(v)[1].op = "open"
               /\ o.op = "add" => \/ k = 1 /\ L = 1 /\ o.key = NoKey
                                  \/ /\ k \in 2..(L - 1) /\ Steps(v)[1].op = "open"
                                     /\ o.key = NoKey <=> Steps(v)[1].kind = "array"
<1> DEFINE S == Steps(v)
           o == S[k]
           L == Len(S)
<1>1. /\ L \in Nat /\ L >= 1 /\ OneValue(S) /\ o \in Op
  BY StepsType
<1>2. o.kind \in Container /\ o.key \in KeyArg /\ o.tag \in Int /\ o.val \in Value
  BY <1>1 DEF Op
<1> HIDE DEF S
<1>3. CASE L = 1 /\ S[1].op = "add" /\ S[1].key = NoKey
  BY <1>1, <1>2, <1>3 DEF S
<1>4. CASE /\ L >= 2 /\ S[1].op = "open" /\ S[L].op = "close"
           /\ \A i \in 2..(L - 1) : S[i].op = "add" /\ (S[i].key = NoKey <=> S[1].kind = "array")
  <2>1. k = 1 \/ k = L \/ k \in 2..(L - 1)
    BY <1>1 DEF S
  <2>2. CASE k = 1
    BY <1>1, <1>2, <1>4, <2>2 DEF S
  <2>3. CASE k = L
    BY <1>1, <1>2, <1>4, <2>3 DEF S
  <2>4. CASE k \in 2..(L - 1)
    <3>1. o.op = "add" /\ (o.key = NoKey <=> S[1].kind = "array")
      BY <1>4, <2>4
    <3> QED BY <1>1, <1>2, <1>4, <2>4, <3>1 DEF S
  <2> QED BY <2>1, <2>2, <2>3, <2>4
<1> QED BY <1>1, <1>3, <1>4 DEF OneValue

LEMMA NowType ==
    ASSUME NEW b, Ready(b), NEW v, Compound(v), NEW k \in 0..Len(Steps(v))
    PROVE  LET c == Now(b, v, k)
           IN  /\ c \in AnyBuilder /\ c.st = "good" /\ c.toks = b.toks \o Text(v, k)
               /\ Inside(v, k) => c.open = Append(b.open, Steps(v)[1].kind)
               /\ ~Inside(v, k) => c.open = b.open
<1> DEFINE toks == b.toks \o Text(v, k)
           open == IF Inside(v, k) THEN Append(b.open, Steps(v)[1].kind) ELSE b.open
           keyed == IF k = 0 THEN b.keyed ELSE FALSE
           tagged == IF k # 0 THEN FALSE ELSE IF HeadTag(v) # 0 THEN TRUE ELSE b.tagged
<1>1. toks \in Document
  <2>1. Text(v, k) \in Document
    BY TextStep
  <2> QED BY <2>1, DocConcat DEF Ready, AnyBuilder
<1>2. open \in Seq(Container)
  <2>1. b.open \in Seq(Container)
    BY DEF Ready, AnyBuilder
  <2>2. Inside(v, k) => Steps(v)[1].kind \in Container
    <3>1. 1 \in 1..Len(Steps(v))
      BY StepsType
    <3> QED BY <3>1, StepCases
  <2> QED BY <2>1, <2>2
<1>3. keyed \in BOOLEAN /\ tagged \in BOOLEAN
  BY DEF Ready, AnyBuilder
<1>4. Now(b, v, k) = [st |-> "good", toks |-> toks, open |-> open, keyed |-> keyed, tagged |-> tagged]
  BY DEF Now
<1> HIDE DEF toks, open, keyed, tagged
<1>5. /\ Now(b, v, k) \in AnyBuilder /\ Now(b, v, k).st = "good" /\ Now(b, v, k).toks = toks
      /\ Now(b, v, k).open = open
  BY <1>1, <1>2, <1>3, <1>4 DEF AnyBuilder
<1>6. /\ Inside(v, k) => open = Append(b.open, Steps(v)[1].kind)
      /\ ~Inside(v, k) => open = b.open
  BY DEF open
<1> QED BY <1>5, <1>6 DEF toks

LEMMA NowLater ==
    ASSUME NEW b, Ready(b), NEW v, Compound(v), NEW k \in 0..Len(Steps(v)), k # 0
    PROVE  LET c == Now(b, v, k)
           IN  /\ c \in AnyBuilder /\ c.st = "good" /\ c.toks = b.toks \o Text(v, k)
               /\ Inside(v, k) => c.open = Append(b.open, Steps(v)[1].kind)
               /\ ~Inside(v, k) => c.open = b.open
               /\ c.keyed = FALSE /\ c.tagged = FALSE
<1> DEFINE c == Now(b, v, k)
<1>1. /\ c \in AnyBuilder /\ c.st = "good" /\ c.toks = b.toks \o Text(v, k)
      /\ Inside(v, k) => c.open = Append(b.open, Steps(v)[1].kind)
      /\ ~Inside(v, k) => c.open = b.open
  BY NowType
<1>2. c.keyed = FALSE /\ c.tagged = FALSE
  BY DEF Now
<1> QED BY <1>1, <1>2

LEMMA WroteType ==
    ASSUME NEW b \in AnyBuilder, NEW d \in Document
    PROVE  LET c == Wrote(b, d)
           IN  /\ c \in AnyBuilder /\ c.st = "good" /\ c.toks = b.toks \o d /\ c.open = b.open
               /\ c.keyed = FALSE /\ c.tagged = FALSE
<1>1. b.toks \o d \in Document
  BY DocConcat DEF AnyBuilder
<1> QED BY <1>1 DEF Wrote, AnyBuilder

\* The header of a value.
LEMMA NowFirst ==
    ASSUME NEW b, Ready(b), NEW v, Compound(v)
    PROVE  Header(b, NoKey, HeadTag(v)) = Now(b, v, 0) /\ Ready(Now(b, v, 0))
<1> DEFINE tag == HeadTag(v)
           c == Header(b, NoKey, tag)
           e == Now(b, v, 0)
<1>1. tag \in Int /\ Len(Steps(v)) \in Nat
  BY StepsType
<1>2. NoKey \in KeyArg
  BY DEF KeyArg
<1>3. b \in AnyBuilder /\ b.st = "good" /\ ~WantsKey(b)
  BY DEF Ready
<1> HIDE DEF tag
<1>4. /\ Ready(c) /\ c.toks = b.toks \o (KeyDoc(NoKey) \o TagDoc(tag)) /\ c.open = b.open
      /\ c.keyed = b.keyed /\ c.tagged = (IF tag = 0 THEN b.tagged ELSE TRUE)
  BY <1>1, <1>2, <1>3, HeaderWrites
<1>5. KeyDoc(NoKey) \o TagDoc(tag) = Text(v, 0)
  <2>1. KeyDoc(NoKey) = <<>>
    BY DEF KeyDoc
  <2>2. TagDoc(tag) \in Document
    BY <1>1, SmallDocs
  <2>3. <<>> \o TagDoc(tag) = TagDoc(tag)
    BY <2>2, DocConcatEmpty
  <2>4. Text(v, 0) = TagDoc(tag)
    BY TextStep DEF tag
  <2> QED BY <2>1, <2>3, <2>4
<1>6. /\ e \in AnyBuilder /\ e.st = "good" /\ e.toks = b.toks \o Text(v, 0) /\ e.open = b.open
      /\ e.keyed = b.keyed /\ e.tagged = (IF tag # 0 THEN TRUE ELSE b.tagged)
  <2>1. 0 \in 0..Len(Steps(v)) /\ ~Inside(v, 0)
    BY <1>1 DEF Inside
  <2>2. /\ e \in AnyBuilder /\ e.st = "good" /\ e.toks = b.toks \o Text(v, 0)
        /\ e.open = b.open
    BY <2>1, NowType
  <2>3. e.keyed = b.keyed /\ e.tagged = (IF tag # 0 THEN TRUE ELSE b.tagged)
    BY DEF Now, tag
  <2> QED BY <2>2, <2>3
<1>7. c \in AnyBuilder /\ c.st = "good"
  BY <1>4 DEF Ready
<1> HIDE DEF c, e
<1>8. c.tagged = e.tagged
  BY <1>4, <1>6
<1>9. c = e
  BY <1>4, <1>5, <1>6, <1>7, <1>8, SameBuilder
<1> QED BY <1>4, <1>9 DEF c, e, tag

\* The three kinds of step.
LEMMA NowOpen ==
    ASSUME NEW b, Ready(b), NEW v, Compound(v), NEW k \in 1..Len(Steps(v)), Steps(v)[k].op = "open"
    PROVE  OpenContainer(Now(b, v, k - 1), Steps(v)[k].kind) = Now(b, v, k)
<1> DEFINE c == Now(b, v, 0)
           kind == Steps(v)[1].kind
           d == OpenContainer(c, kind)
           e == Now(b, v, 1)
<1>1. k = 1 /\ k - 1 = 0 /\ 2 <= Len(Steps(v)) /\ kind \in Container /\ Len(Steps(v)) \in Nat
      /\ Inside(v, 1) /\ ~Inside(v, 0)
  BY StepCases DEF Inside
<1>2. Ready(c) /\ c.toks = b.toks \o Text(v, 0) /\ c.open = b.open
  <2>1. 0 \in 0..Len(Steps(v)) /\ ~Inside(v, 0)
    BY <1>1
  <2>2. Ready(c)
    BY NowFirst
  <2>3. c.toks = b.toks \o Text(v, 0) /\ c.open = b.open
    BY <2>1, NowType
  <2> QED BY <2>2, <2>3
<1>3. /\ e \in AnyBuilder /\ e.st = "good" /\ e.toks = b.toks \o Text(v, 1)
      /\ e.open = Append(b.open, kind) /\ e.keyed = FALSE /\ e.tagged = FALSE
  <2> DEFINE i == 1
  <2>1. i \in 0..Len(Steps(v)) /\ Inside(v, i) /\ i # 0
    BY <1>1
  <2> HIDE DEF i
  <2>2. LET a == Now(b, v, i)
        IN  /\ a \in AnyBuilder /\ a.st = "good" /\ a.toks = b.toks \o Text(v, i)
            /\ a.open = Append(b.open, kind) /\ a.keyed = FALSE /\ a.tagged = FALSE
    BY <2>1, NowLater
  <2> QED BY <2>2 DEF i
<1>4. c.toks \o OpenDoc(kind) = b.toks \o Text(v, 1)
  <2>1. Text(v, 1) = Text(v, 0) \o OpDoc(Doc, Steps(v)[1]) /\ Text(v, 0) \in Document
    BY <1>1, TextStep
  <2>2. OpDoc(Doc, Steps(v)[1]) = OpenDoc(kind)
    BY <1>1 DEF OpDoc
  <2>3. b.toks \in Document /\ OpenDoc(kind) \in Document
    BY <1>1, SmallDocs DEF Ready, AnyBuilder
  <2>4. (b.toks \o Text(v, 0)) \o OpenDoc(kind) = b.toks \o (Text(v, 0) \o OpenDoc(kind))
    BY <2>1, <2>3, DocConcatAssoc
  <2> QED BY <1>2, <2>1, <2>2, <2>4
<1> HIDE DEF c, kind
<1>5. /\ d \in AnyBuilder /\ d.st = "good" /\ d.toks = c.toks \o OpenDoc(kind)
      /\ d.open = Append(c.open, kind) /\ d.keyed = FALSE /\ d.tagged = FALSE
  BY <1>1, <1>2, ValueWrites
<1> HIDE DEF d, e
<1>6. d = e
  BY <1>2, <1>3, <1>4, <1>5, SameBuilder
<1> QED BY <1>1, <1>6 DEF c, d, e, kind

LEMMA NowClose ==
    ASSUME NEW b, Ready(b), NEW v, Compound(v), NEW k \in 1..Len(Steps(v)), Steps(v)[k].op = "close"
    PROVE  CloseContainer(Now(b, v, k - 1)) = Now(b, v, k)
<1> DEFINE c == Now(b, v, k - 1)
           kind == Steps(v)[1].kind
           d == CloseContainer(c)
           e == Now(b, v, k)
<1>1. /\ k = Len(Steps(v)) /\ 2 <= k /\ kind \in Container /\ Len(Steps(v)) \in Nat
      /\ Inside(v, k - 1) /\ ~Inside(v, k)
  <2>1. k = Len(Steps(v)) /\ 2 <= k /\ Steps(v)[1].op = "open" /\ Len(Steps(v)) \in Nat
    BY StepCases
  <2>2. 1 \in 1..Len(Steps(v))
    BY <2>1
  <2>3. kind \in Container
    BY <2>2, StepCases
  <2> QED BY <2>1, <2>3 DEF Inside
<1>2. /\ c \in AnyBuilder /\ c.st = "good" /\ c.toks = b.toks \o Text(v, k - 1)
      /\ c.open = Append(b.open, kind) /\ c.keyed = FALSE /\ c.tagged = FALSE
  <2> DEFINE i == k - 1
  <2>1. i \in 0..Len(Steps(v)) /\ i # 0 /\ Inside(v, i)
    BY <1>1
  <2> HIDE DEF i
  <2>2. LET a == Now(b, v, i)
        IN  /\ a \in AnyBuilder /\ a.st = "good" /\ a.toks = b.toks \o Text(v, i)
            /\ a.open = Append(b.open, kind) /\ a.keyed = FALSE /\ a.tagged = FALSE
    BY <2>1, NowLater
  <2> QED BY <2>2 DEF i
<1>3. /\ e \in AnyBuilder /\ e.st = "good" /\ e.toks = b.toks \o Text(v, k)
      /\ e.open = b.open /\ e.keyed = FALSE /\ e.tagged = FALSE
  <2>1. k \in 0..Len(Steps(v)) /\ k # 0 /\ ~Inside(v, k)
    BY <1>1
  <2> QED BY <2>1, NowLater
<1>4. c.toks \o CloseDoc = b.toks \o Text(v, k)
  <2>1. Text(v, k) = Text(v, k - 1) \o OpDoc(Doc, Steps(v)[k])
    BY TextStep
  <2>2. OpDoc(Doc, Steps(v)[k]) = CloseDoc
    BY DEF OpDoc
  <2>3. b.toks \in Document /\ CloseDoc \in Document
    BY SmallDocs DEF Ready, AnyBuilder
  <2>4. Text(v, k - 1) \in Document
    <3>1. k - 1 \in 0..Len(Steps(v))
      BY <1>1
    <3> QED BY <3>1, TextStep
  <2>5. (b.toks \o Text(v, k - 1)) \o CloseDoc = b.toks \o (Text(v, k - 1) \o CloseDoc)
    BY <2>3, <2>4, DocConcatAssoc
  <2> QED BY <1>2, <2>1, <2>2, <2>5
<1>5. b.open \in Seq(Container)
  BY DEF Ready, AnyBuilder
<1> HIDE DEF c, kind
<1>6. /\ d \in AnyBuilder /\ d.st = "good" /\ d.toks = c.toks \o CloseDoc
      /\ d.open = b.open /\ d.keyed = FALSE /\ d.tagged = FALSE
  BY <1>1, <1>2, <1>5, CloseWrites
<1> HIDE DEF d, e
<1>7. d = e
  BY <1>3, <1>4, <1>6, SameBuilder
<1> QED BY <1>7 DEF c, d, e

LEMMA NowAdd ==
    ASSUME NEW b, Ready(b), NEW v, Compound(v), NEW k \in 1..Len(Steps(v)), Steps(v)[k].op = "add"
    PROVE  LET o == Steps(v)[k]
               c == Header(Now(b, v, k - 1), o.key, o.tag)
           IN  Ready(c) /\ Wrote(c, Doc[o.val]) = Now(b, v, k)
<1> DEFINE S == Steps(v)
           o == S[k]
           a == Now(b, v, k - 1)
           c == Header(a, o.key, o.tag)
           open == IF Inside(v, k) THEN Append(b.open, S[1].kind) ELSE b.open
<1>1. /\ o.key \in KeyArg /\ o.tag \in Int /\ o.val \in Value /\ Len(S) \in Nat
      /\ \/ k = 1 /\ Len(S) = 1 /\ o.key = NoKey
         \/ k \in 2..(Len(S) - 1) /\ S[1].op = "open" /\ (o.key = NoKey <=> S[1].kind = "array")
  BY StepCases
<1>2. Inside(v, k - 1) <=> Inside(v, k)
  BY <1>1 DEF Inside
<1>3. /\ a \in AnyBuilder /\ a.st = "good" /\ a.toks = b.toks \o Text(v, k - 1) /\ a.open = open
  <2> DEFINE i == k - 1
             x == Now(b, v, i)
  <2>1. i \in 0..Len(Steps(v))
    BY <1>1
  <2>2. Inside(v, i) <=> Inside(v, k)
    BY <1>2
  <2> HIDE DEF i
  <2>3. /\ x \in AnyBuilder /\ x.st = "good" /\ x.toks = b.toks \o Text(v, i)
        /\ Inside(v, i) => x.open = Append(b.open, Steps(v)[1].kind)
        /\ ~Inside(v, i) => x.open = b.open
    BY <2>1, NowType
  <2> HIDE DEF x
  <2> QED BY <2>2, <2>3 DEF x, i
<1>4. IF o.key = NoKey THEN ~WantsKey(a) ELSE WantsKey(a) /\ ~a.tagged
  <2>1. CASE k = 1 /\ Len(S) = 1 /\ o.key = NoKey
    <3>1. a = Now(b, v, 0)
      BY <2>1
    <3> QED BY <2>1, <3>1, NowFirst DEF Ready
  <2>2. CASE k \in 2..(Len(S) - 1) /\ S[1].op = "open" /\ (o.key = NoKey <=> S[1].kind = "array")
    <3>1. a.keyed = FALSE /\ a.tagged = FALSE
      <4> DEFINE i == k - 1
      <4>1. i \in 0..Len(Steps(v)) /\ i # 0
        BY <1>1, <2>2
      <4> HIDE DEF i
      <4>2. Now(b, v, i).keyed = FALSE /\ Now(b, v, i).tagged = FALSE
        BY <4>1, NowLater
      <4> QED BY <4>2 DEF i
    <3>2. Inside(v, k) /\ S[1].kind \in Container
      <4>1. 1 \in 1..Len(S)
        BY <1>1, <2>2
      <4> QED BY <1>1, <2>2, <4>1, StepCases DEF Inside
    <3>3. b.open \in Seq(Container)
      BY DEF Ready, AnyBuilder
    <3>4. a.open = Append(b.open, S[1].kind)
      BY <1>3, <3>2
    <3> HIDE DEF a, S
    <3>5. a.open # <<>> /\ a.open[Len(a.open)] = S[1].kind
      BY <3>2, <3>3, <3>4
    <3>6. WantsKey(a) <=> S[1].kind = "object"
      BY <3>1, <3>5 DEF WantsKey, InObject
    <3> QED BY <2>2, <3>1, <3>2, <3>6 DEF Container
  <2> QED BY <1>1, <2>1, <2>2
<1> HIDE DEF a, S
<1>5. Ready(c) /\ c.toks = a.toks \o (KeyDoc(o.key) \o TagDoc(o.tag)) /\ c.open = a.open
  <2>1. o.key \in KeyArg /\ o.tag \in Int
    BY <1>1
  <2> HIDE DEF o
  <2> QED BY <1>3, <1>4, <2>1, HeaderWrites
<1> DEFINE h == KeyDoc(o.key) \o TagDoc(o.tag)
           d == Doc[o.val]
<1>6. h \in Document /\ d \in Document
  <2>1. KeyDoc(o.key) \in Document /\ TagDoc(o.tag) \in Document
    BY <1>1, SmallDocs
  <2>2. h \in Document
    BY <2>1, DocConcat
  <2> QED BY <1>1, <2>2, DocNode DEF Docs
<1>7. c.toks \o d = b.toks \o Text(v, k)
  <2>1. Text(v, k) = Text(v, k - 1) \o (h \o d)
    <3>1. OpDoc(Doc, o) = h \o d
      BY DEF OpDoc, S
    <3> QED BY <3>1, TextStep DEF S
  <2>2. Text(v, k - 1) \in Document
    <3>1. k - 1 \in 0..Len(S)
      BY <1>1 DEF S
    <3> QED BY <3>1, TextStep DEF S
  <2>3. b.toks \in Document
    BY DEF Ready, AnyBuilder
  <2> DEFINE t == Text(v, k - 1)
  <2> HIDE DEF h, d, t
  <2>4. ((b.toks \o t) \o h) \o d = b.toks \o (t \o (h \o d))
    <3>1. b.toks \o t \in Document /\ h \o d \in Document
      BY <1>6, <2>2, <2>3, DocConcat DEF t
    <3>2. ((b.toks \o t) \o h) \o d = (b.toks \o t) \o (h \o d)
      BY <1>6, <3>1, DocConcatAssoc
    <3>3. (b.toks \o t) \o (h \o d) = b.toks \o (t \o (h \o d))
      BY <2>2, <2>3, <3>1, DocConcatAssoc DEF t
    <3> QED BY <3>2, <3>3
  <2>5. c.toks = (b.toks \o t) \o h
    BY <1>3, <1>5 DEF h, t
  <2> QED BY <2>1, <2>4, <2>5 DEF t
<1> DEFINE w == Wrote(c, d)
           e == Now(b, v, k)
<1>8. /\ w \in AnyBuilder /\ w.st = "good" /\ w.toks = c.toks \o d /\ w.open = c.open
      /\ w.keyed = FALSE /\ w.tagged = FALSE
  BY <1>5, <1>6, WroteType DEF Ready
<1>9. /\ e \in AnyBuilder /\ e.st = "good" /\ e.toks = b.toks \o Text(v, k) /\ e.open = open
      /\ e.keyed = FALSE /\ e.tagged = FALSE
  <2>1. k \in 0..Len(Steps(v)) /\ k # 0
    BY <1>1 DEF S
  <2>2. /\ e \in AnyBuilder /\ e.st = "good" /\ e.toks = b.toks \o Text(v, k)
        /\ e.keyed = FALSE /\ e.tagged = FALSE
        /\ Inside(v, k) => e.open = Append(b.open, Steps(v)[1].kind)
        /\ ~Inside(v, k) => e.open = b.open
    BY <2>1, NowLater
  <2> HIDE DEF e
  <2> QED BY <2>2 DEF S
<1> HIDE DEF w, e, d, open
<1>10. w = e
  BY <1>3, <1>5, <1>7, <1>8, <1>9, SameBuilder
<1> QED BY <1>5, <1>10 DEF w, e, d, a, S

LEMMA NowLast ==
    ASSUME NEW b, Ready(b), NEW v, Compound(v)
    PROVE  Now(b, v, Len(Steps(v))) = Wrote(b, Doc[v])
<1> DEFINE k == Len(Steps(v))
<1>1. k \in Nat /\ k >= 1
  BY StepsType
<1>2. Text(v, k) = Doc[v]
  BY TextStep
<1>3. ~Inside(v, k) /\ k # 0
  BY <1>1 DEF Inside
<1> HIDE DEF k
<1>4. Now(b, v, k) = Wrote(b, Doc[v])
  BY <1>2, <1>3 DEF Now, Wrote
<1> QED BY <1>4 DEF k

-----------------------------------------------------------------------------
(* A call of TypeMapper::serialize on an honest value, while it runs.       *)

\* The steps an activation has taken, the one in progress included.
Pos(fr) == IF fr.f = "hash" THEN fr.pc ELSE fr.pc - 1
Current(fr) == Steps(fr.val)[Pos(fr)]
\* An activation below the running one waits for a value to be written; the
\* builder it has the value written to, where b is the builder it began with.
Waiting(fr) ==
    fr.f = "mapper" \/ (Pos(fr) \in 1..Len(Steps(fr.val)) /\ Current(fr).op = "add")
Child(fr) == IF fr.f = "mapper" THEN fr.val ELSE Current(fr).val
Mid(b, fr) ==
    IF fr.f = "mapper" THEN b
    ELSE Header(Now(b, fr.val, Pos(fr) - 1), Current(fr).key, Current(fr).tag)
\* The builder when the current step is done.
Held(b, fr) == IF fr.f = "mapper" THEN Wrote(b, Doc[fr.val]) ELSE Now(b, fr.val, Pos(fr))

\* An activation of a call on an honest value.
Fitting(fr) ==
    /\ fr.val \in Value /\ Honest[fr.val] /\ fr.d = "mapper"
    /\ \/ fr.f = "mapper"
       \/ /\ fr.f = "hash" /\ Heap[fr.val].kind \in Tabular
          /\ fr.pc \in 1..(Len(Heap[fr.val].entries) + 1)
       \/ /\ fr.f = "user" /\ Heap[fr.val].kind \in Called
          /\ fr.pc \in 1..(Len(Heap[fr.val].prog) + 1)

\* The activations of the call that frame m of s is; h[j] is the builder that
\* frame j began with.
Frames(s, m, h) ==
    /\ m \in 1..Len(s) /\ s[m].f = "mapper" /\ h \in [Nat -> AnyBuilder] /\ h[m] = Fresh
    /\ \A j \in m..Len(s) : Fitting(s[j]) /\ Ready(h[j]) /\ (s[j].f = "mapper" => j = m)
    /\ \A j \in m..(Len(s) - 1) :
         Waiting(s[j]) /\ s[j + 1].val = Child(s[j]) /\ h[j + 1] = Mid(h[j], s[j])
Run(s, m, h, b) == Frames(s, m, h) /\ b = Held(h[Len(s)], s[Len(s)])

LEMMA FittingSteps ==
    ASSUME NEW fr, Fitting(fr), fr.f # "mapper"
    PROVE  /\ Compound(fr.val) /\ Pos(fr) \in 0..Len(Steps(fr.val)) /\ Len(Steps(fr.val)) \in Nat
           /\ fr.f = "hash" => /\ Pos(fr) = fr.pc /\ Heap[fr.val].kind \in Tabular
                               /\ Len(Steps(fr.val)) = Len(Heap[fr.val].entries) + 2
           /\ fr.f = "user" => /\ Pos(fr) = fr.pc - 1 /\ Heap[fr.val].kind \in Called
                               /\ Steps(fr.val) = Heap[fr.val].prog
<1>1. Compound(fr.val)
  BY DEF Fitting, Compound
<1>2. fr.f \in {"hash", "user"} /\ fr.f # "mapper"
  BY DEF Fitting
<1>3. Len(Steps(fr.val)) \in Nat /\ (Heap[fr.val].kind \in Tabular => Len(Steps(fr.val)) = Len(Heap[fr.val].entries) + 2)
  BY <1>1, StepsType
<1>4. Heap[fr.val].kind \in Called => Steps(fr.val) = Heap[fr.val].prog
  BY DEF Steps, Called, Tabular
<1>5. Len(Heap[fr.val].entries) \in Nat /\ Len(Heap[fr.val].prog) \in Nat
  BY NodeType DEF Fitting
<1>6. CASE fr.f = "hash"
  <2>1. Heap[fr.val].kind \in Tabular /\ fr.pc \in 1..(Len(Heap[fr.val].entries) + 1) /\ Pos(fr) = fr.pc
    BY <1>6 DEF Fitting, Pos
  <2> QED BY <1>1, <1>3, <1>5, <1>6, <2>1
<1>7. CASE fr.f = "user"
  <2>1. Heap[fr.val].kind \in Called /\ fr.pc \in 1..(Len(Heap[fr.val].prog) + 1) /\ Pos(fr) = fr.pc - 1
    BY <1>7 DEF Fitting, Pos
  <2> QED BY <1>1, <1>3, <1>4, <1>5, <1>7, <2>1
<1> QED BY <1>2, <1>6, <1>7

\* What an activation waits for is an honest value, and with its document the
\* step is done.
LEMMA Settle ==
    ASSUME NEW fr, Fitting(fr), Waiting(fr), NEW b, Ready(b)
    PROVE  /\ Ready(Mid(b, fr)) /\ Child(fr) \in Value /\ Honest[Child(fr)]
           /\ Wrote(Mid(b, fr), Doc[Child(fr)]) = Held(b, fr)
<1>1. CASE fr.f = "mapper"
  BY <1>1 DEF Mid, Child, Held, Fitting
<1>2. CASE fr.f # "mapper"
  <2> DEFINE v == fr.val
             k == Pos(fr)
             o == Steps(v)[k]
             c == Header(Now(b, v, k - 1), o.key, o.tag)
  <2>1. Compound(v) /\ k \in 1..Len(Steps(v)) /\ o.op = "add"
    BY <1>2, FittingSteps DEF Waiting, Current
  <2>2. Mid(b, fr) = c /\ Child(fr) = o.val /\ Held(b, fr) = Now(b, v, k)
    BY <1>2 DEF Mid, Child, Held, Current
  <2>3. o.val \in Value /\ Honest[o.val]
    BY <2>1, StepCases, StepsType
  <2> HIDE DEF v, k
  <2>4. Ready(c) /\ Wrote(c, Doc[o.val]) = Now(b, v, k)
    BY <2>1, NowAdd
  <2> HIDE DEF o, c
  <2> QED BY <2>2, <2>3, <2>4
<1> QED BY <1>1, <1>2

\* The frames of a call when the running one goes on, or gets another on top.
LEMMA FramesAdvance ==
    ASSUME NEW s \in Stack, NEW m, NEW h, Frames(s, m, h),
           NEW t \in Stack, Len(t) = Len(s), \A j \in 1..(Len(s) - 1) : t[j] = s[j],
           Fitting(t[Len(t)]), t[Len(t)].f = s[Len(s)].f, t[Len(t)].val = s[Len(s)].val
    PROVE  Frames(t, m, h)
<1>1. Len(s) \in Nat /\ m \in 1..Len(s) /\ s[m].f = "mapper" /\ h \in [Nat -> AnyBuilder] /\ h[m] = Fresh
  BY DEF Frames, Stack
<1>2. t[m].f = "mapper"
  <2>1. m = Len(s) \/ m \in 1..(Len(s) - 1)
    BY <1>1
  <2> QED BY <1>1, <2>1
<1>3. ASSUME NEW j \in m..Len(s)
      PROVE  Fitting(t[j]) /\ Ready(h[j]) /\ (t[j].f = "mapper" => j = m)
  <2>1. Fitting(s[j]) /\ Ready(h[j]) /\ (s[j].f = "mapper" => j = m)
    BY DEF Frames
  <2>2. j = Len(s) \/ j \in 1..(Len(s) - 1)
    BY <1>1
  <2> QED BY <2>1, <2>2
<1>4. ASSUME NEW j \in m..(Len(s) - 1)
      PROVE  Waiting(t[j]) /\ t[j + 1].val = Child(t[j]) /\ h[j + 1] = Mid(h[j], t[j])
  <2>1. Waiting(s[j]) /\ s[j + 1].val = Child(s[j]) /\ h[j + 1] = Mid(h[j], s[j])
    BY DEF Frames
  <2>2. t[j] = s[j] /\ (j + 1 = Len(s) \/ j + 1 \in 1..(Len(s) - 1))
    BY <1>1
  <2>3. t[j + 1].val = s[j + 1].val
    BY <2>2
  <2> QED BY <2>1, <2>2, <2>3
<1> QED BY <1>1, <1>2, <1>3, <1>4 DEF Frames

LEMMA FramesPush ==
    ASSUME NEW t \in Stack, NEW m, NEW h, Frames(t, m, h), Waiting(t[Len(t)]),
           NEW fr \in Activation, Fitting(fr), fr.f # "mapper", fr.val = Child(t[Len(t)])
    PROVE  \E g : Run(t \o <<fr>>, m, g, Held(Mid(h[Len(t)], t[Len(t)]), fr))
<1> DEFINE L == Len(t)
           u == t \o <<fr>>
           b == Mid(h[L], t[L])
           g == [h EXCEPT ![L + 1] = b]
<1>1. /\ L \in Nat /\ m \in 1..L /\ t[m].f = "mapper" /\ h \in [Nat -> AnyBuilder] /\ h[m] = Fresh
      /\ Fitting(t[L]) /\ Ready(h[L])
  BY DEF Frames, Stack
<1>2. Ready(b)
  BY <1>1, Settle
<1>3. /\ Len(u) = L + 1 /\ u[L + 1] = fr /\ \A j \in 1..L : u[j] = t[j]
  BY DEF Stack
<1> HIDE DEF u, b
<1>4. /\ g \in [Nat -> AnyBuilder] /\ g[L + 1] = b /\ \A j \in 1..L : g[j] = h[j]
  BY <1>1, <1>2 DEF Ready
<1> HIDE DEF g, L
<1>5. ASSUME NEW j \in m..(L + 1)
      PROVE  Fitting(u[j]) /\ Ready(g[j]) /\ (u[j].f = "mapper" => j = m)
  <2>1. CASE j = L + 1
    BY <1>2, <1>3, <1>4, <2>1
  <2>2. CASE j \in m..L
    <3>1. Fitting(t[j]) /\ Ready(h[j]) /\ (t[j].f = "mapper" => j = m)
      BY <2>2 DEF Frames, L
    <3>2. j \in 1..L
      BY <1>1, <2>2
    <3> QED BY <1>3, <1>4, <3>1, <3>2
  <2> QED BY <1>1, <2>1, <2>2
<1>6. ASSUME NEW j \in m..L
      PROVE  Waiting(u[j]) /\ u[j + 1].val = Child(u[j]) /\ g[j + 1] = Mid(g[j], u[j])
  <2>1. CASE j = L
    <3>1. j \in 1..L
      BY <1>1
    <3> QED BY <1>3, <1>4, <2>1, <3>1 DEF L, b
  <2>2. CASE j \in m..(L - 1)
    <3>1. Waiting(t[j]) /\ t[j + 1].val = Child(t[j]) /\ h[j + 1] = Mid(h[j], t[j])
      BY <2>2 DEF Frames, L
    <3>2. j \in 1..L /\ j + 1 \in 1..L
      BY <1>1, <2>2
    <3> QED BY <1>3, <1>4, <3>1, <3>2
  <2> QED BY <1>1, <2>1, <2>2
<1>7. Frames(u, m, g)
  <2>1. m \in 1..Len(u) /\ u[m].f = "mapper" /\ g[m] = Fresh /\ Len(u) - 1 = L
    BY <1>1, <1>3, <1>4
  <2> QED BY <1>3, <1>4, <1>5, <1>6, <2>1 DEF Frames
<1>8. Run(u, m, g, Held(b, fr))
  BY <1>3, <1>4, <1>7 DEF Run
<1> QED BY <1>8 DEF u, b, L

\* The running activation ends, with its value in the builder.
LEMMA FramesPop ==
    ASSUME NEW s \in Stack, NEW m, NEW h, Frames(s, m, h), m # Len(s)
    PROVE  Run(Below(s), m, h, Wrote(h[Len(s)], Doc[s[Len(s)].val]))
<1> DEFINE t == Below(s)
           L == Len(s)
           k == L - 1
<1>1. L \in Nat /\ m \in 1..L /\ m \in 1..k /\ k \in m..k /\ s[m].f = "mapper"
      /\ h \in [Nat -> AnyBuilder] /\ h[m] = Fresh /\ k + 1 = L
  BY DEF Frames, Stack
<1>2. Len(t) = k /\ \A j \in 1..k : t[j] = s[j]
  <2>1. Len(s) \in Nat /\ Len(s) > 1
    <3>1. Len(s) \in Nat /\ m \in 1..Len(s)
      BY DEF Frames, Stack
    <3> QED BY <3>1
  <2>2. /\ Len(Below(s)) = Len(s) - 1
        /\ \A j \in 1..(Len(s) - 1) : Below(s)[j] = s[j]
    BY <2>1 DEF Below, Stack
  <2> QED BY <2>2
<1> HIDE DEF t
<1>3. ASSUME NEW j \in m..k
      PROVE  Fitting(t[j]) /\ Ready(h[j]) /\ (t[j].f = "mapper" => j = m)
  <2>1. j \in m..L /\ j \in 1..k
    BY <1>1
  <2> HIDE DEF k
  <2>2. Fitting(s[j]) /\ Ready(h[j]) /\ (s[j].f = "mapper" => j = m)
    BY <2>1 DEF Frames
  <2> QED BY <1>2, <2>1, <2>2
<1>4. ASSUME NEW j \in m..k
      PROVE  Waiting(t[j]) /\ s[j + 1].val = Child(t[j]) /\ h[j + 1] = Mid(h[j], t[j])
  <2>1. j \in 1..k
    BY <1>1
  <2>2. Waiting(s[j]) /\ s[j + 1].val = Child(s[j]) /\ h[j + 1] = Mid(h[j], s[j])
    BY DEF Frames
  <2> HIDE DEF k
  <2> QED BY <1>2, <2>1, <2>2
<1>5. ASSUME NEW j \in m..(k - 1)
      PROVE  Waiting(t[j]) /\ t[j + 1].val = Child(t[j]) /\ h[j + 1] = Mid(h[j], t[j])
  <2>1. j \in m..k /\ j + 1 \in 1..k
    BY <1>1
  <2> HIDE DEF k
  <2> QED BY <1>2, <1>4, <2>1
<1>6. Frames(t, m, h)
  <2>1. t[m].f = "mapper"
    BY <1>1, <1>2
  <2> HIDE DEF k
  <2> QED BY <1>1, <1>2, <1>3, <1>5, <2>1 DEF Frames
<1>7. Wrote(h[L], Doc[s[L].val]) = Held(h[k], t[k])
  <2>1. Waiting(t[k]) /\ s[L].val = Child(t[k]) /\ h[L] = Mid(h[k], t[k])
    BY <1>1, <1>4
  <2>2. Fitting(t[k]) /\ Ready(h[k])
    BY <1>1, <1>3
  <2> HIDE DEF k, L
  <2> QED BY <2>1, <2>2, Settle
<1> QED BY <1>2, <1>6, <1>7 DEF Run, t

\* A key is written before anything else of an honest value.
LEMMA KeyFirst ==
    ASSUME NEW v \in Value, Honest[v], ~pend, NEW key, NEW b, NEW d
    PROVE  Serialize(v, key, b, d) = Serialize(v, NoKey, WriteKey(b, key), d)
<1> DEFINE n == Heap[v]
           c == WriteKey(b, key)
<1>1. WriteKey(c, NoKey) = c
  BY DEF WriteKey
<1>2. \A tag : Header(c, NoKey, tag) = Header(b, key, tag)
  BY <1>1 DEF Header
<1>3. /\ n.kind \in Scalars \cup {"array", "plain", "serializable", "mapped"}
      /\ n.kind = "serializable" => n.getTagId = <<>>
  BY HonestCases DEF Tabular, Called
<1> HIDE DEF c
<1>4. CASE n.kind \in Scalars
  BY <1>1, <1>4 DEF Serialize, c, Scalars, TagKnown
<1>5. CASE n.kind = "array"
  BY <1>1, <1>5 DEF Serialize, c, Scalars, TagKnown
<1>6. CASE n.kind = "plain"
  BY <1>2, <1>6 DEF Serialize, c, Scalars, TagKnown
<1>7. CASE n.kind \in {"serializable", "mapped"}
  BY <1>2, <1>3, <1>7 DEF Serialize, c, Scalars, TagKnown
<1> QED BY <1>3, <1>4, <1>5, <1>6, <1>7

\* serialize on an honest value: it is written, or its first step is.
LEMMA SerializeHonest ==
    ASSUME NEW v \in Value, Honest[v], ~pend, NEW b, Ready(b)
    PROVE  LET r == Serialize(v, NoKey, b, "mapper")
           IN  /\ r.b \in AnyBuilder /\ r.b.st = "good"
               /\ \/ r.call = <<>> /\ r.b = Wrote(b, Doc[v])
                  \/ \E fr \in Activation : /\ Fitting(fr) /\ fr.f # "mapper" /\ fr.val = v
                                            /\ r.call = <<fr>> /\ r.b = Held(b, fr)
<1> DEFINE n == Heap[v]
           r == Serialize(v, NoKey, b, "mapper")
<1>1. /\ n.kind \in Scalars \cup Tabular \cup Called
      /\ n.kind = "serializable" => n.getTagId = <<>>
  BY HonestCases DEF Called
<1>2. n.kind \in Called => TagKnown(n)
  BY <1>1 DEF TagKnown, Called
<1>3. WriteKey(b, NoKey) = b /\ b \in AnyBuilder
  BY DEF WriteKey, Ready
<1>4. CASE n.kind \in Scalars
  <2>1. r.b = WriteAtom(b, Atom(n)) /\ r.call = <<>>
    BY <1>3, <1>4 DEF Serialize, Scalars, TagKnown
  <2>2. ScalarDoc(n) = <<Atom(n)>> /\ Atom(n) \in Token
    BY <1>4, ScalarToken
  <2>3. Doc[v] = <<Atom(n)>> /\ Doc[v] \in Document
    BY <1>4, <2>2, DocNode, DocCases DEF Docs
  <2>4. WriteAtom(b, Atom(n)) = Wrote(b, Doc[v])
    BY <2>2, <2>3, ValueWrites
  <2>5. Wrote(b, Doc[v]) \in AnyBuilder /\ Wrote(b, Doc[v]).st = "good"
    BY <1>3, <2>3, WroteType
  <2> HIDE DEF r, n
  <2> QED BY <1>2, <2>1, <2>4, <2>5 DEF n, r
<1>5. CASE n.kind \in Tabular
  <2> DEFINE fr == HashFrame(v, "mapper")
             tag == HeadTag(v)
             c == Now(b, v, 0)
             S == Steps(v)
  <2>1. Compound(v)
    BY <1>5 DEF Compound
  <2>2. /\ S[1].op = "open" /\ S[1].kind = Shape(n) /\ 1 \in 1..Len(S) /\ Len(n.entries) \in Nat
    BY <1>5, <2>1, TableSteps, StepsType, NodeType
  <2>3. Header(b, NoKey, tag) = c
    BY <2>1, NowFirst
  <2>4. OpenContainer(c, Shape(n)) = Now(b, v, 1)
    BY <2>1, <2>2, NowOpen
  <2>5. r.b = OpenContainer(Header(b, NoKey, tag), Shape(n)) /\ r.call = <<fr>>
    <3>1. CASE n.kind = "array"
      <4>1. Header(b, NoKey, tag) = b
        BY <1>3, <3>1 DEF Header, WriteTag, HeadTag
      <4> QED BY <1>3, <3>1, <4>1 DEF Serialize, Scalars, TagKnown
    <3>2. CASE n.kind = "plain"
      <4>1. tag = n.tag
        BY <3>2 DEF HeadTag
      <4> QED BY <3>2, <4>1 DEF Serialize, Scalars, TagKnown
    <3> QED BY <1>5, <3>1, <3>2 DEF Tabular
  <2>6. fr \in Activation /\ fr.f = "hash" /\ fr.val = v /\ fr.d = "mapper" /\ fr.pc = 1
    BY FrameType DEF HashFrame, Frame, Buffer
  <2>7. Now(b, v, 1) \in AnyBuilder /\ Now(b, v, 1).st = "good"
    <3> DEFINE i == 1
    <3>1. i \in 0..Len(S)
      BY <2>1, <2>2, StepsType
    <3> HIDE DEF i
    <3>2. Now(b, v, i) \in AnyBuilder /\ Now(b, v, i).st = "good"
      BY <2>1, <3>1, NowType
    <3> QED BY <3>2 DEF i
  <2> HIDE DEF fr, r, c, tag, S
  <2>8. Fitting(fr) /\ Held(b, fr) = Now(b, v, 1)
    BY <1>5, <2>2, <2>6 DEF Fitting, Held, Pos
  <2> QED BY <1>2, <2>3, <2>4, <2>5, <2>6, <2>7, <2>8 DEF r
<1>6. CASE n.kind \in Called
  <2> DEFINE fr == CallbackFrame(v, "mapper")
             c == Now(b, v, 0)
  <2>1. Compound(v) /\ HeadTag(v) = n.tag
    BY <1>6 DEF Compound, HeadTag, Called
  <2>2. Header(b, NoKey, n.tag) = c /\ Ready(c)
    BY <2>1, NowFirst
  <2>3. r.b = Header(b, NoKey, n.tag) /\ r.call = <<fr>>
    BY <1>2, <1>6 DEF Serialize, Scalars, Called, TagKnown
  <2>4. fr \in Activation /\ fr.f = "user" /\ fr.val = v /\ fr.d = "mapper" /\ fr.pc = 1
    BY FrameType DEF CallbackFrame, CallbackBuilder, Frame, Buffer
  <2>5. Len(n.prog) \in Nat
    BY NodeType
  <2>6. c \in AnyBuilder /\ c.st = "good"
    BY <2>2 DEF Ready
  <2> HIDE DEF fr, r
  <2>7. Fitting(fr) /\ Held(b, fr) = c
    BY <1>6, <2>4, <2>5 DEF Fitting, Held, Pos
  <2> HIDE DEF c
  <2> QED BY <1>2, <2>2, <2>3, <2>4, <2>6, <2>7 DEF r
<1> QED BY <1>1, <1>4, <1>5, <1>6

\* A call into the mapper's builder that the library does not object to.
LEMMA EnterGood ==
    ASSUME TypeOK, ~pend, NEW b, b.st = "good", NEW call, NEW s, Enter("mapper", b, call, s)
    PROVE  bld'["mapper"] = b /\ ~pend' /\ stk' = s \o call /\ ret' = ret
<1>1. Throws(b) = {FALSE} /\ Settled(b) = b
  BY DEF Throws, Settled
<1>2. /\ bld' = [bld EXCEPT !["mapper"] = b] /\ pend' = (pend \/ FALSE \/ FALSE)
      /\ stk' = s \o call /\ ret' = ret
  BY <1>1 DEF Enter
<1> QED BY <1>2 DEF TypeOK, Buffer

\* The waiting activation has its value added.
LEMMA AddHonest ==
    ASSUME TypeOK, ~pend, NEW t \in Stack, NEW m, NEW h, Frames(t, m, h), Waiting(t[Len(t)]),
           Add(Child(t[Len(t)]), NoKey, Mid(h[Len(t)], t[Len(t)]), "mapper", t)
    PROVE  ~pend' /\ ret' = ret /\ \E g : Run(stk', m, g, bld'["mapper"])
<1> DEFINE L == Len(t)
           fr == t[L]
           v == Child(fr)
           b == Mid(h[L], fr)
           r == Serialize(v, NoKey, b, "mapper")
<1>1. Fitting(fr) /\ Ready(h[L]) /\ L \in Nat
  BY DEF Frames, Stack
<1>2. Ready(b) /\ v \in Value /\ Honest[v] /\ Wrote(b, Doc[v]) = Held(h[L], fr)
  BY <1>1, Settle
<1>3. Enter("mapper", r.b, r.call, t)
  BY DEF Add
<1> HIDE DEF v, b, fr
<1>4. /\ r.b \in AnyBuilder /\ r.b.st = "good"
      /\ \/ r.call = <<>> /\ r.b = Wrote(b, Doc[v])
         \/ \E e \in Activation : /\ Fitting(e) /\ e.f # "mapper" /\ e.val = v
                                  /\ r.call = <<e>> /\ r.b = Held(b, e)
  BY <1>2, SerializeHonest
<1> HIDE DEF r
<1>6. bld'["mapper"] = r.b /\ ~pend' /\ stk' = t \o r.call /\ ret' = ret
  BY <1>3, <1>4, EnterGood
<1>7. CASE r.call = <<>> /\ r.b = Wrote(b, Doc[v])
  <2>1. stk' = t
    BY <1>6, <1>7, ConcatEmptySeq DEF Stack
  <2>2. Run(t, m, h, r.b)
    BY <1>2, <1>7 DEF Run, fr
  <2> QED BY <1>6, <2>1, <2>2
<1>8. CASE \E e \in Activation : /\ Fitting(e) /\ e.f # "mapper" /\ e.val = v
                                 /\ r.call = <<e>> /\ r.b = Held(b, e)
  <2>1. PICK e \in Activation : /\ Fitting(e) /\ e.f # "mapper" /\ e.val = v
                                /\ r.call = <<e>> /\ r.b = Held(b, e)
    BY <1>8
  <2>2. \E g : Run(t \o <<e>>, m, g, Held(b, e))
    BY <2>1, FramesPush DEF fr, v, b
  <2> QED BY <1>6, <2>1, <2>2
<1> QED BY <1>4, <1>6, <1>7, <1>8

-----------------------------------------------------------------------------
(* The invariant: every call in progress on an honest value runs undisturbed, *)
(* and the last one that returned returned its document.                    *)
HonestCalls(s, p, b) ==
    \A m \in 1..Len(s) :
        s[m].f = "mapper" /\ Honest[s[m].val] => ~p /\ \E h : Run(s, m, h, b)
Answers(r) == r.ok => r.val \in Value /\ (Honest[r.val] => r.doc = Doc[r.val])
DocInv == Inv /\ HonestCalls(stk, pend, bld["mapper"]) /\ Answers(ret)

\* t has no call in progress that s does not have.
OldMappers(t, s) ==
    \A i \in 1..Len(t) : t[i].f = "mapper" =>
        i \in 1..Len(s) /\ s[i].f = "mapper" /\ s[i].val = t[i].val
\* A step that continues the honest calls.
Continues ==
    \A m, h : ~pend /\ Run(stk, m, h, bld["mapper"])
              => ~pend' /\ \E g : Run(stk', m, g, bld'["mapper"])

LEMMA CallsContinue ==
    ASSUME HonestCalls(stk, pend, bld["mapper"]), OldMappers(stk', stk), Continues
    PROVE  HonestCalls(stk', pend', bld'["mapper"])
<1> SUFFICES ASSUME NEW m \in 1..Len(stk'), stk'[m].f = "mapper", Honest[stk'[m].val]
             PROVE  ~pend' /\ \E h : Run(stk', m, h, bld'["mapper"])
  BY DEF HonestCalls
<1>1. m \in 1..Len(stk) /\ stk[m].f = "mapper" /\ Honest[stk[m].val]
  BY DEF OldMappers
<1>2. ~pend /\ \E h : Run(stk, m, h, bld["mapper"])
  BY <1>1 DEF HonestCalls
<1> QED BY <1>2 DEF Continues

LEMMA SameOld ==
    ASSUME NEW s, NEW t, SameFrames(s, t)
    PROVE  OldMappers(t, s)
BY DEF SameFrames, OldMappers

LEMMA OldTwice ==
    ASSUME NEW s, NEW t, NEW u, OldMappers(t, s), OldMappers(u, t)
    PROVE  OldMappers(u, s)
BY DEF OldMappers

LEMMA PartOld ==
    ASSUME NEW s \in Stack, NEW t \in Stack, PartOf(t, s)
    PROVE  OldMappers(t, s)
BY DEF PartOf, OldMappers, Stack

\* One call into a builder starts no call of TypeMapper::serialize.
LEMMA EnterOld ==
    ASSUME NEW d, NEW b, NEW s \in Stack, s # <<>>, Nesting(s), Answers(ret),
           NEW call, call = <<>> \/ \E fr \in Activation : Fits(s, fr) /\ fr.f # "mapper" /\ call = <<fr>>,
           Enter(d, b, call, s)
    PROVE  OldMappers(stk', s) /\ Answers(ret')
<1>1. PICK throws \in Throws(b) :
        /\ stk' = IF throws THEN Disturb(Unwound(s)) ELSE s \o call
        /\ ret' = IF throws /\ UserLevel(s) < Len(s) /\ s[UserLevel(s) + 1].f = "mapper"
                  THEN Refused(s[UserLevel(s) + 1].val) ELSE ret
  BY DEF Enter
<1>2. Answers(ret')
  BY <1>1 DEF Answers, Refused, NoCall
<1> DEFINE t == IF throws THEN Unwound(s) ELSE s \o call
<1>3. t \in Stack /\ t # <<>> /\ Nesting(t) /\ OldMappers(t, s)
  <2>1. CASE throws
    BY <2>1, UnwoundType, PartOld
  <2>2. CASE ~throws /\ call = <<>>
    BY <2>2, ConcatEmptySeq DEF Stack, OldMappers
  <2>3. CASE ~throws /\ call # <<>>
    <3>1. PICK fr \in Activation : Fits(s, fr) /\ fr.f # "mapper" /\ call = <<fr>>
      BY <2>3
    <3>2. s \o <<fr>> \in Stack /\ \A i \in 1..Len(s \o <<fr>>) :
            (s \o <<fr>>)[i] = fr \/ (i \in 1..Len(s) /\ (s \o <<fr>>)[i] = s[i])
      BY DEF Stack
    <3>3. s \o <<fr>> # <<>> /\ Nesting(s \o <<fr>>)
      BY <3>1, PushType
    <3> QED BY <2>3, <3>1, <3>2, <3>3 DEF OldMappers
  <2> QED BY <2>1, <2>2, <2>3
<1>4. stk' = t \/ stk' = Disturb(t)
  BY <1>1
<1> HIDE DEF t
<1>5. OldMappers(Disturb(t), t)
  BY <1>3, DisturbType, SameOld
<1> QED BY <1>2, <1>3, <1>4, <1>5, OldTwice

LEMMA AddOld ==
    ASSUME Inv, Answers(ret), NEW v \in Value, NEW key \in KeyArg, NEW b \in AnyBuilder,
           NEW d \in Buffer, NEW s \in Stack, s # <<>>, Nesting(s),
           s[Len(s)].f # "user" => d = s[Len(s)].d,
           Add(v, key, b, d, s)
    PROVE  OldMappers(stk', s) /\ Answers(ret')
<1> DEFINE r == Serialize(v, key, b, d)
<1>1. r.call = <<>> \/ \E fr \in Activation : Fits(s, fr) /\ r.call = <<fr>>
  BY SerializeType DEF Inv
<1>2. r.call \in {<<>>, <<HashFrame(v, d)>>, <<CallbackFrame(v, d)>>, <<ValueFrame(v, key, d)>>}
  BY SerializeCalls
<1>3. \A fr : r.call = <<fr>> => fr.f # "mapper"
  BY <1>2, NewFrames
<1>4. Enter(d, r.b, r.call, s)
  BY DEF Add
<1> HIDE DEF r
<1> QED BY <1>1, <1>3, <1>4, EnterOld

-----------------------------------------------------------------------------
(* The running activation of a call on an honest value.                     *)
LEMMA RunTop ==
    ASSUME Inv, NEW m, NEW h, Run(stk, m, h, bld["mapper"])
    PROVE  /\ Fitting(Top) /\ Ready(h[Len(stk)]) /\ bld["mapper"] = Held(h[Len(stk)], Top)
           /\ Frames(stk, m, h) /\ m \in 1..Len(stk) /\ (Top.f = "mapper" <=> m = Len(stk))
<1>1. Len(stk) \in Nat /\ m \in 1..Len(stk) /\ Frames(stk, m, h)
  BY StackInv DEF Run, Frames
<1>2. Len(stk) \in m..Len(stk)
  BY <1>1
<1> QED BY <1>1, <1>2 DEF Run, Frames, Top

\* The stack when it takes a step.
LEMMA RunAdvance ==
    ASSUME Inv, NEW m, NEW h, Run(stk, m, h, bld["mapper"]), Top.f # "mapper",
           Top.f = "hash" => Top.pc <= Len(Heap[Top.val].entries),
           Top.f = "user" => Top.pc <= Len(Heap[Top.val].prog)
    PROVE  LET t == Advance(stk)
               fr == t[Len(t)]
           IN  /\ t \in Stack /\ Frames(t, m, h) /\ Len(t) = Len(stk)
               /\ Fitting(fr) /\ fr.f = Top.f /\ fr.val = Top.val /\ Pos(fr) = Pos(Top) + 1
<1> DEFINE t == Advance(stk)
           L == Len(stk)
           e == [Top EXCEPT !.pc = @ + 1]
<1>1. /\ stk \in Stack /\ stk # <<>> /\ L \in Nat /\ L >= 1 /\ t \in Stack /\ Top \in Activation
  BY StackInv
<1>2. /\ Len(t) = L
      /\ \A i \in 1..L : t[i] = IF i = L THEN [stk[i] EXCEPT !.pc = @ + 1] ELSE stk[i]
  BY <1>1, AdvanceHistory
<1>3. t[L] = e /\ \A i \in 1..(L - 1) : t[i] = stk[i]
  <2>1. L \in 1..L /\ \A i \in 1..(L - 1) : i \in 1..L /\ i # L
    BY <1>1
  <2>2. e = [stk[L] EXCEPT !.pc = @ + 1]
    BY DEF Top
  <2> HIDE DEF t, e, L
  <2> QED BY <1>2, <2>1, <2>2
<1>4. /\ e.f = Top.f /\ e.val = Top.val /\ e.d = Top.d /\ e.pc = Top.pc + 1 /\ Top.pc \in Nat
  BY <1>1 DEF Activation
<1> HIDE DEF e, t
<1>5. Fitting(Top)
  BY RunTop
<1>6. Fitting(e)
  <2>1. Len(Heap[Top.val].entries) \in Nat /\ Len(Heap[Top.val].prog) \in Nat
    BY <1>5, NodeType DEF Fitting
  <2>2. CASE Top.f = "hash"
    <3>1. e.pc \in 1..(Len(Heap[e.val].entries) + 1)
      BY <1>4, <2>1, <2>2
    <3> QED BY <1>4, <1>5, <2>2, <3>1 DEF Fitting
  <2>3. CASE Top.f = "user"
    <3>1. e.pc \in 1..(Len(Heap[e.val].prog) + 1)
      BY <1>4, <2>1, <2>3
    <3> QED BY <1>4, <1>5, <2>3, <3>1 DEF Fitting
  <2> QED BY <1>5, <2>2, <2>3 DEF Fitting
<1>7. Pos(e) = Pos(Top) + 1
  BY <1>4 DEF Pos
<1>8. Frames(t, m, h)
  <2>1. stk[Len(stk)] = Top
    BY DEF Top
  <2>2. Frames(stk, m, h)
    BY RunTop
  <2> QED BY <1>1, <1>2, <1>3, <1>4, <1>6, <2>1, <2>2, FramesAdvance
<1> QED BY <1>1, <1>2, <1>3, <1>4, <1>6, <1>7, <1>8 DEF t

\* A callback.
LEMMA UserTop ==
    ASSUME Inv, NEW m, NEW h, Run(stk, m, h, bld["mapper"]), Top.f = "user"
    PROVE  LET v == Top.val
               k == Top.pc
           IN  /\ Compound(v) /\ Len(Steps(v)) \in Nat /\ Program = Steps(v)
               /\ bld["mapper"] = Now(h[Len(stk)], v, k - 1) /\ k \in 1..(Len(Steps(v)) + 1)
               /\ \A o \in NextOps : /\ k \in 1..Len(Steps(v)) /\ o = Steps(v)[k]
                                     /\ Target(o) = "mapper" /\ o.op \in {"open", "close", "add"}
<1> DEFINE v == Top.val
           k == Top.pc
<1>1. Fitting(Top) /\ bld["mapper"] = Held(h[Len(stk)], Top)
  BY RunTop
<1>2. /\ Compound(v) /\ Pos(Top) = k - 1 /\ Pos(Top) \in 0..Len(Steps(v)) /\ Len(Steps(v)) \in Nat
      /\ Heap[v].kind \in Called /\ Steps(v) = Heap[v].prog
  BY <1>1, FittingSteps
<1>3. k \in 1..(Len(Steps(v)) + 1) /\ Top.d = "mapper"
  BY <1>1, <1>2 DEF Fitting
<1>4. v \in Value /\ v # Script
  BY <1>1, ScriptAssumption DEF Fitting
<1>a. ~InTagId
  <2>1. Len(stk) \in Nat /\ m \in 1..Len(stk) /\ m # Len(stk) /\ Frames(stk, m, h)
    BY RunTop, StackInv
  <2>2. Len(stk) - 1 \in m..Len(stk)
    BY <2>1
  <2>3. Fitting(stk[Len(stk) - 1])
    BY <2>1, <2>2 DEF Frames
  <2> QED BY <2>3 DEF Fitting, InTagId
<1>5. Program = Steps(v)
  BY <1>2, <1>4, <1>a DEF Program
<1>6. ASSUME NEW o \in NextOps
      PROVE  /\ k \in 1..Len(Steps(v)) /\ o = Steps(v)[k]
             /\ Target(o) = "mapper" /\ o.op \in {"open", "close", "add"}
  <2>1. k <= Len(Steps(v)) /\ o = Steps(v)[k]
    BY <1>4, <1>5 DEF NextOps
  <2>2. k \in 1..Len(Steps(v))
    BY <1>2, <1>3, <2>1
  <2>3. o.op \in {"open", "close", "add"}
    BY <1>2, <2>1, <2>2, StepCases
  <2>4. o.on = "given"
    <3>1. k \in 1..Len(Heap[v].prog) /\ o = Heap[v].prog[k]
      BY <1>2, <2>1, <2>2
    <3>2. Honest[v]
      BY <1>2 DEF Compound
    <3> QED BY <1>2, <1>4, <3>1, <3>2, HonestCases
  <2> QED BY <1>3, <2>1, <2>2, <2>3, <2>4 DEF Target
<1>7. bld["mapper"] = Now(h[Len(stk)], v, k - 1)
  BY <1>1, <1>2 DEF Held
<1> QED BY <1>2, <1>3, <1>5, <1>6, <1>7

\* The loop of a table.
LEMMA HashTop ==
    ASSUME Inv, NEW m, NEW h, Run(stk, m, h, bld["mapper"]), Top.f = "hash"
    PROVE  LET v == Top.val
               k == Top.pc
           IN  /\ Compound(v) /\ Heap[v].kind \in Tabular /\ Top.d = "mapper"
               /\ Len(Heap[v].entries) \in Nat /\ Len(Steps(v)) = Len(Heap[v].entries) + 2
               /\ bld["mapper"] = Now(h[Len(stk)], v, k) /\ k \in 1..(Len(Heap[v].entries) + 1)
<1> DEFINE v == Top.val
           k == Top.pc
<1>1. Fitting(Top) /\ bld["mapper"] = Held(h[Len(stk)], Top)
  BY RunTop
<1>2. /\ Compound(v) /\ Pos(Top) = k
      /\ Heap[v].kind \in Tabular /\ Len(Steps(v)) = Len(Heap[v].entries) + 2
  BY <1>1, FittingSteps
<1>3. k \in 1..(Len(Heap[v].entries) + 1) /\ Top.d = "mapper"
  BY <1>1 DEF Fitting
<1>4. Len(Heap[v].entries) \in Nat
  BY <1>2, NodeType DEF Compound
<1>5. bld["mapper"] = Now(h[Len(stk)], v, k)
  BY <1>1, <1>2 DEF Held
<1> QED BY <1>2, <1>3, <1>4, <1>5

\* What each step does to the honest calls in progress.
LEMMA ContinuesWrites == Inv /\ (UserOpen \/ UserClose) => Continues
<1> SUFFICES ASSUME Inv, UserOpen \/ UserClose, NEW m, NEW h, ~pend, Run(stk, m, h, bld["mapper"])
             PROVE  ~pend' /\ \E g : Run(stk', m, g, bld'["mapper"])
  BY DEF Continues
<1> DEFINE v == Top.val
           k == Top.pc
           t == Advance(stk)
           L == Len(t)
           write(o) == IF o.op = "open" THEN OpenContainer(bld["mapper"], o.kind)
                                        ELSE CloseContainer(bld["mapper"])
<1>1. Top.f = "user"
  BY DEF UserOpen, UserClose, Running
<1>2. PICK o \in NextOps : o.op \in {"open", "close"} /\
        \E b : /\ b = IF o.op = "open" THEN OpenContainer(bld[Target(o)], o.kind)
                                       ELSE CloseContainer(bld[Target(o)])
               /\ Enter(Target(o), b, <<>>, Advance(stk))
  <2>1. CASE UserOpen
    BY <2>1 DEF UserOpen
  <2>2. CASE UserClose
    BY <2>2 DEF UserClose
  <2> QED BY <2>1, <2>2
<1>3. /\ Compound(v) /\ k \in 1..Len(Steps(v)) /\ o = Steps(v)[k] /\ Target(o) = "mapper"
      /\ bld["mapper"] = Now(h[Len(stk)], v, k - 1) /\ Len(Steps(v)) \in Nat
      /\ Program = Steps(v)
  BY <1>1, UserTop
<1>4. Ready(h[Len(stk)]) /\ Fitting(Top)
  BY RunTop
<1> DEFINE H == h[Len(stk)]
<1>5. write(o) = Now(H, v, k)
  <2> HIDE DEF v, k, H
  <2>1. CASE o.op = "open"
    BY <1>3, <1>4, <2>1, NowOpen DEF H
  <2>2. CASE o.op = "close"
    BY <1>3, <1>4, <2>2, NowClose DEF H
  <2> QED BY <1>2, <2>1, <2>2
<1>6. Now(H, v, k).st = "good"
  <2>1. k \in 0..Len(Steps(v))
    BY <1>3
  <2> HIDE DEF v, k
  <2> QED BY <1>3, <1>4, <2>1, NowType DEF H
<1>7. Enter("mapper", Now(H, v, k), <<>>, t)
  BY <1>2, <1>3, <1>5
<1>8. /\ t \in Stack /\ Frames(t, m, h) /\ L = Len(stk)
      /\ Fitting(t[L]) /\ t[L].f = Top.f /\ t[L].val = v /\ Pos(t[L]) = Pos(Top) + 1
  <2>1. Heap[v].prog = Steps(v)
    BY <1>1, <1>4, FittingSteps
  <2>2. Top.pc <= Len(Heap[Top.val].prog)
    BY <1>3, <2>1
  <2> QED BY <1>1, <2>2, RunAdvance
<1>9. Pos(t[L]) = k
  <2>1. Pos(Top) = k - 1 /\ k \in Int
    BY <1>1, <1>3 DEF Pos
  <2> QED BY <1>8, <2>1
<1> HIDE DEF t, v, k, H
<1>10. bld'["mapper"] = Now(H, v, k) /\ ~pend' /\ stk' = t \o <<>>
  BY <1>6, <1>7, EnterGood DEF Inv
<1>11. stk' = t
  BY <1>8, <1>10, ConcatEmptySeq DEF Stack
<1>12. Held(h[L], t[L]) = Now(H, v, k)
  BY <1>1, <1>8, <1>9 DEF Held, H
<1> QED BY <1>8, <1>10, <1>11, <1>12 DEF Run

LEMMA ContinuesAdd == Inv /\ UserAdd => Continues
<1> SUFFICES ASSUME Inv, UserAdd, NEW m, NEW h, ~pend, Run(stk, m, h, bld["mapper"])
             PROVE  ~pend' /\ \E g : Run(stk', m, g, bld'["mapper"])
  BY DEF Continues
<1> DEFINE v == Top.val
           k == Top.pc
           t == Advance(stk)
           L == Len(t)
           fr == t[L]
<1>1. Top.f = "user"
  BY DEF UserAdd, Running
<1>2. PICK o \in NextOps : o.op = "add" /\
        Add(o.val, NoKey, Header(bld[Target(o)], o.key, o.tag), Target(o), t)
  BY DEF UserAdd
<1>3. /\ Compound(v) /\ k \in 1..Len(Steps(v)) /\ o = Steps(v)[k] /\ Target(o) = "mapper"
      /\ bld["mapper"] = Now(h[Len(stk)], v, k - 1) /\ Len(Steps(v)) \in Nat
  BY <1>1, UserTop
<1>4. Fitting(Top)
  BY RunTop
<1>5. /\ t \in Stack /\ Frames(t, m, h) /\ L = Len(stk)
      /\ Fitting(fr) /\ fr.f = Top.f /\ fr.val = v /\ Pos(fr) = Pos(Top) + 1
  <2>1. Heap[v].prog = Steps(v)
    BY <1>1, <1>4, FittingSteps
  <2>2. Top.pc <= Len(Heap[Top.val].prog)
    BY <1>3, <2>1
  <2> QED BY <1>1, <2>2, RunAdvance
<1>6. Pos(fr) = k
  <2>1. Pos(Top) = k - 1 /\ k \in Int
    BY <1>1, <1>3 DEF Pos
  <2> QED BY <1>5, <2>1
<1> HIDE DEF v, k, fr
<1>7. Current(fr) = o /\ Child(fr) = o.val /\ Waiting(fr)
  BY <1>1, <1>2, <1>3, <1>5, <1>6 DEF Current, Child, Waiting
<1>8. Mid(h[L], fr) = Header(bld["mapper"], o.key, o.tag)
  BY <1>1, <1>3, <1>5, <1>6, <1>7 DEF Mid
<1>9. Add(Child(fr), NoKey, Mid(h[L], fr), "mapper", t)
  BY <1>2, <1>3, <1>7, <1>8
<1> HIDE DEF t
<1> QED BY <1>5, <1>7, <1>9, AddHonest DEF Inv, fr

LEMMA ContinuesNext == Inv /\ HashNext => Continues
<1> SUFFICES ASSUME Inv, HashNext, NEW m, NEW h, ~pend, Run(stk, m, h, bld["mapper"])
             PROVE  ~pend' /\ \E g : Run(stk', m, g, bld'["mapper"])
  BY DEF Continues
<1> DEFINE v == Top.val
           k == Top.pc
           t == Advance(stk)
           L == Len(t)
           fr == t[L]
           n == Heap[v]
           o == Steps(v)[k + 1]
           w == n.entries[k].val
<1>1. /\ Top.f = "hash" /\ k <= Len(n.entries)
      /\ Add(w, EntryKey(n, k), bld[Top.d], Top.d, t)
  BY DEF HashNext
<1>2. /\ Compound(v) /\ n.kind \in Tabular /\ Top.d = "mapper"
      /\ Len(n.entries) \in Nat /\ Len(Steps(v)) = Len(n.entries) + 2
      /\ bld["mapper"] = Now(h[Len(stk)], v, k) /\ k \in 1..(Len(n.entries) + 1)
  BY <1>1, HashTop
<1>3. k \in 1..Len(n.entries) /\ k + 1 \in 1..Len(Steps(v)) /\ k + 1 - 1 = k
  BY <1>1, <1>2
<1>4. o.op = "add" /\ o.key = EntryKey(n, k) /\ o.tag = 0 /\ o.val = w
  BY <1>2, <1>3, TableSteps DEF Compound
<1>5. /\ t \in Stack /\ Frames(t, m, h) /\ L = Len(stk)
      /\ Fitting(fr) /\ fr.f = Top.f /\ fr.val = v /\ Pos(fr) = k + 1
  <2>1. Pos(Top) = k
    BY <1>1 DEF Pos
  <2> QED BY <1>1, <2>1, RunAdvance
<1> HIDE DEF v, k, fr, t, n, w
<1>6. Current(fr) = o /\ Child(fr) = o.val /\ Waiting(fr)
  BY <1>1, <1>3, <1>4, <1>5 DEF Current, Child, Waiting
<1>7. Mid(h[L], fr) = WriteKey(bld["mapper"], o.key)
  <2>1. Mid(h[L], fr) = Header(bld["mapper"], o.key, o.tag)
    BY <1>1, <1>2, <1>3, <1>5, <1>6 DEF Mid
  <2> QED BY <1>4, <2>1 DEF Header, WriteTag
<1>8. Add(Child(fr), NoKey, Mid(h[L], fr), "mapper", t)
  <2>1. w \in Value /\ Honest[w]
    BY <1>2, <1>3, <1>4, StepsType, StepCases
  <2>3. Serialize(w, EntryKey(n, k), bld["mapper"], "mapper")
          = Serialize(w, NoKey, WriteKey(bld["mapper"], EntryKey(n, k)), "mapper")
    BY <2>1, KeyFirst
  <2>4. Child(fr) = w /\ Mid(h[L], fr) = WriteKey(bld["mapper"], EntryKey(n, k))
    BY <1>4, <1>6, <1>7
  <2>5. Add(w, EntryKey(n, k), bld["mapper"], "mapper", t)
    BY <1>1, <1>2
  <2> QED BY <2>3, <2>4, <2>5 DEF Add
<1> QED BY <1>5, <1>6, <1>8, AddHonest DEF Inv, fr

\* The end of a callback and of a table.
LEMMA ContinuesPops == Inv /\ (UserReturn \/ HashClose) => Continues
<1> SUFFICES ASSUME Inv, UserReturn \/ HashClose, NEW m, NEW h, ~pend,
                    Run(stk, m, h, bld["mapper"])
             PROVE  ~pend' /\ \E g : Run(stk', m, g, bld'["mapper"])
  BY DEF Continues
<1> DEFINE v == Top.val
           k == Top.pc
           H == h[Len(stk)]
           S == Steps(v)
<1>1. Top.f \in {"user", "hash"}
  BY DEF UserReturn, HashClose, Running
<1>2. Frames(stk, m, h) /\ m # Len(stk) /\ Ready(H) /\ stk \in Stack
  BY <1>1, RunTop, StackInv
<1>3. Run(Below(stk), m, h, Wrote(H, Doc[v]))
  BY <1>2, FramesPop DEF Top
<1>4. CASE UserReturn
  <2>1. /\ Compound(v) /\ bld["mapper"] = Now(H, v, k - 1) /\ k \in 1..(Len(S) + 1)
        /\ Len(S) \in Nat /\ Program = S
    BY <1>4, UserTop DEF UserReturn, Running
  <2>2. k - 1 = Len(S)
    BY <1>4, <2>1 DEF UserReturn
  <2>3. bld["mapper"] = Wrote(H, Doc[v])
    BY <1>2, <2>1, <2>2, NowLast
  <2> QED BY <1>3, <1>4, <2>3 DEF UserReturn
<1>5. CASE HashClose
  <2> DEFINE l == Len(Heap[v].entries)
             c == CloseContainer(bld["mapper"])
  <2>1. k > l /\ Top.f = "hash" /\ Enter(Top.d, CloseContainer(bld[Top.d]), <<>>, Below(stk))
    BY <1>5 DEF HashClose
  <2>2. /\ Compound(v) /\ Heap[v].kind \in Tabular /\ Top.d = "mapper" /\ l \in Nat
        /\ Len(S) = l + 2 /\ bld["mapper"] = Now(H, v, k) /\ k \in 1..(l + 1)
    BY <2>1, HashTop
  <2>3. k = Len(S) - 1 /\ Len(S) \in 1..Len(S) /\ S[Len(S)].op = "close"
    <3>1. k = l + 1
      BY <2>1, <2>2
    <3>2. v \in Value
      BY <2>2 DEF Compound
    <3> HIDE DEF v
    <3>3. S[l + 2].op = "close"
      BY <2>2, <3>2, TableSteps
    <3> QED BY <2>2, <3>1, <3>3
  <2> HIDE DEF v, k, H
  <2>4. c = Now(H, v, Len(S))
    BY <1>2, <2>2, <2>3, NowClose
  <2>5. c = Wrote(H, Doc[v])
    BY <1>2, <2>2, <2>4, NowLast
  <2>6. c.st = "good"
    BY <2>5 DEF Wrote
  <2>7. Enter("mapper", c, <<>>, Below(stk))
    BY <2>1, <2>2
  <2> HIDE DEF c
  <2>8. bld'["mapper"] = c /\ ~pend' /\ stk' = Below(stk) \o <<>>
    BY <2>6, <2>7, EnterGood DEF Inv
  <2>9. stk' = Below(stk)
    <3>1. Below(stk) \in Stack
      BY <2>1, CppBelow
    <3> QED BY <2>8, <3>1, ConcatEmptySeq DEF Stack
  <2> QED BY <1>3, <2>5, <2>8, <2>9
<1> QED BY <1>4, <1>5

\* Nothing else happens to an honest call until it returns.
LEMMA ContinuesElse ==
    Inv /\ (\/ UserClear \/ UserSerialize \/ UserThrow \/ UserCatch \/ UserPropagate
            \/ TagIdCall \/ TagIdFails \/ TagIdReturn) =>
        \A m, h : ~pend => ~Run(stk, m, h, bld["mapper"])
<1> SUFFICES ASSUME Inv, NEW m, NEW h, ~pend, Run(stk, m, h, bld["mapper"]),
                    \/ UserClear \/ UserSerialize \/ UserThrow \/ UserCatch \/ UserPropagate
                    \/ TagIdCall \/ TagIdFails \/ TagIdReturn
             PROVE  FALSE
  OBVIOUS
<1>1. UserClear \/ UserSerialize \/ UserThrow
  <2>1. Top.f # "value"
    BY RunTop DEF Fitting
  <2> QED BY <2>1 DEF UserCatch, UserPropagate, TagIdCall, TagIdFails, TagIdReturn
<1>2. Top.f = "user" /\ \E o \in NextOps : o.op \in {"clear", "serialize", "throw"}
  BY <1>1 DEF UserClear, UserSerialize, UserThrow, Running
<1> QED BY <1>2, UserTop

LEMMA InitDoc == Init => DocInv
<1> SUFFICES ASSUME Init PROVE DocInv
  OBVIOUS
<1>1. Inv
  BY InitInv
<1>2. Len(stk) = 1 /\ stk[1].f = "user"
  BY DEF Init, Frame
<1>3. HonestCalls(stk, pend, bld["mapper"])
  BY <1>2 DEF HonestCalls
<1>4. Answers(ret)
  BY DEF Init, NoCall, Answers
<1> QED BY <1>1, <1>3, <1>4 DEF DocInv

\* TypeMapper::serialize begins.
LEMMA SerializeDoc ==
    DocInv /\ UserSerialize => HonestCalls(stk', pend', bld'["mapper"]) /\ Answers(ret')
<1> SUFFICES ASSUME DocInv, UserSerialize
             PROVE  HonestCalls(stk', pend', bld'["mapper"]) /\ Answers(ret')
  OBVIOUS
<1> USE DEF Buffer
<1> DEFINE t == Disturb(Advance(stk))
           fr(o) == Frame("mapper", o.val, "mapper")
<1>0. Inv /\ HonestCalls(stk, pend, bld["mapper"]) /\ Answers(ret) /\ TypeOK
  BY DEF DocInv, Inv
<1>1. PICK o \in NextOps : Add(o.val, NoKey, Fresh, "mapper", Append(t, fr(o)))
  BY DEF UserSerialize
<1>2. o.val \in Value /\ NoKey \in KeyArg /\ "mapper" \in Buffer /\ Fresh \in AnyBuilder /\ ~pend
  BY <1>0, NextOpsType, FreshType DEF Op, KeyArg, UserSerialize, Running
<1>3. t \in Stack /\ t # <<>> /\ Nesting(t) /\ t[Len(t)].f = "user" /\ OldMappers(t, stk)
  <2>1. Top.f = "user"
    BY DEF UserSerialize, Running
  <2>2. /\ t \in Stack /\ t # <<>> /\ Nesting(t) /\ SameFrames(Advance(stk), t)
        /\ SameFrames(stk, Advance(stk))
    BY <1>0, StackInv, DisturbType, AdvanceType
  <2>3. Len(Advance(stk)) \in 1..Len(Advance(stk))
    BY <1>0, StackInv DEF Stack
  <2>4. OldMappers(t, stk)
    BY <2>2, SameOld, OldTwice
  <2> QED BY <1>0, <2>1, <2>2, <2>3, <2>4, StackInv DEF SameFrames
<1>4. /\ fr(o) \in Activation /\ fr(o).f = "mapper" /\ fr(o).d = "mapper" /\ fr(o).val = o.val
  BY <1>2, FrameType DEF Frame
<1>5. Fits(t, fr(o))
  BY <1>2, <1>3, <1>4 DEF Fits
<1> DEFINE s == Append(t, fr(o))
           L == Len(s)
<1>6. /\ s \in Stack /\ s # <<>> /\ Nesting(s) /\ s[L] = fr(o) /\ L \in Nat /\ L >= 1
      /\ L = Len(t) + 1 /\ \A i \in 1..Len(t) : s[i] = t[i]
  <2> HIDE DEF t, fr
  <2>1. s \in Stack /\ s # <<>> /\ Nesting(s)
    BY <1>3, <1>4, <1>5, PushType
  <2>2. s[Len(s)] = fr(o) /\ Len(s) = Len(t) + 1 /\ \A i \in 1..Len(t) : s[i] = t[i]
    BY <1>3, <1>4, AppendProperties DEF Stack
  <2> QED BY <1>3, <2>1, <2>2 DEF Stack
<1> HIDE DEF t, fr, s
<1>7. Add(o.val, NoKey, Fresh, "mapper", s)
  BY <1>1 DEF s
<1>8. OldMappers(stk', s) /\ Answers(ret')
  <2>1. s[L].d = "mapper"
    BY <1>4, <1>6
  <2> QED BY <1>0, <1>2, <1>6, <1>7, <2>1, AddOld
<1>9. SUFFICES ASSUME NEW m \in 1..Len(stk'), stk'[m].f = "mapper", Honest[stk'[m].val]
               PROVE  ~pend' /\ \E h : Run(stk', m, h, bld'["mapper"])
  BY <1>8 DEF HonestCalls
<1>10. m \in 1..L /\ s[m].f = "mapper" /\ Honest[s[m].val]
  BY <1>8, <1>9 DEF OldMappers, L
<1>11. m = L
  <2>1. SUFFICES ASSUME m \in 1..Len(t) PROVE FALSE
    BY <1>3, <1>6, <1>10 DEF Stack
  <2>2. m \in 1..Len(stk) /\ stk[m].f = "mapper" /\ Honest[stk[m].val]
    BY <1>3, <1>6, <1>10, <2>1 DEF OldMappers
  <2> QED BY <1>0, <1>2, <2>2, ContinuesElse DEF HonestCalls
<1> DEFINE h == [j \in Nat |-> Fresh]
<1>12. h \in [Nat -> AnyBuilder] /\ h[L] = Fresh /\ h[m] = Fresh
  BY <1>2, <1>6, <1>11
<1>13. Ready(Fresh)
  BY <1>2 DEF Ready, Fresh, WantsKey, InObject
<1>14. Fitting(s[L])
  BY <1>2, <1>4, <1>6, <1>10, <1>11 DEF Fitting
<1> HIDE DEF h, L
<1>15. Frames(s, m, h)
  <2>1. \A j \in m..L : j = m
    BY <1>6, <1>11
  <2>2. ~\E j \in m..(L - 1) : TRUE
    BY <1>6, <1>11
  <2> QED BY <1>10, <1>11, <1>12, <1>13, <1>14, <2>1, <2>2 DEF Frames, L
<1>16. Waiting(s[L]) /\ Child(s[L]) = o.val /\ Mid(h[L], s[L]) = Fresh
  BY <1>4, <1>6, <1>12 DEF Waiting, Child, Mid
<1> QED BY <1>0, <1>2, <1>6, <1>7, <1>15, <1>16, AddHonest DEF L

\* TypeMapper::serialize returns.
LEMMA ReturnDoc ==
    DocInv /\ MapperReturn => HonestCalls(stk', pend', bld'["mapper"]) /\ Answers(ret')
<1> SUFFICES ASSUME DocInv, MapperReturn
             PROVE  HonestCalls(stk', pend', bld'["mapper"]) /\ Answers(ret')
  OBVIOUS
<1>0. Inv /\ HonestCalls(stk, pend, bld["mapper"]) /\ Answers(ret)
  BY DEF DocInv
<1> DEFINE b == bld["mapper"]
           doc == SliceDoc(b)
           v == Top.val
<1>1. PICK throws \in SliceThrows(b) :
        IF throws THEN stk' = Disturb(Below(stk)) /\ ret' = Refused(v)
                  ELSE stk' = Nested(Below(stk), doc) /\ ret' = Answer(Top, doc)
  BY DEF MapperReturn
<1>2. /\ Len(stk) > 1 /\ v \in Value /\ Len(stk) \in Nat /\ Top.f = "mapper"
      /\ Below(stk) \in Stack /\ Below(stk) # <<>> /\ Nesting(Below(stk)) /\ stk \in Stack
  BY <1>0, CppBelow, StackInv DEF MapperReturn
<1>3. b \in Builder /\ doc \in Document
  <2>1. b \in Builder
    BY <1>0 DEF Inv, TypeOK, Buffer
  <2> QED BY <2>1, SliceDocType
<1>4. OldMappers(stk', stk) /\ Len(stk') = Len(stk) - 1
  <2> HIDE DEF doc
  <2>1. SameFrames(Below(stk), stk')
    BY <1>1, <1>2, <1>3, DisturbType, NestedType
  <2>2. OldMappers(Below(stk), stk)
    BY <1>0, <1>2, BelowType, StackInv, PartOld
  <2>3. Len(Below(stk)) = Len(stk) - 1
    BY <1>2 DEF Below, Stack
  <2> QED BY <2>1, <2>2, <2>3, SameOld, OldTwice DEF SameFrames
<1>5. ASSUME NEW m \in 1..Len(stk'), NEW h PROVE ~Run(stk, m, h, b)
  <2> SUFFICES ASSUME Run(stk, m, h, b) PROVE FALSE
    OBVIOUS
  <2>1. m = Len(stk)
    BY <1>0, <1>2, RunTop
  <2> QED BY <1>2, <1>4, <2>1
<1>6. HonestCalls(stk', pend', bld'["mapper"])
  BY <1>0, <1>4, <1>5 DEF HonestCalls, OldMappers
<1>7. ASSUME Honest[v] PROVE doc = Doc[v]
  <2>1. Len(stk) \in 1..Len(stk) /\ stk[Len(stk)].f = "mapper" /\ Honest[stk[Len(stk)].val]
    BY <1>2, <1>7 DEF Top
  <2>2. PICK h : Run(stk, Len(stk), h, b)
    BY <1>0, <2>1 DEF HonestCalls
  <2>3. b = Wrote(Fresh, Doc[v])
    BY <1>2, <2>2 DEF Run, Frames, Held, Top
  <2>4. Doc[v] \in Document
    BY <1>2, DocNode DEF Docs
  <2>5. b.st = "good" /\ b.open = <<>> /\ b.tagged = FALSE /\ b.toks = Doc[v]
    <3>1. <<>> \o Doc[v] = Doc[v]
      BY <2>4, DocConcatEmpty
    <3> QED BY <2>3, <3>1 DEF Wrote, Fresh
  <2>6. doc = FirstValue(Doc[v])
    BY <2>5 DEF SliceDoc
  <2> QED BY <1>2, <1>7, <2>6, HonestFirst
<1>8. Answers(ret')
  <2> HIDE DEF doc, v
  <2>1. CASE ret' = Refused(v)
    BY <2>1 DEF Answers, Refused, NoCall
  <2>2. CASE ret' = Answer(Top, doc)
    <3>1. ret'.val = v /\ ret'.doc = doc
      BY <2>2 DEF Answer, v
    <3> QED BY <1>2, <1>7, <3>1 DEF Answers
  <2> QED BY <1>1, <2>1, <2>2
<1> QED BY <1>6, <1>8

LEMMA NextDoc == DocInv /\ [Next]_vars => DocInv'
<1> SUFFICES ASSUME DocInv, [Next]_vars
             PROVE  HonestCalls(stk', pend', bld'["mapper"]) /\ Answers(ret')
  BY NextInv DEF DocInv
<1> USE DEF Buffer
<1>0. /\ Inv /\ HonestCalls(stk, pend, bld["mapper"]) /\ Answers(ret)
      /\ \A d \in Buffer : bld[d] \in AnyBuilder
      /\ stk \in Stack /\ stk # <<>> /\ Nesting(stk)
  BY StackInv DEF DocInv, Inv, TypeOK, Builder, AnyBuilder
<1>a. SUFFICES \/ OldMappers(stk', stk) /\ Answers(ret') /\ Continues
               \/ HonestCalls(stk', pend', bld'["mapper"]) /\ Answers(ret')
  BY <1>0, CallsContinue
<1>b. LET t == Advance(stk)
      IN  t \in Stack /\ t # <<>> /\ Nesting(t) /\ OldMappers(t, stk)
  BY <1>0, AdvanceType, SameOld
<1>c. ASSUME Len(stk) > 1
      PROVE  LET t == Below(stk)
             IN  t \in Stack /\ t # <<>> /\ Nesting(t) /\ OldMappers(t, stk)
  BY <1>0, <1>c, BelowType, PartOld
<1>d. \A s \in Stack : s # <<>> /\ Nesting(s) => OldMappers(Disturb(s), s)
  BY DisturbType, SameOld
<1>1. CASE UserOpen
  <2>1. \E o \in NextOps :
          Enter(Target(o), OpenContainer(bld[Target(o)], o.kind), <<>>, Advance(stk))
    BY <1>1 DEF UserOpen
  <2>2. OldMappers(stk', Advance(stk)) /\ Answers(ret')
    BY <1>0, <1>b, <2>1, EnterOld
  <2> QED BY <1>0, <1>1, <1>b, <2>2, OldTwice, ContinuesWrites
<1>2. CASE UserClose
  <2>1. \E o \in NextOps :
          Enter(Target(o), CloseContainer(bld[Target(o)]), <<>>, Advance(stk))
    BY <1>2 DEF UserClose
  <2>2. OldMappers(stk', Advance(stk)) /\ Answers(ret')
    BY <1>0, <1>b, <2>1, EnterOld
  <2> QED BY <1>0, <1>2, <1>b, <2>2, OldTwice, ContinuesWrites
<1>3. CASE UserClear
  <2>1. OldMappers(stk', stk)
    BY <1>3, <1>b, <1>d, OldTwice DEF UserClear
  <2> QED BY <1>0, <1>3, <2>1, ContinuesElse DEF UserClear, Continues
<1>4. CASE UserAdd
  <2>1. PICK o \in NextOps :
          Add(o.val, NoKey, Header(bld[Target(o)], o.key, o.tag), Target(o), Advance(stk))
    BY <1>4 DEF UserAdd
  <2>2. Top.f = "user"
    BY <1>4 DEF UserAdd, Running
  <2>3. /\ o.val \in Value /\ o.key \in KeyArg /\ o.tag \in Int /\ Target(o) \in Buffer
        /\ NoKey \in KeyArg
    BY <1>0, NextOpsType DEF Op, KeyArg
  <2> DEFINE c == Header(bld[Target(o)], o.key, o.tag)
  <2>4. c \in AnyBuilder
    BY <1>0, <2>3, WriteKeyType, WriteTagType DEF Header
  <2> HIDE DEF c
  <2>5. OldMappers(stk', Advance(stk)) /\ Answers(ret')
    BY <1>0, <1>b, <2>1, <2>2, <2>3, <2>4, StackInv, AddOld DEF c
  <2> QED BY <1>0, <1>4, <1>b, <2>5, OldTwice, ContinuesAdd
<1>5. CASE UserSerialize
  BY <1>5, SerializeDoc
<1>6. CASE UserThrow
  <2>1. OldMappers(stk', stk)
    BY <1>6, <1>b, <1>d, OldTwice DEF UserThrow
  <2> QED BY <1>0, <1>6, <2>1, ContinuesElse DEF UserThrow, Continues
<1>7. CASE UserCatch
  <2>1. OldMappers(stk', stk)
    BY <1>7 DEF UserCatch, OldMappers
  <2> QED BY <1>0, <1>7, <2>1 DEF UserCatch, Continues
<1>8. CASE UserPropagate
  <2>1. OldMappers(stk', stk)
    BY <1>8, <1>c DEF UserPropagate
  <2> QED BY <1>0, <1>8, <2>1 DEF UserPropagate, Continues
<1>9. CASE UserReturn
  <2>1. OldMappers(stk', stk)
    BY <1>9, <1>c DEF UserReturn
  <2> QED BY <1>0, <1>9, <2>1, ContinuesPops DEF UserReturn
<1>10. CASE HashNext
  <2> DEFINE n == Heap[Top.val]
             e == n.entries[Top.pc]
  <2>1. /\ Top.pc <= Len(n.entries) /\ Top.f = "hash"
        /\ Add(e.val, EntryKey(n, Top.pc), bld[Top.d], Top.d, Advance(stk))
    BY <1>10 DEF HashNext
  <2>2. Top.val \in Value /\ Top.d \in Buffer /\ Top.pc \in Nat \ {0}
    BY <1>0, <2>1, CppBelow, StackInv DEF Activation
  <2>3. e.val \in Value /\ EntryKey(n, Top.pc) \in KeyArg
    BY <2>1, <2>2, EntryType
  <2> HIDE DEF n, e
  <2>4. OldMappers(stk', Advance(stk)) /\ Answers(ret')
    BY <1>0, <1>b, <2>1, <2>2, <2>3, StackInv, AddOld
  <2> QED BY <1>0, <1>10, <1>b, <2>4, OldTwice, ContinuesNext
<1>11. CASE HashClose
  <2>1. Enter(Top.d, CloseContainer(bld[Top.d]), <<>>, Below(stk)) /\ Top.f = "hash"
    BY <1>11 DEF HashClose
  <2>2. Len(stk) > 1
    BY <1>0, <2>1, CppBelow
  <2>3. OldMappers(stk', Below(stk)) /\ Answers(ret')
    BY <1>0, <1>c, <2>1, <2>2, EnterOld
  <2> QED BY <1>0, <1>11, <1>c, <2>2, <2>3, OldTwice, ContinuesPops
<1>12. CASE MapperReturn
  BY <1>12, ReturnDoc
<1>14. CASE TagIdCall
  <2> DEFINE t == Advance(stk)
             fr == CallbackFrame(Top.val, Top.d)
  <2>1. Top.f = "value" /\ stk' = Append(t, fr) /\ ret' = ret
    BY <1>14 DEF TagIdCall
  <2>2. fr \in Activation /\ fr.f # "mapper"
    BY <1>0, <2>1, CppBelow, CallbackFits, NewFrames
  <2> HIDE DEF t, fr
  <2>3. \A i \in 1..Len(stk') : stk'[i] = fr \/ (i \in 1..Len(t) /\ stk'[i] = t[i])
    BY <1>b, <2>1, <2>2, AppendProperties DEF Stack, t
  <2>4. OldMappers(stk', t)
    BY <2>2, <2>3 DEF OldMappers
  <2> QED BY <1>0, <1>14, <1>b, <2>1, <2>4, OldTwice, ContinuesElse DEF Continues, t
<1>15. CASE TagIdFails
  <2>1. OldMappers(stk', stk) /\ ret' = ret
    BY <1>0, <1>15, <1>c, CppBelow DEF TagIdFails
  <2> QED BY <1>0, <1>15, <2>1, ContinuesElse DEF Continues
<1>16. CASE TagIdReturn
  <2> DEFINE c == Header(bld[Top.d], Top.key, Heap[Top.val].tag)
             fr == CallbackFrame(Top.val, Top.d)
  <2>1. Enter(Top.d, c, <<fr>>, Below(stk)) /\ Top.f = "value"
    BY <1>16 DEF TagIdReturn
  <2>2. Len(stk) > 1 /\ fr \in Activation /\ Fits(Below(stk), fr) /\ fr.f # "mapper"
    BY <1>0, <2>1, CppBelow, CallbackFits, NewFrames
  <2> HIDE DEF c, fr
  <2>3. OldMappers(stk', Below(stk)) /\ Answers(ret')
    BY <1>0, <1>c, <2>1, <2>2, EnterOld
  <2> QED BY <1>0, <1>16, <1>c, <2>2, <2>3, OldTwice, ContinuesElse DEF Continues
<1>13. CASE UNCHANGED vars
  BY <1>0, <1>13 DEF vars
<1> QED
  BY <1>1, <1>2, <1>3, <1>4, <1>5, <1>6, <1>7, <1>8, <1>9, <1>10, <1>11, <1>12, <1>13,
     <1>14, <1>15, <1>16
  DEF Next, Step, Php, Cpp, ScriptEnd

\* A call of TypeMapper::serialize on an honest value that returns returns
\* the document of that value: whatever earlier calls, failed or nested ones
\* among them, and additions to other builders left in the shared builder.
THEOREM DocumentsWritten == Spec => []Faithful
<1>1. DocInv => Faithful
  BY DEF DocInv, Answers, Faithful
<1> QED BY <1>1, InitDoc, NextDoc, PTL DEF Spec

-----------------------------------------------------------------------------
(* The refinement of MapperCall: programs that call TypeMapper::serialize   *)
(* from the script alone have one call in progress at most, right above it. *)
OneCall(s) == \A i \in 1..Len(s) : s[i].f = "mapper" => i = 2
\* The variables of MapperCall.
InCall(s) == Len(s) >= 2 /\ s[2].f = "mapper"
TheCall(s) == IF InCall(s) THEN <<s[2].val>> ELSE <<>>
TheAnswer(r) == IF r = NoCall THEN [val |-> <<>>, doc |-> <<>>, ok |-> FALSE]
                ELSE [val |-> r.val, doc |-> r.doc, ok |-> r.ok]
\* Its steps.
Begins(c, a, d, b) == c = <<>> /\ (\E v \in Value : d = <<v>>) /\ b = a
Returns(c, d, b) ==
    /\ c # <<>> /\ c[1] \in Clean /\ d = <<>>
    /\ b = [val |-> c[1], doc |-> Doc[c[1]], ok |-> TRUE]
Fails(c, d, b) == c # <<>> /\ c[1] \notin Clean /\ d = <<>> /\ b.val = c[1]
Promised(c, a, d, b) ==
    Begins(c, a, d, b) \/ Returns(c, d, b) \/ Fails(c, d, b) \/ (d = c /\ b = a)

LEMMA CallSeen ==
    ASSUME NEW s \in Stack, OneCall(s)
    PROVE  LET C == {i \in DOMAIN s : s[i].f = "mapper"}
           IN  TheCall(s) = IF C = {} THEN <<>> ELSE << s[CHOOSE i \in C : \A j \in C : i <= j].val >>
<1> DEFINE C == {i \in DOMAIN s : s[i].f = "mapper"}
<1>1. DOMAIN s = 1..Len(s) /\ Len(s) \in Nat
  BY DEF Stack
<1>2. CASE InCall(s)
  <2>1. C = {2}
    BY <1>1, <1>2 DEF InCall, OneCall
  <2>2. (CHOOSE i \in {2} : \A j \in {2} : i <= j) = 2
    OBVIOUS
  <2> HIDE DEF C
  <2> QED BY <1>2, <2>1, <2>2 DEF TheCall, C
<1>3. CASE ~InCall(s)
  <2>1. C = {}
    BY <1>1, <1>3 DEF InCall, OneCall
  <2> HIDE DEF C
  <2> QED BY <1>3, <2>1 DEF TheCall, C
<1> QED BY <1>2, <1>3

LEMMA SameCall ==
    ASSUME NEW s, NEW t, SameFrames(s, t), OneCall(s)
    PROVE  OneCall(t) /\ TheCall(t) = TheCall(s) /\ (InCall(t) <=> InCall(s))
<1>1. Len(s) = Len(t)
  BY DEF SameFrames
<1>2. Len(s) >= 2 => s[2].f = t[2].f /\ s[2].val = t[2].val
  <2>1. SUFFICES ASSUME Len(s) >= 2, 2 \in 1..Len(s) PROVE s[2].f = t[2].f /\ s[2].val = t[2].val
    BY DEF SameFrames
  <2> QED BY <2>1 DEF SameFrames
<1>3. OneCall(t)
  BY DEF SameFrames, OneCall
<1> QED BY <1>1, <1>2, <1>3 DEF TheCall, InCall

\* An activation that is no call of TypeMapper::serialize begins none.
LEMMA PushCall ==
    ASSUME NEW s \in Stack, s # <<>>, OneCall(s), NEW fr \in Activation, fr.f # "mapper"
    PROVE  OneCall(Append(s, fr)) /\ TheCall(Append(s, fr)) = TheCall(s)
<1> DEFINE w == Append(s, fr)
<1>1. /\ Len(s) \in Nat /\ Len(s) >= 1
      /\ Len(w) = Len(s) + 1 /\ w[Len(s) + 1] = fr
      /\ \A i \in 1..Len(s) : w[i] = s[i]
  BY DEF Stack
<1> HIDE DEF w
<1>2. \A i \in 1..Len(w) : i \in 1..Len(s) \/ i = Len(s) + 1
  BY <1>1
<1>3. OneCall(w)
  BY <1>1, <1>2 DEF OneCall
<1>4. CASE Len(s) >= 2
  <2>1. 2 \in 1..Len(s) /\ Len(w) >= 2
    BY <1>1, <1>4
  <2>2. TheCall(w) = TheCall(s)
    BY <1>1, <1>4, <2>1 DEF TheCall, InCall
  <2> QED BY <1>3, <2>2 DEF w
<1>5. CASE Len(s) = 1
  <2>1. w[2] = fr
    BY <1>1, <1>5
  <2>2. ~InCall(w) /\ ~InCall(s)
    BY <1>5, <2>1 DEF InCall
  <2> QED BY <1>3, <2>2 DEF TheCall, w
<1>6. \A k \in Nat : k >= 1 => k = 1 \/ k >= 2
  OBVIOUS
<1> QED BY <1>1, <1>4, <1>5, <1>6

\* A call into a builder leaves the call in progress as it is, or ends it with
\* an exception.
LEMMA EnterCall ==
    ASSUME NEW d, NEW b, NEW s \in Stack, s # <<>>, Nesting(s), OneCall(s),
           NEW call, call = <<>> \/ \E fr \in Activation : Fits(s, fr) /\ fr.f # "mapper" /\ call = <<fr>>,
           Enter(d, b, call, s)
    PROVE  /\ OneCall(stk')
           /\ \/ ret' = ret /\ TheCall(stk') = TheCall(s)
              \/ InCall(s) /\ ~InCall(stk') /\ ret' = Refused(s[2].val)
<1> DEFINE u == UserLevel(s)
<1>1. PICK throws \in Throws(b) :
        /\ stk' = IF throws THEN Disturb(Unwound(s)) ELSE s \o call
        /\ ret' = IF throws /\ u < Len(s) /\ s[u + 1].f = "mapper"
                  THEN Refused(s[u + 1].val) ELSE ret
  BY DEF Enter
<1>2. /\ u \in 1..Len(s) /\ s[u].f = "user" /\ Len(s) \in Nat /\ Len(s) >= 1
  BY UserLevelType DEF Stack
<1> DEFINE t == IF throws THEN Unwound(s) ELSE s \o call
<1>3. stk' = t \/ stk' = Disturb(t)
  BY <1>1
<1>4. CASE throws
  <2>1. t \in Stack /\ t # <<>> /\ Nesting(t) /\ PartOf(t, s)
    BY <1>4, UnwoundType
  <2>2. Len(t) = u
    BY <1>2, <1>4 DEF Unwound, Stack
  <2>3. OneCall(t)
    BY <2>1, <2>2 DEF OneCall, PartOf
  <2> HIDE DEF t, u
  <2>4. OneCall(stk') /\ TheCall(stk') = TheCall(t) /\ (InCall(stk') <=> InCall(t))
    BY <1>3, <2>1, <2>3, SameCall, DisturbType
  <2>5. CASE u = 1
    <3>1. ~InCall(t)
      BY <2>2, <2>5 DEF InCall
    <3>2. CASE InCall(s)
      <4>1. u < Len(s) /\ s[u + 1].f = "mapper" /\ u + 1 = 2
        BY <2>5, <3>2 DEF InCall
      <4>2. ret' = Refused(s[2].val)
        BY <1>1, <1>4, <4>1
      <4> QED BY <2>4, <3>1, <3>2, <4>2
    <3>3. CASE ~InCall(s)
      <4>1. ~(u < Len(s) /\ s[u + 1].f = "mapper")
        BY <1>2, <2>5, <3>3 DEF InCall
      <4>2. ret' = ret
        BY <1>1, <4>1
      <4>3. TheCall(t) = <<>> /\ TheCall(s) = <<>>
        BY <3>1, <3>3 DEF TheCall
      <4> QED BY <2>4, <4>2, <4>3
    <3> QED BY <3>2, <3>3
  <2>6. CASE u # 1
    <3>1. u >= 2 /\ (u < Len(s) => u + 1 \in 1..Len(s) /\ u + 1 # 2) /\ 2 \in 1..u
      BY <1>2, <2>6
    <3>2. ret' = ret
      BY <1>1, <3>1 DEF OneCall
    <3>3. t[2] = s[2] /\ Len(s) >= 2 /\ Len(t) >= 2
      BY <1>2, <2>1, <2>2, <3>1 DEF PartOf
    <3>4. TheCall(t) = TheCall(s)
      BY <3>3 DEF TheCall, InCall
    <3> QED BY <2>4, <3>2, <3>4
  <2> QED BY <2>5, <2>6
<1>5. CASE ~throws
  <2>1. ret' = ret
    BY <1>1, <1>5
  <2>2. t \in Stack /\ t # <<>> /\ Nesting(t) /\ OneCall(t) /\ TheCall(t) = TheCall(s)
    <3>1. CASE call = <<>>
      BY <1>5, <3>1, ConcatEmptySeq DEF Stack
    <3>2. CASE call # <<>>
      <4>1. PICK fr \in Activation : Fits(s, fr) /\ fr.f # "mapper" /\ call = <<fr>>
        BY <3>2
      <4>2. /\ s \o <<fr>> \in Stack /\ s \o <<fr>> # <<>> /\ Nesting(s \o <<fr>>)
            /\ Append(s, fr) = s \o <<fr>>
        BY <4>1, PushType
      <4> QED BY <1>5, <4>1, <4>2, PushCall
    <3> QED BY <3>1, <3>2
  <2> HIDE DEF t
  <2>3. OneCall(stk') /\ TheCall(stk') = TheCall(t)
    BY <1>3, <2>2, SameCall, DisturbType
  <2> QED BY <2>1, <2>2, <2>3
<1>6. throws \in BOOLEAN
  BY DEF Throws
<1> QED BY <1>4, <1>5, <1>6

LEMMA AddCall ==
    ASSUME Inv, NEW v \in Value, NEW key \in KeyArg, NEW b \in AnyBuilder,
           NEW d \in Buffer, NEW s \in Stack, s # <<>>, Nesting(s), OneCall(s),
           s[Len(s)].f # "user" => d = s[Len(s)].d,
           Add(v, key, b, d, s)
    PROVE  /\ OneCall(stk')
           /\ \/ ret' = ret /\ TheCall(stk') = TheCall(s)
              \/ InCall(s) /\ ~InCall(stk') /\ ret' = Refused(s[2].val)
<1> DEFINE r == Serialize(v, key, b, d)
<1>1. r.call = <<>> \/ \E fr \in Activation : Fits(s, fr) /\ r.call = <<fr>>
  BY SerializeType DEF Inv
<1>2. r.call \in {<<>>, <<HashFrame(v, d)>>, <<CallbackFrame(v, d)>>, <<ValueFrame(v, key, d)>>}
  BY SerializeCalls
<1>3. \A fr : r.call = <<fr>> => fr.f # "mapper"
  BY <1>2, NewFrames
<1>4. Enter(d, r.b, r.call, s)
  BY DEF Add
<1> HIDE DEF r
<1>5. r.call = <<>> \/ \E fr \in Activation : Fits(s, fr) /\ fr.f # "mapper" /\ r.call = <<fr>>
  BY <1>1, <1>3
<1> QED BY <1>4, <1>5, EnterCall

\* Whatever is written to a cleared builder first, the library takes it.
LEMMA FreshTakesAll ==
    ASSUME NEW v \in Value, NEW d
    PROVE  Serialize(v, NoKey, Fresh, d).b.st = "good"
<1> DEFINE n == Heap[v]
           c == WriteKey(Fresh, NoKey)
           e == Header(Fresh, NoKey, n.tag)
           r == Serialize(v, NoKey, Fresh, d)
<1>1. Ready(Fresh) /\ Fresh \in AnyBuilder /\ Fresh.st = "good"
  BY FreshType DEF Ready, Fresh, WantsKey, InObject
<1>2. c = Fresh /\ Ready(e) /\ Shape(n) \in Container
  <2>1. n.tag \in Int /\ NoKey \in KeyArg /\ ~WantsKey(Fresh)
    BY <1>1, NodeType DEF KeyArg, Ready
  <2>2. Ready(e)
    BY <1>1, <2>1, HeaderWrites
  <2> QED BY <2>2 DEF WriteKey, Shape, Container
<1>3. (n.kind \in Scalars => Atom(n) \in Token) /\ n.kind \in Kind
  BY ScalarToken, HeapAssumption
<1> HIDE DEF e
<1>4. CASE n.kind \in Scalars
  <2>1. r.b = WriteAtom(Fresh, Atom(n))
    BY <1>2, <1>4 DEF Serialize, Scalars, TagKnown
  <2>2. WriteAtom(Fresh, Atom(n)) = Wrote(Fresh, <<Atom(n)>>)
    BY <1>1, <1>3, <1>4, ValueWrites
  <2> QED BY <2>1, <2>2 DEF Wrote
<1>5. CASE n.kind = "array"
  <2>1. r.b = OpenContainer(Fresh, Shape(n))
    BY <1>2, <1>5 DEF Serialize, Scalars, TagKnown
  <2> QED BY <1>1, <1>2, <2>1, ValueWrites
<1>6. CASE n.kind = "plain"
  <2>1. r.b = OpenContainer(e, Shape(n))
    BY <1>6 DEF Serialize, Scalars, TagKnown, e
  <2> QED BY <1>2, <2>1, ValueWrites
<1>7. CASE n.kind \in {"mapped", "serializable", "unsupported"}
  <2>1. r.b = e \/ r.b = Fresh
    BY <1>7 DEF Serialize, Scalars, TagKnown, e
  <2> QED BY <1>1, <1>2, <2>1 DEF Ready
<1> QED BY <1>3, <1>4, <1>5, <1>6, <1>7 DEF Kind

\* A call that ended in an exception, in a step that continues honest calls,
\* was not an honest one.
LEMMA Refusal ==
    ASSUME DocInv, Continues, OneCall(stk), InCall(stk), ~InCall(stk'),
           ret' = Refused(stk[2].val)
    PROVE  Fails(TheCall(stk), TheCall(stk'), TheAnswer(ret'))
<1> DEFINE v == stk[2].val
<1>1. stk \in Stack /\ Nesting(stk) /\ Len(stk) \in Nat /\ 2 \in 1..Len(stk) /\ 2 \in 2..Len(stk)
  BY StackInv DEF DocInv, InCall
<1>2. v \in Value /\ stk[2].f = "mapper"
  BY <1>1 DEF Nesting, InCall
<1>3. ~Honest[v]
  <2>1. SUFFICES ASSUME Honest[v] PROVE FALSE
    OBVIOUS
  <2>2. ~pend /\ \E h : Run(stk, 2, h, bld["mapper"])
    BY <1>1, <1>2, <2>1 DEF DocInv, HonestCalls
  <2>3. \E g : Run(stk', 2, g, bld'["mapper"])
    BY <2>2 DEF Continues
  <2>4. 2 \in 1..Len(stk') /\ stk'[2].f = "mapper"
    BY <2>3 DEF Run, Frames
  <2> QED BY <2>4 DEF InCall
<1>4. ret' # NoCall /\ ret'.val = v
  BY <1>2, ScriptAssumption DEF Refused, NoCall
<1>5. TheCall(stk) = <<v>> /\ TheCall(stk') = <<>>
  BY DEF TheCall
<1>6. TheAnswer(ret').val = v
  BY <1>4 DEF TheAnswer
<1> QED BY <1>3, <1>5, <1>6 DEF Fails, Clean

\* No step of a callback begins a call.
LEMMA ScriptCalls ==
    ASSUME CallsFromScript, Inv, NEW o \in NextOps, o.op = "serialize"
    PROVE  Len(stk) = 1
<1>1. stk \in Stack /\ Nesting(stk) /\ Len(stk) \in Nat /\ Len(stk) >= 1 /\ Top \in Activation
  BY StackInv
<1>2. Top.val = Script
  <2>1. SUFFICES ASSUME Top.val # Script PROVE FALSE
    OBVIOUS
  <2>2. Top.val \in Value /\ Top.pc \in Nat \ {0}
    BY <1>1, <2>1 DEF Activation
  <2>3. Top.pc <= Len(Program) /\ o = Program[Top.pc]
    BY <2>1 DEF NextOps
  <2>4. Program \in {Heap[Top.val].prog, Heap[Top.val].getTagId}
    BY <2>1 DEF Program
  <2>5. Program \in Seq(Op)
    BY <2>2, <2>4, HeapAssumption
  <2>6. Top.pc \in DOMAIN Program
    BY <2>2, <2>3, <2>5
  <2> QED BY <2>2, <2>3, <2>4, <2>6 DEF CallsFromScript
<1>3. SUFFICES ASSUME Len(stk) # 1 PROVE FALSE
  OBVIOUS
<1>4. Len(stk) \in 2..Len(stk)
  <2>1. \A k \in Nat : k >= 1 /\ k # 1 => k \in 2..k
    OBVIOUS
  <2> QED BY <1>1, <1>3, <2>1
<1> QED BY <1>1, <1>2, <1>4, ScriptAssumption DEF Nesting, Top

LEMMA BelowCall ==
    ASSUME Inv, OneCall(stk), Len(stk) > 1, Top.f # "mapper"
    PROVE  OneCall(Below(stk)) /\ TheCall(Below(stk)) = TheCall(stk)
<1> DEFINE t == Below(stk)
<1>1. stk \in Stack /\ Len(stk) \in Nat
  BY StackInv
<1>2. Len(t) = Len(stk) - 1 /\ \A i \in 1..(Len(stk) - 1) : t[i] = stk[i]
  BY <1>1 DEF Below, Stack
<1> HIDE DEF t
<1>3. OneCall(t)
  <2>1. \A i \in 1..Len(t) : i \in 1..Len(stk) /\ t[i] = stk[i]
    BY <1>1, <1>2
  <2> QED BY <2>1 DEF OneCall
<1>4. CASE Len(stk) = 2
  <2>1. ~InCall(stk) /\ ~InCall(t)
    BY <1>2, <1>4 DEF InCall, Top
  <2> QED BY <1>3, <2>1 DEF TheCall, t
<1>5. CASE Len(stk) # 2
  <2>1. 2 \in 1..(Len(stk) - 1) /\ Len(t) >= 2 /\ Len(stk) >= 2
    BY <1>1, <1>2, <1>5
  <2>2. t[2] = stk[2]
    BY <1>2, <2>1
  <2>3. TheCall(t) = TheCall(stk)
    BY <2>1, <2>2 DEF TheCall, InCall
  <2> QED BY <1>3, <2>3 DEF t
<1> QED BY <1>4, <1>5

\* A call begins: nothing that is written to a cleared builder throws.
LEMMA SerializeCall ==
    ASSUME CallsFromScript, DocInv, OneCall(stk), UserSerialize
    PROVE  OneCall(stk') /\ Begins(TheCall(stk), TheAnswer(ret), TheCall(stk'), TheAnswer(ret'))
<1> USE DEF Buffer
<1> DEFINE t == Disturb(Advance(stk))
           fr(o) == Frame("mapper", o.val, "mapper")
<1>0. Inv /\ TypeOK
  BY DEF DocInv, Inv
<1>1. PICK o \in NextOps : o.op = "serialize" /\
        Add(o.val, NoKey, Fresh, "mapper", Append(t, fr(o)))
  BY DEF UserSerialize
<1>2. o.val \in Value /\ NoKey \in KeyArg /\ Fresh \in AnyBuilder
  BY <1>0, NextOpsType, FreshType DEF Op, KeyArg
<1>3. Len(stk) = 1 /\ ~InCall(stk)
  BY <1>0, <1>1, ScriptCalls DEF InCall
<1>4. /\ t \in Stack /\ t # <<>> /\ Nesting(t) /\ Len(t) = 1 /\ t[1].f = "user"
  <2>1. /\ t \in Stack /\ t # <<>> /\ Nesting(t) /\ SameFrames(Advance(stk), t)
        /\ SameFrames(stk, Advance(stk))
    BY <1>0, StackInv, DisturbType, AdvanceType
  <2> HIDE DEF t
  <2>2. Len(t) = 1
    BY <1>3, <2>1 DEF SameFrames
  <2>3. t[1].f = "user"
    BY <2>1 DEF Nesting
  <2> QED BY <2>1, <2>2, <2>3
<1>5. /\ fr(o) \in Activation /\ fr(o).f = "mapper" /\ fr(o).d = "mapper" /\ fr(o).val = o.val
  BY <1>2, FrameType DEF Frame
<1>6. Fits(t, fr(o))
  BY <1>2, <1>4, <1>5 DEF Fits
<1> DEFINE s == Append(t, fr(o))
           r == Serialize(o.val, NoKey, Fresh, "mapper")
<1>7. /\ s \in Stack /\ s # <<>> /\ Nesting(s) /\ Len(s) = 2 /\ s[2] = fr(o) /\ s[1] = t[1]
  <2> HIDE DEF t, fr
  <2>1. s \in Stack /\ s # <<>> /\ Nesting(s)
    BY <1>4, <1>5, <1>6, PushType
  <2>2. s[Len(t) + 1] = fr(o) /\ Len(s) = Len(t) + 1 /\ \A i \in 1..Len(t) : s[i] = t[i]
    BY <1>4, <1>5, AppendProperties DEF Stack
  <2>3. 1 \in 1..Len(t) /\ Len(t) + 1 = 2
    BY <1>4
  <2> QED BY <2>1, <2>2, <2>3
<1> HIDE DEF t, fr, s
<1>8. OneCall(s) /\ TheCall(s) = <<o.val>>
  <2>1. \A i \in 1..Len(s) : i = 1 \/ i = 2
    BY <1>7
  <2> QED BY <1>4, <1>5, <1>7, <2>1 DEF OneCall, TheCall, InCall
<1>9. Add(o.val, NoKey, Fresh, "mapper", s) /\ s[Len(s)].d = "mapper"
  BY <1>1, <1>5, <1>7 DEF s
<1>10. /\ OneCall(stk')
       /\ \/ ret' = ret /\ TheCall(stk') = TheCall(s)
          \/ InCall(s) /\ ~InCall(stk') /\ ret' = Refused(s[2].val)
  BY <1>0, <1>2, <1>7, <1>8, <1>9, AddCall
<1>11. InCall(stk')
  <2>1. Enter("mapper", r.b, r.call, s) /\ r.b.st = "good"
    BY <1>2, <1>9, FreshTakesAll DEF Add
  <2>2. /\ r.b \in AnyBuilder
        /\ r.call = <<>> \/ \E e \in Activation : Fits(s, e) /\ r.call = <<e>>
    BY <1>0, <1>2, <1>7, <1>9, SerializeType
  <2> HIDE DEF r
  <2>3. stk' = s \o r.call
    BY <2>1 DEF Enter, Throws
  <2> DEFINE u == s \o r.call
  <2>4. u \in Stack /\ u # <<>> /\ Nesting(u) /\ Len(u) >= 2 /\ u[2] = s[2]
    <3>1. CASE r.call = <<>>
      <4>1. s \o <<>> = s
        BY <1>7, ConcatEmptySeq DEF Stack
      <4>2. u = s
        BY <3>1, <4>1
      <4> HIDE DEF u
      <4> QED BY <1>7, <4>2
    <3>2. CASE r.call # <<>>
      <4>1. PICK e \in Activation : Fits(s, e) /\ r.call = <<e>>
        BY <2>2, <3>2
      <4>2. s \o <<e>> \in Stack /\ s \o <<e>> # <<>> /\ Nesting(s \o <<e>>)
        BY <1>7, <4>1, PushType
      <4>3. Len(s \o <<e>>) >= 2 /\ (s \o <<e>>)[2] = s[2]
        BY <1>7 DEF Stack
      <4> QED BY <4>1, <4>2, <4>3
    <3> QED BY <3>1, <3>2
  <2>5. InCall(u)
    BY <1>5, <1>7, <2>4 DEF InCall
  <2> QED BY <2>3, <2>5
<1>12. ret' = ret /\ TheCall(stk') = <<o.val>>
  BY <1>8, <1>10, <1>11
<1>13. TheCall(stk) = <<>>
  BY <1>3 DEF TheCall
<1> QED BY <1>2, <1>10, <1>12, <1>13 DEF Begins

\* What a call into a builder does to the call in progress is a step of
\* MapperCall, or none.
LEMMA Passes ==
    ASSUME DocInv, Continues, OneCall(stk), NEW s, TheCall(s) = TheCall(stk),
           \/ ret' = ret /\ TheCall(stk') = TheCall(s)
           \/ InCall(s) /\ ~InCall(stk') /\ ret' = Refused(s[2].val)
    PROVE  Promised(TheCall(stk), TheAnswer(ret), TheCall(stk'), TheAnswer(ret'))
<1>1. CASE ret' = ret /\ TheCall(stk') = TheCall(s)
  BY <1>1 DEF Promised
<1>2. CASE InCall(s) /\ ~InCall(stk') /\ ret' = Refused(s[2].val)
  <2>1. TheCall(stk) = <<s[2].val>>
    BY <1>2 DEF TheCall
  <2>2. InCall(stk)
    BY <2>1 DEF TheCall
  <2>3. <<stk[2].val>> = <<s[2].val>>
    BY <2>1, <2>2 DEF TheCall
  <2>4. stk[2].val = s[2].val
    BY <2>3
  <2>5. Fails(TheCall(stk), TheCall(stk'), TheAnswer(ret'))
    BY <1>2, <2>2, <2>4, Refusal
  <2> QED BY <2>5 DEF Promised
<1> QED BY <1>1, <1>2

LEMMA ReturnPromise ==
    ASSUME DocInv, OneCall(stk), MapperReturn
    PROVE  /\ OneCall(stk')
           /\ Promised(TheCall(stk), TheAnswer(ret), TheCall(stk'), TheAnswer(ret'))
<1> DEFINE b == bld["mapper"]
           doc == SliceDoc(b)
           v == Top.val
<1>0. Inv /\ HonestCalls(stk, pend, bld["mapper"]) /\ b \in Builder
  BY DEF DocInv, Inv, TypeOK, Buffer
<1>1. PICK throws \in SliceThrows(b) :
        IF throws THEN stk' = Disturb(Below(stk)) /\ ret' = Refused(v)
                  ELSE stk' = Nested(Below(stk), doc) /\ ret' = Answer(Top, doc)
  BY DEF MapperReturn
<1>2. /\ Len(stk) > 1 /\ v \in Value /\ Len(stk) \in Nat /\ Top.f = "mapper"
      /\ Below(stk) \in Stack /\ Below(stk) # <<>> /\ Nesting(Below(stk)) /\ stk \in Stack
  BY <1>0, CppBelow, StackInv DEF MapperReturn
<1>3. Len(stk) = 2 /\ stk[2] = Top
  <2>1. Len(stk) \in 1..Len(stk)
    BY <1>2
  <2> QED BY <1>2, <2>1 DEF OneCall, Top
<1>4. Len(stk') = 1 /\ stk'[1].f = "user"
  <2> DEFINE t == Below(stk)
  <2>1. SameFrames(t, stk')
    <3>1. doc \in Document
      BY <1>0, SliceDocType
    <3> HIDE DEF doc
    <3> QED BY <1>1, <1>2, <3>1, DisturbType, NestedType
  <2>2. Len(t) = 1
    BY <1>2, <1>3 DEF Below, Stack
  <2>3. t[1].f = "user"
    BY <1>2 DEF Nesting
  <2> HIDE DEF t
  <2> QED BY <2>1, <2>2, <2>3 DEF SameFrames
<1>5. OneCall(stk') /\ TheCall(stk') = <<>>
  <2>1. \A i \in 1..Len(stk') : i = 1
    BY <1>4
  <2> QED BY <1>4, <2>1 DEF OneCall, TheCall, InCall
<1>6. TheCall(stk) = <<v>>
  BY <1>2, <1>3 DEF TheCall, InCall
<1>7. ret' # NoCall /\ ret'.val = v
  BY <1>1, <1>2, ScriptAssumption DEF Refused, NoCall, Answer
<1>8. CASE Honest[v]
  <2>1. 2 \in 1..Len(stk) /\ stk[2].f = "mapper" /\ Honest[stk[2].val]
    BY <1>2, <1>3, <1>8
  <2>2. ~pend /\ \E h : Run(stk, 2, h, b)
    BY <1>0, <2>1 DEF HonestCalls
  <2>3. PICK h : Run(stk, 2, h, b)
    BY <2>2
  <2>4. b = Wrote(Fresh, Doc[v])
    BY <1>2, <1>3, <2>3 DEF Run, Frames, Held, Top
  <2>5. b.st = "good" /\ b.open = <<>>
    BY <2>4 DEF Wrote, Fresh
  <2>6. ~throws
    BY <2>5 DEF SliceThrows
  <2>7. ret' = Answer(Top, doc)
    BY <1>1, <2>6
  <2>8. ret'.ok = TRUE
    BY <2>2, <2>7 DEF Answer
  <2>9. Answers(ret')
    BY ReturnDoc
  <2>10. ret'.doc = Doc[v]
    BY <1>7, <1>8, <2>8, <2>9 DEF Answers
  <2> HIDE DEF v, doc
  <2>11. TheAnswer(ret') = [val |-> v, doc |-> Doc[v], ok |-> TRUE]
    BY <1>7, <2>8, <2>10 DEF TheAnswer
  <2>12. v \in Clean
    BY <1>2, <1>8 DEF Clean
  <2>13. Returns(TheCall(stk), TheCall(stk'), TheAnswer(ret'))
    BY <1>5, <1>6, <2>11, <2>12 DEF Returns
  <2> QED BY <1>5, <2>13 DEF Promised
<1>9. CASE ~Honest[v]
  <2> HIDE DEF v, doc
  <2>1. v \notin Clean
    BY <1>9 DEF Clean
  <2>2. TheAnswer(ret').val = v
    BY <1>7 DEF TheAnswer
  <2>3. Fails(TheCall(stk), TheCall(stk'), TheAnswer(ret'))
    BY <1>5, <1>6, <2>1, <2>2 DEF Fails
  <2> QED BY <1>5, <2>3 DEF Promised
<1> QED BY <1>8, <1>9

LEMMA NextPromise ==
    ASSUME CallsFromScript, DocInv, OneCall(stk), [Next]_vars
    PROVE  /\ OneCall(stk')
           /\ Promised(TheCall(stk), TheAnswer(ret), TheCall(stk'), TheAnswer(ret'))
<1> USE DEF Buffer
<1>0. /\ Inv /\ \A d \in Buffer : bld[d] \in AnyBuilder
      /\ stk \in Stack /\ stk # <<>> /\ Nesting(stk)
  BY StackInv DEF DocInv, Inv, TypeOK, Builder, AnyBuilder
<1> DEFINE t == Advance(stk)
<1>a. /\ t \in Stack /\ t # <<>> /\ Nesting(t)
      /\ OneCall(t) /\ TheCall(t) = TheCall(stk)
  BY <1>0, AdvanceType, SameCall
<1>b. \A s \in Stack : s # <<>> /\ Nesting(s) /\ OneCall(s)
        => OneCall(Disturb(s)) /\ TheCall(Disturb(s)) = TheCall(s)
  BY DisturbType, SameCall
<1>c. SUFFICES \/ OneCall(stk') /\ ret' = ret /\ TheCall(stk') = TheCall(stk)
               \/ OneCall(stk') /\ Promised(TheCall(stk), TheAnswer(ret), TheCall(stk'), TheAnswer(ret'))
  BY DEF Promised
<1> HIDE DEF t
<1>1. CASE UserOpen
  <2>1. \E o \in NextOps :
          Enter(Target(o), OpenContainer(bld[Target(o)], o.kind), <<>>, t)
    BY <1>1 DEF UserOpen, t
  <2>2. /\ OneCall(stk')
        /\ \/ ret' = ret /\ TheCall(stk') = TheCall(t)
           \/ InCall(t) /\ ~InCall(stk') /\ ret' = Refused(t[2].val)
    BY <1>a, <2>1, EnterCall
  <2> QED BY <1>0, <1>1, <1>a, <2>2, Passes, ContinuesWrites
<1>2. CASE UserClose
  <2>1. \E o \in NextOps :
          Enter(Target(o), CloseContainer(bld[Target(o)]), <<>>, t)
    BY <1>2 DEF UserClose, t
  <2>2. /\ OneCall(stk')
        /\ \/ ret' = ret /\ TheCall(stk') = TheCall(t)
           \/ InCall(t) /\ ~InCall(stk') /\ ret' = Refused(t[2].val)
    BY <1>a, <2>1, EnterCall
  <2> QED BY <1>0, <1>2, <1>a, <2>2, Passes, ContinuesWrites
<1>3. CASE UserClear
  <2>1. ret' = ret /\ (stk' = t \/ stk' = Disturb(t))
    BY <1>3 DEF UserClear, t
  <2> QED BY <1>a, <1>b, <2>1
<1>4. CASE UserAdd
  <2>1. PICK o \in NextOps :
          Add(o.val, NoKey, Header(bld[Target(o)], o.key, o.tag), Target(o), t)
    BY <1>4 DEF UserAdd, t
  <2>2. Top.f = "user"
    BY <1>4 DEF UserAdd, Running
  <2>3. /\ o.val \in Value /\ o.key \in KeyArg /\ o.tag \in Int /\ Target(o) \in Buffer
        /\ NoKey \in KeyArg
    BY <1>0, NextOpsType DEF Op, KeyArg
  <2> DEFINE c == Header(bld[Target(o)], o.key, o.tag)
  <2>4. c \in AnyBuilder
    BY <1>0, <2>3, WriteKeyType, WriteTagType DEF Header
  <2>5. t[Len(t)].f = "user"
    BY <1>0, <2>2, StackInv DEF t
  <2> HIDE DEF c
  <2>6. /\ OneCall(stk')
        /\ \/ ret' = ret /\ TheCall(stk') = TheCall(t)
           \/ InCall(t) /\ ~InCall(stk') /\ ret' = Refused(t[2].val)
    BY <1>0, <1>a, <2>1, <2>3, <2>4, <2>5, AddCall DEF c
  <2> QED BY <1>0, <1>4, <1>a, <2>6, Passes, ContinuesAdd
<1>5. CASE UserSerialize
  <2>1. OneCall(stk') /\ Begins(TheCall(stk), TheAnswer(ret), TheCall(stk'), TheAnswer(ret'))
    BY <1>5, SerializeCall
  <2> QED BY <2>1 DEF Promised
<1>6. CASE UserThrow
  BY <1>6, <1>a, <1>b DEF UserThrow, t
<1>7. CASE UserCatch
  BY <1>7 DEF UserCatch
<1>8. CASE UserPropagate \/ UserReturn
  <2>1. Len(stk) > 1 /\ Top.f # "mapper" /\ stk' = Below(stk) /\ ret' = ret
    BY <1>8 DEF UserPropagate, UserReturn, Running
  <2> QED BY <1>0, <2>1, BelowCall
<1>9. CASE HashNext
  <2> DEFINE n == Heap[Top.val]
             e == n.entries[Top.pc]
  <2>1. /\ Top.pc <= Len(n.entries) /\ Top.f = "hash"
        /\ Add(e.val, EntryKey(n, Top.pc), bld[Top.d], Top.d, t)
    BY <1>9 DEF HashNext, t
  <2>2. Top.val \in Value /\ Top.d \in Buffer /\ Top.pc \in Nat \ {0}
    BY <1>0, <2>1, CppBelow, StackInv DEF Activation
  <2>3. e.val \in Value /\ EntryKey(n, Top.pc) \in KeyArg
    BY <2>1, <2>2, EntryType
  <2>4. t[Len(t)].d = Top.d
    BY <1>0, StackInv DEF t
  <2> HIDE DEF n, e
  <2>5. /\ OneCall(stk')
        /\ \/ ret' = ret /\ TheCall(stk') = TheCall(t)
           \/ InCall(t) /\ ~InCall(stk') /\ ret' = Refused(t[2].val)
    BY <1>0, <1>a, <2>1, <2>2, <2>3, <2>4, AddCall
  <2> QED BY <1>0, <1>9, <1>a, <2>5, Passes, ContinuesNext
<1>10. CASE HashClose
  <2> DEFINE u == Below(stk)
  <2>1. Enter(Top.d, CloseContainer(bld[Top.d]), <<>>, u) /\ Top.f = "hash"
    BY <1>10 DEF HashClose
  <2>2. Len(stk) > 1 /\ u \in Stack /\ u # <<>> /\ Nesting(u)
    BY <1>0, <2>1, CppBelow
  <2>3. OneCall(u) /\ TheCall(u) = TheCall(stk)
    BY <1>0, <2>1, <2>2, BelowCall
  <2> HIDE DEF u
  <2>4. /\ OneCall(stk')
        /\ \/ ret' = ret /\ TheCall(stk') = TheCall(u)
           \/ InCall(u) /\ ~InCall(stk') /\ ret' = Refused(u[2].val)
    BY <2>1, <2>2, <2>3, EnterCall
  <2> QED BY <1>0, <1>10, <2>3, <2>4, Passes, ContinuesPops
<1>11. CASE MapperReturn
  BY <1>11, ReturnPromise
<1>13. CASE TagIdCall
  <2> DEFINE fr == CallbackFrame(Top.val, Top.d)
  <2>1. Top.f = "value" /\ stk' = Append(t, fr) /\ ret' = ret
    BY <1>13 DEF TagIdCall, t
  <2>2. fr \in Activation /\ fr.f # "mapper" /\ Fits(t, fr)
    BY <1>0, <2>1, CppBelow, CallbackFits, NewFrames
  <2> HIDE DEF fr
  <2>3. OneCall(stk') /\ TheCall(stk') = TheCall(t)
    BY <1>a, <2>1, <2>2, PushCall
  <2> QED BY <1>a, <2>1, <2>3
<1>14. CASE TagIdFails
  <2>1. Len(stk) > 1 /\ Top.f # "mapper" /\ stk' = Below(stk) /\ ret' = ret
    BY <1>0, <1>14, CppBelow DEF TagIdFails
  <2> QED BY <1>0, <2>1, BelowCall
<1>15. CASE TagIdReturn
  <2> DEFINE u == Below(stk)
             c == Header(bld[Top.d], Top.key, Heap[Top.val].tag)
             fr == CallbackFrame(Top.val, Top.d)
  <2>1. Enter(Top.d, c, <<fr>>, u) /\ Top.f = "value"
    BY <1>15 DEF TagIdReturn
  <2>2. /\ Len(stk) > 1 /\ u \in Stack /\ u # <<>> /\ Nesting(u)
        /\ fr \in Activation /\ Fits(u, fr) /\ fr.f # "mapper"
    BY <1>0, <2>1, CppBelow, CallbackFits, NewFrames
  <2>3. OneCall(u) /\ TheCall(u) = TheCall(stk)
    BY <1>0, <2>1, <2>2, BelowCall
  <2> HIDE DEF u, c, fr
  <2>4. /\ OneCall(stk')
        /\ \/ ret' = ret /\ TheCall(stk') = TheCall(u)
           \/ InCall(u) /\ ~InCall(stk') /\ ret' = Refused(u[2].val)
    BY <2>1, <2>2, <2>3, EnterCall
  <2>5. Continues
    BY <1>0, <1>15, ContinuesElse DEF Continues
  <2> QED BY <1>0, <2>3, <2>4, <2>5, Passes
<1>12. CASE UNCHANGED vars
  BY <1>12 DEF vars
<1> QED
  BY <1>1, <1>2, <1>3, <1>4, <1>5, <1>6, <1>7, <1>8, <1>9, <1>10, <1>11, <1>12,
     <1>13, <1>14, <1>15
  DEF Next, Step, Php, Cpp, ScriptEnd

\* In programs whose callbacks do not call TypeMapper::serialize, the calls
\* the script makes implement MapperCall: one at a time, each ends with the
\* document of its argument or an exception, and on an honest argument never
\* with the exception.
THEOREM PromiseKept == CallsFromScript /\ Spec => KeepsPromise
<1> DEFINE I == DocInv /\ OneCall(stk)
           calls == IF Calls = {} THEN <<>>
                    ELSE << stk[CHOOSE i \in Calls : \A j \in Calls : i <= j].val >>
           answers == IF ret = NoCall THEN [val |-> <<>>, doc |-> <<>>, ok |-> FALSE]
                      ELSE [val |-> ret.val, doc |-> ret.doc, ok |-> ret.ok]
<1> SUFFICES ASSUME CallsFromScript PROVE Spec => KeepsPromise
  OBVIOUS
<1>1. Init => I /\ Promise!Init
  <2>1. SUFFICES ASSUME Init PROVE OneCall(stk) /\ Promise!Init
    BY InitDoc
  <2>2. OneCall(stk) /\ Calls = {} /\ ret = NoCall
    BY <2>1 DEF Init, OneCall, Calls, Frame
  <2> QED BY <2>2 DEF Promise!Init, Promise!NoAnswer
<1>2. I /\ [Next]_vars => I'
  BY NextDoc, NextPromise
<1>3. I => calls = TheCall(stk) /\ answers = TheAnswer(ret)
  <2>1. SUFFICES ASSUME I PROVE calls = TheCall(stk)
    BY DEF TheAnswer
  <2>2. stk \in Stack
    BY <2>1, StackInv DEF DocInv
  <2> QED BY <2>1, <2>2, CallSeen DEF Calls
<1>4. I /\ [Next]_vars => [Promise!Next]_<<calls, answers>>
  <2>1. SUFFICES ASSUME I, [Next]_vars PROVE [Promise!Next]_<<calls, answers>>
    OBVIOUS
  <2>2. Promised(TheCall(stk), TheAnswer(ret), TheCall(stk'), TheAnswer(ret'))
    BY <2>1, NextPromise
  <2>3. I'
    BY <1>2, <2>1
  <2>4. calls = TheCall(stk) /\ answers = TheAnswer(ret)
    BY <1>3, <2>1
  <2>5. calls' = TheCall(stk') /\ answers' = TheAnswer(ret')
    <3>1. stk' \in Stack
      BY <2>3 DEF DocInv, Inv, TypeOK, Stack
    <3> QED BY <2>3, <3>1, CallSeen DEF Calls, TheAnswer
  <2>6. Promised(calls, answers, calls', answers')
    BY <2>2, <2>4, <2>5
  <2> QED
    BY <2>6 DEF Promised, Begins, Returns, Fails, Clean, Promise!Next, Promise!Begin,
                Promise!Return, Promise!Careless
<1> HIDE DEF I
<1> QED BY <1>1, <1>2, <1>4, PTL DEF Spec, KeepsPromise, Promise!Spec
=============================================================================
