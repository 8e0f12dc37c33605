------------------------- MODULE Serializer_proofs --------------------------
(* For every heap, script and bound: the machine is well typed, its frames  *)
(* nest as the C++ and PHP activations do, and callbacks never touch the    *)
(* script's own builder.                                                    *)
EXTENDS Serializer, Foundations

\* A builder in the middle of a call: the call may just have thrown.
AnyBuilder == [st : {"good", "threw", "bad"}, toks : Document, open : Seq(Container),
               keyed : BOOLEAN, tagged : BOOLEAN]

-----------------------------------------------------------------------------
\* The write operations of the builder take builders to builders.
LEMMA FreshType == Fresh \in Builder /\ Fresh \in AnyBuilder
BY DEF Fresh, Builder, AnyBuilder, Document

LEMMA FailedType ==
    ASSUME NEW s \in {"good", "threw", "bad"}
    PROVE  Failed(s) \in AnyBuilder
BY FreshType DEF Failed, AnyBuilder

LEMMA AppendToken ==
    ASSUME NEW toks \in Document, NEW t \in Token
    PROVE  Append(toks, t) \in Document
BY DEF Document

LEMMA WriteKeyType ==
    ASSUME NEW b \in AnyBuilder, NEW key \in KeyArg
    PROVE  WriteKey(b, key) \in AnyBuilder
<1>1. CASE b.st # "good" \/ key = NoKey
  BY <1>1 DEF WriteKey
<1>2. CASE key # NoKey
  <2>1. <<"str", key[1]>> \in Token
    <3>1. key[1] \in STRING
      BY <1>2 DEF KeyArg
    <3> QED BY <3>1 DEF Token
  <2>2. Append(b.toks, <<"str", key[1]>>) \in Document
    BY <2>1, AppendToken DEF AnyBuilder
  <2> QED BY <2>2, FailedType DEF WriteKey, AnyBuilder
<1> QED BY <1>1, <1>2

LEMMA WriteTagType ==
    ASSUME NEW b \in AnyBuilder, NEW tag \in Int
    PROVE  WriteTag(b, tag) \in AnyBuilder
<1>1. <<"tag", tag>> \in Token
  BY DEF Token
<1>2. Append(b.toks, <<"tag", tag>>) \in Document
  BY <1>1, AppendToken DEF AnyBuilder
<1> QED BY <1>2, FailedType DEF WriteTag, AnyBuilder

LEMMA WriteAtomType ==
    ASSUME NEW b \in AnyBuilder, NEW tok \in Token
    PROVE  WriteAtom(b, tok) \in AnyBuilder
<1>1. Append(b.toks, tok) \in Document
  BY AppendToken DEF AnyBuilder
<1>2. WantsKey(b) \in BOOLEAN
  BY DEF WantsKey, InObject, AnyBuilder
<1> QED BY <1>1, <1>2, FailedType DEF WriteAtom, AnyBuilder

LEMMA OpenContainerType ==
    ASSUME NEW b \in AnyBuilder, NEW kind \in Container
    PROVE  OpenContainer(b, kind) \in AnyBuilder
<1>1. <<"open", kind>> \in Token
  BY DEF Token
<1>2. Append(b.toks, <<"open", kind>>) \in Document
  BY <1>1, AppendToken DEF AnyBuilder
<1>3. Append(b.open, kind) \in Seq(Container)
  BY DEF AnyBuilder
<1> QED BY <1>2, <1>3, FailedType DEF OpenContainer, AnyBuilder

LEMMA CloseContainerType ==
    ASSUME NEW b \in AnyBuilder
    PROVE  CloseContainer(b) \in AnyBuilder
<1>1. <<"close">> \in Token
  BY DEF Token
<1>2. Append(b.toks, <<"close">>) \in Document
  BY <1>1, AppendToken DEF AnyBuilder
<1>3. b.open # <<>> => SubSeq(b.open, 1, Len(b.open) - 1) \in Seq(Container)
  BY DEF AnyBuilder
<1> QED BY <1>2, <1>3, FailedType DEF CloseContainer, AnyBuilder

\* What stays behind after a call is a builder again.
LEMMA SettledType ==
    ASSUME NEW b \in AnyBuilder
    PROVE  /\ Settled(b) \in Builder
           /\ \A t \in Throws(b) : t \in BOOLEAN
BY FreshType DEF Settled, Throws, Failed, Builder, AnyBuilder

\* slice() returns a document: the shortest prefix that is a whole value is
\* well defined whenever there is one.
LEMMA SliceDocType ==
    ASSUME NEW b \in Builder
    PROVE  SliceDoc(b) \in Document
<1>1. NoneDoc \in Document /\ Garbage \in Document
  <2>1. <<"none">> \in Token /\ <<"garbage">> \in Token
    BY DEF Token
  <2> QED BY <2>1 DEF NoneDoc, Garbage, Document
<1>2. ASSUME NEW toks \in Document PROVE FirstValue(toks) \in Document
  <2>1. CASE toks = <<>> \/ Ends(toks) = {}
    BY <2>1, <1>1 DEF FirstValue
  <2>2. CASE toks # <<>> /\ Ends(toks) # {}
    <3>1. Ends(toks) \subseteq 1..Len(toks)
      BY DEF Ends, Document
    <3> DEFINE k == CHOOSE i \in Ends(toks) : \A j \in Ends(toks) : i <= j
    <3>2. \E i \in Ends(toks) : \A j \in Ends(toks) : i <= j
      <4>1. Len(toks) \in Nat
        BY DEF Document
      <4>2. Ends(toks) \in SUBSET Nat
        BY <3>1, <4>1
      <4> QED BY <2>2, <4>2, NatMin
    <3>3. k \in 1..Len(toks)
      BY <3>1, <3>2
    <3>4. FirstValue(toks) = SubSeq(toks, 1, k)
      BY <2>2 DEF FirstValue
    <3> HIDE DEF k
    <3> QED BY <3>3, <3>4 DEF Document
  <2> QED BY <2>1, <2>2
<1> QED BY <1>1, <1>2 DEF SliceDoc, Builder

-----------------------------------------------------------------------------

Stack == Seq(Activation)
\* Two stacks of the same activations, in another state of progress.
SameFrames(s, t) ==
    /\ Len(s) = Len(t)
    /\ \A i \in 1..Len(s) : s[i].f = t[i].f /\ s[i].val = t[i].val /\ s[i].d = t[i].d

\* t is the lower part of s.
PartOf(t, s) == Len(t) <= Len(s) /\ \A i \in 1..Len(t) : t[i] = s[i]

Inv == TypeOK /\ FrameDiscipline

-----------------------------------------------------------------------------
(* Stacks.                                                                  *)
LEMMA FrameType ==
    ASSUME NEW f \in {"user", "hash", "value", "mapper"}, NEW v \in Value \cup {Script}, NEW d \in Buffer
    PROVE  /\ Frame(f, v, d) \in Activation
           /\ Frame(f, v, d).f = f /\ Frame(f, v, d).val = v /\ Frame(f, v, d).d = d
BY DEF Frame, Activation, Document, KeyArg

LEMMA FunctionIsSeq ==
    ASSUME NEW S, NEW n \in Nat, NEW g \in [1..n -> S]
    PROVE  g \in Seq(S) /\ Len(g) = n
<1>1. g \in Seq(S)
  BY SeqDef
<1>2. DOMAIN g = 1..Len(g) /\ Len(g) \in Nat
  BY <1>1, LenProperties
<1> QED BY <1>1, <1>2

\* The history of an activation may be set to anything of its type.
LEMMA HistoryType ==
    ASSUME NEW fr \in Activation, NEW l \in Seq(Document)
    PROVE  LET e == [fr EXCEPT !.last = l]
           IN  e \in Activation /\ e.f = fr.f /\ e.val = fr.val /\ e.d = fr.d
BY DEF Activation

LEMMA SameFramesNest ==
    ASSUME NEW s \in Stack, NEW t \in Stack, s # <<>>, SameFrames(s, t), Nesting(s)
    PROVE  Nesting(t)
<1>1. Len(s) \in Nat /\ Len(s) >= 1 /\ Len(t) = Len(s)
  BY DEF Stack, SameFrames
<1>2. ASSUME NEW i \in 2..Len(t)
      PROVE  i \in 2..Len(s) /\ i \in 1..Len(s) /\ i - 1 \in 1..Len(s)
  BY <1>1, <1>2
<1> QED BY <1>1, <1>2 DEF SameFrames, Nesting

LEMMA BelowType ==
    ASSUME NEW s \in Stack, Nesting(s), Len(s) > 1
    PROVE  Below(s) \in Stack /\ Below(s) # <<>> /\ Nesting(Below(s)) /\ PartOf(Below(s), s)
<1>1. Len(s) \in Nat
  BY DEF Stack
<1>2. /\ Below(s) \in Stack
      /\ Len(Below(s)) = Len(s) - 1
      /\ \A i \in 1..(Len(s) - 1) : Below(s)[i] = s[i]
  BY <1>1 DEF Below, Stack
<1> QED BY <1>1, <1>2 DEF Nesting, PartOf

LEMMA AdvanceType ==
    ASSUME NEW s \in Stack, s # <<>>, Nesting(s)
    PROVE  /\ Advance(s) \in Stack /\ Advance(s) # <<>> /\ Nesting(Advance(s))
           /\ SameFrames(s, Advance(s))
<1>1. Len(s) \in 1..Len(s)
  BY DEF Stack
<1>2. s[Len(s)] \in Activation
  BY <1>1 DEF Stack
<1> DEFINE e == [s[Len(s)] EXCEPT !.pc = @ + 1]
<1>3. e \in Activation /\ e.f = s[Len(s)].f /\ e.val = s[Len(s)].val /\ e.d = s[Len(s)].d
  BY <1>2 DEF Activation
<1>4. Advance(s) = [s EXCEPT ![Len(s)] = e]
  BY DEF Advance
<1> HIDE DEF e
<1>5. /\ Advance(s) \in Stack
      /\ Len(Advance(s)) = Len(s)
      /\ \A j \in 1..Len(s) : Advance(s)[j] = IF j = Len(s) THEN e ELSE s[j]
  BY <1>1, <1>3, <1>4, ExceptSeq DEF Stack
<1>6. SameFrames(s, Advance(s))
  BY <1>3, <1>5 DEF SameFrames
<1> QED BY <1>1, <1>5, <1>6, SameFramesNest

LEMMA DisturbType ==
    ASSUME NEW s \in Stack, s # <<>>, Nesting(s)
    PROVE  /\ Disturb(s) \in Stack /\ Disturb(s) # <<>> /\ Nesting(Disturb(s))
           /\ SameFrames(s, Disturb(s))
<1>1. DOMAIN s = 1..Len(s) /\ Len(s) \in Nat /\ Len(s) >= 1
  BY DEF Stack
<1>2. Disturb(s) = [i \in 1..Len(s) |-> [s[i] EXCEPT !.last = <<>>]]
  BY <1>1 DEF Disturb
<1>3. ASSUME NEW i \in 1..Len(s)
      PROVE  /\ [s[i] EXCEPT !.last = <<>>] \in Activation
             /\ Disturb(s)[i].f = s[i].f /\ Disturb(s)[i].val = s[i].val
             /\ Disturb(s)[i].d = s[i].d
  <2>1. s[i] \in Activation
    BY DEF Stack
  <2>2. <<>> \in Seq(Document)
    OBVIOUS
  <2> DEFINE e == [s[i] EXCEPT !.last = <<>>]
  <2>3. e \in Activation /\ e.f = s[i].f /\ e.val = s[i].val /\ e.d = s[i].d
    BY <2>1, <2>2, HistoryType
  <2>4. Disturb(s)[i] = e
    BY <1>2
  <2> HIDE DEF e
  <2>5. Disturb(s)[i].f = s[i].f /\ Disturb(s)[i].val = s[i].val /\ Disturb(s)[i].d = s[i].d
    BY <2>3, <2>4
  <2> QED BY <2>3, <2>5 DEF e
<1>4. Disturb(s) \in Stack /\ Len(Disturb(s)) = Len(s)
  <2>1. Disturb(s) \in [1..Len(s) -> Activation]
    BY <1>2, <1>3
  <2> QED BY <1>1, <2>1, FunctionIsSeq DEF Stack
<1>5. SameFrames(s, Disturb(s))
  BY <1>3, <1>4 DEF SameFrames
<1> QED BY <1>1, <1>4, <1>5, SameFramesNest

LEMMA NestedType ==
    ASSUME NEW s \in Stack, s # <<>>, Nesting(s), NEW doc \in Document
    PROVE  /\ Nested(s, doc) \in Stack /\ Nested(s, doc) # <<>> /\ Nesting(Nested(s, doc))
           /\ SameFrames(s, Nested(s, doc))
<1>1. DOMAIN s = 1..Len(s) /\ Len(s) \in Nat /\ Len(s) >= 1
  BY DEF Stack
<1>2. Nested(s, doc) = [i \in 1..Len(s) |-> [s[i] EXCEPT !.last = <<doc>>]]
  BY <1>1 DEF Nested
<1>3. ASSUME NEW i \in 1..Len(s)
      PROVE  /\ [s[i] EXCEPT !.last = <<doc>>] \in Activation
             /\ Nested(s, doc)[i].f = s[i].f /\ Nested(s, doc)[i].val = s[i].val
             /\ Nested(s, doc)[i].d = s[i].d
  <2>1. s[i] \in Activation
    BY DEF Stack
  <2>2. <<doc>> \in Seq(Document)
    OBVIOUS
  <2> DEFINE e == [s[i] EXCEPT !.last = <<doc>>]
  <2>3. e \in Activation /\ e.f = s[i].f /\ e.val = s[i].val /\ e.d = s[i].d
    BY <2>1, <2>2, HistoryType
  <2>4. Nested(s, doc)[i] = e
    BY <1>2
  <2> HIDE DEF e
  <2>5. Nested(s, doc)[i].f = s[i].f /\ Nested(s, doc)[i].val = s[i].val /\ Nested(s, doc)[i].d = s[i].d
    BY <2>3, <2>4
  <2> QED BY <2>3, <2>5 DEF e
<1>4. Nested(s, doc) \in Stack /\ Len(Nested(s, doc)) = Len(s)
  <2>1. Nested(s, doc) \in [1..Len(s) -> Activation]
    BY <1>2, <1>3
  <2> QED BY <1>1, <2>1, FunctionIsSeq DEF Stack
<1>5. SameFrames(s, Nested(s, doc))
  BY <1>3, <1>4 DEF SameFrames
<1> QED BY <1>1, <1>4, <1>5, SameFramesNest

\* There is always a user frame to unwind to, and it is the nearest one.
LEMMA UserLevelType ==
    ASSUME NEW s \in Stack, s # <<>>, Nesting(s)
    PROVE  /\ UserLevel(s) \in 1..Len(s) /\ s[UserLevel(s)].f = "user"
           /\ \A j \in 1..Len(s) : j > UserLevel(s) => s[j].f # "user"
<1>1. DOMAIN s = 1..Len(s) /\ Len(s) \in Nat /\ Len(s) >= 1
  BY DEF Stack
<1> DEFINE U == {i \in 1..Len(s) : s[i].f = "user"}
<1>2. 1 \in U
  BY <1>1 DEF Nesting
<1>3. PICK x \in U : \A y \in U : y <= x
  <2>1. U \in SUBSET (1..Len(s)) /\ U # {}
    BY <1>2
  <2> HIDE DEF U
  <2> QED BY <1>1, <2>1, NatMax
<1>4. /\ x \in DOMAIN s /\ s[x].f = "user"
      /\ \A j \in DOMAIN s : j > x => s[j].f # "user"
  BY <1>1, <1>3
<1> QED BY <1>1, <1>4 DEF UserLevel

LEMMA UnwoundType ==
    ASSUME NEW s \in Stack, s # <<>>, Nesting(s)
    PROVE  /\ Unwound(s) \in Stack /\ Unwound(s) # <<>> /\ Nesting(Unwound(s))
           /\ PartOf(Unwound(s), s)
<1>1. UserLevel(s) \in 1..Len(s) /\ Len(s) \in Nat
  BY UserLevelType DEF Stack
<1>2. /\ Unwound(s) \in Stack
      /\ Len(Unwound(s)) = UserLevel(s)
      /\ \A i \in 1..UserLevel(s) : Unwound(s)[i] = s[i]
  BY <1>1 DEF Unwound, Stack
<1> QED BY <1>1, <1>2 DEF Nesting, PartOf

\* One more frame on top of a stack.
Fits(s, fr) ==
    /\ fr.val \in Value
    /\ fr.f = "mapper" => s[Len(s)].f = "user" /\ fr.d = "mapper"
    /\ fr.f = "user" => fr.d = "mapper"
    /\ fr.f \in {"hash", "value"} /\ s[Len(s)].f # "user" => fr.d = s[Len(s)].d
LEMMA PushType ==
    ASSUME NEW s \in Stack, s # <<>>, Nesting(s), NEW fr \in Activation, Fits(s, fr)
    PROVE  /\ s \o <<fr>> \in Stack /\ s \o <<fr>> # <<>> /\ Nesting(s \o <<fr>>)
           /\ Append(s, fr) = s \o <<fr>>
<1> DEFINE t == s \o <<fr>>
<1>1. Len(s) \in Nat /\ Len(s) >= 1
  BY DEF Stack
<1>2. /\ t \in Stack /\ Len(t) = Len(s) + 1
      /\ \A i \in 1..Len(s) : t[i] = s[i]
      /\ t[Len(s) + 1] = fr
  BY <1>1 DEF Stack
<1>3. Append(s, fr) = t
  BY AppendIsConcat DEF Stack
<1> HIDE DEF t
<1>4. ASSUME NEW i \in 2..Len(t)
      PROVE  /\ t[i].val \in Value
             /\ t[i].f = "mapper" => t[i - 1].f = "user" /\ t[i].d = "mapper"
             /\ t[i].f = "user" => t[i].d = "mapper"
             /\ t[i].f \in {"hash", "value"} /\ t[i - 1].f # "user" => t[i].d = t[i - 1].d
  <2>1. CASE i = Len(s) + 1
    BY <2>1, <1>1, <1>2 DEF Fits
  <2>2. CASE i \in 2..Len(s)
    <3>1. t[i] = s[i] /\ t[i - 1] = s[i - 1]
      BY <2>2, <1>1, <1>2
    <3> QED BY <2>2, <3>1 DEF Nesting
  <2> QED BY <2>1, <2>2, <1>1, <1>2
<1>5. t[1].f = "user" /\ t[1].val = Script
  BY <1>1, <1>2 DEF Nesting
<1>6. t # <<>> /\ Nesting(t)
  BY <1>1, <1>2, <1>4, <1>5 DEF Nesting
<1> QED BY <1>2, <1>3, <1>6 DEF t

-----------------------------------------------------------------------------
(* One call into a builder.                                                 *)

LEMMA RefusedType ==
    ASSUME NEW v \in Value \cup {Script}
    PROVE  Refused(v) \in Result
<1>1. <<>> \in Document /\ <<>> \in Seq(Document)
  BY DEF Document
<1>2. NoCall \in Result
  BY <1>1 DEF NoCall, Result
<1> QED BY <1>2 DEF Refused, Result

\* A callback may run on top of anything.
LEMMA CallbackFits ==
    ASSUME NEW v \in Value, NEW d, NEW s
    PROVE  /\ CallbackFrame(v, d) \in Activation /\ Fits(s, CallbackFrame(v, d))
           /\ CallbackFrame(v, d).d = "mapper"
<1>1. CallbackFrame(v, d) \in Activation
  BY FrameType DEF CallbackFrame, CallbackBuilder, Buffer
<1> QED BY <1>1 DEF CallbackFrame, CallbackBuilder, Frame, Fits

\* What serialize hands over fits on top of the activation that called it.
LEMMA SerializeType ==
    ASSUME TypeOK, NEW v \in Value, NEW key \in KeyArg, NEW b \in AnyBuilder, NEW d \in Buffer,
           NEW s \in Stack, s # <<>>, Nesting(s),
           s[Len(s)].f # "user" => d = s[Len(s)].d
    PROVE  /\ Serialize(v, key, b, d).b \in AnyBuilder
           /\ \/ Serialize(v, key, b, d).call = <<>>
              \/ \E fr \in Activation : Fits(s, fr) /\ Serialize(v, key, b, d).call = <<fr>>
<1> DEFINE n == Heap[v]
<1>1. /\ n.kind \in Kind /\ n.n \in Int /\ n.s \in STRING /\ n.tag \in Int
  BY HeapAssumption
<1>2. WriteKey(b, key) \in AnyBuilder
  BY WriteKeyType
<1>3. Header(b, key, n.tag) \in AnyBuilder
  BY <1>1, <1>2, WriteTagType DEF Header
<1>4. Shape(n) \in Container
  BY DEF Shape, Container
<1>5. ASSUME n.kind \in Scalars PROVE Atom(n) \in Token
  <2>1. n.n % LongMod \in Int
    BY <1>1, LongAssumption
  <2> QED BY <1>1, <1>5, <2>1 DEF Atom, Token, Scalars
<1>6. HashFrame(v, d) \in Activation /\ Fits(s, HashFrame(v, d))
  <2>1. HashFrame(v, d) \in Activation
    BY FrameType DEF HashFrame
  <2> QED BY <2>1 DEF HashFrame, Frame, Fits
<1>7. CallbackFrame(v, d) \in Activation /\ Fits(s, CallbackFrame(v, d))
  BY CallbackFits
<1>a. ValueFrame(v, key, d) \in Activation /\ Fits(s, ValueFrame(v, key, d))
  <2>1. Frame("value", v, d) \in Activation
    BY FrameType
  <2>2. /\ ValueFrame(v, key, d) \in Activation
        /\ ValueFrame(v, key, d).f = "value" /\ ValueFrame(v, key, d).val = v
        /\ ValueFrame(v, key, d).d = d
    BY <2>1, FrameType DEF ValueFrame, Activation
  <2> QED BY <2>2 DEF Fits
<1> DEFINE r == Serialize(v, key, b, d)
<1>8. CASE n.kind \in Scalars
  <2>1. r = [b |-> WriteAtom(WriteKey(b, key), Atom(n)), call |-> <<>>]
    BY <1>8 DEF Serialize, Scalars, TagKnown
  <2> QED BY <2>1, <1>2, <1>5, <1>8, WriteAtomType
<1>9. CASE n.kind = "array"
  <2>1. r = [b |-> OpenContainer(WriteKey(b, key), Shape(n)), call |-> <<HashFrame(v, d)>>]
    BY <1>9 DEF Serialize, Scalars, TagKnown
  <2>2. r.call = <<HashFrame(v, d)>>
    BY <2>1
  <2> QED BY <2>1, <2>2, <1>2, <1>4, <1>6, OpenContainerType
<1>10. CASE n.kind = "plain"
  <2>1. r = [b |-> OpenContainer(Header(b, key, n.tag), Shape(n)), call |-> <<HashFrame(v, d)>>]
    BY <1>10 DEF Serialize, Scalars, TagKnown
  <2>2. r.call = <<HashFrame(v, d)>>
    BY <2>1
  <2> QED BY <2>1, <2>2, <1>3, <1>4, <1>6, OpenContainerType
<1>11. CASE TagKnown(n)
  <2>1. r = [b |-> Header(b, key, n.tag),
             call |-> IF pend THEN <<>> ELSE <<CallbackFrame(v, d)>>]
    BY <1>11 DEF Serialize, Scalars, TagKnown
  <2>2. r.call = <<>> \/ r.call = <<CallbackFrame(v, d)>>
    BY <2>1
  <2> QED BY <2>1, <2>2, <1>3, <1>7
<1>12. CASE n.kind = "serializable" /\ ~TagKnown(n) /\ ~pend
  <2>1. r = [b |-> b, call |-> <<ValueFrame(v, key, d)>>]
    BY <1>12 DEF Serialize, Scalars
  <2>2. r.call = <<ValueFrame(v, key, d)>>
    BY <2>1
  <2> QED BY <2>1, <2>2, <1>a
<1>13. CASE n.kind = "unsupported" \/ (n.kind = "serializable" /\ ~TagKnown(n) /\ pend)
  <2>1. r = [b |-> b, call |-> <<>>]
    BY <1>13 DEF Serialize, Scalars, TagKnown
  <2> QED BY <2>1
<1> QED BY <1>1, <1>8, <1>9, <1>10, <1>11, <1>12, <1>13 DEF Kind, TagKnown

\* A call into a builder keeps the invariant, whether it throws or goes on.
LEMMA EnterInv ==
    ASSUME TypeOK, NEW d \in Buffer, NEW b \in AnyBuilder,
           NEW s \in Stack, s # <<>>, Nesting(s),
           NEW call, call = <<>> \/ \E fr \in Activation : Fits(s, fr) /\ call = <<fr>>,
           Enter(d, b, call, s)
    PROVE  Inv'
<1>1. PICK throws \in Throws(b) :
        /\ bld' = [bld EXCEPT ![d] = Settled(b)]
        /\ pend' = (pend \/ throws)
        /\ stk' = IF throws THEN Disturb(Unwound(s)) ELSE s \o call
        /\ ret' = IF throws /\ UserLevel(s) < Len(s) /\ s[UserLevel(s) + 1].f = "mapper"
                  THEN Refused(s[UserLevel(s) + 1].val) ELSE ret
  BY DEF Enter
<1>2. throws \in BOOLEAN /\ Settled(b) \in Builder
  BY SettledType
<1>3. bld' \in [Buffer -> Builder]
  BY <1>1, <1>2 DEF TypeOK
<1>4. pend' \in BOOLEAN
  BY <1>1 DEF TypeOK
<1>5. ret' \in Result
  <2>1. UserLevel(s) \in 1..Len(s) /\ Len(s) \in Nat
    BY UserLevelType DEF Stack
  <2>2. ASSUME UserLevel(s) < Len(s) PROVE Refused(s[UserLevel(s) + 1].val) \in Result
    <3>1. UserLevel(s) + 1 \in 1..Len(s)
      BY <2>1, <2>2
    <3>2. s[UserLevel(s) + 1] \in Activation
      BY <3>1, ElementOfSeq DEF Stack
    <3> QED BY <3>2, RefusedType DEF Activation
  <2> QED BY <1>1, <2>1, <2>2 DEF TypeOK
<1> DEFINE t == IF throws THEN Unwound(s) ELSE s \o call
<1>6. t \in Stack /\ t # <<>> /\ Nesting(t)
  <2>1. CASE throws
    BY <2>1, UnwoundType
  <2>2. CASE ~throws /\ call = <<>>
    BY <2>2, ConcatEmptySeq DEF Stack
  <2>3. CASE ~throws /\ call # <<>>
    <3>1. PICK fr \in Activation : Fits(s, fr) /\ call = <<fr>>
      BY <2>3
    <3> QED BY <2>3, <3>1, PushType
  <2> QED BY <2>1, <2>2, <2>3
<1>7. stk' = t \/ stk' = Disturb(t)
  BY <1>1
<1> HIDE DEF t
<1>8. stk' \in Stack /\ stk' # <<>> /\ Nesting(stk')
  BY <1>6, <1>7, DisturbType
<1>9. TypeOK'
  BY <1>3, <1>4, <1>5, <1>8 DEF TypeOK, Stack
<1>10. FrameDiscipline'
  BY <1>8 DEF FrameDiscipline, Nesting
<1> QED BY <1>9, <1>10 DEF Inv

\* So does a call of serialize made by the activation on top of s.
LEMMA AddInv ==
    ASSUME TypeOK, NEW v \in Value, NEW key \in KeyArg, NEW b \in AnyBuilder, NEW d \in Buffer,
           NEW s \in Stack, s # <<>>, Nesting(s),
           s[Len(s)].f # "user" => d = s[Len(s)].d,
           Add(v, key, b, d, s)
    PROVE  Inv'
<1> DEFINE r == Serialize(v, key, b, d)
<1>1. /\ r.b \in AnyBuilder
      /\ r.call = <<>> \/ \E fr \in Activation : Fits(s, fr) /\ r.call = <<fr>>
  BY SerializeType
<1>2. Enter(d, r.b, r.call, s)
  BY DEF Add
<1> HIDE DEF r
<1> QED BY <1>1, <1>2, EnterInv

\* A step PHP code may take is a step.
LEMMA NextOpsType ==
    ASSUME Inv, NEW o \in NextOps
    PROVE  o \in Op /\ Target(o) \in Buffer /\ Top \in Activation
<1>1. Len(stk) \in 1..Len(stk) /\ stk \in Stack
  BY DEF Inv, TypeOK, Stack
<1>2. Top \in Activation
  BY <1>1, ElementOfSeq DEF Top, Stack
<1>3. o \in Op
  <2>1. CASE Top.val = Script
    BY <2>1, ScriptAssumption DEF NextOps
  <2>2. CASE Top.val # Script
    <3>1. Top.val \in Value
      BY <2>2, <1>2 DEF Activation
    <3>2. Program \in Seq(Op)
      BY <3>1, <2>2, HeapAssumption DEF Program
    <3>3. Top.pc \in 1..Len(Program) /\ o = Program[Top.pc]
      BY <3>2, <2>2, <1>2 DEF NextOps, Activation
    <3> QED BY <3>2, <3>3
  <2> QED BY <2>1, <2>2
<1> QED BY <1>2, <1>3 DEF Target, Buffer, Activation

LEMMA EntryType ==
    ASSUME NEW v \in Value, NEW i \in Nat \ {0}, i <= Len(Heap[v].entries)
    PROVE  Heap[v].entries[i].val \in Value /\ EntryKey(Heap[v], i) \in KeyArg
<1> DEFINE n == Heap[v]
<1>1. n.entries \in Seq([key : Key, val : Value])
  BY HeapAssumption
<1>2. i \in 1..Len(n.entries)
  <2>1. Len(n.entries) \in Nat
    BY <1>1, LenProperties
  <2> HIDE DEF n
  <2> QED BY <2>1 DEF n
<1>3. n.entries[i] \in [key : Key, val : Value]
  <2> HIDE DEF n
  <2> QED BY <1>1, <1>2, ElementOfSeq
<1> QED BY <1>3 DEF EntryKey, KeyArg, Key

LEMMA StackInv ==
    ASSUME Inv
    PROVE  /\ stk \in Stack /\ stk # <<>> /\ Nesting(stk) /\ Len(stk) \in Nat /\ Len(stk) >= 1
           /\ Advance(stk) \in Stack /\ Advance(stk) # <<>> /\ Nesting(Advance(stk))
           /\ Advance(stk)[Len(Advance(stk))].f = Top.f
           /\ Advance(stk)[Len(Advance(stk))].d = Top.d
           /\ Top \in Activation
<1>1. /\ stk \in Stack /\ stk # <<>> /\ Nesting(stk) /\ Len(stk) \in Nat /\ Len(stk) >= 1
  BY DEF Inv, TypeOK, FrameDiscipline, Stack
<1>2. /\ Advance(stk) \in Stack /\ Advance(stk) # <<>> /\ Nesting(Advance(stk))
      /\ SameFrames(stk, Advance(stk))
  BY <1>1, AdvanceType
<1>3. Top \in Activation
  BY <1>1, ElementOfSeq DEF Top, Stack
<1> QED BY <1>1, <1>2, <1>3 DEF SameFrames, Top

\* A C++ activation has PHP code somewhere below it.
LEMMA CppBelow ==
    ASSUME Inv, Top.f # "user"
    PROVE  /\ Len(stk) > 1 /\ Top.val \in Value
           /\ Below(stk) \in Stack /\ Below(stk) # <<>> /\ Nesting(Below(stk))
<1>1. Len(stk) # 1
  BY StackInv DEF Nesting, Top
<1>2. Len(stk) > 1 /\ Len(stk) \in 2..Len(stk)
  <2>1. \A k \in Nat : k >= 1 /\ k # 1 => k > 1 /\ k \in 2..k
    BY SMT
  <2>2. Len(stk) \in Nat /\ Len(stk) >= 1
    BY StackInv
  <2> QED BY <1>1, <2>1, <2>2
<1>3. Top.val \in Value
  BY <1>2, StackInv DEF Nesting, Top
<1> QED BY <1>2, <1>3, StackInv, BelowType

\* A step that leaves the builders and the result alone and gives the stack
\* another value of its kind.
LEMMA StackOnly ==
    ASSUME Inv, UNCHANGED ret, bld' \in [Buffer -> Builder], pend' \in BOOLEAN,
           stk' \in Stack, stk' # <<>>, Nesting(stk')
    PROVE  Inv'
<1>1. TypeOK'
  BY DEF Inv, TypeOK, Stack
<1>2. FrameDiscipline'
  BY DEF FrameDiscipline, Nesting
<1> QED BY <1>1, <1>2 DEF Inv

-----------------------------------------------------------------------------
(* The invariant.                                                           *)
LEMMA InitInv == Init => Inv
<1> SUFFICES ASSUME Init PROVE Inv
  OBVIOUS
<1>1. bld \in [Buffer -> Builder] /\ pend \in BOOLEAN
  BY FreshType DEF Init
<1>2. Frame("user", Script, "user") \in Activation
  BY FrameType DEF Buffer
<1>3. stk \in Stack /\ Len(stk) = 1 /\ stk[1] = Frame("user", Script, "user")
  BY <1>2 DEF Init, Stack
<1>4. ret \in Result
  <2>1. <<>> \in Document /\ <<>> \in Seq(Document)
    BY DEF Document
  <2> QED BY <2>1 DEF Init, NoCall, Result
<1>5. stk # <<>> /\ Nesting(stk)
  BY <1>3 DEF Nesting, Frame
<1> QED BY <1>1, <1>3, <1>4, <1>5 DEF Inv, TypeOK, FrameDiscipline, Stack

LEMMA NextInv == Inv /\ [Next]_vars => Inv'
<1> SUFFICES ASSUME Inv, [Next]_vars PROVE Inv'
  OBVIOUS
<1> USE DEF Buffer
<1>0. /\ TypeOK /\ FrameDiscipline
      /\ \A d \in Buffer : bld[d] \in Builder /\ bld[d] \in AnyBuilder
  BY DEF Inv, TypeOK, Builder, AnyBuilder
<1>1. CASE UserOpen
  <2>1. PICK o \in NextOps :
          Enter(Target(o), OpenContainer(bld[Target(o)], o.kind), <<>>, Advance(stk))
    BY <1>1 DEF UserOpen
  <2>2. OpenContainer(bld[Target(o)], o.kind) \in AnyBuilder
    BY <1>0, NextOpsType, OpenContainerType DEF Op
  <2> QED BY <1>0, <2>1, <2>2, NextOpsType, StackInv, EnterInv
<1>2. CASE UserClose
  <2>1. PICK o \in NextOps :
          Enter(Target(o), CloseContainer(bld[Target(o)]), <<>>, Advance(stk))
    BY <1>2 DEF UserClose
  <2>2. CloseContainer(bld[Target(o)]) \in AnyBuilder
    BY <1>0, NextOpsType, CloseContainerType
  <2> QED BY <1>0, <2>1, <2>2, NextOpsType, StackInv, EnterInv
<1>3. CASE UserClear
  <2>1. PICK o \in NextOps :
          /\ bld' = [bld EXCEPT ![Target(o)] = Fresh]
          /\ stk' = IF Target(o) = "mapper" THEN Disturb(Advance(stk)) ELSE Advance(stk)
    BY <1>3 DEF UserClear
  <2>2. bld' \in [Buffer -> Builder]
    BY <1>0, <2>1, FreshType DEF TypeOK
  <2>3. stk' \in Stack /\ stk' # <<>> /\ Nesting(stk')
    BY <2>1, StackInv, DisturbType
  <2>4. UNCHANGED <<pend, ret>>
    BY <1>3 DEF UserClear
  <2> QED BY <1>0, <2>2, <2>3, <2>4, StackOnly DEF TypeOK
<1>4. CASE UserAdd
  <2>1. PICK o \in NextOps :
          Add(o.val, NoKey, Header(bld[Target(o)], o.key, o.tag), Target(o), Advance(stk))
    BY <1>4 DEF UserAdd
  <2>2. Top.f = "user"
    BY <1>4 DEF UserAdd, Running
  <2>3. o.val \in Value /\ o.key \in KeyArg /\ o.tag \in Int /\ Target(o) \in Buffer
    BY NextOpsType DEF Op
  <2>4. Header(bld[Target(o)], o.key, o.tag) \in AnyBuilder
    BY <1>0, <2>3, WriteKeyType, WriteTagType DEF Header
  <2>5. NoKey \in KeyArg
    BY DEF KeyArg
  <2> QED BY <1>0, <2>1, <2>2, <2>3, <2>4, <2>5, StackInv, AddInv
<1>5. CASE UserSerialize
  <2> DEFINE s(o) == Append(Disturb(Advance(stk)), Frame("mapper", o.val, "mapper"))
  <2>1. PICK o \in NextOps : Add(o.val, NoKey, Fresh, "mapper", s(o))
    BY <1>5 DEF UserSerialize
  <2>2. o.val \in Value /\ NoKey \in KeyArg /\ "mapper" \in Buffer /\ Fresh \in AnyBuilder
    BY NextOpsType, FreshType DEF Op, KeyArg
  <2> DEFINE t == Disturb(Advance(stk))
             fr == Frame("mapper", o.val, "mapper")
  <2>3. /\ t \in Stack /\ t # <<>> /\ Nesting(t)
        /\ t[Len(t)].f = "user"
    <3>1. Top.f = "user"
      BY <1>5 DEF UserSerialize, Running
    <3>2. t \in Stack /\ t # <<>> /\ Nesting(t) /\ SameFrames(Advance(stk), t)
      BY StackInv, DisturbType
    <3>3. Len(Advance(stk)) \in 1..Len(Advance(stk))
      BY StackInv DEF Stack
    <3> QED BY <3>1, <3>2, <3>3, StackInv DEF SameFrames
  <2>4. fr \in Activation /\ fr.f = "mapper" /\ fr.d = "mapper" /\ fr.val = o.val
    BY <2>2, FrameType DEF Frame
  <2>5. Fits(t, fr)
    BY <2>2, <2>3, <2>4 DEF Fits
  <2>6. s(o) \in Stack /\ s(o) # <<>> /\ Nesting(s(o)) /\ s(o)[Len(s(o))] = fr
    <3> HIDE DEF t, fr
    <3>1. Append(t, fr) \in Stack /\ Append(t, fr) # <<>> /\ Nesting(Append(t, fr))
      BY <2>3, <2>4, <2>5, PushType
    <3>2. Append(t, fr)[Len(Append(t, fr))] = fr
      BY <2>3, <2>4, AppendProperties DEF Stack
    <3> QED BY <3>1, <3>2 DEF t, fr
  <2>7. s(o)[Len(s(o))].d = "mapper"
    BY <2>4, <2>6
  <2> HIDE DEF s, t, fr
  <2> QED BY <1>0, <2>1, <2>2, <2>6, <2>7, AddInv
<1>6. CASE UserThrow
  <2>1. stk' \in Stack /\ stk' # <<>> /\ Nesting(stk')
    BY <1>6, StackInv, DisturbType DEF UserThrow
  <2> QED BY <1>0, <1>6, <2>1, StackOnly DEF UserThrow, TypeOK
<1>7. CASE UserCatch
  BY <1>0, <1>7, StackInv, StackOnly DEF UserCatch, TypeOK
<1>8. CASE UserPropagate
  <2>1. stk' \in Stack /\ stk' # <<>> /\ Nesting(stk')
    BY <1>8, StackInv, BelowType DEF UserPropagate
  <2> QED BY <1>0, <1>8, <2>1, StackOnly DEF UserPropagate, TypeOK
<1>9. CASE UserReturn
  <2>1. stk' \in Stack /\ stk' # <<>> /\ Nesting(stk')
    BY <1>9, StackInv, BelowType DEF UserReturn
  <2> QED BY <1>0, <1>9, <2>1, StackOnly DEF UserReturn, TypeOK
<1>10. ASSUME Top.f # "user"
       PROVE  /\ Len(stk) > 1 /\ Top.val \in Value
              /\ Below(stk) \in Stack /\ Below(stk) # <<>> /\ Nesting(Below(stk))
  BY <1>10, CppBelow
<1>11. CASE HashNext
  <2> DEFINE n == Heap[Top.val]
             e == n.entries[Top.pc]
  <2>1. /\ Top.pc <= Len(n.entries) /\ Top.f = "hash"
        /\ Add(e.val, EntryKey(n, Top.pc), bld[Top.d], Top.d, Advance(stk))
    BY <1>11 DEF HashNext
  <2>2. Top.val \in Value /\ Top.d \in Buffer /\ Top.pc \in Nat \ {0}
    BY <2>1, <1>10, StackInv DEF Activation
  <2>3. e.val \in Value /\ EntryKey(n, Top.pc) \in KeyArg
    BY <2>1, <2>2, EntryType
  <2> HIDE DEF n, e
  <2> QED BY <1>0, <2>1, <2>2, <2>3, StackInv, AddInv
<1>12. CASE HashClose
  <2>1. Enter(Top.d, CloseContainer(bld[Top.d]), <<>>, Below(stk)) /\ Top.f = "hash"
    BY <1>12 DEF HashClose
  <2>2. Top.d \in Buffer
    BY StackInv DEF Activation
  <2>3. CloseContainer(bld[Top.d]) \in AnyBuilder
    BY <1>0, <2>2, CloseContainerType
  <2> QED BY <1>0, <1>10, <2>1, <2>2, <2>3, EnterInv
<1>a. CASE TagIdCall
  <2>1. Top.f = "value" /\ stk' = Append(Advance(stk), CallbackFrame(Top.val, Top.d))
    BY <1>a DEF TagIdCall
  <2>2. /\ CallbackFrame(Top.val, Top.d) \in Activation
        /\ Fits(Advance(stk), CallbackFrame(Top.val, Top.d))
    BY <1>10, <2>1, CallbackFits
  <2>3. stk' \in Stack /\ stk' # <<>> /\ Nesting(stk')
    BY <2>1, <2>2, StackInv, PushType
  <2> QED BY <1>0, <1>a, <2>3, StackOnly DEF TagIdCall, TypeOK
<1>b. CASE TagIdFails
  <2>1. stk' \in Stack /\ stk' # <<>> /\ Nesting(stk')
    BY <1>10, <1>b DEF TagIdFails
  <2> QED BY <1>0, <1>b, <2>1, StackOnly DEF TagIdFails, TypeOK
<1>c. CASE TagIdReturn
  <2> DEFINE b == Header(bld[Top.d], Top.key, Heap[Top.val].tag)
             fr == CallbackFrame(Top.val, Top.d)
  <2>1. Enter(Top.d, b, <<fr>>, Below(stk)) /\ Top.f = "value"
    BY <1>c DEF TagIdReturn
  <2>2. Top.d \in Buffer /\ Top.key \in KeyArg /\ Heap[Top.val].tag \in Int
    BY <1>10, <2>1, StackInv, HeapAssumption DEF Activation
  <2>3. b \in AnyBuilder
    BY <1>0, <2>2, WriteKeyType, WriteTagType DEF Header
  <2>4. fr \in Activation /\ Fits(Below(stk), fr)
    BY <1>10, <2>1, CallbackFits
  <2> HIDE DEF b, fr
  <2> QED BY <1>0, <1>10, <2>1, <2>2, <2>3, <2>4, EnterInv
<1>13. CASE MapperReturn
  <2>1. SliceDoc(bld["mapper"]) \in Document
    BY <1>0, SliceDocType
  <2>2. Top.f = "mapper"
    BY <1>13 DEF MapperReturn
  <2>3. stk' \in Stack /\ stk' # <<>> /\ Nesting(stk')
    BY <1>10, <1>13, <2>1, <2>2, DisturbType, NestedType DEF MapperReturn
  <2>4. ret' \in Result
    <3>1. Refused(Top.val) \in Result
      BY <1>10, <2>2, RefusedType
    <3>2. Answer(Top, SliceDoc(bld["mapper"])) \in Result
      BY <2>1, StackInv, <1>0 DEF Answer, Result, Activation, TypeOK
    <3> QED BY <1>13, <3>1, <3>2 DEF MapperReturn
  <2>5. bld' \in [Buffer -> Builder] /\ pend' \in BOOLEAN
    BY <1>0, <1>13 DEF MapperReturn, TypeOK
  <2>6. TypeOK'
    BY <2>3, <2>4, <2>5 DEF TypeOK, Stack
  <2>7. FrameDiscipline'
    BY <2>3 DEF FrameDiscipline, Nesting
  <2> QED BY <2>6, <2>7 DEF Inv
<1>14. CASE UNCHANGED vars
  BY <1>14 DEF vars, Inv, TypeOK, FrameDiscipline, Nesting
<1> QED
  BY <1>1, <1>2, <1>3, <1>4, <1>5, <1>6, <1>7, <1>8, <1>9, <1>11, <1>12, <1>13, <1>14,
     <1>a, <1>b, <1>c
  DEF Next, Step, Php, Cpp, ScriptEnd

\* The machine is well typed, whatever the heap, the script and the bounds.
THEOREM TypeCorrect == Spec => []TypeOK
<1> QED BY InitInv, NextInv, PTL DEF Spec, Inv

\* C++ and PHP activations nest as FrameDiscipline says: wherever a C++
\* exception is thrown, there is PHP code below to receive it.
THEOREM FramesNest == Spec => []FrameDiscipline
<1> QED BY InitInv, NextInv, PTL DEF Spec, Inv

-----------------------------------------------------------------------------
(* Callbacks and the script's builder.  Everything above a callback works   *)
(* on the mapper's builder: a property of whole stretches of the stack,     *)
(* which the local FrameDiscipline does not give.                           *)
Contained(s) == \A i, j \in 2..Len(s) : i <= j /\ s[i].f = "user" => s[j].d = "mapper"

LEMMA ContainedSame ==
    ASSUME NEW s \in Stack, NEW t \in Stack, SameFrames(s, t)
    PROVE  /\ Contained(s) => Contained(t)
           /\ InCallbackOf(t) <=> InCallbackOf(s)
<1>1. Len(s) = Len(t) /\ \A i \in 2..Len(s) : s[i].f = t[i].f /\ s[i].d = t[i].d
  BY DEF SameFrames, Stack
<1> QED BY <1>1 DEF Contained, InCallbackOf

LEMMA ContainedPart ==
    ASSUME NEW s \in Stack, NEW t \in Stack, PartOf(t, s), Contained(s)
    PROVE  Contained(t)
<1>1. /\ Len(s) \in Nat /\ Len(t) \in Nat /\ Len(t) <= Len(s)
      /\ \A i \in 1..Len(t) : t[i] = s[i]
  BY DEF PartOf, Stack
<1>2. \A i \in 2..Len(t) : i \in 2..Len(s) /\ t[i] = s[i]
  BY <1>1
<1> QED BY <1>2 DEF Contained

LEMMA ContainedPush ==
    ASSUME NEW s \in Stack, Contained(s), NEW fr \in Activation,
           InCallbackOf(s) \/ fr.f = "user" => fr.d = "mapper"
    PROVE  Contained(s \o <<fr>>)
<1> DEFINE t == s \o <<fr>>
<1>1. /\ Len(s) \in Nat /\ Len(t) = Len(s) + 1
      /\ \A i \in 1..Len(s) : t[i] = s[i]
      /\ t[Len(s) + 1] = fr
  BY DEF Stack
<1> HIDE DEF t
<1>2. SUFFICES ASSUME NEW i \in 2..Len(t), NEW j \in 2..Len(t), i <= j, t[i].f = "user"
               PROVE  t[j].d = "mapper"
  BY DEF Contained, t
<1>3. CASE j \in 2..Len(s)
  <2>1. i \in 2..Len(s) /\ t[i] = s[i] /\ t[j] = s[j]
    BY <1>1, <1>2, <1>3
  <2> QED BY <1>2, <1>3, <2>1 DEF Contained
<1>4. CASE j = Len(s) + 1
  <2>1. t[j] = fr
    BY <1>1, <1>4
  <2>2. CASE i = Len(s) + 1
    BY <1>1, <1>2, <2>1, <2>2
  <2>3. CASE i \in 2..Len(s)
    <3>1. s[i].f = "user"
      BY <1>1, <1>2, <2>3
    <3> QED BY <2>1, <2>3, <3>1 DEF InCallbackOf
  <2> QED BY <1>1, <1>4, <2>2, <2>3
<1> QED BY <1>1, <1>3, <1>4

LEMMA EnterContained ==
    ASSUME TypeOK, NEW d \in Buffer, NEW b \in AnyBuilder,
           NEW s \in Stack, s # <<>>, Nesting(s), Contained(s),
           NEW call,
           \/ call = <<>>
           \/ \E fr \in Activation : /\ Fits(s, fr) /\ call = <<fr>>
                                     /\ InCallbackOf(s) => fr.d = "mapper",
           Enter(d, b, call, s)
    PROVE  /\ Contained(stk')
           /\ d = "mapper" => bld'["user"] = bld["user"]
<1>1. PICK throws \in Throws(b) :
        /\ bld' = [bld EXCEPT ![d] = Settled(b)]
        /\ stk' = IF throws THEN Disturb(Unwound(s)) ELSE s \o call
  BY DEF Enter
<1> DEFINE t == IF throws THEN Unwound(s) ELSE s \o call
<1>2. t \in Stack /\ t # <<>> /\ Nesting(t) /\ Contained(t)
  <2>1. CASE throws
    BY <2>1, UnwoundType, ContainedPart
  <2>2. CASE ~throws /\ call = <<>>
    BY <2>2, ConcatEmptySeq DEF Stack
  <2>3. CASE ~throws /\ call # <<>>
    <3>1. PICK fr \in Activation : /\ Fits(s, fr) /\ call = <<fr>>
                                   /\ InCallbackOf(s) => fr.d = "mapper"
      BY <2>3
    <3>2. InCallbackOf(s) \/ fr.f = "user" => fr.d = "mapper"
      BY <3>1 DEF Fits
    <3> QED BY <2>3, <3>1, <3>2, PushType, ContainedPush
  <2> QED BY <2>1, <2>2, <2>3
<1>3. stk' = t \/ stk' = Disturb(t)
  BY <1>1
<1> HIDE DEF t
<1>4. Contained(stk')
  BY <1>2, <1>3, DisturbType, ContainedSame
<1>5. d = "mapper" => bld'["user"] = bld["user"]
  BY <1>1 DEF TypeOK, Buffer
<1> QED BY <1>4, <1>5

LEMMA AddContained ==
    ASSUME TypeOK, NEW v \in Value, NEW key \in KeyArg, NEW b \in AnyBuilder, NEW d \in Buffer,
           NEW s \in Stack, s # <<>>, Nesting(s), Contained(s),
           s[Len(s)].f # "user" => d = s[Len(s)].d,
           InCallbackOf(s) => d = "mapper",
           Add(v, key, b, d, s)
    PROVE  /\ Contained(stk')
           /\ d = "mapper" => bld'["user"] = bld["user"]
<1> DEFINE r == Serialize(v, key, b, d)
<1>1. /\ r.b \in AnyBuilder
      /\ r.call = <<>> \/ \E fr \in Activation : Fits(s, fr) /\ r.call = <<fr>>
  BY SerializeType
<1>2. r.call \in {<<>>, <<HashFrame(v, d)>>, <<CallbackFrame(v, d)>>, <<ValueFrame(v, key, d)>>}
  BY DEF Serialize
<1>3. HashFrame(v, d).d = d /\ CallbackFrame(v, d).d = "mapper" /\ ValueFrame(v, key, d).d = d
  BY DEF HashFrame, CallbackFrame, CallbackBuilder, ValueFrame, Frame
<1>4. \A fr : r.call = <<fr>> => fr \in {HashFrame(v, d), CallbackFrame(v, d),
                                        ValueFrame(v, key, d)}
  <2> HIDE DEF r
  <2> QED BY <1>2
<1>5. \/ r.call = <<>>
      \/ \E fr \in Activation : /\ Fits(s, fr) /\ r.call = <<fr>>
                                /\ InCallbackOf(s) => fr.d = "mapper"
  <2> HIDE DEF r
  <2> QED BY <1>1, <1>3, <1>4
<1>6. Enter(d, r.b, r.call, s)
  BY DEF Add
<1> HIDE DEF r
<1> QED BY <1>1, <1>5, <1>6, EnterContained

LEMMA TopContained ==
    ASSUME Inv, Contained(stk), InCallback
    PROVE  Top.d = "mapper" /\ (Top.f = "user" => Top.val # Script)
<1>1. PICK i \in 2..Len(stk) : stk[i].f = "user"
  BY DEF InCallback, InCallbackOf
<1>2. Len(stk) \in 2..Len(stk) /\ i <= Len(stk)
  BY <1>1, StackInv
<1>3. Top.d = "mapper"
  BY <1>1, <1>2 DEF Contained, Top
<1>4. Top.val \in Value
  BY <1>2, StackInv DEF Nesting, Top
<1> QED BY <1>3, <1>4, ScriptAssumption

LEMMA TargetContained ==
    ASSUME Inv, Contained(stk), GivenOnly, InCallback, Running, NEW o \in NextOps
    PROVE  Target(o) = "mapper"
<1>1. Top.d = "mapper" /\ Top.val # Script /\ Top.val \in Value
  BY TopContained, StackInv DEF Running, Activation
<1>2. /\ Program = Heap[Top.val].prog \/ Program = Heap[Top.val].getTagId
      /\ Program \in Seq(Op)
  BY <1>1, HeapAssumption DEF Program
<1>3. Top.pc \in DOMAIN Program /\ o = Program[Top.pc]
  <2>1. Top.pc \in Nat \ {0}
    BY StackInv DEF Activation
  <2> QED BY <1>1, <1>2, <2>1 DEF NextOps
<1>4. o.on = "given"
  BY <1>1, <1>2, <1>3 DEF GivenOnly
<1> QED BY <1>1, <1>4 DEF Target

LEMMA NextContained ==
    ASSUME GivenOnly, Inv, Contained(stk), [Next]_vars
    PROVE  Contained(stk') /\ (InCallback => bld'["user"] = bld["user"])
<1> USE DEF Buffer
<1>0. /\ TypeOK /\ FrameDiscipline
      /\ \A d \in Buffer : bld[d] \in Builder /\ bld[d] \in AnyBuilder
  BY DEF Inv, TypeOK, Builder, AnyBuilder
<1>a. /\ Contained(Advance(stk)) /\ Contained(Disturb(Advance(stk)))
      /\ InCallbackOf(Advance(stk)) <=> InCallback
  <2>1. SameFrames(stk, Advance(stk)) /\ SameFrames(Advance(stk), Disturb(Advance(stk)))
    BY StackInv, AdvanceType, DisturbType
  <2>2. Disturb(Advance(stk)) \in Stack
    BY StackInv, DisturbType
  <2> QED BY <2>1, <2>2, StackInv, ContainedSame DEF InCallback
<1>b. ASSUME Len(stk) > 1
      PROVE  /\ Below(stk) \in Stack /\ Below(stk) # <<>> /\ Nesting(Below(stk))
             /\ Contained(Below(stk)) /\ (InCallbackOf(Below(stk)) => InCallback)
  <2>1. /\ Below(stk) \in Stack /\ Below(stk) # <<>> /\ Nesting(Below(stk))
        /\ PartOf(Below(stk), stk)
    BY <1>b, StackInv, BelowType
  <2>2. Contained(Below(stk))
    BY <2>1, StackInv, ContainedPart
  <2>3. ASSUME NEW i \in 2..Len(Below(stk))
        PROVE  i \in 2..Len(stk) /\ stk[i] = Below(stk)[i]
    <3>1. Len(Below(stk)) \in Nat /\ Len(stk) \in Nat
      BY <2>1, StackInv DEF Stack
    <3> QED BY <2>1, <2>3, <3>1 DEF PartOf
  <2> QED BY <2>1, <2>2, <2>3 DEF InCallback, InCallbackOf
<1>c. ASSUME Top.f # "user" PROVE Len(stk) > 1
  <2>1. Len(stk) # 1
    BY <1>c, StackInv DEF Nesting, Top
  <2>2. \A k \in Nat : k >= 1 /\ k # 1 => k > 1
    BY SMT
  <2>3. Len(stk) \in Nat /\ Len(stk) >= 1
    BY StackInv
  <2> QED BY <2>1, <2>2, <2>3
<1>1. CASE UserOpen
  <2>1. PICK o \in NextOps :
          Enter(Target(o), OpenContainer(bld[Target(o)], o.kind), <<>>, Advance(stk))
    BY <1>1 DEF UserOpen
  <2>2. OpenContainer(bld[Target(o)], o.kind) \in AnyBuilder
    BY <1>0, NextOpsType, OpenContainerType DEF Op
  <2>3. /\ Contained(stk')
        /\ Target(o) = "mapper" => bld'["user"] = bld["user"]
    BY <1>0, <1>a, <2>1, <2>2, NextOpsType, StackInv, EnterContained
  <2> QED BY <1>1, <2>3, TargetContained DEF UserOpen
<1>2. CASE UserClose
  <2>1. PICK o \in NextOps :
          Enter(Target(o), CloseContainer(bld[Target(o)]), <<>>, Advance(stk))
    BY <1>2 DEF UserClose
  <2>2. CloseContainer(bld[Target(o)]) \in AnyBuilder
    BY <1>0, NextOpsType, CloseContainerType
  <2>3. /\ Contained(stk')
        /\ Target(o) = "mapper" => bld'["user"] = bld["user"]
    BY <1>0, <1>a, <2>1, <2>2, NextOpsType, StackInv, EnterContained
  <2> QED BY <1>2, <2>3, TargetContained DEF UserClose
<1>3. CASE UserClear
  <2>1. PICK o \in NextOps :
          /\ bld' = [bld EXCEPT ![Target(o)] = Fresh]
          /\ stk' = IF Target(o) = "mapper" THEN Disturb(Advance(stk)) ELSE Advance(stk)
    BY <1>3 DEF UserClear
  <2>2. Target(o) = "mapper" => bld'["user"] = bld["user"]
    BY <1>0, <2>1 DEF TypeOK
  <2> QED BY <1>3, <1>a, <2>1, <2>2, TargetContained DEF UserClear
<1>4. CASE UserAdd
  <2>1. PICK o \in NextOps :
          Add(o.val, NoKey, Header(bld[Target(o)], o.key, o.tag), Target(o), Advance(stk))
    BY <1>4 DEF UserAdd
  <2>2. Top.f = "user" /\ Running
    BY <1>4 DEF UserAdd, Running
  <2>3. o.val \in Value /\ o.key \in KeyArg /\ o.tag \in Int /\ Target(o) \in Buffer
    BY NextOpsType DEF Op
  <2>4. Header(bld[Target(o)], o.key, o.tag) \in AnyBuilder
    BY <1>0, <2>3, WriteKeyType, WriteTagType DEF Header
  <2>5. NoKey \in KeyArg
    BY DEF KeyArg
  <2>6. InCallback => Target(o) = "mapper"
    BY <2>2, TargetContained
  <2>7. /\ Contained(stk')
        /\ Target(o) = "mapper" => bld'["user"] = bld["user"]
    BY <1>0, <1>a, <2>1, <2>2, <2>3, <2>4, <2>5, <2>6, StackInv, AddContained
  <2> QED BY <2>6, <2>7
<1>5. CASE UserSerialize
  <2> DEFINE t == Disturb(Advance(stk))
             fr(o) == Frame("mapper", o.val, "mapper")
  <2>1. PICK o \in NextOps : Add(o.val, NoKey, Fresh, "mapper", Append(t, fr(o)))
    BY <1>5 DEF UserSerialize
  <2>2. o.val \in Value /\ NoKey \in KeyArg /\ "mapper" \in Buffer /\ Fresh \in AnyBuilder
    BY NextOpsType, FreshType DEF Op, KeyArg
  <2>3. /\ t \in Stack /\ t # <<>> /\ Nesting(t) /\ Contained(t)
        /\ t[Len(t)].f = "user"
    <3>1. Top.f = "user"
      BY <1>5 DEF UserSerialize, Running
    <3>2. t \in Stack /\ t # <<>> /\ Nesting(t) /\ SameFrames(Advance(stk), t)
      BY StackInv, DisturbType
    <3>3. Len(Advance(stk)) \in 1..Len(Advance(stk))
      BY StackInv DEF Stack
    <3> QED BY <1>a, <3>1, <3>2, <3>3, StackInv DEF SameFrames
  <2>4. /\ fr(o) \in Activation /\ fr(o).f = "mapper" /\ fr(o).d = "mapper"
        /\ fr(o).val = o.val
    BY <2>2, FrameType DEF Frame
  <2>5. Fits(t, fr(o))
    BY <2>2, <2>3, <2>4 DEF Fits
  <2> HIDE DEF t, fr
  <2>6. /\ Append(t, fr(o)) \in Stack /\ Append(t, fr(o)) # <<>>
        /\ Nesting(Append(t, fr(o))) /\ Append(t, fr(o)) = t \o <<fr(o)>>
    BY <2>3, <2>4, <2>5, PushType
  <2>7. Append(t, fr(o))[Len(Append(t, fr(o)))] = fr(o)
    BY <2>3, <2>4, AppendProperties DEF Stack
  <2>8. Contained(t \o <<fr(o)>>)
    BY <2>3, <2>4, ContainedPush
  <2> QED BY <1>0, <2>1, <2>2, <2>4, <2>6, <2>7, <2>8, AddContained
<1>6. CASE UserThrow
  BY <1>6, <1>a DEF UserThrow
<1>7. CASE UserCatch
  BY <1>7 DEF UserCatch
<1>8. CASE UserPropagate
  BY <1>8, <1>b DEF UserPropagate
<1>9. CASE UserReturn
  BY <1>9, <1>b DEF UserReturn
<1>10. CASE HashNext
  <2> DEFINE n == Heap[Top.val]
             e == n.entries[Top.pc]
  <2>1. /\ Top.pc <= Len(n.entries) /\ Top.f = "hash"
        /\ Add(e.val, EntryKey(n, Top.pc), bld[Top.d], Top.d, Advance(stk))
    BY <1>10 DEF HashNext
  <2>2. Top.val \in Value /\ Top.d \in Buffer /\ Top.pc \in Nat \ {0}
    <3>1. Len(stk) \in 2..Len(stk)
      BY <1>c, <2>1, StackInv
    <3> QED BY <3>1, StackInv DEF Nesting, Top, Activation
  <2>3. e.val \in Value /\ EntryKey(n, Top.pc) \in KeyArg
    BY <2>1, <2>2, EntryType
  <2>4. InCallback => Top.d = "mapper"
    BY TopContained
  <2> HIDE DEF n, e
  <2>5. /\ Contained(stk')
        /\ Top.d = "mapper" => bld'["user"] = bld["user"]
    BY <1>0, <1>a, <2>1, <2>2, <2>3, <2>4, StackInv, AddContained
  <2> QED BY <2>4, <2>5
<1>11. CASE HashClose
  <2>1. Enter(Top.d, CloseContainer(bld[Top.d]), <<>>, Below(stk)) /\ Top.f = "hash"
    BY <1>11 DEF HashClose
  <2>2. Top.d \in Buffer
    BY StackInv DEF Activation
  <2>3. CloseContainer(bld[Top.d]) \in AnyBuilder
    BY <1>0, <2>2, CloseContainerType
  <2>4. /\ Contained(stk')
        /\ Top.d = "mapper" => bld'["user"] = bld["user"]
    BY <1>0, <1>b, <1>c, <2>1, <2>2, <2>3, EnterContained
  <2> QED BY <2>4, TopContained
<1>d. CASE TagIdCall
  <2>1. /\ Top.f = "value" /\ UNCHANGED bld
        /\ stk' = Append(Advance(stk), CallbackFrame(Top.val, Top.d))
    BY <1>d DEF TagIdCall
  <2>2. /\ CallbackFrame(Top.val, Top.d) \in Activation
        /\ Fits(Advance(stk), CallbackFrame(Top.val, Top.d))
        /\ CallbackFrame(Top.val, Top.d).d = "mapper"
    BY <2>1, CppBelow, CallbackFits
  <2>3. stk' = Advance(stk) \o <<CallbackFrame(Top.val, Top.d)>>
    BY <2>1, <2>2, StackInv, PushType
  <2>4. Contained(stk')
    BY <1>a, <2>2, <2>3, StackInv, ContainedPush
  <2> QED BY <2>1, <2>4
<1>e. CASE TagIdFails
  BY <1>e, <1>b, <1>c DEF TagIdFails
<1>f. CASE TagIdReturn
  <2> DEFINE b == Header(bld[Top.d], Top.key, Heap[Top.val].tag)
             fr == CallbackFrame(Top.val, Top.d)
  <2>1. Enter(Top.d, b, <<fr>>, Below(stk)) /\ Top.f = "value"
    BY <1>f DEF TagIdReturn
  <2>2. Top.d \in Buffer /\ Top.key \in KeyArg /\ Heap[Top.val].tag \in Int
    BY <2>1, CppBelow, StackInv, HeapAssumption DEF Activation
  <2>3. b \in AnyBuilder
    BY <1>0, <2>2, WriteKeyType, WriteTagType DEF Header
  <2>4. fr \in Activation /\ Fits(Below(stk), fr) /\ fr.d = "mapper"
    BY <2>1, CppBelow, CallbackFits
  <2> HIDE DEF b, fr
  <2>5. /\ Contained(stk')
        /\ Top.d = "mapper" => bld'["user"] = bld["user"]
    BY <1>0, <1>b, <1>c, <2>1, <2>2, <2>3, <2>4, EnterContained
  <2> QED BY <2>5, TopContained
<1>12. CASE MapperReturn
  <2>1. Top.f = "mapper" /\ UNCHANGED bld
    BY <1>12 DEF MapperReturn
  <2>2. /\ SliceDoc(bld["mapper"]) \in Document
    BY <1>0, SliceDocType
  <2>3. \/ stk' = Disturb(Below(stk))
        \/ stk' = Nested(Below(stk), SliceDoc(bld["mapper"]))
    BY <1>12 DEF MapperReturn
  <2> QED BY <1>b, <1>c, <2>1, <2>2, <2>3, DisturbType, NestedType, ContainedSame
<1>13. CASE UNCHANGED vars
  BY <1>13 DEF vars
<1> QED
  BY <1>1, <1>2, <1>3, <1>4, <1>5, <1>6, <1>7, <1>8, <1>9, <1>10, <1>11, <1>12, <1>13,
     <1>d, <1>e, <1>f
  DEF Next, Step, Php, Cpp, ScriptEnd

\* When every callback writes to the builder it was given, no callback, and
\* nothing called from one, ever changes the script's own builder: what a
\* toVPack writes cannot arrive where its value was added.
THEOREM CallbacksSpareUserBuilder == GivenOnly /\ Spec => SparesUserBuilder
<1> DEFINE C == Contained(stk)
           A == InCallback => bld'["user"] = bld["user"]
<1> SUFFICES ASSUME GivenOnly PROVE Spec => [][A]_vars
  BY DEF SparesUserBuilder
<1>1. Init => C
  BY DEF Init, Contained
<1>2. Inv /\ C /\ [Next]_vars => C' /\ [A]_vars
  BY NextContained DEF Contained
<1> HIDE DEF A, C
<1> QED BY <1>1, <1>2, InitInv, NextInv, PTL DEF Spec
=============================================================================
