------------------------- MODULE Deserializer_proofs -------------------------
(* For every document, registry and bound: no table with a gap is ever      *)
(* delivered, and what is delivered is the value the document has.          *)
EXTENDS Deserializer, Foundations

(* The two tables of registerMapping.                                       *)
TablesOK ==
    /\ classOf \in [Tag -> Maybe(Class)]
    /\ tagOf \in [Class -> Maybe(Tag)]

\* What a table holds for a key it has no entry for, or one: nothing, or a
\* sequence of one element.
LEMMA MaybeOne ==
    ASSUME NEW S, NEW x \in S
    PROVE  /\ <<x>> \in Maybe(S) /\ <<x>> # None /\ <<x>>[1] = x
           /\ \A y : <<y>> = <<x>> <=> y = x
BY DEF Maybe, None

LEMMA TablesKept == Spec => []TablesOK
<1>1. Init => TablesOK
  BY DEF Init, TablesOK, Maybe
<1>2. TablesOK /\ [Next]_vars => TablesOK'
  <2> SUFFICES ASSUME TablesOK, [Next]_vars PROVE TablesOK'
    OBVIOUS
  <2>1. ASSUME NEW t \in Tag, NEW c \in Class, RegisterMapping(t, c)
        PROVE  TablesOK'
    BY <2>1, MaybeOne DEF RegisterMapping, TablesOK
  <2>2. CASE ~(\E t \in Tag, c \in Class : RegisterMapping(t, c))
    <3>1. UNCHANGED <<classOf, tagOf>>
      BY <2>2 DEF Next, Php, Cpp, Register, RegisterSerializer, RegisterDeserializer, Call,
       Throw, Catch, CallbackReturn, CallbackFails, Plain, GetIntThrows, Descend,
       ByDeserializer, ByClass, LoopEnd, CallReturn, Stop, vars, registry
    <3> QED
      BY <3>1 DEF TablesOK
  <2> QED
    BY <2>1, <2>2
<1> QED BY <1>1, <1>2, PTL DEF Spec

-----------------------------------------------------------------------------
(* What the functions defined by recursion over a document give.             *)
PartsOf == [n \in Node |-> {Doc[n].entries[i].val : i \in DOMAIN Doc[n].entries}]

LEMMA PartsFounded == PartsOf \in [Node -> SUBSET Node] /\ Founded(Node, PartsOf)
<1>1. ASSUME NEW n \in Node, NEW i \in DOMAIN Doc[n].entries
      PROVE  Doc[n].entries[i].val \in Node
  <2> DEFINE es == Doc[n].entries
  <2>1. es \in Seq([key : STRING, val : Node])
    BY DocAssumption
  <2>2. i \in 1..Len(es)
    BY <2>1
  <2> HIDE DEF es
  <2>3. es[i] \in [key : STRING, val : Node]
    BY <2>1, <2>2, ElementOfSeq
  <2> QED BY <2>3 DEF es
<1>2. PartsOf \in [Node -> SUBSET Node]
  BY <1>1 DEF PartsOf
<1>3. ASSUME NEW S \in SUBSET Node, S # {} PROVE \E n \in S : PartsOf[n] \cap S = {}
  <2>1. PICK n \in S : \A i \in DOMAIN Doc[n].entries : Doc[n].entries[i].val \notin S
    BY <1>3, NestingAssumption
  <2>2. n \in Node
    OBVIOUS
  <2> QED BY <2>1, <2>2 DEF PartsOf
<1> QED BY <1>2, <1>3 DEF Founded

\* Slice::value ends at a value without a tag.
LEMMA UntaggedNode ==
    /\ Untagged \in [Node -> Node]
    /\ \A n \in Node :
        Untagged[n] = IF Doc[n].kind = "tagged" THEN Untagged[Doc[n].entries[1].val] ELSE n
<1> DEFINE g == [n \in Node |-> [f \in [Node -> Node] |->
                    IF Doc[n].kind = "tagged" THEN f[Doc[n].entries[1].val] ELSE n]]
<1>1. ASSUME NEW n \in Node, Doc[n].kind = "tagged"
      PROVE  Doc[n].entries[1].val \in Node /\ Doc[n].entries[1].val \in PartsOf[n]
  <2>1. Doc[n].entries \in Seq([key : STRING, val : Node]) /\ Len(Doc[n].entries) = 1
    BY <1>1, DocAssumption
  <2>2. 1 \in DOMAIN Doc[n].entries
    BY <2>1
  <2>3. Doc[n].entries[1].val \in PartsOf[n]
    BY <2>2 DEF PartsOf
  <2> QED BY <2>3, PartsFounded
<1>2. g \in [Node -> [[Node -> Node] -> Node]]
  BY <1>1
<1>3. FromParts(Node, Node, PartsOf, g)
  BY <1>1 DEF FromParts
<1>4. Node # {}
  BY DocAssumption
<1>5. Recursive(Node, Node, PartsOf, g)
  <2> HIDE DEF g
  <2> QED BY <1>2, <1>3, <1>4, PartsFounded DEF Recursive
<1>6. PICK f \in [Node -> Node] : \A n \in Node : f[n] = g[n][f]
  <2> HIDE DEF g
  <2> QED BY <1>5, Recursion
<1> DEFINE Solves(e) == e = [n \in Node |->
               IF Doc[n].kind = "tagged" THEN e[Doc[n].entries[1].val] ELSE n]
<1>7. Solves(f)
  BY <1>6
<1>8. Untagged = CHOOSE e : Solves(e)
  BY DEF Untagged
<1>9. Solves(Untagged)
  <2> HIDE DEF Solves
  <2> QED BY <1>7, <1>8
<1> DEFINE u == Untagged
<1> HIDE DEF u
<1>10. Solves(u)
  BY <1>9 DEF u
<1>11. \A n \in Node :
         u[n] = IF Doc[n].kind = "tagged" THEN u[Doc[n].entries[1].val] ELSE n
  BY <1>10
<1>12. \A n \in Node : f[n] = IF Doc[n].kind = "tagged" THEN f[Doc[n].entries[1].val] ELSE n
  BY <1>6
<1>13. \A n \in Node : u[n] = f[n]
  <2>1. ASSUME NEW n \in Node, \A m \in PartsOf[n] : u[m] = f[m] PROVE u[n] = f[n]
    BY <1>1, <1>11, <1>12, <2>1
  <2> QED BY <2>1, PartsFounded, Agree
<1>14. u = f
  BY <1>10, <1>13
<1> QED BY <1>11, <1>14 DEF u

-----------------------------------------------------------------------------
(* Values and their gaps.                                                   *)
PhpValue == Seq(Token)
Act == {fr \in Activation : fr.f = "loop" => Doc[fr.node].kind \in Tables}
Bad == {<<"garbage">>, <<"undef">>}

LEMMA FaultyConcat ==
    ASSUME NEW a \in PhpValue, NEW b \in PhpValue
    PROVE  /\ a \o b \in PhpValue
           /\ Faulty(a \o b) <=> Faulty(a) \/ Faulty(b)
<1>1. /\ a \o b \in PhpValue /\ Len(a \o b) = Len(a) + Len(b)
      /\ Len(a) \in Nat /\ Len(b) \in Nat
      /\ DOMAIN a = 1..Len(a) /\ DOMAIN b = 1..Len(b) /\ DOMAIN (a \o b) = 1..(Len(a) + Len(b))
      /\ \A i \in 1..Len(a) : (a \o b)[i] = a[i]
      /\ \A i \in 1..Len(b) : (a \o b)[Len(a) + i] = b[i]
  BY DEF PhpValue
<1>2. ASSUME NEW i \in 1..(Len(a) + Len(b)), (a \o b)[i] \in Bad
      PROVE  Faulty(a) \/ Faulty(b)
  <2>1. CASE i <= Len(a)
    BY <1>1, <1>2, <2>1 DEF Faulty, Bad
  <2>2. CASE i > Len(a)
    <3>1. i - Len(a) \in 1..Len(b) /\ i = Len(a) + (i - Len(a))
      BY <1>1, <2>2
    <3>2. b[i - Len(a)] \in Bad
      BY <1>1, <1>2, <3>1
    <3> QED BY <1>1, <3>1, <3>2 DEF Faulty, Bad
  <2> QED BY <1>1, <2>1, <2>2
<1>3. ASSUME NEW i \in 1..Len(a), a[i] \in Bad PROVE Faulty(a \o b)
  <2>1. i \in DOMAIN (a \o b) /\ (a \o b)[i] \in Bad
    BY <1>1, <1>3
  <2> QED BY <2>1 DEF Faulty, Bad
<1>4. ASSUME NEW i \in 1..Len(b), b[i] \in Bad PROVE Faulty(a \o b)
  <2>1. Len(a) + i \in DOMAIN (a \o b) /\ (a \o b)[Len(a) + i] \in Bad
    BY <1>1, <1>4
  <2> QED BY <2>1 DEF Faulty, Bad
<1> QED BY <1>1, <1>2, <1>3, <1>4 DEF Faulty, Bad

LEMMA OneToken ==
    ASSUME NEW tok \in Token
    PROVE  <<tok>> \in PhpValue /\ (Faulty(<<tok>>) <=> tok \in Bad)
<1>1. <<tok>> \in PhpValue /\ DOMAIN <<tok>> = {1} /\ <<tok>>[1] = tok
  BY DEF PhpValue
<1> QED BY <1>1 DEF Faulty, Bad

\* The tokens of this machine, and which of them are gaps.
LEMMA Tokens ==
    /\ <<"garbage">> \in Token \cap Bad /\ <<"undef">> \in Token \cap Bad
    /\ <<"null">> \in Token \ Bad /\ <<"close">> \in Token \ Bad
    /\ \A n \in Node : <<"scalar", n>> \in Token \ Bad
    /\ \A k \in STRING : <<"key", k>> \in Token \ Bad
    /\ \A k \in Tables : <<"open", k>> \in Token \ Bad
    /\ \A by \in Maker, n \in Node : <<"made", by, Untagged[n]>> \in Token \ Bad
BY UntaggedNode DEF Token, Tables, Bad

LEMMA NoTokens == <<>> \in PhpValue /\ ~Faulty(<<>>)
BY DEF PhpValue, Faulty

-----------------------------------------------------------------------------
(* Stacks.                                                                  *)
\* How activations nest: the script is at the bottom, PHP code calls
\* TypeMapper::deserialize alone, and that is called by PHP code alone.  PHP
\* code, and a call that has no value yet, has stored nothing; whatever runs
\* on top of C++ code runs for one of its entries.
Shape(s) ==
    /\ s \in Seq(Act) /\ s # <<>>
    /\ s[1].f = "user"
    /\ \A i \in 2..Len(s) : s[i].f = "call" <=> s[i - 1].f = "user"
    /\ \A i \in 1..Len(s) :
        s[i].f = "user" \/ (s[i].f = "call" /\ s[i].pc = 1) => s[i].out = <<>>
    /\ \A i \in 1..(Len(s) - 1) : s[i].f # "user" => s[i].pc <= Len(Entries(s[i]))

\* The C++ activations above all PHP code.
Inner(s) == {i \in 1..Len(s) : \A j \in i..Len(s) : s[j].f # "user"}
Gap(s, i) == Faulty(s[i].out)

\* Gaps and the pending exception.
Gaps(s, p, snd) ==
    /\ (s[Len(s)].f # "user" /\ p) => \E i \in Inner(s) : Gap(s, i)
    /\ snd => \A i \in 1..Len(s) : Gap(s, i) => p /\ i \in Inner(s)

LEMMA StackFacts ==
    ASSUME NEW s, Shape(s)
    PROVE  /\ Len(s) \in Nat /\ Len(s) >= 1 /\ DOMAIN s = 1..Len(s)
           /\ \A i \in 1..Len(s) : s[i] \in Act
BY DEF Shape

\* Entering an activation.
LEMMA PushShape ==
    ASSUME NEW s, Shape(s), NEW fr \in Act, fr.out = <<>>,
           fr.f = "call" <=> s[Len(s)].f = "user",
           s[Len(s)].f # "user" => s[Len(s)].pc <= Len(Entries(s[Len(s)]))
    PROVE  /\ Shape(Append(s, fr))
           /\ Len(Append(s, fr)) = Len(s) + 1 /\ Append(s, fr)[Len(s) + 1] = fr
           /\ \A i \in 1..Len(s) : Append(s, fr)[i] = s[i]
<1> DEFINE t == Append(s, fr)
<1>1. Len(s) \in Nat /\ Len(s) >= 1 /\ s \in Seq(Act)
  BY DEF Shape
<1>2. /\ t \in Seq(Act) /\ t # <<>> /\ Len(t) = Len(s) + 1
      /\ t[Len(s) + 1] = fr /\ \A i \in 1..Len(s) : t[i] = s[i]
  BY <1>1
<1> HIDE DEF t
<1>3. \A i \in 2..Len(t) : t[i].f = "call" <=> t[i - 1].f = "user"
  <2> SUFFICES ASSUME NEW i \in 2..Len(t) PROVE t[i].f = "call" <=> t[i - 1].f = "user"
    OBVIOUS
  <2>1. CASE i = Len(s) + 1
    BY <1>1, <1>2, <2>1
  <2>2. CASE i # Len(s) + 1
    <3>1. i \in 2..Len(s) /\ i \in 1..Len(s) /\ i - 1 \in 1..Len(s)
      BY <1>1, <1>2, <2>2
    <3> QED BY <1>2, <3>1 DEF Shape
  <2> QED BY <2>1, <2>2
<1>4. \A i \in 1..Len(t) : t[i].f = "user" \/ (t[i].f = "call" /\ t[i].pc = 1) => t[i].out = <<>>
  BY <1>1, <1>2 DEF Shape
<1>5. \A i \in 1..(Len(t) - 1) : t[i].f # "user" => t[i].pc <= Len(Entries(t[i]))
  <2> SUFFICES ASSUME NEW i \in 1..Len(s), t[i].f # "user" PROVE t[i].pc <= Len(Entries(t[i]))
    BY <1>1, <1>2
  <2>1. t[i] = s[i]
    BY <1>2
  <2>2. CASE i = Len(s)
    BY <2>1, <2>2
  <2>3. CASE i # Len(s)
    <3>1. i \in 1..(Len(s) - 1)
      BY <1>1, <2>3
    <3> QED BY <2>1, <3>1 DEF Shape
  <2> QED BY <2>2, <2>3
<1>6. t[1].f = "user"
  BY <1>1, <1>2 DEF Shape
<1> QED BY <1>2, <1>3, <1>4, <1>5, <1>6 DEF Shape, t

\* Leaving one, and unwinding to any of those below.
LEMMA CutShape ==
    ASSUME NEW s, Shape(s), NEW n \in 1..Len(s)
    PROVE  LET t == SubSeq(s, 1, n)
           IN  Shape(t) /\ Len(t) = n /\ \A i \in 1..n : t[i] = s[i]
<1> DEFINE t == SubSeq(s, 1, n)
<1>1. Len(s) \in Nat /\ Len(s) >= 1 /\ s \in Seq(Act) /\ n \in Nat /\ 1 <= n /\ n <= Len(s)
  BY DEF Shape
<1>2. t \in Seq(Act) /\ Len(t) = n /\ t # <<>> /\ \A i \in 1..n : t[i] = s[i]
  BY <1>1
<1> HIDE DEF t
<1>3. \A i \in 2..n : i \in 2..Len(s) /\ i \in 1..n /\ i - 1 \in 1..n
  BY <1>1
<1>4. \A i \in 1..(n - 1) : i \in 1..(Len(s) - 1) /\ i \in 1..n
  BY <1>1
<1>5. \A i \in 1..n : i \in 1..Len(s)
  BY <1>1
<1>6. \A i \in 2..n : t[i].f = "call" <=> t[i - 1].f = "user"
  BY <1>2, <1>3 DEF Shape
<1>7. \A i \in 1..(n - 1) : t[i].f # "user" => t[i].pc <= Len(Entries(t[i]))
  BY <1>2, <1>4 DEF Shape
<1>8. \A i \in 1..n : t[i].f = "user" \/ (t[i].f = "call" /\ t[i].pc = 1) => t[i].out = <<>>
  BY <1>2, <1>5 DEF Shape
<1>9. t[1].f = "user"
  BY <1>1, <1>2 DEF Shape
<1> QED BY <1>2, <1>6, <1>7, <1>8, <1>9 DEF Shape, t

LEMMA NextEntry ==
    ASSUME NEW fr \in Act, NEW val \in PhpValue
    PROVE  LET e == [fr EXCEPT !.pc = @ + 1, !.out = @ \o val]
           IN  /\ e \in Act /\ e.f = fr.f /\ e.pc = fr.pc + 1 /\ e.out = fr.out \o val
               /\ e.node = fr.node /\ e.by = fr.by /\ e.steady = fr.steady
<1> DEFINE pc == fr.pc + 1
           out == fr.out \o val
<1>1. fr.pc \in Nat \ {0} /\ fr.out \in PhpValue
  BY DEF Act, Activation, PhpValue
<1>2. pc \in Nat \ {0} /\ out \in PhpValue
  BY <1>1, FaultyConcat
<1>3. pc = fr.pc + 1 /\ out = fr.out \o val
  OBVIOUS
<1> HIDE DEF pc, out
<1>4. LET e == [fr EXCEPT !.pc = pc, !.out = out]
      IN  /\ e \in Act /\ e.f = fr.f /\ e.pc = pc /\ e.out = out
          /\ e.node = fr.node /\ e.by = fr.by /\ e.steady = fr.steady
  BY <1>2 DEF Act, Activation, PhpValue
<1> QED BY <1>3, <1>4

\* The running C++ activation stores a value for its entry.
LEMMA PutShape ==
    ASSUME NEW s, Shape(s), s[Len(s)].f # "user", NEW val \in PhpValue
    PROVE  LET t == Put(s, val)
           IN  /\ Shape(t) /\ Len(t) = Len(s)
               /\ \A i \in 1..Len(s) : t[i].f = s[i].f
               /\ \A i \in 1..(Len(s) - 1) : t[i] = s[i]
               /\ Gap(t, Len(s)) <=> Gap(s, Len(s)) \/ Faulty(val)
<1> DEFINE e == [s[Len(s)] EXCEPT !.pc = @ + 1, !.out = @ \o val]
           t == Put(s, val)
<1>1. Len(s) \in Nat /\ Len(s) >= 1 /\ s \in Seq(Act) /\ s[Len(s)] \in Act
  BY StackFacts DEF Shape
<1>2. s[Len(s)].out \in PhpValue /\ s[Len(s)].pc \in Nat \ {0}
  BY <1>1 DEF Act, Activation, PhpValue
<1>3. /\ e \in Act /\ e.f = s[Len(s)].f /\ e.pc = s[Len(s)].pc + 1
      /\ e.out = s[Len(s)].out \o val
  BY <1>1, NextEntry
<1>4. t = [s EXCEPT ![Len(s)] = e]
  BY DEF Put
<1>5. Faulty(e.out) <=> Faulty(s[Len(s)].out) \/ Faulty(val)
  BY <1>2, <1>3, FaultyConcat
<1> HIDE DEF e, t
<1>6. /\ t \in Seq(Act) /\ Len(t) = Len(s)
      /\ \A j \in 1..Len(s) : t[j] = IF j = Len(s) THEN e ELSE s[j]
  BY <1>1, <1>3, <1>4, ExceptSeq
<1>7. t[Len(s)] = e /\ t # <<>>
  BY <1>1, <1>6
<1>8. \A i \in 1..(Len(s) - 1) : t[i] = s[i] /\ i \in 1..Len(s)
  BY <1>1, <1>6
<1>9. \A i \in 1..Len(s) : t[i].f = s[i].f
  BY <1>3, <1>6
<1>10. \A i \in 2..Len(t) : t[i].f = "call" <=> t[i - 1].f = "user"
  <2>1. \A i \in 2..Len(s) : i \in 1..Len(s) /\ i - 1 \in 1..Len(s)
    BY <1>1
  <2> QED BY <1>6, <1>9, <2>1 DEF Shape
<1>11. \A i \in 1..Len(t) : t[i].f = "user" \/ (t[i].f = "call" /\ t[i].pc = 1) => t[i].out = <<>>
  <2> SUFFICES ASSUME NEW i \in 1..Len(s), t[i].f = "user" \/ (t[i].f = "call" /\ t[i].pc = 1)
               PROVE  t[i].out = <<>>
    BY <1>6
  <2>1. i # Len(s)
    <3>1. e.f # "user" /\ e.pc # 1
      BY <1>2, <1>3
    <3> QED BY <1>7, <3>1
  <2> QED BY <1>6, <2>1 DEF Shape
<1>12. \A i \in 1..(Len(t) - 1) : t[i].f # "user" => t[i].pc <= Len(Entries(t[i]))
  BY <1>6, <1>8 DEF Shape
<1>13. t[1].f = "user"
  BY <1>1, <1>9 DEF Shape
<1>14. Gap(t, Len(s)) <=> Gap(s, Len(s)) \/ Faulty(val)
  BY <1>5, <1>7 DEF Gap
<1> QED BY <1>6, <1>7, <1>8, <1>9, <1>10, <1>11, <1>12, <1>13, <1>14 DEF Shape, t

\* The activation that TypeMapper::deserialize unwinds to: the last one of
\* PHP code.
LEMMA LastUser ==
    ASSUME Shape(stk)
    PROVE  /\ UserLevel \in 1..Len(stk) /\ stk[UserLevel].f = "user"
           /\ \A j \in 1..Len(stk) : j > UserLevel => stk[j].f # "user"
<1> DEFINE U == {i \in 1..Len(stk) : stk[i].f = "user"}
<1>1. Len(stk) \in Nat /\ Len(stk) >= 1 /\ DOMAIN stk = 1..Len(stk)
  BY StackFacts
<1>2. U \in SUBSET (1..Len(stk)) /\ U # {}
  BY <1>1 DEF Shape
<1>3. PICK x \in U : \A y \in U : y <= x
  <2> HIDE DEF U
  <2> QED BY <1>1, <1>2, NatMax
<1>4. \A j \in DOMAIN stk : j > x => stk[j].f # "user"
  BY <1>1, <1>3
<1>5. \E i \in DOMAIN stk : /\ stk[i].f = "user"
                            /\ \A j \in DOMAIN stk : j > i => stk[j].f # "user"
  BY <1>1, <1>3, <1>4
<1> QED BY <1>1, <1>5 DEF UserLevel

-----------------------------------------------------------------------------
(* Gaps on stacks.                                                          *)
\* A stack that PHP code is on top of has no gap, if no silent callback is
\* there to leave one.
LEMMA NoInner ==
    ASSUME NEW s, Shape(s), NEW p, NEW snd, Gaps(s, p, snd), snd,
           s[Len(s)].f = "user" \/ ~p
    PROVE  \A i \in 1..Len(s) : ~Gap(s, i)
<1>1. Len(s) \in Nat /\ Len(s) >= 1
  BY StackFacts
<1>2. s[Len(s)].f = "user" => \A i \in 1..Len(s) : i \notin Inner(s)
  BY <1>1 DEF Inner
<1> QED BY <1>2 DEF Gaps

\* Entering an activation leaves the gaps as they are; PHP code is entered
\* only while no exception is pending.
LEMMA PushGaps ==
    ASSUME NEW s, Shape(s), NEW p, NEW snd, Gaps(s, p, snd),
           NEW fr \in Act, fr.out = <<>>,
           fr.f = "call" <=> s[Len(s)].f = "user",
           s[Len(s)].f # "user" => s[Len(s)].pc <= Len(Entries(s[Len(s)])),
           ~p \/ fr.f = "loop"
    PROVE  Gaps(Append(s, fr), p, snd)
<1> DEFINE t == Append(s, fr)
<1>1. Len(s) \in Nat /\ Len(s) >= 1
  BY StackFacts
<1>2. /\ Len(t) = Len(s) + 1 /\ t[Len(s) + 1] = fr
      /\ \A i \in 1..Len(s) : t[i] = s[i]
  BY PushShape
<1> SUFFICES Gaps(t, p, snd)
  OBVIOUS
<1> HIDE DEF t
<1>3. ~Gap(t, Len(s) + 1)
  BY <1>2, NoTokens DEF Gap
<1>4. \A i \in 1..Len(s) : Gap(t, i) <=> Gap(s, i)
  BY <1>2 DEF Gap
<1>5. \A i \in 1..Len(t) : i \in 1..Len(s) \/ i = Len(s) + 1
  BY <1>1, <1>2
<1>6. CASE ~p
  <2>1. snd => \A i \in 1..Len(s) : ~Gap(s, i)
    BY <1>6, NoInner
  <2>2. snd => \A i \in 1..Len(t) : ~Gap(t, i)
    BY <1>3, <1>4, <1>5, <2>1
  <2> QED BY <1>6, <2>2 DEF Gaps
<1>7. CASE fr.f = "loop"
  <2>1. s[Len(s)].f # "user"
    BY <1>7
  <2>2. \A i \in 1..Len(s) : i \in Inner(s) => i \in Inner(t)
    <3> SUFFICES ASSUME NEW i \in Inner(s), NEW j \in i..Len(t) PROVE t[j].f # "user"
      BY <1>1, <1>2 DEF Inner
    <3>1. CASE j = Len(s) + 1
      BY <1>2, <1>7, <3>1
    <3>2. CASE j # Len(s) + 1
      <4>1. j \in i..Len(s) /\ j \in 1..Len(s)
        BY <1>1, <1>2, <3>2 DEF Inner
      <4> QED BY <1>2, <4>1 DEF Inner
    <3> QED BY <3>1, <3>2
  <2>3. Inner(s) \subseteq 1..Len(s)
    BY DEF Inner
  <2>4. p => \E i \in Inner(t) : Gap(t, i)
    <3>1. p => \E i \in Inner(s) : Gap(s, i)
      BY <2>1 DEF Gaps
    <3> QED BY <1>4, <2>2, <2>3, <3>1
  <2>5. snd => \A i \in 1..Len(t) : Gap(t, i) => p /\ i \in Inner(t)
    <3>1. snd => \A i \in 1..Len(s) : Gap(s, i) => p /\ i \in Inner(s)
      BY DEF Gaps
    <3> QED BY <1>3, <1>4, <1>5, <2>2, <3>1
  <2> QED BY <2>4, <2>5 DEF Gaps
<1> QED BY <1>6, <1>7

\* Storing a value.  p: an exception is pending then.
LEMMA PutGaps ==
    ASSUME NEW s, Shape(s), s[Len(s)].f # "user", NEW p, NEW snd, NEW val \in PhpValue,
           snd => \A i \in 1..Len(s) : Gap(s, i) => p /\ i \in Inner(s),
           p => Faulty(val) \/ \E i \in Inner(s) : Gap(s, i),
           snd /\ Faulty(val) => p
    PROVE  Shape(Put(s, val)) /\ Gaps(Put(s, val), p, snd)
<1> DEFINE t == Put(s, val)
<1>1. Len(s) \in Nat /\ Len(s) >= 1
  BY StackFacts
<1>2. /\ Shape(t) /\ Len(t) = Len(s)
      /\ \A i \in 1..Len(s) : t[i].f = s[i].f
      /\ \A i \in 1..(Len(s) - 1) : t[i] = s[i]
      /\ Gap(t, Len(s)) <=> Gap(s, Len(s)) \/ Faulty(val)
  BY PutShape
<1> HIDE DEF t
<1>3. Inner(t) = Inner(s)
  <2>1. \A i \in 1..Len(s) : \A j \in i..Len(s) : j \in 1..Len(s)
    BY <1>1
  <2> QED BY <1>2, <2>1 DEF Inner
<1>4. Len(s) \in Inner(s)
  BY <1>1 DEF Inner
<1>5. \A i \in 1..Len(s) : i = Len(s) \/ i \in 1..(Len(s) - 1)
  BY <1>1
<1>6. \A i \in 1..(Len(s) - 1) : Gap(t, i) <=> Gap(s, i)
  BY <1>2 DEF Gap
<1>7. p => \E i \in Inner(t) : Gap(t, i)
  <2> SUFFICES ASSUME p PROVE \E i \in Inner(t) : Gap(t, i)
    OBVIOUS
  <2>1. CASE Faulty(val)
    BY <1>2, <1>3, <1>4, <2>1
  <2>2. CASE \E i \in Inner(s) : Gap(s, i)
    <3>1. PICK i \in Inner(s) : Gap(s, i)
      BY <2>2
    <3>2. i \in 1..Len(s)
      BY DEF Inner
    <3> QED BY <1>2, <1>3, <1>5, <1>6, <3>1, <3>2
  <2> QED BY <2>1, <2>2
<1>8. snd => \A i \in 1..Len(t) : Gap(t, i) => p /\ i \in Inner(t)
  BY <1>2, <1>3, <1>4, <1>5, <1>6
<1> QED BY <1>2, <1>7, <1>8 DEF Gaps, t

-----------------------------------------------------------------------------
(* Every step keeps the gaps behind the pending exception.                  *)
\* What the steps read of the registry.
RegOK ==
    /\ classOf \in [Tag -> Maybe(Class)] /\ des \in [Tag -> Maybe(Callback)]
    /\ sound => \A t \in Tag : des[t] # None => des[t][1] \in Callable

LoopGap(s) == \E i \in Inner(s) : s[i].f = "loop" /\ Gap(s, i)

Stacks ==
    /\ pend \in BOOLEAN /\ sound \in BOOLEAN
    /\ Shape(stk) /\ Gaps(stk, pend, sound)
    /\ fatal => LoopGap(stk)
    /\ NoGapDelivered

\* The entry a C++ activation is at, and the key stored with its value.
LEMMA EntryFacts ==
    ASSUME NEW fr \in Act, fr.f # "user", fr.pc <= Len(Entries(fr))
    PROVE  /\ Entries(fr)[fr.pc].val \in Node
           /\ KeyPart(fr) \in PhpValue /\ ~Faulty(KeyPart(fr))
           /\ fr.f = "call" => fr.pc = 1
<1>1. fr.pc \in Nat \ {0} /\ fr.node \in Node /\ fr.f \in {"call", "loop"}
  BY DEF Act, Activation, PhpValue
<1>2. CASE fr.f = "call"
  <2>1. Entries(fr) = << [key |-> "", val |-> fr.node] >> /\ KeyPart(fr) = <<>>
    BY <1>2 DEF Entries, KeyPart
  <2> DEFINE e == [key |-> "", val |-> fr.node]
  <2>2. Entries(fr) = << e >> /\ e.val = fr.node
    BY <2>1
  <2> HIDE DEF e
  <2>3. fr.pc = 1 /\ Entries(fr)[1] = e
    BY <1>1, <2>2
  <2> QED BY <1>1, <2>1, <2>2, <2>3, NoTokens
<1>3. CASE fr.f = "loop"
  <2> DEFINE d == Doc[fr.node].entries
  <2>1. Entries(fr) = d
    BY <1>3 DEF Entries
  <2>2. d \in Seq([key : STRING, val : Node])
    BY <1>1, DocAssumption
  <2>3. fr.pc \in 1..Len(d)
    <3>1. Len(d) \in Nat
      BY <2>2
    <3> QED BY <1>1, <2>1, <3>1
  <2> HIDE DEF d
  <2>4. d[fr.pc] \in [key : STRING, val : Node]
    BY <2>2, <2>3, ElementOfSeq
  <2>5. d[fr.pc].key \in STRING /\ d[fr.pc].val \in Node
    BY <2>4
  <2>6. KeyPart(fr) = << <<"key", d[fr.pc].key>> >> \/ KeyPart(fr) = <<>>
    BY <2>1 DEF KeyPart
  <2>7. <<"key", d[fr.pc].key>> \in Token \ Bad
    BY <2>5, Tokens
  <2> QED BY <1>3, <2>1, <2>5, <2>6, <2>7, OneToken, NoTokens
<1> QED BY <1>1, <1>2, <1>3

\* The same, of the running activation.
LEMMA AtEntry ==
    ASSUME Stacks, Deserializing
    PROVE  /\ Top \in Act /\ Top = stk[Len(stk)] /\ Top.f # "user"
           /\ Top.pc <= Len(Entries(Top))
           /\ This \in Node
           /\ KeyPart(Top) \in PhpValue /\ ~Faulty(KeyPart(Top))
           /\ ~fatal
<1>1. Top \in Act /\ Top = stk[Len(stk)]
  BY StackFacts DEF Stacks, Top
<1> QED BY <1>1, EntryFacts DEF Deserializing, This

\* A value stored by the running activation, p being pending then.
LEMMA ValueStacks ==
    ASSUME Stacks, Deserializing, NEW val \in PhpValue, Value(val),
           pend' \in BOOLEAN, pend => pend',
           pend' /\ ~pend => Faulty(val), sound /\ Faulty(val) => pend',
           UNCHANGED <<sound, fatal, ret>>
    PROVE  Stacks'
<1> DEFINE v == KeyPart(Top) \o val
<1>1. v \in PhpValue /\ (Faulty(v) <=> Faulty(val))
  BY AtEntry, FaultyConcat
<1>2. stk' = Put(stk, v)
  BY DEF Value
<1> HIDE DEF v
<1>3. stk[Len(stk)].f # "user"
  BY AtEntry
<1>4. sound => \A i \in 1..Len(stk) : Gap(stk, i) => pend' /\ i \in Inner(stk)
  BY DEF Stacks, Gaps
<1>5. pend' => Faulty(v) \/ \E i \in Inner(stk) : Gap(stk, i)
  BY <1>1, <1>3 DEF Stacks, Gaps
<1>6. Shape(stk') /\ Gaps(stk', pend', sound)
  BY <1>1, <1>2, <1>3, <1>4, <1>5, PutGaps DEF Stacks
<1>7. ~fatal
  BY AtEntry
<1>8. NoGapDelivered'
  BY DEF Stacks, NoGapDelivered
<1> QED BY <1>6, <1>7, <1>8 DEF Stacks

\* A value stored by the activation below the one that ends.
LEMMA ResumeStacks ==
    ASSUME Stacks, ~fatal, Len(stk) > 1, Top.f # "call", NEW val \in PhpValue, Resume(val),
           Top.f = "user" => (pend <=> Faulty(val)),
           Top.f = "loop" => (Gap(stk, Len(stk)) <=> Faulty(val)),
           UNCHANGED <<pend, sound, fatal, ret>>
    PROVE  Stacks'
<1> DEFINE n == Len(stk)
           b == Below(stk)
           fr == stk[n - 1]
           v == KeyPart(fr) \o val
<1>1. n \in Nat /\ n > 1 /\ n - 1 \in 1..n /\ n \in 2..n /\ n - 1 \in 1..(n - 1)
  BY StackFacts DEF Stacks
<1>2. Shape(b) /\ Len(b) = n - 1 /\ \A i \in 1..(n - 1) : b[i] = stk[i]
  BY <1>1, CutShape DEF Stacks, Below
<1>3. fr \in Act /\ stk[n] \in Act /\ Top = stk[n]
  BY <1>1, StackFacts DEF Stacks, Top
<1>4. fr.f # "user" /\ fr.pc <= Len(Entries(fr))
  BY <1>1, <1>3 DEF Stacks, Shape
<1>5. v \in PhpValue /\ (Faulty(v) <=> Faulty(val))
  BY <1>3, <1>4, EntryFacts, FaultyConcat
<1>6. stk' = Put(b, v)
  BY DEF Resume
<1>7. b[Len(b)].f # "user"
  BY <1>1, <1>2, <1>4
<1> HIDE DEF n, b, fr, v
<1>8. \A i \in 1..(n - 1) : Gap(b, i) <=> Gap(stk, i)
  BY <1>2 DEF Gap
<1>9. CASE Top.f = "user"
  <2>1. sound => \A i \in 1..Len(b) : ~Gap(b, i)
    <3>1. sound => \A i \in 1..n : ~Gap(stk, i)
      BY <1>3, <1>9, NoInner DEF Stacks, n
    <3>2. \A i \in 1..(n - 1) : i \in 1..n
      BY <1>1
    <3> QED BY <1>2, <1>8, <3>1, <3>2
  <2> QED BY <1>2, <1>5, <1>6, <1>7, <1>9, <2>1, PutGaps DEF Stacks, NoGapDelivered
<1>10. CASE Top.f = "loop"
  <2>1. \A i \in Inner(stk) : i = n \/ (i \in 1..(n - 1) /\ i \in Inner(b))
    <3> SUFFICES ASSUME NEW i \in Inner(stk), i # n PROVE i \in 1..(n - 1) /\ i \in Inner(b)
      OBVIOUS
    <3>1. i \in 1..(n - 1) /\ \A j \in i..n : stk[j].f # "user"
      BY <1>1 DEF Inner, n
    <3>2. \A j \in i..(n - 1) : j \in i..n /\ j \in 1..(n - 1)
      BY <1>1, <3>1
    <3> QED BY <1>2, <3>1, <3>2 DEF Inner
  <2>2. sound => \A i \in 1..Len(b) : Gap(b, i) => pend /\ i \in Inner(b)
    <3>1. \A i \in 1..(n - 1) : i \in 1..n /\ i # n
      BY <1>1
    <3> QED BY <1>2, <1>8, <2>1, <3>1 DEF Stacks, Gaps, n
  <2>3. pend => Faulty(v) \/ \E i \in Inner(b) : Gap(b, i)
    <3>1. pend => \E i \in Inner(stk) : Gap(stk, i)
      BY <1>3, <1>10 DEF Stacks, Gaps, n
    <3> QED BY <1>5, <1>8, <1>10, <2>1, <3>1 DEF n
  <2>4. sound /\ Faulty(v) => pend
    <3>1. n \in 1..n
      BY <1>1
    <3> QED BY <1>5, <1>10, <3>1 DEF Stacks, Gaps, n
  <2> QED BY <1>2, <1>5, <1>6, <1>7, <2>2, <2>3, <2>4, PutGaps DEF Stacks, NoGapDelivered
<1>11. Top.f \in {"user", "loop"}
  BY <1>3 DEF Act, Activation, PhpValue
<1> QED BY <1>9, <1>10, <1>11

\* An activation entered: by PHP code, or for a value of C++ code.
LEMMA PushStacks ==
    ASSUME Stacks, ~fatal, NEW fr \in Act, Push(fr), fr.out = <<>>,
           fr.f = "call" <=> Top.f = "user",
           Top.f # "user" => Top.pc <= Len(Entries(Top)),
           ~pend \/ fr.f = "loop",
           UNCHANGED <<pend, sound, fatal, ret>>
    PROVE  Stacks'
<1>1. stk' = Append(stk, fr) /\ Top = stk[Len(stk)]
  BY DEF Push, Top
<1>2. Shape(stk') /\ Gaps(stk', pend, sound)
  BY <1>1, PushShape, PushGaps DEF Stacks
<1> QED BY <1>2 DEF Stacks, NoGapDelivered

LEMMA Frames ==
    ASSUME NEW n \in Node
    PROVE  /\ \A f \in {"call", "loop"} :
                /\ f = "call" \/ Doc[n].kind \in Tables => Frame(f, n, None) \in Act
                /\ Frame(f, n, None).f = f /\ Frame(f, n, None).out = <<>>
           /\ \A by \in Maker :
                /\ Frame("user", n, by) \in Act /\ Frame("user", n, by).f = "user"
                /\ Frame("user", n, by).out = <<>>
BY NoTokens DEF Frame, Act, Activation, PhpValue, Maker

LEMMA CallStacks ==
    ASSUME Stacks, NEW n \in Given, Call(n) PROVE Stacks'
<1>1. n \in Node
  BY DocAssumption
<1> QED BY <1>1, Frames, PushStacks DEF Call, Work, Running

LEMMA DescendStacks ==
    ASSUME Stacks, Descend PROVE Stacks'
<1>1. /\ Deserializing /\ Push(Frame("loop", This, None)) /\ Doc[This].kind \in Tables
      /\ UNCHANGED <<pend, fatal, ret, sound>>
  BY DEF Descend
<1> QED BY <1>1, AtEntry, Frames, PushStacks

\* A callback run, or the end of the request: an exception is pending then,
\* so a table has a gap, and no call in progress has a value yet.
LEMMA RunStacks ==
    ASSUME Stacks, Deserializing, NEW by \in Maker, RunCallback(by),
           UNCHANGED <<pend, sound, ret>>
    PROVE  Stacks'
<1>1. CASE ~pend
  BY <1>1, AtEntry, Frames, PushStacks DEF RunCallback
<1>2. CASE pend
  <2>1. stk' = stk
    BY <1>2 DEF RunCallback
  <2>2. PICK i \in Inner(stk) : Gap(stk, i)
    BY <1>2, AtEntry DEF Stacks, Gaps
  <2>3. i \in 1..Len(stk) /\ Len(stk) \in Nat /\ stk[i] \in Act /\ i \in i..Len(stk)
    BY StackFacts DEF Stacks, Inner
  <2>4. stk[i].f # "user"
    BY <2>2, <2>3 DEF Inner
  <2>5. stk[i].pc <= Len(Entries(stk[i]))
    <3>1. CASE i = Len(stk)
      BY <3>1, AtEntry
    <3>2. CASE i # Len(stk)
      <4>1. i \in 1..(Len(stk) - 1)
        BY <2>3, <3>2
      <4> QED BY <2>4, <4>1 DEF Stacks, Shape
    <3> QED BY <3>1, <3>2
  <2>6. stk[i].f # "call"
    <3>1. SUFFICES ASSUME stk[i].f = "call" PROVE FALSE
      OBVIOUS
    <3>2. stk[i].pc = 1
      BY <2>3, <2>4, <2>5, <3>1, EntryFacts
    <3>3. stk[i].out = <<>>
      BY <2>3, <3>1, <3>2 DEF Stacks, Shape
    <3> QED BY <2>2, <3>3, NoTokens DEF Gap
  <2>7. stk[i].f = "loop"
    BY <2>3, <2>4, <2>6 DEF Act, Activation, PhpValue
  <2>8. LoopGap(stk)
    BY <2>2, <2>7 DEF LoopGap
  <2> QED BY <2>1, <2>8 DEF Stacks, NoGapDelivered
<1> QED BY <1>1, <1>2

\* The values that C++ code assigns.
LEMMA Values ==
    /\ Null \in PhpValue /\ ~Faulty(Null)
    /\ Undef \in PhpValue /\ Faulty(Undef)
    /\ Garbage \in PhpValue /\ Faulty(Garbage)
    /\ \A n \in Node : << <<"scalar", n>> >> \in PhpValue /\ ~Faulty(<< <<"scalar", n>> >>)
    /\ \A by \in Maker, n \in Node : Made(by, n) \in PhpValue /\ ~Faulty(Made(by, n))
BY Tokens, OneToken DEF Null, Undef, Garbage, Made

LEMMA PlainStacks ==
    ASSUME Stacks, Plain PROVE Stacks'
<1>1. Deserializing /\ UNCHANGED <<pend, fatal, ret, sound>> /\ This \in Node
  BY AtEntry DEF Plain
<1>2. \E val \in PhpValue : Value(val) /\ ~Faulty(val)
  BY <1>1, Values DEF Plain
<1> QED BY <1>1, <1>2, ValueStacks DEF Stacks

\* The makers the registry names.
LEMMA Makers ==
    ASSUME RegOK, NEW t \in Tag
    PROVE  /\ des[t] # None => <<"call", des[t][1]>> \in Maker
           /\ classOf[t] # None => <<"from", classOf[t][1]>> \in Maker
           /\ des[t] # None /\ sound => des[t][1] \in Callable
BY DEF RegOK, Maybe, Maker, None

LEMMA ByDeserializerStacks ==
    ASSUME RegOK, Stacks, ByDeserializer PROVE Stacks'
<1>1. /\ Deserializing /\ des[Doc[This].tag] # None /\ Doc[This].tag \in Tag
      /\ UNCHANGED <<pend, ret, sound>>
  BY AtEntry, DocAssumption DEF ByDeserializer
<1> DEFINE f == des[Doc[This].tag][1]
<1>2. <<"call", f>> \in Maker /\ (sound => f \in Callable)
  BY <1>1, Makers
<1>3. \/ RunCallback(<<"call", f>>)
      \/ ~pend /\ f \notin Callable /\ Value(Undef) /\ UNCHANGED fatal
  BY DEF ByDeserializer
<1> HIDE DEF f
<1>4. CASE RunCallback(<<"call", f>>)
  BY <1>1, <1>2, <1>4, RunStacks
<1>5. CASE ~pend /\ f \notin Callable /\ Value(Undef) /\ UNCHANGED fatal
  BY <1>1, <1>2, <1>5, Values, ValueStacks DEF Stacks
<1> QED BY <1>3, <1>4, <1>5

LEMMA ByClassStacks ==
    ASSUME RegOK, Stacks, ByClass PROVE Stacks'
<1>1. /\ Deserializing /\ classOf[Doc[This].tag] # None /\ Doc[This].tag \in Tag
      /\ UNCHANGED <<ret, sound>>
  BY AtEntry, DocAssumption DEF ByClass
<1> DEFINE c == classOf[Doc[This].tag][1]
<1>2. <<"from", c>> \in Maker
  BY <1>1, Makers
<1>3. \/ RunCallback(<<"from", c>>) /\ UNCHANGED pend
      \/ Value(Garbage) /\ pend' = TRUE /\ UNCHANGED fatal
  BY DEF ByClass
<1> HIDE DEF c
<1>4. CASE RunCallback(<<"from", c>>) /\ UNCHANGED pend
  BY <1>1, <1>2, <1>4, RunStacks
<1>5. CASE Value(Garbage) /\ pend' = TRUE /\ UNCHANGED fatal
  BY <1>1, <1>5, Values, ValueStacks DEF Stacks
<1> QED BY <1>3, <1>4, <1>5

\* A step of PHP code that leaves the stack: p, snd afterwards.
LEMMA UserStacks ==
    ASSUME Stacks, ~fatal, Top.f = "user",
           Shape(stk'), Len(stk') = Len(stk),
           \A i \in 1..Len(stk) : stk'[i].f = stk[i].f /\ stk'[i].out = stk[i].out,
           pend' \in BOOLEAN, sound' \in BOOLEAN, sound' => sound, UNCHANGED <<fatal, ret>>
    PROVE  Stacks'
<1>1. Len(stk) \in Nat /\ Len(stk) >= 1 /\ Top = stk[Len(stk)]
  BY StackFacts DEF Stacks, Top
<1>2. sound => \A i \in 1..Len(stk) : ~Gap(stk, i)
  BY <1>1, NoInner DEF Stacks
<1>3. \A i \in 1..Len(stk) : Gap(stk', i) <=> Gap(stk, i)
  BY DEF Gap
<1>4. stk'[Len(stk')].f = "user"
  BY <1>1
<1>5. Gaps(stk', pend', sound')
  BY <1>2, <1>3, <1>4 DEF Gaps
<1> QED BY <1>5 DEF Stacks, NoGapDelivered

LEMMA RegisterStacks ==
    ASSUME Stacks, Work, Unsteady, pend' \in BOOLEAN, sound' \in BOOLEAN, sound' => sound,
           UNCHANGED <<fatal, ret>>
    PROVE  Stacks'
<1> DEFINE G(fr) == [fr EXCEPT !.steady = FALSE]
<1>1. /\ Len(stk) \in Nat /\ Len(stk) >= 1 /\ DOMAIN stk = 1..Len(stk)
      /\ \A i \in 1..Len(stk) : stk[i] \in Act
  BY StackFacts DEF Stacks
<1>2. \A fr \in Act : /\ G(fr) \in Act /\ G(fr).f = fr.f /\ G(fr).node = fr.node
                      /\ G(fr).pc = fr.pc /\ G(fr).out = fr.out
  BY DEF Act, Activation, PhpValue
<1>3. stk' = [i \in 1..Len(stk) |-> G(stk[i])]
  BY <1>1 DEF Unsteady
<1> HIDE DEF G
<1>4. stk' \in Seq(Act) /\ Len(stk') = Len(stk)
  <2>1. \A i \in 1..Len(stk) : G(stk[i]) \in Act
    BY <1>1, <1>2
  <2> QED BY <1>1, <1>3, <2>1
<1>5. \A i \in 1..Len(stk) :
        /\ stk'[i].f = stk[i].f /\ stk'[i].node = stk[i].node
        /\ stk'[i].pc = stk[i].pc /\ stk'[i].out = stk[i].out
  BY <1>1, <1>2, <1>3
<1>6. \A i \in 1..Len(stk) : Entries(stk'[i]) = Entries(stk[i])
  BY <1>5 DEF Entries
<1>7. Shape(stk')
  <2>1. stk' # <<>> /\ stk'[1].f = "user"
    BY <1>1, <1>4, <1>5 DEF Stacks, Shape
  <2>2. \A i \in 2..Len(stk) : stk'[i].f = "call" <=> stk'[i - 1].f = "user"
    <3>1. \A i \in 2..Len(stk) : i \in 1..Len(stk) /\ i - 1 \in 1..Len(stk)
      BY <1>1
    <3> QED BY <1>5, <3>1 DEF Stacks, Shape
  <2>3. \A i \in 1..Len(stk) :
          stk'[i].f = "user" \/ (stk'[i].f = "call" /\ stk'[i].pc = 1) => stk'[i].out = <<>>
    BY <1>5 DEF Stacks, Shape
  <2>4. \A i \in 1..(Len(stk) - 1) : stk'[i].f # "user" => stk'[i].pc <= Len(Entries(stk'[i]))
    <3>1. \A i \in 1..(Len(stk) - 1) : i \in 1..Len(stk)
      BY <1>1
    <3> QED BY <1>5, <1>6, <3>1 DEF Stacks, Shape
  <2> QED BY <1>4, <2>1, <2>2, <2>3, <2>4 DEF Shape
<1> QED BY <1>4, <1>5, <1>7, UserStacks DEF Work, Running

\* throw and catch.
LEMMA ThrowCatchStacks ==
    ASSUME Stacks, Throw \/ Catch PROVE Stacks'
<1>1. /\ ~fatal /\ Top.f = "user" /\ pend' \in BOOLEAN
      /\ UNCHANGED <<stk, sound, fatal, ret>>
  BY DEF Throw, Catch, Work, Running
<1> QED BY <1>1, UserStacks DEF Stacks

LEMMA CallbackStacks ==
    ASSUME Stacks, CallbackReturn \/ CallbackFails PROVE Stacks'
<1>1. /\ ~fatal /\ Top.f = "user" /\ Len(stk) > 1
      /\ UNCHANGED <<pend, sound, fatal, ret>>
  BY DEF CallbackReturn, CallbackFails, InCallback
<1>2. Top.by \in Maker /\ Top.node \in Node
  BY StackFacts DEF Stacks, Top, Act, Activation, PhpValue
<1>3. CASE CallbackReturn
  BY <1>1, <1>2, <1>3, Values, ResumeStacks DEF CallbackReturn
<1>4. CASE CallbackFails
  BY <1>1, <1>4, Values, ResumeStacks DEF CallbackFails, InCallback
<1> QED BY <1>3, <1>4

LEMMA LoopEndStacks ==
    ASSUME Stacks, LoopEnd PROVE Stacks'
<1>1. /\ ~fatal /\ Top.f = "loop" /\ Resume(Table(Top.node, Top.out))
      /\ UNCHANGED <<pend, sound, fatal, ret>>
  BY DEF LoopEnd
<1>2. Len(stk) \in Nat /\ Len(stk) >= 1 /\ Top = stk[Len(stk)] /\ Top \in Act
  BY StackFacts DEF Stacks, Top
<1>3. Len(stk) > 1
  <2>1. stk[1].f = "user"
    BY DEF Stacks, Shape
  <2> QED BY <1>1, <1>2, <2>1
<1>4. Top.node \in Node /\ Top.out \in PhpValue /\ Doc[Top.node].kind \in Tables
  BY <1>1, <1>2 DEF Act, Activation, PhpValue
<1> DEFINE a == << <<"open", Doc[Top.node].kind>> >>
           b == a \o Top.out
           z == << <<"close">> >>
<1>5. a \in PhpValue /\ ~Faulty(a) /\ z \in PhpValue /\ ~Faulty(z)
  BY <1>4, Tokens, OneToken
<1>6. Table(Top.node, Top.out) = b \o z
  BY DEF Table
<1> HIDE DEF a, z
<1>7. b \in PhpValue /\ (Faulty(b) <=> Faulty(Top.out))
  BY <1>4, <1>5, FaultyConcat
<1> HIDE DEF b
<1>8. b \o z \in PhpValue /\ (Faulty(b \o z) <=> Gap(stk, Len(stk)))
  BY <1>2, <1>5, <1>7, FaultyConcat DEF Gap
<1> QED BY <1>1, <1>3, <1>6, <1>8, ResumeStacks

\* PHP code is left with no gap: those there are lie in the activations that
\* are unwound.
LEMMA UnwindStacks ==
    ASSUME Stacks, ~fatal, NEW n \in 1..(Len(stk) - 1), stk[n].f = "user",
           \A j \in 1..Len(stk) : j > n => stk[j].f # "user",
           stk' = SubSeq(stk, 1, n), pend' \in BOOLEAN, UNCHANGED <<sound, fatal>>,
           NoGapDelivered'
    PROVE  Stacks'
<1>1. Len(stk) \in Nat /\ Len(stk) >= 1 /\ n \in 1..Len(stk)
  BY StackFacts DEF Stacks
<1>2. Shape(stk') /\ Len(stk') = n /\ \A i \in 1..n : stk'[i] = stk[i]
  BY <1>1, CutShape DEF Stacks
<1>3. \A i \in 1..n : i \in 1..Len(stk) /\ n \in i..Len(stk)
  BY <1>1
<1>4. \A i \in 1..n : i \notin Inner(stk)
  BY <1>3 DEF Inner
<1>5. sound => \A i \in 1..n : ~Gap(stk, i)
  BY <1>3, <1>4 DEF Stacks, Gaps
<1>6. sound => \A i \in 1..n : ~Gap(stk', i)
  BY <1>2, <1>5 DEF Gap
<1>7. stk'[Len(stk')].f = "user"
  BY <1>1, <1>2
<1>8. Gaps(stk', pend', sound)
  BY <1>2, <1>6, <1>7 DEF Gaps
<1> QED BY <1>2, <1>8 DEF Stacks

LEMMA CallReturnStacks ==
    ASSUME Stacks, CallReturn PROVE Stacks'
<1>1. /\ ~fatal /\ Top.f = "call" /\ stk' = Below(stk)
      /\ ret' = [node |-> <<Top.node>>, val |-> Top.out, ok |-> ~pend, steady |-> Top.steady]
      /\ UNCHANGED <<pend, sound, fatal>>
  BY DEF CallReturn
<1>2. Len(stk) \in Nat /\ Len(stk) >= 1 /\ Top = stk[Len(stk)]
  BY StackFacts DEF Stacks, Top
<1>3. Len(stk) \in 2..Len(stk) /\ Len(stk) - 1 \in 1..(Len(stk) - 1)
  <2>1. stk[1].f = "user"
    BY DEF Stacks, Shape
  <2>2. Len(stk) # 1
    BY <1>1, <1>2, <2>1
  <2> QED BY <1>2, <2>2
<1>4. stk[Len(stk) - 1].f = "user"
  BY <1>1, <1>2, <1>3 DEF Stacks, Shape
<1>5. \A j \in 1..Len(stk) : j > Len(stk) - 1 => stk[j].f # "user"
  BY <1>1, <1>2
<1>6. NoGapDelivered'
  <2>1. ret'.ok = ~pend /\ ret'.val = Top.out
    BY <1>1
  <2>2. sound /\ Gap(stk, Len(stk)) => pend
    BY <1>3 DEF Stacks, Gaps
  <2> QED BY <1>1, <1>2, <2>1, <2>2 DEF NoGapDelivered, Gap
<1> QED BY <1>1, <1>3, <1>4, <1>5, <1>6, UnwindStacks DEF Below, Stacks

LEMMA GetIntThrowsStacks ==
    ASSUME Stacks, GetIntThrows PROVE Stacks'
<1>1. /\ Deserializing /\ stk' = SubSeq(stk, 1, UserLevel) /\ pend' = TRUE
      /\ ret' = [NoAnswer EXCEPT !.node = <<stk[UserLevel + 1].node>>]
      /\ UNCHANGED <<sound, fatal>>
  BY DEF GetIntThrows
<1>2. /\ UserLevel \in 1..Len(stk) /\ stk[UserLevel].f = "user"
      /\ \A j \in 1..Len(stk) : j > UserLevel => stk[j].f # "user"
  BY LastUser DEF Stacks
<1>3. UserLevel \in 1..(Len(stk) - 1)
  <2>1. UserLevel # Len(stk)
    BY <1>1, <1>2, AtEntry
  <2> QED BY <1>2, <2>1, StackFacts DEF Stacks
<1>4. ret'.ok = FALSE
  BY <1>1 DEF NoAnswer
<1>5. NoGapDelivered'
  BY <1>4 DEF NoGapDelivered
<1> QED BY <1>1, <1>2, <1>3, <1>5, AtEntry, UnwindStacks

\* As long as no callback that cannot be called was registered, there is none
\* among the deserializers.
LEMMA RegistryStep ==
    ASSUME RegOK, [Next]_vars
    PROVE  RegOK'
<1>1. CASE \E t \in Tag, c \in Class : RegisterMapping(t, c)
  <2>1. PICK t \in Tag, c \in Class : RegisterMapping(t, c)
    BY <1>1
  <2>2. classOf' = [classOf EXCEPT ![t] = <<c>>] /\ UNCHANGED <<des, sound>>
    BY <2>1 DEF RegisterMapping
  <2> QED BY <2>2, MaybeOne DEF RegOK
<1>2. CASE \E t \in Tag, f \in Callback : RegisterSerializer(t, f)
  <2>1. UNCHANGED <<classOf, des>> /\ (sound' => sound)
    BY <1>2 DEF RegisterSerializer, Checked
  <2> QED BY <2>1 DEF RegOK
<1>3. CASE \E t \in Tag, f \in Callback : RegisterDeserializer(t, f)
  <2>1. PICK t \in Tag, f \in Callback : RegisterDeserializer(t, f)
    BY <1>3
  <2>2. /\ des' = [des EXCEPT ![t] = <<f>>] /\ UNCHANGED classOf
        /\ sound' => sound /\ f \in Callable
    BY <2>1 DEF RegisterDeserializer, Checked, Stored
  <2>3. des' \in [Tag -> Maybe(Callback)]
    BY <2>2, MaybeOne DEF RegOK
  <2>4. ASSUME sound', NEW u \in Tag, des'[u] # None PROVE des'[u][1] \in Callable
    <3>1. CASE u = t
      BY <2>2, <2>4, <3>1, MaybeOne DEF RegOK
    <3>2. CASE u # t
      BY <2>2, <2>4, <3>2 DEF RegOK
    <3> QED BY <3>1, <3>2
  <2> QED BY <2>2, <2>3, <2>4 DEF RegOK
<1>4. CASE ~Register
  <2>1. UNCHANGED <<classOf, des, sound>>
    BY <1>4 DEF Next, Php, Cpp, Call, Throw, Catch, CallbackReturn, CallbackFails, Plain,
       GetIntThrows, Descend, ByDeserializer, ByClass, LoopEnd, CallReturn, Stop, vars, registry
  <2> QED BY <2>1 DEF RegOK
<1> QED BY <1>1, <1>2, <1>3, <1>4 DEF Register

LEMMA StacksStep ==
    ASSUME RegOK, Stacks, [Next]_vars
    PROVE  Stacks'
<1>1. CASE Register
  <2>1. CASE \E t \in Tag, c \in Class : RegisterMapping(t, c)
    <3>1. Work /\ Unsteady /\ UNCHANGED <<fatal, ret, pend, sound>>
      BY <2>1 DEF RegisterMapping
    <3> QED BY <3>1, RegisterStacks DEF Stacks
  <2>2. CASE \E t \in Tag, f \in Callback : RegisterSerializer(t, f) \/ RegisterDeserializer(t, f)
    <3>1. PICK f \in Callback : Work /\ Unsteady /\ Checked(f) /\ UNCHANGED <<fatal, ret>>
      BY <2>2 DEF RegisterSerializer, RegisterDeserializer
    <3>2. pend' \in BOOLEAN /\ sound' \in BOOLEAN /\ (sound' => sound)
      BY <3>1 DEF Checked, Stacks
    <3> QED BY <3>1, <3>2, RegisterStacks
  <2> QED BY <1>1, <2>1, <2>2 DEF Register
<1>2. CASE UNCHANGED vars
  BY <1>2 DEF vars, Stacks, NoGapDelivered
<1> QED
  BY <1>1, <1>2, CallStacks, ThrowCatchStacks, CallbackStacks, PlainStacks, GetIntThrowsStacks,
     DescendStacks, ByDeserializerStacks, ByClassStacks, LoopEndStacks, CallReturnStacks
  DEF Next, Php, Cpp, Stop

LEMMA StacksInit ==
    Init => RegOK /\ Stacks
<1> SUFFICES ASSUME Init PROVE RegOK /\ Stacks
  OBVIOUS
<1>1. RegOK
  BY DEF Init, RegOK, Maybe
<1> DEFINE n == CHOOSE n \in Node : TRUE
           fr == Frame("user", n, None)
<1>2. n \in Node
  BY DocAssumption
<1>3. stk = << fr >>
  BY DEF Init
<1> HIDE DEF n
<1>4. None \in Maker
  BY DEF Maker
<1>5. fr \in Act /\ fr.f = "user" /\ fr.out = <<>>
  BY <1>2, <1>4, Frames
<1> HIDE DEF fr
<1>6. stk \in Seq(Act) /\ Len(stk) = 1 /\ stk # <<>> /\ stk[1] = fr
  BY <1>3, <1>5
<1>7. Shape(stk)
  BY <1>5, <1>6 DEF Shape
<1>8. Gaps(stk, pend, sound)
  BY <1>5, <1>6, NoTokens DEF Gaps, Gap
<1>9. NoGapDelivered
  BY DEF Init, NoGapDelivered, NoAnswer
<1>10. pend \in BOOLEAN /\ sound \in BOOLEAN /\ ~fatal
  BY DEF Init
<1> QED BY <1>1, <1>7, <1>8, <1>9, <1>10 DEF Stacks

-----------------------------------------------------------------------------
(* The results.                                                             *)
GapInv == RegOK /\ Stacks

LEMMA GapInvariant == Spec => []GapInv
<1>1. Init => GapInv
  BY StacksInit DEF GapInv
<1>2. GapInv /\ [Next]_vars => GapInv'
  BY RegistryStep, StacksStep DEF GapInv
<1> QED BY <1>1, <1>2, PTL DEF Spec

LEMMA AboveInner ==
    ASSUME Stacks
    PROVE  /\ Above = Inner(stk) /\ DOMAIN stk = 1..Len(stk) /\ Top = stk[Len(stk)]
           /\ \A i : Gap(stk, i) <=> Faulty(stk[i].out)
BY StackFacts DEF Stacks, Above, Inner, Top, Gap

\* For every document, however deep its tables and callbacks nest: while an
\* exception is pending in C++ code there is a gap above the PHP code that
\* waits, and while none is pending there is no gap at all.
THEOREM GapsPending == Spec => []GapsArePending
<1>1. GapInv => GapsArePending
  BY AboveInner DEF GapInv, Stacks, Gaps, GapsArePending
<1> QED BY <1>1, GapInvariant, PTL

\* No table with a gap is ever the value of a call that succeeds.
THEOREM NoGaps == Spec => []NoGapDelivered
<1>1. GapInv => NoGapDelivered
  BY DEF GapInv, Stacks
<1> QED BY <1>1, GapInvariant, PTL

\* A request ends only in a table one of whose entries failed before.
THEOREM FatalBehind == Spec => []FatalBehindGap
<1>1. GapInv => FatalBehindGap
  BY AboveInner DEF GapInv, Stacks, LoopGap, FatalBehindGap
<1> QED BY <1>1, GapInvariant, PTL

-----------------------------------------------------------------------------
(* References to the input.                                                 *)
\* The activations that use an input string: Holders, of any stack.
Users(s) == {i \in 2..Len(s) : s[i].f \in {"call", "user"}}
Counts(fr) == IF fr.f = "loop" THEN 0 ELSE 1

\* A reference for each of them; there may be more once something was thrown.
HeldInv ==
    /\ held \in Int /\ clean \in BOOLEAN
    /\ held >= Cardinality(Users(stk))
    /\ clean => held = Cardinality(Users(stk))
    /\ pend => ~clean

LEMMA UsersFinite ==
    ASSUME NEW s, Shape(s)
    PROVE  IsFiniteSet(Users(s)) /\ Cardinality(Users(s)) \in Nat
<1>1. Len(s) \in Nat
  BY StackFacts
<1>2. IsFiniteSet(2..Len(s))
  BY <1>1, FS_Interval
<1>3. IsFiniteSet(Users(s))
  BY <1>2, FS_Subset DEF Users
<1> QED BY <1>3, FS_CardinalityType

\* A stack with the same activations.
LEMMA UsersKept ==
    ASSUME NEW s, NEW t, Shape(s), Len(t) = Len(s), \A i \in 1..Len(s) : t[i].f = s[i].f
    PROVE  Users(t) = Users(s)
<1>1. \A i \in 2..Len(s) : i \in 1..Len(s)
  BY StackFacts
<1> QED BY <1>1 DEF Users

\* A stack with one more.
LEMMA UsersMore ==
    ASSUME NEW s, NEW t, Shape(s), Shape(t), Len(t) = Len(s) + 1,
           \A i \in 1..Len(s) : t[i].f = s[i].f
    PROVE  Cardinality(Users(t)) = Cardinality(Users(s)) + Counts(t[Len(t)])
<1> DEFINE h == Len(t)
<1>1. Len(s) \in Nat /\ Len(s) >= 1 /\ h \in 2..Len(t) /\ h \notin 2..Len(s) /\ h \in 1..Len(t)
  BY StackFacts
<1>2. Users(s) \ {h} = Users(t) \ {h}
  <2>1. \A i : i # h => (i \in 2..Len(t) <=> i \in 2..Len(s))
    BY <1>1
  <2>2. \A i \in 2..Len(s) : i \in 1..Len(s)
    BY <1>1
  <2> QED BY <2>1, <2>2 DEF Users
<1>3. t[h].f \in {"call", "user", "loop"}
  BY <1>1, StackFacts DEF Act, Activation, PhpValue
<1>4. In(h, Users(s)) = 0 /\ In(h, Users(t)) = Counts(t[h])
  BY <1>1, <1>3 DEF In, Users, Counts
<1>5. /\ Cardinality(Users(t)) + In(h, Users(s)) = Cardinality(Users(s)) + In(h, Users(t))
      /\ Cardinality(Users(s)) \in Nat /\ Cardinality(Users(t)) \in Nat
  BY <1>2, UsersFinite, SetMoved
<1> QED BY <1>4, <1>5

\* Part of a stack.
LEMMA UsersCut ==
    ASSUME NEW s, Shape(s), NEW n \in 1..Len(s)
    PROVE  Cardinality(Users(SubSeq(s, 1, n))) <= Cardinality(Users(s))
<1> DEFINE t == SubSeq(s, 1, n)
<1>1. Len(s) \in Nat /\ n \in Nat /\ n <= Len(s)
  BY StackFacts
<1>2. Len(t) = n /\ \A i \in 1..n : t[i] = s[i]
  BY CutShape
<1>3. \A i \in 2..n : i \in 1..n /\ i \in 2..Len(s)
  BY <1>1
<1> HIDE DEF t
<1>4. Users(t) \subseteq Users(s)
  BY <1>2, <1>3 DEF Users
<1>5. Cardinality(Users(t)) <= Cardinality(Users(s))
  BY <1>4, UsersFinite, FS_Subset
<1> QED BY <1>5 DEF t

\* Storing a value leaves the activations as they are.
LEMMA PutKinds ==
    ASSUME NEW s, Shape(s), NEW val
    PROVE  Len(Put(s, val)) = Len(s) /\ \A i \in 1..Len(s) : Put(s, val)[i].f = s[i].f
<1> DEFINE e == [s[Len(s)] EXCEPT !.pc = @ + 1, !.out = @ \o val]
           A == Act \cup {e}
<1>1. Len(s) \in 1..Len(s) /\ s[Len(s)] \in Act
  BY StackFacts
<1>2. e.f = s[Len(s)].f
  BY <1>1 DEF Act, Activation, PhpValue
<1>3. Put(s, val) = [s EXCEPT ![Len(s)] = e]
  BY DEF Put
<1>4. e \in A /\ Act \subseteq A
  OBVIOUS
<1> HIDE DEF e, A
<1>5. s \in Seq(A)
  BY <1>4 DEF Shape
<1>6. /\ Len(Put(s, val)) = Len(s)
      /\ \A i \in 1..Len(s) : Put(s, val)[i] = IF i = Len(s) THEN e ELSE s[i]
  BY <1>1, <1>3, <1>4, <1>5, ExceptSeq
<1> QED BY <1>2, <1>6

\* What the three changes of the stack do to the number of users.
LEMMA ValueUsers ==
    ASSUME Stacks, NEW val, Value(val) PROVE Users(stk') = Users(stk)
BY PutKinds, UsersKept DEF Stacks, Value

LEMMA PushUsers ==
    ASSUME Stacks, Stacks', NEW fr, Push(fr)
    PROVE  Cardinality(Users(stk')) = Cardinality(Users(stk)) + Counts(fr)
<1>1. stk' = Append(stk, fr) /\ Len(stk) \in Nat
  BY StackFacts DEF Push, Stacks
<1>2. Shape(stk) /\ Shape(stk')
  BY DEF Stacks
<1>3. /\ Len(stk') = Len(stk) + 1 /\ stk'[Len(stk')] = fr
      /\ \A i \in 1..Len(stk) : stk'[i] = stk[i]
  BY <1>1, <1>2 DEF Shape
<1> QED BY <1>2, <1>3, UsersMore

LEMMA PopUsers ==
    ASSUME Stacks, Stacks', Len(stk) > 1,
           \/ stk' = Below(stk)
           \/ \E val : Resume(val)
    PROVE  Cardinality(Users(stk)) = Cardinality(Users(stk')) + Counts(Top)
<1> DEFINE n == Len(stk) - 1
<1>1. n \in 1..Len(stk) /\ Len(stk) = n + 1 /\ Top = stk[Len(stk)]
  BY StackFacts DEF Stacks, Top
<1> DEFINE b == Below(stk)
<1>2. Shape(b) /\ Len(b) = n /\ \A i \in 1..n : b[i] = stk[i]
  BY <1>1, CutShape DEF Stacks, Below
<1>3. Len(stk') = n /\ \A i \in 1..n : stk'[i].f = stk[i].f
  <2>1. CASE stk' = b
    BY <1>2, <2>1
  <2>2. CASE \E val : Resume(val)
    <3>1. PICK val : Resume(val)
      BY <2>2
    <3> DEFINE v == KeyPart(stk[Len(stk) - 1]) \o val
    <3>2. stk' = Put(b, v)
      BY <3>1 DEF Resume
    <3> HIDE DEF v, b, n
    <3> QED BY <1>2, <3>2, PutKinds
  <2> QED BY <2>1, <2>2
<1> HIDE DEF n, b
<1>4. Shape(stk) /\ Shape(stk')
  BY DEF Stacks
<1> QED BY <1>1, <1>3, <1>4, UsersMore

LEMMA FrameCounts ==
    ASSUME NEW n, NEW by
    PROVE  /\ Counts(Frame("call", n, by)) = 1 /\ Counts(Frame("user", n, by)) = 1
           /\ Counts(Frame("loop", n, by)) = 0
BY DEF Counts, Frame

\* A callback run takes a reference; none is taken for a request that ends.
LEMMA RunHeld ==
    ASSUME Stacks, Stacks', HeldInv, NEW by, RunCallback(by), UNCHANGED <<pend, clean>>
    PROVE  HeldInv'
<1>1. Cardinality(Users(stk)) \in Nat
  BY UsersFinite DEF Stacks
<1>2. CASE pend
  BY <1>2 DEF RunCallback, HeldInv
<1>3. CASE ~pend
  <2>1. Push(Frame("user", This, by)) /\ held' = held + 1
    BY <1>3 DEF RunCallback
  <2>2. Cardinality(Users(stk')) = Cardinality(Users(stk)) + 1
    BY <2>1, PushUsers, FrameCounts
  <2> QED BY <1>1, <2>1, <2>2 DEF HeldInv
<1> QED BY <1>2, <1>3

LEMMA HeldStep ==
    ASSUME Stacks, Stacks', HeldInv, [Next]_vars
    PROVE  HeldInv'
<1>1. Cardinality(Users(stk)) \in Nat /\ Cardinality(Users(stk')) \in Nat
  BY UsersFinite DEF Stacks
<1> DEFINE Same == Users(stk') = Users(stk) /\ UNCHANGED held
<1>2. CASE Register
  <2>1. Unsteady /\ UNCHANGED held /\ clean' \in BOOLEAN /\ (clean' => clean) /\ (pend' => ~clean')
    <3>1. CASE \E t \in Tag, c \in Class : RegisterMapping(t, c)
      BY <3>1 DEF RegisterMapping, HeldInv
    <3>2. CASE \E t \in Tag, f \in Callback : RegisterSerializer(t, f) \/ RegisterDeserializer(t, f)
      BY <3>2 DEF RegisterSerializer, RegisterDeserializer, Checked, HeldInv
    <3> QED BY <1>2, <3>1, <3>2 DEF Register
  <2>2. Len(stk') = Len(stk) /\ \A i \in 1..Len(stk) : stk'[i].f = stk[i].f
    <3>1. /\ Len(stk) \in Nat /\ DOMAIN stk = 1..Len(stk)
          /\ \A i \in 1..Len(stk) : stk[i] \in Act
      BY StackFacts DEF Stacks
    <3>2. stk' = [i \in 1..Len(stk) |-> [stk[i] EXCEPT !.steady = FALSE]]
      BY <2>1, <3>1 DEF Unsteady
    <3> QED BY <3>1, <3>2 DEF Act, Activation, PhpValue
  <2>3. Users(stk') = Users(stk)
    BY <2>2, UsersKept DEF Stacks
  <2> QED BY <1>1, <2>1, <2>3 DEF HeldInv
<1>3. ASSUME NEW n \in Given, Call(n) PROVE HeldInv'
  <2>1. Push(Frame("call", n, None)) /\ held' = held + 1 /\ UNCHANGED <<pend, clean>>
    BY <1>3 DEF Call
  <2>2. Cardinality(Users(stk')) = Cardinality(Users(stk)) + 1
    BY <2>1, PushUsers, FrameCounts
  <2> QED BY <1>1, <2>1, <2>2 DEF HeldInv
<1>4. CASE Throw \/ Catch
  <2>1. stk' = stk /\ held' = held
    BY <1>4 DEF Throw, Catch
  <2>2. Users(stk') = Users(stk)
    BY <2>1
  <2>3. CASE Throw
    <3>1. clean' = FALSE
      BY <2>3 DEF Throw
    <3> QED BY <2>1, <2>2, <3>1 DEF HeldInv
  <2>4. CASE Catch
    <3>1. pend' = FALSE /\ clean' = clean
      BY <2>4 DEF Catch
    <3> QED BY <2>1, <2>2, <3>1 DEF HeldInv
  <2> QED BY <1>4, <2>3, <2>4
<1>5. CASE CallbackReturn \/ CallbackFails
  <2>1. /\ Len(stk) > 1 /\ Top.f = "user" /\ UNCHANGED <<pend, clean>>
        /\ \E val : Resume(val)
        /\ \/ held' = held - 1
           \/ pend /\ held' = held
    BY <1>5 DEF CallbackReturn, CallbackFails, InCallback
  <2>2. Cardinality(Users(stk)) = Cardinality(Users(stk')) + 1
    BY <2>1, PopUsers DEF Counts
  <2> QED BY <1>1, <2>1, <2>2 DEF HeldInv
<1>6. CASE Plain
  <2>1. (\E val : Value(val)) /\ UNCHANGED <<held, pend, clean>>
    BY <1>6 DEF Plain
  <2>2. Users(stk') = Users(stk)
    BY <2>1, ValueUsers
  <2> QED BY <2>1, <2>2 DEF HeldInv
<1>7. CASE GetIntThrows
  <2>1. stk' = SubSeq(stk, 1, UserLevel) /\ ~clean' /\ clean' \in BOOLEAN /\ UNCHANGED held
    BY <1>7 DEF GetIntThrows
  <2>2. Cardinality(Users(stk')) <= Cardinality(Users(stk))
    BY <2>1, LastUser, UsersCut DEF Stacks
  <2> QED BY <1>1, <2>1, <2>2 DEF HeldInv
<1>8. CASE Descend
  <2>1. Push(Frame("loop", This, None)) /\ UNCHANGED <<held, pend, clean>>
    BY <1>8 DEF Descend
  <2>2. Cardinality(Users(stk')) = Cardinality(Users(stk))
    BY <1>1, <2>1, PushUsers, FrameCounts
  <2> QED BY <2>1, <2>2 DEF HeldInv
<1>9. CASE ByDeserializer
  <2>1. /\ UNCHANGED <<pend, clean>>
        /\ \/ \E by : RunCallback(by)
           \/ Value(Undef) /\ UNCHANGED held
    BY <1>9 DEF ByDeserializer
  <2>2. CASE \E by : RunCallback(by)
    BY <2>1, <2>2, RunHeld
  <2>3. CASE Value(Undef) /\ UNCHANGED held
    <3>1. Users(stk') = Users(stk)
      BY <2>3, ValueUsers
    <3> QED BY <2>1, <2>3, <3>1 DEF HeldInv
  <2> QED BY <2>1, <2>2, <2>3
<1>10. CASE ByClass
  <2>1. \/ (\E by : RunCallback(by)) /\ UNCHANGED <<pend, clean>>
        \/ Value(Garbage) /\ clean' = FALSE /\ UNCHANGED held
    BY <1>10 DEF ByClass
  <2>2. CASE (\E by : RunCallback(by)) /\ UNCHANGED <<pend, clean>>
    BY <2>2, RunHeld
  <2>3. CASE Value(Garbage) /\ clean' = FALSE /\ UNCHANGED held
    <3>1. Users(stk') = Users(stk)
      BY <2>3, ValueUsers
    <3> QED BY <2>3, <3>1 DEF HeldInv
  <2> QED BY <2>1, <2>2, <2>3
<1>11. CASE LoopEnd
  <2>1. Resume(Table(Top.node, Top.out)) /\ Top.f = "loop" /\ UNCHANGED <<held, pend, clean>>
    BY <1>11 DEF LoopEnd
  <2>2. Len(stk) > 1
    BY <2>1, StackFacts DEF Stacks, Shape, Top
  <2>3. Cardinality(Users(stk)) = Cardinality(Users(stk'))
    BY <1>1, <2>1, <2>2, PopUsers DEF Counts
  <2> QED BY <2>1, <2>3 DEF HeldInv
<1>12. CASE CallReturn
  <2>1. /\ stk' = Below(stk) /\ Top.f = "call" /\ held' = held - 1
        /\ UNCHANGED <<pend, clean>>
    BY <1>12 DEF CallReturn
  <2>2. Len(stk) > 1
    BY <2>1, StackFacts DEF Stacks, Shape, Top
  <2>3. Cardinality(Users(stk)) = Cardinality(Users(stk')) + 1
    BY <2>1, <2>2, PopUsers DEF Counts
  <2> QED BY <1>1, <2>1, <2>3 DEF HeldInv
<1>13. CASE UNCHANGED vars
  BY <1>13 DEF vars, HeldInv
<1> QED
  BY <1>2, <1>3, <1>4, <1>5, <1>6, <1>7, <1>8, <1>9, <1>10, <1>11, <1>12, <1>13
  DEF Next, Php, Cpp, Stop

LEMMA HeldInvariant == Spec => []HeldInv
<1>1. Init => HeldInv
  <2> SUFFICES ASSUME Init PROVE HeldInv
    OBVIOUS
  <2>1. Len(stk) = 1
    BY DEF Init
  <2>2. Users(stk) = {}
    BY <2>1 DEF Users
  <2>3. held = 0 /\ clean = TRUE /\ pend = FALSE
    BY DEF Init
  <2>4. Cardinality(Users(stk)) = 0
    BY <2>2, FS_EmptySet
  <2> QED BY <2>3, <2>4 DEF HeldInv
<1>2. GapInv /\ GapInv' /\ HeldInv /\ [Next]_vars => HeldInv'
  BY HeldStep DEF GapInv
<1> QED BY <1>1, <1>2, GapInvariant, PTL DEF Spec

\* For every document, however its calls and callbacks nest and fail: an input
\* string has a reference for each call and callback that uses it, and as long
\* as nothing is thrown it has no other.
THEOREM InputsReferenced == Spec => []Referenced
<1>1. HeldInv => Referenced
  BY DEF HeldInv, Users, Referenced, Holders
<1> QED BY <1>1, HeldInvariant, PTL

-----------------------------------------------------------------------------
(* What a document decodes to, one entry at a time.  D: the value of each    *)
(* node.                                                                     *)
Key(n, i) == IF Doc[n].kind = "object" THEN << <<"key", Doc[n].entries[i].key>> >> ELSE <<>>
EntryValue(D, n, i) == Key(n, i) \o D[Doc[n].entries[i].val]
EntryValues(D, n, k) == FlattenSeq([i \in 1..k |-> EntryValue(D, n, i)])
Size(n) == Len(Doc[n].entries)

\* Decoded of one node, from D of its entries.
AllEntries(D, n) ==
    FlattenSeq([i \in DOMAIN Doc[n].entries |->
        (IF Doc[n].kind = "object" THEN << <<"key", Doc[n].entries[i].key>> >> ELSE <<>>)
            \o D[Doc[n].entries[i].val]])
DecodedFrom(D, n) ==
    LET d == Doc[n]
    IN  CASE d.kind = "scalar" -> << <<"scalar", n>> >>
          [] d.kind \in Tables ->
               Table(n, AllEntries(D, n))
          [] d.kind = "tagged" /\ des[d.tag] # None ->
               IF des[d.tag][1] \in Callable THEN Made(<<"call", des[d.tag][1]>>, n) ELSE Undef
          [] d.kind = "tagged" /\ des[d.tag] = None /\ classOf[d.tag] # None ->
               Made(<<"from", classOf[d.tag][1]>>, n)
          [] OTHER -> Null

LEMMA SizeFacts ==
    ASSUME NEW n \in Node
    PROVE  /\ Size(n) \in Nat /\ DOMAIN Doc[n].entries = 1..Size(n)
           /\ \A i \in 1..Size(n) : /\ Doc[n].entries[i].key \in STRING
                                    /\ Doc[n].entries[i].val \in Node
                                    /\ Doc[n].entries[i].val \in PartsOf[n]
<1> DEFINE es == Doc[n].entries
<1>1. es \in Seq([key : STRING, val : Node])
  BY DocAssumption
<1>2. Len(es) \in Nat /\ DOMAIN es = 1..Len(es)
  BY <1>1
<1>3. \A i \in 1..Len(es) : es[i] \in [key : STRING, val : Node]
  BY <1>1, ElementOfSeq
<1>4. PartsOf[n] = {es[i].val : i \in DOMAIN es}
  BY DEF PartsOf
<1> HIDE DEF es
<1>5. \A i \in 1..Len(es) : es[i].key \in STRING /\ es[i].val \in Node /\ es[i].val \in PartsOf[n]
  BY <1>2, <1>3, <1>4
<1> QED BY <1>2, <1>5 DEF es, Size

LEMMA EntryValueType ==
    ASSUME NEW D \in [Node -> PhpValue], NEW n \in Node, NEW i \in 1..Size(n)
    PROVE  Key(n, i) \in PhpValue /\ EntryValue(D, n, i) \in PhpValue
<1>1. Doc[n].entries[i].key \in STRING /\ Doc[n].entries[i].val \in Node
  BY SizeFacts
<1>2. <<"key", Doc[n].entries[i].key>> \in Token
  BY <1>1, Tokens
<1>3. Key(n, i) \in PhpValue
  BY <1>2, OneToken, NoTokens DEF Key
<1>4. D[Doc[n].entries[i].val] \in PhpValue
  BY <1>1
<1> QED BY <1>3, <1>4, FaultyConcat DEF EntryValue

LEMMA EntryValuesStep ==
    ASSUME NEW D \in [Node -> PhpValue], NEW n \in Node
    PROVE  /\ EntryValues(D, n, 0) = <<>>
           /\ \A k \in 0..Size(n) : EntryValues(D, n, k) \in PhpValue
           /\ \A k \in 1..Size(n) :
                EntryValues(D, n, k) = EntryValues(D, n, k - 1) \o EntryValue(D, n, k)
<1> DEFINE s == Size(n)
           h == [i \in 1..s |-> EntryValue(D, n, i)]
<1>1. h \in [1..s -> Seq(Token)] /\ s \in Nat
  BY EntryValueType, SizeFacts DEF PhpValue
<1>2. \A i \in 1..s : h[i] = EntryValue(D, n, i)
  OBVIOUS
<1> HIDE DEF h, s
<1>3. /\ FlattenSeq([i \in 1..0 |-> h[i]]) = <<>>
      /\ \A k \in 0..s : FlattenSeq([i \in 1..k |-> h[i]]) \in Seq(Token)
      /\ \A k \in 1..s : FlattenSeq([i \in 1..k |-> h[i]])
                           = FlattenSeq([i \in 1..(k - 1) |-> h[i]]) \o h[k]
  BY <1>1, Concatenation
<1>4. ASSUME NEW k \in 0..s
      PROVE  EntryValues(D, n, k) = FlattenSeq([i \in 1..k |-> h[i]])
  <2>1. \A i \in 1..k : i \in 1..s
    BY <1>1
  <2>2. [i \in 1..k |-> EntryValue(D, n, i)] = [i \in 1..k |-> h[i]]
    BY <1>2, <2>1
  <2> QED BY <2>2 DEF EntryValues
<1>5. EntryValues(D, n, 0) = <<>>
  <2>1. 0 \in 0..s
    BY <1>1
  <2>2. EntryValues(D, n, 0) = FlattenSeq([i \in 1..0 |-> h[i]])
    BY <1>4, <2>1
  <2> QED BY <1>3, <2>2
<1>6. \A k \in 0..s : EntryValues(D, n, k) \in PhpValue
  BY <1>3, <1>4 DEF PhpValue
<1>7. ASSUME NEW k \in 1..s
      PROVE  EntryValues(D, n, k) = EntryValues(D, n, k - 1) \o EntryValue(D, n, k)
  <2>1. k \in 0..s /\ k - 1 \in 0..s
    BY <1>1
  <2> QED BY <1>2, <1>3, <1>4, <2>1
<1> QED BY <1>5, <1>6, <1>7 DEF s

\* The cases, with the entries by their numbers.
LEMMA DecodedCases ==
    ASSUME NEW D, NEW n \in Node
    PROVE  /\ Doc[n].kind = "scalar" => DecodedFrom(D, n) = << <<"scalar", n>> >>
           /\ Doc[n].kind \in Tables => DecodedFrom(D, n) = Table(n, EntryValues(D, n, Size(n)))
           /\ Doc[n].kind = "tagged" /\ des[Doc[n].tag] # None =>
                DecodedFrom(D, n) = IF des[Doc[n].tag][1] \in Callable
                                    THEN Made(<<"call", des[Doc[n].tag][1]>>, n) ELSE Undef
           /\ Doc[n].kind = "tagged" /\ des[Doc[n].tag] = None /\ classOf[Doc[n].tag] # None =>
                DecodedFrom(D, n) = Made(<<"from", classOf[Doc[n].tag][1]>>, n)
           /\ Doc[n].kind = "tagged" /\ des[Doc[n].tag] = None /\ classOf[Doc[n].tag] = None =>
                DecodedFrom(D, n) = Null
           /\ Doc[n].kind \in {"null", "odd", "huge"} => DecodedFrom(D, n) = Null
<1>1. Doc[n].kind \in {"scalar", "null", "odd", "huge", "array", "object", "tagged"}
  BY DocAssumption DEF Scalars, Tables
<1>2. ASSUME Doc[n].kind \in Tables
      PROVE  DecodedFrom(D, n) = Table(n, EntryValues(D, n, Size(n)))
  <2>1. AllEntries(D, n) = EntryValues(D, n, Size(n))
    BY SizeFacts DEF AllEntries, EntryValues, EntryValue, Key
  <2> QED BY <1>2, <2>1 DEF DecodedFrom, Tables
<1>3. Doc[n].kind = "scalar" => DecodedFrom(D, n) = << <<"scalar", n>> >>
  BY DEF DecodedFrom, Tables
<1>4. Doc[n].kind = "tagged" /\ des[Doc[n].tag] # None =>
                DecodedFrom(D, n) = IF des[Doc[n].tag][1] \in Callable
                                    THEN Made(<<"call", des[Doc[n].tag][1]>>, n) ELSE Undef
  BY DEF DecodedFrom, Tables
<1>5. Doc[n].kind = "tagged" /\ des[Doc[n].tag] = None /\ classOf[Doc[n].tag] # None =>
                DecodedFrom(D, n) = Made(<<"from", classOf[Doc[n].tag][1]>>, n)
  BY DEF DecodedFrom, Tables
<1>6. Doc[n].kind = "tagged" /\ des[Doc[n].tag] = None /\ classOf[Doc[n].tag] = None =>
                DecodedFrom(D, n) = Null
  BY DEF DecodedFrom, Tables
<1>7. Doc[n].kind \in {"null", "odd", "huge"} => DecodedFrom(D, n) = Null
  BY DEF DecodedFrom, Tables
<1> QED BY <1>2, <1>3, <1>4, <1>5, <1>6, <1>7

\* A table written around its entries.
LEMMA TableValue ==
    ASSUME NEW n \in Node, Doc[n].kind \in Tables, NEW out \in PhpValue
    PROVE  Table(n, out) \in PhpValue
<1> DEFINE a == << <<"open", Doc[n].kind>> >>
           z == << <<"close">> >>
<1>1. a \in PhpValue /\ z \in PhpValue
  BY Tokens, OneToken
<1>2. Table(n, out) = a \o out \o z
  BY DEF Table
<1> HIDE DEF a, z
<1>3. a \o out \in PhpValue
  BY <1>1, FaultyConcat
<1> QED BY <1>1, <1>2, <1>3, FaultyConcat

LEMMA DecodedFromType ==
    ASSUME RegOK, NEW D \in [Node -> PhpValue], NEW n \in Node
    PROVE  DecodedFrom(D, n) \in PhpValue
<1> DEFINE t == Doc[n].tag
<1>1. /\ Doc[n].kind \in {"scalar", "null", "odd", "huge", "array", "object", "tagged"}
      /\ t \in Tag
  BY DocAssumption DEF Scalars, Tables
<1>2. /\ des[t] # None => Made(<<"call", des[t][1]>>, n) \in PhpValue
      /\ classOf[t] # None => Made(<<"from", classOf[t][1]>>, n) \in PhpValue
  BY <1>1, Makers, Values
<1>3. Doc[n].kind \in Tables => Table(n, EntryValues(D, n, Size(n))) \in PhpValue
  <2>1. Size(n) \in 0..Size(n)
    BY SizeFacts
  <2> QED BY <2>1, EntryValuesStep, TableValue
<1> HIDE DEF t
<1>4. << <<"scalar", n>> >> \in PhpValue /\ Undef \in PhpValue /\ Null \in PhpValue
  BY Values
<1>5. CASE Doc[n].kind = "tagged"
  <2>1. CASE des[t] # None
    BY <1>2, <1>4, <1>5, <2>1, DecodedCases DEF t
  <2>2. CASE des[t] = None /\ classOf[t] # None
    BY <1>2, <1>4, <1>5, <2>2, DecodedCases DEF t
  <2>3. CASE des[t] = None /\ classOf[t] = None
    BY <1>2, <1>4, <1>5, <2>3, DecodedCases DEF t
  <2> QED BY <2>1, <2>2, <2>3
<1>6. CASE Doc[n].kind \in Tables
  BY <1>3, <1>6, DecodedCases
<1>7. CASE Doc[n].kind = "scalar"
  BY <1>4, <1>7, DecodedCases
<1>8. CASE Doc[n].kind \in {"null", "odd", "huge"}
  BY <1>4, <1>8, DecodedCases
<1> QED BY <1>1, <1>5, <1>6, <1>7, <1>8 DEF Tables

LEMMA DecodedFromParts ==
    ASSUME NEW D, NEW E, NEW n \in Node,
           \A m \in PartsOf[n] : D[m] = E[m]
    PROVE  DecodedFrom(D, n) = DecodedFrom(E, n)
<1>1. \A i \in 1..Size(n) : EntryValue(D, n, i) = EntryValue(E, n, i)
  BY SizeFacts DEF EntryValue
<1>2. EntryValues(D, n, Size(n)) = EntryValues(E, n, Size(n))
  BY <1>1 DEF EntryValues
<1>3. Doc[n].kind \in {"scalar", "null", "odd", "huge", "array", "object", "tagged"}
  BY DocAssumption DEF Scalars, Tables
<1>4. CASE Doc[n].kind \in Tables
  BY <1>2, <1>4, DecodedCases
<1>5. CASE Doc[n].kind \notin Tables
  BY <1>3, <1>5, DecodedCases DEF Tables
<1> QED BY <1>4, <1>5

\* Decoded is the function that its equation defines.
LEMMA DecodedNode ==
    ASSUME RegOK
    PROVE  /\ Decoded \in [Node -> PhpValue]
           /\ \A n \in Node : Decoded[n] = DecodedFrom(Decoded, n)
<1> DEFINE g == [n \in Node |-> [f \in [Node -> PhpValue] |-> DecodedFrom(f, n)]]
<1>1. g \in [Node -> [[Node -> PhpValue] -> PhpValue]]
  BY DecodedFromType
<1>2. FromParts(Node, PhpValue, PartsOf, g)
  BY DecodedFromParts DEF FromParts
<1>3. Recursive(Node, PhpValue, PartsOf, g)
  <2>1. PhpValue # {}
    BY NoTokens
  <2> HIDE DEF g
  <2> QED BY <1>1, <1>2, <2>1, PartsFounded DEF Recursive
<1>4. PICK f \in [Node -> PhpValue] : \A n \in Node : f[n] = g[n][f]
  <2> HIDE DEF g
  <2> QED BY <1>3, Recursion
<1>5. \A n \in Node : f[n] = DecodedFrom(f, n)
  BY <1>4
<1> DEFINE Solves(e) == e = [n \in Node |-> DecodedFrom(e, n)]
<1>6. Solves(f)
  BY <1>5
<1>7. Decoded = CHOOSE e : Solves(e)
  BY DEF Decoded, DecodedFrom, AllEntries
<1>8. Solves(Decoded)
  <2> HIDE DEF Solves
  <2> QED BY <1>6, <1>7
<1> DEFINE d == Decoded
<1> HIDE DEF d
<1>9. d = [n \in Node |-> DecodedFrom(d, n)]
  BY <1>8 DEF d
<1>10. \A n \in Node : d[n] = DecodedFrom(d, n)
  BY <1>9
<1>11. \A n \in Node : d[n] = f[n]
  <2>1. ASSUME NEW n \in Node, \A m \in PartsOf[n] : d[m] = f[m] PROVE d[n] = f[n]
    BY <1>5, <1>10, <2>1, DecodedFromParts
  <2> QED BY <2>1, PartsFounded, Agree
<1>12. d = f
  BY <1>9, <1>11
<1> QED BY <1>10, <1>12 DEF d

-----------------------------------------------------------------------------
(* What each activation has stored.  A claim is made only of one since whose *)
(* start nothing was registered, and which no pending exception will end.    *)
Done(D, fr) ==
    CASE fr.f = "loop" -> EntryValues(D, fr.node, fr.pc - 1)
      [] fr.f = "call" /\ fr.pc # 1 -> D[fr.node]
      [] OTHER -> <<>>

\* b runs for the entry that a is at, and makes the value that D says.
Runs(D, a, b) ==
    /\ a.f # "user" => b.node = Entries(a)[a.pc].val
    /\ b.f = "user" /\ b.steady => D[b.node] = Made(b.by, b.node)
    /\ a.steady => b.steady

Placed(s) == s[Len(s)].f # "user" => s[Len(s)].pc <= Len(Entries(s[Len(s)])) + 1
Right(D, s, p) ==
    \A i \in 1..Len(s) : s[i].steady /\ (i \in Inner(s) => ~p) => s[i].out = Done(D, s[i])
Good(D, s, p) ==
    /\ Placed(s) /\ Right(D, s, p)
    /\ \A i \in 2..Len(s) : Runs(D, s[i - 1], s[i])

\* The value D says for the entry fr is at, with its key.
NextValue(D, fr) == KeyPart(fr) \o D[Entries(fr)[fr.pc].val]

LEMMA HowMany ==
    ASSUME NEW fr \in Act PROVE Len(Entries(fr)) \in Nat
<1>1. fr.node \in Node /\ fr.f \in {"user", "call", "loop"}
  BY DEF Act, Activation
<1>2. Len(Doc[fr.node].entries) \in Nat
  BY <1>1, SizeFacts DEF Size
<1> QED BY <1>1, <1>2 DEF Entries

LEMMA DoneStep ==
    ASSUME NEW D \in [Node -> PhpValue], NEW fr \in Act, fr.f # "user",
           fr.pc <= Len(Entries(fr)), NEW e, e.f = fr.f, e.node = fr.node, e.pc = fr.pc + 1
    PROVE  Done(D, e) = Done(D, fr) \o NextValue(D, fr) /\ NextValue(D, fr) \in PhpValue
<1>1. fr.pc \in Nat \ {0} /\ fr.node \in Node /\ fr.f \in {"call", "loop"}
  BY DEF Act, Activation
<1>2. KeyPart(fr) \in PhpValue /\ Entries(fr)[fr.pc].val \in Node
  BY EntryFacts
<1>3. NextValue(D, fr) \in PhpValue
  <2>1. D[Entries(fr)[fr.pc].val] \in PhpValue
    BY <1>2
  <2> QED BY <1>2, <2>1, FaultyConcat DEF NextValue
<1>4. CASE fr.f = "call"
  <2>1. fr.pc = 1
    BY <1>4, EntryFacts
  <2>2. Entries(fr)[1].val = fr.node /\ KeyPart(fr) = <<>>
    BY <1>4 DEF Entries, KeyPart
  <2>3. e.pc # 1 /\ e.f = "call"
    BY <1>4, <2>1
  <2>4. Done(D, e) = D[fr.node] /\ Done(D, fr) = <<>>
    BY <1>4, <2>1, <2>3 DEF Done
  <2>5. NextValue(D, fr) = <<>> \o D[fr.node]
    BY <2>1, <2>2 DEF NextValue
  <2>6. D[fr.node] \in Seq(Token)
    BY <1>1 DEF PhpValue
  <2>7. <<>> \o D[fr.node] = D[fr.node]
    BY <2>6
  <2> QED BY <1>3, <2>4, <2>5, <2>7
<1>5. CASE fr.f = "loop"
  <2>1. Entries(fr) = Doc[fr.node].entries
    BY <1>5 DEF Entries
  <2>2. fr.pc \in 1..Size(fr.node)
    BY <1>1, <2>1, SizeFacts DEF Size
  <2>3. KeyPart(fr) = Key(fr.node, fr.pc)
    BY <1>5, <2>1 DEF KeyPart, Key
  <2>4. NextValue(D, fr) = EntryValue(D, fr.node, fr.pc)
    BY <2>1, <2>3 DEF NextValue, EntryValue
  <2>5. e.pc - 1 = fr.pc
    BY <1>1
  <2>6. Done(D, e) = EntryValues(D, fr.node, fr.pc) /\ Done(D, fr) = EntryValues(D, fr.node, fr.pc - 1)
    BY <1>5, <2>5 DEF Done
  <2> QED BY <1>1, <1>3, <2>2, <2>4, <2>6, EntryValuesStep
<1> QED BY <1>1, <1>4, <1>5

\* An activation just entered has stored nothing.
LEMMA DoneFirst ==
    ASSUME NEW D \in [Node -> PhpValue], NEW fr \in Act, fr.pc = 1
    PROVE  Done(D, fr) = <<>>
<1>1. fr.node \in Node
  BY DEF Act, Activation
<1>2. EntryValues(D, fr.node, 0) = <<>>
  BY <1>1, EntryValuesStep
<1> QED BY <1>2 DEF Done

LEMMA PushGood ==
    ASSUME NEW D \in [Node -> PhpValue], NEW s, NEW p, Shape(s), Good(D, s, p),
           NEW fr \in Act, fr.out = <<>>, fr.pc = 1,
           fr.f = "call" <=> s[Len(s)].f = "user",
           s[Len(s)].f # "user" => s[Len(s)].pc <= Len(Entries(s[Len(s)])),
           Runs(D, s[Len(s)], fr), ~p \/ fr.f # "user"
    PROVE  Good(D, Append(s, fr), p)
<1> DEFINE t == Append(s, fr)
<1>1. Len(s) \in Nat /\ Len(s) >= 1
  BY StackFacts
<1>2. Len(t) = Len(s) + 1 /\ t[Len(s) + 1] = fr /\ \A i \in 1..Len(s) : t[i] = s[i]
  BY PushShape
<1> HIDE DEF t
<1>3. Placed(t)
  <2>1. Len(Entries(fr)) \in Nat
    BY HowMany
  <2> QED BY <1>2, <2>1 DEF Placed
<1>4. ASSUME NEW i \in 2..Len(t) PROVE Runs(D, t[i - 1], t[i])
  <2>1. CASE i = Len(s) + 1
    BY <1>1, <1>2, <2>1
  <2>2. CASE i # Len(s) + 1
    <3>1. i \in 2..Len(s) /\ i \in 1..Len(s) /\ i - 1 \in 1..Len(s)
      BY <1>1, <1>2, <2>2
    <3> QED BY <1>2, <3>1 DEF Good
  <2> QED BY <2>1, <2>2
<1>5. ASSUME NEW i \in 1..Len(t), t[i].steady, i \in Inner(t) => ~p
      PROVE  t[i].out = Done(D, t[i])
  <2>1. CASE i = Len(s) + 1
    BY <1>2, <2>1, DoneFirst
  <2>2. CASE i # Len(s) + 1
    <3>1. i \in 1..Len(s)
      BY <1>1, <1>2, <2>2
    <3>2. i \in Inner(s) => ~p
      <4>1. SUFFICES ASSUME fr.f # "user", i \in Inner(s) PROVE i \in Inner(t)
        BY <1>5
      <4>2. ASSUME NEW j \in i..Len(t) PROVE t[j].f # "user"
        <5>1. CASE j = Len(s) + 1
          BY <1>2, <4>1, <5>1
        <5>2. CASE j # Len(s) + 1
          <6>1. j \in i..Len(s) /\ j \in 1..Len(s)
            BY <1>1, <1>2, <3>1, <5>2
          <6> QED BY <1>2, <4>1, <6>1 DEF Inner
        <5> QED BY <5>1, <5>2
      <4> QED BY <4>2 DEF Inner
    <3> QED BY <1>2, <1>5, <3>1, <3>2 DEF Good, Right
  <2> QED BY <2>1, <2>2
<1> QED BY <1>3, <1>4, <1>5 DEF Good, Right, t

\* The running C++ activation goes on; p, q: an exception is pending before
\* and after that.
LEMMA PutGood ==
    ASSUME NEW D \in [Node -> PhpValue], NEW s, NEW p, NEW q, Shape(s), Good(D, s, p),
           p => q, s[Len(s)].f # "user", s[Len(s)].pc <= Len(Entries(s[Len(s)])),
           NEW val \in PhpValue,
           s[Len(s)].steady /\ ~q => val = NextValue(D, s[Len(s)])
    PROVE  Good(D, Put(s, val), q)
<1> DEFINE m == Len(s)
           e == [s[m] EXCEPT !.pc = @ + 1, !.out = @ \o val]
           t == Put(s, val)
<1>1. m \in Nat /\ m >= 1 /\ s \in Seq(Act) /\ s[m] \in Act
  BY StackFacts DEF Shape
<1>2. s[m].out \in PhpValue /\ s[m].pc \in Nat \ {0}
  BY <1>1 DEF Act, Activation, PhpValue
<1>3. /\ e \in Act /\ e.f = s[m].f /\ e.pc = s[m].pc + 1 /\ e.out = s[m].out \o val
      /\ e.node = s[m].node /\ e.by = s[m].by /\ e.steady = s[m].steady
  BY <1>1, NextEntry
<1>4. t = [s EXCEPT ![m] = e]
  BY DEF Put
<1> HIDE DEF e, t
<1>5. Len(t) = m /\ \A j \in 1..m : t[j] = IF j = m THEN e ELSE s[j]
  BY <1>1, <1>3, <1>4, ExceptSeq
<1> HIDE DEF m
<1>6. \A j \in 1..m : /\ t[j].f = s[j].f /\ t[j].node = s[j].node
                      /\ t[j].by = s[j].by /\ t[j].steady = s[j].steady
  BY <1>3, <1>5
<1>7. t[m] = e
  BY <1>1, <1>5
<1>8. Placed(t)
  <2>1. Entries(e) = Entries(s[m])
    BY <1>3 DEF Entries
  <2>2. Len(Entries(s[m])) \in Nat
    BY <1>1, HowMany
  <2> QED BY <1>2, <1>3, <1>5, <1>7, <2>1, <2>2 DEF Placed, m
<1>9. ASSUME NEW i \in 2..m PROVE Runs(D, t[i - 1], t[i])
  <2>1. i \in 1..m /\ i - 1 \in 1..m /\ i - 1 # m /\ i \in 2..Len(s)
    BY <1>1 DEF m
  <2>2. t[i - 1] = s[i - 1]
    BY <1>5, <2>1
  <2>3. Runs(D, s[i - 1], s[i])
    BY <2>1 DEF Good
  <2> QED BY <1>6, <2>1, <2>2, <2>3 DEF Runs
<1>10. Inner(t) = Inner(s)
  <2>1. \A i \in 1..m : \A j \in i..m : j \in 1..m
    BY <1>1
  <2> QED BY <1>5, <1>6, <2>1 DEF Inner, m
<1>11. m \in Inner(s)
  BY <1>1 DEF Inner, m
<1>12. ASSUME NEW i \in 1..m, t[i].steady, i \in Inner(t) => ~q
       PROVE  t[i].out = Done(D, t[i])
  <2>1. s[i].steady /\ (i \in Inner(s) => ~p)
    BY <1>6, <1>10, <1>12
  <2>2. s[i].out = Done(D, s[i])
    BY <2>1 DEF Good, Right, m
  <2>3. CASE i # m
    BY <1>5, <2>2, <2>3
  <2>4. CASE i = m
    <3>1. val = NextValue(D, s[m])
      BY <1>10, <1>11, <1>12, <2>1, <2>4 DEF m
    <3>2. Done(D, e) = Done(D, s[m]) \o NextValue(D, s[m])
      BY <1>1, <1>3, DoneStep DEF m
    <3> QED BY <1>3, <1>7, <2>2, <2>4, <3>1, <3>2
  <2> QED BY <2>3, <2>4
<1> QED BY <1>5, <1>8, <1>9, <1>12 DEF Good, Right, t

\* Back in an activation further down.  Of those below PHP code that ran, the
\* pending exception was none of their business.
LEMMA CutGood ==
    ASSUME NEW D, NEW s, NEW p, NEW q, Shape(s), Good(D, s, p),
           NEW n \in 1..(Len(s) - 1), q = p \/ \E j \in n..Len(s) : s[j].f = "user"
    PROVE  Good(D, SubSeq(s, 1, n), q)
<1> DEFINE t == SubSeq(s, 1, n)
<1>1. Len(s) \in Nat /\ n \in 1..Len(s) /\ n < Len(s)
  BY StackFacts
<1>2. Len(t) = n /\ \A i \in 1..n : t[i] = s[i]
  BY <1>1, CutShape
<1> HIDE DEF t
<1>3. Placed(t)
  <2>1. s[n] \in Act
    BY <1>1, StackFacts
  <2>2. s[n].f # "user" => s[n].pc <= Len(Entries(s[n]))
    BY DEF Shape
  <2>3. Len(Entries(s[n])) \in Nat
    BY <2>1, HowMany
  <2>4. s[n].pc \in Nat
    BY <2>1 DEF Act, Activation
  <2>5. t[n] = s[n]
    BY <1>1, <1>2
  <2> QED BY <1>2, <2>2, <2>3, <2>4, <2>5 DEF Placed
<1>4. ASSUME NEW i \in 2..n PROVE Runs(D, t[i - 1], t[i])
  <2>1. i \in 2..Len(s) /\ i \in 1..n /\ i - 1 \in 1..n
    BY <1>1
  <2> QED BY <1>2, <2>1 DEF Good
<1>5. ASSUME NEW i \in 1..n, t[i].steady, i \in Inner(t) => ~q
      PROVE  t[i].out = Done(D, t[i])
  <2>1. i \in 1..Len(s)
    BY <1>1
  <2>2. ASSUME i \in Inner(s) PROVE ~p
    <3>1. \A j \in i..Len(s) : s[j].f # "user"
      BY <2>2 DEF Inner
    <3>2. \A j \in n..Len(s) : j \in i..Len(s)
      BY <1>1
    <3>3. q = p
      BY <3>1, <3>2
    <3>4. \A j \in i..n : j \in i..Len(s) /\ j \in 1..n
      BY <1>1
    <3>5. i \in Inner(t)
      BY <1>2, <3>1, <3>4 DEF Inner
    <3> QED BY <1>5, <3>3, <3>5
  <2> QED BY <1>2, <1>5, <2>1, <2>2 DEF Good, Right
<1> QED BY <1>2, <1>3, <1>4, <1>5 DEF Good, Right, t

-----------------------------------------------------------------------------
(* Every step leaves the stacks as the documents say.                        *)
FaithInv == Good(Decoded, stk, pend)

\* A value stored by the running activation.
LEMMA ValueGood ==
    ASSUME RegOK, Stacks, FaithInv, Deserializing, NEW val \in PhpValue, Value(val),
           pend => pend', Top.steady /\ ~pend' => val = Decoded[This]
    PROVE  Good(Decoded, stk', pend')
<1> DEFINE v == KeyPart(Top) \o val
<1>1. v \in PhpValue
  BY AtEntry, FaultyConcat
<1>2. stk' = Put(stk, v) /\ Top = stk[Len(stk)] /\ Top.f # "user" /\ Top.pc <= Len(Entries(Top))
  BY AtEntry DEF Value
<1>3. Top.steady /\ ~pend' => v = NextValue(Decoded, Top)
  BY DEF NextValue, This
<1> HIDE DEF v
<1>4. Decoded \in [Node -> PhpValue]
  BY DecodedNode
<1>5. Shape(stk) /\ Good(Decoded, stk, pend)
  BY DEF Stacks, FaithInv
<1>6. /\ stk[Len(stk)].f # "user" /\ stk[Len(stk)].pc <= Len(Entries(stk[Len(stk)]))
      /\ stk[Len(stk)].steady /\ ~pend' => v = NextValue(Decoded, stk[Len(stk)])
  BY <1>2, <1>3
<1>7. Good(Decoded, Put(stk, v), pend')
  BY <1>1, <1>4, <1>5, <1>6, PutGood, Zenon
<1> QED BY <1>2, <1>7

\* One stored by the activation below the one that ends.
LEMMA ResumeGood ==
    ASSUME RegOK, Stacks, FaithInv, ~fatal, Len(stk) > 1, Top.f # "call",
           NEW val \in PhpValue, Resume(val),
           Top.steady /\ ~pend => val = Decoded[Top.node]
    PROVE  Good(Decoded, stk', pend)
<1> DEFINE n == Len(stk) - 1
           b == Below(stk)
           fr == stk[n]
           v == KeyPart(fr) \o val
<1>1. /\ Len(stk) \in Nat /\ n \in 1..(Len(stk) - 1) /\ Len(stk) = n + 1 /\ Len(stk) \in n..Len(stk)
      /\ n \in 1..Len(stk) /\ Len(stk) \in 2..Len(stk) /\ Top = stk[Len(stk)]
  BY StackFacts DEF Stacks, Top
<1>2. Shape(b) /\ Len(b) = n /\ \A i \in 1..n : b[i] = stk[i]
  BY <1>1, CutShape DEF Stacks, Below
<1>3. Good(Decoded, b, pend)
  BY <1>1, CutGood DEF Stacks, FaithInv, Below
<1>4. fr \in Act /\ fr.f # "user" /\ fr.pc <= Len(Entries(fr))
  BY <1>1, StackFacts DEF Stacks, Shape
<1>5. v \in PhpValue
  BY <1>4, EntryFacts, FaultyConcat
<1>6. stk' = Put(b, v)
  BY DEF Resume
<1>7. Runs(Decoded, fr, Top)
  BY <1>1 DEF FaithInv, Good
<1>8. fr.steady /\ ~pend => v = NextValue(Decoded, fr)
  BY <1>4, <1>7 DEF Runs, NextValue
<1>9. Decoded \in [Node -> PhpValue] /\ b[Len(b)] = fr
  BY <1>1, <1>2, DecodedNode
<1> HIDE DEF n, b, fr, v
<1>10. /\ b[Len(b)].f # "user" /\ b[Len(b)].pc <= Len(Entries(b[Len(b)]))
       /\ b[Len(b)].steady /\ ~pend => v = NextValue(Decoded, b[Len(b)])
  BY <1>4, <1>8, <1>9
<1>11. Good(Decoded, Put(b, v), pend)
  <2>1. Decoded \in [Node -> PhpValue] /\ Shape(b) /\ (pend => pend)
    BY <1>2, <1>9
  <2> QED BY <1>3, <1>5, <1>10, <2>1, PutGood, Zenon
<1> QED BY <1>6, <1>11

\* An activation entered.
LEMMA PushedGood ==
    ASSUME RegOK, Stacks, FaithInv, ~fatal, NEW fr \in Act, Push(fr), fr.out = <<>>, fr.pc = 1,
           fr.f = "call" <=> Top.f = "user",
           Top.f # "user" => Top.pc <= Len(Entries(Top)),
           Runs(Decoded, Top, fr), ~pend \/ fr.f # "user"
    PROVE  Good(Decoded, stk', pend)
<1>1. stk' = Append(stk, fr) /\ Top = stk[Len(stk)]
  BY DEF Push, Top
<1>2. Decoded \in [Node -> PhpValue]
  BY DecodedNode
<1>3. Shape(stk) /\ Good(Decoded, stk, pend)
  BY DEF Stacks, FaithInv
<1> QED BY <1>1, <1>2, <1>3, PushGood

LEMMA FrameFields ==
    ASSUME NEW f, NEW n, NEW by
    PROVE  /\ Frame(f, n, by).f = f /\ Frame(f, n, by).node = n /\ Frame(f, n, by).by = by
           /\ Frame(f, n, by).pc = 1 /\ Frame(f, n, by).out = <<>> /\ Frame(f, n, by).steady
BY DEF Frame

LEMMA CallGood ==
    ASSUME RegOK, Stacks, FaithInv, NEW n \in Given, Call(n) PROVE Good(Decoded, stk', pend')
<1> DEFINE fr == Frame("call", n, None)
<1>1. ~fatal /\ Top.f = "user" /\ Push(fr) /\ pend' = pend
  BY DEF Call, Work, Running
<1>2. fr \in Act /\ fr.f = "call" /\ fr.out = <<>> /\ fr.pc = 1 /\ fr.steady
  <2>1. n \in Node
    BY DocAssumption
  <2> QED BY <2>1, Frames, FrameFields
<1>3. Runs(Decoded, Top, fr)
  BY <1>1, <1>2 DEF Runs
<1> HIDE DEF fr
<1> QED BY <1>1, <1>2, <1>3, PushedGood

LEMMA DescendGood ==
    ASSUME RegOK, Stacks, FaithInv, Descend PROVE Good(Decoded, stk', pend')
<1> DEFINE fr == Frame("loop", This, None)
<1>1. Deserializing /\ Push(fr) /\ Doc[This].kind \in Tables /\ pend' = pend
  BY DEF Descend
<1>2. /\ fr \in Act /\ fr.f = "loop" /\ fr.out = <<>> /\ fr.pc = 1 /\ fr.steady
      /\ fr.node = This
  BY <1>1, AtEntry, Frames, FrameFields
<1>3. Runs(Decoded, Top, fr)
  BY <1>2 DEF Runs, This
<1> HIDE DEF fr
<1> QED BY <1>1, <1>2, <1>3, AtEntry, PushedGood

LEMMA RunGood ==
    ASSUME RegOK, Stacks, FaithInv, Deserializing, NEW by \in Maker, RunCallback(by),
           UNCHANGED pend, ~pend => Decoded[This] = Made(by, This)
    PROVE  Good(Decoded, stk', pend')
<1> DEFINE fr == Frame("user", This, by)
<1>1. CASE pend
  BY <1>1 DEF RunCallback, FaithInv
<1>2. CASE ~pend
  <2>1. Push(fr)
    BY <1>2 DEF RunCallback
  <2>2. /\ fr \in Act /\ fr.f = "user" /\ fr.out = <<>> /\ fr.pc = 1 /\ fr.steady
        /\ fr.node = This /\ fr.by = by
    BY AtEntry, Frames, FrameFields
  <2>3. Runs(Decoded, Top, fr)
    BY <1>2, <2>2 DEF Runs, This
  <2> HIDE DEF fr
  <2> QED BY <1>2, <2>1, <2>2, <2>3, AtEntry, PushedGood
<1> QED BY <1>1, <1>2

\* What Decoded says of the entry a step is at.
LEMMA DecodedThis ==
    ASSUME RegOK, Stacks, Deserializing
    PROVE  /\ This \in Node /\ Decoded[This] = DecodedFrom(Decoded, This)
           /\ Doc[This].tag \in Tag
BY AtEntry, DecodedNode, DocAssumption

LEMMA PlainGood ==
    ASSUME RegOK, Stacks, FaithInv, Plain PROVE Good(Decoded, stk', pend')
<1>1. Deserializing /\ pend' = pend
  BY DEF Plain
<1>2. This \in Node /\ Decoded[This] = DecodedFrom(Decoded, This)
  BY <1>1, DecodedThis
<1>3. \E val \in PhpValue : Value(val) /\ val = Decoded[This]
  <2>1. CASE Doc[This].kind = "scalar" /\ Value(<< <<"scalar", This>> >>)
    BY <1>2, <2>1, Values, DecodedCases
  <2>2. CASE Doc[This].kind \in {"null", "odd"} /\ Value(Null)
    BY <1>2, <2>2, Values, DecodedCases
  <2>3. CASE /\ Doc[This].kind = "tagged"
             /\ des[Doc[This].tag] = None /\ classOf[Doc[This].tag] = None
             /\ Value(Null)
    BY <1>2, <2>3, Values, DecodedCases
  <2> QED BY <2>1, <2>2, <2>3 DEF Plain
<1> QED BY <1>1, <1>3, ValueGood

LEMMA ByDeserializerGood ==
    ASSUME RegOK, Stacks, FaithInv, ByDeserializer PROVE Good(Decoded, stk', pend')
<1> DEFINE t == Doc[This].tag
           f == des[t][1]
<1>1. Deserializing /\ pend' = pend /\ Doc[This].kind = "tagged" /\ des[t] # None
  BY DEF ByDeserializer
<1>2. This \in Node /\ Decoded[This] = DecodedFrom(Decoded, This) /\ t \in Tag
  BY <1>1, DecodedThis
<1>3. Decoded[This] = IF f \in Callable THEN Made(<<"call", f>>, This) ELSE Undef
  BY <1>1, <1>2, DecodedCases
<1>4. <<"call", f>> \in Maker
  BY <1>1, <1>2, Makers
<1>5. \/ (f \in Callable \/ pend) /\ RunCallback(<<"call", f>>)
      \/ f \notin Callable /\ Value(Undef)
  BY DEF ByDeserializer
<1> HIDE DEF f, t
<1>6. CASE (f \in Callable \/ pend) /\ RunCallback(<<"call", f>>)
  BY <1>1, <1>3, <1>4, <1>6, RunGood
<1>7. CASE f \notin Callable /\ Value(Undef)
  BY <1>1, <1>3, <1>7, Values, ValueGood
<1> QED BY <1>5, <1>6, <1>7

LEMMA ByClassGood ==
    ASSUME RegOK, Stacks, FaithInv, ByClass PROVE Good(Decoded, stk', pend')
<1> DEFINE t == Doc[This].tag
           c == classOf[t][1]
<1>1. Deserializing /\ Doc[This].kind = "tagged" /\ des[t] = None /\ classOf[t] # None
  BY DEF ByClass
<1>2. This \in Node /\ Decoded[This] = DecodedFrom(Decoded, This) /\ t \in Tag
  BY <1>1, DecodedThis
<1>3. Decoded[This] = Made(<<"from", c>>, This)
  BY <1>1, <1>2, DecodedCases
<1>4. <<"from", c>> \in Maker
  BY <1>1, <1>2, Makers
<1>5. \/ RunCallback(<<"from", c>>) /\ UNCHANGED pend
      \/ Value(Garbage) /\ pend' = TRUE
  BY DEF ByClass
<1> HIDE DEF c, t
<1>6. CASE RunCallback(<<"from", c>>) /\ UNCHANGED pend
  BY <1>1, <1>3, <1>4, <1>6, RunGood
<1>7. CASE Value(Garbage) /\ pend' = TRUE
  BY <1>1, <1>7, Values, ValueGood
<1> QED BY <1>5, <1>6, <1>7

\* A callback hands back what it made of its slice, and nothing else.
LEMMA CallbackGood ==
    ASSUME RegOK, Stacks, FaithInv, CallbackReturn \/ CallbackFails
    PROVE  Good(Decoded, stk', pend')
<1>1. ~fatal /\ Top.f = "user" /\ Len(stk) > 1 /\ pend' = pend
  BY DEF CallbackReturn, CallbackFails, InCallback
<1>2. /\ Len(stk) \in 2..Len(stk) /\ Top = stk[Len(stk)] /\ Top \in Act
      /\ Top.by \in Maker /\ Top.node \in Node
  BY <1>1, StackFacts DEF Stacks, Top, Act, Activation
<1>3. Top.steady => Decoded[Top.node] = Made(Top.by, Top.node)
  BY <1>1, <1>2 DEF FaithInv, Good, Runs
<1>4. CASE CallbackReturn
  BY <1>1, <1>2, <1>3, <1>4, Values, ResumeGood DEF CallbackReturn
<1>5. CASE CallbackFails
  BY <1>1, <1>5, Values, ResumeGood DEF CallbackFails, InCallback
<1> QED BY <1>4, <1>5

\* A loop hands back its table, whole.
LEMMA LoopEndGood ==
    ASSUME RegOK, Stacks, FaithInv, LoopEnd PROVE Good(Decoded, stk', pend')
<1>1. /\ ~fatal /\ Top.f = "loop" /\ Resume(Table(Top.node, Top.out)) /\ pend' = pend
      /\ Top.pc > Len(Entries(Top))
  BY DEF LoopEnd
<1>2. Len(stk) \in Nat /\ Len(stk) >= 1 /\ Top = stk[Len(stk)] /\ Top \in Act
  BY StackFacts DEF Stacks, Top
<1>3. Len(stk) > 1
  <2>1. stk[1].f = "user"
    BY DEF Stacks, Shape
  <2> QED BY <1>1, <1>2, <2>1
<1>4. Top.node \in Node /\ Top.out \in PhpValue /\ Doc[Top.node].kind \in Tables /\ Top.pc \in Nat
  BY <1>1, <1>2 DEF Act, Activation, PhpValue
<1>5. Table(Top.node, Top.out) \in PhpValue
  BY <1>4, TableValue
<1>6. Top.pc - 1 = Size(Top.node)
  <2>1. Entries(Top) = Doc[Top.node].entries
    BY <1>1 DEF Entries
  <2>2. Top.pc <= Size(Top.node) + 1
    BY <1>1, <1>2, <2>1 DEF FaithInv, Good, Placed, Size
  <2> QED BY <1>1, <1>4, <2>1, <2>2, SizeFacts DEF Size
<1>7. Top.steady /\ ~pend => Top.out = EntryValues(Decoded, Top.node, Size(Top.node))
  <2>1. Len(stk) \in 1..Len(stk)
    BY <1>2
  <2> QED BY <1>1, <1>2, <1>6, <2>1 DEF FaithInv, Good, Right, Done
<1>8. Decoded[Top.node] = Table(Top.node, EntryValues(Decoded, Top.node, Size(Top.node)))
  BY <1>4, DecodedNode, DecodedCases
<1> QED BY <1>1, <1>3, <1>5, <1>7, <1>8, ResumeGood

\* Back in PHP code.
LEMMA UnwindGood ==
    ASSUME Stacks, FaithInv, NEW n \in 1..(Len(stk) - 1), stk[n].f = "user",
           stk' = SubSeq(stk, 1, n)
    PROVE  Good(Decoded, stk', pend')
<1>1. n \in n..Len(stk)
  BY StackFacts DEF Stacks
<1>2. Shape(stk) /\ Good(Decoded, stk, pend)
  BY DEF Stacks, FaithInv
<1> QED BY <1>1, <1>2, CutGood

LEMMA CallReturnGood ==
    ASSUME Stacks, FaithInv, CallReturn PROVE Good(Decoded, stk', pend')
<1>1. Top.f = "call" /\ stk' = Below(stk)
  BY DEF CallReturn
<1>2. Len(stk) \in Nat /\ Len(stk) >= 1 /\ Top = stk[Len(stk)] /\ stk[1].f = "user"
  BY StackFacts DEF Stacks, Shape, Top
<1>3. Len(stk) \in 2..Len(stk) /\ Len(stk) - 1 \in 1..(Len(stk) - 1)
  BY <1>1, <1>2
<1>4. stk[Len(stk) - 1].f = "user"
  BY <1>1, <1>2, <1>3 DEF Stacks, Shape
<1> QED BY <1>1, <1>3, <1>4, UnwindGood DEF Below

LEMMA GetIntThrowsGood ==
    ASSUME Stacks, FaithInv, GetIntThrows PROVE Good(Decoded, stk', pend')
<1>1. Deserializing /\ stk' = SubSeq(stk, 1, UserLevel)
  BY DEF GetIntThrows
<1>2. UserLevel \in 1..Len(stk) /\ stk[UserLevel].f = "user"
  BY LastUser DEF Stacks
<1>3. UserLevel \in 1..(Len(stk) - 1)
  <2>1. UserLevel # Len(stk)
    BY <1>1, <1>2, AtEntry
  <2> QED BY <1>2, <2>1, StackFacts DEF Stacks
<1> QED BY <1>1, <1>2, <1>3, UnwindGood

\* Throw and catch: a pending exception is nothing to PHP code.
LEMMA ThrowCatchGood ==
    ASSUME Stacks, FaithInv, Throw \/ Catch PROVE Good(Decoded, stk', pend')
<1>1. Top.f = "user" /\ stk' = stk /\ Top = stk[Len(stk)]
  BY StackFacts DEF Throw, Catch, Work, Running, Stacks, Top
<1>2. \A i \in 1..Len(stk) : i \notin Inner(stk)
  BY <1>1, StackFacts DEF Inner, Stacks
<1> QED BY <1>1, <1>2 DEF FaithInv, Good, Right

\* A registration: of the activations there are nothing is claimed any more.
LEMMA RegisterGood ==
    ASSUME Stacks, FaithInv, Work, Unsteady, NEW D PROVE Good(D, stk', pend')
<1>1. /\ Len(stk) \in Nat /\ Len(stk) >= 1 /\ DOMAIN stk = 1..Len(stk) /\ Top = stk[Len(stk)]
      /\ \A i \in 1..Len(stk) : stk[i] \in Act
  BY StackFacts DEF Stacks, Top
<1>2. stk' = [i \in 1..Len(stk) |-> [stk[i] EXCEPT !.steady = FALSE]]
  BY <1>1 DEF Unsteady
<1>3. /\ Len(stk') = Len(stk)
      /\ \A i \in 1..Len(stk) :
           /\ stk'[i].f = stk[i].f /\ stk'[i].node = stk[i].node /\ stk'[i].pc = stk[i].pc
           /\ stk'[i].steady = FALSE
  BY <1>1, <1>2 DEF Act, Activation
<1>4. \A i \in 1..Len(stk) : Entries(stk'[i]) = Entries(stk[i])
  BY <1>3 DEF Entries
<1>5. Placed(stk')
  BY <1>1, <1>3 DEF Work, Running, Placed
<1>6. Right(D, stk', pend')
  BY <1>3 DEF Right
<1>7. ASSUME NEW i \in 2..Len(stk) PROVE Runs(D, stk'[i - 1], stk'[i])
  <2>1. i \in 1..Len(stk) /\ i - 1 \in 1..Len(stk)
    BY <1>1
  <2>2. Runs(Decoded, stk[i - 1], stk[i])
    BY DEF FaithInv, Good
  <2> QED BY <1>3, <1>4, <2>1, <2>2 DEF Runs
<1> QED BY <1>3, <1>5, <1>6, <1>7 DEF Good

LEMMA FaithStep ==
    ASSUME RegOK, Stacks, FaithInv, [Next]_vars PROVE FaithInv'
<1>1. CASE Register
  <2>1. Work /\ Unsteady
    BY <1>1 DEF Register, RegisterMapping, RegisterSerializer, RegisterDeserializer
  <2> QED BY <2>1, RegisterGood DEF FaithInv
<1>2. CASE ~Register
  <2>1. UNCHANGED <<classOf, des>>
    BY <1>2 DEF Next, Php, Cpp, Call, Throw, Catch, CallbackReturn, CallbackFails, Plain,
       GetIntThrows, Descend, ByDeserializer, ByClass, LoopEnd, CallReturn, Stop, vars, registry
  <2>2. Decoded' = Decoded
    BY <2>1 DEF Decoded
  <2>3. CASE UNCHANGED vars
    BY <2>2, <2>3 DEF FaithInv, vars
  <2>4. Good(Decoded, stk', pend')
    BY <1>2, <2>3, CallGood, ThrowCatchGood, CallbackGood, PlainGood, GetIntThrowsGood,
       DescendGood, ByDeserializerGood, ByClassGood, LoopEndGood, CallReturnGood
    DEF Next, Php, Cpp, Stop, FaithInv, vars
  <2> QED BY <2>2, <2>4 DEF FaithInv
<1> QED BY <1>1, <1>2

\* Only the return of TypeMapper::deserialize gives PHP code a value.
LEMMA ReturnsOnly ==
    ASSUME Stacks, Next, Returns PROVE CallReturn
<1>1. Len(stk') < Len(stk) /\ Top.f = "call" /\ ret'.ok /\ Top = stk[Len(stk)] /\ Len(stk) \in Nat
  BY StackFacts DEF Returns, Stacks, Top
<1>2. ~Register
  <2>1. SUFFICES ASSUME Unsteady PROVE FALSE
    BY DEF Register, RegisterMapping, RegisterSerializer, RegisterDeserializer
  <2>2. DOMAIN stk = 1..Len(stk)
    BY StackFacts DEF Stacks
  <2>3. stk' = [i \in 1..Len(stk) |-> [stk[i] EXCEPT !.steady = FALSE]]
    BY <2>1, <2>2 DEF Unsteady
  <2>4. Len(stk') = Len(stk)
    BY <1>1, <2>3
  <2> QED BY <1>1, <2>4
<1>3. ~(\E fr : Push(fr))
  <2>1. SUFFICES ASSUME NEW fr, Push(fr) PROVE FALSE
    OBVIOUS
  <2>2. stk' = Append(stk, fr) /\ stk \in Seq(Act)
    BY <2>1 DEF Push, Stacks, Shape
  <2>3. Len(stk') = Len(stk) + 1
    BY <2>2
  <2> QED BY <1>1, <2>3
<1>4. ~(\E val : Value(val))
  BY <1>1, PutKinds DEF Value, Stacks
<1>5. ~Descend /\ ~(\E n \in Given : Call(n)) /\ ~Plain
  BY <1>3, <1>4 DEF Descend, Call, Plain
<1>6. ~ByDeserializer /\ ~ByClass
  <2>1. ~(\E by : RunCallback(by))
    BY <1>1, <1>3 DEF RunCallback
  <2>2. ~ByDeserializer
    BY <1>4, <2>1 DEF ByDeserializer
  <2>3. ~ByClass
    BY <1>4, <2>1 DEF ByClass
  <2> QED BY <2>2, <2>3
<1>7. ~Throw /\ ~Catch /\ ~CallbackReturn /\ ~CallbackFails /\ ~LoopEnd /\ ~Stop
  BY <1>1 DEF Throw, Catch, CallbackReturn, CallbackFails, InCallback, Work, Running, LoopEnd,
              Stop, vars
<1>8. ~GetIntThrows
  <2>1. SUFFICES ASSUME GetIntThrows PROVE FALSE
    OBVIOUS
  <2>2. ret'.ok = FALSE
    BY <2>1 DEF GetIntThrows, NoAnswer
  <2> QED BY <1>1, <2>2
<1> QED BY <1>2, <1>5, <1>6, <1>7, <1>8 DEF Next, Php, Cpp

\* The value that goes back to PHP code is the document's.
LEMMA ReturnFaithful ==
    ASSUME RegOK, Stacks, FaithInv, CallReturn, ret'.ok, ret'.steady
    PROVE  ret'.val = Decoded[Top.node]
<1>1. /\ Top.f = "call" /\ Top.pc > 1
      /\ ret' = [node |-> <<Top.node>>, val |-> Top.out, ok |-> ~pend, steady |-> Top.steady]
  BY DEF CallReturn
<1>2. ~pend /\ Top.steady /\ ret'.val = Top.out
  BY <1>1
<1>3. Len(stk) \in 1..Len(stk) /\ Top = stk[Len(stk)]
  BY StackFacts DEF Stacks, Top
<1>4. Top.out = Done(Decoded, Top)
  BY <1>2, <1>3 DEF FaithInv, Good, Right
<1> QED BY <1>1, <1>2, <1>4 DEF Done

LEMMA FaithInvariant == Spec => []FaithInv
<1>1. Init => FaithInv
  <2> SUFFICES ASSUME Init PROVE FaithInv
    OBVIOUS
  <2>1. RegOK /\ Stacks
    BY StacksInit
  <2> DEFINE n == CHOOSE n \in Node : TRUE
             fr == Frame("user", n, None)
  <2>2. stk = << fr >>
    BY DEF Init
  <2>3. fr.f = "user" /\ fr.out = <<>>
    BY FrameFields
  <2> HIDE DEF fr
  <2>4. Len(stk) = 1 /\ stk[1] = fr
    BY <2>2
  <2>5. Done(Decoded, fr) = <<>>
    BY <2>3 DEF Done
  <2> QED BY <2>3, <2>4, <2>5 DEF FaithInv, Good, Placed, Right
<1>2. GapInv /\ FaithInv /\ [Next]_vars => FaithInv'
  BY FaithStep DEF GapInv
<1> QED BY <1>1, <1>2, GapInvariant, PTL DEF Spec

\* For every document, registry and bound: a call that returns, and during
\* which nothing was registered, returns the value that the document has under
\* the registry, whatever the callbacks in between deserialized, threw or
\* caught with the same mapper.
THEOREM DocumentsDecoded == Spec => Faithful
<1>1. GapInv /\ FaithInv /\ [Next]_vars
        => [Returns /\ ret'.steady => ret'.val = Decoded[Top.node]]_vars
  <2> SUFFICES ASSUME GapInv, FaithInv, Next, Returns, ret'.steady
               PROVE  ret'.val = Decoded[Top.node]
    OBVIOUS
  <2>1. CallReturn
    BY ReturnsOnly DEF GapInv
  <2> QED BY <2>1, ReturnFaithful DEF GapInv, Returns
<1> QED BY <1>1, GapInvariant, FaithInvariant, PTL DEF Spec, Faithful

-----------------------------------------------------------------------------
(* The type invariant.                                                      *)
\* What the other invariants do not say of it.
Rest ==
    /\ ser \in [Tag -> Maybe(Callback)] /\ fatal \in BOOLEAN
    /\ ops \in 0..MaxOps
    /\ ret \in [node : Maybe(Node), val : Seq(Token), ok : BOOLEAN, steady : BOOLEAN]

LEMMA RestStep ==
    ASSUME Stacks, Rest, [Next]_vars PROVE Rest'
<1>1. ops' \in 0..MaxOps
  <2>1. Work \/ UNCHANGED ops
    BY DEF Next, Php, Cpp, Register, RegisterMapping, RegisterSerializer, RegisterDeserializer,
       Call, Throw, Catch, CallbackReturn, CallbackFails, Plain, GetIntThrows, Descend,
       ByDeserializer, ByClass, LoopEnd, CallReturn, Stop, vars
  <2> QED BY <2>1, BoundAssumption DEF Work, Rest
<1>3. ser' \in [Tag -> Maybe(Callback)]
  <2>1. CASE \E t \in Tag, f \in Callback : RegisterSerializer(t, f)
    <3>1. PICK t \in Tag, f \in Callback : RegisterSerializer(t, f)
      BY <2>1
    <3>2. ser' = [ser EXCEPT ![t] = <<f>>]
      BY <3>1 DEF RegisterSerializer, Stored
    <3> QED BY <3>2, MaybeOne DEF Rest
  <2>2. CASE ~(\E t \in Tag, f \in Callback : RegisterSerializer(t, f))
    <3>1. UNCHANGED ser
      BY <2>2 DEF Next, Php, Cpp, Register, RegisterMapping, RegisterDeserializer, Call, Throw,
       Catch, CallbackReturn, CallbackFails, Plain, GetIntThrows, Descend, ByDeserializer,
       ByClass, LoopEnd, CallReturn, Stop, vars, registry
    <3> QED BY <3>1 DEF Rest
  <2> QED BY <2>1, <2>2
<1>4. fatal' \in BOOLEAN
  <2>1. fatal' = TRUE \/ UNCHANGED fatal
    BY DEF Next, Php, Cpp, Register, RegisterMapping, RegisterSerializer, RegisterDeserializer,
       Call, Throw, Catch, CallbackReturn, CallbackFails, Plain, GetIntThrows, Descend,
       ByDeserializer, ByClass, RunCallback, LoopEnd, CallReturn, Stop, vars
  <2> QED BY <2>1 DEF Rest
<1>5. ret' \in [node : Maybe(Node), val : Seq(Token), ok : BOOLEAN, steady : BOOLEAN]
  <2>1. CASE CallReturn
    <3>1. /\ ret' = [node |-> <<Top.node>>, val |-> Top.out, ok |-> ~pend, steady |-> Top.steady]
          /\ Top \in Act
      BY <2>1, StackFacts DEF CallReturn, Stacks, Top
    <3>2. Top.node \in Node /\ Top.out \in Seq(Token) /\ Top.steady \in BOOLEAN
      BY <3>1 DEF Act, Activation
    <3>3. <<Top.node>> \in Maybe(Node)
      BY <3>2, MaybeOne
    <3> DEFINE ok == ~pend
               z == <<Top.node>>
    <3>4. ok \in BOOLEAN
      OBVIOUS
    <3>5. ret' = [node |-> z, val |-> Top.out, ok |-> ok, steady |-> Top.steady]
      BY <3>1
    <3> HIDE DEF ok, z
    <3>6. ret' \in [node : Maybe(Node), val : Seq(Token), ok : BOOLEAN, steady : BOOLEAN]
      BY <3>2, <3>3, <3>4, <3>5 DEF z
    <3> QED BY <3>6
  <2>2. CASE GetIntThrows
    <3>1. ret' = [NoAnswer EXCEPT !.node = <<stk[UserLevel + 1].node>>] /\ Deserializing
      BY <2>2 DEF GetIntThrows
    <3>2. UserLevel \in 1..Len(stk) /\ stk[UserLevel].f = "user"
      BY LastUser DEF Stacks
    <3>3. UserLevel # Len(stk)
      BY <3>1, <3>2, AtEntry
    <3>4. UserLevel + 1 \in 1..Len(stk)
      BY <3>2, <3>3, StackFacts DEF Stacks
    <3>5. stk[UserLevel + 1].node \in Node
      BY <3>4, StackFacts DEF Stacks, Act, Activation
    <3>6. <<stk[UserLevel + 1].node>> \in Maybe(Node)
      BY <3>5, MaybeOne
    <3>7. <<>> \in Seq(Token)
      OBVIOUS
    <3> DEFINE z == <<stk[UserLevel + 1].node>>
    <3>8. ret' = [node |-> z, val |-> <<>>, ok |-> FALSE, steady |-> FALSE]
      BY <3>1 DEF NoAnswer
    <3> HIDE DEF z
    <3> QED BY <3>6, <3>7, <3>8 DEF z
  <2>3. CASE ~CallReturn /\ ~GetIntThrows
    <3>1. UNCHANGED ret
      BY <2>3 DEF Next, Php, Cpp, Register, RegisterMapping, RegisterSerializer,
       RegisterDeserializer, Call, Throw, Catch, CallbackReturn, CallbackFails, Plain, Descend,
       ByDeserializer, ByClass, LoopEnd, Stop, vars
    <3> QED BY <3>1 DEF Rest
  <2> QED BY <2>1, <2>2, <2>3
<1> QED BY <1>1, <1>3, <1>4, <1>5 DEF Rest

\* For every document, registry and bound, the values of the variables have
\* their types: no step stores a frame, an answer or a callback that is none,
\* and the references counted are never fewer than none.
THEOREM TypesKept == Spec => []TypeOK
<1>1. Init => Rest
  <2> SUFFICES ASSUME Init PROVE Rest
    OBVIOUS
  <2>1. <<>> \in Seq(Token) /\ None \in Maybe(Node) /\ 0 \in 0..MaxOps
    BY BoundAssumption DEF Maybe
  <2>2. ret \in [node : Maybe(Node), val : Seq(Token), ok : BOOLEAN, steady : BOOLEAN]
    BY <2>1 DEF Init, NoAnswer
  <2>3. ser \in [Tag -> Maybe(Callback)]
    BY DEF Init, Maybe
  <2> QED BY <2>1, <2>2, <2>3 DEF Init, Rest
<1>2. GapInv /\ Rest /\ [Next]_vars => Rest'
  BY RestStep DEF GapInv
<1>3. GapInv /\ HeldInv /\ TablesOK /\ Rest => TypeOK
  <2> SUFFICES ASSUME GapInv, HeldInv, TablesOK, Rest PROVE TypeOK
    OBVIOUS
  <2>1. stk \in Seq(Activation) /\ stk # <<>>
    <3>1. stk \in Seq(Act) /\ stk # <<>> /\ Act \subseteq Activation
      BY DEF GapInv, Stacks, Shape, Act
    <3> QED BY <3>1
  <2>2. held \in Nat
    BY UsersFinite DEF GapInv, Stacks, HeldInv
  <2>3. {pend, fatal, clean, sound} \subseteq BOOLEAN
    BY DEF GapInv, Stacks, HeldInv, Rest
  <2> QED BY <2>1, <2>2, <2>3 DEF TypeOK, GapInv, RegOK, TablesOK, Rest
<1> QED BY <1>1, <1>2, <1>3, GapInvariant, HeldInvariant, TablesKept, PTL DEF Spec
=============================================================================
