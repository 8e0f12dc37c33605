-------------------------- MODULE Lifecycle_proofs --------------------------
(* Proofs about Lifecycle: for any number of objects and arrays, and any      *)
(* bounds.  The inductive invariant Inv joins the reference counts to the     *)
(* cycle of mapper and builder: the counts show that nothing held is freed,    *)
(* the cycle that no constructed mapper is ever without a holder, and so that  *)
(* the registry's arrays, which its free handler would release once too often, *)
(* keep exact counts too.                                                     *)
EXTENDS Lifecycle, Foundations

(* The inductive invariant.                                                  *)

\* The references to an object.
Held(h) == vars[h] + owed[h] + lost[h] + Pointing(bld, h) + Pointing(mapper, h)
Counted == (\A h \in Handle : refs[h] >= Held(h)) /\ CountsExact

\* Only constructed objects have links, free ones have nothing, and the one
\* that is being freed at the end has given its links up.
Shape ==
    \A h \in Handle :
        /\ bld[h] # None => IsMapper(h)
        /\ reg[h] # None => IsMapper(h)
        /\ mapper[h] # None => kind[h] = "builder"
        /\ prop[h] # None => Live(h)
        /\ kind[h] = "free" => refs[h] = 0 /\ ~made[h]
        /\ h = freeing => bld[h] = None /\ mapper[h] = None /\ reg[h] = None /\ prop[h] = None
\* Until the request ends, a constructed mapper has its builder and its array.
Complete ==
    phase = "script" =>
        /\ freeing = None
        /\ \A h \in Handle :
            /\ kind[h] # "gone"
            /\ IsMapper(h) => bld[h] # None /\ reg[h] # None /\ kind[bld[h]] = "builder"

\* A builder that a mapper has, or had before it was constructed again; and
\* mappers held by such a builder, or that a builder had before it was.
Pinned(b) == lost[b] >= 1 \/ \E m \in Handle : bld[m] = b
MappersPinned ==
    phase = "script" =>
        \A h \in Handle : IsMapper(h) =>
            lost[h] >= 1 \/ \E b \in Handle : mapper[b] = h /\ Pinned(b)
CallsPinned ==
    /\ phase = "script" =>
         \A i \in DOMAIN calls : kind[calls[i]] = "builder" /\ Pinned(calls[i])
    /\ phase = "end" => calls = <<>>

\* Nothing refers to an array that was not allocated.
Allocated ==
    /\ \A h \in Handle : /\ reg[h] # None => reg[h] \in used
                         /\ prop[h] # None => prop[h] \in used
                         /\ bld[h] # None => used # {}
    /\ \A a \in Arr : a \notin used => rc[a] = 0 /\ copies[a] = 0 /\ owedArr[a] = 0

Tamed ==
    tame /\ phase = "script" =>
        /\ ~bad
        /\ \A h \in Handle :
            /\ Live(h) => made[h] /\ kind[h] # "hollow"
            /\ kind[h] = "builder" => IsMapper(mapper[h])
            /\ IsMapper(h) => prop[h] = reg[h]

\* The end of a request without mappers, and builders that hold older objects.
Downward == ~upward => \A h \in Handle : mapper[h] # None => mapper[h] <= h
Ending ==
    phase = "end" /\ used = {} /\ ~upward =>
        /\ ~bad
        /\ \A h \in Handle : owed[h] > 0 => Live(h)
        /\ \A g, k \in Handle : kind[g] = "gone" /\ Live(k) => k < g
        /\ freeing # None =>
             /\ Live(freeing) /\ refs[freeing] > Held(freeing)
             /\ \A k \in Handle : Live(k) => k <= freeing

Inv == /\ TypeOK /\ Counted /\ Shape /\ Complete /\ MappersPinned /\ CallsPinned
       /\ Allocated /\ Tamed /\ Downward /\ Ending

-----------------------------------------------------------------------------
(* Counting.                                                                *)

\* Changing one link changes the number of links to the old and the new end.
LEMMA PointingMove ==
    ASSUME NEW f, NEW g, NEW h \in Handle, NEW x, \A k \in Handle \ {h} : g[k] = f[k]
    PROVE  /\ (g[h] = x <=> f[h] = x) => Pointing(g, x) = Pointing(f, x)
           /\ g[h] = x /\ f[h] # x => Pointing(g, x) = Pointing(f, x) + 1
           /\ g[h] # x /\ f[h] = x => Pointing(g, x) = Pointing(f, x) - 1
<1>1. IsFiniteSet(Handle) BY HandleAssumption
<1>2. /\ (g[h] = x <=> f[h] = x) => CountOf(Handle, g, x) = CountOf(Handle, f, x)
      /\ g[h] = x /\ f[h] # x => CountOf(Handle, g, x) = CountOf(Handle, f, x) + 1
      /\ g[h] # x /\ f[h] = x => CountOf(Handle, g, x) = CountOf(Handle, f, x) - 1
  BY <1>1, CountMoved
<1>3. QED BY <1>2 DEF Pointing, CountOf

LEMMA PointingType ==
    ASSUME NEW f, NEW x
    PROVE  Pointing(f, x) \in Nat /\ (Pointing(f, x) = 0 <=> \A h \in Handle : f[h] # x)
BY CountType, HandleAssumption DEF Pointing, CountOf

\* The others see nothing of it.
LEMMA PointingStay ==
    ASSUME NEW f, NEW g, NEW h \in Handle, NEW x, \A k \in Handle \ {h} : g[k] = f[k],
           f[h] # x, g[h] # x
    PROVE  Pointing(g, x) = Pointing(f, x)
BY PointingMove

\* What the old end of a link loses.
LEMMA PointingLeave ==
    ASSUME NEW f, NEW g, NEW h \in Handle, NEW x, \A k \in Handle \ {h} : g[k] = f[k],
           f[h] = x, g[h] # x
    PROVE  Pointing(g, x) = Pointing(f, x) - 1
<1>1. \A k \in Handle \ {h} : f[k] = g[k] OBVIOUS
<1>2. Pointing(f, x) = Pointing(g, x) + 1 BY <1>1, PointingMove
<1>3. Pointing(f, x) \in Nat /\ Pointing(g, x) \in Nat BY PointingType
<1>4. QED BY <1>2, <1>3

LEMMA PlusType ==
    ASSUME NEW S, 0 \notin S, NEW f \in [S -> Nat], NEW x \in S \cup {None}
    PROVE  /\ Plus(f, x) \in [S -> Nat]
           /\ \A k \in S : Plus(f, x)[k] = f[k] + (IF k = x THEN 1 ELSE 0)
BY DEF Plus, None

\* What the sums are made of.
LEMMA HeldType ==
    ASSUME TypeOK
    PROVE  \A h \in Handle : Held(h) \in Nat /\ vars[h] \in Nat /\ owed[h] \in Nat
             /\ lost[h] \in Nat /\ refs[h] \in Nat
             /\ Pointing(bld, h) \in Nat /\ Pointing(mapper, h) \in Nat
BY PointingType DEF TypeOK, Held

\* A handle is no zero.
LEMMA NoZero == 0 \notin Handle /\ 0 \notin Arr
BY HandleAssumption, ArrAssumption

-----------------------------------------------------------------------------
LEMMA InitInv == Init => Inv
<1> SUFFICES ASSUME Init PROVE Inv OBVIOUS
<1>0. \A x \in Handle : Pointing(bld, x) = 0 /\ Pointing(mapper, x) = 0
  BY PointingType, NoZero DEF Init, None
<1>00. \A a \in Arr : Pointing(prop, a) = 0
  BY PointingType, NoZero DEF Init, None
<1>1. TypeOK
  <2>1. calls \in Seq(Handle) BY DEF Init
  <2>2. QED BY <2>1 DEF Init, TypeOK, HandleOrNone, ArrOrNone
<1>2. Counted BY <1>0, <1>00 DEF Init, Counted, CountsExact, Held
<1>3. Shape /\ Complete BY NoZero DEF Init, Shape, Complete, IsMapper
<1>4. MappersPinned /\ CallsPinned BY DEF Init, MappersPinned, CallsPinned, IsMapper
<1>5. Allocated BY DEF Init, Allocated
<1>6. Tamed BY DEF Init, Tamed, Live, IsMapper
<1>7. Downward /\ Ending BY DEF Init, Downward, Ending
<1>8. QED BY <1>1, <1>2, <1>3, <1>4, <1>5, <1>6, <1>7 DEF Inv

-----------------------------------------------------------------------------
(* Steps that change no reference.                                          *)

\* Objects, links, arrays and releases stay.
References == <<object, link, array, owed, owedArr, phase, freeing, upward, tame>>

LEMMA SameReferences ==
    ASSUME Inv, UNCHANGED References
    PROVE  Counted' /\ Shape' /\ Complete' /\ MappersPinned' /\ Allocated' /\ Downward'
<1> USE DEF Inv, References, object, link, array
<1>1. Counted' BY DEF Counted, CountsExact, Held, Pointing
<1>2. Shape' /\ Complete' BY DEF Shape, Complete, IsMapper, Live
<1>3. MappersPinned' BY DEF MappersPinned, Pinned, IsMapper
<1>4. Allocated' /\ Downward' BY DEF Allocated, Downward
<1>5. QED BY <1>1, <1>2, <1>3, <1>4

LEMMA UseStep ==
    ASSUME Inv, NEW h \in Handle, UseMapper(h) \/ UseBuilder(h)
    PROVE  Inv'
<1> USE DEF Inv
<1>1. UNCHANGED <<object, link, array, owed, owedArr, calls, flow, tame>> /\ Quiet
  BY DEF UseMapper, UseBuilder
<1>2. UNCHANGED References BY <1>1 DEF References, flow
<1>3. bad' \in BOOLEAN BY DEF UseMapper, UseBuilder
<1>4. TypeOK' BY <1>1, <1>3 DEF TypeOK, object, link, array, flow
<1>5. CallsPinned' BY <1>1 DEF CallsPinned, Pinned, object, link, flow
<1>6. Tamed'
  <2>1. SUFFICES ASSUME tame PROVE ~bad'
    BY <2>1, <1>1 DEF Tamed, Live, IsMapper, object, link, flow
  <2>2. phase = "script" BY <1>1 DEF Quiet
  <2>3. \A k \in Handle : IsMapper(k) => Usable(k)
    <3>1. SUFFICES ASSUME NEW k \in Handle, IsMapper(k) PROVE rc[reg[k]] > 0
      BY <3>1 DEF Usable
    <3>2. reg[k] # None /\ prop[k] = reg[k] BY <2>1, <2>2, <3>1 DEF Complete, Tamed
    <3>3. reg[k] \in Arr BY <3>2 DEF TypeOK, ArrOrNone
    <3>4. Pointing(prop, reg[k]) \in Nat \ {0} BY <3>2, PointingType
    <3>5. rc[reg[k]] = copies[reg[k]] + owedArr[reg[k]] + Pointing(prop, reg[k])
      BY <2>2, <3>3 DEF Counted, CountsExact
    <3>6. copies[reg[k]] \in Nat /\ owedArr[reg[k]] \in Nat BY <3>3 DEF TypeOK
    <3>7. QED BY <3>4, <3>5, <3>6
  <2>4. Live(h) /\ (kind[h] = "builder" => IsMapper(mapper[h])) /\ kind[h] # "hollow"
    BY <2>1, <2>2, <1>1 DEF Tamed, UseMapper, UseBuilder, Reach
  <2>5. CASE UseMapper(h)
    <3>1. kind[h] = "mapper" /\ made[h] BY <2>1, <2>2, <2>4, <2>5 DEF UseMapper, Tamed
    <3>2. IsMapper(h) BY <3>1, NoZero DEF IsMapper, None
    <3>3. QED BY <3>2, <2>3, <2>5 DEF UseMapper
  <2>6. CASE UseBuilder(h)
    <3>1. kind[h] = "builder" BY <2>4, <2>6 DEF UseBuilder
    <3>2. IsMapper(mapper[h]) BY <2>4, <3>1
    <3>3. mapper[h] \in Handle BY <3>2 DEF TypeOK, HandleOrNone, IsMapper
    <3>4. QED BY <3>1, <3>2, <3>3, <2>3, <2>6 DEF UseBuilder
  <2>7. QED BY <2>5, <2>6
<1>7. Ending' BY <1>1 DEF Ending, Quiet, flow
<1>8. QED BY <1>2, <1>4, <1>5, <1>6, <1>7, SameReferences

LEMMA SerializeStep ==
    ASSUME Inv, (\E h \in Handle : SerializeBegin(h)) \/ SerializeEnd
    PROVE  Inv'
<1> USE DEF Inv
<1>1. UNCHANGED <<object, link, array, owed, owedArr, flow, tame>> /\ phase = "script"
  BY DEF SerializeBegin, SerializeEnd, Quiet
<1>2. UNCHANGED References BY <1>1 DEF References, flow
<1>3. \A i \in DOMAIN calls : kind[calls[i]] = "builder" /\ Pinned(calls[i])
  BY <1>1 DEF CallsPinned
<1>4. calls \in Seq(Handle) BY DEF TypeOK
<1>5. /\ calls' \in Seq(Handle) /\ bad' \in BOOLEAN /\ (tame => ~bad')
      /\ \A i \in DOMAIN calls' : kind[calls'[i]] = "builder" /\ Pinned(calls'[i])
  <2>1. CASE \E h \in Handle : SerializeBegin(h)
    <3>1. PICK h \in Handle : SerializeBegin(h) BY <2>1
    <3>2. IsMapper(h) /\ calls' = Append(calls, bld[h]) /\ bad' = bad
      BY <3>1 DEF SerializeBegin, Usable
    <3>3. bld[h] \in Handle /\ kind[bld[h]] = "builder" /\ Pinned(bld[h])
      BY <3>2, <1>1 DEF Complete, TypeOK, HandleOrNone, Pinned
    <3>4. calls' \in Seq(Handle) BY <1>4, <3>2, <3>3
    <3>5. \A i \in DOMAIN calls' : calls'[i] = bld[h] \/ (i \in DOMAIN calls /\ calls'[i] = calls[i])
      BY <1>4, <3>2, <3>3
    <3>6. bad' \in BOOLEAN /\ (tame => ~bad') BY <3>2, <1>1 DEF Tamed, TypeOK
    <3>7. QED BY <3>3, <3>4, <3>5, <3>6, <1>3
  <2>2. CASE SerializeEnd
    <3>1. /\ calls # <<>> /\ calls' = SubSeq(calls, 1, Len(calls) - 1)
          /\ bad' = (kind[calls[Len(calls)]] # "builder")
      BY <2>2 DEF SerializeEnd
    <3>2. calls' \in Seq(Handle) BY <1>4, <3>1
    <3>3. \A i \in DOMAIN calls' : i \in DOMAIN calls /\ calls'[i] = calls[i]
      BY <1>4, <3>1
    <3>4. Len(calls) \in DOMAIN calls BY <1>4, <3>1
    <3>5. kind[calls[Len(calls)]] = "builder" BY <1>3, <3>4
    <3>6. bad' = FALSE BY <3>1, <3>5, Zenon
    <3>7. \A i \in DOMAIN calls' : kind[calls'[i]] = "builder" /\ Pinned(calls'[i])
      BY <3>3, <1>3
    <3>8. QED BY <3>2, <3>6, <3>7
  <2>3. QED BY <2>1, <2>2
<1>6. TypeOK' BY <1>1, <1>5 DEF TypeOK, object, link, array, flow
<1>7. CallsPinned' BY <1>1, <1>5 DEF CallsPinned, Pinned, object, link, flow
<1>8. Tamed' BY <1>1, <1>5 DEF Tamed, Live, IsMapper, object, link, flow
<1>9. Ending' BY <1>1 DEF Ending, flow
<1>10. QED BY <1>2, <1>6, <1>7, <1>8, <1>9, SameReferences

LEMMA EndRequestStep ==
    ASSUME Inv, EndRequest, ~bad
    PROVE  Inv'
<1> USE DEF Inv, EndRequest, Quiet
<1>1. TypeOK' BY DEF TypeOK, object, link, array
<1>2. Counted' BY DEF Counted, CountsExact, Held, Pointing, object, link
<1>3. Shape' BY DEF Shape, IsMapper, Live, object, link
<1>4. Complete' /\ MappersPinned' /\ CallsPinned' /\ Tamed'
  BY DEF Complete, MappersPinned, CallsPinned, Tamed
<1>5. Allocated' /\ Downward' BY DEF Allocated, Downward, object, link, array
<1>6. Ending' BY DEF Ending, Complete, NothingOwed, Live, object
<1>7. QED BY <1>1, <1>2, <1>3, <1>4, <1>5, <1>6

-----------------------------------------------------------------------------
(* Steps that move references to objects and leave all links alone.          *)

\* Everything of the invariant but types, counts and the end of the request.
LEMMA SameLinks ==
    ASSUME Inv, UNCHANGED <<kind, made, lost, link, array, owedArr, calls, flow, tame>>,
           tame /\ phase = "script" => ~bad'
    PROVE  /\ Shape' \/ \E h \in Handle : kind[h] = "free" /\ refs'[h] # refs[h]
           /\ Complete' /\ MappersPinned' /\ CallsPinned' /\ Allocated' /\ Downward'
           /\ Tamed'
<1> USE DEF Inv, link, array, flow
<1>1. Shape' \/ \E h \in Handle : kind[h] = "free" /\ refs'[h] # refs[h]
  BY DEF Shape, IsMapper, Live
<1>2. Complete' /\ MappersPinned' /\ CallsPinned'
  BY DEF Complete, MappersPinned, CallsPinned, IsMapper, Pinned
<1>3. Allocated' /\ Downward' BY DEF Allocated, Downward
<1>4. Tamed' BY DEF Tamed, Live, IsMapper
<1>5. QED BY <1>1, <1>2, <1>3, <1>4

LEMMA ShareStep ==
    ASSUME Inv, NEW h \in Handle, Share(h) \/ Unset(h), ~bad
    PROVE  Inv'
<1> USE DEF Inv
<1>1. /\ UNCHANGED <<kind, made, lost, link, array, owedArr, calls, flow, tame, bad>>
      /\ Live(h) /\ phase = "script"
  BY DEF Share, Unset, Reach, Quiet
<1>2. \/ /\ refs' = [refs EXCEPT ![h] = @ + 1] /\ vars' = [vars EXCEPT ![h] = @ + 1]
         /\ owed' = owed
      \/ /\ vars' = [vars EXCEPT ![h] = @ - 1] /\ owed' = [owed EXCEPT ![h] = @ + 1]
         /\ refs' = refs /\ vars[h] > 0
  BY DEF Share, Unset, Reach
<1>3. /\ refs \in [Handle -> Nat] /\ vars \in [Handle -> Nat] /\ owed \in [Handle -> Nat]
      /\ lost \in [Handle -> Nat]
  BY DEF TypeOK
<1>4. refs' \in [Handle -> Nat] /\ vars' \in [Handle -> Nat] /\ owed' \in [Handle -> Nat]
  BY <1>2, <1>3
<1>5. TypeOK' BY <1>1, <1>4 DEF TypeOK, link, array, flow
<1>6. Counted'
  <2>1. \A x \in Handle : Pointing(bld, x) \in Nat /\ Pointing(mapper, x) \in Nat
    BY PointingType
  <2>2. bld' = bld /\ mapper' = mapper /\ lost' = lost BY <1>1 DEF link
  <2>3. \A x \in Handle : Held(x)' - Held(x) = refs'[x] - refs[x] /\ Held(x) \in Nat
    BY <1>2, <1>3, <2>1, <2>2 DEF Held, Pointing
  <2>4. \A x \in Handle : Held(x)' \in Int
    BY <1>3, <1>4, <2>1, <2>2 DEF Held, Pointing
  <2>5. \A x \in Handle : refs'[x] >= Held(x)'
    BY <2>3, <2>4, <1>3, <1>4 DEF Counted
  <2>6. \A x \in Handle : refs'[x] = Held(x)'
    <3>1. \A x \in Handle : refs[x] = Held(x) BY <1>1 DEF Counted, CountsExact, Held
    <3>2. QED BY <3>1, <2>3, <2>4, <1>3, <1>4
  <2>7. CountsExact'
    BY <2>6, <1>1 DEF Counted, CountsExact, Held, Pointing, link, array, flow
  <2>8. QED BY <2>5, <2>7 DEF Counted
<1>7. \A k \in Handle : kind[k] = "free" => refs'[k] = refs[k]
  BY <1>1, <1>2, <1>3 DEF Live
<1>8. Ending' BY <1>1 DEF Ending, flow
<1>9. QED BY <1>1, <1>5, <1>6, <1>7, <1>8, SameLinks

LEMMA DropMoreStep ==
    ASSUME Inv, NEW h \in Handle, DropMore(h), ~bad
    PROVE  Inv'
<1> USE DEF Inv
<1>1. /\ UNCHANGED <<kind, made, vars, lost, link, array, owedArr, calls, flow, tame>>
      /\ owed[h] > 0 /\ bad' = ~Live(h) /\ (refs[h] > 1 \/ ~Live(h))
      /\ refs' = [refs EXCEPT ![h] = @ - 1] /\ owed' = [owed EXCEPT ![h] = @ - 1]
  BY DEF DropMore
<1>2. /\ refs \in [Handle -> Nat] /\ vars \in [Handle -> Nat] /\ owed \in [Handle -> Nat]
      /\ lost \in [Handle -> Nat]
  BY DEF TypeOK
<1>3. \A x \in Handle : Pointing(bld, x) \in Nat /\ Pointing(mapper, x) \in Nat
  BY PointingType
<1>4. refs[h] >= owed[h] /\ refs[h] >= 1 BY <1>1, <1>2, <1>3 DEF Counted, Held
<1>5. refs' \in [Handle -> Nat] /\ owed' \in [Handle -> Nat] BY <1>1, <1>2, <1>4
<1>6. TypeOK' BY <1>1, <1>5 DEF TypeOK, link, array, flow
<1>7. bld' = bld /\ mapper' = mapper /\ lost' = lost /\ vars' = vars
  BY <1>1 DEF link
<1>8. \A x \in Handle : /\ Held(x)' - Held(x) = refs'[x] - refs[x]
                        /\ Held(x) \in Nat /\ Held(x)' \in Int
  BY <1>1, <1>2, <1>3, <1>5, <1>7 DEF Held, Pointing
<1>9. Counted'
  <2>1. \A x \in Handle : refs'[x] >= Held(x)' BY <1>8, <1>2, <1>5 DEF Counted
  <2>2. phase = "script" => \A x \in Handle : refs'[x] = Held(x)'
    BY <1>8, <1>2, <1>5 DEF Counted, CountsExact, Held
  <2>3. CountsExact'
    BY <2>2, <1>1 DEF Counted, CountsExact, Held, Pointing, link, array, flow
  <2>4. QED BY <2>1, <2>3 DEF Counted
<1>10. kind[h] # "free" BY <1>4 DEF Shape
<1>11. \A k \in Handle : kind[k] = "free" => refs'[k] = refs[k] BY <1>1, <1>2, <1>10
<1>12. phase = "script" => Live(h)
  BY <1>10 DEF Complete, TypeOK, Live
<1>13. Ending'
  <2>1. SUFFICES ASSUME phase = "end", used = {}, ~upward PROVE Ending'
    BY <1>1 DEF Ending, flow, array
  <2>2. Live(h) BY <2>1, <1>1 DEF Ending
  <2>3. bad' = FALSE BY <1>1, <2>2, Zenon
  <2>4. \A k \in Handle : owed'[k] > 0 => owed[k] > 0 BY <1>1, <1>2
  <2>5. freeing # None => freeing \in Handle BY DEF TypeOK, HandleOrNone
  <2>6. freeing # None => refs'[freeing] > Held(freeing)'
    <3>1. \A x \in Handle : refs[x] > Held(x) => refs'[x] > Held(x)' BY <1>2, <1>5, <1>8
    <3>2. freeing' = freeing BY <1>1 DEF flow
    <3>3. freeing # None => refs[freeing] > Held(freeing) BY <2>1 DEF Ending
    <3>4. SUFFICES ASSUME freeing # None PROVE refs'[freeing] > Held(freeing)' OBVIOUS
    <3>5. PICK x \in Handle : x = freeing BY <2>5, <3>4
    <3>6. refs'[x] > Held(x)' BY <3>1, <3>3, <3>4, <3>5
    <3>7. QED BY <3>2, <3>5, <3>6 DEF Held
  <2>7. kind' = kind /\ freeing' = freeing /\ \A k \in Handle : Live(k)' <=> Live(k)
    BY <1>1 DEF Live, flow
  <2>8. \A k \in Handle : owed'[k] > 0 => Live(k)' BY <2>1, <2>4, <2>7 DEF Ending
  <2>9. \A g, k \in Handle : kind'[g] = "gone" /\ Live(k)' => k < g
    BY <2>1, <2>7 DEF Ending
  <2>10. freeing' # None =>
           /\ Live(freeing)' /\ refs'[freeing'] > Held(freeing)'
           /\ \A k \in Handle : Live(k)' => k <= freeing'
    BY <2>1, <2>5, <2>6, <2>7 DEF Ending
  <2>11. QED BY <2>3, <2>8, <2>9, <2>10 DEF Ending
<1>14. tame /\ phase = "script" => ~bad' BY <1>1, <1>12
<1>15. QED BY <1>1, <1>6, <1>9, <1>11, <1>13, <1>14, SameLinks

-----------------------------------------------------------------------------
(* Steps that change arrays and the references to them.                      *)

\* What is about objects alone.
LEMMA SameObjects ==
    ASSUME Inv, UNCHANGED <<object, bld, mapper, reg, owed, calls, flow>>
    PROVE  /\ \A h \in Handle : refs'[h] >= Held(h)'
           /\ phase = "script" => \A h \in Handle : refs'[h] = Held(h)'
           /\ Complete' /\ MappersPinned' /\ CallsPinned' /\ Downward'
<1> USE DEF Inv, object, flow
<1>1. \A h \in Handle : Held(h)' = Held(h) BY DEF Held, Pointing
<1>2. \A h \in Handle : refs'[h] >= Held(h)' BY <1>1 DEF Counted
<1>3. phase = "script" => \A h \in Handle : refs'[h] = Held(h)'
  BY <1>1 DEF Counted, CountsExact, Held
<1>4. Complete' /\ Downward' BY DEF Complete, Downward, IsMapper
<1>5. MappersPinned' /\ CallsPinned' BY DEF MappersPinned, CallsPinned, Pinned, IsMapper
<1>6. QED BY <1>2, <1>3, <1>4, <1>5

\* The count of an array.
Counts(a) == copies[a] + owedArr[a] + Pointing(prop, a)

LEMMA ArrayTypes ==
    ASSUME TypeOK
    PROVE  \A a \in Arr : rc[a] \in Nat /\ copies[a] \in Nat /\ owedArr[a] \in Nat
                            /\ Pointing(prop, a) \in Nat
BY PointingType DEF TypeOK

\* One more or one less variable, and the count or a release with it.
LEMMA CopyStep ==
    ASSUME Inv, ~bad, (\E h \in Handle : TakeArray(h)) \/ (\E a \in Arr : UnsetArray(a))
    PROVE  Inv'
<1> USE DEF Inv
<1>1. /\ UNCHANGED <<object, link, used, owed, calls, flow, tame, bad>>
      /\ phase = "script"
  BY DEF TakeArray, UnsetArray, Quiet
<1>2. PICK a \in Arr :
        \/ /\ copies' = [copies EXCEPT ![a] = @ + 1] /\ rc' = [rc EXCEPT ![a] = @ + 1]
           /\ owedArr' = owedArr /\ a \in used
        \/ /\ copies' = [copies EXCEPT ![a] = @ - 1] /\ rc' = rc
           /\ owedArr' = [owedArr EXCEPT ![a] = @ + 1] /\ copies[a] > 0
  BY DEF TakeArray, UnsetArray, TypeOK, ArrOrNone, Allocated
<1>3. rc \in [Arr -> Nat] /\ copies \in [Arr -> Nat] /\ owedArr \in [Arr -> Nat]
  BY DEF TypeOK
<1>4. rc' \in [Arr -> Nat] /\ copies' \in [Arr -> Nat] /\ owedArr' \in [Arr -> Nat]
  BY <1>2, <1>3
<1>5. TypeOK' BY <1>1, <1>4 DEF TypeOK, object, link, flow
<1>6. \A x \in Arr : rc[x] = Counts(x) BY <1>1 DEF Counted, CountsExact, Counts
<1>7. \A x \in Arr : rc'[x] = Counts(x)'
  <2>1. \A x \in Arr : Pointing(prop, x)' = Pointing(prop, x) BY <1>1 DEF Pointing, link
  <2>2. \A x \in Arr : rc'[x] - rc[x] = (copies'[x] + owedArr'[x]) - (copies[x] + owedArr[x])
    BY <1>2, <1>3, <1>4
  <2>3. \A x \in Arr : rc[x] = copies[x] + owedArr[x] + Pointing(prop, x)
    BY <1>6 DEF Counts
  <2>4. \A x \in Arr : rc'[x] = copies'[x] + owedArr'[x] + Pointing(prop, x)
    <3> TAKE x \in Arr
    <3>1. /\ rc[x] \in Nat /\ copies[x] \in Nat /\ owedArr[x] \in Nat
          /\ Pointing(prop, x) \in Nat
          /\ rc'[x] \in Nat /\ copies'[x] \in Nat /\ owedArr'[x] \in Nat
      BY <1>3, <1>4, ArrayTypes
    <3>2. rc[x] = copies[x] + owedArr[x] + Pointing(prop, x) BY <2>3
    <3>3. rc'[x] - rc[x] = (copies'[x] + owedArr'[x]) - (copies[x] + owedArr[x]) BY <2>2
    <3>4. QED BY <3>1, <3>2, <3>3
  <2>5. QED BY <2>1, <2>4 DEF Counts
<1>8. a \in used BY <1>2, <1>3 DEF Allocated
<1>9. Allocated' BY <1>1, <1>2, <1>3, <1>8 DEF Allocated, link
<1>10. Shape' BY <1>1 DEF Shape, IsMapper, Live, object, link, flow
<1>11. Tamed' BY <1>1 DEF Tamed, IsMapper, Live, object, link, flow
<1>12. Ending' BY <1>1 DEF Ending, flow
<1>13. UNCHANGED <<object, bld, mapper, reg, owed, calls, flow>> BY <1>1 DEF link
<1>14. Counted' BY <1>1, <1>7, <1>13, SameObjects DEF Counted, CountsExact, Held, Counts, flow
<1>15. QED BY <1>5, <1>9, <1>10, <1>11, <1>12, <1>13, <1>14, SameObjects

LEMMA DropArrayStep ==
    ASSUME Inv, ~bad, NEW a \in Arr, DropArray(a)
    PROVE  Inv'
<1> USE DEF Inv
<1>1. /\ UNCHANGED <<object, link, used, copies, owed, calls, flow, tame>>
      /\ owedArr[a] > 0 /\ owedArr' = [owedArr EXCEPT ![a] = @ - 1]
      /\ rc' = [rc EXCEPT ![a] = IF @ > 0 THEN @ - 1 ELSE 0]
      /\ bad' = (rc[a] = 0)
  BY DEF DropArray
<1>3. rc \in [Arr -> Nat] /\ copies \in [Arr -> Nat] /\ owedArr \in [Arr -> Nat]
  BY DEF TypeOK
<1>4. rc' \in [Arr -> Nat] /\ owedArr' \in [Arr -> Nat] BY <1>1, <1>3
<1>5. TypeOK' BY <1>1, <1>4 DEF TypeOK, object, link, flow
<1>6. a \in used BY <1>1, <1>3 DEF Allocated
<1>7. phase = "script" => rc[a] > 0 /\ \A x \in Arr : rc'[x] = Counts(x)'
  <2>1. \A x \in Arr : Pointing(prop, x)' = Pointing(prop, x) BY <1>1 DEF Pointing, link
  <2>2. phase = "script" => \A x \in Arr : rc[x] = Counts(x)
    BY DEF Counted, CountsExact, Counts
  <2>3. phase = "script" => rc[a] > 0 BY <2>2, <1>1, ArrayTypes DEF Counts
  <2>4. QED BY <2>1, <2>2, <2>3, <1>1, <1>3, <1>4, ArrayTypes DEF Counts
<1>8. phase = "script" => ~bad'
  <2>1. SUFFICES ASSUME phase = "script" PROVE ~bad' OBVIOUS
  <2>2. ~(rc[a] = 0) BY <2>1, <1>7, <1>3
  <2>3. QED BY <2>2, <1>1, Zenon
<1>9. Allocated' BY <1>1, <1>3, <1>6 DEF Allocated, link
<1>10. Shape' BY <1>1 DEF Shape, IsMapper, Live, object, link, flow
<1>11. Tamed' BY <1>1, <1>8 DEF Tamed, IsMapper, Live, object, link, flow
<1>12. Ending' BY <1>1, <1>6 DEF Ending, flow
<1>13. UNCHANGED <<object, bld, mapper, reg, owed, calls, flow>> BY <1>1 DEF link
<1>14. Counted' BY <1>1, <1>7, <1>13, SameObjects DEF Counted, CountsExact, Held, Counts, flow
<1>15. QED BY <1>5, <1>9, <1>10, <1>11, <1>12, <1>13, <1>14, SameObjects

\* A property gets another array, or none.
LEMMA PropertyStep ==
    ASSUME Inv, ~bad, NEW h \in Handle,
           AssignProperty(h) \/ \E a \in Arr : WriteProperty(h, a)
    PROVE  Inv'
<1> USE DEF Inv
<1> DEFINE p == prop[h]
<1>1. /\ UNCHANGED <<object, bld, mapper, reg, copies, owed, calls, flow, bad>>
      /\ phase = "script" /\ p # None /\ Live(h) /\ tame' = FALSE
  BY DEF AssignProperty, WriteProperty, Quiet, Reach, array
<1>2. p \in Arr /\ p \in used BY <1>1 DEF TypeOK, ArrOrNone, Allocated
<1>3. /\ rc \in [Arr -> Nat] /\ copies \in [Arr -> Nat] /\ owedArr \in [Arr -> Nat]
      /\ prop \in [Handle -> ArrOrNone]
  BY DEF TypeOK
<1>4. \A x \in Arr : rc[x] = Counts(x) BY <1>1 DEF Counted, CountsExact, Counts
<1>5. /\ rc' \in [Arr -> Nat] /\ owedArr' \in [Arr -> Nat]
      /\ prop' \in [Handle -> ArrOrNone] /\ used' \subseteq Arr /\ used \subseteq used'
      /\ \A k \in Handle : k # h => prop'[k] = prop[k]
      /\ \A x \in Arr : rc'[x] = Counts(x)'
      /\ prop'[h] # None => prop'[h] \in used'
      /\ \A x \in Arr : x \notin used' => rc'[x] = rc[x] /\ owedArr'[x] = owedArr[x]
  <2>1. CASE AssignProperty(h)
    <3>1. /\ prop' = [prop EXCEPT ![h] = None] /\ rc' = rc /\ used' = used
          /\ owedArr' = [owedArr EXCEPT ![p] = @ + 1]
      BY <2>1 DEF AssignProperty, array
    <3>2. \A k \in Handle \ {h} : prop'[k] = prop[k] BY <3>1, <1>3
    <3>3. prop'[h] = None BY <3>1, <1>3
    <3>4. Pointing(prop', p) = Pointing(prop, p) - 1
      <4>1. PICK x \in Arr : x = p BY <1>2
      <4>2. prop[h] = x /\ prop'[h] # x BY <3>3, <4>1, <1>2, NoZero DEF None
      <4>3. Pointing(prop', x) = Pointing(prop, x) - 1
        BY <3>2, <4>2, PointingLeave
      <4>4. QED BY <4>1, <4>3
    <3>5. \A x \in Arr : x # p => Pointing(prop', x) = Pointing(prop, x)
      <4>1. TAKE x \in Arr
      <4>2. HAVE x # p
      <4>3. prop'[h] # x /\ prop[h] # x BY <3>3, <4>2, <1>2, NoZero DEF None
      <4>4. QED BY <3>2, <4>3, PointingStay
    <3>6. owedArr' \in [Arr -> Nat] BY <3>1, <1>3, <1>2
    <3>7. \A x \in Arr : rc'[x] = copies[x] + owedArr'[x] + Pointing(prop', x)
      <4>1. \A x \in Arr : rc[x] = copies[x] + owedArr[x] + Pointing(prop, x)
        BY <1>4 DEF Counts
      <4>2. rc'[p] = copies[p] + owedArr'[p] + Pointing(prop', p)
        BY <4>1, <3>1, <3>4, <1>2, <1>3, ArrayTypes
      <4>3. \A x \in Arr : x # p => rc'[x] = copies[x] + owedArr'[x] + Pointing(prop', x)
        BY <4>1, <3>1, <3>5, <1>3
      <4>4. QED BY <4>2, <4>3
    <3>8. \A x \in Arr : Counts(x)' = copies[x] + owedArr'[x] + Pointing(prop', x)
      BY <1>1 DEF Counts, Pointing
    <3>9. prop' \in [Handle -> ArrOrNone] BY <3>1, <1>3 DEF ArrOrNone
    <3>10. QED BY <3>1, <3>2, <3>3, <3>6, <3>7, <3>8, <3>9, <1>2, <1>3 DEF TypeOK
  <2>2. CASE \E a \in Arr : WriteProperty(h, a)
    <3> PICK a \in Arr : WriteProperty(h, a) BY <2>2
    <3>1. /\ prop' = [prop EXCEPT ![h] = a] /\ owedArr' = owedArr /\ used' = used \cup {a}
          /\ rc' = [rc EXCEPT ![p] = @ - 1, ![a] = 1] /\ rc[p] > 1 /\ a \notin used
      BY DEF WriteProperty, FreshArray
    <3>2. \A k \in Handle \ {h} : prop'[k] = prop[k] BY <3>1, <1>3
    <3>3. prop'[h] = a /\ a # p /\ prop'[h] # p BY <3>1, <1>2, <1>3
    <3>4. Pointing(prop', p) = Pointing(prop, p) - 1
      <4>1. PICK x \in Arr : x = p BY <1>2
      <4>2. prop[h] = x /\ prop'[h] # x BY <3>3, <4>1
      <4>3. Pointing(prop', x) = Pointing(prop, x) - 1
        BY <3>2, <4>2, PointingLeave
      <4>4. QED BY <4>1, <4>3
    <3>5. Pointing(prop', a) = Pointing(prop, a) + 1
      <4>1. prop[h] # a /\ prop'[h] = a BY <3>3, <1>2
      <4>2. QED BY <3>2, <4>1, PointingMove
    <3>6. \A x \in Arr : x # p /\ x # a => Pointing(prop', x) = Pointing(prop, x)
      <4>1. TAKE x \in Arr
      <4>2. HAVE x # p /\ x # a
      <4>3. prop'[h] # x /\ prop[h] # x BY <3>3, <4>2, <1>2
      <4>4. QED BY <3>2, <4>3, PointingStay
    <3>7. \A k \in Handle : prop[k] # a BY <3>1, NoZero DEF Allocated, None
    <3>8. Pointing(prop, a) = 0 BY <3>7, PointingType
    <3>9. copies[a] = 0 /\ owedArr[a] = 0 BY <3>1 DEF Allocated
    <3>10. /\ rc' \in [Arr -> Nat] /\ rc'[p] = rc[p] - 1 /\ rc'[a] = 1
           /\ \A x \in Arr : x # p /\ x # a => rc'[x] = rc[x]
      BY <3>1, <3>3, <1>2, <1>3
    <3>11. \A x \in Arr : rc'[x] = copies[x] + owedArr'[x] + Pointing(prop', x)
      <4>1. rc'[p] = copies[p] + owedArr'[p] + Pointing(prop', p)
        BY <3>1, <3>4, <3>10, <1>2, <1>4, ArrayTypes DEF Counts
      <4>2. rc'[a] = copies[a] + owedArr'[a] + Pointing(prop', a)
        BY <3>1, <3>5, <3>8, <3>9, <3>10
      <4>3. \A x \in Arr : x # p /\ x # a => rc'[x] = copies[x] + owedArr'[x] + Pointing(prop', x)
        BY <3>1, <3>6, <3>10, <1>4 DEF Counts
      <4>4. QED BY <4>1, <4>2, <4>3
    <3>12. \A x \in Arr : Counts(x)' = copies[x] + owedArr'[x] + Pointing(prop', x)
      BY <1>1 DEF Counts, Pointing
    <3>13. prop' \in [Handle -> ArrOrNone] BY <3>1, <1>3 DEF ArrOrNone
    <3>14. /\ used' \subseteq Arr /\ used \subseteq used' /\ owedArr' \in [Arr -> Nat]
           /\ prop'[h] \in used'
      BY <3>1, <3>3, <1>3 DEF TypeOK
    <3>15. \A x \in Arr : x \notin used' => rc'[x] = rc[x] /\ owedArr'[x] = owedArr[x]
      BY <3>1, <3>10, <1>2
    <3>16. QED BY <3>2, <3>10, <3>11, <3>12, <3>13, <3>14, <3>15
  <2>3. QED BY <2>1, <2>2
<1>6. TypeOK' BY <1>1, <1>3, <1>5 DEF TypeOK, object, flow
<1>7. Allocated'
  <2>1. \A k \in Handle : prop'[k] # None => prop'[k] \in used'
    BY <1>5 DEF Allocated
  <2>2. \A x \in Arr : x \notin used' => rc'[x] = 0 /\ copies[x] = 0 /\ owedArr'[x] = 0
    BY <1>5 DEF Allocated
  <2>3. \A k \in Handle : (reg[k] # None => reg[k] \in used') /\ (bld[k] # None => used' # {})
    BY <1>5 DEF Allocated
  <2>4. QED BY <1>1, <2>1, <2>2, <2>3 DEF Allocated
<1>8. Shape'
  <2>1. \A k \in Handle : prop'[k] # None => Live(k) BY <1>1, <1>5 DEF Shape
  <2>2. freeing' = None BY <1>1 DEF Complete, flow
  <2>3. QED BY <2>1, <2>2, <1>1, NoZero DEF Shape, IsMapper, Live, object, None
<1>9. Tamed' /\ Ending' BY <1>1 DEF Tamed, Ending, flow
<1>10. UNCHANGED <<object, bld, mapper, reg, owed, calls, flow>> BY <1>1
<1>11. Counted' BY <1>1, <1>5, <1>10, SameObjects DEF Counted, CountsExact, Held, Counts, flow
<1>12. QED BY <1>6, <1>7, <1>8, <1>9, <1>10, <1>11, SameObjects

-----------------------------------------------------------------------------
(* Steps that create and construct objects.                                  *)

\* A link that is moved from one object to another.
LEMMA LinkMoved ==
    ASSUME NEW f, NEW g, NEW h \in Handle, \A k \in Handle \ {h} : g[k] = f[k], NEW x
    PROVE  Pointing(g, x) + Is(x, f[h]) = Pointing(f, x) + Is(x, g[h])
<1>1. IsFiniteSet(Handle) BY HandleAssumption
<1>2. CountOf(Handle, g, x) + Is(x, f[h]) = CountOf(Handle, f, x) + Is(x, g[h])
  BY <1>1, CountIs
<1>3. QED BY <1>2 DEF Pointing, CountOf

LEMMA PlusIs ==
    ASSUME NEW S, 0 \notin S, NEW f \in [S -> Nat], NEW y \in S \cup {None}
    PROVE  /\ Plus(f, y) \in [S -> Nat]
           /\ \A k \in S : Plus(f, y)[k] = f[k] + Is(k, y)
BY DEF Plus, None, Is

\* The same for the objects and for the arrays.
LEMMA PlusHandle ==
    ASSUME NEW f \in [Handle -> Nat], NEW y \in HandleOrNone
    PROVE  /\ Plus(f, y) \in [Handle -> Nat]
           /\ \A k \in Handle : Plus(f, y)[k] = f[k] + Is(k, y)
BY PlusIs, NoZero DEF HandleOrNone

LEMMA PlusArr ==
    ASSUME NEW f \in [Arr -> Nat], NEW y \in ArrOrNone
    PROVE  /\ Plus(f, y) \in [Arr -> Nat]
           /\ \A k \in Arr : Plus(f, y)[k] = f[k] + Is(k, y)
BY PlusIs, NoZero DEF ArrOrNone

LEMMA NoSummand ==
    \A a, b, c, d, e \in Nat :
        0 >= a + b + c + d + e => a = 0 /\ b = 0 /\ c = 0 /\ d = 0 /\ e = 0
OBVIOUS

\* A handle that is free is in no variable, and nothing refers to it.
LEMMA FreeNothing ==
    ASSUME Inv, NEW h \in Handle, kind[h] = "free"
    PROVE  /\ refs[h] = 0 /\ vars[h] = 0 /\ owed[h] = 0 /\ lost[h] = 0 /\ made[h] = FALSE
           /\ bld[h] = None /\ mapper[h] = None /\ reg[h] = None /\ prop[h] = None
           /\ \A k \in Handle : bld[k] # h /\ mapper[k] # h
<1> USE DEF Inv
<1>1. refs[h] = 0 /\ ~made[h] BY DEF Shape
<1>2. /\ vars[h] \in Nat /\ owed[h] \in Nat /\ lost[h] \in Nat
      /\ Pointing(bld, h) \in Nat /\ Pointing(mapper, h) \in Nat
  BY HeldType
<1>3. 0 >= vars[h] + owed[h] + lost[h] + Pointing(bld, h) + Pointing(mapper, h)
  BY <1>1 DEF Counted, Held
<1>4. /\ vars[h] = 0 /\ owed[h] = 0 /\ lost[h] = 0
      /\ Pointing(bld, h) = 0 /\ Pointing(mapper, h) = 0
  <2>1. PICK a, b, c, d, e \in Nat :
          /\ a = vars[h] /\ b = owed[h] /\ c = lost[h]
          /\ d = Pointing(bld, h) /\ e = Pointing(mapper, h)
    BY <1>2
  <2>2. 0 >= a + b + c + d + e BY <1>3, <2>1
  <2>3. a = 0 /\ b = 0 /\ c = 0 /\ d = 0 /\ e = 0 BY <2>2, NoSummand
  <2>4. QED BY <2>1, <2>3
<1>5. \A k \in Handle : bld[k] # h /\ mapper[k] # h BY <1>4, PointingType
<1>6. bld[h] = None /\ mapper[h] = None /\ reg[h] = None /\ prop[h] = None
  BY DEF Shape, IsMapper, Live
<1>7. QED BY <1>1, <1>4, <1>5, <1>6 DEF TypeOK

\* An object without a constructor, and a clone.
LEMMA BareStep ==
    ASSUME Inv, ~bad, NEW h \in Handle,
           (\E k \in {"mapper", "builder"} : NewBare(h, k)) \/ \E o \in Handle : Clone(o, h)
    PROVE  Inv'
<1> USE DEF Inv
<1>1. /\ UNCHANGED <<made, lost, bld, mapper, reg, used, copies, owed, owedArr, calls, flow, bad>>
      /\ phase = "script" /\ kind[h] = "free" /\ tame' = FALSE
      /\ refs' = [refs EXCEPT ![h] = 1] /\ vars' = [vars EXCEPT ![h] = 1]
  BY DEF NewBare, Clone, Quiet, FreeHandle, link, array
<1>2. PICK k \in {"mapper", "builder", "hollow"} : kind' = [kind EXCEPT ![h] = k]
  BY DEF NewBare, Clone
<1>3. PICK p \in ArrOrNone :
        prop' = [prop EXCEPT ![h] = p] /\ rc' = Plus(rc, p) /\ (p # None => p \in used)
  <2>1. CASE \E o \in Handle : Clone(o, h) BY <2>1 DEF Clone, TypeOK, Allocated
  <2>2. CASE \E q \in {"mapper", "builder"} : NewBare(h, q)
    <3>1. prop' = prop /\ rc' = rc BY <2>2 DEF NewBare, link, array
    <3>2. prop[h] = None BY <1>1, FreeNothing
    <3>3. prop' = [prop EXCEPT ![h] = None] BY <3>1, <3>2 DEF TypeOK
    <3>4. QED BY <3>1, <3>3 DEF ArrOrNone, Plus
  <2>3. QED BY <2>1, <2>2
<1>4. /\ kind \in [Handle -> {"free", "mapper", "builder", "hollow", "gone"}]
      /\ refs \in [Handle -> Nat] /\ vars \in [Handle -> Nat] /\ owed \in [Handle -> Nat]
      /\ lost \in [Handle -> Nat] /\ rc \in [Arr -> Nat] /\ prop \in [Handle -> ArrOrNone]
  BY DEF TypeOK
<1>5. /\ refs[h] = 0 /\ vars[h] = 0 /\ prop[h] = None /\ bld[h] = None
      /\ mapper[h] = None /\ reg[h] = None /\ made[h] = FALSE
      /\ \A j \in Handle : bld[j] # h /\ mapper[j] # h
  BY <1>1, FreeNothing
<1>6. rc' \in [Arr -> Nat] /\ \A x \in Arr : rc'[x] = rc[x] + Is(x, p)
  BY <1>3, <1>4, PlusArr
<1>7. TypeOK'
  <2>1. kind' \in [Handle -> {"free", "mapper", "builder", "hollow", "gone"}]
    BY <1>2, <1>4
  <2>2. refs' \in [Handle -> Nat] /\ vars' \in [Handle -> Nat] BY <1>1, <1>4
  <2>3. prop' \in [Handle -> ArrOrNone] BY <1>3, <1>4
  <2>4. QED BY <2>1, <2>2, <2>3, <1>1, <1>6 DEF TypeOK, flow
<1>8. \A x \in Handle : refs'[x] = Held(x)'
  <2> TAKE x \in Handle
  <2>1. refs[x] = Held(x) BY <1>1 DEF Counted, CountsExact, Held
  <2>2. refs'[x] - refs[x] = vars'[x] - vars[x] /\ refs'[x] \in Nat /\ vars'[x] \in Nat
    BY <1>1, <1>4, <1>5
  <2>3. Held(x)' = vars'[x] + owed[x] + lost[x] + Pointing(bld, x) + Pointing(mapper, x)
    BY <1>1 DEF Held, Pointing
  <2>4. /\ owed[x] \in Nat /\ lost[x] \in Nat /\ vars[x] \in Nat /\ refs[x] \in Nat
        /\ Pointing(bld, x) \in Nat /\ Pointing(mapper, x) \in Nat
    BY HeldType
  <2>5. refs[x] = vars[x] + owed[x] + lost[x] + Pointing(bld, x) + Pointing(mapper, x)
    BY <2>1 DEF Held
  <2>6. QED BY <2>2, <2>3, <2>4, <2>5
<1>9. \A x \in Arr : rc'[x] = Counts(x)'
  <2> TAKE x \in Arr
  <2>0. \A j \in Handle \ {h} : prop'[j] = prop[j] BY <1>3, <1>4
  <2>1. rc[x] = copies[x] + owedArr[x] + Pointing(prop, x)
    BY <1>1 DEF Counted, CountsExact
  <2>2. Pointing(prop', x) + Is(x, prop[h]) = Pointing(prop, x) + Is(x, prop'[h])
    BY <2>0, LinkMoved
  <2>3. Is(x, prop[h]) = 0 /\ prop'[h] = p BY <1>3, <1>4, <1>5, NoZero DEF Is, None
  <2>4. Pointing(prop', x) \in Nat BY PointingType
  <2>5. Pointing(prop', x) = Pointing(prop, x) + Is(x, p) BY <2>2, <2>3, <2>4
  <2>6. Counts(x)' = copies[x] + owedArr[x] + Pointing(prop', x)
    BY <1>1 DEF Counts, Pointing
  <2>7. Is(x, p) \in Nat BY IsType
  <2>8. QED BY <2>1, <2>5, <2>6, <2>7, <1>6, ArrayTypes
<1>10. Counted'
  <2>1. \A x \in Handle : refs'[x] \in Nat BY <1>1, <1>4
  <2>2. \A x \in Handle : refs'[x] >= Held(x)' BY <2>1, <1>8
  <2>3. QED BY <2>2, <1>8, <1>9 DEF Counted, CountsExact, Held, Counts
<1>11. /\ \A x \in Handle : x # h => kind'[x] = kind[x] /\ prop'[x] = prop[x]
       /\ kind'[h] = k
       /\ \A x \in Handle : IsMapper(x)' <=> IsMapper(x)
  BY <1>1, <1>2, <1>3, <1>4, <1>5 DEF IsMapper
<1>12. \A x \in Handle : Live(x) => Live(x)'
  BY <1>11, <1>1 DEF Live
<1>13. Shape'
  <2>1. freeing' = None BY <1>1 DEF Complete, flow
  <2>2. Live(h)' BY <1>11 DEF Live
  <2>3. \A x \in Handle : x # h => refs'[x] = refs[x] BY <1>1, <1>4
  <2>4. SUFFICES ASSUME NEW x \in Handle
                 PROVE  /\ bld'[x] # None => IsMapper(x)'
                        /\ reg'[x] # None => IsMapper(x)'
                        /\ mapper'[x] # None => kind'[x] = "builder"
                        /\ prop'[x] # None => Live(x)'
                        /\ kind'[x] = "free" => refs'[x] = 0 /\ ~made'[x]
    BY <2>1, NoZero DEF Shape, None
  <2>5. CASE x = h BY <2>5, <2>2, <1>1, <1>5, <1>11
  <2>6. CASE x # h BY <2>6, <2>3, <1>1, <1>11, <1>12 DEF Shape
  <2>7. QED BY <2>5, <2>6
<1>14. Complete'
  <2>1. \A x \in Handle : bld[x] # None => kind'[bld[x]] = kind[bld[x]]
    BY <1>5, <1>11 DEF TypeOK, HandleOrNone
  <2>2. QED BY <2>1, <1>1, <1>11 DEF Complete, flow
<1>15. MappersPinned' BY <1>1, <1>11 DEF MappersPinned, Pinned, flow
<1>16. CallsPinned'
  <2>1. \A i \in DOMAIN calls : calls[i] \in Handle BY DEF TypeOK
  <2>2. QED BY <2>1, <1>1, <1>11 DEF CallsPinned, Pinned, flow
<1>17. Allocated'
  <2>1. \A x \in Arr : x \notin used => rc'[x] = 0
    <3>1. \A x \in Arr : x \notin used => x # p
      BY <1>3, NoZero DEF None
    <3>2. QED BY <3>1, <1>6, <1>4 DEF Allocated, Is
  <2>2. \A x \in Handle : prop'[x] # None => prop'[x] \in used
    BY <1>3, <1>4 DEF Allocated
  <2>3. QED BY <2>1, <2>2, <1>1 DEF Allocated
<1>18. Tamed' /\ Downward' /\ Ending' BY <1>1 DEF Tamed, Downward, Ending, flow
<1>19. QED BY <1>7, <1>10, <1>13, <1>14, <1>15, <1>16, <1>17, <1>18

\* Builder::__construct, by new or again: the builder and the variables of a
\* new one; its mapper; the mapper it had is lost.
LEMMA BuilderStep ==
    ASSUME Inv, ~bad, NEW h \in Handle, NEW m \in HandleOrNone,
           NewBuilder(h, m) \/ ReconstructBuilder(h, m)
    PROVE  Inv'
<1> USE DEF Inv
<1>1. /\ UNCHANGED <<bld, reg, prop, array, owed, owedArr, calls, phase, freeing, bad>>
      /\ phase = "script" /\ (m # None => Reach(m))
      /\ mapper' = [mapper EXCEPT ![h] = m] /\ made' = [made EXCEPT ![h] = TRUE]
      /\ upward' = (upward \/ m > h) /\ tame' \in BOOLEAN
      /\ (tame' => tame /\ IsMapper(m))
  BY DEF NewBuilder, ReconstructBuilder, Quiet, Overwrite, TypeOK
<1>2. /\ kind \in [Handle -> {"free", "mapper", "builder", "hollow", "gone"}]
      /\ refs \in [Handle -> Nat] /\ vars \in [Handle -> Nat] /\ owed \in [Handle -> Nat]
      /\ lost \in [Handle -> Nat] /\ mapper \in [Handle -> HandleOrNone]
      /\ made \in [Handle -> BOOLEAN]
  BY DEF TypeOK
<1>3. /\ kind[h] \in {"free", "builder"} /\ kind' = [kind EXCEPT ![h] = "builder"]
      /\ kind[h] = "free" => made[h] = FALSE
  <2>1. CASE NewBuilder(h, m) BY <2>1, FreeNothing DEF NewBuilder, FreeHandle
  <2>2. CASE ReconstructBuilder(h, m)
    <3>1. kind' = kind /\ kind[h] = "builder" BY <2>2 DEF ReconstructBuilder
    <3>2. QED BY <3>1, <1>2
  <2>3. QED BY <2>1, <2>2
<1>4. /\ refs' \in [Handle -> Nat] /\ vars' \in [Handle -> Nat] /\ lost' \in [Handle -> Nat]
      /\ \A x \in Handle : refs'[x] - refs[x] = (vars'[x] - vars[x]) + Is(x, m)
      /\ \A x \in Handle : lost'[x] = lost[x] + Is(x, mapper[h])
      /\ \A x \in Handle : kind[x] = "free" /\ x # h => refs'[x] = refs[x]
  <2>1. m # h \/ kind[h] # "free" BY <1>1, NoZero DEF Reach, Live, None
  <2>2. \A x \in Handle : kind[x] = "free" => x # m
    BY <1>1, NoZero DEF Reach, Live, None
  <2>3. CASE NewBuilder(h, m)
    <3>1. kind[h] = "free" /\ UNCHANGED lost /\ vars' = [vars EXCEPT ![h] = 1]
          /\ refs' = Copy([refs EXCEPT ![h] = 1], m)
      BY <2>3 DEF NewBuilder, FreeHandle
    <3>2. mapper[h] = None /\ refs[h] = 0 /\ vars[h] = 0 BY <3>1, FreeNothing
    <3> DEFINE f == [refs EXCEPT ![h] = 1]
    <3>3. f \in [Handle -> Nat] BY <1>2
    <3>4. refs' \in [Handle -> Nat] /\ \A x \in Handle : refs'[x] = f[x] + Is(x, m)
      BY <3>1, <3>3, PlusHandle DEF Copy
    <3>5. vars' \in [Handle -> Nat] BY <3>1, <1>2
    <3>6. \A x \in Handle : f[x] - refs[x] = vars'[x] - vars[x] BY <3>1, <3>2, <1>2
    <3>7. \A x \in Handle : refs'[x] - refs[x] = (vars'[x] - vars[x]) + Is(x, m)
      <4> TAKE x \in Handle
      <4>1. /\ f[x] \in Nat /\ refs[x] \in Nat /\ vars[x] \in Nat /\ vars'[x] \in Nat
            /\ Is(x, m) \in Nat
        BY <3>3, <3>5, <1>2, IsType
      <4>2. refs'[x] = f[x] + Is(x, m) /\ f[x] - refs[x] = vars'[x] - vars[x]
        BY <3>4, <3>6
      <4>3. QED BY <4>1, <4>2
    <3>8. \A x \in Handle : lost'[x] = lost[x] + Is(x, mapper[h])
      BY <3>1, <3>2, <1>2, NoZero DEF Is, None
    <3>9. \A x \in Handle : kind[x] = "free" /\ x # h => refs'[x] = refs[x]
      BY <2>2, <3>4, <1>2 DEF Is
    <3>10. QED BY <3>1, <3>4, <3>5, <3>7, <3>8, <3>9, <1>2
  <2>4. CASE ReconstructBuilder(h, m)
    <3>1. vars' = vars /\ refs' = Copy(refs, m) /\ lost' = Plus(lost, mapper[h])
      BY <2>4 DEF ReconstructBuilder, Overwrite
    <3>2. refs' \in [Handle -> Nat] /\ \A x \in Handle : refs'[x] = refs[x] + Is(x, m)
      BY <3>1, <1>2, PlusHandle DEF Copy
    <3>3. mapper[h] \in HandleOrNone BY <1>2
    <3>4. lost' \in [Handle -> Nat] /\ \A x \in Handle : lost'[x] = lost[x] + Is(x, mapper[h])
      BY <3>1, <3>3, <1>2, PlusHandle
    <3>5. \A x \in Handle : refs'[x] - refs[x] = (vars'[x] - vars[x]) + Is(x, m)
      BY <3>1, <3>2, <1>2, IsType
    <3>6. \A x \in Handle : kind[x] = "free" /\ x # h => refs'[x] = refs[x]
      BY <2>2, <3>2, <1>2 DEF Is
    <3>7. QED BY <3>1, <3>2, <3>4, <3>5, <3>6, <1>2
  <2>5. QED BY <2>3, <2>4
<1>5. TypeOK'
  <2>1. kind' \in [Handle -> {"free", "mapper", "builder", "hollow", "gone"}] BY <1>2, <1>3
  <2>2. mapper' \in [Handle -> HandleOrNone] /\ made' \in [Handle -> BOOLEAN] BY <1>1, <1>2
  <2>3. upward' \in BOOLEAN BY <1>1
  <2>4. QED BY <2>1, <2>2, <2>3, <1>1, <1>4 DEF TypeOK, array
<1>6. \A x \in Handle : refs'[x] = Held(x)'
  <2> TAKE x \in Handle
  <2>0. \A j \in Handle \ {h} : mapper'[j] = mapper[j] BY <1>1, <1>2
  <2>1. refs[x] = vars[x] + owed[x] + lost[x] + Pointing(bld, x) + Pointing(mapper, x)
    BY <1>1 DEF Counted, CountsExact
  <2>2. Pointing(mapper', x) + Is(x, mapper[h]) = Pointing(mapper, x) + Is(x, mapper'[h])
    BY <2>0, LinkMoved
  <2>3. mapper'[h] = m BY <1>1, <1>2
  <2>4. /\ owed[x] \in Nat /\ lost[x] \in Nat /\ vars[x] \in Nat /\ refs[x] \in Nat
        /\ Pointing(bld, x) \in Nat /\ Pointing(mapper, x) \in Nat
    BY HeldType
  <2>5. /\ Pointing(mapper', x) \in Nat /\ Is(x, m) \in Nat /\ Is(x, mapper[h]) \in Nat
        /\ refs'[x] \in Nat /\ vars'[x] \in Nat
    BY <1>4, PointingType, IsType
  <2>6. Held(x)' = vars'[x] + owed[x] + lost'[x] + Pointing(bld, x) + Pointing(mapper', x)
    BY <1>1 DEF Held, Pointing
  <2>7. /\ refs'[x] - refs[x] = (vars'[x] - vars[x]) + Is(x, m)
        /\ lost'[x] = lost[x] + Is(x, mapper[h])
    BY <1>4
  <2>8. QED BY <2>1, <2>2, <2>3, <2>4, <2>5, <2>6, <2>7
<1>7. Counted'
  <2>1. \A x \in Handle : refs'[x] >= Held(x)' BY <1>4, <1>6
  <2>2. \A x \in Arr : rc'[x] = Counts(x)'
    BY <1>1 DEF Counted, CountsExact, Counts, Pointing, array
  <2>3. QED BY <2>1, <2>2, <1>6 DEF Counted, CountsExact, Held, Counts
<1>8. /\ \A x \in Handle : x # h => /\ kind'[x] = kind[x] /\ mapper'[x] = mapper[x]
                                    /\ made'[x] = made[x]
      /\ kind'[h] = "builder" /\ mapper'[h] = m /\ made'[h] = TRUE
  BY <1>1, <1>2, <1>3
<1>9. \A x \in Handle : IsMapper(x)' <=> IsMapper(x)
  BY <1>3, <1>8 DEF IsMapper
<1>10. \A x \in Handle : lost'[x] >= lost[x] /\ (mapper[h] = x => lost'[x] >= 1)
  BY <1>2, <1>4 DEF Is
<1>11. \A x \in Handle : Pinned(x) => Pinned(x)'
  BY <1>1, <1>2, <1>4, <1>10 DEF Pinned
<1>12. Shape'
  <2>1. freeing' = None BY <1>1 DEF Complete
  <2>2. \A x \in Handle : Live(x) => Live(x)' BY <1>8 DEF Live
  <2>3. \A x \in Handle : kind'[x] = "free" => refs'[x] = 0 /\ ~made'[x]
    BY <1>4, <1>8 DEF Shape
  <2>4. \A x \in Handle : mapper'[x] # None => kind'[x] = "builder"
    BY <1>8 DEF Shape
  <2>5. \A x \in Handle : /\ bld'[x] # None => IsMapper(x)'
                          /\ reg'[x] # None => IsMapper(x)'
                          /\ prop'[x] # None => Live(x)'
    BY <1>1, <1>9, <2>2 DEF Shape
  <2>6. QED BY <2>1, <2>3, <2>4, <2>5, NoZero DEF Shape, None
<1>13. Complete'
  <2>1. \A x \in Handle : bld[x] # None /\ kind[bld[x]] = "builder" => kind'[bld[x]] = "builder"
    BY <1>8 DEF TypeOK, HandleOrNone
  <2>2. \A x \in Handle : kind'[x] # "gone" BY <1>1, <1>8 DEF Complete
  <2>3. QED BY <2>1, <2>2, <1>1, <1>9 DEF Complete
<1>14. MappersPinned'
  <2>1. SUFFICES ASSUME NEW x \in Handle, IsMapper(x)
                 PROVE  lost'[x] >= 1 \/ \E b \in Handle : mapper'[b] = x /\ Pinned(b)'
    BY <1>9 DEF MappersPinned, Pinned
  <2>2. CASE lost[x] >= 1 BY <2>2, <1>2, <1>4, <1>10
  <2>3. CASE \E b \in Handle : mapper[b] = x /\ Pinned(b)
    <3>1. PICK b \in Handle : mapper[b] = x /\ Pinned(b) BY <2>3
    <3>2. b = h \/ mapper'[b] = x BY <3>1, <1>8
    <3>3. QED BY <3>1, <3>2, <1>10, <1>11
  <2>4. QED BY <2>1, <2>2, <2>3, <1>1 DEF MappersPinned
<1>15. CallsPinned'
  <2>1. \A i \in DOMAIN calls : calls[i] \in Handle BY DEF TypeOK
  <2>2. \A i \in DOMAIN calls : kind'[calls[i]] = "builder" /\ Pinned(calls[i])'
    BY <2>1, <1>1, <1>8, <1>11 DEF CallsPinned
  <2>3. QED BY <2>2, <1>1 DEF CallsPinned, Pinned
<1>16. Allocated' BY <1>1 DEF Allocated, array
<1>17. Tamed'
  <2>1. SUFFICES ASSUME tame' PROVE Tamed' BY <2>1 DEF Tamed
  <2>2. tame /\ IsMapper(m) BY <1>1, <2>1
  <2>3. m \in Handle BY <2>2 DEF HandleOrNone, IsMapper
  <2>4. \A y \in Handle : IsMapper(y) => IsMapper(y)' BY <1>9
  <2>5. \A x \in Handle : Live(x)' => made'[x] /\ kind'[x] # "hollow"
    BY <2>2, <1>1, <1>8 DEF Tamed, Live
  <2>6. IsMapper(m)' BY <2>2, <2>3, <1>9
  <2>7. \A x \in Handle : kind'[x] = "builder" => IsMapper(mapper[x])'
    <3>1. SUFFICES ASSUME NEW x \in Handle, kind'[x] = "builder"
                   PROVE  \E y \in Handle : mapper'[x] = y /\ IsMapper(y)'
      BY <3>1 DEF IsMapper
    <3>2. CASE x = h BY <3>2, <2>2, <2>3, <2>4, <1>8
    <3>3. CASE x # h
      <4>1. mapper'[x] = mapper[x] /\ IsMapper(mapper[x])
        BY <3>1, <3>3, <2>2, <1>1, <1>8 DEF Tamed
      <4>2. mapper[x] \in Handle BY <4>1, <1>2 DEF HandleOrNone, IsMapper
      <4>3. QED BY <4>1, <4>2, <2>4
    <3>4. QED BY <3>2, <3>3
  <2>9. \A x \in Handle : IsMapper(x)' => prop'[x] = reg'[x]
    BY <2>2, <1>1, <1>9 DEF Tamed
  <2>10. ~bad' BY <1>1
  <2>11. QED BY <2>5, <2>7, <2>9, <2>10 DEF Tamed
<1>18. Downward'
  <2>1. m \in Nat /\ h \in Nat BY HandleAssumption DEF HandleOrNone, None
  <2>2. ~upward' => ~upward /\ ~(m > h) BY <1>1, Zenon
  <2>3. ~upward' => m <= h BY <2>1, <2>2
  <2>4. QED BY <2>2, <2>3, <1>1, <1>8 DEF Downward
<1>19. Ending' BY <1>1 DEF Ending
<1>20. QED BY <1>5, <1>7, <1>12, <1>13, <1>14, <1>15, <1>16, <1>17, <1>18, <1>19

\* TypeMapper::__construct, by new or again: mapper and builder hold each
\* other; the builder the mapper had is lost, its property's array released.
LEMMA MapperStep ==
    ASSUME Inv, ~bad, NEW h \in Handle, NEW b \in Handle, NEW a \in Arr,
           NewMapper(h, b, a) \/ ReconstructMapper(h, b, a)
    PROVE  Inv'
<1> USE DEF Inv
<1>1. /\ UNCHANGED <<owed, copies, calls, phase, freeing, bad>> /\ phase = "script"
      /\ bld' = [bld EXCEPT ![h] = b] /\ mapper' = [mapper EXCEPT ![b] = h]
      /\ reg' = [reg EXCEPT ![h] = a] /\ prop' = [prop EXCEPT ![h] = a]
      /\ rc' = [rc EXCEPT ![a] = 1] /\ used' = used \cup {a} /\ a \notin used
      /\ owedArr' = Plus(owedArr, prop[h]) /\ lost' = Plus(lost, bld[h])
      /\ kind' = [kind EXCEPT ![h] = "mapper", ![b] = "builder"]
      /\ made' = [made EXCEPT ![h] = TRUE, ![b] = TRUE]
      /\ upward' = (upward \/ h > b) /\ tame' \in BOOLEAN /\ (tame' => tame)
  <2>1. Construct(h, b, a) /\ Quiet /\ FreshArray(a)
    <3>1. CASE NewMapper(h, b, a) BY <3>1 DEF NewMapper
    <3>2. CASE ReconstructMapper(h, b, a) BY <3>2 DEF ReconstructMapper
    <3>3. QED BY <3>1, <3>2
  <2>2. tame' \in BOOLEAN /\ (tame' => tame)
    <3>1. CASE NewMapper(h, b, a) BY <3>1 DEF NewMapper, TypeOK
    <3>2. CASE ReconstructMapper(h, b, a) BY <3>2 DEF ReconstructMapper
    <3>3. QED BY <3>1, <3>2
  <2>3. QED BY <2>1, <2>2 DEF Construct, Overwrite, Quiet, FreshArray
<1>2. /\ kind \in [Handle -> {"free", "mapper", "builder", "hollow", "gone"}]
      /\ refs \in [Handle -> Nat] /\ vars \in [Handle -> Nat] /\ owed \in [Handle -> Nat]
      /\ lost \in [Handle -> Nat] /\ mapper \in [Handle -> HandleOrNone]
      /\ bld \in [Handle -> HandleOrNone] /\ made \in [Handle -> BOOLEAN]
      /\ reg \in [Handle -> ArrOrNone] /\ prop \in [Handle -> ArrOrNone]
      /\ rc \in [Arr -> Nat] /\ copies \in [Arr -> Nat] /\ owedArr \in [Arr -> Nat]
      /\ used \subseteq Arr
  BY DEF TypeOK
<1>3. h # b /\ kind[h] \in {"free", "mapper"} /\ kind[b] = "free"
  BY DEF NewMapper, ReconstructMapper, FreeHandle
<1>4. /\ refs[b] = 0 /\ mapper[b] = None /\ bld[b] = None /\ reg[b] = None /\ prop[b] = None
      /\ \A k \in Handle : bld[k] # b /\ mapper[k] # b
  BY <1>3, FreeNothing
<1>5. /\ refs' \in [Handle -> Nat] /\ vars' \in [Handle -> Nat]
      /\ \A x \in Handle :
           refs'[x] - refs[x] = (vars'[x] - vars[x]) + Is(x, b) + Is(x, h)
      /\ \A x \in Handle : x # h /\ x # b => refs'[x] = refs[x]
  <2> DEFINE f == [refs EXCEPT ![h] = 1, ![b] = 1]
             g == [refs EXCEPT ![b] = 1]
  <2>1. CASE NewMapper(h, b, a)
    <3>1. kind[h] = "free" /\ refs' = Copy(f, h) /\ vars' = [vars EXCEPT ![h] = 1]
      BY <2>1 DEF NewMapper, FreeHandle
    <3>2. refs[h] = 0 /\ vars[h] = 0 BY <3>1, FreeNothing
    <3>3. f \in [Handle -> Nat] BY <1>2
    <3>4. refs' \in [Handle -> Nat] /\ \A x \in Handle : refs'[x] = f[x] + Is(x, h)
      BY <3>1, <3>3, PlusHandle DEF Copy, HandleOrNone
    <3>5. vars' \in [Handle -> Nat] BY <3>1, <1>2
    <3>6. \A x \in Handle : f[x] - refs[x] = (vars'[x] - vars[x]) + Is(x, b)
      BY <3>1, <3>2, <1>2, <1>3, <1>4 DEF Is
    <3>7. \A x \in Handle :
            refs'[x] - refs[x] = (vars'[x] - vars[x]) + Is(x, b) + Is(x, h)
      <4> TAKE x \in Handle
      <4>1. /\ f[x] \in Nat /\ refs[x] \in Nat /\ vars[x] \in Nat /\ vars'[x] \in Nat
            /\ Is(x, b) \in Nat /\ Is(x, h) \in Nat
        BY <3>3, <3>5, <1>2, IsType
      <4>2. /\ refs'[x] = f[x] + Is(x, h)
            /\ f[x] - refs[x] = (vars'[x] - vars[x]) + Is(x, b)
        BY <3>4, <3>6
      <4>3. QED BY <4>1, <4>2
    <3>8. \A x \in Handle : x # h /\ x # b => refs'[x] = refs[x]
      BY <3>4, <1>2 DEF Is
    <3>9. QED BY <3>4, <3>5, <3>7, <3>8
  <2>2. CASE ReconstructMapper(h, b, a)
    <3>1. vars' = vars /\ refs' = Copy(g, h) BY <2>2 DEF ReconstructMapper
    <3>2. g \in [Handle -> Nat] BY <1>2
    <3>3. refs' \in [Handle -> Nat] /\ \A x \in Handle : refs'[x] = g[x] + Is(x, h)
      BY <3>1, <3>2, PlusHandle DEF Copy, HandleOrNone
    <3>4. \A x \in Handle : g[x] = refs[x] + Is(x, b) BY <1>2, <1>4 DEF Is
    <3>5. \A x \in Handle :
            refs'[x] - refs[x] = (vars'[x] - vars[x]) + Is(x, b) + Is(x, h)
      <4> TAKE x \in Handle
      <4>1. /\ refs[x] \in Nat /\ vars[x] \in Nat
            /\ Is(x, b) \in Nat /\ Is(x, h) \in Nat
        BY <1>2, IsType
      <4>2. refs'[x] = (refs[x] + Is(x, b)) + Is(x, h) BY <3>3, <3>4
      <4>3. QED BY <3>1, <4>1, <4>2
    <3>6. \A x \in Handle : x # h /\ x # b => refs'[x] = refs[x]
      BY <3>3, <1>2 DEF Is
    <3>7. QED BY <3>1, <3>3, <3>5, <3>6, <1>2
  <2>3. QED BY <2>1, <2>2
<1>6. /\ lost' \in [Handle -> Nat] /\ \A x \in Handle : lost'[x] = lost[x] + Is(x, bld[h])
      /\ owedArr' \in [Arr -> Nat] /\ \A x \in Arr : owedArr'[x] = owedArr[x] + Is(x, prop[h])
  <2>1. bld[h] \in HandleOrNone /\ prop[h] \in ArrOrNone BY <1>2
  <2>2. lost' \in [Handle -> Nat] /\ \A x \in Handle : lost'[x] = lost[x] + Is(x, bld[h])
    BY <2>1, <1>1, <1>2, PlusHandle
  <2>3. owedArr' \in [Arr -> Nat] /\ \A x \in Arr : owedArr'[x] = owedArr[x] + Is(x, prop[h])
    BY <2>1, <1>1, <1>2, PlusArr
  <2>4. QED BY <2>2, <2>3
<1>7. /\ \A x \in Handle : x # h => /\ bld'[x] = bld[x] /\ reg'[x] = reg[x]
                                    /\ prop'[x] = prop[x]
      /\ \A x \in Handle : x # b => mapper'[x] = mapper[x]
      /\ \A x \in Handle : x # h /\ x # b => kind'[x] = kind[x] /\ made'[x] = made[x]
      /\ bld'[h] = b /\ reg'[h] = a /\ prop'[h] = a /\ mapper'[b] = h
      /\ kind'[h] = "mapper" /\ kind'[b] = "builder" /\ made'[h] = TRUE
  BY <1>1, <1>2, <1>3
<1>8. TypeOK'
  <2>1. kind' \in [Handle -> {"free", "mapper", "builder", "hollow", "gone"}] BY <1>1, <1>2
  <2>2. /\ mapper' \in [Handle -> HandleOrNone] /\ bld' \in [Handle -> HandleOrNone]
        /\ made' \in [Handle -> BOOLEAN]
        /\ reg' \in [Handle -> ArrOrNone] /\ prop' \in [Handle -> ArrOrNone]
    BY <1>1, <1>2 DEF HandleOrNone, ArrOrNone
  <2>3. rc' \in [Arr -> Nat] /\ used' \subseteq Arr /\ upward' \in BOOLEAN BY <1>1, <1>2
  <2>4. QED BY <2>1, <2>2, <2>3, <1>1, <1>5, <1>6 DEF TypeOK
<1>9. \A x \in Handle : refs'[x] = Held(x)'
  <2> TAKE x \in Handle
  <2>1. refs[x] = vars[x] + owed[x] + lost[x] + Pointing(bld, x) + Pointing(mapper, x)
    BY <1>1 DEF Counted, CountsExact
  <2>2. \A j \in Handle \ {b} : mapper'[j] = mapper[j] BY <1>7
  <2>3. \A j \in Handle \ {h} : bld'[j] = bld[j] BY <1>7
  <2>4. Pointing(mapper', x) + Is(x, mapper[b]) = Pointing(mapper, x) + Is(x, mapper'[b])
    BY <2>2, LinkMoved
  <2>5. Pointing(bld', x) + Is(x, bld[h]) = Pointing(bld, x) + Is(x, bld'[h])
    BY <2>3, LinkMoved
  <2>6. Is(x, mapper[b]) = 0 BY <1>4, NoZero DEF Is, None
  <2>7. /\ owed[x] \in Nat /\ lost[x] \in Nat /\ vars[x] \in Nat /\ refs[x] \in Nat
        /\ Pointing(bld, x) \in Nat /\ Pointing(mapper, x) \in Nat
    BY HeldType
  <2>8. /\ Pointing(mapper', x) \in Nat /\ Pointing(bld', x) \in Nat
        /\ Is(x, h) \in Nat /\ Is(x, b) \in Nat /\ Is(x, bld[h]) \in Nat
        /\ refs'[x] \in Nat /\ vars'[x] \in Nat
    BY <1>5, PointingType, IsType
  <2>9. Held(x)' = vars'[x] + owed[x] + lost'[x] + Pointing(bld', x) + Pointing(mapper', x)
    BY <1>1 DEF Held, Pointing
  <2>10. /\ refs'[x] - refs[x] = (vars'[x] - vars[x]) + Is(x, b) + Is(x, h)
         /\ lost'[x] = lost[x] + Is(x, bld[h])
    BY <1>5, <1>6
  <2>11. /\ Pointing(mapper', x) = Pointing(mapper, x) + Is(x, h)
         /\ Pointing(bld', x) + Is(x, bld[h]) = Pointing(bld, x) + Is(x, b)
    BY <2>4, <2>5, <2>6, <2>7, <2>8, <1>7
  <2>12. lost'[x] + Pointing(bld', x) = lost[x] + Pointing(bld, x) + Is(x, b)
    BY <2>7, <2>8, <2>10, <2>11
  <2>13. lost'[x] \in Nat BY <1>6
  <2>14. Held(x)' = vars'[x] + owed[x] + (lost[x] + Pointing(bld, x) + Is(x, b))
                     + (Pointing(mapper, x) + Is(x, h))
    BY <2>7, <2>8, <2>9, <2>11, <2>12, <2>13
  <2>15. Held(x)' = refs[x] + (vars'[x] - vars[x]) + Is(x, b) + Is(x, h)
    BY <2>1, <2>7, <2>8, <2>14
  <2>16. QED BY <2>7, <2>8, <2>10, <2>15
<1>10. \A x \in Arr : rc'[x] = Counts(x)'
  <2> TAKE x \in Arr
  <2>1. rc[x] = copies[x] + owedArr[x] + Pointing(prop, x)
    BY <1>1 DEF Counted, CountsExact
  <2>2. \A j \in Handle \ {h} : prop'[j] = prop[j] BY <1>7
  <2>3. Pointing(prop', x) + Is(x, prop[h]) = Pointing(prop, x) + Is(x, prop'[h])
    BY <2>2, LinkMoved
  <2>4. rc'[x] = rc[x] + Is(x, a)
    <3>1. rc[a] = 0 BY <1>1 DEF Allocated
    <3>2. QED BY <3>1, <1>1, <1>2 DEF Is
  <2>5. /\ Pointing(prop', x) \in Nat /\ Pointing(prop, x) \in Nat /\ copies[x] \in Nat
        /\ owedArr[x] \in Nat /\ rc[x] \in Nat /\ Is(x, a) \in Nat /\ Is(x, prop[h]) \in Nat
    BY <1>2, PointingType, IsType
  <2>6. Counts(x)' = copies[x] + owedArr'[x] + Pointing(prop', x)
    BY <1>1 DEF Counts, Pointing
  <2>7. prop'[h] = a /\ owedArr'[x] = owedArr[x] + Is(x, prop[h]) BY <1>6, <1>7
  <2>8. QED BY <2>1, <2>3, <2>4, <2>5, <2>6, <2>7
<1>11. Counted'
  <2>1. \A x \in Handle : refs'[x] >= Held(x)' BY <1>5, <1>9
  <2>2. QED BY <2>1, <1>9, <1>10 DEF Counted, CountsExact, Held, Counts
<1>12. \A x \in Handle : IsMapper(x)' <=> IsMapper(x) \/ x = h
  BY <1>3, <1>7, NoZero DEF IsMapper, None
<1>13. \A x \in Handle : lost'[x] >= lost[x] /\ (bld[h] = x => lost'[x] >= 1)
  BY <1>2, <1>6 DEF Is
<1>14. \A x \in Handle : Pinned(x) => Pinned(x)'
  <2>1. SUFFICES ASSUME NEW x \in Handle, Pinned(x)
                 PROVE  lost'[x] >= 1 \/ \E k \in Handle : bld'[k] = x
    BY DEF Pinned
  <2>2. CASE lost[x] >= 1 BY <2>2, <1>2, <1>6, <1>13
  <2>3. CASE \E k \in Handle : bld[k] = x
    <3>1. PICK k \in Handle : bld[k] = x BY <2>3
    <3>2. k = h \/ bld'[k] = x BY <3>1, <1>7
    <3>3. QED BY <3>1, <3>2, <1>13
  <2>4. QED BY <2>1, <2>2, <2>3 DEF Pinned
<1>15. Shape'
  <2>1. freeing' = None BY <1>1 DEF Complete
  <2>2. \A x \in Handle : Live(x) => Live(x)'
    <3>1. \A x \in Handle : Live(x) => x # b BY <1>3 DEF Live
    <3>2. QED BY <3>1, <1>7 DEF Live
  <2>3. \A x \in Handle : kind'[x] = "free" => refs'[x] = 0 /\ ~made'[x]
    BY <1>5, <1>7 DEF Shape
  <2>4. \A x \in Handle : mapper'[x] # None => kind'[x] = "builder"
    <3>1. \A x \in Handle : mapper[x] # None => x # h /\ kind[x] = "builder"
      BY <1>3 DEF Shape
    <3>2. QED BY <3>1, <1>7
  <2>5. Live(h)' BY <1>7 DEF Live
  <2>6. \A x \in Handle : /\ bld'[x] # None => IsMapper(x)'
                          /\ reg'[x] # None => IsMapper(x)'
                          /\ prop'[x] # None => Live(x)'
    BY <1>7, <1>12, <2>2, <2>5 DEF Shape
  <2>7. QED BY <2>1, <2>3, <2>4, <2>6, NoZero DEF Shape, None
<1>16. Complete'
  <2>1. \A x \in Handle : kind'[x] # "gone"
    <3>1. \A x \in Handle : kind[x] # "gone" BY <1>1 DEF Complete
    <3>2. kind'[h] # "gone" /\ kind'[b] # "gone" BY <1>7
    <3>3. \A x \in Handle : x = h \/ x = b \/ kind'[x] = kind[x] BY <1>7
    <3>4. QED BY <3>1, <3>2, <3>3
  <2>2. \A y \in Handle : kind[y] = "builder" => kind'[y] = "builder"
    BY <1>3, <1>7
  <2>3. SUFFICES ASSUME NEW x \in Handle, IsMapper(x)'
                 PROVE  bld'[x] # None /\ reg'[x] # None /\ kind'[bld'[x]] = "builder"
    BY <2>1, <1>1 DEF Complete
  <2>4. CASE x = h BY <2>4, <1>7, NoZero DEF None
  <2>5. CASE x # h
    <3>1. bld[x] # None /\ reg[x] # None /\ kind[bld[x]] = "builder"
      BY <2>3, <2>5, <1>1, <1>12 DEF Complete
    <3>2. bld[x] \in Handle BY <3>1, <1>2 DEF HandleOrNone
    <3>3. QED BY <3>1, <3>2, <2>2, <2>5, <1>7
  <2>6. QED BY <2>4, <2>5
<1>17. MappersPinned'
  <2>1. SUFFICES ASSUME NEW x \in Handle, IsMapper(x)'
                 PROVE  lost'[x] >= 1 \/ \E c \in Handle : mapper'[c] = x /\ Pinned(c)'
    BY DEF MappersPinned
  <2>2. CASE x = h
    <3>1. Pinned(b)' BY <1>7 DEF Pinned
    <3>2. QED BY <3>1, <2>2, <1>7
  <2>3. CASE x # h /\ lost[x] >= 1 BY <2>3, <1>2, <1>6, <1>13
  <2>4. CASE x # h /\ \E c \in Handle : mapper[c] = x /\ Pinned(c)
    <3>1. PICK c \in Handle : mapper[c] = x /\ Pinned(c) BY <2>4
    <3>2. c # b BY <3>1, <1>4, NoZero DEF None
    <3>3. QED BY <3>1, <3>2, <1>7, <1>14
  <2>5. QED BY <2>1, <2>2, <2>3, <2>4, <1>1, <1>12 DEF MappersPinned
<1>18. CallsPinned'
  <2>1. \A i \in DOMAIN calls : calls[i] \in Handle BY DEF TypeOK
  <2>2. \A y \in Handle : kind[y] = "builder" => kind'[y] = "builder"
    BY <1>3, <1>7
  <2>3. \A i \in DOMAIN calls : kind'[calls[i]] = "builder" /\ Pinned(calls[i])'
    BY <2>1, <2>2, <1>1, <1>14 DEF CallsPinned
  <2>4. QED BY <2>3, <1>1 DEF CallsPinned, Pinned
<1>19. Allocated'
  <2>1. a \in used' /\ used \subseteq used' BY <1>1
  <2>2. \A x \in Handle : /\ reg'[x] # None => reg'[x] \in used'
                          /\ prop'[x] # None => prop'[x] \in used'
                          /\ bld'[x] # None => used' # {}
    BY <2>1, <1>7 DEF Allocated
  <2>3. \A x \in Arr : x \notin used' => rc'[x] = 0 /\ copies[x] = 0 /\ owedArr'[x] = 0
    <3>1. \A x \in Arr : x \notin used' => x # a /\ x \notin used /\ x # prop[h]
      BY <2>1, <1>2, NoZero DEF Allocated, None
    <3>2. QED BY <3>1, <1>1, <1>2, <1>6 DEF Allocated, Is
  <2>4. QED BY <2>2, <2>3, <1>1 DEF Allocated
<1>20. Tamed'
  <2>1. SUFFICES ASSUME tame' PROVE Tamed' BY <2>1 DEF Tamed
  <2>2. tame BY <1>1, <2>1
  <2>3. \A x \in Handle : Live(x)' => made'[x] /\ kind'[x] # "hollow"
    <3>1. made'[b] /\ made'[h] BY <1>1, <1>2
    <3>2. kind'[h] # "hollow" /\ kind'[b] # "hollow" BY <1>7
    <3>3. \A x \in Handle : Live(x) => made[x] /\ kind[x] # "hollow" BY <2>2, <1>1 DEF Tamed
    <3>4. \A x \in Handle : x # h /\ x # b => (Live(x)' <=> Live(x)) BY <1>7 DEF Live
    <3>5. \A x \in Handle : x # h /\ x # b /\ Live(x)' => made'[x] /\ kind'[x] # "hollow"
      BY <3>3, <3>4, <1>7
    <3>6. QED BY <3>1, <3>2, <3>5
  <2>4. \A x \in Handle : kind'[x] = "builder" => IsMapper(mapper[x])'
    <3>1. SUFFICES ASSUME NEW x \in Handle, kind'[x] = "builder"
                   PROVE  \E y \in Handle : mapper'[x] = y /\ IsMapper(y)'
      BY <3>1 DEF IsMapper
    <3>2. CASE x = b BY <3>2, <1>7, <1>12
    <3>3. CASE x # b
      <4>1. x # h BY <3>1, <1>7
      <4>2. mapper'[x] = mapper[x] /\ IsMapper(mapper[x])
        BY <3>1, <3>3, <4>1, <2>2, <1>1, <1>7 DEF Tamed
      <4>3. mapper[x] \in Handle BY <4>2, <1>2 DEF HandleOrNone, IsMapper
      <4>4. QED BY <4>2, <4>3, <1>12
    <3>4. QED BY <3>2, <3>3
  <2>5. \A x \in Handle : IsMapper(x)' => prop'[x] = reg'[x]
    BY <2>2, <1>1, <1>7, <1>12 DEF Tamed
  <2>6. QED BY <2>3, <2>4, <2>5, <1>1 DEF Tamed
<1>21. Downward'
  <2>1. h \in Nat /\ b \in Nat BY HandleAssumption
  <2>2. ~upward' => ~upward /\ ~(h > b) BY <1>1, Zenon
  <2>3. ~upward' => h <= b BY <2>1, <2>2
  <2>4. QED BY <2>2, <2>3, <1>1, <1>7 DEF Downward
<1>22. Ending' BY <1>1 DEF Ending
<1>23. QED
  BY <1>8, <1>11, <1>15, <1>16, <1>17, <1>18, <1>19, <1>20, <1>21, <1>22

-----------------------------------------------------------------------------
(* The free handlers.                                                       *)

\* What a free handler gives up comes from the links it clears: a reference
\* becomes a release.
LEMMA GivenUp ==
    ASSUME TypeOK, NEW h \in Handle, NEW o \in [Handle -> Nat], NEW oa \in [Arr -> Nat],
           GiveUp(h, o, oa)
    PROVE  /\ owed' \in [Handle -> Nat] /\ owedArr' \in [Arr -> Nat]
           /\ bld' \in [Handle -> HandleOrNone] /\ mapper' \in [Handle -> HandleOrNone]
           /\ reg' \in [Handle -> ArrOrNone] /\ prop' \in [Handle -> ArrOrNone]
           /\ \A x \in Handle : x # h =>
                /\ bld'[x] = bld[x] /\ mapper'[x] = mapper[x]
                /\ reg'[x] = reg[x] /\ prop'[x] = prop[x]
           /\ bld'[h] = None /\ mapper'[h] = None /\ reg'[h] = None /\ prop'[h] = None
           /\ \A x \in Handle : owed'[x] = (o[x] + Is(x, bld[h])) + Is(x, mapper[h])
           /\ \A x \in Arr : owedArr'[x] = (oa[x] + Is(x, prop[h])) + Is(x, reg[h])
           /\ \A x \in Handle :
                owed'[x] + Pointing(bld', x) + Pointing(mapper', x)
                    = o[x] + Pointing(bld, x) + Pointing(mapper, x)
           /\ \A x \in Arr : Pointing(prop', x) + Is(x, prop[h]) = Pointing(prop, x)
<1>1. /\ bld \in [Handle -> HandleOrNone] /\ mapper \in [Handle -> HandleOrNone]
      /\ reg \in [Handle -> ArrOrNone] /\ prop \in [Handle -> ArrOrNone]
  BY DEF TypeOK
<1>2. /\ owed' = Plus(Plus(o, bld[h]), mapper[h])
      /\ owedArr' = Plus(Plus(oa, prop[h]), reg[h])
      /\ bld' = [bld EXCEPT ![h] = None] /\ mapper' = [mapper EXCEPT ![h] = None]
      /\ reg' = [reg EXCEPT ![h] = None] /\ prop' = [prop EXCEPT ![h] = None]
  BY DEF GiveUp, Owes
<1>3. /\ bld' \in [Handle -> HandleOrNone] /\ mapper' \in [Handle -> HandleOrNone]
      /\ reg' \in [Handle -> ArrOrNone] /\ prop' \in [Handle -> ArrOrNone]
  BY <1>1, <1>2 DEF HandleOrNone, ArrOrNone
<1>4. /\ \A x \in Handle : x # h =>
           /\ bld'[x] = bld[x] /\ mapper'[x] = mapper[x]
           /\ reg'[x] = reg[x] /\ prop'[x] = prop[x]
      /\ bld'[h] = None /\ mapper'[h] = None /\ reg'[h] = None /\ prop'[h] = None
  BY <1>1, <1>2
<1>5. /\ owed' \in [Handle -> Nat]
      /\ \A x \in Handle : owed'[x] = (o[x] + Is(x, bld[h])) + Is(x, mapper[h])
  <2>1. bld[h] \in HandleOrNone /\ mapper[h] \in HandleOrNone BY <1>1
  <2>2. PICK q \in [Handle -> Nat] :
          q = Plus(o, bld[h]) /\ \A x \in Handle : q[x] = o[x] + Is(x, bld[h])
    BY <2>1, PlusHandle
  <2>3. owed' = Plus(q, mapper[h]) BY <1>2, <2>2
  <2>4. owed' \in [Handle -> Nat] /\ \A x \in Handle : owed'[x] = q[x] + Is(x, mapper[h])
    BY <2>1, <2>3, PlusHandle
  <2>5. QED BY <2>2, <2>4
<1>6. /\ owedArr' \in [Arr -> Nat]
      /\ \A x \in Arr : owedArr'[x] = (oa[x] + Is(x, prop[h])) + Is(x, reg[h])
  <2>1. reg[h] \in ArrOrNone /\ prop[h] \in ArrOrNone BY <1>1
  <2>2. PICK q \in [Arr -> Nat] :
          q = Plus(oa, prop[h]) /\ \A x \in Arr : q[x] = oa[x] + Is(x, prop[h])
    BY <2>1, PlusArr
  <2>3. owedArr' = Plus(q, reg[h]) BY <1>2, <2>2
  <2>4. owedArr' \in [Arr -> Nat] /\ \A x \in Arr : owedArr'[x] = q[x] + Is(x, reg[h])
    BY <2>1, <2>3, PlusArr
  <2>5. QED BY <2>2, <2>4
<1>7. \A x \in Handle :
        /\ Pointing(bld', x) + Is(x, bld[h]) = Pointing(bld, x)
        /\ Pointing(mapper', x) + Is(x, mapper[h]) = Pointing(mapper, x)
  <2>1. \A j \in Handle \ {h} : bld'[j] = bld[j] BY <1>4
  <2>2. \A j \in Handle \ {h} : mapper'[j] = mapper[j] BY <1>4
  <2>3. \A x : Pointing(bld', x) + Is(x, bld[h]) = Pointing(bld, x) + Is(x, bld'[h])
    BY <2>1, LinkMoved
  <2>4. \A x : Pointing(mapper', x) + Is(x, mapper[h])
                 = Pointing(mapper, x) + Is(x, mapper'[h])
    BY <2>2, LinkMoved
  <2> TAKE x \in Handle
  <2>5. Is(x, bld'[h]) = 0 /\ Is(x, mapper'[h]) = 0 BY <1>4, NoZero DEF Is, None
  <2>6. Pointing(bld, x) \in Nat /\ Pointing(mapper, x) \in Nat BY PointingType
  <2>7. QED BY <2>3, <2>4, <2>5, <2>6
<1>8. \A x \in Handle :
        owed'[x] + Pointing(bld', x) + Pointing(mapper', x)
            = o[x] + Pointing(bld, x) + Pointing(mapper, x)
  <2> TAKE x \in Handle
  <2>1. /\ Pointing(bld', x) \in Nat /\ Pointing(mapper', x) \in Nat
        /\ o[x] \in Nat /\ Is(x, bld[h]) \in Nat /\ Is(x, mapper[h]) \in Nat
    BY PointingType, IsType
  <2>2. owed'[x] = (o[x] + Is(x, bld[h])) + Is(x, mapper[h]) BY <1>5
  <2>3. /\ Pointing(bld', x) + Is(x, bld[h]) = Pointing(bld, x)
        /\ Pointing(mapper', x) + Is(x, mapper[h]) = Pointing(mapper, x)
    BY <1>7
  <2>4. QED BY <2>1, <2>2, <2>3
<1>9. \A x \in Arr : Pointing(prop', x) + Is(x, prop[h]) = Pointing(prop, x)
  <2> TAKE x \in Arr
  <2>1. \A j \in Handle \ {h} : prop'[j] = prop[j] BY <1>4
  <2>2. Pointing(prop', x) + Is(x, prop[h]) = Pointing(prop, x) + Is(x, prop'[h])
    BY <2>1, LinkMoved
  <2>3. Is(x, prop'[h]) = 0 BY <1>4, NoZero DEF Is, None
  <2>4. Pointing(prop, x) \in Nat BY PointingType
  <2>5. QED BY <2>2, <2>3, <2>4
<1>10. QED BY <1>3, <1>4, <1>5, <1>6, <1>8, <1>9

\* An object whose last reference is given back: that release is the only one,
\* so it is no constructed mapper, and no builder that one needs.
LEMMA LastReference ==
    ASSUME Inv, NEW h \in Handle, DropLast(h)
    PROVE  /\ owed[h] = 1 /\ lost[h] = 0 /\ vars[h] = 0
           /\ \A k \in Handle : bld[k] # h /\ mapper[k] # h
           /\ ~Pinned(h)
           /\ phase = "script" => ~IsMapper(h) /\ bld[h] = None /\ reg[h] = None
<1> USE DEF Inv
<1>1. refs[h] = 1 /\ owed[h] > 0 BY DEF DropLast
<1>2. /\ vars[h] \in Nat /\ owed[h] \in Nat /\ lost[h] \in Nat
      /\ Pointing(bld, h) \in Nat /\ Pointing(mapper, h) \in Nat
  BY HeldType
<1>3. 1 >= vars[h] + owed[h] + lost[h] + Pointing(bld, h) + Pointing(mapper, h)
  BY <1>1 DEF Counted, Held
<1>4. /\ vars[h] = 0 /\ owed[h] = 1 /\ lost[h] = 0
      /\ Pointing(bld, h) = 0 /\ Pointing(mapper, h) = 0
  <2>1. PICK a, b, c, d, e \in Nat :
          /\ a = vars[h] /\ b = owed[h] /\ c = lost[h]
          /\ d = Pointing(bld, h) /\ e = Pointing(mapper, h)
    BY <1>2
  <2>2. 1 >= a + b + c + d + e /\ b >= 1 BY <1>1, <1>3, <2>1
  <2>3. a = 0 /\ b = 1 /\ c = 0 /\ d = 0 /\ e = 0 BY <2>2
  <2>4. QED BY <2>1, <2>3
<1>5. \A k \in Handle : bld[k] # h /\ mapper[k] # h BY <1>4, PointingType
<1>6. ~Pinned(h) BY <1>4, <1>5 DEF Pinned
<1>7. phase = "script" => ~IsMapper(h) BY <1>4, <1>5 DEF MappersPinned
<1>8. phase = "script" => bld[h] = None /\ reg[h] = None BY <1>7 DEF Shape
<1>9. QED BY <1>4, <1>5, <1>6, <1>7, <1>8

\* In the end of a request without mappers, what a builder holds is there.
LEMMA HeldAtEnd ==
    ASSUME Inv, phase = "end", used = {}, ~upward, NEW h \in Handle, Live(h)
    PROVE  /\ bld[h] = None /\ reg[h] = None /\ prop[h] = None
           /\ \A x \in Handle : x = mapper[h] => Live(x)
<1> USE DEF Inv
<1>1. bld[h] = None /\ reg[h] = None /\ prop[h] = None BY DEF Allocated
<1>2. SUFFICES ASSUME NEW x \in Handle, x = mapper[h] PROVE Live(x) BY <1>1
<1>3. x # None BY NoZero DEF None
<1>4. x <= h BY <1>2, <1>3 DEF Downward
<1>5. Pointing(mapper, x) # 0 BY <1>2, PointingType
<1>6. refs[x] # 0
  <2>1. refs[x] >= vars[x] + owed[x] + lost[x] + Pointing(bld, x) + Pointing(mapper, x)
    BY DEF Counted, Held
  <2>2. /\ owed[x] \in Nat /\ lost[x] \in Nat /\ vars[x] \in Nat /\ refs[x] \in Nat
        /\ Pointing(bld, x) \in Nat /\ Pointing(mapper, x) \in Nat
    BY HeldType
  <2>3. QED BY <1>5, <2>1, <2>2
<1>7. kind[x] # "free" BY <1>6 DEF Shape
<1>8. kind[x] # "gone"
  <2>1. SUFFICES ASSUME kind[x] = "gone" PROVE FALSE OBVIOUS
  <2>2. h < x BY <2>1 DEF Ending
  <2>3. h \in Nat /\ x \in Nat BY HandleAssumption
  <2>4. QED BY <1>4, <2>2, <2>3
<1>9. QED BY <1>7, <1>8 DEF TypeOK, Live

LEMMA DropLastStep ==
    ASSUME Inv, ~bad, NEW h \in Handle, DropLast(h)
    PROVE  Inv'
<1> USE DEF Inv
<1> DEFINE o == [owed EXCEPT ![h] = @ - 1]
<1>1. /\ UNCHANGED <<vars, lost, array, calls, flow, tame, bad>> /\ Live(h) /\ refs[h] = 1
      /\ kind' = [kind EXCEPT ![h] = "free"] /\ refs' = [refs EXCEPT ![h] = 0]
      /\ made' = [made EXCEPT ![h] = FALSE] /\ GiveUp(h, o, owedArr)
  BY DEF DropLast
<1>2. /\ kind \in [Handle -> {"free", "mapper", "builder", "hollow", "gone"}]
      /\ refs \in [Handle -> Nat] /\ vars \in [Handle -> Nat] /\ owed \in [Handle -> Nat]
      /\ lost \in [Handle -> Nat] /\ made \in [Handle -> BOOLEAN]
      /\ owedArr \in [Arr -> Nat]
      /\ bld \in [Handle -> HandleOrNone] /\ mapper \in [Handle -> HandleOrNone]
  BY DEF TypeOK
<1>3. /\ owed[h] = 1
      /\ \A k \in Handle : bld[k] # h /\ mapper[k] # h
      /\ ~Pinned(h)
      /\ phase = "script" => ~IsMapper(h) /\ bld[h] = None /\ reg[h] = None
  BY LastReference
<1>4. o \in [Handle -> Nat] /\ \A x \in Handle : o[x] = owed[x] - Is(x, h)
  BY <1>2, <1>3 DEF Is
<1> HIDE DEF o
<1>5. /\ owed' \in [Handle -> Nat] /\ owedArr' \in [Arr -> Nat]
      /\ bld' \in [Handle -> HandleOrNone] /\ mapper' \in [Handle -> HandleOrNone]
      /\ reg' \in [Handle -> ArrOrNone] /\ prop' \in [Handle -> ArrOrNone]
      /\ \A x \in Handle : x # h =>
           /\ bld'[x] = bld[x] /\ mapper'[x] = mapper[x]
           /\ reg'[x] = reg[x] /\ prop'[x] = prop[x]
      /\ bld'[h] = None /\ mapper'[h] = None /\ reg'[h] = None /\ prop'[h] = None
      /\ \A x \in Handle : owed'[x] = (o[x] + Is(x, bld[h])) + Is(x, mapper[h])
      /\ \A x \in Arr : owedArr'[x] = (owedArr[x] + Is(x, prop[h])) + Is(x, reg[h])
      /\ \A x \in Handle :
           owed'[x] + Pointing(bld', x) + Pointing(mapper', x)
               = o[x] + Pointing(bld, x) + Pointing(mapper, x)
      /\ \A x \in Arr : Pointing(prop', x) + Is(x, prop[h]) = Pointing(prop, x)
  BY <1>1, <1>2, <1>4, GivenUp
<1>6. /\ \A x \in Handle : x # h => /\ kind'[x] = kind[x] /\ refs'[x] = refs[x]
                                    /\ made'[x] = made[x]
      /\ kind'[h] = "free" /\ refs'[h] = 0 /\ made'[h] = FALSE
      /\ refs' \in [Handle -> Nat]
      /\ \A x \in Handle : refs'[x] = refs[x] - Is(x, h)
  BY <1>1, <1>2 DEF Is
<1>7. TypeOK'
  <2>1. kind' \in [Handle -> {"free", "mapper", "builder", "hollow", "gone"}] BY <1>1, <1>2
  <2>2. made' \in [Handle -> BOOLEAN] BY <1>1, <1>2
  <2>3. QED BY <2>1, <2>2, <1>1, <1>5, <1>6 DEF TypeOK, array, flow
<1>8. \A x \in Handle : Held(x)' = Held(x) - Is(x, h) /\ Held(x)' \in Nat /\ Held(x) \in Nat
  <2> TAKE x \in Handle
  <2>1. Held(x)' = vars[x] + lost[x] + (owed'[x] + Pointing(bld', x) + Pointing(mapper', x))
    <3>1. Held(x)' = vars[x] + owed'[x] + lost[x] + Pointing(bld', x) + Pointing(mapper', x)
      BY <1>1 DEF Held, Pointing
    <3>2. /\ vars[x] \in Nat /\ lost[x] \in Nat /\ owed'[x] \in Nat
          /\ Pointing(bld', x) \in Nat /\ Pointing(mapper', x) \in Nat
      BY <1>2, <1>5, PointingType
    <3>3. QED BY <3>1, <3>2
  <2>2. /\ owed[x] \in Nat /\ lost[x] \in Nat /\ vars[x] \in Nat
        /\ Pointing(bld, x) \in Nat /\ Pointing(mapper, x) \in Nat
    BY HeldType
  <2>3. o[x] \in Nat /\ o[x] = owed[x] - Is(x, h) /\ Is(x, h) \in Nat BY <1>4, IsType
  <2>4. Held(x)' = vars[x] + lost[x] + (o[x] + Pointing(bld, x) + Pointing(mapper, x))
    BY <2>1, <1>5
  <2>5. Held(x) = vars[x] + owed[x] + lost[x] + Pointing(bld, x) + Pointing(mapper, x)
    BY DEF Held
  <2>6. QED BY <2>2, <2>3, <2>4, <2>5
<1>9. Counted'
  <2>1. \A x \in Handle : refs'[x] >= Held(x)'
    <3> TAKE x \in Handle
    <3>1. refs[x] >= Held(x) /\ refs[x] \in Nat BY <1>2 DEF Counted
    <3>2. Is(x, h) \in Nat BY IsType
    <3>3. refs'[x] = refs[x] - Is(x, h) BY <1>6
    <3>4. Held(x)' = Held(x) - Is(x, h) /\ Held(x)' \in Nat /\ Held(x) \in Nat BY <1>8
    <3>5. QED BY <3>1, <3>2, <3>3, <3>4
  <2>2. phase = "script" => \A x \in Handle : refs'[x] = Held(x)'
    <3>1. SUFFICES ASSUME phase = "script", NEW x \in Handle PROVE refs'[x] = Held(x)'
      OBVIOUS
    <3>2. refs[x] = Held(x) BY <3>1 DEF Counted, CountsExact, Held
    <3>3. refs'[x] = refs[x] - Is(x, h) BY <1>6
    <3>4. Held(x)' = Held(x) - Is(x, h) BY <1>8
    <3>5. QED BY <3>2, <3>3, <3>4
  <2>3. phase = "script" => \A x \in Arr : rc'[x] = Counts(x)'
    <3>1. SUFFICES ASSUME phase = "script", NEW x \in Arr PROVE rc'[x] = Counts(x)'
      OBVIOUS
    <3>2. rc[x] = copies[x] + owedArr[x] + Pointing(prop, x)
      BY <3>1 DEF Counted, CountsExact
    <3>3. Counts(x)' = copies[x] + owedArr'[x] + Pointing(prop', x) /\ rc'[x] = rc[x]
      BY <1>1 DEF Counts, Pointing, array
    <3>4. Is(x, reg[h]) = 0 BY <3>1, <1>3, NoZero DEF Is, None
    <3>5. /\ Pointing(prop', x) \in Nat /\ Pointing(prop, x) \in Nat /\ copies[x] \in Nat
          /\ owedArr[x] \in Nat /\ Is(x, prop[h]) \in Nat
      BY ArrayTypes, PointingType, IsType
    <3>6. /\ owedArr'[x] = (owedArr[x] + Is(x, prop[h])) + Is(x, reg[h])
          /\ Pointing(prop', x) + Is(x, prop[h]) = Pointing(prop, x)
      BY <1>5
    <3>7. QED BY <3>2, <3>3, <3>4, <3>5, <3>6
  <2>4. QED BY <2>1, <2>2, <2>3, <1>1 DEF Counted, CountsExact, Held, Counts, flow
<1>10. \A x \in Handle : x # h => (IsMapper(x)' <=> IsMapper(x)) /\ (Live(x)' <=> Live(x))
  BY <1>6 DEF IsMapper, Live
<1>11. ~IsMapper(h)' /\ ~Live(h)' BY <1>6 DEF IsMapper, Live
<1>12. Shape'
  <2>1. SUFFICES ASSUME NEW x \in Handle
                 PROVE  /\ bld'[x] # None => IsMapper(x)'
                        /\ reg'[x] # None => IsMapper(x)'
                        /\ mapper'[x] # None => kind'[x] = "builder"
                        /\ prop'[x] # None => Live(x)'
                        /\ kind'[x] = "free" => refs'[x] = 0 /\ ~made'[x]
                        /\ x = freeing => /\ bld'[x] = None /\ mapper'[x] = None
                                          /\ reg'[x] = None /\ prop'[x] = None
    BY <1>1 DEF Shape, flow
  <2>2. CASE x = h BY <2>2, <1>5, <1>6
  <2>3. CASE x # h BY <2>3, <1>5, <1>6, <1>10 DEF Shape
  <2>4. QED BY <2>2, <2>3
<1>13. Complete'
  <2>1. SUFFICES ASSUME phase = "script" PROVE Complete' BY <1>1 DEF Complete, flow
  <2>2. \A x \in Handle : kind'[x] # "gone"
    <3>1. kind'[h] # "gone" BY <1>6
    <3>2. QED BY <3>1, <2>1, <1>6 DEF Complete
  <2>3. SUFFICES ASSUME NEW x \in Handle, IsMapper(x)'
                 PROVE  bld'[x] # None /\ reg'[x] # None /\ kind'[bld'[x]] = "builder"
    BY <2>1, <2>2, <1>1 DEF Complete, flow
  <2>4. x # h BY <2>3, <1>11
  <2>5. bld[x] # None /\ reg[x] # None /\ kind[bld[x]] = "builder"
    BY <2>1, <2>3, <2>4, <1>10 DEF Complete
  <2>6. bld[x] \in Handle /\ bld[x] # h BY <2>5, <1>2, <1>3 DEF HandleOrNone
  <2>7. QED BY <2>4, <2>5, <2>6, <1>5, <1>6
<1>14. \A x \in Handle : phase = "script" /\ Pinned(x) => x # h /\ Pinned(x)'
  <2>1. SUFFICES ASSUME NEW x \in Handle, phase = "script", Pinned(x)
                 PROVE  lost'[x] >= 1 \/ \E k \in Handle : bld'[k] = x
    BY <2>1, <1>3 DEF Pinned
  <2>2. CASE lost[x] >= 1 BY <2>2, <1>1
  <2>3. CASE \E k \in Handle : bld[k] = x
    <3>1. PICK k \in Handle : bld[k] = x BY <2>3
    <3>2. k # h BY <2>1, <3>1, <1>3, NoZero DEF None
    <3>3. QED BY <3>1, <3>2, <1>5
  <2>4. QED BY <2>1, <2>2, <2>3 DEF Pinned
<1>15. MappersPinned'
  <2>1. SUFFICES ASSUME phase = "script", NEW x \in Handle, IsMapper(x)'
                 PROVE  lost'[x] >= 1 \/ \E c \in Handle : mapper'[c] = x /\ Pinned(c)'
    BY <1>1 DEF MappersPinned, flow
  <2>2. IsMapper(x) BY <2>1, <1>10, <1>11
  <2>3. CASE lost[x] >= 1 BY <2>3, <1>1
  <2>4. CASE \E c \in Handle : mapper[c] = x /\ Pinned(c)
    <3>1. PICK c \in Handle : mapper[c] = x /\ Pinned(c) BY <2>4
    <3>2. c # h /\ Pinned(c)' BY <2>1, <3>1, <1>14
    <3>3. QED BY <3>1, <3>2, <1>5
  <2>5. QED BY <2>1, <2>2, <2>3, <2>4 DEF MappersPinned
<1>16. CallsPinned'
  <2>1. SUFFICES ASSUME phase = "script", NEW i \in DOMAIN calls
                 PROVE  kind'[calls[i]] = "builder" /\ Pinned(calls[i])'
    BY <1>1 DEF CallsPinned, Pinned, flow
  <2>2. PICK c \in Handle : c = calls[i] BY DEF TypeOK
  <2>3. kind[c] = "builder" /\ Pinned(c) BY <2>1, <2>2 DEF CallsPinned
  <2>4. c # h /\ Pinned(c)' BY <2>1, <2>3, <1>14
  <2>5. calls' = calls BY <1>1
  <2>6. QED BY <2>2, <2>3, <2>4, <2>5, <1>6 DEF Pinned
<1>17. Allocated'
  <2>1. used' = used /\ rc' = rc /\ copies' = copies BY <1>1 DEF array
  <2>2. \A x \in Arr : x \notin used => owedArr'[x] = 0
    <3>1. \A x \in Arr : x \notin used => x # reg[h] /\ x # prop[h] /\ owedArr[x] = 0
      BY NoZero DEF Allocated, None
    <3>2. QED BY <3>1, <1>5 DEF Is
  <2>3. \A x \in Handle : /\ reg'[x] # None => reg'[x] \in used
                          /\ prop'[x] # None => prop'[x] \in used
                          /\ bld'[x] # None => used # {}
    BY <1>5 DEF Allocated
  <2>4. QED BY <2>1, <2>2, <2>3 DEF Allocated
<1>18. Tamed'
  <2>1. SUFFICES ASSUME tame, phase = "script" PROVE Tamed' BY <1>1 DEF Tamed, flow
  <2>2. \A x \in Handle : Live(x)' => made'[x] /\ kind'[x] # "hollow"
    <3>1. \A x \in Handle : Live(x)' => x # h /\ Live(x) BY <1>10, <1>11
    <3>2. QED BY <3>1, <2>1, <1>6 DEF Tamed
  <2>3. \A x \in Handle : kind'[x] = "builder" => IsMapper(mapper[x])'
    <3>1. SUFFICES ASSUME NEW x \in Handle, kind'[x] = "builder"
                   PROVE  \E y \in Handle : mapper'[x] = y /\ IsMapper(y)'
      BY <3>1 DEF IsMapper
    <3>2. x # h /\ kind[x] = "builder" BY <3>1, <1>6
    <3>3. IsMapper(mapper[x]) BY <3>2, <2>1 DEF Tamed
    <3>4. mapper[x] \in Handle /\ mapper[x] # h
      BY <3>3, <1>2, <1>3 DEF HandleOrNone, IsMapper
    <3>5. QED BY <3>2, <3>3, <3>4, <1>5, <1>10
  <2>4. \A x \in Handle : IsMapper(x)' => prop'[x] = reg'[x]
    BY <2>1, <1>5, <1>10, <1>11 DEF Tamed
  <2>5. QED BY <2>1, <2>2, <2>3, <2>4, <1>1 DEF Tamed
<1>19. Downward' BY <1>1, <1>5 DEF Downward, flow
<1>20. Ending'
  <2>1. SUFFICES ASSUME phase = "end", used = {}, ~upward PROVE Ending'
    BY <1>1 DEF Ending, flow, array
  <2>2. bld[h] = None /\ \A x \in Handle : x = mapper[h] => Live(x)
    BY <2>1, <1>1, HeldAtEnd
  <2>3. \A x \in Handle : owed'[x] > 0 => Live(x)'
    <3>1. SUFFICES ASSUME NEW x \in Handle, owed'[x] > 0 PROVE Live(x)' OBVIOUS
    <3>2. Is(x, bld[h]) = 0 BY <2>2, NoZero DEF Is, None
    <3>3. owed'[x] = (o[x] + Is(x, bld[h])) + Is(x, mapper[h]) BY <1>5
    <3>4. o[x] \in Nat /\ o[x] = owed[x] - Is(x, h) BY <1>4
    <3>5. CASE x = mapper[h]
      <4>1. x # h BY <3>5, <1>3
      <4>2. QED BY <4>1, <3>5, <2>2, <1>10
    <3>6. CASE x # mapper[h]
      <4>1. o[x] > 0 BY <3>1, <3>2, <3>3, <3>4, <3>6 DEF Is
      <4>2. x # h /\ owed[x] > 0 BY <4>1, <3>4, <1>2, <1>3 DEF Is
      <4>3. Live(x) BY <4>2, <2>1 DEF Ending
      <4>4. QED BY <4>2, <4>3, <1>10
    <3>7. QED BY <3>5, <3>6
  <2>4. \A g, k \in Handle : kind'[g] = "gone" /\ Live(k)' => k < g
    <3>1. \A g \in Handle : kind'[g] = "gone" => kind[g] = "gone" BY <1>6
    <3>2. \A k \in Handle : Live(k)' => Live(k) BY <1>10, <1>11
    <3>3. QED BY <3>1, <3>2, <2>1 DEF Ending
  <2>5. freeing # None =>
          /\ Live(freeing)' /\ refs'[freeing] > Held(freeing)'
          /\ \A k \in Handle : Live(k)' => k <= freeing
    <3>1. SUFFICES ASSUME freeing # None PROVE
            /\ Live(freeing)' /\ refs'[freeing] > Held(freeing)'
            /\ \A k \in Handle : Live(k)' => k <= freeing
      OBVIOUS
    <3>2. PICK x \in Handle : x = freeing BY <3>1 DEF TypeOK, HandleOrNone
    <3>3. Live(x) /\ refs[x] > Held(x) /\ \A k \in Handle : Live(k) => k <= x
      BY <2>1, <3>1, <3>2 DEF Ending
    <3>4. x # h
      <4>1. Held(h) >= 1
        <5>1. Held(h) = vars[h] + owed[h] + lost[h] + Pointing(bld, h) + Pointing(mapper, h)
          BY DEF Held
        <5>2. QED BY <5>1, <1>3, HeldType
      <4>2. QED BY <4>1, <3>3, <1>1, HeldType
    <3>5. refs'[x] = refs[x] /\ Held(x)' = Held(x)
      BY <3>4, <1>6, <1>8 DEF Is
    <3>6. refs'[x] > Held(x)' BY <3>3, <3>5
    <3>7. freeing' = x BY <3>2, <1>1 DEF flow
    <3>8. Live(x)' BY <3>3, <3>4, <1>10
    <3>9. \A k \in Handle : Live(k)' => k <= x BY <3>3, <1>10, <1>11
    <3>10. refs'[freeing] > Held(freeing)' BY <3>2, <3>6, <3>7 DEF Held
    <3>11. Live(freeing)' BY <3>2, <3>7, <3>8 DEF Live
    <3>12. QED BY <3>2, <3>9, <3>10, <3>11
  <2>6. freeing' = freeing BY <1>1 DEF flow
  <2>7. QED BY <2>3, <2>4, <2>5, <2>6, <1>1 DEF Ending
<1>21. QED
  BY <1>7, <1>9, <1>12, <1>13, <1>15, <1>16, <1>17, <1>18, <1>19, <1>20

LEMMA FreeAtEndStep ==
    ASSUME Inv, ~bad, NEW h \in Handle, FreeAtEnd(h)
    PROVE  Inv'
<1> USE DEF Inv
<1>1. /\ UNCHANGED <<kind, made, vars, lost, array, calls, phase, upward, tame, bad>>
      /\ phase = "end" /\ freeing = None /\ Live(h) /\ \A k \in Handle : Live(k) => k <= h
      /\ refs' = [refs EXCEPT ![h] = @ + 1] /\ freeing' = h /\ GiveUp(h, owed, owedArr)
      /\ \A x \in Handle : owed[x] = 0
      /\ \A a \in Arr : owedArr[a] = 0
  BY DEF FreeAtEnd, NothingOwed, NoArrayOwed
<1>2. /\ refs \in [Handle -> Nat] /\ owed \in [Handle -> Nat] /\ owedArr \in [Arr -> Nat]
      /\ vars \in [Handle -> Nat] /\ lost \in [Handle -> Nat]
  BY DEF TypeOK
<1>3. /\ owed' \in [Handle -> Nat] /\ owedArr' \in [Arr -> Nat]
      /\ bld' \in [Handle -> HandleOrNone] /\ mapper' \in [Handle -> HandleOrNone]
      /\ reg' \in [Handle -> ArrOrNone] /\ prop' \in [Handle -> ArrOrNone]
      /\ \A x \in Handle : x # h =>
           /\ bld'[x] = bld[x] /\ mapper'[x] = mapper[x]
           /\ reg'[x] = reg[x] /\ prop'[x] = prop[x]
      /\ bld'[h] = None /\ mapper'[h] = None /\ reg'[h] = None /\ prop'[h] = None
      /\ \A x \in Handle : owed'[x] = (owed[x] + Is(x, bld[h])) + Is(x, mapper[h])
      /\ \A x \in Arr : owedArr'[x] = (owedArr[x] + Is(x, prop[h])) + Is(x, reg[h])
      /\ \A x \in Handle :
           owed'[x] + Pointing(bld', x) + Pointing(mapper', x)
               = owed[x] + Pointing(bld, x) + Pointing(mapper, x)
  BY <1>1, <1>2, GivenUp
<1>4. /\ refs' \in [Handle -> Nat] /\ refs'[h] = refs[h] + 1
      /\ \A x \in Handle : x # h => refs'[x] = refs[x]
  BY <1>1, <1>2
<1>5. TypeOK' BY <1>1, <1>3, <1>4 DEF TypeOK, array, HandleOrNone
<1>6. \A x \in Handle : Held(x)' = Held(x) /\ Held(x) \in Nat
  <2> TAKE x \in Handle
  <2>1. Held(x)' = vars[x] + owed'[x] + lost[x] + Pointing(bld', x) + Pointing(mapper', x)
    BY <1>1 DEF Held, Pointing
  <2>2. /\ vars[x] \in Nat /\ lost[x] \in Nat /\ owed'[x] \in Nat /\ owed[x] \in Nat
        /\ Pointing(bld', x) \in Nat /\ Pointing(mapper', x) \in Nat
        /\ Pointing(bld, x) \in Nat /\ Pointing(mapper, x) \in Nat
    BY <1>2, <1>3, PointingType
  <2>3. owed'[x] + Pointing(bld', x) + Pointing(mapper', x)
          = owed[x] + Pointing(bld, x) + Pointing(mapper, x)
    BY <1>3
  <2>4. Held(x) = vars[x] + owed[x] + lost[x] + Pointing(bld, x) + Pointing(mapper, x)
    BY DEF Held
  <2>5. QED BY <2>1, <2>2, <2>3, <2>4
<1>7. \A x \in Handle : refs[x] >= Held(x) BY DEF Counted
<1>8. Counted'
  <2>1. \A x \in Handle : refs'[x] >= Held(x)'
    <3> TAKE x \in Handle
    <3>1. refs'[x] >= refs[x] BY <1>2, <1>4
    <3>2. QED BY <3>1, <1>2, <1>4, <1>6, <1>7
  <2>2. QED BY <2>1, <1>1 DEF Counted, CountsExact
<1>9. Shape'
  <2>1. SUFFICES ASSUME NEW x \in Handle
                 PROVE  /\ bld'[x] # None => IsMapper(x)'
                        /\ reg'[x] # None => IsMapper(x)'
                        /\ mapper'[x] # None => kind'[x] = "builder"
                        /\ prop'[x] # None => Live(x)'
                        /\ kind'[x] = "free" => refs'[x] = 0 /\ ~made'[x]
                        /\ x = h => /\ bld'[x] = None /\ mapper'[x] = None
                                    /\ reg'[x] = None /\ prop'[x] = None
    BY <1>1 DEF Shape
  <2>2. CASE x = h BY <2>2, <1>1, <1>3 DEF Live
  <2>3. CASE x # h BY <2>3, <1>1, <1>3, <1>4 DEF Shape, IsMapper, Live
  <2>4. QED BY <2>2, <2>3
<1>10. Complete' /\ MappersPinned' /\ CallsPinned' /\ Tamed'
  BY <1>1 DEF Complete, MappersPinned, CallsPinned, Tamed
<1>11. Allocated'
  <2>1. used' = used /\ rc' = rc /\ copies' = copies BY <1>1 DEF array
  <2>2. \A x \in Arr : x \notin used => owedArr'[x] = 0
    <3>1. \A x \in Arr : x \notin used => x # reg[h] /\ x # prop[h] /\ owedArr[x] = 0
      BY NoZero DEF Allocated, None
    <3>2. QED BY <3>1, <1>3 DEF Is
  <2>3. \A x \in Handle : /\ reg'[x] # None => reg'[x] \in used
                          /\ prop'[x] # None => prop'[x] \in used
                          /\ bld'[x] # None => used # {}
    BY <1>3 DEF Allocated
  <2>4. QED BY <2>1, <2>2, <2>3 DEF Allocated
<1>12. Downward' BY <1>1, <1>3 DEF Downward
<1>13. Ending'
  <2>1. SUFFICES ASSUME used = {}, ~upward PROVE Ending'
    BY <1>1 DEF Ending, array
  <2>2. bld[h] = None /\ \A x \in Handle : x = mapper[h] => Live(x)
    BY <2>1, <1>1, HeldAtEnd
  <2>3. \A x \in Handle : Live(x)' <=> Live(x) BY <1>1 DEF Live
  <2>4. \A x \in Handle : owed'[x] > 0 => Live(x)'
    <3>1. SUFFICES ASSUME NEW x \in Handle, owed'[x] > 0 PROVE Live(x) BY <2>3
    <3>2. Is(x, bld[h]) = 0 /\ owed[x] = 0 BY <2>2, <1>1, NoZero DEF Is, None
    <3>3. owed'[x] = (owed[x] + Is(x, bld[h])) + Is(x, mapper[h]) BY <1>3
    <3>4. x = mapper[h] BY <3>1, <3>2, <3>3 DEF Is
    <3>5. QED BY <3>4, <2>2
  <2>5. \A g, k \in Handle : kind'[g] = "gone" /\ Live(k)' => k < g
    BY <2>1, <2>3, <1>1 DEF Ending
  <2>6. refs'[h] > Held(h)'
    <3>1. refs'[h] = refs[h] + 1 /\ refs[h] >= Held(h) /\ Held(h)' = Held(h)
      BY <1>4, <1>6, <1>7
    <3>2. refs[h] \in Nat /\ Held(h) \in Nat BY <1>2, <1>6
    <3>3. QED BY <3>1, <3>2
  <2>7. refs'[freeing'] > Held(freeing)' BY <2>6, <1>1 DEF Held
  <2>8. Live(freeing)' /\ \A k \in Handle : Live(k)' => k <= freeing'
    BY <2>3, <1>1 DEF Live
  <2>9. QED BY <2>4, <2>5, <2>7, <2>8, <1>1 DEF Ending
<1>14. QED BY <1>5, <1>8, <1>9, <1>10, <1>11, <1>12, <1>13

LEMMA FreedAtEndStep ==
    ASSUME Inv, ~bad, FreedAtEnd
    PROVE  Inv'
<1> USE DEF Inv
<1>1. /\ UNCHANGED <<refs, made, vars, lost, link, array, owed, owedArr, calls, phase,
                     upward, tame, bad>>
      /\ phase = "end" /\ freeing # None /\ freeing' = None
      /\ kind' = [kind EXCEPT ![freeing] = "gone"]
      /\ \A x \in Handle : owed[x] = 0
  BY DEF FreedAtEnd, NothingOwed
<1>2. PICK h \in Handle : h = freeing BY <1>1 DEF TypeOK, HandleOrNone
<1>3. kind \in [Handle -> {"free", "mapper", "builder", "hollow", "gone"}] BY DEF TypeOK
<1>4. kind'[h] = "gone" /\ \A x \in Handle : x # h => kind'[x] = kind[x]
  BY <1>1, <1>2, <1>3
<1>5. TypeOK'
  <2>1. kind' \in [Handle -> {"free", "mapper", "builder", "hollow", "gone"}]
    BY <1>1, <1>2, <1>3
  <2>2. QED BY <2>1, <1>1 DEF TypeOK, link, array, HandleOrNone
<1>6. Counted' BY <1>1 DEF Counted, CountsExact, Held, Pointing, link
<1>7. Shape'
  <2>1. bld[h] = None /\ mapper[h] = None /\ reg[h] = None /\ prop[h] = None
    BY <1>2 DEF Shape
  <2>2. \A x \in Handle : x # h => (IsMapper(x)' <=> IsMapper(x)) /\ (Live(x)' <=> Live(x))
    BY <1>1, <1>4 DEF IsMapper, Live
  <2>3. SUFFICES ASSUME NEW x \in Handle
                 PROVE  /\ bld[x] # None => IsMapper(x)'
                        /\ reg[x] # None => IsMapper(x)'
                        /\ mapper[x] # None => kind'[x] = "builder"
                        /\ prop[x] # None => Live(x)'
                        /\ kind'[x] = "free" => refs[x] = 0 /\ ~made[x]
    BY <1>1, NoZero DEF Shape, link, None
  <2>4. CASE x = h BY <2>4, <2>1, <1>4
  <2>5. CASE x # h BY <2>5, <2>2, <1>4 DEF Shape
  <2>6. QED BY <2>4, <2>5
<1>8. Complete' /\ MappersPinned' /\ CallsPinned' /\ Tamed'
  BY <1>1 DEF Complete, MappersPinned, CallsPinned, Tamed
<1>9. Allocated' /\ Downward' BY <1>1 DEF Allocated, Downward, link, array
<1>10. Ending'
  <2>1. SUFFICES ASSUME used = {}, ~upward PROVE Ending' BY <1>1 DEF Ending, array
  <2>2. \A k \in Handle : Live(k)' => Live(k) /\ k # h BY <1>4 DEF Live
  <2>3. \A k \in Handle : Live(k) => k <= h BY <2>1, <1>1, <1>2 DEF Ending
  <2>4. \A k \in Handle : Live(k)' => k < h
    <3> TAKE k \in Handle
    <3>1. k \in Nat /\ h \in Nat BY HandleAssumption
    <3>2. QED BY <3>1, <2>2, <2>3
  <2>5. \A g, k \in Handle : kind'[g] = "gone" /\ Live(k)' => k < g
    <3>1. SUFFICES ASSUME NEW g \in Handle, NEW k \in Handle, kind'[g] = "gone", Live(k)'
                   PROVE  k < g
      OBVIOUS
    <3>2. CASE g = h BY <3>1, <3>2, <2>4
    <3>3. CASE g # h BY <3>1, <3>3, <2>1, <2>2, <1>1, <1>4 DEF Ending
    <3>4. QED BY <3>2, <3>3
  <2>6. \A x \in Handle : ~(owed'[x] > 0) BY <1>1
  <2>7. QED BY <2>5, <2>6, <1>1 DEF Ending
<1>11. QED BY <1>5, <1>6, <1>7, <1>8, <1>9, <1>10

-----------------------------------------------------------------------------
(* The invariant of the specification, and what follows from it.             *)

LEMMA NextInv == Inv /\ [Next]_state => Inv'
<1> SUFFICES ASSUME Inv, [Next]_state PROVE Inv' OBVIOUS
<1>1. CASE UNCHANGED state
  <2>1. UNCHANGED <<kind, refs, made, vars, lost, bld, mapper, reg, prop, rc, used, copies,
                    owed, owedArr, calls, phase, freeing, upward, tame, bad>>
    BY <1>1 DEF state, object, link, array, flow
  <2>2. UNCHANGED References BY <2>1 DEF References, object, link, array
  <2>3. TypeOK' BY <2>1 DEF Inv, TypeOK
  <2>4. CallsPinned' /\ Tamed' BY <2>1 DEF Inv, CallsPinned, Pinned, Tamed, IsMapper, Live
  <2>5. Ending'
    <3>1. \A h \in Handle : Live(h)' <=> Live(h) BY <2>1 DEF Live
    <3>2. refs'[freeing'] > Held(freeing)' <=> refs[freeing] > Held(freeing)
      BY <2>1 DEF Held, Pointing
    <3>3. Live(freeing)' <=> Live(freeing) BY <2>1 DEF Live
    <3>4. QED BY <2>1, <3>1, <3>2, <3>3 DEF Inv, Ending
  <2>6. QED BY <2>2, <2>3, <2>4, <2>5, SameReferences DEF Inv
<1>2. CASE Next
  <2>1. ~bad BY <1>2 DEF Next
  <2>2. CASE Objects
    <3>1. CASE \E h, b \in Handle, a \in Arr :
                 NewMapper(h, b, a) \/ ReconstructMapper(h, b, a)
      BY <2>1, <3>1, MapperStep
    <3>2. CASE \E h \in Handle, m \in Handle \cup {None} :
                 NewBuilder(h, m) \/ ReconstructBuilder(h, m)
      BY <2>1, <3>2, BuilderStep DEF HandleOrNone
    <3>3. CASE \E h \in Handle, k \in {"mapper", "builder"} : NewBare(h, k)
      BY <2>1, <3>3, BareStep
    <3>4. CASE \E h, c \in Handle : Clone(h, c) BY <2>1, <3>4, BareStep
    <3>5. QED BY <2>2, <3>1, <3>2, <3>3, <3>4 DEF Objects
  <2>3. CASE Script
    <3>1. CASE \E h \in Handle : Share(h) \/ Unset(h) BY <2>1, <3>1, ShareStep
    <3>2. CASE \E h \in Handle : TakeArray(h) BY <2>1, <3>2, CopyStep
    <3>3. CASE \E a \in Arr : UnsetArray(a) BY <2>1, <3>3, CopyStep
    <3>4. CASE \E h \in Handle : AssignProperty(h) BY <2>1, <3>4, PropertyStep
    <3>5. CASE \E h \in Handle, a \in Arr : WriteProperty(h, a)
      BY <2>1, <3>5, PropertyStep
    <3>6. CASE \E h \in Handle : UseMapper(h) \/ UseBuilder(h) BY <3>6, UseStep
    <3>7. CASE (\E h \in Handle : SerializeBegin(h)) \/ SerializeEnd
      BY <3>7, SerializeStep
    <3>8. QED BY <2>3, <3>1, <3>2, <3>3, <3>4, <3>5, <3>6, <3>7 DEF Script
  <2>4. CASE EndRequest BY <2>1, <2>4, EndRequestStep
  <2>5. CASE Engine
    <3>1. CASE \E h \in Handle : DropMore(h) BY <2>1, <3>1, DropMoreStep
    <3>2. CASE \E h \in Handle : DropLast(h) BY <2>1, <3>2, DropLastStep
    <3>3. CASE \E h \in Handle : FreeAtEnd(h) BY <2>1, <3>3, FreeAtEndStep
    <3>4. CASE \E a \in Arr : DropArray(a) BY <2>1, <3>4, DropArrayStep
    <3>5. CASE FreedAtEnd BY <2>1, <3>5, FreedAtEndStep
    <3>6. QED BY <2>5, <3>1, <3>2, <3>3, <3>4, <3>5 DEF Engine
  <2>6. QED BY <1>2, <2>2, <2>3, <2>4, <2>5 DEF Next
<1>3. QED BY <1>1, <1>2

\* The invariant holds throughout.
LEMMA AlwaysInv == Spec => []Inv
<1>1. Init => Inv BY InitInv
<1>2. Inv /\ [Next]_state => Inv' BY NextInv
<1>3. QED BY <1>1, <1>2, PTL DEF Spec

\* The type invariant.
THEOREM TypeCorrect == Spec => []TypeOK
<1>1. Inv => TypeOK BY DEF Inv
<1>2. QED BY <1>1, AlwaysInv, PTL

\* Until the request ends every reference count is the number of references
\* there are: of the create handlers' objects, counted by the constructors,
\* and of the registry's arrays, which the mapper reads without counting.
THEOREM CountsAreExact == Spec => []CountsExact
<1>1. Inv => CountsExact BY DEF Inv, Counted
<1>2. QED BY <1>1, AlwaysInv, PTL

\* serialize finds its builder where it left it, however often callbacks
\* construct the mapper again and drop what they hold.
THEOREM BuilderKept == Spec => []RunningBuilder
<1>1. Inv => RunningBuilder
  <2>1. SUFFICES ASSUME Inv PROVE RunningBuilder OBVIOUS
  <2>2. phase = "script" \/ phase = "end" BY <2>1 DEF Inv, TypeOK
  <2>3. QED BY <2>1, <2>2 DEF Inv, CallsPinned, RunningBuilder
<1>2. QED BY <1>1, AlwaysInv, PTL

\* A script that constructs each object once, clones none, writes no property
\* and gives every builder a mapper never uses a reference to an object or array
\* that was given up, and releases none twice.
THEOREM TameIsSafe == Spec => []SafeIfTame
<1>1. Inv => SafeIfTame BY DEF Inv, Tamed, SafeIfTame
<1>2. QED BY <1>1, AlwaysInv, PTL

\* Without mappers, and with builders that hold older objects only, the end of
\* the request calls every free handler once, and none of them releases an object
\* whose own has been called.
THEOREM EndIsClean == Spec => []CleanEnd
<1>1. Inv => CleanEnd BY DEF Inv, Ending, CleanEnd
<1>2. QED BY <1>1, AlwaysInv, PTL

\* No step frees a constructed mapper before the request ends.
LEMMA StaysStep ==
    ASSUME Inv, [Next]_state, phase = "script"
    PROVE  \A h \in Handle : IsMapper(h) => IsMapper(h)'
<1> USE DEF Inv
<1>1. CASE kind' = kind /\ made' = made BY <1>1 DEF IsMapper
<1>2. CASE Objects
  <2>1. ASSUME NEW h \in Handle, NEW b \in Handle, NEW a \in Arr,
               NewMapper(h, b, a) \/ ReconstructMapper(h, b, a)
        PROVE  \A x \in Handle : IsMapper(x) => IsMapper(x)'
    <3>1. kind[b] = "free" BY <2>1 DEF NewMapper, ReconstructMapper, FreeHandle
    <3>2. Construct(h, b, a) BY <2>1 DEF NewMapper, ReconstructMapper
    <3>3. /\ kind' = [kind EXCEPT ![h] = "mapper", ![b] = "builder"]
          /\ made' = [made EXCEPT ![h] = TRUE, ![b] = TRUE]
      BY <3>2 DEF Construct
    <3>4. QED BY <3>1, <3>3 DEF IsMapper, TypeOK
  <2>2. ASSUME NEW h \in Handle, NEW m \in Handle \cup {None}, NewBuilder(h, m)
        PROVE  \A x \in Handle : IsMapper(x) => IsMapper(x)'
    BY <2>2 DEF NewBuilder, FreeHandle, IsMapper, TypeOK
  <2>3. ASSUME NEW h \in Handle, NEW m \in Handle \cup {None}, ReconstructBuilder(h, m)
        PROVE  \A x \in Handle : IsMapper(x) => IsMapper(x)'
    BY <2>3 DEF ReconstructBuilder, IsMapper, TypeOK
  <2>4. ASSUME NEW h \in Handle, NEW k \in {"mapper", "builder"}, NewBare(h, k)
        PROVE  \A x \in Handle : IsMapper(x) => IsMapper(x)'
    BY <2>4 DEF NewBare, FreeHandle, IsMapper, TypeOK
  <2>5. ASSUME NEW h \in Handle, NEW c \in Handle, Clone(h, c)
        PROVE  \A x \in Handle : IsMapper(x) => IsMapper(x)'
    BY <2>5 DEF Clone, FreeHandle, IsMapper, TypeOK
  <2>6. QED BY <1>2, <2>1, <2>2, <2>3, <2>4, <2>5 DEF Objects
<1>3. CASE \E h \in Handle : DropLast(h)
  <2>1. PICK h \in Handle : DropLast(h) BY <1>3
  <2>2. ~IsMapper(h) BY <2>1, LastReference
  <2>3. /\ kind' = [kind EXCEPT ![h] = "free"] /\ made' = [made EXCEPT ![h] = FALSE]
    BY <2>1 DEF DropLast
  <2>4. QED BY <2>2, <2>3 DEF IsMapper, TypeOK
<1>4. Script \/ EndRequest => kind' = kind /\ made' = made
  BY DEF Script, Share, Unset, TakeArray, AssignProperty, WriteProperty, UnsetArray,
         UseMapper, UseBuilder, SerializeBegin, SerializeEnd, EndRequest, object
<1>5. Engine => (kind' = kind /\ made' = made) \/ \E h \in Handle : DropLast(h)
  BY DEF Engine, DropMore, FreeAtEnd, FreedAtEnd, DropArray, object
<1>6. UNCHANGED state => kind' = kind /\ made' = made BY DEF state, object
<1>7. QED BY <1>1, <1>2, <1>3, <1>4, <1>5, <1>6 DEF Next

\* A constructed mapper outlives the script: its builder and it hold each other,
\* so its free handler, which releases arrays it never counted, runs at the end.
THEOREM MappersOutliveScript == Spec => MappersStay
<1>1. Inv /\ [Next]_state =>
        [phase = "script" => \A h \in Handle : IsMapper(h) => IsMapper(h)']_state
  BY StaysStep
<1>2. QED BY <1>1, AlwaysInv, PTL DEF Spec, MappersStay
=============================================================================
