------------------------ MODULE SliceObjects_proofs ------------------------
(* Proofs about SliceObjects: for any documents and any number of strings,    *)
(* objects and iterators.  That an object points at its value and that it is   *)
(* not freed while it is held go together: an iterator makes objects from the  *)
(* one it is on, so that one must be there still, and the same.               *)
EXTENDS SliceObjects, Foundations

(* The inductive invariant.                                                  *)

\* The iterators of f on x, those whose element is x, the live objects of o
\* that hold s.
OnIn(f, x) == {i \in Iter : f[i].on = x}
CurIn(f, x) == {i \in Iter : f[i].cur = x}
Holding(o, s) == {x \in Slot : o[x].refs > 0 /\ HasString(o[x]) /\ o[x].str = s}

ObjectsCounted ==
    \A x \in Slot :
        /\ obj[x].refs >= vars[x] + Cardinality(OnIn(it, x)) + Cardinality(CurIn(it, x))
        /\ tidy => obj[x].refs = vars[x] + Cardinality(OnIn(it, x)) + Cardinality(CurIn(it, x))
StringsCounted ==
    \A s \in Str :
        /\ rc[s] >= own[s] + Cardinality(Holding(obj, s))
        /\ tidy => rc[s] = own[s] + Cardinality(Holding(obj, s))

\* What a string is counted for besides those: at least once, if an iterator
\* still goes over its values whose object was constructed again.
Spare(r, w, o, s) == r[s] - (w[s] + Cardinality(Holding(o, s)))
LeftBehind ==
    \A i \in Iter : it[i].moved =>
        \A k \in DOMAIN it[i].parts : Spare(rc, own, obj, it[i].parts[k][1]) >= 1

\* The object r points at its value, or at None if that is missing.
Right(r) ==
    /\ r.at >= 0 => /\ r.at \in DOMAIN Kids[r.str]
                    /\ r.start = Base[r.str] + r.at /\ r.offset = r.at
    /\ NoneAbove /\ r.at = Missing => r.start = NoneAddr
Values == \A x \in Slot : Live(x) => Right(obj[x])

\* An iterator's table is that of its object, unless that was constructed
\* again; and it has delivered what it has passed.
Alongside(t) ==
    /\ t.on = Nobody => t = Idle
    /\ ~t.read => t.cur = Nobody
    /\ t.loop => /\ \A k \in DOMAIN t.got : t.got[k] = t.parts[k][2]
                 /\ Len(t.got) = t.idx + (IF t.read THEN 1 ELSE 0)
Beside(t, r) ==
    r.at >= 0 /\ \A k \in DOMAIN t.parts :
                    /\ t.parts[k][1] = r.str
                    /\ t.parts[k][2] \in DOMAIN Kids[r.str] /\ t.parts[k][2] > r.at
Iterating ==
    \A i \in Iter :
        /\ Alongside(it[i])
        /\ Used(i) /\ ~it[i].moved => Beside(it[i], obj[it[i].on])

Inv == TypeOK /\ ObjectsCounted /\ StringsCounted /\ LeftBehind /\ Values /\ Iterating

-----------------------------------------------------------------------------
(* Counting.                                                                *)

LEMMA CountsType ==
    ASSUME NEW f, NEW o, NEW x
    PROVE  /\ IsFiniteSet(OnIn(f, x)) /\ IsFiniteSet(CurIn(f, x)) /\ IsFiniteSet(Holding(o, x))
           /\ Cardinality(OnIn(f, x)) \in Nat /\ Cardinality(CurIn(f, x)) \in Nat
           /\ Cardinality(Holding(o, x)) \in Nat
           /\ Cardinality(OnIn(f, x)) = 0 <=> OnIn(f, x) = {}
           /\ Cardinality(CurIn(f, x)) = 0 <=> CurIn(f, x) = {}
<1>1. OnIn(f, x) \subseteq Iter /\ CurIn(f, x) \subseteq Iter /\ Holding(o, x) \subseteq Slot
  BY DEF OnIn, CurIn, Holding
<1>2. IsFiniteSet(OnIn(f, x)) /\ IsFiniteSet(CurIn(f, x)) /\ IsFiniteSet(Holding(o, x))
  BY <1>1, PlaceAssumption, FS_Subset
<1>3. QED BY <1>2, FS_CardinalityType, FS_EmptySet

\* One iterator changes.
Shifted(f, g, i, x) ==
    /\ Cardinality(OnIn(g, x)) + Is(x, f[i].on) = Cardinality(OnIn(f, x)) + Is(x, g[i].on)
    /\ Cardinality(CurIn(g, x)) + Is(x, f[i].cur) = Cardinality(CurIn(f, x)) + Is(x, g[i].cur)
LEMMA IteratorMoved ==
    ASSUME NEW f, NEW g, NEW i \in Iter, \A j \in Iter \ {i} : g[j] = f[j], NEW x
    PROVE  Shifted(f, g, i, x)
<1>1. /\ In(i, OnIn(f, x)) = Is(x, f[i].on) /\ In(i, OnIn(g, x)) = Is(x, g[i].on)
      /\ In(i, CurIn(f, x)) = Is(x, f[i].cur) /\ In(i, CurIn(g, x)) = Is(x, g[i].cur)
  BY DEF In, Is, OnIn, CurIn
<1>2. OnIn(f, x) \ {i} = OnIn(g, x) \ {i} /\ CurIn(f, x) \ {i} = CurIn(g, x) \ {i}
  BY DEF OnIn, CurIn
<1>3. /\ Cardinality(OnIn(g, x)) + In(i, OnIn(f, x)) = Cardinality(OnIn(f, x)) + In(i, OnIn(g, x))
      /\ Cardinality(CurIn(g, x)) + In(i, CurIn(f, x))
           = Cardinality(CurIn(f, x)) + In(i, CurIn(g, x))
  BY <1>2, CountsType, SetMoved
<1>4. QED BY <1>1, <1>3 DEF Shifted

\* One object changes.
Holds(r, s) == IF r.refs > 0 /\ HasString(r) /\ r.str = s THEN 1 ELSE 0
Moved(o, p, x, s) == Cardinality(Holding(p, s)) + Holds(o[x], s)
                        = Cardinality(Holding(o, s)) + Holds(p[x], s)
LEMMA ObjectMoved ==
    ASSUME NEW o, NEW p, NEW x \in Slot, \A y \in Slot \ {x} : p[y] = o[y], NEW s
    PROVE  Moved(o, p, x, s)
<1>1. In(x, Holding(o, s)) = Holds(o[x], s) /\ In(x, Holding(p, s)) = Holds(p[x], s)
  BY DEF In, Holds, Holding
<1>2. Holding(o, s) \ {x} = Holding(p, s) \ {x} BY DEF Holding
<1>3. Cardinality(Holding(p, s)) + In(x, Holding(o, s))
        = Cardinality(Holding(o, s)) + In(x, Holding(p, s))
  BY <1>2, CountsType, SetMoved
<1>4. QED BY <1>1, <1>3 DEF Moved

\* An object is put into a place.
Put(o, q, x, r, s) ==
    Cardinality(Holding(q, s)) + Holds(o[x], s) = Cardinality(Holding(o, s)) + Is(s, r.str)
LEMMA ObjectPut ==
    ASSUME NEW o \in [Slot -> Object], NEW x \in Slot, NEW r \in Object, r.refs > 0, HasString(r),
           NEW q, q = [o EXCEPT ![x] = r], NEW s
    PROVE  Put(o, q, x, r, s)
<1>1. \A y \in Slot \ {x} : q[y] = o[y] OBVIOUS
<1>2. Moved(o, q, x, s) BY <1>1, ObjectMoved
<1>3. Holds(q[x], s) = Is(s, r.str) BY DEF Holds, Is
<1>4. QED BY <1>2, <1>3 DEF Moved, Put

\* What the sums are made of.
LEMMA Summands ==
    ASSUME TypeOK
    PROVE  /\ \A x \in Slot : /\ obj[x].refs \in Nat /\ vars[x] \in Nat
                              /\ Cardinality(OnIn(it, x)) \in Nat
                              /\ Cardinality(CurIn(it, x)) \in Nat
           /\ \A s \in Str : /\ rc[s] \in Int /\ own[s] \in Nat
                             /\ Cardinality(Holding(obj, s)) \in Nat
BY CountsType DEF TypeOK, Object

\* What is held is there; and a variable or an element besides an iterator's
\* own hold is a second reference.
LEMMA HeldIsLive ==
    ASSUME Inv, NEW x \in Slot
    PROVE  /\ vars[x] > 0 => Live(x)
           /\ \A i \in Iter : it[i].on = x => Live(x) /\ (vars[x] > 0 => obj[x].refs > 1)
           /\ \A i \in Iter : it[i].cur = x =>
                 Live(x) /\ \A j \in Iter : it[j].on = x => obj[x].refs > 1
<1> USE DEF Inv
<1>1. obj[x].refs >= vars[x] + Cardinality(OnIn(it, x)) + Cardinality(CurIn(it, x))
  BY DEF ObjectsCounted
<1>2. /\ obj[x].refs \in Nat /\ vars[x] \in Nat /\ Cardinality(OnIn(it, x)) \in Nat
      /\ Cardinality(CurIn(it, x)) \in Nat
  BY Summands
<1>3. vars[x] > 0 => Live(x) BY <1>1, <1>2 DEF Live
<1>4. ASSUME NEW i \in Iter, it[i].on = x PROVE Cardinality(OnIn(it, x)) >= 1
  <2>1. OnIn(it, x) # {} BY <1>4 DEF OnIn
  <2>2. QED BY <2>1, <1>2, CountsType
<1>5. ASSUME NEW i \in Iter, it[i].cur = x PROVE Cardinality(CurIn(it, x)) >= 1
  <2>1. CurIn(it, x) # {} BY <1>5 DEF CurIn
  <2>2. QED BY <2>1, <1>2, CountsType
<1>6. QED BY <1>1, <1>2, <1>3, <1>4, <1>5 DEF Live

\* Nothing holds an object that is not there.
LEMMA DeadIsFree ==
    ASSUME Inv, NEW x \in Slot, ~Live(x)
    PROVE  /\ obj[x].refs = 0 /\ vars[x] = 0
           /\ Cardinality(OnIn(it, x)) = 0 /\ Cardinality(CurIn(it, x)) = 0
           /\ \A i \in Iter : it[i].on # x /\ it[i].cur # x
<1> USE DEF Inv
<1>1. /\ obj[x].refs \in Nat /\ vars[x] \in Nat /\ Cardinality(OnIn(it, x)) \in Nat
      /\ Cardinality(CurIn(it, x)) \in Nat
  BY Summands
<1>2. obj[x].refs = 0 BY <1>1 DEF Live
<1>3. 0 >= vars[x] + Cardinality(OnIn(it, x)) + Cardinality(CurIn(it, x))
  BY <1>2 DEF ObjectsCounted
<1>4. vars[x] = 0 /\ Cardinality(OnIn(it, x)) = 0 /\ Cardinality(CurIn(it, x)) = 0
  BY <1>1, <1>3
<1>5. \A i \in Iter : it[i].on # x /\ it[i].cur # x BY HeldIsLive
<1>6. QED BY <1>2, <1>4, <1>5

-----------------------------------------------------------------------------
LEMMA FreeType == Free \in Object /\ Free.refs = 0
BY PlaceAssumption DEF Free, Object

LEMMA IdleType == Idle \in Iterator
<1>1. <<>> \in Seq(Str \X Nat) /\ <<>> \in Seq(Nat) OBVIOUS
<1>2. QED BY <1>1 DEF Idle, Iterator

LEMMA InitInv == Init => Inv
<1> SUFFICES ASSUME Init PROVE Inv OBVIOUS
<1>1. \A x \in Slot : obj[x] = Free /\ vars[x] = 0 BY DEF Init
<1>2. \A i \in Iter : it[i] = Idle BY DEF Init
<1>3. TypeOK
  <2>1. obj \in [Slot -> Object] BY FreeType DEF Init
  <2>2. it \in [Iter -> Iterator] BY IdleType DEF Init
  <2>3. vars \in [Slot -> Nat] /\ rc \in [Str -> Int] /\ own \in [Str -> Nat] BY DEF Init
  <2>4. tidy \in BOOLEAN /\ dead \in BOOLEAN BY DEF Init
  <2>5. QED BY <2>1, <2>2, <2>3, <2>4 DEF TypeOK
<1>4. ObjectsCounted
  <2>1. \A x \in Slot : OnIn(it, x) = {} /\ CurIn(it, x) = {}
    BY <1>2, PlaceAssumption DEF OnIn, CurIn, Idle, Nobody
  <2>2. \A x \in Slot : Cardinality(OnIn(it, x)) = 0 /\ Cardinality(CurIn(it, x)) = 0
    BY <2>1, CountsType
  <2>3. QED BY <2>2, <1>1, FreeType DEF ObjectsCounted
<1>5. StringsCounted
  <2>1. \A s \in Str : Holding(obj, s) = {} BY <1>1, FreeType DEF Holding
  <2>2. \A s \in Str : Cardinality(Holding(obj, s)) = 0 BY <2>1, FS_EmptySet
  <2>3. QED BY <2>2 DEF StringsCounted, Init
<1>6. Values /\ LeftBehind
  <2>1. Idle.moved = FALSE BY DEF Idle
  <2>2. QED BY <1>1, <1>2, <2>1, FreeType DEF Values, Live, LeftBehind
<1>7. Iterating
  <2>1. Idle.on = Nobody /\ Idle.cur = Nobody /\ Idle.loop = FALSE BY DEF Idle
  <2>2. Alongside(Idle) BY <2>1 DEF Alongside
  <2>3. QED BY <1>2, <2>1, <2>2 DEF Iterating, Used
<1>8. QED BY <1>3, <1>4, <1>5, <1>6, <1>7 DEF Inv

-----------------------------------------------------------------------------
(* Steps that make objects.                                                  *)

\* Where an object is, its string's document has a value, and the values
\* inside that one come after it.
LEMMA InDocument ==
    ASSUME Inv, NEW y \in Slot, Found(y)
    PROVE  \E s \in Str, p \in Nat :
             /\ s = obj[y].str /\ p = obj[y].at /\ p \in DOMAIN Kids[s] /\ Base[s] \in Nat
             /\ obj[y].start = Base[s] + p /\ obj[y].offset = p
             /\ \A k \in DOMAIN Kids[s][p] :
                  /\ Kids[s][p][k] \in DOMAIN Kids[s] /\ Kids[s][p][k] \in Nat
                  /\ Kids[s][p][k] > p
<1>1. /\ obj[y].str \in Str /\ Right(obj[y]) /\ obj[y].at >= 0
  BY DEF Inv, TypeOK, Object, Found, Values
<1>2. PICK s \in Str, p \in Nat :
        s = obj[y].str /\ p = obj[y].at /\ p \in DOMAIN Kids[s]
  BY <1>1, DocAssumption DEF Right
<1>3. Base[s] \in Nat BY AddressAssumption
<1>4. obj[y].start = Base[s] + p /\ obj[y].offset = p BY <1>1, <1>2 DEF Right
<1>5. ASSUME NEW k \in DOMAIN Kids[s][p]
      PROVE  /\ Kids[s][p][k] \in DOMAIN Kids[s] /\ Kids[s][p][k] \in Nat
             /\ Kids[s][p][k] > p
  <2>1. /\ Kids[s][p] \in Seq(DOMAIN Kids[s]) /\ Kids[s][p][k] > p
        /\ DOMAIN Kids[s] \subseteq Nat
    BY <1>2, DocAssumption
  <2>2. Kids[s][p][k] \in DOMAIN Kids[s] BY <2>1
  <2>3. QED BY <2>1, <2>2
<1>6. QED BY <1>2, <1>3, <1>4, <1>5

\* Iterators do not notice what happens to objects they are not on.
LEMMA IteratingSame ==
    ASSUME Inv, it' = it,
           \A x \in Slot : (\E i \in Iter : it[i].on = x) =>
               obj'[x].at = obj[x].at /\ obj'[x].str = obj[x].str
    PROVE  Iterating'
<1>1. SUFFICES ASSUME NEW i \in Iter, Used(i), ~it[i].moved
               PROVE  Beside(it[i], obj'[it[i].on])
  BY DEF Inv, Iterating, Used, Alongside, Idle
<1>2. PICK y \in Slot : y = it[i].on BY <1>1 DEF Inv, TypeOK, Iterator, Used
<1>3. Beside(it[i], obj[y]) BY <1>1, <1>2 DEF Inv, Iterating
<1>4. obj'[y].at = obj[y].at /\ obj'[y].str = obj[y].str BY <1>2
<1>5. QED BY <1>2, <1>3, <1>4 DEF Beside

\* Nor do those left behind, as long as their strings are counted for them.
LEMMA SpareSame ==
    ASSUME Inv, it' = it,
           \A s \in Str : Spare(rc', own', obj', s) = Spare(rc, own, obj, s)
    PROVE  LeftBehind'
<1>1. SUFFICES ASSUME NEW i \in Iter, it[i].moved, NEW k \in DOMAIN it[i].parts
               PROVE  Spare(rc', own', obj', it[i].parts[k][1]) >= 1
  BY DEF LeftBehind, Spare, Holding
<1>2. it[i].parts \in Seq(Str \X Nat) BY DEF Inv, TypeOK, Iterator
<1>3. it[i].parts[k][1] \in Str BY <1>1, <1>2
<1>4. Spare(rc, own, obj, it[i].parts[k][1]) >= 1 BY <1>1 DEF Inv, LeftBehind
<1>5. QED BY <1>3, <1>4

\* A string in a variable.
LEMMA StringStep ==
    ASSUME Inv, \E s \in Str : TakeString(s) \/ UnsetString(s)
    PROVE  Inv'
<1> USE DEF Inv
<1>1. PICK s \in Str : TakeString(s) \/ UnsetString(s) OBVIOUS
<1>2. UNCHANGED <<obj, vars, it, tidy, dead>> BY <1>1 DEF TakeString, UnsetString
<1>3. /\ rc' \in [Str -> Int] /\ own' \in [Str -> Nat]
      /\ \A t \in Str : rc'[t] - rc[t] = own'[t] - own[t]
  BY <1>1 DEF TakeString, UnsetString, TypeOK
<1>4. TypeOK' BY <1>2, <1>3 DEF TypeOK
<1>5. ObjectsCounted' BY <1>2 DEF ObjectsCounted, OnIn, CurIn
<1>6. StringsCounted'
  <2>1. SUFFICES ASSUME NEW t \in Str
                 PROVE  /\ rc'[t] >= own'[t] + Cardinality(Holding(obj, t))
                        /\ tidy => rc'[t] = own'[t] + Cardinality(Holding(obj, t))
    BY <1>2 DEF StringsCounted, Holding
  <2>2. /\ rc[t] >= own[t] + Cardinality(Holding(obj, t))
        /\ tidy => rc[t] = own[t] + Cardinality(Holding(obj, t))
    BY DEF StringsCounted
  <2>3. /\ rc[t] \in Int /\ own[t] \in Nat /\ rc'[t] \in Int /\ own'[t] \in Nat
        /\ Cardinality(Holding(obj, t)) \in Nat
    BY <1>3, Summands
  <2>4. rc'[t] - rc[t] = own'[t] - own[t] BY <1>3
  <2>5. QED BY <2>2, <2>3, <2>4
<1>7. Values' BY <1>2 DEF Values, Live
<1>8. Iterating' BY <1>2, IteratingSame
<1>9. LeftBehind'
  <2>1. ASSUME NEW t \in Str PROVE Spare(rc', own', obj', t) = Spare(rc, own, obj, t)
    <3>1. /\ rc[t] \in Int /\ own[t] \in Nat /\ rc'[t] \in Int /\ own'[t] \in Nat
          /\ Cardinality(Holding(obj, t)) \in Nat /\ rc'[t] - rc[t] = own'[t] - own[t]
      BY <1>3, Summands
    <3>2. PICK o : o = obj' OBVIOUS
    <3>3. o = obj BY <1>2, <3>2
    <3>4. Spare(rc', own', o, t) = Spare(rc, own, obj, t)
      <4>1. rc'[t] - (own'[t] + Cardinality(Holding(obj, t)))
              = rc[t] - (own[t] + Cardinality(Holding(obj, t)))
        BY <3>1
      <4>2. QED BY <3>3, <4>1 DEF Spare
    <3>5. QED BY <3>2, <3>4
  <2>2. QED BY <1>2, <2>1, SpareSame
<1>10. QED BY <1>4, <1>5, <1>6, <1>7, <1>8, <1>9

\* A new object in a variable, and the string counted once more for it.
LEMMA ReturnStep ==
    ASSUME Inv, NEW x \in Slot, NEW s \in Str, NEW off \in Int, NEW at \in Int, at >= Adrift,
           Return(x, s, off, at), Right(Made(s, off, at)),
           rc' = [rc EXCEPT ![s] = @ + 1]
    PROVE  Inv'
<1> USE DEF Inv
<1> DEFINE new == Made(s, off, at)
<1>1. /\ ~Live(x) /\ obj' = [obj EXCEPT ![x] = new] /\ vars' = [vars EXCEPT ![x] = 1]
      /\ UNCHANGED <<own, it, tidy, dead>>
  BY DEF Return
<1>2. new \in Object /\ new.refs = 1 /\ new.str = s /\ HasString(new)
  BY AddressAssumption DEF Made, Object, HasString, Adrift, Bare, Foreign
<1>3. Right(new) OBVIOUS
<1> HIDE DEF new
<1>4. /\ obj \in [Slot -> Object] /\ vars \in [Slot -> Nat] /\ rc \in [Str -> Int]
  BY DEF TypeOK
<1>5. obj[x].refs = 0 /\ vars[x] = 0 /\ \A i \in Iter : it[i].on # x
  BY <1>1, DeadIsFree
<1>6. /\ obj' \in [Slot -> Object] /\ vars' \in [Slot -> Nat] /\ rc' \in [Str -> Int]
      /\ \A y \in Slot \ {x} : obj'[y] = obj[y]
      /\ obj'[x] = new
  BY <1>1, <1>2, <1>4
<1>7. TypeOK' BY <1>1, <1>6 DEF TypeOK
<1>8. ObjectsCounted'
  <2>1. SUFFICES ASSUME NEW y \in Slot
                 PROVE  /\ obj'[y].refs >= vars'[y] + Cardinality(OnIn(it, y))
                                             + Cardinality(CurIn(it, y))
                        /\ tidy => obj'[y].refs = vars'[y] + Cardinality(OnIn(it, y))
                                                    + Cardinality(CurIn(it, y))
    BY <1>1 DEF ObjectsCounted, OnIn, CurIn
  <2>2. CASE y = x
    <3>1. Cardinality(OnIn(it, x)) = 0 /\ Cardinality(CurIn(it, x)) = 0
      BY <1>1, DeadIsFree
    <3>2. obj'[y].refs = 1 /\ vars'[y] = 1 BY <1>1, <1>2, <1>4, <1>6, <2>2
    <3>3. QED BY <3>1, <3>2, <2>2
  <2>3. CASE y # x
    <3>1. obj'[y] = obj[y] /\ vars'[y] = vars[y] BY <1>1, <1>4, <1>6, <2>3
    <3>2. QED BY <3>1 DEF ObjectsCounted
  <2>4. QED BY <2>2, <2>3
<1>9. StringsCounted'
  <2>1. SUFFICES ASSUME NEW t \in Str
                 PROVE  /\ rc'[t] >= own[t] + Cardinality(Holding(obj', t))
                        /\ tidy => rc'[t] = own[t] + Cardinality(Holding(obj', t))
    BY <1>1 DEF StringsCounted, Holding
  <2>2. Cardinality(Holding(obj', t)) + Holds(obj[x], t)
          = Cardinality(Holding(obj, t)) + Is(t, s)
    <3>1. PICK q : q = obj' OBVIOUS
    <3>2. q = [obj EXCEPT ![x] = new] /\ new.refs > 0 BY <1>1, <1>2, <3>1
    <3>3. Put(obj, q, x, new, t) BY <1>2, <1>4, <3>2, ObjectPut
    <3>4. QED BY <1>2, <3>1, <3>3 DEF Put
  <2>3. Holds(obj[x], t) = 0 BY <1>5 DEF Holds
  <2>5. rc'[t] = rc[t] + Is(t, s) BY <1>4 DEF Is
  <2>6. /\ rc[t] >= own[t] + Cardinality(Holding(obj, t))
        /\ tidy => rc[t] = own[t] + Cardinality(Holding(obj, t))
    BY DEF StringsCounted
  <2>7. /\ rc[t] \in Int /\ own[t] \in Nat /\ Cardinality(Holding(obj, t)) \in Nat
        /\ Cardinality(Holding(obj', t)) \in Nat /\ Is(t, s) \in Nat
    BY Summands, CountsType, IsType
  <2>8. Cardinality(Holding(obj', t)) = Cardinality(Holding(obj, t)) + Is(t, s)
    BY <2>2, <2>3, <2>7
  <2>9. QED BY <2>5, <2>6, <2>7, <2>8
<1>10. Values' BY <1>3, <1>6 DEF Values, Live
<1>11. Iterating' BY <1>1, <1>5, <1>6, IteratingSame
<1>12. LeftBehind'
  <2>1. ASSUME NEW t \in Str PROVE Spare(rc', own', obj', t) = Spare(rc, own, obj, t)
    <3>1. PICK q : q = obj' OBVIOUS
    <3>2. q = [obj EXCEPT ![x] = new] /\ new.refs > 0 BY <1>1, <1>2, <3>1
    <3>3. Put(obj, q, x, new, t) BY <1>2, <1>4, <3>2, ObjectPut
    <3>4. Cardinality(Holding(q, t)) + Holds(obj[x], t) = Cardinality(Holding(obj, t)) + Is(t, s)
      BY <1>2, <3>3 DEF Put
    <3>5. Holds(obj[x], t) = 0 BY <1>5 DEF Holds
    <3>6. rc'[t] = rc[t] + Is(t, s) BY <1>4 DEF Is
    <3>7. /\ rc[t] \in Int /\ own[t] \in Nat /\ Cardinality(Holding(obj, t)) \in Nat
          /\ Cardinality(Holding(q, t)) \in Nat /\ Is(t, s) \in Nat
      BY Summands, CountsType, IsType
    <3>8. Spare(rc', own', obj', t) = rc'[t] - (own[t] + Cardinality(Holding(q, t)))
      BY <1>1, <3>1 DEF Spare
    <3>9. Cardinality(Holding(q, t)) = Cardinality(Holding(obj, t)) + Is(t, s)
      BY <3>4, <3>5, <3>7
    <3>10. QED BY <3>6, <3>7, <3>8, <3>9 DEF Spare
  <2>2. QED BY <1>1, <2>1, SpareSame
<1>13. QED BY <1>7, <1>8, <1>9, <1>10, <1>11, <1>12

\* What the constructor makes of an offset.
LEMMA PointedRight ==
    ASSUME NEW s \in Str, NEW off \in Offset
    PROVE  /\ Pointed(s, off) \in Int /\ Pointed(s, off) >= Adrift /\ off \in Int
           /\ Right(Made(s, off, Pointed(s, off)))
<1>1. off \in Int BY AddressAssumption
<1>2. CASE off \in DOMAIN Kids[s]
  <2>1. Pointed(s, off) = off /\ off \in Nat BY <1>2, DocAssumption DEF Pointed
  <2>2. QED BY <1>1, <1>2, <2>1 DEF Right, Made, Missing, Adrift
<1>3. CASE off \notin DOMAIN Kids[s]
  <2>1. Pointed(s, off) = Adrift BY <1>3 DEF Pointed
  <2>2. QED BY <1>1, <2>1 DEF Right, Made, Missing, Adrift
<1>4. QED BY <1>2, <1>3

\* The constructor, the slice for a callback, and navigation: all of them make
\* an object that points where it should.
LEMMA CreateStep ==
    ASSUME Inv, NEW x \in Slot,
           \/ \E s \in Str, off \in Offset : Construct(x, s, off)
           \/ \E s \in Str : \E p \in DOMAIN Kids[s] : SliceForCallback(x, s, p)
           \/ \E y \in Slot : \/ NavigateMissing(x, y) \/ ValueTagged(x, y)
                              \/ Found(y) /\ \E k \in DOMAIN Parts(y) : Navigate(x, y, k)
    PROVE  Inv'
<1>0. \A s \in Str : /\ CopyIn(rc[s]) = rc[s] + 1 /\ CountNew(rc[s]) = rc[s] + 1
  BY DEF CopyIn, CountNew, Inv, TypeOK
<1>1. CASE \E s \in Str, off \in Offset : Construct(x, s, off)
  <2>1. PICK s \in Str, off \in Offset : Construct(x, s, off) BY <1>1
  <2>2. PICK at \in Int : at = Pointed(s, off) /\ at >= Adrift /\ Right(Made(s, off, at))
    BY PointedRight
  <2>3. Return(x, s, off, at) /\ rc' = [rc EXCEPT ![s] = @ + 1]
    BY <2>1, <2>2, <1>0 DEF Construct
  <2>4. QED BY <2>2, <2>3, PointedRight, ReturnStep
<1>2. CASE \E s \in Str : \E p \in DOMAIN Kids[s] : SliceForCallback(x, s, p)
  <2>1. PICK s \in Str, p \in Nat : p \in DOMAIN Kids[s] /\ SliceForCallback(x, s, p)
    BY <1>2, DocAssumption
  <2>2. p \in Nat /\ p \in DOMAIN Kids[s] /\ Base[s] \in Nat BY <2>1, AddressAssumption
  <2>4. QED
    <3> DEFINE at == Kids[s][p][1]
    <3>1. /\ Return(x, s, Abs(Base[s] - Address(s, at)), at)
          /\ rc' = [rc EXCEPT ![s] = @ + 1] /\ Kind[s][p] = "tagged"
      BY <2>1, <1>0 DEF SliceForCallback
    <3>2. /\ Kids[s][p] \in Seq(DOMAIN Kids[s]) /\ Len(Kids[s][p]) = 1
          /\ DOMAIN Kids[s] \subseteq Nat
      BY <2>2, <3>1, DocAssumption
    <3>3. at \in DOMAIN Kids[s] /\ at \in Nat BY <3>2
    <3>4. Address(s, at) = Base[s] + at BY <3>3 DEF Address, Missing
    <3>5. Abs(Base[s] - Address(s, at)) = at BY <2>2, <3>3, <3>4 DEF Abs
    <3>6. PICK q \in Int : q = at /\ q >= Adrift BY <3>3 DEF Adrift
    <3>7. Right(Made(s, q, q)) BY <2>2, <3>3, <3>6 DEF Right, Made, Missing
    <3>8. Return(x, s, q, q) BY <3>1, <3>5, <3>6
    <3>9. QED BY <3>1, <3>6, <3>7, <3>8, ReturnStep
<1>3. ASSUME NEW y \in Slot,
             \/ NavigateMissing(x, y) \/ ValueTagged(x, y)
             \/ Found(y) /\ \E k \in DOMAIN Parts(y) : Navigate(x, y, k)
      PROVE  Inv'
  <2>1. Found(y) BY <1>3 DEF NavigateMissing, ValueTagged
  <2>2. PICK s \in Str, p \in Nat :
             /\ s = obj[y].str /\ p = obj[y].at /\ p \in DOMAIN Kids[s] /\ Base[s] \in Nat
             /\ obj[y].start = Base[s] + p /\ obj[y].offset = p
             /\ \A k \in DOMAIN Kids[s][p] :
                  /\ Kids[s][p][k] \in DOMAIN Kids[s] /\ Kids[s][p][k] \in Nat
                  /\ Kids[s][p][k] > p
    BY <2>1, InDocument
  <2>3. CASE NavigateMissing(x, y)
    <3>1. /\ Derived(y, NoneAddr) \in Int
          /\ NoneAbove => Base[s] + Derived(y, NoneAddr) = NoneAddr
      BY <2>2, AddressAssumption DEF Derived, Abs, NoneAbove
    <3>2. PICK off \in Int, at \in Int : off = Derived(y, NoneAddr) /\ at = Missing
      BY <3>1 DEF Missing
    <3> at >= Adrift BY <3>2 DEF Missing, Adrift
    <3>3. Return(x, s, off, at) /\ rc' = [rc EXCEPT ![s] = @ + 1]
      BY <2>2, <2>3, <3>2, <1>0 DEF NavigateMissing
    <3>4. Right(Made(s, off, at)) BY <3>1, <3>2 DEF Right, Made, Missing
    <3>5. QED BY <3>3, <3>4, ReturnStep
  <2>4. CASE ValueTagged(x, y)
    <3>1. Return(x, s, Derived(y, obj[y].start), p) /\ rc' = [rc EXCEPT ![s] = @ + 1]
      BY <2>2, <2>4, <1>0 DEF ValueTagged
    <3>2. Derived(y, obj[y].start) = p BY <2>2 DEF Derived, Abs
    <3>3. Right(Made(s, p, p)) /\ p \in Int /\ p >= Adrift BY <2>2 DEF Right, Made, Missing, Adrift
    <3>4. Return(x, s, p, p) BY <3>1, <3>2
    <3>5. QED BY <3>1, <3>3, <3>4, ReturnStep
  <2>5. CASE \E k \in DOMAIN Parts(y) : Navigate(x, y, k)
    <3>1. PICK k \in DOMAIN Parts(y) : Navigate(x, y, k) BY <2>5
    <3>2. PICK q \in DOMAIN Kids[s] : q = Parts(y)[k] /\ q \in Nat /\ q > p
      BY <2>2, <3>1 DEF Parts
    <3>3. Return(x, s, Derived(y, Address(s, q)), q) /\ rc' = [rc EXCEPT ![s] = @ + 1]
      BY <2>2, <3>1, <3>2, <1>0 DEF Navigate
    <3>4. Address(s, q) = Base[s] + q BY <3>2 DEF Address, Missing
    <3>5. Derived(y, Address(s, q)) = q BY <2>2, <3>2, <3>4 DEF Derived, Abs
    <3>6. Right(Made(s, q, q)) /\ q \in Int /\ q >= Adrift
      BY <2>2, <3>2 DEF Right, Made, Missing, Adrift
    <3>7. Return(x, s, q, q) BY <3>3, <3>5
    <3>8. QED BY <3>3, <3>6, <3>7, ReturnStep
  <2>6. QED BY <1>3, <2>3, <2>4, <2>5
<1>4. QED BY <1>1, <1>2, <1>3

-----------------------------------------------------------------------------
(* Steps that only move references.                                          *)

\* What is left to show of a step, once the counts add up.
Held(o, v, f, x) == o[x].refs - (v[x] + Cardinality(OnIn(f, x)) + Cardinality(CurIn(f, x)))
LEMMA Kept ==
    ASSUME Inv, TypeOK', tidy' => tidy,
           \A x \in Slot : \/ Held(obj', vars', it', x) = Held(obj, vars, it, x)
                           \/ ~tidy' /\ Held(obj', vars', it', x) >= Held(obj, vars, it, x),
           \A s \in Str : \/ Spare(rc', own', obj', s) = Spare(rc, own, obj, s)
                          \/ ~tidy' /\ Spare(rc', own', obj', s) >= Spare(rc, own, obj, s),
           \A x \in Slot : obj'[x].refs > 0 =>
               /\ Right(obj'[x])
               /\ \/ obj[x].refs = 0
                  \/ obj'[x].at = obj[x].at /\ obj'[x].str = obj[x].str
                  \/ \A i \in Iter : it'[i].on = x => it'[i].moved,
           \A i \in Iter :
               /\ Alongside(it'[i])
               /\ it'[i].on # Nobody =>
                     \/ /\ it'[i].on = it[i].on /\ it'[i].parts = it[i].parts
                        /\ it[i].moved => it'[i].moved
                     \/ Live(it'[i].on) /\ Beside(it'[i], obj[it'[i].on])
               /\ it'[i].moved =>
                     \/ it[i].moved /\ it'[i].parts = it[i].parts
                     \/ \A k \in DOMAIN it'[i].parts :
                           Spare(rc', own', obj', it'[i].parts[k][1]) >= 1
    PROVE  Inv'
<1> USE DEF Inv
<1>1. ObjectsCounted'
  <2>1. SUFFICES ASSUME NEW x \in Slot
                 PROVE  /\ obj'[x].refs >= vars'[x] + Cardinality(OnIn(it', x))
                                             + Cardinality(CurIn(it', x))
                        /\ tidy' => obj'[x].refs = vars'[x] + Cardinality(OnIn(it', x))
                                                     + Cardinality(CurIn(it', x))
    BY DEF ObjectsCounted, OnIn, CurIn
  <2>2. /\ obj[x].refs >= vars[x] + Cardinality(OnIn(it, x)) + Cardinality(CurIn(it, x))
        /\ tidy => obj[x].refs = vars[x] + Cardinality(OnIn(it, x)) + Cardinality(CurIn(it, x))
    BY DEF ObjectsCounted
  <2>3. /\ obj[x].refs \in Nat /\ vars[x] \in Nat
        /\ obj'[x].refs \in Nat /\ vars'[x] \in Nat
    BY DEF TypeOK, Object
  <2>4. /\ Cardinality(OnIn(it, x)) \in Nat /\ Cardinality(CurIn(it, x)) \in Nat
        /\ Cardinality(OnIn(it', x)) \in Nat /\ Cardinality(CurIn(it', x)) \in Nat
    BY CountsType
  <2>5. \/ Held(obj', vars', it', x) = Held(obj, vars, it, x)
        \/ ~tidy' /\ Held(obj', vars', it', x) >= Held(obj, vars, it, x)
    OBVIOUS
  <2>6. QED BY <2>2, <2>3, <2>4, <2>5 DEF Held
<1>2. StringsCounted'
  <2>1. SUFFICES ASSUME NEW s \in Str
                 PROVE  /\ rc'[s] >= own'[s] + Cardinality(Holding(obj', s))
                        /\ tidy' => rc'[s] = own'[s] + Cardinality(Holding(obj', s))
    BY DEF StringsCounted, Holding
  <2>2. /\ rc[s] >= own[s] + Cardinality(Holding(obj, s))
        /\ tidy => rc[s] = own[s] + Cardinality(Holding(obj, s))
    BY DEF StringsCounted
  <2>3. /\ rc[s] \in Int /\ own[s] \in Nat /\ rc'[s] \in Int /\ own'[s] \in Nat
    BY DEF TypeOK
  <2>4. Cardinality(Holding(obj, s)) \in Nat /\ Cardinality(Holding(obj', s)) \in Nat
    BY CountsType
  <2>5. \/ Spare(rc', own', obj', s) = Spare(rc, own, obj, s)
        \/ ~tidy' /\ Spare(rc', own', obj', s) >= Spare(rc, own, obj, s)
    OBVIOUS
  <2>6. QED BY <2>2, <2>3, <2>4, <2>5 DEF Spare
<1>3. Values' BY DEF Values, Live
<1>4. Iterating'
  <2>1. SUFFICES ASSUME NEW i \in Iter, it'[i].on # Nobody, ~it'[i].moved
                 PROVE  Beside(it'[i], obj'[it'[i].on])
    BY DEF Iterating, Used
  <2>2. PICK x \in Slot : x = it'[i].on BY <2>1 DEF TypeOK, Iterator
  <2>3. obj'[x].refs > 0
    <3>1. OnIn(it', x) # {} BY <2>2 DEF OnIn
    <3>2. Cardinality(OnIn(it', x)) >= 1
      <4>1. PICK g : g = it' OBVIOUS
      <4>2. PICK n \in Nat : n = Cardinality(OnIn(g, x)) BY CountsType
      <4>3. n = 0 => OnIn(g, x) = {} BY <4>2, CountsType
      <4>4. n # 0 BY <3>1, <4>1, <4>3
      <4>5. n >= 1 BY <4>4
      <4>6. QED BY <4>1, <4>2, <4>5
    <3>3. obj'[x].refs >= vars'[x] + Cardinality(OnIn(it', x)) + Cardinality(CurIn(it', x))
      BY <1>1 DEF ObjectsCounted, OnIn, CurIn
    <3>4. /\ obj'[x].refs \in Nat /\ vars'[x] \in Nat /\ Cardinality(CurIn(it', x)) \in Nat
          /\ Cardinality(OnIn(it', x)) \in Nat
      BY CountsType DEF TypeOK, Object
    <3>5. QED BY <3>2, <3>3, <3>4
  <2>4. Live(x) /\ Beside(it'[i], obj[x])
    <3>1. CASE it'[i].on = it[i].on /\ it'[i].parts = it[i].parts /\ (it[i].moved => it'[i].moved)
      <4>1. Live(x) BY <2>2, <3>1, HeldIsLive
      <4>2. Beside(it[i], obj[x]) BY <2>1, <2>2, <3>1 DEF Iterating, Used
      <4>3. QED BY <4>1, <4>2, <3>1 DEF Beside
    <3>2. CASE Live(it'[i].on) /\ Beside(it'[i], obj[it'[i].on]) BY <2>2, <3>2
    <3>3. QED BY <2>1, <3>1, <3>2
  <2>5. obj'[x].at = obj[x].at /\ obj'[x].str = obj[x].str
    BY <2>1, <2>2, <2>3, <2>4 DEF Live
  <2>6. QED BY <2>2, <2>4, <2>5 DEF Beside
<1>5. LeftBehind'
  <2>1. SUFFICES ASSUME NEW i \in Iter, it'[i].moved, NEW k \in DOMAIN it'[i].parts
                 PROVE  Spare(rc', own', obj', it'[i].parts[k][1]) >= 1
    BY DEF LeftBehind, Spare, Holding
  <2>2. CASE it[i].moved /\ it'[i].parts = it[i].parts
    <3>1. it[i].parts \in Seq(Str \X Nat) BY DEF TypeOK, Iterator
    <3>2. PICK t \in Str : t = it[i].parts[k][1] BY <2>1, <2>2, <3>1
    <3>3. Spare(rc, own, obj, t) >= 1 BY <2>1, <2>2, <3>2 DEF LeftBehind
    <3>4. rc[t] \in Int /\ own[t] \in Nat /\ rc'[t] \in Int /\ own'[t] \in Nat
          /\ Cardinality(Holding(obj, t)) \in Nat /\ Cardinality(Holding(obj', t)) \in Nat
      BY CountsType DEF TypeOK
    <3>5. Spare(rc, own, obj, t) \in Int /\ Spare(rc', own', obj', t) \in Int
      BY <3>4 DEF Spare
    <3>6. Spare(rc', own', obj', t) >= Spare(rc, own, obj, t) BY <3>5
    <3>7. QED BY <2>2, <3>2, <3>3, <3>5, <3>6
  <2>3. QED BY <2>1, <2>2
<1>6. QED BY <1>1, <1>2, <1>3, <1>4, <1>5

\* An object keeps its value if it keeps its fields.
Same(r, q) == r.str = q.str /\ r.at = q.at /\ r.start = q.start /\ r.offset = q.offset
LEMMA RightSame == ASSUME NEW r, NEW q, Right(r), Same(q, r) PROVE Right(q)
BY DEF Right, Same

\* One reference less.
LEMMA DropKeeps ==
    ASSUME NEW o \in [Slot -> Object], NEW r \in [Str -> Int], NEW x \in Slot, o[x].refs >= 1
    PROVE  /\ Drop(o, x) \in [Slot -> Object] /\ Release(o, r, x) \in [Str -> Int]
           /\ \A y \in Slot : /\ Drop(o, x)[y].refs + Is(y, x) = o[y].refs
                              /\ Drop(o, x)[y].refs > 0 => Same(Drop(o, x)[y], o[y])
           /\ \A s \in Str : Release(o, r, x)[s] + Cardinality(Holding(o, s))
                               = r[s] + Cardinality(Holding(Drop(o, x), s))
<1>1. o[x] \in Object /\ o[x].refs \in Nat /\ o[x].str \in Str BY DEF Object
<1>2. Drop(o, x) \in [Slot -> Object]
  <2>1. CASE o[x].refs = 1 BY <2>1, FreeType DEF Drop
  <2>2. CASE o[x].refs # 1
    <3>1. [o[x] EXCEPT !.refs = @ - 1] \in Object BY <1>1, <2>2 DEF Object
    <3>2. QED BY <2>2, <3>1 DEF Drop
  <2>3. QED BY <2>1, <2>2
<1>3. Release(o, r, x) \in [Str -> Int] BY <1>1 DEF Release
<1>4. \A y \in Slot \ {x} : Drop(o, x)[y] = o[y] BY DEF Drop
<1>5. /\ Drop(o, x)[x].refs + 1 = o[x].refs
      /\ Drop(o, x)[x].refs > 0 => Same(Drop(o, x)[x], o[x])
  <2>1. CASE o[x].refs = 1
    <3>1. Drop(o, x)[x] = Free BY <2>1 DEF Drop
    <3>2. QED BY <2>1, <3>1, FreeType
  <2>2. CASE o[x].refs # 1
    <3>1. Drop(o, x)[x] = [o[x] EXCEPT !.refs = @ - 1] BY <2>2 DEF Drop
    <3>2. QED BY <1>1, <3>1 DEF Same, Object
  <2>3. QED BY <2>1, <2>2
<1>6. ASSUME NEW y \in Slot
      PROVE  /\ Drop(o, x)[y].refs + Is(y, x) = o[y].refs
             /\ Drop(o, x)[y].refs > 0 => Same(Drop(o, x)[y], o[y])
  <2>1. CASE y = x BY <1>5, <2>1 DEF Is
  <2>2. CASE y # x
    <3>1. Drop(o, x)[y] = o[y] /\ o[y].refs \in Nat BY <1>4, <2>2 DEF Object
    <3>2. QED BY <3>1, <2>2 DEF Is, Same
  <2>3. QED BY <2>1, <2>2
<1>7. ASSUME NEW s \in Str
      PROVE  Release(o, r, x)[s] + Cardinality(Holding(o, s))
               = r[s] + Cardinality(Holding(Drop(o, x), s))
  <2>1. PICK d : d = Drop(o, x) OBVIOUS
  <2>2. \A y \in Slot \ {x} : d[y] = o[y] BY <1>4, <2>1
  <2>3. Cardinality(Holding(d, s)) + Holds(o[x], s) = Cardinality(Holding(o, s)) + Holds(d[x], s)
    <3>1. Moved(o, d, x, s) BY <2>2, ObjectMoved
    <3>2. QED BY <3>1 DEF Moved
  <2>4. Cardinality(Holding(d, s)) \in Nat /\ Cardinality(Holding(o, s)) \in Nat BY CountsType
  <2>5. Release(o, r, x)[s] + Holds(o[x], s) = r[s] + Holds(d[x], s)
    <3>1. CASE o[x].refs = 1
      <4>1. d[x] = Free BY <2>1, <3>1 DEF Drop
      <4>2. Holds(d[x], s) = 0 BY <4>1, FreeType DEF Holds
      <4>3. CASE HasString(o[x])
        <5>1. Holds(o[x], s) = Is(s, o[x].str) BY <3>1, <4>3 DEF Holds, Is
        <5>2. Release(o, r, x)[s] + Is(s, o[x].str) = r[s] BY <1>1, <3>1, <4>3 DEF Release, Is
        <5>3. r[s] \in Int OBVIOUS
        <5>4. QED BY <4>2, <5>1, <5>2, <5>3
      <4>4. CASE ~HasString(o[x])
        <5>1. Holds(o[x], s) = 0 /\ Release(o, r, x) = r BY <4>4 DEF Holds, Release
        <5>2. QED BY <4>2, <5>1
      <4>5. QED BY <4>3, <4>4
    <3>2. CASE o[x].refs # 1
      <4>1. Release(o, r, x)[s] = r[s] BY <3>2 DEF Release
      <4>2. d[x].refs > 0 /\ d[x].str = o[x].str /\ d[x].at = o[x].at /\ o[x].refs > 0
        <5>1. Drop(o, x)[x].refs > 0
          <6>1. Drop(o, x)[x].refs \in Nat BY <1>2 DEF Object
          <6>2. QED BY <1>1, <1>5, <3>2, <6>1
        <5>2. Drop(o, x)[x].str = o[x].str /\ Drop(o, x)[x].at = o[x].at
          BY <1>5, <5>1 DEF Same
        <5>3. QED BY <1>1, <2>1, <5>1, <5>2
      <4>3. Holds(d[x], s) = Holds(o[x], s) BY <4>2 DEF Holds, HasString
      <4>4. QED BY <4>1, <4>3
    <3>3. QED BY <3>1, <3>2
  <2>6. /\ Release(o, r, x)[s] \in Int /\ r[s] \in Int
        /\ Holds(o[x], s) \in Nat /\ Holds(d[x], s) \in Nat
    BY <1>3 DEF Holds
  <2>7. Release(o, r, x)[s] + Cardinality(Holding(o, s)) = r[s] + Cardinality(Holding(d, s))
    BY <2>3, <2>4, <2>5, <2>6
  <2>8. QED BY <2>1, <2>7
<1>8. QED BY <1>2, <1>3, <1>6, <1>7

\* What a step leaves alone holds of every object and iterator.
LEMMA Before ==
    ASSUME Inv
    PROVE  /\ \A x \in Slot : obj[x].refs > 0 => Right(obj[x])
           /\ \A i \in Iter : Alongside(it[i])
BY DEF Inv, Values, Iterating, Live

\* An object goes to one more variable.
LEMMA ShareStep ==
    ASSUME Inv, NEW y \in Slot, Live(y),
           obj' = [obj EXCEPT ![y].refs = @ + 1], vars' = [vars EXCEPT ![y] = @ + 1],
           UNCHANGED <<rc, own, it, tidy, dead>>
    PROVE  Inv'
<1>1. /\ obj \in [Slot -> Object] /\ vars \in [Slot -> Nat] /\ rc \in [Str -> Int]
      /\ own \in [Str -> Nat] /\ it \in [Iter -> Iterator]
  BY DEF Inv, TypeOK
<1>2. [obj[y] EXCEPT !.refs = @ + 1] \in Object BY <1>1 DEF Object
<1>3. obj' \in [Slot -> Object] /\ vars' \in [Slot -> Nat] BY <1>1, <1>2
<1>4. TypeOK' BY <1>3 DEF Inv, TypeOK
<1>5. ASSUME NEW x \in Slot
      PROVE  obj'[x].refs = obj[x].refs + Is(x, y) /\ Same(obj'[x], obj[x])
  <2>1. CASE x = y
    <3>1. obj'[x] = [obj[y] EXCEPT !.refs = @ + 1] BY <1>1, <2>1
    <3>2. QED BY <1>1, <2>1, <3>1 DEF Is, Same, Object
  <2>2. CASE x # y
    <3>1. obj'[x] = obj[x] /\ obj[x].refs \in Nat BY <1>1, <2>2 DEF Object
    <3>2. QED BY <2>2, <3>1 DEF Is, Same
  <2>3. QED BY <2>1, <2>2
<1>6. ASSUME NEW x \in Slot PROVE Held(obj', vars', it', x) = Held(obj, vars, it, x)
  <2>1. vars'[x] = vars[x] + Is(x, y) BY <1>1 DEF Is
  <2>2. obj[x].refs \in Nat /\ vars[x] \in Nat /\ Is(x, y) \in Nat
        /\ Cardinality(OnIn(it, x)) \in Nat /\ Cardinality(CurIn(it, x)) \in Nat
    BY Summands, IsType DEF Inv
  <2>3. obj'[x].refs = obj[x].refs + Is(x, y) BY <1>5
  <2>4. Held(obj', vars', it', x)
          = obj'[x].refs - (vars'[x] + Cardinality(OnIn(it, x)) + Cardinality(CurIn(it, x)))
    BY DEF Held
  <2>5. QED BY <2>1, <2>2, <2>3, <2>4 DEF Held
<1>7. ASSUME NEW s \in Str PROVE Spare(rc', own', obj', s) = Spare(rc, own, obj, s)
  <2>1. \A x \in Slot : obj'[x].refs > 0 /\ HasString(obj'[x]) /\ obj'[x].str = s
                           <=> obj[x].refs > 0 /\ HasString(obj[x]) /\ obj[x].str = s
    BY <1>1, <1>5 DEF Same, Is, Live, Object, HasString
  <2>2. Holding(obj', s) = Holding(obj, s) BY <2>1 DEF Holding
  <2>3. QED BY <2>2 DEF Spare
<1>8. \A x \in Slot : obj'[x].refs > 0 =>
        Right(obj'[x]) /\ obj'[x].at = obj[x].at /\ obj'[x].str = obj[x].str
  <2>1. SUFFICES ASSUME NEW x \in Slot, obj'[x].refs > 0
                 PROVE  Right(obj'[x]) /\ obj'[x].at = obj[x].at /\ obj'[x].str = obj[x].str
    OBVIOUS
  <2>2. Same(obj'[x], obj[x]) BY <1>5
  <2>3. obj[x].refs > 0 BY <1>1, <1>5, <2>1 DEF Is, Live, Object
  <2>4. Right(obj[x]) BY <2>3, Before
  <2>5. Right(obj'[x]) BY <2>2, <2>4, RightSame
  <2>6. QED BY <2>2, <2>5 DEF Same
<1>9. \A i \in Iter : Alongside(it'[i]) BY Before
<1>10. QED BY <1>4, <1>6, <1>7, <1>8, <1>9, Kept

\* A variable gives its object up.
LEMMA UnsetStep ==
    ASSUME Inv, NEW y \in Slot, Unset(y)
    PROVE  Inv'
<1>1. /\ obj \in [Slot -> Object] /\ vars \in [Slot -> Nat] /\ rc \in [Str -> Int]
      /\ own \in [Str -> Nat] /\ it \in [Iter -> Iterator]
  BY DEF Inv, TypeOK
<1>2. /\ obj' = Drop(obj, y) /\ rc' = Release(obj, rc, y) /\ vars' = [vars EXCEPT ![y] = @ - 1]
      /\ vars[y] > 0 /\ UNCHANGED <<own, it, tidy, dead>>
  BY DEF Unset
<1>3. obj[y].refs >= 1 BY <1>1, <1>2, HeldIsLive DEF Live, Object
<1>4. /\ obj' \in [Slot -> Object] /\ rc' \in [Str -> Int]
      /\ \A x \in Slot : /\ obj'[x].refs + Is(x, y) = obj[x].refs
                         /\ obj'[x].refs > 0 => Same(obj'[x], obj[x])
      /\ \A s \in Str : rc'[s] + Cardinality(Holding(obj, s)) = rc[s] + Cardinality(Holding(obj', s))
  BY <1>1, <1>2, <1>3, DropKeeps
<1>5. vars' \in [Slot -> Nat] BY <1>1, <1>2
<1>6. TypeOK' BY <1>2, <1>4, <1>5 DEF Inv, TypeOK
<1>7. ASSUME NEW x \in Slot PROVE Held(obj', vars', it', x) = Held(obj, vars, it, x)
  <2>1. vars'[x] + Is(x, y) = vars[x] BY <1>1, <1>2 DEF Is
  <2>2. obj[x].refs \in Nat /\ vars[x] \in Nat /\ Is(x, y) \in Nat
        /\ Cardinality(OnIn(it, x)) \in Nat /\ Cardinality(CurIn(it, x)) \in Nat
        /\ obj'[x].refs \in Nat /\ vars'[x] \in Nat
    BY <1>4, <1>5, Summands, IsType DEF Inv, Object
  <2>3. obj'[x].refs + Is(x, y) = obj[x].refs BY <1>4
  <2>4. Held(obj', vars', it', x)
          = obj'[x].refs - (vars'[x] + Cardinality(OnIn(it, x)) + Cardinality(CurIn(it, x)))
    BY <1>2 DEF Held
  <2>5. QED BY <2>1, <2>2, <2>3, <2>4 DEF Held
<1>8. ASSUME NEW s \in Str PROVE Spare(rc', own', obj', s) = Spare(rc, own, obj, s)
  <2>1. rc'[s] + Cardinality(Holding(obj, s)) = rc[s] + Cardinality(Holding(obj', s))
        /\ own'[s] = own[s]
    BY <1>2, <1>4
  <2>2. rc'[s] \in Int /\ rc[s] \in Int /\ own[s] \in Nat
        /\ Cardinality(Holding(obj, s)) \in Nat /\ Cardinality(Holding(obj', s)) \in Nat
    BY <1>1, <1>4, CountsType
  <2>3. QED BY <2>1, <2>2 DEF Spare
<1>9. \A x \in Slot : obj'[x].refs > 0 =>
        Right(obj'[x]) /\ obj'[x].at = obj[x].at /\ obj'[x].str = obj[x].str
  <2>1. SUFFICES ASSUME NEW x \in Slot, obj'[x].refs > 0
                 PROVE  Right(obj'[x]) /\ obj'[x].at = obj[x].at /\ obj'[x].str = obj[x].str
    OBVIOUS
  <2>2. Same(obj'[x], obj[x]) BY <1>4, <2>1
  <2>3. obj[x].refs > 0
    <3>1. obj'[x].refs + Is(x, y) = obj[x].refs /\ Is(x, y) \in Nat /\ obj'[x].refs \in Nat
      BY <1>4, IsType DEF Object
    <3>2. QED BY <2>1, <3>1
  <2>4. Right(obj[x]) BY <2>3, Before
  <2>5. Right(obj'[x]) BY <2>2, <2>4, RightSame
  <2>6. QED BY <2>2, <2>5 DEF Same
<1>10. \A i \in Iter : Alongside(it'[i]) BY <1>2, Before
<1>11. QED BY <1>2, <1>6, <1>7, <1>8, <1>9, <1>10, Kept

-----------------------------------------------------------------------------
(* Steps of iterators.                                                       *)
LEMMA NobodyFree == \A x \in Slot : Is(x, Nobody) = 0
BY PlaceAssumption DEF Is, Nobody

\* The current element is given up, if it is an object.
LEMMA DropCurrentKeeps ==
    ASSUME Inv, NEW i \in Iter
    PROVE  /\ DropCurrent(i) \in [Slot -> Object] /\ RcCurrent(i) \in [Str -> Int]
           /\ \A x \in Slot : /\ DropCurrent(i)[x].refs + Is(x, it[i].cur) = obj[x].refs
                              /\ DropCurrent(i)[x].refs > 0 => Same(DropCurrent(i)[x], obj[x])
           /\ \A s \in Str : RcCurrent(i)[s] + Cardinality(Holding(obj, s))
                               = rc[s] + Cardinality(Holding(DropCurrent(i), s))
<1>1. /\ obj \in [Slot -> Object] /\ rc \in [Str -> Int] /\ it[i].cur \in Slot \cup {Nobody}
  BY DEF Inv, TypeOK, Iterator
<1>2. CASE it[i].cur = Nobody
  <2>1. DropCurrent(i) = obj /\ RcCurrent(i) = rc BY <1>2 DEF DropCurrent, RcCurrent
  <2>2. \A x \in Slot : obj[x].refs \in Nat /\ Is(x, it[i].cur) = 0
    BY <1>1, <1>2, NobodyFree DEF Object
  <2>3. \A x \in Slot : obj[x].refs + Is(x, it[i].cur) = obj[x].refs BY <2>2
  <2>4. QED BY <1>1, <2>1, <2>3 DEF Same
<1>3. CASE it[i].cur # Nobody
  <2>1. PICK c \in Slot : c = it[i].cur BY <1>1, <1>3
  <2>2. obj[c].refs >= 1 BY <1>1, <2>1, HeldIsLive DEF Live, Object
  <2>3. DropCurrent(i) = Drop(obj, c) /\ RcCurrent(i) = Release(obj, rc, c)
    BY <1>3, <2>1 DEF DropCurrent, RcCurrent
  <2>4. /\ Drop(obj, c) \in [Slot -> Object] /\ Release(obj, rc, c) \in [Str -> Int]
        /\ \A x \in Slot : /\ Drop(obj, c)[x].refs + Is(x, c) = obj[x].refs
                           /\ Drop(obj, c)[x].refs > 0 => Same(Drop(obj, c)[x], obj[x])
        /\ \A s \in Str : Release(obj, rc, c)[s] + Cardinality(Holding(obj, s))
                            = rc[s] + Cardinality(Holding(Drop(obj, c), s))
    BY <1>1, <2>2, DropKeeps
  <2>5. QED BY <2>1, <2>3, <2>4
<1>4. QED BY <1>2, <1>3

\* What remains of a step that only gives references up: where there are
\* fewer, the objects still there are the same.
LEMMA StillRight ==
    ASSUME Inv, obj' \in [Slot -> Object],
           \A x \in Slot : /\ obj'[x].refs <= obj[x].refs
                           /\ obj'[x].refs > 0 => Same(obj'[x], obj[x])
    PROVE  \A x \in Slot : obj'[x].refs > 0 =>
             Right(obj'[x]) /\ obj'[x].at = obj[x].at /\ obj'[x].str = obj[x].str
<1>1. SUFFICES ASSUME NEW x \in Slot, obj'[x].refs > 0
               PROVE  Right(obj'[x]) /\ obj'[x].at = obj[x].at /\ obj'[x].str = obj[x].str
  OBVIOUS
<1>2. Same(obj'[x], obj[x]) BY <1>1
<1>3. obj[x].refs \in Nat /\ obj'[x].refs \in Nat BY DEF Inv, TypeOK, Object
<1>4. obj[x].refs > 0 BY <1>1, <1>3
<1>5. Right(obj'[x]) BY <1>2, <1>4, Before, RightSame
<1>6. QED BY <1>2, <1>5 DEF Same

\* An iterator gives its element up and goes to another position, n.
LEMMA SeekStep ==
    ASSUME Inv, NEW i \in Iter, NEW n \in Nat, Used(i),
           it[i].loop => n = it[i].idx + 1 /\ it[i].read,
           it' = [it EXCEPT ![i].idx = n, ![i].cur = Nobody, ![i].read = FALSE],
           obj' = DropCurrent(i), rc' = RcCurrent(i), UNCHANGED <<vars, own, tidy, dead>>
    PROVE  Inv'
<1>1. /\ obj \in [Slot -> Object] /\ vars \in [Slot -> Nat] /\ rc \in [Str -> Int]
      /\ own \in [Str -> Nat] /\ it \in [Iter -> Iterator]
  BY DEF Inv, TypeOK
<1>2. /\ it' = [it EXCEPT ![i].idx = n, ![i].cur = Nobody, ![i].read = FALSE]
      /\ obj' = DropCurrent(i) /\ rc' = RcCurrent(i) /\ UNCHANGED <<vars, own, tidy, dead>>
  OBVIOUS
<1>3. /\ obj' \in [Slot -> Object] /\ rc' \in [Str -> Int]
      /\ \A x \in Slot : /\ obj'[x].refs + Is(x, it[i].cur) = obj[x].refs
                         /\ obj'[x].refs > 0 => Same(obj'[x], obj[x])
      /\ \A s \in Str : rc'[s] + Cardinality(Holding(obj, s)) = rc[s] + Cardinality(Holding(obj', s))
  BY <1>2, DropCurrentKeeps
<1> DEFINE t == [it[i] EXCEPT !.idx = n, !.cur = Nobody, !.read = FALSE]
<1>4. t \in Iterator BY <1>1 DEF Iterator
<1>5. /\ it' \in [Iter -> Iterator] /\ it'[i] = t /\ \A j \in Iter \ {i} : it'[j] = it[j]
  BY <1>1, <1>2, <1>4
<1>6. /\ t.on = it[i].on /\ t.parts = it[i].parts /\ t.moved = it[i].moved /\ t.cur = Nobody
      /\ t.got = it[i].got /\ t.loop = it[i].loop /\ ~t.read
      /\ t.idx = n
  BY <1>1 DEF Iterator
<1> HIDE DEF t
<1>7. Alongside(t)
  <2>1. Alongside(it[i]) BY Before
  <2>2. t.on # Nobody BY <1>6 DEF Used
  <2>3. t.loop => t.idx = it[i].idx + 1 /\ it[i].read BY <1>6
  <2>4. it[i].idx \in Nat BY <1>1 DEF Iterator
  <2>5. QED BY <1>6, <2>1, <2>2, <2>3, <2>4 DEF Alongside
<1>8. TypeOK' BY <1>2, <1>3, <1>5 DEF Inv, TypeOK
<1>9. ASSUME NEW x \in Slot PROVE Held(obj', vars', it', x) = Held(obj, vars, it, x)
  <2>1. PICK g : g = it' OBVIOUS
  <2>2. /\ Cardinality(OnIn(g, x)) + Is(x, it[i].on) = Cardinality(OnIn(it, x)) + Is(x, g[i].on)
        /\ Cardinality(CurIn(g, x)) + Is(x, it[i].cur)
              = Cardinality(CurIn(it, x)) + Is(x, g[i].cur)
    <3>1. Shifted(it, g, i, x) BY <1>5, <2>1, IteratorMoved
    <3>2. QED BY <3>1 DEF Shifted
  <2>3. Is(x, g[i].cur) = 0 /\ Is(x, g[i].on) = Is(x, it[i].on)
    BY <1>5, <1>6, <2>1, NobodyFree
  <2>4. obj'[x].refs + Is(x, it[i].cur) = obj[x].refs BY <1>3
  <2>5. /\ obj[x].refs \in Nat /\ vars[x] \in Nat /\ obj'[x].refs \in Nat
        /\ Cardinality(OnIn(it, x)) \in Nat /\ Cardinality(CurIn(it, x)) \in Nat
        /\ Cardinality(OnIn(g, x)) \in Nat /\ Cardinality(CurIn(g, x)) \in Nat
        /\ Is(x, it[i].cur) \in Nat /\ Is(x, it[i].on) \in Nat
    BY <1>1, <1>3, CountsType, IsType DEF Object
  <2>6. Cardinality(OnIn(g, x)) = Cardinality(OnIn(it, x))
    <3>1. Cardinality(OnIn(g, x)) + Is(x, it[i].on) = Cardinality(OnIn(it, x)) + Is(x, it[i].on)
      BY <2>2, <2>3
    <3>2. PICK a \in Nat : a = Cardinality(OnIn(g, x)) BY <2>5
    <3>3. PICK b \in Nat : b = Cardinality(OnIn(it, x)) BY <2>5
    <3>4. PICK c \in Nat : c = Is(x, it[i].on) BY <2>5
    <3>5. a + c = b + c BY <3>1, <3>2, <3>3, <3>4
    <3>6. a = b BY <3>5
    <3>7. QED BY <3>2, <3>3, <3>6
  <2>7. Cardinality(CurIn(g, x)) + Is(x, it[i].cur) = Cardinality(CurIn(it, x))
    BY <2>2, <2>3, <2>5
  <2>8. Held(obj', vars', it', x)
          = obj'[x].refs - (vars[x] + Cardinality(OnIn(g, x)) + Cardinality(CurIn(g, x)))
    BY <1>2, <2>1 DEF Held
  <2>9. QED BY <2>4, <2>5, <2>6, <2>7, <2>8 DEF Held
<1>10. ASSUME NEW s \in Str PROVE Spare(rc', own', obj', s) = Spare(rc, own, obj, s)
  <2>1. rc'[s] + Cardinality(Holding(obj, s)) = rc[s] + Cardinality(Holding(obj', s))
        /\ own'[s] = own[s]
    BY <1>2, <1>3
  <2>2. rc'[s] \in Int /\ rc[s] \in Int /\ own[s] \in Nat
        /\ Cardinality(Holding(obj, s)) \in Nat /\ Cardinality(Holding(obj', s)) \in Nat
    BY <1>1, <1>3, CountsType
  <2>3. rc'[s] - (own[s] + Cardinality(Holding(obj', s)))
          = rc[s] - (own[s] + Cardinality(Holding(obj, s)))
    <3>1. PICK a \in Nat : a = Cardinality(Holding(obj, s)) BY <2>2
    <3>2. PICK b \in Nat : b = Cardinality(Holding(obj', s)) BY <2>2
    <3>3. PICK r \in Int, m \in Int, w \in Nat : r = rc[s] /\ m = rc'[s] /\ w = own[s] BY <2>2
    <3>4. m + a = r + b BY <2>1, <3>1, <3>2, <3>3
    <3>5. m - (w + b) = r - (w + a) BY <3>4
    <3>6. QED BY <3>1, <3>2, <3>3, <3>5
  <2>4. QED BY <2>1, <2>3 DEF Spare
<1>11. \A x \in Slot : obj'[x].refs > 0 =>
        Right(obj'[x]) /\ obj'[x].at = obj[x].at /\ obj'[x].str = obj[x].str
  <2>1. ASSUME NEW x \in Slot PROVE obj'[x].refs <= obj[x].refs
    <3>1. obj'[x].refs + Is(x, it[i].cur) = obj[x].refs /\ obj'[x].refs \in Nat
          /\ Is(x, it[i].cur) \in Nat
      BY <1>3, IsType DEF Object
    <3>2. QED BY <3>1
  <2>2. QED BY <1>3, <2>1, StillRight
<1>12. \A j \in Iter :
        /\ Alongside(it'[j])
        /\ it'[j].on = it[j].on /\ it'[j].parts = it[j].parts /\ it'[j].moved = it[j].moved
  BY <1>5, <1>6, <1>7, Before
<1>13. tidy' => tidy BY <1>2
<1>14. QED BY <1>8, <1>9, <1>10, <1>11, <1>12, <1>13, Kept

LEMMA MoveStep ==
    ASSUME Inv, NEW i \in Iter, MoveForwards(i) \/ Rewind(i)
    PROVE  Inv'
<1>1. it[i].idx \in Nat BY DEF Inv, TypeOK, Iterator
<1>2. CASE MoveForwards(i)
  <2>1. PICK n \in Nat : n = IF Valid(i) THEN it[i].idx + 1 ELSE it[i].idx BY <1>1
  <2>2. it' = [it EXCEPT ![i].idx = n, ![i].cur = Nobody, ![i].read = FALSE]
    BY <1>2, <2>1 DEF MoveForwards
  <2>3. Used(i) /\ (it[i].loop => n = it[i].idx + 1 /\ it[i].read) BY <1>2, <2>1 DEF MoveForwards
  <2>4. QED BY <1>2, <2>2, <2>3, SeekStep DEF MoveForwards
<1>3. CASE Rewind(i) BY <1>3, SeekStep DEF Rewind
<1>4. QED BY <1>2, <1>3

LEMMA EndStep ==
    ASSUME Inv, NEW i \in Iter, End(i)
    PROVE  Inv'
<1>1. /\ obj \in [Slot -> Object] /\ vars \in [Slot -> Nat] /\ rc \in [Str -> Int]
      /\ own \in [Str -> Nat] /\ it \in [Iter -> Iterator]
  BY DEF Inv, TypeOK
<1>2. Used(i) /\ it' = [it EXCEPT ![i] = Idle] /\ UNCHANGED <<vars, own, tidy, dead>>
  BY DEF End
<1>3. PICK y \in Slot : y = it[i].on BY <1>1, <1>2 DEF Used, Iterator
<1>4. PICK o \in [Slot -> Object], r \in [Str -> Int] :
        /\ o = DropCurrent(i) /\ r = RcCurrent(i)
        /\ \A x \in Slot : /\ o[x].refs + Is(x, it[i].cur) = obj[x].refs
                           /\ o[x].refs > 0 => Same(o[x], obj[x])
        /\ \A s \in Str : r[s] + Cardinality(Holding(obj, s)) = rc[s] + Cardinality(Holding(o, s))
  BY DropCurrentKeeps
<1>5. obj' = Drop(o, y) /\ rc' = Release(o, r, y) BY <1>3, <1>4 DEF End
<1>6. o[y].refs >= 1
  <2>1. obj[y].refs > 0 /\ (it[i].cur = y => obj[y].refs > 1)
    BY <1>3, HeldIsLive DEF Live
  <2>2. o[y].refs + Is(y, it[i].cur) = obj[y].refs BY <1>4
  <2>3. o[y].refs \in Nat /\ obj[y].refs \in Nat BY <1>1 DEF Object
  <2>4. QED BY <2>1, <2>2, <2>3 DEF Is
<1>7. /\ obj' \in [Slot -> Object] /\ rc' \in [Str -> Int]
      /\ \A x \in Slot : /\ obj'[x].refs + Is(x, y) = o[x].refs
                         /\ obj'[x].refs > 0 => Same(obj'[x], o[x])
      /\ \A s \in Str : rc'[s] + Cardinality(Holding(o, s)) = r[s] + Cardinality(Holding(obj', s))
  BY <1>5, <1>6, DropKeeps
<1>8. it' \in [Iter -> Iterator] /\ it'[i] = Idle /\ \A j \in Iter \ {i} : it'[j] = it[j]
  BY <1>1, <1>2, IdleType
<1>9. TypeOK' BY <1>2, <1>7, <1>8 DEF Inv, TypeOK
<1>10. ASSUME NEW x \in Slot
       PROVE  /\ obj'[x].refs + Is(x, y) + Is(x, it[i].cur) = obj[x].refs
              /\ obj[x].refs \in Nat /\ obj'[x].refs \in Nat /\ o[x].refs \in Nat
              /\ Is(x, y) \in Nat /\ Is(x, it[i].cur) \in Nat
  <2>1. /\ obj[x].refs \in Nat /\ obj'[x].refs \in Nat /\ o[x].refs \in Nat
        /\ Is(x, y) \in Nat /\ Is(x, it[i].cur) \in Nat
    BY <1>1, <1>7, IsType DEF Object
  <2>2. obj'[x].refs + Is(x, y) = o[x].refs BY <1>7
  <2>3. o[x].refs + Is(x, it[i].cur) = obj[x].refs BY <1>4
  <2>4. QED BY <2>1, <2>2, <2>3
<1>11. ASSUME NEW x \in Slot PROVE Held(obj', vars', it', x) = Held(obj, vars, it, x)
  <2>1. PICK g : g = it' OBVIOUS
  <2>2. /\ Cardinality(OnIn(g, x)) + Is(x, it[i].on) = Cardinality(OnIn(it, x)) + Is(x, g[i].on)
        /\ Cardinality(CurIn(g, x)) + Is(x, it[i].cur)
              = Cardinality(CurIn(it, x)) + Is(x, g[i].cur)
    <3>1. Shifted(it, g, i, x) BY <1>8, <2>1, IteratorMoved
    <3>2. QED BY <3>1 DEF Shifted
  <2>3. Is(x, g[i].cur) = 0 /\ Is(x, g[i].on) = 0
    BY <1>8, <2>1, NobodyFree DEF Idle
  <2>4. obj'[x].refs + Is(x, y) + Is(x, it[i].cur) = obj[x].refs BY <1>10
  <2>5. /\ obj[x].refs \in Nat /\ vars[x] \in Nat /\ obj'[x].refs \in Nat
        /\ Cardinality(OnIn(it, x)) \in Nat /\ Cardinality(CurIn(it, x)) \in Nat
        /\ Cardinality(OnIn(g, x)) \in Nat /\ Cardinality(CurIn(g, x)) \in Nat
        /\ Is(x, it[i].cur) \in Nat /\ Is(x, y) \in Nat
    BY <1>1, <1>10, CountsType
  <2>6. Cardinality(OnIn(g, x)) + Is(x, y) = Cardinality(OnIn(it, x))
    BY <1>3, <2>2, <2>3, <2>5
  <2>7. Cardinality(CurIn(g, x)) + Is(x, it[i].cur) = Cardinality(CurIn(it, x))
    BY <2>2, <2>3, <2>5
  <2>8. Held(obj', vars', it', x)
          = obj'[x].refs - (vars[x] + Cardinality(OnIn(g, x)) + Cardinality(CurIn(g, x)))
    BY <1>2, <2>1 DEF Held
  <2>9. QED BY <2>4, <2>5, <2>6, <2>7, <2>8 DEF Held
<1>12. ASSUME NEW s \in Str PROVE Spare(rc', own', obj', s) = Spare(rc, own, obj, s)
  <2>1. rc'[s] + Cardinality(Holding(o, s)) = r[s] + Cardinality(Holding(obj', s))
    BY <1>7
  <2>2. r[s] + Cardinality(Holding(obj, s)) = rc[s] + Cardinality(Holding(o, s)) BY <1>4
  <2>3. rc'[s] \in Int /\ rc[s] \in Int /\ r[s] \in Int /\ own[s] \in Nat
        /\ Cardinality(Holding(obj, s)) \in Nat /\ Cardinality(Holding(obj', s)) \in Nat
        /\ Cardinality(Holding(o, s)) \in Nat
    BY <1>1, <1>7, CountsType
  <2>4. rc'[s] + Cardinality(Holding(obj, s)) = rc[s] + Cardinality(Holding(obj', s))
    BY <2>1, <2>2, <2>3
  <2>5. Spare(rc', own', obj', s) = rc'[s] - (own[s] + Cardinality(Holding(obj', s)))
    BY <1>2 DEF Spare
  <2>6. Spare(rc, own, obj, s) = rc[s] - (own[s] + Cardinality(Holding(obj, s)))
    BY DEF Spare
  <2>7. QED BY <2>3, <2>4, <2>5, <2>6
<1>13. \A x \in Slot : obj'[x].refs > 0 =>
        Right(obj'[x]) /\ obj'[x].at = obj[x].at /\ obj'[x].str = obj[x].str
  <2>1. ASSUME NEW x \in Slot
        PROVE  obj'[x].refs <= obj[x].refs /\ (obj'[x].refs > 0 => o[x].refs > 0)
    <3>1. /\ obj'[x].refs + Is(x, y) + Is(x, it[i].cur) = obj[x].refs
          /\ obj[x].refs \in Nat /\ obj'[x].refs \in Nat /\ o[x].refs \in Nat
          /\ Is(x, y) \in Nat /\ Is(x, it[i].cur) \in Nat
      BY <1>10
    <3>2. obj'[x].refs + Is(x, y) = o[x].refs BY <1>7
    <3>3. QED BY <3>1, <3>2
  <2>2. \A x \in Slot : obj'[x].refs > 0 => Same(obj'[x], obj[x])
    BY <1>4, <1>7, <2>1 DEF Same
  <2>3. QED BY <1>7, <2>1, <2>2, StillRight
<1>14. \A j \in Iter :
        /\ Alongside(it'[j])
        /\ it'[j].on # Nobody => it'[j].on = it[j].on /\ it'[j].parts = it[j].parts
                                 /\ it'[j].moved = it[j].moved
        /\ it'[j].moved => it[j].moved /\ it'[j].parts = it[j].parts
  <2>1. Idle.on = Nobody /\ Idle.cur = Nobody /\ Idle.loop = FALSE /\ Idle.moved = FALSE
    BY DEF Idle
  <2>2. Alongside(Idle) BY <2>1 DEF Alongside
  <2>3. QED BY <1>8, <2>1, <2>2, Before
<1>15. QED BY <1>2, <1>9, <1>11, <1>12, <1>13, <1>14, Kept

\* foreach begins on an object, or getIterator is called.
LEMMA BeginStep ==
    ASSUME Inv, NEW i \in Iter, NEW y \in Slot, NEW loop \in BOOLEAN, Begin(i, y, loop)
    PROVE  Inv'
<1>1. /\ obj \in [Slot -> Object] /\ vars \in [Slot -> Nat] /\ rc \in [Str -> Int]
      /\ own \in [Str -> Nat] /\ it \in [Iter -> Iterator]
  BY DEF Inv, TypeOK
<1>2. it[i].on = Nobody /\ Found(y) /\ UNCHANGED <<vars, rc, own, tidy, dead>>
      /\ obj' = [obj EXCEPT ![y].refs = @ + 1]
  BY DEF Begin
<1>3. it[i] = Idle BY <1>2, Before DEF Alongside
<1>4. PICK s \in Str, p \in Nat :
        /\ s = obj[y].str /\ p = obj[y].at /\ p \in DOMAIN Kids[s]
        /\ \A k \in DOMAIN Kids[s][p] :
             /\ Kids[s][p][k] \in DOMAIN Kids[s] /\ Kids[s][p][k] \in Nat
             /\ Kids[s][p][k] > p
  BY <1>2, InDocument
<1> DEFINE parts == [k \in DOMAIN Kids[s][p] |-> <<s, Kids[s][p][k]>>]
           t == [Idle EXCEPT !.on = y, !.loop = loop, !.parts = parts]
<1>5. parts \in Seq(Str \X Nat)
  <2>1. Kids[s][p] \in Seq(DOMAIN Kids[s]) BY <1>4, DocAssumption
  <2>2. PICK n \in Nat : DOMAIN Kids[s][p] = 1..n BY <2>1
  <2>3. \A k \in 1..n : <<s, Kids[s][p][k]>> \in Str \X Nat BY <1>4, <2>2
  <2>4. parts = [k \in 1..n |-> <<s, Kids[s][p][k]>>] BY <2>2
  <2>5. QED BY <2>3, <2>4
<1>6. it' = [it EXCEPT ![i] = t] BY <1>4 DEF Begin, Parts
<1>7. Beside(t, obj[y])
  <2>1. t.parts = parts BY DEF Idle
  <2>2. \A k \in DOMAIN parts :
          /\ parts[k][1] = s /\ parts[k][2] \in DOMAIN Kids[s] /\ parts[k][2] > p
    BY <1>4
  <2>3. p >= 0 OBVIOUS
  <2> HIDE DEF parts, t
  <2>4. QED BY <1>4, <2>1, <2>2, <2>3 DEF Beside
<1> HIDE DEF parts
<1>8. /\ t \in Iterator /\ t.on = y /\ t.cur = Nobody /\ t.got = <<>> /\ ~t.read /\ t.idx = 0
      /\ t.moved = FALSE
  <2>1. Idle \in Iterator BY IdleType
  <2>2. QED BY <2>1, <1>5 DEF Iterator, Idle
<1>9. Alongside(t)
  <2>1. t.on # Nobody BY <1>8, PlaceAssumption DEF Nobody
  <2>2. DOMAIN t.got = {} /\ Len(t.got) = 0 BY <1>8
  <2> HIDE DEF t
  <2>3. QED BY <1>8, <2>1, <2>2 DEF Alongside
<1> HIDE DEF t
<1>10. it' \in [Iter -> Iterator] /\ it'[i] = t /\ \A j \in Iter \ {i} : it'[j] = it[j]
  BY <1>1, <1>6, <1>8
<1>11. [obj[y] EXCEPT !.refs = @ + 1] \in Object BY <1>1 DEF Object
<1>12. obj' \in [Slot -> Object] BY <1>1, <1>2, <1>11
<1>13. TypeOK' BY <1>2, <1>10, <1>12 DEF Inv, TypeOK
<1>14. ASSUME NEW x \in Slot
       PROVE  obj'[x].refs = obj[x].refs + Is(x, y) /\ Same(obj'[x], obj[x])
  <2>1. CASE x = y
    <3>1. obj'[x] = [obj[y] EXCEPT !.refs = @ + 1] BY <1>1, <1>2, <2>1
    <3>2. QED BY <1>1, <2>1, <3>1 DEF Is, Same, Object
  <2>2. CASE x # y
    <3>1. obj'[x] = obj[x] /\ obj[x].refs \in Nat BY <1>1, <1>2, <2>2 DEF Object
    <3>2. QED BY <2>2, <3>1 DEF Is, Same
  <2>3. QED BY <2>1, <2>2
<1>15. ASSUME NEW x \in Slot PROVE Held(obj', vars', it', x) = Held(obj, vars, it, x)
  <2>1. PICK g : g = it' OBVIOUS
  <2>2. /\ Cardinality(OnIn(g, x)) + Is(x, it[i].on) = Cardinality(OnIn(it, x)) + Is(x, g[i].on)
        /\ Cardinality(CurIn(g, x)) + Is(x, it[i].cur)
              = Cardinality(CurIn(it, x)) + Is(x, g[i].cur)
    <3>1. Shifted(it, g, i, x) BY <1>10, <2>1, IteratorMoved
    <3>2. QED BY <3>1 DEF Shifted
  <2>3. Is(x, it[i].on) = 0 /\ Is(x, it[i].cur) = 0 /\ Is(x, g[i].cur) = 0
        /\ Is(x, g[i].on) = Is(x, y)
    BY <1>3, <1>8, <1>10, <2>1, NobodyFree DEF Idle
  <2>4. obj'[x].refs = obj[x].refs + Is(x, y) BY <1>14
  <2>5. /\ obj[x].refs \in Nat /\ vars[x] \in Nat /\ Is(x, y) \in Nat
        /\ Cardinality(OnIn(it, x)) \in Nat /\ Cardinality(CurIn(it, x)) \in Nat
        /\ Cardinality(OnIn(g, x)) \in Nat /\ Cardinality(CurIn(g, x)) \in Nat
    BY <1>1, CountsType, IsType DEF Object
  <2>6. Cardinality(OnIn(g, x)) = Cardinality(OnIn(it, x)) + Is(x, y)
        /\ Cardinality(CurIn(g, x)) = Cardinality(CurIn(it, x))
    BY <2>2, <2>3, <2>5
  <2>7. Held(obj', vars', it', x)
          = obj'[x].refs - (vars[x] + Cardinality(OnIn(g, x)) + Cardinality(CurIn(g, x)))
    BY <1>2, <2>1 DEF Held
  <2>8. QED BY <2>4, <2>5, <2>6, <2>7 DEF Held
<1>16. ASSUME NEW u \in Str PROVE Spare(rc', own', obj', u) = Spare(rc, own, obj, u)
  <2>1. \A x \in Slot : obj'[x].refs > 0 /\ HasString(obj'[x]) /\ obj'[x].str = u
                           <=> obj[x].refs > 0 /\ HasString(obj[x]) /\ obj[x].str = u
    BY <1>1, <1>2, <1>14 DEF Same, Is, Live, Found, Object, HasString
  <2>2. Holding(obj', u) = Holding(obj, u) BY <2>1 DEF Holding
  <2>3. QED BY <1>2, <2>2 DEF Spare
<1>17. \A x \in Slot : obj'[x].refs > 0 =>
         Right(obj'[x]) /\ obj'[x].at = obj[x].at /\ obj'[x].str = obj[x].str
  <2>1. SUFFICES ASSUME NEW x \in Slot, obj'[x].refs > 0
                 PROVE  Right(obj'[x]) /\ obj'[x].at = obj[x].at /\ obj'[x].str = obj[x].str
    OBVIOUS
  <2>2. Same(obj'[x], obj[x]) BY <1>14
  <2>3. obj[x].refs > 0 BY <1>1, <1>2, <1>14, <2>1 DEF Is, Live, Found, Object
  <2>4. Right(obj'[x]) BY <2>2, <2>3, Before, RightSame
  <2>5. QED BY <2>2, <2>4 DEF Same
<1>18. \A j \in Iter :
         /\ Alongside(it'[j])
         /\ \/ it'[j] = it[j]
            \/ Live(it'[j].on) /\ Beside(it'[j], obj[it'[j].on]) /\ ~it'[j].moved
  BY <1>2, <1>7, <1>8, <1>9, <1>10, Before DEF Found
<1>19. QED BY <1>2, <1>13, <1>15, <1>16, <1>17, <1>18, Kept

\* The element replaces the current one.
LEMMA AskStep ==
    ASSUME Inv, NEW i \in Iter, NEW x \in Slot \cup {Nobody}, Asking(i, x)
    PROVE  /\ it' \in [Iter -> Iterator] /\ tidy' \in BOOLEAN /\ (tidy' => tidy)
           /\ \A j \in Iter :
                /\ Alongside(it'[j])
                /\ it'[j].on = it[j].on /\ it'[j].parts = it[j].parts
                /\ it'[j].moved = it[j].moved
           /\ \A y \in Slot :
                /\ Cardinality(OnIn(it', y)) = Cardinality(OnIn(it, y))
                /\ Cardinality(CurIn(it', y)) + Is(y, it[i].cur)
                     = Cardinality(CurIn(it, y)) + Is(y, x)
           /\ tidy' => \A y \in Slot : Is(y, it[i].cur) = 0
<1>1. it \in [Iter -> Iterator] /\ tidy \in BOOLEAN BY DEF Inv, TypeOK
<1>2. /\ Used(i) /\ (it[i].loop => ~it[i].read) /\ Valid(i)
  BY DEF Asking, Asked
<1>3. tidy' = (tidy /\ ~it[i].read) BY DEF Asking
<1>4. tidy' \in BOOLEAN /\ (tidy' => tidy /\ ~it[i].read) BY <1>3, Zenon
<1> DEFINE t == [it[i] EXCEPT !.read = TRUE, !.cur = x,
                  !.got = IF it[i].loop THEN Append(@, Part(i)[2]) ELSE @]
<1>5. it[i] \in Iterator BY <1>1
<1>6. PICK n \in Nat : n = it[i].idx /\ n < Len(it[i].parts)
  BY <1>2, <1>5 DEF Iterator, Valid
<1>7. Part(i) = it[i].parts[n + 1] /\ Part(i) \in Str \X Nat /\ Part(i)[2] \in Nat
  <2>1. it[i].parts \in Seq(Str \X Nat) BY <1>5 DEF Iterator
  <2>2. n + 1 \in 1..Len(it[i].parts) BY <1>6, <2>1
  <2>3. Part(i) = it[i].parts[n + 1] BY <1>6 DEF Part
  <2>4. it[i].parts[n + 1] \in Str \X Nat BY <2>1, <2>2
  <2>5. QED BY <2>3, <2>4
<1>8. /\ t.on = it[i].on /\ t.parts = it[i].parts /\ t.moved = it[i].moved /\ t.cur = x
      /\ t.loop = it[i].loop /\ t.read = TRUE /\ t.idx = n
      /\ t.got = IF it[i].loop THEN Append(it[i].got, Part(i)[2]) ELSE it[i].got
  BY <1>5, <1>6 DEF Iterator
<1>9. t \in Iterator
  <2>1. it[i].got \in Seq(Nat) BY <1>5 DEF Iterator
  <2>2. Append(it[i].got, Part(i)[2]) \in Seq(Nat) BY <1>7, <2>1
  <2>3. (IF it[i].loop THEN Append(it[i].got, Part(i)[2]) ELSE it[i].got) \in Seq(Nat)
    BY <2>1, <2>2
  <2>4. QED BY <1>5, <2>3 DEF Iterator
<1>10. it' = [it EXCEPT ![i] = t] BY <1>1, <1>5 DEF Asking, Iterator
<1> HIDE DEF t
<1>11. it' \in [Iter -> Iterator] /\ it'[i] = t /\ \A j \in Iter \ {i} : it'[j] = it[j]
  BY <1>1, <1>9, <1>10
<1>12. Alongside(t)
  <2>1. t.on # Nobody BY <1>2, <1>8 DEF Used
  <2>2. ASSUME t.loop
        PROVE  /\ \A k \in DOMAIN t.got : t.got[k] = t.parts[k][2]
               /\ Len(t.got) = t.idx + 1
    <3>1. /\ it[i].loop /\ ~it[i].read /\ Alongside(it[i]) BY <1>2, <1>8, <2>2, Before
    <3>2. PICK g \in Seq(Nat) : g = it[i].got BY <1>5 DEF Iterator
    <3>3. Len(g) = n /\ \A k \in DOMAIN g : g[k] = it[i].parts[k][2]
      BY <1>6, <3>1, <3>2 DEF Alongside
    <3>4. t.got = Append(g, Part(i)[2]) BY <1>8, <3>1, <3>2
    <3>5. /\ Len(Append(g, Part(i)[2])) = n + 1
          /\ \A k \in DOMAIN Append(g, Part(i)[2]) :
                Append(g, Part(i)[2])[k] = IF k = n + 1 THEN Part(i)[2] ELSE g[k]
          /\ \A k \in DOMAIN Append(g, Part(i)[2]) : k = n + 1 \/ k \in DOMAIN g
      BY <1>7, <3>3
    <3>6. ASSUME NEW k \in DOMAIN Append(g, Part(i)[2])
          PROVE  Append(g, Part(i)[2])[k] = t.parts[k][2]
      <4>1. CASE k = n + 1 BY <1>7, <1>8, <3>5, <4>1
      <4>2. CASE k # n + 1 BY <1>8, <3>3, <3>5, <4>2
      <4>3. QED BY <4>1, <4>2
    <3>7. QED BY <1>8, <3>4, <3>5, <3>6
  <2>3. QED BY <1>8, <2>1, <2>2 DEF Alongside
<1>13. ASSUME NEW y \in Slot
       PROVE  /\ Cardinality(OnIn(it', y)) = Cardinality(OnIn(it, y))
              /\ Cardinality(CurIn(it', y)) + Is(y, it[i].cur)
                   = Cardinality(CurIn(it, y)) + Is(y, x)
  <2>1. PICK g : g = it' OBVIOUS
  <2>2. /\ Cardinality(OnIn(g, y)) + Is(y, it[i].on) = Cardinality(OnIn(it, y)) + Is(y, g[i].on)
        /\ Cardinality(CurIn(g, y)) + Is(y, it[i].cur)
              = Cardinality(CurIn(it, y)) + Is(y, g[i].cur)
    <3>1. Shifted(it, g, i, y) BY <1>11, <2>1, IteratorMoved
    <3>2. QED BY <3>1 DEF Shifted
  <2>3. Is(y, g[i].cur) = Is(y, x) /\ Is(y, g[i].on) = Is(y, it[i].on)
    BY <1>8, <1>11, <2>1
  <2>4. /\ Cardinality(OnIn(it, y)) \in Nat /\ Cardinality(OnIn(g, y)) \in Nat
        /\ Is(y, it[i].on) \in Nat
    BY CountsType, IsType
  <2>5. Cardinality(OnIn(g, y)) = Cardinality(OnIn(it, y)) BY <2>2, <2>3, <2>4
  <2>6. QED BY <2>1, <2>2, <2>3, <2>5
<1>14. tidy' => \A y \in Slot : Is(y, it[i].cur) = 0
  <2>1. SUFFICES ASSUME tidy' PROVE \A y \in Slot : Is(y, it[i].cur) = 0 OBVIOUS
  <2>2. it[i].cur = Nobody BY <1>4, <2>1, Before DEF Alongside
  <2>3. QED BY <2>2, NobodyFree
<1>15. \A j \in Iter :
         /\ Alongside(it'[j])
         /\ it'[j].on = it[j].on /\ it'[j].parts = it[j].parts /\ it'[j].moved = it[j].moved
  BY <1>8, <1>11, <1>12, Before
<1>16. QED BY <1>4, <1>11, <1>13, <1>14, <1>15

LEMMA ScalarStep ==
    ASSUME Inv, NEW i \in Iter, DataScalar(i)
    PROVE  Inv'
<1>1. Asking(i, Nobody) /\ UNCHANGED <<obj, rc, vars, own, dead>> BY DEF DataScalar, Asking
<1>2. /\ it' \in [Iter -> Iterator] /\ tidy' \in BOOLEAN /\ (tidy' => tidy)
      /\ \A j \in Iter :
           /\ Alongside(it'[j])
           /\ it'[j].on = it[j].on /\ it'[j].parts = it[j].parts /\ it'[j].moved = it[j].moved
      /\ \A y \in Slot :
           /\ Cardinality(OnIn(it', y)) = Cardinality(OnIn(it, y))
           /\ Cardinality(CurIn(it', y)) + Is(y, it[i].cur)
                = Cardinality(CurIn(it, y)) + Is(y, Nobody)
      /\ tidy' => \A y \in Slot : Is(y, it[i].cur) = 0
  BY <1>1, AskStep
<1>3. TypeOK' BY <1>1, <1>2 DEF Inv, TypeOK
<1>4. ASSUME NEW x \in Slot
      PROVE  \/ Held(obj', vars', it', x) = Held(obj, vars, it, x)
             \/ ~tidy' /\ Held(obj', vars', it', x) >= Held(obj, vars, it, x)
  <2>1. PICK c \in Nat : c = Cardinality(CurIn(it', x)) BY CountsType
  <2>2. PICK d \in Nat : d = Is(x, it[i].cur) BY IsType
  <2>3. c + d = Cardinality(CurIn(it, x))
    <3>1. Is(x, Nobody) = 0 BY NobodyFree
    <3>2. Cardinality(CurIn(it, x)) \in Nat BY CountsType
    <3>3. c + d = Cardinality(CurIn(it, x)) + Is(x, Nobody) BY <1>2, <2>1, <2>2
    <3>4. QED BY <3>1, <3>2, <3>3
  <2>4. Held(obj', vars', it', x) = obj[x].refs - (vars[x] + Cardinality(OnIn(it, x)) + c)
    BY <1>1, <1>2, <2>1 DEF Held
  <2>5. Held(obj, vars, it, x) = obj[x].refs - (vars[x] + Cardinality(OnIn(it, x)) + (c + d))
    BY <2>3 DEF Held
  <2>6. obj[x].refs \in Nat /\ vars[x] \in Nat /\ Cardinality(OnIn(it, x)) \in Nat
    BY Summands DEF Inv
  <2>7. tidy' => d = 0 BY <1>2, <2>2
  <2>8. Held(obj', vars', it', x) = Held(obj, vars, it, x) + d BY <2>4, <2>5, <2>6
  <2>9. Held(obj, vars, it, x) \in Int BY <2>5, <2>6
  <2>10. QED BY <2>7, <2>8, <2>9
<1>5. \A s \in Str : Spare(rc', own', obj', s) = Spare(rc, own, obj, s)
  BY <1>1 DEF Spare, Holding
<1>6. \A x \in Slot : obj'[x].refs > 0 =>
        Right(obj'[x]) /\ obj'[x].at = obj[x].at /\ obj'[x].str = obj[x].str
  BY <1>1, Before
<1>7. QED BY <1>2, <1>3, <1>4, <1>5, <1>6, Kept

\* An element that is an object: at its value, unless the iterator's object
\* was constructed again.
LEMMA SliceStep ==
    ASSUME Inv, NEW i \in Iter, NEW x \in Slot, DataSlice(i, x)
    PROVE  Inv'
<1>1. /\ obj \in [Slot -> Object] /\ vars \in [Slot -> Nat] /\ rc \in [Str -> Int]
      /\ own \in [Str -> Nat] /\ it \in [Iter -> Iterator]
  BY DEF Inv, TypeOK
<1>2. Asking(i, x) /\ ~Live(x) /\ UNCHANGED <<vars, own, dead>> BY DEF DataSlice, Asking
<1>3. /\ it' \in [Iter -> Iterator] /\ tidy' \in BOOLEAN /\ (tidy' => tidy)
      /\ \A j \in Iter :
           /\ Alongside(it'[j])
           /\ it'[j].on = it[j].on /\ it'[j].parts = it[j].parts /\ it'[j].moved = it[j].moved
      /\ \A y \in Slot :
           /\ Cardinality(OnIn(it', y)) = Cardinality(OnIn(it, y))
           /\ Cardinality(CurIn(it', y)) + Is(y, it[i].cur)
                = Cardinality(CurIn(it, y)) + Is(y, x)
      /\ tidy' => \A y \in Slot : Is(y, it[i].cur) = 0
  BY <1>2, AskStep
<1>4. PICK y \in Slot : y = it[i].on BY <1>1, <1>2 DEF Asking, Asked, Used, Iterator
<1>5. PICK s \in Str : s = obj[y].str BY <1>1 DEF Object
<1>6. PICK n \in Nat : n = it[i].idx + 1 /\ n \in DOMAIN it[i].parts
  <2>1. it[i].parts \in Seq(Str \X Nat) /\ it[i].idx \in Nat BY <1>1 DEF Iterator
  <2>2. it[i].idx < Len(it[i].parts) BY <1>2 DEF Asking, Valid
  <2>3. QED BY <2>1, <2>2
<1>7. PICK u \in Str, q \in Nat : Part(i) = <<u, q>>
  <2>1. it[i].parts \in Seq(Str \X Nat) BY <1>1 DEF Iterator
  <2>2. it[i].parts[n] \in Str \X Nat BY <1>6, <2>1
  <2>3. QED BY <1>6, <2>2 DEF Part
<1>8. PICK at \in Int : at = IF it[i].moved THEN Adrift ELSE q BY DEF Adrift
<1>9. Part(i)[1] = u /\ Part(i)[2] = q BY <1>7
<1>10. Address(u, q) = Base[u] + q BY DEF Address, Missing
<1>11. PICK off \in Int : off = Derived(y, Address(u, q))
  <2>1. Base[u] \in Nat /\ obj[y].start \in Int /\ obj[y].offset \in Int
    BY <1>1, AddressAssumption DEF Object
  <2>2. QED BY <1>10, <2>1 DEF Derived, Abs
<1> DEFINE new == Made(s, off, at)
<1>12. obj' = [obj EXCEPT ![x] = new] /\ rc' = [rc EXCEPT ![s] = CountNew(@)]
  BY <1>4, <1>5, <1>8, <1>9, <1>11 DEF DataSlice
<1>13. rc' = [rc EXCEPT ![s] = @ + 1]
  <2>1. CountNew(rc[s]) = rc[s] + 1 BY <1>1 DEF CountNew, CopyIn
  <2>2. QED BY <1>12, <2>1
<1>14. new \in Object /\ new.refs = 1 /\ new.str = s /\ HasString(new)
  BY <1>8, AddressAssumption DEF Made, Object, HasString, Adrift, Bare, Foreign
<1>15. Right(new)
  <2>1. CASE it[i].moved
    <3>1. at = Adrift BY <1>8, <2>1
    <3>2. QED BY <3>1 DEF Right, Made, Adrift, Missing
  <2>2. CASE ~it[i].moved
    <3>1. Live(y) BY <1>4, HeldIsLive
    <3>2. Beside(it[i], obj[y]) BY <1>2, <1>4, <2>2 DEF Inv, Iterating, Used, Asking, Asked
    <3>3. obj[y].at >= 0 /\ u = s /\ q \in DOMAIN Kids[s] /\ q > obj[y].at
      BY <1>5, <1>6, <1>7, <3>2 DEF Beside, Part
    <3>4. Found(y) BY <3>1, <3>3 DEF Found
    <3>5. PICK p \in Nat : /\ p = obj[y].at /\ Base[s] \in Nat
                           /\ obj[y].start = Base[s] + p /\ obj[y].offset = p
      BY <1>5, <3>4, InDocument
    <3>6. off = q BY <1>10, <1>11, <3>3, <3>5 DEF Derived, Abs
    <3>7. at = q BY <1>8, <2>2
    <3>8. QED BY <3>3, <3>5, <3>6, <3>7 DEF Right, Made, Missing
  <2>3. QED BY <2>1, <2>2
<1> HIDE DEF new
<1>16. /\ obj' \in [Slot -> Object] /\ rc' \in [Str -> Int] /\ obj'[x] = new
       /\ \A z \in Slot \ {x} : obj'[z] = obj[z]
  BY <1>1, <1>12, <1>13, <1>14
<1>17. TypeOK' BY <1>2, <1>3, <1>16 DEF Inv, TypeOK
<1>18. obj[x].refs = 0 /\ \A j \in Iter : it[j].on # x BY <1>2, DeadIsFree
<1>19. ASSUME NEW z \in Slot
       PROVE  \/ Held(obj', vars', it', z) = Held(obj, vars, it, z)
              \/ ~tidy' /\ Held(obj', vars', it', z) >= Held(obj, vars, it, z)
  <2>1. PICK c \in Nat : c = Cardinality(CurIn(it', z)) BY CountsType
  <2>2. PICK d \in Nat : d = Is(z, it[i].cur) BY IsType
  <2>3. PICK e \in Nat : e = Is(z, x) BY IsType
  <2>4. PICK b \in Nat : b = Cardinality(CurIn(it, z)) BY CountsType
  <2>5. c + d = b + e BY <1>3, <2>1, <2>2, <2>3, <2>4
  <2>6. obj'[z].refs = obj[z].refs + e
    <3>1. CASE z = x BY <1>14, <1>16, <1>18, <2>3, <3>1 DEF Is
    <3>2. CASE z # x
      <4>1. obj'[z] = obj[z] /\ e = 0 /\ obj[z].refs \in Nat
        BY <1>1, <1>16, <2>3, <3>2 DEF Is, Object
      <4>2. QED BY <4>1
    <3>3. QED BY <3>1, <3>2
  <2>7. Held(obj', vars', it', z) = obj'[z].refs - (vars[z] + Cardinality(OnIn(it, z)) + c)
    BY <1>2, <1>3, <2>1 DEF Held
  <2>8. Held(obj, vars, it, z) = obj[z].refs - (vars[z] + Cardinality(OnIn(it, z)) + b)
    BY <2>4 DEF Held
  <2>9. obj[z].refs \in Nat /\ vars[z] \in Nat /\ Cardinality(OnIn(it, z)) \in Nat
    BY Summands DEF Inv
  <2>10. tidy' => d = 0 BY <1>3, <2>2
  <2>11. Held(obj', vars', it', z) = Held(obj, vars, it, z) + d
    BY <2>5, <2>6, <2>7, <2>8, <2>9
  <2>12. Held(obj, vars, it, z) \in Int BY <2>8, <2>9
  <2>13. QED BY <2>10, <2>11, <2>12
<1>20. ASSUME NEW t \in Str PROVE Spare(rc', own', obj', t) = Spare(rc, own, obj, t)
  <2>1. PICK o : o = obj' OBVIOUS
  <2>2. Put(obj, o, x, new, t)
    <3>1. o = [obj EXCEPT ![x] = new] /\ new.refs > 0 BY <1>12, <1>14, <2>1
    <3>2. QED BY <1>1, <1>14, <3>1, ObjectPut
  <2>3. Cardinality(Holding(o, t)) + Holds(obj[x], t) = Cardinality(Holding(obj, t)) + Is(t, s)
    BY <1>14, <2>2 DEF Put
  <2>4. Holds(obj[x], t) = 0 BY <1>18 DEF Holds
  <2>5. rc'[t] = rc[t] + Is(t, s) BY <1>1, <1>13 DEF Is
  <2>6. /\ rc[t] \in Int /\ own[t] \in Nat /\ Cardinality(Holding(obj, t)) \in Nat
        /\ Cardinality(Holding(o, t)) \in Nat /\ Is(t, s) \in Nat
    BY <1>1, CountsType, IsType
  <2>7. Cardinality(Holding(o, t)) = Cardinality(Holding(obj, t)) + Is(t, s)
    BY <2>3, <2>4, <2>6
  <2>8. Spare(rc', own', obj', t) = rc'[t] - (own[t] + Cardinality(Holding(o, t)))
    BY <1>2, <2>1 DEF Spare
  <2>9. QED BY <2>5, <2>6, <2>7, <2>8 DEF Spare
<1>21. \A z \in Slot : obj'[z].refs > 0 =>
         /\ Right(obj'[z])
         /\ obj[z].refs = 0 \/ (obj'[z].at = obj[z].at /\ obj'[z].str = obj[z].str)
  <2>1. ASSUME NEW z \in Slot, obj'[z].refs > 0
        PROVE  /\ Right(obj'[z])
               /\ obj[z].refs = 0 \/ (obj'[z].at = obj[z].at /\ obj'[z].str = obj[z].str)
    <3>1. CASE z = x BY <1>15, <1>16, <1>18, <3>1
    <3>2. CASE z # x
      <4>1. obj'[z] = obj[z] BY <1>16, <3>2
      <4>2. Right(obj[z]) BY <2>1, <4>1, Before
      <4>3. QED BY <4>1, <4>2
    <3>3. QED BY <3>1, <3>2
  <2>2. QED BY <2>1
<1>22. QED BY <1>3, <1>17, <1>19, <1>20, <1>21, Kept

\* The constructor called again: the old string is never released, and the
\* iterators on the object lose its place.
LEMMA ReconstructStep ==
    ASSUME Inv, NEW y \in Slot, NEW s \in Str, NEW off \in Offset, Reconstruct(y, s, off)
    PROVE  Inv'
<1>1. /\ obj \in [Slot -> Object] /\ vars \in [Slot -> Nat] /\ rc \in [Str -> Int]
      /\ own \in [Str -> Nat] /\ it \in [Iter -> Iterator] /\ tidy \in BOOLEAN
  BY DEF Inv, TypeOK
<1>0. PICK at \in Int : at = Pointed(s, off) /\ at >= Adrift /\ Right(Made(s, off, at))
  BY PointedRight
<1> DEFINE new == [Made(s, off, at) EXCEPT !.refs = obj[y].refs]
<1>2. /\ Live(y) /\ UNCHANGED <<vars, own, dead>>
      /\ tidy' \in BOOLEAN /\ (tidy' => tidy /\ ~HasString(obj[y]))
      /\ obj' = [obj EXCEPT ![y] = new]
      /\ rc' = [rc EXCEPT ![s] = @ + 1]
  <2>1. CopyIn(rc[s]) = rc[s] + 1 BY DEF CopyIn
  <2>2. PICK h \in BOOLEAN : h = ~HasString(obj[y]) OBVIOUS
  <2>3. tidy' = (tidy /\ h) BY <2>2 DEF Reconstruct
  <2>4. tidy' \in BOOLEAN /\ (tidy' => tidy /\ h) BY <1>1, <2>3
  <2>5. QED BY <1>0, <2>1, <2>2, <2>4 DEF Reconstruct
<1>3. it' = [i \in Iter |-> [it[i] EXCEPT !.moved = @ \/ it[i].on = y]]
  BY DEF Reconstruct
<1>4. new \in Object /\ new.refs = obj[y].refs /\ new.str = s /\ new.refs > 0 /\ HasString(new)
  <2>1. Made(s, off, at) \in Object /\ Made(s, off, at).str = s /\ Made(s, off, at).at = at
    BY AddressAssumption DEF Made, Object
  <2>2. obj[y].refs \in Nat BY <1>1 DEF Object
  <2>3. new \in Object /\ new.refs = obj[y].refs /\ new.str = s /\ new.at = at
    BY <2>1, <2>2 DEF Object
  <2>4. HasString(new) BY <1>0, <2>3 DEF HasString, Adrift, Bare, Foreign
  <2> HIDE DEF new
  <2>5. QED BY <1>2, <2>3, <2>4 DEF Live
<1>5. Right(new) BY <1>0 DEF Right, Made
<1> HIDE DEF new
<1>6. /\ obj' \in [Slot -> Object] /\ rc' \in [Str -> Int] /\ obj'[y] = new
      /\ \A x \in Slot \ {y} : obj'[x] = obj[x]
  BY <1>1, <1>2, <1>4
<1>7. ASSUME NEW i \in Iter
      PROVE  /\ it'[i] \in Iterator /\ Alongside(it'[i])
             /\ it'[i].on = it[i].on /\ it'[i].parts = it[i].parts /\ it'[i].cur = it[i].cur
             /\ it[i].moved => it'[i].moved
             /\ it'[i].moved => it[i].moved \/ it[i].on = y
             /\ it[i].on = y => it'[i].moved
  <2>1. PICK m \in BOOLEAN : m = (it[i].moved \/ it[i].on = y) OBVIOUS
  <2>2. it'[i] = [it[i] EXCEPT !.moved = m] BY <1>3, <2>1
  <2>3. it[i] \in Iterator BY <1>1
  <2>4. /\ it'[i] \in Iterator
        /\ it'[i].on = it[i].on /\ it'[i].parts = it[i].parts /\ it'[i].cur = it[i].cur
        /\ it'[i].loop = it[i].loop /\ it'[i].read = it[i].read /\ it'[i].idx = it[i].idx
        /\ it'[i].got = it[i].got /\ it'[i].moved = m
    BY <2>2, <2>3 DEF Iterator
  <2>5. Alongside(it'[i])
    <3>1. Alongside(it[i]) BY Before
    <3>2. ASSUME it[i].on = Nobody PROVE it'[i] = Idle
      <4>1. it[i] = Idle BY <3>1, <3>2 DEF Alongside
      <4>2. Idle.moved = FALSE /\ Idle.on = Nobody BY DEF Idle
      <4>3. y # Nobody BY PlaceAssumption DEF Nobody
      <4>4. m = FALSE BY <2>1, <4>1, <4>2, <4>3
      <4>5. it'[i] = [Idle EXCEPT !.moved = FALSE] BY <2>2, <4>1, <4>4
      <4>6. QED BY <4>5 DEF Idle
    <3>3. QED BY <2>4, <3>1, <3>2 DEF Alongside
  <2>6. (it[i].moved => m) /\ (it[i].on = y => m) /\ (m => it[i].moved \/ it[i].on = y)
    BY <2>1
  <2>7. QED BY <2>4, <2>5, <2>6
<1>8. it' \in [Iter -> Iterator] BY <1>3, <1>7
<1>9. TypeOK' BY <1>2, <1>6, <1>8 DEF Inv, TypeOK
<1>10. ASSUME NEW x \in Slot PROVE Held(obj', vars', it', x) = Held(obj, vars, it, x)
  <2>1. OnIn(it', x) = OnIn(it, x) /\ CurIn(it', x) = CurIn(it, x)
    BY <1>7 DEF OnIn, CurIn
  <2>2. obj'[x].refs = obj[x].refs BY <1>4, <1>6
  <2>3. QED BY <1>2, <2>1, <2>2 DEF Held
<1>11. ASSUME NEW t \in Str
       PROVE  /\ Spare(rc', own', obj', t) = Spare(rc, own, obj, t) + Holds(obj[y], t)
              /\ Spare(rc, own, obj, t) \in Int /\ Holds(obj[y], t) \in Nat
  <2>1. PICK o : o = obj' OBVIOUS
  <2>2. Put(obj, o, y, new, t)
    <3>1. o = [obj EXCEPT ![y] = new] /\ new.refs > 0 BY <1>2, <1>4, <2>1
    <3>2. QED BY <1>1, <1>4, <3>1, ObjectPut
  <2>3. Cardinality(Holding(o, t)) + Holds(obj[y], t) = Cardinality(Holding(obj, t)) + Is(t, s)
    BY <1>4, <2>2 DEF Put
  <2>4. Holds(obj[y], t) \in Nat BY DEF Holds
  <2>5. rc'[t] = rc[t] + Is(t, s) BY <1>1, <1>2 DEF Is
  <2>6. /\ rc[t] \in Int /\ own[t] \in Nat /\ Cardinality(Holding(obj, t)) \in Nat
        /\ Cardinality(Holding(o, t)) \in Nat /\ Is(t, s) \in Nat
    BY <1>1, CountsType, IsType
  <2>7. Cardinality(Holding(o, t)) = Cardinality(Holding(obj, t)) + Is(t, s) - Holds(obj[y], t)
    BY <2>3, <2>4, <2>6
  <2>8. Spare(rc', own', obj', t) = rc'[t] - (own[t] + Cardinality(Holding(o, t)))
    BY <1>2, <2>1 DEF Spare
  <2>9. QED BY <2>4, <2>5, <2>6, <2>7, <2>8 DEF Spare
<1>12. \A x \in Slot : obj'[x].refs > 0 =>
         /\ Right(obj'[x])
         /\ \/ obj'[x].at = obj[x].at /\ obj'[x].str = obj[x].str
            \/ \A i \in Iter : it'[i].on = x => it'[i].moved
  <2>1. ASSUME NEW x \in Slot, obj'[x].refs > 0
        PROVE  /\ Right(obj'[x])
               /\ \/ obj'[x].at = obj[x].at /\ obj'[x].str = obj[x].str
                  \/ \A i \in Iter : it'[i].on = x => it'[i].moved
    <3>1. CASE x = y BY <1>5, <1>6, <1>7, <3>1
    <3>2. CASE x # y
      <4>1. obj'[x] = obj[x] BY <1>6, <3>2
      <4>2. Right(obj[x]) BY <2>1, <4>1, Before
      <4>3. QED BY <4>1, <4>2
    <3>3. QED BY <3>1, <3>2
  <2>2. QED BY <2>1
<1>13. ASSUME NEW t \in Str
       PROVE  \/ Spare(rc', own', obj', t) = Spare(rc, own, obj, t)
              \/ ~tidy' /\ Spare(rc', own', obj', t) >= Spare(rc, own, obj, t)
  <2>1. PICK h \in Nat : h = Holds(obj[y], t) BY <1>11
  <2>2. PICK a \in Int : a = Spare(rc, own, obj, t) BY <1>11
  <2>3. PICK b : b = Spare(rc', own', obj', t) OBVIOUS
  <2>4. b = a + h BY <1>11, <2>1, <2>2, <2>3
  <2>5. CASE HasString(obj[y])
    <3>1. ~tidy' BY <1>2, <2>5
    <3>2. b >= a BY <2>4
    <3>3. QED BY <2>2, <2>3, <3>1, <3>2
  <2>6. CASE ~HasString(obj[y])
    <3>1. h = 0 BY <2>1, <2>6 DEF Holds
    <3>2. b = a BY <2>4, <3>1
    <3>3. QED BY <2>2, <2>3, <3>2
  <2>7. QED BY <2>5, <2>6
<1>14. ASSUME NEW i \in Iter, it'[i].moved, ~it[i].moved, NEW k \in DOMAIN it'[i].parts
       PROVE  Spare(rc', own', obj', it'[i].parts[k][1]) >= 1
  <2>1. it[i].on = y /\ it'[i].parts = it[i].parts /\ y # Nobody
    BY <1>7, <1>14, PlaceAssumption DEF Nobody
  <2>2. Beside(it[i], obj[y]) BY <1>14, <2>1 DEF Inv, Iterating, Used
  <2>3. PICK t \in Str : t = obj[y].str BY <1>1 DEF Object
  <2>4. it'[i].parts[k][1] = t BY <1>14, <2>1, <2>2, <2>3 DEF Beside
  <2>5. Holds(obj[y], t) = 1
    BY <1>2, <2>2, <2>3 DEF Beside, Holds, Live, HasString, Bare, Foreign
  <2>6. Spare(rc, own, obj, t) >= 0
    <3>1. rc[t] >= own[t] + Cardinality(Holding(obj, t)) BY DEF Inv, StringsCounted
    <3>2. rc[t] \in Int /\ own[t] \in Nat /\ Cardinality(Holding(obj, t)) \in Nat
      BY Summands DEF Inv
    <3>3. QED BY <3>1, <3>2 DEF Spare
  <2>7. QED BY <1>11, <2>4, <2>5, <2>6
<1>15. QED BY <1>2, <1>7, <1>9, <1>10, <1>12, <1>13, <1>14, Kept

\* An object without a string.
LEMMA StringlessStep ==
    ASSUME Inv, NEW x \in Slot, NEW at \in {Bare, Foreign}, Stringless(x, at)
    PROVE  Inv'
<1>1. /\ obj \in [Slot -> Object] /\ vars \in [Slot -> Nat] /\ rc \in [Str -> Int]
      /\ own \in [Str -> Nat] /\ it \in [Iter -> Iterator]
  BY DEF Inv, TypeOK
<1> DEFINE new == [Free EXCEPT !.refs = 1, !.at = at]
<1>2. /\ ~Live(x) /\ obj' = [obj EXCEPT ![x] = new] /\ vars' = [vars EXCEPT ![x] = 1]
      /\ UNCHANGED <<rc, own, it, tidy, dead>>
  BY DEF Stringless
<1>3. new \in Object /\ new.refs = 1 /\ new.at = at
  <2>1. PICK f \in Object : f = Free BY FreeType
  <2>2. at \in Int BY DEF Bare, Foreign
  <2>3. new = [f EXCEPT !.refs = 1, !.at = at] BY <2>1
  <2> HIDE DEF new
  <2>4. QED BY <2>1, <2>2, <2>3 DEF Object
<1> HIDE DEF new
<1>4. ~HasString(new) /\ Right(new)
  BY <1>3 DEF HasString, Right, Bare, Foreign, Missing
<1>5. /\ obj' \in [Slot -> Object] /\ vars' \in [Slot -> Nat] /\ obj'[x] = new /\ vars'[x] = 1
      /\ \A y \in Slot \ {x} : obj'[y] = obj[y] /\ vars'[y] = vars[y]
  BY <1>1, <1>2, <1>3
<1>6. TypeOK' BY <1>2, <1>5 DEF Inv, TypeOK
<1>7. /\ obj[x].refs = 0 /\ vars[x] = 0
      /\ Cardinality(OnIn(it, x)) = 0 /\ Cardinality(CurIn(it, x)) = 0
  BY <1>2, DeadIsFree
<1>8. ASSUME NEW y \in Slot PROVE Held(obj', vars', it', y) = Held(obj, vars, it, y)
  <2>1. CASE y = x BY <1>2, <1>3, <1>5, <1>7, <2>1 DEF Held
  <2>2. CASE y # x BY <1>2, <1>5, <2>2 DEF Held
  <2>3. QED BY <2>1, <2>2
<1>9. ASSUME NEW s \in Str PROVE Spare(rc', own', obj', s) = Spare(rc, own, obj, s)
  <2>1. Holding(obj', s) = Holding(obj, s) BY <1>4, <1>5, <1>7 DEF Holding
  <2>2. QED BY <1>2, <2>1 DEF Spare
<1>10. \A y \in Slot : obj'[y].refs > 0 =>
         /\ Right(obj'[y])
         /\ obj[y].refs = 0 \/ (obj'[y].at = obj[y].at /\ obj'[y].str = obj[y].str)
  BY <1>4, <1>5, <1>7, Before
<1>11. \A i \in Iter : Alongside(it'[i]) BY <1>2, Before
<1>12. QED BY <1>2, <1>6, <1>8, <1>9, <1>10, <1>11, Kept

-----------------------------------------------------------------------------
LEMMA NextInv == Inv /\ [Next]_state => Inv'
<1> SUFFICES ASSUME Inv, [Next]_state PROVE Inv' OBVIOUS
<1>1. CASE UNCHANGED state
  BY <1>1 DEF state, Inv, TypeOK, ObjectsCounted, StringsCounted, LeftBehind, Values, Iterating,
              Live, Used, OnIn, CurIn, Holding, Spare
<1>2. CASE \E s \in Str : TakeString(s) \/ UnsetString(s) BY <1>2, StringStep
<1>3. CASE \/ \E x \in Slot, s \in Str, off \in Offset : Construct(x, s, off)
           \/ \E x \in Slot, s \in Str : \E p \in DOMAIN Kids[s] : SliceForCallback(x, s, p)
  BY <1>3, CreateStep
<1>4. CASE \E x \in Slot, s \in Str, off \in Offset : Reconstruct(x, s, off)
  BY <1>4, ReconstructStep
<1>5. CASE \E x, y \in Slot : NavigateMissing(x, y) \/ ValueTagged(x, y)
  BY <1>5, CreateStep
<1>19. CASE \E x, y \in Slot : NewBare(x) \/ Clone(x, y)
  BY <1>19, StringlessStep DEF NewBare, Clone
<1>6. CASE \E x, y \in Slot : Found(y) /\ \E k \in DOMAIN Parts(y) : Navigate(x, y, k)
  BY <1>6, CreateStep
<1>7. CASE \E y \in Slot : Share(y)
  <2>1. PICK y \in Slot : Share(y) BY <1>7
  <2>2. QED BY <2>1, ShareStep DEF Share
<1>8. CASE \E y \in Slot : Unset(y) BY <1>8, UnsetStep
<1>9. CASE \E i \in Iter, y \in Slot, loop \in BOOLEAN : Begin(i, y, loop)
  BY <1>9, BeginStep
<1>10. CASE \/ \E i \in Iter : DataThrows(i)
            \/ \E y \in Slot : Misuse(y) \/ BeginFails(y)
  <2>1. dead' = TRUE /\ UNCHANGED <<obj, vars, rc, own, it, tidy>>
    BY <1>10 DEF DataThrows, Misuse, BeginFails
  <2>2. QED BY <2>1 DEF Inv, TypeOK, ObjectsCounted, StringsCounted, LeftBehind, Values,
                        Iterating, Live, Used, OnIn, CurIn, Holding, Spare
<1>11. CASE \E i \in Iter : DataScalar(i) BY <1>11, ScalarStep
<1>12. CASE \E i \in Iter : Assign(i)
  <2>1. PICK i \in Iter : Assign(i) BY <1>12
  <2>2. PICK x \in Slot : x = it[i].cur BY <2>1 DEF Assign, Inv, TypeOK, Iterator
  <2>3. Live(x) BY <2>2, HeldIsLive
  <2>4. /\ obj' = [obj EXCEPT ![x].refs = @ + 1] /\ vars' = [vars EXCEPT ![x] = @ + 1]
        /\ UNCHANGED <<rc, own, it, tidy, dead>>
    BY <2>1, <2>2 DEF Assign
  <2>5. QED BY <2>3, <2>4, ShareStep
<1>13. CASE \E i \in Iter : MoveForwards(i) \/ Rewind(i) BY <1>13, MoveStep
<1>14. CASE \E i \in Iter : End(i) BY <1>14, EndStep
<1>15. CASE \E i \in Iter, x \in Slot : DataSlice(i, x) BY <1>15, SliceStep
<1>16. CASE Objects
  BY <1>16, <1>2, <1>3, <1>4, <1>5, <1>6, <1>7, <1>8, <1>10, <1>19 DEF Objects
<1>17. CASE Iterators
  BY <1>17, <1>9, <1>10, <1>11, <1>12, <1>13, <1>14, <1>15 DEF Iterators
<1>18. QED BY <1>1, <1>16, <1>17 DEF Next

LEMMA AlwaysInv == Spec => []Inv
BY InitInv, NextInv, PTL DEF Spec

\* Types: of objects, iterators, counts.
THEOREM TypeCorrect == Spec => []TypeOK
<1>1. Inv => TypeOK BY DEF Inv
<1>2. QED BY <1>1, AlwaysInv, PTL

\* Whatever is navigated, iterated or constructed again, in whatever order: an
\* object points at the value it was made for (Slice.cpp, new_slice_ref_slice).
THEOREM ObjectsPoint == Spec => []PointsAtValue
<1>1. Inv => PointsAtValue BY DEF Inv, Values, Right, PointsAtValue, Found
<1>2. QED BY <1>1, AlwaysInv, PTL

\* The object for a missing key reads None, where None is above the strings.
THEOREM MissingIsNone == Spec => []MissingReadsNone
<1>1. Inv => MissingReadsNone BY DEF Inv, Values, Right, MissingReadsNone
<1>2. QED BY <1>1, AlwaysInv, PTL

\* Nothing is freed that is held: for any number of variables, objects,
\* iterators and elements, and any re-construction; the string of an iterator
\* whose object has another one by now included.
THEOREM HeldIsKept == Spec => []NeverEarly
<1>1. Inv => NeverEarly
  <2> SUFFICES ASSUME Inv PROVE NeverEarly OBVIOUS
  <2>1. \A x \in Slot : obj[x].refs >= vars[x] + OnObject(x)
    BY Summands DEF Inv, ObjectsCounted, OnObject, OnIn, CurIn
  <2>2. ASSUME NEW s \in Str
        PROVE  rc[s] >= own[s] + OnString(s) + (IF Stranded(s) THEN 1 ELSE 0)
    <3>1. /\ rc[s] \in Int /\ own[s] \in Nat /\ Cardinality(Holding(obj, s)) \in Nat
          /\ OnString(s) = Cardinality(Holding(obj, s))
      BY Summands DEF Inv, OnString, Holding, Live
    <3>2. CASE Stranded(s)
      <4>1. Spare(rc, own, obj, s) >= 1 BY <3>2 DEF Stranded, Inv, LeftBehind
      <4>2. QED BY <3>1, <3>2, <4>1 DEF Spare
    <3>3. CASE ~Stranded(s)
      <4>1. rc[s] >= own[s] + Cardinality(Holding(obj, s)) BY DEF Inv, StringsCounted
      <4>2. QED BY <3>1, <3>3, <4>1
    <3>4. QED BY <3>2, <3>3
  <2>3. QED BY <2>1, <2>2 DEF NeverEarly
<1>2. QED BY <1>1, AlwaysInv, PTL

\* And nothing leaks from a tidy script.
THEOREM TidyIsExact == Spec => []ExactWhenTidy
<1>1. Inv => ExactWhenTidy
  BY Summands DEF Inv, ObjectsCounted, StringsCounted, ExactWhenTidy, OnObject, OnString,
                  OnIn, CurIn, Holding, Live
<1>2. QED BY <1>1, AlwaysInv, PTL

\* A foreach delivers the table it began with, in order, each element once.
THEOREM ForeachInOrder == Spec => []InOrder
<1>1. Inv => InOrder BY DEF Inv, Iterating, Alongside, InOrder
<1>2. QED BY <1>1, AlwaysInv, PTL
=============================================================================
