--------------------------- MODULE RoundTrip_proofs ---------------------------
(* What comes back, for all values.  A trip is one operator on nodes, Back,    *)
(* applied to every part, so what is proved of it are facts about one table:   *)
(* of which entries it keeps the keys, and that the third time it changes     *)
(* nothing.                                                                  *)
EXTENDS RoundTrip, Foundations

\* What a trip makes of a node.
Back(x) == DeserNode(SerNode(x))
BackAll(v) == [p \in DOMAIN v |-> Back(v[p])]
Negative(x) == x.kind = "long" /\ x.n < 0
Thrown(v) == \E p \in DOMAIN v : Negative(v[p])

\* The inductive invariant: where the values and the document of the last trip
\* come from.
Course ==
    /\ IsValue(orig) /\ trips \in 0..MaxTrips /\ out \in {"ok", "thrown"}
    /\ trips = 0 => out = "ok" /\ cur = orig /\ prev = orig
    /\ trips > 0 => doc = Ser(prev) /\ (out = "thrown" <=> Thrown(orig))
    /\ out = "thrown" => cur = orig /\ prev = orig
    /\ (trips > 0 /\ out = "ok") =>
         /\ cur = BackAll(prev)
         /\ trips = 1 => prev = orig
         /\ trips = 2 => prev = BackAll(orig)
         /\ trips >= 3 => prev = BackAll(BackAll(orig))

-----------------------------------------------------------------------------
(* Numbers.                                                                 *)

LEMMA Half ==
    /\ LongMod \in Nat \ {0} /\ LongMod \div 2 \in Nat \ {0}
    /\ LongMod = (LongMod \div 2) + (LongMod \div 2)
<1>1. PICK n \in 1..LongMod : LongMod = 2 * n
  BY LongAssumption
<1>2. LongMod \in Int /\ n \in Int
  <2>1. CASE LongMod \in Int
    BY <2>1
  <2>2. CASE LongMod \notin Int
    BY <1>1, <2>2
  <2> QED BY <2>1, <2>2
<1>3. n >= 1 /\ n <= LongMod
  BY <1>1, <1>2
<1>4. LongMod \div 2 = n
  <2>1. \A k \in Int : (2 * k) \div 2 = k
    OBVIOUS
  <2> QED BY <1>1, <1>2, <2>1
<1> QED BY <1>1, <1>2, <1>3, <1>4

\* An unsigned number is the long, or no long and gives it back.
LEMMA Wrap ==
    ASSUME NEW n \in Long
    PROVE  /\ n \in Int /\ Unsigned(n) \in Int
           /\ n >= 0 => Unsigned(n) = n /\ ~NoLong(Unsigned(n))
           /\ n < 0 => NoLong(Unsigned(n))
           /\ GetUInt(Unsigned(n)) = n
<1> DEFINE h == LongMod \div 2
<1>1. h \in Nat \ {0} /\ LongMod = h + h /\ LongMod \in Nat \ {0}
  BY Half
<1>2. n \in Int /\ -h <= n /\ n < h
  <2>1. n \in -h..h - 1
    BY DEF Long
  <2> HIDE DEF h
  <2> QED BY <1>1, <2>1
<1>3. Unsigned(n) = IF n < 0 THEN n + LongMod ELSE n
  <2>1. \A k \in Int, m \in Nat \ {0} : k \in 0..(m - 1) => k % m = k
    OBVIOUS
  <2>2. \A k \in Int, m \in Nat \ {0} : k + m \in 0..(m - 1) => k % m = k + m
    <3> SUFFICES ASSUME NEW k \in Int, NEW m \in Nat \ {0}, k + m \in 0..(m - 1)
                 PROVE  k % m = k + m
      OBVIOUS
    <3>1. k = -1 * m + (k + m)
      OBVIOUS
    <3> QED BY <3>1
  <2> HIDE DEF h
  <2>3. n < 0 => n + LongMod \in 0..(LongMod - 1)
    BY <1>1, <1>2
  <2>4. ~(n < 0) => n \in 0..(LongMod - 1)
    BY <1>1, <1>2
  <2> QED BY <1>1, <1>2, <2>1, <2>2, <2>3, <2>4 DEF Unsigned
<1> DEFINE u == Unsigned(n)
<1>4. u = IF n < 0 THEN n + LongMod ELSE n
  BY <1>3
<1>5. NoLong(u) <=> u >= h
  BY DEF NoLong
<1>6. GetUInt(u) = IF NoLong(u) THEN u - LongMod ELSE u
  BY DEF GetUInt
<1> HIDE DEF h, u
<1>7. /\ u \in Int /\ (n >= 0 => u = n /\ ~NoLong(u)) /\ (n < 0 => NoLong(u))
      /\ GetUInt(u) = n
  BY <1>1, <1>2, <1>4, <1>5, <1>6
<1> QED BY <1>2, <1>7 DEF u

-----------------------------------------------------------------------------
(* Texts and keys.                                                          *)

\* The texts of a set, sorted, are its texts, each once.
LEMMA Sorting ==
    ASSUME NEW T \in SUBSET Text
    PROVE  /\ Cardinality(T) \in Nat /\ Sorted(T) \in Seq(T)
           /\ Len(Sorted(T)) = Cardinality(T)
           /\ \A t \in T : \E k \in DOMAIN Sorted(T) : Sorted(T)[k] = t
           /\ \A k, l \in DOMAIN Sorted(T) : Sorted(T)[k] = Sorted(T)[l] => k = l
<1> DEFINE I == {i \in DOMAIN Order : Order[i] \in T}
           f == [i \in I |-> Order[i]]
           n == Cardinality(T)
<1>1. DOMAIN Order = 1..Len(Order) /\ Len(Order) \in Nat
  BY TextAssumption
<1>2. I \in SUBSET Nat /\ IsFiniteSet(I)
  <2>1. IsFiniteSet(DOMAIN Order)
    <3>1. 1 \in Int /\ Len(Order) \in Int
      BY <1>1
    <3> QED BY <1>1, <3>1, FS_Interval
  <2>2. I \in SUBSET DOMAIN Order
    OBVIOUS
  <2>3. DOMAIN Order \subseteq Nat
    BY <1>1
  <2> HIDE DEF I
  <2> QED BY <2>1, <2>2, <2>3, FS_Subset
<1>3. Cardinality(I) = n /\ n \in Nat
  <2>1. \A t \in T : \E i \in I : Order[i] = t
    BY DEF Text, Range
  <2>2. \A i, j \in I : Order[i] = Order[j] => i = j
    BY TextAssumption DEF IsInjective
  <2>3. f \in Bijection(I, T)
    BY <2>1, <2>2 DEF Bijection, Injection, Surjection, IsInjective
  <2>4. ExistsBijection(I, T)
    BY <2>3 DEF ExistsBijection
  <2> HIDE DEF I
  <2> QED BY <1>2, <2>4, FS_Bijection, FS_CardinalityType
<1>4. ASSUME NEW i \in I PROVE Cardinality(Before(T, i)) = Rank(I, i)
  <2>1. Before(T, i) = {j \in I : j < i}
    BY DEF Before
  <2> QED BY <2>1 DEF Rank
<1> DEFINE At1(k) == CHOOSE i \in DOMAIN Order : Order[i] \in T /\ Cardinality(Before(T, i)) = k - 1
<1>5. ASSUME NEW k \in 1..n
      PROVE  At1(k) \in I /\ Rank(I, At1(k)) = k - 1
  <2>1. k - 1 \in 0..(Cardinality(I) - 1)
    <3> HIDE DEF I, n
    <3> QED BY <1>3
  <2>2. PICK i \in I : Rank(I, i) = k - 1
    <3> HIDE DEF I
    <3> QED BY <1>2, <2>1, Ranks
  <2>3. i \in DOMAIN Order /\ Order[i] \in T /\ Cardinality(Before(T, i)) = k - 1
    BY <1>4, <2>2
  <2>4. /\ At1(k) \in DOMAIN Order /\ Order[At1(k)] \in T
        /\ Cardinality(Before(T, At1(k))) = k - 1
    BY <2>3
  <2> HIDE DEF At1
  <2> QED BY <1>4, <2>4
<1>6. \A k \in 1..n : Sorted(T)[k] = Order[At1(k)]
  BY DEF Sorted
<1>7. DOMAIN Sorted(T) = 1..n
  BY DEF Sorted
<1> HIDE DEF At1
<1>8. \A k \in 1..n : Sorted(T)[k] \in T
  BY <1>5, <1>6
<1>9. Sorted(T) \in Seq(T) /\ Len(Sorted(T)) = n
  <2>1. Sorted(T) = [k \in 1..n |-> Sorted(T)[k]]
    BY <1>7 DEF Sorted
  <2>2. Sorted(T) \in [1..n -> T]
    <3> HIDE DEF n
    <3> QED BY <1>8, <2>1
  <2> HIDE DEF n
  <2> QED BY <1>3, <1>7, <2>2
<1>10. ASSUME NEW t \in T PROVE \E k \in 1..n : Sorted(T)[k] = t
  <2>1. PICK i \in I : Order[i] = t
    BY DEF Text, Range
  <2>2. Rank(I, i) \in 0..(Cardinality(I) - 1)
    <3> HIDE DEF I
    <3> QED BY <1>2, Ranks
  <2>3. Rank(I, i) + 1 \in 1..n /\ (Rank(I, i) + 1) - 1 = Rank(I, i)
    <3> HIDE DEF I, n
    <3> QED BY <1>3, <2>2
  <2>4. At1(Rank(I, i) + 1) = i
    <3>1. At1(Rank(I, i) + 1) \in I /\ Rank(I, At1(Rank(I, i) + 1)) = Rank(I, i)
      BY <1>5, <2>3
    <3> HIDE DEF I
    <3>2. \A a, b \in I : Rank(I, a) = Rank(I, b) => a = b
      BY <1>2, Ranks
    <3> QED BY <3>1, <3>2
  <2> QED BY <1>6, <2>1, <2>3, <2>4
<1>11. ASSUME NEW k \in 1..n, NEW l \in 1..n, Sorted(T)[k] = Sorted(T)[l] PROVE k = l
  <2>1. At1(k) = At1(l)
    <3>1. Order[At1(k)] = Order[At1(l)]
      BY <1>6, <1>11
    <3>2. At1(k) \in DOMAIN Order /\ At1(l) \in DOMAIN Order
      BY <1>5
    <3> QED BY <3>1, <3>2, TextAssumption DEF IsInjective
  <2>2. k - 1 = l - 1
    BY <1>5, <2>1
  <2>3. k \in Int /\ l \in Int
    OBVIOUS
  <2> QED BY <2>2, <2>3
<1> QED BY <1>3, <1>7, <1>9, <1>10, <1>11

\* The key of an array comes back from its text, and the text from its key;
\* the keys of a table have different texts.
LEMMA Keys ==
    /\ \A k \in Key : KeyText(k) \in Text
    /\ \A t \in Text : KeyPart(t) \in Key /\ KeyOf("array", KeyPart(t)) /\ KeyText(KeyPart(t)) = t
    /\ \A k \in Key : KeyOf("array", k) => KeyPart(KeyText(k)) = k
    /\ \A k, l \in Key : ~k.long /\ ~l.long /\ KeyText(k) = KeyText(l) => k = l
    /\ \A t \in Text : KeyPart(t).long <=> t \in DOMAIN IntOf
    /\ \A n \in Number : IntKey(n) \in Key /\ KeyOf("array", IntKey(n)) /\ IntKey(n).long
<1>1. \A k \in Key : \/ \E n \in Number : k = IntKey(n)
                     \/ \E t \in Text : k = NameKey(t)
  BY DEF Key
<1>2. ASSUME NEW n \in Number
      PROVE  /\ KeyText(IntKey(n)) \in DOMAIN IntOf /\ IntOf[KeyText(IntKey(n))] = n
             /\ IntKey(n).long /\ KeyOf("array", IntKey(n)) /\ IntKey(n) \in Key
  <2>1. \E t \in DOMAIN IntOf : IntOf[t] = n
    BY DEF Number, Range
  <2>2. KeyText(IntKey(n)) = CHOOSE t \in DOMAIN IntOf : IntOf[t] = n
    BY DEF KeyText, IntKey
  <2>3. KeyText(IntKey(n)) \in DOMAIN IntOf /\ IntOf[KeyText(IntKey(n))] = n
    BY <2>1, <2>2
  <2>4. IntKey(n).long /\ KeyOf("array", IntKey(n)) /\ IntKey(n) \in Key
    BY DEF IntKey, KeyOf, Key
  <2> QED BY <2>3, <2>4
<1>3. ASSUME NEW t \in Text
      PROVE  /\ KeyText(NameKey(t)) = t /\ ~NameKey(t).long /\ NameKey(t) \in Key
             /\ KeyOf("array", NameKey(t)) <=> t \notin DOMAIN IntOf
  BY DEF KeyText, NameKey, KeyOf, Key
<1>4. DOMAIN IntOf \subseteq Text
  BY TextAssumption
<1>5. \A t, u \in DOMAIN IntOf : IntOf[t] = IntOf[u] => t = u
  BY TextAssumption DEF IsInjective
<1>6. \A t \in DOMAIN IntOf : IntOf[t] \in Number
  BY DEF Number, Range
<1>7. \A k \in Key : KeyText(k) \in Text
  BY <1>1, <1>2, <1>3, <1>4
<1>8. ASSUME NEW t \in Text
      PROVE  /\ KeyPart(t) \in Key /\ KeyOf("array", KeyPart(t)) /\ KeyText(KeyPart(t)) = t
             /\ KeyPart(t).long <=> t \in DOMAIN IntOf
  <2>1. CASE t \in DOMAIN IntOf
    <3>1. KeyPart(t) = IntKey(IntOf[t]) /\ IntOf[t] \in Number
      BY <1>6, <2>1 DEF KeyPart
    <3> QED BY <1>2, <1>5, <2>1, <3>1
  <2>2. CASE t \notin DOMAIN IntOf
    BY <1>3, <2>2 DEF KeyPart
  <2> QED BY <2>1, <2>2
<1>9. ASSUME NEW k \in Key, KeyOf("array", k) PROVE KeyPart(KeyText(k)) = k
  <2>1. CASE \E n \in Number : k = IntKey(n)
    BY <1>2, <2>1 DEF KeyPart
  <2>2. CASE \E t \in Text : k = NameKey(t)
    BY <1>3, <1>9, <2>2 DEF KeyPart
  <2> QED BY <1>1, <2>1, <2>2
<1>10. \A k, l \in Key : ~k.long /\ ~l.long /\ KeyText(k) = KeyText(l) => k = l
  BY <1>1, <1>2, <1>3
<1> QED BY <1>2, <1>7, <1>8, <1>9, <1>10

-----------------------------------------------------------------------------
(* Tables.                                                                  *)

\* What a node is made of.
LEMMA NodeType ==
    ASSUME NEW x, IsNode(x)
    PROVE  /\ x.entries \in Seq(Entry) /\ Len(x.entries) \in Nat
           /\ DOMAIN x.entries = 1..Len(x.entries)
           /\ x.kind \in Scalars \cup Tables /\ x.n \in Int /\ x.cursor \in 0..Len(x.entries)
           /\ x = Node(x.kind, x.n, x.entries, x.cursor)
           /\ \A i \in DOMAIN x.entries :
                /\ x.entries[i] \in Entry /\ x.entries[i].key \in Key /\ x.entries[i].at \in Nat
                /\ x.entries[i] = [key |-> x.entries[i].key, at |-> x.entries[i].at]
                /\ KeyOf(x.kind, x.entries[i].key)
                /\ x.kind \in Tables
<1>1. x \in [kind : Scalars \cup Tables, n : Int, entries : Seq(Entry), cursor : Nat]
  BY DEF IsNode
<1>2. x.entries \in Seq(Entry) /\ Len(x.entries) \in Nat /\ DOMAIN x.entries = 1..Len(x.entries)
  BY <1>1
<1>3. /\ x.kind \in Scalars \cup Tables /\ x.n \in Int /\ x.cursor \in 0..Len(x.entries)
      /\ x = Node(x.kind, x.n, x.entries, x.cursor)
  BY <1>1, <1>2 DEF IsNode, Node
<1>4. ASSUME NEW i \in DOMAIN x.entries
      PROVE  /\ x.entries[i] \in Entry /\ KeyOf(x.kind, x.entries[i].key)
             /\ x.kind \in Tables
  <2>1. x.entries[i] \in Entry /\ KeyOf(x.kind, x.entries[i].key)
    BY <1>2 DEF IsNode
  <2>2. x.kind \in Tables
    BY <2>1 DEF KeyOf, Tables
  <2> QED BY <2>1, <2>2
<1>5. \A e \in Entry : e.key \in Key /\ e.at \in Nat /\ e = [key |-> e.key, at |-> e.at]
  BY DEF Entry
<1> QED BY <1>2, <1>3, <1>4, <1>5

\* The entries of a table have different texts, which stand for their places.
LEMMA TextKeys ==
    ASSUME NEW x, IsNode(x)
    PROVE  /\ Texts(x.entries) \in SUBSET Text
           /\ \A i, j \in DOMAIN x.entries :
                KeyText(x.entries[i].key) = KeyText(x.entries[j].key) => i = j
           /\ \A i \in DOMAIN x.entries :
                /\ KeyText(x.entries[i].key) \in Texts(x.entries)
                /\ PlaceOf(x.entries, KeyText(x.entries[i].key)) = x.entries[i].at
           /\ \A t \in Texts(x.entries) :
                \E i \in DOMAIN x.entries : t = KeyText(x.entries[i].key)
           /\ Cardinality(Texts(x.entries)) = Len(x.entries)
<1> DEFINE e == x.entries
           T == Texts(e)
<1>1. \A i \in DOMAIN e : KeyText(e[i].key) \in T
  BY DEF Texts, Range
<1>2. \A t \in T : \E i \in DOMAIN e : t = KeyText(e[i].key)
  BY DEF Texts, Range
<1>3. T \in SUBSET Text
  BY <1>2, NodeType, Keys
<1>4. ASSUME NEW i \in DOMAIN e, NEW j \in DOMAIN e, KeyText(e[i].key) = KeyText(e[j].key)
      PROVE  i = j
  <2>1. e[i].key = e[j].key
    <3>1. CASE x.kind = "array"
      <4>1. KeyOf("array", e[i].key) /\ KeyOf("array", e[j].key)
        BY <3>1, NodeType
      <4>2. e[i].key \in Key /\ e[j].key \in Key
        BY NodeType
      <4> HIDE DEF e
      <4> QED BY <1>4, <4>1, <4>2, Keys
    <3>2. CASE x.kind = "plain"
      <4>1. ~e[i].key.long /\ ~e[j].key.long
        BY <3>2, NodeType DEF KeyOf
      <4>2. e[i].key \in Key /\ e[j].key \in Key
        BY NodeType
      <4> HIDE DEF e
      <4> QED BY <1>4, <4>1, <4>2, Keys
    <3> QED BY <3>1, <3>2, NodeType DEF Tables
  <2> QED BY <2>1 DEF IsNode
<1>5. ASSUME NEW i \in DOMAIN e PROVE PlaceOf(e, KeyText(e[i].key)) = e[i].at
  <2> DEFINE c == CHOOSE f \in Range(e) : KeyText(f.key) = KeyText(e[i].key)
  <2>1. e[i] \in Range(e)
    BY DEF Range
  <2>2. c \in Range(e) /\ KeyText(c.key) = KeyText(e[i].key)
    <3> HIDE DEF e
    <3> QED BY <2>1
  <2>3. PICK j \in DOMAIN e : c = e[j]
    <3> HIDE DEF c
    <3> QED BY <2>2 DEF Range
  <2>4. c = e[i]
    <3> HIDE DEF c, e
    <3> QED BY <1>4, <2>2, <2>3
  <2> QED BY <2>4 DEF PlaceOf
<1>6. Cardinality(T) = Len(e)
  <2> DEFINE f == [i \in 1..Len(e) |-> KeyText(e[i].key)]
  <2>1. Len(e) \in Nat /\ DOMAIN e = 1..Len(e)
    BY NodeType
  <2> HIDE DEF e
  <2>2. f \in Bijection(1..Len(e), T)
    BY <1>1, <1>2, <1>4, <2>1 DEF Bijection, Injection, Surjection, IsInjective
  <2>3. ExistsBijection(1..Len(e), T)
    BY <2>2 DEF ExistsBijection
  <2> HIDE DEF f, T
  <2> QED BY <2>1, <2>3, FS_CountingElements
<1> QED BY <1>1, <1>2, <1>3, <1>4, <1>5, <1>6

\* The array made of an object has its entries, with the keys their texts are.
IsNamed(a, e) ==
    /\ a \in Seq(Entry) /\ Len(a) = Len(e)
    /\ \A i \in DOMAIN a : \E j \in DOMAIN e :
         a[i] = [key |-> KeyPart(KeyText(e[j].key)), at |-> e[j].at]
    /\ \A j \in DOMAIN e : \E i \in DOMAIN a :
         a[i] = [key |-> KeyPart(KeyText(e[j].key)), at |-> e[j].at]
    /\ \A i, j \in DOMAIN a : a[i].key = a[j].key \/ a[i].at = a[j].at => i = j
    /\ \A i \in DOMAIN a : KeyOf("array", a[i].key)
    /\ Texts(a) = Texts(e)
    /\ a = [i \in DOMAIN Sorted(Texts(e)) |->
              [key |-> KeyPart(Sorted(Texts(e))[i]), at |-> PlaceOf(e, Sorted(Texts(e))[i])]]

LEMMA Named ==
    ASSUME NEW x, IsNode(x)
    PROVE  IsNamed(AsNamed(ObjectItems(x.entries)), x.entries)
<1> DEFINE e == x.entries
           T == Texts(e)
           s == Sorted(T)
           a == AsNamed(ObjectItems(e))
<1>1. /\ T \in SUBSET Text
      /\ \A i, j \in DOMAIN e : KeyText(e[i].key) = KeyText(e[j].key) => i = j
      /\ \A i \in DOMAIN e : KeyText(e[i].key) \in T /\ PlaceOf(e, KeyText(e[i].key)) = e[i].at
      /\ \A t \in T : \E i \in DOMAIN e : t = KeyText(e[i].key)
      /\ Cardinality(T) = Len(e)
  BY TextKeys
<1>2. /\ DOMAIN e = 1..Len(e) /\ Len(e) \in Nat
      /\ \A i \in DOMAIN e : e[i].at \in Nat
      /\ \A i, j \in DOMAIN e : e[i].at = e[j].at => i = j
  BY NodeType DEF IsNode
<1>3. a = [i \in DOMAIN s |-> [key |-> KeyPart(s[i]), at |-> PlaceOf(e, s[i])]]
  BY DEF AsNamed, ObjectItems, Item
<1> HIDE DEF e, T, a
<1>4. /\ s \in Seq(T) /\ Len(s) = Len(e) /\ DOMAIN s = 1..Len(e)
      /\ \A t \in T : \E k \in DOMAIN s : s[k] = t
      /\ \A k, l \in DOMAIN s : s[k] = s[l] => k = l
  <2>1. /\ s \in Seq(T) /\ Len(s) = Len(e)
        /\ \A t \in T : \E k \in DOMAIN s : s[k] = t
        /\ \A k, l \in DOMAIN s : s[k] = s[l] => k = l
    BY <1>1, Sorting
  <2> HIDE DEF s
  <2> QED BY <2>1
<1> HIDE DEF s
<1>5. ASSUME NEW i \in DOMAIN s
      PROVE  \E j \in DOMAIN e :
                /\ s[i] = KeyText(e[j].key)
                /\ a[i] = [key |-> KeyPart(KeyText(e[j].key)), at |-> e[j].at]
                /\ a[i].at = e[j].at
  <2>1. s[i] \in T
    BY <1>4
  <2>2. PICK j \in DOMAIN e : s[i] = KeyText(e[j].key)
    BY <1>1, <2>1
  <2>3. a[i] = [key |-> KeyPart(s[i]), at |-> PlaceOf(e, s[i])]
    BY <1>3
  <2> QED BY <1>1, <2>2, <2>3
<1>6. ASSUME NEW j \in DOMAIN e
      PROVE  \E i \in DOMAIN s : a[i] = [key |-> KeyPart(KeyText(e[j].key)), at |-> e[j].at]
  <2>1. PICK i \in DOMAIN s : s[i] = KeyText(e[j].key)
    BY <1>1, <1>4
  <2>2. a[i] = [key |-> KeyPart(s[i]), at |-> PlaceOf(e, s[i])]
    BY <1>3
  <2> QED BY <1>1, <2>1, <2>2
<1>7. DOMAIN a = 1..Len(e)
  BY <1>3, <1>4
<1>8. ASSUME NEW i \in DOMAIN s
      PROVE  /\ s[i] \in T /\ s[i] \in Text
             /\ a[i].key = KeyPart(s[i]) /\ a[i].key \in Key /\ KeyOf("array", a[i].key)
             /\ KeyText(a[i].key) = s[i] /\ a[i].at \in Nat /\ a[i] \in Entry
  <2>1. s[i] \in T
    BY <1>4
  <2>2. a[i] = [key |-> KeyPart(s[i]), at |-> PlaceOf(e, s[i])]
    BY <1>3
  <2>3. a[i].key = KeyPart(s[i]) /\ a[i].at = PlaceOf(e, s[i])
    BY <2>2
  <2>4. a[i].at \in Nat
    BY <1>1, <1>2, <2>1, <2>3
  <2>5. s[i] \in Text
    BY <1>1, <2>1
  <2>6. a[i].key \in Key /\ KeyOf("array", a[i].key) /\ KeyText(a[i].key) = s[i]
    BY <2>3, <2>5, Keys
  <2>7. a[i] \in Entry
    BY <2>2, <2>3, <2>4, <2>6 DEF Entry
  <2> QED BY <2>1, <2>3, <2>4, <2>5, <2>6, <2>7
<1>9. a \in Seq(Entry) /\ Len(a) = Len(e)
  <2>1. a \in [1..Len(e) -> Entry]
    <3>1. \A i \in 1..Len(e) : a[i] \in Entry
      BY <1>4, <1>8
    <3>2. a = [i \in 1..Len(e) |-> a[i]]
      BY <1>3, <1>4
    <3> QED BY <3>1, <3>2
  <2> QED BY <1>2, <1>7, <2>1
<1>10. ASSUME NEW i \in DOMAIN a, NEW j \in DOMAIN a, a[i].key = a[j].key \/ a[i].at = a[j].at
       PROVE  i = j
  <2>1. i \in DOMAIN s /\ j \in DOMAIN s
    BY <1>4, <1>7
  <2>2. CASE a[i].key = a[j].key
    BY <1>4, <1>8, <2>1, <2>2
  <2>3. CASE a[i].at = a[j].at
    <3>1. PICK k \in DOMAIN e : s[i] = KeyText(e[k].key) /\ a[i].at = e[k].at
      BY <1>5, <2>1
    <3>2. PICK l \in DOMAIN e : s[j] = KeyText(e[l].key) /\ a[j].at = e[l].at
      BY <1>5, <2>1
    <3>3. k = l
      BY <1>2, <2>3, <3>1, <3>2
    <3> QED BY <1>4, <2>1, <3>1, <3>2, <3>3
  <2> QED BY <1>10, <2>2, <2>3
<1>11. Texts(a) = T
  <2>1. \A t \in T : t \in Texts(a)
    <3> SUFFICES ASSUME NEW t \in T PROVE t \in Texts(a)
      OBVIOUS
    <3>1. PICK i \in DOMAIN s : s[i] = t
      BY <1>4
    <3>2. a[i] \in Range(a)
      BY <1>4, <1>7 DEF Range
    <3> QED BY <1>8, <3>1, <3>2 DEF Texts
  <2>2. \A t \in Texts(a) : t \in T
    <3> SUFFICES ASSUME NEW t \in Texts(a) PROVE t \in T
      OBVIOUS
    <3>1. PICK i \in DOMAIN a : t = KeyText(a[i].key)
      BY DEF Texts, Range
    <3> QED BY <1>4, <1>7, <1>8, <3>1
  <2> QED BY <2>1, <2>2
<1>12. DOMAIN a = DOMAIN s
  BY <1>4, <1>7
<1>13. \A i \in DOMAIN a : \E j \in DOMAIN e :
          a[i] = [key |-> KeyPart(KeyText(e[j].key)), at |-> e[j].at]
  BY <1>5, <1>12
<1>14. \A j \in DOMAIN e : \E i \in DOMAIN a :
          a[i] = [key |-> KeyPart(KeyText(e[j].key)), at |-> e[j].at]
  BY <1>6, <1>12
<1>15. \A i \in DOMAIN a : KeyOf("array", a[i].key)
  BY <1>8, <1>12
<1>16. \A i, j \in DOMAIN a : a[i].key = a[j].key \/ a[i].at = a[j].at => i = j
  BY <1>10
<1>17. IsNamed(a, e)
  BY <1>3, <1>9, <1>11, <1>13, <1>14, <1>15, <1>16 DEF IsNamed, s, T
<1> QED BY <1>17 DEF a, e

-----------------------------------------------------------------------------
(* One trip of one node.                                                    *)

Numbered(entries) == [i \in DOMAIN entries |-> [key |-> IntKey(i - 1), at |-> entries[i].at]]
Returned(x) == IF AsObject(x.entries, x.cursor)
               THEN AsNamed(ObjectItems(x.entries)) ELSE Numbered(x.entries)

LEMMA BackCases ==
    ASSUME NEW x, IsNode(x)
    PROVE  /\ x.kind \in Scalars => x = Node(x.kind, x.n, <<>>, 0)
           /\ x.kind \in Scalars /\ ~Negative(x) => Back(x) = x
           /\ x.kind \in Tables => Back(x) = NewArray(Returned(x))
<1>1. x.kind \in Scalars \cup Tables /\ x = Node(x.kind, x.n, x.entries, x.cursor)
  BY NodeType
<1>2. x.kind \in Scalars => x = Node(x.kind, x.n, <<>>, 0)
  <2> SUFFICES ASSUME x.kind \in Scalars PROVE x.entries = <<>> /\ x.cursor = 0
    BY <1>1
  <2>1. x.kind \notin Tables
    BY DEF Scalars, Tables
  <2>2. DOMAIN x.entries = {}
    BY <2>1, NodeType
  <2>3. x.entries \in Seq(Entry) /\ x.cursor \in 0..Len(x.entries)
    BY NodeType
  <2>4. x.entries = <<>>
    <3>1. Len(x.entries) = 0
      <4>1. Len(x.entries) \in Nat /\ DOMAIN x.entries = 1..Len(x.entries)
        BY NodeType
      <4>2. 1 \notin 1..Len(x.entries)
        BY <2>2, <4>1
      <4> QED BY <4>1, <4>2
    <3> QED BY <2>3, <3>1, EmptySeq
  <2>5. Len(<<>>) = 0
    OBVIOUS
  <2> QED BY <2>3, <2>4, <2>5
<1>3. CASE x.kind = "long"
  <2>1. x.n \in Long
    BY <1>3 DEF IsNode
  <2>2. SerNode(x) = DocNode("uint", Unsigned(x.n), <<>>)
    BY <1>3 DEF SerNode, Tables
  <2>3. Back(x) = Node("long", Unsigned(x.n), <<>>, 0)
    BY <2>2 DEF Back, DeserNode, DocNode
  <2>4. ~Negative(x) => Unsigned(x.n) = x.n
    BY <1>3, <2>1, Wrap DEF Negative
  <2> QED BY <1>2, <1>3, <2>3, <2>4 DEF Scalars, Tables
<1>4. CASE x.kind \in Scalars \ {"long"}
  <2>1. SerNode(x) = DocNode(x.kind, x.n, <<>>)
    BY <1>4 DEF SerNode, Scalars, Tables
  <2>2. Back(x) = Node(x.kind, x.n, <<>>, 0)
    BY <1>4, <2>1 DEF Back, DeserNode, DocNode, Scalars
  <2> QED BY <1>2, <1>4, <2>2 DEF Scalars, Tables
<1>5. CASE x.kind \in Tables
  <2>1. SerNode(x) = IF AsObject(x.entries, x.cursor)
                     THEN DocNode("object", 0, ObjectItems(x.entries))
                     ELSE DocNode("list", 0, ListItems(x.entries))
    BY <1>5 DEF SerNode, Written, Tables
  <2>2. AsList(ListItems(x.entries)) = Numbered(x.entries)
    BY DEF AsList, ListItems, Item, Numbered
  <2>3. CASE AsObject(x.entries, x.cursor)
    BY <1>5, <2>1, <2>3 DEF Back, DeserNode, DocNode, Returned, Scalars, Tables
  <2>4. CASE ~AsObject(x.entries, x.cursor)
    BY <1>5, <2>1, <2>2, <2>4 DEF Back, DeserNode, DocNode, Returned, Scalars, Tables
  <2> QED BY <2>3, <2>4
<1> QED BY <1>1, <1>2, <1>3, <1>4, <1>5

\* A trip keeps a table's places, and makes a table of it again.
LEMMA ReturnedType ==
    ASSUME NEW x, IsNode(x), x.kind \in Tables, NEW r, r = Returned(x)
    PROVE  /\ r \in Seq(Entry) /\ Len(r) = Len(x.entries)
           /\ \A i \in DOMAIN r : KeyOf("array", r[i].key)
           /\ \A i, j \in DOMAIN r : r[i].key = r[j].key \/ r[i].at = r[j].at => i = j
           /\ \A i \in DOMAIN r : \E j \in DOMAIN x.entries : r[i].at = x.entries[j].at
           /\ \A j \in DOMAIN x.entries : \E i \in DOMAIN r : r[i].at = x.entries[j].at
<1> DEFINE e == x.entries
<1>1. CASE AsObject(e, x.cursor)
  <2>1. r = AsNamed(ObjectItems(e))
    BY <1>1 DEF Returned
  <2>2. /\ r \in Seq(Entry) /\ Len(r) = Len(e)
        /\ \A i \in DOMAIN r : \E j \in DOMAIN e :
             r[i] = [key |-> KeyPart(KeyText(e[j].key)), at |-> e[j].at]
        /\ \A j \in DOMAIN e : \E i \in DOMAIN r :
             r[i] = [key |-> KeyPart(KeyText(e[j].key)), at |-> e[j].at]
        /\ \A i, j \in DOMAIN r : r[i].key = r[j].key \/ r[i].at = r[j].at => i = j
        /\ \A i \in DOMAIN r : KeyOf("array", r[i].key)
    <3>1. IsNamed(r, e)
      BY <2>1, Named
    <3> HIDE DEF e
    <3> QED BY <3>1 DEF IsNamed
  <2>3. \A k, at : [key |-> k, at |-> at].at = at
    OBVIOUS
  <2> HIDE DEF e
  <2>4. \A i \in DOMAIN r : \E j \in DOMAIN e : r[i].at = e[j].at
    BY <2>2, <2>3
  <2>5. \A j \in DOMAIN e : \E i \in DOMAIN r : r[i].at = e[j].at
    BY <2>2, <2>3
  <2> QED BY <2>2, <2>4, <2>5 DEF e
<1>2. CASE ~AsObject(e, x.cursor)
  <2>1. r = [i \in DOMAIN e |-> [key |-> IntKey(i - 1), at |-> e[i].at]]
    BY <1>2 DEF Returned, Numbered
  <2>2. /\ DOMAIN e = 1..Len(e) /\ Len(e) \in Nat
        /\ \A i \in DOMAIN e : e[i].at \in Nat /\ i - 1 \in Number
        /\ \A i, j \in DOMAIN e : e[i].at = e[j].at => i = j
    BY NodeType DEF IsNode
  <2> HIDE DEF e
  <2>3. ASSUME NEW i \in DOMAIN e
        PROVE  /\ r[i].key = IntKey(i - 1) /\ r[i].at = e[i].at /\ r[i] \in Entry
               /\ KeyOf("array", r[i].key)
    <3>1. IntKey(i - 1) \in Key /\ KeyOf("array", IntKey(i - 1))
      BY <2>2, Keys
    <3> QED BY <2>1, <2>2, <3>1 DEF Entry
  <2>4. r \in Seq(Entry) /\ Len(r) = Len(e) /\ DOMAIN r = DOMAIN e
    <3>1. r \in [1..Len(e) -> Entry]
      <4>1. r = [i \in 1..Len(e) |-> r[i]]
        BY <2>1, <2>2
      <4> QED BY <2>2, <2>3, <4>1
    <3> QED BY <2>2, <3>1
  <2>5. \A i, j \in DOMAIN r : r[i].key = r[j].key \/ r[i].at = r[j].at => i = j
    <3> SUFFICES ASSUME NEW i \in DOMAIN e, NEW j \in DOMAIN e,
                        r[i].key = r[j].key \/ r[i].at = r[j].at
                 PROVE  i = j
      BY <2>4
    <3>1. IntKey(i - 1) = IntKey(j - 1) => i - 1 = j - 1
      BY DEF IntKey
    <3>2. i \in Nat /\ j \in Nat
      BY <2>2
    <3>3. IntKey(i - 1) = IntKey(j - 1) => i = j
      BY <3>1, <3>2
    <3> QED BY <2>2, <2>3, <3>3
  <2> QED BY <2>3, <2>4, <2>5 DEF e
<1> QED BY <1>1, <1>2

LEMMA NewArrayType ==
    ASSUME NEW r \in Seq(Entry),
           \A i \in DOMAIN r : KeyOf("array", r[i].key) /\ i - 1 \in Number,
           \A i, j \in DOMAIN r : r[i].key = r[j].key \/ r[i].at = r[j].at => i = j
    PROVE  /\ IsNode(NewArray(r)) /\ NewArray(r).entries = r /\ NewArray(r).kind = "array"
           /\ NewArray(r).n = 0 /\ NewArray(r).cursor = (IF r = <<>> THEN 0 ELSE 1)
<1> DEFINE y == NewArray(r)
<1>1. y = [kind |-> "array", n |-> 0, entries |-> r, cursor |-> IF r = <<>> THEN 0 ELSE 1]
  BY DEF NewArray, Node
<1>2. /\ y.kind = "array" /\ y.n = 0 /\ y.entries = r
      /\ y.cursor = IF r = <<>> THEN 0 ELSE 1
  BY <1>1
<1>3. y.cursor \in Nat /\ y.cursor <= Len(r)
  BY <1>2
<1>4. y \in [kind : Scalars \cup Tables, n : Int, entries : Seq(Entry), cursor : Nat]
  BY <1>1, <1>2, <1>3 DEF Tables
<1> HIDE DEF y
<1>5. IsNode(y)
  BY <1>2, <1>3, <1>4 DEF IsNode, Tables
<1> QED BY <1>2, <1>5 DEF y

\* What a trip makes of a value of any kind.
LEMMA BackType ==
    ASSUME NEW x, IsNode(x), ~Negative(x)
    PROVE  /\ IsNode(Back(x)) /\ ~Negative(Back(x)) /\ Places(Back(x)) = Places(x)
           /\ x.kind \in Tables =>
                /\ Back(x) = NewArray(Returned(x)) /\ Back(x).kind = "array"
                /\ Back(x).entries = Returned(x) /\ Back(x).n = 0
                /\ Back(x).cursor = (IF Returned(x) = <<>> THEN 0 ELSE 1)
<1>1. CASE x.kind \in Scalars
  <2>1. x.kind \notin Tables
    BY <1>1 DEF Scalars, Tables
  <2> QED BY <1>1, <2>1, BackCases
<1>2. CASE x.kind \in Tables
  <2> DEFINE r == Returned(x)
             e == x.entries
  <2>1. /\ r \in Seq(Entry) /\ Len(r) = Len(e)
        /\ \A i \in DOMAIN r : KeyOf("array", r[i].key)
        /\ \A i, j \in DOMAIN r : r[i].key = r[j].key \/ r[i].at = r[j].at => i = j
        /\ \A i \in DOMAIN r : \E j \in DOMAIN e : r[i].at = e[j].at
        /\ \A j \in DOMAIN e : \E i \in DOMAIN r : r[i].at = e[j].at
    BY <1>2, ReturnedType
  <2>2. Back(x) = NewArray(r)
    BY <1>2, BackCases
  <2>3. DOMAIN e = 1..Len(e) /\ \A i \in DOMAIN e : i - 1 \in Number
    BY NodeType DEF IsNode
  <2> HIDE DEF r, e
  <2>4. DOMAIN r = DOMAIN e
    BY <2>1, <2>3
  <2>5. /\ IsNode(NewArray(r)) /\ NewArray(r).entries = r /\ NewArray(r).kind = "array"
        /\ NewArray(r).n = 0 /\ NewArray(r).cursor = (IF r = <<>> THEN 0 ELSE 1)
    BY <2>1, <2>3, <2>4, NewArrayType
  <2>6. {f.at : f \in Range(r)} = {f.at : f \in Range(e)}
    BY <2>1 DEF Range
  <2>7. ~Negative(NewArray(r))
    BY <2>5 DEF Negative
  <2> QED BY <2>2, <2>5, <2>6, <2>7 DEF Places, r, e
<1> QED BY <1>1, <1>2, NodeType

-----------------------------------------------------------------------------
(* The third trip changes nothing.                                          *)

\* The table a trip has made is written as an object if it has a name or
\* nothing at all; a list is never empty.
LEMMA FreshTable ==
    ASSUME NEW x, IsNode(x), x.cursor = IF x.entries = <<>> THEN 0 ELSE 1
    PROVE  AsObject(x.entries, x.cursor)
             <=> x.entries = <<>> \/ \E i \in DOMAIN x.entries : ~x.entries[i].key.long
<1> DEFINE e == x.entries
<1>1. e \in Seq(Entry) /\ Len(e) \in Nat /\ DOMAIN e = 1..Len(e)
  BY NodeType
<1>2. CASE e = <<>>
  BY <1>2 DEF AsObject
<1>3. CASE e # <<>>
  <2>1. x.cursor = 1
    BY <1>3
  <2> HIDE DEF e
  <2>2. Len(e) >= 1
    BY <1>1, <1>3, EmptySeq
  <2>3. DOMAIN e = {1} \cup 2..Len(e)
    BY <1>1, <2>2
  <2>4. AsObject(e, 1) <=> \E i \in DOMAIN e : ~e[i].key.long
    BY <2>3 DEF AsObject
  <2> QED BY <1>3, <2>1, <2>4 DEF e
<1> QED BY <1>2, <1>3

LEMMA ListEntries ==
    ASSUME NEW x, IsNode(x), ~AsObject(x.entries, x.cursor)
    PROVE  x.entries # <<>> /\ DOMAIN x.entries # {}
<1>1. x.cursor \in 0..Len(x.entries) /\ x.cursor # 0 /\ Len(x.entries) \in Nat
  BY NodeType DEF AsObject
<1>2. 1 \in 1..Len(x.entries)
  BY <1>1
<1>3. 1 \in DOMAIN x.entries
  BY <1>2, NodeType
<1> QED BY <1>3

\* A list stays what a trip has made of it.
LEMMA NumberedTwice ==
    ASSUME NEW x, IsNode(x), x.kind \in Tables, ~AsObject(x.entries, x.cursor)
    PROVE  Back(Back(x)) = Back(x)
<1> DEFINE e == x.entries
           y == Back(x)
           r == Numbered(e)
<1>1. ~Negative(x)
  BY DEF Negative, Tables
<1>2. Returned(x) = r
  BY DEF Returned
<1>3. /\ IsNode(y) /\ ~Negative(y) /\ y = NewArray(r) /\ y.kind = "array" /\ y.entries = r
      /\ y.cursor = IF r = <<>> THEN 0 ELSE 1
  BY <1>1, <1>2, BackType
<1>4. DOMAIN r = DOMAIN e /\ \A i \in DOMAIN e : r[i] = [key |-> IntKey(i - 1), at |-> e[i].at]
  BY DEF Numbered
<1>5. DOMAIN e # {}
  BY ListEntries
<1> HIDE DEF e, y, r
<1>6. \A i \in DOMAIN r : r[i].key.long /\ r[i].at = e[i].at
  <2> SUFFICES ASSUME NEW i \in DOMAIN r PROVE r[i].key.long /\ r[i].at = e[i].at
    OBVIOUS
  <2>1. r[i].key = IntKey(i - 1) /\ r[i].at = e[i].at
    BY <1>4
  <2>2. IntKey(i - 1).long
    BY DEF IntKey
  <2> QED BY <2>1, <2>2
<1>7. r # <<>>
  <2>1. DOMAIN <<>> = {}
    OBVIOUS
  <2> QED BY <1>4, <1>5, <2>1
<1>8. ~AsObject(y.entries, y.cursor)
  <2>1. y.cursor = IF y.entries = <<>> THEN 0 ELSE 1
    BY <1>3
  <2> QED BY <1>3, <1>6, <1>7, <2>1, FreshTable
<1>9. Numbered(r) = r
  <2>1. Numbered(r) = [i \in DOMAIN r |-> [key |-> IntKey(i - 1), at |-> r[i].at]]
    BY DEF Numbered
  <2>2. r = [i \in DOMAIN e |-> [key |-> IntKey(i - 1), at |-> e[i].at]]
    BY DEF r, Numbered
  <2> QED BY <1>4, <1>6, <2>1, <2>2
<1>10. Returned(y) = r
  BY <1>3, <1>8, <1>9 DEF Returned
<1>11. Back(y) = NewArray(r)
  <2>1. y.kind \in Tables
    BY <1>3 DEF Tables
  <2> QED BY <1>3, <1>10, <2>1, BackType
<1> QED BY <1>3, <1>11 DEF y

\* An object that still has a name stays what a trip has made of it.
LEMMA NamedTwice ==
    ASSUME NEW x, IsNode(x), x.kind \in Tables, AsObject(x.entries, x.cursor),
           AsObject(Back(x).entries, Back(x).cursor)
    PROVE  Back(Back(x)) = Back(x)
<1> DEFINE e == x.entries
           y == Back(x)
           s == Sorted(Texts(e))
           r == AsNamed(ObjectItems(e))
           q == AsNamed(ObjectItems(r))
<1>1. ~Negative(x)
  BY DEF Negative, Tables
<1>2. Returned(x) = r
  BY DEF Returned
<1>3. IsNode(y) /\ ~Negative(y) /\ y = NewArray(r) /\ y.kind = "array" /\ y.entries = r
  BY <1>1, <1>2, BackType
<1>4. IsNamed(r, e)
  BY Named
<1>5. IsNamed(q, r)
  <2>1. IsNamed(AsNamed(ObjectItems(y.entries)), y.entries)
    <3> HIDE DEF y
    <3> QED BY <1>3, Named
  <2> HIDE DEF y
  <2> QED BY <1>3, <2>1
<1>6. Returned(y) = q
  <2>1. AsObject(y.entries, y.cursor)
    OBVIOUS
  <2> HIDE DEF y, r
  <2> QED BY <1>3, <2>1 DEF Returned
<1>7. /\ \A i \in DOMAIN r : /\ KeyText(r[i].key) \in Texts(r)
                            /\ PlaceOf(r, KeyText(r[i].key)) = r[i].at
      /\ Texts(r) = Texts(e)
  <2>1. \A i \in DOMAIN y.entries :
           /\ KeyText(y.entries[i].key) \in Texts(y.entries)
           /\ PlaceOf(y.entries, KeyText(y.entries[i].key)) = y.entries[i].at
    <3> HIDE DEF y
    <3> QED BY <1>3, TextKeys
  <2>2. Texts(r) = Texts(e)
    BY <1>4 DEF IsNamed
  <2> HIDE DEF y, r
  <2> QED BY <1>3, <2>1, <2>2
<1>8. r = [i \in DOMAIN s |-> [key |-> KeyPart(s[i]), at |-> PlaceOf(e, s[i])]]
  BY <1>4 DEF IsNamed
<1>9. q = [i \in DOMAIN s |-> [key |-> KeyPart(s[i]), at |-> PlaceOf(r, s[i])]]
  <2>1. q = [i \in DOMAIN Sorted(Texts(r)) |->
              [key |-> KeyPart(Sorted(Texts(r))[i]), at |-> PlaceOf(r, Sorted(Texts(r))[i])]]
    <3> HIDE DEF q, r
    <3> QED BY <1>5 DEF IsNamed
  <2> HIDE DEF q, r
  <2> QED BY <1>7, <2>1
<1>10. \A i \in DOMAIN s : s[i] \in Text
  <2>1. Texts(e) \in SUBSET Text
    BY TextKeys
  <2>2. s \in Seq(Texts(e))
    <3> HIDE DEF e
    <3> QED BY <2>1, Sorting
  <2> HIDE DEF s, e
  <2> QED BY <2>1, <2>2
<1>11. \A i \in DOMAIN s : PlaceOf(r, s[i]) = PlaceOf(e, s[i])
  <2> SUFFICES ASSUME NEW i \in DOMAIN s PROVE PlaceOf(r, s[i]) = PlaceOf(e, s[i])
    OBVIOUS
  <2> HIDE DEF r, s, e
  <2>1. i \in DOMAIN r /\ r[i] = [key |-> KeyPart(s[i]), at |-> PlaceOf(e, s[i])]
    BY <1>8
  <2>2. KeyText(r[i].key) = s[i]
    BY <1>10, <2>1, Keys
  <2> QED BY <1>7, <2>1, <2>2
<1>12. q = r
  <2> HIDE DEF q, r, s, e
  <2> QED BY <1>8, <1>9, <1>11
<1>13. Back(y) = NewArray(r)
  <2>1. y.kind \in Tables
    BY <1>3 DEF Tables
  <2> HIDE DEF q, r, y
  <2> QED BY <1>3, <1>6, <1>12, <2>1, BackType
<1> QED BY <1>3, <1>13

LEMMA BackSettles ==
    ASSUME NEW x, IsNode(x), ~Negative(x)
    PROVE  Back(Back(Back(x))) = Back(Back(x))
<1> DEFINE y == Back(x)
<1>1. CASE x.kind \in Scalars
  BY <1>1, BackCases
<1>2. CASE x.kind \in Tables
  <2>1. IsNode(y) /\ ~Negative(y) /\ y.kind \in Tables
    BY <1>2, BackType DEF Tables
  <2>2. CASE ~AsObject(y.entries, y.cursor)
    <3> HIDE DEF y
    <3>1. Back(Back(y)) = Back(y)
      BY <2>1, <2>2, NumberedTwice
    <3> QED BY <3>1 DEF y
  <2>3. CASE AsObject(x.entries, x.cursor) /\ AsObject(y.entries, y.cursor)
    BY <1>2, <2>3, NamedTwice
  <2>4. CASE ~AsObject(x.entries, x.cursor)
    BY <1>2, <2>4, NumberedTwice
  <2> QED BY <2>2, <2>3, <2>4
<1> QED BY <1>1, <1>2, NodeType

-----------------------------------------------------------------------------
(* What a trip keeps.                                                       *)

\* The entries of an array written as an object all come back.
LEMMA NamedSame ==
    ASSUME NEW x, IsNode(x), x.kind = "array"
    PROVE  Range(AsNamed(ObjectItems(x.entries))) = Range(x.entries)
<1> DEFINE e == x.entries
           r == AsNamed(ObjectItems(e))
<1>1. IsNamed(r, e)
  BY Named
<1>2. \A j \in DOMAIN e : [key |-> KeyPart(KeyText(e[j].key)), at |-> e[j].at] = e[j]
  <2> SUFFICES ASSUME NEW j \in DOMAIN e
               PROVE  [key |-> KeyPart(KeyText(e[j].key)), at |-> e[j].at] = e[j]
    OBVIOUS
  <2>1. e[j].key \in Key /\ KeyOf("array", e[j].key)
    BY NodeType
  <2>2. e[j] = [key |-> e[j].key, at |-> e[j].at]
    BY NodeType
  <2>3. KeyPart(KeyText(e[j].key)) = e[j].key
    <3> HIDE DEF e
    <3> QED BY <2>1, Keys
  <2> HIDE DEF e
  <2> QED BY <2>2, <2>3
<1> HIDE DEF e, r
<1>3. ASSUME NEW i \in DOMAIN r PROVE \E j \in DOMAIN e : r[i] = e[j]
  <2>1. PICK j \in DOMAIN e : r[i] = [key |-> KeyPart(KeyText(e[j].key)), at |-> e[j].at]
    BY <1>1 DEF IsNamed
  <2> QED BY <1>2, <2>1
<1>4. ASSUME NEW j \in DOMAIN e PROVE \E i \in DOMAIN r : r[i] = e[j]
  <2>1. PICK i \in DOMAIN r : r[i] = [key |-> KeyPart(KeyText(e[j].key)), at |-> e[j].at]
    BY <1>1 DEF IsNamed
  <2> QED BY <1>2, <2>1
<1>5. Range(r) = Range(e)
  BY <1>3, <1>4 DEF Range
<1> QED BY <1>5 DEF r, e

\* Of a list they do if it is numbered in its order, and not otherwise.
LEMMA NumberedSame ==
    ASSUME NEW x, IsNode(x)
    PROVE  Range(Numbered(x.entries)) = Range(x.entries) <=> InSequence(x.entries)
<1> DEFINE e == x.entries
           r == Numbered(e)
<1>1. DOMAIN r = DOMAIN e /\ \A i \in DOMAIN e : r[i] = [key |-> IntKey(i - 1), at |-> e[i].at]
  BY DEF Numbered
<1>2. /\ \A i \in DOMAIN e : e[i] = [key |-> e[i].key, at |-> e[i].at]
      /\ \A i, j \in DOMAIN e : e[i].at = e[j].at => i = j
  BY NodeType DEF IsNode
<1> HIDE DEF e, r
<1>3. ASSUME InSequence(e) PROVE Range(r) = Range(e)
  <2>1. \A i \in DOMAIN e : r[i] = e[i]
    BY <1>1, <1>2, <1>3 DEF InSequence
  <2> QED BY <1>1, <2>1 DEF Range
<1>4. ASSUME Range(r) = Range(e), NEW i \in DOMAIN e PROVE e[i].key = IntKey(i - 1)
  <2>1. r[i] \in Range(e)
    BY <1>1, <1>4 DEF Range
  <2>2. PICK j \in DOMAIN e : r[i] = e[j]
    BY <2>1 DEF Range
  <2>3. r[i].at = e[i].at /\ r[i].key = IntKey(i - 1)
    BY <1>1
  <2>4. j = i
    BY <1>2, <2>2, <2>3
  <2> QED BY <2>2, <2>3, <2>4
<1>5. Range(r) = Range(e) <=> InSequence(e)
  BY <1>3, <1>4 DEF InSequence
<1> QED BY <1>5 DEF r, e

\* What comes back is the same after one trip: the values that are regular.
LEMMA BackSame ==
    ASSUME NEW x, IsNode(x), ~Negative(x)
    PROVE  SameNode(Back(x), x) <=> Regular(x)
<1>1. CASE x.kind \in Scalars
  <2>1. Back(x) = x
    BY <1>1, BackCases
  <2>2. x.kind = "long" => x.n >= 0
    BY NodeType DEF Negative
  <2>3. x.kind # "plain" /\ x.kind # "array"
    BY <1>1 DEF Scalars
  <2> QED BY <2>1, <2>2, <2>3 DEF SameNode, Regular
<1>2. CASE x.kind = "plain"
  <2>1. Back(x).kind = "array"
    BY <1>2, BackType DEF Tables
  <2> QED BY <1>2, <2>1 DEF SameNode, Regular
<1>3. CASE x.kind = "array"
  <2> DEFINE e == x.entries
  <2>1. Back(x).kind = x.kind /\ Back(x).n = 0 /\ Back(x).entries = Returned(x)
    BY <1>3, BackType DEF Tables
  <2>2. x.n = 0
    BY <1>3 DEF IsNode, Tables
  <2>3. SameNode(Back(x), x) <=> Range(Returned(x)) = Range(e)
    BY <2>1, <2>2 DEF SameNode
  <2>4. Regular(x) <=> KeysSurvive(x)
    BY <1>3 DEF Regular
  <2>5. CASE AsObject(e, x.cursor)
    <3>1. Range(Returned(x)) = Range(e)
      BY <1>3, <2>5, NamedSame DEF Returned
    <3> QED BY <2>3, <2>4, <2>5, <3>1 DEF KeysSurvive
  <2>6. CASE ~AsObject(e, x.cursor)
    <3>1. Range(Returned(x)) = Range(e) <=> InSequence(e)
      BY <2>6, NumberedSame DEF Returned
    <3> QED BY <2>3, <2>4, <2>6, <3>1 DEF KeysSurvive
  <2> QED BY <2>5, <2>6
<1> QED BY <1>1, <1>2, <1>3, NodeType DEF Tables

\* The same after two: those that are stable.
LEMMA BackTwiceSame ==
    ASSUME NEW x, IsNode(x), ~Negative(x)
    PROVE  SameNode(Back(Back(x)), x) <=> Stable(x)
<1> DEFINE y == Back(x)
           z == Back(y)
           e == x.entries
<1>1. IsNode(y) /\ ~Negative(y)
  BY BackType
<1>2. SameNode(y, x) <=> Regular(x)
  BY BackSame
<1>3. CASE x.kind \in Scalars
  <2>1. z = y
    BY <1>3, BackCases
  <2>2. x.kind # "array"
    BY <1>3 DEF Scalars
  <2> HIDE DEF y, z
  <2> QED BY <1>2, <2>1, <2>2 DEF Stable, z, y
<1>4. CASE x.kind = "plain"
  <2>1. y.kind = "array"
    BY <1>4, BackType DEF Tables
  <2>2. z.kind = "array"
    <3> HIDE DEF y
    <3> QED BY <1>1, <2>1, BackType DEF Tables
  <2> HIDE DEF y, z
  <2>3. ~SameNode(z, x) /\ ~Stable(x)
    BY <1>4, <2>2 DEF SameNode, Stable, Regular
  <2> QED BY <2>3 DEF z, y
<1>5. CASE x.kind = "array"
  <2>1. /\ y.kind = "array" /\ y.n = 0 /\ y.entries = Returned(x)
        /\ y.cursor = (IF y.entries = <<>> THEN 0 ELSE 1)
    BY <1>5, BackType DEF Tables
  <2>2. z.kind = "array" /\ z.n = 0 /\ z.entries = Returned(y)
    <3> HIDE DEF y
    <3> QED BY <1>1, <2>1, BackType DEF Tables
  <2>3. x.n = 0
    BY <1>5 DEF IsNode, Tables
  <2>4. SameNode(z, x) <=> Range(Returned(y)) = Range(e)
    <3> HIDE DEF y, z, e
    <3> QED BY <1>5, <2>2, <2>3 DEF SameNode, e
  <2>5. Stable(x) <=> KeysSurvive(x) /\ KeysSettle(x)
    BY <1>5 DEF Stable, Regular
  <2>6. AsObject(y.entries, y.cursor)
          <=> y.entries = <<>> \/ \E i \in DOMAIN y.entries : ~y.entries[i].key.long
    <3> HIDE DEF y
    <3> QED BY <1>1, <2>1, FreshTable
  <2>7. Range(Numbered(y.entries)) = Range(y.entries) <=> InSequence(y.entries)
    <3> HIDE DEF y
    <3> QED BY <1>1, NumberedSame
  <2>8. CASE AsObject(e, x.cursor)
    <3> DEFINE r == AsNamed(ObjectItems(e))
    <3>1. y.entries = r /\ Range(r) = Range(e)
      BY <1>5, <2>1, <2>8, NamedSame DEF Returned
    <3>2. KeysSurvive(x) /\ (KeysSettle(x) <=> ((\A f \in Range(e) : f.key.long) => InSequence(r)))
      BY <2>8 DEF KeysSurvive, KeysSettle
    <3>3. (\A f \in Range(e) : f.key.long) <=> \A i \in DOMAIN r : r[i].key.long
      <4>1. (\A f \in Range(r) : f.key.long) <=> \A i \in DOMAIN r : r[i].key.long
        <5> HIDE DEF r
        <5> QED BY Zenon DEF Range
      <4> HIDE DEF r, e
      <4> QED BY <3>1, <4>1
    <3> HIDE DEF r
    <3>4. CASE AsObject(y.entries, y.cursor)
      <4>1. z = y
        BY <1>5, <2>8, <3>4, NamedTwice DEF Tables
      <4>2. Returned(y) = r
        <5> HIDE DEF y, z
        <5> QED BY <2>2, <3>1, <4>1
      <4>3. r = <<>> => InSequence(r)
        BY DEF InSequence
      <4>4. KeysSettle(x)
        <5> HIDE DEF y, e
        <5> QED BY <2>6, <3>1, <3>2, <3>3, <3>4, <4>3
      <4> HIDE DEF y, z, e
      <4> QED BY <2>4, <2>5, <3>1, <3>2, <4>2, <4>4 DEF y, z
    <3>5. CASE ~AsObject(y.entries, y.cursor)
      <4>1. Returned(y) = Numbered(r)
        <5> HIDE DEF y
        <5> QED BY <3>1, <3>5 DEF Returned
      <4>2. \A i \in DOMAIN r : r[i].key.long
        <5> HIDE DEF y
        <5> QED BY <2>6, <3>1, <3>5
      <4>3. Range(Numbered(r)) = Range(r) <=> InSequence(r)
        <5> HIDE DEF y
        <5> QED BY <2>7, <3>1
      <4>4. KeysSettle(x) <=> InSequence(r)
        <5> HIDE DEF e
        <5> QED BY <3>2, <3>3, <4>2
      <4>5. SameNode(z, x) <=> InSequence(r)
        <5> HIDE DEF y, z, e
        <5> QED BY <2>4, <3>1, <4>1, <4>3
      <4> QED BY <2>5, <3>2, <4>4, <4>5
    <3> QED BY <3>4, <3>5
  <2>9. CASE ~AsObject(e, x.cursor)
    <3>1. z = y
      BY <1>5, <2>9, NumberedTwice DEF Tables
    <3>2. KeysSurvive(x) <=> InSequence(e)
      BY <2>9 DEF KeysSurvive
    <3>3. InSequence(e) => KeysSettle(x)
      BY <2>9 DEF KeysSettle
    <3>4. Regular(x) <=> InSequence(e)
      BY <1>5, <3>2 DEF Regular
    <3> HIDE DEF y, z, e
    <3>5. SameNode(z, x) <=> Stable(x)
      BY <1>2, <2>5, <3>1, <3>2, <3>3, <3>4
    <3> QED BY <3>5 DEF y, z
  <2> QED BY <2>8, <2>9
<1> QED BY <1>3, <1>4, <1>5, NodeType DEF Tables

-----------------------------------------------------------------------------
(* Reading by hand and with foreach.                                         *)

LEMMA SerKinds ==
    ASSUME NEW x, IsNode(x)
    PROVE  /\ SerNode(x).kind = "uint" <=> x.kind = "long"
           /\ x.kind = "long" => SerNode(x) = DocNode("uint", Unsigned(x.n), <<>>)
           /\ x.kind \in Scalars \ {"long"} => SerNode(x) = DocNode(x.kind, x.n, <<>>)
           /\ x.kind \in Tables => SerNode(x).kind \in {"list", "object"}
           /\ DOMAIN SerNode(x).items = 1..Len(SerNode(x).items)
<1> DEFINE e == x.entries
<1>1. CASE x.kind = "long"
  <2>1. SerNode(x) = DocNode("uint", Unsigned(x.n), <<>>)
    BY <1>1 DEF SerNode, Tables
  <2> QED BY <1>1, <2>1 DEF DocNode, Scalars, Tables
<1>2. CASE x.kind \in Scalars \ {"long"}
  <2>1. SerNode(x) = DocNode(x.kind, x.n, <<>>)
    BY <1>2 DEF SerNode, Scalars, Tables
  <2> QED BY <1>2, <2>1 DEF DocNode, Scalars, Tables
<1>3. CASE x.kind \in Tables
  <2>1. SerNode(x) = IF AsObject(e, x.cursor)
                     THEN DocNode("object", 0, ObjectItems(e))
                     ELSE DocNode("list", 0, ListItems(e))
    BY <1>3 DEF SerNode, Written, Tables
  <2>2. DOMAIN ListItems(e) = 1..Len(ListItems(e))
    <3>1. Len(e) \in Nat /\ DOMAIN e = 1..Len(e)
      BY NodeType
    <3> HIDE DEF e
    <3> QED BY <3>1 DEF ListItems
  <2>3. DOMAIN ObjectItems(e) = 1..Len(ObjectItems(e))
    <3>1. Texts(e) \in SUBSET Text
      BY TextKeys
    <3>2. Sorted(Texts(e)) \in Seq(Texts(e))
      <4> HIDE DEF e
      <4> QED BY <3>1, Sorting
    <3>3. \E n \in Nat : DOMAIN Sorted(Texts(e)) = 1..n
      <4> HIDE DEF e
      <4> QED BY <3>2
    <3> HIDE DEF e
    <3> QED BY <3>3 DEF ObjectItems
  <2> HIDE DEF e
  <2>4. CASE AsObject(e, x.cursor)
    BY <1>3, <2>1, <2>3, <2>4 DEF DocNode, Scalars, Tables
  <2>5. CASE ~AsObject(e, x.cursor)
    BY <1>3, <2>1, <2>2, <2>5 DEF DocNode, Scalars, Tables
  <2> QED BY <2>4, <2>5
<1> QED BY <1>1, <1>2, <1>3, NodeType

\* The accessors give what deserialize makes, and with getUInt also the longs
\* it refuses.
LEMMA HandNodes ==
    ASSUME NEW x, IsNode(x), NEW unsigned \in BOOLEAN
    PROVE  HandNode(SerNode(x), unsigned)
             = IF x.kind = "long" /\ unsigned THEN x ELSE Back(x)
<1> DEFINE d == SerNode(x)
<1>1. /\ d.kind = "uint" <=> x.kind = "long"
      /\ x.kind = "long" => d = DocNode("uint", Unsigned(x.n), <<>>)
      /\ DOMAIN d.items = 1..Len(d.items)
  BY SerKinds
<1>2. Back(x) = DeserNode(d)
  BY DEF Back
<1>3. CASE x.kind = "long"
  <2>1. x.n \in Long
    BY <1>3 DEF IsNode
  <2>2. d.kind = "uint" /\ d.n = Unsigned(x.n)
    BY <1>1, <1>3 DEF DocNode
  <2>3. x = Node("long", x.n, <<>>, 0)
    BY <1>3, BackCases DEF Scalars
  <2>4. GetUInt(Unsigned(x.n)) = x.n
    BY <2>1, Wrap
  <2> HIDE DEF d
  <2>5. HandNode(d, unsigned)
          = Node("long", IF unsigned THEN GetUInt(d.n) ELSE GetNumber(d.n), <<>>, 0)
    BY <2>2 DEF HandNode, IsInteger, IsArray, IsObject
  <2>6. DeserNode(d) = Node("long", d.n, <<>>, 0)
    BY <2>2 DEF DeserNode
  <2>7. CASE unsigned
    BY <1>3, <2>2, <2>3, <2>4, <2>5, <2>7 DEF d
  <2>8. CASE ~unsigned
    BY <1>2, <1>3, <2>2, <2>5, <2>6, <2>8 DEF GetNumber, d
  <2> QED BY <2>7, <2>8
<1>4. CASE x.kind # "long"
  <2> HIDE DEF d
  <2>1. d.kind # "uint"
    BY <1>1, <1>4
  <2>2. HandNode(d, unsigned) = DeserNode(d)
    <3>1. CASE d.kind = "list"
      BY <1>1, <3>1 DEF HandNode, DeserNode, IsInteger, IsArray, IsObject, Length, At, AsList
    <3>2. CASE d.kind = "object"
      BY <1>1, <3>2 DEF HandNode, DeserNode, IsInteger, IsArray, IsObject, Length, KeyAt, ValueAt, AsNamed
    <3>3. CASE d.kind \notin {"uint", "list", "object"}
      BY <3>3 DEF HandNode, DeserNode, IsInteger, IsArray, IsObject
    <3> QED BY <2>1, <3>1, <3>2, <3>3
  <2> QED BY <1>2, <1>4, <2>2 DEF d
<1> QED BY <1>3, <1>4

\* So does the loop, but for doubles.
LEMMA LoopNodes ==
    ASSUME NEW x, IsNode(x)
    PROVE  /\ x.kind # "double" => LoopNode(SerNode(x)) = Back(x) /\ Back(x).kind # "double"
           /\ x.kind = "double" => LoopNode(SerNode(x)).kind = "null" /\ Back(x).kind = "double"
<1> DEFINE d == SerNode(x)
<1>1. Back(x) = DeserNode(d)
  BY DEF Back
<1>2. CASE x.kind = "double"
  <2>1. d = DocNode("double", x.n, <<>>)
    BY <1>2, SerKinds DEF Scalars
  <2>2. d.kind = "double"
    BY <2>1 DEF DocNode
  <2> HIDE DEF d
  <2>3. LoopNode(d) = Node("null", 0, <<>>, 0) /\ DeserNode(d) = Node("double", d.n, <<>>, 0)
    BY <2>2 DEF LoopNode, Element, DeserNode
  <2>4. LoopNode(d).kind = "null" /\ DeserNode(d).kind = "double"
    BY <2>3 DEF Node
  <2> QED BY <1>1, <1>2, <2>4 DEF d
<1>3. CASE x.kind # "double"
  <2>1. d.kind # "double"
    <3>1. CASE x.kind \in Scalars \ {"long"}
      BY <1>3, <3>1, SerKinds DEF DocNode
    <3>2. CASE x.kind = "long"
      BY <3>2, SerKinds DEF DocNode
    <3>3. CASE x.kind \in Tables
      BY <3>3, SerKinds
    <3> QED BY <3>1, <3>2, <3>3, NodeType
  <2> HIDE DEF d
  <2>2. LoopNode(d) = DeserNode(d)
    BY <2>1 DEF LoopNode, Element, DeserNode
  <2>3. DeserNode(d).kind # "double"
    BY <2>1 DEF DeserNode, NewArray, Node
  <2> QED BY <1>1, <1>3, <2>2, <2>3 DEF d
<1> QED BY <1>2, <1>3

-----------------------------------------------------------------------------
(* Values.                                                                  *)

LEMMA TripDef ==
    ASSUME NEW v, IsValue(v)
    PROVE  /\ Fails(Ser(v)) <=> Thrown(v)
           /\ Deser(Ser(v)) = BackAll(v)
<1>1. ASSUME NEW p \in DOMAIN v
      PROVE  (Ser(v)[p].kind = "uint" /\ NoLong(Ser(v)[p].n)) <=> Negative(v[p])
  <2>1. IsNode(v[p]) /\ Ser(v)[p] = SerNode(v[p])
    BY DEF IsValue, Ser
  <2>2. CASE v[p].kind = "long"
    <3>1. v[p].n \in Long
      BY <2>1, <2>2 DEF IsNode
    <3>2. SerNode(v[p]) = DocNode("uint", Unsigned(v[p].n), <<>>)
      BY <2>1, <2>2, SerKinds
    <3>3. SerNode(v[p]).kind = "uint" /\ SerNode(v[p]).n = Unsigned(v[p].n)
      BY <3>2 DEF DocNode
    <3>4. v[p].n \in Int /\ (NoLong(Unsigned(v[p].n)) <=> v[p].n < 0)
      BY <3>1, Wrap
    <3> QED BY <2>1, <2>2, <3>3, <3>4 DEF Negative
  <2>3. CASE v[p].kind # "long"
    BY <2>1, <2>3, SerKinds DEF Negative
  <2> QED BY <2>2, <2>3
<1>2. DOMAIN Ser(v) = DOMAIN v
  BY DEF Ser
<1>3. Fails(Ser(v)) <=> Thrown(v)
  BY <1>1, <1>2 DEF Fails, Thrown
<1>4. Deser(Ser(v)) = BackAll(v)
  BY DEF Deser, Ser, BackAll, Back
<1> QED BY <1>3, <1>4

LEMMA BackValue ==
    ASSUME NEW v, IsValue(v), ~Thrown(v)
    PROVE  /\ IsValue(BackAll(v)) /\ ~Thrown(BackAll(v)) /\ DOMAIN BackAll(v) = DOMAIN v
           /\ \A p \in DOMAIN v : BackAll(v)[p] = Back(v[p])
<1> DEFINE w == BackAll(v)
<1>1. DOMAIN w = DOMAIN v /\ \A p \in DOMAIN v : w[p] = Back(v[p])
  BY DEF BackAll
<1> HIDE DEF w
<1>2. ASSUME NEW p \in DOMAIN v
      PROVE  IsNode(w[p]) /\ ~Negative(w[p]) /\ Places(w[p]) = Places(v[p])
  <2>1. IsNode(v[p]) /\ ~Negative(v[p])
    BY DEF IsValue, Thrown
  <2> QED BY <1>1, <2>1, BackType
<1>3. {{Append(p, at) : at \in Places(w[p])} : p \in DOMAIN w}
        = {{Append(p, at) : at \in Places(v[p])} : p \in DOMAIN v}
  <2>1. \A p \in DOMAIN v :
          {Append(p, at) : at \in Places(w[p])} = {Append(p, at) : at \in Places(v[p])}
    BY <1>2
  <2> QED BY <1>1, <2>1
<1>4. IsValue(w)
  BY <1>1, <1>2, <1>3 DEF IsValue
<1>5. ~Thrown(w)
  BY <1>1, <1>2 DEF Thrown
<1> QED BY <1>1, <1>4, <1>5 DEF w

LEMMA Twice ==
    ASSUME NEW v, IsValue(v), ~Thrown(v)
    PROVE  /\ IsValue(BackAll(BackAll(v))) /\ DOMAIN BackAll(BackAll(v)) = DOMAIN v
           /\ \A p \in DOMAIN v : BackAll(BackAll(v))[p] = Back(Back(v[p]))
           /\ BackAll(BackAll(BackAll(v))) = BackAll(BackAll(v))
<1> DEFINE w == BackAll(v)
           u == BackAll(w)
<1>1. /\ IsValue(w) /\ ~Thrown(w) /\ DOMAIN w = DOMAIN v
      /\ \A p \in DOMAIN v : w[p] = Back(v[p])
  BY BackValue
<1> HIDE DEF w
<1>2. /\ IsValue(u) /\ ~Thrown(u) /\ DOMAIN u = DOMAIN w
      /\ \A p \in DOMAIN w : u[p] = Back(w[p])
  BY <1>1, BackValue
<1>3. u = [p \in DOMAIN w |-> u[p]]
  BY <1>2 DEF BackAll
<1> HIDE DEF u
<1>4. \A p \in DOMAIN v : u[p] = Back(Back(v[p]))
  BY <1>1, <1>2
<1>5. ASSUME NEW p \in DOMAIN v PROVE Back(u[p]) = u[p]
  <2>1. IsNode(v[p]) /\ ~Negative(v[p])
    BY DEF IsValue, Thrown
  <2>2. Back(Back(Back(v[p]))) = Back(Back(v[p]))
    BY <2>1, BackSettles
  <2> QED BY <1>4, <2>2
<1>6. BackAll(u) = u
  BY <1>1, <1>2, <1>3, <1>5 DEF BackAll
<1> QED BY <1>1, <1>2, <1>4, <1>6 DEF u, w

-----------------------------------------------------------------------------
(* The invariant.                                                           *)

LEMMA CourseInit == Init => Course
<1> SUFFICES ASSUME Init PROVE Course
  OBVIOUS
<1>1. IsValue(orig)
  BY ValuesAssumption DEF Init
<1>2. 0 \in 0..MaxTrips
  BY TripsAssumption
<1> QED BY <1>1, <1>2 DEF Init, Course

LEMMA CourseTrip == Course /\ Trip => Course'
<1> SUFFICES ASSUME Course, Trip PROVE Course'
  OBVIOUS
<1>1. /\ IsValue(orig) /\ trips \in 0..MaxTrips /\ trips \in Nat /\ MaxTrips \in Nat
      /\ trips' = trips + 1 /\ trips < MaxTrips /\ orig' = orig /\ prev' = cur
  BY TripsAssumption DEF Course, Trip
<1>2. trips' \in 0..MaxTrips /\ trips' > 0
  BY <1>1
<1>3. /\ IsValue(cur)
      /\ Thrown(cur) <=> Thrown(orig)
      /\ Thrown(orig) => cur = orig
      /\ ~Thrown(orig) => /\ trips = 0 => cur = orig
                          /\ trips = 1 => cur = BackAll(orig)
                          /\ trips >= 2 => cur = BackAll(BackAll(orig))
  <2>1. CASE trips = 0
    BY <1>1, <2>1 DEF Course
  <2>2. CASE trips > 0 /\ out = "thrown"
    BY <1>1, <2>2 DEF Course
  <2>3. CASE trips > 0 /\ out # "thrown"
    <3>1. /\ ~Thrown(orig) /\ cur = BackAll(prev)
          /\ trips = 1 => prev = orig
          /\ trips = 2 => prev = BackAll(orig)
          /\ trips >= 3 => prev = BackAll(BackAll(orig))
      BY <2>3 DEF Course
    <3>2. IsValue(BackAll(orig)) /\ ~Thrown(BackAll(orig))
      BY <1>1, <3>1, BackValue
    <3>3. IsValue(BackAll(BackAll(orig))) /\ ~Thrown(BackAll(BackAll(orig)))
      BY <3>2, BackValue
    <3>4. BackAll(BackAll(BackAll(orig))) = BackAll(BackAll(orig))
      BY <1>1, <3>1, Twice
    <3>5. trips = 1 \/ trips = 2 \/ trips >= 3
      BY <1>1, <2>3
    <3>6. CASE trips = 1
      BY <3>1, <3>2, <3>6
    <3>7. CASE trips = 2
      BY <3>1, <3>3, <3>7
    <3>8. CASE trips >= 3
      <4>1. cur = BackAll(BackAll(orig)) /\ trips # 0 /\ trips # 1
        BY <3>1, <3>4, <3>8
      <4> QED BY <3>1, <3>3, <4>1
    <3> QED BY <3>5, <3>6, <3>7, <3>8
  <2>4. trips = 0 \/ trips > 0
    BY <1>1
  <2> QED BY <2>1, <2>2, <2>3, <2>4
<1>4. /\ doc' = Ser(cur)
      /\ out' = IF Thrown(orig) THEN "thrown" ELSE "ok"
      /\ cur' = IF Thrown(orig) THEN cur ELSE BackAll(cur)
  BY <1>3, TripDef DEF Trip
<1>5. /\ trips' = 1 <=> trips = 0
      /\ trips' = 2 <=> trips = 1
      /\ trips' >= 3 <=> trips >= 2
      /\ trips' # 0
  BY <1>1
<1>6. CASE Thrown(orig)
  BY <1>1, <1>2, <1>3, <1>4, <1>5, <1>6 DEF Course
<1>7. CASE ~Thrown(orig)
  BY <1>1, <1>2, <1>3, <1>4, <1>5, <1>7 DEF Course
<1> QED BY <1>6, <1>7

THEOREM CourseHolds == Spec => []Course
<1>1. Course /\ UNCHANGED vars => Course'
  BY DEF Course, vars
<1> QED BY <1>1, CourseInit, CourseTrip, PTL DEF Spec, Next

\* What the invariant says of a value that has come back.
LEMMA CameBack ==
    ASSUME Course, trips > 0, out = "ok"
    PROVE  /\ IsValue(orig) /\ ~Thrown(orig) /\ IsValue(prev) /\ IsValue(cur)
           /\ cur = BackAll(prev) /\ doc = Ser(prev)
           /\ trips = 1 => cur = BackAll(orig)
           /\ trips # 1 => cur = BackAll(BackAll(orig))
           /\ trips >= 3 => prev = BackAll(BackAll(orig))
<1>1. /\ IsValue(orig) /\ trips \in Nat /\ doc = Ser(prev) /\ ~Thrown(orig)
      /\ cur = BackAll(prev)
      /\ trips = 1 => prev = orig
      /\ trips = 2 => prev = BackAll(orig)
      /\ trips >= 3 => prev = BackAll(BackAll(orig))
  BY TripsAssumption DEF Course
<1>2. IsValue(BackAll(orig)) /\ IsValue(BackAll(BackAll(orig)))
  BY <1>1, BackValue, Twice
<1>3. BackAll(BackAll(BackAll(orig))) = BackAll(BackAll(orig))
  BY <1>1, Twice
<1>4. CASE trips = 1
  BY <1>1, <1>2, <1>4
<1>5. CASE trips = 2
  BY <1>1, <1>2, <1>5
<1>6. CASE trips >= 3
  <2>1. prev = BackAll(BackAll(orig)) /\ cur = BackAll(BackAll(orig)) /\ trips # 1
    BY <1>1, <1>3, <1>6
  <2> QED BY <1>1, <1>2, <2>1
<1>7. trips = 1 \/ trips = 2 \/ trips >= 3
  BY <1>1
<1> QED BY <1>4, <1>5, <1>6, <1>7

-----------------------------------------------------------------------------
(* The theorems.                                                            *)

\* Every value the script holds is one PHP can hold: no table has two entries
\* with one key, and no array a key that can never be looked up.
THEOREM TypeCorrect == Spec => []TypeOK
<1>1. Course => TypeOK
  <2> SUFFICES ASSUME Course PROVE TypeOK
    OBVIOUS
  <2>1. IsValue(orig) /\ trips \in 0..MaxTrips /\ out \in {"ok", "thrown"} /\ trips \in Nat
    BY TripsAssumption DEF Course
  <2>2. CASE trips > 0 /\ out = "ok"
    BY <2>1, <2>2, CameBack DEF TypeOK
  <2>3. CASE ~(trips > 0 /\ out = "ok")
    <3>1. cur = orig /\ prev = orig
      BY <2>1, <2>3 DEF Course
    <3> QED BY <2>1, <3>1 DEF TypeOK
  <2> QED BY <2>2, <2>3
<1> QED BY <1>1, CourseHolds, PTL

\* One trip gives back the same value exactly if every part of it is regular,
\* later ones exactly if every part is stable.
THEOREM ComesBack == Spec => []Exact
<1>1. Course => Exact
  <2> SUFFICES ASSUME Course, trips > 0
               PROVE  (out = "ok" /\ Same(cur, orig))
                        <=> \A p \in DOMAIN orig :
                              IF trips = 1 THEN Regular(orig[p]) ELSE Stable(orig[p])
    BY DEF Exact
  <2>1. IsValue(orig) /\ \A p \in DOMAIN orig : IsNode(orig[p])
    BY DEF Course, IsValue
  <2>2. CASE out = "ok"
    <3>1. /\ \A p \in DOMAIN orig : ~Negative(orig[p])
          /\ DOMAIN cur = DOMAIN orig
          /\ \A p \in DOMAIN orig :
               cur[p] = IF trips = 1 THEN Back(orig[p]) ELSE Back(Back(orig[p]))
      <4>1. /\ ~Thrown(orig) /\ IsValue(orig)
            /\ trips = 1 => cur = BackAll(orig)
            /\ trips # 1 => cur = BackAll(BackAll(orig))
        BY <2>2, CameBack
      <4>2. CASE trips = 1
        BY <4>1, <4>2, BackValue DEF Thrown
      <4>3. CASE trips # 1
        BY <4>1, <4>3, Twice DEF Thrown
      <4> QED BY <4>2, <4>3
    <3>2. \A p \in DOMAIN orig :
            SameNode(cur[p], orig[p])
              <=> IF trips = 1 THEN Regular(orig[p]) ELSE Stable(orig[p])
      BY <2>1, <3>1, BackSame, BackTwiceSame
    <3> QED BY <2>2, <3>1, <3>2 DEF Same
  <2>3. CASE out # "ok"
    <3>1. PICK p \in DOMAIN orig : Negative(orig[p])
      BY <2>3 DEF Course, Thrown
    <3>2. ~Regular(orig[p])
      <4>1. orig[p].kind = "long" /\ orig[p].n < 0 /\ orig[p].n \in Int
        BY <2>1, <3>1, NodeType DEF Negative
      <4> QED BY <4>1 DEF Regular
    <3> QED BY <2>3, <3>2 DEF Stable
  <2> QED BY <2>2, <2>3
<1> QED BY <1>1, CourseHolds, PTL

\* From the third trip on nothing changes.
THEOREM Settled == Spec => []Settles
<1>1. Course => Settles
  <2> SUFFICES ASSUME Course, trips >= 3, out = "ok" PROVE cur = prev
    BY DEF Settles
  <2>1. trips > 0 /\ trips # 1
    BY TripsAssumption DEF Course
  <2> QED BY <2>1, CameBack
<1> QED BY <1>1, CourseHolds, PTL

\* What the accessors read is what deserialize returns.
THEOREM HandReads == Spec => []ReadByHand
<1>1. Course => ReadByHand
  <2> SUFFICES ASSUME Course, trips > 0, out = "ok" PROVE Hand(doc, FALSE) = cur
    BY DEF ReadByHand
  <2>1. IsValue(prev) /\ cur = BackAll(prev) /\ doc = Ser(prev)
    BY CameBack
  <2>2. \A p \in DOMAIN prev : HandNode(SerNode(prev[p]), FALSE) = Back(prev[p])
    BY <2>1, HandNodes DEF IsValue
  <2>3. DOMAIN doc = DOMAIN prev /\ \A p \in DOMAIN prev : doc[p] = SerNode(prev[p])
    BY <2>1 DEF Ser
  <2>4. Hand(doc, FALSE) = [p \in DOMAIN prev |-> Back(prev[p])]
    BY <2>2, <2>3 DEF Hand
  <2> QED BY <2>1, <2>4 DEF BackAll
<1> QED BY <1>1, CourseHolds, PTL

\* A value that would come back but for its negative numbers can be read from
\* its document, also where deserialize throws.
THEOREM NumbersKept == Spec => []NumbersInDocument
<1>1. Course => NumbersInDocument
  <2> SUFFICES ASSUME Course, trips = 1, \A p \in DOMAIN orig : Regular(NonNegative(orig[p]))
               PROVE  Same(Hand(doc, TRUE), orig)
    BY DEF NumbersInDocument
  <2>1. doc = Ser(orig) /\ IsValue(orig)
    BY DEF Course
  <2>2. DOMAIN doc = DOMAIN orig /\ \A p \in DOMAIN orig : doc[p] = SerNode(orig[p])
    BY <2>1 DEF Ser
  <2>3. ASSUME NEW p \in DOMAIN orig
        PROVE  SameNode(HandNode(SerNode(orig[p]), TRUE), orig[p])
    <3>1. IsNode(orig[p])
      BY <2>1 DEF IsValue
    <3>2. HandNode(SerNode(orig[p]), TRUE)
            = IF orig[p].kind = "long" THEN orig[p] ELSE Back(orig[p])
      BY <3>1, HandNodes
    <3>3. CASE orig[p].kind = "long"
      BY <3>2, <3>3 DEF SameNode
    <3>4. CASE orig[p].kind # "long"
      <4>1. NonNegative(orig[p]) = orig[p] /\ ~Negative(orig[p])
        BY <3>4 DEF NonNegative, Negative
      <4>2. SameNode(Back(orig[p]), orig[p])
        BY <3>1, <4>1, BackSame
      <4> QED BY <3>2, <3>4, <4>2
    <3> QED BY <3>3, <3>4
  <2> QED BY <2>2, <2>3 DEF Same, Hand
<1> QED BY <1>1, CourseHolds, PTL

\* foreach reads what deserialize returns exactly if there is no double in it.
THEOREM LoopReads == Spec => []ForeachReads
<1>1. Course => ForeachReads
  <2> SUFFICES ASSUME Course, trips > 0, out = "ok"
               PROVE  Same(Loop(doc), cur) <=> \A p \in DOMAIN cur : cur[p].kind # "double"
    BY DEF ForeachReads
  <2>1. IsValue(prev) /\ cur = BackAll(prev) /\ doc = Ser(prev)
    BY CameBack
  <2>2. DOMAIN cur = DOMAIN prev /\ \A p \in DOMAIN prev : cur[p] = Back(prev[p])
    BY <2>1 DEF BackAll
  <2>3. /\ DOMAIN Loop(doc) = DOMAIN prev
        /\ \A p \in DOMAIN prev : Loop(doc)[p] = LoopNode(SerNode(prev[p]))
    BY <2>1 DEF Loop, Ser
  <2>4. ASSUME NEW p \in DOMAIN prev
        PROVE  SameNode(Loop(doc)[p], cur[p]) <=> cur[p].kind # "double"
    <3>1. IsNode(prev[p])
      BY <2>1 DEF IsValue
    <3>2. CASE prev[p].kind = "double"
      <4>1. Loop(doc)[p].kind = "null" /\ cur[p].kind = "double"
        BY <2>2, <2>3, <3>1, <3>2, LoopNodes
      <4> QED BY <4>1 DEF SameNode
    <3>3. CASE prev[p].kind # "double"
      <4>1. Loop(doc)[p] = cur[p] /\ cur[p].kind # "double"
        BY <2>2, <2>3, <3>1, <3>3, LoopNodes
      <4> QED BY <4>1 DEF SameNode
    <3> QED BY <3>2, <3>3
  <2> QED BY <2>2, <2>3, <2>4 DEF Same
<1> QED BY <1>1, CourseHolds, PTL
=============================================================================
