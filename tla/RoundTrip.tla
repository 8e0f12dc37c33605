------------------------------ MODULE RoundTrip ------------------------------
(* What comes back: TypeMapper::serialize and deserialize as functions, on   *)
(* values without callbacks, applied in turn as a script does that stores     *)
(* and reloads its data (tests 004 and 005); and the two other ways to read a *)
(* document, Slice's accessors and Slice's iterator.  (Serializer and          *)
(* Deserializer have the steps, the callbacks and the exceptions.)            *)
(*                                                                           *)
(* All four recurse over the data, and what they make of a part of it depends *)
(* on that part alone: on the keys and the cursor of a table, not on what its *)
(* entries hold.  So a PHP value is a function from its parts to nodes, a     *)
(* document one from the same parts, and the recursion is an operator on      *)
(* nodes, applied to every part.                                             *)
(*                                                                           *)
(* A part is named by the way to it, a sequence of places: <<>> is the value   *)
(* itself, Append(p, at) what the entry of part p with place at holds.  An     *)
(* entry keeps its place when it moves, so two entries are told apart even    *)
(* where they hold equal values.                                             *)
EXTENDS Integers, Sequences, FiniteSets, Functions

CONSTANTS
    LongMod,    \* 2^w for the w bits of a long
    Order,      \* all texts, as the library sorts them
    IntOf,      \* the integers that some of the texts print
    Mangled,    \* the texts that name private and protected properties
    Values,     \* the values the script starts from
    MaxTrips    \* bound: trips

Text == Range(Order)
Number == Range(IntOf)
ASSUME LongAssumption == LongMod \in {2 * n : n \in 1..LongMod}
ASSUME TextAssumption ==
    /\ Order \in Seq(Text) /\ IsInjective(Order)
    /\ DOMAIN IntOf \cup Mangled \subseteq Text
    /\ DOMAIN IntOf \cap Mangled = {}
    /\ IsInjective(IntOf) /\ Number \subseteq Int
ASSUME TripsAssumption == MaxTrips \in Nat

-----------------------------------------------------------------------------
(* Values.  A node has a kind; which long, double or string it is; the        *)
(* entries of an array or an object without a serializer, in their order; and *)
(* the one the table's internal cursor is on (0: past the end).               *)

Scalars == {"null", "false", "true", "long", "double", "string"}
Tables == {"array", "plain"}
Long == -(LongMod \div 2) .. LongMod \div 2 - 1

IntKey(n) == [long |-> TRUE, n |-> n, s |-> ""]
NameKey(t) == [long |-> FALSE, n |-> 0, s |-> t]
Key == {IntKey(n) : n \in Number} \cup {NameKey(t) : t \in Text}
Entry == [key : Key, at : Nat]

Node(kind, n, entries, cursor) ==
    [kind |-> kind, n |-> n, entries |-> entries, cursor |-> cursor]

\* An array has its integers as integer keys, an object has names alone.
KeyOf(kind, k) ==
    CASE kind = "array" -> k.long \/ k.s \notin DOMAIN IntOf
      [] kind = "plain" -> ~k.long
      [] OTHER -> FALSE
IsNode(x) ==
    /\ x \in [kind : Scalars \cup Tables, n : Int, entries : Seq(Entry), cursor : Nat]
    /\ x.cursor <= Len(x.entries)
    /\ x.kind = "long" => x.n \in Long
    /\ x.kind \in Tables => x.n = 0
    /\ \A i \in DOMAIN x.entries : KeyOf(x.kind, x.entries[i].key) /\ i - 1 \in Number
    /\ \A i, j \in DOMAIN x.entries :
         x.entries[i].key = x.entries[j].key \/ x.entries[i].at = x.entries[j].at => i = j

Places(x) == {e.at : e \in Range(x.entries)}
IsValue(v) ==
    /\ DOMAIN v \subseteq Seq(Nat)
    /\ DOMAIN v = {<<>>} \cup UNION {{Append(p, at) : at \in Places(v[p])} : p \in DOMAIN v}
    /\ \A p \in DOMAIN v : IsNode(v[p])
ASSUME ValuesAssumption == \A v \in Values : IsValue(v)

\* A document has "uint" for "long", and lists and objects of items in the
\* library's order: the text of an object's key ("" in a list), and the place.
DocNode(kind, n, items) == [kind |-> kind, n |-> n, items |-> items]
Item(text, at) == [text |-> text, at |-> at]

VARIABLES
    orig,   \* the value the script started from
    prev,   \* the value before the last trip
    cur,    \* the value now
    doc,    \* the document of the last trip
    trips,  \* the trips made
    out     \* how the last one ended: "ok" or "thrown"
vars == <<orig, prev, cur, doc, trips, out>>

-----------------------------------------------------------------------------
(* Serialization.                                                           *)

\* A bug: only the entry at the cursor is looked at.
AsObjectAtCursor(entries, cursor) == cursor = 0 \/ ~entries[cursor].key.long
\* Whether a table is written as an object: its cursor is not on an integer
\* key, or some entry after the first has a name.
AsObject(entries, cursor) ==
    \/ cursor = 0
    \/ ~entries[cursor].key.long
    \/ \E i \in 2..Len(entries) : ~entries[i].key.long

KeyText(k) == IF k.long THEN CHOOSE t \in DOMAIN IntOf : IntOf[t] = k.n ELSE k.s
Texts(entries) == {KeyText(e.key) : e \in Range(entries)}

\* The texts of a set in the library's order: the i-th has i - 1 before it.
Before(T, i) == {j \in DOMAIN Order : j < i /\ Order[j] \in T}
Sorted(T) ==
    [k \in 1..Cardinality(T) |->
        Order[CHOOSE i \in DOMAIN Order : Order[i] \in T /\ Cardinality(Before(T, i)) = k - 1]]

\* The properties of an object that are written: all of its table.
Written(x) == x.entries

\* A bug: the sign is moved to the lowest bit.
UnsignedZigzag(n) == IF n < 0 THEN -2 * n - 1 ELSE 2 * n
\* A long is written as the unsigned number with the same bits.
Unsigned(n) == n % LongMod

PlaceOf(entries, t) == (CHOOSE e \in Range(entries) : KeyText(e.key) = t).at
ObjectItems(entries) ==
    [i \in DOMAIN Sorted(Texts(entries)) |->
        Item(Sorted(Texts(entries))[i], PlaceOf(entries, Sorted(Texts(entries))[i]))]
ListItems(entries) == [i \in DOMAIN entries |-> Item("", entries[i].at)]

SerNode(x) ==
    CASE x.kind = "long" -> DocNode("uint", Unsigned(x.n), <<>>)
      [] x.kind \in Tables ->
           IF AsObject(Written(x), x.cursor)
           THEN DocNode("object", 0, ObjectItems(Written(x)))
           ELSE DocNode("list", 0, ListItems(Written(x)))
      [] OTHER -> DocNode(x.kind, x.n, <<>>)
Ser(v) == [p \in DOMAIN v |-> SerNode(v[p])]

-----------------------------------------------------------------------------
(* Deserialization.                                                         *)

\* getInt throws for a number that is no long.
NoLong(n) == n >= LongMod \div 2
Fails(d) == \E p \in DOMAIN d : d[p].kind = "uint" /\ NoLong(d[p].n)

\* A bug: add_assoc_zval_ex without the symbol table's rule.
KeyPartText(t) == NameKey(t)
\* The key of an array that a text is: an integer if it prints one.
KeyPart(t) == IF t \in DOMAIN IntOf THEN IntKey(IntOf[t]) ELSE NameKey(t)

\* A new table has its cursor on the first entry.
NewArray(entries) == Node("array", 0, entries, IF entries = <<>> THEN 0 ELSE 1)
AsList(items) == [i \in DOMAIN items |-> [key |-> IntKey(i - 1), at |-> items[i].at]]
AsNamed(items) == [i \in DOMAIN items |-> [key |-> KeyPart(items[i].text), at |-> items[i].at]]

DeserNode(d) ==
    CASE d.kind = "uint" -> Node("long", d.n, <<>>, 0)
      [] d.kind = "list" -> NewArray(AsList(d.items))
      [] d.kind = "object" -> NewArray(AsNamed(d.items))
      [] OTHER -> Node(d.kind, d.n, <<>>, 0)
Deser(d) == [p \in DOMAIN d |-> DeserNode(d[p])]

-----------------------------------------------------------------------------
(* Reading by hand: PHP code that goes through a slice with the accessors,   *)
(* asking before it reads.                                                   *)

\* isInteger, isArray and isObject.
IsInteger(d) == d.kind = "uint"
IsArray(d) == d.kind = "list"
IsObject(d) == d.kind = "object"

\* A bug: an unsigned number is given as its low bits.
GetUIntLow(n) == n % (LongMod \div 2)
\* getUInt, returned as a long.
GetUInt(n) == IF NoLong(n) THEN n - LongMod ELSE n
\* getNumber: an integer as getInt gives it.  (Where that throws, no run of
\* the reader has a result: see ReadByHand.)
GetNumber(n) == n

\* keyAt, and the places valueAt and at give documents of.
KeyAt(d, i) == d.items[i].text
ValueAt(d, i) == d.items[i].at
At(d, i) == d.items[i].at
\* A bug: the last entry is not read.
LengthShort(d) == IF Len(d.items) = 0 THEN 0 ELSE Len(d.items) - 1
Length(d) == Len(d.items)

HandNode(d, unsigned) ==
    CASE IsInteger(d) ->
           Node("long", IF unsigned THEN GetUInt(d.n) ELSE GetNumber(d.n), <<>>, 0)
      [] IsArray(d) ->
           NewArray([i \in 1..Length(d) |-> [key |-> IntKey(i - 1), at |-> At(d, i)]])
      [] IsObject(d) ->
           NewArray([i \in 1..Length(d) |-> [key |-> KeyPart(KeyAt(d, i)), at |-> ValueAt(d, i)]])
      [] OTHER -> Node(d.kind, d.n, <<>>, 0)
Hand(d, unsigned) == [p \in DOMAIN d |-> HandNode(d[p], unsigned)]

-----------------------------------------------------------------------------
(* Reading with foreach: over a slice of a list or an object, and over the    *)
(* slices the loop delivers for the lists and objects in it.                  *)

\* A bug: an unsigned number has no case either.
ElementSignedOnly(d) ==
    IF d.kind \in {"uint", "double"} THEN Node("null", 0, <<>>, 0) ELSE Node(d.kind, d.n, <<>>, 0)
\* slice_iterator_get_data for a scalar: doubles have no case, and are
\* delivered as null with a warning.
Element(d) ==
    CASE d.kind = "uint" -> Node("long", d.n, <<>>, 0)
      [] d.kind = "double" -> Node("null", 0, <<>>, 0)
      [] OTHER -> Node(d.kind, d.n, <<>>, 0)

LoopNode(d) ==
    CASE d.kind = "list" -> NewArray(AsList(d.items))
      [] d.kind = "object" -> NewArray(AsNamed(d.items))
      [] OTHER -> Element(d)
Loop(d) == [p \in DOMAIN d |-> LoopNode(d[p])]

-----------------------------------------------------------------------------
Init == /\ orig \in Values /\ cur = orig /\ prev = orig
        /\ doc = <<>> /\ trips = 0 /\ out = "ok"

\* $data = $m->deserialize($m->serialize($data)); a call that throws assigns
\* nothing.
Trip == /\ trips < MaxTrips
        /\ trips' = trips + 1
        /\ doc' = Ser(cur)
        /\ out' = IF Fails(Ser(cur)) THEN "thrown" ELSE "ok"
        /\ cur' = IF Fails(Ser(cur)) THEN cur ELSE Deser(Ser(cur))
        /\ prev' = cur
        /\ UNCHANGED orig

Next == Trip
Spec == Init /\ [][Next]_vars

-----------------------------------------------------------------------------
(* Properties.                                                              *)

\* The values are values PHP can hold, also those deserialize makes: no array
\* has a key that can never be looked up.
TypeOK == /\ IsValue(orig) /\ IsValue(cur) /\ IsValue(prev)
          /\ trips \in 0..MaxTrips /\ out \in {"ok", "thrown"}

\* PHP's == on arrays: the same keys with the same values, in any order.
SameNode(x, y) ==
    x.kind = y.kind /\ x.n = y.n /\ Range(x.entries) = Range(y.entries)
Same(v, w) == DOMAIN v = DOMAIN w /\ \A p \in DOMAIN v : SameNode(v[p], w[p])

InSequence(entries) == \A i \in DOMAIN entries : entries[i].key = IntKey(i - 1)

\* A table whose keys survive: of an object all do, of a list only 0, 1, 2...
KeysSurvive(x) == AsObject(x.entries, x.cursor) \/ InSequence(x.entries)
\* The table a trip makes of it has its keys in the order of the texts; if they
\* are all integers, it is a list from then on.
KeysSettle(x) ==
    (\A e \in Range(x.entries) : e.key.long)
        => InSequence(IF AsObject(x.entries, x.cursor)
                      THEN AsNamed(ObjectItems(x.entries)) ELSE x.entries)

Regular(x) == /\ x.kind # "plain"
              /\ x.kind = "long" => x.n >= 0
              /\ x.kind = "array" => KeysSurvive(x)
Stable(x) == Regular(x) /\ (x.kind = "array" => KeysSettle(x))

\* What serialize and deserialize promise together, and no more: one trip
\* gives back the same value exactly for values without objects and negative
\* numbers whose lists are numbered 0, 1, 2... and have their cursor where it
\* is seen (TypeMapper.cpp:26); and later trips do so exactly if no list was
\* once written as an object and came back in the order of texts ("10" before
\* "2").
Exact ==
    trips > 0 => ((out = "ok" /\ Same(cur, orig))
                    <=> \A p \in DOMAIN orig :
                          IF trips = 1 THEN Regular(orig[p]) ELSE Stable(orig[p]))

\* The loop of test 005 reaches a fixed point: from the third trip on nothing
\* changes any more, not even an order or a cursor.  (Two trips are needed for
\* objects with decimal names.)
Settles == trips >= 3 /\ out = "ok" => cur = prev

\* Code that reads a document with the predicates and accessors of Slice gets
\* what deserialize returns, down to the order of the entries, where
\* deserialize does not throw.
ReadByHand == trips > 0 /\ out = "ok" => Hand(doc, FALSE) = cur

\* Nothing is lost of a value that deserialize refuses for its negative
\* numbers: getUInt gives them back.
NonNegative(x) == IF x.kind = "long" THEN [x EXCEPT !.n = 0] ELSE x
NumbersInDocument ==
    (trips = 1 /\ \A p \in DOMAIN orig : Regular(NonNegative(orig[p])))
        => Same(Hand(doc, TRUE), orig)

\* foreach over a slice, and over the slices it delivers, reads what deserialize
\* returns, except for doubles: those it loses, every one of them.
ForeachReads ==
    (trips > 0 /\ out = "ok" /\ doc[<<>>].kind \in {"list", "object"})
        => (Same(Loop(doc), cur) <=> \A p \in DOMAIN cur : cur[p].kind # "double")

\* "No serializer for class '%s' found, writing public keys"
\* (TypeMapper.cpp:190): what is written of an object are its public keys.
PublicKeysOnly ==
    (trips > 0 /\ prev[<<>>].kind = "plain")
        => \A i \in DOMAIN doc[<<>>].items : doc[<<>>].items[i].text \notin Mangled
=============================================================================
