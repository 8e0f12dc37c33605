---------------------------- MODULE SliceObjects ----------------------------
(* Slice objects and their iterators (Slice.cpp, and deserialize for the     *)
(* arguments of its callbacks): PHP objects that point into a PHP string     *)
(* holding a document, keep it alive by its reference count, and hand out    *)
(* further objects for the values inside it.                                 *)
(*                                                                          *)
(* A document is a tree of values at positions of its string; the library   *)
(* (external) finds the position of a sub-value, the extension turns it     *)
(* into an object: an offset from the start of the string, and a pointer.   *)
EXTENDS Integers, Sequences, FiniteSets

CONSTANTS
    Slot,       \* places for Slice objects
    Iter,       \* places for iterators
    Str,        \* strings, each holding one document
    Base,       \* the address of the bytes of each string
    Kids,       \* Kids[s][p]: positions of the sub-values of the value at p
    Kind,       \* Kind[s][p]: "table", "tagged", "atom" or "huge"
    NoneAddr,   \* the address of the library's None value
    Offset,     \* the offsets PHP code gives to the constructor
    MaxHolds,   \* bound: references to one string
    MaxRefs     \* bound: references to one object

\* "huge" is a number that getInt cannot return; a tagged value has the value
\* under the tag as its only sub-value.
ASSUME AddressAssumption == Base \in [Str -> Nat] /\ NoneAddr \in Nat
                            /\ Offset \subseteq Int
ASSUME BoundAssumption == MaxHolds \in Nat /\ MaxRefs \in Nat
ASSUME DocAssumption ==
    \A s \in Str :
        /\ 0 \in DOMAIN Kids[s] /\ DOMAIN Kids[s] \subseteq Nat
        /\ \A p \in DOMAIN Kids[s] :
            /\ Kind[s][p] \in {"table", "tagged", "atom", "huge"}
            /\ Kids[s][p] \in Seq(DOMAIN Kids[s])
            /\ \A k \in DOMAIN Kids[s][p] : Kids[s][p][k] > p
            /\ Kind[s][p] = "tagged" => Len(Kids[s][p]) = 1
ASSUME PlaceAssumption ==
    0 \notin Slot /\ IsFiniteSet(Slot) /\ IsFiniteSet(Iter) /\ Str # {}

Nobody == 0     \* no object
Missing == -1   \* the position of a value that is not there
Adrift == -2    \* no position: an offset that PHP code made up, or one that
                \* was computed from two different strings
Bare == -3      \* Slice::__construct did not run: no string, no address
Foreign == -4   \* a clone: the engine copies the PHP part of an object only

VARIABLES
    obj,    \* the Slice objects; refs = 0: the slot is free
    vars,   \* vars[x]: the script's variables that hold the object in x
    rc,     \* the reference counts of the strings
    own,    \* own[s]: the variables that hold the string s
    it,     \* the iterators; on = Nobody: not in use
    tidy,   \* no object with a string was constructed again, and no element
            \* of an iterator read twice
    dead    \* the request is over: E_ERROR, a C++ exception in the engine, or
            \* a read where there is no value
state == <<obj, vars, rc, own, it, tidy, dead>>

Free == [refs |-> 0, str |-> CHOOSE s \in Str : TRUE, start |-> 0, offset |-> 0, at |-> 0]
Idle == [on |-> Nobody, parts |-> <<>>, idx |-> 0, cur |-> Nobody,
         loop |-> FALSE, read |-> FALSE, moved |-> FALSE, got |-> <<>>]

Abs(n) == IF n < 0 THEN -n ELSE n
Live(x) == obj[x].refs > 0
HasString(r) == r.at \notin {Bare, Foreign}
Address(s, at) == IF at = Missing THEN NoneAddr ELSE Base[s] + at
Node(x) == Kind[obj[x].str][obj[x].at]
Parts(x) == Kids[obj[x].str][obj[x].at]
\* An object whose value is there: on a missing one the library throws, and
\* what it makes of one that is adrift is undefined.
Found(x) == Live(x) /\ obj[x].at >= 0

\* slice_ctor: an object for offset off of string s; "at" records the value
\* it is meant for.
Made(s, off, at) ==
    [refs |-> 1, str |-> s, start |-> Base[s] + off, offset |-> off, at |-> at]
\* A bug: the parent's offset forgotten.
DerivedFromParent(y, addr) == Abs(obj[y].start - addr)
\* new_slice_ref_slice: the distance of the value from the parent, added to
\* the parent's offset.
Derived(y, addr) == Abs(obj[y].start - addr) + obj[y].offset
\* new_slice_ref: a copy for the parameters, one more for startZval in
\* Slice::__construct, the parameters released.
CopyIn(n) == n + 1
\* A bug: the parameters not released.
CountNewUnreleased(n) == CopyIn(CopyIn(n))
CountNew(n) == CopyIn(CopyIn(n)) - 1

\* A bug: a reference given up twice.
DropTwice(o, x) == [o EXCEPT ![x].refs = @ - 2]
\* One reference to the object in x less; the last one frees it, and with it
\* its hold on the string, if it has one (slice_free_object).
Drop(o, x) == IF o[x].refs = 1 THEN [o EXCEPT ![x] = Free]
              ELSE [o EXCEPT ![x].refs = @ - 1]
Release(o, r, x) ==
    IF o[x].refs = 1 /\ HasString(o[x]) THEN [r EXCEPT ![o[x].str] = @ - 1] ELSE r

-----------------------------------------------------------------------------
\* A string appears in a variable of the script, which is unset later.  (One
\* variable per string: more would only be more of the same.)
TakeString(s) ==
    /\ own[s] = 0 /\ rc[s] < MaxHolds
    /\ rc' = [rc EXCEPT ![s] = @ + 1] /\ own' = [own EXCEPT ![s] = @ + 1]
    /\ UNCHANGED <<obj, vars, it, tidy, dead>>
UnsetString(s) ==
    /\ own[s] > 0
    /\ rc' = [rc EXCEPT ![s] = @ - 1] /\ own' = [own EXCEPT ![s] = @ - 1]
    /\ UNCHANGED <<obj, vars, it, tidy, dead>>

\* The object in the free slot x goes to a variable of the script.
Return(x, s, off, at) ==
    /\ ~Live(x)
    /\ obj' = [obj EXCEPT ![x] = Made(s, off, at)]
    /\ vars' = [vars EXCEPT ![x] = 1]
    /\ UNCHANGED <<own, it, tidy, dead>>

\* The constructor takes any offset for that of a value.
Pointed(s, off) == IF off \in DOMAIN Kids[s] THEN off ELSE Adrift

\* new Slice($string, $offset).  (Without a string the constructor throws, and
\* PHP frees the object it could not construct: nothing has changed.)
Construct(x, s, off) ==
    /\ own[s] > 0 /\ rc[s] < MaxHolds
    /\ Return(x, s, off, Pointed(s, off))
    /\ rc' = [rc EXCEPT ![s] = CopyIn(@)]

\* An object without a string: the constructor of a subclass did not call
\* Slice::__construct, or caught its exception; and a clone.
Stringless(x, at) ==
    /\ ~Live(x)
    /\ obj' = [obj EXCEPT ![x] = [Free EXCEPT !.refs = 1, !.at = at]]
    /\ vars' = [vars EXCEPT ![x] = 1]
    /\ UNCHANGED <<rc, own, it, tidy, dead>>
NewBare(x) == Stringless(x, Bare)
Clone(x, y) == Live(y) /\ vars[y] > 0 /\ Stringless(x, Foreign)

\* What a callback of TypeMapper::deserialize gets: the value under the tag at
\* p, by its distance from the start of the string (new_slice_ref_zval).
\* deserialize's own hold on object and string, which lasts as long as the
\* callback, is one more variable.
SliceForCallback(x, s, p) ==
    /\ own[s] > 0 /\ rc[s] < MaxHolds
    /\ Kind[s][p] = "tagged"
    /\ LET at == Kids[s][p][1]
       IN  Return(x, s, Abs(Base[s] - Address(s, at)), at)
    /\ rc' = [rc EXCEPT ![s] = CountNew(@)]

\* at, keyAt, valueAt, getNthValue, and get of a key that is there.
Navigate(x, y, k) ==
    /\ Found(y) /\ Node(y) = "table" /\ k \in DOMAIN Parts(y)
    /\ rc[obj[y].str] < MaxHolds
    /\ Return(x, obj[y].str, Derived(y, Address(obj[y].str, Parts(y)[k])), Parts(y)[k])
    /\ rc' = [rc EXCEPT ![obj[y].str] = CountNew(@)]

\* get of a key that is not there: the library answers with its None value.
NavigateMissing(x, y) ==
    /\ Found(y) /\ Node(y) = "table" /\ rc[obj[y].str] < MaxHolds
    /\ Return(x, obj[y].str, Derived(y, NoneAddr), Missing)
    /\ rc' = [rc EXCEPT ![obj[y].str] = CountNew(@)]

\* value of a tagged value: a second object for the same place.
ValueTagged(x, y) ==
    /\ Found(y) /\ Node(y) = "tagged" /\ rc[obj[y].str] < MaxHolds
    /\ Return(x, obj[y].str, Derived(y, obj[y].start), obj[y].at)
    /\ rc' = [rc EXCEPT ![obj[y].str] = CountNew(@)]

\* One more variable for an object: value of a value without a tag returns
\* the object itself, and PHP copies variables.
Share(y) ==
    /\ Live(y) /\ vars[y] > 0 /\ obj[y].refs < MaxRefs
    /\ obj' = [obj EXCEPT ![y].refs = @ + 1] /\ vars' = [vars EXCEPT ![y] = @ + 1]
    /\ UNCHANGED <<rc, own, it, tidy, dead>>

Unset(y) ==
    /\ vars[y] > 0
    /\ obj' = Drop(obj, y) /\ rc' = Release(obj, rc, y)
    /\ vars' = [vars EXCEPT ![y] = @ - 1]
    /\ UNCHANGED <<own, it, tidy, dead>>

\* A bug: the string it had is given up, as if nothing else could use it.
ReconstructReleases(y, s, off) ==
    /\ Live(y) /\ vars[y] > 0 /\ obj[y].at # Foreign /\ own[s] > 0 /\ rc[s] < MaxHolds
    /\ obj' = [obj EXCEPT ![y] = [Made(s, off, Pointed(s, off)) EXCEPT !.refs = obj[y].refs]]
    /\ rc' = [Release([obj EXCEPT ![y].refs = 1], rc, y) EXCEPT ![s] = CopyIn(@)]
    /\ it' = [i \in Iter |-> [it[i] EXCEPT !.moved = @ \/ it[i].on = y]]
    /\ tidy' = (tidy /\ ~HasString(obj[y]))
    /\ UNCHANGED <<vars, own, dead>>
\* $slice->__construct($string): a string the object had is overwritten and
\* never released.
Reconstruct(y, s, off) ==
    /\ Live(y) /\ vars[y] > 0 /\ obj[y].at # Foreign /\ own[s] > 0 /\ rc[s] < MaxHolds
    /\ obj' = [obj EXCEPT ![y] = [Made(s, off, Pointed(s, off)) EXCEPT !.refs = obj[y].refs]]
    /\ rc' = [rc EXCEPT ![s] = CopyIn(@)]
    /\ it' = [i \in Iter |-> [it[i] EXCEPT !.moved = @ \/ it[i].on = y]]
    /\ tidy' = (tidy /\ ~HasString(obj[y]))
    /\ UNCHANGED <<vars, own, dead>>

\* Any other method of an object that points at no value, and construction of
\* a clone, use memory that is not theirs; what comes of it is not followed.
Misuse(y) ==
    /\ Live(y) /\ vars[y] > 0 /\ obj[y].at \in {Adrift, Bare, Foreign}
    /\ dead' = TRUE
    /\ UNCHANGED <<obj, vars, rc, own, it, tidy>>

-----------------------------------------------------------------------------
\* slice_get_iterator: for foreach (loop), which rewinds the new iterator at
\* once and never again, or for getIterator, which makes the engine's
\* InternalIterator.  The library's iterator keeps the table it was given.
Begin(i, y, loop) ==
    /\ it[i].on = Nobody
    /\ Found(y) /\ vars[y] > 0 /\ Node(y) = "table" /\ obj[y].refs < MaxRefs
    /\ obj' = [obj EXCEPT ![y].refs = @ + 1]
    /\ it' = [it EXCEPT ![i] = [Idle EXCEPT !.on = y, !.loop = loop,
                                  !.parts = [k \in DOMAIN Parts(y) |->
                                               <<obj[y].str, Parts(y)[k]>>]]]
    /\ UNCHANGED <<vars, rc, own, tidy, dead>>
\* What is no table cannot be iterated: E_ERROR.
BeginFails(y) ==
    /\ Live(y) /\ vars[y] > 0
    /\ obj[y].at = Missing \/ (Found(y) /\ Node(y) # "table")
    /\ dead' = TRUE
    /\ UNCHANGED <<obj, vars, rc, own, it, tidy>>

Used(i) == it[i].on # Nobody
Valid(i) == it[i].idx < Len(it[i].parts)
\* foreach asks for an element once, at each valid position; PHP code may ask
\* again, and past the end.
Asked(i) == Used(i) /\ (it[i].loop => Valid(i) /\ ~it[i].read)
Part(i) == it[i].parts[it[i].idx + 1]
KindOf(part) == Kind[part[1]][part[2]]

\* slice_iterator_get_data ends in a C++ exception that nothing catches.
DataThrows(i) ==
    /\ Asked(i)
    /\ Valid(i) => KindOf(Part(i)) = "huge"
    /\ dead' = TRUE
    /\ UNCHANGED <<obj, vars, rc, own, it, tidy>>

\* slice_iterator_get_data: the element replaces the current one, which is
\* not released here.
Asking(i, x) ==
    /\ Asked(i) /\ Valid(i)
    /\ it' = [it EXCEPT ![i].read = TRUE, ![i].cur = x,
                        ![i].got = IF it[i].loop THEN Append(@, Part(i)[2]) ELSE @]
    /\ tidy' = (tidy /\ ~it[i].read)
    /\ UNCHANGED <<vars, own, dead>>

DataScalar(i) ==
    /\ Asking(i, Nobody)
    /\ KindOf(Part(i)) = "atom"
    /\ UNCHANGED <<obj, rc>>

DataSlice(i, x) ==
    LET y == it[i].on
        s == obj[y].str
        at == IF it[i].moved THEN Adrift ELSE Part(i)[2]
    IN  /\ Asking(i, x)
        /\ KindOf(Part(i)) \in {"table", "tagged"}
        /\ ~Live(x) /\ rc[s] < MaxHolds
        /\ obj' = [obj EXCEPT ![x] =
                     Made(s, Derived(y, Address(Part(i)[1], Part(i)[2])), at)]
        /\ rc' = [rc EXCEPT ![s] = CountNew(@)]

\* The element is copied to a variable of the script.
Assign(i) ==
    LET x == it[i].cur
    IN  /\ x # Nobody /\ obj[x].refs < MaxRefs
        /\ obj' = [obj EXCEPT ![x].refs = @ + 1] /\ vars' = [vars EXCEPT ![x] = @ + 1]
        /\ UNCHANGED <<rc, own, it, tidy, dead>>

\* slice_iterator_invalidate: release the current element, if it is an object.
DropCurrent(i) == IF it[i].cur = Nobody THEN obj ELSE Drop(obj, it[i].cur)
RcCurrent(i) == IF it[i].cur = Nobody THEN rc ELSE Release(obj, rc, it[i].cur)

\* A bug: at the end of the table it starts again.
MoveForwardsRound(i) ==
    /\ Used(i) /\ it[i].read
    /\ it' = [it EXCEPT ![i].idx = (@ + 1) % Len(it[i].parts),
                        ![i].cur = Nobody, ![i].read = FALSE]
    /\ obj' = DropCurrent(i) /\ rc' = RcCurrent(i)
    /\ UNCHANGED <<vars, own, tidy, dead>>
\* slice_iterator_move_forwards: one element on, unless past the end.
MoveForwards(i) ==
    /\ Used(i)
    /\ it[i].loop => Valid(i) /\ it[i].read
    /\ it' = [it EXCEPT ![i].idx = IF Valid(i) THEN @ + 1 ELSE @,
                        ![i].cur = Nobody, ![i].read = FALSE]
    /\ obj' = DropCurrent(i) /\ rc' = RcCurrent(i)
    /\ UNCHANGED <<vars, own, tidy, dead>>

\* slice_iterator_rewind, by InternalIterator: whatever has become of the object
\* it is on, the table it was made for again.
Rewind(i) ==
    /\ Used(i) /\ ~it[i].loop
    /\ it' = [it EXCEPT ![i].idx = 0, ![i].cur = Nobody, ![i].read = FALSE]
    /\ obj' = DropCurrent(i) /\ rc' = RcCurrent(i)
    /\ UNCHANGED <<vars, own, tidy, dead>>

\* slice_iterator_dtor: foreach is left, at its end or by break; or the
\* InternalIterator is unset.  Releases the element, then the object.
End(i) ==
    LET o == DropCurrent(i)
    IN  /\ Used(i)
        /\ obj' = Drop(o, it[i].on)
        /\ rc' = Release(o, RcCurrent(i), it[i].on)
        /\ it' = [it EXCEPT ![i] = Idle]
        /\ UNCHANGED <<vars, own, tidy, dead>>

-----------------------------------------------------------------------------
Init ==
    /\ obj = [x \in Slot |-> Free] /\ vars = [x \in Slot |-> 0]
    /\ rc = [s \in Str |-> 0] /\ own = [s \in Str |-> 0]
    /\ it = [i \in Iter |-> Idle]
    /\ tidy = TRUE /\ dead = FALSE

Objects ==
    \/ \E s \in Str : TakeString(s) \/ UnsetString(s)
    \/ \E x \in Slot, s \in Str : \E p \in DOMAIN Kids[s] :
            SliceForCallback(x, s, p)
    \/ \E x \in Slot, s \in Str, off \in Offset : Construct(x, s, off) \/ Reconstruct(x, s, off)
    \/ \E x, y \in Slot : NavigateMissing(x, y) \/ ValueTagged(x, y) \/ Clone(x, y)
    \/ \E x, y \in Slot : Found(y) /\ \E k \in DOMAIN Parts(y) : Navigate(x, y, k)
    \/ \E y \in Slot : NewBare(y) \/ Share(y) \/ Unset(y) \/ Misuse(y) \/ BeginFails(y)
Iterators ==
    \/ \E i \in Iter, y \in Slot, loop \in BOOLEAN : Begin(i, y, loop)
    \/ \E i \in Iter : DataThrows(i) \/ DataScalar(i) \/ Assign(i)
    \/ \E i \in Iter : MoveForwards(i) \/ Rewind(i) \/ End(i)
    \/ \E i \in Iter, x \in Slot : DataSlice(i, x)

Next == ~dead /\ (Objects \/ Iterators)
Spec == Init /\ [][Next]_state

-----------------------------------------------------------------------------
(* Properties.                                                              *)
Position(s) == DOMAIN Kids[s] \cup {Missing}

Object == [refs : Nat, str : Str, start : Int, offset : Int, at : Int]
Iterator == [on : Slot \cup {Nobody}, parts : Seq(Str \X Nat), idx : Nat,
             cur : Slot \cup {Nobody}, loop : BOOLEAN, read : BOOLEAN,
             moved : BOOLEAN, got : Seq(Nat)]

\* The type invariant.
TypeOK ==
    /\ obj \in [Slot -> Object] /\ vars \in [Slot -> Nat]
    /\ rc \in [Str -> Int] /\ own \in [Str -> Nat]
    /\ it \in [Iter -> Iterator]
    /\ tidy \in BOOLEAN /\ dead \in BOOLEAN

\* However long the chain of navigations, iterations and re-constructions
\* that led to it, an object points at the value it was made for, and its
\* offset is the distance from the start of its string.  (Besides an offset PHP
\* code made up, only an iterator whose object was constructed again under it
\* makes objects for no value.)
PointsAtValue ==
    \A x \in Slot : Found(x) =>
        /\ obj[x].at \in DOMAIN Kids[obj[x].str]
        /\ obj[x].start = Base[obj[x].str] + obj[x].at
        /\ obj[x].offset = obj[x].at

\* Where the None value lies above every string, the object for a missing
\* key points at it; abs() in new_slice_ref_slice makes the order matter.
NoneAbove == \A s \in Str : \A p \in DOMAIN Kids[s] : Base[s] + p <= NoneAddr
MissingReadsNone ==
    NoneAbove => \A x \in Slot : Live(x) /\ obj[x].at = Missing => obj[x].start = NoneAddr

OnObject(x) == Cardinality({i \in Iter : it[i].on = x}) + Cardinality({i \in Iter : it[i].cur = x})
OnString(s) == Cardinality({x \in Slot : Live(x) /\ HasString(obj[x]) /\ obj[x].str = s})
\* An iterator goes over the values of s, and no longer has an object for s:
\* that was constructed again since.
Stranded(s) == \E i \in Iter : it[i].moved /\ \E k \in DOMAIN it[i].parts : it[i].parts[k][1] = s

\* A reference count never falls below the number of its holders: variables,
\* iterators and their elements for an object; variables, live objects and
\* iterators left behind for a string.  Nothing is freed while it can still be
\* used.  (What keeps the string of an iterator left behind is the reference
\* that __construct forgot to release.)
NeverEarly ==
    /\ \A x \in Slot : obj[x].refs >= vars[x] + OnObject(x)
    /\ \A s \in Str : rc[s] >= own[s] + OnString(s) + (IF Stranded(s) THEN 1 ELSE 0)

\* A script that constructs each object once and reads each element of an
\* iterator once leaks nothing: the counts are exact.
ExactWhenTidy ==
    tidy => /\ \A x \in Slot : obj[x].refs = vars[x] + OnObject(x)
            /\ \A s \in Str : rc[s] = own[s] + OnString(s)

\* A foreach delivers the elements of the table it began with, in order and
\* each of them once, whatever the body does to the object in the meantime.
InOrder ==
    \A i \in Iter : it[i].loop =>
        /\ \A k \in DOMAIN it[i].got : it[i].got[k] = it[i].parts[k][2]
        /\ Len(it[i].got) = it[i].idx + (IF it[i].read THEN 1 ELSE 0)
=============================================================================
