------------------------------ MODULE Lifecycle ------------------------------
(* How mappers and builders are created, constructed, shared and freed: the  *)
(* reference counts of the objects and of the registry's arrays              *)
(* (TypeMapper::__construct, Builder::__construct, the create and free       *)
(* handlers).                                                                *)
(*                                                                          *)
(* An object is a handle of the engine's object store.  The four arrays of a *)
(* registry are constructed, shared with a public property each, and freed   *)
(* alike: one array stands for them.                                         *)
(*                                                                          *)
(*   "mapper", "builder"   objects made by the create handlers              *)
(*   "hollow"              what clone makes of either: its properties only,  *)
(*                         without the C++ structure in front of it          *)
(*   "gone"                freed at the end of the request                   *)
EXTENDS Integers, Sequences, FiniteSets

CONSTANTS
    Handle,     \* the handles of the object store
    Arr,        \* the arrays, each used for one allocation
    MaxVars,    \* bound: variables that hold one object
    MaxCopies,  \* bound: variables that hold one array
    MaxCalls,   \* bound: calls of TypeMapper::serialize that run at a time
    MaxLost     \* bound: references to one object lost by repeated construction

ASSUME HandleAssumption == Handle \subseteq Nat \ {0} /\ IsFiniteSet(Handle)
ASSUME ArrAssumption == Arr \subseteq Nat \ {0} /\ IsFiniteSet(Arr)
ASSUME BoundAssumption ==
    /\ MaxVars \in Nat /\ MaxCopies \in Nat /\ MaxCalls \in Nat /\ MaxLost \in Nat

None == 0   \* no object, no array

VARIABLES
    kind, refs,     \* of the objects
    made,           \* the constructor has run
    vars,           \* the script's variables that hold an object
    bld,            \* of a mapper: its builder
    mapper,         \* of a builder: its mapper, if that is an object
    reg,            \* of a mapper: the array it reads, without a reference
    prop,           \* of a mapper or a clone: the array its property holds
    rc, used,       \* reference counts of the arrays; those allocated so far
    copies,         \* the script's variables that hold an array
    owed, owedArr,  \* zval_ptr_dtor calls that are still to be made
    calls,          \* the builders that running calls of serialize write to
    lost,           \* references overwritten and never given back
    phase, freeing, \* "script" or "end"; the object whose turn it is at the end
    tame,           \* no constructor was skipped or repeated, no property
                    \* written, nothing cloned, and every builder has a mapper
    upward,         \* a builder got an object of a higher handle than its own
    bad             \* a reference to something freed, or to foreign memory, was used
object == <<kind, refs, made, vars, lost>>
link == <<bld, mapper, reg, prop>>
array == <<rc, used, copies>>
flow == <<phase, freeing, upward>>
state == <<object, link, array, owed, owedArr, calls, flow, tame, bad>>

Live(h) == kind[h] \in {"mapper", "builder", "hollow"}
Reach(h) == Live(h) /\ vars[h] > 0
NoArrayOwed == \A a \in Arr : owedArr[a] = 0
NothingOwed == (\A h \in Handle : owed[h] = 0) /\ NoArrayOwed
\* The script may take its next step.
Quiet == phase = "script" /\ NothingOwed
FreeHandle(h) == kind[h] = "free"
FreshArray(a) == a \notin used
MayLose == \A h \in Handle : lost[h] < MaxLost

\* One more, for an object or an array that may be none.
Plus(f, x) == IF x = None THEN f ELSE [f EXCEPT ![x] = @ + 1]
IsMapper(m) == m # None /\ kind[m] = "mapper" /\ made[m]
\* A mapper whose methods work: it has its structure, and its array is there.
Usable(m) == IsMapper(m) /\ rc[reg[m]] > 0

-----------------------------------------------------------------------------
(* Creation and construction.                                               *)

\* A bug: ZVAL_COPY_VALUE, the mapper not counted.
CopyUncounted(f, m) == f
\* Builder::__construct copies the mapper, if it is an object, and counts it.
Copy(f, m) == Plus(f, m)
\* A bug: what the constructor overwrites is released.
OverwriteReleases(x) == owed' = Plus(owed, x) /\ UNCHANGED lost
\* The constructors overwrite what an earlier construction left.
Overwrite(x) == lost' = Plus(lost, x) /\ UNCHANGED owed

\* builder_create_object and Builder::__construct, which takes any value (m
\* is none for one that is no object), and counts it.
NewBuilder(h, m) ==
    /\ Quiet /\ FreeHandle(h) /\ (m # None => Reach(m))
    /\ kind' = [kind EXCEPT ![h] = "builder"] /\ made' = [made EXCEPT ![h] = TRUE]
    /\ refs' = Copy([refs EXCEPT ![h] = 1], m) /\ vars' = [vars EXCEPT ![h] = 1]
    /\ mapper' = [mapper EXCEPT ![h] = m]
    /\ tame' = (tame /\ IsMapper(m)) /\ upward' = (upward \/ m > h)
    /\ UNCHANGED <<lost, bld, reg, prop, array, owed, owedArr, calls, phase, freeing, bad>>

\* TypeMapper::__construct on h: new arrays, held by the properties alone (what
\* a property held before is released); a new builder b, which holds the mapper.
\* The builder of an earlier construction is overwritten.
Construct(h, b, a) ==
    /\ kind' = [kind EXCEPT ![h] = "mapper", ![b] = "builder"]
    /\ made' = [made EXCEPT ![h] = TRUE, ![b] = TRUE]
    /\ bld' = [bld EXCEPT ![h] = b] /\ Overwrite(bld[h])
    /\ mapper' = [mapper EXCEPT ![b] = h]
    /\ reg' = [reg EXCEPT ![h] = a] /\ prop' = [prop EXCEPT ![h] = a]
    /\ rc' = [rc EXCEPT ![a] = 1] /\ used' = used \cup {a}
    /\ owedArr' = Plus(owedArr, prop[h])
    /\ upward' = (upward \/ h > b)
    /\ UNCHANGED <<copies, calls, phase, freeing, bad>>
\* new TypeMapper.
NewMapper(h, b, a) ==
    /\ Quiet /\ h # b /\ FreeHandle(h) /\ FreeHandle(b) /\ FreshArray(a)
    /\ refs' = Copy([refs EXCEPT ![h] = 1, ![b] = 1], h) /\ vars' = [vars EXCEPT ![h] = 1]
    /\ Construct(h, b, a)
    /\ UNCHANGED tame

\* $mapper->__construct(), again or for the first time.
ReconstructMapper(h, b, a) ==
    /\ Quiet /\ Reach(h) /\ kind[h] = "mapper" /\ FreeHandle(b) /\ FreshArray(a)
    /\ bld[h] # None => MayLose
    /\ refs' = Copy([refs EXCEPT ![b] = 1], h)
    /\ Construct(h, b, a)
    /\ tame' = FALSE
    /\ UNCHANGED vars

\* $builder->__construct($m): the mapper it had is overwritten.
ReconstructBuilder(h, m) ==
    /\ Quiet /\ Reach(h) /\ kind[h] = "builder" /\ (m # None => Reach(m))
    /\ mapper[h] # None => MayLose
    /\ made' = [made EXCEPT ![h] = TRUE]
    /\ mapper' = [mapper EXCEPT ![h] = m] /\ Overwrite(mapper[h])
    /\ refs' = Copy(refs, m)
    /\ tame' = FALSE /\ upward' = (upward \/ m > h)
    /\ UNCHANGED <<kind, vars, bld, reg, prop, array, owedArr, calls, phase, freeing, bad>>

\* An object without its constructor: a subclass that forgets the parent's, or
\* reflection.  Its memory is zeroed.
NewBare(h, k) ==
    /\ Quiet /\ FreeHandle(h)
    /\ kind' = [kind EXCEPT ![h] = k] /\ refs' = [refs EXCEPT ![h] = 1]
    /\ vars' = [vars EXCEPT ![h] = 1] /\ tame' = FALSE
    /\ UNCHANGED <<made, lost, link, array, owed, owedArr, calls, flow, bad>>

\* clone: the handlers are a copy of the standard ones, whose clone_obj makes
\* an object of the engine's own and copies the properties.
Clone(h, c) ==
    /\ Quiet /\ Reach(h) /\ FreeHandle(c)
    /\ kind' = [kind EXCEPT ![c] = "hollow"] /\ refs' = [refs EXCEPT ![c] = 1]
    /\ vars' = [vars EXCEPT ![c] = 1] /\ tame' = FALSE
    /\ prop' = [prop EXCEPT ![c] = prop[h]] /\ rc' = Plus(rc, prop[h])
    /\ UNCHANGED <<made, lost, bld, mapper, reg, used, copies, owed, owedArr, calls, flow, bad>>

-----------------------------------------------------------------------------
(* Variables and properties.                                                *)

\* One more variable; a callback of a running serialize gets the builder.
Share(h) ==
    /\ Quiet /\ Live(h) /\ vars[h] < MaxVars
    /\ vars[h] > 0 \/ \E i \in DOMAIN calls : calls[i] = h
    /\ refs' = [refs EXCEPT ![h] = @ + 1] /\ vars' = [vars EXCEPT ![h] = @ + 1]
    /\ UNCHANGED <<kind, made, lost, link, array, owed, owedArr, calls, flow, tame, bad>>
Unset(h) ==
    /\ Quiet /\ Reach(h)
    /\ vars' = [vars EXCEPT ![h] = @ - 1] /\ owed' = [owed EXCEPT ![h] = @ + 1]
    /\ UNCHANGED <<kind, refs, made, lost, link, array, owedArr, calls, flow, tame, bad>>

\* $a = $mapper->tagToClassMap, and the end of $a.
TakeArray(h) ==
    /\ Quiet /\ Reach(h) /\ prop[h] # None /\ copies[prop[h]] < MaxCopies
    /\ copies' = [copies EXCEPT ![prop[h]] = @ + 1] /\ rc' = [rc EXCEPT ![prop[h]] = @ + 1]
    /\ UNCHANGED <<object, link, used, owed, owedArr, calls, flow, tame, bad>>
UnsetArray(a) ==
    /\ Quiet /\ copies[a] > 0
    /\ copies' = [copies EXCEPT ![a] = @ - 1] /\ owedArr' = [owedArr EXCEPT ![a] = @ + 1]
    /\ UNCHANGED <<object, link, rc, used, owed, calls, flow, tame, bad>>

\* $mapper->tagToClassMap = null.
AssignProperty(h) ==
    /\ Quiet /\ Reach(h) /\ prop[h] # None
    /\ prop' = [prop EXCEPT ![h] = None]
    /\ owedArr' = [owedArr EXCEPT ![prop[h]] = @ + 1] /\ tame' = FALSE
    /\ UNCHANGED <<object, bld, mapper, reg, array, owed, calls, flow, bad>>
\* $mapper->tagToClassMap[$tag] = ..., which copies an array that is shared.
WriteProperty(h, a) ==
    /\ Quiet /\ Reach(h) /\ prop[h] # None /\ rc[prop[h]] > 1 /\ FreshArray(a)
    /\ prop' = [prop EXCEPT ![h] = a]
    /\ rc' = [rc EXCEPT ![prop[h]] = @ - 1, ![a] = 1] /\ used' = used \cup {a}
    /\ tame' = FALSE
    /\ UNCHANGED <<object, bld, mapper, reg, copies, owed, owedArr, calls, flow, bad>>

-----------------------------------------------------------------------------
(* Use.                                                                     *)

\* registerMapping, registerSerializer, registerDeserializer, deserialize.
UseMapper(h) ==
    /\ Quiet /\ Reach(h) /\ kind[h] \in {"mapper", "hollow"}
    /\ bad' = ~Usable(h)
    /\ UNCHANGED <<object, link, array, owed, owedArr, calls, flow, tame>>
\* addValue and addObjectValue, which go through the builder's mapper.
UseBuilder(h) ==
    /\ Quiet /\ Reach(h) /\ kind[h] \in {"builder", "hollow"}
    /\ bad' = ~(kind[h] = "builder" /\ Usable(mapper[h]))
    /\ UNCHANGED <<object, link, array, owed, owedArr, calls, flow, tame>>
\* TypeMapper::serialize takes a plain pointer to the builder, and uses it
\* after callbacks have run.
SerializeBegin(h) ==
    /\ Quiet /\ Reach(h) /\ Usable(h) /\ Len(calls) < MaxCalls
    /\ calls' = Append(calls, bld[h])
    /\ UNCHANGED <<object, link, array, owed, owedArr, flow, tame, bad>>
SerializeEnd ==
    /\ Quiet /\ calls # <<>>
    /\ calls' = SubSeq(calls, 1, Len(calls) - 1)
    /\ bad' = (kind[calls[Len(calls)]] # "builder")
    /\ UNCHANGED <<object, link, array, owed, owedArr, flow, tame>>

-----------------------------------------------------------------------------
(* Freeing.  zval_ptr_dtor calls are made one at a time, arrays before        *)
(* objects; apart from that their order is left open.                        *)

\* A bug: the mapper of a builder is not released.
OwesNoMapper(o, h) == Plus(o, bld[h])
Owes(o, h) == Plus(Plus(o, bld[h]), mapper[h])
\* What the free handler of h gives up: the property's array (by the engine),
\* the arrays and the builder of a mapper, the mapper of a builder.
GiveUp(h, o, oa) ==
    /\ owed' = Owes(o, h)
    /\ owedArr' = Plus(Plus(oa, prop[h]), reg[h])
    /\ bld' = [bld EXCEPT ![h] = None] /\ mapper' = [mapper EXCEPT ![h] = None]
    /\ reg' = [reg EXCEPT ![h] = None] /\ prop' = [prop EXCEPT ![h] = None]
DropMore(h) ==
    /\ owed[h] > 0 /\ NoArrayOwed /\ (refs[h] > 1 \/ ~Live(h))
    /\ refs' = [refs EXCEPT ![h] = @ - 1] /\ owed' = [owed EXCEPT ![h] = @ - 1]
    /\ bad' = ~Live(h)
    /\ UNCHANGED <<kind, made, vars, lost, link, array, owedArr, calls, flow, tame>>
\* The last reference: mapper_free_object, builder_free_object, with what they
\* release.  Both end with efree(intern) of memory the engine then frees again;
\* that is the heap's matter and sets no "bad": what follows is about references.
DropLast(h) ==
    /\ owed[h] > 0 /\ NoArrayOwed /\ refs[h] = 1 /\ Live(h)
    /\ kind' = [kind EXCEPT ![h] = "free"] /\ refs' = [refs EXCEPT ![h] = 0]
    /\ made' = [made EXCEPT ![h] = FALSE]
    /\ GiveUp(h, [owed EXCEPT ![h] = @ - 1], owedArr)
    /\ UNCHANGED <<vars, lost, array, calls, flow, tame, bad>>
\* A released array; one that is not there any more is used all the same.
DropArray(a) ==
    /\ owedArr[a] > 0
    /\ owedArr' = [owedArr EXCEPT ![a] = @ - 1]
    /\ rc' = [rc EXCEPT ![a] = IF @ > 0 THEN @ - 1 ELSE 0]
    /\ bad' = (rc[a] = 0)
    /\ UNCHANGED <<object, link, used, copies, owed, calls, flow, tame>>

\* The end of the request: the engine calls the free handlers of the objects
\* that are left, from the highest handle down, with a reference of its own.
EndRequest ==
    /\ Quiet /\ calls = <<>>
    /\ phase' = "end"
    /\ UNCHANGED <<object, link, array, owed, owedArr, calls, freeing, upward, tame, bad>>
FreeAtEnd(h) ==
    /\ phase = "end" /\ NothingOwed /\ freeing = None
    /\ Live(h) /\ \A k \in Handle : Live(k) => k <= h
    /\ refs' = [refs EXCEPT ![h] = @ + 1] /\ freeing' = h
    /\ GiveUp(h, owed, owedArr)
    /\ UNCHANGED <<kind, made, vars, lost, array, calls, phase, upward, tame, bad>>
FreedAtEnd ==
    /\ phase = "end" /\ NothingOwed /\ freeing # None
    /\ kind' = [kind EXCEPT ![freeing] = "gone"] /\ freeing' = None
    /\ UNCHANGED <<refs, made, vars, lost, link, array, owed, owedArr, calls, phase, upward, tame, bad>>

-----------------------------------------------------------------------------
Init ==
    /\ kind = [h \in Handle |-> "free"] /\ refs = [h \in Handle |-> 0]
    /\ made = [h \in Handle |-> FALSE]
    /\ vars = [h \in Handle |-> 0] /\ lost = [h \in Handle |-> 0]
    /\ bld = [h \in Handle |-> None] /\ mapper = [h \in Handle |-> None]
    /\ reg = [h \in Handle |-> None] /\ prop = [h \in Handle |-> None]
    /\ rc = [a \in Arr |-> 0] /\ used = {} /\ copies = [a \in Arr |-> 0]
    /\ owed = [h \in Handle |-> 0] /\ owedArr = [a \in Arr |-> 0]
    /\ calls = <<>> /\ phase = "script" /\ freeing = None
    /\ tame = TRUE /\ upward = FALSE /\ bad = FALSE

Objects ==
    \/ \E h, b \in Handle, a \in Arr : NewMapper(h, b, a) \/ ReconstructMapper(h, b, a)
    \/ \E h \in Handle, m \in Handle \cup {None} : NewBuilder(h, m) \/ ReconstructBuilder(h, m)
    \/ \E h \in Handle, k \in {"mapper", "builder"} : NewBare(h, k)
    \/ \E h, c \in Handle : Clone(h, c)
Script ==
    \/ \E h \in Handle : Share(h) \/ Unset(h) \/ TakeArray(h) \/ AssignProperty(h)
    \/ \E h \in Handle, a \in Arr : WriteProperty(h, a)
    \/ \E a \in Arr : UnsetArray(a)
    \/ \E h \in Handle : UseMapper(h) \/ UseBuilder(h) \/ SerializeBegin(h)
    \/ SerializeEnd
Engine ==
    \/ \E h \in Handle : DropMore(h) \/ DropLast(h) \/ FreeAtEnd(h)
    \/ \E a \in Arr : DropArray(a)
    \/ FreedAtEnd
Next == ~bad /\ (Objects \/ Script \/ EndRequest \/ Engine)
Spec == Init /\ [][Next]_state

-----------------------------------------------------------------------------
(* Properties.                                                              *)
HandleOrNone == Handle \cup {None}
ArrOrNone == Arr \cup {None}

\* The type invariant.
TypeOK ==
    /\ kind \in [Handle -> {"free", "mapper", "builder", "hollow", "gone"}]
    /\ refs \in [Handle -> Nat] /\ made \in [Handle -> BOOLEAN]
    /\ vars \in [Handle -> Nat] /\ lost \in [Handle -> Nat]
    /\ bld \in [Handle -> HandleOrNone] /\ mapper \in [Handle -> HandleOrNone]
    /\ reg \in [Handle -> ArrOrNone] /\ prop \in [Handle -> ArrOrNone]
    /\ rc \in [Arr -> Nat] /\ used \subseteq Arr /\ copies \in [Arr -> Nat]
    /\ owed \in [Handle -> Nat] /\ owedArr \in [Arr -> Nat]
    /\ calls \in Seq(Handle) /\ phase \in {"script", "end"} /\ freeing \in HandleOrNone
    /\ tame \in BOOLEAN /\ upward \in BOOLEAN /\ bad \in BOOLEAN

\* How many elements of f point at x.
Pointing(f, x) == Cardinality({h \in Handle : f[h] = x})

\* Until the request ends, every count is the number of references there are:
\* variables, builders of mappers and mappers of builders, releases under way,
\* and those a second construction lost.  So nothing is freed while it is
\* held, and what is not lost is freed in the end.
CountsExact ==
    phase = "script" =>
        /\ \A h \in Handle :
             refs[h] = vars[h] + owed[h] + lost[h] + Pointing(bld, h) + Pointing(mapper, h)
        /\ \A a \in Arr : rc[a] = copies[a] + owedArr[a] + Pointing(prop, a)

\* A constructed mapper is not freed before the request ends, whatever the
\* script does: its builder holds it, and it the builder.  (This leak is what
\* keeps mapper_free_object from releasing the arrays twice in the meantime.)
MappersStay ==
    [][phase = "script" => \A h \in Handle : IsMapper(h) => IsMapper(h)']_state

\* The builder a running serialize writes to is there when its callbacks have
\* run, also when they construct the mapper again.
RunningBuilder == \A i \in DOMAIN calls : kind[calls[i]] = "builder"

\* A script that constructs each object once, by new, clones none, writes no
\* property and gives every builder a mapper uses no reference to an object or
\* array that was given up, and releases none twice.
SafeIfTame == tame /\ phase = "script" => ~bad

\* Where no mapper was constructed and each builder holds an object older
\* than itself, the end of the request uses no reference to an object that was
\* freed before, whatever is still held, lost or cloned.
CleanEnd == phase = "end" /\ used = {} /\ ~upward => ~bad

\* "Type mapper is mandatory", says the exception of Builder::__construct.
MapperMandatory ==
    \A h \in Handle : kind[h] = "builder" /\ made[h] => mapper[h] # None
=============================================================================
