# TLA+ project for php-vpack

php-vpack is a PHP extension in C++ that reads and writes VelocyPack. This
directory holds TLA+ models of it, TLC configurations, and TLAPS proofs.

## 1. The system

Everything runs on the one thread of a PHP request. What makes the code hard is
not parallelism but **callbacks**: C++ recursion over a value calls PHP methods
(`toVPack`, `fromVPack`, `getTagId`, registered serializers and deserializers),
and those call the same objects again; **two kinds of exception**, C++ ones that
unwind and PHP ones that are only a pending flag the C++ code does not look at;
and **manual reference counts**.

| Component | State | Operations | Calls |
|---|---|---|---|
| `TypeMapper`, serialization (`TypeMapper.cpp` 13-218, 505-530) | the one Builder the mapper owns | `serialize`, recursion `serialize` / `serializeHashTable` | library Builder, `toVPack`, `getTagId`, registered serializers |
| `TypeMapper`, registry (427-503) | `tagToClassMap`, `classToTagMap`, `serializers`, `deserializers` | `registerMapping`, `registerSerializer`, `registerDeserializer` | – |
| `TypeMapper`, deserialization (220-359, 532-556) | none but the C++ stack | `deserialize` | Slice constructor, `fromVPack`, registered deserializers |
| `Builder` (`Builder.cpp`) | a library Builder, a reference to the mapper | `openArray`, `openObject`, `addValue`, `addObjectValue`, `close`, `clear`, `slice`, and queries | recursion `serialize` |
| `Slice` objects (`Slice.cpp`) | the string held, a pointer, an offset | construction, `at`, `get`, `keyAt`, `valueAt`, `getNthValue`, `value`; 60 accessors | library Slice |
| Slice iterators (`Slice.cpp` 1575-1776) | the object iterated, position, current element, `failed` | the engine's iterator handlers | Slice constructor |
| Object lifecycle (create/free handlers, constructors) | reference counts of mapper, builder, arrays | create, construct, free | – |
| Exceptions (`php_vpack.h`) | `EG(exception)` | `VPACK_TRY`, `VPACK_CATCH` | – |
| velocypack | buffers, tags, keys | – | a submodule that is empty here |

What makes each of them correct, and where it is hard:

* *Serialization*: a call returns the document of its argument, whatever
  happened to the shared builder before. Hard: re-entrant calls clear that
  builder; failed calls leave rubbish in it; callbacks always get the mapper's
  builder, even when the value goes into another one; C++ exceptions unwind
  over PHP frames; PHP exceptions leave loops running.
* *Deserialization*: a call returns the value of its document, or an exception,
  never a table with an unassigned entry. Hard: the loops go on after an entry
  failed; callbacks change the registry in the middle; references to the input
  are lost on error paths.
* *Registry*: what is registered can be used. Hard: a refused callback is
  registered all the same; callbacks register in the middle of a call.
* *Slices*: an object points at the value it was made for and keeps its string
  alive. Hard: offsets add up along a chain of objects; counts are kept by hand
  over calls of PHP's constructor; an object can be constructed twice, not at
  all, or cloned; missing keys point outside the string.
* *Iterators*: each element once and in order, with its own key, nothing freed
  early. Hard: the loop body unsets or re-constructs the object iterated; three
  drivers call the handlers in different orders; one flag is not initialized.
* *Object lifecycle*: no reference used after it was given up, what is not lost
  is freed.
  Hard: a mapper and its builder hold each other; the registry's arrays are read
  without a reference; constructors can be called twice or not at all; `clone`
  makes objects without the C++ part; at its end, the request frees objects in an
  order nobody chose.
* *Round trip*: what was stored comes back. Hard: the serializer looks at a cursor
  to choose between list and object; keys become text and text becomes keys by
  PHP's rules; negative numbers are written unsigned; three parts of the code read
  documents, each with its own switch over the types.

`PROJECT.json` lists these hazards, each at its line, with the properties aimed
at it.

## 2. The modules

| Module | What it is |
|---|---|
| `VPackBuilder` | contract of the library's Builder: what each call the extension makes writes, when it throws, what is left unspecified |
| `Serializer` | serialization and the writing methods of Builder, as a machine over a stack of activations |
| `SerializerDoc` | the document a value stands for, by recursion over the value, and the properties stated with it |
| `MapperCall` | abstract specification: what `TypeMapper::serialize` promises a script |
| `Deserializer` | registry and deserialization, as a machine over a stack of activations |
| `RoundTrip` | serialize and deserialize as functions, in turn; the two other readers of a document |
| `SliceObjects` | Slice objects and what iterators hold: pointers, offsets, reference counts |
| `SliceIterator` | the handlers of an iterator under each of its drivers: positions, keys, `failed` |
| `Lifecycle` | mappers, builders and the registry's arrays: construction, sharing, freeing, the end of the request |
| `HeapNotation` | notation for PHP values and programs, for the MC modules |
| `MCCalls`, `MCReentry`, `MCUser`, `MCDeserializer`, `MCRoundTrip`, `MCSlices`, `MCIterator`, `MCLifecycle` | instances for TLC |
| `Serializer_proofs` (with the library's calls), `SerializerDoc_proofs`, `Deserializer_proofs`, `SliceObjects_proofs`, `SliceIterator_proofs`, `Lifecycle_proofs`, `RoundTrip_proofs` | theorems and proofs |
| `Foundations` | lemmas the proofs share: extrema of sets of naturals, functions defined by recursion over finitely deep data, concatenations, how many elements of a set have a property, ranks in a finite set |

Operators introduced by a comment "A bug:" are used by no specification. Each is
a plausible wrong version of the definition next to it, kept to show that a
property notices it (`PROJECT.json`, "mutants").

### Serializer

`stk` is the C++ and PHP call stack, last element running. A frame is `"user"`
(PHP code), `"hash"` (`serializeHashTable` between two entries), `"value"`
(`serialize` of a `Serializable`, which calls `getTagId` before it writes anything)
or `"mapper"` (`TypeMapper::serialize` waiting for its value). A call into the library that
runs nothing else is one step; whenever PHP code could run in between, the step
ends. The lambdas the code hands to the library become frames. `bld` has the
two builders that matter: the one the mapper owns, and one of the script; any
other builder behaves as the second. `pend` is `EG(exception)`; PHP refuses to
run callbacks while it is set, which is where `Serialize` looks at it.

| Action | Code |
|---|---|
| `UserOpen`, `UserClose`, `UserClear`, `UserAdd` | the Builder methods |
| `UserSerialize`, `MapperReturn` | `TypeMapper::serialize` before and after the recursion |
| `Serialize` (operator) | `serialize`, one case per branch of its switch |
| `TagIdCall`, `TagIdReturn`, `TagIdFails` | `serialize` around `getTagId`: the call; key, tag and `toVPack` after it; the value left out when it threw |
| `HashNext`, `HashClose` | the loop of `serializeHashTable`, and `b->close()` |
| `Enter` (operator) | any call of the library: its result, or a C++ exception caught by `VPACK_CATCH` of the nearest method |
| `UserThrow`, `UserCatch`, `UserPropagate`, `UserReturn` | PHP code throwing, catching, letting an exception through, returning |

PHP values are a finite function `Heap`: kind, number or text, entries and
internal cursor of a table, tag of an object, bodies of its callbacks. A body is a
sequence of Builder calls, nested `serialize` calls and throws; that of `getTagId`
is given no builder, but runs where the one the mapper shares is known from earlier
callbacks. A `getTagId` that only returns its tag is no step of its own (`TagKnown`).
Documents are sequences of tokens; bytes, lengths and index tables belong to the
library. Left out: references and indirections (followed in the code),
warnings' texts, and user error handlers that turn warnings into exceptions.

The library is under-specified where its documentation is: after an exception,
or a write it forbids but does not check, the builder is `"bad"` until `clear`,
and calls on it may throw or not.

`SerializerDoc` says what should come out. `Doc` maps a value to the document it
stands for, `Honest` says which values a call must succeed on; both are functions
defined by recursion over the value, `NodeDoc` and `NodeHonest` being one step of
it. Nothing in them looks at builders or activations. `last` of a frame is a
history field: the document of a nested call that touched the builder last.

### Deserializer

The same shape: `"call"` frames are `TypeMapper::deserialize`, `"loop"` frames
the loops over arrays and objects, `"user"` frames PHP code. `out` of a frame
is what the loop has stored so far; tokens `garbage` and `undef` stand for an
uninitialized zval and one of type `IS_UNDEF`. `held` counts references to input
strings. Callbacks may do all the script may, in any order. With an exception
pending, the Slice constructor cannot be called and `new_slice_ref` raises
`E_ERROR`: that is `fatal`. (It is what `zend_call_function` of PHP 7.4 and 8.0,
the versions the README of the repository names, returns in that case.)

### SliceObjects

Slots hold objects with reference count, string, pointer and offset, as in
`php_vpack_slice_t`. `at` is a history variable: the position of the value the
object was made for. `vars` and `own` are the script's variables. A document is
a tree of positions. Iterators have the table they started with, an index and a
current element; `loop` tells `foreach`, which asks for each element once, from
an `InternalIterator` driven by PHP code, which may ask and rewind at will.

Not every object has a value. `Missing` is the one `get` makes for a key that is
not there; `Adrift` one that was constructed at an offset where no value is, or that
an iterator made after its object had been constructed again; `Bare` one whose
`Slice::__construct` threw or was never called (a subclass); `Foreign` a clone, for
which the engine copies the PHP part only. The last two hold no string. They are
shared, freed and (but for clones) constructed like any other; whatever else is done
with an object that points nowhere reads memory that is not a document's, and the
model stops there (`Misuse`). A constructor that throws under `new` leaves nothing
behind and is no step.

| Action | Code |
|---|---|
| `Construct`, `Reconstruct` | `Slice::__construct` on a new object, on one in use |
| `NewBare`, `Clone` | `slice_create_object` without a constructor; the `clone_obj` kept from the standard handlers |
| `SliceForCallback` | `new_slice_ref_zval`, for the callbacks of `deserialize` |
| `Navigate`, `NavigateMissing`, `ValueTagged` | `at`, `get`, `keyAt`, `valueAt`, `getNthValue`, `value`, through `new_slice_ref_slice` |
| `Begin`, `BeginFails` | `slice_get_iterator`, and its `E_ERROR` for what is no table |
| `MoveForwards`, `Rewind`, `End` | `slice_iterator_move_forwards`, `_rewind` (both with `invalidate`), `_dtor` |
| `DataScalar`, `DataSlice`, `DataThrows` | `slice_iterator_get_data` |
| `Share`, `Unset`, `Assign`, `TakeString`, `UnsetString` | the script's variables; `slice_free_object` with the last of them |

### SliceIterator

One iterator, seen from the engine. What differs between the drivers is the order
in which they call the same handlers: `foreach` rewinds first and asks once for
each element; PHP 8's `InternalIterator` rewinds before anything else, and then
does what PHP code says; PHP 7.4's `IteratorIterator` fetches element and key
each time it has moved, and may move without a rewind. `failed` is `"unset"`
until it is written; reading it then gives either value. `got` and `key` record
what was delivered. Elements are their numbers, and `refused` those that `getInt`
cannot return: negative longs, as `serialize` writes them, and huge numbers. Asked for
one of them, or past the end, `slice_iterator_get_data` ends in a C++ exception that
nothing catches, and `doing` is `"dead"`. What elements hold, and their reference
counts, are in `SliceObjects`.

### Lifecycle

Objects are handles of the engine's store, with kind, reference count and what
the C++ structure and the property table point at: `bld` of a mapper, `mapper`
of a builder, `reg` (the array a mapper reads, which it does not count) and
`prop` (the one its property holds, counted). The four arrays of a registry go
the same way and are one here. Each `zval_ptr_dtor` is a step, `owed` and
`owedArr` hold those still to be made, because a free handler makes several and
each may free something else. `lost` counts the references that a repeated
construction overwrites.

| Action | Code |
|---|---|
| `NewMapper`, `NewBuilder` | create handlers and constructors |
| `ReconstructMapper`, `ReconstructBuilder`, `NewBare`, `Clone` | a constructor called again, or not at all; the `clone_obj` kept from the standard handlers |
| `Share`, `Unset`, `TakeArray`, `UnsetArray`, `AssignProperty`, `WriteProperty` | variables and the public properties |
| `UseMapper`, `UseBuilder`, `SerializeBegin`, `SerializeEnd` | methods; the plain pointer `TypeMapper::serialize` keeps across callbacks |
| `DropMore`, `DropLast`, `DropArray` | `zval_ptr_dtor`; the free handlers |
| `EndRequest`, `FreeAtEnd`, `FreedAtEnd` | the engine frees what is left, from the highest handle down |

`bad` records the use of a reference that was given up (the object's free handler, or
the array's, has been called), its release a second time, or a read of foreign memory;
the model stops there. `tame`
and `upward` are history variables of what the script has done.

### RoundTrip

`Ser` and `Deser` are `serialize` and `deserialize` of values without callbacks,
written as functions; `Trip` applies them in turn, as tests 004 and 005 do.
`Hand` reads a document through the predicates and accessors of Slice, `Loop`
through nested `foreach`: four parts of the code that must agree on what a
document means. A key is an integer or a name; `IntOf` says which names print an
integer, `Order` how the library sorts texts.

All four recurse over the data, and what each makes of a part depends on nothing
outside that part: of a table, on its keys and its cursor, not on what its entries
hold. So a value is a function from its parts to nodes, a document one from the
same parts to document nodes, and the recursion applies an operator on nodes
(`SerNode`, `DeserNode`, `HandNode`, `LoopNode`) to each part. A part is named by
the way to it, a sequence of places. An entry keeps its place when a trip moves
it, so that two entries are different even if they hold equal values:
`Same(cur, orig)` asks whether each entry came back under its own key, and not
whether the two values happen to be equal (`[1 => x, 0 => x]` comes back with its
two entries exchanged). Values may be of any depth.

## 3. The runs

| Run | Question | Bounds |
|---|---|---|
| `mapper_calls` | is each call right, after any earlier ones? `TypeOK`, `Faithful`, `KeepsPromise` (refinement of `MapperCall`) | 3 calls in a row over 27 values: every kind of node, nested three deep, and careless ones |
| `reentrancy` | which document survives a nested call? `Faithful`, `NestedWins` | all bodies of `toVPack` of up to 3 words out of 6, and of `getTagId` of up to 2; alone, in an array, under a key |
| `user_builder` | where do callback bodies go, how do exceptions unwind? `FrameDiscipline`, `SparesUserBuilder`, `Faithful` | 3 steps of a script out of 20 |
| `slices` | `PointsAtValue`, `MissingReadsNone`, `NeverEarly`, `ExactWhenTidy`, `InOrder` | 3 objects, 1 iterator, 2 strings, 3 references per string and 2 per object; offsets 0 and one of no value; symmetry on objects |
| `deserialize` | `Faithful`, `GapsArePending`, `NoGapDelivered`, `FatalBehindGap`, `Referenced` | 4 steps of PHP code; 2 tags, 2 classes, 2 callbacks, 3 documents |
| `lifecycle` | who holds whom, and when is a reference used that was given up? `CountsExact`, `MappersStay`, `RunningBuilder`, `SafeIfTame`, `CleanEnd` | 3 handles, 2 arrays; one variable per object and array, one running call, one lost reference per object |
| `iterator` | do keys and elements stay in step, where does a loop end? `KeyMatches`, `NullMeansEnd`, `DiesAtRefused`, `LoopEnds` | tables of up to 4 entries, any set of them refused, arrays and objects, all three drivers |
| `round_trip` | what comes back? `Exact`, `Settles`, `ReadByHand`, `NumbersInDocument`, `ForeachReads` | 4 trips; tables of up to 3 entries over 7 keys in every order with every cursor, two levels deep, and a list of eleven; `LongMod` 32 |
| `unchecked_callback` | *violated:* are all registered callbacks callable? | as `deserialize` |
| `any_mapper` | *violated:* has every constructed builder a mapper? | as `lifecycle` |
| `public_keys` | *violated:* are only public properties written? | as `round_trip` |

(Each module's `TypeOK` is checked too, in the run that reaches most of it.)

Why the bounds are enough. A call leaves nothing behind but the builder (good,
bad, or with rubbish in it) and a flag, so a third call sees every state a
longer sequence could produce from these values; the 27 values have each branch
of the code inside each kind of table. In `reentrancy` three words are the
least that writes, calls and writes again; what `getTagId` did shows in what follows
it, so two are enough for it: call or clear, and write. `LongMod = 256` leaves room for a
negative number and its unsigned image. Three slots are a parent, a child and an
object in between that may be gone; two strings are needed for re-construction
on another one. Four steps of PHP code are: register, call, and in a callback
register and call again. In `lifecycle`, three handles are a mapper, its builder
and one more (a builder of the script, a clone, a second builder of the same
mapper); two arrays let a mapper be constructed twice or a property be written.
In `round_trip`, the keys are the least set with an integer below zero, a
list's, a gap, one that texts order differently (`"10"` before `"2"`), and
names; eleven entries are the shortest list whose order a trip can change.
Where deadlock is not checked, the system may stop: `slices`, `iterator` and
`lifecycle` end where memory is misused or an exception reaches the engine, or
with the loop or the request; `round_trip` ends after its last trip.

**Fairness.** `LoopEnds` of `iterator` assumes weak fairness of the handlers of a
`foreach`: there is one thread, nothing waits and no call blocks, so the engine goes
on; and the body of the loop ends. Of PHP code that drives an iterator by hand
nothing is assumed. No other run needs fairness. That a call of `serialize` ends is
not claimed: on finite data with finite callbacks it could not be otherwise, and the
ways in which it really does not end (data that contains itself, tables that grow
under the loop) are outside the model.

What the runs show, in words:

* A call of `serialize` on an *honest* value (no resource in it, cursors at the
  start, callbacks that write one value to the builder they are given) returns
  its document after any history, also when it is made from inside another call
  (`Faithful`); and it does return, if no callback calls the mapper
  (`KeepsPromise`). Negative longs come out as the unsigned number with the same
  bits: that is part of the document.
* A nested `serialize` on the same mapper always wins: the outer call returns
  the nested document, or rubbish, or an exception, and never its own
  (`NestedWins`). This goes for calls from `getTagId` as well.
* The body of a callback never arrives in a builder of the script, even if its
  value was added there (`SparesUserBuilder`): only tag and key do.
* `deserialize` may build tables with unassigned entries, but only while an
  exception is pending, so that none is delivered (`GapsArePending`,
  `NoGapDelivered`), unless a callback that cannot be called was registered.
  In a table, a failed entry followed by a tagged one is a fatal error, and
  there is no other way to one (`FatalBehindGap`).
* Slices point where they should along every chain (`PointsAtValue`), missing
  keys included if the library's None value lies above the strings
  (`MissingReadsNone`); nothing is freed early (`NeverEarly`), not even the string
  that an iterator still reads when its object has been given another one: what
  keeps it is the reference that `__construct` forgot to release. Leaks come only
  from constructing an object twice or asking an iterator twice for an element
  (`ExactWhenTidy`).
* Until the request ends all reference counts of mappers, builders and arrays are
  exact, whatever is constructed twice, cloned or left unconstructed
  (`CountsExact`). A constructed mapper never dies before that: its builder holds
  it, and it the builder (`MappersStay`). This leak hides a defect: the free
  handler releases arrays the mapper does not count. A running `serialize` keeps
  its builder even if callbacks construct the mapper again (`RunningBuilder`).
  A script that clones nothing, constructs each object once, by `new`, and leaves
  the properties alone uses no reference that was given up while it runs
  (`SafeIfTame`; the memory of an object, which the free handler and the engine both
  give back, is not looked at, see section 5); each of these conditions is needed.
  At the end of the request no object is released once its free handler has run, if
  there are no mappers and builders hold only older objects (`CleanEnd`).
* An iterator delivers each element with its own key (`KeyMatches`), reads
  `failed` only after a rewind has written it (`NullMeansEnd`; not so for
  `IteratorIterator::next` without one). A `foreach` over a table with a number that
  `getInt` refuses ends the script, with a C++ exception that nothing catches: at the
  first such element, when everything before it has been delivered, and at no other
  place; past the end only PHP code that drives an `InternalIterator` meets it
  (`DiesAtRefused`). Every `foreach` ends one way or another (`LoopEnds`).
* `Exact` says which values come back. From the first trip: those without
  objects and negative numbers whose tables are written as objects (the cursor
  not on an integer key, or a name after the first entry) or are lists 0, 1,
  2... From every trip: if, besides, the keys of each table, in the order of
  their texts, are no list, or one that begins at 0 without a gap.
  After three trips nothing changes any more (`Settles`). Accessors read what
  `deserialize` returns (`ReadByHand`), and more where that throws for negative
  numbers (`NumbersInDocument`); `foreach` loses doubles and nothing else
  (`ForeachReads`).
* **Findings**: `registerSerializer` and `registerDeserializer` throw "Second
  argument needs to be a valid callback" without returning, and register the
  argument (`unchecked_callback`); `Builder::__construct` says "Type mapper is
  mandatory" and takes any value (`any_mapper`); an object without a serializer
  is written with its private properties, although the warning says "writing
  public keys" (`public_keys`).

## 4. The proofs

Checked by TLAPS, for every value of the constants that satisfies the named
assumptions of the modules. Of `Serializer`, for every heap, script, bound and
width of a long:

* `TypeCorrect`: `Spec => []TypeOK`.
* `FramesNest`: `Spec => []FrameDiscipline`. A C++ exception always finds a PHP
  activation below it; `TypeMapper::serialize` is entered from PHP code alone;
  between two PHP activations all C++ code writes to one builder; callbacks work
  on the mapper's.
* `CallbacksSpareUserBuilder`: if callbacks write only to the builder they are
  given, `Spec => SparesUserBuilder`.

The inductive invariant of the first two is `Inv == TypeOK /\ FrameDiscipline`.
Neither half stands alone: unwinding picks the nearest PHP frame, and that there
is one (so that the stack stays well typed and not empty) is `FrameDiscipline`;
the frame a step pushes is well typed because the values in tables are
(`HeapAssumption`). The lemmas follow the code: what each call of the library
leaves, what popping, advancing, unwinding and pushing do
to a stack, then `SerializeType`, `EnterInv`, `AddInv`, and `NextInv` with one
step per action. `CallbacksSpareUserBuilder` adds to `Inv` that every frame above
a callback, and the callback itself, targets the mapper's builder (`Contained`).

Of `SerializerDoc`, the same, and for every heap whose values are finitely deep:

* `DocumentsWritten`: `Spec => []Faithful`. A call on an honest value that returns
  returns the document of that value.
* `ReentryLoses`: `Spec => []NestedWins`. A call that was re-entered never returns
  its own document.
* `PromiseKept`: `CallsFromScript /\ Spec => KeepsPromise`. `Serializer` implements
  `MapperCall` if callbacks do not call `TypeMapper::serialize`, which is the
  situation that specification is about. A call on an honest value does not throw.

`Faithful` speaks of the moment a call returns; the invariant `DocInv` says of
every state what is in the builder. For each call in progress on an honest value
nothing is pending (`HonestCalls`), and there is a sequence `h` of builders, one for
each of its activations, the builder that one began with (`Run`, `Frames`): the
first is the cleared builder; each next one is what its parent has written when it
hands over the value (`Mid`); and what is in the builder now is what the running
activation adds to its own (`Held`). `Now(b, v, k)` is what `k` steps of `v` make of `b`,
whether `v` is a table that C++ code walks or an object whose callback runs:
`Steps` has the list of both, and a table is two steps longer than its entries. One
step of the code moves the last of these activations by one step, or begins, or ends, an
activation (`Continues`); everything else that can happen, a nested call or
`clear` among it, an honest call cannot meet. That its document is one complete
value, so that `slice` returns all of it, is shown by recursion over the value:
`Doc` of an honest value opens as many containers as it closes, and closes the last
with its last token (`HonestComplete`, `HonestFirst`).

`ReentryLoses` has an invariant of its own, `WinsInv`: if a nested call returned a
document and nothing has disturbed the builder since, then that document is still
the first value in it, or the library promises nothing about the builder (`Wins`).
Every call of the library extends the builder or breaks it (`WritesExtend`), and what is
written after the first complete value does not change it (`FirstValueStays`).

`PromiseKept` maps the call above the script to `call`, and the last result to
`answer`. It adds to `DocInv` that there is one call at most (`OneCall`). A step
begins a call (`SerializeCall`: only the script does, and nothing that is written to a
cleared builder first throws), ends it (`ReturnPromise`), ends it with a C++
exception (`Refusal`: then the call was not honest, since `Run` cannot hold without
it), or leaves call and result alone.

Of `Deserializer`, for every set of documents, tags, classes and callbacks:

* `GapsPending`, `NoGaps`, `FatalBehind`: `Spec => []P` for `P` each of
  `GapsArePending`, `NoGapDelivered`, `FatalBehindGap`. They share the invariant
  `GapInv == RegOK /\ Stacks`. None of the three is inductive alone. That a gap is
  never delivered needs that each gap has its pending exception (`Gaps`); that a
  gap stays above PHP code needs how activations nest (`Shape`: PHP code calls
  `TypeMapper::deserialize` only, and that is called by PHP code only); that the
  request ends in a loop needs that a call in progress has no value yet (also
  `Shape`); and that `IS_UNDEF` comes with an exception needs that no deserializer
  is registered that cannot be called (`RegOK`). The lemmas go from values
  (`FaultyConcat`) to stacks (`PushGaps`, `PutGaps`), then one per action.
* `InputsReferenced`: `Spec => []Referenced`. The invariant `HeldInv` adds that
  a pending exception has been thrown: `CallbackFails` after a `fromVPack` keeps its
  reference, and only because something was thrown is the count then allowed to be
  too high. That each step takes and gives up one reference for one activation
  needs `Stacks`, which says where on the stack that activation is.
* `DocumentsDecoded`: `Spec => Faithful`. The invariant `FaithInv` says that each
  loop has stored the values of the entries it has passed, in their order and with
  their keys (`Right`, `Done`), and that an activation above a loop works on the entry
  the loop is at (`Runs`). It claims that of activations since whose start nothing was
  registered, and whose loops no pending exception has left with a gap. `Decoded`
  depends on the registry, so a registration changes what all documents mean; the
  lemmas are therefore stated for any function `D` in its place, and a registration
  is shown to leave nothing claimed that could have become wrong.
* `TypesKept`: `Spec => []TypeOK`. Most of it the invariants above contain: that
  no count of references falls below zero is `Referenced`. `Rest` is what they leave.

Recursion over data. A function defined by recursion (`Doc` and `Honest` of
`SerializerDoc`, `Decoded` of `Deserializer`) is a `CHOOSE` of a function that
satisfies its equation, and a proof may use the equation only after it has shown
that such a function exists. `Recursion` of `Foundations` does that for data of which
every set has an element without parts in the set (`Founded`): two functions that
satisfy the equation on a set closed under parts agree there, and the union of
all of them is defined everywhere, or it could be extended by one value. Where a
property of every value is needed, a value that has not got it and whose parts
all have it leads to a contradiction.

The assumptions. `NestingAssumption` (of `SerializerDoc` and of `Deserializer`)
says that values and documents are finitely deep. A document is a string, and a
sub-value a proper part of it, so it cannot be otherwise. PHP values that contain
themselves exist, but there the recursion of the code does not end either: no
call returns, and no document is defined (section 5). `LongAssumption` says that a
`zend_long` is a signed number of `w` bits: what is written is the remainder modulo
`2^w`, and only for numbers in that range is that the number, or the one with the
same bits. `HeapAssumption` and `ScriptAssumption` are types.

Of `SliceObjects`, for every set of documents, strings, objects and iterators,
each of its six invariants (`TypeCorrect`, `ObjectsPoint`, `MissingIsNone`,
`HeldIsKept`, `TidyIsExact`, `ForeachInOrder`). They share one inductive invariant
`Inv == TypeOK /\ ObjectsCounted /\ StringsCounted /\ LeftBehind /\ Values /\ Iterating`,
and depend on one another: an iterator makes objects by adding to the offset of the
one it is on, so that one must still be there (the counts) and still be the
same, or the iterator must know that it was constructed again (`Beside`); and that
a count goes down only for a holder that exists needs that an iterator not in
use holds nothing (`Alongside`). `LeftBehind` says that a string has a reference to
spare as long as an iterator goes over it whose object was constructed again: that
step adds a reference for the object and never gives up the old one, and no later
step gives up one that is not counted for a holder. The lemma `Kept` states what a step has to show:
no object or string ends with fewer references to spare than before, and with
exactly as many if the script is tidy; objects still there point where they
pointed. Then one lemma per action.

Of `SliceIterator`, for tables of any size, all four invariants (`TypeCorrect`,
`KeysMatch`, `NullOnlyAtEnd`, `RefusedStops`). `InStep` relates the number of pairs delivered to
the position: from a rewind on every element passed was delivered, so that a loop
cannot have passed a refused one; `FlagAtEnd` says that the flag is set at the end
only.
`LoopShrinks` is what can be proved of `LoopEnds`: each step of a `foreach` lessens
a natural number (`StepsLeft`). That the loop can always take a step, and does, is
left to TLC.

Of `Lifecycle`, for any number of handles and arrays, all six properties
(`TypeCorrect`, `CountsAreExact`, `BuilderKept`, `TameIsSafe`, `EndIsClean`,
`MappersOutliveScript`). That arrays keep exact counts needs that no free handler
of a constructed mapper runs before the end, for it would release its arrays
twice; that none runs needs that each constructed mapper is held, by a builder
that is held by it or was lost (`MappersPinned`, `Pinned`); and that what is held
stays needs that the counts are exact. `CountsExact` says nothing after the end
of the request, when the engine frees what is held; there the invariant keeps
`refs[h] >= Held(h)` only, and for a clean end that the handles freed are above
all those that live (`Ending`).

Of `RoundTrip`, for all sets of values, texts and numbers and every width of a
long, all six invariants of the run: `TypeCorrect`, `ComesBack` (`Exact`), `Settled`
(`Settles`), `HandReads` (`ReadByHand`), `NumbersKept` (`NumbersInDocument`),
`LoopReads` (`ForeachReads`). The invariant `Course` says what the variables are after
each trip: the value is the first one, that of the first trip or that of
the second, `doc` is the document of the one before, and a call has thrown
if and only if the script's value has a negative number (the value then stays what it was).
That these three are all the values there can be is the core of the argument: one trip
is an operator on nodes, `Back`, and `BackSettles` says that
`Back(Back(Back(x))) = Back(Back(x))`. A table in which a name remains is written as
an object in the order of its texts, and the next trip finds the same texts
(`Named`, `NamedTwice`); one in which only integers remain is, after one trip at most, written as a list,
and comes back as 0, 1, 2... (`NumberedTwice`). `BackType` says that what comes
back is a value again: `TextKeys`, that two keys of a table never have the same
text, is what keeps its keys apart. `BackSame` and `BackTwiceSame` say when a node is
the same after one trip and after two, `HandNodes` and `LoopNodes` compare the
other readers with `DeserNode`, and `Wrap` is the arithmetic of a long written unsigned.
`Sorting`, that the model's way to sort a set of texts lists each of them once, needs
the ranks of `Foundations`.

Its assumptions: `TextAssumption` says that the library orders texts, that a number is
printed by one text only, and that no mangled name prints one (it begins with a NUL);
`LongAssumption` that half of the numbers of a long are negative, as in two's complement;
`ValuesAssumption` that the script starts from values PHP can hold: each key once,
integers as integer keys, longs in range, cursors in the table, and a text for
each index the value's lists can have. Values that contain themselves are not
excluded by it, but they have no end and no document (section 5).

Only model-checked: `LoopEnds` of `SliceIterator`, because it is a liveness property.

## 5. Not modelled

* Queries of Builder; of Slice, the hashes, sizes and dumps, and what reads types
  `serialize` never writes: each calls the library method of the same name and
  keeps no state.
* `slice`, `toString`, `toJson`, `hasKey` and `getKey` of Builder: compiled, but
  not in the table of methods (`Builder.cpp` 496-512), so nothing can call them.
* Registration of classes and the module entry: runs once, straight through.
* The library itself, beyond the contract in `VPackBuilder`; bytes. The library's
  iterators, which `slice_get_iterator` allocates and nobody deletes.
* The memory of objects: the free handlers give it back themselves (`efree`), and
  so does the engine. Every object goes this way, whatever the order of calls,
  so there is nothing for a model to find. The order among objects whose release is
  pending is left open.
* What comes of using a Slice object that points at no value (`Misuse`): it reads
  memory that no document is in.
* Any relation between the two tables of `registerMapping`: an object is written with
  the tag of `classToTagMap` only if its class is not `Serializable`, and a tag read
  through `tagToClassMap` only if it is, so no value ever meets both.
* Data that contains itself (unbounded recursion); property tables that change
  while they are walked; registrations that write into an array shared with a
  variable of the script; error handlers that throw.
* Liveness and `ENABLED` are out of the prover's reach; they stay with TLC.

## 6. Plan

Done: serialization (`VPackBuilder`, `Serializer`, `SerializerDoc`, `MapperCall`),
`Deserializer`, `SliceObjects`, `SliceIterator`, `Lifecycle`, `RoundTrip`, and the
proofs above. Every invariant and every action property of a passing run, and
the refinement of `MapperCall`, has a theorem. Open, in this order:

1. Error handlers that throw, in `Serializer` and `Deserializer`.
2. Registrations into arrays that the script shares, in `Lifecycle`.
