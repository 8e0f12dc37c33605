---------------------------- MODULE SliceIterator ----------------------------
(* The handlers of Slice's iterator (slice_iterator_... in Slice.cpp), as    *)
(* their drivers call them: keys, positions, and the flag failed, which            *)
(* slice_get_iterator leaves uninitialized.  (SliceObjects has the references *)
(* an iterator holds.)                                                       *)
(*                                                                          *)
(* The drivers, which the engine fixes:                                      *)
(*   "foreach"   rewinds, then asks for element and key at each valid         *)
(*               position (a generator's yield from does the same)           *)
(*   "internal"  PHP 8's InternalIterator: PHP code calls what it likes, the  *)
(*               first call rewinds                                          *)
(*   "dual"      PHP 7.4's IteratorIterator: PHP code calls rewind and next,  *)
(*               each of which fetches element and key if there is one       *)
EXTENDS Integers, Sequences

CONSTANTS
    Driver,     \* drivers
    MaxSize     \* bound: entries of the table
ASSUME DriverAssumption == Driver \subseteq {"foreach", "internal", "dual"}
ASSUME SizeAssumption == MaxSize \in Nat

VARIABLES
    driver, shape, size,    \* who drives; the table: an array or an object
    refused,                \* the elements that getInt refuses: numbers no
                            \* long can hold (RoundTrip has which)
    index,                  \* the library iterator's position
    failed,                 \* "unset" until written
    rewound,                \* rewind has been called
    fetched,                \* element and key were fetched at this position
    got,                    \* the pairs <<key, element>> since rewind
    key,                    \* the last key asked for since, and where: <<>>
                            \* or <<key, index>>
    doing                   \* "running", "over", or "dead": a C++ exception
                            \* reached the engine
table == <<driver, shape, size, refused>>
state == <<table, index, failed, rewound, fetched, got, key, doing>>

NullKey == <<"null", 0>>
\* The key of element e (the e-th, in the library's order): its index, or the
\* name an object has for it.
KeyOf(e) == IF shape = "array" THEN <<"index", e - 1>> ELSE <<"name", e>>

\* Where the library has an entry.
InTable(i) == i < size
\* slice_iterator_get_data throws: there is no value, or getInt refuses it.
\* Nothing catches that on its way into the engine.
DataThrows(i) == ~InTable(i) \/ i + 1 \in refused
\* A bug: one position too many.
ValidLate(i) == i <= size
\* slice_iterator_valid.
Valid(i) == i < size
\* A bug: an array's key after the step instead of before it.
IndexAfter(i) == i + 1
Index(i) == i
\* slice_iterator_get_key at position i: the keys it may return, none where the
\* library throws.  An uninitialized flag is read as either.
Keys(i) ==
    (IF failed # "no" THEN {NullKey} ELSE {})
    \cup (IF failed = "yes" THEN {}
          ELSE IF shape = "array" THEN {<<"index", Index(i)>>}
          ELSE IF InTable(i) THEN {<<"name", i + 1>>} ELSE {})
KeyThrows(i) == failed # "yes" /\ shape = "object" /\ ~InTable(i)

-----------------------------------------------------------------------------
\* slice_get_iterator on an array or an object.
Init ==
    /\ driver \in Driver /\ shape \in {"array", "object"} /\ size \in 0..MaxSize
    /\ refused \in SUBSET (1..size)
    /\ index = 0 /\ failed = "unset" /\ rewound = FALSE /\ fetched = FALSE
    /\ got = <<>> /\ key = <<>> /\ doing = "running"

\* A bug: failed is not reset.
RewindKeepsFailed ==
    /\ index' = 0 /\ failed' = IF failed = "unset" THEN "no" ELSE failed
    /\ rewound' = TRUE /\ got' = <<>>
\* slice_iterator_rewind.
Rewind == index' = 0 /\ failed' = "no" /\ rewound' = TRUE /\ got' = <<>>

\* A bug: nothing stops the step past the end.
MoveAnyway == index' = index + 1 /\ UNCHANGED failed
\* A bug: only arrays are stepped through.
MoveArrays == IF Valid(index) /\ shape = "array" THEN index' = index + 1 /\ UNCHANGED failed
              ELSE UNCHANGED <<index, failed>>
\* slice_iterator_move_forwards.
Move == IF Valid(index) THEN index' = index + 1 /\ UNCHANGED failed
        ELSE failed' = "yes" /\ UNCHANGED index

\* What is delivered is remembered, as far as a table can be long.
Deliver(k, e) == got' = IF Len(got) < MaxSize THEN Append(got, <<k, e>>) ELSE got

Reset ==
    /\ doing = "running"
    /\ driver = "foreach" => ~rewound
    /\ Rewind /\ fetched' = FALSE /\ key' = <<>>
    /\ UNCHANGED <<table, doing>>

\* Element and key at a valid position, in this order: foreach, and
\* IteratorIterator after it has moved or rewound.
Fetch ==
    /\ doing = "running" /\ driver # "internal" /\ ~fetched
    /\ IF driver = "foreach" THEN rewound ELSE rewound \/ index > 0
    /\ Valid(index)
    /\ \/ /\ ~DataThrows(index) /\ fetched' = TRUE /\ UNCHANGED doing
          /\ \E k \in Keys(index) : Deliver(k, index + 1) /\ key' = <<k, index>>
       \/ DataThrows(index) /\ doing' = "dead" /\ UNCHANGED <<fetched, got, key>>
    /\ UNCHANGED <<table, index, failed, rewound>>

\* foreach moves on after its body; IteratorIterator when told, rewound or not.
MoveOn ==
    /\ doing = "running" /\ driver # "internal"
    /\ driver = "foreach" => fetched
    /\ driver = "dual" => fetched \/ ~Valid(index) \/ (~rewound /\ index = 0)
    /\ Move /\ fetched' = FALSE
    /\ UNCHANGED <<table, rewound, got, key, doing>>

\* The loop ends at the first position that is not valid, or by break; the
\* other drivers when their object is freed.
Leave ==
    /\ doing = "running" /\ doing' = "over"
    /\ driver = "foreach" => rewound /\ (Valid(index) => fetched)
    /\ UNCHANGED <<table, index, failed, rewound, fetched, got, key>>

\* InternalIterator::next; the first call of a method has rewound.
InternalNext ==
    /\ doing = "running" /\ driver = "internal" /\ rewound
    /\ Move
    /\ UNCHANGED <<table, rewound, fetched, got, key, doing>>
\* InternalIterator::key.
InternalKey ==
    /\ doing = "running" /\ driver = "internal" /\ rewound
    /\ \/ \E k \in Keys(index) : key' = <<k, index>> /\ UNCHANGED doing
       \/ KeyThrows(index) /\ doing' = "dead" /\ UNCHANGED key
    /\ UNCHANGED <<table, index, failed, rewound, fetched, got>>
\* InternalIterator::current where there is no value to hand out.  (Elsewhere
\* it changes nothing.)
InternalCurrent ==
    /\ doing = "running" /\ driver = "internal" /\ rewound
    /\ DataThrows(index) /\ doing' = "dead"
    /\ UNCHANGED <<table, index, failed, rewound, fetched, got, key>>

Handlers == Reset \/ Fetch \/ MoveOn \/ Leave \/ InternalNext \/ InternalKey \/ InternalCurrent
Spec == Init /\ [][Handlers]_state /\ WF_state(driver = "foreach" /\ Handlers)

-----------------------------------------------------------------------------
(* Properties.                                                              *)

\* The type invariant.
TypeOK ==
    /\ driver \in Driver /\ shape \in {"array", "object"} /\ size \in 0..MaxSize
    /\ refused \subseteq 1..size /\ index \in 0..size /\ failed \in {"unset", "yes", "no"}
    /\ rewound \in BOOLEAN /\ fetched \in BOOLEAN
    /\ Len(got) <= size /\ Len(key) \in {0, 2}
    /\ doing \in {"running", "over", "dead"}

\* From a rewind on, the n-th pair fetched is the n-th element with its own
\* key, however often the iterator was rewound, run past its end or left
\* before.  (Not without a rewind: IteratorIterator's next then reads failed
\* before it is written, and may deliver NULL as a key.)
KeyMatches == rewound => \A n \in DOMAIN got : got[n] = <<KeyOf(n), n>>

\* Once rewound, NULL as a key means that the table is through.
NullMeansEnd == rewound /\ key # <<>> => (key[1] = NullKey => key[2] = size)

\* The exception that nothing catches meets a loop at the first element getInt
\* refuses and nowhere else: everything before it was delivered and could be,
\* and the table's end is never taken for an element.  (Only an
\* InternalIterator can be asked for an element past the end, by hand, or be
\* moved over a refused one.)
DiesAtRefused ==
    /\ \A n \in DOMAIN got : got[n][2] \notin refused
    /\ doing = "dead" => IF index = size THEN driver = "internal" ELSE
         /\ index + 1 \in refused
         /\ rewound /\ driver # "internal" =>
              Len(got) = index /\ refused \cap 1..index = {}

\* Every foreach ends: at the end of the table, by break, or at the exception.
LoopEnds == driver = "foreach" ~> doing # "running"
=============================================================================
