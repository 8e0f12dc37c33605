------------------------ MODULE SliceIterator_proofs ------------------------
(* Proofs about SliceIterator: for tables of any size and under any of the    *)
(* drivers, keys and elements stay in step, the uninitialized flag is not     *)
(* read once the iterator was rewound, and an exception meets a loop at an      *)
(* element getInt refuses only.                                             *)
EXTENDS SliceIterator, TLAPS

(* The inductive invariant.                                                  *)

KeyValue == {"null", "index", "name"} \X Nat
Types ==
    /\ driver \in Driver /\ shape \in {"array", "object"}
    /\ size \in Nat /\ size <= MaxSize
    /\ refused \subseteq 1..size
    /\ index \in Nat /\ index <= size /\ failed \in {"unset", "yes", "no"}
    /\ rewound \in BOOLEAN /\ fetched \in BOOLEAN
    /\ got \in Seq(KeyValue \X Nat)
    /\ key = <<>> \/ \E k \in KeyValue, i \in Nat : key = <<k, i>>
    /\ doing \in {"running", "over", "dead"}

\* How far the pairs delivered are behind the position: as far as they can be
\* without a rewind, and not at all after one.
InStep ==
    /\ fetched => driver # "internal" /\ index < size
    /\ driver = "internal" => got = <<>>
    /\ IF fetched THEN Len(got) <= index + 1 ELSE Len(got) <= index
    /\ rewound /\ driver # "internal" =>
         IF fetched THEN Len(got) = index + 1 ELSE Len(got) = index

\* The flag is set at the end only, and written by a rewind.
FlagAtEnd ==
    /\ failed = "yes" => index = size
    /\ rewound => failed # "unset"

Inv == Types /\ InStep /\ FlagAtEnd /\ KeyMatches /\ NullMeansEnd /\ DiesAtRefused

-----------------------------------------------------------------------------
\* What a key is worth: at a valid position after a rewind, it is that of the
\* element; NULL is possible only where the flag is not "no".
LEMMA KeysAre ==
    ASSUME Types
    PROVE  /\ Keys(index) \subseteq KeyValue
           /\ failed = "no" /\ index < size => Keys(index) = {KeyOf(index + 1)}
           /\ NullKey \in Keys(index) => failed # "no"
<1>1. /\ (index + 1) - 1 = index /\ index \in Nat /\ index + 1 \in Nat
  BY DEF Types
<1>2. Keys(index) \subseteq KeyValue
  BY <1>1 DEF Keys, KeyValue, NullKey, Index, InTable
<1>3. failed = "no" /\ index < size => Keys(index) = {KeyOf(index + 1)}
  BY <1>1 DEF Types, Keys, KeyOf, Index, InTable
<1>4. NullKey \in Keys(index) => failed # "no"
  BY DEF Keys, NullKey, Index, InTable
<1>5. QED BY <1>2, <1>3, <1>4

LEMMA InitInv == Init => Inv
<1> SUFFICES ASSUME Init PROVE Inv OBVIOUS
<1>1. Types
  <2>1. got \in Seq(KeyValue \X Nat) BY DEF Init
  <2>2. size \in Nat /\ size <= MaxSize /\ 0 <= size BY SizeAssumption DEF Init
  <2>3. refused \subseteq 1..size BY DEF Init
  <2>4. QED BY <2>1, <2>2, <2>3 DEF Init, Types
<1>2. InStep /\ FlagAtEnd BY DEF Init, InStep, FlagAtEnd
<1>3. KeyMatches /\ NullMeansEnd /\ DiesAtRefused
  BY DEF Init, KeyMatches, NullMeansEnd, DiesAtRefused
<1>4. QED BY <1>1, <1>2, <1>3 DEF Inv

LEMMA ResetStep ==
    ASSUME Inv, Reset
    PROVE  Inv'
<1> USE DEF Inv, Reset, Rewind, table
<1>1. Types'
  <2>1. got' \in Seq(KeyValue \X Nat) OBVIOUS
  <2>2. index' \in Nat /\ index' <= size' BY DEF Types
  <2>3. QED BY <2>1, <2>2 DEF Types
<1>2. InStep' /\ FlagAtEnd' BY <1>1 DEF Types, InStep, FlagAtEnd
<1>3. KeyMatches' /\ NullMeansEnd' /\ DiesAtRefused'
  BY DEF KeyMatches, NullMeansEnd, DiesAtRefused
<1>4. QED BY <1>1, <1>2, <1>3

LEMMA FetchStep ==
    ASSUME Inv, Fetch, ~DataThrows(index)
    PROVE  Inv'
<1> USE DEF Inv
<1>1. /\ doing = "running" /\ driver # "internal" /\ ~fetched /\ fetched' = TRUE
      /\ index < size /\ index + 1 \notin refused
      /\ UNCHANGED <<table, index, failed, rewound, doing>>
      /\ driver = "foreach" => rewound
      /\ \E k \in Keys(index) : Deliver(k, index + 1) /\ key' = <<k, index>>
  BY DEF Fetch, Valid, DataThrows, InTable
<1>2. PICK k \in Keys(index) : Deliver(k, index + 1) /\ key' = <<k, index>> BY <1>1
<1>3. /\ got \in Seq(KeyValue \X Nat) /\ index \in Nat /\ size \in Nat /\ size <= MaxSize
      /\ MaxSize \in Nat
  BY SizeAssumption DEF Types
<1>4. k \in KeyValue /\ (failed = "no" => k = KeyOf(index + 1) /\ k # NullKey)
  BY <1>1, <1>2, KeysAre
<1>5. Len(got) <= index /\ (rewound => Len(got) = index) /\ Len(got) \in Nat
  BY <1>1, <1>3 DEF InStep
<1>6. got' = Append(got, <<k, index + 1>>)
  BY <1>1, <1>2, <1>3, <1>5 DEF Deliver
<1>7. /\ got' \in Seq(KeyValue \X Nat) /\ Len(got') = Len(got) + 1
      /\ \A n \in DOMAIN got' : (n \in DOMAIN got /\ got'[n] = got[n])
                                  \/ (n = Len(got) + 1 /\ got'[n] = <<k, index + 1>>)
  BY <1>3, <1>4, <1>6
<1>8. Types' BY <1>1, <1>2, <1>3, <1>4, <1>7 DEF Types, table
<1>9. InStep' BY <1>1, <1>3, <1>5, <1>7 DEF InStep, table
<1>10. FlagAtEnd' BY <1>1 DEF FlagAtEnd, table
<1>11. rewound => failed = "no" BY <1>1, <1>3 DEF FlagAtEnd, Types
<1>12. KeyMatches'
  <2>1. SUFFICES ASSUME rewound, NEW n \in DOMAIN got' PROVE got'[n] = <<KeyOf(n), n>>
    BY <1>1 DEF KeyMatches, KeyOf, table
  <2>2. CASE n \in DOMAIN got /\ got'[n] = got[n] BY <2>1, <2>2 DEF KeyMatches
  <2>3. CASE n = Len(got) + 1 /\ got'[n] = <<k, index + 1>>
    BY <2>1, <2>3, <1>4, <1>5, <1>11
  <2>4. QED BY <2>2, <2>3, <1>7
<1>13. NullMeansEnd' BY <1>1, <1>2, <1>4, <1>11 DEF NullMeansEnd, table
<1>14. DiesAtRefused'
  <2>1. \A n \in DOMAIN got' : got'[n][2] \notin refused
    BY <1>1, <1>7 DEF DiesAtRefused
  <2>2. QED BY <1>1, <2>1 DEF DiesAtRefused, table
<1>15. QED BY <1>8, <1>9, <1>10, <1>12, <1>13, <1>14

LEMMA FetchDies ==
    ASSUME Inv, Fetch, DataThrows(index)
    PROVE  Inv'
<1> USE DEF Inv
<1>1. /\ doing = "running" /\ driver # "internal" /\ ~fetched /\ doing' = "dead"
      /\ index < size /\ index + 1 \in refused
      /\ UNCHANGED <<table, index, failed, rewound, fetched, got, key>>
  BY DEF Fetch, Valid, DataThrows, InTable
<1>2. Types' /\ InStep' /\ FlagAtEnd' BY <1>1 DEF Types, InStep, FlagAtEnd, table
<1>3. KeyMatches' /\ NullMeansEnd' BY <1>1 DEF KeyMatches, KeyOf, NullMeansEnd, table
<1>4. rewound => Len(got) = index /\ refused \cap 1..index = {}
  <2>1. SUFFICES ASSUME rewound PROVE Len(got) = index /\ refused \cap 1..index = {}
    OBVIOUS
  <2>2. Len(got) = index /\ got \in Seq(KeyValue \X Nat) BY <1>1, <2>1 DEF InStep, Types
  <2>3. \A n \in 1..index : n \in DOMAIN got /\ got[n] = <<KeyOf(n), n>>
    BY <2>1, <2>2 DEF KeyMatches
  <2>4. \A n \in 1..index : n \notin refused BY <2>3 DEF DiesAtRefused
  <2>5. QED BY <2>2, <2>4
<1>5. DiesAtRefused' BY <1>1, <1>4 DEF DiesAtRefused, Types, table
<1>6. QED BY <1>2, <1>3, <1>5

LEMMA MoveStep ==
    ASSUME Inv, MoveOn \/ InternalNext
    PROVE  Inv'
<1> USE DEF Inv
<1>1. /\ UNCHANGED <<table, rewound, got, key, doing>> /\ doing = "running"
      /\ Move /\ fetched' = FALSE
      /\ driver = "foreach" => fetched
      /\ driver = "dual" => fetched \/ ~(index < size) \/ (~rewound /\ index = 0)
  <2>1. CASE MoveOn BY <2>1 DEF MoveOn, Valid
  <2>2. CASE InternalNext
    <3>1. driver = "internal" /\ fetched' = fetched BY <2>2 DEF InternalNext
    <3>2. fetched' = FALSE BY <3>1 DEF InStep, Types
    <3>3. QED BY <2>2, <3>1, <3>2 DEF InternalNext
  <2>3. QED BY <2>1, <2>2
<1>2. index \in Nat /\ size \in Nat /\ index <= size /\ got \in Seq(KeyValue \X Nat)
  BY DEF Types
<1>3. \/ index < size /\ index' = index + 1 /\ failed' = failed
      \/ index = size /\ index' = index /\ failed' = "yes"
  BY <1>1, <1>2 DEF Move, Valid
<1>4. Types'
  <2>1. index' \in Nat /\ index' <= size /\ failed' \in {"unset", "yes", "no"}
    BY <1>2, <1>3 DEF Types
  <2>2. QED BY <1>1, <2>1 DEF Types, table
<1>5. InStep'
  <2>1. Len(got) \in Nat BY <1>2
  <2>2. driver \in {"foreach", "internal", "dual"} BY DriverAssumption DEF Types
  <2>3. IF fetched THEN Len(got) <= index + 1 ELSE Len(got) <= index BY DEF InStep
  <2>4. Len(got') <= index'
    BY <1>1, <1>2, <1>3, <2>1, <2>2, <2>3 DEF InStep
  <2>5. rewound /\ driver # "internal" => Len(got') = index'
    BY <1>1, <1>2, <1>3, <2>1, <2>2 DEF InStep
  <2>6. QED BY <1>1, <2>4, <2>5 DEF InStep, table
<1>6. FlagAtEnd' BY <1>1, <1>2, <1>3 DEF FlagAtEnd, table
<1>7. KeyMatches' BY <1>1 DEF KeyMatches, KeyOf, table
<1>8. NullMeansEnd' /\ DiesAtRefused' BY <1>1 DEF NullMeansEnd, DiesAtRefused, table
<1>9. QED BY <1>4, <1>5, <1>6, <1>7, <1>8

LEMMA InternalStep ==
    ASSUME Inv, InternalKey \/ InternalCurrent
    PROVE  Inv'
<1> USE DEF Inv
<1>1. /\ UNCHANGED <<table, index, failed, rewound, fetched, got>>
      /\ doing = "running" /\ driver = "internal" /\ rewound
      /\ \/ (\E k \in Keys(index) : key' = <<k, index>>) /\ doing' = doing
         \/ key' = key /\ doing' = "dead" /\ (index < size => index + 1 \in refused)
  BY DEF InternalKey, InternalCurrent, KeyThrows, DataThrows, InTable
<1>2. index \in Nat /\ size \in Nat /\ index <= size BY DEF Types
<1>3. key' = key \/ \E k \in KeyValue : key' = <<k, index>> /\ (k = NullKey => index = size)
  <2>1. \A k \in Keys(index) : k \in KeyValue /\ (k = NullKey => failed # "no")
    BY KeysAre
  <2>2. failed # "no" => index = size BY <1>1 DEF FlagAtEnd, Types
  <2>3. QED BY <1>1, <2>1, <2>2
<1>4. Types' BY <1>1, <1>2, <1>3 DEF Types, table
<1>5. InStep' /\ FlagAtEnd' BY <1>1 DEF InStep, FlagAtEnd, table
<1>6. KeyMatches' BY <1>1 DEF KeyMatches, KeyOf, table
<1>7. NullMeansEnd' BY <1>1, <1>3 DEF NullMeansEnd, table
<1>8. DiesAtRefused'
  <2>1. doing' = "dead" => index = size \/ index + 1 \in refused
    BY <1>1, <1>2
  <2>2. QED BY <1>1, <2>1 DEF DiesAtRefused, table
<1>9. QED BY <1>4, <1>5, <1>6, <1>7, <1>8

LEMMA NextInv == Inv /\ [Handlers]_state => Inv'
<1> SUFFICES ASSUME Inv, [Handlers]_state PROVE Inv' OBVIOUS
<1>1. CASE UNCHANGED <<table, index, failed, rewound, fetched, got, key>> /\ (doing' = doing \/ doing' = "over")
  <2> USE <1>1 DEF Inv, table
  <2>1. Types' /\ InStep' /\ FlagAtEnd' BY DEF Types, InStep, FlagAtEnd
  <2>2. KeyMatches' /\ NullMeansEnd' /\ DiesAtRefused'
    BY DEF KeyMatches, KeyOf, NullMeansEnd, DiesAtRefused
  <2>3. QED BY <2>1, <2>2
<1>2. Leave \/ UNCHANGED state =>
        UNCHANGED <<table, index, failed, rewound, fetched, got, key>> /\ (doing' = doing \/ doing' = "over")
  BY DEF Leave, state
<1>3. CASE Reset BY <1>3, ResetStep
<1>4. CASE Fetch BY <1>4, FetchStep, FetchDies
<1>5. CASE MoveOn \/ InternalNext BY <1>5, MoveStep
<1>6. CASE InternalKey \/ InternalCurrent BY <1>6, InternalStep
<1>7. QED BY <1>1, <1>2, <1>3, <1>4, <1>5, <1>6 DEF Handlers

LEMMA AlwaysInv == Spec => []Inv
<1>1. Init => Inv BY InitInv
<1>2. Inv /\ [Handlers]_state => Inv' BY NextInv
<1>3. QED BY <1>1, <1>2, PTL DEF Spec

-----------------------------------------------------------------------------
\* The type invariant.
THEOREM TypeCorrect == Spec => []TypeOK
<1>1. Inv => TypeOK
  <2> SUFFICES ASSUME Inv PROVE TypeOK OBVIOUS
  <2>1. Len(got) <= size
    <3>1. Len(got) \in Nat /\ index \in Nat /\ size \in Nat /\ index <= size
      BY DEF Inv, Types
    <3>2. QED BY <3>1 DEF Inv, InStep
  <2>2. Len(key) \in {0, 2} BY DEF Inv, Types
  <2>3. QED BY <2>1, <2>2, SizeAssumption DEF Inv, Types, TypeOK
<1>2. QED BY <1>1, AlwaysInv, PTL

\* From a rewind on, slice_iterator_get_key answers with the key of the element
\* that slice_iterator_get_data returned, for tables of any size.
THEOREM KeysMatch == Spec => []KeyMatches
<1>1. Inv => KeyMatches BY DEF Inv
<1>2. QED BY <1>1, AlwaysInv, PTL

\* After a rewind a NULL key is answered past the end only: failed, which
\* slice_get_iterator does not initialize, is not read before it is written.
THEOREM NullOnlyAtEnd == Spec => []NullMeansEnd
<1>1. Inv => NullMeansEnd BY DEF Inv
<1>2. QED BY <1>1, AlwaysInv, PTL

\* Whatever the table and the driver, an exception of the library reaches the
\* engine at the first element getInt refuses, with everything before it
\* delivered, or past the end for an InternalIterator driven by hand; a refused
\* element is never delivered.
THEOREM RefusedStops == Spec => []DiesAtRefused
<1>1. Inv => DiesAtRefused BY DEF Inv
<1>2. QED BY <1>1, AlwaysInv, PTL

-----------------------------------------------------------------------------
(* How long a loop can be.                                                  *)

\* The steps a foreach still makes, at most.
StepsLeft ==
    IF doing # "running" THEN 0
    ELSE IF ~rewound THEN 2 * size + 3
    ELSE 2 * (size - index) + (IF fetched THEN 1 ELSE 2)
Started == driver = "foreach" /\ fetched => rewound

LEMMA StepShrinks ==
    ASSUME Inv, Inv', Started, Handlers, driver = "foreach"
    PROVE  StepsLeft \in Nat /\ StepsLeft' \in Nat /\ StepsLeft' < StepsLeft
<1>1. /\ size \in Nat /\ index \in Nat /\ index <= size /\ rewound \in BOOLEAN /\ fetched \in BOOLEAN
      /\ fetched => index < size
  BY DEF Inv, Types, InStep
<1>2. size' \in Nat /\ index' \in Nat /\ index' <= size'
  BY DEF Inv, Types
<1>3. StepsLeft \in Nat /\ StepsLeft' \in Nat
  <2>1. ASSUME NEW s \in Nat, NEW i \in Nat, i <= s
        PROVE  /\ 2 * s + 3 \in Nat /\ 2 * (s - i) + 1 \in Nat /\ 2 * (s - i) + 2 \in Nat
               /\ 0 \in Nat
    <3>1. s \in Int /\ i \in Int /\ s - i \in Nat BY <2>1
    <3>2. \A d \in Nat : 2 * d + 1 \in Nat /\ 2 * d + 2 \in Nat /\ 2 * d + 3 \in Nat OBVIOUS
    <3> QED BY <3>1, <3>2
  <2>2. StepsLeft \in {0, 2 * size + 3, 2 * (size - index) + 1, 2 * (size - index) + 2}
    BY Zenon DEF StepsLeft
  <2>3. StepsLeft' \in {0, 2 * size' + 3, 2 * (size' - index') + 1, 2 * (size' - index') + 2}
    BY Zenon DEF StepsLeft
  <2>4. StepsLeft \in Nat BY <1>1, <2>1, <2>2
  <2>5. StepsLeft' \in Nat BY <1>2, <2>1, <2>3
  <2> QED BY <2>4, <2>5
<1>4. CASE Reset
  <2>1. ~rewound /\ doing = "running" /\ doing' = doing /\ rewound' /\ index' = 0 /\ size' = size
        /\ ~fetched'
    BY <1>4 DEF Reset, Rewind, table
  <2> QED BY <1>1, <1>3, <2>1 DEF StepsLeft
<1>5. CASE Fetch
  <2>1. /\ rewound /\ ~fetched /\ doing = "running"
        /\ UNCHANGED <<size, index, rewound>>
        /\ (fetched' /\ doing' = doing) \/ doing' = "dead"
    BY <1>5 DEF Fetch, table
  <2>2. CASE fetched' /\ doing' = doing
    BY <1>1, <1>3, <2>1, <2>2 DEF StepsLeft
  <2>3. CASE doing' = "dead"
    <3>1. StepsLeft' = 0 /\ StepsLeft >= 1
      BY <1>1, <2>1, <2>3 DEF StepsLeft
    <3> QED BY <1>3, <3>1
  <2> QED BY <2>1, <2>2, <2>3
<1>6. CASE MoveOn
  <2>1. /\ fetched /\ rewound /\ ~fetched' /\ doing = "running" /\ doing' = doing
        /\ UNCHANGED <<size, rewound>> /\ index' = index + 1
    BY <1>1, <1>6 DEF MoveOn, Move, Valid, Started, table
  <2> QED BY <1>1, <1>3, <2>1 DEF StepsLeft
<1>7. CASE Leave
  <2>1. rewound /\ doing = "running" /\ doing' = "over"
    BY <1>7 DEF Leave
  <2>2. StepsLeft' = 0 /\ StepsLeft >= 1
    BY <1>1, <2>1 DEF StepsLeft
  <2> QED BY <1>3, <2>2
<1> QED
  BY <1>3, <1>4, <1>5, <1>6, <1>7 DEF Handlers, InternalNext, InternalKey, InternalCurrent

\* Each step a foreach makes leaves it one fewer: over a table of n entries it
\* makes 2n + 3 at most, whether it runs to the end, breaks off or dies.  (That it
\* always can make the next one, and does, is LoopEnds.)
THEOREM LoopShrinks ==
    Spec => [][driver = "foreach" => StepsLeft \in Nat /\ StepsLeft' \in Nat
                                       /\ StepsLeft' < StepsLeft]_state
<1>1. Init => Started
  BY DEF Init, Started
<1>2. Started /\ [Handlers]_state => Started'
  BY DEF Started, Handlers, Reset, Rewind, Fetch, MoveOn, Leave, InternalNext, InternalKey,
         InternalCurrent, state, table
<1>3. Inv /\ Inv' /\ Started /\ [Handlers]_state
        => [driver = "foreach" => StepsLeft \in Nat /\ StepsLeft' \in Nat
                                    /\ StepsLeft' < StepsLeft]_state
  <2> SUFFICES ASSUME Inv, Inv', Started, Handlers, driver = "foreach"
               PROVE  StepsLeft \in Nat /\ StepsLeft' \in Nat /\ StepsLeft' < StepsLeft
    OBVIOUS
  <2> QED BY StepShrinks
<1> QED BY <1>1, <1>2, <1>3, AlwaysInv, PTL DEF Spec
=============================================================================
