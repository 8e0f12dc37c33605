------------------------------ MODULE MCSlices ------------------------------
(* Two strings: a table of a number and a tagged value, which is a table      *)
(* again, of a number that getInt cannot return; and an empty table.        *)
EXTENDS SliceObjects, TLC

MCBase == "s" :> 100 @@ "t" :> 40
MCKids == "s" :> (0 :> <<2, 3>> @@ 2 :> <<>> @@ 3 :> <<4>> @@ 4 :> <<5>> @@ 5 :> <<>>)
       @@ "t" :> (0 :> <<>>)
MCKind == "s" :> (0 :> "table" @@ 2 :> "atom" @@ 3 :> "tagged" @@ 4 :> "table" @@ 5 :> "huge")
       @@ "t" :> (0 :> "table")
\* Of the value of either string, and of none.
MCOffset == {0, 9}
Places == Permutations(Slot)
=============================================================================
