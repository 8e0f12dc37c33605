----------------------------- MODULE MapperCall -----------------------------
(* What TypeMapper::serialize promises a PHP program that does not call it  *)
(* from inside a callback: one call at a time, and a call either returns    *)
(* the document of its argument or ends in an exception.  For a clean       *)
(* argument it must return, and return exactly that document; what it does  *)
(* with any other argument is left open.                                    *)
CONSTANTS Value, Clean, Doc

VARIABLES call, answer

NoAnswer == [val |-> <<>>, doc |-> <<>>, ok |-> FALSE]

Init == call = <<>> /\ answer = NoAnswer

Begin == /\ call = <<>>
         /\ \E v \in Value : call' = <<v>>
         /\ UNCHANGED answer

Return == /\ call # <<>> /\ call[1] \in Clean
          /\ call' = <<>>
          /\ answer' = [val |-> call[1], doc |-> Doc[call[1]], ok |-> TRUE]

\* A careless argument: an exception, or some document.
Careless == /\ call # <<>> /\ call[1] \notin Clean
            /\ call' = <<>>
            /\ answer'.val = call[1]

Next == Begin \/ Return \/ Careless
Spec == Init /\ [][Next]_<<call, answer>>
=============================================================================
