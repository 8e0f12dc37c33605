---------------------------- MODULE HeapNotation ----------------------------
(* Notation for the PHP values and programs of the model-checking modules.  *)
EXTENDS Integers, Sequences, TLC

Blank(kind) == [kind |-> kind, n |-> 0, s |-> "", entries |-> <<>>, cursor |-> 0,
                tag |-> 0, prog |-> <<>>, getTagId |-> <<>>]

Long(n) == [Blank("long") EXCEPT !.n = n]
Text(s) == [Blank("string") EXCEPT !.s = s]

\* An integer key carries the digits snprintf("%ld") prints.
At(i, v) == [key |-> [long |-> TRUE, s |-> ToString(i)], val |-> v]
Named(s, v) == [key |-> [long |-> FALSE, s |-> s], val |-> v]

Table(kind, tag, entries) ==
    [Blank(kind) EXCEPT !.tag = tag, !.entries = entries,
                        !.cursor = IF entries = <<>> THEN 0 ELSE 1]
Array(entries) == Table("array", 0, entries)
Callback(kind, tag, prog) == [Blank(kind) EXCEPT !.tag = tag, !.prog = prog]
\* A Serializable whose getTagId does more than return the tag.
Asking(tag, body, prog) == [Callback("serializable", tag, prog) EXCEPT !.getTagId = body]

\* Steps of PHP code; v stands in the fields a step does not use.
Do(op, kind, key, tag, v) ==
    [op |-> op, on |-> "given", kind |-> kind, key |-> key, tag |-> tag, val |-> v]
Open(kind, v) == Do("open", kind, <<>>, 0, v)
Close(v) == Do("close", "array", <<>>, 0, v)
Clear(v) == Do("clear", "array", <<>>, 0, v)
Throw(v) == Do("throw", "array", <<>>, 0, v)
AddValue(tag, v) == Do("add", "array", <<>>, tag, v)
AddObjectValue(key, tag, v) == Do("add", "array", <<key>>, tag, v)
Call(v) == Do("serialize", "array", <<>>, 0, v)
=============================================================================
