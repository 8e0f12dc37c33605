---------------------------- MODULE Deserializer ----------------------------
(* Deserialization: the registry of TypeMapper (registerMapping,            *)
(* registerSerializer, registerDeserializer), TypeMapper::deserialize and   *)
(* the recursive deserialize of TypeMapper.cpp, with PHP callbacks          *)
(* (Serializable::fromVPack and registered deserializers) running in the    *)
(* middle of the C++ recursion and using the same mapper.                   *)
(*                                                                          *)
(* The activations are one stack of frames, the last one running:           *)
(*   "user"  PHP code: the script at the bottom, callbacks above            *)
(*   "call"  TypeMapper::deserialize                                        *)
(*   "loop"  the loop over the entries of an array or an object             *)
EXTENDS Integers, Sequences, FiniteSets, SequencesExt

CONSTANTS
    Doc,        \* the documents: a function from names of values to nodes
    Given,      \* the documents PHP code deserializes
    Tag,        \* tags
    Class,      \* names of classes
    Fits,       \* those of a class that exists and is Serializable
    Callback,   \* values PHP code registers as callbacks
    Callable,   \* those that can be called
    MaxOps      \* bound: registrations, calls and throws of PHP code

Node == DOMAIN Doc
Scalars == {"scalar", "null", "odd", "huge"}
Tables == {"array", "object"}

\* A node: its kind, its tag, and its entries. "odd" is a type deserialize
\* does not know, "huge" a number that getInt cannot return; a tagged value
\* has the value under the tag as its one entry.
ASSUME DocAssumption ==
    /\ Given \subseteq Node /\ Node # {}
    /\ \A n \in Node :
        /\ Doc[n].kind \in Scalars \cup Tables \cup {"tagged"}
        /\ Doc[n].tag \in Tag
        /\ Doc[n].entries \in Seq([key : STRING, val : Node])
        /\ Doc[n].kind = "tagged" => Len(Doc[n].entries) = 1
\* A document is a finite piece of a string, and its values lie in it: none is
\* inside itself, so any set of them has one that has none of them in it.
ASSUME NestingAssumption ==
    \A S \in SUBSET Node : S # {} =>
        \E n \in S : \A i \in DOMAIN Doc[n].entries : Doc[n].entries[i].val \notin S
ASSUME RegistryAssumption ==
    Fits \subseteq Class /\ Callable \subseteq Callback
ASSUME BoundAssumption == MaxOps \in Nat

VARIABLES
    classOf,    \* tagToClassMap
    tagOf,      \* classToTagMap
    ser,        \* serializers
    des,        \* deserializers
    stk,        \* the activations
    pend,       \* EG(exception): a PHP exception is pending
    fatal,      \* zend_error(E_ERROR) ended the request
    held,       \* references to input strings that C++ code counted
    ret,        \* how the last call of TypeMapper::deserialize ended
    ops,        \* the steps PHP code took so far, to bound them
    clean,      \* nothing has been thrown so far
    sound       \* no callback that cannot be called was registered so far
registry == <<classOf, tagOf, ser, des>>
vars == <<registry, stk, pend, fatal, held, ret, ops, clean, sound>>

None == <<>>    \* no entry of a hash table

(* A PHP value is a sequence of tokens.  Two of them are not values:        *)
(* "garbage" is a zval nobody assigned, "undef" one of type IS_UNDEF.       *)
Garbage == << <<"garbage">> >>
Undef == << <<"undef">> >>
Null == << <<"null">> >>
Faulty(val) == \E i \in DOMAIN val : val[i] \in {<<"garbage">>, <<"undef">>}

(* Frames.  by: the callable or the class of a callback; pc: the next       *)
(* entry; out: the values of the entries so far; steady: nothing was        *)
(* registered since the frame was pushed.                                   *)
Frame(f, n, by) == [f |-> f, node |-> n, by |-> by, pc |-> 1, out |-> <<>>, steady |-> TRUE]
Top == stk[Len(stk)]
Below(s) == SubSeq(s, 1, Len(s) - 1)
Push(fr) == stk' = Append(stk, fr)

\* The running activation goes on to its next entry, with val for this one.
Put(s, val) == [s EXCEPT ![Len(s)].pc = @ + 1, ![Len(s)].out = @ \o val]

\* The entries an activation of C++ code goes through.
Entries(fr) == CASE fr.f = "call" -> << [key |-> "", val |-> fr.node] >>
                 [] fr.f = "loop" -> Doc[fr.node].entries
                 [] OTHER -> <<>>
KeyPart(fr) == IF fr.f = "loop" /\ Doc[fr.node].kind = "object"
               THEN << <<"key", Entries(fr)[fr.pc].key>> >> ELSE <<>>

\* Slice::value takes every tag off, not only the first.
Untagged[n \in Node] ==
    IF Doc[n].kind = "tagged" THEN Untagged[Doc[n].entries[1].val] ELSE n

\* What a callback makes of its slice.
Made(by, n) == << <<"made", by, Untagged[n]>> >>

NoAnswer == [node |-> None, val |-> <<>>, ok |-> FALSE, steady |-> FALSE]

-----------------------------------------------------------------------------
(* PHP code.                                                                *)
Running == ~fatal /\ Top.f = "user" /\ ~pend
Work == Running /\ ops < MaxOps /\ ops' = ops + 1
Unsteady == stk' = [i \in DOMAIN stk |-> [stk[i] EXCEPT !.steady = FALSE]]

\* registerMapping: two hash tables, each updated for itself.
RegisterMapping(t, c) ==
    /\ Work
    /\ classOf' = [classOf EXCEPT ![t] = <<c>>]
    /\ tagOf' = [tagOf EXCEPT ![c] = <<t>>]
    /\ Unsteady
    /\ UNCHANGED <<ser, des, pend, fatal, held, ret, clean, sound>>

\* The callback is checked, an exception thrown, and the callback registered
\* all the same: there is no return after the throw.
Checked(f) == /\ pend' = (f \notin Callable)
              /\ clean' = (clean /\ f \in Callable) /\ sound' = (sound /\ f \in Callable)
Stored(table, t, f) == [table EXCEPT ![t] = <<f>>]

RegisterSerializer(t, f) ==
    /\ Work /\ Checked(f)
    /\ ser' = Stored(ser, t, f)
    /\ Unsteady
    /\ UNCHANGED <<classOf, tagOf, des, fatal, held, ret>>

RegisterDeserializer(t, f) ==
    /\ Work /\ Checked(f)
    /\ des' = Stored(des, t, f)
    /\ Unsteady
    /\ UNCHANGED <<classOf, tagOf, ser, fatal, held, ret>>

\* TypeMapper::deserialize, up to the recursion: one reference to the input.
Call(n) ==
    /\ Work
    /\ Push(Frame("call", n, None))
    /\ held' = held + 1
    /\ UNCHANGED <<registry, pend, fatal, ret, clean, sound>>

\* throw in PHP code.
Throw ==
    /\ Work
    /\ pend' = TRUE /\ clean' = FALSE
    /\ UNCHANGED <<registry, stk, fatal, held, ret, sound>>

\* PHP code catches the pending exception and goes on.
Catch ==
    /\ ~fatal /\ Top.f = "user" /\ pend
    /\ pend' = FALSE
    /\ UNCHANGED <<registry, stk, fatal, held, ret, ops, clean, sound>>

InCallback == ~fatal /\ Top.f = "user" /\ Len(stk) > 1

\* The value for an entry, with its key, goes to the activation below.
Resume(val) == stk' = Put(Below(stk), KeyPart(stk[Len(stk) - 1]) \o val)

\* Bugs: the slice not released; a failed callback read as null.
CallbackReturnKeeps ==
    /\ InCallback /\ ~pend
    /\ Resume(Made(Top.by, Top.node))
    /\ UNCHANGED <<registry, pend, fatal, held, ret, ops, clean, sound>>
CallbackFailsNull ==
    /\ InCallback /\ pend
    /\ Resume(Null)
    /\ held' = IF Top.by[1] = "from" THEN held ELSE held - 1
    /\ UNCHANGED <<registry, pend, fatal, ret, ops, clean, sound>>

\* A callback returns the object it made; the slice is released.
CallbackReturn ==
    /\ InCallback /\ ~pend
    /\ Resume(Made(Top.by, Top.node))
    /\ held' = held - 1
    /\ UNCHANGED <<registry, pend, fatal, ret, ops, clean, sound>>

\* A callback ends with an exception: it leaves ret undefined.  After a
\* fromVPack a second exception is thrown, and the slice is not released.
CallbackFails ==
    /\ InCallback /\ pend
    /\ Resume(Undef)
    /\ held' = IF Top.by[1] = "from" THEN held ELSE held - 1
    /\ UNCHANGED <<registry, pend, fatal, ret, ops, clean, sound>>

-----------------------------------------------------------------------------
(* C++ code: deserialize, one value per step.                               *)
Deserializing == ~fatal /\ Top.f # "user" /\ Top.pc <= Len(Entries(Top))
This == Entries(Top)[Top.pc].val
Value(val) == stk' = Put(stk, KeyPart(Top) \o val)

\* The cases that assign ret at once.  A type or a tag that is not known is a
\* warning and null.
Plain ==
    /\ Deserializing
    /\ \/ Doc[This].kind = "scalar" /\ Value(<< <<"scalar", This>> >>)
       \/ Doc[This].kind \in {"null", "odd"} /\ Value(Null)
       \/ /\ Doc[This].kind = "tagged"
          /\ des[Doc[This].tag] = None /\ classOf[Doc[This].tag] = None
          /\ Value(Null)
    /\ UNCHANGED <<registry, pend, fatal, held, ret, ops, clean, sound>>

\* getInt throws: VPACK_CATCH of the call in progress turns the C++ exception
\* into a PHP exception; the copy of its input is not released.
UserLevel == CHOOSE i \in DOMAIN stk : /\ stk[i].f = "user"
                                       /\ \A j \in DOMAIN stk : j > i => stk[j].f # "user"
GetIntThrows ==
    /\ Deserializing /\ Doc[This].kind = "huge"
    /\ stk' = SubSeq(stk, 1, UserLevel)
    /\ pend' = TRUE /\ clean' = FALSE
    /\ ret' = [NoAnswer EXCEPT !.node = <<stk[UserLevel + 1].node>>]
    /\ UNCHANGED <<registry, fatal, held, ops, sound>>

Descend ==
    /\ Deserializing /\ Doc[This].kind \in Tables
    /\ Push(Frame("loop", This, None))
    /\ UNCHANGED <<registry, pend, fatal, held, ret, ops, clean, sound>>

\* A slice for the value is made and the callback run.  With an exception
\* pending PHP refuses to call Slice::__construct, and new_slice_ref_zval ends
\* the request.
RunCallback(by) ==
    IF pend THEN fatal' = TRUE /\ UNCHANGED <<stk, held>>
    ELSE Push(Frame("user", This, by)) /\ held' = held + 1 /\ UNCHANGED fatal

\* A deserializer registered for the (first) tag.  One that cannot be called
\* leaves ret undefined, which is not looked at.
ByDeserializer ==
    /\ Deserializing /\ Doc[This].kind = "tagged" /\ des[Doc[This].tag] # None
    /\ LET f == des[Doc[This].tag][1]
       IN  IF f \in Callable \/ pend THEN RunCallback(<<"call", f>>)
           ELSE Value(Undef) /\ UNCHANGED <<held, fatal>>
    /\ UNCHANGED <<registry, pend, ret, ops, clean, sound>>

\* Bugs: a registered deserializer does not take precedence; a class that
\* cannot be used is not reported.
ByClassAnyway ==
    /\ Deserializing /\ Doc[This].kind = "tagged" /\ classOf[Doc[This].tag] # None
    /\ LET c == classOf[Doc[This].tag][1]
       IN  c \in Fits /\ RunCallback(<<"from", c>>)
    /\ UNCHANGED <<registry, pend, ret, ops, clean, sound>>
ByClassSilent ==
    /\ Deserializing /\ Doc[This].kind = "tagged"
    /\ des[Doc[This].tag] = None /\ classOf[Doc[This].tag] # None
    /\ LET c == classOf[Doc[This].tag][1]
       IN  IF c \in Fits THEN RunCallback(<<"from", c>>)
           ELSE Value(Garbage) /\ UNCHANGED <<held, fatal>>
    /\ UNCHANGED <<registry, pend, ret, ops, clean, sound>>

\* Otherwise the class mapped to the tag.  When there is no such class, or it
\* is not Serializable, an exception is thrown and ret never assigned.
ByClass ==
    /\ Deserializing /\ Doc[This].kind = "tagged"
    /\ des[Doc[This].tag] = None /\ classOf[Doc[This].tag] # None
    /\ LET c == classOf[Doc[This].tag][1]
       IN  IF c \in Fits
           THEN RunCallback(<<"from", c>>) /\ UNCHANGED <<pend, clean>>
           ELSE /\ Value(Garbage)
                /\ pend' = TRUE /\ clean' = FALSE
                /\ UNCHANGED <<held, fatal>>
    /\ UNCHANGED <<registry, ret, ops, sound>>

\* The end of a loop: its table is the value for an entry of the activation
\* below.  The loops do not look at EG(exception).
Table(n, out) == << <<"open", Doc[n].kind>> >> \o out \o << <<"close">> >>
LoopEnd ==
    /\ ~fatal /\ Top.f = "loop" /\ Top.pc > Len(Entries(Top))
    /\ Resume(Table(Top.node, Top.out))
    /\ UNCHANGED <<registry, pend, fatal, held, ret, ops, clean, sound>>

\* A bug: the copy of the input released twice.
CallReturnTwice ==
    /\ ~fatal /\ Top.f = "call" /\ Top.pc > 1
    /\ stk' = Below(stk)
    /\ held' = held - 2
    /\ ret' = [node |-> <<Top.node>>, val |-> Top.out, ok |-> ~pend, steady |-> Top.steady]
    /\ UNCHANGED <<registry, pend, fatal, ops, clean, sound>>

\* TypeMapper::deserialize releases its copy of the input and returns.  PHP
\* drops the value if an exception is pending.
CallReturn ==
    /\ ~fatal /\ Top.f = "call" /\ Top.pc > 1
    /\ stk' = Below(stk)
    /\ held' = held - 1
    /\ ret' = [node |-> <<Top.node>>, val |-> Top.out, ok |-> ~pend, steady |-> Top.steady]
    /\ UNCHANGED <<registry, pend, fatal, ops, clean, sound>>

-----------------------------------------------------------------------------
\* The script has ended, or the request.
Ended == \/ fatal
         \/ Len(stk) = 1 /\ ops = MaxOps /\ ~pend
Stop == Ended /\ UNCHANGED vars

Init ==
    /\ classOf = [t \in Tag |-> None] /\ tagOf = [c \in Class |-> None]
    /\ ser = [t \in Tag |-> None] /\ des = [t \in Tag |-> None]
    /\ stk = << Frame("user", CHOOSE n \in Node : TRUE, None) >>
    /\ pend = FALSE /\ fatal = FALSE /\ held = 0 /\ ret = NoAnswer /\ ops = 0
    /\ clean = TRUE /\ sound = TRUE

Register ==
    \/ \E t \in Tag, c \in Class : RegisterMapping(t, c)
    \/ \E t \in Tag, f \in Callback : RegisterSerializer(t, f) \/ RegisterDeserializer(t, f)
Php == Register \/ (\E n \in Given : Call(n)) \/ Throw \/ Catch
       \/ CallbackReturn \/ CallbackFails
Cpp == Plain \/ GetIntThrows \/ Descend \/ ByDeserializer \/ ByClass
       \/ LoopEnd \/ CallReturn
Next == Php \/ Cpp \/ Stop
Spec == Init /\ [][Next]_vars

-----------------------------------------------------------------------------
(* Properties.                                                              *)
Maker == {None} \cup ({"call"} \X Callback) \cup ({"from"} \X Class)
Token == {<<"garbage">>, <<"undef">>, <<"null">>, <<"close">>}
         \cup ({"scalar"} \X Node) \cup ({"key"} \X STRING) \cup ({"open"} \X Tables)
         \cup ({"made"} \X Maker \X Node)
Activation == [f : {"user", "call", "loop"}, node : Node, by : Maker, pc : Nat \ {0},
               out : Seq(Token), steady : BOOLEAN]
Maybe(S) == {None} \cup [1..1 -> S]

\* The type invariant.
TypeOK ==
    /\ classOf \in [Tag -> Maybe(Class)] /\ tagOf \in [Class -> Maybe(Tag)]
    /\ ser \in [Tag -> Maybe(Callback)] /\ des \in [Tag -> Maybe(Callback)]
    /\ stk \in Seq(Activation) /\ stk # <<>>
    /\ {pend, fatal, clean, sound} \subseteq BOOLEAN
    /\ held \in Nat /\ ops \in 0..MaxOps
    /\ ret \in [node : Maybe(Node), val : Seq(Token), ok : BOOLEAN, steady : BOOLEAN]

\* The PHP value of each value of a document under the registry as it is.
Decoded[n \in Node] ==
    LET d == Doc[n]
        Entry(e) == (IF d.kind = "object" THEN << <<"key", e.key>> >> ELSE <<>>) \o Decoded[e.val]
    IN  CASE d.kind = "scalar" -> << <<"scalar", n>> >>
          [] d.kind \in Tables ->
               Table(n, FlattenSeq([i \in DOMAIN d.entries |-> Entry(d.entries[i])]))
          [] d.kind = "tagged" /\ des[d.tag] # None ->
               IF des[d.tag][1] \in Callable THEN Made(<<"call", des[d.tag][1]>>, n) ELSE Undef
          [] d.kind = "tagged" /\ des[d.tag] = None /\ classOf[d.tag] # None ->
               Made(<<"from", classOf[d.tag][1]>>, n)
          [] OTHER -> Null

\* A call that returns, and during which nothing was registered, returns the
\* value its document has under the registry: every entry once, in its place,
\* with its key, whatever the callbacks in between did with the same mapper.
Returns == Top.f = "call" /\ Len(stk') < Len(stk) /\ ret'.ok
Faithful == [][Returns /\ ret'.steady => ret'.val = Decoded[Top.node]]_vars

\* The loops go on past a failed entry, with a gap in their table.  There is
\* a gap exactly while an exception is pending, and only above the PHP code
\* that waits for it: so a table with a gap is never delivered.  (Unless a
\* callback that cannot be called was registered: that fails in silence.)
Above == {i \in DOMAIN stk : \A j \in i..Len(stk) : stk[j].f # "user"}
GapsArePending ==
    /\ (Top.f # "user" /\ pend) => \E i \in Above : Faulty(stk[i].out)
    /\ sound => \A i \in DOMAIN stk : Faulty(stk[i].out) => pend /\ i \in Above
NoGapDelivered == sound /\ ret.ok => ~Faulty(ret.val)

\* The request ends only in a table one of whose entries failed before: the
\* first failure of a call is an exception PHP code can catch.
FatalBehindGap ==
    fatal => \E i \in Above : stk[i].f = "loop" /\ Faulty(stk[i].out)

\* C++ code never gives up a reference to an input string it still uses, and
\* as long as nothing is thrown it leaks none.
Holders == {i \in 2..Len(stk) : stk[i].f \in {"call", "user"}}
Referenced ==
    /\ held >= Cardinality(Holders)
    /\ (clean => held = Cardinality(Holders))

\* "Second argument needs to be a valid callback": every registered callback
\* can be called.
CallablesOnly ==
    \A t \in Tag : /\ (ser[t] # None => ser[t][1] \in Callable)
                   /\ (des[t] # None => des[t][1] \in Callable)
=============================================================================
