----------------------------- MODULE Serializer -----------------------------
(* Serialization: TypeMapper::serialize, the recursive serialize and        *)
(* serializeHashTable of TypeMapper.cpp, and the Builder methods PHP code   *)
(* calls, with PHP callbacks (Serializable::getTagId and toVPack, and        *)
(* registered serializers) running in the middle of the C++ recursion.      *)
(*                                                                          *)
(* The C++ and PHP activations are one stack of frames, its last element    *)
(* the running one:                                                         *)
(*   "user"   PHP code: the script at the bottom, callbacks above           *)
(*   "hash"   serializeHashTable, between two entries of its table          *)
(*   "value"  the recursive serialize, before and after getTagId            *)
(*   "mapper" TypeMapper::serialize, waiting for its value to be written    *)
(* There are two builders: the one the mapper owns, which every call of     *)
(* TypeMapper::serialize shares, and one the script made for itself.        *)
EXTENDS VPackBuilder

CONSTANTS
    Heap,       \* the PHP values: a function from names to nodes
    Script,     \* the name of the script, which no value has
    ScriptOps,  \* what the script may do next, at every step
    MaxOps,     \* bound: the steps the script takes
    LongMod     \* 2^w for the w bits of a long

Value == DOMAIN Heap
Buffer == {"mapper", "user"}
Scalars == {"null", "false", "true", "long", "double", "string"}
Kind == Scalars \cup {"array", "plain", "serializable", "mapped", "unsupported"}
Key == [long : BOOLEAN, s : STRING]

\* One step of PHP code.  "given" is the builder the running code was given.
Op == [op : {"open", "close", "clear", "add", "serialize", "throw"},
       on : {"given", "user"}, kind : Container, key : KeyArg,
       tag : Int, val : Value]

\* A node: its kind, the number or text of a scalar, the entries of a table
\* (an array, or the public properties of an object) with the position of
\* the table's internal cursor (0: past the end), the tag of an object, the
\* body of its callback and what its getTagId does before it returns the tag.
ASSUME HeapAssumption ==
    \A v \in Value :
        /\ Heap[v].kind \in Kind
        /\ Heap[v].n \in Int /\ Heap[v].s \in STRING
        /\ Heap[v].entries \in Seq([key : Key, val : Value])
        /\ Heap[v].cursor \in 0..Len(Heap[v].entries)
        /\ Heap[v].tag \in Int
        /\ Heap[v].prog \in Seq(Op)
        /\ Heap[v].getTagId \in Seq(Op)
ASSUME ScriptAssumption ==
    /\ Script \notin Value
    /\ \A o \in ScriptOps : o \in Op
    /\ MaxOps \in Nat
\* A long is a signed number of w bits.
ASSUME LongAssumption ==
    /\ LongMod \in Nat \ {0}
    /\ \A v \in Value : -LongMod <= 2 * Heap[v].n /\ 2 * Heap[v].n < LongMod

VARIABLES
    bld,    \* the two builders
    stk,    \* the activations
    pend,   \* EG(exception): a PHP exception is pending
    ret     \* how the last call of TypeMapper::serialize ended
vars == <<bld, stk, pend, ret>>

(* Frames.  pc is the next step of a program or the next entry of a table;  *)
(* key is the key that an activation of serialize has for its value.        *)
(* A history field tells what happened above a frame since it was pushed:   *)
(* last  <<doc>> when a nested TypeMapper::serialize that returned doc was  *)
(*       the last of the exceptions, nested calls and clear() of the        *)
(*       mapper's builder; <<>> when it was not, or there were none         *)
Frame(f, v, d) ==
    [f |-> f, val |-> v, d |-> d, pc |-> 1, key |-> NoKey, last |-> <<>>]

\* A bug: the callback handed the builder the value is being added to.
CallbackBuilderOfValue(d) == d
\* The callback is handed the mapper's own builder, whichever builder the
\* value is being added to.
CallbackBuilder(d) == "mapper"
HashFrame(v, d) == Frame("hash", v, d)
CallbackFrame(v, d) == Frame("user", v, CallbackBuilder(d))
ValueFrame(v, key, d) == [Frame("value", v, d) EXCEPT !.key = key]

Top == stk[Len(stk)]
Below(s) == SubSeq(s, 1, Len(s) - 1)
Advance(s) == [s EXCEPT ![Len(s)].pc = @ + 1]
Disturb(s) == [i \in DOMAIN s |-> [s[i] EXCEPT !.last = <<>>]]
Nested(s, doc) == [i \in DOMAIN s |-> [s[i] EXCEPT !.last = <<doc>>]]

\* VPACK_CATCH: a C++ exception unwinds to the PHP code that called the
\* method, the nearest user frame.
UserLevel(s) == CHOOSE i \in DOMAIN s : /\ s[i].f = "user"
                                        /\ \A j \in DOMAIN s : j > i => s[j].f # "user"
\* A bug: one activation too many unwound.
UnwoundTooFar(s) == SubSeq(s, 1, UserLevel(s) - 1)
Unwound(s) == SubSeq(s, 1, UserLevel(s))

NoCall == [val |-> Script, doc |-> <<>>, ok |-> FALSE, last |-> <<>>]
Answer(fr, doc) == [val |-> fr.val, doc |-> doc, ok |-> ~pend, last |-> fr.last]
Refused(v) == [NoCall EXCEPT !.val = v]

-----------------------------------------------------------------------------
\* A long is written as the unsigned number with the same bits.
Atom(n) == CASE n.kind = "long" -> <<"uint", n.n % LongMod>>
             [] n.kind = "string" -> <<"str", n.s>>
             [] n.kind = "double" -> <<"double", n.s>>
             [] OTHER -> <<"const", n.kind>>

\* Whether a table is written as an object: its cursor is not on an integer
\* key, or some entry after the first has a string key.
IsObject(n) == \/ n.cursor = 0
               \/ ~n.entries[n.cursor].key.long
               \/ \E i \in 2..Len(n.entries) : ~n.entries[i].key.long
Shape(n) == IF IsObject(n) THEN "object" ELSE "array"
EntryKey(n, i) == IF IsObject(n) THEN <<n.entries[i].key.s>> ELSE NoKey

Header(b, key, tag) == WriteTag(WriteKey(b, key), tag)

\* The tag is known at once: from the table of classes, or from a getTagId
\* that only returns it.
TagKnown(n) == \/ n.kind = "mapped"
               \/ n.kind = "serializable" /\ n.getTagId = <<>> /\ ~pend

\* serialize(key, 0, mapper, d, v) up to the point where it returns or runs
\* another activation: the builder it leaves and the frame it pushes.  While
\* an exception is pending PHP refuses to run callbacks, getTagId among them,
\* and without a tag there is no value.
Serialize(v, key, b, d) ==
    LET n == Heap[v]
    IN  CASE n.kind \in Scalars ->
               [b |-> WriteAtom(WriteKey(b, key), Atom(n)), call |-> <<>>]
          [] n.kind = "array" ->
               [b |-> OpenContainer(WriteKey(b, key), Shape(n)), call |-> <<HashFrame(v, d)>>]
          [] n.kind = "plain" ->
               [b |-> OpenContainer(Header(b, key, n.tag), Shape(n)), call |-> <<HashFrame(v, d)>>]
          [] TagKnown(n) ->
               [b |-> Header(b, key, n.tag),
                call |-> IF pend THEN <<>> ELSE <<CallbackFrame(v, d)>>]
          [] n.kind = "serializable" /\ ~TagKnown(n) /\ ~pend ->
               [b |-> b, call |-> <<ValueFrame(v, key, d)>>]
          [] OTHER -> [b |-> b, call |-> <<>>]

\* One call into builder d, made with the activations s below it, that leaves
\* builder b and, unless it throws, goes on in the activations of call.
Enter(d, b, call, s) ==
    \E throws \in Throws(b) :
        /\ bld' = [bld EXCEPT ![d] = Settled(b)]
        /\ pend' = (pend \/ throws)
        /\ stk' = IF throws THEN Disturb(Unwound(s)) ELSE s \o call
        /\ ret' = IF throws /\ UserLevel(s) < Len(s) /\ s[UserLevel(s) + 1].f = "mapper"
                  THEN Refused(s[UserLevel(s) + 1].val) ELSE ret

Add(v, key, b, d, s) ==
    LET r == Serialize(v, key, b, d) IN Enter(d, r.b, r.call, s)

-----------------------------------------------------------------------------
(* PHP code.                                                                *)
Running == Top.f = "user" /\ ~pend
InTagId == Len(stk) > 1 /\ stk[Len(stk) - 1].f = "value"
Program == IF Top.val = Script THEN <<>>
           ELSE IF InTagId THEN Heap[Top.val].getTagId ELSE Heap[Top.val].prog
NextOps == IF Top.val = Script
           THEN IF Top.pc <= MaxOps THEN ScriptOps ELSE {}
           ELSE IF Top.pc <= Len(Program) THEN {Program[Top.pc]} ELSE {}
Target(o) == IF o.on = "user" THEN "user" ELSE Top.d

\* Builder::openArray and Builder::openObject.
UserOpen ==
    /\ Running
    /\ \E o \in NextOps :
        /\ o.op = "open"
        /\ Enter(Target(o), OpenContainer(bld[Target(o)], o.kind), <<>>, Advance(stk))

\* Builder::close.
UserClose ==
    /\ Running
    /\ \E o \in NextOps :
        /\ o.op = "close"
        /\ Enter(Target(o), CloseContainer(bld[Target(o)]), <<>>, Advance(stk))

\* Builder::clear.
UserClear ==
    /\ Running
    /\ \E o \in NextOps :
        /\ o.op = "clear"
        /\ bld' = [bld EXCEPT ![Target(o)] = Fresh]
        /\ stk' = IF Target(o) = "mapper" THEN Disturb(Advance(stk)) ELSE Advance(stk)
    /\ UNCHANGED <<pend, ret>>

\* Builder::addValue and, with a key, Builder::addObjectValue: the key and
\* the tag are written first, the value by a callback of the library.
UserAdd ==
    /\ Running
    /\ \E o \in NextOps :
        /\ o.op = "add"
        /\ LET d == Target(o)
           IN  Add(o.val, NoKey, Header(bld[d], o.key, o.tag), d, Advance(stk))

\* A bug: the builder not cleared first.
UserSerializeUncleared ==
    /\ Running
    /\ \E o \in NextOps :
        /\ o.op = "serialize"
        /\ Add(o.val, NoKey, bld["mapper"], "mapper",
               Append(Disturb(Advance(stk)), Frame("mapper", o.val, "mapper")))

\* TypeMapper::serialize: clear the builder the mapper owns and write the
\* value into it.  The call is re-entrant: a callback may make it too.
UserSerialize ==
    /\ Running
    /\ \E o \in NextOps :
        /\ o.op = "serialize"
        /\ Add(o.val, NoKey, Fresh, "mapper",
               Append(Disturb(Advance(stk)), Frame("mapper", o.val, "mapper")))

\* throw in PHP code.
UserThrow ==
    /\ Running
    /\ \E o \in NextOps : o.op = "throw"
    /\ pend' = TRUE
    /\ stk' = Disturb(Advance(stk))
    /\ UNCHANGED <<bld, ret>>

\* PHP code catches the pending exception and goes on.
UserCatch ==
    /\ Top.f = "user" /\ pend
    /\ pend' = FALSE
    /\ UNCHANGED <<bld, stk, ret>>

\* A callback lets the exception through: zend_call_method returns to C++
\* code, which does not look at EG(exception) and goes on.
UserPropagate ==
    /\ Top.f = "user" /\ pend /\ Len(stk) > 1
    /\ stk' = Below(stk)
    /\ UNCHANGED <<bld, pend, ret>>

\* A callback ends.
UserReturn ==
    /\ Running /\ Len(stk) > 1
    /\ Top.pc > Len(Program)
    /\ stk' = Below(stk)
    /\ UNCHANGED <<bld, pend, ret>>

-----------------------------------------------------------------------------
(* C++ code.                                                                *)

\* The loop of serializeHashTable: the next entry.
HashNext ==
    /\ Top.f = "hash"
    /\ LET n == Heap[Top.val]
       IN  /\ Top.pc <= Len(n.entries)
           /\ Add(n.entries[Top.pc].val, EntryKey(n, Top.pc), bld[Top.d], Top.d, Advance(stk))

\* Its end: b->close().
HashClose ==
    /\ Top.f = "hash"
    /\ Top.pc > Len(Heap[Top.val].entries)
    /\ Enter(Top.d, CloseContainer(bld[Top.d]), <<>>, Below(stk))

\* serialize of a Serializable: getTagId first.  It is given nothing; like any
\* PHP code it can reach the mapper and, from an earlier callback, its builder.
TagIdCall ==
    /\ Top.f = "value" /\ Top.pc = 1 /\ ~pend
    /\ stk' = Append(Advance(stk), CallbackFrame(Top.val, Top.d))
    /\ UNCHANGED <<bld, pend, ret>>

\* getTagId has thrown: the value is left out.
TagIdFails ==
    /\ Top.f = "value" /\ pend
    /\ stk' = Below(stk)
    /\ UNCHANGED <<bld, pend, ret>>

\* getTagId has returned: key and tag, then toVPack.
TagIdReturn ==
    /\ Top.f = "value" /\ Top.pc > 1 /\ ~pend
    /\ Enter(Top.d, Header(bld[Top.d], Top.key, Heap[Top.val].tag),
             <<CallbackFrame(Top.val, Top.d)>>, Below(stk))

\* A bug: the builder cleared on the way out too.
MapperReturnClears ==
    /\ Top.f = "mapper"
    /\ LET doc == SliceDoc(bld["mapper"])
       IN  stk' = Nested(Below(stk), doc) /\ ret' = Answer(Top, doc)
    /\ bld' = [bld EXCEPT !["mapper"] = Fresh]
    /\ UNCHANGED pend

\* TypeMapper::serialize, back from the recursion: slice() and return the
\* bytes.  A pending exception makes PHP drop the returned string.
MapperReturn ==
    /\ Top.f = "mapper"
    /\ \E throws \in SliceThrows(bld["mapper"]) :
        LET doc == SliceDoc(bld["mapper"])
        IN  IF throws
            THEN /\ pend' = TRUE
                 /\ stk' = Disturb(Below(stk))
                 /\ ret' = Refused(Top.val)
            ELSE /\ pend' = pend
                 /\ stk' = Nested(Below(stk), doc)
                 /\ ret' = Answer(Top, doc)
    /\ UNCHANGED bld

-----------------------------------------------------------------------------
Done == Len(stk) = 1 /\ Top.pc > MaxOps /\ ~pend
\* The script has ended.
ScriptEnd == Done /\ UNCHANGED vars

Init ==
    /\ bld = [d \in Buffer |-> Fresh]
    /\ stk = << Frame("user", Script, "user") >>
    /\ pend = FALSE
    /\ ret = NoCall

Php == \/ UserOpen \/ UserClose \/ UserClear \/ UserAdd \/ UserSerialize
       \/ UserThrow \/ UserCatch \/ UserPropagate \/ UserReturn
Cpp == HashNext \/ HashClose \/ TagIdCall \/ TagIdFails \/ TagIdReturn \/ MapperReturn
Step == Php \/ Cpp
Next == Step \/ ScriptEnd

Spec == Init /\ [][Next]_vars

-----------------------------------------------------------------------------
(* Properties.                                                              *)
Activation == [f : {"user", "hash", "value", "mapper"}, val : Value \cup {Script},
               d : Buffer, pc : Nat \ {0}, key : KeyArg, last : Seq(Document)]
Result == [val : Value \cup {Script}, doc : Document, ok : BOOLEAN,
           last : Seq(Document)]

\* The type invariant: the shape of the builders, frames and results.
TypeOK ==
    /\ bld \in [Buffer -> Builder]
    /\ stk \in Seq(Activation) /\ stk # <<>>
    /\ pend \in BOOLEAN
    /\ ret \in Result

\* The order activations nest in.  Every C++ activation has PHP code below it
\* to receive a C++ exception (VPACK_CATCH), and TypeMapper::serialize is
\* entered from PHP code alone; between two PHP activations all the C++ code
\* writes to one builder; every callback works on the mapper's builder.
Nesting(s) ==
    /\ s[1].f = "user" /\ s[1].val = Script
    /\ \A i \in 2..Len(s) :
        /\ s[i].val \in Value
        /\ s[i].f = "mapper" => s[i - 1].f = "user" /\ s[i].d = "mapper"
        /\ s[i].f = "user" => s[i].d = "mapper"
        /\ s[i].f \in {"hash", "value"} /\ s[i - 1].f # "user" => s[i].d = s[i - 1].d
FrameDiscipline == Nesting(stk)

\* Callbacks that write to the builder they were given and to no other.
GivenOnly ==
    \A v \in Value : /\ \A i \in DOMAIN Heap[v].prog : Heap[v].prog[i].on = "given"
                     /\ \A i \in DOMAIN Heap[v].getTagId : Heap[v].getTagId[i].on = "given"

\* While a callback is running, or anything it called, the builder of the
\* script does not change: the body of a toVPack never arrives in the builder
\* its value is being added to, however deep the value lies.
InCallbackOf(s) == \E i \in 2..Len(s) : s[i].f = "user"
InCallback == InCallbackOf(stk)
SparesUserBuilder == [][InCallback => bld'["user"] = bld["user"]]_vars
=============================================================================
