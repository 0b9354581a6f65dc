------------------------------ MODULE GlueCalls ------------------------------
(***************************************************************************)
(* The glue that nixysa writes, at run time: what happens when a page's    *)
(* script calls a method of a plugin object, and when the C++ side runs a  *)
(* callback the script has handed over.                                    *)
(*                                                                         *)
(* A script call goes through Invoke: one `do { ... } while(false)` block  *)
(* per method, the class's blocks before its base class's, each of them    *)
(* guarded by name and number of arguments.  A block converts its          *)
(* arguments, runs the C++ method and converts the result; a conversion    *)
(* that fails breaks out of the block, and the next block has its turn.    *)
(*                                                                         *)
(* A callback goes through RunCallback: the arguments are converted into   *)
(* an array of NPVariants that nobody has initialised, the function is     *)
(* called, at once or through an NPCallback posted to the browser's main   *)
(* thread, and every element of the array is released.                     *)
(*                                                                         *)
(* The browser keeps reference counts: a Cell is an object or a string it  *)
(* has allocated.  Left out: re-entrant calls, enumerations and marshaled  *)
(* values, the texts of errors, and NPCallback's Invalidate.               *)
(***************************************************************************)
EXTENDS Naturals, Sequences, FiniteSets

CONSTANTS
  Chain,           \* the classes of an object, derived first: their methods
  Names,           \* the names a script calls
  Values,          \* what a script passes, with the elements of its arrays
  Arguments,       \* the lists of arguments a script passes
  Callbacks,       \* the callback definitions: [params, result, async]
  Contents,        \* what a C++ argument of a callback may hold
  Answers,         \* what a script's function may return
  SupportsAsync,   \* NPCallback::SupportsAsync
  Cells,           \* bound: what the browser has allocated for the glue
  MaxGlues,        \* bound: callback objects made
  NULL             \* a C++ null pointer

\* A type of the idl is the sequence of its layers, the outermost first: the
\* arrays and nullables around a type that has none.
Layers == [model : STRING, class : STRING]
Types == {t \in Seq(Layers) \ {<<>>} :
            \A k \in DOMAIN t :
              t[k].model \in IF k < Len(t) THEN {"array", "nullable"}
                             ELSE {"number", "boolean", "string", "value", "pointer",
                                   "callback", "variant", "void"}}
Models(type, models) == type # <<>> /\ type[1].model \in models

ASSUME CellsAssumption == Cells \subseteq Nat \ {0} /\ IsFiniteSet(Cells)

ASSUME CallbacksAssumption ==
  \A cb \in Callbacks : cb.params \in Seq(Types) /\ cb.async \in BOOLEAN

ASSUME ScriptAssumption ==
  /\ \A v \in Values : v.is = "object" =>
       v.length \in {"number", "other", "none"} /\ v.items \in Seq(Values)
  /\ Arguments \subseteq Seq(Values)

ASSUME ChainAssumption ==
  Chain \in Seq(Seq([name : STRING, params : Seq(Types), result : Types]))

VARIABLES
  call,            \* the script's call in progress
  run,             \* the RunCallback in progress
  heap,            \* the browser's count, and the content, of every cell
  function,        \* references the glue holds on the script's function
  glues,           \* callback objects: each keeps the function for ever
  posted,          \* NPCallbacks waiting in the browser's main loop
  heard,           \* the step's call of the function: arguments meant and got
  spoilt           \* a slot nobody had written has been released

vars == <<call, run, heap, function, glues, posted, heard, spoilt>>

(***************************************************************************)
(* Script to C++: NpapiFromNPVariant of the binding models.                *)
(***************************************************************************)

\* Whether an argument's conversion may end with success = TRUE or FALSE,
\* when it starts with success = ok.  Objects and callbacks assign success,
\* the others only clear it.

\* The elements of an array, in turn, until one fails; outcomes are those of
\* the type inside the array.
Elements(outcomes, items, ok) ==
  IF items = <<>> THEN {ok}
  ELSE {s \in BOOLEAN : IF s THEN \A i \in DOMAIN items : TRUE \in outcomes[items[i]][ok \/ i > 1]
                             ELSE \E i \in DOMAIN items : FALSE \in outcomes[items[i]][ok \/ i > 1]}

\* Without a length property the code says so and goes on: `value' has not
\* been written, so it may be no number, or a number of its own choosing.
FromArray(outcomes, v, ok) ==
  CASE v.is # "object" -> {FALSE}
    [] v.is = "object" /\ v.length = "other" -> {FALSE}
    [] v.is = "object" /\ v.length = "number" -> Elements(outcomes, v.items, ok)
    [] v.is = "object" /\ v.length = "none" ->
         {FALSE} \cup UNION {Elements(outcomes, SubSeq(v.items, 1, n), FALSE)
                               : n \in 0 .. Len(v.items)}

\* The outcomes of a layer: an array or a nullable uses those of what it encloses.
LayerOutcomes(layer, inside, v, ok) ==
  CASE layer.model \in {"number", "boolean", "string"} -> {ok /\ v.is = layer.model}
    [] layer.model \in {"value", "pointer"} -> {v.is = "glue" /\ v.class = layer.class}
    [] layer.model = "callback" -> {v.is \in {"object", "glue"}}
    [] layer.model = "nullable" -> IF v.is = "null" THEN {ok} ELSE inside[v][ok]
    [] layer.model = "array" -> FromArray(inside, v, ok)
    [] layer.model \in {"variant", "void"} -> {ok}

Conversions[type \in Types] ==
  [v \in Values |-> [ok \in BOOLEAN |->
     LayerOutcomes(type[1], Conversions[Tail(type)], v, ok)]]

FromNPVariant(type, v, ok) == Conversions[type][v][ok]

\* The conversion makes a callback object, which retains the function.
MakesGlue(type, v) ==
  \/ Models(type, {"callback"})
  \/ Models(type, {"nullable"}) /\ v.is # "null" /\ type[2].model = "callback"

(***************************************************************************)
(* The script's call.                                                      *)
(***************************************************************************)

\* No function is called in this step.
Silence == [params |-> <<>>, meant |-> <<>>, got |-> <<>>]

\* The blocks, each by its class and its place in the class's Invoke.
Blocks == UNION {{c} \X DOMAIN Chain[c] : c \in DOMAIN Chain}
Method(b) == Chain[b[1]][b[2]]
Block == Method(call.at)

Idle == [phase |-> "idle", name |-> "", args |-> <<>>, at |-> <<1, 1>>, param |-> 1,
         ran |-> <<>>, ok |-> FALSE]

\* The script calls a method.
Invoke ==
  /\ call.phase = "idle" /\ ~spoilt
  /\ \E name \in Names, args \in Arguments :
       /\ glues < MaxGlues \/ \A i \in DOMAIN args : args[i].is \notin {"object", "glue"}
       /\ call' = [Idle EXCEPT !.phase = "looking", !.name = name, !.args = args]
  /\ heard' = Silence
  /\ UNCHANGED <<run, heap, function, glues, posted, spoilt>>

Matches(b) == b.name = call.name /\ Len(b.params) = Len(call.args)

\* The next block of this class.
NextBlock == [call EXCEPT !.phase = "looking", !.at = <<@[1], @[2] + 1>>, !.param = 1]

\* if (name == ... && argCount == ...) do
Look ==
  /\ call.phase = "looking"
  /\ call.at \in Blocks
  /\ call' = IF Matches(Block) THEN [call EXCEPT !.phase = "converting"] ELSE NextBlock
  /\ heard' = Silence
  /\ UNCHANGED <<run, heap, function, glues, posted, spoilt>>

\* None is left in this class: the Invoke of its base class.
InvokeBase ==
  /\ call.phase = "looking"
  /\ call.at[1] \in DOMAIN Chain /\ call.at \notin Blocks
  /\ call' = [call EXCEPT !.at = <<@[1] + 1, 1>>]
  /\ heard' = Silence
  /\ UNCHANGED <<run, heap, function, glues, posted, spoilt>>

\* Mutant: no `break' after an argument that cannot be converted.
Convert_Untested ==
  /\ call.phase = "converting"
  /\ call.param \in DOMAIN Block.params
  /\ call' = [call EXCEPT !.param = @ + 1]
  /\ heard' = Silence
  /\ UNCHANGED <<run, heap, function, glues, posted, spoilt>>

\* One argument, and `if (!success) break;'.
Convert ==
  /\ call.phase = "converting"
  /\ call.param \in DOMAIN Block.params
  /\ LET type == Block.params[call.param]
         v == call.args[call.param]
     IN  \E success \in FromNPVariant(type, v, TRUE) :
           /\ call' = IF success THEN [call EXCEPT !.param = @ + 1] ELSE NextBlock
           /\ LET made == IF success /\ MakesGlue(type, v) THEN 1 ELSE 0
              IN  glues' = glues + made /\ function' = function + made
  /\ heard' = Silence
  /\ UNCHANGED <<run, heap, posted, spoilt>>

\* Whether converting a result may succeed or fail: an allocation fails, or
\* the method returns a null pointer.
Convertible(type) ==
  {TRUE} \cup {FALSE : k \in {k \in DOMAIN type :
                               /\ type[k].model \in {"string", "pointer"}
                               /\ \A j \in 1 .. k - 1 : type[j].model = "array"}}

\* The C++ method runs; its result goes to the script or the block is left.
Run ==
  /\ call.phase = "converting"
  /\ call.param \notin DOMAIN Block.params
  /\ LET ran == Append(call.ran, call.at)
     IN  \E success \in Convertible(Block.result) :
           call' = IF success
                   THEN [call EXCEPT !.phase = "done", !.ran = ran, !.ok = TRUE]
                   ELSE [NextBlock EXCEPT !.ran = ran]
  /\ heard' = Silence
  /\ UNCHANGED <<run, heap, function, glues, posted, spoilt>>

\* The end of the last base class's Invoke: method not found.
NotFound ==
  /\ call.phase = "looking"
  /\ call.at[1] \notin DOMAIN Chain
  /\ call' = [call EXCEPT !.phase = "done"]
  /\ heard' = Silence
  /\ UNCHANGED <<run, heap, function, glues, posted, spoilt>>

Answered ==
  /\ call.phase = "done"
  /\ call' = Idle
  /\ heard' = Silence
  /\ UNCHANGED <<run, heap, function, glues, posted, spoilt>>

(***************************************************************************)
(* The browser's cells.                                                    *)
(***************************************************************************)

Unused == {c \in Cells : heap[c].refs = 0}
NewCell == CHOOSE c \in Unused : \A o \in Unused : c <= o

Cell(content, args) == [refs |-> 1, content |-> content, args |-> args]
NoCell == [refs |-> 0, content |-> NULL, args |-> <<>>]

\* NPVariants: one the code has not written, void, null, a plain value, and
\* one that refers to a cell.
Variant(is, content, cell) == [is |-> is, content |-> content, cell |-> cell]
Garbage == Variant("garbage", NULL, 0)
Void == Variant("void", NULL, 0)
Null == Variant("null", NULL, 0)
Plain(v) == Variant("plain", v, 0)
Held(c) == Variant("held", NULL, c)

Places(slots, c) == {i \in DOMAIN slots : slots[i] = Held(c)}
Uses(slots, c) == Cardinality(Places(slots, c))

\* k references fewer: a cell is given back with its last one.
Fewer(cell, k) == IF cell.refs > k THEN [cell EXCEPT !.refs = @ - k] ELSE NoCell

\* NPN_ReleaseVariantValue of every slot.
Releasing(h, slots) ==
  [c \in Cells |-> Fewer(h[c], Uses(slots, c))]

\* What the function sees in a slot.
Seen(h, slot) ==
  CASE slot.is = "held" -> IF h[slot.cell].refs = 0 THEN Garbage
                           ELSE Plain(h[slot.cell].content)
    [] OTHER -> slot

(***************************************************************************)
(* RunCallback.                                                            *)
(***************************************************************************)

Quiet == [phase |-> "idle", callback |-> [params |-> <<>>, result |-> <<>>,
          async |-> FALSE], args |-> <<>>, slots |-> <<>>, made |-> <<>>, param |-> 1,
          success |-> TRUE, own |-> 0, answer |-> NULL, result |-> Null]

CppValues(type) ==
  IF Models(type, {"pointer", "nullable"}) THEN Contents \cup {NULL} ELSE Contents

\* The C++ side runs a callback some script's call has handed it.  (Bound:
\* after an undefined release nothing new is started.)
RunCallback ==
  /\ run.phase = "idle" /\ glues > 0 /\ ~spoilt
  /\ \E cb \in Callbacks :
       /\ Cardinality(Unused) > Len(cb.params)
       /\ \E args \in [DOMAIN cb.params -> Contents \cup {NULL}] :
            /\ \A i \in DOMAIN args : args[i] \in CppValues(cb.params[i])
            /\ run' = [Quiet EXCEPT !.phase = "pre", !.callback = cb, !.args = args,
                         !.slots = [i \in DOMAIN args |-> Garbage],
                         !.made = [i \in DOMAIN args |-> 0]]
  /\ heard' = Silence
  /\ UNCHANGED <<call, heap, function, glues, posted, spoilt>>

\* Strings and by_value objects go to their slot at once ...
ToSlot(i) ==
  /\ Models(run.callback.params[i], {"string", "value"})
  /\ heap' = [heap EXCEPT ![NewCell] = Cell(run.args[i], <<>>)]
  /\ run' = [run EXCEPT !.param = i + 1, !.success = TRUE, !.slots[i] = Held(NewCell)]

\* ... unless the string cannot be allocated.
NoString(i) ==
  /\ Models(run.callback.params[i], {"string"})
  /\ run' = [run EXCEPT !.param = i + 1, !.success = FALSE, !.slots[i] = Void]
  /\ UNCHANGED heap

\* A by_pointer object stays in a local variable, and so do plain values.
ToLocal(i) ==
  /\ Models(run.callback.params[i], {"pointer", "nullable"})
  /\ run.args[i] # NULL
  /\ heap' = [heap EXCEPT ![NewCell] = Cell(run.args[i], <<>>)]
  /\ run' = [run EXCEPT !.param = i + 1, !.success = TRUE, !.made[i] = NewCell]

\* A null pointer has no object: an error, but not of a nullable type.
NoObject(i) ==
  /\ Models(run.callback.params[i], {"pointer", "nullable"})
  /\ run.args[i] = NULL
  /\ run' = [run EXCEPT !.param = i + 1,
                        !.success = (Models(run.callback.params[i], {"nullable"}))]
  /\ UNCHANGED heap

PlainValue(i) ==
  /\ Models(run.callback.params[i], {"number", "boolean"})
  /\ run' = [run EXCEPT !.param = i + 1]
  /\ UNCHANGED heap

\* ParamsToVariantsPre: no test of success between two parameters, so that
\* what one of them assigns hides the failure of an earlier one.
Pre ==
  /\ run.phase = "pre"
  /\ run.param \in DOMAIN run.args
  /\ \/ ToSlot(run.param) \/ NoString(run.param) \/ ToLocal(run.param)
     \/ NoObject(run.param) \/ PlainValue(run.param)
  /\ heard' = Silence
  /\ UNCHANGED <<call, function, glues, posted, spoilt>>

\* ParamsToVariantsPost: the local variables go to their slots.
Filled ==
  [i \in DOMAIN run.args |->
     CASE Models(run.callback.params[i], {"string", "value"}) -> run.slots[i]
       [] Models(run.callback.params[i], {"pointer", "nullable"}) ->
            IF run.made[i] = 0 THEN Null ELSE Held(run.made[i])
       [] OTHER -> Plain(run.args[i])]

Post ==
  /\ run.phase = "pre"
  /\ run.param \notin DOMAIN run.args
  /\ run' = IF run.success THEN [run EXCEPT !.phase = "ready", !.slots = Filled]
                           ELSE [run EXCEPT !.phase = "release"]
  /\ heard' = Silence
  /\ UNCHANGED <<call, heap, function, glues, posted, spoilt>>

\* NPN_InvokeDefault: what the function was meant to get, and what it gets.
Hears(callback, args, slots) ==
  heard' = [params |-> callback.params, meant |-> args,
            got |-> [i \in DOMAIN slots |-> Seen(heap, slots[i])]]

\* The call is made at once.  Its result is released before it is read.
ReleasedResult(result) == Void

CallNow ==
  /\ run.phase = "ready"
  /\ ~(run.callback.async /\ SupportsAsync)
  /\ Hears(run.callback, run.args, run.slots)
  /\ \/ \E answer \in Answers :
          run' = [run EXCEPT !.phase = "release", !.answer = answer,
                             !.result = ReleasedResult(answer)]
     \/ run' = [run EXCEPT !.phase = "release", !.success = FALSE]
  /\ UNCHANGED <<call, heap, function, glues, posted, spoilt>>

\* Mutant: the variants are copied as they are.
Retaining_Not(h, slots) == h

\* NPCallback::Set: the function and every argument that is an object get a
\* reference of the NPCallback's own, every string a copy.  (A string is held
\* once, so that a copy and one more reference cannot be told apart.)
Retaining(h, slots) ==
  [c \in Cells |-> [h[c] EXCEPT !.refs = @ + Uses(slots, c)]]

\* The call is posted: Create, Set, CallAsync, which keeps the NPCallback.
CallLater ==
  /\ run.phase = "ready"
  /\ run.callback.async /\ SupportsAsync
  /\ LET c == NewCell
         content == [params |-> run.callback.params, meant |-> run.args,
                     slots |-> run.slots]
     IN  /\ heap' = Retaining([heap EXCEPT ![c] = [Cell(NULL, <<content>>) EXCEPT !.refs = 2]],
                              run.slots)
         /\ posted' = Append(posted, c)
         /\ run' = [run EXCEPT !.phase = "posted", !.own = c]
  /\ function' = function + 1
  /\ heard' = Silence
  /\ UNCHANGED <<call, glues, spoilt>>

\* NPCallback::Create may find no memory: the call is dropped.
CreateFails ==
  /\ run.phase = "ready"
  /\ run.callback.async /\ SupportsAsync
  /\ run' = [run EXCEPT !.phase = "release", !.success = FALSE]
  /\ heard' = Silence
  /\ UNCHANGED <<call, heap, function, glues, posted, spoilt>>

\* NPN_ReleaseObject of an NPCallback: the last reference takes its
\* arguments and its function along.
WithoutCallback(h, c) ==
  LET less == [h EXCEPT ![c] = Fewer(@, 1)]
  IN  IF h[c].refs = 1 THEN Releasing(less, h[c].args[1].slots) ELSE less

DropsCallback(c) ==
  /\ heap' = WithoutCallback(heap, c)
  /\ function' = IF heap[c].refs = 1 THEN function - 1 ELSE function

\* Mutant: RunCallback keeps its reference.
ReleaseOwn_Not ==
  /\ run.phase = "posted"
  /\ run' = [run EXCEPT !.phase = "release", !.own = 0]
  /\ heard' = Silence
  /\ UNCHANGED <<call, heap, function, glues, posted, spoilt>>

\* RunCallback gives up its own reference to the NPCallback.
ReleaseOwn ==
  /\ run.phase = "posted"
  /\ DropsCallback(run.own)
  /\ run' = [run EXCEPT !.phase = "release", !.own = 0]
  /\ heard' = Silence
  /\ UNCHANGED <<call, glues, posted, spoilt>>

\* The browser's main loop runs the first NPCallback posted.
DoAsyncCall ==
  /\ posted # <<>> /\ heap[Head(posted)].refs > 0
  /\ posted' = Tail(posted)
  /\ LET c == Head(posted)
         content == heap[c].args[1]
     IN  /\ Hears(content, content.meant, content.slots)
         /\ DropsCallback(c)
  /\ UNCHANGED <<call, run, glues, spoilt>>

\* A slot that was never written may look like a variant that refers to any
\* cell in use, or like one that needs no release.
Readings(slots) ==
  {r \in [DOMAIN slots -> {Void} \cup {Held(c) : c \in Cells \ Unused}] :
     \A i \in DOMAIN slots : slots[i] # Garbage =>
       r[i] = IF slots[i].is = "held" THEN slots[i] ELSE Void}

\* for (int i = 0; i != ArgCount; ++i) NPN_ReleaseVariantValue(&args[i])
ReleaseArgs ==
  /\ run.phase = "release"
  /\ \E read \in Readings(run.slots) : heap' = Releasing(heap, read)
  /\ run' = [run EXCEPT !.phase = "return", !.slots = <<>>, !.made = <<>>]
  /\ spoilt' = (spoilt \/ \E i \in DOMAIN run.slots : run.slots[i] = Garbage)
  /\ heard' = Silence
  /\ UNCHANGED <<call, function, glues, posted>>

\* ReturnEval: a bool is whatever `result' holds, or else false.
Returned == run.result.is = "plain" /\ run.result.content = TRUE

Return ==
  /\ run.phase = "return"
  /\ run' = Quiet
  /\ heard' = Silence
  /\ UNCHANGED <<call, heap, function, glues, posted, spoilt>>

Init ==
  /\ call = Idle
  /\ run = Quiet
  /\ heap = [c \in Cells |-> NoCell]
  /\ function = 0 /\ glues = 0
  /\ posted = <<>>
  /\ heard = Silence
  /\ spoilt = FALSE

Next ==
  \/ Invoke \/ Look \/ InvokeBase \/ Convert \/ Run \/ NotFound \/ Answered
  \/ RunCallback \/ Pre \/ Post \/ CallNow \/ CallLater \/ CreateFails
  \/ ReleaseOwn \/ DoAsyncCall \/ ReleaseArgs \/ Return

Spec == Init /\ [][Next]_vars

(***************************************************************************)
(* Properties.                                                             *)
(***************************************************************************)

\* What the idl says of an argument.
LayerFits(layer, inside, v) ==
  CASE layer.model \in {"number", "boolean", "string"} -> v.is = layer.model
    [] layer.model \in {"value", "pointer"} -> v.is = "glue" /\ v.class = layer.class
    [] layer.model = "callback" -> v.is \in {"object", "glue"}
    [] layer.model = "nullable" -> v.is = "null" \/ inside[v]
    [] layer.model = "array" -> /\ v.is = "object" /\ v.length = "number"
                                /\ \A i \in DOMAIN v.items : inside[v.items[i]]
    [] layer.model \in {"variant", "void"} -> TRUE

Fitting[type \in Types] ==
  [v \in Values |-> LayerFits(type[1], Fitting[Tail(type)], v)]

Fits(type, v) == Fitting[type][v]

\* The overloads that fit the call.
FittingBlocks ==
  {b \in Blocks : /\ Matches(Method(b))
                  /\ \A p \in DOMAIN call.args : Fits(Method(b).params[p], call.args[p])}

\* The order in which a call meets two blocks.
Before(a, b) == a[1] < b[1] \/ (a[1] = b[1] /\ a[2] < b[2])

Ran == {call.ran[i] : i \in DOMAIN call.ran}

\* Values all of whose arrays, nested ones included, have a length.
Counted ==
  UNION {S \in SUBSET Values :
           \A v \in S : v.is = "object" =>
             v.length # "none" /\ \A i \in DOMAIN v.items : v.items[i] \in S}

\* The C++ methods that run for a script's call are overloads that fit its
\* arguments, none of them passed over, the derived class's first; a second
\* one runs only because the result of the one before it could not be
\* converted; a call answers with an error exactly when no overload that fits
\* gave it a result.  The exception is an array that has no length: its
\* elements are converted with whatever number `value' held.
RunsFittingInOrder ==
  (\A i \in DOMAIN call.args : call.args[i] \in Counted)
  => /\ \A i \in DOMAIN call.ran :
          /\ call.ran[i] \in FittingBlocks
          /\ \A j \in 1 .. i - 1 : Before(call.ran[j], call.ran[i])
          /\ \A b \in FittingBlocks : Before(b, call.ran[i]) => b \in Ran
          /\ i < Len(call.ran) \/ (call.phase = "done" /\ ~call.ok) =>
               FALSE \in Convertible(Method(call.ran[i]).result)
     /\ call.phase = "done" => IF call.ok THEN Ran # {} ELSE FittingBlocks \subseteq Ran

\* A function is called with the arguments the C++ side meant, each in its
\* own place, whether it is called at once or long after RunCallback has
\* released its own copies: only a string that could not be allocated, hidden
\* by a later parameter, arrives as void, and a null pointer as null.
CalledWithItsArguments ==
  ~spoilt =>
    \A i \in DOMAIN heard.meant :
      \/ heard.got[i] = Plain(heard.meant[i])
      \/ Models(heard.params[i], {"string"}) /\ heard.got[i] = Void
      \/ heard.meant[i] = NULL /\ heard.got[i] = Null

\* Every reference the glue has taken is held by something that will give it
\* back: the slots of the RunCallback in progress, a local variable that is
\* on its way to a slot, an NPCallback; and the function by the callback
\* objects, which keep it for ever, and the NPCallbacks.  What is released
\* was held.
LiveCallbacks(h) == {c \in Cells : h[c].refs > 0 /\ h[c].args # <<>>}

Kept(h, c) == UNION {{x} \X Places(h[x].args[1].slots, c) : x \in LiveCallbacks(h)}

Local(c) == {i \in DOMAIN run.made : run.made[i] = c /\ run.slots[i] # Held(c)}

Waiting(c) == {i \in DOMAIN posted : posted[i] = c}

Own(c) == IF run.own = c THEN 1 ELSE 0

Holders(c) ==
  Uses(run.slots, c) + Cardinality(Local(c)) + Own(c) + Cardinality(Waiting(c))
  + Cardinality(Kept(heap, c))

ReferencesBalanced ==
  ~spoilt => /\ \A c \in Cells : heap[c].refs = Holders(c)
             /\ function = glues + Cardinality(LiveCallbacks(heap))

\* What the script's function returns is what RunCallback returns, as the idl
\* declares (plugin/networkuiops.idl: callback bool RequestAuthorizeAddedCB).
CallbackResultArrives ==
  run.phase = "return" /\ run.answer # NULL /\ Models(run.callback.result, {"boolean"})
  => Returned = run.answer.content
=============================================================================
