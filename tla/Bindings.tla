------------------------------ MODULE Bindings ------------------------------
(***************************************************************************)
(* The binding models (nixysa/*_binding.py).  A model is a module of       *)
(* operations that return pieces of C++ for a type: the type in various    *)
(* places, calls of an object's members, the glue of a class, and the      *)
(* conversion from and to an NPVariant.  What matters here is whether an   *)
(* operation returns a text at all.  One that is misused raises an         *)
(* exception, which ends the generator.                                    *)
(***************************************************************************)
EXTENDS SyntaxTree

\* Operations on a type, on a class as the owner of members, for a class's glue.
StringOps == {"Typedef", "Member", "ReturnValue", "Parameter", "MutableParameter",
              "MutableToNonMutable"}
MemberOps == {"CallMethod", "CallStaticMethod", "CallConstructor", "SetField", "GetField",
              "SetStatic", "GetStatic"}
GlueOps   == {"GlueHeader", "GlueCpp", "DispatchFunctionHeader"}
FromVariant == "NpapiFromNPVariant"
ToVariant   == "NpapiExprToNPVariant"

TextIf(condition) == IF condition THEN "text" ELSE "raises"
Worst(outcomes) == TextIf("raises" \notin outcomes)

\* Types nest less deeply than Python's stack, except for those that contain themselves.
RecursionLimit == 12

RECURSIVE Outcome(_, _, _, _, _)

\* GetGlueFullNamespace of the final type: InvalidScopeType unless it has glue of its own.
HasGlue(D, st, type) ==
    LET final == FinalType(D, st, type)
    IN  final.mods = <<>> /\ D[final.id].kind \in {"Class", "Callback"}

\* data_type of the final type: <<>> if that is no array or nullable type.
DataType(D, st, type) ==
    LET final == FinalType(D, st, type)
    IN  IF final.mods = <<>> THEN <<>> ELSE <<[final EXCEPT !.mods = Front(@)]>>

\* An operation that is left to the data type's model.
OfData(D, st, op, type, room) ==
    LET data == DataType(D, st, type)
    IN  IF data = <<>> \/ room = 0 THEN "raises" ELSE Outcome(D, st, op, data[1], room - 1)

-----------------------------------------------------------------------------

\* podtype is an attribute of the native types only.
PodType(D, st, type) ==
    LET final == FinalType(D, st, type)
    IN  IF final.mods = <<>> /\ D[final.id].kind = "Native" THEN D[final.id].name ELSE "none"

\* There are no values of type void.
PodStrings(D, st, op, type) ==
    IF op \in {"ReturnValue", "MutableToNonMutable"} THEN "text"
    ELSE TextIf(PodType(D, st, type) \notin {"void", "none"})
PodMembers == "raises"
PodGlue == "raises"
PodFrom(D, st, type) == TextIf(PodType(D, st, type) # "none")
PodTo(D, st, type) == TextIf(PodType(D, st, type) # "none")

EnumStrings == "text"
EnumMembers == "raises"
EnumGlue == "raises"
EnumFrom(D, st, type) ==
    LET final == FinalType(D, st, type)
    IN  TextIf(final.mods = <<>> /\ D[final.id].kind = "Enum")
EnumTo == "text"

ByValueStrings == "text"
ByValueMembers == "text"
ByValueGlue == "text"
ByValueFrom(D, st, type) == TextIf(HasGlue(D, st, type))
ByValueTo(D, st, type) == TextIf(HasGlue(D, st, type))

ByPointerStrings == "text"
ByPointerMembers == "text"
ByPointerGlue == "text"
ByPointerFrom(D, st, type) == TextIf(HasGlue(D, st, type))
ByPointerTo(D, st, type) == TextIf(HasGlue(D, st, type))

\* A callback has been made for a script's function, which it cannot be turned back into.
CallbackStrings == "text"
CallbackMembers == "raises"
CallbackDispatch == "raises"
CallbackFrom(D, st, type) == TextIf(HasGlue(D, st, type))

\* Mutant: the exception class is returned, as the model of nullable types does.
CallbackTo_Returned == "text"

CallbackTo == "raises"

\* An array of T is a vector of what T is as a member.
ArrayStrings(D, st, op, type, room) ==
    IF op = "MutableToNonMutable" THEN "text" ELSE OfData(D, st, "Member", type, room)
ArrayMembers == "raises"
ArrayGlue == "raises"
ArrayFrom(D, st, type, room) ==
    Worst({OfData(D, st, op, type, room) : op \in {FromVariant, "Member"}})
ArrayTo(D, st, type, room) ==
    Worst({OfData(D, st, op, type, room) : op \in {ToVariant, "Member"}})

\* A nullable type is written as its data type.
NullableStrings(D, st, op, type, room) == OfData(D, st, op, type, room)

\* The others return the exception class instead of raising it, which passes for a text
\* except where a pair is expected.
NullableMembers == "text"
NullableGlue(op) == TextIf(op # "DispatchFunctionHeader")
NullableFrom(D, st, type, room) ==
    Worst({OfData(D, st, op, type, room) : op \in {FromVariant, "Member"}})
NullableTo(D, st, type, room) == OfData(D, st, ToVariant, type, room)

\* The model of namespaces, which are no types.
GlobalsMembers(op) == TextIf(op \in {"CallStaticMethod", "SetStatic", "GetStatic"})

MemberOutcome ==
    [pod |-> PodMembers, enum |-> EnumMembers, by_value |-> ByValueMembers,
     by_pointer |-> ByPointerMembers, callback |-> CallbackMembers,
     unsized_array |-> ArrayMembers, nullable |-> NullableMembers]

GlueOutcome(op) ==
    [pod |-> PodGlue, enum |-> EnumGlue, by_value |-> ByValueGlue, by_pointer |-> ByPointerGlue,
     callback |-> CallbackDispatch, unsized_array |-> ArrayGlue, nullable |-> NullableGlue(op)]

\* type.binding_model.op(scope, type, ...).
Outcome(D, st, op, type, room) ==
    LET model == ModelOf(D, st, type)
    IN  CASE op \in MemberOps -> MemberOutcome[model]
          [] op \in GlueOps -> GlueOutcome(op)[model]
          [] op \in StringOps ->
               (CASE model = "pod" -> PodStrings(D, st, op, type)
                  [] model = "enum" -> EnumStrings
                  [] model = "by_value" -> ByValueStrings
                  [] model = "by_pointer" -> ByPointerStrings
                  [] model = "callback" -> CallbackStrings
                  [] model = "unsized_array" -> ArrayStrings(D, st, op, type, room)
                  [] model = "nullable" -> NullableStrings(D, st, op, type, room))
          [] op = FromVariant ->
               (CASE model = "pod" -> PodFrom(D, st, type)
                  [] model = "enum" -> EnumFrom(D, st, type)
                  [] model = "by_value" -> ByValueFrom(D, st, type)
                  [] model = "by_pointer" -> ByPointerFrom(D, st, type)
                  [] model = "callback" -> CallbackFrom(D, st, type)
                  [] model = "unsized_array" -> ArrayFrom(D, st, type, room)
                  [] model = "nullable" -> NullableFrom(D, st, type, room))
          [] op = ToVariant ->
               (CASE model = "pod" -> PodTo(D, st, type)
                  [] model = "enum" -> EnumTo
                  [] model = "by_value" -> ByValueTo(D, st, type)
                  [] model = "by_pointer" -> ByPointerTo(D, st, type)
                  [] model = "callback" -> CallbackTo
                  [] model = "unsized_array" -> ArrayTo(D, st, type, room)
                  [] model = "nullable" -> NullableTo(D, st, type, room))

Asked(D, st, op, type) == Outcome(D, st, op, type, RecursionLimit)
=============================================================================
