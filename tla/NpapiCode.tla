----------------------------- MODULE NpapiCode -----------------------------
(***************************************************************************)
(* The C++ that the handlers of nixysa/npapi_generator.py write: pieces of *)
(* text made of what the binding models return for a member's types.  The  *)
(* question is whether there is a text, or an exception instead.           *)
(***************************************************************************)
EXTENDS Bindings, NpapiGenerator

-----------------------------------------------------------------------------
(* Pieces of C++: do all the operations they are made of return a text? *)

All(D, st, op, types) == Worst({Asked(D, st, op, types[k]) : k \in DOMAIN types})

\* GetParamInputStrings and GetReturnStrings.
ParamInput(D, st, params) == All(D, st, FromVariant, params)
ReturnStrings(D, st, type) == Asked(D, st, ToVariant, type)

\* GetFunctionPrototype.
Prototype(D, st, return, params) ==
    Worst({Asked(D, st, "ReturnValue", return), All(D, st, "Parameter", params)})

\* A userglue function has the object as its first parameter, a mutable one.
UserGlue(D, st, owner, return, params) ==
    Worst({Asked(D, st, "MutableParameter", owner), Prototype(D, st, return, params)})

\* What the model of the scope says: that of a class, or globals for a namespace.
OfScope(D, st, n, op) ==
    IF D[n].kind = "Namespace" THEN GlobalsMembers(op) ELSE Asked(D, st, op, Plain(n))

MemberCall(D, st, i) ==
    LET n == D[i].parent
        return == Head(st.link[i])
        params == Tail(st.link[i])
    IN  Worst({ParamInput(D, st, params), ReturnStrings(D, st, return),
               IF Has(D[i], "userglue") THEN UserGlue(D, st, Plain(n), return, params)
               ELSE OfScope(D, st, n, "CallMethod")})

StaticCall(D, st, i) ==
    LET return == Head(st.link[i])
        params == Tail(st.link[i])
    IN  Worst({ParamInput(D, st, params), ReturnStrings(D, st, return),
               IF Has(D[i], "userglue") THEN Prototype(D, st, return, params)
               ELSE OfScope(D, st, D[i].parent, "CallStaticMethod")})

ConstructorCall(D, st, i) ==
    LET class == Plain(D[i].parent)
    IN  Worst({ParamInput(D, st, st.link[i]), ReturnStrings(D, st, class),
               IF Has(D[i], "userglue") THEN Prototype(D, st, class, st.link[i])
               ELSE Asked(D, st, "CallConstructor", class)})

\* Without a getter, the property is there and void.
MemberProp(D, st, i) ==
    LET n == D[i].parent
        type == st.link[i][1]
        get == {ReturnStrings(D, st, type),
                IF Has(D[i], "userglue_getter") THEN UserGlue(D, st, Plain(n), type, <<>>)
                ELSE OfScope(D, st, n, "GetField")}
        set == {ParamInput(D, st, <<type>>),
                IF Has(D[i], "userglue_setter")
                THEN Worst({Asked(D, st, "MutableParameter", Plain(n)), Asked(D, st, "Parameter", type)})
                ELSE OfScope(D, st, n, "SetField")}
    IN  Worst((IF Has(D[i], "getter") THEN get ELSE {}) \cup (IF Has(D[i], "setter") THEN set ELSE {}))

StaticMemberProp(D, st, i) ==
    LET type == st.link[i][1]
        get == {ReturnStrings(D, st, type), OfScope(D, st, D[i].parent, "GetStatic")}
        set == {ParamInput(D, st, <<type>>), OfScope(D, st, D[i].parent, "SetStatic")}
    IN  Worst((IF Has(D[i], "getter") THEN get ELSE {}) \cup (IF Has(D[i], "setter") THEN set ELSE {}))

\* RunCallback and the class that calls it (callback_binding's glue).
CallbackGlue(D, st, i) ==
    LET return == Head(st.link[i])
        params == Tail(st.link[i])
    IN  Worst({Prototype(D, st, return, params), All(D, st, ToVariant, params),
               Asked(D, st, FromVariant, return)})

FinishClass(D, st, i) ==
    Worst({Asked(D, st, op, Plain(i)) : op \in GlueOps \cup
               {"Parameter", "MutableParameter", "MutableToNonMutable"}})

FunctionResult(D, st, i) ==
    CASE D[i].kind = "Function" -> IF Static(D, i) THEN StaticCall(D, st, i) ELSE MemberCall(D, st, i)
      [] D[i].kind = "Destructor" /\ ~Static(D, i) -> "text"
      [] Static(D, i) \/ D[i].name # D[D[i].parent].name -> "raises"
      [] OTHER -> ConstructorCall(D, st, i)

\* What a handler returns.
Result(D, st, i) ==
    CASE D[i].kind \in {"Function", "Constructor", "Destructor"} -> FunctionResult(D, st, i)
      [] D[i].kind = "Variable" -> IF Static(D, i) THEN StaticMemberProp(D, st, i) ELSE MemberProp(D, st, i)
      [] D[i].kind = "Callback" -> CallbackGlue(D, st, i)
      [] D[i].kind \in {"Enum", "Class", "Namespace"} -> "text"

\* What there is to write once the members of a scope are.
FinishScope(D, st, n) == IF D[n].kind = "Class" THEN FinishClass(D, st, n) ELSE "text"
=============================================================================
