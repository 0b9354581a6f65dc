---------------------------- MODULE MCTranslate ----------------------------
(* Inputs for TLC: small files that lex, resolve, bind or share namespaces in different   *)
(* ways.                                                                                  *)
EXTENDS Translate, NpapiCode

Ref(path) == [path |-> path, mods |-> <<>>]
To(path, mods) == [path |-> path, mods |-> mods]
D(kind, name, refs, attrs, model) ==
    [kind |-> kind, name |-> name, refs |-> refs, attrs |-> attrs, model |-> model]

Void == Ref(<<"void">>)
Fun(return, params, attrs) == Decl(D("Function", "f", <<return>> \o params, attrs, NoModel))
Var(type, attrs) == Decl(D("Variable", "v", <<type>>, attrs, NoModel))
Callback(return, params) == Decl(D("Callback", "CB", <<return>> \o params, {}, NoModel))
Typedef(path, mods, name) == Decl(D("Typedef", name, <<To(path, mods)>>, {}, NoModel))
Enum(attrs) == Decl(D("Enum", "E", <<>>, attrs, NoModel))
Ns(name) == Open(D("Namespace", name, <<>>, {}, NoModel))
ClassOf(name, refs, attrs, model) ==
    Open(D("Class", name, refs, attrs \cup (IF model = NoModel THEN {} ELSE {"binding_model"}), model))

End == <<Symbol("}")>>
ClassEnd == <<Symbol("}"), Symbol(";")>>
Class(name, model, members) == <<ClassOf(name, <<>>, {}, model)>> \o members \o ClassEnd
In(name, members) == <<Ns(name)>> \o members \o End

One(lexemes) == {<<l>> : l \in lexemes}
Up(n, texts) == [k \in 1 .. n |-> texts]

Blocks == {Symbol(s) : s \in {"/*", "*/", "//", "\n", "%{", "%}", "%[", "%]", "}", ";"}}

Lexing == Up(4, One(Blocks \cup {Fun(Void, <<>>, {}), Ns("N"), ClassOf("A", <<>>, {}, "by_value"),
    Decl(D("Typedef", "T", <<Ref(<<"void">>)>>, {"a"}, NoModel))}))

Derived(name, base) == <<ClassOf(name, <<Ref(<<base>>)>>, {}, NoModel)>> \o ClassEnd

Types == Up(3, {Class("A", "by_value", <<>>), Class("A", "by_value", <<Typedef(<<"A">>, <<>>, "T")>>),
    <<Typedef(<<"A">>, <<>>, "T")>>, <<Typedef(<<"T">>, <<>>, "A")>>, <<Typedef(<<"T">>, <<"nullable">>, "A")>>,
    <<Typedef(<<"N", "T">>, <<"array">>, "T")>>, <<Typedef(<<"N", "A">>, <<>>, "T")>>,
    In("N", <<Typedef(<<"A">>, <<>>, "T")>>), In("N", <<Typedef(<<"T">>, <<>>, "A")>>),
    Derived("B", "A"), Derived("A", "B"), Derived("A", "T"), In("N", Derived("A", "T"))})

\* Names that are found in a base class which may stand after their use.
Late == Up(4, {<<ClassOf("B", <<Ref(<<"A">>)>>, {}, NoModel), Fun(Ref(<<"T">>), <<>>, {})>> \o ClassEnd,
    Derived("A", "Z"), Class("Z", "by_value", <<Typedef(<<"int">>, <<>>, "T")>>),
    <<Typedef(<<"void">>, <<>>, "T")>>})

\* What there may be to refer to, and members that do.
Prelude(model) ==
    Class("A", model, <<>>) \o <<Callback(Void, <<Ref(<<"int">>)>>), Enum({}), Typedef(<<"A">>, <<>>, "T"),
                                 Typedef(<<"A">>, <<"array">>, "L")>>

Refs == {Ref(<<name>>) : name \in {"void", "int", "A", "T", "L", "E", "CB"}}
        \cup {To(<<name>>, <<mod>>) : name \in {"A", "CB"}, mod \in {"array", "nullable"}}
        \cup {Ref(<<"std", "string">>), To(<<"void">>, <<"array">>), To(<<"int">>, <<"sized">>),
              To(<<"CB">>, <<"nullable", "array">>)}

Members(type) ==
    {Fun(type, <<type>>, {}), Fun(Void, <<type>>, {"static"}), Fun(Void, <<type>>, {"userglue"}),
     Fun(type, <<>>, {}), Fun(type, <<>>, {"static", "userglue"}),
     Var(type, {"getter"}), Var(type, {"setter", "userglue_setter"}), Var(type, {"static", "getter", "setter"}),
     Callback(type, <<>>), Callback(Void, <<type>>),
     Decl(D("Constructor", "C", <<type>>, {}, NoModel))}

Odd == {Decl(D("Constructor", "Other", <<>>, {}, NoModel)), Decl(D("Destructor", "C", <<>>, {}, NoModel)),
        Decl(D("Typename", "W", <<>>, {}, NoModel)), Decl(D("Typename", "W", <<>>, {"binding_model"}, "by_value")),
        Enum({"private"}), Var(Void, {"private"}), Decl(D("Constructor", "C", <<>>, {"userglue"}, NoModel))}

OfClass(members) == {Class("C", "by_value", <<m>>) : m \in members}
OfNoClass(members) == {<<m>> : m \in {d \in members : d.decl.kind # "Constructor"}}
AllMembers(refs) == UNION {Members(r) : r \in refs}

Binding == <<{Prelude("by_value")}, OfClass(AllMembers(Refs) \cup Odd) \cup OfNoClass(AllMembers(Refs))>>
Modelled == <<{Prelude(model) : model \in {"by_pointer", "pod", "nullable", "none"}},
            OfClass(AllMembers({Ref(<<"A">>), Ref(<<"T">>)})) \cup OfNoClass(AllMembers({Ref(<<"L">>)}))>>

\* Namespaces in several blocks.
NA == Ref(<<"N", "A">>)
Merged == Up(3, {In("N", Class("A", "by_value", <<>>)), In("N", <<Fun(Void, <<Ref(<<"A">>)>>, {})>>),
    In("N", In("M", <<Fun(Ref(<<"A">>), <<>>, {})>>)), In("N", In("M", Class("A", "by_pointer", <<>>))),
    In("N", <<ClassOf("B", <<Ref(<<"A">>)>>, {}, NoModel), Enum({})>> \o ClassEnd),
    In("M", <<Enum({})>>), In("M", <<Fun(NA, <<>>, {}), Var(NA, {"getter"})>>),
    In("N", <<ClassOf("P", <<>>, {"private"}, "by_value"), Fun(Void, <<>>, {})>> \o ClassEnd),
    <<Open(D("Namespace", "N", <<>>, {"nojs"}, NoModel)), Enum({})>> \o End,
    <<Fun(NA, <<>>, {}), Typedef(<<"N", "A">>, <<>>, "T")>>, Class("C", "by_value", <<Fun(NA, <<>>, {})>>)})

AllSources == {Lexing, Types, Late, Binding, Modelled, Merged}
AllLexemes == UNION {Range(text) : text \in UNION UNION {Range(files) : files \in AllSources}}
=============================================================================
