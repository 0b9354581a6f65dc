--------------------------- MODULE NpapiGenerator ---------------------------
(***************************************************************************)
(* The generator of the browser glue (nixysa/npapi_generator.py): it walks *)
(* the definitions of all files and notes, for every scope that a script   *)
(* can see, its methods, properties and inner scopes, each with a piece of *)
(* C++ made of what the binding models return.  Blocks of one namespace    *)
(* share their notes, in whichever files they stand.                       *)
(***************************************************************************)
EXTENDS Definitions

\* Every definition has the number of the file it stands in.  Native types stand at the end
\* of the program and belong to file 0, and so do the global namespace and its glue.
NativeTypes ==
    LET native(name, parent) == [kind |-> "Native", name |-> name, parent |-> parent, refs |-> <<>>,
                                 attrs |-> {}, model |-> "pod", file |-> 0]
    IN  <<native("void", 0), native("int", 0),
          [native("std", 0) EXCEPT !.kind = "Namespace", !.model = NoModel], native("string", 3)>>

OfFiles(D) == 2 .. Len(D) - Len(NativeTypes)

\* A scope's notes (CodeGenContext): what it has of each sort, in the order it was met.
Sorts == {"namespaces", "methods", "static_methods", "constructors", "props", "static_props"}
NoNotes(D) == [n \in DOMAIN D |-> [sort \in Sorts |-> <<>>]]

Note(notes, context, sort, i) == [notes EXCEPT ![context][sort] = Append(@, i)]

-----------------------------------------------------------------------------
(* The walk *)

\* Mutant: only members are checked for being private.
Hidden_Members(d) ==
    d.kind \notin {"Namespace", "Class"} /\ d.attrs \cap {"private", "protected"} # {}

\* Not for scripts.  Nothing asks a namespace whether it is private.
Hidden(d) ==
    d.kind \notin {"Namespace", "Verbatim"} /\ d.attrs \cap {"private", "protected"} # {}

\* GenerateList leaves out what is not for scripts; nothing is written for some kinds.
Visited(d) ==
    "nojs" \notin d.attrs /\ ~Hidden(d) /\ d.kind \notin {"Typedef", "Typename", "Verbatim"}

ToVisit(D, n) == {i \in OfFiles(D) : D[i].parent = n /\ Visited(D[i])}

\* GenerateList within Class and Namespace within GenerateList: the walk is in a scope,
\* after one of its members.
Begin == [in |-> 1, after |-> 1]
Remaining(D, walk) == {i \in ToVisit(D, walk.in) : i > walk.after}

\* A scope is entered before its first member, and left after its last.
Onward(D, walk, i) ==
    IF D[i].kind \in {"Class", "Namespace"} THEN [in |-> i, after |-> i] ELSE [in |-> walk.in, after |-> i]
Upward(D, walk) == [in |-> D[walk.in].parent, after |-> walk.in]

\* Which definitions the walk comes to.
Walked(D) ==
    LET walked[i \in DOMAIN D] == IF i = 1 THEN TRUE ELSE Visited(D[i]) /\ walked[D[i].parent]
    IN  walked

\* The blocks of a namespace share one context: that of the first (_namespace_map).
ContextOf(D, n) == Min({m \in DOMAIN D : SameScope(D, m, n) /\ Walked(D)[m]})

-----------------------------------------------------------------------------
(* The handlers: what each of them notes *)

Has(d, attribute) == attribute \in d.attrs
Static(D, i) == Has(D[i], "static") \/ D[D[i].parent].kind = "Namespace"

\* A function without a return type is the constructor or destructor of its class.
Sort(D, i) ==
    CASE D[i].kind = "Enum" -> "static_props"
      [] D[i].kind = "Variable" -> IF Static(D, i) THEN "static_props" ELSE "props"
      [] D[i].kind = "Function" -> IF Static(D, i) THEN "static_methods" ELSE "methods"
      [] D[i].kind = "Constructor" -> "constructors"
      [] OTHER -> "namespaces"

\* A namespace is noted by its first block only.
Noted(D, notes, i) ==
    LET outer == ContextOf(D, D[i].parent)
        known == \E k \in DOMAIN notes[outer].namespaces : SameScope(D, notes[outer].namespaces[k], i)
    IN  IF D[i].kind \in {"Callback", "Destructor"} \/ (D[i].kind = "Namespace" /\ known) THEN notes
        ELSE Note(notes, outer, Sort(D, i), i)

-----------------------------------------------------------------------------
(* Includes *)

Tagged(file, types) == [file : {file}, type : types]

\* Mutant: every block of a namespace has its own set of needed glue.
Home_Block(D, i) == D[i].file

\* The file whose glue has the members of i's scope: that of the first block.
Home(D, i) == D[ContextOf(D, D[i].parent)].file

\* What a handler adds to needed_glue: a type of which the glue of a file makes use.
Needed(D, st, i) ==
    LET types == Range(st.link[i])
    IN  CASE D[i].kind \in {"Function", "Variable"} -> Tagged(Home(D, i), types)
          [] D[i].kind = "Constructor" -> Tagged(Home(D, i), types \cup {Plain(D[i].parent)})
          [] D[i].kind = "Callback" -> Tagged(D[i].file, types)
          [] D[i].kind \in {"Class", "Namespace"} -> Tagged(D[i].file, types \cup {Plain(i)})
          [] OTHER -> {}

\* What GenNamespaceCode adds when a class or namespace is finished: its inner ones.
NeededInner(D, notes) ==
    UNION {Tagged(D[n].file, {Plain(i) : i \in Range(notes[n].namespaces)}) : n \in DOMAIN notes}

\* FinishFile: the glue headers of the files that needed types come from in the end.  An
\* array or nullable type comes from the file of its data type, be that a typedef.
FileIncludes(D, st, needed, file) ==
    {file} \cup {D[FinalType(D, st, n.type).id].file : n \in {m \in needed : m.file = file}}
=============================================================================
