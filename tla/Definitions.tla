---------------------------- MODULE Definitions ----------------------------
(***************************************************************************)
(* What the passes of nixysa work on (nixysa/syntax_tree.py): the          *)
(* definitions of all input files, and the scopes they make up.            *)
(*                                                                         *)
(* A program D is the sequence that GetObjectsRecursive gives: D[1] is the *)
(* global namespace, the parent of a definition stands before it.  A       *)
(* definition has a kind (defn_type), a name, its parent, refs (what it    *)
(* refers to: a class its base, a typedef or variable its type, a function *)
(* or callback its return type and parameters), attrs (the names of its    *)
(* attributes) and model (the value of the attribute binding_model, or     *)
(* NoModel).                                                               *)
(*                                                                         *)
(* A type is the index of a definition with the modifiers put on it,       *)
(* "array" for T[], "sized" for T[n], "nullable" for T?: one object per    *)
(* definition and modifier, which the code keeps in array_defns and        *)
(* nullable.                                                               *)
(*                                                                         *)
(* The passes look up types on demand, in the middle of looking up others; *)
(* st is what they have done: seen has the classes and typedefs whose flag *)
(* _types_resolved is set, link what each definition's references gave so  *)
(* far, error the exception that ended the passes.                         *)
(***************************************************************************)
EXTENDS Integers, Sequences, FiniteSetsExt, SequencesExt

NoModel == "no model"

IsType(d) == d.kind \in {"Class", "Typedef", "Typename", "Enum", "Callback", "Native"}
IsScope(d) == d.kind \in {"Class", "Namespace", "Typedef"}

\* What ResolveTypeReferences keeps its flag for.
Guarded(d) == d.kind \in {"Class", "Typedef"}

Plain(i) == [id |-> i, mods |-> <<>>]

Fresh(D) == [seen |-> {}, link |-> [i \in DOMAIN D |-> <<>>], error |-> "none"]
Fine(st) == st.error = "none"

\* A scope by its way from the global one: there is one namespace of a name, whichever
\* blocks it is written in, and one class per definition.
ScopePath(D) ==
    LET path[i \in DOMAIN D] ==
            IF i = 1 THEN <<>>
            ELSE Append(path[D[i].parent],
                        IF D[i].kind = "Namespace" THEN <<D[i].name, 0>> ELSE <<"", i>>)
    IN  path

\* Namespaces of one name in one scope share the scope object of the first of them.
SameScope(D, m, n) == ScopePath(D)[m] = ScopePath(D)[n]

\* GetFinalType once everything is resolved.
FinalType(D, st, type) ==
    LET final[i \in DOMAIN D] ==
            LET aliased == st.link[i][1]
            IN  IF aliased.mods = <<>> /\ D[aliased.id].kind = "Typedef" THEN final[aliased.id]
                ELSE aliased
    IN  IF type.mods = <<>> /\ D[type.id].kind = "Typedef" THEN final[type.id] ELSE type
=============================================================================
