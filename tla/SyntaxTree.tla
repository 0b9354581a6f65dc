----------------------------- MODULE SyntaxTree -----------------------------
(***************************************************************************)
(* The passes of nixysa/syntax_tree.py over the definitions of all input   *)
(* files: every reference to a type is looked up, cycles are refused,      *)
(* every type gets its binding model.  A reference is a path of names and  *)
(* the modifiers put on the type found.                                    *)
(***************************************************************************)
EXTENDS Definitions

Models == {"pod", "callback", "enum", "by_value", "by_pointer", "unsized_array", "nullable"}

Raise(st, error) == [st EXCEPT !.error = error]

\* What an operation on st returns: its new state and a value.  An exception is passed on.
Answer(st, value) == [st |-> st, value |-> value]
Then(answer, Do(_, _)) ==
    IF Fine(answer.st) THEN Do(answer.st, answer.value) ELSE Answer(answer.st, <<>>)

After(list, answer) == [answer EXCEPT !.value = list \o @]

-----------------------------------------------------------------------------
(* Scopes *)

\* What is defined under that name in the scope that n has a part in.
Named(D, n, name) == {i \in 2 .. Len(D) : D[i].name = name /\ SameScope(D, D[i].parent, n)}

\* LookUpScope.LookUpType: dict() keeps the last of several types of one name.
TypeIn(D, n, name) ==
    LET types == {i \in Named(D, n, name) : IsType(D[i])}
    IN  IF types = {} THEN <<>> ELSE <<Plain(Max(types))>>

\* LookUpScope.FindScopes: all scopes of that name.
ScopesIn(D, n, name) ==
    SetToSortSeq({i \in Named(D, n, name) : IsScope(D[i])}, LAMBDA i, j : i < j)

-----------------------------------------------------------------------------
(* References *)

\* GetNullableType of a nullable type is that type itself.
Nullably(mods) == IF mods # <<>> /\ Last(mods) = "nullable" THEN mods ELSE Append(mods, "nullable")
Modify(mods, modifier) == IF modifier = "nullable" THEN Nullably(mods) ELSE Append(mods, modifier)
Modified(type, mods) == [type EXCEPT !.mods = FoldLeft(Modify, @, mods)]

\* Mutant: the chain is followed through typedefs only.
RECURSIVE InChain_Typedefs(_, _, _, _)
InChain_Typedefs(D, st, i, type) ==
    \/ type = Plain(i)
    \/ /\ type.mods = <<>> /\ D[type.id].kind = "Typedef" /\ st.link[type.id] # <<>>
       /\ InChain_Typedefs(D, st, i, st.link[type.id][1])

\* CheckTypeInChain: is i what the type is made of?  A nullable type ends the chain, as it
\* is a pointer.
RECURSIVE InChain(_, _, _, _)
InChain(D, st, i, type) ==
    \/ type = Plain(i)
    \/ /\ type.mods = <<>> /\ Guarded(D[type.id]) /\ st.link[type.id] # <<>>
       /\ InChain(D, st, i, st.link[type.id][1])
    \/ /\ type.mods # <<>> /\ Last(type.mods) # "nullable"
       /\ InChain(D, st, i, [type EXCEPT !.mods = Front(@)])

IsClass(D, type) == type.mods = <<>> /\ D[type.id].kind = "Class"

RECURSIVE Resolve(_, _, _), FinalTypeSafe(_, _, _), LookUpType(_, _, _, _), FindScopes(_, _, _, _),
          LookUpTypeRecursive(_, _, _, _), FindScopesRecursive(_, _, _, _), FirstOf(_, _, _, _)

Linked(D, st, i) ==
    IF D[i].kind = "Typedef" /\ st.link[i] = <<>> THEN Answer(Raise(st, "AttributeError"), <<>>)
    ELSE Answer(st, st.link[i])

\* Mutant: what has not been resolved yet passes for having no base.
Safe_Unresolved(D, st, i) == Linked(D, st, i)

\* GetBaseSafe and GetTypeSafe: make sure it is resolved.  While that is going on, the
\* answer is None, which is no base for a class, and has none of the methods that its
\* callers want of a typedef's type.
Safe(D, st, i) == Linked(D, Resolve(D, st, i), i)

\* GetFinalType: through the typedefs.
FinalTypeSafe(D, st, type) ==
    IF type.mods # <<>> \/ D[type.id].kind # "Typedef" THEN Answer(st, <<type>>)
    ELSE Then(Safe(D, st, type.id), LAMBDA s, types : FinalTypeSafe(D, s, types[1]))

\* LookUpType of a type or namespace: <<>> for None.
LookUpType(D, st, type, name) ==
    LET own == TypeIn(D, type.id, name)
    IN  CASE type.mods # <<>> \/ ~IsScope(D[type.id]) -> Answer(st, <<>>)
          [] own # <<>> \/ D[type.id].kind = "Namespace" -> Answer(st, own)
          [] OTHER -> Then(Safe(D, st, type.id), LAMBDA s, types :
                           IF types = <<>> THEN Answer(s, <<>>) ELSE LookUpType(D, s, types[1], name))

\* FindScopes of a type or namespace: those of a base class come after its own.
FindScopes(D, st, type, name) ==
    LET own == ScopesIn(D, type.id, name)
    IN  CASE type.mods # <<>> \/ ~IsScope(D[type.id]) -> Answer(st, <<>>)
          [] D[type.id].kind = "Namespace" -> Answer(st, own)
          [] OTHER -> Then(Safe(D, st, type.id), LAMBDA s, types :
                           IF types = <<>> THEN Answer(s, own)
                           ELSE After(own, FindScopes(D, s, types[1], name)))

\* From the inside out.
LookUpTypeRecursive(D, st, i, name) ==
    Then(LookUpType(D, st, Plain(i), name), LAMBDA s, types :
         IF types # <<>> \/ i = 1 THEN Answer(s, types)
         ELSE LookUpTypeRecursive(D, s, D[i].parent, name))

FindScopesRecursive(D, st, i, name) ==
    Then(FindScopes(D, st, Plain(i), name), LAMBDA s, scopes :
         IF i = 1 THEN Answer(s, scopes)
         ELSE After(scopes, FindScopesRecursive(D, s, D[i].parent, name)))

\* The first of the scopes that has the path.
FirstOf(D, st, scopes, path) ==
    IF scopes = <<>> THEN Answer(st, <<>>)
    ELSE Then(IF Len(path) = 1 THEN LookUpType(D, st, Plain(Head(scopes)), path[1])
              ELSE Then(FindScopes(D, st, Plain(Head(scopes)), path[1]), LAMBDA s, inner :
                        FirstOf(D, s, inner, Tail(path))),
              LAMBDA s, types : IF types # <<>> THEN Answer(s, types)
                                ELSE FirstOf(D, s, Tail(scopes), path))

\* TypeReference.GetType.
TypeOf(D, st, i, ref) ==
    Then(IF Len(ref.path) = 1 THEN LookUpTypeRecursive(D, st, i, ref.path[1])
         ELSE Then(FindScopesRecursive(D, st, i, ref.path[1]), LAMBDA s, scopes :
                   FirstOf(D, s, scopes, Tail(ref.path))),
         LAMBDA s, types : IF types = <<>> THEN Answer(Raise(s, "TypeNotFoundError"), <<>>)
                           ELSE Answer(s, <<Modified(types[1], ref.mods)>>))

\* A base must be a class in the end.
Derive(D, st, i, type) ==
    Then(FinalTypeSafe(D, [st EXCEPT !.link[i] = <<type>>], type), LAMBDA s, final :
         Answer(IF IsClass(D, final[1]) THEN s ELSE Raise(s, "DerivingFromNonClassError"), <<>>))

\* ResolveTypeReferences of a class or typedef, once ...
ResolveOnce(D, st, i) ==
    Then(TypeOf(D, [st EXCEPT !.seen = @ \cup {i}], D[i].parent, D[i].refs[1]), LAMBDA s, types :
         IF InChain(D, s, i, types[1]) THEN Answer(Raise(s, "CircularTypedefError"), <<>>)
         ELSE IF D[i].kind = "Typedef" THEN Answer([s EXCEPT !.link[i] = types], <<>>)
         ELSE Derive(D, s, i, types[1])).st

\* ... and of anything else, one reference after the other.
ResolveAll(D, st, i) ==
    FoldLeft(LAMBDA answer, ref :
                 Then(answer, LAMBDA s, none :
                      Then(TypeOf(D, s, D[i].parent, ref), LAMBDA t, types :
                           Answer([t EXCEPT !.link[i] = @ \o types], <<>>))),
             Answer(st, <<>>), D[i].refs).st

Resolve(D, st, i) ==
    CASE ~Fine(st) \/ i \in st.seen -> st
      [] Guarded(D[i]) /\ i \notin st.seen /\ Fine(st) ->
             IF D[i].refs = <<>> THEN [st EXCEPT !.seen = @ \cup {i}] ELSE ResolveOnce(D, st, i)
      [] OTHER -> ResolveAll(D, st, i)

-----------------------------------------------------------------------------
(* Binding models *)

\* LookUpBindingModel.
RECURSIVE ModelOf(_, _, _)
ModelOf(D, st, type) ==
    LET d == D[type.id]
        link == st.link[type.id]
    IN  CASE type.mods # <<>> ->
               [nullable |-> "nullable", array |-> "unsized_array", sized |-> "sized_array"][Last(type.mods)]
          [] type.mods = <<>> /\ d.kind = "Enum" -> "enum"
          [] type.mods = <<>> /\ d.kind = "Native" -> "pod"
          [] OTHER ->
               IF d.model # NoModel THEN d.model
               ELSE IF d.kind = "Callback" THEN "callback"
               ELSE IF Guarded(d) /\ link # <<>> THEN ModelOf(D, st, link[1])
               ELSE NoModel

\* All types that some reference has led to, and what they are modifications of.
TypesMade(D, st) ==
    UNION {{[type EXCEPT !.mods = SubSeq(@, 1, n)] : n \in 0 .. Len(type.mods)} :
               type \in UNION {Range(st.link[i]) : i \in DOMAIN D}}

\* SetBindingModel of the arrays of a type, its nullable type and itself.
SetBindingModel(D, st, i) ==
    IF \A type \in {t \in TypesMade(D, st) : t.id = i} \cup {Plain(i)} : ModelOf(D, st, type) \in Models
    THEN st
    ELSE Raise(st, "UnknownBindingModelError")
=============================================================================
