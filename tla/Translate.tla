----------------------------- MODULE Translate -----------------------------
(***************************************************************************)
(* One run of the glue generator on some interface files (the middle part  *)
(* of main in nixysa/codegen.py): the files are parsed one after the       *)
(* other, their definitions put together with the native types and         *)
(* finalized (references first, then binding models), and the glue is      *)
(* made.  An exception anywhere ends the run.  Module Codegen has what is  *)
(* around it: the hash file, the locks and the writing of the outputs.     *)
(*                                                                         *)
(* What a pass makes of one definition, and whether a handler returns a    *)
(* text, are parameters here, which modules SyntaxTree and NpapiCode give: *)
(* what the walk notes and includes does not depend on them.               *)
(***************************************************************************)
EXTENDS IdlParser, NpapiGenerator

CONSTANTS ResolveTypeReferences(_, _, _),  \* the state of the passes after that of a definition
          BindingModel(_, _, _),           \* the same for SetBindingModel
          GetType(_, _, _, _),             \* what a reference in a definition leads to
          Returned(_, _, _),               \* of a handler: "text", or "raises" for an exception
          FinishedScope(_, _, _)           \* the same for the end of a class or namespace

VARIABLES phase,     \* what main is doing
          program,   \* all definitions: GetObjectsRecursive of the global namespace
          st,        \* what FinalizeObjects has done
          at,        \* what is next in a loop: a file, then a definition
          walk,      \* where the generator's walk is
          notes,     \* the tables it has noted
          needed     \* the types whose glue each file's glue needs

passes == <<program, st, at>>
tables == <<notes, needed>>
translateVars == <<parserVars, phase, passes, walk, tables>>

Phases == {"parsing", "resolving", "binding", "generating", "written", "failed"}

Global == [kind |-> "Namespace", name |-> "", parent |-> 1, refs |-> <<>>, attrs |-> {},
           model |-> NoModel, file |-> 0]

TranslateInit ==
    /\ ParserInit
    /\ phase = "parsing"
    /\ program = <<Global>> /\ st = Fresh(<<>>) /\ at = 1
    /\ walk = Begin /\ notes = <<>> /\ needed = {}

\* A list is appended: what stands in no block gets the global namespace as its parent.
Join(all, list) ==
    all \o [k \in DOMAIN list |->
               [list[k] EXCEPT !.parent = IF @ = 0 THEN 1 ELSE @ + Len(all)]]

\* The definitions of a file, with its number.
OfFile(n) == [k \in DOMAIN parsed[n].defs |-> Put("file", n, parsed[n].defs[k])]

ParseFiles ==
    /\ phase = "parsing" /\ Len(parsed) < MaxFiles
    /\ ParserNext
    /\ UNCHANGED <<phase, passes, walk, tables>>

\* sum([defn for (f, defn) in pairs], []) fails for a file whose parse gave None.
Collect ==
    /\ phase = "parsing" /\ Len(parsed) = MaxFiles /\ at <= MaxFiles
    /\ \/ /\ parsed[at].complete
          /\ program' = Join(program, OfFile(at))
          /\ at' = at + 1
          /\ UNCHANGED phase
       \/ /\ ~parsed[at].complete
          /\ phase' = "failed"
          /\ UNCHANGED <<program, at>>
    /\ UNCHANGED <<parserVars, st, walk, tables>>

\* ... + GetNativeTypes(), and FinalizeObjects begins.
AddNatives ==
    /\ phase = "parsing" /\ Len(parsed) = MaxFiles /\ at > MaxFiles
    /\ phase' = "resolving"
    /\ program' = Join(program, NativeTypes)
    /\ st' = Fresh(program')
    /\ at' = 2
    /\ UNCHANGED <<parserVars, walk, tables>>

\* One turn of a loop over all definitions.
Turn(state, next) ==
    /\ st' = state
    /\ \/ ~Fine(state) /\ phase' = "failed" /\ UNCHANGED at
       \/ Fine(state) /\ at < Len(program) /\ at' = at + 1 /\ UNCHANGED phase
       \/ Fine(state) /\ at = Len(program) /\ at' = 2 /\ phase' = next

\* defn.ResolveTypeReferences()
ResolveNext ==
    /\ phase = "resolving"
    /\ Turn(ResolveTypeReferences(program, st, at), "binding")
    /\ UNCHANGED <<parserVars, program, walk, tables>>

\* defn.SetBindingModel(binding_models), if it is a type.
BindNext ==
    /\ phase = "binding"
    /\ Turn(IF IsType(program[at]) THEN BindingModel(program, st, at) ELSE st, "generating")
    /\ notes' = IF phase' = "generating" THEN NoNotes(program) ELSE notes
    /\ UNCHANGED <<parserVars, program, walk, needed>>

Raised ==
    /\ phase' = "failed"
    /\ UNCHANGED <<walk, tables>>

\* The generator's walk comes to a definition.
Visit ==
    /\ phase = "generating" /\ Remaining(program, walk) # {}
    /\ LET i == Min(Remaining(program, walk))
       IN  \/ Returned(program, st, i) = "raises" /\ Raised
           \/ /\ Returned(program, st, i) # "raises"
              /\ walk' = Onward(program, walk, i)
              /\ notes' = Noted(program, notes, i)
              /\ needed' = needed \cup Needed(program, st, i)
              /\ UNCHANGED phase
    /\ UNCHANGED <<parserVars, passes>>

\* It leaves a class or a block of a namespace.
Leave ==
    /\ phase = "generating" /\ Remaining(program, walk) = {} /\ walk.in # 1
    /\ \/ FinishedScope(program, st, walk.in) = "raises" /\ Raised
       \/ /\ FinishedScope(program, st, walk.in) # "raises"
          /\ walk' = Upward(program, walk)
          /\ UNCHANGED <<phase, tables>>
    /\ UNCHANGED <<parserVars, passes>>

\* The namespaces are finished, includes are added, and every writer writes its file.
WriteAll ==
    /\ phase = "generating" /\ Remaining(program, walk) = {} /\ walk.in = 1
    /\ phase' = "written"
    /\ needed' = needed \cup NeededInner(program, notes)
    /\ UNCHANGED <<parserVars, passes, walk, notes>>

TranslateNext ==
    \/ ParseFiles \/ Collect \/ AddNatives
    \/ ResolveNext \/ BindNext
    \/ Visit \/ Leave \/ WriteAll

TranslateSpec == TranslateInit /\ [][TranslateNext]_translateVars

-----------------------------------------------------------------------------
(* Properties *)

Finalized == phase \in {"generating", "written"}

\* What the definition i is made of: directly, as a typedef, class or array.
MadeOf(i) ==
    {type.id : type \in {t \in Range(st.link[i]) : Guarded(program[i]) /\ "nullable" \notin Range(t.mods)}}

\* ... and what that is made of, and so on: as many rounds as there are definitions.
MadeOfInTheEnd(i) ==
    FoldLeft(LAMBDA found, n : found \cup UNION {MadeOf(j) : j \in found}, MadeOf(i),
             [n \in DOMAIN program |-> n])

\* No class or typedef is made of itself, in whichever order and however deep in other
\* lookups the definitions were resolved - a cycle through a nullable type excepted.
CyclesRefused ==
    phase \in {"binding", "generating", "written"} =>
        \A i \in OfFiles(program) : i \notin MadeOfInTheEnd(i)

\* What references were resolved to does not depend on when that happened: looked up again
\* now that everything is known, each gives the same type.
ResolutionIsStable ==
    Finalized =>
        \A i \in OfFiles(program) : \A k \in DOMAIN program[i].refs :
            GetType(program, st, program[i].parent, program[i].refs[k]).value = <<st.link[i][k]>>

\* Is it for scripts: a public member of public classes, with "nojs" nowhere around it?
Shown ==
    LET shown[i \in DOMAIN program] ==
            IF i = 1 THEN TRUE
            ELSE /\ "nojs" \notin program[i].attrs
                 /\ program[i].kind = "Namespace" \/ program[i].attrs \cap {"private", "protected"} = {}
                 /\ shown[program[i].parent]
    IN  shown

Entries(n) == UNION {Range(notes[n][sort]) : sort \in Sorts}

\* A finished glue has every member that scripts may see in the tables of the scope it was
\* written in, merged namespaces being one, and no member that they may not see.
GlueHasThePublic ==
    phase = "written" =>
        /\ \A n \in DOMAIN notes : \A i \in Entries(n) : Shown[i]
        /\ \A i \in OfFiles(program) :
               Shown[i] /\ program[i].kind \in {"Class", "Enum", "Variable", "Function", "Constructor"} =>
                   {n \in DOMAIN notes : i \in Entries(n)} = {ContextOf(program, program[i].parent)}
        /\ \A i \in OfFiles(program) :
               Shown[i] /\ program[i].kind = "Namespace" =>
                   Cardinality({j \in Entries(ContextOf(program, program[i].parent)) :
                                    SameScope(program, i, j)}) = 1

\* What a type is in the end, through typedefs, arrays and nullable types.
Root(type) ==
    LET root[i \in DOMAIN program] ==
            IF program[i].kind = "Typedef" THEN root[st.link[i][1].id] ELSE i
    IN  root[type.id]

\* The types of what is handed to a script: results, fields and arguments of its functions.
HandedOut(i) ==
    CASE program[i].kind = "Function" -> {st.link[i][1]}
      [] program[i].kind = "Variable" /\ "getter" \in program[i].attrs -> {st.link[i][1]}
      [] program[i].kind = "Callback" -> Range(Tail(st.link[i]))
      [] OTHER -> {}

\* A callback is made from a script's function and has no way back: no glue is written
\* that would hand one out, in however many arrays, nullable types and typedefs - as long
\* as callbacks and typedefs have no binding model of their own.
CallbacksOnlyComeIn ==
    phase = "written" /\ (\A i \in OfFiles(program) :
                             program[i].kind \in {"Callback", "Typedef"} => program[i].model = NoModel) =>
        \A i \in OfFiles(program) : Shown[i] =>
            \A type \in HandedOut(i) : program[Root(type)].kind # "Callback"

\* The file that the glue for i stands in.
GlueFile(i) ==
    IF program[i].kind \in {"Callback", "Class"} THEN program[i].file
    ELSE program[ContextOf(program, program[i].parent)].file

\* The kinds of definitions with glue that refer to types.
Referring == {"Class", "Function", "Constructor", "Variable", "Callback"}

\* A file's glue includes the glue of every class and callback that the members in it are
\* made of, and that of the inner scopes it sets up, though the blocks of a namespace
\* bring their members, types and scopes from other files.  (The glue of the global
\* namespace does not, nor is it so for an array or nullable type of a typedef.)
GlueIncludesItsTypes ==
    phase = "written" =>
        /\ \A i \in OfFiles(program) :
               Shown[i] /\ program[i].kind \in Referring /\ GlueFile(i) # 0 =>
                   \A type \in Range(st.link[i]) :
                       LET d == program[FinalType(program, st, type).id]
                       IN  d.kind \in {"Class", "Callback"} =>
                               d.file \in FileIncludes(program, st, needed, GlueFile(i))
        /\ \A n \in DOMAIN notes \ {1} : \A i \in Range(notes[n].namespaces) :
               program[i].file \in FileIncludes(program, st, needed, program[n].file)
=============================================================================
