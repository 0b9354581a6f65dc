----------------------------- MODULE IdlParser -----------------------------
(***************************************************************************)
(* The parser of interface files (nixysa/idl_parser.py): a lexer with      *)
(* modes for comments, verbatim and documentation blocks, and a grammar    *)
(* without error rules, run by PLY's yacc.  A syntax error is printed and  *)
(* nothing more: yacc throws away its whole stack and the bad token and    *)
(* begins again, so that the definitions before the error are gone and the *)
(* ones after it are parsed as though the file began there.                *)
(*                                                                         *)
(* A file is a number of texts, each a sequence of lexemes, and is read    *)
(* lexeme by lexeme.  A lexeme is a symbol, or a whole declaration         *)
(* ("decl"), or the head of a class or namespace up to its brace ("open"); *)
(* the latter two carry the definition that they make.                     *)
(***************************************************************************)
EXTENDS Integers, Sequences, FiniteSetsExt, SequencesExt

CONSTANTS Lexemes,     \* the symbols and declarations files are made of
          Sources,     \* what the files of a run are made of: for the n-th text a set of texts
          MaxFiles     \* bound: files

ASSUME SourcesAssumption ==
    /\ Sources \subseteq Seq(SUBSET (Seq(Lexemes) \ {<<>>}))
    /\ \A l \in Lexemes :
           /\ "lex" \in DOMAIN l
           /\ l.lex \in {"decl", "open"} => "decl" \in DOMAIN l /\ "kind" \in DOMAIN l.decl
           /\ l.lex = "open" => l.decl.kind \in {"Class", "Namespace"}

VARIABLES input,       \* the sets of texts that are still to choose from
          ahead,       \* the lexemes that come next, chosen already
          mode,        \* the lexer's state
          defs,        \* the definitions parsed: each with its parent, 0 outside of all
          open,        \* the classes and namespaces that are not closed yet
          expects,     \* what must come next: a ";" after a class, a definition after documentation
          printed,     \* a message about a syntax error has been printed
          parsed,      \* what Parse has returned for the files before: definitions, or None if not complete
          tail         \* history: the tokens since the last syntax error of this file

lexer  == <<input, ahead, mode>>
parser == <<defs, open, expects, tail>>
parserVars == <<lexer, parser, printed, parsed>>

Modes == {"INITIAL", "ccomment", "cppcomment", "verbatim", "documentation"}

Symbol(s) == [lex |-> s]
Decl(d) == [lex |-> "decl", decl |-> d]
Open(d) == [lex |-> "open", decl |-> d]

ParserInit ==
    /\ input \in Sources
    /\ ahead = <<>>
    /\ mode = "INITIAL"
    /\ defs = <<>> /\ open = <<>> /\ expects = "anything" /\ tail = <<>>
    /\ printed = FALSE
    /\ parsed = <<>>

-----------------------------------------------------------------------------
(* The grammar *)

Enclosing == IF open = <<>> THEN 0 ELSE Last(open)
InClass == open # <<>> /\ defs[Last(open)].kind = "Class"

\* A definition with one field more.
Put(field, value, d) == [f \in DOMAIN d \cup {field} |-> IF f = field THEN value ELSE d[f]]

With(d) == Put("parent", Enclosing, d)

\* Namespaces are no members of classes, constructors of nothing else.
Fits(d) ==
    CASE d.kind = "Namespace" -> ~InClass
      [] d.kind \in {"Constructor", "Destructor"} -> InClass
      [] OTHER -> TRUE

Accepts(token) ==
    CASE token.lex \in {"decl", "open"} -> expects \in {"anything", "definition"} /\ Fits(token.decl)
      [] token.lex = "%{" -> expects \in {"anything", "definition"}
      [] token.lex = "%[" -> expects = "anything"
      [] token.lex = "}" -> expects = "anything" /\ open # <<>>
      [] token.lex \in {";", "%}", "%]"} -> expects = token.lex
      [] OTHER -> FALSE

\* The tokens that complete a definition or begin a block.
Makes(token) == token.lex \in {"decl", "open", "%}"}

\* The productions: a list grows by a definition, a block begins, a block ends.
Shift(token) ==
    /\ Accepts(token)
    /\ tail' = Append(tail, token)
    /\ defs' = IF Makes(token) THEN Append(defs, With(token.decl)) ELSE defs
    /\ open' = CASE token.lex = "open" -> Append(open, Len(defs) + 1)
                 [] token.lex = "}" -> Front(open)
                 [] OTHER -> open
    /\ expects' = CASE token.lex = "%{" -> "%}"
                    [] token.lex = "%[" -> "%]"
                    [] token.lex = "%]" -> "definition"
                    [] token.lex = "}" /\ InClass -> ";"
                    [] OTHER -> "anything"
    /\ UNCHANGED printed

\* What a declaration becomes when its first token, the bad one, is left out: without its
\* attribute list, or without "typedef", "callback" or "N::", the rest may be one too.
Remnant(d) ==
    CASE d.kind \in {"Constructor", "Destructor"} -> <<>>
      [] d.attrs # {} -> <<[d EXCEPT !.attrs = {}, !.model = "no model"]>>
      [] d.attrs = {} /\ d.kind = "Typedef" -> <<[d EXCEPT !.kind = "Variable"]>>
      [] d.attrs = {} /\ d.kind = "Callback" -> <<[d EXCEPT !.kind = "Function"]>>
      [] d.attrs = {} /\ d.kind \in {"Variable", "Function"} /\ Len(d.refs[1].path) > 1 ->
             <<[d EXCEPT !.refs[1].path = Tail(@)]>>
      [] OTHER -> <<>>

\* The lexeme that is left of a bad one: a list of at most one.
Rest(token) ==
    IF token.lex \notin {"decl", "open"} \/ expects # ";" THEN <<>>
    ELSE [n \in DOMAIN Remnant(token.decl) |-> [token EXCEPT !.decl = Remnant(token.decl)[n]]]

\* Mutant: yacc finds an error rule in the innermost block and goes on there.
Recover_Innermost(token) ==
    /\ ~Accepts(token)
    /\ printed' = TRUE
    /\ expects' = "anything"
    /\ tail' = Rest(token)
    /\ defs' = [n \in DOMAIN Rest(token) |-> Put("parent", 0, Rest(token)[n].decl)]
    /\ open' = open

\* p_error prints; yacc pops everything, drops the token and goes on in its first state.
Recover(token) ==
    /\ ~Accepts(token)
    /\ printed' = TRUE
    /\ expects' = "anything"
    /\ tail' = Rest(token)
    /\ defs' = [n \in DOMAIN Rest(token) |-> Put("parent", 0, Rest(token)[n].decl)]
    /\ open' = [n \in {m \in DOMAIN Rest(token) : token.lex = "open"} |-> 1]

Take(token) == Shift(token) \/ Recover(token)

-----------------------------------------------------------------------------
(* The lexer *)

\* What is not returned to the parser.
Skip == UNCHANGED <<parser, printed>>

Enter(m) == mode' = m

\* The lexeme l in mode INITIAL.  A closing symbol without its opening one is no token: its
\* first character is illegal and left out, and so is the second if it is none.
Initial(l) ==
    CASE l.lex = "/*" -> Enter("ccomment") /\ Skip
      [] l.lex = "//" -> Enter("cppcomment") /\ Skip
      [] l.lex \in {"*/", "\n"} -> Enter("INITIAL") /\ Skip
      [] l.lex = "%{" -> Enter("verbatim") /\ Take(l)
      [] l.lex = "%[" -> Enter("documentation") /\ Take(l)
      [] l.lex = "%}" -> Enter("INITIAL") /\ Take(Symbol("}"))
      [] OTHER -> Enter("INITIAL") /\ Take(l)

VerbatimBlock == [lex |-> "%}", decl |-> [kind |-> "Verbatim", name |-> "verbatim", refs |-> <<>>,
                                          attrs |-> {}, model |-> "no model"]]

\* The lexeme l in the other modes, which only the closing symbol ends.
Inner(l) ==
    CASE mode = "ccomment" /\ l.lex = "*/" -> Enter("INITIAL") /\ Skip
      [] mode = "cppcomment" /\ l.lex = "\n" -> Enter("INITIAL") /\ Skip
      [] mode = "verbatim" /\ l.lex = "%}" -> Enter("INITIAL") /\ Take(VerbatimBlock)
      [] mode = "documentation" /\ l.lex = "%]" -> Enter("INITIAL") /\ Take(l)
      [] OTHER -> Enter(mode) /\ Skip

Lex(l) == IF mode = "INITIAL" THEN Initial(l) ELSE Inner(l)

Read ==
    /\ \/ ahead # <<>> /\ Lex(Head(ahead)) /\ ahead' = Tail(ahead) /\ UNCHANGED input
       \/ /\ ahead = <<>> /\ input # <<>>
          /\ \E text \in Head(input) : Lex(Head(text)) /\ ahead' = Tail(text)
          /\ input' = Tail(input)
    /\ UNCHANGED parsed

\* A comment may be left open at the end of the file.
Complete == open = <<>> /\ expects = "anything"

\* Parse returns; the next file has a new lexer and begins with an empty stack.
EndOfFile ==
    /\ Len(parsed) < MaxFiles /\ ahead = <<>>
    /\ parsed' = Append(parsed, [complete |-> Complete, defs |-> defs])
    /\ printed' = (printed \/ ~Complete)
    /\ mode' = "INITIAL"
    /\ defs' = <<>> /\ open' = <<>> /\ expects' = "anything" /\ tail' = <<>>
    /\ UNCHANGED <<input, ahead>>

ParserNext == Read \/ EndOfFile

ParserSpec == ParserInit /\ [][ParserNext]_parserVars

-----------------------------------------------------------------------------
(* A reference for what is parsed *)

\* The blocks that are open before the n-th token, by counting braces backwards.
Depth(n) ==
    Cardinality({k \in 1 .. n - 1 : tail[k].lex = "open"})
        - Cardinality({k \in 1 .. n - 1 : tail[k].lex = "}"})

Block(n) == {k \in 1 .. n - 1 : tail[k].lex = "open" /\ Depth(k) = Depth(n) - 1}

\* Which definition a token makes.
Number(k) == Cardinality({m \in 1 .. k : Makes(tail[m])})

\* Whatever went wrong before, what has been parsed of a file is what stands in it since
\* the last syntax error, every definition in the block whose braces are around it.
ParsedIsTail ==
    /\ Len(defs) = Number(Len(tail))
    /\ \A n \in DOMAIN tail : Makes(tail[n]) =>
           defs[Number(n)] = Put("parent", IF Block(n) = {} THEN 0 ELSE Number(Max(Block(n))),
                                 tail[n].decl)
    /\ Len(open) = Depth(Len(tail) + 1)
=============================================================================
