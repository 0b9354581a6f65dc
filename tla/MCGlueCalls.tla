----------------------------- MODULE MCGlueCalls -----------------------------
(***************************************************************************)
(* A small instance of GlueCalls: two classes, whose overloads of `f' take  *)
(* strings, objects, functions and arrays, and three callbacks: the shapes  *)
(* of the plugin's own idl, and ones nixysa accepts besides.                *)
(***************************************************************************)
EXTENDS GlueCalls, TLC

T(model, class) == << [model |-> model, class |-> class] >>
Number == T("number", "")
Boolean == T("boolean", "")
Str == T("string", "")
VoidType == T("void", "")
Post1 == T("value", "Post")
Pointer == T("pointer", "Node")
NewPostCB == T("callback", "")
Nullable(t) == T("nullable", "") \o t
Array(t) == T("array", "") \o t

V(is, class, length, items) == [is |-> is, class |-> class, length |-> length, items |-> items]
Text == V("string", "", "none", <<>>)
APost == V("glue", "Post", "other", <<>>)
ALink == V("glue", "Link", "other", <<>>)

Null1 == V("null", "", "other", <<>>)
Function == V("object", "", "other", <<>>)
List(length, items) == V("object", "", length, items)

MCValues ==
  { Text, APost, ALink, Null1, Function, List("none", <<APost>>),
    List("number", <<APost, ALink>>), List("number", <<APost, APost>>) }

MCArguments ==
  { <<Text>>, <<APost>>, <<APost, Function>>, <<APost, Null1>>, <<Function, Text>>,
    <<Function, Null1>>, <<List("none", <<APost>>)>>, <<List("number", <<APost, ALink>>)>>,
    <<List("number", <<APost, APost>>)>> }

M(name, params, result) == [name |-> name, params |-> params, result |-> result]

MCChain ==
  << << M("f", <<Str>>, Str),
        M("f", <<Post1, Nullable(NewPostCB)>>, VoidType),
        M("f", <<Array(Post1)>>, Array(Str)) >>,
     << M("f", <<Post1>>, Pointer),
        M("f", <<NewPostCB, Str>>, Number),
        M("f", <<Array(Post1)>>, VoidType),
        M("g", <<Str>>, VoidType),
        M("f", <<Str>>, VoidType) >> >>

MCNames == {"f"}

\* RequestAuthorizeAddedCB(acct, msg, onlist); a nullable hides what fails
\* before it; a pointer is the only argument.
MCCallbacks ==
  { [params |-> <<Post1, Str, Number>>, result |-> Boolean, async |-> FALSE],
    [params |-> <<Str, Nullable(Pointer)>>, result |-> VoidType, async |-> TRUE],
    [params |-> <<Pointer>>, result |-> VoidType, async |-> TRUE] }

MCAnswers == {Plain(TRUE)}
Symmetric == Permutations(Contents)
=============================================================================
