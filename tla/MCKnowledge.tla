---------------------------- MODULE MCKnowledge ----------------------------
(***************************************************************************)
(* A small stock of questions for Knowledge.                               *)
(***************************************************************************)
EXTENDS Knowledge

CONSTANTS pay, payment, api

Contained == {<<pay, payment>>}

File(stem, symbols, imports, preview) ==
  [stem |-> stem, symbols |-> symbols, imports |-> imports, preview |-> preview]

Files == {
  File(pay, <<pay, payment>>, {payment}, {}),
  File(payment, <<>>, {api}, {pay}),
  File(pay, <<>>, {api, payment}, {}),
  File(api, <<payment, payment>>, {pay, payment}, {api}),
  File(api, <<>>, {}, {payment})}

\* Four files, in cycles and of the same name; the ranks are even or fall
\* with the path, or the last file has all.
FourFiles ==
  [files : [1 .. 4 -> Files],
   rank : {<<0, 0, 0, 0>>, <<3, 2, 1, 0>>, <<0, 0, 0, 5>>}]

Skill(name, scope, priority, keywords, markers, size, loads) ==
  [name |-> name, scope |-> scope, priority |-> priority, keywords |-> keywords,
   markers |-> markers, size |-> size, loads |-> loads]

\* Two of the built-in files have one name.
BuiltIn == <<Skill(3, "builtin", 20, {"fix"}, {}, 4, TRUE),
             Skill(1, "builtin", 20, {"test"}, {"pyproject"}, 3, TRUE),
             Skill(2, "builtin", 10, {"fix"}, {}, 2, TRUE),
             Skill(3, "builtin", 0, {"test", "fix"}, {"makefile"}, 1, TRUE)>>

\* At most one file of a user or of a repository: an override or a skill of its
\* own, for the instruction or for marker files, sound or not.
Own(scope) ==
  {<<>>} \cup
  {<<Skill(name, scope, priority, keywords, markers, 2, loads)>> :
     name \in 1 .. 4, priority \in {0, 20}, keywords \in {{}, {"fix"}},
     markers \in {{}, {"pyproject", "makefile"}}, loads \in BOOLEAN}

ThreeScopes == {BuiltIn} \X Own("user") \X Own("repository")

AllSituations ==
  [words : SUBSET {"test", "fix"}, marks : {{}, {"pyproject", "makefile"}}]

SmallNumbers == {-1} \cup 0 .. 4
=============================================================================
