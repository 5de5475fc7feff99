------------------------------ MODULE Builtin ------------------------------
(***************************************************************************)
(* The nodes the compiler makes itself (src/src/builtin.c): the package    *)
(* ScalarValues with its data types, and the pseudo-actions start and done *)
(* that `first start;` and `then done;` are bound to.  They are built once *)
(* and have fixed places in every tree, behind the program node.           *)
(***************************************************************************)
EXTENDS Ast

builtinNumber  == 3
builtinReal    == 4
builtinInteger == 5
builtinBoolean == 6
builtinString  == 7
builtinStart   == 8
builtinDone    == 9

\* mkDatatype, mkResolvedRef and the two pseudo-actions
mkDatatype(x, up) == [Blank EXCEPT !.kind = "definition", !.what = "datatype",
                                   !.name = x, !.specializes = up]

mkResolvedRef(x, n) == [Blank EXCEPT !.kind = "qname", !.parts = <<x>>,
                                     !.given = n]

mkAction(x) == [Blank EXCEPT !.kind = "usage", !.what = "action",
                             !.name = x]

\* The built-in nodes in the order of their identifiers, Lib first.
BuiltinNodes ==
  << [Blank EXCEPT !.kind = "package", !.name = "ScalarValues",
                   !.members = <<builtinNumber, builtinReal, builtinInteger,
                                 builtinBoolean, builtinString>>],
     mkDatatype("Number", <<>>),
     mkDatatype("Real", <<10>>),
     mkDatatype("Integer", <<11>>),
     mkDatatype("Boolean", <<>>),
     mkDatatype("String", <<>>),
     mkAction("start"),
     mkAction("done"),
     mkResolvedRef("Number", builtinNumber),
     mkResolvedRef("Real", builtinReal) >>

\* They stand behind the program node.
HasLibrary(t) ==
  \A i \in DOMAIN BuiltinNodes : /\ Root + i \in DOMAIN t
                                 /\ t[Root + i] = BuiltinNodes[i]

FirstUserNode == 2 + Len(BuiltinNodes)

\* The tree of a program whose top-level declarations are `members` and whose
\* nodes, numbered from FirstUserNode, are `nodes`.
Program(members, nodes) ==
  << [Blank EXCEPT !.kind = "program", !.members = members] >>
  \o BuiltinNodes \o nodes
=============================================================================
