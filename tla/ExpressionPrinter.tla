------------------------- MODULE ExpressionPrinter --------------------------
(***************************************************************************)
(* Expressions as codegen_sysml.c prints them, and for which of them the   *)
(* text stands for another tree.                                           *)
(***************************************************************************)
EXTENDS ExpressionParser, Trees

\* The text of a name, in quotes if it does not look like an identifier.
emitToken(name) == Unquote(name)

\* Mistake: the reader is trusted to know the precedences.
operationBare(op, left, right) == left \o <<op>> \o right

\* Every binary operation is written in parentheses.
operation(op, left, right) == <<"(">> \o left \o <<op>> \o right \o <<")">>

\* The text is kept as the tokens that the scanner finds in it: none of them
\* merges with its neighbour.
RECURSIVE emitExpression(_)
emitExpression(tree) ==
  LET args  == tree.args
      E(i)  == emitExpression(args[i])
      \* the arguments from the i-th on, each as Written, separated
      From(i, separator, Written(_)) ==
        Joined(<<separator>>, [k \in 1 .. Len(args) - i + 1 |-> Written(i + k - 1)])
  IN  CASE tree.kind = "literal" -> <<tree.op>>
        [] tree.kind = "name"    -> From(1, "::", LAMBDA j : <<emitToken(args[j].op)>>)
        [] tree.kind = "binary"  -> operation(tree.op, E(1), E(2))
        [] tree.kind = "unary"   -> <<tree.op>> \o E(1)
        [] tree.kind = "tuple"   -> <<"(">> \o From(1, ",", E) \o <<")">>
        [] tree.kind = "call"    -> E(1) \o <<"(">> \o From(2, ",", E) \o <<")">>
        [] tree.kind = "member"  -> E(1) \o <<".", emitToken(args[2].op)>>

-----------------------------------------------------------------------------
\* A prefix operator applies to more when tree is written than in the tree.
RECURSIVE Ambiguous(_), Misspelt(_)
Ambiguous(tree) ==
  \/ /\ tree.kind \in {"member", "call"} \/ (tree.kind = "binary" /\ tree.op = "**")
     /\ tree.args[1].kind = "unary"
  \/ \E i \in DOMAIN tree.args : Ambiguous(tree.args[i])

\* A name in tree is a keyword.
Misspelt(tree) ==
  \/ tree.kind = "part" /\ tree.op = "'or'"
  \/ \E i \in DOMAIN tree.args : Misspelt(tree.args[i])
=============================================================================
