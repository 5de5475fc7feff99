---------------------------- MODULE Expressions -----------------------------
(***************************************************************************)
(* Expressions between text and tree: the parser of parser_expr.c, the     *)
(* printer of codegen_sysml.c, and the round trip that the back end        *)
(* --emit-sysml promises.  A source is the sequence of tokens between the  *)
(* "=" and the ";" of a value.                                             *)
(***************************************************************************)
EXTENDS ExpressionPrinter

CONSTANT Sources        \* sequences of tokens

\* attributeDecl(), from behind the "=": a value and the semicolon.
parse(s) ==
  expect(s \o <<";">>, parsePrecedence(s \o <<";">>, 1, Assignment), {";"})

-----------------------------------------------------------------------------
(* One expression through the program, and what it printed through again *)

VARIABLES source,       \* the tokens of the value
          first,        \* what the parser made of them
          text,         \* what the printer made of that
          second,       \* what the parser made of the text
          stage

vars == <<source, first, text, second, stage>>

Unread == Result(NoCallee, 0, FALSE)

Init ==
  /\ source \in Sources
  /\ first = Unread /\ second = Unread
  /\ text = <<>>
  /\ stage = "read"

Parse ==
  /\ stage = "read"
  /\ first' = parse(source)
  /\ stage' = IF first'.bad THEN "refused" ELSE "parsed"
  /\ UNCHANGED <<source, text, second>>

EmitSysml ==
  /\ stage = "parsed"
  /\ text' = emitExpression(first.tree)
  /\ stage' = "emitted"
  /\ UNCHANGED <<source, first, second>>

Reparse ==
  /\ stage = "emitted"
  /\ second' = parse(text)
  /\ stage' = "again"
  /\ UNCHANGED <<source, first, text>>

Next == Parse \/ EmitSysml \/ Reparse

Spec == Init /\ [][Next]_vars

-----------------------------------------------------------------------------
(* What the parser promises *)

Atoms     == Literals \cup Names
BinaryOps == {"or", "meta", "xor", "and", "==", "!=", "<", "<=", ">", ">=",
              "+", "-", "*", "/", "**"}
Operators == BinaryOps \cup PrefixOps

Has(s, ts) == \E i \in DOMAIN s : s[i] \in ts

\* The tokens i .. j of s are an expression; are expressions with commas
\* between them.
RECURSIVE IsExpression(_, _, _), AreExpressions(_, _, _)
IsExpression(s, i, j) ==
  /\ i <= j
  /\ \/ i = j /\ s[i] \in Atoms
     \/ /\ i < j
        /\ \A k \in i .. j : IF (k - i) % 2 = 0 THEN s[k] \in Names ELSE s[k] = "::"
        /\ s[j] \in Names
     \/ s[i] \in PrefixOps /\ IsExpression(s, i + 1, j)
     \/ \E k \in i .. j : /\ s[k] \in BinaryOps
                          /\ IsExpression(s, i, k - 1)
                          /\ IsExpression(s, k + 1, j)
     \/ s[i] = "(" /\ s[j] = ")" /\ AreExpressions(s, i + 1, j - 1)
     \/ /\ s[j] = ")"
        /\ \E k \in i .. j : /\ s[k] = "("
                             /\ IsExpression(s, i, k - 1)
                             /\ k = j - 1 \/ AreExpressions(s, k + 1, j - 1)
     \/ i < j /\ s[j] \in Names /\ s[j - 1] = "." /\ IsExpression(s, i, j - 2)

AreExpressions(s, i, j) ==
  \/ IsExpression(s, i, j)
  \/ \E k \in i .. j : /\ s[k] = ","
                       /\ IsExpression(s, i, k - 1)
                       /\ AreExpressions(s, k + 1, j)

\* The parser accepts the expressions of the grammar and nothing else: every
\* error that a parselet meets is reported and no token is lost, whatever
\* operators nest around it (parsePrecedence() and its parselets).
AcceptsTheLanguage ==
  stage \in {"parsed", "refused"} /\ ~Has(source, {"[", "]"}) =>
    (stage = "parsed" <=> IsExpression(source, 1, Len(source)))

\* The ladder of binary operators, the loosest first, as the comments of the
\* enumeration Precedence give it.
Ladder == <<{"or", "meta"}, {"xor"}, {"and"}, {"==", "!="},
            {"<", "<=", ">", ">="}, {"+", "-"}, {"*", "/"}>>

\* The tree of operators and operands without parentheses: split at the last
\* of its loosest operators; a prefix operator is tighter than the ladder and
\* looser than "**", which is split at its first.
RECURSIVE Grouped(_)
Grouped(s) ==
  LET infixOps == {i \in DOMAIN s : i > 1 /\ s[i] \in BinaryOps /\ s[i - 1] \in Atoms}
      At(rung) == {i \in infixOps : s[i] \in Ladder[rung]}
      rungs    == {r \in DOMAIN Ladder : At(r) # {}}
      powers   == {i \in infixOps : ~Has(SubSeq(s, 1, i - 1), PrefixOps)}
      CutAt(i) == Tree("binary", s[i], <<Grouped(SubSeq(s, 1, i - 1)),
                                         Grouped(SubSeq(s, i + 1, Len(s)))>>)
  IN  IF rungs # {} THEN CutAt(Max(At(Min(rungs))))
      ELSE IF s[1] \in PrefixOps THEN Tree("unary", s[1], <<Grouped(Tail(s))>>)
      ELSE IF powers # {} THEN CutAt(Min(powers))
      ELSE IF s[1] \in Names THEN Tree("name", "::", <<Part(s[1])>>)
      ELSE Tree("literal", s[1], <<>>)

IsChain(s) == \A i \in DOMAIN s : s[i] \in Operators \cup Atoms

PowersOfPowers(s) == {i \in 1 .. Len(s) - 2 : s[i] = "**" /\ s[i + 2] = "**"}

\* Operators group as their ladder says and operators of one rung from the
\* left, however deep the recursion of binaryExpr() and unaryExpr().  Of a power
\* that is raised to a power see PowersGroupFromTheRight.
GroupsByPrecedence ==
  stage = "parsed" /\ IsChain(source) /\ PowersOfPowers(source) = {} =>
    first.tree = Grouped(source)

\* "** (right-associative; SysML power operator)" (parser_expr.c:52).
PowersGroupFromTheRight ==
  stage = "parsed" /\ IsChain(source) => first.tree = Grouped(source)

\* s without what stands in brackets
WithoutUnits(s) ==
  LET Count(j, bracket) == Len(SelectSeq(SubSeq(s, 1, j), LAMBDA t : t = bracket))
      Outside(j) == s[j] # "[" /\ Count(j - 1, "[") = Count(j - 1, "]")
  IN  FoldLeft(LAMBDA kept, j : IF Outside(j) THEN Append(kept, s[j]) ELSE kept,
               <<>>, [j \in DOMAIN s |-> j])

\* Units leave no trace: an accepted value has the tree it would have without
\* them, and would be accepted without them.  (Not behind a prefix operator:
\* parsePrecedence() looks for units once more behind what unaryExpr()
\* returned, and what follows those applies to the negation.)
UnitsLeaveNoTrace ==
  stage = "parsed" /\ ~Has(source, PrefixOps) =>
    LET plain == parse(WithoutUnits(source))
    IN  ~plain.bad /\ plain.tree = first.tree

-----------------------------------------------------------------------------
(* What the round trip promises *)

Dump == INSTANCE TreePrinter

Same(read) == ~read.bad /\ read.tree = first.tree

\* What the back end writes is read back as the same tree, except where a
\* negated expression is called, selected from or raised to a power, or a name
\* is a keyword.  The dump of the tree, which puts an operator of either kind in
\* parentheses to show what it applies to, is wrong in the second case alone.
RoundTrips ==
  stage = "again" =>
    /\ Same(second) <=> ~Ambiguous(first.tree) /\ ~Misspelt(first.tree)
    /\ Same(parse(Dump!emitExpression(first.tree))) <=> ~Misspelt(first.tree)
=============================================================================
