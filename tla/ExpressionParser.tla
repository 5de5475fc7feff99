-------------------------- MODULE ExpressionParser --------------------------
(***************************************************************************)
(* The Pratt parser of parser_expr.c, from tokens to a tree: kept as the   *)
(* functions of the code, each returning the tree it builds, the position  *)
(* of parser.current, and whether an error was reported on the way.  "id"  *)
(* stands for all identifiers, "'or'" for the names written in quotes that *)
(* spell a keyword, "1" for all numbers.                                   *)
(*                                                                         *)
(* The operators are RECURSIVE, as the code is; nothing is proved here.    *)
(***************************************************************************)
EXTENDS Integers, SequencesExt

Assignment == 1
Or         == 2
Xor        == 3
And        == 4
Equality   == 5
Comparison == 6
Term       == 7
Factor     == 8
Unary      == 9
Power      == 10
Call       == 11

PrefixOps == {"-", "!"}
Literals  == {"1", "true"}
Names     == {"id", "'or'"}
Starters  == PrefixOps \cup Literals \cup Names \cup {"("}

\* The precedence column of the table of rules; 0 is PREC_NONE.
precedence(t) ==
  CASE t \in {"(", "."}             -> Call
    [] t \in {"or", "meta"}         -> Or
    [] t = "xor"                    -> Xor
    [] t = "and"                    -> And
    [] t \in {"==", "!="}           -> Equality
    [] t \in {"<", "<=", ">", ">="} -> Comparison
    [] t \in {"+", "-"}             -> Term
    [] t \in {"*", "/"}             -> Factor
    [] t = "**"                     -> Power
    [] OTHER                        -> 0

Tree(kind, op, args) == [kind |-> kind, op |-> op, args |-> args]
Part(t)  == Tree("part", t, <<>>)
Dummy    == Tree("literal", "none", <<>>)
NoCallee == Tree("none", "none", <<>>)

Token(s, i) == IF i <= Len(s) THEN s[i] ELSE "eof"

Result(tree, i, bad) == [tree |-> tree, at |-> i, bad |-> bad]

\* expect(): steps over a token of ts, or reports an error and stays.
expect(s, r, ts) ==
  IF Token(s, r.at) \in ts THEN [r EXCEPT !.at = @ + 1]
  ELSE [r EXCEPT !.bad = TRUE]

\* Mistake: the search for the end of the units goes one token too far.
RECURSIVE skipUnitsTooFar(_, _)
skipUnitsTooFar(s, i) ==
  LET closing == {j \in i .. Len(s) : s[j] = "]"}
      end     == IF closing = {} THEN Len(s) ELSE Min(closing)
  IN  IF Token(s, i) = "[" THEN skipUnitsTooFar(s, end + 2) ELSE i

\* The position past the units in brackets that start at i, if any do; an
\* unclosed bracket takes the rest of the file.
RECURSIVE skipUnits(_, _)
skipUnits(s, i) ==
  LET Depth(j) == Len(SelectSeq(SubSeq(s, i, j), LAMBDA t : t = "["))
                  - Len(SelectSeq(SubSeq(s, i, j), LAMBDA t : t = "]"))
      closing  == {j \in i .. Len(s) : Depth(j) = 0}
      end      == IF closing = {} THEN Len(s) ELSE Min(closing)
  IN  IF Token(s, i) = "[" THEN skipUnits(s, end + 1) ELSE i

RECURSIVE parsePrecedence(_, _, _), infixes(_, _, _), expressions(_, _, _)

\* identifierExpr(): the parts after the first, each behind "::".
RECURSIVE identifierExpr(_, _, _)
identifierExpr(s, i, parts) ==
  LET name(bad, j) == Result(Tree("name", "::", parts), j, bad)
      part         == Token(s, i + 1)
  IN  IF Token(s, i) # "::" THEN name(FALSE, i)
      ELSE IF part \notin Names THEN name(TRUE, i + 1)
      ELSE identifierExpr(s, i + 2, Append(parts, Part(part)))

\* expression() and, behind each comma, another, after those in the tree of
\* r: the do-while of callExpr() and of grouping().
expressions(s, r, i) ==
  LET e    == parsePrecedence(s, i, Assignment)
      list == Result([r.tree EXCEPT !.args = Append(@, e.tree)], e.at,
                     r.bad \/ e.bad)
  IN  IF Token(s, e.at) = "," THEN expressions(s, list, e.at + 1) ELSE list

grouping(s, i) ==
  LET none == Result(Tree("tuple", "(", <<>>), i, FALSE)
      list == expect(s, expressions(s, none, i), {")"})
  IN  IF Len(list.tree.args) = 1 THEN [list EXCEPT !.tree = @.args[1]] ELSE list

unaryExpr(s, op, i) ==
  LET operand == parsePrecedence(s, i, Unary)
  IN  [operand EXCEPT !.tree = Tree("unary", op, <<operand.tree>>)]

\* Mistake: an error in the left operand is forgotten.
binaryExprForgets(s, left, op, i) ==
  LET right == parsePrecedence(s, i, precedence(op) + 1)
  IN  [right EXCEPT !.tree = Tree("binary", op, <<left.tree, right.tree>>)]

\* Mistake: the right operand may begin an operation of the same rung.
binaryExprFromTheRight(s, left, op, i) ==
  LET right == parsePrecedence(s, i, precedence(op))
  IN  Result(Tree("binary", op, <<left.tree, right.tree>>), right.at,
             left.bad \/ right.bad)

binaryExpr(s, left, op, i) ==
  LET right == parsePrecedence(s, i, precedence(op) + 1)
  IN  Result(Tree("binary", op, <<left.tree, right.tree>>), right.at,
             left.bad \/ right.bad)

callExpr(s, callee, i) ==
  LET call == Result(Tree("call", "(", <<callee.tree>>), i, callee.bad)
  IN  expect(s, IF Token(s, i) = ")" THEN call ELSE expressions(s, call, i),
              {")"})

dotAccess(s, target, i) ==
  expect(s, Result(Tree("member", ".", <<target.tree, Part(Token(s, i))>>), i,
                    target.bad), Names)

\* The parselets, i being the position after their token t.
prefix(s, t, i) ==
  CASE t \in PrefixOps -> unaryExpr(s, t, i)
    [] t = "("         -> grouping(s, i)
    [] t \in Names     -> identifierExpr(s, i, <<Part(t)>>)
    [] OTHER           -> Result(Tree("literal", t, <<>>), i, FALSE)

infix(s, left, t, i) ==
  CASE t = "(" -> callExpr(s, left, i)
    [] t = "." -> dotAccess(s, left, i)
    [] OTHER   -> binaryExpr(s, left, t, i)

\* The loop of parsePrecedence(): infix operators of at least precedence p
\* fold what is parsed so far.
infixes(s, left, p) ==
  LET t == Token(s, left.at)
  IN  IF p > precedence(t) THEN left
      ELSE infixes(s, infix(s, left, t, left.at + 1), p)

parsePrecedence(s, i, p) ==
  LET t    == Token(s, i)
      left == prefix(s, t, i + 1)
  IN  IF t \notin Starters THEN Result(Dummy, i + 1, TRUE)
      ELSE infixes(s, [left EXCEPT !.at = skipUnits(s, @)], p)
=============================================================================
