----------------------------- MODULE TreePrinter -----------------------------
(***************************************************************************)
(* What the compiler prints without a back end: the tree, a line for each  *)
(* node, under the node that it is in (ast.c).  A line is kept as its      *)
(* tokens, with two spaces for each level in front and "\n" behind.  The   *)
(* label of a kind is the name the model has for it.                       *)
(***************************************************************************)
EXTENDS Trees

If1(b, text) == IF b THEN text ELSE <<>>

Words(n, order) == SelectSeq(order, LAMBDA flag : flag \in n.flags)

emitVisibility(n)       == Words(n, <<"public">>)
emitAssertKind(n)       == Words(n, <<"assert", "assume">>)
emitDirection(n)        == Words(n, <<"in">>)
emitFeatureModifiers(n) == Words(n, <<"derived", "abstract", "constant", "ref">>)

\* `bind` and `allocate` make connections, which are printed as such.
kindLabel(kind) == IF kind \in {"bind", "allocate"} THEN "connection" ELSE kind

emitQualifiedName(name) == [i \in DOMAIN name |-> Unquote(name[i])]

Spelt(names, separator) == Joined(separator, [i \in DOMAIN names |-> emitQualifiedName(names[i])])

emitNameList(prefix, names) == If1(names # <<>>, prefix \o Spelt(names, <<",">>))

\* A name in quotes; where there may be none, with nothing for none.
Quoted(n) == <<"'">> \o Spelt(Field(n, "name"), <<>>) \o <<"'">>
Named(n)  == If1(Has1(n, "name"), Quoted(n))

emitMultiplicity(n) ==
  If1(Has1(n, "multiplicity"), <<"[">> \o Joined(<<>>, Field(n, "multiplicity")) \o <<"]">>)

emitEnds(n) ==
  LET ends == Field(n, "ends")
  IN  If1(ends # <<>>, <<IF n.kind = "flow" THEN "from" ELSE "connect">> \o Spelt(ends, <<"to">>))

\* Mistake: an operation is written as in the source, with the spaces alone.
operationBare(words) == words

\* Parentheses show what each operator applies to.
operation(words) == <<"(">> \o words \o <<")">>

RECURSIVE emitExpression(_)
emitExpression(e) ==
  LET E(i)    == emitExpression(e.args[i])
      args(i) == <<"(">> \o Joined(<<",">>, [k \in 1 .. Len(e.args) - i + 1 |-> E(i + k - 1)])
                 \o <<")">>
  IN  CASE e.kind = "literal" -> <<e.op>>
        [] e.kind = "name"    -> Joined(<<"::">>, [i \in DOMAIN e.args |-> <<Unquote(e.args[i].op)>>])
        [] e.kind = "binary"  -> operation(E(1) \o <<e.op>> \o E(2))
        [] e.kind = "unary"   -> operation(<<e.op>> \o E(1))
        [] e.kind = "call"    -> E(1) \o args(2)
        [] e.kind = "tuple"   -> args(1)
        [] e.kind = "member"  -> E(1) \o <<".", Unquote(e.args[2].op)>>

emitIfAny(prefix, n, f) == If1(Has1(n, f), prefix \o emitExpression(Field(n, f)[1]))

-----------------------------------------------------------------------------
RECURSIVE printNode(_, _, _)

types(n)         == emitNameList(<<":">>, Field(n, "types"))
specializes(n)   == emitNameList(<<":>">>, Field(n, "specializes"))
relationships(n) == specializes(n) \o emitNameList(<<":>>">>, Field(n, "redefines"))

definition(n) ==
  emitVisibility(n) \o Words(n, <<"abstract">>) \o <<kindLabel(n.kind), "def">> \o Quoted(n)
  \o relationships(n) \o emitIfAny(<<"body=">>, n, "body")

usage(n) ==
  emitVisibility(n) \o emitAssertKind(n) \o emitDirection(n) \o emitFeatureModifiers(n)
  \o Words(n, <<"perform">>) \o <<kindLabel(n.kind)>> \o Named(n) \o types(n) \o relationships(n)
  \o emitMultiplicity(n) \o emitEnds(n) \o emitIfAny(<<"=">>, n, "value")
  \o If1(Has1(n, "body"), emitIfAny(<<"{">>, n, "body") \o <<"}">>)

\* `of`: the types, which for a value of an enumeration are not its own clause.
attribute(n, of) ==
  emitVisibility(n) \o emitFeatureModifiers(n) \o <<"attribute">> \o Quoted(n)
  \o emitNameList(<<":">>, of) \o relationships(n) \o emitMultiplicity(n) \o emitIfAny(<<"=">>, n, "value")

dependency(n) ==
  emitVisibility(n) \o <<"dependency">> \o Named(n) \o <<"from">> \o Spelt(Field(n, "sources"), <<",">>)
  \o <<"to">> \o Spelt(Field(n, "targets"), <<",">>)

\* An action among the targets is named here, and printed below as a member.
succession(n) ==
  LET then(target) ==
        <<"then">> \o (IF target[1] # "action" THEN emitQualifiedName(target)
                       ELSE <<"(", "action">> \o Named(InlineAction(target, <<>>)) \o <<")">>)
      targets == Field(n, "targets")
  IN  emitVisibility(n) \o <<"succession">> \o Named(n) \o emitNameList(<<"first">>, Field(n, "first"))
      \o Joined(<<>>, [i \in DOMAIN targets |-> then(targets[i])])

\* Mistake: an action among the targets is named, and what is in it left out.
inlineActionsNamed(n, depth) == <<>>

inlineActions(n, depth) ==
  LET targets == Field(n, "targets")
      below(i) == IF targets[i][1] # "action" THEN <<>>
                  ELSE LET action == InlineAction(targets[i], n.inner[i + 1])
                       IN  printNode(action, Field(action, "types"), depth)
  IN  Joined(<<>>, [i \in DOMAIN targets |-> below(i)])

transition(n) ==
  emitVisibility(n) \o <<"transition">> \o Named(n) \o emitNameList(<<"first">>, Field(n, "first"))
  \o emitNameList(<<"accept">>, Field(n, "accept")) \o emitIfAny(<<"if">>, n, "guard")
  \o emitNameList(<<"do">>, Field(n, "effect")) \o <<"then">> \o Spelt(Field(n, "target"), <<>>)

line(n, of) ==
  CASE "def" \in n.flags     -> definition(n)
    [] n.kind \in {"attribute", "enum value"} -> attribute(n, of)
    [] n.kind = "package"    -> emitVisibility(n) \o <<"package">> \o Quoted(n)
    [] n.kind = "import"     -> emitVisibility(n) \o <<"import">> \o Spelt(Field(n, "target"), <<>>)
    [] n.kind = "doc"        -> <<"doc", "body">>
    [] n.kind = "alias"      -> <<"alias">> \o Quoted(n) \o <<"for">> \o Spelt(Field(n, "target"), <<>>)
    [] n.kind = "comment"    -> <<"comment">> \o Named(n)
                                \o emitNameList(<<"about">>, Field(n, "about")) \o <<"body">>
    [] n.kind = "dependency" -> dependency(n)
    [] n.kind = "succession" -> succession(n)
    [] n.kind = "transition" -> transition(n)
    [] n.kind \in {"entry", "do"} -> <<n.kind>> \o Spelt(Field(n, "action"), <<>>)
    [] n.kind = "return"     -> <<"return">> \o Named(n) \o types(n) \o specializes(n)
                                \o emitIfAny(<<"=">>, n, "value")
    [] OTHER                 -> usage(n)

emitIndent(depth) == [i \in 1 .. depth |-> "  "]

\* A line, and under it the members.  A value of an enumeration has that for type.
printNode(n, of, depth) ==
  LET inside == n.inner[1]
      typesOf(m) == IF m.kind = "enum value" THEN Field(n, "name") ELSE Field(m, "types")
  IN  emitIndent(depth) \o line(n, of) \o <<"\n">>
      \o Joined(<<>>, [i \in DOMAIN inside |-> printNode(inside[i], typesOf(inside[i]), depth + 1)])
      \o If1(n.kind = "succession", inlineActions(n, depth + 1))

astPrint(program) ==
  <<"Program", "\n">>
  \o Joined(<<>>, [i \in DOMAIN program |-> printNode(program[i], Field(program[i], "types"), 1)])
=============================================================================
