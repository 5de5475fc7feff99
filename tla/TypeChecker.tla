---------------------------- MODULE TypeChecker ----------------------------
(***************************************************************************)
(* The type checker (src/src/typechecker.c): types of expressions, default *)
(* values, constraint bodies, asserted constraints, and what successions   *)
(* lead to.  The pass only reads the tree.  NoNode is the unknown type.    *)
(***************************************************************************)
EXTENDS TypeRelation, Builtin

Arithmetic == {"+", "-", "*", "/"}
Comparison == {"<", "<=", ">", ">="}
Equality   == {"==", "!="}
Logical    == {"and", "or"}

\* Mistake: the arguments are the wrong way round.
isAboveNumber(t) == t = NoNode \/ specializesType(builtinNumber, t)

isNumeric(t) == t = NoNode \/ specializesType(t, builtinNumber)

\* Mistake: the unknown type is not Boolean.
isKnownBoolean(t) == specializesType(t, builtinBoolean)

isBoolean(t) == t = NoNode \/ specializesType(t, builtinBoolean)

\* Two known types that have nothing to do with each other
Unrelated(a, b) == /\ a # NoNode
                   /\ b # NoNode
                   /\ ~ specializesType(a, b)
                   /\ ~ specializesType(b, a)

\* The more general of two types; the first when they are unrelated.
joinNumeric(a, b) == CASE a = NoNode           -> b
                       [] b = NoNode           -> a
                       [] specializesType(a, b) -> b
                       [] OTHER                -> a

literalType(e) == CASE ast[e].what = "Integer" -> builtinInteger
                    [] ast[e].what = "Real"    -> builtinReal
                    [] ast[e].what = "Boolean" -> builtinBoolean
                    [] ast[e].what = "String"  -> builtinString
                    [] OTHER                   -> NoNode

\* A name has the first declared type of the feature it is bound to.
identifierType(e) ==
  LET d == resolved[e]
  IN  IF /\ d # NoNode
         /\ ast[d].kind \in {"attribute", "usage"}
         /\ ast[d].types # <<>>
      THEN resolved[ast[d].types[1]] ELSE NoNode

\* The type an operator gives, from the types of its operands.
OperatorType(e, ts) ==
  CASE ast[e].kind = "binary" /\ ast[e].what \in Arithmetic ->
         IF isNumeric(ts[1]) /\ isNumeric(ts[2])
            /\ ts[1] # NoNode /\ ts[2] # NoNode
         THEN joinNumeric(ts[1], ts[2]) ELSE NoNode
    [] ast[e].kind = "binary"
         /\ ast[e].what \in Comparison \cup Equality \cup Logical ->
         builtinBoolean
    [] ast[e].kind = "unary" /\ ast[e].what = "-" ->
         IF isNumeric(ts[1]) THEN ts[1] ELSE NoNode
    [] ast[e].kind = "unary" /\ ast[e].what = "!" -> builtinBoolean
    [] OTHER -> NoNode

\* The operands an operator complains about, by number.
OperatorErrors(e, ts) ==
  CASE ast[e].kind = "binary" /\ ast[e].what \in Arithmetic \cup Comparison ->
         IF isNumeric(ts[1]) /\ isNumeric(ts[2]) THEN {} ELSE {1}
    [] ast[e].kind = "binary" /\ ast[e].what \in Equality ->
         IF Unrelated(ts[1], ts[2]) THEN {1} ELSE {}
    [] ast[e].kind = "binary" /\ ast[e].what \in Logical ->
         {i \in {1, 2} : ~ isBoolean(ts[i])}
    [] ast[e].kind = "unary" /\ ast[e].what = "-" ->
         IF isNumeric(ts[1]) THEN {} ELSE {1}
    [] ast[e].kind = "unary" /\ ast[e].what = "!" ->
         IF isBoolean(ts[1]) THEN {} ELSE {1}
    [] OTHER -> {}

\* The type of an expression, from those of its operands.  Calls and member
\* accesses are not typed, and what is in them is not looked at.
TypeFrom(e, ts) ==
  CASE ast[e].kind = "literal" -> literalType(e)
    [] ast[e].kind = "qname"   -> identifierType(e)
    [] ast[e].kind \in {"binary", "unary"} -> OperatorType(e, ts)
    [] OTHER -> NoNode

typeOf(expr) ==
  LET type[e \in Nodes] ==
        TypeFrom(e, [i \in DOMAIN ast[e].args |-> type[ast[e].args[i]]])
  IN  type[expr]

\* What typeOf reports on the way.
OperandErrors(expr) ==
  LET wrong[e \in Nodes] ==
        IF ast[e].kind \notin {"binary", "unary"} THEN {}
        ELSE (UNION {wrong[a] : a \in Range(ast[e].args)})
             \cup (LET bad == OperatorErrors(e, [i \in DOMAIN ast[e].args |->
                                                   typeOf(ast[e].args[i])])
                   IN  {<<"operand type", ast[e].args[i]>> : i \in bad})
  IN  wrong[expr]

\* checkConstraintBody
BodyErrors(n) ==
  UNION {OperandErrors(e) \cup
         (IF isBoolean(typeOf(e)) THEN {} ELSE {<<"body is not Boolean", n>>}) :
         e \in Range(ast[n].body)}

\* checkAssertionRef: what is asserted must be a constraint (a requirement).
AssertionErrors(u) ==
  LET t == IF ast[u].types = <<>> THEN NoNode ELSE resolved[ast[u].types[1]]
  IN  IF /\ ast[u].assert
         /\ t # NoNode
         /\ \/ ast[t].kind # "definition"
            \/ /\ ast[u].what \in {"constraint", "requirement"}
               /\ ast[t].what # ast[u].what
      THEN {<<"asserts something else", u>>} ELSE {}

\* The value of an enum's member is its tag, not a value of the enum.
IsEnum(n) == ast[n].kind = "definition" /\ ast[n].what = "enum"

\* checkAttribute, for an attribute directly inside p
AttributeErrors(a, p) ==
  LET declared == IF ast[a].types = <<>>
                  THEN NoNode ELSE resolved[ast[a].types[1]]
      Fits(val) == \/ declared = NoNode
                   \/ val = NoNode
                   \/ p # NoNode /\ IsEnum(p) /\ IsEnum(declared)
                   \/ specializesType(val, declared)
  IN  IF ast[a].value = <<>>
      THEN (IF ast[a].const THEN {<<"constant without value", a>>} ELSE {})
           \cup (IF ast[a].derived THEN {<<"derived from nothing", a>>} ELSE {})
      ELSE OperandErrors(ast[a].value[1]) \cup
           (IF Fits(typeOf(ast[a].value[1]))
            THEN {} ELSE {<<"value of another type", a>>})

\* checkSuccessionRef
SuccessionErrors(n, r) ==
  LET t == resolved[r]
  IN  IF \/ t = NoNode
         \/ ast[t].kind \in {"usage", "definition"} /\ ast[t].what = "action"
      THEN {} ELSE {<<"not an action", n>>}

\* The targets of a succession that are no names.
InlineActions(n) ==
  LET actions[i \in 0 .. Len(ast[n].targets)] ==
        IF i = 0 THEN <<>>
        ELSE IF ast[ast[n].targets[i]].kind = "qname" THEN actions[i - 1]
        ELSE Append(actions[i - 1], ast[n].targets[i])
  IN  actions[Len(ast[n].targets)]

\* walk, one declaration: its own rules, then its members and, of a
\* succession, the inline actions.
CheckTypes(n) ==
  LET k == ast[n].kind
      steps == ast[n].links \o ast[n].targets
      Named(r) == ast[r].kind = "qname"
      own == CASE k = "attribute" -> AttributeErrors(n, Head(todo).under)
               [] k \in {"definition", "usage"} ->
                    (IF ast[n].what = "constraint" THEN BodyErrors(n) ELSE {})
                    \cup (IF k = "usage" THEN AssertionErrors(n) ELSE {})
               [] k = "succession" ->
                    UNION {SuccessionErrors(n, r) : r \in {m \in Range(steps) :
                                                             Named(m)}}
               [] OTHER -> {}
      calls == CASE k \in {"program", "package", "definition", "usage"} ->
                      DoAllIn("types", ast[n].members, n)
                 [] k = "succession" -> DoAll("types", InlineActions(n))
                 [] OTHER -> <<>>
  IN  /\ Calls("types", n)
      /\ errors' = errors \cup own
      /\ Then(calls)
=============================================================================
