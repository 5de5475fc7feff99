----------------------------- MODULE JsonPrinter -----------------------------
(***************************************************************************)
(* The back end --emit-json (codegen_json.c): what it writes for a tree    *)
(* that is only parsed (--no-resolve), as the tokens of JSON, "quote" and  *)
(* what is in the quotes being a string.  How a string is escaped, and     *)
(* where lines begin, is left out; a kind is written as the name the model *)
(* has for it.                                                             *)
(***************************************************************************)
EXTENDS Trees

Quoted(x) == <<"quote", x>>
Bool(b)   == <<IF b THEN "true" ELSE "false">>
Null      == <<"null">>

\* Every field but the first has a comma before it.
Object(fields) == <<"{">> \o Joined(<<",">>, fields) \o <<"}">>

Array(items) == <<"[">> \o Joined(<<",">>, items) \o <<"]">>

emitKey(k, value) == Quoted(k) \o <<":">> \o value
Kind(k)           == emitKey("kind", Quoted(k))
Flag(n, k, flag)  == emitKey(k, Bool(flag \in n.flags))

visibility(n) == emitKey("visibility", Quoted(IF "public" \in n.flags THEN "public" ELSE "default"))

\* A name as it stands in the source, whether it was in quotes or not.
NameOr(n, none) ==
  emitKey("name", IF Has1(n, "name") THEN Quoted(Unquote(n.has["name"][1][1])) ELSE none)

multiplicity(n) ==
  LET text  == n.has["multiplicity"][1]
      range == Len(text) > 1
      Bound(k, i) == emitKey(k, IF text[i] = "*" THEN Quoted("*") ELSE <<text[i]>>)
  IN  emitKey("multiplicity",
        IF ~Has1(n, "multiplicity") THEN Null
        ELSE Object(<<Kind("Multiplicity"), Bound("lower", 1), emitKey("isRange", Bool(range))>>
                    \o (IF range THEN <<Bound("upper", 3)>> ELSE <<>>)))

\* The marks of a name that are no parts of it are flags.
qualifiedNameTo(name, resolved) ==
  LET parts == SelectSeq(name, LAMBDA t : t \notin {"~", "::", "*"})
  IN  Object(<<Kind("QualifiedName"), emitKey("isConjugated", Bool(name[1] = "~")),
               emitKey("parts", Array([i \in DOMAIN parts |-> Quoted(Unquote(parts[i]))])),
               emitKey("resolvedTo", resolved)>>)

\* Only the start of an action is known before the resolver.
qualifiedNameOf(name) == qualifiedNameTo(name, IF name = <<"start">> THEN Quoted("start") ELSE Null)

\* Mistake: of a list the first is written.
nodeListFirst(n, k, f) ==
  emitKey(k, Array(IF Has1(n, f) THEN <<qualifiedNameOf(n.has[f][1])>> ELSE <<>>))

nodeList(n, k, f) ==
  emitKey(k, Array([i \in DOMAIN Field(n, f) |-> qualifiedNameOf(Field(n, f)[i])]))

nameOrNull(n, k) == emitKey(k, IF Has1(n, k) THEN qualifiedNameOf(n.has[k][1]) ELSE Null)

\* Expressions.
RECURSIVE jsonExpression(_)
jsonExpression(tree) ==
  LET args   == tree.args
      E(i)   == jsonExpression(args[i])
      list(i) == Array([j \in 1 .. Len(args) - i + 1 |-> E(i + j - 1)])
  IN  CASE tree.kind = "literal" ->
             Object(<<Kind("Literal"),
                      emitKey("litKind", Quoted(IF tree.op = "1" THEN "Integer" ELSE "Boolean")),
                      emitKey("value", <<tree.op>>)>>)
        [] tree.kind = "name"   -> qualifiedNameOf([i \in DOMAIN args |-> args[i].op])
        [] tree.kind = "binary" -> Object(<<Kind("Binary"), emitKey("op", Quoted(tree.op)),
                                            emitKey("left", E(1)), emitKey("right", E(2))>>)
        [] tree.kind = "unary"  -> Object(<<Kind("Unary"), emitKey("op", Quoted(tree.op)),
                                            emitKey("operand", E(1))>>)
        [] tree.kind = "tuple"  -> Object(<<Kind("Call"), emitKey("callee", Null),
                                            emitKey("args", list(1))>>)
        [] tree.kind = "call"   -> Object(<<Kind("Call"), emitKey("callee", E(1)),
                                            emitKey("args", list(2))>>)
        [] tree.kind = "member" -> Object(<<Kind("MemberAccess"), emitKey("target", E(1)),
                                            emitKey("member", Quoted(Unquote(args[2].op)))>>)

expressionOrNull(n, k, f) ==
  emitKey(k, IF Has1(n, f) THEN jsonExpression(n.has[f][1]) ELSE Null)

\* Declarations.
RECURSIVE jsonNode(_)

jsonMembers(nodes) == emitKey("members", Array([i \in DOMAIN nodes |-> jsonNode(nodes[i])]))

modifierFlags(n) == <<Flag(n, "isDerived", "derived"), Flag(n, "isAbstract", "abstract"),
                      Flag(n, "isConstant", "constant"), Flag(n, "isReference", "ref")>>

relationships(n) == <<nodeList(n, "specializes", "specializes"), nodeList(n, "redefines", "redefines")>>

jsonPackage(n) == Object(<<Kind("Package"), NameOr(n, Null), visibility(n), jsonMembers(n.inner[1])>>)

\* A value of an enumeration is an attribute of its type, which it refers to.
jsonEnumValue(n, type) ==
  Object(<<Kind("Attribute"), NameOr(n, Quoted("")), visibility(n)>> \o modifierFlags(n)
         \o <<emitKey("types", Array(<<qualifiedNameTo(type, Quoted(Unquote(type[1])))>>))>>
         \o relationships(n) \o <<multiplicity(n), expressionOrNull(n, "default", "value")>>)

jsonDefinition(n) ==
  LET inside == n.inner[1]
      member(m) == IF m.kind = "enum value" THEN jsonEnumValue(m, n.has["name"][1]) ELSE jsonNode(m)
  IN  Object(<<Kind("Definition"), emitKey("defKind", Quoted(n.kind)), NameOr(n, Null),
               visibility(n), Flag(n, "isAbstract", "abstract")>>
             \o relationships(n) \o <<expressionOrNull(n, "body", "body")>>
             \o <<emitKey("members", Array([i \in DOMAIN inside |-> member(inside[i])]))>>)

jsonUsage(n) ==
  LET kind == IF n.kind \in {"bind", "allocate"} THEN "connection" ELSE n.kind
      assertKind == CASE "assert" \in n.flags -> "assert" [] "assume" \in n.flags -> "assume"
                      [] OTHER -> "none"
  IN  Object(<<Kind("Usage"), emitKey("defKind", Quoted(kind)), NameOr(n, Null), visibility(n),
               emitKey("direction", Quoted(IF "in" \in n.flags THEN "in" ELSE "none")),
               emitKey("assertKind", Quoted(assertKind))>>
             \o modifierFlags(n)
             \o <<Flag(n, "isPerform", "perform"), emitKey("isBind", Bool(n.kind = "bind")),
                  emitKey("isAllocate", Bool(n.kind = "allocate")), nodeList(n, "types", "types")>>
             \o relationships(n)
             \o <<multiplicity(n), nodeList(n, "ends", "ends"),
                  expressionOrNull(n, "default", "value"), expressionOrNull(n, "body", "body"),
                  jsonMembers(n.inner[1])>>)

\* Without a name it has an empty one, where a usage has none.
jsonAttribute(n) ==
  Object(<<Kind("Attribute"), NameOr(n, Quoted("")), visibility(n)>> \o modifierFlags(n)
         \o <<nodeList(n, "types", "types")>> \o relationships(n)
         \o <<multiplicity(n), expressionOrNull(n, "default", "value")>>)

jsonImport(n) ==
  LET target == n.has["target"][1]
  IN  Object(<<Kind("Import"), visibility(n), emitKey("wildcard", Bool(Contains(target, "*"))),
               emitKey("target", qualifiedNameOf(target))>>)

\* The visibility is left out.
jsonAlias(n) == Object(<<Kind("Alias"), NameOr(n, Null), nameOrNull(n, "target")>>)

jsonDoc(n)     == Object(<<Kind("Doc"), emitKey("body", Quoted("body"))>>)
jsonComment(n) == Object(<<Kind("Comment"), NameOr(n, Null), nodeList(n, "about", "about"),
                           emitKey("body", Quoted("body"))>>)

jsonDependency(n) ==
  Object(<<Kind("Dependency"), NameOr(n, Null), visibility(n),
           nodeList(n, "sources", "sources"), nodeList(n, "targets", "targets")>>)

\* A target is a name, or an action with all that a usage has.
jsonTarget(n, i) ==
  LET target == n.has["targets"][i]
  IN  IF target[1] = "action" THEN jsonUsage(InlineAction(target, n.inner[i + 1]))
      ELSE qualifiedNameOf(target)

jsonSuccession(n) ==
  Object(<<Kind("Succession"), NameOr(n, Null), visibility(n), nameOrNull(n, "first"),
           emitKey("targets", Array([i \in DOMAIN Field(n, "targets") |-> jsonTarget(n, i)]))>>)

jsonTransition(n) ==
  Object(<<Kind("Transition"), NameOr(n, Null), visibility(n), nameOrNull(n, "first"),
           nameOrNull(n, "accept"), expressionOrNull(n, "guard", "guard"),
           nameOrNull(n, "effect"), nameOrNull(n, "target")>>)

jsonLifecycleAction(n) ==
  Object(<<Kind("LifecycleAction"), emitKey("lifecycle", Quoted(n.kind)), nameOrNull(n, "action")>>)

jsonReturn(n) ==
  Object(<<Kind("Return"), NameOr(n, Null), nodeList(n, "types", "types"),
           nodeList(n, "specializes", "specializes"), expressionOrNull(n, "default", "value")>>)

jsonNode(n) ==
  CASE "def" \in n.flags      -> jsonDefinition(n)
    [] n.kind = "package"     -> jsonPackage(n)
    [] n.kind = "attribute"   -> jsonAttribute(n)
    [] n.kind = "import"      -> jsonImport(n)
    [] n.kind = "doc"         -> jsonDoc(n)
    [] n.kind = "alias"       -> jsonAlias(n)
    [] n.kind = "comment"     -> jsonComment(n)
    [] n.kind = "dependency"  -> jsonDependency(n)
    [] n.kind = "succession"  -> jsonSuccession(n)
    [] n.kind = "transition"  -> jsonTransition(n)
    [] n.kind = "return"      -> jsonReturn(n)
    [] n.kind \in {"entry", "do"} -> jsonLifecycleAction(n)
    [] OTHER                  -> jsonUsage(n)

emitJson(program) == Object(<<Kind("Program"), jsonMembers(program)>>)
=============================================================================
