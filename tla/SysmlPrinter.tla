---------------------------- MODULE SysmlPrinter ----------------------------
(***************************************************************************)
(* The back end --emit-sysml (codegen_sysml.c): what it writes for a tree, *)
(* as the tokens that the scanner finds in it, "comment body" being a      *)
(* block comment.                                                          *)
(***************************************************************************)
EXTENDS ExpressionPrinter

\* A name is written with "::" between its parts.
emitQualifiedName(name) == [i \in DOMAIN name |-> emitToken(name[i])]

Spelt(names, separator) == Joined(separator, [i \in DOMAIN names |-> emitQualifiedName(names[i])])

Listed(names) == Spelt(names, <<",">>)

\* Nothing where there is no name.
emitNameList(lead, names) == IF names = <<>> THEN <<>> ELSE lead \o Listed(names)

If1(b, text) == IF b THEN text ELSE <<>>

Name1(n)     == Listed(Field(n, "name"))
emitValue(n) == If1(Has1(n, "value"), <<"=">> \o emitExpression(n.has["value"][1]))

emitMultiplicity(n) ==
  If1(Has1(n, "multiplicity"), <<"[">> \o n.has["multiplicity"][1] \o <<"]">>)

\* The flags of a node, in their one order.
emitModifiers(n, order) == SelectSeq(order, LAMBDA flag : flag \in n.flags)

emitVisibility(n) == emitModifiers(n, <<"public">>)

\* Mistake: the direction is written behind the modifiers.
emitFlagsSwapped(n) ==
  emitModifiers(n, <<"public", "assert", "assume", "derived", "abstract", "constant", "ref",
                     "in", "perform">>)

emitFlags(n) ==
  emitModifiers(n, <<"public", "assert", "assume", "in", "derived", "abstract", "constant", "ref",
                     "perform">>)

defKeyword(kind) ==
  CASE kind = "event"         -> <<"event", "occurrence">>
    [] kind = "use case"      -> <<"use", "case">>
    [] kind = "attribute def" -> <<"attribute">>
    [] kind = "reference"     -> <<>>
    [] OTHER                  -> <<kind>>

\* One end is written as if the other would follow.
emitEnds(n) ==
  LET ends == Field(n, "ends")
  IN  If1(ends # <<>>, (IF n.kind \in {"flow", "message"} THEN <<"from">> ELSE <<"connect">>)
                       \o Spelt(ends, <<"to">>))

\* The clauses of a usage, an attribute or a return.
emitTypes(n)       == emitNameList(<<":">>, Field(n, "types"))
emitSpecializes(n) == emitNameList(<<":>">>, Field(n, "specializes"))
emitRedefines(n)   == emitNameList(<<":>>">>, Field(n, "redefines"))

RECURSIVE emitNode(_)

emitMembers(nodes) == Joined(<<>>, [i \in DOMAIN nodes |-> emitNode(nodes[i])])

emitScope(n, head) == head \o <<"{">> \o emitMembers(n.inner[1])

emitPackage(n) ==
  emitScope(n, emitVisibility(n) \o <<"package">> \o Name1(n)) \o <<"}">>

\* A constraint has its expression behind its members.
emitDefinition(n) ==
  LET head == emitModifiers(n, <<"public", "abstract">>) \o defKeyword(n.kind) \o <<"def">>
              \o Name1(n) \o emitSpecializes(n) \o emitRedefines(n)
  IN  emitScope(n, head) \o If1(Has1(n, "body"), emitExpression(Field(n, "body")[1])) \o <<"}">>

\* `enum` is the name of a value that has none.
emitEnumValue(n) ==
  (IF Has1(n, "name") THEN Name1(n) ELSE <<"enum">>) \o emitValue(n) \o <<";">>

\* Statements that are usages in the tree, and have a form of their own.
emitBind(n, keyword, between) == <<keyword>> \o Spelt(Field(n, "ends"), <<between>>) \o <<";">>

emitSatisfy(n) == <<"satisfy">> \o Listed(Field(n, "types"))
                  \o emitNameList(<<"by">>, Field(n, "ends")) \o <<";">>

emitUsage(n) ==
  LET head == emitFlags(n) \o defKeyword(n.kind) \o Name1(n) \o emitTypes(n) \o emitSpecializes(n)
              \o emitRedefines(n) \o emitMultiplicity(n) \o emitEnds(n) \o emitValue(n)
  IN  IF Has1(n, "body") THEN head \o <<"{">> \o emitExpression(n.has["body"][1]) \o <<"}">>
      ELSE IF n.inner[1] = <<>> THEN head \o <<";">>
      ELSE emitScope(n, head) \o <<"}">>

emitAttribute(n) ==
  emitFlags(n) \o <<"attribute">> \o Name1(n) \o emitTypes(n) \o emitSpecializes(n) \o emitRedefines(n)
  \o emitMultiplicity(n) \o emitValue(n) \o <<";">>

emitImport(n) == emitVisibility(n) \o <<"import">> \o Listed(Field(n, "target")) \o <<";">>

emitAlias(n) == emitVisibility(n) \o <<"alias">> \o Name1(n)
                \o <<"for">> \o Listed(Field(n, "target")) \o <<";">>

emitComment(n) == <<"comment">> \o Name1(n) \o emitNameList(<<"about">>, Field(n, "about"))
                  \o <<"comment body">>

emitDependency(n) ==
  emitVisibility(n) \o <<"dependency">> \o Name1(n) \o <<"from">> \o Listed(Field(n, "sources"))
  \o <<"to">> \o Listed(Field(n, "targets")) \o <<";">>

\* A name, or the head of an action with its members, if it has any.
emitSuccessionTarget(n, i) ==
  <<"then">> \o emitQualifiedName(n.has["targets"][i])
  \o If1(n.inner[i + 1] # <<>>, <<"{">> \o emitMembers(n.inner[i + 1]) \o <<"}">>)

\* Mistake: the targets of a succession that has a first are left to the next.
emitSuccessionShort(n) ==
  LET targets == Field(n, "targets")
      thens   == Joined(<<>>, [i \in DOMAIN targets |-> emitSuccessionTarget(n, i)])
  IN  IF Has1(n, "first") /\ ~Has1(n, "name") THEN <<"first">> \o Listed(n.has["first"]) \o <<";">>
      ELSE <<"succession">> \o Name1(n) \o emitNameList(<<"first">>, Field(n, "first"))
           \o thens \o <<";">>

\* The three forms of a succession.
emitSuccession(n) ==
  LET targets == Field(n, "targets")
      thens   == Joined(<<>>, [i \in DOMAIN targets |-> emitSuccessionTarget(n, i)])
      first   == emitNameList(<<"first">>, Field(n, "first"))
  IN  (IF Has1(n, "name") \/ (Has1(n, "first") /\ targets # <<>>)
       THEN <<"succession">> \o Name1(n) ELSE <<>>) \o first \o thens \o <<";">>

emitTransition(n) ==
  <<"transition">> \o Name1(n) \o emitNameList(<<"first">>, Field(n, "first"))
  \o emitNameList(<<"accept">>, Field(n, "accept"))
  \o If1(Has1(n, "guard"), <<"if">> \o emitExpression(Field(n, "guard")[1]))
  \o emitNameList(<<"do">>, Field(n, "effect")) \o <<"then">> \o Listed(Field(n, "target")) \o <<";">>

emitLifecycleAction(n) == <<n.kind>> \o Listed(Field(n, "action")) \o <<";">>

emitReturn(n) == <<"return">> \o Name1(n) \o emitTypes(n) \o emitSpecializes(n) \o emitValue(n) \o <<";">>

emitNode(n) ==
  CASE "def" \in n.flags        -> emitDefinition(n)
    [] n.kind = "package"       -> emitPackage(n)
    [] n.kind = "enum value"    -> emitEnumValue(n)
    [] n.kind = "attribute"     -> emitAttribute(n)
    [] n.kind = "import"        -> emitImport(n)
    [] n.kind = "doc"           -> <<"text">>
    [] n.kind = "alias"         -> emitAlias(n)
    [] n.kind = "comment"       -> emitComment(n)
    [] n.kind = "dependency"    -> emitDependency(n)
    [] n.kind = "succession"    -> emitSuccession(n)
    [] n.kind = "transition"    -> emitTransition(n)
    [] n.kind \in {"entry", "do"} -> emitLifecycleAction(n)
    [] n.kind = "return"        -> emitReturn(n)
    [] n.kind = "bind"          -> emitBind(n, "bind", "=")
    [] n.kind = "allocate"      -> emitBind(n, "allocate", "to")
    [] n.kind = "satisfy"       -> emitSatisfy(n)
    [] OTHER                    -> emitUsage(n)

\* emitProgram(): the program is no node of its own in the text.
emitSysml(program) == emitMembers(program)
=============================================================================
