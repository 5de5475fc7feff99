---------------------------- MODULE Declarations ----------------------------
(***************************************************************************)
(* The declaration parser (parser_decl.c on top of parser_common.c): what  *)
(* it accepts, where it puts each declaration, and how it goes on after an *)
(* error.                                                                  *)
(*                                                                         *)
(* The functions of the parser are written as lists of steps, each a call  *)
(* of a function of parser_common.c or a test of the current token; Do     *)
(* says what a step does to the parser.  An action is one turn of the loop *)
(* of a body, from where it tests the current token to where it either     *)
(* opens the body of a nested declaration or is done with the declaration; *)
(* or what follows the end of a body.  Bodies nest to any depth, so their  *)
(* loops are a stack, `frames`.  Module RoundTrip has the specification:   *)
(* what is printed of a tree is parsed here once more.                     *)
(*                                                                         *)
(* Tokens are classes of tokens that no function tells apart: "part" is    *)
(* part, port and item, "requirement" every kind without rules of its own, *)
(* "public", "in", "assert", "entry", "start", "fork", "at" and so on one  *)
(* of their like.  "id" is every other identifier, "text" the body of a    *)
(* doc, "?" the error token that scanDocBody() returns when there is none. *)
(* A block comment is no token: a file has the set of positions it stands  *)
(* in front of.                                                            *)
(***************************************************************************)
EXTENDS ExpressionParser

CONSTANTS
  Files,    \* what the scanner makes of the text
  Leaves,   \* statements that are right, without a body of statements
  Heads     \* and what such statements begin with that have one

WellScanned(f) ==
  /\ \A i \in DOMAIN f.tokens :
       /\ f.tokens[i] = "doc" => i < Len(f.tokens) /\ f.tokens[i + 1] \in {"text", "?"}
       /\ f.tokens[i] = "?" => i > 1 /\ f.tokens[i - 1] = "doc"
  /\ f.notes \subseteq 1 .. Len(f.tokens) + 1

ASSUME FilesAssumption == \A f \in Files : WellScanned(f)

VARIABLES
  file,       \* the tokens, and the positions behind a block comment
  at,         \* where parser.current is; parser.previous is before it
  panic,      \* parser.panicMode
  errors,     \* the positions of the tokens an error was reported at
  frames,     \* the loops of the bodies that are open, the innermost last
  members     \* the nodes of the declarations that are finished, see Settle

vars == <<file, at, panic, errors, frames, members>>

tokens == file.tokens
Past   == Len(tokens) + 1

----------------------------------------------------------------------------
(***************************************************************************)
(* Steps.  A parser p, in the middle of a declaration, is a position, the  *)
(* mode, the errors so far, what is noted about the declaration (its       *)
(* modifiers, clauses it has), a mark in the text, what is known of the    *)
(* node, and the steps to come.                                            *)
(*                                                                         *)
(* A node has a kind once it is made, flags, and, by the names of its      *)
(* fields, lists of what is kept of the text: names, as their tokens, and  *)
(* the trees of expressions.  The bodies it has opened are known by where  *)
(* they begin, and by how many targets of a succession come before.        *)
(***************************************************************************)
Identifiers == {"id", "'or'", "fork", "case", "by", "send", "parallel", "via", "at"}

Modifiers   == {"derived", "abstract", "constant", "ref"}

Step(op, of, yes, no) == [op |-> op, of |-> of, yes |-> yes, no |-> no]
Plain(op, of)         == Step(op, of, <<>>, <<>>)

Advance         == Plain("advance", {})
Need(ts)        == Plain("consume", ts)
If(ts, yes, no) == Step("check", ts, yes, no)
Opt(ts, yes)    == If(ts, <<Advance>> \o yes, <<>>)
While(ts, yes)  == Step("while", ts, yes, <<>>)
Break           == Plain("break", {})
Return          == Plain("return", {})
ErrorHere       == Plain("errorAtCurrent", {})
ErrorBefore     == Plain("error", {})
Note(x)         == Plain("note", {x})
Forget(xs)      == Plain("forget", xs)
Forbid(xs)      == Step("noted", xs, <<ErrorBefore>>, <<>>)
IfNoted(xs, yes, no) == Step("noted", xs, yes, no)
SkipTo(ts)      == Plain("skip to", ts)
SkipPast(open, close) == Plain("skip past", <<open, close>>)
Expression(field) == Plain("expression", field)
Mark            == Plain("mark", {})
Keep(field)     == Plain("keep", field)
As(field, steps) == IF field = "" THEN steps ELSE <<Mark>> \o steps \o <<Keep(field)>>
BlockComment    == Plain("block comment", {})
Make(kind)      == Plain("make", kind)
Calls(f)        == <<Plain(f, "")>>
CallsFor(f, k)  == <<Plain(f, k)>>
Dispatch        == Plain("dispatch", {})
Body(loop)      == Plain("body", loop)
Recover         == Plain("recover", {})

Tok(p) == IF p.at < Past THEN tokens[p.at] ELSE "eof"

\* p, token by token, to i.  The error token behind a "doc" is reported when
\* it becomes current.
goTo(p, i) ==
  LET nobody == {k \in p.at + 1 .. i : k < Past /\ tokens[k] = "?"}
  IN  IF nobody = {} \/ p.panic THEN [p EXCEPT !.at = i]
      ELSE [p EXCEPT !.at = i, !.panic = TRUE, !.errors = @ \cup {Min(nobody)}]

\* At the end of the text the scanner returns TOKEN_EOF for ever.
advance(p) == goTo(p, Min({p.at + 1, Past}))

\* In panic mode further errors are swallowed.
errorAt(p, i) ==
  IF p.panic THEN p ELSE [p EXCEPT !.panic = TRUE, !.errors = @ \cup {i}]

consume(p, ts) == IF Tok(p) \in ts THEN advance(p) ELSE errorAt(p, p.at)

\* The keywords that end the search for a declaration.
Landmarks ==
  {"package", "import", "part", "interface", "connection", "flow", "end",
   "connect", "attribute", "doc", "comment", "alias", "dependency", "enum",
   "constraint", "requirement", "assert", "assume", "subject", "action",
   "succession", "first", "then", "state", "exhibit", "transition", "entry",
   "do", "perform", "return", "calc", "bind", "allocate", "occurrence",
   "event", "allocation", "variant", "include", "message", "use",
   "objective", "satisfy", "filter", "abstract", "derived", "constant",
   "ref", "}"}

\* Mistake: the flag is not cleared, and the next error is swallowed too.
synchronizeQuietly(p) ==
  LET safe == {i \in p.at .. Past :
                 i = Past \/ (i > 1 /\ tokens[i - 1] = ";") \/ tokens[i] \in Landmarks}
  IN  [p EXCEPT !.at = Min(safe)]

\* Mistake: only a keyword ends the search.
synchronizeAtKeyword(p) ==
  LET safe == {i \in p.at .. Past : i = Past \/ tokens[i] \in Landmarks}
  IN  [p EXCEPT !.at = Min(safe), !.panic = FALSE]

synchronize(p) ==
  LET safe == {i \in p.at .. Past :
                 i = Past \/ (i > 1 /\ tokens[i - 1] = ";") \/ tokens[i] \in Landmarks}
  IN  [p EXCEPT !.at = Min(safe), !.panic = FALSE]

Count(i, j, t) == Cardinality({k \in i .. j : tokens[k] = t})

\* skipBracedBlock(), and the same for brackets: behind the bracket that
\* closes what was opened before p, or at the end of the text.
skipPast(p, open, close) ==
  LET closing == {i \in p.at .. Past - 1 :
                    Count(p.at, i, close) = Count(p.at, i, open) + 1}
  IN  goTo(p, IF closing = {} THEN Past ELSE Min(closing) + 1)

skipTo(p, ts) == goTo(p, Min({i \in p.at .. Past : i = Past \/ tokens[i] \in ts}))

\* One more in the list of a field.
kept(p, field, x) ==
  LET has  == p.node.has
      list == IF field \in DOMAIN has THEN has[field] ELSE <<>>
  IN  [p EXCEPT !.node.has = [f \in DOMAIN has \cup {field} |->
                                IF f = field THEN Append(list, x) ELSE has[f]]]

\* astAppendQualifiedPart(), once per part: a name does not know how its parts
\* were separated.  (The "*" of an import is a flag in the code, and a fork that
\* has a name an action.)
nameFrom(p) ==
  LET text == SubSeq(tokens, p.mark, p.at - 1)
  IN  [i \in DOMAIN text |->
         CASE text[i] = "."  -> "::"
           [] text[i] = "**" -> "*"
           [] text[i] = "fork" /\ Len(text) = 2 -> "action"
           [] OTHER -> text[i]]

\* The flags that are kept in a node: those of a definition, those of a usage
\* or attribute, or the visibility that astSetVisibility() knows a place for.
flagsOf(kind, noted) ==
  noted \cap (IF "def" \in noted THEN {"def", "public", "abstract"}
              ELSE CASE kind \in {"package", "import", "alias", "dependency"} -> {"public"}
                     [] kind \in {"doc", "comment", "succession", "transition", "entry", "do",
                                  "return", "enum value"} -> {}
                     [] OTHER -> {"public", "in", "perform", "assert", "assume"} \cup Modifiers)

\* Of a definition the types and the multiplicity are dropped.
made(p, kind) ==
  LET fields == IF "def" \in p.noted THEN {"name", "specializes", "redefines"}
                ELSE DOMAIN p.node.has
  IN  [p EXCEPT !.node.kind = kind, !.node.flags = flagsOf(kind, p.noted),
                !.node.has = Restrict(@, fields \cap DOMAIN @)]

\* Mistake: a block comment in front of the last token will do.
hasBlockCommentBefore(p) == p.at \in file.notes \/ p.at - 1 \in file.notes

\* takeLastBlockComment(), in front of the current token.
hasBlockComment(p) == p.at \in file.notes

\* expression(): an error in it is recorded at its first token.
expression(p, field) ==
  LET text == [i \in DOMAIN tokens |->
                 IF tokens[i] \in Identifiers \ Names THEN "id" ELSE tokens[i]]
      e    == parsePrecedence(text, p.at, Assignment)
      q    == kept(goTo(p, Min({e.at, Past})), field, e.tree)
  IN  IF e.bad THEN errorAt(q, p.at) ELSE q

----------------------------------------------------------------------------
(***************************************************************************)
(* The functions of the parser, as lists of steps.  The keyword is current *)
(* where a rule of the dispatcher begins, and behind it elsewhere.         *)
(***************************************************************************)
Semicolon == Need({";"})
Name      == Need(Identifiers)
ItsName   == As("name", <<Name>>)

\* A name that may be missing.
MayBeNamed == If(Identifiers, As("name", <<Advance>>), <<>>)

\* A name, and names with commas between them, for a field of the node, or for
\* none ("").
qualifiedName(field) ==
  As(field,
     <<Opt({"~"}, <<>>),
       If(Identifiers,
          <<Advance,
            While({"::", "."}, <<Advance, If(Identifiers, <<Advance>>,
                                             <<ErrorBefore, Break>>)>>)>>,
          <<ErrorHere>>)>>)

qualifiedNames(field) ==
  CallsFor("qualifiedName", field)
  \o <<While({","}, <<Advance>> \o CallsFor("qualifiedName", field))>>

parseMultiplicity ==
  LET bound == If({"*", "1"}, <<Advance>>, <<ErrorHere>>)
  IN  As("multiplicity", <<bound, Opt({".."}, <<bound>>)>>) \o <<Need({"]"})>>

Specializes == {":>", "specializes", "subsets"}
Clauses     == {":", "[", ":>>"} \cup Specializes

\* A clause that begins with a token of ts: wrong the second time, but read on.
Clause(ts, mark, rest) ==
  Opt(ts, <<Forbid({mark})>> \o rest \o <<Note(mark)>>)

parseFeatureRelationships ==
  LET multiplicity == parseMultiplicity \o <<While({"nonunique"}, <<Advance>>)>>
  IN  <<Forget({"multiplied", "typed", "specialized", "redefined"}),
        While(Clauses, <<Clause({"["}, "multiplied", multiplicity),
                         Clause({":"}, "typed", CallsFor("qualifiedNames", "types")),
                         Clause(Specializes, "specialized", CallsFor("qualifiedNames", "specializes")),
                         Clause({":>>"}, "redefined", CallsFor("qualifiedNames", "redefines"))>>)>>

\* What stands in front of the name and what the name redefines is dropped.
dottedReference(field) ==
  <<Opt({"["}, <<SkipPast("[", "]")>>)>>
  \o As(field, <<Name, While({".", "::"}, <<Advance, Name>>)>>)
  \o <<Opt(Specializes \cup {":>>"},
        <<Opt(Identifiers, <<While({".", "::"}, <<Advance, Opt(Identifiers, <<>>)>>)>>)>>)>>

End == CallsFor("dottedReference", "ends")

parseEndsClause == End \o <<Need({"to"})>> \o End

\* `= expression` or `default expression`
Value(ts) == Opt(ts, <<Expression("value")>>)

skipMetadataPrefix ==
  LET name == <<Advance, Opt(Identifiers, <<>>),
                While({"::"}, <<Advance, Opt(Identifiers, <<>>)>>)>>
  IN  <<While({"#", "@"},
          <<If({"#"}, name,
               name \o <<Opt({"about"}, <<SkipTo({"{", ";"}), Note("statement")>>),
                         Opt({"{"}, <<SkipPast("{", "}"), Note("statement")>>),
                         Opt({";"}, <<Note("statement")>>)>>)>>)>>

shortName == Opt({"<"}, <<Opt(Identifiers, <<>>), Need({">"})>>)

importDecl ==
  <<If(Identifiers,
       As("target", <<Advance,
         While({"::"}, <<Advance,
                         If({"*", "**"}, <<Advance, Break>>,
                            <<If(Identifiers, <<Advance>>, <<ErrorBefore, Break>>)>>)>>)>>),
       <<ErrorHere>>),
    Semicolon, Make("import")>>

attributeDecl ==
  <<If(Identifiers, As("name", <<Advance>>), <<If(Clauses, <<>>, <<ErrorHere>>)>>)>>
  \o Calls("parseFeatureRelationships")
  \o <<Value({"=", "default"}),
       If({"{"}, <<Advance, SkipPast("{", "}")>>, <<Semicolon>>),
       Make("attribute")>>

\* A definition needs a brace or a semicolon; whatever stands there instead
\* is taken for the first token of its body.
definition(k) ==
  <<Advance, shortName>> \o ItsName \o Calls("parseFeatureRelationships")
  \o <<Note("def"), Make(IF k = "event" THEN "occurrence" ELSE k), Opt({";"}, <<Return>>), Need({"{"}),
       Body(CASE k = "enum"       -> "values"
              [] k = "constraint" -> "constraint"
              [] OTHER            -> "members")>>

\* Mistake: a usage of any kind may go without a name.
usageNameOptional(k) == <<MayBeNamed>>

\* The name of a usage, or what may stand in its place.  In a flow it may turn
\* out to be the source: `flow a.b to c.d;`.
usageName(k) ==
  LET transfers == k \in {"flow", "message"}
      starts == Clauses \cup {"=", "default"}
                \cup (IF k = "connection" THEN {"connect"} ELSE {})
                \cup (IF transfers THEN {"from", "of"} ELSE {})
      named  == <<Keep("name"), Note("named")>>
      source == <<While({"."}, <<Advance, Name>>), Keep("ends"), Note("source")>>
  IN  <<If(Identifiers,
           <<Mark, Advance>> \o IF transfers THEN <<If({".", "to"}, source, named)>> ELSE named,
           IF k \in {"constraint", "objective"} THEN <<>> ELSE <<If(starts, <<>>, <<Name>>)>>)>>

\* `of T` or, in a message, `of name : T`
transferred(k) ==
  <<Opt({"of"},
        (IF k = "message"
         THEN <<If(Identifiers,
                   <<Mark, Advance,
                     If({":"}, <<Advance>> \o CallsFor("qualifiedNames", "types"),
                        <<While({"::"}, <<Advance, Name>>), Keep("types")>>)>>,
                   CallsFor("qualifiedNames", "types"))>>
         ELSE CallsFor("qualifiedNames", "types")) \o <<Note("typed")>>)>>

usageEnds(k) ==
  LET target == Opt({"to"}, End)
  IN  CASE k \in {"connection", "interface"} -> <<Opt({"connect"}, Calls("parseEndsClause"))>>
        [] k = "allocation" -> <<Opt({"allocate"}, Calls("parseEndsClause"))>>
        [] k = "message" -> <<IfNoted({"source"}, <<target>>,
                                      <<Opt({"from"}, Calls("parseEndsClause"))>>)>>
        [] k = "flow" ->
             <<IfNoted({"source"}, <<target>>,
                 <<If({"from"}, <<Advance>> \o Calls("parseEndsClause"),
                      <<IfNoted({"named", "typed"}, <<>>,
                          <<If(Identifiers \cup {"["}, End \o <<target>>,
                               <<>>)>>)>>)>>)>>
        [] OTHER -> <<>>

bodyOrSemicolon == If({"{"}, <<Advance, Body("members")>>, <<Semicolon>>)

usage(k) ==
  skipMetadataPrefix \o <<shortName, Forget({"named", "source"})>>
  \o usageName(k) \o Calls("parseFeatureRelationships")
  \o (IF k \in {"flow", "message"} THEN transferred(k) ELSE <<>>)
  \o usageEnds(k)
  \o (IF k \in {"action", "state"}
      THEN <<Opt({"accept", "send", "parallel"}, <<SkipTo({";", "{"})>>)>> ELSE <<>>)
  \o <<Value({"="}), Make(k)>>
  \o (IF k = "constraint"
      THEN <<Opt({"{"}, <<Expression("body"), Need({"}"}), Return>>)>> ELSE <<>>)
  \o <<bodyOrSemicolon>>

definitionOrUsage(k) ==
  <<If({"def"},
       (IF k = "end" THEN <<ErrorHere, Advance>> ELSE <<>>)
       \o <<Forbid({"in"} \cup (Modifiers \ {"abstract"}))>> \o CallsFor("definition", k),
       (IF k = "part" THEN <<>> ELSE <<Forbid({"in"})>>) \o CallsFor("usage", k))>>

bindStatement ==
  End \o <<Need({"="})>> \o End \o <<Semicolon, Make("bind")>>

allocateStatement ==
  Calls("parseEndsClause")
  \o <<If({"{"}, <<Advance, SkipPast("{", "}")>>, <<Semicolon>>), Make("allocate")>>

assertedConstraintOrRequirement(kw) ==
  LET inline(isReq) ==
        Opt({"{"}, (IF isReq THEN <<ErrorBefore>> ELSE <<>>)
                   \o <<Expression("body"), Need({"}"}), Return>>)
      rest(isReq) ==
        <<Note(kw), Make(IF isReq THEN "requirement" ELSE "constraint"), inline(isReq),
          MayBeNamed, Opt({":"}, CallsFor("qualifiedNames", "types")), inline(isReq), Semicolon>>
  IN  <<If({"requirement"},
           <<Advance>> \o (IF kw = "assume" THEN <<ErrorBefore>> ELSE <<>>) \o rest(TRUE),
           <<If({"constraint"}, <<Advance>> \o rest(FALSE),
                <<ErrorHere, Advance>>)>>)>>

subjectStatement ==
  ItsName \o <<Opt({":"}, CallsFor("qualifiedNames", "types")), Semicolon, Make("subject")>>

parseActionRef(field) ==
  <<If({"start"}, As(field, <<Advance>>), CallsFor("dottedReference", field))>>

\* A target is a name, or an action that is declared on the spot, which is kept
\* as the tokens it begins with; a fork that has a name is an action too.
parseThenTarget ==
  <<If({"action"},
       As("targets", <<Advance, Opt(Identifiers, <<>>),
                       Opt({":"}, CallsFor("qualifiedNames", ""))>>)
       \o <<Opt({"{"}, <<Body("members")>>)>>,
       <<If({"fork"}, As("targets", <<Advance, Opt(Identifiers, <<>>)>>),
            CallsFor("parseActionRef", "targets"))>>)>>

parseSuccessionStmt(kw) ==
  (CASE kw = "succession" ->
            <<MayBeNamed, Opt({"first"}, CallsFor("parseActionRef", "first")), Need({"then"})>>
            \o Calls("parseThenTarget")
     [] kw = "first"      -> CallsFor("parseActionRef", "first")
     [] kw = "then"       -> Calls("parseThenTarget"))
  \o <<While({"then"}, <<Advance>> \o Calls("parseThenTarget")), Semicolon, Make("succession")>>

parseLifecycleAction(kind) ==
  <<Opt({"action"}, <<>>)>> \o CallsFor("dottedReference", "action")
  \o <<If({"{"}, <<Advance, SkipPast("{", "}"), Opt({";"}, <<>>)>>, <<Semicolon>>),
       Make(kind)>>

\* The name is what the transition leaves from if `then` follows at once.
parseTransitionStmt ==
  LET goesOn  == {"if", "do", "then", ";"}
      Q(field) == CallsFor("qualifiedName", field)
      trigger == Q("accept") \o <<Opt({":"}, Q("")), Opt({"via"}, Q(""))>>
  IN  <<If(Identifiers, <<Mark, Advance, If({"then"}, <<Keep("first")>>, <<Keep("name")>>)>>, <<>>),
        Opt({"first"}, Q("first")),
        Opt({"accept"},
            <<If({"at"}, <<SkipTo(goesOn)>>,
                 <<If(Identifiers \cup {"start"}, trigger, <<SkipTo(goesOn)>>)>>)>>),
        Opt({"if"}, <<Expression("guard")>>),
        Opt({"do"}, <<If({"send"}, <<SkipTo({"then", ";"})>>, Q("effect"))>>),
        Need({"then"})>>
      \o Q("target") \o <<Semicolon, Make("transition")>>

packageDecl == ItsName \o <<Need({"{"}), Make("package"), Body("members")>>

docDecl ==
  <<If({"doc"}, <<Advance, Opt({"text"}, <<Make("doc")>>)>>, <<Advance, Make("doc")>>)>>

aliasDecl ==
  ItsName \o <<Need({"for"})>> \o CallsFor("qualifiedName", "target") \o <<Semicolon, Make("alias")>>

\* The body is the block comment, if any, that was skipped last: in front of
\* the current token.
commentDecl ==
  <<MayBeNamed, Opt({"about"}, CallsFor("qualifiedNames", "about")), BlockComment,
    Make("comment")>>

dependencyDecl ==
  <<MayBeNamed, Need({"from"})>> \o CallsFor("qualifiedNames", "sources")
  \o <<Need({"to"})>> \o CallsFor("qualifiedNames", "targets") \o <<Semicolon, Make("dependency")>>

performStatement ==
  <<Note("perform"), Opt({"action"}, <<>>),
    If(Identifiers,
       <<Mark, Advance,
         If({"::", "."}, <<While({"::", "."}, <<Advance, Name>>), Keep("specializes")>>,
            <<Keep("name")>>)>>, <<>>),
    Opt({":"}, CallsFor("qualifiedNames", "types"))>>
  \o Calls("parseFeatureRelationships") \o <<Make("action"), bodyOrSemicolon>>

returnStatement ==
  <<Opt({"attribute", "part", "ref"}, <<>>), MayBeNamed,
    Opt({":"}, CallsFor("qualifiedNames", "types")),
    Opt({":>", "specializes"}, CallsFor("qualifiedNames", "specializes")),
    Opt({":>>"}, CallsFor("qualifiedNames", "specializes")), Value({"="}), Semicolon, Make("return")>>

satisfyStatement ==
  CallsFor("dottedReference", "types")
  \o <<Opt({"by"}, End),
       If({"{"}, <<Advance, SkipPast("{", "}")>>, <<Semicolon>>), Make("satisfy")>>

\* No keyword: `ref name ...`, `in name ...`, or a name and a clause; the last
\* keeps none of its modifiers.
bareFeature ==
  <<IfNoted({"ref", "in"}, CallsFor("usage", "reference"),
      <<Mark, Advance, Keep("name"), Forget(Modifiers),
        If(Clauses \cup {"=", "default"},
           Calls("parseFeatureRelationships")
           \o <<Value({"=", "default"}), Make("reference"), bodyOrSemicolon>>,
           <<ErrorHere>>)>>)>>

\* Mistake: the token that begins no declaration is left where it is.
bareFormStays == <<If(Identifiers, bareFeature, <<ErrorHere>>)>>

bareForm == <<If(Identifiers, bareFeature, <<ErrorHere, Advance>>)>>

\* The kinds that take any modifier and go straight to definitionOrUsage().
Kinds == {"part", "interface", "connection", "flow", "end", "enum", "constraint",
          "requirement", "action", "state", "occurrence", "allocation", "message",
          "objective", "analysis"}

\* The rest of declaration(), by its current token, behind the modifiers.
rule(t) ==
  LET bare(rest) == <<Advance, Forbid({"in"} \cup Modifiers)>> \o rest
      variant    == If({"part", "attribute", "action", "state"}, Calls("declaration"),
                       CallsFor("definitionOrUsage", "variant"))
  IN  CASE t \in Kinds      -> <<Advance>> \o CallsFor("definitionOrUsage", t)
        [] t = "package"    -> bare(packageDecl)
        [] t = "import"     -> bare(importDecl)
        [] t = "alias"      -> bare(aliasDecl)
        [] t = "comment"    -> <<Advance, Forbid({"public", "in"} \cup Modifiers)>>
                               \o commentDecl
        [] t = "dependency" -> bare(dependencyDecl)
        [] t = "fork"       -> <<Advance, Forget({"in"} \cup Modifiers), MayBeNamed, Semicolon,
                                 Make("action")>>
        [] t \in {":>", ":>>", "subsets"} -> <<Forbid({"in"})>> \o Calls("attributeDecl")
        [] t = "event"      -> bare(<<If({"occurrence"},
                                         <<Advance>> \o CallsFor("definitionOrUsage", "event"),
                                         CallsFor("dottedReference", "types") \o <<Semicolon, Make("event")>>)>>)
        [] t = "variant"    -> <<Advance, variant>>
        [] t = "include"    -> <<Advance, Opt({"use"}, <<Opt({"case"}, <<>>)>>)>>
                               \o CallsFor("definitionOrUsage", "include")
        [] t = "satisfy"    -> bare(satisfyStatement)
        [] t = "filter"     -> bare(<<SkipTo({";"}), Opt({";"}, <<>>)>>)
        [] t = "use"        -> bare(<<If({"case"}, <<Advance>> \o CallsFor("definitionOrUsage", "use case"),
                                         <<ErrorHere>>)>>)
        [] t = "exhibit"    -> bare(<<If({"state"}, <<Advance>> \o CallsFor("definitionOrUsage", "state"),
                                         <<ErrorHere>>)>>)
        [] t = "transition" -> bare(parseTransitionStmt)
        [] t \in {"entry", "do"} -> bare(parseLifecycleAction(t))
        [] t = "perform"    -> bare(performStatement)
        [] t = "return"     -> bare(returnStatement)
        [] t = "calc"       -> bare(CallsFor("definitionOrUsage", "calc"))
        [] t \in {"succession", "first", "then"} -> bare(parseSuccessionStmt(t))
        [] t \in {"assert", "assume"} ->
             <<Forbid({"in"} \cup Modifiers), Advance>> \o assertedConstraintOrRequirement(t)
        [] t = "subject"    -> bare(subjectStatement)
        [] t = "connect"    -> bare(Calls("parseEndsClause") \o <<Semicolon, Make("connection")>>)
        [] t = "bind"       -> bare(bindStatement)
        [] t = "allocate"   -> bare(allocateStatement)
        [] t = "attribute"  -> <<Advance, Forbid({"in"}),
                                 If({"def"}, CallsFor("definitionOrUsage", "attribute def"),
                                             Calls("attributeDecl"))>>
        [] OTHER            -> bareForm

declaration ==
  LET modifier(t) == Opt({t}, <<Note(t)>>)
  IN  <<Forget({"statement", "public", "in"} \cup Modifiers)>> \o skipMetadataPrefix
      \o <<IfNoted({"statement"}, <<If({"}", "eof"}, <<Return>>, <<>>)>>, <<>>),
           If({"doc", "text"}, docDecl \o <<Return>>, <<>>),
           modifier("public"), modifier("in"), modifier("derived"),
           modifier("abstract"), modifier("constant"), modifier("ref"), Dispatch>>

\* The steps of the function f for k.
called(f, k) ==
  CASE f = "qualifiedName"     -> qualifiedName(k)
    [] f = "qualifiedNames"    -> qualifiedNames(k)
    [] f = "parseFeatureRelationships" -> parseFeatureRelationships
    [] f = "dottedReference"   -> dottedReference(k)
    [] f = "parseEndsClause"   -> parseEndsClause
    [] f = "attributeDecl"     -> attributeDecl
    [] f = "definition"        -> definition(k)
    [] f = "usage"             -> usage(k)
    [] f = "definitionOrUsage" -> definitionOrUsage(k)
    [] f = "parseActionRef"    -> parseActionRef(k)
    [] f = "parseThenTarget"   -> parseThenTarget
    [] f = "declaration"       -> declaration

\* A value of an enumeration: only a wrong first token leads to recovery.
enumerationValue ==
  LET value == <<Value({"="}), Semicolon, Make("enum value")>>
  IN  <<If({"enum"}, <<Advance>> \o value,
           <<If(Identifiers, As("name", <<Advance>>) \o value,
                <<ErrorHere, Advance, Recover>>)>>)>>

----------------------------------------------------------------------------
(***************************************************************************)
(* Taking the steps.                                                       *)
(***************************************************************************)
\* The steps behind the loop that p is in.
RECURSIVE behindLoop(_)
behindLoop(steps) ==
  IF Head(steps).op = "while" THEN Tail(steps) ELSE behindLoop(Tail(steps))

\* What the next step makes of p.
Do(p) ==
  LET step   == Head(p.todo)
      q      == [p EXCEPT !.todo = Tail(@)]
      then(steps) == [q EXCEPT !.todo = steps \o @]
      here   == Tok(p) \in step.of
  IN  CASE step.op = "advance"        -> advance(q)
        [] step.op = "consume"        -> consume(q, step.of)
        [] step.op = "check"          -> then(IF here THEN step.yes ELSE step.no)
        [] step.op = "while"          -> IF here THEN then(step.yes \o <<step>>) ELSE q
        [] step.op = "break"          -> [p EXCEPT !.todo = behindLoop(@)]
        [] step.op = "return"         -> [p EXCEPT !.todo = <<>>]
        [] step.op = "errorAtCurrent" -> errorAt(q, p.at)
        [] step.op = "error"          -> errorAt(q, p.at - 1)
        [] step.op = "note"           -> [q EXCEPT !.noted = @ \cup step.of]
        [] step.op = "forget"         -> [q EXCEPT !.noted = @ \ step.of]
        [] step.op = "noted"          -> then(IF p.noted \cap step.of # {} THEN step.yes
                                                                         ELSE step.no)
        [] step.op = "skip to"        -> skipTo(q, step.of)
        [] step.op = "skip past"      -> skipPast(q, step.of[1], step.of[2])
        [] step.op = "expression"     -> expression(q, step.of)
        [] step.op = "mark"           -> [q EXCEPT !.mark = p.at]
        [] step.op = "keep"           -> kept(q, step.of, nameFrom(p))
        [] step.op = "block comment"  -> IF hasBlockComment(p) THEN q ELSE errorAt(q, p.at)
        [] step.op = "make"           -> made(q, step.of)
        [] step.op = "dispatch"       -> then(rule(Tok(p)))
        [] step.op = "recover"        -> IF p.panic THEN synchronize(q) ELSE q
        [] OTHER                      -> then(called(step.op, step.of))

\* p where it opens a body, or is done.
RECURSIVE Run(_)
Run(p) ==
  IF p.todo = <<>> \/ Head(p.todo).op = "body" THEN p ELSE Run(Do(p))

NoNode == [kind |-> "none", flags |-> {}, has |-> [f \in {} |-> <<>>], bodies |-> <<>>]

\* The parser in the state it is in, at work on a declaration from i on.
Parser(i, node, steps) ==
  [at |-> at, panic |-> panic, errors |-> errors, noted |-> {}, mark |-> 0,
   from |-> i, node |-> node, todo |-> steps]

----------------------------------------------------------------------------
(***************************************************************************)
(* The loops.  A frame is the loop of a body: which one, where the body    *)
(* begins, and the declaration it belongs to with the steps behind the     *)
(* body.                                                                   *)
(***************************************************************************)
Frame(loop, p) ==
  LET before == IF "targets" \in DOMAIN p.node.has THEN Len(p.node.has["targets"]) ELSE 0
      body   == [start |-> p.at, of |-> before]
  IN  [loop |-> loop, start |-> p.at, from |-> p.from,
       node |-> [p.node EXCEPT !.bodies = Append(@, body)], rest |-> Tail(p.todo)]

Top == frames[Len(frames)]

Init ==
  /\ file \in Files
  /\ at = 1 /\ panic = FALSE /\ errors = {}
  /\ frames = <<[loop |-> "program", start |-> 1, from |-> 0, node |-> NoNode, rest |-> <<>>]>>
  /\ members = {}

\* p has gone as far as it can in the innermost of the frames fs: it opens a
\* body, or its node is appended and the loop looks after the panic mode.
Settle(fs, p) ==
  LET loop == fs[Len(fs)]
      q    == IF p.panic /\ loop.loop # "values" THEN synchronize(p) ELSE p
      node == [at |-> p.from, in |-> loop.start, kind |-> p.node.kind, flags |-> p.node.flags,
               has |-> p.node.has, bodies |-> p.node.bodies]
  IN  /\ \/ /\ p.todo # <<>>
            /\ frames' = Append(fs, Frame(Head(p.todo).of, p))
            /\ at' = p.at /\ panic' = p.panic
            /\ UNCHANGED members
         \/ /\ p.todo = <<>>
            /\ frames' = fs
            /\ at' = q.at /\ panic' = q.panic
            /\ members' = members \cup (IF node.kind = "none" THEN {} ELSE {node})
      /\ errors' = p.errors
      /\ UNCHANGED file

Current == IF at < Past THEN tokens[at] ELSE "eof"

\* The loop tests for its end.
InLoop(loop) ==
  /\ frames # <<>> /\ Top.loop = loop
  /\ Current # "eof" /\ (Current = "}" => loop = "program")

Declare ==
  /\ InLoop("program") \/ InLoop("members")
  /\ Settle(frames, Run(Parser(at, NoNode, declaration)))

\* In the body of a constraint these begin a declaration, anything else is
\* the expression.  The loop has no recovery from an error in that.
Parameters == {"in", "public", "attribute", "doc", "text", "comment"} \cup Modifiers

ConstraintParameter ==
  /\ InLoop("constraint") /\ Current \in Parameters
  /\ Settle(frames, Run(Parser(at, NoNode, declaration)))

ConstraintExpression ==
  /\ InLoop("constraint") /\ Current \notin Parameters
  /\ LET again == "body" \in DOMAIN Top.node.has
         steps == (IF again THEN <<ErrorBefore>> ELSE <<>>) \o <<Expression("body")>>
         p     == Run(Parser(at, Top.node, steps))
     IN  /\ at' = p.at /\ panic' = p.panic /\ errors' = p.errors
         /\ frames' = [frames EXCEPT ![Len(frames)].node = p.node]
  /\ UNCHANGED <<file, members>>

EnumValue ==
  /\ InLoop("values")
  /\ Settle(frames, Run(Parser(at, NoNode, enumerationValue)))

\* Mistake: the end of the file closes all bodies.
CloseAnyway ==
  /\ Len(frames) > 1 /\ Current \in {"}", "eof"}
  /\ LET steps == <<Opt({"}"}, <<>>)>> \o Top.rest
     IN  Settle(Front(frames), Run(Parser(Top.from, Top.node, steps)))

\* The brace behind the loop, and what follows it in the declaration.
Close ==
  /\ Len(frames) > 1 /\ Current \in {"}", "eof"}
  /\ LET steps == <<Need({"}"})>> \o Top.rest
     IN  Settle(Front(frames), Run(Parser(Top.from, Top.node, steps)))

\* parse() returns; the file is refused if an error was reported.
Returns ==
  /\ Len(frames) = 1 /\ Current = "eof"
  /\ frames' = <<>>
  /\ UNCHANGED <<file, at, panic, errors, members>>

Done == frames = <<>>

Next == \/ Declare \/ ConstraintParameter \/ ConstraintExpression \/ EnumValue
        \/ Close \/ Returns

----------------------------------------------------------------------------
(***************************************************************************)
(* What the parser promises.                                               *)
(***************************************************************************)
Accepted == Done /\ errors = {}

Depth(i) == Count(1, i - 1, "{") - Count(1, i - 1, "}")

Balanced == Depth(Past) = 0 /\ \A i \in 1 .. Past : Depth(i) >= 0

\* Where the text between the innermost braces around position i begins.
BlockAt(i) ==
  Max({1} \cup {j + 1 : j \in {b \in 1 .. i - 1 :
         tokens[b] = "{" /\ \A k \in b + 1 .. i : Depth(k) > Depth(b)}})

\* Clauses that the parser passes over token by token, braces included.
Skipped == {"accept", "send", "parallel", "filter", "about"}

\* What begins a statement with a block that is skipped as a whole.
WithBlocks == {"@", "attribute", "allocate", "satisfy", "entry", "do"}

\* What is left to do: every turn of every loop either takes a token or leaves a
\* body, and opens one body at most.
Left == 2 * (Past - at) + Len(frames)

\* In a file that is accepted braces balance, and every declaration has been
\* appended to the one whose braces are around it, through all the ways a body
\* is opened and closed.  (Not if the file has a clause of the form `accept
\* ... ;`, which is skipped up to the next semicolon, out of the body if there
\* is none in it.  And blocks that are skipped as a whole may end with the
\* file, see skipBracedBlock(); then braces are missing.)
PlacedByBraces ==
  Accepted /\ Range(tokens) \cap Skipped = {} =>
    /\ \A i \in 1 .. Past : Depth(i) >= 0
    /\ Depth(Past) = 0 \/ Range(tokens) \cap WithBlocks # {}
    /\ \A m \in members : m.in = BlockAt(m.at)

\* The grammar of parts, as the comments above definition() and usage() have
\* it, over a few tokens: i .. j is a list of declarations, is one, is what may
\* follow the head of one.
PartTokens == {"part", "def", "id", ":", ";", "{", "}"}

RECURSIVE AreParts(_, _), IsPart(_, _), IsTail(_, _)
AreParts(i, j) ==
  i > j \/ \E k \in i .. j : IsPart(i, k) /\ AreParts(k + 1, j)

IsTail(i, j) == \/ i = j /\ tokens[i] = ";"
                \/ i < j /\ tokens[i] = "{" /\ tokens[j] = "}" /\ AreParts(i + 1, j - 1)

IsPart(i, j) ==
  \E k \in i .. j - 1 :
    /\ SubSeq(tokens, i, k) \in
         {<<"part", "id">>, <<"part", "id", ":", "id">>, <<"part", ":", "id">>,
          <<"part", "def", "id">>, <<"part", "def", "id", ":", "id">>, <<"id", ":", "id">>}
    /\ IsTail(k + 1, j)

\* The parser accepts the files of this grammar and no others, whatever it
\* does after an error: no error is lost in panic mode.
AcceptsTheGrammar ==
  Done /\ Range(tokens) \subseteq PartTokens =>
    (errors = {} <=> AreParts(1, Len(tokens)))

----------------------------------------------------------------------------
(***************************************************************************)
(* How far an error reaches.  A file is orderly if its statements are      *)
(* right, or what stands before their braces is, or they have no braces,   *)
(* need none, close their brackets, have no keyword behind the first       *)
(* token, and are no comments with a body.                                 *)
(***************************************************************************)
EndOf(i) ==
  LET leaves == {e \in i .. Past - 1 : SubSeq(tokens, i, e) \in Leaves}
      ends   == {e \in i .. Past - 1 : \/ tokens[e] = ";" /\ Depth(e) = Depth(i)
                                       \/ tokens[e] = "}" /\ Depth(e + 1) = Depth(i)}
  IN  IF leaves # {} THEN Max(leaves) ELSE IF ends # {} THEN Min(ends) ELSE 0

HeadOf(i, e) == {h \in i .. e : SubSeq(tokens, i, h) \in Heads}

\* What a declaration may begin with, if it can do without a brace.
Openers == (Landmarks \ {"package", "}"}) \cup Identifiers
           \cup {"public", "in", "analysis", "#", ":>", ":>>", "subsets"}

IsBroken(i, e) ==
  /\ tokens[i] \in Openers /\ tokens[e] = ";"
  /\ tokens[i] = "comment" => file.notes = {}
  /\ \A k \in i + 1 .. e :
       /\ tokens[k] \notin Landmarks \cup {"def", "text", "{"}
       /\ tokens[k] = "[" => Count(k, e, "[") <= Count(k, e, "]")

\* The statements from i to j, each with its first and last token, the block
\* it is in, and what can be said of it.
RECURSIVE Statements(_, _)
Statements(i, j) ==
  LET e    == EndOf(i)
      is   == IF e = 0 \/ e > j THEN "unknown"
              ELSE IF SubSeq(tokens, i, e) \in Leaves THEN "right"
              ELSE IF HeadOf(i, e) # {} /\ tokens[e] = "}" THEN "head"
              ELSE IF IsBroken(i, e) THEN "broken" ELSE "unknown"
      this == [at |-> i, end |-> e, in |-> BlockAt(i), is |-> is]
  IN  IF i > j THEN {}
      ELSE {this} \cup (IF is = "unknown" THEN {} ELSE Statements(e + 1, j))
                  \cup (IF is = "head" THEN Statements(Max(HeadOf(i, e)) + 1, e - 1) ELSE {})

Orderly(statements) == Balanced /\ \A st \in statements : st.is # "unknown"

ErrorsIn(st) == errors \cap (st.at .. st.end)

\* An error stays in its statement: in an orderly file every statement that is
\* right is read, into the block it stands in, and errors are reported in
\* others only.  What synchronize() skips, and where it stops, is just the
\* rest of the statement.
ErrorsAreContained ==
  Done => LET sts == Statements(1, Past - 1)
          IN  Orderly(sts) =>
                /\ \A st \in sts : st.is \in {"right", "head"} =>
                     \E m \in members : m.at = st.at /\ m.in = st.in
                /\ \A i \in errors : \E st \in sts : st.is = "broken" /\ i \in st.at .. st.end

\* Every statement is judged as if it stood alone: in an orderly file an error
\* is reported in it if and only if the parser, put in front of it with no
\* error behind, reports one.  No error hides a later one, in panic mode or
\* by what is skipped.
JudgedAlone ==
  Done => LET sts == Statements(1, Past - 1)
              Fresh(i) == Run([Parser(i, NoNode, declaration) EXCEPT
                                 !.at = i, !.panic = FALSE, !.errors = {}])
          IN  Orderly(sts) =>
                \A st \in sts : st.is # "head" =>
                  (ErrorsIn(st) # {} <=> Fresh(st.at).errors # {})

\* What may stand between "comment" and its body.
IsHeader(s) ==
  LET list == IF s # <<>> /\ s[1] \in Identifiers THEN Tail(s) ELSE s
  IN  \/ list = <<>>
      \/ /\ list[1] = "about" /\ Len(list) % 2 = 0
         /\ \A j \in 2 .. Len(list) :
              list[j] \in IF j % 2 = 0 THEN Identifiers ELSE {",", "::", "."}

\* A comment takes the block comment that stands behind its header, whatever
\* statement follows, and is refused if none stands behind "comment": it never
\* takes one that stands in front of that (parser_decl.c:1164-1172).  Of one
\* inside the header nothing is said.
CommentsTakeTheirBody ==
  Done => \A i \in DOMAIN tokens : tokens[i] = "comment" =>
    LET behind == Max({k \in i + 1 .. Past : IsHeader(SubSeq(tokens, i + 1, k - 1))})
    IN  /\ (/\ behind \in file.notes
            /\ SubSeq(tokens, behind, Past - 1) \in Leaves \cup {<<>>}) => behind \notin errors
        /\ file.notes \cap (i + 1 .. behind) = {} => \E e \in errors : e <= behind
=============================================================================
