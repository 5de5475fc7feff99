------------------------------ MODULE RoundTrip ------------------------------
(***************************************************************************)
(* A file is parsed, its tree is printed by --emit-sysml, and what is      *)
(* printed is parsed again: the declaration parser and the printer put     *)
(* together.  The name resolver and the checkers of the real pipeline,     *)
(* between the two, leave what the printer reads alone.                    *)
(***************************************************************************)
EXTENDS Declarations, SysmlPrinter, JsonPrinter

VARIABLES
  stage,     \* "first" until the tree is printed, "second" behind
  program    \* the tree that is printed

all == <<vars, stage, program>>

----------------------------------------------------------------------------
\* The members of a body, in their order.
RECURSIVE treesIn(_)
treesIn(start) ==
  LET own  == {m \in members : m.in = start}
      tree(m) ==
        LET bodies(j) == SelectSeq(m.bodies, LAMBDA b : b.of = j)
            \* a body of the node itself, or of its j-th target
            inside(j) == FoldLeft(LAMBDA nodes, b : nodes \o treesIn(b.start), <<>>, bodies(j))
        IN  [kind |-> m.kind, flags |-> m.flags, has |-> m.has,
             inner |-> [j \in 1 .. 1 + Len(Field(m, "targets")) |-> inside(j - 1)]]
      in_order == SetToSortSeq(own, LAMBDA m, n : m.at < n.at)
  IN  [i \in DOMAIN in_order |-> tree(in_order[i])]

\* The scanner drops a block comment, and remembers where it was.
Rescanned(text) ==
  LET isToken(i) == text[i] # "comment body"
      before(i)  == Cardinality({j \in 1 .. i : isToken(j)})
  IN  [tokens |-> SelectSeq(text, LAMBDA t : t # "comment body"),
       notes  |-> {before(i) + 1 : i \in {j \in DOMAIN text : ~isToken(j)}}]

RoundTripInit == Init /\ stage = "first" /\ program = <<>>

Parse == Next /\ UNCHANGED <<stage, program>>

EmitSysml ==
  /\ stage = "first" /\ Accepted
  /\ stage' = "second"
  /\ program' = treesIn(1)
  /\ file' = Rescanned(emitSysml(program'))
  /\ at' = 1 /\ panic' = FALSE /\ errors' = {} /\ members' = {}
  /\ frames' = <<[loop |-> "program", start |-> 1, from |-> 0, node |-> NoNode, rest |-> <<>>]>>

Stays == Done /\ (stage = "second" \/ ~Accepted) /\ UNCHANGED all

RoundTripNext == Parse \/ EmitSysml \/ Stays

RoundTripSpec == RoundTripInit /\ [][RoundTripNext]_all

\* The parser ends, whatever the text, also after an error.  (A step is always
\* possible until it is done: there is no deadlock.)
Progress == [][stage' = stage => Left' < Left]_all

----------------------------------------------------------------------------
(***************************************************************************)
(* The trees that the printer has no text for.                             *)
(***************************************************************************)
RECURSIVE NodesOf(_)
NodesOf(nodes) ==
  UNION {{nodes[i]} \cup UNION {NodesOf(nodes[i].inner[j]) : j \in DOMAIN nodes[i].inner} :
         i \in DOMAIN nodes}

Expressions == {"value", "body", "guard"}

\* A name that is a keyword is written without its quotes; some trees are
\* written without the parentheses that they need.
Unquoted(n) ==
  \E f \in DOMAIN n.has : \E i \in DOMAIN n.has[f] :
    LET x == n.has[f][i]
    IN  IF f \in Expressions THEN Ambiguous(x) \/ Misspelt(x)
        ELSE \E j \in DOMAIN x : x[j] = "'or'"

\* The ends of an allocation are written behind `connect`; and a flow or
\* message of one end as if it had two.
EndsOfNoForm(n) ==
  LET ends == Field(n, "ends")
  IN  \/ n.kind = "allocation" /\ ends # <<>>
      \/ n.kind \in {"flow", "message"} /\ Len(ends) = 1

\* `fork;` is written `action;`, which needs a name.
Nameless(n) ==
  /\ n.kind = "action" /\ n.flags \cap {"def", "perform"} = {}
  /\ DOMAIN n.has \cap {"name", "types", "specializes", "redefines", "multiplicity", "value"} = {}

\* A name with `then` behind it is taken for the state that is left.
MistakenForFirst(n) ==
  n.kind = "transition" /\ Has1(n, "name")
  /\ DOMAIN n.has \cap {"first", "accept", "guard", "effect"} = {}

\* These forms are written without the visibility.
Hidden(n) == n.kind \in {"bind", "allocate", "satisfy"} /\ n.flags # {}

\* What follows a comment of no name is taken for its name.
NamedByTheNext(text) ==
  \E i \in 1 .. Len(text) - 2 :
    text[i] = "comment" /\ text[i + 1] = "comment body" /\ text[i + 2] \in Identifiers

Gap ==
  \/ \E n \in NodesOf(program) : \/ Unquoted(n) \/ EndsOfNoForm(n) \/ Nameless(n)
                                 \/ MistakenForFirst(n) \/ Hidden(n)
  \/ NamedByTheNext(emitSysml(program))

\* What is printed is read back as the tree it was printed for, if and only if
\* the tree has none of the forms above: whatever else the file is made of, the
\* printer writes all that the parser keeps, in an order the parser takes.
RoundTrips ==
  stage = "second" /\ Done => (errors = {} /\ treesIn(1) = program <=> ~Gap)

\* codegen_sysml.h:3-6, "The output is parseable and, when re-parsed, produces an
\* AST structurally equivalent to the input": without exception.
AstSurvives ==
  stage = "second" /\ Done => errors = {} /\ treesIn(1) = program

\* The parser passes over what is behind these, to the end of the clause.
PassedOver == {"<", "#", "@", "accept", "send", "parallel", "filter"}

StatementOf(i) == Max({1} \cup {k + 1 : k \in {j \in 1 .. i - 1 : tokens[j] \in {";", "{", "}"}}})

\* Names that have no place in the tree: in a block that is skipped, or in
\* brackets; those that an end or a reference redefines, or that a definition has
\* as types; and the name of what a message carries, if it has a type.
InBlock(i) ==
  \E k \in 1 .. i - 1 :
    LET opening == Min({j \in StatementOf(k) .. k :
                          tokens[j] \notin Modifiers \cup {"public", "in", "variant"}})
        head    == SubSeq(tokens, StatementOf(k), k)
    IN  /\ tokens[k] = "{" /\ \A j \in k + 1 .. i : Depth(j) > Depth(k)
        /\ \/ Range(head) \cap {"satisfy", "entry", "do"} # {}
           \/ Contains(head, "allocate") /\ ~Contains(head, "allocation")
           \/ Contains(head, "attribute") /\ ~Contains(head, "def")
           \/ tokens[opening] \in {":>", ":>>", "subsets"}

InBrackets(i) == Count(1, i, "[") > Count(1, i, "]")

OpensReference(j) ==
  \/ tokens[j] \in {"connect", "from", "to", "bind", "allocate", "by", "satisfy", "first", "then",
                    "entry", "do"}
  \/ tokens[j] = "flow" /\ tokens[j + 1] = "["
  \/ tokens[j] = "event" /\ tokens[j + 1] # "occurrence"

InClause(i) ==
  \E k \in StatementOf(i) .. i - 1 :
    /\ \A l \in k + 1 .. i : tokens[l] \in Identifiers \cup {"::", ".", ",", "~"}
    /\ \E j \in StatementOf(i) .. k :
         \/ OpensReference(j) /\ tokens[k] \in Specializes \cup {":>>"}
         \/ tokens[j] = "def" /\ tokens[k] = ":"

Lost(i) == \/ InBlock(i) \/ InBrackets(i) \/ InClause(i)
           \/ i \in 2 .. Past - 2 /\ tokens[i - 1] = "of" /\ tokens[i + 1] = ":"

NamesIn(text, counted) ==
  Cardinality({i \in counted : text[i] \in {"id", "or", "'or'"}})

\* No name is lost but those: every other name in the file has its place in the
\* print of its tree.
NamesSurvive ==
  stage = "first" /\ Accepted /\ Range(tokens) \cap PassedOver = {} =>
     LET print == emitSysml(treesIn(1))
     IN  NamesIn(print, DOMAIN print) = NamesIn(tokens, {i \in DOMAIN tokens : ~Lost(i)})

----------------------------------------------------------------------------
(***************************************************************************)
(* The dumps of the tree, as JSON and as lines.                            *)
(***************************************************************************)
\* Where the value that begins at i ends, the fields of an object from i on, and
\* the items of an array; 0 if there is none.
RECURSIVE AfterValue(_, _), AfterFields(_, _, _), AfterItems(_, _)
At1(text, i) == IF i \in DOMAIN text THEN text[i] ELSE "eof"

AfterValue(text, i) ==
  CASE At1(text, i) = "quote" -> i + 2
    [] At1(text, i) = "{"     -> IF At1(text, i + 1) = "}" THEN i + 2 ELSE AfterFields(text, i + 1, {})
    [] At1(text, i) = "["     -> IF At1(text, i + 1) = "]" THEN i + 2 ELSE AfterItems(text, i + 1)
    [] At1(text, i) \in {"null", "true", "false", "1"} -> i + 1
    [] OTHER -> 0

AfterFields(text, i, keys) ==
  LET e == AfterValue(text, i + 3)
  IN  CASE \/ At1(text, i) # "quote" \/ At1(text, i + 2) # ":" \/ text[i + 1] \in keys -> 0
        [] At1(text, e) = "," -> AfterFields(text, e + 1, keys \cup {text[i + 1]})
        [] At1(text, e) = "}" -> e + 1
        [] OTHER -> 0

AfterItems(text, i) ==
  LET e == AfterValue(text, i)
  IN  CASE At1(text, e) = "," -> AfterItems(text, e + 1)
        [] At1(text, e) = "]" -> e + 1
        [] OTHER -> 0

Dump == INSTANCE TreePrinter

\* n with a flag less, another name or expression in one of its fields, a member
\* less, of its own or of an action in it, or another value of an enumeration; or
\* a plain connection for a binding or an allocation.
RECURSIVE Others(_)
Others(n) ==
  LET other(f) == IF f \in Expressions THEN Dummy ELSE <<"other">>
  IN  {[n EXCEPT !.flags = @ \ {flag}] : flag \in n.flags}
      \cup {[n EXCEPT !.kind = "connection"] : kind \in {"bind", "allocate"} \cap {n.kind}}
      \cup {[n EXCEPT !.has[f][i] = other(f)] :
             <<f, i>> \in UNION {{f} \X DOMAIN n.has[f] : f \in DOMAIN n.has}}
      \cup {[n EXCEPT !.inner[j] = RemoveAt(@, i)] :
             <<j, i>> \in UNION {{j} \X DOMAIN n.inner[j] : j \in DOMAIN n.inner}}
      \cup UNION {{[n EXCEPT !.inner[1][i] = value] : value \in Others(n.inner[1][i])} :
                  i \in {k \in DOMAIN n.inner[1] : n.inner[1][k].kind = "enum value"}}

\* Everything that the parser keeps shows in both dumps, of JSON and of lines: a
\* tree that differs in one thing has other ones.  (But for the visibility of an
\* alias, which is left out, and what tells a binding or an allocation from a
\* connection, which JSON alone has.)  And that of JSON is one value of JSON, with
\* no two fields of one name in an object, whatever the file is made of.
DumpsTellAll ==
  stage = "first" /\ Accepted =>
    /\ LET text == emitJson(treesIn(1)) IN AfterValue(text, 1) = Len(text) + 1
    /\ \A n \in NodesOf(treesIn(1)) : n.kind \notin {"alias", "enum value"} =>
         \A other \in Others(n) : /\ jsonNode(other) # jsonNode(n)
                                  /\ Dump!astPrint(<<other>>) # Dump!astPrint(<<n>>)
                                     <=> other.kind = n.kind
=============================================================================
