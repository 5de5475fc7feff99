------------------------------ MODULE Pipeline ------------------------------
(***************************************************************************)
(* The compiler from the parsed tree to the back-end: main() (src/main.c)  *)
(* with its five passes filled in.  Each pass is a walk with its own calls *)
(* and its own diagnostics; what they share is the tree and what the       *)
(* earlier ones wrote into it: bindings, parities, reference flags.        *)
(***************************************************************************)
EXTENDS Builtin

CONSTANTS
  Programs,    \* the trees the parser may hand over
  Commands     \* the command lines

\* The parser hands over well-formed trees, with the library in its place.
ASSUME ProgramsAssumption == \A t \in Programs : IsAst(t) /\ HasLibrary(t)

VARIABLES
  command, stage, clean, output, code,            \* see Driver
  ast, resolved, parity, errors, scopes, todo,    \* see Resolver
  reference                                       \* see ReferentialChecker

D == INSTANCE Driver
R == INSTANCE Resolver
T == INSTANCE TypeChecker
F == INSTANCE RedefChecker
C == INSTANCE ConnectChecker
P == INSTANCE ReferentialChecker

\* The flags stand for nothing else, as in module Driver.
ASSUME CommandsAssumption == Commands \subseteq D!Command

driver == <<command, stage, clean, output, code>>
vars   == <<driver, ast, resolved, parity, errors, scopes, todo, reference>>

Nodes == DOMAIN ast

----------------------------------------------------------------------------
Init == /\ D!Init
        /\ ast \in Programs
        /\ resolved = [n \in Nodes |-> ast[n].given]
        /\ parity = [n \in Nodes |-> FALSE]
        /\ reference = [n \in Nodes |-> ast[n].ref]
        /\ errors = {}
        /\ scopes = <<>>
        /\ todo = <<>>

\* The five entry points forget the diagnostics of the pass before and start
\* their walk: the resolver with its root scope and the members of the
\* program, the others with the program node.
Begin(pass) ==
  /\ errors' = {}
  /\ IF pass = "resolve"
     THEN /\ scopes' = <<R!RootScope>>
          /\ todo' = R!RootCalls
     ELSE /\ scopes' = <<>>
          /\ todo' = IF pass \in D!Passes THEN <<R!Do(pass, Root)>> ELSE <<>>

\* The calls of the running pass.  Each changes what it is there to fill in.
ResolveStep ==
  /\ stage = "resolve"
  /\ R!Step
  /\ UNCHANGED <<driver, reference>>

TypesStep ==
  /\ stage = "types"
  /\ \E n \in R!Current : T!CheckTypes(n)
  /\ UNCHANGED <<driver, ast, resolved, parity, scopes, reference>>

RedefinitionsStep ==
  /\ stage = "redefinitions"
  /\ \E n \in R!Current : F!CheckRedefinitions(n)
  /\ UNCHANGED <<driver, ast, parity, scopes, reference>>

ConnectionsStep ==
  /\ stage = "connections"
  /\ \E n \in R!Current : C!CheckConnection(n)
  /\ UNCHANGED <<driver, ast, resolved, parity, scopes, reference>>

ReferencesStep ==
  /\ stage = "references"
  /\ \E n \in R!Current : P!InferReference(n)
  /\ UNCHANGED <<driver, ast, resolved, parity, scopes>>

\* The parser is done, or a pass returns true: the next pass begins.
PassEnds ==
  /\ \/ D!Parsed
     \/ D!PassEnds /\ todo = <<>> /\ errors = {}
  /\ Begin(stage')
  /\ UNCHANGED <<ast, resolved, parity, reference>>

\* Mistake: a pass that failed is followed by the next one all the same.
PassFailsIgnored ==
  /\ stage \in D!Passes
  /\ todo = <<>>
  /\ errors # {}
  /\ D!Advance(stage)
  /\ Begin(stage')
  /\ UNCHANGED <<clean, ast, resolved, parity, reference>>

\* A pass returns false: its errors are the last thing anyone sees.
PassFails ==
  /\ D!PassFails
  /\ todo = <<>>
  /\ errors # {}
  /\ UNCHANGED <<ast, resolved, parity, errors, scopes, todo, reference>>

\* What main() does around the passes.
Around ==
  /\ \/ D!Read
     \/ D!ReadFails
     \/ D!DumpTokens
     \/ D!ParseFails
     \/ D!Emit
     \/ D!Exited
  /\ UNCHANGED <<ast, resolved, parity, errors, scopes, todo, reference>>

Next == \/ ResolveStep
        \/ TypesStep
        \/ RedefinitionsStep
        \/ ConnectionsStep
        \/ ReferencesStep
        \/ PassEnds
        \/ PassFails
        \/ Around

\* One thread, which waits for nothing.
Spec == Init /\ [][Next]_vars /\ WF_vars(Next)

\* The compiler is a driver in the sense of module Driver: with the walks
\* filled in it still only takes the driver's steps, and it takes them to
\* the end, because every walk ends.
ImplementsDriver == D!Spec

----------------------------------------------------------------------------
(***************************************************************************)
(* The finished tree, without walks or scopes.                             *)
(***************************************************************************)
\* Everything in S or above it, when up[m] is what is directly above m.
Above(S, up) ==
  LET closure[U \in SUBSET Nodes] ==
        LET more == U \cup UNION {up[m] : m \in U}
        IN  IF more = U THEN U ELSE closure[more]
  IN  closure[S]

\* The part of the tree the checkers walk: members of members, not the inline
\* actions of a succession.
Members == [n \in Nodes |-> Range(ast[n].members)]

Walked == Above({Root}, Members)

Known(refs) == {resolved[r] : r \in Range(refs)} \ {NoNode}

Supertypes == [t \in Nodes |-> IF ast[t].kind = "definition"
                               THEN Known(ast[t].specializes) ELSE {}]

Redefines == [a \in Nodes |-> Known(ast[a].redefines)]

IsSubtype(a, b) == a # NoNode /\ b \in Above({a}, Supertypes)

\* The type a feature has, its own or the one it takes from what it redefines.
TypesOf(a) ==
  LET typed == [b \in Nodes |-> IF ast[b].types = <<>> THEN Redefines[b] ELSE {}]
  IN  UNION {Known(ast[b].types) : b \in Above({a}, typed)}

\* A walk of this pass is over.
EndOf(pass) == stage = pass /\ todo = <<>>

Accepted(pass) == EndOf(pass) /\ errors = {}

\* The attributes a walk of the redefinition checker looks at.
Redefining ==
  UNION {{a \in Range(ast[p].members) : /\ ast[a].kind = "attribute"
                                        /\ ast[a].redefines # <<>>} :
         p \in {q \in Walked : ast[q].kind \in {"definition", "usage"}}}

----------------------------------------------------------------------------
(***************************************************************************)
(* Connections.                                                            *)
(***************************************************************************)
\* What comes out of the port that r names, in the frame of whoever wrote r:
\* its direction, turned around once for every conjugated type r leads
\* through.
Carried(r) == IF R!PathParity(r, R!FinalPath(r))
              THEN C!flipDirection(ast[resolved[r]].dir)
              ELSE ast[resolved[r]].dir

\* A name whose meaning the finished tree tells: no alias, no import on the
\* way.
PlainPath(r) ==
  LET path == R!FinalPath(r)
  IN  /\ \A i \in DOMAIN path : path[i] # NoNode
      /\ \A i \in DOMAIN path : ast[path[i]].kind # "alias"

\* What stands in an inline action of a succession, `then action a { .. }`.
InInlineActions ==
  Above(UNION {Range(ast[n].targets) : n \in Nodes}, Members)

\* The usages of the program whose ends are to be ports.
Connecting == {n \in Nodes : /\ ast[n].kind = "usage" /\ ~ C!SkipsPortCheck(n)
                             /\ Root \in Lineage(ast, n)}

\* An end of u that is bound to something else has been reported.
EndsReported(u) ==
  \A r \in Range(ast[u].ends) :
    (resolved[r] # NoNode /\ ~ C!isPortLike(resolved[r])) =>
      <<"end is not a port", r>> \in errors

\* No connection escapes the walk for ports, however deep it stands and
\* whatever stands around it (connectchecker.c:178-220).  This is said of all
\* but those in the inline actions of successions; of these see EndsArePorts.
WalkedEndsArePorts ==
  EndOf("connections") =>
    \A u \in Connecting \ InInlineActions : EndsReported(u)

\* The ends of flows: a usage and the number of one of its ends.
FlowEnds == {e \in Walked \X {1, 2} :
               /\ ast[e[1]].kind = "usage"
               /\ ast[e[1]].what \in {"flow", "message"}
               /\ e[2] \in DOMAIN ast[e[1]].ends
               /\ PlainPath(ast[e[1]].ends[e[2]])}

\* Every accepted flow runs from where something comes out to where
\* something goes in, whatever conjugations its ends lead through: the
\* parity the resolver left in a name is the one its finished path has
\* (resolver.c parity, connectchecker.c:158-174).
FlowsAreDirected ==
  Accepted("connections") =>
    \A e \in FlowEnds :
      LET r == ast[e[1]].ends[e[2]]
      IN  (resolved[r] # NoNode /\ C!IsPortUsage(resolved[r])) =>
             Carried(r) \in {"inout", IF e[2] = 1 THEN "out" ELSE "in"}

----------------------------------------------------------------------------
(***************************************************************************)
(* Redefinitions.                                                          *)
(***************************************************************************)
\* Nothing that a constant is redefined into, in any number of steps, can be
\* written again (redefchecker.c:256-270).  The steps are those of attributes of
\* types and usages; what a package redefines, nobody looks at.
ConstantsStayConstant ==
  Accepted("redefinitions") =>
    LET redefining == Redefining
        up == [b \in Nodes |-> IF b \in redefining THEN Redefines[b] ELSE {}]
    IN  \A a \in redefining :
          (\E b \in Above({a}, up) : ast[b].const) => ast[a].const

\* What a declaration inherits from, or an alias stands for, directly and in
\* the end.
Parents == [t \in Nodes |-> Known(IF ast[t].kind = "alias" THEN ast[t].links
                                  ELSE Ancestors(ast, t))]
Inherited(t) == Above(Parents[t], Parents)

\* The declarations of S, and above them, that have an x of their own which no
\* other one in between hides.
Declaring(S, x) ==
  LET has(t) == \E m \in Range(ast[t].members) : nodeName(ast, m) = x
      up     == [t \in Nodes |-> IF has(t) THEN {} ELSE Parents[t]]
  IN  {d \in Above(S, up) : has(d)}

\* A redefinition that is not refused leads to a feature of the same name of a
\* declaration above its owner, never to itself or a sibling, unless the owner is
\* its own supertype.
LeadsToInherited ==
  EndOf("redefinitions") =>
    \A a \in Redefining : \A r \in Range(ast[a].redefines) :
      <<"nothing to redefine", r>> \notin errors =>
        /\ resolved[r] # NoNode
        /\ nodeName(ast, resolved[r]) = Last(ast[r].parts)
        /\ Owner(ast, resolved[r]) \in Inherited(Owner(ast, a))

\* Q::x is refused exactly if Q is not above the owner, at any height, or has
\* another x than the one that is meant; this is said where only one can be meant.
QualifiersSelect ==
  EndOf("redefinitions") =>
    \A a \in Redefining : \A r \in Range(ast[a].redefines) :
      LET x     == Last(ast[r].parts)
          meant == Declaring(Parents[Owner(ast, a)], x)
      IN  (Len(ast[r].parts) = 2 /\ Cardinality(meant) = 1) =>
            (<<"nothing to redefine", r>> \notin errors
               <=> \E t \in Inherited(Owner(ast, a)) :
                     /\ ast[t].name = Head(ast[r].parts)
                     /\ Declaring({t}, x) = meant)

\* Redefinitions mean what is inherited (redefchecker.h:5-10,
\* redefchecker.c:124-177, 204-214).
RedefinitionsLeadUp == LeadsToInherited /\ QualifiersSelect

\* What is redefined by a typed feature with one step in between narrows as
\* well when all the features on the way have types of their own.
TypedChainsNarrow ==
  Accepted("redefinitions") =>
    LET redefining == Redefining
        typed == [b \in Nodes |->
                    IF b \in redefining
                       /\ \A r \in Range(ast[b].redefines) :
                            Len(ast[r].parts) <= 2
                    THEN {c \in Redefines[b] : F!declaredType(c) # NoNode}
                    ELSE {}]
    IN  \A a \in redefining :
          F!declaredType(a) # NoNode =>
            \A b \in Above({a}, typed) :
              IsSubtype(F!declaredType(a), F!declaredType(b))

----------------------------------------------------------------------------
(***************************************************************************)
(* Types.                                                                  *)
(***************************************************************************)
\* The depth bound of the specialization test is no bound for a program with so
\* few definitions.
FewDefinitions == Cardinality({n \in Nodes : ast[n].kind = "definition"}) <= MaxDepth + 1

\* The specialization test, with its depth bound, is reachability over the
\* bound supertypes, also when they go round in circles (typechecker.c:80-95),
\* in every program that has no more definitions than a path of MaxDepth steps.
SpecializesIsReachability ==
  LET definitions == {n \in Nodes : ast[n].kind = "definition"}
  IN  (stage = "types" /\ todo # <<>> /\ Head(todo).node = Root /\ FewDefinitions) =>
        \A a, b \in definitions : T!specializesType(a, b) <=> IsSubtype(a, b)

\* What a value of type t is.
KindOf(t) == CASE t = NoNode                     -> "any"
               [] IsSubtype(t, builtinNumber)  -> "number"
               [] IsSubtype(t, builtinBoolean) -> "boolean"
               [] IsSubtype(t, builtinString)  -> "string"
               [] OTHER                        -> "other"

\* A value of kind k may be one of kind l: some type of one of the kinds has a
\* subtype of the other.
Meets(k, l) == \/ k = l
               \/ \E t, s \in Nodes : /\ {KindOf(t), KindOf(s)} = {k, l}
                                      /\ IsSubtype(t, s)

\* The operators the checker gives a type to.
Operators == T!Arithmetic \cup T!Comparison \cup T!Equality \cup T!Logical \cup {"!"}

\* The kind an operator gives, "stuck" when an operand is not what it takes.
\* The others, such as xor, may take and give anything.
Applied(op, ks) ==
  LET Takes(k) == Range(ks) \subseteq {k, "any"}
  IN  CASE op \in T!Arithmetic /\ Takes("number") ->
             (IF "any" \in Range(ks) THEN "any" ELSE "number")
        [] op \in T!Comparison /\ Takes("number") -> "boolean"
        [] op \in T!Logical \cup {"!"} /\ Takes("boolean") -> "boolean"
        [] op \in T!Equality /\ "stuck" \notin Range(ks)
             /\ ("any" \in Range(ks) \/ Meets(ks[1], ks[2])) -> "boolean"
        [] op \notin Operators /\ "stuck" \notin Range(ks) -> "any"
        [] OTHER -> "stuck"

\* The kind of value an expression evaluates to when every feature has a
\* value of its declared type, from the kinds of its operands.
ValueFrom(e, ks) ==
  CASE ast[e].kind = "literal" -> KindOf(T!literalType(e))
    [] ast[e].kind = "qname"   -> KindOf(T!identifierType(e))
    [] ast[e].kind \in {"binary", "unary"} -> Applied(ast[e].what, ks)
    [] OTHER -> "any"

ValueOf(expr) ==
  LET val[e \in Nodes] ==
        ValueFrom(e, [i \in DOMAIN ast[e].args |-> val[ast[e].args[i]]])
  IN  val[expr]

Operands == [m \in Nodes |-> Range(ast[m].args)]

Subexpressions(e) == Above({e}, Operands)

\* The attributes of the program with a value that is more than a tag.
Valued == {a \in Nodes : /\ ast[a].kind = "attribute"
                         /\ Root \in Lineage(ast, a)
                         /\ ast[a].value # <<>>
                         /\ ~ T!IsEnum(Owner(ast, a))}

\* No type has values of two kinds.
KindsAreApart ==
  \A t \in Nodes : \A a, b \in {builtinNumber, builtinBoolean, builtinString} :
    (IsSubtype(t, a) /\ IsSubtype(t, b)) => a = b

\* The checker and evaluation agree: an expression without complaints never
\* gets stuck and gives a value that the declared type may have, and one with
\* complaints about its operands would get stuck, unless it compares features of
\* unrelated types (typechecker.c:167-258, 327-388).
TypingIsSound ==
  (EndOf("types") /\ FewDefinitions /\ KindsAreApart) =>
    \A a \in Valued :
      LET e     == ast[a].value[1]
          wrong == {n \in Subexpressions(e) : <<"operand type", n>> \in errors}
          d     == KindOf(C!declaredType(a))
      IN  /\ wrong = {} => ValueOf(e) # "stuck"
          /\ ValueOf(e) # "stuck" =>
               \A n \in wrong : \E m \in Subexpressions(e) :
                 ast[m].what \in T!Equality /\ n \in Range(ast[m].args)
          /\ (wrong = {} /\ <<"value of another type", a>> \notin errors) =>
               "any" \in {ValueOf(e), d} \/ Meets(ValueOf(e), d)

----------------------------------------------------------------------------
(***************************************************************************)
(* References.                                                             *)
(***************************************************************************)
\* Only a part of something is owned by it: a usage that is not a reference
\* after the pass is an undirected feature of a type, and a port only of a
\* port; and `ref` is never taken back (referentialchecker.c:65-87).
OwnedFeaturesHaveOwners ==
  Accepted("references") =>
    \A u \in Walked :
      (ast[u].kind = "usage" /\ ~ reference[u]) =>
        LET p == ast[Owner(ast, u)]
        IN  /\ ~ ast[u].ref
            /\ ast[u].dir = "none"
            /\ p.kind \in {"definition", "usage"}
            /\ (p.kind = "usage" \/ ast[u].what = "port") =>
                 (p.what = "port" <=> ast[u].what = "port")

----------------------------------------------------------------------------
(***************************************************************************)
(* What the comments promise and the code does not do.                     *)
(***************************************************************************)
\* "Each reference must resolve to a port-typed feature" (connectchecker.c:3-6,
\* connectchecker.h:3-4): every end of every connection, also of one in the
\* inline action of a succession, which the walk does not enter.
EndsArePorts ==
  EndOf("connections") => \A u \in Connecting : EndsReported(u)

\* The type of a redefining attribute specializes the type of what it
\* redefines (redefchecker.h:15-17), also when that has taken its type from
\* what it redefines itself (redefchecker.c:238-239).
RedefinitionsNarrow ==
  Accepted("redefinitions") =>
    \A a \in Redefining : \A b \in Redefines[a] : \A t \in TypesOf(b) :
      F!declaredType(a) # NoNode => IsSubtype(F!declaredType(a), t)
=============================================================================
