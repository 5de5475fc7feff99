------------------------------ MODULE Resolver ------------------------------
(***************************************************************************)
(* The name resolver (src/src/resolver.c, resolver_scope.c): the first     *)
(* pass over the tree.  It walks the tree with a stack of scopes, declares *)
(* the members of each scope before it visits them, and binds every        *)
(* qualified name to a declaration.                                        *)
(*                                                                         *)
(* One action is one call of the C code's recursive walk, up to the point  *)
(* where it calls another handler (see Traversal).                         *)
(***************************************************************************)
EXTENDS Traversal

CONSTANT Programs    \* the trees the parser may hand over

\* The parser hands over well-formed trees.
ASSUME ProgramsAssumption == \A t \in Programs : IsAst(t)

VARIABLES
  parity,     \* qualifiedName.conjugationParity of every node
  scopes      \* the open scopes, innermost last

vars == <<ast, resolved, parity, errors, scopes, todo>>

----------------------------------------------------------------------------
(***************************************************************************)
(* Work items, scopes and the state type.                                  *)
(***************************************************************************)
Ops == {"declare", "visit", "ref", "redef", "expr", "enter", "leave"}

\* A symbol is a name and its declaration, and the name is that of the
\* declaration; so the symbol list is the set of declarations.
Scope(N) == [owner : N, symbols : SUBSET N, wild : Seq(N)]

NewScope(n) == [owner |-> n, symbols |-> {}, wild |-> <<>>]

Messages == {"undefined name", "undefined member", "duplicate name"}

TypeOK ==
  /\ ast \in Programs
  /\ resolved \in [Nodes -> Nodes \cup {NoNode}]
  /\ parity \in [Nodes -> BOOLEAN]
  /\ errors \subseteq Messages \X Nodes
  /\ scopes \in Seq(Scope(Nodes))
  /\ todo \in Seq(Item(Ops, Nodes))

----------------------------------------------------------------------------
(***************************************************************************)
(* Looking a name up.  `stack` is a scope and its enclosing ones, i.e. the *)
(* chain of parent pointers, innermost last.                               *)
(***************************************************************************)
\* What a scope has declared x as.
lookupLocal(scope, x) ==
  LET known == {d \in scope.symbols : nodeName(ast, d) = x}
  IN  IF known = {} THEN NoNode ELSE CHOOSE d \in known : TRUE

\* Mistake: the outermost declaration wins, nothing can be shadowed.
lookupChainOutermost(stack, x) ==
  FirstFound(stack, LAMBDA scope : lookupLocal(scope, x))

\* What the innermost scope that declares x declares it as.
lookupChain(stack, x) ==
  FirstFound(Reverse(stack), LAMBDA scope : lookupLocal(scope, x))

\* The member called x that the wildcard import imp brings in, if its target
\* is bound to a package that has one.
Imported(imp, x) ==
  LET p == resolved[ast[imp].links[1]]
  IN  IF p # NoNode /\ ast[p].kind = "package"
      THEN DirectMember(ast, p, x) ELSE NoNode

\* x in the wildcard-imported packages: innermost scope first, and in one
\* scope the imports in the order they were declared.
searchWildcardImports(stack, x) ==
  FirstFound(Reverse(stack),
             LAMBDA scope : FirstFound(scope.wild, LAMBDA imp : Imported(imp, x)))

\* Mistake: any wildcard import is an excuse, followed or not.
anyWildcardInScope(stack) == \E i \in DOMAIN stack : stack[i].wild # <<>>

anyUnresolvedWildcardInScope(stack) ==
  \E i \in DOMAIN stack : \E imp \in Range(stack[i].wild) :
    resolved[ast[imp].links[1]] = NoNode

\* Is n a feature whose (first) type reference is conjugated?
IsConjugated(n) == /\ ast[n].kind \in {"usage", "attribute"}
                   /\ ast[n].types # <<>>
                   /\ ast[ast[n].types[1]].conj

\* The declarations the segments of name r lead through, one per segment;
\* NoNode from the first segment on that is not found.
Path(r, stack) ==
  LET parts == ast[r].parts
      head  == IF lookupChain(stack, parts[1]) # NoNode
               THEN lookupChain(stack, parts[1])
               ELSE searchWildcardImports(stack, parts[1])
      path[i \in DOMAIN parts] ==
        IF i = 1 THEN head
        ELSE IF path[i - 1] = NoNode THEN NoNode
        ELSE lookupMember(ast, resolved, path[i - 1], parts[i])
  IN  path

\* The conjugations met on the way: one for each declaration before the last
\* that has a conjugated type, one more for a ~ on the name itself.
PathParity(r, path) ==
  LET hops == {i \in 1 .. Len(ast[r].parts) - 1 : IsConjugated(path[i])}
  IN  (Cardinality(hops) % 2 = 1) # ast[r].conj

\* Mistake: what the parser or an earlier call has bound is looked up again,
\* and lost when the lookup fails.
BindAgain(r, stack, report) ==
  /\ resolved' = [resolved EXCEPT ![r] = Path(r, stack)[Len(ast[r].parts)]]
  /\ UNCHANGED <<parity, errors>>

\* resolveQualifiedNameImpl: bind r, or report why not if `report`.
Bind(r, stack, report) ==
  LET path == Path(r, stack)
      n    == Len(ast[r].parts)
      seen == derefAlias(ast, resolved, path[n])
  IN  \/ /\ resolved[r] # NoNode
         /\ UNCHANGED <<resolved, parity, errors>>
      \/ /\ resolved[r] = NoNode
         /\ path[n] \in Nodes
         /\ resolved' = [resolved EXCEPT
                           ![r] = IF seen \in Nodes THEN seen ELSE path[n]]
         /\ parity' = [parity EXCEPT ![r] = PathParity(r, path)]
         /\ UNCHANGED errors
      \/ /\ resolved[r] = NoNode
         /\ path[1] = NoNode
         /\ errors' = IF /\ report
                         /\ n = 1
                         /\ ~ anyUnresolvedWildcardInScope(stack)
                      THEN errors \cup {<<"undefined name", r>>}
                      ELSE errors
         /\ UNCHANGED <<resolved, parity>>
      \/ /\ resolved[r] = NoNode
         /\ path[1] # NoNode
         /\ path[n] \notin Nodes
         /\ errors' = IF report
                      THEN errors \cup {<<"undefined member", r>>}
                      ELSE errors
         /\ UNCHANGED <<resolved, parity>>

----------------------------------------------------------------------------
(***************************************************************************)
(* The walk.                                                               *)
(***************************************************************************)
\* Mistake: the built-in package is asked for before it is made.
RootScopeTooEarly == [NewScope(Root) EXCEPT !.symbols = {NoNode}]

\* The root scope knows the package ScalarValues before any declaration.
RootScope == [NewScope(Root) EXCEPT !.symbols = {Lib}]

\* Phase 1 of all top-level declarations, then phase 2, then the scope goes.
RootCalls == DoAll("declare", ast[Root].members)
             \o DoAll("visit", ast[Root].members)
             \o <<Do("leave", Root)>>

Init ==
  /\ ast \in Programs
  /\ resolved = [n \in Nodes |-> ast[n].given]
  /\ parity = [n \in Nodes |-> FALSE]
  /\ errors = {}
  /\ scopes = <<RootScope>>
  /\ todo = RootCalls

Inner == scopes[Len(scopes)]

\* declareMembers, a member that is an import.  Its target is looked up in
\* the scope around the one being filled, without reporting a failure.
DeclareImport(n) ==
  /\ Calls("declare", n)
  /\ ast[n].kind = "import"
  /\ Bind(ast[n].links[1],
          IF Len(scopes) > 1 THEN Front(scopes) ELSE scopes, FALSE)
  /\ scopes' = IF ast[n].wildcard
               THEN [scopes EXCEPT ![Len(scopes)].wild = Append(@, n)]
               ELSE scopes
  /\ Then(<<>>)
  /\ UNCHANGED ast

\* Mistake: a name is a duplicate when any scope around declares it.
DeclareNameOnce(n) ==
  LET x == nodeName(ast, n)
      known == lookupChain(scopes, x) # NoNode
  IN  /\ Calls("declare", n)
      /\ ast[n].kind # "import"
      /\ scopes' = IF x = NoName \/ known THEN scopes
                   ELSE [scopes EXCEPT ![Len(scopes)].symbols = @ \cup {n}]
      /\ errors' = IF x = NoName \/ ~ known THEN errors
                   ELSE errors \cup {<<"duplicate name", n>>}
      /\ Then(<<>>)
      /\ UNCHANGED <<ast, resolved, parity>>

\* declareName.  Members without a name are skipped; of several with the same
\* name the scope keeps the first and reports the others.
DeclareName(n) ==
  LET x == nodeName(ast, n)
      new == x # NoName /\ lookupLocal(Inner, x) = NoNode
      dup == x # NoName /\ lookupLocal(Inner, x) # NoNode
  IN  /\ Calls("declare", n)
      /\ ast[n].kind # "import"
      /\ scopes' = IF new
                   THEN [scopes EXCEPT ![Len(scopes)].symbols = @ \cup {n}]
                   ELSE scopes
      /\ errors' = IF dup THEN errors \cup {<<"duplicate name", n>>}
                          ELSE errors
      /\ Then(<<>>)
      /\ UNCHANGED <<ast, resolved, parity>>

\* Mistake: one phase, every member is visited as soon as it is declared.
EnterOnePhase(n) ==
  /\ Calls("enter", n)
  /\ scopes' = Append(scopes, NewScope(n))
  /\ Then(FlattenSeq([i \in DOMAIN ast[n].members |->
                        <<Do("declare", ast[n].members[i]),
                          Do("visit", ast[n].members[i])>>])
          \o DoAll("expr", ast[n].body) \o <<Do("leave", n)>>)
  /\ UNCHANGED <<ast, resolved, parity, errors>>

\* resolveScopeBody: open a scope, declare all members, then visit them; a
\* constraint body comes last and sees the parameters.
Enter(n) ==
  /\ Calls("enter", n)
  /\ scopes' = Append(scopes, NewScope(n))
  /\ Then(DoAll("declare", ast[n].members) \o DoAll("visit", ast[n].members)
          \o (IF ast[n].kind = "definition"
              THEN DoAll("expr", ast[n].body) ELSE <<>>)
          \o <<Do("leave", n)>>)
  /\ UNCHANGED <<ast, resolved, parity, errors>>

Leave(n) ==
  /\ Calls("leave", n)
  /\ scopes' = Front(scopes)
  /\ Then(<<>>)
  /\ UNCHANGED <<ast, resolved, parity, errors>>

\* resolveNode, kind by kind: the calls it makes, in order.
CallsOf(n) ==
  LET k == ast[n].kind
      header == DoAll("ref", ast[n].types) \o DoAll("ref", ast[n].specializes)
                \o DoAll("redef", ast[n].redefines)
      Target(m) == Do(IF ast[m].kind = "qname" THEN "ref" ELSE "visit", m)
  IN  CASE k = "package"    -> <<Do("enter", n)>>
        [] k = "definition" -> header \o <<Do("enter", n)>>
        [] k = "usage"      -> header \o DoAll("ref", ast[n].ends)
                               \o DoAll("expr", ast[n].value)
                               \o DoAll("expr", ast[n].body)
                               \o (IF ast[n].members # <<>>
                                   THEN <<Do("enter", n)>> ELSE <<>>)
        [] k = "attribute"  -> header \o DoAll("expr", ast[n].value)
        [] k = "return"     -> header \o DoAll("expr", ast[n].value)
        [] k \in {"alias", "comment", "dependency", "lifecycle"}
                            -> DoAll("ref", ast[n].links)
        [] k = "transition" -> DoAll("ref", ast[n].links)
                               \o DoAll("expr", ast[n].value)
        [] k = "succession" -> DoAll("ref", ast[n].links)
                               \o [i \in DOMAIN ast[n].targets |->
                                     Target(ast[n].targets[i])]
        [] OTHER            -> <<>>

Visit(n) ==
  /\ Calls("visit", n)
  /\ Then(CallsOf(n))
  /\ UNCHANGED <<ast, resolved, parity, errors, scopes>>

\* resolveExpression on an operator, a literal, a call or a member access
Descend(n) ==
  /\ Calls("expr", n)
  /\ ast[n].kind # "qname"
  /\ Then(DoAll("expr", ast[n].args))
  /\ UNCHANGED <<ast, resolved, parity, errors, scopes>>

\* resolveMultiSegmentRedefs: a redefinition named by one segment is left to
\* the redefinition checker.
SkipRedefinition(n) ==
  /\ Calls("redef", n)
  /\ Len(ast[n].parts) = 1
  /\ Then(<<>>)
  /\ UNCHANGED <<ast, resolved, parity, errors, scopes>>

\* resolveQualifiedName, from a reference list or from an expression
Resolve(n) ==
  /\ \/ Calls("ref", n)
     \/ Calls("redef", n) /\ Len(ast[n].parts) > 1
     \/ Calls("expr", n) /\ ast[n].kind = "qname"
  /\ Bind(n, scopes, TRUE)
  /\ Then(<<>>)
  /\ UNCHANGED <<ast, scopes>>

\* resolveProgram has returned.
Finished == todo = <<>> /\ UNCHANGED vars

Step == \E n \in Current : \/ DeclareImport(n)
                           \/ DeclareName(n)
                           \/ Enter(n)
                           \/ Leave(n)
                           \/ Visit(n)
                           \/ Descend(n)
                           \/ SkipRedefinition(n)
                           \/ Resolve(n)

Next == Step \/ Finished

\* The walk is a sequential loop: it goes on as long as there is a call.
Spec == Init /\ [][Next]_vars /\ WF_vars(Next)

----------------------------------------------------------------------------
(***************************************************************************)
(* What scoping means, read off the finished tree: no stack, no order.     *)
(***************************************************************************)
\* p opens a scope that its child n is inside of; a declaration's header
\* (its types, ends, default value, ...) is outside.
Encloses(t, p, n) == \/ n \in Range(t[p].members)
                     \/ t[p].kind = "definition" /\ n \in Range(t[p].body)

\* The scopes n is inside of, outermost first.
Enclosing(t, n) ==
  LET chain[m \in DOMAIN t] ==
        LET p == Owner(t, m)
        IN  IF p = NoNode THEN <<>>
            ELSE IF Encloses(t, p, m) THEN Append(chain[p], p) ELSE chain[p]
  IN  chain[n]

\* What x is declared as in the body of p; the root also has the library.
DeclaredIn(t, p, x) ==
  IF x = NoName THEN NoNode
  ELSE IF p = Root /\ x = t[Lib].name THEN Lib ELSE DirectMember(t, p, x)

\* What x is declared as in the innermost of the scopes `chain`.
Declared(t, chain, x) ==
  FirstFound(Reverse(chain), LAMBDA p : DeclaredIn(t, p, x))

\* The declarations name r leads through when all bindings are known.
FinalPath(r) ==
  LET parts == ast[r].parts
      path[i \in DOMAIN parts] ==
        IF i = 1 THEN Declared(ast, Enclosing(ast, r), parts[1])
        ELSE IF path[i - 1] = NoNode THEN NoNode
        ELSE lookupMember(ast, resolved, path[i - 1], parts[i])
  IN  path

\* The wildcard imports n is in the scope of.
ImportsAround(n) ==
  UNION {{m \in Range(ast[p].members) : /\ ast[m].kind = "import"
                                        /\ ast[m].wildcard} :
         p \in Range(Enclosing(ast, n))}

\* The names of the program the walk is to bind: not the import targets, which
\* are only tried, and not the redefinitions left to a later pass.
References ==
  {r \in Nodes :
     /\ ast[r].kind = "qname"
     /\ ast[r].given = NoNode
     /\ Root \in Lineage(ast, r)
     /\ LET p == Owner(ast, r)
        IN  /\ ast[p].kind # "import"
            /\ ~ (r \in Range(ast[p].redefines) /\ Len(ast[r].parts) = 1)}

----------------------------------------------------------------------------
(***************************************************************************)
(* Properties.                                                             *)
(***************************************************************************)
\* Every name is looked up in exactly the scopes it is lexically inside of:
\* headers in the enclosing scope, members and constraint bodies in the
\* declaration's own, and no scope of an earlier sibling is left open.  And
\* phase 1 is over in all of them: the symbol table holds what the member
\* lookup would find by scanning the body, for each name the first
\* declaration (resolver.c:8-16).
LexicalScoping ==
  (todo # <<>> /\ Head(todo).op \notin {"declare", "leave"}) =>
     /\ [i \in DOMAIN scopes |-> scopes[i].owner] = Enclosing(ast, Head(todo).node)
     /\ \A i \in DOMAIN scopes :
          LET p == scopes[i].owner
              candidates == Range(ast[p].members)
                            \cup (IF p = Root THEN {Lib} ELSE {})
          IN  scopes[i].symbols =
                {m \in candidates : /\ nodeName(ast, m) # NoName
                                    /\ DeclaredIn(ast, p, nodeName(ast, m)) = m}

\* A one-segment name means the innermost declaration around it wherever in
\* the file that stands; all that may still depend on the order is whether
\* an alias was seen through.
ScopingIsOrderFree ==
  Done => \A r \in References :
    LET d == Declared(ast, Enclosing(ast, r), ast[r].parts[1])
    IN  (Len(ast[r].parts) = 1 /\ d # NoNode) =>
           resolved[r] \in {d, derefAlias(ast, resolved, d)} \ {NoNode}

\* No name falls through: one that ended unbound was reported, or is of the
\* two kinds the resolver defers on purpose, a path with an unknown head and
\* a name near a wildcard import it could not follow; and nothing is
\* reported that was bound (ast.h:245-251).
UnboundIsReportedOrDeferred ==
  Done => \A r \in References :
    LET reported == \E m \in Messages : <<m, r>> \in errors
        deferred == \/ Len(ast[r].parts) > 1
                       /\ Declared(ast, Enclosing(ast, r), ast[r].parts[1]) = NoNode
                    \/ \E m \in ImportsAround(r) :
                          resolved[ast[m].links[1]] = NoNode
    IN  /\ reported => resolved[r] = NoNode
        /\ resolved[r] = NoNode => reported \/ deferred

\* A scope keeps one declaration of each name and the others are reported,
\* all of them and nothing else, wherever in the program they are.
DuplicatesReported ==
  Done => \A p, m \in Nodes :
    (Root \in Lineage(ast, p) /\ m \in Range(ast[p].members) /\ nodeName(ast, m) # NoName) =>
      (<<"duplicate name", m>> \in errors
         <=> DeclaredIn(ast, p, nodeName(ast, m)) # m)

\* A binding, once made, is final, whoever made it (the parser, the library,
\* an import's early lookup), and no diagnostic is withdrawn.
BindingsAreFinal ==
  [][/\ \A n \in Nodes : resolved[n] # NoNode =>
                           /\ resolved'[n] = resolved[n]
                           /\ parity'[n] = parity[n]
     /\ errors \subseteq errors']_vars

----------------------------------------------------------------------------
(***************************************************************************)
(* What the comments promise and the code does not do.                     *)
(***************************************************************************)
\* Sibling references work regardless of source order (resolver.c:13-14): no
\* path is rejected that leads somewhere once everything is bound.
SiblingOrderIrrelevant ==
  Done => \A r \in References : <<"undefined member", r>> \in errors =>
            FinalPath(r)[Len(ast[r].parts)] = NoNode

\* Every consumer of the resolution sees the real declaration, not the alias
\* (resolver.c:141-143), whenever there is one to be seen.
AliasesSeenThrough ==
  Done => \A r \in References :
    (resolved[r] # NoNode /\ ast[resolved[r]].kind = "alias") =>
       derefAlias(ast, resolved, resolved[r]) = NoNode
=============================================================================
