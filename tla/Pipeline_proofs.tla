--------------------------- MODULE Pipeline_proofs ---------------------------
(***************************************************************************)
(* Proofs about the compiler as a whole, for every set of well-formed      *)
(* trees, of command lines and every depth bound.                          *)
(***************************************************************************)
EXTENDS Pipeline, Ast_proofs, FiniteSetTheorems

DP == INSTANCE Driver_proofs
RP == INSTANCE Binding_proofs

----------------------------------------------------------------------------
(***************************************************************************)
(* The compiler is a driver.                                               *)
(***************************************************************************)
\* Every step of the compiler is one of the driver, or a step of a pass,
\* which the driver does not see.
LEMMA StepIsDriver == [Next]_vars => [D!Next]_(D!vars)
<1> SUFFICES ASSUME [Next]_vars
             PROVE  [D!Next]_(D!vars)
  OBVIOUS
<1>1. CASE \/ ResolveStep \/ TypesStep \/ RedefinitionsStep
           \/ ConnectionsStep \/ ReferencesStep
  BY <1>1 DEF ResolveStep, TypesStep, RedefinitionsStep, ConnectionsStep,
              ReferencesStep, driver, D!vars
<1>2. CASE PassEnds
  BY <1>2 DEF PassEnds, D!Next
<1>3. CASE PassFails
  BY <1>3 DEF PassFails, D!Next
<1>4. CASE Around
  BY <1>4 DEF Around, D!Next
<1>5. CASE UNCHANGED vars
  BY <1>5 DEF vars, driver, D!vars
<1> QED
  BY <1>1, <1>2, <1>3, <1>4, <1>5 DEF Next

\* The compiler with its walks filled in takes only steps of the driver:
\* whatever the passes do, it is safe where the driver is.
THEOREM StepsAreTheDrivers == Spec => D!Init /\ [][D!Next]_(D!vars)
<1>1. Init => D!Init
  BY DEF Init
<1> QED
  BY <1>1, StepIsDriver, PTL DEF Spec

\* The two instances of module Driver, with its proofs and without, are the
\* same specification.
LEMMA SameDriver ==
  /\ D!Init <=> DP!Init
  /\ D!vars = DP!vars
  /\ D!Next <=> DP!Next
  BY DEF D!Init, DP!Init, D!vars, DP!vars, D!Next, DP!Next, D!Read, DP!Read,
         D!ReadFails, DP!ReadFails, D!DumpTokens, DP!DumpTokens,
         D!Parsed, DP!Parsed, D!ParseFails, DP!ParseFails, D!PassEnds,
         DP!PassEnds, D!PassFails, DP!PassFails, D!Emit, DP!Emit, D!Exited,
         DP!Exited, D!Exit, DP!Exit, D!Advance, DP!Advance, D!Enabled, DP!Enabled,
         D!Passes, DP!Passes, D!Position, DP!Position

\* The driver's inductive invariant holds in the compiler.
LEMMA DriverInvariance == Spec => []DP!IInv
<1>0. Commands \subseteq DP!Command
  BY CommandsAssumption DEF D!Command, DP!Command, D!Passes, DP!Passes
<1>1. D!Init => DP!IInv
  BY <1>0, SameDriver, DP!InitIInv
<1>2. DP!IInv /\ [D!Next]_(D!vars) => DP!IInv'
  BY <1>0, SameDriver, DP!StepIInv DEF D!vars, DP!vars
<1> QED
  BY <1>1, <1>2, StepsAreTheDrivers, PTL

\* What a passed check is, and what an exit code tells, is the same in both.
LEMMA SamePromises ==
  DP!IInv => D!OutputIsChecked /\ D!ExitCodeTells /\ D!InOrder
  BY DEF DP!IInv, DP!OutputIsChecked, D!OutputIsChecked, DP!ExitCodeTells,
         D!ExitCodeTells, DP!InOrder, D!InOrder, D!Backends, DP!Backends,
         D!Enabled, DP!Enabled, D!Passes, DP!Passes, D!Position, DP!Position

\* What the compiler writes has passed every check the command line asked
\* for, whatever the walks of the passes do (main.c:110-120).
THEOREM OutputAlwaysChecked == Spec => []D!OutputIsChecked
  BY DriverInvariance, SamePromises, PTL

\* The compiler exits with 0 if and only if it has written something.
THEOREM ExitCodeAlwaysTells == Spec => []D!ExitCodeTells
  BY DriverInvariance, SamePromises, PTL

\* No pass of the compiler has run before an enabled one it depends on.
THEOREM AlwaysInOrder == Spec => []D!InOrder
  BY DriverInvariance, SamePromises, PTL

----------------------------------------------------------------------------
(***************************************************************************)
(* What can be reached.                                                    *)
(***************************************************************************)
\* Where the links in `up` lead from a node of A is in A as well.
IsClosed(A, up) == \A m \in A : up[m] \subseteq A

\* Above(S, up) is the least set around S that is closed.
LEMMA AboveIs ==
  ASSUME IsFiniteSet(Nodes), NEW up, \A m \in Nodes : up[m] \subseteq Nodes,
         NEW S \in SUBSET Nodes
  PROVE  /\ S \subseteq Above(S, up)
         /\ Above(S, up) \subseteq Nodes
         /\ IsClosed(Above(S, up), up)
         /\ \A A \in SUBSET Nodes : (S \subseteq A /\ IsClosed(A, up)) => Above(S, up) \subseteq A
<1> DEFINE N == SUBSET Nodes
           More(U) == U \cup UNION {up[m] : m \in U}
           rank == [U \in N |-> Cardinality(Nodes \ U)]
           Value(f, U) == IF More(U) = U THEN U ELSE f[More(U)]
           Q(f) == f = [U \in N |-> Value(f, U)]
<1>1. ASSUME NEW U \in N PROVE More(U) \in N /\ U \subseteq More(U)
  OBVIOUS
<1>2. ASSUME NEW U \in N PROVE rank[U] \in Nat
  <2>1. Nodes \ U \in SUBSET Nodes
    OBVIOUS
  <2>2. IsFiniteSet(Nodes \ U)
    BY <2>1, FS_Subset
  <2> QED
    BY <2>2, FS_CardinalityType
<1>3. ASSUME NEW U \in N, NEW V \in N, U \subseteq V, U # V PROVE rank[V] < rank[U]
  <2>1. Nodes \ U \in SUBSET Nodes /\ Nodes \ V \in SUBSET (Nodes \ U) /\ Nodes \ V # Nodes \ U
    BY <1>3
  <2>2. IsFiniteSet(Nodes \ U)
    BY <2>1, FS_Subset
  <2>3. /\ Cardinality(Nodes \ V) <= Cardinality(Nodes \ U)
        /\ Cardinality(Nodes \ U) # Cardinality(Nodes \ V)
    BY <2>1, <2>2, FS_Subset
  <2>4. rank[U] = Cardinality(Nodes \ U) /\ rank[V] = Cardinality(Nodes \ V)
    OBVIOUS
  <2> HIDE DEF rank
  <2> QED
    BY <1>2, <2>3, <2>4
<1> HIDE DEF rank
<1>4. PICK none : none \notin N
  BY NoSetContainsEverything
<1> DEFINE link == [U \in N |-> IF More(U) = U THEN none ELSE More(U)]
           start == [U \in N |-> U]
           step == [U \in N |-> [V \in N |-> V]]
<1>5. PICK f : Follows(f, N, N, link, start, step)
  <2>1. \A U \in N : rank[U] \in Nat
    BY <1>2
  <2>2. \A U \in N : link[U] \in N => rank[link[U]] < rank[U]
    <3> SUFFICES ASSUME NEW U \in N, link[U] \in N PROVE rank[link[U]] < rank[U]
      OBVIOUS
    <3>1. link[U] = More(U) /\ More(U) # U
      BY <1>4
    <3> HIDE DEF link, More
    <3> QED
      BY <1>1, <1>3, <3>1
  <2>3. \A U \in N : start[U] \in N
    OBVIOUS
  <2>4. \A U \in N, V \in N : step[U][V] \in N
    OBVIOUS
  <2> HIDE DEF link, start, step, N
  <2> QED
    BY <2>1, <2>2, <2>3, <2>4, DefinedByRank
<1>6. f \in [N -> N] /\ \A U \in N : f[U] = IF link[U] \in N THEN step[U][f[link[U]]] ELSE start[U]
  BY <1>5 DEF Follows
<1>7. ASSUME NEW U \in N PROVE f[U] = Value(f, U)
  <2>1. CASE More(U) = U
    BY <1>4, <1>6, <2>1
  <2>2. CASE More(U) # U
    <3>1. link[U] = More(U) /\ More(U) \in N
      BY <1>1, <2>2
    <3>2. f[More(U)] \in N
      BY <1>6, <3>1
    <3>3. step[U][f[More(U)]] = f[More(U)]
      BY <3>2
    <3> QED
      BY <1>6, <2>2, <3>1, <3>3
  <2> QED
    BY <2>1, <2>2
<1> HIDE DEF step, start, link
<1>8. Q(f)
  <2> HIDE DEF Value
  <2> QED
    BY <1>6, <1>7
<1>9. Above(S, up) = (CHOOSE g : Q(g))[S]
  BY DEF Above
<1>10. PICK g : Q(g) /\ Above(S, up) = g[S]
  <2>1. Q(CHOOSE g : Q(g))
    <3> HIDE DEF Q
    <3> QED
      BY <1>8, Zenon
  <2> HIDE DEF Q
  <2> QED
    BY <1>9, <2>1
<1>11. \A U \in N : g[U] = Value(g, U)
  <2> HIDE DEF Value
  <2> QED
    BY <1>10
<1> DEFINE Least(U, B) == /\ U \subseteq B /\ B \subseteq Nodes /\ IsClosed(B, up)
                          /\ \A A \in N : (U \subseteq A /\ IsClosed(A, up)) => B \subseteq A
<1>12. ASSUME NEW U \in N, More(U) = U PROVE Least(U, U)
  BY <1>12 DEF IsClosed
<1>13. ASSUME NEW U \in N, NEW B, Least(More(U), B) PROVE Least(U, B)
  <2>1. ASSUME NEW A \in N, U \subseteq A, IsClosed(A, up) PROVE More(U) \subseteq A
    BY <2>1 DEF IsClosed
  <2> HIDE DEF More
  <2> QED
    BY <1>1, <1>13, <2>1
<1> HIDE DEF Least, More
<1>14. \A U \in N : Least(U, g[U])
  <2> DEFINE Bad == {U \in N : ~ Least(U, g[U])}
             Ranks == {rank[U] : U \in Bad}
  <2>1. SUFFICES ASSUME Bad # {} PROVE FALSE
    OBVIOUS
  <2>2. Ranks \in SUBSET Nat /\ Ranks # {}
    BY <1>2, <2>1
  <2>3. PICK k \in Ranks : \A j \in Ranks : k <= j
    <3> HIDE DEF Ranks
    <3> QED
      BY <2>2, LeastNumber
  <2>4. PICK U \in Bad : \A V \in Bad : rank[U] <= rank[V]
    BY <2>3
  <2>5. U \in N /\ ~ Least(U, g[U])
    BY <2>4
  <2>6. More(U) # U
    BY <1>11, <1>12, <2>5
  <2>7. g[U] = g[More(U)] /\ More(U) \in N /\ U \subseteq More(U)
    BY <1>1, <1>11, <2>5, <2>6
  <2>8. rank[More(U)] < rank[U] /\ rank[U] \in Nat /\ rank[More(U)] \in Nat
    BY <1>2, <1>3, <2>5, <2>6, <2>7
  <2>9. More(U) \notin Bad
    BY <2>4, <2>8
  <2>10. Least(More(U), g[More(U)])
    BY <2>7, <2>9
  <2> QED
    BY <1>13, <2>5, <2>7, <2>10
<1>15. Least(S, g[S])
  BY <1>14
<1> HIDE DEF Q
<1> QED
  BY <1>10, <1>15, Zenon DEF Least

----------------------------------------------------------------------------
(***************************************************************************)
(* The resolver in the compiler is the resolver on its own: the instances  *)
(* of module Resolver with its proofs (RP) and without (R) are the same.   *)
(***************************************************************************)
LEMMA SameNodes ==
  /\ R!NoNode = RP!NoNode /\ R!Nodes = RP!Nodes /\ R!vars = RP!vars
  /\ \A t, res, n : R!derefAlias(t, res, n) = RP!derefAlias(t, res, n)
  BY DEF R!NoNode, RP!NoNode, R!Nodes, RP!Nodes, R!vars, RP!vars, R!derefAlias,
         RP!derefAlias

LEMMA SameChain ==
  \A stack, x : R!lookupChain(stack, x) = RP!lookupChain(stack, x)
  BY DEF R!lookupChain, RP!lookupChain, R!FirstFound, RP!FirstFound, R!NoNode,
         RP!NoNode, R!Reverse, RP!Reverse, R!lookupLocal, RP!lookupLocal,
         R!nodeName, RP!nodeName, R!NamingKinds, RP!NamingKinds, R!NoName,
         RP!NoName

LEMMA SameImports ==
  /\ \A stack, x : R!searchWildcardImports(stack, x) = RP!searchWildcardImports(stack, x)
  /\ \A stack : R!anyUnresolvedWildcardInScope(stack) <=> RP!anyUnresolvedWildcardInScope(stack)
  BY DEF R!searchWildcardImports, RP!searchWildcardImports, R!FirstFound,
         RP!FirstFound, R!NoNode, RP!NoNode, R!Reverse, RP!Reverse, R!Imported,
         RP!Imported, R!DirectMember, RP!DirectMember, R!nodeName, RP!nodeName,
         R!NamingKinds, RP!NamingKinds, R!NoName, RP!NoName,
         R!anyUnresolvedWildcardInScope, RP!anyUnresolvedWildcardInScope,
         R!Range, RP!Range

LEMMA SameMember ==
  \A t, res, c, x : R!lookupMember(t, res, c, x) = RP!lookupMember(t, res, c, x)
  BY DEF R!lookupMember, RP!lookupMember, R!NoNode, RP!NoNode, R!derefAlias,
         RP!derefAlias, R!DirectMember, RP!DirectMember, R!FirstFound,
         RP!FirstFound, R!nodeName, RP!nodeName, R!NamingKinds, RP!NamingKinds,
         R!NoName, RP!NoName, R!Ancestors, RP!Ancestors

LEMMA SameParity == \A r, path : R!PathParity(r, path) = RP!PathParity(r, path)
  BY DEF R!PathParity, RP!PathParity, R!IsConjugated, RP!IsConjugated,
         R!Cardinality, RP!Cardinality

LEMMA SameBind ==
  ASSUME NEW r, NEW stack, NEW report
  PROVE  R!Bind(r, stack, report) <=> RP!Bind(r, stack, report)
<1>1. R!Path(r, stack) = RP!Path(r, stack)
  BY SameNodes, SameChain, SameImports, SameMember DEF R!Path, RP!Path
<1> QED
  BY SameNodes, <1>1, SameImports, SameParity DEF R!Bind, RP!Bind

LEMMA SameStep == R!Step <=> RP!Step
<1>1. ASSUME NEW n PROVE R!DeclareImport(n) <=> RP!DeclareImport(n)
  BY SameBind DEF R!DeclareImport, RP!DeclareImport, R!Calls, RP!Calls,
                  R!Then, RP!Then, R!Front, RP!Front
<1>2. ASSUME NEW n PROVE R!DeclareName(n) <=> RP!DeclareName(n)
  BY DEF R!DeclareName, RP!DeclareName, R!nodeName, RP!nodeName, R!NamingKinds,
         RP!NamingKinds, R!NoName, RP!NoName, R!lookupLocal, RP!lookupLocal,
         R!NoNode, RP!NoNode, R!Inner, RP!Inner, R!Calls, RP!Calls, R!Then,
         RP!Then
<1>3. ASSUME NEW n PROVE R!Enter(n) <=> RP!Enter(n)
  BY DEF R!Enter, RP!Enter, R!Calls, RP!Calls, R!NewScope, RP!NewScope, R!Then,
         RP!Then, R!DoAll, RP!DoAll, R!Do, RP!Do, R!DoIn, RP!DoIn, R!NoNode,
         RP!NoNode
<1>4. ASSUME NEW n PROVE R!Leave(n) <=> RP!Leave(n)
  BY DEF R!Leave, RP!Leave, R!Calls, RP!Calls, R!Front, RP!Front, R!Then,
         RP!Then
<1>5. ASSUME NEW n PROVE R!Visit(n) <=> RP!Visit(n)
  BY DEF R!Visit, RP!Visit, R!Calls, RP!Calls, R!Then, RP!Then, R!CallsOf,
         RP!CallsOf, R!DoAll, RP!DoAll, R!Do, RP!Do, R!DoIn, RP!DoIn, R!NoNode,
         RP!NoNode
<1>6. ASSUME NEW n PROVE R!Descend(n) <=> RP!Descend(n)
  BY DEF R!Descend, RP!Descend, R!Calls, RP!Calls, R!Then, RP!Then, R!DoAll,
         RP!DoAll, R!Do, RP!Do, R!DoIn, RP!DoIn, R!NoNode, RP!NoNode
<1>7. ASSUME NEW n PROVE R!SkipRedefinition(n) <=> RP!SkipRedefinition(n)
  BY DEF R!SkipRedefinition, RP!SkipRedefinition, R!Calls, RP!Calls, R!Then,
         RP!Then
<1>8. ASSUME NEW n PROVE R!Resolve(n) <=> RP!Resolve(n)
  BY SameBind DEF R!Resolve, RP!Resolve, R!Calls, RP!Calls, R!Then, RP!Then
<1>9. R!Current = RP!Current
  BY DEF R!Current, RP!Current
<1> QED
  BY <1>1, <1>2, <1>3, <1>4, <1>5, <1>6, <1>7, <1>8, <1>9 DEF R!Step, RP!Step

\* The trees are the same trees.
LEMMA SameTrees == \A t : RP!IsAst(t) <=> IsAst(t)
<1>1. \A N : RP!NodeRecord(N) = NodeRecord(N)
  BY DEF NodeRecord, RP!NodeRecord, Kinds, RP!Kinds, ExprKinds, RP!ExprKinds,
         NamingKinds, RP!NamingKinds, Directions, RP!Directions, NoNode, RP!NoNode,
         NoName, RP!NoName
<1>2. \A t, n : RP!IsShaped(t, n) <=> IsShaped(t, n)
  BY DEF IsShaped, RP!IsShaped, Kinds, RP!Kinds, ExprKinds, RP!ExprKinds,
         NamingKinds, RP!NamingKinds, Range, RP!Range
<1>3. \A t, n : RP!HasOperands(t, n) <=> HasOperands(t, n)
  BY DEF HasOperands, RP!HasOperands
<1>4. \A t, n : RP!Children(t, n) = Children(t, n)
  BY DEF Children, RP!Children
<1>5. /\ \A f : RP!Range(f) = Range(f)
      /\ \A f : RP!IsInjective(f) <=> IsInjective(f)
  BY DEF Range, RP!Range, IsInjective, RP!IsInjective
<1>6. \A t : RP!IsTree(t) <=> IsTree(t)
  BY <1>4, <1>5 DEF IsTree, RP!IsTree
<1>7. RP!Root = Root /\ RP!Lib = Lib /\ RP!NoNode = NoNode /\ RP!NoName = NoName
  BY DEF Root, RP!Root, Lib, RP!Lib, NoNode, RP!NoNode, NoName, RP!NoName
<1>8. \A S : RP!IsFiniteSet(S) <=> IsFiniteSet(S)
  BY DEF IsFiniteSet, RP!IsFiniteSet
<1> QED
  BY <1>1, <1>2, <1>3, <1>4, <1>5, <1>6, <1>7, <1>8, Zenon DEF IsAst, RP!IsAst

LEMMA SameAssumptions ==
  /\ MaxDepth \in Nat \ {0}
  /\ \A t \in Programs : RP!IsAst(t)
  BY SameTrees, MaxDepthAssumption, ProgramsAssumption

\* What the proofs about the resolver show of each of its states.
ResolverInv == RP!Bound /\ RP!ReportedSoFar

LEMMA ResolverInit == RP!Init => ResolverInv
  BY SameAssumptions, RP!InitType, RP!InitNested, RP!InitFilled, RP!InitOnce,
     RP!InitSettled, RP!InitReported DEF ResolverInv, RP!Bound

LEMMA ResolverKeeps == ResolverInv /\ [RP!Next]_(RP!vars) => ResolverInv'
  BY SameAssumptions, RP!StepType, RP!StepNested, RP!StepFilled, RP!StepOnce,
     RP!StepTries, RP!StepSettles, RP!StepReports DEF ResolverInv, RP!Bound

\* The resolver leaves the tree alone.
LEMMA ResolverReads == RP!Step => ast' = ast
  BY DEF RP!Step, RP!DeclareImport, RP!DeclareName, RP!Enter, RP!Leave,
         RP!Visit, RP!Descend, RP!SkipRedefinition, RP!Resolve

\* Its first state is the one in which the compiler starts it.
LEMMA ResolverBegins ==
  ASSUME ast \in Programs, resolved = [n \in Nodes |-> ast[n].given],
         parity = [n \in Nodes |-> FALSE], errors = {},
         scopes = <<R!RootScope>>, todo = R!RootCalls
  PROVE  RP!Init
<1>1. R!RootScope = RP!RootScope
  BY DEF R!RootScope, RP!RootScope, R!NewScope, RP!NewScope, R!Root, RP!Root,
         R!Lib, RP!Lib
<1>2. R!RootCalls = RP!RootCalls
  BY DEF R!RootCalls, RP!RootCalls, R!DoAll, RP!DoAll, R!Do, RP!Do, R!DoIn,
         RP!DoIn, R!Root, RP!Root, R!NoNode, RP!NoNode
<1>3. Nodes = RP!Nodes
  BY DEF Nodes, RP!Nodes
<1> QED
  BY <1>1, <1>2, <1>3 DEF RP!Init

----------------------------------------------------------------------------
(***************************************************************************)
(* The walks of the checkers: whatever one of them is still to see is at   *)
(* or below a call that waits.                                             *)
(***************************************************************************)
\* The passes that walk Walked.
Walks == {"redefinitions", "connections", "references"}

\* The enclosing declaration that a walk passes to the handler of n.
Under(pass, n) ==
  LET p == Owner(ast, n)
  IN  CASE pass = "connections" -> NoNode
        [] pass = "references"  -> p
        [] OTHER -> IF p # NoNode /\ ast[p].kind \in {"definition", "usage"}
                    THEN p ELSE NoNode

CallFor(pass, n) == R!DoIn(pass, n, Under(pass, n))

Calling(pass) == {CallFor(pass, n) : n \in Walked}

Waiting(calls) == {calls[i].node : i \in DOMAIN calls}

Pending(calls) == Above(Waiting(calls), Members)

\* A walk makes the calls it should, and nothing else.
OnWalk == stage \in Walks => todo \in Seq(Calling(stage))

Visited(n) == n \in Walked \ Pending(todo)

LEMMA TreeIs ==
  ASSUME ast \in Programs
  PROVE  /\ IsAst(ast) /\ IsFiniteSet(Nodes)
         /\ \A n \in Nodes : n \in Nat /\ n # NoNode
         /\ \A n \in Nodes : Members[n] \subseteq Nodes
         /\ Root \in Nodes /\ Lib \in Nodes
<1>1. IsAst(ast)
  BY ProgramsAssumption
<1>2. ASSUME NEW n \in Nodes PROVE Members[n] \subseteq Nodes
  BY <1>1, <1>2, AstLists, ElementOfSeq, LenProperties DEF Members, Nodes, Range
<1> QED
  BY <1>1, <1>2, NodesAreNumbers DEF IsAst, Nodes

\* What is walked is the root and what is a member of something walked.
LEMMA WalkedIs ==
  ASSUME ast \in Programs
  PROVE  /\ Walked \subseteq Nodes
         /\ Root \in Walked
         /\ \A n \in Walked : Members[n] \subseteq Walked
         /\ \A n \in Walked : n = Root \/ \E p \in Walked : n \in Members[p]
<1>0. {Root} \in SUBSET Nodes
  BY TreeIs
<1>1. /\ {Root} \subseteq Walked
      /\ Walked \subseteq Nodes
      /\ IsClosed(Walked, Members)
      /\ \A A \in SUBSET Nodes : ({Root} \subseteq A /\ IsClosed(A, Members)) => Walked \subseteq A
  BY <1>0, TreeIs, AboveIs DEF Walked
<1> DEFINE A == {Root} \cup {n \in Walked : \E p \in Walked : n \in Members[p]}
<1>2. IsClosed(A, Members)
  BY <1>1 DEF IsClosed
<1>3. Walked \subseteq A
  BY <1>1, <1>2
<1> QED
  BY <1>1, <1>3 DEF IsClosed

\* Nothing is left to be seen when no call waits.
LEMMA NothingPending == ASSUME ast \in Programs PROVE Pending(<<>>) = {}
<1>1. Waiting(<<>>) = {}
  BY DEF Waiting
<1>2. Above({}, Members) \subseteq {}
  <2>1. {} \in SUBSET Nodes /\ IsClosed({}, Members)
    BY DEF IsClosed
  <2> QED
    BY <2>1, TreeIs, AboveIs
<1> QED
  BY <1>1, <1>2 DEF Pending

\* A call to n and the calls it makes see what it was to see.
LEMMA SeenBySteps ==
  ASSUME ast \in Programs, NEW W \in SUBSET Nodes, NEW V \in SUBSET Nodes,
         NEW n \in Nodes, W \subseteq V \cup {n}, Members[n] \subseteq V
  PROVE  Above(W, Members) \subseteq Above(V, Members) \cup {n}
<1>1. /\ V \subseteq Above(V, Members) /\ Above(V, Members) \subseteq Nodes
      /\ IsClosed(Above(V, Members), Members)
  BY TreeIs, AboveIs
<1>2. IsClosed(Above(V, Members) \cup {n}, Members)
  BY <1>1 DEF IsClosed
<1>3. Above(V, Members) \cup {n} \in SUBSET Nodes /\ W \subseteq Above(V, Members) \cup {n}
  BY <1>1
<1> QED
  BY <1>2, <1>3, TreeIs, AboveIs

\* All that is about the tree alone stays with the tree.
LEMMA SameTree ==
  ASSUME ast' = ast
  PROVE  /\ Nodes' = Nodes /\ Members' = Members /\ Walked' = Walked
         /\ \A pass : Calling(pass)' = Calling(pass)
         /\ \A W, up : Above(W, up)' = Above(W, up)
         /\ \A n : Owner(ast, n)' = Owner(ast, n)
<1>1. Nodes' = Nodes /\ Members' = Members
  BY DEF Nodes, Members
<1>2. \A W, up : Above(W, up)' = Above(W, up)
  BY DEF Above, Nodes
<1>3. Walked' = Walked
  BY DEF Walked, Above, Nodes, Members, Root
<1>4. \A n : Owner(ast, n)' = Owner(ast, n)
  BY DEF Owner
<1>5. \A pass, n : CallFor(pass, n)' = CallFor(pass, n)
  BY <1>4 DEF CallFor, Under
<1> QED
  BY <1>1, <1>2, <1>3, <1>4, <1>5 DEF Calling

\* Who waits is told by the set of the calls.
LEMMA WaitingIs ==
  ASSUME NEW calls
  PROVE  Waiting(calls) = {x.node : x \in Range(calls)}
BY DEF Waiting, Range

LEMMA CallForIs ==
  \A pass, n : /\ CallFor(pass, n).op = pass
               /\ CallFor(pass, n).node = n
               /\ CallFor(pass, n).under = Under(pass, n)
BY DEF CallFor, R!DoIn

\* The calls a walk makes of the members of a node.
MemberCalls(n) ==
  [i \in DOMAIN ast[n].members |-> CallFor(stage, ast[n].members[i])]

\* A handler that calls itself on the members of its declaration goes on with
\* the walk, and has seen that declaration.
LEMMA WalkGoesOn ==
  ASSUME ast \in Programs, ast' = ast, OnWalk, stage \in Walks, stage' = stage,
         todo # <<>>, NEW n, n = Head(todo).node,
         todo' = MemberCalls(n) \o Tail(todo)
  PROVE  /\ OnWalk'
         /\ n \in Walked /\ Head(todo) = CallFor(stage, n)
         /\ \A m : Visited(m)' => m = n \/ Visited(m)
<1> DEFINE S == Calling(stage)
<1>1. PICK w \in Seq(S) : w = todo /\ w # <<>>
  BY DEF OnWalk
<1>2. Head(w) \in S /\ Tail(w) \in Seq(S)
  BY <1>1, HeadTailProperties
<1>3. Head(todo) = CallFor(stage, n) /\ n \in Walked
  <2>1. PICK k \in Walked : Head(w) = CallFor(stage, k)
    BY <1>2 DEF Calling
  <2>2. Head(w).node = k
    BY <2>1, CallForIs
  <2> QED
    BY <1>1, <2>1, <2>2
<1>4. n \in Nodes /\ Members[n] \subseteq Walked /\ ast[n].members \in Seq(Nodes)
  BY <1>3, WalkedIs, TreeIs, AstLists DEF Nodes
<1>5. PICK ms \in Seq(Nodes), l \in Nat : ms = ast[n].members /\ l = Len(ms) /\ DOMAIN ms = 1 .. l
  BY <1>4, LenProperties
<1>6. Members[n] = Range(ms)
  BY <1>4, <1>5 DEF Members
<1>7. PICK c : c = MemberCalls(n) /\ c = [i \in 1 .. l |-> CallFor(stage, ms[i])]
  BY <1>5, Zenon DEF MemberCalls
<1>8. c \in Seq(S) /\ Members[n] \subseteq {x.node : x \in Range(c)}
  <2>1. ASSUME NEW i \in 1 .. l PROVE ms[i] \in Walked /\ CallFor(stage, ms[i]) \in S
    BY <1>4, <1>5, <1>6 DEF Range, Calling
  <2>2. c \in Seq(S)
    BY <1>7, <2>1, IsASeq
  <2>3. ASSUME NEW i \in 1 .. l PROVE ms[i] \in {x.node : x \in Range(c)}
    <3>1. c[i] \in Range(c) /\ c[i].node = ms[i]
      BY <1>7, CallForIs DEF Range
    <3> QED
      BY <3>1
  <2>4. ASSUME NEW m \in Members[n] PROVE m \in {x.node : x \in Range(c)}
    <3>1. PICK i \in 1 .. l : m = ms[i]
      BY <1>5, <1>6 DEF Range
    <3> QED
      BY <2>3, <3>1
  <2> QED
    BY <2>2, <2>4
<1> HIDE DEF S
<1>9. PICK v \in Seq(S) : v = c \o Tail(w) /\ todo' = v
  BY <1>1, <1>2, <1>5, <1>7, <1>8, ConcatProperties
<1>10. /\ Waiting(w) \subseteq Waiting(v) \cup {n}
       /\ Members[n] \subseteq Waiting(v)
  <2>1. Range(w) = {Head(w)} \cup Range(Tail(w))
    BY <1>1, RangeHeadTail
  <2>2. Range(v) = Range(c) \cup Range(Tail(w))
    <3>1. PICK u \in Seq(S) : u = Tail(w)
      BY <1>2
    <3>2. PICK k \in Seq(S) : k = c
      BY <1>8
    <3>3. Range(k \o u) = Range(k) \cup Range(u)
      BY RangeConcat
    <3> QED
      BY <1>9, <3>1, <3>2, <3>3
  <2>3. Head(w).node = n
    BY <1>1
  <2> QED
    BY <1>8, <2>1, <2>2, <2>3, WaitingIs
<1>11. /\ \A x \in Seq(S) : Waiting(x) \subseteq Nodes
  <2> SUFFICES ASSUME NEW x \in Seq(S), NEW i \in DOMAIN x PROVE x[i].node \in Nodes
    BY DEF Waiting
  <2>1. x[i] \in S
    BY LenProperties, ElementOfSeq
  <2>2. PICK k \in Walked : x[i] = CallFor(stage, k)
    BY <2>1 DEF S, Calling
  <2> QED
    BY <2>2, WalkedIs, CallForIs
<1>12. Above(Waiting(w), Members) \subseteq Above(Waiting(v), Members) \cup {n}
  BY <1>4, <1>10, <1>11, SeenBySteps
<1>13. OnWalk'
  <2>1. S' = S
    BY SameTree DEF S
  <2>2. todo' \in Seq(S)'
    BY <1>9, <2>1
  <2> QED
    BY <2>2 DEF OnWalk, S
<1>14. Pending(todo)' = Pending(v)
  <2>1. Pending(todo)' = Above(Waiting(v), Members)'
    BY <1>9 DEF Pending, Waiting
  <2>2. PICK W, up : W = Waiting(v) /\ up = Members
    OBVIOUS
  <2>3. Above(Waiting(v), Members)' = Above(W, up)'
    BY <2>2, SameTree DEF Waiting, Above
  <2> QED
    BY <2>1, <2>2, <2>3, SameTree DEF Pending
<1>15. \A m : Visited(m)' => m = n \/ Visited(m)
  BY <1>1, <1>12, <1>14, SameTree DEF Visited, Pending
<1> QED
  BY <1>3, <1>13, <1>15

\* A walk begins with nothing seen.
LEMMA WalkBegins ==
  ASSUME ast \in Programs, ast' = ast, stage' \in Walks,
         todo' = <<R!Do(stage', Root)>>
  PROVE  OnWalk' /\ \A m : ~ Visited(m)'
<1>1. PICK pass \in Walks : stage' = pass
  OBVIOUS
<1>2. PICK v : v = <<CallFor(pass, Root)>>
  OBVIOUS
<1>3. todo' = v
  <2>1. Owner(ast, Root) = NoNode
    BY TreeIs, RootIsNotOwned
  <2>2. Under(pass, Root) = NoNode
    BY <1>1, <2>1 DEF Under, Walks
  <2> QED
    BY <1>1, <1>2, <2>2 DEF R!Do, CallFor, R!DoIn, R!NoNode, NoNode
<1>4. v \in Seq(Calling(pass))
  BY <1>2, WalkedIs DEF Calling
<1>5. Calling(pass)' = Calling(pass) /\ Walked' = Walked
  BY SameTree
<1>6. OnWalk'
  <2>1. todo' \in Seq(Calling(pass))'
    BY <1>3, <1>4, <1>5
  <2> QED
    BY <1>1, <2>1 DEF OnWalk
<1>7. Waiting(v) = {Root}
  <2>1. DOMAIN v = {1} /\ v[1].node = Root
    BY <1>2, CallForIs
  <2> QED
    BY <2>1 DEF Waiting
<1>8. Pending(todo)' = Walked'
  BY <1>3, <1>7 DEF Pending, Waiting, Walked, Root
<1> QED
  BY <1>6, <1>8 DEF Visited

\* At its end everything walked has been seen.
LEMMA WalkEnds ==
  ASSUME ast \in Programs, todo = <<>>, NEW n \in Walked
  PROVE  Visited(n)
BY NothingPending DEF Visited

\* Members have their declaration as owner, and only the declarations that
\* the walks descend into have any.
LEMMA MembersOwned ==
  ASSUME ast \in Programs, NEW n \in Nodes
  PROVE  /\ \A m \in Members[n] : Owner(ast, m) = n /\ m # Root
         /\ ast[n].members # <<>> => ast[n].kind \in {"program", "package", "definition", "usage"}
<1>1. IsAst(ast) /\ n \in DOMAIN ast
  BY TreeIs DEF Nodes
<1>2. Members[n] \subseteq Range(Children(ast, n))
  <2>1. Apart(ast, n)
    BY <1>1, ListsApart
  <2> QED
    BY <2>1 DEF Apart, Members
<1>3. ASSUME NEW m \in Members[n] PROVE Owner(ast, m) = n
  BY <1>1, <1>2, OwnerOf
<1>4. Owner(ast, Root) = NoNode /\ n # NoNode
  BY <1>1, TreeIs, RootIsNotOwned
<1>5. IsShaped(ast, n)
  BY <1>1 DEF IsAst
<1>6. ast[n].members # <<>> => ast[n].kind \in {"program", "package", "definition", "usage"}
  BY <1>5 DEF IsShaped
<1> QED
  BY <1>3, <1>4, <1>6

\* What the handler of a checker calls, is a call to each member.
LEMMA CallsToMembers ==
  ASSUME ast \in Programs, NEW n \in Nodes, NEW pass, NEW u,
         \A m \in Members[n] : u = Under(pass, m)
  PROVE  [i \in DOMAIN ast[n].members |-> R!DoIn(pass, ast[n].members[i], u)]
           = [i \in DOMAIN ast[n].members |-> CallFor(pass, ast[n].members[i])]
<1>1. ASSUME NEW i \in DOMAIN ast[n].members PROVE ast[n].members[i] \in Members[n]
  BY DEF Members, Range
<1> QED
  BY <1>1 DEF CallFor

LEMMA NoCalls ==
  ASSUME ast \in Programs, NEW n \in Nodes, NEW pass,
         ast[n].kind \notin {"program", "package", "definition", "usage"}
  PROVE  [i \in DOMAIN ast[n].members |-> CallFor(pass, ast[n].members[i])] = <<>>
<1>1. ast[n].members = <<>>
  BY MembersOwned
<1>2. DOMAIN ast[n].members = {}
  BY <1>1
<1> QED
  BY <1>2

LEMMA HeadIs ==
  ASSUME ast \in Programs, OnWalk, stage \in Walks, todo # <<>>
  PROVE  /\ Head(todo).node \in Walked /\ Head(todo).node \in Nodes
         /\ Head(todo) = CallFor(stage, Head(todo).node)
<1>1. PICK w \in Seq(Calling(stage)) : w = todo /\ w # <<>>
  BY DEF OnWalk
<1>2. PICK k \in Walked : Head(w) = CallFor(stage, k)
  BY <1>1, HeadTailProperties DEF Calling
<1>3. Head(todo).node = k
  BY <1>1, <1>2, CallForIs
<1> QED
  BY <1>1, <1>2, <1>3, WalkedIs

\* What a step of any of the three walks does to the walk: it visits n.
Visits(n) == /\ todo # <<>>
             /\ n \in Walked
             /\ Head(todo) = CallFor(stage, n)
             /\ OnWalk'
             /\ \A m : Visited(m)' => m = n \/ Visited(m)

LEMMA RedefinitionsWalk ==
  ASSUME ast \in Programs, OnWalk, RedefinitionsStep, NEW n \in R!Current,
         F!CheckRedefinitions(n)
  PROVE  Visits(n)
<1>1. /\ stage = "redefinitions" /\ stage' = stage /\ ast' = ast /\ todo # <<>>
      /\ n = Head(todo).node /\ stage \in Walks
  BY DEF RedefinitionsStep, F!CheckRedefinitions, F!Calls, driver, Walks
<1>2. n \in Nodes
  BY <1>1, HeadIs
<1> DEFINE calls == IF ast[n].kind \in {"program", "package"}
                    THEN F!DoAllIn("redefinitions", ast[n].members, F!NoNode)
                    ELSE IF ast[n].kind \in {"definition", "usage"}
                    THEN F!DoAllIn("redefinitions", ast[n].members, n)
                    ELSE <<>>
           made == [i \in DOMAIN ast[n].members |-> CallFor(stage, ast[n].members[i])]
<1>3. todo' = calls \o Tail(todo)
  BY DEF F!CheckRedefinitions, F!Then
<1>4. calls = made
  <2>1. CASE ast[n].kind \in {"program", "package"}
    <3>1. \A m \in Members[n] : NoNode = Under(stage, m)
      BY <1>1, <1>2, <2>1, MembersOwned DEF Under
    <3>2. [i \in DOMAIN ast[n].members |-> R!DoIn(stage, ast[n].members[i], NoNode)] = made
      BY <1>2, <3>1, CallsToMembers
    <3> QED
      BY <1>1, <2>1, <3>2 DEF F!DoAllIn, F!DoIn, R!DoIn, F!NoNode, NoNode
  <2>2. CASE ast[n].kind \in {"definition", "usage"}
    <3>1. n # NoNode
      BY <1>2, TreeIs
    <3>2. \A m \in Members[n] : n = Under(stage, m)
      BY <1>1, <1>2, <2>2, <3>1, MembersOwned DEF Under
    <3>3. [i \in DOMAIN ast[n].members |-> R!DoIn(stage, ast[n].members[i], n)] = made
      BY <1>2, <3>2, CallsToMembers
    <3> QED
      BY <1>1, <2>2, <3>3 DEF F!DoAllIn, F!DoIn, R!DoIn
  <2>3. CASE ast[n].kind \notin {"program", "package", "definition", "usage"}
    BY <1>2, <2>3, NoCalls
  <2> QED
    BY <2>1, <2>2, <2>3
<1> HIDE DEF calls
<1> QED
  BY <1>1, <1>3, <1>4, WalkGoesOn DEF Visits, MemberCalls

LEMMA ConnectionsWalk ==
  ASSUME ast \in Programs, OnWalk, ConnectionsStep, NEW n \in R!Current,
         C!CheckConnection(n)
  PROVE  Visits(n)
<1>1. /\ stage = "connections" /\ stage' = stage /\ ast' = ast /\ todo # <<>>
      /\ n = Head(todo).node /\ stage \in Walks
  BY DEF ConnectionsStep, C!CheckConnection, C!Calls, driver, Walks
<1>2. n \in Nodes
  BY <1>1, HeadIs
<1> DEFINE calls == IF ast[n].kind \in C!Walked
                    THEN C!DoAll("connections", ast[n].members) ELSE <<>>
           made == [i \in DOMAIN ast[n].members |-> CallFor(stage, ast[n].members[i])]
<1>3. todo' = calls \o Tail(todo)
  BY DEF C!CheckConnection, C!Then
<1>4. calls = made
  <2>1. CASE ast[n].kind \in C!Walked
    <3>1. \A m \in Members[n] : NoNode = Under(stage, m)
      BY <1>1 DEF Under
    <3>2. [i \in DOMAIN ast[n].members |-> R!DoIn(stage, ast[n].members[i], NoNode)] = made
      BY <1>2, <3>1, CallsToMembers
    <3> QED
      BY <1>1, <2>1, <3>2 DEF C!DoAll, C!Do, C!DoIn, R!DoIn, C!NoNode, NoNode
  <2>2. CASE ast[n].kind \notin C!Walked
    BY <1>2, <2>2, NoCalls DEF C!Walked
  <2> QED
    BY <2>1, <2>2
<1> HIDE DEF calls
<1> QED
  BY <1>1, <1>3, <1>4, WalkGoesOn DEF Visits, MemberCalls

LEMMA ReferencesWalk ==
  ASSUME ast \in Programs, OnWalk, ReferencesStep, NEW n \in R!Current,
         P!InferReference(n)
  PROVE  Visits(n)
<1>1. /\ stage = "references" /\ stage' = stage /\ ast' = ast /\ todo # <<>>
      /\ n = Head(todo).node /\ stage \in Walks
  BY DEF ReferencesStep, P!InferReference, P!Calls, driver, Walks
<1>2. n \in Nodes
  BY <1>1, HeadIs
<1> DEFINE calls == IF ast[n].kind \in {"program", "package", "definition", "usage"}
                    THEN P!DoAllIn("references", ast[n].members, n) ELSE <<>>
           made == [i \in DOMAIN ast[n].members |-> CallFor(stage, ast[n].members[i])]
<1>3. todo' = calls \o Tail(todo)
  BY DEF P!InferReference, P!Then
<1>4. calls = made
  <2>1. CASE ast[n].kind \in {"program", "package", "definition", "usage"}
    <3>1. \A m \in Members[n] : n = Under(stage, m)
      BY <1>1, <1>2, MembersOwned DEF Under
    <3>2. [i \in DOMAIN ast[n].members |-> R!DoIn(stage, ast[n].members[i], n)] = made
      BY <1>2, <3>1, CallsToMembers
    <3> QED
      BY <1>1, <2>1, <3>2 DEF P!DoAllIn, P!DoIn, R!DoIn
  <2>2. CASE ast[n].kind \notin {"program", "package", "definition", "usage"}
    BY <1>2, <2>2, NoCalls
  <2> QED
    BY <2>1, <2>2
<1> HIDE DEF calls
<1> QED
  BY <1>1, <1>3, <1>4, WalkGoesOn DEF Visits, MemberCalls

----------------------------------------------------------------------------
(***************************************************************************)
(* What the redefinition checker finds.                                    *)
(***************************************************************************)
\* It looks names up as everyone does.
LEMMA SameLookup ==
  /\ F!NoNode = NoNode
  /\ \A n : F!Ancestors(ast, n) = Ancestors(ast, n)
  /\ \A a, x : F!lookupMember(ast, resolved, a, x) = lookupMember(ast, resolved, a, x)
  /\ \A s : F!Last(s) = Last(s)
  BY DEF F!lookupMember, lookupMember, F!NoNode, NoNode, F!derefAlias,
         derefAlias, F!DirectMember, DirectMember, F!FirstFound,
         FirstFound, F!nodeName, nodeName, F!NamingKinds, NamingKinds,
         F!NoName, NoName, F!Ancestors, Ancestors, F!Last, Last

LEMMA SupertypesType ==
  ASSUME ast \in Programs, NEW n \in Nodes
  PROVE  /\ F!Supertypes(n) \in Seq(Nodes)
         /\ Range(F!Supertypes(n)) \subseteq Range(Ancestors(ast, n))
<1>1. IsAst(ast) /\ n \in DOMAIN ast
  BY TreeIs DEF Nodes
<1>2. Ancestors(ast, n) \in Seq(Nodes)
  BY <1>1, SourcesType DEF Nodes
<1>3. <<>> \in Seq(Nodes) /\ Range(<<>>) = {}
  BY EmptySeq DEF Range
<1> QED
  BY <1>2, <1>3, SameLookup DEF F!Supertypes

\* A feature that is inherited comes from one of the supertypes.
LEMMA InheritedFrom ==
  ASSUME ast \in Programs, resolved \in Bindings(ast), NEW p \in Nodes, NEW x,
         F!findInSupertypes(p, x) # NoNode
  PROVE  /\ F!findInSupertypes(p, x) \in Nodes
         /\ \E r \in Range(F!Supertypes(p)) :
              /\ r \in Nodes /\ resolved[r] \in Nodes \cup {NoNode}
              /\ F!findInSupertypes(p, x) = lookupMember(ast, resolved, resolved[r], x)
<1>1. PICK rs \in Seq(Nodes), l \in Nat :
        rs = F!Supertypes(p) /\ l = Len(rs) /\ DOMAIN rs = 1 .. l
  BY SupertypesType, LenProperties
<1>2. PICK f : f = [i \in 1 .. l |-> lookupMember(ast, resolved, resolved[rs[i]], x)]
  OBVIOUS
<1>3. F!findInSupertypes(p, x) = First(f)
  <2> DEFINE Found(s) == {<<i, F!lookupMember(ast, resolved, resolved[s[i]], x)>> : i \in DOMAIN s}
  <2>0. F!findInSupertypes(p, x) = Foremost(Found(F!Supertypes(p)))
    BY Zenon DEF F!findInSupertypes, F!FirstFound, Foremost, F!NoNode, NoNode
  <2>1. F!findInSupertypes(p, x) = Foremost(Found(rs))
    <3> HIDE DEF Found
    <3> QED
      BY <1>1, <2>0
  <2>2. {<<i, F!lookupMember(ast, resolved, resolved[rs[i]], x)>> : i \in DOMAIN rs}
          = {<<i, f[i]>> : i \in DOMAIN f}
    BY <1>1, <1>2, SameLookup
  <2> QED
    BY <2>1, <2>2 DEF First
<1>4. DOMAIN f = 1 .. l
  BY <1>2
<1>5. PICK i \in 1 .. l : First(f) = f[i]
  BY <1>3, <1>4, FirstIs
<1>6. rs[i] \in Nodes /\ rs[i] \in Range(F!Supertypes(p))
  BY <1>1, ElementOfSeq DEF Range
<1>7. resolved[rs[i]] \in Nodes \cup {NoNode}
  BY <1>6 DEF Bindings, Nodes
<1>8. F!findInSupertypes(p, x) = lookupMember(ast, resolved, resolved[rs[i]], x)
  BY <1>2, <1>3, <1>5
<1>9. lookupMember(ast, resolved, resolved[rs[i]], x) \in Nodes \cup {NoNode}
  <2>1. IsAst(ast) /\ resolved[rs[i]] \in DOMAIN ast \cup {NoNode}
    BY <1>7, TreeIs DEF Nodes
  <2> QED
    BY <2>1, LookupType DEF Nodes
<1> QED
  BY <1>6, <1>7, <1>8, <1>9

LEMMA RedefinedIs ==
  ASSUME ast \in Programs, resolved \in Bindings(ast), NEW p \in Nodes, NEW r
  PROVE  /\ F!Redefined(r, p) \in Nodes \cup {NoNode}
         /\ F!Redefined(r, p) # NoNode => F!Redefined(r, p) = F!findInSupertypes(p, Last(ast[r].parts))
  BY InheritedFrom, SameLookup DEF F!Redefined

\* The redefinition checker only binds redefined names, to nodes of the tree.
LEMMA RedefinitionsBind ==
  ASSUME ast \in Programs, resolved \in Bindings(ast), OnWalk, RedefinitionsStep,
         NEW n \in R!Current, F!CheckRedefinitions(n)
  PROVE  /\ resolved' \in Bindings(ast)
         /\ \A r \in Nodes :
              IF /\ ast[n].kind = "attribute" /\ Head(todo).under # NoNode
                 /\ r \in Range(ast[n].redefines)
                 /\ F!Redefined(r, Head(todo).under) # NoNode
              THEN resolved'[r] = F!Redefined(r, Head(todo).under)
              ELSE resolved'[r] = resolved[r]
         /\ Head(todo).under \in Nodes \cup {NoNode}
<1> DEFINE p == Head(todo).under
           rs == IF ast[n].kind = "attribute" /\ p # NoNode
                 THEN Range(ast[n].redefines) ELSE {}
<1>1. n \in Walked /\ Head(todo) = CallFor(stage, n) /\ stage = "redefinitions" /\ n \in Nodes
  BY RedefinitionsWalk, WalkedIs DEF Visits, RedefinitionsStep
<1>2. p \in Nodes \cup {NoNode}
  <2>1. Owner(ast, n) \in Nodes \cup {NoNode}
    BY <1>1, TreeIs, Owned DEF Nodes
  <2> QED
    BY <1>1, <2>1, CallForIs DEF Under
<1>3. resolved' = [r \in Nodes |-> IF r \in rs /\ F!Redefined(r, p) # NoNode
                                   THEN F!Redefined(r, p) ELSE resolved[r]]
  BY Zenon DEF F!CheckRedefinitions, F!NoNode, NoNode, F!Nodes, Nodes, F!Range, Range
<1>4. \A r \in Nodes : r \in rs => F!Redefined(r, p) \in Nodes \cup {NoNode}
  BY <1>2, RedefinedIs
<1>5. \A r \in Nodes : resolved[r] \in Nodes \cup {NoNode}
  BY DEF Bindings, Nodes
<1> HIDE DEF p
<1>6. resolved' \in [Nodes -> Nodes \cup {NoNode}]
  <2> HIDE DEF rs
  <2> QED
    BY <1>3, <1>4, <1>5
<1> QED
  BY <1>2, <1>3, <1>6 DEF p, Bindings, Nodes

----------------------------------------------------------------------------
(***************************************************************************)
(* What every state of the compiler is like.                               *)
(***************************************************************************)
\* Nothing has been written into the tree before the first pass.
Untouched == /\ resolved = [n \in Nodes |-> ast[n].given]
             /\ parity = [n \in Nodes |-> FALSE]

\* The resolver is about to run.
Ready == /\ ast \in Programs /\ Untouched /\ errors = {}
         /\ scopes = <<R!RootScope>> /\ todo = R!RootCalls

Fit == /\ ast \in Programs
       /\ resolved \in Bindings(ast)
       /\ reference \in [Nodes -> BOOLEAN]
       /\ stage \in {"read", "tokens", "parse"} => Untouched
       /\ stage = "resolve" => ResolverInv
       /\ OnWalk
       /\ DP!IInv

LEMMA ReadyIs == Ready => ResolverInv
  BY ResolverBegins, ResolverInit DEF Ready, Untouched

\* The compiler starts so.
LEMMA InitFit == Init => Fit
<1> SUFFICES ASSUME Init PROVE Fit
  OBVIOUS
<1>1. ast \in Programs /\ stage = "read"
  BY DEF Init, D!Init
<1>2. \A n \in Nodes : ast[n].given \in Nodes \cup {NoNode} /\ ast[n].ref \in BOOLEAN
  <2> SUFFICES ASSUME NEW n \in Nodes
               PROVE  ast[n].given \in Nodes \cup {NoNode} /\ ast[n].ref \in BOOLEAN
    OBVIOUS
  <2>1. ast[n] \in NodeRecord(Nodes)
    BY <1>1, ProgramsAssumption DEF IsAst, Nodes
  <2> QED
    BY <2>1 DEF NodeRecord
<1>3. resolved \in Bindings(ast) /\ reference \in [Nodes -> BOOLEAN] /\ Untouched
  BY <1>2 DEF Init, Bindings, Nodes, Untouched
<1>4. DP!IInv
  <2>1. Commands \subseteq DP!Command
    BY CommandsAssumption DEF D!Command, DP!Command, D!Passes, DP!Passes
  <2> QED
    BY <2>1, SameDriver, DP!InitIInv DEF Init
<1> QED
  BY <1>1, <1>3, <1>4 DEF Fit, OnWalk, Walks

\* After the parser, the resolver is the next pass or none is, and no pass is
\* followed by the resolver.
LEMMA ResolverFirst ==
  ASSUME DP!IInv, PassEnds
  PROVE  /\ stage' = "resolve" => stage = "parse"
         /\ stage' \in {"emit"} \cup D!Passes
         /\ stage \notin {"read", "tokens"}
<1>1. ASSUME NEW s, D!Advance(s) PROVE stage' \in {"emit"} \cup D!Passes
  BY <1>1 DEF D!Advance, D!Enabled
<1>2. ASSUME D!PassEnds, stage' = "resolve" PROVE FALSE
  <2>1. D!Advance(stage) /\ stage \in D!Passes
    BY <1>2 DEF D!PassEnds
  <2>2. D!Position["resolve"] > D!Position[stage]
    BY <1>2, <2>1 DEF D!Advance
  <2> QED
    BY <2>1, <2>2 DEF D!Position, D!Passes
<1>3. PassEnds => D!Parsed \/ D!PassEnds
  BY DEF PassEnds
<1> QED
  BY <1>1, <1>2, <1>3 DEF D!Parsed, D!PassEnds, D!Passes

\* A pass begins as it should.
LEMMA BeginsFit ==
  ASSUME Fit, PassEnds
  PROVE  /\ stage' = "resolve" => Ready'
         /\ OnWalk'
         /\ \A m : stage' \in Walks => ~ Visited(m)'
         /\ errors' = {} /\ UNCHANGED <<ast, resolved, parity, reference>>
<1>1. Begin(stage') /\ UNCHANGED <<ast, resolved, parity, reference>> /\ ast \in Programs
  BY DEF PassEnds, Fit
<1>2. ASSUME stage' = "resolve" PROVE Ready'
  <2>1. stage = "parse" /\ Untouched
    BY <1>2, ResolverFirst DEF Fit
  <2>2. Untouched'
    BY <1>1, <2>1, SameTree DEF Untouched
  <2>3. scopes' = <<R!RootScope>> /\ todo' = R!RootCalls /\ errors' = {}
    BY <1>1, <1>2 DEF Begin
  <2>4. R!RootScope' = R!RootScope /\ R!RootCalls' = R!RootCalls
    BY <1>1 DEF R!RootScope, R!RootCalls, R!NewScope, R!DoAll, R!Do, R!DoIn, R!Root, R!Lib, R!NoNode
  <2> QED
    BY <1>1, <2>2, <2>3, <2>4 DEF Ready
<1>3. ASSUME stage' \in Walks PROVE OnWalk' /\ \A m : ~ Visited(m)'
  <2>1. stage' \in D!Passes /\ stage' # "resolve"
    BY <1>3 DEF Walks, D!Passes
  <2>2. todo' = <<R!Do(stage', Root)>>
    BY <1>1, <2>1 DEF Begin
  <2> QED
    BY <1>1, <1>3, <2>2, WalkBegins
<1>4. stage' \notin Walks => OnWalk'
  BY DEF OnWalk
<1> QED
  BY <1>1, <1>2, <1>3, <1>4 DEF Begin

\* Every step keeps the invariant.
LEMMA StepFit == Fit /\ [Next]_vars => Fit'
<1> SUFFICES ASSUME Fit, [Next]_vars PROVE Fit'
  OBVIOUS
<1>0. /\ ast \in Programs /\ resolved \in Bindings(ast) /\ reference \in [Nodes -> BOOLEAN]
      /\ stage \in {"read", "tokens", "parse"} => Untouched
      /\ stage = "resolve" => ResolverInv
      /\ OnWalk
  BY DEF Fit
<1>1. DP!IInv'
  <2>1. Commands \subseteq DP!Command
    BY CommandsAssumption DEF D!Command, DP!Command, D!Passes, DP!Passes
  <2>2. [D!Next]_(D!vars) /\ DP!IInv
    BY StepIsDriver DEF Fit
  <2> QED
    BY <2>1, <2>2, SameDriver, DP!StepIInv DEF D!vars, DP!vars
<1>2. CASE ResolveStep
  <2>1. R!Step /\ stage = "resolve" /\ stage' = stage /\ reference' = reference
    BY <1>2 DEF ResolveStep, driver
  <2>2. RP!Next /\ ast' = ast
    BY <2>1, SameStep, ResolverReads DEF RP!Next
  <2>3. ResolverInv'
    BY <1>0, <2>1, <2>2, ResolverKeeps
  <2>4. resolved' \in Bindings(ast')
    BY <2>3 DEF ResolverInv, RP!Bound, RP!TypeOK, RP!Nodes, RP!NoNode, Bindings, NoNode
  <2>5. reference' \in [Nodes' -> BOOLEAN]
    BY <1>0, <2>1, <2>2, SameTree
  <2> QED
    BY <1>0, <1>1, <2>1, <2>2, <2>3, <2>4, <2>5 DEF Fit, OnWalk, Walks, Bindings
<1>3. CASE TypesStep
  <2>1. stage = "types" /\ stage' = stage /\ UNCHANGED <<ast, resolved, reference>>
    BY <1>3 DEF TypesStep, driver
  <2> QED
    BY <1>0, <1>1, <2>1, SameTree DEF Fit, OnWalk, Walks, Bindings
<1>4. CASE RedefinitionsStep
  <2>1. stage = "redefinitions" /\ stage' = stage /\ UNCHANGED <<ast, reference>>
    BY <1>4 DEF RedefinitionsStep, driver
  <2>2. PICK n \in R!Current : F!CheckRedefinitions(n)
    BY <1>4 DEF RedefinitionsStep
  <2>3. OnWalk' /\ resolved' \in Bindings(ast)
    BY <1>0, <1>4, <2>2, RedefinitionsWalk, RedefinitionsBind DEF Visits
  <2> QED
    BY <1>0, <1>1, <2>1, <2>3, SameTree DEF Fit, Bindings
<1>5. CASE ConnectionsStep
  <2>1. stage = "connections" /\ stage' = stage /\ UNCHANGED <<ast, resolved, reference>>
    BY <1>5 DEF ConnectionsStep, driver
  <2>2. OnWalk'
    BY <1>0, <1>5, ConnectionsWalk DEF Visits, ConnectionsStep
  <2> QED
    BY <1>0, <1>1, <2>1, <2>2, SameTree DEF Fit, Bindings
<1>6. CASE ReferencesStep
  <2>1. stage = "references" /\ stage' = stage /\ UNCHANGED <<ast, resolved>>
    BY <1>6 DEF ReferencesStep, driver
  <2>2. PICK n \in R!Current : P!InferReference(n)
    BY <1>6 DEF ReferencesStep
  <2>3. OnWalk'
    BY <1>0, <1>6, <2>2, ReferencesWalk DEF Visits
  <2>4. n \in Nodes
    BY <1>0, <1>6, <2>2, ReferencesWalk, WalkedIs DEF Visits
  <2>5. PICK b \in BOOLEAN : reference' = [reference EXCEPT ![n] = b]
    BY <2>2, Zenon DEF P!InferReference
  <2>6. reference' \in [Nodes' -> BOOLEAN]
    BY <1>0, <2>1, <2>4, <2>5, SameTree
  <2> QED
    BY <1>0, <1>1, <2>1, <2>3, <2>6, SameTree DEF Fit, Bindings
<1>7. CASE PassEnds
  <2>1. /\ stage' = "resolve" => Ready' /\ OnWalk'
        /\ OnWalk' /\ UNCHANGED <<ast, resolved, parity, reference>>
        /\ stage' \notin {"read", "tokens", "parse"}
    BY <1>7, BeginsFit, ResolverFirst DEF Fit, D!Passes
  <2>2. stage' = "resolve" => ResolverInv'
    BY <2>1, ReadyIs, PTL
  <2> QED
    BY <1>0, <1>1, <2>1, <2>2, SameTree DEF Fit, Bindings
<1>8. CASE PassFails \/ Around \/ UNCHANGED vars
  <2>1. UNCHANGED <<ast, resolved, parity, errors, scopes, todo, reference>>
    BY <1>8 DEF PassFails, Around, vars
  <2>2. /\ stage' \in {"read", "tokens", "parse"} => stage \in {"read", "tokens", "parse"}
        /\ stage' = "resolve" => stage = "resolve"
        /\ stage' \in Walks => stage' = stage
    BY <1>8 DEF PassFails, Around, vars, driver, D!PassFails, D!Exit, D!Read, D!ReadFails,
                D!DumpTokens, D!ParseFails, D!Emit, D!Exited, D!vars, Walks, D!Passes
  <2>3. stage' = "resolve" => ResolverInv'
    <3> SUFFICES ASSUME stage = "resolve" PROVE ResolverInv'
      BY <2>2
    <3>1. UNCHANGED RP!vars
      BY <2>1 DEF RP!vars
    <3> QED
      BY <1>0, <3>1, ResolverKeeps
  <2>4. OnWalk'
    BY <1>0, <2>1, <2>2, SameTree DEF OnWalk
  <2>5. Untouched => Untouched'
    BY <2>1, SameTree DEF Untouched
  <2> QED
    BY <1>0, <1>1, <2>1, <2>2, <2>3, <2>4, <2>5, SameTree DEF Fit, Bindings
<1> QED
  BY <1>2, <1>3, <1>4, <1>5, <1>6, <1>7, <1>8 DEF Next

LEMMA AlwaysFit == Spec => []Fit
  BY InitFit, StepFit, PTL DEF Spec

----------------------------------------------------------------------------
(***************************************************************************)
(* References.                                                             *)
(***************************************************************************)
\* `ref` is never taken back, and a usage that the pass has seen and not
\* marked is not one that must be a reference.
ReferencesSoFar ==
  /\ \A n \in Nodes : ast[n].ref => reference[n]
  /\ stage = "references" =>
       \A n \in Walked : (Visited(n) /\ ast[n].kind = "usage" /\ ~ reference[n]) =>
                           ~ P!usageMustBeReferential(n, Owner(ast, n))

LEMMA InitReferences == Init => ReferencesSoFar
  BY DEF Init, D!Init, ReferencesSoFar

\* One call of the pass.
LEMMA InferringKeeps ==
  ASSUME Fit, ReferencesSoFar, ReferencesStep
  PROVE  ReferencesSoFar'
<1>1. PICK n \in R!Current : P!InferReference(n)
  BY DEF ReferencesStep
<1>2. Visits(n) /\ stage = "references" /\ stage' = stage /\ ast' = ast /\ ast \in Programs
  BY <1>1, ReferencesWalk DEF Fit, ReferencesStep, driver
<1>3. n \in Nodes /\ n \in Walked /\ Head(todo).under = Owner(ast, n)
  BY <1>2, WalkedIs, CallForIs DEF Visits, Under
<1>4. reference \in [Nodes -> BOOLEAN]
  BY DEF Fit
<1>5. reference' = [reference EXCEPT ![n] = \/ reference[n]
                                            \/ ast[n].kind = "attribute"
                                            \/ /\ ast[n].kind = "usage"
                                               /\ P!usageMustBeReferential(n, Owner(ast, n))]
  BY <1>1, <1>3 DEF P!InferReference
<1>6. \A m \in Nodes : m # n => reference'[m] = reference[m]
  BY <1>4, <1>5
<1>7. /\ reference[n] => reference'[n]
      /\ (ast[n].kind = "usage" /\ P!usageMustBeReferential(n, Owner(ast, n))) => reference'[n]
  BY <1>3, <1>4, <1>5
<1>8. ASSUME NEW m \in Nodes
      PROVE  P!usageMustBeReferential(m, Owner(ast, m))' <=> P!usageMustBeReferential(m, Owner(ast, m))
  BY <1>2 DEF P!usageMustBeReferential, P!IsPort, P!enclosingForcesReference, Owner, P!NoNode
<1>9. \A m \in Nodes : ast[m].ref => reference'[m]
  BY <1>3, <1>6, <1>7 DEF ReferencesSoFar
<1>10. ASSUME NEW m \in Walked, Visited(m)', ast[m].kind = "usage", ~ reference'[m]
       PROVE  ~ P!usageMustBeReferential(m, Owner(ast, m))
  <2>1. CASE m = n
    BY <1>7, <1>10, <2>1
  <2>2. CASE m # n
    <3>1. Visited(m) /\ m \in Nodes
      BY <1>2, <1>10, <2>2, WalkedIs DEF Visits
    <3>2. ~ reference[m]
      BY <1>6, <1>10, <2>2, <3>1
    <3> QED
      BY <1>2, <1>10, <3>1, <3>2 DEF ReferencesSoFar
  <2> QED
    BY <2>1, <2>2
<1>11. Nodes' = Nodes /\ Walked' = Walked /\ Walked \subseteq Nodes
  BY <1>2, SameTree, WalkedIs
<1> QED
  BY <1>2, <1>8, <1>9, <1>10, <1>11 DEF ReferencesSoFar

LEMMA StepReferences == Fit /\ ReferencesSoFar /\ [Next]_vars => ReferencesSoFar'
<1> SUFFICES ASSUME Fit, ReferencesSoFar, [Next]_vars PROVE ReferencesSoFar'
  OBVIOUS
<1>1. CASE ReferencesStep
  BY <1>1, InferringKeeps
<1>2. CASE ResolveStep \/ TypesStep \/ RedefinitionsStep \/ ConnectionsStep
  <2>1. UNCHANGED <<ast, reference, stage>> /\ stage # "references"
    <3>1. CASE ResolveStep
      <4>1. R!Step /\ UNCHANGED <<driver, reference>> /\ stage = "resolve"
        BY <3>1 DEF ResolveStep
      <4> QED
        BY <4>1, SameStep, ResolverReads DEF driver
    <3>2. CASE TypesStep \/ RedefinitionsStep \/ ConnectionsStep
      BY <3>2 DEF TypesStep, RedefinitionsStep, ConnectionsStep, driver
    <3> QED
      BY <1>2, <3>1, <3>2
  <2> QED
    BY <2>1, SameTree DEF ReferencesSoFar
<1>3. CASE PassEnds
  <2>1. UNCHANGED <<ast, reference>> /\ (stage' = "references" => \A m : ~ Visited(m)')
    BY <1>3, BeginsFit DEF Walks
  <2> QED
    BY <2>1, SameTree DEF ReferencesSoFar
<1>4. CASE PassFails \/ Around \/ UNCHANGED vars
  <2>1. UNCHANGED <<ast, reference, todo>> /\ (stage' = "references" => stage = "references")
    BY <1>4 DEF PassFails, Around, vars, driver, D!PassFails, D!Exit, D!Read, D!ReadFails,
                D!DumpTokens, D!ParseFails, D!Emit, D!Exited, D!vars
  <2>2. \A m : Visited(m)' <=> Visited(m)
    BY <2>1, SameTree DEF Visited, Pending, Waiting
  <2>3. ASSUME NEW m
        PROVE  P!usageMustBeReferential(m, Owner(ast, m))' <=> P!usageMustBeReferential(m, Owner(ast, m))
    BY <2>1 DEF P!usageMustBeReferential, P!IsPort, P!enclosingForcesReference, Owner, P!NoNode
  <2> QED
    BY <2>1, <2>2, <2>3, SameTree DEF ReferencesSoFar
<1> QED
  BY <1>1, <1>2, <1>3, <1>4 DEF Next

\* OwnedFeaturesHaveOwners (inferOnUsage, usageMustBeReferential): what the
\* pass leaves as a part of something is undirected and stands in a type or a
\* usage, a port in a port and nothing else in one; and no `ref` is lost.
THEOREM OwnedFeaturesAlwaysHaveOwners == Spec => []OwnedFeaturesHaveOwners
<1>1. Fit /\ ReferencesSoFar => OwnedFeaturesHaveOwners
  <2> SUFFICES ASSUME Fit, ReferencesSoFar, stage = "references", todo = <<>>,
                      NEW u \in Walked, ast[u].kind = "usage", ~ reference[u],
                      NEW p, p = Owner(ast, u)
               PROVE  /\ ~ ast[u].ref
                      /\ ast[u].dir = "none"
                      /\ ast[p].kind \in {"definition", "usage"}
                      /\ (ast[p].kind = "usage" \/ ast[u].what = "port") =>
                           (ast[p].what = "port" <=> ast[u].what = "port")
    BY DEF OwnedFeaturesHaveOwners, Accepted, EndOf
  <2>1. ast \in Programs /\ u \in Nodes /\ ast[Root].kind = "program"
    BY TreeIs, WalkedIs DEF Fit, IsAst
  <2>2. ~ ast[u].ref
    BY <2>1 DEF ReferencesSoFar
  <2>3. ~ P!usageMustBeReferential(u, p)
    <3>1. Visited(u)
      BY <2>1, WalkEnds
    <3> QED
      BY <3>1 DEF ReferencesSoFar
  <2>4. PICK q \in Walked : u \in Members[q]
    BY <2>1, WalkedIs
  <2>5. q \in Nodes /\ p = q /\ ast[q].members # <<>>
    <3>1. q \in Nodes
      BY <2>1, WalkedIs
    <3>2. ast[q].members # <<>>
      BY <2>4, <3>1 DEF Members, Range
    <3> QED
      BY <2>1, <2>4, <3>1, <3>2, MembersOwned
  <2>6. ast[p].kind \in {"program", "package", "definition", "usage"} /\ p # P!NoNode
    BY <2>1, <2>5, MembersOwned, TreeIs DEF P!NoNode, NoNode
  <2> QED
    BY <2>2, <2>3, <2>6 DEF P!usageMustBeReferential, P!IsPort, P!enclosingForcesReference
<1> QED
  BY <1>1, AlwaysFit, InitReferences, StepReferences, PTL DEF Spec

----------------------------------------------------------------------------
(***************************************************************************)
(* Connections.                                                            *)
(***************************************************************************)
\* All that stands in inline actions is in the set of it.
LEMMA InlineIsClosed ==
  ASSUME ast \in Programs
  PROVE  /\ \A n \in Nodes : Range(ast[n].targets) \subseteq InInlineActions
         /\ \A n \in InInlineActions : Members[n] \subseteq InInlineActions
<1> DEFINE targets == UNION {Range(ast[n].targets) : n \in Nodes}
<1>1. targets \in SUBSET Nodes
  <2> SUFFICES ASSUME NEW n \in Nodes PROVE Range(ast[n].targets) \subseteq Nodes
    OBVIOUS
  <2>1. IsAst(ast) /\ Nodes = DOMAIN ast
    BY TreeIs DEF Nodes
  <2>2. Apart(ast, n) /\ Range(Children(ast, n)) \subseteq Nodes
    BY <2>1, ListsApart, OneOwner
  <2> QED
    BY <2>2 DEF Apart
<1>2. InInlineActions = Above(targets, Members)
  BY DEF InInlineActions
<1>3. \A n \in Nodes : Range(ast[n].targets) \subseteq targets
  OBVIOUS
<1> HIDE DEF targets
<1>4. targets \subseteq InInlineActions /\ IsClosed(InInlineActions, Members)
  BY <1>1, <1>2, TreeIs, AboveIs
<1> QED
  BY <1>3, <1>4 DEF IsClosed

\* A declaration is a member or an inline action of a declaration.
LEMMA DeclarationsOwned ==
  ASSUME ast \in Programs, NEW n \in Nodes, ast[n].kind \notin ExprKinds,
         NEW p \in Nodes, n \in Range(Children(ast, p))
  PROVE  /\ n \in Range(ast[p].members) \cup Range(ast[p].targets)
         /\ ast[p].kind \notin ExprKinds
<1>0. IsAst(ast) /\ Nodes = DOMAIN ast
  BY TreeIs DEF Nodes
<1>1. Apart(ast, p) /\ IsShaped(ast, p)
  BY <1>0, ListsApart DEF IsAst
<1>2. ast[n].kind # "qname" /\ ast[n].kind \notin ExprKinds
  BY DEF ExprKinds
<1>3. ASSUME NEW list, n \in Range(list) PROVE list # <<>>
  BY <1>3 DEF Range
<1>4. n \notin Range(ast[p].types) \cup Range(ast[p].specializes) \cup Range(ast[p].redefines)
               \cup Range(ast[p].ends) \cup Range(ast[p].links)
  BY <1>1, <1>2, <1>3 DEF IsShaped
<1>5. n \notin Range(ast[p].value) \cup Range(ast[p].body) \cup Range(ast[p].args)
  BY <1>1, <1>2, <1>3 DEF IsShaped
<1>6. n \in Range(ast[p].members) \cup Range(ast[p].targets)
  BY <1>1, <1>4, <1>5 DEF Apart
<1>7. ast[p].kind \in {"program", "package", "definition", "usage", "succession"}
  BY <1>1, <1>3, <1>6 DEF IsShaped
<1> QED
  BY <1>6, <1>7 DEF ExprKinds

\* What stands in none is walked: every declaration below the root.
LEMMA RestIsWalked ==
  ASSUME ast \in Programs, NEW u \in Nodes, ast[u].kind \notin ExprKinds,
         Root \in Lineage(ast, u), u \notin InInlineActions
  PROVE  u \in Walked
<1> DEFINE Missed == {n \in Nodes : /\ ast[n].kind \notin ExprKinds
                                    /\ Root \in Lineage(ast, n)
                                    /\ n \notin InInlineActions
                                    /\ n \notin Walked}
<1>0. IsAst(ast) /\ Nodes = DOMAIN ast /\ \A n \in Nodes : n \in Nat
  BY TreeIs DEF Nodes
<1>1. SUFFICES ASSUME Missed # {} PROVE FALSE
  OBVIOUS
<1>2. PICK n \in Missed : \A m \in Missed : n <= m
  <2>1. Missed \in SUBSET Nat
    BY <1>0
  <2> HIDE DEF Missed
  <2> QED
    BY <1>1, <2>1, LeastNumber
<1>3. n \in Nodes /\ n # Root
  BY WalkedIs
<1>4. PICK p : p = Owner(ast, n)
  OBVIOUS
<1>5. p # NoNode /\ Root \in Lineage(ast, p)
  BY <1>0, <1>3, <1>4, LineageIs
<1>6. p \in Nodes /\ n \in Range(Children(ast, p)) /\ p < n
  BY <1>0, <1>3, <1>4, <1>5, Owned
<1>7. /\ n \in Range(ast[p].members) \cup Range(ast[p].targets)
      /\ ast[p].kind \notin ExprKinds
  BY <1>6, DeclarationsOwned
<1>8. n \in Members[p] /\ p \notin InInlineActions
  BY <1>6, <1>7, InlineIsClosed DEF Members
<1>9. p \notin Walked
  BY <1>8, WalkedIs
<1>10. p \in Missed
  BY <1>5, <1>6, <1>7, <1>8, <1>9
<1> QED
  BY <1>0, <1>2, <1>3, <1>6, <1>10

\* What the walk for ports has reported so far: all that is wrong with the ends
\* of the usages it has seen.
EndsChecked(n) ==
  (ast[n].kind = "usage" /\ ~ C!SkipsPortCheck(n)) =>
    \A i \in DOMAIN ast[n].ends :
      C!EndErrors(ast[n].ends[i], C!EndRole(n, i)) \subseteq errors

EndsSoFar ==
  stage = "connections" => \A n \in Walked : Visited(n) => EndsChecked(n)

LEMMA CheckingKeeps ==
  ASSUME Fit, EndsSoFar, ConnectionsStep
  PROVE  EndsSoFar'
<1>1. PICK n \in R!Current : C!CheckConnection(n)
  BY DEF ConnectionsStep
<1>2. /\ Visits(n) /\ stage = "connections" /\ stage' = stage
      /\ UNCHANGED <<ast, resolved, parity>> /\ ast \in Programs
  BY <1>1, ConnectionsWalk DEF Fit, ConnectionsStep, driver
<1> DEFINE found == IF ast[n].kind = "usage" /\ ~ C!SkipsPortCheck(n)
                    THEN UNION {C!EndErrors(ast[n].ends[i], C!EndRole(n, i)) :
                                  i \in DOMAIN ast[n].ends}
                    ELSE {}
<1>3. errors' = errors \cup found
  BY <1>1 DEF C!CheckConnection
<1>4. EndsChecked(n)'
  <2>1. ASSUME NEW i \in DOMAIN ast[n].ends, ast[n].kind = "usage", ~ C!SkipsPortCheck(n)
        PROVE  C!EndErrors(ast[n].ends[i], C!EndRole(n, i)) \subseteq errors'
    BY <1>3, <2>1
  <2>2. \A i : C!EndErrors(ast[n].ends[i], C!EndRole(n, i))' = C!EndErrors(ast[n].ends[i], C!EndRole(n, i))
    BY <1>2 DEF C!EndErrors, C!EndRole, C!NoNode, C!isPortLike, C!IsPortUsage, C!declaredType,
                C!EffectiveDirection, C!flipDirection
  <2>3. C!SkipsPortCheck(n)' <=> C!SkipsPortCheck(n)
    BY <1>2 DEF C!SkipsPortCheck
  <2> HIDE DEF found
  <2> QED
    BY <1>2, <2>1, <2>2, <2>3 DEF EndsChecked
<1>5. ASSUME NEW m, EndsChecked(m) PROVE EndsChecked(m)'
  <2>1. \A i : C!EndErrors(ast[m].ends[i], C!EndRole(m, i))' = C!EndErrors(ast[m].ends[i], C!EndRole(m, i))
    BY <1>2 DEF C!EndErrors, C!EndRole, C!NoNode, C!isPortLike, C!IsPortUsage, C!declaredType,
                C!EffectiveDirection, C!flipDirection
  <2>2. C!SkipsPortCheck(m)' <=> C!SkipsPortCheck(m)
    BY <1>2 DEF C!SkipsPortCheck
  <2>3. errors \subseteq errors'
    BY <1>3
  <2> HIDE DEF found
  <2> QED
    BY <1>2, <1>5, <2>1, <2>2, <2>3 DEF EndsChecked
<1> HIDE DEF found
<1>6. Walked' = Walked
  BY <1>2, SameTree
<1>7. \A m \in Walked : Visited(m)' => EndsChecked(m)'
  BY <1>2, <1>4, <1>5 DEF Visits, EndsSoFar
<1> QED
  BY <1>2, <1>6, <1>7 DEF EndsSoFar

LEMMA StepEnds == Fit /\ EndsSoFar /\ [Next]_vars => EndsSoFar'
<1> SUFFICES ASSUME Fit, EndsSoFar, [Next]_vars PROVE EndsSoFar'
  OBVIOUS
<1>1. CASE ConnectionsStep
  BY <1>1, CheckingKeeps
<1>2. CASE ResolveStep \/ TypesStep \/ RedefinitionsStep \/ ReferencesStep
  BY <1>2 DEF ResolveStep, TypesStep, RedefinitionsStep, ReferencesStep, driver, EndsSoFar
<1>3. CASE PassEnds
  <2>1. errors' = {} /\ (stage' = "connections" => \A m : ~ Visited(m)')
    BY <1>3, BeginsFit DEF Walks
  <2> QED
    BY <2>1 DEF EndsSoFar
<1>4. CASE PassFails \/ Around \/ UNCHANGED vars
  <2>1. /\ UNCHANGED <<ast, resolved, parity, errors, todo>>
        /\ stage' = "connections" => stage = "connections"
    BY <1>4 DEF PassFails, Around, vars, driver, D!PassFails, D!Exit, D!Read, D!ReadFails,
                D!DumpTokens, D!ParseFails, D!Emit, D!Exited, D!vars
  <2>2. \A m : Visited(m)' <=> Visited(m)
    BY <2>1, SameTree DEF Visited, Pending, Waiting
  <2>3. ASSUME NEW m PROVE EndsChecked(m)' <=> EndsChecked(m)
    BY <2>1 DEF EndsChecked, C!SkipsPortCheck, C!EndErrors, C!EndRole, C!NoNode, C!isPortLike,
                C!IsPortUsage, C!declaredType, C!EffectiveDirection, C!flipDirection
  <2> QED
    BY <2>1, <2>2, <2>3, SameTree DEF EndsSoFar
<1> QED
  BY <1>1, <1>2, <1>3, <1>4 DEF Next

\* WalkedEndsArePorts (connectchecker.c walk): an end that is bound to something
\* else than a port is reported, wherever in the program its usage stands,
\* unless that is in an inline action.
THEOREM WalkedEndsAreAlwaysPorts == Spec => []WalkedEndsArePorts
<1>1. Fit /\ EndsSoFar => WalkedEndsArePorts
  <2> SUFFICES ASSUME Fit, EndsSoFar, stage = "connections", todo = <<>>,
                      NEW u \in Connecting, u \notin InInlineActions,
                      NEW r \in Range(ast[u].ends),
                      resolved[r] # NoNode, ~ C!isPortLike(resolved[r])
               PROVE  <<"end is not a port", r>> \in errors
    BY DEF WalkedEndsArePorts, EndsReported, EndOf
  <2>1. ast \in Programs
    BY DEF Fit
  <2>2. u \in Nodes /\ ast[u].kind = "usage" /\ ~ C!SkipsPortCheck(u) /\ Root \in Lineage(ast, u)
    BY DEF Connecting
  <2>3. u \in Walked
    BY <2>1, <2>2, RestIsWalked DEF ExprKinds
  <2>4. EndsChecked(u)
    BY <2>1, <2>3, WalkEnds DEF EndsSoFar
  <2>5. PICK i \in DOMAIN ast[u].ends : r = ast[u].ends[i]
    BY DEF Range
  <2>6. <<"end is not a port", r>> \in C!EndErrors(ast[u].ends[i], C!EndRole(u, i))
    BY <2>5 DEF C!EndErrors, C!NoNode, NoNode
  <2> QED
    BY <2>2, <2>4, <2>5, <2>6 DEF EndsChecked
<1>2. Init => EndsSoFar
  BY DEF Init, D!Init, EndsSoFar
<1> QED
  BY <1>1, <1>2, AlwaysFit, StepEnds, PTL DEF Spec

----------------------------------------------------------------------------
(***************************************************************************)
(* Subtypes.                                                               *)
(***************************************************************************)
LEMMA SupertypesAre ==
  ASSUME ast \in Programs, resolved \in Bindings(ast)
  PROVE  /\ \A n \in Nodes : Supertypes[n] \subseteq Nodes
         /\ \A n \in Nodes, c \in Nodes :
              c \in Supertypes[n] <=> /\ ast[n].kind = "definition"
                                      /\ \E i \in DOMAIN ast[n].specializes :
                                           resolved[ast[n].specializes[i]] = c
         /\ \A n \in Nodes : \A i \in DOMAIN ast[n].specializes :
              resolved[ast[n].specializes[i]] \in Nodes \cup {NoNode}
<1>1. ASSUME NEW n \in Nodes, NEW i \in DOMAIN ast[n].specializes
      PROVE  resolved[ast[n].specializes[i]] \in Nodes \cup {NoNode}
  <2>1. ast[n].specializes[i] \in Nodes
    BY TreeIs, AstLists, ElementOfSeq, LenProperties DEF Nodes
  <2> QED
    BY <2>1 DEF Bindings, Nodes
<1>2. \A n \in Nodes : NoNode # n
  BY TreeIs
<1>3. ASSUME NEW n \in Nodes
      PROVE  Known(ast[n].specializes) = {resolved[ast[n].specializes[i]] : i \in DOMAIN ast[n].specializes} \ {NoNode}
  BY DEF Known, Range
<1>4. \A n \in Nodes : Supertypes[n] = IF ast[n].kind = "definition" THEN Known(ast[n].specializes) ELSE {}
  BY DEF Supertypes
<1> QED
  BY <1>1, <1>2, <1>3, <1>4

\* One step of the specialization test, at depth d, when g is what the deeper
\* steps say.
SpecStep(d, c, b, g) ==
  /\ c # NoNode
  /\ \/ c = b
     \/ /\ d < MaxDepth
        /\ ast[c].kind = "definition"
        /\ \E i \in DOMAIN ast[c].specializes :
             g[resolved[ast[c].specializes[i]]]

Specializes(g, b) ==
  \A d \in 0 .. MaxDepth, c \in Nodes \cup {NoNode} : g[d][c] <=> SpecStep(d, c, b, g[d + 1])

\* The recursion of the test is well defined.
LEMMA SpecIs ==
  ASSUME NEW a \in Nodes \cup {NoNode}, NEW b
  PROVE  \E g : /\ Specializes(g, b)
                /\ F!specializesType(a, b) <=> b # NoNode /\ g[0][a]
<1> DEFINE M == Nodes \cup {NoNode}
           depths == 0 .. MaxDepth
           S == [M -> BOOLEAN]
           rank == [d \in depths |-> MaxDepth - d]
           up == [d \in depths |-> d + 1]
           start == [d \in depths |-> [c \in M |-> c # NoNode /\ c = b]]
           step == [d \in depths |-> [h \in S |-> [c \in M |-> SpecStep(d, c, b, h)]]]
           Value(f, d) == [c \in M |-> SpecStep(d, c, b, f[d + 1])]
           IsIt(f) == f = [d \in depths |-> Value(f, d)]
<1>1. /\ MaxDepth \in Nat
      /\ \A d \in depths : rank[d] \in Nat
      /\ \A d \in depths : up[d] \in depths <=> d # MaxDepth
      /\ \A d \in depths : up[d] \in depths => rank[up[d]] < rank[d]
  BY MaxDepthAssumption
<1>2. PICK f : Follows(f, depths, S, up, start, step)
  <2>1. \A d \in depths : start[d] \in S
    OBVIOUS
  <2>2. ASSUME NEW d \in depths, NEW h \in S PROVE step[d][h] \in S
    <3>1. \A c \in M : SpecStep(d, c, b, h) \in BOOLEAN
      BY DEF SpecStep
    <3>2. step[d][h] = [c \in M |-> SpecStep(d, c, b, h)]
      OBVIOUS
    <3> QED
      BY <3>1, <3>2
  <2> HIDE DEF start, step, up, rank, depths, S
  <2> QED
    BY <1>1, <2>1, <2>2, DefinedByRank
<1>3. /\ f \in [depths -> S]
      /\ \A d \in depths : f[d] = IF up[d] \in depths THEN step[d][f[up[d]]] ELSE start[d]
  BY <1>2 DEF Follows
<1>4. ASSUME NEW d \in depths PROVE f[d] = Value(f, d)
  <2>1. CASE d = MaxDepth
    <3>1. f[d] = start[d]
      BY <1>1, <1>3, <2>1
    <3>2. \A c \in M : SpecStep(d, c, b, f[d + 1]) <=> (c # NoNode /\ c = b)
      BY <1>1, <2>1 DEF SpecStep
    <3>3. start[d] = [c \in M |-> c # NoNode /\ c = b]
      OBVIOUS
    <3>4. [c \in M |-> SpecStep(d, c, b, f[d + 1])] = [c \in M |-> c # NoNode /\ c = b]
      <4>1. \A c \in M : SpecStep(d, c, b, f[d + 1]) = (c # NoNode /\ c = b)
        BY <3>2 DEF SpecStep
      <4> QED
        BY <4>1
    <3> QED
      BY <3>1, <3>3, <3>4
  <2>2. CASE d # MaxDepth
    <3>1. d + 1 \in depths /\ up[d] = d + 1 /\ up[d] \in depths
      BY <1>1, <2>2
    <3>2. f[d + 1] \in S
      BY <1>3, <3>1
    <3> HIDE DEF S
    <3>3. step[d][f[d + 1]] = [c \in M |-> SpecStep(d, c, b, f[d + 1])]
      BY <3>2
    <3>4. f[d] = step[d][f[d + 1]]
      BY <1>3, <3>1
    <3> QED
      BY <2>2, <3>3, <3>4
  <2> QED
    BY <2>1, <2>2
<1> HIDE DEF step, start, up
<1>5. IsIt(f)
  <2> HIDE DEF Value
  <2> QED
    BY <1>3, <1>4
<1>6. F!specializesType(a, b) <=> b # NoNode /\ (CHOOSE g : IsIt(g))[0][a]
  BY Zenon DEF F!specializesType, SpecStep, F!Nodes, Nodes, F!NoNode, NoNode
<1>7. PICK g : IsIt(g) /\ (F!specializesType(a, b) <=> b # NoNode /\ g[0][a])
  <2>1. IsIt(CHOOSE g : IsIt(g))
    <3> HIDE DEF IsIt
    <3> QED
      BY <1>5, Zenon
  <2> HIDE DEF IsIt
  <2> QED
    BY <1>6, <2>1
<1>8. \A d \in depths : g[d] = Value(g, d)
  <2> HIDE DEF Value
  <2> QED
    BY <1>7
<1>9. \A d \in depths, c \in M : g[d][c] = SpecStep(d, c, b, g[d + 1])
  <2> HIDE DEF depths, M
  <2> QED
    BY <1>8
<1>10. \A d \in depths, c \in M : g[d][c] <=> SpecStep(d, c, b, g[d + 1])
  BY <1>9
<1> QED
  BY <1>7, <1>10 DEF Specializes

\* Whoever passes the test is a subtype, however deep it had to look.
LEMMA SpecializesIsSubtype ==
  ASSUME ast \in Programs, resolved \in Bindings(ast),
         NEW a \in Nodes \cup {NoNode}, NEW b \in Nodes \cup {NoNode},
         F!specializesType(a, b)
  PROVE  IsSubtype(a, b) /\ a \in Nodes /\ b \in Nodes
<1>1. PICK g : Specializes(g, b) /\ b # NoNode /\ g[0][a]
  BY SpecIs
<1> DEFINE A(c) == Above({c}, Supertypes)
           depths == 0 .. MaxDepth
           M == Nodes \cup {NoNode}
           Fine(d) == \A c \in M : g[d][c] => c # NoNode /\ b \in A(c)
<1>2. ASSUME NEW c \in Nodes
      PROVE  /\ c \in A(c)
             /\ \A s \in Supertypes[c] : A(s) \subseteq A(c)
  <2>1. {c} \in SUBSET Nodes
    OBVIOUS
  <2>2. c \in A(c) /\ A(c) \in SUBSET Nodes /\ IsClosed(A(c), Supertypes)
    BY <2>1, TreeIs, SupertypesAre, AboveIs
  <2>3. ASSUME NEW s \in Supertypes[c] PROVE A(s) \subseteq A(c)
    <3>1. s \in A(c)
      BY <2>2, <2>3 DEF IsClosed
    <3>2. {s} \in SUBSET Nodes /\ {s} \subseteq A(c)
      BY <2>2, <3>1
    <3> QED
      BY <2>2, <3>2, TreeIs, SupertypesAre, AboveIs
  <2> QED
    BY <2>2, <2>3
<1> HIDE DEF A
<1>3. ASSUME NEW d \in depths, d + 1 \in depths => Fine(d + 1) PROVE Fine(d)
  <2> SUFFICES ASSUME NEW c \in M, g[d][c] PROVE c # NoNode /\ b \in A(c)
    OBVIOUS
  <2>1. SpecStep(d, c, b, g[d + 1])
    BY <1>1 DEF Specializes
  <2>2. c # NoNode /\ c \in Nodes
    BY <2>1 DEF SpecStep
  <2>3. CASE c = b
    BY <1>2, <2>2, <2>3
  <2>4. CASE c # b
    <3>1. /\ d < MaxDepth /\ ast[c].kind = "definition"
          /\ \E i \in DOMAIN ast[c].specializes : g[d + 1][resolved[ast[c].specializes[i]]]
      BY <2>1, <2>4 DEF SpecStep
    <3>2. d + 1 \in depths
      BY <3>1, MaxDepthAssumption
    <3>3. PICK i \in DOMAIN ast[c].specializes : g[d + 1][resolved[ast[c].specializes[i]]]
      BY <3>1
    <3>4. PICK s \in M : s = resolved[ast[c].specializes[i]]
      BY <2>2, SupertypesAre
    <3>5. s # NoNode /\ b \in A(s)
      BY <1>3, <3>2, <3>3, <3>4
    <3>6. s \in Supertypes[c]
      BY <2>2, <3>1, <3>4, <3>5, SupertypesAre
    <3> QED
      BY <1>2, <2>2, <3>5, <3>6
  <2> QED
    BY <2>3, <2>4
<1> DEFINE Bad == {d \in depths : ~ Fine(d)}
           Ranks == {MaxDepth - d : d \in Bad}
<1>4. Bad = {}
  <2> SUFFICES ASSUME Bad # {} PROVE FALSE
    OBVIOUS
  <2> HIDE DEF Fine
  <2>1. PICK n \in Ranks : \A m \in Ranks : n <= m
    <3>1. Ranks \in SUBSET Nat /\ Ranks # {}
      BY MaxDepthAssumption
    <3> HIDE DEF Ranks
    <3> QED
      BY <3>1, LeastNumber
  <2>2. PICK d \in Bad : \A e \in Bad : MaxDepth - d <= MaxDepth - e
    BY <2>1
  <2>3. d + 1 \notin Bad
    <3>1. d + 1 \in depths => ~ (MaxDepth - d <= MaxDepth - (d + 1))
      BY MaxDepthAssumption
    <3> QED
      BY <2>2, <3>1
  <2> QED
    BY <1>3, <2>2, <2>3
<1>5. 0 \in depths
  BY MaxDepthAssumption
<1>6. Fine(0)
  BY <1>4, <1>5
<1>7. a \in Nodes /\ b \in A(a) /\ a # NoNode
  BY <1>1, <1>6
<1> QED
  BY <1>1, <1>7 DEF IsSubtype, A

\* Being a subtype is a preorder.
LEMMA SubtypesOrdered ==
  ASSUME ast \in Programs, resolved \in Bindings(ast), NEW a \in Nodes
  PROVE  /\ IsSubtype(a, a)
         /\ \A b, c \in Nodes : IsSubtype(a, b) /\ IsSubtype(b, c) => IsSubtype(a, c)
<1>1. a # NoNode /\ {a} \in SUBSET Nodes
  BY TreeIs
<1>2. /\ a \in Above({a}, Supertypes) /\ Above({a}, Supertypes) \in SUBSET Nodes
      /\ IsClosed(Above({a}, Supertypes), Supertypes)
  BY <1>1, TreeIs, SupertypesAre, AboveIs
<1>3. ASSUME NEW b \in Nodes, NEW c \in Nodes, IsSubtype(a, b), IsSubtype(b, c)
      PROVE  IsSubtype(a, c)
  <2>1. {b} \in SUBSET Nodes /\ {b} \subseteq Above({a}, Supertypes)
    BY <1>3 DEF IsSubtype
  <2>2. Above({b}, Supertypes) \subseteq Above({a}, Supertypes)
    BY <1>2, <2>1, TreeIs, SupertypesAre, AboveIs
  <2> QED
    BY <1>1, <1>3, <2>2 DEF IsSubtype
<1> QED
  BY <1>1, <1>2, <1>3 DEF IsSubtype

----------------------------------------------------------------------------
(***************************************************************************)
(* Redefinitions.                                                          *)
(***************************************************************************)
\* Only names in a list of redefinitions have been bound anew.
OnlyRedefinitions(n) ==
  \A r \in Nodes : r \notin Range(ast[n].redefines) => resolved'[r] = resolved[r]

\* The binding of any other name of a declaration is the same.
LEMMA OthersStay ==
  ASSUME ast \in Programs, NEW n \in Nodes, OnlyRedefinitions(n), NEW m \in Nodes
  PROVE  /\ \A r \in Range(ast[m].types) \cup Range(ast[m].specializes) \cup Range(ast[m].links) :
              resolved'[r] = resolved[r]
         /\ m # n => \A r \in Range(ast[m].redefines) : resolved'[r] = resolved[r]
<1>0. IsAst(ast) /\ Nodes = DOMAIN ast
  BY TreeIs DEF Nodes
<1>1. Apart(ast, m) /\ Apart(ast, n)
  BY <1>0, ListsApart
<1>2. \A r \in Range(Children(ast, m)) : r \in Nodes
  BY <1>0, OneOwner
<1>3. \A r \in Range(Children(ast, m)) : r \in Range(Children(ast, n)) => m = n
  BY <1>0, OneOwner
<1>4. ASSUME NEW r \in Range(ast[m].types) \cup Range(ast[m].specializes) \cup Range(ast[m].links)
      PROVE  r \in Nodes /\ r \notin Range(ast[n].redefines)
  <2>1. r \in Range(Children(ast, m)) /\ r \notin Range(ast[m].redefines)
    BY <1>1 DEF Apart
  <2>2. r \in Range(ast[n].redefines) => r \in Range(Children(ast, n))
    BY <1>1 DEF Apart
  <2> QED
    BY <1>2, <1>3, <2>1, <2>2
<1>5. ASSUME m # n, NEW r \in Range(ast[m].redefines)
      PROVE  r \in Nodes /\ r \notin Range(ast[n].redefines)
  <2>1. r \in Range(Children(ast, m)) /\ (r \in Range(ast[n].redefines) => r \in Range(Children(ast, n)))
    BY <1>1, <1>5 DEF Apart
  <2> QED
    BY <1>2, <1>3, <1>5, <2>1
<1> QED
  BY <1>4, <1>5 DEF OnlyRedefinitions

\* So types do not change.
LEMMA TypesStay ==
  ASSUME ast \in Programs, ast' = ast, NEW n \in Nodes, OnlyRedefinitions(n)
  PROVE  /\ \A m \in Nodes : F!declaredType(m)' = F!declaredType(m)
         /\ Supertypes' = Supertypes
         /\ \A a, b : IsSubtype(a, b)' <=> IsSubtype(a, b)
<1>1. ASSUME NEW m \in Nodes PROVE F!declaredType(m)' = F!declaredType(m)
  <2>1. CASE ast[m].types = <<>>
    BY <2>1 DEF F!declaredType, F!NoNode
  <2>2. CASE ast[m].types # <<>>
    <3>1. ast[m].types[1] \in Range(ast[m].types)
      <4>1. PICK s \in Seq(Nodes) : s = ast[m].types /\ s # <<>>
        BY <2>2, TreeIs, AstLists DEF Nodes
      <4>2. 1 \in DOMAIN s
        BY <4>1, EmptySeq, LenProperties
      <4> QED
        BY <4>1, <4>2 DEF Range
    <3>2. resolved'[ast[m].types[1]] = resolved[ast[m].types[1]]
      BY <3>1, OthersStay
    <3> QED
      BY <3>2 DEF F!declaredType, F!NoNode
  <2> QED
    BY <2>1, <2>2
<1>2. Supertypes' = Supertypes
  <2>1. ASSUME NEW m \in Nodes PROVE Known(ast[m].specializes)' = Known(ast[m].specializes)
    <3>1. {resolved'[r] : r \in Range(ast[m].specializes)} = {resolved[r] : r \in Range(ast[m].specializes)}
      BY OthersStay
    <3> QED
      BY <3>1 DEF Known, Range, NoNode
  <2>2. Supertypes' = [t \in Nodes |-> IF ast[t].kind = "definition" THEN Known(ast[t].specializes)' ELSE {}]
    BY SameTree DEF Supertypes, Known, Range, NoNode
  <2> QED
    BY <2>1, <2>2 DEF Supertypes
<1>3. ASSUME NEW a, NEW b PROVE IsSubtype(a, b)' <=> IsSubtype(a, b)
  <2>1. PICK W, up : W = {a} /\ up = Supertypes
    OBVIOUS
  <2>2. Above({a}, Supertypes)' = Above(W, up)'
    BY <1>2, <2>1 DEF Above
  <2>3. Above(W, up)' = Above({a}, Supertypes)
    BY <2>1, SameTree
  <2> QED
    BY <2>2, <2>3 DEF IsSubtype, NoNode
<1> QED
  BY <1>1, <1>2, <1>3

\* The attributes that redefine something stand in a type or a usage.
LEMMA RedefiningIs ==
  ASSUME ast \in Programs, NEW a \in Redefining
  PROVE  /\ a \in Walked /\ a \in Nodes
         /\ ast[a].kind = "attribute"
         /\ Owner(ast, a) \in Walked /\ a \in Members[Owner(ast, a)]
         /\ Under("redefinitions", a) = Owner(ast, a) /\ Owner(ast, a) # NoNode
<1>1. PICK p \in Walked : /\ ast[p].kind \in {"definition", "usage"}
                          /\ a \in Members[p] /\ ast[a].kind = "attribute"
  BY WalkedIs DEF Redefining, Members
<1>2. p \in Nodes /\ p # NoNode /\ Owner(ast, a) = p
  BY <1>1, WalkedIs, TreeIs, MembersOwned
<1> QED
  BY <1>1, <1>2, WalkedIs DEF Under

\* What the redefinitions of an attribute have to be like.
RedefinedWell(a) ==
  \A r \in Range(ast[a].redefines) :
    /\ resolved[r] # NoNode
    /\ ast[resolved[r]].const => ast[a].const
    /\ (/\ Len(ast[r].parts) <= 2
        /\ F!declaredType(a) # NoNode
        /\ F!declaredType(resolved[r]) # NoNode) =>
         IsSubtype(F!declaredType(a), F!declaredType(resolved[r]))

RedefinedSoFar ==
  (stage = "redefinitions" /\ errors = {}) =>
    \A a \in Redefining : Visited(a) => RedefinedWell(a)

LEMMA NamesHaveParts ==
  ASSUME ast \in Programs, NEW a \in Nodes, NEW r \in Range(ast[a].redefines)
  PROVE  r \in Nodes /\ Len(ast[r].parts) \in Nat
<1>0. PICK rs \in Seq(Nodes) : rs = ast[a].redefines
  BY TreeIs, AstLists DEF Nodes
<1>1. r \in Nodes /\ IsAst(ast)
  BY <1>0, TreeIs, ElementOfSeq, LenProperties DEF Range
<1>2. ast[r] \in NodeRecord(Nodes)
  BY <1>1 DEF IsAst, Nodes
<1>3. PICK s \in Seq(STRING) : s = ast[r].parts
  BY <1>2 DEF NodeRecord
<1> QED
  BY <1>1, <1>3, LenProperties

LEMMA DeclaredTypeIs ==
  ASSUME ast \in Programs, resolved \in Bindings(ast), NEW a \in Nodes
  PROVE  F!declaredType(a) \in Nodes \cup {NoNode}
<1>1. CASE ast[a].types = <<>>
  BY <1>1 DEF F!declaredType, F!NoNode, NoNode
<1>2. CASE ast[a].types # <<>>
  <2>1. PICK s \in Seq(Nodes) : s = ast[a].types /\ s # <<>>
    BY <1>2, TreeIs, AstLists DEF Nodes
  <2>2. 1 \in DOMAIN s
    BY <2>1, EmptySeq, LenProperties
  <2>3. s[1] \in Nodes
    BY <2>1, <2>2, ElementOfSeq, LenProperties
  <2>4. resolved[s[1]] \in Nodes \cup {NoNode}
    BY <2>3 DEF Bindings, Nodes
  <2> QED
    BY <2>1, <2>4 DEF F!declaredType, F!NoNode, NoNode
<1> QED
  BY <1>1, <1>2

LEMMA RedefiningKeeps ==
  ASSUME Fit, RedefinedSoFar, RedefinitionsStep
  PROVE  RedefinedSoFar'
<1>1. PICK n \in R!Current : F!CheckRedefinitions(n)
  BY DEF RedefinitionsStep
<1>2. /\ Visits(n) /\ stage = "redefinitions" /\ stage' = stage /\ ast' = ast
      /\ ast \in Programs /\ resolved \in Bindings(ast) /\ n \in Nodes
  BY <1>1, RedefinitionsWalk, WalkedIs DEF Fit, RedefinitionsStep, driver, Visits
<1>3. PICK p : p = Head(todo).under
  OBVIOUS
<1>4. /\ resolved' \in Bindings(ast)
      /\ \A r \in Nodes :
           IF /\ ast[n].kind = "attribute" /\ p # NoNode /\ r \in Range(ast[n].redefines)
              /\ F!Redefined(r, p) # NoNode
           THEN resolved'[r] = F!Redefined(r, p)
           ELSE resolved'[r] = resolved[r]
      /\ p \in Nodes \cup {NoNode}
      /\ p = Under("redefinitions", n)
  BY <1>1, <1>2, <1>3, RedefinitionsBind, CallForIs DEF Fit, Visits
<1>5. OnlyRedefinitions(n)
  BY <1>4 DEF OnlyRedefinitions
<1>6. errors' = errors \cup UNION {F!RedefErrors(r, n, p) :
                                     r \in IF ast[n].kind = "attribute" /\ p # NoNode
                                           THEN Range(ast[n].redefines) ELSE {}}
  BY <1>1, <1>3, Zenon DEF F!CheckRedefinitions, F!NoNode, NoNode, F!Range, Range
<1>7. Redefining' = Redefining /\ Visits(n)
  BY <1>2, SameTree DEF Redefining, Range
<1> SUFFICES ASSUME errors' = {}, NEW a \in Redefining, Visited(a)'
             PROVE  RedefinedWell(a)'
  BY <1>2, <1>7 DEF RedefinedSoFar
<1>8. a \in Nodes /\ ast[a].kind = "attribute" /\ Under("redefinitions", a) \in Nodes /\ Under("redefinitions", a) # NoNode
  BY <1>2, RedefiningIs, WalkedIs
<1>9. ASSUME NEW r \in Range(ast[a].redefines), resolved'[r] # NoNode,
             ast[resolved'[r]].const => ast[a].const,
             (/\ Len(ast[r].parts) <= 2
              /\ F!declaredType(a) # NoNode
              /\ F!declaredType(resolved'[r]) # NoNode) =>
               IsSubtype(F!declaredType(a), F!declaredType(resolved'[r]))
      PROVE  /\ resolved[r]' # NoNode
             /\ (ast[resolved[r]].const => ast[a].const)'
             /\ ((/\ Len(ast[r].parts) <= 2
                  /\ F!declaredType(a) # NoNode
                  /\ F!declaredType(resolved[r]) # NoNode) =>
                   IsSubtype(F!declaredType(a), F!declaredType(resolved[r])))'
  <2>1. r \in Nodes /\ resolved'[r] \in Nodes
    BY <1>2, <1>4, <1>8, <1>9, NamesHaveParts DEF Bindings, Nodes
  <2>2. PICK b \in Nodes : b = resolved'[r]
    BY <2>1
  <2>3. F!declaredType(a)' = F!declaredType(a) /\ F!declaredType(b)' = F!declaredType(b)
    BY <1>2, <1>5, <1>8, TypesStay
  <2>4. F!declaredType(resolved[r])' = F!declaredType(b)'
    BY <2>2 DEF F!declaredType, F!NoNode
  <2>5. PICK y, z : y = F!declaredType(a) /\ z = F!declaredType(b)
    OBVIOUS
  <2>6. IsSubtype(F!declaredType(a), F!declaredType(resolved[r]))' <=> IsSubtype(y, z)'
    BY <2>3, <2>4, <2>5 DEF IsSubtype, Above, NoNode
  <2>7. IsSubtype(y, z)' <=> IsSubtype(y, z)
    BY <1>2, <1>5, TypesStay
  <2> QED
    BY <1>2, <1>9, <2>2, <2>3, <2>4, <2>5, <2>6, <2>7 DEF NoNode
<1>10. CASE a # n
  <2>1. Visited(a)
    BY <1>7, <1>10 DEF Visits
  <2>2. errors = {}
    BY <1>6
  <2>3. RedefinedWell(a)
    BY <1>2, <2>1, <2>2 DEF RedefinedSoFar
  <2>4. \A r \in Range(ast[a].redefines) : resolved'[r] = resolved[r]
    BY <1>2, <1>5, <1>8, <1>10, OthersStay
  <2>5. ASSUME NEW r \in Range(ast[a].redefines)
        PROVE  /\ resolved'[r] # NoNode
               /\ ast[resolved'[r]].const => ast[a].const
               /\ (/\ Len(ast[r].parts) <= 2
                   /\ F!declaredType(a) # NoNode
                   /\ F!declaredType(resolved'[r]) # NoNode) =>
                    IsSubtype(F!declaredType(a), F!declaredType(resolved'[r]))
    BY <2>3, <2>4 DEF RedefinedWell
  <2> QED
    BY <1>2, <1>9, <2>5 DEF RedefinedWell, Range, NoNode
<1>11. CASE a = n
  <2>1. p \in Nodes /\ p # NoNode /\ ast[n].kind = "attribute"
    BY <1>4, <1>8, <1>11
  <2>2. ASSUME NEW r \in Range(ast[n].redefines)
        PROVE  /\ resolved'[r] # NoNode
               /\ ast[resolved'[r]].const => ast[n].const
               /\ (/\ Len(ast[r].parts) <= 2
                   /\ F!declaredType(n) # NoNode
                   /\ F!declaredType(resolved'[r]) # NoNode) =>
                    IsSubtype(F!declaredType(n), F!declaredType(resolved'[r]))
    <3>1. F!RedefErrors(r, n, p) = {}
      BY <1>6, <2>1
    <3>2. PICK found : found = F!Redefined(r, p)
      OBVIOUS
    <3>3. /\ found # NoNode /\ F!Narrows(r, n, found)
          /\ ast[found].const => ast[n].const
      BY <3>1, <3>2 DEF F!RedefErrors, F!StaysConstant, F!NoNode, NoNode
    <3>4. r \in Nodes /\ Len(ast[r].parts) \in Nat
      BY <1>2, NamesHaveParts
    <3>5. resolved'[r] = found /\ found \in Nodes
      BY <1>2, <1>4, <2>1, <3>2, <3>3, <3>4, RedefinedIs
    <3>6. F!declaredType(n) \in Nodes \cup {NoNode} /\ F!declaredType(found) \in Nodes \cup {NoNode}
      BY <1>2, <3>5, DeclaredTypeIs
    <3>7. Len(ast[r].parts) <= 2 => ~ (Len(ast[r].parts) > 2)
      BY <3>4
    <3>8. ASSUME Len(ast[r].parts) <= 2, F!declaredType(n) # NoNode, F!declaredType(found) # NoNode
          PROVE  IsSubtype(F!declaredType(n), F!declaredType(found))
      <4>1. F!specializesType(F!declaredType(n), F!declaredType(found))
        BY <3>3, <3>7, <3>8 DEF F!Narrows, F!NoNode, NoNode
      <4> QED
        BY <1>2, <3>6, <4>1, SpecializesIsSubtype
    <3> QED
      BY <3>3, <3>5, <3>8
  <2> QED
    BY <1>2, <1>9, <1>11, <2>2 DEF RedefinedWell, Range, NoNode
<1> QED
  BY <1>10, <1>11

LEMMA StepRedefined == Fit /\ RedefinedSoFar /\ [Next]_vars => RedefinedSoFar'
<1> SUFFICES ASSUME Fit, RedefinedSoFar, [Next]_vars PROVE RedefinedSoFar'
  OBVIOUS
<1>1. CASE RedefinitionsStep
  BY <1>1, RedefiningKeeps
<1>2. CASE ResolveStep \/ TypesStep \/ ConnectionsStep \/ ReferencesStep
  BY <1>2 DEF ResolveStep, TypesStep, ConnectionsStep, ReferencesStep, driver, RedefinedSoFar
<1>3. CASE PassEnds
  <2>1. stage' = "redefinitions" => \A m : ~ Visited(m)'
    BY <1>3, BeginsFit DEF Walks
  <2> QED
    BY <2>1 DEF RedefinedSoFar
<1>4. CASE PassFails \/ Around \/ UNCHANGED vars
  <2>1. /\ UNCHANGED <<ast, resolved, errors, todo>>
        /\ stage' = "redefinitions" => stage = "redefinitions"
    BY <1>4 DEF PassFails, Around, vars, driver, D!PassFails, D!Exit, D!Read, D!ReadFails,
                D!DumpTokens, D!ParseFails, D!Emit, D!Exited, D!vars
  <2>2. \A m : Visited(m)' <=> Visited(m)
    BY <2>1, SameTree DEF Visited, Pending, Waiting
  <2>3. Redefining' = Redefining
    BY <2>1, SameTree DEF Redefining, Range
  <2>4. ASSUME NEW m PROVE RedefinedWell(m)' <=> RedefinedWell(m)
    BY <2>1 DEF RedefinedWell, Range, NoNode, F!declaredType, F!NoNode, IsSubtype, Above, Nodes,
                Supertypes, Known
  <2> QED
    BY <2>1, <2>2, <2>3, <2>4 DEF RedefinedSoFar
<1> QED
  BY <1>1, <1>2, <1>3, <1>4 DEF Next

LEMMA AlwaysRedefinedWell == Spec => [](Fit /\ RedefinedSoFar)
<1>1. Init => RedefinedSoFar
  BY DEF Init, D!Init, RedefinedSoFar
<1> QED
  BY <1>1, AlwaysFit, StepRedefined, PTL DEF Spec

\* At the end of an accepted walk every redefinition is as it should be.
LEMMA AllRedefinedWell ==
  ASSUME Fit, RedefinedSoFar, Accepted("redefinitions"), NEW a \in Redefining
  PROVE  /\ RedefinedWell(a)
         /\ a \in Nodes /\ Redefines[a] \subseteq Nodes
         /\ \A b \in Redefines[a] : \E r \in Range(ast[a].redefines) : b = resolved[r]
<1>1. /\ ast \in Programs /\ resolved \in Bindings(ast) /\ todo = <<>>
      /\ stage = "redefinitions" /\ errors = {}
  BY DEF Fit, Accepted, EndOf
<1>2. a \in Walked /\ a \in Nodes
  BY <1>1, RedefiningIs
<1>3. RedefinedWell(a)
  BY <1>1, <1>2, WalkEnds DEF RedefinedSoFar
<1>4. Redefines[a] = {resolved[r] : r \in Range(ast[a].redefines)} \ {NoNode}
  BY <1>2 DEF Redefines, Known
<1>5. \A r \in Range(ast[a].redefines) : resolved[r] \in Nodes \cup {NoNode}
  BY <1>1, <1>2, NamesHaveParts DEF Bindings, Nodes
<1> QED
  BY <1>2, <1>3, <1>4, <1>5

\* ConstantsStayConstant (checkOneRedef): in an accepted program the attributes
\* that a constant is redefined by, directly or through others, are constant.
THEOREM ConstantsAlwaysStayConstant == Spec => []ConstantsStayConstant
<1>1. Fit /\ RedefinedSoFar => ConstantsStayConstant
  <2> DEFINE up == [b \in Nodes |-> IF b \in Redefining THEN Redefines[b] ELSE {}]
  <2> SUFFICES ASSUME Fit, RedefinedSoFar, Accepted("redefinitions"), NEW a \in Redefining,
                      NEW b \in Above({a}, up), ast[b].const
               PROVE  ast[a].const
    BY DEF ConstantsStayConstant
  <2>1. ast \in Programs /\ {a} \in SUBSET Nodes
    BY AllRedefinedWell DEF Fit
  <2>2. \A m \in Nodes : up[m] \subseteq Nodes
    BY AllRedefinedWell
  <2> DEFINE A == {c \in Nodes : ast[c].const => ast[a].const}
  <2>3. IsClosed(A, up)
    <3> SUFFICES ASSUME NEW m \in A, NEW c \in up[m], ast[c].const PROVE ast[a].const /\ c \in Nodes
      BY <2>2 DEF IsClosed
    <3>1. m \in Redefining /\ c \in Redefines[m] /\ m \in Nodes
      OBVIOUS
    <3>2. PICK r \in Range(ast[m].redefines) : c = resolved[r]
      BY <3>1, AllRedefinedWell
    <3>3. ast[m].const
      BY <3>1, <3>2, AllRedefinedWell DEF RedefinedWell
    <3> QED
      BY <2>2, <3>3
  <2>4. {a} \subseteq A
    BY <2>1
  <2>5. A \in SUBSET Nodes
    OBVIOUS
  <2> HIDE DEF A, up
  <2>6. Above({a}, up) \subseteq A
    BY <2>1, <2>2, <2>3, <2>4, <2>5, TreeIs, AboveIs
  <2> QED
    BY <2>6 DEF A
<1> QED
  BY <1>1, AlwaysRedefinedWell, PTL

\* TypedChainsNarrow (checkOneRedef, specializesType): along redefinitions that
\* are written with at most one qualifier, by attributes that all have types of
\* their own, types become no wider, over any number of steps.
THEOREM TypedChainsAlwaysNarrow == Spec => []TypedChainsNarrow
<1>1. Fit /\ RedefinedSoFar => TypedChainsNarrow
  <2> DEFINE typed == [b \in Nodes |->
                         IF b \in Redefining
                            /\ \A r \in Range(ast[b].redefines) : Len(ast[r].parts) <= 2
                         THEN {c \in Redefines[b] : F!declaredType(c) # NoNode}
                         ELSE {}]
  <2> SUFFICES ASSUME Fit, RedefinedSoFar, Accepted("redefinitions"), NEW a \in Redefining,
                      F!declaredType(a) # NoNode, NEW b \in Above({a}, typed)
               PROVE  IsSubtype(F!declaredType(a), F!declaredType(b))
    BY DEF TypedChainsNarrow
  <2>1. ast \in Programs /\ resolved \in Bindings(ast) /\ a \in Nodes /\ {a} \in SUBSET Nodes
    BY AllRedefinedWell DEF Fit
  <2>2. ASSUME NEW m \in Nodes, NEW c \in typed[m]
        PROVE  /\ m \in Redefining /\ c \in Redefines[m] /\ c \in Nodes
               /\ F!declaredType(c) # NoNode
               /\ \A r \in Range(ast[m].redefines) : Len(ast[r].parts) <= 2
    BY <2>2, AllRedefinedWell
  <2> DEFINE A == {c \in Nodes : /\ F!declaredType(c) # NoNode
                                 /\ IsSubtype(F!declaredType(a), F!declaredType(c))}
  <2> HIDE DEF typed
  <2>3. IsClosed(A, typed)
    <3> SUFFICES ASSUME NEW m \in A, NEW c \in typed[m]
                 PROVE  IsSubtype(F!declaredType(a), F!declaredType(c))
      BY <2>2 DEF IsClosed
    <3>1. m \in Nodes /\ F!declaredType(m) # NoNode /\ c \in Nodes /\ F!declaredType(c) # NoNode
      BY <2>2
    <3>2. PICK r \in Range(ast[m].redefines) : c = resolved[r]
      BY <2>2, <3>1, AllRedefinedWell
    <3>3. IsSubtype(F!declaredType(m), F!declaredType(c))
      BY <2>2, <3>1, <3>2, AllRedefinedWell DEF RedefinedWell
    <3>4. /\ F!declaredType(a) \in Nodes /\ F!declaredType(m) \in Nodes
          /\ F!declaredType(c) \in Nodes
      BY <2>1, <3>1, DeclaredTypeIs
    <3> QED
      BY <2>1, <3>3, <3>4, SubtypesOrdered
  <2>4. a \in A
    BY <2>1, DeclaredTypeIs, SubtypesOrdered
  <2>5. A \in SUBSET Nodes /\ {a} \subseteq A
    BY <2>4
  <2> HIDE DEF A
  <2>6. Above({a}, typed) \subseteq A
    BY <2>1, <2>2, <2>3, <2>5, TreeIs, AboveIs
  <2> QED
    BY <2>6 DEF A
<1> QED
  BY <1>1, AlwaysRedefinedWell, PTL

----------------------------------------------------------------------------
(***************************************************************************)
(* What redefinitions lead to.                                             *)
(***************************************************************************)
\* Where a declaration gets members from, and what it inherits from in the end.
LEMMA ParentsAre ==
  ASSUME ast \in Programs, resolved \in Bindings(ast), NEW n \in Nodes
  PROVE  /\ Parents[n] = Known(Sources(ast, n)) /\ Parents[n] \subseteq Nodes
         /\ Range(Sources(ast, n)) \subseteq
              Range(ast[n].types) \cup Range(ast[n].specializes) \cup Range(ast[n].links)
<1>1. Parents[n] = Known(Sources(ast, n))
  BY DEF Parents, Sources
<1>2. PICK s \in Seq(Nodes) : s = Sources(ast, n)
  BY TreeIs, SourcesType DEF Nodes
<1>3. ASSUME NEW r \in Range(s) PROVE resolved[r] \in Nodes \cup {NoNode}
  <2>1. r \in Nodes
    BY ElementOfSeq, LenProperties DEF Range
  <2> QED
    BY <2>1 DEF Bindings, Nodes
<1>4. Parents[n] \subseteq Nodes
  BY <1>1, <1>2, <1>3 DEF Known
<1>5. ast[n].types \in Seq(Nodes) /\ ast[n].specializes \in Seq(Nodes)
  BY TreeIs, AstLists DEF Nodes
<1>6. Range(ast[n].types \o ast[n].specializes) = Range(ast[n].types) \cup Range(ast[n].specializes)
  BY <1>5, RangeConcat
<1>7. Range(<<>>) = {}
  BY DEF Range
<1> QED
  BY <1>1, <1>4, <1>6, <1>7 DEF Sources, Ancestors

LEMMA InheritedIs ==
  ASSUME ast \in Programs, resolved \in Bindings(ast), NEW n \in Nodes
  PROVE  /\ Parents[n] \subseteq Inherited(n)
         /\ Inherited(n) \subseteq Nodes
         /\ IsClosed(Inherited(n), Parents)
         /\ LeadsNowhere(ast, resolved, Inherited(n))
<1>1. /\ Parents[n] \subseteq Inherited(n)
      /\ Inherited(n) \subseteq Nodes
      /\ IsClosed(Inherited(n), Parents)
  <2>1. Parents[n] \in SUBSET Nodes /\ \A m \in Nodes : Parents[m] \subseteq Nodes
    BY ParentsAre
  <2> QED
    BY <2>1, TreeIs, AboveIs DEF Inherited
<1>2. ASSUME NEW m \in Inherited(n), NEW r \in Range(Sources(ast, m)), resolved[r] # NoNode
      PROVE  resolved[r] \in Inherited(n)
  <2>1. resolved[r] \in Known(Sources(ast, m))
    BY <1>2 DEF Known
  <2>2. resolved[r] \in Parents[m]
    BY <1>1, <2>1, ParentsAre
  <2> QED
    BY <1>1, <2>2 DEF IsClosed
<1> QED
  BY <1>1, <1>2 DEF LeadsNowhere

\* Redefinitions are no way to inherit.
LEMMA InheritedStays ==
  ASSUME ast \in Programs, resolved \in Bindings(ast), ast' = ast, resolved' \in Bindings(ast),
         NEW n \in Nodes, OnlyRedefinitions(n), NEW m
  PROVE  Inherited(m)' = Inherited(m)
<1>1. ASSUME NEW k \in Nodes PROVE Known(Sources(ast, k))' = Known(Sources(ast, k))
  <2>1. PICK s : s = Sources(ast, k) /\ s = Sources(ast, k)'
    BY DEF Sources, Ancestors
  <2>2. {resolved'[r] : r \in Range(s)} = {resolved[r] : r \in Range(s)}
    BY <2>1, ParentsAre, OthersStay
  <2>3. Known(Sources(ast, k))' = {resolved'[r] : r \in Range(s)} \ {NoNode}
    BY <2>1 DEF Known, Range, NoNode
  <2> QED
    BY <2>1, <2>2, <2>3 DEF Known
<1>2. Parents' = Parents
  <2>1. Parents' = [k \in Nodes |-> Known(Sources(ast, k))']
    BY SameTree DEF Parents, Known, Range, NoNode, Sources, Ancestors
  <2>2. Parents = [k \in Nodes |-> Known(Sources(ast, k))]
    BY DEF Parents, Sources
  <2> QED
    BY <1>1, <2>1, <2>2
<1>3. PICK W, up : W = Parents[m] /\ up = Parents
  OBVIOUS
<1>4. Inherited(m)' = Above(W, up)'
  BY <1>2, <1>3 DEF Inherited, Above
<1> QED
  BY <1>3, <1>4, SameTree DEF Inherited

\* Where the redefinitions of a lead that were not refused.
LedUp(a) ==
  \A r \in Range(ast[a].redefines) :
    <<"nothing to redefine", r>> \notin errors =>
      \E k \in Inherited(Owner(ast, a)) :
        /\ resolved[r] \in Members[k]
        /\ nodeName(ast, resolved[r]) = Last(ast[r].parts)

LedUpSoFar ==
  stage = "redefinitions" => \A a \in Redefining : Visited(a) => LedUp(a)

\* What is found in a supertype is a member of something inherited.
LEMMA FoundIsInherited ==
  ASSUME ast \in Programs, resolved \in Bindings(ast), NEW p \in Nodes, NEW x,
         F!findInSupertypes(p, x) # NoNode
  PROVE  \E k \in Inherited(p) : /\ F!findInSupertypes(p, x) \in Members[k]
                                 /\ nodeName(ast, F!findInSupertypes(p, x)) = x
<1>1. PICK r \in Range(F!Supertypes(p)) :
        /\ r \in Nodes /\ resolved[r] \in Nodes \cup {NoNode}
        /\ F!findInSupertypes(p, x) = lookupMember(ast, resolved, resolved[r], x)
  BY InheritedFrom
<1>2. F!Supertypes(p) # <<>> => ast[p].kind # "alias"
  BY DEF F!Supertypes
<1>3. r \in Range(Sources(ast, p))
  <2>1. F!Supertypes(p) # <<>>
    BY <1>1 DEF Range
  <2> QED
    BY <1>1, <1>2, <2>1, SupertypesType DEF Sources
<1>4. PICK c : c = resolved[r]
  OBVIOUS
<1>5. c \in Inherited(p) \cup {NoNode}
  <2>1. c # NoNode => c \in Parents[p]
    <3>1. c # NoNode => c \in Known(Sources(ast, p))
      BY <1>3, <1>4 DEF Known
    <3> QED
      BY <3>1, ParentsAre
  <2> QED
    BY <2>1, InheritedIs
<1>6. PICK S \in SUBSET DOMAIN ast : S = Inherited(p) /\ LeadsNowhere(ast, resolved, S)
  BY InheritedIs DEF Nodes
<1>7. IsAst(ast) /\ c \in S \cup {NoNode} /\ lookupMember(ast, resolved, c, x) # NoNode
  BY <1>1, <1>4, <1>5, <1>6, TreeIs
<1>8. PICK k \in S : /\ lookupMember(ast, resolved, c, x) \in Range(ast[k].members)
                     /\ nodeName(ast, lookupMember(ast, resolved, c, x)) = x
  BY <1>6, <1>7, LookupWithin
<1>9. k \in Nodes
  BY DEF Nodes
<1> QED
  BY <1>1, <1>4, <1>6, <1>8, <1>9 DEF Members

LEMMA LeadingKeeps ==
  ASSUME Fit, LedUpSoFar, RedefinitionsStep
  PROVE  LedUpSoFar'
<1>1. PICK n \in R!Current : F!CheckRedefinitions(n)
  BY DEF RedefinitionsStep
<1>2. /\ Visits(n) /\ stage = "redefinitions" /\ stage' = stage /\ ast' = ast
      /\ ast \in Programs /\ resolved \in Bindings(ast) /\ n \in Nodes
  BY <1>1, RedefinitionsWalk, WalkedIs DEF Fit, RedefinitionsStep, driver, Visits
<1>3. PICK p : p = Head(todo).under
  OBVIOUS
<1>4. /\ resolved' \in Bindings(ast)
      /\ \A r \in Nodes :
           IF /\ ast[n].kind = "attribute" /\ p # NoNode /\ r \in Range(ast[n].redefines)
              /\ F!Redefined(r, p) # NoNode
           THEN resolved'[r] = F!Redefined(r, p)
           ELSE resolved'[r] = resolved[r]
      /\ p \in Nodes \cup {NoNode}
      /\ p = Under("redefinitions", n)
  BY <1>1, <1>2, <1>3, RedefinitionsBind, CallForIs DEF Fit, Visits
<1>5. OnlyRedefinitions(n)
  BY <1>4 DEF OnlyRedefinitions
<1>6. errors' = errors \cup UNION {F!RedefErrors(r, n, p) :
                                     r \in IF ast[n].kind = "attribute" /\ p # NoNode
                                           THEN Range(ast[n].redefines) ELSE {}}
  BY <1>1, <1>3, Zenon DEF F!CheckRedefinitions, F!NoNode, NoNode, F!Range, Range
<1>7. Redefining' = Redefining
  BY <1>2, SameTree DEF Redefining, Range
<1> SUFFICES ASSUME NEW a \in Redefining, Visited(a)'
             PROVE  LedUp(a)'
  BY <1>2, <1>7 DEF LedUpSoFar
<1>8. /\ a \in Nodes /\ ast[a].kind = "attribute" /\ Owner(ast, a) \in Nodes
      /\ Owner(ast, a) # NoNode /\ Under("redefinitions", a) = Owner(ast, a)
  BY <1>2, RedefiningIs, WalkedIs
<1>9. Owner(ast, a)' = Owner(ast, a) /\ Inherited(Owner(ast, a))' = Inherited(Owner(ast, a)) /\ Members' = Members
  <2>1. PICK q : q = Owner(ast, a) /\ q = Owner(ast, a)'
    BY <1>2, SameTree
  <2>2. Inherited(q)' = Inherited(q)
    BY <1>2, <1>4, <1>5, InheritedStays
  <2>3. Inherited(Owner(ast, a))' = Inherited(q)'
    BY <2>1 DEF Inherited, Above
  <2> QED
    BY <1>2, <2>1, <2>2, <2>3, SameTree
<1>10. ASSUME \A r \in Range(ast[a].redefines) :
                <<"nothing to redefine", r>> \notin errors' =>
                  \E k \in Inherited(Owner(ast, a)) :
                    /\ resolved'[r] \in Members[k]
                    /\ nodeName(ast, resolved'[r]) = Last(ast[r].parts)
       PROVE  LedUp(a)'
  <2> DEFINE Leads(r) == \E k \in Inherited(Owner(ast, a)) :
                           /\ resolved[r] \in Members[k]
                           /\ nodeName(ast, resolved[r]) = Last(ast[r].parts)
  <2>1. ASSUME NEW r,
               \E k \in Inherited(Owner(ast, a)) :
                 /\ resolved'[r] \in Members[k]
                 /\ nodeName(ast, resolved'[r]) = Last(ast[r].parts)
        PROVE  Leads(r)'
    <3>1. PICK k \in Inherited(Owner(ast, a)) :
            /\ resolved'[r] \in Members[k]
            /\ nodeName(ast, resolved'[r]) = Last(ast[r].parts)
      BY <2>1
    <3>2. k \in Inherited(Owner(ast, a))' /\ resolved'[r] \in Members'[k]
      BY <1>9, <3>1
    <3>3. nodeName(ast, resolved[r])' = Last(ast[r].parts)'
      BY <1>2, <3>1 DEF nodeName, NamingKinds, NoName, Last
    <3> QED
      BY <3>2, <3>3
  <2>2. LedUp(a)' <=> \A r \in Range(ast'[a].redefines) :
                        <<"nothing to redefine", r>> \notin errors' => Leads(r)'
    BY DEF LedUp, Range
  <2> HIDE DEF Leads
  <2> QED
    BY <1>2, <1>10, <2>1, <2>2
<1>11. CASE a # n
  <2>1. LedUp(a)
    BY <1>2, <1>11 DEF Visits, LedUpSoFar
  <2>2. \A r \in Range(ast[a].redefines) : resolved'[r] = resolved[r]
    BY <1>2, <1>5, <1>8, <1>11, OthersStay
  <2>3. errors \subseteq errors'
    BY <1>6
  <2> QED
    BY <1>10, <2>1, <2>2, <2>3 DEF LedUp
<1>12. CASE a = n
  <2>1. p \in Nodes /\ p # NoNode /\ ast[n].kind = "attribute" /\ p = Owner(ast, a)
    BY <1>4, <1>8, <1>12
  <2>2. ASSUME NEW r \in Range(ast[n].redefines), <<"nothing to redefine", r>> \notin errors'
        PROVE  \E k \in Inherited(p) : /\ resolved'[r] \in Members[k]
                                       /\ nodeName(ast, resolved'[r]) = Last(ast[r].parts)
    <3>1. <<"nothing to redefine", r>> \notin F!RedefErrors(r, n, p)
      BY <1>6, <2>1, <2>2
    <3>2. F!Redefined(r, p) # NoNode
      BY <3>1 DEF F!RedefErrors, F!NoNode, NoNode
    <3>3. r \in Nodes
      BY <1>2, NamesHaveParts
    <3>4. resolved'[r] = F!Redefined(r, p)
      BY <1>4, <2>1, <3>2, <3>3
    <3>5. PICK x : x = Last(ast[r].parts)
      OBVIOUS
    <3>6. F!Redefined(r, p) = F!findInSupertypes(p, x)
      BY <1>2, <2>1, <3>2, <3>5, RedefinedIs
    <3> QED
      BY <1>2, <2>1, <3>2, <3>4, <3>5, <3>6, FoundIsInherited
  <2> QED
    BY <1>10, <1>12, <2>1, <2>2
<1> QED
  BY <1>11, <1>12

LEMMA StepLedUp == Fit /\ LedUpSoFar /\ [Next]_vars => LedUpSoFar'
<1> SUFFICES ASSUME Fit, LedUpSoFar, [Next]_vars PROVE LedUpSoFar'
  OBVIOUS
<1>1. CASE RedefinitionsStep
  BY <1>1, LeadingKeeps
<1>2. CASE ResolveStep \/ TypesStep \/ ConnectionsStep \/ ReferencesStep
  BY <1>2 DEF ResolveStep, TypesStep, ConnectionsStep, ReferencesStep, driver, LedUpSoFar
<1>3. CASE PassEnds
  <2>1. stage' = "redefinitions" => \A m : ~ Visited(m)'
    BY <1>3, BeginsFit DEF Walks
  <2> QED
    BY <2>1 DEF LedUpSoFar
<1>4. CASE PassFails \/ Around \/ UNCHANGED vars
  <2>1. /\ UNCHANGED <<ast, resolved, errors, todo>>
        /\ stage' = "redefinitions" => stage = "redefinitions"
    BY <1>4 DEF PassFails, Around, vars, driver, D!PassFails, D!Exit, D!Read, D!ReadFails,
                D!DumpTokens, D!ParseFails, D!Emit, D!Exited, D!vars
  <2>2. \A m : Visited(m)' <=> Visited(m)
    BY <2>1, SameTree DEF Visited, Pending, Waiting
  <2>3. Redefining' = Redefining
    BY <2>1, SameTree DEF Redefining, Range
  <2>4. ASSUME NEW m PROVE LedUp(m)' <=> LedUp(m)
    BY <2>1 DEF LedUp, Range, Last, NoNode, nodeName, NamingKinds, NoName, Inherited, Above, Nodes,
                Parents, Known, Ancestors, Owner, Children, Members
  <2> QED
    BY <2>1, <2>2, <2>3, <2>4 DEF LedUpSoFar
<1> QED
  BY <1>1, <1>2, <1>3, <1>4 DEF Next

\* LeadsToInherited (checkOneRedef, findInSupertypes): a redefinition that is
\* not refused is bound to a feature of that name of a declaration its owner
\* inherits from.
THEOREM RedefinitionsLeadToInherited == Spec => []LeadsToInherited
<1>1. Fit /\ LedUpSoFar => LeadsToInherited
  <2> SUFFICES ASSUME Fit, LedUpSoFar, stage = "redefinitions", todo = <<>>,
                      NEW a \in Redefining, NEW r \in Range(ast[a].redefines),
                      <<"nothing to redefine", r>> \notin errors
               PROVE  /\ resolved[r] # NoNode
                      /\ nodeName(ast, resolved[r]) = Last(ast[r].parts)
                      /\ Owner(ast, resolved[r]) \in Inherited(Owner(ast, a))
    BY DEF LeadsToInherited, EndOf
  <2>1. /\ ast \in Programs /\ resolved \in Bindings(ast) /\ a \in Walked
        /\ Owner(ast, a) \in Nodes
    BY RedefiningIs, WalkedIs DEF Fit
  <2>2. LedUp(a)
    BY <2>1, WalkEnds DEF LedUpSoFar
  <2>3. PICK k \in Inherited(Owner(ast, a)) : /\ resolved[r] \in Members[k]
                                             /\ nodeName(ast, resolved[r]) = Last(ast[r].parts)
    BY <2>2 DEF LedUp
  <2>4. k \in Nodes
    BY <2>1, InheritedIs
  <2>5. Owner(ast, resolved[r]) = k /\ resolved[r] \in Nodes
    BY <2>1, <2>3, <2>4, MembersOwned, TreeIs
  <2> QED
    BY <2>1, <2>3, <2>5, TreeIs
<1>2. Init => LedUpSoFar
  BY DEF Init, D!Init, LedUpSoFar
<1> QED
  BY <1>1, <1>2, AlwaysFit, StepLedUp, PTL DEF Spec
=============================================================================
