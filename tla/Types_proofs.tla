---------------------------- MODULE Types_proofs -----------------------------
(***************************************************************************)
(* Proofs about the type checker, for every set of well-formed programs:   *)
(* the specialization test finds what can be reached; an expression that   *)
(* is accepted never gets stuck and gives a value of the kind declared,    *)
(* and all that can be evaluated is accepted.                              *)
(***************************************************************************)
EXTENDS Pipeline_proofs

----------------------------------------------------------------------------
(***************************************************************************)
(* The depth of the specialization test.                                   *)
(***************************************************************************)
Definitions == {n \in Nodes : ast[n].kind = "definition"}

\* The definitions the test accepts as specializing b from depth d on.
Accepting(g, d) == {c \in Definitions : g[d][c]}

\* At every depth but the last the test accepts b and what leads by one step to
\* what it accepts one deeper; at the last it accepts b.
LEMMA AcceptingIs ==
  ASSUME ast \in Programs, resolved \in Bindings(ast),
         NEW b \in Definitions, NEW g, Specializes(g, b), NEW d \in 0 .. MaxDepth
  PROVE  /\ b \in Accepting(g, d)
         /\ d = MaxDepth => Accepting(g, d) = {b}
         /\ d < MaxDepth =>
              \A c \in Definitions :
                c \in Accepting(g, d) <=>
                  c = b \/ \E s \in Supertypes[c] : s \in Accepting(g, d + 1)
<1>1. \A c \in Nodes \cup {NoNode} : g[d][c] <=> SpecStep(d, c, b, g[d + 1])
  BY DEF Specializes
<1>2. \A c \in Definitions : c \in Nodes /\ c # NoNode /\ ast[c].kind = "definition"
  BY TreeIs DEF Definitions
<1>3. \A c \in Definitions :
        g[d][c] <=> \/ c = b
                    \/ /\ d < MaxDepth
                       /\ \E i \in DOMAIN ast[c].specializes :
                            g[d + 1][resolved[ast[c].specializes[i]]]
  BY <1>1, <1>2 DEF SpecStep
<1>4. ASSUME d < MaxDepth, NEW c \in Definitions, NEW i \in DOMAIN ast[c].specializes,
             g[d + 1][resolved[ast[c].specializes[i]]]
      PROVE  \E s \in Supertypes[c] : s \in Accepting(g, d + 1)
  <2>1. PICK s \in Nodes \cup {NoNode} : s = resolved[ast[c].specializes[i]]
    BY <1>2, <1>4, SupertypesAre
  <2>2. d + 1 \in 0 .. MaxDepth
    BY <1>4, MaxDepthAssumption
  <2>3. SpecStep(d + 1, s, b, g[d + 1 + 1])
    BY <1>4, <2>1, <2>2 DEF Specializes
  <2>4. s \in Definitions
    BY <1>2, <2>1, <2>3 DEF SpecStep, Definitions
  <2>5. s \in Supertypes[c]
    BY <1>2, <1>4, <2>1, <2>4, SupertypesAre
  <2> QED
    BY <1>4, <2>1, <2>4, <2>5 DEF Accepting
<1>5. ASSUME d < MaxDepth, NEW c \in Definitions, NEW s \in Supertypes[c], s \in Accepting(g, d + 1)
      PROVE  \E i \in DOMAIN ast[c].specializes : g[d + 1][resolved[ast[c].specializes[i]]]
  <2>1. s \in Definitions /\ g[d + 1][s]
    BY <1>5 DEF Accepting
  <2>2. PICK i \in DOMAIN ast[c].specializes : resolved[ast[c].specializes[i]] = s
    BY <1>2, <1>5, <2>1, SupertypesAre
  <2> QED
    BY <2>1, <2>2
<1>6. b \in Accepting(g, d)
  BY <1>3 DEF Accepting
<1>7. ASSUME d = MaxDepth PROVE Accepting(g, d) = {b}
  <2>1. ~ (d < MaxDepth)
    BY <1>7, MaxDepthAssumption
  <2> QED
    BY <1>3, <1>6, <2>1 DEF Accepting
<1>8. ASSUME d < MaxDepth, NEW c \in Definitions
      PROVE  c \in Accepting(g, d) <=> c = b \/ \E s \in Supertypes[c] : s \in Accepting(g, d + 1)
  <2>1. c \in Accepting(g, d) <=> g[d][c]
    BY DEF Accepting
  <2> QED
    BY <1>3, <1>4, <1>5, <1>8, <2>1
<1> QED
  BY <1>6, <1>7, <1>8

\* What holds at the last depth, and at every other one if it holds one deeper,
\* holds at all of them.
LEMMA FromTheDepth ==
  ASSUME NEW Fine, Fine \subseteq 0 .. MaxDepth, MaxDepth \in Fine,
         \A d \in 0 .. MaxDepth : (d < MaxDepth /\ d + 1 \in Fine) => d \in Fine
  PROVE  Fine = 0 .. MaxDepth
<1> DEFINE Bad == (0 .. MaxDepth) \ Fine
           Ranks == {MaxDepth - d : d \in Bad}
<1> SUFFICES ASSUME Bad # {} PROVE FALSE
  OBVIOUS
<1>1. PICK n \in Ranks : \A m \in Ranks : n <= m
  <2>1. Ranks \in SUBSET Nat /\ Ranks # {}
    BY MaxDepthAssumption
  <2> HIDE DEF Ranks
  <2> QED
    BY <2>1, LeastNumber
<1>2. PICK d \in Bad : \A e \in Bad : MaxDepth - d <= MaxDepth - e
  BY <1>1
<1>3. d \in 0 .. MaxDepth /\ d < MaxDepth /\ d + 1 \in 0 .. MaxDepth
  BY <1>2, MaxDepthAssumption
<1>4. d + 1 \notin Bad
  BY <1>2, <1>3, MaxDepthAssumption
<1> QED
  BY <1>2, <1>3, <1>4

\* With no more definitions than depths, whatever leads to b is accepted from
\* depth 0: the deeper depths accept ever less, and where two in a row accept the
\* same, nothing outside leads in.
LEMMA SubtypesAreAccepted ==
  ASSUME ast \in Programs, resolved \in Bindings(ast),
         Cardinality(Definitions) <= MaxDepth + 1,
         NEW a \in Definitions, NEW b \in Definitions, IsSubtype(a, b)
  PROVE  F!specializesType(a, b)
<1>1. a \in Nodes /\ b \in Nodes /\ b # NoNode
  BY TreeIs DEF Definitions
<1>2. PICK g : Specializes(g, b) /\ (F!specializesType(a, b) <=> b # NoNode /\ g[0][a])
  BY <1>1, SpecIs
<1> DEFINE depths == 0 .. MaxDepth
           G(d) == Accepting(g, d)
<1>3. \A d \in depths :
        /\ b \in G(d)
        /\ d = MaxDepth => G(d) = {b}
        /\ d < MaxDepth =>
             \A c \in Definitions :
               c \in G(d) <=> c = b \/ \E s \in Supertypes[c] : s \in G(d + 1)
  BY <1>2, AcceptingIs
<1>4. /\ MaxDepth \in Nat /\ MaxDepth \in depths /\ 0 \in depths
      /\ \A d \in depths : d \in Nat /\ (d < MaxDepth => d + 1 \in depths)
      /\ \A d \in depths : d # MaxDepth => d < MaxDepth
  BY MaxDepthAssumption
<1>5. \A d : G(d) \subseteq Definitions
  BY DEF Accepting
<1> HIDE DEF G, depths
<1>6. \A d \in depths : d < MaxDepth => G(d + 1) \subseteq G(d)
  <2> DEFINE Fine == {d \in depths : d < MaxDepth => G(d + 1) \subseteq G(d)}
  <2>1. MaxDepth \in Fine
    BY <1>4
  <2>2. ASSUME NEW d \in depths, d < MaxDepth, d + 1 \in Fine PROVE d \in Fine
    <3>1. d + 1 \in depths
      BY <1>4, <2>2
    <3>2. ASSUME NEW c \in G(d + 1) PROVE c \in G(d)
      <4>1. c \in Definitions
        BY <1>5
      <4>2. CASE d + 1 = MaxDepth
        BY <1>3, <2>2, <3>1, <4>2
      <4>3. CASE d + 1 # MaxDepth
        <5>1. d + 1 < MaxDepth /\ G(d + 1 + 1) \subseteq G(d + 1)
          BY <1>4, <2>2, <3>1, <4>3
        <5>2. c = b \/ \E s \in Supertypes[c] : s \in G(d + 1 + 1)
          BY <1>3, <3>1, <4>1, <5>1
        <5> QED
          BY <1>3, <2>2, <4>1, <5>1, <5>2
      <4> QED
        BY <4>2, <4>3
    <3> QED
      BY <2>2, <3>2
  <2> HIDE DEF Fine
  <2>3. Fine \subseteq depths
    BY DEF Fine
  <2>4. Fine = depths
    BY <2>1, <2>2, <2>3, FromTheDepth DEF depths
  <2> QED
    BY <2>4 DEF Fine
<1>7. \A d \in depths : G(d) \subseteq G(0)
  <2> SUFFICES ASSUME NEW d \in depths, ~ (G(d) \subseteq G(0)) PROVE FALSE
    OBVIOUS
  <2> DEFINE Bad == {e \in depths : ~ (G(e) \subseteq G(0))}
  <2>1. PICK e \in Bad : \A f \in Bad : e <= f
    <3>1. Bad \in SUBSET Nat /\ Bad # {}
      BY <1>4
    <3> HIDE DEF Bad
    <3> QED
      BY <3>1, LeastNumber
  <2>2. e \in depths /\ e # 0 /\ e \in Nat
    BY <1>4, <2>1
  <2>3. e - 1 \in depths /\ e - 1 < MaxDepth /\ (e - 1) + 1 = e
    BY <2>2, <1>4 DEF depths
  <2>4. G(e) \subseteq G(e - 1)
    BY <1>6, <2>3
  <2>5. e - 1 \notin Bad
    BY <2>1, <2>2, <2>3
  <2> QED
    BY <2>1, <2>3, <2>4, <2>5
<1>8. CASE \E d \in depths : d < MaxDepth /\ G(d + 1) = G(d)
  <2>1. PICK d \in depths : d < MaxDepth /\ G(d + 1) = G(d)
    BY <1>8
  <2> DEFINE A == Nodes \ G(d)
  <2>2. IsClosed(A, Supertypes)
    <3> SUFFICES ASSUME NEW c \in A, NEW s \in Supertypes[c], s \in G(d) PROVE FALSE
      BY SupertypesAre DEF IsClosed
    <3>1. c \in Definitions
      BY SupertypesAre DEF Definitions
    <3> QED
      BY <1>3, <2>1, <3>1
  <2>3. ASSUME a \notin G(d) PROVE FALSE
    <3>1. {a} \in SUBSET Nodes /\ {a} \subseteq A /\ A \in SUBSET Nodes
      BY <1>1, <2>3
    <3>2. Above({a}, Supertypes) \subseteq A
      <4> HIDE DEF A
      <4> QED
        BY <2>2, <3>1, TreeIs, SupertypesAre, AboveIs
    <3>3. b \in A
      BY <3>2 DEF IsSubtype
    <3> QED
      BY <1>3, <2>1, <3>3
  <2>4. a \in G(0)
    BY <1>7, <2>1, <2>3
  <2> QED
    BY <1>1, <1>2, <2>4 DEF G, Accepting
<1>9. CASE \A d \in depths : d < MaxDepth => G(d + 1) # G(d)
  <2>1. IsFiniteSet(Definitions)
    <3>1. IsFiniteSet(Nodes) /\ Definitions \in SUBSET Nodes
      BY TreeIs DEF Definitions
    <3> QED
      BY <3>1, FS_Subset
  <2>2. \A d : IsFiniteSet(G(d)) /\ Cardinality(G(d)) \in Nat
    <3> SUFFICES ASSUME NEW d PROVE IsFiniteSet(G(d)) /\ Cardinality(G(d)) \in Nat
      OBVIOUS
    <3>1. IsFiniteSet(G(d))
      BY <1>5, <2>1, FS_Subset
    <3> QED
      BY <3>1, FS_CardinalityType
  <2> DEFINE Fine == {d \in depths : Cardinality(G(d)) >= MaxDepth - d + 1}
  <2>3. MaxDepth \in Fine
    <3>1. Cardinality(G(MaxDepth)) = 1
      BY <1>3, <1>4, FS_Singleton
    <3> QED
      BY <1>4, <3>1
  <2>4. ASSUME NEW d \in depths, d < MaxDepth, d + 1 \in Fine PROVE d \in Fine
    <3>1. G(d + 1) \in SUBSET G(d) /\ G(d + 1) # G(d)
      BY <1>6, <1>9, <2>4
    <3>2. Cardinality(G(d + 1)) <= Cardinality(G(d)) /\ Cardinality(G(d)) # Cardinality(G(d + 1))
      BY <2>2, <3>1, FS_Subset
    <3>3. Cardinality(G(d + 1)) >= MaxDepth - (d + 1) + 1
      BY <2>4
    <3> QED
      BY <1>4, <2>2, <3>2, <3>3
  <2> HIDE DEF Fine
  <2>5. Fine \subseteq depths
    BY DEF Fine
  <2>6. Fine = depths
    BY <2>3, <2>4, <2>5, FromTheDepth DEF depths
  <2>7. Cardinality(G(0)) >= MaxDepth + 1
    BY <1>4, <2>6 DEF Fine
  <2>8. G(0) = Definitions
    <3>1. G(0) \in SUBSET Definitions /\ Cardinality(Definitions) \in Nat
      BY <1>5, <2>1, FS_CardinalityType
    <3>2. Cardinality(G(0)) <= Cardinality(Definitions)
      BY <2>1, <3>1, FS_Subset
    <3>3. Cardinality(G(0)) = Cardinality(Definitions)
      BY <1>4, <2>2, <2>7, <3>1, <3>2
    <3> QED
      BY <2>1, <3>1, <3>3, FS_Subset
  <2>9. a \in G(0)
    BY <2>8
  <2> QED
    BY <1>1, <1>2, <2>9 DEF G, Accepting
<1> QED
  BY <1>8, <1>9

\* The type checker's test is the one the redefinition checker uses.
LEMMA SameTest ==
  ASSUME NEW a, NEW b
  PROVE  T!specializesType(a, b) <=> F!specializesType(a, b)
BY Zenon DEF T!specializesType, F!specializesType, T!Nodes, F!Nodes, T!NoNode, F!NoNode

\* Property SpecializesIsReachability: specializesType() (typechecker.c:80-95),
\* whose recursion is cut off at a depth of MaxDepth, is reachability over the
\* bound supertypes, cycles or not, in a program that has at most one definition
\* more.
THEOREM SpecializationIsReachability == Spec => []SpecializesIsReachability
<1>1. Fit => SpecializesIsReachability
  <2> SUFFICES ASSUME ast \in Programs, resolved \in Bindings(ast),
                      Cardinality(Definitions) <= MaxDepth + 1,
                      NEW a \in Definitions, NEW b \in Definitions
               PROVE  T!specializesType(a, b) <=> IsSubtype(a, b)
    BY DEF Fit, SpecializesIsReachability, Definitions, FewDefinitions
  <2>1. a \in Nodes /\ b \in Nodes
    BY DEF Definitions
  <2>2. T!specializesType(a, b) => IsSubtype(a, b)
    BY <2>1, SameTest, SpecializesIsSubtype
  <2>3. IsSubtype(a, b) => T!specializesType(a, b)
    BY SameTest, SubtypesAreAccepted
  <2> QED
    BY <2>2, <2>3
<1> QED
  BY <1>1, AlwaysFit, PTL

----------------------------------------------------------------------------
(***************************************************************************)
(* Functions of expressions, which go from the operands up.                *)
(***************************************************************************)
\* The values of f at what `list` names.
Along(f, list) == [i \in DOMAIN list |-> f[list[i]]]

\* What n lists has a smaller rank than n, and the step from the values at what
\* it lists to the one at n stays in V.
Descends(N, rank, top, kids, V, step) ==
  \A n \in N : /\ rank[n] \in Nat /\ rank[n] <= top
               /\ \A i \in DOMAIN kids[n] : kids[n][i] \in N /\ rank[kids[n][i]] < rank[n]
               /\ \A s \in [DOMAIN kids[n] -> V] : step[n][s] \in V

\* There is a function on N whose value at n is the step from those at what n lists.
LEMMA DefinedFromLists ==
  ASSUME NEW N, NEW rank, NEW top \in Nat, NEW kids, NEW V, NEW v \in V, NEW step,
         Descends(N, rank, top, kids, V, step)
  PROVE  \E f \in [N -> V] : \A n \in N : f[n] = step[n][Along(f, kids[n])]
<1> USE DEF Descends
<1> DEFINE S == [N -> V]
           After(f) == [n \in N |-> step[n][Along(f, kids[n])]]
           up == [k \in Nat |-> k - 1]
           start == [k \in Nat |-> [n \in N |-> v]]
           next == [k \in Nat |-> [f \in S |-> After(f)]]
<1>1. ASSUME NEW f \in S PROVE After(f) \in S
  <2>1. ASSUME NEW n \in N PROVE step[n][Along(f, kids[n])] \in V
    <3>1. Along(f, kids[n]) \in [DOMAIN kids[n] -> V]
      BY DEF Along
    <3> QED
      BY <3>1
  <2> QED
    BY <2>1
<1> HIDE DEF After
<1>2. PICK g : Follows(g, Nat, S, up, start, next)
  <2>1. \A k \in Nat : k \in Nat
    OBVIOUS
  <2>2. \A k \in Nat : up[k] \in Nat => up[k] < k
    OBVIOUS
  <2>3. \A k \in Nat : start[k] \in S
    OBVIOUS
  <2>4. \A k \in Nat, f \in S : next[k][f] \in S
    BY <1>1
  <2> HIDE DEF S, up, start, next
  <2> QED
    BY <2>1, <2>2, <2>3, <2>4, DefinedAlong
<1>3. /\ g \in [Nat -> S]
      /\ \A k \in Nat : g[k] = IF up[k] \in Nat THEN next[k][g[up[k]]] ELSE start[k]
  BY <1>2 DEF Follows
<1>4. ASSUME NEW k \in Nat PROVE g[k + 1] = After(g[k])
  <2>1. k + 1 \in Nat /\ up[k + 1] = k /\ g[k] \in S
    BY <1>3
  <2>2. next[k + 1][g[k]] = After(g[k])
    BY <2>1
  <2> HIDE DEF up, next, start, S
  <2> QED
    BY <1>3, <2>1, <2>2
<1> HIDE DEF S, up, start, next
<1>5. ASSUME NEW k \in Nat, NEW n \in N PROVE g[k + 1][n] = step[n][Along(g[k], kids[n])]
  BY <1>4 DEF After
<1> DEFINE IsStable(k) == \A n \in N : rank[n] < k => g[k + 1][n] = g[k][n]
<1>6. ASSUME NEW k \in Nat, IsStable(k) PROVE IsStable(k + 1)
  <2> SUFFICES ASSUME NEW n \in N, rank[n] < k + 1 PROVE g[k + 1 + 1][n] = g[k + 1][n]
    OBVIOUS
  <2>1. ASSUME NEW i \in DOMAIN kids[n] PROVE g[k + 1][kids[n][i]] = g[k][kids[n][i]]
    <3>1. PICK m \in N : m = kids[n][i] /\ rank[m] < rank[n]
      OBVIOUS
    <3>2. rank[m] < k
      BY <3>1
    <3> QED
      BY <1>6, <3>1, <3>2
  <2>2. Along(g[k + 1], kids[n]) = Along(g[k], kids[n])
    BY <2>1 DEF Along
  <2>3. k + 1 \in Nat
    OBVIOUS
  <2>4. g[k + 1 + 1][n] = step[n][Along(g[k + 1], kids[n])]
    BY <1>5, <2>3
  <2>5. g[k + 1][n] = step[n][Along(g[k], kids[n])]
    BY <1>5
  <2> QED
    BY <2>2, <2>4, <2>5
<1>7. IsStable(0)
  OBVIOUS
<1>8. \A k \in Nat : IsStable(k)
  <2> DEFINE Bad == {k \in Nat : ~ IsStable(k)}
  <2> HIDE DEF IsStable
  <2> SUFFICES ASSUME Bad # {} PROVE FALSE
    OBVIOUS
  <2>1. PICK b \in Bad : \A c \in Bad : b <= c
    <3>1. Bad \in SUBSET Nat
      OBVIOUS
    <3> HIDE DEF Bad
    <3> QED
      BY <3>1, LeastNumber
  <2>2. b \in Nat /\ b # 0 /\ ~ IsStable(b)
    BY <1>7, <2>1
  <2>3. PICK a \in Nat : a + 1 = b
    <3>1. b - 1 \in Nat /\ (b - 1) + 1 = b
      BY <2>2
    <3> QED
      BY <3>1
  <2>4. a \notin Bad
    BY <2>1, <2>3
  <2> QED
    BY <1>6, <2>2, <2>3, <2>4
<1>9. PICK k \in Nat : k = top + 1
  OBVIOUS
<1>10. \A n \in N : g[k + 1][n] = g[k][n]
  <2>1. \A n \in N : rank[n] < k
    BY <1>9
  <2> QED
    BY <1>8, <2>1
<1>11. \A n \in N : g[k][n] = step[n][Along(g[k], kids[n])]
  BY <1>5, <1>10
<1>12. g[k] \in [N -> V]
  BY <1>3 DEF S
<1> QED
  BY <1>11, <1>12

\* The nodes behind n.
Behind == [n \in Nodes |-> Cardinality({m \in Nodes : m > n})]

LEMMA BehindIs ==
  ASSUME ast \in Programs
  PROVE  /\ Cardinality(Nodes) \in Nat
         /\ \A n \in Nodes : Behind[n] \in Nat /\ Behind[n] <= Cardinality(Nodes)
         /\ \A n, m \in Nodes : n < m => Behind[m] < Behind[n]
<1> DEFINE B(n) == {m \in Nodes : m > n}
<1>0. IsFiniteSet(Nodes) /\ \A n \in Nodes : n \in Nat
  BY TreeIs
<1>1. ASSUME NEW n \in Nodes
      PROVE  /\ IsFiniteSet(B(n)) /\ Cardinality(B(n)) \in Nat
             /\ Cardinality(B(n)) <= Cardinality(Nodes)
  <2>1. B(n) \in SUBSET Nodes
    OBVIOUS
  <2>2. IsFiniteSet(B(n)) /\ Cardinality(B(n)) <= Cardinality(Nodes)
    BY <1>0, <2>1, FS_Subset
  <2> QED
    BY <2>2, FS_CardinalityType
<1>2. ASSUME NEW n \in Nodes, NEW m \in Nodes, n < m PROVE Cardinality(B(m)) < Cardinality(B(n))
  <2>1. B(m) \in SUBSET B(n)
    BY <1>0, <1>2
  <2>2. m \in B(n) /\ m \notin B(m)
    BY <1>0, <1>2
  <2>3. B(m) # B(n)
    BY <2>2
  <2>4. PICK x, y : x = B(m) /\ y = B(n)
    OBVIOUS
  <2>5. Cardinality(x) <= Cardinality(y) /\ Cardinality(y) # Cardinality(x)
    BY <1>1, <2>1, <2>3, <2>4, FS_Subset
  <2> QED
    BY <1>1, <2>4, <2>5
<1>3. Cardinality(Nodes) \in Nat
  BY <1>0, FS_CardinalityType
<1>4. \A n \in Nodes : Behind[n] = Cardinality(B(n))
  BY DEF Behind
<1> QED
  BY <1>1, <1>2, <1>3, <1>4

\* A set of nodes that is not empty has one with the least nodes behind it.
LEMMA LastOne ==
  ASSUME ast \in Programs, NEW S \in SUBSET Nodes, S # {}
  PROVE  \E n \in S : \A m \in S : Behind[n] <= Behind[m]
<1> DEFINE Ranks == {Behind[n] : n \in S}
<1>1. PICK k \in Ranks : \A j \in Ranks : k <= j
  <2>1. Ranks \in SUBSET Nat /\ Ranks # {}
    BY BehindIs
  <2> HIDE DEF Ranks
  <2> QED
    BY <2>1, LeastNumber
<1> QED
  BY <1>1

\* The operands of an expression are behind it.
LEMMA OperandsAre ==
  ASSUME ast \in Programs, NEW n \in Nodes
  PROVE  /\ \A i \in DOMAIN ast[n].args : ast[n].args[i] \in Operands[n]
         /\ Operands[n] = Range(ast[n].args)
         /\ \A m \in Operands[n] : m \in Nodes /\ n < m /\ Behind[m] < Behind[n]
         /\ ast[n].kind = "unary"  => DOMAIN ast[n].args = {1}
         /\ ast[n].kind = "binary" => DOMAIN ast[n].args = {1, 2}
<1>0. IsAst(ast) /\ Nodes = DOMAIN ast
  BY TreeIs DEF Nodes
<1>1. PICK s \in Seq(Nodes) : s = ast[n].args
  BY <1>0, AstLists
<1>2. Operands[n] = Range(ast[n].args)
  BY DEF Operands
<1>3. ASSUME NEW m \in Operands[n] PROVE m \in Nodes /\ n < m
  <2>1. m \in Range(Children(ast, n))
    BY <1>0, <1>2, ListsApart DEF Apart
  <2> QED
    BY <1>0, <2>1, OneOwner
<1>4. Len(s) \in Nat /\ DOMAIN s = 1 .. Len(s)
  BY LenProperties
<1>5. HasOperands(ast, n)
  BY <1>0 DEF IsAst
<1>6. ast[n].kind = "unary"  => DOMAIN ast[n].args = {1}
  <2> SUFFICES ASSUME ast[n].kind = "unary" PROVE DOMAIN s = {1}
    BY <1>1
  <2>1. Len(s) = 1
    BY <1>1, <1>5 DEF HasOperands
  <2> QED
    BY <1>4, <2>1
<1>7. ast[n].kind = "binary" => DOMAIN ast[n].args = {1, 2}
  <2> SUFFICES ASSUME ast[n].kind = "binary" PROVE DOMAIN s = {1, 2}
    BY <1>1
  <2>1. Len(s) = 2
    BY <1>1, <1>5 DEF HasOperands
  <2> QED
    BY <1>4, <2>1
<1>8. \A m \in Operands[n] : Behind[m] < Behind[n]
  BY <1>3, BehindIs
<1> QED
  BY <1>2, <1>3, <1>6, <1>7, <1>8 DEF Range

----------------------------------------------------------------------------
(***************************************************************************)
(* The types the checker gives.                                            *)
(***************************************************************************)
\* What a type may be: a declaration, or unknown.
TypeValues == Nodes \cup {NoNode}

\* The built-in types are there, and Number and Boolean have no supertypes.
LEMMA BuiltinsAre ==
  ASSUME ast \in Programs
  PROVE  /\ {builtinNumber, builtinReal, builtinInteger, builtinBoolean, builtinString}
              \subseteq Nodes
         /\ ast[builtinNumber].specializes = <<>>
         /\ ast[builtinBoolean].specializes = <<>>
<1>1. HasLibrary(ast)
  BY ProgramsAssumption
<1>2. DOMAIN BuiltinNodes = 1 .. 10
  BY DEF BuiltinNodes
<1>3. ASSUME NEW i \in 1 .. 10 PROVE Root + i \in Nodes /\ ast[Root + i] = BuiltinNodes[i]
  BY <1>1, <1>2 DEF HasLibrary, Nodes
<1>4. /\ builtinNumber = Root + 2 /\ builtinReal = Root + 3 /\ builtinInteger = Root + 4
      /\ builtinBoolean = Root + 5 /\ builtinString = Root + 6
  BY DEF builtinNumber, builtinReal, builtinInteger, builtinBoolean, builtinString, Root
<1>5. BuiltinNodes[2] = mkDatatype("Number", <<>>) /\ BuiltinNodes[5] = mkDatatype("Boolean", <<>>)
  BY DEF BuiltinNodes
<1>6. \A x : mkDatatype(x, <<>>).specializes = <<>>
  BY DEF mkDatatype, Blank
<1> QED
  BY <1>3, <1>4, <1>5, <1>6

LEMMA SameBuiltins ==
  /\ T!Nodes = Nodes /\ T!NoNode = NoNode
  /\ T!builtinNumber = builtinNumber /\ T!builtinReal = builtinReal
  /\ T!builtinInteger = builtinInteger /\ T!builtinBoolean = builtinBoolean
  /\ T!builtinString = builtinString
BY DEF T!Nodes, Nodes, T!NoNode, NoNode, T!builtinNumber, builtinNumber, T!builtinReal,
       builtinReal, T!builtinInteger, builtinInteger, T!builtinBoolean, builtinBoolean,
       T!builtinString, builtinString

\* The first type of a declaration is a declaration or unknown.
LEMMA FirstTypeIs ==
  ASSUME ast \in Programs, resolved \in Bindings(ast), NEW d \in Nodes, ast[d].types # <<>>
  PROVE  resolved[ast[d].types[1]] \in TypeValues
<1>1. PICK s \in Seq(Nodes) : s = ast[d].types /\ s # <<>>
  BY TreeIs, AstLists DEF Nodes
<1>2. 1 \in DOMAIN s
  BY <1>1, EmptySeq, LenProperties
<1>3. s[1] \in Nodes
  BY <1>2, ElementOfSeq, LenProperties
<1> QED
  BY <1>1, <1>3 DEF Bindings, Nodes, TypeValues

LEMMA TypeFromType ==
  ASSUME ast \in Programs, resolved \in Bindings(ast), NEW e \in Nodes,
         NEW ts \in [DOMAIN ast[e].args -> TypeValues]
  PROVE  T!TypeFrom(e, ts) \in TypeValues
<1>1. T!literalType(e) \in TypeValues
  BY BuiltinsAre, SameBuiltins DEF T!literalType, TypeValues
<1>2. T!identifierType(e) \in TypeValues
  <2>1. resolved[e] \in TypeValues
    BY DEF Bindings, Nodes, TypeValues
  <2>2. PICK d \in TypeValues : d = resolved[e]
    BY <2>1
  <2>3. d # NoNode => d \in Nodes
    BY DEF TypeValues
  <2>4. (d # NoNode /\ ast[d].types # <<>>) => resolved[ast[d].types[1]] \in TypeValues
    BY <2>3, FirstTypeIs
  <2>5. NoNode \in TypeValues
    BY DEF TypeValues
  <2> QED
    BY <2>2, <2>4, <2>5, SameBuiltins DEF T!identifierType
<1>3. ASSUME ast[e].kind \in {"binary", "unary"} PROVE T!OperatorType(e, ts) \in TypeValues
  <2>1. NoNode \in TypeValues /\ builtinBoolean \in TypeValues
    BY BuiltinsAre DEF TypeValues
  <2>2. CASE ast[e].kind = "binary"
    <3>1. PICK a \in TypeValues, b \in TypeValues : a = ts[1] /\ b = ts[2]
      BY <2>2, OperandsAre
    <3>2. T!joinNumeric(a, b) \in TypeValues
      BY <3>1 DEF T!joinNumeric
    <3> QED
      BY <2>1, <2>2, <3>1, <3>2, SameBuiltins DEF T!OperatorType
  <2>3. CASE ast[e].kind = "unary"
    <3>1. ts[1] \in TypeValues
      BY <2>3, OperandsAre
    <3> QED
      BY <2>1, <2>3, <3>1, SameBuiltins DEF T!OperatorType
  <2> QED
    BY <1>3, <2>2, <2>3
<1>4. T!NoNode \in TypeValues
  BY SameBuiltins DEF TypeValues
<1> HIDE DEF TypeValues
<1> QED
  BY <1>1, <1>2, <1>3, <1>4 DEF T!TypeFrom

\* typeOf() goes from the operands up.
LEMMA TypeOfIs ==
  ASSUME ast \in Programs, resolved \in Bindings(ast)
  PROVE  \A e \in Nodes :
           /\ T!typeOf(e) \in TypeValues
           /\ T!typeOf(e) = T!TypeFrom(e, [i \in DOMAIN ast[e].args |-> T!typeOf(ast[e].args[i])])
<1> DEFINE kids == [e \in Nodes |-> ast[e].args]
           step == [e \in Nodes |-> [ts \in [DOMAIN kids[e] -> TypeValues] |-> T!TypeFrom(e, ts)]]
           IsIt(f) == f = [e \in Nodes |-> T!TypeFrom(e, [i \in DOMAIN ast[e].args |-> f[ast[e].args[i]]])]
<1>1. PICK f \in [Nodes -> TypeValues] : \A e \in Nodes : f[e] = step[e][Along(f, kids[e])]
  <2>1. PICK top \in Nat : top = Cardinality(Nodes)
    BY BehindIs
  <2>2. \A n \in Nodes : \A i \in DOMAIN kids[n] :
          kids[n][i] \in Nodes /\ Behind[kids[n][i]] < Behind[n]
    BY OperandsAre
  <2>3. \A n \in Nodes : \A ts \in [DOMAIN kids[n] -> TypeValues] : step[n][ts] \in TypeValues
    BY TypeFromType
  <2>4. Descends(Nodes, Behind, top, kids, TypeValues, step)
    <3> HIDE DEF kids, step, TypeValues, Behind
    <3> QED
      BY <2>1, <2>2, <2>3, BehindIs DEF Descends
  <2>5. NoNode \in TypeValues
    BY DEF TypeValues
  <2> HIDE DEF kids, step, TypeValues, Behind
  <2> QED
    BY <2>4, <2>5, DefinedFromLists
<1>2. ASSUME NEW e \in Nodes
      PROVE  f[e] = T!TypeFrom(e, [i \in DOMAIN ast[e].args |-> f[ast[e].args[i]]])
  <2>1. Along(f, kids[e]) = [i \in DOMAIN ast[e].args |-> f[ast[e].args[i]]]
    BY DEF Along
  <2>2. Along(f, kids[e]) \in [DOMAIN kids[e] -> TypeValues]
    BY OperandsAre DEF Along
  <2> QED
    BY <1>1, <2>1, <2>2
<1>3. IsIt(f)
  BY <1>1, <1>2
<1>4. ASSUME NEW e PROVE T!typeOf(e) = (CHOOSE g : IsIt(g))[e]
  BY Zenon DEF T!typeOf, T!Nodes, Nodes
<1>5. PICK g : IsIt(g) /\ \A e : T!typeOf(e) = g[e]
  <2>1. IsIt(CHOOSE g : IsIt(g))
    <3> HIDE DEF IsIt
    <3> QED
      BY <1>3, Zenon
  <2> HIDE DEF IsIt
  <2> QED
    BY <1>4, <2>1
<1>6. \A e \in Nodes : T!typeOf(e) = T!TypeFrom(e, [i \in DOMAIN ast[e].args |-> T!typeOf(ast[e].args[i])])
  BY <1>5
<1>7. \A e \in Nodes : T!typeOf(e) \in TypeValues
  <2> DEFINE Bad == {e \in Nodes : T!typeOf(e) \notin TypeValues}
  <2> SUFFICES ASSUME Bad # {} PROVE FALSE
    OBVIOUS
  <2>1. PICK e \in Bad : \A m \in Bad : Behind[e] <= Behind[m]
    <3>1. Bad \in SUBSET Nodes
      OBVIOUS
    <3> HIDE DEF Bad
    <3> QED
      BY <3>1, LastOne
  <2>2. ASSUME NEW i \in DOMAIN ast[e].args PROVE T!typeOf(ast[e].args[i]) \in TypeValues
    <3>1. PICK m \in Nodes : m = ast[e].args[i] /\ Behind[m] < Behind[e]
      BY OperandsAre
    <3>2. m \notin Bad
      BY <2>1, <3>1, BehindIs
    <3> QED
      BY <3>1, <3>2
  <2>3. [i \in DOMAIN ast[e].args |-> T!typeOf(ast[e].args[i])] \in [DOMAIN ast[e].args -> TypeValues]
    BY <2>2
  <2> QED
    BY <1>6, <2>3, TypeFromType
<1> QED
  BY <1>6, <1>7

----------------------------------------------------------------------------
(***************************************************************************)
(* Kinds of values, and complaints.                                        *)
(***************************************************************************)
ValueKinds == {"any", "number", "boolean", "string", "other", "stuck"}

LEMMA KindIs == \A t : KindOf(t) \in ValueKinds \ {"stuck"}
BY DEF KindOf, ValueKinds

LEMMA AppliedIs == \A op, ks : Applied(op, ks) \in ValueKinds
BY DEF Applied, ValueKinds

LEMMA ValueFromIs == \A e, ks : ValueFrom(e, ks) \in ValueKinds
<1> SUFFICES ASSUME NEW e, NEW ks PROVE ValueFrom(e, ks) \in ValueKinds
  OBVIOUS
<1>1. "any" \in ValueKinds
  BY DEF ValueKinds
<1> HIDE DEF ValueKinds
<1> QED
  BY <1>1, KindIs, AppliedIs DEF ValueFrom

\* The value of an expression comes from those of its operands.
LEMMA ValueOfIs ==
  ASSUME ast \in Programs
  PROVE  \A e \in Nodes :
           /\ ValueOf(e) \in ValueKinds
           /\ ValueOf(e) = ValueFrom(e, [i \in DOMAIN ast[e].args |-> ValueOf(ast[e].args[i])])
<1> DEFINE kids == [e \in Nodes |-> ast[e].args]
           step == [e \in Nodes |-> [ks \in [DOMAIN kids[e] -> ValueKinds] |-> ValueFrom(e, ks)]]
           IsIt(f) == f = [e \in Nodes |-> ValueFrom(e, [i \in DOMAIN ast[e].args |-> f[ast[e].args[i]]])]
<1>1. PICK f \in [Nodes -> ValueKinds] : \A e \in Nodes : f[e] = step[e][Along(f, kids[e])]
  <2>1. PICK top \in Nat : top = Cardinality(Nodes)
    BY BehindIs
  <2>2. \A n \in Nodes : \A i \in DOMAIN kids[n] :
          kids[n][i] \in Nodes /\ Behind[kids[n][i]] < Behind[n]
    BY OperandsAre
  <2>3. \A n \in Nodes : \A ks \in [DOMAIN kids[n] -> ValueKinds] : step[n][ks] \in ValueKinds
    BY ValueFromIs
  <2>4. Descends(Nodes, Behind, top, kids, ValueKinds, step)
    <3> HIDE DEF kids, step, ValueKinds, Behind
    <3> QED
      BY <2>1, <2>2, <2>3, BehindIs DEF Descends
  <2>5. "any" \in ValueKinds
    BY DEF ValueKinds
  <2> HIDE DEF kids, step, ValueKinds, Behind
  <2> QED
    BY <2>4, <2>5, DefinedFromLists
<1>2. ASSUME NEW e \in Nodes
      PROVE  f[e] = ValueFrom(e, [i \in DOMAIN ast[e].args |-> f[ast[e].args[i]]])
  <2>1. Along(f, kids[e]) = [i \in DOMAIN ast[e].args |-> f[ast[e].args[i]]]
    BY DEF Along
  <2>2. Along(f, kids[e]) \in [DOMAIN kids[e] -> ValueKinds]
    <3> HIDE DEF ValueKinds
    <3> QED
      BY OperandsAre DEF Along
  <2> HIDE DEF ValueKinds
  <2> QED
    BY <1>1, <2>1, <2>2
<1>3. IsIt(f)
  <2> HIDE DEF ValueKinds
  <2> QED
    BY <1>1, <1>2
<1>4. ASSUME NEW e PROVE ValueOf(e) = (CHOOSE g : IsIt(g))[e]
  BY Zenon DEF ValueOf
<1>5. PICK g : IsIt(g) /\ \A e : ValueOf(e) = g[e]
  <2>1. IsIt(CHOOSE g : IsIt(g))
    <3> HIDE DEF IsIt
    <3> QED
      BY <1>3, Zenon
  <2> HIDE DEF IsIt
  <2> QED
    BY <1>4, <2>1
<1>6. \A e \in Nodes : ValueOf(e) = ValueFrom(e, [i \in DOMAIN ast[e].args |-> ValueOf(ast[e].args[i])])
  BY <1>5
<1> HIDE DEF ValueKinds
<1> QED
  BY <1>6, ValueFromIs

\* The operands an operator complains about.
OwnErrors(e) ==
  {<<"operand type", ast[e].args[i]>> :
     i \in T!OperatorErrors(e, [i \in DOMAIN ast[e].args |-> T!typeOf(ast[e].args[i])])}

\* typeOf complains about the operands of the operators from the operands up.
LEMMA OperandErrorsAre ==
  ASSUME ast \in Programs
  PROVE  \A e \in Nodes :
           T!OperandErrors(e) = IF ast[e].kind \notin {"binary", "unary"} THEN {}
                                ELSE (UNION {T!OperandErrors(a) : a \in Operands[e]}) \cup OwnErrors(e)
<1> DEFINE kids == [e \in Nodes |-> ast[e].args]
           V == SUBSET (UNION {OwnErrors(e) : e \in Nodes})
           Sum(e, ss) == IF ast[e].kind \notin {"binary", "unary"} THEN {}
                         ELSE (UNION {ss[i] : i \in DOMAIN kids[e]}) \cup OwnErrors(e)
           step == [e \in Nodes |-> [ss \in [DOMAIN kids[e] -> V] |-> Sum(e, ss)]]
           IsIt(f) == f = [e \in Nodes |->
                             IF ast[e].kind \notin {"binary", "unary"} THEN {}
                             ELSE (UNION {f[a] : a \in Range(ast[e].args)}) \cup OwnErrors(e)]
<1>1. PICK f \in [Nodes -> V] : \A e \in Nodes : f[e] = step[e][Along(f, kids[e])]
  <2>1. PICK top \in Nat : top = Cardinality(Nodes)
    BY BehindIs
  <2>2. \A n \in Nodes : \A i \in DOMAIN kids[n] :
          kids[n][i] \in Nodes /\ Behind[kids[n][i]] < Behind[n]
    BY OperandsAre
  <2>3. ASSUME NEW n \in Nodes, NEW ss \in [DOMAIN kids[n] -> V] PROVE step[n][ss] \in V
    <3>1. Sum(n, ss) \in V
      <4> HIDE DEF OwnErrors, kids
      <4> QED
        OBVIOUS
    <3> QED
      BY <3>1
  <2>4. Descends(Nodes, Behind, top, kids, V, step)
    <3> HIDE DEF kids, step, V, Behind
    <3> QED
      BY <2>1, <2>2, <2>3, BehindIs DEF Descends
  <2>5. {} \in V
    OBVIOUS
  <2> HIDE DEF kids, step, V, Behind
  <2> QED
    BY <2>4, <2>5, DefinedFromLists
<1>2. ASSUME NEW e \in Nodes
      PROVE  f[e] = IF ast[e].kind \notin {"binary", "unary"} THEN {}
                    ELSE (UNION {f[a] : a \in Range(ast[e].args)}) \cup OwnErrors(e)
  <2>1. PICK ss : ss = Along(f, kids[e])
    OBVIOUS
  <2>2. ss \in [DOMAIN kids[e] -> V]
    <3> HIDE DEF V
    <3> QED
      BY <2>1, OperandsAre DEF Along
  <2>3. f[e] = Sum(e, ss)
    <3> HIDE DEF V, Sum
    <3> QED
      BY <1>1, <2>1, <2>2
  <2>4. {ss[i] : i \in DOMAIN kids[e]} = {f[a] : a \in Range(ast[e].args)}
    BY <2>1 DEF Along, Range
  <2> HIDE DEF V, OwnErrors
  <2> QED
    BY <2>3, <2>4
<1>3. IsIt(f)
  <2> HIDE DEF V
  <2> QED
    BY <1>1, <1>2
<1>4. ASSUME NEW e PROVE T!OperandErrors(e) = (CHOOSE g : IsIt(g))[e]
  BY Zenon DEF T!OperandErrors, OwnErrors, T!Nodes, Nodes, T!Range, Range
<1>5. PICK g : IsIt(g) /\ \A e : T!OperandErrors(e) = g[e]
  <2>1. IsIt(CHOOSE g : IsIt(g))
    <3> HIDE DEF IsIt
    <3> QED
      BY <1>3, Zenon
  <2> HIDE DEF IsIt
  <2> QED
    BY <1>4, <2>1
<1>6. \A e \in Nodes : Operands[e] = Range(ast[e].args)
  BY DEF Operands
<1> HIDE DEF V, OwnErrors
<1>7. ASSUME NEW e \in Nodes
      PROVE  {T!OperandErrors(a) : a \in Operands[e]} = {g[a] : a \in Range(ast[e].args)}
  BY <1>5, <1>6
<1>8. ASSUME NEW e \in Nodes
      PROVE  g[e] = IF ast[e].kind \notin {"binary", "unary"} THEN {}
                    ELSE (UNION {g[a] : a \in Range(ast[e].args)}) \cup OwnErrors(e)
  BY <1>5
<1> QED
  BY <1>5, <1>7, <1>8

----------------------------------------------------------------------------
(***************************************************************************)
(* Types and kinds.                                                        *)
(***************************************************************************)
\* The hypotheses of TypingIsSound, and names bound to nodes of the tree.
Typable == /\ ast \in Programs
           /\ resolved \in Bindings(ast)
           /\ FewDefinitions
           /\ KindsAreApart

\* Only a definition is a subtype of anything else.
LEMMA NoSupertypes ==
  ASSUME ast \in Programs, NEW a \in Nodes, ast[a].kind # "definition", NEW b, IsSubtype(a, b),
         resolved \in Bindings(ast)
  PROVE  b = a
<1>1. Supertypes[a] = {}
  BY DEF Supertypes
<1>2. IsClosed({a}, Supertypes) /\ {a} \in SUBSET Nodes
  BY <1>1 DEF IsClosed
<1>3. \A m \in Nodes : Supertypes[m] \subseteq Nodes
  BY SupertypesAre
<1>4. Above({a}, Supertypes) \subseteq {a}
  BY <1>2, <1>3, TreeIs, AboveIs
<1> QED
  BY <1>4 DEF IsSubtype

\* Against a definition the test decides whether a node is a subtype.
LEMMA TestIs ==
  ASSUME Typable, NEW a \in TypeValues, NEW b \in Definitions
  PROVE  T!specializesType(a, b) <=> IsSubtype(a, b)
<1>1. ast \in Programs /\ resolved \in Bindings(ast)
  BY DEF Typable
<1>2. b \in Nodes /\ a \in Nodes \cup {NoNode}
  BY DEF Definitions, TypeValues
<1>3. T!specializesType(a, b) => IsSubtype(a, b)
  BY <1>1, <1>2, SameTest, SpecializesIsSubtype
<1>4. ASSUME IsSubtype(a, b) PROVE T!specializesType(a, b)
  <2>1. a \in Nodes
    BY <1>2, <1>4 DEF IsSubtype
  <2>2. a \in Definitions
    BY <1>1, <1>4, <2>1, NoSupertypes DEF Definitions
  <2> QED
    BY <1>1, <1>4, <2>2, SameTest, SubtypesAreAccepted DEF Typable, FewDefinitions, Definitions
<1> QED
  BY <1>3, <1>4

LEMMA BuiltinDefinitions ==
  ASSUME ast \in Programs
  PROVE  builtinNumber \in Definitions /\ builtinBoolean \in Definitions
<1>1. HasLibrary(ast)
  BY ProgramsAssumption
<1>2. DOMAIN BuiltinNodes = 1 .. 10
  BY DEF BuiltinNodes
<1>3. ASSUME NEW i \in 1 .. 10 PROVE Root + i \in Nodes /\ ast[Root + i] = BuiltinNodes[i]
  BY <1>1, <1>2 DEF HasLibrary, Nodes
<1>4. builtinNumber = Root + 2 /\ builtinBoolean = Root + 5
  BY DEF builtinNumber, builtinBoolean, Root
<1>5. BuiltinNodes[2] = mkDatatype("Number", <<>>) /\ BuiltinNodes[5] = mkDatatype("Boolean", <<>>)
  BY DEF BuiltinNodes
<1>6. \A x : mkDatatype(x, <<>>).kind = "definition"
  BY DEF mkDatatype, Blank
<1> QED
  BY <1>3, <1>4, <1>5, <1>6 DEF Definitions

\* What the checker asks of a type is what its kind tells.
LEMMA KindsTell ==
  ASSUME Typable, NEW t \in TypeValues
  PROVE  /\ T!isNumeric(t) <=> KindOf(t) \in {"number", "any"}
         /\ T!isBoolean(t) <=> KindOf(t) \in {"boolean", "any"}
         /\ KindOf(t) = "any" <=> t = NoNode
<1>1. ast \in Programs
  BY DEF Typable
<1>2. T!isNumeric(t) <=> t = NoNode \/ IsSubtype(t, builtinNumber)
  BY <1>1, TestIs, BuiltinDefinitions, SameBuiltins DEF T!isNumeric
<1>3. T!isBoolean(t) <=> t = NoNode \/ IsSubtype(t, builtinBoolean)
  BY <1>1, TestIs, BuiltinDefinitions, SameBuiltins DEF T!isBoolean
<1>4. /\ ~ (IsSubtype(t, builtinNumber) /\ IsSubtype(t, builtinBoolean))
      /\ ~ (IsSubtype(t, builtinNumber) /\ IsSubtype(t, builtinString))
      /\ ~ (IsSubtype(t, builtinBoolean) /\ IsSubtype(t, builtinString))
  <2>1. \A b : IsSubtype(t, b) => t \in Nodes
    BY DEF IsSubtype, TypeValues
  <2> QED
    BY <2>1 DEF Typable, KindsAreApart, builtinNumber, builtinBoolean, builtinString
<1>5. \A b : IsSubtype(t, b) => t # NoNode
  BY DEF IsSubtype
<1> QED
  BY <1>2, <1>3, <1>4, <1>5 DEF KindOf

LEMMA BooleanIs ==
  ASSUME Typable
  PROVE  KindOf(builtinBoolean) = "boolean" /\ KindOf(NoNode) = "any"
<1>1. builtinBoolean \in Nodes /\ builtinBoolean # NoNode
  BY BuiltinDefinitions DEF Typable, Definitions, builtinBoolean, NoNode
<1>2. IsSubtype(builtinBoolean, builtinBoolean)
  BY <1>1, SubtypesOrdered DEF Typable
<1>3. ~ IsSubtype(builtinBoolean, builtinNumber) /\ ~ IsSubtype(builtinBoolean, builtinString)
  BY <1>1, <1>2 DEF Typable, KindsAreApart, builtinNumber, builtinBoolean, builtinString
<1>4. \A b : ~ IsSubtype(NoNode, b)
  BY DEF IsSubtype
<1> QED
  BY <1>1, <1>2, <1>3, <1>4 DEF KindOf

\* Values of types that the test finds related meet.
LEMMA RelatedMeet ==
  ASSUME Typable, NEW a \in Nodes, NEW b \in Nodes,
         T!specializesType(a, b) \/ T!specializesType(b, a)
  PROVE  Meets(KindOf(a), KindOf(b))
<1>1. IsSubtype(a, b) \/ IsSubtype(b, a)
  BY SameTest, SpecializesIsSubtype DEF Typable
<1> QED
  BY <1>1 DEF Meets

\* What an operator gives, by its class.
LEMMA AppliedByClass ==
  ASSUME NEW op, NEW ks
  PROVE  /\ op \in T!Arithmetic =>
              Applied(op, ks) = IF Range(ks) \subseteq {"number", "any"}
                                THEN IF "any" \in Range(ks) THEN "any" ELSE "number"
                                ELSE "stuck"
         /\ op \in T!Comparison =>
              Applied(op, ks) = IF Range(ks) \subseteq {"number", "any"} THEN "boolean" ELSE "stuck"
         /\ op \in T!Logical \cup {"!"} =>
              Applied(op, ks) = IF Range(ks) \subseteq {"boolean", "any"} THEN "boolean" ELSE "stuck"
         /\ op \in T!Equality =>
              Applied(op, ks) = IF /\ "stuck" \notin Range(ks)
                                   /\ "any" \in Range(ks) \/ Meets(ks[1], ks[2])
                                THEN "boolean" ELSE "stuck"
         /\ op \notin Operators =>
              Applied(op, ks) = IF "stuck" \notin Range(ks) THEN "any" ELSE "stuck"
<1> DEFINE numbers == Range(ks) \subseteq {"number", "any"}
           truths == Range(ks) \subseteq {"boolean", "any"}
           whole == "stuck" \notin Range(ks)
           equal == "any" \in Range(ks) \/ Meets(ks[1], ks[2])
           unknown == "any" \in Range(ks)
<1>1. Applied(op, ks) =
        CASE op \in T!Arithmetic /\ numbers -> (IF unknown THEN "any" ELSE "number")
          [] op \in T!Comparison /\ numbers -> "boolean"
          [] op \in T!Logical \cup {"!"} /\ truths -> "boolean"
          [] op \in T!Equality /\ whole /\ equal -> "boolean"
          [] op \notin Operators /\ whole -> "any"
          [] OTHER -> "stuck"
  BY Zenon DEF Applied
<1> HIDE DEF numbers, truths, whole, equal, unknown
<1>2. CASE op \in T!Arithmetic
  <2>1. op \notin T!Comparison \cup T!Logical \cup {"!"} \cup T!Equality /\ op \in Operators
    BY <1>2 DEF T!Arithmetic, T!Comparison, T!Logical, T!Equality, Operators
  <2> QED
    BY <1>1, <1>2, <2>1 DEF numbers, unknown
<1>3. CASE op \in T!Comparison
  <2>1. op \notin T!Arithmetic \cup T!Logical \cup {"!"} \cup T!Equality /\ op \in Operators
    BY <1>3 DEF T!Arithmetic, T!Comparison, T!Logical, T!Equality, Operators
  <2> QED
    BY <1>1, <1>3, <2>1 DEF numbers
<1>4. CASE op \in T!Logical \cup {"!"}
  <2>1. op \notin T!Arithmetic \cup T!Comparison \cup T!Equality /\ op \in Operators
    BY <1>4 DEF T!Arithmetic, T!Comparison, T!Logical, T!Equality, Operators
  <2> QED
    BY <1>1, <1>4, <2>1 DEF truths
<1>5. CASE op \in T!Equality
  <2>1. op \notin T!Arithmetic \cup T!Comparison \cup T!Logical \cup {"!"} /\ op \in Operators
    BY <1>5 DEF T!Arithmetic, T!Comparison, T!Logical, T!Equality, Operators
  <2> QED
    BY <1>1, <1>5, <2>1 DEF whole, equal
<1>6. CASE op \notin Operators
  <2>1. op \notin T!Arithmetic \cup T!Comparison \cup T!Logical \cup {"!"} \cup T!Equality
    BY <1>6 DEF Operators
  <2> QED
    BY <1>1, <1>6, <2>1 DEF whole
<1> QED
  BY <1>2, <1>3, <1>4, <1>5, <1>6 DEF Operators

\* An operator with an operand that is stuck is stuck.
LEMMA StuckStays ==
  ASSUME NEW op, NEW ks, "stuck" \in Range(ks)
  PROVE  Applied(op, ks) = "stuck"
BY AppliedByClass DEF Operators

\* What the checker makes of two operands is what evaluation does.
LEMMA BinaryAgrees ==
  ASSUME Typable, NEW e \in Nodes, ast[e].kind = "binary",
         NEW ts \in [{1, 2} -> TypeValues]
  PROVE  LET ks  == [i \in {1, 2} |-> KindOf(ts[i])]
             op  == ast[e].what
             bad == T!OperatorErrors(e, ts)
         IN  /\ (bad = {} \/ Applied(op, ks) # "stuck") =>
                   Applied(op, ks) = KindOf(T!OperatorType(e, ts))
             /\ (bad # {} /\ Applied(op, ks) # "stuck") => op \in T!Equality
             /\ bad \subseteq {1, 2}
<1>1. PICK a \in TypeValues, b \in TypeValues : a = ts[1] /\ b = ts[2]
  OBVIOUS
<1>2. PICK ks : ks = [i \in {1, 2} |-> KindOf(ts[i])]
  OBVIOUS
<1>3. ks[1] = KindOf(a) /\ ks[2] = KindOf(b) /\ Range(ks) = {KindOf(a), KindOf(b)}
  BY <1>1, <1>2 DEF Range
<1>4. PICK op : op = ast[e].what
  OBVIOUS
<1>5. op # "!"
  <2>1. HasOperands(ast, e)
    BY TreeIs DEF Typable, IsAst, Nodes
  <2> QED
    BY <1>4, <2>1 DEF HasOperands
<1>6. PICK bad : bad = T!OperatorErrors(e, ts)
  OBVIOUS
<1>7. PICK ty : ty = T!OperatorType(e, ts)
  OBVIOUS
<1>8. /\ T!isNumeric(a) <=> KindOf(a) \in {"number", "any"}
      /\ T!isBoolean(a) <=> KindOf(a) \in {"boolean", "any"}
      /\ KindOf(a) = "any" <=> a = NoNode
      /\ T!isNumeric(b) <=> KindOf(b) \in {"number", "any"}
      /\ T!isBoolean(b) <=> KindOf(b) \in {"boolean", "any"}
      /\ KindOf(b) = "any" <=> b = NoNode
  BY KindsTell
<1>9. T!NoNode = NoNode /\ T!builtinBoolean = builtinBoolean
  BY SameBuiltins
<1>10. KindOf(a) # "stuck" /\ KindOf(b) # "stuck"
  BY KindIs
<1> DEFINE Goal == /\ (bad = {} \/ Applied(op, ks) # "stuck") => Applied(op, ks) = KindOf(ty)
                   /\ (bad # {} /\ Applied(op, ks) # "stuck") => op \in T!Equality
                   /\ bad \subseteq {1, 2}
<1> SUFFICES Goal
  BY <1>2, <1>4, <1>6, <1>7
<1>11. CASE op \in T!Arithmetic
  <2>1. op \notin T!Comparison \cup T!Logical \cup T!Equality
    BY <1>11 DEF T!Arithmetic, T!Comparison, T!Logical, T!Equality
  <2>2. bad = IF T!isNumeric(a) /\ T!isNumeric(b) THEN {} ELSE {1}
    BY <1>1, <1>4, <1>6, <1>11, <2>1 DEF T!OperatorErrors
  <2>3. ty = IF T!isNumeric(a) /\ T!isNumeric(b) /\ a # NoNode /\ b # NoNode
             THEN T!joinNumeric(a, b) ELSE NoNode
    BY <1>1, <1>4, <1>7, <1>9, <1>11, <2>1 DEF T!OperatorType
  <2>4. T!joinNumeric(a, b) \in {a, b}
    BY DEF T!joinNumeric
  <2>5. Applied(op, ks) = IF Range(ks) \subseteq {"number", "any"}
                          THEN IF "any" \in Range(ks) THEN "any" ELSE "number"
                          ELSE "stuck"
    BY <1>11, AppliedByClass
  <2>6. KindOf(NoNode) = "any"
    BY BooleanIs
  <2> QED
    BY <1>3, <1>8, <2>2, <2>3, <2>4, <2>5, <2>6
<1>12. CASE op \in T!Comparison
  <2>1. op \notin T!Arithmetic \cup T!Logical \cup T!Equality
    BY <1>12 DEF T!Arithmetic, T!Comparison, T!Logical, T!Equality
  <2>2. bad = IF T!isNumeric(a) /\ T!isNumeric(b) THEN {} ELSE {1}
    BY <1>1, <1>4, <1>6, <1>12, <2>1 DEF T!OperatorErrors
  <2>3. ty = builtinBoolean
    BY <1>1, <1>4, <1>7, <1>9, <1>12, <2>1 DEF T!OperatorType
  <2>4. Applied(op, ks) = IF Range(ks) \subseteq {"number", "any"} THEN "boolean" ELSE "stuck"
    BY <1>12, AppliedByClass
  <2> QED
    BY <1>3, <1>8, <2>2, <2>3, <2>4, BooleanIs
<1>13. CASE op \in T!Logical
  <2>1. op \notin T!Arithmetic \cup T!Comparison \cup T!Equality
    BY <1>13 DEF T!Arithmetic, T!Comparison, T!Logical, T!Equality
  <2>2. bad = {i \in {1, 2} : ~ T!isBoolean(ts[i])}
    BY <1>4, <1>6, <1>13, <2>1 DEF T!OperatorErrors
  <2>3. ty = builtinBoolean
    BY <1>1, <1>4, <1>7, <1>9, <1>13, <2>1 DEF T!OperatorType
  <2>4. Applied(op, ks) = IF Range(ks) \subseteq {"boolean", "any"} THEN "boolean" ELSE "stuck"
    BY <1>13, AppliedByClass
  <2>5. bad = {} <=> T!isBoolean(a) /\ T!isBoolean(b)
    BY <1>1, <2>2
  <2> QED
    BY <1>3, <1>8, <2>2, <2>3, <2>4, <2>5, BooleanIs
<1>14. CASE op \in T!Equality
  <2>1. op \notin T!Arithmetic \cup T!Comparison \cup T!Logical
    BY <1>14 DEF T!Arithmetic, T!Comparison, T!Logical, T!Equality
  <2>2. bad = IF T!Unrelated(a, b) THEN {1} ELSE {}
    BY <1>1, <1>4, <1>6, <1>14, <2>1 DEF T!OperatorErrors
  <2>3. ty = builtinBoolean
    BY <1>1, <1>4, <1>7, <1>9, <1>14, <2>1 DEF T!OperatorType
  <2>4. Applied(op, ks) = IF /\ "stuck" \notin Range(ks)
                             /\ "any" \in Range(ks) \/ Meets(ks[1], ks[2])
                          THEN "boolean" ELSE "stuck"
    BY <1>14, AppliedByClass
  <2>5. ~ T!Unrelated(a, b) => "any" \in Range(ks) \/ Meets(ks[1], ks[2])
    <3>1. (a # NoNode /\ b # NoNode) => a \in Nodes /\ b \in Nodes
      BY DEF TypeValues
    <3> QED
      BY <1>3, <1>8, <1>9, <3>1, RelatedMeet DEF T!Unrelated
  <2> QED
    BY <1>3, <1>10, <1>14, <2>2, <2>3, <2>4, <2>5, BooleanIs
<1>15. CASE op \notin Operators
  <2>1. op \notin T!Arithmetic \cup T!Comparison \cup T!Logical \cup T!Equality
    BY <1>15 DEF Operators
  <2>2. bad = {}
    BY <1>4, <1>6, <2>1 DEF T!OperatorErrors
  <2>3. ty = NoNode
    BY <1>4, <1>7, <1>9, <2>1 DEF T!OperatorType
  <2>4. Applied(op, ks) = IF "stuck" \notin Range(ks) THEN "any" ELSE "stuck"
    BY <1>15, AppliedByClass
  <2> QED
    BY <1>3, <1>10, <2>2, <2>3, <2>4, BooleanIs
<1> QED
  BY <1>5, <1>11, <1>12, <1>13, <1>14, <1>15 DEF Operators

\* So is what it makes of one.
LEMMA UnaryAgrees ==
  ASSUME Typable, NEW e \in Nodes, ast[e].kind = "unary",
         NEW ts \in [{1} -> TypeValues]
  PROVE  LET ks  == [i \in {1} |-> KindOf(ts[i])]
             op  == ast[e].what
             bad == T!OperatorErrors(e, ts)
         IN  /\ (bad = {} \/ Applied(op, ks) # "stuck") =>
                   Applied(op, ks) = KindOf(T!OperatorType(e, ts))
             /\ (bad # {} /\ Applied(op, ks) # "stuck") => op \in T!Equality
             /\ bad \subseteq {1}
<1>1. PICK a \in TypeValues : a = ts[1]
  OBVIOUS
<1>2. PICK ks : ks = [i \in {1} |-> KindOf(ts[i])]
  OBVIOUS
<1>3. Range(ks) = {KindOf(a)}
  BY <1>1, <1>2 DEF Range
<1>4. PICK op : op = ast[e].what
  OBVIOUS
<1>5. op \in {"-", "!"}
  <2>1. HasOperands(ast, e)
    BY TreeIs DEF Typable, IsAst, Nodes
  <2> QED
    BY <1>4, <2>1 DEF HasOperands
<1>6. PICK bad : bad = T!OperatorErrors(e, ts)
  OBVIOUS
<1>7. PICK ty : ty = T!OperatorType(e, ts)
  OBVIOUS
<1>8. /\ T!isNumeric(a) <=> KindOf(a) \in {"number", "any"}
      /\ T!isBoolean(a) <=> KindOf(a) \in {"boolean", "any"}
  BY KindsTell
<1>9. T!NoNode = NoNode /\ T!builtinBoolean = builtinBoolean
  BY SameBuiltins
<1> DEFINE Goal == /\ (bad = {} \/ Applied(op, ks) # "stuck") => Applied(op, ks) = KindOf(ty)
                   /\ (bad # {} /\ Applied(op, ks) # "stuck") => op \in T!Equality
                   /\ bad \subseteq {1}
<1> SUFFICES Goal
  BY <1>2, <1>4, <1>6, <1>7
<1>10. CASE op = "-"
  <2>1. bad = IF T!isNumeric(a) THEN {} ELSE {1}
    BY <1>1, <1>4, <1>6, <1>10 DEF T!OperatorErrors
  <2>2. ty = IF T!isNumeric(a) THEN a ELSE NoNode
    BY <1>1, <1>4, <1>7, <1>9, <1>10 DEF T!OperatorType
  <2>3. op \in T!Arithmetic
    BY <1>10 DEF T!Arithmetic
  <2>4. Applied(op, ks) = IF Range(ks) \subseteq {"number", "any"}
                          THEN IF "any" \in Range(ks) THEN "any" ELSE "number"
                          ELSE "stuck"
    BY <2>3, AppliedByClass
  <2> QED
    BY <1>3, <1>8, <2>1, <2>2, <2>4
<1>11. CASE op = "!"
  <2>1. bad = IF T!isBoolean(a) THEN {} ELSE {1}
    BY <1>1, <1>4, <1>6, <1>11 DEF T!OperatorErrors
  <2>2. ty = builtinBoolean
    BY <1>1, <1>4, <1>7, <1>9, <1>11 DEF T!OperatorType
  <2>3. Applied(op, ks) = IF Range(ks) \subseteq {"boolean", "any"} THEN "boolean" ELSE "stuck"
    BY <1>11, AppliedByClass
  <2> QED
    BY <1>3, <1>8, <2>1, <2>2, <2>3, BooleanIs
<1> QED
  BY <1>5, <1>10, <1>11

LEMMA OperatorAgrees ==
  ASSUME Typable, NEW e \in Nodes, ast[e].kind \in {"binary", "unary"},
         NEW ts \in [DOMAIN ast[e].args -> TypeValues]
  PROVE  LET ks  == [i \in DOMAIN ast[e].args |-> KindOf(ts[i])]
             op  == ast[e].what
             bad == T!OperatorErrors(e, ts)
         IN  /\ (bad = {} \/ Applied(op, ks) # "stuck") =>
                   Applied(op, ks) = KindOf(T!OperatorType(e, ts))
             /\ (bad # {} /\ Applied(op, ks) # "stuck") => op \in T!Equality
             /\ bad \subseteq DOMAIN ast[e].args
<1>1. ast \in Programs
  BY DEF Typable
<1>2. CASE ast[e].kind = "binary"
  <2>1. DOMAIN ast[e].args = {1, 2}
    BY <1>1, <1>2, OperandsAre
  <2> QED
    BY <1>2, <2>1, BinaryAgrees
<1>3. CASE ast[e].kind = "unary"
  <2>1. DOMAIN ast[e].args = {1}
    BY <1>1, <1>3, OperandsAre
  <2> QED
    BY <1>3, <2>1, UnaryAgrees
<1> QED
  BY <1>2, <1>3

----------------------------------------------------------------------------
(***************************************************************************)
(* Whole expressions.                                                      *)
(***************************************************************************)
\* What follows holds of all expressions if it holds of one whenever it holds of
\* all its operands.
LEMMA FromOperandsUp ==
  ASSUME ast \in Programs, NEW Fine \in SUBSET Nodes,
         \A e \in Nodes : Operands[e] \subseteq Fine => e \in Fine
  PROVE  Fine = Nodes
<1> SUFFICES ASSUME Nodes \ Fine # {} PROVE FALSE
  OBVIOUS
<1>1. PICK e \in Nodes \ Fine : \A m \in Nodes \ Fine : Behind[e] <= Behind[m]
  BY LastOne
<1>2. PICK m \in Operands[e] : m \notin Fine
  BY <1>1
<1>3. m \in Nodes /\ Behind[m] < Behind[e]
  BY <1>1, OperandsAre
<1> QED
  BY <1>1, <1>2, <1>3, BehindIs

\* Evaluation of e, which does not get stuck or is not complained about, gives
\* a value of the type that the checker gives e.
Agrees(e) == (T!OperandErrors(e) = {} \/ ValueOf(e) # "stuck") =>
               ValueOf(e) = KindOf(T!typeOf(e))

\* An operator, with the types and the values of its operands.
LEMMA OperatorIs ==
  ASSUME Typable, NEW e \in Nodes, ast[e].kind \in {"binary", "unary"}
  PROVE  LET args == ast[e].args
             ts   == [i \in DOMAIN args |-> T!typeOf(args[i])]
             ks   == [i \in DOMAIN args |-> ValueOf(args[i])]
         IN  /\ ts \in [DOMAIN args -> TypeValues]
             /\ T!typeOf(e) = T!OperatorType(e, ts)
             /\ ValueOf(e) = Applied(ast[e].what, ks)
             /\ OwnErrors(e) = {<<"operand type", args[i]>> : i \in T!OperatorErrors(e, ts)}
             /\ T!OperandErrors(e) = (UNION {T!OperandErrors(a) : a \in Operands[e]}) \cup OwnErrors(e)
             /\ \A i \in DOMAIN args : args[i] \in Operands[e] /\ args[i] \in Nodes
             /\ Operands[e] = {args[i] : i \in DOMAIN args}
<1>1. ast \in Programs /\ resolved \in Bindings(ast)
  BY DEF Typable
<1>2. \A i \in DOMAIN ast[e].args : ast[e].args[i] \in Operands[e] /\ ast[e].args[i] \in Nodes
  BY <1>1, OperandsAre
<1>3. PICK ts : ts = [i \in DOMAIN ast[e].args |-> T!typeOf(ast[e].args[i])]
  OBVIOUS
<1>4. ts \in [DOMAIN ast[e].args -> TypeValues]
  BY <1>1, <1>2, <1>3, TypeOfIs
<1>5. T!typeOf(e) = T!OperatorType(e, ts)
  <2>1. T!typeOf(e) = T!TypeFrom(e, ts)
    BY <1>1, <1>3, TypeOfIs
  <2>2. ast[e].kind # "literal" /\ ast[e].kind # "qname"
    OBVIOUS
  <2> QED
    BY <2>1, <2>2 DEF T!TypeFrom
<1>6. ValueOf(e) = Applied(ast[e].what, [i \in DOMAIN ast[e].args |-> ValueOf(ast[e].args[i])])
  <2>1. ValueOf(e) = ValueFrom(e, [i \in DOMAIN ast[e].args |-> ValueOf(ast[e].args[i])])
    BY <1>1, ValueOfIs
  <2>2. ast[e].kind # "literal" /\ ast[e].kind # "qname"
    OBVIOUS
  <2> QED
    BY <2>1, <2>2 DEF ValueFrom
<1>7. T!OperandErrors(e) = (UNION {T!OperandErrors(a) : a \in Operands[e]}) \cup OwnErrors(e)
  BY <1>1, OperandErrorsAre
<1>8. OwnErrors(e) = {<<"operand type", ast[e].args[i]>> : i \in T!OperatorErrors(e, ts)}
  BY <1>3 DEF OwnErrors
<1>9. Operands[e] = {ast[e].args[i] : i \in DOMAIN ast[e].args}
  BY <1>1, OperandsAre DEF Range
<1> QED
  BY <1>2, <1>3, <1>4, <1>5, <1>6, <1>7, <1>8, <1>9

LEMMA ValuesAgree ==
  ASSUME Typable
  PROVE  \A e \in Nodes : Agrees(e)
<1> DEFINE Fine == {e \in Nodes : Agrees(e)}
<1>1. ast \in Programs /\ resolved \in Bindings(ast)
  BY DEF Typable
<1>2. ASSUME NEW e \in Nodes, Operands[e] \subseteq Fine PROVE Agrees(e)
  <2>1. CASE ast[e].kind \in {"binary", "unary"}
    <3> DEFINE args == ast[e].args
               ts == [i \in DOMAIN args |-> T!typeOf(args[i])]
               ks == [i \in DOMAIN args |-> ValueOf(args[i])]
               bad == T!OperatorErrors(e, ts)
    <3>1. /\ ts \in [DOMAIN args -> TypeValues]
          /\ T!typeOf(e) = T!OperatorType(e, ts)
          /\ ValueOf(e) = Applied(ast[e].what, ks)
          /\ OwnErrors(e) = {<<"operand type", args[i]>> : i \in bad}
          /\ T!OperandErrors(e) = (UNION {T!OperandErrors(a) : a \in Operands[e]}) \cup OwnErrors(e)
          /\ \A i \in DOMAIN args : args[i] \in Operands[e] /\ args[i] \in Nodes
      BY <2>1, OperatorIs
    <3>2. T!OperandErrors(e) = {} => bad = {}
      <4> SUFFICES ASSUME NEW i \in bad PROVE T!OperandErrors(e) # {}
        OBVIOUS
      <4>1. PICK own : own = OwnErrors(e)
        OBVIOUS
      <4>2. <<"operand type", args[i]>> \in own
        <5> HIDE DEF bad, args
        <5> QED
          BY <3>1, <4>1
      <4>3. own \subseteq T!OperandErrors(e)
        BY <3>1, <4>1
      <4> QED
        BY <4>2, <4>3
    <3> SUFFICES ASSUME T!OperandErrors(e) = {} \/ ValueOf(e) # "stuck"
                 PROVE  ValueOf(e) = KindOf(T!typeOf(e))
      BY DEF Agrees
    <3>3. ASSUME NEW i \in DOMAIN args PROVE ValueOf(args[i]) = KindOf(ts[i])
      <4>1. PICK a : a = args[i]
        OBVIOUS
      <4>2. a \in Operands[e] /\ Agrees(a)
        BY <1>2, <3>1, <4>1
      <4>3. T!OperandErrors(e) = {} => T!OperandErrors(a) = {}
        <5> HIDE DEF bad, args, ts, ks
        <5> QED
          BY <3>1, <4>2
      <4>4. ValueOf(e) # "stuck" => ValueOf(a) # "stuck"
        <5>1. ValueOf(a) \in Range(ks)
          BY <4>1 DEF Range
        <5> HIDE DEF ks
        <5> QED
          BY <3>1, <5>1, StuckStays
      <4> QED
        BY <4>1, <4>2, <4>3, <4>4 DEF Agrees
    <3>4. ks = [i \in DOMAIN args |-> KindOf(ts[i])]
      BY <3>3
    <3> HIDE DEF ts, ks
    <3>5. bad = {} \/ Applied(ast[e].what, ks) # "stuck" =>
            Applied(ast[e].what, ks) = KindOf(T!OperatorType(e, ts))
      BY <2>1, <3>1, <3>4, OperatorAgrees
    <3> HIDE DEF bad
    <3> QED
      BY <3>1, <3>2, <3>5
  <2>2. CASE ast[e].kind \notin {"binary", "unary"}
    <3>1. T!typeOf(e) = T!TypeFrom(e, [i \in DOMAIN ast[e].args |-> T!typeOf(ast[e].args[i])])
      BY <1>1, TypeOfIs
    <3>2. ValueOf(e) = ValueFrom(e, [i \in DOMAIN ast[e].args |-> ValueOf(ast[e].args[i])])
      BY <1>1, ValueOfIs
    <3>3. KindOf(T!NoNode) = "any"
      BY BooleanIs, SameBuiltins
    <3>4. \A ts, ks : KindOf(T!TypeFrom(e, ts)) = ValueFrom(e, ks)
      BY <2>2, <3>3 DEF T!TypeFrom, ValueFrom
    <3> QED
      BY <3>1, <3>2, <3>4 DEF Agrees
  <2> QED
    BY <2>1, <2>2
<1>3. Fine \in SUBSET Nodes
  OBVIOUS
<1>4. \A e \in Nodes : Operands[e] \subseteq Fine => e \in Fine
  BY <1>2
<1> HIDE DEF Fine
<1>5. Fine = Nodes
  BY <1>1, <1>3, <1>4, FromOperandsUp
<1> QED
  BY <1>5 DEF Fine

LEMMA SubexpressionsAre ==
  ASSUME ast \in Programs, NEW e \in Nodes
  PROVE  /\ e \in Subexpressions(e) /\ Subexpressions(e) \subseteq Nodes
         /\ \A m \in Subexpressions(e) : Operands[m] \subseteq Subexpressions(e)
         /\ \A a \in Operands[e] : Subexpressions(a) \subseteq Subexpressions(e)
         /\ \A A \in SUBSET Nodes :
              (e \in A /\ \A m \in A : Operands[m] \subseteq A) => Subexpressions(e) \subseteq A
<1>1. \A m \in Nodes : Operands[m] \subseteq Nodes
  BY OperandsAre
<1>2. IsFiniteSet(Nodes)
  BY TreeIs
<1>3. ASSUME NEW m \in Nodes
      PROVE  /\ m \in Subexpressions(m) /\ Subexpressions(m) \subseteq Nodes
             /\ IsClosed(Subexpressions(m), Operands)
             /\ \A A \in SUBSET Nodes :
                  (m \in A /\ IsClosed(A, Operands)) => Subexpressions(m) \subseteq A
  <2>1. {m} \in SUBSET Nodes
    OBVIOUS
  <2> QED
    BY <1>1, <1>2, <2>1, AboveIs DEF Subexpressions
<1>4. ASSUME NEW a \in Operands[e] PROVE Subexpressions(a) \subseteq Subexpressions(e)
  <2>1. a \in Nodes /\ a \in Subexpressions(e)
    BY <1>1, <1>3 DEF IsClosed
  <2> QED
    BY <1>3, <2>1
<1> QED
  BY <1>3, <1>4 DEF IsClosed

\* What typeOf complains about are operands in the expression, and if this can
\* be evaluated all the same, operands of an equality.
ComplaintsFit(e) ==
  \A x \in T!OperandErrors(e) : \E n \in Subexpressions(e) :
    /\ x = <<"operand type", n>>
    /\ ValueOf(e) # "stuck" =>
         \E m \in Subexpressions(e) : ast[m].what \in T!Equality /\ n \in Range(ast[m].args)

LEMMA ComplaintsAlwaysFit ==
  ASSUME Typable
  PROVE  \A e \in Nodes : ComplaintsFit(e)
<1> DEFINE Fine == {e \in Nodes : ComplaintsFit(e)}
<1>1. ast \in Programs /\ resolved \in Bindings(ast)
  BY DEF Typable
<1>2. ASSUME NEW e \in Nodes, Operands[e] \subseteq Fine PROVE ComplaintsFit(e)
  <2> SUFFICES ASSUME NEW x \in T!OperandErrors(e)
               PROVE  \E n \in Subexpressions(e) :
                        /\ x = <<"operand type", n>>
                        /\ ValueOf(e) # "stuck" =>
                             \E m \in Subexpressions(e) :
                               ast[m].what \in T!Equality /\ n \in Range(ast[m].args)
    BY DEF ComplaintsFit
  <2>0. ast[e].kind \in {"binary", "unary"}
    BY <1>1, OperandErrorsAre
  <2> DEFINE args == ast[e].args
             ts == [i \in DOMAIN args |-> T!typeOf(args[i])]
             ks == [i \in DOMAIN args |-> ValueOf(args[i])]
             bad == T!OperatorErrors(e, ts)
  <2>1. /\ ts \in [DOMAIN args -> TypeValues]
        /\ ValueOf(e) = Applied(ast[e].what, ks)
        /\ OwnErrors(e) = {<<"operand type", args[i]>> : i \in bad}
        /\ T!OperandErrors(e) = (UNION {T!OperandErrors(a) : a \in Operands[e]}) \cup OwnErrors(e)
        /\ \A i \in DOMAIN args : args[i] \in Operands[e] /\ args[i] \in Nodes
        /\ Operands[e] = {args[i] : i \in DOMAIN args}
    BY <2>0, OperatorIs
  <2>2. \A i \in DOMAIN args : ValueOf(e) # "stuck" => ValueOf(args[i]) # "stuck"
    <3> SUFFICES ASSUME NEW i \in DOMAIN args, ValueOf(args[i]) = "stuck" PROVE ValueOf(e) = "stuck"
      OBVIOUS
    <3>1. ValueOf(args[i]) \in Range(ks)
      BY DEF Range
    <3> HIDE DEF ks
    <3> QED
      BY <2>1, <3>1, StuckStays
  <2>3. CASE x \in OwnErrors(e)
    <3>1. PICK i \in bad : x = <<"operand type", args[i]>>
      <4> HIDE DEF bad, args
      <4> QED
        BY <2>1, <2>3
    <3>2. bad \subseteq DOMAIN args
      <4> HIDE DEF ts
      <4> QED
        BY <2>0, <2>1, OperatorAgrees
    <3>3. args[i] \in Subexpressions(e) /\ e \in Subexpressions(e) /\ args[i] \in Range(args)
      <4>1. args[i] \in Operands[e] /\ args[i] \in Range(args)
        BY <2>1, <3>2 DEF Range
      <4>2. e \in Subexpressions(e) /\ Operands[e] \subseteq Subexpressions(e)
        BY <1>1, SubexpressionsAre
      <4> QED
        BY <4>1, <4>2
    <3>4. ASSUME ValueOf(e) # "stuck" PROVE ast[e].what \in T!Equality
      <4>1. \A j \in DOMAIN args : ValueOf(args[j]) = KindOf(ts[j])
        BY <2>1, <2>2, <3>4, ValuesAgree DEF Agrees
      <4>2. ks = [j \in DOMAIN args |-> KindOf(ts[j])]
        BY <4>1
      <4> HIDE DEF ts, ks
      <4> QED
        BY <2>0, <2>1, <3>1, <3>4, <4>2, OperatorAgrees
    <3> HIDE DEF args, bad
    <3> QED
      BY <3>1, <3>3, <3>4 DEF args
  <2>4. CASE x \notin OwnErrors(e)
    <3>1. PICK a \in Operands[e] : x \in T!OperandErrors(a)
      <4> HIDE DEF args, bad, ks, ts
      <4> QED
        BY <2>1, <2>4
    <3>2. ComplaintsFit(a) /\ Subexpressions(a) \subseteq Subexpressions(e)
      BY <1>1, <1>2, <3>1, SubexpressionsAre
    <3>3. ValueOf(e) # "stuck" => ValueOf(a) # "stuck"
      BY <2>1, <2>2, <3>1
    <3>4. PICK n \in Subexpressions(a) :
            /\ x = <<"operand type", n>>
            /\ ValueOf(a) # "stuck" =>
                 \E m \in Subexpressions(a) : ast[m].what \in T!Equality /\ n \in Range(ast[m].args)
      BY <3>1, <3>2 DEF ComplaintsFit
    <3> QED
      BY <3>2, <3>3, <3>4
  <2> QED
    BY <2>3, <2>4
<1>3. Fine \in SUBSET Nodes
  OBVIOUS
<1>4. \A e \in Nodes : Operands[e] \subseteq Fine => e \in Fine
  BY <1>2
<1> HIDE DEF Fine
<1>5. Fine = Nodes
  BY <1>1, <1>3, <1>4, FromOperandsUp
<1> QED
  BY <1>5 DEF Fine

----------------------------------------------------------------------------
(***************************************************************************)
(* The walk of the type checker.                                           *)
(***************************************************************************)
\* All that typeOf complains about, as one function.
Complaints ==
  CHOOSE wrong : wrong = [e \in Nodes |->
                            IF ast[e].kind \notin {"binary", "unary"} THEN {}
                            ELSE (UNION {wrong[a] : a \in Range(ast[e].args)}) \cup OwnErrors(e)]

IsAllComplaints == \A e : T!OperandErrors(e) = Complaints[e]

LEMMA ComplaintsAre == IsAllComplaints
<1> SUFFICES ASSUME NEW e PROVE T!OperandErrors(e) = Complaints[e]
  BY DEF IsAllComplaints
<1> QED
  BY Zenon DEF T!OperandErrors, Complaints, OwnErrors, T!Nodes, Nodes, T!Range, Range

\* What the checker makes of an expression does not change while the tree and
\* the bindings are the same.
LEMMA TypingStays ==
  ASSUME ast' = ast, resolved' = resolved
  PROVE  /\ \A e : T!OperandErrors(e)' = T!OperandErrors(e)
         /\ \A a, p : T!AttributeErrors(a, p)' = T!AttributeErrors(a, p)
<1>0. IsAllComplaints /\ IsAllComplaints'
  BY ComplaintsAre, PTL
<1>1. ASSUME NEW a, NEW b PROVE T!specializesType(a, b)' <=> T!specializesType(a, b)
  BY DEF T!specializesType, T!Nodes, T!NoNode
<1>2. \A t : T!isNumeric(t)' <=> T!isNumeric(t)
  BY <1>1 DEF T!isNumeric, T!builtinNumber, T!NoNode
<1>3. ASSUME NEW e, NEW ts PROVE T!TypeFrom(e, ts)' = T!TypeFrom(e, ts)
  BY <1>1, <1>2 DEF T!TypeFrom, T!literalType, T!identifierType, T!OperatorType, T!joinNumeric,
                    T!NoNode, T!builtinNumber, T!builtinReal, T!builtinInteger, T!builtinBoolean,
                    T!builtinString, T!Arithmetic, T!Comparison, T!Equality, T!Logical
<1>4. ASSUME NEW e PROVE T!typeOf(e)' = T!typeOf(e)
  BY <1>3 DEF T!typeOf, T!Nodes
<1>5. \A t : T!isBoolean(t)' <=> T!isBoolean(t)
  BY <1>1 DEF T!isBoolean, T!builtinBoolean, T!NoNode
<1>6. ASSUME NEW e, NEW ts PROVE T!OperatorErrors(e, ts)' = T!OperatorErrors(e, ts)
  BY <1>1, <1>2, <1>5 DEF T!OperatorErrors, T!Unrelated, T!NoNode, T!Arithmetic, T!Comparison,
                          T!Equality, T!Logical
<1>7. ASSUME NEW e PROVE T!OperandErrors(e)' = T!OperandErrors(e)
  <2>1. ASSUME NEW m PROVE OwnErrors(m)' = OwnErrors(m)
    BY <1>4, <1>6 DEF OwnErrors
  <2>2. Complaints' = Complaints
    BY <2>1 DEF Complaints, Nodes
  <2> QED
    BY <1>0, <2>2 DEF IsAllComplaints
<1>8. ASSUME NEW a, NEW p PROVE T!AttributeErrors(a, p)' = T!AttributeErrors(a, p)
  BY <1>1, <1>4, <1>7 DEF T!AttributeErrors, T!IsEnum, T!NoNode
<1> QED
  BY <1>7, <1>8

\* Where the walk leads from n: its members and the inline actions of a
\* succession.
TypesDown == [n \in Nodes |-> Members[n] \cup {m \in Range(ast[n].targets) : ast[m].kind # "qname"}]

\* The calls the walk makes; of an attribute it knows the owner.
TypeCalls == {x \in R!Item({"types"}, Nodes) :
                ast[x.node].kind = "attribute" => x.under = Owner(ast, x.node)}

LEMMA TypesDownIs ==
  ASSUME ast \in Programs, NEW n \in Nodes
  PROVE  /\ TypesDown[n] \subseteq Nodes
         /\ ast[n].kind # "succession" => TypesDown[n] = Members[n]
         /\ ast[n].kind = "succession" =>
              TypesDown[n] = {m \in Range(ast[n].targets) : ast[m].kind # "qname"}
         /\ \A m \in Range(ast[n].targets) : ast[m].kind # "attribute"
<1>1. IsAst(ast) /\ Nodes = DOMAIN ast
  BY TreeIs DEF Nodes
<1>2. PICK s \in Seq(Nodes) : s = ast[n].targets
  BY <1>1, AstLists
<1>3. Range(s) \subseteq Nodes
  BY ElementOfSeq, LenProperties DEF Range
<1>4. IsShaped(ast, n)
  BY <1>1 DEF IsAst
<1>5. s = <<>> => Range(s) = {}
  BY DEF Range
<1>6. ast[n].kind # "succession" => Range(s) = {}
  BY <1>2, <1>4, <1>5 DEF IsShaped
<1>7. ast[n].kind = "succession" => Members[n] = {}
  <2>1. ast[n].kind = "succession" => ast[n].members = <<>>
    BY MembersOwned
  <2> QED
    BY <2>1 DEF Members, Range
<1>8. \A m \in Range(s) : ast[m].kind # "attribute"
  <2>1. Range(s) # {} => s # <<>>
    BY <1>5
  <2> QED
    BY <1>2, <1>4, <2>1 DEF IsShaped
<1>9. Members[n] \subseteq Nodes
  BY TreeIs
<1> QED
  BY <1>2, <1>3, <1>6, <1>7, <1>8, <1>9 DEF TypesDown

LEMMA InlineActionsAre ==
  ASSUME ast \in Programs, NEW n \in Nodes
  PROVE  /\ T!InlineActions(n) \in Seq(Nodes)
         /\ Range(T!InlineActions(n)) = {m \in Range(ast[n].targets) : ast[m].kind # "qname"}
<1>1. PICK s \in Seq(Nodes) : s = ast[n].targets
  BY TreeIs, AstLists DEF Nodes
<1>2. PICK l \in Nat : l = Len(s) /\ DOMAIN s = 1 .. l
  BY LenProperties
<1>3. \A i \in 1 .. l : s[i] \in Nodes
  BY <1>2, ElementOfSeq
<1> DEFINE N == 0 .. l
           S == Seq(Nodes)
           up == [i \in N |-> i - 1]
           start == [i \in N |-> <<>>]
           step == [i \in N |-> [q \in S |-> IF i # 0 /\ ast[s[i]].kind # "qname" THEN Append(q, s[i]) ELSE q]]
           IsIt(f) == f = [i \in 0 .. Len(ast[n].targets) |->
                             IF i = 0 THEN <<>>
                             ELSE IF ast[ast[n].targets[i]].kind = "qname" THEN f[i - 1]
                             ELSE Append(f[i - 1], ast[n].targets[i])]
<1>4. PICK f : Follows(f, N, S, up, start, step)
  <2>1. \A i \in N : i \in Nat
    OBVIOUS
  <2>2. \A i \in N : up[i] \in N => up[i] < i
    OBVIOUS
  <2>3. \A i \in N : start[i] \in S
    BY EmptySeq
  <2>4. \A i \in N, q \in S : step[i][q] \in S
    <3> SUFFICES ASSUME NEW i \in N, NEW q \in S, i # 0 PROVE Append(q, s[i]) \in S
      OBVIOUS
    <3>1. s[i] \in Nodes
      BY <1>3
    <3> QED
      BY <3>1, AppendProperties
  <2> HIDE DEF N, S, up, start, step
  <2> QED
    BY <2>1, <2>2, <2>3, <2>4, DefinedAlong
<1>5. /\ f \in [N -> S]
      /\ \A i \in N : f[i] = IF up[i] \in N THEN step[i][f[up[i]]] ELSE start[i]
  BY <1>4 DEF Follows
<1>6. f[0] = <<>>
  <2>1. 0 \in N /\ up[0] \notin N
    OBVIOUS
  <2> QED
    BY <1>5, <2>1
<1>7. ASSUME NEW i \in 1 .. l
      PROVE  /\ i - 1 \in N /\ i \in N
             /\ f[i - 1] \in S
             /\ f[i] = IF ast[s[i]].kind = "qname" THEN f[i - 1] ELSE Append(f[i - 1], s[i])
  <2>1. i \in N /\ up[i] = i - 1 /\ i - 1 \in N /\ i # 0
    OBVIOUS
  <2>2. f[i - 1] \in S
    BY <1>5, <2>1
  <2>3. f[i] = step[i][f[i - 1]]
    BY <1>5, <2>1
  <2> QED
    BY <2>1, <2>2, <2>3
<1>8. IsIt(f)
  <2>1. f = [i \in N |-> f[i]]
    BY <1>5
  <2>2. \A i \in N : f[i] = IF i = 0 THEN <<>>
                            ELSE IF ast[s[i]].kind = "qname" THEN f[i - 1]
                            ELSE Append(f[i - 1], s[i])
    <3> HIDE DEF S
    <3> QED
      BY <1>6, <1>7
  <2> HIDE DEF S, up, start, step
  <2> QED
    BY <1>1, <1>2, <2>1, <2>2
<1>9. T!InlineActions(n) = (CHOOSE g : IsIt(g))[Len(ast[n].targets)]
  BY Zenon DEF T!InlineActions
<1>10. PICK g : IsIt(g) /\ T!InlineActions(n) = g[l]
  <2>1. IsIt(CHOOSE g : IsIt(g))
    <3> HIDE DEF IsIt
    <3> QED
      BY <1>8, Zenon
  <2> HIDE DEF IsIt
  <2> QED
    BY <1>1, <1>2, <1>9, <2>1
<1>11. /\ g[0] = <<>>
       /\ \A i \in 1 .. l : g[i] = IF ast[s[i]].kind = "qname" THEN g[i - 1]
                                   ELSE Append(g[i - 1], s[i])
  <2>1. Len(ast[n].targets) = l
    BY <1>1, <1>2
  <2>2. g = [i \in 0 .. l |-> IF i = 0 THEN <<>>
                              ELSE IF ast[s[i]].kind = "qname" THEN g[i - 1]
                              ELSE Append(g[i - 1], s[i])]
    BY <1>1, <1>10, <2>1
  <2>3. \A i \in 0 .. l : g[i] = IF i = 0 THEN <<>>
                                 ELSE IF ast[s[i]].kind = "qname" THEN g[i - 1]
                                 ELSE Append(g[i - 1], s[i])
    BY <2>2
  <2> QED
    BY <2>3
<1> HIDE DEF IsIt
<1> DEFINE Until(i) == {s[j] : j \in {k \in 1 .. i : ast[s[k]].kind # "qname"}}
           Right(i) == g[i] \in Seq(Nodes) /\ Range(g[i]) = Until(i)
<1>12. Right(0)
  <2>1. <<>> \in Seq(Nodes) /\ Range(<<>>) = {}
    BY EmptySeq DEF Range
  <2> QED
    BY <1>11, <2>1
<1>13. ASSUME NEW i \in Nat, i + 1 <= l, Right(i) PROVE Right(i + 1)
  <2>1. i + 1 \in 1 .. l /\ (i + 1) - 1 = i /\ s[i + 1] \in Nodes
    BY <1>3, <1>13
  <2>2. g[i + 1] = IF ast[s[i + 1]].kind = "qname" THEN g[i] ELSE Append(g[i], s[i + 1])
    BY <1>11, <2>1
  <2>3. Until(i + 1) = IF ast[s[i + 1]].kind = "qname" THEN Until(i) ELSE Until(i) \cup {s[i + 1]}
    <3>1. 1 .. i + 1 = (1 .. i) \cup {i + 1}
      OBVIOUS
    <3> QED
      BY <3>1
  <2>4. Append(g[i], s[i + 1]) \in Seq(Nodes) /\ Range(Append(g[i], s[i + 1])) = Until(i) \cup {s[i + 1]}
    <3>1. PICK q \in Seq(Nodes), e \in Nodes : q = g[i] /\ e = s[i + 1]
      BY <1>13, <2>1
    <3>2. Append(q, e) \in Seq(Nodes) /\ Range(Append(q, e)) = Range(q) \cup {e}
      BY RangeAppend, AppendProperties
    <3> HIDE DEF Until
    <3> QED
      BY <1>13, <3>1, <3>2
  <2> HIDE DEF Until
  <2> QED
    BY <1>13, <2>2, <2>3, <2>4
<1>14. Right(l)
  <2> DEFINE Bad == {i \in Nat : i <= l /\ ~ Right(i)}
  <2> HIDE DEF Right
  <2> SUFFICES ASSUME Bad # {} PROVE FALSE
    OBVIOUS
  <2>1. PICK b \in Bad : \A c \in Bad : b <= c
    <3>1. Bad \in SUBSET Nat
      OBVIOUS
    <3> HIDE DEF Bad
    <3> QED
      BY <3>1, LeastNumber
  <2>2. b \in Nat /\ b # 0 /\ b <= l /\ ~ Right(b)
    BY <1>12, <2>1
  <2>3. PICK a \in Nat : a + 1 = b
    <3>1. b - 1 \in Nat /\ (b - 1) + 1 = b
      BY <2>2
    <3> QED
      BY <3>1
  <2>4. a \notin Bad
    BY <2>1, <2>3
  <2> QED
    BY <1>13, <2>2, <2>3, <2>4
<1>15. Until(l) = {m \in Range(s) : ast[m].kind # "qname"}
  BY <1>2 DEF Range
<1> HIDE DEF Until
<1> QED
  BY <1>1, <1>10, <1>14, <1>15

LEMMA TypeCallsAre ==
  ASSUME NEW q \in Seq(Nodes), NEW u \in Nodes \cup {NoNode},
         \A m \in Range(q) : ast[m].kind = "attribute" => u = Owner(ast, m)
  PROVE  LET c == [i \in DOMAIN q |-> R!DoIn("types", q[i], u)]
         IN  c \in Seq(TypeCalls) /\ Waiting(c) = Range(q)
<1>1. PICK l \in Nat : l = Len(q) /\ DOMAIN q = 1 .. l
  BY LenProperties
<1>2. PICK c : c = [i \in 1 .. l |-> R!DoIn("types", q[i], u)]
  OBVIOUS
<1>3. ASSUME NEW i \in 1 .. l PROVE R!DoIn("types", q[i], u) \in TypeCalls /\ c[i].node = q[i]
  <2>1. PICK m \in Nodes : m = q[i] /\ m \in Range(q)
    BY <1>1, ElementOfSeq DEF Range
  <2> QED
    BY <1>2, <2>1 DEF R!DoIn, R!Item, R!NoNode, NoNode, TypeCalls
<1>4. c \in Seq(TypeCalls)
  BY <1>2, <1>3, IsASeq
<1>5. Waiting(c) = Range(q)
  BY <1>1, <1>2, <1>3 DEF Waiting, Range
<1> QED
  BY <1>1, <1>2, <1>4, <1>5

\* What is at or below a call that waits.
StillToType(calls) == Above(Waiting(calls), TypesDown)

\* All that the walk leads to.
Typed == Above({Root}, TypesDown)

\* The types pass is on its walk, and next visits n.
TypesVisits(n) ==
  /\ n \in Nodes
  /\ ast[n].kind = "attribute" => Head(todo).under = Owner(ast, n)
  /\ todo' \in Seq(TypeCalls)
  /\ StillToType(todo) \subseteq StillToType(todo') \cup {n}

LEMMA WaitingNodes ==
  ASSUME NEW calls \in Seq(TypeCalls)
  PROVE  Waiting(calls) \in SUBSET Nodes
<1> SUFFICES ASSUME NEW i \in DOMAIN calls PROVE calls[i].node \in Nodes
  BY DEF Waiting
<1>1. calls[i] \in TypeCalls
  BY LenProperties, ElementOfSeq
<1> QED
  BY <1>1 DEF TypeCalls, R!Item

LEMMA TypesWalk ==
  ASSUME ast \in Programs, todo \in Seq(TypeCalls), todo # <<>>,
         NEW n \in R!Current, T!CheckTypes(n)
  PROVE  TypesVisits(n)
<1>1. PICK w \in Seq(TypeCalls) : w = todo /\ w # <<>>
  OBVIOUS
<1>2. Head(w) \in TypeCalls /\ Tail(w) \in Seq(TypeCalls)
  BY <1>1, HeadTailProperties
<1>3. Head(w).node = n
  BY <1>1 DEF T!CheckTypes, T!Calls
<1>4. n \in Nodes /\ (ast[n].kind = "attribute" => Head(w).under = Owner(ast, n))
  BY <1>2, <1>3 DEF TypeCalls, R!Item
<1>5. PICK c \in Seq(TypeCalls) : todo' = c \o Tail(todo) /\ TypesDown[n] \subseteq Waiting(c)
  <2> DEFINE k == ast[n].kind
             calls == CASE k \in {"program", "package", "definition", "usage"} ->
                             T!DoAllIn("types", ast[n].members, n)
                        [] k = "succession" -> T!DoAll("types", T!InlineActions(n))
                        [] OTHER -> <<>>
  <2>1. todo' = calls \o Tail(todo)
    BY DEF T!CheckTypes, T!Then
  <2>2. CASE k \in {"program", "package", "definition", "usage"}
    <3>1. PICK q \in Seq(Nodes) : q = ast[n].members
      BY <1>4, TreeIs, AstLists DEF Nodes
    <3>2. calls = [i \in DOMAIN q |-> R!DoIn("types", q[i], n)]
      BY <2>2, <3>1 DEF T!DoAllIn, T!DoIn, R!DoIn
    <3>3. Range(q) = Members[n]
      BY <1>4, <3>1 DEF Members
    <3>4. \A m \in Range(q) : n = Owner(ast, m)
      BY <1>4, <3>3, MembersOwned
    <3>5. calls \in Seq(TypeCalls) /\ Waiting(calls) = Range(q)
      BY <1>4, <3>2, <3>4, TypeCallsAre
    <3>6. TypesDown[n] = Members[n]
      BY <1>4, <2>2, TypesDownIs
    <3> HIDE DEF calls
    <3> QED
      BY <2>1, <3>3, <3>5, <3>6
  <2>3. CASE k = "succession"
    <3>1. PICK q \in Seq(Nodes) : /\ q = T!InlineActions(n)
                                  /\ Range(q) = {m \in Range(ast[n].targets) : ast[m].kind # "qname"}
      BY <1>4, InlineActionsAre
    <3>2. calls = [i \in DOMAIN q |-> R!DoIn("types", q[i], NoNode)]
      BY <2>3, <3>1 DEF T!DoAll, T!Do, T!DoIn, R!DoIn, T!NoNode, NoNode
    <3>3. \A m \in Range(q) : ast[m].kind # "attribute"
      BY <1>4, <3>1, TypesDownIs
    <3>4. calls \in Seq(TypeCalls) /\ Waiting(calls) = Range(q)
      BY <3>2, <3>3, TypeCallsAre
    <3>5. TypesDown[n] = Range(q)
      BY <1>4, <2>3, <3>1, TypesDownIs
    <3> HIDE DEF calls
    <3>6. TypesDown[n] \subseteq Waiting(calls)
      BY <3>4, <3>5
    <3> QED
      BY <2>1, <3>4, <3>6
  <2>4. CASE k \notin {"program", "package", "definition", "usage", "succession"}
    <3>1. calls = <<>>
      BY <2>4
    <3>2. TypesDown[n] = {}
      <4>1. ast[n].members = <<>>
        BY <1>4, <2>4, MembersOwned
      <4>2. Members[n] = {}
        BY <1>4, <4>1 DEF Members, Range
      <4> QED
        BY <1>4, <2>4, <4>2, TypesDownIs
    <3>3. <<>> \in Seq(TypeCalls)
      BY EmptySeq
    <3> HIDE DEF calls
    <3> QED
      BY <2>1, <3>1, <3>2, <3>3
  <2> QED
    BY <2>2, <2>3, <2>4
<1>6. PICK v \in Seq(TypeCalls) : v = c \o Tail(w) /\ todo' = v
  BY <1>1, <1>2, <1>5, ConcatProperties
<1>7. Waiting(w) \subseteq Waiting(v) \cup {n} /\ TypesDown[n] \subseteq Waiting(v)
  <2>1. Range(w) = {Head(w)} \cup Range(Tail(w))
    BY <1>1, RangeHeadTail
  <2>2. Range(v) = Range(c) \cup Range(Tail(w))
    BY <1>2, <1>6, RangeConcat
  <2> QED
    BY <1>3, <1>5, <2>1, <2>2, WaitingIs
<1>8. PICK W \in SUBSET Nodes, V \in SUBSET Nodes : W = Waiting(w) /\ V = Waiting(v)
  BY WaitingNodes
<1>9. Above(W, TypesDown) \subseteq Above(V, TypesDown) \cup {n}
  <2>0. \A m \in Nodes : TypesDown[m] \subseteq Nodes
    BY TypesDownIs
  <2>1. /\ V \subseteq Above(V, TypesDown) /\ Above(V, TypesDown) \subseteq Nodes
        /\ IsClosed(Above(V, TypesDown), TypesDown)
    BY <2>0, TreeIs, AboveIs
  <2>2. IsClosed(Above(V, TypesDown) \cup {n}, TypesDown)
    BY <1>7, <1>8, <2>1 DEF IsClosed
  <2>3. Above(V, TypesDown) \cup {n} \in SUBSET Nodes /\ W \subseteq Above(V, TypesDown) \cup {n}
    BY <1>4, <1>7, <1>8, <2>1
  <2> QED
    BY <2>0, <2>2, <2>3, TreeIs, AboveIs
<1> QED
  BY <1>1, <1>4, <1>6, <1>8, <1>9 DEF TypesVisits, StillToType

\* All that is about the walk alone stays with the tree.
LEMMA TypesWalkStays ==
  ASSUME ast' = ast
  PROVE  /\ Nodes' = Nodes /\ Typed' = Typed /\ TypeCalls' = TypeCalls
         /\ \A calls : StillToType(calls)' = StillToType(calls)
         /\ \A n : Owner(ast, n)' = Owner(ast, n)
<1>1. TypesDown' = TypesDown
  BY SameTree DEF TypesDown
<1>2. TypeCalls' = TypeCalls
  BY SameTree DEF TypeCalls, R!Item, R!NoNode
<1>3. Typed' = Typed
  BY <1>1, SameTree DEF Typed, Above, Root
<1>4. \A calls : StillToType(calls)' = StillToType(calls)
  BY <1>1, SameTree DEF StillToType, Waiting, Above
<1> QED
  BY <1>2, <1>3, <1>4, SameTree

\* A complaint about a value or about the body of a constraint.
FromExpressions(x) ==
  \E m \in Nodes : \E r \in Range(ast[m].value) \cup Range(ast[m].body) :
    x \in T!OperandErrors(r)

\* So far the walk has said all there is to say about the attributes that it
\* has seen, and of operands only what is wrong in a value or a body.
TypesSoFar ==
  stage = "types" =>
    /\ todo \in Seq(TypeCalls)
    /\ \A a \in Typed \ StillToType(todo) :
         ast[a].kind = "attribute" => T!AttributeErrors(a, Owner(ast, a)) \subseteq errors
    /\ \A n : <<"operand type", n>> \in errors => FromExpressions(<<"operand type", n>>)

LEMMA ValueIs ==
  ASSUME ast \in Programs, NEW n \in Nodes, ast[n].value # <<>>
  PROVE  ast[n].value[1] \in Nodes /\ ast[n].value[1] \in Range(ast[n].value)
<1>1. PICK s \in Seq(Nodes) : s = ast[n].value /\ s # <<>>
  BY TreeIs, AstLists DEF Nodes
<1>2. 1 \in DOMAIN s
  BY <1>1, EmptySeq, LenProperties
<1>3. s[1] \in Nodes
  BY <1>2, ElementOfSeq, LenProperties
<1> QED
  BY <1>1, <1>2, <1>3 DEF Range

\* What a call says of operands, typeOf says of a value or a body.
LEMMA OperandsTold ==
  ASSUME ast \in Programs, NEW n \in Nodes, NEW x,
         \/ \E p : <<"operand type", x>> \in T!AttributeErrors(n, p)
         \/ <<"operand type", x>> \in T!BodyErrors(n)
  PROVE  FromExpressions(<<"operand type", x>>)
<1>1. CASE \E p : <<"operand type", x>> \in T!AttributeErrors(n, p)
  <2>1. PICK p : <<"operand type", x>> \in T!AttributeErrors(n, p)
    BY <1>1
  <2>2. ast[n].value # <<>> /\ <<"operand type", x>> \in T!OperandErrors(ast[n].value[1])
    BY <2>1 DEF T!AttributeErrors
  <2> QED
    BY <2>2, ValueIs DEF FromExpressions
<1>2. CASE <<"operand type", x>> \in T!BodyErrors(n)
  <2>1. PICK r \in Range(ast[n].body) :
          <<"operand type", x>> \in T!OperandErrors(r) \cup
            (IF T!isBoolean(T!typeOf(r)) THEN {} ELSE {<<"body is not Boolean", n>>})
    BY <1>2, Zenon DEF T!BodyErrors, T!Range, Range
  <2>2. <<"operand type", x>> # <<"body is not Boolean", n>>
    OBVIOUS
  <2>3. <<"operand type", x>> \in T!OperandErrors(r)
    BY <2>1, <2>2
  <2> QED
    BY <2>1, <2>3 DEF FromExpressions
<1> QED
  BY <1>1, <1>2

\* One call of the pass.
LEMMA TypingKeeps ==
  ASSUME Fit, TypesSoFar, TypesStep
  PROVE  TypesSoFar'
<1>1. PICK n \in R!Current : T!CheckTypes(n)
  BY DEF TypesStep
<1>2. /\ stage = "types" /\ ast' = ast /\ resolved' = resolved /\ ast \in Programs
      /\ todo # <<>> /\ Head(todo).node = n
  BY <1>1 DEF Fit, TypesStep, T!CheckTypes, T!Calls
<1>3. TypesVisits(n)
  BY <1>1, <1>2, TypesWalk DEF TypesSoFar
<1>4. n \in Nodes
  BY <1>3 DEF TypesVisits
<1>5. PICK own : /\ errors' = errors \cup own
                 /\ ast[n].kind = "attribute" => own = T!AttributeErrors(n, Owner(ast, n))
                 /\ \A x : <<"operand type", x>> \in own => FromExpressions(<<"operand type", x>>)
  <2> DEFINE k == ast[n].kind
             steps == ast[n].links \o ast[n].targets
             Said == CASE k = "attribute" -> T!AttributeErrors(n, Head(todo).under)
                       [] k \in {"definition", "usage"} ->
                            (IF ast[n].what = "constraint" THEN T!BodyErrors(n) ELSE {})
                            \cup (IF k = "usage" THEN T!AssertionErrors(n) ELSE {})
                       [] k = "succession" ->
                            UNION {T!SuccessionErrors(n, r) : r \in {m \in T!Range(steps) :
                                                                       ast[m].kind = "qname"}}
                       [] OTHER -> {}
  <2>1. errors' = errors \cup Said
    BY <1>1 DEF T!CheckTypes
  <2>2. k = "attribute" => Said = T!AttributeErrors(n, Owner(ast, n))
    BY <1>3 DEF TypesVisits
  <2>3. ASSUME NEW x, <<"operand type", x>> \in Said
        PROVE  FromExpressions(<<"operand type", x>>)
    <3>1. <<"operand type", x>> \notin T!AssertionErrors(n)
      BY DEF T!AssertionErrors
    <3>2. \A r : <<"operand type", x>> \notin T!SuccessionErrors(n, r)
      BY DEF T!SuccessionErrors
    <3>3. \/ \E p : <<"operand type", x>> \in T!AttributeErrors(n, p)
          \/ <<"operand type", x>> \in T!BodyErrors(n)
      BY <2>3, <3>1, <3>2
    <3> QED
      BY <1>2, <1>4, <3>3, OperandsTold
  <2> HIDE DEF Said
  <2> QED
    BY <2>1, <2>2, <2>3
<1>6. /\ \A a, p : T!AttributeErrors(a, p)' = T!AttributeErrors(a, p)
      /\ \A x : FromExpressions(x)' <=> FromExpressions(x)
  <2>1. ASSUME NEW x PROVE FromExpressions(x)' <=> FromExpressions(x)
    BY <1>2, TypingStays DEF FromExpressions, Nodes
  <2> QED
    BY <1>2, <2>1, TypingStays
<1>7. todo' \in Seq(TypeCalls)
  BY <1>3 DEF TypesVisits
<1>8. ASSUME NEW a \in Typed, a \notin StillToType(todo'), ast[a].kind = "attribute"
      PROVE  T!AttributeErrors(a, Owner(ast, a)) \subseteq errors'
  <2>1. a = n \/ a \notin StillToType(todo)
    BY <1>3, <1>8 DEF TypesVisits
  <2> QED
    BY <1>2, <1>5, <1>8, <2>1 DEF TypesSoFar
<1>9. \A x : <<"operand type", x>> \in errors' => FromExpressions(<<"operand type", x>>)
  BY <1>2, <1>5 DEF TypesSoFar
<1>10. StillToType(todo)' = StillToType(todo')
  <2>1. PICK v : v = todo'
    OBVIOUS
  <2>2. StillToType(todo)' = StillToType(v)'
    BY <2>1 DEF StillToType, Waiting, Above
  <2> QED
    BY <1>2, <2>1, <2>2, TypesWalkStays
<1> QED
  BY <1>2, <1>6, <1>7, <1>8, <1>9, <1>10, TypesWalkStays DEF TypesSoFar

\* The pass begins with nothing seen and nothing said.
LEMMA TypesBegin ==
  ASSUME Fit, PassEnds
  PROVE  TypesSoFar'
<1> SUFFICES ASSUME stage' = "types" PROVE TypesSoFar'
  BY DEF TypesSoFar
<1>1. /\ ast \in Programs /\ ast' = ast /\ errors' = {}
      /\ todo' = <<R!Do("types", Root)>>
  BY DEF Fit, PassEnds, Begin, D!Passes
<1>2. PICK v : v = <<R!Do("types", Root)>>
  OBVIOUS
<1>3. v \in Seq(TypeCalls) /\ Waiting(v) = {Root}
  <2>1. R!Do("types", Root) \in TypeCalls /\ R!Do("types", Root).node = Root
    BY <1>1, TreeIs DEF R!Do, R!DoIn, R!Item, R!NoNode, TypeCalls, IsAst
  <2> QED
    BY <1>2, <2>1 DEF Waiting
<1>4. StillToType(v) = Typed
  BY <1>3 DEF StillToType, Typed
<1>5. StillToType(todo)' = Typed'
  <2>1. StillToType(todo)' = StillToType(v)'
    BY <1>1, <1>2 DEF StillToType, Waiting, Above
  <2> QED
    BY <1>1, <1>4, <2>1, TypesWalkStays
<1>6. (todo \in Seq(TypeCalls))'
  BY <1>1, <1>2, <1>3, TypesWalkStays
<1> QED
  BY <1>1, <1>5, <1>6 DEF TypesSoFar

LEMMA StepTyped == Fit /\ TypesSoFar /\ [Next]_vars => TypesSoFar'
<1> SUFFICES ASSUME Fit, TypesSoFar, [Next]_vars PROVE TypesSoFar'
  OBVIOUS
<1>1. CASE TypesStep
  BY <1>1, TypingKeeps
<1>2. CASE ResolveStep \/ RedefinitionsStep \/ ConnectionsStep \/ ReferencesStep
  BY <1>2 DEF ResolveStep, RedefinitionsStep, ConnectionsStep, ReferencesStep, driver, TypesSoFar
<1>3. CASE PassEnds
  BY <1>3, TypesBegin
<1>4. CASE PassFails \/ Around \/ UNCHANGED vars
  <2>1. /\ UNCHANGED <<ast, resolved, errors, todo>>
        /\ stage' = "types" => stage = "types"
    BY <1>4 DEF PassFails, Around, vars, driver, D!PassFails, D!Exit, D!Read, D!ReadFails,
                D!DumpTokens, D!ParseFails, D!Emit, D!Exited, D!vars
  <2>2. ASSUME NEW x PROVE FromExpressions(x)' <=> FromExpressions(x)
    BY <2>1, TypingStays DEF FromExpressions, Nodes
  <2>3. \A a, p : T!AttributeErrors(a, p)' = T!AttributeErrors(a, p)
    BY <2>1, TypingStays
  <2>4. StillToType(todo)' = StillToType(todo)
    <3>1. PICK v : v = todo
      OBVIOUS
    <3>2. StillToType(todo)' = StillToType(v)'
      BY <2>1, <3>1 DEF StillToType, Waiting, Above
    <3> QED
      BY <2>1, <3>1, <3>2, TypesWalkStays
  <2> QED
    BY <2>1, <2>2, <2>3, <2>4, TypesWalkStays DEF TypesSoFar
<1> QED
  BY <1>1, <1>2, <1>3, <1>4 DEF Next

----------------------------------------------------------------------------
(***************************************************************************)
(* Soundness.                                                              *)
(***************************************************************************)
\* The walk reaches every declaration of the program, also the inline actions
\* of successions.
LEMMA AllIsTyped ==
  ASSUME ast \in Programs, NEW u \in Nodes, ast[u].kind \notin ExprKinds,
         Root \in Lineage(ast, u)
  PROVE  u \in Typed
<1> DEFINE Missed == {n \in Nodes : /\ ast[n].kind \notin ExprKinds
                                    /\ Root \in Lineage(ast, n)
                                    /\ n \notin Typed}
<1>0. IsAst(ast) /\ Nodes = DOMAIN ast /\ \A n \in Nodes : n \in Nat
  BY TreeIs DEF Nodes
<1>1. SUFFICES ASSUME Missed # {} PROVE FALSE
  OBVIOUS
<1>2. PICK n \in Missed : \A m \in Missed : n <= m
  <2>1. Missed \in SUBSET Nat
    BY <1>0
  <2> HIDE DEF Missed
  <2> QED
    BY <1>1, <2>1, LeastNumber
<1>3. Root \in Typed /\ IsClosed(Typed, TypesDown)
  <2>1. {Root} \in SUBSET Nodes /\ \A m \in Nodes : TypesDown[m] \subseteq Nodes
    BY TreeIs, TypesDownIs
  <2>2. {Root} \subseteq Typed /\ IsClosed(Typed, TypesDown)
    BY <2>1, TreeIs, AboveIs DEF Typed
  <2> QED
    BY <2>2
<1>4. PICK p : p = Owner(ast, n)
  OBVIOUS
<1>5. n \in Nodes /\ n # Root /\ p # NoNode /\ Root \in Lineage(ast, p)
  BY <1>0, <1>3, <1>4, LineageIs
<1>6. p \in Nodes /\ n \in Range(Children(ast, p)) /\ p < n
  BY <1>0, <1>4, <1>5, Owned
<1>7. /\ n \in Range(ast[p].members) \cup Range(ast[p].targets)
      /\ ast[p].kind \notin ExprKinds
  BY <1>5, <1>6, DeclarationsOwned
<1>8. n \in TypesDown[p]
  BY <1>6, <1>7 DEF TypesDown, Members, ExprKinds
<1>9. p \notin Typed
  BY <1>3, <1>8 DEF IsClosed
<1>10. p \in Missed
  BY <1>5, <1>6, <1>7, <1>9
<1> QED
  BY <1>0, <1>2, <1>6, <1>10

LEMMA NothingToType == ASSUME ast \in Programs PROVE StillToType(<<>>) = {}
<1>1. Waiting(<<>>) = {}
  BY DEF Waiting
<1>2. {} \in SUBSET Nodes /\ IsClosed({}, TypesDown)
  BY DEF IsClosed
<1>3. \A m \in Nodes : TypesDown[m] \subseteq Nodes
  BY TypesDownIs
<1>4. Above({}, TypesDown) \subseteq {}
  BY <1>2, <1>3, TreeIs, AboveIs
<1> QED
  BY <1>1, <1>4 DEF StillToType

\* What is in an expression is the whole or an operand of something in it.
LEMMA OperandOf ==
  ASSUME ast \in Programs, NEW e \in Nodes, NEW n \in Subexpressions(e), n # e
  PROVE  \E m \in Subexpressions(e) : n \in Operands[m]
<1> DEFINE A == {e} \cup {c \in Subexpressions(e) : \E m \in Subexpressions(e) : c \in Operands[m]}
<1>1. A \in SUBSET Nodes /\ e \in A
  BY SubexpressionsAre
<1>2. \A m \in A : Operands[m] \subseteq A
  BY SubexpressionsAre
<1>3. Subexpressions(e) \subseteq A
  <2> HIDE DEF A
  <2> QED
    BY <1>1, <1>2, SubexpressionsAre
<1> QED
  BY <1>3

\* Values and bodies have nothing in common.
ExpressionsOf(m) == Range(ast[m].value) \cup Range(ast[m].body)

LEMMA ExpressionsOwned ==
  ASSUME ast \in Programs, NEW m \in Nodes
  PROVE  /\ ExpressionsOf(m) \subseteq Nodes
         /\ ExpressionsOf(m) \subseteq Range(Children(ast, m))
         /\ Operands[m] \subseteq Range(Children(ast, m))
         /\ ExpressionsOf(m) \cap Operands[m] = {}
<1>0. IsAst(ast) /\ Nodes = DOMAIN ast
  BY TreeIs DEF Nodes
<1>1. Apart(ast, m) /\ Operands[m] = Range(ast[m].args)
  BY <1>0, ListsApart, OperandsAre
<1>2. /\ ExpressionsOf(m) \subseteq Range(Children(ast, m))
      /\ Operands[m] \subseteq Range(Children(ast, m))
      /\ ExpressionsOf(m) \cap Operands[m] = {}
  BY <1>1 DEF Apart, ExpressionsOf
<1>3. Range(Children(ast, m)) \subseteq Nodes
  BY <1>0, OneOwner
<1> QED
  BY <1>2, <1>3

LEMMA ExpressionsApart ==
  ASSUME ast \in Programs, NEW a \in Nodes, NEW e \in ExpressionsOf(a),
         NEW b \in Nodes, NEW f \in ExpressionsOf(b),
         NEW k \in Subexpressions(e) \cap Subexpressions(f)
  PROVE  e = f
<1>0. IsAst(ast) /\ Nodes = DOMAIN ast /\ \A n \in Nodes : n \in Nat
  BY TreeIs DEF Nodes
<1>1. ASSUME NEW m \in Nodes
      PROVE  /\ ExpressionsOf(m) \subseteq Range(Children(ast, m))
             /\ Operands[m] \subseteq Range(Children(ast, m))
             /\ ExpressionsOf(m) \cap Operands[m] = {}
  BY ExpressionsOwned
<1>2. ASSUME NEW m \in Nodes, NEW c \in Range(Children(ast, m))
      PROVE  c \in Nodes /\ m < c /\ \A p \in Nodes : c \in Range(Children(ast, p)) => p = m
  BY <1>0, OneOwner
<1>3. e \in Nodes /\ f \in Nodes
  BY <1>1, <1>2
<1>4. ASSUME NEW m \in Nodes, NEW c \in Nodes, c \in ExpressionsOf(m), NEW p \in Nodes
      PROVE  c \notin Operands[p]
  BY <1>1, <1>2, <1>4
<1> SUFFICES ASSUME e # f PROVE FALSE
  OBVIOUS
<1> DEFINE Both == Subexpressions(e) \cap Subexpressions(f)
<1>5. Subexpressions(e) \subseteq Nodes /\ Subexpressions(f) \subseteq Nodes
  BY <1>3, SubexpressionsAre
<1>6. PICK n \in Both : \A m \in Both : n <= m
  <2>1. Both \in SUBSET Nat /\ Both # {}
    BY <1>0, <1>5
  <2> HIDE DEF Both
  <2> QED
    BY <2>1, LeastNumber
<1>7. n # e
  <2> SUFFICES ASSUME n = e PROVE FALSE
    OBVIOUS
  <2>1. PICK m \in Subexpressions(f) : e \in Operands[m]
    BY <1>3, OperandOf
  <2> QED
    BY <1>3, <1>4, <1>5, <2>1
<1>8. n # f
  <2> SUFFICES ASSUME n = f PROVE FALSE
    OBVIOUS
  <2>1. PICK m \in Subexpressions(e) : f \in Operands[m]
    BY <1>3, OperandOf
  <2> QED
    BY <1>3, <1>4, <1>5, <2>1
<1>9. PICK m \in Subexpressions(e) : n \in Operands[m]
  BY <1>3, <1>7, OperandOf
<1>10. PICK l \in Subexpressions(f) : n \in Operands[l]
  BY <1>3, <1>8, OperandOf
<1>11. m = l /\ m \in Nodes /\ m < n
  BY <1>1, <1>2, <1>5, <1>9, <1>10
<1> QED
  BY <1>0, <1>5, <1>6, <1>9, <1>10, <1>11

\* TypingIsSound (typeOf, checkAttribute): values and the checker's types agree
\* in every program with few definitions, whatever its expressions.  What is
\* said about a value's operands is found along the operands of one expression,
\* so nothing is said of it elsewhere and nothing of others is said of it.
THEOREM TypingIsAlwaysSound == Spec => []TypingIsSound
<1>1. Fit /\ TypesSoFar => TypingIsSound
  <2> SUFFICES ASSUME Fit, TypesSoFar, stage = "types", todo = <<>>, FewDefinitions, KindsAreApart,
                      NEW a \in Valued,
                      NEW e, e = ast[a].value[1],
                      NEW wrong, wrong = {n \in Subexpressions(e) : <<"operand type", n>> \in errors},
                      NEW d, d = KindOf(C!declaredType(a))
               PROVE  /\ wrong = {} => ValueOf(e) # "stuck"
                      /\ ValueOf(e) # "stuck" =>
                           \A n \in wrong : \E m \in Subexpressions(e) :
                             ast[m].what \in T!Equality /\ n \in Range(ast[m].args)
                      /\ (wrong = {} /\ <<"value of another type", a>> \notin errors) =>
                           "any" \in {ValueOf(e), d} \/ Meets(ValueOf(e), d)
    BY DEF TypingIsSound, EndOf
  <2>1. Typable /\ ast \in Programs /\ resolved \in Bindings(ast)
    BY DEF Fit, Typable
  <2>2. /\ a \in Nodes /\ ast[a].kind = "attribute" /\ Root \in Lineage(ast, a)
        /\ ast[a].value # <<>> /\ ~ T!IsEnum(Owner(ast, a))
    BY DEF Valued
  <2>3. e \in Nodes /\ e \in ExpressionsOf(a)
    BY <2>1, <2>2, ValueIs DEF ExpressionsOf
  <2>4. T!AttributeErrors(a, Owner(ast, a)) \subseteq errors
    <3>1. a \in Typed
      BY <2>1, <2>2, AllIsTyped DEF ExprKinds
    <3>2. StillToType(<<>>) = {}
      BY <2>1, NothingToType
    <3> QED
      BY <2>2, <3>1, <3>2 DEF TypesSoFar
  <2>5. T!OperandErrors(e) \subseteq errors
    BY <2>2, <2>4 DEF T!AttributeErrors
  <2>6. ComplaintsFit(e) /\ Agrees(e)
    BY <2>1, <2>3, ComplaintsAlwaysFit, ValuesAgree
  <2>7. ASSUME wrong = {}
        PROVE  ValueOf(e) = KindOf(T!typeOf(e)) /\ ValueOf(e) # "stuck"
    <3>1. ASSUME NEW x \in T!OperandErrors(e) PROVE FALSE
      <4>1. PICK n \in Subexpressions(e) : x = <<"operand type", n>>
        BY <2>6, <3>1 DEF ComplaintsFit
      <4>2. <<"operand type", n>> \in errors
        BY <2>5, <4>1
      <4> QED
        BY <2>7, <4>2
    <3>2. ValueOf(e) = KindOf(T!typeOf(e))
      BY <2>6, <3>1 DEF Agrees
    <3> QED
      BY <3>2, KindIs
  <2>8. ASSUME ValueOf(e) # "stuck", NEW n \in wrong
        PROVE  \E m \in Subexpressions(e) : ast[m].what \in T!Equality /\ n \in Range(ast[m].args)
    <3>1. FromExpressions(<<"operand type", n>>) /\ n \in Subexpressions(e)
      BY <2>8 DEF TypesSoFar
    <3>0. PICK b \in Nodes : \E r \in ExpressionsOf(b) : <<"operand type", n>> \in T!OperandErrors(r)
      BY <3>1 DEF FromExpressions, ExpressionsOf
    <3>2. PICK r \in ExpressionsOf(b) : <<"operand type", n>> \in T!OperandErrors(r)
      BY <3>0
    <3>3. r \in Nodes
      BY <2>1, ExpressionsOwned
    <3>4. ComplaintsFit(r)
      BY <2>1, <3>3, ComplaintsAlwaysFit
    <3>5. PICK k \in Subexpressions(r) :
            /\ <<"operand type", n>> = <<"operand type", k>>
            /\ ValueOf(r) # "stuck" =>
                 \E m \in Subexpressions(r) : ast[m].what \in T!Equality /\ k \in Range(ast[m].args)
      BY <3>2, <3>4 DEF ComplaintsFit
    <3>6. k = n
      BY <3>5
    <3>7. r = e
      <4>1. n \in Subexpressions(r) \cap Subexpressions(e)
        BY <3>1, <3>5, <3>6
      <4>2. a \in Nodes /\ e \in ExpressionsOf(a) /\ ast \in Programs
        BY <2>1, <2>2, <2>3
      <4>3. b \in Nodes /\ r \in ExpressionsOf(b)
        OBVIOUS
      <4> QED
        BY ONLY <4>1, <4>2, <4>3, ExpressionsApart
    <3> QED
      BY <2>8, <3>5, <3>6, <3>7
  <2>9. ASSUME wrong = {}, <<"value of another type", a>> \notin errors
        PROVE  "any" \in {ValueOf(e), d} \/ Meets(ValueOf(e), d)
    <3> DEFINE val == T!typeOf(e)
               declared == C!declaredType(a)
    <3>1. ValueOf(e) = KindOf(val)
      BY <2>7, <2>9
    <3>2. \/ declared = NoNode
          \/ val = NoNode
          \/ T!specializesType(val, declared)
      <4>1. declared = IF ast[a].types = <<>> THEN T!NoNode ELSE resolved[ast[a].types[1]]
        BY <2>2 DEF C!declaredType, C!NoNode, T!NoNode
      <4>2. <<"value of another type", a>> \notin T!AttributeErrors(a, Owner(ast, a))
        BY <2>4, <2>9
      <4> QED
        BY <2>2, <4>1, <4>2 DEF T!AttributeErrors, T!NoNode, NoNode
    <3>3. KindOf(NoNode) = "any"
      BY <2>1, BooleanIs
    <3>4. ASSUME T!specializesType(val, declared) PROVE Meets(KindOf(val), KindOf(declared))
      <4>1. val \in TypeValues /\ declared \in TypeValues
        <5>1. ast[a].types # <<>> => resolved[ast[a].types[1]] \in TypeValues
          BY <2>1, <2>2, FirstTypeIs
        <5> QED
          BY <2>1, <2>3, <5>1, TypeOfIs DEF C!declaredType, C!NoNode, NoNode, TypeValues
      <4>2. val \in Nodes /\ declared \in Nodes
        BY <2>1, <3>4, <4>1, SameTest, SpecializesIsSubtype DEF TypeValues
      <4> QED
        BY <2>1, <3>4, <4>2, RelatedMeet
    <3> QED
      BY <3>1, <3>2, <3>3, <3>4
  <2> QED
    BY <2>7, <2>8, <2>9
<1>2. Init => TypesSoFar
  BY DEF Init, D!Init, TypesSoFar
<1> QED
  BY <1>1, <1>2, AlwaysFit, StepTyped, PTL DEF Spec
=============================================================================
