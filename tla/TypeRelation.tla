---------------------------- MODULE TypeRelation ----------------------------
(***************************************************************************)
(* The specialization order of types (src/src/typechecker.c), which the    *)
(* type checker and the redefinition checker share.                        *)
(***************************************************************************)
EXTENDS Traversal

\* Mistake: only the first supertype counts.
specializesFirst(a, b) ==
  LET spec[d \in 0 .. MaxDepth] ==
        [c \in Nodes \cup {NoNode} |->
           /\ c # NoNode
           /\ \/ c = b
              \/ /\ d < MaxDepth
                 /\ ast[c].kind = "definition"
                 /\ ast[c].specializes # <<>>
                 /\ spec[d + 1][resolved[ast[c].specializes[1]]]]
  IN  b # NoNode /\ spec[0][a]

\* a is b or reaches b in at most MaxDepth specialization steps.
specializesType(a, b) ==
  LET spec[d \in 0 .. MaxDepth] ==
        [c \in Nodes \cup {NoNode} |->
           /\ c # NoNode
           /\ \/ c = b
              \/ /\ d < MaxDepth
                 /\ ast[c].kind = "definition"
                 /\ \E i \in DOMAIN ast[c].specializes :
                      spec[d + 1][resolved[ast[c].specializes[i]]]]
  IN  b # NoNode /\ spec[0][a]
=============================================================================
