-------------------------------- MODULE Ast --------------------------------
(***************************************************************************)
(* The abstract syntax tree the sml2c passes share (src/include/ast.h) and *)
(* the lookups over it that several passes use (resolver_scope.c).         *)
(*                                                                         *)
(* A tree is a function from node identifiers to node records.  C's Node*  *)
(* is an identifier, NULL is NoNode.  Every node carries the same fields;  *)
(* a field its kind does not have in C keeps the value it has in Blank.    *)
(*                                                                         *)
(* Qualified names are nodes, as in C.  What the resolver writes into them *)
(* (resolved, conjugationParity) is NOT part of the tree: the passes that  *)
(* read it get it as the function `res`.                                   *)
(***************************************************************************)
EXTENDS Integers, FiniteSets, SequencesExt

CONSTANT MaxDepth    \* the depth bound of the lookups: 32 in the code

\* The bound is a positive number; nothing else depends on its value.
ASSUME MaxDepthAssumption == MaxDepth \in Nat \ {0}

NoName == ""         \* the zero-length token of an anonymous declaration
NoNode == 0          \* NULL
Root   == 1          \* the NODE_PROGRAM node
Lib    == 2          \* the built-in package ScalarValues

----------------------------------------------------------------------------
(***************************************************************************)
(* Node kinds and node records.                                            *)
(***************************************************************************)
ExprKinds == {"qname", "literal", "binary", "unary", "call", "access"}

NamingKinds == {"package", "definition", "usage", "attribute", "alias",
                "comment", "dependency"}

Kinds == ExprKinds \cup NamingKinds \cup
         {"program", "import", "succession", "transition", "lifecycle",
          "return", "doc"}

Directions == {"none", "in", "out", "inout"}

\* kind     NodeKind                       what   DefKind or UsageKind,
\* name     the declared name                     operator, literal type
\* members  body members, in source order  dir    direction prefix
\* types, specializes, redefines, ends     the reference lists
\* links    the other references a node names, in the order they are
\*          resolved: alias and import target, comment about, dependency
\*          sources then targets, transition first, accept, effect and
\*          target, lifecycle action, succession first
\* targets  succession targets: names or inline actions
\* value    default value or guard (at most one expression)
\* body     constraint body (at most one expression)
\* args     operands of an expression: left and right, operand, callee and
\*          arguments, target of a member access
\* parts    segments of a qualified name   conj   it is written with ~
\* wildcard import X::*                    ref    `ref` was written
\* const, derived   the attribute prefixes  assert  assert, assume or require
\* given    what the parser already bound a name to (enum values' types,
\*          start, done), or NoNode
Blank == [kind |-> "doc", what |-> "", name |-> NoName, dir |-> "none",
          members |-> <<>>, types |-> <<>>, specializes |-> <<>>,
          redefines |-> <<>>, ends |-> <<>>, links |-> <<>>,
          targets |-> <<>>, value |-> <<>>, body |-> <<>>, args |-> <<>>,
          parts |-> <<>>, conj |-> FALSE, wildcard |-> FALSE, ref |-> FALSE,
          const |-> FALSE, derived |-> FALSE, assert |-> FALSE,
          given |-> NoNode]

\* The records a node of a tree with the identifiers N may be.
NodeRecord(N) ==
  [kind : Kinds, what : STRING, name : STRING, dir : Directions,
   members : Seq(N), types : Seq(N), specializes : Seq(N),
   redefines : Seq(N), ends : Seq(N), links : Seq(N), targets : Seq(N),
   value : Seq(N), body : Seq(N), args : Seq(N), parts : Seq(STRING),
   conj : BOOLEAN, wildcard : BOOLEAN, ref : BOOLEAN,
   const : BOOLEAN, derived : BOOLEAN, assert : BOOLEAN,
   given : N \cup {NoNode}]

\* Every node a node owns, in no particular order of meaning.
Children(t, n) == t[n].members \o t[n].types \o t[n].specializes
                  \o t[n].redefines \o t[n].ends \o t[n].links
                  \o t[n].targets \o t[n].value \o t[n].body \o t[n].args

\* A node has the lists of its kind, and in them what the parser puts there:
\* names where another declaration is referred to, expressions, declarations.
IsShaped(t, n) ==
  LET Has(list, kinds, what) ==
        list # <<>> => /\ t[n].kind \in kinds
                       /\ \A c \in Range(list) : t[c].kind \in what
  IN  /\ Has(t[n].members, {"program", "package", "definition", "usage"},
             Kinds \ (ExprKinds \cup {"program"}))
      /\ Has(t[n].types, {"usage", "attribute", "return"}, {"qname"})
      /\ Has(t[n].specializes, {"definition", "usage", "attribute", "return"},
             {"qname"})
      /\ Has(t[n].redefines, {"definition", "usage", "attribute"}, {"qname"})
      /\ Has(t[n].ends, {"usage"}, {"qname"})
      /\ Has(t[n].links, {"alias", "import", "comment", "dependency",
                          "transition", "lifecycle", "succession"}, {"qname"})
      /\ Has(t[n].targets, {"succession"}, {"qname", "usage"})
      /\ Has(t[n].value, {"usage", "attribute", "return", "transition"},
             ExprKinds)
      /\ Has(t[n].body, {"definition", "usage"}, ExprKinds)
      /\ Has(t[n].args, {"binary", "unary", "call", "access"}, ExprKinds)
      /\ t[n].kind = "qname" => t[n].parts # <<>>
      /\ t[n].kind \in {"alias", "import"} => Len(t[n].links) = 1

\* An operator has the operands it is written with.
HasOperands(t, n) ==
  /\ t[n].kind = "unary"  => /\ t[n].what \in {"-", "!"}
                             /\ Len(t[n].args) = 1
  /\ t[n].kind = "binary" => /\ t[n].what # "!"
                             /\ Len(t[n].args) = 2

\* No node is listed twice, anywhere, and owners come before what they own.
IsTree(t) ==
  LET edges == UNION {{<<n, c>> : c \in Range(Children(t, n))} : n \in DOMAIN t}
  IN  /\ \A n \in DOMAIN t : IsInjective(Children(t, n))
      /\ \A d, e \in edges : /\ d[1] < d[2]
                             /\ d[2] = e[2] => d = e

\* What the parser builds, and the library beside it: a tree below Root.
IsAst(t) ==
  /\ {Root, Lib} \subseteq DOMAIN t
  /\ DOMAIN t \subseteq Nat \ {NoNode} /\ IsFiniteSet(DOMAIN t)
  /\ \A n \in DOMAIN t : /\ t[n] \in NodeRecord(DOMAIN t)
                         /\ IsShaped(t, n) /\ HasOperands(t, n)
  /\ IsTree(t)
  /\ t[Root].kind = "program"
  /\ t[Lib].kind = "package" /\ t[Lib].name # NoName
  /\ \A n \in DOMAIN t : Lib \notin Range(Children(t, n))

\* The node that owns n; NoNode when none does.
Owner(t, n) ==
  LET owners == {p \in DOMAIN t : n \in Range(Children(t, p))}
  IN  IF owners = {} THEN NoNode ELSE CHOOSE p \in owners : TRUE

\* n, the node that owns it, the node that owns that one, and so on.
Lineage(t, n) ==
  LET upwards[m \in DOMAIN t] ==
        LET p == Owner(t, m)
        IN  IF p = NoNode THEN {m} ELSE {m} \cup upwards[p]
  IN  upwards[n]

----------------------------------------------------------------------------
(***************************************************************************)
(* Lookups.  `res` maps each node to what the resolver bound it to so far. *)
(***************************************************************************)
\* The name a declaration introduces; NoName for kinds that introduce none.
nodeName(t, n) == IF t[n].kind \in NamingKinds THEN t[n].name ELSE NoName

\* The first that Find finds, going through s; NoNode when it finds nothing.
FirstFound(s, Find(_)) ==
  LET found == {<<i, Find(s[i])>> : i \in DOMAIN s}
      hits  == {h \in found : h[2] # NoNode}
  IN  IF hits = {} THEN NoNode
      ELSE (CHOOSE h \in hits : \A k \in hits : h[1] <= k[1])[2]

\* The first of c's own members that is called x.
DirectMember(t, c, x) ==
  FirstFound(t[c].members, LAMBDA m : IF nodeName(t, m) = x THEN m ELSE NoNode)

\* What n stands for: where a chain of aliases leads, after at most MaxDepth
\* hops; NoNode when an alias on the way is not resolved yet.
derefAlias(t, res, n) ==
  LET Hop(m) == IF m # NoNode /\ t[m].kind = "alias" THEN res[t[m].links[1]] ELSE m
      after[d \in 0 .. MaxDepth] == IF d = 0 THEN n ELSE Hop(after[d - 1])
  IN  after[MaxDepth]

\* Where a declaration inherits members from, in search order.
Ancestors(t, c) ==
  CASE t[c].kind = "definition" -> t[c].specializes
    [] t[c].kind = "usage"      -> t[c].types \o t[c].specializes
    [] t[c].kind = "attribute"  -> t[c].types
    [] OTHER                    -> <<>>

\* The member called x of declaration c: its own, or the first that is found
\* among those of its ancestors, aliases seen through, references not resolved
\* so far skipped, cut off after MaxDepth steps.
lookupMember(t, res, c, x) ==
  LET find[d \in 0 .. MaxDepth] ==
        [a \in DOMAIN t \cup {NoNode} |->
           LET k == IF a = NoNode THEN NoNode ELSE derefAlias(t, res, a)
           IN  IF d = MaxDepth \/ k = NoNode THEN NoNode
               ELSE IF DirectMember(t, k, x) # NoNode THEN DirectMember(t, k, x)
               ELSE FirstFound(Ancestors(t, k), LAMBDA r : find[d + 1][res[r]])]
  IN  find[0][c]
=============================================================================
