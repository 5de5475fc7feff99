--------------------------- MODULE ConnectChecker ---------------------------
(***************************************************************************)
(* The connection checker (src/src/connectchecker.c): the ends of a        *)
(* connection must be ports, and a flow must leave an out port and enter   *)
(* an in port, where a port reached through an odd number of conjugated    *)
(* types has its direction flipped.  The pass only reads the tree.         *)
(***************************************************************************)
EXTENDS Traversal

VARIABLE parity     \* qualifiedName.conjugationParity, from the resolver

\* The type a feature is declared with (the first one), when it is known.
declaredType(n) ==
  IF ast[n].kind \in {"usage", "attribute"} /\ ast[n].types # <<>>
  THEN resolved[ast[n].types[1]] ELSE NoNode

IsPortUsage(n) == ast[n].kind = "usage" /\ ast[n].what = "port"

isPortLike(n) ==
  \/ IsPortUsage(n)
  \/ LET t == declaredType(n)
     IN  t # NoNode /\ ast[t].kind = "definition" /\ ast[t].what = "port"

flipDirection(d) == CASE d = "in"  -> "out"
                      [] d = "out" -> "in"
                      [] OTHER     -> d

\* Mistake: conjugation is forgotten.
DeclaredDirection(r) == ast[resolved[r]].dir

\* What comes out of the port that end r is bound to.
EffectiveDirection(r) ==
  IF parity[r] THEN flipDirection(ast[resolved[r]].dir)
               ELSE ast[resolved[r]].dir

\* The role of the i-th end of usage u.
EndRole(u, i) ==
  IF ast[u].what \in {"flow", "message"} /\ i \in {1, 2}
  THEN (IF i = 1 THEN "from" ELSE "to") ELSE "connect"

\* checkEnd: what is wrong with end r in that role; nothing when r is not
\* bound, and no direction is asked of a feature that is not itself a port.
EndErrors(r, role) ==
  IF resolved[r] = NoNode THEN {}
  ELSE IF ~ isPortLike(resolved[r]) THEN {<<"end is not a port", r>>}
  ELSE IF role = "connect" \/ ~ IsPortUsage(resolved[r]) THEN {}
  ELSE IF role = "from" /\ EffectiveDirection(r) \notin {"out", "inout"}
       THEN {<<"flow source is not out", r>>}
  ELSE IF role = "to" /\ EffectiveDirection(r) \notin {"in", "inout"}
       THEN {<<"flow target is not in", r>>}
  ELSE {}

\* bind, allocate and satisfy relate any two elements.
SkipsPortCheck(u) == ast[u].what \in {"bind", "allocate", "satisfy"}

\* Mistake: usages are taken for leaves.
WalkedScopes == {"program", "package", "definition"}

\* The declarations whose members the walk goes into.
Walked == {"program", "package", "definition", "usage"}

\* walk, one declaration: its own ends, then its members.
CheckConnection(n) ==
  /\ Calls("connections", n)
  /\ errors' = errors \cup
       (IF ast[n].kind = "usage" /\ ~ SkipsPortCheck(n)
        THEN UNION {EndErrors(ast[n].ends[i], EndRole(n, i)) :
                      i \in DOMAIN ast[n].ends}
        ELSE {})
  /\ Then(IF ast[n].kind \in Walked
          THEN DoAll("connections", ast[n].members) ELSE <<>>)
=============================================================================
