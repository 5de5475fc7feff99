---------------------------- MODULE RedefChecker ----------------------------
(***************************************************************************)
(* The redefinition checker (src/src/redefchecker.c): an attribute may     *)
(* redefine a feature its owner inherits, narrowing its type.  The pass    *)
(* binds the redefined names, over what the resolver may have put there.   *)
(***************************************************************************)
EXTENDS Traversal, TypeRelation

declaredType(n) ==
  IF ast[n].kind \in {"usage", "attribute"} /\ ast[n].types # <<>>
  THEN resolved[ast[n].types[1]] ELSE NoNode

\* The references an owner inherits along, in the order they are searched.
Supertypes(p) == IF ast[p].kind \in {"definition", "usage"}
                 THEN Ancestors(ast, p) ELSE <<>>

\* The feature called x that p inherits: from the first supertype that has it.
findInSupertypes(p, x) ==
  FirstFound(Supertypes(p),
             LAMBDA r : lookupMember(ast, resolved, resolved[r], x))

\* The name of an owner; this pass has its own nodeName, without aliases.
ownerName(n) == IF ast[n].kind \in {"package", "definition", "usage",
                                    "attribute"}
                THEN ast[n].name ELSE NoName

\* Mistake: only what p itself is declared with counts.
qualifierMatchesDirect(p, q, x, target) ==
  \E i \in DOMAIN Supertypes(p) :
    LET a == resolved[Supertypes(p)[i]]
    IN  /\ a # NoNode
        /\ ownerName(a) = q
        /\ lookupMember(ast, resolved, a, x) = target

\* Some supertype of p, at most MaxDepth steps up, is called q and has
\* `target` as its x.
qualifierMatches(p, q, x, target) ==
  LET match[d \in 0 .. MaxDepth] ==
        [c \in Nodes |->
           /\ d < MaxDepth
           /\ \E i \in DOMAIN Supertypes(c) :
                LET a == resolved[Supertypes(c)[i]]
                IN  /\ a # NoNode
                    /\ \/ /\ ownerName(a) = q
                          /\ lookupMember(ast, resolved, a, x) = target
                       \/ match[d + 1][a]]
  IN  match[0][p]

\* Mistake: the wrong way round, a redefinition may only widen.
Widens(r, a, found) ==
  \/ declaredType(a) = NoNode
  \/ declaredType(found) = NoNode
  \/ specializesType(declaredType(found), declaredType(a))

\* The type of a is no wider than that of the feature it redefines, as far as
\* the two are known and the name has at most two segments.
Narrows(r, a, found) ==
  \/ Len(ast[r].parts) > 2
  \/ declaredType(a) = NoNode
  \/ declaredType(found) = NoNode
  \/ specializesType(declaredType(a), declaredType(found))

\* Mistake: the wrong way round, only a variable has to stay one.
StaysVariable(a, found) == ast[a].const => ast[found].const

StaysConstant(a, found) == ast[found].const => ast[a].const

\* checkOneRedef, for the name r in the redefines list of attribute a of p:
\* the feature r is bound to (NoNode: none) and what is wrong.
Redefined(r, p) ==
  LET parts == ast[r].parts
      found == findInSupertypes(p, Last(parts))
  IN  IF /\ found # NoNode
         /\ Len(parts) = 2 =>
              qualifierMatches(p, parts[1], Last(parts), found)
      THEN found ELSE NoNode

RedefErrors(r, a, p) ==
  LET found == Redefined(r, p)
  IN  IF found = NoNode THEN {<<"nothing to redefine", r>>}
      ELSE IF ast[found].kind # "attribute"
           THEN {<<"not an attribute", r>>}
      ELSE (IF Narrows(r, a, found)
            THEN {} ELSE {<<"type is not narrowed", r>>})
           \cup (IF StaysConstant(a, found)
                 THEN {} ELSE {<<"constant is lost", r>>})

\* walk, one declaration: checkAttributeRedefs, or the members.  Attributes
\* at package level are skipped, and no other kind of feature is checked.
CheckRedefinitions(n) ==
  LET p == Head(todo).under
      rs == IF ast[n].kind = "attribute" /\ p # NoNode
            THEN Range(ast[n].redefines) ELSE {}
  IN  /\ Calls("redefinitions", n)
      /\ resolved' = [r \in Nodes |->
                        IF r \in rs /\ Redefined(r, p) # NoNode
                        THEN Redefined(r, p) ELSE resolved[r]]
      /\ errors' = errors \cup UNION {RedefErrors(r, n, p) : r \in rs}
      /\ Then(IF ast[n].kind \in {"program", "package"}
              THEN DoAllIn("redefinitions", ast[n].members, NoNode)
              ELSE IF ast[n].kind \in {"definition", "usage"}
              THEN DoAllIn("redefinitions", ast[n].members, n)
              ELSE <<>>)
=============================================================================
