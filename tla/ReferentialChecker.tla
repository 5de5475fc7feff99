------------------------- MODULE ReferentialChecker -------------------------
(***************************************************************************)
(* The referential pass (src/src/referentialchecker.c): it marks the       *)
(* features that SysML makes references although `ref` was not written,    *)
(* and bounds the ends of a flow definition.                               *)
(***************************************************************************)
EXTENDS Traversal

VARIABLE reference   \* isReference of every usage and attribute

IsPort(n, kind) == ast[n].kind = kind /\ ast[n].what = "port"

\* Mistake: the features of a port are forgotten.
datatypeForcesReference(p, u) ==
  ast[p].kind = "definition" /\ ast[p].what = "datatype"

\* The declaration around a feature makes it a reference.
enclosingForcesReference(p, u) ==
  \/ ast[p].kind = "definition" /\ ast[p].what = "datatype"
  \/ IsPort(p, "usage") /\ ~ IsPort(u, "usage")

\* A usage is a reference: it is directed or an end, it stands in no type, it
\* is a port of something that is not a port, or its surroundings say so.
usageMustBeReferential(u, p) ==
  \/ ast[u].dir # "none"
  \/ ast[u].what = "end"
  \/ p = NoNode \/ ast[p].kind \in {"package", "program"}
  \/ IsPort(u, "usage") /\ ~ IsPort(p, "usage") /\ ~ IsPort(p, "definition")
  \/ enclosingForcesReference(p, u)

\* checkFlowDefinitionEnds
FlowEndErrors(d) ==
  LET ends == {i \in DOMAIN ast[d].members :
                 /\ ast[ast[d].members[i]].kind = "usage"
                 /\ ast[ast[d].members[i]].what = "end"}
  IN  IF ast[d].what = "flow" /\ Cardinality(ends) > 2
      THEN {<<"flow with more than two ends", d>>} ELSE {}

\* walk, one declaration: inferOnUsage, inferOnAttribute or the flow rule,
\* then the members.
InferReference(n) ==
  LET p == Head(todo).under
  IN  /\ Calls("references", n)
      /\ reference' =
           [reference EXCEPT ![n] =
              \/ @
              \/ ast[n].kind = "attribute"
              \/ ast[n].kind = "usage" /\ usageMustBeReferential(n, p)]
      /\ errors' = errors \cup
           (IF ast[n].kind = "definition" THEN FlowEndErrors(n) ELSE {})
      /\ Then(IF ast[n].kind \in {"program", "package", "definition", "usage"}
              THEN DoAllIn("references", ast[n].members, n) ELSE <<>>)
=============================================================================
