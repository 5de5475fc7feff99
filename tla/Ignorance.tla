----------------------------- MODULE Ignorance ------------------------------
(***************************************************************************)
(* The type checker beside itself with less knowledge: what is accepted    *)
(* when some names are not bound.                                          *)
(***************************************************************************)
EXTENDS Pipeline

\* The type checker when the names in S are not bound.
Less(S) == INSTANCE TypeChecker
             WITH resolved <- [r \in Nodes |-> IF r \in S THEN NoNode
                                               ELSE resolved[r]]

\* Ignorance is no error: an attribute that is accepted is accepted as well
\* when names in it, or the types of what they name, are unknown
\* (typechecker.h:17-20).
IgnoranceIsAccepted ==
  EndOf("types") =>
    LET typeRefs == UNION {Range(ast[n].types) : n \in Nodes}
    IN  \A a \in Valued :
          LET names == {e \in Subexpressions(ast[a].value[1]) : ast[e].kind = "qname"}
          IN  T!AttributeErrors(a, Owner(ast, a)) = {} =>
                \A S \in {typeRefs} \cup SUBSET names :
                  Less(S)!AttributeErrors(a, Owner(ast, a)) = {}
=============================================================================
