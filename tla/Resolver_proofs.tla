--------------------------- MODULE Resolver_proofs ---------------------------
(***************************************************************************)
(* Proofs about the name resolver, for every set of well-formed trees and  *)
(* every depth bound: what its state is like, and that every name is       *)
(* looked up in the scopes it is lexically inside of, which are filled.    *)
(***************************************************************************)
EXTENDS Resolver, Ast_proofs

----------------------------------------------------------------------------
(***************************************************************************)
(* Lists of calls are lists of calls, whatever they are made from.         *)
(***************************************************************************)
Work == Seq(Item(Ops, Nodes))

\* One call to each node of a list.
LEMMA DoAllType ==
  ASSUME NEW N, NEW ns \in Seq(N), NEW op \in Ops
  PROVE  DoAll(op, ns) \in Seq(Item(Ops, N))
<1>1. \A i \in 1 .. Len(ns) : ns[i] \in N
  BY ElementOfSeq
<1>2. DOMAIN ns = 1 .. Len(ns) /\ Len(ns) \in Nat
  BY LenProperties
<1>3. \A i \in 1 .. Len(ns) : Do(op, ns[i]) \in Item(Ops, N)
  BY <1>1 DEF Do, DoIn, Item
<1>4. DoAll(op, ns) = [i \in 1 .. Len(ns) |-> Do(op, ns[i])]
  BY <1>2 DEF DoAll
<1> QED
  BY <1>2, <1>3, <1>4, IsASeq

\* A single call.
LEMMA DoType ==
  ASSUME NEW N, NEW n \in N, NEW op \in Ops
  PROVE  <<Do(op, n)>> \in Seq(Item(Ops, N))
BY DEF Do, DoIn, Item

\* The calls a handler makes go in front of what was waiting.
LEMMA ThenType ==
  ASSUME NEW calls \in Work, todo \in Work, todo # <<>>, Then(calls),
         Nodes' = Nodes
  PROVE  todo' \in Work'
<1>1. Tail(todo) \in Work
  BY HeadTailProperties DEF Work
<1>2. calls \o Tail(todo) \in Work
  BY <1>1, ConcatProperties DEF Work
<1> QED
  BY <1>2 DEF Then, Work

\* The lists of a node are lists of nodes.
LEMMA ListTypes ==
  ASSUME ast \in Programs, NEW n \in Nodes
  PROVE  /\ ast[n] \in NodeRecord(Nodes)
         /\ ast[n].members \in Seq(Nodes)
         /\ ast[n].types \in Seq(Nodes)
         /\ ast[n].specializes \in Seq(Nodes)
         /\ ast[n].redefines \in Seq(Nodes)
         /\ ast[n].ends \in Seq(Nodes)
         /\ ast[n].links \in Seq(Nodes)
         /\ ast[n].targets \in Seq(Nodes)
         /\ ast[n].value \in Seq(Nodes)
         /\ ast[n].body \in Seq(Nodes)
         /\ ast[n].args \in Seq(Nodes)
         /\ ast[n].given \in Nodes \cup {NoNode}
         /\ {Root, Lib} \subseteq Nodes
         /\ NoNode \notin Nodes
<1>1. IsAst(ast)
  BY ProgramsAssumption
<1>2. ast[n] \in NodeRecord(Nodes)
  BY <1>1 DEF IsAst, Nodes
<1> QED
  BY <1>1, <1>2 DEF IsAst, Nodes, NodeRecord

\* Calls that follow one another.
LEMMA Concat ==
  ASSUME NEW a \in Work, NEW b \in Work
  PROVE  a \o b \in Work
BY ConcatProperties DEF Work

\* The calls to the targets of a succession: names or inline actions.
LEMMA TargetCallsType ==
  ASSUME ast \in Programs, NEW n \in Nodes
  PROVE  [i \in DOMAIN ast[n].targets |->
            Do(IF ast[ast[n].targets[i]].kind = "qname"
               THEN "ref" ELSE "visit", ast[n].targets[i])] \in Work
<1> DEFINE ts == ast[n].targets
           op(i) == IF ast[ts[i]].kind = "qname" THEN "ref" ELSE "visit"
<1>1. ts \in Seq(Nodes)
  BY ListTypes
<1> HIDE DEF ts
<1>2. DOMAIN ts = 1 .. Len(ts) /\ Len(ts) \in Nat
  BY <1>1, LenProperties
<1>3. \A i \in 1 .. Len(ts) : ts[i] \in Nodes
  BY <1>1, ElementOfSeq
<1>4. \A i \in 1 .. Len(ts) : op(i) \in Ops
  BY DEF Ops
<1> HIDE DEF op
<1>5. \A i \in 1 .. Len(ts) : Do(op(i), ts[i]) \in Item(Ops, Nodes)
  BY <1>3, <1>4 DEF Do, DoIn, Item
<1>6. [i \in 1 .. Len(ts) |-> Do(op(i), ts[i])] \in Seq(Item(Ops, Nodes))
  BY <1>2, <1>5, IsASeq
<1>7. [i \in DOMAIN ts |-> Do(op(i), ts[i])] \in Seq(Item(Ops, Nodes))
  BY <1>2, <1>6
<1> QED
  BY <1>7 DEF ts, op, Work

\* resolveNode makes calls to nodes of the tree, whatever it is given.
LEMMA CallsOfType ==
  ASSUME ast \in Programs, NEW n \in Nodes
  PROVE  CallsOf(n) \in Work
<1> DEFINE header == DoAll("ref", ast[n].types)
                     \o DoAll("ref", ast[n].specializes)
                     \o DoAll("redef", ast[n].redefines)
           inner == IF ast[n].members # <<>>
                    THEN <<Do("enter", n)>> ELSE <<>>
           targets == [i \in DOMAIN ast[n].targets |->
                         Do(IF ast[ast[n].targets[i]].kind = "qname"
                            THEN "ref" ELSE "visit", ast[n].targets[i])]
<1>1. \A op \in Ops : <<Do(op, n)>> \in Work
  BY DoType DEF Work
<1>2. <<>> \in Work
  BY DEF Work
<1>3. \A op \in Ops : /\ DoAll(op, ast[n].types) \in Work
                      /\ DoAll(op, ast[n].specializes) \in Work
                      /\ DoAll(op, ast[n].redefines) \in Work
                      /\ DoAll(op, ast[n].ends) \in Work
                      /\ DoAll(op, ast[n].links) \in Work
                      /\ DoAll(op, ast[n].value) \in Work
                      /\ DoAll(op, ast[n].body) \in Work
  BY ListTypes, DoAllType DEF Work
<1>4. {"ref", "redef", "expr", "enter"} \subseteq Ops
  BY DEF Ops
<1>5. header \in Work
  BY <1>3, <1>4, Concat
<1>6. inner \in Work
  BY <1>1, <1>2, <1>4
<1>7. targets \in Work
  BY TargetCallsType
<1> HIDE DEF header, inner, targets
<1>8. header \o <<Do("enter", n)>> \in Work
  BY <1>1, <1>4, <1>5, Concat
<1>9. header \o DoAll("ref", ast[n].ends) \o DoAll("expr", ast[n].value)
        \o DoAll("expr", ast[n].body) \o inner \in Work
  <2>1. header \o DoAll("ref", ast[n].ends) \in Work
    BY <1>3, <1>4, <1>5, Concat
  <2>2. header \o DoAll("ref", ast[n].ends) \o DoAll("expr", ast[n].value)
          \in Work
    BY <1>3, <1>4, <2>1, Concat
  <2>3. header \o DoAll("ref", ast[n].ends) \o DoAll("expr", ast[n].value)
          \o DoAll("expr", ast[n].body) \in Work
    BY <1>3, <1>4, <2>2, Concat
  <2> QED
    BY <1>6, <2>3, Concat
<1>10. header \o DoAll("expr", ast[n].value) \in Work
  BY <1>3, <1>4, <1>5, Concat
<1>11. DoAll("ref", ast[n].links) \o DoAll("expr", ast[n].value) \in Work
  BY <1>3, <1>4, Concat
<1>12. DoAll("ref", ast[n].links) \o targets \in Work
  BY <1>3, <1>4, <1>7, Concat
<1>13. DoAll("ref", ast[n].links) \in Work /\ <<Do("enter", n)>> \in Work
  BY <1>1, <1>3, <1>4
<1> DEFINE k == ast[n].kind
<1>14. CallsOf(n) =
         CASE k = "package"    -> <<Do("enter", n)>>
           [] k = "definition" -> header \o <<Do("enter", n)>>
           [] k = "usage"      -> header \o DoAll("ref", ast[n].ends)
                                  \o DoAll("expr", ast[n].value)
                                  \o DoAll("expr", ast[n].body) \o inner
           [] k = "attribute"  -> header \o DoAll("expr", ast[n].value)
           [] k = "return"     -> header \o DoAll("expr", ast[n].value)
           [] k \in {"alias", "comment", "dependency", "lifecycle"}
                               -> DoAll("ref", ast[n].links)
           [] k = "transition" -> DoAll("ref", ast[n].links)
                                  \o DoAll("expr", ast[n].value)
           [] k = "succession" -> DoAll("ref", ast[n].links) \o targets
           [] OTHER            -> <<>>
  BY DEF CallsOf, header, inner, targets
<1> HIDE DEF k
<1> QED
  BY <1>2, <1>8, <1>9, <1>10, <1>11, <1>12, <1>13, <1>14

----------------------------------------------------------------------------
(***************************************************************************)
(* Type correctness.                                                       *)
(***************************************************************************)
\* Looking a name up changes the tree's annotations to annotations.
LEMMA BindType ==
  ASSUME TypeOK, NEW r \in Nodes, NEW stack, NEW report \in BOOLEAN,
         Bind(r, stack, report)
  PROVE  /\ resolved' \in [Nodes -> Nodes \cup {NoNode}]
         /\ parity' \in [Nodes -> BOOLEAN]
         /\ errors' \subseteq Messages \X Nodes
<1> DEFINE path == Path(r, stack)
           n == Len(ast[r].parts)
           seen == derefAlias(ast, resolved, path[n])
           odd == PathParity(r, path)
<1>2. odd \in BOOLEAN
  BY DEF PathParity
<1>3. \/ UNCHANGED <<resolved, parity, errors>>
      \/ /\ path[n] \in Nodes
         /\ resolved' = [resolved EXCEPT
                           ![r] = IF seen \in Nodes THEN seen ELSE path[n]]
         /\ parity' = [parity EXCEPT ![r] = odd]
         /\ UNCHANGED errors
      \/ /\ \E m \in {"undefined name", "undefined member"} :
              errors' = errors \/ errors' = errors \cup {<<m, r>>}
         /\ UNCHANGED <<resolved, parity>>
  BY DEF Bind
<1> HIDE DEF path, n, seen, odd
<1>4. CASE UNCHANGED <<resolved, parity, errors>>
  BY <1>4 DEF TypeOK
<1>5. CASE /\ path[n] \in Nodes
           /\ resolved' = [resolved EXCEPT
                             ![r] = IF seen \in Nodes THEN seen ELSE path[n]]
           /\ parity' = [parity EXCEPT ![r] = odd]
           /\ UNCHANGED errors
  BY <1>2, <1>5 DEF TypeOK
<1>6. CASE /\ \E m \in {"undefined name", "undefined member"} :
                errors' = errors \/ errors' = errors \cup {<<m, r>>}
           /\ UNCHANGED <<resolved, parity>>
  <2>1. PICK m \in {"undefined name", "undefined member"} :
          errors' = errors \/ errors' = errors \cup {<<m, r>>}
    BY <1>6
  <2>2. m \in Messages /\ <<m, r>> \in Messages \X Nodes
    BY DEF Messages
  <2>3. errors' \subseteq Messages \X Nodes
    BY <2>1, <2>2 DEF TypeOK
  <2> QED
    BY <1>6, <2>3 DEF TypeOK
<1> QED
  BY <1>3, <1>4, <1>5, <1>6

\* The walk starts in a state of the right type.
LEMMA InitType == Init => TypeOK
<1> SUFFICES ASSUME Init
             PROVE  TypeOK
  OBVIOUS
<1>1. ast \in Programs
  BY DEF Init
<1>2. {Root, Lib} \subseteq Nodes
  BY <1>1, ProgramsAssumption DEF IsAst, Nodes
<1>3. resolved \in [Nodes -> Nodes \cup {NoNode}]
  BY <1>1, ListTypes DEF Init
<1>4. parity \in [Nodes -> BOOLEAN] /\ errors \subseteq Messages \X Nodes
  BY DEF Init
<1>5. scopes \in Seq(Scope(Nodes))
  <2>1. RootScope = [owner |-> Root, symbols |-> {Lib}, wild |-> <<>>]
    BY DEF RootScope, NewScope
  <2>2. RootScope \in Scope(Nodes)
    BY <1>2, <2>1 DEF Scope
  <2> QED
    BY <2>2 DEF Init
<1>6. todo \in Work
  <2>1. /\ DoAll("declare", ast[Root].members) \in Work
        /\ DoAll("visit", ast[Root].members) \in Work
        /\ <<Do("leave", Root)>> \in Work
    BY <1>1, <1>2, ListTypes, DoAllType, DoType DEF Ops, Work
  <2>2. DoAll("declare", ast[Root].members)
          \o DoAll("visit", ast[Root].members) \in Work
    BY <2>1, Concat
  <2> QED
    BY <2>1, <2>2, Concat DEF Init, RootCalls
<1> QED
  BY <1>1, <1>3, <1>4, <1>5, <1>6 DEF TypeOK, Work

\* The innermost scope is a scope.
LEMMA InnerType ==
  ASSUME TypeOK, scopes # <<>>
  PROVE  /\ Inner \in Scope(Nodes)
         /\ Inner.symbols \subseteq Nodes
         /\ Inner.wild \in Seq(Nodes)
<1>1. Len(scopes) \in 1 .. Len(scopes)
  BY LenProperties, EmptySeq DEF TypeOK
<1>2. Inner \in Scope(Nodes)
  BY <1>1, ElementOfSeq DEF TypeOK, Inner
<1> QED
  BY <1>2 DEF Scope

\* The call that runs next is on a node of the tree.
LEMMA CurrentType == TypeOK => Current \subseteq Nodes
<1> SUFFICES ASSUME TypeOK, todo # <<>> PROVE Head(todo).node \in Nodes
  BY DEF Current
<1>1. Head(todo) \in Item(Ops, Nodes)
  BY HeadTailProperties DEF TypeOK
<1> QED
  BY <1>1 DEF Item

\* Every step keeps the types.
LEMMA StepType == TypeOK /\ [Next]_vars => TypeOK'
<1> SUFFICES ASSUME TypeOK, [Next]_vars
             PROVE  TypeOK'
  OBVIOUS
<1>0. CASE UNCHANGED vars
  BY <1>0 DEF vars, TypeOK, Nodes
<1>1. CASE Finished
  BY <1>0, <1>1 DEF Finished
<1>a. TypeOK => /\ <<>> \in Work
                /\ \A n \in Nodes, op \in Ops : <<Do(op, n)>> \in Work
  BY DoType DEF Work
<1>2. ASSUME NEW n \in Nodes, DeclareImport(n)
      PROVE  TypeOK'
  <2>1. ast' = ast /\ Nodes' = Nodes
    BY <1>2 DEF DeclareImport, Nodes
  <2>2. ast[n].links[1] \in Nodes
    <3>1. Len(ast[n].links) = 1
      BY <1>2, ProgramsAssumption DEF DeclareImport, IsAst, IsShaped, Nodes, TypeOK
    <3> QED
      BY <3>1, ListTypes, ElementOfSeq DEF TypeOK
  <2>3. /\ resolved' \in [Nodes -> Nodes \cup {NoNode}]
        /\ parity' \in [Nodes -> BOOLEAN]
        /\ errors' \subseteq Messages \X Nodes
    BY <1>2, <2>2, BindType DEF DeclareImport
  <2>4. scopes' \in Seq(Scope(Nodes))
    <3>1. CASE ~ ast[n].wildcard
      BY <1>2, <3>1 DEF DeclareImport, TypeOK
    <3>2. CASE ast[n].wildcard
      <4> DEFINE f == [scopes EXCEPT ![Len(scopes)].wild = Append(@, n)]
      <4>1. scopes' = f
        BY <1>2, <3>2 DEF DeclareImport
      <4>2. CASE scopes = <<>>
        <5>1. f = <<>>
          BY <4>2
        <5> QED
          BY <4>1, <5>1, EmptySeq
      <4>3. CASE scopes # <<>>
        <5>1. Len(scopes) \in 1 .. Len(scopes)
          BY <4>3, LenProperties, EmptySeq DEF TypeOK
        <5>2. Append(Inner.wild, n) \in Seq(Nodes)
          BY <4>3, InnerType, AppendProperties
        <5>3. [Inner EXCEPT !.wild = Append(Inner.wild, n)] \in Scope(Nodes)
          BY <4>3, <5>2, InnerType DEF Scope
        <5>4. scopes' = [scopes EXCEPT ![Len(scopes)] =
                           [Inner EXCEPT !.wild = Append(Inner.wild, n)]]
          BY <4>1, Zenon DEF Inner
        <5> HIDE DEF f
        <5> QED
          BY <5>1, <5>3, <5>4, ExceptSeq DEF TypeOK
      <4> QED
        BY <4>2, <4>3
    <3> QED
      BY <3>1, <3>2
  <2>5. todo' \in Work'
    BY <1>2, <1>a, <2>1, ThenType DEF DeclareImport, Calls, TypeOK, Work
  <2> QED
    BY <2>1, <2>3, <2>4, <2>5 DEF TypeOK, Work
<1>3. ASSUME NEW n \in Nodes, DeclareName(n)
      PROVE  TypeOK'
  <2>1. ast' = ast /\ Nodes' = Nodes /\ UNCHANGED <<resolved, parity>>
    BY <1>3 DEF DeclareName, Nodes
  <2>2. \/ scopes' = scopes
        \/ scopes' = [scopes EXCEPT ![Len(scopes)].symbols = @ \cup {n}]
    BY <1>3 DEF DeclareName
  <2>3. scopes' \in Seq(Scope(Nodes))
    <3>1. CASE scopes' = scopes
      BY <3>1 DEF TypeOK
    <3>2. CASE /\ scopes' = [scopes EXCEPT
                               ![Len(scopes)].symbols = @ \cup {n}]
               /\ scopes = <<>>
      <4>1. scopes' = <<>>
        BY <3>2
      <4> QED
        BY <4>1, EmptySeq
    <3>3. CASE /\ scopes' = [scopes EXCEPT
                               ![Len(scopes)].symbols = @ \cup {n}]
               /\ scopes # <<>>
      <4>1. Len(scopes) \in 1 .. Len(scopes)
        BY <3>3, LenProperties, EmptySeq DEF TypeOK
      <4>2. [Inner EXCEPT !.symbols = Inner.symbols \cup {n}]
              \in Scope(Nodes)
        BY <3>3, InnerType DEF Scope
      <4>3. scopes' = [scopes EXCEPT ![Len(scopes)] =
                         [Inner EXCEPT !.symbols = Inner.symbols \cup {n}]]
        BY <3>3 DEF Inner
      <4> QED
        BY <4>1, <4>2, <4>3, ExceptSeq DEF TypeOK
    <3> QED
      BY <2>2, <3>1, <3>2, <3>3
  <2>4. errors' \subseteq Messages \X Nodes
    <3>1. errors' = errors \/ errors' = errors \cup {<<"duplicate name", n>>}
      BY <1>3 DEF DeclareName
    <3>2. <<"duplicate name", n>> \in Messages \X Nodes
      BY DEF Messages
    <3> QED
      BY <3>1, <3>2 DEF TypeOK
  <2>5. todo' \in Work'
    BY <1>3, <1>a, <2>1, ThenType DEF DeclareName, Calls, TypeOK, Work
  <2> QED
    BY <2>1, <2>3, <2>4, <2>5 DEF TypeOK, Work
<1>4. ASSUME NEW n \in Nodes, Enter(n)
      PROVE  TypeOK'
  <2>1. /\ ast' = ast /\ Nodes' = Nodes
        /\ UNCHANGED <<resolved, parity, errors>>
    BY <1>4 DEF Enter, Nodes
  <2>2. scopes' \in Seq(Scope(Nodes))
    <3>1. NewScope(n) \in Scope(Nodes)
      BY DEF NewScope, Scope
    <3> QED
      BY <1>4, <3>1, AppendProperties DEF Enter, TypeOK
  <2>3. todo' \in Work'
    <3> DEFINE body == IF ast[n].kind = "definition"
                       THEN DoAll("expr", ast[n].body) ELSE <<>>
               declares == DoAll("declare", ast[n].members)
               visits == DoAll("visit", ast[n].members)
    <3>1. body \in Work /\ declares \in Work /\ visits \in Work
      BY <1>a, ListTypes, DoAllType DEF Ops, Work, TypeOK
    <3>2. Then(declares \o visits \o body \o <<Do("leave", n)>>)
      BY <1>4 DEF Enter
    <3> HIDE DEF body, declares, visits
    <3>3. declares \o visits \in Work
      BY <3>1, Concat
    <3>4. declares \o visits \o body \in Work
      BY <3>1, <3>3, Concat
    <3>5. <<Do("leave", n)>> \in Work
      BY <1>a DEF Ops
    <3>6. declares \o visits \o body \o <<Do("leave", n)>> \in Work
      BY <3>4, <3>5, Concat
    <3> QED
      BY <1>4, <2>1, <3>2, <3>6, ThenType DEF Enter, Calls, TypeOK, Work
  <2> QED
    BY <2>1, <2>2, <2>3 DEF TypeOK, Work
<1>5. ASSUME NEW n \in Nodes, Leave(n)
      PROVE  TypeOK'
  <2>1. /\ ast' = ast /\ Nodes' = Nodes
        /\ UNCHANGED <<resolved, parity, errors>>
    BY <1>5 DEF Leave, Nodes
  <2>2. scopes' \in Seq(Scope(Nodes))
    <3>1. Len(scopes) \in Nat
      BY LenProperties DEF TypeOK
    <3>2. \A i \in 1 .. Len(scopes) - 1 : scopes[i] \in Scope(Nodes)
      BY <3>1, ElementOfSeq DEF TypeOK
    <3>3. SubSeq(scopes, 1, Len(scopes) - 1) \in Seq(Scope(Nodes))
      BY <3>1, <3>2, SubSeqProperties
    <3> QED
      BY <1>5, <3>3 DEF Leave, Front
  <2>3. todo' \in Work'
    BY <1>5, <1>a, <2>1, ThenType DEF Leave, Calls, TypeOK, Work
  <2> QED
    BY <2>1, <2>2, <2>3 DEF TypeOK, Work
<1>6. ASSUME NEW n \in Nodes, Visit(n)
      PROVE  TypeOK'
  <2>1. /\ ast' = ast /\ Nodes' = Nodes
        /\ UNCHANGED <<resolved, parity, errors, scopes>>
    BY <1>6 DEF Visit, Nodes
  <2>2. todo' \in Work'
    BY <1>6, <2>1, CallsOfType, ThenType DEF Visit, Calls, TypeOK, Work
  <2> QED
    BY <2>1, <2>2 DEF TypeOK, Work
<1>7. ASSUME NEW n \in Nodes, Descend(n)
      PROVE  TypeOK'
  <2>1. /\ ast' = ast /\ Nodes' = Nodes
        /\ UNCHANGED <<resolved, parity, errors, scopes>>
    BY <1>7 DEF Descend, Nodes
  <2>2. DoAll("expr", ast[n].args) \in Work
    BY ListTypes, DoAllType DEF Ops, Work, TypeOK
  <2>3. todo' \in Work'
    BY <1>7, <2>1, <2>2, ThenType DEF Descend, Calls, TypeOK, Work
  <2> QED
    BY <2>1, <2>3 DEF TypeOK, Work
<1>8. ASSUME NEW n \in Nodes, SkipRedefinition(n)
      PROVE  TypeOK'
  <2>1. /\ ast' = ast /\ Nodes' = Nodes
        /\ UNCHANGED <<resolved, parity, errors, scopes>>
    BY <1>8 DEF SkipRedefinition, Nodes
  <2>2. todo' \in Work'
    BY <1>8, <1>a, <2>1, ThenType DEF SkipRedefinition, Calls, TypeOK, Work
  <2> QED
    BY <2>1, <2>2 DEF TypeOK, Work
<1>9. ASSUME NEW n \in Nodes, Resolve(n)
      PROVE  TypeOK'
  <2>1. ast' = ast /\ Nodes' = Nodes /\ UNCHANGED scopes
    BY <1>9 DEF Resolve, Nodes
  <2>2. /\ resolved' \in [Nodes -> Nodes \cup {NoNode}]
        /\ parity' \in [Nodes -> BOOLEAN]
        /\ errors' \subseteq Messages \X Nodes
    BY <1>9, BindType DEF Resolve
  <2>3. todo' \in Work'
    BY <1>9, <1>a, <2>1, ThenType DEF Resolve, Calls, TypeOK, Work
  <2> QED
    BY <2>1, <2>2, <2>3 DEF TypeOK, Work
<1> QED
  BY <1>0, <1>1, <1>2, <1>3, <1>4, <1>5, <1>6, <1>7, <1>8, <1>9, CurrentType DEF Next, Step

\* The resolver's variables always have their types: in particular every
\* binding is to a node of the tree and every call is on one.
THEOREM TypeCorrect == Spec => []TypeOK
<1>1. Init => TypeOK
  BY InitType
<1>2. TypeOK /\ [Next]_vars => TypeOK'
  BY StepType
<1> QED
  BY <1>1, <1>2, PTL DEF Spec

----------------------------------------------------------------------------
(***************************************************************************)
(* Bindings are final.                                                     *)
(***************************************************************************)
Final == /\ \A n \in Nodes : resolved[n] # NoNode =>
                               /\ resolved'[n] = resolved[n]
                               /\ parity'[n] = parity[n]
         /\ errors \subseteq errors'

\* Looking a name up does not change what another name is bound to, nor what
\* this one is already bound to.
LEMMA BindKeeps ==
  ASSUME TypeOK, NEW r \in Nodes, NEW stack, NEW report \in BOOLEAN,
         Bind(r, stack, report)
  PROVE  Final
<1>1. CASE UNCHANGED <<resolved, parity>>
  BY <1>1 DEF Final, Bind
<1>2. CASE /\ resolved[r] = NoNode
           /\ \E v : resolved' = [resolved EXCEPT ![r] = v]
           /\ \E v : parity' = [parity EXCEPT ![r] = v]
           /\ UNCHANGED errors
  BY <1>2 DEF Final, TypeOK
<1> QED
  BY <1>1, <1>2 DEF Bind

LEMMA StepFinal == TypeOK /\ Step => Final
<1> SUFFICES ASSUME TypeOK, Step
             PROVE  Final
  OBVIOUS
<1>1. ASSUME NEW n \in Nodes, DeclareImport(n)
      PROVE  Final
  <2>1. ast[n].links[1] \in Nodes
    <3>1. Len(ast[n].links) = 1
      BY <1>1, ProgramsAssumption DEF DeclareImport, IsAst, IsShaped, Nodes, TypeOK
    <3> QED
      BY <3>1, ListTypes, ElementOfSeq DEF TypeOK
  <2> QED
    BY <1>1, <2>1, BindKeeps DEF DeclareImport
<1>2. ASSUME NEW n \in Nodes, Resolve(n)
      PROVE  Final
  BY <1>2, BindKeeps DEF Resolve
<1>3. ASSUME NEW n \in Nodes,
             \/ DeclareName(n) \/ Enter(n) \/ Leave(n) \/ Visit(n)
             \/ Descend(n) \/ SkipRedefinition(n)
      PROVE  Final
  BY <1>3 DEF DeclareName, Enter, Leave, Visit, Descend, SkipRedefinition,
              Final
<1> QED
  BY <1>1, <1>2, <1>3, CurrentType DEF Step

\* A binding made by the parser, the library, an import's early lookup or the
\* walk is never changed, and no diagnostic is withdrawn, for every program.
THEOREM BindingsStayFinal == Spec => BindingsAreFinal
<1>1. TypeOK /\ [Next]_vars => [Final]_vars
  BY StepFinal DEF Next, Finished
<1> QED
  BY <1>1, TypeCorrect, PTL DEF Spec, BindingsAreFinal, Final

----------------------------------------------------------------------------
(***************************************************************************)
(* The scopes around a node, from the scopes around its owner.             *)
(***************************************************************************)
LEMMA EnclosingIs ==
  ASSUME NEW t, IsAst(t)
  PROVE  \A n \in DOMAIN t :
           /\ Enclosing(t, n) \in Seq(DOMAIN t)
           /\ Enclosing(t, n) =
                IF Owner(t, n) = NoNode THEN <<>>
                ELSE IF Encloses(t, Owner(t, n), n)
                     THEN Append(Enclosing(t, Owner(t, n)), Owner(t, n))
                     ELSE Enclosing(t, Owner(t, n))
<1> DEFINE N == DOMAIN t
           up == [n \in N |-> Owner(t, n)]
           start == [n \in N |-> <<>>]
           step == [n \in N |-> [s \in Seq(N) |->
                      IF up[n] \in N /\ Encloses(t, up[n], n)
                      THEN Append(s, up[n]) ELSE s]]
           Value(f, n) == IF Owner(t, n) = NoNode THEN <<>>
                          ELSE IF Encloses(t, Owner(t, n), n)
                               THEN Append(f[Owner(t, n)], Owner(t, n))
                               ELSE f[Owner(t, n)]
           P(f) == f = [n \in N |-> Value(f, n)]
<1>1. \A n \in N : /\ n \in Nat
                   /\ up[n] \in N <=> Owner(t, n) # NoNode
                   /\ up[n] \in N => up[n] < n
  BY NodesAreNumbers, Owned
<1>2. PICK f : Follows(f, N, Seq(N), up, start, step)
  <2>1. \A n \in N : start[n] \in Seq(N)
    OBVIOUS
  <2>2. \A n \in N, s \in Seq(N) : step[n][s] \in Seq(N)
    <3> SUFFICES ASSUME NEW n \in N, NEW s \in Seq(N)
                 PROVE  (IF up[n] \in N /\ Encloses(t, up[n], n)
                         THEN Append(s, up[n]) ELSE s) \in Seq(N)
      OBVIOUS
    <3> HIDE DEF N, up
    <3> QED
      BY AppendProperties
  <2>3. \A n \in N : n \in Nat
    BY <1>1
  <2>4. \A n \in N : up[n] \in N => up[n] < n
    BY <1>1
  <2> HIDE DEF start, step, up, N
  <2> QED
    BY <2>1, <2>2, <2>3, <2>4, DefinedAlong
<1>3. /\ f \in [N -> Seq(N)]
      /\ \A n \in N : f[n] = IF up[n] \in N THEN step[n][f[up[n]]] ELSE start[n]
  BY <1>2 DEF Follows
<1>4. ASSUME NEW n \in N PROVE f[n] = Value(f, n)
  <2>1. CASE up[n] \in N
    <3>1. f[up[n]] \in Seq(N)
      BY <1>3, <2>1
    <3>2. step[n][f[up[n]]] = IF up[n] \in N /\ Encloses(t, up[n], n)
                              THEN Append(f[up[n]], up[n]) ELSE f[up[n]]
      BY <3>1
    <3> QED
      BY <1>1, <1>3, <2>1, <3>2
  <2>2. CASE up[n] \notin N
    BY <1>1, <1>3, <2>2
  <2> QED
    BY <2>1, <2>2
<1> HIDE DEF Value, step, start, up
<1>5. P(f)
  BY <1>3, <1>4
<1>6. ASSUME NEW n \in N PROVE Enclosing(t, n) = (CHOOSE g : P(g))[n]
  BY DEF Enclosing, Value
<1>7. P(CHOOSE g : P(g))
  <2> HIDE DEF P
  <2> QED
    BY <1>5, Zenon
<1> DEFINE g == CHOOSE h : P(h)
<1>8. \A n \in N : Enclosing(t, n) = g[n] /\ g[n] = Value(g, n)
  <2> HIDE DEF g
  <2> QED
    BY <1>6, <1>7 DEF g
<1>9. ASSUME NEW n \in N PROVE g[n] = f[n]
  <2> HIDE DEF g
  <2> DEFINE Bad == {m \in N : g[m] # f[m]}
  <2>1. SUFFICES ASSUME Bad # {} PROVE FALSE
    OBVIOUS
  <2>2. PICK m \in Bad : \A k \in Bad : m <= k
    <3>1. Bad \in SUBSET Nat
      BY <1>1
    <3> HIDE DEF Bad
    <3> QED
      BY <2>1, <3>1, LeastNumber
  <2>3. m \in N /\ g[m] # f[m] /\ g[m] = Value(g, m) /\ f[m] = Value(f, m)
    BY <1>4, <1>8, <2>2
  <2>4. ASSUME Owner(t, m) # NoNode PROVE g[Owner(t, m)] = f[Owner(t, m)]
    <3>1. PICK p : p = Owner(t, m)
      OBVIOUS
    <3>2. p \in N /\ p < m /\ p \in Nat /\ m \in Nat
      BY <1>1, <2>3, <2>4, <3>1, Owned
    <3>3. p \notin Bad
      BY <2>2, <3>2
    <3> QED
      BY <3>1, <3>2, <3>3
  <2> QED
    BY <2>3, <2>4 DEF Value
<1>10. ASSUME NEW n \in N PROVE g[n] \in Seq(N)
  <2> HIDE DEF g
  <2> QED
    BY <1>3, <1>9
<1>11. \A n \in N : /\ Enclosing(t, n) \in Seq(N)
                    /\ Enclosing(t, n) = Value(g, n)
  <2> HIDE DEF g
  <2> QED
    BY <1>8, <1>10
<1>12. ASSUME NEW n \in N, Owner(t, n) # NoNode
       PROVE  g[Owner(t, n)] = Enclosing(t, Owner(t, n))
  <2> HIDE DEF g
  <2> QED
    BY <1>8, <1>12, Owned
<1> HIDE DEF g
<1> QED
  BY <1>11, <1>12 DEF Value

\* The scopes around what a node owns.
LEMMA EnclosingChild ==
  ASSUME NEW t, IsAst(t), NEW n \in DOMAIN t, NEW c \in Range(Children(t, n))
  PROVE  Enclosing(t, c) = IF Encloses(t, n, c) THEN Append(Enclosing(t, n), n)
                           ELSE Enclosing(t, n)
<1>1. Owner(t, c) = n /\ c \in DOMAIN t /\ n # NoNode
  BY OwnerOf, OneOwner, NodesAreNumbers
<1> QED
  BY <1>1, EnclosingIs

\* Nothing is around the root.
LEMMA EnclosingRoot ==
  ASSUME NEW t, IsAst(t)
  PROVE  Enclosing(t, Root) = <<>>
<1>1. Root \in DOMAIN t
  BY NodesAreNumbers
<1> QED
  BY <1>1, RootIsNotOwned, EnclosingIs

----------------------------------------------------------------------------
(***************************************************************************)
(* The scopes are nested as the text is: each call finds the scopes open   *)
(* that its node is inside of, and leaves them so for the next call.       *)
(***************************************************************************)
\* The owners of the scopes that are open before a call, and after it with
\* everything it calls.
Before(t, call) == IF call.op = "leave"
                   THEN Append(Enclosing(t, call.node), call.node)
                   ELSE Enclosing(t, call.node)

After(t, call) == Enclosing(t, call.node)

\* The calls of a list, one after the other, lead from the open scopes a to z.
Leads(t, calls, a, z) ==
  IF calls = <<>> THEN a = z
  ELSE /\ Before(t, calls[1]) = a
       /\ \A i \in 1 .. Len(calls) - 1 : After(t, calls[i]) = Before(t, calls[i + 1])
       /\ After(t, calls[Len(calls)]) = z

OwnersOf(stack) == [i \in DOMAIN stack |-> stack[i].owner]

\* What is still to be called closes all the scopes that are open; and the
\* root is called for nothing but closing its scope.
Nested == /\ Leads(ast, todo, OwnersOf(scopes), <<>>)
          /\ \A i \in DOMAIN todo : todo[i].op # "leave" => todo[i].node # Root

\* The calls after the first start where it ends.
LEMMA LeadsTail ==
  ASSUME NEW S, NEW calls \in Seq(S), calls # <<>>, NEW t, NEW a, NEW z,
         Leads(t, calls, a, z)
  PROVE  /\ Before(t, Head(calls)) = a
         /\ Leads(t, Tail(calls), After(t, Head(calls)), z)
<1>1. PICK k \in Nat : k = Len(calls)
  BY LenProperties
<1>2. k > 0
  BY <1>1, EmptySeq
<1>3. PICK rest \in Seq(S) : rest = Tail(calls)
  BY HeadTailProperties
<1>4. /\ Len(rest) = k - 1
      /\ \A i \in 1 .. k - 1 : rest[i] = calls[i + 1]
      /\ Head(calls) = calls[1]
  BY <1>1, <1>3, HeadTailProperties
<1>5. /\ Before(t, calls[1]) = a
      /\ \A i \in 1 .. k - 1 : After(t, calls[i]) = Before(t, calls[i + 1])
      /\ After(t, calls[k]) = z
  BY <1>1 DEF Leads
<1>6. CASE k = 1
  <2>1. rest = <<>>
    BY <1>3, <1>4, <1>6, EmptySeq
  <2> QED
    BY <1>3, <1>4, <1>5, <1>6, <2>1 DEF Leads
<1>7. CASE k > 1
  <2>1. rest # <<>>
    BY <1>3, <1>4, <1>7, EmptySeq
  <2>2. rest[1] = calls[2] /\ After(t, calls[1]) = Before(t, calls[2])
    BY <1>1, <1>4, <1>5, <1>7
  <2>3. ASSUME NEW i \in 1 .. Len(rest) - 1
        PROVE  After(t, rest[i]) = Before(t, rest[i + 1])
    <3>1. /\ i + 1 \in 1 .. k - 1 /\ i \in 1 .. k - 1
      BY <1>1, <1>4, <2>3
    <3>2. rest[i] = calls[i + 1] /\ rest[i + 1] = calls[(i + 1) + 1]
      BY <1>4, <3>1
    <3> QED
      BY <1>5, <3>1, <3>2
  <2>4. rest[Len(rest)] = calls[k]
    <3>1. k - 1 \in 1 .. k - 1 /\ (k - 1) + 1 = k
      BY <1>1, <1>7
    <3> QED
      BY <1>4, <3>1
  <2> QED
    BY <1>3, <1>4, <1>5, <2>1, <2>2, <2>3, <2>4 DEF Leads
<1> QED
  BY <1>1, <1>2, <1>6, <1>7

\* Calls that lead on from where others end.
LEMMA LeadsConcat ==
  ASSUME NEW S, NEW f \in Seq(S), NEW g \in Seq(S), NEW t, NEW a, NEW b, NEW z,
         Leads(t, f, a, b), Leads(t, g, b, z)
  PROVE  Leads(t, f \o g, a, z)
<1>1. CASE f = <<>>
  <2>1. f \o g = g
    BY <1>1, ConcatEmptySeq
  <2> QED
    BY <1>1, <2>1 DEF Leads
<1>2. CASE g = <<>>
  <2>1. f \o g = f
    BY <1>2, ConcatEmptySeq
  <2> QED
    BY <1>2, <2>1 DEF Leads
<1>3. CASE f # <<>> /\ g # <<>>
  <2>1. PICK k \in Nat, l \in Nat : k = Len(f) /\ l = Len(g)
    BY LenProperties
  <2>2. k > 0 /\ l > 0
    BY <1>3, <2>1, EmptySeq
  <2>3. PICK h \in Seq(S) : h = f \o g
    BY ConcatProperties
  <2>4. /\ Len(h) = k + l
        /\ \A i \in 1 .. k + l : h[i] = IF i <= k THEN f[i] ELSE g[i - k]
    BY <2>1, <2>3, ConcatProperties
  <2>5. /\ Before(t, f[1]) = a
        /\ \A i \in 1 .. k - 1 : After(t, f[i]) = Before(t, f[i + 1])
        /\ After(t, f[k]) = b
    BY <1>3, <2>1 DEF Leads
  <2>6. /\ Before(t, g[1]) = b
        /\ \A i \in 1 .. l - 1 : After(t, g[i]) = Before(t, g[i + 1])
        /\ After(t, g[l]) = z
    BY <1>3, <2>1 DEF Leads
  <2>7. h[1] = f[1] /\ h[k + l] = g[l] /\ h # <<>>
    <3>1. /\ 1 \in 1 .. k + l /\ 1 <= k
          /\ k + l \in 1 .. k + l /\ ~ (k + l <= k) /\ (k + l) - k = l
      BY <2>2
    <3> QED
      BY <2>4, <3>1, EmptySeq
  <2>8. ASSUME NEW i \in 1 .. (k + l) - 1
        PROVE  After(t, h[i]) = Before(t, h[i + 1])
    <3>1. CASE i < k
      <4>1. h[i] = f[i] /\ h[i + 1] = f[i + 1] /\ i \in 1 .. k - 1
        BY <2>4, <3>1
      <4> QED
        BY <2>5, <4>1
    <3>2. CASE i = k
      <4>1. h[i] = f[k] /\ h[i + 1] = g[1]
        <5>1. /\ k \in 1 .. k + l /\ k <= k
              /\ k + 1 \in 1 .. k + l /\ ~ (k + 1 <= k) /\ (k + 1) - k = 1
          BY <2>2
        <5> QED
          BY <2>4, <3>2, <5>1
      <4> QED
        BY <2>5, <2>6, <4>1
    <3>3. CASE i > k
      <4>1. PICK j \in Nat : j = i - k
        BY <3>3
      <4>2. /\ j \in 1 .. l - 1 /\ i \in 1 .. k + l /\ ~ (i <= k)
            /\ i + 1 \in 1 .. k + l /\ ~ (i + 1 <= k) /\ (i + 1) - k = j + 1
        BY <3>3, <4>1
      <4>3. h[i] = g[j] /\ h[i + 1] = g[j + 1]
        BY <2>4, <4>1, <4>2
      <4> QED
        BY <2>6, <4>2, <4>3
    <3> QED
      BY <3>1, <3>2, <3>3
  <2>9. Leads(t, h, a, z)
    BY <2>4, <2>5, <2>6, <2>7, <2>8 DEF Leads
  <2> QED
    BY <2>3, <2>9
<1> QED
  BY <1>1, <1>2, <1>3

\* Calls that are all inside of the same scopes.
Level(t, calls, a) == \A i \in DOMAIN calls : /\ calls[i].op # "leave"
                                              /\ calls[i].node # Root
                                              /\ Enclosing(t, calls[i].node) = a

LEMMA LevelLeads ==
  ASSUME NEW S, NEW calls \in Seq(S), NEW t, NEW a, Level(t, calls, a)
  PROVE  Leads(t, calls, a, a)
<1>1. Len(calls) \in Nat /\ DOMAIN calls = 1 .. Len(calls)
  BY LenProperties
<1>2. ASSUME NEW i \in 1 .. Len(calls)
      PROVE  Before(t, calls[i]) = a /\ After(t, calls[i]) = a
  BY <1>1 DEF Level, Before, After
<1>3. CASE calls # <<>>
  <2>1. Len(calls) > 0
    BY <1>1, <1>3, EmptySeq
  <2>2. \A i \in 1 .. Len(calls) - 1 : i \in 1 .. Len(calls) /\ i + 1 \in 1 .. Len(calls)
    BY <1>1
  <2>3. 1 \in 1 .. Len(calls) /\ Len(calls) \in 1 .. Len(calls)
    BY <1>1, <2>1
  <2> QED
    BY <1>2, <1>3, <2>2, <2>3 DEF Leads
<1> QED
  BY <1>3 DEF Leads

(***************************************************************************)
(* The scopes are filled in phase 1, before anything is looked up.         *)
(***************************************************************************)
\* The first k members of p, and the library at the root.
Candidates(t, p, k) == {t[p].members[i] : i \in 1 .. k}
                       \cup (IF p = Root THEN {Lib} ELSE {})

\* A scope knows the first k members of its owner: of each name the one that
\* is declared, and the wildcard imports.
Filled(t, scope, k) ==
  LET p == scope.owner
  IN  /\ scope.symbols = {m \in Candidates(t, p, k) :
                            /\ nodeName(t, m) # NoName
                            /\ DeclaredIn(t, p, nodeName(t, m)) = m}
      /\ Range(scope.wild) = {m \in Candidates(t, p, k) :
                                t[m].kind = "import" /\ t[m].wildcard}

\* Of the calls, those that declare come first, and are to the nodes of ns
\* after the k-th.
Declares(calls, ns, k) ==
  /\ Len(ns) - k <= Len(calls)
  /\ \A i \in DOMAIN calls : IF i <= Len(ns) - k
                            THEN calls[i] = Do("declare", ns[k + i])
                            ELSE calls[i].op # "declare"

NoDeclares(calls) == \A i \in DOMAIN calls : calls[i].op # "declare"

\* Every open scope is complete, but the innermost: it knows as many members
\* as are not yet to be declared.
FilledWhile(t, stack, calls) ==
  IF stack = <<>> THEN NoDeclares(calls)
  ELSE /\ \A i \in 1 .. Len(stack) - 1 :
            Filled(t, stack[i], Len(t[stack[i].owner].members))
       /\ LET inner == stack[Len(stack)]
              ms    == t[inner.owner].members
          IN  \E k \in 0 .. Len(ms) : /\ Declares(calls, ms, k)
                                      /\ Filled(t, inner, k)

ScopesFilled == FilledWhile(ast, scopes, todo)

----------------------------------------------------------------------------
(***************************************************************************)
(* What a handler calls.                                                   *)
(***************************************************************************)
\* The nodes that n owns inside of its scope, and outside of it.
Inside(t, n)  == {c \in Range(Children(t, n)) : Encloses(t, n, c)}
Outside(t, n) == {c \in Range(Children(t, n)) : ~ Encloses(t, n, c)}

\* The members are inside, and so is the body of a definition; everything
\* else is outside.
LEMMA InsideOutside ==
  ASSUME NEW t, IsAst(t), NEW n \in DOMAIN t
  PROVE  /\ Range(t[n].members) \subseteq Inside(t, n)
         /\ t[n].kind = "definition" => Range(t[n].body) \subseteq Inside(t, n)
         /\ t[n].kind # "definition" => Range(t[n].body) \subseteq Outside(t, n)
         /\ Range(t[n].types) \subseteq Outside(t, n)
         /\ Range(t[n].specializes) \subseteq Outside(t, n)
         /\ Range(t[n].redefines) \subseteq Outside(t, n)
         /\ Range(t[n].ends) \subseteq Outside(t, n)
         /\ Range(t[n].links) \subseteq Outside(t, n)
         /\ Range(t[n].targets) \subseteq Outside(t, n)
         /\ Range(t[n].value) \subseteq Outside(t, n)
         /\ Range(t[n].args) \subseteq Outside(t, n)
<1>1. PICK m, y, s, r, e, l, g, v, b, a :
        /\ m = Range(t[n].members) /\ y = Range(t[n].types)
        /\ s = Range(t[n].specializes) /\ r = Range(t[n].redefines)
        /\ e = Range(t[n].ends) /\ l = Range(t[n].links)
        /\ g = Range(t[n].targets) /\ v = Range(t[n].value)
        /\ b = Range(t[n].body) /\ a = Range(t[n].args)
  OBVIOUS
<1>2. PICK all : all = Range(Children(t, n))
  OBVIOUS
<1>3. /\ all = m \cup y \cup s \cup r \cup e \cup l \cup g \cup v \cup b \cup a
      /\ m \cap (y \cup s \cup r \cup e \cup l \cup g \cup v \cup b \cup a) = {}
      /\ y \cap (s \cup r \cup e \cup l \cup g \cup v \cup b \cup a) = {}
      /\ s \cap (r \cup e \cup l \cup g \cup v \cup b \cup a) = {}
      /\ r \cap (e \cup l \cup g \cup v \cup b \cup a) = {}
      /\ e \cap (l \cup g \cup v \cup b \cup a) = {}
      /\ l \cap (g \cup v \cup b \cup a) = {}
      /\ g \cap (v \cup b \cup a) = {}
      /\ v \cap (b \cup a) = {}
      /\ b \cap a = {}
  <2>1. Apart(t, n)
    BY ListsApart
  <2> QED
    BY <1>1, <1>2, <2>1, ZenonT(30) DEF Apart
<1>4. \A c \in y \cup s \cup r \cup e \cup l \cup g \cup v \cup a :
        c \in all /\ c \notin m /\ c \notin b
  BY <1>3
<1>5. m \subseteq all /\ b \subseteq all /\ m \cap b = {}
  BY <1>3
<1>6. /\ Inside(t, n) = {c \in all : c \in m \/ (t[n].kind = "definition" /\ c \in b)}
      /\ Outside(t, n) = {c \in all : ~ (c \in m \/ (t[n].kind = "definition" /\ c \in b))}
  BY <1>1, <1>2 DEF Inside, Outside, Encloses
<1>7. /\ m \subseteq Inside(t, n)
      /\ t[n].kind = "definition" => b \subseteq Inside(t, n)
      /\ t[n].kind # "definition" => b \subseteq Outside(t, n)
  BY <1>5, <1>6
<1>8. \A c \in y \cup s \cup r \cup e \cup l \cup g \cup v \cup a : c \in Outside(t, n)
  BY <1>4, <1>6
<1> QED
  BY <1>1, <1>7, <1>8

\* No child is the root, and the scopes around it are known.
LEMMA InsideOutsideScopes ==
  ASSUME NEW t, IsAst(t), NEW n \in DOMAIN t
  PROVE  /\ \A c \in Inside(t, n) : /\ c \in DOMAIN t /\ c # Root
                                    /\ Enclosing(t, c) = Append(Enclosing(t, n), n)
         /\ \A c \in Outside(t, n) : /\ c \in DOMAIN t /\ c # Root
                                     /\ Enclosing(t, c) = Enclosing(t, n)
<1>1. \A c \in Range(Children(t, n)) : c \in DOMAIN t /\ c # Root
  BY OneOwner, OwnerOf, RootIsNotOwned, NodesAreNumbers
<1> QED
  BY <1>1, EnclosingChild DEF Inside, Outside

\* Calls to some nodes, none of which opens, fills or closes a scope.
LooksUp(calls, ns) == \A i \in DOMAIN calls : /\ calls[i].op \in {"visit", "ref", "redef", "expr"}
                                              /\ calls[i].node \in ns

LEMMA DoAllIs ==
  ASSUME NEW N, NEW ns \in Seq(N), NEW op
  PROVE  /\ Len(DoAll(op, ns)) = Len(ns)
         /\ DOMAIN DoAll(op, ns) = 1 .. Len(ns)
         /\ DOMAIN ns = 1 .. Len(ns)
         /\ Len(ns) \in Nat
         /\ \A i \in 1 .. Len(ns) : /\ ns[i] \in Range(ns)
                                    /\ DoAll(op, ns)[i] = Do(op, ns[i])
                                    /\ DoAll(op, ns)[i].op = op
                                    /\ DoAll(op, ns)[i].node = ns[i]
<1>1. DOMAIN ns = 1 .. Len(ns) /\ Len(ns) \in Nat
  BY LenProperties
<1>2. DoAll(op, ns) = [i \in 1 .. Len(ns) |-> Do(op, ns[i])]
  BY <1>1 DEF DoAll
<1>3. \A n : Do(op, n).op = op /\ Do(op, n).node = n
  BY DEF Do, DoIn
<1> QED
  BY <1>1, <1>2, <1>3 DEF Range

LEMMA DoAllLooksUp ==
  ASSUME NEW N, NEW ns \in Seq(N), NEW op \in {"visit", "ref", "redef", "expr"}, NEW S,
         Range(ns) \subseteq S
  PROVE  LooksUp(DoAll(op, ns), S)
BY DoAllIs DEF LooksUp

LEMMA ConcatLooksUp ==
  ASSUME NEW f \in Work, NEW g \in Work, NEW S, LooksUp(f, S), LooksUp(g, S)
  PROVE  f \o g \in Work /\ LooksUp(f \o g, S)
<1>1. /\ f \o g \in Work
      /\ Len(f \o g) = Len(f) + Len(g)
      /\ \A i \in 1 .. Len(f) + Len(g) :
           (f \o g)[i] = IF i <= Len(f) THEN f[i] ELSE g[i - Len(f)]
  BY ConcatProperties DEF Work
<1>2. PICK h \in Work : h = f \o g
  BY <1>1
<1>3. /\ Len(f) \in Nat /\ DOMAIN f = 1 .. Len(f)
      /\ Len(g) \in Nat /\ DOMAIN g = 1 .. Len(g)
      /\ DOMAIN h = 1 .. Len(f) + Len(g)
  BY <1>1, <1>2, LenProperties DEF Work
<1>4. ASSUME NEW i \in DOMAIN h
      PROVE  h[i].op \in {"visit", "ref", "redef", "expr"} /\ h[i].node \in S
  <2>1. CASE i <= Len(f)
    <3>1. h[i] = f[i] /\ i \in DOMAIN f
      BY <1>1, <1>2, <1>3, <2>1
    <3> QED
      BY <3>1 DEF LooksUp
  <2>2. CASE i > Len(f)
    <3>1. h[i] = g[i - Len(f)] /\ i - Len(f) \in DOMAIN g
      BY <1>1, <1>2, <1>3, <2>2
    <3> QED
      BY <3>1 DEF LooksUp
  <2> QED
    BY <1>3, <2>1, <2>2
<1> QED
  BY <1>1, <1>2, <1>4 DEF LooksUp

\* resolveNode looks up what stands outside of the node's scope, and then
\* may open the scope.
LEMMA CallsOfIs ==
  ASSUME ast \in Programs, NEW n \in Nodes
  PROVE  \E f \in Work : /\ LooksUp(f, Outside(ast, n))
                         /\ CallsOf(n) = f \/ CallsOf(n) = f \o <<Do("enter", n)>>
<1> DEFINE Fine(f) == f \in Work /\ LooksUp(f, Outside(ast, n))
           Good(f) == Fine(f) \/ \E g : Fine(g) /\ f = g \o <<Do("enter", n)>>
           header == DoAll("ref", ast[n].types)
                     \o DoAll("ref", ast[n].specializes)
                     \o DoAll("redef", ast[n].redefines)
           inner == IF ast[n].members # <<>>
                    THEN <<Do("enter", n)>> ELSE <<>>
           targets == [i \in DOMAIN ast[n].targets |->
                         Do(IF ast[ast[n].targets[i]].kind = "qname"
                            THEN "ref" ELSE "visit", ast[n].targets[i])]
           k == ast[n].kind
<1>1. IsAst(ast) /\ n \in DOMAIN ast
  BY ProgramsAssumption DEF Nodes
<1>2. ASSUME NEW f, NEW g, Fine(f), Fine(g)
      PROVE  Fine(f \o g)
  BY <1>2, ConcatLooksUp
<1>3. ASSUME NEW op \in {"visit", "ref", "redef", "expr"}
      PROVE  /\ Fine(DoAll(op, ast[n].types))
             /\ Fine(DoAll(op, ast[n].specializes))
             /\ Fine(DoAll(op, ast[n].redefines))
             /\ Fine(DoAll(op, ast[n].ends))
             /\ Fine(DoAll(op, ast[n].links))
             /\ Fine(DoAll(op, ast[n].value))
             /\ k # "definition" => Fine(DoAll(op, ast[n].body))
  <2>1. op \in Ops
    BY DEF Ops
  <2> DEFINE Listed(ns) == ns \in Seq(Nodes) /\ Range(ns) \subseteq Outside(ast, n)
  <2>2. ASSUME NEW ns, Listed(ns)
        PROVE  Fine(DoAll(op, ns))
    BY <2>1, <2>2, DoAllType, DoAllLooksUp DEF Work
  <2>3. /\ Listed(ast[n].types) /\ Listed(ast[n].specializes)
        /\ Listed(ast[n].redefines) /\ Listed(ast[n].ends)
        /\ Listed(ast[n].links) /\ Listed(ast[n].value)
        /\ k # "definition" => Listed(ast[n].body)
    BY <1>1, InsideOutside, ListTypes
  <2> HIDE DEF Fine, Listed
  <2> QED
    BY <2>2, <2>3
<1>4. Fine(<<>>)
  BY DEF Work, LooksUp
<1>5. Fine(targets)
  <2>1. targets \in Work
    BY TargetCallsType
  <2>2. ASSUME NEW i \in DOMAIN targets
        PROVE  /\ targets[i].op \in {"visit", "ref", "redef", "expr"}
               /\ targets[i].node \in Outside(ast, n)
    <3>1. /\ targets[i].op \in {"visit", "ref", "redef", "expr"}
          /\ targets[i].node = ast[n].targets[i]
          /\ i \in DOMAIN ast[n].targets
      BY DEF Do, DoIn
    <3>2. ast[n].targets[i] \in Range(ast[n].targets)
      BY <3>1 DEF Range
    <3>3. Range(ast[n].targets) \subseteq Outside(ast, n)
      BY <1>1, InsideOutside
    <3> QED
      BY <3>1, <3>2, <3>3
  <2> QED
    BY <2>1, <2>2 DEF LooksUp
<1> HIDE DEF Fine, targets
<1>6. Fine(header)
  BY <1>2, <1>3
<1> HIDE DEF header
<1>7. ASSUME NEW f, Fine(f)
      PROVE  Good(f \o inner) /\ Good(f \o <<Do("enter", n)>>) /\ Good(f)
  <2>1. f \o <<>> = f
    BY <1>7, ConcatEmptySeq DEF Fine, Work
  <2> QED
    BY <1>7, <2>1
<1> HIDE DEF inner
<1>8. Good(header \o DoAll("ref", ast[n].ends) \o DoAll("expr", ast[n].value)
           \o DoAll("expr", ast[n].body) \o inner) \/ k = "definition"
  <2>1. Fine(header \o DoAll("ref", ast[n].ends))
    BY <1>2, <1>3, <1>6
  <2>2. Fine(header \o DoAll("ref", ast[n].ends) \o DoAll("expr", ast[n].value))
    BY <1>2, <1>3, <2>1
  <2>3. k # "definition" =>
          Fine(header \o DoAll("ref", ast[n].ends) \o DoAll("expr", ast[n].value)
               \o DoAll("expr", ast[n].body))
    BY <1>2, <1>3, <2>2
  <2> QED
    BY <1>7, <2>3
<1>9. Good(header \o DoAll("expr", ast[n].value))
  BY <1>2, <1>3, <1>6
<1>10. Good(DoAll("ref", ast[n].links)) /\ Good(<<>>)
  BY <1>3, <1>4
<1>11. Good(DoAll("ref", ast[n].links) \o DoAll("expr", ast[n].value))
  BY <1>2, <1>3
<1>12. Good(DoAll("ref", ast[n].links) \o targets)
  BY <1>2, <1>3, <1>5
<1>13. Good(header \o <<Do("enter", n)>>) /\ Good(<<Do("enter", n)>>)
  <2>1. <<>> \o <<Do("enter", n)>> = <<Do("enter", n)>>
    OBVIOUS
  <2> QED
    BY <1>4, <1>6, <1>7, <2>1
<1>14. CallsOf(n) =
         CASE k = "package"    -> <<Do("enter", n)>>
           [] k = "definition" -> header \o <<Do("enter", n)>>
           [] k = "usage"      -> header \o DoAll("ref", ast[n].ends)
                                  \o DoAll("expr", ast[n].value)
                                  \o DoAll("expr", ast[n].body) \o inner
           [] k = "attribute"  -> header \o DoAll("expr", ast[n].value)
           [] k = "return"     -> header \o DoAll("expr", ast[n].value)
           [] k \in {"alias", "comment", "dependency", "lifecycle"}
                               -> DoAll("ref", ast[n].links)
           [] k = "transition" -> DoAll("ref", ast[n].links)
                                  \o DoAll("expr", ast[n].value)
           [] k = "succession" -> DoAll("ref", ast[n].links) \o targets
           [] OTHER            -> <<>>
  BY DEF CallsOf, header, inner, targets
<1> HIDE DEF k, Good
<1>15. Good(CallsOf(n))
  BY <1>8, <1>9, <1>10, <1>11, <1>12, <1>13, <1>14
<1> QED
  BY <1>15 DEF Good, Fine

----------------------------------------------------------------------------
(***************************************************************************)
(* The nesting is kept.                                                    *)
(***************************************************************************)
\* The tree stays, and the program it was made from is well-formed.
LEMMA TreeIsAst ==
  ASSUME TypeOK
  PROVE  IsAst(ast) /\ todo \in Work /\ Nodes = DOMAIN ast
BY ProgramsAssumption DEF TypeOK, Work, Nodes

\* Calls that lead from the open scopes to where the call that makes them
\* was to lead.
LEMMA ThenNested ==
  ASSUME TypeOK, Nested, todo # <<>>, ast' = ast, NEW calls \in Work, Then(calls),
         Leads(ast, calls, OwnersOf(scopes'), Enclosing(ast, Head(todo).node)),
         \A i \in DOMAIN calls : calls[i].op # "leave" => calls[i].node # Root
  PROVE  Nested'
<1>a. PICK rest \in Work : rest = Tail(todo)
  BY TreeIsAst, HeadTailProperties DEF Work
<1>b. PICK after \in Work : after = calls \o rest
  BY Concat
<1>c. PICK t, open : t = ast /\ open = OwnersOf(scopes')
  OBVIOUS
<1>1. t = ast /\ rest = Tail(todo) /\ after = calls \o rest /\ open = OwnersOf(scopes')
  BY <1>a, <1>b, <1>c
<1>2. todo' = after /\ t = ast'
  BY <1>1 DEF Then
<1>3. Leads(t, after, open, <<>>)
  <2>1. PICK z : z = Enclosing(t, Head(todo).node)
    OBVIOUS
  <2>2. Leads(t, rest, z, <<>>)
    BY <1>1, <2>1, LeadsTail, TreeIsAst DEF Nested, Work, After
  <2>3. Leads(t, calls, open, z)
    BY <1>1, <2>1
  <2> QED
    BY <1>1, <2>2, <2>3, LeadsConcat DEF Work
<1>4. ASSUME NEW i \in DOMAIN after, after[i].op # "leave"
      PROVE  after[i].node # Root
  <2>1. /\ Len(calls) \in Nat /\ DOMAIN calls = 1 .. Len(calls)
        /\ Len(rest) \in Nat /\ DOMAIN rest = 1 .. Len(rest)
        /\ Len(todo) \in Nat /\ DOMAIN todo = 1 .. Len(todo)
        /\ DOMAIN after = 1 .. Len(after)
    BY LenProperties, TreeIsAst DEF Work
  <2>2. /\ Len(after) = Len(calls) + Len(rest)
        /\ \A j \in 1 .. Len(calls) + Len(rest) :
             after[j] = IF j <= Len(calls) THEN calls[j] ELSE rest[j - Len(calls)]
    BY <1>1, ConcatProperties DEF Work
  <2>3. Len(rest) = Len(todo) - 1 /\ \A j \in 1 .. Len(rest) : rest[j] = todo[j + 1]
    BY <1>1, HeadTailProperties, TreeIsAst DEF Work
  <2>4. CASE i <= Len(calls)
    BY <1>4, <2>1, <2>2, <2>4
  <2>5. CASE i > Len(calls)
    <3>1. PICK j \in 1 .. Len(rest) : j = i - Len(calls)
      BY <2>1, <2>2, <2>5
    <3>2. after[i] = todo[j + 1] /\ j + 1 \in DOMAIN todo
      BY <2>1, <2>2, <2>3, <2>5, <3>1
    <3> QED
      BY <1>4, <3>2 DEF Nested
  <2> QED
    BY <2>1, <2>4, <2>5
<1> QED
  BY <1>1, <1>2, <1>3, <1>4 DEF Nested, OwnersOf

\* What is changed in the innermost scope is not its owner.
LEMMA SameOwners ==
  ASSUME TypeOK, NEW x,
         \/ scopes' = scopes
         \/ scopes' = [scopes EXCEPT ![Len(scopes)].symbols = x]
         \/ scopes' = [scopes EXCEPT ![Len(scopes)].wild = x]
  PROVE  OwnersOf(scopes') = OwnersOf(scopes)
<1>1. DOMAIN scopes = 1 .. Len(scopes) /\ \A i \in DOMAIN scopes : scopes[i] \in Scope(Nodes)
  BY LenProperties, ElementOfSeq DEF TypeOK
<1>2. PICK stack : stack = scopes'
  OBVIOUS
<1>3. DOMAIN stack = DOMAIN scopes
  BY <1>2
<1>4. ASSUME NEW i \in DOMAIN scopes PROVE stack[i].owner = scopes[i].owner
  <2>1. DOMAIN scopes[i] = {"owner", "symbols", "wild"}
    BY <1>1 DEF Scope
  <2>2. \/ stack[i] = scopes[i]
        \/ stack[i] = [scopes[i] EXCEPT !.symbols = x]
        \/ stack[i] = [scopes[i] EXCEPT !.wild = x]
    BY <1>2
  <2> QED
    BY <2>1, <2>2
<1>5. OwnersOf(stack) = OwnersOf(scopes)
  BY <1>3, <1>4 DEF OwnersOf
<1> QED
  BY <1>2, <1>5

\* The innermost scopes before a step are those the call is inside of.
LEMMA NestedHead ==
  ASSUME TypeOK, Nested, todo # <<>>
  PROVE  /\ Head(todo) \in Item(Ops, Nodes)
         /\ OwnersOf(scopes) = Before(ast, Head(todo))
         /\ Head(todo).op # "leave" => Head(todo).node # Root
<1>1. Head(todo) \in Item(Ops, Nodes) /\ 1 \in DOMAIN todo /\ Head(todo) = todo[1]
  <2>1. todo \in Seq(Item(Ops, Nodes))
    BY DEF TypeOK
  <2>2. Len(todo) \in Nat /\ DOMAIN todo = 1 .. Len(todo) /\ Len(todo) # 0
    BY <2>1, LenProperties, EmptySeq
  <2> QED
    BY <2>1, <2>2, HeadTailProperties
<1>2. Before(ast, Head(todo)) = OwnersOf(scopes)
  BY LeadsTail DEF Nested, TypeOK
<1> QED
  BY <1>1, <1>2 DEF Nested

\* A step that calls nothing and leaves the owners of the scopes alone.
LEMMA ReturnNested ==
  ASSUME TypeOK, Nested, todo # <<>>, ast' = ast, Then(<<>>),
         Head(todo).op # "leave", OwnersOf(scopes') = OwnersOf(scopes)
  PROVE  Nested'
<1>1. <<>> \in Work /\ DOMAIN <<>> = {}
  BY DEF Work
<1>2. Leads(ast, <<>>, OwnersOf(scopes'), Enclosing(ast, Head(todo).node))
  BY NestedHead DEF Leads, Before
<1> QED
  BY <1>1, <1>2, ThenNested

\* A step that looks up what is outside of n's scope.
LEMMA LookUpNested ==
  ASSUME TypeOK, Nested, NEW n \in Nodes, todo # <<>>, Head(todo).node = n,
         Head(todo).op # "leave", ast' = ast, scopes' = scopes,
         NEW f \in Work, LooksUp(f, Outside(ast, n)),
         NEW calls, calls = f \/ calls = f \o <<Do("enter", n)>>, Then(calls)
  PROVE  Nested'
<1>1. PICK a : a = Enclosing(ast, n)
  OBVIOUS
<1>2. n # Root /\ OwnersOf(scopes') = a
  BY <1>1, NestedHead DEF Before
<1>3. Level(ast, f, a)
  BY <1>1, TreeIsAst, InsideOutsideScopes DEF LooksUp, Level
<1>4. PICK e \in Work : e = <<Do("enter", n)>>
  BY DoType DEF Work, Ops
<1>5. Level(ast, e, a)
  <2>1. DOMAIN e = {1} /\ e[1].op = "enter" /\ e[1].node = n
    BY <1>4 DEF Do, DoIn
  <2> QED
    BY <1>1, <1>2, <2>1 DEF Level
<1>6. Leads(ast, f, a, a) /\ Leads(ast, e, a, a)
  BY <1>3, <1>5, LevelLeads DEF Work
<1>7. calls \in Work /\ Leads(ast, calls, a, a)
  <2>1. f \o e \in Work
    BY Concat
  <2>2. Leads(ast, f \o e, a, a)
    BY <1>6, LeadsConcat DEF Work
  <2> QED
    BY <1>4, <1>6, <2>1, <2>2
<1>8. ASSUME NEW i \in DOMAIN calls PROVE calls[i].node # Root
  <2>1. CASE calls = f
    BY <1>3, <2>1 DEF Level
  <2>2. CASE calls = f \o e
    <3>1. Range(calls) = Range(f) \cup Range(e)
      BY <2>2, RangeConcat DEF Work
    <3>2. calls[i] \in Range(f) \cup Range(e)
      BY <3>1 DEF Range
    <3> QED
      BY <1>3, <1>5, <3>2 DEF Level, Range
  <2> QED
    BY <1>4, <2>1, <2>2
<1> QED
  BY <1>1, <1>2, <1>7, <1>8, ThenNested

\* The scopes are nested when the walk starts.
LEMMA InitNested == Init => Nested
<1> SUFFICES ASSUME Init PROVE Nested
  OBVIOUS
<1>1. TypeOK /\ IsAst(ast) /\ Root \in DOMAIN ast
  BY InitType, TreeIsAst, NodesAreNumbers
<1>2. PICK a : a = <<Root>>
  OBVIOUS
<1>3. OwnersOf(scopes) = a
  <2>1. scopes = <<RootScope>> /\ RootScope.owner = Root
    BY DEF Init, RootScope, NewScope
  <2> QED
    BY <1>2, <2>1 DEF OwnersOf
<1>4. PICK d, v, e : /\ d = DoAll("declare", ast[Root].members)
                     /\ v = DoAll("visit", ast[Root].members)
                     /\ e = <<Do("leave", Root)>>
  OBVIOUS
<1>5. d \in Work /\ v \in Work /\ e \in Work
  BY <1>1, <1>4, ListTypes, DoAllType, DoType DEF Ops, Work, Init, Nodes
<1>6. Append(Enclosing(ast, Root), Root) = a
  <2>1. Enclosing(ast, Root) = <<>>
    BY <1>1, EnclosingRoot
  <2>2. Append(<<>>, Root) = <<Root>>
    OBVIOUS
  <2> QED
    BY <1>2, <2>1, <2>2
<1>7. \A c \in Range(ast[Root].members) : c # Root /\ Enclosing(ast, c) = a
  BY <1>1, <1>6, InsideOutside, InsideOutsideScopes
<1>8. Level(ast, d, a) /\ Level(ast, v, a)
  <2>1. ast[Root].members \in Seq(Nodes)
    BY <1>1, AstLists DEF Nodes
  <2> QED
    BY <1>4, <1>7, <2>1, DoAllIs DEF Level
<1>9. Leads(ast, d, a, a) /\ Leads(ast, v, a, a)
  BY <1>5, <1>8, LevelLeads DEF Work
<1>10. Leads(ast, e, a, <<>>)
  <2>1. e # <<>> /\ Len(e) = 1 /\ e[1].op = "leave" /\ e[1].node = Root
    BY <1>4 DEF Do, DoIn
  <2> QED
    BY <1>1, <1>6, <2>1, EnclosingRoot DEF Leads, Before, After
<1>11. PICK f \in Work : f = d \o v /\ Leads(ast, f, a, a)
  <2>1. d \o v \in Work
    BY <1>5, Concat
  <2>2. Leads(ast, d \o v, a, a)
    BY <1>5, <1>9, LeadsConcat DEF Work
  <2> QED
    BY <2>1, <2>2
<1>12. todo = f \o e /\ Leads(ast, todo, a, <<>>)
  <2>1. todo = f \o e
    BY <1>4, <1>11 DEF Init, RootCalls
  <2> QED
    BY <1>5, <1>10, <1>11, <2>1, LeadsConcat DEF Work
<1>13. ASSUME NEW i \in DOMAIN todo, todo[i].op # "leave" PROVE todo[i].node # Root
  <2>1. /\ Len(f) \in Nat /\ DOMAIN f = 1 .. Len(f) /\ Len(f) = Len(d) + Len(v)
        /\ Len(d) \in Nat /\ DOMAIN d = 1 .. Len(d)
        /\ Len(v) \in Nat /\ DOMAIN v = 1 .. Len(v)
        /\ Len(e) = 1 /\ DOMAIN todo = 1 .. Len(todo)
        /\ Len(todo) = Len(f) + Len(e)
    BY <1>1, <1>4, <1>5, <1>11, <1>12, LenProperties, ConcatProperties DEF Work, TypeOK
  <2>2. /\ \A j \in 1 .. Len(f) + Len(e) :
             todo[j] = IF j <= Len(f) THEN f[j] ELSE e[j - Len(f)]
        /\ \A j \in 1 .. Len(d) + Len(v) :
             f[j] = IF j <= Len(d) THEN d[j] ELSE v[j - Len(d)]
    BY <1>5, <1>11, <1>12, ConcatProperties DEF Work
  <2>3. CASE i <= Len(d)
    <3>1. todo[i] = d[i] /\ i \in DOMAIN d
      BY <1>13, <2>1, <2>2, <2>3
    <3> QED
      BY <1>8, <3>1 DEF Level
  <2>4. CASE i > Len(d) /\ i <= Len(f)
    <3>1. todo[i] = v[i - Len(d)] /\ i - Len(d) \in DOMAIN v
      BY <1>13, <2>1, <2>2, <2>4
    <3> QED
      BY <1>8, <3>1 DEF Level
  <2>5. CASE i > Len(f)
    <3>1. todo[i] = e[1]
      <4>1. i - Len(f) = 1 /\ ~ (i <= Len(f)) /\ i \in 1 .. Len(f) + Len(e)
        BY <1>13, <2>1, <2>5
      <4> QED
        BY <2>2, <4>1
    <3> QED
      BY <1>4, <1>13, <3>1 DEF Do, DoIn
  <2> QED
    BY <1>13, <2>1, <2>3, <2>4, <2>5
<1> QED
  BY <1>3, <1>12, <1>13 DEF Nested

\* Opening n's scope: what is called then is inside of it, and closes it.
LEMMA EnterNested ==
  ASSUME TypeOK, Nested, NEW n \in Nodes, Enter(n)
  PROVE  Nested'
<1>1. IsAst(ast) /\ n \in DOMAIN ast /\ ast \in Programs /\ todo # <<>> /\ ast' = ast
      /\ Head(todo).node = n /\ Head(todo).op = "enter"
  BY TreeIsAst DEF Enter, Calls, Nodes, TypeOK
<1>2. PICK a, z : a = Append(Enclosing(ast, n), n) /\ z = Enclosing(ast, n)
  OBVIOUS
<1>3. PICK d, v, b, e : /\ d = DoAll("declare", ast[n].members)
                        /\ v = DoAll("visit", ast[n].members)
                        /\ b = IF ast[n].kind = "definition"
                               THEN DoAll("expr", ast[n].body) ELSE <<>>
                        /\ e = <<Do("leave", n)>>
  OBVIOUS
<1>4. d \in Work /\ v \in Work /\ b \in Work /\ e \in Work
  <2>1. <<>> \in Work
    BY DEF Work
  <2> QED
    BY <1>1, <1>3, <2>1, ListTypes, DoAllType, DoType DEF Ops, Work
<1>5. \A c \in Inside(ast, n) : c # Root /\ Enclosing(ast, c) = a
  BY <1>1, <1>2, InsideOutsideScopes
<1>6. Level(ast, d, a) /\ Level(ast, v, a) /\ Level(ast, b, a)
  <2>1. ASSUME NEW ns \in Seq(Nodes), Range(ns) \subseteq Inside(ast, n), NEW op, op # "leave"
        PROVE  Level(ast, DoAll(op, ns), a)
    BY <1>5, <2>1, DoAllIs DEF Level
  <2>2. Level(ast, <<>>, a)
    BY DEF Level
  <2> QED
    BY <1>1, <1>3, <2>1, <2>2, AstLists, InsideOutside DEF Nodes
<1>7. Leads(ast, d, a, a) /\ Leads(ast, v, a, a) /\ Leads(ast, b, a, a)
  BY <1>4, <1>6, LevelLeads DEF Work
<1>8. Leads(ast, e, a, z)
  <2>1. e # <<>> /\ Len(e) = 1 /\ e[1].op = "leave" /\ e[1].node = n
    BY <1>3 DEF Do, DoIn
  <2> QED
    BY <1>2, <2>1 DEF Leads, Before, After
<1>9. PICK f \in Work : f = d \o v
  BY <1>4, Concat
<1>10. PICK g \in Work : g = f \o b
  BY <1>4, Concat
<1>11. PICK h \in Work : h = g \o e
  BY <1>4, Concat
<1>12. Leads(ast, f, a, a)
  BY <1>4, <1>7, <1>9, LeadsConcat DEF Work
<1>13. Leads(ast, g, a, a)
  BY <1>4, <1>7, <1>10, <1>12, LeadsConcat DEF Work
<1>14. Leads(ast, h, a, z)
  BY <1>4, <1>8, <1>11, <1>13, LeadsConcat DEF Work
<1>15. Then(h)
  BY <1>3, <1>9, <1>10, <1>11 DEF Enter
<1>16. ASSUME NEW i \in DOMAIN h, h[i].op # "leave" PROVE h[i].node # Root
  <2>1. Range(h) = Range(d) \cup Range(v) \cup Range(b) \cup Range(e)
    <3>1. Range(f) = Range(d) \cup Range(v)
      BY <1>4, <1>9, RangeConcat DEF Work
    <3>2. Range(g) = Range(f) \cup Range(b)
      BY <1>4, <1>10, RangeConcat DEF Work
    <3>3. Range(h) = Range(g) \cup Range(e)
      BY <1>4, <1>11, RangeConcat DEF Work
    <3> QED
      BY <3>1, <3>2, <3>3
  <2>2. h[i] \in Range(d) \cup Range(v) \cup Range(b) \cup Range(e)
    BY <2>1 DEF Range
  <2>3. h[i] \notin Range(e)
    BY <1>3, <1>16 DEF Range, Do, DoIn
  <2> QED
    BY <1>6, <2>2, <2>3 DEF Level, Range
<1>17. OwnersOf(scopes') = a
  <2>1. OwnersOf(scopes) = z
    BY <1>1, <1>2, NestedHead DEF Before
  <2>2. scopes' = Append(scopes, NewScope(n)) /\ NewScope(n).owner = n
    BY DEF Enter, NewScope
  <2>3. Len(scopes) \in Nat /\ DOMAIN scopes = 1 .. Len(scopes)
    BY LenProperties DEF TypeOK
  <2>4. PICK stack : stack = scopes'
    OBVIOUS
  <2>5. /\ DOMAIN stack = 1 .. Len(scopes) + 1
        /\ \A i \in 1 .. Len(scopes) : stack[i] = scopes[i]
        /\ stack[Len(scopes) + 1].owner = n
    BY <2>2, <2>3, <2>4, AppendProperties DEF TypeOK
  <2>6. /\ z \in Seq(Nodes) /\ Len(z) = Len(scopes)
        /\ \A i \in 1 .. Len(scopes) : z[i] = scopes[i].owner
    <3>1. z \in Seq(Nodes)
      BY <1>1, <1>2, EnclosingIs DEF Nodes
    <3>2. DOMAIN z = 1 .. Len(scopes) /\ DOMAIN z = 1 .. Len(z) /\ Len(z) \in Nat
      BY <2>1, <2>3, <3>1, LenProperties DEF OwnersOf
    <3> QED
      BY <2>1, <2>3, <3>1, <3>2 DEF OwnersOf
  <2>7. /\ a \in Seq(Nodes) /\ Len(a) = Len(scopes) + 1
        /\ \A i \in 1 .. Len(scopes) : a[i] = scopes[i].owner
        /\ a[Len(scopes) + 1] = n
    BY <1>2, <2>6, AppendProperties
  <2>8. DOMAIN a = 1 .. Len(scopes) + 1 /\ a = [i \in 1 .. Len(scopes) + 1 |-> a[i]]
    BY <2>7
  <2>9. ASSUME NEW i \in 1 .. Len(scopes) + 1 PROVE stack[i].owner = a[i]
    <3>1. CASE i = Len(scopes) + 1
      BY <2>5, <2>7, <3>1
    <3>2. CASE i # Len(scopes) + 1
      <4>1. i \in 1 .. Len(scopes)
        BY <2>3, <3>2
      <4> QED
        BY <2>5, <2>7, <4>1
    <3> QED
      BY <3>1, <3>2
  <2> QED
    BY <2>4, <2>5, <2>8, <2>9 DEF OwnersOf
<1> QED
  BY <1>1, <1>2, <1>14, <1>15, <1>16, <1>17, ThenNested

\* Closing n's scope.
LEMMA LeaveNested ==
  ASSUME TypeOK, Nested, NEW n \in Nodes, Leave(n)
  PROVE  Nested'
<1>1. IsAst(ast) /\ n \in DOMAIN ast /\ todo # <<>> /\ ast' = ast
      /\ Head(todo).node = n /\ Head(todo).op = "leave" /\ Then(<<>>)
  BY TreeIsAst DEF Leave, Calls, Nodes
<1>2. PICK z \in Seq(Nodes) : z = Enclosing(ast, n)
  BY <1>1, EnclosingIs DEF Nodes
<1>3. OwnersOf(scopes) = Append(z, n)
  BY <1>1, <1>2, NestedHead DEF Before
<1>4. Len(scopes) \in Nat /\ DOMAIN scopes = 1 .. Len(scopes)
  BY LenProperties DEF TypeOK
<1>5. PICK a : a = Append(z, n)
  OBVIOUS
<1>6. /\ a \in Seq(Nodes) /\ Len(a) = Len(z) + 1 /\ Len(z) \in Nat
      /\ \A i \in 1 .. Len(z) : a[i] = z[i]
  BY <1>5, AppendProperties, LenProperties
<1>7. Len(scopes) = Len(z) + 1 /\ \A i \in 1 .. Len(z) : scopes[i].owner = z[i]
  <2>1. DOMAIN a = 1 .. Len(scopes) /\ \A i \in 1 .. Len(scopes) : a[i] = scopes[i].owner
    BY <1>3, <1>4, <1>5 DEF OwnersOf
  <2>2. DOMAIN a = 1 .. Len(a) /\ Len(a) \in Nat
    BY <1>6, LenProperties
  <2>3. Len(scopes) = Len(a)
    BY <1>4, <2>1, <2>2
  <2>4. \A i \in 1 .. Len(z) : i \in 1 .. Len(scopes)
    BY <1>6, <2>3
  <2>5. \A i \in 1 .. Len(z) : scopes[i].owner = z[i]
    BY <1>6, <2>1, <2>4
  <2> QED
    BY <1>6, <2>3, <2>5
<1>8. PICK stack : stack = scopes'
  OBVIOUS
<1>9. DOMAIN stack = 1 .. Len(z) /\ \A i \in 1 .. Len(z) : stack[i] = scopes[i]
  <2>1. stack = SubSeq(scopes, 1, Len(scopes) - 1)
    BY <1>8 DEF Leave, Front
  <2>2. stack = [i \in 1 .. Len(z) |-> scopes[i]]
    BY <1>6, <1>7, <2>1
  <2> QED
    BY <2>2
<1>10. OwnersOf(stack) = z
  <2>1. z = [i \in 1 .. Len(z) |-> z[i]]
    BY <1>6
  <2> QED
    BY <1>7, <1>9, <2>1 DEF OwnersOf
<1>11. <<>> \in Work /\ DOMAIN <<>> = {}
  BY DEF Work
<1>12. Leads(ast, <<>>, OwnersOf(scopes'), Enclosing(ast, Head(todo).node))
  BY <1>1, <1>2, <1>8, <1>10 DEF Leads
<1> QED
  BY <1>1, <1>11, <1>12, ThenNested

\* Every step keeps the nesting.
LEMMA StepNested == TypeOK /\ Nested /\ [Next]_vars => Nested'
<1> SUFFICES ASSUME TypeOK, Nested, [Next]_vars
             PROVE  Nested'
  OBVIOUS
<1>0. CASE UNCHANGED vars
  BY <1>0 DEF vars, Nested, OwnersOf
<1>1. CASE Finished
  BY <1>0, <1>1 DEF Finished
<1>2. ASSUME NEW n \in Nodes, DeclareImport(n)
      PROVE  Nested'
  <2>1. OwnersOf(scopes') = OwnersOf(scopes)
    <3>1. PICK x : x = Append(scopes[Len(scopes)].wild, n)
      OBVIOUS
    <3>2. scopes' = scopes \/ scopes' = [scopes EXCEPT ![Len(scopes)].wild = x]
      BY <1>2, <3>1 DEF DeclareImport
    <3> QED
      BY <3>2, SameOwners
  <2> QED
    BY <1>2, <2>1, ReturnNested DEF DeclareImport, Calls
<1>3. ASSUME NEW n \in Nodes, DeclareName(n)
      PROVE  Nested'
  <2>1. OwnersOf(scopes') = OwnersOf(scopes)
    <3>1. PICK x : x = scopes[Len(scopes)].symbols \cup {n}
      OBVIOUS
    <3>2. scopes' = scopes \/ scopes' = [scopes EXCEPT ![Len(scopes)].symbols = x]
      BY <1>3, <3>1 DEF DeclareName
    <3> QED
      BY <3>2, SameOwners
  <2> QED
    BY <1>3, <2>1, ReturnNested DEF DeclareName, Calls
<1>4. ASSUME NEW n \in Nodes, Visit(n)
      PROVE  Nested'
  <2>1. PICK f \in Work : /\ LooksUp(f, Outside(ast, n))
                          /\ CallsOf(n) = f \/ CallsOf(n) = f \o <<Do("enter", n)>>
    BY CallsOfIs DEF TypeOK
  <2> QED
    BY <1>4, <2>1, LookUpNested DEF Visit, Calls
<1>5. ASSUME NEW n \in Nodes, Descend(n)
      PROVE  Nested'
  <2>1. PICK f \in Work : f = DoAll("expr", ast[n].args)
    BY ListTypes, DoAllType DEF Ops, Work, TypeOK
  <2>2. LooksUp(f, Outside(ast, n))
    <3>1. IsAst(ast) /\ n \in DOMAIN ast
      BY TreeIsAst
    <3> QED
      BY <2>1, <3>1, AstLists, InsideOutside, DoAllLooksUp
  <2> QED
    BY <1>5, <2>1, <2>2, LookUpNested DEF Descend, Calls
<1>6. ASSUME NEW n \in Nodes, SkipRedefinition(n) \/ Resolve(n)
      PROVE  Nested'
  <2>1. /\ todo # <<>> /\ ast' = ast /\ Then(<<>>) /\ Head(todo).op # "leave"
        /\ scopes' = scopes
    BY <1>6 DEF SkipRedefinition, Resolve, Calls
  <2> QED
    BY <2>1, ReturnNested
<1> QED
  BY <1>0, <1>1, <1>2, <1>3, <1>4, <1>5, <1>6, EnterNested, LeaveNested, CurrentType
     DEF Next, Step

----------------------------------------------------------------------------
(***************************************************************************)
(* What a body declares.                                                   *)
(***************************************************************************)
\* The member called x of a declaration is the first that has the name.
LEMMA DirectMemberIs ==
  ASSUME NEW t, IsAst(t), NEW c \in DOMAIN t, NEW x
  PROVE  LET ms == t[c].members
             first(i) == /\ nodeName(t, ms[i]) = x
                         /\ \A j \in 1 .. i - 1 : nodeName(t, ms[j]) # x
         IN  \/ /\ DirectMember(t, c, x) = NoNode
                /\ \A i \in 1 .. Len(ms) : nodeName(t, ms[i]) # x
             \/ \E i \in 1 .. Len(ms) : DirectMember(t, c, x) = ms[i] /\ first(i)
<1> DEFINE ms == t[c].members
           Find(m) == IF nodeName(t, m) = x THEN m ELSE NoNode
           found == {<<i, Find(ms[i])>> : i \in DOMAIN ms}
           hits == {h \in found : h[2] # NoNode}
           called == {i \in 1 .. Len(ms) : nodeName(t, ms[i]) = x}
           least(h) == \A k \in hits : h[1] <= k[1]
<1>1. /\ Len(ms) \in Nat /\ DOMAIN ms = 1 .. Len(ms)
      /\ \A i \in 1 .. Len(ms) : ms[i] \in DOMAIN t /\ ms[i] # NoNode
  BY AstLists, NodesAreNumbers, LenProperties, ElementOfSeq
<1>2. DirectMember(t, c, x) =
        IF hits = {} THEN NoNode ELSE (CHOOSE h \in hits : least(h))[2]
  BY Zenon DEF DirectMember, FirstFound
<1>3. /\ \A i \in called : <<i, ms[i]>> \in hits
      /\ \A h \in hits : h[1] \in called /\ h = <<h[1], ms[h[1]]>>
  BY <1>1
<1>4. called \in SUBSET Nat
  BY <1>1
<1> HIDE DEF ms, hits, called, least
<1>5. CASE called = {}
  <2>1. hits = {}
    BY <1>3, <1>5
  <2> QED
    BY <1>2, <1>5, <2>1 DEF called, ms
<1>6. CASE called # {}
  <2>1. PICK i \in called : \A j \in called : i <= j
    BY <1>4, <1>6, LeastNumber
  <2>2. <<i, ms[i]>> \in hits /\ least(<<i, ms[i]>>)
    <3>1. \A k \in hits : i <= k[1]
      BY <1>3, <2>1
    <3> QED
      BY <1>3, <2>1, <3>1 DEF least
  <2>3. PICK h \in hits : h = (CHOOSE g \in hits : least(g)) /\ least(h)
    BY <2>2, Zenon
  <2>4. h[1] = i
    <3>1. h[1] <= i /\ i <= h[1] /\ h[1] \in Nat /\ i \in Nat
      BY <1>3, <1>4, <2>1, <2>2, <2>3 DEF least
    <3> QED
      BY <3>1
  <2>5. DirectMember(t, c, x) = ms[i]
    BY <1>2, <1>3, <2>2, <2>3, <2>4
  <2>6. i \in 1 .. Len(ms) /\ nodeName(t, ms[i]) = x
    BY <2>1 DEF called
  <2>7. \A j \in 1 .. i - 1 : nodeName(t, ms[j]) # x
    <3> SUFFICES ASSUME NEW j \in 1 .. i - 1, nodeName(t, ms[j]) = x
                 PROVE  FALSE
      OBVIOUS
    <3>1. j \in 1 .. Len(ms)
      BY <1>1, <2>6 DEF ms
    <3>2. j \in called
      BY <3>1 DEF called
    <3> QED
      BY <2>1, <2>6, <3>2
  <2> QED
    BY <2>5, <2>6, <2>7 DEF ms
<1> QED
  BY <1>5, <1>6

----------------------------------------------------------------------------
(***************************************************************************)
(* Phase 1 goes through the members in order.                              *)
(***************************************************************************)
\* The first call, if it declares, is to the first member still to declare.
LEMMA DeclaresHead ==
  ASSUME NEW S, NEW calls \in Seq(S), calls # <<>>, NEW N, NEW ns \in Seq(N),
         NEW k \in 0 .. Len(ns), Declares(calls, ns, k)
  PROVE  IF Head(calls).op = "declare"
         THEN /\ k + 1 \in 1 .. Len(ns)
              /\ Head(calls) = Do("declare", ns[k + 1])
              /\ Declares(Tail(calls), ns, k + 1)
         ELSE k = Len(ns) /\ NoDeclares(Tail(calls))
<1>1. PICK l \in Nat, m \in Nat : l = Len(calls) /\ m = Len(ns) - k
  <2>1. Len(calls) \in Nat /\ Len(ns) \in Nat
    BY LenProperties
  <2>2. Len(ns) - k \in Nat
    BY <2>1
  <2> QED
    BY <2>1, <2>2
<1>2. PICK rest \in Seq(S) : rest = Tail(calls)
  BY HeadTailProperties
<1>3. /\ DOMAIN calls = 1 .. l /\ l > 0 /\ Len(ns) \in Nat
      /\ DOMAIN rest = 1 .. l - 1 /\ Len(rest) = l - 1
      /\ \A i \in 1 .. l - 1 : rest[i] = calls[i + 1]
      /\ Head(calls) = calls[1]
  BY <1>1, <1>2, HeadTailProperties, LenProperties, EmptySeq
<1>4. /\ m <= l
      /\ \A i \in 1 .. l : IF i <= m THEN calls[i] = Do("declare", ns[k + i])
                           ELSE calls[i].op # "declare"
  BY <1>1, <1>3 DEF Declares
<1>5. 1 \in 1 .. l
  BY <1>1, <1>3
<1>6. CASE m = 0
  <2>1. Head(calls).op # "declare"
    BY <1>3, <1>4, <1>5, <1>6
  <2>2. \A i \in 1 .. l - 1 : rest[i].op # "declare"
    <3> SUFFICES ASSUME NEW i \in 1 .. l - 1 PROVE rest[i].op # "declare"
      OBVIOUS
    <3>1. i + 1 \in 1 .. l /\ ~ (i + 1 <= m)
      BY <1>1, <1>6
    <3> QED
      BY <1>3, <1>4, <3>1
  <2>3. k = Len(ns)
    BY <1>1, <1>3, <1>6
  <2> QED
    BY <1>2, <1>3, <2>1, <2>2, <2>3 DEF NoDeclares
<1>7. CASE m > 0
  <2>1. Head(calls) = Do("declare", ns[k + 1]) /\ Head(calls).op = "declare"
    <3>1. 1 <= m
      BY <1>1, <1>7
    <3> QED
      BY <1>3, <1>4, <1>5, <3>1 DEF Do, DoIn
  <2>2. k + 1 \in 1 .. Len(ns)
    BY <1>1, <1>3, <1>7
  <2>3. ASSUME NEW i \in 1 .. l - 1
        PROVE  IF i <= Len(ns) - (k + 1) THEN rest[i] = Do("declare", ns[(k + 1) + i])
               ELSE rest[i].op # "declare"
    <3>1. /\ i + 1 \in 1 .. l
          /\ i + 1 <= m <=> i <= Len(ns) - (k + 1)
          /\ k + (i + 1) = (k + 1) + i
      BY <1>1, <1>3
    <3> QED
      BY <1>3, <1>4, <3>1
  <2>4. Len(ns) - (k + 1) <= Len(rest)
    BY <1>1, <1>3, <1>4
  <2>5. Declares(rest, ns, k + 1)
    BY <1>3, <2>3, <2>4 DEF Declares
  <2> QED
    BY <1>2, <2>1, <2>2, <2>5
<1> QED
  BY <1>1, <1>6, <1>7

\* No call declares when all members are declared.
LEMMA DeclaresNone ==
  ASSUME NEW S, NEW calls \in Seq(S), NEW N, NEW ns \in Seq(N)
  PROVE  Declares(calls, ns, Len(ns)) <=> NoDeclares(calls)
<1>1. /\ Len(ns) \in Nat /\ Len(calls) \in Nat /\ Len(ns) - Len(ns) = 0
      /\ DOMAIN calls = 1 .. Len(calls)
      /\ \A i \in DOMAIN calls : ~ (i <= 0)
  BY LenProperties
<1> QED
  BY <1>1 DEF Declares, NoDeclares

LEMMA NoDeclaresConcat ==
  ASSUME NEW S, NEW f \in Seq(S), NEW g \in Seq(S), NoDeclares(f), NoDeclares(g)
  PROVE  NoDeclares(f \o g)
<1>1. Range(f \o g) = Range(f) \cup Range(g)
  BY RangeConcat
<1>2. \A i \in DOMAIN (f \o g) : (f \o g)[i] \in Range(f) \cup Range(g)
  BY <1>1 DEF Range
<1>3. \A r \in Range(f) \cup Range(g) : r.op # "declare"
  BY DEF NoDeclares, Range
<1> QED
  BY <1>2, <1>3 DEF NoDeclares

\* A scope that is opened has all its members still to declare.
LEMMA DeclaresAll ==
  ASSUME NEW N, NEW S, NEW ns \in Seq(N), NEW g \in Seq(S), NoDeclares(g),
         DoAll("declare", ns) \in Seq(S)
  PROVE  Declares(DoAll("declare", ns) \o g, ns, 0)
<1>1. PICK f \in Seq(S) : f = DoAll("declare", ns)
  OBVIOUS
<1>2. /\ Len(f) = Len(ns) /\ Len(ns) \in Nat
      /\ \A i \in 1 .. Len(ns) : f[i] = Do("declare", ns[i])
  BY <1>1, DoAllIs
<1>3. PICK h \in Seq(S) : h = f \o g
  BY ConcatProperties
<1>4. /\ Len(h) = Len(f) + Len(g) /\ Len(g) \in Nat
      /\ DOMAIN h = 1 .. Len(f) + Len(g) /\ DOMAIN g = 1 .. Len(g)
      /\ \A i \in 1 .. Len(f) + Len(g) : h[i] = IF i <= Len(f) THEN f[i] ELSE g[i - Len(f)]
  BY <1>3, ConcatProperties, LenProperties
<1>5. ASSUME NEW i \in DOMAIN h
      PROVE  IF i <= Len(ns) - 0 THEN h[i] = Do("declare", ns[0 + i])
             ELSE h[i].op # "declare"
  <2>1. CASE i <= Len(ns)
    <3>1. i \in 1 .. Len(ns) /\ 0 + i = i /\ i <= Len(ns) - 0
      BY <1>2, <1>4, <2>1
    <3>2. h[i] = f[i] /\ f[i] = Do("declare", ns[i])
      BY <1>2, <1>4, <3>1
    <3> QED
      BY <3>1, <3>2
  <2>2. CASE ~ (i <= Len(ns))
    <3>1. i - Len(f) \in DOMAIN g /\ ~ (i <= Len(ns) - 0) /\ h[i] = g[i - Len(f)]
      BY <1>2, <1>4, <2>2
    <3> QED
      BY <3>1 DEF NoDeclares
  <2> QED
    BY <2>1, <2>2
<1>6. Len(ns) - 0 <= Len(h)
  BY <1>2, <1>4
<1> QED
  BY <1>1, <1>3, <1>5, <1>6 DEF Declares

----------------------------------------------------------------------------
(***************************************************************************)
(* One more member is declared.                                            *)
(***************************************************************************)
\* The candidates after one more member.
LEMMA OneMoreCandidate ==
  ASSUME NEW t, IsAst(t), NEW p \in DOMAIN t, NEW k \in Nat,
         k + 1 \in 1 .. Len(t[p].members), NEW n, n = t[p].members[k + 1]
  PROVE  /\ n \in DOMAIN t
         /\ n \notin Candidates(t, p, k)
         /\ Candidates(t, p, k + 1) = Candidates(t, p, k) \cup {n}
         /\ Candidates(t, p, k) \subseteq DOMAIN t
<1>1. PICK ms : ms = t[p].members
  OBVIOUS
<1>2. /\ Len(ms) \in Nat /\ DOMAIN ms = 1 .. Len(ms)
      /\ \A i \in 1 .. Len(ms) : ms[i] \in DOMAIN t
      /\ \A i, j \in 1 .. Len(ms) : ms[i] = ms[j] => i = j
  <2>1. ms \in Seq(DOMAIN t)
    BY <1>1, AstLists
  <2>2. IsInjective(ms)
    BY <1>1, ListsApart, Zenon DEF Apart
  <2>3. Len(ms) \in Nat /\ DOMAIN ms = 1 .. Len(ms)
    BY <2>1, LenProperties
  <2> QED
    BY <2>1, <2>2, <2>3, ElementOfSeq DEF IsInjective
<1>3. \A i \in 1 .. Len(ms) : ms[i] # Lib
  <2>1. \A i \in 1 .. Len(ms) : ms[i] \in Range(t[p].members)
    BY <1>1, <1>2 DEF Range
  <2>2. Range(t[p].members) \subseteq Range(Children(t, p))
    BY InsideOutside DEF Inside
  <2> QED
    BY <2>1, <2>2 DEF IsAst
<1>4. \A i \in 1 .. k : i \in 1 .. Len(ms) /\ i # k + 1
  BY <1>1, <1>2
<1>5. n \notin Candidates(t, p, k)
  BY <1>1, <1>2, <1>3, <1>4 DEF Candidates
<1>6. Candidates(t, p, k + 1) = Candidates(t, p, k) \cup {n}
  <2>1. 1 .. k + 1 = 1 .. k \cup {k + 1}
    OBVIOUS
  <2>2. {ms[i] : i \in 1 .. k + 1} = {ms[i] : i \in 1 .. k} \cup {n}
    BY <1>1, <2>1
  <2> QED
    BY <1>1, <2>2 DEF Candidates
<1>7. Candidates(t, p, k) \subseteq DOMAIN t
  BY <1>1, <1>2, <1>4, NodesAreNumbers DEF Candidates
<1> QED
  BY <1>1, <1>2, <1>5, <1>6, <1>7

\* A member that is not what its name is declared as comes after that.
LEMMA DeclaredBefore ==
  ASSUME NEW t, IsAst(t), NEW p \in DOMAIN t, NEW k \in Nat,
         k + 1 \in 1 .. Len(t[p].members), NEW n, n = t[p].members[k + 1],
         NEW x, x = nodeName(t, n), x # NoName, DeclaredIn(t, p, x) # n
  PROVE  /\ DeclaredIn(t, p, x) \in Candidates(t, p, k)
         /\ nodeName(t, DeclaredIn(t, p, x)) = x
<1>1. PICK ms : ms = t[p].members
  OBVIOUS
<1>2. CASE p = Root /\ x = t[Lib].name
  <2>1. DeclaredIn(t, p, x) = Lib
    BY <1>2 DEF DeclaredIn
  <2>2. nodeName(t, Lib) = x
    BY <1>2 DEF IsAst, nodeName, NamingKinds
  <2> QED
    BY <1>2, <2>1, <2>2 DEF Candidates
<1>3. CASE ~ (p = Root /\ x = t[Lib].name)
  <2>1. DeclaredIn(t, p, x) = DirectMember(t, p, x)
    BY <1>3 DEF DeclaredIn
  <2>2. PICK i \in 1 .. Len(ms) : /\ DirectMember(t, p, x) = ms[i]
                                  /\ nodeName(t, ms[i]) = x
                                  /\ \A j \in 1 .. i - 1 : nodeName(t, ms[j]) # x
    BY <1>1, DirectMemberIs
  <2>3. i \in 1 .. k
    <3>1. k + 1 \notin 1 .. i - 1
      BY <1>1, <2>2
    <3>2. i # k + 1
      BY <1>1, <2>1, <2>2
    <3> QED
      BY <3>1, <3>2
  <2> QED
    BY <1>1, <2>1, <2>2, <2>3 DEF Candidates
<1> QED
  BY <1>2, <1>3

\* What a scope filled so far knows by a name.
LEMMA LocalIs ==
  ASSUME NEW scope, NEW k, Filled(ast, scope, k), NEW x, x # NoName
  PROVE  LET d == DeclaredIn(ast, scope.owner, x)
         IN  lookupLocal(scope, x) =
               IF d \in Candidates(ast, scope.owner, k) /\ nodeName(ast, d) = x
               THEN d ELSE NoNode
<1> DEFINE p == scope.owner
           d == DeclaredIn(ast, p, x)
           known == {m \in scope.symbols : nodeName(ast, m) = x}
           fits == d \in Candidates(ast, p, k) /\ nodeName(ast, d) = x
<1>1. scope.symbols = {m \in Candidates(ast, p, k) :
                         /\ nodeName(ast, m) # NoName
                         /\ DeclaredIn(ast, p, nodeName(ast, m)) = m}
  BY DEF Filled
<1>2. known = IF fits THEN {d} ELSE {}
  BY <1>1
<1>3. lookupLocal(scope, x) = IF known = {} THEN NoNode ELSE CHOOSE m \in known : TRUE
  BY DEF lookupLocal
<1> HIDE DEF known, d
<1> QED
  BY <1>2, <1>3 DEF d

\* A member is the first of its name if the scope does not know the name yet.
LEMMA FirstOfName ==
  ASSUME TypeOK, NEW scope \in Scope(Nodes), NEW k \in Nat, Filled(ast, scope, k),
         k + 1 \in 1 .. Len(ast[scope.owner].members),
         NEW n, n = ast[scope.owner].members[k + 1],
         NEW x, x = nodeName(ast, n)
  PROVE  (x # NoName /\ lookupLocal(scope, x) = NoNode)
           <=> (x # NoName /\ DeclaredIn(ast, scope.owner, x) = n)
<1>1. PICK p, cands : p = scope.owner /\ cands = Candidates(ast, p, k)
  OBVIOUS
<1>2. IsAst(ast) /\ p \in DOMAIN ast
  BY <1>1, TreeIsAst DEF Scope, Nodes
<1>3. /\ n \notin cands /\ n \in DOMAIN ast
      /\ cands \subseteq DOMAIN ast
  BY <1>1, <1>2, OneMoreCandidate
<1>4. CASE x = NoName
  BY <1>4
<1>5. CASE x # NoName
  <2>1. PICK d : d = DeclaredIn(ast, p, x)
    OBVIOUS
  <2>2. lookupLocal(scope, x) = IF d \in cands /\ nodeName(ast, d) = x THEN d ELSE NoNode
    BY <1>1, <1>5, <2>1, LocalIs
  <2>3. CASE d = n
    BY <1>1, <1>3, <2>1, <2>2, <2>3
  <2>4. CASE d # n
    <3>1. d \in cands /\ nodeName(ast, d) = x
      BY <1>1, <1>2, <1>5, <2>1, <2>4, DeclaredBefore
    <3>2. d # NoNode
      BY <1>2, <1>3, <3>1, NodesAreNumbers
    <3> QED
      BY <1>1, <2>1, <2>2, <2>4, <3>1, <3>2
  <2> QED
    BY <2>3, <2>4
<1> QED
  BY <1>4, <1>5

\* A member that is not an import is known from then on if it is what its
\* name is declared as.
LEMMA NameFills ==
  ASSUME TypeOK, NEW scope \in Scope(Nodes), NEW k \in Nat, Filled(ast, scope, k),
         k + 1 \in 1 .. Len(ast[scope.owner].members),
         NEW n, n = ast[scope.owner].members[k + 1], ast[n].kind # "import",
         NEW after,
         after = IF nodeName(ast, n) # NoName /\ lookupLocal(scope, nodeName(ast, n)) = NoNode
                 THEN [scope EXCEPT !.symbols = @ \cup {n}] ELSE scope
  PROVE  Filled(ast, after, k + 1)
<1>1. PICK p, x, cands : p = scope.owner /\ x = nodeName(ast, n) /\ cands = Candidates(ast, p, k)
  OBVIOUS
<1>2. IsAst(ast) /\ p \in DOMAIN ast
  BY <1>1, TreeIsAst DEF Scope, Nodes
<1>3. /\ n \notin cands /\ n \in DOMAIN ast
      /\ Candidates(ast, p, k + 1) = cands \cup {n}
      /\ cands \subseteq DOMAIN ast
  BY <1>1, <1>2, OneMoreCandidate
<1>4. /\ after.owner = p
      /\ after.wild = scope.wild
      /\ after.symbols = IF x # NoName /\ lookupLocal(scope, x) = NoNode
                         THEN scope.symbols \cup {n} ELSE scope.symbols
  BY <1>1 DEF Scope
<1>5. /\ scope.symbols = {m \in cands : /\ nodeName(ast, m) # NoName
                                        /\ DeclaredIn(ast, p, nodeName(ast, m)) = m}
      /\ Range(scope.wild) = {m \in cands : ast[m].kind = "import" /\ ast[m].wildcard}
  BY <1>1 DEF Filled
<1>6. (x # NoName /\ lookupLocal(scope, x) = NoNode)
        <=> (x # NoName /\ DeclaredIn(ast, p, x) = n)
  BY <1>1, FirstOfName
<1>7. after.symbols = {m \in cands \cup {n} : /\ nodeName(ast, m) # NoName
                                              /\ DeclaredIn(ast, p, nodeName(ast, m)) = m}
  BY <1>1, <1>3, <1>4, <1>5, <1>6
<1>8. Range(after.wild) = {m \in cands \cup {n} : ast[m].kind = "import" /\ ast[m].wildcard}
  BY <1>4, <1>5
<1> QED
  BY <1>1, <1>3, <1>4, <1>7, <1>8 DEF Filled

\* An import is known from then on if it is a wildcard.
LEMMA ImportFills ==
  ASSUME TypeOK, NEW scope \in Scope(Nodes), NEW k \in Nat, Filled(ast, scope, k),
         k + 1 \in 1 .. Len(ast[scope.owner].members),
         NEW n, n = ast[scope.owner].members[k + 1], ast[n].kind = "import",
         NEW after,
         after = IF ast[n].wildcard THEN [scope EXCEPT !.wild = Append(@, n)] ELSE scope
  PROVE  Filled(ast, after, k + 1)
<1>1. PICK p, cands : p = scope.owner /\ cands = Candidates(ast, p, k)
  OBVIOUS
<1>2. IsAst(ast) /\ p \in DOMAIN ast
  BY <1>1, TreeIsAst DEF Scope, Nodes
<1>3. /\ n \notin cands /\ n \in DOMAIN ast
      /\ Candidates(ast, p, k + 1) = cands \cup {n}
      /\ cands \subseteq DOMAIN ast
  BY <1>1, <1>2, OneMoreCandidate
<1>4. /\ after.owner = p
      /\ after.symbols = scope.symbols
      /\ after.wild = IF ast[n].wildcard THEN Append(scope.wild, n) ELSE scope.wild
  BY <1>1 DEF Scope
<1>5. /\ scope.symbols = {m \in cands : /\ nodeName(ast, m) # NoName
                                        /\ DeclaredIn(ast, p, nodeName(ast, m)) = m}
      /\ Range(scope.wild) = {m \in cands : ast[m].kind = "import" /\ ast[m].wildcard}
  BY <1>1 DEF Filled
<1>6. nodeName(ast, n) = NoName
  BY DEF nodeName, NamingKinds
<1>7. after.symbols = {m \in cands \cup {n} : /\ nodeName(ast, m) # NoName
                                              /\ DeclaredIn(ast, p, nodeName(ast, m)) = m}
  BY <1>4, <1>5, <1>6
<1>8. Range(Append(scope.wild, n)) = Range(scope.wild) \cup {n}
  <2>1. scope.wild \in Seq(Nodes) /\ n \in Nodes
    BY <1>3 DEF Scope, Nodes
  <2>2. PICK w \in Seq(Nodes) : w = scope.wild
    BY <2>1
  <2> QED
    BY <2>1, <2>2, RangeAppend
<1>9. Range(after.wild) = {m \in cands \cup {n} : ast[m].kind = "import" /\ ast[m].wildcard}
  BY <1>3, <1>4, <1>5, <1>8
<1> QED
  BY <1>1, <1>3, <1>4, <1>7, <1>9 DEF Filled

----------------------------------------------------------------------------
(***************************************************************************)
(* The scopes stay filled.                                                 *)
(***************************************************************************)
\* A call to declare is to the next member of the innermost scope's owner;
\* every other call finds all scopes complete.
LEMMA FilledHead ==
  ASSUME TypeOK, ScopesFilled, todo # <<>>
  PROVE  /\ Tail(todo) \in Work
         /\ IF Head(todo).op = "declare"
            THEN /\ scopes # <<>>
                 /\ LET ms == ast[Inner.owner].members
                    IN  \E k \in 0 .. Len(ms) : /\ k + 1 \in 1 .. Len(ms)
                                                /\ Head(todo) = Do("declare", ms[k + 1])
                                                /\ Declares(Tail(todo), ms, k + 1)
                                                /\ Filled(ast, Inner, k)
            ELSE /\ NoDeclares(Tail(todo))
                 /\ \A i \in DOMAIN scopes :
                      Filled(ast, scopes[i], Len(ast[scopes[i].owner].members))
<1>1. todo \in Work /\ Tail(todo) \in Work
  BY TreeIsAst, HeadTailProperties DEF Work
<1>2. CASE scopes = <<>>
  <2>1. NoDeclares(todo)
    BY <1>2 DEF ScopesFilled, FilledWhile
  <2>2. Range(Tail(todo)) \subseteq Range(todo) /\ Head(todo) \in Range(todo)
    <3>1. Range(todo) = {Head(todo)} \cup Range(Tail(todo))
      BY <1>1, RangeHeadTail DEF Work
    <3> QED
      BY <3>1
  <2>3. \A call \in Range(todo) : call.op # "declare"
    BY <2>1 DEF NoDeclares, Range
  <2>4. NoDeclares(Tail(todo)) /\ Head(todo).op # "declare"
    BY <2>2, <2>3 DEF NoDeclares, Range
  <2> QED
    BY <1>1, <1>2, <2>4
<1>3. CASE scopes # <<>>
  <2>1. PICK ms : ms = ast[Inner.owner].members
    OBVIOUS
  <2>2. ms \in Seq(Nodes)
    BY <1>3, <2>1, InnerType, TreeIsAst, AstLists DEF Scope
  <2>3. PICK k \in 0 .. Len(ms) : Declares(todo, ms, k) /\ Filled(ast, Inner, k)
    BY <1>3, <2>1 DEF ScopesFilled, FilledWhile, Inner
  <2>4. IF Head(todo).op = "declare"
        THEN /\ k + 1 \in 1 .. Len(ms)
             /\ Head(todo) = Do("declare", ms[k + 1])
             /\ Declares(Tail(todo), ms, k + 1)
        ELSE k = Len(ms) /\ NoDeclares(Tail(todo))
    BY <1>1, <2>2, <2>3, DeclaresHead DEF Work
  <2>5. ASSUME k = Len(ms), NEW i \in DOMAIN scopes
        PROVE  Filled(ast, scopes[i], Len(ast[scopes[i].owner].members))
    <3>1. Len(scopes) \in Nat /\ DOMAIN scopes = 1 .. Len(scopes)
      BY LenProperties DEF TypeOK
    <3>2. CASE i = Len(scopes)
      BY <2>1, <2>3, <2>5, <3>2 DEF Inner
    <3>3. CASE i # Len(scopes)
      <4>1. i \in 1 .. Len(scopes) - 1
        BY <3>1, <3>3
      <4> QED
        BY <1>3, <4>1 DEF ScopesFilled, FilledWhile
    <3> QED
      BY <3>2, <3>3
  <2> QED
    BY <1>1, <1>3, <2>1, <2>3, <2>4, <2>5
<1> QED
  BY <1>2, <1>3

\* A step that declares the next member.
LEMMA DeclareFilled ==
  ASSUME TypeOK, ScopesFilled, todo # <<>>, Head(todo).op = "declare",
         ast' = ast, Then(<<>>), NEW after, after.owner = Inner.owner,
         scopes' = [scopes EXCEPT ![Len(scopes)] = after],
         \A k \in Nat : LET ms == ast[Inner.owner].members
                        IN  /\ k + 1 \in 1 .. Len(ms)
                            /\ Head(todo).node = ms[k + 1]
                            /\ Filled(ast, Inner, k)
                            => Filled(ast, after, k + 1)
  PROVE  ScopesFilled'
<1>0. PICK ms, t, rest, stack :
        /\ ms = ast[Inner.owner].members /\ t = ast /\ rest = Tail(todo)
        /\ stack = scopes'
  OBVIOUS
<1>00. PICK l \in Nat : l = Len(scopes)
  BY LenProperties DEF TypeOK
<1>1. /\ ms = ast[Inner.owner].members /\ t = ast /\ rest = Tail(todo)
      /\ stack = scopes' /\ l = Len(scopes)
  BY <1>0, <1>00
<1>2. PICK k \in 0 .. Len(ms) : /\ k + 1 \in 1 .. Len(ms)
                                /\ Head(todo) = Do("declare", ms[k + 1])
                                /\ Declares(rest, ms, k + 1)
                                /\ Filled(t, Inner, k)
  BY <1>1, FilledHead
<1>3. Filled(t, after, k + 1)
  <2>1. k \in Nat /\ Head(todo).node = ms[k + 1]
    BY <1>2 DEF Do, DoIn
  <2> QED
    BY <1>1, <1>2, <2>1
<1>4. scopes # <<>> /\ DOMAIN scopes = 1 .. l /\ l > 0
  BY <1>1, FilledHead, LenProperties, EmptySeq DEF TypeOK
<1>5. /\ DOMAIN stack = 1 .. l /\ Len(stack) = l /\ stack # <<>>
      /\ stack[l] = after
      /\ \A i \in 1 .. l - 1 : stack[i] = scopes[i]
  <2>1. stack = [i \in 1 .. l |-> IF i = l THEN after ELSE scopes[i]]
    BY <1>1, <1>4
  <2> QED
    BY <1>4, <2>1
<1>6. \A i \in 1 .. l - 1 : Filled(t, scopes[i], Len(t[scopes[i].owner].members))
  BY <1>1, <1>4 DEF ScopesFilled, FilledWhile
<1>7. k + 1 \in 0 .. Len(ms)
  BY <1>2
<1>8. FilledWhile(t, stack, rest)
  BY <1>1, <1>2, <1>3, <1>5, <1>6, <1>7 DEF FilledWhile
<1>9. todo' = rest
  <2>1. <<>> \o rest = rest
    BY <1>1, FilledHead, ConcatEmptySeq DEF Work
  <2> QED
    BY <1>1, <2>1 DEF Then
<1> QED
  BY <1>1, <1>8, <1>9 DEF ScopesFilled

\* All scopes that are open are complete.
Complete(t, stack) == \A i \in DOMAIN stack :
                        Filled(t, stack[i], Len(t[stack[i].owner].members))

LEMMA CompleteIsFilled ==
  ASSUME NEW t, IsAst(t), NEW stack \in Seq(Scope(DOMAIN t)), Complete(t, stack),
         NEW S, NEW calls \in Seq(S), NoDeclares(calls)
  PROVE  FilledWhile(t, stack, calls)
<1>1. CASE stack = <<>>
  BY <1>1 DEF FilledWhile
<1>2. CASE stack # <<>>
  <2>1. PICK l \in Nat : l = Len(stack)
    BY LenProperties
  <2>2. DOMAIN stack = 1 .. l /\ l > 0 /\ l \in 1 .. l /\ stack[l] \in Scope(DOMAIN t)
    BY <1>2, <2>1, LenProperties, EmptySeq, ElementOfSeq
  <2>3. PICK ms \in Seq(DOMAIN t) : ms = t[stack[l].owner].members
    <3>1. stack[l].owner \in DOMAIN t
      BY <2>2 DEF Scope
    <3> QED
      BY <3>1, AstLists
  <2>4. Declares(calls, ms, Len(ms)) /\ Len(ms) \in 0 .. Len(ms)
    BY DeclaresNone, LenProperties
  <2>5. Filled(t, stack[l], Len(ms))
    BY <2>2, <2>3 DEF Complete
  <2>6. \A i \in 1 .. l - 1 : Filled(t, stack[i], Len(t[stack[i].owner].members))
    <3>1. \A i \in 1 .. l - 1 : i \in DOMAIN stack
      BY <2>1, <2>2
    <3> QED
      BY <3>1 DEF Complete
  <2> QED
    BY <1>2, <2>1, <2>3, <2>4, <2>5, <2>6 DEF FilledWhile
<1> QED
  BY <1>1, <1>2

\* A step that leaves only scopes that were open, and calls nothing that
\* declares.
LEMMA LookUpFilled ==
  ASSUME TypeOK, ScopesFilled, todo # <<>>, Head(todo).op # "declare",
         ast' = ast, NEW calls \in Work, Then(calls), NoDeclares(calls),
         scopes' \in Seq(Scope(Nodes)), \A i \in DOMAIN scopes' : i \in DOMAIN scopes /\ scopes'[i] = scopes[i]
  PROVE  ScopesFilled'
<1>1. PICK t, stack, rest : t = ast /\ stack = scopes' /\ rest = calls \o Tail(todo)
  OBVIOUS
<1>2. Tail(todo) \in Work /\ NoDeclares(Tail(todo)) /\ Complete(t, scopes)
  BY <1>1, FilledHead DEF Complete
<1>3. rest \in Work /\ NoDeclares(rest)
  BY <1>1, <1>2, Concat, NoDeclaresConcat DEF Work
<1>4. IsAst(t) /\ stack \in Seq(Scope(DOMAIN t)) /\ Complete(t, stack)
  BY <1>1, <1>2, TreeIsAst DEF Complete
<1>5. FilledWhile(t, stack, rest)
  BY <1>3, <1>4, CompleteIsFilled DEF Work
<1> QED
  BY <1>1, <1>5 DEF ScopesFilled, Then

\* Five lists of calls, one after the other; the provers are not shown what
\* Cat is while they regroup it.
Cat(a, b) == a \o b

LEMMA CatIsAssociative ==
  ASSUME NEW a \in Work, NEW b \in Work, NEW c \in Work
  PROVE  Cat(Cat(a, b), c) = Cat(a, Cat(b, c))
<1>1. PICK S : S = Item(Ops, Nodes)
  OBVIOUS
<1>2. a \in Seq(S) /\ b \in Seq(S) /\ c \in Seq(S)
  BY <1>1 DEF Work
<1> QED
  BY <1>2 DEF Cat

LEMMA ConcatWork ==
  ASSUME NEW d \in Work, NEW v \in Work, NEW b \in Work, NEW e \in Work,
         NEW w \in Work
  PROVE  Cat(Cat(Cat(Cat(d, v), b), e), w) = Cat(d, Cat(v, Cat(b, Cat(e, w))))
<1>1. /\ Cat(Cat(d, v), b) \in Work /\ Cat(d, v) \in Work
      /\ Cat(e, w) \in Work /\ Cat(b, Cat(e, w)) \in Work
  BY Concat DEF Cat
<1> QED
  BY <1>1, CatIsAssociative

\* Opening a scope: nothing is declared in it yet.
LEMMA EnterFilled ==
  ASSUME TypeOK, Nested, ScopesFilled, NEW n \in Nodes, Enter(n)
  PROVE  ScopesFilled'
<1>1. IsAst(ast) /\ n \in DOMAIN ast /\ ast \in Programs /\ todo # <<>> /\ ast' = ast
      /\ Head(todo).node = n /\ Head(todo).op = "enter"
  BY TreeIsAst DEF Enter, Calls, Nodes, TypeOK
<1>2. PICK d, v, b, e, ms : /\ d = DoAll("declare", ms)
                            /\ v = DoAll("visit", ms)
                            /\ b = IF ast[n].kind = "definition"
                                   THEN DoAll("expr", ast[n].body) ELSE <<>>
                            /\ e = <<Do("leave", n)>>
                            /\ ms = ast[n].members
  OBVIOUS
<1>3. d \in Work /\ v \in Work /\ b \in Work /\ e \in Work /\ ms \in Seq(Nodes)
  <2>1. <<>> \in Work
    BY DEF Work
  <2> QED
    BY <1>1, <1>2, <2>1, ListTypes, DoAllType, DoType DEF Ops, Work
<1>4. NoDeclares(v) /\ NoDeclares(b) /\ NoDeclares(e)
  <2>1. NoDeclares(v)
    BY <1>2, <1>3, DoAllIs DEF NoDeclares
  <2>2. NoDeclares(b)
    <3>1. NoDeclares(<<>>)
      BY DEF NoDeclares
    <3>2. ast[n].body \in Seq(Nodes)
      BY <1>1, ListTypes
    <3>3. NoDeclares(DoAll("expr", ast[n].body))
      BY <3>2, DoAllIs DEF NoDeclares
    <3> QED
      BY <1>2, <3>1, <3>3
  <2>3. NoDeclares(e)
    BY <1>2 DEF NoDeclares, Do, DoIn
  <2> QED
    BY <2>1, <2>2, <2>3
<1>5. Tail(todo) \in Work /\ NoDeclares(Tail(todo)) /\ Complete(ast, scopes)
  BY <1>1, FilledHead DEF Complete
<1>6. PICK g \in Work : g = v \o (b \o (e \o Tail(todo))) /\ NoDeclares(g)
  <2>1. e \o Tail(todo) \in Work /\ NoDeclares(e \o Tail(todo))
    BY <1>3, <1>4, <1>5, Concat, NoDeclaresConcat DEF Work
  <2>2. PICK x \in Work : x = e \o Tail(todo) /\ NoDeclares(x)
    BY <2>1
  <2>3. b \o x \in Work /\ NoDeclares(b \o x)
    BY <1>3, <1>4, <2>2, Concat, NoDeclaresConcat DEF Work
  <2>4. PICK y \in Work : y = b \o x /\ NoDeclares(y)
    BY <2>3
  <2>5. v \o y \in Work /\ NoDeclares(v \o y)
    BY <1>3, <1>4, <2>4, Concat, NoDeclaresConcat DEF Work
  <2> QED
    BY <2>2, <2>4, <2>5
<1>7. Declares(d \o g, ms, 0)
  BY <1>2, <1>3, <1>6, DeclaresAll DEF Work
<1>8. todo' = d \o g
  <2>1. todo' = (d \o v \o b \o e) \o Tail(todo)
    BY <1>2, Zenon DEF Enter, Then
  <2>2. PICK w \in Work : w = Tail(todo)
    BY <1>5
  <2>3. Cat(Cat(Cat(Cat(d, v), b), e), w) = Cat(d, Cat(v, Cat(b, Cat(e, w))))
    BY <1>3, ConcatWork
  <2> QED
    BY <1>6, <2>1, <2>2, <2>3, Zenon DEF Cat
<1>9. Filled(ast, NewScope(n), 0)
  <2>1. n # Root
    BY <1>1, NestedHead
  <2>2. Candidates(ast, n, 0) = {}
    BY <2>1 DEF Candidates
  <2>3. Range(<<>>) = {}
    BY DEF Range
  <2>4. /\ NewScope(n).owner = n /\ NewScope(n).symbols = {}
        /\ NewScope(n).wild = <<>>
    BY DEF NewScope
  <2> QED
    BY <2>2, <2>3, <2>4 DEF Filled
<1>a. PICK stack, calls : stack = scopes' /\ calls = todo'
  OBVIOUS
<1>10. PICK l \in Nat : stack = scopes' /\ calls = todo' /\ l = Len(scopes)
  BY <1>a, LenProperties DEF TypeOK
<1>11. /\ Len(stack) = l + 1 /\ stack # <<>> /\ stack[l + 1] = NewScope(n)
       /\ \A i \in 1 .. l : stack[i] = scopes[i]
       /\ DOMAIN scopes = 1 .. l
  <2>1. NewScope(n) \in Scope(Nodes) /\ scopes \in Seq(Scope(Nodes))
    BY DEF NewScope, Scope, TypeOK
  <2>2. stack = Append(scopes, NewScope(n))
    BY <1>10 DEF Enter
  <2> QED
    BY <1>10, <2>1, <2>2, AppendProperties, LenProperties
<1>12. \A i \in 1 .. (l + 1) - 1 : Filled(ast, stack[i], Len(ast[stack[i].owner].members))
  BY <1>5, <1>10, <1>11 DEF Complete
<1>13. 0 \in 0 .. Len(ms) /\ NewScope(n).owner = n
  BY <1>3, LenProperties DEF NewScope
<1>14. FilledWhile(ast, stack, calls)
  BY <1>2, <1>7, <1>8, <1>9, <1>10, <1>11, <1>12, <1>13 DEF FilledWhile
<1> QED
  BY <1>1, <1>10, <1>14 DEF ScopesFilled

\* The root scope knows the library when the walk starts, and nothing else.
LEMMA InitFilled == Init => ScopesFilled
<1> SUFFICES ASSUME Init PROVE ScopesFilled
  OBVIOUS
<1>1. TypeOK /\ IsAst(ast) /\ Root \in DOMAIN ast /\ Nodes = DOMAIN ast
  BY InitType, TreeIsAst, NodesAreNumbers
<1>2. PICK t, ms, d, v, e : /\ t = ast
                            /\ ms = ast[Root].members
                            /\ d = DoAll("declare", ms)
                            /\ v = DoAll("visit", ms)
                            /\ e = <<Do("leave", Root)>>
  OBVIOUS
<1>3. d \in Work /\ v \in Work /\ e \in Work /\ ms \in Seq(Nodes)
  BY <1>1, <1>2, ListTypes, DoAllType, DoType DEF Ops, Work, Init, Nodes
<1>4. NoDeclares(v) /\ NoDeclares(e)
  <2>1. NoDeclares(v)
    BY <1>2, <1>3, DoAllIs DEF NoDeclares
  <2>2. NoDeclares(e)
    BY <1>2 DEF NoDeclares, Do, DoIn
  <2> QED
    BY <2>1, <2>2
<1>5. PICK g \in Work : g = v \o e /\ NoDeclares(g)
  BY <1>3, <1>4, Concat, NoDeclaresConcat DEF Work
<1>6. PICK calls : calls = d \o g
  OBVIOUS
<1>7. todo = calls
  <2>1. todo = d \o v \o e
    BY <1>2, Zenon DEF Init, RootCalls
  <2>2. Cat(Cat(d, v), e) = Cat(d, Cat(v, e))
    BY <1>3, CatIsAssociative
  <2> QED
    BY <1>5, <1>6, <2>1, <2>2, Zenon DEF Cat
<1>8. Declares(calls, ms, 0)
  BY <1>2, <1>3, <1>5, <1>6, DeclaresAll DEF Work
<1>9. Filled(t, RootScope, 0)
  <2>1. Candidates(t, Root, 0) = {Lib}
    BY DEF Candidates
  <2>2. /\ RootScope.owner = Root /\ RootScope.symbols = {Lib}
        /\ RootScope.wild = <<>>
    BY DEF RootScope, NewScope
  <2>3. Range(<<>>) = {}
    BY DEF Range
  <2>4. /\ nodeName(t, Lib) # NoName /\ t[Lib].kind # "import"
        /\ DeclaredIn(t, Root, nodeName(t, Lib)) = Lib
    BY <1>1, <1>2 DEF IsAst, nodeName, NamingKinds, DeclaredIn
  <2> QED
    BY <2>1, <2>2, <2>3, <2>4 DEF Filled
<1>10. PICK stack : stack = <<RootScope>>
  OBVIOUS
<1>11. /\ Len(stack) = 1 /\ stack # <<>> /\ stack[1] = RootScope
       /\ RootScope.owner = Root /\ 1 .. 1 - 1 = {}
       /\ scopes = stack
  BY <1>10 DEF Init, RootScope, NewScope
<1>12. 0 \in 0 .. Len(ms)
  BY <1>3, LenProperties
<1>13. FilledWhile(t, stack, calls)
  BY <1>2, <1>8, <1>9, <1>11, <1>12 DEF FilledWhile
<1> QED
  BY <1>2, <1>7, <1>11, <1>13 DEF ScopesFilled

\* The innermost scope, put back as it was.
LEMMA PutBack ==
  ASSUME NEW S, NEW f \in Seq(S)
  PROVE  f = [f EXCEPT ![Len(f)] = f[Len(f)]]
<1>1. PICK l \in Nat : l = Len(f) /\ DOMAIN f = 1 .. l
  BY LenProperties
<1>2. f = [i \in 1 .. l |-> f[i]]
  BY <1>1
<1>3. [f EXCEPT ![l] = f[l]] = [i \in 1 .. l |-> f[i]]
  BY <1>1
<1> QED
  BY <1>1, <1>2, <1>3

\* Every step keeps the scopes filled.
LEMMA StepFilled == TypeOK /\ Nested /\ ScopesFilled /\ [Next]_vars => ScopesFilled'
<1> SUFFICES ASSUME TypeOK, Nested, ScopesFilled, [Next]_vars PROVE ScopesFilled'
  OBVIOUS
<1>1. ASSUME NEW n \in Nodes, DeclareImport(n) PROVE ScopesFilled'
  <2>1. /\ todo # <<>> /\ Head(todo).op = "declare" /\ Head(todo).node = n
        /\ ast[n].kind = "import" /\ Then(<<>>) /\ ast' = ast
    BY <1>1 DEF DeclareImport, Calls
  <2>3. Inner \in Scope(Nodes) /\ scopes # <<>>
    BY <2>1, FilledHead, InnerType
  <2>4. PICK after : after = IF ast[n].wildcard
                             THEN [Inner EXCEPT !.wild = Append(@, n)] ELSE Inner
    OBVIOUS
  <2>5. after.owner = Inner.owner
    BY <2>3, <2>4 DEF Scope
  <2>6. scopes' = [scopes EXCEPT ![Len(scopes)] = after]
    <3>1. scopes = [scopes EXCEPT ![Len(scopes)] = Inner]
      BY PutBack DEF Inner, TypeOK
    <3>2. CASE ast[n].wildcard
      <4>1. scopes' = [scopes EXCEPT ![Len(scopes)].wild = Append(@, n)]
        BY <1>1, <3>2, Zenon DEF DeclareImport, Inner
      <4>2. after = [Inner EXCEPT !.wild = Append(@, n)]
        BY <2>4, <3>2, Zenon
      <4> QED
        BY <4>1, <4>2, Zenon DEF Inner
    <3>3. CASE ~ (ast[n].wildcard)
      BY <1>1, <2>4, <3>1, <3>3, Zenon DEF DeclareImport
    <3> QED
      BY <3>2, <3>3
  <2>7. ASSUME NEW k \in Nat, k + 1 \in 1 .. Len(ast[Inner.owner].members),
               n = ast[Inner.owner].members[k + 1], Filled(ast, Inner, k)
        PROVE  Filled(ast, after, k + 1)
    BY <2>1, <2>3, <2>4, <2>7, ImportFills
  <2> QED
    BY <2>1, <2>5, <2>6, <2>7, DeclareFilled
<1>2. ASSUME NEW n \in Nodes, DeclareName(n) PROVE ScopesFilled'
  <2>1. /\ todo # <<>> /\ Head(todo).op = "declare" /\ Head(todo).node = n
        /\ ast[n].kind # "import" /\ Then(<<>>) /\ ast' = ast
    BY <1>2 DEF DeclareName, Calls
  <2>3. Inner \in Scope(Nodes) /\ scopes # <<>>
    BY <2>1, FilledHead, InnerType
  <2>4. PICK after :
          after = IF nodeName(ast, n) # NoName /\ lookupLocal(Inner, nodeName(ast, n)) = NoNode
                  THEN [Inner EXCEPT !.symbols = @ \cup {n}] ELSE Inner
    OBVIOUS
  <2>5. after.owner = Inner.owner
    BY <2>3, <2>4 DEF Scope
  <2>6. scopes' = [scopes EXCEPT ![Len(scopes)] = after]
    <3>1. scopes = [scopes EXCEPT ![Len(scopes)] = Inner]
      BY PutBack DEF Inner, TypeOK
    <3>2. CASE nodeName(ast, n) # NoName /\ lookupLocal(Inner, nodeName(ast, n)) = NoNode
      <4>1. scopes' = [scopes EXCEPT ![Len(scopes)].symbols = @ \cup {n}]
        BY <1>2, <3>2, Zenon DEF DeclareName, Inner
      <4>2. after = [Inner EXCEPT !.symbols = @ \cup {n}]
        BY <2>4, <3>2, Zenon
      <4> QED
        BY <4>1, <4>2, Zenon DEF Inner
    <3>3. CASE ~ (nodeName(ast, n) # NoName /\ lookupLocal(Inner, nodeName(ast, n)) = NoNode)
      BY <1>2, <2>4, <3>1, <3>3, Zenon DEF DeclareName
    <3> QED
      BY <3>2, <3>3
  <2>7. ASSUME NEW k \in Nat, k + 1 \in 1 .. Len(ast[Inner.owner].members),
               n = ast[Inner.owner].members[k + 1], Filled(ast, Inner, k)
        PROVE  Filled(ast, after, k + 1)
    BY <2>1, <2>3, <2>4, <2>7, NameFills
  <2> QED
    BY <2>1, <2>5, <2>6, <2>7, DeclareFilled
<1>3. ASSUME NEW n \in Nodes, Enter(n) PROVE ScopesFilled'
  BY <1>3, EnterFilled
<1>4. NoDeclares(<<>>) /\ <<>> \in Work
  BY DEF NoDeclares, Work
<1>5. ASSUME NEW n \in Nodes, Leave(n) PROVE ScopesFilled'
  <2>1. /\ todo # <<>> /\ Head(todo).op = "leave" /\ Then(<<>>) /\ ast' = ast
        /\ scopes' = Front(scopes) /\ Head(todo).node = n
    BY <1>5 DEF Leave, Calls
  <2>2. scopes # <<>>
    <3>1. OwnersOf(scopes) = Append(Enclosing(ast, n), n)
      BY <2>1, NestedHead DEF Before
    <3>2. Enclosing(ast, n) \in Seq(Nodes)
      BY TreeIsAst, EnclosingIs
    <3>3. Append(Enclosing(ast, n), n) # <<>>
      <4>1. PICK s \in Seq(Nodes) : s = Enclosing(ast, n)
        BY <3>2
      <4> QED
        BY <4>1, AppendProperties
    <3>4. scopes = <<>> => OwnersOf(scopes) = <<>>
      BY DEF OwnersOf
    <3> QED
      BY <3>1, <3>3, <3>4
  <2>3. PICK stack : stack = scopes'
    OBVIOUS
  <2>4. /\ stack \in Seq(Scope(Nodes))
        /\ \A i \in DOMAIN stack : i \in DOMAIN scopes /\ stack[i] = scopes[i]
    <3>1. PICK S : S = Scope(Nodes)
      OBVIOUS
    <3>2. scopes \in Seq(S)
      BY <3>1 DEF TypeOK
    <3>3. PICK l \in Nat : l = Len(scopes)
      BY <3>2, LenProperties
    <3>4. l > 0 /\ DOMAIN scopes = 1 .. l /\ \A i \in 1 .. l : scopes[i] \in S
      BY <2>2, <3>2, <3>3, LenProperties, EmptySeq, ElementOfSeq
    <3>5. stack = [i \in 1 .. l - 1 |-> scopes[i]]
      BY <2>1, <2>3, <3>3, <3>4 DEF Front
    <3>6. \A i \in 1 .. l - 1 : i \in 1 .. l
      BY <3>4
    <3>7. l - 1 \in Nat
      BY <3>4
    <3>8. stack \in Seq(S)
      BY <3>4, <3>5, <3>6, <3>7, IsASeq
    <3> QED
      BY <3>1, <3>4, <3>5, <3>6, <3>8
  <2> QED
    BY <1>4, <2>1, <2>3, <2>4, LookUpFilled
<1>6. ASSUME NEW n \in Nodes, todo # <<>>, Head(todo).op # "declare",
             NEW calls \in Work, NoDeclares(calls), Then(calls),
             scopes' = scopes, ast' = ast
      PROVE  ScopesFilled'
  <2>1. scopes' \in Seq(Scope(Nodes))
    BY <1>6 DEF TypeOK
  <2> QED
    BY <1>6, <2>1, LookUpFilled
<1>7. ASSUME NEW n \in Nodes, Visit(n) PROVE ScopesFilled'
  <2>1. PICK f \in Work : /\ LooksUp(f, Outside(ast, n))
                          /\ CallsOf(n) = f \/ CallsOf(n) = f \o <<Do("enter", n)>>
    BY CallsOfIs DEF TypeOK
  <2>2. PICK e \in Work : e = <<Do("enter", n)>> /\ NoDeclares(e)
    <3>1. <<Do("enter", n)>> \in Work
      BY DoType DEF Work, Ops
    <3>2. NoDeclares(<<Do("enter", n)>>)
      BY DEF NoDeclares, Do, DoIn
    <3> QED
      BY <3>1, <3>2
  <2>3. NoDeclares(f)
    BY <2>1 DEF LooksUp, NoDeclares
  <2>4. f \o e \in Work /\ NoDeclares(f \o e)
    BY <2>2, <2>3, Concat, NoDeclaresConcat DEF Work
  <2>5. PICK calls : calls = CallsOf(n)
    OBVIOUS
  <2>6. calls \in Work /\ NoDeclares(calls)
    BY <2>1, <2>2, <2>3, <2>4, <2>5
  <2>7. /\ todo # <<>> /\ Head(todo).op # "declare" /\ Then(calls)
        /\ scopes' = scopes /\ ast' = ast
    BY <1>7, <2>5 DEF Visit, Calls
  <2> QED
    BY <1>6, <2>6, <2>7
<1>8. ASSUME NEW n \in Nodes, Descend(n) PROVE ScopesFilled'
  <2>1. ast[n].args \in Seq(Nodes)
    BY ListTypes DEF TypeOK
  <2>2. PICK f \in Work : f = DoAll("expr", ast[n].args)
    BY <2>1, DoAllType DEF Ops, Work
  <2>3. NoDeclares(f)
    BY <2>1, <2>2, DoAllIs DEF NoDeclares
  <2> QED
    BY <1>6, <1>8, <2>2, <2>3 DEF Descend, Calls
<1>9. ASSUME NEW n \in Nodes, SkipRedefinition(n) \/ Resolve(n)
      PROVE  ScopesFilled'
  <2>1. /\ todo # <<>> /\ ast' = ast /\ Then(<<>>) /\ Head(todo).op # "declare"
        /\ scopes' = scopes
    BY <1>9 DEF SkipRedefinition, Resolve, Calls
  <2> QED
    BY <1>4, <1>6, <1>9, <2>1
<1>10. CASE UNCHANGED vars
  BY <1>10 DEF vars, ScopesFilled
<1>11. CASE Finished
  BY <1>10, <1>11 DEF Finished
<1> QED
  BY <1>1, <1>2, <1>3, <1>5, <1>7, <1>8, <1>9, <1>10, <1>11, CurrentType
     DEF Next, Step

----------------------------------------------------------------------------
(***************************************************************************)
(* The theorem.                                                            *)
(***************************************************************************)
\* Scopes that are nested and filled are the lexical ones.
LEMMA ScopesAreLexical == TypeOK /\ Nested /\ ScopesFilled => LexicalScoping
<1> SUFFICES ASSUME TypeOK, Nested, ScopesFilled, todo # <<>>,
                    Head(todo).op \notin {"declare", "leave"}
             PROVE  /\ OwnersOf(scopes) = Enclosing(ast, Head(todo).node)
                    /\ \A i \in DOMAIN scopes :
                         LET p == scopes[i].owner
                             candidates == Range(ast[p].members)
                                           \cup (IF p = Root THEN {Lib} ELSE {})
                         IN  scopes[i].symbols =
                               {m \in candidates :
                                  /\ nodeName(ast, m) # NoName
                                  /\ DeclaredIn(ast, p, nodeName(ast, m)) = m}
  BY DEF LexicalScoping, OwnersOf
<1>1. OwnersOf(scopes) = Enclosing(ast, Head(todo).node)
  BY NestedHead DEF Before
<1>2. ASSUME NEW i \in DOMAIN scopes
      PROVE  LET p == scopes[i].owner
                 candidates == Range(ast[p].members)
                               \cup (IF p = Root THEN {Lib} ELSE {})
             IN  scopes[i].symbols =
                   {m \in candidates :
                      /\ nodeName(ast, m) # NoName
                      /\ DeclaredIn(ast, p, nodeName(ast, m)) = m}
  <2>1. PICK p, ms : p = scopes[i].owner /\ ms = ast[p].members
    OBVIOUS
  <2>2. ms \in Seq(Nodes)
    <3>1. scopes[i] \in Scope(Nodes)
      BY DEF TypeOK
    <3>2. p \in DOMAIN ast /\ IsAst(ast) /\ Nodes = DOMAIN ast
      BY <2>1, <3>1, TreeIsAst DEF Scope
    <3> QED
      BY <2>1, <3>2, AstLists
  <2>3. Filled(ast, scopes[i], Len(ms))
    BY <2>1, FilledHead
  <2>4. Candidates(ast, p, Len(ms)) = Range(ms) \cup (IF p = Root THEN {Lib} ELSE {})
    <3>1. DOMAIN ms = 1 .. Len(ms)
      BY <2>2, LenProperties
    <3>2. Range(ms) = {ms[j] : j \in 1 .. Len(ms)}
      BY <3>1 DEF Range
    <3> QED
      BY <2>1, <3>2 DEF Candidates
  <2> QED
    BY <2>1, <2>3, <2>4 DEF Filled
<1> QED
  BY <1>1, <1>2

\* Every name is looked up in exactly the scopes it is lexically inside of,
\* and each of these knows by then, of every name its body declares, the
\* first declaration (resolver.c:8-16).
THEOREM NamesAreScopedLexically == Spec => []LexicalScoping
<1>1. Init => Nested /\ ScopesFilled
  BY InitNested, InitFilled
<1>2. /\ TypeOK /\ Nested /\ ScopesFilled /\ [Next]_vars
      => Nested' /\ ScopesFilled'
  BY StepNested, StepFilled
<1>3. TypeOK /\ Nested /\ ScopesFilled => LexicalScoping
  BY ScopesAreLexical
<1> QED
  BY <1>1, <1>2, <1>3, TypeCorrect, PTL DEF Spec
=============================================================================
