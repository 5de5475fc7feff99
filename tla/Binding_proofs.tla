--------------------------- MODULE Binding_proofs ----------------------------
(***************************************************************************)
(* Proofs about what the resolver binds names to, for every set of         *)
(* well-formed trees: every name of the program ends bound to what its     *)
(* place in the text gives it, or reported, or deferred on purpose.        *)
(***************************************************************************)
EXTENDS Coverage_proofs

----------------------------------------------------------------------------
(***************************************************************************)
(* What a lookup finds when the scopes are complete: what the text says.   *)
(***************************************************************************)
\* What a body declares a name as is one of its members, or the library.
LEMMA DeclaredInIs ==
  ASSUME NEW t, IsAst(t), NEW p \in DOMAIN t, NEW x
  PROVE  LET d == DeclaredIn(t, p, x)
         IN  d # NoNode => /\ d \in Range(t[p].members) \cup (IF p = Root THEN {Lib} ELSE {})
                           /\ d \in DOMAIN t
                           /\ nodeName(t, d) = x /\ x # NoName
<1> SUFFICES ASSUME DeclaredIn(t, p, x) # NoNode
             PROVE  LET d == DeclaredIn(t, p, x)
                    IN  /\ d \in Range(t[p].members) \cup (IF p = Root THEN {Lib} ELSE {})
                        /\ d \in DOMAIN t
                        /\ nodeName(t, d) = x /\ x # NoName
  OBVIOUS
<1>1. PICK ms \in Seq(DOMAIN t) : ms = t[p].members
  BY AstLists
<1>2. DOMAIN ms = 1 .. Len(ms) /\ \A i \in 1 .. Len(ms) : ms[i] \in Range(ms) /\ ms[i] \in DOMAIN t
  BY LenProperties, ElementOfSeq DEF Range
<1>3. x # NoName
  BY DEF DeclaredIn
<1>4. CASE p = Root /\ x = t[Lib].name
  <2>1. nodeName(t, Lib) = x /\ Lib \in DOMAIN t
    BY <1>4 DEF IsAst, nodeName, NamingKinds
  <2> QED
    BY <1>3, <1>4, <2>1 DEF DeclaredIn
<1>5. CASE ~ (p = Root /\ x = t[Lib].name)
  <2>1. DeclaredIn(t, p, x) = DirectMember(t, p, x)
    BY <1>3, <1>5 DEF DeclaredIn
  <2>2. PICK i \in 1 .. Len(ms) : DirectMember(t, p, x) = ms[i] /\ nodeName(t, ms[i]) = x
    BY <1>1, <2>1, DirectMemberIs
  <2> QED
    BY <1>1, <1>2, <1>3, <2>1, <2>2
<1> QED
  BY <1>4, <1>5

\* A complete scope knows what its body declares.
LEMMA LocalComplete ==
  ASSUME TypeOK, NEW scope \in Scope(Nodes),
         Filled(ast, scope, Len(ast[scope.owner].members)), NEW x
  PROVE  lookupLocal(scope, x) = DeclaredIn(ast, scope.owner, x)
<1>1. PICK p, ms : p = scope.owner /\ ms = ast[p].members
  OBVIOUS
<1>2. IsAst(ast) /\ p \in DOMAIN ast /\ ms \in Seq(DOMAIN ast)
  BY <1>1, TreeIsAst, AstLists DEF Scope
<1>3. Candidates(ast, p, Len(ms)) = Range(ms) \cup (IF p = Root THEN {Lib} ELSE {})
  <2>1. DOMAIN ms = 1 .. Len(ms)
    BY <1>2, LenProperties
  <2>2. Range(ms) = {ms[j] : j \in 1 .. Len(ms)}
    BY <2>1 DEF Range
  <2> QED
    BY <1>1, <2>2 DEF Candidates
<1>4. CASE x = NoName
  <2>1. {m \in scope.symbols : nodeName(ast, m) = x} = {}
    BY <1>4 DEF Filled
  <2> QED
    BY <1>4, <2>1 DEF lookupLocal, DeclaredIn
<1>5. CASE x # NoName
  <2>1. PICK d : d = DeclaredIn(ast, p, x)
    OBVIOUS
  <2>2. lookupLocal(scope, x) =
          IF d \in Candidates(ast, p, Len(ms)) /\ nodeName(ast, d) = x THEN d ELSE NoNode
    BY <1>1, <1>5, <2>1, LocalIs
  <2>3. d # NoNode => d \in Candidates(ast, p, Len(ms)) /\ nodeName(ast, d) = x
    BY <1>1, <1>2, <1>3, <2>1, DeclaredInIs
  <2> QED
    BY <1>1, <2>1, <2>2, <2>3
<1> QED
  BY <1>4, <1>5

\* The innermost declaration is the first from the inside.
LEMMA DeclaredFirst ==
  ASSUME NEW t, NEW chain, NEW x
  PROVE  LET l == Len(chain)
         IN  Declared(t, chain, x) = First([i \in 1 .. l |-> DeclaredIn(t, chain[(l - i) + 1], x)])
<1> DEFINE back == Reverse(chain)
           l == Len(chain)
           f == [i \in 1 .. l |-> DeclaredIn(t, chain[(l - i) + 1], x)]
<1>1. Declared(t, chain, x) = Foremost({<<i, DeclaredIn(t, back[i], x)>> : i \in DOMAIN back})
  BY Zenon DEF Declared, FirstFound, Foremost
<1>2. back = [i \in 1 .. l |-> chain[(l - i) + 1]]
  BY DEF Reverse
<1> HIDE DEF back
<1>3. {<<i, DeclaredIn(t, back[i], x)>> : i \in DOMAIN back} = {<<i, f[i]>> : i \in DOMAIN f}
  BY <1>2
<1>4. Declared(t, chain, x) = First(f)
  <2> HIDE DEF f
  <2> QED
    BY <1>1, <1>3 DEF First
<1> QED
  BY <1>4

\* What a name is declared as in some scopes is a declaration.
LEMMA DeclaredType ==
  ASSUME NEW t, IsAst(t), NEW chain \in Seq(DOMAIN t), NEW x
  PROVE  Declared(t, chain, x) \in DOMAIN t \cup {NoNode}
<1>1. PICK l \in Nat : l = Len(chain)
  BY LenProperties
<1>2. PICK f : f = [i \in 1 .. l |-> DeclaredIn(t, chain[(l - i) + 1], x)]
  OBVIOUS
<1>3. Declared(t, chain, x) = First(f)
  <2>1. Declared(t, chain, x) = First([i \in 1 .. l |-> DeclaredIn(t, chain[(l - i) + 1], x)])
    BY <1>1, DeclaredFirst
  <2> QED
    BY <1>2, <2>1
<1>4. \A i \in 1 .. l : f[i] \in DOMAIN t \cup {NoNode}
  <2> SUFFICES ASSUME NEW i \in 1 .. l PROVE f[i] \in DOMAIN t \cup {NoNode}
    OBVIOUS
  <2>1. (l - i) + 1 \in 1 .. l
    OBVIOUS
  <2>2. chain[(l - i) + 1] \in DOMAIN t
    BY <1>1, <2>1, ElementOfSeq
  <2> QED
    BY <1>2, <2>2, DeclaredInIs
<1>5. DOMAIN f = 1 .. l
  BY <1>2
<1> QED
  BY <1>3, <1>4, <1>5, FirstIs

\* Looked up in complete scopes, a name is what the text declares it as.
LEMMA ChainIs ==
  ASSUME TypeOK, Complete(ast, scopes), NEW x
  PROVE  lookupChain(scopes, x) = Declared(ast, OwnersOf(scopes), x)
<1>1. PICK l \in Nat : l = Len(scopes) /\ DOMAIN scopes = 1 .. l
  BY LenProperties DEF TypeOK
<1>2. PICK owners : owners = OwnersOf(scopes)
  OBVIOUS
<1>3. /\ \A i \in 1 .. l : owners[i] = scopes[i].owner
      /\ Len(owners) = l
  <2>1. owners = [i \in 1 .. l |-> scopes[i].owner]
    BY <1>1, <1>2 DEF OwnersOf
  <2> QED
    BY <2>1
<1>4. ASSUME NEW i \in 1 .. l
      PROVE  lookupLocal(scopes[(l - i) + 1], x) = DeclaredIn(ast, owners[(l - i) + 1], x)
  <2>1. PICK j \in 1 .. l : j = (l - i) + 1
    OBVIOUS
  <2>2. scopes[j] \in Scope(Nodes)
    BY <1>1 DEF TypeOK
  <2>3. Filled(ast, scopes[j], Len(ast[scopes[j].owner].members))
    BY <1>1 DEF Complete
  <2> QED
    BY <1>3, <2>1, <2>2, <2>3, LocalComplete
<1>5. PICK f : f = [i \in 1 .. l |-> lookupLocal(scopes[(l - i) + 1], x)]
  OBVIOUS
<1>6. lookupChain(scopes, x) = First(f)
  <2> DEFINE back == Reverse(scopes)
  <2>2. lookupChain(scopes, x) = Foremost({<<i, lookupLocal(back[i], x)>> : i \in DOMAIN back})
    BY Zenon DEF lookupChain, FirstFound, Foremost
  <2>3. back = [i \in 1 .. l |-> scopes[(l - i) + 1]]
    BY <1>1 DEF Reverse
  <2> HIDE DEF back
  <2>4. {<<i, lookupLocal(back[i], x)>> : i \in DOMAIN back} = {<<i, f[i]>> : i \in DOMAIN f}
    BY <1>5, <2>3
  <2> QED
    BY <2>2, <2>4 DEF First
<1>7. f = [i \in 1 .. l |-> DeclaredIn(ast, owners[(l - i) + 1], x)]
  BY <1>4, <1>5
<1>8. Declared(ast, owners, x) = First(f)
  <2>1. Declared(ast, owners, x) = First([i \in 1 .. l |-> DeclaredIn(ast, owners[(l - i) + 1], x)])
    BY <1>3, DeclaredFirst
  <2> QED
    BY <1>7, <2>1
<1> QED
  BY <1>2, <1>6, <1>8

\* In a complete scope the wildcard imports are the imports of its body.
LEMMA WildIs ==
  ASSUME TypeOK, Complete(ast, scopes), NEW i \in DOMAIN scopes,
         NEW m \in Range(scopes[i].wild)
  PROVE  /\ m \in Range(ast[scopes[i].owner].members)
         /\ m \in Nodes /\ ast[m].kind = "import" /\ ast[m].wildcard
         /\ ast[m].links[1] \in Nodes
<1>1. PICK p, ms : p = scopes[i].owner /\ ms = ast[p].members
  OBVIOUS
<1>2. scopes[i] \in Scope(Nodes)
  BY DEF TypeOK
<1>3. IsAst(ast) /\ p \in DOMAIN ast /\ ms \in Seq(DOMAIN ast) /\ Nodes = DOMAIN ast
  BY <1>1, <1>2, TreeIsAst, AstLists DEF Scope
<1>4. m \in Candidates(ast, p, Len(ms)) /\ ast[m].kind = "import" /\ ast[m].wildcard
  BY <1>1 DEF Complete, Filled
<1>5. m \in Range(ms) /\ m \in DOMAIN ast
  <2>1. ast[Lib].kind # "import"
    BY <1>3 DEF IsAst
  <2>2. m \in {ms[j] : j \in 1 .. Len(ms)}
    BY <1>1, <1>4, <2>1 DEF Candidates
  <2> QED
    BY <1>3, <2>2, LenProperties, ElementOfSeq DEF Range
<1>6. ast[m].links[1] \in DOMAIN ast
  <2>1. Len(ast[m].links) = 1 /\ ast[m].links \in Seq(DOMAIN ast)
    BY <1>3, <1>4, <1>5, AstLists DEF IsAst, IsShaped
  <2> QED
    BY <2>1, ElementOfSeq
<1> QED
  BY <1>1, <1>3, <1>4, <1>5, <1>6

\* What a wildcard import brings in is a declaration.
LEMMA WildcardType ==
  ASSUME TypeOK, Complete(ast, scopes), NEW x
  PROVE  searchWildcardImports(scopes, x) \in Nodes \cup {NoNode}
<1>1. PICK l \in Nat : l = Len(scopes) /\ DOMAIN scopes = 1 .. l
  BY LenProperties DEF TypeOK
<1>2. PICK one : one = [i \in 1 .. l |-> [j \in DOMAIN scopes[(l - i) + 1].wild |->
                                            Imported(scopes[(l - i) + 1].wild[j], x)]]
  OBVIOUS
<1>3. PICK f : f = [i \in 1 .. l |-> First(one[i])]
  OBVIOUS
<1>4. searchWildcardImports(scopes, x) = First(f)
  <2> DEFINE FromScope(scope) == Foremost({<<j, Imported(scope.wild[j], x)>> : j \in DOMAIN scope.wild})
  <2> DEFINE back == Reverse(scopes)
  <2>2. searchWildcardImports(scopes, x) = Foremost({<<i, FromScope(back[i])>> : i \in DOMAIN back})
    BY Zenon DEF searchWildcardImports, FirstFound, Foremost
  <2>3. back = [i \in 1 .. l |-> scopes[(l - i) + 1]]
    BY <1>1 DEF Reverse
  <2> HIDE DEF back
  <2>4. ASSUME NEW i \in 1 .. l PROVE FromScope(back[i]) = f[i]
    <3>1. PICK wild : wild = scopes[(l - i) + 1].wild
      OBVIOUS
    <3>2. one[i] = [j \in DOMAIN wild |-> Imported(wild[j], x)]
      BY <1>2, <3>1
    <3>3. {<<j, Imported(wild[j], x)>> : j \in DOMAIN wild} = {<<j, one[i][j]>> : j \in DOMAIN one[i]}
      BY <3>2
    <3>4. FromScope(back[i]) = Foremost({<<j, Imported(wild[j], x)>> : j \in DOMAIN wild})
      BY <2>3, <3>1
    <3> QED
      BY <1>3, <3>3, <3>4 DEF First
  <2>5. {<<i, FromScope(back[i])>> : i \in DOMAIN back} = {<<i, f[i]>> : i \in DOMAIN f}
    <3> HIDE DEF FromScope
    <3> QED
      BY <1>3, <2>3, <2>4
  <2> HIDE DEF FromScope
  <2> QED
    BY <2>2, <2>5 DEF First
<1>5. ASSUME NEW i \in 1 .. l PROVE f[i] \in Nodes \cup {NoNode}
  <2>1. PICK k \in 1 .. l : k = (l - i) + 1
    OBVIOUS
  <2>2. PICK wild \in Seq(Nodes) : wild = scopes[k].wild
    <3>1. scopes[k] \in Scope(Nodes)
      BY <1>1 DEF TypeOK
    <3> QED
      BY <3>1 DEF Scope
  <2>3. /\ DOMAIN wild = 1 .. Len(wild) /\ Len(wild) \in Nat
        /\ \A j \in 1 .. Len(wild) : wild[j] \in Range(wild)
    BY LenProperties DEF Range
  <2>4. one[i] = [j \in 1 .. Len(wild) |-> Imported(wild[j], x)]
    BY <1>2, <2>1, <2>2, <2>3
  <2>5. ASSUME NEW m \in Range(wild) PROVE Imported(m, x) \in Nodes \cup {NoNode}
    <3>1. ast[m].links[1] \in Nodes
      BY <1>1, <2>1, <2>2, WildIs
    <3>2. resolved[ast[m].links[1]] \in Nodes \cup {NoNode}
      BY <3>1 DEF TypeOK
    <3>3. IsAst(ast) /\ Nodes = DOMAIN ast
      BY TreeIsAst
    <3>4. \A p \in DOMAIN ast : DirectMember(ast, p, x) \in Nodes \cup {NoNode}
      <4> SUFFICES ASSUME NEW p \in DOMAIN ast, DirectMember(ast, p, x) # NoNode
                   PROVE  DirectMember(ast, p, x) \in Nodes
        OBVIOUS
      <4>1. PICK ms \in Seq(DOMAIN ast) : ms = ast[p].members
        BY <3>3, AstLists
      <4>2. PICK j \in 1 .. Len(ms) : DirectMember(ast, p, x) = ms[j]
        BY <3>3, <4>1, DirectMemberIs
      <4> QED
        BY <3>3, <4>2, ElementOfSeq
    <3> QED
      BY <3>2, <3>3, <3>4 DEF Imported
  <2>6. \A j \in 1 .. Len(wild) : one[i][j] \in Nodes \cup {NoNode}
    BY <2>3, <2>4, <2>5
  <2>7. First(one[i]) \in Nodes \cup {NoNode}
    BY <2>3, <2>4, <2>6, FirstIs
  <2> QED
    BY <1>3, <2>7
<1>6. DOMAIN f = 1 .. l
  BY <1>3
<1> QED
  BY <1>4, <1>5, <1>6, FirstIs

\* The first declaration a name leads to: its first segment, looked up.
LEMMA PathHead ==
  ASSUME NEW r, NEW stack, ast[r].parts \in Seq(STRING), ast[r].parts # <<>>
  PROVE  LET x == ast[r].parts[1]
         IN  Path(r, stack)[1] = IF lookupChain(stack, x) # NoNode
                                 THEN lookupChain(stack, x)
                                 ELSE searchWildcardImports(stack, x)
<1>1. PICK l \in Nat : l = Len(ast[r].parts) /\ l > 0 /\ DOMAIN ast[r].parts = 1 .. l
  <2>1. Len(ast[r].parts) \in Nat /\ DOMAIN ast[r].parts = 1 .. Len(ast[r].parts)
    BY LenProperties
  <2>2. Len(ast[r].parts) # 0
    BY EmptySeq
  <2> QED
    BY <2>1, <2>2
<1> DEFINE x == ast[r].parts[1]
           head == IF lookupChain(stack, x) # NoNode
                   THEN lookupChain(stack, x)
                   ELSE searchWildcardImports(stack, x)
           Segment(v, i) == IF v = NoNode THEN NoNode
                            ELSE lookupMember(ast, resolved, v, ast[r].parts[i])
           Is(f, k) == f = [i \in 1 .. k |-> IF i = 1 THEN head ELSE Segment(f[i - 1], i)]
<1>2. Path(r, stack) = CHOOSE f : f = [i \in DOMAIN ast[r].parts |->
                                         IF i = 1 THEN head ELSE Segment(f[i - 1], i)]
  BY Zenon DEF Path
<1>3. Path(r, stack) = CHOOSE f : Is(f, l)
  BY <1>1, <1>2
<1> HIDE DEF head, Segment
<1>4. \E f : Is(f, l)
  <2> DEFINE Bad == {k \in Nat : ~ \E f : Is(f, k)}
  <2>1. SUFFICES ASSUME Bad # {} PROVE FALSE
    BY <1>1
  <2>2. PICK k \in Bad : \A j \in Bad : k <= j
    <3>1. Bad \in SUBSET Nat
      OBVIOUS
    <3> HIDE DEF Bad
    <3> QED
      BY <2>1, <3>1, LeastNumber
  <2>3. k \in Nat /\ ~ \E f : Is(f, k)
    BY <2>2
  <2>4. k # 0
    <3>1. ASSUME k = 0 PROVE Is([i \in 1 .. 0 |-> head], k)
      BY <3>1
    <3> QED
      BY <2>3, <3>1
  <2>5. PICK f : Is(f, k - 1)
    <3>1. k - 1 \in Nat /\ ~ (k <= k - 1)
      BY <2>3, <2>4
    <3> QED
      BY <2>2, <3>1
  <2>6. PICK g : g = [i \in 1 .. k |-> IF i = 1 THEN head ELSE Segment(f[i - 1], i)]
    OBVIOUS
  <2>7. ASSUME NEW i \in 1 .. k, i # 1 PROVE g[i - 1] = f[i - 1]
    <3>1. i - 1 \in 1 .. k - 1 /\ i - 1 \in 1 .. k
      BY <2>3, <2>7
    <3> QED
      BY <2>5, <2>6, <3>1
  <2>8. Is(g, k)
    BY <2>6, <2>7
  <2> QED
    BY <2>3, <2>8
<1>5. Is(Path(r, stack), l)
  <2> HIDE DEF Is
  <2> QED
    BY <1>3, <1>4, Zenon
<1>6. Path(r, stack)[1] = head
  BY <1>1, <1>5
<1> QED
  BY <1>6 DEF head

----------------------------------------------------------------------------
(***************************************************************************)
(* What has become of a name once it has been looked up.                   *)
(***************************************************************************)
Reported(r) == \E m \in Messages : <<m, r>> \in errors

Single(r) == Len(ast[r].parts) = 1

\* What the text around it declares the first segment of the name as.
Meant(r) == Declared(ast, Enclosing(ast, r), ast[r].parts[1])

\* The target of an import has been looked up when it is declared.
Tried(m) == <<"declare", m>> \notin Owed

\* A wildcard import the name is in the scope of could not be followed.
Blinded(r) == \E m \in ImportsAround(r) : resolved[ast[m].links[1]] = NoNode /\ Tried(m)

\* Bound to what is meant, if that is clear, or reported, or deferred.
Settled(r) ==
  \/ /\ resolved[r] # NoNode /\ ~ Reported(r)
     /\ (Single(r) /\ Meant(r) # NoNode)
          => resolved[r] \in {Meant(r), derefAlias(ast, resolved, Meant(r))}
  \/ resolved[r] = NoNode /\ Reported(r) /\ ~ (Single(r) /\ Meant(r) # NoNode)
  \/ /\ resolved[r] = NoNode /\ ~ Reported(r) /\ Meant(r) = NoNode
     /\ ~ Single(r) \/ Blinded(r)

NamesSettled ==
  \A r \in References : IF <<"look", r>> \in Owed
                        THEN resolved[r] = NoNode /\ ~ Reported(r)
                        ELSE Settled(r)

\* A scope knows only imports that have been declared.
WildcardsTried == \A i \in DOMAIN scopes : \A m \in Range(scopes[i].wild) : Tried(m)

\* What is read off the tree does not change.
LEMMA SameTree ==
  ASSUME ast' = ast
  PROVE  /\ References' = References
         /\ \A r : /\ Single(r)' = Single(r)
                   /\ Meant(r)' = Meant(r)
                   /\ ImportsAround(r)' = ImportsAround(r)
<1>1. References' = References
  BY DEF References, Nodes
<1>2. \A r : Single(r)' = Single(r) /\ Meant(r)' = Meant(r)
  BY DEF Single, Meant
<1>3. \A r : ImportsAround(r)' = ImportsAround(r)
  BY DEF ImportsAround
<1> QED
  BY <1>1, <1>2, <1>3

\* What a reference is.
LEMMA ReferenceIs ==
  ASSUME TypeOK, NEW r \in References
  PROVE  /\ r \in Nodes /\ ast[r].kind = "qname"
         /\ ast[r].parts \in Seq(STRING) /\ ast[r].parts # <<>>
         /\ resolved[r] \in Nodes \cup {NoNode}
         /\ Meant(r) \in Nodes \cup {NoNode}
         /\ ast[Owner(ast, r)].kind # "import"
<1>1. /\ r \in Nodes /\ ast[r].kind = "qname"
      /\ ast[Owner(ast, r)].kind # "import"
  BY DEF References
<1>2. IsAst(ast) /\ Nodes = DOMAIN ast
  BY TreeIsAst
<1>3. ast[r].parts \in Seq(STRING) /\ ast[r].parts # <<>>
  BY <1>1, <1>2 DEF IsAst, NodeRecord, IsShaped
<1>4. Meant(r) \in Nodes \cup {NoNode}
  <2>1. Enclosing(ast, r) \in Seq(DOMAIN ast)
    BY <1>1, <1>2, EnclosingIs
  <2> QED
    BY <1>2, <2>1, DeclaredType DEF Meant
<1> QED
  BY <1>1, <1>3, <1>4 DEF TypeOK

\* A name that has been looked up stays as it is.
LEMMA StaysSettled ==
  ASSUME TypeOK, TypeOK', ast' = ast, Final, NEW r \in References, Settled(r),
         resolved'[r] = resolved[r], Reported(r)' <=> Reported(r),
         Owed' \subseteq Owed,
         \A m \in ImportsAround(r) : Tried(m)
           => resolved'[ast[m].links[1]] = resolved[ast[m].links[1]]
  PROVE  Settled(r)'
<1>1. IsAst(ast) /\ Nodes = DOMAIN ast
  BY TreeIsAst
<1>2. PICK d : d = Meant(r) /\ d \in Nodes \cup {NoNode}
  BY ReferenceIs
<1>3. /\ Meant(r)' = d /\ Single(r)' = Single(r)
      /\ ImportsAround(r)' = ImportsAround(r)
  BY <1>2, SameTree
<1>4. ASSUME derefAlias(ast, resolved, d) # NoNode
      PROVE  derefAlias(ast, resolved', d) = derefAlias(ast, resolved, d)
  <2>1. resolved \in Bindings(ast) /\ resolved' \in Bindings(ast)
    BY <1>1 DEF TypeOK, Bindings, Nodes
  <2>2. Extends(ast, resolved', resolved)
    BY <1>1 DEF Final, Extends
  <2> QED
    BY <1>1, <1>2, <1>4, <2>1, <2>2, DerefStays
<1>5. Blinded(r) => Blinded(r)'
  <2> SUFFICES ASSUME Blinded(r) PROVE Blinded(r)'
    OBVIOUS
  <2>1. PICK m \in ImportsAround(r) : resolved[ast[m].links[1]] = NoNode /\ Tried(m)
    BY DEF Blinded
  <2>2. resolved'[ast'[m].links[1]] = NoNode /\ Tried(m)'
    BY <2>1 DEF Tried
  <2> QED
    BY <1>3, <2>1, <2>2 DEF Blinded
<1>6. CASE /\ resolved[r] # NoNode /\ ~ Reported(r)
           /\ (Single(r) /\ d # NoNode) => resolved[r] \in {d, derefAlias(ast, resolved, d)}
  <2>1. (Single(r) /\ d # NoNode) => resolved'[r] \in {d, derefAlias(ast', resolved', d)}
    BY <1>4, <1>6
  <2> QED
    BY <1>3, <1>6, <2>1 DEF Settled
<1>7. CASE resolved[r] = NoNode /\ Reported(r) /\ ~ (Single(r) /\ d # NoNode)
  BY <1>3, <1>7 DEF Settled
<1>8. CASE /\ resolved[r] = NoNode /\ ~ Reported(r) /\ d = NoNode
           /\ ~ Single(r) \/ Blinded(r)
  BY <1>3, <1>5, <1>8 DEF Settled
<1> QED
  BY <1>2, <1>6, <1>7, <1>8 DEF Settled

\* Looking a name up concerns no other.
LEMMA BindOther ==
  ASSUME TypeOK, NEW r \in Nodes, NEW stack, NEW report \in BOOLEAN,
         Bind(r, stack, report), NEW q \in Nodes, q # r
  PROVE  resolved'[q] = resolved[q] /\ (Reported(q)' <=> Reported(q))
<1>1. resolved'[q] = resolved[q]
  <2>1. resolved' = resolved \/ \E v : resolved' = [resolved EXCEPT ![r] = v]
    BY DEF Bind
  <2> QED
    BY <2>1 DEF TypeOK
<1>2. ASSUME NEW m PROVE <<m, q>> \in errors' <=> <<m, q>> \in errors
  <2>1. PICK e, u, v : e = <<m, q>> /\ u = <<"undefined name", r>> /\ v = <<"undefined member", r>>
    OBVIOUS
  <2>2. errors' = errors \/ errors' = errors \cup {u} \/ errors' = errors \cup {v}
    BY <2>1 DEF Bind
  <2>3. e # u /\ e # v
    BY <2>1
  <2>4. e \in errors' <=> e \in errors
    BY <2>2, <2>3
  <2> QED
    BY <2>1, <2>4
<1>3. Reported(q)' <=> Reported(q)
  BY <1>2 DEF Reported, Messages
<1> QED
  BY <1>1, <1>3

\* A name that is looked up is settled by that.
LEMMA ResolveSettles ==
  ASSUME TypeOK, TypeOK', Nested, ScopesFilled, WildcardsTried,
         NEW n \in References, Resolve(n), resolved[n] = NoNode, ~ Reported(n),
         Final, Owed' \subseteq Owed
  PROVE  Settled(n)'
<1>1. /\ todo # <<>> /\ Head(todo).node = n /\ Head(todo).op \notin {"declare", "leave"}
      /\ Bind(n, scopes, TRUE) /\ ast' = ast
  BY DEF Resolve, Calls
<1>2. /\ n \in Nodes /\ ast[n].parts \in Seq(STRING) /\ ast[n].parts # <<>>
  BY ReferenceIs
<1>3. IsAst(ast) /\ Nodes = DOMAIN ast /\ NoNode \notin Nodes
  BY TreeIsAst, NodesAreNumbers
<1>4. Complete(ast, scopes)
  BY <1>1, FilledHead DEF Complete
<1>5. OwnersOf(scopes) = Enclosing(ast, n)
  BY <1>1, NestedHead DEF Before
<1>6. PICK d : d = Meant(n) /\ d \in Nodes \cup {NoNode}
  BY ReferenceIs
<1>7. PICK path, k : path = Path(n, scopes) /\ k = Len(ast[n].parts)
  OBVIOUS
<1>8. PICK x : x = ast[n].parts[1]
  OBVIOUS
<1>9. lookupChain(scopes, x) = d
  BY <1>4, <1>5, <1>6, <1>8, ChainIs DEF Meant
<1>10. /\ path[1] \in Nodes \cup {NoNode}
       /\ d # NoNode => path[1] = d
  <2>1. path[1] = IF d # NoNode THEN d ELSE searchWildcardImports(scopes, x)
    BY <1>2, <1>7, <1>8, <1>9, PathHead
  <2>2. searchWildcardImports(scopes, x) \in Nodes \cup {NoNode}
    BY <1>4, WildcardType
  <2> QED
    BY <1>6, <2>1, <2>2
<1>12. Meant(n)' = d /\ (Single(n)' <=> k = 1) /\ (Single(n) <=> k = 1)
  BY <1>1, <1>6, <1>7, SameTree DEF Single
<1>13. PICK seen : seen = derefAlias(ast, resolved, path[k])
  OBVIOUS
<1>14. CASE /\ path[k] \in Nodes
            /\ resolved' = [resolved EXCEPT ![n] = IF seen \in Nodes THEN seen ELSE path[k]]
            /\ UNCHANGED errors
  <2>1. resolved'[n] = IF seen \in Nodes THEN seen ELSE path[k]
    BY <1>2, <1>14 DEF TypeOK
  <2>2. resolved'[n] # NoNode
    BY <1>3, <1>14, <2>1
  <2>3. ~ Reported(n)'
    BY <1>14 DEF Reported
  <2>4. ASSUME k = 1, d # NoNode PROVE resolved'[n] \in {d, derefAlias(ast', resolved', d)}
    <3>1. path[k] = d
      BY <1>10, <2>4
    <3>2. CASE seen \in Nodes
      <4>1. resolved \in Bindings(ast) /\ resolved' \in Bindings(ast)
        BY <1>1, <1>3 DEF TypeOK, Bindings, Nodes
      <4>2. Extends(ast, resolved', resolved)
        BY <1>3 DEF Final, Extends
      <4>3. derefAlias(ast, resolved, d) = seen /\ seen # NoNode
        BY <1>3, <1>13, <3>1, <3>2
      <4>4. derefAlias(ast, resolved', d) = seen
        BY <1>3, <1>6, <4>1, <4>2, <4>3, DerefStays
      <4> QED
        BY <1>1, <2>1, <3>2, <4>4
    <3>3. CASE seen \notin Nodes
      BY <2>1, <3>1, <3>3
    <3> QED
      BY <3>2, <3>3
  <2> QED
    BY <1>12, <2>2, <2>3, <2>4 DEF Settled
<1>15. CASE /\ path[1] = NoNode
            /\ errors' = IF k = 1 /\ ~ anyUnresolvedWildcardInScope(scopes)
                         THEN errors \cup {<<"undefined name", n>>} ELSE errors
            /\ UNCHANGED resolved
  <2>1. d = NoNode /\ resolved'[n] = NoNode
    BY <1>6, <1>10, <1>15
  <2>2. CASE k = 1 /\ ~ anyUnresolvedWildcardInScope(scopes)
    <3>1. Reported(n)'
      <4>1. <<"undefined name", n>> \in errors'
        BY <1>15, <2>2
      <4> QED
        BY <4>1 DEF Reported, Messages
    <3> QED
      BY <1>12, <2>1, <3>1 DEF Settled
  <2>3. CASE ~ (k = 1 /\ ~ anyUnresolvedWildcardInScope(scopes))
    <3>1. ~ Reported(n)'
      BY <1>15, <2>3 DEF Reported
    <3>2. ASSUME k = 1 PROVE Blinded(n)'
      <4>1. PICK i \in DOMAIN scopes : \E m \in Range(scopes[i].wild) : resolved[ast[m].links[1]] = NoNode
        BY <2>3, <3>2 DEF anyUnresolvedWildcardInScope
      <4>2. PICK m \in Range(scopes[i].wild) : resolved[ast[m].links[1]] = NoNode
        BY <4>1
      <4>3. Tried(m)'
        BY DEF WildcardsTried, Tried
      <4>4. /\ m \in Range(ast[scopes[i].owner].members)
            /\ ast[m].kind = "import" /\ ast[m].wildcard
        BY <1>4, WildIs
      <4>5. scopes[i].owner \in Range(Enclosing(ast, n))
        <5>1. PICK chain : chain = OwnersOf(scopes)
          OBVIOUS
        <5>2. i \in DOMAIN chain /\ chain[i] = scopes[i].owner
          BY <5>1 DEF OwnersOf
        <5>3. chain[i] \in Range(chain)
          BY <5>2 DEF Range
        <5> QED
          BY <1>5, <5>1, <5>2, <5>3
      <4>6. m \in ImportsAround(n)
        BY <4>4, <4>5 DEF ImportsAround
      <4>7. m \in ImportsAround(n)'
        BY <1>1, <4>6, SameTree
      <4>8. resolved'[ast'[m].links[1]] = NoNode
        BY <1>1, <1>15, <4>2
      <4> QED
        BY <4>3, <4>7, <4>8 DEF Blinded
    <3> QED
      BY <1>12, <2>1, <3>1, <3>2 DEF Settled
  <2> QED
    BY <2>2, <2>3
<1>16. CASE /\ path[1] # NoNode
            /\ path[k] \notin Nodes
            /\ errors' = errors \cup {<<"undefined member", n>>}
            /\ UNCHANGED resolved
  <2>1. k # 1
    BY <1>10, <1>16
  <2>2. resolved'[n] = NoNode
    BY <1>16
  <2>3. Reported(n)'
    <3>1. <<"undefined member", n>> \in errors'
      BY <1>16
    <3> QED
      BY <3>1 DEF Reported, Messages
  <2> QED
    BY <1>12, <2>1, <2>2, <2>3 DEF Settled
<1>17. \/ /\ path[k] \in Nodes
          /\ resolved' = [resolved EXCEPT ![n] = IF seen \in Nodes THEN seen ELSE path[k]]
          /\ UNCHANGED errors
       \/ /\ path[1] = NoNode
          /\ errors' = IF k = 1 /\ ~ anyUnresolvedWildcardInScope(scopes)
                       THEN errors \cup {<<"undefined name", n>>} ELSE errors
          /\ UNCHANGED resolved
       \/ /\ path[1] # NoNode
          /\ path[k] \notin Nodes
          /\ errors' = errors \cup {<<"undefined member", n>>}
          /\ UNCHANGED resolved
  BY <1>1, <1>7, <1>13 DEF Bind
<1> QED
  BY <1>14, <1>15, <1>16, <1>17

\* The target of an import is looked up for that import alone.
LEMMA ImportLink ==
  ASSUME TypeOK, NEW m \in Nodes, ast[m].kind = "import"
  PROVE  LET l == ast[m].links[1]
         IN  l \in Nodes /\ Owner(ast, l) = m /\ l \notin Looked(ast)
<1>1. IsAst(ast) /\ Nodes = DOMAIN ast
  BY TreeIsAst
<1>2. PICK links \in Seq(DOMAIN ast) : links = ast[m].links /\ Len(links) = 1
  BY <1>1, AstLists DEF IsAst, IsShaped
<1>3. links[1] \in Range(links)
  BY <1>2, LenProperties DEF Range
<1>4. Range(links) \subseteq Range(Children(ast, m))
  <2>1. Apart(ast, m)
    BY <1>1, ListsApart
  <2> QED
    BY <1>2, <2>1 DEF Apart
<1>5. Owner(ast, links[1]) = m /\ links[1] \in DOMAIN ast
  BY <1>1, <1>3, <1>4, OwnerOf, OneOwner
<1>6. links[1] \notin Looked(ast)
  <2>1. m # NoNode
    BY <1>1, NodesAreNumbers
  <2> QED
    BY <1>5, <2>1 DEF Looked
<1> QED
  BY <1>1, <1>2, <1>5, <1>6

LEMMA AroundIs ==
  ASSUME TypeOK, NEW r \in Nodes, NEW m \in ImportsAround(r)
  PROVE  m \in Nodes /\ ast[m].kind = "import"
<1>1. IsAst(ast) /\ Nodes = DOMAIN ast
  BY TreeIsAst
<1>2. PICK p \in Range(Enclosing(ast, r)) : m \in Range(ast[p].members) /\ ast[m].kind = "import"
  BY DEF ImportsAround
<1>3. Enclosing(ast, r) \in Seq(DOMAIN ast)
  BY <1>1, EnclosingIs
<1>4. p \in DOMAIN ast
  BY <1>2, <1>3, LenProperties, ElementOfSeq DEF Range
<1>5. ast[p].members \in Seq(DOMAIN ast)
  BY <1>1, <1>4, AstLists
<1>6. m \in DOMAIN ast
  BY <1>2, <1>5, LenProperties, ElementOfSeq DEF Range
<1> QED
  BY <1>1, <1>2, <1>6

\* Every step keeps the names settled that have been looked up.
LEMMA StepSettles ==
  /\ TypeOK /\ Nested /\ ScopesFilled /\ EachOnce
  /\ WildcardsTried /\ NamesSettled /\ [Next]_vars
  => NamesSettled'
<1> SUFFICES ASSUME TypeOK, Nested, ScopesFilled, EachOnce, WildcardsTried,
                    NamesSettled, [Next]_vars
             PROVE  NamesSettled'
  OBVIOUS
<1>1. CASE UNCHANGED vars
  <2>1. /\ ast' = ast /\ resolved' = resolved /\ Owed' = Owed
        /\ \A r : Reported(r)' <=> Reported(r)
        /\ Final /\ TypeOK'
    BY <1>1, StepType DEF vars, Owed, Reported, Final
  <2> SUFFICES ASSUME NEW r \in References
               PROVE  IF <<"look", r>> \in Owed'
                      THEN resolved'[r] = NoNode /\ ~ Reported(r)'
                      ELSE Settled(r)'
    BY <2>1, SameTree DEF NamesSettled
  <2>2. CASE <<"look", r>> \in Owed
    BY <2>1, <2>2 DEF NamesSettled
  <2>3. CASE <<"look", r>> \notin Owed
    <3>1. Settled(r)
      BY <2>3 DEF NamesSettled
    <3> QED
      BY <2>1, <2>3, <3>1, StaysSettled
  <2> QED
    BY <2>2, <2>3
<1>2. CASE Step
  <2>1. PICK n \in Nodes : \/ DeclareImport(n) \/ DeclareName(n) \/ Enter(n) \/ Leave(n)
                           \/ Visit(n) \/ Descend(n) \/ SkipRedefinition(n) \/ Resolve(n)
    BY <1>2, CurrentType DEF Step
  <2>2. Owed' = Owed \ Paid /\ ast' = ast /\ TypeOK' /\ Final /\ todo # <<>>
    BY <1>2, StepPays, StepCalls, StepType, StepFinal DEF Next
  <2> SUFFICES ASSUME NEW r \in References
               PROVE  IF <<"look", r>> \in Owed'
                      THEN resolved'[r] = NoNode /\ ~ Reported(r)'
                      ELSE Settled(r)'
    BY <2>2, SameTree DEF NamesSettled
  <2>3. /\ r \in Nodes /\ ast[r].kind = "qname" /\ ast[Owner(ast, r)].kind # "import"
    BY ReferenceIs
  <2>4. /\ Head(todo) \in Item(Ops, Nodes)
        /\ Fits(ast, Head(todo))
        /\ Paid \subseteq Owed
    <3>1. Owes(ast, Head(todo)) \subseteq Owed
      BY <2>2, TreeIsAst, DividesTail DEF EachOnce, Work
    <3> QED
      BY <2>2, <3>1, HeadFits
  <2>5. ASSUME <<"look", r>> \notin Paid,
               resolved'[r] = resolved[r], Reported(r)' <=> Reported(r),
               \A m \in ImportsAround(r) : Tried(m)
                 => resolved'[ast[m].links[1]] = resolved[ast[m].links[1]]
        PROVE  IF <<"look", r>> \in Owed'
               THEN resolved'[r] = NoNode /\ ~ Reported(r)'
               ELSE Settled(r)'
    <3>1. CASE <<"look", r>> \in Owed
      BY <2>2, <2>5, <3>1 DEF NamesSettled
    <3>2. CASE <<"look", r>> \notin Owed
      <4>1. Settled(r) /\ Owed' \subseteq Owed
        BY <2>2, <3>2 DEF NamesSettled
      <4>2. Settled(r)'
        BY <2>2, <2>5, <4>1, StaysSettled
      <4> QED
        BY <2>2, <3>2, <4>2
    <3> QED
      BY <3>1, <3>2
  <2>6. CASE Resolve(n)
    <3>1. /\ Head(todo).node = n /\ Head(todo).op \in Look /\ Bind(n, scopes, TRUE)
      BY <2>6 DEF Resolve, Calls, Look
    <3>2. Paid = {<<"look", n>>} /\ n \in Looked(ast)
      BY <2>4, <3>1 DEF Paid, Fits
    <3>3. CASE r = n
      <4>1. resolved[n] = NoNode /\ ~ Reported(n)
        BY <2>4, <3>2, <3>3 DEF NamesSettled
      <4>2. Settled(n)'
        BY <2>2, <2>6, <3>3, <4>1, ResolveSettles
      <4> QED
        BY <2>2, <3>2, <3>3, <4>2
    <3>4. CASE r # n
      <4>1. resolved'[r] = resolved[r] /\ (Reported(r)' <=> Reported(r))
        BY <2>3, <3>1, <3>4, BindOther
      <4>2. ASSUME NEW m \in ImportsAround(r)
            PROVE  resolved'[ast[m].links[1]] = resolved[ast[m].links[1]]
        <5>1. ast[m].links[1] \in Nodes /\ ast[m].links[1] # n
          BY <2>3, <3>2, AroundIs, ImportLink
        <5> QED
          BY <3>1, <5>1, BindOther
      <4> QED
        BY <2>5, <3>2, <3>4, <4>1, <4>2
    <3> QED
      BY <3>3, <3>4
  <2>7. CASE DeclareImport(n)
    <3>1. /\ Head(todo).node = n /\ Head(todo).op = "declare"
          /\ ast[n].kind = "import"
      BY <2>7 DEF DeclareImport, Calls
    <3>2. Paid = {<<"declare", n>>}
      BY <3>1 DEF Paid, Look
    <3>3. PICK l \in Nodes : l = ast[n].links[1] /\ Owner(ast, l) = n
      BY <3>1, ImportLink
    <3>4. ASSUME NEW q \in Nodes, q # l
          PROVE  resolved'[q] = resolved[q] /\ (Reported(q)' <=> Reported(q))
      <4>1. PICK stack : Bind(l, stack, FALSE)
        BY <2>7, <3>3 DEF DeclareImport
      <4> QED
        BY <3>4, <4>1, BindOther
    <3>5. r # l
      BY <2>3, <3>1, <3>3
    <3>6. ASSUME NEW m \in ImportsAround(r), Tried(m)
          PROVE  resolved'[ast[m].links[1]] = resolved[ast[m].links[1]]
      <4>1. m # n
        BY <2>4, <3>2, <3>6 DEF Tried
      <4>2. ast[m].links[1] \in Nodes /\ Owner(ast, ast[m].links[1]) = m
        BY <2>3, AroundIs, ImportLink
      <4> QED
        BY <3>3, <3>4, <4>1, <4>2
    <3>7. <<"look", r>> \notin Paid
      BY <3>2
    <3> QED
      BY <2>3, <2>5, <3>4, <3>5, <3>6, <3>7
  <2>8. CASE DeclareName(n)
    <3>1. /\ Head(todo).node = n /\ Head(todo).op = "declare" /\ resolved' = resolved
      BY <2>8 DEF DeclareName, Calls
    <3>2. Paid = {<<"declare", n>>}
      BY <3>1 DEF Paid, Look
    <3>3. r # n
      <4>1. n \in Listed(ast)
        BY <2>2, <3>1, DeclaresMember
      <4>2. PICK p \in DOMAIN ast : n \in Range(ast[p].members)
        BY <4>1 DEF Listed
      <4>3. ast[n].kind \notin ExprKinds
        BY <4>2, TreeIsAst, Shapes
      <4> QED
        BY <2>3, <4>3 DEF ExprKinds
    <3>4. Reported(r)' <=> Reported(r)
      <4>1. ASSUME NEW m PROVE <<m, r>> \in errors' <=> <<m, r>> \in errors
        <5>1. PICK e, u : e = <<m, r>> /\ u = <<"duplicate name", n>>
          OBVIOUS
        <5>2. errors' = errors \/ errors' = errors \cup {u}
          BY <2>8, <5>1 DEF DeclareName
        <5>3. e # u
          BY <3>3, <5>1
        <5>4. e \in errors' <=> e \in errors
          BY <5>2, <5>3
        <5> QED
          BY <5>1, <5>4
      <4> QED
        BY <4>1 DEF Reported, Messages
    <3>5. <<"look", r>> \notin Paid
      BY <3>2
    <3> QED
      BY <2>5, <3>1, <3>4, <3>5
  <2>9. CASE Enter(n) \/ Leave(n) \/ Visit(n) \/ Descend(n) \/ SkipRedefinition(n)
    <3>1. resolved' = resolved /\ errors' = errors /\ Head(todo).node = n
      BY <2>9 DEF Enter, Leave, Visit, Descend, SkipRedefinition, Calls
    <3>2. <<"look", r>> \notin Paid
      <4>1. CASE Enter(n) \/ Leave(n)
        <5>1. Head(todo).op \in {"enter", "leave"}
          BY <4>1 DEF Enter, Leave, Calls
        <5>2. Paid = {}
          BY <5>1 DEF Paid, Look
        <5> QED
          BY <5>2
      <4>2. CASE Visit(n) \/ Descend(n) \/ SkipRedefinition(n)
        <5>1. Head(todo).op \in Look
          BY <4>2 DEF Visit, Descend, SkipRedefinition, Calls, Look
        <5>2. Paid = {<<"look", n>>}
          BY <3>1, <5>1 DEF Paid
        <5>3. r # n
          <6>1. CASE Visit(n)
            <7>1. ast[n].kind \notin ExprKinds
              BY <2>4, <3>1, <6>1 DEF Visit, Calls, Fits
            <7> QED
              BY <2>3, <7>1 DEF ExprKinds
          <6>2. CASE Descend(n)
            BY <2>3, <6>2 DEF Descend
          <6>3. CASE SkipRedefinition(n)
            <7>1. n \in Range(ast[Owner(ast, n)].redefines) /\ Len(ast[n].parts) = 1
              BY <2>4, <3>1, <6>3 DEF SkipRedefinition, Calls, Fits
            <7> QED
              BY <7>1 DEF References
          <6> QED
            BY <4>2, <6>1, <6>2, <6>3
        <5> QED
          BY <5>2, <5>3
      <4> QED
        BY <2>9, <4>1, <4>2
    <3>3. Reported(r)' <=> Reported(r)
      BY <3>1 DEF Reported
    <3> QED
      BY <2>5, <3>1, <3>2, <3>3
  <2> QED
    BY <2>1, <2>6, <2>7, <2>8, <2>9
<1> QED
  BY <1>1, <1>2 DEF Next, Finished

\* Every step keeps the scopes' imports tried.
LEMMA StepTries ==
  TypeOK /\ ScopesFilled /\ EachOnce /\ WildcardsTried /\ [Next]_vars => WildcardsTried'
<1> SUFFICES ASSUME TypeOK, ScopesFilled, EachOnce, WildcardsTried, [Next]_vars
             PROVE  WildcardsTried'
  OBVIOUS
<1>1. CASE UNCHANGED vars
  BY <1>1 DEF vars, WildcardsTried, Tried, Owed
<1>2. CASE Step
  <2>1. PICK n \in Nodes : \/ DeclareImport(n) \/ DeclareName(n) \/ Enter(n) \/ Leave(n)
                           \/ Visit(n) \/ Descend(n) \/ SkipRedefinition(n) \/ Resolve(n)
    BY <1>2, CurrentType DEF Step
  <2>2. Owed' = Owed \ Paid /\ todo # <<>>
    BY <1>2, StepPays, StepCalls
  <2>3. \A m : Tried(m) => Tried(m)'
    BY <2>2 DEF Tried
  <2>4. ASSUME NEW i \in DOMAIN scopes', NEW m \in Range(scopes'[i].wild),
               m \notin Range(scopes[i].wild) \/ i \notin DOMAIN scopes
        PROVE  Tried(m)'
    <3>1. PICK l \in Nat : l = Len(scopes) /\ DOMAIN scopes = 1 .. l
      BY LenProperties DEF TypeOK
    <3>2. CASE DeclareImport(n)
      <4>1. /\ Head(todo).node = n /\ Head(todo).op = "declare"
        BY <3>2 DEF DeclareImport, Calls
      <4>2. Paid = {<<"declare", n>>}
        BY <4>1 DEF Paid, Look
      <4>3. m = n
        <5>1. CASE ast[n].wildcard
          <6>1. scopes' = [scopes EXCEPT ![l].wild = Append(@, n)]
            BY <3>1, <3>2, <5>1, Zenon DEF DeclareImport
          <6>2. i \in DOMAIN scopes
            BY <2>4, <6>1
          <6>3. scopes[i] \in Scope(Nodes)
            BY <6>2 DEF TypeOK
          <6>4. PICK wild \in Seq(Nodes) : wild = scopes[i].wild
            BY <6>3 DEF Scope
          <6>5. scopes'[i].wild = wild \/ scopes'[i].wild = Append(wild, n)
            <7>1. CASE i = l
              <8>1. scopes'[i] = [scopes[i] EXCEPT !.wild = Append(scopes[i].wild, n)]
                BY <6>1, <6>2, <7>1, Zenon
              <8>2. scopes'[i].wild = Append(scopes[i].wild, n)
                BY <6>3, <8>1 DEF Scope
              <8> QED
                BY <6>4, <8>2
            <7>2. CASE i # l
              <8>1. scopes'[i] = scopes[i]
                BY <6>1, <6>2, <7>2
              <8> QED
                BY <6>4, <8>1
            <7> QED
              BY <7>1, <7>2
          <6>6. Range(Append(wild, n)) = Range(wild) \cup {n}
            BY RangeAppend
          <6> QED
            BY <2>4, <6>2, <6>4, <6>5, <6>6
        <5>2. CASE ~ ast[n].wildcard
          BY <2>4, <3>2, <5>2 DEF DeclareImport
        <5> QED
          BY <5>1, <5>2
      <4> QED
        BY <2>2, <4>2, <4>3 DEF Tried
    <3>3. CASE DeclareName(n)
      <4>1. scopes' = scopes \/ scopes' = [scopes EXCEPT ![l].symbols = @ \cup {n}]
        BY <3>1, <3>3, Zenon DEF DeclareName
      <4>2. i \in DOMAIN scopes
        BY <2>4, <4>1
      <4>3. scopes[i] \in Scope(Nodes)
        BY <4>2 DEF TypeOK
      <4>4. scopes'[i].wild = scopes[i].wild
        <5>1. CASE scopes' = scopes
          BY <5>1
        <5>2. CASE scopes' = [scopes EXCEPT ![l].symbols = @ \cup {n}]
          <6>1. scopes'[i] = scopes[i] \/ \E u : scopes'[i] = [scopes[i] EXCEPT !.symbols = u]
            BY <4>2, <5>2
          <6> QED
            BY <4>3, <6>1 DEF Scope
        <5> QED
          BY <4>1, <5>1, <5>2
      <4> QED
        BY <2>4, <4>2, <4>4
    <3>4. CASE Enter(n)
      <4>1. scopes' = Append(scopes, NewScope(n))
        BY <3>4 DEF Enter
      <4>2. /\ DOMAIN scopes' = 1 .. l + 1
            /\ \A j \in 1 .. l : scopes'[j] = scopes[j]
            /\ scopes'[l + 1] = NewScope(n)
        <5>1. NewScope(n) \in Scope(Nodes) /\ scopes \in Seq(Scope(Nodes))
          BY DEF NewScope, Scope, TypeOK
        <5> QED
          BY <3>1, <4>1, <5>1, AppendProperties
      <4>3. i \in 1 .. l \/ i = l + 1
        BY <2>4, <4>2
      <4>4. CASE i \in 1 .. l
        BY <2>4, <3>1, <4>2, <4>4
      <4>5. CASE i = l + 1
        <5>1. scopes'[i].wild = <<>>
          BY <4>2, <4>5 DEF NewScope
        <5>2. Range(<<>>) = {}
          BY DEF Range
        <5> QED
          BY <2>4, <5>1, <5>2
      <4> QED
        BY <4>3, <4>4, <4>5
    <3>5. CASE Leave(n)
      <4>1. scopes' = Front(scopes)
        BY <3>5 DEF Leave
      <4>2. scopes' = [j \in 1 .. l - 1 |-> scopes[j]]
        BY <3>1, <4>1 DEF Front
      <4>3. i \in 1 .. l - 1 /\ scopes'[i] = scopes[i]
        BY <2>4, <4>2
      <4>4. i \in 1 .. l
        BY <4>3
      <4> QED
        BY <2>4, <3>1, <4>3, <4>4
    <3>6. CASE Visit(n) \/ Descend(n) \/ SkipRedefinition(n) \/ Resolve(n)
      BY <2>4, <3>6 DEF Visit, Descend, SkipRedefinition, Resolve
    <3> QED
      BY <2>1, <3>2, <3>3, <3>4, <3>5, <3>6
  <2> QED
    BY <2>3, <2>4 DEF WildcardsTried
<1> QED
  BY <1>1, <1>2 DEF Next, Finished

LEMMA InitSettled == Init => WildcardsTried /\ NamesSettled
<1> SUFFICES ASSUME Init PROVE WildcardsTried /\ NamesSettled
  OBVIOUS
<1>1. IsAst(ast) /\ Root \in DOMAIN ast /\ Nodes = DOMAIN ast /\ TypeOK
  BY InitType, TreeIsAst, NodesAreNumbers
<1>2. WildcardsTried
  <2>1. DOMAIN scopes = {1} /\ scopes[1].wild = <<>>
    BY DEF Init, RootScope, NewScope
  <2>2. Range(<<>>) = {}
    BY DEF Range
  <2> QED
    BY <2>1, <2>2 DEF WildcardsTried
<1>3. ASSUME NEW r \in References
      PROVE  <<"look", r>> \in Owed /\ resolved[r] = NoNode /\ ~ Reported(r)
  <2>1. /\ r \in DOMAIN ast /\ ast[r].kind = "qname" /\ ast[r].given = NoNode
        /\ Root \in Lineage(ast, r) /\ ast[Owner(ast, r)].kind # "import"
    BY <1>1 DEF References
  <2>2. resolved[r] = NoNode /\ ~ Reported(r)
    BY <1>1, <2>1 DEF Init, Reported
  <2>3. r # Root /\ r \in Looked(ast) /\ r \in Below(ast, Root)
    BY <1>1, <2>1 DEF IsAst, Looked, Below
  <2>4. <<"look", r>> \in TasksBelow(ast, {Root})
    BY <2>3 DEF TasksBelow, Tasks
  <2>5. <<"look", r>> \in TasksBelow(ast, Range(Children(ast, Root)))
    BY <1>1, <2>3, <2>4, TasksOf
  <2> QED
    BY <2>2, <2>5, InitOnce
<1> QED
  BY <1>2, <1>3 DEF NamesSettled

----------------------------------------------------------------------------
(***************************************************************************)
(* What the walk has established when it is over.                          *)
(***************************************************************************)
Bound == /\ TypeOK /\ Nested /\ ScopesFilled /\ EachOnce
         /\ WildcardsTried /\ NamesSettled

LEMMA BoundHolds == Spec => []Bound
<1>1. Init => Bound
  BY InitType, InitNested, InitFilled, InitOnce, InitSettled DEF Bound
<1>2. Bound /\ [Next]_vars => Bound'
  BY StepType, StepNested, StepFilled, StepOnce, StepTries, StepSettles DEF Bound
<1> QED
  BY <1>1, <1>2, PTL DEF Spec

LEMMA AllSettled ==
  ASSUME Bound, Done, NEW r \in References
  PROVE  Settled(r)
BY DoneOwesNothing DEF Bound, NamesSettled

\* ScopingIsOrderFree (lookupChain, resolveQualifiedNameImpl): a name of one
\* segment is bound to the innermost declaration around it, or to what that
\* stands for, wherever in the file it is declared.
THEOREM NamesMeanTheInnermost == Spec => []ScopingIsOrderFree
<1>1. Bound => ScopingIsOrderFree
  <2> SUFFICES ASSUME Bound, Done, NEW r \in References, Single(r), Meant(r) # NoNode
               PROVE  resolved[r] \in {Meant(r), derefAlias(ast, resolved, Meant(r))} \ {NoNode}
    BY DEF ScopingIsOrderFree, Single, Meant
  <2>1. Settled(r)
    BY AllSettled
  <2> QED
    BY <2>1 DEF Settled
<1> QED
  BY <1>1, BoundHolds, PTL

\* UnboundIsReportedOrDeferred (resolveQualifiedNameImpl): every name of the
\* program is met, and one that stays unbound is reported, or is one of those
\* the resolver leaves to others on purpose; a bound one is not reported.
THEOREM NoNameFallsThrough == Spec => []UnboundIsReportedOrDeferred
<1>1. Bound => UnboundIsReportedOrDeferred
  <2> SUFFICES ASSUME Bound, Done, NEW r \in References
               PROVE  /\ Reported(r) => resolved[r] = NoNode
                      /\ resolved[r] = NoNode =>
                           \/ Reported(r)
                           \/ Len(ast[r].parts) > 1 /\ Meant(r) = NoNode
                           \/ \E m \in ImportsAround(r) : resolved[ast[m].links[1]] = NoNode
    BY DEF UnboundIsReportedOrDeferred, Reported, Meant
  <2>1. Settled(r)
    BY AllSettled
  <2>2. ~ Single(r) => Len(ast[r].parts) > 1
    <3>1. PICK parts \in Seq(STRING) : parts = ast[r].parts /\ parts # <<>>
      BY ReferenceIs DEF Bound
    <3>2. PICK k \in Nat : k = Len(parts) /\ k # 0
      BY <3>1, LenProperties, EmptySeq
    <3>3. k = Len(ast[r].parts)
      BY <3>1, <3>2, Zenon
    <3>4. k # 1 => k > 1
      BY <3>2
    <3> QED
      BY <3>3, <3>4 DEF Single
  <2> QED
    BY <2>1, <2>2 DEF Settled, Blinded
<1> QED
  BY <1>1, BoundHolds, PTL
=============================================================================
