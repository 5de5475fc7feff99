-------------------------- MODULE Coverage_proofs ---------------------------
(***************************************************************************)
(* Proofs about what the resolver's walk reaches, for every set of         *)
(* well-formed trees: every declaration and every name is met once.  So    *)
(* all duplicates are reported.                                            *)
(***************************************************************************)
EXTENDS Resolver_proofs

----------------------------------------------------------------------------
(***************************************************************************)
(* What a call owes: the declarations and the names it is to meet, with    *)
(* all calls it leads to.                                                  *)
(***************************************************************************)
\* The members of all bodies: what is declared.
Listed(t) == UNION {Range(t[p].members) : p \in DOMAIN t}

\* What is visited, and the names that are looked up: all but the targets of
\* imports, which are tried when the import is declared.
Looked(t) == {x \in DOMAIN t : Owner(t, x) # NoNode => t[Owner(t, x)].kind # "import"}

\* All there is to do: a look at what is to be looked at, and a declaration.
ToDeclare(N) == {<<"declare", c>> : c \in N}

Tasks(t) == {<<"look", x>> : x \in Looked(t)} \cup ToDeclare(Listed(t))

\* What there is to do with the nodes in N and all nodes below them.
TasksBelow(t, N) == {k \in Tasks(t) : \E c \in N : k[2] \in Below(t, c)}

Look == {"visit", "ref", "redef", "expr"}

\* A node that is looked at has been declared before, if it is to be.
Owes(t, call) ==
  IF call.op \in Look
  THEN TasksBelow(t, {call.node}) \ {<<"declare", call.node>>}
  ELSE IF call.op = "enter" THEN TasksBelow(t, Inside(t, call.node))
  ELSE IF call.op = "declare" THEN {<<"declare", call.node>>} ELSE {}

\* The calls together owe T, and no two of them the same.
Divides(t, calls, T) ==
  /\ T = UNION {Owes(t, calls[i]) : i \in DOMAIN calls}
  /\ \A i, j \in DOMAIN calls : i # j => Owes(t, calls[i]) \cap Owes(t, calls[j]) = {}

\* Two lists of calls that share nothing.
LEMMA DividesConcat ==
  ASSUME NEW S, NEW f \in Seq(S), NEW g \in Seq(S), NEW t, NEW A, NEW B,
         Divides(t, f, A), Divides(t, g, B), A \cap B = {}
  PROVE  Divides(t, f \o g, A \cup B)
<1>1. PICK c : c = f \o g
  OBVIOUS
<1>2. /\ Len(f) \in Nat /\ DOMAIN f = 1 .. Len(f)
      /\ Len(g) \in Nat /\ DOMAIN g = 1 .. Len(g)
      /\ DOMAIN c = 1 .. Len(f) + Len(g)
      /\ \A i \in 1 .. Len(f) + Len(g) :
           c[i] = IF i <= Len(f) THEN f[i] ELSE g[i - Len(f)]
  BY <1>1, ConcatProperties, LenProperties
<1>3. \A i \in DOMAIN c : \/ i \in DOMAIN f /\ c[i] = f[i]
                          \/ i - Len(f) \in DOMAIN g /\ c[i] = g[i - Len(f)]
  BY <1>2
<1>4. /\ \A i \in DOMAIN f : i \in DOMAIN c /\ c[i] = f[i]
      /\ \A i \in DOMAIN g : i + Len(f) \in DOMAIN c /\ c[i + Len(f)] = g[i]
  BY <1>2
<1>5. A \cup B = UNION {Owes(t, c[i]) : i \in DOMAIN c}
  BY <1>3, <1>4 DEF Divides
<1>6. ASSUME NEW i \in DOMAIN c, NEW j \in DOMAIN c, i # j
      PROVE  Owes(t, c[i]) \cap Owes(t, c[j]) = {}
  <2>1. CASE i \in DOMAIN f /\ c[i] = f[i] /\ j \in DOMAIN f /\ c[j] = f[j]
    BY <1>6, <2>1 DEF Divides
  <2>2. CASE i \in DOMAIN f /\ c[i] = f[i] /\ j - Len(f) \in DOMAIN g /\ c[j] = g[j - Len(f)]
    <3>1. Owes(t, c[i]) \subseteq A /\ Owes(t, c[j]) \subseteq B
      BY <2>2 DEF Divides
    <3> QED
      BY <3>1
  <2>3. CASE j \in DOMAIN f /\ c[j] = f[j] /\ i - Len(f) \in DOMAIN g /\ c[i] = g[i - Len(f)]
    <3>1. Owes(t, c[j]) \subseteq A /\ Owes(t, c[i]) \subseteq B
      BY <2>3 DEF Divides
    <3> QED
      BY <3>1
  <2>4. CASE /\ i - Len(f) \in DOMAIN g /\ c[i] = g[i - Len(f)]
             /\ j - Len(f) \in DOMAIN g /\ c[j] = g[j - Len(f)]
    <3>1. i - Len(f) # j - Len(f)
      BY <1>2, <1>6
    <3> QED
      BY <2>4, <3>1 DEF Divides
  <2> QED
    BY <1>3, <2>1, <2>2, <2>3, <2>4
<1>7. Divides(t, c, A \cup B)
  BY <1>5, <1>6 DEF Divides
<1> QED
  BY <1>1, <1>7

\* What is left when the first call is taken away.
LEMMA DividesTail ==
  ASSUME NEW S, NEW f \in Seq(S), f # <<>>, NEW t, NEW A, Divides(t, f, A)
  PROVE  /\ Owes(t, Head(f)) \subseteq A
         /\ Divides(t, Tail(f), A \ Owes(t, Head(f)))
<1>1. PICK c \in Seq(S) : c = Tail(f)
  BY HeadTailProperties
<1>2. PICK l \in Nat : l = Len(f)
  BY LenProperties
<1>3. /\ l > 0 /\ DOMAIN f = 1 .. l /\ DOMAIN c = 1 .. l - 1
      /\ \A i \in 1 .. l - 1 : c[i] = f[i + 1]
      /\ Head(f) = f[1]
  BY <1>1, <1>2, HeadTailProperties, LenProperties, EmptySeq
<1>4. \A i \in DOMAIN f : i = 1 \/ (i - 1 \in DOMAIN c /\ c[i - 1] = f[i])
  BY <1>2, <1>3
<1>5. 1 \in DOMAIN f /\ \A i \in DOMAIN c : i + 1 \in DOMAIN f /\ i + 1 # 1 /\ c[i] = f[i + 1]
  BY <1>2, <1>3
<1>6. Owes(t, f[1]) \subseteq A
  BY <1>5 DEF Divides
<1>7. \A i \in DOMAIN c : Owes(t, c[i]) \subseteq A \ Owes(t, f[1])
  <2> SUFFICES ASSUME NEW i \in DOMAIN c PROVE Owes(t, c[i]) \subseteq A \ Owes(t, f[1])
    OBVIOUS
  <2>1. PICK j \in DOMAIN f : j = i + 1 /\ j # 1 /\ c[i] = f[j]
    BY <1>5
  <2>2. Owes(t, f[j]) \subseteq A /\ Owes(t, f[j]) \cap Owes(t, f[1]) = {}
    BY <1>5, <2>1 DEF Divides
  <2> QED
    BY <2>1, <2>2
<1>8. \A x \in A \ Owes(t, f[1]) : \E i \in DOMAIN c : x \in Owes(t, c[i])
  <2> SUFFICES ASSUME NEW x \in A, x \notin Owes(t, f[1])
               PROVE  \E i \in DOMAIN c : x \in Owes(t, c[i])
    OBVIOUS
  <2>1. PICK j \in DOMAIN f : x \in Owes(t, f[j])
    BY DEF Divides
  <2>2. j # 1
    BY <2>1
  <2>3. j - 1 \in DOMAIN c /\ c[j - 1] = f[j]
    BY <1>4, <2>2
  <2> QED
    BY <2>1, <2>3
<1>9. A \ Owes(t, f[1]) = UNION {Owes(t, c[i]) : i \in DOMAIN c}
  BY <1>7, <1>8
<1>10. ASSUME NEW i \in DOMAIN c, NEW j \in DOMAIN c, i # j
       PROVE  Owes(t, c[i]) \cap Owes(t, c[j]) = {}
  <2>1. i + 1 # j + 1
    BY <1>3, <1>10
  <2> QED
    BY <1>5, <2>1 DEF Divides
<1> QED
  BY <1>1, <1>3, <1>6, <1>9, <1>10 DEF Divides

\* No call and one call.
LEMMA DividesFew ==
  ASSUME NEW t
  PROVE  /\ Divides(t, <<>>, {})
         /\ \A call : Divides(t, <<call>>, Owes(t, call))
BY DEF Divides

----------------------------------------------------------------------------
(***************************************************************************)
(* What the calls to the children of a node owe.                           *)
(***************************************************************************)
\* Different children, different tasks.
LEMMA TasksApart ==
  ASSUME NEW t, IsAst(t), NEW n \in DOMAIN t,
         NEW C \in SUBSET Range(Children(t, n)), NEW D \in SUBSET Range(Children(t, n)),
         C \cap D = {}
  PROVE  /\ TasksBelow(t, C) \cap TasksBelow(t, D) = {}
         /\ TasksBelow(t, C \cup D) = TasksBelow(t, C) \cup TasksBelow(t, D)
         /\ \A k : <<k, n>> \notin TasksBelow(t, C)
<1>1. \A c \in C, d \in D : Below(t, c) \cap Below(t, d) = {}
  BY BelowApart
<1>2. \A c \in C : n \notin Below(t, c)
  BY BelowApart
<1> QED
  BY <1>1, <1>2 DEF TasksBelow

\* What is below a node: the node, and what is below its children.
LEMMA TasksOf ==
  ASSUME NEW t, IsAst(t), NEW n \in DOMAIN t
  PROVE  TasksBelow(t, {n}) = {k \in Tasks(t) : k[2] = n} \cup TasksBelow(t, Range(Children(t, n)))
<1>1. \A x : x \in Below(t, n) <=> (x = n \/ \E c \in Range(Children(t, n)) : x \in Below(t, c))
  BY BelowIs
<1> QED
  BY <1>1 DEF TasksBelow

\* A child is listed if it is a member.
LEMMA ListedChild ==
  ASSUME NEW t, IsAst(t), NEW n \in DOMAIN t, NEW c \in Range(Children(t, n))
  PROVE  c \in Listed(t) <=> c \in Range(t[n].members)
<1>1. \A p \in DOMAIN t : Range(t[p].members) \subseteq Range(Children(t, p))
  BY ListsApart DEF Apart
<1> QED
  BY <1>1, OneOwner DEF Listed

\* A look at each of the nodes ns.
LEMMA LooksDivide ==
  ASSUME NEW t, IsAst(t), NEW n \in DOMAIN t,
         NEW ns \in Seq(DOMAIN t), IsInjective(ns), Range(ns) \subseteq Range(Children(t, n)),
         NEW S, NEW f \in Seq(S), Len(f) = Len(ns),
         \A i \in 1 .. Len(ns) : f[i].op \in Look /\ f[i].node = ns[i]
  PROVE  Divides(t, f, TasksBelow(t, Range(ns)) \ ToDeclare(Range(ns)))
<1>1. /\ DOMAIN f = 1 .. Len(ns) /\ DOMAIN ns = 1 .. Len(ns)
      /\ \A i, j \in 1 .. Len(ns) : ns[i] = ns[j] => i = j
      /\ Range(ns) = {ns[i] : i \in 1 .. Len(ns)}
  BY LenProperties DEF IsInjective, Range
<1> DEFINE C == Range(ns)
           Own(c) == TasksBelow(t, {c}) \ {<<"declare", c>>}
<1>2. \A i \in 1 .. Len(ns) : Owes(t, f[i]) = Own(ns[i])
  BY DEF Owes
<1>3. ASSUME NEW c \in C, NEW d \in C, c # d PROVE /\ TasksBelow(t, {c}) \cap TasksBelow(t, {d}) = {}
                                                   /\ <<"declare", d>> \notin TasksBelow(t, {c})
  <2>1. TasksBelow(t, {c}) \cap TasksBelow(t, {d}) = {}
    <3>1. {c} \cap {d} = {} /\ {c} \in SUBSET Range(Children(t, n)) /\ {d} \in SUBSET Range(Children(t, n))
      BY <1>3
    <3> QED
      BY <3>1, TasksApart
  <2>2. d \in Below(t, d) /\ d \notin Below(t, c)
    <3>1. d \in DOMAIN t
      BY OneOwner
    <3>2. d \in Below(t, d)
      BY <3>1, LineageUp DEF Below
    <3> QED
      BY <1>3, <3>2, BelowApart
  <2>3. <<"declare", d>> \notin TasksBelow(t, {c})
    BY <2>2 DEF TasksBelow
  <2> QED
    BY <2>1, <2>3
<1>4. TasksBelow(t, C) = UNION {TasksBelow(t, {c}) : c \in C}
  BY DEF TasksBelow
<1>5. TasksBelow(t, C) \ ToDeclare(C) = UNION {Own(c) : c \in C}
  <2>1. ASSUME NEW x \in TasksBelow(t, C), x \notin ToDeclare(C)
        PROVE  \E c \in C : x \in Own(c)
    <3>1. PICK c \in C : x \in TasksBelow(t, {c})
      BY <1>4
    <3>2. x # <<"declare", c>>
      BY <2>1 DEF ToDeclare
    <3> QED
      BY <3>1, <3>2
  <2>2. ASSUME NEW c \in C, NEW x \in Own(c)
        PROVE  x \in TasksBelow(t, C) /\ x \notin ToDeclare(C)
    <3>1. x \in TasksBelow(t, {c}) /\ x # <<"declare", c>>
      OBVIOUS
    <3>2. ASSUME NEW d \in C PROVE x # <<"declare", d>>
      BY <1>3, <3>1
    <3> QED
      BY <1>4, <3>1, <3>2 DEF ToDeclare
  <2> HIDE DEF Own, C
  <2> QED
    BY <2>1, <2>2
<1>6. \A c, d \in C : c # d => Own(c) \cap Own(d) = {}
  BY <1>3
<1>7. \A c : c \in C <=> \E i \in 1 .. Len(ns) : c = ns[i]
  BY <1>1
<1> HIDE DEF Own, C
<1>8. UNION {Own(c) : c \in C} = UNION {Own(ns[i]) : i \in 1 .. Len(ns)}
  BY <1>7
<1> QED
  BY <1>1, <1>2, <1>5, <1>6, <1>7, <1>8 DEF Divides, C

\* A declaration of each of the nodes ns.
LEMMA DeclaresDivide ==
  ASSUME NEW N, NEW ns \in Seq(N), IsInjective(ns), NEW t
  PROVE  Divides(t, DoAll("declare", ns), ToDeclare(Range(ns)))
<1>1. PICK f : f = DoAll("declare", ns)
  OBVIOUS
<1>2. /\ DOMAIN f = 1 .. Len(ns) /\ DOMAIN ns = 1 .. Len(ns)
      /\ \A i \in 1 .. Len(ns) : f[i].op = "declare" /\ f[i].node = ns[i]
      /\ \A i, j \in 1 .. Len(ns) : ns[i] = ns[j] => i = j
      /\ Range(ns) = {ns[i] : i \in 1 .. Len(ns)}
  BY <1>1, DoAllIs DEF IsInjective, Range
<1>3. \A i \in 1 .. Len(ns) : Owes(t, f[i]) = {<<"declare", ns[i]>>}
  BY <1>2 DEF Owes, Look
<1>4. ToDeclare(Range(ns)) = UNION {Owes(t, f[i]) : i \in 1 .. Len(ns)}
  BY <1>2, <1>3 DEF ToDeclare
<1>5. ASSUME NEW i \in 1 .. Len(ns), NEW j \in 1 .. Len(ns), i # j
      PROVE  Owes(t, f[i]) \cap Owes(t, f[j]) = {}
  BY <1>2, <1>3, <1>5
<1>6. Divides(t, f, ToDeclare(Range(ns)))
  BY <1>2, <1>4, <1>5 DEF Divides
<1> QED
  BY <1>1, <1>6

----------------------------------------------------------------------------
(***************************************************************************)
(* The calls of a handler owe what its own call has owed, but for the node *)
(* it was called with.                                                     *)
(***************************************************************************)
\* The handler is made for the kind of the node.
Fits(t, call) ==
  /\ call.op \in Look => call.node \in Looked(t)
  /\ call.op = "visit" => t[call.node].kind \notin ExprKinds \cup {"program"}
  /\ call.op = "expr" => t[call.node].kind \in ExprKinds
  /\ call.op \in {"ref", "redef"} => t[call.node].kind = "qname"
  /\ call.op = "redef" => call.node \in Range(t[Owner(t, call.node)].redefines)

AllFit(t, calls) == \A i \in DOMAIN calls : Fits(t, calls[i])

LEMMA FitConcat ==
  ASSUME NEW S, NEW f \in Seq(S), NEW g \in Seq(S), NEW t, AllFit(t, f), AllFit(t, g)
  PROVE  AllFit(t, f \o g)
<1>1. PICK c : c = f \o g
  OBVIOUS
<1>2. /\ Len(f) \in Nat /\ DOMAIN f = 1 .. Len(f)
      /\ Len(g) \in Nat /\ DOMAIN g = 1 .. Len(g)
      /\ DOMAIN c = 1 .. Len(f) + Len(g)
      /\ \A i \in 1 .. Len(f) + Len(g) :
           c[i] = IF i <= Len(f) THEN f[i] ELSE g[i - Len(f)]
  BY <1>1, ConcatProperties, LenProperties
<1>3. \A i \in DOMAIN c : \/ i \in DOMAIN f /\ c[i] = f[i]
                          \/ i - Len(f) \in DOMAIN g /\ c[i] = g[i - Len(f)]
  BY <1>2
<1>4. AllFit(t, c)
  BY <1>3 DEF AllFit
<1> QED
  BY <1>1, <1>4

\* What the lists of a node of some kind are, and what is in them.
LEMMA Shapes ==
  ASSUME NEW t, IsAst(t), NEW n \in DOMAIN t
  PROVE  LET k == t[n].kind
         IN  /\ k \notin {"program", "package", "definition", "usage"} => t[n].members = <<>>
             /\ k \notin {"usage", "attribute", "return"} => t[n].types = <<>>
             /\ k \notin {"definition", "usage", "attribute", "return"} => t[n].specializes = <<>>
             /\ k \notin {"definition", "usage", "attribute"} => t[n].redefines = <<>>
             /\ k # "usage" => t[n].ends = <<>>
             /\ k \notin {"alias", "import", "comment", "dependency", "transition",
                          "lifecycle", "succession"} => t[n].links = <<>>
             /\ k # "succession" => t[n].targets = <<>>
             /\ k \notin {"usage", "attribute", "return", "transition"} => t[n].value = <<>>
             /\ k \notin {"definition", "usage"} => t[n].body = <<>>
             /\ k \notin {"binary", "unary", "call", "access"} => t[n].args = <<>>
             /\ \A c \in Range(t[n].members) : t[c].kind \notin ExprKinds \cup {"program"}
             /\ \A c \in Range(t[n].types) : t[c].kind = "qname"
             /\ \A c \in Range(t[n].specializes) : t[c].kind = "qname"
             /\ \A c \in Range(t[n].redefines) : t[c].kind = "qname"
             /\ \A c \in Range(t[n].ends) : t[c].kind = "qname"
             /\ \A c \in Range(t[n].links) : t[c].kind = "qname"
             /\ \A c \in Range(t[n].targets) : t[c].kind \in {"qname", "usage"}
             /\ \A c \in Range(t[n].value) : t[c].kind \in ExprKinds
             /\ \A c \in Range(t[n].body) : t[c].kind \in ExprKinds
             /\ \A c \in Range(t[n].args) : t[c].kind \in ExprKinds
<1>1. IsShaped(t, n)
  BY DEF IsAst
<1>2. \A s : s = <<>> => Range(s) = {}
  BY DEF Range
<1> QED
  BY <1>1, <1>2 DEF IsShaped

\* The list of calls meets the nodes in C, children of n that are no members,
\* and all below them.
Meets(t, n, f, C) == /\ f \in Work
                     /\ C \subseteq Range(Children(t, n))
                     /\ Divides(t, f, TasksBelow(t, C))
                     /\ AllFit(t, f)

LEMMA MeetsConcat ==
  ASSUME NEW t, IsAst(t), NEW n \in DOMAIN t, NEW f, NEW g, NEW C, NEW D,
         Meets(t, n, f, C), Meets(t, n, g, D), C \cap D = {}
  PROVE  Meets(t, n, f \o g, C \cup D)
<1>1. f \in Work /\ g \in Work /\ f \o g \in Work
  BY ConcatProperties DEF Meets, Work
<1>2. /\ TasksBelow(t, C) \cap TasksBelow(t, D) = {}
      /\ TasksBelow(t, C \cup D) = TasksBelow(t, C) \cup TasksBelow(t, D)
  BY TasksApart DEF Meets
<1>3. Divides(t, f \o g, TasksBelow(t, C) \cup TasksBelow(t, D))
  BY <1>1, <1>2, DividesConcat DEF Meets, Work
<1>4. AllFit(t, f \o g)
  BY <1>1, FitConcat DEF Meets, Work
<1> QED
  BY <1>1, <1>2, <1>3, <1>4 DEF Meets

\* A look at each child in a list of children that are no members.
LEMMA LooksMeet ==
  ASSUME NEW t, IsAst(t), NEW n \in DOMAIN t, t[n].kind # "import",
         NEW ns \in Seq(DOMAIN t), IsInjective(ns), Range(ns) \subseteq Range(Children(t, n)),
         Range(ns) \cap Range(t[n].members) = {},
         NEW f \in Work, Len(f) = Len(ns),
         \A i \in 1 .. Len(ns) : /\ f[i].node = ns[i]
                                 /\ \/ /\ f[i].op = "visit"
                                       /\ t[ns[i]].kind \notin ExprKinds \cup {"program"}
                                    \/ f[i].op = "expr" /\ t[ns[i]].kind \in ExprKinds
                                    \/ f[i].op = "ref" /\ t[ns[i]].kind = "qname"
                                    \/ /\ f[i].op = "redef" /\ t[ns[i]].kind = "qname"
                                       /\ ns[i] \in Range(t[n].redefines)
  PROVE  Meets(t, n, f, Range(ns))
<1>1. \A i \in 1 .. Len(ns) : f[i].op \in Look /\ f[i].node = ns[i]
  BY DEF Look
<1>2. TasksBelow(t, Range(ns)) \cap ToDeclare(Range(ns)) = {}
  <2>1. \A c \in Range(ns) : c \notin Listed(t)
    BY ListedChild
  <2> QED
    BY <2>1 DEF TasksBelow, ToDeclare, Tasks
<1>3. Divides(t, f, TasksBelow(t, Range(ns)))
  <2>1. Divides(t, f, TasksBelow(t, Range(ns)) \ ToDeclare(Range(ns)))
    BY <1>1, LooksDivide DEF Work
  <2>2. TasksBelow(t, Range(ns)) \ ToDeclare(Range(ns)) = TasksBelow(t, Range(ns))
    BY <1>2
  <2> QED
    BY <2>1, <2>2
<1>4. ASSUME NEW i \in DOMAIN f PROVE Fits(t, f[i])
  <2>0. DOMAIN f = 1 .. Len(ns) /\ DOMAIN ns = 1 .. Len(ns)
    BY LenProperties DEF Work
  <2>1. i \in 1 .. Len(ns) /\ ns[i] \in Range(Children(t, n))
    BY <2>0 DEF Range
  <2>2. Owner(t, ns[i]) = n /\ ns[i] \in DOMAIN t
    BY <2>1, OwnerOf, OneOwner
  <2>3. ns[i] \in Looked(t)
    BY <2>2 DEF Looked
  <2> QED
    BY <1>1, <2>1, <2>2, <2>3 DEF Fits
<1> QED
  BY <1>3, <1>4 DEF Meets, AllFit

\* The calls that resolveNode makes, and the scope it opens, if the node is no
\* expression.
LEMMA CallsMeet ==
  ASSUME ast \in Programs, NEW n \in Nodes, ast[n].kind \notin ExprKinds \cup {"program"}
  PROVE  /\ Divides(ast, CallsOf(n), TasksBelow(ast, Range(Children(ast, n))))
         /\ AllFit(ast, CallsOf(n))
         /\ CallsOf(n) \in Work
<1> DEFINE k == ast[n].kind
           M(f, C) == Meets(ast, n, f, C)
           header == DoAll("ref", ast[n].types) \o DoAll("ref", ast[n].specializes)
                     \o DoAll("redef", ast[n].redefines)
           inner == IF ast[n].members # <<>>
                    THEN <<Do("enter", n)>> ELSE <<>>
           targets == [i \in DOMAIN ast[n].targets |->
                         Do(IF ast[ast[n].targets[i]].kind = "qname"
                            THEN "ref" ELSE "visit", ast[n].targets[i])]
<1>0. IsAst(ast) /\ n \in DOMAIN ast /\ Nodes = DOMAIN ast
  BY ProgramsAssumption DEF Nodes
<1>1. PICK m, y, s, r, e, l, g, v, b, a :
        /\ m = Range(ast[n].members) /\ y = Range(ast[n].types)
        /\ s = Range(ast[n].specializes) /\ r = Range(ast[n].redefines)
        /\ e = Range(ast[n].ends) /\ l = Range(ast[n].links)
        /\ g = Range(ast[n].targets) /\ v = Range(ast[n].value)
        /\ b = Range(ast[n].body) /\ a = Range(ast[n].args)
  OBVIOUS
<1>2. /\ Range(Children(ast, n)) = m \cup y \cup s \cup r \cup e \cup l \cup g \cup v \cup b \cup a
      /\ m \cap (y \cup s \cup r \cup e \cup l \cup g \cup v \cup b \cup a) = {}
      /\ y \cap (s \cup r \cup e \cup l \cup g \cup v \cup b \cup a) = {}
      /\ s \cap (r \cup e \cup l \cup g \cup v \cup b \cup a) = {}
      /\ r \cap (e \cup l \cup g \cup v \cup b \cup a) = {}
      /\ e \cap (l \cup g \cup v \cup b \cup a) = {}
      /\ l \cap (g \cup v \cup b \cup a) = {}
      /\ g \cap (v \cup b \cup a) = {}
      /\ v \cap (b \cup a) = {}
      /\ b \cap a = {}
  <2>1. Apart(ast, n)
    BY <1>0, ListsApart
  <2> QED
    BY <1>1, <2>1, Zenon DEF Apart
<1>3. /\ k \notin {"program", "package", "definition", "usage"} => m = {}
      /\ k \notin {"usage", "attribute", "return"} => y = {}
      /\ k \notin {"definition", "usage", "attribute", "return"} => s = {}
      /\ k \notin {"definition", "usage", "attribute"} => r = {}
      /\ k # "usage" => e = {}
      /\ k \notin {"alias", "import", "comment", "dependency", "transition",
                   "lifecycle", "succession"} => l = {}
      /\ k # "succession" => g = {}
      /\ k \notin {"usage", "attribute", "return", "transition"} => v = {}
      /\ k \notin {"definition", "usage"} => b = {}
      /\ a = {}
  <2>1. Range(<<>>) = {}
    BY DEF Range
  <2> QED
    BY <1>0, <1>1, <2>1, Shapes DEF ExprKinds
<1>4. ASSUME NEW op \in {"ref", "redef", "expr"}, NEW ns \in Seq(Nodes), IsInjective(ns),
             Range(ns) \subseteq Range(Children(ast, n)), Range(ns) \cap m = {}, k # "import",
             \A c \in Range(ns) : \/ op = "ref" /\ ast[c].kind = "qname"
                                  \/ op = "redef" /\ ast[c].kind = "qname" /\ c \in r
                                  \/ op = "expr" /\ ast[c].kind \in ExprKinds
      PROVE  M(DoAll(op, ns), Range(ns))
  <2>0. op \in Ops
    BY DEF Ops
  <2>1. PICK f \in Work : f = DoAll(op, ns)
    BY <2>0, DoAllType DEF Work
  <2>2. /\ Len(f) = Len(ns)
        /\ \A i \in 1 .. Len(ns) : ns[i] \in Range(ns) /\ f[i].op = op /\ f[i].node = ns[i]
    BY <2>1, DoAllIs
  <2>3. \A i \in 1 .. Len(ns) : /\ f[i].node = ns[i]
                                /\ \/ /\ f[i].op = "visit"
                                      /\ ast[ns[i]].kind \notin ExprKinds \cup {"program"}
                                   \/ f[i].op = "expr" /\ ast[ns[i]].kind \in ExprKinds
                                   \/ f[i].op = "ref" /\ ast[ns[i]].kind = "qname"
                                   \/ /\ f[i].op = "redef" /\ ast[ns[i]].kind = "qname"
                                      /\ ns[i] \in Range(ast[n].redefines)
    BY <1>1, <1>4, <2>2
  <2>4. Meets(ast, n, f, Range(ns))
    BY <1>0, <1>1, <1>4, <2>2, <2>3, LooksMeet
  <2> QED
    BY <2>1, <2>4
<1>5. /\ ast[n].types \in Seq(Nodes) /\ IsInjective(ast[n].types)
      /\ ast[n].specializes \in Seq(Nodes) /\ IsInjective(ast[n].specializes)
      /\ ast[n].redefines \in Seq(Nodes) /\ IsInjective(ast[n].redefines)
      /\ ast[n].ends \in Seq(Nodes) /\ IsInjective(ast[n].ends)
      /\ ast[n].links \in Seq(Nodes) /\ IsInjective(ast[n].links)
      /\ ast[n].targets \in Seq(Nodes) /\ IsInjective(ast[n].targets)
      /\ ast[n].value \in Seq(Nodes) /\ IsInjective(ast[n].value)
      /\ ast[n].body \in Seq(Nodes) /\ IsInjective(ast[n].body)
  BY <1>0, AstLists, ListsApart DEF Apart
<1>6. /\ \A c \in y \cup s \cup r \cup e \cup l : ast[c].kind = "qname"
      /\ \A c \in v \cup b : ast[c].kind \in ExprKinds
      /\ \A c \in g : ast[c].kind \in {"qname", "usage"}
  BY <1>0, <1>1, Shapes
<1>7. k # "import" => /\ M(DoAll("ref", ast[n].types), y)
                      /\ M(DoAll("ref", ast[n].specializes), s)
                      /\ M(DoAll("redef", ast[n].redefines), r)
                      /\ M(DoAll("ref", ast[n].ends), e)
                      /\ M(DoAll("ref", ast[n].links), l)
                      /\ M(DoAll("expr", ast[n].value), v)
                      /\ M(DoAll("expr", ast[n].body), b)
  <2> HIDE DEF M
  <2> SUFFICES ASSUME k # "import"
               PROVE  /\ M(DoAll("ref", ast[n].types), y)
                      /\ M(DoAll("ref", ast[n].specializes), s)
                      /\ M(DoAll("redef", ast[n].redefines), r)
                      /\ M(DoAll("ref", ast[n].ends), e)
                      /\ M(DoAll("ref", ast[n].links), l)
                      /\ M(DoAll("expr", ast[n].value), v)
                      /\ M(DoAll("expr", ast[n].body), b)
    OBVIOUS
  <2>1. \A c \in {y, s, r, e, l, g, v, b} : c \subseteq Range(Children(ast, n)) /\ c \cap m = {}
    BY <1>2
  <2>2. M(DoAll("ref", ast[n].types), y)
    BY <1>1, <1>4, <1>5, <1>6, <2>1
  <2>3. M(DoAll("ref", ast[n].specializes), s)
    BY <1>1, <1>4, <1>5, <1>6, <2>1
  <2>4. M(DoAll("redef", ast[n].redefines), r)
    BY <1>1, <1>4, <1>5, <1>6, <2>1
  <2>5. M(DoAll("ref", ast[n].ends), e)
    BY <1>1, <1>4, <1>5, <1>6, <2>1
  <2>6. M(DoAll("ref", ast[n].links), l)
    BY <1>1, <1>4, <1>5, <1>6, <2>1
  <2>7. M(DoAll("expr", ast[n].value), v)
    BY <1>1, <1>4, <1>5, <1>6, <2>1
  <2>8. M(DoAll("expr", ast[n].body), b)
    BY <1>1, <1>4, <1>5, <1>6, <2>1
  <2> QED
    BY <2>2, <2>3, <2>4, <2>5, <2>6, <2>7, <2>8
<1>8. k # "import" => M(targets, g)
  <2> SUFFICES ASSUME k # "import" PROVE M(targets, g)
    OBVIOUS
  <2>1. PICK f \in Work : f = targets
    BY TargetCallsType
  <2>2. /\ Len(f) = Len(ast[n].targets)
        /\ \A i \in 1 .. Len(ast[n].targets) :
             /\ ast[n].targets[i] \in g
             /\ f[i].node = ast[n].targets[i]
             /\ f[i].op = IF ast[ast[n].targets[i]].kind = "qname" THEN "ref" ELSE "visit"
    <3>1. DOMAIN ast[n].targets = 1 .. Len(ast[n].targets) /\ Len(ast[n].targets) \in Nat
      BY <1>5, LenProperties
    <3>2. DOMAIN f = 1 .. Len(ast[n].targets)
      BY <2>1, <3>1
    <3>3. Len(f) = Len(ast[n].targets)
      BY <2>1, <3>1, <3>2, LenProperties DEF Work
    <3> QED
      BY <1>1, <2>1, <3>1, <3>3 DEF Do, DoIn, Range
  <2>3. \A i \in 1 .. Len(ast[n].targets) :
          /\ f[i].node = ast[n].targets[i]
          /\ \/ /\ f[i].op = "visit"
                /\ ast[ast[n].targets[i]].kind \notin ExprKinds \cup {"program"}
             \/ f[i].op = "ref" /\ ast[ast[n].targets[i]].kind = "qname"
    BY <1>6, <2>2 DEF ExprKinds
  <2>4. g \subseteq Range(Children(ast, n)) /\ g \cap m = {}
    BY <1>2
  <2>5. Meets(ast, n, f, g)
    BY <1>0, <1>1, <1>5, <2>2, <2>3, <2>4, LooksMeet
  <2> QED
    BY <2>1, <2>5
<1>9. M(<<Do("enter", n)>>, Inside(ast, n))
  <2>1. <<Do("enter", n)>> \in Work
    BY DEF Work, Do, DoIn, Item, Ops
  <2>2. Owes(ast, Do("enter", n)) = TasksBelow(ast, Inside(ast, n))
    BY DEF Owes, Look, Do, DoIn
  <2>3. Divides(ast, <<Do("enter", n)>>, TasksBelow(ast, Inside(ast, n)))
    BY <2>2, DividesFew
  <2>4. AllFit(ast, <<Do("enter", n)>>)
    BY DEF AllFit, Fits, Look, Do, DoIn
  <2> QED
    BY <2>1, <2>3, <2>4 DEF Meets, Inside
<1>10. M(<<>>, {})
  <2>1. TasksBelow(ast, {}) = {}
    BY DEF TasksBelow
  <2> QED
    <3>1. Divides(ast, <<>>, TasksBelow(ast, {}))
      BY <2>1, DividesFew
    <3>2. <<>> \in Work /\ AllFit(ast, <<>>)
      BY DEF Work, AllFit
    <3> QED
      BY <3>1, <3>2 DEF Meets
<1>11. /\ m \subseteq Inside(ast, n)
       /\ k # "definition" => Inside(ast, n) = m
       /\ k = "definition" => Inside(ast, n) = m \cup b
  BY <1>1, <1>2 DEF Inside, Encloses
<1>12. \A f, h, C, D : M(f, C) /\ M(h, D) /\ C \cap D = {} => M(f \o h, C \cup D)
  BY <1>0, MeetsConcat
<1> HIDE DEF M, targets
<1>13. ASSUME NEW C, NEW f, f = CallsOf(n), M(f, C),
              TasksBelow(ast, C) = TasksBelow(ast, Range(Children(ast, n)))
       PROVE  /\ Divides(ast, CallsOf(n), TasksBelow(ast, Range(Children(ast, n))))
              /\ AllFit(ast, CallsOf(n))
              /\ CallsOf(n) \in Work
  BY <1>13 DEF Meets, M
<1>14. k # "import" => M(header, (y \cup s) \cup r)
  <2>1. y \cap s = {} /\ (y \cup s) \cap r = {}
    BY <1>2
  <2>2. k # "import" => M(DoAll("ref", ast[n].types) \o DoAll("ref", ast[n].specializes), y \cup s)
    BY <1>7, <1>12, <2>1
  <2> QED
    BY <1>7, <1>12, <2>1, <2>2
<1>15. M(inner, m) \/ k \notin {"usage"}
  <2>1. m = {} <=> ast[n].members = <<>>
    <3>1. Range(<<>>) = {}
      BY DEF Range
    <3>2. ast[n].members # <<>> => Range(ast[n].members) # {}
      BY <1>0, AstLists, RangeHeadTail
    <3> QED
      BY <1>1, <3>1, <3>2
  <2> QED
    BY <1>9, <1>10, <1>11, <2>1
<1> HIDE DEF header, inner
<1>16. CallsOf(n) =
         CASE k = "package"    -> <<Do("enter", n)>>
           [] k = "definition" -> header \o <<Do("enter", n)>>
           [] k = "usage"      -> header \o DoAll("ref", ast[n].ends)
                                  \o DoAll("expr", ast[n].value)
                                  \o DoAll("expr", ast[n].body) \o inner
           [] k = "attribute"  -> header \o DoAll("expr", ast[n].value)
           [] k = "return"     -> header \o DoAll("expr", ast[n].value)
           [] k \in {"alias", "comment", "dependency", "lifecycle"}
                               -> DoAll("ref", ast[n].links)
           [] k = "transition" -> DoAll("ref", ast[n].links)
                                  \o DoAll("expr", ast[n].value)
           [] k = "succession" -> DoAll("ref", ast[n].links) \o targets
           [] OTHER            -> <<>>
  BY DEF CallsOf, header, inner, targets
<1> DEFINE all == Range(Children(ast, n))
<1>17. CASE k = "package"
  <2>1. Inside(ast, n) = all
    BY <1>2, <1>3, <1>11, <1>17
  <2> QED
    BY <1>9, <1>13, <1>16, <1>17, <2>1
<1>18. CASE k = "definition"
  <2>1. ((y \cup s) \cup r) \cap Inside(ast, n) = {} /\ ((y \cup s) \cup r) \cup Inside(ast, n) = all
    BY <1>2, <1>3, <1>11, <1>18
  <2>2. M(header \o <<Do("enter", n)>>, all)
    BY <1>9, <1>12, <1>14, <1>18, <2>1
  <2> QED
    BY <1>13, <1>16, <1>18, <2>2
<1>19. CASE k = "usage"
  <2>1. /\ (y \cup s) \cup r \cup e \cup v \cup b \cup m = all
        /\ ((y \cup s) \cup r) \cap e = {}
        /\ (((y \cup s) \cup r) \cup e) \cap v = {}
        /\ ((((y \cup s) \cup r) \cup e) \cup v) \cap b = {}
        /\ (((((y \cup s) \cup r) \cup e) \cup v) \cup b) \cap m = {}
    BY <1>2, <1>3, <1>19
  <2>2. PICK C1, C2, C3, C4, C5 : /\ C1 = (y \cup s) \cup r
                                  /\ C2 = C1 \cup e /\ C3 = C2 \cup v
                                  /\ C4 = C3 \cup b /\ C5 = C4 \cup m
    OBVIOUS
  <2>3. M(header, C1)
    BY <1>14, <1>19, <2>2
  <2>4. M(header \o DoAll("ref", ast[n].ends), C2)
    BY <1>7, <1>12, <1>19, <2>1, <2>2, <2>3
  <2>5. M(header \o DoAll("ref", ast[n].ends) \o DoAll("expr", ast[n].value), C3)
    BY <1>7, <1>12, <1>19, <2>1, <2>2, <2>4
  <2>6. M(header \o DoAll("ref", ast[n].ends) \o DoAll("expr", ast[n].value)
          \o DoAll("expr", ast[n].body), C4)
    BY <1>7, <1>12, <1>19, <2>1, <2>2, <2>5
  <2>7. M(header \o DoAll("ref", ast[n].ends) \o DoAll("expr", ast[n].value)
          \o DoAll("expr", ast[n].body) \o inner, C5)
    BY <1>12, <1>15, <1>19, <2>1, <2>2, <2>6
  <2>8. C5 = all
    BY <2>1, <2>2
  <2> QED
    BY <1>13, <1>16, <1>19, <2>7, <2>8
<1>20. CASE k \in {"attribute", "return"}
  <2>1. ((y \cup s) \cup r) \cap v = {} /\ ((y \cup s) \cup r) \cup v = all
    BY <1>2, <1>3, <1>20
  <2>2. M(header \o DoAll("expr", ast[n].value), all)
    BY <1>7, <1>12, <1>14, <1>20, <2>1
  <2> QED
    BY <1>13, <1>16, <1>20, <2>2
<1>21. CASE k \in {"alias", "comment", "dependency", "lifecycle"}
  <2>1. l = all
    BY <1>2, <1>3, <1>21
  <2>2. M(DoAll("ref", ast[n].links), all)
    BY <1>7, <1>21, <2>1
  <2> QED
    BY <1>13, <1>16, <1>21, <2>2
<1>22. CASE k = "transition"
  <2>1. l \cap v = {} /\ l \cup v = all
    BY <1>2, <1>3, <1>22
  <2>2. M(DoAll("ref", ast[n].links) \o DoAll("expr", ast[n].value), all)
    BY <1>7, <1>12, <1>22, <2>1
  <2> QED
    BY <1>13, <1>16, <1>22, <2>2
<1>23. CASE k = "succession"
  <2>1. l \cap g = {} /\ l \cup g = all
    BY <1>2, <1>3, <1>23
  <2>2. M(DoAll("ref", ast[n].links) \o targets, all)
    BY <1>7, <1>8, <1>12, <1>23, <2>1
  <2> QED
    BY <1>13, <1>16, <1>23, <2>2
<1>24. CASE k \in {"import", "doc"}
  <2>1. CallsOf(n) = <<>>
    BY <1>16, <1>24
  <2>2. all = IF k = "import" THEN l ELSE {}
    BY <1>2, <1>3, <1>24
  <2>3. TasksBelow(ast, {}) = TasksBelow(ast, all)
    <3>1. ASSUME NEW c \in all, NEW x \in Below(ast, c), k = "import"
          PROVE  x \notin Looked(ast) /\ x \notin Listed(ast)
      <4>1. c \in DOMAIN ast /\ ast[c].kind = "qname" /\ Owner(ast, c) = n
        BY <1>0, <1>6, <2>2, <3>1, OneOwner, OwnerOf
      <4>2. Range(Children(ast, c)) = {}
        <5>1. Range(<<>>) = {}
          BY DEF Range
        <5> QED
          BY <1>0, <4>1, <5>1, ListsApart, Shapes DEF Apart
      <4>3. x = c
        BY <1>0, <4>1, <4>2, BelowIs
      <4>4. c \notin Listed(ast)
        BY <1>0, <1>1, <1>2, <2>2, <3>1, ListedChild
      <4> QED
        BY <1>0, <3>1, <4>1, <4>3, <4>4, NodesAreNumbers DEF Looked
    <3>2. TasksBelow(ast, all) = {}
      <4> SUFFICES ASSUME NEW x \in TasksBelow(ast, all) PROVE FALSE
        OBVIOUS
      <4>1. PICK c \in all : x[2] \in Below(ast, c)
        BY DEF TasksBelow
      <4>2. x[2] \in Looked(ast) \/ x[2] \in Listed(ast)
        BY DEF TasksBelow, Tasks, ToDeclare
      <4> QED
        BY <2>2, <3>1, <4>1, <4>2
    <3> QED
      BY <3>2 DEF TasksBelow
  <2> QED
    BY <1>10, <1>13, <2>1, <2>3
<1>25. k \in {"package", "definition", "usage", "attribute", "return", "alias", "comment",
              "dependency", "lifecycle", "transition", "succession", "import", "doc"}
  <2>1. k \in Kinds
    BY <1>0 DEF IsAst, NodeRecord
  <2> QED
    BY <2>1 DEF Kinds, NamingKinds
<1> QED
  BY <1>17, <1>18, <1>19, <1>20, <1>21, <1>22, <1>23, <1>24, <1>25

\* The calls that resolveExpression makes.
LEMMA ArgsMeet ==
  ASSUME ast \in Programs, NEW n \in Nodes, ast[n].kind \in ExprKinds
  PROVE  /\ Divides(ast, DoAll("expr", ast[n].args), TasksBelow(ast, Range(Children(ast, n))))
         /\ AllFit(ast, DoAll("expr", ast[n].args))
         /\ DoAll("expr", ast[n].args) \in Work
         /\ ast[n].kind = "qname" => Range(Children(ast, n)) = {}
<1>0. IsAst(ast) /\ n \in DOMAIN ast /\ Nodes = DOMAIN ast
  BY ProgramsAssumption DEF Nodes
<1>1. Range(<<>>) = {}
  BY DEF Range
<1>2. Range(Children(ast, n)) = Range(ast[n].args) /\ Range(ast[n].members) = {}
  <2>1. Apart(ast, n)
    BY <1>0, ListsApart
  <2>2. /\ ast[n].members = <<>> /\ ast[n].types = <<>> /\ ast[n].specializes = <<>>
        /\ ast[n].redefines = <<>> /\ ast[n].ends = <<>> /\ ast[n].links = <<>>
        /\ ast[n].targets = <<>> /\ ast[n].value = <<>> /\ ast[n].body = <<>>
    BY <1>0, Shapes DEF ExprKinds
  <2> QED
    BY <1>1, <2>1, <2>2 DEF Apart
<1>3. ast[n].args \in Seq(DOMAIN ast) /\ IsInjective(ast[n].args)
  BY <1>0, AstLists, ListsApart DEF Apart
<1>4. PICK f \in Work : f = DoAll("expr", ast[n].args)
  <2>1. "expr" \in Ops
    BY DEF Ops
  <2> QED
    BY <1>0, <1>3, <2>1, DoAllType DEF Work
<1>5. /\ Len(f) = Len(ast[n].args)
      /\ \A i \in 1 .. Len(ast[n].args) : /\ ast[n].args[i] \in Range(ast[n].args)
                                          /\ f[i].op = "expr"
                                          /\ f[i].node = ast[n].args[i]
  BY <1>3, <1>4, DoAllIs
<1>6. \A c \in Range(ast[n].args) : ast[c].kind \in ExprKinds
  BY <1>0, Shapes
<1>7. ast[n].kind # "import"
  BY DEF ExprKinds
<1>8. Meets(ast, n, f, Range(ast[n].args))
  <2>1. \A i \in 1 .. Len(ast[n].args) :
          /\ f[i].node = ast[n].args[i]
          /\ f[i].op = "expr" /\ ast[ast[n].args[i]].kind \in ExprKinds
    BY <1>5, <1>6
  <2> QED
    BY <1>0, <1>2, <1>3, <1>5, <1>7, <2>1, LooksMeet
<1>9. ast[n].kind = "qname" => ast[n].args = <<>>
  BY <1>0, Shapes
<1> QED
  BY <1>1, <1>2, <1>4, <1>8, <1>9 DEF Meets

\* The two phases over the members of a body.
LEMMA MembersMeet ==
  ASSUME ast \in Programs, NEW n \in Nodes
  PROVE  LET ms == ast[n].members
         IN  Meets(ast, n, DoAll("declare", ms) \o DoAll("visit", ms), Range(ms))
<1>0. IsAst(ast) /\ n \in DOMAIN ast /\ Nodes = DOMAIN ast
  BY ProgramsAssumption DEF Nodes
<1>1. PICK ms \in Seq(Nodes) : ms = ast[n].members
  BY <1>0, AstLists
<1>2. IsInjective(ms) /\ Range(ms) \subseteq Range(Children(ast, n))
  BY <1>0, <1>1, ListsApart DEF Apart
<1>3. PICK d \in Work, v \in Work : d = DoAll("declare", ms) /\ v = DoAll("visit", ms)
  <2>1. "declare" \in Ops /\ "visit" \in Ops
    BY DEF Ops
  <2> QED
    BY <2>1, DoAllType DEF Work
<1>4. Divides(ast, d, ToDeclare(Range(ms)))
  BY <1>2, <1>3, DeclaresDivide
<1>5. /\ Len(v) = Len(ms) /\ Len(d) = Len(ms)
      /\ DOMAIN v = 1 .. Len(ms) /\ DOMAIN d = 1 .. Len(ms)
      /\ \A i \in 1 .. Len(ms) : /\ ms[i] \in Range(ms)
                                 /\ d[i].op = "declare" /\ v[i].op = "visit"
                                 /\ v[i].node = ms[i]
  BY <1>3, DoAllIs
<1>6. Divides(ast, v, TasksBelow(ast, Range(ms)) \ ToDeclare(Range(ms)))
  <2>1. \A i \in 1 .. Len(ms) : v[i].op \in Look /\ v[i].node = ms[i]
    BY <1>5 DEF Look
  <2> QED
    BY <1>0, <1>2, <1>5, <2>1, LooksDivide DEF Work
<1>7. ToDeclare(Range(ms)) \subseteq TasksBelow(ast, Range(ms))
  <2> SUFFICES ASSUME NEW c \in Range(ms) PROVE <<"declare", c>> \in TasksBelow(ast, Range(ms))
    BY DEF ToDeclare
  <2>1. c \in Listed(ast)
    BY <1>0, <1>1 DEF Listed
  <2>2. c \in DOMAIN ast
    BY <1>0, <1>2, OneOwner
  <2>3. c \in Below(ast, c)
    BY <1>0, <2>2, LineageUp DEF Below
  <2> QED
    BY <2>1, <2>3 DEF TasksBelow, Tasks, ToDeclare
<1>8. Divides(ast, d \o v, TasksBelow(ast, Range(ms)))
  <2>1. PICK A, B : A = ToDeclare(Range(ms)) /\ B = TasksBelow(ast, Range(ms)) \ ToDeclare(Range(ms))
    OBVIOUS
  <2>2. A \cap B = {} /\ A \cup B = TasksBelow(ast, Range(ms))
    BY <1>7, <2>1
  <2>3. Divides(ast, d \o v, A \cup B)
    BY <1>4, <1>6, <2>1, <2>2, DividesConcat DEF Work
  <2> QED
    BY <2>2, <2>3
<1>9. AllFit(ast, d)
  BY <1>5 DEF AllFit, Fits, Look
<1>10. AllFit(ast, v)
  <2> SUFFICES ASSUME NEW i \in 1 .. Len(ms) PROVE Fits(ast, v[i])
    BY <1>5 DEF AllFit
  <2>1. ms[i] \in Range(ms) /\ ms # <<>>
    BY <1>1, <1>5, EmptySeq
  <2>2. ast[n].kind # "import" /\ ast[ms[i]].kind \notin ExprKinds \cup {"program"}
    BY <1>0, <1>1, <2>1, Shapes
  <2>3. Owner(ast, ms[i]) = n /\ ms[i] \in DOMAIN ast
    BY <1>0, <1>2, <2>1, OwnerOf, OneOwner
  <2> QED
    BY <1>5, <2>2, <2>3 DEF Fits, Looked
<1>11. d \o v \in Work /\ AllFit(ast, d \o v)
  BY <1>9, <1>10, FitConcat, ConcatProperties DEF Work
<1> QED
  BY <1>1, <1>2, <1>3, <1>8, <1>11 DEF Meets

\* A scope that is left owes nothing any more.
LEMMA LeaveMeets ==
  ASSUME ast \in Programs, NEW n \in Nodes
  PROVE  Meets(ast, n, <<Do("leave", n)>>, {})
<1>1. Owes(ast, Do("leave", n)) = {}
  BY DEF Owes, Look, Do, DoIn
<1>2. Divides(ast, <<Do("leave", n)>>, {})
  BY <1>1, DividesFew
<1>3. TasksBelow(ast, {}) = {}
  BY DEF TasksBelow
<1>4. AllFit(ast, <<Do("leave", n)>>)
  BY DEF AllFit, Fits, Look, Do, DoIn
<1>5. <<Do("leave", n)>> \in Work
  BY DEF Work, Do, DoIn, Item, Ops
<1> QED
  BY <1>2, <1>3, <1>4, <1>5 DEF Meets

\* The calls that resolveScopeBody makes.
LEMMA BodyMeets ==
  ASSUME ast \in Programs, NEW n \in Nodes
  PROVE  Meets(ast, n, DoAll("declare", ast[n].members) \o DoAll("visit", ast[n].members)
                       \o (IF ast[n].kind = "definition"
                           THEN DoAll("expr", ast[n].body) ELSE <<>>)
                       \o <<Do("leave", n)>>, Inside(ast, n))
<1>0. IsAst(ast) /\ n \in DOMAIN ast /\ Nodes = DOMAIN ast
  BY ProgramsAssumption DEF Nodes
<1>1. PICK m, b : m = Range(ast[n].members) /\ b = Range(ast[n].body)
  OBVIOUS
<1>2. /\ m \subseteq Range(Children(ast, n)) /\ b \subseteq Range(Children(ast, n))
      /\ m \cap b = {}
      /\ ast[n].body \in Seq(DOMAIN ast) /\ IsInjective(ast[n].body)
  <2>1. Apart(ast, n)
    BY <1>0, ListsApart
  <2>2. /\ m \subseteq Range(Children(ast, n)) /\ b \subseteq Range(Children(ast, n))
        /\ m \cap b = {}
    BY <1>1, <2>1 DEF Apart
  <2> QED
    BY <1>0, <2>1, <2>2, AstLists DEF Apart
<1>3. PICK dv : dv = DoAll("declare", ast[n].members) \o DoAll("visit", ast[n].members)
  OBVIOUS
<1>4. Meets(ast, n, dv, m)
  BY <1>1, <1>3, MembersMeet
<1>5. PICK e \in Work : e = DoAll("expr", ast[n].body)
  <2>1. "expr" \in Ops
    BY DEF Ops
  <2> QED
    BY <1>0, <1>2, <2>1, DoAllType DEF Work
<1>6. ast[n].kind = "definition" => Meets(ast, n, e, b)
  <2>1. /\ Len(e) = Len(ast[n].body)
        /\ \A i \in 1 .. Len(ast[n].body) : /\ ast[n].body[i] \in b
                                            /\ e[i].op = "expr"
                                            /\ e[i].node = ast[n].body[i]
    BY <1>1, <1>2, <1>5, DoAllIs
  <2>2. \A c \in b : ast[c].kind \in ExprKinds
    BY <1>0, <1>1, Shapes
  <2> QED
    BY <1>0, <1>1, <1>2, <2>1, <2>2, LooksMeet
<1>7. PICK last : last = <<Do("leave", n)>>
  OBVIOUS
<1>8. Meets(ast, n, last, {})
  BY <1>7, LeaveMeets
<1>9. PICK inside : inside = Inside(ast, n)
  OBVIOUS
<1>10. CASE ast[n].kind = "definition"
  <2>1. inside = m \cup b
    BY <1>1, <1>2, <1>9, <1>10 DEF Inside, Encloses
  <2>2. Meets(ast, n, dv \o e, inside)
    BY <1>0, <1>2, <1>4, <1>6, <1>10, <2>1, MeetsConcat
  <2>3. Meets(ast, n, (dv \o e) \o last, inside \cup {})
    BY <1>0, <1>8, <2>2, MeetsConcat
  <2>4. inside \cup {} = inside
    OBVIOUS
  <2> QED
    BY <1>3, <1>5, <1>7, <1>9, <1>10, <2>3, <2>4
<1>11. CASE ast[n].kind # "definition"
  <2>1. inside = m
    BY <1>1, <1>2, <1>9, <1>11 DEF Inside, Encloses
  <2>2. dv \o <<>> = dv
    BY <1>4, ConcatEmptySeq DEF Meets, Work
  <2>3. Meets(ast, n, dv \o last, inside \cup {})
    BY <1>0, <1>4, <1>8, <2>1, MeetsConcat
  <2>4. inside \cup {} = inside
    OBVIOUS
  <2> QED
    BY <1>3, <1>5, <1>7, <1>9, <1>11, <2>2, <2>3, <2>4
<1> QED
  BY <1>10, <1>11

----------------------------------------------------------------------------
(***************************************************************************)
(* Every task is done once: each step does one and leaves the others.      *)
(***************************************************************************)
\* What is still to be done.
Owed == UNION {Owes(ast, todo[i]) : i \in DOMAIN todo}

\* What the next call does itself.
Paid == LET n == Head(todo).node
        IN  IF Head(todo).op \in Look THEN {<<"look", n>>}
            ELSE IF Head(todo).op = "declare" THEN {<<"declare", n>>} ELSE {}

EachOnce == /\ Divides(ast, todo, Owed)
            /\ AllFit(ast, todo)
            /\ Owed \subseteq TasksBelow(ast, {Root})

\* A look owes itself and what is below the children.
LEMMA LookOwes ==
  ASSUME NEW t, IsAst(t), NEW n \in DOMAIN t, NEW call, call.op \in Look, call.node = n
  PROVE  /\ Owes(t, call) \ {<<"look", n>>} = TasksBelow(t, Range(Children(t, n)))
         /\ n \in Looked(t) => <<"look", n>> \in Owes(t, call)
<1>1. Owes(t, call) = TasksBelow(t, {n}) \ {<<"declare", n>>}
  BY DEF Owes
<1>2. TasksBelow(t, {n}) = {k \in Tasks(t) : k[2] = n} \cup TasksBelow(t, Range(Children(t, n)))
  BY TasksOf
<1>3. \A k : <<k, n>> \notin TasksBelow(t, Range(Children(t, n)))
  <2>1. PICK C \in SUBSET Range(Children(t, n)) : C = Range(Children(t, n))
    OBVIOUS
  <2>2. {} \in SUBSET Range(Children(t, n)) /\ C \cap {} = {}
    OBVIOUS
  <2> QED
    BY <2>1, <2>2, TasksApart
<1>4. \A k \in Tasks(t) : k[2] = n => k = <<"look", n>> \/ k = <<"declare", n>>
  BY DEF Tasks, ToDeclare
<1>5. n \in Looked(t) => <<"look", n>> \in Tasks(t)
  BY DEF Tasks
<1> QED
  BY <1>1, <1>2, <1>3, <1>4, <1>5

\* What the first call is.
LEMMA HeadFits ==
  ASSUME TypeOK, EachOnce, todo # <<>>
  PROVE  /\ Head(todo) \in Item(Ops, Nodes)
         /\ Head(todo).node \in DOMAIN ast
         /\ Fits(ast, Head(todo))
         /\ Paid \subseteq Owes(ast, Head(todo))
<1>1. todo \in Work /\ Nodes = DOMAIN ast /\ IsAst(ast)
  BY TreeIsAst
<1>2. PICK h : h = Head(todo) /\ h = todo[1] /\ 1 \in DOMAIN todo /\ h \in Item(Ops, Nodes)
  <2>1. Len(todo) \in Nat /\ Len(todo) > 0 /\ DOMAIN todo = 1 .. Len(todo)
    BY <1>1, EmptySeq, LenProperties DEF Work
  <2>2. Head(todo) \in Item(Ops, Nodes) /\ Head(todo) = todo[1]
    BY <1>1, HeadTailProperties DEF Work
  <2> QED
    BY <2>1, <2>2
<1>3. h.node \in DOMAIN ast
  BY <1>1, <1>2 DEF Item
<1>4. Fits(ast, h)
  BY <1>2 DEF EachOnce, AllFit
<1>5. Paid \subseteq Owes(ast, h)
  <2>1. CASE h.op \in Look
    <3>1. h.node \in Looked(ast)
      BY <1>4, <2>1 DEF Fits
    <3> QED
      BY <1>1, <1>2, <1>3, <2>1, <3>1, LookOwes DEF Paid
  <2>2. CASE h.op \notin Look
    BY <1>2, <2>2 DEF Paid, Owes
  <2> QED
    BY <2>1, <2>2
<1> QED
  BY <1>2, <1>3, <1>4, <1>5

\* The calls of a step owe what its own call owed but for its own task.
LEMMA StepCalls ==
  ASSUME TypeOK, EachOnce, Step
  PROVE  /\ todo # <<>> /\ ast' = ast
         /\ \E calls \in Work : /\ Then(calls)
                                /\ AllFit(ast, calls)
                                /\ Divides(ast, calls, Owes(ast, Head(todo)) \ Paid)
<1>0. IsAst(ast) /\ Nodes = DOMAIN ast /\ ast \in Programs
  BY TreeIsAst DEF TypeOK
<1>1. PICK n : n \in Current /\ \/ DeclareImport(n) \/ DeclareName(n) \/ Enter(n) \/ Leave(n)
                                \/ Visit(n) \/ Descend(n) \/ SkipRedefinition(n) \/ Resolve(n)
  BY DEF Step
<1>2. todo # <<>> /\ n = Head(todo).node
  BY <1>1 DEF Current
<1>3. n \in Nodes /\ Fits(ast, Head(todo)) /\ Head(todo).node = n
  BY <1>0, <1>2, HeadFits
<1>4. ast' = ast
  BY <1>1 DEF DeclareImport, DeclareName, Enter, Leave, Visit, Descend, SkipRedefinition, Resolve
<1> DEFINE Good(calls) == /\ calls \in Work
                          /\ Then(calls)
                          /\ AllFit(ast, calls)
                          /\ Divides(ast, calls, Owes(ast, Head(todo)) \ Paid)
<1>5. ASSUME Head(todo).op \in Look
      PROVE  Owes(ast, Head(todo)) \ Paid = TasksBelow(ast, Range(Children(ast, n)))
  <2>1. Paid = {<<"look", n>>}
    BY <1>3, <1>5 DEF Paid
  <2>2. PICK call : call = Head(todo)
    OBVIOUS
  <2>3. Owes(ast, call) \ {<<"look", n>>} = TasksBelow(ast, Range(Children(ast, n)))
    BY <1>0, <1>3, <1>5, <2>2, LookOwes
  <2> QED
    BY <2>1, <2>2, <2>3
<1>6. ASSUME Then(<<>>), Owes(ast, Head(todo)) \ Paid = {} PROVE Good(<<>>)
  <2>1. <<>> \in Work /\ AllFit(ast, <<>>)
    BY DEF Work, AllFit
  <2>2. Divides(ast, <<>>, {})
    BY DividesFew
  <2> QED
    BY <1>6, <2>1, <2>2
<1>7. CASE DeclareImport(n) \/ DeclareName(n)
  <2>1. Head(todo).op = "declare" /\ Then(<<>>)
    BY <1>7 DEF DeclareImport, DeclareName, Calls
  <2>2. Owes(ast, Head(todo)) \ Paid = {}
    BY <2>1 DEF Owes, Paid, Look
  <2> QED
    BY <1>2, <1>4, <1>6, <2>1, <2>2
<1>8. CASE Leave(n)
  <2>1. Head(todo).op = "leave" /\ Then(<<>>)
    BY <1>8 DEF Leave, Calls
  <2>2. Owes(ast, Head(todo)) \ Paid = {}
    BY <2>1 DEF Owes, Paid, Look
  <2> QED
    BY <1>2, <1>4, <1>6, <2>1, <2>2
<1>9. CASE Enter(n)
  <2>1. Head(todo).op = "enter"
    BY <1>9 DEF Enter, Calls
  <2>2. Owes(ast, Head(todo)) \ Paid = TasksBelow(ast, Inside(ast, n))
    BY <1>3, <2>1 DEF Owes, Paid, Look
  <2>3. PICK calls : calls = DoAll("declare", ast[n].members) \o DoAll("visit", ast[n].members)
                             \o (IF ast[n].kind = "definition"
                                 THEN DoAll("expr", ast[n].body) ELSE <<>>)
                             \o <<Do("leave", n)>>
    OBVIOUS
  <2>4. Then(calls)
    BY <1>9, <2>3 DEF Enter
  <2>5. Meets(ast, n, calls, Inside(ast, n))
    BY <1>0, <1>3, <2>3, BodyMeets
  <2> QED
    BY <1>2, <1>4, <2>2, <2>4, <2>5 DEF Meets
<1>10. CASE Visit(n)
  <2>1. Head(todo).op = "visit" /\ Head(todo).op \in Look
    BY <1>10 DEF Visit, Calls, Look
  <2>2. ast[n].kind \notin ExprKinds \cup {"program"}
    BY <1>3, <2>1 DEF Fits
  <2>3. PICK calls : calls = CallsOf(n)
    OBVIOUS
  <2>4. Then(calls)
    BY <1>10, <2>3 DEF Visit
  <2>5. calls \in Work /\ AllFit(ast, calls) /\ Divides(ast, calls, TasksBelow(ast, Range(Children(ast, n))))
    BY <1>0, <1>3, <2>2, <2>3, CallsMeet
  <2> QED
    BY <1>2, <1>4, <1>5, <2>1, <2>4, <2>5
<1>11. CASE Descend(n)
  <2>1. Head(todo).op = "expr" /\ Head(todo).op \in Look
    BY <1>11 DEF Descend, Calls, Look
  <2>2. ast[n].kind \in ExprKinds
    BY <1>3, <2>1 DEF Fits
  <2>3. PICK calls : calls = DoAll("expr", ast[n].args)
    OBVIOUS
  <2>4. Then(calls)
    BY <1>11, <2>3 DEF Descend
  <2>5. calls \in Work /\ AllFit(ast, calls) /\ Divides(ast, calls, TasksBelow(ast, Range(Children(ast, n))))
    BY <1>0, <1>3, <2>2, <2>3, ArgsMeet
  <2> QED
    BY <1>2, <1>4, <1>5, <2>1, <2>4, <2>5
<1>12. CASE SkipRedefinition(n) \/ Resolve(n)
  <2>1. /\ Then(<<>>)
        /\ \/ Head(todo).op \in {"ref", "redef"}
           \/ Head(todo).op = "expr" /\ ast[n].kind = "qname"
    BY <1>12 DEF SkipRedefinition, Resolve, Calls
  <2>2. Head(todo).op \in Look /\ ast[n].kind = "qname"
    BY <1>3, <2>1 DEF Fits, Look
  <2>3. Range(Children(ast, n)) = {}
    BY <1>0, <1>3, <2>2, ArgsMeet DEF ExprKinds
  <2>4. TasksBelow(ast, {}) = {}
    BY DEF TasksBelow
  <2> QED
    BY <1>2, <1>4, <1>5, <1>6, <2>1, <2>2, <2>3, <2>4
<1> QED
  BY <1>1, <1>7, <1>8, <1>9, <1>10, <1>11, <1>12

\* A step does the task of its call, and leaves all others as they are.
LEMMA StepPays ==
  ASSUME TypeOK, EachOnce, Step
  PROVE  EachOnce' /\ Owed' = Owed \ Paid
<1>1. PICK calls \in Work : /\ Then(calls)
                            /\ AllFit(ast, calls)
                            /\ Divides(ast, calls, Owes(ast, Head(todo)) \ Paid)
  BY StepCalls
<1>2. todo # <<>> /\ ast' = ast /\ todo \in Work
  BY StepCalls, TreeIsAst
<1>3. PICK rest \in Work : rest = Tail(todo)
  BY <1>2, HeadTailProperties DEF Work
<1>4. PICK own, mine, t : own = Owes(ast, Head(todo)) /\ mine = Paid /\ t = ast
  OBVIOUS
<1>5. mine \subseteq own
  BY <1>2, <1>4, HeadFits
<1>6. own \subseteq Owed /\ Divides(t, rest, Owed \ own)
  BY <1>2, <1>3, <1>4, DividesTail DEF EachOnce, Work
<1>7. PICK left, others : left = own \ mine /\ others = Owed \ own
  OBVIOUS
<1>8. left \cap others = {} /\ left \cup others = Owed \ mine
  BY <1>5, <1>6, <1>7
<1>9. Divides(t, calls \o rest, left \cup others)
  BY <1>1, <1>4, <1>6, <1>7, <1>8, DividesConcat DEF Work
<1>10. todo' = calls \o rest
  BY <1>1, <1>3 DEF Then
<1>11. PICK after : after = calls \o rest
  OBVIOUS
<1>12. Divides(t, after, Owed \ mine)
  BY <1>8, <1>9, <1>11
<1>13. UNION {Owes(t, after[i]) : i \in DOMAIN after} = Owed \ mine
  BY <1>12 DEF Divides
<1>14. Owed' = Owed \ mine
  BY <1>2, <1>4, <1>10, <1>11, <1>13 DEF Owed
<1>15. Divides(ast', todo', Owed')
  BY <1>2, <1>4, <1>10, <1>11, <1>12, <1>14
<1>16. AllFit(ast', todo')
  <2>1. AllFit(t, rest)
    <3>1. \A i \in DOMAIN rest : i + 1 \in DOMAIN todo /\ rest[i] = todo[i + 1]
      <4>1. PICK l \in Nat : l = Len(todo)
        BY <1>2, LenProperties DEF Work
      <4>2. /\ l > 0 /\ DOMAIN todo = 1 .. l /\ DOMAIN rest = 1 .. l - 1
            /\ \A i \in 1 .. l - 1 : rest[i] = todo[i + 1]
        BY <1>2, <1>3, <4>1, HeadTailProperties, LenProperties, EmptySeq DEF Work
      <4> QED
        BY <4>1, <4>2
    <3> QED
      BY <1>4, <3>1 DEF EachOnce, AllFit
  <2>2. AllFit(t, calls \o rest)
    BY <1>1, <1>4, <2>1, FitConcat DEF Work
  <2> QED
    BY <1>2, <1>4, <1>10, <2>2
<1>17. Owed' \subseteq TasksBelow(ast', {Root})
  BY <1>2, <1>14 DEF EachOnce
<1> QED
  BY <1>4, <1>14, <1>15, <1>16, <1>17 DEF EachOnce

\* When the walk starts, all that is below the root is still to be done.
LEMMA InitOnce == Init => EachOnce /\ Owed = TasksBelow(ast, Range(Children(ast, Root)))
<1> SUFFICES ASSUME Init
             PROVE  EachOnce /\ Owed = TasksBelow(ast, Range(Children(ast, Root)))
  OBVIOUS
<1>1. ast \in Programs /\ todo = RootCalls /\ Root \in Nodes
  BY InitType, TreeIsAst, NodesAreNumbers DEF Init
<1>2. IsAst(ast) /\ Root \in DOMAIN ast /\ Nodes = DOMAIN ast
  BY <1>1, ProgramsAssumption DEF Nodes
<1>3. PICK ms, all : ms = Range(ast[Root].members) /\ all = Range(Children(ast, Root))
  OBVIOUS
<1>4. ms = all
  <2>1. Apart(ast, Root)
    BY <1>2, ListsApart
  <2>2. ast[Root].kind = "program"
    BY <1>2 DEF IsAst
  <2>3. /\ Range(ast[Root].types) = {} /\ Range(ast[Root].specializes) = {}
        /\ Range(ast[Root].redefines) = {} /\ Range(ast[Root].ends) = {}
        /\ Range(ast[Root].links) = {} /\ Range(ast[Root].targets) = {}
        /\ Range(ast[Root].value) = {} /\ Range(ast[Root].body) = {}
        /\ Range(ast[Root].args) = {}
    <3>1. \A s : s = <<>> => Range(s) = {}
      BY DEF Range
    <3> QED
      BY <1>2, <2>2, <3>1, Shapes
  <2> QED
    BY <1>3, <2>1, <2>3 DEF Apart
<1>5. PICK dv, last : /\ dv = DoAll("declare", ast[Root].members) \o DoAll("visit", ast[Root].members)
                      /\ last = <<Do("leave", Root)>>
  OBVIOUS
<1>6. Meets(ast, Root, dv, ms) /\ Meets(ast, Root, last, {})
  BY <1>1, <1>3, <1>5, MembersMeet, LeaveMeets
<1>7. Meets(ast, Root, dv \o last, ms \cup {})
  BY <1>2, <1>6, MeetsConcat
<1>8. todo = dv \o last /\ ms \cup {} = all
  BY <1>1, <1>4, <1>5 DEF RootCalls
<1>9. Divides(ast, todo, TasksBelow(ast, all)) /\ AllFit(ast, todo)
  BY <1>7, <1>8 DEF Meets
<1>10. Owed = TasksBelow(ast, all)
  BY <1>9 DEF Divides, Owed
<1>11. TasksBelow(ast, all) \subseteq TasksBelow(ast, {Root})
  BY <1>2, <1>3, TasksOf
<1> QED
  BY <1>3, <1>9, <1>10, <1>11 DEF EachOnce

\* When it is over, nothing is.
LEMMA DoneOwesNothing == Done => Owed = {}
BY DEF Done, Owed

\* Every step keeps each task for one call.
LEMMA StepOnce == TypeOK /\ EachOnce /\ [Next]_vars => EachOnce'
<1> SUFFICES ASSUME TypeOK, EachOnce, [Next]_vars PROVE EachOnce'
  OBVIOUS
<1>1. CASE Step
  BY <1>1, StepPays
<1>2. CASE UNCHANGED vars
  BY <1>2 DEF vars, EachOnce, Owed
<1> QED
  BY <1>1, <1>2 DEF Next, Finished

----------------------------------------------------------------------------
(***************************************************************************)
(* Duplicates: a member is reported when it is declared, if it is one.     *)
(***************************************************************************)
\* m is a member somewhere in the program, and not the first of its name.
IsDuplicate(m) == /\ m \in Listed(ast)
                  /\ m \in Below(ast, Root)
                  /\ nodeName(ast, m) # NoName
                  /\ DeclaredIn(ast, Owner(ast, m), nodeName(ast, m)) # m

ReportedSoFar ==
  \A m \in Nodes : <<"duplicate name", m>> \in errors
                     <=> (IsDuplicate(m) /\ <<"declare", m>> \notin Owed)

\* A member that is being declared is one of the scope's.
LEMMA DeclaresMember ==
  ASSUME TypeOK, ScopesFilled, EachOnce, todo # <<>>, Head(todo).op = "declare",
         NEW n, n = Head(todo).node
  PROVE  /\ n \in Nodes /\ n \in Listed(ast) /\ n \in Below(ast, Root)
         /\ <<"declare", n>> \in Owed
         /\ Inner \in Scope(Nodes)
         /\ Owner(ast, n) = Inner.owner
         /\ n \in Range(ast[Inner.owner].members)
         /\ \E k \in Nat : /\ k + 1 \in 1 .. Len(ast[Inner.owner].members)
                           /\ n = ast[Inner.owner].members[k + 1]
                           /\ Filled(ast, Inner, k)
<1>1. IsAst(ast) /\ Nodes = DOMAIN ast /\ todo \in Work
  BY TreeIsAst
<1>2. scopes # <<>> /\ Inner \in Scope(Nodes)
  BY FilledHead, InnerType
<1>3. PICK p, ms : p = Inner.owner /\ ms = ast[p].members
  OBVIOUS
<1>4. p \in DOMAIN ast /\ ms \in Seq(DOMAIN ast)
  BY <1>1, <1>2, <1>3, AstLists DEF Scope
<1>5. PICK k \in Nat : /\ k + 1 \in 1 .. Len(ms)
                       /\ Head(todo) = Do("declare", ms[k + 1])
                       /\ Filled(ast, Inner, k)
  <2>1. \E k \in 0 .. Len(ms) : /\ k + 1 \in 1 .. Len(ms)
                                /\ Head(todo) = Do("declare", ms[k + 1])
                                /\ Filled(ast, Inner, k)
    BY <1>3, FilledHead
  <2>2. \A k \in 0 .. Len(ms) : k \in Nat
    BY <1>4, LenProperties
  <2> QED
    BY <2>1, <2>2
<1>6. n = ms[k + 1]
  BY <1>5 DEF Do, DoIn
<1>7. n \in Range(ms)
  BY <1>4, <1>5, <1>6, LenProperties DEF Range
<1>8. n \in Range(Children(ast, p))
  <2>1. Apart(ast, p)
    BY <1>1, <1>4, ListsApart
  <2> QED
    BY <1>3, <1>7, <2>1 DEF Apart
<1>9. Owner(ast, n) = p /\ n \in DOMAIN ast
  BY <1>1, <1>4, <1>8, OwnerOf, OneOwner
<1>10. n \in Listed(ast)
  BY <1>3, <1>4, <1>7 DEF Listed
<1>11. <<"declare", n>> \in Owed
  <2>1. todo[1] = Head(todo) /\ 1 \in DOMAIN todo
    <3>1. Len(todo) \in Nat /\ Len(todo) > 0 /\ DOMAIN todo = 1 .. Len(todo)
      BY <1>1, EmptySeq, LenProperties DEF Work
    <3> QED
      BY <1>1, <3>1, HeadTailProperties DEF Work
  <2>2. Owes(ast, Head(todo)) = {<<"declare", n>>}
    BY DEF Owes, Look
  <2> QED
    BY <2>1, <2>2 DEF Owed
<1>12. n \in Below(ast, Root)
  <2>1. <<"declare", n>> \in TasksBelow(ast, {Root})
    BY <1>11 DEF EachOnce
  <2> QED
    BY <2>1 DEF TasksBelow
<1> QED
  BY <1>1, <1>2, <1>3, <1>5, <1>6, <1>7, <1>9, <1>10, <1>11, <1>12

\* Looking names up reports no duplicates.
LEMMA BindErrors ==
  ASSUME NEW r, NEW stack, NEW report, Bind(r, stack, report)
  PROVE  /\ errors \subseteq errors'
         /\ \A e \in errors' \ errors : /\ e \in {<<"undefined name", r>>, <<"undefined member", r>>}
                                         /\ \A m : e # <<"duplicate name", m>>
<1>1. \/ errors' = errors
      \/ errors' = errors \cup {<<"undefined name", r>>}
      \/ errors' = errors \cup {<<"undefined member", r>>}
  BY DEF Bind
<1>2. /\ \A m : <<"undefined name", r>> # <<"duplicate name", m>>
      /\ \A m : <<"undefined member", r>> # <<"duplicate name", m>>
  OBVIOUS
<1> QED
  BY <1>1, <1>2

\* A step that declares a name reports it if it is a duplicate.
LEMMA DeclareReports ==
  ASSUME TypeOK, ScopesFilled, EachOnce, ReportedSoFar, NEW n \in Nodes, DeclareName(n)
  PROVE  errors' = IF IsDuplicate(n) THEN errors \cup {<<"duplicate name", n>>} ELSE errors
<1>1. /\ todo # <<>> /\ Head(todo).op = "declare" /\ Head(todo).node = n
  BY DEF DeclareName, Calls
<1>2. PICK x : x = nodeName(ast, n)
  OBVIOUS
<1>3. PICK p : p = Inner.owner
  OBVIOUS
<1>4. /\ n \in Listed(ast) /\ n \in Below(ast, Root) /\ Owner(ast, n) = p
      /\ (x # NoName /\ lookupLocal(Inner, x) = NoNode) <=> (x # NoName /\ DeclaredIn(ast, p, x) = n)
  <2>1. PICK k \in Nat : /\ k + 1 \in 1 .. Len(ast[Inner.owner].members)
                         /\ n = ast[Inner.owner].members[k + 1]
                         /\ Filled(ast, Inner, k)
    BY <1>1, DeclaresMember
  <2>2. /\ n \in Listed(ast) /\ n \in Below(ast, Root) /\ Owner(ast, n) = p
        /\ Inner \in Scope(Nodes)
    BY <1>1, <1>3, DeclaresMember
  <2>3. (x # NoName /\ lookupLocal(Inner, x) = NoNode) <=> (x # NoName /\ DeclaredIn(ast, p, x) = n)
    BY <1>2, <1>3, <2>1, <2>2, FirstOfName
  <2> QED
    BY <2>2, <2>3
<1>5. errors' = IF x # NoName /\ lookupLocal(Inner, x) # NoNode
                THEN errors \cup {<<"duplicate name", n>>} ELSE errors
  BY <1>2 DEF DeclareName
<1>6. IsDuplicate(n) <=> (x # NoName /\ lookupLocal(Inner, x) # NoNode)
  BY <1>2, <1>4 DEF IsDuplicate
<1> QED
  BY <1>5, <1>6

\* Every step keeps the duplicates reported that have been declared.
LEMMA StepReports ==
  TypeOK /\ ScopesFilled /\ EachOnce /\ ReportedSoFar /\ [Next]_vars => ReportedSoFar'
<1> SUFFICES ASSUME TypeOK, ScopesFilled, EachOnce, ReportedSoFar, [Next]_vars
             PROVE  ReportedSoFar'
  OBVIOUS
<1>1. CASE UNCHANGED vars
  BY <1>1 DEF vars, ReportedSoFar, IsDuplicate, Owed, Nodes
<1>2. CASE Step
  <2>1. PICK n \in Nodes : \/ DeclareImport(n) \/ DeclareName(n) \/ Enter(n) \/ Leave(n)
                           \/ Visit(n) \/ Descend(n) \/ SkipRedefinition(n) \/ Resolve(n)
    BY <1>2, CurrentType DEF Step
  <2>2. Owed' = Owed \ Paid /\ ast' = ast
    BY <1>2, StepPays, StepCalls
  <2>3. \A m : IsDuplicate(m)' = IsDuplicate(m)
    BY <2>2 DEF IsDuplicate
  <2>4. CASE DeclareName(n)
    <3>1. /\ todo # <<>> /\ Head(todo).op = "declare" /\ Head(todo).node = n
      BY <2>4 DEF DeclareName, Calls
    <3>2. Paid = {<<"declare", n>>} /\ <<"declare", n>> \in Owed
      BY <3>1, DeclaresMember DEF Paid, Look
    <3>3. errors' = IF IsDuplicate(n) THEN errors \cup {<<"duplicate name", n>>} ELSE errors
      BY <2>4, DeclareReports
    <3>4. ASSUME NEW m \in Nodes
          PROVE  <<"duplicate name", m>> \in errors'
                   <=> (IsDuplicate(m) /\ <<"declare", m>> \notin Owed')
      <4>1. CASE m = n
        BY <2>2, <3>2, <3>3, <4>1 DEF ReportedSoFar
      <4>2. CASE m # n
        BY <2>2, <3>2, <3>3, <4>2 DEF ReportedSoFar
      <4> QED
        BY <4>1, <4>2
    <3> QED
      BY <2>2, <2>3, <3>4 DEF ReportedSoFar, Nodes
  <2>5. CASE ~ DeclareName(n)
    <3>1. \A m : <<"duplicate name", m>> \in errors' <=> <<"duplicate name", m>> \in errors
      <4>1. CASE errors' = errors
        BY <4>1
      <4>2. ASSUME NEW r, NEW stack, NEW report, Bind(r, stack, report)
            PROVE  \A m : <<"duplicate name", m>> \in errors' <=> <<"duplicate name", m>> \in errors
        BY <4>2, BindErrors
      <4>3. CASE DeclareImport(n)
        BY <4>2, <4>3 DEF DeclareImport
      <4>4. CASE Resolve(n)
        BY <4>2, <4>4 DEF Resolve
      <4> QED
        BY <2>1, <2>5, <4>1, <4>3, <4>4 DEF Enter, Leave, Visit, Descend, SkipRedefinition
    <3>2. ASSUME NEW m \in Nodes, IsDuplicate(m)
          PROVE  <<"declare", m>> \in Owed' <=> <<"declare", m>> \in Owed
      <4>1. CASE <<"declare", m>> \notin Paid
        BY <2>2, <4>1
      <4>2. CASE <<"declare", m>> \in Paid
        <5>1. Head(todo).op = "declare" /\ Head(todo).node = m
          BY <4>2 DEF Paid
        <5>2. DeclareImport(n) /\ n = m
          BY <2>1, <2>5, <5>1 DEF DeclareImport, Enter, Leave, Visit, Descend,
                                  SkipRedefinition, Resolve, Calls
        <5>3. nodeName(ast, m) = NoName
          BY <5>2 DEF DeclareImport, nodeName, NamingKinds
        <5> QED
          BY <3>2, <5>3 DEF IsDuplicate
      <4> QED
        BY <4>1, <4>2
    <3> QED
      BY <2>2, <2>3, <3>1, <3>2 DEF ReportedSoFar, Nodes
  <2> QED
    BY <2>4, <2>5
<1> QED
  BY <1>1, <1>2 DEF Next, Finished

LEMMA InitReported == Init => ReportedSoFar
<1> SUFFICES ASSUME Init, NEW m \in Nodes
             PROVE  <<"duplicate name", m>> \in errors
                      <=> (IsDuplicate(m) /\ <<"declare", m>> \notin Owed)
  BY DEF ReportedSoFar
<1>1. errors = {}
  BY DEF Init
<1>2. IsAst(ast) /\ Root \in DOMAIN ast /\ Nodes = DOMAIN ast
  BY InitType, TreeIsAst, NodesAreNumbers
<1>3. ASSUME IsDuplicate(m) PROVE <<"declare", m>> \in Owed
  <2>1. <<"declare", m>> \in TasksBelow(ast, {Root})
    BY <1>3 DEF IsDuplicate, TasksBelow, Tasks, ToDeclare
  <2>2. m # Root
    <3>1. \E p \in DOMAIN ast : m \in Range(Children(ast, p))
      BY <1>2, <1>3, ListsApart DEF IsDuplicate, Listed, Apart
    <3>2. Root \in Nat
      BY <1>2, NodesAreNumbers
    <3> QED
      BY <1>2, <3>1, OwnerOf, RootIsNotOwned, NodesAreNumbers
  <2>3. <<"declare", m>> \in TasksBelow(ast, Range(Children(ast, Root)))
    BY <1>2, <2>1, <2>2, TasksOf
  <2> QED
    BY <2>3, InitOnce
<1> QED
  BY <1>1, <1>3

\* At the end every duplicate of the program has been reported, and nothing
\* else: DuplicatesReported.
LEMMA AllReported == TypeOK /\ EachOnce /\ ReportedSoFar => DuplicatesReported
<1> SUFFICES ASSUME TypeOK, ReportedSoFar, Done, NEW p \in Nodes, NEW m \in Nodes,
                    Root \in Lineage(ast, p), m \in Range(ast[p].members),
                    nodeName(ast, m) # NoName
             PROVE  <<"duplicate name", m>> \in errors
                      <=> DeclaredIn(ast, p, nodeName(ast, m)) # m
  BY DEF DuplicatesReported
<1>1. IsAst(ast) /\ Nodes = DOMAIN ast
  BY TreeIsAst
<1>2. m \in Range(Children(ast, p))
  <2>1. Apart(ast, p)
    BY <1>1, ListsApart
  <2> QED
    BY <2>1 DEF Apart
<1>3. Owner(ast, m) = p
  BY <1>1, <1>2, OwnerOf
<1>4. m \in Listed(ast)
  BY <1>1 DEF Listed
<1>5. m \in Below(ast, Root)
  <2>1. p # NoNode
    BY <1>1, NodesAreNumbers
  <2>2. Lineage(ast, m) = {m} \cup Lineage(ast, p)
    BY <1>1, <1>3, <2>1, LineageIs
  <2> QED
    BY <1>1, <2>2 DEF Below
<1>6. Owed = {}
  BY DoneOwesNothing
<1> QED
  BY <1>3, <1>4, <1>5, <1>6 DEF ReportedSoFar, IsDuplicate

\* DuplicatesReported (declareName, resolver_scope.c): of the members of a
\* body that have the same name all but the first are reported, and no other
\* name is, in the whole program.
THEOREM DuplicatesAreReported == Spec => []DuplicatesReported
<1> DEFINE Inv == TypeOK /\ Nested /\ ScopesFilled /\ EachOnce /\ ReportedSoFar
<1>1. Init => Inv
  BY InitType, InitNested, InitFilled, InitOnce, InitReported
<1>2. Inv /\ [Next]_vars => Inv'
  BY StepType, StepNested, StepFilled, StepOnce, StepReports
<1>3. Inv => DuplicatesReported
  BY AllReported
<1> QED
  BY <1>1, <1>2, <1>3, PTL DEF Spec
=============================================================================
