----------------------------- MODULE Ast_proofs -----------------------------
(***************************************************************************)
(* What follows from IsAst, for every tree: every node has one owner, with *)
(* a smaller number, and stands in one of its lists; so what is defined    *)
(* along the owners, like the scopes around a node, is well defined.  And  *)
(* what the lookups over a tree give.                                      *)
(***************************************************************************)
EXTENDS Ast, SequenceTheorems, WellFoundedInduction, TLAPS

----------------------------------------------------------------------------
(***************************************************************************)
(* Induction over the natural numbers, in the two forms the proofs need:   *)
(* every set of numbers has a least one, and a function may be defined     *)
(* along links that lead to something smaller.                             *)
(***************************************************************************)
\* A set of numbers that is not empty has a least one.
LEMMA LeastNumber ==
  ASSUME NEW S \in SUBSET Nat, S # {}
  PROVE  \E x \in S : \A y \in S : x <= y
<1> DEFINE Less == {ss \in Nat \X Nat : ss[1] < ss[2]}
<1>1. IsWellFoundedOn(Less, Nat)
  BY NatLessThanWellFounded, Zenon DEF OpToRel
<1>2. PICK x \in S : \A y \in S : ~ (<<y, x>> \in Less)
  <2> HIDE DEF Less
  <2> QED
    BY <1>1, WFMin
<1>3. ASSUME NEW y \in S PROVE x =< y
  <2>1. y \in Nat /\ x \in Nat /\ <<y, x>> \in Nat \X Nat
    OBVIOUS
  <2>2. ~ (y < x)
    BY <1>2, <2>1
  <2> QED
    BY <2>1, <2>2
<1> QED
  BY <1>3

\* f has its values in S: at a number in N from which no link leads to another
\* one it is `start`, and otherwise a `step` from its value there.
Follows(f, N, S, up, start, step) ==
  /\ f \in [N -> S]
  /\ \A n \in N : f[n] = IF up[n] \in N THEN step[n][f[up[n]]] ELSE start[n]

\* There is such a function, if all links lead to something of smaller rank.
LEMMA DefinedByRank ==
  ASSUME NEW N, NEW rank, \A n \in N : rank[n] \in Nat, NEW S,
         NEW up, \A n \in N : up[n] \in N => rank[up[n]] < rank[n],
         NEW start, \A n \in N : start[n] \in S,
         NEW step, \A n \in N, s \in S : step[n][s] \in S
  PROVE  \E f : Follows(f, N, S, up, start, step)
<1> DEFINE D(k) == {n \in N : rank[n] < k}
           Value(f, n) == IF up[n] \in N THEN step[n][f[up[n]]] ELSE start[n]
           IsGood(f, k) == f \in [D(k) -> S] /\ \A n \in D(k) : f[n] = Value(f, n)
           Exists(k) == \E f : IsGood(f, k)
<1>0. \A n \in N : rank[n] \in Nat
  OBVIOUS
<1>1. ASSUME NEW k \in Nat, Exists(k) PROVE Exists(k + 1)
  <2>1. PICK g : IsGood(g, k)
    BY <1>1
  <2> DEFINE f == [n \in D(k + 1) |-> Value(g, n)]
  <2>2. ASSUME NEW n \in D(k + 1), up[n] \in N PROVE up[n] \in D(k) /\ up[n] \in D(k + 1)
    BY <1>0, <2>2
  <2>3. ASSUME NEW n \in D(k + 1) PROVE f[n] \in S
    <3>1. up[n] \in N => g[up[n]] \in S
      BY <2>1, <2>2
    <3> QED
      BY <3>1
  <2>4. ASSUME NEW n \in D(k) PROVE f[n] = g[n]
    <3>1. n \in D(k + 1)
      OBVIOUS
    <3> QED
      BY <2>1, <3>1
  <2>5. f \in [D(k + 1) -> S]
    BY <2>3
  <2>6. ASSUME NEW n \in D(k + 1) PROVE f[n] = Value(f, n)
    <3>1. f[n] = Value(g, n)
      OBVIOUS
    <3> HIDE DEF f
    <3>2. up[n] \in N => f[up[n]] = g[up[n]]
      BY <2>2, <2>4
    <3> QED
      BY <3>1, <3>2
  <2> HIDE DEF f
  <2>7. IsGood(f, k + 1)
    BY <2>5, <2>6
  <2> QED
    BY <2>7
<1>2. Exists(0)
  <2>1. D(0) = {}
    BY <1>0
  <2>2. IsGood([n \in D(0) |-> 0], 0)
    BY <2>1
  <2> QED
    BY <2>2
<1> HIDE DEF Exists
<1>3. \A k \in Nat : Exists(k)
  <2> DEFINE Bad == {k \in Nat : ~ Exists(k)}
  <2>1. SUFFICES ASSUME Bad # {} PROVE FALSE
    OBVIOUS
  <2>2. PICK b \in Bad : \A y \in Bad : b <= y
    <3>1. Bad \in SUBSET Nat
      OBVIOUS
    <3> HIDE DEF Bad
    <3> QED
      BY <2>1, <3>1, LeastNumber
  <2>3. b \in Nat /\ ~ Exists(b)
    BY <2>2
  <2>4. PICK a \in Nat : b = a + 1
    <3>1. b # 0
      BY <1>2, <2>3
    <3>2. b - 1 \in Nat /\ b = (b - 1) + 1
      BY <2>3, <3>1
    <3> QED
      BY <3>2
  <2>5. Exists(a)
    BY <2>2, <2>4
  <2> QED
    BY <1>1, <2>3, <2>4, <2>5
<1>4. ASSUME NEW a \in Nat, NEW b \in Nat, NEW f, IsGood(f, a), NEW g, IsGood(g, b),
             NEW n \in D(a), n \in D(b)
      PROVE  f[n] = g[n]
  <2> DEFINE Bad == {m \in D(a) \cap D(b) : f[m] # g[m]}
  <2>1. SUFFICES ASSUME Bad # {} PROVE FALSE
    BY <1>4
  <2>2. PICK m \in Bad : \A y \in Bad : rank[m] <= rank[y]
    <3> DEFINE Ranks == {rank[y] : y \in Bad}
    <3>1. Ranks \in SUBSET Nat
      BY <1>0
    <3>2. Ranks # {}
      BY <2>1
    <3>3. PICK k \in Ranks : \A j \in Ranks : k <= j
      <4> HIDE DEF Ranks
      <4> QED
        BY <3>1, <3>2, LeastNumber
    <3> QED
      BY <3>3
  <2>3. m \in D(a) /\ m \in D(b) /\ f[m] # g[m] /\ m \in N
    BY <2>2
  <2>4. f[m] = Value(f, m) /\ g[m] = Value(g, m)
    BY <1>4, <2>3
  <2>5. ASSUME up[m] \in N PROVE f[up[m]] = g[up[m]]
    <3>1. /\ up[m] \in D(a) \cap D(b) /\ rank[up[m]] < rank[m]
          /\ rank[up[m]] \in Nat /\ rank[m] \in Nat
      BY <1>0, <2>3, <2>5
    <3>2. up[m] \notin Bad
      BY <2>2, <3>1
    <3> QED
      BY <3>1, <3>2
  <2> QED
    BY <2>3, <2>4, <2>5
<1> DEFINE Up(k) == CHOOSE f : IsGood(f, k)
           h == [n \in N |-> Up(rank[n] + 1)[n]]
<1>5. ASSUME NEW k \in Nat PROVE IsGood(Up(k), k)
  BY <1>3 DEF Exists
<1> HIDE DEF Up
<1>6. ASSUME NEW n \in N PROVE h[n] \in S /\ h[n] = Value(h, n)
  <2>0. rank[n] \in Nat /\ rank[n] + 1 \in Nat /\ n \in D(rank[n] + 1)
    BY <1>0
  <2>1. IsGood(Up(rank[n] + 1), rank[n] + 1)
    BY <1>5, <2>0
  <2>2. Up(rank[n] + 1)[n] = Value(Up(rank[n] + 1), n) /\ Up(rank[n] + 1)[n] \in S
    BY <2>0, <2>1
  <2>3. ASSUME up[n] \in N PROVE Up(rank[n] + 1)[up[n]] = h[up[n]]
    <3>1. PICK m : m = up[n]
      OBVIOUS
    <3>2. m \in N /\ rank[m] \in Nat /\ rank[m] < rank[n]
      BY <1>0, <2>3, <3>1
    <3>2a. rank[m] + 1 \in Nat /\ m \in D(rank[n] + 1) /\ m \in D(rank[m] + 1)
      BY <2>0, <3>2
    <3>3. IsGood(Up(rank[m] + 1), rank[m] + 1)
      BY <1>5, <3>2a
    <3>4. PICK g : g = Up(rank[m] + 1)
      OBVIOUS
    <3>5. PICK f : f = Up(rank[n] + 1)
      OBVIOUS
    <3> HIDE DEF IsGood, D
    <3>6. f[m] = g[m]
      BY <1>4, <2>0, <2>1, <3>2a, <3>3, <3>4, <3>5
    <3> QED
      BY <3>1, <3>2, <3>4, <3>5, <3>6
  <2>4. h[n] = Up(rank[n] + 1)[n]
    OBVIOUS
  <2> HIDE DEF h
  <2> QED
    BY <2>2, <2>3, <2>4
<1>7. h \in [N -> S]
  BY <1>6
<1> HIDE DEF h
<1> QED
  BY <1>6, <1>7 DEF Follows

\* And if they lead to smaller numbers.
LEMMA DefinedAlong ==
  ASSUME NEW N, \A n \in N : n \in Nat, NEW S,
         NEW up, \A n \in N : up[n] \in N => up[n] < n,
         NEW start, \A n \in N : start[n] \in S,
         NEW step, \A n \in N, s \in S : step[n][s] \in S
  PROVE  \E f : Follows(f, N, S, up, start, step)
<1> DEFINE rank == [n \in N |-> n]
<1>1. \A n \in N : rank[n] \in Nat
  OBVIOUS
<1>2. \A n \in N : up[n] \in N => rank[up[n]] < rank[n]
  OBVIOUS
<1> HIDE DEF rank
<1> QED
  BY <1>1, <1>2, DefinedByRank

----------------------------------------------------------------------------
(***************************************************************************)
(* Lists without repetitions.                                              *)
(***************************************************************************)
\* What two lists hold together.
LEMMA RangeConcat ==
  ASSUME NEW N, NEW a \in Seq(N), NEW b \in Seq(N)
  PROVE  Range(a \o b) = Range(a) \cup Range(b)
<1>1. /\ a \o b \in Seq(N)
      /\ Len(a \o b) = Len(a) + Len(b)
      /\ \A i \in 1 .. Len(a) + Len(b) :
           (a \o b)[i] = IF i <= Len(a) THEN a[i] ELSE b[i - Len(a)]
  BY ConcatProperties
<1>2. PICK c : c = a \o b
  OBVIOUS
<1>3. /\ Len(a) \in Nat /\ DOMAIN a = 1 .. Len(a)
      /\ Len(b) \in Nat /\ DOMAIN b = 1 .. Len(b)
      /\ DOMAIN c = 1 .. Len(a) + Len(b)
  BY <1>1, <1>2, LenProperties
<1>4. ASSUME NEW i \in DOMAIN b PROVE b[i] \in Range(c)
  <2>1. i + Len(a) \in DOMAIN c /\ c[i + Len(a)] = b[i]
    BY <1>1, <1>2, <1>3
  <2> QED
    BY <2>1 DEF Range
<1>5. ASSUME NEW i \in DOMAIN a PROVE a[i] \in Range(c)
  <2>1. i \in DOMAIN c /\ c[i] = a[i]
    BY <1>1, <1>2, <1>3
  <2> QED
    BY <2>1 DEF Range
<1>6. ASSUME NEW i \in DOMAIN c PROVE c[i] \in Range(a) \cup Range(b)
  <2>1. CASE i <= Len(a)
    BY <1>1, <1>2, <1>3, <2>1 DEF Range
  <2>2. CASE i > Len(a)
    <3>1. i - Len(a) \in DOMAIN b /\ c[i] = b[i - Len(a)]
      BY <1>1, <1>2, <1>3, <2>2
    <3> QED
      BY <3>1 DEF Range
  <2> QED
    BY <1>3, <2>1, <2>2
<1>7. Range(a) \subseteq Range(c)
  BY <1>5 DEF Range
<1>8. Range(b) \subseteq Range(c)
  BY <1>4 DEF Range
<1>9. Range(c) \subseteq Range(a) \cup Range(b)
  <2>1. ASSUME NEW x \in Range(c) PROVE \E i \in DOMAIN c : x = c[i]
    BY DEF Range
  <2> QED
    BY <1>6, <2>1
<1> QED
  BY <1>2, <1>7, <1>8, <1>9

\* What a list holds with one more in it.
LEMMA RangeAppend ==
  ASSUME NEW N, NEW a \in Seq(N), NEW e \in N
  PROVE  Range(Append(a, e)) = Range(a) \cup {e}
<1>1. PICK b : b = Append(a, e)
  OBVIOUS
<1>2. /\ Len(a) \in Nat /\ DOMAIN a = 1 .. Len(a)
      /\ DOMAIN b = 1 .. Len(a) + 1
      /\ \A i \in 1 .. Len(a) : b[i] = a[i]
      /\ b[Len(a) + 1] = e
  BY <1>1, AppendProperties, LenProperties
<1>3. 1 .. Len(a) + 1 = 1 .. Len(a) \cup {Len(a) + 1}
  BY <1>2
<1>4. Range(b) = {b[i] : i \in 1 .. Len(a)} \cup {e}
  BY <1>2, <1>3 DEF Range
<1> QED
  BY <1>1, <1>2, <1>4 DEF Range

\* A list holds its first and what comes after that.
LEMMA RangeHeadTail ==
  ASSUME NEW N, NEW a \in Seq(N), a # <<>>
  PROVE  Range(a) = {Head(a)} \cup Range(Tail(a))
<1>1. PICK b \in Seq(N) : b = Tail(a)
  BY HeadTailProperties
<1>2. PICK l \in Nat : l = Len(a)
  BY LenProperties
<1>3. /\ l > 0 /\ DOMAIN a = 1 .. l /\ DOMAIN b = 1 .. l - 1
      /\ \A i \in 1 .. l - 1 : b[i] = a[i + 1]
      /\ Head(a) = a[1]
  BY <1>1, <1>2, HeadTailProperties, LenProperties, EmptySeq
<1>4. \A i \in 1 .. l : i = 1 \/ (i - 1 \in 1 .. l - 1 /\ (i - 1) + 1 = i)
  BY <1>2
<1>5. \A i \in 1 .. l : a[i] = Head(a) \/ a[i] \in Range(b)
  BY <1>3, <1>4 DEF Range
<1>6. 1 \in 1 .. l /\ \A i \in 1 .. l - 1 : i + 1 \in 1 .. l
  BY <1>2, <1>3
<1>7. Head(a) \in Range(a) /\ Range(b) \subseteq Range(a)
  <2>1. Head(a) \in Range(a)
    BY <1>3, <1>6 DEF Range
  <2>2. ASSUME NEW i \in 1 .. l - 1 PROVE b[i] \in Range(a)
    BY <1>3, <1>6 DEF Range
  <2> QED
    BY <1>3, <2>1, <2>2 DEF Range
<1>8. Range(a) \subseteq {Head(a)} \cup Range(b)
  BY <1>3, <1>5 DEF Range
<1> QED
  BY <1>1, <1>7, <1>8

\* Two lists that hold nothing twice together have nothing in common.
LEMMA InjectiveConcat ==
  ASSUME NEW N, NEW a \in Seq(N), NEW b \in Seq(N), IsInjective(a \o b)
  PROVE  /\ IsInjective(a)
         /\ IsInjective(b)
         /\ Range(a) \cap Range(b) = {}
<1>1. /\ a \o b \in Seq(N)
      /\ Len(a \o b) = Len(a) + Len(b)
      /\ \A i \in 1 .. Len(a) + Len(b) :
           (a \o b)[i] = IF i <= Len(a) THEN a[i] ELSE b[i - Len(a)]
  BY ConcatProperties
<1>2. PICK c : c = a \o b
  OBVIOUS
<1>3. /\ Len(a) \in Nat /\ DOMAIN a = 1 .. Len(a)
      /\ Len(b) \in Nat /\ DOMAIN b = 1 .. Len(b)
      /\ DOMAIN c = 1 .. Len(a) + Len(b)
  BY <1>1, <1>2, LenProperties
<1>4. \A i \in DOMAIN a : i \in DOMAIN c /\ c[i] = a[i]
  BY <1>1, <1>2, <1>3
<1>5. \A i \in DOMAIN b : i + Len(a) \in DOMAIN c /\ c[i + Len(a)] = b[i]
  BY <1>1, <1>2, <1>3
<1>6. \A i, j \in DOMAIN c : c[i] = c[j] => i = j
  BY <1>2 DEF IsInjective
<1>7. IsInjective(a)
  BY <1>4, <1>6 DEF IsInjective
<1>8. IsInjective(b)
  <2> SUFFICES ASSUME NEW i \in DOMAIN b, NEW j \in DOMAIN b, b[i] = b[j]
               PROVE  i = j
    BY DEF IsInjective
  <2>1. i + Len(a) = j + Len(a)
    BY <1>5, <1>6
  <2> QED
    BY <1>3, <2>1
<1>9. ASSUME NEW i \in DOMAIN a, NEW j \in DOMAIN b, a[i] = b[j]
      PROVE  FALSE
  <2>1. i = j + Len(a)
    BY <1>4, <1>5, <1>6, <1>9
  <2> QED
    BY <1>3, <2>1
<1> QED
  BY <1>7, <1>8, <1>9 DEF Range

\* c is a and b, which have nothing in common and hold nothing twice.
Parted(c, a, b) == /\ Range(c) = Range(a) \cup Range(b)
                   /\ Range(a) \cap Range(b) = {}
                   /\ IsInjective(b)

LEMMA ConcatParts ==
  ASSUME NEW N, NEW a \in Seq(N), NEW b \in Seq(N), NEW c, c = a \o b, IsInjective(c)
  PROVE  Parted(c, a, b) /\ IsInjective(a)
<1>1. Range(a \o b) = Range(a) \cup Range(b)
  BY RangeConcat
<1>2. IsInjective(a) /\ IsInjective(b) /\ Range(a) \cap Range(b) = {}
  BY InjectiveConcat
<1> QED
  BY <1>1, <1>2 DEF Parted

----------------------------------------------------------------------------
(***************************************************************************)
(* The lists of a node.                                                    *)
(***************************************************************************)
\* A tree's nodes are numbers, and not NULL.
LEMMA NodesAreNumbers ==
  ASSUME NEW t, IsAst(t)
  PROVE  /\ \A n \in DOMAIN t : n \in Nat /\ n # NoNode
         /\ NoNode \notin DOMAIN t
         /\ Root \in DOMAIN t /\ Lib \in DOMAIN t
BY DEF IsAst

\* The lists of a node are lists of nodes.
LEMMA AstLists ==
  ASSUME NEW t, IsAst(t), NEW n \in DOMAIN t
  PROVE  /\ t[n].members \in Seq(DOMAIN t)
         /\ t[n].types \in Seq(DOMAIN t)
         /\ t[n].specializes \in Seq(DOMAIN t)
         /\ t[n].redefines \in Seq(DOMAIN t)
         /\ t[n].ends \in Seq(DOMAIN t)
         /\ t[n].links \in Seq(DOMAIN t)
         /\ t[n].targets \in Seq(DOMAIN t)
         /\ t[n].value \in Seq(DOMAIN t)
         /\ t[n].body \in Seq(DOMAIN t)
         /\ t[n].args \in Seq(DOMAIN t)
<1>1. t[n] \in NodeRecord(DOMAIN t)
  BY DEF IsAst
<1> QED
  BY <1>1 DEF NodeRecord

\* What a node owns is what its lists hold, each node in one place of one.
Apart(t, n) ==
  LET m == Range(t[n].members)      y == Range(t[n].types)
      s == Range(t[n].specializes)  r == Range(t[n].redefines)
      e == Range(t[n].ends)         l == Range(t[n].links)
      g == Range(t[n].targets)      v == Range(t[n].value)
      b == Range(t[n].body)         a == Range(t[n].args)
  IN  /\ Range(Children(t, n)) = m \cup y \cup s \cup r \cup e \cup l
                                 \cup g \cup v \cup b \cup a
      /\ m \cap (y \cup s \cup r \cup e \cup l \cup g \cup v \cup b \cup a) = {}
      /\ y \cap (s \cup r \cup e \cup l \cup g \cup v \cup b \cup a) = {}
      /\ s \cap (r \cup e \cup l \cup g \cup v \cup b \cup a) = {}
      /\ r \cap (e \cup l \cup g \cup v \cup b \cup a) = {}
      /\ e \cap (l \cup g \cup v \cup b \cup a) = {}
      /\ l \cap (g \cup v \cup b \cup a) = {}
      /\ g \cap (v \cup b \cup a) = {}
      /\ v \cap (b \cup a) = {}
      /\ b \cap a = {}
      /\ IsInjective(t[n].members) /\ IsInjective(t[n].types)
      /\ IsInjective(t[n].specializes) /\ IsInjective(t[n].redefines)
      /\ IsInjective(t[n].ends) /\ IsInjective(t[n].links)
      /\ IsInjective(t[n].targets) /\ IsInjective(t[n].value)
      /\ IsInjective(t[n].body) /\ IsInjective(t[n].args)

LEMMA ListsApart ==
  ASSUME NEW t, IsAst(t), NEW n \in DOMAIN t
  PROVE  Apart(t, n)
<1>0. PICK N : N = DOMAIN t
  OBVIOUS
<1>1. PICK m \in Seq(N), y \in Seq(N), s \in Seq(N), r \in Seq(N),
           e \in Seq(N), l \in Seq(N), g \in Seq(N), v \in Seq(N),
           b \in Seq(N), a \in Seq(N) :
        /\ m = t[n].members /\ y = t[n].types /\ s = t[n].specializes
        /\ r = t[n].redefines /\ e = t[n].ends /\ l = t[n].links
        /\ g = t[n].targets /\ v = t[n].value /\ b = t[n].body
        /\ a = t[n].args
  BY <1>0, AstLists, Zenon
<1>3. PICK c2 \in Seq(N) : c2 = m \o y
  BY ConcatProperties
<1>4. PICK c3 \in Seq(N) : c3 = c2 \o s
  BY ConcatProperties
<1>5. PICK c4 \in Seq(N) : c4 = c3 \o r
  BY ConcatProperties
<1>6. PICK c5 \in Seq(N) : c5 = c4 \o e
  BY ConcatProperties
<1>7. PICK c6 \in Seq(N) : c6 = c5 \o l
  BY ConcatProperties
<1>8. PICK c7 \in Seq(N) : c7 = c6 \o g
  BY ConcatProperties
<1>9. PICK c8 \in Seq(N) : c8 = c7 \o v
  BY ConcatProperties
<1>10. PICK c9 \in Seq(N) : c9 = c8 \o b
  BY ConcatProperties
<1>11. PICK c10 \in Seq(N) : c10 = c9 \o a
  BY ConcatProperties
<1>12. Children(t, n) = c10
  <2>1. c10 = m \o y \o s \o r \o e \o l \o g \o v \o b \o a
    BY <1>3, <1>4, <1>5, <1>6, <1>7, <1>8, <1>9, <1>10, <1>11, Zenon
  <2>2. Children(t, n) = m \o y \o s \o r \o e \o l \o g \o v \o b \o a
    BY <1>1, Zenon DEF Children
  <2> QED
    BY <2>1, <2>2
<1>12a. IsInjective(c10)
  <2>1. IsTree(t)
    BY DEF IsAst
  <2>2. IsInjective(Children(t, n))
    BY <2>1, Zenon DEF IsTree
  <2> QED
    BY <1>12, <2>2
<1>13. Parted(c10, c9, a) /\ IsInjective(c9)
  BY <1>11, <1>12a, ConcatParts
<1>14. Parted(c9, c8, b) /\ IsInjective(c8)
  BY <1>10, <1>13, ConcatParts
<1>15. Parted(c8, c7, v) /\ IsInjective(c7)
  BY <1>9, <1>14, ConcatParts
<1>16. Parted(c7, c6, g) /\ IsInjective(c6)
  BY <1>8, <1>15, ConcatParts
<1>17. Parted(c6, c5, l) /\ IsInjective(c5)
  BY <1>7, <1>16, ConcatParts
<1>18. Parted(c5, c4, e) /\ IsInjective(c4)
  BY <1>6, <1>17, ConcatParts
<1>19. Parted(c4, c3, r) /\ IsInjective(c3)
  BY <1>5, <1>18, ConcatParts
<1>20. Parted(c3, c2, s) /\ IsInjective(c2)
  BY <1>4, <1>19, ConcatParts
<1>21. Parted(c2, m, y) /\ IsInjective(m)
  BY <1>3, <1>20, ConcatParts
<1>22. Range(Children(t, n)) =
         Range(m) \cup Range(y) \cup Range(s) \cup Range(r) \cup Range(e)
         \cup Range(l) \cup Range(g) \cup Range(v) \cup Range(b) \cup Range(a)
  BY <1>12, <1>13, <1>14, <1>15, <1>16, <1>17, <1>18, <1>19, <1>20, <1>21 DEF Parted
<1>23. Range(m) \cap (Range(y) \cup Range(s) \cup Range(r) \cup Range(e) \cup Range(l) \cup Range(g) \cup Range(v) \cup Range(b) \cup Range(a)) = {}
  BY <1>13, <1>14, <1>15, <1>16, <1>17, <1>18, <1>19, <1>20, <1>21 DEF Parted
<1>24. Range(y) \cap (Range(s) \cup Range(r) \cup Range(e) \cup Range(l) \cup Range(g) \cup Range(v) \cup Range(b) \cup Range(a)) = {}
  BY <1>13, <1>14, <1>15, <1>16, <1>17, <1>18, <1>19, <1>20, <1>21 DEF Parted
<1>25. Range(s) \cap (Range(r) \cup Range(e) \cup Range(l) \cup Range(g) \cup Range(v) \cup Range(b) \cup Range(a)) = {}
  BY <1>13, <1>14, <1>15, <1>16, <1>17, <1>18, <1>19, <1>20, <1>21 DEF Parted
<1>26. Range(r) \cap (Range(e) \cup Range(l) \cup Range(g) \cup Range(v) \cup Range(b) \cup Range(a)) = {}
  BY <1>13, <1>14, <1>15, <1>16, <1>17, <1>18, <1>19, <1>20, <1>21 DEF Parted
<1>27. Range(e) \cap (Range(l) \cup Range(g) \cup Range(v) \cup Range(b) \cup Range(a)) = {}
  BY <1>13, <1>14, <1>15, <1>16, <1>17, <1>18, <1>19, <1>20, <1>21 DEF Parted
<1>28. Range(l) \cap (Range(g) \cup Range(v) \cup Range(b) \cup Range(a)) = {}
  BY <1>13, <1>14, <1>15, <1>16, <1>17, <1>18, <1>19, <1>20, <1>21 DEF Parted
<1>29. Range(g) \cap (Range(v) \cup Range(b) \cup Range(a)) = {}
  BY <1>13, <1>14, <1>15, <1>16, <1>17, <1>18, <1>19, <1>20, <1>21 DEF Parted
<1>30. Range(v) \cap (Range(b) \cup Range(a)) = {}
  BY <1>13, <1>14, <1>15, <1>16, <1>17, <1>18, <1>19, <1>20, <1>21 DEF Parted
<1>31. Range(b) \cap (Range(a)) = {}
  BY <1>13, <1>14, <1>15, <1>16, <1>17, <1>18, <1>19, <1>20, <1>21 DEF Parted
<1>32. /\ IsInjective(m) /\ IsInjective(y) /\ IsInjective(s) /\ IsInjective(r)
       /\ IsInjective(e) /\ IsInjective(l) /\ IsInjective(g) /\ IsInjective(v)
       /\ IsInjective(b) /\ IsInjective(a)
  BY <1>13, <1>14, <1>15, <1>16, <1>17, <1>18, <1>19, <1>20, <1>21 DEF Parted
<1> QED
  BY <1>1, <1>22, <1>23, <1>24, <1>25, <1>26, <1>27, <1>28, <1>29, <1>30, <1>31,
     <1>32, Zenon DEF Apart

----------------------------------------------------------------------------
(***************************************************************************)
(* Owners.                                                                 *)
(***************************************************************************)
\* No node has two owners, and what a node owns has a greater number.
LEMMA OneOwner ==
  ASSUME NEW t, IsAst(t), NEW n \in DOMAIN t, NEW c \in Range(Children(t, n))
  PROVE  /\ n < c
         /\ c \in DOMAIN t
         /\ \A p \in DOMAIN t : c \in Range(Children(t, p)) => p = n
<1> DEFINE edges == UNION {{<<p, d>> : d \in Range(Children(t, p))} : p \in DOMAIN t}
<1>1. \A d, e \in edges : /\ d[1] < d[2]
                          /\ d[2] = e[2] => d = e
  <2>1. IsTree(t)
    BY DEF IsAst
  <2> QED
    BY <2>1 DEF IsTree
<1>2. \A p \in DOMAIN t : \A d \in Range(Children(t, p)) : <<p, d>> \in edges
  OBVIOUS
<1> HIDE DEF edges
<1>3. <<n, c>> \in edges
  BY <1>2
<1>4. n < c
  BY <1>1, <1>3
<1>5. ASSUME NEW p \in DOMAIN t, c \in Range(Children(t, p)) PROVE p = n
  <2>1. <<p, c>> \in edges
    BY <1>2, <1>5
  <2> QED
    BY <1>1, <1>3, <2>1
<1>6. c \in DOMAIN t
  <2>1. \A s \in Seq(DOMAIN t) : Range(s) \subseteq DOMAIN t
    <3> SUFFICES ASSUME NEW s \in Seq(DOMAIN t), NEW i \in DOMAIN s
                 PROVE  s[i] \in DOMAIN t
      BY DEF Range
    <3> QED
      BY LenProperties, ElementOfSeq
  <2> QED
    BY <2>1, AstLists, ListsApart DEF Apart
<1> QED
  BY <1>4, <1>5, <1>6

\* The owner of a node is the one it is a child of.
LEMMA OwnerOf ==
  ASSUME NEW t, IsAst(t), NEW n \in DOMAIN t, NEW c \in Range(Children(t, n))
  PROVE  Owner(t, c) = n
<1> DEFINE owners == {p \in DOMAIN t : c \in Range(Children(t, p))}
<1>1. owners = {n}
  BY OneOwner
<1>2. Owner(t, c) = IF owners = {} THEN NoNode ELSE CHOOSE p \in owners : TRUE
  BY DEF Owner
<1> HIDE DEF owners
<1> QED
  BY <1>1, <1>2

\* A node that has an owner is a child of it; its owner comes before it.
LEMMA Owned ==
  ASSUME NEW t, IsAst(t), NEW c \in DOMAIN t
  PROVE  \/ Owner(t, c) = NoNode
         \/ /\ Owner(t, c) \in DOMAIN t
            /\ c \in Range(Children(t, Owner(t, c)))
            /\ Owner(t, c) < c
<1> DEFINE owners == {p \in DOMAIN t : c \in Range(Children(t, p))}
<1>1. Owner(t, c) = IF owners = {} THEN NoNode ELSE CHOOSE p \in owners : TRUE
  BY DEF Owner
<1>2. CASE owners = {}
  BY <1>1, <1>2
<1>3. CASE owners # {}
  <2>1. PICK p \in owners : TRUE
    BY <1>3
  <2>2. p \in DOMAIN t /\ c \in Range(Children(t, p))
    OBVIOUS
  <2> QED
    BY <2>2, OwnerOf, OneOwner
<1> QED
  BY <1>2, <1>3

\* Root is at the top, and so is the library.
LEMMA RootIsNotOwned ==
  ASSUME NEW t, IsAst(t)
  PROVE  Owner(t, Root) = NoNode /\ Owner(t, Lib) = NoNode
<1>1. Root \in DOMAIN t /\ Lib \in DOMAIN t /\ \A n \in DOMAIN t : n \in Nat /\ n # 0
  BY NodesAreNumbers DEF NoNode
<1>2. Owner(t, Root) = NoNode
  <2>1. ~ (Owner(t, Root) \in DOMAIN t /\ Owner(t, Root) < Root)
    <3>1. \A n \in DOMAIN t : ~ (n < 1)
      BY <1>1
    <3> QED
      BY <3>1 DEF Root
  <2> QED
    BY <1>1, <2>1, Owned
<1>3. Owner(t, Lib) = NoNode
  <2>1. \A n \in DOMAIN t : Lib \notin Range(Children(t, n))
    BY DEF IsAst
  <2> QED
    BY <1>1, <2>1, Owned
<1> QED
  BY <1>2, <1>3

----------------------------------------------------------------------------
(***************************************************************************)
(* What is above a node, and what is below it.                             *)
(***************************************************************************)
\* The recursion along the owners is well defined.
LEMMA LineageIs ==
  ASSUME NEW t, IsAst(t)
  PROVE  \A n \in DOMAIN t :
           /\ Lineage(t, n) \subseteq DOMAIN t
           /\ Lineage(t, n) = IF Owner(t, n) = NoNode THEN {n}
                              ELSE {n} \cup Lineage(t, Owner(t, n))
<1> DEFINE N == DOMAIN t
           up == [n \in N |-> Owner(t, n)]
           start == [n \in N |-> {n}]
           step == [n \in N |-> [s \in SUBSET N |-> {n} \cup s]]
           Value(f, n) == IF Owner(t, n) = NoNode THEN {n}
                          ELSE {n} \cup f[Owner(t, n)]
           P(f) == f = [n \in N |-> Value(f, n)]
<1>1. \A n \in N : /\ n \in Nat
                   /\ up[n] \in N <=> Owner(t, n) # NoNode
                   /\ up[n] \in N => up[n] < n
  BY NodesAreNumbers, Owned
<1>2. PICK f : Follows(f, N, SUBSET N, up, start, step)
  <2>1. \A n \in N : start[n] \in SUBSET N
    OBVIOUS
  <2>2. \A n \in N, s \in SUBSET N : step[n][s] \in SUBSET N
    OBVIOUS
  <2>3. \A n \in N : n \in Nat
    BY <1>1
  <2>4. \A n \in N : up[n] \in N => up[n] < n
    BY <1>1
  <2> HIDE DEF start, step, up, N
  <2> QED
    BY <2>1, <2>2, <2>3, <2>4, DefinedAlong
<1>3. /\ f \in [N -> SUBSET N]
      /\ \A n \in N : f[n] = IF up[n] \in N THEN step[n][f[up[n]]] ELSE start[n]
  BY <1>2 DEF Follows
<1>4. ASSUME NEW n \in N PROVE f[n] = Value(f, n)
  <2>1. CASE up[n] \in N
    <3>1. f[up[n]] \in SUBSET N
      BY <1>3, <2>1
    <3>2. step[n][f[up[n]]] = {n} \cup f[up[n]]
      BY <3>1
    <3> QED
      BY <1>1, <1>3, <2>1, <3>2
  <2>2. CASE up[n] \notin N
    BY <1>1, <1>3, <2>2
  <2> QED
    BY <2>1, <2>2
<1> HIDE DEF Value, step, start, up
<1>5. P(f)
  BY <1>3, <1>4
<1>6. ASSUME NEW n \in N PROVE Lineage(t, n) = (CHOOSE g : P(g))[n]
  BY DEF Lineage, Value
<1>7. P(CHOOSE g : P(g))
  <2> HIDE DEF P
  <2> QED
    BY <1>5, Zenon
<1> DEFINE g == CHOOSE h : P(h)
<1>8. \A n \in N : Lineage(t, n) = g[n] /\ g[n] = Value(g, n)
  <2> HIDE DEF g
  <2> QED
    BY <1>6, <1>7 DEF g
<1>9. ASSUME NEW n \in N PROVE g[n] = f[n]
  <2> HIDE DEF g
  <2> DEFINE Bad == {m \in N : g[m] # f[m]}
  <2>1. SUFFICES ASSUME Bad # {} PROVE FALSE
    OBVIOUS
  <2>2. PICK m \in Bad : \A k \in Bad : m <= k
    <3>1. Bad \in SUBSET Nat
      BY <1>1
    <3> HIDE DEF Bad
    <3> QED
      BY <2>1, <3>1, LeastNumber
  <2>3. m \in N /\ g[m] # f[m] /\ g[m] = Value(g, m) /\ f[m] = Value(f, m)
    BY <1>4, <1>8, <2>2
  <2>4. ASSUME Owner(t, m) # NoNode PROVE g[Owner(t, m)] = f[Owner(t, m)]
    <3>1. PICK p : p = Owner(t, m)
      OBVIOUS
    <3>2. p \in N /\ p < m /\ p \in Nat /\ m \in Nat
      BY <1>1, <2>3, <2>4, <3>1, Owned
    <3>3. p \notin Bad
      BY <2>2, <3>2
    <3> QED
      BY <3>1, <3>2, <3>3
  <2> QED
    BY <2>3, <2>4 DEF Value
<1>10. ASSUME NEW n \in N PROVE g[n] \in SUBSET N
  <2> HIDE DEF g
  <2> QED
    BY <1>3, <1>9
<1>11. ASSUME NEW n \in N
       PROVE  /\ Lineage(t, n) \subseteq DOMAIN t
              /\ Lineage(t, n) = IF Owner(t, n) = NoNode THEN {n}
                                 ELSE {n} \cup Lineage(t, Owner(t, n))
  <2> HIDE DEF g
  <2>1. Owner(t, n) # NoNode => Owner(t, n) \in N
    BY Owned
  <2> QED
    BY <1>8, <1>10, <2>1 DEF Value
<1> QED
  BY <1>11

\* The nodes that n is above, and n itself.
Below(t, n) == {x \in DOMAIN t : n \in Lineage(t, x)}

\* A node is in its own lineage, and all others there have smaller numbers;
\* with a node, its owner is in a lineage.
LEMMA LineageUp ==
  ASSUME NEW t, IsAst(t), NEW x \in DOMAIN t
  PROVE  /\ x \in Lineage(t, x)
         /\ \A q \in Lineage(t, x) : /\ q \in DOMAIN t /\ q <= x
                                     /\ Owner(t, q) # NoNode => Owner(t, q) \in Lineage(t, x)
<1> DEFINE Good(y) == \A q \in Lineage(t, y) :
                        /\ q <= y
                        /\ Owner(t, q) # NoNode => Owner(t, q) \in Lineage(t, y)
           Bad == {y \in DOMAIN t : ~ Good(y)}
<1>1. Bad = {}
  <2> SUFFICES ASSUME Bad # {} PROVE FALSE
    OBVIOUS
  <2>1. PICK y \in Bad : \A z \in Bad : y <= z
    <3>1. Bad \in SUBSET Nat
      BY NodesAreNumbers
    <3> HIDE DEF Bad
    <3> QED
      BY <3>1, LeastNumber
  <2>2. y \in DOMAIN t /\ ~ Good(y) /\ y \in Nat
    BY <2>1, NodesAreNumbers
  <2>3. CASE Owner(t, y) = NoNode
    <3>1. Lineage(t, y) = {y}
      BY <2>2, <2>3, LineageIs
    <3> QED
      BY <2>2, <2>3, <3>1
  <2>4. CASE Owner(t, y) # NoNode
    <3>1. PICK p : p = Owner(t, y)
      OBVIOUS
    <3>2. p \in DOMAIN t /\ p < y /\ p \in Nat
      BY <2>2, <2>4, <3>1, Owned, NodesAreNumbers
    <3>3. Lineage(t, y) = {y} \cup Lineage(t, p)
      BY <2>2, <2>4, <3>1, LineageIs
    <3>4. Good(p)
      BY <2>1, <2>2, <3>2
    <3>5. p \in Lineage(t, p)
      BY <3>2, LineageIs
    <3>6. \A q \in Lineage(t, p) : q \in DOMAIN t /\ q \in Nat
      BY <3>2, LineageIs, NodesAreNumbers
    <3>7. Good(y)
      BY <2>2, <3>1, <3>2, <3>3, <3>4, <3>5, <3>6
    <3> QED
      BY <2>2, <3>7
  <2> QED
    BY <2>3, <2>4
<1>2. Good(x)
  BY <1>1
<1>3. x \in Lineage(t, x) /\ Lineage(t, x) \subseteq DOMAIN t
  BY LineageIs
<1> QED
  BY <1>2, <1>3

\* Below a node are the node, and what is below the nodes it owns.
LEMMA BelowIs ==
  ASSUME NEW t, IsAst(t), NEW n \in DOMAIN t
  PROVE  Below(t, n) = {n} \cup UNION {Below(t, c) : c \in Range(Children(t, n))}
<1> DEFINE Under(x) == \E c \in Range(Children(t, n)) : x \in Below(t, c)
<1>1. ASSUME NEW c \in Range(Children(t, n)), NEW x \in Below(t, c)
      PROVE  x \in Below(t, n)
  <2>1. Owner(t, c) = n /\ n # NoNode
    BY OwnerOf, NodesAreNumbers
  <2> QED
    BY <2>1, LineageUp DEF Below
<1>2. n \in Below(t, n)
  BY LineageUp DEF Below
<1> DEFINE Bad == {x \in Below(t, n) : x # n /\ ~ Under(x)}
<1>3. Bad = {}
  <2> SUFFICES ASSUME Bad # {} PROVE FALSE
    OBVIOUS
  <2>1. PICK y \in Bad : \A z \in Bad : y <= z
    <3>1. Bad \in SUBSET Nat
      BY NodesAreNumbers DEF Below
    <3> HIDE DEF Bad
    <3> QED
      BY <3>1, LeastNumber
  <2>2. y \in DOMAIN t /\ n \in Lineage(t, y) /\ y # n /\ ~ Under(y) /\ y \in Nat
    BY <2>1, NodesAreNumbers DEF Below
  <2>3. PICK p : p = Owner(t, y)
    OBVIOUS
  <2>4. p # NoNode /\ Lineage(t, y) = {y} \cup Lineage(t, p)
    BY <2>2, <2>3, LineageIs
  <2>5. p \in DOMAIN t /\ p < y /\ p \in Nat /\ y \in Range(Children(t, p))
    BY <2>2, <2>3, <2>4, Owned, NodesAreNumbers
  <2>6. p \in Below(t, n)
    BY <2>2, <2>4, <2>5 DEF Below
  <2>7. CASE p = n
    <3>1. y \in Below(t, y)
      BY <2>2, LineageUp DEF Below
    <3> QED
      BY <2>2, <2>5, <2>7, <3>1
  <2>8. CASE p # n
    <3>1. p \notin Bad
      BY <2>1, <2>2, <2>5
    <3>2. PICK c \in Range(Children(t, n)) : p \in Below(t, c)
      BY <2>6, <2>8, <3>1
    <3>3. y \in Below(t, c)
      BY <2>2, <2>4, <3>2 DEF Below
    <3> QED
      BY <2>2, <3>3
  <2> QED
    BY <2>7, <2>8
<1> QED
  BY <1>1, <1>2, <1>3

\* Nothing is below two nodes of one owner, and the owner below neither.
LEMMA BelowApart ==
  ASSUME NEW t, IsAst(t), NEW n \in DOMAIN t, NEW c \in Range(Children(t, n))
  PROVE  /\ n \notin Below(t, c)
         /\ \A d \in Range(Children(t, n)) : c # d => Below(t, c) \cap Below(t, d) = {}
<1>1. /\ n < c /\ c \in DOMAIN t /\ Owner(t, c) = n
      /\ n \in Nat /\ c \in Nat /\ n # NoNode
  BY OneOwner, OwnerOf, NodesAreNumbers
<1>2. n \notin Below(t, c)
  BY <1>1, LineageUp DEF Below
<1>3. ASSUME NEW d \in Range(Children(t, n)), c # d PROVE Below(t, c) \cap Below(t, d) = {}
  <2>1. n < d /\ d \in DOMAIN t /\ d \in Nat /\ Owner(t, d) = n
    BY OneOwner, OwnerOf, NodesAreNumbers
  <2> DEFINE Bad == Below(t, c) \cap Below(t, d)
  <2> SUFFICES ASSUME Bad # {} PROVE FALSE
    OBVIOUS
  <2>2. PICK y \in Bad : \A z \in Bad : y <= z
    <3>1. Bad \in SUBSET Nat
      BY NodesAreNumbers DEF Below
    <3> HIDE DEF Bad
    <3> QED
      BY <3>1, LeastNumber
  <2>3. y \in DOMAIN t /\ y \in Nat /\ c \in Lineage(t, y) /\ d \in Lineage(t, y)
    BY <2>2, NodesAreNumbers DEF Below
  <2>4. PICK p : p = Owner(t, y)
    OBVIOUS
  <2>5. p # NoNode /\ Lineage(t, y) = {y} \cup Lineage(t, p)
    BY <1>3, <2>3, <2>4, LineageIs
  <2>6. p \in DOMAIN t /\ p < y /\ p \in Nat
    BY <2>3, <2>4, <2>5, Owned, NodesAreNumbers
  <2>7. CASE y = c
    <3>1. d \in Lineage(t, n)
      BY <1>1, <1>3, <2>3, <2>4, <2>5, <2>7
    <3> QED
      BY <1>1, <2>1, <3>1, LineageUp
  <2>8. CASE y = d
    <3>1. c \in Lineage(t, n)
      BY <2>1, <1>3, <2>3, <2>4, <2>5, <2>8
    <3> QED
      BY <1>1, <3>1, LineageUp
  <2>9. CASE y # c /\ y # d
    <3>1. p \in Bad
      BY <2>3, <2>5, <2>6, <2>9 DEF Below
    <3> QED
      BY <2>2, <2>3, <2>6, <3>1
  <2> QED
    BY <2>7, <2>8, <2>9
<1> QED
  BY <1>2, <1>3

----------------------------------------------------------------------------
(***************************************************************************)
(* What the lookups give.                                                  *)
(***************************************************************************)
\* Of the values found at the places of a sequence, the first that is not
\* NoNode: what FirstFound gives.
Foremost(found) ==
  LET hits == {h \in found : h[2] # NoNode}
  IN  IF hits = {} THEN NoNode
      ELSE (CHOOSE h \in hits : \A k \in hits : h[1] <= k[1])[2]

First(f) == Foremost({<<i, f[i]>> : i \in DOMAIN f})

LEMMA FirstIs ==
  ASSUME NEW l \in Nat, NEW f, DOMAIN f = 1 .. l
  PROVE  \/ First(f) = NoNode /\ \A i \in 1 .. l : f[i] = NoNode
         \/ \E i \in 1 .. l : First(f) = f[i] /\ f[i] # NoNode
<1> DEFINE found == {<<i, f[i]>> : i \in DOMAIN f}
           hits == {h \in found : h[2] # NoNode}
           least(h) == \A k \in hits : h[1] <= k[1]
           places == {i \in 1 .. l : f[i] # NoNode}
<1>1. First(f) = IF hits = {} THEN NoNode ELSE (CHOOSE h \in hits : least(h))[2]
  BY Zenon DEF First, Foremost
<1>2. /\ \A i \in places : <<i, f[i]>> \in hits
      /\ \A h \in hits : h[1] \in places /\ h[2] = f[h[1]]
  OBVIOUS
<1>3. places \in SUBSET Nat
  OBVIOUS
<1> HIDE DEF hits, least, places
<1>4. CASE places = {}
  <2>1. hits = {}
    BY <1>2, <1>4
  <2> QED
    BY <1>1, <1>4, <2>1 DEF places
<1>5. CASE places # {}
  <2>1. PICK i \in places : \A j \in places : i <= j
    BY <1>3, <1>5, LeastNumber
  <2>2. <<i, f[i]>> \in hits /\ least(<<i, f[i]>>)
    <3>1. \A k \in hits : i <= k[1]
      BY <1>2, <2>1
    <3> QED
      BY <1>2, <3>1 DEF least
  <2>3. PICK h \in hits : h = (CHOOSE g \in hits : least(g))
    BY <2>2, Zenon
  <2>4. First(f) = f[h[1]] /\ h[1] \in places
    BY <1>1, <1>2, <2>2, <2>3
  <2> QED
    BY <2>4 DEF places
<1> QED
  BY <1>4, <1>5

\* What res binds names to.
Bindings(t) == [DOMAIN t -> DOMAIN t \cup {NoNode}]

\* Where one hop leads.
Hopped(t, res, m) == IF m # NoNode /\ t[m].kind = "alias" THEN res[t[m].links[1]] ELSE m

LEMMA HopType ==
  ASSUME NEW t, IsAst(t), NEW res \in Bindings(t), NEW m \in DOMAIN t \cup {NoNode}
  PROVE  /\ Hopped(t, res, m) \in DOMAIN t \cup {NoNode}
         /\ (m # NoNode /\ t[m].kind = "alias") => t[m].links[1] \in DOMAIN t
<1>1. CASE m # NoNode /\ t[m].kind = "alias"
  <2>1. m \in DOMAIN t
    BY <1>1
  <2>2. Len(t[m].links) = 1 /\ t[m].links \in Seq(DOMAIN t)
    BY <1>1, <2>1, AstLists DEF IsAst, IsShaped
  <2>3. t[m].links[1] \in DOMAIN t
    BY <2>2, ElementOfSeq
  <2> QED
    BY <1>1, <2>3 DEF Hopped, Bindings
<1>2. CASE ~ (m # NoNode /\ t[m].kind = "alias")
  BY <1>2 DEF Hopped
<1> QED
  BY <1>1, <1>2

\* derefAlias is where MaxDepth hops lead.
LEMMA DerefIs ==
  ASSUME NEW t, IsAst(t), NEW res \in Bindings(t), NEW n \in DOMAIN t \cup {NoNode}
  PROVE  \E g : /\ g[0] = n
                /\ \A d \in 0 .. MaxDepth : /\ g[d] \in DOMAIN t \cup {NoNode}
                                            /\ d # 0 => g[d] = Hopped(t, res, g[d - 1])
                /\ derefAlias(t, res, n) = g[MaxDepth]
<1> DEFINE M == DOMAIN t \cup {NoNode}
           D == 0 .. MaxDepth
           up == [d \in D |-> d - 1]
           start == [d \in D |-> n]
           step == [d \in D |-> [m \in M |-> Hopped(t, res, m)]]
           Value(f, d) == IF d = 0 THEN n ELSE Hopped(t, res, f[d - 1])
           P(f) == f = [d \in D |-> Value(f, d)]
<1>1. /\ MaxDepth \in Nat
      /\ \A d \in D : d \in Nat
      /\ \A d \in D : up[d] \in D <=> d # 0
      /\ \A d \in D : up[d] \in D => up[d] < d
  BY MaxDepthAssumption
<1>2. PICK f : Follows(f, D, M, up, start, step)
  <2>1. \A d \in D : start[d] \in M
    OBVIOUS
  <2>2. \A d \in D, m \in M : step[d][m] \in M
    BY HopType
  <2> HIDE DEF start, step, up, D, M
  <2> QED
    BY <1>1, <2>1, <2>2, DefinedAlong
<1>3. /\ f \in [D -> M]
      /\ \A d \in D : f[d] = IF up[d] \in D THEN step[d][f[up[d]]] ELSE start[d]
  BY <1>2 DEF Follows
<1>4. ASSUME NEW d \in D PROVE f[d] = Value(f, d)
  <2>1. CASE d = 0
    BY <1>1, <1>3, <2>1
  <2>2. CASE d # 0
    <3>1. d - 1 \in D /\ up[d] = d - 1
      BY <1>1, <2>2
    <3>2. f[d - 1] \in M
      BY <1>3, <3>1
    <3>3. step[d][f[d - 1]] = Hopped(t, res, f[d - 1])
      BY <3>2
    <3> QED
      BY <1>3, <2>2, <3>1, <3>3
  <2> QED
    BY <2>1, <2>2
<1> HIDE DEF step, start, up
<1>5. P(f)
  <2> HIDE DEF Value
  <2> QED
    BY <1>3, <1>4
<1>6. derefAlias(t, res, n) = (CHOOSE g : P(g))[MaxDepth]
  BY DEF derefAlias, Hopped
<1>7. P(CHOOSE g : P(g))
  <2> HIDE DEF P
  <2> QED
    BY <1>5, Zenon
<1>8. PICK g : g = CHOOSE h : P(h)
  OBVIOUS
<1>9. \A d \in D : g[d] = Value(g, d)
  <2>1. P(g)
    <3> HIDE DEF P
    <3> QED
      BY <1>7, <1>8
  <2> HIDE DEF Value
  <2> QED
    BY <2>1
<1>10. \A d \in D : g[d] \in M
  <2> DEFINE Bad == {d \in D : g[d] \notin M}
  <2>1. SUFFICES ASSUME Bad # {} PROVE FALSE
    OBVIOUS
  <2>2. PICK d \in Bad : \A e \in Bad : d <= e
    <3>1. Bad \in SUBSET Nat
      BY <1>1
    <3> HIDE DEF Bad
    <3> QED
      BY <2>1, <3>1, LeastNumber
  <2>3. d \in D /\ g[d] \notin M
    BY <2>2
  <2>4. CASE d = 0
    BY <1>9, <2>3, <2>4
  <2>5. CASE d # 0
    <3>1. d - 1 \in D /\ d - 1 < d /\ ~ (d <= d - 1)
      BY <1>1, <2>3, <2>5
    <3>2. g[d - 1] \in M
      BY <2>2, <3>1
    <3>3. g[d] = Hopped(t, res, g[d - 1])
      BY <1>9, <2>3, <2>5
    <3> QED
      BY <2>3, <3>2, <3>3, HopType
  <2> QED
    BY <2>4, <2>5
<1>11. derefAlias(t, res, n) = g[MaxDepth]
  <2> HIDE DEF P
  <2> QED
    BY <1>6, <1>8
<1>12. g[0] = n
  <2>1. 0 \in D
    BY <1>1
  <2> QED
    BY <1>9, <2>1
<1>13. \A d \in D : d # 0 => g[d] = Hopped(t, res, g[d - 1])
  BY <1>9
<1> QED
  BY <1>10, <1>11, <1>12, <1>13

\* What more bindings do not change.
Extends(t, more, res) == \A n \in DOMAIN t : res[n] # NoNode => more[n] = res[n]

\* What an alias stands for, once it is known, does not change.
LEMMA DerefStays ==
  ASSUME NEW t, IsAst(t), NEW res \in Bindings(t), NEW more \in Bindings(t),
         Extends(t, more, res), NEW n \in DOMAIN t \cup {NoNode},
         derefAlias(t, res, n) # NoNode
  PROVE  derefAlias(t, more, n) = derefAlias(t, res, n)
<1> DEFINE D == 0 .. MaxDepth
           M == DOMAIN t \cup {NoNode}
<1>1. PICK g : /\ g[0] = n
               /\ \A d \in D : /\ g[d] \in M
                               /\ d # 0 => g[d] = Hopped(t, res, g[d - 1])
               /\ derefAlias(t, res, n) = g[MaxDepth]
  BY DerefIs
<1>2. PICK h : /\ h[0] = n
               /\ \A d \in D : /\ h[d] \in M
                               /\ d # 0 => h[d] = Hopped(t, more, h[d - 1])
               /\ derefAlias(t, more, n) = h[MaxDepth]
  BY DerefIs
<1>3. \A d \in D : g[d] # NoNode => h[d] = g[d]
  <2> DEFINE Bad == {d \in D : g[d] # NoNode /\ h[d] # g[d]}
  <2>1. SUFFICES ASSUME Bad # {} PROVE FALSE
    OBVIOUS
  <2>2. PICK d \in Bad : \A e \in Bad : d <= e
    <3>1. Bad \in SUBSET Nat
      BY MaxDepthAssumption
    <3> HIDE DEF Bad
    <3> QED
      BY <2>1, <3>1, LeastNumber
  <2>3. d \in D /\ g[d] # NoNode /\ h[d] # g[d] /\ d # 0
    BY <1>1, <1>2, <2>2
  <2>4. d - 1 \in D /\ ~ (d <= d - 1)
    BY <2>3, MaxDepthAssumption
  <2>5. g[d - 1] # NoNode => h[d - 1] = g[d - 1]
    BY <2>2, <2>4
  <2>6. PICK m \in M : m = g[d - 1]
    BY <1>1, <2>4
  <2>7. g[d] = Hopped(t, res, m) /\ m # NoNode
    <3>1. g[d] = Hopped(t, res, m)
      BY <1>1, <2>3, <2>6
    <3> QED
      BY <2>3, <3>1 DEF Hopped
  <2>8. h[d] = Hopped(t, more, m)
    BY <1>2, <2>3, <2>5, <2>6, <2>7
  <2>9. CASE t[m].kind = "alias"
    <3>1. t[m].links[1] \in DOMAIN t
      BY <2>7, <2>9, HopType
    <3> QED
      BY <2>3, <2>7, <2>8, <2>9, <3>1 DEF Hopped, Extends
  <2>10. CASE t[m].kind # "alias"
    BY <2>3, <2>7, <2>8, <2>10 DEF Hopped
  <2> QED
    BY <2>9, <2>10
<1>4. MaxDepth \in D
  BY MaxDepthAssumption
<1> QED
  BY <1>1, <1>2, <1>3, <1>4

\* What DirectMember finds is one of the members, with the name asked for.
LEMMA DirectMemberOf ==
  ASSUME NEW t, IsAst(t), NEW c \in DOMAIN t, NEW x
  PROVE  \/ DirectMember(t, c, x) = NoNode
         \/ /\ DirectMember(t, c, x) \in Range(t[c].members)
            /\ nodeName(t, DirectMember(t, c, x)) = x
            /\ DirectMember(t, c, x) \in DOMAIN t
<1>1. PICK ms \in Seq(DOMAIN t), l \in Nat :
        ms = t[c].members /\ l = Len(ms) /\ DOMAIN ms = 1 .. l
  BY AstLists, LenProperties
<1>2. \A i \in 1 .. l : ms[i] \in DOMAIN t /\ ms[i] \in Range(ms)
  BY <1>1, ElementOfSeq DEF Range
<1>3. PICK f : f = [i \in 1 .. l |-> IF nodeName(t, ms[i]) = x THEN ms[i] ELSE NoNode]
  OBVIOUS
<1>4. DirectMember(t, c, x) = First(f)
  <2> DEFINE Found(s) == {<<i, IF nodeName(t, s[i]) = x THEN s[i] ELSE NoNode>> : i \in DOMAIN s}
  <2>0. DirectMember(t, c, x) = Foremost(Found(t[c].members))
    BY Zenon DEF DirectMember, FirstFound, Foremost
  <2>1. DirectMember(t, c, x) = Foremost(Found(ms))
    <3> HIDE DEF Found
    <3> QED
      BY <1>1, <2>0
  <2>2. {<<i, IF nodeName(t, ms[i]) = x THEN ms[i] ELSE NoNode>> : i \in DOMAIN ms}
          = {<<i, f[i]>> : i \in DOMAIN f}
    BY <1>1, <1>3
  <2> QED
    BY <2>1, <2>2 DEF First
<1>5. CASE First(f) = NoNode
  BY <1>4, <1>5
<1>6. ASSUME NEW i \in 1 .. l, First(f) = f[i], f[i] # NoNode
      PROVE  First(f) = ms[i] /\ nodeName(t, ms[i]) = x
  BY <1>3, <1>6
<1>7. DOMAIN f = 1 .. l
  BY <1>3
<1> QED
  BY <1>1, <1>2, <1>4, <1>5, <1>6, <1>7, FirstIs

\* The references through which a declaration gets members that are not its
\* own: those of its ancestors, and the target of an alias.
Sources(t, n) == IF t[n].kind = "alias" THEN t[n].links ELSE Ancestors(t, n)

LEMMA SourcesType ==
  ASSUME NEW t, IsAst(t), NEW n \in DOMAIN t
  PROVE  Sources(t, n) \in Seq(DOMAIN t) /\ Ancestors(t, n) \in Seq(DOMAIN t)
<1>1. t[n].types \o t[n].specializes \in Seq(DOMAIN t)
  BY AstLists, ConcatProperties
<1>2. <<>> \in Seq(DOMAIN t)
  BY EmptySeq
<1>3. Ancestors(t, n) \in Seq(DOMAIN t)
  BY <1>1, <1>2, AstLists DEF Ancestors
<1> QED
  BY <1>3, AstLists DEF Sources

\* T leads nowhere else: with a declaration, everything it gets members from
\* is in T as well.
LeadsNowhere(t, res, T) ==
  \A n \in T : \A r \in Range(Sources(t, n)) : res[r] # NoNode => res[r] \in T

\* Aliases do not lead out of such a set.
LEMMA DerefWithin ==
  ASSUME NEW t, IsAst(t), NEW res \in Bindings(t), NEW T \in SUBSET DOMAIN t,
         LeadsNowhere(t, res, T), NEW n \in T \cup {NoNode}
  PROVE  derefAlias(t, res, n) \in T \cup {NoNode}
<1> DEFINE D == 0 .. MaxDepth
<1>1. PICK g : /\ g[0] = n
               /\ \A d \in D : /\ g[d] \in DOMAIN t \cup {NoNode}
                               /\ d # 0 => g[d] = Hopped(t, res, g[d - 1])
               /\ derefAlias(t, res, n) = g[MaxDepth]
  BY DerefIs
<1>2. ASSUME NEW m \in T \cup {NoNode} PROVE Hopped(t, res, m) \in T \cup {NoNode}
  <2>1. CASE m # NoNode /\ t[m].kind = "alias"
    <3>1. m \in T /\ m \in DOMAIN t
      BY <2>1
    <3>2. t[m].links \in Seq(DOMAIN t) /\ Len(t[m].links) = 1
      BY <2>1, <3>1, AstLists DEF IsAst, IsShaped
    <3>3. t[m].links[1] \in Range(t[m].links)
      BY <3>2, LenProperties DEF Range
    <3>4. Sources(t, m) = t[m].links
      BY <2>1 DEF Sources
    <3> QED
      BY <2>1, <3>1, <3>3, <3>4 DEF Hopped, LeadsNowhere
  <2>2. CASE ~ (m # NoNode /\ t[m].kind = "alias")
    BY <2>2 DEF Hopped
  <2> QED
    BY <2>1, <2>2
<1> DEFINE Bad == {d \in D : g[d] \notin T \cup {NoNode}}
<1>3. Bad = {}
  <2>1. SUFFICES ASSUME Bad # {} PROVE FALSE
    OBVIOUS
  <2>2. PICK d \in Bad : \A e \in Bad : d <= e
    <3>1. Bad \in SUBSET Nat
      BY MaxDepthAssumption
    <3> HIDE DEF Bad
    <3> QED
      BY <2>1, <3>1, LeastNumber
  <2>3. d \in D /\ g[d] \notin T \cup {NoNode}
    BY <2>2
  <2>4. d # 0
    BY <1>1, <2>3
  <2>5. d - 1 \in D /\ ~ (d <= d - 1)
    BY <2>3, <2>4, MaxDepthAssumption
  <2>6. g[d - 1] \in T \cup {NoNode}
    BY <2>2, <2>5
  <2> QED
    BY <1>1, <1>2, <2>3, <2>4, <2>6
<1>4. MaxDepth \in D
  BY MaxDepthAssumption
<1> QED
  BY <1>1, <1>3, <1>4

\* lookupMember is cut off at MaxDepth, and before that the member of the
\* declaration itself or else the first found behind its ancestors.
LookupStep(t, res, x, d, a, g) ==
  LET k == IF a = NoNode THEN NoNode ELSE derefAlias(t, res, a)
  IN  IF d = MaxDepth \/ k = NoNode THEN NoNode
      ELSE IF DirectMember(t, k, x) # NoNode THEN DirectMember(t, k, x)
      ELSE Foremost({<<i, g[res[Ancestors(t, k)[i]]]>> : i \in DOMAIN Ancestors(t, k)})

LEMMA LookupStepType ==
  ASSUME NEW t, IsAst(t), NEW res \in Bindings(t), NEW x, NEW d,
         NEW a \in DOMAIN t \cup {NoNode},
         NEW g \in [DOMAIN t \cup {NoNode} -> DOMAIN t \cup {NoNode}]
  PROVE  LookupStep(t, res, x, d, a, g) \in DOMAIN t \cup {NoNode}
<1>1. PICK k : k = IF a = NoNode THEN NoNode ELSE derefAlias(t, res, a)
  OBVIOUS
<1>2. k \in DOMAIN t \cup {NoNode}
  <2>1. \A n \in DOMAIN t : \A r \in Range(Sources(t, n)) : res[r] # NoNode => res[r] \in DOMAIN t
    <3> SUFFICES ASSUME NEW n \in DOMAIN t, NEW r \in Range(Sources(t, n))
                 PROVE  res[r] # NoNode => res[r] \in DOMAIN t
      OBVIOUS
    <3>1. r \in DOMAIN t
      BY SourcesType, ElementOfSeq, LenProperties DEF Range
    <3> QED
      BY <3>1 DEF Bindings
  <2>2. LeadsNowhere(t, res, DOMAIN t)
    BY <2>1 DEF LeadsNowhere
  <2> QED
    BY <1>1, <2>2, DerefWithin
<1>3. CASE d = MaxDepth \/ k = NoNode
  BY <1>1, <1>3 DEF LookupStep
<1>4. CASE ~ (d = MaxDepth \/ k = NoNode)
  <2>1. PICK as \in Seq(DOMAIN t), l \in Nat :
          as = Ancestors(t, k) /\ l = Len(as) /\ DOMAIN as = 1 .. l
    BY <1>2, <1>4, SourcesType, LenProperties
  <2>2. PICK f : f = [i \in 1 .. l |-> g[res[as[i]]]]
    OBVIOUS
  <2>3. ASSUME NEW i \in 1 .. l PROVE f[i] \in DOMAIN t \cup {NoNode}
    <3>1. as[i] \in DOMAIN t
      BY <2>1, ElementOfSeq
    <3> QED
      BY <2>2, <3>1 DEF Bindings
  <2>4. First(f) \in DOMAIN t \cup {NoNode}
    <3>1. DOMAIN f = 1 .. l
      BY <2>2
    <3> QED
      BY <2>3, <3>1, FirstIs
  <2>5. LookupStep(t, res, x, d, a, g) = IF DirectMember(t, k, x) # NoNode THEN DirectMember(t, k, x) ELSE First(f)
    <3>1. LookupStep(t, res, x, d, a, g) = IF DirectMember(t, k, x) # NoNode THEN DirectMember(t, k, x)
                                           ELSE Foremost({<<i, g[res[as[i]]]>> : i \in DOMAIN as})
      BY <1>1, <1>4, <2>1 DEF LookupStep
    <3>2. {<<i, g[res[as[i]]]>> : i \in DOMAIN as} = {<<i, f[i]>> : i \in DOMAIN f}
      BY <2>1, <2>2
    <3> QED
      BY <3>1, <3>2 DEF First
  <2> QED
    BY <1>2, <1>4, <2>4, <2>5, DirectMemberOf
<1> QED
  BY <1>3, <1>4

\* What the lookup is at each depth, for each declaration.
Searches(g, t, res, x) ==
  /\ \A d \in 0 .. MaxDepth : g[d] \in [DOMAIN t \cup {NoNode} -> DOMAIN t \cup {NoNode}]
  /\ \A d \in 0 .. MaxDepth, a \in DOMAIN t \cup {NoNode} :
       g[d][a] = LookupStep(t, res, x, d, a, g[d + 1])

LEMMA LookupIs ==
  ASSUME NEW t, IsAst(t), NEW res \in Bindings(t), NEW c \in DOMAIN t \cup {NoNode}, NEW x
  PROVE  \E g : Searches(g, t, res, x) /\ lookupMember(t, res, c, x) = g[0][c]
<1> DEFINE M == DOMAIN t \cup {NoNode}
           D == 0 .. MaxDepth
           S == [M -> M]
           rank == [d \in D |-> MaxDepth - d]
           up == [d \in D |-> d + 1]
           start == [d \in D |-> [a \in M |-> NoNode]]
           step == [d \in D |-> [h \in S |-> [a \in M |-> LookupStep(t, res, x, d, a, h)]]]
           Value(f, d) == [a \in M |-> LookupStep(t, res, x, d, a, f[d + 1])]
           P(f) == f = [d \in D |-> Value(f, d)]
<1>1. /\ MaxDepth \in Nat
      /\ \A d \in D : rank[d] \in Nat
      /\ \A d \in D : up[d] \in D <=> d # MaxDepth
      /\ \A d \in D : up[d] \in D => rank[up[d]] < rank[d]
  BY MaxDepthAssumption
<1>2. PICK f : Follows(f, D, S, up, start, step)
  <2>1. \A d \in D : start[d] \in S
    OBVIOUS
  <2>2. \A d \in D, h \in S : step[d][h] \in S
    BY LookupStepType
  <2> HIDE DEF start, step, up, rank, D, S
  <2> QED
    BY <1>1, <2>1, <2>2, DefinedByRank
<1>3. /\ f \in [D -> S]
      /\ \A d \in D : f[d] = IF up[d] \in D THEN step[d][f[up[d]]] ELSE start[d]
  BY <1>2 DEF Follows
<1>4. ASSUME NEW d \in D PROVE f[d] = Value(f, d)
  <2>1. CASE d = MaxDepth
    <3>1. f[d] = start[d]
      BY <1>1, <1>3, <2>1
    <3>2. \A a \in M : LookupStep(t, res, x, d, a, f[d + 1]) = NoNode
      BY <2>1 DEF LookupStep
    <3> HIDE DEF D
    <3> QED
      BY <3>1, <3>2
  <2>2. CASE d # MaxDepth
    <3>1. d + 1 \in D /\ up[d] = d + 1 /\ up[d] \in D
      BY <1>1, <2>2
    <3>2. f[d + 1] \in S
      BY <1>3, <3>1
    <3> HIDE DEF S
    <3>3. step[d][f[d + 1]] = [a \in M |-> LookupStep(t, res, x, d, a, f[d + 1])]
      BY <3>2
    <3>4. f[d] = step[d][f[d + 1]]
      BY <1>3, <3>1
    <3> QED
      BY <2>2, <3>3, <3>4
  <2> QED
    BY <2>1, <2>2
<1> HIDE DEF step, start, up
<1>5. P(f)
  <2> HIDE DEF Value
  <2> QED
    BY <1>3, <1>4
<1>6. lookupMember(t, res, c, x) = (CHOOSE g : P(g))[0][c]
  BY Zenon DEF lookupMember, LookupStep, FirstFound, First, Foremost
<1>7. PICK g : P(g) /\ lookupMember(t, res, c, x) = g[0][c]
  <2>1. P(CHOOSE g : P(g))
    <3> HIDE DEF P
    <3> QED
      BY <1>5, Zenon
  <2> HIDE DEF P
  <2> QED
    BY <1>6, <2>1
<1>8. \A d \in D : g[d] = Value(g, d)
  <2> HIDE DEF Value
  <2> QED
    BY <1>7
<1>9. \A d \in D, a \in M : g[d][a] = LookupStep(t, res, x, d, a, g[d + 1])
  <2> HIDE DEF D, M
  <2> QED
    BY <1>8
<1> HIDE DEF P
<1> DEFINE Bad == {d \in D : g[d] \notin S}
           Ranks == {MaxDepth - d : d \in Bad}
<1>10. Bad = {}
  <2>1. SUFFICES ASSUME Bad # {} PROVE FALSE
    OBVIOUS
  <2>2. PICK n \in Ranks : \A m \in Ranks : n <= m
    <3>1. Ranks \in SUBSET Nat /\ Ranks # {}
      BY <1>1, <2>1
    <3> HIDE DEF Ranks
    <3> QED
      BY <3>1, LeastNumber
  <2>3. PICK d \in Bad : \A e \in Bad : MaxDepth - d <= MaxDepth - e
    BY <2>2
  <2>4. d \in D /\ g[d] \notin S /\ g[d] = Value(g, d)
    BY <1>8, <2>3
  <2>5. CASE d = MaxDepth
    <3>1. \A a \in M : LookupStep(t, res, x, d, a, g[d + 1]) = NoNode
      BY <2>5 DEF LookupStep
    <3>2. g[d] \in S
      BY <2>4, <3>1
    <3> QED
      BY <2>4, <3>2
  <2>6. CASE d # MaxDepth
    <3>1. d + 1 \in D /\ ~ (MaxDepth - d <= MaxDepth - (d + 1))
      BY <1>1, <2>4, <2>6
    <3>2. g[d + 1] \in S
      BY <2>3, <3>1
    <3>3. g[d] = [a \in M |-> LookupStep(t, res, x, d, a, g[d + 1])]
      BY <2>4, <2>6
    <3>4. \A a \in M : LookupStep(t, res, x, d, a, g[d + 1]) \in M
      BY <3>2, LookupStepType
    <3> QED
      BY <2>4, <3>3, <3>4
  <2> QED
    BY <2>5, <2>6
<1>11. \A d \in D : g[d] \in S
  BY <1>10
<1> QED
  BY <1>7, <1>9, <1>11 DEF Searches

\* What lookupMember finds is the member called x of a declaration among those
\* that c leads to.
LEMMA LookupWithin ==
  ASSUME NEW t, IsAst(t), NEW res \in Bindings(t), NEW T \in SUBSET DOMAIN t,
         LeadsNowhere(t, res, T), NEW c \in T \cup {NoNode}, NEW x,
         lookupMember(t, res, c, x) # NoNode
  PROVE  \E k \in T : /\ lookupMember(t, res, c, x) \in Range(t[k].members)
                      /\ nodeName(t, lookupMember(t, res, c, x)) = x
<1> DEFINE M == DOMAIN t \cup {NoNode}
           D == 0 .. MaxDepth
           Fine(m) == \/ m = NoNode
                      \/ \E k \in T : m \in Range(t[k].members) /\ nodeName(t, m) = x
<1>0. PICK g : Searches(g, t, res, x) /\ lookupMember(t, res, c, x) = g[0][c]
  <2>1. c \in DOMAIN t \cup {NoNode}
    OBVIOUS
  <2> QED
    BY <2>1, LookupIs
<1>1. /\ \A d \in D : g[d] \in [M -> M]
      /\ \A d \in D, a \in M : g[d][a] = LookupStep(t, res, x, d, a, g[d + 1])
      /\ lookupMember(t, res, c, x) = g[0][c]
  BY <1>0 DEF Searches
<1>2. ASSUME NEW d \in D, \A e \in D, b \in T \cup {NoNode} : e = d + 1 => Fine(g[e][b]),
             NEW a \in T \cup {NoNode}
      PROVE  Fine(g[d][a])
  <2>1. PICK k : k = IF a = NoNode THEN NoNode ELSE derefAlias(t, res, a)
    OBVIOUS
  <2>2. k \in T \cup {NoNode} /\ a \in M
    BY <2>1, DerefWithin
  <2>3. CASE d = MaxDepth \/ k = NoNode
    <3>1. g[d][a] = NoNode
      BY <1>1, <2>1, <2>2, <2>3 DEF LookupStep
    <3> QED
      BY <3>1
  <2>4. CASE ~ (d = MaxDepth \/ k = NoNode)
    <3>0. d + 1 \in D /\ k \in T /\ k \in DOMAIN t
      BY <2>2, <2>4, MaxDepthAssumption
    <3>1. PICK as \in Seq(DOMAIN t), l \in Nat :
            as = Ancestors(t, k) /\ l = Len(as) /\ DOMAIN as = 1 .. l
      BY <3>0, SourcesType, LenProperties
    <3>2. PICK f : f = [i \in 1 .. l |-> g[d + 1][res[as[i]]]]
      OBVIOUS
    <3>3. g[d][a] = IF DirectMember(t, k, x) # NoNode THEN DirectMember(t, k, x) ELSE First(f)
      <4>1. g[d][a] = IF DirectMember(t, k, x) # NoNode THEN DirectMember(t, k, x)
                      ELSE Foremost({<<i, g[d + 1][res[as[i]]]>> : i \in DOMAIN as})
        <5>1. g[d][a] = LookupStep(t, res, x, d, a, g[d + 1])
          BY <1>1, <2>2
        <5> QED
          BY <2>1, <2>4, <3>1, <5>1 DEF LookupStep
      <4>2. {<<i, g[d + 1][res[as[i]]]>> : i \in DOMAIN as} = {<<i, f[i]>> : i \in DOMAIN f}
        BY <3>1, <3>2
      <4> QED
        BY <4>1, <4>2 DEF First
    <3>4. ASSUME NEW i \in 1 .. l, f[i] # NoNode PROVE Fine(f[i])
      <4>1. as[i] \in DOMAIN t /\ as[i] \in Range(as)
        BY <3>1, ElementOfSeq DEF Range
      <4>2. t[k].kind # "alias"
        <5>1. t[k].kind = "alias" => Ancestors(t, k) = <<>>
          BY DEF Ancestors
        <5>2. as # <<>>
          BY <3>1, EmptySeq
        <5> QED
          BY <3>1, <5>1, <5>2
      <4>3. res[as[i]] \in T \cup {NoNode}
        <5>1. Sources(t, k) = as
          BY <3>1, <4>2 DEF Sources
        <5> QED
          BY <3>0, <4>1, <5>1 DEF LeadsNowhere, Bindings
      <4> HIDE DEF Fine
      <4> QED
        BY <1>2, <3>0, <3>2, <4>3
    <3>5. DirectMember(t, k, x) # NoNode => Fine(DirectMember(t, k, x))
      BY <3>0, DirectMemberOf
    <3>6. Fine(First(f))
      <4>1. DOMAIN f = 1 .. l
        BY <3>2
      <4>2. Fine(NoNode)
        OBVIOUS
      <4> HIDE DEF Fine
      <4> QED
        BY <3>4, <4>1, <4>2, FirstIs
    <3> HIDE DEF Fine
    <3> QED
      BY <3>3, <3>5, <3>6
  <2> QED
    BY <2>3, <2>4
<1> DEFINE Bad == {d \in D : \E a \in T \cup {NoNode} : ~ Fine(g[d][a])}
           Ranks == {MaxDepth - d : d \in Bad}
<1> HIDE DEF Fine
<1>3. Bad = {}
  <2>1. SUFFICES ASSUME Bad # {} PROVE FALSE
    OBVIOUS
  <2>2. PICK n \in Ranks : \A m \in Ranks : n <= m
    <3>1. Ranks \in SUBSET Nat /\ Ranks # {}
      BY <2>1, MaxDepthAssumption
    <3> HIDE DEF Ranks
    <3> QED
      BY <3>1, LeastNumber
  <2>3. PICK d \in Bad : \A e \in Bad : MaxDepth - d <= MaxDepth - e
    BY <2>2
  <2>4. PICK a \in T \cup {NoNode} : d \in D /\ ~ Fine(g[d][a])
    BY <2>3
  <2>5. ASSUME NEW e \in D, NEW b \in T \cup {NoNode}, e = d + 1 PROVE Fine(g[e][b])
    <3>1. ~ (MaxDepth - d <= MaxDepth - e)
      BY <2>4, <2>5, MaxDepthAssumption
    <3> QED
      BY <2>3, <3>1
  <2> QED
    BY <1>2, <2>4, <2>5
<1>4. Fine(g[0][c])
  <2>1. 0 \in D
    BY MaxDepthAssumption
  <2> QED
    BY <1>3, <2>1
<1> QED
  BY <1>1, <1>4 DEF Fine

\* It finds a node of the tree, or none.
LEMMA LookupType ==
  ASSUME NEW t, IsAst(t), NEW res \in Bindings(t), NEW c \in DOMAIN t \cup {NoNode}, NEW x
  PROVE  lookupMember(t, res, c, x) \in DOMAIN t \cup {NoNode}
<1>1. PICK g : Searches(g, t, res, x) /\ lookupMember(t, res, c, x) = g[0][c]
  BY LookupIs
<1>2. 0 \in 0 .. MaxDepth
  BY MaxDepthAssumption
<1> QED
  BY <1>1, <1>2 DEF Searches
=============================================================================
