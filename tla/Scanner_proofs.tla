--------------------------- MODULE Scanner_proofs ---------------------------
(***************************************************************************)
(* Proofs about the scanner, for every set of texts.                       *)
(***************************************************************************)
EXTENDS Scanner, SequenceTheorems, FiniteSetTheorems, WellFoundedInduction, TLAPS

----------------------------------------------------------------------------
(***************************************************************************)
(* Least and greatest numbers.                                             *)
(***************************************************************************)
\* What Min chooses exists.
LEMMA MinIsLeast ==
  ASSUME NEW S \in SUBSET Nat, S # {}
  PROVE  /\ Min(S) \in S
         /\ \A y \in S : Min(S) <= y
<1> DEFINE Less == {ss \in Nat \X Nat : ss[1] < ss[2]}
<1>1. IsWellFoundedOn(Less, Nat)
  BY NatLessThanWellFounded, Zenon DEF OpToRel
<1>2. PICK x \in S : \A y \in S : ~ (<<y, x>> \in Less)
  <2> HIDE DEF Less
  <2> QED
    BY <1>1, WFMin
<1>3. ASSUME NEW y \in S PROVE x =< y
  <2>1. y \in Nat /\ x \in Nat /\ <<y, x>> \in Nat \X Nat
    OBVIOUS
  <2>2. ~ (y < x)
    BY <1>2, <2>1
  <2> QED
    BY <2>1, <2>2
<1> QED
  BY <1>3 DEF Min

\* What Max chooses exists, among numbers up to n.
LEMMA MaxIsGreatest ==
  ASSUME NEW n \in Nat, NEW S \in SUBSET (1 .. n), S # {}
  PROVE  /\ Max(S) \in S
         /\ \A y \in S : y <= Max(S)
<1> DEFINE T == {t \in 0 .. n : n - t \in S}
<1>1. T \in SUBSET Nat
  OBVIOUS
<1>2. \A x \in S : x \in 1 .. n /\ n - x \in T
  OBVIOUS
<1>3. PICK t \in T : \A y \in T : t <= y
  BY <1>1, <1>2, MinIsLeast
<1>4. n - t \in S /\ t \in 0 .. n
  OBVIOUS
<1> HIDE DEF T
<1>5. ASSUME NEW y \in S PROVE n - t >= y
  <2>1. n - y \in T /\ y \in 1 .. n
    BY <1>2
  <2>2. t <= n - y
    BY <1>3, <2>1
  <2> QED
    BY <1>4, <2>1, <2>2
<1>6. Max(S) \in S /\ \A y \in S : Max(S) >= y
  BY <1>4, <1>5 DEF Max
<1>7. \A y \in S : y \in 1 .. n /\ Max(S) \in 1 .. n
  BY <1>6
<1> QED
  BY <1>6, <1>7

----------------------------------------------------------------------------
(***************************************************************************)
(* Positions in a text.                                                    *)
(***************************************************************************)
Positions(s) == 1 .. Len(s) + 1

\* A search ends at the first position of its kind, at the latest behind the
\* text.
LEMMA NextIsFirst ==
  ASSUME NEW s \in Seq(Characters), NEW i \in Positions(s), NEW cs
  PROVE  /\ next(s, i, cs) \in i .. Len(s) + 1
         /\ next(s, i, cs) <= Len(s) => Char(s, next(s, i, cs)) \in cs \cup {"end"}
         /\ \A k \in i .. next(s, i, cs) - 1 : Char(s, k) \notin cs \cup {"end"}
<1> DEFINE S == {k \in i .. Len(s) + 1 : Char(s, k) \in cs \cup {"end"}}
<1>1. S \in SUBSET Nat
  BY DEF Positions
<1>2. Len(s) + 1 \in S
  BY DEF Positions, Char
<1>3. Min(S) \in S /\ \A y \in S : Min(S) <= y
  BY <1>1, <1>2, MinIsLeast
<1>4. next(s, i, cs) = Min(S)
  BY DEF next
<1> HIDE DEF S
<1>5. next(s, i, cs) \in S /\ \A y \in S : next(s, i, cs) <= y
  BY <1>3, <1>4
<1> QED
  BY <1>1, <1>2, <1>5 DEF Positions, S

LEMMA BehindIsFirst ==
  ASSUME NEW s \in Seq(Characters), NEW i \in Positions(s), NEW cs, "end" \notin cs
  PROVE  /\ behind(s, i, cs) \in i .. Len(s) + 1
         /\ Char(s, behind(s, i, cs)) \notin cs
         /\ \A k \in i .. behind(s, i, cs) - 1 : Char(s, k) \in cs
<1> DEFINE S == {k \in i .. Len(s) + 1 : Char(s, k) \notin cs}
<1>1. S \in SUBSET Nat
  BY DEF Positions
<1>2. Len(s) + 1 \in S
  BY DEF Positions, Char
<1>3. Min(S) \in S /\ \A y \in S : Min(S) <= y
  BY <1>1, <1>2, MinIsLeast
<1>4. behind(s, i, cs) = Min(S)
  BY DEF behind
<1> HIDE DEF S
<1>5. behind(s, i, cs) \in S /\ \A y \in S : behind(s, i, cs) <= y
  BY <1>3, <1>4
<1> QED
  BY <1>1, <1>2, <1>5 DEF Positions, S

LEMMA ClosingIsFirst ==
  ASSUME NEW s \in Seq(Characters), NEW i \in Positions(s)
  PROVE  /\ closing(s, i) \in i .. Len(s) + 1
         /\ closing(s, i) <= Len(s) => At(s, closing(s, i), <<"*", "/">>)
         /\ \A k \in i .. closing(s, i) - 1 : ~ At(s, k, <<"*", "/">>)
<1> DEFINE S == {k \in i .. Len(s) + 1 : At(s, k, <<"*", "/">>) \/ k = Len(s) + 1}
<1>1. S \in SUBSET Nat
  BY DEF Positions
<1>2. Len(s) + 1 \in S
  BY DEF Positions
<1>3. Min(S) \in S /\ \A y \in S : Min(S) <= y
  BY <1>1, <1>2, MinIsLeast
<1>4. closing(s, i) = Min(S)
  BY DEF closing
<1> HIDE DEF S
<1>5. closing(s, i) \in S /\ \A y \in S : closing(s, i) <= y
  BY <1>3, <1>4
<1> QED
  BY <1>1, <1>2, <1>5 DEF Positions, S

\* What stands from i to before j.
LEMMA TextIs ==
  ASSUME NEW s \in Seq(Characters), NEW i \in Positions(s), NEW j \in i .. Len(s) + 1
  PROVE  /\ Text(s, i, j) \in Seq(Characters)
         /\ Len(Text(s, i, j)) = j - i
         /\ \A k \in 1 .. j - i : /\ Text(s, i, j)[k] = s[i + k - 1]
                                  /\ Char(s, i + k - 1) = s[i + k - 1]
<1>1. \A k \in i .. j - 1 : k \in 1 .. Len(s) /\ s[k] \in Characters
  BY ElementOfSeq, LenProperties DEF Positions
<1>2. /\ SubSeq(s, i, j - 1) \in Seq(Characters)
      /\ Len(SubSeq(s, i, j - 1)) = IF i <= j - 1 THEN (j - 1) - i + 1 ELSE 0
      /\ \A k \in 1 .. (j - 1) - i + 1 : SubSeq(s, i, j - 1)[k] = s[i + k - 1]
  BY <1>1, SubSeqProperties DEF Positions
<1> QED
  BY <1>2 DEF Text, Positions, Char

\* The characters are none of them the end.
LEMMA CharIs ==
  ASSUME NEW s \in Seq(Characters), NEW k \in Nat \ {0}
  PROVE  /\ k <= Len(s) => Char(s, k) = s[k] /\ Char(s, k) \in Characters
         /\ k > Len(s) <=> Char(s, k) = "end"
<1>1. k <= Len(s) => s[k] \in Characters
  BY ElementOfSeq, LenProperties
<1>2. "end" \notin Characters
  BY DEF Characters
<1> QED
  BY <1>1, <1>2, LenProperties DEF Char

\* Two characters, and three, that stand at i.
LEMMA AtTwo ==
  ASSUME NEW s, NEW i \in Nat, NEW a, NEW b
  PROVE  At(s, i, <<a, b>>) <=> Char(s, i) = a /\ Char(s, i + 1) = b
<1>1. DOMAIN <<a, b>> = {1, 2} /\ i + 1 - 1 = i /\ i + 2 - 1 = i + 1
  OBVIOUS
<1> QED
  BY <1>1 DEF At

LEMMA AtThree ==
  ASSUME NEW s, NEW i \in Nat, NEW a, NEW b, NEW c
  PROVE  At(s, i, <<a, b, c>>) <=> /\ Char(s, i) = a /\ Char(s, i + 1) = b
                                   /\ Char(s, i + 2) = c
<1>1. DOMAIN <<a, b, c>> = {1, 2, 3} /\ i + 1 - 1 = i /\ i + 2 - 1 = i + 1 /\ i + 3 - 1 = i + 2
  OBVIOUS
<1> QED
  BY <1>1 DEF At

----------------------------------------------------------------------------
(***************************************************************************)
(* What each function of the scanner takes, said of the characters.        *)
(***************************************************************************)
\* A word is taken as long as it goes on.
LEMMA IdentifierIs ==
  ASSUME NEW s \in Seq(Characters), NEW i \in Positions(s), Char(s, i) \in Letters,
         NEW p, p = identifier(s, i)
  PROVE  /\ p.next \in i + 1 .. Len(s) + 1
         /\ p.lexeme = Text(s, i, p.next)
         /\ p.type = IF p.lexeme \in Keywords THEN "doc" ELSE "id"
         /\ \A k \in i .. p.next - 1 : Char(s, k) \in Letters \cup Digits
         /\ Char(s, p.next) \notin Letters \cup Digits
<1> DEFINE end == behind(s, i, Letters \cup Digits)
<1>1. "end" \notin Letters \cup Digits
  BY DEF Letters, Digits
<1>2. /\ end \in i .. Len(s) + 1
      /\ Char(s, end) \notin Letters \cup Digits
      /\ \A k \in i .. end - 1 : Char(s, k) \in Letters \cup Digits
  BY <1>1, BehindIsFirst
<1>3. end # i
  BY <1>2
<1>4. /\ p.next = end
      /\ p.lexeme = Text(s, i, end)
      /\ p.type = IF Text(s, i, end) \in Keywords THEN "doc" ELSE "id"
  BY DEF identifier, Scanned
<1> HIDE DEF end
<1>5. end \in i + 1 .. Len(s) + 1
  BY <1>2, <1>3 DEF Positions
<1> QED
  BY <1>2, <1>4, <1>5

\* Where the part of a number before the point ends, and what follows.
LEMMA NumberIs ==
  ASSUME NEW s \in Seq(Characters), NEW i \in Positions(s), NEW p, p = number(s, i),
         Char(s, i) \in Digits \/ (Char(s, i) = "." /\ Char(s, i + 1) \in Digits)
  PROVE  /\ p.next \in i + 1 .. Len(s) + 1
         /\ p.lexeme = Text(s, i, p.next)
         /\ p.type = "number"
         /\ Char(s, p.next) \notin Digits
         /\ \E whole \in i .. p.next :
              /\ \A k \in i .. whole - 1 : Char(s, k) \in Digits
              /\ \/ /\ p.next = whole
                    /\ ~ (Char(s, whole) = "." /\ Char(s, whole + 1) \in Digits)
                 \/ /\ Char(s, whole) = "." /\ whole + 1 < p.next
                    /\ \A k \in whole + 1 .. p.next - 1 : Char(s, k) \in Digits
<1> DEFINE whole == behind(s, i, Digits)
           fraction == behind(s, whole + 1, Digits)
           dotted == Char(s, whole) = "." /\ Char(s, whole + 1) \in Digits
           end == IF dotted THEN fraction ELSE whole
<1>1. "end" \notin Digits /\ "." \notin Digits
  BY DEF Digits
<1>2. /\ whole \in i .. Len(s) + 1
      /\ Char(s, whole) \notin Digits
      /\ \A k \in i .. whole - 1 : Char(s, k) \in Digits
  BY <1>1, BehindIsFirst
<1>3. /\ p.next = end
      /\ p.lexeme = Text(s, i, end)
      /\ p.type = "number"
  BY DEF number, Scanned
<1> HIDE DEF whole
<1>4. whole \in Nat \ {0} /\ whole <= Len(s) + 1 /\ i \in Nat \ {0} /\ Len(s) \in Nat
  BY <1>2, LenProperties DEF Positions
<1>5. CASE dotted
  <2>1. whole + 1 <= Len(s)
    BY <1>1, <1>4, <1>5, CharIs
  <2>2. /\ fraction \in whole + 1 .. Len(s) + 1
        /\ Char(s, fraction) \notin Digits
        /\ \A k \in whole + 1 .. fraction - 1 : Char(s, k) \in Digits
    <3>1. whole + 1 \in Positions(s)
      BY <1>4, <2>1 DEF Positions
    <3> QED
      BY <1>1, <3>1, BehindIsFirst, Zenon
  <2>3. fraction # whole + 1
    BY <1>5, <2>2
  <2> HIDE DEF fraction
  <2>4. fraction \in Nat /\ whole + 1 < fraction
    BY <1>4, <2>2, <2>3
  <2> QED
    BY <1>2, <1>3, <1>4, <1>5, <2>2, <2>4
<1>6. CASE ~ dotted
  <2>1. p.next = whole
    BY <1>3, <1>6
  <2>2. whole # i
    BY <1>2, <1>6
  <2> QED
    BY <1>2, <1>3, <1>4, <1>6, <2>1, <2>2
<1> QED
  BY <1>5, <1>6

\* A string ends behind the next quote, and is an error if there is none.
LEMMA StringIs ==
  ASSUME NEW s \in Seq(Characters), NEW i \in Positions(s), Char(s, i) = "q",
         NEW p, p = string(s, i)
  PROVE  /\ i <= Len(s)
         /\ \/ /\ p = Error(Len(s) + 1)
               /\ \A k \in i + 1 .. Len(s) : Char(s, k) # "q"
            \/ /\ p.next \in i + 2 .. Len(s) + 1
               /\ p.type = "string" /\ p.lexeme = Text(s, i, p.next)
               /\ Char(s, p.next - 1) = "q"
               /\ \A k \in i + 1 .. p.next - 2 : Char(s, k) # "q"
<1> DEFINE end == next(s, i + 1, {"q"})
<1>1. i \in Nat \ {0} /\ Len(s) \in Nat /\ i <= Len(s)
  BY CharIs, LenProperties DEF Positions
<1>2. /\ end \in i + 1 .. Len(s) + 1
      /\ end <= Len(s) => Char(s, end) \in {"q", "end"}
      /\ \A k \in i + 1 .. end - 1 : Char(s, k) \notin {"q", "end"}
  BY <1>1, NextIsFirst DEF Positions
<1>3. p = IF end > Len(s) THEN Error(end) ELSE Scanned("string", Text(s, i, end + 1), end + 1)
  BY DEF string
<1> HIDE DEF end
<1>4. CASE end > Len(s)
  BY <1>1, <1>2, <1>3, <1>4
<1>5. CASE end <= Len(s)
  <2>1. Char(s, end) = "q"
    BY <1>1, <1>2, <1>5, CharIs
  <2>2. p.type = "string" /\ p.lexeme = Text(s, i, end + 1) /\ p.next = end + 1
    BY <1>1, <1>2, <1>3, <1>5 DEF Scanned
  <2> QED
    BY <1>1, <1>2, <1>5, <2>1, <2>2
<1> QED
  BY <1>1, <1>2, <1>4, <1>5

\* The same of a quoted name, which loses its quotes.
LEMMA QuotedNameIs ==
  ASSUME NEW s \in Seq(Characters), NEW i \in Positions(s), Char(s, i) = "'",
         NEW p, p = quotedName(s, i)
  PROVE  /\ i <= Len(s)
         /\ \/ /\ p = Error(Len(s) + 1)
               /\ \A k \in i + 1 .. Len(s) : Char(s, k) # "'"
            \/ /\ p.next \in i + 2 .. Len(s) + 1
               /\ p.type = "id" /\ p.lexeme = Text(s, i + 1, p.next - 1)
               /\ Char(s, p.next - 1) = "'"
               /\ \A k \in i + 1 .. p.next - 2 : Char(s, k) # "'"
<1> DEFINE end == next(s, i + 1, {"'"})
<1>1. i \in Nat \ {0} /\ Len(s) \in Nat /\ i <= Len(s)
  BY CharIs, LenProperties DEF Positions
<1>2. /\ end \in i + 1 .. Len(s) + 1
      /\ end <= Len(s) => Char(s, end) \in {"'", "end"}
      /\ \A k \in i + 1 .. end - 1 : Char(s, k) \notin {"'", "end"}
  BY <1>1, NextIsFirst DEF Positions
<1>3. p = IF end > Len(s) THEN Error(end) ELSE Scanned("id", Text(s, i + 1, end), end + 1)
  BY DEF quotedName
<1> HIDE DEF end
<1>4. CASE end > Len(s)
  BY <1>1, <1>2, <1>3, <1>4
<1>5. CASE end <= Len(s)
  <2>1. Char(s, end) = "'"
    BY <1>1, <1>2, <1>5, CharIs
  <2>2. p.type = "id" /\ p.lexeme = Text(s, i + 1, end) /\ p.next = end + 1
    BY <1>1, <1>2, <1>3, <1>5 DEF Scanned
  <2> QED
    BY <1>1, <1>2, <1>5, <2>1, <2>2
<1> QED
  BY <1>1, <1>2, <1>4, <1>5

\* The interior of a comment ends where the comment closes for the first time.
LEMMA CommentIs ==
  ASSUME NEW s \in Seq(Characters), NEW i \in Positions(s),
         NEW p, p = captureCommentInterior(s, i)
  PROVE  \/ /\ p = Error(Len(s) + 1)
            /\ \A k \in i .. Len(s) : ~ At(s, k, <<"*", "/">>)
         \/ /\ p.next \in i + 2 .. Len(s) + 1
            /\ p.type = "docBody" /\ p.lexeme = Text(s, i, p.next - 2)
            /\ At(s, p.next - 2, <<"*", "/">>)
            /\ \A k \in i .. p.next - 3 : ~ At(s, k, <<"*", "/">>)
<1> DEFINE end == closing(s, i)
<1>1. i \in Nat \ {0} /\ Len(s) \in Nat
  BY LenProperties DEF Positions
<1>2. /\ end \in i .. Len(s) + 1
      /\ end <= Len(s) => At(s, end, <<"*", "/">>)
      /\ \A k \in i .. end - 1 : ~ At(s, k, <<"*", "/">>)
  BY ClosingIsFirst
<1>3. p = IF end > Len(s) THEN Error(end) ELSE Scanned("docBody", Text(s, i, end), end + 2)
  BY DEF captureCommentInterior
<1> HIDE DEF end
<1>4. CASE end > Len(s)
  BY <1>1, <1>2, <1>3, <1>4
<1>5. CASE end <= Len(s)
  <2>0. end \in Nat /\ At(s, end, <<"*", "/">>)
    BY <1>1, <1>2, <1>5
  <2>1. Char(s, end + 1) = "/"
    BY <2>0, AtTwo, Zenon
  <2>2. end + 1 <= Len(s)
    BY <1>1, <1>2, <2>1, CharIs
  <2>3. p.type = "docBody" /\ p.lexeme = Text(s, i, end) /\ p.next = end + 2
    BY <1>1, <1>2, <1>3, <1>5 DEF Scanned
  <2> QED
    BY <1>1, <1>2, <1>5, <2>2, <2>3
<1> QED
  BY <1>1, <1>2, <1>4, <1>5

\* What is read of the characters from i on, up to three of them.
LEMMA PunctuationIs ==
  ASSUME NEW s \in Seq(Characters), NEW i \in Positions(s), i <= Len(s),
         NEW p, p = punctuation(s, i),
         NEW c, c = Char(s, i), NEW d, d = Char(s, i + 1), NEW e, e = Char(s, i + 2)
  PROVE  \/ /\ c = ":" /\ d = ":" /\ e = ">"
            /\ p = Scanned("punctuation", <<":", ">">>, i + 3) /\ i + 2 <= Len(s)
         \/ /\ c = ":" /\ d = ":" /\ e # ">"
            /\ p = Scanned("punctuation", <<":", ":">>, i + 2) /\ i + 1 <= Len(s)
         \/ /\ c = ":" /\ d = ">" /\ e = ">"
            /\ p = Scanned("punctuation", <<":", ">", ">">>, i + 3) /\ i + 2 <= Len(s)
         \/ /\ c = ":" /\ d = ">" /\ e # ">"
            /\ p = Scanned("punctuation", <<":", ">">>, i + 2) /\ i + 1 <= Len(s)
         \/ /\ c \in {".", "*", "="} /\ d = c
            /\ p = Scanned("punctuation", <<c, c>>, i + 2) /\ i + 1 <= Len(s)
         \/ /\ c = ">" /\ d = "="
            /\ p = Scanned("punctuation", <<">", "=">>, i + 2) /\ i + 1 <= Len(s)
         \/ /\ c = "?" /\ p = Error(i + 1)
         \/ /\ c # "?"
            /\ c = ":" => d \notin {":", ">"}
            /\ c \in {".", "*", "="} => d # c
            /\ c = ">" => d # "="
            /\ p = Scanned("punctuation", <<c>>, i + 1)
<1>1. i \in Nat \ {0} /\ Len(s) \in Nat
  BY LenProperties DEF Positions
<1>2. /\ d # "end" => i + 1 <= Len(s)
      /\ e # "end" => i + 2 <= Len(s)
  BY <1>1, CharIs
<1>3. /\ At(s, i, <<":", ":", ">">>) <=> c = ":" /\ d = ":" /\ e = ">"
      /\ At(s, i, <<":", ">", ">">>) <=> c = ":" /\ d = ">" /\ e = ">"
  BY <1>1, AtThree
<1>4. /\ At(s, i, <<":", ":">>) <=> c = ":" /\ d = ":"
      /\ At(s, i, <<":", ">">>) <=> c = ":" /\ d = ">"
      /\ At(s, i, <<">", "=">>) <=> c = ">" /\ d = "="
      /\ At(s, i, <<c, c>>) <=> d = c
  BY <1>1, AtTwo
<1>5. /\ Len(<<":", ":">>) = 2 /\ Len(<<":", ">", ">">>) = 3 /\ Len(<<":", ">">>) = 2
      /\ Len(<<c, c>>) = 2 /\ Len(<<">", "=">>) = 2 /\ Len(<<c>>) = 1
  OBVIOUS
<1>6. p =
    CASE c = ":" /\ d = ":" /\ e = ">" -> Scanned("punctuation", <<":", ">">>, i + 3)
      [] c = ":" /\ d = ":" /\ ~ (c = ":" /\ d = ":" /\ e = ">") -> Scanned("punctuation", <<":", ":">>, i + 2)
      [] c = ":" /\ d = ">" /\ e = ">" -> Scanned("punctuation", <<":", ">", ">">>, i + 3)
      [] c = ":" /\ d = ">" /\ ~ (c = ":" /\ d = ">" /\ e = ">") -> Scanned("punctuation", <<":", ">">>, i + 2)
      [] c \in {".", "*", "="} /\ d = c -> Scanned("punctuation", <<c, c>>, i + 2)
      [] c = ">" /\ c = ">" /\ d = "=" -> Scanned("punctuation", <<">", "=">>, i + 2)
      [] OTHER -> IF c = "?" THEN Error(i + 1) ELSE Scanned("punctuation", <<c>>, i + 1)
  BY <1>3, <1>4, <1>5 DEF punctuation
<1> QED
  BY <1>2, <1>6

\* Which function scans a token is told by its first characters.
LEMMA TokenIs ==
  ASSUME NEW s, NEW i \in Nat, NEW c, c = Char(s, i)
  PROVE  /\ c = "end" => TokenAt(s, i) = Scanned("eof", <<>>, i)
         /\ DocOpens(s, i) => TokenAt(s, i) = captureCommentInterior(s, i + 3)
         /\ c \in Letters => TokenAt(s, i) = identifier(s, i)
         /\ c \in Digits \/ (c = "." /\ Char(s, i + 1) \in Digits) =>
              TokenAt(s, i) = number(s, i)
         /\ c = "q" => TokenAt(s, i) = string(s, i)
         /\ c = "'" => TokenAt(s, i) = quotedName(s, i)
         /\ \/ c \in {"end", "q", "'"} \cup Letters \cup Digits \/ DocOpens(s, i)
            \/ c = "." /\ Char(s, i + 1) \in Digits
            \/ TokenAt(s, i) = punctuation(s, i)
<1>1. DocOpens(s, i) => c = "/"
  BY AtThree, Zenon DEF DocOpens
<1>2. /\ c \in Letters => c \notin Digits \cup {"end", "q", "'", "/", "."}
      /\ c \in Digits => c \notin {"end", "q", "'", "/", "."}
  BY DEF Letters, Digits
<1>3. TokenAt(s, i) =
        CASE c = "end"        -> Scanned("eof", <<>>, i)
          [] DocOpens(s, i)   -> captureCommentInterior(s, i + 3)
          [] c \in Letters    -> identifier(s, i)
          [] c \in Digits \/ (c = "." /\ Char(s, i + 1) \in Digits) -> number(s, i)
          [] c = "q"          -> string(s, i)
          [] c = "'"          -> quotedName(s, i)
          [] OTHER            -> punctuation(s, i)
  BY DEF TokenAt
<1> QED
  BY <1>1, <1>2, <1>3

\* What scanToken() and scanDocBody() find.
Found == {"eof", "id", "doc", "number", "string", "punctuation", "docBody", "error"}

\* What is found from i on ends in the text s, and what is kept has characters.
Lies(p, s, i) == /\ p.next \in i .. Len(s) + 1
                 /\ p.lexeme \in Seq(Characters)

LEMMA NothingKept ==
  ASSUME NEW s \in Seq(Characters), NEW i \in Positions(s), NEW type, NEW j \in i .. Len(s) + 1
  PROVE  Scanned(type, <<>>, j).type = type /\ Lies(Scanned(type, <<>>, j), s, i)
BY EmptySeq DEF Scanned, Lies

\* The interior of a comment that begins at i, found in the text behind it.
LEMMA CommentLies ==
  ASSUME NEW s \in Seq(Characters), NEW i \in Positions(s), NEW j \in i .. Len(s) + 1,
         NEW p, p = captureCommentInterior(s, j)
  PROVE  p.type \in {"docBody", "error"} /\ Lies(p, s, i)
<1>1. i \in Nat \ {0} /\ j \in Nat \ {0} /\ Len(s) \in Nat /\ j \in Positions(s) /\ i <= j
  BY LenProperties DEF Positions
<1>2. CASE p = Error(Len(s) + 1)
  <2>1. Len(s) + 1 \in i .. Len(s) + 1
    BY <1>1
  <2> QED
    BY <1>2, <2>1, NothingKept DEF Error
<1>3. CASE /\ p.next \in j + 2 .. Len(s) + 1
           /\ p.type = "docBody" /\ p.lexeme = Text(s, j, p.next - 2)
  <2>1. p.next - 2 \in j .. Len(s) + 1 /\ p.next \in i .. Len(s) + 1
    BY <1>1, <1>3
  <2> QED
    BY <1>1, <1>3, <2>1, TextIs DEF Lies
<1> QED
  BY <1>1, <1>2, <1>3, CommentIs

\* Whatever scanToken() finds at i lies in the text.
LEMMA TokenLies ==
  ASSUME NEW s \in Seq(Characters), NEW i \in Positions(s), NEW p, p = TokenAt(s, i)
  PROVE  p.type \in Found /\ Lies(p, s, i)
<1>1. i \in Nat \ {0} /\ Len(s) \in Nat /\ i <= Len(s) + 1 /\ i \in i .. Len(s) + 1
  BY LenProperties DEF Positions
<1> DEFINE c == Char(s, i)
           Goal == p.type \in Found /\ Lies(p, s, i)
<1>2. CASE c = "end"
  BY <1>1, <1>2, TokenIs, NothingKept DEF Found
<1>3. CASE c # "end"
  <2>1. i <= Len(s) /\ c \in Characters
    BY <1>1, <1>3, CharIs
  <2>2. Len(s) + 1 \in i .. Len(s) + 1 /\ i + 1 \in i .. Len(s) + 1
    BY <1>1, <2>1
  <2>3. CASE DocOpens(s, i)
    <3>1. p = captureCommentInterior(s, i + 3)
      BY <1>1, <2>3, TokenIs
    <3>2. i + 3 \in i .. Len(s) + 1
      <4>1. Char(s, i + 2) = "*"
        BY <1>1, <2>3, AtThree, Zenon DEF DocOpens
      <4> QED
        BY <1>1, <4>1, CharIs
    <3> QED
      BY <3>1, <3>2, CommentLies DEF Found
  <2>4. CASE c \in Letters
    <3>1. p = identifier(s, i)
      BY <1>1, <2>4, TokenIs
    <3>2. /\ p.next \in i + 1 .. Len(s) + 1 /\ p.lexeme = Text(s, i, p.next)
          /\ p.type = "doc" \/ p.type = "id"
      BY <2>4, <3>1, IdentifierIs
    <3> QED
      BY <1>1, <3>2, TextIs DEF Found, Lies
  <2>5. CASE c \in Digits \/ (c = "." /\ Char(s, i + 1) \in Digits)
    <3>1. p = number(s, i)
      BY <1>1, <2>5, TokenIs
    <3>2. /\ p.next \in i + 1 .. Len(s) + 1 /\ p.lexeme = Text(s, i, p.next)
          /\ p.type = "number"
      BY <2>5, <3>1, NumberIs
    <3>3. p.next \in i .. Len(s) + 1
      BY <1>1, <3>2
    <3> QED
      BY <3>2, <3>3, TextIs DEF Found, Lies
  <2>6. CASE c = "q"
    <3>1. p = string(s, i)
      BY <1>1, <2>6, TokenIs
    <3>2. CASE p = Error(Len(s) + 1)
      BY <2>2, <3>2, NothingKept DEF Error, Found
    <3>3. CASE /\ p.next \in i + 2 .. Len(s) + 1
               /\ p.type = "string" /\ p.lexeme = Text(s, i, p.next)
      <4>1. p.next \in i .. Len(s) + 1
        BY <1>1, <3>3
      <4> QED
        BY <3>3, <4>1, TextIs DEF Found, Lies
    <3> QED
      BY <2>6, <3>1, <3>2, <3>3, StringIs
  <2>7. CASE c = "'"
    <3>1. p = quotedName(s, i)
      BY <1>1, <2>7, TokenIs
    <3>2. CASE p = Error(Len(s) + 1)
      BY <2>2, <3>2, NothingKept DEF Error, Found
    <3>3. CASE /\ p.next \in i + 2 .. Len(s) + 1
               /\ p.type = "id" /\ p.lexeme = Text(s, i + 1, p.next - 1)
      <4>1. /\ i + 1 \in Positions(s) /\ p.next - 1 \in i + 1 .. Len(s) + 1
            /\ p.next \in i .. Len(s) + 1
        BY <1>1, <3>3 DEF Positions
      <4> QED
        BY <3>3, <4>1, TextIs DEF Found, Lies
    <3> QED
      BY <2>7, <3>1, <3>2, <3>3, QuotedNameIs
  <2>8. CASE p = punctuation(s, i)
    <3>1. ":" \in Characters /\ ">" \in Characters /\ "=" \in Characters
      BY DEF Characters
    <3>2. /\ <<":", ">">> \in Seq(Characters) /\ <<":", ":">> \in Seq(Characters)
          /\ <<":", ">", ">">> \in Seq(Characters) /\ <<">", "=">> \in Seq(Characters)
          /\ <<c>> \in Seq(Characters)
          /\ <<c, c>> \in Seq(Characters)
      BY <2>1, <3>1
    <3>3. \/ p = Error(i + 1)
          \/ p = Scanned("punctuation", <<":", ">">>, i + 3) /\ i + 2 <= Len(s)
          \/ p = Scanned("punctuation", <<":", ":">>, i + 2) /\ i + 1 <= Len(s)
          \/ p = Scanned("punctuation", <<":", ">", ">">>, i + 3) /\ i + 2 <= Len(s)
          \/ p = Scanned("punctuation", <<":", ">">>, i + 2) /\ i + 1 <= Len(s)
          \/ p = Scanned("punctuation", <<c, c>>, i + 2) /\ i + 1 <= Len(s)
          \/ p = Scanned("punctuation", <<">", "=">>, i + 2) /\ i + 1 <= Len(s)
          \/ p = Scanned("punctuation", <<c>>, i + 1)
      BY <2>1, <2>8, PunctuationIs
    <3>4. ASSUME NEW w \in Seq(Characters), NEW j \in i .. Len(s) + 1,
                 p = Scanned("punctuation", w, j)
          PROVE  Goal
      BY <3>4 DEF Scanned, Lies, Found
    <3>5. /\ i + 2 <= Len(s) => i + 3 \in i .. Len(s) + 1
          /\ i + 1 <= Len(s) => i + 2 \in i .. Len(s) + 1
      BY <1>1
    <3>6. ASSUME p = Error(i + 1) PROVE Goal
      BY <2>2, <3>6, NothingKept DEF Error, Found
    <3>7. Goal
      <4> HIDE DEF Goal
      <4> QED
        BY <2>2, <3>2, <3>3, <3>4, <3>5, <3>6
    <3> QED
      BY <3>7
  <2> QED
    BY <1>1, <1>3, <2>3, <2>4, <2>5, <2>6, <2>7, <2>8, TokenIs
<1> QED
  BY <1>2, <1>3

\* So does what scanDocBody() finds, ...
LEMMA DocBodyLies ==
  ASSUME NEW s \in Seq(Characters), NEW i \in Positions(s), NEW p, p = docBodyAt(s, i)
  PROVE  p.type \in {"docBody", "error"} /\ Lies(p, s, i)
<1>1. i \in Nat \ {0} /\ Len(s) \in Nat /\ i <= Len(s) + 1 /\ i \in i .. Len(s) + 1
  BY LenProperties DEF Positions
<1>2. CASE ~ At(s, i, <<"/", "*">>)
  BY <1>1, <1>2, NothingKept DEF docBodyAt, Error
<1>3. CASE At(s, i, <<"/", "*">>)
  <2>1. Char(s, i + 1) = "*"
    BY <1>1, <1>3, AtTwo, Zenon
  <2>2. i + 2 \in i .. Len(s) + 1 /\ (Char(s, i + 2) = "*" => i + 3 \in i .. Len(s) + 1)
    BY <1>1, <2>1, CharIs
  <2>3. \/ p = captureCommentInterior(s, i + 2)
        \/ Char(s, i + 2) = "*" /\ p = captureCommentInterior(s, i + 3)
    BY <1>3 DEF docBodyAt
  <2> QED
    BY <2>2, <2>3, CommentLies
<1> QED
  BY <1>2, <1>3

----------------------------------------------------------------------------
(***************************************************************************)
(* What a step does.                                                       *)
(***************************************************************************)
Block == [lexeme : Seq(Characters), line : Nat]

Piece == [type : Found \cup Trivia, lexeme : Seq(Characters),
          by : {"scanToken", "scanDocBody"},
          from : Nat \ {0}, next : Nat \ {0}, line : Nat]

TypeOK ==
  /\ text \in Texts
  /\ caller \in {"parser", "scanToken", "scanDocBody"}
  /\ current \in Positions(text)
  /\ line \in Nat
  /\ lastBlock \in Block
  /\ pieces \in Seq(Piece)
  /\ taken \in BOOLEAN

\* skipWhitespace() skips what lies in the text as well.
LEMMA SkippedLies ==
  ASSUME TypeOK
  PROVE  /\ Blank => Lies(Scanned("blank", <<>>, current + 1), text, current)
         /\ At(text, current, <<"/", "/">>) =>
              Lies(Scanned("lineComment", <<>>, next(text, current, {"nl"})), text, current)
         /\ BlockOpens => SkippedBlock.type = "blockComment" /\ Lies(SkippedBlock, text, current)
<1>1. /\ text \in Seq(Characters) /\ current \in Positions(text)
      /\ current \in Nat \ {0} /\ Len(text) \in Nat /\ current <= Len(text) + 1
  BY TextsAssumption, LenProperties DEF TypeOK, Positions
<1>2. ASSUME Blank PROVE Lies(Scanned("blank", <<>>, current + 1), text, current)
  <2>1. Char(text, current) # "end"
    BY <1>2 DEF Blank
  <2>2. current + 1 \in current .. Len(text) + 1
    BY <1>1, <2>1, CharIs
  <2> QED
    BY <1>1, <2>2, NothingKept
<1>3. Lies(Scanned("lineComment", <<>>, next(text, current, {"nl"})), text, current)
  BY <1>1, NextIsFirst, NothingKept
<1>4. ASSUME BlockOpens
      PROVE  SkippedBlock.type = "blockComment" /\ Lies(SkippedBlock, text, current)
  <2> DEFINE end == closing(text, current + 2)
  <2>1. Char(text, current + 1) = "*"
    BY <1>1, <1>4, AtTwo, Zenon DEF BlockOpens
  <2>2. current + 2 \in Positions(text) /\ current + 2 \in current .. Len(text) + 1
    BY <1>1, <2>1, CharIs DEF Positions
  <2>3. /\ end \in current + 2 .. Len(text) + 1
        /\ end <= Len(text) => At(text, end, <<"*", "/">>)
    BY <1>1, <2>2, ClosingIsFirst
  <2>4. CASE end > Len(text)
    <3>1. SkippedBlock = Scanned("blockComment", <<>>, end) /\ end \in current .. Len(text) + 1
      BY <1>1, <2>3, <2>4 DEF SkippedBlock
    <3> QED
      BY <1>1, <3>1, NothingKept
  <2>5. CASE end <= Len(text)
    <3>1. SkippedBlock = Scanned("blockComment", Text(text, current + 2, end), end + 2)
      BY <1>1, <2>3, <2>5 DEF SkippedBlock
    <3> HIDE DEF end
    <3>0. end \in Nat /\ At(text, end, <<"*", "/">>)
      BY <1>1, <2>3, <2>5
    <3>2. Char(text, end + 1) = "/"
      BY <3>0, AtTwo, Zenon
    <3>3. end + 2 \in current .. Len(text) + 1
      BY <1>1, <2>3, <3>0, <3>2, CharIs
    <3>4. Text(text, current + 2, end) \in Seq(Characters)
      BY <1>1, <2>2, <2>3, TextIs
    <3> QED
      BY <3>1, <3>3, <3>4 DEF Scanned, Lies
  <2> QED
    BY <1>1, <2>3, <2>4, <2>5
<1> QED
  BY <1>2, <1>3, <1>4

\* One piece of the text is consumed, by either function.
Skips(p) ==
  /\ caller # "parser" /\ p.type \in {"blank", "lineComment"}
  /\ UNCHANGED <<caller, lastBlock>>

Keeps(p) ==
  /\ caller = "scanToken" /\ p.type = "blockComment"
  /\ lastBlock' = [lexeme |-> p.lexeme, line |-> line] /\ UNCHANGED caller

Drops(p) ==
  /\ caller = "scanToken" /\ p = TokenAt(text, current) /\ p.type = "error"
  /\ lastBlock' = NoBlock /\ UNCHANGED caller

Gives(p) ==
  /\ caller = "scanToken" /\ p = TokenAt(text, current) /\ p.type \in Found \ {"error"}
  /\ caller' = "parser" /\ UNCHANGED lastBlock

GivesBody(p) ==
  /\ caller = "scanDocBody" /\ p = docBodyAt(text, current)
  /\ p.type \in {"docBody", "error"}
  /\ caller' = "parser" /\ UNCHANGED lastBlock

Reads ==
  \E p : /\ p.type \in Found \cup Trivia /\ Lies(p, text, current) /\ Consume(p)
         /\ Skips(p) \/ Keeps(p) \/ Drops(p) \/ Gives(p) \/ GivesBody(p)

LEMMA StepIs ==
  ASSUME TypeOK, Next
  PROVE  Advance \/ TakeLastBlockComment \/ Reads
<1>1. text \in Seq(Characters) /\ current \in Positions(text)
  BY TextsAssumption DEF TypeOK
<1>2. CASE SkipBlank
  <2> DEFINE p == Scanned("blank", <<>>, current + 1)
  <2>1. p.type = "blank" /\ Lies(p, text, current)
    BY <1>2, SkippedLies DEF SkipBlank, Scanned
  <2>2. Consume(p) /\ caller # "parser" /\ UNCHANGED <<caller, lastBlock>>
    BY <1>2 DEF SkipBlank
  <2> HIDE DEF p
  <2> QED
    BY <2>1, <2>2 DEF Reads, Skips, Trivia
<1>3. CASE SkipLineComment
  <2> DEFINE p == Scanned("lineComment", <<>>, next(text, current, {"nl"}))
  <2>1. p.type = "lineComment" /\ Lies(p, text, current)
    BY <1>3, SkippedLies DEF SkipLineComment, Scanned
  <2>2. Consume(p) /\ caller # "parser" /\ UNCHANGED <<caller, lastBlock>>
    BY <1>3 DEF SkipLineComment
  <2> HIDE DEF p
  <2> QED
    BY <2>1, <2>2 DEF Reads, Skips, Trivia
<1>4. CASE SkipBlockComment
  <2>1. SkippedBlock.type = "blockComment" /\ Lies(SkippedBlock, text, current)
    BY <1>4, SkippedLies DEF SkipBlockComment
  <2>2. Consume(SkippedBlock) /\ Keeps(SkippedBlock)
    BY <1>4, <2>1 DEF SkipBlockComment, Keeps
  <2> QED
    BY <2>1, <2>2 DEF Reads, Trivia
<1>5. CASE ScanToken
  <2> DEFINE p == TokenAt(text, current)
  <2>1. p.type \in Found /\ Lies(p, text, current)
    BY <1>1, TokenLies
  <2>2. Consume(p) /\ Gives(p)
    BY <1>5, <2>1 DEF ScanToken, Gives
  <2> QED
    BY <2>1, <2>2 DEF Reads
<1>6. CASE ScanError
  <2> DEFINE p == TokenAt(text, current)
  <2>1. p.type \in Found /\ Lies(p, text, current)
    BY <1>1, TokenLies
  <2>2. Consume(p) /\ Drops(p)
    BY <1>6, <2>1 DEF ScanError, Drops
  <2> QED
    BY <2>1, <2>2 DEF Reads
<1>7. CASE ScanDocBody
  <2> DEFINE p == docBodyAt(text, current)
  <2>1. p.type \in {"docBody", "error"} /\ Lies(p, text, current)
    BY <1>1, DocBodyLies
  <2>2. Consume(p) /\ GivesBody(p)
    BY <1>7, <2>1 DEF ScanDocBody, GivesBody
  <2> QED
    BY <2>1, <2>2 DEF Reads, Found
<1> QED
  BY <1>2, <1>3, <1>4, <1>5, <1>6, <1>7 DEF Next

\* The lines that end between two positions.
LEMMA NewlinesCounted ==
  ASSUME NEW i \in Nat, NEW j \in Nat
  PROVE  /\ IsFiniteSet({n \in i .. j - 1 : Char(text, n) = "nl"})
         /\ Newlines(i, j) \in Nat
<1> DEFINE NL == {n \in i .. j - 1 : Char(text, n) = "nl"}
<1>1. IsFiniteSet(i .. j - 1) /\ NL \in SUBSET (i .. j - 1)
  BY FS_Interval
<1>2. IsFiniteSet(NL) /\ Cardinality(NL) \in Nat
  BY <1>1, FS_Subset, FS_CardinalityType
<1> QED
  BY <1>2 DEF Newlines

LEMMA NewlinesAdd ==
  ASSUME NEW i \in Nat, NEW j \in Nat, NEW k \in Nat, i <= j, j <= k
  PROVE  Newlines(i, k) = Newlines(i, j) + Newlines(j, k)
<1> DEFINE NL(a, b) == {n \in a .. b - 1 : Char(text, n) = "nl"}
<1>1. ASSUME NEW a \in Nat, NEW b \in Nat
      PROVE  IsFiniteSet(NL(a, b)) /\ Cardinality(NL(a, b)) \in Nat
  BY NewlinesCounted DEF Newlines
<1>2. NL(i, k) = NL(i, j) \cup NL(j, k) /\ NL(i, j) \cap NL(j, k) = {}
  OBVIOUS
<1>3. /\ Newlines(i, j) = Cardinality(NL(i, j))
      /\ Newlines(j, k) = Cardinality(NL(j, k))
      /\ Newlines(i, k) = Cardinality(NL(i, k))
  BY DEF Newlines
<1> HIDE DEF NL
<1>4. Cardinality(NL(i, k)) = Cardinality(NL(i, j)) + Cardinality(NL(j, k)) - Cardinality({})
  BY <1>1, <1>2, FS_Union
<1> QED
  BY <1>1, <1>3, <1>4, FS_EmptySet

\* What reading a piece changes.
LEMMA ConsumeIs ==
  ASSUME TypeOK, NEW p, p.type \in Found \cup Trivia, Lies(p, text, current),
         caller # "parser", Consume(p)
  PROVE  /\ text' = text /\ taken' = taken
         /\ current' = p.next /\ p.next \in Positions(text) /\ current <= p.next
         /\ line' = line + Newlines(current, p.next) /\ line' \in Nat
         /\ pieces' \in Seq(Piece) /\ Len(pieces') = Len(pieces) + 1
         /\ \A k \in 1 .. Len(pieces) : pieces'[k] = pieces[k]
         /\ pieces'[Len(pieces) + 1] =
              [type |-> p.type, lexeme |-> p.lexeme, by |-> caller,
               from |-> current, next |-> p.next, line |-> line']
<1>1. /\ text' = text /\ taken' = taken /\ current' = p.next
      /\ line' = line + Newlines(current, p.next)
      /\ pieces' = Append(pieces, [type |-> p.type, lexeme |-> p.lexeme, by |-> caller,
                                   from |-> current, next |-> p.next, line |-> line'])
  BY DEF Consume
<1>2. text \in Seq(Characters) /\ Len(text) \in Nat
  BY TextsAssumption, LenProperties DEF TypeOK
<1>3. /\ current \in Nat \ {0} /\ p.next \in Nat \ {0} /\ current <= p.next
      /\ p.next \in Positions(text) /\ p.lexeme \in Seq(Characters)
  BY <1>2 DEF TypeOK, Positions, Lies
<1>4. line' \in Nat
  <2>1. Newlines(current, p.next) \in Nat
    BY <1>3, NewlinesCounted
  <2> QED
    BY <1>1, <2>1 DEF TypeOK
<1> DEFINE e == [type |-> p.type, lexeme |-> p.lexeme, by |-> caller,
                 from |-> current, next |-> p.next, line |-> line']
<1>5. e \in Piece /\ pieces \in Seq(Piece)
  BY <1>3, <1>4 DEF TypeOK, Piece
<1>6. pieces' = Append(pieces, e)
  BY <1>1
<1> HIDE DEF e
<1>7. /\ pieces' \in Seq(Piece) /\ Len(pieces') = Len(pieces) + 1
      /\ \A k \in 1 .. Len(pieces) : pieces'[k] = pieces[k]
      /\ pieces'[Len(pieces) + 1] = e
  BY <1>5, <1>6, AppendProperties
<1> QED
  BY <1>1, <1>3, <1>4, <1>7 DEF e

LEMMA TypeCorrect == Spec => []TypeOK
<1>1. Init => TypeOK
  <2>1. <<>> \in Seq(Piece) /\ <<>> \in Seq(Characters)
    BY EmptySeq
  <2>2. ASSUME text \in Texts PROVE 1 \in Positions(text)
    <3>1. Len(text) \in Nat
      BY <2>2, TextsAssumption, LenProperties
    <3> QED
      BY <3>1 DEF Positions
  <2>3. NoBlock \in Block
    BY <2>1 DEF NoBlock, Block
  <2>4. ASSUME Init PROVE taken \in BOOLEAN
    BY <2>4, Zenon DEF Init
  <2>5. 1 \in Nat
    OBVIOUS
  <2> QED
    BY <2>1, <2>2, <2>3, <2>4, <2>5, Zenon DEF Init, TypeOK
<1>2. TypeOK /\ [Next]_vars => TypeOK'
  <2> SUFFICES ASSUME TypeOK, [Next]_vars PROVE TypeOK'
    OBVIOUS
  <2>1. CASE UNCHANGED vars
    BY <2>1 DEF TypeOK, vars
  <2>2. NoBlock \in Block
    BY EmptySeq DEF NoBlock, Block
  <2>3. CASE Advance
    BY <2>2, <2>3 DEF TypeOK, Advance
  <2>4. CASE TakeLastBlockComment
    BY <2>2, <2>4 DEF TypeOK, TakeLastBlockComment
  <2>5. CASE Reads
    <3>1. PICK p : /\ p.type \in Found \cup Trivia /\ Lies(p, text, current) /\ Consume(p)
                   /\ Skips(p) \/ Keeps(p) \/ Drops(p) \/ Gives(p) \/ GivesBody(p)
      BY <2>5 DEF Reads
    <3>2. caller # "parser"
      BY <3>1 DEF Skips, Keeps, Drops, Gives, GivesBody
    <3>3. /\ text' \in Texts /\ current' \in Positions(text') /\ line' \in Nat
          /\ pieces' \in Seq(Piece) /\ taken' \in BOOLEAN
      BY <3>1, <3>2, ConsumeIs DEF TypeOK
    <3>4. [lexeme |-> p.lexeme, line |-> line] \in Block
      BY <3>1 DEF Lies, Block, TypeOK
    <3>5. lastBlock' \in Block /\ caller' \in {"parser", "scanToken", "scanDocBody"}
      BY <2>2, <3>1, <3>4 DEF TypeOK, Skips, Keeps, Drops, Gives, GivesBody
    <3> QED
      BY <3>3, <3>5 DEF TypeOK
  <2> QED
    BY <2>1, <2>3, <2>4, <2>5, StepIs
<1> QED
  BY <1>1, <1>2, PTL DEF Spec

\* The step that reads p, which becomes the n-th piece.  A piece is a token if
\* and only if the parser has it now.
Grows(p, n) ==
  /\ caller \in {"scanToken", "scanDocBody"}
  /\ Skips(p) \/ Keeps(p) \/ Drops(p) \/ Gives(p) \/ GivesBody(p)
  /\ text' = text /\ taken' = taken
  /\ current' = p.next /\ p.next \in Positions(text) /\ current <= p.next
  /\ line' = line + Newlines(current, p.next)
  /\ DOMAIN pieces = 1 .. n - 1 /\ DOMAIN pieces' = 1 .. n
  /\ \A k \in 1 .. n - 1 : pieces'[k] = pieces[k]
  /\ pieces'[n] = [type |-> p.type, lexeme |-> p.lexeme, by |-> caller,
                   from |-> current, next |-> p.next, line |-> line']
  /\ Tokens \subseteq 1 .. n - 1
  /\ Tokens' = IF caller' = "parser" THEN Tokens \cup {n} ELSE Tokens

LEMMA ReadsGrows ==
  ASSUME TypeOK, Reads
  PROVE  \E p : \E n \in Nat \ {0} : Grows(p, n)
<1>1. PICK p : /\ p.type \in Found \cup Trivia /\ Lies(p, text, current) /\ Consume(p)
               /\ Skips(p) \/ Keeps(p) \/ Drops(p) \/ Gives(p) \/ GivesBody(p)
  BY DEF Reads
<1>2. caller \in {"scanToken", "scanDocBody"} /\ caller # "parser"
  BY <1>1 DEF Skips, Keeps, Drops, Gives, GivesBody, TypeOK
<1>3. PICK n : n = Len(pieces) + 1
  OBVIOUS
<1>4. /\ text' = text /\ taken' = taken
      /\ current' = p.next /\ p.next \in Positions(text) /\ current <= p.next
      /\ line' = line + Newlines(current, p.next)
      /\ pieces' \in Seq(Piece) /\ Len(pieces') = n
      /\ \A k \in 1 .. n - 1 : pieces'[k] = pieces[k]
      /\ pieces'[n] = [type |-> p.type, lexeme |-> p.lexeme, by |-> caller,
                       from |-> current, next |-> p.next, line |-> line']
  BY <1>1, <1>2, <1>3, ConsumeIs
<1>5. DOMAIN pieces = 1 .. n - 1 /\ DOMAIN pieces' = 1 .. n /\ n \in Nat \ {0}
  BY <1>3, <1>4, LenProperties DEF TypeOK
<1>6. IsCurrent(pieces'[n]) <=> caller' = "parser"
  <2>1. pieces'[n].type = p.type /\ pieces'[n].by = caller
    BY <1>4
  <2> QED
    BY <1>1, <1>2, <2>1
    DEF IsCurrent, Skips, Keeps, Drops, Gives, GivesBody, Found, Trivia
<1>7. \A k \in 1 .. n - 1 : IsCurrent(pieces'[k]) <=> IsCurrent(pieces[k])
  BY <1>4
<1>8. Tokens \subseteq 1 .. n - 1 /\ Tokens' = {k \in 1 .. n : IsCurrent(pieces'[k])}
  BY <1>5 DEF Tokens, IsCurrent
<1>9. Tokens' = IF caller' = "parser" THEN Tokens \cup {n} ELSE Tokens
  <2>1. Tokens = {k \in 1 .. n - 1 : IsCurrent(pieces[k])}
    BY <1>5 DEF Tokens
  <2> QED
    BY <1>5, <1>6, <1>7, <1>8, <2>1
<1>10. Grows(p, n)
  BY <1>1, <1>2, <1>4, <1>5, <1>8, <1>9 DEF Grows
<1> QED
  BY <1>5, <1>10

----------------------------------------------------------------------------
(***************************************************************************)
(* Messages tell the line.  With TypeOK the invariant is inductive.        *)
(***************************************************************************)
\* A token is reported on the line of its last character, a kept comment on
\* that of its first, in every text: no loop of the scanner loses a line end.
THEOREM LinesAlwaysTell == Spec => []LinesTell
<1> DEFINE LineOf(i) == 1 + Newlines(1, i)
           KeptLine == lastBlock # NoBlock =>
                         \E i \in DOMAIN pieces : /\ pieces[i].type = "blockComment"
                                                  /\ pieces[i].lexeme = lastBlock.lexeme
                                                  /\ lastBlock.line = LineOf(pieces[i].from)
<1>1. Init => LinesTell
  <2> SUFFICES ASSUME Init PROVE LinesTell
    OBVIOUS
  <2>1. Newlines(1, 1) = 0
    <3>1. 1 .. 1 - 1 = {}
      OBVIOUS
    <3>2. {k \in 1 .. 1 - 1 : Char(text, k) = "nl"} = {}
      BY <3>1
    <3> QED
      BY <3>2, FS_EmptySet DEF Newlines
  <2> QED
    BY <2>1 DEF Init, LinesTell
<1>2. ASSUME TypeOK, LinesTell, [Next]_vars PROVE LinesTell'
  <2>1. CASE UNCHANGED vars
    BY <1>2, <2>1 DEF LinesTell, Newlines, vars
  <2>2. CASE Advance
    <3>1. UNCHANGED <<text, current, line, pieces>> /\ lastBlock' \in {NoBlock, lastBlock}
      BY <2>2 DEF Advance
    <3> QED
      BY <1>2, <3>1 DEF LinesTell, Newlines
  <2>3. CASE TakeLastBlockComment
    BY <1>2, <2>3 DEF LinesTell, Newlines, TakeLastBlockComment
  <2>4. CASE Reads
    <3>1. PICK p : \E n \in Nat \ {0} : Grows(p, n)
      BY <1>2, <2>4, ReadsGrows
    <3>2. PICK n \in Nat \ {0} : Grows(p, n)
      BY <3>1
    <3>3. /\ text' = text /\ current' = p.next
          /\ p.next \in Positions(text) /\ current <= p.next
          /\ line' = line + Newlines(current, p.next)
          /\ \A k \in 1 .. n - 1 : pieces'[k] = pieces[k]
          /\ pieces'[n] = [type |-> p.type, lexeme |-> p.lexeme, by |-> caller,
                           from |-> current, next |-> p.next, line |-> line']
      BY <3>2 DEF Grows
    <3>4. DOMAIN pieces = 1 .. n - 1 /\ DOMAIN pieces' = 1 .. n
      BY <3>2 DEF Grows
    <3>5. current \in Nat \ {0} /\ p.next \in Nat \ {0}
      BY <1>2, <3>3 DEF TypeOK, Positions
    <3>6. \A i, j : (Newlines(i, j))' = Newlines(i, j)
      BY <3>3 DEF Newlines
    <3>7. line' = LineOf(p.next)
      <4>1. line = 1 + Newlines(1, current)
        BY <1>2 DEF LinesTell
      <4>2. Newlines(1, p.next) = Newlines(1, current) + Newlines(current, p.next)
        BY <3>3, <3>5, NewlinesAdd
      <4>3. Newlines(1, current) \in Nat /\ Newlines(current, p.next) \in Nat
        BY <3>5, NewlinesCounted
      <4> QED
        BY <3>3, <4>1, <4>2, <4>3
    <3>8. line' = (LineOf(current))'
      BY <3>3, <3>6, <3>7
    <3>9. ASSUME NEW i \in DOMAIN pieces' PROVE pieces'[i].line = (LineOf(pieces[i].next))'
      <4>1. CASE i = n
        BY <3>3, <3>6, <3>7, <4>1
      <4>2. CASE i # n
        BY <1>2, <3>3, <3>4, <3>6, <3>9, <4>2 DEF LinesTell
      <4> QED
        BY <4>1, <4>2
    <3>10. KeptLine'
      <4>1. CASE Keeps(p)
        <5>1. /\ lastBlock' = [lexeme |-> p.lexeme, line |-> line] /\ p.type = "blockComment"
              /\ line = LineOf(current)
          BY <1>2, <4>1 DEF Keeps, LinesTell
        <5>2. /\ n \in DOMAIN pieces' /\ pieces'[n].type = "blockComment"
              /\ pieces'[n].lexeme = lastBlock'.lexeme
              /\ pieces'[n].from = current
          BY <3>3, <3>4, <5>1
        <5>3. lastBlock'.line = (LineOf(pieces[n].from))'
          BY <3>6, <5>1, <5>2
        <5> QED
          BY <5>2, <5>3
      <4>2. CASE lastBlock' = NoBlock
        BY <4>2
      <4>3. CASE lastBlock' = lastBlock
        <5>1. SUFFICES ASSUME lastBlock # NoBlock PROVE KeptLine'
          BY <4>3 DEF NoBlock
        <5>2. PICK i \in DOMAIN pieces : /\ pieces[i].type = "blockComment"
                                         /\ pieces[i].lexeme = lastBlock.lexeme
                                         /\ lastBlock.line = LineOf(pieces[i].from)
          BY <1>2, <5>1 DEF LinesTell
        <5>3. i \in DOMAIN pieces' /\ pieces'[i] = pieces[i]
          BY <3>3, <3>4
        <5> QED
          BY <3>6, <4>3, <5>2, <5>3
      <4> QED
        BY <3>2, <4>1, <4>2, <4>3 DEF Grows, Skips, Drops, Gives, GivesBody
    <3> QED
      BY <3>8, <3>9, <3>10 DEF LinesTell
  <2> QED
    BY <1>2, <2>1, <2>2, <2>3, <2>4, StepIs
<1> QED
  BY <1>1, <1>2, TypeCorrect, PTL DEF Spec

----------------------------------------------------------------------------
(***************************************************************************)
(* The kept comment.  What the parser may take depends on the pieces       *)
(* behind the last but one of its tokens; while scanToken() runs those are *)
(* behind the last, and between the two moments only scanDocBody() reads.  *)
(***************************************************************************)
Places == {i \in Tokens : pieces[i].by = "scanToken"}

Behind == {i \in DOMAIN pieces : \A q \in Places : q < i}

IsBlock(p) == p.type \in {"blockComment", "error"} /\ p.by = "scanToken"

\* lastBlock is the last of the pieces with a number in B, if that is a comment
\* and not taken.
IsKept(B) ==
  LET there == B # {} /\ pieces[Max(B)].type = "blockComment"
  IN  /\ lastBlock # NoBlock <=> there /\ ~ taken
      /\ lastBlock.lexeme = IF there /\ ~ taken THEN pieces[Max(B)].lexeme ELSE <<>>

BehindBlocks == {i \in Behind : IsBlock(pieces[i])}
NearBlocks   == {i \in Near : IsBlock(pieces[i])}

KeptInv ==
  /\ caller = "scanToken" => ~ taken /\ IsKept(BehindBlocks)
  /\ caller # "scanToken" => /\ IsKept(NearBlocks)
                             /\ \A i \in Behind : pieces[i].by = "scanDocBody"

\* When the parser has a token, what it may take is the last comment in front
\* of that token, with no error behind it, and it may take it once.
THEOREM KeptIsAlwaysTheNearest == Spec => []KeptIsTheNearest
<1>1. Init => KeptInv
  <2> SUFFICES ASSUME Init PROVE KeptInv
    OBVIOUS
  <2>1. Behind = {} /\ Near = {} /\ BehindBlocks = {} /\ NearBlocks = {}
    BY DEF Init, Behind, Near, BehindBlocks, NearBlocks
  <2> QED
    BY <2>1 DEF Init, KeptInv, IsKept, NoBlock
<1>2. ASSUME TypeOK, LinesTell, KeptInv, [Next]_vars PROVE KeptInv'
  <2>1. CASE UNCHANGED vars
    BY <1>2, <2>1
    DEF vars, KeptInv, IsKept, NearBlocks, BehindBlocks, Near, Behind, Places, Tokens, IsCurrent
  <2>2. CASE Advance
    <3>1. /\ UNCHANGED pieces /\ caller = "parser"
          /\ \/ caller' = "scanDocBody" /\ lastBlock' = lastBlock /\ taken' = taken
             \/ caller' = "scanToken" /\ lastBlock' = NoBlock /\ ~ taken'
      BY <1>2, <2>2 DEF Advance, TypeOK
    <3>2. /\ Near' = Near /\ Behind' = Behind
          /\ NearBlocks' = NearBlocks /\ BehindBlocks' = BehindBlocks
      BY <3>1 DEF NearBlocks, BehindBlocks, Near, Behind, Places, Tokens, IsCurrent
    <3>3. BehindBlocks = {}
      BY <1>2, <3>1 DEF KeptInv, BehindBlocks, IsBlock
    <3> QED
      BY <1>2, <3>1, <3>2, <3>3 DEF KeptInv, IsKept, NoBlock
  <2>3. CASE TakeLastBlockComment
    <3>1. /\ UNCHANGED pieces /\ caller = "parser" /\ caller' = caller
          /\ lastBlock' = NoBlock /\ taken'
      BY <2>3 DEF TakeLastBlockComment
    <3>2. /\ Near' = Near /\ Behind' = Behind
          /\ NearBlocks' = NearBlocks /\ BehindBlocks' = BehindBlocks
      BY <3>1 DEF NearBlocks, BehindBlocks, Near, Behind, Places, Tokens, IsCurrent
    <3> QED
      BY <1>2, <3>1, <3>2 DEF KeptInv, IsKept, NoBlock
  <2>4. CASE Reads
    <3>1. PICK p : \E n \in Nat \ {0} : Grows(p, n)
      BY <1>2, <2>4, ReadsGrows
    <3>2. PICK n \in Nat \ {0} : Grows(p, n)
      BY <3>1
    <3>3. /\ taken' = taken /\ DOMAIN pieces = 1 .. n - 1 /\ DOMAIN pieces' = 1 .. n
          /\ \A k \in 1 .. n - 1 : pieces'[k] = pieces[k]
          /\ pieces'[n].type = p.type /\ pieces'[n].by = caller
          /\ pieces'[n].lexeme = p.lexeme
          /\ Tokens \subseteq 1 .. n - 1
          /\ Tokens' = IF caller' = "parser" THEN Tokens \cup {n} ELSE Tokens
      BY <3>2 DEF Grows
    <3>4. /\ Places' = IF caller' = "parser" /\ caller = "scanToken"
                       THEN Places \cup {n} ELSE Places
          /\ Places \subseteq 1 .. n - 1
      BY <3>3 DEF Places
    <3>5. /\ Behind = {i \in 1 .. n - 1 : \A q \in Places : q < i}
          /\ Behind' = {i \in 1 .. n : \A q \in Places' : q < i}
      BY <3>3 DEF Behind
    <3>6. /\ Near = {i \in 1 .. n - 1 : \A q \in Places : q >= i => \A r \in Places : r <= q}
          /\ Near' = {i \in 1 .. n : \A q \in Places' : q >= i => \A r \in Places' : r <= q}
      BY <3>3 DEF Near, Places
    <3>7. /\ \A k \in 1 .. n - 1 : IsBlock(pieces'[k]) <=> IsBlock(pieces[k])
          /\ BehindBlocks' = {i \in Behind' : IsBlock(pieces'[i])}
          /\ NearBlocks' = {i \in Near' : IsBlock(pieces'[i])}
      BY <3>3 DEF BehindBlocks, NearBlocks, IsBlock
    <3>8. BehindBlocks \subseteq 1 .. n - 1 /\ NearBlocks \subseteq 1 .. n - 1
      BY <3>5, <3>6 DEF BehindBlocks, NearBlocks
    <3>9. ASSUME NEW B \in SUBSET (1 .. n - 1), lastBlock' = lastBlock, IsKept(B)
          PROVE  IsKept(B)'
      <4>1. B # {} => Max(B) \in 1 .. n - 1
        <5>1. n - 1 \in Nat
          OBVIOUS
        <5> QED
          BY <5>1, MaxIsGreatest
      <4> QED
        BY <3>3, <3>9, <4>1 DEF IsKept, NoBlock
    <3>10. CASE caller = "scanToken" /\ caller' = caller
      <4>1. Behind' = Behind \cup {n} /\ Places' = Places
        BY <3>4, <3>5, <3>10
      <4>2. BehindBlocks' = IF IsBlock(pieces'[n]) THEN BehindBlocks \cup {n} ELSE BehindBlocks
        BY <3>5, <3>7, <4>1 DEF BehindBlocks
      <4>3. ~ taken /\ IsKept(BehindBlocks)
        BY <1>2, <3>10 DEF KeptInv
      <4>4. PICK B : B = BehindBlocks
        OBVIOUS
      <4>5. CASE Skips(p)
        <5>1. ~ IsBlock(pieces'[n]) /\ lastBlock' = lastBlock
          BY <3>3, <4>5 DEF Skips, IsBlock
        <5>2. BehindBlocks' = B
          BY <4>2, <4>4, <5>1
        <5>3. IsKept(B)'
          BY <3>8, <3>9, <4>3, <4>4, <5>1
        <5> QED
          BY <3>3, <3>10, <4>3, <5>2, <5>3 DEF KeptInv, IsKept
      <4>6. CASE Keeps(p) \/ Drops(p)
        <5>1. BehindBlocks' = B \cup {n} /\ pieces'[n].type = p.type
          BY <3>3, <3>10, <4>2, <4>4, <4>6 DEF Keeps, Drops, IsBlock
        <5>2. Max(BehindBlocks') = n
          <6>1. B \cup {n} \in SUBSET (1 .. n) /\ n \in B \cup {n}
            BY <3>8, <4>4
          <6>2. Max(B \cup {n}) \in B \cup {n} /\ n <= Max(B \cup {n})
            BY <6>1, MaxIsGreatest
          <6>3. Max(B \cup {n}) \in 1 .. n
            BY <6>1, <6>2
          <6> QED
            BY <5>1, <6>2, <6>3
        <5>3. line # 0
          <6>1. current \in Nat
            BY <1>2 DEF TypeOK, Positions
          <6>2. line = 1 + Newlines(1, current) /\ Newlines(1, current) \in Nat
            BY <1>2, <6>1, NewlinesCounted DEF LinesTell
          <6> QED
            BY <6>2
        <5>4. \/ /\ lastBlock' = [lexeme |-> p.lexeme, line |-> line]
                 /\ pieces'[n].type = "blockComment" /\ pieces'[n].lexeme = p.lexeme
              \/ lastBlock' = NoBlock /\ pieces'[n].type = "error"
          BY <3>3, <4>6 DEF Keeps, Drops
        <5>5. IsKept(BehindBlocks)'
          BY <3>3, <4>3, <5>1, <5>2, <5>3, <5>4 DEF IsKept, NoBlock
        <5> QED
          BY <3>3, <3>10, <4>3, <5>5 DEF KeptInv
      <4> QED
        BY <3>2, <3>10, <4>5, <4>6 DEF Grows, Gives, GivesBody
    <3>11. CASE caller = "scanToken" /\ caller' = "parser"
      <4>1. Gives(p)
        BY <3>2, <3>11 DEF Grows, Skips, Keeps, Drops, Gives, GivesBody
      <4>2. lastBlock' = lastBlock /\ ~ IsBlock(pieces'[n])
        BY <3>3, <4>1 DEF Gives, IsBlock, Found
      <4>3. Behind' = {} /\ Near' = Behind \cup {n}
        BY <3>4, <3>5, <3>6, <3>11
      <4>4. PICK B : B = BehindBlocks
        OBVIOUS
      <4>5. NearBlocks' = B
        BY <3>5, <3>7, <4>2, <4>3, <4>4 DEF BehindBlocks
      <4>6. IsKept(B)'
        BY <1>2, <3>8, <3>9, <3>11, <4>2, <4>4 DEF KeptInv
      <4> QED
        BY <3>11, <4>3, <4>5, <4>6 DEF KeptInv
    <3>12. CASE caller = "scanDocBody"
      <4>1. Skips(p) \/ GivesBody(p)
        BY <3>2, <3>12 DEF Grows, Keeps, Drops, Gives
      <4>2. lastBlock' = lastBlock /\ ~ IsBlock(pieces'[n]) /\ caller' # "scanToken"
        BY <3>3, <3>12, <4>1 DEF Skips, GivesBody, IsBlock
      <4>3. Behind' = Behind \cup {n} /\ Near' = Near \cup {n}
        BY <3>4, <3>5, <3>6, <3>12
      <4>4. PICK B : B = NearBlocks
        OBVIOUS
      <4>5. NearBlocks' = B
        BY <3>6, <3>7, <4>2, <4>3, <4>4 DEF NearBlocks
      <4>6. IsKept(B)'
        BY <1>2, <3>8, <3>9, <3>12, <4>2, <4>4 DEF KeptInv
      <4>7. \A i \in Behind' : pieces'[i].by = "scanDocBody"
        BY <1>2, <3>3, <3>5, <3>12, <4>3 DEF KeptInv
      <4> QED
        BY <4>2, <4>5, <4>6, <4>7 DEF KeptInv
    <3> QED
      BY <3>2, <3>10, <3>11, <3>12 DEF Grows, Skips, Keeps, Drops, Gives, GivesBody
  <2> QED
    BY <1>2, <2>1, <2>2, <2>3, <2>4, StepIs
<1>3. KeptInv => KeptIsTheNearest
  <2>1. NearBlocks = {i \in Near : /\ pieces[i].type \in {"blockComment", "error"}
                                   /\ pieces[i].by = "scanToken"}
    BY DEF NearBlocks, IsBlock
  <2> QED
    BY <2>1 DEF KeptInv, IsKept, KeptIsTheNearest
<1> QED
  BY <1>1, <1>2, <1>3, TypeCorrect, LinesAlwaysTell, PTL DEF Spec

----------------------------------------------------------------------------
(***************************************************************************)
(* The words of a text.                                                    *)
(***************************************************************************)
\* A word has the characters of the text, and then its end.
LEMMA WordIs ==
  ASSUME NEW s \in Seq(Characters), NEW i \in Positions(s), NEW j \in i .. Len(s) + 1,
         NEW k \in Nat \ {0}
  PROVE  Char(Text(s, i, j), k) = IF k <= j - i THEN Char(s, i + k - 1) ELSE "end"
<1>1. /\ Len(Text(s, i, j)) = j - i
      /\ \A n \in 1 .. j - i : Text(s, i, j)[n] = Char(s, i + n - 1)
  BY TextIs
<1>2. i \in Nat /\ j \in Nat
  BY LenProperties DEF Positions
<1> QED
  BY <1>1, <1>2 DEF Char

\* A word of a word is a word of the text.
LEMMA WordOfWord ==
  ASSUME NEW s \in Seq(Characters), NEW i \in Positions(s), NEW j \in i .. Len(s) + 1,
         NEW m \in Nat \ {0}, NEW n \in Nat \ {0}, m <= n, n <= j - i + 1
  PROVE  Text(Text(s, i, j), m, n) = Text(s, i + m - 1, i + n - 1)
<1> DEFINE w == Text(s, i, j)
           u == Text(w, m, n)
           v == Text(s, i + m - 1, i + n - 1)
<1>1. i \in Nat \ {0} /\ j \in Nat \ {0} /\ Len(s) \in Nat /\ j <= Len(s) + 1 /\ i <= j
  BY LenProperties DEF Positions
<1>2. /\ w \in Seq(Characters) /\ Len(w) = j - i
      /\ \A k \in 1 .. j - i : w[k] = s[i + k - 1]
  BY TextIs
<1> HIDE DEF w
<1>3. /\ u \in Seq(Characters) /\ Len(u) = n - m
      /\ \A k \in 1 .. n - m : u[k] = w[m + k - 1]
  <2>1. m \in Positions(w) /\ n \in m .. Len(w) + 1
    BY <1>1, <1>2 DEF Positions
  <2> QED
    BY <1>2, <2>1, TextIs
<1>4. /\ v \in Seq(Characters) /\ Len(v) = n - m
      /\ \A k \in 1 .. n - m : v[k] = s[i + m - 1 + k - 1]
  <2>1. i + m - 1 \in Positions(s) /\ i + n - 1 \in i + m - 1 .. Len(s) + 1
    BY <1>1 DEF Positions
  <2>2. (i + n - 1) - (i + m - 1) = n - m
    BY <1>1
  <2>3. /\ v \in Seq(Characters) /\ Len(v) = (i + n - 1) - (i + m - 1)
        /\ \A k \in 1 .. (i + n - 1) - (i + m - 1) : v[k] = s[i + m - 1 + k - 1]
    BY <2>1, TextIs, Zenon
  <2> QED
    BY <2>2, <2>3, Zenon
<1> HIDE DEF u, v
<1>5. ASSUME NEW k \in 1 .. Len(u) PROVE u[k] = v[k]
  <2>1. k \in 1 .. n - m /\ m + k - 1 \in 1 .. j - i
    BY <1>1, <1>3
  <2>2. u[k] = s[i + (m + k - 1) - 1]
    BY <1>2, <1>3, <2>1
  <2>3. i + (m + k - 1) - 1 = i + m - 1 + k - 1
    BY <1>1, <2>1
  <2> QED
    BY <1>4, <2>1, <2>2, <2>3
<1>6. u = v
  BY <1>3, <1>4, <1>5, SeqEqual
<1> QED
  BY <1>6 DEF u, v, w

\* The word from i on that closes a comment for the first time is a comment.
LEMMA CommentFound ==
  ASSUME NEW s \in Seq(Characters), NEW i \in Positions(s), At(s, i, <<"/", "*">>),
         NEW e \in i + 2 .. Len(s), At(s, e, <<"*", "/">>),
         \A k \in i + 2 .. e - 1 : ~ At(s, k, <<"*", "/">>),
         NEW f, f = e + 2
  PROVE  /\ f \in i .. Len(s) + 1
         /\ IsComment(Text(s, i, f))
         /\ Interior(Text(s, i, f), 2) = Text(s, i + 2, e)
<1>1. i \in Nat \ {0} /\ e \in Nat \ {0} /\ Len(s) \in Nat /\ i + 2 <= e /\ e <= Len(s)
  BY LenProperties DEF Positions
<1>2. /\ Char(s, i) = "/" /\ Char(s, i + 1) = "*"
      /\ Char(s, e) = "*" /\ Char(s, e + 1) = "/"
  <2>1. i \in Nat /\ e \in Nat
    BY <1>1
  <2> QED
    BY <2>1, AtTwo, Zenon
<1>3. f \in i .. Len(s) + 1
  BY <1>1, <1>2, CharIs
<1> DEFINE w == Text(s, i, f)
<1>4. Len(w) = f - i /\ w \in Seq(Characters)
  BY <1>3, TextIs
<1>5. \A k \in Nat \ {0} : k <= f - i => Char(w, k) = Char(s, i + k - 1)
  BY <1>3, WordIs
<1>6. Interior(w, 2) = Text(s, i + 2, e)
  <2>1. PICK n : n = f - i - 1
    OBVIOUS
  <2>2. Interior(w, 2) = Text(w, 3, n)
    <3> HIDE DEF w
    <3>1. Len(w) - 2 = n - 1 /\ 2 + 1 = 3
      BY <1>1, <1>4, <2>1
    <3> QED
      BY <3>1 DEF Interior, Text
  <2>3. /\ n \in Nat \ {0} /\ 3 \in Nat \ {0} /\ 3 <= n /\ n <= f - i + 1
        /\ i + 3 - 1 = i + 2 /\ i + n - 1 = e
    BY <1>1, <2>1
  <2>4. Text(w, 3, n) = Text(s, i + 3 - 1, i + n - 1)
    BY <1>3, <2>3, WordOfWord
  <2> QED
    BY <2>2, <2>3, <2>4
<1> HIDE DEF w
<1>7. At(w, 1, <<"/", "*">>) /\ At(w, Len(w) - 1, <<"*", "/">>)
  <2>1. PICK n : n = Len(w) - 1
    OBVIOUS
  <2>2. /\ 1 \in Nat /\ n \in Nat
        /\ 1 + 1 \in Nat \ {0} /\ n \in Nat \ {0} /\ n + 1 \in Nat \ {0}
        /\ n + 1 <= f - i /\ n <= f - i /\ 1 + 1 <= f - i /\ 1 <= f - i
        /\ i + 1 - 1 = i /\ i + (1 + 1) - 1 = i + 1
        /\ i + n - 1 = e /\ i + (n + 1) - 1 = e + 1
    BY <1>1, <1>4, <2>1
  <2>3. Char(w, 1) = "/" /\ Char(w, 1 + 1) = "*"
    BY <1>2, <1>5, <2>2
  <2>4. Char(w, n) = "*" /\ Char(w, n + 1) = "/"
    BY <1>2, <1>5, <2>2
  <2> QED
    BY <2>1, <2>2, <2>3, <2>4, AtTwo, Zenon
<1>8. ASSUME NEW k \in 3 .. Len(w) - 2 PROVE ~ At(w, k, <<"*", "/">>)
  <2>1. PICK m : m = i + k - 1
    OBVIOUS
  <2>2. /\ m \in i + 2 .. e - 1 /\ m \in Nat /\ k \in Nat \ {0} /\ k \in Nat
        /\ k + 1 \in Nat \ {0} /\ k <= f - i /\ k + 1 <= f - i
        /\ i + (k + 1) - 1 = m + 1
    BY <1>1, <1>4, <2>1
  <2>3. Char(w, k) = Char(s, m) /\ Char(w, k + 1) = Char(s, m + 1)
    BY <1>5, <2>1, <2>2
  <2>4. ~ At(s, m, <<"*", "/">>) /\ m \in Nat /\ k \in Nat
    BY <2>2
  <2>5. ~ (Char(s, m) = "*" /\ Char(s, m + 1) = "/")
    BY <2>4, AtTwo, Zenon
  <2>6. ~ (Char(w, k) = "*" /\ Char(w, k + 1) = "/")
    BY <2>3, <2>5
  <2> QED
    BY <2>4, <2>6, AtTwo, Zenon
<1>9. Len(w) >= 4
  BY <1>1, <1>4
<1> QED
  BY <1>3, <1>6, <1>7, <1>8, <1>9 DEF IsComment, w

----------------------------------------------------------------------------
(***************************************************************************)
(* The body behind `doc`.                                                  *)
(***************************************************************************)
\* What DocHasItsBody says of the token t behind `doc`.
IsBody(t) ==
  LET w == Text(text, t.from, t.next)
      interior == Interior(w, 2)
  IN  \/ /\ t.type = "docBody" /\ IsComment(w)
         /\ t.lexeme = IF At(interior, 1, <<"*">>) THEN Tail(interior) ELSE interior
      \/ /\ t.type = "error"
         /\ \/ t.from = t.next /\ ~ At(text, t.from, <<"/", "*">>)
            \/ IsOpen(t.from)

\* scanDocBody() finds such a body, wherever it is called.
LEMMA BodyIs ==
  ASSUME text \in Seq(Characters), NEW i \in Positions(text), NEW t,
         NEW p, p = docBodyAt(text, i),
         t.from = i, t.next = p.next, t.type = p.type, t.lexeme = p.lexeme
  PROVE  IsBody(t)
<1>1. i \in Nat \ {0} /\ Len(text) \in Nat /\ i \in Nat
  BY LenProperties DEF Positions
<1>2. CASE ~ At(text, i, <<"/", "*">>)
  <2>1. p.type = "error" /\ p.next = i
    BY <1>2 DEF docBodyAt, Error, Scanned
  <2> QED
    BY <1>2, <2>1 DEF IsBody
<1>3. CASE At(text, i, <<"/", "*">>)
  <2>1. Char(text, i) = "/" /\ Char(text, i + 1) = "*"
    <3>1. i \in Nat
      BY <1>1
    <3> QED
      BY <1>3, <3>1, AtTwo, Zenon
  <2> DEFINE starred == Char(text, i + 2) = "*" /\ Char(text, i + 3) # "/"
             j == IF starred THEN i + 3 ELSE i + 2
  <2>2. p = captureCommentInterior(text, j)
    BY <1>3 DEF docBodyAt
  <2>3. i + 2 \in Positions(text) /\ j \in Positions(text) /\ j \in Nat \ {0} /\ i + 2 <= j
    BY <1>1, <2>1, CharIs DEF Positions
  <2>4. starred => j = i + 3 /\ ~ At(text, i + 2, <<"*", "/">>)
    <3>1. i + 2 \in Nat /\ i + 2 + 1 = i + 3
      BY <1>1
    <3>2. At(text, i + 2, <<"*", "/">>) => Char(text, i + 3) = "/"
      BY <3>1, AtTwo
    <3> QED
      BY <3>2
  <2>5. ~ starred => j = i + 2
    OBVIOUS
  <2> HIDE DEF j
  <2>6. CASE /\ p = Error(Len(text) + 1)
             /\ \A k \in j .. Len(text) : ~ At(text, k, <<"*", "/">>)
    <3>1. ASSUME NEW k \in i + 2 .. Len(text) PROVE ~ At(text, k, <<"*", "/">>)
      <4>1. (k = i + 2 /\ starred) \/ k \in j .. Len(text)
        BY <1>1, <2>3, <2>4, <2>5
      <4> QED
        BY <2>4, <2>6, <4>1
    <3>2. IsOpen(i)
      BY <1>3, <3>1 DEF IsOpen
    <3> QED
      BY <2>6, <3>2 DEF IsBody, Error, Scanned
  <2>7. CASE /\ p.next \in j + 2 .. Len(text) + 1
             /\ p.type = "docBody" /\ p.lexeme = Text(text, j, p.next - 2)
             /\ At(text, p.next - 2, <<"*", "/">>)
             /\ \A k \in j .. p.next - 3 : ~ At(text, k, <<"*", "/">>)
    <3>1. PICK e : e = p.next - 2
      OBVIOUS
    <3>2. /\ e \in j .. Len(text) /\ p.next = e + 2 /\ At(text, e, <<"*", "/">>)
          /\ e - 1 = p.next - 3 /\ e \in Nat
      BY <1>1, <2>3, <2>7, <3>1
    <3>3. ASSUME NEW k \in i + 2 .. e - 1 PROVE ~ At(text, k, <<"*", "/">>)
      <4>1. (k = i + 2 /\ starred) \/ k \in j .. p.next - 3
        BY <1>1, <2>3, <2>4, <2>5, <3>2
      <4> QED
        BY <2>4, <2>7, <4>1
    <3>4. e \in i + 2 .. Len(text)
      BY <1>1, <2>3, <3>2
    <3> DEFINE w == Text(text, i, p.next)
               interior == Interior(w, 2)
    <3>5. IsComment(w) /\ interior = Text(text, i + 2, e)
      BY <1>3, <3>2, <3>3, <3>4, CommentFound
    <3> HIDE DEF w, interior
    <3>6. p.lexeme = IF At(interior, 1, <<"*">>) THEN Tail(interior) ELSE interior
      <4>1. p.lexeme = Text(text, j, e)
        BY <2>7, <3>1
      <4>2. PICK h : h = i + 2
        OBVIOUS
      <4>3. h \in Positions(text) /\ e \in h .. Len(text) + 1 /\ h \in Nat
        BY <1>1, <2>3, <3>4, <4>2
      <4>4. /\ interior = Text(text, h, e) /\ interior \in Seq(Characters)
            /\ Len(interior) = e - h
            /\ \A k \in 1 .. e - h : interior[k] = text[h + k - 1]
        BY <3>5, <4>2, <4>3, TextIs
      <4>5. At(interior, 1, <<"*">>) <=> e # h /\ Char(text, h) = "*"
        <5>1. Char(interior, 1) = IF 1 <= e - h THEN Char(text, h + 1 - 1) ELSE "end"
          BY <4>3, <4>4, WordIs
        <5>2. h + 1 - 1 = h /\ (1 <= e - h <=> e # h)
          BY <3>2, <4>3
        <5>3. At(interior, 1, <<"*">>) <=> Char(interior, 1) = "*"
          <6>1. DOMAIN <<"*">> = {1} /\ 1 + 1 - 1 = 1
            OBVIOUS
          <6> QED
            BY <6>1 DEF At
        <5> QED
          BY <5>1, <5>2, <5>3
      <4>6. CASE starred
        <5>1. j = h + 1 /\ e # h /\ Char(text, h) = "*"
          <6>1. ~ At(text, h, <<"*", "/">>) /\ j = i + 3 /\ Char(text, h) = "*"
            BY <2>4, <4>2, <4>6
          <6> QED
            BY <1>1, <3>2, <4>2, <6>1
        <5>2. interior # <<>> /\ Len(interior) - 1 = e - h - 1
          BY <3>2, <4>3, <4>4, <5>1
        <5>3. Tail(interior) = SubSeq(interior, 2, Len(interior))
          BY <4>4, <5>2, TailIsSubSeq
        <5>4. PICK n : n = e - h + 1
          OBVIOUS
        <5>5. /\ n \in Nat \ {0} /\ 2 <= n /\ n <= e - h + 1 /\ Len(interior) = n - 1
              /\ h + 2 - 1 = j /\ h + n - 1 = e /\ 2 \in Nat \ {0}
          BY <2>3, <3>2, <4>3, <4>4, <5>1, <5>4
        <5>6. Tail(interior) = Text(interior, 2, n)
          BY <5>3, <5>5 DEF Text
        <5>7. Text(interior, 2, n) = Text(text, h + 2 - 1, h + n - 1)
          BY <4>3, <4>4, <5>5, WordOfWord
        <5> QED
          BY <4>1, <4>5, <5>1, <5>5, <5>6, <5>7
      <4>7. CASE ~ starred
        <5>1. j = h
          BY <2>5, <4>2, <4>7
        <5>2. ASSUME Char(text, h) = "*" PROVE e = h
          <6>1. Char(text, h + 1) = "/"
            BY <1>1, <4>2, <4>7, <5>2
          <6>2. At(text, h, <<"*", "/">>)
            BY <4>3, <5>2, <6>1, AtTwo, Zenon
          <6> QED
            BY <3>2, <3>3, <4>2, <4>3, <6>2
        <5> QED
          BY <4>1, <4>4, <4>5, <5>1, <5>2
      <4> QED
        BY <4>6, <4>7
    <3>7. IsBody(t)
      BY <2>7, <3>5, <3>6 DEF IsBody, interior, w
    <3> QED
      BY <3>7
  <2> QED
    BY <2>2, <2>3, <2>6, <2>7, CommentIs
<1> QED
  BY <1>2, <1>3

\* The token that was read before the i-th piece is `doc`.
FollowsDoc(i) == \E d \in Tokens : /\ d < i /\ pieces[d].type = "doc"
                                   /\ \A k \in Tokens : k < i => k <= d

\* The parser asks for a body if and only if it has `doc`.
CallerTells ==
  /\ caller = "scanDocBody" => Reached("doc")
  /\ caller = "scanToken" => ~ Reached("doc")

\* Behind `doc`, and only there, the parser gets what scanDocBody() finds: the
\* comment that follows, or an error.
THEOREM DocAlwaysHasItsBody == Spec => []DocHasItsBody
<1> DEFINE BodyAt(i) == IsBody(pieces[i])
           Inv == \A i \in Tokens : /\ FollowsDoc(i) <=> pieces[i].by = "scanDocBody"
                                    /\ FollowsDoc(i) => BodyAt(i)
<1>1. Init => CallerTells /\ Inv
  <2>1. Init => Tokens = {}
    BY DEF Init, Tokens
  <2> QED
    BY <2>1 DEF Init, CallerTells
<1>2. ASSUME TypeOK, CallerTells, Inv, [Next]_vars PROVE CallerTells' /\ Inv'
  <2>1. ASSUME UNCHANGED <<text, pieces>>
        PROVE  /\ Inv'
               /\ \A type : Reached(type)' <=> Reached(type)
    BY <1>2, <2>1
    DEF FollowsDoc, IsBody, IsOpen, Tokens, IsCurrent, Reached
  <2>2. CASE UNCHANGED vars
    BY <1>2, <2>1, <2>2 DEF vars, CallerTells
  <2>3. CASE Advance
    BY <2>1, <2>3 DEF Advance, CallerTells
  <2>4. CASE TakeLastBlockComment
    BY <2>1, <2>4 DEF TakeLastBlockComment, CallerTells
  <2>5. CASE Reads
    <3>1. PICK p : \E n \in Nat \ {0} : Grows(p, n)
      BY <1>2, <2>5, ReadsGrows
    <3>2. PICK n \in Nat \ {0} : Grows(p, n)
      BY <3>1
    <3>3. /\ text' = text /\ caller \in {"scanToken", "scanDocBody"}
          /\ \A k \in 1 .. n - 1 : pieces'[k] = pieces[k]
          /\ Tokens \subseteq 1 .. n - 1
          /\ Tokens' = IF caller' = "parser" THEN Tokens \cup {n} ELSE Tokens
      BY <3>2 DEF Grows
    <3>4. ASSUME NEW i \in Tokens
          PROVE  /\ FollowsDoc(i)' <=> FollowsDoc(i)
                 /\ pieces'[i] = pieces[i]
      <4>1. i \in 1 .. n - 1 /\ \A d \in Tokens : pieces'[d] = pieces[d]
        BY <3>3, <3>4
      <4>2. \A d : d \in Tokens' /\ d < i <=> d \in Tokens /\ d < i
        BY <3>3, <4>1
      <4> QED
        BY <4>1, <4>2 DEF FollowsDoc
    <3>5. \A i : BodyAt(i)' <=> IsBody(pieces'[i])
      BY <3>3 DEF IsBody, IsOpen
    <3> HIDE DEF BodyAt
    <3>6. CASE caller' # "parser"
      <4>1. Tokens' = Tokens /\ caller' = caller
        BY <3>2, <3>3, <3>6 DEF Grows, Skips, Keeps, Drops, Gives, GivesBody
      <4>2. Inv'
        BY <1>2, <3>4, <3>5, <4>1 DEF BodyAt
      <4>3. Reached("doc")' <=> Reached("doc")
        BY <3>3, <4>1 DEF Reached
      <4> QED
        BY <1>2, <4>1, <4>2, <4>3 DEF CallerTells
    <3>7. CASE caller' = "parser"
      <4>1. Tokens' = Tokens \cup {n}
        BY <3>3, <3>7
      <4>2. FollowsDoc(n)' <=> Reached("doc")
        <5>1. \A d \in Tokens : d \in 1 .. n - 1 /\ d < n
          BY <3>3
        <5>2. \A d : d \in Tokens' /\ d < n <=> d \in Tokens
          BY <4>1, <5>1
        <5> QED
          BY <3>3, <5>1, <5>2 DEF FollowsDoc, Reached
      <4>3. /\ pieces'[n].by = caller /\ pieces'[n].from = current
            /\ pieces'[n].next = p.next /\ pieces'[n].type = p.type
            /\ pieces'[n].lexeme = p.lexeme
        BY <3>2 DEF Grows
      <4>4. Reached("doc") <=> caller = "scanDocBody"
        BY <1>2, <3>3 DEF CallerTells
      <4>5. ASSUME caller = "scanDocBody" PROVE IsBody(pieces'[n])
        <5>1. p = docBodyAt(text, current)
          BY <3>2, <3>7, <4>5 DEF Grows, Skips, Gives, GivesBody, Keeps, Drops
        <5>2. text \in Seq(Characters) /\ current \in Positions(text)
          BY <1>2, TextsAssumption DEF TypeOK
        <5> QED
          BY <4>3, <5>1, <5>2, BodyIs
      <4>6. ASSUME NEW i \in Tokens'
            PROVE  /\ FollowsDoc(i)' <=> pieces'[i].by = "scanDocBody"
                   /\ FollowsDoc(i)' => BodyAt(i)'
        <5>1. CASE i = n
          BY <3>5, <4>2, <4>3, <4>4, <4>5, <5>1
        <5>2. CASE i # n
          <6>1. i \in Tokens
            BY <4>1, <4>6, <5>2
          <6> QED
            BY <1>2, <3>4, <3>5, <6>1 DEF BodyAt
        <5> QED
          BY <5>1, <5>2
      <4> QED
        BY <3>7, <4>6 DEF CallerTells
    <3> QED
      BY <3>6, <3>7
  <2> QED
    BY <1>2, <2>2, <2>3, <2>4, <2>5, StepIs
<1>3. Inv => DocHasItsBody
  BY DEF DocHasItsBody, FollowsDoc, IsBody
<1> QED
  BY <1>1, <1>2, <1>3, TypeCorrect, PTL DEF Spec

----------------------------------------------------------------------------
(***************************************************************************)
(* The longest piece.                                                      *)
(***************************************************************************)
\* The words of the grammar, said of the text they stand in, from i to before
\* j.
StandsWord(s, i, j) ==
  /\ Char(s, i) \in Letters
  /\ \A k \in i .. j - 1 : Char(s, k) \in Letters \cup Digits

StandsNumber(s, i, j) ==
  /\ \A k \in i .. j - 1 : Char(s, k) \in Digits \cup {"."}
  /\ Char(s, j - 1) \in Digits
  /\ \A k, l \in i .. j - 1 : Char(s, k) = "." /\ Char(s, l) = "." => k = l

StandsQuoted(s, i, j, quote) ==
  /\ i + 2 <= j /\ Char(s, i) = quote /\ Char(s, j - 1) = quote
  /\ \A k \in i + 1 .. j - 2 : Char(s, k) # quote

StandsComment(s, i, j) ==
  /\ i + 4 <= j /\ Char(s, i) = "/" /\ Char(s, i + 1) = "*"
  /\ Char(s, j - 2) = "*" /\ Char(s, j - 1) = "/"
  /\ \A k \in i + 2 .. j - 3 : ~ (Char(s, k) = "*" /\ Char(s, k + 1) = "/")

StandsLineComment(s, i, j) ==
  /\ i + 2 <= j /\ Char(s, i) = "/" /\ Char(s, i + 1) = "/"
  /\ \A k \in i .. j - 1 : Char(s, k) # "nl"

StandsSpelling(s, i, j) ==
  LET c == Char(s, i)
      d == Char(s, i + 1)
      e == Char(s, i + 2)
  IN  \/ j = i + 1 /\ c \in {"(", "/", "*", ".", ":", ">", "="}
      \/ /\ j = i + 2
         /\ \/ c = d /\ c \in {".", "*", ":", "="}
            \/ c = ">" /\ d = "="
            \/ c = ":" /\ d = ">"
      \/ j = i + 3 /\ c = ":" /\ d \in {":", ">"} /\ e = ">"

Spaces == {" ", "nl"}

StandsPiece(s, i, j) ==
  \/ StandsSpelling(s, i, j)
  \/ j = i + 1 /\ Char(s, i) \in Spaces
  \/ StandsComment(s, i, j) \/ StandsWord(s, i, j) \/ StandsNumber(s, i, j)
  \/ StandsQuoted(s, i, j, "q") \/ StandsQuoted(s, i, j, "'")
  \/ StandsLineComment(s, i, j)

\* The characters of a word, counted in the text.
LEMMA WordChars ==
  ASSUME NEW s \in Seq(Characters), NEW i \in Positions(s), NEW j \in i + 1 .. Len(s) + 1,
         NEW w, w = Text(s, i, j)
  PROVE  /\ i \in Nat \ {0} /\ j \in Nat \ {0} /\ Len(s) \in Nat
         /\ w \in Seq(Characters) /\ Len(w) = j - i /\ DOMAIN w = 1 .. j - i
         /\ w # <<>>
         /\ \A k \in 1 .. j - i : w[k] = Char(s, k + i - 1) /\ Char(w, k) = w[k]
         /\ \A m \in i .. j - 1 : /\ m - i + 1 \in 1 .. j - i
                                  /\ w[m - i + 1] = Char(s, m)
                                  /\ Char(s, m) \in Characters
<1>1. i \in Nat \ {0} /\ j \in Nat \ {0} /\ Len(s) \in Nat /\ j \in i .. Len(s) + 1
  BY LenProperties DEF Positions
<1>2. /\ w \in Seq(Characters) /\ Len(w) = j - i
      /\ \A k \in 1 .. j - i : w[k] = s[i + k - 1] /\ Char(s, i + k - 1) = s[i + k - 1]
  BY <1>1, TextIs
<1>3. \A k \in 1 .. j - i : i + k - 1 = k + i - 1
  BY <1>1
<1>4. \A k \in 1 .. j - i : w[k] = Char(s, k + i - 1) /\ Char(w, k) = w[k]
  BY <1>1, <1>2, <1>3 DEF Char
<1>5. ASSUME NEW m \in i .. j - 1
      PROVE  /\ m - i + 1 \in 1 .. j - i
             /\ w[m - i + 1] = Char(s, m)
             /\ Char(s, m) \in Characters
  <2>1. m - i + 1 \in 1 .. j - i /\ (m - i + 1) + i - 1 = m /\ m \in Nat \ {0} /\ m <= Len(s)
    BY <1>1
  <2> QED
    BY <1>4, <2>1, CharIs
<1>6. DOMAIN w = 1 .. j - i /\ w # <<>>
  BY <1>1, <1>2, LenProperties
<1> QED
  BY <1>1, <1>2, <1>4, <1>5, <1>6

\* No more than one element.
LEMMA AtMostOne ==
  ASSUME NEW S, IsFiniteSet(S)
  PROVE  Cardinality(S) <= 1 <=> \A x, y \in S : x = y
<1>1. Cardinality(S) \in Nat
  BY FS_CardinalityType
<1>2. ASSUME Cardinality(S) <= 1, NEW x \in S, NEW y \in S PROVE x = y
  <2>1. Cardinality(S) = 0 \/ Cardinality(S) = 1
    BY <1>1, <1>2
  <2>2. Cardinality(S) # 0
    BY FS_EmptySet
  <2>3. \E z : S = {z}
    BY <2>1, <2>2, FS_Singleton
  <2> QED
    BY <2>3
<1>3. ASSUME \A x, y \in S : x = y PROVE Cardinality(S) <= 1
  <2>1. CASE S = {}
    BY <2>1, FS_EmptySet
  <2>2. CASE S # {}
    <3>1. PICK x : x \in S
      BY <2>2
    <3>2. S = {x}
      BY <1>3, <3>1
    <3> QED
      BY <3>2, FS_Singleton
  <2> QED
    BY <2>1, <2>2
<1> QED
  BY <1>2, <1>3

\* Every word of the grammar, said both ways.
LEMMA WordStands ==
  ASSUME NEW s \in Seq(Characters), NEW i \in Positions(s), NEW j \in i + 1 .. Len(s) + 1,
         NEW w, w = Text(s, i, j)
  PROVE  IsWord(w) <=> StandsWord(s, i, j)
<1>1. /\ i \in Nat \ {0} /\ j \in Nat \ {0} /\ w # <<>> /\ DOMAIN w = 1 .. j - i
      /\ \A k \in 1 .. j - i : w[k] = Char(s, k + i - 1)
      /\ \A m \in i .. j - 1 : m - i + 1 \in 1 .. j - i /\ w[m - i + 1] = Char(s, m)
  BY WordChars
<1>2. w[1] = Char(s, i)
  <2>1. 1 \in 1 .. j - i /\ 1 + i - 1 = i
    BY <1>1
  <2> QED
    BY <1>1, <2>1
<1>3. AllIn(w, Letters \cup Digits) <=> \A m \in i .. j - 1 : Char(s, m) \in Letters \cup Digits
  <2>1. \A k \in 1 .. j - i : k + i - 1 \in i .. j - 1
    BY <1>1
  <2> QED
    BY <1>1, <2>1 DEF AllIn
<1> QED
  BY <1>1, <1>2, <1>3 DEF IsWord, StandsWord

LEMMA NumberStands ==
  ASSUME NEW s \in Seq(Characters), NEW i \in Positions(s), NEW j \in i + 1 .. Len(s) + 1,
         NEW w, w = Text(s, i, j)
  PROVE  IsNumber(w) <=> StandsNumber(s, i, j)
<1>1. /\ i \in Nat \ {0} /\ j \in Nat \ {0} /\ w # <<>> /\ DOMAIN w = 1 .. j - i
      /\ Len(w) = j - i
      /\ \A k \in 1 .. j - i : w[k] = Char(s, k + i - 1)
      /\ \A m \in i .. j - 1 : m - i + 1 \in 1 .. j - i /\ w[m - i + 1] = Char(s, m)
  <2>1. /\ i \in Nat \ {0} /\ j \in Nat \ {0} /\ w # <<>> /\ DOMAIN w = 1 .. j - i
        /\ Len(w) = j - i
    BY WordChars
  <2>2. \A k \in 1 .. j - i : w[k] = Char(s, k + i - 1)
    BY WordChars
  <2>3. \A m \in i .. j - 1 : m - i + 1 \in 1 .. j - i /\ w[m - i + 1] = Char(s, m)
    BY WordChars
  <2> QED
    BY <2>1, <2>2, <2>3
<1>2. \A k \in 1 .. j - i : k + i - 1 \in i .. j - 1 /\ (k + i - 1) - i + 1 = k
  BY <1>1
<1>3. w[Len(w)] = Char(s, j - 1)
  <2>1. j - 1 \in i .. j - 1 /\ (j - 1) - i + 1 = Len(w)
    BY <1>1
  <2> QED
    BY <1>1, <2>1
<1>4. AllIn(w, Digits \cup {"."}) <=> \A m \in i .. j - 1 : Char(s, m) \in Digits \cup {"."}
  BY <1>1, <1>2 DEF AllIn
<1> DEFINE Dots == {k \in DOMAIN w : w[k] = "."}
<1>5. IsFiniteSet(Dots)
  <2>1. IsFiniteSet(DOMAIN w) /\ Dots \in SUBSET DOMAIN w
    BY <1>1, FS_Interval
  <2> QED
    BY <2>1, FS_Subset
<1>6. (\A x, y \in Dots : x = y)
        <=> \A m, n \in i .. j - 1 : Char(s, m) = "." /\ Char(s, n) = "." => m = n
  <2>1. ASSUME \A x, y \in Dots : x = y,
               NEW m \in i .. j - 1, NEW n \in i .. j - 1, Char(s, m) = ".", Char(s, n) = "."
        PROVE  m = n
    <3>1. m - i + 1 \in Dots /\ n - i + 1 \in Dots
      BY <1>1, <2>1
    <3>2. m - i + 1 = n - i + 1
      BY <2>1, <3>1
    <3> QED
      BY <1>1, <3>2
  <2>2. ASSUME \A m, n \in i .. j - 1 : Char(s, m) = "." /\ Char(s, n) = "." => m = n,
               NEW x \in Dots, NEW y \in Dots
        PROVE  x = y
    <3>1. /\ x \in 1 .. j - i /\ y \in 1 .. j - i
          /\ Char(s, x + i - 1) = "." /\ Char(s, y + i - 1) = "."
      BY <1>1
    <3>2. x + i - 1 = y + i - 1
      BY <1>2, <2>2, <3>1
    <3> QED
      BY <1>1, <3>1, <3>2
  <2> QED
    BY <2>1, <2>2
<1>7. Cardinality(Dots) <= 1 <=> \A x, y \in Dots : x = y
  BY <1>5, AtMostOne
<1> HIDE DEF Dots
<1>8. IsNumber(w) <=> /\ AllIn(w, Digits \cup {"."}) /\ Char(s, j - 1) \in Digits
                      /\ Cardinality(Dots) <= 1
  BY <1>1, <1>3 DEF IsNumber, Dots
<1> QED
  BY <1>4, <1>6, <1>7, <1>8 DEF StandsNumber

LEMMA QuotedStands ==
  ASSUME NEW s \in Seq(Characters), NEW i \in Positions(s), NEW j \in i + 1 .. Len(s) + 1,
         NEW w, w = Text(s, i, j), NEW quote
  PROVE  IsQuoted(w, quote) <=> StandsQuoted(s, i, j, quote)
<1>1. /\ i \in Nat \ {0} /\ j \in Nat \ {0} /\ Len(w) = j - i
      /\ \A k \in 1 .. j - i : w[k] = Char(s, k + i - 1)
      /\ \A m \in i .. j - 1 : m - i + 1 \in 1 .. j - i /\ w[m - i + 1] = Char(s, m)
  BY WordChars
<1>2. w[1] = Char(s, i) /\ w[Len(w)] = Char(s, j - 1)
  <2>1. /\ i \in i .. j - 1 /\ i - i + 1 = 1
        /\ j - 1 \in i .. j - 1 /\ (j - 1) - i + 1 = Len(w)
    BY <1>1
  <2> QED
    BY <1>1, <2>1
<1>3. Len(w) >= 2 <=> i + 2 <= j
  BY <1>1
<1>4. (\A k \in 2 .. Len(w) - 1 : w[k] # quote)
        <=> \A m \in i + 1 .. j - 2 : Char(s, m) # quote
  <2>1. \A k \in 2 .. Len(w) - 1 : k + i - 1 \in i + 1 .. j - 2 /\ k \in 1 .. j - i
    BY <1>1
  <2>2. \A m \in i + 1 .. j - 2 : m - i + 1 \in 2 .. Len(w) - 1 /\ m \in i .. j - 1
    BY <1>1
  <2> QED
    BY <1>1, <2>1, <2>2
<1> QED
  BY <1>2, <1>3, <1>4 DEF IsQuoted, StandsQuoted

LEMMA LineCommentStands ==
  ASSUME NEW s \in Seq(Characters), NEW i \in Positions(s), NEW j \in i + 1 .. Len(s) + 1,
         NEW w, w = Text(s, i, j)
  PROVE  At(w, 1, <<"/", "/">>) /\ AllIn(w, Characters \ {"nl"}) <=> StandsLineComment(s, i, j)
<1>1. /\ i \in Nat \ {0} /\ j \in Nat \ {0} /\ Len(w) = j - i /\ DOMAIN w = 1 .. j - i
      /\ \A k \in 1 .. j - i : w[k] = Char(s, k + i - 1) /\ Char(w, k) = w[k]
      /\ \A m \in i .. j - 1 : /\ m - i + 1 \in 1 .. j - i /\ w[m - i + 1] = Char(s, m)
                               /\ Char(s, m) \in Characters
  BY WordChars
<1>2. AllIn(w, Characters \ {"nl"}) <=> \A m \in i .. j - 1 : Char(s, m) # "nl"
  <2>1. \A k \in 1 .. j - i : k + i - 1 \in i .. j - 1
    BY <1>1
  <2>2. \A k \in 1 .. j - i : w[k] \in Characters
    BY <1>1, <2>1
  <2>3. (\A k \in 1 .. j - i : w[k] # "nl") <=> \A m \in i .. j - 1 : Char(s, m) # "nl"
    BY <1>1, <2>1
  <2>4. AllIn(w, Characters \ {"nl"}) <=> \A k \in 1 .. j - i : w[k] # "nl"
    BY <1>1, <2>2, Zenon DEF AllIn
  <2> QED
    BY <2>3, <2>4
<1>3. At(w, 1, <<"/", "/">>) <=> Char(w, 1) = "/" /\ Char(w, 1 + 1) = "/"
  BY AtTwo
<1>4. Char(w, 1) = Char(s, i)
  <2>1. 1 \in 1 .. j - i /\ 1 + i - 1 = i
    BY <1>1
  <2> QED
    BY <1>1, <2>1
<1>5. Char(w, 2) = IF i + 2 <= j THEN Char(s, i + 1) ELSE "end"
  <2>1. CASE i + 2 <= j
    <3>1. 2 \in 1 .. j - i /\ 2 + i - 1 = i + 1
      BY <1>1, <2>1
    <3> QED
      BY <1>1, <2>1, <3>1
  <2>2. CASE ~ (i + 2 <= j)
    <3>1. ~ (2 <= Len(w))
      BY <1>1, <2>2
    <3> QED
      BY <2>2, <3>1 DEF Char
  <2> QED
    BY <2>1, <2>2
<1> QED
  BY <1>2, <1>3, <1>4, <1>5 DEF StandsLineComment

LEMMA CommentStands ==
  ASSUME NEW s \in Seq(Characters), NEW i \in Positions(s), NEW j \in i + 1 .. Len(s) + 1,
         NEW w, w = Text(s, i, j)
  PROVE  IsComment(w) <=> StandsComment(s, i, j)
<1>1. /\ i \in Nat \ {0} /\ j \in Nat \ {0} /\ Len(w) = j - i /\ DOMAIN w = 1 .. j - i
      /\ \A k \in 1 .. j - i : w[k] = Char(s, k + i - 1) /\ Char(w, k) = w[k]
      /\ \A m \in i .. j - 1 : m - i + 1 \in 1 .. j - i /\ w[m - i + 1] = Char(s, m)
  BY WordChars
<1>2. SUFFICES ASSUME i + 4 <= j PROVE IsComment(w) <=> StandsComment(s, i, j)
  BY <1>1 DEF IsComment, StandsComment
<1>3. \A k \in 1 .. j - i : Char(w, k) = Char(s, k + i - 1)
  BY <1>1
<1>4. PICK n \in Nat : n = Len(w) - 1
  BY <1>1, <1>2
<1>5. At(w, 1, <<"/", "*">>) <=> Char(s, i) = "/" /\ Char(s, i + 1) = "*"
  <2>1. /\ 1 \in 1 .. j - i /\ 1 + i - 1 = i
        /\ 1 + 1 \in 1 .. j - i /\ (1 + 1) + i - 1 = i + 1
    BY <1>1, <1>2
  <2>2. At(w, 1, <<"/", "*">>) <=> Char(w, 1) = "/" /\ Char(w, 1 + 1) = "*"
    BY AtTwo
  <2> QED
    BY <1>3, <2>1, <2>2
<1>6. At(w, Len(w) - 1, <<"*", "/">>) <=> Char(s, j - 2) = "*" /\ Char(s, j - 1) = "/"
  <2>1. /\ n \in 1 .. j - i /\ n + i - 1 = j - 2
        /\ n + 1 \in 1 .. j - i /\ (n + 1) + i - 1 = j - 1
    BY <1>1, <1>2, <1>4
  <2>2. At(w, n, <<"*", "/">>) <=> Char(w, n) = "*" /\ Char(w, n + 1) = "/"
    BY AtTwo
  <2> QED
    BY <1>3, <1>4, <2>1, <2>2
<1>7. (\A k \in 3 .. Len(w) - 2 : ~ At(w, k, <<"*", "/">>))
        <=> \A m \in i + 2 .. j - 3 : ~ (Char(s, m) = "*" /\ Char(s, m + 1) = "/")
  <2>1. ASSUME NEW k \in 3 .. Len(w) - 2
        PROVE  /\ k + i - 1 \in i + 2 .. j - 3
               /\ At(w, k, <<"*", "/">>) <=> /\ Char(s, k + i - 1) = "*"
                                             /\ Char(s, k + i - 1 + 1) = "/"
    <3>1. /\ k \in 1 .. j - i /\ k + 1 \in 1 .. j - i /\ (k + 1) + i - 1 = k + i - 1 + 1
          /\ k + i - 1 \in i + 2 .. j - 3 /\ k \in Nat
      BY <1>1, <1>2
    <3>2. At(w, k, <<"*", "/">>) <=> Char(w, k) = "*" /\ Char(w, k + 1) = "/"
      BY <3>1, AtTwo
    <3> QED
      BY <1>3, <3>1, <3>2
  <2>2. \A m \in i + 2 .. j - 3 : m - i + 1 \in 3 .. Len(w) - 2 /\ (m - i + 1) + i - 1 = m
    BY <1>1
  <2> QED
    BY <2>1, <2>2
<1>8. Len(w) >= 4
  BY <1>1, <1>2
<1> QED
  BY <1>2, <1>5, <1>6, <1>7, <1>8 DEF IsComment, StandsComment

LEMMA ShortWords ==
  ASSUME NEW w \in Seq(Characters)
  PROVE  /\ Len(w) = 1 => w = <<w[1]>>
         /\ Len(w) = 2 => w = <<w[1], w[2]>>
         /\ Len(w) = 3 => w = <<w[1], w[2], w[3]>>
<1>1. \A k \in 1 .. Len(w) : w[k] \in Characters
  BY ElementOfSeq
<1>2. ASSUME Len(w) = 1 PROVE w = <<w[1]>>
  <2>1. <<w[1]>> \in Seq(Characters) /\ Len(<<w[1]>>) = 1 /\ <<w[1]>>[1] = w[1]
    BY <1>1, <1>2
  <2>2. \A k \in 1 .. Len(w) : w[k] = <<w[1]>>[k]
    BY <1>2, <2>1
  <2> QED
    BY <1>2, <2>1, <2>2, SeqEqual
<1>3. ASSUME Len(w) = 2 PROVE w = <<w[1], w[2]>>
  <2>1. PICK v : v = <<w[1], w[2]>>
    OBVIOUS
  <2>2. v \in Seq(Characters) /\ Len(v) = 2 /\ v[1] = w[1] /\ v[2] = w[2]
    BY <1>1, <1>3, <2>1
  <2>3. \A k \in 1 .. Len(w) : w[k] = v[k]
    BY <1>3, <2>2
  <2> QED
    BY <1>3, <2>1, <2>2, <2>3, SeqEqual
<1>4. ASSUME Len(w) = 3 PROVE w = <<w[1], w[2], w[3]>>
  <2>1. PICK v : v = <<w[1], w[2], w[3]>>
    OBVIOUS
  <2>2. v \in Seq(Characters) /\ Len(v) = 3 /\ v[1] = w[1] /\ v[2] = w[2] /\ v[3] = w[3]
    BY <1>1, <1>4, <2>1
  <2>3. \A k \in 1 .. Len(w) : w[k] = v[k]
    BY <1>4, <2>2
  <2> QED
    BY <1>4, <2>1, <2>2, <2>3, SeqEqual
<1> QED
  BY <1>2, <1>3, <1>4

\* What w is, from i up to j, where the characters c, d and e stand from i on.
IsShort(w, i, j, c, d, e) ==
  /\ \A a : w = <<a>> <=> j = i + 1 /\ c = a
  /\ \A a, b : w = <<a, b>> <=> j = i + 2 /\ c = a /\ d = b
  /\ \A a, b, f : w = <<a, b, f>> <=> j = i + 3 /\ c = a /\ d = b /\ e = f

LEMMA ShortTexts ==
  ASSUME NEW s \in Seq(Characters), NEW i \in Positions(s), NEW j \in i + 1 .. Len(s) + 1
  PROVE  IsShort(Text(s, i, j), i, j, Char(s, i), Char(s, i + 1), Char(s, i + 2))
<1>0. PICK w, c, d, e : /\ w = Text(s, i, j) /\ c = Char(s, i)
                        /\ d = Char(s, i + 1) /\ e = Char(s, i + 2)
  OBVIOUS
<1>1. /\ i \in Nat \ {0} /\ j \in Nat \ {0} /\ Len(w) = j - i /\ DOMAIN w = 1 .. j - i
      /\ w \in Seq(Characters)
      /\ \A k \in 1 .. j - i : w[k] = Char(s, k + i - 1)
  BY <1>0, WordChars
<1>2. /\ w[1] = c
      /\ j - i >= 2 => w[2] = d
      /\ j - i >= 3 => w[3] = e
  <2>1. /\ 1 \in 1 .. j - i /\ 1 + i - 1 = i /\ 2 + i - 1 = i + 1 /\ 3 + i - 1 = i + 2
        /\ j - i >= 2 => 2 \in 1 .. j - i
        /\ j - i >= 3 => 3 \in 1 .. j - i
    BY <1>1
  <2> QED
    BY <1>0, <1>1, <2>1
<1>3. \A a : w = <<a>> <=> j = i + 1 /\ c = a
  <2> SUFFICES ASSUME NEW a PROVE w = <<a>> <=> j = i + 1 /\ c = a
    OBVIOUS
  <2>1. Len(<<a>>) = 1 /\ <<a>>[1] = a
    OBVIOUS
  <2>2. ASSUME j = i + 1, c = a PROVE w = <<a>>
    <3>1. Len(w) = 1
      BY <1>1, <2>2
    <3>2. w = <<w[1]>>
      BY <1>1, <3>1, ShortWords
    <3> QED
      BY <1>2, <2>2, <3>2
  <2>3. ASSUME w = <<a>> PROVE j = i + 1 /\ c = a
    <3>1. j - i = 1 /\ w[1] = a
      BY <1>1, <2>1, <2>3
    <3> QED
      BY <1>1, <1>2, <3>1
  <2> QED
    BY <2>2, <2>3
<1>4. \A a, b : w = <<a, b>> <=> j = i + 2 /\ c = a /\ d = b
  <2> SUFFICES ASSUME NEW a, NEW b PROVE w = <<a, b>> <=> j = i + 2 /\ c = a /\ d = b
    OBVIOUS
  <2>1. Len(<<a, b>>) = 2 /\ <<a, b>>[1] = a /\ <<a, b>>[2] = b
    OBVIOUS
  <2>2. ASSUME j = i + 2, c = a, d = b PROVE w = <<a, b>>
    <3>1. Len(w) = 2 /\ j - i >= 2
      BY <1>1, <2>2
    <3>2. w = <<w[1], w[2]>>
      BY <1>1, <3>1, ShortWords
    <3> QED
      BY <1>2, <2>2, <3>1, <3>2
  <2>3. ASSUME w = <<a, b>> PROVE j = i + 2 /\ c = a /\ d = b
    <3>1. j - i = 2 /\ w[1] = a /\ w[2] = b
      BY <1>1, <2>1, <2>3
    <3> QED
      BY <1>1, <1>2, <3>1
  <2> QED
    BY <2>2, <2>3
<1>5. \A a, b, f : w = <<a, b, f>> <=> j = i + 3 /\ c = a /\ d = b /\ e = f
  <2> SUFFICES ASSUME NEW a, NEW b, NEW f
               PROVE  w = <<a, b, f>> <=> j = i + 3 /\ c = a /\ d = b /\ e = f
    OBVIOUS
  <2>1. Len(<<a, b, f>>) = 3 /\ <<a, b, f>>[1] = a /\ <<a, b, f>>[2] = b /\ <<a, b, f>>[3] = f
    OBVIOUS
  <2>2. ASSUME j = i + 3, c = a, d = b, e = f PROVE w = <<a, b, f>>
    <3>1. Len(w) = 3 /\ j - i >= 3 /\ j - i >= 2
      BY <1>1, <2>2
    <3>2. w = <<w[1], w[2], w[3]>>
      BY <1>1, <3>1, ShortWords
    <3> QED
      BY <1>2, <2>2, <3>1, <3>2
  <2>3. ASSUME w = <<a, b, f>> PROVE j = i + 3 /\ c = a /\ d = b /\ e = f
    <3>1. j - i = 3 /\ w[1] = a /\ w[2] = b /\ w[3] = f
      BY <1>1, <2>1, <2>3
    <3> QED
      BY <1>1, <1>2, <3>1
  <2> QED
    BY <2>2, <2>3
<1>6. IsShort(w, i, j, c, d, e)
  BY <1>3, <1>4, <1>5, Zenon DEF IsShort
<1> QED
  BY <1>0, <1>6, Zenon

LEMMA SpellingStands ==
  ASSUME NEW s \in Seq(Characters), NEW i \in Positions(s), NEW j \in i + 1 .. Len(s) + 1,
         NEW w, w = Text(s, i, j)
  PROVE  w \in Spellings <=> StandsSpelling(s, i, j)
<1>1. PICK c : c = Char(s, i)
  OBVIOUS
<1>2. PICK d : d = Char(s, i + 1)
  OBVIOUS
<1>3. PICK e : e = Char(s, i + 2)
  OBVIOUS
<1>4. IsShort(w, i, j, c, d, e)
  BY <1>1, <1>2, <1>3, ShortTexts
<1>5. /\ \A a : w = <<a>> <=> j = i + 1 /\ c = a
      /\ \A a, b : w = <<a, b>> <=> j = i + 2 /\ c = a /\ d = b
      /\ \A a, b, f : w = <<a, b, f>> <=> j = i + 3 /\ c = a /\ d = b /\ e = f
  BY <1>4, Zenon DEF IsShort
<1>6. w \in Spellings <=>
        \/ \E a \in {"(", "/", "*", ".", ":", ">", "="} : w = <<a>>
        \/ \E a \in {".", "*", ":", "="} : w = <<a, a>>
        \/ w = <<">", "=">> \/ w = <<":", ">">> \/ w = <<":", ":", ">">> \/ w = <<":", ">", ">">>
  BY Zenon DEF Spellings
<1>7. StandsSpelling(s, i, j) <=>
        \/ j = i + 1 /\ c \in {"(", "/", "*", ".", ":", ">", "="}
        \/ /\ j = i + 2
           /\ \/ c = d /\ c \in {".", "*", ":", "="}
              \/ c = ">" /\ d = "="
              \/ c = ":" /\ d = ">"
        \/ j = i + 3 /\ c = ":" /\ d \in {":", ">"} /\ e = ">"
  BY <1>1, <1>2, <1>3 DEF StandsSpelling
<1>8. /\ w = <<">", "=">> <=> j = i + 2 /\ c = ">" /\ d = "="
      /\ w = <<":", ">">> <=> j = i + 2 /\ c = ":" /\ d = ">"
      /\ w = <<":", ":", ">">> <=> j = i + 3 /\ c = ":" /\ d = ":" /\ e = ">"
      /\ w = <<":", ">", ">">> <=> j = i + 3 /\ c = ":" /\ d = ">" /\ e = ">"
  BY <1>5, Zenon
<1>9. /\ (\E a \in {"(", "/", "*", ".", ":", ">", "="} : w = <<a>>)
           <=> j = i + 1 /\ c \in {"(", "/", "*", ".", ":", ">", "="}
      /\ (\E a \in {".", "*", ":", "="} : w = <<a, a>>)
           <=> j = i + 2 /\ c = d /\ c \in {".", "*", ":", "="}
  BY <1>5, Zenon
<1>10. d \in {":", ">"} <=> d = ":" \/ d = ">"
  OBVIOUS
<1> QED
  BY <1>6, <1>7, <1>8, <1>9, <1>10, Zenon

LEMMA PieceStands ==
  ASSUME NEW s \in Seq(Characters), NEW i \in Positions(s), NEW j \in i + 1 .. Len(s) + 1,
         NEW w, w = Text(s, i, j)
  PROVE  /\ IsPiece(w) <=> StandsPiece(s, i, j)
         /\ \A c : w = <<c>> <=> j = i + 1 /\ Char(s, i) = c
<1>1. \A c : w = <<c>> <=> j = i + 1 /\ Char(s, i) = c
  <2>1. /\ i \in Nat \ {0} /\ j \in Nat \ {0} /\ Len(w) = j - i /\ w \in Seq(Characters)
        /\ \A m \in i .. j - 1 : m - i + 1 \in 1 .. j - i /\ w[m - i + 1] = Char(s, m)
    BY WordChars
  <2>2. i \in i .. j - 1 /\ i - i + 1 = 1
    BY <2>1
  <2>3. w[1] = Char(s, i)
    BY <2>1, <2>2
  <2> SUFFICES ASSUME NEW c PROVE w = <<c>> <=> j = i + 1 /\ Char(s, i) = c
    OBVIOUS
  <2>4. ASSUME j = i + 1, Char(s, i) = c PROVE w = <<c>>
    <3>1. Len(w) = 1
      BY <2>1, <2>4
    <3>2. w = <<w[1]>>
      BY <2>1, <3>1, ShortWords
    <3> QED
      BY <2>3, <2>4, <3>2
  <2>5. Len(<<c>>) = 1 /\ <<c>>[1] = c
    OBVIOUS
  <2> QED
    BY <2>1, <2>3, <2>4, <2>5
<1>2. w \in {<<" ">>, <<"nl">>} <=> j = i + 1 /\ Char(s, i) \in Spaces
  BY <1>1, Zenon DEF Spaces
<1> QED
  BY <1>1, <1>2, SpellingStands, CommentStands, WordStands, NumberStands, QuotedStands,
     LineCommentStands, Zenon
  DEF IsPiece, StandsPiece

\* Which pieces begin with a character.
LEMMA PieceBegins ==
  ASSUME NEW s \in Seq(Characters), NEW i \in Positions(s), NEW j \in i + 1 .. Len(s) + 1,
         StandsPiece(s, i, j)
  PROVE  LET c == Char(s, i)
             d == Char(s, i + 1)
         IN  /\ c \in Letters => StandsWord(s, i, j)
             /\ c \in Digits => StandsNumber(s, i, j)
             /\ c = "." => j = i + 1 \/ (j = i + 2 /\ d = ".") \/ StandsNumber(s, i, j)
             /\ c = "q" => StandsQuoted(s, i, j, "q")
             /\ c = "'" => StandsQuoted(s, i, j, "'")
             /\ c = "/" => \/ j = i + 1 \/ StandsComment(s, i, j) \/ StandsLineComment(s, i, j)
             /\ c \in Spaces \/ c = "(" => j = i + 1
             /\ c \in {"*", "="} => j = i + 1 \/ (j = i + 2 /\ d = c)
             /\ c = ">" => j = i + 1 \/ (j = i + 2 /\ d = "=")
             /\ c = ":" => \/ j = i + 1
                           \/ j = i + 2 /\ d \in {":", ">"}
                           \/ j = i + 3 /\ d \in {":", ">"} /\ Char(s, i + 2) = ">"
             /\ c # "?"
<1> DEFINE c == Char(s, i)
           d == Char(s, i + 1)
<1>1. i \in i .. j - 1
  BY DEF Positions
<1>2. /\ c \in Letters => c \notin Digits \cup {".", "q", "'", "/", "(", "*", "=", ">", ":", "?"}
      /\ c \in Digits => c \notin {".", "q", "'", "/", "(", "*", "=", ">", ":", "?"}
  BY DEF Letters, Digits
<1> DEFINE Others == {".", "q", "'", "/", "(", "*", "=", ">", ":", "?"}
<1>7. c \in Spaces => c \notin Letters \cup Digits \cup Others
  BY Zenon DEF Spaces, Letters, Digits
<1>8. c \in Spaces => c \notin Letters /\ c \notin Digits /\ \A o \in Others : c # o
  <2> HIDE DEF Others
  <2> QED
    BY <1>7
<1>3. /\ StandsComment(s, i, j) => c = "/"
      /\ StandsLineComment(s, i, j) => c = "/"
      /\ StandsQuoted(s, i, j, "q") => c = "q"
      /\ StandsQuoted(s, i, j, "'") => c = "'"
      /\ StandsWord(s, i, j) => c \in Letters
      /\ StandsNumber(s, i, j) => c \in Digits \cup {"."}
  BY <1>1, Zenon
  DEF StandsComment, StandsLineComment, StandsQuoted, StandsWord, StandsNumber
<1>4. \/ StandsSpelling(s, i, j) \/ (j = i + 1 /\ c \in Spaces)
      \/ StandsComment(s, i, j) \/ StandsWord(s, i, j) \/ StandsNumber(s, i, j)
      \/ StandsQuoted(s, i, j, "q") \/ StandsQuoted(s, i, j, "'")
      \/ StandsLineComment(s, i, j)
  BY Zenon DEF StandsPiece
<1>5. CASE StandsSpelling(s, i, j)
  <2>1. \/ j = i + 1 /\ c \in {"(", "/", "*", ".", ":", ">", "="}
        \/ /\ j = i + 2
           /\ \/ c = d /\ c \in {".", "*", ":", "="}
              \/ c = ">" /\ d = "="
              \/ c = ":" /\ d = ">"
        \/ j = i + 3 /\ c = ":" /\ d \in {":", ">"} /\ Char(s, i + 2) = ">"
    BY <1>5 DEF StandsSpelling
  <2> QED
    BY <1>2, <1>8, <2>1
<1>6. CASE ~ StandsSpelling(s, i, j)
  BY <1>2, <1>3, <1>4, <1>6, <1>8
<1> QED
  BY <1>5, <1>6

\* An open quote or comment, said of characters.
LEMMA OpenIs ==
  ASSUME text \in Seq(Characters), NEW i \in 1 .. Len(text)
  PROVE  IsOpen(i) <=>
           \/ /\ Char(text, i) \in {"'", "q"}
              /\ \A k \in i + 1 .. Len(text) : Char(text, k) # Char(text, i)
           \/ /\ Char(text, i) = "/" /\ Char(text, i + 1) = "*"
              /\ \A k \in i + 2 .. Len(text) : ~ (Char(text, k) = "*" /\ Char(text, k + 1) = "/")
<1>1. \A k \in i .. Len(text) : Char(text, k) = text[k]
  BY DEF Char
<1>2. Len(text) \in Nat /\ i \in i .. Len(text) /\ \A k \in i + 1 .. Len(text) : k \in i .. Len(text)
  BY LenProperties
<1>3. \A k \in i + 2 .. Len(text) : At(text, k, <<"*", "/">>) <=> Char(text, k) = "*" /\ Char(text, k + 1) = "/"
  <2> SUFFICES ASSUME NEW k \in i + 2 .. Len(text)
               PROVE  At(text, k, <<"*", "/">>) <=> Char(text, k) = "*" /\ Char(text, k + 1) = "/"
    OBVIOUS
  <2>1. k \in Nat
    BY <1>2
  <2> QED
    BY <2>1, AtTwo
<1>4. At(text, i, <<"/", "*">>) <=> Char(text, i) = "/" /\ Char(text, i + 1) = "*"
  BY AtTwo
<1>5. (\A k \in i + 1 .. Len(text) : Char(text, k) # Char(text, i))
        <=> \A k \in i + 1 .. Len(text) : text[k] # text[i]
  BY <1>1, <1>2
<1>6. Char(text, i) = text[i]
  BY <1>1, <1>2
<1> QED
  BY <1>3, <1>4, <1>5, <1>6 DEF IsOpen

\* What LongestPieces says of the piece p that was read at i.
IsLongest(p, i) ==
  LET w == Text(text, i, p.next)
      longer == {j \in p.next + 1 .. Len(text) + 1 : IsPiece(Text(text, i, j))}
  IN  IF p.type = "eof" THEN i = Len(text) + 1
      ELSE IF IsOpen(i)
      THEN /\ p.next = Len(text) + 1 /\ p.lexeme = <<>>
           /\ p.type = IF At(text, i, <<"/", "*">>) /\ ~ DocOpens(text, i)
                       THEN "blockComment" ELSE "error"
      ELSE IF p.type = "error" THEN w = <<"?">>
      ELSE longer = {} /\ Spells(w, p.type, p.lexeme)

\* No piece is longer if none stands there.
LEMMA NothingLonger ==
  ASSUME text \in Seq(Characters), NEW i \in 1 .. Len(text), NEW p,
         p.next \in i + 1 .. Len(text) + 1, p.type \notin {"eof", "error"}, ~ IsOpen(i),
         \A j \in p.next + 1 .. Len(text) + 1 : ~ StandsPiece(text, i, j),
         Spells(Text(text, i, p.next), p.type, p.lexeme)
  PROVE  IsLongest(p, i)
<1>1. i \in Positions(text) /\ Len(text) \in Nat
  BY LenProperties DEF Positions
<1>2. ASSUME NEW j \in p.next + 1 .. Len(text) + 1 PROVE ~ IsPiece(Text(text, i, j))
  <2>1. j \in i + 1 .. Len(text) + 1
    BY <1>1
  <2> QED
    BY <1>1, <2>1, PieceStands
<1> QED
  BY <1>2 DEF IsLongest

\* What each function reads is the longest piece.
LEMMA WordIsLongest ==
  ASSUME text \in Seq(Characters), NEW i \in 1 .. Len(text), Char(text, i) \in Letters,
         NEW p, p = identifier(text, i)
  PROVE  IsLongest(p, i)
<1>1. i \in Positions(text) /\ Len(text) \in Nat /\ i \in Nat
  BY LenProperties DEF Positions
<1>2. /\ p.next \in i + 1 .. Len(text) + 1
      /\ p.lexeme = Text(text, i, p.next)
      /\ p.type = IF p.lexeme \in Keywords THEN "doc" ELSE "id"
      /\ \A k \in i .. p.next - 1 : Char(text, k) \in Letters \cup Digits
      /\ Char(text, p.next) \notin Letters \cup Digits
  BY <1>1, IdentifierIs
<1>3. IsWord(Text(text, i, p.next))
  BY <1>1, <1>2, WordStands DEF StandsWord
<1>4. Spells(Text(text, i, p.next), p.type, p.lexeme)
  <2>1. CASE p.lexeme \in Keywords
    <3>1. p.type = "doc"
      BY <1>2, <2>1
    <3> QED
      BY <1>2, <2>1, <3>1 DEF Spells
  <2>2. CASE p.lexeme \notin Keywords
    <3>1. p.type = "id"
      BY <1>2, <2>2
    <3> QED
      BY <1>2, <1>3, <2>2, <3>1 DEF Spells
  <2> QED
    BY <2>1, <2>2
<1>5. ASSUME NEW j \in p.next + 1 .. Len(text) + 1 PROVE ~ StandsPiece(text, i, j)
  <2>1. j \in i + 1 .. Len(text) + 1 /\ p.next \in i .. j - 1
    BY <1>1, <1>2
  <2>2. ~ StandsWord(text, i, j)
    BY <1>2, <2>1 DEF StandsWord
  <2> QED
    BY <1>1, <2>1, <2>2, PieceBegins
<1>6. ~ IsOpen(i)
  BY OpenIs DEF Letters
<1>7. p.type \notin {"eof", "error"}
  BY <1>2
<1> QED
  BY <1>2, <1>4, <1>5, <1>6, <1>7, NothingLonger

LEMMA NumberIsLongest ==
  ASSUME text \in Seq(Characters), NEW i \in 1 .. Len(text),
         Char(text, i) \in Digits \/ (Char(text, i) = "." /\ Char(text, i + 1) \in Digits),
         NEW p, p = number(text, i)
  PROVE  IsLongest(p, i)
<1>1. i \in Positions(text) /\ Len(text) \in Nat /\ i \in Nat
  BY LenProperties DEF Positions
<1>2. /\ p.next \in i + 1 .. Len(text) + 1
      /\ p.lexeme = Text(text, i, p.next)
      /\ p.type = "number"
      /\ Char(text, p.next) \notin Digits
      /\ \E whole \in i .. p.next :
           /\ \A k \in i .. whole - 1 : Char(text, k) \in Digits
           /\ \/ /\ p.next = whole
                 /\ ~ (Char(text, whole) = "." /\ Char(text, whole + 1) \in Digits)
              \/ /\ Char(text, whole) = "." /\ whole + 1 < p.next
                 /\ \A k \in whole + 1 .. p.next - 1 : Char(text, k) \in Digits
  BY <1>1, NumberIs
<1> DEFINE n == p.next
<1>3. n \in Nat /\ "." \notin Digits
  BY <1>1, <1>2 DEF Digits
<1>4. PICK whole \in i .. n :
           /\ \A k \in i .. whole - 1 : Char(text, k) \in Digits
           /\ \/ /\ n = whole
                 /\ ~ (Char(text, whole) = "." /\ Char(text, whole + 1) \in Digits)
              \/ /\ Char(text, whole) = "." /\ whole + 1 < n
                 /\ \A k \in whole + 1 .. n - 1 : Char(text, k) \in Digits
  BY <1>2
<1>5. StandsNumber(text, i, n)
  <2>1. \A k \in i .. n - 1 : k # whole => Char(text, k) \in Digits
    BY <1>1, <1>3, <1>4
  <2>2. whole \in i .. n - 1 => Char(text, whole) = "."
    BY <1>1, <1>3, <1>4
  <2>3. \A k \in i .. n - 1 : Char(text, k) \in Digits \cup {"."}
    BY <2>1, <2>2
  <2>4. \A k \in i .. n - 1 : Char(text, k) = "." => k = whole
    BY <1>3, <2>1
  <2>5. n - 1 \in i .. n - 1 /\ n - 1 # whole
    BY <1>1, <1>2, <1>3, <1>4
  <2> QED
    BY <2>1, <2>3, <2>4, <2>5 DEF StandsNumber
<1>6. Spells(Text(text, i, n), p.type, p.lexeme)
  BY <1>1, <1>2, <1>5, NumberStands DEF Spells
<1>7. ASSUME NEW j \in n + 1 .. Len(text) + 1 PROVE ~ StandsPiece(text, i, j)
  <2>1. j \in i + 1 .. Len(text) + 1 /\ n \in i .. j - 1 /\ j \in Nat
    BY <1>1, <1>2, <1>3
  <2>2. ASSUME StandsNumber(text, i, j) PROVE FALSE
    <3>1. /\ \A k \in i .. j - 1 : Char(text, k) \in Digits \cup {"."}
          /\ Char(text, j - 1) \in Digits
          /\ \A k, l \in i .. j - 1 : Char(text, k) = "." /\ Char(text, l) = "." => k = l
      BY <2>2 DEF StandsNumber
    <3>2. Char(text, n) = "."
      BY <1>2, <2>1, <3>1
    <3>3. n # j - 1 /\ n + 1 \in i .. j - 1
      BY <1>1, <1>2, <1>3, <2>1, <3>1
    <3>4. CASE n = whole
      <4>1. Char(text, n + 1) = "."
        BY <1>4, <3>1, <3>2, <3>3, <3>4
      <4> QED
        BY <1>3, <2>1, <3>1, <3>2, <3>3, <4>1
    <3>5. CASE n # whole
      <4>1. Char(text, whole) = "." /\ whole \in i .. j - 1
        BY <1>1, <1>3, <1>4, <2>1, <3>5
      <4> QED
        BY <2>1, <3>1, <3>2, <3>5, <4>1
    <3> QED
      BY <3>4, <3>5
  <2>3. Char(text, i) = "." => ~ (j = i + 1) /\ ~ (j = i + 2 /\ Char(text, i + 1) = ".")
    <3>1. j # i + 1
      BY <1>1, <1>2, <1>3, <2>1
    <3> QED
      BY <1>3, <3>1
  <2> QED
    BY <1>1, <2>1, <2>2, <2>3, PieceBegins
<1>8. ~ IsOpen(i)
  BY OpenIs DEF Digits
<1> QED
  BY <1>2, <1>6, <1>7, <1>8, NothingLonger

\* Between quotes.
LEMMA QuotedIsLongest ==
  ASSUME text \in Seq(Characters), NEW i \in 1 .. Len(text),
         NEW c \in {"'", "q"}, Char(text, i) = c,
         NEW p, p.type \notin {"eof", "error"}, p.next \in i + 2 .. Len(text) + 1,
         Char(text, p.next - 1) = c,
         \A k \in i + 1 .. p.next - 2 : Char(text, k) # c,
         Spells(Text(text, i, p.next), p.type, p.lexeme)
  PROVE  IsLongest(p, i)
<1>1. i \in Positions(text) /\ Len(text) \in Nat /\ i \in Nat /\ p.next \in Nat
  BY LenProperties DEF Positions
<1>2. ASSUME NEW j \in p.next + 1 .. Len(text) + 1 PROVE ~ StandsPiece(text, i, j)
  <2>1. j \in i + 1 .. Len(text) + 1 /\ p.next - 1 \in i + 1 .. j - 2
    BY <1>1
  <2>2. ~ StandsQuoted(text, i, j, c)
    BY <2>1 DEF StandsQuoted
  <2>3. /\ Char(text, i) = "q" => ~ StandsQuoted(text, i, j, "q")
        /\ Char(text, i) = "'" => ~ StandsQuoted(text, i, j, "'")
        /\ Char(text, i) = "q" \/ Char(text, i) = "'"
    BY <2>2
  <2> QED
    BY <1>1, <2>1, <2>3, PieceBegins
<1>3. ~ IsOpen(i)
  <2>1. p.next - 1 \in i + 1 .. Len(text)
    BY <1>1
  <2>2. Char(text, i) # "/"
    OBVIOUS
  <2> QED
    BY <2>1, <2>2, OpenIs
<1>4. p.next \in i + 1 .. Len(text) + 1
  BY <1>1
<1> QED
  BY <1>2, <1>3, <1>4, NothingLonger

LEMMA StringIsLongest ==
  ASSUME text \in Seq(Characters), NEW i \in 1 .. Len(text), Char(text, i) = "q",
         NEW p, p = string(text, i)
  PROVE  IsLongest(p, i)
<1>1. i \in Positions(text) /\ Len(text) \in Nat /\ i \in Nat
  BY LenProperties DEF Positions
<1>2. ~ At(text, i, <<"/", "*">>)
  BY <1>1, AtTwo
<1>3. CASE /\ p = Error(Len(text) + 1)
           /\ \A k \in i + 1 .. Len(text) : Char(text, k) # "q"
  <2>1. IsOpen(i) /\ p.type = "error" /\ p.lexeme = <<>> /\ p.next = Len(text) + 1
    BY <1>3, OpenIs DEF Error, Scanned
  <2> QED
    BY <1>2, <2>1 DEF IsLongest
<1>4. CASE /\ p.next \in i + 2 .. Len(text) + 1
           /\ p.type = "string" /\ p.lexeme = Text(text, i, p.next)
           /\ Char(text, p.next - 1) = "q"
           /\ \A k \in i + 1 .. p.next - 2 : Char(text, k) # "q"
  <2>1. p.next \in i + 1 .. Len(text) + 1 /\ i + 2 <= p.next
    BY <1>1, <1>4
  <2>2. StandsQuoted(text, i, p.next, "q")
    BY <1>4, <2>1 DEF StandsQuoted
  <2>3. Spells(Text(text, i, p.next), p.type, p.lexeme)
    BY <1>1, <1>4, <2>1, <2>2, QuotedStands DEF Spells
  <2> QED
    BY <1>4, <2>3, QuotedIsLongest
<1> QED
  BY <1>1, <1>3, <1>4, StringIs

LEMMA NameIsLongest ==
  ASSUME text \in Seq(Characters), NEW i \in 1 .. Len(text), Char(text, i) = "'",
         NEW p, p = quotedName(text, i)
  PROVE  IsLongest(p, i)
<1>1. i \in Positions(text) /\ Len(text) \in Nat /\ i \in Nat \ {0}
  BY LenProperties DEF Positions
<1>2. ~ At(text, i, <<"/", "*">>)
  BY <1>1, AtTwo
<1>3. CASE /\ p = Error(Len(text) + 1)
           /\ \A k \in i + 1 .. Len(text) : Char(text, k) # "'"
  <2>1. IsOpen(i) /\ p.type = "error" /\ p.lexeme = <<>> /\ p.next = Len(text) + 1
    BY <1>3, OpenIs DEF Error, Scanned
  <2> QED
    BY <1>2, <2>1 DEF IsLongest
<1>4. CASE /\ p.next \in i + 2 .. Len(text) + 1
           /\ p.type = "id" /\ p.lexeme = Text(text, i + 1, p.next - 1)
           /\ Char(text, p.next - 1) = "'"
           /\ \A k \in i + 1 .. p.next - 2 : Char(text, k) # "'"
  <2>1. /\ p.next \in i + 1 .. Len(text) + 1 /\ i + 2 <= p.next /\ p.next \in i .. Len(text) + 1
        /\ p.next \in Nat
    BY <1>1, <1>4
  <2>2. StandsQuoted(text, i, p.next, "'")
    BY <1>4, <2>1 DEF StandsQuoted
  <2> DEFINE w == Text(text, i, p.next)
  <2>3. IsQuoted(w, "'")
    BY <1>1, <2>1, <2>2, QuotedStands
  <2>4. Interior(w, 1) = p.lexeme
    <3>1. PICK n : n = p.next - i
      OBVIOUS
    <3>2. /\ n \in Nat \ {0} /\ 2 <= n /\ n <= p.next - i + 1 /\ 2 \in Nat \ {0}
          /\ i + 2 - 1 = i + 1 /\ i + n - 1 = p.next - 1
      BY <1>1, <2>1, <3>1
    <3>3. Len(w) = n
      <4>1. Len(w) = p.next - i
        BY <1>1, <2>1, TextIs, Zenon
      <4> QED
        BY <3>1, <4>1, Zenon
    <3> HIDE DEF w
    <3>4. Interior(w, 1) = Text(w, 2, n)
      <4>1. 1 + 1 = 2
        OBVIOUS
      <4> QED
        BY <3>3, <4>1 DEF Interior, Text
    <3>5. Text(w, 2, n) = Text(text, i + 2 - 1, i + n - 1)
      BY <1>1, <2>1, <3>2, WordOfWord DEF w
    <3> QED
      BY <1>4, <3>2, <3>4, <3>5
  <2>5. Spells(w, p.type, p.lexeme)
    <3> HIDE DEF w
    <3> QED
      BY <1>4, <2>3, <2>4 DEF Spells
  <2> QED
    BY <1>4, <2>5, QuotedIsLongest
<1> QED
  BY <1>1, <1>3, <1>4, QuotedNameIs

\* A word between two others.
LEMMA WrappedIs ==
  ASSUME NEW a \in Seq(Characters), NEW u \in Seq(Characters), NEW b \in Seq(Characters),
         NEW v, v = a \o u \o b
  PROVE  /\ v \in Seq(Characters) /\ Len(v) = Len(a) + Len(u) + Len(b)
         /\ \A k \in 1 .. Len(a) : v[k] = a[k]
         /\ \A k \in 1 .. Len(u) : v[Len(a) + k] = u[k]
         /\ \A k \in 1 .. Len(b) : v[Len(a) + Len(u) + k] = b[k]
         /\ Len(a) \in Nat /\ Len(u) \in Nat /\ Len(b) \in Nat
<1>1. PICK x : x = a \o u
  OBVIOUS
<1>2. Len(a) \in Nat /\ Len(u) \in Nat /\ Len(b) \in Nat
  BY LenProperties
<1>3. /\ x \in Seq(Characters) /\ Len(x) = Len(a) + Len(u)
      /\ \A i \in 1 .. Len(a) + Len(u) : x[i] = IF i <= Len(a) THEN a[i] ELSE u[i - Len(a)]
  BY <1>1, ConcatProperties
<1>4. /\ v \in Seq(Characters) /\ Len(v) = Len(x) + Len(b)
      /\ \A i \in 1 .. Len(x) + Len(b) : v[i] = IF i <= Len(x) THEN x[i] ELSE b[i - Len(x)]
  <2>1. v = x \o b
    BY <1>1
  <2>2. /\ x \o b \in Seq(Characters) /\ Len(x \o b) = Len(x) + Len(b)
        /\ \A i \in 1 .. Len(x) + Len(b) : (x \o b)[i] = IF i <= Len(x) THEN x[i] ELSE b[i - Len(x)]
    <3>1. x \in Seq(Characters)
      BY <1>3
    <3> QED
      BY <3>1, ConcatProperties
  <2> QED
    BY <2>1, <2>2, Zenon
<1>5. \A k \in 1 .. Len(a) : v[k] = a[k]
  BY <1>2, <1>3, <1>4
<1>6. ASSUME NEW k \in 1 .. Len(u) PROVE v[Len(a) + k] = u[k]
  <2>1. Len(a) + k \in 1 .. Len(x) /\ ~ (Len(a) + k <= Len(a)) /\ Len(a) + k - Len(a) = k
    BY <1>2, <1>3
  <2>2. x[Len(a) + k] = u[Len(a) + k - Len(a)] /\ v[Len(a) + k] = x[Len(a) + k]
    BY <1>2, <1>3, <1>4, <2>1
  <2> QED
    BY <2>1, <2>2
<1>7. ASSUME NEW k \in 1 .. Len(b) PROVE v[Len(a) + Len(u) + k] = b[k]
  <2>1. PICK n : n = Len(a) + Len(u) + k
    OBVIOUS
  <2>2. n \in 1 .. Len(x) + Len(b) /\ ~ (n <= Len(x)) /\ n - Len(x) = k
    BY <1>2, <1>3, <2>1
  <2>3. v[n] = b[n - Len(x)]
    BY <1>4, <2>2
  <2> QED
    BY <2>1, <2>2, <2>3
<1> QED
  BY <1>2, <1>3, <1>4, <1>5, <1>6, <1>7

\* What a comment takes, of either form; e is where it closes.
LEMMA ClosedIsLongest ==
  ASSUME text \in Seq(Characters), NEW i \in 1 .. Len(text), At(text, i, <<"/", "*">>),
         NEW e \in i + 2 .. Len(text), At(text, e, <<"*", "/">>),
         \A k \in i + 2 .. e - 1 : ~ At(text, k, <<"*", "/">>),
         NEW p, p.next = e + 2,
         \/ p.type = "blockComment" /\ p.lexeme = Text(text, i + 2, e) /\ ~ DocOpens(text, i)
         \/ p.type = "docBody" /\ p.lexeme = Text(text, i + 3, e) /\ DocOpens(text, i)
  PROVE  IsLongest(p, i)
<1>1. i \in Positions(text) /\ Len(text) \in Nat /\ i \in Nat \ {0} /\ e \in Nat \ {0}
  BY LenProperties DEF Positions
<1>2. /\ Char(text, i) = "/" /\ Char(text, i + 1) = "*"
      /\ Char(text, e) = "*" /\ Char(text, e + 1) = "/"
  <2>1. i \in Nat /\ e \in Nat
    BY <1>1
  <2> QED
    BY <2>1, AtTwo, Zenon
<1> DEFINE w == Text(text, i, p.next)
<1>3. /\ p.next \in i .. Len(text) + 1 /\ IsComment(w)
      /\ Interior(w, 2) = Text(text, i + 2, e)
  BY <1>1, CommentFound
<1>4. p.next \in i + 1 .. Len(text) + 1 /\ i + 4 <= p.next /\ p.next \in Nat \ {0}
  BY <1>1, <1>3
<1>5. \A k \in 1 .. p.next - i : w[k] = Char(text, k + i - 1)
  BY <1>1, <1>4, WordChars
<1>6. Len(w) = p.next - i /\ w \in Seq(Characters)
  BY <1>1, <1>3, TextIs
<1>7. w[3] = Char(text, i + 2) /\ w[1] = "/" /\ w[2] = "*"
  <2>1. /\ 1 \in 1 .. p.next - i /\ 2 \in 1 .. p.next - i /\ 3 \in 1 .. p.next - i
        /\ 1 + i - 1 = i /\ 2 + i - 1 = i + 1 /\ 3 + i - 1 = i + 2
    BY <1>1, <1>4
  <2> QED
    BY <1>2, <1>5, <2>1
<1>8. DocOpens(text, i) <=> Char(text, i + 2) = "*" /\ Char(text, i + 3) # "/"
  <2>1. At(text, i, <<"/", "*", "*">>) <=> Char(text, i + 2) = "*"
    BY <1>1, <1>2, AtThree
  <2> QED
    BY <2>1 DEF DocOpens
<1>9. ASSUME e = i + 2 PROVE Char(text, i + 3) = "/" /\ Char(text, i + 2) = "*" /\ Len(w) = 4
  BY <1>1, <1>2, <1>6, <1>9
<1>10. ASSUME e # i + 2 PROVE ~ (Char(text, i + 2) = "*" /\ Char(text, i + 3) = "/") /\ Len(w) > 4
  <2>1. i + 2 \in i + 2 .. e - 1 /\ i + 2 \in Nat /\ i + 2 + 1 = i + 3
    BY <1>1, <1>10
  <2>2. ~ At(text, i + 2, <<"*", "/">>)
    BY <2>1
  <2>3. Len(w) > 4
    BY <1>1, <1>6, <1>10
  <2> QED
    BY <2>1, <2>2, <2>3, AtTwo
<1> HIDE DEF w
<1>11. ASSUME p.type = "blockComment", p.lexeme = Text(text, i + 2, e), ~ DocOpens(text, i)
       PROVE  Spells(w, p.type, p.lexeme)
  <2>1. Len(w) = 4 \/ w[3] # "*"
    BY <1>7, <1>8, <1>9, <1>10, <1>11
  <2> QED
    BY <1>3, <1>11, <2>1 DEF Spells
<1>12. ASSUME p.type = "docBody", p.lexeme = Text(text, i + 3, e), DocOpens(text, i)
       PROVE  Spells(w, p.type, p.lexeme)
  <2>1. Len(w) > 4 /\ w[3] = "*" /\ e # i + 2 /\ i + 3 <= e
    BY <1>1, <1>7, <1>8, <1>9, <1>10, <1>12
  <2>2. i + 3 \in Positions(text) /\ e \in i + 3 .. Len(text) + 1
    BY <1>1, <2>1 DEF Positions
  <2>3. PICK u : u = p.lexeme
    OBVIOUS
  <2>4. /\ u \in Seq(Characters) /\ Len(u) = e - (i + 3)
        /\ \A k \in 1 .. e - (i + 3) : u[k] = Char(text, i + 3 + k - 1)
    <3>1. PICK h : h = i + 3
      OBVIOUS
    <3>2. h \in Positions(text) /\ e \in h .. Len(text) + 1 /\ u = Text(text, h, e)
      BY <1>12, <2>2, <2>3, <3>1
    <3>3. /\ u \in Seq(Characters) /\ Len(u) = e - h
          /\ \A k \in 1 .. e - h : u[k] = Char(text, h + k - 1)
      BY <3>2, TextIs
    <3> QED
      BY <3>1, <3>3
  <2>5. PICK a : a = <<"/", "*", "*">>
    OBVIOUS
  <2>6. PICK b : b = <<"*", "/">>
    OBVIOUS
  <2>7. /\ a \in Seq(Characters) /\ Len(a) = 3 /\ a[1] = "/" /\ a[2] = "*" /\ a[3] = "*"
        /\ b \in Seq(Characters) /\ Len(b) = 2 /\ b[1] = "*" /\ b[2] = "/"
    <3>1. "/" \in Characters /\ "*" \in Characters
      BY DEF Characters
    <3> QED
      BY <2>5, <2>6, <3>1
  <2>8. PICK v : v = a \o u \o b
    OBVIOUS
  <2>9. /\ v \in Seq(Characters) /\ Len(v) = 3 + Len(u) + 2
        /\ \A k \in 1 .. 3 : v[k] = a[k]
        /\ \A k \in 1 .. Len(u) : v[3 + k] = u[k]
        /\ \A k \in 1 .. 2 : v[3 + Len(u) + k] = b[k]
    <3>1. u \in Seq(Characters) /\ a \in Seq(Characters) /\ b \in Seq(Characters)
      BY <2>4, <2>7
    <3>2. /\ v \in Seq(Characters) /\ Len(v) = Len(a) + Len(u) + Len(b)
          /\ \A k \in 1 .. Len(a) : v[k] = a[k]
          /\ \A k \in 1 .. Len(u) : v[Len(a) + k] = u[k]
          /\ \A k \in 1 .. Len(b) : v[Len(a) + Len(u) + k] = b[k]
      BY <2>8, <3>1, WrappedIs
    <3>3. Len(a) = 3 /\ Len(b) = 2
      BY <2>7
    <3> QED
      BY <3>2, <3>3
  <2>10. Len(v) = Len(w)
    BY <1>1, <1>6, <2>4, <2>9
  <2>11. ASSUME NEW k \in 1 .. Len(w) PROVE w[k] = v[k]
    <3>1. k \in 1 .. p.next - i /\ w[k] = Char(text, k + i - 1)
      BY <1>1, <1>4, <1>5, <1>6
    <3>2. CASE k <= 3
      <4>1. (k = 1 \/ k = 2 \/ k = 3) /\ k \in 1 .. 3
        BY <3>2
      <4> QED
        BY <1>7, <2>1, <2>7, <2>9, <4>1
    <3>3. CASE 3 < k /\ k <= 3 + Len(u)
      <4>1. PICK m : m = k - 3
        OBVIOUS
      <4>2. m \in 1 .. Len(u) /\ 3 + m = k /\ i + 3 + m - 1 = k + i - 1 /\ m \in 1 .. e - (i + 3)
        BY <1>1, <2>4, <3>3, <4>1
      <4>3. v[k] = u[m] /\ u[m] = Char(text, k + i - 1)
        BY <2>4, <2>9, <4>2
      <4> QED
        BY <3>1, <4>3
    <3>4. CASE k = 3 + Len(u) + 1
      <4>1. k + i - 1 = e /\ 1 \in 1 .. 2
        BY <1>1, <2>4, <3>4
      <4> QED
        BY <1>2, <2>7, <2>9, <3>1, <3>4, <4>1
    <3>5. CASE k = 3 + Len(u) + 2
      <4>1. k + i - 1 = e + 1 /\ 2 \in 1 .. 2
        BY <1>1, <2>4, <3>5
      <4> QED
        BY <1>2, <2>7, <2>9, <3>1, <3>5, <4>1
    <3>6. k <= 3 \/ (3 < k /\ k <= 3 + Len(u)) \/ k = 3 + Len(u) + 1 \/ k = 3 + Len(u) + 2
      BY <2>4, <2>9, <2>10, <1>1, <2>1
    <3> QED
      BY <3>2, <3>3, <3>4, <3>5, <3>6
  <2>12. w = v
    BY <1>6, <2>9, <2>10, <2>11, SeqEqual
  <2>13. w = <<"/", "*", "*">> \o p.lexeme \o <<"*", "/">>
    BY <2>3, <2>5, <2>6, <2>8, <2>12
  <2> QED
    BY <1>3, <1>12, <2>1, <2>13 DEF Spells
<1>13. Spells(w, p.type, p.lexeme)
  BY <1>11, <1>12
<1>14. ASSUME NEW j \in p.next + 1 .. Len(text) + 1 PROVE ~ StandsPiece(text, i, j)
  <2>1. j \in i + 1 .. Len(text) + 1 /\ j # i + 1 /\ e \in i + 2 .. j - 3
    BY <1>1, <1>4
  <2>2. ~ StandsComment(text, i, j)
    BY <1>2, <2>1 DEF StandsComment
  <2>3. ~ StandsLineComment(text, i, j)
    BY <1>2 DEF StandsLineComment
  <2> QED
    BY <1>1, <1>2, <2>1, <2>2, <2>3, PieceBegins
<1>15. ~ IsOpen(i)
  BY <1>2, OpenIs
<1>16. p.type \notin {"eof", "error"}
  BY <1>11, <1>12
<1> QED
  BY <1>4, <1>13, <1>14, <1>15, <1>16, NothingLonger DEF w

LEMMA DocIsLongest ==
  ASSUME text \in Seq(Characters), NEW i \in 1 .. Len(text), DocOpens(text, i),
         NEW p, p = captureCommentInterior(text, i + 3)
  PROVE  IsLongest(p, i)
<1>1. Len(text) \in Nat /\ i \in Nat \ {0}
  BY LenProperties
<1>2. /\ Char(text, i) = "/" /\ Char(text, i + 1) = "*" /\ Char(text, i + 2) = "*"
      /\ Char(text, i + 3) # "/"
  BY <1>1, AtThree DEF DocOpens
<1>3. At(text, i, <<"/", "*">>) /\ ~ At(text, i + 2, <<"*", "/">>)
  <2>1. i \in Nat /\ i + 2 \in Nat /\ i + 2 + 1 = i + 3
    BY <1>1
  <2> QED
    BY <1>2, <2>1, AtTwo
<1>4. i + 3 \in Positions(text)
  BY <1>1, <1>2, CharIs DEF Positions
<1>5. CASE /\ p = Error(Len(text) + 1)
           /\ \A k \in i + 3 .. Len(text) : ~ At(text, k, <<"*", "/">>)
  <2>1. \A k \in i + 2 .. Len(text) : ~ At(text, k, <<"*", "/">>)
    <3>1. \A k \in i + 2 .. Len(text) : k = i + 2 \/ k \in i + 3 .. Len(text)
      BY <1>1
    <3> QED
      BY <1>3, <1>5, <3>1
  <2>2. IsOpen(i) /\ p.type = "error" /\ p.lexeme = <<>> /\ p.next = Len(text) + 1
    BY <1>3, <1>5, <2>1 DEF IsOpen, Error, Scanned
  <2> QED
    BY <2>2 DEF IsLongest
<1>6. CASE /\ p.next \in i + 3 + 2 .. Len(text) + 1
           /\ p.type = "docBody" /\ p.lexeme = Text(text, i + 3, p.next - 2)
           /\ At(text, p.next - 2, <<"*", "/">>)
           /\ \A k \in i + 3 .. p.next - 3 : ~ At(text, k, <<"*", "/">>)
  <2>1. PICK e : e = p.next - 2
    OBVIOUS
  <2>2. e \in i + 2 .. Len(text) /\ p.next = e + 2 /\ e - 1 = p.next - 3
    BY <1>1, <1>6, <2>1
  <2>3. \A k \in i + 2 .. e - 1 : ~ At(text, k, <<"*", "/">>)
    <3>1. \A k \in i + 2 .. e - 1 : k = i + 2 \/ k \in i + 3 .. p.next - 3
      BY <1>1, <2>2
    <3> QED
      BY <1>3, <1>6, <3>1
  <2> QED
    BY <1>3, <1>6, <2>1, <2>2, <2>3, ClosedIsLongest
<1> QED
  BY <1>4, <1>5, <1>6, CommentIs

LEMMA BlockIsLongest ==
  ASSUME text \in Seq(Characters), current \in 1 .. Len(text), BlockOpens
  PROVE  IsLongest(SkippedBlock, current)
<1> DEFINE i == current
           end == closing(text, i + 2)
<1>1. Len(text) \in Nat /\ i \in Nat \ {0} /\ At(text, i, <<"/", "*">>) /\ ~ DocOpens(text, i)
  BY LenProperties DEF BlockOpens
<1>2. Char(text, i + 1) = "*"
  BY <1>1, AtTwo
<1>3. i + 2 \in Positions(text)
  BY <1>1, <1>2, CharIs DEF Positions
<1>4. /\ end \in i + 2 .. Len(text) + 1
      /\ end <= Len(text) => At(text, end, <<"*", "/">>)
      /\ \A k \in i + 2 .. end - 1 : ~ At(text, k, <<"*", "/">>)
  BY <1>3, ClosingIsFirst
<1>5. SkippedBlock = IF end > Len(text) THEN Scanned("blockComment", <<>>, end)
                     ELSE Scanned("blockComment", Text(text, i + 2, end), end + 2)
  BY DEF SkippedBlock
<1> HIDE DEF end
<1>6. CASE end > Len(text)
  <2>1. end = Len(text) + 1 /\ end - 1 = Len(text)
    BY <1>1, <1>4, <1>6
  <2>2. IsOpen(i)
    BY <1>1, <1>4, <2>1 DEF IsOpen
  <2>3. /\ SkippedBlock.type = "blockComment" /\ SkippedBlock.lexeme = <<>>
        /\ SkippedBlock.next = Len(text) + 1
    BY <1>5, <1>6, <2>1 DEF Scanned
  <2> QED
    BY <1>1, <2>2, <2>3 DEF IsLongest
<1>7. CASE ~ (end > Len(text))
  <2>1. /\ end \in i + 2 .. Len(text)
        /\ At(text, end, <<"*", "/">>)
    BY <1>1, <1>4, <1>7
  <2>2. PICK p : p = SkippedBlock
    OBVIOUS
  <2>3. p.type = "blockComment" /\ p.next = end + 2 /\ p.lexeme = Text(text, i + 2, end)
    BY <1>5, <1>7, <2>2 DEF Scanned
  <2>4. IsLongest(p, i)
    BY <1>1, <1>4, <2>1, <2>3, ClosedIsLongest
  <2> QED
    BY <2>2, <2>4
<1> QED
  BY <1>6, <1>7

LEMMA LineCommentIsLongest ==
  ASSUME text \in Seq(Characters), NEW i \in 1 .. Len(text), At(text, i, <<"/", "/">>),
         NEW p, p = Scanned("lineComment", <<>>, next(text, i, {"nl"}))
  PROVE  IsLongest(p, i)
<1>1. i \in Positions(text) /\ Len(text) \in Nat /\ i \in Nat \ {0}
  BY LenProperties DEF Positions
<1>2. Char(text, i) = "/" /\ Char(text, i + 1) = "/"
  BY <1>1, AtTwo
<1>3. /\ p.next \in i .. Len(text) + 1
      /\ p.next <= Len(text) => Char(text, p.next) \in {"nl"} \cup {"end"}
      /\ \A k \in i .. p.next - 1 : Char(text, k) \notin {"nl"} \cup {"end"}
      /\ p.type = "lineComment"
  <2>1. p.next = next(text, i, {"nl"}) /\ p.type = "lineComment"
    BY DEF Scanned
  <2> QED
    BY <1>1, <2>1, NextIsFirst
<1>4. i + 1 <= Len(text)
  BY <1>1, <1>2, CharIs
<1>5. p.next \in i + 2 .. Len(text) + 1
  <2>1. p.next <= Len(text) => Char(text, p.next) # "/"
    BY <1>3
  <2>2. p.next # i /\ p.next # i + 1
    BY <1>1, <1>2, <1>4, <2>1
  <2> QED
    BY <1>1, <1>3, <2>2
<1>6. p.next \in i + 1 .. Len(text) + 1 /\ i + 2 <= p.next
  BY <1>1, <1>5
<1>7. StandsLineComment(text, i, p.next)
  BY <1>2, <1>3, <1>6 DEF StandsLineComment
<1>8. Spells(Text(text, i, p.next), p.type, p.lexeme)
  BY <1>1, <1>3, <1>6, <1>7, LineCommentStands DEF Spells
<1>9. ASSUME NEW j \in p.next + 1 .. Len(text) + 1 PROVE ~ StandsPiece(text, i, j)
  <2>1. /\ j \in i + 1 .. Len(text) + 1 /\ j # i + 1 /\ p.next \in i .. j - 1
        /\ p.next <= Len(text) /\ p.next \in Nat \ {0}
    BY <1>1, <1>5
  <2>2. Char(text, p.next) = "nl"
    BY <1>1, <1>3, <2>1, CharIs
  <2>3. ~ StandsLineComment(text, i, j)
    BY <2>1, <2>2 DEF StandsLineComment
  <2>4. ~ StandsComment(text, i, j)
    BY <1>2 DEF StandsComment
  <2> QED
    BY <1>1, <1>2, <2>1, <2>3, <2>4, PieceBegins
<1>10. ~ IsOpen(i)
  BY <1>2, OpenIs
<1> QED
  BY <1>3, <1>6, <1>8, <1>9, <1>10, NothingLonger

LEMMA BlankIsLongest ==
  ASSUME text \in Seq(Characters), NEW i \in 1 .. Len(text), Char(text, i) \in Spaces,
         NEW p, p = Scanned("blank", <<>>, i + 1)
  PROVE  IsLongest(p, i)
<1>1. i \in Positions(text) /\ Len(text) \in Nat /\ i \in Nat \ {0}
  BY LenProperties DEF Positions
<1>2. p.type = "blank" /\ p.next = i + 1 /\ p.next \in i + 1 .. Len(text) + 1
  BY <1>1 DEF Scanned
<1>3. Text(text, i, p.next) \in {<<" ">>, <<"nl">>}
  <2>1. \A c : Text(text, i, p.next) = <<c>> <=> p.next = i + 1 /\ Char(text, i) = c
    BY <1>1, <1>2, PieceStands
  <2> QED
    BY <1>2, <2>1, Zenon DEF Spaces
<1>4. Spells(Text(text, i, p.next), p.type, p.lexeme)
  BY <1>2, <1>3, Zenon DEF Spells
<1>5. ASSUME NEW j \in p.next + 1 .. Len(text) + 1 PROVE ~ StandsPiece(text, i, j)
  <2>1. j \in i + 1 .. Len(text) + 1 /\ j # i + 1
    BY <1>1, <1>2
  <2> QED
    BY <1>1, <2>1, PieceBegins
<1>6. ~ IsOpen(i)
  <2>1. Char(text, i) \notin {"'", "q"} /\ Char(text, i) # "/"
    BY Zenon DEF Spaces
  <2> QED
    BY <2>1, OpenIs
<1> QED
  BY <1>2, <1>4, <1>5, <1>6, NothingLonger

LEMMA PunctuationIsLongest ==
  ASSUME text \in Seq(Characters), NEW i \in 1 .. Len(text),
         Char(text, i) \in {"(", "/", "*", ".", ":", ">", "=", "?"},
         ~ (Char(text, i) = "." /\ Char(text, i + 1) \in Digits),
         ~ (Char(text, i) = "/" /\ Char(text, i + 1) \in {"/", "*"}),
         NEW p, p = punctuation(text, i)
  PROVE  IsLongest(p, i)
<1>1. i \in Positions(text) /\ Len(text) \in Nat /\ i \in Nat \ {0} /\ i <= Len(text)
  BY LenProperties DEF Positions
<1>2. PICK c : c = Char(text, i)
  OBVIOUS
<1>3. PICK d : d = Char(text, i + 1)
  OBVIOUS
<1>4. PICK e : e = Char(text, i + 2)
  OBVIOUS
<1>5. ~ IsOpen(i)
  BY OpenIs
<1>6. \A j \in i + 1 .. Len(text) + 1 : IsShort(Text(text, i, j), i, j, c, d, e)
  BY <1>1, <1>2, <1>3, <1>4, ShortTexts
<1>7. ASSUME NEW j \in i + 1 .. Len(text) + 1, StandsPiece(text, i, j)
      PROVE  /\ c = "." => j = i + 1 \/ (j = i + 2 /\ d = ".")
             /\ c = "/" => j = i + 1
             /\ c = "(" => j = i + 1
             /\ c \in {"*", "="} => j = i + 1 \/ (j = i + 2 /\ d = c)
             /\ c = ">" => j = i + 1 \/ (j = i + 2 /\ d = "=")
             /\ c = ":" => \/ j = i + 1
                           \/ j = i + 2 /\ d \in {":", ">"}
                           \/ j = i + 3 /\ d \in {":", ">"} /\ e = ">"
  <2>1. /\ c = "." => j = i + 1 \/ (j = i + 2 /\ d = ".") \/ StandsNumber(text, i, j)
        /\ c = "/" => j = i + 1 \/ StandsComment(text, i, j) \/ StandsLineComment(text, i, j)
        /\ c = "(" => j = i + 1
        /\ c \in {"*", "="} => j = i + 1 \/ (j = i + 2 /\ d = c)
        /\ c = ">" => j = i + 1 \/ (j = i + 2 /\ d = "=")
        /\ c = ":" => \/ j = i + 1
                      \/ j = i + 2 /\ d \in {":", ">"}
                      \/ j = i + 3 /\ d \in {":", ">"} /\ e = ">"
    BY <1>1, <1>2, <1>3, <1>4, <1>7, PieceBegins
  <2>2. c = "/" => ~ StandsComment(text, i, j) /\ ~ StandsLineComment(text, i, j)
    BY <1>2, <1>3 DEF StandsComment, StandsLineComment
  <2>3. ASSUME c = ".", StandsNumber(text, i, j) PROVE j = i + 1 \/ (j = i + 2 /\ d = ".")
    <3>1. /\ \A k \in i .. j - 1 : Char(text, k) \in Digits \cup {"."}
          /\ Char(text, j - 1) \in Digits
      BY <2>3 DEF StandsNumber
    <3>2. j = i + 1 \/ i + 1 \in i .. j - 1
      BY <1>1
    <3>3. ASSUME i + 1 \in i .. j - 1, d = "." PROVE FALSE
      <4>1. \A k, l \in i .. j - 1 : Char(text, k) = "." /\ Char(text, l) = "." => k = l
        BY <2>3 DEF StandsNumber
      <4>2. i \in i .. j - 1
        BY <1>1, <3>3
      <4>3. i = i + 1
        BY <1>2, <1>3, <2>3, <3>3, <4>1, <4>2
      <4> QED
        BY <1>1, <4>3
    <3>4. i + 1 \in i .. j - 1 => d \in Digits \cup {"."}
      BY <1>3, <3>1
    <3> QED
      BY <1>2, <1>3, <2>3, <3>2, <3>3, <3>4
  <2> QED
    BY <2>1, <2>2, <2>3
<1>8. ASSUME NEW n \in i + 1 .. Len(text) + 1, NEW l, p = Scanned("punctuation", l, n),
             \A j \in n + 1 .. Len(text) + 1 : ~ StandsPiece(text, i, j),
             StandsSpelling(text, i, n),
             l = IF Text(text, i, n) = <<":", ":", ">">> THEN <<":", ">">> ELSE Text(text, i, n)
      PROVE  IsLongest(p, i)
  <2>1. p.type = "punctuation" /\ p.lexeme = l /\ p.next = n
    BY <1>8 DEF Scanned
  <2>2. Text(text, i, n) \in Spellings
    BY <1>1, <1>8, SpellingStands
  <2>3. Spells(Text(text, i, n), p.type, p.lexeme)
    BY <1>8, <2>1, <2>2, Zenon DEF Spells
  <2> QED
    BY <1>5, <1>8, <2>1, <2>3, NothingLonger
<1>9. \A n \in i + 1 .. Len(text) + 1 :
        StandsSpelling(text, i, n) <=>
           \/ n = i + 1 /\ c \in {"(", "/", "*", ".", ":", ">", "="}
           \/ /\ n = i + 2
              /\ \/ c = d /\ c \in {".", "*", ":", "="}
                 \/ c = ">" /\ d = "="
                 \/ c = ":" /\ d = ">"
           \/ n = i + 3 /\ c = ":" /\ d \in {":", ">"} /\ e = ">"
  BY <1>2, <1>3, <1>4, Zenon DEF StandsSpelling
<1>10. CASE c = ":" /\ d = ":" /\ e = ">" /\ p = Scanned("punctuation", <<":", ">">>, i + 3)
            /\ i + 2 <= Len(text)
  <2>1. i + 3 \in i + 1 .. Len(text) + 1
    BY <1>1, <1>10
  <2>2. \A j \in i + 3 + 1 .. Len(text) + 1 : ~ StandsPiece(text, i, j)
    BY <1>1, <1>7, <1>10
  <2>3. Text(text, i, i + 3) = <<":", ":", ">">> /\ StandsSpelling(text, i, i + 3)
    BY <1>6, <1>9, <1>10, <2>1 DEF IsShort
  <2> QED
    BY <1>8, <1>10, <2>1, <2>2, <2>3
<1>11. CASE c = ":" /\ d = ":" /\ e # ">" /\ p = Scanned("punctuation", <<":", ":">>, i + 2)
            /\ i + 1 <= Len(text)
  <2>1. i + 2 \in i + 1 .. Len(text) + 1 /\ i + 2 # i + 3
    BY <1>1, <1>11
  <2>2. \A j \in i + 2 + 1 .. Len(text) + 1 : ~ StandsPiece(text, i, j)
    BY <1>1, <1>7, <1>11
  <2>3. Text(text, i, i + 2) = <<":", ":">> /\ StandsSpelling(text, i, i + 2)
        /\ Text(text, i, i + 2) # <<":", ":", ">">>
    BY <1>6, <1>9, <1>11, <2>1 DEF IsShort
  <2> QED
    BY <1>8, <1>11, <2>1, <2>2, <2>3
<1>12. CASE c = ":" /\ d = ">" /\ e = ">" /\ p = Scanned("punctuation", <<":", ">", ">">>, i + 3)
            /\ i + 2 <= Len(text)
  <2>1. i + 3 \in i + 1 .. Len(text) + 1
    BY <1>1, <1>12
  <2>2. \A j \in i + 3 + 1 .. Len(text) + 1 : ~ StandsPiece(text, i, j)
    BY <1>1, <1>7, <1>12
  <2>3. Text(text, i, i + 3) = <<":", ">", ">">> /\ StandsSpelling(text, i, i + 3)
        /\ Text(text, i, i + 3) # <<":", ":", ">">>
    BY <1>6, <1>9, <1>12, <2>1 DEF IsShort
  <2> QED
    BY <1>8, <1>12, <2>1, <2>2, <2>3
<1>13. CASE c = ":" /\ d = ">" /\ e # ">" /\ p = Scanned("punctuation", <<":", ">">>, i + 2)
            /\ i + 1 <= Len(text)
  <2>1. i + 2 \in i + 1 .. Len(text) + 1 /\ i + 2 # i + 3
    BY <1>1, <1>13
  <2>2. \A j \in i + 2 + 1 .. Len(text) + 1 : ~ StandsPiece(text, i, j)
    BY <1>1, <1>7, <1>13
  <2>3. Text(text, i, i + 2) = <<":", ">">> /\ StandsSpelling(text, i, i + 2)
        /\ Text(text, i, i + 2) # <<":", ":", ">">>
    BY <1>6, <1>9, <1>13, <2>1 DEF IsShort
  <2> QED
    BY <1>8, <1>13, <2>1, <2>2, <2>3
<1>14. CASE c \in {".", "*", "="} /\ d = c /\ p = Scanned("punctuation", <<c, c>>, i + 2)
            /\ i + 1 <= Len(text)
  <2>1. i + 2 \in i + 1 .. Len(text) + 1 /\ i + 2 # i + 3
    BY <1>1, <1>14
  <2>2. \A j \in i + 2 + 1 .. Len(text) + 1 : ~ StandsPiece(text, i, j)
    BY <1>1, <1>7, <1>14
  <2>3. StandsSpelling(text, i, i + 2) /\ Text(text, i, i + 2) # <<":", ":", ">">>
    BY <1>6, <1>9, <1>14, <2>1 DEF IsShort
  <2>4. Text(text, i, i + 2) = <<c, c>>
    BY <1>6, <1>14, <2>1, Zenon DEF IsShort
  <2> QED
    BY <1>8, <1>14, <2>1, <2>2, <2>3, <2>4
<1>15. CASE c = ">" /\ d = "=" /\ p = Scanned("punctuation", <<">", "=">>, i + 2)
            /\ i + 1 <= Len(text)
  <2>1. i + 2 \in i + 1 .. Len(text) + 1 /\ i + 2 # i + 3
    BY <1>1, <1>15
  <2>2. \A j \in i + 2 + 1 .. Len(text) + 1 : ~ StandsPiece(text, i, j)
    BY <1>1, <1>7, <1>15
  <2>3. Text(text, i, i + 2) = <<">", "=">> /\ StandsSpelling(text, i, i + 2)
        /\ Text(text, i, i + 2) # <<":", ":", ">">>
    BY <1>6, <1>9, <1>15, <2>1 DEF IsShort
  <2> QED
    BY <1>8, <1>15, <2>1, <2>2, <2>3
<1>16. CASE c = "?" /\ p = Error(i + 1)
  <2>1. p.type = "error" /\ p.next = i + 1 /\ i + 1 \in i + 1 .. Len(text) + 1
    BY <1>1, <1>16 DEF Error, Scanned
  <2>2. Text(text, i, p.next) = <<"?">>
    BY <1>6, <1>16, <2>1 DEF IsShort
  <2> QED
    BY <1>5, <2>1, <2>2 DEF IsLongest
<1>17. CASE /\ c # "?"
            /\ c = ":" => d \notin {":", ">"}
            /\ c \in {".", "*", "="} => d # c
            /\ c = ">" => d # "="
            /\ p = Scanned("punctuation", <<c>>, i + 1)
  <2>1. i + 1 \in i + 1 .. Len(text) + 1 /\ i + 1 # i + 3 /\ i + 1 # i + 2
    BY <1>1
  <2>2. c \in {"(", "/", "*", ".", ":", ">", "="}
    BY <1>2, <1>17
  <2>3. \A j \in i + 1 + 1 .. Len(text) + 1 : ~ StandsPiece(text, i, j)
    BY <1>1, <1>7, <1>17, <2>2
  <2>4. Text(text, i, i + 1) = <<c>> /\ StandsSpelling(text, i, i + 1)
        /\ Text(text, i, i + 1) # <<":", ":", ">">>
    BY <1>6, <1>9, <1>17, <2>1, <2>2 DEF IsShort
  <2> QED
    BY <1>8, <1>17, <2>1, <2>3, <2>4
<1> QED
  BY <1>1, <1>2, <1>3, <1>4, <1>10, <1>11, <1>12, <1>13, <1>14, <1>15, <1>16, <1>17, PunctuationIs

\* What scanToken() reads, where no blank and no comment to skip stands.
LEMMA TokenIsLongest ==
  ASSUME text \in Seq(Characters), current \in Positions(text), AtToken
  PROVE  IsLongest(TokenAt(text, current), current)
<1>1. PICK i : i = current
  OBVIOUS
<1>2. PICK c : c = Char(text, i)
  OBVIOUS
<1>3. PICK p : p = TokenAt(text, i)
  OBVIOUS
<1>4. Len(text) \in Nat /\ i \in Nat \ {0} /\ i \in 1 .. Len(text) + 1
  BY <1>1, LenProperties DEF Positions
<1>5. /\ c \notin Spaces
      /\ ~ (c = "/" /\ Char(text, i + 1) = "/")
      /\ c = "/" /\ Char(text, i + 1) = "*" => DocOpens(text, i)
  <2>1. ~ Blank /\ ~ At(text, i, <<"/", "/">>) /\ (At(text, i, <<"/", "*">>) => DocOpens(text, i))
    BY <1>1, Zenon DEF AtToken, BlockOpens
  <2>2. c \notin Spaces
    BY <1>1, <1>2, <2>1, Zenon DEF Blank, Spaces
  <2>3. /\ At(text, i, <<"/", "/">>) <=> c = "/" /\ Char(text, i + 1) = "/"
        /\ At(text, i, <<"/", "*">>) <=> c = "/" /\ Char(text, i + 1) = "*"
    BY <1>2, <1>4, AtTwo
  <2> QED
    BY <2>1, <2>2, <2>3
<1>6. /\ c = "end" => p = Scanned("eof", <<>>, i)
      /\ DocOpens(text, i) => p = captureCommentInterior(text, i + 3)
      /\ c \in Letters => p = identifier(text, i)
      /\ c \in Digits \/ (c = "." /\ Char(text, i + 1) \in Digits) => p = number(text, i)
      /\ c = "q" => p = string(text, i)
      /\ c = "'" => p = quotedName(text, i)
      /\ \/ c \in {"end", "q", "'"} \cup Letters \cup Digits \/ DocOpens(text, i)
         \/ c = "." /\ Char(text, i + 1) \in Digits
         \/ p = punctuation(text, i)
  BY <1>2, <1>3, <1>4, TokenIs
<1>7. CASE i = Len(text) + 1
  <2>1. c = "end"
    BY <1>2, <1>4, <1>7 DEF Char
  <2>2. p.type = "eof"
    BY <1>6, <2>1 DEF Scanned
  <2> QED
    BY <1>1, <1>3, <1>7, <2>2 DEF IsLongest
<1>8. CASE i # Len(text) + 1
  <2>1. i \in 1 .. Len(text) /\ i <= Len(text)
    BY <1>4, <1>8
  <2>2. c \in Characters
    BY <1>2, <2>1 DEF Char
  <2>3. c \in Letters \cup Digits \cup {"q", "'"} \cup {"(", "/", "*", ".", ":", ">", "=", "?"}
    BY <1>5, <2>2, Zenon DEF Characters, Letters, Digits, Spaces
  <2>4. CASE DocOpens(text, i)
    BY <1>1, <1>3, <1>6, <2>1, <2>4, DocIsLongest
  <2>5. CASE c \in Letters
    BY <1>1, <1>2, <1>3, <1>6, <2>1, <2>5, WordIsLongest
  <2>6. CASE c \in Digits \/ (c = "." /\ Char(text, i + 1) \in Digits)
    BY <1>1, <1>2, <1>3, <1>6, <2>1, <2>6, NumberIsLongest
  <2>7. CASE c = "q"
    BY <1>1, <1>2, <1>3, <1>6, <2>1, <2>7, StringIsLongest
  <2>8. CASE c = "'"
    BY <1>1, <1>2, <1>3, <1>6, <2>1, <2>8, NameIsLongest
  <2>9. CASE /\ c \in {"(", "/", "*", ".", ":", ">", "=", "?"}
             /\ ~ (c = "." /\ Char(text, i + 1) \in Digits) /\ ~ DocOpens(text, i)
    <3>1. c \notin {"end", "q", "'"} \cup Letters \cup Digits
      BY <2>9 DEF Letters, Digits
    <3>2. p = punctuation(text, i)
      BY <1>6, <2>9, <3>1
    <3>3. ~ (c = "/" /\ Char(text, i + 1) \in {"/", "*"})
      BY <1>5, <2>9
    <3> QED
      BY <1>1, <1>2, <1>3, <2>1, <2>9, <3>2, <3>3, PunctuationIsLongest
  <2> QED
    BY <2>3, <2>4, <2>5, <2>6, <2>7, <2>8, <2>9
<1> QED
  BY <1>7, <1>8

\* A step reads the longest piece, or nothing; where scanDocBody() reads, it is
\* to find its comment and not the longest piece.
LEMMA LongestRead ==
  ASSUME TypeOK, Next
  PROVE  /\ text' = text
         /\ \/ pieces' = pieces
            \/ \E p : /\ Consume(p) /\ caller \in {"scanToken", "scanDocBody"}
                      /\ p.type \in Found \cup Trivia /\ Lies(p, text, current)
                      /\ caller = "scanToken" => IsLongest(p, current)
<1>1. /\ text \in Seq(Characters) /\ current \in Positions(text)
      /\ Len(text) \in Nat /\ current \in Nat \ {0}
  BY TextsAssumption, LenProperties DEF TypeOK, Positions
<1>2. Char(text, current) # "end" => current \in 1 .. Len(text)
  BY <1>1, CharIs
<1>3. CASE Advance \/ TakeLastBlockComment
  BY <1>3 DEF Advance, TakeLastBlockComment
<1>4. ASSUME NEW p, Consume(p), caller # "parser", p.type \in Found \cup Trivia,
             Lies(p, text, current), caller = "scanToken" => IsLongest(p, current)
      PROVE  /\ text' = text
             /\ \E q : /\ Consume(q) /\ caller \in {"scanToken", "scanDocBody"}
                       /\ q.type \in Found \cup Trivia /\ Lies(q, text, current)
                       /\ caller = "scanToken" => IsLongest(q, current)
  <2>1. text' = text /\ caller \in {"scanToken", "scanDocBody"}
    BY <1>4 DEF Consume, TypeOK
  <2> QED
    BY <1>4, <2>1
<1>5. CASE SkipBlank
  <2>1. PICK p : p = Scanned("blank", <<>>, current + 1)
    OBVIOUS
  <2>2. Blank /\ Consume(p) /\ caller # "parser"
    BY <1>5, <2>1 DEF SkipBlank
  <2>3. p.type \in Found \cup Trivia /\ Lies(p, text, current)
    BY <2>1, <2>2, SkippedLies DEF Scanned, Trivia
  <2>4. Char(text, current) \in Spaces
    BY <2>2, Zenon DEF Blank, Spaces
  <2>5. Char(text, current) # "end"
    BY <2>4, Zenon DEF Spaces
  <2>6. IsLongest(p, current)
    BY <1>1, <1>2, <2>1, <2>4, <2>5, BlankIsLongest
  <2> QED
    BY <1>4, <2>2, <2>3, <2>6
<1>6. CASE SkipLineComment
  <2>1. PICK p : p = Scanned("lineComment", <<>>, next(text, current, {"nl"}))
    OBVIOUS
  <2>2. At(text, current, <<"/", "/">>) /\ Consume(p) /\ caller # "parser"
    BY <1>6, <2>1 DEF SkipLineComment
  <2>3. p.type \in Found \cup Trivia /\ Lies(p, text, current)
    BY <2>1, <2>2, SkippedLies DEF Scanned, Trivia
  <2>4. Char(text, current) = "/"
    BY <1>1, <2>2, AtTwo
  <2>5. IsLongest(p, current)
    BY <1>1, <1>2, <2>1, <2>2, <2>4, LineCommentIsLongest
  <2> QED
    BY <1>4, <2>2, <2>3, <2>5
<1>7. CASE SkipBlockComment
  <2>1. PICK p : p = SkippedBlock
    OBVIOUS
  <2>2. BlockOpens /\ Consume(p) /\ caller # "parser"
    BY <1>7, <2>1 DEF SkipBlockComment
  <2>3. p.type \in Found \cup Trivia /\ Lies(p, text, current)
    BY <2>1, <2>2, SkippedLies DEF Trivia
  <2>4. Char(text, current) = "/"
    <3>1. At(text, current, <<"/", "*">>)
      BY <2>2 DEF BlockOpens
    <3> QED
      BY <1>1, <3>1, AtTwo
  <2>5. IsLongest(p, current)
    BY <1>1, <1>2, <2>1, <2>2, <2>4, BlockIsLongest
  <2> QED
    BY <1>4, <2>2, <2>3, <2>5
<1>8. CASE ScanToken \/ ScanError
  <2>1. PICK p : p = TokenAt(text, current)
    OBVIOUS
  <2>2. AtToken /\ Consume(p) /\ caller # "parser"
    BY <1>8, <2>1 DEF ScanToken, ScanError
  <2>3. p.type \in Found \cup Trivia /\ Lies(p, text, current)
    BY <1>1, <2>1, TokenLies
  <2>4. IsLongest(p, current)
    BY <1>1, <2>1, <2>2, TokenIsLongest
  <2> QED
    BY <1>4, <2>2, <2>3, <2>4
<1>9. CASE ScanDocBody
  <2>1. PICK p : p = docBodyAt(text, current)
    OBVIOUS
  <2>2. Consume(p) /\ caller = "scanDocBody"
    BY <1>9, <2>1 DEF ScanDocBody
  <2>3. p.type \in Found \cup Trivia /\ Lies(p, text, current)
    BY <1>1, <2>1, DocBodyLies DEF Found
  <2> QED
    BY <1>4, <2>2, <2>3
<1> QED
  BY <1>3, <1>5, <1>6, <1>7, <1>8, <1>9 DEF Next

----------------------------------------------------------------------------
(***************************************************************************)
(* Every piece is what stands there by the grammar, and the longest that   *)
(* does.  The history only grows and the text stays as it is, so that with *)
(* TypeOK the invariant is inductive: it is said of each piece by itself.  *)
(***************************************************************************)
\* What scanToken() takes from a text, whatever characters it has, is the
\* longest piece of the grammar that begins there; only what is open, or begins
\* no piece, is an error.
THEOREM PiecesAreAlwaysLongest == Spec => []LongestPieces
<1>1. LongestPieces <=> \A k \in DOMAIN pieces : pieces[k].by = "scanToken" =>
                                                   IsLongest(pieces[k], pieces[k].from)
  BY Zenon DEF LongestPieces, IsLongest
<1>2. LongestPieces' <=> \A k \in DOMAIN pieces' : pieces'[k].by = "scanToken" =>
                                                   IsLongest(pieces[k], pieces[k].from)'
  BY Zenon DEF LongestPieces, IsLongest
<1>3. ASSUME text' = text, NEW k
      PROVE  IsLongest(pieces[k], pieces[k].from)' <=> IsLongest(pieces'[k], pieces'[k].from)
  <2>1. \A i : IsOpen(i)' <=> IsOpen(i)
    BY <1>3 DEF IsOpen
  <2> QED
    BY <1>3, <2>1 DEF IsLongest
<1>4. Init => LongestPieces
  BY DEF Init, LongestPieces
<1>5. TypeOK /\ LongestPieces /\ [Next]_vars => LongestPieces'
  <2> SUFFICES ASSUME TypeOK, LongestPieces, [Next]_vars PROVE LongestPieces'
    OBVIOUS
  <2>1. CASE text' = text /\ pieces' = pieces
    BY <2>1 DEF LongestPieces, IsOpen
  <2>2. CASE Next /\ pieces' # pieces
    <3>1. PICK p : /\ Consume(p) /\ caller \in {"scanToken", "scanDocBody"}
                   /\ p.type \in Found \cup Trivia /\ Lies(p, text, current)
                   /\ caller = "scanToken" => IsLongest(p, current)
      BY <2>2, LongestRead
    <3>2. PICK n : n = Len(pieces) + 1
      OBVIOUS
    <3>3. /\ text' = text
          /\ pieces' \in Seq(Piece) /\ Len(pieces') = n
          /\ \A k \in 1 .. n - 1 : pieces'[k] = pieces[k]
          /\ pieces'[n] = [type |-> p.type, lexeme |-> p.lexeme, by |-> caller,
                           from |-> current, next |-> p.next, line |-> line']
      BY <3>1, <3>2, ConsumeIs
    <3>4. DOMAIN pieces = 1 .. n - 1 /\ DOMAIN pieces' = 1 .. n /\ n \in Nat \ {0}
      BY <3>2, <3>3, LenProperties DEF TypeOK
    <3>5. ASSUME NEW k \in DOMAIN pieces', pieces'[k].by = "scanToken"
          PROVE  IsLongest(pieces'[k], pieces'[k].from)
      <4>1. CASE k = n
        <5>1. /\ pieces'[k].type = p.type /\ pieces'[k].lexeme = p.lexeme
              /\ pieces'[k].next = p.next /\ pieces'[k].from = current
              /\ caller = "scanToken"
          BY <3>3, <3>5, <4>1
        <5>2. IsLongest(p, current)
          BY <3>1, <5>1
        <5> QED
          BY <5>1, <5>2, Zenon DEF IsLongest
      <4>2. CASE k # n
        <5>1. k \in DOMAIN pieces /\ pieces'[k] = pieces[k]
          BY <3>3, <3>4, <4>2
        <5> QED
          BY <1>1, <3>5, <5>1
      <4> QED
        BY <4>1, <4>2
    <3> QED
      BY <1>2, <1>3, <3>3, <3>5
  <2> QED
    BY <2>1, <2>2, LongestRead DEF vars
<1> QED
  BY <1>4, <1>5, TypeCorrect, PTL DEF Spec

----------------------------------------------------------------------------
(***************************************************************************)
(* What the printer writes is found again.                                 *)
(***************************************************************************)
\* No comment closes in u.
NoClose(u) == \A k \in 1 .. Len(u) - 1 : ~ (u[k] = "*" /\ u[k + 1] = "/")

NoQuote(u) == \A k \in 1 .. Len(u) : u[k] # "'"

\* The grammar tells what may stand in what is kept.
LEMMA CommentKeeps ==
  ASSUME NEW w \in Seq(Characters), IsComment(w)
  PROVE  /\ Interior(w, 2) \in Seq(Characters) /\ NoClose(Interior(w, 2))
         /\ Len(Interior(w, 2)) = Len(w) - 4
         /\ \A k \in 1 .. Len(w) - 4 : Interior(w, 2)[k] = w[k + 2]
<1>1. PICK n : n = Len(w)
  OBVIOUS
<1>2. PICK u : u = Interior(w, 2)
  OBVIOUS
<1>3. n \in Nat /\ n >= 4 /\ \A k \in 3 .. n - 2 : ~ At(w, k, <<"*", "/">>)
  BY <1>1, LenProperties DEF IsComment
<1>4. u = Text(w, 3, n - 1)
  <2>1. n - 1 - 1 = n - 2 /\ 2 + 1 = 3
    BY <1>3
  <2> QED
    BY <1>1, <1>2, <2>1 DEF Interior, Text
<1>5. /\ u \in Seq(Characters) /\ Len(u) = n - 1 - 3
      /\ \A k \in 1 .. n - 1 - 3 : u[k] = w[3 + k - 1]
  <2>1. 3 \in Positions(w) /\ n - 1 \in 3 .. Len(w) + 1
    BY <1>1, <1>3 DEF Positions
  <2>2. PICK m : m = n - 1
    OBVIOUS
  <2>3. /\ Text(w, 3, m) \in Seq(Characters) /\ Len(Text(w, 3, m)) = m - 3
        /\ \A k \in 1 .. m - 3 : Text(w, 3, m)[k] = w[3 + k - 1]
    BY <2>1, <2>2, TextIs
  <2> QED
    BY <1>4, <2>2, <2>3
<1>6. Len(u) = n - 4 /\ \A k \in 1 .. n - 4 : u[k] = w[k + 2]
  <2>1. n - 1 - 3 = n - 4 /\ \A k \in 1 .. n - 4 : 3 + k - 1 = k + 2
    BY <1>3
  <2> QED
    BY <1>5, <2>1
<1>7. NoClose(u)
  <2> SUFFICES ASSUME NEW k \in 1 .. Len(u) - 1, u[k] = "*", u[k + 1] = "/" PROVE FALSE
    BY DEF NoClose
  <2>1. /\ k \in 1 .. n - 4 /\ k + 1 \in 1 .. n - 4 /\ k + 2 \in 3 .. n - 2 /\ k + 2 \in Nat
        /\ k + 2 <= Len(w) /\ k + 2 + 1 <= Len(w) /\ k + 1 + 2 = k + 2 + 1
    BY <1>1, <1>3, <1>6
  <2>2. Char(w, k + 2) = "*" /\ Char(w, k + 2 + 1) = "/"
    BY <1>6, <2>1 DEF Char
  <2> QED
    BY <1>3, <2>1, <2>2, AtTwo
<1> QED
  BY <1>1, <1>2, <1>5, <1>6, <1>7

LEMMA DocKeeps ==
  ASSUME NEW u \in Seq(Characters), NEW w, w = <<"/", "*", "*">> \o u \o <<"*", "/">>, IsComment(w)
  PROVE  NoClose(u)
<1>1. PICK a : a = <<"/", "*", "*">>
  OBVIOUS
<1>2. PICK b : b = <<"*", "/">>
  OBVIOUS
<1>3. a \in Seq(Characters) /\ Len(a) = 3 /\ b \in Seq(Characters) /\ Len(b) = 2
  <2>1. "/" \in Characters /\ "*" \in Characters
    BY DEF Characters
  <2> QED
    BY <1>1, <1>2, <2>1
<1>4. PICK v : v = a \o u \o b
  OBVIOUS
<1>5. /\ v \in Seq(Characters) /\ Len(v) = 3 + Len(u) + 2 /\ Len(u) \in Nat
      /\ \A k \in 1 .. Len(u) : v[3 + k] = u[k]
  <2>1. /\ v \in Seq(Characters) /\ Len(v) = Len(a) + Len(u) + Len(b) /\ Len(u) \in Nat
        /\ \A k \in 1 .. Len(u) : v[Len(a) + k] = u[k]
    <3>1. a \in Seq(Characters) /\ b \in Seq(Characters)
      BY <1>3
    <3> QED
      BY <1>4, <3>1, WrappedIs
  <2> QED
    BY <1>3, <2>1
<1>6. v = w
  BY <1>1, <1>2, <1>4
<1> SUFFICES ASSUME NEW k \in 1 .. Len(u) - 1, u[k] = "*", u[k + 1] = "/" PROVE FALSE
  BY DEF NoClose
<1>7. /\ k \in 1 .. Len(u) /\ k + 1 \in 1 .. Len(u) /\ 3 + (k + 1) = 3 + k + 1
      /\ 3 + k <= Len(v) /\ 3 + k + 1 <= Len(v) /\ 3 + k \in Nat /\ 3 + k \in 3 .. Len(v) - 2
  BY <1>5
<1>8. Char(v, 3 + k) = "*" /\ Char(v, 3 + k + 1) = "/"
  BY <1>5, <1>7 DEF Char
<1>9. ~ At(v, 3 + k, <<"*", "/">>)
  BY <1>6, <1>7 DEF IsComment
<1> QED
  BY <1>7, <1>8, <1>9, AtTwo

LEMMA TailKeeps ==
  ASSUME NEW u \in Seq(Characters), u # <<>>, NoClose(u)
  PROVE  NoClose(Tail(u))
<1>1. PICK v : v = Tail(u)
  OBVIOUS
<1>2. Len(u) \in Nat \ {0} /\ Len(v) = Len(u) - 1 /\ \A k \in 1 .. Len(v) : v[k] = u[k + 1]
  BY <1>1, HeadTailProperties, LenProperties, EmptySeq
<1> SUFFICES ASSUME NEW k \in 1 .. Len(v) - 1, v[k] = "*", v[k + 1] = "/" PROVE FALSE
  BY <1>1 DEF NoClose
<1>3. k \in 1 .. Len(v) /\ k + 1 \in 1 .. Len(v) /\ k + 1 \in 1 .. Len(u) - 1
  BY <1>2
<1>4. u[k + 1] = "*" /\ u[k + 1 + 1] = "/"
  BY <1>2, <1>3
<1> QED
  BY <1>3, <1>4 DEF NoClose

LEMMA NameKeeps ==
  ASSUME NEW w \in Seq(Characters), NEW u,
         \/ IsWord(w) /\ u = w
         \/ IsQuoted(w, "'") /\ u = Interior(w, 1)
  PROVE  NoQuote(u)
<1>1. CASE IsWord(w) /\ u = w
  BY <1>1, LenProperties DEF IsWord, AllIn, NoQuote, Letters, Digits
<1>2. CASE IsQuoted(w, "'") /\ u = Interior(w, 1)
  <2>1. PICK n : n = Len(w)
    OBVIOUS
  <2>2. n \in Nat /\ n >= 2 /\ \A k \in 2 .. n - 1 : w[k] # "'"
    BY <1>2, <2>1, LenProperties DEF IsQuoted
  <2>3. u = Text(w, 2, n)
    <3>1. 1 + 1 = 2
      OBVIOUS
    <3> QED
      BY <1>2, <2>1, <3>1 DEF Interior, Text
  <2>4. 2 \in Positions(w) /\ n \in 2 .. Len(w) + 1
    BY <2>1, <2>2 DEF Positions
  <2>5. Len(u) = n - 2 /\ \A k \in 1 .. n - 2 : u[k] = w[2 + k - 1]
    <3>1. Len(Text(w, 2, n)) = n - 2 /\ \A k \in 1 .. n - 2 : Text(w, 2, n)[k] = w[2 + k - 1]
      BY <2>4, TextIs
    <3> QED
      BY <2>3, <3>1
  <2>6. \A k \in 1 .. n - 2 : 2 + k - 1 \in 2 .. n - 1
    BY <2>2
  <2> QED
    BY <2>2, <2>5, <2>6 DEF NoQuote
<1> QED
  BY <1>1, <1>2

\* A word with one character more behind it.
LEMMA FollowedIs ==
  ASSUME NEW w \in Seq(Characters), NEW b \in Characters
  PROVE  LET s == w \o <<b>>
         IN  /\ s \in Seq(Characters) /\ Len(s) = Len(w) + 1 /\ Len(w) \in Nat
             /\ \A k \in 1 .. Len(w) : Char(s, k) = w[k]
             /\ Char(s, Len(w) + 1) = b
             /\ 1 \in Positions(s)
<1>1. PICK s : s = w \o <<b>>
  OBVIOUS
<1>2. s = Append(w, b)
  BY <1>1, AppendIsConcat
<1>3. /\ s \in Seq(Characters) /\ Len(s) = Len(w) + 1
      /\ \A k \in 1 .. Len(w) : s[k] = w[k]
      /\ s[Len(w) + 1] = b
  BY <1>2, AppendProperties
<1>4. Len(w) \in Nat
  BY LenProperties
<1>5. Len(w) + 1 <= Len(s) /\ \A k \in 1 .. Len(w) : k <= Len(s)
  BY <1>3, <1>4
<1>6. 1 \in Positions(s)
  BY <1>3, <1>4 DEF Positions
<1>7. (\A k \in 1 .. Len(w) : Char(s, k) = w[k]) /\ Char(s, Len(w) + 1) = b
  BY <1>3, <1>4, <1>5 DEF Char
<1> QED
  BY <1>3, <1>4, <1>6, <1>1, <1>7

\* A word that stands in a text is what is cut out of it there.
LEMMA CutOut ==
  ASSUME NEW s \in Seq(Characters), NEW u \in Seq(Characters), NEW i \in Nat \ {0},
         NEW j, j = i + Len(u), j <= Len(s) + 1,
         \A k \in 1 .. Len(u) : Char(s, i + k - 1) = u[k]
  PROVE  Text(s, i, j) = u
<1>2. Len(u) \in Nat /\ Len(s) \in Nat /\ i \in Positions(s) /\ j \in i .. Len(s) + 1 /\ j - i = Len(u)
  BY LenProperties DEF Positions
<1>3. PICK v : v = Text(s, i, j)
  OBVIOUS
<1>4. /\ v \in Seq(Characters) /\ Len(v) = j - i
      /\ \A k \in 1 .. j - i : v[k] = Char(s, i + k - 1)
  <2>1. /\ Text(s, i, j) \in Seq(Characters) /\ Len(Text(s, i, j)) = j - i
        /\ \A k \in 1 .. j - i : Text(s, i, j)[k] = s[i + k - 1] /\ Char(s, i + k - 1) = s[i + k - 1]
    BY <1>2, TextIs
  <2> QED
    BY <1>3, <2>1
<1>5. v = u
  <2>1. \A k \in 1 .. Len(v) : v[k] = u[k]
    BY <1>2, <1>4
  <2> QED
    BY <1>2, <1>4, <2>1, SeqEqual
<1> QED
  BY <1>3, <1>5

LEMMA SpacesAre ==
  \A b \in Spaces : b \in Characters \ (Letters \cup Digits \cup {"/", "*", ".", "q", "'", "?", "end"})
BY Zenon DEF Spaces, Characters, Letters, Digits

\* A name that needs no quotes.
LEMMA WordSurvives ==
  ASSUME NEW w \in Seq(Characters), isBareIdentifier(w), NEW b \in Spaces,
         NEW t, t = TokenAt(w \o <<b>>, 1)
  PROVE  /\ t.type = IF w \in Keywords THEN "doc" ELSE "id"
         /\ t.lexeme = w /\ t.next = Len(w) + 1
<1>1. PICK s : s = w \o <<b>>
  OBVIOUS
<1>2. b \in Characters /\ b \notin Letters \cup Digits
  BY SpacesAre
<1>3. /\ s \in Seq(Characters) /\ Len(s) = Len(w) + 1 /\ Len(w) \in Nat
      /\ \A k \in 1 .. Len(w) : Char(s, k) = w[k]
      /\ Char(s, Len(w) + 1) = b
      /\ 1 \in Positions(s)
  <2>1. b \in Characters
    BY <1>2
  <2> QED
    BY <1>1, <2>1, FollowedIs
<1>4. /\ Len(w) >= 1 /\ \A k \in 1 .. Len(w) : w[k] \in Letters \cup Digits
      /\ w[1] \in Letters
  BY <1>3, EmptySeq, LenProperties DEF isBareIdentifier, AllIn
<1>5. Char(s, 1) \in Letters
  BY <1>3, <1>4
<1>6. t = identifier(s, 1)
  BY <1>1, <1>5, TokenIs
<1>7. /\ t.next \in 1 + 1 .. Len(s) + 1
      /\ t.lexeme = Text(s, 1, t.next)
      /\ t.type = IF t.lexeme \in Keywords THEN "doc" ELSE "id"
      /\ \A k \in 1 .. t.next - 1 : Char(s, k) \in Letters \cup Digits
      /\ Char(s, t.next) \notin Letters \cup Digits
  BY <1>3, <1>5, <1>6, IdentifierIs
<1>8. t.next = Len(w) + 1
  <2>1. ~ (t.next <= Len(w))
    BY <1>2, <1>3, <1>4, <1>7
  <2>2. ~ (t.next >= Len(w) + 2)
    BY <1>2, <1>3, <1>4, <1>7
  <2> QED
    BY <1>3, <1>7, <2>1, <2>2
<1>9. Text(s, 1, t.next) = w
  <2>1. t.next = 1 + Len(w) /\ t.next <= Len(s) + 1 /\ \A k \in 1 .. Len(w) : 1 + k - 1 = k
    BY <1>3, <1>8
  <2>2. \A k \in 1 .. Len(w) : Char(s, 1 + k - 1) = w[k]
    BY <1>3, <2>1
  <2>3. s \in Seq(Characters)
    BY <1>3
  <2> QED
    BY <2>1, <2>2, <2>3, CutOut
<1> QED
  BY <1>7, <1>8, <1>9

\* A name in quotes.
LEMMA QuotedSurvives ==
  ASSUME NEW u \in Seq(Characters), NoQuote(u), u # <<>>, ~ isBareIdentifier(u),
         NEW w, w = emitToken(u), NEW b \in Spaces, NEW t, t = TokenAt(w \o <<b>>, 1)
  PROVE  t.type = "id" /\ t.lexeme = u /\ t.next = Len(w) + 1
<1>1. PICK s : s = w \o <<b>>
  OBVIOUS
<1>2. b \in Characters /\ "'" \in Characters
  BY SpacesAre DEF Characters
<1>3. PICK a : a = <<"'">>
  OBVIOUS
<1>4. a \in Seq(Characters) /\ Len(a) = 1 /\ a[1] = "'"
  BY <1>2, <1>3
<1>5. /\ w \in Seq(Characters) /\ Len(w) = Len(u) + 2 /\ Len(u) \in Nat
      /\ w[1] = "'" /\ w[Len(u) + 2] = "'"
      /\ \A k \in 1 .. Len(u) : w[1 + k] = u[k]
  <2>1. w = a \o u \o a
    BY <1>3 DEF emitToken
  <2>2. /\ w \in Seq(Characters) /\ Len(w) = Len(a) + Len(u) + Len(a) /\ Len(u) \in Nat
        /\ \A k \in 1 .. Len(a) : w[k] = a[k]
        /\ \A k \in 1 .. Len(u) : w[Len(a) + k] = u[k]
        /\ \A k \in 1 .. Len(a) : w[Len(a) + Len(u) + k] = a[k]
    <3>1. a \in Seq(Characters)
      BY <1>4
    <3> QED
      BY <2>1, <3>1, WrappedIs
  <2>3. 1 \in 1 .. Len(a) /\ Len(a) + Len(u) + 1 = Len(u) + 2 /\ Len(a) + Len(u) + Len(a) = Len(u) + 2
    BY <1>4, <2>2
  <2>4. w[1] = "'" /\ w[Len(u) + 2] = "'"
    BY <1>4, <2>2, <2>3
  <2> QED
    BY <1>4, <2>2, <2>3, <2>4
<1>6. /\ s \in Seq(Characters) /\ Len(s) = Len(w) + 1
      /\ \A k \in 1 .. Len(w) : Char(s, k) = w[k]
      /\ 1 \in Positions(s)
  <2>1. b \in Characters /\ w \in Seq(Characters)
    BY <1>2, <1>5
  <2> QED
    BY <1>1, <2>1, FollowedIs
<1>7. /\ Char(s, 1) = "'" /\ Char(s, Len(u) + 2) = "'"
      /\ \A k \in 1 .. Len(u) : Char(s, 1 + k) = u[k] /\ Char(s, 2 + k - 1) = u[k]
  <2>1. /\ 1 \in 1 .. Len(w) /\ Len(u) + 2 \in 1 .. Len(w)
        /\ \A k \in 1 .. Len(u) : 1 + k \in 1 .. Len(w) /\ 2 + k - 1 = 1 + k
    BY <1>5
  <2> QED
    BY <1>5, <1>6, <2>1
<1>8. t = quotedName(s, 1)
  BY <1>1, <1>7, TokenIs
<1>9. \/ /\ t = Error(Len(s) + 1)
         /\ \A k \in 1 + 1 .. Len(s) : Char(s, k) # "'"
      \/ /\ t.next \in 1 + 2 .. Len(s) + 1
         /\ t.type = "id" /\ t.lexeme = Text(s, 1 + 1, t.next - 1)
         /\ Char(s, t.next - 1) = "'"
         /\ \A k \in 1 + 1 .. t.next - 2 : Char(s, k) # "'"
  BY <1>6, <1>7, <1>8, QuotedNameIs
<1>10. Len(u) + 2 \in 1 + 1 .. Len(s)
  BY <1>5, <1>6
<1>11. /\ t.next \in 3 .. Len(s) + 1 /\ Char(s, t.next - 1) = "'"
       /\ \A k \in 2 .. t.next - 2 : Char(s, k) # "'"
       /\ t.type = "id" /\ t.lexeme = Text(s, 2, t.next - 1)
  <2>1. ~ \A k \in 1 + 1 .. Len(s) : Char(s, k) # "'"
    BY <1>7, <1>10
  <2>2. 1 + 1 = 2 /\ 1 + 2 = 3
    OBVIOUS
  <2> QED
    BY <1>9, <2>1, <2>2
<1>12. t.next = Len(u) + 3
  <2>1. ~ (t.next > Len(u) + 3)
    <3>1. t.next > Len(u) + 3 => Len(u) + 2 \in 2 .. t.next - 2
      BY <1>5, <1>6, <1>11
    <3> QED
      BY <1>7, <1>11, <3>1
  <2>2. ~ (t.next < Len(u) + 3)
    <3>1. ASSUME t.next < Len(u) + 3 PROVE t.next - 2 \in 1 .. Len(u) /\ 1 + (t.next - 2) = t.next - 1
      BY <1>5, <1>6, <1>11, <3>1
    <3>2. ASSUME t.next < Len(u) + 3 PROVE u[t.next - 2] = "'"
      BY <1>7, <1>11, <3>1, <3>2
    <3> QED
      BY <3>1, <3>2 DEF NoQuote
  <2> QED
    BY <1>5, <1>6, <1>11, <2>1, <2>2
<1>13. Text(s, 2, t.next - 1) = u
  <2>1. t.next - 1 = 2 + Len(u) /\ t.next - 1 <= Len(s) + 1
    BY <1>5, <1>6, <1>12
  <2>2. s \in Seq(Characters)
    BY <1>6
  <2>3. \A k \in 1 .. Len(u) : Char(s, 2 + k - 1) = u[k]
    BY <1>7
  <2> QED
    BY <2>1, <2>2, <2>3, CutOut
<1>14. t.next = Len(w) + 1
  BY <1>5, <1>12
<1> QED
  BY <1>11, <1>13, <1>14

\* The body of a doc.
LEMMA DocSurvives ==
  ASSUME NEW u \in Seq(Characters), NoClose(u), NEW w, w = emitDoc(u),
         NEW b \in Spaces, NEW t, t = TokenAt(w \o <<b>>, 1)
  PROVE  IF Len(u) >= 1 /\ u[1] = "/" THEN t.type # "docBody"
         ELSE t.type = "docBody" /\ t.lexeme = u /\ t.next = Len(w) + 1
<1>1. PICK s : s = w \o <<b>>
  OBVIOUS
<1>2. b \in Characters /\ "/" \in Characters /\ "*" \in Characters
  BY SpacesAre DEF Characters
<1>3. PICK a : a = <<"/", "*", "*">>
  OBVIOUS
<1>4. PICK z : z = <<"*", "/">>
  OBVIOUS
<1>5. PICK m : m = Len(u) + 4
  OBVIOUS
<1>6. /\ w \in Seq(Characters) /\ Len(w) = m + 1 /\ Len(u) \in Nat /\ m \in Nat
      /\ w[1] = "/" /\ w[2] = "*" /\ w[3] = "*" /\ w[m] = "*" /\ w[m + 1] = "/"
      /\ \A k \in 1 .. Len(u) : w[3 + k] = u[k]
  <2>1. w = a \o u \o z
    BY <1>3, <1>4 DEF emitDoc
  <2>2. /\ a \in Seq(Characters) /\ Len(a) = 3 /\ a[1] = "/" /\ a[2] = "*" /\ a[3] = "*"
        /\ z \in Seq(Characters) /\ Len(z) = 2 /\ z[1] = "*" /\ z[2] = "/"
    BY <1>2, <1>3, <1>4
  <2>3. /\ w \in Seq(Characters) /\ Len(w) = Len(a) + Len(u) + Len(z) /\ Len(u) \in Nat
        /\ \A k \in 1 .. Len(a) : w[k] = a[k]
        /\ \A k \in 1 .. Len(u) : w[Len(a) + k] = u[k]
        /\ \A k \in 1 .. Len(z) : w[Len(a) + Len(u) + k] = z[k]
    <3>1. a \in Seq(Characters) /\ z \in Seq(Characters)
      BY <2>2
    <3> QED
      BY <2>1, <3>1, WrappedIs
  <2>4. /\ 1 \in 1 .. 3 /\ 2 \in 1 .. 3 /\ 3 \in 1 .. 3 /\ 1 \in 1 .. 2 /\ 2 \in 1 .. 2
        /\ 3 + Len(u) + 1 = m /\ 3 + Len(u) + 2 = m + 1 /\ m \in Nat
    BY <1>5, <2>3
  <2>5. w[1] = "/" /\ w[2] = "*" /\ w[3] = "*"
    BY <2>2, <2>3, <2>4
  <2>6. w[m] = "*" /\ w[m + 1] = "/" /\ Len(w) = m + 1
    BY <2>2, <2>3, <2>4
  <2> QED
    BY <2>2, <2>3, <2>4, <2>5, <2>6
<1>7. /\ s \in Seq(Characters) /\ Len(s) = Len(w) + 1
      /\ \A k \in 1 .. Len(w) : Char(s, k) = w[k]
      /\ 1 \in Positions(s)
  <2>1. b \in Characters /\ w \in Seq(Characters)
    BY <1>2, <1>6
  <2> QED
    BY <1>1, <2>1, FollowedIs
<1>8. /\ Char(s, 1) = "/" /\ Char(s, 2) = "*" /\ Char(s, 3) = "*"
      /\ Char(s, m) = "*" /\ Char(s, m + 1) = "/"
  <2>1. {1, 2, 3, m, m + 1} \subseteq 1 .. Len(w)
    BY <1>5, <1>6
  <2> QED
    BY <1>6, <1>7, <2>1
<1>9. \A k \in 1 .. Len(u) : Char(s, 3 + k) = u[k] /\ Char(s, 4 + k - 1) = u[k]
  <2>1. \A k \in 1 .. Len(u) : 3 + k \in 1 .. Len(w) /\ 4 + k - 1 = 3 + k
    BY <1>5, <1>6
  <2> QED
    BY <1>6, <1>7, <2>1
<1>10. Char(s, 4) = IF Len(u) >= 1 THEN u[1] ELSE "*"
  <2>1. Len(u) >= 1 => 1 \in 1 .. Len(u) /\ 3 + 1 = 4
    BY <1>6
  <2>2. ~ (Len(u) >= 1) => m = 4
    BY <1>5, <1>6
  <2> QED
    BY <1>8, <1>9, <2>1, <2>2
<1>11. DocOpens(s, 1) <=> ~ (Len(u) >= 1 /\ u[1] = "/")
  <2>1. At(s, 1, <<"/", "*", "*">>)
    BY <1>8, AtThree
  <2>2. 1 + 3 = 4
    OBVIOUS
  <2> QED
    BY <1>10, <2>1, <2>2 DEF DocOpens
<1>12. CASE Len(u) >= 1 /\ u[1] = "/"
  <2>1. Char(s, 1) \notin {"end", "q", "'"} \cup Letters \cup Digits /\ Char(s, 1) # "."
    BY <1>8 DEF Letters, Digits
  <2>2. t = punctuation(s, 1)
    BY <1>1, <1>11, <1>12, <2>1, TokenIs
  <2>3. t.type \in {"punctuation", "error"}
    BY <2>2 DEF punctuation, Error, Scanned
  <2> QED
    BY <1>12, <2>3
<1>13. CASE ~ (Len(u) >= 1 /\ u[1] = "/")
  <2>1. t = captureCommentInterior(s, 4)
    <3>1. 1 + 3 = 4 /\ 1 \in Nat
      OBVIOUS
    <3>2. TokenAt(s, 1) = captureCommentInterior(s, 1 + 3)
      BY <1>11, <1>13, <3>1, TokenIs
    <3> QED
      BY <1>1, <3>1, <3>2
  <2>2. 4 \in Positions(s) /\ m \in 4 .. Len(s)
    BY <1>5, <1>6, <1>7 DEF Positions
  <2>3. \/ /\ t = Error(Len(s) + 1)
           /\ \A k \in 4 .. Len(s) : ~ At(s, k, <<"*", "/">>)
        \/ /\ t.next \in 4 + 2 .. Len(s) + 1
           /\ t.type = "docBody" /\ t.lexeme = Text(s, 4, t.next - 2)
           /\ At(s, t.next - 2, <<"*", "/">>)
           /\ \A k \in 4 .. t.next - 3 : ~ At(s, k, <<"*", "/">>)
    BY <1>7, <2>1, <2>2, CommentIs
  <2>4. At(s, m, <<"*", "/">>)
    BY <1>6, <1>8, AtTwo
  <2>5. /\ t.next \in 6 .. Len(s) + 1
        /\ t.type = "docBody" /\ t.lexeme = Text(s, 4, t.next - 2)
        /\ At(s, t.next - 2, <<"*", "/">>)
        /\ \A k \in 4 .. t.next - 3 : ~ At(s, k, <<"*", "/">>)
    <3>1. 4 + 2 = 6
      OBVIOUS
    <3> QED
      BY <2>2, <2>3, <2>4, <3>1
  <2>6. ASSUME NEW k \in 4 .. m - 1 PROVE ~ At(s, k, <<"*", "/">>)
    <3>1. PICK n : n = k - 3
      OBVIOUS
    <3>2. n \in 1 .. Len(u) /\ k = 3 + n /\ k \in Nat /\ k + 1 = 3 + (n + 1)
      BY <1>5, <1>6, <3>1
    <3>3. Char(s, k) = u[n]
      BY <1>9, <3>2
    <3>4. CASE n = Len(u)
      <4>1. k + 1 = m
        BY <1>5, <1>6, <3>2, <3>4
      <4>2. Char(s, k + 1) = "*" /\ k \in Nat
        BY <1>8, <3>2, <4>1
      <4>3. At(s, k, <<"*", "/">>) <=> Char(s, k) = "*" /\ Char(s, k + 1) = "/"
        BY <4>2, AtTwo
      <4> QED
        BY <4>2, <4>3
    <3>5. CASE n # Len(u)
      <4>1. n \in 1 .. Len(u) - 1 /\ n + 1 \in 1 .. Len(u)
        BY <1>6, <3>2, <3>5
      <4>2. Char(s, k + 1) = u[n + 1]
        BY <1>9, <3>2, <4>1
      <4>3. ~ (u[n] = "*" /\ u[n + 1] = "/")
        BY <4>1 DEF NoClose
      <4> QED
        BY <3>2, <3>3, <4>2, <4>3, AtTwo
    <3> QED
      BY <3>4, <3>5
  <2>7. t.next - 2 = m
    <3>1. PICK e : e = t.next - 2
      OBVIOUS
    <3>2. e \in 4 .. Len(s) - 1 /\ e - 1 = t.next - 3 /\ e \in Nat
      BY <1>6, <1>7, <2>5, <3>1
    <3>3. At(s, e, <<"*", "/">>) /\ \A k \in 4 .. e - 1 : ~ At(s, k, <<"*", "/">>)
      BY <2>5, <3>1, <3>2
    <3>4. ~ (m < e)
      <4>1. m < e => m \in 4 .. e - 1
        BY <1>6, <2>2, <3>2
      <4> QED
        BY <2>4, <3>3, <4>1
    <3>5. ~ (e < m)
      <4>1. e < m => e \in 4 .. m - 1
        BY <1>6, <3>2
      <4> QED
        BY <2>6, <3>3, <4>1
    <3> QED
      BY <1>6, <3>1, <3>2, <3>4, <3>5
  <2>8. Text(s, 4, t.next - 2) = u
    <3>1. t.next - 2 = 4 + Len(u) /\ t.next - 2 <= Len(s) + 1
      BY <1>5, <1>6, <1>7, <2>7
    <3>2. s \in Seq(Characters) /\ \A k \in 1 .. Len(u) : Char(s, 4 + k - 1) = u[k]
      BY <1>7, <1>9
    <3> QED
      BY <3>1, <3>2, CutOut
  <2>9. t.next = Len(w) + 1
    BY <1>6, <1>7, <2>5, <2>7
  <2> QED
    BY <1>13, <2>5, <2>8, <2>9
<1> QED
  BY <1>12, <1>13

\* The body of a comment.
LEMMA CommentSurvives ==
  ASSUME NEW u \in Seq(Characters), NoClose(u), Len(u) >= 1 => u[1] # "*",
         NEW w, w = emitComment(u)
  PROVE  Spells(w, "blockComment", u)
<1>1. "/" \in Characters /\ "*" \in Characters
  BY DEF Characters
<1>2. PICK a : a = <<"/", "*">>
  OBVIOUS
<1>3. PICK z : z = <<"*", "/">>
  OBVIOUS
<1>4. PICK n : n = Len(u) + 4
  OBVIOUS
<1>5. /\ w \in Seq(Characters) /\ Len(w) = n /\ Len(u) \in Nat /\ n \in Nat
      /\ w[1] = "/" /\ w[2] = "*" /\ w[n - 1] = "*" /\ w[n] = "/"
      /\ \A k \in 1 .. Len(u) : w[2 + k] = u[k]
  <2>1. w = a \o u \o z
    BY <1>2, <1>3 DEF emitComment
  <2>2. /\ a \in Seq(Characters) /\ Len(a) = 2 /\ a[1] = "/" /\ a[2] = "*"
        /\ z \in Seq(Characters) /\ Len(z) = 2 /\ z[1] = "*" /\ z[2] = "/"
    BY <1>1, <1>2, <1>3
  <2>3. /\ w \in Seq(Characters) /\ Len(w) = Len(a) + Len(u) + Len(z) /\ Len(u) \in Nat
        /\ \A k \in 1 .. Len(a) : w[k] = a[k]
        /\ \A k \in 1 .. Len(u) : w[Len(a) + k] = u[k]
        /\ \A k \in 1 .. Len(z) : w[Len(a) + Len(u) + k] = z[k]
    <3>1. a \in Seq(Characters) /\ z \in Seq(Characters)
      BY <2>2
    <3> QED
      BY <2>1, <3>1, WrappedIs
  <2>4. /\ 1 \in 1 .. 2 /\ 2 \in 1 .. 2
        /\ 2 + Len(u) + 1 = n - 1 /\ 2 + Len(u) + 2 = n /\ n \in Nat
    BY <1>4, <2>3
  <2>5. w[1] = "/" /\ w[2] = "*"
    BY <2>2, <2>3, <2>4
  <2>6. w[n - 1] = "*" /\ w[n] = "/" /\ Len(w) = n
    BY <2>2, <2>3, <2>4
  <2> QED
    BY <2>2, <2>3, <2>4, <2>5, <2>6
<1>6. \A k \in 1 .. n : Char(w, k) = w[k]
  BY <1>5 DEF Char
<1>7. /\ Char(w, 1) = "/" /\ Char(w, 2) = "*" /\ Char(w, n - 1) = "*" /\ Char(w, n) = "/"
      /\ \A k \in 1 .. Len(u) : Char(w, 2 + k) = u[k] /\ Char(w, 3 + k - 1) = u[k]
  <2>1. /\ {1, 2, n - 1, n} \subseteq 1 .. n
        /\ \A k \in 1 .. Len(u) : 2 + k \in 1 .. n /\ 3 + k - 1 = 2 + k
    BY <1>4, <1>5
  <2> QED
    BY <1>5, <1>6, <2>1
<1>8. ASSUME NEW k \in 3 .. n - 2 PROVE ~ At(w, k, <<"*", "/">>)
  <2>1. PICK j : j = k - 2
    OBVIOUS
  <2>2. j \in 1 .. Len(u) /\ k = 2 + j /\ k \in Nat /\ k + 1 = 2 + (j + 1)
    BY <1>4, <1>5, <2>1
  <2>3. Char(w, k) = u[j]
    BY <1>7, <2>2
  <2>4. CASE j = Len(u)
    <3>1. k + 1 = n - 1
      BY <1>4, <1>5, <2>2, <2>4
    <3> QED
      BY <1>7, <2>2, <3>1, AtTwo
  <2>5. CASE j # Len(u)
    <3>1. j \in 1 .. Len(u) - 1 /\ j + 1 \in 1 .. Len(u)
      BY <1>5, <2>2, <2>5
    <3>2. Char(w, k + 1) = u[j + 1]
      BY <1>7, <2>2, <3>1
    <3>3. ~ (u[j] = "*" /\ u[j + 1] = "/")
      BY <3>1 DEF NoClose
    <3> QED
      BY <2>2, <2>3, <3>2, <3>3, AtTwo
  <2> QED
    BY <2>4, <2>5
<1>9. IsComment(w)
  <2>1. At(w, 1, <<"/", "*">>)
    BY <1>7, AtTwo
  <2>2. n - 1 \in Nat /\ n - 1 + 1 = n /\ n >= 4
    BY <1>4, <1>5
  <2>3. At(w, Len(w) - 1, <<"*", "/">>)
    BY <1>5, <1>7, <2>2, AtTwo
  <2> QED
    BY <1>5, <1>8, <2>1, <2>2, <2>3 DEF IsComment
<1>10. Len(w) = 4 \/ w[3] # "*"
  <2>1. Len(u) = 0 \/ (Len(u) >= 1 /\ 1 \in 1 .. Len(u) /\ 2 + 1 = 3)
    BY <1>5
  <2> QED
    BY <1>4, <1>5, <2>1
<1>11. u = Interior(w, 2)
  <2>1. n - 1 = 3 + Len(u) /\ n - 1 <= Len(w) + 1 /\ n - 1 - 1 = n - 2 /\ 2 + 1 = 3
    BY <1>4, <1>5
  <2>2. w \in Seq(Characters) /\ \A k \in 1 .. Len(u) : Char(w, 3 + k - 1) = u[k]
    BY <1>5, <1>7
  <2>3. Text(w, 3, n - 1) = u
    BY <2>1, <2>2, CutOut
  <2> QED
    BY <1>5, <2>1, <2>3 DEF Interior, Text
<1> QED
  BY <1>9, <1>10, <1>11 DEF Spells

\* A piece lies in the text, and scanToken() alone keeps a comment.
InPlace(p) ==
  /\ p.from \in Positions(text) /\ p.next \in p.from .. Len(text) + 1
  /\ p.type = "blockComment" => p.by = "scanToken"

PiecesInPlace == \A k \in DOMAIN pieces : InPlace(pieces[k])

LEMMA PiecesLie == Spec => []PiecesInPlace
<1>1. Init => PiecesInPlace
  BY DEF Init, PiecesInPlace
<1>2. TypeOK /\ PiecesInPlace /\ [Next]_vars => PiecesInPlace'
  <2> SUFFICES ASSUME TypeOK, PiecesInPlace, [Next]_vars PROVE PiecesInPlace'
    OBVIOUS
  <2>1. CASE text' = text /\ pieces' = pieces
    BY <2>1 DEF PiecesInPlace, InPlace, Positions
  <2>2. CASE Reads
    <3>1. PICK p : \E n \in Nat \ {0} : Grows(p, n)
      BY <2>2, ReadsGrows
    <3>2. PICK n \in Nat \ {0} : Grows(p, n)
      BY <3>1
    <3>3. /\ text' = text /\ p.next \in Positions(text) /\ current <= p.next
          /\ DOMAIN pieces = 1 .. n - 1 /\ DOMAIN pieces' = 1 .. n
          /\ \A k \in 1 .. n - 1 : pieces'[k] = pieces[k]
          /\ pieces'[n].type = p.type /\ pieces'[n].by = caller
          /\ pieces'[n].from = current /\ pieces'[n].next = p.next
          /\ caller \in {"scanToken", "scanDocBody"}
      BY <3>2 DEF Grows
    <3>4. p.type = "blockComment" => caller = "scanToken"
      BY <3>2 DEF Grows, Skips, Keeps, Drops, Gives, GivesBody, Found
    <3>5. current \in Positions(text) /\ p.next \in current .. Len(text) + 1
      <4>1. Len(text) \in Nat
        BY TextsAssumption, LenProperties DEF TypeOK
      <4> QED
        BY <3>3, <4>1 DEF TypeOK, Positions
    <3>6. ASSUME NEW k \in DOMAIN pieces' PROVE InPlace(pieces[k])'
      <4>1. CASE k = n
        BY <3>3, <3>4, <3>5, <4>1 DEF InPlace, Positions
      <4>2. CASE k # n
        <5>1. k \in DOMAIN pieces /\ pieces'[k] = pieces[k]
          BY <3>3, <4>2
        <5>2. InPlace(pieces[k])
          BY <5>1 DEF PiecesInPlace
        <5> QED
          BY <3>3, <5>1, <5>2 DEF InPlace, Positions
      <4> QED
        BY <4>1, <4>2
    <3> QED
      BY <3>6 DEF PiecesInPlace
  <2>3. CASE Advance \/ TakeLastBlockComment
    BY <2>1, <2>3 DEF Advance, TakeLastBlockComment
  <2> QED
    BY <2>1, <2>2, <2>3, StepIs DEF vars
<1> QED
  BY <1>1, <1>2, TypeCorrect, PTL DEF Spec

\* What the piece of a name, of a doc and of a comment keeps, whoever read it.
LEMMA WhatIsKept ==
  ASSUME TypeOK, PiecesInPlace, LongestPieces, DocHasItsBody,
         NEW i \in DOMAIN pieces, NEW p, p = pieces[i]
  PROVE  /\ p.lexeme \in Seq(Characters)
         /\ p.type = "id" => NoQuote(p.lexeme)
         /\ p.type = "docBody" => NoClose(p.lexeme)
         /\ p.type = "blockComment" => /\ NoClose(p.lexeme)
                                       /\ Len(p.lexeme) >= 1 => p.lexeme[1] # "*"
<1>0. text \in Seq(Characters)
  BY TextsAssumption DEF TypeOK
<1>1. InPlace(p)
  BY DEF PiecesInPlace
<1>2. PICK w : w = Text(text, p.from, p.next)
  OBVIOUS
<1>3. w \in Seq(Characters)
  <2>1. PICK a : a = p.from
    OBVIOUS
  <2>2. PICK z : z = p.next
    OBVIOUS
  <2>3. a \in Positions(text) /\ z \in a .. Len(text) + 1
    BY <1>1, <2>1, <2>2 DEF InPlace
  <2>4. Text(text, a, z) \in Seq(Characters)
    BY <1>0, <2>3, TextIs
  <2> QED
    BY <1>2, <2>1, <2>2, <2>4
<1>4. p.lexeme \in Seq(Characters) /\ p.by \in {"scanToken", "scanDocBody"}
  <2>1. p \in Piece
    BY ElementOfSeq, LenProperties DEF TypeOK
  <2> QED
    BY <2>1 DEF Piece
<1>5. CASE p.by = "scanToken"
  <2>1. IF p.type = "eof" THEN p.from = Len(text) + 1
        ELSE IF IsOpen(p.from)
        THEN /\ p.next = Len(text) + 1 /\ p.lexeme = <<>>
             /\ p.type = IF At(text, p.from, <<"/", "*">>) /\ ~ DocOpens(text, p.from)
                         THEN "blockComment" ELSE "error"
        ELSE IF p.type = "error" THEN w = <<"?">>
        ELSE Spells(w, p.type, p.lexeme)
    BY <1>2, <1>5, Zenon DEF LongestPieces
  <2>2. CASE p.lexeme = <<>> /\ p.type \in {"blockComment", "error"}
    <3>1. Len(p.lexeme) = 0 /\ \A k : k \notin 1 .. 0 - 1
      BY <2>2
    <3> QED
      BY <1>4, <2>2, <3>1 DEF NoClose
  <2>3. CASE p.type \in {"id", "docBody", "blockComment"} /\ Spells(w, p.type, p.lexeme)
    <3>1. CASE p.type = "id"
      <4>1. \/ IsWord(w) /\ p.lexeme = w
            \/ IsQuoted(w, "'") /\ p.lexeme = Interior(w, 1)
        BY <2>3, <3>1 DEF Spells
      <4> QED
        BY <1>3, <1>4, <3>1, <4>1, NameKeeps
    <3>2. CASE p.type = "docBody"
      <4>1. IsComment(w) /\ w = <<"/", "*", "*">> \o p.lexeme \o <<"*", "/">>
        BY <2>3, <3>2 DEF Spells
      <4> QED
        BY <1>4, <3>2, <4>1, DocKeeps
    <3>3. CASE p.type = "blockComment"
      <4>1. IsComment(w) /\ (Len(w) = 4 \/ w[3] # "*") /\ p.lexeme = Interior(w, 2)
        BY <2>3, <3>3 DEF Spells
      <4>2. /\ NoClose(p.lexeme) /\ Len(p.lexeme) = Len(w) - 4
            /\ \A k \in 1 .. Len(w) - 4 : p.lexeme[k] = w[k + 2]
        BY <1>3, <4>1, CommentKeeps
      <4>3. Len(p.lexeme) >= 1 => Len(w) # 4 /\ 1 \in 1 .. Len(w) - 4 /\ 1 + 2 = 3
        <5>1. Len(w) \in Nat
          BY <1>3, LenProperties
        <5> QED
          BY <4>2, <5>1
      <4> QED
        BY <1>4, <3>3, <4>1, <4>2, <4>3
    <3> QED
      BY <2>3, <3>1, <3>2, <3>3
  <2> QED
    BY <1>4, <2>1, <2>2, <2>3
<1>6. CASE p.by = "scanDocBody"
  <2>1. p.type # "blockComment"
    BY <1>1, <1>6 DEF InPlace
  <2>2. CASE p.type \in {"id", "docBody"}
    <3>1. i \in Tokens
      BY <1>6, <2>2 DEF Tokens, IsCurrent, Trivia
    <3>2. p.type = "docBody" => /\ IsComment(w)
                                /\ p.lexeme = IF At(Interior(w, 2), 1, <<"*">>)
                                              THEN Tail(Interior(w, 2)) ELSE Interior(w, 2)
      BY <1>2, <1>6, <3>1 DEF DocHasItsBody
    <3>3. p.type = "docBody"
      BY <1>6, <2>2, <3>1 DEF DocHasItsBody
    <3>4. PICK u : u = Interior(w, 2)
      OBVIOUS
    <3>5. u \in Seq(Characters) /\ NoClose(u)
      BY <1>3, <3>2, <3>3, <3>4, CommentKeeps
    <3>6. CASE p.lexeme = Tail(u) /\ At(u, 1, <<"*">>)
      <4>1. Char(u, 1) = "*"
        <5>1. 1 \in DOMAIN <<"*">> /\ <<"*">>[1] = "*" /\ 1 + 1 - 1 = 1
          OBVIOUS
        <5> QED
          BY <3>6, <5>1 DEF At
      <4>2. Len(u) >= 1
        BY <3>5, <4>1, LenProperties DEF Char
      <4>3. u # <<>>
        BY <4>2
      <4> QED
        BY <1>4, <3>3, <3>5, <3>6, <4>3, TailKeeps
    <3>7. CASE p.lexeme = u
      BY <1>4, <3>3, <3>5, <3>7
    <3> QED
      BY <3>2, <3>3, <3>4, <3>6, <3>7
  <2> QED
    BY <1>4, <2>1, <2>2
<1> QED
  BY <1>4, <1>5, <1>6

\* What is printed, w, is scanned again as a token of this type, whose lexeme is
\* u, if the character b is behind it.
IsFetched(w, b, type, u) ==
  LET t == TokenAt(w \o <<b>>, 1)
  IN  t.type = type /\ t.lexeme = u /\ t.next = Len(w) + 1

LEMMA NameSurvives ==
  ASSUME NEW u \in Seq(Characters), NoQuote(u), NEW b \in Spaces
  PROVE  IsFetched(emitToken(u), b, "id", u) <=> u \notin Keywords \cup {<<>>}
<1>1. PICK w : w = emitToken(u)
  OBVIOUS
<1>2. PICK t : t = TokenAt(w \o <<b>>, 1)
  OBVIOUS
<1>3. IsFetched(w, b, "id", u) <=> t.type = "id" /\ t.lexeme = u /\ t.next = Len(w) + 1
  BY <1>2 DEF IsFetched
<1>4. b \in Characters /\ b \notin {"end", "q", "'", "."} \cup Letters \cup Digits /\ b # "/"
  BY SpacesAre
<1>5. CASE u = <<>>
  <2>1. w = <<>>
    BY <1>1, <1>5 DEF emitToken
  <2>2. w \in Seq(Characters) /\ Len(w) = 0
    BY <2>1, EmptySeq
  <2>3. PICK s : s = w \o <<b>>
    OBVIOUS
  <2>4. Char(s, Len(w) + 1) = b
    <3>1. b \in Characters
      BY <1>4
    <3> QED
      BY <2>2, <2>3, <3>1, FollowedIs
  <2>5. Char(s, 1) = b
    BY <2>2, <2>4
  <2>6. ~ DocOpens(s, 1)
    BY <1>4, <2>5, AtThree DEF DocOpens
  <2>7. t = punctuation(s, 1)
    BY <1>2, <1>4, <2>3, <2>5, <2>6, TokenIs
  <2>8. t.type \in {"punctuation", "error"}
    BY <2>7 DEF punctuation, Error, Scanned
  <2> QED
    BY <1>1, <1>3, <1>5, <2>8
<1>6. CASE u # <<>> /\ isBareIdentifier(u)
  <2>1. w = u
    BY <1>1, <1>6 DEF emitToken
  <2>2. /\ t.type = IF u \in Keywords THEN "doc" ELSE "id"
        /\ t.lexeme = u /\ t.next = Len(w) + 1
    BY <1>2, <1>6, <2>1, WordSurvives
  <2> QED
    BY <1>1, <1>3, <1>6, <2>2
<1>7. CASE u # <<>> /\ ~ isBareIdentifier(u)
  <2>1. t.type = "id" /\ t.lexeme = u /\ t.next = Len(w) + 1
    BY <1>1, <1>2, <1>7, QuotedSurvives
  <2>2. isBareIdentifier(<<"d", "o", "c">>)
    BY DEF isBareIdentifier, AllIn, Letters
  <2>3. u \notin Keywords
    BY <1>7, <2>2 DEF Keywords
  <2> QED
    BY <1>1, <1>3, <1>7, <2>1, <2>3
<1> QED
  BY <1>5, <1>6, <1>7

LEMMA BodySurvives ==
  ASSUME NEW u \in Seq(Characters), NoClose(u), NEW b \in Spaces
  PROVE  IsFetched(emitDoc(u), b, "docBody", u) <=> ~ At(u, 1, <<"/">>)
<1>1. PICK w : w = emitDoc(u)
  OBVIOUS
<1>2. PICK t : t = TokenAt(w \o <<b>>, 1)
  OBVIOUS
<1>3. IsFetched(w, b, "docBody", u) <=> t.type = "docBody" /\ t.lexeme = u /\ t.next = Len(w) + 1
  BY <1>2 DEF IsFetched
<1>4. IF Len(u) >= 1 /\ u[1] = "/" THEN t.type # "docBody"
      ELSE t.type = "docBody" /\ t.lexeme = u /\ t.next = Len(w) + 1
  BY <1>1, <1>2, DocSurvives
<1>5. At(u, 1, <<"/">>) <=> Len(u) >= 1 /\ u[1] = "/"
  <2>1. DOMAIN <<"/">> = {1} /\ <<"/">>[1] = "/" /\ 1 + 1 - 1 = 1
    OBVIOUS
  <2>2. At(u, 1, <<"/">>) <=> Char(u, 1) = "/"
    BY <2>1 DEF At
  <2> QED
    BY <2>2, LenProperties DEF Char
<1> QED
  BY <1>1, <1>3, <1>4, <1>5

----------------------------------------------------------------------------
(***************************************************************************)
(* With PiecesInPlace, what the grammar says of the pieces and what is     *)
(* known of the bodies of docs, nothing more is needed: that what is kept  *)
(* of a piece is found again is a fact about words.                        *)
(***************************************************************************)
\* A name, the body of a doc and that of a comment are found again in what the
\* printer writes of them, whatever characters they have; but for a name that is
\* empty or a keyword, and a body of a doc that begins with "/".
THEOREM EchoesAlwaysSurvive == Spec => []EchoesSurvive
<1>1. TypeOK /\ PiecesInPlace /\ LongestPieces /\ DocHasItsBody => EchoesSurvive
  <2> SUFFICES ASSUME TypeOK, PiecesInPlace, LongestPieces, DocHasItsBody PROVE EchoesSurvive
    OBVIOUS
  <2>1. \E b \in Spaces : b = " "
    BY Zenon DEF Spaces
  <2>2. PICK b \in Spaces : b = " "
    BY <2>1
  <2>3. ASSUME NEW i \in DOMAIN pieces, NEW u, u = pieces[i].lexeme
        PROVE  /\ pieces[i].type = "id" =>
                    (IsFetched(emitToken(u), b, "id", u) <=> u \notin Keywords \cup {<<>>})
               /\ pieces[i].type = "docBody" =>
                    (IsFetched(emitDoc(u), b, "docBody", u) <=> ~ At(u, 1, <<"/">>))
               /\ pieces[i].type = "blockComment" => Spells(emitComment(u), "blockComment", u)
    <3>1. /\ u \in Seq(Characters)
          /\ pieces[i].type = "id" => NoQuote(u)
          /\ pieces[i].type = "docBody" => NoClose(u)
          /\ pieces[i].type = "blockComment" => NoClose(u) /\ (Len(u) >= 1 => u[1] # "*")
      BY <2>3, WhatIsKept
    <3>2. CASE pieces[i].type = "id"
      BY <3>1, <3>2, NameSurvives
    <3>3. CASE pieces[i].type = "docBody"
      BY <3>1, <3>3, BodySurvives
    <3>4. CASE pieces[i].type = "blockComment"
      BY <3>1, <3>4, CommentSurvives
    <3> QED
      BY <3>2, <3>3, <3>4
  <2>4. \A i \in DOMAIN pieces :
          LET u == pieces[i].lexeme
          IN  /\ pieces[i].type = "id" =>
                    (IsFetched(emitToken(u), b, "id", u) <=> u \notin Keywords \cup {<<>>})
              /\ pieces[i].type = "docBody" =>
                    (IsFetched(emitDoc(u), b, "docBody", u) <=> ~ At(u, 1, <<"/">>))
              /\ pieces[i].type = "blockComment" => Spells(emitComment(u), "blockComment", u)
    BY <2>3
  <2> QED
    BY <2>2, <2>4, Zenon DEF EchoesSurvive, IsFetched
<1> QED
  BY <1>1, TypeCorrect, PiecesLie, PiecesAreAlwaysLongest, DocAlwaysHasItsBody, PTL
=============================================================================
