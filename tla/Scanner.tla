------------------------------ MODULE Scanner -------------------------------
(***************************************************************************)
(* The scanner (scanner.c), called by advance() of parser_common.c: which  *)
(* piece of the text becomes which token, what is skipped, which line a    *)
(* token is reported on, and the block comment that is kept for the        *)
(* parser.                                                                 *)
(*                                                                         *)
(* A text is a sequence of characters, of which one stands for all that    *)
(* the scanner does not tell apart: "x" for the letters, "1" for the       *)
(* digits, " " for the white space of a line, "nl" for its end, "(" for    *)
(* what is a token by itself, ">" for what only joins another character,   *)
(* "q" for the double quote, "?" for what no token begins with.  The one   *)
(* keyword is `doc`; "end" is the character behind the last.               *)
(***************************************************************************)
EXTENDS Integers, Sequences, FiniteSetsExt

CONSTANT Texts

Characters == {"d", "o", "c", "x", "1", " ", "nl", "(", "/", "*", ".", ":",
               ">", "=", "'", "q", "?"}

ASSUME TextsAssumption == Texts \subseteq Seq(Characters)

Letters  == {"d", "o", "c", "x"}
Digits   == {"1"}
Keywords == {<<"d", "o", "c">>}

-----------------------------------------------------------------------------
(* What stands in a text s from position i on *)

Char(s, i) == IF i <= Len(s) THEN s[i] ELSE "end"

At(s, i, w) == \A k \in DOMAIN w : Char(s, i + k - 1) = w[k]

Text(s, i, j) == SubSeq(s, i, j - 1)

\* The first position from i on that has a character of cs, or the end.
next(s, i, cs) == Min({k \in i .. Len(s) + 1 : Char(s, k) \in cs \cup {"end"}})

\* The first position from i on that has no character of cs.
behind(s, i, cs) == Min({k \in i .. Len(s) + 1 : Char(s, k) \notin cs})

\* Where the comment closes whose interior begins at i; behind the text if it
\* does not.
closing(s, i) == Min({k \in i .. Len(s) + 1 : At(s, k, <<"*", "/">>) \/ k = Len(s) + 1})

\* A token, or something skipped: what it is, what is kept of it, and the
\* position behind it.
Scanned(type, lexeme, i) == [type |-> type, lexeme |-> lexeme, next |-> i]

Error(i) == Scanned("error", <<>>, i)

identifier(s, i) ==
  LET end == behind(s, i, Letters \cup Digits)
  IN  Scanned(IF Text(s, i, end) \in Keywords THEN "doc" ELSE "id", Text(s, i, end), end)

\* Mistake: the point is taken before anything is known of what follows it.
numberPoint(s, i) ==
  LET whole == behind(s, i, Digits)
      end   == IF Char(s, whole) = "." THEN behind(s, whole + 1, Digits) ELSE whole
  IN  Scanned("number", Text(s, i, end), end)

\* A point belongs to a number if a digit follows it, also at its beginning.
number(s, i) ==
  LET whole == behind(s, i, Digits)
      end   == IF Char(s, whole) = "." /\ Char(s, whole + 1) \in Digits
               THEN behind(s, whole + 1, Digits) ELSE whole
  IN  Scanned("number", Text(s, i, end), end)

\* Up to the next quote; an open quote takes the rest of the text.
string(s, i) ==
  LET end == next(s, i + 1, {"q"})
  IN  IF end > Len(s) THEN Error(end)
      ELSE Scanned("string", Text(s, i, end + 1), end + 1)

quotedName(s, i) ==
  LET end == next(s, i + 1, {"'"})
  IN  IF end > Len(s) THEN Error(end)
      ELSE Scanned("id", Text(s, i + 1, end), end + 1)

\* The interior of a comment, from i on; an open one takes the rest.
captureCommentInterior(s, i) ==
  LET end == closing(s, i)
  IN  IF end > Len(s) THEN Error(end)
      ELSE Scanned("docBody", Text(s, i, end), end + 2)

\* The tests of the characters behind the first one of a token; "::>" is the
\* same token as ":>".
punctuation(s, i) ==
  LET Reads(w) == At(s, i, w)
      Is(w)    == Scanned("punctuation", w, i + Len(w))
      c        == Char(s, i)
  IN  CASE Reads(<<":", ":", ">">>) -> Scanned("punctuation", <<":", ">">>, i + 3)
        [] Reads(<<":", ":">>) /\ ~Reads(<<":", ":", ">">>) -> Is(<<":", ":">>)
        [] Reads(<<":", ">", ">">>) -> Is(<<":", ">", ">">>)
        [] Reads(<<":", ">">>) /\ ~Reads(<<":", ">", ">">>) -> Is(<<":", ">">>)
        [] c \in {".", "*", "="} /\ Reads(<<c, c>>)         -> Is(<<c, c>>)
        [] c = ">" /\ Reads(<<">", "=">>)                   -> Is(<<">", "=">>)
        [] OTHER -> IF c = "?" THEN Error(i + 1) ELSE Is(<<c>>)

\* Does a comment begin at i that scanToken() is to capture?  "/**/" is an
\* empty one that is skipped.
DocOpens(s, i) == At(s, i, <<"/", "*", "*">>) /\ Char(s, i + 3) # "/"

\* scanToken(), behind what skipWhitespace() has skipped.
TokenAt(s, i) ==
  LET c == Char(s, i)
  IN  CASE c = "end"        -> Scanned("eof", <<>>, i)
        [] DocOpens(s, i)   -> captureCommentInterior(s, i + 3)
        [] c \in Letters    -> identifier(s, i)
        [] c \in Digits \/ (c = "." /\ Char(s, i + 1) \in Digits) -> number(s, i)
        [] c = "q"          -> string(s, i)
        [] c = "'"          -> quotedName(s, i)
        [] OTHER            -> punctuation(s, i)

\* Mistake: the star that may stand before the interior is always dropped.
docBodyAtStar(s, i) ==
  IF ~At(s, i, <<"/", "*">>) THEN Error(i)
  ELSE captureCommentInterior(s, IF Char(s, i + 2) = "*" THEN i + 3 ELSE i + 2)

\* scanDocBody(), behind what it has skipped; one star more in front of the
\* interior is dropped.
docBodyAt(s, i) ==
  IF ~At(s, i, <<"/", "*">>) THEN Error(i)
  ELSE captureCommentInterior(s, IF Char(s, i + 2) = "*" /\ Char(s, i + 3) # "/"
                                 THEN i + 3 ELSE i + 2)

-----------------------------------------------------------------------------
VARIABLES
  text,
  caller,     \* who runs: the parser, or one of the two functions it calls
  current,    \* scanner.current
  line,       \* scanner.line
  lastBlock,  \* scanner.lastBlock: the interior of a comment and its line
  pieces,     \* history: what has been scanned and skipped, with its place
  taken       \* history: the parser has taken lastBlock

vars == <<text, caller, current, line, lastBlock, pieces, taken>>

NoBlock == [lexeme |-> <<>>, line |-> 0]

Init ==
  /\ text \in Texts
  /\ caller = "parser"
  /\ current = 1 /\ line = 1
  /\ lastBlock = NoBlock
  /\ pieces = <<>> /\ taken = FALSE

\* The pieces that became parser.current, by number.
Trivia == {"blank", "lineComment", "blockComment"}
IsCurrent(p) == p.type \notin Trivia /\ (p.type = "error" => p.by = "scanDocBody")
Tokens == {i \in DOMAIN pieces : IsCurrent(pieces[i])}

\* The last of them has this type.
Reached(type) == \E i \in Tokens : /\ pieces[i].type = type
                                   /\ \A k \in Tokens : k <= i

Newlines(i, j) == Cardinality({k \in i .. j - 1 : Char(text, k) = "nl"})

\* advance() of the parser: one token more, behind `doc` its body.  Where
\* skipWhitespace() begins the comment that was kept is dropped.
Advance ==
  /\ caller = "parser" /\ ~Reached("eof")
  /\ caller' = IF Reached("doc") THEN "scanDocBody" ELSE "scanToken"
  /\ lastBlock' = IF caller' = "scanToken" THEN NoBlock ELSE lastBlock
  /\ taken' = (taken /\ caller' = "scanDocBody")
  /\ UNCHANGED <<text, current, line, pieces>>

\* The scanner is behind the piece p of the text.
Consume(p) ==
  /\ current' = p.next
  /\ line' = line + Newlines(current, p.next)
  /\ pieces' = Append(pieces, [type |-> p.type, lexeme |-> p.lexeme, by |-> caller,
                               from |-> current, next |-> p.next, line |-> line'])
  /\ UNCHANGED <<text, taken>>

Blank == Char(text, current) \in {" ", "nl"}

\* Mistake: the end of a line is white space like any other.
SkipBlankQuietly ==
  /\ caller # "parser" /\ Blank
  /\ current' = current + 1
  /\ pieces' = Append(pieces, [type |-> "blank", lexeme |-> <<>>, by |-> caller,
                               from |-> current, next |-> current + 1, line |-> line])
  /\ UNCHANGED <<text, taken, line, caller, lastBlock>>

SkipBlank ==
  /\ caller # "parser" /\ Blank
  /\ Consume(Scanned("blank", <<>>, current + 1))
  /\ UNCHANGED <<caller, lastBlock>>

SkipLineComment ==
  /\ caller # "parser" /\ At(text, current, <<"/", "/">>)
  /\ Consume(Scanned("lineComment", <<>>, next(text, current, {"nl"})))
  /\ UNCHANGED <<caller, lastBlock>>

\* scanToken() skips a block comment and keeps its interior; an open one takes
\* the rest of the text, with nothing kept of it and no error.
SkippedBlock ==
  LET end == closing(text, current + 2)
  IN  IF end > Len(text) THEN Scanned("blockComment", <<>>, end)
      ELSE Scanned("blockComment", Text(text, current + 2, end), end + 2)

BlockOpens == At(text, current, <<"/", "*">>) /\ ~DocOpens(text, current)

\* Mistake: the first comment of several is kept.
SkipBlockCommentFirst ==
  /\ caller = "scanToken" /\ BlockOpens
  /\ lastBlock' = IF lastBlock = NoBlock
                  THEN [lexeme |-> SkippedBlock.lexeme, line |-> line] ELSE lastBlock
  /\ Consume(SkippedBlock)
  /\ UNCHANGED caller

\* Mistake: only a comment that closes is skipped.
SkipBlockCommentClosed ==
  /\ caller = "scanToken" /\ BlockOpens /\ closing(text, current + 2) <= Len(text)
  /\ lastBlock' = [lexeme |-> SkippedBlock.lexeme, line |-> line]
  /\ Consume(SkippedBlock)
  /\ UNCHANGED caller

SkipBlockComment ==
  /\ caller = "scanToken" /\ BlockOpens
  /\ lastBlock' = [lexeme |-> SkippedBlock.lexeme, line |-> line]
  /\ Consume(SkippedBlock)
  /\ UNCHANGED caller

AtToken == ~Blank /\ ~At(text, current, <<"/", "/">>) /\ ~BlockOpens

ScanToken ==
  /\ caller = "scanToken" /\ AtToken
  /\ TokenAt(text, current).type # "error"
  /\ Consume(TokenAt(text, current))
  /\ caller' = "parser"
  /\ UNCHANGED lastBlock

\* The parser reports the error and has scanToken() called again.
ScanError ==
  /\ caller = "scanToken" /\ AtToken
  /\ TokenAt(text, current).type = "error"
  /\ Consume(TokenAt(text, current))
  /\ lastBlock' = NoBlock
  /\ UNCHANGED caller

\* The body behind `doc`, or an error, which here becomes the parser's token.
ScanDocBody ==
  /\ caller = "scanDocBody" /\ ~Blank /\ ~At(text, current, <<"/", "/">>)
  /\ Consume(docBodyAt(text, current))
  /\ caller' = "parser"
  /\ UNCHANGED lastBlock

TakeLastBlockComment ==
  /\ caller = "parser" /\ lastBlock # NoBlock
  /\ lastBlock' = NoBlock /\ taken' = TRUE
  /\ UNCHANGED <<text, caller, current, line, pieces>>

Next == \/ Advance \/ SkipBlank \/ SkipLineComment \/ SkipBlockComment
        \/ ScanToken \/ ScanError \/ ScanDocBody \/ TakeLastBlockComment

\* The scanner is called until it returns, and the parser calls it until it
\* has the end of the text.
Spec == Init /\ [][Next]_vars /\ WF_vars(Next)

-----------------------------------------------------------------------------
(***************************************************************************)
(* What the scanner promises.  The grammar of the pieces, said of a whole  *)
(* word w and not in the order in which characters are tested.             *)
(***************************************************************************)
Interior(w, n) == SubSeq(w, n + 1, Len(w) - n)

IsComment(w) ==
  /\ Len(w) >= 4 /\ At(w, 1, <<"/", "*">>) /\ At(w, Len(w) - 1, <<"*", "/">>)
  /\ \A k \in 3 .. Len(w) - 2 : ~At(w, k, <<"*", "/">>)

AllIn(w, cs) == \A k \in DOMAIN w : w[k] \in cs

IsQuoted(w, quote) ==
  /\ Len(w) >= 2 /\ w[1] = quote /\ w[Len(w)] = quote
  /\ \A k \in 2 .. Len(w) - 1 : w[k] # quote

IsWord(w) == w # <<>> /\ w[1] \in Letters /\ AllIn(w, Letters \cup Digits)

IsNumber(w) ==
  /\ w # <<>> /\ AllIn(w, Digits \cup {"."}) /\ w[Len(w)] \in Digits
  /\ Cardinality({k \in DOMAIN w : w[k] = "."}) <= 1

Spellings == {<<c>> : c \in {"(", "/", "*", ".", ":", ">", "="}}
             \cup {<<c, c>> : c \in {".", "*", ":", "="}}
             \cup {<<">", "=">>, <<":", ">">>, <<":", ":", ">">>, <<":", ">", ">">>}

\* w is a piece of the type, and lexeme is what a reader of it wants.
Spells(w, type, lexeme) ==
  CASE type = "id"           -> \/ IsWord(w) /\ w \notin Keywords /\ lexeme = w
                                \/ IsQuoted(w, "'") /\ lexeme = Interior(w, 1)
    [] type = "doc"          -> w \in Keywords /\ lexeme = w
    [] type = "number"       -> IsNumber(w) /\ lexeme = w
    [] type = "string"       -> IsQuoted(w, "q") /\ lexeme = w
    [] type = "punctuation"  -> /\ w \in Spellings
                                /\ lexeme = IF w = <<":", ":", ">">> THEN <<":", ">">> ELSE w
    [] type = "docBody"      -> /\ IsComment(w) /\ Len(w) > 4 /\ w[3] = "*"
                                /\ w = <<"/", "*", "*">> \o lexeme \o <<"*", "/">>
    [] type = "blockComment" -> IsComment(w) /\ (Len(w) = 4 \/ w[3] # "*")
                                /\ lexeme = Interior(w, 2)
    [] type = "lineComment"  -> At(w, 1, <<"/", "/">>) /\ AllIn(w, Characters \ {"nl"})
    [] type = "blank"        -> w \in {<<" ">>, <<"nl">>}
    [] type = "eof"          -> w = <<>>

IsPiece(w) ==
  \/ w \in Spellings \cup {<<" ">>, <<"nl">>} \/ IsComment(w) \/ IsWord(w) \/ IsNumber(w)
  \/ IsQuoted(w, "q") \/ IsQuoted(w, "'")
  \/ At(w, 1, <<"/", "/">>) /\ AllIn(w, Characters \ {"nl"})

\* A quote or a comment that begins at i and never ends.
IsOpen(i) ==
  \/ text[i] \in {"'", "q"} /\ \A k \in i + 1 .. Len(text) : text[k] # text[i]
  \/ /\ At(text, i, <<"/", "*">>)
     /\ \A k \in i + 2 .. Len(text) : ~At(text, k, <<"*", "/">>)

\* Every piece is what stands there by the grammar, and the longest that does:
\* no test of a next character takes one too few or too many, and only what is
\* open, or begins nothing, is an error (an open block comment is none); of what
\* is open nothing is kept.
LongestPieces ==
  \A i \in DOMAIN pieces :
    LET p == pieces[i]
        w == Text(text, p.from, p.next)
        longer == {j \in p.next + 1 .. Len(text) + 1 : IsPiece(Text(text, p.from, j))}
    IN  p.by = "scanToken" =>
          IF p.type = "eof" THEN p.from = Len(text) + 1
          ELSE IF IsOpen(p.from)
          THEN /\ p.next = Len(text) + 1 /\ p.lexeme = <<>>
               /\ p.type = IF At(text, p.from, <<"/", "*">>) /\ ~DocOpens(text, p.from)
                           THEN "blockComment" ELSE "error"
          ELSE IF p.type = "error" THEN w = <<"?">>
          ELSE longer = {} /\ Spells(w, p.type, p.lexeme)

\* Messages tell the line: that of the last character of a token, and for the
\* comment that is kept that of its first.  Six loops of the scanner count
\* line ends, and one that forgot to would shift all lines behind it.
LinesTell ==
  LET LineOf(i) == 1 + Newlines(1, i)
  IN  /\ line = LineOf(current)
      /\ \A i \in DOMAIN pieces : pieces[i].line = LineOf(pieces[i].next)
      /\ lastBlock # NoBlock =>
           \E i \in DOMAIN pieces : /\ pieces[i].type = "blockComment"
                                    /\ pieces[i].lexeme = lastBlock.lexeme
                                    /\ lastBlock.line = LineOf(pieces[i].from)

\* Where the kept comment may be: behind the last but one of the tokens that
\* scanToken() gave the parser.
Near ==
  LET places == {i \in Tokens : pieces[i].by = "scanToken"}
  IN  {i \in DOMAIN pieces : \A p \in places : p >= i => \A q \in places : q <= p}

\* What the parser can take is the last comment in front of its current token,
\* if there is one with no error behind it, whatever was skipped on the way;
\* it can take it once.  (`doc` leaves it in place, so there a comment before
\* `doc` is kept while its body is current: scanDocBody() does not clear it.)
KeptIsTheNearest ==
  caller = "parser" =>
    LET blocks == {i \in Near : /\ pieces[i].type \in {"blockComment", "error"}
                                /\ pieces[i].by = "scanToken"}
        there == blocks # {} /\ pieces[Max(blocks)].type = "blockComment"
    IN  /\ lastBlock # NoBlock <=> there /\ ~taken
        /\ lastBlock.lexeme = IF there /\ ~taken THEN pieces[Max(blocks)].lexeme ELSE <<>>

\* `doc` gets its body: the parser's token behind it is the comment that
\* follows, of either form, or an error; nothing is skipped to find it but
\* blanks and line comments.  And only there is an error a token.
DocHasItsBody ==
  \A i \in Tokens :
    LET t   == pieces[i]
        doc == \E d \in Tokens : /\ d < i /\ pieces[d].type = "doc"
                                 /\ \A k \in Tokens : k < i => k <= d
        w   == Text(text, t.from, t.next)
        interior == Interior(w, 2)
    IN  /\ doc <=> t.by = "scanDocBody"
        /\ doc => \/ /\ t.type = "docBody" /\ IsComment(w)
                     /\ t.lexeme = IF At(interior, 1, <<"*">>) THEN Tail(interior) ELSE interior
                  \/ /\ t.type = "error"
                     /\ \/ t.from = t.next /\ ~At(text, t.from, <<"/", "*">>)
                        \/ IsOpen(t.from)

\* The scanner ends: no text keeps one of its loops, or the parser's.
Ends == <>(caller = "parser" /\ Reached("eof"))

-----------------------------------------------------------------------------
(* What the printer writes, scanned again (codegen_sysml.c) *)

\* Mistake: a digit may stand anywhere in a name.
isBareIdentifierDigits(w) == w # <<>> /\ AllIn(w, Letters \cup Digits)

isBareIdentifier(w) == w # <<>> /\ w[1] \in Letters /\ AllIn(w, Letters \cup Digits)

emitToken(w) ==
  IF w = <<>> \/ isBareIdentifier(w) THEN w ELSE <<"'">> \o w \o <<"'">>

\* The bodies of emitDoc() and emitComment().
emitDoc(w)     == <<"/", "*", "*">> \o w \o <<"*", "/">>
emitComment(w) == <<"/", "*">> \o w \o <<"*", "/">>

\* A name, the body of a doc and that of a comment are found in what is printed
\* of them as they were found in the text, whatever characters they have.
\* Except: a name that is empty, or is a keyword; a body that begins with "/",
\* which closes the comment as soon as it is open.
EchoesSurvive ==
  \A i \in DOMAIN pieces :
    LET p == pieces[i]
        Survives(w, type) ==
          LET t == TokenAt(w \o <<" ">>, 1)
          IN  t.type = type /\ t.lexeme = p.lexeme /\ t.next = Len(w) + 1
    IN  /\ p.type = "id" =>
             (Survives(emitToken(p.lexeme), "id") <=> p.lexeme \notin Keywords \cup {<<>>})
        /\ p.type = "docBody" =>
             (Survives(emitDoc(p.lexeme), "docBody") <=> ~At(p.lexeme, 1, <<"/">>))
        /\ p.type = "blockComment" =>
             Spells(emitComment(p.lexeme), "blockComment", p.lexeme)
=============================================================================
