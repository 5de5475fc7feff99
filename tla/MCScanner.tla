----------------------------- MODULE MCScanner ------------------------------
(***************************************************************************)
(* Texts for the scanner: all short ones over the characters of one part   *)
(* of the grammar, and words of all parts behind each other.               *)
(***************************************************************************)
EXTENDS Scanner, SequencesExt

CONSTANTS CommentLen, OtherLen, MaxWords

UpTo(cs, n) == UNION {[1 .. k -> cs] : k \in 0 .. n}

doc == <<"d", "o", "c">>

Words == {doc, doc \o <<"x">>, <<"x", "1">>, <<"1", ".", "1">>, <<".", "1">>, <<".", ".">>,
          <<"'", "x", " ", "x", "'">>, <<"'">> \o doc \o <<"'">>, <<"'", "1", "nl", "'">>,
          <<"q", "nl", "/", "*", "q">>, <<" ">>, <<"nl">>, <<"/", "/", "x", "nl">>, <<"?">>,
          <<"/", "*", "x", "nl", "*", "/">>, <<"/", "*", "*", "nl", "x", "*", "/">>,
          <<"/", "*", "*", "/">>, <<"/", "*", "/", "x", "*", "/">>, <<"/", "*", "*">>,
          <<":", ">">>, <<"q">>}

MCTexts ==
  UpTo({"/", "*", "nl"}, CommentLen)
  \cup UpTo({"1", ".", "x", "'"}, OtherLen) \cup UpTo({":", ">", "=", "(", " "}, OtherLen)
  \cup UpTo({"'", "q", "nl", "?"}, OtherLen)
  \cup {doc \o w : w \in UpTo({"/", "*", " "}, CommentLen)}
  \cup {FlattenSeq(ws) : ws \in UpTo(Words, MaxWords)}
=============================================================================
