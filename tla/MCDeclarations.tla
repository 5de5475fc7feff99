--------------------------- MODULE MCDeclarations ---------------------------
(***************************************************************************)
(* Sets of files for the declaration parser: all short ones over a few     *)
(* tokens, and files one edit away from a right one.                       *)
(***************************************************************************)
EXTENDS Declarations

CONSTANT MaxLen

File(s) == [tokens |-> s, notes |-> {}]

UpTo(ts, n) == UNION {[1 .. k -> ts] : k \in 0 .. n}

Deleted(s)      == {RemoveAt(s, i) : i \in DOMAIN s}
Inserted(s, ts) == {InsertAt(s, i, t) : i \in 1 .. Len(s) + 1, t \in ts}
Replaced(s, ts) == {ReplaceAt(s, i, t) : i \in DOMAIN s, t \in ts}
Edits(s, ts)    == {s} \cup Deleted(s) \cup Inserted(s, ts) \cup Replaced(s, ts)

\* Statements that end with a semicolon, one or more per construct.
Simple ==
  {<<"part", "id">>, <<"part", "id", ":", "id", "::", "id">>, <<"part", ":>>", "id">>,
   <<"part", "def", "id">>, <<"part", "def", "id", ":>", "id", ",", "id">>,
   <<"part", "def", "<", "id", ">", "id">>,
   <<"part", "id", "[", "1", "..", "*", "]", "nonunique", ":", "id", "=", "id", "(", "id", ")">>,
   <<"public", "in", "derived", "abstract", "part", "id">>, <<"#", "id", "part", "id">>,
   <<"abstract", "part", "def", "id">>, <<"end", "#", "id", "id">>,
   <<"attribute", "id", "specializes", "id">>,
   <<"attribute", "id", ":", "id", "=", "1", "[", "id", "]">>,
   <<"attribute", ":>>", "id", "default", "1">>,
   <<":>>", "id", "::", "id", "=", "1">>, <<"subsets", "id">>,
   <<"import", "id", "::", "*">>, <<"import", "id", "::", "id">>,
   <<"alias", "id", "for", "id", "::", "id">>,
   <<"dependency", "id", "from", "id", "to", "id", ",", "id">>,
   <<"connection", "id", "connect", "id", ".", "id", "to", "id">>,
   <<"connection", "connect", "[", "1", "]", "id", "to", "id", ":>>", "id">>,
   <<"connect", "id", "to", "id", "::", "id">>, <<"interface", "id", "connect", "id", "to", "id">>,
   <<"flow", "id", ".", "id", "to", "id", ".", "id">>, <<"flow", "from", "id", "to", "id">>,
   <<"flow", "of", "id", "from", "id", "to", "id">>, <<"flow", "[", "1", "]", "id", "to", "id">>,
   <<"flow", "id", ":", "id">>,
   <<"message", "of", "id", ":", "id", "from", "id", "to", "id">>,
   <<"message", "of", "id", "::", "id", "from", "id", "to", "id">>,
   <<"bind", "id", ".", "id", "=", "id">>, <<"allocate", "id", "to", "id">>,
   <<"allocation", "id", ":", "id", "allocate", "id", "to", "id">>,
   <<"assert", "constraint", "id", ":", "id">>, <<"assert", "requirement", ":", "id">>,
   <<"assume", "constraint", "id">>, <<"constraint", ":", "id">>, <<"objective">>,
   <<"subject", "id", ":", "id">>, <<"event", "occurrence", "id">>, <<"event", "id", ".", "id">>,
   <<"variant", "part", "id">>, <<"variant", "id">>, <<"include", "use", "case", "id">>,
   <<"use", "case", "def", "id">>, <<"exhibit", "state", "id">>, <<"analysis", "id">>,
   <<"transition", "id", "then", "id">>,
   <<"transition", "id", "first", "id", "accept", "id", ":", "id", "via", "id",
     "if", "id", "<", "1", "do", "id", "then", "id">>,
   <<"transition", "accept", "at", "id", "do", "send", "id", "then", "id">>,
   <<"entry", "action", "id">>, <<"do", "id", ".", "id">>,
   <<"perform", "action", "id">>, <<"perform", "id", ".", "id", ":>>", "id">>,
   <<"return", "part", "id", ":", "id", ":>", "id", "=", "1">>, <<"return", ":>>", "id">>,
   <<"calc", "id">>, <<"satisfy", "id", "by", "id">>, <<"fork", "id">>,
   <<"succession", "id", "first", "start", "then", "id">>, <<"first", "id", "then", "fork", "id">>,
   <<"then", "action", "id", ":", "id", "then", "start">>,
   <<"ref", "id", ":", "id">>, <<"in", "id">>, <<"id", ":", "id">>, <<"id", "=", "1">>,
   <<"id", "subsets", "id">>}

MCLeaves ==
  {s \o <<";">> : s \in Simple}
  \cup {<<"doc", "text">>, <<"text">>, <<"attribute", "id", "{", ":>>", "id", "{", "}", "}">>,
        <<"constraint", "{", "id", "<", "1", "}">>, <<"allocate", "id", "to", "id", "{", "}">>,
        <<"assert", "constraint", "id", ":", "id", "{", "id", "}">>,
        <<"do", "id", "{", "id", "}", ";">>, <<"satisfy", "id", "{", "id", "}">>}

MCHeads ==
  {h \o <<"{">> : h \in {<<"package", "id">>, <<"part", "def", "id">>, <<"part", "id", ":", "id">>,
                         <<"calc", "def", "id">>, <<"state", "id">>, <<"perform", "action", "id">>,
                         <<"id", ":", "id">>, <<"attribute", "def", "id">>}}

\* Statements of both kinds, at each end of the file or of a body, between
\* statements that a search for a keyword would miss.
Plainly == <<"id", ":", "id", ";">>
Amid(s, t) ==
  {s \o t, <<"part", "def", "id", "{">> \o Plainly \o s \o t \o Plainly \o <<"}">> \o Plainly}
Around(s) ==
  {h \o s \o <<"}">> \o Plainly : h \in MCHeads}
  \cup {<<"package", "id", "{">> \o h \o s \o <<"}">> \o s \o Plainly \o <<"}">> : h \in MCHeads}

Broken == UNION {Deleted(s \o <<";">>) \cup Replaced(s \o <<";">>, {",", "id"}) : s \in Simple}
          \cup UNION {Inserted(s, {",", "="}) : s \in MCLeaves}
Brief  == {s \in Broken : Len(s) <= 3} \cup {<<"doc", "?", ";">>, <<"part", "id", "=", "(", "(", ";">>}

Statement ==
  UNION {Around(s) : s \in MCLeaves \cup Brief}
  \cup UNION {Amid(s, <<>>) : s \in Broken}
  \cup UNION {Amid(s, t) : s \in Brief, t \in {<<"part", ",", ";">>, <<"=", "id", ";">>, <<";">>}}

\* Bodies of other kinds, bodies inside statements, blocks that are skipped.
Bodies ==
  {<<"enum", "def", "id", "{", "id", ";", "enum", "=", "1", ";", "id", "=", "1", ";", "}">>,
   <<"constraint", "def", "id", "{", "in", "id", ":", "id", ";", "id", "<", "1", "}", "part", "id", ";">>,
   <<"action", "def", "id", "{", "first", "start", "then", "action", "id", "{", "part", "id", ";", "}",
     "then", "action", "{", "}", ";", "}">>,
   <<"part", "id", "{", "@", "id", "{", "id", "}", "}", "@", "id", "about", "id", ";", "part", "id", ";">>,
   <<"requirement", "id", "{", "filter", "@", "id", ";", "}">>,
   <<"action", "id", "accept", "id", ";", "part", "id", "{", "part", "id", ";", "}">>,
   <<"variant", "part", "id", "{", "attribute", "id", "{", "id", "}", "}", "part", "id", ";">>}

Parts == <<"part", "def", "id", "{", "part", "id", ":", "id", "{", "id", ":", "id", ";", "}", "}",
           "part", "id", ";">>

\* A block comment somewhere in and behind a comment.
Comments ==
  {[tokens |-> <<"comment">> \o h \o t, notes |-> {n}] :
     h \in {<<>>, <<"id">>, <<"about", "id">>, <<"id", "about", "id", ",", "id">>},
     t \in {<<>>, <<"part", "id", ";">>}, n \in 1 .. 6}

MCFiles ==
  {f \in Comments \cup
         {File(s) : s \in UpTo(PartTokens, MaxLen) \cup Edits(Parts, PartTokens)
                          \cup Statement
                          \cup UNION {Prefixes(<<"part", "id", "{">> \o s) : s \in MCLeaves}
                          \cup UNION {Prefixes(s) : s \in MCLeaves \cup Bodies}
                          \cup UNION {Edits(s, {"id", ";", "{", "}", "part", "=", "1"}) :
                                      s \in Bodies}} : WellScanned(f)}
=============================================================================
