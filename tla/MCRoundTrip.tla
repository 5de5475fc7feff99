----------------------------- MODULE MCRoundTrip -----------------------------
(***************************************************************************)
(* Files for the round trip: the statements of MCDeclarations and more,    *)
(* with each modifier, in bodies of each kind, beside each other, and one  *)
(* edit away from these.                                                   *)
(***************************************************************************)
EXTENDS MCDeclarations, RoundTrip

\* Forms that Simple has no statement for.
MoreSimple ==
  {<<"fork">>, <<"message", "id", ".", "id">>, <<"flow", "id", ".", "id">>,
   <<"message", "id", "to", "id">>, <<"flow", "id">>,
   <<"transition", "id", "if", "id", "then", "id">>, <<"transition", "then", "id">>,
   <<"succession", "then", "id">>, <<"succession", "id", "then", "id">>, <<"first", "id">>,
   <<"perform", "id", ":", "id">>, <<"perform", ":", "id">>,
   <<"assert", "constraint", ":", "id">>, <<"assert", "constraint">>,
   <<"part", "'or'">>, <<"part", "id", ":", "~", "id">>, <<"alias", "id", "for", "'or'">>,
   <<"bind", "'or'", "=", "id">>, <<"then", "action", "'or'">>,
   <<"part", "id", ":>", "id", ":", "id", ":>>", "id", "[", "1", "]">>,
   <<"import", "id", "::", "**">>, <<"import", "id">>, <<"satisfy", "id">>,
   <<"flow", "of", "id", ",", "id", "from", "id", "to", "id">>,
   <<"allocation", "id">>, <<"connection", "id">>, <<"dependency", "from", "id", "to", "id">>,
   <<"return">>, <<"return", ":", "id", ":>>", "id">>, <<"action", ":", "id">>, <<"action", "id">>}

Values ==
  {<<"1">>, <<"id", "::", "id">>, <<"-", "1">>, <<"(", "-", "1", ")", "**", "1">>,
   <<"-", "id", "**", "id">>, <<"(", "-", "id", ")", ".", "id">>, <<"(", "!", "id", ")", "(", ")">>,
   <<"(", "id", ",", "1", ")">>, <<"id", "(", "1", ",", "id", ")", ".", "id">>, <<"id", ".", "'or'">>,
   <<"id", "+", "1", "*", "id", "**", "1">>, <<"1", "-", "1", "-", "1">>, <<"1", "[", "id", "]">>}

Unmodified ==
  {s \o <<";">> : s \in Simple \cup MoreSimple}
  \cup (MCLeaves \ {s \o <<";">> : s \in Simple})
  \cup {<<"part", "id", "=">> \o v \o <<";">> : v \in Values}
  \cup {<<"part", "id", "{", "}">>, <<"part", "def", "id", "{", "}">>, <<"package", "id", "{", "}">>,
        <<"then", "action", "{", "}", ";">>}

Prefixed ==
  Unmodified \cup {<<m>> \o s : m \in Modifiers \cup {"public", "in"}, s \in Unmodified}

\* Each where it can be.
Placed(s) ==
  {h \o s \o <<"}">> : h \in {<<"package", "id", "{">>, <<"part", "def", "id", "{">>}}
  \cup {s, <<"then", "action", "id", "{">> \o s \o <<"}", ";">>}

\* A comment in front of each.
Commented ==
  {[tokens |-> s \o h \o t, notes |-> {Len(s \o h) + 1}] :
     s \in {<<>>, <<"package", "id", "{">>}, t \in Prefixed,
     h \in {<<"comment">>, <<"comment", "id">>, <<"comment", "about", "id">>}}

\* One behind another that leaves something behind it out.
Pairs ==
  {s \o t : s \in {<<"first", "id", ";">>, <<"ref", "id", ";">>, <<"abstract", "id", ":", "id", ";">>,
                   <<"#", "id", "id", ":", "id", ";">>, <<"filter", "id", ";">>, <<"doc", "text">>},
           t \in Unmodified}

\* A body behind all that may stand before one.
HeadsOfAll ==
  MCHeads \cup {h \o <<"{">> :
    h \in {<<"part", "id", ":>>", "id">>, <<":>>", "id">>, <<"subsets", "id">>,
          <<"allocation", "id", "allocate", "id", "to", "id">>, <<"use", "case", "def", "id">>,
          <<"abstract", "id", ":", "id">>, <<"event", "occurrence", "id">>,
          <<"variant", "part", "id", "=", "1">>, <<"in", "id">>, <<"exhibit", "state", "id">>}}

Nested ==
  {h \o b \o <<"}">> :
     h \in HeadsOfAll,
     b \in {<<>>} \cup
          {s \o <<"part", "id", ";">> :
             s \in {<<>>, <<"part", "id", "{", "doc", "text", "}">>,
                   <<"then", "action", "{", "id", ":", "id", ";", "}", "then", "action", "id", "{",
                     "}", ";">>}}}

Edited ==
  UNION {Edits(s, {"id", ":", ":>>", "=", ",", "::", "[", "to"}) : s \in Unmodified}
  \cup UNION {Edits(s, {"id", ";", "{", "}", "part", "=", "1"}) : s \in Bodies}

MCRoundTripFiles ==
  {f \in Commented \cup {File(s) : s \in UNION {Placed(t) : t \in Prefixed}
                                        \cup Pairs \cup Nested \cup Edited} : WellScanned(f)}

\* With those of MCDeclarations.
MCAllFiles == MCFiles \cup MCRoundTripFiles

\* Just the statements.
MCPlainFiles == {File(s) : s \in Unmodified}
=============================================================================
