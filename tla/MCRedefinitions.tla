-------------------------- MODULE MCRedefinitions ---------------------------
(***************************************************************************)
(* Redefinitions: three levels of inheritance, each feature typed or not   *)
(* and constant or not, the last one named in different ways.              *)
(***************************************************************************)
EXTENDS MCPipeline

\* A constant has a value; w is an attribute without a type.
Fixed(b, a) == [a EXCEPT !.const = b, !.value = IF b THEN Qs(<<"w">>) ELSE <<>>]

Levels(tb, tc, ca, cb, cc, target) ==
  File(<<ImportAll(<<"ScalarValues">>),
         Attr("w", <<>>, <<>>),
         Def("part", "A", <<>>, <<Fixed(ca, Attr("x", Typed("Real"), <<>>))>>),
         Def("part", "B", Qs(<<"A">>),
             <<Fixed(cb, Redef("x", Typed(tb), <<"x">>))>>),
         Def("part", "O", <<>>, <<Attr("y", <<>>, <<>>),
                                  Usage("part", "x", <<>>, <<>>)>>),
         Def("part", "C", Qs(<<"B">>) \o Qs(<<"O">>),
             <<Fixed(cc, Redef("x", Typed(tc), target))>>)>>)

\* Four levels, where the second may hide the x of the first, and where there
\* may be another feature y, or x, beside them; the last one names Q::x.
Qualified(hidden, other, q) ==
  File(<<Def("part", "A", <<>>, <<Attr("x", <<>>, <<>>)>>),
         Def("part", "B", Qs(<<"A">>), IF hidden THEN <<Redef("x", <<>>, <<"x">>)>> ELSE <<>>),
         Def("part", "E", Qs(<<"B">>), <<>>),
         Def("part", "O", <<>>, <<Attr(other, <<>>, <<>>)>>),
         Def("part", "C", Qs(<<"E">>) \o Qs(<<"O">>),
             <<Redef("z", <<>>, <<q, "x">>)>>)>>)

MCQualified == {Qualified(hidden, other, q) :
                  hidden \in BOOLEAN, other \in {"x", "y"},
                  q \in {"A", "B", "E", "O", "C", "none"}}

MCRedefined ==
  MCQualified \cup
  {Levels(tb, tc, FALSE, FALSE, FALSE, target) :
     tb \in {"", "Integer", "Number", "String"}, tc \in {"", "Real", "Integer"},
     target \in {<<"x">>, <<"A", "x">>, <<"B", "x">>, <<"y">>}}
  \cup {Levels("", tc, ca, cb, cc, target) :
          tc \in {"", "Integer"},
          ca \in BOOLEAN, cb \in BOOLEAN, cc \in BOOLEAN,
          target \in {<<"x">>, <<"A", "x">>, <<"B", "x">>}}
  \cup {Levels("", "", FALSE, FALSE, FALSE, target) :
          target \in {<<"O", "x">>, <<"none">>, <<"M", "O", "x">>,
                      <<"M", "B", "x">>}}
  \cup {File(<<Def("part", "A", <<>>, <<Usage("part", "x", <<>>, <<>>)>>),
               Usage("part", "u", Qs(<<"A">>),
                     <<Redef("x", <<>>, <<"x">>)>>),
               Redef("top", <<>>, <<"u", "x">>)>>),
        File(<<Def("part", "A", Qs(<<"A">>), <<Redef("x", <<>>, <<"x">>)>>)>>)}

UntypedMiddle == {Tree(Levels("", "String", FALSE, FALSE, FALSE, <<"x">>))}

MCUntypedMiddle == UntypedMiddle
=============================================================================
