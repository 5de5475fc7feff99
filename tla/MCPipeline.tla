----------------------------- MODULE MCPipeline -----------------------------
(***************************************************************************)
(* Source files and command lines for checking the pipeline.               *)
(***************************************************************************)
EXTENDS Pipeline, Syntax

File(ds) == <<Package("M", ds)>>

Directed(d, u)       == [u EXCEPT !.dir = d]
Conjugated(b, q)     == [q EXCEPT !.conj = b]
Constant(b, a)       == [a EXCEPT !.const = b]
Redef(x, tys, parts) == [Attr(x, tys, <<>>) EXCEPT !.redefines = Qs(parts)]

\* Nothing, or the type called x
Typed(x) == IF x = "" THEN <<>> ELSE Qs(<<x>>)

\* connect x to y
Connect(x, y) == Flow("connection", <<x>>, <<y>>)

NoFlags == [file |-> FALSE, tokens |-> FALSE, json |-> FALSE,
            sysml |-> FALSE, skip |-> {}]

PlainCommand == {NoFlags}

----------------------------------------------------------------------------
(***************************************************************************)
(* The driver: a file that every pass accepts, and one for each pass that  *)
(* this pass rejects.                                                      *)
(***************************************************************************)
ItemDef    == Def("item", "A", <<>>, <<Attr("x", <<>>, <<>>)>>)
FlowEnd(x) == Usage("end", x, <<>>, <<>>)

Accepted1 ==
  <<ItemDef,
    Def("item", "B", Qs(<<"A">>), <<Redef("x", <<>>, <<"x">>)>>),
    Flow("bind", <<"A">>, <<"B">>)>>

Rejected ==
  {<<ItemDef, ItemDef>>,
   <<Constant(TRUE, Attr("x", <<>>, <<>>))>>,
   <<Def("item", "C", <<>>, <<Redef("x", <<>>, <<"x">>)>>)>>,
   <<ItemDef, Flow("flow", <<"A">>, <<"A">>)>>,
   <<Def("flow", "F", <<>>, <<FlowEnd("a"), FlowEnd("b"), FlowEnd("c")>>)>>}

\* Supertypes in a circle, an alias of itself, a search without result.
Circular ==
  <<Def("item", "A", Qs(<<"B">>), <<>>), Def("item", "B", Qs(<<"A">>), <<>>),
    Alias("s", <<"s">>), Attr("x", Qs(<<"A", "x">>), <<>>)>>

DrivenTrees == {Tree(ds) : ds \in {Accepted1, Circular} \cup Rejected}

MCCommandLines ==
  {[NoFlags EXCEPT !.skip = s] : s \in {{}, {"resolve"}, {"types", "references"},
                                        {"redefinitions"}, {"connections"}}}
  \cup {[NoFlags EXCEPT !.file = TRUE, !.sysml = TRUE, !.json = TRUE],
        [NoFlags EXCEPT !.tokens = TRUE], [NoFlags EXCEPT !.json = TRUE]}

----------------------------------------------------------------------------
(***************************************************************************)
(* References: usages of all kinds in one another.                         *)
(***************************************************************************)
Nested(k, w, d, r) ==
  LET inner == [Directed(d, Usage(w, "i", <<>>, <<Usage("port", "j", <<>>, <<>>),
                                                Attr("k", <<>>, <<>>)>>))
                  EXCEPT !.ref = r]
  IN  <<IF k = "package" THEN Package("O", <<inner>>)
        ELSE IF k \in {"part def", "port def", "attribute def"}
        THEN Def(CASE k = "part def" -> "part" [] k = "port def" -> "port"
                   [] OTHER -> "attribute", "O", <<>>, <<inner>>)
        ELSE Def("part", "T", <<>>, <<Usage(k, "o", <<>>, <<inner>>)>>)>>

\* An attribute and a connection in the inline action of a succession.
MCInlineAction ==
  {File(<<Usage("part", "x", <<>>, <<>>),
          [Links("succession", NoName, <<>>) EXCEPT
             !.targets = <<Usage("action", "go", <<>>,
                                 <<Attr("k", <<>>, <<>>),
                                   Connect("x", "x")>>)>>]>>)}

MCInlineTrees == {Tree(ds) : ds \in MCInlineAction}

MCReferences ==
  {Nested(k, w, d, r) :
     k \in {"package", "part def", "port def", "attribute def", "part", "port"},
     w \in {"part", "port", "end"}, d \in {"none", "in"}, r \in BOOLEAN}
  \cup MCInlineAction
=============================================================================
