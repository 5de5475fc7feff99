----------------------------- MODULE MCResolver -----------------------------
(***************************************************************************)
(* Source files for checking the resolver.                                 *)
(***************************************************************************)
EXTENDS Resolver, Syntax

\* Five siblings that refer to one another, in all 120 orders: a supertype,
\* a subtype, a part with a conjugated type, an alias for it, a flow whose
\* ends lead through the part and through the alias.
Siblings ==
  <<Def("part", "Base", <<>>, <<Usage("port", "x", <<>>, <<>>)>>),
    Def("part", "Sub", Qs(<<"Base">>), <<>>),
    Usage("part", "b", <<Tilde(Q(<<"Sub">>))>>, <<>>),
    Alias("q", <<"b">>),
    Flow("flow", <<"b", "x">>, <<"q", "x">>)>>

SiblingTrees == {Tree(<<Package("P", ds)>>) : ds \in Orders(Siblings)}

\* A part whose type is an alias, in all orders with the alias and its target.
AliasTrees ==
  {Tree(<<Package("P", ds)>>) :
     ds \in Orders(<<Usage("part", "e", Qs(<<"E">>), <<>>),
                     Alias("E", <<"Engine">>),
                     Def("part", "Engine", <<>>, <<>>)>>)}

\* Wildcard imports in a package and beside it, before and after the package
\* they name, of a known, an unknown and the built-in package.
Files ==
  <<Package("P", <<Def("part", "A", <<>>, <<>>),
                   ImportAll(<<"ScalarValues">>),
                   Attr("m", Qs(<<"Real">>), <<>>)>>),
    ImportAll(<<"P">>),
    Package("Q", <<ImportAll(<<"P">>),
                   Usage("part", "a", Qs(<<"A">>), <<>>),
                   Usage("part", "n", Qs(<<"Nope">>), <<>>)>>),
    Usage("part", "z", Qs(<<"A">>), <<>>)>>

ImportTrees == {Tree(ds) : ds \in Orders(Files)}
               \cup {Tree(<<Package("P", <<ImportAll(<<"Lib", "Deep">>),
                                           Import(<<"P">>),
                                           Usage("part", "u", Qs(<<"New">>),
                                                 <<>>)>>)>>)}

\* One of everything the walk distinguishes.
Everything ==
  Tree(<<Package("K", <<
    Def("enum", "Color", <<>>, <<EnumValue("red", "Color")>>),
    [Def("constraint", "C", <<>>,
         <<Usage("part", "y", Qs(<<"Color">>), <<>>)>>)
       EXCEPT !.body = <<Op("binary", ">", <<Q(<<"y">>), Lit("Integer")>>)>>],
    Def("action", "Run", <<>>,
        <<[Links("succession", NoName, <<StartRef>>) EXCEPT
             !.targets = <<Usage("action", "step", Qs(<<"Run">>), <<>>),
                           Q(<<"step">>), DoneRef>>],
          [Links("transition", NoName, <<Q(<<"start">>), Q(<<"done">>)>>)
             EXCEPT !.value = <<Op("unary", "!", <<Q(<<"red">>)>>)>>],
          Links("lifecycle", NoName, Qs(<<"Color">>))>>),
    Def("calc", "F", <<>>,
        <<[Blank EXCEPT !.kind = "return", !.types = Qs(<<"Color">>),
             !.value = <<Op("call", "", <<Q(<<"F">>), Lit("Real"),
                                          Op("access", "", Qs(<<"C">>))>>)>>],
          Attr("w", Qs(<<"Color">>), Qs(<<"Color", "red">>)),
          [Blank EXCEPT !.kind = "attribute",
             !.redefines = <<Q(<<"w">>), Q(<<"F", "w">>)>>]>>),
    Links("comment", NoName, Qs(<<"F">>)),
    Links("dependency", "d", <<Q(<<"Gone">>), Q(<<"F", "gone">>)>>),
    Blank>>),
  Package("ScalarValues", <<Usage("part", "twin", <<>>, <<>>),
                            Attr("twin", <<>>, <<>>),
                            Alias("twin", <<"Color">>)>>)>>)

\* Supertypes in a circle, an alias of itself, a name that shadows another.
Circles ==
  Tree(<<Package("K", <<
    Def("part", "A", Qs(<<"B">>), <<>>),
    Def("part", "B", Qs(<<"A">>),
        <<Usage("part", "A", Qs(<<"A">>), <<Usage("part", "c", Qs(<<"A">>),
                                                 <<>>)>>)>>),
    Alias("s", <<"s">>),
    Usage("part", "v", Qs(<<"A">>), <<>>),
    Links("comment", NoName, <<Q(<<"v", "A", "c">>), Q(<<"v", "none">>),
                               Q(<<"s", "none">>)>>)>>)>>)

MCPrograms == SiblingTrees \cup AliasTrees \cup ImportTrees \cup {Everything, Circles}
=============================================================================
