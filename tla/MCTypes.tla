------------------------------ MODULE MCTypes -------------------------------
(***************************************************************************)
(* Expressions: all operators over features of the built-in types, of a    *)
(* subtype of one and of something else, of that, of an enumeration, of an *)
(* unknown type, and literals, to depth two, as values of attributes of    *)
(* those types.                                                            *)
(***************************************************************************)
EXTENDS MCPipeline, Ignorance

Names(xs) == [i \in DOMAIN xs |-> Q(<<xs[i]>>)]

Leaves == Names(<<"n", "m", "b", "s", "c", "u", "q">>)
          \o <<Lit("Integer"), Lit("Boolean")>>

Binary == {"+", "<", "==", "and", "xor"}

\* l, operator o, and each of rs; the same with the operands exchanged
Rights(o, l, rs) == [i \in DOMAIN rs |-> Op("binary", o, <<l, rs[i]>>)]
Lefts(o, ls, r)  == [i \in DOMAIN ls |-> Op("binary", o, <<ls[i], r>>)]
Unaries(o, es)   == [i \in DOMAIN es |-> Op("unary", o, <<es[i]>>)]

Inner1 == Rights("+", Q(<<"n">>), Names(<<"m", "b", "u">>))
          \o Rights("<", Q(<<"m">>), Names(<<"n", "s">>))
          \o Rights("==", Q(<<"b">>), Names(<<"b", "n">>))
          \o Rights("and", Q(<<"u">>), Names(<<"b", "n">>))
          \o Rights("xor", Q(<<"b">>), Names(<<"b", "n">>))
          \o Unaries("-", Names(<<"m", "b", "u">>))
          \o Unaries("!", Names(<<"b", "s", "u">>))

Expressions == {Rights(o, l, Leaves) : o \in Binary, l \in Range(Leaves)}
               \cup {Lefts(o, Inner1, r) : o \in Binary,
                                           r \in Range(Names(<<"m", "b", "u">>))}
               \cup {Leaves, Inner1}

\* The features the expressions name, and one attribute for each expression.
ExprFile(es, ty) ==
  File(<<ImportAll(<<"ScalarValues">>),
         ImportAll(<<"Gone">>),
         Def("part", "Quantity", <<>>, <<>>),
         Def("part", "Mass", Qs(<<"Real">>) \o Qs(<<"Quantity">>), <<>>),
         Def("enum", "Color", <<>>, <<EnumValue("c", "Color")>>),
         Attr("n", Qs(<<"Integer">>), <<>>),
         Attr("m", Qs(<<"Mass">>), <<>>),
         Attr("b", Qs(<<"Boolean">>), <<>>),
         Attr("s", Qs(<<"String">>), <<>>),
         Usage("part", "c", Qs(<<"Color">>), <<>>),
         Attr("u", Qs(<<"Nowhere">>), <<>>),
         Attr("q", Qs(<<"Quantity">>), <<>>)>>
       \o [i \in DOMAIN es |-> Attr(NoName, Typed(ty), <<es[i]>>)])

\* Types that are their own supertypes, two ways up, an unknown supertype.
MCCircularTypes ==
  {File(<<Def("part", "A", Qs(<<"B">>), <<>>),
          Def("part", "B", Qs(<<"A">>) \o Qs(<<"C">>), <<>>),
          Def("part", "C", <<>>, <<>>),
          Def("part", "D", Qs(<<"C">>) \o Qs(<<"B">>), <<>>),
          Alias("E", <<"D">>),
          Def("part", "F", Qs(<<"E">>) \o Qs(<<"X", "Y">>), <<>>)>>)}

MCTyped ==
  {ExprFile(es, ty) : es \in Expressions, ty \in {"Real", "Boolean"}}
  \cup {ExprFile(Leaves, ty) : ty \in {"Mass", "Quantity", "String", "Color", ""}}
  \cup MCCircularTypes
=============================================================================
