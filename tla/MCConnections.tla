--------------------------- MODULE MCConnections ----------------------------
(***************************************************************************)
(* Flows: from a port q of a port of a part to the port r of another part, *)
(* with all directions, and each of the three types conjugated or not (a   *)
(* and p; b shares p), also through the type the part inherits p from.     *)
(***************************************************************************)
EXTENDS MCPipeline

FlowFile(w, d, e, a, b, p) ==
  File(<<Def("port", "PD", <<>>,
             <<Directed(d, Usage("port", "q", <<>>, <<>>)),
               Directed(e, Usage("port", "r", <<>>, <<>>))>>),
         Def("part", "Base", <<>>,
             <<Usage("port", "p", <<Conjugated(p, Q(<<"PD">>))>>, <<>>)>>),
         Def("part", "S", Qs(<<"Base">>), <<>>),
         Usage("part", "a", <<Conjugated(a, Q(<<"S">>))>>, <<>>),
         Usage("part", "b", <<Conjugated(b, Q(<<"Base">>))>>, <<>>),
         Flow(w, <<"a", "p", "q">>, <<"b", "p", "r">>)>>)

MCFlows == {FlowFile("flow", d, e, a, b, p) :
              d \in Directions, e \in Directions,
              a \in BOOLEAN, b \in BOOLEAN, p \in BOOLEAN}
           \cup {FlowFile(w, d, "in", a, FALSE, FALSE) :
                   w \in {"message", "bind"}, d \in Directions, a \in BOOLEAN}

\* Connections between ports, a port and a part, and inside other things.
Plug == <<Def("port", "PD", <<>>, <<>>),
          Def("part", "Box", <<>>, <<>>),
          Usage("port", "x", <<>>, <<>>),
          Usage("item", "y", Qs(<<"PD">>), <<>>),
          Usage("part", "z", Qs(<<"Box">>), <<>>)>>

ConnectFiles ==
  {File(Append(Plug, c)) :
     c \in {Connect("x", "y"), Connect("x", "z"),
            Flow("satisfy", <<"x">>, <<"z">>),
            Usage("part", "w", <<>>,
                  <<Flow("flow", <<"y">>, <<"x">>),
                    Usage("part", "v", <<>>, <<Connect("x", "z")>>)>>),
            [Links("succession", NoName, <<>>) EXCEPT
               !.targets = <<Usage("action", "go", <<>>,
                                   <<Connect("x", "z"),
                                     Usage("part", "v", <<>>, <<Connect("x", "z")>>)>>)>>]}}

MCConnected == MCFlows \cup ConnectFiles
=============================================================================
