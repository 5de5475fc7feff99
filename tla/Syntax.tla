------------------------------- MODULE Syntax -------------------------------
(***************************************************************************)
(* A notation for small programs, for the model-checked instances only.  A *)
(* program is written as nested node records, the way its source nests;    *)
(* Lay numbers the nodes, an owner before what it owns, and yields the     *)
(* flat tree of module Ast.                                                *)
(***************************************************************************)
EXTENDS Builtin

Q(parts)    == [Blank EXCEPT !.kind = "qname", !.parts = parts]
Qs(parts)   == <<Q(parts)>>
Tilde(q)    == [q EXCEPT !.conj = TRUE]
StartRef    == [Q(<<"start">>) EXCEPT !.given = builtinStart]
DoneRef     == [Q(<<"done">>)  EXCEPT !.given = builtinDone]

Package(x, ms)     == [Blank EXCEPT !.kind = "package", !.name = x,
                                    !.members = ms]
Def(w, x, ups, ms) == [Blank EXCEPT !.kind = "definition", !.what = w,
                                    !.name = x, !.specializes = ups,
                                    !.members = ms]
Usage(w, x, tys, ms) == [Blank EXCEPT !.kind = "usage", !.what = w,
                                      !.name = x, !.types = tys,
                                      !.members = ms]
Attr(x, tys, val)  == [Blank EXCEPT !.kind = "attribute", !.name = x,
                                    !.types = tys, !.value = val]
Links(k, x, qs)    == [Blank EXCEPT !.kind = k, !.name = x, !.links = qs]
Alias(x, parts)    == Links("alias", x, Qs(parts))
Import(parts)      == Links("import", NoName, Qs(parts))
ImportAll(parts)   == [Import(parts) EXCEPT !.wildcard = TRUE]
Op(k, o, es)       == [Blank EXCEPT !.kind = k, !.what = o, !.args = es]
Lit(ty)            == Op("literal", ty, <<>>)
Flow(w, from, to)  == [Blank EXCEPT !.kind = "usage", !.what = w,
                                    !.ends = <<Q(from), Q(to)>>]

\* A value of an enumeration: an attribute whose type the parser binds to
\* the enumeration itself; Lay puts the definition for -1.
EnumValue(x, e) == Attr(x, <<[Q(<<e>>) EXCEPT !.given = -1]>>, <<>>)

\* The lists of a node, and the order their elements are numbered in.
Lists == <<"types", "specializes", "redefines", "ends", "links", "targets",
           "value", "args", "members", "body">>

Place == [f \in Range(Lists) |-> CHOOSE i \in DOMAIN Lists : Lists[i] = f]

Kids(s) == s.types \o s.specializes \o s.redefines \o s.ends \o s.links
           \o s.targets \o s.value \o s.args \o s.members \o s.body

\* The blocks of nodes of the sources ss, the first numbered id; and one
\* block, the nodes of s and below.  def is the definition around them.
RECURSIVE LayAll(_, _, _), Lay(_, _, _)
LayAll(ss, id, def) ==
  IF ss = <<>> THEN <<>>
  ELSE LET block == Lay(Head(ss), id, def)
       IN  <<[at |-> id, nodes |-> block]>>
           \o LayAll(Tail(ss), id + Len(block), def)

NodesOf(blocks) == FlattenSeq([k \in DOMAIN blocks |-> blocks[k].nodes])

Lay(s, id, def) ==
  LET blocks == LayAll(Kids(s), id + 1,
                       IF s.kind = "definition" THEN id ELSE def)
      skip[i \in DOMAIN Lists] ==
        IF i = 1 THEN 0 ELSE skip[i - 1] + Len(s[Lists[i - 1]])
      node == [f \in DOMAIN s |->
                 IF f \in DOMAIN Place
                 THEN [k \in DOMAIN s[f] |-> blocks[skip[Place[f]] + k].at]
                 ELSE IF f = "given" /\ s[f] = -1 THEN def
                 ELSE s[f]]
  IN  <<node>> \o NodesOf(blocks)

\* The tree of a source file with the declarations ds.
Tree(ds) ==
  LET blocks == LayAll(ds, FirstUserNode, NoNode)
  IN  Program([k \in DOMAIN blocks |-> blocks[k].at], NodesOf(blocks))

\* All orders of the declarations ds.
Orders(ds) == {[i \in DOMAIN ds |-> ds[p[i]]] :
                 p \in Bijection(DOMAIN ds, DOMAIN ds)}
=============================================================================
