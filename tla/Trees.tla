------------------------------- MODULE Trees --------------------------------
(***************************************************************************)
(* What the printers walk.  A tree is the sequence of the members of the   *)
(* program; a member has a kind, flags, its fields (see Declarations), and *)
(* `inner`: its own members and, behind them, those of each target of a    *)
(* succession.                                                             *)
(***************************************************************************)
EXTENDS Integers, SequencesExt

\* The list of a field of n, and whether it is there.
Field(n, f) == IF f \in DOMAIN n.has THEN n.has[f] ELSE <<>>
Has1(n, f)  == f \in DOMAIN n.has

Joined(separator, texts) ==
  FoldLeft(LAMBDA text, i : text \o (IF i = 1 THEN <<>> ELSE separator) \o texts[i],
           <<>>, [i \in DOMAIN texts |-> i])

\* What a name is, whether it stood in quotes or not.
Unquote(name) == IF name = "'or'" THEN "or" ELSE name

\* The pieces of a text between its commas.
RECURSIVE Split(_)
Split(text) ==
  LET commas == {i \in DOMAIN text : text[i] = ","}
      first  == Min(commas)
  IN  IF text = <<>> THEN <<>> ELSE IF commas = {} THEN <<text>>
      ELSE <<SubSeq(text, 1, first - 1)>> \o Split(SubSeq(text, first + 1, Len(text)))

\* The action that is declared in a target of a succession, `action [name] [: types]`.
InlineAction(target, members) ==
  LET colons == {i \in DOMAIN target : target[i] = ":"}
      head   == IF colons = {} THEN target ELSE SubSeq(target, 1, Min(colons) - 1)
      name   == [f \in IF Len(head) = 1 THEN {} ELSE {"name"} |-> <<Tail(head)>>]
      types  == [f \in IF colons = {} THEN {} ELSE {"types"} |->
                   Split(SubSeq(target, Len(head) + 2, Len(target)))]
  IN  [kind |-> "action", flags |-> {}, has |-> name @@ types, inner |-> <<members>>]
=============================================================================
