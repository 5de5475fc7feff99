--------------------------- MODULE MCExpressions ----------------------------
(***************************************************************************)
(* Sets of sources: all short sequences of the tokens of one kind, and     *)
(* longer chains of operators.                                             *)
(***************************************************************************)
EXTENDS Expressions

CONSTANT MaxLen

UpTo(tokens, n) == UNION {[1 .. k -> tokens] : k \in 1 .. n}

\* Calls, tuples, prefix and binary operators; names and members: right or
\* wrong.
Short == {"id", "-", "(", ")", ","}
Names1 == {"id", "1", "::", ".", "**"}

\* MaxLen times an operation of each kind around or behind a name, which may
\* be a keyword in quotes.
Around(x) == {<<"(">> \o x \o <<")">>, <<"-">> \o x, x \o <<".", "id">>,
              x \o <<"(", ")">>, x \o <<"(", "id", ",", "1", ")">>,
              <<"(">> \o x \o <<",", "'or'", ")">>, x \o <<"**", "id">>,
              <<"id", "*">> \o x, x \o <<"==", "1">>}
RECURSIVE Wrapped(_)
Wrapped(n) == IF n = 0 THEN {<<"id">>, <<"'or'", "::", "id">>}
              ELSE Wrapped(n - 1) \cup UNION {Around(x) : x \in Wrapped(n - 1)}

\* Units in brackets, balanced or not, behind operands, calls and tuples.
Units == {"id", "(", ")", "[", "]", "+"}

\* Operands, each with up to one prefix operator, and operators between.
Operands == {<<"id">>, <<"-", "id">>, <<"!", "1">>}
Rungs    == {"or", "xor", "and", "==", "<", "+", "-", "*", "**"}
Chains   ==
  {a \o <<o>> \o b \o <<p>> \o c : a \in Operands, o \in Rungs,
       b \in Operands, p \in Rungs, c \in Operands}
  \cup {<<"id", "**", "id", o>> \o b \o <<p, "id", q, "1">> :
       o \in Rungs, b \in Operands, p \in Rungs, q \in Rungs}

MCSources == UpTo(Short, MaxLen + 2) \cup UpTo(Names1, MaxLen + 1) \cup UpTo(Units, MaxLen + 2)
             \cup Wrapped(MaxLen) \cup Chains
=============================================================================
