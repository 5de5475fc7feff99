----------------------------- MODULE Traversal -----------------------------
(***************************************************************************)
(* The passes are recursive walks over the tree.  Their recursion is a     *)
(* stack of calls still to be made, `todo`: its head runs next, and the    *)
(* calls a handler makes go in front of what was waiting.                  *)
(***************************************************************************)
EXTENDS Ast

VARIABLES
  ast,        \* the tree the passes work on
  resolved,   \* qualifiedName.resolved of every node
  errors,     \* the diagnostics of the running pass: <<message, node>>
  todo        \* the calls still to run, the next one first

Nodes == DOMAIN ast

\* A call op(node); `under` is the second argument some handlers have, the
\* enclosing declaration.
Item(Op, N) == [op : Op, node : N, under : N \cup {NoNode}]

DoIn(op, n, p) == [op |-> op, node |-> n, under |-> p]

Do(op, n) == DoIn(op, n, NoNode)

DoAll(op, ns) == [i \in DOMAIN ns |-> Do(op, ns[i])]

DoAllIn(op, ns, p) == [i \in DOMAIN ns |-> DoIn(op, ns[i], p)]

\* The node of the call that runs next, if there is one.
Current == IF todo = <<>> THEN {} ELSE {Head(todo).node}

\* The call that runs next is op(n).
Calls(op, n) == /\ todo # <<>>
                /\ Head(todo).op = op
                /\ Head(todo).node = n

\* It makes the calls `items`, then what was waiting goes on.
Then(items) == todo' = items \o Tail(todo)

Done == todo = <<>>
=============================================================================
