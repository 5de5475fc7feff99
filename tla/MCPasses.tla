------------------------------ MODULE MCPasses ------------------------------
(***************************************************************************)
(* All the files for checking what the five passes make of a program: what *)
(* they say of it, and that they run as the driver has them run.           *)
(***************************************************************************)
EXTENDS MCConnections, MCRedefinitions, MCTypes

MCTrees ==
  DrivenTrees
  \cup {Tree(ds) : ds \in MCConnected \cup MCRedefined \cup MCTyped \cup MCReferences}

\* A name of its own: TLC evaluates MCTrees once, and what a cfg puts in the
\* place of a constant each time.
MCFiles == MCTrees

\* What the passes say depends on the file alone; the files for the driver are
\* compiled under every command line.
MCInit == Init /\ (command = NoFlags \/ ast \in DrivenTrees)

\* Spec from these states, with its fairness written without ENABLED Next, which
\* TLC takes hours for: Next is possible until the last state, since none is a
\* deadlock, and changes something, since it ends a stage or a call.
MCSpec == /\ MCInit /\ [][Next]_vars
          /\ []<><<TRUE>>_vars \/ []<>(stage = "exit")
=============================================================================
