--------------------------- MODULE Driver_proofs ---------------------------
(***************************************************************************)
(* Proofs about the driver, for every set of command lines.                *)
(***************************************************************************)
EXTENDS Driver, TLAPS

\* What the stage tells about the passes that have run: nothing has before
\* the parser is done, the enabled ones before p at pass p, all of them at
\* the back-end; and nothing is written before the end.
Reached ==
  /\ stage \in {"read", "tokens", "parse"} => clean = {}
  /\ stage \in Passes =>
       /\ stage \in Enabled(command)
       /\ clean = {q \in Enabled(command) : Position[q] < Position[stage]}
  /\ stage \in {"emit"} => clean = Enabled(command)
  /\ stage # "exit" => output = "none"

IInv == /\ TypeOK
        /\ Reached
        /\ InOrder
        /\ OutputIsChecked
        /\ ExitCodeTells

\* Every command line has its passes among the five.
LEMMA EnabledType == ASSUME NEW c PROVE Enabled(c) \subseteq Passes
  BY DEF Enabled

\* Each pass has a place of its own after the parser.
LEMMA PositionType ==
  /\ Position["parse"] = 0
  /\ \A p \in Passes : Position[p] \in 1 .. 5
  /\ \A p, q \in Passes : Position[p] = Position[q] => p = q
  BY DEF Position, Passes

\* The invariant holds at the start.
LEMMA InitIInv == Init => IInv
  BY EnabledType DEF Init, IInv, TypeOK, Reached, InOrder, OutputIsChecked,
                     ExitCodeTells, Stages, Backends, Passes

\* Where the driver goes when it has run what comes up to s.
LEMMA AdvanceIInv ==
  ASSUME TypeOK, Advance(stage), clean' \subseteq Enabled(command),
         output = "none", stage = "parse" \/ stage \in Passes,
         clean' = {q \in Enabled(command) : Position[q] <= Position[stage]}
  PROVE  IInv'
<1> DEFINE later == {p \in Enabled(command) : Position[p] > Position[stage]}
<1>0. /\ command' = command /\ output' = output /\ code' = code
      /\ \A p \in Enabled(command) : p \in Passes
      /\ stage \in {"parse"} \cup Passes
      /\ \A s \in {"parse"} \cup Passes : Position[s] \in Int
      /\ "emit" \notin Passes /\ "exit" \notin Passes /\ "read" \notin Passes
      /\ "tokens" \notin Passes /\ "parse" \notin Passes
      /\ "none" \notin Backends
  BY EnabledType, PositionType DEF Advance, Passes, Backends
<1>1. CASE later = {} /\ stage' = "emit"
  <2>1. ASSUME NEW q \in Enabled(command) PROVE q \in clean'
    <3>1. Position[q] \in Int /\ Position[stage] \in Int
      BY <1>0
    <3>2. ~ (Position[q] > Position[stage])
      BY <1>1
    <3> QED
      BY <3>1, <3>2
  <2>2. clean' = Enabled(command)
    BY <2>1
  <2> QED
    BY <1>0, <1>1, <2>2 DEF IInv, TypeOK, Reached, InOrder, OutputIsChecked,
                            ExitCodeTells, Stages, Enabled
<1>2. CASE \E p \in later : /\ \A q \in later : Position[p] <= Position[q]
                            /\ stage' = p
  <2>1. PICK p \in later : /\ \A q \in later : Position[p] <= Position[q]
                           /\ stage' = p
    BY <1>2
  <2>2. p \in Passes /\ p \in Enabled(command)
        /\ Position[p] > Position[stage]
    BY <1>0, <2>1
  <2>3. ASSUME NEW q \in Enabled(command)
        PROVE  q \in clean' <=> Position[q] < Position[p]
    <3>1. /\ Position[q] \in Int /\ Position[p] \in Int
          /\ Position[stage] \in Int
      BY <1>0, <2>2
    <3>2. Position[q] > Position[stage] => Position[p] <= Position[q]
      BY <2>1
    <3> QED
      BY <2>2, <3>1, <3>2
  <2>4. clean' = {q \in Enabled(command) : Position[q] < Position[p]}
    BY <2>3
  <2>5. TypeOK'
    BY <1>0, <2>1, <2>2 DEF TypeOK, Stages
  <2>6. Reached'
    BY <1>0, <2>1, <2>2, <2>4 DEF Reached
  <2>7. InOrder'
    <3>1. ASSUME NEW r \in clean', NEW q \in Enabled(command),
                 Position[q] < Position[r]
          PROVE  q \in clean'
      <4>1. /\ r \in Enabled(command) /\ Position[r] < Position[p]
            /\ Position[q] \in Int /\ Position[p] \in Int
            /\ Position[r] \in Int
        BY <1>0, <2>2, <2>4, <3>1
      <4>2. Position[q] < Position[p]
        BY <3>1, <4>1
      <4> QED
        BY <2>3, <4>2
    <3> QED
      BY <1>0, <3>1 DEF InOrder
  <2> QED
    BY <1>0, <2>1, <2>2, <2>5, <2>6, <2>7 DEF IInv, OutputIsChecked, ExitCodeTells
<1> QED
  BY <1>1, <1>2 DEF Advance

\* Every step keeps the invariant.
LEMMA StepIInv == IInv /\ [Next]_vars => IInv'
<1> SUFFICES ASSUME IInv, [Next]_vars PROVE IInv'
  OBVIOUS
<1> USE DEF IInv
<1>0. /\ "emit" \notin Passes /\ "exit" \notin Passes /\ "read" \notin Passes
      /\ "tokens" \notin Passes /\ "parse" \notin Passes
      /\ "none" \notin Backends /\ "tokens" \notin Backends
  BY DEF Passes, Backends
<1>1. CASE Read
  BY <1>0, <1>1 DEF Read, TypeOK, Reached, InOrder, OutputIsChecked,
                    ExitCodeTells, Stages
<1>2. CASE ReadFails
  BY <1>0, <1>2 DEF ReadFails, Exit, TypeOK, Reached, InOrder,
                    OutputIsChecked, ExitCodeTells, Stages
<1>3. CASE DumpTokens
  BY <1>0, <1>3 DEF DumpTokens, Exit, TypeOK, Reached, InOrder,
                    OutputIsChecked, ExitCodeTells, Stages
<1>4. CASE Parsed
  <2>1. /\ clean' = {} /\ Advance(stage) /\ stage = "parse"
        /\ output = "none"
    BY <1>4 DEF Parsed, Reached
  <2>2. {} = {q \in Enabled(command) : Position[q] <= Position["parse"]}
    BY EnabledType, PositionType
  <2> QED
    BY <2>1, <2>2, AdvanceIInv
<1>5. CASE ParseFails
  BY <1>0, <1>5 DEF ParseFails, Exit, TypeOK, Reached, InOrder,
                    OutputIsChecked, ExitCodeTells, Stages
<1>6. CASE PassEnds
  <2>1. /\ clean' = clean \cup {stage} /\ Advance(stage) /\ stage \in Passes
        /\ output = "none"
        /\ clean = {q \in Enabled(command) : Position[q] < Position[stage]}
    BY <1>0, <1>6 DEF PassEnds, Reached
  <2>2. stage \in Enabled(command)
    BY <2>1 DEF Reached
  <2> QED
    BY <2>1, <2>2, AdvanceIInv, PositionType, EnabledType
<1>7. CASE PassFails
  BY <1>0, <1>7 DEF PassFails, Exit, TypeOK, Reached, InOrder,
                    OutputIsChecked, ExitCodeTells, Stages
<1>8. CASE Emit
  BY <1>0, <1>8 DEF Emit, Exit, TypeOK, Reached, InOrder,
                    OutputIsChecked, ExitCodeTells, Stages, Backends
<1>9. CASE UNCHANGED vars
  BY <1>9 DEF vars, TypeOK, Reached, InOrder, OutputIsChecked, ExitCodeTells
<1> QED
  BY <1>1, <1>2, <1>3, <1>4, <1>5, <1>6, <1>7, <1>8, <1>9 DEF Next, Exited

\* The invariant holds in every reachable state.
LEMMA Invariance == Spec => []IInv
  BY InitIInv, StepIInv, PTL DEF Spec

\* The driver's variables keep their types.
THEOREM TypeCorrect == Spec => []TypeOK
  BY Invariance, PTL DEF IInv

\* Whatever is written has passed every check the command line asked for.
THEOREM OutputAlwaysChecked == Spec => []OutputIsChecked
  BY Invariance, PTL DEF IInv

\* Exit code 0 and a written output go together.
THEOREM ExitCodeAlwaysTells == Spec => []ExitCodeTells
  BY Invariance, PTL DEF IInv

\* No pass runs before an enabled one it depends on has run cleanly.
THEOREM AlwaysInOrder == Spec => []InOrder
  BY Invariance, PTL DEF IInv
=============================================================================
