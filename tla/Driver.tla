------------------------------- MODULE Driver -------------------------------
(***************************************************************************)
(* The driver (src/main.c): which passes run, in which order, when the     *)
(* back-end may write, and what the exit code is.  What a pass does is not *)
(* visible here, only whether it reported an error; module Pipeline fills  *)
(* the passes in and is shown to implement this specification.             *)
(***************************************************************************)
EXTENDS Integers

CONSTANT Commands    \* the command lines the driver may be started with

VARIABLES
  command,   \* the parsed command line
  stage,     \* what runs next
  clean,     \* the passes that have run without an error
  output,    \* what was written to stdout
  code       \* the exit code, once stage = "exit"

vars == <<command, stage, clean, output, code>>

Passes == {"resolve", "types", "redefinitions", "connections", "references"}

\* file      a path was given (otherwise the built-in sample is compiled)
\* tokens, json, sysml   the output flags   skip   the --no-* flags
Command == [file : BOOLEAN, tokens : BOOLEAN, json : BOOLEAN,
            sysml : BOOLEAN, skip : SUBSET Passes]

\* The flags stand for nothing else.
ASSUME CommandsAssumption == Commands \subseteq Command

\* The order main() calls them in, after the parser
Position == [parse |-> 0, resolve |-> 1, types |-> 2, redefinitions |-> 3,
             connections |-> 4, references |-> 5]

\* The passes a command line asks for: without the resolver, none.
Enabled(c) == IF "resolve" \in c.skip THEN {} ELSE Passes \ c.skip

Backends == {"tree", "json", "sysml"}

Stages == {"read", "tokens", "parse"} \cup Passes \cup {"emit", "exit"}

TypeOK ==
  /\ command \in Commands
  /\ stage \in Stages
  /\ clean \subseteq Passes
  /\ output \in Backends \cup {"tokens", "none"}
  /\ code \in {0, 65, 74}

----------------------------------------------------------------------------
Init == /\ command \in Commands
        /\ stage = "read"
        /\ clean = {}
        /\ output = "none"
        /\ code = 0

Exit(c) == /\ stage' = "exit"
           /\ code' = c
           /\ UNCHANGED <<command, clean>>

\* Mistake: any of the later passes comes next.
AdvanceSomewhere(s) ==
  LET later == {p \in Enabled(command) : Position[p] > Position[s]}
  IN  /\ stage' \in IF later = {} THEN {"emit"} ELSE later
      /\ UNCHANGED <<command, output, code>>

\* Mistake: what comes before s counts as later.
AdvanceBack(s) ==
  LET later == {p \in Enabled(command) : Position[p] # Position[s]}
  IN  /\ \/ later = {} /\ stage' = "emit"
         \/ \E p \in later : /\ \A q \in later : Position[p] <= Position[q]
                             /\ stage' = p
      /\ UNCHANGED <<command, output, code>>

\* On to the first enabled pass that comes after s, or to the back-end.
Advance(s) ==
  LET later == {p \in Enabled(command) : Position[p] > Position[s]}
  IN  /\ \/ later = {} /\ stage' = "emit"
         \/ \E p \in later : /\ \A q \in later : Position[p] <= Position[q]
                             /\ stage' = p
      /\ UNCHANGED <<command, output, code>>

Read == /\ stage = "read"
        /\ stage' = IF command.tokens THEN "tokens" ELSE "parse"
        /\ UNCHANGED <<command, clean, output, code>>

\* readFile exits by itself.
ReadFails == /\ stage = "read"
             /\ command.file
             /\ Exit(74)
             /\ UNCHANGED output

DumpTokens == /\ stage = "tokens"
              /\ output' = "tokens"
              /\ Exit(0)

Parsed == /\ stage = "parse"
          /\ Advance("parse")
          /\ UNCHANGED clean

\* Mistake: a syntax error leaves the exit code alone.
ParseFailsQuietly == stage = "parse" /\ Exit(0) /\ UNCHANGED output

ParseFails == /\ stage = "parse"
              /\ Exit(65)
              /\ UNCHANGED output

\* Mistake: the pass that comes next is taken for the one that ended.
PassEndsEarly == /\ stage \in Passes
                 /\ Advance(stage)
                 /\ clean' = clean \cup {stage'}

PassEnds == /\ stage \in Passes
            /\ clean' = clean \cup {stage}
            /\ Advance(stage)

\* Mistake: the result of a pass is ignored.
PassFailsIgnored == /\ stage \in Passes
                    /\ Advance(stage)
                    /\ UNCHANGED clean

PassFails == /\ stage \in Passes
             /\ Exit(65)
             /\ UNCHANGED output

Emit == /\ stage = "emit"
        /\ output' = IF command.sysml THEN "sysml"
                     ELSE IF command.json THEN "json" ELSE "tree"
        /\ Exit(0)

Exited == stage = "exit" /\ UNCHANGED vars

Next == \/ Read
        \/ ReadFails
        \/ DumpTokens
        \/ Parsed
        \/ ParseFails
        \/ PassEnds
        \/ PassFails
        \/ Emit
        \/ Exited

\* main() does not wait for anything.
Spec == Init /\ [][Next]_vars /\ WF_vars(Next)

----------------------------------------------------------------------------
(***************************************************************************)
(* Properties.                                                             *)
(***************************************************************************)
\* A back-end writes only what has passed every check the command line asked
\* for: no pass is forgotten, and none that failed is ignored (main.c:110-120).
OutputIsChecked == output \in Backends => clean = Enabled(command)

\* What a shell can tell from the exit code: 0 exactly when something was
\* written, so a failed run leaves no partial output (main.c:104-123).
ExitCodeTells == stage = "exit" => (code = 0 <=> output # "none")

\* Passes run in the order of their dependencies: whatever has run, the
\* enabled passes before it have run cleanly.
InOrder ==
  /\ \A p \in clean : \A q \in Enabled(command) :
       Position[q] < Position[p] => q \in clean
  /\ clean \subseteq Enabled(command)

\* Every run ends.
Exits == <>(stage = "exit")
=============================================================================
