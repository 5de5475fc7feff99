# sml2c in TLA+

sml2c is a compiler front end for a subset of SysML v2, written in C. It reads
one source file, parses it into a tree, runs five passes over the tree, and
prints it again as SysML, as JSON or as a tree. It is one process with one
thread; nothing is persisted, and nothing is sent anywhere. What makes it hard is
not concurrency but *order*: the resolver declares and binds while it walks, so
what a name means depends on how far the walk has come; each later pass relies
on what the earlier ones wrote into the tree; every pass has a walk of its own,
which enters some nodes and skips others; and failures are tolerated in many
places so that one unknown name does not set off a chain of errors. The
specifications here are about these things.

## 1. The system

| Component | Source | State it keeps | Operations | Talks to |
|---|---|---|---|---|
| driver | `main.c` | flags, which pass is next, exit code | read, dump tokens, parse, five passes, emit | calls everything below in order; stops at the first pass that returns false |
| scanner | `scanner.c` | position in the text, line, the last block comment it skipped | `scanToken`, `scanDocBody`, `takeLastBlockComment` | called by the parser, one token ahead of it |
| parser infrastructure | `parser_common.c` | `parser.current/previous`, `panicMode`, `hadError` | `advance`, `match`, `consume`, `errorAt`, `synchronize` | all parse functions |
| declaration parser | `parser_decl.c` | the tree under construction | `declaration` and one function per construct | builds the tree; binds `start`, `done` and the types of enumeration values itself |
| expression parser | `parser_expr.c` | position; the table of precedences | `parsePrecedence` and its parselets | called for values, constraint bodies, guards |
| syntax tree | `ast.h`, `ast.c` | nodes; `resolved`, `conjugationParity`, `isReference` are filled in by the passes | make, append, set | shared by all |
| built-in library | `builtin.c` | package `ScalarValues`, actions `start`, `done` | made once, on first use | parser, resolver, type checker |
| name resolver | `resolver.c`, `resolver_scope.c` | stack of scopes (symbols, wildcard imports); bindings and parities; errors | declare, visit, enter, leave, bind | writes what every later pass reads |
| type checker | `typechecker.c` | errors | checks of values, constraint bodies, assertions, successions | reads bindings |
| redefinition checker | `redefchecker.c` | errors; *bindings* of redefinitions | find, match qualifier, compare types and constants | reads and writes bindings |
| connection checker | `connectchecker.c` | errors | checks the ends of connections, flows, bindings | reads bindings, parities, directions |
| referential pass | `referentialchecker.c` | errors; `isReference` | infers reference flags | reads owners, kinds, directions |
| printers | `codegen_sysml.c`, `codegen_json.c`, `ast.c` | none | one recursive walk each | read the tree |
| tools | `tools/`, `verify-tokens.sh`, `Makefile` | none | JSON to drawings; scripts | outside the compiler |

What makes each of them correct, and what is hard about it (the full list, with
the lines, is under `hazards` in `PROJECT.json`):

- **Resolver.** A name means the innermost declaration around it, wherever in
  the file that stands; a duplicate is reported; a name is bound, or reported, or
  deferred for one of two reasons, and never rebound. Hard: two phases per scope
  over nested scopes, imports that look up their target while the scope is being
  filled, inherited members that are looked up through supertypes which the same
  walk is still binding, aliases that are followed once, at an arbitrary time,
  cycles that are cut by a depth bound, conjugation parity along a path.
- **Checkers.** What is accepted means what it should: flows go from where
  something comes out to where something goes in, redefinitions narrow and keep
  constants, expressions evaluate. Hard: each check sees one link of a chain, and
  is lenient when something is unknown; chains of lenient links may lead anywhere.
- **Driver.** Nothing is printed that did not pass the checks asked for, and the
  exit code tells.
- **Scanner.** Every piece of the text is the longest there is, of the right kind and on
  the right line, and comments reach who asks for them. Hard: what it does depends on what
  the parser has just consumed (`doc`), and it keeps a comment for the parser in a slot that it
  clears at the next token; a slash may begin five things, told apart up to four characters ahead.
- **Expression parser.** Precedences are spread over a table and a recursion.
- **Printers.** What is printed as SysML is read back as the same tree; both dumps,
  as JSON and as lines, tell all that is in the tree, and JSON is well formed. Hard: printers and parser are written
  separately and must agree, for every kind of node, on keywords, order, quotes and
  parentheses.
- **Declaration parser.** A file is accepted if and only if it is right, and each
  declaration goes into the one whose braces are around it; an error is reported
  in the statement that is wrong, and it hides no other. Hard: bodies are opened
  and closed in half a dozen functions, some are skipped as a whole; after an
  error the parser is in panic mode, swallows what follows, and skips to where a
  declaration may start, in the middle of nested bodies; loops that test for a
  brace or the end of the file only must still end.

## 2. The modules

| Module | Models | Remarks |
|---|---|---|
| `Ast` | the tree of `ast.h`, and the member lookup of `resolver_scope.c:100-225` | a tree is a function from numbers to node records; pointers are numbers, node lists are sequences; `IsAst` is what the parser guarantees |
| `Builtin` | the library of `builtin.c` | fixed nodes, below those of the user |
| `Traversal` | the recursion of the passes | see below |
| `Resolver` | `resolver.c`, `resolver_scope.c` | own specification, and the properties of scoping |
| `TypeRelation` | `specializesType` of the type checker | used by two passes |
| `TypeChecker`, `RedefChecker`, `ConnectChecker`, `ReferentialChecker` | one pass each: one action per call of its walk, and the operators it decides with | no specification of their own: they only run inside the pipeline |
| `Driver` | `main.c`, the passes being black boxes that succeed or fail | the abstract specification |
| `Pipeline` | `main.c` with the five passes filled in | composes all of the above by INSTANCE; implements `Driver` |
| `Scanner` | `scanner.c`, `advance()` of `parser_common.c`, and what the printer writes of names and comments | texts are sequences of characters; see below |
| `ExpressionParser` | `parser_expr.c` | recursive operators, as the code is |
| `Declarations` | `parser_decl.c` and `parser_common.c` | the parser of whole files, with panic mode and recovery, and the nodes it makes; see below |
| `Trees` | what the printers walk | helpers shared by the printers |
| `ExpressionPrinter`, `SysmlPrinter` | `codegen_sysml.c` | one operator per function; texts are token sequences |
| `JsonPrinter` | `codegen_json.c` | the same, for the tokens of JSON |
| `TreePrinter` | the printer of `ast.c` | the same, for the lines that are printed without a back end |
| `Expressions` | expressions: source, parse, print, parse again | composes `ExpressionParser`, `ExpressionPrinter` and `TreePrinter` |
| `RoundTrip` | files: parse, print, parse again | composes `Declarations`, which has no specification of its own, and the printers |
| `Syntax` | nothing: a notation for small programs | only for instances |
| `MC*` | the instances TLC checks | |
| `Ignorance` | nothing: turns one known type into an unknown one | what `IgnoranceIsAccepted` compares |
| `Resolver_proofs`, `Coverage_proofs`, `Binding_proofs` | theorems about `Resolver`, section 5 | each extends the one before |
| `Scanner_proofs`, `Driver_proofs`, `Pipeline_proofs` | theorems about the module they are named after | `Pipeline_proofs` takes those of `Driver` and `Resolver` by INSTANCE |
| `Types_proofs` | theorems about the type checker | extends `Pipeline_proofs` |
| `Ast_proofs` | lemmas about trees: node lists, owners, lineages, what the lookups give; recursion over numbers | used by the proofs about `Resolver` and `Pipeline` |

**Walks.** The C passes are recursive functions over the tree. Here the recursion
is a sequence `todo` of calls still to be made. An action takes the first one;
the calls the C function makes go in front of the rest (`Then`). So every action is
one C function body, from its entry to the calls in it, a scope is
opened and closed by calls of its own (`enter`, `leave`), and the order of the
model is the order of the code. This is needed because in the resolver the *order*
of the calls is what may go wrong.

**The declaration parser.** Its functions are sequences of steps: a call of
`advance`, `consume`, `match`, `error` or of another function, a test of the current
token with what follows in each case, a loop. `Do` says what a step does to
the position, the panic mode and the errors, so each parse function is written once,
as the list of its steps in the order of the code, and reads like the grammar
comment above it in the source. Steps run up to where a body of declarations is
opened or the declaration is done. That is one action: a turn of the loop of a body
(`Declare`, `EnumValue`, `ConstraintParameter`, `ConstraintExpression`), or the end of
a body with what stands behind it (`Close`). The loops that are open are the stack
`frames`. Tokens are classes that no function tells apart (`part` is `part`, `port` and
`item`, `public` and `in` stand for their like); an error is the position of the token
it is reported at, an error inside an expression the position of the expression.
A node that is finished is in `members`: its kind and flags, its names and expressions by
the field they are put into (`has`), the body it is in, and the bodies it has opened. What a
function drops (the types of a definition, the payload's name of a message, redefinitions
behind an end) is dropped here. Of the scanner's errors only the missing body of a `doc` is there.
The model was compared with the compiler itself, token by token on a line each: on all
files of the run, and on 27,899 more in which one token of a statement is replaced by any other,
both refuse the same files, with errors at the same tokens except inside expressions. For
5,312 files with every statement the SysML print and both dumps of the model
are those of the compiler.

**The scanner.** A text is a sequence of characters, one for each class that the code tells apart.
An action is a turn of the loop of `skipWhitespace()` or `scanDocBody()`, or what is behind it;
`caller` is the function that runs, `Advance` the parser that calls. `doc` is
the only keyword, since the others take the same way through the table. `pieces` and
`taken` are histories that no guard reads, except for the parser's last token. The tokens of 18,437 texts were compared with those of
`--dump-tokens`, and agree.

**The printers** are pure functions of the tree, so they are operators. A tree is
rebuilt from `members` (`treesIn`). What is printed is kept as the tokens that the
scanner finds in it: that they do not merge, and that names and comments are found again
inside a text, is the business of `Scanner` (`LongestPieces`, `EchoesSurvive`).

**Data.** Names are strings compared for equality, literals are classes of types,
tokens have no position, diagnostics are a message kind and the node concerned, as
a set: wording and order of messages are not modelled. `nodeName` decides which
nodes have a name, which is all the C code uses. The depth bound of the C code
(32) is the constant `MaxDepth`; chains of aliases and circles of supertypes are
cut at this depth as in the code.

**The `Mistake:` operators.** Some definitions are preceded by a variant, marked
`Mistake:` in its comment, that has a plausible bug in it. No specification uses
them. Each belongs to a property: put in the place of the definition it varies,
it makes TLC refute that property. This is how one sees that the property
says something about the code; `mutants` in `PROJECT.json` lists the pairs.

## 3. The runs

Every run's configuration is `<run>.cfg`. All models stop by themselves; where
the specification has a stuttering action at the end (`Finished`, `Exited`, `Stays`)
deadlock is checked, so that a call that no action takes would be found.

| Run | Module | States | Shows |
|---|---|---|---|
| `Resolver` | `MCResolver` | 4,235 | scoping, duplicates, finality of bindings, on 153 files |
| `Passes` | `MCPasses` | 47,202 | what the five passes accept means what it should, on 479 files; `Pipeline` implements `Driver`, with its liveness |
| `Driver` | `MCDriver` | 2,944 | output, exit code, order, end, under all 512 command lines |
| `Scanner` | `MCScanner` | 157,978 | pieces, lines, comments and doc bodies of 18,437 texts, and that the scanner ends |
| `Expressions` | `MCExpressions` | 213,328 | the parser accepts exactly the expressions among all short token sequences; grouping, units, and which trees survive the round trip |
| `RoundTrip` | `MCRoundTrip` | 263,749 | progress, acceptance, placement, recovery and comment bodies of the declaration parser, which trees and names survive the SysML print, and what the dumps tell, on 49,156 files |
| `ResolverOrder`, `ResolverAlias`, `PipelineNarrow`, `PipelineEnds`, `ExpressionsPower`, `RoundTripPrinted` | | | disagreements between code and comments, section 6 |

**Bounds, and why they are enough.** The input is a file, and the set of files is
infinite; so each run is given a family that contains every case its property
tells apart.

- `Resolver`. Bindings depend on the *order* of declarations and on the way a
  path takes. So: five siblings that refer to each other (a supertype, a subtype,
  a part with a conjugated type, an alias for it, a flow through both) in all 120
  orders; four top-level declarations with wildcard imports of known, unknown and
  built-in packages in all 24; an alias, its target and its use in all 6; a
  file with one of every construct the walk distinguishes; a file with
  circular supertypes, a self-alias and shadowing. `MaxDepth` is 32 as in the code.
- `Passes`. Connections: flows between ports of ports of parts, with each of the
  types on the way conjugated or not, own or inherited, and every direction (a
  full product); ends that are no ports. Redefinitions: chains of three with every
  combination of types and of ways to name the target, and every combination of
  constants with the legal targets; two supertypes with a feature of the same
  name, redefined with a qualifier that names either, their common supertype, a package or
  an outer scope. Types: every class of operators over operands of every class of
  types, known and unknown, and over operators of each class, one that
  the checker has no rule for (`xor`) among them; as values of attributes of every class, one of a type with two
  supertypes; supertypes in chains and circles. References: usages of three kinds in owners
  of six, directed or not, marked or not. `MaxDepth` is 32 as in the code.
  For the driver: a file that everything accepts, one for each pass that this
  pass rejects, one with circular types, under eight command lines that leave out each
  pass and choose each printer; the other files under the plain command line.
- `Driver`. All command lines; nothing is bounded.
- `Scanner`. All texts of up to 6 characters over `/ * newline`, alone and (with a blank for the
  newline) behind `doc`, of up to 5 over the characters of numbers and names, of operators, and of
  quotes; all sequences of up to three out of 21 words, each the start, the whole or
  a near miss of something the scanner knows. It looks four characters ahead at most, and
  remembers between tokens only the line and one comment, so three words are enough for
  one to come too early, in its place, and too late.
- `Expressions`. All sequences of up to 6 tokens over `id - ( ) ,`, of up to 5
  over `id 1 :: . **`; all chains of two binary operators from every rung of the
  ladder over operands with and without prefix operators, and chains of four
  that begin with a power; operands wrapped up to 4 times in every construct;
  units in brackets, balanced or not, up to 6 tokens. A Pratt parser decides with one
  precedence and one token at a time: two operators and a prefix are all that meet.

- `RoundTrip`. For the parser: all files of up to 5 tokens over `part def id : ; { }`, and all files
  one edit away from a nested one: over these tokens the grammar can be written down
  independently (`AreParts`). Some 70 statements, at least one for every path of every
  parse function, right and at each single deletion, replacement or insertion of a
  token, in each of eight kinds of body, next to right statements and next to other
  wrong ones; bodies of enumerations and constraints, inline actions, skipped blocks, each with
  every single edit. An error lives between the statement that causes it and the next
  one that is read, and a body knows only its own brace, so two statements and two
  levels of braces are what can meet. And a block comment at each place of a comment of
  each form. For the printers: some forty statements more, so that each printer
  function meets each field there and missing; with each modifier; at the top, in a package, in a definition
  and in an inline action; a comment before each; each behind statements
  whose end is easily mistaken; bodies nested under every head; each edit of each that is still accepted.
  The printers are functions of one node and its members, so what one statement and its
  neighbour can show is all there is. What is printed is parsed again, and the properties of the parser
  are checked of that as well. `RoundTripPrinted` has the statements alone.

**What the properties say.** Each is stated in words before its definition. Type
invariants are stated of `Driver` and `Resolver`, where they are what the proofs rest on; in the other
modules a value of another type would stop TLC or break one of the properties. The
ones about the resolver compare the walk's result with lexical scoping *as read
off the finished tree*, without stack or order (`Enclosing`, `Declared`). The ones
about the passes compare what is accepted with a meaning that does not use the
pass's own operators: paths and their conjugations (`Carried`), reachability
instead of a bounded search (`Above`, `IsSubtype`), evaluation instead of type rules
(`ValueOf`). `AcceptsTheLanguage` and `GroupsByPrecedence` compare the recursive
descent with a declarative grammar and a split at the loosest operator.
`GroupsByPrecedence` says nothing of a power that is raised to a power; `PowersGroupFromTheRight` does.
`WalkedEndsArePorts` compares a walk with the tree, for the usages that hang under the root and in no inline action; `EndsArePorts` is
about those in inline actions too. `CommentsTakeTheirBody` says whose body a comment takes, and nothing of one in the middle of its header. `RedefinitionsLeadUp` is
`LeadsToInherited`, that what is redefined is a feature of a supertype of that name, and `QualifiersSelect`, which speaks of
qualifiers where only one feature can be meant, and asks for that one. `ConstantsStayConstant` goes from one redefinition
to the next, as long as they are those of attributes of types and of usages, the only ones the pass visits (`Redefining`).
`SpecializesIsReachability` and `TypingIsSound` are about files with at most one definition more than `MaxDepth` has steps
(`FewDefinitions`): in a longer chain the code gives up, and takes a subtype for a stranger. `TypingIsSound` is about files
in which no type descends from two built-in types with nothing in common (`KindsAreApart`; the checker takes the value for the first of them it tests for).
It says three things of an attribute's value: without a complaint it can be evaluated; if it can be evaluated there is none, except
for comparisons of things that can never be equal (`Meets`); and its type agrees with the one that is declared. `LongestPieces` compares the scanner with a grammar
of whole pieces, which says nothing of the order in which characters are read;
`KeptIsTheNearest` and `DocHasItsBody` say what the parser gets in terms of the pieces in front of its token.
`RoundTrips` is an equivalence: `Gap` lists the forms a tree must have not to be read back, and
each of them fails, all others succeed. `NamesSurvive` counts the names in the text and in its
print, `Lost` being the places from which the parser keeps none; `DumpsTellAll` reads the JSON with a parser for JSON, changes the tree in one place,
and asks for another dump, of either kind.
`PlacedByBraces` compares the stack of loops with counting braces. `ErrorsAreContained`
and `JudgedAlone` cut a file into statements without the parser (`Statements`: at
semicolons and braces of the right depth) and speak of *orderly* files, in which each
wrong statement ends at a semicolon and holds no brace and no keyword that could be taken for a new
one; in others the parser may go astray, as every parser of this kind does. `JudgedAlone`
compares the verdict on a statement in the middle of a file, after errors, with that
of the same parser put in front of it afresh.

## 4. Fairness

There is one thread, and it waits for nothing: `WF_vars(Next)`, and no more, is
assumed of `Driver`, `Resolver`, `Pipeline` and `Scanner`. It says that the process
is scheduled. `Exits` is then a property of the driver's control flow, and
`ImplementsDriver` includes the driver's liveness: under it every pass must come to
an end, for circular types also. (`MCPasses` writes this fairness without ENABLED `Next`, whose evaluation takes TLC hours:
the walk goes on for ever or the program exits. It is the same as long as a step is possible until the exit, and changes something. The first is what the
run shows, since it meets no deadlock; the second holds since every step ends a stage or takes a call from `todo`.) The driver cannot be stopped from outside in
the model; reading a file may fail, reading may not hang.

For `Scanner` it gives `Ends`: the parser calls until it has the end of the text, and
neither its loop over errors nor any loop of the scanner turns for ever, whatever is open at the end of the text.

`Expressions` and `RoundTrip`, with `Declarations` in it, assume no fairness. That the declaration parser ends is
shown as a safety property: every step makes `Left` smaller (`Progress`), and some
step is possible until it is done (no deadlock). So it ends after at most twice as many
turns of its loops as the file has tokens.

## 5. What is proved

For every value of the constants, with TLAPS.

**Resolver** (`Resolver_proofs`, `Coverage_proofs`, `Binding_proofs`), for every set of trees that are as the
parser makes them (`ProgramsAssumption`: `IsAst` of `Ast`, which is finiteness, types, `IsShaped` and `HasOperands`, and the library of
`Builtin`, `HasLibrary`; see section 7) and every depth bound:

- `TypeCorrect`: `Spec => []TypeOK`. `TypeOK` is not inductive by
  itself in two places: bindings come from the recursive member lookup, and
  the stack of scopes is used through `Front` and its last element. The first is met by the
  guard of `Bind` (a lookup result is used only when it is a node); the second
  needs nothing, because updating outside a sequence's domain changes nothing.
  Lemmas: every list of calls a handler makes is a list of calls to nodes of the tree
  (`CallsOfType`), one per construct.
- `BindingsStayFinal`: `Spec => BindingsAreFinal`: no step changes a
  binding, a parity of a bound name, or withdraws a diagnostic. It needs no
  invariant but types; the argument is by actions, of which only `Bind` writes bindings.
- `NamesAreScopedLexically`: `Spec => []LexicalScoping`: a name that is looked up means the
  innermost declaration around it as the finished tree shows it. The property compares the
  stack, at every moment, with a recursion over owners, so it needs what relates
  them. `Nested` says that the calls still to be made close the open scopes, innermost first,
  each `leave` with nothing in front of it that belongs elsewhere, and that every call is
  to a node whose owners are those of the stack. `ScopesFilled` says that every scope but the
  innermost knows all members its owner declares, and the innermost those whose
  `declare` is no longer to be called (`FilledWhile`). `InitNested`, `StepNested`, `InitFilled` and `StepFilled`
  make them inductive, `ScopesAreLexical` draws the conclusion. That a
  member has one owner (`OneOwner` in `Ast_proofs`) is why no other part of the walk
  declares it, and that children have larger numbers than their parents is why the recursion over
  owners is well founded.
- `DuplicatesAreReported`: `Spec => []DuplicatesReported`: when the walk is over, exactly the repeated declarations
  have been reported. (Here and below, what counts is what hangs under the root: `Lineage`.) This needs that every declaration is met, which neither `Nested` nor `ScopesFilled` says.
  A call *owes* tasks: names to look at and members to declare, its own and those of all calls it leads to
  (`Owes`). `EachOnce` says that no two calls in `todo` owe the same task. Its heart is `StepPays`: a step takes off
  the debt exactly the task of the call it makes, so that nothing is forgotten and nothing is met twice;
  it rests on one lemma per kind of handler (`CallsMeet`, `BodyMeets`, `ArgsMeet`, ...), that what the
  handler puts into `todo` owes what is below its node. At the beginning everything is owed
  (`InitOnce`), at the end nothing (`DoneOwesNothing`). `ReportedSoFar`: a duplicate is reported unless its declaration
  is still owed.
- `NamesMeanTheInnermost`: `Spec => []ScopingIsOrderFree`, and `NoNameFallsThrough`:
  `Spec => []UnboundIsReportedOrDeferred`: at the end, a name that is not a path is bound to what the innermost
  declaration around it says, if there is one; a name that is not bound is reported, or is a path through something
  unknown, or stands below a wildcard import that led nowhere. Both are read off `NamesSettled`: a
  name whose look is still owed is untouched, every other is bound as the text says, or reported, or deferred,
  one of the three (`Settled`). When a name is looked up its scopes are complete (`ScopesFilled`), and then
  the lookups of the code give what the text declares (`LocalComplete`, `ChainIs`, `WildIs`, `PathHead`).
  `WildcardsTried` is why a deferred name has an import to blame: a scope knows only
  imports that have been tried. That later steps do not unsettle a name is `BindingsStayFinal` for the
  name itself, and `DerefStays` for what it means: an alias that has been followed to its
  end is followed to the same end ever after.

With these, all invariants and the action property that the run `Resolver` checks are theorems.

**Driver** (`Driver_proofs`): `TypeCorrect`, `OutputAlwaysChecked`, `ExitCodeAlwaysTells`,
`AlwaysInOrder`, for every set of command lines. None is inductive alone. The
invariant `IInv` adds `Reached`: at pass *p* exactly the enabled passes before
*p* have run, at the back end all of them, and nothing has been written before
the end. The heart is `AdvanceIInv`, that going to the *least* enabled pass after the
current one keeps this.

**Compiler** (`Pipeline_proofs`, `Types_proofs`), for every set of programs (`ProgramsAssumption`) and of command lines:

- `StepsAreTheDrivers`: `Pipeline` starts where `Driver` starts, and each
  of its steps is a step of `Driver` or none (`D!Init /\ [][D!Next]_(D!vars)`), whatever the
  tree and whatever the passes find. From it and the theorems about `Driver`, without any invariant of
  `Pipeline`: `OutputAlwaysChecked`, `ExitCodeAlwaysTells` and `AlwaysInOrder` for the whole compiler.
- `OwnedFeaturesAlwaysHaveOwners`: `Spec => []OwnedFeaturesHaveOwners`, `WalkedEndsAreAlwaysPorts`,
  `ConstantsAlwaysStayConstant`, `TypedChainsAlwaysNarrow`: what the referential pass, the connection checker and
  the redefinition checker accept.
- `RedefinitionsLeadToInherited`: `Spec => []LeadsToInherited`, the part of `RedefinitionsLeadUp` without qualifiers.
- `SpecializationIsReachability`: `Spec => []SpecializesIsReachability`, and
  `TypingIsAlwaysSound`: `Spec => []TypingIsSound` (both in `Types_proofs`).

All but the first rest on one invariant, `Fit`: the driver's, the tree of a program, bindings to nodes of it; while the resolver
runs, the resolver's own inductive invariant, taken over with its theorems (`ResolverInv`); and while another pass runs,
`OnWalk`: the calls still to be made are calls of this walk. `BeginsFit` is the handover from one pass to the next.

What a pass has done with a node can only be said once its walk has been there. `Pending` are the nodes at or below
the calls still to be made, `Visited` those of the walk (`Walked`) that are not. `WalkGoesOn` is the heart: a step takes its own
node, and no other, out of `Pending`, because the calls it makes are to the members of the node. At the beginning of the walk everything is pending (`WalkBegins`), at the end nothing
(`WalkEnds`). Each property then has an invariant of its own, "of every visited node, what the pass promises or a diagnostic", whose
step is one lemma for the visited node and one for all others:

| Invariant | says of a visited node | for |
|---|---|---|
| `ReferencesSoFar` | it is marked as a reference, or need not be one | `OwnedFeaturesHaveOwners` |
| `EndsSoFar` | what is wrong with its ends is reported | `WalkedEndsArePorts` |
| `RedefinedSoFar` (`RedefinedWell`) | constants and types of what it redefines are right, or are reported | `ConstantsStayConstant`, `TypedChainsNarrow` |
| `LedUpSoFar` (`LedUp`) | what it redefines is a member of a supertype of its owner, or is reported | `LeadsToInherited` |
| `TypesSoFar` | if it is an attribute, all that is wrong with its value is reported; nothing is that is in no expression | `TypingIsSound` |

That later visits leave this alone is the difficulty of the redefinition checker, which binds while it checks: it binds only the redefinitions
of the node it visits, and no supertype is a redefinition (`OnlyRedefinitions`, `OthersStay`, `TypesStay`), so that no subtype relation changes.
Chains of redefinitions are closed under one link by taking the least set that is (`AboveIs`). `WalkedEndsArePorts` speaks
of all that hangs under the root outside of inline actions; that the code's walk comes to all of it is `RestIsWalked`, with `InlineIsClosed`.

`SpecializationIsReachability`. That what the test accepts is a subtype is an induction over the depth (`SpecializesIsSubtype`). The converse needs that
the bound is deep enough: the set of definitions accepted from a depth on (`Accepting`) grows as the depth gets smaller and more steps are left, and once it is the same for
two depths in a row it is closed under subtypes. A set of definitions cannot grow more often than there are definitions, so with at most `MaxDepth + 1` of them it is
closed at depth 0, where the code starts (`FromTheDepth`, `SubtypesAreAccepted`).

`TypingIsAlwaysSound`. The checker's result and the evaluation are two recursions over the same expression. That each is defined by its equations is
`DefinedFromLists`; `FromOperandsUp` is induction from the operands to the expression (operands have larger numbers). `OperatorAgrees` compares the rules for
one operator, class by class (`AppliedByClass`), and is where `KindsAreApart` is needed;
`ValuesAgree` lifts it to expressions. `ComplaintsFit` says where the complaints are. What is left is that a complaint found at the end about a part of *this*
expression was made when *this* expression was checked: expressions of two owners have no node in common (`ExpressionsApart`).

**Scanner** (`Scanner_proofs`), for every set of texts:

- `LinesAlwaysTell`: the line that is counted along the way is the number of line ends in
  front of the place. With the types it is inductive: every place where the code
  adds one is a place where it passes a line end, in each of the eight loops.
- `KeptIsAlwaysTheNearest` and `DocAlwaysHasItsBody`: a comment the parser takes is the last one between its
  previous token and the current one, and what follows `doc` is a body or an
  error. Both are statements about `pieces` at the moment of a token; `KeptInv` says what holds between two: the slot
  is empty if no comment was passed since the last token, else it is the latest. `CallerTells` says which loop runs on
  whose behalf.
- `PiecesAreAlwaysLongest`: `Spec => []LongestPieces`: each piece is what the grammar calls a piece of its kind, and none that is longer
  begins at its place. What the grammar can have at a place (`StandsWord`, `StandsNumber`, ... `StandsPiece`) is read off the definitions of
  the grammar once (`PieceStands`, `PieceBegins`: the first character or two tell the kind), and `NothingLonger` is the argument all share: a piece that
  is one for the grammar, and ends where no piece of that beginning can go on, is the longest. One lemma for each loop of the scanner shows that it stops there
  (`WordIsLongest`, ... `PunctuationIsLongest`), `LongestRead` collects them. With the types, `LongestPieces` is then inductive as it stands.
- `EchoesAlwaysSurvive`: `Spec => []EchoesSurvive`: a name or a comment that is printed is found again by the scanner as it was, except for those
  the property names. `PiecesInPlace` says that a piece is the part of the text it was read from and fits the grammar of its kind, so what the printer is given
  has one of four forms (`WhatIsKept`); what is printed for each form is again a piece, by the grammar alone (`WordSurvives`,
  `QuotedSurvives`, `DocSurvives`, `CommentSurvives`).

With these, all invariants that the run `Scanner` checks are theorems.

**What the proofs rest on.** `Ast_proofs`. Every nonempty set of numbers has a least one
(`LeastNumber`), and a recursion over numbers whose calls go down, in the numbers or in a rank of
them, defines a function (`DefinedAlong`, `DefinedByRank`). Induction theorems of the library take the formula as a
parameter, which no installed prover can instantiate; so facts about all owners of a node are
proved by taking the least node for which they fail. The node lists of a
tree are disjoint, so everything has one owner (`OneOwner`), and what lies below two children of a
node lies apart (`BelowApart`). And what the lookups of `Ast` give: the first member of a name (`FirstIs`), and the
declaration behind a chain of aliases (`DerefIs`, `DerefStays`).

**Only model-checked.**

- Liveness (`Exits`, `Ends`, the fairness part of `ImplementsDriver`), which is out of the prover's reach, as is ENABLED.
- Everything in `Expressions`, `Declarations` and `RoundTrip`: their operators are
  recursive over tokens or trees, and what such an operator computes for all inputs cannot be proved here.
- `FlowsAreDirected`: a path's bindings and parity are written link by link, in the order in which the resolver's walk comes to
  them; the property follows them through parts and ports whose types may be bound before or after. It needs an invariant of the resolver that says how
  far each path has been followed, which `Settled` does not: it speaks of names that are no paths.
- `QualifiersSelect`, the other half of `RedefinitionsLeadUp`: that a qualifier finds the only feature meant is a statement about the member lookup
  through all supertypes, which is cut at `MaxDepth`.
- `IgnoranceIsAccepted`, because tlapm 1.4.5 cannot expand definitions of an instance with a parameter (`Less(S)`).

## 6. Where the code and its documentation disagree

Shown by a run (`findings` in `PROJECT.json` quotes the lines):

| Run | Disagreement |
|---|---|
| `ResolverOrder` | `resolver.c:13-14` promises that sibling references work regardless of order; a path through a part whose supertype list has not been resolved yet is rejected |
| `ResolverAlias` | `resolver.c:141-143` promises that consumers see the declaration, not the alias; a name that is looked up before its alias is bound stays bound to the alias |
| `PipelineNarrow` | `redefchecker.h:15-17` promises narrowing; an untyped redefinition in the middle of a chain breaks it |
| `PipelineEnds` | `connectchecker.c:3-6` and `connectchecker.h:3-4` and lines 116 and 209 of the repository's `README.md` say that every end must be a port; the walk does not enter the inline action of a succession, and what is connected there may be anything |
| `ExpressionsPower` | `parser_expr.c:52` calls `**` right-associative; `a ** b ** c` is `(a ** b) ** c`, since `binaryExpr()` reads every right operand one precedence higher |
| `RoundTripPrinted` | `codegen_sysml.h:3-6` promises that the print is parseable and gives an equivalent tree; `fork;` is printed as `action;`, which is refused |

`Gap` in `RoundTrip`, and the exceptions in `EchoesSurvive`, are the other ways in which that promise fails:

- a quoted name that spells a keyword, as `'or'`, loses its quotes (`codegen_sysml.c:50-58`);
- a negated operand of `**`, `.` or a call gets no parentheses (`codegen_sysml.c:227`; the comment at
  207-209 promises "the same tree on round-trip"): `(-a) ** b` comes back as `-(a ** b)`;
- the ends of an allocation are printed behind `connect`, a flow or message with one end as if it had two;
- `transition x then y` is read back with `x` as its source; bindings, allocations and
  satisfy statements lose their visibility; a comment without a name takes the next identifier
  for its name; a comment body that begins with `/` closes at once.

Seen while modelling, in the model as the code has it, without a run of its own:

- `resolver_scope.c:158` says cycles are "defanged with a depth bound". With two
  circular supertypes per definition the search for a missing member branches
  at every level and takes 2^32 steps.
- `resolver.c:121-124`: the conjugation of a part is lost when the path goes through an alias for it.
- `resolver.c:19-21`: with an unresolved `import P::*` at the root every undefined name in the file is accepted.
- `resolver_internal.h:78-80`: `derefAlias` of `alias s for s` gives the alias, not NULL.
- `redefchecker.h:19-22` says unknown things are silently accepted; when a
  supertype and an outer scope both have the qualifier, a legal redefinition is rejected.
- `redefchecker.h:11-12`: the checker overwrites the resolver's binding of a
  qualified redefinition (`redefchecker.c:217`).
- `referentialchecker.h:9-10` speaks of every usage; that walk does not enter the inline action of a succession either.
- `resolver.c:60`: an import in a package is looked up once, from around the package, while that may not be filled
  (another import may still have to bring the target); one that stays unbound is tolerated, and fewer names are bound.
- `main.c:9`: `--no-typecheck` does not skip the later passes; `--no-resolve` skips all (`main.c:110-116`).
- `referentialchecker.h:20-21` promises that "all features of an AttributeDefinition" are references; the
  rule tests for `DEF_DATATYPE` (`referentialchecker.c:54`), which only the built-in types have, so a part in an
  `attribute def` is not marked.
- `parser_decl.c:1148-1149` says the body of a comment is found "regardless of where the body falls";
  the scanner forgets it when it scans the next token (`scanner.c:88`), and `comment c /* b */ about x` is
  refused. `CommentsTakeTheirBody` leaves this case out.
- `codegen_json.h:3-5` promises "every variant field"; the visibility of an alias is left out
  (`codegen_json.c:451-460`), and an attribute without a name has an empty one where a usage has `null`.
- A block comment that does not end is no error: it takes the rest of the text (`scanner.c:115-123`), where an
  open doc comment is one.
- The types of a definition (`part def X : Y`) are parsed and dropped without a message.
- An unqualified redefinition of a name that two supertypes have is taken for that of the first
  (`redefchecker.c:68-99`).
- `parser_common.c:83` says that `synchronize()` stops "at a '}' that closes our scope"; it
  stops at any. In `package P { part a , { part b; } part c; }` the second brace closes
  the package, and a second error is reported at the third.
- `parser_decl.c:541-549` skips `accept ...` "so the rest of the body stays parseable"; the skip goes to the
  next semicolon or brace, so `package P { action a accept x } part b; }` is accepted, and `part b` is lost.
  This is why `PlacedByBraces` leaves such clauses out.
- The dump without a back end prints a binding or an allocation as any other connection
  (`ast.c:359-388` does not read `isBind` and `isAllocate`), a message's ends behind `connect` (`ast.c:241`).
- `parser_decl.c:1233`: a block that is skipped may end with the file; `attribute a {` and
  `entry a {` are accepted.
- A definition or a package without its `{` reads its body all the same
  (`parser_decl.c:304`); an error in an enumeration value is not recovered from before the enumeration ends.
- `analysis` begins a declaration but does not end the search after an error (`parser_common.c:88-155`).
- `end def X` (`parser_decl.c:635-638`) skips `X` and reports no error there; the error is at `def`.
- Units: `-a()[kg]` is accepted, `a()[kg]` is not, since units are looked for behind the
  prefix parselet only (`parser_expr.c:277-292`).

## 7. What is not modelled

- **`--dump-tokens`**: one line for each token.
- **Layout**: indentation and line ends of the printers, the escapes in strings of JSON, the digits of
  numbers (`%g` keeps six). The words of keywords other than `doc` in the scanner, and
  characters that no test tells apart.
- **That the parser's trees have the shape the passes assume** is the assumption `IsAst`:
  `Declarations` keeps names and kinds as the printers need them, `Ast` as the resolver needs them, and no
  run relates the two. The names that the resolver adds to the JSON dump (`resolvedTo`) are left out for the same reason.
- **Lexical errors** in `Declarations`, except that a `doc` has no body: `Scanner` has them, and what the
  parser does with them is to enter panic mode, at any place.
- **Memory**: arrays that grow, allocation failures (the code exits), lifetime of tokens.
- **Wording and order of diagnostics**.
- **Tools and test scripts**: outside the compiler.

## 8. Plan

Done, in this order: `Ast`, `Traversal`, `Resolver` with its runs; `Driver`; the four
checkers and `Pipeline`; `Expressions`; proofs of `Driver` and `Resolver`; `Declarations`; `Scanner`; the nodes of
`Declarations`, the printers (`TreePrinter` last) and `RoundTrip`; qualifiers and the reach of the walks in `Pipeline`.

Proofs, in this order: `Driver`; types and finality of `Resolver`; `Pipeline` implements `Driver`; `Scanner`;
lexical scoping; the reach of the resolver's walk, duplicates, and what names are bound to; the walks of the other passes, and what each accepts;
the specialization test and the soundness of types; the scanner's grammar.

Proofs changed the model where it claimed too much or too little to be reasoned about: `IsAst` now says that trees are finite and operators have their
operands (`HasOperands`), and `HasLibrary` that the built-in types are there; `SpecializesIsReachability` and `TypingIsSound` have the hypotheses they need
(`FewDefinitions`, `KindsAreApart`), and an operator the checker has no rule for may give anything.

Next:

1. `FlowsAreDirected`: an invariant of `Resolver` about paths, by the side of `Settled`.
2. A core of `Declarations` without recursive operators, `frames`, `at` and `panic` with
   one opaque step per declaration, to prove `Progress` and `PlacedByBraces` for every file.
3. `QualifiersSelect`, with the argument of `FromTheDepth` for the member lookup.

## 9. Running it

    tlc -workers 2 -config Resolver.cfg MCResolver
    tlapm Resolver_proofs.tla

`PROJECT.json` names the module and configuration of every run, the source lines
each definition stands for, the hazards and the properties that cover them.
