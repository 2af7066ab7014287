# Snowlake in TLA+

Snowlake (`src/`) is a compiler: it reads *inference groups* — type rules written as
premises and a conclusion — and writes C++ classes that check them. This directory holds
TLA+ models of its parts, TLC runs on small instances, and proofs for every instance.
Lines below are those of `src/src/` unless a path says otherwise.

## The system and its parts

One process, one thread, one pass. `main` → `ProgramDriver::run` calls in turn

| part | state it keeps | operations | fails by |
| --- | --- | --- | --- |
| `CmdlDriver` + `ArgumentParser` | option map, shorthand map, positionals, `argc`/`argv` | register parameters, `parseArgs` | returning false |
| `ParserDriver` | the `ASTModule`, whether messages are suppressed | `parseFromFile`, `parseFromString`, `setModule`, `error` | -1 (file), 1 (syntax) |
| the scanner (`lexer.ll`, `precompiled/lex.yy.cc`) | the buffer, the place in it; for the whole process: the location, `errno` | `yylex` | never: text of no rule is dropped |
| the parser (`parser.yy`, `precompiled/parser.tab.*`) | the stack of states and values, the lookahead | `parse`: shift, reduce with a semantic action, error, accept | 1, after `error` |
| `ASTVisitor` | — | `visit` of every node: `previsit`, the children, `postvisit` | returning false when a callback does |
| `variant`, `optional` | an index and raw storage | construct, copy, move, assign, destroy, `get`, compare, visit | `std::runtime_error` on the wrong type |
| `SemanticAnalyzer` (an `ASTVisitor`) | symbol set, target table, `_result`-like returns, options `bailOnFirstError`, `warningsAsErrors` | visit module, groups, definitions, premises | returning false, after registering errors |
| `Synthesizer` (an `ASTVisitor`) | two file streams, indentation, name counter, premise counter | visit, render | returning false, or an exception of `at()` |
| `CompilerErrorHandlerRegistrar`, `CompilerErrorPrinter` | one static handler; counts | register, unregister, print | — |

The parts interact by calls and through two shared things: the tree, which nobody changes
after parsing, and the static error handler, which every part reports to and which
`ProgramDriver` installs for its own scope. The parser calls the scanner for each token and the
driver for each module and error; the values on its stack, and the alternatives of the tree's
nodes, live in `variant`s.

What is hard here is not concurrency — there is none — but *protocol and order*: early
returns nested three levels deep, two options that change what an error does, a table with
one entry per name that has to speak for all deductions under that name, an `argc`/`argv`
walk by macros, objects that may be used twice, files left behind by a failing run, a parser
that reduces before it has seen whether the text goes on, state of the process that no parse
resets, and storage whose type only a number next to it knows.

What makes each part correct:

* **Argument parser** — a line means the same whatever order it is scanned in: last value
  given, else default; every required option present; never a read outside `argv`.
* **Scanner** — the longest match of the first rule at every place; each token's value and
  location are those of its text.
* **Parser** — a program is accepted, and the tree is the text: nothing lost, repeated or
  reordered. Any other text gives one error, at the first token no program has there.
* **Visitor** — every node once before and once after those below it, up to a refusal.
* **Variant** — it behaves like the value it holds.
* **Semantic analyzer** — `run` returns false exactly if an error was reported; a definition
  is refused exactly if some rule of the language is broken; the early returns skip nothing
  that matters.
* **Synthesizer** — each accepted definition gives one method whose statements are, in order,
  those the premises prescribe, with fixtures properly nested; success means complete files.
* **Program driver** — exit status 0 exactly if every stage succeeded, one handler installed
  while the stages run and none afterwards.

## Modules

| module | models | state and actions |
| --- | --- | --- |
| `SnowlakeAST` | `ast.h`, the premise lists `parser.yy` can build | no state: targets, premises, definitions, groups, modules as records; a premise list is kept in the pre-order the visitors walk, with each while-clause naming the last premise of its body |
| `ASTUtils` | `ASTUtils.cpp` | no state: `AreTargetsCompatible`, the target table and its two look-ups |
| `SemanticAnalysis` | *abstract*: what a module deserves | one step to the verdict |
| `SemanticAnalyzer` | `SemanticAnalyzer.cpp`, the traversal of `ASTVisitor.cpp` | the cursor (group, definition, premise, open while-clauses), symbol set, target table, errors; one action per callback or check |
| `CommandLine` | the data of `ArgumentParser` | no state: tokens, values, options, the casts |
| `ArgumentParsing` | *abstract*: what a line means for the registered options | registration, a call, one step to its result |
| `ArgumentParser` | `ArgumentParser.cpp` | option and shorthand maps, `argc`, `argv`, positionals, destinations, pc; one action per branch of the loop and per phase |
| `CmdlDriver` | `CmdlDriver.cpp` composed with the parser | `Run`, the parser's steps, `FinishRun` |
| `SynthesizedCode` | the output of `Synthesizer.cpp`, *in closed form* | no state: the lines the files of a class consist of, computed from the whole tree at once, with their numbers |
| `Synthesizer` | `Synthesizer.cpp`, the traversal of `ASTVisitor.cpp` | the cursor, the stack of open while-clauses, the counters, both streams, all files; one action per callback |
| `ProgramDriver` | `ProgramDriver.cpp`, `CompilerErrorHandlerRegistrar`, `CompilerErrorPrinter` | the stage, the exit status, the handler, what was printed; the analyzer (extended, so that its proofs apply) and the synthesizer (`INSTANCE`) take their own steps while their stage lasts, command line and parser one step each |
| `LexicalRules` | the rules of `lexer.ll` | no state: what each rule matches, `strtol`; and *abstract*: the longest matches of a text |
| `Scanner` | `lexer.ll`, the loop of `yylex` | buffer, place, location, `errno`, lookahead; one action per kind of lexeme |
| `Grammar` | `parser.yy`, the tables of `parser.tab.cc` | no state: productions, the LALR automaton as sets of kernel items with its default reductions, what each semantic action builds |
| `Parser` | `yy::Parser::parse`, the driver's callbacks | the stack, the result, the driver's module and errors; `Shift`, `Reduce`, `SyntaxError`, `Accept`, and the scanner's steps |
| `Spelling` | *abstract*: the concrete syntax of a tree | no state: what a node is written with, tokens and the nodes just below it; the tokens of a whole tree by unfolding level after level |
| `TreeVisitor` | `ASTVisitor.cpp`, `ASTVisitor.h` | what is left to visit, what was called; one step per call. *Abstract*: `ModuleWalk`, the order of the text |
| `FrontEnd` | `ParserDriver.cpp`, composed with scanner, parser and visitor | the calls to come: several parses by one driver in one process, then a visit of the module; and the properties of the whole |
| `VariantContents` | *abstract*: a box that is empty or holds a value | one step per operation |
| `Variant` | `variant.h`, `variant_impl.h`, `variant_dispatcher.h`, `optional.h` | index and storage of each variant, and the storage of a running assignment; one action per constructor, assignment and destructor |
| `BasicLemmas` | | lemmas about least and greatest elements, induction over a set of numbers, sequences of any values, flattening |
| `*Proofs` | theorems and their lemmas | |
| `MC*` | constants and bounds for TLC | |

Names are model values; texts, wording, printing and `printHelp` are left out. A token of the
command line is `--name`, `-letter`, ill-formed, or another word; what `std::istringstream >>`
extracts from a word is the constant function `Extracted`, so a failed conversion is an
ordinary case. The value that a failed extraction leaves behind is modelled as the code
leaves it (see `Cast`).

**The file system** is nondeterministic: opening a file may fail, any write may turn its stream
bad, and what close cannot flush is lost. A stream that is bad swallows what is written to it,
and `open` on a stream that was never closed fails, as `std::ofstream` does. Every output file
holds a *stale* line at first, the output of an earlier compilation. A file that misses something
is in `damaged`; the code never looks there, properties do. A line of output is what it is, where
it comes from, and its number; indentation and text follow from these.

**Texts** are strings, taken apart by `SubSeq`; a state of the scanner's automaton is the text it
has read since the lexeme began, and the rules say what may follow. `~` stands for NUL and 99 for
the largest `long`. The parser's states are sets of kernel items, computed from the productions;
the automaton has the 104 states of the tables in `parser.tab.cc`, with the same moves, default
reductions and one explicit reduction (an identifier before a dot or a colon). Locations are lines
and columns: the file name is only ever set on the initial symbol, and no error shows it.

**Storage** of a variant is raw, or holds an object of a type with a value, which may be one that was
moved from; it is `Corrupt` once an object was destroyed as what it is not, and reading one as what
it is not gives `Garbage`. `swap` copies over objects that are alive, as the code does; so objects
are lost that nobody destroys, which the model has no property about.

Definitions named `<definition>_<word>` with a comment "Fault:" are what that definition would
be with a plausible mistake. No specification uses them; replacing a definition by one of its
faults must break the property that watches it, which is how we know that the property does.

## Runs

| run | question | bounds and why they are enough | distinct states |
| --- | --- | --- | --- |
| `analyzer` | do table, early returns and both ways of failing give the verdict the whole module deserves? does the pass end? | every list of up to three premises with every placement of while-clauses: a conflict needs two premises, and the third sits before, between, inside or after; and two groups of two definitions with repeated and missing names under both options, so a repeat, a bail and a reset between definitions all happen | about 237 000 |
| `argument_parser` | does walking over the tokens give what the line means, twice in a row? | three registrations (two collide, one does not), lines of three tokens and a second call with one | about 280 000 |
| `cmdl_driver` | do the compiler's own options follow the usage, and does a second run start afresh? | all lines of the driver's options up to the bound in `MCCmdlDriver` | about 34 000 |
| `synthesizer` | is the output exactly the code of the tree, whatever fails? | every nesting of up to three premises of four kinds and of four premises of two kinds; two methods, and two classes with equal and distinct class names, one of them that of the error-code files; every failure of every write | about 440 000 |
| `program_driver` | do exit status, printed reasons, handler and files agree? | modules of up to two groups with one definition, accepted and refused for each kind of reason, under all options; the parser may fail in each way | about 706 000 |
| `variant` | do index and storage stay in step, and do operations do what they do to values? | three variants, so that source, target and a bystander differ; three types, of which two convert to each other and lose a fraction; every sequence of operations | about 4 900 |
| `front_end` | do scanner, parser and visitor give back the text, or the one error it deserves? | a text of every construct, spread out over lines and written tightly; each of its words lost, and each word of a shorter one lost, repeated or replaced; `.`, `''`, `#colon`, a line, a digit or a NUL at each place of it; pairs of parses by one driver, with overflow, failure and suppressed messages in the first; visitors that refuse one kind of node. No lexeme of these is longer than 12 characters, the bound `LongestLexeme` of the reference definition | about 70 700 |

Five more runs each refute one statement of the documentation; see *Findings*. They use the
instances above.

**What the properties say.**

* `VerdictIsCorrect`: the analyzer, one premise at a time with a table of one entry per name,
  implements `SemanticAnalysis`, which looks at whole definitions. `TableSpeaksForAll` is why;
  `VerdictMatchesErrors` and `BailReportsOnce` tie what is printed to what is returned, and
  `AcceptedWithAllWarnings` says that an accepted module has had every warning it deserves.
* `ParsesTheLine`: the walk over `argv` implements `ArgumentParsing`. `LettersAreUnique` is what
  makes the shorthand map a function.
* `OutputIsTheCode`: what a successful run leaves in a file it did not lose part of is the closed
  form of `SynthesizedCode`, nothing more (stale or foreign lines) and nothing less; fixtures
  nest as the while-clauses do. `NothingLeftOpen` and `TempsAreFresh` hold also in runs that fail.
* `RefusedInputTouchesNothing`: a module that is refused leaves the last good output alone.
  `SuccessIsEarned`, `FailureIsExplained`: exit status 0 is deserved, any other has a printed
  reason. `HandlerIsScoped`: the handler is there while errors may be registered, and never
  outlives the variables it refers to.

* `TokensAreTheLongestMatches`, `LiteralsHaveTheirValue`, `TokensAreLocated`: what the scanner
  returned, compared with what its rules define for the text as a whole. The second and third say
  what a second parse inherits: an `errno` nobody clears makes every literal 0 once one was out of
  range, and the first line is counted from where the last parse ended.
* `StackSpellsTheText`: after every shift and every reduction, the values on the parser's stack
  are, spelled out, the tokens used: all that were read but the lookahead. `ModuleIsTheText`: so is
  the module of a parse that succeeds, for all tokens; one that fails leaves the old module, *or* a
  new one, if a whole program came before the error: the grammar hands it over at the first sight
  of its end.
* `ErrorsAreReal`: no program begins with what was refused, although the parser reduces without
  looking. `ErrorsAreReportedOnce`: one error per failed parse, at its token.
* `WalkFollowsTheText`: the calls a visitor gets are the nodes in the order of the text, each
  before and after those below it, as far as the first refusal; nothing below an inference
  premise is walked.
* `StorageIsSound` and `ValueSemantics`: see *Proofs*. `VisitsGetTheOperands`: a binary visitor gets
  both values in their order whichever alternative comes first. `OrderIsTotal`: variants can be
  keys, unless two of them are empty, which throws.

**Fairness.** `Terminates`, `ParseReturns`, `ParsesReturn`, `SynthesisEnds` and `RunReturns` assume weak fairness of
the code's own steps: all are straight-line calls on one thread that nothing suspends, so a step
that is enabled is taken. Nothing is assumed of the caller, who may never call, nor of the file
system, which may fail at every step.

**Deadlock.** Each specification has a named terminal stutter (`Terminating`, `Finished`,
`DriverFinished`, `Returned`, and `Done` of `FrontEnd`) or can always go on, so deadlock is checked
everywhere.

## Proofs

Checked by TLAPS for every value of the constants that satisfies the named assumptions
(`ModulesAssumption`: the modules are modules; `ErrorDefnAssumption`: a file has a name;
`NoTargetAssumption`, `NoRangeAssumption`: the empty optionals are no targets; `ParserAssumption`,
`CommandLineAssumption`, `ExtractedAssumption`: the types of the command line's data;
`RunningAssumption`: that parse() has not returned is none of its results;
`VariantAssumption`: the alternatives are distinct, their number and one more fit in a `size_t`,
every type converts to itself, and a conversion gives a value; `ComparisonAssumption`: values are
compared as integers are, and an exception is no result of a comparison; `DriverAssumption`: the
empty string is a token, and the keys and letters the driver registers are keys and letters).

* `SemanticAnalyzerProofs` — the inductive invariant `IInv` ties the three accumulators to the
  part of the tree already walked: the symbol set is the set of names passed, each table entry
  is the last deduction under its name and agrees with all earlier ones, and the errors
  reported are those of the premises passed. Type correctness and the verdict alone are not
  inductive: a later premise is judged against the table, so the invariant must say what
  the table stands for. From it: `TypeCorrectness`, `VerdictReported`, `BailIsImmediate`,
  `TableIsEnough`, and `VerdictCorrectness`, that every step maps to a step or a stutter
  of `SemanticAnalysis`. `WarningsAreCounted` (`AcceptedWithAllWarnings`) has a second invariant on
  top of it, `WarningsInv`: at every callback the counter is the number of repeats in the part of
  the tree passed, and none under `warningsAsErrors`. The repeats are finitely many, so what a
  list adds to their number adds to the counter (`OneMorePlace`).
* `ArgumentParserProofs` — `argc` and `argv` stay together and inside the line, and nothing is
  assigned before every check has passed; and the two clumsy comparisons of
  `__checkParameters` do establish that letters and options correspond one to one.
  `LineMeaning` is the refinement `ParsesTheLine`. Its invariant is `ReadInv`
  (`LineIsReadInOrder`): when the walk is at some token, options and positionals are what the
  tokens before it mean, and of several mentions of an option the last counts. Which tokens are
  values of the option before them, and where positionals go, the abstract parser defines for a
  whole line at once by recursive functions (`OwnedIn`, `PlacedIn`); that there are such functions,
  and so that they satisfy their equations, is shown by a least counterexample (`HasLeast` in
  `BasicLemmas`): the form of induction that stays within reach.
* `CmdlDriverProofs` — the driver is the parser with registrations of its own. `DriverSetup`: the
  seven calls of `addParameter` do not get in each other's way, and so leave one option and one
  letter each. The inductive invariant (`DriverInvariant`) has those of the parser in it, and looks at a
  call of `parseArgs` through the refinement: it accepts or refuses the line as `ArgumentParsing`
  does (`LineJudged`). From it `UsageAccepted` and `LineSetsOptions`, for any lines and any number
  of runs of one driver.
* `SynthesizerProofs` — that no clause is open at the end of a method (`FixturesAreTornDown`) is
  not inductive: the stack must be known to hold *exactly* the clauses whose body the cursor is in
  (`OpenInv`). From the nesting of bodies follows that a body that is not over keeps all those
  around it from being over (`AllReach`), hence that the end of the list leaves none. That
  made-up names are fresh (`TemporariesAreFresh`) is carried by the name counter being above every
  name in every file, damaged or not. That a class has a file at all (`GroupFiles`) is what the
  synthesizer owes to analysis, which asks for `ClassName`; the lookup of the last value of a field
  needs that a bounded set of numbers has a maximum (`MaxIsMember` in `BasicLemmas`), from the well-foundedness
  of the numbers.

  `OutputIsWritten` (`OutputIsTheCode`) is the longer half of the module. The closed form is computed from
  the whole tree, the code appends one line after the other, and sees of the tree only the cursor,
  a stack and two counters. The invariant that connects them is `OutputInv` (`OutputSoFar`): every
  file that misses nothing is its closed form *up to the cursor*. Classes that are finished are there in
  full, unless a later one of the same name has taken their files (`ClassesSoFar`); of the one in
  progress there are the methods passed, and of the method in progress the premises passed; of the
  while-clauses that end with the last of these, only those after the innermost open one are
  closed (`ClassSoFar`). This is not inductive alone. Which clause is closed next must
  follow from the stack: every clause before its top that is not over is open
  (`NoneClosedAbove`). The number a line gets must be that of the closed form: the premise counter is
  the number of premises *ended* (`PremisesAreNumbered`), the name counter twice the number of computed
  targets before the cursor in the whole module (`TempsAreNumbered`). And a stream that has turned
  bad belongs to a file that misses something (`BadIsDamaged`), which is why it may swallow lines.
  The closed form is put together by `FlattenSeq`, whose equations are shown by a least
  counterexample (`FlatExists`, `FlatAt`).

* `VariantProofs` — `StorageIsSound` with the types of the variables is inductive (`IInv`). The
  argument is one lemma about assignment, `SwapResult`: three copies in the order of the code, then
  the destruction of the temporary as what the *target* was, leave the target with the object of
  the temporary and nothing else changed; it holds because each copy reads an object of the type
  its index promises (`CopyResult`). Then each operation changes the content of one variant
  (`OneVariant`), or of two when moving (`TwoVariants`), as the step of `VariantContents` does.
  From it: `StorageSoundness`, and `ValueSemanticsHold`, the refinement. `Visitation` and `TotalOrder`
  follow from the same invariant once it is known what the dispatchers compute: each is a search along the
  alternatives, which finds the first hit (`SearchResult`), and there is just one, the alternative
  the index counts to (`OneHit`, `FoundAlternative`).
* `ProgramDriverProofs` — `RunInvariant` joins the order of the stages with the analyzer's own `IInv`,
  which holds from its first step on, whatever module the parser hands over (`UnstartedIInv`), and
  leaves behind that the verdict was right. So `RefusalTouchesNothing` speaks of the module that
  deserves to be accepted, not of one that happened to be. Of the synthesizer it uses the proofs: the
  module instantiates `SynthesizerProofs` as `ProgramDriver` does `Synthesizer`, the lemmas `Same...`
  identify the definitions of the two instances, and the step lemmas keep the synthesizer's
  invariants while it runs (`SynthesisInv`). Hence `SuccessEarned` (`SuccessIsEarned`): after exit status 0
  no error was registered, the module deserves to be accepted, and every file that misses nothing is its
  code; and `SuccessIsComplete`, that exit status 0 is only reached after the last node. Further
  `HandlerScope` and `FailuresAreExplained`.
* `FrontEndProofs` — for *every* text, whatever tokens the scanner makes of it, and any number of parses and
  walks. Four arguments, one on top of the other:
  - *The automaton.* `ParseInvariant` says, among other things, that the stack is a path of the automaton:
    what a state's items have seen is what lies on top of the stack. So no reduction underflows, and
    after each the state below leads on. It needs that a state reached is closed under the construction
    and has something to do: above a state that has read `input` there is at most the end.
    `ErrorsReported` (`ErrorsAreReportedOnce`) follows from the same invariant.
  - *The texts.* `StackSpells` (`StackSpellsTheText`): each of the 50 semantic actions builds a value that
    spells what the values it takes spell. Trees have any depth and there is no induction over them
    here, so a text is unfolded level by level and the invariant (`IsWritten`) counts levels: the
    text of each prefix of the stack, the number of levels after which it is all tokens, and a bound for
    that number that grows with each token used. A semantic action adds one level, or puts
    sequences together (`Rewrites`, `Builds`). `ModuleHasTheText` (`ModuleIsTheText`) is the case of the
    stack that has the whole module on it, with the promise kept while later tokens are refused.
  - *The tree.* `TreeInv`: the values on the stack have the shape their symbols ask for, so that the
    module is made of groups, these of definitions, and so on, down to the targets. Each production
    keeps it (`ShapesAreKept`).
  - *The walk.* `WalkInv`: the calls made, followed by what the calls on the agenda will make, are
    `ModuleWalk` of the module, nothing called before was refused, and the module stays what it is while a walk
    runs. One step of `visit` unfolds one node, kind by kind (`NodeUnfolds`). `WalkInvariant` states all
    three invariants, `WalkIsTheText` is `WalkFollowsTheText`.

Left to TLC:

* liveness, since fairness is out of the prover's reach: `Terminates`, `ParseReturns`, `ParsesReturn`,
  `SynthesisEnds`, `RunReturns`;
* of the front end what is said of single characters, `TokensAreTheLongestMatches`,
  `LiteralsHaveTheirValue` and `TokensAreLocated`: a text is a string here, which TLC takes apart and
  the provers cannot, and longest matches are defined by recursion over it;
* `ErrorsAreReal`: that what the automaton refuses no program begins with is a statement about all
  sentences of the grammar. The run compares with a sample (`Sentences`), which is enough to find
  a wrong table, and too little to be worth a theorem. The converse, that nothing is accepted which
  is not a program with the tree as its text, is `ModuleHasTheText`.

## Findings

Each is a run that TLC ends with a counterexample.

* `analyzer_class_name` — the tutorial calls `ClassName` needed only "if it needs to be different"
  from the name of the group; analysis refuses a group without it.
* `synthesizer_fields` — the tutorial calls the two fields for the fixtures of while-clauses
  optional, analysis does not ask for them, and synthesis of a while-clause without them dies of
  an uncaught exception of `at()`.
* `synthesizer_classes` — of two groups with the same `ClassName` the second overwrites the
  first, and the run succeeds.
* `synthesizer_declarations` — a target deduced twice is declared twice in one C++ block.
* `synthesizer_writes` — a failed write to the files of the last group, or a failing close of any,
  goes unreported: exit status 0 with an incomplete file.

Seen on the way, without a run of their own:

* the comment over an inference premise gives its number in the definition, but the counter is
  raised after the body of a while-clause, so the premise that opens a clause and the first in its
  body carry the same number (`NumberOf` says which);
* the operands of an equality premise are compared with each other only and never looked up, so a
  name nobody declared is accepted, against the tutorial (the model has no look-up because
  the code has none);
* the lines of `lexer.ll` that begin with `#` were meant as comments and are patterns: `#colon` in
  a program is dropped without a word. The quotes around the signs of integers are part of the
  pattern, and its digits are optional: `''` is a literal, of value 0;
* a literal out of range becomes 0, and so does every literal after it in the process;
* assignment of a variant never destroys the object it writes over;
* `visit(ASTWhileClause)` has no caller, so no visitor sees a while-clause as a node of its own.

## Plan

Done: the command line, the scanner, the parser and its driver, the tree and its visitors, the
variants it is made of, the analyzer, the synthesizer, the program driver; and proofs of every
safety property and refinement the runs check outside the front end, and in the front end of all
that is about tokens and trees but `ErrorsAreReal`. What could follow:

1. `GeneratedCode`: what the emitted statements do when run — fixtures around an early return
   with an error, error codes of value 0, the bounds of range loops — against what the rules of
   the tutorial promise.
2. Proofs: the three properties of the scanner, for which texts would have to be sequences of
   characters; and `ErrorsAreReal`, with the viable prefixes of the grammar in the place of the sample.
3. The front end in place of the one step that `ProgramDriver` takes for it, on texts whose
   modules the analyzer tells apart.

## Not modelled

* The error categories and `CompilerError`: tables of texts.
* The wording, indentation and layout of what is printed and of the code that is written,
  `printHelp`, and the tracing switches of the parser driver.
* Of the generated sources: the recovery from errors (no production of the grammar has an error
  token, so the loop always empties the stack), reading from a `FILE*` and refilling buffers (the
  driver scans a string it has read), and functions nothing calls. The compressed tables are
  modelled as what they are computed from.
* Failure of allocation, and exceptions thrown by the constructors of a variant's alternatives or
  by semantic actions.
* Tests, documentation and demo: read as statements of what the code should do.
