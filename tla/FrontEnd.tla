------------------------------ MODULE FrontEnd ------------------------------
(***************************************************************************)
(* ParserDriver (src/parser/ParserDriver.cpp) with the scanner and the     *)
(* parser it runs, and a visitor that walks the module it ends up with.  A *)
(* program may parse several texts: the scanner's state is that of the     *)
(* process, the module and the options that of the driver.                 *)
(***************************************************************************)
EXTENDS Parser, TreeVisitor, Spelling

CONSTANTS
  Sessions,    \* the calls of parseFromFile a program may make, each a record
               \* of the file and of what suppressErrorMessages is during it
  Unreadable,  \* a file that cannot be opened
  Visitors,    \* the callbacks a visitor may refuse
  Sentences    \* the token kinds of some texts that are programs

VARIABLES
  session,     \* the calls still to be made
  tokens,      \* history: the tokens of this parse
  before       \* history: what this parse began with

frontVars == <<session, tokens, before>>
vars == <<scannerVars, parserVars, visitorVars, frontVars>>

-----------------------------------------------------------------------------
Init ==
  /\ ScannerInit /\ VisitorInit
  /\ yystack = <<>> /\ result = 0 /\ module = ModuleOf(<<>>)
  /\ suppress = FALSE /\ errors = <<>>
  /\ session \in Sessions
  /\ tokens = <<>>
  /\ before = [module |-> module, errors |-> 0, errno |-> FALSE, at |-> loc.end,
               lexed |-> <<>>]

Begin(input) ==
  /\ tokens' = <<>>
  /\ \E lexed \in {TokensOf(CString(input))} :
       before' = [module |-> module, errors |-> Len(errors), errno |-> errno,
                  at |-> loc.end, lexed |-> lexed]

parseFromString(input) ==
  /\ yy_scan_string(input)
  /\ Start
  /\ Begin(input)
  /\ UNCHANGED <<loc, errno, lexing, module, errors>>

\* An open that fails is reported even if messages are suppressed, and may
\* leave an error number of its own in errno.
parseFromFile(file) ==
  IF file # Unreadable THEN parseFromString(file)
  ELSE /\ result' = -1
       /\ errors' = Append(errors, [unexpected |-> "Failed to open input file"])
       /\ Begin("")
       /\ errno' \in {errno, FALSE}
       /\ UNCHANGED <<buffer, yy_c_buf_p, loc, lexing, yyla, yystack, module>>

Idle == result # Running /\ buffer = NoBuffer /\ agenda = <<>> /\ calls = <<>>

CallParser ==
  /\ Idle /\ session # <<>> /\ session' = Tail(session)
  /\ suppress' = Head(session).suppress
  /\ parseFromFile(Head(session).file)
  /\ UNCHANGED visitorVars

ParseStep ==
  /\ result = Running
  /\ Parse
  /\ tokens' = IF lexing /\ ~lexing' THEN Append(tokens, yyla') ELSE tokens
  /\ UNCHANGED <<visitorVars, session, before>>

\* ~ParserBuffer.
parseReturns ==
  /\ result # Running /\ buffer # NoBuffer
  /\ yylex_destroy
  /\ UNCHANGED <<loc, errno, lexing, yyla, parserVars, visitorVars, frontVars>>

WalkModule ==
  /\ Idle /\ session = <<>>
  /\ \E refused \in Visitors : StartVisit(module, refused)
  /\ UNCHANGED <<scannerVars, parserVars, frontVars>>

VisitStep == Visit /\ UNCHANGED <<scannerVars, parserVars, frontVars>>

\* main returns: the code has nothing left to call.
Done == verdict # Walking /\ UNCHANGED vars

Next ==
  \/ CallParser \/ ParseStep \/ parseReturns
  \/ WalkModule \/ VisitStep \/ Done

\* One thread runs the parser and the visitor until they return.
Spec == Init /\ [][Next]_vars /\ WF_vars(ParseStep) /\ WF_vars(VisitStep)

-----------------------------------------------------------------------------
(* Properties.                                                             *)

\* parse() has returned and its buffer still stands.
Returned == result # Running /\ buffer # NoBuffer

Kinds(s) == [i \in DOMAIN s |-> s[i].kind]

\* The tokens the parser was given are those the patterns of lexer.ll define:
\* the longest match at every place, by the first of the patterns that match.
TokensAreTheLongestMatches ==
  Returned =>
    LET lexed == before.lexed
    IN  \A i \in DOMAIN tokens :
          IF i > Len(lexed) THEN i = Len(lexed) + 1 /\ tokens[i].kind = "END"
          ELSE /\ tokens[i].kind = lexed[i].token
               /\ tokens[i].kind # "INTEGER_LITERAL" => tokens[i].value = lexed[i].text

\* A literal has the value its digits have, or 0; and 0 once any literal of the
\* process did not fit a long int, because nothing clears errno (lexer.ll:69).
LiteralsHaveTheirValue ==
  Returned =>
    LET lexed    == before.lexed
        integers == {i \in DOMAIN tokens : tokens[i].kind = "INTEGER_LITERAL"}
        number   == [i \in integers |-> NumberOf(lexed[i].text)]
    IN  \A i \in integers :
          tokens[i].value =
            IF before.errno \/ \E j \in integers : j <= i /\ number[j] > LongMax
            THEN 0 ELSE number[i]

\* Where the character at p stands if the text begins at the position start.
PositionAt(p, start) ==
  LET newlines == {j \in 1 .. p - 1 : CharAt(buffer, j) = "\n"}
  IN  [line   |-> start.line + Cardinality(newlines),
       column |-> IF newlines = {} THEN start.column + p - 1 ELSE p - Max(newlines)]

\* A token's location ends where the token does, and begins on its line, where
\* it begins unless characters were discarded just before it.  The first line
\* is counted from where the last parse of the process ended (lexer.ll:33).
TokensAreLocated ==
  Returned =>
    LET lexed == before.lexed
    IN  \A i \in DOMAIN tokens :
          LET from  == IF i > Len(lexed) THEN Len(buffer) + 1 ELSE lexed[i].from
              to    == IF i > Len(lexed) THEN from ELSE from + Len(lexed[i].text)
              first == PositionAt(from, before.at)
              at    == tokens[i].loc
          IN  /\ at.end = PositionAt(to, before.at)
              /\ at.begin.line = first.line /\ at.begin.column <= first.column

\* The symbol with which a state is entered.
SymbolOf(state) ==
  LET it == CHOOSE it \in state : TRUE IN Rhs(it[1])[it[2]]

\* The tokens so far, as the tree values spell them.
Spelled(ts) == [i \in DOMAIN ts |-> Token(ts[i].kind, ts[i].value)]

\* The text of what is on the parser's stack above the initial state.
StackText ==
  FlattenSeq([i \in 1 .. Len(yystack) - 1 |->
                LET symbol == SymbolOf(State(yystack[i + 1]))
                IN  IF symbol = "input" THEN <<module>>
                    ELSE SymbolText(symbol, Value(yystack[i + 1]))])

\* The tokens the parser has used: all it has read but the lookahead.
Used == SubSeq(tokens, 1, Len(tokens) - (IF yyla = Empty THEN 0 ELSE 1))

\* The values on the parser's stack spell the tokens it has used, after every
\* shift and every reduction: no semantic action loses, repeats or reorders a
\* part of the text.
StackSpellsTheText == result = Running => Spells(StackText, Spelled(Used))

\* After a parse that succeeds the module is the whole text.  After one that
\* fails it is the module of before, or, if the text was a whole program before
\* the token in error, that program: the grammar hands it over first
\* (parser.yy:141).
ModuleIsTheText ==
  Returned =>
    LET isText == Spells(<<module>>, Spelled(SubSeq(tokens, 1, Len(tokens) - 1)))
    IN  IF result = 0 THEN isText ELSE isText \/ module = before.module

\* An error is real: no program begins with the tokens up to the one in error.
\* The default reductions made before it was noticed do not reject any program.
ErrorsAreReal ==
  Returned /\ result = 1 => ~\E s \in Sentences : IsPrefix(Kinds(tokens), s)

\* A parse that fails registers one error, which names the last token read and
\* where it is, and a parse that succeeds none; an error of syntax is not
\* registered if messages are suppressed, whatever the parses before did.
ErrorsAreReportedOnce ==
  result # Running =>
    /\ Len(errors) = before.errors + (IF result = -1 \/ (result = 1 /\ ~suppress) THEN 1 ELSE 0)
    /\ Returned /\ result = 1 /\ ~suppress =>
         LET e == Last(errors)
         IN  /\ e.unexpected = Last(tokens).kind /\ e.at = Last(tokens).loc
             /\ e.unexpected \notin e.expected

\* A visitor is called for every node of the tree once before and once after
\* the nodes below it, in the order of the text, up to the first callback that
\* refuses, and visit() tells whether one did.  The ranges, and what is below an
\* inference premise or a computed target, are not visited.
WalkFollowsTheText ==
  calls # <<>> =>
    /\ IsPrefix(calls, ModuleWalk(module))
    /\ \A i \in 1 .. Len(calls) - 1 : <<calls[i][1], calls[i][2].kind>> \notin refuses
    /\ verdict # Walking => verdict = (calls = ModuleWalk(module) /\
                              <<Last(calls)[1], Last(calls)[2].kind>> \notin refuses)

\* The parser returns on every text, and so does a walk over what it made.
ParsesReturn == (result = Running ~> result # Running) /\ (agenda # <<>> ~> agenda = <<>>)

=============================================================================
