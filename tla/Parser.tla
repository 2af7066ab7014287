------------------------------- MODULE Parser -------------------------------
(***************************************************************************)
(* yy::Parser, the parser bison generates from src/parser/parser.yy        *)
(* (src/parser/precompiled/parser.tab.cc, parser.tab.hh and stack.hh), and *)
(* what it tells the driver while it runs.                                 *)
(***************************************************************************)
EXTENDS Grammar, Scanner

CONSTANT Running    \* parse() has not returned

ASSUME RunningAssumption == Running \notin {-1, 0, 1}

VARIABLES
  yystack,    \* the states entered, each with the value of its symbol
  result,     \* what parse() returned, Running before
  module,     \* ParserDriver::_module
  suppress,   \* ParserDriver::suppressErrorMessages()
  errors      \* the errors registered

parserVars == <<yystack, result, module, suppress, errors>>

-----------------------------------------------------------------------------
(* What the parser calls in the driver.                                    *)

\* Fault: the groups are added to those of the module before.
setModule_Appends(m) == module' = [m EXCEPT !.groups = module.groups \o @]

setModule(m) == module' = m

\* Fault: errors are registered although they were to be suppressed.
error_Always(e) == errors' = Append(errors, e)

error(e) == errors' = IF suppress THEN errors ELSE Append(errors, e)

-----------------------------------------------------------------------------
Depth == Len(yystack)

State(entry) == entry[1]
Value(entry) == entry[2]
top          == State(yystack[Depth])

stack_symbol(state, value) == <<state, value>>

push(stack, entry) == Append(stack, entry)

pop(stack, n) == SubSeq(stack, 1, Len(stack) - n)

Start ==
  /\ yystack' = push(<<>>, stack_symbol(InitialState, Empty))
  /\ yyla' = Empty
  /\ result' = Running

AtWork == result = Running /\ ~lexing

\* Some states reduce without looking at the next token.
NeedsToken == ~IsFinal(top) /\ ~IsConsistent(top) /\ yyla = Empty

ReadToken ==
  /\ AtWork /\ NeedsToken
  /\ CallLexer
  /\ UNCHANGED parserVars

Shift ==
  /\ AtWork /\ yyla # Empty /\ yyla.kind \in Expected(top)
  /\ yystack' = push(yystack, stack_symbol(Goto(top, yyla.kind), yyla.value))
  /\ yyla' = Empty
  /\ UNCHANGED <<buffer, yy_c_buf_p, loc, errno, lexing, result, module, suppress, errors>>

\* What is done when the next token cannot be shifted.
Defaults == AtWork /\ ~IsFinal(top) /\ ~NeedsToken
            /\ (yyla # Empty => yyla.kind \notin Expected(top))

DefaultProduction ==
  yydefact(top, IF yyla = Empty THEN "" ELSE yyla.kind)

\* The module is handed over as soon as an input was seen, whatever follows it.
Reduce ==
  /\ Defaults
  /\ \E p \in {DefaultProduction} \ {NoProduction} :
       LET n      == Len(Rhs(p))
           popped == pop(yystack, n)
           values == [i \in 1 .. n |-> Value(yystack[Depth - n + i])]
           entered == Goto(State(popped[Len(popped)]), Lhs(p))
       IN  /\ yystack' = push(popped, stack_symbol(entered, Built(p, values)))
           /\ IF Lhs(p) = "input" THEN setModule(ModuleOf(values[1])) ELSE UNCHANGED module
  /\ UNCHANGED <<scannerVars, result, suppress, errors>>

\* At most four expected tokens are named, none if there are more.
yysyntax_error ==
  [unexpected |-> yyla.kind, at |-> yyla.loc,
   expected |-> IF Cardinality(Expected(top)) > 4 THEN {} ELSE Expected(top)]

\* parse() returns: the lookahead and the symbols on the stack are destroyed.
Return(code) ==
  /\ result' = code
  /\ yystack' = SubSeq(yystack, 1, 1) /\ yyla' = Empty

\* No production has an error token, so no state on the stack can recover.
SyntaxError ==
  /\ Defaults /\ DefaultProduction = NoProduction
  /\ error(yysyntax_error)
  /\ Return(1)
  /\ UNCHANGED <<buffer, yy_c_buf_p, loc, errno, lexing, module, suppress>>

Accept ==
  /\ AtWork /\ IsFinal(top)
  /\ Return(0)
  /\ UNCHANGED <<buffer, yy_c_buf_p, loc, errno, lexing, module, suppress, errors>>

Parse ==
  \/ ReadToken \/ Shift \/ Reduce \/ SyntaxError \/ Accept
  \/ Scan /\ UNCHANGED parserVars

=============================================================================
