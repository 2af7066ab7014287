--------------------------- MODULE ArgumentParser ---------------------------
(***************************************************************************)
(* src/ArgumentParser.cpp: an application registers options and then has   *)
(* command lines parsed.  One action per call that changes the parser, one *)
(* per token for parseArgs, which walks over the line with argc and argv.  *)
(***************************************************************************)
EXTENDS CommandLine

CONSTANTS
  Registrations,   \* [key, option] pairs the application may register
  Minimums,        \* arguments of setMinimumPositionalArgsRequired
  CommandLines,    \* CommandLines[n]: the lines the n-th parseArgs may get
  MaxRegistrations,\* bound on the calls of addParameter
  Unassigned       \* what a variable holds before the parser assigns it

ASSUME ParserAssumption ==
  /\ Registrations \subseteq [key: Keys, option: Parameter]
  /\ Minimums \subseteq Nat
  /\ CommandLines \in Seq(SUBSET Seq(Token))
  /\ MaxRegistrations \in Nat

VARIABLES
  opts,           \* _opts
  shorthandMap,   \* _shorthandMap
  positionalArgs, \* _positionalArgs
  minPositional,  \* _minPositionalArgsRequired
  dst,            \* the variables the destination pointers point to
  pc,             \* where parseArgs is; "idle" between calls
  argv, at, argc, \* the line, the index of *argv in it, tokens left
  result,         \* what the last parseArgs returned; "none" before the first
  registrations, parses,  \* calls so far
  entry           \* history: opts and positionalArgs when the call began

settings == <<minPositional, registrations>>
cursor   == <<argv, at, argc>>
vars == <<opts, shorthandMap, positionalArgs, settings, dst, pc, cursor,
          result, parses, entry>>

Init ==
  /\ opts = [k \in Keys |-> NoOption]
  /\ shorthandMap = [l \in Letters |-> NoKey]
  /\ positionalArgs = <<>>
  /\ minPositional = 0
  /\ dst = [k \in Keys |-> Unassigned]
  /\ pc = "idle"
  /\ argv = <<>> /\ at = 1 /\ argc = 0
  /\ result = "none"
  /\ registrations = 0 /\ parses = 0
  /\ entry = [opts |-> opts, positionalArgs |-> positionalArgs]

-----------------------------------------------------------------------------
(* Registration.                                                           *)

WithValue(option, v) ==
  [letter |-> option.letter, kind |-> option.kind, required |-> option.required,
   default |-> option.default, bound |-> option.bound, value |-> v]

\* Registering a key or a letter again replaces what it stood for.
AddParameter ==
  /\ pc = "idle" /\ registrations < MaxRegistrations
  /\ \E r \in Registrations :
       /\ shorthandMap' = [shorthandMap EXCEPT ![r.option.letter] = r.key]
       /\ opts' = [opts EXCEPT ![r.key] = WithValue(r.option, NoValue)]
  /\ registrations' = registrations + 1
  /\ UNCHANGED <<positionalArgs, minPositional, dst, pc, cursor, result,
                 parses, entry>>

SetMinimumPositionalArgsRequired ==
  /\ pc = "idle"
  /\ \E n \in Minimums \ {minPositional} : minPositional' = n
  /\ UNCHANGED <<opts, shorthandMap, positionalArgs, dst, pc, cursor, result,
                 registrations, parses, entry>>

-----------------------------------------------------------------------------
(* parseArgs.                                                              *)

Return(r) == pc' = "idle" /\ result' = r

ParseArgs ==
  /\ pc = "idle" /\ parses < Len(CommandLines)
  /\ parses' = parses + 1
  /\ \E line \in CommandLines[parses + 1] :
       argv' = line /\ at' = 1 /\ argc' = Len(line)
  /\ pc' = "begin"
  /\ entry' = [opts |-> opts, positionalArgs |-> positionalArgs]
  /\ UNCHANGED <<opts, shorthandMap, positionalArgs, settings, dst, result>>

Arg(i) == IF i \in DOMAIN argv THEN argv[i] ELSE NoToken

\* Fault: the token that was consumed as a value is not skipped.
AdvanceArgv_Once(n) == at' = at + 1 /\ argc' = argc - 1

\* Fault: argv moves on without argc.
AdvanceArgv_CountOnce(n) == at' = at + n /\ argc' = argc - 1

AdvanceArgv(n) == at' = at + n /\ argc' = argc - n

\* The program name is skipped; a line without one is refused.
SkipProgramName ==
  /\ pc = "begin"
  /\ IF argc < 1 THEN Return("false") /\ UNCHANGED cursor
     ELSE AdvanceArgv(1) /\ pc' = "scan" /\ UNCHANGED <<argv, result>>
  /\ UNCHANGED <<opts, shorthandMap, positionalArgs, settings, dst, parses, entry>>

Scanning(form) ==
  pc = "scan" /\ argc # 0 /\ Arg(at) # NoToken /\ Arg(at).form = form

\* Fault: a boolean option is registered over and over.
RegisterCmdlOption_Flag(key) ==
  IF key \notin Registered(opts)
  THEN Return("false") /\ UNCHANGED <<opts, cursor>>
  ELSE IF opts[key].kind = "boolean"
  THEN /\ opts' = [opts EXCEPT ![key].value = True]
       /\ UNCHANGED <<cursor, pc, result>>
  ELSE IF argc - 1 < 1
  THEN Return("false") /\ UNCHANGED <<opts, cursor>>
  ELSE /\ \E v \in Cast(opts[key], Arg(at + 1)) :
            opts' = [opts EXCEPT ![key].value = v]
       /\ AdvanceArgv(2)
       /\ UNCHANGED <<argv, pc, result>>

\* __registerCmdlOption and the ADVANCE_ARGV after it.  An option that takes a
\* value takes the next token, whatever it looks like.
RegisterCmdlOption(key) ==
  IF key \notin Registered(opts)
  THEN Return("false") /\ UNCHANGED <<opts, cursor>>
  ELSE IF opts[key].kind = "boolean"
  THEN /\ opts' = [opts EXCEPT ![key].value = True]
       /\ AdvanceArgv(1)
       /\ UNCHANGED <<argv, pc, result>>
  ELSE IF argc - 1 < 1
  THEN Return("false") /\ UNCHANGED <<opts, cursor>>
  ELSE /\ \E v \in Cast(opts[key], Arg(at + 1)) :
            opts' = [opts EXCEPT ![key].value = v]
       /\ AdvanceArgv(2)
       /\ UNCHANGED <<argv, pc, result>>

ScanLongOption ==
  /\ Scanning("long")
  /\ RegisterCmdlOption(Arg(at).key)
  /\ UNCHANGED <<shorthandMap, positionalArgs, settings, dst, parses, entry>>

ScanShortOption ==
  /\ Scanning("short")
  /\ RegisterCmdlOption(shorthandMap[Arg(at).letter])
  /\ UNCHANGED <<shorthandMap, positionalArgs, settings, dst, parses, entry>>

\* A null pointer before the end of the line is refused like "--" and "-".
ScanIllFormed ==
  /\ \/ Scanning("illFormed")
     \/ pc = "scan" /\ argc # 0 /\ Arg(at) = NoToken
  /\ Return("false")
  /\ UNCHANGED <<opts, shorthandMap, positionalArgs, settings, dst, cursor,
                 parses, entry>>

ScanPositional ==
  /\ Scanning("positional")
  /\ positionalArgs' = Append(positionalArgs, Arg(at))
  /\ AdvanceArgv(1)
  /\ UNCHANGED <<opts, shorthandMap, settings, dst, argv, pc, result, parses, entry>>

\* A line that was walked over to its end is checked.
EndOfLine ==
  /\ pc = "scan" /\ argc = 0
  /\ pc' = "check"
  /\ UNCHANGED <<opts, shorthandMap, positionalArgs, settings, dst, cursor,
                 result, parses, entry>>

\* Fault: only the number of shorthands is compared.
ShorthandsOK_CountOnly ==
  Cardinality({l \in Letters : shorthandMap[l] # NoKey}) = Cardinality(Registered(opts))

\* As many letters as options, and every letter is that of its option.
ShorthandsOK ==
  LET used == {l \in Letters : shorthandMap[l] # NoKey}
  IN  /\ Cardinality(used) = Cardinality(Registered(opts))
      /\ \A l \in used : /\ shorthandMap[l] \in Registered(opts)
                        /\ opts[shorthandMap[l]].letter = l

RequiredGiven ==
  \A k \in Registered(opts) : opts[k].required => opts[k].value # NoValue

CheckParameters ==
  /\ pc = "check"
  /\ IF ShorthandsOK /\ Len(positionalArgs) >= minPositional /\ RequiredGiven
     THEN pc' = "assign" /\ UNCHANGED result
     ELSE Return("false")
  /\ UNCHANGED <<opts, shorthandMap, positionalArgs, settings, dst, cursor,
                 parses, entry>>

AssignValues ==
  /\ pc = "assign"
  /\ dst' = [k \in Keys |->
               IF k \in Registered(opts) /\ opts[k].bound
               THEN Outcome(opts[k]) ELSE dst[k]]
  /\ Return("true")
  /\ UNCHANGED <<opts, shorthandMap, positionalArgs, settings, cursor, parses, entry>>

-----------------------------------------------------------------------------
Parsing ==
  \/ SkipProgramName
  \/ ScanLongOption
  \/ ScanShortOption
  \/ ScanIllFormed
  \/ ScanPositional
  \/ EndOfLine
  \/ CheckParameters
  \/ AssignValues

\* The application has made all its calls.
Finished ==
  /\ pc = "idle"
  /\ registrations = MaxRegistrations /\ parses = Len(CommandLines)
  /\ UNCHANGED vars

Next ==
  \/ AddParameter
  \/ SetMinimumPositionalArgsRequired
  \/ ParseArgs
  \/ Parsing
  \/ Finished

Spec == Init /\ [][Next]_vars

\* A call of parseArgs runs on, on the caller's thread, until it returns.
FairSpec == Spec /\ WF_vars(Parsing)

-----------------------------------------------------------------------------
(* Properties.                                                             *)

Memory == [Keys -> Value \cup {Unassigned}]

\* Every variable has its type.
TypeOK ==
  /\ opts \in OptionMap
  /\ shorthandMap \in ShortHandMap
  /\ positionalArgs \in Seq(Token)
  /\ minPositional \in Nat
  /\ dst \in Memory
  /\ pc \in {"idle", "begin", "scan", "check", "assign"}
  /\ argv \in Seq(Token)
  /\ at \in Nat \ {0} /\ argc \in Int
  /\ result \in {"none", "true", "false"}
  /\ registrations \in 0 .. MaxRegistrations
  /\ parses \in 0 .. Len(CommandLines)
  /\ entry \in [opts: OptionMap, positionalArgs: Seq(Token)]

\* The walk never leaves the line: argc is what is left of it from argv on, so
\* "while (argc)" stops at the end and no argument behind it is read.
ScanStaysInside == argc >= 0 /\ argc = Len(argv) + 1 - at

\* Values are only assigned once the line was walked over and checked.
CheckedInv ==
  /\ pc \in {"check", "assign"} => argc = 0
  /\ pc = "assign" => /\ ShorthandsOK
                     /\ Len(positionalArgs) >= minPositional
                     /\ RequiredGiven

IInv == TypeOK /\ ScanStaysInside /\ CheckedInv

\* Where the values are assigned, letters and options are in one-to-one
\* correspondence: the count of the letters and the comparison along them are
\* enough to know that no option lost its letter to another.
LettersAreUnique ==
  pc = "assign" =>
    \A l \in Letters, k \in Keys :
      shorthandMap[l] = k <=> k \in Registered(opts) /\ opts[k].letter = l

\* What a call does, token by token, is what the line as a whole means: the
\* parser implements ArgumentParsing.  During a call the abstract parser still
\* has the options and positional arguments of its beginning.
Meaning == INSTANCE ArgumentParsing WITH
  opts <- IF pc = "idle" THEN opts ELSE entry.opts,
  positionalArgs <- IF pc = "idle" THEN positionalArgs ELSE entry.positionalArgs,
  line <- argv, pending <- pc # "idle"

ParsesTheLine == Meaning!Spec

\* parseArgs returns, whatever it is given.
ParseReturns == pc # "idle" ~> pc = "idle"

=============================================================================
