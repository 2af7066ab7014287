----------------------------- MODULE CmdlDriver -----------------------------
(***************************************************************************)
(* src/CmdlDriver.cpp: the command line of the compiler.  Every run makes  *)
(* an ArgumentParser of its own, registers the options of the compiler in  *)
(* it and has it parse the line; the parser writes straight into the       *)
(* driver's options (dst), which live on from one run to the next.         *)
(***************************************************************************)
EXTENDS ArgumentParser, FiniteSetsExt

CONSTANT EmptyPath  \* the empty string: a path nobody set

VARIABLES
  driver,     \* "none", "parsing", or what the last run returned
  inputPath   \* _opts.inputPath; the other members of _opts are in dst

driverVars == <<vars, driver, inputPath>>

Flag(key, letter) ==
  [key |-> key, letter |-> letter, kind |-> "boolean", required |-> FALSE,
   default |-> False]

\* Fault: two flags share a letter.
DriverParameters_Clash ==
  << [key |-> "output", letter |-> "o", kind |-> "string", required |-> TRUE,
      default |-> EmptyPath],
     Flag("errors", "e"), Flag("bail", "b"), Flag("debug", "d"),
     Flag("verbose", "v"), Flag("silent", "s"),
     Flag("no-annotation-comments", "s") >>

\* The calls of addParameter, in their order.
DriverParameters ==
  << [key |-> "output", letter |-> "o", kind |-> "string", required |-> TRUE,
      default |-> EmptyPath],
     Flag("errors", "e"), Flag("bail", "b"), Flag("debug", "d"),
     Flag("verbose", "v"), Flag("silent", "s"),
     Flag("no-annotation-comments", "n") >>

\* The empty string is what an empty argument says, too.
ASSUME DriverAssumption ==
  /\ EmptyPath \in Token
  /\ \A i \in DOMAIN DriverParameters : /\ DriverParameters[i].key \in Keys
                                        /\ DriverParameters[i].letter \in Letters

\* The last call that used a key or a letter counts.
LastCall(calls) == DriverParameters[Max(calls)]
CallsFor(key)       == {i \in DOMAIN DriverParameters : DriverParameters[i].key = key}
CallsWith(letter)   == {i \in DOMAIN DriverParameters : DriverParameters[i].letter = letter}

DriverOptions ==
  [k \in Keys |->
     IF CallsFor(k) = {} THEN NoOption
     ELSE LET c == LastCall(CallsFor(k))
          IN  [letter |-> c.letter, kind |-> c.kind, required |-> c.required,
               default |-> c.default, bound |-> TRUE, value |-> NoValue]]

DriverShorthands ==
  [l \in Letters |-> IF CallsWith(l) = {} THEN NoKey ELSE LastCall(CallsWith(l)).key]

-----------------------------------------------------------------------------
\* The driver's options are value-initialized.
DriverInit ==
  /\ opts = [k \in Keys |-> NoOption]
  /\ shorthandMap = [l \in Letters |-> NoKey]
  /\ positionalArgs = <<>>
  /\ minPositional = 0
  /\ dst = [k \in Keys |-> IF k = "output" THEN EmptyPath ELSE False]
  /\ pc = "idle"
  /\ argv = <<>> /\ at = 1 /\ argc = 0
  /\ result = "none"
  /\ registrations = 0 /\ parses = 0
  /\ entry = [opts |-> opts, positionalArgs |-> positionalArgs]
  /\ driver = "none" /\ inputPath = EmptyPath

\* Fault: the parser is a member of the driver, and is set up again.
Run_SameParser ==
  /\ driver # "parsing" /\ parses < Len(CommandLines)
  /\ opts' = DriverOptions /\ shorthandMap' = DriverShorthands
  /\ minPositional' = 1
  /\ \E line \in CommandLines[parses + 1] :
       argv' = line /\ at' = 1 /\ argc' = Len(line)
  /\ pc' = "begin" /\ driver' = "parsing"
  /\ parses' = parses + 1
  /\ entry' = [opts |-> opts', positionalArgs |-> positionalArgs]
  /\ UNCHANGED <<positionalArgs, dst, result, registrations, inputPath>>

Run ==
  /\ driver # "parsing" /\ parses < Len(CommandLines)
  /\ opts' = DriverOptions /\ shorthandMap' = DriverShorthands
  /\ positionalArgs' = <<>> /\ minPositional' = 1
  /\ \E line \in CommandLines[parses + 1] :
       argv' = line /\ at' = 1 /\ argc' = Len(line)
  /\ pc' = "begin" /\ driver' = "parsing"
  /\ parses' = parses + 1
  /\ entry' = [opts |-> opts', positionalArgs |-> <<>>]
  /\ UNCHANGED <<dst, result, registrations, inputPath>>

Parse == driver = "parsing" /\ Parsing /\ UNCHANGED <<driver, inputPath>>

\* parseArgs has returned: the help is printed or the input path is taken.
FinishRun ==
  /\ driver = "parsing" /\ pc = "idle"
  /\ driver' = result
  /\ inputPath' = IF result = "true" THEN positionalArgs[1] ELSE inputPath
  /\ UNCHANGED vars

DriverFinished ==
  /\ driver # "parsing" /\ parses = Len(CommandLines)
  /\ UNCHANGED driverVars

DriverNext == Run \/ Parse \/ FinishRun \/ DriverFinished

DriverSpec == DriverInit /\ [][DriverNext]_driverVars

-----------------------------------------------------------------------------
(* Properties.                                                             *)

\* A run succeeds exactly for "[OPTION]... INPUT" with known options among
\* which is --output: in particular the options registered here do not get in
\* each other's way, and positionalArgs().front() is only read when it is there.
UsageIsAccepted ==
  driver \in {"true", "false"} =>
    (driver = "true" <=> /\ Meaning!Understood
                         /\ Meaning!Mentions("output") # {}
                         /\ Meaning!Positionals # <<>>)

\* After a successful run the options of the compiler are those of this line
\* and no other: the input is its first positional argument, a flag is set
\* exactly if the line has it, and the output is the last one it gives.
OptionsFollowTheLine ==
  driver = "true" =>
    /\ Meaning!Positionals # <<>> /\ inputPath = Meaning!Positionals[1]
    /\ \A k \in Keys \ {"output"} :
         dst[k] = IF Meaning!Mentions(k) # {} THEN True ELSE False
    /\ Meaning!Mentions("output") # {}
    /\ dst["output"] = argv[Max(Meaning!Mentions("output")) + 1]

=============================================================================
