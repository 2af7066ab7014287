---------------------------- MODULE ProgramDriver ----------------------------
(***************************************************************************)
(* ProgramDriver::run (src/ProgramDriver.cpp): command line, parser,       *)
(* semantic analysis and synthesis in a row, with an error handler that is *)
(* installed for the time of the last three.                               *)
(*                                                                         *)
(* The machines of SemanticAnalyzer and Synthesizer take their steps while *)
(* their stage lasts; both report to the one printer.  The state of the    *)
(* analyzer is part of this module's, under its own names: the tree it is  *)
(* handed and the errors it registers are those of run().  The synthesizer *)
(* is an instance that shares the two.  Command line and parser take one   *)
(* step each: what they do inside is in CmdlDriver.tla and FrontEnd.tla.   *)
(***************************************************************************)
EXTENDS SemanticAnalyzer, Integers

CONSTANT ErrorDefn     \* the base name of the files with the error codes

ASSUME ErrorDefnAssumption == ErrorDefn \in Names

VARIABLES
  stage,       \* the call of run() in progress
  exit,        \* "none", then EXIT_SUCCESS or EXIT_FAILURE or "abort"
  silent,      \* --silent
  handler,     \* whether a handler is registered
  help,        \* printHelp was called
  stderrLine,  \* the message about the output path was printed
  comments,    \* of the synthesizer, like the rest
  synthPc, synthG, synthD, synthP, open, numPremisesProcessed, nameId,
  headerFileOfs, cppFileOfs, files, damaged

semaVars  == <<pc, cursor, context>>
synthVars == <<synthPc, synthG, synthD, synthP, open, numPremisesProcessed,
               nameId, headerFileOfs, cppFileOfs, files, damaged>>
shown     == <<help, stderrLine, errors, warnings>>
options   == <<silent, opts, comments>>
runVars   == <<stage, exit, handler, module, semaVars, synthVars, shown, options>>

Synth == INSTANCE Synthesizer
           WITH pc <- synthPc, g <- synthG, d <- synthD, p <- synthP

\* The module of the parser is empty until it has accepted one.
RunInit ==
  /\ stage = "commandLine" /\ exit = "none"
  /\ silent \in BOOLEAN /\ handler = FALSE
  /\ help = FALSE /\ stderrLine = FALSE
  /\ opts \in Options /\ comments \in BOOLEAN
  /\ module = <<>> /\ errors = 0 /\ warnings = 0
  /\ pc = "module" /\ g = 1 /\ d = 1 /\ p = 1
  /\ ok = TRUE /\ symbolSet = {} /\ targetTbl = EmptyTable /\ failed = {}
  /\ synthPc = "errorCodes" /\ synthG = 1 /\ synthD = 1 /\ synthP = 1 /\ open = <<>>
  /\ numPremisesProcessed = 0 /\ nameId = 0
  /\ headerFileOfs = "closed" /\ cppFileOfs = "closed"
  /\ files = [path \in Synth!Paths |-> <<Synth!Line("stale", 0, 0)>>]
  /\ damaged = {}

-----------------------------------------------------------------------------
\* Fault: the handler stays registered on a failure.
Return_KeepsHandler(code) ==
  /\ exit' = code /\ stage' = "returned" /\ handler' = (code # "success" /\ handler)

\* Leaving run() ends the scope of the handler.
Return(code) == exit' = code /\ stage' = "returned" /\ handler' = FALSE

\* The options are those of the line, which RunInit chose.
RunCmdlDriver ==
  /\ stage = "commandLine"
  /\ \/ /\ stage' = "parser" /\ handler' = TRUE
        /\ UNCHANGED <<exit, help>>
     \/ Return("failure") /\ help' = TRUE
  /\ UNCHANGED <<stderrLine, errors, warnings, module, semaVars, synthVars, options>>

\* parseFromFile returns 0 for success, -1 if the file does not open and what
\* the generated parser returns otherwise.
Accepts(res) == res = 0

\* Every result but 0 comes with an error; after an error of syntax the driver
\* may have a module all the same.
ParseFromFile ==
  /\ stage = "parser"
  /\ \E res \in {-1, 0, 1} :
       /\ module' \in CASE res = 0  -> Modules
                         [] res = 1  -> Modules \cup {module}
                         [] res = -1 -> {module}
       /\ errors' = IF res = 0 THEN errors ELSE errors + 1
       /\ IF Accepts(res) THEN stage' = "analyzer" /\ UNCHANGED <<exit, handler>>
                          ELSE Return("failure")
  /\ UNCHANGED <<help, stderrLine, warnings, semaVars, synthVars, options>>

Analyze ==
  /\ stage = "analyzer" /\ ~Done
  /\ Next
  /\ UNCHANGED <<stage, exit, handler, help, stderrLine, synthVars, options>>

FinishAnalysis ==
  /\ stage = "analyzer" /\ Done
  /\ IF pc = "accepted" THEN stage' = "synthesizer" /\ UNCHANGED <<exit, handler>>
                            ELSE Return("failure")
  /\ UNCHANGED <<module, semaVars, synthVars, shown, options>>

Synthesize ==
  /\ stage = "synthesizer" /\ ~Synth!Done
  /\ Synth!Next
  /\ UNCHANGED <<stage, exit, handler, help, stderrLine, warnings, semaVars, options>>

\* Fault: a synthesizer that fails is taken to have said why.
OutputMessage_Never == FALSE

OutputMessage == ~silent

\* Nothing catches an exception: the process aborts, handler and all.
FinishSynthesis ==
  /\ stage = "synthesizer" /\ Synth!Done
  /\ CASE synthPc = "succeeded"  -> Return("success") /\ UNCHANGED stderrLine
       [] synthPc = "failed"     -> Return("failure") /\ stderrLine' = OutputMessage
       [] synthPc = "terminated" -> /\ exit' = "abort" /\ stage' = "returned"
                                    /\ UNCHANGED <<handler, stderrLine>>
  /\ UNCHANGED <<help, errors, warnings, module, semaVars, synthVars, options>>

Returned == stage = "returned" /\ UNCHANGED runVars

RunNext ==
  \/ RunCmdlDriver
  \/ ParseFromFile
  \/ Analyze
  \/ FinishAnalysis
  \/ Synthesize
  \/ FinishSynthesis
  \/ Returned

RunSpec == RunInit /\ [][RunNext]_runVars

\* run() is one call on one thread.
FairRunSpec == RunSpec /\ WF_runVars(RunNext)

-----------------------------------------------------------------------------
(* Properties.                                                             *)

\* A file of the output that this run has written to.
Touched == {path \in Synth!Paths :
              files[path] # <<Synth!Line("stale", 0, 0)>> \/ path \in damaged}

\* Nothing is written before analysis has accepted the module: a refused input
\* leaves the output of the last good compilation alone.
RefusedInputTouchesNothing ==
  Touched # {} => pc = "accepted" /\ Analysis!ModuleOK(module, opts.werror)

\* Exit status 0 means that the module deserves to be accepted, that no error
\* was printed, and that what reached the files is its code.
SuccessIsEarned ==
  exit = "success" =>
    /\ errors = 0
    /\ Analysis!ModuleOK(module, opts.werror)
    /\ Synth!OutputIsTheCode

\* A failure tells its reason, unless the user asked for silence: the help, an
\* error, or the line about the output path.
FailureIsExplained ==
  exit = "failure" /\ ~silent => help \/ stderrLine \/ errors > 0

\* No error is registered while no handler is there to print it, and the
\* handler, which refers to variables of run(), does not outlive it.
HandlerIsScoped ==
  /\ stage \in {"parser", "analyzer", "synthesizer"} => handler
  /\ stage = "returned" /\ exit # "abort" => ~handler

\* run() returns, or the process ends.
RunReturns == <>(stage = "returned")

=============================================================================
