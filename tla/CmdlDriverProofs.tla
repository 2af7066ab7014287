-------------------------- MODULE CmdlDriverProofs --------------------------
(***************************************************************************)
(* Proofs about CmdlDriver, for any command lines and any number of runs   *)
(* of one driver: the options it registers do not get in each other's way, *)
(* and what a run returns and sets follows from its own line.  A call of   *)
(* parseArgs is looked at through ArgumentParsing, which it implements.    *)
(***************************************************************************)
EXTENDS CmdlDriver, ArgumentParserProofs

(* What the driver registers.                                              *)

\* The seven calls of addParameter: no two share a key or a letter.
LEMMA ParametersDiffer ==
  /\ DOMAIN DriverParameters = 1 .. 7
  /\ DriverParameters[1] = [key |-> "output", letter |-> "o", kind |-> "string",
                            required |-> TRUE, default |-> EmptyPath]
  /\ \A i \in 2 .. 7 : /\ DriverParameters[i].kind = "boolean"
                       /\ DriverParameters[i].required = FALSE
                       /\ DriverParameters[i].default = False
                       /\ DriverParameters[i].key # "output"
  /\ \A i, j \in 1 .. 7 : DriverParameters[i].key = DriverParameters[j].key => i = j
  /\ \A i, j \in 1 .. 7 : DriverParameters[i].letter = DriverParameters[j].letter => i = j
<1>1. DOMAIN DriverParameters = 1 .. 7
  BY DEF DriverParameters
<1>2. DriverParameters[1] = [key |-> "output", letter |-> "o", kind |-> "string",
                            required |-> TRUE, default |-> EmptyPath]
  BY DEF DriverParameters
<1>3. /\ DriverParameters[2] = Flag("errors", "e") /\ DriverParameters[3] = Flag("bail", "b")
      /\ DriverParameters[4] = Flag("debug", "d") /\ DriverParameters[5] = Flag("verbose", "v")
      /\ DriverParameters[6] = Flag("silent", "s")
      /\ DriverParameters[7] = Flag("no-annotation-comments", "n")
  BY DEF DriverParameters
<1>4. \A i \in 1 .. 7 : i = 1 \/ i = 2 \/ i = 3 \/ i = 4 \/ i = 5 \/ i = 6 \/ i = 7
  OBVIOUS
<1>5. \A i \in 2 .. 7 : /\ DriverParameters[i].kind = "boolean"
                        /\ DriverParameters[i].required = FALSE
                        /\ DriverParameters[i].default = False
                        /\ DriverParameters[i].key # "output"
  <2>1. \A i \in 2 .. 7 : i = 2 \/ i = 3 \/ i = 4 \/ i = 5 \/ i = 6 \/ i = 7
    OBVIOUS
  <2> QED
    BY <1>3, <2>1 DEF Flag
<1>6. /\ DriverParameters[1].key = "output" /\ DriverParameters[2].key = "errors"
      /\ DriverParameters[3].key = "bail" /\ DriverParameters[4].key = "debug"
      /\ DriverParameters[5].key = "verbose" /\ DriverParameters[6].key = "silent"
      /\ DriverParameters[7].key = "no-annotation-comments"
  BY <1>2, <1>3 DEF Flag
<1>7. /\ DriverParameters[1].letter = "o" /\ DriverParameters[2].letter = "e"
      /\ DriverParameters[3].letter = "b" /\ DriverParameters[4].letter = "d"
      /\ DriverParameters[5].letter = "v" /\ DriverParameters[6].letter = "s"
      /\ DriverParameters[7].letter = "n"
  BY <1>2, <1>3 DEF Flag
<1>8. \A i, j \in 1 .. 7 : DriverParameters[i].key = DriverParameters[j].key => i = j
  BY <1>4, <1>6
<1>9. \A i, j \in 1 .. 7 : DriverParameters[i].letter = DriverParameters[j].letter => i = j
  BY <1>4, <1>7
<1> QED
  BY <1>1, <1>2, <1>5, <1>8, <1>9

\* Of one number that one is the greatest.
LEMMA MaxOfOne ==
  ASSUME NEW i \in Int
  PROVE  Max({i}) = i
BY DEF Max

\* So each call is the only one for its key and its letter.
LEMMA CallsAreSingle ==
  ASSUME NEW i \in 1 .. 7
  PROVE  /\ CallsFor(DriverParameters[i].key) = {i}
         /\ CallsWith(DriverParameters[i].letter) = {i}
         /\ LastCall({i}) = DriverParameters[i]
<1>1. CallsFor(DriverParameters[i].key) = {i}
  BY ParametersDiffer DEF CallsFor
<1>2. CallsWith(DriverParameters[i].letter) = {i}
  BY ParametersDiffer DEF CallsWith
<1>3. LastCall({i}) = DriverParameters[i]
  BY MaxOfOne DEF LastCall
<1> QED
  BY <1>1, <1>2, <1>3

\* The option a call of addParameter registers.
Registering(i) ==
  [letter |-> DriverParameters[i].letter, kind |-> DriverParameters[i].kind,
   required |-> DriverParameters[i].required, default |-> DriverParameters[i].default,
   bound |-> TRUE, value |-> NoValue]

\* After the seven calls each key has its option and each letter its key ...
LEMMA RegisteringIsOption ==
  ASSUME NEW i \in 1 .. 7
  PROVE  /\ DriverParameters[i].key \in Keys /\ DriverParameters[i].letter \in Letters
         /\ Registering(i) \in Option
         /\ DriverOptions[DriverParameters[i].key] = Registering(i)
         /\ DriverShorthands[DriverParameters[i].letter] = DriverParameters[i].key
<1>1. DriverParameters[i].key \in Keys /\ DriverParameters[i].letter \in Letters
  BY DriverAssumption, ParametersDiffer
<1>2. /\ DriverParameters[i].kind \in Kinds /\ DriverParameters[i].required \in BOOLEAN
      /\ DriverParameters[i].default \in Value
  <2>1. CASE i = 1
    BY <2>1, ParametersDiffer, DriverAssumption DEF Kinds, Value
  <2>2. CASE i \in 2 .. 7
    BY <2>2, ParametersDiffer DEF Kinds, Value
  <2> QED
    BY <2>1, <2>2
<1>3. Registering(i) \in Option
  BY <1>1, <1>2 DEF Registering, Option
<1>4. DriverOptions[DriverParameters[i].key] = Registering(i)
  <2> DEFINE key == DriverParameters[i].key
  <2>1. key \in Keys /\ CallsFor(key) = {i} /\ {i} # {} /\ LastCall({i}) = DriverParameters[i]
    BY <1>1, CallsAreSingle
  <2> HIDE DEF key
  <2> QED
    BY <2>1 DEF DriverOptions, Registering, key
<1>5. DriverShorthands[DriverParameters[i].letter] = DriverParameters[i].key
  <2> DEFINE letter == DriverParameters[i].letter
  <2>1. letter \in Letters /\ CallsWith(letter) = {i} /\ {i} # {} /\ LastCall({i}) = DriverParameters[i]
    BY <1>1, CallsAreSingle
  <2> HIDE DEF letter
  <2>2. DriverShorthands[letter] = DriverParameters[i].key
    BY <2>1 DEF DriverShorthands
  <2> QED
    BY <2>2 DEF letter
<1> QED
  BY <1>1, <1>3, <1>4, <1>5

\* ... and nothing else is registered.
LEMMA Unregistered ==
  /\ \A k \in Keys : (\A i \in 1 .. 7 : DriverParameters[i].key # k) => DriverOptions[k] = NoOption
  /\ \A l \in Letters : (\A i \in 1 .. 7 : DriverParameters[i].letter # l) => DriverShorthands[l] = NoKey
<1>1. ASSUME NEW k \in Keys, \A i \in 1 .. 7 : DriverParameters[i].key # k
      PROVE  DriverOptions[k] = NoOption
  <2>1. CallsFor(k) = {}
    BY <1>1, ParametersDiffer DEF CallsFor
  <2> QED
    BY <2>1 DEF DriverOptions
<1>2. ASSUME NEW l \in Letters, \A i \in 1 .. 7 : DriverParameters[i].letter # l
      PROVE  DriverShorthands[l] = NoKey
  <2>1. CallsWith(l) = {}
    BY <1>2, ParametersDiffer DEF CallsWith
  <2> QED
    BY <2>1 DEF DriverShorthands
<1> QED
  BY <1>1, <1>2

\* What the seven calls of addParameter leave.
LEMMA DriverSetup ==
  /\ DriverOptions \in OptionMap /\ DriverShorthands \in ShortHandMap
  /\ "output" \in Registered(DriverOptions)
  /\ DriverOptions["output"] =
       [letter |-> "o", kind |-> "string", required |-> TRUE, default |-> EmptyPath,
        bound |-> TRUE, value |-> NoValue]
  /\ \A k \in Registered(DriverOptions) \ {"output"} :
       /\ DriverOptions[k] \in Option
       /\ DriverOptions[k].kind = "boolean" /\ ~DriverOptions[k].required
       /\ DriverOptions[k].default = False /\ DriverOptions[k].bound
       /\ DriverOptions[k].value = NoValue
  /\ \A l \in Letters, k \in Keys :
       DriverShorthands[l] = k <=> k \in Registered(DriverOptions) /\ DriverOptions[k].letter = l
<1>1. ASSUME NEW k \in Keys
      PROVE  \/ DriverOptions[k] = NoOption /\ \A i \in 1 .. 7 : DriverParameters[i].key # k
             \/ \E i \in 1 .. 7 : /\ k = DriverParameters[i].key
                                  /\ DriverOptions[k] = Registering(i) /\ Registering(i) \in Option
  BY Unregistered, RegisteringIsOption
<1>2. DriverOptions \in OptionMap
  <2>1. DriverOptions = [k \in Keys |-> DriverOptions[k]]
    BY DEF DriverOptions
  <2>2. \A k \in Keys : DriverOptions[k] \in Option \cup {NoOption}
    BY <1>1
  <2> QED
    BY <2>1, <2>2 DEF OptionMap
<1>3. DriverShorthands \in ShortHandMap
  <2>1. DriverShorthands = [l \in Letters |-> DriverShorthands[l]]
    BY DEF DriverShorthands
  <2>2. \A l \in Letters : DriverShorthands[l] \in Keys \cup {NoKey}
    BY Unregistered, RegisteringIsOption
  <2> QED
    BY <2>1, <2>2 DEF ShortHandMap
<1>4. \A k \in Registered(DriverOptions) :
        \E i \in 1 .. 7 : /\ k = DriverParameters[i].key
                          /\ DriverOptions[k] = Registering(i) /\ Registering(i) \in Option
  BY <1>1 DEF Registered
<1>5. /\ "output" \in Registered(DriverOptions)
      /\ DriverOptions["output"] =
           [letter |-> "o", kind |-> "string", required |-> TRUE, default |-> EmptyPath,
            bound |-> TRUE, value |-> NoValue]
  <2>1. 1 \in 1 .. 7 /\ DriverParameters[1].key = "output"
    BY ParametersDiffer
  <2>2. "output" \in Keys /\ DriverOptions["output"] = Registering(1) /\ Registering(1) \in Option
    BY <2>1, RegisteringIsOption
  <2>3. Registering(1) = [letter |-> "o", kind |-> "string", required |-> TRUE,
                          default |-> EmptyPath, bound |-> TRUE, value |-> NoValue]
    BY ParametersDiffer DEF Registering
  <2> QED
    BY <2>2, <2>3, CommandLineAssumption DEF Registered
<1>6. ASSUME NEW k \in Registered(DriverOptions) \ {"output"}
      PROVE  /\ DriverOptions[k] \in Option
             /\ DriverOptions[k].kind = "boolean" /\ ~DriverOptions[k].required
             /\ DriverOptions[k].default = False /\ DriverOptions[k].bound
             /\ DriverOptions[k].value = NoValue
  <2>1. PICK i \in 1 .. 7 : /\ k = DriverParameters[i].key
                            /\ DriverOptions[k] = Registering(i) /\ Registering(i) \in Option
    BY <1>4
  <2>2. i \in 2 .. 7
    <3>1. i # 1
      BY <2>1, ParametersDiffer
    <3> QED
      BY <3>1
  <2> QED
    BY <2>1, <2>2, ParametersDiffer DEF Registering
<1>7. ASSUME NEW l \in Letters, NEW k \in Keys, DriverShorthands[l] = k
      PROVE  k \in Registered(DriverOptions) /\ DriverOptions[k].letter = l
  <2>1. PICK i \in 1 .. 7 : DriverParameters[i].letter = l
    BY <1>7, Unregistered, CommandLineAssumption
  <2>2. k = DriverParameters[i].key /\ DriverOptions[k] = Registering(i) /\ Registering(i) \in Option
    BY <1>7, <2>1, RegisteringIsOption
  <2> QED
    BY <2>1, <2>2, CommandLineAssumption DEF Registered, Registering
<1>8. ASSUME NEW l \in Letters, NEW k \in Registered(DriverOptions), DriverOptions[k].letter = l
      PROVE  DriverShorthands[l] = k
  <2>1. PICK i \in 1 .. 7 : k = DriverParameters[i].key /\ DriverOptions[k] = Registering(i)
    BY <1>4
  <2>2. l = DriverParameters[i].letter
    BY <1>8, <2>1 DEF Registering
  <2> QED
    BY <2>1, <2>2, RegisteringIsOption
<1> QED
  BY <1>2, <1>3, <1>5, <1>6, <1>7, <1>8

-----------------------------------------------------------------------------
(* What the driver knows of a line.                                        *)

\* The lines a run succeeds for.
Acceptable ==
  /\ Meaning!Understood
  /\ Meaning!Mentions("output") # {}
  /\ Meaning!Positionals # <<>>

\* The driver's options are those of the line.
OptionsTaken ==
  /\ \A k \in Keys \ {"output"} :
       dst[k] = IF Meaning!Mentions(k) # {} THEN True ELSE False
  /\ dst["output"] = argv[Max(Meaning!Mentions("output")) + 1]

\* Set up for this run, and for nothing else.
FreshParser ==
  /\ entry = [opts |-> DriverOptions, positionalArgs |-> <<>>]
  /\ shorthandMap = DriverShorthands
  /\ minPositional = 1

\* What is known once parseArgs has returned.
LineJudged ==
  /\ result = IF Acceptable THEN "true" ELSE "false"
  /\ result = "true" => positionalArgs = Meaning!Positionals /\ OptionsTaken

\* The inductive invariant: during a call the parser has the options of this
\* run and nothing of an earlier one; after it, result and options are those of
\* the line that was read.  What no option is registered for is never touched.
DriverInv ==
  /\ driver \in {"none", "parsing", "true", "false"}
  /\ driver # "parsing" => pc = "idle"
  /\ \A k \in Keys \ Registered(DriverOptions) : dst[k] = False
  /\ driver = "parsing" /\ pc # "idle" => FreshParser
  /\ driver = "parsing" /\ pc = "idle" => LineJudged
  /\ driver \in {"true", "false"} =>
       /\ LineJudged /\ driver = result
       /\ driver = "true" => inputPath = positionalArgs[1]

\* Once the call is over the line means what it meant during the call.
LEMMA SameLine ==
  ASSUME pc # "idle", pc' = "idle", UNCHANGED <<argv, shorthandMap>>,
         \A k \in Keys : /\ k \in Registered(opts') <=> k \in Registered(entry.opts)
                         /\ k \in Registered(opts') => opts'[k].kind = entry.opts[k].kind
  PROVE  /\ Meaning!Understood' <=> Meaning!Understood
         /\ \A k : Meaning!Mentions(k)' = Meaning!Mentions(k)
         /\ Meaning!Positionals' = Meaning!Positionals
<1>1. \A token, k : Meaning!Names(token, k)' <=> Meaning!Names(token, k)
  <2> TAKE token, k
  <2>1. Meaning!Names(token, k) <=>
          k \in Registered(entry.opts) /\ KeyOf(token, shorthandMap) = k
    BY DEF Meaning!Names, Meaning!Registered, Registered, Meaning!KeyOf, KeyOf
  <2>2. Meaning!Names(token, k)' <=>
          k \in Registered(opts') /\ KeyOf(token, shorthandMap) = k
    BY DEF Meaning!Names, Meaning!Registered, Registered, Meaning!KeyOf, KeyOf
  <2>3. k \in Registered(opts') <=> k \in Registered(entry.opts)
    BY DEF Registered
  <2> QED
    BY <2>1, <2>2, <2>3
<1>2. \A token : Meaning!TakesValue(token)' <=> Meaning!TakesValue(token)
  <2> TAKE token
  <2>1. Meaning!TakesValue(token) <=>
          \E k \in Keys : Meaning!Names(token, k) /\ entry.opts[k].kind # "boolean"
    BY DEF Meaning!TakesValue
  <2>2. Meaning!TakesValue(token)' <=>
          \E k \in Keys : Meaning!Names(token, k)' /\ opts'[k].kind # "boolean"
    BY DEF Meaning!TakesValue
  <2>3. \A k \in Keys : Meaning!Names(token, k) => k \in Registered(opts')
    BY DEF Meaning!Names, Meaning!Registered, Registered
  <2> QED
    BY <1>1, <2>1, <2>2, <2>3
<1>3. Meaning!Owned' = Meaning!Owned
  BY <1>2 DEF Meaning!Owned, Meaning!Valued
<1>4. Meaning!Free' = Meaning!Free /\ Meaning!Heads' = Meaning!Heads
  BY <1>3 DEF Meaning!Free, Meaning!Heads
<1>5. Meaning!Positionals' = Meaning!Positionals
  BY <1>4 DEF Meaning!Placed, Meaning!Positionals
<1>6. \A i : Meaning!Complete(i)' <=> Meaning!Complete(i)
  BY <1>2 DEF Meaning!Complete
<1>7. \A k : Meaning!Mentions(k)' = Meaning!Mentions(k)
  BY <1>1, <1>4 DEF Meaning!Mentions
<1>8. Meaning!Understood' <=> Meaning!Understood
  BY <1>1, <1>4, <1>6 DEF Meaning!Understood
<1> QED
  BY <1>5, <1>7, <1>8

\* What the last mention of --output and of a flag leave.
LEMMA OptionsRead ==
  ASSUME IInv, pc # "idle", FreshParser, Meaning!Understood, NEW i, NEW option
  PROVE  /\ i \in Meaning!Mentions("output") /\ Meaning!ReadAt("output", i, option) =>
              /\ option.value = argv[i + 1] /\ argv[i + 1] \in Token
              /\ option.letter = "o" /\ option.required
         /\ \A k \in Registered(DriverOptions) \ {"output"} :
              Meaning!ReadAt(k, i, option) =>
                option = [DriverOptions[k] EXCEPT !.value = True]
<1>1. entry.opts = DriverOptions
  BY DEF FreshParser
<1>2. ASSUME i \in Meaning!Mentions("output"), Meaning!ReadAt("output", i, option)
      PROVE  /\ option.value = argv[i + 1] /\ argv[i + 1] \in Token
             /\ option.letter = "o" /\ option.required
  <2>1. i \in Meaning!Heads /\ Meaning!Names(argv[i], "output") /\ "output" \in Keys
    BY <1>1, <1>2, DriverSetup DEF Meaning!Mentions, Registered
  <2>2. Meaning!TakesValue(argv[i])
    BY <1>1, <2>1, InCall, DriverSetup
  <2>3. Meaning!Complete(i)
    BY <2>1 DEF Meaning!Understood
  <2>4. argv[i + 1] \in Token
    <3>1. argv \in Seq(Token) /\ Len(argv) \in Nat
      BY DEF IInv, TypeOK
    <3>2. i \in 2 .. Len(argv) /\ i < Len(argv)
      BY <2>1, <2>2, <2>3 DEF Meaning!Complete, Meaning!Heads, Meaning!Free
    <3>3. i + 1 \in 1 .. Len(argv)
      BY <3>1, <3>2
    <3> QED
      BY <3>1, <3>3
  <2>5. option = [DriverOptions["output"] EXCEPT !.value = argv[i + 1]]
    <3>0. DriverOptions["output"].kind = "string"
      BY DriverSetup
    <3>3. \E v \in IF entry.opts["output"].kind = "boolean" THEN {True}
                  ELSE Cast(entry.opts["output"], argv[i + 1]) :
            option = [entry.opts["output"] EXCEPT !.value = v]
      BY <1>2, InCall, Zenon
    <3> DEFINE registered == entry.opts["output"]
    <3>4. registered.kind # "boolean" /\ registered = DriverOptions["output"]
      BY <1>1, <3>0
    <3>5. \E v \in IF registered.kind = "boolean" THEN {True}
                  ELSE Cast(registered, argv[i + 1]) :
            option = [registered EXCEPT !.value = v]
      BY <3>3
    <3> HIDE DEF registered
    <3>1. PICK v \in Cast(DriverOptions["output"], argv[i + 1]) :
            option = [DriverOptions["output"] EXCEPT !.value = v]
      BY <3>4, <3>5
    <3>2. v = argv[i + 1]
      BY <3>0, <3>1 DEF Cast
    <3> QED
      BY <3>1, <3>2
  <2> QED
    BY <2>4, <2>5, DriverSetup
<1>3. ASSUME NEW k \in Registered(DriverOptions) \ {"output"}, Meaning!ReadAt(k, i, option)
      PROVE  option = [DriverOptions[k] EXCEPT !.value = True]
  BY <1>1, <1>3, InCall, DriverSetup
<1> QED
  BY <1>2, <1>3

\* Everything parseArgs does to its options leaves them registered as they were.
LEMMA ReturnKeepsOptions ==
  ASSUME IInv, ReadInv, Parsing, pc' = "idle"
  PROVE  /\ pc # "idle" /\ UNCHANGED <<opts, argv, shorthandMap, entry>>
         /\ \A k \in Keys :
              /\ k \in Registered(opts) <=> k \in Registered(entry.opts)
              /\ k \in Registered(opts) =>
                   /\ opts[k].kind = entry.opts[k].kind
                   /\ opts[k].required = entry.opts[k].required
                   /\ opts[k].letter = entry.opts[k].letter
<1>1. pc # "idle" /\ UNCHANGED <<opts, argv, shorthandMap, entry>>
  BY DEF Parsing, SkipProgramName, ScanLongOption, ScanShortOption, ScanIllFormed,
         ScanPositional, EndOfLine, CheckParameters, AssignValues, Scanning, Return,
         RegisterCmdlOption, AdvanceArgv, settings, cursor
<1>2. CASE pc = "begin"
  BY <1>1, <1>2 DEF ReadInv
<1>3. CASE pc # "begin"
  BY <1>1, <1>3, ReadOptions DEF ReadInv, IInv, TypeOK
<1> QED
  BY <1>1, <1>2, <1>3

\* A step that ends the call of parseArgs.  It is an Accept or a Refuse of
\* ArgumentParsing, and with the options registered here that settles the result.
LEMMA CallEnds ==
  ASSUME IInv, IInv', ReadInv, FreshParser, Parsing, pc' = "idle",
         \A k \in Keys \ Registered(DriverOptions) : dst[k] = False
  PROVE  /\ LineJudged'
         /\ \A k \in Keys \ Registered(DriverOptions) : dst'[k] = False
<1>1. /\ pc # "idle" /\ UNCHANGED <<opts, argv, shorthandMap, entry>>
      /\ entry.opts = DriverOptions /\ entry.positionalArgs = <<>>
      /\ minPositional = 1 /\ shorthandMap = DriverShorthands
      /\ \A k \in Keys :
           /\ k \in Registered(opts') <=> k \in Registered(DriverOptions)
           /\ k \in Registered(opts') =>
                /\ opts'[k].kind = DriverOptions[k].kind
                /\ opts'[k].required = DriverOptions[k].required
                /\ opts'[k].letter = DriverOptions[k].letter
  BY ReturnKeepsOptions DEF FreshParser
<1>2. /\ Meaning!Understood' <=> Meaning!Understood
      /\ \A k : Meaning!Mentions(k)' = Meaning!Mentions(k)
      /\ Meaning!Positionals' = Meaning!Positionals
  BY <1>1, SameLine
<1>3. Meaning!Accept \/ Meaning!Refuse
  <2>1. [Meaning!Next]_(Meaning!vars)
    BY StepMeans DEF Next
  <2> QED
    BY <1>1, <2>1 DEF Meaning!Next, Meaning!AddParameter, Meaning!SetMinimum, Meaning!Call,
                      Meaning!vars
<1>4. "output" \in Keys /\ "output" \in Registered(DriverOptions)
  BY DriverSetup DEF Registered
<1>5. Acceptable' <=> Acceptable
  BY <1>2 DEF Acceptable
<1>6. Len(Meaning!Positionals) \in Nat
      /\ (Len(Meaning!Positionals) >= 1 <=> Meaning!Positionals # <<>>)
      /\ Meaning!Positionals \in Seq(Token)
  <2>1. argv \in Seq(Token) /\ Len(argv) \in Nat
    BY DEF IInv, TypeOK
  <2>2. Len(argv) \in 0 .. Len(argv)
    BY <2>1
  <2> DEFINE all == Meaning!Positionals
  <2>3. all \in Seq(Token)
    BY <2>1, <2>2, PlacedGrows DEF Meaning!Placed, Meaning!Positionals
  <2> HIDE DEF all
  <2>4. Len(all) \in Nat /\ (Len(all) >= 1 <=> all # <<>>)
    BY <2>3, EmptySeq
  <2> QED
    BY <2>3, <2>4 DEF all
<1>7. Meaning!TakenIn => positionalArgs' = Meaning!Positionals
  <2>1. Meaning!TakenIn => positionalArgs' = <<>> \o Meaning!Positionals
    BY <1>1 DEF Meaning!TakenIn
  <2> DEFINE all == Meaning!Positionals
  <2>2. all \in Seq(Token)
    BY <1>6
  <2> HIDE DEF all
  <2>3. <<>> \o all = all
    BY <2>2, ConcatEmptySeq
  <2> QED
    BY <2>1, <2>3 DEF all
<1>8. Meaning!TakenIn => \A k \in Keys :
        IF Meaning!Mentions(k) = {} THEN opts'[k] = DriverOptions[k]
        ELSE Meaning!ReadAt(k, Max(Meaning!Mentions(k)), opts'[k])
  BY <1>1 DEF Meaning!TakenIn, Meaning!Max, Max
<1>9. ASSUME NEW k \in Keys
      PROVE  Meaning!Mentions(k) # {} =>
               /\ Max(Meaning!Mentions(k)) \in Meaning!Mentions(k)
               /\ k \in Registered(DriverOptions)
  <2>1. argv \in Seq(Token) /\ Len(argv) \in Nat
    BY DEF IInv, TypeOK
  <2>2. Meaning!Mentions(k) \in SUBSET (1 .. Len(argv))
    BY <2>1 DEF Meaning!Mentions, Meaning!Heads, Meaning!Free
  <2>3. Meaning!Mentions(k) # {} => k \in Registered(DriverOptions)
    BY <1>1, InCall DEF Meaning!Mentions
  <2> QED
    BY <2>1, <2>2, <2>3, MaxIsMember
<1>10. CASE Meaning!Accept
  <2>1. /\ Meaning!Understood /\ Meaning!TakenIn /\ result' = "true"
        /\ Meaning!Satisfied(opts', positionalArgs')
        /\ dst' = [k \in Keys |->
                    IF k \in Registered(DriverOptions) /\ DriverOptions[k].bound
                    THEN Outcome(opts'[k]) ELSE dst[k]]
    BY <1>1, <1>10 DEF Meaning!Accept, Meaning!Registered, Registered, Meaning!Outcome, Outcome
  <2>2. Meaning!Positionals # <<>>
    BY <1>1, <1>6, <1>7, <2>1 DEF Meaning!Satisfied
  <2>3. opts'["output"].value # NoValue
    BY <1>1, <1>4, <2>1, DriverSetup DEF Meaning!Satisfied, Meaning!Registered, Registered
  <2>4. Meaning!Mentions("output") # {}
    BY <1>4, <1>8, <2>1, <2>3, DriverSetup
  <2>5. Acceptable
    BY <2>1, <2>2, <2>4 DEF Acceptable
  <2>6. ASSUME NEW k \in Keys \ {"output"}
        PROVE  dst'[k] = IF Meaning!Mentions(k) # {} THEN True ELSE False
    <3>1. CASE k \notin Registered(DriverOptions)
      BY <1>9, <2>1, <3>1
    <3>2. CASE k \in Registered(DriverOptions) /\ Meaning!Mentions(k) = {}
      <4>1. opts'[k] = DriverOptions[k]
        BY <1>8, <2>1, <3>2
      <4> QED
        BY <2>1, <3>2, <4>1, DriverSetup DEF Outcome
    <3>3. CASE k \in Registered(DriverOptions) /\ Meaning!Mentions(k) # {}
      <4> DEFINE last == Max(Meaning!Mentions(k))
                 option == opts'[k]
      <4>0. Meaning!ReadAt(k, last, option)
        BY <1>8, <2>1, <3>3
      <4>1. option = [DriverOptions[k] EXCEPT !.value = True]
        <5> HIDE DEF last, option
        <5> QED
          BY <1>1, <2>1, <3>3, <4>0, OptionsRead
      <4>2. opts'[k].value = True
        BY <3>3, <4>1, DriverSetup DEF Option
      <4>3. True # NoValue
        BY CommandLineAssumption DEF Value
      <4> QED
        BY <2>1, <3>3, <4>2, <4>3, DriverSetup DEF Outcome
    <3> QED
      BY <3>1, <3>2, <3>3
  <2>7. dst'["output"] = argv[Max(Meaning!Mentions("output")) + 1]
    <3> DEFINE last == Max(Meaning!Mentions("output"))
    <3>1. Meaning!ReadAt("output", last, opts'["output"]) /\ last \in Meaning!Mentions("output")
      BY <1>4, <1>8, <1>9, <2>1, <2>4
    <3> HIDE DEF last
    <3>2. opts'["output"].value = argv[last + 1]
      BY <1>1, <2>1, <3>1, OptionsRead
    <3>3. dst'["output"] = Outcome(opts'["output"])
      BY <1>4, <2>1, DriverSetup
    <3> QED
      BY <2>3, <3>2, <3>3 DEF Outcome, last
  <2>8. OptionsTaken'
    BY <1>1, <1>2, <2>6, <2>7 DEF OptionsTaken
  <2>9. \A k \in Keys \ Registered(DriverOptions) : dst'[k] = False
    BY <2>1
  <2> QED
    BY <1>2, <1>5, <1>7, <2>1, <2>5, <2>8, <2>9 DEF LineJudged
<1>11. CASE Meaning!Refuse
  <2>1. /\ result' = "false" /\ UNCHANGED dst
        /\ Meaning!Understood => /\ Meaning!TakenIn
                                 /\ ~Meaning!Satisfied(opts', positionalArgs')
    BY <1>11 DEF Meaning!Refuse
  <2>2. ASSUME Acceptable PROVE FALSE
    <3>1. Meaning!Understood /\ Meaning!Mentions("output") # {} /\ Meaning!Positionals # <<>>
      BY <2>2 DEF Acceptable
    <3>2. Meaning!LettersAgree(opts')
      BY <1>1, DriverSetup DEF Meaning!LettersAgree, Meaning!Registered, Registered
    <3>3. Len(positionalArgs') >= minPositional
      BY <1>1, <1>6, <1>7, <2>1, <3>1
    <3>4. opts'["output"].value # NoValue
      <4> DEFINE last == Max(Meaning!Mentions("output"))
      <4>1. Meaning!ReadAt("output", last, opts'["output"]) /\ last \in Meaning!Mentions("output")
        BY <1>4, <1>8, <1>9, <2>1, <3>1
      <4> HIDE DEF last
      <4>2. opts'["output"].value \in Token
        BY <1>1, <3>1, <4>1, OptionsRead
      <4> QED
        BY <4>2, CommandLineAssumption DEF Value
    <3>5. \A k \in Registered(opts') : opts'[k].required => opts'[k].value # NoValue
      BY <1>1, <3>4, DriverSetup DEF Registered
    <3>6. Meaning!Satisfied(opts', positionalArgs')
      BY <3>2, <3>3, <3>5 DEF Meaning!Satisfied, Meaning!Registered, Registered
    <3> QED
      BY <2>1, <3>1, <3>6
  <2> QED
    BY <1>5, <2>1, <2>2 DEF LineJudged
<1> QED
  BY <1>3, <1>10, <1>11

-----------------------------------------------------------------------------
(* The runs of the driver.                                                 *)

\* With the parser's own invariants.
DriverIInv == IInv /\ ReadInv /\ DriverInv

\* A new run starts with a new parser, whatever the last one left.
LEMMA RunStarts ==
  ASSUME DriverIInv, Run
  PROVE  DriverIInv'
<1> USE DEF DriverIInv
<1>1. PICK line \in CommandLines[parses + 1] :
        argv' = line /\ at' = 1 /\ argc' = Len(line)
  BY DEF Run
<1>2. parses + 1 \in 1 .. Len(CommandLines)
  BY ParserAssumption DEF Run, IInv, TypeOK
<1>3. line \in Seq(Token)
  BY <1>2, ParserAssumption
<1>4. /\ opts' = DriverOptions /\ shorthandMap' = DriverShorthands
      /\ positionalArgs' = <<>> /\ minPositional' = 1
      /\ pc' = "begin" /\ driver' = "parsing" /\ parses' = parses + 1
      /\ entry' = [opts |-> DriverOptions, positionalArgs |-> <<>>]
      /\ UNCHANGED <<dst, result, registrations, inputPath>>
  BY DEF Run
<1>5. IInv'
  BY <1>1, <1>2, <1>3, <1>4, DriverSetup
  DEF IInv, TypeOK, ScanStaysInside, CheckedInv
<1>6. ReadInv'
  BY <1>1, <1>4 DEF ReadInv
<1>7. DriverInv'
  BY <1>4 DEF DriverInv, FreshParser
<1> QED
  BY <1>5, <1>6, <1>7

\* A step of parseArgs.
LEMMA ParseStep ==
  ASSUME DriverIInv, Parse
  PROVE  DriverIInv'
<1> USE DEF DriverIInv
<1>1. Next /\ driver = "parsing" /\ UNCHANGED <<driver, inputPath>>
  BY DEF Parse, Next
<1>2. IInv' /\ ReadInv'
  BY <1>1, StepInv, StepReads
<1>3. pc # "idle" /\ UNCHANGED <<shorthandMap, minPositional, entry>>
  BY DEF Parse, Parsing, SkipProgramName, ScanLongOption, ScanShortOption, ScanIllFormed,
         ScanPositional, EndOfLine, CheckParameters, AssignValues, Scanning, settings
<1>4. FreshParser
  BY <1>1, <1>3 DEF DriverInv
<1>5. CASE pc' = "idle"
  <2>1. LineJudged' /\ \A k \in Keys \ Registered(DriverOptions) : dst'[k] = False
    BY <1>2, <1>4, <1>5, CallEnds DEF DriverInv, Parse
  <2> QED
    BY <1>1, <1>2, <1>5, <2>1 DEF DriverInv
<1>6. CASE pc' # "idle"
  <2>1. UNCHANGED dst
    BY <1>6 DEF Parse, Parsing, SkipProgramName, ScanLongOption, ScanShortOption,
                ScanIllFormed, ScanPositional, EndOfLine, CheckParameters, AssignValues, Return
  <2>2. FreshParser'
    BY <1>3, <1>4 DEF FreshParser
  <2> QED
    BY <1>1, <1>2, <1>6, <2>1, <2>2 DEF DriverInv
<1> QED
  BY <1>5, <1>6

\* Steps that leave the parser and the line alone leave the judgement alone.
LEMMA LineStays ==
  ASSUME IInv, ReadInv, UNCHANGED vars
  PROVE  IInv' /\ ReadInv' /\ (LineJudged => LineJudged') /\ (FreshParser => FreshParser')
<1>1. UNCHANGED <<opts, shorthandMap, positionalArgs, minPositional, dst, pc, argv, result, entry>>
  BY DEF vars, settings, cursor
<1>2. \A token, k : Meaning!Names(token, k)' <=> Meaning!Names(token, k)
  BY <1>1 DEF Meaning!Names
<1>3. Meaning!Valued' = Meaning!Valued
  BY <1>1 DEF Meaning!Valued, Meaning!TakesValue, Meaning!Names
<1>4. Meaning!Owned' = Meaning!Owned
  BY <1>1, <1>3 DEF Meaning!Owned
<1>5. Meaning!Free' = Meaning!Free /\ Meaning!Heads' = Meaning!Heads
  BY <1>1, <1>4 DEF Meaning!Free, Meaning!Heads
<1>6. Meaning!Positionals' = Meaning!Positionals
  BY <1>1, <1>5 DEF Meaning!Placed, Meaning!Positionals
<1>7. \A i : Meaning!Complete(i)' <=> Meaning!Complete(i)
  BY <1>1 DEF Meaning!Complete, Meaning!TakesValue, Meaning!Names
<1>8. \A k : Meaning!Mentions(k)' = Meaning!Mentions(k)
  BY <1>1, <1>2, <1>5 DEF Meaning!Mentions
<1>9. Meaning!Understood' <=> Meaning!Understood
  BY <1>1, <1>2, <1>5, <1>7 DEF Meaning!Understood
<1>10. LineJudged => LineJudged'
  BY <1>1, <1>6, <1>8, <1>9 DEF LineJudged, Acceptable, OptionsTaken
<1>11. IInv' /\ ReadInv'
  BY StepInv, StepReads
<1>12. FreshParser => FreshParser'
  BY <1>1 DEF FreshParser
<1> QED
  BY <1>10, <1>11, <1>12

\* Every run of the driver, on whatever lines.
THEOREM DriverInvariant == DriverSpec => []DriverIInv
<1>1. DriverInit => DriverIInv
  BY ParserAssumption, DriverAssumption, DriverSetup
  DEF DriverInit, DriverIInv, IInv, TypeOK, ScanStaysInside, CheckedInv, ReadInv, DriverInv,
      OptionMap, ShortHandMap, Memory, Value, Registered
<1>2. DriverIInv /\ [DriverNext]_driverVars => DriverIInv'
  <2> SUFFICES ASSUME DriverIInv, [DriverNext]_driverVars PROVE DriverIInv'
    OBVIOUS
  <2>1. CASE Run
    BY <2>1, RunStarts
  <2>2. CASE Parse
    BY <2>2, ParseStep
  <2>3. CASE FinishRun
    BY <2>3, LineStays DEF FinishRun, DriverIInv, DriverInv, LineJudged, vars
  <2>4. CASE DriverFinished \/ UNCHANGED driverVars
    BY <2>4, LineStays DEF DriverFinished, driverVars, DriverIInv, DriverInv, vars
  <2> QED
    BY <2>1, <2>2, <2>3, <2>4 DEF DriverNext
<1> QED
  BY <1>1, <1>2, PTL DEF DriverSpec

\* A run returns true exactly for the lines the usage text describes.
THEOREM UsageAccepted == DriverSpec => []UsageIsAccepted
<1>1. DriverIInv => UsageIsAccepted
  BY DEF DriverIInv, DriverInv, LineJudged, Acceptable, UsageIsAccepted
<1> QED
  BY <1>1, DriverInvariant, PTL

\* After a run that returned true, input, output and every flag are what its
\* line says, whatever earlier runs of the same driver were given.
THEOREM LineSetsOptions == DriverSpec => []OptionsFollowTheLine
<1>1. DriverIInv => OptionsFollowTheLine
  BY DEF DriverIInv, DriverInv, LineJudged, Acceptable, OptionsTaken, OptionsFollowTheLine
<1> QED
  BY <1>1, DriverInvariant, PTL

=============================================================================
