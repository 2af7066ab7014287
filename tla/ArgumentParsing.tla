-------------------------- MODULE ArgumentParsing --------------------------
(***************************************************************************)
(* What a call of ArgumentParser::parseArgs promises, as one step: which   *)
(* lines it accepts and what it makes of them, read off the whole line.    *)
(***************************************************************************)
EXTENDS CommandLine, SequencesExt

CONSTANT Unassigned

VARIABLES
  opts, shorthandMap, positionalArgs, minPositional,  \* the parser
  dst,              \* the variables of the application
  line, pending,    \* the line handed over last; is it still being parsed?
  result            \* what the last call returned

settings == <<shorthandMap, minPositional>>
vars     == <<opts, positionalArgs, settings, dst, line, pending, result>>

Names(token, k) == k \in Registered(opts) /\ KeyOf(token, shorthandMap) = k

TakesValue(token) == \E k \in Keys : Names(token, k) /\ opts[k].kind # "boolean"

Valued == {token \in Token : TakesValue(token)}

\* Position i of the tokens is the value of the option before it.  The program
\* name, at 1, is nobody's option.
OwnedIn(tokens, valued) ==
  LET owned[i \in 0 .. Len(tokens)] ==
        i > 2 /\ ~owned[i - 1] /\ tokens[i - 1] \in valued
  IN  owned

Owned == OwnedIn(line, Valued)

Free  == {i \in 2 .. Len(line) : ~Owned[i]}
Heads == {i \in Free : line[i].form # "positional"}

Mentions(k) == {i \in Heads : Names(line[i], k)}

Complete(i) == TakesValue(line[i]) => i < Len(line)

\* There is a program name, and every option is known and has its value.
Understood ==
  /\ line # <<>>
  /\ \A i \in Heads : Complete(i) /\ \E k \in Keys : Names(line[i], k)

\* The option after the mention at position i.
ReadAt(k, i, option) ==
  \E v \in IF opts[k].kind = "boolean" THEN {True} ELSE Cast(opts[k], line[i + 1]) :
    option = [opts[k] EXCEPT !.value = v]

\* The tokens at some places, up to position i.
PlacedIn(tokens, places) ==
  LET upTo[i \in 0 .. Len(tokens)] ==
        IF i = 0 THEN <<>>
        ELSE IF i \in places THEN Append(upTo[i - 1], tokens[i]) ELSE upTo[i - 1]
  IN  upTo

Placed      == PlacedIn(line, Free \ Heads)
Positionals == Placed[Len(line)]

\* The last mention of an option counts; one that is not mentioned keeps what
\* an earlier call gave it, and positional arguments add up over calls.
TakenIn ==
  /\ DOMAIN opts' = Keys
  /\ \A k \in Keys : IF Mentions(k) = {} THEN opts'[k] = opts[k]
                     ELSE ReadAt(k, Max(Mentions(k)), opts'[k])
  /\ positionalArgs' = positionalArgs \o Positionals

\* A line that is not understood may have been taken in up to some point.
TakenInPart ==
  /\ DOMAIN opts' = Keys
  /\ \A k \in Keys : \/ opts'[k] = opts[k]
                     \/ \E i \in Mentions(k) : Complete(i) /\ ReadAt(k, i, opts'[k])
  /\ IsPrefix(positionalArgs, positionalArgs')
  /\ IsPrefix(positionalArgs', positionalArgs \o Positionals)

\* Each registered option is the one its letter stands for, and no letter
\* stands for anything else.
LettersAgree(options) ==
  \A l \in Letters, k \in Keys :
    shorthandMap[l] = k <=> k \in Registered(options) /\ options[k].letter = l

Satisfied(options, positionals) ==
  /\ LettersAgree(options)
  /\ Len(positionals) >= minPositional
  /\ \A k \in Registered(options) :
       options[k].required => options[k].value # NoValue

-----------------------------------------------------------------------------
Init ==
  /\ opts = [k \in Keys |-> NoOption]
  /\ shorthandMap = [l \in Letters |-> NoKey]
  /\ positionalArgs = <<>>
  /\ minPositional = 0
  /\ dst = [k \in Keys |-> Unassigned]
  /\ line = <<>> /\ pending = FALSE
  /\ result = "none"

AddParameter ==
  /\ ~pending
  /\ \E k \in Keys : /\ opts' = [opts EXCEPT ![k] = opts'[k]]
                     /\ opts'[k] \in Option /\ opts'[k].value = NoValue
                     /\ shorthandMap' = [shorthandMap EXCEPT ![opts'[k].letter] = k]
  /\ UNCHANGED <<positionalArgs, minPositional, dst, line, pending, result>>

SetMinimum ==
  /\ ~pending
  /\ minPositional' \in Nat
  /\ UNCHANGED <<opts, positionalArgs, shorthandMap, dst, line, pending, result>>

Call ==
  /\ ~pending
  /\ line' \in Seq(Token) /\ pending' = TRUE
  /\ UNCHANGED <<opts, positionalArgs, settings, dst, result>>

\* Every variable has the value of its option, or the option's default.
Accept ==
  /\ pending /\ Understood
  /\ TakenIn
  /\ Satisfied(opts', positionalArgs')
  /\ dst' = [k \in Keys |-> IF k \in Registered(opts) /\ opts[k].bound
                            THEN Outcome(opts'[k]) ELSE dst[k]]
  /\ pending' = FALSE /\ result' = "true"
  /\ UNCHANGED <<settings, line>>

\* No variable is touched.
Refuse ==
  /\ pending
  /\ IF Understood THEN TakenIn /\ ~Satisfied(opts', positionalArgs')
                   ELSE TakenInPart
  /\ pending' = FALSE /\ result' = "false"
  /\ UNCHANGED <<settings, dst, line>>

Next == AddParameter \/ SetMinimum \/ Call \/ Accept \/ Refuse

Spec == Init /\ [][Next]_vars

=============================================================================
