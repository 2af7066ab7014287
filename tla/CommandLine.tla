---------------------------- MODULE CommandLine ----------------------------
(***************************************************************************)
(* The data ArgumentParser works on (src/ArgumentParser.h): the tokens of  *)
(* a command line, the options an application registers and their values.  *)
(*                                                                         *)
(* A token is classified by its leading dashes, as ArgumentParser does;    *)
(* everything else about its text is abstracted.                           *)
(***************************************************************************)
EXTENDS Integers, Sequences, FiniteSets

CONSTANTS
  Keys,      \* names of options: "output" of --output
  Letters,   \* their shorthands: 'o' of -o
  Texts,     \* what tokens other than options may say
  Numbers,   \* values of the numeric types
  True,      \* the value of a boolean option that was given
  False,     \* the other boolean: a default
  NoKey,     \* a letter that is nobody's shorthand
  NoOption,  \* a key that was not registered
  NoValue,   \* the empty variant: the option was not given
  NoToken    \* the null pointer after the last argument

\* --key, -c, and the two forms that are never accepted as options ("--", "-"
\* or several letters after one dash) or never taken for one.
Token ==
  [form: {"long"}, key: Keys]
    \cup [form: {"short"}, letter: Letters]
    \cup [form: {"illFormed", "positional"}, text: Texts]

CONSTANT Extracted  \* what "stream >> number" may leave for each token

ASSUME ExtractedAssumption ==
  Extracted \in [Token -> (SUBSET Numbers) \ {{}}]

\* A string option keeps the token itself.
Value == Token \cup Numbers \cup {True, False}

Kinds == {"boolean", "string", "number"}

\* The options, without ("Parameter") and with the value they were given.
Parameter ==
  [letter: Letters, kind: Kinds, required: BOOLEAN, default: Value, bound: BOOLEAN]

Option ==
  [letter: Letters, kind: Kinds, required: BOOLEAN, default: Value, bound: BOOLEAN,
   value: Value \cup {NoValue}]

OptionMap    == [Keys -> Option \cup {NoOption}]
ShortHandMap == [Letters -> Keys \cup {NoKey}]

ASSUME CommandLineAssumption ==
  /\ IsFiniteSet(Keys) /\ IsFiniteSet(Letters)
  /\ NoKey \notin Keys
  /\ NoOption \notin Option
  /\ NoValue \notin Value
  /\ NoToken \notin Token

Registered(opts) == {k \in Keys : opts[k] # NoOption}

\* The key a token names, long or short.
KeyOf(token, shorthandMap) ==
  CASE token.form = "long"  -> token.key
    [] token.form = "short" -> shorthandMap[token.letter]
    [] OTHER -> NoKey

\* What a token can turn into as the value of an option.  A blank token leaves
\* the number that receives it uninitialised: any outcome is possible.
Cast(option, token) ==
  IF option.kind = "string" THEN {token} ELSE Extracted[token]

\* What an option's variable is set to.
Outcome(option) == IF option.value = NoValue THEN option.default ELSE option.value

=============================================================================
