---------------------------- MODULE MCCmdlDriver ----------------------------
(***************************************************************************)
(* The compiler's own options.  The first run gets any line of up to four  *)
(* tokens after the program name; a second run of the same driver gets one *)
(* that is fine, with and without flags, or one that is not.               *)
(***************************************************************************)
EXTENDS CmdlDriver

CONSTANTS in1, in2, empty, zero

MCKeys    == {DriverParameters[i].key : i \in DOMAIN DriverParameters}
MCLetters == {"o", "e", "b", "d", "v", "s", "n"}
MCTexts   == {in1, in2, empty}
MCNumbers == {zero}
MCExtracted == [t \in Token |-> {zero}]

Long(k)  == [form |-> "long", key |-> k]
Short(l) == [form |-> "short", letter |-> l]
Word(w)  == [form |-> "positional", text |-> w]

MCEmptyPath == Word(empty)

Tokens == {Long("output"), Short("o"), Long("errors"), Short("s"), Short("n"),
           Word(in1), Word(in2), [form |-> "illFormed", text |-> in1]}

FirstLines ==
  {<<>>} \cup {<<Word(in1)>> \o rest : rest \in UNION {[1 .. m -> Tokens] : m \in 0 .. 4}}

SecondLines ==
  { <<Word(in1), Short("o"), Word(in2), Word(in1)>>,
    <<Word(in1), Short("e"), Word(in2), Long("output"), Word(in1)>>,
    <<Word(in1), Long("output"), Word(in1)>> }

MCCommandLines == <<FirstLines, SecondLines>>

=============================================================================
