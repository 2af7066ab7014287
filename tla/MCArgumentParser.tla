-------------------------- MODULE MCArgumentParser --------------------------
(***************************************************************************)
(* Two keys and two letters, registered in any of the ways that make them  *)
(* collide; a line of up to three tokens after the program name, and then  *)
(* a shorter one on the same parser.                                       *)
(***************************************************************************)
EXTENDS ArgumentParser

CONSTANTS a, b, x, y, text, zero, one

MCKeys == {a, b}
MCLetters == {x, y}
MCTexts == {text}
MCNumbers == {zero, one}

Long(k)  == [form |-> "long", key |-> k]
Short(l) == [form |-> "short", letter |-> l]
Word     == [form |-> "positional", text |-> text]
Dash     == [form |-> "illFormed", text |-> text]

\* The text of Word is blank, so a number read from it can be anything; every
\* other token reads as zero.
MCExtracted == [t \in Token |-> IF t = Word THEN MCNumbers ELSE {zero}]

Registration(k, l, kind, required, default) ==
  [key |-> k, option |-> [letter |-> l, kind |-> kind, required |-> required,
                          default |-> default, bound |-> TRUE]]

MCRegistrations ==
  { Registration(a, x, "string", TRUE, Word),
    Registration(a, y, "boolean", FALSE, False),
    Registration(b, y, "number", FALSE, one),
    Registration(b, x, "boolean", TRUE, False) }

MCMinimums == {1}

Tokens == {Long(a), Long(b), Short(x), Short(y), Word, Dash}

Line(n) == {<<>>} \cup {<<Word>> \o rest : rest \in UNION {[1 .. m -> Tokens] : m \in 0 .. n}}

MCCommandLines == <<Line(3), Line(1)>>

=============================================================================
