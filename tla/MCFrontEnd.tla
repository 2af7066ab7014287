----------------------------- MODULE MCFrontEnd -----------------------------
(***************************************************************************)
(* A program that has every construct of the grammar, spread out over      *)
(* lines and written as tightly as it can be; and what becomes of it when  *)
(* a word or a character of it is lost, repeated, replaced or added.       *)
(* LongMax is 99, and ~ stands for the NUL character.                      *)
(***************************************************************************)
EXTENDS FrontEnd

Words == <<
  "group", "g", "{", "n", ":", "c", ";",
  "inference", "i", "{", "globals", ":", "[", "A", ",", "B", "]",
  "arguments", ":", "[", "a", ":", "X", ",", "b", ":", "Y", "]",
  "premises", ":", "[",
  "a", ".", "b", ":", "T", ";",
  "u", ":", "t", "[", "1", "]", "while", "{", "v", "<=", "f", "(", ")", ";", "}", ";",
  "p", "!=", "f", "(", "x", ",", "y", "[", "]", ")", "inrange", "0", "..", "20", "..", "z", ";",
  "]", "proposition", ":", "q", ";", "}", "}" >>

SmallWords == <<
  "group", "g", "{", "inference", "i", "{", "arguments", ":", "[", "]",
  "premises", ":", "[", "s", "[", "12", "]", "<", "f", "(", ")", ";", "]",
  "proposition", ":", "w", ";", "}", "}" >>

\* A premise that declares the type of a name, which is one word.
TypingWords == <<
  "group", "g", "{", "inference", "i", "{", "arguments", ":", "[", "]",
  "premises", ":", "[", "u", ":", "t", ";", "]", "proposition", ":", "q", ";", "}", "}" >>

Join(words, Gap(_)) ==
  IF words = <<>> THEN "" ELSE FlattenSeq([i \in DOMAIN words |-> words[i] \o Gap(i)])

\* A blank after every word, and a line after those that end something.
Spread(words) ==
  Join(words, LAMBDA i : IF words[i] \in {";", "{"} THEN "\n\n" ELSE "\t ")

\* A blank only between two words made of letters or digits.
Tight(words) ==
  LET IsName(w) == CharAt(w, 1) \in Letter \cup Digit
  IN  Join(words, LAMBDA i : IF /\ i < Len(words)
                                /\ IsName(words[i]) /\ IsName(words[i + 1]) THEN " " ELSE "")

Without(words, i) == SubSeq(words, 1, i - 1) \o SubSeq(words, i + 1, Len(words))
Twice(words, i)   == SubSeq(words, 1, i) \o SubSeq(words, i, Len(words))

WordEdits(words) ==
  UNION {{Without(words, i), Twice(words, i), [words EXCEPT ![i] = "101"]} : i \in DOMAIN words}

CharEdits(text) ==
  {SubSeq(text, 1, i) \o c \o SubSeq(text, i + 1, Len(text)) :
     i \in 0 .. Len(text), c \in {".", "''", "#colon", "\n", "7", "~"}}

OneText ==
  {Spread(Without(Words, i)) : i \in DOMAIN Words}
    \cup {Spread(w) : w \in WordEdits(SmallWords)} \cup CharEdits(Tight(SmallWords))

Overflowing == [SmallWords EXCEPT ![16] = "100"]

FirstTexts  == {"", "x\n", Tight(Words), Tight(Overflowing), Spread(Overflowing)}
SecondTexts == {Unreadable, "", "x", Spread(SmallWords), Spread(SmallWords \o SmallWords)}

Call(file, suppress_) == [file |-> file, suppress |-> suppress_]

MCSessions ==
  {<<Call(t, FALSE)>> : t \in OneText \cup {Spread(Words), Spread(TypingWords), Unreadable}}
    \cup {<<Call(t, FALSE), Call(u, s)>> : t \in FirstTexts, u \in SecondTexts, s \in BOOLEAN}

MCVisitors == {{}, {<<"previsit", "equality">>}, {<<"postvisit", "target">>}}

KindsOf(words) == [i \in DOMAIN words |-> Rules[Min(RulesMatching(words[i]))].token]

MCSentences ==
  {Append(KindsOf(w), "END") : w \in {<<>>, Words, TypingWords, SmallWords, SmallWords \o SmallWords}}

=============================================================================
