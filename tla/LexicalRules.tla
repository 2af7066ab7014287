---------------------------- MODULE LexicalRules ----------------------------
(***************************************************************************)
(* The patterns of src/parser/lexer.ll and what they match.  A text is a   *)
(* string, and a state of the automaton flex makes of the patterns is the  *)
(* text it has read since the start of a lexeme.                           *)
(***************************************************************************)
EXTENDS Naturals, Sequences, FiniteSetsExt

CONSTANTS
  LongMax,        \* the largest value of a long int
  LongestLexeme   \* a bound for the definition at the end: no lexeme is longer

CharAt(s, i) == SubSeq(s, i, i)
CharsOf(s)   == {CharAt(s, i) : i \in 1 .. Len(s)}

Letter == CharsOf("_abcdefghijklmnopqrstuvwxyzABCDEFGHIJKLMNOPQRSTUVWXYZ")
Digit  == CharsOf("0123456789")
Blank  == {" ", "\t"}

\* A rule that gives no token discards what it matches.  The lines of the rules
\* section that start with a # were meant as comments, and are patterns.
Literal(text, token) == [form |-> "literal", text |-> text, token |-> token]
Comment(text)        == Literal(text, "")
Pattern(form, token) == [form |-> form, text |-> "", token |-> token]

Rules == <<
  Comment("#keywords"),
  Literal("group", "KEYWORD_GROUP"),         Literal("inference", "KEYWORD_INFERENCE"),
  Literal("environment", "KEYWORD_ENVIRONMENT"),
  Literal("arguments", "KEYWORD_ARGUMENTS"), Literal("globals", "KEYWORD_GLOBALS"),
  Literal("while", "KEYWORD_WHILE"),         Literal("inrange", "KEYWORD_INRANGE"),
  Literal("premises", "KEYWORD_PREMISES"),   Literal("proposition", "KEYWORD_PROPOSITION"),
  Comment("#identifiers"),     Pattern("identifier", "IDENTIFIER"),
  Comment("#integer"),         Pattern("integer", "INTEGER_LITERAL"),
  Comment("#colon"),           Literal(":", "COLON"),
  Comment("#semicolon"),       Literal(";", "SEMICOLON"),
  Comment("#equal"),           Literal("=", "OPERATOR_EQ"),
  Comment("#not_equal"),       Literal("!=", "OPERATOR_NEQ"),
  Comment("#less_than"),       Literal("<", "OPERATOR_LT"),
  Comment("#no_more_than"),    Literal("<=", "OPERATOR_LTE"),
  Comment("#dot"),             Literal(".", "DOT"),
  Comment("#comma"),           Literal(",", "COMMA"),
  Comment("#sqaure_brackets"), Literal("[", "LBRACKET"), Literal("]", "RBRACKET"),
  Comment("#curly_braces"),    Literal("{", "LBRACE"),   Literal("}", "RBRACE"),
  Comment("#parentheses"),     Literal("(", "LPAREN"),   Literal(")", "RPAREN"),
  Comment("#ellipsis"),        Literal("..", "ELLIPSIS"),
  Pattern("blanks", ""), Pattern("newlines", ""), Pattern("any", "") >>

Consists(w, first, rest) ==
  /\ w # "" /\ CharAt(w, 1) \in first
  /\ \A i \in 2 .. Len(w) : CharAt(w, i) \in rest

StartsWith(s, w) == Len(w) <= Len(s) /\ SubSeq(s, 1, Len(w)) = w

\* The pattern '+' is two quotes or more, because the + is not quoted; and the
\* digits are optional.
IsSign(w)    == w = "'-'" \/ (Len(w) >= 2 /\ Consists(w, {"'"}, {"'"}))
Digits(w)    == w = "" \/ Consists(w, Digit, Digit)
IsInteger(w) ==
  \E n \in 0 .. Len(w) : /\ n = 0 \/ IsSign(SubSeq(w, 1, n))
                        /\ Digits(SubSeq(w, n + 1, Len(w)))

Matches(rule, w) ==
  CASE rule.form = "identifier" -> Consists(w, Letter, Letter \cup Digit)
    [] rule.form = "integer"    -> IsInteger(w)
    [] rule.form = "blanks"     -> Consists(w, Blank, Blank)
    [] rule.form = "newlines"   -> Consists(w, {"\n"}, {"\n"})
    [] rule.form = "any"        -> Len(w) = 1 /\ w # "\n"

\* No two literals are the same text.
LiteralRule ==
  [w \in {Rules[r].text : r \in DOMAIN Rules} \ {""} |->
     CHOOSE r \in DOMAIN Rules : Rules[r].text = w]
PatternRules == {r \in DOMAIN Rules : Rules[r].form # "literal"}

RulesMatching(w) ==
  (IF w \in DOMAIN LiteralRule THEN {LiteralRule[w]} ELSE {})
    \cup {r \in PatternRules : Matches(Rules[r], w)}

\* Fault: of the rules that match, the last one wins.
yy_accept_Last(w) == LET r == RulesMatching(w) IN IF r = {} THEN 0 ELSE Max(r)

\* The first rule that matches w, 0 if there is none.
yy_accept(w) == LET r == RulesMatching(w) IN IF r = {} THEN 0 ELSE Min(r)

\* The automaton has not jammed: w is the start of something a rule matches.
Viable(w) ==
  \/ yy_accept(w) # 0
  \/ \E text \in DOMAIN LiteralRule : StartsWith(text, w)
  \/ w \in {"'", "'-"}

\* strtol: digits up to the first other character.
NumberOf(w) ==
  LET upTo[n \in 0 .. Len(w)] ==
        IF n = 0 THEN 0 ELSE 10 * upTo[n - 1] + (CHOOSE d \in 0 .. 9 :
                               CharAt("0123456789", d + 1) = CharAt(w, n))
  IN  IF Digits(w) THEN upTo[Len(w)] ELSE 0

-----------------------------------------------------------------------------
(* What the documentation of flex promises of any list of rules: of all the *)
(* texts at a place that match some rule the longest is taken, and of the   *)
(* rules that match it the first.  Text no rule gives a token for is lost.  *)

LexemesOf(text) ==
  LET from[p \in 1 .. Len(text) + 1] ==
        IF p > Len(text) THEN <<>>
        ELSE LET n == Max({k \in 1 .. Min({LongestLexeme, Len(text) - p + 1}) :
                             RulesMatching(SubSeq(text, p, p + k - 1)) # {}})
                 w == SubSeq(text, p, p + n - 1)
                 r == CHOOSE r \in RulesMatching(w) : \A q \in RulesMatching(w) : r <= q
             IN  <<[token |-> Rules[r].token, text |-> w, from |-> p]>> \o from[p + n]
  IN  from[1]

TokensOf(text) == SelectSeq(LexemesOf(text), LAMBDA lexeme : lexeme.token # "")

=============================================================================
