------------------------------ MODULE Scanner ------------------------------
(***************************************************************************)
(* yylex, the scanner flex generates from src/parser/lexer.ll              *)
(* (src/parser/precompiled/lex.yy.cc), on a buffer made by yy_scan_string. *)
(* One step takes one lexeme.  The location and errno belong to the        *)
(* process: no parse resets them.                                          *)
(***************************************************************************)
EXTENDS LexicalRules

CONSTANTS
  NUL,        \* the character that ends a C string
  NoBuffer    \* no current buffer

VARIABLES
  buffer,     \* yy_ch_buf, without the two end-of-buffer characters
  yy_c_buf_p, \* where the next lexeme starts
  loc,        \* the location of the current token
  errno,      \* whether errno is ERANGE
  lexing,     \* a call of yylex is running
  yyla        \* the symbol it returned, Empty once the caller has used it

scannerVars == <<buffer, yy_c_buf_p, loc, errno, lexing, yyla>>

\* A symbol that is none, as clear() leaves it.
Empty == [kind |-> ""]

-----------------------------------------------------------------------------
(* src/parser/precompiled/position.hh and location.hh                      *)

columns(pos, count) == [pos EXCEPT !.column = @ + count]

\* Fault: the column goes on counting on the next line.
lines_KeepsColumn(pos, count) == [pos EXCEPT !.line = @ + count]

lines(pos, count) == [line |-> pos.line + count, column |-> 1]

step(l) == [l EXCEPT !.begin = l.end]

-----------------------------------------------------------------------------
ScannerInit ==
  /\ buffer = NoBuffer /\ yy_c_buf_p = 1
  /\ loc = [begin |-> [line |-> 1, column |-> 1], end |-> [line |-> 1, column |-> 1]]
  /\ errno = FALSE
  /\ lexing = FALSE /\ yyla = Empty

\* The characters before the first NUL.
CString(s) ==
  LET nuls == {i \in 1 .. Len(s) : CharAt(s, i) = NUL}
  IN  IF nuls = {} THEN s ELSE SubSeq(s, 1, Min(nuls) - 1)

yy_switch_to_buffer(b) == buffer' = b /\ yy_c_buf_p' = 1

yy_scan_string(s) == yy_switch_to_buffer(CString(s))

\* yy_delete_buffer and yylex_destroy.
yylex_destroy == buffer' = NoBuffer /\ yy_c_buf_p' = 1

\* The automaton runs from bp until it jams or meets the end of the buffer, and
\* goes back to where it last could have stopped.
Lexeme == [rule : Nat, end : Nat]
EOF    == [rule |-> 0, end |-> 0]

yy_match(bp) ==
  LET run[cp \in bp .. Len(buffer) + 1, lastAccepting \in Lexeme] ==
        LET read == SubSeq(buffer, bp, cp)
        IN  IF cp > Len(buffer) \/ ~Viable(read) THEN lastAccepting
            ELSE run[cp + 1, IF yy_accept(read) = 0 THEN lastAccepting
                             ELSE [rule |-> yy_accept(read), end |-> cp + 1]]
  IN  run[bp, EOF]

NextLexeme == yy_match(yy_c_buf_p)

yytext(lexeme) == SubSeq(buffer, yy_c_buf_p, lexeme.end - 1)

Form(lexeme)  == Rules[lexeme.rule].form
TokenOf(lexeme) == Rules[lexeme.rule].token

\* YY_USER_ACTION
Moved(lexeme) == [loc EXCEPT !.end = columns(@, lexeme.end - yy_c_buf_p)]

CallLexer ==
  /\ ~lexing /\ lexing' = TRUE
  /\ loc' = step(loc)
  /\ UNCHANGED <<buffer, yy_c_buf_p, errno, yyla>>

\* Fault: the text that gives no token is not left behind.
SkipLexeme_Stays(lexeme) ==
  /\ lexeme # EOF /\ TokenOf(lexeme) = ""
  /\ UNCHANGED scannerVars

SkipLexeme(lexeme) ==
  /\ lexeme # EOF /\ TokenOf(lexeme) = ""
  /\ yy_c_buf_p' = lexeme.end
  /\ loc' = CASE Form(lexeme) = "blanks"   -> step(Moved(lexeme))
              [] Form(lexeme) = "newlines" ->
                   step([Moved(lexeme) EXCEPT !.end = lines(@, Len(yytext(lexeme)))])
              [] OTHER -> Moved(lexeme)
  /\ UNCHANGED <<buffer, errno, lexing, yyla>>

\* Fault: the value of a literal out of range stays what strtol makes of it.
LiteralValue_Saturated(w, erange) ==
  IF NumberOf(w) > LongMax THEN LongMax ELSE NumberOf(w)

\* strtol leaves errno alone unless it sets it.
LiteralValue(w, erange) == IF erange THEN 0 ELSE NumberOf(w)

\* The symbol of a token.
make(kind, value, at) == [kind |-> kind, value |-> value, loc |-> at]

ReturnToken(lexeme) ==
  /\ lexeme # EOF /\ TokenOf(lexeme) # ""
  /\ lexing' = FALSE
  /\ yy_c_buf_p' = lexeme.end
  /\ loc' = Moved(lexeme)
  /\ LET kind     == TokenOf(lexeme)
         w        == yytext(lexeme)
         literal  == kind = "INTEGER_LITERAL"
     IN  /\ errno' = (errno \/ (literal /\ NumberOf(w) > LongMax))
         /\ yyla' = make(kind, IF literal THEN LiteralValue(w, errno') ELSE w, loc')
  /\ UNCHANGED buffer

ReturnEnd(lexeme) ==
  /\ lexeme = EOF
  /\ lexing' = FALSE
  /\ yyla' = make("END", "", loc)
  /\ UNCHANGED <<buffer, yy_c_buf_p, loc, errno>>

Scan ==
  /\ lexing
  /\ \E lexeme \in {NextLexeme} :
       SkipLexeme(lexeme) \/ ReturnToken(lexeme) \/ ReturnEnd(lexeme)

=============================================================================
