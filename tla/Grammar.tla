------------------------------ MODULE Grammar ------------------------------
(***************************************************************************)
(* The grammar of src/parser/parser.yy, the automaton bison makes of it,   *)
(* and the semantic actions.  A state of the automaton is the set of its   *)
(* kernel items <<production, how much of it has been seen>>.              *)
(***************************************************************************)
EXTENDS Naturals, Sequences, FiniteSets

GroupProductions == <<
  <<"$accept", <<"input", "END">> >>,
  <<"input", <<"inference_group_list">> >>,
  <<"inference_group_list", <<>> >>,
  <<"inference_group_list", <<"inference_group_list", "inference_group">> >>,
  <<"inference_group", <<"KEYWORD_GROUP", "IDENTIFIER", "LBRACE", "environment_defn_list",
                         "inference_defn_list", "RBRACE">> >>,
  <<"environment_defn_list", <<>> >>,
  <<"environment_defn_list", <<"environment_defn_list", "environment_defn">> >>,
  <<"environment_defn", <<"IDENTIFIER", "COLON", "IDENTIFIER", "SEMICOLON">> >>,
  <<"inference_defn_list", <<>> >>,
  <<"inference_defn_list", <<"inference_defn_list", "inference_defn">> >> >>

RuleProductions == <<
  <<"inference_defn", <<"KEYWORD_INFERENCE", "IDENTIFIER", "LBRACE", "global_decl_set",
                        "argument_set", "premise_set", "proposition_defn", "RBRACE">> >>,
  <<"global_decl_set", <<>> >>,
  <<"global_decl_set", <<"KEYWORD_GLOBALS", "COLON", "LBRACKET", "global_decl_list", "RBRACKET">> >>,
  <<"global_decl_list", <<"global_decl">> >>,
  <<"global_decl_list", <<"global_decl_list", "COMMA", "global_decl">> >>,
  <<"global_decl", <<"IDENTIFIER">> >>,
  <<"argument_set", <<"KEYWORD_ARGUMENTS", "COLON", "LBRACKET", "RBRACKET">> >>,
  <<"argument_set", <<"KEYWORD_ARGUMENTS", "COLON", "LBRACKET", "argument_list", "RBRACKET">> >>,
  <<"argument_list", <<"inference_argument">> >>,
  <<"argument_list", <<"argument_list", "COMMA", "inference_argument">> >>,
  <<"inference_argument", <<"IDENTIFIER", "COLON", "IDENTIFIER">> >> >>

PremiseProductions == <<
  <<"premise_set", <<"KEYWORD_PREMISES", "COLON", "LBRACKET", "premise_defn_list", "RBRACKET">> >>,
  <<"premise_defn_list", <<>> >>,
  <<"premise_defn_list", <<"premise_defn_list", "premise_defn">> >>,
  <<"premise_defn", <<"premise_type_inference_defn">> >>,
  <<"premise_defn", <<"premise_type_equality_defn">> >>,
  <<"premise_type_inference_defn", <<"identifiable", "COLON", "deduction_target", "SEMICOLON">> >>,
  <<"premise_type_inference_defn", <<"identifiable", "COLON", "deduction_target", "while_clause",
                                     "SEMICOLON">> >>,
  <<"while_clause", <<"KEYWORD_WHILE", "LBRACE", "premise_defn_list", "RBRACE">> >>,
  <<"premise_type_equality_defn", <<"deduction_target", "equality_operator", "deduction_target",
                                    "SEMICOLON">> >>,
  <<"premise_type_equality_defn", <<"deduction_target", "equality_operator", "deduction_target",
                                    "range_clause", "SEMICOLON">> >>,
  <<"range_clause", <<"KEYWORD_INRANGE", "INTEGER_LITERAL", "ELLIPSIS", "INTEGER_LITERAL",
                      "ELLIPSIS", "deduction_target">> >>,
  <<"proposition_defn", <<"KEYWORD_PROPOSITION", "COLON", "deduction_target", "SEMICOLON">> >> >>

TargetProductions == <<
  <<"identifiable", <<"identifier">> >>,
  <<"identifiable", <<"identifiable", "DOT", "identifier">> >>,
  <<"identifier", <<"IDENTIFIER">> >>,
  <<"deduction_target_list", <<"deduction_target">> >>,
  <<"deduction_target_list", <<"deduction_target_list", "COMMA", "deduction_target">> >>,
  <<"deduction_target", <<"deduction_target_singular">> >>,
  <<"deduction_target", <<"deduction_target_array">> >>,
  <<"deduction_target", <<"deduction_target_computed">> >>,
  <<"deduction_target_singular", <<"IDENTIFIER">> >>,
  <<"deduction_target_array", <<"IDENTIFIER", "LBRACKET", "RBRACKET">> >>,
  <<"deduction_target_array", <<"IDENTIFIER", "LBRACKET", "INTEGER_LITERAL", "RBRACKET">> >>,
  <<"deduction_target_computed", <<"IDENTIFIER", "LPAREN", "RPAREN">> >>,
  <<"deduction_target_computed", <<"IDENTIFIER", "LPAREN", "deduction_target_list", "RPAREN">> >>,
  <<"equality_operator", <<"OPERATOR_EQ">> >>,
  <<"equality_operator", <<"OPERATOR_NEQ">> >>,
  <<"equality_operator", <<"OPERATOR_LT">> >>,
  <<"equality_operator", <<"OPERATOR_LTE">> >> >>

Productions ==
  GroupProductions \o RuleProductions \o PremiseProductions \o TargetProductions

Lhs(p) == Productions[p][1]
Rhs(p) == Productions[p][2]

Nonterminal == {Lhs(p) : p \in DOMAIN Productions}
Symbol      == Nonterminal \cup UNION {{Rhs(p)[i] : i \in DOMAIN Rhs(p)} : p \in DOMAIN Productions}
Terminal    == Symbol \ Nonterminal

-----------------------------------------------------------------------------
(* The automaton (the tables at the end of parser.tab.cc).                 *)

\* <<A, B>>: an A may start with a B.
LeftCorner ==
  LET starting(A) == {p \in DOMAIN Productions :
                        Lhs(p) = A /\ Rhs(p) # <<>> /\ Rhs(p)[1] \in Nonterminal}
      longer(chains) ==
        UNION {{c} \cup {<<c[1], Rhs(p)[1]>> : p \in starting(c[2])} : c \in chains}
      within[n \in 0 .. Cardinality(Nonterminal)] ==
        IF n = 0 THEN {<<A, A>> : A \in Nonterminal} ELSE longer(within[n - 1])
  IN  within[Cardinality(Nonterminal)]

InitialState == {<<1, 0>>}

Wanted(items) == {Rhs(it[1])[it[2] + 1] : it \in {i \in items : i[2] < Len(Rhs(i[1]))}}

\* The productions with which an A may start.
Starting == [A \in Nonterminal |-> {p \in DOMAIN Productions : <<A, Lhs(p)>> \in LeftCorner}]

Closure(state) ==
  state \cup UNION {Starting[A] \X {0} : A \in Wanted(state) \cap Nonterminal}

Goto(state, symbol) ==
  {<<it[1], it[2] + 1>> : it \in {i \in Closure(state) : /\ i[2] < Len(Rhs(i[1]))
                                                         /\ Rhs(i[1])[i[2] + 1] = symbol}}

Expected(state)  == Wanted(Closure(state)) \cap Terminal
Complete(state)  == {it[1] : it \in {i \in Closure(state) : i[2] = Len(Rhs(i[1]))}}
IsFinal(state)   == 1 \in Complete(state)

\* yypact_ninf_: what to do does not depend on the next token.
IsConsistent(state) == Expected(state) = {} /\ Cardinality(Complete(state)) = 1

\* The production to reduce by if the next token cannot be shifted.  The tables
\* name one for each state, whatever the token, and one more: an IDENTIFIER at the
\* start of a premise is a target by default, and an identifier if a DOT or a COLON
\* follows.
NoProduction == 0

\* Fault: the lookahead of the explicit reduction misses the colon.
yydefact_DotOnly(state, lookahead) ==
  LET complete == Complete(state)
      explicit == {p \in complete : Lhs(p) = "identifier"}
  IN  IF complete = {} THEN NoProduction
      ELSE IF explicit = complete \/ (explicit # {} /\ lookahead = "DOT")
           THEN CHOOSE p \in explicit : TRUE
           ELSE CHOOSE p \in complete \ explicit : TRUE

yydefact(state, lookahead) ==
  LET complete == Complete(state)
      explicit == {p \in complete : Lhs(p) = "identifier"}
  IN  IF complete = {} THEN NoProduction
      ELSE IF explicit = complete \/ (explicit # {} /\ lookahead \in {"DOT", "COLON"})
           THEN CHOOSE p \in explicit : TRUE
           ELSE CHOOSE p \in complete \ explicit : TRUE

-----------------------------------------------------------------------------
(* The semantic actions: $$ from the values of the right-hand side.  An    *)
(* optional part is a sequence of at most one element.                     *)

Lists == {"inference_group_list", "environment_defn_list", "inference_defn_list",
          "premise_defn_list", "global_decl_list", "argument_list", "identifiable",
          "deduction_target_list"}

ListValue(v) ==
  CASE Len(v) = 0 -> <<>>
    [] Len(v) = 1 -> <<v[1]>>
    [] Len(v) = 2 -> Append(v[1], v[2])
    [] Len(v) = 3 -> Append(v[1], v[3])

ModuleOf(groups) == [kind |-> "module", groups |-> groups]

GroupValue(lhs, v) ==
  CASE lhs = "input" -> ModuleOf(<<>>)
    [] lhs = "inference_group" ->
         [kind |-> "group", name |-> v[2], env |-> v[4], defns |-> v[5]]
    [] lhs = "environment_defn" -> [kind |-> "env", field |-> v[1], value |-> v[3]]

RuleValue(lhs, v) ==
  CASE lhs = "inference_defn" ->
         [kind |-> "defn", name |-> v[2], globals |-> v[4], arguments |-> v[5],
          premises |-> v[6], proposition |-> v[7]]
    [] lhs = "global_decl_set" -> IF v = <<>> THEN <<>> ELSE v[4]
    [] lhs = "global_decl" -> [kind |-> "global", name |-> v[1]]
    [] lhs = "argument_set" -> IF Len(v) = 4 THEN <<>> ELSE v[4]
    [] lhs = "inference_argument" -> [kind |-> "argument", name |-> v[1], type |-> v[3]]

\* Fault: the two sides of an equality end up exchanged.
Equality_SidesSwapped(v) ==
  [kind |-> "equality", lhs |-> v[3], op |-> v[2], rhs |-> v[1],
   range |-> IF Len(v) = 5 THEN <<v[4]>> ELSE <<>>]

Equality(v) ==
  [kind |-> "equality", lhs |-> v[1], op |-> v[2], rhs |-> v[3],
   range |-> IF Len(v) = 5 THEN <<v[4]>> ELSE <<>>]

PremiseValue(lhs, v) ==
  CASE lhs = "premise_set" -> v[4]
    [] lhs = "premise_defn" -> [kind |-> "premise", alternative |-> v[1]]
    [] lhs = "premise_type_inference_defn" ->
         [kind |-> "inference", source |-> v[1], target |-> v[3],
          while |-> IF Len(v) = 5 THEN <<v[4]>> ELSE <<>>]
    [] lhs = "while_clause" -> v[3]
    [] lhs = "premise_type_equality_defn" -> Equality(v)
    [] lhs = "range_clause" -> [kind |-> "range", from |-> v[2], to |-> v[4], target |-> v[6]]
    [] lhs = "proposition_defn" -> [kind |-> "proposition", target |-> v[3]]

TargetValue(lhs, rhs, v) ==
  CASE lhs = "identifier" -> v[1]
    [] lhs = "equality_operator" -> rhs[1]
    [] lhs = "deduction_target" -> [kind |-> "target", alternative |-> v[1]]
    [] lhs = "deduction_target_singular" -> [kind |-> "singular", name |-> v[1]]
    [] lhs = "deduction_target_array" ->
         [kind |-> "array", name |-> v[1], size |-> IF Len(v) = 4 THEN <<v[3]>> ELSE <<>>]
    [] lhs = "deduction_target_computed" ->
         [kind |-> "computed", name |-> v[1], arguments |-> IF Len(v) = 4 THEN v[3] ELSE <<>>]

IsIn(lhs, productions) == \E i \in DOMAIN productions : productions[i][1] = lhs

Built(p, v) ==
  LET lhs == Lhs(p)
  IN  IF lhs \in Lists THEN ListValue(v)
      ELSE CASE IsIn(lhs, GroupProductions)   -> GroupValue(lhs, v)
             [] IsIn(lhs, RuleProductions)    -> RuleValue(lhs, v)
             [] IsIn(lhs, PremiseProductions) -> PremiseValue(lhs, v)
             [] IsIn(lhs, TargetProductions)  -> TargetValue(lhs, Rhs(p), v)

=============================================================================
