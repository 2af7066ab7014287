------------------------------ MODULE Spelling ------------------------------
(***************************************************************************)
(* The tokens a syntax tree is written with, by the concrete syntax of     *)
(* Snowlake (docs and tests).  A text is a sequence of tokens and of nodes *)
(* that stand for their own texts.  A token keeps the value of identifiers *)
(* and literals only.                                                      *)
(***************************************************************************)
EXTENDS Naturals, Sequences, SequencesExt

Token(kind, value) ==
  [kind |-> kind, value |-> IF kind \in {"IDENTIFIER", "INTEGER_LITERAL"} THEN value ELSE ""]

Sign(kind) == <<Token(kind, "")>>
Id(name)   == <<Token("IDENTIFIER", name)>>
Num(n)     == <<Token("INTEGER_LITERAL", n)>>

Separated(texts, separator) ==
  FlattenSeq([i \in DOMAIN texts |-> IF i = 1 THEN texts[i] ELSE Sign(separator) \o texts[i]])

Dotted(names) == Separated([i \in DOMAIN names |-> Id(names[i])], "DOT")
Commas(nodes) == Separated([i \in DOMAIN nodes |-> <<nodes[i]>>], "COMMA")

GlobalsText(nodes) ==
  IF nodes = <<>> THEN <<>>
  ELSE Sign("KEYWORD_GLOBALS") \o Sign("COLON") \o Sign("LBRACKET") \o Commas(nodes)
       \o Sign("RBRACKET")
ArgumentsText(nodes) ==
  Sign("KEYWORD_ARGUMENTS") \o Sign("COLON") \o Sign("LBRACKET") \o Commas(nodes)
  \o Sign("RBRACKET")
PremisesText(nodes) ==
  Sign("KEYWORD_PREMISES") \o Sign("COLON") \o Sign("LBRACKET") \o nodes \o Sign("RBRACKET")
WhileText(nodes) == Sign("KEYWORD_WHILE") \o Sign("LBRACE") \o nodes \o Sign("RBRACE")

\* The text of a node, with the nodes just below it; a token is its own text.
Unfold(n) ==
  CASE n.kind = "module" -> n.groups
    [] n.kind = "group" -> Sign("KEYWORD_GROUP") \o Id(n.name) \o Sign("LBRACE")
                           \o n.env \o n.defns \o Sign("RBRACE")
    [] n.kind = "env" -> Id(n.field) \o Sign("COLON") \o Id(n.value) \o Sign("SEMICOLON")
    [] n.kind = "defn" -> Sign("KEYWORD_INFERENCE") \o Id(n.name) \o Sign("LBRACE")
                          \o GlobalsText(n.globals) \o ArgumentsText(n.arguments)
                          \o PremisesText(n.premises) \o <<n.proposition>> \o Sign("RBRACE")
    [] n.kind = "global" -> Id(n.name)
    [] n.kind = "argument" -> Id(n.name) \o Sign("COLON") \o Id(n.type)
    [] n.kind \in {"premise", "target"} -> <<n.alternative>>
    [] n.kind = "inference" ->
         Dotted(n.source) \o Sign("COLON") \o <<n.target>>
         \o (IF n.while = <<>> THEN <<>> ELSE WhileText(n.while[1])) \o Sign("SEMICOLON")
    [] n.kind = "equality" -> <<n.lhs>> \o Sign(n.op) \o <<n.rhs>>
                              \o n.range \o Sign("SEMICOLON")
    [] n.kind = "range" -> Sign("KEYWORD_INRANGE") \o Num(n.from) \o Sign("ELLIPSIS")
                           \o Num(n.to) \o Sign("ELLIPSIS") \o <<n.target>>
    [] n.kind = "proposition" -> Sign("KEYWORD_PROPOSITION") \o Sign("COLON") \o <<n.target>>
                                 \o Sign("SEMICOLON")
    [] n.kind = "singular" -> Id(n.name)
    [] n.kind = "array" -> Id(n.name) \o Sign("LBRACKET")
                           \o (IF n.size = <<>> THEN <<>> ELSE Num(n.size[1])) \o Sign("RBRACKET")
    [] n.kind = "computed" -> Id(n.name) \o Sign("LPAREN") \o Commas(n.arguments) \o Sign("RPAREN")
    [] OTHER -> <<n>>

\* A text with its nodes unfolded, and unfolded k times.
Unfolding(text) == FlattenSeq([j \in DOMAIN text |-> Unfold(text[j])])

Unfolded(text, k) ==
  LET unfolded[i \in 0 .. k] == IF i = 0 THEN text ELSE Unfolding(unfolded[i - 1])
  IN  unfolded[k]

\* A text is written with the tokens ts: that is what is left once all of its
\* nodes are unfolded.  A tree is no deeper than that.
Spells(text, ts) == \E k \in 0 .. 2 * Len(ts) + 1 : Unfolded(text, k) = ts

\* The text of the value v of a symbol of the grammar.
SymbolText(symbol, v) ==
  CASE symbol \in {"inference_group_list", "environment_defn_list", "inference_defn_list",
                   "premise_defn_list"} -> v
    [] symbol \in {"global_decl_list", "argument_list", "deduction_target_list"} -> Commas(v)
    [] symbol = "global_decl_set" -> GlobalsText(v)
    [] symbol = "argument_set" -> ArgumentsText(v)
    [] symbol = "premise_set" -> PremisesText(v)
    [] symbol = "while_clause" -> WhileText(v)
    [] symbol = "identifiable" -> Dotted(v)
    [] symbol = "identifier" -> Id(v)
    [] symbol = "equality_operator" -> Sign(v)
    [] symbol \in {"premise_defn", "deduction_target", "inference_group", "environment_defn",
                   "inference_defn", "global_decl", "inference_argument", "range_clause",
                   "premise_type_inference_defn", "premise_type_equality_defn",
                   "proposition_defn", "deduction_target_singular", "deduction_target_array",
                   "deduction_target_computed"} -> <<v>>
    [] OTHER -> <<Token(symbol, v)>>

=============================================================================
